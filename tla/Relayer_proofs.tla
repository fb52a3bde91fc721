--------------------------- MODULE Relayer_proofs ---------------------------
(***************************************************************************)
(* What holds of the relayer for every history, chunk size, batch limit    *)
(* and number of faults: types, the bound and the monotonicity of the      *)
(* checkpoint, and the tiling of a round's range by its chunks.            *)
(***************************************************************************)
EXTENDS Relayer, FiniteSetTheorems, TLAPS

USE CountAssumption, HistoryAssumption, ConfigAssumption DEF W

(***************************************************************************)
(* Finite sets of withdrawals have a size.                                 *)
(***************************************************************************)
LEMMA WFinite == ASSUME NEW S \in SUBSET W PROVE IsFiniteSet(S) /\ Cardinality(S) \in Nat
<1>1. IsFiniteSet(1..N)
  BY FS_Interval
<1>2. IsFiniteSet(S)
  BY <1>1, FS_Subset
<1> QED
  BY <1>2, FS_CardinalityType

\* A slice of the array is a part of it.
LEMMA SliceType == ASSUME NEW S \in SUBSET W, NEW k PROVE FirstOf(S, k) \in SUBSET S
  BY DEF FirstOf

\* Consuming a batch leaves counters that are counters.
LEMMA ConsumeType ==
    ASSUME NEW m \in [Hashes -> Nat], NEW batch \in SUBSET W
    PROVE  Consume(m, batch) \in [Hashes -> Nat]
<1> SUFFICES ASSUME NEW h \in Hashes
             PROVE  m[h] - Lesser(m[h], Cardinality({w \in batch : Hash[w] = h})) \in Nat
  BY DEF Consume
<1>1. Cardinality({w \in batch : Hash[w] = h}) \in Nat
  BY WFinite
<1> QED
  BY <1>1 DEF Lesser

\* The calls selected in a chunk are for withdrawals.
LEMMA ChoiceType == Choice \in SUBSET W
  BY DEF Choice, Selected, List

LEMMA ViewType ==
    ASSUME TypeOK
    PROVE  Answers \in [W -> Nat \cup {NoAnswer}]
  BY DEF TypeOK, WorldOK, MemoryOK, Answers

LEMMA ChunkEndType ==
    ASSUME NEW c \in Nat, NEW t \in Nat
    PROVE  /\ ChunkEnd(c, t) \in Nat
           /\ c < t => (c < ChunkEnd(c, t) /\ ChunkEnd(c, t) <= t)
  BY DEF ChunkEnd

\* A batch of the mempool is a set of withdrawals.
LEMMA BatchType ==
    ASSUME NEW q \in Seq(SUBSET W), NEW S \in SUBSET W, NEW k
    PROVE  Append(q, FirstOf(S, k)) \in Seq(SUBSET W)
<1>1. FirstOf(S, k) \in SUBSET W
  BY SliceType
<1> QED
  BY <1>1

\* What a step leaves alone keeps its type.
LEMMA SameWorld == ASSUME WorldOK, UNCHANGED world PROVE WorldOK'
  BY DEF WorldOK, world

LEMMA SameMemory == ASSUME MemoryOK, UNCHANGED memory PROVE MemoryOK'
  BY DEF MemoryOK, memory, bounds, walk, rest

\* The locals of a fresh round have their types.
LEMMA NewRoundType == ASSUME NewRound, isHighFee' \in BOOLEAN PROVE MemoryOK'
<1>1. ans' \in [W -> Nat \cup {NoAnswer}]
  BY DEF NewRound, NoAnswers
<1>2. counted' \in [W -> Nat]
  BY DEF NewRound
<1>3. pc' \in Locations
  BY DEF NewRound, Locations
<1>4. from' \in Nat /\ to' \in Nat /\ seen' \in 0..MaxBlock /\ lo' \in Nat /\ cur' \in Nat
  BY DEF NewRound
<1>5. reqs' \subseteq W /\ todo' \subseteq W /\ marked' \in BOOLEAN
  BY DEF NewRound
<1> QED
  BY <1>1, <1>2, <1>3, <1>4, <1>5 DEF MemoryOK

-----------------------------------------------------------------------------
(***************************************************************************)
(* Types.                                                                  *)
(***************************************************************************)
LEMMA InitType == Init => TypeOK
<1> SUFFICES ASSUME Init PROVE TypeOK
  OBVIOUS
<1>1. ans \in [W -> Nat \cup {NoAnswer}] /\ counted \in [W -> Nat]
  BY DEF Init, NoAnswers
<1>2. inflight \in Seq(SUBSET W)
  BY DEF Init
<1>3. WorldOK
  BY <1>2 DEF Init, WorldOK
<1>4. from \in Nat /\ to \in Nat /\ seen \in 0..MaxBlock /\ lo \in Nat /\ cur \in Nat
  BY DEF Init
<1>5. /\ pc \in Locations /\ reqs \subseteq W /\ todo \subseteq W
      /\ marked \in BOOLEAN /\ isHighFee \in BOOLEAN
  BY DEF Init, Locations
<1>6. MemoryOK
  BY <1>1, <1>4, <1>5 DEF MemoryOK
<1> QED
  BY <1>3, <1>6 DEF Init, TypeOK

LEMMA EnvironmentType == ASSUME TypeOK, Environment PROVE TypeOK'
<1> USE DEF TypeOK, history
<1>1. CASE IndexBlock
  <2>1. WorldOK'
    BY <1>1 DEF IndexBlock, WorldOK
  <2> QED
    BY <1>1, <2>1, SameMemory DEF IndexBlock
<1>2. CASE UpdateState
  <2> DEFINE Fresh(h) == Cardinality({w \in W : Hash[w] = h /\ Block[w] = stateBlock + 1})
  <2>1. \A h \in Hashes : Fresh(h) \in Nat
    BY WFinite
  <2>2. msgs' = [h \in Hashes |-> msgs[h] + Fresh(h)]
    BY <1>2 DEF UpdateState
  <2>3. msgs' \in [Hashes -> Nat]
    <3> HIDE DEF Fresh
    <3> QED
      BY <2>1, <2>2 DEF WorldOK
  <2>4. WorldOK'
    <3> HIDE DEF Fresh
    <3> QED
      BY <1>2, <2>3 DEF UpdateState, WorldOK
  <2> QED
    BY <1>2, <2>4, SameMemory DEF UpdateState
<1>3. CASE SelfWithdraw
  <2>1. msgs' \in [Hashes -> Nat]
    BY <1>3 DEF SelfWithdraw, WorldOK
  <2>2. WorldOK'
    BY <1>3, <2>1 DEF SelfWithdraw, WorldOK
  <2> QED
    BY <1>3, <2>2, SameMemory DEF SelfWithdraw
<1>4. CASE PriceMoves
  <2>1. WorldOK'
    BY <1>4 DEF PriceMoves, WorldOK
  <2> QED
    BY <1>4, <2>1, SameMemory DEF PriceMoves
<1>5. CASE Mine
  <2>1. Head(inflight) \in SUBSET W /\ Tail(inflight) \in Seq(SUBSET W)
    BY <1>5 DEF Mine, WorldOK
  <2>2. msgs' \in [Hashes -> Nat]
    BY <1>5, <2>1, ConsumeType DEF Mine, WorldOK
  <2>3. relayed' \in [W -> Nat]
    BY <1>5 DEF Mine
  <2>4. WorldOK'
    BY <1>5, <2>1, <2>2 DEF Mine, WorldOK
  <2> QED
    BY <1>5, <2>3, <2>4, SameMemory DEF Mine
<1> QED
  BY <1>1, <1>2, <1>3, <1>4, <1>5 DEF Environment

LEMMA RoundType == ASSUME TypeOK, Round PROVE TypeOK'
<1> USE DEF TypeOK, history
<1>1. CASE ReadCheckpoint
  <2>1. MemoryOK' /\ stored' \in Nat
    BY <1>1 DEF ReadCheckpoint, MemoryOK, Locations, walk, rest
  <2> QED
    BY <1>1, <2>1, SameWorld DEF ReadCheckpoint
<1>2. CASE ReadIndexer
  <2>1. to' \in Nat
    BY <1>2 DEF ReadIndexer, MemoryOK, WorldOK
  <2>2. MemoryOK'
    BY <1>2, <2>1 DEF ReadIndexer, MemoryOK, Locations, walk, rest
  <2> QED
    BY <1>2, <2>2, SameWorld DEF ReadIndexer
<1>3. CASE ReadState
  <2>1. to' \in Nat /\ from' \in Nat /\ seen' \in 0..MaxBlock
    BY <1>3 DEF ReadState, MemoryOK, WorldOK, Lesser
  <2>2. MemoryOK'
    BY <1>3, <2>1 DEF ReadState, MemoryOK, Locations, rest
  <2> QED
    BY <1>3, <2>2, SameWorld DEF ReadState
<1>4. CASE NextChunk
  <2>1. counted' \in [W -> Nat]
    BY <1>4 DEF NextChunk, MemoryOK
  <2>2. ans' \in [W -> Nat \cup {NoAnswer}]
    BY <1>4 DEF NextChunk, NoAnswers
  <2>3. cur' \in Nat /\ lo' \in Nat /\ pc' \in Locations
    BY <1>4, ChunkEndType DEF NextChunk, MemoryOK, Locations
  <2>4. MemoryOK'
    BY <1>4, <2>1, <2>2, <2>3 DEF NextChunk, MemoryOK, bounds, rest
  <2> QED
    BY <1>4, <2>4, SameWorld DEF NextChunk
<1>5. CASE ViewSome
  <2>1. MemoryOK'
    BY <1>5, ViewType DEF ViewSome, MemoryOK, bounds, rest
  <2> QED
    BY <1>5, <2>1, SameWorld DEF ViewSome
<1>6. CASE ViewLast
  <2>1. MemoryOK'
    BY <1>6, ViewType, ChoiceType DEF ViewLast, MemoryOK, Locations, bounds, rest
  <2> QED
    BY <1>6, <2>1, SameWorld DEF ViewLast
<1>7. CASE ViewThrows
  BY <1>7, NewRoundType, SameWorld DEF ViewThrows, MemoryOK
<1>8. CASE NothingToConsume
  <2>1. MemoryOK'
    BY <1>8 DEF NothingToConsume, MemoryOK, Locations, bounds, walk, rest
  <2> QED
    BY <1>8, <2>1, SameWorld DEF NothingToConsume
<1>9. CASE CostCovered
  <2>1. MemoryOK'
    BY <1>9 DEF CostCovered, MemoryOK, Locations, bounds, walk, rest
  <2> QED
    BY <1>9, <2>1, SameWorld DEF CostCovered
<1>10. CASE CostNotCovered
  BY <1>10, NewRoundType, SameWorld DEF CostNotCovered
<1>11. CASE Send
  <2>1. inflight' \in Seq(SUBSET W)
    BY <1>11, BatchType DEF Send, WorldOK, MemoryOK
  <2>2. WorldOK'
    BY <1>11, <2>1 DEF Send, WorldOK
  <2>3. MemoryOK'
    BY <1>11 DEF Send, MemoryOK, Locations, bounds, walk, rest
  <2> QED
    BY <1>11, <2>2, <2>3 DEF Send
<1>12. CASE Confirmed
  <2>1. todo' \subseteq W /\ pc' \in Locations /\ isHighFee' \in BOOLEAN
    BY <1>12 DEF Confirmed, MemoryOK, Locations
  <2>2. MemoryOK'
    BY <1>12, <2>1 DEF Confirmed, MemoryOK, bounds, walk
  <2> QED
    BY <1>12, <2>2, SameWorld DEF Confirmed
<1>13. CASE Reverted
  BY <1>13, NewRoundType, SameWorld DEF Reverted, MemoryOK
<1>14. CASE SaveCheckpoint
  <2>1. MemoryOK' /\ stored' \in Nat
    BY <1>14 DEF SaveCheckpoint, MemoryOK, Locations, bounds, walk, rest
  <2> QED
    BY <1>14, <2>1, SameWorld DEF SaveCheckpoint
<1>15. CASE StateMoved
  <2>1. MemoryOK'
    BY <1>15 DEF StateMoved, MemoryOK, WorldOK, walk
  <2> QED
    BY <1>15, <2>1, SameWorld DEF StateMoved
<1>16. CASE WakeUp
  BY <1>16, NewRoundType, SameWorld DEF WakeUp, MemoryOK
<1> QED
  BY <1>1, <1>2, <1>3, <1>4, <1>5, <1>6, <1>7, <1>8, <1>9, <1>10, <1>11, <1>12,
     <1>13, <1>14, <1>15, <1>16 DEF Round

LEMMA FaultsType == ASSUME TypeOK, Faults PROVE TypeOK'
<1> USE DEF TypeOK
<1>0. faults' \in 0..MaxFaults
  BY DEF Faults, Fail, SendAnswerLost, SaveAnswerLost, Crash, Fault
<1>1. CASE Fail
  BY <1>0, <1>1, NewRoundType, SameWorld DEF Fail, MemoryOK
<1>2. CASE SendAnswerLost
  <2>1. inflight' \in Seq(SUBSET W)
    BY <1>2, BatchType DEF SendAnswerLost, WorldOK, MemoryOK
  <2>2. WorldOK'
    BY <1>2, <2>1 DEF SendAnswerLost, WorldOK
  <2>3. isHighFee' \in BOOLEAN
    BY <1>2 DEF SendAnswerLost, MemoryOK
  <2>4. MemoryOK'
    <3>1. CASE NewRound
      BY <3>1, <2>3, NewRoundType
    <3>2. CASE UNCHANGED <<pc, bounds, walk, todo, marked>>
      BY <1>2, <3>2, SameMemory DEF SendAnswerLost, memory, rest
    <3> QED
      BY <1>2, <3>1, <3>2 DEF SendAnswerLost
  <2> QED
    BY <1>0, <1>2, <2>2, <2>4 DEF SendAnswerLost
<1>3. CASE SaveAnswerLost
  BY <1>0, <1>3, NewRoundType, SameWorld DEF SaveAnswerLost, MemoryOK
<1>4. CASE Crash
  BY <1>0, <1>4, NewRoundType, SameWorld DEF Crash
<1> QED
  BY <1>1, <1>2, <1>3, <1>4 DEF Faults

\* Every variable keeps its type: no counter of a message, of a fetch or of a
\* relayed call ever leaves the naturals (TypeOK).
THEOREM TypeCorrect == Spec => []TypeOK
<1>1. TypeOK /\ UNCHANGED vars => TypeOK'
  BY SameWorld, SameMemory DEF TypeOK, vars, history
<1>2. TypeOK /\ [Next]_vars => TypeOK'
  BY <1>1, EnvironmentType, RoundType, FaultsType DEF Next
<1> QED
  BY InitType, <1>2, PTL DEF Spec

-----------------------------------------------------------------------------
(***************************************************************************)
(* The checkpoint.                                                         *)
(***************************************************************************)
\* CheckpointBound and FetchedOnce are not inductive: what they need is where
\* the bounds of the round come from.  Before the state is read, from is the
\* stored block and to is a block of the indexer or from itself; during the walk
\* the range is non-empty, begins at the stored block and lies within both worlds.
RangeInv ==
    /\ pc \in {"indexer", "state"} => from = stored
    /\ pc = "state" => to = from \/ to <= indexed
    /\ pc \in Walking =>
          /\ from = stored /\ from <= cur /\ cur <= to
          /\ to <= indexed /\ to <= stateBlock
          /\ pc \in {"send", "wait", "save"} => cur = to

\* The totals are empty when a walk begins and hold the walked requests later.
CountInv ==
    /\ pc \in {"start", "indexer", "state"} => counted = [w \in W |-> 0]
    /\ pc \in Walking =>
          \A w \in W : counted[w] = IF w \in Requests(from, cur) THEN 1 ELSE 0

LEMMA InitRange == Init => RangeInv /\ CheckpointBound /\ CountInv
  BY DEF Init, RangeInv, CheckpointBound, CountInv, Walking

LEMMA NewRoundInv == NewRound => RangeInv' /\ CountInv'
  BY DEF NewRound, RangeInv, CountInv, Walking

\* Blocks (f, c] and (c, d] share no request and together are those of (f, d].
LEMMA Tiling ==
    ASSUME NEW f \in Nat, NEW c \in Nat, NEW d \in Nat, f <= c, c <= d, NEW w \in W
    PROVE  /\ w \in Requests(f, d) <=> (w \in Requests(f, c) \/ w \in Requests(c, d))
           /\ ~(w \in Requests(f, c) /\ w \in Requests(c, d))
           /\ w \notin Requests(f, f)
<1>1. Block[w] \in Nat
  OBVIOUS
<1> QED
  BY <1>1 DEF Requests, List

LEMMA EnvironmentRange ==
    ASSUME TypeOK, RangeInv, CheckpointBound, Environment
    PROVE  RangeInv' /\ CheckpointBound' /\ stored' = stored
<1>1. UNCHANGED <<stored, memory>>
  BY DEF Environment, IndexBlock, UpdateState, SelfWithdraw, PriceMoves, Mine
<1>2. indexed <= indexed' /\ stateBlock <= stateBlock'
  <2>1. CASE IndexBlock
    BY <2>1 DEF IndexBlock, TypeOK, WorldOK
  <2>2. CASE UpdateState
    BY <2>2 DEF UpdateState, TypeOK, WorldOK
  <2>3. CASE SelfWithdraw \/ PriceMoves \/ Mine
    BY <2>3 DEF SelfWithdraw, PriceMoves, Mine, TypeOK, WorldOK
  <2> QED
    BY <2>1, <2>2, <2>3 DEF Environment
<1>3. indexed' \in Int /\ stateBlock' \in Int
  BY EnvironmentType DEF TypeOK, WorldOK
<1>4. CheckpointBound'
  BY <1>1, <1>2, <1>3 DEF CheckpointBound, TypeOK, WorldOK
<1>5. RangeInv'
  BY <1>1, <1>2, <1>3 DEF RangeInv, TypeOK, WorldOK, MemoryOK, memory, bounds, walk, Walking
<1> QED
  BY <1>1, <1>4, <1>5

LEMMA RoundRange ==
    ASSUME TypeOK, RangeInv, CheckpointBound, Round
    PROVE  RangeInv' /\ CheckpointBound' /\ stored' >= stored
<1> USE DEF TypeOK, WorldOK, MemoryOK, RangeInv, Walking
<1>1. CASE ReadCheckpoint
  BY <1>1 DEF ReadCheckpoint, CheckpointBound, world
<1>2. CASE ReadIndexer
  BY <1>2 DEF ReadIndexer, CheckpointBound, world
<1>3. CASE ReadState
  BY <1>3 DEF ReadState, CheckpointBound, Lesser, world
<1>4. CASE NextChunk
  <2>1. cur \in Nat /\ to \in Nat /\ cur < to
    BY <1>4 DEF NextChunk
  <2>2. cur < cur' /\ cur' <= to
    BY <1>4, <2>1, ChunkEndType DEF NextChunk
  <2>3. cur' \in Nat
    BY <1>4, <2>1, ChunkEndType DEF NextChunk
  <2> QED
    BY <1>4, <2>1, <2>2, <2>3 DEF NextChunk, CheckpointBound, world, bounds
<1>5. CASE ViewSome \/ ViewLast \/ NothingToConsume \/ CostCovered
  BY <1>5 DEF ViewSome, ViewLast, NothingToConsume, CostCovered, CheckpointBound,
              world, bounds, walk
<1>6. CASE ViewThrows \/ CostNotCovered \/ Reverted \/ WakeUp
  <2>1. NewRound /\ UNCHANGED <<world, stored>>
    BY <1>6 DEF ViewThrows, CostNotCovered, Reverted, WakeUp
  <2> QED
    BY <2>1, NewRoundInv DEF CheckpointBound, world
<1>7. CASE Send
  BY <1>7 DEF Send, CheckpointBound, bounds, walk
<1>8. CASE Confirmed
  BY <1>8 DEF Confirmed, CheckpointBound, world, bounds, walk
<1>9. CASE SaveCheckpoint
  BY <1>9 DEF SaveCheckpoint, CheckpointBound, world, bounds, walk
<1>10. CASE StateMoved
  BY <1>10 DEF StateMoved, CheckpointBound, world, walk
<1> QED
  BY <1>1, <1>2, <1>3, <1>4, <1>5, <1>6, <1>7, <1>8, <1>9, <1>10 DEF Round

LEMMA FaultsRange ==
    ASSUME TypeOK, RangeInv, CheckpointBound, Faults
    PROVE  RangeInv' /\ CheckpointBound' /\ stored' >= stored
<1> USE DEF TypeOK, WorldOK, MemoryOK
<1>1. CASE Fail \/ Crash
  BY <1>1, NewRoundInv DEF Fail, Crash, CheckpointBound, world
<1>2. CASE SendAnswerLost
  <2>1. UNCHANGED <<indexed, stateBlock, stored>>
    BY <1>2 DEF SendAnswerLost
  <2>2. CASE NewRound
    BY <2>1, <2>2, NewRoundInv DEF CheckpointBound
  <2>3. CASE UNCHANGED <<pc, bounds, walk, todo, marked>>
    BY <2>1, <2>3 DEF CheckpointBound, RangeInv, Walking, bounds, walk
  <2> QED
    BY <1>2, <2>2, <2>3 DEF SendAnswerLost
<1>3. CASE SaveAnswerLost
  BY <1>3, NewRoundInv DEF SaveAnswerLost, CheckpointBound, RangeInv, Walking, world
<1> QED
  BY <1>1, <1>2, <1>3 DEF Faults

\* The step behind the two theorems on the checkpoint.
LEMMA RangeStep ==
    TypeOK /\ RangeInv /\ CheckpointBound /\ [Next]_vars
      => RangeInv' /\ CheckpointBound' /\ stored' >= stored
<1> SUFFICES ASSUME TypeOK, RangeInv, CheckpointBound, [Next]_vars
             PROVE  RangeInv' /\ CheckpointBound' /\ stored' >= stored
  OBVIOUS
<1>1. CASE UNCHANGED vars
  <2>1. UNCHANGED <<indexed, stateBlock, stored, pc, from, to, cur>>
    BY <1>1 DEF vars, world, memory, bounds, walk
  <2> QED
    BY <2>1 DEF TypeOK, RangeInv, CheckpointBound, Walking
<1>2. CASE Environment
  BY <1>2, EnvironmentRange DEF TypeOK
<1> QED
  BY <1>1, <1>2, RoundRange, FaultsRange DEF Next

\* The stored checkpoint never runs ahead of the indexer or of L1
\* (CheckpointBound): no later round skips a block that nobody looked at.
THEOREM CheckpointBounded == Spec => []CheckpointBound
<1>1. Spec => [](TypeOK /\ RangeInv /\ CheckpointBound)
  BY InitRange, RangeStep, TypeCorrect, PTL DEF Spec
<1> QED
  BY <1>1, PTL

\* It never moves back (CheckpointMonotone), in any step, crashes included.
THEOREM CheckpointNeverMovesBack == Spec => CheckpointMonotone
<1>1. Spec => [](TypeOK /\ RangeInv /\ CheckpointBound)
  BY InitRange, RangeStep, TypeCorrect, PTL DEF Spec
<1>2. TypeOK /\ RangeInv /\ CheckpointBound /\ [Next]_vars => [stored' >= stored]_vars
  BY RangeStep
<1> QED
  BY <1>1, <1>2, PTL DEF Spec, CheckpointMonotone

-----------------------------------------------------------------------------
(***************************************************************************)
(* The walk.                                                               *)
(***************************************************************************)
LEMMA CountStep ==
    TypeOK /\ RangeInv /\ CheckpointBound /\ CountInv /\ [Next]_vars => CountInv'
<1> SUFFICES ASSUME TypeOK, RangeInv, CheckpointBound, CountInv, [Next]_vars
             PROVE  CountInv'
  OBVIOUS
<1>1. CASE UNCHANGED vars \/ Environment
  <2>1. UNCHANGED <<pc, from, cur, counted>>
    BY <1>1 DEF vars, memory, bounds, walk, Environment, IndexBlock, UpdateState,
                SelfWithdraw, PriceMoves, Mine
  <2> QED
    BY <2>1 DEF CountInv
<1>2. CASE NewRound
  BY <1>2, NewRoundInv
<1>3. CASE ReadCheckpoint \/ ReadIndexer
  BY <1>3 DEF ReadCheckpoint, ReadIndexer, CountInv, Walking, walk
<1>4. CASE ReadState
  <2>1. from' = cur' /\ from' \in Nat
    BY <1>4 DEF ReadState, TypeOK, WorldOK, MemoryOK, Lesser
  <2>2. \A w \in W : w \notin Requests(from', cur')
    BY <2>1, Tiling
  <2>3. counted' = [w \in W |-> 0]
    BY <1>4 DEF ReadState, CountInv
  <2> QED
    BY <1>4, <2>2, <2>3 DEF ReadState, CountInv
<1>5. CASE NextChunk
  <2>0. from \in Nat /\ cur \in Nat /\ to \in Nat /\ from <= cur /\ cur < to
    BY <1>5 DEF NextChunk, TypeOK, MemoryOK, RangeInv, Walking
  <2>1. cur' \in Nat /\ cur <= cur'
    <3>1. cur' = ChunkEnd(cur, to)
      BY <1>5 DEF NextChunk
    <3>2. ChunkEnd(cur, to) \in Nat /\ cur < ChunkEnd(cur, to)
      BY <2>0, ChunkEndType
    <3> QED
      BY <2>0, <3>1, <3>2
  <2>2. \A w \in W : counted'[w] = counted[w] + IF w \in Requests(cur, cur') THEN 1 ELSE 0
    BY <1>5 DEF NextChunk
  <2>3. \A w \in W : counted[w] = IF w \in Requests(from, cur) THEN 1 ELSE 0
    BY <1>5 DEF NextChunk, CountInv, Walking
  <2>4. \A w \in W : counted'[w] = IF w \in Requests(from, cur') THEN 1 ELSE 0
    <3> SUFFICES ASSUME NEW w \in W
                 PROVE  counted'[w] = IF w \in Requests(from, cur') THEN 1 ELSE 0
      OBVIOUS
    <3>1. /\ w \in Requests(from, cur') <=> (w \in Requests(from, cur) \/ w \in Requests(cur, cur'))
          /\ ~(w \in Requests(from, cur) /\ w \in Requests(cur, cur'))
      BY <2>0, <2>1, Tiling
    <3> QED
      BY <2>2, <2>3, <3>1
  <2>5. from' = from /\ pc' \in Walking /\ pc' \notin {"start", "indexer", "state"}
    BY <1>5 DEF NextChunk, bounds, Walking
  <2> QED
    BY <2>4, <2>5 DEF CountInv
<1>6. CASE \/ ViewSome \/ ViewLast \/ NothingToConsume \/ CostCovered
           \/ Send \/ Confirmed \/ SaveCheckpoint \/ StateMoved
           \/ UNCHANGED <<pc, bounds, walk, todo, marked>>
  <2>1. UNCHANGED <<from, cur, counted>>
    BY <1>6 DEF ViewSome, ViewLast, NothingToConsume, CostCovered, Send, Confirmed,
                SaveCheckpoint, StateMoved, bounds, walk
  <2>2. /\ pc' \in {"start", "indexer", "state"} => pc \in {"start", "indexer", "state"}
        /\ pc' \in Walking => pc \in Walking
    BY <1>6 DEF ViewSome, ViewLast, NothingToConsume, CostCovered, Send, Confirmed,
                SaveCheckpoint, StateMoved, Walking
  <2> QED
    BY <2>1, <2>2 DEF CountInv
<1> QED
  BY <1>1, <1>2, <1>3, <1>4, <1>5, <1>6
     DEF Next, Round, Faults, ViewThrows, CostNotCovered, Reverted, WakeUp,
         Fail, SendAnswerLost, SaveAnswerLost, Crash

\* The chunks of a round tile its range: every paid withdrawal of it is fetched
\* and counted exactly once, no other is, and consuming and saving wait for the
\* whole range (FetchedOnce).
THEOREM RangeIsTiled == Spec => []FetchedOnce
<1>1. Spec => [](TypeOK /\ RangeInv /\ CheckpointBound /\ CountInv)
  BY InitRange, RangeStep, CountStep, TypeCorrect, PTL DEF Spec
<1>2. RangeInv /\ CountInv => FetchedOnce
  BY DEF RangeInv, CountInv, FetchedOnce, Walking
<1> QED
  BY <1>1, <1>2, PTL
=============================================================================
