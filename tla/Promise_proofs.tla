--------------------------- MODULE Promise_proofs ---------------------------
(***************************************************************************)
(* The relayer implements its promise: every step of a round, of the       *)
(* environment or of a fault is a step of AbstractRelay, or changes        *)
(* nothing that the promise speaks of.                                     *)
(***************************************************************************)
EXTENDS NoLoss_proofs

USE CountAssumption, HistoryAssumption, ConfigAssumption DEF W

\* The promise is about the same withdrawals.
Checkpoint == IF stored = 0 THEN FirstBlock ELSE stored

\* A round that reads on has a checkpoint, and one that walks has a way to go.
GoingInv ==
    /\ pc \in {"indexer", "state"} \cup Walking => stored = Checkpoint
    /\ pc \in Walking => from < to

LEMMA InitGoing == Init => GoingInv
  BY DEF Init, GoingInv, Walking

LEMMA GoingStep ==
    TypeOK /\ RangeInv /\ GoingInv /\ [Next]_vars => GoingInv'
<1> SUFFICES ASSUME TypeOK, RangeInv, GoingInv, [Next]_vars
             PROVE  GoingInv'
  OBVIOUS
<1> USE DEF TypeOK, WorldOK, MemoryOK, GoingInv, Checkpoint, Walking
<1>1. CASE NewRound
  BY <1>1 DEF NewRound
<1>2. CASE ReadCheckpoint \/ ReadIndexer \/ ReadState
  BY <1>2 DEF ReadCheckpoint, ReadIndexer, ReadState, Lesser
<1>3. CASE \/ NextChunk \/ ViewSome \/ ViewLast \/ NothingToConsume \/ CostCovered
           \/ Send \/ Confirmed
  BY <1>3 DEF NextChunk, ViewSome, ViewLast, NothingToConsume, CostCovered, Send,
              Confirmed, bounds
<1>4. CASE SaveCheckpoint \/ StateMoved
  BY <1>4 DEF SaveCheckpoint, StateMoved
<1>5. CASE UNCHANGED vars \/ Environment
  <2>1. UNCHANGED <<pc, stored, from, to>>
    BY <1>5 DEF vars, memory, bounds, Environment, IndexBlock, UpdateState, SelfWithdraw,
                PriceMoves, Mine
  <2> QED
    BY <2>1
<1>6. CASE UNCHANGED <<stored, pc, bounds>>
  BY <1>6 DEF bounds
<1> QED
  BY <1>1, <1>2, <1>3, <1>4, <1>5, <1>6
     DEF Next, Round, Faults, ViewThrows, CostNotCovered, Reverted, WakeUp,
         Fail, SendAnswerLost, SaveAnswerLost, Crash

-----------------------------------------------------------------------------
(***************************************************************************)
(* The simulation.                                                         *)
(***************************************************************************)
\* The instance counts with a Cardinality of its own, of the same definition.
LEMMA SameSize == ASSUME NEW S PROVE Promise!Cardinality(S) = Cardinality(S)
  BY Zenon DEF Cardinality, Promise!Cardinality

LEMMA InitPromise == Init => Promise!AInit
  BY DEF Init, Promise!AInit

LEMMA EnvironmentPromise ==
    ASSUME TypeOK, PaidInv, Environment
    PROVE  [Promise!ANext]_(Promise!avars)
<1> USE DEF TypeOK, WorldOK
<1>1. CASE IndexBlock
  <2>1. PICK w \in W : Block[w] > indexed /\ indexed' = Block[w]
    BY <1>1 DEF IndexBlock
  <2>2. indexed' \in (indexed + 1)..MaxBlock
    BY <2>1
  <2>3. Promise!Index
    BY <1>1, <2>2 DEF IndexBlock, Promise!Index
  <2> QED
    BY <2>3 DEF Promise!ANext
<1>2. CASE UpdateState
  <2>1. Promise!Prove
    BY <1>2, SameSize DEF UpdateState, Promise!Prove, Promise!W
  <2> QED
    BY <2>1 DEF Promise!ANext
<1>3. CASE SelfWithdraw
  <2>1. Promise!Claim
    BY <1>3 DEF SelfWithdraw, Promise!Claim
  <2> QED
    BY <2>1 DEF Promise!ANext
<1>4. CASE PriceMoves
  BY <1>4 DEF PriceMoves, Promise!avars
<1>5. CASE Mine
  <2>1. inflight \in Seq(SUBSET W) /\ inflight # <<>>
    BY <1>5 DEF Mine
  <2>2. Head(inflight) = inflight[1] /\ Len(inflight) \in Nat \ {0}
        /\ Head(inflight) \in SUBSET W
    BY <2>1, EmptySeq
  <2>3. Paid(Head(inflight))
    BY <2>2 DEF PaidInv
  <2>4. Head(inflight) \in SUBSET {w \in W : Eligible(w)}
    BY <2>2, <2>3 DEF Paid
  <2>5. msgs' = Promise!Consume(msgs, Head(inflight))
    BY <1>5, SameSize DEF Mine, Consume, Promise!Consume, Lesser, Promise!Lesser
  <2>6. Promise!Relay
    BY <1>5, <2>4, <2>5 DEF Mine, Promise!Relay, Eligible, Promise!Eligible, Promise!W
  <2> QED
    BY <2>6 DEF Promise!ANext
<1> QED
  BY <1>1, <1>2, <1>3, <1>4, <1>5 DEF Environment

\* Storing the end of the range is a commit of the promise.
LEMMA SavePromise ==
    ASSUME TypeOK, RangeInv, GoingInv, LossInv,
           pc = "save", stored' = cur, UNCHANGED <<indexed, stateBlock, msgs>>
    PROVE  Promise!Commit
<1> USE DEF TypeOK, WorldOK, MemoryOK
<1>1. /\ cur \in Nat /\ stored \in Nat /\ stored < cur /\ stored = Checkpoint
      /\ cur <= indexed /\ cur <= stateBlock
  BY DEF GoingInv, RangeInv, Walking
<1>2. cur \in (Checkpoint + 1)..Promise!Lesser(indexed, stateBlock)
  BY <1>1 DEF Promise!Lesser
<1>3. \A h \in Hashes : msgs[h] <= Cardinality(NotOwed(h, stateBlock, cur))
  BY SavedLoss DEF LossInv, Owed
<1>4. Promise!Settled(cur)
  BY <1>3, SameSize DEF Promise!Settled, NotOwed, Promise!NotOwed, Sent, Promise!Sent,
              Eligible, Promise!Eligible, Promise!W
<1>5. Checkpoint' = cur
  BY <1>1 DEF Checkpoint
<1> QED
  BY <1>2, <1>4, <1>5 DEF Promise!Commit, Checkpoint

LEMMA PromiseStep ==
    TypeOK /\ RangeInv /\ GoingInv /\ LossInv /\ PaidInv /\ [Next]_vars
      => [Promise!ANext]_(Promise!avars)
<1> SUFFICES ASSUME TypeOK, RangeInv, GoingInv, LossInv, PaidInv, [Next]_vars
             PROVE  [Promise!ANext]_(Promise!avars)
  OBVIOUS
<1>1. CASE Environment
  BY <1>1, EnvironmentPromise
<1>2. CASE SaveCheckpoint \/ SaveAnswerLost
  <2>1. pc = "save" /\ stored' = cur /\ UNCHANGED <<indexed, stateBlock, msgs>>
    BY <1>2 DEF SaveCheckpoint, SaveAnswerLost, world
  <2> QED
    BY <2>1, SavePromise DEF Promise!ANext
<1>3. CASE ReadCheckpoint
  <2>1. UNCHANGED <<indexed, stateBlock, msgs>>
        /\ stored' = IF stored = 0 THEN FirstBlock ELSE stored
    BY <1>3 DEF ReadCheckpoint, world
  <2> QED
    BY <2>1 DEF Promise!avars
<1>4. CASE UNCHANGED <<indexed, stateBlock, msgs, stored>>
  BY <1>4 DEF Promise!avars
<1>5. CASE \/ UNCHANGED vars \/ ReadIndexer \/ ReadState \/ NextChunk \/ ViewSome \/ ViewLast
           \/ ViewThrows \/ NothingToConsume \/ CostCovered \/ CostNotCovered \/ Send
           \/ Confirmed \/ Reverted \/ StateMoved \/ WakeUp
           \/ Fail \/ SendAnswerLost \/ Crash
  BY <1>4, <1>5
     DEF vars, world, ReadIndexer, ReadState, NextChunk, ViewSome, ViewLast, ViewThrows,
         NothingToConsume, CostCovered, CostNotCovered, Send, Confirmed, Reverted,
         StateMoved, WakeUp, Fail, SendAnswerLost, Crash
<1> QED
  BY <1>1, <1>2, <1>3, <1>5 DEF Next, Round, Faults

\* The relayer keeps its promise (KeepsPromise): messages are consumed only in
\* the name of paid withdrawals, and the checkpoint passes, forward, only blocks
\* that are settled, in every history whose chunks hold their eligible
\* withdrawals first.
THEOREM PromiseIsKept == AlignedChunks /\ Spec => KeepsPromise
<1>1. AlignedChunks /\ Spec => [](TypeOK /\ RangeInv /\ CheckpointBound)
  BY InitRange, RangeStep, TypeCorrect, PTL DEF Spec
<1>2. AlignedChunks => AlignedChunks'
  BY DEF AlignedChunks, Eligible
<1>3. AlignedChunks /\ Spec => [](AlignedChunks /\ TypeOK /\ RangeInv /\ LossInv)
  BY <1>1, <1>2, InitLoss, LossStep, PTL DEF Spec
<1>4. LossInv => WalkInv
  BY DEF LossInv
<1>5. AlignedChunks /\ Spec => [](PaidInv /\ GoingInv)
  BY <1>3, <1>4, InitPaid, PaidStep, InitGoing, GoingStep, PTL DEF Spec
<1> QED
  BY <1>3, <1>5, InitPromise, PromiseStep, PTL DEF Spec, KeepsPromise, Promise!ASpec

-----------------------------------------------------------------------------
(***************************************************************************)
(* What the promise is worth: whoever keeps it loses no withdrawal, and    *)
(* stores no block beyond the indexer or L1.                               *)
(***************************************************************************)
KeptInv ==
    /\ indexed \in Nat /\ stateBlock \in Nat /\ Checkpoint \in Nat
    /\ msgs \in [Hashes -> Nat]
    /\ Checkpoint <= FirstBlock \/ (Checkpoint <= indexed /\ Checkpoint <= stateBlock)
    /\ \A h \in Hashes : msgs[h] <= Owed(h, stateBlock, Checkpoint)

LEMMA InitKept == Promise!AInit => KeptInv
<1> SUFFICES ASSUME Promise!AInit PROVE KeptInv
  OBVIOUS
<1>1. /\ indexed = 0 /\ stateBlock = 0 /\ Checkpoint = FirstBlock
      /\ msgs = [h \in Hashes |-> 0]
  BY DEF Promise!AInit, Checkpoint
<1>2. \A h \in Hashes : Owed(h, 0, FirstBlock) \in Nat
  BY OwedType
<1> QED
  BY <1>1, <1>2 DEF KeptInv

LEMMA ConsumeKept ==
    ASSUME KeptInv, NEW S \in SUBSET W, msgs' = Consume(msgs, S),
           UNCHANGED <<indexed, stateBlock>>, Checkpoint' = Checkpoint
    PROVE  KeptInv'
<1>1. msgs' \in [Hashes -> Nat]
  BY ConsumeType DEF KeptInv
<1>2. ASSUME NEW h \in Hashes PROVE msgs'[h] <= Owed(h, stateBlock, Checkpoint)
  <2>1. msgs[h] \in Nat /\ msgs[h] <= Owed(h, stateBlock, Checkpoint)
    BY DEF KeptInv
  <2>2. msgs'[h] <= msgs[h]
    BY ConsumeLess DEF KeptInv
  <2>3. msgs'[h] \in Nat /\ Owed(h, stateBlock, Checkpoint) \in Nat
    BY <1>1, OwedType
  <2> QED
    BY <2>1, <2>2, <2>3
<1> QED
  BY <1>1, <1>2 DEF KeptInv

LEMMA KeptStep == KeptInv /\ [Promise!ANext]_(Promise!avars) => KeptInv'
<1> SUFFICES ASSUME KeptInv, [Promise!ANext]_(Promise!avars) PROVE KeptInv'
  OBVIOUS
<1>0. \A h \in Hashes : Owed(h, stateBlock, Checkpoint) \in Nat /\ msgs[h] \in Nat
  BY OwedType DEF KeptInv
<1>1. CASE Promise!Index
  <2>1. /\ indexed' \in (indexed + 1)..MaxBlock
        /\ UNCHANGED <<stateBlock, msgs>> /\ Checkpoint' = Checkpoint
    BY <1>1 DEF Promise!Index, Checkpoint
  <2>2. indexed' \in Nat /\ indexed <= indexed'
    BY <2>1 DEF KeptInv
  <2> QED
    BY <2>1, <2>2 DEF KeptInv
<1>2. CASE Promise!Prove
  <2> DEFINE new(h) == Cardinality({w \in W : Hash[w] = h /\ Block[w] = stateBlock + 1})
  <2>1. /\ stateBlock' = stateBlock + 1 /\ indexed' = indexed /\ Checkpoint' = Checkpoint
        /\ msgs' = [h \in Hashes |-> msgs[h] + new(h)]
    BY <1>2, SameSize DEF Promise!Prove, Checkpoint, Promise!W
  <2>2. \A h \in Hashes : new(h) \in Nat
    BY WFinite
  <2>3. \A h \in Hashes :
          Owed(h, stateBlock + 1, Checkpoint) = Owed(h, stateBlock, Checkpoint) + new(h)
    BY OwedProve DEF KeptInv
  <2> HIDE DEF new
  <2>4. msgs' \in [Hashes -> Nat]
    BY <1>0, <2>1, <2>2
  <2>5. ASSUME NEW h \in Hashes PROVE msgs'[h] <= Owed(h, stateBlock + 1, Checkpoint)
    <3>1. msgs[h] <= Owed(h, stateBlock, Checkpoint)
      BY DEF KeptInv
    <3>2. msgs'[h] = msgs[h] + new(h)
      BY <2>1
    <3> QED
      BY <1>0, <2>2, <2>3, <3>1, <3>2
  <2> QED
    BY <2>1, <2>4, <2>5 DEF KeptInv
<1>3. CASE Promise!Claim
  <2>1. UNCHANGED <<indexed, stateBlock>> /\ Checkpoint' = Checkpoint
    BY <1>3 DEF Promise!Claim, Checkpoint
  <2>2. PICK h \in Hashes : msgs[h] > 0 /\ msgs' = [msgs EXCEPT ![h] = @ - 1]
    BY <1>3 DEF Promise!Claim
  <2>3. msgs' \in [Hashes -> Nat] /\ \A k \in Hashes : msgs'[k] <= msgs[k]
    BY <1>0, <2>2 DEF KeptInv
  <2> QED
    BY <1>0, <2>1, <2>3 DEF KeptInv
<1>4. CASE Promise!Relay
  <2>1. UNCHANGED <<indexed, stateBlock>> /\ Checkpoint' = Checkpoint
    BY <1>4 DEF Promise!Relay, Checkpoint
  <2>2. PICK S \in SUBSET {w \in Promise!W : Promise!Eligible(w)} :
              msgs' = Promise!Consume(msgs, S)
    BY <1>4 DEF Promise!Relay
  <2>3. S \in SUBSET W
    BY DEF Promise!W
  <2>4. msgs' = Consume(msgs, S)
    BY <2>2, SameSize DEF Consume, Promise!Consume, Lesser, Promise!Lesser
  <2> QED
    BY <2>1, <2>3, <2>4, ConsumeKept
<1>5. CASE Promise!Commit
  <2>1. UNCHANGED <<indexed, stateBlock, msgs>>
    BY <1>5 DEF Promise!Commit
  <2>2. PICK p \in (Checkpoint + 1)..Promise!Lesser(indexed, stateBlock) :
              Promise!Settled(p) /\ Checkpoint' = p
    BY <1>5 DEF Promise!Commit, Checkpoint
  <2>3. p \in Nat /\ p <= indexed /\ p <= stateBlock
    BY DEF Promise!Lesser, KeptInv
  <2>4. \A h \in Hashes : msgs[h] <= Owed(h, stateBlock, p)
    BY <2>2, SameSize DEF Promise!Settled, Owed, NotOwed, Promise!NotOwed, Sent, Promise!Sent,
                          Eligible, Promise!Eligible, Promise!W
  <2> QED
    BY <2>1, <2>2, <2>3, <2>4 DEF KeptInv
<1>6. CASE UNCHANGED Promise!avars
  BY <1>6 DEF Promise!avars, KeptInv, Checkpoint
<1> QED
  BY <1>1, <1>2, <1>3, <1>4, <1>5, <1>6 DEF Promise!ANext

\* The promise says enough: NoLoss and CheckpointBound hold of every behaviour,
\* of the relayer or not, that keeps it, for every history.
THEOREM PromiseSuffices == KeepsPromise => [](NoLoss /\ CheckpointBound)
<1>1. KeptInv => NoLoss /\ CheckpointBound
  <2> SUFFICES ASSUME KeptInv PROVE NoLoss /\ CheckpointBound
    OBVIOUS
  <2>1. CheckpointBound
    BY DEF KeptInv, CheckpointBound, Checkpoint
  <2>2. \A h \in Hashes : NotOwed(h, stateBlock, Checkpoint) = NotOwed(h, stateBlock, stored)
    BY OwedStart DEF Checkpoint
  <2> QED
    BY <2>1, <2>2 DEF KeptInv, NoLoss, Owed
<1> QED
  BY <1>1, InitKept, KeptStep, PTL DEF KeepsPromise, Promise!ASpec

-----------------------------------------------------------------------------
(***************************************************************************)
(* Ahead of the checkpoint.  What a round calls lies between the stored    *)
(* block and the walked one, and before the first fault the mempool holds  *)
(* nothing but the batch that the round waits for.                         *)
(***************************************************************************)
BatchOfRound ==
    faults = 0 =>
        \/ inflight = <<>>
        \/ pc = "wait" /\ Tail(inflight) = <<>> /\ Head(inflight) = FirstOf(todo, BatchLimit)

AheadInv ==
    /\ pc = "view" => stored <= lo /\ lo <= cur
    /\ pc \in {"start", "indexer", "state"} => reqs = {}
    /\ pc \in {"start", "indexer", "state", "chunk", "view"} => todo = {}
    /\ pc \in {"send", "wait", "save"} => todo \subseteq reqs
    /\ pc \in {"send", "wait"} => todo # {}
    /\ pc = "save" => todo = {}
    /\ pc \in Walking => \A w \in reqs : stored < Block[w] /\ Block[w] <= Walked
    /\ BatchOfRound

LEMMA InitAhead == Init => AheadInv
  BY DEF Init, AheadInv, BatchOfRound, Walking

LEMMA NewRoundAhead == ASSUME NewRound, faults' = 0 => inflight' = <<>> PROVE AheadInv'
  BY DEF NewRound, AheadInv, BatchOfRound, Walking

\* The calls of a chunk that was viewed are of its blocks.
LEMMA ViewedAhead ==
    ASSUME TypeOK, AheadInv, pc = "view", pc' = "chunk",
           NEW C \in SUBSET List(lo, cur), reqs' = reqs \cup C,
           UNCHANGED <<stored, inflight, lo, cur, todo, faults>>
    PROVE  AheadInv'
<1> USE DEF TypeOK, MemoryOK, Walking
<1>1. stored \in Nat /\ lo \in Nat /\ cur \in Nat /\ stored <= lo /\ lo <= cur
  BY DEF AheadInv
<1>2. ASSUME NEW w \in reqs' PROVE stored < Block[w] /\ Block[w] <= cur
  <2>1. CASE w \in reqs
    <3>1. stored < Block[w] /\ Block[w] <= lo /\ Block[w] \in Nat
      BY <2>1 DEF AheadInv, Walked
    <3> QED
      BY <1>1, <3>1
  <2>2. CASE w \in C
    <3>1. w \in List(lo, cur)
      BY <2>2
    <3>2. w \in W /\ lo + 1 <= Block[w] /\ Block[w] <= cur
      BY <3>1 DEF List
    <3>3. Block[w] \in Nat
      BY <3>2
    <3> QED
      BY <1>1, <3>2, <3>3
  <2> QED
    BY <1>2, <2>1, <2>2
<1>3. BatchOfRound'
  BY DEF AheadInv, BatchOfRound
<1> QED
  BY <1>2, <1>3 DEF AheadInv, Walked

LEMMA AheadStep == TypeOK /\ RangeInv /\ AheadInv /\ [Next]_vars => AheadInv'
<1> SUFFICES ASSUME TypeOK, RangeInv, AheadInv, [Next]_vars
             PROVE  AheadInv'
  OBVIOUS
<1> USE DEF TypeOK, WorldOK, MemoryOK, RangeInv, Walking
<1>0. ASSUME NewRound, faults' = 0 => faults = 0 /\ pc # "wait" /\ inflight' = inflight
      PROVE  AheadInv'
  BY <1>0, NewRoundAhead DEF AheadInv, BatchOfRound
<1>1. CASE ReadCheckpoint \/ ReadIndexer
  BY <1>1 DEF ReadCheckpoint, ReadIndexer, AheadInv, BatchOfRound, world, walk, history
<1>2. CASE ReadState
  <2>1. pc = "state" /\ pc' \in {"chunk", "wakeup"} /\ UNCHANGED <<inflight, reqs, todo, faults>>
    BY <1>2 DEF ReadState, world, history
  <2> QED
    BY <2>1 DEF AheadInv, BatchOfRound
<1>3. CASE NextChunk
  <2>1. /\ UNCHANGED <<stored, inflight, reqs, todo, faults>> /\ lo' = cur
        /\ pc = "chunk" /\ pc' \in {"chunk", "view"}
    BY <1>3 DEF NextChunk, world, bounds, history
  <2>2. cur \in Nat /\ cur' \in Nat /\ stored \in Nat /\ stored <= cur /\ cur <= cur'
    <3>1. /\ cur \in Nat /\ to \in Nat /\ stored \in Nat /\ stored <= cur /\ cur < to
          /\ cur' = ChunkEnd(cur, to)
      BY <1>3 DEF NextChunk
    <3>2. ChunkEnd(cur, to) \in Nat /\ cur < ChunkEnd(cur, to)
      BY <3>1, ChunkEndType
    <3> QED
      BY <3>1, <3>2
  <2>3. ASSUME NEW w \in reqs' PROVE stored' < Block[w] /\ Block[w] <= Walked'
    <3>1. stored < Block[w] /\ Block[w] <= cur /\ Block[w] \in Nat
      BY <2>1, <2>3 DEF AheadInv, Walked
    <3>2. Walked' = cur \/ Walked' = cur'
      BY <2>1 DEF Walked
    <3>3. Block[w] <= cur'
      BY <2>2, <3>1
    <3> QED
      BY <2>1, <3>1, <3>2, <3>3
  <2>4. BatchOfRound'
    BY <2>1 DEF AheadInv, BatchOfRound
  <2> QED
    BY <2>1, <2>2, <2>3, <2>4 DEF AheadInv
<1>4. CASE ViewSome
  <2>1. pc = "view" /\ UNCHANGED <<stored, inflight, pc, lo, cur, reqs, todo, faults>>
    BY <1>4 DEF ViewSome, world, bounds, history
  <2> QED
    BY <2>1 DEF AheadInv, BatchOfRound, Walked
<1>5. CASE ViewLast
  <2>1. /\ pc = "view" /\ pc' = "chunk" /\ reqs' = reqs \cup Choice
        /\ UNCHANGED <<stored, inflight, lo, cur, todo, faults>>
    BY <1>5 DEF ViewLast, world, bounds, history
  <2>2. Choice \in SUBSET List(lo, cur)
    BY DEF Choice, Selected
  <2> QED
    BY <2>1, <2>2, ViewedAhead
<1>6. CASE NothingToConsume
  <2>1. /\ pc = "chunk" /\ pc' = "save" /\ UNCHANGED <<stored, inflight, cur, reqs, todo, faults>>
    BY <1>6 DEF NothingToConsume, world, walk, history
  <2> QED
    BY <2>1 DEF AheadInv, BatchOfRound, Walked
<1>7. CASE CostCovered
  <2>1. /\ pc = "chunk" /\ pc' = "send" /\ UNCHANGED <<stored, inflight, cur, reqs, faults>>
        /\ todo' = reqs /\ reqs # {}
    BY <1>7 DEF CostCovered, world, walk, history
  <2> QED
    BY <2>1 DEF AheadInv, BatchOfRound, Walked
<1>8. CASE Send
  <2>1. /\ pc = "send" /\ pc' = "wait" /\ UNCHANGED <<stored, cur, reqs, todo, faults>>
        /\ inflight' = Append(inflight, FirstOf(todo, BatchLimit))
    BY <1>8 DEF Send, walk, history
  <2>2. faults = 0 => Tail(inflight') = <<>> /\ Head(inflight') = FirstOf(todo, BatchLimit)
    <3> SUFFICES ASSUME faults = 0
                 PROVE  Tail(inflight') = <<>> /\ Head(inflight') = FirstOf(todo, BatchLimit)
      OBVIOUS
    <3>1. inflight = <<>>
      BY <2>1 DEF AheadInv, BatchOfRound
    <3>2. FirstOf(todo, BatchLimit) \in SUBSET W
      BY SliceType
    <3>3. inflight' = <<FirstOf(todo, BatchLimit)>>
      BY <2>1, <3>1, <3>2
    <3> QED
      BY <3>2, <3>3
  <2>3. BatchOfRound'
    BY <2>1, <2>2 DEF BatchOfRound
  <2> QED
    BY <2>1, <2>3 DEF AheadInv, Walked
<1>9. CASE Confirmed
  <2>1. /\ pc = "wait" /\ UNCHANGED <<stored, cur, reqs, faults, inflight>> /\ inflight = <<>>
        /\ todo' = todo \ FirstOf(todo, BatchLimit)
        /\ \/ todo' = {} /\ pc' = "save"
           \/ todo' # {} /\ pc' = "send"
    BY <1>9 DEF Confirmed, world, walk, history
  <2> QED
    BY <2>1 DEF AheadInv, BatchOfRound, Walked
<1>10. CASE SaveCheckpoint
  <2>1. pc = "save" /\ pc' = "wakeup" /\ UNCHANGED <<inflight, faults>>
    BY <1>10 DEF SaveCheckpoint, world, history
  <2> QED
    BY <2>1 DEF AheadInv, BatchOfRound
<1>11. CASE StateMoved
  <2>1. pc = "wakeup" /\ pc' = "wakeup" /\ UNCHANGED <<inflight, faults>>
    BY <1>11 DEF StateMoved, world, history
  <2> QED
    BY <2>1 DEF AheadInv, BatchOfRound
<1>12. CASE ViewThrows \/ CostNotCovered \/ WakeUp
  BY <1>0, <1>12 DEF ViewThrows, CostNotCovered, WakeUp, world, history
<1>13. CASE Reverted
  BY <1>13, NewRoundAhead DEF Reverted, world, history
<1>14. CASE Fail \/ SaveAnswerLost \/ Crash
  BY <1>0, <1>14 DEF Fail, SaveAnswerLost, Crash, Fault
<1>15. CASE SendAnswerLost
  <2>1. faults' # 0
    BY <1>15 DEF SendAnswerLost, Fault
  <2>2. CASE NewRound
    BY <1>0, <2>1, <2>2
  <2>3. CASE UNCHANGED <<pc, bounds, walk, todo, marked>>
    BY <1>15, <2>1, <2>3 DEF SendAnswerLost, AheadInv, BatchOfRound, Walked, walk
  <2> QED
    BY <1>15, <2>2, <2>3 DEF SendAnswerLost
<1>16. CASE Mine
  <2>1. /\ UNCHANGED <<stored, pc, lo, cur, reqs, todo, faults>>
        /\ inflight # <<>> /\ inflight' = Tail(inflight)
    BY <1>16 DEF Mine, memory, walk
  <2>2. BatchOfRound'
    BY <2>1 DEF AheadInv, BatchOfRound
  <2> QED
    BY <2>1, <2>2 DEF AheadInv, Walked
<1>17. CASE UNCHANGED vars \/ IndexBlock \/ UpdateState \/ SelfWithdraw \/ PriceMoves
  <2>1. UNCHANGED <<inflight, stored, pc, lo, cur, reqs, todo, faults>>
    BY <1>17 DEF vars, world, memory, walk, history, IndexBlock, UpdateState, SelfWithdraw,
                 PriceMoves
  <2> QED
    BY <2>1 DEF AheadInv, BatchOfRound, Walked
<1> QED
  BY <1>1, <1>2, <1>3, <1>4, <1>5, <1>6, <1>7, <1>8, <1>9, <1>10, <1>11, <1>12, <1>13,
     <1>14, <1>15, <1>16, <1>17 DEF Next, Round, Environment, Faults

\* Only a mined batch relays anything.
LEMMA OnlyMineRelays == ASSUME [Next]_vars, ~Mine PROVE relayed' = relayed
  BY DEF Next, Round, Environment, Faults, vars, history, IndexBlock, UpdateState, SelfWithdraw,
         PriceMoves, ReadCheckpoint, ReadIndexer, ReadState, NextChunk, ViewSome, ViewLast,
         ViewThrows, NothingToConsume, CostCovered, CostNotCovered, Send, Confirmed, Reverted,
         SaveCheckpoint, StateMoved, WakeUp, Fail, SendAnswerLost, SaveAnswerLost, Crash

\* What it relays before the first fault is of the batch the round waits for.
LEMMA MineRelays ==
    ASSUME TypeOK, AheadInv, faults = 0, Mine
    PROVE  /\ pc = "wait" /\ inflight' = <<>> /\ FirstOf(todo, BatchLimit) \subseteq todo
           /\ \A w \in W :
                 relayed'[w] = relayed[w] + IF w \in Successful(msgs, FirstOf(todo, BatchLimit))
                                            THEN 1 ELSE 0
           /\ txOk' = (Successful(msgs, FirstOf(todo, BatchLimit)) # {})
           /\ Successful(msgs, FirstOf(todo, BatchLimit)) \subseteq FirstOf(todo, BatchLimit)
<1>1. pc = "wait" /\ Tail(inflight) = <<>> /\ Head(inflight) = FirstOf(todo, BatchLimit)
  BY DEF Mine, AheadInv, BatchOfRound
<1>2. FirstOf(todo, BatchLimit) \subseteq todo
  BY SliceType DEF TypeOK, MemoryOK
<1> QED
  BY <1>1, <1>2 DEF Mine, Successful

\* Before the first fault nothing at or below the checkpoint is relayed
\* (RelayedAhead): a block that was saved is never processed again, for every
\* history, aligned or not.
THEOREM NothingBehindIsRelayed == Spec => RelayedAhead
<1>1. Spec => [](TypeOK /\ RangeInv /\ CheckpointBound)
  BY InitRange, RangeStep, TypeCorrect, PTL DEF Spec
<1>2. Spec => [](TypeOK /\ AheadInv)
  BY <1>1, InitAhead, AheadStep, PTL DEF Spec
<1>3. TypeOK /\ AheadInv /\ [Next]_vars
        => [faults = 0 => \A w \in W : relayed'[w] > relayed[w] => stored < Block[w]]_vars
  <2> SUFFICES ASSUME TypeOK, AheadInv, [Next]_vars, faults = 0, NEW w \in W,
                      relayed'[w] > relayed[w]
               PROVE  stored < Block[w]
    OBVIOUS
  <2>1. relayed[w] \in Nat
    BY DEF TypeOK
  <2>2. Mine
    BY <2>1, OnlyMineRelays
  <2>3. w \in todo /\ pc = "wait"
    BY <2>1, <2>2, MineRelays
  <2> QED
    BY <2>3 DEF AheadInv, Walking
<1> QED
  BY <1>2, <1>3, PTL DEF Spec, RelayedAhead

-----------------------------------------------------------------------------
(***************************************************************************)
(* Once, and once more for each fault.  Before a call is sent it has a     *)
(* right to be made; the right goes with the batch into the mempool, and   *)
(* ends when the batch is mined.  Only a fault gives a withdrawal another. *)
(***************************************************************************)
\* The calls of the round that no batch holds yet.
Unsent == IF pc = "wait" THEN todo \ FirstOf(todo, BatchLimit) ELSE todo

\* The batches of q that call for w.
InFlight(q, w) == Cardinality({k \in 1..Len(q) : w \in q[k]})

\* Without a fault, this round or a later one may still call for w.
MayCall(w) ==
    /\ stored < Block[w]
    /\ pc \in {"send", "wait", "save"} => w \notin reqs \ Unsent

Spent(w) == relayed[w] + InFlight(inflight, w) + IF MayCall(w) THEN 1 ELSE 0

\* A transaction that reverted relayed nothing, so that its right is back.
BudgetInv ==
    \A w \in W :
        /\ Spent(w) <= 1 + faults
        /\ pc = "wait" /\ inflight = <<>> /\ ~txOk /\ w \in FirstOf(todo, BatchLimit)
             => relayed[w] <= faults

LEMMA InFlightType == ASSUME NEW q \in Seq(SUBSET W), NEW w PROVE InFlight(q, w) \in Nat
<1>1. Len(q) \in Nat
  OBVIOUS
<1>2. IsFiniteSet(1..Len(q))
  BY <1>1, FS_Interval
<1>3. {k \in 1..Len(q) : w \in q[k]} \in SUBSET (1..Len(q))
  OBVIOUS
<1> QED
  BY <1>2, <1>3, FS_Subset, FS_CardinalityType DEF InFlight

LEMMA InFlightNone == ASSUME NEW w PROVE InFlight(<<>>, w) = 0
<1>1. {k \in 1..Len(<<>>) : w \in <<>>[k]} = {}
  OBVIOUS
<1> QED
  BY <1>1, FS_EmptySet DEF InFlight

\* A batch that is sent.
LEMMA InFlightAppend ==
    ASSUME NEW q \in Seq(SUBSET W), NEW S \in SUBSET W, NEW r, r = Append(q, S)
    PROVE  \A w : InFlight(r, w) = InFlight(q, w) + IF w \in S THEN 1 ELSE 0
<1> SUFFICES ASSUME NEW w
             PROVE  InFlight(r, w) = InFlight(q, w) + IF w \in S THEN 1 ELSE 0
  OBVIOUS
<1> DEFINE K == {k \in 1..Len(q) : w \in q[k]}
           n == Len(q) + 1
<1>1. Len(q) \in Nat /\ Len(r) = n /\ r[n] = S /\ \A k \in 1..Len(q) : r[k] = q[k]
  OBVIOUS
<1>2. IsFiniteSet(K) /\ Cardinality(K) \in Nat /\ n \notin K
  <2>1. IsFiniteSet(1..Len(q))
    BY <1>1, FS_Interval
  <2>2. K \in SUBSET (1..Len(q)) /\ n \notin K
    BY <1>1
  <2> QED
    BY <2>1, <2>2, FS_Subset, FS_CardinalityType
<1>3. {k \in 1..Len(r) : w \in r[k]} = IF w \in S THEN K \cup {n} ELSE K
  BY <1>1
<1>4. Cardinality(K \cup {n}) = Cardinality(K) + 1
  BY <1>2, FS_AddElement
<1>5. /\ InFlight(q, w) = Cardinality(K)
      /\ InFlight(r, w) = Cardinality(IF w \in S THEN K \cup {n} ELSE K)
  BY <1>3 DEF InFlight
<1> HIDE DEF K
<1> QED
  BY <1>2, <1>4, <1>5

\* A batch that is mined.
LEMMA InFlightTail ==
    ASSUME NEW q \in Seq(SUBSET W), q # <<>>, NEW w, NEW t, t = Tail(q)
    PROVE  InFlight(t, w) + (IF w \in Head(q) THEN 1 ELSE 0) <= InFlight(q, w)
<1> DEFINE K == {k \in 1..Len(t) : w \in t[k]}
           L == {k \in 1..Len(q) : w \in q[k]}
           up == [k \in K |-> k + 1]
<1>1. /\ Len(q) \in Nat /\ Len(q) > 0 /\ Head(q) = q[1] /\ t \in Seq(SUBSET W)
      /\ Len(t) = Len(q) - 1 /\ \A k \in 1..Len(t) : t[k] = q[k + 1]
  OBVIOUS
<1>2. IsFiniteSet(L) /\ Cardinality(L) \in Nat
  <2>1. IsFiniteSet(1..Len(q))
    BY <1>1, FS_Interval
  <2>2. L \in SUBSET (1..Len(q))
    OBVIOUS
  <2> QED
    BY <2>1, <2>2, FS_Subset, FS_CardinalityType
<1>3. up \in Injection(K, L \ {1})
  <2>1. \A k \in K : k \in Nat /\ k + 1 \in L \ {1}
    BY <1>1
  <2>2. up \in [K -> L \ {1}]
    BY <2>1
  <2>3. \A j, k \in K : up[j] = up[k] => j = k
    <3> HIDE DEF K
    <3> QED
      BY <2>1
  <2> QED
    BY <2>2, <2>3 DEF Injection, IsInjective
<1>4. IsFiniteSet(L \ {1})
  BY <1>2, FS_RemoveElement
<1>8. InFlight(t, w) = Cardinality(K) /\ InFlight(q, w) = Cardinality(L)
  BY DEF InFlight
<1>7. w \in Head(q) => 1 \in L
  BY <1>1
<1> HIDE DEF up, K, L
<1>5. Cardinality(K) <= Cardinality(L \ {1}) /\ Cardinality(K) \in Nat
  BY <1>3, <1>4, FS_Injection, FS_CardinalityType
<1>6. Cardinality(L \ {1}) = IF 1 \in L THEN Cardinality(L) - 1 ELSE Cardinality(L)
  BY <1>2, FS_RemoveElement
<1> QED
  BY <1>2, <1>5, <1>6, <1>7, <1>8

LEMMA InitBudget == Init => BudgetInv
  BY InFlightNone DEF Init, BudgetInv, Spent

LEMMA SpentType ==
    ASSUME TypeOK, NEW w \in W
    PROVE  relayed[w] \in Nat /\ InFlight(inflight, w) \in Nat /\ Block[w] \in Nat /\ faults \in Nat
<1>1. inflight \in Seq(SUBSET W) /\ faults \in Nat /\ relayed[w] \in Nat
  BY DEF TypeOK, WorldOK
<1>2. InFlight(inflight, w) \in Nat
  BY <1>1, InFlightType
<1>3. Block[w] \in Nat
  OBVIOUS
<1> QED
  BY <1>1, <1>2, <1>3

\* Where nothing is sent, mined or reverted, only a fault gives a right.
LEMMA SameBudget ==
    ASSUME TypeOK, BudgetInv, UNCHANGED <<relayed, inflight>>,
           faults' \in {faults, faults + 1},
           faults' = faults => \A w \in W : MayCall(w)' => MayCall(w),
           pc' = "wait" => pc = "wait" /\ UNCHANGED <<txOk, todo, faults>>
    PROVE  BudgetInv'
<1> SUFFICES ASSUME NEW w \in W
             PROVE  /\ relayed[w] + InFlight(inflight, w) + (IF MayCall(w)' THEN 1 ELSE 0) <= 1 + faults'
                    /\ pc' = "wait" /\ inflight = <<>> /\ ~txOk'
                       /\ w \in FirstOf(todo', BatchLimit) => relayed[w] <= faults'
  BY DEF BudgetInv, Spent
<1>1. /\ relayed[w] + InFlight(inflight, w) + (IF MayCall(w) THEN 1 ELSE 0) <= 1 + faults
      /\ pc = "wait" /\ inflight = <<>> /\ ~txOk /\ w \in FirstOf(todo, BatchLimit)
           => relayed[w] <= faults
  BY DEF BudgetInv, Spent
<1>2. relayed[w] \in Nat /\ InFlight(inflight, w) \in Nat /\ faults \in Nat
  BY SpentType
<1>3. relayed[w] + InFlight(inflight, w) + (IF MayCall(w)' THEN 1 ELSE 0) <= 1 + faults'
  BY <1>1, <1>2
<1> QED
  BY <1>1, <1>3

\* A sent batch takes the rights of its calls into the mempool.
LEMMA SendBudget ==
    ASSUME TypeOK, AheadInv, BudgetInv, Send \/ SendAnswerLost
    PROVE  BudgetInv'
<1> DEFINE batch == FirstOf(todo, BatchLimit)
<1>1. /\ inflight' = Append(inflight, batch) /\ pc = "send" /\ relayed' = relayed
      /\ inflight \in Seq(SUBSET W) /\ faults \in Nat /\ stored' = stored
      /\ faults' = faults \/ faults' = faults + 1
  BY DEF Send, SendAnswerLost, Fault, TypeOK, WorldOK, history
<1>2. batch \in SUBSET W /\ batch \in SUBSET todo
  BY SliceType DEF TypeOK, MemoryOK
<1>3. inflight' # <<>>
  <2>1. Len(inflight') = Len(inflight) + 1 /\ Len(inflight) \in Nat
    BY <1>1
  <2> QED
    BY <2>1
<1> SUFFICES ASSUME NEW w \in W PROVE Spent(w)' <= 1 + faults'
  BY <1>3 DEF BudgetInv
<1>4. InFlight(inflight', w) = InFlight(inflight, w) + IF w \in batch THEN 1 ELSE 0
  <2>1. inflight \in Seq(SUBSET W) /\ batch \in SUBSET W /\ inflight' = Append(inflight, batch)
    BY <1>1, <1>2
  <2> HIDE DEF batch
  <2> QED
    <3>1. \A S \in SUBSET W : \A r : r = Append(inflight, S) =>
            \A v : InFlight(r, v) = InFlight(inflight, v) + IF v \in S THEN 1 ELSE 0
      BY <2>1, InFlightAppend, Zenon
    <3>2. \A r : r = Append(inflight, batch) =>
            \A v : InFlight(r, v) = InFlight(inflight, v) + IF v \in batch THEN 1 ELSE 0
      BY <2>1, <3>1, Zenon
    <3>3. \A v : InFlight(inflight', v) = InFlight(inflight, v) + IF v \in batch THEN 1 ELSE 0
      BY <2>1, <3>2, Zenon
    <3> QED
      BY <3>3
<1>5. relayed[w] \in Nat /\ InFlight(inflight, w) \in Nat
  BY SpentType
<1>6. relayed[w] + InFlight(inflight, w) + (IF MayCall(w) THEN 1 ELSE 0) <= 1 + faults
  BY DEF BudgetInv, Spent
<1>7. w \in batch => MayCall(w)
  BY <1>1, <1>2 DEF MayCall, Unsent, AheadInv, Walking
<1>8. faults' = faults => (MayCall(w)' => MayCall(w) /\ w \notin batch)
  <2> SUFFICES ASSUME faults' = faults PROVE MayCall(w)' => MayCall(w) /\ w \notin batch
    OBVIOUS
  <2>1. pc' = "wait" /\ UNCHANGED <<reqs, todo, stored>>
    BY <1>1 DEF Send, SendAnswerLost, Fault, walk
  <2>2. todo \subseteq reqs
    BY <1>1 DEF AheadInv
  <2> QED
    BY <1>1, <1>2, <2>1, <2>2 DEF MayCall, Unsent
<1> HIDE DEF batch
<1>9. Spent(w)' = relayed[w] + InFlight(inflight', w) + IF MayCall(w)' THEN 1 ELSE 0
  BY <1>1 DEF Spent
<1> HIDE DEF MayCall, Spent
<1>10. faults \in Nat /\ (faults' = faults \/ faults' = faults + 1)
  BY <1>1
<1>11. CASE w \in batch
  BY <1>4, <1>5, <1>6, <1>7, <1>8, <1>9, <1>10, <1>11
<1>12. CASE w \notin batch
  BY <1>4, <1>5, <1>6, <1>8, <1>9, <1>10, <1>12
<1> QED
  BY <1>11, <1>12

\* A mined batch spends them.
LEMMA MineBudget ==
    ASSUME TypeOK, BatchInv, BudgetInv, Mine
    PROVE  BudgetInv'
<1> DEFINE hits == Successful(msgs, Head(inflight))
<1>1. /\ inflight # <<>> /\ inflight' = Tail(inflight) /\ inflight \in Seq(SUBSET W)
      /\ UNCHANGED <<stored, pc, reqs, todo, faults>> /\ faults \in Nat
      /\ txOk' = (hits # {})
      /\ \A w \in W : relayed'[w] = relayed[w] + IF w \in hits THEN 1 ELSE 0
  BY DEF Mine, memory, walk, TypeOK, WorldOK
<1>2. hits \subseteq Head(inflight)
  BY DEF Successful
<1> SUFFICES ASSUME NEW w \in W
             PROVE  /\ Spent(w)' <= 1 + faults
                    /\ pc = "wait" /\ inflight' = <<>> /\ ~txOk'
                       /\ w \in FirstOf(todo, BatchLimit) => relayed'[w] <= faults
  BY <1>1 DEF BudgetInv
<1>3. /\ InFlight(inflight', w) + (IF w \in Head(inflight) THEN 1 ELSE 0) <= InFlight(inflight, w)
      /\ InFlight(inflight', w) \in Nat
  <2>1. inflight \in Seq(SUBSET W) /\ inflight # <<>> /\ inflight' = Tail(inflight)
    BY <1>1
  <2>2. inflight' \in Seq(SUBSET W)
    BY <2>1
  <2>3. InFlight(inflight', w) \in Nat
    BY <2>2, InFlightType, Zenon
  <2>4. InFlight(inflight', w) + (IF w \in Head(inflight) THEN 1 ELSE 0) <= InFlight(inflight, w)
    BY <2>1, InFlightTail, Zenon
  <2> QED
    BY <2>3, <2>4
<1>4. relayed[w] \in Nat /\ InFlight(inflight, w) \in Nat
  BY SpentType
<1>5. relayed[w] + InFlight(inflight, w) + (IF MayCall(w) THEN 1 ELSE 0) <= 1 + faults
  BY DEF BudgetInv, Spent
<1>6. MayCall(w)' = MayCall(w)
  BY <1>1 DEF MayCall, Unsent
<1>7. Spent(w)' = relayed'[w] + InFlight(inflight', w) + IF MayCall(w) THEN 1 ELSE 0
  BY <1>6 DEF Spent
<1>8. pc = "wait" /\ inflight' = <<>> => Head(inflight) = FirstOf(todo, BatchLimit)
  <2> SUFFICES ASSUME pc = "wait", inflight' = <<>>
               PROVE  Head(inflight) = FirstOf(todo, BatchLimit)
    OBVIOUS
  <2>1. inflight \in Seq(SUBSET W) /\ inflight # <<>> /\ Tail(inflight) = <<>>
    BY <1>1
  <2>2. Len(Tail(inflight)) = 0
    BY <2>1, EmptySeq
  <2>3. Len(inflight) = 1 /\ Head(inflight) = inflight[1]
    BY <2>1, <2>2, HeadTailProperties
  <2> QED
    BY <1>1, <2>1, <2>3 DEF BatchInv
<1> HIDE DEF hits
<1>9. relayed'[w] = relayed[w] + IF w \in hits THEN 1 ELSE 0
  BY <1>1
<1> HIDE DEF MayCall, Spent
<1>12. faults \in Nat /\ (w \in hits => w \in Head(inflight))
  BY <1>1, <1>2
<1>10. Spent(w)' <= 1 + faults
  <2> DEFINE before == relayed[w] + InFlight(inflight, w)
             after == relayed'[w] + InFlight(inflight', w)
             right == IF MayCall(w) THEN 1 ELSE 0
  <2>1. after <= before
    <3>1. CASE w \in hits
      <4>1. relayed'[w] = relayed[w] + 1
        BY <1>4, <1>9, <3>1
      <4>2. InFlight(inflight', w) + 1 <= InFlight(inflight, w)
        BY <1>3, <1>4, <1>12, <3>1
      <4> QED
        BY <1>3, <1>4, <4>1, <4>2
    <3>2. CASE w \notin hits
      <4>1. relayed'[w] = relayed[w]
        BY <1>4, <1>9, <3>2
      <4>2. InFlight(inflight', w) <= InFlight(inflight, w)
        BY <1>3, <1>4
      <4> QED
        BY <1>3, <1>4, <4>1, <4>2
    <3> QED
      BY <3>1, <3>2
  <2>2. before \in Nat /\ after \in Nat /\ right \in Nat
    BY <1>3, <1>4, <1>9
  <2>3. before + right <= 1 + faults /\ Spent(w)' = after + right
    BY <1>5, <1>7
  <2> HIDE DEF before, after, right
  <2> QED
    BY <1>12, <2>1, <2>2, <2>3
<1>11. ASSUME pc = "wait", inflight' = <<>>, ~txOk', w \in FirstOf(todo, BatchLimit)
       PROVE  relayed'[w] <= faults
  <2>1. w \in Head(inflight) /\ w \notin hits
    BY <1>1, <1>8, <1>11
  <2> QED
    BY <1>3, <1>4, <1>5, <1>9, <1>12, <2>1
<1> QED
  BY <1>10, <1>11

\* A direct withdraw that reverted relayed nothing, and was all of the round.
LEMMA RevertedBudget ==
    ASSUME TypeOK, AheadInv, BudgetInv, Reverted
    PROVE  BudgetInv'
<1>1. /\ pc = "wait" /\ pc' = "start" /\ inflight = <<>> /\ ~txOk
      /\ UNCHANGED <<stored, inflight, relayed, faults>>
  BY DEF Reverted, NewRound, world, history
<1>2. \E x : reqs = {x}
  <2>1. IsFiniteSet(reqs)
    BY WFinite DEF TypeOK, MemoryOK
  <2> QED
    BY <2>1, FS_Singleton DEF Reverted, Single
<1>3. todo = reqs
  BY <1>1, <1>2 DEF AheadInv
<1> SUFFICES ASSUME NEW w \in W
             PROVE  relayed[w] + InFlight(inflight, w) + (IF MayCall(w)' THEN 1 ELSE 0) <= 1 + faults
  BY <1>1 DEF BudgetInv, Spent
<1>4. relayed[w] \in Nat /\ faults \in Nat /\ InFlight(inflight, w) = 0
  BY <1>1, SpentType, InFlightNone
<1>5. /\ relayed[w] + InFlight(inflight, w) + (IF MayCall(w) THEN 1 ELSE 0) <= 1 + faults
      /\ w \in FirstOf(todo, BatchLimit) => relayed[w] <= faults
  BY <1>1 DEF BudgetInv, Spent
<1>6. MayCall(w)' => MayCall(w) \/ w \in FirstOf(todo, BatchLimit)
  BY <1>1, <1>3 DEF MayCall, Unsent
<1> QED
  BY <1>4, <1>5, <1>6

LEMMA BudgetStep ==
    TypeOK /\ RangeInv /\ AheadInv /\ BatchInv /\ BudgetInv /\ [Next]_vars => BudgetInv'
<1> SUFFICES ASSUME TypeOK, RangeInv, AheadInv, BatchInv, BudgetInv, [Next]_vars
             PROVE  BudgetInv'
  OBVIOUS
<1>1. \A w \in W : Block[w] \in Nat
  OBVIOUS
<1>2. CASE Send \/ SendAnswerLost
  BY <1>2, SendBudget
<1>3. CASE Mine
  BY <1>3, MineBudget
<1>4. CASE Reverted
  BY <1>4, RevertedBudget
<1>5. CASE UNCHANGED vars \/ IndexBlock \/ UpdateState \/ SelfWithdraw \/ PriceMoves
  <2>1. UNCHANGED <<inflight, txOk, stored, pc, reqs, todo, relayed, faults>>
    BY <1>5 DEF vars, world, memory, walk, history, IndexBlock, UpdateState, SelfWithdraw,
                PriceMoves
  <2> QED
    BY <2>1, SameBudget DEF MayCall, Unsent
<1>6. CASE ReadCheckpoint
  <2>1. /\ stored' \in Nat /\ stored \in Nat /\ stored <= stored'
        /\ pc = "start" /\ pc' = "indexer" /\ UNCHANGED <<inflight, relayed, faults>>
    BY <1>6 DEF ReadCheckpoint, TypeOK, world, history
  <2>2. \A w \in W : MayCall(w)' => MayCall(w)
    BY <1>1, <2>1 DEF MayCall
  <2> QED
    BY <2>1, <2>2, SameBudget
<1>7. CASE SaveCheckpoint
  <2>1. /\ pc = "save" /\ pc' = "wakeup" /\ stored' = cur
        /\ UNCHANGED <<inflight, relayed, faults>>
        /\ stored \in Nat /\ cur \in Nat /\ stored <= cur
    BY <1>7 DEF SaveCheckpoint, TypeOK, MemoryOK, RangeInv, Walking, world, history
  <2>2. \A w \in W : w \in reqs => Block[w] <= cur
    BY <2>1 DEF AheadInv, Walked, Walking
  <2>3. ASSUME NEW w \in W, MayCall(w)' PROVE MayCall(w)
    <3>1. Block[w] \in Nat /\ cur < Block[w]
      BY <1>1, <2>1, <2>3 DEF MayCall
    <3>2. stored < Block[w]
      BY <2>1, <3>1
    <3>3. w \notin reqs
      BY <2>1, <2>2, <3>1
    <3> QED
      BY <3>2, <3>3 DEF MayCall
  <2> QED
    BY <2>1, <2>3, SameBudget
<1>8. CASE Confirmed
  <2>1. /\ pc = "wait" /\ pc' \in {"send", "save"} /\ todo' = todo \ FirstOf(todo, BatchLimit)
        /\ UNCHANGED <<stored, inflight, relayed, faults, reqs>>
    BY <1>8 DEF Confirmed, world, walk, history
  <2>2. Unsent' = Unsent
    BY <2>1 DEF Unsent
  <2>3. \A w \in W : MayCall(w)' => MayCall(w)
    BY <2>1, <2>2 DEF MayCall
  <2> QED
    BY <2>1, <2>3, SameBudget
<1>9. CASE \/ ReadIndexer \/ ReadState \/ NextChunk \/ ViewSome \/ ViewLast \/ ViewThrows
           \/ NothingToConsume \/ CostCovered \/ CostNotCovered \/ StateMoved \/ WakeUp
  <2>1. /\ pc \notin {"send", "wait", "save"} /\ pc' # "wait"
        /\ UNCHANGED <<stored, inflight, relayed, faults>>
    BY <1>9 DEF ReadIndexer, ReadState, NextChunk, ViewSome, ViewLast, ViewThrows,
                NothingToConsume, CostCovered, CostNotCovered, StateMoved, WakeUp, NewRound,
                world, history
  <2>2. \A w \in W : MayCall(w)' => MayCall(w)
    BY <2>1 DEF MayCall
  <2> QED
    BY <2>1, <2>2, SameBudget
<1>10. CASE Fail \/ SaveAnswerLost \/ Crash
  <2>1. faults' = faults + 1 /\ faults \in Nat /\ pc' = "start" /\ UNCHANGED <<inflight, relayed>>
    BY <1>10 DEF Fail, SaveAnswerLost, Crash, Fault, NewRound, TypeOK, world
  <2>2. faults' # faults
    BY <2>1
  <2> QED
    BY <2>1, <2>2, SameBudget
<1> QED
  BY <1>2, <1>3, <1>4, <1>5, <1>6, <1>7, <1>8, <1>9, <1>10 DEF Next, Round, Environment, Faults

\* No withdrawal is relayed more often than once, and once more for each fault
\* (RelayedOncePerFault): for every history, whatever users claim meanwhile.
THEOREM RelayedOnceAndOncePerFault == Spec => []RelayedOncePerFault
<1>1. Spec => [](TypeOK /\ RangeInv /\ CheckpointBound)
  BY InitRange, RangeStep, TypeCorrect, PTL DEF Spec
<1>2. Spec => [](TypeOK /\ RangeInv /\ AheadInv)
  BY <1>1, InitAhead, AheadStep, PTL DEF Spec
<1>3. Spec => []WalkInv
  BY <1>1, InitWalk, WalkStep, PTL DEF Spec
<1>4. WalkInv => BatchInv
  BY DEF WalkInv
<1>5. Spec => [](TypeOK /\ BudgetInv)
  BY <1>2, <1>3, <1>4, InitBudget, BudgetStep, PTL DEF Spec
<1>6. TypeOK /\ BudgetInv => RelayedOncePerFault
  <2> SUFFICES ASSUME TypeOK, BudgetInv, NEW w \in W PROVE relayed[w] <= 1 + faults
    BY DEF RelayedOncePerFault
  <2>1. relayed[w] + InFlight(inflight, w) + (IF MayCall(w) THEN 1 ELSE 0) <= 1 + faults
    BY DEF BudgetInv, Spent
  <2> QED
    BY <2>1, SpentType
<1> QED
  BY <1>5, <1>6, PTL

\* A withdrawal that is relayed so often, and only when it was paid for, counts
\* so often among the eligible.
LEMMA BudgetCount ==
    ASSUME TypeOK, OnlyPaidRelayed, RelayedOncePerFault, NEW h \in Hashes
    PROVE  Cardinality(Relays(h))
               <= (1 + faults) * Cardinality({w \in W : Hash[w] = h /\ Eligible(w)})
<1> DEFINE E == {w \in W : Hash[w] = h /\ Eligible(w)}
           times == 1..(1 + faults)
<1>1. IsFiniteSet(E) /\ Cardinality(E) \in Nat
  BY WFinite
<1>2. faults \in Nat /\ IsFiniteSet(times) /\ Cardinality(times) = 1 + faults
  <2>1. faults \in Nat
    BY DEF TypeOK
  <2> QED
    BY <2>1, FS_Interval
<1>3. Relays(h) \subseteq E \X times
  <2> SUFFICES ASSUME NEW x \in Relays(h) PROVE x \in E \X times
    OBVIOUS
  <2>1. PICK w \in {v \in W : Hash[v] = h} : x \in {w} \X (1..relayed[w])
    BY DEF Relays
  <2>2. PICK k \in 1..relayed[w] : x = <<w, k>>
    BY <2>1
  <2>3. relayed[w] \in Nat /\ relayed[w] <= 1 + faults
    BY <2>1 DEF TypeOK, RelayedOncePerFault
  <2>4. k \in times /\ relayed[w] > 0
    BY <1>2, <2>2, <2>3
  <2>5. w \in E
    BY <2>1, <2>4 DEF OnlyPaidRelayed
  <2> QED
    BY <2>2, <2>4, <2>5
<1> HIDE DEF E, times
<1>4. IsFiniteSet(E \X times) /\ Cardinality(E \X times) = Cardinality(E) * Cardinality(times)
  BY <1>1, <1>2, FS_Product
<1>5. Cardinality(Relays(h)) <= Cardinality(E \X times)
  BY <1>3, <1>4, FS_Subset
<1>6. Cardinality(Relays(h)) <= (1 + faults) * Cardinality(E)
  BY <1>1, <1>2, <1>4, <1>5
<1> QED
  BY <1>6 DEF E

\* The relayer consumes, of each hash, no more messages than were paid for, and
\* as many more with each fault (OverRelayedPerFault), whatever users claim
\* meanwhile and however many equal withdrawals nobody paid for, in every
\* history whose chunks hold their eligible withdrawals first.
THEOREM OverRelayIsBounded == AlignedChunks /\ Spec => []OverRelayedPerFault
<1>1. TypeOK /\ OnlyPaidRelayed /\ RelayedOncePerFault => OverRelayedPerFault
  BY BudgetCount DEF OverRelayedPerFault
<1> QED
  BY <1>1, TypeCorrect, OnlyPaidAreRelayed, RelayedOnceAndOncePerFault, PTL
=============================================================================
