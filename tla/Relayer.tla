------------------------------ MODULE Relayer ------------------------------
(***************************************************************************)
(* RelayerService: one process that repeats rounds for ever.  A round      *)
(* reads the checkpoint, the indexer and the L1 state, walks the new L2    *)
(* blocks in chunks, asks the Starknet core contract which paid messages   *)
(* can be consumed, consumes them in batches of one transaction each, and  *)
(* only then stores the new checkpoint.  An error anywhere ends the round  *)
(* and a fresh one starts from the stored checkpoint; a crash does the     *)
(* same and also loses what was in memory.                                 *)
(*                                                                         *)
(* Around it: the indexer, the core contract (state block and message      *)
(* counters), the users who may claim by themselves, the gas price, and    *)
(* the relayer's transactions, which stay in the mempool when the process  *)
(* that sent them dies or gives up.                                        *)
(***************************************************************************)
EXTENDS Withdrawals, Sequences, FiniteSetsExt

CONSTANTS
    Chunk,      \* networkConfig.chunk
    ViewLimit,  \* NumberOfMessageToProcessPerTransaction
    BatchLimit, \* NumberOfWithdrawalsToProcessPerTransaction
    Prices,     \* gas prices the network may ask
    MaxFaults   \* bound on errors, lost answers and crashes of a behaviour

ASSUME ConfigAssumption ==
    /\ Chunk \in Nat \ {0}
    /\ ViewLimit \in Nat \ {0}
    /\ BatchLimit \in Nat \ {0}
    /\ Prices \subseteq Nat
    /\ MaxFaults \in Nat

VARIABLES
    \* the world
    indexed,    \* block of the last withdrawal the indexer has, 0 for none
    stateBlock, \* stateBlockNumber() of the core contract
    msgs,       \* l2ToL1Messages: counter of every hash
    price,      \* current gas price
    inflight,   \* batches sent and not yet mined, in nonce order
    txOk,       \* the last mined transaction did not revert
    \* storage
    stored,     \* blockNumber in mongo, 0 when absent
    \* the relayer's memory
    pc,         \* the await the process stands at
    from,       \* fromBlock (lastProcessedBlockNumber until the state is read)
    to,         \* toBlock (lastIndexedBlock until the state is read)
    seen,       \* last state block read in this round
    lo,         \* currentFromBlockNumber
    cur,        \* currentToBlockNumber
    ans,        \* view answers of the current chunk, NoAnswer when not asked yet
    counted,    \* counted[w]: times w was added to totalGasPaid and totalGasToUse
    reqs,       \* allMulticallRequestsForMessagesCanBeConsumedOnL1
    todo,       \* those of them not yet confirmed in a mined batch
    marked,     \* lastUpdateStateTimestamp is set
    isHighFee,  \* networkFeesMetadata.isHighFee
    \* history
    relayed,    \* relayed[w]: relayer's calls for w that consumed a message
    faults      \* faults so far

world  == <<indexed, stateBlock, msgs, price, inflight, txOk>>
bounds == <<from, to, seen>>
walk   == <<lo, cur, ans, counted, reqs>>
rest   == <<marked, isHighFee>>
memory == <<pc, bounds, walk, todo, rest>>
history == <<relayed, faults>>
vars == <<world, stored, memory, history>>

NoAnswer == -1
NoAnswers == [w \in W |-> NoAnswer]

Locations == {"start", "indexer", "state", "chunk", "view",
              "send", "wait", "save", "wakeup"}

Init ==
    /\ indexed = 0
    /\ stateBlock = 0
    /\ msgs = [h \in Hashes |-> 0]
    /\ price \in Prices
    /\ inflight = <<>>
    /\ txOk = TRUE
    /\ stored = 0
    /\ pc = "start"
    /\ from = 0 /\ to = 0 /\ seen = 0
    /\ lo = 0 /\ cur = 0
    /\ ans = NoAnswers
    /\ counted = [w \in W |-> 0]
    /\ reqs = {} /\ todo = {}
    /\ marked = FALSE /\ isHighFee = FALSE
    /\ relayed = [w \in W |-> 0]
    /\ faults = 0

-----------------------------------------------------------------------------
(***************************************************************************)
(* The environment.                                                        *)
(***************************************************************************)

\* The indexer publishes the withdrawals of one more block, whole.
IndexBlock ==
    /\ \E w \in W : /\ Block[w] > indexed
                    /\ \A v \in W : Block[v] > indexed => Block[w] <= Block[v]
                    /\ indexed' = Block[w]
    /\ UNCHANGED <<stateBlock, msgs, price, inflight, txOk,
                   stored, memory, history>>

\* updateState proves one more block and adds its messages.
UpdateState ==
    /\ stateBlock < MaxBlock
    /\ stateBlock' = stateBlock + 1
    /\ msgs' = [h \in Hashes |->
                  msgs[h] + Cardinality({w \in W : Hash[w] = h /\ Block[w] = stateBlock + 1})]
    /\ UNCHANGED <<indexed, price, inflight, txOk,
                   stored, memory, history>>

\* Anybody may call withdraw on the bridge; users do it for themselves.
SelfWithdraw ==
    /\ \E h \in Hashes : msgs[h] > 0 /\ msgs' = [msgs EXCEPT ![h] = @ - 1]
    /\ UNCHANGED <<indexed, stateBlock, price, inflight, txOk,
                   stored, memory, history>>

PriceMoves ==
    /\ price' \in Prices \ {price}
    /\ UNCHANGED <<indexed, stateBlock, msgs, inflight, txOk,
                   stored, memory, history>>

\* The oldest transaction of the relayer is mined.  A direct withdraw (batch
\* of one) reverts when there is no message; tryAggregate(false) never does.
Mine ==
    /\ inflight # <<>>
    /\ msgs' = Consume(msgs, Head(inflight))
    /\ relayed' = [w \in W |->
                     relayed[w] + IF w \in Successful(msgs, Head(inflight)) THEN 1 ELSE 0]
    /\ txOk' = (Successful(msgs, Head(inflight)) # {})
    /\ inflight' = Tail(inflight)
    /\ UNCHANGED <<indexed, stateBlock, price,
                   stored, memory, faults>>

-----------------------------------------------------------------------------
(***************************************************************************)
(* The round.                                                              *)
(***************************************************************************)

\* Every local of the round is gone; run() is about to begin another one.
NewRound ==
    /\ pc' = "start"
    /\ from' = 0 /\ to' = 0 /\ seen' = 0
    /\ lo' = 0 /\ cur' = 0
    /\ ans' = NoAnswers
    /\ counted' = [w \in W |-> 0]
    /\ reqs' = {} /\ todo' = {}
    /\ marked' = FALSE

\* Mutant of ReadCheckpoint: every round begins at FIRST_BLOCK.
ReadFirstBlock ==
    /\ pc = "start"
    /\ stored' = FirstBlock
    /\ from' = stored'
    /\ pc' = "indexer"
    /\ UNCHANGED <<world, to, seen, walk, todo, rest, history>>

\* getLastProcessedBlock: an absent (or zero) block is replaced by FIRST_BLOCK.
ReadCheckpoint ==
    /\ pc = "start"
    /\ stored' = IF stored = 0 THEN FirstBlock ELSE stored
    /\ from' = stored'
    /\ pc' = "indexer"
    /\ UNCHANGED <<world, to, seen, walk, todo, rest, history>>

\* Mutant of ReadIndexer: an empty indexer leaves the choice to L1.
ReadIndexerOrState ==
    /\ pc = "indexer"
    /\ to' = IF indexed = 0 THEN stateBlock ELSE indexed
    /\ pc' = "state"
    /\ UNCHANGED <<world, stored, from, seen, walk, todo, rest, history>>

\* getLastIndexedBlock; an empty indexer answers undefined.
ReadIndexer ==
    /\ pc = "indexer"
    /\ to' = IF indexed = 0 THEN from ELSE indexed
    /\ pc' = "state"
    /\ UNCHANGED <<world, stored, from, seen, walk, todo, rest, history>>

\* Mutant of ReadState: the L1 state does not bound the range.
ReadStateUnbounded ==
    /\ pc = "state"
    /\ seen' = stateBlock
    /\ to' = to
    /\ from' = Lesser(from, to')
    /\ lo' = from' /\ cur' = from'
    /\ pc' = IF from' < to' THEN "chunk" ELSE "wakeup"
    /\ UNCHANGED <<world, stored, ans, counted, reqs, todo, rest, history>>

\* Mutant of ReadState: a checkpoint beyond the range is taken for unfinished.
ReadStateUnordered ==
    /\ pc = "state"
    /\ seen' = stateBlock
    /\ to' = Lesser(to, stateBlock)
    /\ from' = from
    /\ lo' = from' /\ cur' = from'
    /\ pc' = IF from' # to' THEN "chunk" ELSE "wakeup"
    /\ UNCHANGED <<world, stored, ans, counted, reqs, todo, rest, history>>

\* getStateBlockNumber, then the range of the round.  An empty range goes
\* straight to the sleep.
ReadState ==
    /\ pc = "state"
    /\ seen' = stateBlock
    /\ to' = Lesser(to, stateBlock)
    /\ from' = Lesser(from, to')
    /\ lo' = from' /\ cur' = from'
    /\ pc' = IF from' < to' THEN "chunk" ELSE "wakeup"
    /\ UNCHANGED <<world, stored, ans, counted, reqs, todo, rest, history>>

\* Upper end of the chunk that starts at c.
ChunkEnd(c, t) == IF c + Chunk > t /\ c # t THEN t ELSE c + Chunk

\* Next chunk: list its withdrawals, check their payments, add the paid ones
\* to the totals.  Without a paid withdrawal there is nothing to view.
NextChunk ==
    /\ pc = "chunk"
    /\ cur # to
    /\ lo' = cur
    /\ cur' = ChunkEnd(cur, to)
    /\ counted' = [w \in W |->
                     counted[w] + IF w \in Requests(lo', cur') THEN 1 ELSE 0]
    /\ ans' = NoAnswers
    /\ pc' = IF Requests(lo', cur') = {} THEN "chunk" ELSE "view"
    /\ UNCHANGED <<world, stored, bounds, reqs, todo, rest, history>>

Unanswered == {e \in Requests(lo, cur) : ans[e] = NoAnswer}

\* The next batch of counters, as the core contract holds them now.
Answers ==
    [w \in W |-> IF w \in FirstOf(Unanswered, ViewLimit) THEN msgs[Hash[w]] ELSE ans[w]]

\* A view that leaves requests without an answer.
ViewSome ==
    /\ pc = "view"
    /\ Unanswered # FirstOf(Unanswered, ViewLimit)
    /\ ans' = Answers
    /\ UNCHANGED <<world, stored, pc, bounds, lo, cur, counted, reqs, todo, rest, history>>

Choice == Selected(List(lo, cur), Requests(lo, cur), Answers)

\* The last view of the chunk, then the selection of the calls.
ViewLast ==
    /\ pc = "view"
    /\ Unanswered = FirstOf(Unanswered, ViewLimit)
    /\ \A w \in Choice : Known[w]
    /\ ans' = Answers
    /\ reqs' = reqs \cup Choice
    /\ pc' = "chunk"
    /\ UNCHANGED <<world, stored, bounds, lo, cur, counted, todo, rest, history>>

\* The same, when a selected withdrawal has no bridge metadata: a TypeError.
ViewThrows ==
    /\ pc = "view"
    /\ Unanswered = FirstOf(Unanswered, ViewLimit)
    /\ \E w \in Choice : ~Known[w]
    /\ NewRound
    /\ UNCHANGED <<world, stored, isHighFee, history>>

Total(f) == MapThenSumSet(LAMBDA w : counted[w] * f[w], W)
NetworkCost == price * ((Total(GasPaid) * 2) \div 3)

\* The range is done.  Nothing to consume: only the checkpoint moves.
NothingToConsume ==
    /\ pc = "chunk"
    /\ cur = to
    /\ reqs = {}
    /\ pc' = "save"
    /\ UNCHANGED <<world, stored, bounds, walk, todo, rest, history>>

\* Mutant of CostCovered: the checkpoint is stored before the messages are consumed.
CostCoveredSaved ==
    /\ pc = "chunk"
    /\ cur = to
    /\ reqs # {}
    /\ NetworkCost <= Total(Cost)
    /\ todo' = reqs
    /\ stored' = cur
    /\ pc' = "send"
    /\ UNCHANGED <<world, bounds, walk, rest, history>>

\* The payments of the round cover the current price.
CostCovered ==
    /\ pc = "chunk"
    /\ cur = to
    /\ reqs # {}
    /\ NetworkCost <= Total(Cost)
    /\ todo' = reqs
    /\ pc' = "send"
    /\ UNCHANGED <<world, stored, bounds, walk, rest, history>>

\* They do not: remember the high fee and throw.
CostNotCovered ==
    /\ pc = "chunk"
    /\ cur = to
    /\ reqs # {}
    /\ NetworkCost > Total(Cost)
    /\ isHighFee' = TRUE
    /\ NewRound
    /\ UNCHANGED <<world, stored, history>>

Single == Cardinality(reqs) = 1

Send ==
    /\ pc = "send"
    /\ inflight' = Append(inflight, FirstOf(todo, BatchLimit))
    /\ pc' = "wait"
    /\ UNCHANGED <<indexed, stateBlock, msgs, price, txOk,
                   stored, bounds, walk, todo, rest, history>>

\* Mutant of Confirmed: only the first batch is sent.
ConfirmedOnce ==
    /\ pc = "wait"
    /\ inflight = <<>>
    /\ Single => txOk
    /\ todo' = {}
    /\ pc' = "save"
    /\ isHighFee' = FALSE
    /\ UNCHANGED <<world, stored, bounds, walk, marked, history>>

\* tx.wait() returned for a transaction that did not revert.  After the last
\* batch the fee metadata is reset.
Confirmed ==
    /\ pc = "wait"
    /\ inflight = <<>>
    /\ Single => txOk
    /\ todo' = todo \ FirstOf(todo, BatchLimit)
    /\ IF todo' = {}
       THEN pc' = "save" /\ isHighFee' = FALSE
       ELSE pc' = "send" /\ UNCHANGED isHighFee
    /\ UNCHANGED <<world, stored, bounds, walk, marked, history>>

\* tx.wait() rejects when the direct withdraw reverted.
Reverted ==
    /\ pc = "wait"
    /\ inflight = <<>>
    /\ Single /\ ~txOk
    /\ NewRound
    /\ UNCHANGED <<world, stored, isHighFee, history>>

\* Mutant of SaveCheckpoint: the state block is stored in place of the range end.
SaveStateBlock ==
    /\ pc = "save"
    /\ stored' = seen
    /\ pc' = "wakeup"
    /\ UNCHANGED <<world, bounds, walk, todo, rest, history>>

\* Mutant of SaveCheckpoint: the wait compares with the state block of now.
SaveAndLook ==
    /\ pc = "save"
    /\ stored' = cur
    /\ seen' = stateBlock
    /\ pc' = "wakeup"
    /\ UNCHANGED <<world, from, to, walk, todo, rest, history>>

\* updateProcessedBlock, then the sleep of an hour.
SaveCheckpoint ==
    /\ pc = "save"
    /\ stored' = cur
    /\ pc' = "wakeup"
    /\ UNCHANGED <<world, bounds, walk, todo, rest, history>>

\* canWakeupRelayer: the state block moved; look again later.
StateMoved ==
    /\ pc = "wakeup"
    /\ stateBlock > seen
    /\ seen' = stateBlock
    /\ marked' = TRUE
    /\ UNCHANGED <<world, stored, pc, from, to, walk, todo, isHighFee, history>>

\* It moved before and stands still now: begin the next round.
WakeUp ==
    /\ pc = "wakeup"
    /\ stateBlock <= seen
    /\ marked
    /\ NewRound
    /\ UNCHANGED <<world, stored, isHighFee, history>>

-----------------------------------------------------------------------------
(***************************************************************************)
(* Faults.  callWithRetry hides an error that goes away within three       *)
(* attempts; the others reach the catch of run().                          *)
(***************************************************************************)
Fault == faults < MaxFaults /\ faults' = faults + 1

\* A call failed for good before it had an effect, or after (tx.wait()).
Fail ==
    /\ Fault
    /\ pc # "start"
    /\ NewRound
    /\ UNCHANGED <<world, stored, isHighFee, relayed>>

\* The batch was broadcast but the answer was lost.  A multicall is sent
\* again; a direct withdraw is not retried, and the last attempt throws.
SendAnswerLost ==
    /\ Fault
    /\ pc = "send"
    /\ inflight' = Append(inflight, FirstOf(todo, BatchLimit))
    /\ \/ /\ ~Single
          /\ UNCHANGED <<pc, bounds, walk, todo, marked>>
       \/ NewRound
    /\ UNCHANGED <<indexed, stateBlock, msgs, price, txOk, stored, isHighFee, relayed>>

\* The checkpoint was written but the answer was lost, three times over.
SaveAnswerLost ==
    /\ Fault
    /\ pc = "save"
    /\ stored' = cur
    /\ NewRound
    /\ UNCHANGED <<world, isHighFee, relayed>>

\* The container dies and docker restarts it.
Crash ==
    /\ Fault
    /\ NewRound
    /\ isHighFee' = FALSE
    /\ UNCHANGED <<world, stored, relayed>>

-----------------------------------------------------------------------------
Round ==
    \/ ReadCheckpoint \/ ReadIndexer \/ ReadState
    \/ NextChunk \/ ViewSome \/ ViewLast \/ ViewThrows
    \/ NothingToConsume \/ CostCovered \/ CostNotCovered
    \/ Send \/ Confirmed \/ Reverted
    \/ SaveCheckpoint \/ StateMoved \/ WakeUp

Environment == IndexBlock \/ UpdateState \/ SelfWithdraw \/ PriceMoves \/ Mine

Faults == Fail \/ SendAnswerLost \/ SaveAnswerLost \/ Crash

Next == Round \/ Environment \/ Faults

Spec == Init /\ [][Next]_vars

\* The event loop keeps running the process, and L1 mines what was sent.
\* Nothing else has to happen.
FairSpec == Spec /\ WF_vars(Round) /\ WF_vars(Mine)
-----------------------------------------------------------------------------
(***************************************************************************)
(* Properties.                                                             *)
(***************************************************************************)
Walking == {"chunk", "view", "send", "wait", "save"}

WorldOK ==
    /\ indexed \in 0..MaxBlock
    /\ stateBlock \in 0..MaxBlock
    /\ msgs \in [Hashes -> Nat]
    /\ price \in Prices
    /\ inflight \in Seq(SUBSET W)
    /\ txOk \in BOOLEAN

MemoryOK ==
    /\ pc \in Locations
    /\ from \in Nat /\ to \in Nat /\ seen \in 0..MaxBlock
    /\ lo \in Nat /\ cur \in Nat
    /\ ans \in [W -> Nat \cup {NoAnswer}]
    /\ counted \in [W -> Nat]
    /\ reqs \subseteq W /\ todo \subseteq W
    /\ marked \in BOOLEAN /\ isHighFee \in BOOLEAN

\* Every variable keeps its type; in particular no counter goes below zero
\* and no more than the faults allowed happen (relayer.service.ts 60-176).
TypeOK ==
    /\ WorldOK
    /\ stored \in Nat
    /\ MemoryOK
    /\ relayed \in [W -> Nat]
    /\ faults \in 0..MaxFaults

\* The stored checkpoint never runs ahead of the indexer or of L1, whatever
\* moves between the three reads of canProcessWithdrawals (432-465) and the
\* save: a block beyond either would be skipped for ever.
CheckpointBound ==
    stored <= FirstBlock \/ (stored <= indexed /\ stored <= stateBlock)

\* The chunks of a round tile (from, to]: at every await of the round each
\* paid withdrawal of (from, cur] was fetched and added to the totals exactly
\* once, no other was, and the round consumes and saves only when the whole
\* range was walked (processWithdrawals 99-145).
FetchedOnce ==
    pc \in Walking =>
        /\ cur <= to
        /\ pc \in {"send", "wait", "save"} => cur = to
        /\ \A w \in W : counted[w] = IF w \in Requests(from, cur) THEN 1 ELSE 0

\* No eligible withdrawal stands after an ineligible one in the same chunk,
\* wherever the chunk begins: the arrays that
\* getListOfValidMessagesToConsumedOnL1 indexes with one i then agree.
AlignedChunks ==
    \A v, w \in W : (v < w /\ ~Eligible(v) /\ Eligible(w)) => Block[w] - Block[v] >= Chunk

\* No paid withdrawal is left behind: the messages still on L1 are never more
\* than the withdrawals the checkpoint owes nothing for.  Across crashes, lost
\* answers, failed batches and users who claim meanwhile, the checkpoint passes
\* a block only after its paid messages were consumed (148-166).
NoLoss == \A h \in Hashes : msgs[h] <= Cardinality(NotOwed(h, stateBlock, stored))

\* The relayer spends gas only on withdrawals whose user paid it (README.md:2).
OnlyPaidRelayed == \A w \in W : relayed[w] > 0 => Eligible(w)

\* The relayer's calls for withdrawals of hash h that consumed a message.
Relays(h) == UNION {{w} \X (1..relayed[w]) : w \in {v \in W : Hash[v] = h}}

\* For every hash, the relayer consumes no more messages than were paid for
\* (the cache of getListOfValidMessagesToConsumedOnL1, 293-305).
NoOverRelay ==
    \A h \in Hashes :
        Cardinality(Relays(h)) <= Cardinality({w \in W : Hash[w] = h /\ Eligible(w)})

\* No withdrawal is relayed more than once, and once more for each fault:
\* a round begun again after an error or a crash, a batch that was broadcast
\* twice, and one that is still in the mempool when its calls are sent again
\* relay a withdrawal once more at most (348-368, 156).
RelayedOncePerFault == \A w \in W : relayed[w] <= 1 + faults

\* So the relayer consumes, of every hash, no more messages than were paid for
\* before the first fault, and as many more with each: users who claim between
\* the view and the transaction, rounds that are refused or revert, and equal
\* withdrawals that nobody paid for are not enough (285-318, 352-368).
OverRelayedPerFault ==
    \A h \in Hashes :
        Cardinality(Relays(h))
            <= (1 + faults) * Cardinality({w \in W : Hash[w] = h /\ Eligible(w)})

\* Nothing at or below the checkpoint is relayed before the first fault: the
\* range of a round begins after the block that was saved last, and no
\* transaction is in the mempool when a round begins (99-110, 156).
RelayedAhead ==
    [][faults = 0 => \A w \in W : relayed'[w] > relayed[w] => stored < Block[w]]_vars

\* The checkpoint never moves back, neither by a read of a lagging L1 or
\* indexer nor by a round begun after a crash (updateProcessedBlock 381-395).
CheckpointMonotone == [][stored' >= stored]_vars

\* The specification of the promise, its checkpoint the stored one or, before
\* the first round of the first start, the block it will begin from.
Promise == INSTANCE AbstractRelay
             WITH checkpoint <- IF stored = 0 THEN FirstBlock ELSE stored

\* Every step of the relayer is a step of the promise or changes nothing of it.
KeepsPromise == Promise!ASpec

(***************************************************************************)
(* Liveness.                                                               *)
(***************************************************************************)
\* Prices stay at their lowest in the end; the histories of the runs are such
\* that every payment covers its share of that price.
CheapInTheEnd == <>[](\A p \in Prices : price <= p)

\* The message of w is on L1, the indexer has w, and the relayer has not yet
\* seen the L1 state of now.
News(w) ==
    /\ Eligible(w) /\ FirstBlock < Block[w]
    /\ Block[w] <= indexed /\ Block[w] <= stateBlock
    /\ seen < stateBlock

\* No lost wake-up: a state update that arrives while the relayer processes,
\* saves, sleeps or recovers is noticed, and the paid withdrawal it completes is
\* consumed, once the price stays low (canWakeupRelayer 579-601).  The one
\* await that is left out is the read of the state itself: what the indexer
\* published after it was read waits for the next state update.
NoLostWakeup ==
    CheapInTheEnd =>
        \A w \in W : (News(w) /\ pc # "state") ~> (msgs[Hash[w]] = 0)
=============================================================================
