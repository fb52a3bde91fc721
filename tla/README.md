# Verification of the Starknet bridge relayer

TLA+ models of the relayer in `src/src`, the TLC runs that check them on small
instances, and TLAPS proofs of what holds for every instance. Line numbers are
those of `src/src/relayer/relayer.service.ts` unless another file is named.
`PROJECT.json` lists the runs, the code lines behind every definition, the
hazards and the findings.

## The system

A user withdraws tokens from Starknet (L2) to Ethereum (L1) and, in the same L2
transaction, pays the relayer the gas that the L1 half will cost. When L1 has
proved the L2 block, the relayer calls `withdraw` on the L1 bridge for the user.

| Component | State | Operations | Talks to |
| --- | --- | --- | --- |
| `RelayerService` (rounds) | locals of a round, `networkFeesMetadata` | `run`, `canProcessWithdrawals`, `processWithdrawals`, `consumeMessagesOnL1`, `canWakeupRelayer` | all below |
| `RelayerService` (payments) | none | `checkIfAmountPaidIsValid` | `GasService` |
| `RelayerService` (alerts) | reads `networkFeesMetadata` | `checkRelayerBalance`, `checkNetworkHighFees` | Discord, cron |
| `GasService` | shared in-memory cache: block numbers, fee chunks, costs | `getGasCostPerTimestamp`, `fetchBaseFeePriceHistory`, price arithmetic | L1 node, Etherscan |
| `GasController` | none | `GET gas-cost/:token/:timestamp` | `GasService` |
| `Web3Service` | none (a provider is chosen per call) | core contract reads, multicall view, `withdraw`, `tryAggregate` | L1 |
| `MongoService` | the checkpoint `blockNumber` | read, upsert | Mongo |
| `IndexerService` | none | `getWithdraws`, `getLastIndexedBlock` | GraphQL indexer |
| Starknet core contract | state block, L2→L1 message counters | `updateState`, `consumeMessageFromL2` | |
| `CronService` | none | starts the relayer job and two alert jobs | `RelayerService` |
| HTTP shell, throttling, Prometheus, health, logging, configuration, Discord | counters and wiring | | |

One process runs the rounds and serves HTTP; within a round every `await` is a
point where the world moves. `docker-compose` restarts the container
(`restart: always`), so a crash is a fresh start from the checkpoint.

What is hard:

* **Crashes and errors at every await.** Consuming happens before the
  checkpoint is saved; a round is run again from the old checkpoint.
* **Three reads at three moments** (checkpoint, indexer, L1 state, 435-440).
* **Stale counters**: the view is taken before the price check and long before
  the transactions are mined; users may claim for themselves in between.
* **Lost answers**: a broadcast batch is sent again by the retry.
* **Equal withdrawals share a message hash**, and arrays of different length
  are indexed with one `i` (307).
* **Waiting**: the relayer sleeps until the L1 state block has moved and stood
  still again; an update during the round must not be missed.
* **Providers**: every call to L1 picks a provider anew, and the second one may
  be behind the first; a chunk is collected in pages while the indexer goes on.
* **Shared caches**: the endpoint and the relayer look up blocks and costs
  through the same caches, behind an Etherscan that lags, fails or answers text.
* **What is said on the side**: reports inside the round and alert jobs beside it
  must not disturb it, whether the webhook answers or not.
* **Boundaries**: chunks of a round, quarter-hours of a quote, slices of the
  fee history, integer rounding of prices.

What makes each component correct:

* rounds: no paid withdrawal is left behind by the checkpoint; the checkpoint
  neither runs ahead nor goes back; gas is spent only on what was paid; every
  state update is acted on in the end;
* payments: whoever pays what was quoted, in time, is accepted;
* price: it covers the average of its window and goes the way the fees go;
* fee history: exactly the blocks of the window, whatever is cached;
* lookups: an answer is the cost of the checkpoint and token that were asked
  for, unless this checkpoint was asked for before its time, and a failed one
  decides nothing;
* alerts: they reach the operators when there is something to say, and change
  nothing of what the rounds do.

## Modules

| Module | Models |
| --- | --- |
| `Withdrawals` | the history as constants and the pure questions: ranges, requests, selection of calls, consumption of counters |
| `Relayer` | the round, one action per await of `run`, with the environment and the faults; all its properties |
| `AbstractRelay` | the promise, without rounds, chunks, batches or transactions |
| `Reads` | the reads of `Relayer` taken apart: providers that are behind, pages of a chunk |
| `Alerts` | the alert jobs and the reports beside `Relayer`, through a webhook that may be down |
| `MCRelayer`, `MCReads`, `MCAlerts` | the small histories the configurations name |
| `Relayer_proofs` | types, checkpoint and range of `Relayer`, proved |
| `NoLoss_proofs` | no loss, and only paid withdrawals relayed, proved |
| `Promise_proofs` | `Relayer` implements `AbstractRelay`, what that promise is worth, and what is relayed where and how often, proved |
| `Alerts_proofs` | alerts and reports leave the rounds alone, so all of this holds beside them, proved |
| `Reads_proofs` | what `Relayer` promises and what it does not when providers are late and chunks come in pages, proved |
| `GasPrice`, `FeeWindow`, `GasPrice_proofs` | the price arithmetic, a moving window of fees, theorems |
| `PaymentWindow` | quotes and their validation |
| `CostLookup`, `MCCostLookup`, `CostLookup_proofs` | `getGasCostPerTimestamp` behind `PaymentWindow`: HTTP requests and the relayer, two caches, Etherscan; theorems about both |
| `FeeHistory`, `MCFeeHistory`, `FeeHistory_proofs` | the chunked, cached base fee history with concurrent requests, theorems |

### How Relayer corresponds to the code

`pc` names the await the process stands at:

| `pc` | Code | Actions |
| --- | --- | --- |
| `start` | 435 `getLastProcessedBlock` | `ReadCheckpoint` |
| `indexer` | 437 `getLastIndexedBlock` | `ReadIndexer` |
| `state` | 440 `getStateBlockNumber`, then 443-445 and the test at 64 | `ReadState` |
| `chunk` | head of the loop 99; after it, 147-155 | `NextChunk`, `NothingToConsume`, `CostCovered`, `CostNotCovered` |
| `view` | 131 multicall views of `ViewLimit` requests each, then 136-142 | `ViewSome`, `ViewLast`, `ViewThrows` |
| `send` | 329 or 348 | `Send`, `SendAnswerLost` |
| `wait` | 331 or 350 `tx.wait()` | `Confirmed`, `Reverted` |
| `save` | 166 `updateProcessedBlock` | `SaveCheckpoint`, `SaveAnswerLost` |
| `wakeup` | 71-72 sleep and `canWakeupRelayer` | `StateMoved`, `WakeUp` |

A withdrawal is its position in the history; an array of the code is the
increasing enumeration of a set of positions, so `withdrawals[i]` is the element
of rank `i + 1`. The indexer read and the payment checks of a chunk are one step
with the head of the loop: their answers cannot change, because a range that the
indexer has reached is complete and a payment lies in the past. Transactions of
the relayer are mined in nonce order from `inflight`, which survives a crash.
A batch goes through `tryAggregate(false, ..)`, where one call fails alone; a
single call goes directly and reverts. `Fail` ends the round at any await, with
or without pending transactions; the lost answers are the two calls whose effect
can happen although the caller sees an error.

`relayed` and `faults` are history variables.

### Reads

`Reads` extends `Relayer` and replaces its reads of L1 and its one-step chunk.
`copy[p]` is the L1 that a late provider has; `L1Of(p)` is what a call through
`p` sees. `At(p)` is `Relayer` with that state block and those counters, so
`ReadAt(p)` takes the very read steps of `Relayer` (`ReadState`, the views,
`StateMoved`, `WakeUp`) elsewhere. `GetProvider(up)` is the first of the
providers that answer, and which answer is chosen anew at every call (137-149 of
`web3.service.ts`); `InvalidProviders` is the throw when none does. A late
provider only ever moves forward, to the L1 of the moment (`Sync`). `NextChunk`
becomes `FullPage` and `LastPage`, one query each, whose rows are the ones the
indexer has at that moment; payments are decided, and the views begin, with
the last page. `unseen` is a history variable: the withdrawals whose counter was
asked of a provider that did not have their block. `LossNeedsLag` is stated hash
by hash: one view that came too early may lose messages of the hash it asked
for, of equal withdrawals included, and of no other.

### Alerts

`Alerts` extends `Relayer` with the two cron jobs, each a read followed by a post
(`job`), and with the two awaits that follow `tx.wait()` in 332-359: the
balances, then the report (`report`). `Confirmed` of `Relayer` happens with the
answer to the report. `sendMessage` swallows its errors, so a post ends the same
way whether the webhook answers or not; only `"posted"` remembers that it did.
Amounts are their formats: `FormatDecimals` writes a decimal point, `Parses` is
what `BigNumber.from` accepts.

### CostLookup

`CostLookup` extends `PaymentWindow`: `gasCost` becomes the cost of the block that
each checkpoint has on L1, and `lookup[c]` is the await at which the call of
client `c` stands: the relayer, or one of the `Requests` the endpoint has in
flight. A request names any time, past or still to come, because
`gas.controller.ts` checks none. `Ask` is the clamp and the cache of block numbers,
then `FetchBlock` or `FetchText`, `LookUpCost` and `FetchHistory`, or
`LookupThrows`. Etherscan has L1 up to a time that is at most `Lag` ago; for a
later checkpoint it answers with its newest block, and `GotBlock` keeps that for
the checkpoint. `early` is a history variable: the checkpoints for which that has
happened. `Misled` is the relayer at the answer for one of them. A cached NaN
and an absent entry are both `None`, because `Number(..) || 0` makes them so, and
the two `new Error(..)` of 38 and 51 are not thrown: the call goes on
and fails at the fee history. `Compare` is `TryCheckpoint` of `PaymentWindow`
with the cost the relayer was told, and `Rethrow` its `LookupFails`.

### The other modules

* `PaymentWindow`: `gasCost` gives each checkpoint one cost, which is the promise that
  `CostLookup` is measured by; `TryCheckpoint` is one pass of the loop 488-500.
* `FeeWindow`: `Price` is `calculateGasCost` per gas unit for the fees of the
  window, which moves one block at a time.
* `FeeHistory`: a fee is written as its block number, so that the result says
  which blocks it is about. Looking into the cache and fetching are separate steps;
  the fetch and the write of the cache are one, because the value written does
  not depend on what happens between them.

## Runs

Every run finishes within four minutes. `CHECK_DEADLOCK FALSE` is used for the
modules about rounds (a finite history ends: the relayer then waits for a state
update that does not come) and about payments (time is bounded).

| Run | Instance | Shows |
| --- | --- | --- |
| `relayer_faults` | 5 withdrawals in 3 blocks: two equal paid ones, an unknown bridge, a paid one and an unpaid one equal to it; chunk 2; views and batches of 1; two prices; 2 faults | `NoLoss`, `OnlyPaidRelayed`, `KeepsPromise`, checkpoint and range properties under crashes, lost answers, self-claims and prices; `RelayedAhead` before the first of them, `RelayedOncePerFault` and `OverRelayedPerFault` however many there were |
| `reads` | 4 withdrawals in blocks 2 to 4, first block 1: an unknown bridge before a paid one, two equal paid ones in one chunk; views of 1; 2 providers, one late; pages and chunks of 2; one price | `InStepIsRelayer`, `PromiseInStep`, `LossNeedsLag`, and the checkpoint and range properties when rounds end in a TypeError or without a provider |
| `alerts` | 2 paid withdrawals in 2 blocks, two prices, 1 fault, fairness, a webhook and a balance that change at any time | `WakesThoughUnheard` (no lost wake-up), `LowBalanceAlerted`, `RoundsUnaffected` |
| `fee_window` | three fees around the rounding boundaries | `CoversAverage`, `FollowsFees` |
| `cost_lookup` | checkpoints of 2 s, 2 attempts, blocks of 4 s, a price that rises, two tokens, Etherscan up to 1 s behind, a request for any time, past or to come, and the relayer | `ExactUnlessEarly`, `WindowUnlessEarly`, `HonouredUnlessEarly`, `CreditedUnlessEarly`, `RelayerNeverEarly` |
| `fee_history` | window 7, chunks of 4, two requests, two attempts | `WindowExact`, `WrongOnlyAtChunkEnd` |

The bounds are enough because each hazard needs few things: two chunks to see a
boundary, two equal withdrawals to share a hash, two batches for one to fail,
one fault per window of time (two allow a crash during the repair of another),
two providers for one to be behind, a chunk with a full page and a rest.
`MaxBlock` 3 with chunk 2 has a full and a short chunk, and state updates before,
during and after a round. Window 7 with chunks of 4 has windows that begin and
end at, before and inside a chunk, with and without a middle chunk. In
`cost_lookup` a quote and a withdrawal lie on both sides of a checkpoint boundary,
the withdrawal up to the very end of the window. Of the three checkpoints two have the
same block and one the next; the last one is asked for when it is still to come
(`Begin` is before it), when Etherscan has not reached it yet, and later. The price
rises, so that a quote is met by an attempt or by none, and an early answer is too
cheap; that one which is too dear turns a user down needs a falling price, and is
covered by the theorem. The theorems hold
for all bounds.

### Findings

Runs that are expected to be violated, each one property the code or a document
states and the code does not keep:

| Run | Property | What happens |
| --- | --- | --- |
| `relayer_skewed` | `NoLoss` | an unpaid withdrawal before a paid one shifts `withdrawals[i]` (307); the paid message is passed by |
| `relayer_stray` | `NoLostWakeup` | an unknown bridge before a paid withdrawal: a TypeError at 312 in every round |
| `relayer_twin_crash` | `NoOverRelay` | the round repeated after a crash, or after an error between two batches, consumes the message of an unpaid equal withdrawal |
| `reads_behind` | `NoLoss` | the state block comes from one provider, the counters from another that does not have it: a paid message is taken for consumed |
| `alerts_high_fee` | `HighFeeAlerted` | the alert job parses `"0.002"` with `BigNumber.from` and throws, always |
| `fee_history_length` | `LengthAlwaysRight` | `slice(0, 0)` when the last block ends a chunk |

Observations without a run:

* Nothing bounds the time of a request. One for a checkpoint that Etherscan has not
  reached gets the newest block (`closest=before`, 200 of `gas.service.ts`), and 46
  keeps it for this checkpoint for a day. When the entry has expired, or the process
  has restarted, the same checkpoint has another block and another cost; so a quote
  and the relayer's check of it may differ. In `cost_lookup` these checkpoints are
  `early`, and what its properties leave out.
* The length of `fee_history_length` is what 176 of `gas.service.ts` checks. So a
  payment whose checkpoint has a block that is a multiple of 1000 cannot be
  priced: the window of 5760 is no multiple of 1000, every attempt to collect the
  history throws, and 494-497 passes the error on. Every round then ends at this
  withdrawal, for ever. In the rounds' model payment checks fail a bounded
  number of times, so `WakesThoughUnheard` says nothing about this case.
* The totals of 126-127 include withdrawals whose message is already consumed,
  so a transaction that its own payments cover may be refused until the price
  falls.
* `getAverageGasPrice` rounds down before the shift, so an average just below a
  multiple of five gwei is charged less than 20 percent more.
* The high-fee flag of 526 is cleared only after a round that consumed something
  (155-163): when the users claim by themselves it outlives its reason.
* The indexer is read before L1 (437-440). A withdrawal indexed in between is
  outside the range, and the relayer, which has seen that state block, waits for a
  later one before it looks again. `NoLostWakeup` leaves out exactly this await.

The histories of `relayer_faults` and `reads` have no unpaid withdrawal before a
paid one in a chunk, because the first finding would hide everything else. They
do have an unknown bridge before a paid withdrawal, which are in one chunk or in
two as the range begins; in one, the round ends in the TypeError, which loses
nothing but time. Theorems with `AlignedChunks` say nothing of these two
histories, so the runs add to them; the history of `reads_behind` is aligned.

## Fairness

`FairSpec` has weak fairness of `Round` and of `Mine`. The process is one loop
whose awaits return and whose timers fire, so some action of the round that
stays enabled is taken; L1 mines what was sent (a transaction with a price that
is never met would wait for ever at 350, which the code does not handle).
Nothing is assumed of the indexer, of state updates, of users or of prices, and
faults are bounded, not fair. `CheapInTheEnd` is a hypothesis of the liveness
properties, because a round is refused as long as the price is high.

`OFairSpec` of `Alerts` has weak fairness of the round, of each job's check and
of each post: the scheduler starts the jobs for ever, an outage of the balance
read ends, and a post resolves or rejects. It has none of `Mine`, of the webhook
or of the balance. `LowBalanceAlerted` needs no more, which is its point: the
relayer that ran out of funds is the one whose transactions are not mined.
`WakesThoughUnheard` adds fairness of mining as a hypothesis.

## Proofs

* `Relayer_proofs`. `TypeCorrect` is by induction on the type invariant, the
  only case with an argument being that a consumed counter stays natural.
  `CheckpointBounded` and `CheckpointNeverMovesBack` need `RangeInv`: what the
  round has read lies, while it walks, between the checkpoint and the two bounds,
  and the bounds only grow. `RangeIsTiled` needs `CountInv`: `counted` is the
  indicator of the requests of `(from, cur]`; the step is that the requests of
  `(from, cur']` are the disjoint union of those of `(from, cur]` and of the new
  chunk (`Tiling`), and that a chunk never passes the end (`ChunkEndType`).
* `NoLoss_proofs`, for histories with `AlignedChunks`. `NoLoss` speaks of the
  stored checkpoint and is not inductive. `LossOf(h)` carries it through a round,
  one hash at a time: `LossAt`, the property itself; `DebtOf`, that what is on L1 of
  the hash is at most what is not owed at the walked block (`Walked`) plus the
  calls the round is still going to make (`Pending`: collected, not yet sent, or
  sent and not yet mined); and `ViewOf`, that during a view an answer bounds what is
  on L1 up to what was proved after the block of its request (`Later`), so users
  who claim in between only help. `LossInv` is `LossOf` of all hashes with
  `WalkInv`, which says nothing of messages: where the round walks, whose calls it
  has collected, and which batch it waits for. The arguments are four. A chunk
  takes over exactly its requests (`OwedWalk`). The selection covers the counters
  (`SelectionCovers`): of each hash it takes all requests; or as many as an answer
  counted, because the elements of rank at most `c` are all or at least `c`
  (`RankCount`); or all that were answered with a message, and then the last of the
  others was answered with none, so that only later blocks are left, which by
  `OrderAssumption` stand after it. Where the eligible withdrawals come first, the
  calls are those of the accepted requests (`AlignedSelection`). And a mined batch
  takes its messages when its calls stop being pending (`ConsumeCovers`). At the
  save nothing is pending, so the invariant is `NoLoss` for the block that is stored.
  `OnlyPaidAreRelayed` follows the paid calls from the selection through the mempool
  (`PaidInv`).
* `Promise_proofs`. `PromiseIsKept` maps `Mine` to `Relay`, the save to `Commit`
  and the environment to itself; `Commit` needs `LossInv` (the block is settled)
  and `GoingInv` (a walked range is not empty, so the checkpoint advances).
  `NothingBehindIsRelayed` needs no hypothesis on the history: by `AheadInv` the
  calls of a round lie above the stored block, and before the first fault the
  mempool holds nothing but the batch the round waits for.
  `PromiseSuffices` says what the refinement is worth: of a behaviour of which
  nothing is known but that it keeps the promise, `KeptInv` (the stored block is
  settled and lies at or below the indexer and L1) proves `NoLoss` and
  `CheckpointBound`. So any other relayer that implements `AbstractRelay` has them.
  How often a withdrawal is relayed is a budget (`Spent`): a relay that happened, a
  call that is in the mempool, or the right of this round to call it (`MayCall`:
  it lies above the stored block, and this round has not sent it yet).
  `SendBudget` and `MineBudget` pass a unit from the right to the mempool and from
  there to the relay; what the walk and the save do only takes rights away; and
  each way to get a right back is a fault, a lost answer or a crash
  (`BudgetInv`: at most `1 + faults`). The one way that is not counted, a batch
  that reverted, has relayed nothing (`RevertedBudget`). So
  `RelayedOnceAndOncePerFault` holds for every history, and with `OnlyPaidRelayed` the
  relays of a hash map one to one to its paid withdrawals and a number up to
  `1 + faults` (`BudgetCount`): `OverRelayIsBounded`.
* `Alerts_proofs`. A step of the larger system is a job, which touches only what
  is its own (`JobStep`), a step of the rounds, or the await of a report, after which
  `Confirmed` of `Relayer` happens as it would have (`ReportStep`). So the
  relayer with its alerts implements `Relayer`, and `AlertsLoseNothing` collects what
  follows.
* `Reads_proofs`. `StepCases`: every step is one of `Relayer`, the end of a round,
  or a read at a provider, and that (`ReadCases`) is a step of `Relayer` in
  which other values `b`, `m` stand for the state block and the counters.
  `LastPageIsChunk` makes the pages one answer: by `RowsInv` what was fetched is,
  once each, the rows of the first pages, a short page is the last one
  (`ShortPage`), and the indexer has all blocks of the range already. So
  the invariants of `Relayer` without messages (`BaseInv`) carry over, and with
  them `BoundedAtProviders`, `NeverBackAtProviders` and `PagesAreTiled`, for all
  histories; `InStepRefinesRelayer` is the case where `b` and `m` are those of L1.
  For the loss, `CopyInv` says that a late provider has L1 as it was some blocks
  ago (`Behind`): what it misses was proved since. A provider that has the blocks of
  the requests it is asked for is then as good as L1 (`BehindKnows`), which is
  all `ViewOf` asks for; `TrustedLoss` is `LossOf(h)` for every hash no view of
  which came too early. `LagIsNeededToLose`, `PromiseAtProviders` and
  `OnlyPaidAtProviders` follow, under `AlignedChunks`. `AheadAtProviders` needs
  no hypothesis: `AheadInv` is about the range and the mempool, and a late answer
  changes neither.
* `GasPrice_proofs`. `PriceCoversWindow` from the losses of the two roundings
  against a shift of at least 20 percent and the floor of ten gwei;
  `ChargedMonotone` from the monotony of each rounding. The total of a window is a
  fold, that is a function defined by recursion over sets of positions. That there
  is one (`SumsExist`), that a fold is a value of it (`SumOfAll`), and that
  sums keep the order (`SumsOrder`, `SumMonotone`) are shown by a least
  counterexample: a set of positions for which the fact fails and that has fewest
  elements has a smaller one when the element the fold takes first is removed.
  With this `WindowIsCovered` holds for every window length and every set of fees.
  For `FollowsFees` the fold must be free to take any term first (`TakeOut`, again
  by a least counterexample): the total without the oldest fee is then the new
  total without the newest, because the positions in between only shift by one
  (`SumAdvance`, `WindowShift`). So the total moves as the fee that enters compares
  with the one that leaves, and `PriceFollowsFees` is `ChargedMonotone` for both
  directions.
* `CostLookup_proofs`, first part, about `PaymentWindow`, for every course of fixed
  costs. `LoopInv` says where the loop stands after some
  refused attempts. `SomeAttemptMeetsQuote`: a quote within the window shares its
  checkpoint with one of the attempts, because going back whole checkpoints
  moves `ClampTimestamp` by as many (`ClampShift`).
* `CostLookup_proofs`, second part, for any number of requests, any times they name
  and any lag. `LookupInv` has three parts: a checkpoint costs what its block does
  (`MarketInv`); a cached block is that of its checkpoint unless the checkpoint is in
  `early`, and a cached cost is always that of its block (`CachesInv`); and a call at
  any stage has the block of its checkpoint, or none, unless it is in `early`
  (`CallsInv`). `AnswersAreExact` is its last clause. `LookupImplementsWindow` maps
  `Compare` to `TryCheckpoint` where the relayer is not `Misled`, `Rethrow` and a
  crash of the validation to `LookupFails`, the quote and the world to their own steps
  and the rest to stuttering (`LookupStep`). A misled step may compare with
  any cost, so for the quote `EarlyLoopInv` keeps of `LoopInv` only what it leaves
  true: the attempts that were refused at a checkpoint not in `early` do not cover
  (`Refused`, `MisledPass`). As `early` only grows, a quoted checkpoint that is not in it
  when the user is turned down was not when it was compared
  (`QuotesAreHonouredBehindCaches`); `CreditsAreCovered` is the same for the attempt
  the loop stopped at (`Accepted`). `RelayerIsNeverEarly` is the arithmetic of the
  clamp: an attempt lies at or before the withdrawal (`AttemptTime`), and its
  checkpoint at least a checkpoint further back (`ClampBound`).
* `FeeHistory_proofs`. `HistoryInv` says that the cache holds nothing or the chunk
  its key stands for, and that a request has collected the blocks from the one
  after `Old(c)` up to the end of its last chunk (`Collected`): a run of blocks, to
  which the next chunk adds the next run (`TakeCollects`). The work is in the
  arithmetic of slices (`PartOfChunk`, from `OldFacts`, `ChunkFacts` and
  `RestFacts`): first, middle and last chunks, a window that begins or ends at a
  chunk, and `slice(0, 0)`. `WrongLengthOnlyAtChunkEnd` names the one case in which
  the length is wrong; in all others it is `Window`, and `WindowIsExact` says
  which blocks these are.

They rest on the named assumptions on constants. Counts and sizes are natural and
positive (`CountAssumption`, `ConfigAssumption`, `ReadsAssumption`, and the
`HistoryAssumption` of `Withdrawals`); positions follow blocks
(`OrderAssumption`); the shift is at least 20 (`ShiftAssumption`); the time of a
behaviour has room for all attempts (`WindowAssumption`); units and the time of
a block are positive, and the relayer is not one of the requests
(`LookupAssumption`); prices are positive costs (`MarketAssumption`); a slice of the fee history is no longer than
the window (`HistoryAssumption` of `FeeHistory`).

`AlignedChunks` is a hypothesis of the theorems and not an assumption on the
constants, because the code does not ensure it: `relayer_skewed` is what happens
without it. The theorems about ranges, the checkpoint, steps in step with
`Relayer` and `RelayedAhead` hold without it.

Only model-checked:

* Liveness (`LowBalanceAlerted`, `WakesThoughUnheard`), which the prover cannot treat.

Every invariant and every safety property of the passing runs is stated by a
theorem.

Only proved: `QuoteHonoured` and `CreditedInWindow` of the specification of
`PaymentWindow` alone. The run `cost_lookup` checks what is left of them with
lookups, `HonouredUnlessEarly` and `CreditedUnlessEarly`.

Not claimed:

* That two answers for one checkpoint agree: they do not, when the checkpoint was asked
  for early (see the observations). `HonouredUnlessEarly` says nothing of a user
  whose quoted checkpoint was.
* `NoOverRelay` is `OverRelayedPerFault` without its faults, and false
  (`relayer_twin_crash`).
* `RelayedOncePerFault` with late providers. A round of `Reads` may end because
  no provider answers, in the middle of its batches, and `InvalidProviders` counts
  no fault there; the counters it sees when it begins again may be old ones.

## Not modelled

* Block numbers by timestamp and fee chunks by block share the key space of one
  cache. A request for a time in 1970 could name the key of a chunk; `CostLookup`
  and `FeeHistory` keep their caches apart.
* An indexer that publishes a block in parts or in another order: it is outside
  the repository and queried as if it did not.
* A provider that is behind when the fee history is read, or that gives an old
  nonce to a transaction.
* The time between attempts: `sleep` in the retry helper is not awaited, so an
  outage is one fault whatever the number of attempts.
* The content of messages, HTTP wiring, throttling, metrics, health, logging,
  configuration: output and framework code.
* Gas limits and ABI encoding of transactions; chain reorganisations, and
  replacement of transactions.
* Integer widths: amounts are `BigNumber`s and block numbers are small.

## Plan

1. Done: the round with faults and its abstract specification, the price, the
   payment window, the fee history, and the proofs above, with `NoLoss` and the
   implementation of the promise.
2. Done: lagging providers and pages (`Reads`), the alert jobs and reports
   (`Alerts`), the lookups with their caches under the payment window
   (`CostLookup`).
3. Done: the proofs about `CostLookup`, `FeeHistory` and `Reads`, and about what is
   relayed before the first fault.
4. Done: the proofs about `Alerts`, about windows of fees, about the worth of the
   promise, and about how often a withdrawal is relayed with a given number of
   faults.
5. Open: how often with late providers, which needs a count of the rounds that end
   without one.
