----------------------------- MODULE CostLookup -----------------------------
(***************************************************************************)
(* GasService behind PaymentWindow.  There a cost is looked up at once;    *)
(* here a lookup is the chain of awaits of getGasCostPerTimestamp: the     *)
(* cache of block numbers, Etherscan, the cache of costs, the fee history. *)
(* The HTTP endpoint and the relayer are in it at the same time and share  *)
(* both caches, whose entries expire; a crash empties them.  Requests may  *)
(* name any time, also one that Etherscan has not reached: it answers with *)
(* the newest block, which is then kept for the checkpoint.                *)
(*                                                                         *)
(* A fee history stands for the price per gas unit of its last block: how  *)
(* one is collected is in FeeHistory, how it is priced in GasPrice.        *)
(***************************************************************************)
EXTENDS PaymentWindow

CONSTANTS
    Markets,   \* courses of the price of a gas unit, by L1 block
    Tokens,    \* tokens of networkListBridgeMetadata
    Token,     \* the one of the withdrawal
    Units,     \* Units[k]: gasPaid of token k
    BlockTime, \* time between L1 blocks
    Lag,       \* how far Etherscan may be behind L1
    Requests   \* HTTP requests that may be in flight

ASSUME LookupAssumption ==
    /\ Token \in Tokens
    /\ Units \in [Tokens -> Nat \ {0}]
    /\ BlockTime \in Nat \ {0}
    /\ Lag \in Nat
    /\ "relayer" \notin Requests

\* The last L1 block at time t; blocks are counted from one.
BlockAt(t) == 1 + t \div BlockTime

Times == 0..MaxTime

Blocks == {BlockAt(t) : t \in Times}

Smaller(s, t) == IF s <= t THEN s ELSE t

ASSUME MarketAssumption ==
    \A m \in Markets :
        m \in [Blocks -> Nat] /\ \A b \in Blocks : m[b] * Units[Token] \in Costs

\* No block number or no cost.  A block number that is NaN counts as none.
None == 0

Clients == Requests \cup {"relayer"}

VARIABLES
    market,     \* market[b]: price from the fee history that ends with block b
    blockCache, \* by ctimestamp
    costCache,  \* by blockNumber-token
    lookup,     \* lookup[c]: the call that client c has made
    early       \* history: checkpoints looked up when Etherscan was not there yet

caches == <<blockCache, costCache>>
lvars == <<vars, market, caches, lookup, early>>

\* calculateGasCost for the fee history that ends with block b.
CostOf(b, k) == market[b] * Units[k]

Idle == [at |-> "idle", checkpoint |-> None, token |-> Token, block |-> None, cost |-> None]

NoBlocks == [t \in Checkpoints |-> None]
NoCosts == [b \in Blocks |-> [k \in Tokens |-> None]]

LInit ==
    /\ market \in Markets
    /\ Init
    /\ gasCost = [t \in Checkpoints |-> CostOf(BlockAt(t), Token)]
    /\ blockCache = NoBlocks
    /\ costCache = NoCosts
    /\ lookup = [c \in Clients |-> Idle]
    /\ early = {}

-----------------------------------------------------------------------------
(***************************************************************************)
(* One call of getGasCostPerTimestamp.                                     *)
(***************************************************************************)

\* The block of the checkpoint, when it is in the cache.
Ask(c, t, k) ==
    /\ lookup[c].at \in {"idle", "answered", "failed"}
    /\ LET checkpoint == ClampTimestamp(t)
           block == blockCache[checkpoint]
       IN lookup' = [lookup EXCEPT
            ![c] = [at |-> IF block = None THEN "etherscan" ELSE "cost",
                    checkpoint |-> checkpoint, token |-> k, block |-> block, cost |-> None]]
    /\ UNCHANGED <<market, caches, early>>

\* The call goes on with this block, and so will others.
GotBlock(c, block) ==
    /\ lookup' = [lookup EXCEPT ![c].at = "cost", ![c].block = block]
    /\ blockCache' = [blockCache EXCEPT ![lookup[c].checkpoint] = block]
    /\ UNCHANGED <<vars, market, costCache>>

\* Etherscan, which has L1 up to time n, answers with the last block before the
\* checkpoint that it has.
FetchBlock(c) ==
    /\ lookup[c].at = "etherscan"
    /\ \E n \in Times :
         /\ now - Lag <= n /\ n <= now
         /\ GotBlock(c, BlockAt(Smaller(lookup[c].checkpoint, n)))
         /\ early' = IF n < lookup[c].checkpoint THEN early \cup {lookup[c].checkpoint} ELSE early

\* Or with a text that is not a number.
FetchText(c) ==
    /\ lookup[c].at = "etherscan"
    /\ GotBlock(c, None)
    /\ UNCHANGED early

Answer(c, cost) ==
    lookup' = [lookup EXCEPT ![c].at = "answered", ![c].block = None, ![c].cost = cost]

\* Mutant of CachedCost: the key does not name the token.
CachedCostOfAny(b, k) ==
    IF b = None THEN None ELSE CHOOSE x \in {costCache[b][l] : l \in Tokens} :
                                 \A l \in Tokens : costCache[b][l] <= x

\* The cost in the cache, None when there is none.
CachedCost(b, k) == IF b = None THEN None ELSE costCache[b][k]

\* A cost in the cache is the answer.
LookUpCost(c) ==
    /\ lookup[c].at = "cost"
    /\ LET cost == CachedCost(lookup[c].block, lookup[c].token)
       IN IF cost # None THEN Answer(c, cost)
                         ELSE lookup' = [lookup EXCEPT ![c].at = "history"]
    /\ UNCHANGED <<vars, market, caches, early>>

\* The fee history is there: price it and keep the cost.
FetchHistory(c) ==
    /\ lookup[c].at = "history"
    /\ lookup[c].block # None
    /\ LET cost == CostOf(lookup[c].block, lookup[c].token)
       IN /\ Answer(c, cost)
          /\ costCache' = [costCache EXCEPT ![lookup[c].block][lookup[c].token] = cost]
    /\ UNCHANGED <<vars, market, blockCache, early>>

\* Etherscan does not answer three times, or there is no fee history: always so
\* when there is no block number.
LookupThrows(c) ==
    /\ lookup[c].at \in {"etherscan", "history"}
    /\ lookup' = [lookup EXCEPT ![c] = [Idle EXCEPT !.at = "failed"]]
    /\ UNCHANGED <<vars, market, caches, early>>

-----------------------------------------------------------------------------
(***************************************************************************)
(* The callers.                                                            *)
(***************************************************************************)

\* GET gas-cost: the user asks for the time of now.
AskQuote == Quote /\ \E c \in Requests : Ask(c, now, Token)

\* Others ask for any time, past or still to come, and any token; one that is
\* not in the table is refused before the lookup.
AskOther ==
    /\ \E c \in Requests, t \in CheckPointSize..MaxTime, k \in Tokens : Ask(c, t, k)
    /\ UNCHANGED vars

\* checkIfAmountPaidIsValid is at an attempt.
Validating == withdrawnAt # Never /\ verdict = "open" /\ amountPaid # 0

AskRelayer ==
    /\ Validating
    /\ lookup["relayer"].at = "idle"
    /\ Ask("relayer", timestamp, Token)
    /\ UNCHANGED vars

\* PaymentWindow, where every checkpoint has the cost that the relayer was told.
Told(cost) == INSTANCE PaymentWindow WITH gasCost <- [t \in Checkpoints |-> cost]

Return(c) == lookup' = [lookup EXCEPT ![c] = Idle]

\* The cost is known: one pass of the loop.
Compare ==
    /\ lookup["relayer"].at = "answered"
    /\ \E cost \in {lookup["relayer"].cost} : Told(cost)!TryCheckpoint
    /\ Return("relayer")
    /\ UNCHANGED <<gasCost, market, caches, early>>

\* Mutant of Rethrow: a cost that can not be found counts as not covered.
CountAsRefused ==
    /\ lookup["relayer"].at = "failed"
    /\ attempt' = attempt + 1
    /\ timestamp' = timestamp - CheckPointSize
    /\ verdict' = IF attempt' = Attempts THEN "invalid" ELSE "open"
    /\ Return("relayer")
    /\ UNCHANGED <<now, gasCost, user, market, caches, early>>

\* Mutant of Rethrow: a payment that can not be priced is let through.
AcceptUnpriced ==
    /\ lookup["relayer"].at = "failed"
    /\ verdict' = "paid"
    /\ Return("relayer")
    /\ UNCHANGED <<now, gasCost, user, attempt, timestamp, market, caches, early>>

\* It is not: the error ends the round.
Rethrow ==
    /\ lookup["relayer"].at = "failed"
    /\ LookupFails
    /\ Return("relayer")
    /\ UNCHANGED <<market, caches, early>>

-----------------------------------------------------------------------------
\* An entry has been in a cache for 24 hours.
Evict ==
    /\ \/ /\ \E t \in Checkpoints :
               blockCache[t] # None /\ blockCache' = [blockCache EXCEPT ![t] = None]
          /\ UNCHANGED costCache
       \/ /\ \E b \in Blocks, k \in Tokens :
               costCache[b][k] # None /\ costCache' = [costCache EXCEPT ![b][k] = None]
          /\ UNCHANGED blockCache
    /\ UNCHANGED <<vars, market, lookup, early>>

\* The process dies, and a new one validates from the beginning.
Crash ==
    /\ blockCache' = NoBlocks
    /\ costCache' = NoCosts
    /\ lookup' = [c \in Clients |-> Idle]
    /\ IF Validating THEN LookupFails ELSE UNCHANGED vars
    /\ UNCHANGED <<market, early>>

World == (Tick \/ Withdraw \/ NothingPaid) /\ UNCHANGED <<market, caches, lookup, early>>

LNext ==
    \/ AskQuote \/ AskOther \/ AskRelayer
    \/ \E c \in Clients :
          FetchBlock(c) \/ FetchText(c) \/ LookUpCost(c) \/ FetchHistory(c) \/ LookupThrows(c)
    \/ Compare \/ Rethrow
    \/ Evict \/ Crash \/ World

LSpec == LInit /\ [][LNext]_lvars
-----------------------------------------------------------------------------
\* Whatever the callers, Etherscan, its texts and the caches do to each other, an
\* answer is the cost of the block and the token that were asked for, unless
\* somebody asked for this very checkpoint before Etherscan had reached it: no
\* other early request, no expiry and no crash gives a wrong cost
\* (gas.service.ts 33-79).
ExactUnlessEarly ==
    \A c \in Clients :
        lookup[c].at = "answered" /\ lookup[c].checkpoint \notin early =>
            lookup[c].cost = CostOf(BlockAt(lookup[c].checkpoint), lookup[c].token)

\* The relayer compares with the cost of a checkpoint that was asked for early.
Misled == lookup["relayer"].at = "answered" /\ lookup["relayer"].checkpoint \in early

\* As long as the relayer is not, the validation with real lookups is the one
\* with a fixed cost for every checkpoint: a lookup that fails is repeated and
\* decides nothing (relayer.service.ts 488-500).
WindowUnlessEarly == [][UNCHANGED check \/ ~Misled => [Next]_vars]_lvars

\* A user whose payment covers the cost of the quoted checkpoint, and who
\* withdraws in time, is turned down only if this checkpoint was asked for
\* early.  Other checkpoints of the window that were do not matter
\* (relayer.service.ts 487-501).
HonouredUnlessEarly ==
    quotedAt # Never /\ ClampTimestamp(quotedAt) \notin early => QuoteHonoured

\* The relayer credits a payment only at one of the attempts, and only when the
\* payment covers its cost, unless this checkpoint was asked for early: no failed
\* lookup, other request or crash makes it work for less
\* (relayer.service.ts 488-491).
CreditedUnlessEarly ==
    verdict = "paid" =>
        /\ timestamp \in {withdrawnAt - i * CheckPointSize : i \in 0..(Attempts - 1)}
        /\ Covers(timestamp) \/ ClampTimestamp(timestamp) \in early

\* Where Etherscan is no later than a checkpoint is long, a checkpoint is never
\* looked up early for the relayer: clampTimestamp goes one checkpoint further
\* back, and the attempts come after the withdrawal (gas.utils.ts 13-15,
\* relayer.service.ts 485-499).
RelayerNeverEarly ==
    [][Lag <= CheckPointSize /\ early' # early
         => lookup'["relayer"] = lookup["relayer"]]_lvars
=============================================================================
