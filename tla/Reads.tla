------------------------------- MODULE Reads -------------------------------
(***************************************************************************)
(* The reads of a round, taken apart.  Relayer reads L1 itself and lists   *)
(* the withdrawals of a chunk at once; the code asks, call by call, the    *)
(* first provider that answers, which may be behind L1 and behind the one  *)
(* it asked before, and collects a chunk in pages of a bounded size while  *)
(* the indexer goes on.                                                    *)
(*                                                                         *)
(* The steps that read L1 are those of Relayer, with the state block and   *)
(* the counters of the provider in place of those of L1.                   *)
(***************************************************************************)
EXTENDS Relayer

CONSTANTS
    Providers, \* number of provider URLs, the preferred one first
    Late,      \* those of them that may be behind L1
    PageLimit  \* limit of getRequestWithdrawalAtBlocks

ASSUME ReadsAssumption ==
    /\ Providers \in Nat \ {0}
    /\ Late \subseteq 1..Providers
    /\ PageLimit \in Nat \ {0}

P == 1..Providers

VARIABLES
    copy,    \* copy[p]: the L1 state that the late provider p has
    listed,  \* listed[w]: times row w was fetched for the chunk so far
    index,   \* number of full pages fetched
    unseen   \* history: viewed at a provider that did not have their block

pages == <<listed, index>>
rvars == <<vars, copy, pages, unseen>>

NoRows == [w \in W |-> 0]

Current == [stateBlock |-> stateBlock, msgs |-> msgs]

RInit ==
    /\ Init
    /\ copy = [p \in Late |-> Current]
    /\ listed = NoRows /\ index = 0
    /\ unseen = {}

\* The pages of the previous range are gone with it.
NoPages == listed' = NoRows /\ index' = 0

-----------------------------------------------------------------------------
(***************************************************************************)
(* Providers.                                                              *)
(***************************************************************************)

\* A late provider catches up with L1.
Sync(p) ==
    /\ copy[p] # Current
    /\ copy' = [copy EXCEPT ![p] = Current]
    /\ UNCHANGED <<vars, pages, unseen>>

\* L1 as provider p has it.
L1Of(p) == IF p \in Late THEN copy[p] ELSE Current

\* getProvider, when the providers of up answer: the first of the list.
GetProvider(up) == CHOOSE p \in up : \A q \in up : p <= q

\* The round, as it sees L1 through provider p.
At(p) == INSTANCE Relayer WITH stateBlock <- L1Of(p).stateBlock, msgs <- L1Of(p).msgs

Asked == FirstOf(Unanswered, ViewLimit)

\* The calls that read the core contract.
ReadAt(p) ==
    /\ UNCHANGED <<stateBlock, msgs, copy>>
    /\ NoPages
    /\ \/ /\ At(p)!ViewSome \/ At(p)!ViewLast \/ At(p)!ViewThrows
          /\ unseen' = unseen \cup {w \in Asked : Block[w] > L1Of(p).stateBlock}
       \/ /\ At(p)!ReadState \/ At(p)!StateMoved \/ At(p)!WakeUp
          /\ UNCHANGED unseen

ReadL1 == \E up \in (SUBSET P) \ {{}} : ReadAt(GetProvider(up))

\* None answers, at any call to L1 (the price is read last): getProvider throws
\* 'Invalid providers'.
InvalidProviders ==
    /\ \/ pc \in {"state", "view", "send", "wakeup"}
       \/ pc = "chunk" /\ cur = to /\ reqs # {}
    /\ NewRound
    /\ NoPages
    /\ UNCHANGED <<world, stored, isHighFee, history, copy, unseen>>

-----------------------------------------------------------------------------
(***************************************************************************)
(* Pages.                                                                  *)
(***************************************************************************)

\* Rows of the range after block f up to block t that the indexer has now.
Rows(f, t) == {w \in List(f, t) : Block[w] <= indexed}

\* Mutant of Page: the offset is the number of the page.
PageByIndex(f, t, k) ==
    {w \in Rows(f, t) : k < Rank(Rows(f, t), w) /\ Rank(Rows(f, t), w) <= k + PageLimit}

\* The query with offset k * PageLimit.
Page(f, t, k) ==
    {w \in Rows(f, t) : /\ k * PageLimit < Rank(Rows(f, t), w)
                        /\ Rank(Rows(f, t), w) <= (k + 1) * PageLimit}

NextPage == Page(cur, ChunkEnd(cur, to), index)

Pushed == [w \in W |-> listed[w] + IF w \in NextPage THEN 1 ELSE 0]

\* A full page: there may be more.
FullPage ==
    /\ pc = "chunk" /\ cur # to
    /\ Cardinality(NextPage) = PageLimit
    /\ listed' = Pushed
    /\ index' = index + 1
    /\ UNCHANGED <<vars, copy, unseen>>

\* A short page, or an empty one, is the last: go on with what was listed.
LastPage ==
    /\ pc = "chunk" /\ cur # to
    /\ Cardinality(NextPage) < PageLimit
    /\ counted' = [w \in W |-> counted[w] + IF Eligible(w) THEN Pushed[w] ELSE 0]
    /\ pc' = IF \E w \in W : Eligible(w) /\ Pushed[w] > 0 THEN "view" ELSE "chunk"
    /\ lo' = cur
    /\ cur' = ChunkEnd(cur, to)
    /\ ans' = NoAnswers
    /\ NoPages
    /\ UNCHANGED <<world, stored, bounds, reqs, todo, rest, history, copy, unseen>>

-----------------------------------------------------------------------------
\* The rest of the round, as in Relayer.
Other ==
    /\ \/ ReadCheckpoint \/ ReadIndexer
       \/ NothingToConsume \/ CostCovered \/ CostNotCovered
       \/ Send \/ Confirmed \/ Reverted \/ SaveCheckpoint
       \/ Faults
    /\ NoPages
    /\ UNCHANGED <<copy, unseen>>

Outside ==
    \/ Environment /\ UNCHANGED <<copy, pages, unseen>>
    \/ \E p \in Late : Sync(p)

RNext == ReadL1 \/ InvalidProviders \/ FullPage \/ LastPage \/ Other \/ Outside

RSpec == RInit /\ [][RNext]_rvars
-----------------------------------------------------------------------------
\* A paid withdrawal is left behind only if the counter of its hash was asked,
\* for it or for an equal one, of a provider that did not have the block yet:
\* neither pages, nor a provider behind when the range is chosen, when another
\* hash is viewed or when the relayer wakes up, loses anything (131, 440, 582;
\* web3.service.ts 137-149).
LossNeedsLag ==
    \A h \in Hashes :
        (\A w \in unseen : Hash[w] # h)
            => msgs[h] <= Cardinality(NotOwed(h, stateBlock, stored))

\* While the providers are in step, every step is one of Relayer's: a chunk that
\* was collected in pages, between which the indexer moved, is the chunk of one
\* answer (200-239).
InStepIsRelayer == [][(\A p \in Late : copy[p] = Current) => [Next \/ InvalidProviders]_vars]_rvars

\* Until a view was answered by a provider that did not have the block, every
\* step is one of the promise.
PromiseInStep == [][unseen' = {} => [Promise!ANext]_(Promise!avars)]_rvars
=============================================================================
