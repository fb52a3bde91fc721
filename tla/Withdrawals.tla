---------------------------- MODULE Withdrawals ----------------------------
(***************************************************************************)
(* The withdrawals of one bridge history, and the pure questions the       *)
(* relayer asks of them: which of them a block range holds, which of those *)
(* were paid for, and which L1 calls a set of view answers selects.        *)
(*                                                                         *)
(* A withdrawal is its position in the indexer's answer, 1..N.  Positions  *)
(* are ordered by L2 block, so the answer to a range query is an interval  *)
(* of positions and an array of the code is the increasing enumeration of  *)
(* a set of them: withdrawals[i] is the element of rank i + 1.             *)
(***************************************************************************)
EXTENDS Integers, FiniteSets

CONSTANTS
    N,          \* number of withdrawals in the history
    Hashes,     \* L2 -> L1 message hashes; equal withdrawals share one
    MaxBlock,   \* last L2 block of the history
    FirstBlock, \* FIRST_BLOCK of the environment: where a fresh relayer starts
    Block,      \* Block[w]: the L2 block of w
    Hash,       \* Hash[w]: getMessageHash(w)
    Known,      \* Known[w]: w's bridge is in networkListBridgeMetadata
    Cost,       \* Cost[w]: the gas cost accepted for w, 0 when its payment is invalid
    GasPaid     \* GasPaid[w]: gas units the payment of w stands for

W == 1..N

ASSUME CountAssumption ==
    /\ N \in Nat
    /\ MaxBlock \in Nat
    /\ FirstBlock \in Nat

ASSUME HistoryAssumption ==
    /\ Block \in [W -> 1..MaxBlock]
    /\ Hash \in [W -> Hashes]
    /\ Known \in [W -> BOOLEAN]
    /\ Cost \in [W -> Nat]
    /\ GasPaid \in [W -> Nat]

ASSUME OrderAssumption == \A v, w \in W : v <= w => Block[v] <= Block[w]

Lesser(a, b) == IF a <= b THEN a ELSE b

\* w gets an entry in multicallRequests: known bridge and valid payment.
Eligible(w) == Known[w] /\ Cost[w] > 0

\* Mutant of List: the range begins at the block the last one ended with.
ListFromLast(f, t) == {w \in W : f <= Block[w] /\ Block[w] <= t}

\* The answer of the indexer for startBlock = f + 1, endBlock = t.
List(f, t) == {w \in W : f + 1 <= Block[w] /\ Block[w] <= t}

\* Mutant of Requests: nobody looks at the payment.
RequestsUnpaid(f, t) == {w \in List(f, t) : Known[w]}

\* The multicall requests built from that answer.
Requests(f, t) == {w \in List(f, t) : Eligible(w)}

\* Position of w in the array that enumerates S, counted from 1.
Rank(S, w) == Cardinality({x \in S : x <= w})

\* slice(0, k) of the array that enumerates S.
FirstOf(S, k) == {w \in S : Rank(S, w) <= k}

(***************************************************************************)
(* Selection.  ans[e] is the counter the core contract returned for        *)
(* request e.  The cache keeps one counter per hash, the answer of the     *)
(* last request with that hash; a request takes one unit of it, zero       *)
(* answers take none.                                                      *)
(***************************************************************************)
Cached(R, ans, h) ==
    ans[CHOOSE e \in R : Hash[e] = h /\ \A x \in R : Hash[x] = h => x <= e]

Takers(R, ans, h) == {e \in R : Hash[e] = h /\ ans[e] > 0}

Accepted(R, ans) ==
    {e \in R : /\ ans[e] > 0
               /\ Rank(Takers(R, ans, Hash[e]), e) <= Cached(R, ans, Hash[e])}

\* Response i belongs to request i of R, but the call is built from
\* withdrawals[i] of the unfiltered answer L.
Selected(L, R, ans) == {w \in L : \E e \in Accepted(R, ans) : Rank(L, w) = Rank(R, e)}

(***************************************************************************)
(* The messages of the history.                                            *)
(***************************************************************************)
\* Withdrawals with hash h whose message is on L1 once block b is proved.
Sent(h, b) == {w \in W : Hash[w] = h /\ Block[w] <= b}

\* Those of them the relayer owes nothing for when it has passed block p.
NotOwed(h, b, p) ==
    {w \in Sent(h, b) : ~(Eligible(w) /\ FirstBlock < Block[w] /\ Block[w] <= p)}

\* Calls of a batch with w's hash that stand before w, w included.
CallsUpTo(batch, w) == {x \in batch : Hash[x] = Hash[w] /\ x <= w}

\* Mutant of Consume: the contract does not require a message.
ConsumeAnyway(m, batch) ==
    [h \in Hashes |-> m[h] - Cardinality({w \in batch : Hash[w] = h})]

\* What consuming a batch does to the counters: consumeMessageFromL2
\* requires a positive counter and takes one from it; the other calls fail
\* alone.
Consume(m, batch) ==
    [h \in Hashes |-> m[h] - Lesser(m[h], Cardinality({w \in batch : Hash[w] = h}))]

\* The calls of the batch that found a message.
Successful(m, batch) ==
    {w \in batch : Cardinality(CallsUpTo(batch, w)) <= m[Hash[w]]}
=============================================================================
