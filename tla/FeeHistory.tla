----------------------------- MODULE FeeHistory -----------------------------
(***************************************************************************)
(* GasService.fetchBaseFeePriceHistory: the base fees of the Window blocks *)
(* that end at a given one, put together from aligned chunks of Limit      *)
(* blocks.  Full chunks are kept in a cache that the HTTP handlers and the *)
(* relayer share; an unfinished last chunk is fetched and not kept.        *)
(*                                                                         *)
(* The fee of block n is written n, so that a list of fees says which      *)
(* blocks it is about.                                                     *)
(***************************************************************************)
EXTENDS Integers, Sequences

CONSTANTS
    Clients,   \* concurrent requests: HTTP handlers and the relayer
    Window,    \* getNumberOfBlocksToCalculateTheGasCost
    Limit,     \* getLimit
    MaxTries,  \* attempts of callWithRetry
    MaxBlock   \* bound on the L1 blocks of a behaviour

ASSUME HistoryAssumption ==
    /\ Window \in Nat \ {0}
    /\ Limit \in Nat \ {0}
    /\ Limit <= Window
    /\ MaxTries \in Nat \ {0}
    /\ MaxBlock \in Nat /\ Window < MaxBlock

VARIABLES
    head,     \* last L1 block
    cache,    \* cache[n]: the chunk kept under key n, <<>> when there is none
    pc,       \* "idle", "head", "look", "fetch", "done" or "failed"
    last,     \* lastBlockNumber of each client
    current,  \* currentBlockNumber it has read
    i,        \* its chunk number
    baseFees, \* fees collected so far
    tries     \* failed attempts

request == <<last, current, i, baseFees, tries>>
vars == <<head, cache, pc, request>>

Lesser(a, b) == IF a <= b THEN a ELSE b

Blocks(first, end) == [k \in 1..(end - first + 1) |-> first + k - 1]

\* eth_feeHistory(count, newest): count fees and the one after them.
FeeHistoryOf(newest, count) == Blocks(newest - count + 1, newest + 1)

\* s.slice(from, to) of an array.
Slice(s, from, to) == SubSeq(s, from + 1, Lesser(to, Len(s)))

Old(c) == last[c] - Window
Mod(c) == Old(c) % Limit
Chunks(c) == (Window + Mod(c) + Limit - 1) \div Limit
FromBlock(c) == Old(c) - Mod(c) + Limit + i[c] * Limit

Keys == {n \in Limit..(MaxBlock + Limit) : n % Limit = 0}

Init ==
    /\ head = Window + 1
    /\ cache = [n \in Keys |-> <<>>]
    /\ pc = [c \in Clients |-> "idle"]
    /\ last = [c \in Clients |-> Window]
    /\ current = [c \in Clients |-> 0]
    /\ i = [c \in Clients |-> 0]
    /\ baseFees = [c \in Clients |-> <<>>]
    /\ tries = [c \in Clients |-> 0]

NewBlock ==
    /\ head < MaxBlock
    /\ head' = head + 1
    /\ UNCHANGED <<cache, pc, request>>

\* A chunk outlives its 24 hours, or the process restarts.
Evict ==
    /\ \E n \in Keys : cache[n] # <<>> /\ cache' = [cache EXCEPT ![n] = <<>>]
    /\ UNCHANGED <<head, pc, request>>

\* A cost is asked for at a checkpoint whose block is last.  It is a quarter of
\* an hour old at least, so the head that is read next is not behind it.
Ask(c) ==
    /\ pc[c] \in {"idle", "done", "failed"}
    /\ \E n \in Window..head : last' = [last EXCEPT ![c] = n]
    /\ pc' = [pc EXCEPT ![c] = "head"]
    /\ tries' = [tries EXCEPT ![c] = 0]
    /\ UNCHANGED <<head, cache, current, i, baseFees>>

\* An attempt begins: the head is read once, for all the chunks.
ReadHead(c) ==
    /\ pc[c] = "head"
    /\ current' = [current EXCEPT ![c] = head]
    /\ i' = [i EXCEPT ![c] = 0]
    /\ baseFees' = [baseFees EXCEPT ![c] = <<>>]
    /\ pc' = [pc EXCEPT ![c] = "look"]
    /\ UNCHANGED <<head, cache, last, tries>>

\* What chunk number i contributes.
PartOf(c, chunk) ==
    CASE Mod(c) > 0 /\ i[c] = 0 -> Slice(chunk, Mod(c), Limit)
      [] Mod(c) > 0 /\ i[c] > 0 /\ i[c] = Chunks(c) - 1 -> Slice(chunk, 0, last[c] % Limit)
      [] Mod(c) = 0 /\ i[c] = Chunks(c) - 1 /\ Window % Limit # 0 ->
            Slice(chunk, 0, Window % Limit)
      [] OTHER -> Slice(chunk, 0, Limit)

Take(c, chunk) ==
    /\ baseFees' = [baseFees EXCEPT ![c] = @ \o PartOf(c, chunk)]
    /\ i' = [i EXCEPT ![c] = @ + 1]

\* The chunk is in the cache.
LookUp(c) ==
    /\ pc[c] = "look"
    /\ i[c] < Chunks(c)
    /\ cache[FromBlock(c)] # <<>>
    /\ Take(c, cache[FromBlock(c)])
    /\ UNCHANGED <<head, cache, pc, last, current, tries>>

\* It is not; the fetch comes after a pause.
Miss(c) ==
    /\ pc[c] = "look"
    /\ i[c] < Chunks(c)
    /\ cache[FromBlock(c)] = <<>>
    /\ pc' = [pc EXCEPT ![c] = "fetch"]
    /\ UNCHANGED <<head, cache, request>>

\* The whole chunk existed when the head was read: fetch it and keep it.
FetchChunk(c) ==
    /\ pc[c] = "fetch"
    /\ FromBlock(c) <= current[c]
    /\ cache' = [cache EXCEPT ![FromBlock(c)] = FeeHistoryOf(FromBlock(c), Limit)]
    /\ Take(c, FeeHistoryOf(FromBlock(c), Limit))
    /\ pc' = [pc EXCEPT ![c] = "look"]
    /\ UNCHANGED <<head, last, current, tries>>

\* Mutant of FetchRest: the unfinished chunk is kept as well.
FetchRestKept(c) ==
    /\ pc[c] = "fetch"
    /\ FromBlock(c) > current[c]
    /\ cache' = [cache EXCEPT ![FromBlock(c)] = FeeHistoryOf(last[c], last[c] % Limit)]
    /\ Take(c, FeeHistoryOf(last[c], last[c] % Limit))
    /\ pc' = [pc EXCEPT ![c] = "look"]
    /\ UNCHANGED <<head, last, current, tries>>

\* It did not: fetch what there is of it up to the last block.
FetchRest(c) ==
    /\ pc[c] = "fetch"
    /\ FromBlock(c) > current[c]
    /\ Take(c, FeeHistoryOf(last[c], last[c] % Limit))
    /\ pc' = [pc EXCEPT ![c] = "look"]
    /\ UNCHANGED <<head, cache, last, current, tries>>

\* The attempt is over without a result; errorCallback only logs the last one.
Again(c) ==
    /\ tries' = [tries EXCEPT ![c] = @ + 1]
    /\ pc' = [pc EXCEPT ![c] = IF tries'[c] = MaxTries THEN "failed" ELSE "head"]
    /\ UNCHANGED <<head, cache, last, current, i, baseFees>>

\* The node does not answer.
RpcFails(c) ==
    /\ pc[c] \in {"head", "fetch"}
    /\ Again(c)

\* Mutant of Finish: the length of the result is not looked at.
FinishAnyway(c) ==
    /\ pc[c] = "look"
    /\ i[c] = Chunks(c)
    /\ pc' = [pc EXCEPT ![c] = "done"]
    /\ UNCHANGED <<head, cache, request>>

\* All chunks are there and give as many fees as the window has blocks.
Finish(c) ==
    /\ pc[c] = "look"
    /\ i[c] = Chunks(c)
    /\ Len(baseFees[c]) = Window
    /\ pc' = [pc EXCEPT ![c] = "done"]
    /\ UNCHANGED <<head, cache, request>>

\* "Invalid Base gas data".
WrongLength(c) ==
    /\ pc[c] = "look"
    /\ i[c] = Chunks(c)
    /\ Len(baseFees[c]) # Window
    /\ Again(c)

Next ==
    \/ NewBlock \/ Evict
    \/ \E c \in Clients :
          \/ Ask(c) \/ ReadHead(c) \/ LookUp(c) \/ Miss(c)
          \/ FetchChunk(c) \/ FetchRest(c) \/ RpcFails(c)
          \/ Finish(c) \/ WrongLength(c)

Spec == Init /\ [][Next]_vars

-----------------------------------------------------------------------------
\* The result is the fees of exactly the Window blocks that end at the one asked
\* for, oldest first, whichever chunks came from the cache, were put there by
\* another request, or grew while this one ran (104-189).
WindowExact ==
    \A c \in Clients :
        pc[c] = "done" => baseFees[c] = Blocks(last[c] - Window + 1, last[c])

\* An assembled list has a wrong length only when the last block ends a chunk
\* and the window begins inside one: no interleaving with another request, no
\* eviction and no new block does it (176-182).
WrongOnlyAtChunkEnd ==
    \A c \in Clients :
        pc[c] = "look" /\ i[c] = Chunks(c) /\ Len(baseFees[c]) # Window
            => last[c] % Limit = 0 /\ Mod(c) > 0

\* "expect(res.baseFees.length).toEqual(startBlockNumber - oldBlockNumber)"
\* (gas.service.spec.ts:186), for every block the window may end at.
LengthAlwaysRight ==
    \A c \in Clients :
        pc[c] = "look" /\ i[c] = Chunks(c) => Len(baseFees[c]) = Window
=============================================================================
