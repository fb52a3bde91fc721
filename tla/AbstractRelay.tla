--------------------------- MODULE AbstractRelay ---------------------------
(***************************************************************************)
(* What the relayer promises, without rounds, chunks, batches or           *)
(* transactions: messages of paid withdrawals are consumed, and a          *)
(* checkpoint moves forward, atomically, to a block that both the indexer  *)
(* and L1 have reached, only when no paid withdrawal at or below it is     *)
(* still waiting for its message to be consumed.                           *)
(***************************************************************************)
EXTENDS Withdrawals

VARIABLES
    indexed,    \* block of the last indexed withdrawal
    stateBlock, \* block proved on L1
    msgs,       \* counter of every message hash
    checkpoint  \* block up to which the relayer is done

avars == <<indexed, stateBlock, msgs, checkpoint>>

AInit ==
    /\ indexed = 0
    /\ stateBlock = 0
    /\ msgs = [h \in Hashes |-> 0]
    /\ checkpoint = FirstBlock

\* The indexer learns of later withdrawals.
Index ==
    /\ indexed' \in (indexed + 1)..MaxBlock
    /\ UNCHANGED <<stateBlock, msgs, checkpoint>>

\* L1 proves the next block.
Prove ==
    /\ stateBlock < MaxBlock
    /\ stateBlock' = stateBlock + 1
    /\ msgs' = [h \in Hashes |->
                  msgs[h] + Cardinality({w \in W : Hash[w] = h /\ Block[w] = stateBlock'})]
    /\ UNCHANGED <<indexed, checkpoint>>

\* A user claims one message.
Claim ==
    /\ \E h \in Hashes : msgs[h] > 0 /\ msgs' = [msgs EXCEPT ![h] = @ - 1]
    /\ UNCHANGED <<indexed, stateBlock, checkpoint>>

\* The relayer consumes messages, each in the name of a paid withdrawal.
Relay ==
    /\ \E S \in SUBSET {w \in W : Eligible(w)} : msgs' = Consume(msgs, S)
    /\ UNCHANGED <<indexed, stateBlock, checkpoint>>

\* Block p can be left behind: what is still on L1 belongs to withdrawals the
\* relayer owes nothing for at p.
Settled(p) == \A h \in Hashes : msgs[h] <= Cardinality(NotOwed(h, stateBlock, p))

\* The checkpoint advances.
Commit ==
    /\ \E p \in (checkpoint + 1)..Lesser(indexed, stateBlock) :
          Settled(p) /\ checkpoint' = p
    /\ UNCHANGED <<indexed, stateBlock, msgs>>

ANext == Index \/ Prove \/ Claim \/ Relay \/ Commit

ASpec == AInit /\ [][ANext]_avars
=============================================================================
