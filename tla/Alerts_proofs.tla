--------------------------- MODULE Alerts_proofs ---------------------------
(***************************************************************************)
(* Alerts and reports leave the rounds alone: with the jobs, the webhook   *)
(* and the stop to report every batch, the relayer is still an             *)
(* implementation of Relayer, and all that is proved of Relayer holds.     *)
(***************************************************************************)
EXTENDS Alerts, Promise_proofs

\* The jobs touch nothing of the rounds.
LEMMA JobStep ==
    ASSUME \/ CheckRelayerBalance \/ BalanceUnknown \/ CheckNetworkHighFees
           \/ \E j \in Jobs : SendMessage(j)
    PROVE  UNCHANGED vars
  BY DEF CheckRelayerBalance, BalanceUnknown, CheckNetworkHighFees, SendMessage, Job

\* The round stops to report a batch, and goes on as it would have.
LEMMA ReportStep == ASSUME ORound PROVE [Next]_vars
<1>1. CASE GetRelayerBalances
  BY <1>1 DEF GetRelayerBalances
<1>2. CASE Reported
  BY <1>2 DEF Reported, Next, Round
<1>3. CASE Unreported
  BY <1>3 DEF Unreported, Next, Round
<1> QED
  BY <1>1, <1>2, <1>3 DEF ORound

LEMMA AlertsStep == [ONext]_ovars => [Next]_vars
<1> SUFFICES ASSUME [ONext]_ovars PROVE [Next]_vars
  OBVIOUS
<1>1. CASE \/ CheckRelayerBalance \/ BalanceUnknown \/ CheckNetworkHighFees
           \/ \E j \in Jobs : SendMessage(j)
  BY <1>1, JobStep
<1>2. CASE ORound
  BY <1>2, ReportStep
<1>3. CASE Failures
  BY <1>3 DEF Failures, Next, Faults
<1>4. CASE CrashAll
  BY <1>4 DEF CrashAll, Next, Faults
<1>5. CASE Elsewhere
  BY <1>5 DEF Elsewhere, MineAndPay, TopUp, DiscordToggles, Next, Environment
<1>6. CASE UNCHANGED ovars
  BY <1>6 DEF ovars
<1> QED
  BY <1>1, <1>2, <1>3, <1>4, <1>5, <1>6 DEF ONext

\* Every step with alerts and reports is a step of the relayer without them, or
\* changes nothing of it (RoundsUnaffected): whether the webhook answers, and
\* what the jobs find, never fails or repeats anything a round does.
THEOREM AlertsLeaveRoundsAlone == OSpec => RoundsUnaffected
  BY AlertsStep, PTL DEF OSpec, RoundsUnaffected

\* So the relayer with its alerts implements Relayer.
THEOREM AlertsImplementRelayer == OSpec => Spec
<1>1. OInit => Init
  BY DEF OInit
<1> QED
  BY <1>1, AlertsStep, PTL DEF OSpec, Spec

\* And a process that stops to report every batch to a webhook that may be down
\* loses no withdrawal, keeps the promise, and relays nothing more often than
\* one that reports nothing.
THEOREM AlertsLoseNothing ==
    /\ OSpec => [](CheckpointBound /\ FetchedOnce /\ RelayedOncePerFault) /\ RelayedAhead
    /\ AlignedChunks /\ OSpec => [](NoLoss /\ OverRelayedPerFault) /\ KeepsPromise
<1>1. OSpec => [](CheckpointBound /\ FetchedOnce /\ RelayedOncePerFault) /\ RelayedAhead
  BY AlertsImplementRelayer, CheckpointBounded, RangeIsTiled, RelayedOnceAndOncePerFault,
     NothingBehindIsRelayed, PTL
<1>2. AlignedChunks /\ OSpec => [](NoLoss /\ OverRelayedPerFault) /\ KeepsPromise
  BY AlertsImplementRelayer, NothingIsLost, OverRelayIsBounded, PromiseIsKept, PTL
<1> QED
  BY <1>1, <1>2
=============================================================================
