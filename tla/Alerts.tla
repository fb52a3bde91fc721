------------------------------- MODULE Alerts -------------------------------
(***************************************************************************)
(* What the relayer tells its operators.  Two cron jobs run beside the     *)
(* rounds, in the same process: one looks at the L1 balance, the other at  *)
(* the fee metadata the rounds leave behind.  And after every mined        *)
(* transaction the round itself reads the balances and posts what it did   *)
(* before it goes on.  Everything is posted through one Discord webhook,   *)
(* which may be down.                                                      *)
(***************************************************************************)
EXTENDS Relayer

VARIABLES
    low,     \* the L1 balance is not above MinimumEthBalance
    discord, \* the webhook answers
    job,     \* job[j]: where the cron job j stands, "posted" when its alert arrived
    report   \* of the mined batch: "none" or "post"

operators == <<low, discord, job, report>>
ovars == <<vars, operators>>

Jobs == {"relayerBalance", "highNetworkFees"}

Idle == [j \in Jobs |-> "idle"]

OInit ==
    /\ Init
    /\ low \in BOOLEAN /\ discord \in BOOLEAN
    /\ job = Idle
    /\ report = "none"

-----------------------------------------------------------------------------
(***************************************************************************)
(* The jobs.  The scheduler starts each of them every few hours, and one   *)
(* that throws has just ended: the scheduler logs the error.               *)
(***************************************************************************)
Job(j, alert) ==
    /\ job[j] # "post"
    /\ job' = [job EXCEPT ![j] = IF alert THEN "post" ELSE "idle"]
    /\ UNCHANGED <<vars, low, discord, report>>

\* Mutant of CheckRelayerBalance: the check is made between rounds.
CheckBetweenRounds == pc = "start" /\ Job("relayerBalance", low)

\* checkRelayerBalance.
CheckRelayerBalance == Job("relayerBalance", low)

\* Its read of the balance fails and is not retried.
BalanceUnknown == Job("relayerBalance", FALSE)

\* formatDecimals writes a decimal point, also into whole amounts.
FormatDecimals == "decimal"

\* BigNumber.from reads digits and throws on everything else.
Parses(string) == string = "digits"

\* checkNetworkHighFees: throws when an amount does not parse.
CheckNetworkHighFees ==
    Job("highNetworkFees", isHighFee /\ Parses(FormatDecimals))

\* sendMessage: the job ends whether the webhook answered or not.
SendMessage(j) ==
    /\ job[j] = "post"
    /\ job' = [job EXCEPT ![j] = IF discord THEN "posted" ELSE "idle"]
    /\ UNCHANGED <<vars, low, discord, report>>

-----------------------------------------------------------------------------
(***************************************************************************)
(* The report of a batch.                                                  *)
(***************************************************************************)

\* The transaction is mined: read the balances, which are 'NA' when that fails.
GetRelayerBalances ==
    /\ pc = "wait"
    /\ inflight = <<>>
    /\ Single => txOk
    /\ report = "none"
    /\ report' = "post"
    /\ UNCHANGED <<vars, low, discord, job>>

\* Mutant of Reported: sendMessage passes its error on.
ReportedOrThrown ==
    /\ report = "post"
    /\ report' = "none"
    /\ IF discord
       THEN Confirmed
       ELSE NewRound /\ UNCHANGED <<world, stored, isHighFee, history>>
    /\ UNCHANGED <<low, discord, job>>

\* Mutant of Reported: sendMessage tries until the webhook answers.
ReportedAtLast ==
    /\ report = "post"
    /\ report' = "none"
    /\ discord
    /\ Confirmed
    /\ UNCHANGED <<low, discord, job>>

\* emitWithdrawalsProcessed, whatever becomes of it, then the next batch.
Reported ==
    /\ report = "post"
    /\ report' = "none"
    /\ Confirmed
    /\ UNCHANGED <<low, discord, job>>

-----------------------------------------------------------------------------
\* The awaits of the round that nothing is reported at.
Unreported ==
    /\ \/ ReadCheckpoint \/ ReadIndexer \/ ReadState
       \/ NextChunk \/ ViewSome \/ ViewLast \/ ViewThrows
       \/ NothingToConsume \/ CostCovered \/ CostNotCovered
       \/ Send \/ Reverted
       \/ SaveCheckpoint \/ StateMoved \/ WakeUp
    /\ UNCHANGED operators

\* Once a batch is mined nothing of its report throws.
Failures ==
    /\ report = "none"
    /\ Fail \/ SendAnswerLost \/ SaveAnswerLost
    /\ UNCHANGED operators

\* The jobs and the report die with the process.
CrashAll ==
    /\ Crash
    /\ job' = Idle
    /\ report' = "none"
    /\ UNCHANGED <<low, discord>>

\* A transaction costs gas.
MineAndPay ==
    /\ Mine
    /\ low' \in {low, TRUE}
    /\ UNCHANGED <<discord, job, report>>

TopUp ==
    /\ low
    /\ low' = FALSE
    /\ UNCHANGED <<vars, discord, job, report>>

DiscordToggles ==
    /\ discord' = ~discord
    /\ UNCHANGED <<vars, low, job, report>>

Elsewhere ==
    \/ (IndexBlock \/ UpdateState \/ SelfWithdraw \/ PriceMoves) /\ UNCHANGED operators
    \/ MineAndPay \/ TopUp \/ DiscordToggles

ORound == GetRelayerBalances \/ Reported \/ Unreported

ONext ==
    \/ CheckRelayerBalance \/ BalanceUnknown \/ CheckNetworkHighFees
    \/ \E j \in Jobs : SendMessage(j)
    \/ ORound
    \/ Failures \/ CrashAll
    \/ Elsewhere

OSpec == OInit /\ [][ONext]_ovars

\* The scheduler starts the jobs again and again, an outage of the balance read
\* ends, and the event loop runs the round and what was posted.  Neither L1 nor
\* Discord has to do anything.
OFairSpec ==
    /\ OSpec
    /\ WF_ovars(CheckRelayerBalance)
    /\ WF_ovars(CheckNetworkHighFees)
    /\ \A j \in Jobs : WF_ovars(SendMessage(j))
    /\ WF_ovars(ORound)
-----------------------------------------------------------------------------
\* Reports and alerts, and whether they arrive, change nothing of what the
\* rounds do: every step is one of Relayer's, and a webhook that is down never
\* fails a round after its messages were consumed (332-359; discord.service.ts
\* 17-23).
RoundsUnaffected == [][Next]_vars

\* A relayer that stays low on funds is announced again and again as long as the
\* webhook answers, also when its transactions are never mined and the round
\* waits for ever (535-541, 350).
LowBalanceAlerted ==
    <>[](low /\ discord) => []<>(job["relayerBalance"] = "posted")

\* As long as L1 mines, no state update is missed although every round that
\* consumes something stops to report it, even to a webhook that stays down.
WakesThoughUnheard == WF_ovars(MineAndPay) => NoLostWakeup

\* A round that is refused again and again is announced: "Can not execute a
\* transaction, the network fee is too high" (notifications.ts 26; 543-553).
HighFeeAlerted ==
    <>[](isHighFee /\ discord) => <>(job["highNetworkFees"] = "posted")
=============================================================================
