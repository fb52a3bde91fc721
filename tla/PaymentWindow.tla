--------------------------- MODULE PaymentWindow ---------------------------
(***************************************************************************)
(* Quotes and their validation.  A user asks the HTTP endpoint what a      *)
(* withdrawal costs, pays that much on L2 some time later, and still later *)
(* the relayer compares the payment with the cost at the time of the       *)
(* withdrawal and at earlier checkpoints, so that the delay between quote  *)
(* and withdrawal is forgiven.                                             *)
(***************************************************************************)
EXTENDS Integers

CONSTANTS
    CheckPointSize,  \* CheckPointSizeMs, in seconds
    Attempts,        \* validationAttempts
    Costs,           \* gas costs a checkpoint may have, none of them zero
    Begin,           \* time a behaviour begins at, before the user comes
    MaxTime          \* bound on the time of a behaviour

\* The user comes late enough for the earliest attempt to have a checkpoint.
Start == CheckPointSize * Attempts

ASSUME WindowAssumption ==
    /\ CheckPointSize \in Nat \ {0}
    /\ Attempts \in Nat \ {0}
    /\ Costs \subseteq Nat \ {0}
    /\ MaxTime \in Nat
    /\ Begin \in 0..Start
    /\ Start <= MaxTime

\* Mutant of ClampTimestamp: the checkpoint the timestamp falls in.
ClampToNow(t) == t - (t % CheckPointSize)

\* The checkpoint a timestamp is priced at: the one before the one it falls in.
ClampTimestamp(t) == t - (t % CheckPointSize) - CheckPointSize

VARIABLES
    now,        \* L2 time
    gasCost,    \* gasCost[t]: the cost GasService has for checkpoint t
    quotedAt,   \* time of the user's quote, -1 before it
    amountPaid, \* transfer to the relayer, 0 for none
    withdrawnAt,\* timestamp of the withdrawal, -1 before it
    attempt,    \* i of checkIfAmountPaidIsValid
    timestamp,  \* its timestamp
    verdict     \* "open", "paid" or "invalid"

user  == <<quotedAt, amountPaid, withdrawnAt>>
check == <<attempt, timestamp, verdict>>
vars  == <<now, gasCost, user, check>>

Never == -1

\* The payment is enough at the checkpoint of t.
Covers(t) == amountPaid >= gasCost[ClampTimestamp(t)]

\* Checkpoints the endpoint or the relayer can ask for.
Checkpoints == {ClampTimestamp(t) : t \in CheckPointSize..MaxTime}

Init ==
    /\ now = Begin
    /\ gasCost \in [Checkpoints -> Costs]
    /\ quotedAt = Never /\ amountPaid = 0 /\ withdrawnAt = Never
    /\ attempt = 0 /\ timestamp = Never /\ verdict = "open"

Tick ==
    /\ now < MaxTime
    /\ now' = now + 1
    /\ UNCHANGED <<gasCost, user, check>>

\* GET gas-cost/{token}/{timestamp of now}.
Quote ==
    /\ now >= Start
    /\ withdrawnAt = Never
    /\ quotedAt' = now
    /\ UNCHANGED <<now, gasCost, amountPaid, withdrawnAt, check>>

\* The user transfers the quoted cost, or another amount, and withdraws.
Withdraw ==
    /\ now >= Start
    /\ withdrawnAt = Never
    /\ amountPaid' \in {0} \cup Costs
    /\ withdrawnAt' = now
    /\ timestamp' = now
    /\ UNCHANGED <<now, gasCost, quotedAt, attempt, verdict>>

\* No transfer to the relayer: no cost is looked up.
NothingPaid ==
    /\ withdrawnAt # Never
    /\ verdict = "open"
    /\ amountPaid = 0
    /\ verdict' = "invalid"
    /\ UNCHANGED <<now, gasCost, user, attempt, timestamp>>

\* Mutant of TryCheckpoint: the loop ends one attempt early.
TryFewer ==
    /\ withdrawnAt # Never
    /\ verdict = "open"
    /\ amountPaid # 0
    /\ IF Covers(timestamp)
       THEN verdict' = "paid" /\ UNCHANGED <<attempt, timestamp>>
       ELSE /\ attempt' = attempt + 1
            /\ timestamp' = timestamp - CheckPointSize
            /\ verdict' = IF attempt' = Attempts - 1 THEN "invalid" ELSE "open"
    /\ UNCHANGED <<now, gasCost, user>>

\* One pass of the loop: accept at this checkpoint or go one back.
TryCheckpoint ==
    /\ withdrawnAt # Never
    /\ verdict = "open"
    /\ amountPaid # 0
    /\ IF Covers(timestamp)
       THEN verdict' = "paid" /\ UNCHANGED <<attempt, timestamp>>
       ELSE /\ attempt' = attempt + 1
            /\ timestamp' = timestamp - CheckPointSize
            /\ verdict' = IF attempt' = Attempts THEN "invalid" ELSE "open"
    /\ UNCHANGED <<now, gasCost, user>>

\* The cost could not be determined: the exception ends the round, and the next
\* round validates the withdrawal from the beginning.
LookupFails ==
    /\ withdrawnAt # Never
    /\ verdict = "open"
    /\ amountPaid # 0
    /\ attempt' = 0
    /\ timestamp' = withdrawnAt
    /\ UNCHANGED <<now, gasCost, user, verdict>>

Next == Tick \/ Quote \/ Withdraw \/ NothingPaid \/ TryCheckpoint \/ LookupFails

Spec == Init /\ [][Next]_vars

-----------------------------------------------------------------------------
\* A user who pays what was quoted and withdraws within the window of the
\* attempts is never turned down, wherever the two times lie in their quarters
\* of an hour (checkIfAmountPaidIsValid 471-502).
QuoteHonoured ==
    /\ quotedAt # Never /\ withdrawnAt # Never
    /\ Covers(quotedAt)
    /\ withdrawnAt - quotedAt <= CheckPointSize * (Attempts - 1)
    => verdict # "invalid"

\* The cost that is credited is one of the window before the withdrawal, the
\* payment covers it, and every later checkpoint of the window was dearer than
\* the payment (485-491).
CreditedInWindow ==
    verdict = "paid" =>
        /\ attempt < Attempts
        /\ timestamp = withdrawnAt - attempt * CheckPointSize
        /\ Covers(timestamp)
        /\ \A i \in 0..(attempt - 1) : ~Covers(withdrawnAt - i * CheckPointSize)
=============================================================================
