-------------------------- MODULE CostLookup_proofs --------------------------
(***************************************************************************)
(* The validation of a payment and the lookups behind it.                  *)
(***************************************************************************)
EXTENDS CostLookup, TLAPS

-----------------------------------------------------------------------------
(***************************************************************************)
(* The window: quotes are honoured for every checkpoint size and number of *)
(* attempts.                                                               *)
(***************************************************************************)
\* The remainder is the only one.
LEMMA ModUnique ==
    ASSUME NEW g \in Nat, g > 0, NEW q \in Int, NEW r \in Int, 0 <= r, r < g
    PROVE  (q * g + r) % g = r
  OBVIOUS

LEMMA DivMod ==
    ASSUME NEW x \in Int, NEW g \in Nat, g > 0
    PROVE  /\ x \div g \in Int /\ x % g \in Int /\ 0 <= x % g /\ x % g < g
           /\ x = (x \div g) * g + (x % g)
  OBVIOUS

\* Going back whole checkpoints moves the checkpoint by as many.
LEMMA ClampShift ==
    ASSUME NEW t \in Int, NEW i \in Int
    PROVE  ClampTimestamp(t - i * CheckPointSize) = ClampTimestamp(t) - i * CheckPointSize
<1> DEFINE g == CheckPointSize
           q == t \div g
           r == t % g
<1>1. g \in Nat /\ g > 0
  BY WindowAssumption
<1>2. q \in Int /\ r \in Int /\ 0 <= r /\ r < g /\ t = q * g + r
  BY <1>1, DivMod
<1>3. (t - i * g) % g = r
  <2> HIDE DEF g, q, r
  <2>1. t - i * g = (q - i) * g + r
    BY <1>1, <1>2
  <2>2. q - i \in Int
    BY <1>2
  <2> QED
    BY <1>1, <1>2, <2>1, <2>2, ModUnique
<1>4. i * g \in Int
  BY <1>1
<1> QED
  BY <1>1, <1>2, <1>3, <1>4 DEF ClampTimestamp

-----------------------------------------------------------------------------
(***************************************************************************)
(* The loop.                                                               *)
(***************************************************************************)
\* Payments are costs or nothing; the times are those of the behaviour.
TimeInv ==
    /\ now \in Begin..MaxTime
    /\ gasCost \in [Checkpoints -> Costs]
    /\ quotedAt = Never \/ quotedAt \in Start..now
    /\ withdrawnAt = Never \/ withdrawnAt \in Start..now
    /\ withdrawnAt = Never => attempt = 0 /\ verdict = "open"

\* After i refused attempts the loop stands i checkpoints before the
\* withdrawal; it ends with a checkpoint that is covered or with none left.
LoopInv ==
    withdrawnAt # Never =>
        /\ quotedAt # Never => quotedAt <= withdrawnAt
        /\ attempt \in 0..Attempts
        /\ timestamp = withdrawnAt - attempt * CheckPointSize
        /\ \A i \in 0..(attempt - 1) : ~Covers(withdrawnAt - i * CheckPointSize)
        /\ verdict \in {"open", "paid", "invalid"}
        /\ verdict = "open" => attempt < Attempts
        /\ verdict = "paid" => attempt < Attempts /\ Covers(timestamp)
        /\ verdict = "invalid" => amountPaid = 0 \/ attempt = Attempts

LEMMA Arithmetic ==
    /\ CheckPointSize \in Nat /\ CheckPointSize > 0
    /\ Attempts \in Nat /\ Attempts > 0
    /\ MaxTime \in Nat
    /\ Start \in Nat /\ CheckPointSize <= Start /\ Start <= MaxTime
    /\ Begin \in Nat /\ Begin <= Start
<1>1. /\ CheckPointSize \in Nat /\ CheckPointSize > 0
      /\ Attempts \in Nat /\ Attempts > 0
      /\ MaxTime \in Nat /\ Start <= MaxTime
      /\ Begin \in 0..Start
  BY WindowAssumption
<1>2. Start = CheckPointSize * (Attempts - 1) + CheckPointSize
  BY <1>1 DEF Start
<1>3. CheckPointSize * (Attempts - 1) \in Nat
  BY <1>1
<1> QED
  BY <1>1, <1>2, <1>3

LEMMA InitLoop == Init => TimeInv /\ LoopInv
  BY Arithmetic DEF Init, TimeInv, LoopInv, Never

LEMMA TimeStep == TimeInv /\ [Next]_vars => TimeInv'
<1> SUFFICES ASSUME TimeInv, [Next]_vars PROVE TimeInv'
  OBVIOUS
<1> USE Arithmetic DEF TimeInv, Never
<1>1. CASE UNCHANGED vars
  BY <1>1 DEF vars, user, check
<1>2. CASE Tick
  BY <1>2 DEF Tick, user, check
<1>3. CASE Quote
  BY <1>3 DEF Quote, check
<1>4. CASE Withdraw
  BY <1>4 DEF Withdraw
<1>5. CASE NothingPaid \/ TryCheckpoint \/ LookupFails
  BY <1>5 DEF NothingPaid, TryCheckpoint, LookupFails, user
<1> QED
  BY <1>1, <1>2, <1>3, <1>4, <1>5 DEF Next

LEMMA LoopStep == TimeInv /\ LoopInv /\ [Next]_vars => LoopInv'
<1> SUFFICES ASSUME TimeInv, LoopInv, [Next]_vars PROVE LoopInv'
  OBVIOUS
<1>1. CASE UNCHANGED vars \/ Tick
  BY <1>1 DEF vars, user, check, Tick, LoopInv, Covers
<1>2. CASE Quote
  BY <1>2 DEF Quote, LoopInv, check
<1>3. CASE Withdraw
  <2>1. /\ attempt' = 0 /\ verdict' = "open" /\ quotedAt' = quotedAt
        /\ withdrawnAt' = now /\ timestamp' = now
    BY <1>3 DEF Withdraw, TimeInv
  <2> QED
    BY <2>1, Arithmetic DEF LoopInv, TimeInv
<1>4. CASE NothingPaid
  BY <1>4 DEF NothingPaid, LoopInv, user, Covers
<1>5. CASE LookupFails
  BY <1>5, Arithmetic DEF LookupFails, LoopInv, TimeInv, user
<1>6. CASE TryCheckpoint
  <2>1. /\ withdrawnAt # Never /\ verdict = "open"
        /\ UNCHANGED <<gasCost, quotedAt, amountPaid, withdrawnAt>>
        /\ attempt \in Nat /\ attempt < Attempts
        /\ timestamp = withdrawnAt - attempt * CheckPointSize
    BY <1>6, Arithmetic DEF TryCheckpoint, user, LoopInv
  <2>2. CASE Covers(timestamp)
    BY <1>6, <2>1, <2>2 DEF TryCheckpoint, LoopInv, Covers
  <2>3. CASE ~Covers(timestamp)
    <3>1. /\ attempt' = attempt + 1
          /\ timestamp' = timestamp - CheckPointSize
          /\ verdict' = IF attempt' = Attempts THEN "invalid" ELSE "open"
      BY <1>6, <2>3 DEF TryCheckpoint
    <3>2. withdrawnAt \in Int
      BY <2>1, Arithmetic DEF TimeInv
    <3>3. timestamp' = withdrawnAt' - attempt' * CheckPointSize
      BY <2>1, <3>1, <3>2, Arithmetic
    <3>4. \A i \in 0..(attempt' - 1) : ~Covers(withdrawnAt - i * CheckPointSize)
      <4> SUFFICES ASSUME NEW i \in 0..(attempt' - 1)
                   PROVE  ~Covers(withdrawnAt - i * CheckPointSize)
        OBVIOUS
      <4>1. i \in 0..(attempt - 1) \/ i = attempt
        BY <2>1, <3>1
      <4> QED
        BY <2>1, <2>3, <4>1 DEF LoopInv
    <3>5. \A i \in 0..(attempt' - 1) : ~Covers(withdrawnAt - i * CheckPointSize)'
      BY <2>1, <3>4 DEF Covers
    <3> QED
      BY <2>1, <3>1, <3>3, <3>5, Arithmetic DEF LoopInv
  <2> QED
    BY <2>2, <2>3
<1> QED
  BY <1>1, <1>2, <1>3, <1>4, <1>5, <1>6 DEF Next

\* A quote within the window shares its checkpoint with one of the attempts.
LEMMA SomeAttemptMeetsQuote ==
    ASSUME NEW q \in Int, NEW w \in Int, q <= w,
           w - q <= CheckPointSize * (Attempts - 1)
    PROVE  \E i \in 0..(Attempts - 1) :
              ClampTimestamp(w - i * CheckPointSize) = ClampTimestamp(q)
<1> DEFINE g == CheckPointSize
           a == w \div g
           b == q \div g
           i == a - b
<1>1. g \in Nat /\ g > 0 /\ Attempts \in Nat /\ Attempts > 0
  BY Arithmetic
<1>2. /\ a \in Int /\ w % g \in Int /\ 0 <= w % g /\ w % g < g /\ w = a * g + (w % g)
      /\ b \in Int /\ q % g \in Int /\ 0 <= q % g /\ q % g < g /\ q = b * g + (q % g)
  <2> HIDE DEF g
  <2> QED
    BY <1>1, DivMod
<1>3. ClampTimestamp(w) = a * g - g /\ ClampTimestamp(q) = b * g - g
  BY <1>1, <1>2 DEF ClampTimestamp
<1>4. i \in 0..(Attempts - 1)
  <2> DEFINE rw == w % g
             rq == q % g
  <2> HIDE DEF a, b, g
  <2>1. rw \in Int /\ 0 <= rw /\ rw < g /\ rq \in Int /\ 0 <= rq /\ rq < g
        /\ w = a * g + rw /\ q = b * g + rq
    BY <1>2
  <2> HIDE DEF rw, rq
  <2>2. i \in Int
    BY <1>2
  <2>3. w - q = i * g + (rw - rq) /\ i * g \in Int
    BY <1>1, <1>2, <2>1
  <2>4. i >= 0
    <3> SUFFICES ASSUME i <= -1 PROVE FALSE
      BY <2>2
    <3>1. i * g <= -g
      BY <1>1, <2>2
    <3> HIDE DEF i
    <3> QED
      BY <1>1, <2>1, <2>3, <3>1
  <2>5. i <= Attempts - 1
    <3> SUFFICES ASSUME i >= Attempts PROVE FALSE
      BY <1>1, <2>2
    <3>1. i * g >= Attempts * g /\ Attempts * g \in Int
      BY <1>1, <2>2
    <3>2. g * (Attempts - 1) = Attempts * g - g
      BY <1>1
    <3>3. w - q <= g * (Attempts - 1)
      BY DEF g
    <3> HIDE DEF i
    <3> QED
      BY <1>1, <2>1, <2>3, <3>1, <3>2, <3>3
  <2> QED
    BY <1>1, <2>2, <2>4, <2>5
<1>5. ClampTimestamp(w - i * g) = ClampTimestamp(w) - i * g
  BY <1>2, ClampShift
<1>6. a * g - g - i * g = b * g - g
  BY <1>1, <1>2
<1> QED
  BY <1>3, <1>4, <1>5, <1>6

\* Nothing is not enough for a quote.
LEMMA QuotesCost ==
    ASSUME TimeInv, quotedAt # Never, Covers(quotedAt)
    PROVE  amountPaid # 0
<1>1. quotedAt \in CheckPointSize..MaxTime
  BY Arithmetic DEF TimeInv
<1>2. ClampTimestamp(quotedAt) \in Checkpoints
  BY <1>1 DEF Checkpoints
<1>3. gasCost[ClampTimestamp(quotedAt)] \in Nat \ {0}
  BY <1>2, WindowAssumption DEF TimeInv
<1> QED
  BY <1>3 DEF Covers

LEMMA LoopInvariant == Spec => [](TimeInv /\ LoopInv)
  BY InitLoop, TimeStep, LoopStep, PTL DEF Spec

\* What the endpoint quoted is accepted for the whole window of the attempts,
\* for every checkpoint size, number of attempts and course of the costs.
THEOREM QuotesAreHonoured == Spec => []QuoteHonoured
<1>1. TimeInv /\ LoopInv => QuoteHonoured
  <2> SUFFICES ASSUME TimeInv, LoopInv,
                      quotedAt # Never, withdrawnAt # Never,
                      Covers(quotedAt),
                      withdrawnAt - quotedAt <= CheckPointSize * (Attempts - 1),
                      verdict = "invalid"
               PROVE  FALSE
    BY DEF QuoteHonoured
  <2>1. quotedAt \in Int /\ withdrawnAt \in Int /\ quotedAt <= withdrawnAt
    BY Arithmetic DEF TimeInv, LoopInv
  <2>2. PICK i \in 0..(Attempts - 1) :
            ClampTimestamp(withdrawnAt - i * CheckPointSize) = ClampTimestamp(quotedAt)
    BY <2>1, SomeAttemptMeetsQuote
  <2>3. Covers(withdrawnAt - i * CheckPointSize)
    BY <2>2 DEF Covers
  <2>4. attempt # Attempts
    BY <2>3 DEF LoopInv
  <2>5. amountPaid # 0
    BY QuotesCost
  <2> QED
    BY <2>4, <2>5 DEF LoopInv
<1> QED
  BY <1>1, LoopInvariant, PTL

\* The credited cost is the latest of the window that the payment covers.
THEOREM CreditsAreInWindow == Spec => []CreditedInWindow
<1>1. TimeInv /\ LoopInv => CreditedInWindow
  BY DEF TimeInv, LoopInv, CreditedInWindow
<1> QED
  BY <1>1, LoopInvariant, PTL

-----------------------------------------------------------------------------
(***************************************************************************)
(* The lookups behind the payment window.  Any number of requests ask for  *)
(* any time, Etherscan lags by any time: what can be wrong is the cost of  *)
(* the checkpoints that were asked for early, and nothing else.            *)
(***************************************************************************)
LEMMA LookupArithmetic ==
    /\ Lag \in Nat
    /\ Token \in Tokens
    /\ BlockTime \in Nat \ {0}
    /\ Units \in [Tokens -> Nat \ {0}]
    /\ "relayer" \notin Requests
  BY LookupAssumption

\* A checkpoint lies between one and two checkpoints before the time it is for.
LEMMA ClampBound ==
    ASSUME NEW t \in Int
    PROVE  /\ ClampTimestamp(t) \in Int /\ ClampTimestamp(t) <= t - CheckPointSize
           /\ CheckPointSize <= t => 0 <= ClampTimestamp(t)
<1> DEFINE g == CheckPointSize
           q == t \div g
<1>1. g \in Nat /\ g > 0
  BY Arithmetic
<1>2. /\ q \in Int /\ t % g \in Int /\ 0 <= t % g /\ t % g < g
      /\ t = q * g + (t % g)
  <2> HIDE DEF g
  <2> QED
    BY <1>1, DivMod
<1>3. ClampTimestamp(t) = q * g - g
  BY <1>1, <1>2 DEF ClampTimestamp
<1>4. g <= t => q >= 1
  <2> SUFFICES ASSUME g <= t, q <= 0 PROVE FALSE
    BY <1>2
  <2> HIDE DEF q, g
  <2>1. q * g <= 0
    BY <1>1, <1>2
  <2> QED
    BY <1>1, <1>2, <2>1
<1>5. q >= 1 => q * g >= g
  <2> HIDE DEF q, g
  <2> QED
    BY <1>1, <1>2
<1>6. q * g \in Int
  BY <1>1, <1>2
<1> HIDE DEF q
<1> QED
  BY <1>1, <1>2, <1>3, <1>4, <1>5, <1>6

LEMMA CheckpointType ==
    ASSUME NEW t \in Checkpoints
    PROVE  t \in Int /\ t \in Times
<1>1. PICK x \in CheckPointSize..MaxTime : t = ClampTimestamp(x)
  BY DEF Checkpoints
<1>2. /\ CheckPointSize \in Nat /\ MaxTime \in Nat
      /\ x \in Int /\ CheckPointSize <= x /\ x <= MaxTime
  BY Arithmetic
<1>3. t \in Int /\ t <= x - CheckPointSize /\ 0 <= t
  BY <1>1, <1>2, ClampBound
<1> QED
  BY <1>2, <1>3 DEF Times

LEMMA BlockType ==
    ASSUME NEW t \in Times
    PROVE  BlockAt(t) \in Blocks /\ BlockAt(t) \in Int
<1>1. t \in Int
  BY DEF Times
<1> QED
  BY <1>1, LookupArithmetic DEF BlockAt, Blocks

LEMMA BlocksAreNumbers == Blocks \in SUBSET Int
  BY BlockType DEF Blocks

-----------------------------------------------------------------------------
(***************************************************************************)
(* The loop, when it may have been told something else than the cost.      *)
(***************************************************************************)
\* An attempt the loop may have left behind, and one it may have stopped at.
Refused(t) == ~Covers(t) \/ ClampTimestamp(t) \in early
Accepted(t) == Covers(t) \/ ClampTimestamp(t) \in early

\* LoopInv, for a loop that is right about the checkpoints nobody asked for
\* early.
EarlyLoopInv ==
    withdrawnAt # Never =>
        /\ quotedAt # Never => quotedAt <= withdrawnAt
        /\ attempt \in 0..Attempts
        /\ timestamp = withdrawnAt - attempt * CheckPointSize
        /\ \A i \in 0..(attempt - 1) : Refused(withdrawnAt - i * CheckPointSize)
        /\ verdict \in {"open", "paid", "invalid"}
        /\ verdict = "open" => attempt < Attempts
        /\ verdict = "paid" => attempt < Attempts /\ Accepted(timestamp)
        /\ verdict = "invalid" => amountPaid = 0 \/ attempt = Attempts

\* What is refused or accepted stays so, as long as the payment and the costs do.
LEMMA StaysRefused ==
    ASSUME NEW t, UNCHANGED <<gasCost, amountPaid>>, early \subseteq early'
    PROVE  /\ Refused(t) => Refused(t)'
           /\ Accepted(t) => Accepted(t)'
  BY DEF Refused, Accepted, Covers

\* One pass of the loop, whatever it decided about its checkpoint.
LEMMA PassStep ==
    ASSUME TimeInv, EarlyLoopInv, early \subseteq early',
           withdrawnAt # Never, verdict = "open",
           UNCHANGED <<gasCost, quotedAt, amountPaid, withdrawnAt>>,
           \/ Accepted(timestamp) /\ verdict' = "paid" /\ UNCHANGED <<attempt, timestamp>>
           \/ /\ Refused(timestamp)
              /\ attempt' = attempt + 1
              /\ timestamp' = timestamp - CheckPointSize
              /\ verdict' = IF attempt' = Attempts THEN "invalid" ELSE "open"
    PROVE  EarlyLoopInv'
<1>1. /\ attempt \in Nat /\ attempt < Attempts /\ withdrawnAt \in Int
      /\ timestamp = withdrawnAt - attempt * CheckPointSize
      /\ quotedAt # Never => quotedAt <= withdrawnAt
      /\ \A i \in 0..(attempt - 1) : Refused(withdrawnAt - i * CheckPointSize)
  BY Arithmetic DEF EarlyLoopInv, TimeInv
<1>2. CASE Accepted(timestamp) /\ verdict' = "paid" /\ UNCHANGED <<attempt, timestamp>>
  <2>1. \A i \in 0..(attempt' - 1) : Refused(withdrawnAt - i * CheckPointSize)'
    BY <1>1, <1>2 DEF Refused, Covers
  <2>2. Accepted(timestamp)'
    BY <1>2 DEF Accepted, Covers
  <2> QED
    BY <1>1, <1>2, <2>1, <2>2, Arithmetic DEF EarlyLoopInv
<1>3. CASE /\ Refused(timestamp)
           /\ attempt' = attempt + 1
           /\ timestamp' = timestamp - CheckPointSize
           /\ verdict' = IF attempt' = Attempts THEN "invalid" ELSE "open"
  <2>1. timestamp' = withdrawnAt' - attempt' * CheckPointSize
    BY <1>1, <1>3, Arithmetic
  <2>2. \A i \in 0..(attempt' - 1) : Refused(withdrawnAt - i * CheckPointSize)
    <3> SUFFICES ASSUME NEW i \in 0..(attempt' - 1)
                 PROVE  Refused(withdrawnAt - i * CheckPointSize)
      OBVIOUS
    <3>1. i \in 0..(attempt - 1) \/ i = attempt
      BY <1>1, <1>3
    <3> QED
      BY <1>1, <1>3, <3>1
  <2>3. \A i \in 0..(attempt' - 1) : Refused(withdrawnAt - i * CheckPointSize)'
    BY <2>2 DEF Refused, Covers
  <2> QED
    BY <1>1, <1>3, <2>1, <2>3, Arithmetic DEF EarlyLoopInv
<1> QED
  BY <1>2, <1>3

\* The steps of the window.
LEMMA EarlyLoopStep ==
    ASSUME TimeInv, EarlyLoopInv, early \subseteq early', [Next]_vars
    PROVE  EarlyLoopInv'
<1>1. CASE UNCHANGED vars \/ Tick
  <2>1. UNCHANGED <<gasCost, quotedAt, amountPaid, withdrawnAt, attempt, timestamp, verdict>>
    BY <1>1 DEF vars, user, check, Tick
  <2>2. \A t : (Refused(t) => Refused(t)') /\ (Accepted(t) => Accepted(t)')
    BY <2>1, StaysRefused
  <2> QED
    BY <2>1, <2>2 DEF EarlyLoopInv
<1>2. CASE Quote
  BY <1>2 DEF Quote, EarlyLoopInv
<1>3. CASE Withdraw
  <2>1. /\ attempt' = 0 /\ verdict' = "open" /\ quotedAt' = quotedAt
        /\ withdrawnAt' = now /\ timestamp' = now
    BY <1>3 DEF Withdraw, TimeInv
  <2> QED
    BY <2>1, Arithmetic DEF EarlyLoopInv, TimeInv
<1>4. CASE NothingPaid
  <2>1. /\ UNCHANGED <<gasCost, quotedAt, amountPaid, withdrawnAt, attempt, timestamp>>
        /\ amountPaid = 0 /\ verdict' = "invalid"
    BY <1>4 DEF NothingPaid, user
  <2>2. \A t : (Refused(t) => Refused(t)') /\ (Accepted(t) => Accepted(t)')
    BY <2>1, StaysRefused
  <2> QED
    BY <2>1, <2>2 DEF EarlyLoopInv
<1>5. CASE LookupFails
  BY <1>5, Arithmetic DEF LookupFails, EarlyLoopInv, TimeInv, user
<1>6. CASE TryCheckpoint
  BY <1>6, PassStep DEF TryCheckpoint, user, Refused, Accepted
<1> QED
  BY <1>1, <1>2, <1>3, <1>4, <1>5, <1>6 DEF Next

\* The time of an attempt that is still to be made.
LEMMA AttemptTime ==
    ASSUME TimeInv, EarlyLoopInv, Validating
    PROVE  timestamp \in Int /\ CheckPointSize <= timestamp /\ timestamp <= now
<1> DEFINE g == CheckPointSize
<1>1. /\ withdrawnAt \in Start..now /\ now \in Int
      /\ attempt \in 0..(Attempts - 1) /\ timestamp = withdrawnAt - attempt * g
  BY Arithmetic DEF TimeInv, EarlyLoopInv, Validating
<1>2. Start = g * Attempts /\ g \in Nat /\ g > 0 /\ Attempts \in Nat
  BY Arithmetic DEF Start
<1>3. attempt * g \in Nat /\ attempt * g <= g * Attempts - g
  <2> HIDE DEF g
  <2>1. attempt \in Nat /\ (Attempts - 1) - attempt \in Nat
    BY <1>1, <1>2
  <2>2. attempt * g \in Nat /\ ((Attempts - 1) - attempt) * g \in Nat
    BY <1>2, <2>1
  <2>3. ((Attempts - 1) - attempt) * g = g * Attempts - g - attempt * g
    BY <1>2, <2>1
  <2>4. g * Attempts \in Nat
    BY <1>2
  <2> QED
    BY <1>2, <2>1, <2>2, <2>3, <2>4
<1>4. g * Attempts \in Nat
  BY <1>2
<1> HIDE DEF g
<1>5. timestamp \in Int /\ g <= timestamp /\ timestamp <= now
  BY <1>1, <1>2, <1>3, <1>4
<1> QED
  BY <1>5 DEF g

-----------------------------------------------------------------------------
(***************************************************************************)
(* The caches and the calls.                                               *)
(***************************************************************************)
\* What a checkpoint costs is the price of its block.
MarketInv ==
    /\ market \in Markets
    /\ gasCost = [t \in Checkpoints |-> CostOf(BlockAt(t), Token)]

\* A block that may be found for checkpoint t when those of E were asked for
\* early: none, its own, or an older one that was the newest then.
BlockIs(t, b, E) == b \in {None, BlockAt(t)} \/ (t \in E /\ b \in Blocks)

\* Costs are kept by block and are always those of their block.
CachesInv ==
    /\ early \subseteq Checkpoints
    /\ blockCache \in [Checkpoints -> Int]
    /\ \A t \in Checkpoints : BlockIs(t, blockCache[t], early)
    /\ costCache \in [Blocks -> [Tokens -> Int]]
    /\ \A b \in Blocks, k \in Tokens : costCache[b][k] \in {None, CostOf(b, k)}

Asking == {"etherscan", "cost", "history", "answered"}

Call == [at : {"idle", "failed"} \cup Asking, checkpoint : Int, token : Tokens,
         block : Int, cost : Int]

\* The block and the cost a call has found are the ones of its checkpoint, or
\* its checkpoint was asked for early.
CallOK(call) ==
    /\ call.at \in Asking => call.checkpoint \in Checkpoints
    /\ call.at \in {"cost", "history"} => BlockIs(call.checkpoint, call.block, early)
    /\ call.at = "answered" => \/ call.checkpoint \in early
                               \/ call.cost = CostOf(BlockAt(call.checkpoint), call.token)

\* The call of the relayer is the one for the attempt it is at.
RelayerCallOK ==
    LET call == lookup["relayer"]
    IN  /\ call.at # "idle" => Validating
        /\ call.at \in Asking =>
             call.checkpoint = ClampTimestamp(timestamp) /\ call.token = Token

CallsInv ==
    /\ lookup \in [Clients -> Call]
    /\ \A c \in Clients : CallOK(lookup[c])
    /\ RelayerCallOK

LookupInv == MarketInv /\ CachesInv /\ CallsInv

LEMMA CostType ==
    ASSUME MarketInv, NEW b \in Blocks, NEW k \in Tokens
    PROVE  CostOf(b, k) \in Nat
<1>1. market[b] \in Nat /\ Units[k] \in Nat
  BY MarketAssumption, LookupArithmetic DEF MarketInv
<1> QED
  BY <1>1 DEF CostOf

LEMMA OwnBlock ==
    ASSUME NEW t \in Checkpoints
    PROVE  BlockAt(t) \in Blocks
  BY CheckpointType, BlockType

\* A block that was found is one of L1.
LEMMA FoundBlock ==
    ASSUME NEW t \in Checkpoints, NEW b, NEW E, BlockIs(t, b, E)
    PROVE  b \in {None} \cup Blocks /\ b \in Int
<1>1. b \in {None} \cup Blocks
  BY OwnBlock DEF BlockIs
<1> QED
  BY <1>1, BlocksAreNumbers DEF None

LEMMA InitLookup == LInit => LookupInv
<1> SUFFICES ASSUME LInit PROVE LookupInv
  OBVIOUS
<1> USE DEF LInit, None
<1>1. MarketInv
  BY DEF MarketInv
<1>2. CachesInv
  BY DEF CachesInv, NoBlocks, NoCosts, BlockIs
<1>3. CallsInv
  BY LookupArithmetic DEF CallsInv, Call, CallOK, RelayerCallOK, Idle, Clients, Asking
<1> QED
  BY <1>1, <1>2, <1>3 DEF LookupInv

-----------------------------------------------------------------------------
(***************************************************************************)
(* The steps of a call.                                                    *)
(***************************************************************************)
\* A call that is left alone stays right.
LEMMA OtherCallOK ==
    ASSUME CallsInv, NEW d \in Clients, UNCHANGED market, early \subseteq early',
           lookup'[d] = lookup[d]
    PROVE  CallOK(lookup[d])'
<1>1. CallOK(lookup[d])
  BY DEF CallsInv
<1> QED
  BY <1>1 DEF CallOK, BlockIs, CostOf

\* Whatever is asked for, the call begins with what the cache has.
LEMMA AskOK ==
    ASSUME LookupInv, NEW c \in Clients, NEW k \in Tokens,
           NEW t \in CheckPointSize..MaxTime, Ask(c, t, k)
    PROVE  /\ lookup' \in [Clients -> Call]
           /\ \A d \in Clients : CallOK(lookup[d])'
           /\ lookup'[c].checkpoint = ClampTimestamp(t) /\ lookup'[c].token = k
           /\ \A d \in Clients \ {c} : lookup'[d] = lookup[d]
<1> DEFINE checkpoint == ClampTimestamp(t)
           block == blockCache[checkpoint]
           call == [at |-> IF block = None THEN "etherscan" ELSE "cost",
                    checkpoint |-> checkpoint, token |-> k, block |-> block, cost |-> None]
<1>1. checkpoint \in Checkpoints
  BY DEF Checkpoints
<1>2. checkpoint \in Int
  BY <1>1, CheckpointType
<1>3. block \in Int /\ BlockIs(checkpoint, block, early)
  BY <1>1 DEF LookupInv, CachesInv
<1>4. lookup' = [lookup EXCEPT ![c] = call]
  BY DEF Ask
<1>5. UNCHANGED <<market, early>>
  BY DEF Ask
<1> HIDE DEF checkpoint, block
<1>6. call \in Call
  BY <1>2, <1>3 DEF Call, Asking, None
<1>7. lookup' \in [Clients -> Call] /\ lookup'[c] = call
      /\ \A d \in Clients \ {c} : lookup'[d] = lookup[d]
  BY <1>4, <1>6 DEF LookupInv, CallsInv
<1>8. CallOK(lookup[c])'
  BY <1>1, <1>3, <1>5, <1>7 DEF CallOK, Asking
<1>9. \A d \in Clients \ {c} : CallOK(lookup[d])'
  BY <1>5, <1>7, OtherCallOK DEF LookupInv
<1> QED
  BY <1>7, <1>8, <1>9 DEF checkpoint

\* One step of the call of c, which keeps what was asked for.
LEMMA CallStep ==
    ASSUME CallsInv, NEW c \in Clients, UNCHANGED <<vars, market>>, early \subseteq early',
           NEW at \in {"idle", "failed"} \cup Asking, NEW block \in Int, NEW cost \in Int,
           lookup' = [lookup EXCEPT ![c].at = at, ![c].block = block, ![c].cost = cost],
           lookup[c].at \in Asking,
           at \in {"cost", "history"} => BlockIs(lookup[c].checkpoint, block, early'),
           at = "answered" => \/ lookup[c].checkpoint \in early'
                              \/ cost = CostOf(BlockAt(lookup[c].checkpoint), lookup[c].token)
    PROVE  CallsInv'
<1> DEFINE call == [lookup[c] EXCEPT !.at = at, !.block = block, !.cost = cost]
<1>1. lookup \in [Clients -> Call] /\ CallOK(lookup[c]) /\ RelayerCallOK
  BY DEF CallsInv
<1>2. call \in Call /\ call.at = at /\ call.block = block /\ call.cost = cost
      /\ call.checkpoint = lookup[c].checkpoint /\ call.token = lookup[c].token
  BY <1>1 DEF Call
<1>3. lookup' = [lookup EXCEPT ![c] = call]
  BY <1>1 DEF Call
<1> HIDE DEF call
<1>4. lookup' \in [Clients -> Call] /\ lookup'[c] = call
      /\ \A d \in Clients \ {c} : lookup'[d] = lookup[d]
  <2>1. lookup \in [Clients -> Call] /\ call \in Call
    BY <1>1, <1>2
  <2> QED
    BY <1>3, <2>1
<1>5. market' = market /\ timestamp' = timestamp /\ Validating' = Validating
  BY DEF vars, user, check, Validating
<1>6. CallOK(lookup[c])'
  BY <1>1, <1>2, <1>4, <1>5 DEF CallOK, CostOf
<1>7. \A d \in Clients \ {c} : CallOK(lookup[d])'
  BY <1>4, <1>5, OtherCallOK
<1>8. RelayerCallOK'
  <2>1. CASE c = "relayer"
    BY <1>1, <1>2, <1>4, <1>5, <2>1 DEF RelayerCallOK, Asking
  <2>2. CASE c # "relayer"
    BY <1>1, <1>4, <1>5, <2>2 DEF RelayerCallOK, Clients
  <2> QED
    BY <2>1, <2>2
<1> QED
  BY <1>4, <1>6, <1>7, <1>8 DEF CallsInv

\* The caches stay right when an entry is set to what it may be.
LEMMA BlockCacheStep ==
    ASSUME CachesInv, UNCHANGED <<market, costCache>>, NEW t \in Checkpoints,
           early \subseteq early', early' \subseteq Checkpoints,
           NEW block, BlockIs(t, block, early'),
           blockCache' = [blockCache EXCEPT ![t] = block]
    PROVE  CachesInv'
<1>1. block \in Int
  BY FoundBlock
<1>2. blockCache' \in [Checkpoints -> Int]
  BY <1>1 DEF CachesInv
<1>3. \A x \in Checkpoints : BlockIs(x, blockCache[x], early) => BlockIs(x, blockCache[x], early')
  BY DEF BlockIs
<1>4. \A x \in Checkpoints : BlockIs(x, blockCache'[x], early')
  BY <1>3 DEF CachesInv
<1> QED
  BY <1>2, <1>4 DEF CachesInv, CostOf

LEMMA CostCacheStep ==
    ASSUME MarketInv, CachesInv, UNCHANGED <<market, blockCache, early>>,
           NEW b \in Blocks, NEW k \in Tokens, NEW cost \in {None, CostOf(b, k)},
           costCache' = [costCache EXCEPT ![b][k] = cost]
    PROVE  CachesInv'
<1>1. cost \in Int
  BY CostType DEF None
<1>2. costCache' \in [Blocks -> [Tokens -> Int]]
  BY <1>1 DEF CachesInv
<1>3. \A x \in Blocks, l \in Tokens :
         costCache'[x][l] = IF x = b /\ l = k THEN cost ELSE costCache[x][l]
  BY DEF CachesInv
<1> QED
  BY <1>2, <1>3 DEF CachesInv, CostOf

\* A block has been found for the call of c.
LEMMA GotBlockOK ==
    ASSUME LookupInv, NEW c \in Clients, lookup[c].at = "etherscan",
           NEW block, GotBlock(c, block),
           early \subseteq early', early' \subseteq Checkpoints,
           BlockIs(lookup[c].checkpoint, block, early')
    PROVE  LookupInv'
<1> DEFINE t == lookup[c].checkpoint
<1>1. /\ UNCHANGED <<vars, market, costCache>>
      /\ lookup' = [lookup EXCEPT ![c].at = "cost", ![c].block = block]
      /\ blockCache' = [blockCache EXCEPT ![t] = block]
  BY DEF GotBlock
<1>2. lookup \in [Clients -> Call] /\ CallOK(lookup[c]) /\ lookup[c].cost \in Int
  BY DEF LookupInv, CallsInv, Call
<1>3. t \in Checkpoints
  BY <1>2 DEF CallOK, Asking
<1>4. block \in Int
  BY <1>3, FoundBlock
<1>5. lookup' = [lookup EXCEPT ![c].at = "cost", ![c].block = block, ![c].cost = lookup[c].cost]
  BY <1>1, <1>2 DEF Call
<1>6. CallsInv'
  BY <1>1, <1>2, <1>4, <1>5, CallStep DEF LookupInv, Asking
<1>7. CachesInv'
  BY <1>1, <1>3, BlockCacheStep DEF LookupInv
<1>8. MarketInv'
  BY <1>1 DEF LookupInv, MarketInv, CostOf, vars
<1> QED
  BY <1>6, <1>7, <1>8 DEF LookupInv

LEMMA FetchBlockStep ==
    ASSUME LookupInv, NEW c \in Clients, FetchBlock(c)
    PROVE  LookupInv' /\ UNCHANGED vars /\ early \subseteq early'
<1> DEFINE t == lookup[c].checkpoint
<1>1. PICK n \in Times :
         /\ GotBlock(c, BlockAt(Smaller(t, n)))
         /\ early' = IF n < t THEN early \cup {t} ELSE early
  BY DEF FetchBlock
<1>2. lookup[c].at = "etherscan" /\ CallOK(lookup[c])
  BY DEF FetchBlock, LookupInv, CallsInv
<1>3. t \in Checkpoints /\ t \in Int /\ n \in Int
  BY <1>2, CheckpointType DEF CallOK, Asking, Times
<1>4. early \subseteq early' /\ early' \subseteq Checkpoints
  BY <1>1, <1>3 DEF LookupInv, CachesInv
<1>5. BlockIs(t, BlockAt(Smaller(t, n)), early')
  <2>1. CASE n < t
    BY <1>1, <1>3, <2>1, BlockType DEF BlockIs, Smaller
  <2>2. CASE ~(n < t)
    BY <1>3, <2>2 DEF BlockIs, Smaller
  <2> QED
    BY <2>1, <2>2
<1>6. LookupInv'
  BY <1>1, <1>2, <1>4, <1>5, GotBlockOK
<1> QED
  BY <1>1, <1>4, <1>6 DEF GotBlock

LEMMA FetchTextStep ==
    ASSUME LookupInv, NEW c \in Clients, FetchText(c)
    PROVE  LookupInv' /\ UNCHANGED vars /\ early' = early
<1>1. lookup[c].at = "etherscan" /\ GotBlock(c, None) /\ early' = early
  BY DEF FetchText
<1>2. early' \subseteq Checkpoints /\ BlockIs(lookup[c].checkpoint, None, early')
  BY <1>1 DEF LookupInv, CachesInv, BlockIs
<1> QED
  BY <1>1, <1>2, GotBlockOK DEF GotBlock

LEMMA LookupSteps ==
    ASSUME LookupInv, NEW c \in Clients,
           LookUpCost(c) \/ FetchHistory(c) \/ LookupThrows(c)
    PROVE  LookupInv' /\ UNCHANGED vars /\ early' = early
<1> DEFINE t == lookup[c].checkpoint
           k == lookup[c].token
<1>1. UNCHANGED <<vars, market, early>>
  BY DEF LookUpCost, FetchHistory, LookupThrows
<1>2. MarketInv'
  BY <1>1 DEF LookupInv, MarketInv, CostOf, vars
<1>3. /\ lookup \in [Clients -> Call] /\ CallOK(lookup[c])
      /\ lookup[c].block \in Int /\ lookup[c].cost \in Int /\ k \in Tokens
  BY DEF LookupInv, CallsInv, Call
<1>4. lookup[c].at \in Asking => t \in Checkpoints
  BY <1>3 DEF CallOK
<1>5. CASE LookUpCost(c)
  <2> DEFINE b == lookup[c].block
             cost == CachedCost(b, k)
  <2>1. lookup[c].at = "cost" /\ UNCHANGED caches
    BY <1>5 DEF LookUpCost
  <2>2. CachesInv'
    BY <1>1, <2>1 DEF LookupInv, CachesInv, CostOf, caches
  <2>3. BlockIs(t, b, early) /\ b \in {None} \cup Blocks
    <3>1. BlockIs(t, b, early) /\ t \in Checkpoints
      BY <1>3, <1>4, <2>1 DEF CallOK, Asking
    <3> QED
      BY <3>1, FoundBlock
  <2>4. CASE cost # None
    <3>1. lookup' = [lookup EXCEPT ![c].at = "answered", ![c].block = None, ![c].cost = cost]
      BY <1>5, <2>4 DEF LookUpCost, Answer
    <3>2. b # None /\ b \in Blocks /\ cost = costCache[b][k]
      BY <2>3, <2>4 DEF CachedCost
    <3>3. cost = CostOf(b, k) /\ cost \in Int
      BY <1>3, <2>4, <3>2, CostType DEF LookupInv, CachesInv
    <3>4. t \in early' \/ cost = CostOf(BlockAt(t), k)
      BY <1>1, <2>3, <3>2, <3>3 DEF BlockIs
    <3>5. /\ None \in Int /\ early \subseteq early'
          /\ "answered" \in {"idle", "failed"} \cup Asking /\ lookup[c].at \in Asking
      BY <1>1, <2>1 DEF None, Asking
    <3> HIDE DEF cost, b
    <3>6. CallsInv'
      BY <1>1, <3>1, <3>3, <3>4, <3>5, CallStep DEF LookupInv
    <3> QED
      BY <1>1, <1>2, <2>2, <3>6 DEF LookupInv
  <2>5. CASE cost = None
    <3>1. lookup' = [lookup EXCEPT ![c].at = "history"]
      BY <1>5, <2>5 DEF LookUpCost
    <3>2. lookup' = [lookup EXCEPT ![c].at = "history", ![c].block = lookup[c].block,
                                   ![c].cost = lookup[c].cost]
      BY <1>3, <3>1 DEF Call
    <3>3. CallsInv'
      BY <1>1, <1>3, <2>1, <2>3, <3>2, CallStep DEF LookupInv, Asking
    <3> QED
      BY <1>1, <1>2, <2>2, <3>3 DEF LookupInv
  <2> QED
    BY <2>4, <2>5
<1>6. CASE FetchHistory(c)
  <2> DEFINE b == lookup[c].block
             cost == CostOf(b, k)
  <2>1. /\ lookup[c].at = "history" /\ b # None /\ UNCHANGED blockCache
        /\ lookup' = [lookup EXCEPT ![c].at = "answered", ![c].block = None, ![c].cost = cost]
        /\ costCache' = [costCache EXCEPT ![b][k] = cost]
    BY <1>6 DEF FetchHistory, Answer
  <2>2. BlockIs(t, b, early) /\ b \in Blocks
    <3>1. BlockIs(t, b, early) /\ t \in Checkpoints
      BY <1>3, <1>4, <2>1 DEF CallOK, Asking
    <3> QED
      BY <2>1, <3>1, FoundBlock
  <2>3. cost \in Int /\ cost \in {None, CostOf(b, k)} /\ None \in Int
    BY <1>3, <2>2, CostType DEF LookupInv, None
  <2>4. t \in early' \/ cost = CostOf(BlockAt(t), k)
    BY <1>1, <2>1, <2>2 DEF BlockIs
  <2> HIDE DEF cost, b
  <2>5. CallsInv'
    <3>1. /\ early \subseteq early'
          /\ "answered" \in {"idle", "failed"} \cup Asking /\ lookup[c].at \in Asking
      BY <1>1, <2>1 DEF Asking
    <3> QED
      BY <1>1, <2>1, <2>3, <2>4, <3>1, CallStep DEF LookupInv
  <2>6. CachesInv'
    BY <1>1, <1>3, <2>1, <2>2, <2>3, CostCacheStep DEF LookupInv
  <2> QED
    BY <1>1, <1>2, <2>5, <2>6 DEF LookupInv
<1>7. CASE LookupThrows(c)
  <2>1. /\ lookup[c].at \in Asking /\ UNCHANGED caches
        /\ lookup' = [lookup EXCEPT ![c] = [Idle EXCEPT !.at = "failed"]]
    BY <1>7 DEF LookupThrows, Asking
  <2>2. CachesInv'
    BY <1>1, <2>1 DEF LookupInv, CachesInv, CostOf, caches
  <2>3. [Idle EXCEPT !.at = "failed"] \in Call /\ [Idle EXCEPT !.at = "failed"].at = "failed"
    BY LookupArithmetic DEF Idle, Call, None
  <2>4. /\ lookup' \in [Clients -> Call] /\ lookup'[c].at = "failed"
        /\ \A d \in Clients \ {c} : lookup'[d] = lookup[d]
    BY <1>3, <2>1, <2>3
  <2>5. \A d \in Clients : CallOK(lookup[d])'
    <3>1. CallOK(lookup[c])'
      BY <2>4 DEF CallOK, Asking
    <3>2. \A d \in Clients \ {c} : CallOK(lookup[d])'
      BY <1>1, <2>4, OtherCallOK DEF LookupInv
    <3> QED
      BY <3>1, <3>2
  <2>6. RelayerCallOK'
    <3>1. Validating' = Validating /\ timestamp' = timestamp
      BY <1>1 DEF vars, user, check, Validating
    <3>2. CASE c = "relayer"
      BY <2>1, <2>4, <3>1, <3>2 DEF LookupInv, CallsInv, RelayerCallOK, Asking
    <3>3. CASE c # "relayer"
      BY <2>4, <3>1, <3>3 DEF LookupInv, CallsInv, RelayerCallOK, Clients
    <3> QED
      BY <3>2, <3>3
  <2> QED
    BY <1>1, <1>2, <2>2, <2>4, <2>5, <2>6 DEF LookupInv, CallsInv
<1> QED
  BY <1>1, <1>5, <1>6, <1>7

-----------------------------------------------------------------------------
(***************************************************************************)
(* The steps of the callers and of the world around them.                  *)
(***************************************************************************)
\* The relayer has no call before the withdrawal, nor when nothing was paid.
LEMMA NoCallYet ==
    ASSUME CallsInv, ~Validating
    PROVE  lookup["relayer"].at = "idle"
  BY DEF CallsInv, RelayerCallOK

LEMMA AskQuoteStep ==
    ASSUME TimeInv, LookupInv, AskQuote
    PROVE  LookupInv' /\ Quote /\ early' = early
<1>1. Quote
  BY DEF AskQuote
<1>2. PICK c \in Requests : Ask(c, now, Token)
  BY DEF AskQuote
<1>3. gasCost' = gasCost /\ withdrawnAt = Never /\ UNCHANGED <<market, caches, early>>
  BY <1>1, <1>2 DEF Quote, Ask
<1>4. now \in CheckPointSize..MaxTime
  BY <1>1, Arithmetic DEF TimeInv, Quote
<1>5. /\ lookup' \in [Clients -> Call] /\ \A d \in Clients : CallOK(lookup[d])'
      /\ lookup'["relayer"] = lookup["relayer"]
  BY <1>2, <1>4, AskOK, LookupArithmetic DEF Clients
<1>6. lookup["relayer"].at = "idle"
  BY <1>3, NoCallYet DEF LookupInv, Validating
<1>7. RelayerCallOK'
  BY <1>5, <1>6 DEF RelayerCallOK, Asking
<1>8. MarketInv' /\ CachesInv'
  BY <1>3 DEF LookupInv, MarketInv, CachesInv, CostOf, caches
<1> QED
  BY <1>1, <1>3, <1>5, <1>7, <1>8 DEF LookupInv, CallsInv

LEMMA AskOtherStep ==
    ASSUME LookupInv, AskOther
    PROVE  LookupInv' /\ UNCHANGED vars /\ early' = early
<1>1. PICK c \in Requests, t \in CheckPointSize..MaxTime, k \in Tokens : Ask(c, t, k)
  BY DEF AskOther
<1>2. UNCHANGED vars /\ UNCHANGED <<market, caches, early>>
  BY <1>1 DEF AskOther, Ask
<1>3. gasCost' = gasCost /\ Validating' = Validating /\ timestamp' = timestamp
  BY <1>2 DEF vars, user, check, Validating
<1>4. /\ lookup' \in [Clients -> Call] /\ \A d \in Clients : CallOK(lookup[d])'
      /\ lookup'["relayer"] = lookup["relayer"]
  BY <1>1, AskOK, LookupArithmetic DEF Clients
<1>5. RelayerCallOK'
  BY <1>3, <1>4 DEF LookupInv, CallsInv, RelayerCallOK
<1>6. MarketInv' /\ CachesInv'
  BY <1>2, <1>3 DEF LookupInv, MarketInv, CachesInv, CostOf, caches
<1> QED
  BY <1>2, <1>4, <1>5, <1>6 DEF LookupInv, CallsInv

LEMMA AskRelayerStep ==
    ASSUME TimeInv, EarlyLoopInv, LookupInv, AskRelayer
    PROVE  LookupInv' /\ UNCHANGED vars /\ early' = early
<1>1. /\ Validating /\ Ask("relayer", timestamp, Token)
      /\ UNCHANGED vars /\ UNCHANGED <<market, caches, early>>
  BY DEF AskRelayer, Ask
<1>2. gasCost' = gasCost /\ Validating' = Validating /\ timestamp' = timestamp
  BY <1>1 DEF vars, user, check, Validating
<1>3. timestamp \in CheckPointSize..MaxTime
  BY <1>1, AttemptTime, Arithmetic DEF TimeInv
<1>4. /\ lookup' \in [Clients -> Call] /\ \A d \in Clients : CallOK(lookup[d])'
      /\ lookup'["relayer"].checkpoint = ClampTimestamp(timestamp)
      /\ lookup'["relayer"].token = Token
  BY <1>1, <1>3, AskOK, LookupArithmetic DEF Clients
<1>5. RelayerCallOK'
  BY <1>1, <1>2, <1>4 DEF RelayerCallOK
<1>6. MarketInv' /\ CachesInv'
  BY <1>1, <1>2 DEF LookupInv, MarketInv, CachesInv, CostOf, caches
<1> QED
  BY <1>1, <1>4, <1>5, <1>6 DEF LookupInv, CallsInv

\* The relayer has returned from its call; what it did with the answer does not
\* matter to the calls and caches.
LEMMA ReturnStep ==
    ASSUME LookupInv, Return("relayer"), UNCHANGED <<gasCost, market, caches, early>>
    PROVE  LookupInv'
<1>1. Idle \in Call /\ Idle.at = "idle"
  BY LookupArithmetic DEF Idle, Call, None
<1>2. lookup \in [Clients -> Call] /\ "relayer" \in Clients
  BY DEF LookupInv, CallsInv, Clients
<1>3. /\ lookup' \in [Clients -> Call] /\ lookup'["relayer"].at = "idle"
      /\ \A d \in Clients \ {"relayer"} : lookup'[d] = lookup[d]
  BY <1>1, <1>2 DEF Return
<1>4. \A d \in Clients \ {"relayer"} : CallOK(lookup[d])'
  BY <1>3, OtherCallOK DEF LookupInv
<1>5. CallOK(lookup["relayer"])'
  BY <1>3 DEF CallOK, Asking
<1>6. RelayerCallOK'
  BY <1>3 DEF RelayerCallOK, Asking
<1>7. MarketInv' /\ CachesInv'
  BY DEF LookupInv, MarketInv, CachesInv, CostOf, caches
<1> QED
  BY <1>3, <1>4, <1>5, <1>6, <1>7 DEF LookupInv, CallsInv

\* What the relayer compares with.
MisledPass ==
    /\ Misled
    /\ \E cost \in {lookup["relayer"].cost} : Told(cost)!TryCheckpoint
    /\ UNCHANGED gasCost

\* The answer the relayer compares with is the cost of its attempt, unless it
\* is misled.
LEMMA ToldCost ==
    ASSUME LookupInv, lookup["relayer"].at = "answered", ~Misled
    PROVE  lookup["relayer"].cost = gasCost[ClampTimestamp(timestamp)]
           /\ ClampTimestamp(timestamp) \in Checkpoints
<1> DEFINE call == lookup["relayer"]
<1>1. CallOK(call) /\ RelayerCallOK
  BY DEF LookupInv, CallsInv, Clients
<1>2. /\ call.checkpoint \in Checkpoints /\ call.checkpoint = ClampTimestamp(timestamp)
      /\ call.token = Token /\ call.cost = CostOf(BlockAt(call.checkpoint), call.token)
  BY <1>1 DEF CallOK, RelayerCallOK, Asking, Misled
<1> QED
  BY <1>2 DEF LookupInv, MarketInv

LEMMA CompareStep ==
    ASSUME LookupInv, Compare
    PROVE  LookupInv' /\ (TryCheckpoint \/ MisledPass) /\ early' = early
<1> DEFINE cost == lookup["relayer"].cost
<1>1. Told(cost)!TryCheckpoint /\ UNCHANGED <<gasCost, market, caches, early>>
      /\ Return("relayer") /\ lookup["relayer"].at = "answered"
  BY DEF Compare
<1>2. CASE Misled
  BY <1>1, <1>2, ReturnStep DEF MisledPass
<1>3. CASE ~Misled
  <2>1. cost = gasCost[ClampTimestamp(timestamp)] /\ ClampTimestamp(timestamp) \in Checkpoints
    BY <1>1, <1>3, ToldCost
  <2>2. TryCheckpoint
    BY <1>1, <2>1 DEF TryCheckpoint, Told!TryCheckpoint, Covers, Told!Covers, Told!Never, Never,
       Told!user, user, Told!ClampTimestamp, ClampTimestamp, Told!Checkpoints, Checkpoints
  <2> QED
    BY <1>1, <2>2, ReturnStep
<1> QED
  BY <1>2, <1>3

LEMMA RethrowStep ==
    ASSUME LookupInv, Rethrow
    PROVE  LookupInv' /\ LookupFails /\ early' = early
  BY ReturnStep DEF Rethrow, LookupFails, caches

LEMMA EvictStep ==
    ASSUME LookupInv, Evict
    PROVE  LookupInv' /\ UNCHANGED vars /\ early' = early
<1>1. UNCHANGED <<vars, market, lookup, early>>
  BY DEF Evict
<1>2. CachesInv'
  <2>1. CASE UNCHANGED costCache
             /\ \E t \in Checkpoints : blockCache' = [blockCache EXCEPT ![t] = None]
    <3>1. PICK t \in Checkpoints : blockCache' = [blockCache EXCEPT ![t] = None]
      BY <2>1
    <3>2. early' \subseteq Checkpoints /\ early \subseteq early' /\ BlockIs(t, None, early')
      BY <1>1 DEF LookupInv, CachesInv, BlockIs
    <3> QED
      BY <1>1, <2>1, <3>1, <3>2, BlockCacheStep DEF LookupInv
  <2>2. CASE UNCHANGED blockCache
             /\ \E b \in Blocks, k \in Tokens : costCache' = [costCache EXCEPT ![b][k] = None]
    BY <1>1, <2>2, CostCacheStep DEF LookupInv
  <2> QED
    BY <2>1, <2>2 DEF Evict
<1>3. MarketInv' /\ CallsInv'
  BY <1>1 DEF LookupInv, MarketInv, CallsInv, CallOK, RelayerCallOK, CostOf,
              vars, user, check, Validating
<1> QED
  BY <1>1, <1>2, <1>3 DEF LookupInv

\* A crash forgets the caches and all calls; a validation begins again.
LEMMA CrashStep ==
    ASSUME LookupInv, Crash
    PROVE  LookupInv' /\ (LookupFails \/ UNCHANGED vars) /\ early' = early
<1>1. LookupFails \/ UNCHANGED vars
  BY DEF Crash, Validating
<1>2. UNCHANGED <<gasCost, market, early>> /\ lookup' = [c \in Clients |-> Idle]
      /\ blockCache' = NoBlocks /\ costCache' = NoCosts
  BY <1>1 DEF Crash, LookupFails, vars
<1>3. MarketInv'
  BY <1>2 DEF LookupInv, MarketInv, CostOf
<1>4. CachesInv'
  BY <1>2 DEF LookupInv, CachesInv, NoBlocks, NoCosts, None, BlockIs
<1>5. CallsInv'
  BY <1>2, LookupArithmetic
     DEF CallsInv, Call, CallOK, RelayerCallOK, Idle, Clients, Asking, None
<1> QED
  BY <1>1, <1>2, <1>3, <1>4, <1>5 DEF LookupInv

LEMMA WorldStep ==
    ASSUME LookupInv, World
    PROVE  LookupInv' /\ early' = early
<1>1. UNCHANGED <<gasCost, market, lookup, caches, early>>
  BY DEF World, Tick, Withdraw, NothingPaid
<1>2. MarketInv' /\ CachesInv'
  BY <1>1 DEF LookupInv, MarketInv, CachesInv, CostOf, caches
<1>3. \A d \in Clients : CallOK(lookup[d])'
  BY <1>1, OtherCallOK DEF LookupInv
<1>4. RelayerCallOK'
  <2>1. CASE Tick
    BY <1>1, <2>1 DEF Tick, user, check, Validating, LookupInv, CallsInv, RelayerCallOK
  <2>2. CASE Withdraw \/ NothingPaid
    <3>1. ~Validating
      BY <2>2 DEF Withdraw, NothingPaid, Validating
    <3>2. lookup'["relayer"].at = "idle"
      BY <1>1, <3>1, NoCallYet DEF LookupInv
    <3> QED
      BY <3>2 DEF RelayerCallOK, Asking
  <2> QED
    BY <2>1, <2>2 DEF World
<1> QED
  BY <1>1, <1>2, <1>3, <1>4 DEF LookupInv, CallsInv

\* Every step keeps the invariant, and is a step of the window or none, or the
\* pass of a relayer that is misled.
LEMMA LookupStep ==
    TimeInv /\ EarlyLoopInv /\ LookupInv /\ [LNext]_lvars
        => LookupInv' /\ ([Next]_vars \/ MisledPass) /\ early \subseteq early'
<1> SUFFICES ASSUME TimeInv, EarlyLoopInv, LookupInv, [LNext]_lvars
             PROVE  LookupInv' /\ ([Next]_vars \/ MisledPass) /\ early \subseteq early'
  OBVIOUS
<1>1. CASE UNCHANGED lvars
  <2>1. UNCHANGED <<vars, market, blockCache, costCache, lookup, early>>
    BY <1>1 DEF lvars, caches
  <2>2. LookupInv'
    BY <2>1 DEF LookupInv, MarketInv, CachesInv, CallsInv, CallOK, RelayerCallOK, CostOf,
                vars, user, check, Validating
  <2> QED
    BY <2>1, <2>2
<1>2. CASE AskQuote
  BY <1>2, AskQuoteStep DEF Next
<1>3. CASE AskOther
  BY <1>3, AskOtherStep
<1>4. CASE AskRelayer
  BY <1>4, AskRelayerStep
<1>5. ASSUME NEW c \in Clients, FetchBlock(c)
      PROVE  LookupInv' /\ [Next]_vars /\ early \subseteq early'
  BY <1>5, FetchBlockStep
<1>6. ASSUME NEW c \in Clients,
             FetchText(c) \/ LookUpCost(c) \/ FetchHistory(c) \/ LookupThrows(c)
      PROVE  LookupInv' /\ [Next]_vars /\ early \subseteq early'
  BY <1>6, FetchTextStep, LookupSteps
<1>7. CASE Compare
  BY <1>7, CompareStep DEF Next
<1>8. CASE Rethrow
  BY <1>8, RethrowStep DEF Next
<1>9. CASE Evict
  BY <1>9, EvictStep
<1>10. CASE Crash
  BY <1>10, CrashStep DEF Next
<1>11. CASE World
  BY <1>11, WorldStep DEF World, Next
<1> QED
  BY <1>1, <1>2, <1>3, <1>4, <1>5, <1>6, <1>7, <1>8, <1>9, <1>10, <1>11 DEF LNext

\* Being misled changes what the loop knows of one checkpoint, which was asked
\* for early.
LEMMA MisledStep ==
    ASSUME TimeInv, EarlyLoopInv, LookupInv, MisledPass, early \subseteq early'
    PROVE  TimeInv' /\ EarlyLoopInv' /\ ~UNCHANGED check
<1>1. PICK cost : Told(cost)!TryCheckpoint /\ UNCHANGED gasCost
  BY DEF MisledPass
<1>2. /\ withdrawnAt # Never /\ verdict = "open"
      /\ UNCHANGED <<now, gasCost, quotedAt, amountPaid, withdrawnAt>>
      /\ \/ verdict' = "paid" /\ UNCHANGED <<attempt, timestamp>>
         \/ /\ attempt' = attempt + 1
            /\ timestamp' = timestamp - CheckPointSize
            /\ verdict' = IF attempt' = Attempts THEN "invalid" ELSE "open"
  BY <1>1 DEF Told!TryCheckpoint, Told!user, Told!Never, Never
<1>3. Refused(timestamp) /\ Accepted(timestamp)
  <2>1. lookup["relayer"].at = "answered" /\ lookup["relayer"].checkpoint \in early
    BY DEF MisledPass, Misled
  <2> QED
    BY <2>1 DEF LookupInv, CallsInv, RelayerCallOK, Asking, Refused, Accepted
<1>4. TimeInv'
  BY <1>2 DEF TimeInv
<1>5. EarlyLoopInv'
  BY <1>2, <1>3, PassStep
<1>6. attempt \in Nat
  BY <1>2, Arithmetic DEF EarlyLoopInv
<1> QED
  BY <1>2, <1>4, <1>5, <1>6 DEF check

LEMMA LookupInvariant == LSpec => [](TimeInv /\ EarlyLoopInv /\ LookupInv)
<1>1. LInit => TimeInv /\ EarlyLoopInv /\ LookupInv
  BY InitLoop, InitLookup DEF LInit, Init, EarlyLoopInv
<1>2. TimeInv /\ EarlyLoopInv /\ LookupInv /\ [LNext]_lvars
        => (TimeInv /\ EarlyLoopInv /\ LookupInv)'
  <2> SUFFICES ASSUME TimeInv, EarlyLoopInv, LookupInv, [LNext]_lvars
               PROVE  TimeInv' /\ EarlyLoopInv' /\ LookupInv'
    OBVIOUS
  <2>1. LookupInv' /\ ([Next]_vars \/ MisledPass) /\ early \subseteq early'
    BY LookupStep
  <2>2. CASE [Next]_vars
    BY <2>1, <2>2, TimeStep, EarlyLoopStep
  <2>3. CASE MisledPass
    BY <2>1, <2>3, MisledStep
  <2> QED
    BY <2>1, <2>2, <2>3
<1> QED
  BY <1>1, <1>2, PTL DEF LSpec

-----------------------------------------------------------------------------
\* An answer is the cost of the block and the token that were asked for, unless
\* the checkpoint itself was asked for early, whatever callers, Etherscan,
\* evictions and crashes do to the caches (ExactUnlessEarly).
THEOREM AnswersAreExact == LSpec => []ExactUnlessEarly
<1>1. LookupInv => ExactUnlessEarly
  BY DEF LookupInv, CallsInv, CallOK, Asking, ExactUnlessEarly
<1> QED
  BY <1>1, LookupInvariant, PTL

\* Except where the relayer is misled, the validation with real lookups takes
\* only steps of the one with a fixed cost for every checkpoint
\* (WindowUnlessEarly).
THEOREM LookupImplementsWindow == LSpec => WindowUnlessEarly
<1>1. TimeInv /\ EarlyLoopInv /\ LookupInv /\ [LNext]_lvars
        => [UNCHANGED check \/ ~Misled => [Next]_vars]_lvars
  <2> SUFFICES ASSUME TimeInv, EarlyLoopInv, LookupInv, [LNext]_lvars,
                      UNCHANGED check \/ ~Misled
               PROVE  [Next]_vars
    OBVIOUS
  <2>1. ([Next]_vars \/ MisledPass) /\ early \subseteq early'
    BY LookupStep
  <2>2. ~MisledPass
    BY <2>1, MisledStep DEF MisledPass
  <2> QED
    BY <2>1, <2>2
<1> QED
  BY <1>1, LookupInvariant, PTL DEF LSpec, WindowUnlessEarly

\* So a quote is honoured with real lookups too, unless its own checkpoint was
\* asked for early (HonouredUnlessEarly).
THEOREM QuotesAreHonouredBehindCaches == LSpec => []HonouredUnlessEarly
<1>1. TimeInv /\ EarlyLoopInv => HonouredUnlessEarly
  <2> SUFFICES ASSUME TimeInv, EarlyLoopInv,
                      quotedAt # Never, withdrawnAt # Never,
                      ClampTimestamp(quotedAt) \notin early,
                      Covers(quotedAt),
                      withdrawnAt - quotedAt <= CheckPointSize * (Attempts - 1),
                      verdict = "invalid"
               PROVE  FALSE
    BY DEF HonouredUnlessEarly, QuoteHonoured
  <2>1. quotedAt \in Int /\ withdrawnAt \in Int /\ quotedAt <= withdrawnAt
    BY Arithmetic DEF TimeInv, EarlyLoopInv
  <2>2. PICK i \in 0..(Attempts - 1) :
            ClampTimestamp(withdrawnAt - i * CheckPointSize) = ClampTimestamp(quotedAt)
    BY <2>1, SomeAttemptMeetsQuote
  <2>3. ~Refused(withdrawnAt - i * CheckPointSize)
    BY <2>2 DEF Covers, Refused
  <2>4. attempt # Attempts
    BY <2>3 DEF EarlyLoopInv
  <2>5. amountPaid # 0
    BY QuotesCost
  <2> QED
    BY <2>4, <2>5 DEF EarlyLoopInv
<1> QED
  BY <1>1, LookupInvariant, PTL

\* And what is credited covers the cost of its attempt, unless its checkpoint was
\* asked for early (CreditedUnlessEarly).
THEOREM CreditsAreCovered == LSpec => []CreditedUnlessEarly
<1>1. TimeInv /\ EarlyLoopInv => CreditedUnlessEarly
  <2> SUFFICES ASSUME TimeInv, EarlyLoopInv, verdict = "paid" PROVE CreditedUnlessEarly
    BY DEF CreditedUnlessEarly
  <2>1. /\ attempt \in 0..Attempts /\ attempt < Attempts /\ Accepted(timestamp)
        /\ timestamp = withdrawnAt - attempt * CheckPointSize
    BY DEF TimeInv, EarlyLoopInv
  <2>2. attempt \in 0..(Attempts - 1)
    BY <2>1, Arithmetic
  <2> QED
    BY <2>1, <2>2 DEF CreditedUnlessEarly, Accepted
<1> QED
  BY <1>1, LookupInvariant, PTL

\* Where Etherscan is no later than a checkpoint is long, no lookup of the
\* relayer is early (RelayerNeverEarly).
THEOREM RelayerIsNeverEarly == LSpec => RelayerNeverEarly
<1>1. TimeInv /\ EarlyLoopInv /\ LookupInv /\ [LNext]_lvars
        => [Lag <= CheckPointSize /\ early' # early
              => lookup'["relayer"] = lookup["relayer"]]_lvars
  <2> SUFFICES ASSUME TimeInv, EarlyLoopInv, LookupInv, LNext,
                      Lag <= CheckPointSize, early' # early
               PROVE  lookup'["relayer"] = lookup["relayer"]
    BY DEF lvars
  <2>1. PICK c \in Clients : FetchBlock(c)
    BY AskQuoteStep, AskOtherStep, AskRelayerStep, FetchTextStep, LookupSteps, CompareStep,
       RethrowStep, EvictStep, CrashStep, WorldStep DEF LNext
  <2>2. PICK n \in Times :
           /\ now - Lag <= n
           /\ GotBlock(c, BlockAt(Smaller(lookup[c].checkpoint, n)))
           /\ early' = IF n < lookup[c].checkpoint THEN early \cup {lookup[c].checkpoint}
                                                   ELSE early
    BY <2>1 DEF FetchBlock
  <2>3. n < lookup[c].checkpoint
    BY <2>2
  <2>4. c # "relayer"
    <3> SUFFICES ASSUME c = "relayer" PROVE FALSE
      OBVIOUS
    <3>1. Validating /\ lookup["relayer"].checkpoint = ClampTimestamp(timestamp)
      BY <2>1 DEF FetchBlock, LookupInv, CallsInv, RelayerCallOK, Asking
    <3>2. timestamp \in Int /\ timestamp <= now
      BY <3>1, AttemptTime
    <3>3. /\ ClampTimestamp(timestamp) \in Int
          /\ ClampTimestamp(timestamp) <= timestamp - CheckPointSize
      BY <3>2, ClampBound
    <3>4. now \in Int /\ n \in Int
      BY Arithmetic DEF TimeInv, Times
    <3> QED
      BY <2>2, <2>3, <3>1, <3>2, <3>3, <3>4, Arithmetic, LookupArithmetic
  <2>5. lookup \in [Clients -> Call] /\ "relayer" \in Clients
    BY DEF LookupInv, CallsInv, Clients
  <2> QED
    BY <2>2, <2>4, <2>5 DEF GotBlock
<1> QED
  BY <1>1, LookupInvariant, PTL DEF LSpec, RelayerNeverEarly
=============================================================================
