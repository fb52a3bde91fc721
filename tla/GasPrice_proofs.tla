-------------------------- MODULE GasPrice_proofs --------------------------
(***************************************************************************)
(* What the rounding of the gas price does for every base fee, gwei and    *)
(* percentage, and what it means for a window of them that moves.          *)
(***************************************************************************)
EXTENDS FeeWindow, FiniteSetTheorems, SequenceTheorems, WellFoundedInduction, TLAPS

\* Division with remainder.
LEMMA DivMod ==
    ASSUME NEW x \in Nat, NEW g \in Nat, g > 0
    PROVE  /\ x \div g \in Nat
           /\ x % g \in Nat
           /\ x % g < g
           /\ x = (x \div g) * g + (x % g)
  OBVIOUS

\* Rounding down to a gwei loses less than a gwei.
LEMMA RoundBounds ==
    ASSUME NEW x \in Nat
    PROVE  /\ RoundBigNumber(x) \in Nat
           /\ RoundBigNumber(x) <= x
           /\ x < RoundBigNumber(x) + OneGwei
<1> USE GweiAssumption
<1>1. x \div OneGwei \in Nat /\ x % OneGwei \in Nat /\ x % OneGwei < OneGwei
  BY DivMod
<1>2. x = RoundBigNumber(x) + (x % OneGwei)
  BY DivMod DEF RoundBigNumber
<1>3. RoundBigNumber(x) \in Int
  BY <1>1 DEF RoundBigNumber
<1> DEFINE r == RoundBigNumber(x)
<1>4. r = x - (x % OneGwei)
  BY <1>1, <1>2, <1>3
<1>5. x % OneGwei <= x
  BY <1>1
<1> QED
  BY <1>1, <1>4, <1>5

\* Rounding up to five gwei never goes below.
LEMMA CeilBounds ==
    ASSUME NEW x \in Nat
    PROVE  CeilBigNumber(x) \in Nat /\ x <= CeilBigNumber(x)
<1> USE GweiAssumption
<1>1. FiveGwei \in Nat /\ FiveGwei > 0
  BY DEF FiveGwei
<1>2. x % FiveGwei \in Nat /\ x % FiveGwei < FiveGwei
  BY <1>1, DivMod
<1>3. x % FiveGwei <= x
  BY <1>1
<1> QED
  BY <1>1, <1>2, <1>3 DEF CeilBigNumber

\* The shift, with its rounding down to the unit.
LEMMA ShiftBounds ==
    ASSUME NEW c \in Nat, NEW p \in Nat, p = (c * (100 + FeeShiftPercentage)) \div 100
    PROVE  100 * p >= 120 * c - 99
<1> DEFINE t == c * (100 + FeeShiftPercentage)
<1>1. t \in Nat /\ t >= 120 * c
  BY ShiftAssumption
<1>2. p = t \div 100
  OBVIOUS
<1> HIDE DEF t
<1>3. 100 * (t \div 100) >= t - 99
  BY <1>1
<1> QED
  BY <1>1, <1>2, <1>3

\* The charged price is above every average that rounds down to avg.
THEOREM ChargedAboveAverage ==
    ASSUME NEW avg \in Nat
    PROVE  ChargedPrice(avg) \in Nat /\ ChargedPrice(avg) >= avg + 1
<1> USE GweiAssumption
<1> DEFINE r == RoundBigNumber(avg)
           c == CeilBigNumber(r)
           p == AverageGasPrice(avg)
<1>1. r \in Nat /\ r <= avg /\ avg < r + OneGwei
  BY RoundBounds
<1>2. c \in Nat /\ r <= c
  BY <1>1, CeilBounds
<1>3. p \in Nat /\ p = (c * (100 + FeeShiftPercentage)) \div 100
  <2>1. c * (100 + FeeShiftPercentage) \in Nat
    BY <1>2, ShiftAssumption
  <2>2. p = (c * (100 + FeeShiftPercentage)) \div 100
    BY DEF AverageGasPrice
  <2> HIDE DEF c
  <2> QED
    BY <2>1, <2>2
<1>4. 100 * p >= 120 * c - 99
  BY <1>2, <1>3, ShiftBounds
<1>5. ChargedPrice(avg) = IF p < 10 * OneGwei THEN 10 * OneGwei ELSE p
  BY DEF ChargedPrice
<1> HIDE DEF r, c, p
<1>6. CASE avg < 10 * OneGwei
  BY <1>3, <1>5, <1>6
<1>7. CASE avg >= 10 * OneGwei
  <2>1. c + OneGwei >= avg + 1 /\ c > 9 * OneGwei
    BY <1>1, <1>2, <1>7
  <2>2. p >= c + OneGwei
    BY <1>2, <1>3, <1>4, <2>1
  <2> QED
    BY <1>1, <1>2, <1>3, <1>5, <2>1, <2>2
<1> QED
  BY <1>6, <1>7

\* What n blocks cost in total is covered by n times the price charged for them.
THEOREM PriceCoversWindow ==
    ASSUME NEW total \in Nat, NEW n \in Nat \ {0}
    PROVE  ChargedPrice(total \div n) * n >= total
<1> DEFINE q == total \div n
           price == ChargedPrice(q)
<1>1. q \in Nat /\ total < (q + 1) * n
  <2>1. /\ total \div n \in Nat /\ total % n \in Nat /\ total % n < n
        /\ total = (total \div n) * n + (total % n)
    BY DivMod
  <2> QED
    BY <2>1
<1>2. price \in Nat /\ price >= q + 1
  BY <1>1, ChargedAboveAverage
<1> HIDE DEF q, price
<1>3. price * n >= (q + 1) * n
  BY <1>1, <1>2
<1>4. price * n >= total
  BY <1>1, <1>2, <1>3
<1> QED
  BY <1>4 DEF q, price

-----------------------------------------------------------------------------
\* Quotients and products keep the order.
LEMMA DivMonotone ==
    ASSUME NEW x \in Nat, NEW y \in Nat, NEW g \in Nat, g > 0, x <= y
    PROVE  x \div g <= y \div g
<1>1. /\ x \div g \in Nat /\ y \div g \in Nat
      /\ x % g \in Nat /\ y % g \in Nat /\ x % g < g /\ y % g < g
      /\ x = (x \div g) * g + (x % g) /\ y = (y \div g) * g + (y % g)
  BY DivMod
<1>2. SUFFICES ASSUME x \div g >= (y \div g) + 1 PROVE FALSE
  BY <1>1
<1>3. (x \div g) * g >= ((y \div g) + 1) * g
  BY <1>1, <1>2
<1> QED
  BY <1>1, <1>3

LEMMA TimesMonotone ==
    ASSUME NEW a \in Nat, NEW b \in Nat, NEW g \in Nat, a <= b
    PROVE  a * g <= b * g
  OBVIOUS

LEMMA RoundMonotone ==
    ASSUME NEW x \in Nat, NEW y \in Nat, x <= y
    PROVE  RoundBigNumber(x) <= RoundBigNumber(y)
<1>1. x \div OneGwei \in Nat /\ y \div OneGwei \in Nat
  BY GweiAssumption, DivMod
<1>2. x \div OneGwei <= y \div OneGwei
  BY GweiAssumption, DivMonotone
<1> QED
  BY <1>1, <1>2, GweiAssumption, TimesMonotone DEF RoundBigNumber

LEMMA CeilMonotone ==
    ASSUME NEW x \in Nat, NEW y \in Nat, x <= y
    PROVE  CeilBigNumber(x) <= CeilBigNumber(y)
<1> USE GweiAssumption
<1> DEFINE g == FiveGwei
           a == x \div g
           b == y \div g
           rx == x % g
           ry == y % g
<1>1. g \in Nat /\ g > 0
  BY DEF FiveGwei
<1>2. /\ a \in Nat /\ b \in Nat /\ rx \in Nat /\ ry \in Nat /\ rx < g /\ ry < g
      /\ x = a * g + rx /\ y = b * g + ry
  BY <1>1, DivMod
<1>3. a <= b
  BY <1>1, DivMonotone
<1>4. /\ CeilBigNumber(x) = x - rx + IF rx > 0 THEN g ELSE 0
      /\ CeilBigNumber(y) = y - ry + IF ry > 0 THEN g ELSE 0
  BY DEF CeilBigNumber
<1> HIDE DEF g, a, b, rx, ry
<1>5. CASE a = b
  BY <1>1, <1>2, <1>4, <1>5
<1>6. CASE a < b
  <2>1. (a + 1) * g <= b * g
    BY <1>1, <1>2, <1>6, TimesMonotone
  <2>2. (a + 1) * g = a * g + g /\ a * g \in Nat /\ b * g \in Nat
    BY <1>1, <1>2
  <2> QED
    BY <1>1, <1>2, <1>4, <2>1, <2>2
<1> QED
  BY <1>2, <1>3, <1>5, <1>6

\* A higher average is never charged less.
THEOREM ChargedMonotone ==
    ASSUME NEW x \in Nat, NEW y \in Nat, x <= y
    PROVE  ChargedPrice(x) <= ChargedPrice(y)
<1> USE GweiAssumption
<1> DEFINE cx == CeilBigNumber(RoundBigNumber(x))
           cy == CeilBigNumber(RoundBigNumber(y))
           s == 100 + FeeShiftPercentage
<1>1. cx \in Nat /\ cy \in Nat /\ cx <= cy
  BY RoundBounds, RoundMonotone, CeilBounds, CeilMonotone
<1>2. s \in Nat
  BY ShiftAssumption
<1>3. AverageGasPrice(x) = (cx * s) \div 100 /\ AverageGasPrice(y) = (cy * s) \div 100
  BY DEF AverageGasPrice
<1> HIDE DEF cx, cy, s
<1>4. cx * s \in Nat /\ cy * s \in Nat /\ cx * s <= cy * s
  BY <1>1, <1>2, TimesMonotone
<1>5. (cx * s) \div 100 <= (cy * s) \div 100
  BY <1>4, DivMonotone
<1>6. (cx * s) \div 100 \in Nat /\ (cy * s) \div 100 \in Nat
  BY <1>4, DivMod
<1> QED
  BY <1>3, <1>5, <1>6 DEF ChargedPrice

-----------------------------------------------------------------------------
(***************************************************************************)
(* The sum of a window.  FoldSeq takes the terms away one at a time, by a  *)
(* function defined by recursion over the sets of positions.  That there   *)
(* is such a function, that it is natural and keeps the order, follow from *)
(* the least counterexample by the number of positions.                    *)
(***************************************************************************)
Pick(S) == CHOOSE x \in S : TRUE

Term(s, g, S) == IF S = {} THEN 0 ELSE s[Pick(S)] + g[S \ {Pick(S)}]

\* g sums s over every set of positions of P.
Sums(g, s, P) == g = [S \in P |-> Term(s, g, S)]

Small(D, n) == {S \in SUBSET D : Cardinality(S) <= n}

LEMMA LeastExists ==
    ASSUME NEW A \in SUBSET Nat, A # {}
    PROVE  \E n \in A : \A m \in A : n <= m
<1>1. PICK n \in A : \A m \in A : ~(<<m, n>> \in OpToRel(<, Nat))
  BY NatLessThanWellFounded, WFMin
<1>2. \A m \in A : ~(m < n)
  BY <1>1 DEF OpToRel
<1> QED
  BY <1>2

LEMMA PickSmaller ==
    ASSUME NEW D, IsFiniteSet(D), NEW S \in SUBSET D, S # {}
    PROVE  /\ Pick(S) \in S /\ S \ {Pick(S)} \in SUBSET D
           /\ Cardinality(S) \in Nat /\ Cardinality(S \ {Pick(S)}) \in Nat
           /\ Cardinality(S \ {Pick(S)}) = Cardinality(S) - 1
<1>1. Pick(S) \in S
  BY DEF Pick
<1>2. IsFiniteSet(S) /\ IsFiniteSet(S \ {Pick(S)})
  BY FS_Subset
<1> QED
  BY <1>1, <1>2, FS_RemoveElement, FS_CardinalityType

\* Sums of at most n + 1 terms from sums of at most n.
LEMMA OneMoreTerm ==
    ASSUME NEW D, IsFiniteSet(D), NEW s, NEW n \in Nat, NEW g, Sums(g, s, Small(D, n))
    PROVE  \E k : Sums(k, s, Small(D, n + 1))
<1> DEFINE k == [S \in Small(D, n + 1) |-> Term(s, g, S)]
<1>1. ASSUME NEW S \in Small(D, n + 1), S # {}
      PROVE  S \ {Pick(S)} \in Small(D, n) /\ S \ {Pick(S)} \in Small(D, n + 1)
  <2>1. S \in SUBSET D /\ Cardinality(S) <= n + 1
    BY DEF Small
  <2>2. /\ S \ {Pick(S)} \in SUBSET D /\ Cardinality(S) \in Nat
        /\ Cardinality(S \ {Pick(S)}) = Cardinality(S) - 1
    BY <1>1, <2>1, PickSmaller
  <2>3. Cardinality(S \ {Pick(S)}) <= n /\ Cardinality(S \ {Pick(S)}) <= n + 1
    BY <2>1, <2>2
  <2> QED
    BY <2>2, <2>3 DEF Small
<1>2. ASSUME NEW S \in Small(D, n), S \in Small(D, n + 1) PROVE k[S] = g[S]
  BY <1>2 DEF Sums
<1>3. ASSUME NEW S \in Small(D, n + 1) PROVE Term(s, g, S) = Term(s, k, S)
  <2>1. CASE S = {}
    BY <2>1 DEF Term
  <2>2. CASE S # {}
    <3>1. k[S \ {Pick(S)}] = g[S \ {Pick(S)}]
      BY <1>1, <1>2, <2>2
    <3> HIDE DEF k
    <3> QED
      BY <3>1 DEF Term
  <2> QED
    BY <2>1, <2>2
<1>4. k = [S \in Small(D, n + 1) |-> Term(s, k, S)]
  BY <1>3
<1> QED
  BY <1>4 DEF Sums

LEMMA SumsExist ==
    ASSUME NEW D, IsFiniteSet(D), NEW s
    PROVE  \E g : Sums(g, s, SUBSET D)
<1> DEFINE Bad == {n \in Nat : ~\E g : Sums(g, s, Small(D, n))}
<1>1. \E g : Sums(g, s, Small(D, 0))
  <2> DEFINE g == [S \in Small(D, 0) |-> 0]
  <2>1. ASSUME NEW S \in Small(D, 0) PROVE S = {}
    <3>1. S \in SUBSET D /\ IsFiniteSet(S) /\ Cardinality(S) <= 0
      BY FS_Subset DEF Small
    <3>2. Cardinality(S) = 0
      BY <3>1, FS_CardinalityType
    <3> QED
      BY <3>1, <3>2, FS_EmptySet
  <2>2. \A S \in Small(D, 0) : Term(s, g, S) = 0
    BY <2>1 DEF Term
  <2>3. g = [S \in Small(D, 0) |-> Term(s, g, S)]
    BY <2>2
  <2> QED
    BY <2>3 DEF Sums
<1>2. Bad = {}
  <2> SUFFICES ASSUME Bad # {} PROVE FALSE
    OBVIOUS
  <2>1. PICK n \in Bad : \A m \in Bad : n <= m
    BY LeastExists
  <2>2. n \in Nat /\ n # 0
    BY <1>1, <2>1
  <2>3. n - 1 \in Nat /\ n - 1 \notin Bad
    BY <2>1, <2>2
  <2>4. PICK g : Sums(g, s, Small(D, n - 1))
    BY <2>3
  <2>5. \E k : Sums(k, s, Small(D, (n - 1) + 1))
    BY <2>3, <2>4, OneMoreTerm
  <2>6. (n - 1) + 1 = n
    BY <2>2
  <2> QED
    BY <2>1, <2>5, <2>6
<1>3. Cardinality(D) \in Nat
  BY FS_CardinalityType
<1>4. Small(D, Cardinality(D)) = SUBSET D
  BY FS_Subset DEF Small
<1>5. \E g : Sums(g, s, Small(D, Cardinality(D)))
  BY <1>2, <1>3
<1> QED
  BY <1>4, <1>5, Zenon

\* Sum(s) is the value of one of them at the set of all positions.
LEMMA SumOfAll ==
    ASSUME NEW s, IsFiniteSet(DOMAIN s)
    PROVE  \E g : Sums(g, s, SUBSET DOMAIN s) /\ Sum(s) = g[DOMAIN s]
<1> DEFINE iter == CHOOSE g : Sums(g, s, SUBSET DOMAIN s)
<1>1. Sums(iter, s, SUBSET DOMAIN s)
  BY SumsExist
<1>2. Sum(s) = iter[DOMAIN s]
  BY Zenon DEF Sum, FoldSeq, FoldFunction, FoldFunctionOnSet, MapThenFoldSet, Sums, Term, Pick
<1> QED
  BY <1>1, <1>2

\* Sums of naturals are natural, and those of larger terms are larger.
LEMMA SumsOrder ==
    ASSUME NEW D, IsFiniteSet(D), NEW s \in [D -> Nat], NEW t \in [D -> Nat],
           \A i \in D : s[i] <= t[i],
           NEW g, Sums(g, s, SUBSET D), NEW k, Sums(k, t, SUBSET D)
    PROVE  \A S \in SUBSET D : g[S] \in Nat /\ k[S] \in Nat /\ g[S] <= k[S]
<1> DEFINE Fine(S) == g[S] \in Nat /\ k[S] \in Nat /\ g[S] <= k[S]
           Bad == {Cardinality(S) : S \in {T \in SUBSET D : ~Fine(T)}}
<1>1. \A S \in SUBSET D : g[S] = Term(s, g, S) /\ k[S] = Term(t, k, S)
  BY DEF Sums
<1>2. Bad \in SUBSET Nat
  BY FS_Subset, FS_CardinalityType
<1> SUFFICES ASSUME Bad # {} PROVE FALSE
  OBVIOUS
<1>3. PICK n \in Bad : \A m \in Bad : n <= m
  BY <1>2, LeastExists
<1>4. PICK S \in SUBSET D : ~Fine(S) /\ n = Cardinality(S)
  BY <1>3
<1>5. S # {}
  <2> SUFFICES ASSUME S = {} PROVE FALSE
    OBVIOUS
  <2>1. g[S] = 0 /\ k[S] = 0
    BY <1>1 DEF Term
  <2> QED
    BY <1>4, <2>1
<1>6. /\ Pick(S) \in S /\ S \ {Pick(S)} \in SUBSET D
      /\ Cardinality(S) \in Nat /\ Cardinality(S \ {Pick(S)}) = Cardinality(S) - 1
  BY <1>5, PickSmaller
<1>7. Fine(S \ {Pick(S)})
  <2> SUFFICES ASSUME ~Fine(S \ {Pick(S)}) PROVE FALSE
    OBVIOUS
  <2>1. Cardinality(S \ {Pick(S)}) \in Bad
    BY <1>6
  <2> QED
    BY <1>3, <1>4, <1>6, <2>1
<1>8. /\ g[S] = s[Pick(S)] + g[S \ {Pick(S)}]
      /\ k[S] = t[Pick(S)] + k[S \ {Pick(S)}]
  BY <1>1, <1>5 DEF Term
<1>9. /\ s[Pick(S)] \in Nat /\ t[Pick(S)] \in Nat /\ s[Pick(S)] <= t[Pick(S)]
  BY <1>6
<1> QED
  BY <1>4, <1>7, <1>8, <1>9

THEOREM SumMonotone ==
    ASSUME NEW n \in Nat, NEW s \in [1..n -> Nat], NEW t \in [1..n -> Nat],
           \A i \in 1..n : s[i] <= t[i]
    PROVE  Sum(s) \in Nat /\ Sum(t) \in Nat /\ Sum(s) <= Sum(t)
<1>1. IsFiniteSet(1..n) /\ DOMAIN s = 1..n /\ DOMAIN t = 1..n
  BY FS_Interval
<1>2. PICK g : Sums(g, s, SUBSET (1..n)) /\ Sum(s) = g[1..n]
  BY <1>1, SumOfAll
<1>3. PICK k : Sums(k, t, SUBSET (1..n)) /\ Sum(t) = k[1..n]
  BY <1>1, SumOfAll
<1>4. \A S \in SUBSET (1..n) : g[S] \in Nat /\ k[S] \in Nat /\ g[S] <= k[S]
  BY <1>1, <1>2, <1>3, SumsOrder
<1> QED
  BY <1>2, <1>3, <1>4

\* Pick takes out its own term first; any other can be taken out as well.
TakenOut(g, s, S, x, R) == g[S] = s[x] + g[R]

AnyFirst(g, s, D) == \A S \in SUBSET D : \A x \in S : TakenOut(g, s, S, x, S \ {x})

LEMMA TakeOut ==
    ASSUME NEW D, IsFiniteSet(D), NEW s \in [D -> Nat], NEW g, Sums(g, s, SUBSET D)
    PROVE  AnyFirst(g, s, D)
<1> SUFFICES \A S \in SUBSET D : \A x \in S : g[S] = s[x] + g[S \ {x}]
  BY DEF AnyFirst, TakenOut
<1> DEFINE Fine(S) == \A x \in S : g[S] = s[x] + g[S \ {x}]
           Bad == {Cardinality(S) : S \in {T \in SUBSET D : ~Fine(T)}}
<1>1. \A S \in SUBSET D : g[S] \in Nat /\ g[S] = Term(s, g, S)
  <2>1. \A i \in D : s[i] <= s[i]
    OBVIOUS
  <2>2. \A S \in SUBSET D : g[S] \in Nat
    BY <2>1, SumsOrder
  <2> QED
    BY <2>2 DEF Sums
<1>2. Bad \in SUBSET Nat
  BY FS_Subset, FS_CardinalityType
<1> SUFFICES ASSUME Bad # {} PROVE FALSE
  OBVIOUS
<1>3. PICK n \in Bad : \A m \in Bad : n <= m
  BY <1>2, LeastExists
<1>4. PICK S \in SUBSET D : ~Fine(S) /\ n = Cardinality(S)
  BY <1>3
<1>5. PICK x \in S : g[S] # s[x] + g[S \ {x}]
  BY <1>4
<1>6. /\ Pick(S) \in S /\ S \ {Pick(S)} \in SUBSET D
      /\ Cardinality(S) \in Nat /\ Cardinality(S \ {Pick(S)}) = Cardinality(S) - 1
  BY <1>5, PickSmaller
<1>7. /\ S \ {x} \in SUBSET D /\ Cardinality(S \ {x}) = Cardinality(S) - 1
  BY <1>5, FS_Subset, FS_RemoveElement
<1>8. ASSUME NEW T \in SUBSET D, Cardinality(T) = Cardinality(S) - 1
      PROVE  Fine(T)
  <2> SUFFICES ASSUME ~Fine(T) PROVE FALSE
    OBVIOUS
  <2>1. Cardinality(T) \in Bad
    OBVIOUS
  <2>2. n <= Cardinality(T)
    BY <1>3, <2>1
  <2> HIDE DEF Bad, Fine
  <2> QED
    BY <1>4, <1>6, <1>8, <2>2
<1> DEFINE p == Pick(S)
           rest == S \ {p, x}
<1>9. g[S] = s[p] + g[S \ {p}]
  BY <1>1, <1>5 DEF Term
<1>10. p # x
  BY <1>5, <1>9
<1>11. g[S \ {p}] = s[x] + g[rest]
  <2>1. Fine(S \ {p}) /\ x \in S \ {p}
    BY <1>6, <1>8, <1>10
  <2>2. (S \ {p}) \ {x} = rest
    OBVIOUS
  <2> QED
    BY <2>1, <2>2
<1>12. g[S \ {x}] = s[p] + g[rest]
  <2>1. Fine(S \ {x}) /\ p \in S \ {x}
    BY <1>6, <1>7, <1>8, <1>10
  <2>2. (S \ {x}) \ {p} = rest
    OBVIOUS
  <2> QED
    BY <2>1, <2>2
<1>13. s[p] \in Nat /\ s[x] \in Nat /\ g[rest] \in Nat
  BY <1>1, <1>6
<1> HIDE DEF p, rest
<1> QED
  BY <1>5, <1>9, <1>11, <1>12, <1>13

\* Intervals without one of their ends.
LEMMA WithoutLast ==
    ASSUME NEW a \in Int, NEW b \in Int, a <= b
    PROVE  b \in a..b /\ (a..b) \ {b} = a..(b - 1)
<1>1. \A i \in Int : i \in (a..b) \ {b} <=> i \in a..(b - 1)
  OBVIOUS
<1>2. (a..b) \ {b} \subseteq Int /\ a..(b - 1) \subseteq Int
  OBVIOUS
<1> QED
  BY <1>1, <1>2

LEMMA WithoutFirst ==
    ASSUME NEW a \in Int, NEW b \in Int, a <= b
    PROVE  a \in a..b /\ (a..b) \ {a} = (a + 1)..b
<1>1. \A i \in Int : i \in (a..b) \ {a} <=> i \in (a + 1)..b
  OBVIOUS
<1>2. (a..b) \ {a} \subseteq Int /\ (a + 1)..b \subseteq Int
  OBVIOUS
<1> QED
  BY <1>1, <1>2

LEMMA TermOut ==
    ASSUME NEW g, NEW s, NEW D, AnyFirst(g, s, D),
           NEW S \in SUBSET D, NEW x \in S, NEW R, S \ {x} = R
    PROVE  TakenOut(g, s, S, x, R)
  BY Zenon DEF AnyFirst

\* The sum of a window that moves: the oldest term leaves and a new one enters.
\* What stays has the same sums one position earlier.
THEOREM SumAdvance ==
    ASSUME NEW n \in Nat, n > 0, NEW s \in [1..n -> Nat], NEW t \in [1..n -> Nat],
           \A i \in 1..(n - 1) : t[i] = s[i + 1]
    PROVE  Sum(t) + s[1] = Sum(s) + t[n]
<1>1. IsFiniteSet(1..n) /\ DOMAIN s = 1..n /\ DOMAIN t = 1..n
  BY FS_Interval
<1>2. PICK g : Sums(g, s, SUBSET (1..n)) /\ Sum(s) = g[1..n]
  BY <1>1, SumOfAll
<1>3. PICK k : Sums(k, t, SUBSET (1..n)) /\ Sum(t) = k[1..n]
  BY <1>1, SumOfAll
<1>4. AnyFirst(g, s, 1..n) /\ AnyFirst(k, t, 1..n)
  BY <1>1, <1>2, <1>3, TakeOut, Zenon
<1> DEFINE Bad == {m \in 0..(n - 1) : g[2..(m + 1)] # k[1..m]}
<1>5. Bad = {}
  <2> SUFFICES ASSUME Bad # {} PROVE FALSE
    OBVIOUS
  <2>1. Bad \in SUBSET Nat
    OBVIOUS
  <2>2. PICK m \in Bad : \A i \in Bad : m <= i
    BY <2>1, LeastExists
  <2>3. m # 0
    <3> SUFFICES ASSUME m = 0 PROVE FALSE
      OBVIOUS
    <3>1. 2..(m + 1) = {} /\ 1..m = {}
      OBVIOUS
    <3>2. g[{}] = 0 /\ k[{}] = 0
      BY <1>2, <1>3 DEF Sums, Term
    <3> QED
      BY <2>2, <3>1, <3>2
  <2>4. m \in 1..(n - 1) /\ m - 1 \in 0..(n - 1)
    BY <2>2, <2>3
  <2>5. g[2..m] = k[1..(m - 1)]
    <3>1. m - 1 \notin Bad
      BY <2>2, <2>4
    <3>2. (m - 1) + 1 = m
      BY <2>4
    <3> QED
      BY <2>4, <3>1, <3>2
  <2>6. TakenOut(g, s, 2..(m + 1), m + 1, 2..m)
    <3>1. 2..(m + 1) \in SUBSET (1..n)
      BY <2>4
    <3>2. m + 1 \in 2..(m + 1) /\ (2..(m + 1)) \ {m + 1} = 2..m
      <4>1. /\ 2 \in Int /\ m + 1 \in Int /\ 2 <= m + 1 /\ (m + 1) - 1 = m
        BY <2>4
      <4> QED
        BY <4>1, WithoutLast
    <3> QED
      BY <1>4, <3>1, <3>2, TermOut, Zenon
  <2>7. TakenOut(k, t, 1..m, m, 1..(m - 1))
    <3>1. 1..m \in SUBSET (1..n)
      BY <2>4
    <3>2. m \in 1..m /\ (1..m) \ {m} = 1..(m - 1)
      <4>1. 1 \in Int /\ m \in Int /\ 1 <= m
        BY <2>4
      <4> QED
        BY <4>1, WithoutLast
    <3> QED
      BY <1>4, <3>1, <3>2, TermOut, Zenon
  <2>8. t[m] = s[m + 1]
    BY <2>4
  <2> QED
    BY <2>2, <2>5, <2>6, <2>7, <2>8 DEF TakenOut
<1>6. g[2..n] = k[1..(n - 1)]
  <2>1. n - 1 \in 0..(n - 1) /\ (n - 1) + 1 = n
    OBVIOUS
  <2> QED
    BY <1>5, <2>1
<1>7. TakenOut(g, s, 1..n, 1, 2..n)
  <2>1. 1 \in 1..n /\ (1..n) \ {1} = 2..n /\ 1..n \in SUBSET (1..n)
    BY WithoutFirst
  <2> QED
    BY <1>4, <2>1, TermOut, Zenon
<1>8. TakenOut(k, t, 1..n, n, 1..(n - 1))
  <2>1. n \in 1..n /\ (1..n) \ {n} = 1..(n - 1) /\ 1..n \in SUBSET (1..n)
    BY WithoutLast
  <2> QED
    BY <1>4, <2>1, TermOut, Zenon
<1>9. s[1] \in Nat /\ t[n] \in Nat /\ g[2..n] \in Nat
  <2>1. 2..n \in SUBSET (1..n)
    OBVIOUS
  <2>2. \A i \in 1..n : s[i] <= s[i]
    OBVIOUS
  <2>3. \A S \in SUBSET (1..n) : g[S] \in Nat
    BY <1>1, <1>2, <2>2, SumsOrder
  <2> QED
    BY <2>1, <2>3
<1> QED
  BY <1>2, <1>3, <1>6, <1>7, <1>8, <1>9 DEF TakenOut

-----------------------------------------------------------------------------
(***************************************************************************)
(* The window that moves.                                                  *)
(***************************************************************************)
WindowType == baseFees \in [1..Length -> Fees]

LEMMA WindowStep == WindowType /\ [Next]_baseFees => WindowType'
<1> SUFFICES ASSUME WindowType, NEW fee \in Fees, baseFees' = Append(Tail(baseFees), fee)
             PROVE  WindowType'
  BY DEF WindowType, Next, NewBlock
<1>1. baseFees \in Seq(Fees) /\ Len(baseFees) = Length /\ Length \in Nat \ {0}
  BY WindowAssumption DEF WindowType
<1>2. Tail(baseFees) \in Seq(Fees) /\ Len(Tail(baseFees)) = Length - 1
  BY <1>1
<1>3. baseFees' \in Seq(Fees) /\ Len(baseFees') = Length
  BY <1>1, <1>2
<1>4. baseFees' \in [1..Len(baseFees') -> Fees]
  BY <1>3, LenProperties
<1> QED
  BY <1>3, <1>4 DEF WindowType

\* What the price of a window is made of.
LEMMA WindowTotal ==
    ASSUME NEW fees \in [1..Length -> Fees]
    PROVE  /\ fees \in [1..Length -> Nat] /\ Length \in Nat /\ Length > 0
           /\ Sum(fees) \in Nat /\ Len(fees) = Length
<1>1. fees \in [1..Length -> Nat] /\ Length \in Nat /\ Length > 0
  <2>1. Length \in Nat \ {0} /\ Fees \in SUBSET Nat
    BY WindowAssumption
  <2>2. fees \in [1..Length -> Nat]
    BY <2>1
  <2> QED
    BY <2>1, <2>2
<1>2. \A i \in 1..Length : fees[i] <= fees[i]
  BY <1>1
<1>3. Sum(fees) \in Nat
  BY <1>1, <1>2, SumMonotone
<1>4. Len(fees) = Length
  BY <1>1
<1> QED
  BY <1>1, <1>3, <1>4

\* Users never pay less per gas than the window cost on average
\* (CoversAverage), whatever the gwei, the percentage, the length and the fees.
THEOREM WindowIsCovered == Spec => []CoversAverage
<1>1. Init => WindowType
  BY DEF Init, WindowType
<1>2. WindowType => CoversAverage
  <2> SUFFICES ASSUME WindowType PROVE Price * Length >= Sum(baseFees)
    BY DEF CoversAverage
  <2>1. Length \in Nat \ {0} /\ Sum(baseFees) \in Nat /\ Len(baseFees) = Length
    BY WindowTotal DEF WindowType
  <2> QED
    BY <2>1, PriceCoversWindow DEF Price
<1> QED
  BY <1>1, <1>2, WindowStep, PTL DEF Spec

\* The window moves by one position.
LEMMA WindowShift ==
    ASSUME WindowType, Next
    PROVE  \A i \in 1..(Length - 1) : baseFees'[i] = baseFees[i + 1]
<1>1. PICK fee \in Fees : baseFees' = Append(Tail(baseFees), fee)
  BY DEF Next, NewBlock
<1>2. baseFees \in Seq(Fees) /\ Len(baseFees) = Length /\ Length \in Nat \ {0}
  BY WindowAssumption DEF WindowType
<1>3. /\ Tail(baseFees) \in Seq(Fees) /\ Len(Tail(baseFees)) = Length - 1
      /\ \A i \in 1..(Length - 1) : Tail(baseFees)[i] = baseFees[i + 1]
  BY <1>2
<1> QED
  BY <1>1, <1>2, <1>3

\* A larger total never has a lower price.
LEMMA TotalMonotone ==
    ASSUME NEW x \in Nat, NEW y \in Nat, NEW n \in Nat, n > 0, x <= y
    PROVE  ChargedPrice(x \div n) <= ChargedPrice(y \div n)
<1>1. x \div n \in Nat /\ y \div n \in Nat
  BY DivMod
<1>2. x \div n <= y \div n
  BY DivMonotone
<1> QED
  BY <1>1, <1>2, ChargedMonotone

\* Whatever else is in the window, a block at least as dear as the one it
\* replaces does not lower the price, and one at most as dear does not raise it
\* (FollowsFees).
THEOREM PriceFollowsFees == Spec => FollowsFees
<1>1. Init => WindowType
  BY DEF Init, WindowType
<1>2. WindowType /\ WindowType' /\ [Next]_baseFees
        => [/\ baseFees'[Length] >= baseFees[1] => Price' >= Price
            /\ baseFees'[Length] <= baseFees[1] => Price' <= Price]_baseFees
  <2> SUFFICES ASSUME WindowType, WindowType', Next
               PROVE  /\ baseFees'[Length] >= baseFees[1] => Price' >= Price
                      /\ baseFees'[Length] <= baseFees[1] => Price' <= Price
    OBVIOUS
  <2> DEFINE old == Sum(baseFees)
             new == Sum(baseFees')
             leaves == baseFees[1]
             enters == baseFees'[Length]
  <2>1. /\ baseFees \in [1..Length -> Nat] /\ Length \in Nat /\ Length > 0
        /\ old \in Nat /\ Price = ChargedPrice(old \div Length)
    BY WindowTotal DEF WindowType, Price
  <2>2. /\ baseFees' \in [1..Length -> Nat]
        /\ new \in Nat /\ Price' = ChargedPrice(new \div Length)
    BY WindowTotal DEF WindowType, Price
  <2>3. new + leaves = old + enters
    <3>1. \A i \in 1..(Length - 1) : baseFees'[i] = baseFees[i + 1]
      BY WindowShift
    <3> QED
      BY <2>1, <2>2, <3>1, SumAdvance
  <2>4. leaves \in Nat /\ enters \in Nat
    BY <2>1, <2>2
  <2> HIDE DEF old, new, leaves, enters
  <2>5. ChargedPrice(old \div Length) \in Nat /\ ChargedPrice(new \div Length) \in Nat
    BY <2>1, <2>2, DivMod, ChargedAboveAverage
  <2>6. ASSUME enters >= leaves PROVE Price' >= Price
    <3>1. old <= new
      BY <2>1, <2>2, <2>3, <2>4, <2>6
    <3> QED
      BY <2>1, <2>2, <2>5, <3>1, TotalMonotone
  <2>7. ASSUME enters <= leaves PROVE Price' <= Price
    <3>1. new <= old
      BY <2>1, <2>2, <2>3, <2>4, <2>7
    <3> QED
      BY <2>1, <2>2, <2>5, <3>1, TotalMonotone
  <2> QED
    BY <2>6, <2>7 DEF leaves, enters
<1> QED
  BY <1>1, <1>2, WindowStep, PTL DEF Spec, FollowsFees
=============================================================================
