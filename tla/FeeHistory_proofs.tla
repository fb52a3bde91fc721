-------------------------- MODULE FeeHistory_proofs --------------------------
(***************************************************************************)
(* The fee history is exact for every window, every size of a chunk and    *)
(* any number of concurrent requests.                                      *)
(***************************************************************************)
EXTENDS FeeHistory, SequenceTheorems, TLAPS

-----------------------------------------------------------------------------
(***************************************************************************)
(* Runs of blocks.                                                         *)
(***************************************************************************)
LEMMA BlocksType ==
    ASSUME NEW a \in Int, NEW b \in Int, a <= b + 1
    PROVE  /\ Blocks(a, b) \in Seq(Int)
           /\ Len(Blocks(a, b)) = b - a + 1
           /\ \A k \in 1..(b - a + 1) : Blocks(a, b)[k] = a + k - 1
<1>1. b - a + 1 \in Nat
  OBVIOUS
<1>2. Blocks(a, b) \in [1..(b - a + 1) -> Int]
  BY DEF Blocks
<1>3. Blocks(a, b) \in Seq(Int)
  BY <1>1, <1>2, SeqDef
<1>4. Len(Blocks(a, b)) = b - a + 1
  BY <1>1, <1>2, <1>3, LenProperties
<1> QED
  BY <1>3, <1>4 DEF Blocks

LEMMA NoBlocks == ASSUME NEW a \in Int PROVE Blocks(a, a - 1) = <<>>
<1>1. Blocks(a, a - 1) \in Seq(Int) /\ Len(Blocks(a, a - 1)) = 0
  BY BlocksType
<1>2. <<>> \in Seq(Int) /\ Len(<<>>) = 0
  BY EmptySeq
<1> QED
  BY <1>1, <1>2, SeqEqual

\* Adjacent runs make one.
LEMMA BlocksConcat ==
    ASSUME NEW a \in Int, NEW b \in Int, NEW e \in Int, a <= b + 1, b <= e
    PROVE  Blocks(a, b) \o Blocks(b + 1, e) = Blocks(a, e)
<1> DEFINE s == Blocks(a, b)
           t == Blocks(b + 1, e)
           u == Blocks(a, e)
<1>1. /\ s \in Seq(Int) /\ Len(s) = b - a + 1 /\ \A k \in 1..(b - a + 1) : s[k] = a + k - 1
      /\ t \in Seq(Int) /\ Len(t) = e - b /\ \A k \in 1..(e - b) : t[k] = b + k
      /\ u \in Seq(Int) /\ Len(u) = e - a + 1 /\ \A k \in 1..(e - a + 1) : u[k] = a + k - 1
  <2>1. s \in Seq(Int) /\ Len(s) = b - a + 1 /\ \A k \in 1..(b - a + 1) : s[k] = a + k - 1
    BY BlocksType
  <2>2. t \in Seq(Int) /\ Len(t) = e - b /\ \A k \in 1..(e - b) : t[k] = b + k
    <3>1. b + 1 \in Int /\ b + 1 <= e + 1 /\ e - (b + 1) + 1 = e - b
      OBVIOUS
    <3>2. /\ t \in Seq(Int) /\ Len(t) = e - b
          /\ \A k \in 1..(e - b) : t[k] = (b + 1) + k - 1
      BY <3>1, BlocksType
    <3>3. \A k \in Int : (b + 1) + k - 1 = b + k
      OBVIOUS
    <3> HIDE DEF t
    <3> QED
      BY <3>2, <3>3
  <2>3. u \in Seq(Int) /\ Len(u) = e - a + 1 /\ \A k \in 1..(e - a + 1) : u[k] = a + k - 1
    <3>1. a <= e + 1
      OBVIOUS
    <3> QED
      BY <3>1, BlocksType
  <2> HIDE DEF s, t, u
  <2> QED
    BY <2>1, <2>2, <2>3
<1> HIDE DEF s, t, u
<1>2. /\ s \o t \in Seq(Int) /\ Len(s \o t) = Len(s) + Len(t)
      /\ \A k \in 1..(Len(s) + Len(t)) : (s \o t)[k] = IF k <= Len(s) THEN s[k] ELSE t[k - Len(s)]
  BY <1>1, ConcatProperties
<1>3. Len(s \o t) = Len(u)
  BY <1>1, <1>2
<1>4. \A k \in 1..Len(s \o t) : (s \o t)[k] = u[k]
  <2> SUFFICES ASSUME NEW k \in 1..Len(s \o t) PROVE (s \o t)[k] = u[k]
    OBVIOUS
  <2>1. u[k] = a + k - 1
    BY <1>1, <1>2
  <2>2. CASE k <= Len(s)
    <3>1. k \in 1..(b - a + 1) /\ (s \o t)[k] = s[k]
      BY <1>1, <1>2, <2>2
    <3>2. s[k] = a + k - 1
      BY <1>1, <3>1
    <3> QED
      BY <2>1, <3>1, <3>2
  <2>3. CASE ~(k <= Len(s))
    <3>0. Len(s) = b - a + 1 /\ Len(t) = e - b /\ k \in 1..(Len(s) + Len(t))
      BY <1>1, <1>2
    <3>1. k - Len(s) \in 1..(e - b) /\ (s \o t)[k] = t[k - Len(s)]
      <4>1. (s \o t)[k] = t[k - Len(s)]
        BY <1>2, <2>3, <3>0
      <4>2. k - Len(s) \in 1..(e - b)
        BY <2>3, <3>0
      <4> QED
        BY <4>1, <4>2
    <3>2. t[k - Len(s)] = b + (k - Len(s))
      BY <1>1, <3>1
    <3> QED
      BY <1>1, <2>1, <3>1, <3>2
  <2> QED
    BY <2>2, <2>3
<1>5. s \o t = u
  BY <1>1, <1>2, <1>3, <1>4, SeqEqual
<1> QED
  BY <1>5 DEF s, t, u

\* A slice of a run is the run of its blocks.
LEMMA BlocksSlice ==
    ASSUME NEW a \in Int, NEW b \in Int, NEW x \in Nat, NEW y \in Nat,
           x <= y, y <= b - a + 1
    PROVE  Slice(Blocks(a, b), x, y) = Blocks(a + x, a + y - 1)
<1> DEFINE s == Blocks(a, b)
           t == SubSeq(s, x + 1, y)
           u == Blocks(a + x, a + y - 1)
<1>1. s \in Seq(Int) /\ Len(s) = b - a + 1 /\ \A k \in 1..(b - a + 1) : s[k] = a + k - 1
  <2>1. a <= b + 1
    OBVIOUS
  <2> QED
    BY <2>1, BlocksType
<1>2. Slice(s, x, y) = t
  <2>1. Lesser(y, Len(s)) = y
    BY <1>1 DEF Lesser
  <2> QED
    BY <2>1 DEF Slice
<1>3. u \in Seq(Int) /\ Len(u) = y - x /\ \A k \in 1..(y - x) : u[k] = a + x + k - 1
  <2>1. /\ a + x \in Int /\ a + y - 1 \in Int /\ a + x <= (a + y - 1) + 1
        /\ (a + y - 1) - (a + x) + 1 = y - x
    OBVIOUS
  <2> QED
    BY <2>1, BlocksType
<1>4. /\ t \in Seq(Int) /\ Len(t) = y - x
      /\ \A k \in 1..(y - x) : t[k] = s[x + k]
  <2> HIDE DEF s
  <2>1. x + 1 \in Int /\ y \in Int /\ \A k \in (x + 1)..y : s[k] \in Int
    BY <1>1
  <2>2. /\ t \in Seq(Int)
        /\ Len(t) = IF x + 1 <= y THEN y - (x + 1) + 1 ELSE 0
        /\ \A k \in 1..(y - (x + 1) + 1) : t[k] = s[(x + 1) + k - 1]
    BY <2>1, SubSeqProperties
  <2>3. y - (x + 1) + 1 = y - x /\ \A k \in Int : (x + 1) + k - 1 = x + k
    OBVIOUS
  <2> QED
    BY <2>2, <2>3
<1>5. \A k \in 1..(y - x) : t[k] = u[k]
  <2> SUFFICES ASSUME NEW k \in 1..(y - x) PROVE t[k] = u[k]
    OBVIOUS
  <2>1. x + k \in 1..(b - a + 1)
    OBVIOUS
  <2> QED
    BY <1>1, <1>3, <1>4, <2>1
<1>6. t = u
  <2> HIDE DEF t, u
  <2> QED
    BY <1>3, <1>4, <1>5, SeqEqual
<1> QED
  BY <1>2, <1>6

-----------------------------------------------------------------------------
(***************************************************************************)
(* Chunks of a window.                                                     *)
(***************************************************************************)
LEMMA Sizes ==
    /\ Window \in Nat /\ Limit \in Nat /\ Limit > 0 /\ Limit <= Window
    /\ MaxTries \in Nat /\ MaxTries > 0
    /\ MaxBlock \in Nat /\ Window < MaxBlock
  BY HistoryAssumption

LEMMA ModUnique ==
    ASSUME NEW g \in Nat, g > 0, NEW q \in Int, NEW r \in Int, 0 <= r, r < g
    PROVE  (q * g + r) % g = r
  OBVIOUS

LEMMA DivMod ==
    ASSUME NEW x \in Int, NEW g \in Nat, g > 0
    PROVE  /\ x \div g \in Int /\ x % g \in Int /\ 0 <= x % g /\ x % g < g
           /\ x = (x \div g) * g + (x % g)
  OBVIOUS

LEMMA TimesMonotone ==
    ASSUME NEW g \in Nat, NEW x \in Int, NEW y \in Int, x <= y
    PROVE  x * g \in Int /\ y * g \in Int /\ x * g <= y * g
<1>1. x * g \in Int /\ y * g \in Int /\ (y - x) * g = y * g - x * g
  OBVIOUS
<1>2. y - x \in Nat /\ (y - x) * g \in Nat
  OBVIOUS
<1> QED
  BY <1>1, <1>2

\* The block before the chunk that the window begins in, and how many blocks of
\* the window are in its last chunk.
Base(c) == Old(c) - Mod(c)
Rest(c) == Window + Mod(c) - (Chunks(c) - 1) * Limit

\* A window that ends at a natural block.
Ends(c) == last[c] \in Nat /\ Window <= last[c]

LEMMA OldFacts ==
    ASSUME NEW c, Ends(c)
    PROVE  /\ last[c] \in Int /\ Old(c) \in Nat /\ last[c] = Old(c) + Window
           /\ Mod(c) \in Nat /\ Mod(c) < Limit
           /\ Base(c) \in Nat /\ Base(c) % Limit = 0
           /\ \E q \in Int : Base(c) = q * Limit
<1> DEFINE L == Limit
           q == Old(c) \div L
           m == Old(c) % L
<1>1. L \in Nat /\ L > 0
  BY Sizes
<1>2. last[c] \in Int /\ Old(c) \in Nat /\ last[c] = Old(c) + Window
  BY Sizes DEF Ends, Old
<1>3. q \in Int /\ m \in Int /\ 0 <= m /\ m < L /\ Old(c) = q * L + m
  <2> HIDE DEF L
  <2> QED
    BY <1>1, <1>2, DivMod
<1>4. Mod(c) = m /\ Base(c) = q * L
  <2> HIDE DEF q
  <2>1. q * L \in Int
    BY <1>1, <1>3
  <2> QED
    BY <1>2, <1>3, <2>1 DEF Mod, Base
<1> HIDE DEF q, m, L
<1>5. q * L \in Int /\ q >= 0
  <2>1. q * L \in Int
    BY <1>1, <1>3
  <2>2. CASE q <= -1
    <3>1. q * L <= -1 * L /\ -1 * L = -L
      BY <1>1, <1>3, <2>2, TimesMonotone
    <3> QED
      BY <1>1, <1>2, <1>3, <2>1, <3>1
  <2> QED
    BY <1>3, <2>1, <2>2
<1>6. q * L \in Nat
  BY <1>1, <1>3, <1>5
<1>7. (q * L + 0) % L = 0
  BY <1>1, <1>3, ModUnique
<1>8. Base(c) \in Nat /\ Base(c) % L = 0 /\ Base(c) = q * L
  BY <1>4, <1>6, <1>7
<1> QED
  BY <1>1, <1>2, <1>3, <1>4, <1>8 DEF L

\* The chunks cover the window and the last of them is not empty.
LEMMA ChunkFacts ==
    ASSUME NEW c, Ends(c)
    PROVE  /\ Chunks(c) \in Nat /\ Chunks(c) > 0
           /\ Mod(c) > 0 => Chunks(c) > 1
           /\ (Chunks(c) - 1) * Limit \in Nat
           /\ Chunks(c) * Limit = (Chunks(c) - 1) * Limit + Limit
           /\ Rest(c) \in 1..Limit
           /\ last[c] = Base(c) + (Chunks(c) - 1) * Limit + Rest(c)
<1> DEFINE L == Limit
           x == Window + Mod(c) + L - 1
           n == x \div L
           r == x % L
<1>1. L \in Nat /\ L > 0 /\ L <= Window /\ Window \in Nat
  BY Sizes
<1>2. Mod(c) \in Nat /\ Mod(c) < L /\ x \in Int
  BY <1>1, OldFacts
<1>3. n \in Int /\ r \in Int /\ 0 <= r /\ r < L /\ x = n * L + r
  <2> HIDE DEF L, x
  <2> QED
    BY <1>1, <1>2, DivMod
<1>4. Chunks(c) = n
  BY DEF Chunks
<1>5. Rest(c) = Window + Mod(c) - (n - 1) * L
  BY <1>4 DEF Rest
<1> HIDE DEF n, r, L
<1>6. n * L \in Int /\ (n - 1) * L \in Int /\ n * L = (n - 1) * L + L
  BY <1>1, <1>3
<1>7. n * L = Window + Mod(c) + L - 1 - r
  BY <1>1, <1>2, <1>3, <1>6
<1>8. n > 0
  <2> SUFFICES ASSUME n <= 0 PROVE FALSE
    BY <1>3
  <2>1. n * L <= 0 * L /\ 0 * L = 0
    BY <1>1, <1>3, TimesMonotone
  <2> QED
    BY <1>1, <1>2, <1>3, <1>6, <1>7, <2>1
<1>9. Mod(c) > 0 => n > 1
  <2> SUFFICES ASSUME Mod(c) > 0, n <= 1 PROVE FALSE
    BY <1>3
  <2>1. n * L <= 1 * L /\ 1 * L = L
    BY <1>1, <1>3, TimesMonotone
  <2> QED
    BY <1>1, <1>2, <1>3, <1>6, <1>7, <2>1
<1>10. (n - 1) * L \in Nat
  <2>1. 0 * L <= (n - 1) * L /\ 0 * L = 0
    BY <1>1, <1>3, <1>8, TimesMonotone
  <2> QED
    BY <1>6, <2>1
<1>11. Rest(c) \in 1..L
  BY <1>1, <1>2, <1>3, <1>5, <1>6, <1>7
<1>12. last[c] = Base(c) + (n - 1) * L + Rest(c)
  BY <1>1, <1>2, <1>5, <1>6, OldFacts DEF Base
<1>13. n \in Nat
  BY <1>3, <1>8
<1> QED
  BY <1>4, <1>6, <1>8, <1>9, <1>10, <1>11, <1>12, <1>13 DEF L

\* Where the last block stands in its chunk, by either of the two formulas.
LEMMA RestFacts ==
    ASSUME NEW c, Ends(c)
    PROVE  /\ last[c] % Limit = IF Rest(c) = Limit THEN 0 ELSE Rest(c)
           /\ Mod(c) = 0 => Window % Limit = IF Rest(c) = Limit THEN 0 ELSE Rest(c)
<1> DEFINE L == Limit
           n == Chunks(c)
           rest == Rest(c)
<1>1. L \in Nat /\ L > 0 /\ Window \in Nat
  BY Sizes
<1>2. n \in Nat /\ rest \in 1..L /\ last[c] = Base(c) + (n - 1) * L + rest
      /\ (n - 1) * L \in Nat
  BY ChunkFacts
<1>3. PICK q \in Int : Base(c) = q * L
  BY OldFacts
<1>4. Rest(c) = Window + Mod(c) - (n - 1) * L
  BY DEF Rest
<1> HIDE DEF L, n, rest
<1>5. q * L \in Int /\ (q + n - 1) * L = q * L + (n - 1) * L
      /\ (q + n) * L = q * L + (n - 1) * L + L /\ n * L = (n - 1) * L + L
  BY <1>1, <1>2, <1>3
<1>6. CASE rest = L
  <2>1. last[c] = (q + n) * L + 0
    BY <1>1, <1>2, <1>3, <1>5, <1>6
  <2>2. last[c] % L = 0
    <3>1. q + n \in Int
      BY <1>2, <1>3
    <3>2. \A x \in Int : (x * L + 0) % L = 0
      BY <1>1, ModUnique
    <3> QED
      BY <2>1, <3>1, <3>2
  <2>3. Mod(c) = 0 => Window % L = 0
    <3> SUFFICES ASSUME Mod(c) = 0 PROVE Window % L = 0
      OBVIOUS
    <3>1. Window = n * L + 0
      BY <1>1, <1>2, <1>4, <1>5, <1>6 DEF rest
    <3>2. n \in Int
      BY <1>2
    <3> QED
      BY <1>1, <3>1, <3>2, ModUnique
  <2> QED
    BY <1>6, <2>2, <2>3 DEF L, rest
<1>7. CASE rest # L
  <2>1. rest \in Int /\ 0 <= rest /\ rest < L
    BY <1>1, <1>2, <1>7
  <2>2. last[c] = (q + n - 1) * L + rest
    BY <1>1, <1>2, <1>3, <1>5
  <2>3. last[c] % L = rest
    <3>1. q + n - 1 \in Int
      BY <1>2, <1>3
    <3>2. \A x \in Int : (x * L + rest) % L = rest
      BY <1>1, <2>1, ModUnique
    <3> QED
      BY <2>2, <3>1, <3>2
  <2>4. Mod(c) = 0 => Window % L = rest
    <3> SUFFICES ASSUME Mod(c) = 0 PROVE Window % L = rest
      OBVIOUS
    <3>1. Window = (n - 1) * L + rest
      BY <1>1, <1>2, <1>4 DEF rest
    <3>2. n - 1 \in Int
      BY <1>2
    <3> QED
      BY <1>1, <2>1, <3>1, <3>2, ModUnique
  <2> QED
    BY <1>7, <2>3, <2>4 DEF L, rest
<1> QED
  BY <1>6, <1>7

-----------------------------------------------------------------------------
(***************************************************************************)
(* What a chunk contributes.                                               *)
(***************************************************************************)
\* The last block that the first k chunks have brought.
Upto(c, k) == IF k = 0 THEN Old(c) ELSE Base(c) + k * Limit

\* The window begins inside a chunk and ends with one: the last slice is empty.
EndsChunk(c) == Mod(c) > 0 /\ Rest(c) = Limit

LEMMA FromBlockFacts ==
    ASSUME NEW c, Ends(c), i[c] \in 0..(Chunks(c) - 1)
    PROVE  /\ i[c] * Limit \in Nat
           /\ (i[c] + 1) * Limit = i[c] * Limit + Limit
           /\ FromBlock(c) = Base(c) + i[c] * Limit + Limit
           /\ FromBlock(c) \in Nat /\ FromBlock(c) >= Limit /\ FromBlock(c) % Limit = 0
           /\ i[c] < Chunks(c) - 1 => FromBlock(c) < last[c]
           /\ FromBlock(c) <= last[c] + Limit
           /\ FromBlock(c) > last[c] => i[c] = Chunks(c) - 1 /\ Rest(c) < Limit
<1> DEFINE L == Limit
           k == i[c]
           n == Chunks(c)
           rest == Rest(c)
<1>1. L \in Nat /\ L > 0
  BY Sizes
<1>2. /\ n \in Nat /\ n > 0 /\ rest \in 1..L /\ last[c] = Base(c) + (n - 1) * L + rest
      /\ (n - 1) * L \in Nat
  BY ChunkFacts
<1>3. PICK q \in Int : Base(c) = q * L
  BY OldFacts
<1>4. Base(c) \in Nat
  BY OldFacts
<1>5. k \in Nat /\ k <= n - 1
  BY <1>2
<1>6. FromBlock(c) = Base(c) + L + k * L
  BY DEF FromBlock, Base
<1> HIDE DEF L, n, k, rest
<1>7. k * L \in Nat /\ (k + 1) * L = k * L + L /\ (q + k + 1) * L = q * L + k * L + L
  BY <1>1, <1>3, <1>5
<1>8. k * L <= (n - 1) * L
  BY <1>1, <1>2, <1>5, TimesMonotone
<1>9. ASSUME k < n - 1 PROVE k * L + L <= (n - 1) * L
  BY <1>1, <1>2, <1>5, <1>7, <1>9, TimesMonotone
<1>10. FromBlock(c) = Base(c) + k * L + L /\ FromBlock(c) \in Nat /\ FromBlock(c) >= L
  BY <1>1, <1>4, <1>6, <1>7
<1>11. FromBlock(c) % L = 0
  <2>1. FromBlock(c) = (q + k + 1) * L + 0
    BY <1>1, <1>3, <1>4, <1>7, <1>10
  <2>2. q + k + 1 \in Int
    BY <1>3, <1>5
  <2>3. ((q + k + 1) * L + 0) % L = 0
    BY <1>1, <2>2, ModUnique
  <2> QED
    BY <2>1, <2>3
<1>12. k < n - 1 => FromBlock(c) < last[c]
  BY <1>1, <1>2, <1>4, <1>7, <1>9, <1>10
<1>13. FromBlock(c) <= last[c] + L
  BY <1>1, <1>2, <1>4, <1>7, <1>8, <1>10
<1>14. FromBlock(c) > last[c] => k = n - 1 /\ rest < L
  <2> SUFFICES ASSUME FromBlock(c) > last[c] PROVE k = n - 1 /\ rest < L
    OBVIOUS
  <2>1. last[c] \in Int
    BY OldFacts
  <2>2. k = n - 1
    BY <1>2, <1>5, <1>10, <1>12, <2>1
  <2> QED
    BY <1>1, <1>2, <1>4, <1>7, <1>10, <2>2
<1> QED
  BY <1>7, <1>10, <1>11, <1>12, <1>13, <1>14 DEF L, k, n, rest

\* A full chunk, cached or fetched, and the rest of an unfinished one are the
\* blocks after FromBlock - Limit, as many as are needed of them.
Chunk(c, e) == Blocks(FromBlock(c) - Limit + 1, e)

LEMMA PartOfChunk ==
    ASSUME NEW c, Ends(c), i[c] \in 0..(Chunks(c) - 1), NEW e \in Int,
           \/ e = FromBlock(c) + 1
           \/ i[c] = Chunks(c) - 1 /\ Rest(c) < Limit /\ e = last[c] + 1
    PROVE  PartOf(c, Chunk(c, e)) =
             IF i[c] < Chunks(c) - 1 THEN Blocks(Upto(c, i[c]) + 1, Upto(c, i[c] + 1))
             ELSE IF EndsChunk(c) THEN <<>>
             ELSE Blocks(Upto(c, i[c]) + 1, last[c])
<1> DEFINE L == Limit
           k == i[c]
           n == Chunks(c)
           m == Mod(c)
           rest == Rest(c)
           b == FromBlock(c) - L
           s == Chunk(c, e)
<1>1. /\ L \in Nat /\ L > 0 /\ m \in Nat /\ m < L
      /\ n \in Nat /\ n > 0 /\ (m > 0 => n > 1) /\ k \in Nat /\ k <= n - 1 /\ rest \in 1..L
  BY Sizes, OldFacts, ChunkFacts
<1>2. /\ b = Base(c) + k * L /\ b \in Nat /\ k * L \in Nat /\ (k + 1) * L = k * L + L
      /\ k = 0 => k * L = 0
  BY Sizes, FromBlockFacts, OldFacts
<1>3. last[c] = Base(c) + (n - 1) * L + rest /\ Old(c) = Base(c) + m
      /\ Base(c) \in Nat
  BY ChunkFacts, OldFacts DEF Base
<1>4. s = Blocks(b + 1, e)
  BY DEF Chunk
<1>5. k = n - 1 => last[c] = b + rest
  BY <1>2, <1>3
<1>6. /\ last[c] % L = IF rest = L THEN 0 ELSE rest
      /\ m = 0 => Window % L = IF rest = L THEN 0 ELSE rest
  BY RestFacts
<1>7. /\ k # 0 => Upto(c, k) = b
      /\ k = 0 => Upto(c, k) = b + m
      /\ Upto(c, k + 1) = b + L
  BY <1>1, <1>2, <1>3 DEF Upto
<1>8. e = b + L + 1 \/ (k = n - 1 /\ rest < L /\ e = b + rest + 1)
  <2>1. FromBlock(c) = b + L
    BY <1>1, FromBlockFacts
  <2> QED
    BY <1>5, <2>1
<1> HIDE DEF L, k, n, m, rest, b
\* The slices from zero.
<1>9. \A y \in 0..L : e >= b + y => Slice(s, 0, y) = Blocks(b + 1, b + y)
  <2> SUFFICES ASSUME NEW y \in 0..L, e >= b + y
               PROVE  Slice(Blocks(b + 1, e), 0, y) = Blocks(b + 1, b + y)
    BY <1>4
  <2>1. /\ b + 1 \in Int /\ y \in Nat /\ 0 <= y /\ y <= e - (b + 1) + 1
        /\ (b + 1) + 0 = b + 1 /\ (b + 1) + y - 1 = b + y
    BY <1>1, <1>2
  <2>2. Slice(Blocks(b + 1, e), 0, y) = Blocks((b + 1) + 0, (b + 1) + y - 1)
    BY <2>1, BlocksSlice
  <2> QED
    BY <2>1, <2>2
<1>10. CASE k < n - 1
  <2>1. e = b + L + 1
    BY <1>1, <1>8, <1>10
  <2>2. CASE k = 0 /\ m > 0
    <3>1. /\ b + 1 \in Int /\ m \in Nat /\ L \in Nat /\ m <= L /\ L <= e - (b + 1) + 1
          /\ (b + 1) + m = b + m + 1 /\ (b + 1) + L - 1 = b + L
      BY <1>1, <1>2, <2>1
    <3>2. Slice(Blocks(b + 1, e), m, L) = Blocks((b + 1) + m, (b + 1) + L - 1)
      BY <3>1, BlocksSlice
    <3>3. PartOf(c, s) = Slice(s, m, L)
      BY <2>2 DEF PartOf, L, k, m
    <3> QED
      BY <1>4, <1>7, <1>10, <2>2, <3>1, <3>2, <3>3 DEF k, n
  <2>3. CASE ~(k = 0 /\ m > 0)
    <3>1. PartOf(c, s) = Slice(s, 0, L)
      BY <1>1, <1>10, <2>3 DEF PartOf, L, k, n, m
    <3>2. Slice(s, 0, L) = Blocks(b + 1, b + L)
      BY <1>1, <1>2, <1>9, <2>1
    <3>3. Upto(c, k) = b
      BY <1>1, <1>2, <1>7, <2>3
    <3> QED
      BY <1>7, <1>10, <3>1, <3>2, <3>3 DEF k, n
  <2> QED
    BY <2>2, <2>3
<1>11. CASE ~(k < n - 1) /\ m > 0
  <2>1. k = n - 1 /\ k # 0 /\ k > 0
    BY <1>1, <1>11
  <2>2. PartOf(c, s) = Slice(s, 0, last[c] % L)
    BY <1>11, <2>1 DEF PartOf, L, k, n, m
  <2>3. Upto(c, k) = b /\ last[c] = b + rest
    BY <1>5, <1>7, <2>1
  <2>4. CASE rest = L
    <3>1. PartOf(c, s) = Slice(s, 0, 0) /\ e >= b + 0
      BY <1>1, <1>2, <1>6, <1>8, <2>2, <2>4
    <3>2. Slice(s, 0, 0) = Blocks(b + 1, b + 0)
      BY <1>1, <1>9, <3>1
    <3>3. b + 1 \in Int /\ (b + 1) - 1 = b + 0
      BY <1>2
    <3>4. Blocks(b + 1, b + 0) = <<>>
      BY <3>3, NoBlocks
    <3> QED
      BY <1>11, <2>4, <3>1, <3>2, <3>4 DEF EndsChunk, k, n, m, rest, L
  <2>5. CASE rest # L
    <3>1. PartOf(c, s) = Slice(s, 0, rest) /\ rest \in 0..L /\ e >= b + rest
      BY <1>1, <1>2, <1>6, <1>8, <2>2, <2>5
    <3>2. Slice(s, 0, rest) = Blocks(b + 1, b + rest)
      BY <1>9, <3>1
    <3> QED
      BY <1>11, <2>3, <2>5, <3>1, <3>2 DEF EndsChunk, k, n, m, rest, L
  <2> QED
    BY <2>4, <2>5
<1>12. CASE ~(k < n - 1) /\ ~(m > 0)
  <2>1. k = n - 1 /\ m = 0
    BY <1>1, <1>12
  <2>2. Upto(c, k) = b /\ last[c] = b + rest
    BY <1>2, <1>5, <1>7, <2>1
  <2>3. PartOf(c, s) = Slice(s, 0, rest) /\ rest \in 0..L /\ e >= b + rest
    <3>1. rest \in 0..L /\ e >= b + rest
      BY <1>1, <1>2, <1>8
    <3>2. CASE rest = L
      <4>1. Window % L = 0
        BY <1>6, <2>1, <3>2
      <4> QED
        BY <2>1, <3>1, <3>2, <4>1 DEF PartOf, L, k, n, m
    <3>3. CASE rest # L
      <4>1. Window % L = rest /\ rest # 0
        BY <1>1, <1>6, <2>1, <3>3
      <4> QED
        BY <2>1, <3>1, <4>1 DEF PartOf, L, k, n, m
    <3> QED
      BY <3>2, <3>3
  <2>4. Slice(s, 0, rest) = Blocks(b + 1, b + rest)
    BY <1>9, <2>3
  <2> QED
    BY <1>12, <2>2, <2>3, <2>4 DEF EndsChunk, k, n, m, rest, L
<1> QED
  BY <1>10, <1>11, <1>12

-----------------------------------------------------------------------------
(***************************************************************************)
(* The invariant.                                                          *)
(***************************************************************************)
\* Types; and the cache holds nothing, or the chunk its key stands for.
StateInv ==
    /\ head \in Nat /\ head <= MaxBlock
    /\ cache \in [Keys -> Seq(Int)]
    /\ \A n \in Keys : cache[n] \in {<<>>, FeeHistoryOf(n, Limit)}
    /\ pc \in [Clients -> {"idle", "head", "look", "fetch", "done", "failed"}]
    /\ last \in [Clients -> Nat] /\ current \in [Clients -> Nat] /\ i \in [Clients -> Nat]
    /\ baseFees \in [Clients -> Seq(Int)] /\ tries \in [Clients -> Nat]
    /\ \A c \in Clients : Window <= last[c] /\ last[c] <= head

\* The chunks so far have brought the blocks of the window up to their end.
Collected(c) ==
    /\ i[c] \in 0..Chunks(c)
    /\ i[c] < Chunks(c) => baseFees[c] = Blocks(Old(c) + 1, Upto(c, i[c]))
    /\ i[c] = Chunks(c) =>
         baseFees[c] = Blocks(Old(c) + 1, IF EndsChunk(c) THEN last[c] - Limit ELSE last[c])

RequestInv(c) ==
    /\ pc[c] \in {"look", "fetch"} => last[c] <= current[c] /\ Collected(c)
    /\ pc[c] = "fetch" => i[c] < Chunks(c)
    /\ pc[c] = "done" => baseFees[c] = Blocks(Old(c) + 1, last[c])

HistoryInv == StateInv /\ \A c \in Clients : RequestInv(c)

LEMMA InitHistory == Init => HistoryInv
<1> SUFFICES ASSUME Init PROVE HistoryInv
  OBVIOUS
<1>1. <<>> \in Seq(Int)
  OBVIOUS
<1>2. StateInv
  BY <1>1, Sizes DEF Init, StateInv
<1>3. \A c \in Clients : RequestInv(c)
  BY DEF Init, RequestInv
<1> QED
  BY <1>2, <1>3 DEF HistoryInv

\* What a request has depends on nothing but its own variables.
LEMMA SameRequest ==
    ASSUME NEW d, RequestInv(d), pc'[d] = pc[d], last'[d] = last[d],
           current'[d] = current[d], i'[d] = i[d], baseFees'[d] = baseFees[d]
    PROVE  RequestInv(d)'
  BY DEF RequestInv, Collected, EndsChunk, Upto, Base, Rest, Old, Mod, Chunks

\* And on nothing but its last block while it collects nothing.
LEMMA RestsRequest ==
    ASSUME NEW d, pc'[d] \in {"idle", "head", "failed"}
    PROVE  RequestInv(d)'
  BY DEF RequestInv

LEMMA EndsFact == ASSUME StateInv, NEW c \in Clients PROVE Ends(c)
  BY DEF StateInv, Ends

\* One more chunk.
LEMMA TakeCollects ==
    ASSUME StateInv, NEW c \in Clients, Collected(c), i[c] < Chunks(c), NEW e \in Int,
           \/ e = FromBlock(c) + 1
           \/ i[c] = Chunks(c) - 1 /\ Rest(c) < Limit /\ e = last[c] + 1,
           Take(c, Chunk(c, e)), UNCHANGED last
    PROVE  /\ Collected(c)'
           /\ i' \in [Clients -> Nat] /\ baseFees' \in [Clients -> Seq(Int)]
           /\ \A d \in Clients \ {c} : i'[d] = i[d] /\ baseFees'[d] = baseFees[d]
<1> DEFINE L == Limit
           k == i[c]
           n == Chunks(c)
           old == Old(c)
           part == PartOf(c, Chunk(c, e))
<1>1. Ends(c)
  BY EndsFact
<1>2. /\ L \in Nat /\ L > 0 /\ n \in Nat /\ n > 0 /\ k \in Nat /\ k < n
      /\ k + 1 = n <=> k = n - 1
  <2>1. n \in Nat /\ n > 0 /\ k \in Nat /\ k < n
    BY <1>1, ChunkFacts DEF Collected
  <2> QED
    BY <2>1, Sizes
<1>21. /\ old \in Nat /\ Base(c) \in Nat /\ Mod(c) \in Nat /\ Mod(c) < L
       /\ old = Base(c) + Mod(c) /\ last[c] \in Int /\ last[c] = old + Window
       /\ Window \in Nat
  BY <1>1, Sizes, OldFacts DEF Base
<1>22. /\ last[c] = Base(c) + (n - 1) * L + Rest(c) /\ (n - 1) * L \in Nat
       /\ Rest(c) \in Nat /\ 0 < Rest(c) /\ Rest(c) <= L /\ (Mod(c) > 0 => n > 1)
  BY <1>1, Sizes, ChunkFacts
<1>3. part = IF k < n - 1 THEN Blocks(Upto(c, k) + 1, Upto(c, k + 1))
             ELSE IF EndsChunk(c) THEN <<>>
             ELSE Blocks(Upto(c, k) + 1, last[c])
  <2>1. k \in 0..(n - 1)
    BY <1>2
  <2> QED
    BY <1>1, <2>1, PartOfChunk
<1>4. baseFees[c] = Blocks(old + 1, Upto(c, k)) /\ baseFees[c] \in Seq(Int)
  BY DEF Collected, StateInv
<1>8. /\ baseFees' = [baseFees EXCEPT ![c] = baseFees[c] \o part]
      /\ i' = [i EXCEPT ![c] = k + 1]
  BY DEF Take
<1>81. Chunks(c)' = n /\ Old(c)' = old
  BY DEF Chunks, Old, Mod
<1> HIDE DEF L, k, n, old, part
<1>5. /\ Upto(c, k) \in Nat /\ old <= Upto(c, k)
      /\ Upto(c, k + 1) = Base(c) + k * L + L /\ k * L \in Nat
      /\ Upto(c, k) <= Upto(c, k + 1)
      /\ k > 0 => Upto(c, k) = Base(c) + k * L
  <2>1. k * L \in Nat /\ (k + 1) * L = k * L + L /\ (k > 0 => k * L >= L) /\ 0 * L = 0
    <3>1. k \in Nat
      BY <1>2
    <3>2. k > 0 => 1 * L <= k * L /\ 1 * L = L
      BY <1>2, <3>1, TimesMonotone
    <3> QED
      BY <1>2, <3>1, <3>2
  <2>2. Upto(c, k) = IF k = 0 THEN old ELSE Base(c) + k * L
    BY DEF Upto, old, L
  <2>3. Upto(c, k + 1) = Base(c) + k * L + L
    BY <1>2, <1>21, <2>1 DEF Upto, L
  <2>5. CASE k = 0
    BY <1>2, <1>21, <2>1, <2>2, <2>3, <2>5
  <2>6. CASE k > 0
    BY <1>2, <1>21, <2>1, <2>2, <2>3, <2>6
  <2> QED
    BY <1>2, <2>5, <2>6
<1>6. k = n - 1 => Upto(c, k) <= last[c]
  <2> SUFFICES ASSUME k = n - 1 PROVE Upto(c, k) <= last[c]
    OBVIOUS
  <2>1. CASE k = 0
    <3>1. Upto(c, k) = old
      BY <2>1 DEF Upto, old
    <3> QED
      BY <1>21, <3>1
  <2>2. CASE k > 0
    <3>1. Upto(c, k) = Base(c) + (n - 1) * L
      BY <1>5, <2>2
    <3> QED
      BY <1>21, <1>22, <3>1
  <2> QED
    BY <1>2, <2>1, <2>2
<1> DEFINE all == baseFees[c] \o part
           end == IF EndsChunk(c) THEN last[c] - L ELSE last[c]
<1>7. /\ all \in Seq(Int)
      /\ k < n - 1 => all = Blocks(old + 1, Upto(c, k + 1))
      /\ k = n - 1 => all = Blocks(old + 1, end)
  <2>1. ASSUME k < n - 1
        PROVE  all \in Seq(Int) /\ all = Blocks(old + 1, Upto(c, k + 1))
    <3>1. part = Blocks(Upto(c, k) + 1, Upto(c, k + 1))
      BY <1>3, <2>1
    <3>2. /\ old + 1 \in Int /\ Upto(c, k) \in Int /\ Upto(c, k + 1) \in Int
          /\ old + 1 <= Upto(c, k) + 1 /\ Upto(c, k) <= Upto(c, k + 1)
          /\ old + 1 <= Upto(c, k + 1) + 1
      BY <1>2, <1>21, <1>5
    <3>3. Blocks(old + 1, Upto(c, k)) \o Blocks(Upto(c, k) + 1, Upto(c, k + 1))
            = Blocks(old + 1, Upto(c, k + 1))
      BY <3>2, BlocksConcat
    <3>4. Blocks(old + 1, Upto(c, k + 1)) \in Seq(Int)
      BY <3>2, BlocksType
    <3> QED
      BY <1>4, <3>1, <3>3, <3>4
  <2>2. ASSUME k = n - 1, EndsChunk(c)
        PROVE  all \in Seq(Int) /\ all = Blocks(old + 1, end)
    <3>1. part = <<>>
      BY <1>2, <1>3, <2>2
    <3>2. all = baseFees[c]
      BY <1>4, <3>1, ConcatEmptySeq
    <3>3. Upto(c, k) = last[c] - L
      <4>1. k > 0 /\ Rest(c) = L
        BY <1>2, <1>22, <2>2 DEF EndsChunk, L
      <4>2. Upto(c, k) = Base(c) + (n - 1) * L
        BY <1>5, <2>2, <4>1
      <4> QED
        BY <1>2, <1>21, <1>22, <4>1, <4>2
    <3> QED
      BY <1>4, <2>2, <3>2, <3>3
  <2>3. ASSUME k = n - 1, ~EndsChunk(c)
        PROVE  all \in Seq(Int) /\ all = Blocks(old + 1, end)
    <3>1. part = Blocks(Upto(c, k) + 1, last[c])
      BY <1>2, <1>3, <2>3
    <3>2. /\ old + 1 \in Int /\ Upto(c, k) \in Int /\ last[c] \in Int
          /\ old + 1 <= Upto(c, k) + 1 /\ Upto(c, k) <= last[c] /\ old + 1 <= last[c] + 1
      BY <1>21, <1>5, <1>6, <2>3
    <3>3. Blocks(old + 1, Upto(c, k)) \o Blocks(Upto(c, k) + 1, last[c])
            = Blocks(old + 1, last[c])
      BY <3>2, BlocksConcat
    <3>4. Blocks(old + 1, last[c]) \in Seq(Int)
      BY <3>2, BlocksType
    <3> QED
      BY <1>4, <2>3, <3>1, <3>3, <3>4
  <2>4. k < n - 1 \/ k = n - 1
    BY <1>2
  <2> HIDE DEF all, end
  <2> QED
    BY <2>1, <2>2, <2>3, <2>4
<1> HIDE DEF all, end
<1>9. /\ i' \in [Clients -> Nat] /\ baseFees' \in [Clients -> Seq(Int)]
      /\ \A d \in Clients \ {c} : i'[d] = i[d] /\ baseFees'[d] = baseFees[d]
      /\ i'[c] = k + 1 /\ baseFees'[c] = all
  <2>1. k + 1 \in Nat /\ all \in Seq(Int)
    BY <1>2, <1>7
  <2>2. i \in [Clients -> Nat] /\ baseFees \in [Clients -> Seq(Int)]
    BY DEF StateInv
  <2>3. i' \in [Clients -> Nat] /\ i'[c] = k + 1 /\ \A d \in Clients \ {c} : i'[d] = i[d]
    BY <1>8, <2>1, <2>2
  <2>4. /\ baseFees' \in [Clients -> Seq(Int)] /\ baseFees'[c] = all
        /\ \A d \in Clients \ {c} : baseFees'[d] = baseFees[d]
    <3>1. baseFees' = [baseFees EXCEPT ![c] = all]
      BY <1>8 DEF all
    <3> QED
      BY <2>1, <2>2, <3>1
  <2> QED
    BY <2>3, <2>4
<1>10. EndsChunk(c)' = EndsChunk(c) /\ Upto(c, i[c])' = Upto(c, k + 1)
  BY <1>9 DEF Chunks, Old, Mod, EndsChunk, Rest, Upto, Base
<1>11. Collected(c)'
  <2>1. k + 1 \in 0..n
    BY <1>2
  <2>3. k + 1 < n => baseFees'[c] = Blocks(old + 1, Upto(c, k + 1))
    BY <1>2, <1>7, <1>9
  <2>4. k + 1 = n => baseFees'[c] = Blocks(old + 1, end)
    BY <1>2, <1>7, <1>9
  <2> QED
    BY <1>9, <1>10, <1>81, <2>1, <2>3, <2>4 DEF Collected, end, L
<1> QED
  BY <1>9, <1>11

-----------------------------------------------------------------------------
(***************************************************************************)
(* The steps.                                                              *)
(***************************************************************************)
\* The key of a chunk that is still to come is one of the cache.
LEMMA KeyType ==
    ASSUME StateInv, NEW c \in Clients, i[c] \in 0..(Chunks(c) - 1)
    PROVE  FromBlock(c) \in Keys
<1>1. FromBlock(c) \in Nat /\ FromBlock(c) >= Limit /\ FromBlock(c) % Limit = 0
      /\ FromBlock(c) <= last[c] + Limit
  BY EndsFact, FromBlockFacts
<1>2. last[c] \in Nat /\ last[c] <= MaxBlock /\ head \in Nat
  BY Sizes DEF StateInv
<1> QED
  BY <1>1, <1>2, Sizes DEF Keys

LEMMA FullChunk ==
    ASSUME NEW n \in Int
    PROVE  FeeHistoryOf(n, Limit) = Blocks(n - Limit + 1, n + 1)
  BY DEF FeeHistoryOf

LEMMA FeeHistoryType ==
    ASSUME NEW n \in Int, NEW count \in Nat
    PROVE  FeeHistoryOf(n, count) \in Seq(Int)
<1>1. n - count + 1 \in Int /\ n + 1 \in Int /\ n - count + 1 <= (n + 1) + 1
  OBVIOUS
<1> QED
  BY <1>1, BlocksType DEF FeeHistoryOf

\* A request that takes a chunk of either kind.
LEMMA TakeStep ==
    ASSUME HistoryInv, NEW c \in Clients,
           pc[c] \in {"look", "fetch"}, i[c] < Chunks(c), NEW e \in Int,
           \/ e = FromBlock(c) + 1
           \/ i[c] = Chunks(c) - 1 /\ Rest(c) < Limit /\ e = last[c] + 1,
           Take(c, Chunk(c, e)), pc' = [pc EXCEPT ![c] = "look"],
           UNCHANGED <<head, last, current, tries>>,
           cache' \in [Keys -> Seq(Int)],
           \A n \in Keys : cache'[n] \in {<<>>, FeeHistoryOf(n, Limit)}
    PROVE  HistoryInv'
<1>1. StateInv /\ Collected(c) /\ last[c] <= current[c]
  BY DEF HistoryInv, RequestInv
<1>2. /\ Collected(c)'
      /\ i' \in [Clients -> Nat] /\ baseFees' \in [Clients -> Seq(Int)]
      /\ \A d \in Clients \ {c} : i'[d] = i[d] /\ baseFees'[d] = baseFees[d]
  BY <1>1, TakeCollects
<1>3. /\ pc' \in [Clients -> {"idle", "head", "look", "fetch", "done", "failed"}]
      /\ pc'[c] = "look" /\ \A d \in Clients \ {c} : pc'[d] = pc[d]
  BY <1>1 DEF StateInv
<1>4. StateInv'
  BY <1>1, <1>2, <1>3 DEF StateInv
<1>5. RequestInv(c)'
  BY <1>1, <1>2, <1>3 DEF RequestInv
<1>6. \A d \in Clients \ {c} : RequestInv(d)'
  BY <1>2, <1>3, SameRequest DEF HistoryInv
<1> QED
  BY <1>4, <1>5, <1>6 DEF HistoryInv

\* A request that only moves on: the others are as they were.
LEMMA MoveStep ==
    ASSUME HistoryInv, NEW c \in Clients, UNCHANGED <<head, cache, i, baseFees>>,
           NEW at \in {"idle", "head", "look", "fetch", "done", "failed"},
           pc' = [pc EXCEPT ![c] = at],
           last' \in [Clients -> Nat], current' \in [Clients -> Nat], tries' \in [Clients -> Nat],
           Window <= last'[c], last'[c] <= head,
           \A d \in Clients \ {c} : last'[d] = last[d] /\ current'[d] = current[d],
           RequestInv(c)'
    PROVE  HistoryInv'
<1>1. pc' \in [Clients -> {"idle", "head", "look", "fetch", "done", "failed"}]
      /\ \A d \in Clients \ {c} : pc'[d] = pc[d]
  BY DEF HistoryInv, StateInv
<1>2. StateInv'
  BY <1>1 DEF HistoryInv, StateInv
<1>3. \A d \in Clients \ {c} : RequestInv(d)'
  BY <1>1, SameRequest DEF HistoryInv
<1> QED
  BY <1>2, <1>3 DEF HistoryInv

LEMMA AskStep == ASSUME HistoryInv, NEW c \in Clients, Ask(c) PROVE HistoryInv'
<1>1. PICK n \in Window..head : last' = [last EXCEPT ![c] = n]
  BY DEF Ask
<1>2. n \in Nat /\ last' \in [Clients -> Nat] /\ last'[c] = n
      /\ \A d \in Clients \ {c} : last'[d] = last[d]
  BY <1>1, Sizes DEF HistoryInv, StateInv
<1>3. tries' \in [Clients -> Nat] /\ pc'[c] = "head"
  BY DEF Ask, HistoryInv, StateInv
<1>4. RequestInv(c)'
  BY <1>3, RestsRequest
<1>5. current' \in [Clients -> Nat] /\ current' = current
  BY DEF Ask, HistoryInv, StateInv
<1>6. Window <= last'[c] /\ last'[c] <= head
  BY <1>1, <1>2, Sizes DEF HistoryInv, StateInv
<1>7. UNCHANGED <<head, cache, i, baseFees>> /\ pc' = [pc EXCEPT ![c] = "head"]
  BY DEF Ask
<1>8. \A d \in Clients \ {c} : last'[d] = last[d] /\ current'[d] = current[d]
  BY <1>2, <1>5
<1> QED
  BY <1>2, <1>3, <1>4, <1>5, <1>6, <1>7, <1>8, MoveStep

LEMMA ReadHeadStep == ASSUME HistoryInv, NEW c \in Clients, ReadHead(c) PROVE HistoryInv'
<1>1. /\ StateInv /\ <<>> \in Seq(Int) /\ head \in Nat
      /\ current' = [current EXCEPT ![c] = head] /\ i' = [i EXCEPT ![c] = 0]
      /\ baseFees' = [baseFees EXCEPT ![c] = <<>>] /\ pc' = [pc EXCEPT ![c] = "look"]
      /\ UNCHANGED <<head, cache, last, tries>>
  BY DEF ReadHead, HistoryInv, StateInv
<1>2. StateInv'
  BY <1>1 DEF StateInv
<1>3. current'[c] = head /\ i'[c] = 0 /\ baseFees'[c] = <<>> /\ pc'[c] = "look"
  BY <1>1 DEF StateInv
<1>4. Collected(c)'
  <2>1. Ends(c)
    BY <1>1, EndsFact
  <2>2. Chunks(c)' = Chunks(c) /\ Old(c)' = Old(c) /\ Chunks(c) \in Nat /\ Chunks(c) > 0
        /\ Old(c) \in Nat
    BY <1>1, <2>1, ChunkFacts, OldFacts DEF Chunks, Old, Mod
  <2>3. Upto(c, i[c])' = Old(c)
    BY <1>3, <2>2 DEF Upto
  <2>4. Blocks(Old(c) + 1, Old(c)) = <<>>
    <3>1. Old(c) + 1 \in Int /\ (Old(c) + 1) - 1 = Old(c)
      BY <2>2
    <3>2. Blocks(Old(c) + 1, (Old(c) + 1) - 1) = <<>>
      BY <3>1, NoBlocks
    <3> QED
      BY <3>1, <3>2
  <2> QED
    BY <1>3, <2>2, <2>3, <2>4 DEF Collected
<1>5. RequestInv(c)'
  BY <1>1, <1>3, <1>4 DEF RequestInv, StateInv
<1>6. \A d \in Clients \ {c} : RequestInv(d)'
  BY <1>1, SameRequest DEF HistoryInv, StateInv
<1> QED
  BY <1>2, <1>5, <1>6 DEF HistoryInv

LEMMA LookUpStep == ASSUME HistoryInv, NEW c \in Clients, LookUp(c) PROVE HistoryInv'
<1>1. StateInv /\ Collected(c) /\ pc[c] = "look" /\ i[c] < Chunks(c)
  BY DEF LookUp, HistoryInv, RequestInv
<1>2. i[c] \in 0..(Chunks(c) - 1) /\ Chunks(c) \in Nat
  BY <1>1, EndsFact, ChunkFacts DEF Collected
<1>3. FromBlock(c) \in Keys /\ FromBlock(c) \in Int
  BY <1>1, <1>2, KeyType DEF Keys
<1>4. cache[FromBlock(c)] = Chunk(c, FromBlock(c) + 1)
  BY <1>1, <1>3, FullChunk DEF LookUp, StateInv, Chunk
<1>5. pc' = [pc EXCEPT ![c] = "look"]
  BY <1>1 DEF LookUp, StateInv
<1>6. /\ Take(c, Chunk(c, FromBlock(c) + 1)) /\ UNCHANGED <<head, last, current, tries, cache>>
      /\ FromBlock(c) + 1 \in Int
  BY <1>3, <1>4 DEF LookUp
<1> QED
  BY <1>1, <1>5, <1>6, TakeStep DEF StateInv

LEMMA FetchChunkStep == ASSUME HistoryInv, NEW c \in Clients, FetchChunk(c) PROVE HistoryInv'
<1> DEFINE n == FromBlock(c)
<1>1. StateInv /\ Collected(c) /\ pc[c] = "fetch" /\ i[c] < Chunks(c)
  BY DEF FetchChunk, HistoryInv, RequestInv
<1>2. i[c] \in 0..(Chunks(c) - 1) /\ Chunks(c) \in Nat
  BY <1>1, EndsFact, ChunkFacts DEF Collected
<1>3. n \in Keys /\ n \in Int /\ n + 1 \in Int
  BY <1>1, <1>2, KeyType DEF Keys
<1>4. FeeHistoryOf(n, Limit) = Chunk(c, n + 1) /\ FeeHistoryOf(n, Limit) \in Seq(Int)
  BY <1>3, FullChunk, FeeHistoryType, Sizes DEF Chunk
<1>5. Take(c, Chunk(c, n + 1)) /\ UNCHANGED <<head, last, current, tries>>
      /\ pc' = [pc EXCEPT ![c] = "look"]
      /\ cache' = [cache EXCEPT ![n] = FeeHistoryOf(n, Limit)]
  BY <1>4 DEF FetchChunk
<1> HIDE DEF n
<1>6. cache' \in [Keys -> Seq(Int)]
      /\ \A k \in Keys : cache'[k] \in {<<>>, FeeHistoryOf(k, Limit)}
  BY <1>1, <1>3, <1>4, <1>5 DEF StateInv
<1>7. n + 1 = FromBlock(c) + 1
  BY DEF n
<1> QED
  BY <1>1, <1>3, <1>5, <1>6, <1>7, TakeStep

LEMMA FetchRestStep == ASSUME HistoryInv, NEW c \in Clients, FetchRest(c) PROVE HistoryInv'
<1>1. StateInv /\ Collected(c) /\ pc[c] = "fetch" /\ i[c] < Chunks(c)
      /\ last[c] <= current[c] /\ FromBlock(c) > current[c]
  BY DEF FetchRest, HistoryInv, RequestInv
<1>2. Ends(c) /\ i[c] \in 0..(Chunks(c) - 1) /\ Chunks(c) \in Nat
  BY <1>1, EndsFact, ChunkFacts DEF Collected
<1>3. last[c] \in Int /\ current[c] \in Int /\ FromBlock(c) \in Int
  BY <1>1, <1>2, FromBlockFacts DEF StateInv
<1>4. i[c] = Chunks(c) - 1 /\ Rest(c) < Limit
  BY <1>1, <1>2, <1>3, FromBlockFacts
<1>5. last[c] % Limit = Rest(c) /\ Rest(c) \in Nat /\ last[c] - Rest(c) = FromBlock(c) - Limit
  <2>1. last[c] % Limit = Rest(c)
    <3>1. Rest(c) # Limit
      BY <1>2, <1>4, ChunkFacts, Sizes
    <3> QED
      BY <1>2, <3>1, RestFacts
  <2>2. last[c] = Base(c) + (Chunks(c) - 1) * Limit + Rest(c) /\ Rest(c) \in 1..Limit
        /\ (Chunks(c) - 1) * Limit \in Nat
    BY <1>2, ChunkFacts
  <2>3. FromBlock(c) = Base(c) + (Chunks(c) - 1) * Limit + Limit /\ Base(c) \in Nat
    BY <1>2, <1>4, FromBlockFacts, OldFacts
  <2> QED
    BY <2>1, <2>2, <2>3, Sizes
<1>6. FeeHistoryOf(last[c], last[c] % Limit) = Chunk(c, last[c] + 1)
  BY <1>5 DEF FeeHistoryOf, Chunk
<1>7. Take(c, Chunk(c, last[c] + 1)) /\ UNCHANGED <<head, cache, last, current, tries>>
      /\ pc' = [pc EXCEPT ![c] = "look"] /\ last[c] + 1 \in Int
  BY <1>3, <1>6 DEF FetchRest
<1> QED
  BY <1>1, <1>4, <1>7, TakeStep DEF StateInv

LEMMA MissStep == ASSUME HistoryInv, NEW c \in Clients, Miss(c) PROVE HistoryInv'
<1>1. /\ StateInv /\ pc[c] = "look" /\ i[c] < Chunks(c) /\ last[c] <= current[c] /\ Collected(c)
      /\ UNCHANGED <<head, cache, i, baseFees, last, current, tries>>
      /\ pc' = [pc EXCEPT ![c] = "fetch"]
  BY DEF Miss, HistoryInv, RequestInv, request
<1>2. pc'[c] = "fetch"
  BY <1>1 DEF StateInv
<1>3. RequestInv(c)'
  BY <1>1, <1>2 DEF RequestInv, Collected, EndsChunk, Upto, Base, Rest, Old, Mod, Chunks
<1>4. /\ last' \in [Clients -> Nat] /\ current' \in [Clients -> Nat] /\ tries' \in [Clients -> Nat]
      /\ Window <= last'[c] /\ last'[c] <= head
      /\ \A d \in Clients \ {c} : last'[d] = last[d] /\ current'[d] = current[d]
  BY <1>1 DEF StateInv
<1> QED
  BY <1>1, <1>3, <1>4, MoveStep

LEMMA AgainStep == ASSUME HistoryInv, NEW c \in Clients, Again(c) PROVE HistoryInv'
<1>1. PICK at \in {"failed", "head"} : pc' = [pc EXCEPT ![c] = at]
  BY DEF Again
<1>2. /\ StateInv /\ UNCHANGED <<head, cache, i, baseFees, last, current>>
      /\ tries' = [tries EXCEPT ![c] = @ + 1]
  BY DEF Again, HistoryInv
<1>3. pc'[c] = at
  BY <1>1, <1>2 DEF StateInv
<1>4. RequestInv(c)'
  BY <1>3, RestsRequest
<1>5. /\ last' \in [Clients -> Nat] /\ current' \in [Clients -> Nat] /\ tries' \in [Clients -> Nat]
      /\ Window <= last'[c] /\ last'[c] <= head
      /\ \A d \in Clients \ {c} : last'[d] = last[d] /\ current'[d] = current[d]
  BY <1>2 DEF StateInv
<1> QED
  BY <1>1, <1>2, <1>4, <1>5, MoveStep

\* The length of what all chunks have brought says which of the two it is.
LEMMA LengthFacts ==
    ASSUME StateInv, NEW c \in Clients, Collected(c), i[c] = Chunks(c)
    PROVE  IF EndsChunk(c)
             THEN Len(baseFees[c]) # Window
             ELSE baseFees[c] = Blocks(Old(c) + 1, last[c]) /\ Len(baseFees[c]) = Window
<1>1. /\ last[c] \in Int /\ Old(c) \in Nat /\ last[c] = Old(c) + Window
      /\ Window \in Nat /\ Limit \in Nat /\ Limit > 0 /\ Limit <= Window
  BY EndsFact, OldFacts, Sizes
<1>2. ASSUME EndsChunk(c) PROVE Len(baseFees[c]) = Window - Limit
  <2>1. baseFees[c] = Blocks(Old(c) + 1, last[c] - Limit)
    BY <1>2 DEF Collected
  <2>2. /\ Old(c) + 1 \in Int /\ last[c] - Limit \in Int
        /\ Old(c) + 1 <= (last[c] - Limit) + 1
        /\ (last[c] - Limit) - (Old(c) + 1) + 1 = Window - Limit
    BY <1>1
  <2> QED
    BY <2>1, <2>2, BlocksType
<1>3. ASSUME ~EndsChunk(c)
      PROVE  baseFees[c] = Blocks(Old(c) + 1, last[c]) /\ Len(baseFees[c]) = Window
  <2>1. baseFees[c] = Blocks(Old(c) + 1, last[c])
    BY <1>3 DEF Collected
  <2>2. /\ Old(c) + 1 \in Int /\ Old(c) + 1 <= last[c] + 1
        /\ last[c] - (Old(c) + 1) + 1 = Window
    BY <1>1
  <2>3. Len(Blocks(Old(c) + 1, last[c])) = Window
    BY <1>1, <2>2, BlocksType
  <2> QED
    BY <2>1, <2>3
<1>4. Window - Limit # Window
  BY <1>1
<1> QED
  BY <1>2, <1>3, <1>4

LEMMA FinishStep == ASSUME HistoryInv, NEW c \in Clients, Finish(c) PROVE HistoryInv'
<1>1. /\ StateInv /\ Collected(c) /\ i[c] = Chunks(c) /\ Len(baseFees[c]) = Window
      /\ UNCHANGED <<head, cache, i, baseFees, last, current, tries>>
      /\ pc' = [pc EXCEPT ![c] = "done"]
  BY DEF Finish, HistoryInv, RequestInv, request
<1>2. baseFees[c] = Blocks(Old(c) + 1, last[c])
  BY <1>1, LengthFacts
<1>3. pc'[c] = "done"
  BY <1>1 DEF StateInv
<1>4. RequestInv(c)'
  BY <1>1, <1>2, <1>3 DEF RequestInv, Old
<1>5. /\ last' \in [Clients -> Nat] /\ current' \in [Clients -> Nat] /\ tries' \in [Clients -> Nat]
      /\ Window <= last'[c] /\ last'[c] <= head
      /\ \A d \in Clients \ {c} : last'[d] = last[d] /\ current'[d] = current[d]
  BY <1>1 DEF StateInv
<1> QED
  BY <1>1, <1>4, <1>5, MoveStep

LEMMA HistoryStep == HistoryInv /\ [Next]_vars => HistoryInv'
<1> SUFFICES ASSUME HistoryInv, [Next]_vars PROVE HistoryInv'
  OBVIOUS
<1>1. ASSUME NewBlock PROVE HistoryInv'
  <2>1. StateInv'
    BY <1>1, Sizes DEF NewBlock, HistoryInv, StateInv, request
  <2>2. \A d \in Clients : RequestInv(d)'
    BY <1>1, SameRequest DEF NewBlock, HistoryInv, request
  <2> QED
    BY <2>1, <2>2 DEF HistoryInv
<1>2. ASSUME Evict PROVE HistoryInv'
  <2>1. PICK n \in Keys : cache' = [cache EXCEPT ![n] = <<>>]
    BY <1>2 DEF Evict
  <2>2. StateInv /\ <<>> \in Seq(Int) /\ UNCHANGED <<head, pc, last, current, i, baseFees, tries>>
    BY <1>2 DEF Evict, HistoryInv, request
  <2>3. StateInv'
    BY <2>1, <2>2 DEF StateInv
  <2>4. \A d \in Clients : RequestInv(d)'
    BY <2>2, SameRequest DEF HistoryInv
  <2> QED
    BY <2>3, <2>4 DEF HistoryInv
<1>3. ASSUME UNCHANGED vars PROVE HistoryInv'
  <2>1. UNCHANGED <<head, cache, pc, last, current, i, baseFees, tries>>
    BY <1>3 DEF vars, request
  <2>2. StateInv'
    BY <2>1 DEF HistoryInv, StateInv
  <2>3. \A d \in Clients : RequestInv(d)'
    BY <2>1, SameRequest DEF HistoryInv
  <2> QED
    BY <2>2, <2>3 DEF HistoryInv
<1>4. ASSUME NEW c \in Clients, RpcFails(c) \/ WrongLength(c) PROVE HistoryInv'
  BY <1>4, AgainStep DEF RpcFails, WrongLength
<1>5. ASSUME NEW c \in Clients,
             \/ Ask(c) \/ ReadHead(c) \/ LookUp(c) \/ Miss(c)
             \/ FetchChunk(c) \/ FetchRest(c) \/ Finish(c)
      PROVE  HistoryInv'
  BY <1>5, AskStep, ReadHeadStep, LookUpStep, MissStep, FetchChunkStep, FetchRestStep,
     FinishStep
<1> QED
  BY <1>1, <1>2, <1>3, <1>4, <1>5 DEF Next

-----------------------------------------------------------------------------
(***************************************************************************)
(* The theorems.                                                           *)
(***************************************************************************)
LEMMA HistoryInvariant == Spec => []HistoryInv
  BY InitHistory, HistoryStep, PTL DEF Spec

\* Whatever chunks come from the cache, whoever put them there, whatever blocks
\* arrive or chunks expire in between, a request ends with the base fees of the
\* blocks it is about, each once and in order (gas.service.ts:104-189).
THEOREM WindowIsExact == Spec => []WindowExact
<1>1. HistoryInv => WindowExact
  <2> SUFFICES ASSUME HistoryInv, NEW c \in Clients, pc[c] = "done"
               PROVE  baseFees[c] = Blocks(last[c] - Window + 1, last[c])
    BY DEF WindowExact
  <2> QED
    BY DEF HistoryInv, RequestInv, Old
<1> QED
  BY <1>1, HistoryInvariant, PTL

\* The list is refused for its length in one case only, which no interleaving
\* makes: the last block ends a chunk and the window begins inside one (176-182).
THEOREM WrongLengthOnlyAtChunkEnd == Spec => []WrongOnlyAtChunkEnd
<1>1. HistoryInv => WrongOnlyAtChunkEnd
  <2> SUFFICES ASSUME HistoryInv, NEW c \in Clients, pc[c] = "look", i[c] = Chunks(c),
                      Len(baseFees[c]) # Window
               PROVE  last[c] % Limit = 0 /\ Mod(c) > 0
    BY DEF WrongOnlyAtChunkEnd
  <2>1. StateInv /\ Collected(c)
    BY DEF HistoryInv, RequestInv
  <2>2. EndsChunk(c)
    BY <2>1, LengthFacts
  <2>3. Ends(c)
    BY <2>1, EndsFact
  <2> QED
    BY <2>2, <2>3, RestFacts DEF EndsChunk
<1> QED
  BY <1>1, HistoryInvariant, PTL
=============================================================================
