-------------------------- MODULE DDMinCostProofs ---------------------------
(***************************************************************************)
(* The cost of ddmin, for every history and every predicate, consistent in *)
(* its answers or not: the number of calls of the predicate is quadratic.  *)
(*                                                                         *)
(* Budget(len, k) bounds what a recursive call may still ask when len      *)
(* operations are left at granularity k.  At single operations a level of  *)
(* the recursion asks 2 * len questions and loses an operation, which adds *)
(* up to len^2 + len.  Before, a level asks 2 * k questions; if it refuses *)
(* them all k doubles, so that the levels up to single operations ask less *)
(* than 4 * len together.                                                  *)
(***************************************************************************)
EXTENDS DDMinCost, DDMinProofs

Pronic(len) == len * len + len

Budget(len, k) ==
    IF k >= len THEN Pronic(len) ELSE Pronic(len) + 4 * len - 2 * k - 4

Limit == 2 * Len(h.ops) * Len(h.ops)

\* The questions of the level the recursion is at.
AskedHere ==
    CASE phase = "subset"     -> i - 1
      [] phase = "complement" -> NumChunks + i - 1
      [] OTHER                -> 0

\* The inductive invariant.  QuadraticCalls is not inductive: what may still be
\* asked has to be counted in.
CostInv ==
    /\ asked \in Nat
    /\ phase = "start" => asked = 0
    /\ phase = "enter" => i = 1
    /\ phase \in {"subset", "complement"} => i <= NumChunks + 1
    /\ phase \in {"enter", "subset", "complement"} =>
          asked + Budget(Len(ops), n) <= Limit + AskedHere
    /\ phase = "done" => asked <= Limit

-----------------------------------------------------------------------------
(* The budget *)

LEMMA PronicGrows ==
    ASSUME NEW a \in Nat, NEW b \in Nat, a < b
    PROVE  Pronic(a) \in Nat /\ Pronic(b) \in Nat /\ Pronic(a) + 2 * b <= Pronic(b)
<1>1. Pronic(a) \in Nat /\ Pronic(b) \in Nat
  BY DEF Pronic
<1>2. PICK d \in Nat : b = a + 1 + d
  <2>1. b - a - 1 \in Nat /\ b = a + 1 + (b - a - 1)
    OBVIOUS
  <2>2. QED
    BY <2>1
<1>3. b * b = (a + 1 + d) * b
  BY <1>2
<1>4. (a + 1 + d) * b = a * b + b + d * b
  OBVIOUS
<1>5. a * b = a * a + a + a * d
  BY <1>2
<1>6. a * a \in Nat /\ a * d \in Nat /\ d * b \in Nat /\ d <= d * b
  BY <1>2
<1> DEFINE aa == a * a
           bb == b * b
           ad == a * d
           db == d * b
<1>7. Pronic(a) = aa + a /\ Pronic(b) = bb + b /\ bb = aa + a + ad + b + db
  BY <1>3, <1>4, <1>5 DEF Pronic
<1>8. aa \in Nat /\ ad \in Nat /\ db \in Nat /\ bb \in Nat
  BY <1>6
<1> HIDE DEF aa, bb, ad, db
<1>9. QED
  BY <1>1, <1>7, <1>8

LEMMA BudgetIsNatural ==
    ASSUME NEW len \in Nat, NEW k \in Nat, k >= 2
    PROVE  Budget(len, k) \in Nat
<1>1. Pronic(len) \in Nat
  BY DEF Pronic
<1>2. QED
  BY <1>1 DEF Budget

\* A level asks no more than its budget.
LEMMA BudgetCoversLevel ==
    ASSUME NEW len \in Nat, len >= 2, NEW k \in Nat, k >= 2
    PROVE  /\ Budget(len, k) \in Nat
           /\ 2 * Least(k, len) <= Budget(len, k)
<1>1. Pronic(1) \in Nat /\ Pronic(len) \in Nat /\ Pronic(1) + 2 * len <= Pronic(len)
  BY PronicGrows
<1>2. QED
  BY <1>1 DEF Budget, Least

\* Fewer operations, at a granularity of one less or more: the budget falls by
\* what a whole level asks.
LEMMA BudgetAfterRemoval ==
    ASSUME NEW len \in Nat, len >= 2, NEW k \in Nat, k >= 2,
           NEW left \in Nat, left < len,
           NEW m \in Nat, m >= 2, m >= k - 1
    PROVE  Budget(left, m) + 2 * Least(k, len) <= Budget(len, k)
<1>1. /\ Pronic(left) \in Nat /\ Pronic(len) \in Nat
      /\ Pronic(left) + 2 * len <= Pronic(len)
  BY PronicGrows
<1>2. CASE k >= len
  BY <1>1, <1>2 DEF Budget, Least
<1>3. CASE k < len
  BY <1>1, <1>3 DEF Budget, Least
<1>4. QED
  BY <1>2, <1>3

\* What one chunk leaves, at granularity 2: k chunks are not empty, so that one
\* of them has at most len - k + 1 operations.
LEMMA BudgetAfterKeeping ==
    ASSUME NEW len \in Nat, len >= 2, NEW k \in Nat, k >= 2,
           NEW left \in Nat, left < len, left + Least(k, len) <= len + 1
    PROVE  Budget(left, 2) + Least(k, len) <= Budget(len, k)
<1>1. /\ Pronic(left) \in Nat /\ Pronic(len) \in Nat
      /\ Pronic(left) + 2 * len <= Pronic(len)
  BY PronicGrows
<1>2. CASE k >= len
  BY <1>1, <1>2 DEF Budget, Least
<1>3. CASE k < len
  BY <1>1, <1>3 DEF Budget, Least
<1>4. QED
  BY <1>2, <1>3

\* Doubling the granularity pays for the level that refused everything.
LEMMA BudgetAfterRefining ==
    ASSUME NEW len \in Nat, NEW k \in Nat, k >= 2, k < len
    PROVE  Budget(len, Least(2 * k, len)) + 2 * Least(k, len) <= Budget(len, k)
<1>1. Pronic(len) \in Nat
  BY DEF Pronic
<1>2. QED
  BY <1>1 DEF Budget, Least

\* The whole search, and the first question.
LEMMA BudgetOfSearch ==
    ASSUME NEW len \in Nat, len >= 2
    PROVE  1 + Budget(len, 2) <= 2 * len * len
<1>1. len * len \in Nat /\ 5 * len <= len * len + 7
  <2>1. CASE len \in 2..4
    <3>1. len = 2 \/ len = 3 \/ len = 4
      BY <2>1
    <3>2. QED
      BY <3>1
  <2>2. CASE len >= 5
    BY <2>2
  <2>3. QED
    BY <2>1, <2>2
<1> DEFINE sq == len * len
<1>2. 2 * len * len = 2 * sq /\ Pronic(len) = sq + len
  BY DEF Pronic
<1>3. sq \in Nat /\ 5 * len <= sq + 7
  BY <1>1
<1>4. len = 2 => sq = 4
  OBVIOUS
<1> HIDE DEF sq
<1>5. QED
  BY <1>2, <1>3, <1>4 DEF Budget

-----------------------------------------------------------------------------
(* The pieces leave enough *)

LEMMA PieceLengths ==
    ASSUME ops \in Seq(Op), Len(ops) >= 2, n \in Nat, n >= 2,
           NEW k \in 1..NumChunks
    PROVE  /\ Len(Chunk(k)) \in Nat /\ Len(Chunk(k)) < Len(ops)
           /\ Len(Chunk(k)) + NumChunks <= Len(ops) + 1
           /\ Len(Complement(k)) \in Nat /\ Len(Complement(k)) < Len(ops)
<1>1. /\ Len(Chunk(k)) \in 1..(Len(ops) - 1)
      /\ Len(Complement(k)) \in 1..(Len(ops) - 1)
  BY Pieces
<1> DEFINE a == Cut(k - 1)
           b == Cut(k)
<1>2. /\ NumChunks \in 2..Len(ops)
      /\ a \in (k - 1)..(Len(ops) - (NumChunks - (k - 1)))
      /\ b \in k..(Len(ops) - (NumChunks - k))
      /\ a < b
  BY CutBounds
<1>3. Chunk(k) = SubSeq(ops, a + 1, b)
  BY DEF Chunk
<1> HIDE DEF a, b
<1>4. Len(Chunk(k)) = b - a
  <2>1. a \in Nat /\ b \in Nat /\ a <= b /\ b <= Len(ops)
    BY <1>2
  <2>2. Len(SubSeq(ops, a + 1, b)) = b - a
    BY <2>1, SliceIsSubsequence
  <2>3. QED
    BY <1>3, <2>2
<1>5. Len(Chunk(k)) + NumChunks <= Len(ops) + 1
  BY <1>2, <1>4
<1>6. QED
  BY <1>1, <1>5

-----------------------------------------------------------------------------
(* The inductive invariant *)

LEMMA CountingImplies == CountingSpec => []SearchInv
<1>1. CountingInit => Init
  BY DEF CountingInit
<1>2. [CountingNext]_<<vars, asked>> => [Next]_vars
  BY DEF CountingNext
<1>3. QED
  BY <1>1, <1>2, InitSearchInv, NextSearchInv, PTL DEF CountingSpec

LEMMA LimitIsNatural ==
    ASSUME Len(h.ops) \in Nat
    PROVE  Limit \in Nat
<1>1. Len(h.ops) * Len(h.ops) \in Nat
  OBVIOUS
<1>2. 2 * Len(h.ops) * Len(h.ops) = 2 * (Len(h.ops) * Len(h.ops))
  OBVIOUS
<1>3. QED
  BY <1>1, <1>2 DEF Limit

LEMMA InitCostInv == CountingInit => CostInv
  BY DEF CountingInit, Init, Begin, CostInv

LEMMA NextCostInv ==
    SearchInv /\ CostInv /\ [CountingNext]_<<vars, asked>> => CostInv'
<1> SUFFICES ASSUME SearchInv, CostInv, [CountingNext]_<<vars, asked>>
             PROVE  CostInv'
  OBVIOUS
<1>1. /\ h.ops \in Seq(Op) /\ ops \in Seq(Op)
      /\ n \in Nat /\ n >= 2 /\ i \in Nat \ {0}
      /\ Len(ops) \in Nat /\ Len(h.ops) \in Nat
      /\ phase = "start" => ops = h.ops
      /\ phase \in {"subset", "complement"} => Len(ops) >= 2
  BY DEF SearchInv, TypeOK
<1>2. Limit \in Nat
  BY <1>1, LimitIsNatural
<1>3. CASE UNCHANGED <<vars, asked>>
  BY <1>3 DEF vars, CostInv, AskedHere, Limit, NumChunks
<1>4. CASE CountingNext
  <2>1. Step /\ h' = h /\ pred' = pred /\ asked' = (IF Asks THEN asked + 1 ELSE asked)
    BY <1>4 DEF CountingNext, Next, args
  <2>2. asked \in Nat /\ asked' \in Nat /\ asked' <= asked + 1 /\ Limit' = Limit
    BY <2>1 DEF CostInv, Limit
  <2>3. CASE GiveUp
    <3>1. phase = "start" /\ phase' = "done" /\ asked = 0
      BY <2>3 DEF GiveUp, CostInv
    <3>2. asked' <= Limit
      <4>1. CASE Len(ops) < 2
        BY <1>2, <2>1, <3>1, <4>1 DEF Asks
      <4>2. CASE Len(ops) >= 2
        <5>1. 1 + Budget(Len(ops), 2) <= Limit
          BY <1>1, <3>1, <4>2, BudgetOfSearch DEF Limit
        <5>2. Budget(Len(ops), 2) \in Nat
          BY <1>1, <4>2, BudgetCoversLevel
        <5>3. QED
          BY <1>2, <2>2, <3>1, <5>1, <5>2
      <4>3. QED
        BY <1>1, <4>1, <4>2
    <3>3. QED
      BY <2>2, <3>1, <3>2 DEF CostInv
  <2>4. CASE Start
    <3>1. /\ phase = "start" /\ phase' = "enter" /\ asked = 0 /\ Len(ops) >= 2
          /\ ops' = ops /\ n' = 2 /\ i' = 1 /\ AskedHere' = 0
      BY <2>4 DEF Start, Recurse, CostInv, AskedHere
    <3>2. 1 + Budget(Len(ops), 2) <= Limit
      BY <1>1, <3>1, BudgetOfSearch DEF Limit
    <3>3. Budget(Len(ops), 2) \in Nat
      BY <1>1, <3>1, BudgetCoversLevel
    <3>4. (asked + Budget(Len(ops), n) <= Limit + AskedHere)'
      <4>1. asked' + Budget(Len(ops), 2) <= Limit
        BY <1>2, <2>2, <3>1, <3>2, <3>3
      <4>2. QED
        BY <1>2, <2>2, <3>1, <4>1 DEF Budget, Pronic
    <3>5. QED
      BY <2>2, <3>1, <3>4 DEF CostInv
  <2>5. CASE Enter
    <3>1. /\ phase = "enter" /\ ops' = ops /\ n' = n /\ i' = i /\ asked' = asked
          /\ phase' = IF Len(ops) < 2 THEN "done" ELSE "subset"
      BY <2>1, <2>5 DEF Enter, Asks
    <3>2. asked + Budget(Len(ops), n) <= Limit
      BY <1>2, <3>1 DEF CostInv, AskedHere
    <3>3. CASE Len(ops) < 2
      <4>1. Budget(Len(ops), n) \in Nat
        <5>1. Len(ops) * Len(ops) \in Nat
          BY <1>1
        <5>2. QED
          BY <1>1, <3>3, <5>1 DEF Budget, Pronic
      <4>2. asked' <= Limit
        BY <1>2, <2>2, <3>1, <3>2, <4>1
      <4>3. QED
        BY <2>2, <3>1, <3>3, <4>2 DEF CostInv
    <3>4. CASE ~(Len(ops) < 2)
      <4>1. phase' = "subset" /\ AskedHere' = i - 1
        BY <3>1, <3>4 DEF AskedHere
      <4>2. i = 1 /\ NumChunks \in Nat /\ NumChunks' = NumChunks
        BY <1>1, <3>1 DEF CostInv, NumChunks, Least
      <4>3. (asked + Budget(Len(ops), n) <= Limit + AskedHere)'
        BY <1>2, <2>2, <3>1, <3>2, <4>1, <4>2 DEF Budget, Pronic
      <4>4. QED
        BY <2>2, <3>1, <4>1, <4>2, <4>3 DEF CostInv
    <3>5. QED
      BY <3>3, <3>4
  <2>6. CASE KeepChunk
    <3>1. /\ phase = "subset" /\ i \in 1..NumChunks /\ Len(ops) >= 2
          /\ Recurse(Chunk(i), 2)
      BY <1>1, <2>6 DEF KeepChunk, NumChunks, Least
    <3>2. /\ Len(Chunk(i)) \in Nat /\ Len(Chunk(i)) < Len(ops)
          /\ Len(Chunk(i)) + Least(n, Len(ops)) <= Len(ops) + 1
      BY <1>1, <3>1, PieceLengths DEF NumChunks
    <3>3. Budget(Len(Chunk(i)), 2) + Least(n, Len(ops)) <= Budget(Len(ops), n)
      BY <1>1, <3>1, <3>2, BudgetAfterKeeping
    <3>4. Budget(Len(Chunk(i)), 2) \in Int /\ Budget(Len(ops), n) \in Int
      BY <1>1, <3>2, BudgetIsNatural
    <3>5. asked + Budget(Len(ops), n) <= Limit + (i - 1)
      BY <3>1 DEF CostInv, AskedHere
    <3>6. asked' + Budget(Len(Chunk(i)), 2) <= Limit
      BY SMTT(30), <1>1, <1>2, <2>2, <3>1, <3>3, <3>4, <3>5 DEF NumChunks, Least
    <3>7. /\ phase' = "enter" /\ i' = 1 /\ AskedHere' = 0
          /\ Budget(Len(ops), n)' = Budget(Len(Chunk(i)), 2)
      BY <3>1 DEF Recurse, AskedHere, Budget, Pronic
    <3>8. QED
      BY <1>2, <2>2, <3>6, <3>7 DEF CostInv
  <2>7. CASE PassChunk
    <3>1. /\ phase = "subset" /\ i \in 1..NumChunks
          /\ phase' = phase /\ i' = i + 1 /\ ops' = ops /\ n' = n
      BY <1>1, <2>7 DEF PassChunk, NumChunks, Least
    <3>2. asked + Budget(Len(ops), n) <= Limit + (i - 1)
      BY <3>1 DEF CostInv, AskedHere
    <3>3. Budget(Len(ops), n) \in Int /\ Budget(Len(ops), n)' = Budget(Len(ops), n)
      BY <1>1, <3>1, BudgetIsNatural DEF Budget, Pronic
    <3>4. asked' + Budget(Len(ops), n) <= Limit + i
      BY <1>1, <1>2, <2>2, <3>2, <3>3
    <3>5. AskedHere' = i /\ NumChunks' = NumChunks /\ NumChunks \in Nat
      BY <1>1, <3>1 DEF AskedHere, NumChunks, Least
    <3>6. QED
      BY <1>2, <2>2, <3>1, <3>3, <3>4, <3>5 DEF CostInv
  <2>8. CASE ChunksTried
    <3>1. /\ phase = "subset" /\ phase' = "complement" /\ i > NumChunks
          /\ i' = 1 /\ ops' = ops /\ n' = n /\ asked' = asked
      BY <1>1, <2>1, <2>8 DEF ChunksTried, Asks, NumChunks, Least
    <3>2. asked + Budget(Len(ops), n) <= Limit + (i - 1) /\ i <= NumChunks + 1
      BY <3>1 DEF CostInv, AskedHere
    <3>3. Budget(Len(ops), n)' = Budget(Len(ops), n)
      BY <3>1 DEF Budget, Pronic
    <3>4. NumChunks' = NumChunks /\ NumChunks \in Nat /\ i - 1 = NumChunks
      BY <1>1, <3>1, <3>2 DEF NumChunks, Least
    <3>5. AskedHere' = NumChunks
      BY <3>1, <3>4 DEF AskedHere
    <3>6. QED
      BY <1>2, <2>2, <3>1, <3>2, <3>3, <3>4, <3>5 DEF CostInv
  <2>9. CASE DropChunk
    <3> DEFINE k == IF n - 1 < 2 THEN 2 ELSE n - 1
    <3>1. /\ phase = "complement" /\ i \in 1..NumChunks /\ Len(ops) >= 2
          /\ Recurse(Complement(i), k)
      BY <1>1, <2>9 DEF DropChunk, NumChunks, Least
    <3>2. Len(Complement(i)) \in Nat /\ Len(Complement(i)) < Len(ops)
      BY <1>1, <3>1, PieceLengths
    <3>3. k \in Nat /\ k >= 2 /\ k >= n - 1
      BY <1>1
    <3> HIDE DEF k
    <3>4. Budget(Len(Complement(i)), k) + 2 * NumChunks <= Budget(Len(ops), n)
      BY <1>1, <3>1, <3>2, <3>3, BudgetAfterRemoval DEF NumChunks
    <3>5. Budget(Len(Complement(i)), k) \in Int /\ Budget(Len(ops), n) \in Int
      BY <1>1, <3>2, <3>3, BudgetIsNatural
    <3>6. asked + Budget(Len(ops), n) <= Limit + (NumChunks + i - 1)
      BY <3>1 DEF CostInv, AskedHere
    <3>7. asked' + Budget(Len(Complement(i)), k) <= Limit
      <4>1. NumChunks \in Nat
        BY <1>1 DEF NumChunks, Least
      <4>2. QED
        BY <1>1, <1>2, <2>2, <3>1, <3>4, <3>5, <3>6, <4>1
    <3>8. /\ phase' = "enter" /\ i' = 1 /\ AskedHere' = 0
          /\ Budget(Len(ops), n)' = Budget(Len(Complement(i)), k)
      BY <3>1 DEF Recurse, AskedHere, Budget, Pronic
    <3>9. QED
      BY <1>2, <2>2, <3>7, <3>8 DEF CostInv
  <2>10. CASE PassComplement
    <3>1. /\ phase = "complement" /\ i \in 1..NumChunks
          /\ phase' = phase /\ i' = i + 1 /\ ops' = ops /\ n' = n
      BY <1>1, <2>10 DEF PassComplement, NumChunks, Least
    <3>2. asked + Budget(Len(ops), n) <= Limit + (NumChunks + i - 1)
      BY <3>1 DEF CostInv, AskedHere
    <3>3. Budget(Len(ops), n) \in Int /\ Budget(Len(ops), n)' = Budget(Len(ops), n)
      BY <1>1, <3>1, BudgetIsNatural DEF Budget, Pronic
    <3>4. NumChunks' = NumChunks /\ NumChunks \in Nat
      BY <1>1, <3>1 DEF NumChunks, Least
    <3>5. asked' + Budget(Len(ops), n) <= Limit + (NumChunks + i)
      BY <1>1, <1>2, <2>2, <3>2, <3>3, <3>4
    <3>6. AskedHere' = NumChunks + i
      BY <1>1, <3>1, <3>4 DEF AskedHere
    <3>7. QED
      BY <1>2, <2>2, <3>1, <3>3, <3>4, <3>5, <3>6 DEF CostInv
  <2>11. CASE Refine
    <3> DEFINE k == Least(2 * n, Len(ops))
    <3>1. /\ phase = "complement" /\ i > NumChunks /\ n < Len(ops) /\ Len(ops) >= 2
          /\ Recurse(ops, k) /\ asked' = asked
      BY <1>1, <2>1, <2>11 DEF Refine, Asks, NumChunks, Least
    <3>2. Budget(Len(ops), k) + 2 * NumChunks <= Budget(Len(ops), n)
      BY <1>1, <3>1, BudgetAfterRefining DEF NumChunks
    <3>3. k \in Nat /\ k >= 2
      BY <1>1, <3>1 DEF Least
    <3> HIDE DEF k
    <3>4. Budget(Len(ops), k) \in Int /\ Budget(Len(ops), n) \in Int
      BY <1>1, <3>3, BudgetIsNatural
    <3>5. asked + Budget(Len(ops), n) <= Limit + (NumChunks + i - 1) /\ i <= NumChunks + 1
      BY <3>1 DEF CostInv, AskedHere
    <3>6. asked' + Budget(Len(ops), k) <= Limit
      <4>1. NumChunks \in Nat
        BY <1>1 DEF NumChunks, Least
      <4>2. QED
        BY <1>1, <1>2, <2>2, <3>1, <3>2, <3>4, <3>5, <4>1
    <3>7. /\ phase' = "enter" /\ i' = 1 /\ AskedHere' = 0
          /\ Budget(Len(ops), n)' = Budget(Len(ops), k)
      BY <3>1 DEF Recurse, AskedHere, Budget, Pronic
    <3>8. QED
      BY <1>2, <2>2, <3>6, <3>7 DEF CostInv
  <2>12. CASE Finish
    <3>1. /\ phase = "complement" /\ i > NumChunks /\ Len(ops) >= 2
          /\ phase' = "done" /\ asked' = asked
      BY <1>1, <2>1, <2>12 DEF Finish, Asks, NumChunks, Least
    <3>2. asked + Budget(Len(ops), n) <= Limit + (NumChunks + i - 1) /\ i <= NumChunks + 1
      BY <3>1 DEF CostInv, AskedHere
    <3>3. Budget(Len(ops), n) \in Nat /\ 2 * NumChunks <= Budget(Len(ops), n)
      BY <1>1, <3>1, BudgetCoversLevel DEF NumChunks
    <3>4. NumChunks \in Nat
      BY <1>1 DEF NumChunks, Least
    <3>5. asked' <= Limit
      BY <1>1, <1>2, <2>2, <3>1, <3>2, <3>3, <3>4
    <3>6. QED
      BY <2>2, <3>1, <3>5 DEF CostInv
  <2>13. QED
    BY <2>1, <2>3, <2>4, <2>5, <2>6, <2>7, <2>8, <2>9, <2>10, <2>11, <2>12 DEF Step
<1>5. QED
  BY <1>3, <1>4

\* Minimization stays within a quadratic number of checker calls, for every
\* history and whatever the checks under their timeouts answer.
THEOREM QuadraticCost == CountingSpec => []QuadraticCalls
<1>1. SearchInv /\ CostInv => QuadraticCalls
  <2> SUFFICES ASSUME SearchInv, CostInv
               PROVE  asked <= Limit
    BY DEF QuadraticCalls, Limit
  <2>1. /\ ops \in Seq(Op) /\ n \in Nat /\ n >= 2 /\ i \in Nat \ {0} /\ asked \in Nat
        /\ Len(ops) \in Nat /\ Len(h.ops) \in Nat /\ phase \in Phases
        /\ phase \in {"subset", "complement"} => Len(ops) >= 2
    BY DEF SearchInv, TypeOK, CostInv
  <2>2. Limit \in Nat
    BY <2>1, LimitIsNatural
  <2>3. CASE phase = "start" \/ phase = "done"
    BY <2>2, <2>3 DEF CostInv
  <2>4. CASE phase = "enter"
    <3>1. asked + Budget(Len(ops), n) <= Limit
      BY <2>2, <2>4 DEF CostInv, AskedHere
    <3>2. Budget(Len(ops), n) \in Nat
      BY <2>1, BudgetIsNatural
    <3>3. QED
      BY <2>1, <2>2, <3>1, <3>2
  <2>5. CASE phase \in {"subset", "complement"}
    <3>1. asked + Budget(Len(ops), n) <= Limit + AskedHere
      BY <2>5 DEF CostInv
    <3>2. Budget(Len(ops), n) \in Nat /\ 2 * NumChunks <= Budget(Len(ops), n)
      BY <2>1, <2>5, BudgetCoversLevel DEF NumChunks
    <3>3. AskedHere \in Nat /\ AskedHere <= 2 * NumChunks /\ NumChunks \in Nat
      BY <2>1, <2>5 DEF CostInv, AskedHere, NumChunks, Least
    <3>4. QED
      BY <2>1, <2>2, <3>1, <3>2, <3>3
  <2>6. QED
    BY <2>1, <2>3, <2>4, <2>5 DEF Phases
<1>2. QED
  BY <1>1, CountingImplies, InitCostInv, NextCostInv, PTL DEF CountingSpec
=============================================================================
