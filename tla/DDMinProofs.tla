---------------------------- MODULE DDMinProofs -----------------------------
(***************************************************************************)
(* Proofs about DDMin, for every set of operations, every set of calls and *)
(* every predicate, consistent in its answers or not.                      *)
(***************************************************************************)
EXTENDS DDMin, TLAPS

-----------------------------------------------------------------------------
(* Subsequences *)

LEMMA SubsequenceReflexive ==
    ASSUME NEW S, NEW s \in Seq(S)
    PROVE  IsSubsequence(s, s)
<1> DEFINE f == [a \in 1..Len(s) |-> a]
<1>1. Embeds(f, s, s)
  BY DEF Embeds
<1>2. QED
  BY <1>1 DEF IsSubsequence, Embeds

LEMMA SubsequenceTransitive ==
    ASSUME NEW S, NEW s \in Seq(S), NEW t \in Seq(S), NEW u \in Seq(S),
           IsSubsequence(s, t), IsSubsequence(t, u)
    PROVE  IsSubsequence(s, u)
<1>1. PICK f \in [1..Len(s) -> 1..Len(t)] : Embeds(f, s, t)
  BY DEF IsSubsequence
<1>2. PICK g \in [1..Len(t) -> 1..Len(u)] : Embeds(g, t, u)
  BY DEF IsSubsequence
<1> DEFINE k == [a \in 1..Len(s) |-> g[f[a]]]
<1>3. k \in [1..Len(s) -> 1..Len(u)]
  OBVIOUS
<1>4. Embeds(k, s, u)
  <2>1. \A a, b \in 1..Len(s) : a < b => k[a] < k[b]
    BY <1>1, <1>2 DEF Embeds
  <2>2. \A a \in 1..Len(s) : s[a] = u[k[a]]
    BY <1>1, <1>2 DEF Embeds
  <2>3. QED
    BY <1>3, <2>1, <2>2 DEF Embeds
<1>5. QED
  BY <1>3, <1>4 DEF IsSubsequence

\* A slice of s is a subsequence of it.
LEMMA SliceIsSubsequence ==
    ASSUME NEW S, NEW s \in Seq(S), NEW a \in Nat, NEW b \in Nat,
           a <= b, b <= Len(s)
    PROVE  /\ SubSeq(s, a + 1, b) \in Seq(S)
           /\ Len(SubSeq(s, a + 1, b)) = b - a
           /\ IsSubsequence(SubSeq(s, a + 1, b), s)
<1> DEFINE t == SubSeq(s, a + 1, b)
           f == [j \in 1..(b - a) |-> a + j]
<1>1. t \in Seq(S) /\ Len(t) = b - a
  OBVIOUS
<1>2. \A j \in 1..(b - a) : t[j] = s[a + j]
  OBVIOUS
<1>3. f \in [1..Len(t) -> 1..Len(s)]
  BY <1>1
<1>4. Embeds(f, t, s)
  BY <1>1, <1>2, <1>3 DEF Embeds
<1>5. QED
  BY <1>1, <1>3, <1>4 DEF IsSubsequence

\* s without the positions a+1 .. b is a subsequence of it.
LEMMA ExciseIsSubsequence ==
    ASSUME NEW S, NEW s \in Seq(S), NEW a \in Nat, NEW b \in Nat,
           a <= b, b <= Len(s)
    PROVE  /\ Excise(s, a, b) \in Seq(S)
           /\ Len(Excise(s, a, b)) = Len(s) - (b - a)
           /\ IsSubsequence(Excise(s, a, b), s)
<1> DEFINE t == Excise(s, a, b)
           p == SubSeq(s, 1, a)
           q == SubSeq(s, b + 1, Len(s))
           f == [j \in 1..(Len(s) - (b - a)) |-> IF j <= a THEN j ELSE j + (b - a)]
<1>1. /\ p \in Seq(S) /\ Len(p) = a
      /\ \A j \in 1..a : p[j] = s[j]
  OBVIOUS
<1>2. /\ q \in Seq(S) /\ Len(q) = Len(s) - b
      /\ \A j \in 1..(Len(s) - b) : q[j] = s[b + j]
  OBVIOUS
<1>3. t = p \o q
  BY DEF Excise
<1>4. t \in Seq(S) /\ Len(t) = Len(s) - (b - a)
  BY <1>1, <1>2, <1>3
<1>a. \A j \in 1..Len(t) : t[j] = IF j <= a THEN p[j] ELSE q[j - a]
  <2> HIDE DEF t, p, q
  <2> QED
    BY <1>1, <1>2, <1>3, <1>4
<1>5. \A j \in 1..Len(t) : t[j] = s[f[j]]
  <2> SUFFICES ASSUME NEW j \in 1..Len(t)
               PROVE  t[j] = s[f[j]]
    OBVIOUS
  <2> HIDE DEF t, p, q
  <2>1. CASE j <= a
    BY <1>1, <1>4, <1>a, <2>1
  <2>2. CASE j > a
    <3>1. t[j] = q[j - a] /\ j - a \in 1..(Len(s) - b)
      BY SMTT(30), <1>4, <1>a, <2>2
    <3>2. q[j - a] = s[b + (j - a)]
      BY <1>2, <3>1
    <3>3. f[j] = j + (b - a)
      BY <1>4, <2>2
    <3>4. b + (j - a) = j + (b - a)
      BY <1>4
    <3>5. QED
      BY <3>1, <3>2, <3>3, <3>4
  <2>3. QED
    BY <1>4, <2>1, <2>2
<1>6. f \in [1..Len(t) -> 1..Len(s)]
  BY <1>4
<1>7. \A j, l \in 1..Len(t) : j < l => f[j] < f[l]
  BY <1>4
<1>8. QED
  BY <1>4, <1>5, <1>6, <1>7 DEF IsSubsequence, Embeds

-----------------------------------------------------------------------------
(* Arithmetic of splitChunks *)

LEMMA Multiples ==
    ASSUME NEW k \in Nat, NEW m \in Nat, NEW b \in Nat, k <= m, 1 <= b
    PROVE  /\ k * b \in Nat /\ k <= k * b
           /\ m * b = k * b + (m - k) * b
           /\ m - k <= (m - k) * b
<1>1. \A j \in Nat : j * b \in Nat /\ j <= j * b
  OBVIOUS
<1>2. m - k \in Nat
  OBVIOUS
<1>3. m * b = k * b + (m - k) * b
  OBVIOUS
<1>4. QED
  BY <1>1, <1>2, <1>3

LEMMA Division ==
    ASSUME NEW len \in Nat, NEW d \in Nat, 1 <= d, d <= len
    PROVE  /\ len \div d \in Nat /\ 1 <= len \div d
           /\ len % d \in 0..(d - 1)
           /\ len = d * (len \div d) + (len % d)
<1> DEFINE quotient == len \div d
           rest == len % d
<1>1. rest \in 0..(d - 1) /\ quotient \in Int
  OBVIOUS
<1>2. rest = len - d * quotient
  BY SMTT(30)
<1> HIDE DEF quotient, rest
<1>3. len = d * quotient + rest
  BY <1>1, <1>2
<1>4. quotient \in Nat /\ 1 <= quotient
  <2>1. SUFFICES ASSUME quotient <= 0
                 PROVE  FALSE
    BY <1>1
  <2>2. d * quotient <= 0
    BY <1>1, <2>1
  <2>3. QED
    BY <1>1, <1>3, <2>2
<1>5. QED
  BY <1>1, <1>3, <1>4 DEF quotient, rest

\* The k-th cut leaves room for k chunks before it and NumChunks - k after it.
LEMMA CutBounds ==
    ASSUME ops \in Seq(Op), Len(ops) >= 2, n \in Nat, n >= 2
    PROVE  /\ NumChunks \in 2..Len(ops)
           /\ Cut(0) = 0
           /\ Cut(NumChunks) = Len(ops)
           /\ \A k \in 0..NumChunks : Cut(k) \in k..(Len(ops) - (NumChunks - k))
           /\ \A k \in 1..NumChunks : Cut(k - 1) < Cut(k)
<1> DEFINE N == NumChunks
           base == Len(ops) \div N
           extra == Len(ops) % N
<1>1. N \in 2..Len(ops)
  BY DEF NumChunks, Least
<1>2. /\ base \in Nat /\ 1 <= base
      /\ extra \in 0..(N - 1)
      /\ Len(ops) = N * base + extra
  <2>1. Len(ops) \in Nat /\ N \in Nat /\ 1 <= N /\ N <= Len(ops)
    BY <1>1
  <2> HIDE DEF N
  <2>2. QED
    BY <2>1, Division
<1>3. \A k \in 0..N : Cut(k) = k * base + Least(k, extra)
  BY Zenon DEF Cut
<1> HIDE DEF N, base, extra
<1>4. \A k \in 0..N : /\ k * base \in Nat /\ k <= k * base
                      /\ N * base = k * base + (N - k) * base
                      /\ N - k <= (N - k) * base
  <2> SUFFICES ASSUME NEW k \in 0..N
               PROVE  /\ k * base \in Nat /\ k <= k * base
                      /\ N * base = k * base + (N - k) * base
                      /\ N - k <= (N - k) * base
    OBVIOUS
  <2>1. k \in Nat /\ N \in Nat /\ k <= N
    BY <1>1
  <2>2. QED
    BY <1>2, <2>1, Multiples
<1>5. \A k \in 0..N : Cut(k) \in k..(Len(ops) - (N - k))
  <2> SUFFICES ASSUME NEW k \in 0..N
               PROVE  Cut(k) \in k..(Len(ops) - (N - k))
    OBVIOUS
  <2> DEFINE kb == k * base
             rb == (N - k) * base
             nb == N * base
  <2>1. /\ kb \in Nat /\ k <= kb /\ nb = kb + rb /\ N - k <= rb
        /\ Len(ops) = nb + extra
        /\ Cut(k) = kb + Least(k, extra)
    BY <1>2, <1>3, <1>4
  <2>2. rb \in Int /\ nb \in Int
    BY <1>1, <1>2
  <2> HIDE DEF kb, rb, nb
  <2>3. QED
    BY <1>1, <1>2, <2>1, <2>2 DEF Least
<1>6. \A k \in 1..N : Cut(k - 1) < Cut(k)
  <2> SUFFICES ASSUME NEW k \in 1..N
               PROVE  Cut(k - 1) < Cut(k)
    OBVIOUS
  <2> DEFINE kb == k * base
             jb == (k - 1) * base
  <2>1. jb \in Nat /\ kb = jb + base
    BY <1>1, <1>2
  <2>2. Cut(k) = kb + Least(k, extra) /\ Cut(k - 1) = jb + Least(k - 1, extra)
    BY <1>1, <1>3
  <2> HIDE DEF kb, jb
  <2>3. QED
    BY <1>1, <1>2, <2>1, <2>2 DEF Least
<1>7. Cut(0) = 0 /\ Cut(N) = Len(ops)
  <2>1. Cut(0) = 0
    BY <1>1, <1>2, <1>3 DEF Least
  <2>2. Cut(N) = Len(ops)
    BY <1>1, <1>2, <1>3 DEF Least
  <2>3. QED
    BY <2>1, <2>2
<1>8. QED
  BY <1>1, <1>5, <1>6, <1>7 DEF N

\* When chunks are single operations, the k-th complement lacks the k-th one.
LEMMA SingleChunks ==
    ASSUME ops \in Seq(Op), Len(ops) >= 2, n \in Nat, n >= Len(ops)
    PROVE  /\ NumChunks = Len(ops)
           /\ \A k \in 1..Len(ops) : Complement(k) = Without(ops, k)
<1>1. NumChunks = Len(ops)
  BY DEF NumChunks, Least
<1>2. \A k \in 0..Len(ops) : Cut(k) = k
  <2>1. \A k \in 0..NumChunks : Cut(k) \in k..(Len(ops) - (NumChunks - k))
    BY CutBounds
  <2>2. QED
    BY <1>1, <2>1
<1>3. \A k \in 1..Len(ops) : Cut(k - 1) = k - 1
  BY <1>2
<1>4. QED
  BY <1>1, <1>2, <1>3 DEF Complement, Without

\* What the two loops ask about: proper, non-empty subsequences of ops.
LEMMA Pieces ==
    ASSUME ops \in Seq(Op), Len(ops) >= 2, n \in Nat, n >= 2,
           NEW k \in 1..NumChunks
    PROVE  /\ Chunk(k) \in Seq(Op) /\ Len(Chunk(k)) \in 1..(Len(ops) - 1)
           /\ IsSubsequence(Chunk(k), ops)
           /\ Complement(k) \in Seq(Op) /\ Len(Complement(k)) \in 1..(Len(ops) - 1)
           /\ IsSubsequence(Complement(k), ops)
<1> DEFINE a == Cut(k - 1)
           b == Cut(k)
<1>1. /\ NumChunks \in 2..Len(ops)
      /\ a \in (k - 1)..(Len(ops) - (NumChunks - (k - 1)))
      /\ b \in k..(Len(ops) - (NumChunks - k))
      /\ a < b
  BY CutBounds
<1>2. Chunk(k) = SubSeq(ops, a + 1, b) /\ Complement(k) = Excise(ops, a, b)
  BY DEF Chunk, Complement
<1> HIDE DEF a, b
<1>3. /\ a \in Nat /\ b \in Nat /\ b <= Len(ops)
      /\ a <= b /\ b - a \in 1..(Len(ops) - 1)
  BY <1>1
<1>4. /\ Chunk(k) \in Seq(Op) /\ Len(Chunk(k)) = b - a
      /\ IsSubsequence(Chunk(k), ops)
  BY <1>1, <1>2, <1>3, SliceIsSubsequence
<1>5. /\ Complement(k) \in Seq(Op) /\ Len(Complement(k)) = Len(ops) - (b - a)
      /\ IsSubsequence(Complement(k), ops)
  <2>1. /\ Excise(ops, a, b) \in Seq(Op)
        /\ Len(Excise(ops, a, b)) = Len(ops) - (b - a)
        /\ IsSubsequence(Excise(ops, a, b), ops)
    BY <1>3, ExciseIsSubsequence
  <2>2. QED
    BY <1>2, <2>1
<1>6. Len(Chunk(k)) \in 1..(Len(ops) - 1)
  BY <1>3, <1>4
<1>7. Len(Complement(k)) \in 1..(Len(ops) - 1)
  BY <1>3, <1>5
<1>8. QED
  BY <1>4, <1>5, <1>6, <1>7

-----------------------------------------------------------------------------
(* The inductive invariant *)

LEMMA InitSearchInv == Init => SearchInv
<1> SUFFICES ASSUME Init
             PROVE  SearchInv
  OBVIOUS
<1>1. h.ops \in Seq(Op) /\ ops = h.ops /\ n = 2 /\ phase = "start" /\ i = 1
  BY CallsAssumption DEF Init, Begin
<1>2. TypeOK
  BY <1>1 DEF TypeOK, Phases
<1>3. IsSubsequence(ops, h.ops)
  BY <1>1, SubsequenceReflexive
<1>4. QED
  BY <1>1, <1>2, <1>3 DEF SearchInv, StillFails, OneMinimalResult

\* A recursive call keeps the invariant when what it is given is left of ops
\* and either is the whole history or has been answered true.
LEMMA RecurseKeepsInv ==
    ASSUME SearchInv, UNCHANGED args,
           NEW s \in Seq(Op), NEW k \in Nat, k >= 2, Recurse(s, k),
           IsSubsequence(s, ops), s = h.ops \/ MayHold(s)
    PROVE  SearchInv'
<1>1. ops' = s /\ n' = k /\ phase' = "enter" /\ i' = 1 /\ h' = h /\ pred' = pred
  BY DEF Recurse, args
<1>2. TypeOK'
  BY <1>1 DEF SearchInv, TypeOK, Phases
<1>3. StillFails'
  <2>1. IsSubsequence(s, h.ops)
    BY SubsequenceTransitive DEF SearchInv, TypeOK, StillFails
  <2>2. QED
    BY <1>1, <2>1 DEF StillFails, MayHold, wrap
<1>4. QED
  BY <1>1, <1>2, <1>3 DEF SearchInv, OneMinimalResult

\* A step that only moves the control and the index of the loop.
LEMMA StayKeepsStillFails ==
    ASSUME SearchInv, UNCHANGED <<args, ops, n>>, phase # "start" \/ phase' = "done"
    PROVE  StillFails'
  BY DEF SearchInv, StillFails, MayHold, wrap, args

LEMMA NextSearchInv == SearchInv /\ [Next]_vars => SearchInv'
<1> SUFFICES ASSUME SearchInv, [Next]_vars
             PROVE  SearchInv'
  OBVIOUS
<1> USE DEF SearchInv
<1>1. CASE GiveUp /\ UNCHANGED args
  BY <1>1, StayKeepsStillFails
     DEF GiveUp, args, TypeOK, Phases, OneMinimalResult, MayFail, wrap
<1>2. CASE Start /\ UNCHANGED args
  <2>1. Recurse(ops, 2) /\ IsSubsequence(ops, ops) /\ ops \in Seq(Op) /\ ops = h.ops
    BY <1>2, SubsequenceReflexive DEF Start, TypeOK
  <2>2. QED
    BY <1>2, <2>1, RecurseKeepsInv
<1>3. CASE Enter /\ UNCHANGED args
  <2>1. StillFails'
    BY <1>3, StayKeepsStillFails DEF Enter
  <2>2. TypeOK'
    BY <1>3 DEF Enter, args, TypeOK, Phases
  <2>3. Len(ops) \in Nat
    BY DEF TypeOK
  <2>4. QED
    BY <1>3, <2>1, <2>2, <2>3 DEF Enter, args, OneMinimalResult
<1>4. CASE KeepChunk /\ UNCHANGED args
  <2>1. /\ Chunk(i) \in Seq(Op) /\ IsSubsequence(Chunk(i), ops)
        /\ Recurse(Chunk(i), 2) /\ MayHold(Chunk(i))
    BY <1>4, Pieces, CutBounds DEF KeepChunk, TypeOK
  <2>2. QED
    BY <1>4, <2>1, RecurseKeepsInv
<1>5. CASE PassChunk /\ UNCHANGED args
  <2>1. StillFails'
    BY <1>5, StayKeepsStillFails DEF PassChunk
  <2>2. TypeOK'
    BY <1>5 DEF PassChunk, args, TypeOK
  <2>3. QED
    BY <1>5, <2>1, <2>2 DEF PassChunk, OneMinimalResult
<1>6. CASE ChunksTried /\ UNCHANGED args
  <2>1. StillFails'
    BY <1>6, StayKeepsStillFails DEF ChunksTried
  <2>2. TypeOK'
    BY <1>6 DEF ChunksTried, args, TypeOK, Phases
  <2>3. (\A k \in 1..NumChunks : k < i => MayFail(Complement(k)))'
    BY <1>6 DEF ChunksTried
  <2>4. QED
    BY <1>6, <2>1, <2>2, <2>3 DEF ChunksTried, OneMinimalResult
<1>7. CASE DropChunk /\ UNCHANGED args
  <2>1. /\ Complement(i) \in Seq(Op) /\ IsSubsequence(Complement(i), ops)
        /\ Recurse(Complement(i), IF n - 1 < 2 THEN 2 ELSE n - 1)
        /\ MayHold(Complement(i))
    BY <1>7, Pieces, CutBounds DEF DropChunk, TypeOK
  <2>2. (IF n - 1 < 2 THEN 2 ELSE n - 1) \in Nat /\ (IF n - 1 < 2 THEN 2 ELSE n - 1) >= 2
    BY DEF TypeOK
  <2>3. QED
    BY <1>7, <2>1, <2>2, RecurseKeepsInv
<1>8. CASE PassComplement /\ UNCHANGED args
  <2>1. StillFails'
    BY <1>8, StayKeepsStillFails DEF PassComplement
  <2>2. TypeOK'
    BY <1>8 DEF PassComplement, args, TypeOK
  <2>3. MayFail(Complement(i))
    <3>1. Candidate(Complement(i))
      BY SMTT(30), <1>8, Pieces, CutBounds DEF PassComplement, TypeOK, Candidate
    <3>2. QED
      BY <1>8, <3>1 DEF PassComplement
  <2>4. \A k \in 1..NumChunks : k < i' => MayFail(Complement(k))
    BY <1>8, <2>3 DEF PassComplement, TypeOK
  <2>5. (\A k \in 1..NumChunks : k < i => MayFail(Complement(k)))'
    BY <1>8, <2>4 DEF PassComplement, args, NumChunks, Complement, Cut, MayFail, wrap
  <2>6. QED
    BY <1>8, <2>1, <2>2, <2>5 DEF PassComplement, OneMinimalResult
<1>9. CASE Refine /\ UNCHANGED args
  <2>1. /\ ops \in Seq(Op) /\ IsSubsequence(ops, ops)
        /\ ops = h.ops \/ MayHold(ops)
    BY <1>9, SubsequenceReflexive DEF Refine, TypeOK, StillFails
  <2>2. Least(2 * n, Len(ops)) \in Nat /\ Least(2 * n, Len(ops)) >= 2
    BY <1>9 DEF Refine, TypeOK, Least
  <2>3. QED
    BY <1>9, <2>1, <2>2, RecurseKeepsInv DEF Refine
<1>10. CASE Finish /\ UNCHANGED args
  <2>1. StillFails'
    BY <1>10, StayKeepsStillFails DEF Finish
  <2>2. TypeOK'
    BY <1>10 DEF Finish, args, TypeOK, Phases
  <2>3. \A k \in 1..Len(ops) : MayFail(Without(ops, k))
    <3>1. /\ NumChunks = Len(ops)
          /\ \A k \in 1..Len(ops) : Complement(k) = Without(ops, k)
      BY <1>10, SingleChunks DEF Finish, TypeOK
    <3>2. \A k \in 1..Len(ops) : MayFail(Complement(k))
      BY <1>10, <3>1 DEF Finish, TypeOK
    <3>3. QED
      BY <3>1, <3>2
  <2>4. OneMinimalResult'
    BY <1>10, <2>3 DEF Finish, args, OneMinimalResult, MayFail, wrap
  <2>5. QED
    BY <1>10, <2>1, <2>2, <2>4 DEF Finish
<1>11. CASE UNCHANGED vars
  BY <1>11 DEF vars, TypeOK, StillFails, OneMinimalResult, NumChunks, Complement,
               Cut, MayHold, MayFail, wrap
<1>12. QED
  BY <1>1, <1>2, <1>3, <1>4, <1>5, <1>6, <1>7, <1>8, <1>9, <1>10, <1>11
     DEF Next, Step

\* What the search relies on holds in every state of every call.
THEOREM SearchInvariant == Spec => []SearchInv
<1>1. QED
  BY InitSearchInv, NextSearchInv, PTL DEF Spec

-----------------------------------------------------------------------------
(* What follows from it *)

\* Type correctness of ddmin: the granularity stays 2 or more, and what is
\* kept is always a sequence of operations.
THEOREM TypeCorrect == Spec => []TypeOK
<1>1. SearchInv => TypeOK
  BY DEF SearchInv
<1>2. QED
  BY <1>1, SearchInvariant, PTL

\* splitChunks partitions whatever ddmin is left with, at every granularity:
\* both loops always have proper, non-empty parts to ask the predicate about.
THEOREM ChunksCover == Spec => []ChunksPartition
<1>1. SearchInv => ChunksPartition
  <2> SUFFICES ASSUME SearchInv, phase \in {"subset", "complement"}
               PROVE  /\ Cut(0) = 0
                      /\ Cut(NumChunks) = Len(ops)
                      /\ \A k \in 1..NumChunks :
                            Candidate(Chunk(k)) /\ Candidate(Complement(k))
    BY DEF ChunksPartition
  <2>1. ops \in Seq(Op) /\ Len(ops) >= 2 /\ n \in Nat /\ n >= 2
    BY DEF SearchInv, TypeOK
  <2>2. \A k \in 1..NumChunks : Candidate(Chunk(k)) /\ Candidate(Complement(k))
    BY <2>1, Pieces DEF Candidate
  <2>3. QED
    BY <2>1, <2>2, CutBounds
<1>2. QED
  BY <1>1, SearchInvariant, PTL

\* The result of ddmin is one-minimal: of what it returns after a search, the
\* predicate may refuse every sub-history that lacks a single operation.
THEOREM OneMinimality == Spec => []OneMinimalResult
<1>1. SearchInv => OneMinimalResult
  BY DEF SearchInv
<1>2. QED
  BY <1>1, SearchInvariant, PTL

-----------------------------------------------------------------------------
(* The detailed search implements the abstract minimizer *)

LEMMA SameSubsequence ==
    \A s, t : IsSubsequence(s, t) => Abstract!IsSubsequence(s, t)
  BY DEF IsSubsequence, Embeds, Abstract!IsSubsequence, Abstract!Embeds

\* Replacing the operations by a failing proper part of them is a Shrink.
LEMMA RecurseShrinks ==
    ASSUME UNCHANGED args, phase # "done",
           NEW s, NEW k, Recurse(s, k), MayHold(s),
           Len(s) \in 1..(Len(ops) - 1), IsSubsequence(s, ops)
    PROVE  Abstract!Shrink
<1>1. ops' = s /\ phase' = "enter" /\ h' = h /\ pred' = pred
  BY DEF Recurse, args
<1>2. Abstract!IsSubsequence(ops', ops)
  BY <1>1, SameSubsequence
<1>3. Abstract!MayHold(ops')
  BY <1>1 DEF MayHold, wrap, Abstract!MayHold
<1>4. QED
  BY <1>1, <1>2, <1>3 DEF Abstract!Shrink

LEMMA NextImplements == SearchInv /\ [Next]_vars => [Abstract!Next]_(Abstract!vars)
<1> SUFFICES ASSUME SearchInv, [Next]_vars
             PROVE  [Abstract!Next]_(Abstract!vars)
  OBVIOUS
<1>0. TypeOK
  BY DEF SearchInv
<1>1. CASE GiveUp /\ UNCHANGED args
  <2>1. Len(ops) < 2 \/ (ops = h.ops /\ Abstract!MayFail(ops))
    BY <1>1 DEF GiveUp, SearchInv, MayFail, wrap, Abstract!MayFail
  <2>2. QED
    BY <1>1, <2>1 DEF GiveUp, args, Abstract!Next, Abstract!Return
<1>2. CASE (Start \/ ChunksTried \/ PassChunk \/ PassComplement \/ Refine) /\ UNCHANGED args
  BY <1>2 DEF Start, ChunksTried, PassChunk, PassComplement, Refine, Recurse, args,
              Abstract!vars
<1>3. CASE Enter /\ UNCHANGED args
  <2>1. CASE Len(ops) < 2
    BY <1>3, <2>1 DEF Enter, args, Abstract!Next, Abstract!Return
  <2>2. CASE ~(Len(ops) < 2)
    BY <1>3, <2>2 DEF Enter, args, Abstract!vars
  <2>3. QED
    BY <2>1, <2>2
<1>4. CASE KeepChunk /\ UNCHANGED args
  <2>1. Len(Chunk(i)) \in 1..(Len(ops) - 1) /\ IsSubsequence(Chunk(i), ops)
    BY <1>0, <1>4, Pieces DEF KeepChunk, SearchInv, TypeOK
  <2>2. Abstract!Shrink
    BY <1>4, <2>1, RecurseShrinks DEF KeepChunk
  <2>3. QED
    BY <2>2 DEF Abstract!Next
<1>5. CASE DropChunk /\ UNCHANGED args
  <2>1. Len(Complement(i)) \in 1..(Len(ops) - 1) /\ IsSubsequence(Complement(i), ops)
    BY <1>0, <1>5, Pieces DEF DropChunk, SearchInv, TypeOK
  <2>2. Abstract!Shrink
    BY <1>5, <2>1, RecurseShrinks DEF DropChunk
  <2>3. QED
    BY <2>2 DEF Abstract!Next
<1>6. CASE Finish /\ UNCHANGED args
  <2>1. ops' = ops /\ h' = h /\ pred' = pred /\ phase = "complement" /\ phase' = "done"
    BY <1>6 DEF Finish, args
  <2>2. \A k \in 1..Len(ops) : MayFail(Without(ops, k))
    <3>1. /\ NumChunks = Len(ops)
          /\ \A k \in 1..Len(ops) : Complement(k) = Without(ops, k)
      BY <1>0, <1>6, SingleChunks DEF Finish, SearchInv, TypeOK
    <3>2. \A k \in 1..Len(ops) : MayFail(Complement(k))
      BY <1>0, <1>6, <3>1 DEF Finish, SearchInv, TypeOK
    <3>3. QED
      BY <3>1, <3>2
  <2>3. Abstract!OneMinimal
    BY <2>2 DEF MayFail, wrap, Without, Excise,
                Abstract!OneMinimal, Abstract!MayFail, Abstract!Without, Abstract!Excise
  <2>4. QED
    BY <2>1, <2>3 DEF Abstract!Next, Abstract!Return
<1>7. CASE UNCHANGED vars
  BY <1>7 DEF vars, Abstract!vars
<1>8. QED
  BY <1>1, <1>2, <1>3, <1>4, <1>5, <1>6, <1>7 DEF Next, Step

\* Every call of ddmin is a call the abstract Minimizer allows: whatever the
\* predicate answers, the search only ever moves to failing proper
\* subsequences, and returns at a one-minimal one.
THEOREM Implementation == Spec => ImplementsMinimizer
<1>1. Init => Abstract!Init
  BY DEF Init, Begin, Abstract!Init
<1>2. QED
  BY <1>1, NextImplements, SearchInvariant, PTL DEF Spec, ImplementsMinimizer, Abstract!Spec
=============================================================================
