--------------------------- MODULE SequenceLemmas ---------------------------
(***************************************************************************)
(* What the proofs need to know of sequences and of the folds over them,   *)
(* of the sort by the calls that is one of these folds, of numbering a     *)
(* finite set in an order, of sums over finite sets, and of histories of   *)
(* one object whose operations took effect at one moment each.             *)
(***************************************************************************)
EXTENDS Linearizability, Integers, SequencesExt, FiniteSetsExt, WellFoundedInduction,
        FiniteSetTheorems, TLAPS

LEMMA Smallest ==
    ASSUME NEW T \in SUBSET Nat, T # {}
    PROVE  \E x \in T : \A y \in T : x <= y
<1>1. IsWellFoundedOn(OpToRel(<, Nat), Nat)
  BY NatLessThanWellFounded
<1>2. PICK x \in T : \A y \in T : <<y, x>> \notin OpToRel(<, Nat)
  BY <1>1, WFMin
<1>3. \A y \in T : ~(y < x)
  BY <1>2 DEF OpToRel
<1>4. QED
  BY <1>3

LEMMA LeastOf ==
    ASSUME NEW P \in SUBSET Nat, P # {}
    PROVE  Min(P) \in P
<1>1. PICK x \in P : \A y \in P : x <= y
  BY Smallest
<1>2. QED
  BY <1>1 DEF Min

\* Induction up to n, over the numbers of which something holds.
LEMMA UpTo ==
    ASSUME NEW n \in Nat, NEW T, 0 \in T, \A k \in 1..n : k - 1 \in T => k \in T
    PROVE  0..n \subseteq T
<1> DEFINE Bad == {k \in 0..n : k \notin T}
<1>1. SUFFICES ASSUME Bad # {}
               PROVE  FALSE
  OBVIOUS
<1>2. PICK m \in Bad : \A y \in Bad : m <= y
  <2>1. Bad \in SUBSET Nat
    OBVIOUS
  <2>2. QED
    BY <1>1, <2>1, Smallest
<1>3. m # 0 /\ m \in 1..n /\ m \notin T
  BY <1>2
<1>4. m - 1 \in 0..n /\ ~(m <= m - 1)
  BY <1>3
<1>5. m - 1 \in T
  BY <1>2, <1>4
<1>6. QED
  BY <1>3, <1>5

\* A sequence without its last element.
LEMMA FrontAndLast ==
    ASSUME NEW R, NEW s \in Seq(R), s # <<>>
    PROVE  /\ Front(s) \in Seq(R) /\ Len(Front(s)) = Len(s) - 1
           /\ \A j \in 1..Len(s) - 1 : Front(s)[j] = s[j]
           /\ Last(s) \in R /\ Last(s) = s[Len(s)]
<1>1. PICK n \in Nat \ {0} : n = Len(s)
  OBVIOUS
<1> DEFINE t == SubSeq(s, 1, n - 1)
<1>2. /\ t \in Seq(R) /\ Len(t) = n - 1
      /\ \A j \in 1..n - 1 : t[j] = s[j]
  BY <1>1
<1>3. s[n] \in R
  BY <1>1
<1>4. QED
  BY <1>1, <1>2, <1>3 DEF Front, Last

LEMMA Concatenation ==
    ASSUME NEW R, NEW a \in Seq(R), NEW b \in Seq(R)
    PROVE  /\ a \o b \in Seq(R) /\ Len(a \o b) = Len(a) + Len(b)
           /\ \A j \in 1..Len(a) : (a \o b)[j] = a[j]
           /\ \A j \in Len(a) + 1..Len(a) + Len(b) : (a \o b)[j] = b[j - Len(a)]
OBVIOUS

\* A sequence without its k-th element.
LEMMA RemoveAtRemoves ==
    ASSUME NEW R, NEW s \in Seq(R), NEW k \in 1..Len(s)
    PROVE  /\ RemoveAt(s, k) \in Seq(R) /\ Len(RemoveAt(s, k)) = Len(s) - 1
           /\ \A j \in 1..k - 1 : RemoveAt(s, k)[j] = s[j]
           /\ \A j \in k..Len(s) - 1 : RemoveAt(s, k)[j] = s[j + 1]
<1>1. PICK n \in Nat : n = Len(s)
  OBVIOUS
<1> DEFINE left == SubSeq(s, 1, k - 1)
           right == SubSeq(s, k + 1, n)
<1>2. /\ left \in Seq(R) /\ Len(left) = k - 1
      /\ \A j \in 1..k - 1 : left[j] = s[j]
  BY <1>1
<1>3. /\ right \in Seq(R) /\ Len(right) = n - k
      /\ \A j \in 1..n - k : right[j] = s[k + j]
  BY <1>1
<1>4. RemoveAt(s, k) = left \o right
  BY <1>1 DEF RemoveAt
<1> DEFINE r == RemoveAt(s, k)
<1> HIDE DEF left, right, r
<1>5. /\ r \in Seq(R) /\ Len(r) = n - 1
      /\ \A j \in 1..k - 1 : r[j] = s[j]
  <2>1. r = left \o right /\ k \in 1..n
    BY <1>1, <1>4 DEF r
  <2>2. /\ r \in Seq(R) /\ Len(r) = Len(left) + Len(right)
        /\ \A j \in 1..Len(left) : r[j] = left[j]
    BY ZenonT(30), <1>2, <1>3, <2>1, Concatenation
  <2>3. Len(r) = n - 1
    BY <1>2, <1>3, <2>1, <2>2
  <2>4. QED
    BY <1>2, <2>2, <2>3
<1>6. ASSUME NEW j \in k..n - 1
      PROVE  r[j] = s[j + 1]
  <2>1. r[j] = right[j - (k - 1)]
    BY <1>1, <1>2, <1>3, <1>4 DEF r
  <2>2. j - (k - 1) \in 1..n - k /\ k + (j - (k - 1)) = j + 1
    BY <1>1
  <2>3. QED
    BY <1>3, <2>1, <2>2
<1>7. QED
  BY <1>1, <1>5, <1>6 DEF r

\* The greatest of some of the numbers up to n.
LEMMA GreatestOf ==
    ASSUME NEW n \in Nat, NEW t \in SUBSET (1..n), t # {}
    PROVE  Max(t) \in t /\ \A y \in t : y <= Max(t)
<1> DEFINE Distances == {n - y : y \in t}
<1>0. \A y \in t : y \in Int /\ n - y \in Nat
  OBVIOUS
<1>1. Distances \in SUBSET Nat /\ Distances # {}
  BY <1>0
<1>2. PICK d \in Distances : \A e \in Distances : d <= e
  BY <1>1, Smallest
<1>3. PICK x \in t : d = n - x
  BY <1>2
<1>4. \A y \in t : x >= y
  <2>1. SUFFICES ASSUME NEW y \in t
                 PROVE  x >= y
    OBVIOUS
  <2>2. n - y \in Distances
    OBVIOUS
  <2>3. n - x <= n - y
    BY <1>2, <1>3, <2>2
  <2>4. QED
    BY <1>0, <2>3
<1>5. QED
  BY <1>0, <1>4 DEF Max

LEMMA GreatestOfInterval ==
    ASSUME NEW k \in Nat, k # 0
    PROVE  Max(1..k) = k
<1>1. 1..k # {} /\ 1..k \in SUBSET (1..k) /\ k \in 1..k
  OBVIOUS
<1>2. Max(1..k) \in 1..k /\ k <= Max(1..k)
  BY <1>1, GreatestOf
<1>3. QED
  BY <1>2

\* The recursion behind FoldLeft, for a step that is a function.
Unfolds(iter, n, base, step) ==
    \A t \in SUBSET (1..n) :
        iter[t] = IF t = {} THEN base ELSE step[<<Max(t), iter[t \ {Max(t)}]>>]

\* The recursion has a solution.
LEMMA FoldExists ==
    ASSUME NEW n \in Nat, NEW A, NEW base \in A, NEW step \in [(1..n) \X A -> A]
    PROVE  \E iter \in [SUBSET (1..n) -> A] : Unfolds(iter, n, base, step)
<1> DEFINE Bad == {m \in 0..n : ~\E f \in [SUBSET (1..m) -> A] : Unfolds(f, m, base, step)}
<1>1. SUFFICES Bad = {}
  <2>1. n \in 0..n /\ n \notin {}
    OBVIOUS
  <2>2. QED
    BY <2>1
<1>2. SUFFICES ASSUME Bad # {}
               PROVE  FALSE
  OBVIOUS
<1>3. PICK m \in Bad : \A y \in Bad : m <= y
  <2>1. Bad \in SUBSET Nat
    OBVIOUS
  <2>2. QED
    BY <1>2, <2>1, Smallest
<1>4. m \in 0..n /\ ~\E f \in [SUBSET (1..m) -> A] : Unfolds(f, m, base, step)
  BY <1>3
<1>5. CASE m = 0
  <2>1. SUBSET (1..m) = {{}}
    BY <1>5
  <2>2. [t \in SUBSET (1..m) |-> base] \in [SUBSET (1..m) -> A]
    OBVIOUS
  <2>3. Unfolds([t \in SUBSET (1..m) |-> base], m, base, step)
    BY <2>1 DEF Unfolds
  <2>4. QED
    BY <1>4, <2>2, <2>3
<1>6. CASE m # 0
  <2>1. m - 1 \in 0..n /\ m - 1 \notin Bad
    <3>1. m - 1 \in 0..n /\ m \in Int /\ ~(m <= m - 1)
      BY <1>4, <1>6
    <3>2. QED
      BY <1>3, <3>1
  <2>2. PICK g \in [SUBSET (1..m - 1) -> A] : Unfolds(g, m - 1, base, step)
    BY <2>1
  <2> DEFINE f == [t \in SUBSET (1..m) |->
                      IF m \in t THEN step[<<m, g[t \ {m}]>>] ELSE g[t]]
  <2>3. \A t \in SUBSET (1..m) :
          /\ m \notin t => t \in SUBSET (1..m - 1)
          /\ t \ {m} \in SUBSET (1..m - 1)
    BY <1>4
  <2>4. f \in [SUBSET (1..m) -> A]
    <3>1. SUFFICES ASSUME NEW t \in SUBSET (1..m)
                   PROVE  (IF m \in t THEN step[<<m, g[t \ {m}]>>] ELSE g[t]) \in A
      OBVIOUS
    <3>2. CASE m \in t
      <4>1. g[t \ {m}] \in A /\ m \in 1..n
        BY <1>4, <1>6, <2>2, <2>3
      <4>2. QED
        BY <3>2, <4>1
    <3>3. CASE m \notin t
      BY <2>2, <2>3, <3>3
    <3>4. QED
      BY <3>2, <3>3
  <2>5. ASSUME NEW t \in SUBSET (1..m)
        PROVE  f[t] = IF t = {} THEN base ELSE step[<<Max(t), f[t \ {Max(t)}]>>]
    <3>1. CASE m \in t
      <4>1. Max(t) = m
        <5>1. m \in Nat /\ t # {}
          BY <1>4, <3>1
        <5>2. Max(t) \in t /\ m <= Max(t)
          BY <3>1, <5>1, GreatestOf
        <5>3. Max(t) \in 1..m
          BY <5>2
        <5>4. QED
          BY <5>1, <5>2, <5>3
      <4>2. t \ {m} \in SUBSET (1..m) /\ m \notin t \ {m}
        OBVIOUS
      <4>3. f[t \ {m}] = g[t \ {m}]
        BY <4>2
      <4>4. QED
        BY <3>1, <4>1, <4>3
    <3>2. CASE m \notin t
      <4>1. t \in SUBSET (1..m - 1) /\ f[t] = g[t]
        BY <2>3, <3>2
      <4>2. CASE t = {}
        BY <2>2, <4>1, <4>2 DEF Unfolds
      <4>3. CASE t # {}
        <5>1. g[t] = step[<<Max(t), g[t \ {Max(t)}]>>]
          BY <2>2, <4>1, <4>3 DEF Unfolds
        <5>2. t \ {Max(t)} \in SUBSET (1..m) /\ m \notin t \ {Max(t)}
          BY <3>2
        <5>3. f[t \ {Max(t)}] = g[t \ {Max(t)}]
          BY <5>2
        <5>4. QED
          BY <4>1, <4>3, <5>1, <5>3
      <4>4. QED
        BY <4>2, <4>3
    <3>3. QED
      BY <3>1, <3>2
  <2> HIDE DEF f
  <2>6. Unfolds(f, m, base, step)
    BY <2>5 DEF Unfolds
  <2>7. QED
    BY <1>4, <2>4, <2>6
<1>7. QED
  BY <1>5, <1>6

\* A function that is defined by recursion over the numbers up to n.
StepsFrom(f, n, base, step) ==
    f[0] = base /\ \A k \in 1..n : f[k] = step[<<k, f[k - 1]>>]

LEMMA RecursionExists ==
    ASSUME NEW n \in Nat, NEW A, NEW base \in A, NEW step \in [(1..n) \X A -> A]
    PROVE  \E f \in [0..n -> A] : StepsFrom(f, n, base, step)
<1>1. PICK iter \in [SUBSET (1..n) -> A] : Unfolds(iter, n, base, step)
  BY FoldExists
<1> DEFINE f == [k \in 0..n |-> iter[1..k]]
<1>2. f \in [0..n -> A]
  <2>1. \A k \in 0..n : 1..k \in SUBSET (1..n)
    OBVIOUS
  <2>2. QED
    BY <2>1
<1>3. f[0] = base
  <2>1. 1..0 = {} /\ 1..0 \in SUBSET (1..n)
    OBVIOUS
  <2>2. iter[1..0] = base
    BY <1>1, <2>1 DEF Unfolds
  <2>3. QED
    BY <2>2
<1>4. ASSUME NEW k \in 1..n
      PROVE  f[k] = step[<<k, f[k - 1]>>]
  <2>1. 1..k \in SUBSET (1..n) /\ 1..k # {} /\ k \in Nat /\ k # 0
    OBVIOUS
  <2>2. Max(1..k) = k
    BY <2>1, GreatestOfInterval
  <2>3. (1..k) \ {k} = 1..k - 1
    OBVIOUS
  <2>4. iter[1..k] = step[<<k, iter[1..k - 1]>>]
    BY <1>1, <2>1, <2>2, <2>3 DEF Unfolds
  <2>5. k \in 0..n /\ k - 1 \in 0..n
    OBVIOUS
  <2>6. QED
    BY <2>4, <2>5
<1> HIDE DEF f
<1>5. QED
  BY <1>2, <1>3, <1>4 DEF StepsFrom

-----------------------------------------------------------------------------
(* Sorting by the calls *)

\* The stable sort of the program, of anything that has calls.
SortedByCalls(s) ==
    FoldLeft(LAMBDA sorted, op :
                InsertAt(sorted, SelectLastInSeq(sorted, LAMBDA x : x.call <= op.call) + 1, op),
             <<>>, s)

\* Where it puts x among sorted ones, and what it makes of them.
Place(q, x) == SelectLastInSeq(q, LAMBDA y : y.call <= x.call) + 1

Inserted(q, x) == InsertAt(q, Place(q, x), x)

InOrder(q) == \A a, b \in DOMAIN q : a < b => q[a].call <= q[b].call

DistinctIds(q) == \A a, b \in DOMAIN q : q[a].id = q[b].id => a = b

LEMMA PlaceIsBehind ==
    ASSUME NEW R, NEW q \in Seq(R), NEW x
    PROVE  /\ Place(q, x) \in 1..Len(q) + 1
           /\ Place(q, x) # 1 => q[Place(q, x) - 1].call <= x.call
           /\ \A j \in Place(q, x)..Len(q) : ~(q[j].call <= x.call)
<1> DEFINE n == Len(q)
           I == {j \in 1..n : q[j].call <= x.call}
<1>1. Place(q, x) = (IF I # {} THEN Max(I) ELSE 0) + 1
  BY DEF Place, SelectLastInSeq
<1>2. n \in Nat
  OBVIOUS
<1>3. CASE I = {}
  BY <1>1, <1>2, <1>3
<1>4. CASE I # {}
  <2>1. Max(I) \in I /\ \A y \in I : y <= Max(I)
    BY <1>2, <1>4, GreatestOf
  <2>2. Place(q, x) = Max(I) + 1
    BY <1>1, <1>4
  <2>3. Max(I) \in 1..n /\ q[Max(I)].call <= x.call
    BY <2>1
  <2>4. \A j \in Max(I) + 1..n : j \notin I /\ j \in 1..n
    BY <2>1, <2>3
  <2>5. QED
    BY <1>2, <2>2, <2>3, <2>4
<1>5. QED
  BY <1>3, <1>4

\* new is q with x at p.
IsInsertion(q, x, p, new) ==
    /\ Len(new) = Len(q) + 1
    /\ p \in 1..Len(q) + 1
    /\ new[p] = x
    /\ \A j \in 1..p - 1 : new[j] = q[j]
    /\ \A j \in p + 1..Len(q) + 1 : new[j] = q[j - 1]

LEMMA InsertAtInserts ==
    ASSUME NEW R, NEW q \in Seq(R), NEW x \in R, NEW p \in 1..Len(q) + 1
    PROVE  InsertAt(q, p, x) \in Seq(R) /\ IsInsertion(q, x, p, InsertAt(q, p, x))
<1> DEFINE n == Len(q)
<1>1. p \in 1..n + 1 /\ n \in Nat
  OBVIOUS
<1>2. InsertAt(q, p, x) = SubSeq(q, 1, p - 1) \o <<x>> \o SubSeq(q, p, n)
  BY DEF InsertAt
<1>3. /\ SubSeq(q, 1, p - 1) \in Seq(R) /\ Len(SubSeq(q, 1, p - 1)) = p - 1
      /\ \A j \in 1..p - 1 : SubSeq(q, 1, p - 1)[j] = q[j]
  BY <1>1
<1>4. /\ SubSeq(q, p, n) \in Seq(R) /\ Len(SubSeq(q, p, n)) = n - p + 1
      /\ \A j \in 1..n - p + 1 : SubSeq(q, p, n)[j] = q[p + j - 1]
  BY <1>1
<1> DEFINE left == SubSeq(q, 1, p - 1)
           right == SubSeq(q, p, n)
<1>5. InsertAt(q, p, x) = left \o <<x>> \o right
  BY <1>2
<1> HIDE DEF left, right
<1>6. /\ left \in Seq(R) /\ Len(left) = p - 1 /\ \A j \in 1..p - 1 : left[j] = q[j]
      /\ right \in Seq(R) /\ Len(right) = n - p + 1
      /\ \A j \in 1..n - p + 1 : right[j] = q[p + j - 1]
  BY <1>3, <1>4 DEF left, right
<1> DEFINE mid == left \o <<x>>
<1>6a. /\ mid \in Seq(R) /\ Len(mid) = p /\ mid[p] = x
       /\ \A j \in 1..p - 1 : mid[j] = left[j]
  <2>1. <<x>> \in Seq(R) /\ Len(<<x>>) = 1 /\ <<x>>[1] = x /\ p \in Nat \ {0}
    BY <1>1
  <2> DEFINE one == <<x>>
  <2>2. mid = left \o one
    OBVIOUS
  <2> HIDE DEF one, mid
  <2>3. mid \in Seq(R) /\ Len(mid) = p
    BY <1>6, <2>1, <2>2 DEF one
  <2>4. \A j \in 1..p - 1 : mid[j] = left[j]
    BY <1>6, <2>1, <2>2 DEF one
  <2>5. mid[p] = x
    BY <1>6, <2>1, <2>2, <2>3 DEF one
  <2>6. QED
    BY <2>3, <2>4, <2>5
<1> DEFINE new == InsertAt(q, p, x)
<1>6b. new = mid \o right
  BY <1>5
<1> HIDE DEF mid, new
<1>7. /\ new \in Seq(R) /\ Len(new) = n + 1
      /\ new[p] = x
      /\ \A j \in 1..p - 1 : new[j] = q[j]
  <2>1. /\ new \in Seq(R) /\ Len(new) = Len(mid) + Len(right)
        /\ \A j \in 1..Len(mid) : new[j] = mid[j]
    <3>1. mid \in Seq(R) /\ right \in Seq(R)
      BY <1>6, <1>6a
    <3>2. QED
      BY <1>6b, <3>1, Concatenation
  <2>2. Len(new) = n + 1
    BY <1>1, <1>6, <1>6a, <2>1
  <2>3. \A j \in 1..p : new[j] = mid[j]
    BY <1>6a, <2>1
  <2>4. QED
    BY <1>1, <1>6, <1>6a, <2>1, <2>2, <2>3
<1>8. ASSUME NEW j \in p + 1..n + 1
      PROVE  new[j] = q[j - 1]
  <2>1. new[j] = right[j - p]
    BY <1>1, <1>6, <1>6a, <1>6b
  <2>2. j - p \in 1..n - p + 1 /\ p + (j - p) - 1 = j - 1
    BY <1>1
  <2>3. QED
    BY <1>6, <2>1, <2>2
<1>9. QED
  BY <1>1, <1>7, <1>8 DEF IsInsertion, new

LEMMA InsertedAt ==
    ASSUME NEW R, NEW q \in Seq(R), NEW x \in R
    PROVE  Inserted(q, x) \in Seq(R) /\ IsInsertion(q, x, Place(q, x), Inserted(q, x))
<1> DEFINE p == Place(q, x)
<1>1. p \in 1..Len(q) + 1
  BY PlaceIsBehind
<1> HIDE DEF p
<1>2. InsertAt(q, p, x) \in Seq(R) /\ IsInsertion(q, x, p, InsertAt(q, p, x))
  BY <1>1, InsertAtInserts
<1>3. QED
  BY <1>2 DEF p, Inserted

\* What is known of the sort when it has gone through the first k.
SortedSoFar(s, k, q) ==
    /\ Len(q) = k
    /\ InOrder(q)
    /\ DistinctIds(q)
    /\ \A j \in 1..k : \E i \in 1..k : q[j] = s[i]
    /\ \A i \in 1..k : \E j \in 1..k : q[j] = s[i]

LEMMA InsertKeepsSorted ==
    ASSUME NEW R, \A r \in R : r.call \in Nat, NEW s \in Seq(R), DistinctIds(s),
           NEW k \in 1..Len(s), NEW q \in Seq(R), SortedSoFar(s, k - 1, q)
    PROVE  SortedSoFar(s, k, Inserted(q, s[k]))
<1> DEFINE x == s[k]
           p == Place(q, x)
           new == Inserted(q, x)
<1>1. x \in R /\ Len(q) = k - 1 /\ k \in Nat
  BY DEF SortedSoFar
<1>2. /\ new \in Seq(R) /\ Len(new) = k /\ p \in 1..k
      /\ new[p] = x
      /\ \A j \in 1..p - 1 : new[j] = q[j]
      /\ \A j \in p + 1..k : new[j] = q[j - 1]
  <2>1. Len(q) + 1 = k
    BY <1>1
  <2>2. new \in Seq(R) /\ IsInsertion(q, x, p, new)
    BY <1>1, InsertedAt
  <2> HIDE DEF new, p, x
  <2>3. DOMAIN new = 1..Len(new)
    BY <2>2
  <2>4. QED
    BY <2>1, <2>2 DEF IsInsertion
<1>3. /\ p # 1 => q[p - 1].call <= x.call
      /\ \A j \in p..k - 1 : ~(q[j].call <= x.call)
  BY <1>1, PlaceIsBehind
<1> HIDE DEF new, p, x
<1>4. /\ x.call \in Nat /\ \A j \in 1..k - 1 : q[j].call \in Nat
  BY <1>1
<1>0. DOMAIN q = 1..k - 1
  BY <1>1
<1>5. \A a, b \in 1..k - 1 : a < b => q[a].call <= q[b].call
  BY <1>0 DEF SortedSoFar, InOrder
<1>6. /\ \A j \in 1..p - 1 : q[j].call <= x.call
      /\ \A j \in p..k - 1 : x.call <= q[j].call
  <2>1. ASSUME NEW j \in 1..p - 1
        PROVE  q[j].call <= x.call
    <3>1. p - 1 \in 1..k - 1 /\ j \in 1..k - 1 /\ p # 1
      BY <1>1, <1>2
    <3>2. CASE j = p - 1
      BY <1>3, <3>1, <3>2
    <3>3. CASE j < p - 1
      <4>1. q[j].call <= q[p - 1].call
        BY <1>5, <3>1, <3>3
      <4>2. QED
        BY <1>3, <1>4, <3>1, <4>1
    <3>4. QED
      BY <1>2, <3>2, <3>3
  <2>2. ASSUME NEW j \in p..k - 1
        PROVE  x.call <= q[j].call
    <3>1. j \in 1..k - 1
      BY <1>1, <1>2
    <3>2. ~(q[j].call <= x.call)
      BY <1>3
    <3>3. q[j].call \in Nat /\ x.call \in Nat
      BY <1>4, <3>1
    <3>4. QED
      BY <3>2, <3>3
  <2>3. QED
    BY <2>1, <2>2
<1>7. DOMAIN new = 1..k
  BY <1>2
<1>8. InOrder(new)
  <2>1. SUFFICES ASSUME NEW a \in 1..k, NEW b \in 1..k, a < b
                 PROVE  new[a].call <= new[b].call
    BY <1>7 DEF InOrder
  <2>2. CASE b < p
    <3>1. a \in 1..p - 1 /\ b \in 1..p - 1 /\ a \in 1..k - 1 /\ b \in 1..k - 1
      BY <1>1, <1>2, <2>1, <2>2
    <3>2. QED
      BY <1>2, <1>5, <2>1, <3>1
  <2>3. CASE b = p
    BY <1>2, <1>6, <2>1, <2>3
  <2>4. CASE p < b /\ a < p
    <3>1. a \in 1..p - 1 /\ b - 1 \in p..k - 1 /\ a \in 1..k - 1 /\ b - 1 \in 1..k - 1 /\ b \in p + 1..k
      BY <1>1, <1>2, <2>1, <2>4
    <3>2. q[a].call <= q[b - 1].call
      BY <1>5, <2>4, <3>1, <1>2
    <3>3. QED
      BY <1>2, <3>1, <3>2
  <2>5. CASE p < b /\ a = p
    <3>1. b - 1 \in p..k - 1 /\ b \in p + 1..k
      BY <1>1, <1>2, <2>1, <2>5
    <3>2. QED
      BY <1>2, <1>6, <2>5, <3>1
  <2>6. CASE p < a
    <3>1. a - 1 \in 1..k - 1 /\ b - 1 \in 1..k - 1 /\ a \in p + 1..k /\ b \in p + 1..k /\ a - 1 < b - 1
      BY <1>1, <1>2, <2>1, <2>6
    <3>2. q[a - 1].call <= q[b - 1].call
      BY <1>5, <3>1
    <3>3. QED
      BY <1>2, <3>1, <3>2
  <2>7. QED
    BY <1>2, <2>1, <2>2, <2>3, <2>4, <2>5, <2>6
<1>9. \A j \in 1..k - 1 : \E i \in 1..k - 1 : q[j] = s[i]
  BY <1>1 DEF SortedSoFar
<1>10. \A j \in 1..k : \E i \in 1..k : new[j] = s[i]
  <2>1. SUFFICES ASSUME NEW j \in 1..k
                 PROVE  \E i \in 1..k : new[j] = s[i]
    OBVIOUS
  <2>2. CASE j = p
    BY <1>2, <2>2 DEF x
  <2>3. CASE j < p
    <3>1. j \in 1..p - 1 /\ j \in 1..k - 1
      BY <1>2, <2>3
    <3>2. PICK i \in 1..k - 1 : q[j] = s[i]
      BY <1>9, <3>1
    <3>3. i \in 1..k
      OBVIOUS
    <3>4. QED
      BY <1>2, <3>1, <3>2, <3>3
  <2>4. CASE p < j
    <3>1. j \in p + 1..k /\ j - 1 \in 1..k - 1
      BY <1>2, <2>4
    <3>2. PICK i \in 1..k - 1 : q[j - 1] = s[i]
      BY <1>9, <3>1
    <3>3. i \in 1..k
      OBVIOUS
    <3>4. QED
      BY <1>2, <3>1, <3>2, <3>3
  <2>5. QED
    BY <1>2, <2>2, <2>3, <2>4
<1>11. \A j \in 1..k - 1 : q[j].id # x.id
  <2>1. SUFFICES ASSUME NEW j \in 1..k - 1, q[j].id = x.id
                 PROVE  FALSE
    OBVIOUS
  <2>2. PICK i \in 1..k - 1 : q[j] = s[i]
    BY <1>9
  <2>3. i \in DOMAIN s /\ k \in DOMAIN s /\ i # k
    OBVIOUS
  <2>4. s[i].id = s[k].id
    BY <2>1, <2>2 DEF x
  <2>5. QED
    BY <2>3, <2>4 DEF DistinctIds
<1>12. \A a, b \in 1..k - 1 : q[a].id = q[b].id => a = b
  BY <1>0 DEF SortedSoFar, DistinctIds
<1>13. DistinctIds(new)
  <2>1. SUFFICES ASSUME NEW a \in 1..k, NEW b \in 1..k, a < b, new[a].id = new[b].id
                 PROVE  FALSE
    BY <1>7 DEF DistinctIds
  <2>2. CASE b < p
    <3>1. a \in 1..p - 1 /\ b \in 1..p - 1 /\ a \in 1..k - 1 /\ b \in 1..k - 1 /\ a # b
      BY <1>1, <1>2, <2>1, <2>2
    <3>2. QED
      BY <1>2, <1>12, <2>1, <3>1
  <2>3. CASE b = p
    <3>1. a \in 1..p - 1 /\ a \in 1..k - 1
      BY <1>1, <1>2, <2>1, <2>3
    <3>2. QED
      BY <1>2, <1>11, <2>1, <2>3, <3>1
  <2>4. CASE p < b /\ a < p
    <3>1. a \in 1..p - 1 /\ a \in 1..k - 1 /\ b - 1 \in 1..k - 1 /\ b \in p + 1..k /\ a # b - 1
      BY <1>1, <1>2, <2>1, <2>4
    <3>2. QED
      BY <1>2, <1>12, <2>1, <3>1
  <2>5. CASE p < b /\ a = p
    <3>1. b - 1 \in 1..k - 1 /\ b \in p + 1..k
      BY <1>1, <1>2, <2>1, <2>5
    <3>2. QED
      BY <1>2, <1>11, <2>1, <2>5, <3>1
  <2>6. CASE p < a
    <3>1. a - 1 \in 1..k - 1 /\ b - 1 \in 1..k - 1 /\ a \in p + 1..k /\ b \in p + 1..k /\ a - 1 # b - 1
      BY <1>1, <1>2, <2>1, <2>6
    <3>2. QED
      BY ZenonT(30), <1>2, <1>12, <2>1, <3>1
  <2>7. QED
    BY <1>2, <2>1, <2>2, <2>3, <2>4, <2>5, <2>6
<1>16. \A i \in 1..k : \E j \in 1..k : new[j] = s[i]
  <2>1. SUFFICES ASSUME NEW i \in 1..k
                 PROVE  \E j \in 1..k : new[j] = s[i]
    OBVIOUS
  <2>2. CASE i = k
    BY <1>2, <2>2 DEF x
  <2>3. CASE i \in 1..k - 1
    <3>1. PICK j \in 1..k - 1 : q[j] = s[i]
      BY <1>1, <2>3 DEF SortedSoFar
    <3>2. CASE j < p
      <4>1. j \in 1..p - 1 /\ j \in 1..k
        BY <1>2, <3>2
      <4>2. QED
        BY <1>2, <3>1, <4>1
    <3>3. CASE p <= j
      <4>1. j + 1 \in p + 1..k /\ j + 1 \in 1..k /\ (j + 1) - 1 = j
        BY <1>2, <3>3
      <4>2. new[j + 1] = q[j]
        BY <1>2, <4>1
      <4>3. QED
        BY <3>1, <4>1, <4>2
    <3>4. QED
      BY <1>2, <3>2, <3>3
  <2>4. QED
    BY <1>1, <2>2, <2>3
<1>14. SortedSoFar(s, k, new)
  BY <1>2, <1>8, <1>10, <1>13, <1>16 DEF SortedSoFar
<1>15. QED
  BY <1>14 DEF new, x

\* This is a sort: it keeps the operations and puts them in the order of
\* their calls.
LEMMA SortSorts ==
    ASSUME NEW R, \A r \in R : r.call \in Nat, NEW s \in Seq(R), DistinctIds(s)
    PROVE  /\ SortedByCalls(s) \in Seq(R)
           /\ SortedSoFar(s, Len(s), SortedByCalls(s))
<1> DEFINE n == Len(s)
           A == Seq(R)
           step == [p \in (1..n) \X A |-> Inserted(p[2], s[p[1]])]
           Recursion(f) ==
               f = [t \in SUBSET (DOMAIN s) |->
                       IF t = {} THEN <<>> ELSE Inserted(f[t \ {Max(t)}], s[Max(t)])]
           iter == CHOOSE f : Recursion(f)
<1>1. SortedByCalls(s) = iter[DOMAIN s]
  BY DEF SortedByCalls, FoldLeft, MapThenFoldSet, Inserted, Place
<1>2. n \in Nat /\ DOMAIN s = 1..n /\ <<>> \in A
  OBVIOUS
<1>3. step \in [(1..n) \X A -> A]
  <2>1. ASSUME NEW k \in 1..n, NEW q \in A
        PROVE  Inserted(q, s[k]) \in A
    <3>1. s[k] \in R
      BY <1>2
    <3>2. QED
      BY <3>1, InsertedAt
  <2>2. QED
    BY <2>1
<1>4. PICK f \in [SUBSET (1..n) -> A] : Unfolds(f, n, <<>>, step)
  BY <1>2, <1>3, FoldExists
<1>5. ASSUME NEW t \in SUBSET (1..n), t # {}
      PROVE  Max(t) \in 1..n /\ t \ {Max(t)} \in SUBSET (1..n)
  BY <1>2, <1>5, GreatestOf
<1>6. \A k \in 1..n, a \in A : step[<<k, a>>] = Inserted(a, s[k])
  OBVIOUS
<1>7. Recursion(f)
  <2>1. ASSUME NEW t \in SUBSET (1..n)
        PROVE  f[t] = IF t = {} THEN <<>> ELSE Inserted(f[t \ {Max(t)}], s[Max(t)])
    BY <1>4, <1>5, <1>6 DEF Unfolds
  <2>2. QED
    BY <1>2, <1>4, <2>1
<1>8. Recursion(iter)
  BY <1>7
<1> HIDE DEF iter
<1>9. iter[1..0] = <<>>
  <2>1. 1..0 = {} /\ 1..0 \in SUBSET (DOMAIN s)
    OBVIOUS
  <2>2. QED
    BY <1>8, <2>1
<1>10. ASSUME NEW k \in 1..n
       PROVE  iter[1..k] = Inserted(iter[1..k - 1], s[k])
  <2>1. 1..k \in SUBSET (DOMAIN s) /\ 1..k # {} /\ k \in Nat /\ k # 0
    BY <1>2
  <2>2. Max(1..k) = k
    BY <2>1, GreatestOfInterval
  <2>3. (1..k) \ {k} = 1..k - 1
    OBVIOUS
  <2>4. QED
    BY <1>8, <2>1, <2>2, <2>3
<1> DEFINE r == [k \in 0..n |-> iter[1..k]]
<1>11. /\ r[0] = <<>> /\ r[n] = iter[DOMAIN s]
       /\ \A k \in 1..n : r[k] = Inserted(r[k - 1], s[k])
  BY <1>2, <1>9, <1>10
<1> HIDE DEF r, A, step, n
<1> DEFINE T == {k \in 0..n : r[k] \in Seq(R) /\ SortedSoFar(s, k, r[k])}
<1>12. 0 \in T
  <2>1. SortedSoFar(s, 0, <<>>)
    BY DEF SortedSoFar, InOrder, DistinctIds
  <2>2. r[0] \in Seq(R) /\ SortedSoFar(s, 0, r[0]) /\ 0 \in 0..n
    BY <1>2, <1>11, <2>1 DEF A
  <2>3. QED
    BY <2>2
<1>13. ASSUME NEW k \in 1..n, k - 1 \in T
       PROVE  k \in T
  <2> DEFINE q == r[k - 1]
             new == Inserted(q, s[k])
  <2>1. q \in Seq(R) /\ SortedSoFar(s, k - 1, q) /\ s[k] \in R /\ k \in 1..Len(s)
    BY <1>13 DEF n
  <2> HIDE DEF q
  <2>2. new \in Seq(R)
    BY <2>1, InsertedAt
  <2>3. SortedSoFar(s, k, new)
    BY <2>1, InsertKeepsSorted
  <2>4. r[k] = new /\ k \in 0..n
    BY <1>11 DEF q
  <2>5. QED
    BY <2>2, <2>3, <2>4
<1>14. n \in T
  <2> HIDE DEF T
  <2>1. 0..n \subseteq T
    BY <1>2, <1>12, <1>13, UpTo
  <2>2. QED
    BY <1>2, <2>1
<1>15. QED
  BY <1>1, <1>11, <1>14 DEF n

-----------------------------------------------------------------------------
(* Enumerations in increasing order *)

\* f numbers the elements of S in their order.
Enumerates(f, n, S) ==
    /\ f \in [1..n -> S]
    /\ \A j, k \in 1..n : j < k => f[j] < f[k]
    /\ \A x \in S : \E k \in 1..n : f[k] = x

\* There is one such enumeration; this is the half of it that is used twice.
LEMMA NoLaterThan ==
    ASSUME NEW S \in SUBSET Int, NEW m \in Nat, NEW n \in Nat,
           NEW f, Enumerates(f, m, S), NEW g, Enumerates(g, n, S)
    PROVE  m <= n /\ \A k \in 1..m : f[k] = g[k]
<1> DEFINE T == {k \in 1..m : k > n \/ f[k] # g[k]}
<1>1. \A k \in 1..m : f[k] \in S /\ f[k] \in Int
  BY DEF Enumerates
<1>2. \A k \in 1..n : g[k] \in S /\ g[k] \in Int
  BY DEF Enumerates
<1>3. T = {}
  <2>1. SUFFICES ASSUME T # {}
                 PROVE  FALSE
    OBVIOUS
  <2>2. T \in SUBSET Nat
    OBVIOUS
  <2>3. PICK k \in T : \A y \in T : k <= y
    BY <2>1, <2>2, Smallest
  <2>4. k \in 1..m /\ (k > n \/ f[k] # g[k])
    OBVIOUS
  <2>5. \A j \in 1..k - 1 : j \in 1..m /\ j <= n /\ f[j] = g[j]
    BY <2>3, <2>4
  <2> HIDE DEF T
  <2>6. PICK j \in 1..n : g[j] = f[k]
    BY <1>1, <2>4 DEF Enumerates
  <2>7. j >= k
    <3>1. SUFFICES ASSUME j < k
                   PROVE  FALSE
      BY <2>4, <2>6
    <3>2. j \in 1..k - 1
      BY <2>4, <2>6, <3>1
    <3>3. j \in 1..m /\ f[j] = f[k]
      BY <2>5, <2>6, <3>2
    <3>4. f[j] < f[k]
      BY <2>4, <3>1, <3>3 DEF Enumerates
    <3>5. QED
      BY <1>1, <2>4, <3>3, <3>4
  <2>8. k \in 1..n /\ f[k] # g[k]
    BY <2>4, <2>6, <2>7
  <2>9. j # k /\ g[k] < f[k]
    <3>1. j # k
      BY <2>6, <2>8
    <3>2. k < j
      BY <2>4, <2>6, <2>7, <3>1
    <3>3. QED
      BY <2>6, <2>8, <3>1, <3>2 DEF Enumerates
  <2>10. PICK l \in 1..m : f[l] = g[k]
    BY <1>2, <2>8 DEF Enumerates
  <2>11. l < k
    <3>1. SUFFICES ASSUME l >= k
                   PROVE  FALSE
      BY <2>4, <2>10
    <3>2. f[k] <= f[l]
      <4>1. CASE l = k
        BY <1>1, <2>4, <4>1
      <4>2. CASE l > k
        <5>1. f[k] < f[l]
          BY <2>4, <2>10, <4>2 DEF Enumerates
        <5>2. QED
          BY <1>1, <2>4, <2>10, <5>1
      <4>3. QED
        BY <2>4, <2>10, <3>1, <4>1, <4>2
    <3>3. QED
      BY <1>1, <1>2, <2>4, <2>8, <2>9, <2>10, <3>2
  <2>12. l \in 1..k - 1
    BY <2>4, <2>10, <2>11
  <2>13. l \in 1..n /\ g[l] = g[k]
    BY <2>5, <2>10, <2>12
  <2>14. g[l] < g[k]
    BY <2>8, <2>11, <2>13 DEF Enumerates
  <2>15. QED
    BY <1>2, <2>8, <2>13, <2>14
<1>4. \A k \in 1..m : k <= n /\ f[k] = g[k]
  BY <1>3
<1>5. m <= n
  BY <1>4
<1>6. QED
  BY <1>4, <1>5

LEMMA SameEnumeration ==
    ASSUME NEW S \in SUBSET Int, NEW m \in Nat, NEW n \in Nat,
           NEW f, Enumerates(f, m, S), NEW g, Enumerates(g, n, S)
    PROVE  m = n /\ \A k \in 1..m : f[k] = g[k]
<1>1. m <= n /\ \A k \in 1..m : f[k] = g[k]
  BY NoLaterThan
<1>2. n <= m
  BY NoLaterThan
<1>3. QED
  BY <1>1, <1>2

\* The k-th element is the one up to which there are k.
LEMMA CountUpTo ==
    ASSUME NEW S \in SUBSET Int, NEW n \in Nat, NEW f, Enumerates(f, n, S), NEW k \in 1..n
    PROVE  Cardinality({x \in S : x <= f[k]}) = k
<1> DEFINE U == {x \in S : x <= f[k]}
           g == [j \in 1..k |-> f[j]]
<1>1. \A j \in 1..n : f[j] \in S /\ f[j] \in Int
  BY DEF Enumerates
<1>2. \A j \in 1..k : j \in 1..n /\ f[j] \in U
  <2>1. SUFFICES ASSUME NEW j \in 1..k
                 PROVE  j \in 1..n /\ f[j] \in S /\ f[j] <= f[k]
    OBVIOUS
  <2>2. j \in 1..n /\ (j = k \/ j < k)
    OBVIOUS
  <2>3. j < k => f[j] < f[k]
    BY <2>2 DEF Enumerates
  <2>4. QED
    BY <1>1, <2>2, <2>3
<1>3. ASSUME NEW x \in U
      PROVE  \E j \in 1..k : f[j] = x
  <2>1. PICK j \in 1..n : f[j] = x
    BY <1>3 DEF Enumerates
  <2>2. ~(k < j)
    <3>1. SUFFICES ASSUME k < j
                   PROVE  FALSE
      OBVIOUS
    <3>2. f[k] < f[j]
      BY <3>1 DEF Enumerates
    <3>3. QED
      BY <1>1, <2>1, <3>2
  <2>3. QED
    BY <2>1, <2>2
<1>4. \A a, b \in 1..k : f[a] = f[b] => a = b
  <2>1. SUFFICES ASSUME NEW a \in 1..k, NEW b \in 1..k, f[a] = f[b], a # b
                 PROVE  FALSE
    OBVIOUS
  <2>2. f[a] < f[b] \/ f[b] < f[a]
    BY <2>1 DEF Enumerates
  <2>3. QED
    BY <1>1, <2>1, <2>2
<1> HIDE DEF U
<1>5. g \in Bijection(1..k, U)
  <2>1. g \in [1..k -> U] /\ \A j \in 1..k : g[j] = f[j]
    BY <1>2
  <2> HIDE DEF g
  <2>2. IsInjective(g)
    BY <1>4, <2>1 DEF IsInjective
  <2>3. \A x \in U : \E j \in 1..k : g[j] = x
    BY <1>3, <2>1
  <2>4. QED
    BY <2>1, <2>2, <2>3 DEF Bijection, Injection, Surjection
<1>6. IsFiniteSet(1..k) /\ Cardinality(1..k) = k
  BY FS_Interval
<1>7. Cardinality(U) = k
  <2>1. ExistsBijection(1..k, U)
    BY <1>5 DEF ExistsBijection
  <2>2. QED
    BY <1>6, <2>1, FS_Bijection
<1>8. QED
  BY <1>7 DEF U

-----------------------------------------------------------------------------
(* The last of the writes *)

\* reg has the values of a register: at first, and after each of n moments; it
\* changes only at the moments of writes.
ChangesOnlyAt(reg, n, writes) ==
    /\ writes \in SUBSET (1..n)
    /\ \A t \in 1..n : t \notin writes => reg[t] = reg[t - 1]

\* The value after moment t is that of the last write up to t, or the first value.
ValueOfLast(reg, writes, t) ==
    \/ reg[t] = reg[0] /\ \A w \in writes : t < w
    \/ \E w \in writes :
            w <= t /\ reg[t] = reg[w] /\ \A v \in writes : v <= t => v <= w

LEMMA LastWrite ==
    ASSUME NEW n \in Nat, NEW reg, NEW writes, ChangesOnlyAt(reg, n, writes), NEW t \in 0..n
    PROVE  ValueOfLast(reg, writes, t)
<1> DEFINE T == {m \in 0..n : ValueOfLast(reg, writes, m)}
<1>1. writes \in SUBSET (1..n)
  BY DEF ChangesOnlyAt
<1>2. 0 \in T
  BY <1>1 DEF ValueOfLast
<1>3. ASSUME NEW m \in 1..n, m - 1 \in T
      PROVE  m \in T
  <2>1. ValueOfLast(reg, writes, m - 1) /\ m \in 0..n
    BY <1>3
  <2>2. CASE m \in writes
    <3>1. \A v \in writes : v <= m => v <= m
      OBVIOUS
    <3>2. m <= m
      OBVIOUS
    <3>3. ValueOfLast(reg, writes, m)
      BY <2>2, <3>1, <3>2 DEF ValueOfLast
    <3>4. QED
      BY <2>1, <3>3
  <2>3. CASE m \notin writes
    <3>1. reg[m] = reg[m - 1]
      BY <2>3 DEF ChangesOnlyAt
    <3>2. \A v \in writes : v <= m <=> v <= m - 1
      BY <1>1, <2>3
    <3>3. \A v \in writes : m < v <=> m - 1 < v
      BY <1>1, <2>3
    <3>4. ValueOfLast(reg, writes, m)
      BY <2>1, <3>1, <3>2, <3>3 DEF ValueOfLast
    <3>5. QED
      BY <2>1, <3>4
  <2>4. QED
    BY <2>2, <2>3
<1>4. 0..n \subseteq T
  <2> HIDE DEF T
  <2>1. QED
    BY <1>2, <1>3, UpTo
<1>5. QED
  BY <1>4

-----------------------------------------------------------------------------
(* Numbering a finite set in an order *)

IsStrictOrder(S, lt) ==
    /\ \A a \in S : <<a, a>> \notin lt
    /\ \A a, b \in S : a # b => <<a, b>> \in lt \/ <<b, a>> \in lt
    /\ \A a, b, c \in S : <<a, b>> \in lt /\ <<b, c>> \in lt => <<a, c>> \in lt

UpToElement(S, lt, x) == {y \in S : <<y, x>> \in lt \/ y = x}

\* How many elements there are up to each.
Ranks(S, lt) == [x \in S |-> Cardinality(UpToElement(S, lt, x))]

LEMMA Ranking ==
    ASSUME NEW S, IsFiniteSet(S), NEW lt, IsStrictOrder(S, lt)
    PROVE  /\ Ranks(S, lt) \in Bijection(S, 1..Cardinality(S))
           /\ \A a, b \in S : <<a, b>> \in lt => Ranks(S, lt)[a] < Ranks(S, lt)[b]
<1> DEFINE n == Cardinality(S)
           r == [x \in S |-> Cardinality(UpToElement(S, lt, x))]
<1>1. n \in Nat
  BY FS_CardinalityType
<1>2. ASSUME NEW x \in S
      PROVE  /\ IsFiniteSet(UpToElement(S, lt, x))
             /\ Cardinality(UpToElement(S, lt, x)) \in 1..n
  <2>1. UpToElement(S, lt, x) \in SUBSET S /\ x \in UpToElement(S, lt, x)
    BY DEF UpToElement
  <2>2. /\ IsFiniteSet(UpToElement(S, lt, x))
        /\ Cardinality(UpToElement(S, lt, x)) <= n
    BY <2>1, FS_Subset
  <2>3. Cardinality(UpToElement(S, lt, x)) \in Nat
    BY <2>2, FS_CardinalityType
  <2>4. Cardinality(UpToElement(S, lt, x)) # 0
    BY <2>1, <2>2, FS_EmptySet
  <2>5. QED
    BY <1>1, <2>2, <2>3, <2>4
<1>3. r \in [S -> 1..n]
  BY <1>2
<1>4. ASSUME NEW a \in S, NEW b \in S, <<a, b>> \in lt
      PROVE  r[a] < r[b]
  <2>1. UpToElement(S, lt, a) \in SUBSET UpToElement(S, lt, b)
    BY <1>4 DEF UpToElement, IsStrictOrder
  <2>2. b \in UpToElement(S, lt, b) /\ b \notin UpToElement(S, lt, a)
    BY <1>4 DEF UpToElement, IsStrictOrder
  <2>3. UpToElement(S, lt, a) # UpToElement(S, lt, b)
    BY <2>2
  <2>4. /\ Cardinality(UpToElement(S, lt, a)) <= Cardinality(UpToElement(S, lt, b))
        /\ Cardinality(UpToElement(S, lt, a)) # Cardinality(UpToElement(S, lt, b))
    BY <1>2, <2>1, <2>3, FS_Subset
  <2>5. r[a] <= r[b] /\ r[a] # r[b]
    BY <2>4
  <2>6. r[a] \in Int /\ r[b] \in Int
    BY <1>3
  <2>7. QED
    BY <2>5, <2>6
<1> HIDE DEF r
<1>5. r \in Injection(S, 1..n)
  <2>1. ASSUME NEW a \in S, NEW b \in S, r[a] = r[b], a # b
        PROVE  FALSE
    <3>1. r[a] < r[b] \/ r[b] < r[a]
      BY <1>4, <2>1 DEF IsStrictOrder
    <3>2. r[a] \in Int /\ r[b] \in Int
      BY <1>3
    <3>3. QED
      BY <2>1, <3>1, <3>2
  <2>2. IsInjective(r)
    BY <1>3, <2>1 DEF IsInjective
  <2>3. QED
    BY <1>3, <2>2 DEF Injection
<1>6. r \in Surjection(S, 1..n)
  <2>1. IsFiniteSet(1..n) /\ Cardinality(1..n) = n
    BY <1>1, FS_Interval
  <2>2. QED
    BY <1>5, <2>1, FS_Injection
<1>7. r \in Bijection(S, 1..n)
  BY <1>5, <1>6 DEF Bijection
<1>8. QED
  BY <1>4, <1>7 DEF r, Ranks

LEMMA Numbering ==
    ASSUME NEW S, IsFiniteSet(S), NEW lt, IsStrictOrder(S, lt)
    PROVE  \E r \in Bijection(S, 1..Cardinality(S)) :
              \A a, b \in S : <<a, b>> \in lt => r[a] < r[b]
  BY Ranking

\* The greatest of some numbers.
LEMMA Greatest ==
    ASSUME NEW S \in SUBSET Int, IsFiniteSet(S), S # {}
    PROVE  \E x \in S : \A y \in S : y <= x
<1> DEFINE lt == {e \in S \X S : e[1] < e[2]}
           size == Cardinality(S)
<1>1. \A a, b \in S : <<a, b>> \in lt <=> a < b
  OBVIOUS
<1> HIDE DEF lt
<1>2. IsStrictOrder(S, lt)
  BY <1>1 DEF IsStrictOrder
<1>3. PICK r \in Bijection(S, 1..size) : \A a, b \in S : <<a, b>> \in lt => r[a] < r[b]
  BY <1>2, Numbering
<1>4. size \in Nat \ {0}
  BY FS_CardinalityType, FS_EmptySet
<1>5. r \in [S -> 1..size] /\ \A j \in 1..size : \E a \in S : r[a] = j
  BY <1>3 DEF Bijection, Surjection
<1> HIDE DEF size
<1>6. PICK x \in S : r[x] = size
  BY <1>4, <1>5
<1>7. ASSUME NEW y \in S
      PROVE  y <= x
  <2>1. r[y] \in 1..size
    BY <1>5
  <2>2. ~(r[x] < r[y])
    BY <1>4, <1>6, <2>1
  <2>3. ~(x < y)
    BY <1>1, <1>3, <2>2
  <2>4. QED
    BY <2>3
<1>8. QED
  BY <1>7

\* Where a function has its least value.
LEMMA LeastBy ==
    ASSUME NEW D \in SUBSET Int, IsFiniteSet(D), D # {}, NEW v \in [D -> Int]
    PROVE  \E x \in D : \A y \in D : v[x] <= v[y]
<1> DEFINE lt == {e \in D \X D : v[e[1]] < v[e[2]] \/ (v[e[1]] = v[e[2]] /\ e[1] < e[2])}
           size == Cardinality(D)
<1>1. \A a, b \in D : <<a, b>> \in lt <=> v[a] < v[b] \/ (v[a] = v[b] /\ a < b)
  OBVIOUS
<1> HIDE DEF lt
<1>0. \A a \in D : a \in Int /\ v[a] \in Int
  OBVIOUS
<1>2. IsStrictOrder(D, lt)
  <2>1. \A a \in D : <<a, a>> \notin lt
    BY <1>0, <1>1
  <2>2. \A a, b \in D : a # b => <<a, b>> \in lt \/ <<b, a>> \in lt
    BY <1>0, <1>1
  <2>3. \A a, b, c \in D : <<a, b>> \in lt /\ <<b, c>> \in lt => <<a, c>> \in lt
    BY <1>0, <1>1
  <2>4. QED
    BY <2>1, <2>2, <2>3 DEF IsStrictOrder
<1>3. PICK r \in Bijection(D, 1..size) : \A a, b \in D : <<a, b>> \in lt => r[a] < r[b]
  BY <1>2, Numbering
<1>4. size \in Nat \ {0}
  BY FS_CardinalityType, FS_EmptySet
<1>5. r \in [D -> 1..size] /\ \A j \in 1..size : \E a \in D : r[a] = j
  BY <1>3 DEF Bijection, Surjection
<1> HIDE DEF size
<1>6. PICK x \in D : r[x] = 1
  BY <1>4, <1>5
<1>7. ASSUME NEW y \in D
      PROVE  v[x] <= v[y]
  <2>1. r[y] \in 1..size
    BY <1>5
  <2>2. ~(r[y] < r[x])
    BY <1>4, <1>6, <2>1
  <2>3. <<y, x>> \notin lt
    BY <1>3, <2>2
  <2>4. ~(v[y] < v[x])
    BY <1>1, <2>3, Zenon
  <2>5. QED
    BY <1>0, <2>4
<1>8. QED
  BY <1>7

-----------------------------------------------------------------------------
(* The sum of the values of some records *)

ValueSum(S) == MapThenSumSet(LAMBDA w : w.value, S)

\* Which of them is added last is a choice.
Chosen(t) == CHOOSE x \in t : TRUE

AddsUp(f, t) == f[t] = IF t = {} THEN 0 ELSE Chosen(t).value + f[t \ {Chosen(t)}]

AddsUpTo(f, U, k) == \A t \in SUBSET U : Cardinality(t) <= k => AddsUp(f, t)

SumOver(f, U) == f \in [SUBSET U -> Int] /\ \A t \in SUBSET U : AddsUp(f, t)

LEMMA ChosenOf ==
    ASSUME NEW U, IsFiniteSet(U), NEW t \in SUBSET U
    PROVE  /\ IsFiniteSet(t) /\ Cardinality(t) \in Nat
           /\ Cardinality(t) <= Cardinality(U)
           /\ t # {} => /\ Chosen(t) \in t /\ t \ {Chosen(t)} \in SUBSET U
                        /\ Cardinality(t) \in Nat \ {0}
                        /\ Cardinality(t \ {Chosen(t)}) = Cardinality(t) - 1
<1>1. IsFiniteSet(t) /\ Cardinality(t) <= Cardinality(U)
  BY FS_Subset
<1>2. Cardinality(t) \in Nat /\ (Cardinality(t) = 0 <=> t = {})
  BY <1>1, FS_CardinalityType, FS_EmptySet
<1>3. t # {} => Chosen(t) \in t
  BY DEF Chosen
<1>4. t # {} => Cardinality(t \ {Chosen(t)}) = Cardinality(t) - 1
  BY <1>1, <1>3, FS_RemoveElement
<1>5. QED
  BY <1>1, <1>2, <1>3, <1>4

LEMMA NoneOf ==
    ASSUME NEW U, IsFiniteSet(U), NEW t \in SUBSET U, Cardinality(t) <= 0
    PROVE  t = {}
<1>1. Cardinality(t) \in Nat /\ (t # {} => Cardinality(t) \in Nat \ {0})
  BY ChosenOf
<1>2. QED
  BY <1>1

LEMMA SumExists ==
    ASSUME NEW U, IsFiniteSet(U), \A x \in U : x.value \in Int
    PROVE  \E f : SumOver(f, U)
<1> DEFINE n == Cardinality(U)
           T == {k \in 0..n : \E f \in [SUBSET U -> Int] : AddsUpTo(f, U, k)}
<1>1. n \in Nat
  BY FS_CardinalityType
<1>2. 0 \in T
  <2> DEFINE f == [t \in SUBSET U |-> 0]
  <2>1. f \in [SUBSET U -> Int]
    OBVIOUS
  <2>2. ASSUME NEW t \in SUBSET U, Cardinality(t) <= 0
        PROVE  AddsUp(f, t)
    <3>1. t = {}
      BY <2>2, NoneOf
    <3>2. QED
      BY <3>1 DEF AddsUp
  <2> HIDE DEF f
  <2>3. AddsUpTo(f, U, 0) /\ 0 \in 0..n
    BY <1>1, <2>2 DEF AddsUpTo
  <2>4. QED
    BY <2>1, <2>3
<1>3. ASSUME NEW k \in 1..n, k - 1 \in T
      PROVE  k \in T
  <2>1. PICK f \in [SUBSET U -> Int] : AddsUpTo(f, U, k - 1)
    BY <1>3
  <2> DEFINE g == [t \in SUBSET U |-> IF t = {} THEN 0 ELSE Chosen(t).value + f[t \ {Chosen(t)}]]
  <2>2. g \in [SUBSET U -> Int]
    <3>1. ASSUME NEW t \in SUBSET U, t # {}
          PROVE  Chosen(t).value + f[t \ {Chosen(t)}] \in Int
      <4>1. Chosen(t) \in U /\ t \ {Chosen(t)} \in SUBSET U
        BY <3>1, ChosenOf
      <4>2. Chosen(t).value \in Int /\ f[t \ {Chosen(t)}] \in Int
        BY <4>1
      <4>3. QED
        BY <4>2
    <3>2. QED
      BY <3>1
  <2>3. ASSUME NEW t \in SUBSET U, Cardinality(t) <= k
        PROVE  AddsUp(g, t)
    <3>1. CASE t = {}
      BY <3>1 DEF AddsUp
    <3>2. CASE t # {}
      <4> DEFINE r == t \ {Chosen(t)}
      <4>1. r \in SUBSET U /\ Cardinality(r) <= k - 1
        BY <2>3, <3>2, ChosenOf
      <4>2. f[r] = IF r = {} THEN 0 ELSE Chosen(r).value + f[r \ {Chosen(r)}]
        BY <2>1, <4>1 DEF AddsUpTo, AddsUp
      <4>3. g[r] = f[r]
        BY <4>1, <4>2
      <4>4. g[t] = Chosen(t).value + f[r]
        BY <3>2
      <4>5. QED
        BY <3>2, <4>3, <4>4 DEF AddsUp
    <3>3. QED
      BY <3>1, <3>2
  <2> HIDE DEF g
  <2>4. QED
    BY <2>2, <2>3 DEF AddsUpTo
<1>4. n \in T
  <2> HIDE DEF T
  <2>1. 0..n \subseteq T
    BY <1>1, <1>2, <1>3, UpTo
  <2>2. QED
    BY <1>1, <2>1
<1>5. PICK f \in [SUBSET U -> Int] : AddsUpTo(f, U, n)
  BY <1>4
<1>6. \A t \in SUBSET U : AddsUp(f, t)
  BY <1>5, ChosenOf DEF AddsUpTo
<1>7. QED
  BY <1>5, <1>6 DEF SumOver

\* The sum does not depend on the set it is taken in.
LEMMA SumIsTheSum ==
    ASSUME NEW U, IsFiniteSet(U), \A x \in U : x.value \in Int,
           NEW f, SumOver(f, U),
           NEW S \in SUBSET U
    PROVE  ValueSum(S) = f[S]
<1> DEFINE Recursion(g) ==
               g = [t \in SUBSET S |-> IF t = {} THEN 0 ELSE (CHOOSE x \in t : TRUE).value
                                                            + g[t \ {CHOOSE x \in t : TRUE}]]
           iter == CHOOSE g : Recursion(g)
           n == Cardinality(S)
<1>0. f \in [SUBSET U -> Int] /\ \A t \in SUBSET U : AddsUp(f, t)
  BY DEF SumOver
<1>1. ValueSum(S) = iter[S]
  BY DEF ValueSum, MapThenSumSet, MapThenFoldSet
<1>2. Recursion([t \in SUBSET S |-> f[t]])
  <2> DEFINE g == [t \in SUBSET S |-> f[t]]
  <2>1. ASSUME NEW t \in SUBSET S
        PROVE  g[t] = IF t = {} THEN 0 ELSE (CHOOSE x \in t : TRUE).value
                                            + g[t \ {CHOOSE x \in t : TRUE}]
    <3>1. t \in SUBSET U /\ t \ {CHOOSE x \in t : TRUE} \in SUBSET S
      OBVIOUS
    <3>2. QED
      BY <1>0, <3>1 DEF AddsUp, Chosen
  <2>2. QED
    BY <2>1
<1>3. Recursion(iter)
  BY <1>2
<1> HIDE DEF iter
<1>4. \A t \in SUBSET S : AddsUp(iter, t)
  BY <1>3 DEF AddsUp, Chosen
<1> DEFINE T == {k \in 0..n : \A t \in SUBSET S : Cardinality(t) <= k => iter[t] = f[t]}
<1>5. n \in Nat /\ IsFiniteSet(S)
  BY FS_CardinalityType, FS_Subset
<1>6. 0 \in T
  <2>1. ASSUME NEW t \in SUBSET S, Cardinality(t) <= 0
        PROVE  iter[t] = f[t]
    <3>1. t = {} /\ t \in SUBSET U
      BY <1>5, <2>1, NoneOf
    <3>2. QED
      BY <1>0, <1>4, <3>1 DEF AddsUp
  <2>2. QED
    BY <1>5, <2>1
<1>7. ASSUME NEW k \in 1..n, k - 1 \in T
      PROVE  k \in T
  <2>1. ASSUME NEW t \in SUBSET S, Cardinality(t) <= k
        PROVE  iter[t] = f[t]
    <3>1. t \in SUBSET U
      OBVIOUS
    <3>2. CASE t = {}
      BY <1>0, <1>4, <3>1, <3>2 DEF AddsUp
    <3>3. CASE t # {}
      <4> DEFINE r == t \ {Chosen(t)}
      <4>1. r \in SUBSET S /\ Cardinality(r) <= k - 1
        BY <1>5, <2>1, <3>3, ChosenOf
      <4>2. iter[r] = f[r]
        BY <1>7, <4>1
      <4>3. QED
        BY <1>0, <1>4, <3>1, <3>3, <4>2 DEF AddsUp
    <3>4. QED
      BY <3>2, <3>3
  <2>2. QED
    BY <1>5, <2>1
<1>8. n \in T
  <2> HIDE DEF T
  <2>1. 0..n \subseteq T
    BY <1>5, <1>6, <1>7, UpTo
  <2>2. QED
    BY <1>5, <2>1
<1>9. iter[S] = f[S]
  BY <1>5, <1>8
<1>10. QED
  BY <1>1, <1>9

OneMore(f, t, y) == f[t \union {y}] = f[t] + y.value

LEMMA SumExchange ==
    ASSUME NEW U, IsFiniteSet(U), \A x \in U : x.value \in Int,
           NEW f, SumOver(f, U)
    PROVE  \A t \in SUBSET U : \A y \in U \ t : OneMore(f, t, y)
<1> DEFINE n == Cardinality(U)
           T == {k \in 0..n : \A t \in SUBSET U : \A y \in U \ t :
                    Cardinality(t) <= k => f[t \union {y}] = f[t] + y.value}
<1>0. f \in [SUBSET U -> Int] /\ \A t \in SUBSET U : AddsUp(f, t)
  BY DEF SumOver
<1>1. n \in Nat
  BY FS_CardinalityType
<1>2. ASSUME NEW t \in SUBSET U, NEW y \in U \ t, Chosen(t \union {y}) = y
      PROVE  f[t \union {y}] = f[t] + y.value
  <2>1. t \union {y} \in SUBSET U /\ (t \union {y}) \ {y} = t
    OBVIOUS
  <2>2. f[t \union {y}] = y.value + f[t]
    BY <1>0, <1>2, <2>1 DEF AddsUp
  <2>3. f[t] \in Int /\ y.value \in Int
    BY <1>0
  <2>4. QED
    BY <2>2, <2>3
<1>3. 0 \in T
  <2>1. ASSUME NEW t \in SUBSET U, NEW y \in U \ t, Cardinality(t) <= 0
        PROVE  f[t \union {y}] = f[t] + y.value
    <3>1. t = {}
      BY <2>1, NoneOf
    <3>2. Chosen(t \union {y}) = y
      BY <3>1 DEF Chosen
    <3>3. QED
      BY <1>2, <3>2
  <2>2. QED
    BY <1>1, <2>1
<1>4. ASSUME NEW k \in 1..n, k - 1 \in T
      PROVE  k \in T
  <2>1. ASSUME NEW t \in SUBSET U, NEW y \in U \ t, Cardinality(t) <= k,
               Chosen(t \union {y}) # y
        PROVE  f[t \union {y}] = f[t] + y.value
    <3> DEFINE c == Chosen(t \union {y})
               r == t \ {c}
    <3>1. c \in t \union {y} /\ t \union {y} \in SUBSET U
      BY DEF Chosen
    <3>2. c \in t /\ t # {}
      BY <2>1, <3>1
    <3>3. IsFiniteSet(t) /\ Cardinality(t) \in Nat
      BY ChosenOf
    <3>4. r \in SUBSET U /\ Cardinality(r) = Cardinality(t) - 1
      <4> HIDE DEF c
      <4>1. Cardinality(t \ {c}) = Cardinality(t) - 1
        BY <3>2, <3>3, FS_RemoveElement
      <4>2. QED
        BY <4>1
    <3>5. Cardinality(r) <= k - 1
      BY <2>1, <3>3, <3>4
    <3>6. f[r \union {y}] = f[r] + y.value
      <4>1. y \in U \ r
        OBVIOUS
      <4>2. QED
        BY <1>4, <3>4, <3>5, <4>1
    <3>7. f[r \union {c}] = f[r] + c.value /\ r \union {c} = t
      <4>1. c \in U \ r
        BY <3>2
      <4>2. QED
        BY <1>4, <3>2, <3>4, <3>5, <4>1
    <3>8. (t \union {y}) \ {c} = r \union {y}
      BY <2>1
    <3>9. f[t \union {y}] = c.value + f[r \union {y}]
      <4>1. t \union {y} # {}
        OBVIOUS
      <4>2. QED
        BY <1>0, <3>1, <3>8, <4>1 DEF AddsUp
    <3> HIDE DEF c, r
    <3>10. f[r] \in Int /\ y.value \in Int /\ c.value \in Int
      BY <1>0, <3>2, <3>4
    <3>11. f[t \union {y}] = c.value + (f[r] + y.value)
      BY <3>6, <3>9
    <3>12. f[t] = f[r] + c.value
      BY <3>7
    <3>13. QED
      BY <3>10, <3>11, <3>12
  <2>2. QED
    BY <1>1, <1>2, <2>1
<1>5. n \in T
  <2> HIDE DEF T
  <2>1. 0..n \subseteq T
    BY <1>1, <1>3, <1>4, UpTo
  <2>2. QED
    BY <1>1, <2>1
<1>6. QED
  BY <1>5, ChosenOf DEF OneMore

\* Whatever the order, one more adds its value.
LEMMA SumOfOneMore ==
    ASSUME NEW S, IsFiniteSet(S), NEW x, x \notin S, \A y \in S \union {x} : y.value \in Int
    PROVE  /\ ValueSum({}) = 0 /\ ValueSum(S) \in Int
           /\ ValueSum(S \union {x}) = ValueSum(S) + x.value
<1> DEFINE U == S \union {x}
<1>1. IsFiniteSet(U)
  BY FS_AddElement
<1> HIDE DEF U
<1>2. \A y \in U : y.value \in Int
  BY DEF U
<1>3. PICK f : SumOver(f, U)
  BY <1>1, <1>2, SumExists
<1>4. S \in SUBSET U /\ {} \in SUBSET U /\ U \in SUBSET U /\ x \in U /\ x \notin S
  BY DEF U
<1>5. ValueSum(S) = f[S] /\ ValueSum({}) = f[{}] /\ ValueSum(U) = f[U]
  BY <1>1, <1>2, <1>3, <1>4, SumIsTheSum
<1>6. f[{}] = 0
  BY <1>3, <1>4 DEF SumOver, AddsUp
<1>7. \A t \in SUBSET U : \A y \in U \ t : OneMore(f, t, y)
  BY <1>1, <1>2, <1>3, SumExchange
<1>8. f[S] \in Int
  BY <1>3, <1>4 DEF SumOver
<1>9. QED
  BY <1>4, <1>5, <1>6, <1>7, <1>8 DEF U, OneMore

-----------------------------------------------------------------------------
(* Histories of one object that has been what they say *)

WritesOf(h) == {w \in OpsOf(h) : IsWrite(w)}

\* Each operation took effect at a moment of its own, between its call and its return
\* as far as the others can tell; the object has the value of a write from its moment
\* on, and a read returned what the object had at its moment.
TookEffect(h, n, reg, moment) ==
    /\ moment \in [OpsOf(h) -> 1..n]
    /\ \A a, b \in OpsOf(h) : moment[a] = moment[b] => a = b
    /\ \A a, b \in OpsOf(h) : Precedes(a, b) => moment[a] < moment[b]
    /\ ChangesOnlyAt(reg, n, {moment[w] : w \in WritesOf(h)})
    /\ \A op \in OpsOf(h) : op.value = reg[moment[op]]

\* Then the order of the moments is one that linearizes the history.
LEMMA EffectsLinearize ==
    ASSUME NEW h, IsFiniteSet(OpsOf(h)), h.model \in {"register", "kv"},
           \A a, b \in OpsOf(h) : h.model = "kv" => a.key = b.key,
           NEW n \in Nat, NEW reg, NEW moment, TookEffect(h, n, reg, moment),
           \A op \in OpsOf(h) : ~IsWrite(op) /\ op.value = reg[0] =>
                op.value = IF h.model = "kv" THEN 0 ELSE h.init
    PROVE  Linearizable(h)
<1> DEFINE O == OpsOf(h)
           lt == {e \in O \X O : moment[e[1]] < moment[e[2]]}
           size == Cardinality(O)
           writes == {moment[w] : w \in WritesOf(h)}
<1>1. /\ moment \in [O -> 1..n]
      /\ \A a, b \in O : moment[a] = moment[b] => a = b
      /\ \A a, b \in O : Precedes(a, b) => moment[a] < moment[b]
      /\ ChangesOnlyAt(reg, n, writes)
      /\ \A op \in O : op.value = reg[moment[op]]
  BY DEF TookEffect
<1>2. \A a, b \in O : <<a, b>> \in lt <=> moment[a] < moment[b]
  OBVIOUS
<1>3. \A a \in O : moment[a] \in 1..n /\ moment[a] \in Int
  BY <1>1
<1> HIDE DEF lt
<1>4. IsStrictOrder(O, lt)
  <2>1. \A a \in O : <<a, a>> \notin lt
    BY <1>2, <1>3
  <2>2. \A a, b \in O : a # b => <<a, b>> \in lt \/ <<b, a>> \in lt
    <3>1. SUFFICES ASSUME NEW a \in O, NEW b \in O, a # b
                   PROVE  moment[a] < moment[b] \/ moment[b] < moment[a]
      BY <1>2
    <3>2. moment[a] # moment[b] /\ moment[a] \in Int /\ moment[b] \in Int
      BY <1>1, <1>3, <3>1
    <3>3. QED
      BY <3>2
  <2>3. \A a, b, c \in O : <<a, b>> \in lt /\ <<b, c>> \in lt => <<a, c>> \in lt
    BY <1>2, <1>3
  <2>4. QED
    BY <2>1, <2>2, <2>3 DEF IsStrictOrder
<1>5. PICK pos \in Bijection(O, 1..size) : \A a, b \in O : <<a, b>> \in lt => pos[a] < pos[b]
  BY <1>4, Numbering
<1>6. pos \in [O -> 1..size] /\ \A a \in O : pos[a] \in Int
  BY <1>5 DEF Bijection, Injection
<1>7. \A a, b \in O : pos[a] < pos[b] <=> moment[a] < moment[b]
  <2>1. SUFFICES ASSUME NEW a \in O, NEW b \in O
                 PROVE  pos[a] < pos[b] <=> moment[a] < moment[b]
    OBVIOUS
  <2>2. /\ moment[a] < moment[b] => pos[a] < pos[b]
        /\ moment[b] < moment[a] => pos[b] < pos[a]
    BY <1>2, <1>5
  <2>3. moment[a] = moment[b] => pos[a] = pos[b]
    BY <1>1
  <2>4. moment[a] \in Int /\ moment[b] \in Int /\ pos[a] \in Int /\ pos[b] \in Int
    BY <1>3, <1>6
  <2>5. QED
    BY <2>2, <2>3, <2>4
<1> HIDE DEF O, size, writes
<1>8. ASSUME NEW op \in O, ~IsWrite(op)
      PROVE  op.value = ValueAt(h, pos, op)
  <2> DEFINE t == moment[op]
             before == Earlier(h, pos, op)
  <2>1. t \in 1..n /\ t \in 0..n /\ op.value = reg[t]
    BY <1>1, <1>3, <1>8
  <2>2. \A w : w \in before <=> w \in O /\ IsWrite(w) /\ moment[w] < t
    <3>1. \A w \in O : pos[w] < pos[op] <=> moment[w] < t
      BY <1>7
    <3>2. \A w \in O : h.model = "kv" => w.key = op.key
      BY <1>8 DEF O
    <3>3. QED
      BY <3>1, <3>2 DEF Earlier, O
  <2>3. \A x : x \in writes <=> \E w \in O : IsWrite(w) /\ x = moment[w]
    BY DEF writes, WritesOf, O
  <2>4. t \notin writes
    BY <1>1, <1>8, <2>3
  <2>5. ValueAt(h, pos, op) =
            IF before = {} THEN IF h.model = "kv" THEN 0 ELSE h.init
            ELSE (CHOOSE w \in before : \A v \in before : pos[v] <= pos[w]).value
    BY DEF ValueAt
  <2>6. ValueOfLast(reg, writes, t)
    BY <1>1, <2>1, LastWrite
  <2> HIDE DEF before
  <2>7. CASE reg[t] = reg[0] /\ \A w \in writes : t < w
    <3>1. before = {}
      <4>1. SUFFICES ASSUME NEW w \in O, IsWrite(w), moment[w] < t
                     PROVE  FALSE
        BY <2>2
      <4>2. t < moment[w]
        BY <2>3, <2>7, <4>1
      <4>3. QED
        BY <1>3, <2>1, <4>1, <4>2
    <3>2. op.value = IF h.model = "kv" THEN 0 ELSE h.init
      BY <1>8, <2>1, <2>7 DEF O
    <3>3. QED
      BY <2>5, <3>1, <3>2
  <2>8. ASSUME NEW x \in writes, x <= t, reg[t] = reg[x], \A y \in writes : y <= t => y <= x
        PROVE  op.value = ValueAt(h, pos, op)
    <3>1. PICK w \in O : IsWrite(w) /\ x = moment[w]
      BY <2>3
    <3>2. x < t
      BY <1>3, <2>1, <2>4, <2>8, <3>1
    <3>3. w \in before
      BY <2>2, <3>1, <3>2
    <3>4. ASSUME NEW v \in before
          PROVE  pos[v] <= pos[w]
      <4>1. v \in O /\ moment[v] \in writes /\ moment[v] < t
        BY <2>2, <2>3
      <4>2. moment[v] <= moment[w]
        BY <1>3, <2>1, <2>8, <3>1, <4>1
      <4>3. ~(pos[w] < pos[v])
        BY <1>3, <1>7, <4>1, <4>2
      <4>4. QED
        BY <1>6, <4>1, <4>3
    <3> DEFINE last == CHOOSE u \in before : \A v \in before : pos[v] <= pos[u]
    <3>5. last \in before /\ \A v \in before : pos[v] <= pos[last]
      BY <3>3, <3>4
    <3> HIDE DEF last
    <3>6. last = w
      <4>1. pos[w] <= pos[last] /\ pos[last] <= pos[w] /\ last \in O
        BY <2>2, <3>3, <3>4, <3>5
      <4>2. ~(moment[w] < moment[last]) /\ ~(moment[last] < moment[w])
        BY <1>6, <1>7, <4>1
      <4>3. moment[w] = moment[last]
        BY <1>3, <4>1, <4>2
      <4>4. QED
        BY <1>1, <4>1, <4>3
    <3>7. w.value = reg[x]
      BY <1>1, <3>1
    <3>8. ValueAt(h, pos, op) = last.value
      BY <2>5, <3>3 DEF last
    <3>9. QED
      BY <2>1, <2>8, <3>6, <3>7, <3>8
  <2>9. QED
    BY <2>6, <2>7, <2>8 DEF ValueOfLast
<1>9. \A a, b \in O : Precedes(a, b) => pos[a] < pos[b]
  BY <1>1, <1>7
<1>10. IsLinearization(h, pos)
  BY <1>8, <1>9 DEF IsLinearization, O
<1>11. QED
  BY <1>5, <1>10 DEF Linearizable, O, size
=============================================================================
