-------------------------- MODULE ExplainerProofs ---------------------------
(***************************************************************************)
(* What Explain says is true, for every history, every list of matchers,   *)
(* every order of maps and wherever timeouts strike.                       *)
(*                                                                         *)
(* The checker: a search of the parts finds exactly the prefixes of        *)
(* linearizations of the part (AllAreRight, LinearizationIsReached), and   *)
(* the parts have linearizations together if and only if the history has   *)
(* one (Locality, OkIsSound), so that a verdict other than unknown is the  *)
(* one the definition of linearizability gives.                            *)
(*                                                                         *)
(* The reasons of a rejection: what is reported of a search has been       *)
(* searched (ReportedFrom, TraceShape), its replay ends where the search   *)
(* was (NodesReplay), and an operation that could follow a prefix is in    *)
(* one (CanGoOn), so that the constraints mean what they say.              *)
(*                                                                         *)
(* The pipeline: a verdict is one that a check of the very history gave,   *)
(* the witness is a part of the history that a check rejected, too, and a  *)
(* name is one that its matcher gave of the witness.                       *)
(***************************************************************************)
EXTENDS Explainer, SequenceLemmas

\* The minimizer of Explainer, with its proofs.
DD == INSTANCE DDMinProofs WITH Op <- Operation, Calls <- {},
                                pred <- matcher, Answers <- PatternAnswers

\* A check of the history may have this result.
MayBe(hist, result) == \E trace \in Check(hist) : trace.result = result

\* s are operations of hist in their order.
IsPartOf(s, hist) == s \in Seq(Operation) /\ IsSubsequence(s, hist.ops)

\* The verdict is one that a check of the history gave; the witness of a rejection
\* is a part of the history that a check rejected, too.
AnswerWasChecked ==
    /\ expl.verdict = "linearizable" => MayBe(h, "Ok")
    /\ expl.verdict = "non-linearizable" =>
            /\ MayBe(h, "Illegal")
            /\ \E s : /\ IsPartOf(s, h)
                      /\ expl.witness = WithOps(h, s)
                      /\ MayBe(WithOps(h, s), "Illegal")

\* The inductive invariant: the first check rejected the history as long as the
\* call goes on, and what the minimizer keeps is a part of the history.
ExplainInv ==
    /\ \E F \in Families : h \in F
    /\ pc \notin {"select", "error"} => h.model \in KnownModels
    /\ matchers \in Seq(Range(All))
    /\ m \in Nat \ {0}
    /\ pc \in {"match", "minimize", "recheck"} =>
            rt \in Check(h) /\ rt.result = "Illegal"
    /\ pc \in {"minimize", "recheck"} => m <= Len(matchers)
    /\ pc \in {"select", "match"} => phase = "start"
    /\ DD!SearchInv
    /\ pc = "returned" => AnswerWasChecked

\* Whatever a check of the history or of a part of it answers, other than unknown,
\* is true.
CheckIsSound ==
    \A F \in Families : \A g \in F : \A s :
        g.model \in KnownModels /\ IsPartOf(s, g) =>
            \A trace \in Check(WithOps(g, s)) :
                /\ trace.result = "Ok" => Linearizable(WithOps(g, s))
                /\ trace.result = "Illegal" => ~Linearizable(WithOps(g, s))

-----------------------------------------------------------------------------
(* Histories and the parts that are checked on their own *)

\* A history as it is decoded and validated, of a model that there is.
Decoded(g) ==
    /\ g \in [model : STRING, init : Int, ops : Seq(OpsOf(g))]
    /\ g.model \in KnownModels
    /\ Valid(g)
    /\ \A op \in OpsOf(g) : op.id \in Int /\ op.value \in Int /\ op.call \in Int /\ op.return \in Int

\* s are the operations of g on one object, each of them once.
OnOneObject(g, a, b) == g.model = "kv" => a.key = b.key

IsPartition(g, s) ==
    /\ s \in Seq(OpsOf(g))
    /\ \A x, y \in DOMAIN s : s[x] = s[y] => x = y
    /\ \A a \in Range(s) : \A b \in OpsOf(g) : b \in Range(s) <=> OnOneObject(g, a, b)

-----------------------------------------------------------------------------
(* The value of an object *)

Writes(S) == {w \in S : IsWrite(w)}

\* What the writes W leave when they take effect in the order pos.
ValueAfter(g, pos, W) ==
    CASE g.model = "counter"            -> g.init + ValueSum(W)
      [] g.model # "counter" /\ W = {} -> InitState(g)
      [] OTHER -> (CHOOSE w \in W : \A v \in W : pos[v] <= pos[w]).value

LEMMA ReadValue ==
    ASSUME NEW g, NEW pos, NEW op
    PROVE  ValueAt(g, pos, op) = ValueAfter(g, pos, Earlier(g, pos, op))
BY DEF ValueAt, ValueAfter, ValueSum, InitState

LEMMA FiniteOps ==
    ASSUME NEW g, g.ops \in Seq(OpsOf(g))
    PROVE  IsFiniteSet(OpsOf(g))
<1> DEFINE size == Len(g.ops)
<1>1. IsFiniteSet(1..size)
  BY FS_Interval
<1>2. g.ops \in Surjection(1..size, OpsOf(g))
  BY DEF Surjection, OpsOf, Range
<1>3. QED
  BY <1>1, <1>2, FS_Surjection

LEMMA OneMoreOperation ==
    ASSUME NEW g, Decoded(g), NEW S \in SUBSET OpsOf(g), NEW op \in OpsOf(g), op \notin S,
           NEW pos \in [OpsOf(g) -> Int], \A w \in S : pos[w] < pos[op]
    PROVE  ValueAfter(g, pos, Writes(S \union {op})) =
                Apply(g, op, ValueAfter(g, pos, Writes(S)))
<1> DEFINE W == Writes(S)
<1>1. CASE ~IsWrite(op)
  <2>1. Writes(S \union {op}) = W
    BY <1>1 DEF Writes
  <2>2. QED
    BY <1>1, <2>1 DEF Apply
<1>2. CASE IsWrite(op) /\ g.model = "counter"
  <2>1. Writes(S \union {op}) = W \union {op} /\ op \notin W
    BY <1>2 DEF Writes
  <2>2. IsFiniteSet(W)
    <3>1. IsFiniteSet(OpsOf(g))
      BY FiniteOps DEF Decoded
    <3>2. W \in SUBSET OpsOf(g)
      BY DEF Writes
    <3>3. QED
      BY <3>1, <3>2, FS_Subset
  <2>3. \A y \in W \union {op} : y.value \in Int
    BY DEF Writes, Decoded
  <2>4. ValueSum(W) \in Int /\ ValueSum(W \union {op}) = ValueSum(W) + op.value
    BY <2>1, <2>2, <2>3, SumOfOneMore
  <2>5. g.init \in Int /\ op.value \in Int
    BY DEF Decoded
  <2> HIDE DEF W
  <2>6. /\ ValueAfter(g, pos, W \union {op}) = g.init + ValueSum(W \union {op})
        /\ Apply(g, op, ValueAfter(g, pos, W)) = g.init + ValueSum(W) + op.value
    BY <1>2 DEF ValueAfter, Apply
  <2>7. g.init + ValueSum(W \union {op}) = g.init + ValueSum(W) + op.value
    BY <2>4, <2>5
  <2>8. ValueAfter(g, pos, W \union {op}) = Apply(g, op, ValueAfter(g, pos, W))
    BY <2>6, <2>7
  <2>9. Writes(S \union {op}) = W \union {op} /\ Writes(S) = W
    BY <2>1 DEF W
  <2>10. QED
    BY <2>8, <2>9
<1>3. CASE IsWrite(op) /\ g.model # "counter"
  <2>1. Writes(S \union {op}) = W \union {op}
    BY <1>3 DEF Writes
  <2>2. \A w \in W : pos[w] < pos[op] /\ pos[w] \in Int
    BY DEF Writes
  <2>3. pos[op] \in Int
    OBVIOUS
  <2> HIDE DEF W
  <2>4. \A v \in W \union {op} : pos[v] <= pos[op]
    BY <2>2, <2>3
  <2>5. \A w \in W \union {op} : (\A v \in W \union {op} : pos[v] <= pos[w]) => w = op
    BY <2>2, <2>3
  <2>6. (CHOOSE w \in W \union {op} : \A v \in W \union {op} : pos[v] <= pos[w]) = op
    BY <2>4, <2>5
  <2>7. ValueAfter(g, pos, W \union {op}) = op.value
    BY <1>3, <2>6 DEF ValueAfter
  <2>8. QED
    BY <1>3, <2>1, <2>7 DEF Apply
<1>4. QED
  BY <1>1, <1>2, <1>3

-----------------------------------------------------------------------------
(* The parts *)

\* q are the first k of s at the positions P, each of them once.
OnlySoFar(s, P, k, q) ==
    /\ \A x, y \in DOMAIN q : q[x] = q[y] => x = y
    /\ \A x \in DOMAIN q : \E j \in 1..k : j \in P /\ q[x] = s[j]
    /\ \A j \in 1..k : j \in P => \E x \in DOMAIN q : q[x] = s[j]

\* One position more, which is in P.
LEMMA OneMoreKept ==
    ASSUME NEW R, NEW s \in Seq(R), DistinctIds(s), NEW P, NEW k \in 1..Len(s), k \in P,
           NEW q \in Seq(R), OnlySoFar(s, P, k - 1, q)
    PROVE  Append(q, s[k]) \in Seq(R) /\ OnlySoFar(s, P, k, Append(q, s[k]))
<1> DEFINE op == s[k]
           r == Append(q, op)
<1>1. op \in R /\ k \in Nat /\ k \in 1..k /\ (\A j \in 1..k - 1 : s[j] # op /\ j \in 1..k)
      /\ \A j \in 1..k : j = k \/ j \in 1..k - 1
  BY DEF DistinctIds
<1>2. PICK last \in Nat : last = Len(q) + 1
  OBVIOUS
<1>3. /\ DOMAIN r = 1..last /\ DOMAIN q = 1..last - 1
      /\ r \in Seq(R) /\ r[last] = op
      /\ \A x \in 1..last - 1 : r[x] = q[x]
  BY SMTT(30), <1>1, <1>2
<1> HIDE DEF r
<1>4. last \in DOMAIN r /\ \A x \in DOMAIN r : x = last \/ x \in DOMAIN q
  BY <1>2, <1>3
<1>5. \A x \in DOMAIN q : x \in DOMAIN r /\ r[x] = q[x]
  BY <1>2, <1>3
<1> HIDE DEF op
<1>6. \A x \in DOMAIN q : \E j \in 1..k - 1 : j \in P /\ q[x] = s[j]
  BY DEF OnlySoFar
<1>7. \A x \in DOMAIN q : r[x] # op
  BY <1>1, <1>5, <1>6
<1>8. \A x, y \in DOMAIN r : r[x] = r[y] => x = y
  BY <1>3, <1>4, <1>5, <1>7 DEF OnlySoFar
<1>9. \A x \in DOMAIN r : \E j \in 1..k : j \in P /\ r[x] = s[j]
  BY <1>1, <1>3, <1>4, <1>5, <1>6 DEF op
<1>10. \A j \in 1..k : j \in P => \E x \in DOMAIN r : r[x] = s[j]
  BY <1>1, <1>3, <1>4, <1>5, SMTT(30) DEF op, OnlySoFar
<1>11. QED
  BY <1>3, <1>8, <1>9, <1>10 DEF OnlySoFar, r, op

\* One position more, which is not.
LEMMA OneMoreLeft ==
    ASSUME NEW s, NEW P, NEW k \in Nat, k \notin P, NEW q, OnlySoFar(s, P, k - 1, q)
    PROVE  OnlySoFar(s, P, k, q)
<1>1. \A j \in 1..k : j = k \/ j \in 1..k - 1
  OBVIOUS
<1>2. \A j \in 1..k - 1 : j \in 1..k
  OBVIOUS
<1>3. QED
  BY <1>1, <1>2 DEF OnlySoFar

\* What is kept are the elements at these positions and no others, each once.
LEMMA OnlyThose ==
    ASSUME NEW R, NEW s \in Seq(R), DistinctIds(s), NEW P
    PROVE  Only(s, P) \in Seq(R) /\ OnlySoFar(s, P, Len(s), Only(s, P))
<1> DEFINE size == Len(s)
           A == Seq(R)
           Grown(k, q) == IF k \in P THEN Append(q, s[k]) ELSE q
           step == [p \in (1..size) \X A |-> Grown(p[1], p[2])]
           Recursion(f) ==
               f = [k \in 0..size |-> IF k = 0 THEN <<>>
                                      ELSE IF k \in P THEN Append(f[k - 1], s[k])
                                      ELSE f[k - 1]]
           upTo == CHOOSE f : Recursion(f)
<1>1. Only(s, P) = upTo[size]
  BY DEF Only
<1>2. size \in Nat /\ DOMAIN s = 1..size /\ <<>> \in A
  OBVIOUS
<1>3. \A k \in 1..size, q \in A : Grown(k, q) \in A
  OBVIOUS
<1>4. step \in [(1..size) \X A -> A]
  BY <1>3
<1>5. \A k \in 1..size, q \in A : step[<<k, q>>] = Grown(k, q)
  OBVIOUS
<1> HIDE DEF step, A
<1>6. PICK f \in [0..size -> A] : StepsFrom(f, size, <<>>, step)
  BY <1>2, <1>4, RecursionExists
<1>7. ASSUME NEW k \in 0..size
      PROVE  f[k] = IF k = 0 THEN <<>> ELSE IF k \in P THEN Append(f[k - 1], s[k]) ELSE f[k - 1]
  <2>1. CASE k = 0
    BY <1>6, <2>1 DEF StepsFrom
  <2>2. CASE k # 0
    <3>1. k \in 1..size /\ k - 1 \in 0..size
      BY <1>2, <2>2
    <3>2. f[k - 1] \in A
      BY <1>6, <3>1
    <3>3. f[k] = step[<<k, f[k - 1]>>]
      BY <1>6, <3>1 DEF StepsFrom
    <3>4. QED
      BY <1>5, <2>2, <3>1, <3>2, <3>3
  <2>3. QED
    BY <2>1, <2>2
<1>8. Recursion(f)
  BY <1>6, <1>7
<1>9. Recursion(upTo)
  BY <1>8
<1> HIDE DEF upTo
<1>10. upTo[0] = <<>>
  BY <1>2, <1>9
<1>11. ASSUME NEW k \in 1..size
       PROVE  upTo[k] = Grown(k, upTo[k - 1])
  <2>1. k \in 0..size /\ k # 0
    BY <1>2
  <2>2. QED
    BY <1>9, <2>1
<1> DEFINE T == {k \in 0..size : upTo[k] \in Seq(R) /\ OnlySoFar(s, P, k, upTo[k])}
<1>12. 0 \in T
  <2>1. OnlySoFar(s, P, 0, <<>>)
    BY DEF OnlySoFar
  <2>2. QED
    BY <1>2, <1>10, <2>1
<1>13. ASSUME NEW k \in 1..size, k - 1 \in T
       PROVE  k \in T
  <2> DEFINE q == upTo[k - 1]
  <2>1. q \in Seq(R) /\ OnlySoFar(s, P, k - 1, q) /\ k \in Nat /\ k \in 0..size /\ k \in 1..Len(s)
    BY <1>13
  <2>2. CASE k \in P
    <3> HIDE DEF q
    <3>1. Append(q, s[k]) \in Seq(R) /\ OnlySoFar(s, P, k, Append(q, s[k]))
      BY <2>1, <2>2, OneMoreKept
    <3>2. upTo[k] = Append(q, s[k])
      BY <1>11, <2>2 DEF q
    <3>3. QED
      BY <2>1, <3>1, <3>2
  <2>3. CASE k \notin P
    <3> HIDE DEF q
    <3>1. OnlySoFar(s, P, k, q)
      BY <2>1, <2>3, OneMoreLeft
    <3>2. upTo[k] = q
      BY <1>11, <2>3 DEF q
    <3>3. QED
      BY <2>1, <3>1, <3>2
  <2>4. QED
    BY <2>2, <2>3
<1>14. size \in T
  <2> HIDE DEF T
  <2>1. 0..size \subseteq T
    BY <1>2, <1>12, <1>13, UpTo
  <2>2. QED
    BY <1>2, <2>1
<1>15. QED
  BY <1>1, <1>14

\* The same, of the set of what is kept.
LEMMA RangeOfOnly ==
    ASSUME NEW R, NEW s \in Seq(R), DistinctIds(s), NEW P
    PROVE  /\ Range(Only(s, P)) = {s[j] : j \in P \cap DOMAIN s}
           /\ \A x, y \in DOMAIN Only(s, P) : Only(s, P)[x] = Only(s, P)[y] => x = y
<1>1. DOMAIN s = 1..Len(s)
  OBVIOUS
<1>2. OnlySoFar(s, P, Len(s), Only(s, P))
  BY OnlyThose
<1>3. QED
  BY <1>1, <1>2 DEF OnlySoFar, Range

\* Each part has all operations on one object, and each operation is in one.
LEMMA PartsArePartitions ==
    ASSUME NEW g, Decoded(g)
    PROVE  /\ DOMAIN Partition(g) \in SUBSET Nat
           /\ \A k \in DOMAIN Partition(g) : IsPartition(g, Partition(g)[k])
           /\ \A op \in OpsOf(g) : \E k \in DOMAIN Partition(g) : op \in Range(Partition(g)[k])
           /\ \A op \in OpsOf(g) : \A a, b \in DOMAIN Partition(g) :
                op \in Range(Partition(g)[a]) /\ op \in Range(Partition(g)[b]) => a = b
<1> DEFINE O == OpsOf(g)
           s == g.ops
<1>1. s \in Seq(O) /\ DistinctIds(s) /\ O = {s[j] : j \in DOMAIN s}
  BY DEF Decoded, Valid, DistinctIds, OpsOf, Range
<1>2. \A a, b \in DOMAIN s : s[a] = s[b] => a = b
  BY <1>1 DEF DistinctIds
<1>3. CASE g.model # "kv"
  <2>1. Partition(g) = <<s>>
    BY <1>3 DEF Partition
  <2>2. DOMAIN Partition(g) = {1} /\ Partition(g)[1] = s /\ Range(s) = O
    BY <2>1 DEF OpsOf
  <2>3. IsPartition(g, s)
    BY <1>1, <1>2, <1>3, <2>2 DEF IsPartition, OnOneObject
  <2>4. QED
    BY <2>2, <2>3
<1>4. CASE g.model = "kv"
  <2> DEFINE firsts == FirstOfKey(s)
             order == Only(s, firsts)
             Of(key) == {j \in DOMAIN s : s[j].key = key}
             byKey == [key \in {op.key : op \in O} |-> Only(s, Of(key))]
             part == [p \in DOMAIN order |-> byKey[order[p].key]]
  <2>1. Partition(g) = part
    BY <1>4 DEF Partition
  <2>2. DOMAIN s = 1..Len(s) /\ Len(s) \in Nat
    BY <1>1
  <2>3. order \in Seq(O)
    BY <1>1, OnlyThose
  <2>4. Range(order) = {s[j] : j \in firsts}
    <3>1. firsts \cap DOMAIN s = firsts
      BY DEF FirstOfKey
    <3>2. QED
      BY <1>1, <3>1, RangeOfOnly
  <2>5. \A x, y \in DOMAIN order : order[x] = order[y] => x = y
    BY <1>1, RangeOfOnly
  <2> HIDE DEF order
  <2>6. ASSUME NEW p \in DOMAIN order
        PROVE  /\ order[p] \in O
               /\ part[p] = Only(s, Of(order[p].key))
    <3>1. order[p] \in O /\ order[p].key \in {op.key : op \in O}
      BY <2>3
    <3> HIDE DEF Of, s, O
    <3>2. QED
      BY <3>1
  <2>7. ASSUME NEW key
        PROVE  /\ Only(s, Of(key)) \in Seq(O)
               /\ \A x, y \in DOMAIN Only(s, Of(key)) :
                    Only(s, Of(key))[x] = Only(s, Of(key))[y] => x = y
               /\ Range(Only(s, Of(key))) = {op \in O : op.key = key}
    <3>1. Only(s, Of(key)) \in Seq(O)
      BY <1>1, OnlyThose
    <3>2. Range(Only(s, Of(key))) = {s[j] : j \in Of(key) \cap DOMAIN s}
      BY <1>1, RangeOfOnly
    <3>3. \A x, y \in DOMAIN Only(s, Of(key)) : Only(s, Of(key))[x] = Only(s, Of(key))[y] => x = y
      BY <1>1, RangeOfOnly
    <3>4. {s[j] : j \in Of(key) \cap DOMAIN s} = {op \in O : op.key = key}
      BY <1>1
    <3>5. QED
      BY <3>1, <3>2, <3>3, <3>4
  <2>8. ASSUME NEW op \in O
        PROVE  \E p \in DOMAIN order : order[p].key = op.key
    <3> DEFINE J == {j \in DOMAIN s : s[j].key = op.key}
    <3>1. J \in SUBSET Nat /\ J # {}
      BY <1>1, <2>2
    <3>2. PICK j \in J : \A x \in J : j <= x
      BY <3>1, Smallest
    <3>3. \A x \in 1..j - 1 : x \in DOMAIN s /\ x < j
      BY <2>2, <3>2
    <3>4. j \in firsts
      BY <2>2, <3>2, <3>3 DEF FirstOfKey
    <3>5. s[j] \in Range(order)
      BY <2>4, <3>4
    <3>6. QED
      BY <3>2, <3>5 DEF Range
  <2>9. ASSUME NEW a \in DOMAIN order, NEW b \in DOMAIN order, order[a].key = order[b].key
        PROVE  a = b
    <3>1. order[a] \in Range(order) /\ order[b] \in Range(order)
      BY DEF Range
    <3>2. PICK x \in firsts, y \in firsts : order[a] = s[x] /\ order[b] = s[y]
      BY <2>4, <3>1
    <3>3. /\ x \in 1..Len(s) /\ y \in 1..Len(s) /\ s[x].key = s[y].key
          /\ \A j \in 1..x - 1 : s[j].key # s[x].key
          /\ \A j \in 1..y - 1 : s[j].key # s[y].key
      BY <2>2, <2>9, <3>2 DEF FirstOfKey
    <3>4. x = y
      BY <2>2, <3>3
    <3>5. QED
      BY <2>5, <3>2, <3>4
  <2> HIDE DEF Of, s, O
  <2>10. ASSUME NEW p \in DOMAIN order
         PROVE  /\ IsPartition(g, part[p])
                /\ Range(part[p]) = {op \in O : op.key = order[p].key}
    <3>1. /\ part[p] \in Seq(O)
          /\ \A x, y \in DOMAIN part[p] : part[p][x] = part[p][y] => x = y
          /\ Range(part[p]) = {op \in O : op.key = order[p].key}
      BY <2>6, <2>7
    <3>2. \A a \in Range(part[p]) : \A b \in O : b \in Range(part[p]) <=> OnOneObject(g, a, b)
      BY <1>4, <3>1 DEF OnOneObject
    <3>3. QED
      BY <3>1, <3>2 DEF IsPartition, O
  <2>11. DOMAIN part = DOMAIN order /\ DOMAIN order \in SUBSET Nat
    BY <2>3
  <2> HIDE DEF part
  <2>12. \A op \in O : \E k \in DOMAIN part : op \in Range(part[k])
    BY <2>8, <2>10, <2>11
  <2>13. \A op \in O : \A a, b \in DOMAIN part :
            op \in Range(part[a]) /\ op \in Range(part[b]) => a = b
    BY <2>9, <2>10, <2>11
  <2>14. QED
    BY <2>1, <2>10, <2>11, <2>12, <2>13 DEF O
<1>5. QED
  BY <1>3, <1>4

-----------------------------------------------------------------------------
(* The nodes of the search *)

\* The nodes of each length that the search reaches.
AreNodes(f, g, s) ==
    /\ f[0] = {Root(g)}
    /\ \A k \in 1..Len(s) : f[k] = UNION {Children(g, s, node) : node \in f[k - 1]}
    /\ \A k \in 0..Len(s) : Reached(g, s)[k] = {node.prefix : node \in f[k]}

NodesOver(s) == [prefix : Seq(DOMAIN s), state : Int]

LEMMA ChildrenAreNodes ==
    ASSUME NEW g, Decoded(g), NEW s \in Seq(OpsOf(g)), NEW node \in NodesOver(s)
    PROVE  Children(g, s, node) \in SUBSET NodesOver(s)
<1>1. SUFFICES ASSUME NEW k \in MayFollow(s, node)
               PROVE  [prefix |-> Append(node.prefix, k),
                       state |-> Apply(g, s[k], node.state)] \in NodesOver(s)
  BY DEF Children
<1>2. k \in DOMAIN s /\ s[k] \in OpsOf(g)
  BY DEF MayFollow
<1>3. node.prefix \in Seq(DOMAIN s) /\ node.state \in Int
  BY DEF NodesOver
<1>4. Append(node.prefix, k) \in Seq(DOMAIN s)
  BY <1>2, <1>3
<1>5. Apply(g, s[k], node.state) \in Int
  <2>1. s[k].value \in Int
    BY <1>2 DEF Decoded
  <2>2. CASE IsWrite(s[k]) /\ g.model = "counter"
    BY <1>3, <2>1, <2>2 DEF Apply
  <2>3. CASE IsWrite(s[k]) /\ g.model # "counter"
    BY <1>3, <2>1, <2>3 DEF Apply
  <2>4. CASE ~IsWrite(s[k])
    BY <1>3, <2>4 DEF Apply
  <2>5. QED
    BY <2>2, <2>3, <2>4
<1>6. QED
  BY <1>4, <1>5 DEF NodesOver

\* The levels of the search, unfolded by one.
LEMMA ReachedUnfolds ==
    ASSUME NEW g, Decoded(g), NEW s \in Seq(OpsOf(g))
    PROVE  \E f : AreNodes(f, g, s)
<1> DEFINE size == Len(s)
           A == SUBSET NodesOver(s)
           base == {Root(g)}
           Grown(N) == UNION {Children(g, s, node) : node \in N}
           step == [p \in (1..size) \X A |-> Grown(p[2])]
           Recursion(f) ==
               f = [len \in 0..size |-> IF len = 0 THEN {Root(g)} ELSE Grown(f[len - 1])]
           nodes == CHOOSE f : Recursion(f)
<1>1. size \in Nat
  OBVIOUS
<1>2. \A N \in A : Grown(N) \in A
  BY ChildrenAreNodes
<1>3. step \in [(1..size) \X A -> A]
  BY <1>2
<1>4. base \in A
  <2>1. InitState(g) \in Int
    BY DEF InitState, Decoded
  <2>2. QED
    BY <2>1 DEF Root, NodesOver
<1>5. \A k \in 1..size, N \in A : step[<<k, N>>] = Grown(N)
  OBVIOUS
<1>6. Reached(g, s) = [len \in 0..size |-> {node.prefix : node \in nodes[len]}]
  BY DEF Reached
<1> HIDE DEF A, step, Grown, size, base
<1>7. PICK f \in [0..size -> A] : StepsFrom(f, size, base, step)
  BY <1>1, <1>3, <1>4, RecursionExists
<1>8. ASSUME NEW len \in 0..size
      PROVE  f[len] = IF len = 0 THEN {Root(g)} ELSE Grown(f[len - 1])
  <2>1. CASE len = 0
    BY <1>7, <2>1 DEF base, StepsFrom
  <2>2. CASE len # 0
    <3>1. len \in 1..size /\ len - 1 \in 0..size
      BY <1>1, <2>2
    <3>2. f[len - 1] \in A
      BY <1>7, <3>1
    <3>3. f[len] = step[<<len, f[len - 1]>>]
      BY <1>7, <3>1 DEF StepsFrom
    <3>4. QED
      BY <1>5, <2>2, <3>1, <3>2, <3>3
  <2>3. QED
    BY <2>1, <2>2
<1>9. Recursion(f)
  BY <1>7, <1>8
<1>10. Recursion(nodes)
  BY <1>9
<1> HIDE DEF nodes
<1>11. nodes[0] = {Root(g)}
  BY <1>1, <1>10
<1>12. \A k \in 1..size : nodes[k] = Grown(nodes[k - 1])
  <2>1. SUFFICES ASSUME NEW k \in 1..size
                 PROVE  nodes[k] = Grown(nodes[k - 1])
    OBVIOUS
  <2>2. k \in 0..size /\ k # 0
    BY <1>1
  <2>3. QED
    BY <1>10, <2>2
<1>13. AreNodes(nodes, g, s)
  BY <1>6, <1>11, <1>12 DEF AreNodes, Grown, size
<1>14. QED
  BY <1>13

-----------------------------------------------------------------------------
(* What the search reaches *)

\* The operations at the first k positions of p.
Taken(s, p, k) == {s[p[j]] : j \in 1..k}

Increasing(s, p, k, pos) ==
    \A a, b \in 1..k : a < b => pos[s[p[a]]] < pos[s[p[b]]]

\* p puts k operations of s in an order, and no other operation precedes one of
\* them.
Orders(s, p, k) ==
    /\ p \in [1..k -> DOMAIN s]
    /\ \A a, b \in 1..k : p[a] = p[b] => a = b
    /\ \A a \in 1..k : \A y \in DOMAIN s :
         Precedes(s[y], s[p[a]]) => \E b \in 1..k : b < a /\ p[b] = y

\* Each of them is legal after those before it.
LegalInTurn(g, s, p, k, pos) ==
    \A a \in 1..k : Legal(s[p[a]], ValueAfter(g, pos, Writes(Taken(s, p, a - 1))))

RightlyReached(g, s, k, node) ==
    /\ node.prefix \in Seq(DOMAIN s) /\ Len(node.prefix) = k
    /\ Orders(s, node.prefix, k)
    /\ \A pos \in [OpsOf(g) -> Int] : Increasing(s, node.prefix, k, pos) =>
         /\ node.state = ValueAfter(g, pos, Writes(Taken(s, node.prefix, k)))
         /\ LegalInTurn(g, s, node.prefix, k, pos)

LEMMA RootIsRight ==
    ASSUME NEW g, Decoded(g), NEW s \in Seq(OpsOf(g))
    PROVE  RightlyReached(g, s, 0, Root(g))
<1> DEFINE p == Root(g).prefix
<1>1. p = <<>> /\ p \in Seq(DOMAIN s) /\ Len(p) = 0 /\ Root(g).state = InitState(g)
  BY DEF Root
<1>2. 1..0 = {} /\ p \in [1..0 -> DOMAIN s]
  BY <1>1
<1>3. Orders(s, p, 0)
  BY <1>2 DEF Orders
<1>4. Writes(Taken(s, p, 0)) = {}
  BY <1>2 DEF Taken, Writes
<1>5. \A pos : ValueAfter(g, pos, {}) = InitState(g)
  <2>1. CASE g.model = "counter"
    <3>1. ValueSum({}) = 0
      <4> DEFINE S == {}
                 x == [value |-> 0]
      <4>1. IsFiniteSet(S) /\ x \notin S /\ \A y \in S \union {x} : y.value \in Int
        BY FS_EmptySet
      <4> HIDE DEF S, x
      <4>2. ValueSum({}) = 0
        BY <4>1, SumOfOneMore
      <4>3. QED
        BY <4>2
    <3>2. g.init \in Int /\ g.model # "kv"
      BY <2>1 DEF Decoded
    <3>3. QED
      BY <2>1, <3>1, <3>2 DEF ValueAfter, InitState
  <2>2. CASE g.model # "counter"
    BY <2>2 DEF ValueAfter
  <2>3. QED
    BY <2>1, <2>2
<1>6. \A pos : LegalInTurn(g, s, p, 0, pos)
  BY <1>2 DEF LegalInTurn
<1>7. QED
  BY <1>1, <1>3, <1>4, <1>5, <1>6 DEF RightlyReached

\* q is p with x behind it.
Follows(q, p, x, k) ==
    /\ \A j \in 1..k - 1 : q[j] = p[j]
    /\ q[k] = x

LEMMA TakenTogether ==
    ASSUME NEW s, NEW k \in Nat \ {0}, NEW p, NEW x, NEW q, Follows(q, p, x, k)
    PROVE  /\ \A a \in 0..k - 1 : Taken(s, q, a) = Taken(s, p, a)
           /\ Taken(s, q, k) = Taken(s, p, k - 1) \union {s[x]}
<1>1. \A a \in 0..k - 1 : \A j \in 1..a : q[j] = p[j]
  BY DEF Follows
<1>2. \A a \in 0..k - 1 : Taken(s, q, a) = Taken(s, p, a)
  BY <1>1 DEF Taken
<1>3. \A j \in 1..k : j = k \/ j \in 1..k - 1
  OBVIOUS
<1>4. k \in 1..k /\ \A j \in 1..k - 1 : j \in 1..k
  OBVIOUS
<1>5. Taken(s, q, k) = Taken(s, p, k - 1) \union {s[x]}
  <2>1. ASSUME NEW y \in Taken(s, q, k)
        PROVE  y \in Taken(s, p, k - 1) \union {s[x]}
    BY <1>3 DEF Taken, Follows
  <2>2. ASSUME NEW y \in Taken(s, p, k - 1) \union {s[x]}
        PROVE  y \in Taken(s, q, k)
    BY <1>4 DEF Taken, Follows
  <2>3. QED
    BY <2>1, <2>2
<1>6. QED
  BY <1>2, <1>5

LEMMA ChildIsRight ==
    ASSUME NEW g, Decoded(g), NEW s \in Seq(OpsOf(g)), \A a, b \in DOMAIN s : s[a] = s[b] => a = b,
           NEW k \in Nat \ {0}, NEW node, RightlyReached(g, s, k - 1, node),
           NEW child \in Children(g, s, node)
    PROVE  RightlyReached(g, s, k, child)
<1>1. PICK x \in MayFollow(s, node) :
        child = [prefix |-> Append(node.prefix, x), state |-> Apply(g, s[x], node.state)]
  BY DEF Children
<1> DEFINE p == node.prefix
           q == child.prefix
<1>2. p \in Seq(DOMAIN s) /\ Len(p) = k - 1 /\ Orders(s, p, k - 1)
  BY DEF RightlyReached
<1>3. x \in DOMAIN s /\ q = Append(p, x) /\ child.state = Apply(g, s[x], node.state)
  BY <1>1 DEF MayFollow
<1>4. q \in Seq(DOMAIN s) /\ Len(q) = k /\ q \in [1..k -> DOMAIN s] /\ Follows(q, p, x, k)
  <2> HIDE DEF p, q
  <2>1. Len(p) + 1 = k /\ \A j \in 1..k - 1 : j \in 1..Len(p)
    BY <1>2
  <2>2. q \in Seq(DOMAIN s) /\ Len(q) = Len(p) + 1
    BY <1>2, <1>3
  <2>3. q[Len(p) + 1] = x /\ \A j \in 1..Len(p) : q[j] = p[j]
    BY <1>2, <1>3
  <2>4. q \in [1..Len(q) -> DOMAIN s]
    BY <2>2
  <2>5. QED
    BY <2>1, <2>2, <2>3, <2>4 DEF Follows
<1>5. Range(p) = {p[j] : j \in 1..k - 1}
  BY <1>2 DEF Range
<1>6. /\ \A j \in 1..k - 1 : p[j] # x
      /\ Legal(s[x], node.state)
      /\ \A y \in DOMAIN s : Precedes(s[y], s[x]) => \E b \in 1..k - 1 : p[b] = y
  BY <1>1, <1>5 DEF MayFollow
<1>7. /\ \A j \in 1..k - 1 : q[j] = p[j] /\ j \in 1..k /\ j < k
      /\ q[k] = x /\ \A j \in 1..k : j = k \/ j \in 1..k - 1
  BY <1>4 DEF Follows
<1> HIDE DEF p, q
<1>8. \A a, b \in 1..k : q[a] = q[b] => a = b
  BY <1>2, <1>6, <1>7 DEF Orders
<1>9. ASSUME NEW a \in 1..k, NEW y \in DOMAIN s, Precedes(s[y], s[q[a]])
      PROVE  \E b \in 1..k : b < a /\ q[b] = y
  <2>1. CASE a = k
    BY <1>6, <1>7, <1>9, <2>1
  <2>2. CASE a \in 1..k - 1
    <3>1. Precedes(s[y], s[p[a]])
      BY <1>7, <1>9, <2>2
    <3>2. PICK b \in 1..k - 1 : b < a /\ p[b] = y
      BY <1>2, <2>2, <3>1 DEF Orders
    <3>3. QED
      BY <1>7, <3>2
  <2>3. QED
    BY <1>7, <2>1, <2>2
<1>10. Orders(s, q, k)
  BY <1>4, <1>8, <1>9 DEF Orders
<1>11. ASSUME NEW pos \in [OpsOf(g) -> Int], Increasing(s, q, k, pos)
       PROVE  /\ child.state = ValueAfter(g, pos, Writes(Taken(s, q, k)))
              /\ LegalInTurn(g, s, q, k, pos)
  <2> DEFINE S == Taken(s, p, k - 1)
             op == s[x]
  <2>1. Increasing(s, p, k - 1, pos)
    BY <1>7, <1>11 DEF Increasing
  <2>2. node.state = ValueAfter(g, pos, Writes(S)) /\ LegalInTurn(g, s, p, k - 1, pos)
    BY <2>1 DEF RightlyReached, p
  <2>3. S \in SUBSET OpsOf(g) /\ op \in OpsOf(g) /\ op \notin S
    <3>1. \A j \in 1..k - 1 : p[j] \in DOMAIN s /\ s[p[j]] \in OpsOf(g) /\ s[p[j]] # s[x]
      BY <1>2, <1>3, <1>6 DEF Orders
    <3>2. QED
      BY <1>3, <3>1 DEF Taken
  <2>4. \A w \in S : pos[w] < pos[op]
    <3>1. SUFFICES ASSUME NEW j \in 1..k - 1
                   PROVE  pos[s[p[j]]] < pos[s[x]]
      BY DEF Taken
    <3>2. j \in 1..k /\ k \in 1..k /\ j < k /\ q[j] = p[j] /\ q[k] = x
      BY <1>7
    <3>3. QED
      BY <1>11, <3>2 DEF Increasing
  <2>5. /\ \A a \in 0..k - 1 : Taken(s, q, a) = Taken(s, p, a)
        /\ Taken(s, q, k) = S \union {op}
    BY <1>4, TakenTogether DEF p, q
  <2> HIDE DEF S, op
  <2>6. ValueAfter(g, pos, Writes(S \union {op})) = Apply(g, op, ValueAfter(g, pos, Writes(S)))
    BY <2>3, <2>4, OneMoreOperation
  <2>7. child.state = ValueAfter(g, pos, Writes(Taken(s, q, k)))
    BY <1>3, <2>2, <2>5, <2>6 DEF op
  <2>8. ASSUME NEW a \in 1..k
        PROVE  Legal(s[q[a]], ValueAfter(g, pos, Writes(Taken(s, q, a - 1))))
    <3>0. a - 1 \in 0..k - 1
      OBVIOUS
    <3>1. CASE a = k
      BY <1>6, <1>7, <2>2, <2>5, <3>0, <3>1 DEF S
    <3>2. CASE a \in 1..k - 1
      BY <1>7, <2>2, <2>5, <3>0, <3>2 DEF LegalInTurn
    <3>3. QED
      BY <1>7, <3>1, <3>2
  <2>9. QED
    BY <2>7, <2>8 DEF LegalInTurn
<1>12. QED
  BY <1>4, <1>10, <1>11 DEF RightlyReached, q

\* Whatever is reached, is in an order that real time and the model allow.
LEMMA AllAreRight ==
    ASSUME NEW g, Decoded(g), NEW s, IsPartition(g, s), NEW f, AreNodes(f, g, s)
    PROVE  \A k \in 0..Len(s) : \A node \in f[k] : RightlyReached(g, s, k, node)
<1> DEFINE size == Len(s)
           T == {k \in 0..size : \A node \in f[k] : RightlyReached(g, s, k, node)}
<1>1. s \in Seq(OpsOf(g)) /\ size \in Nat /\ \A a, b \in DOMAIN s : s[a] = s[b] => a = b
  BY DEF IsPartition
<1>2. 0 \in T
  BY <1>1, RootIsRight DEF AreNodes
<1>3. ASSUME NEW k \in 1..size, k - 1 \in T
      PROVE  k \in T
  <2>1. SUFFICES ASSUME NEW child \in f[k]
                 PROVE  RightlyReached(g, s, k, child)
    OBVIOUS
  <2>2. PICK node \in f[k - 1] : child \in Children(g, s, node)
    BY DEF AreNodes
  <2>3. RightlyReached(g, s, k - 1, node) /\ k \in Nat \ {0}
    BY <1>3
  <2>4. QED
    BY <1>1, <2>2, <2>3, ChildIsRight
<1>4. QED
  <2> HIDE DEF T
  <2>1. 0..size \subseteq T
    BY <1>1, <1>2, <1>3, UpTo
  <2>2. QED
    BY <2>1 DEF T

\* An order of the whole part that the search has found.
Solves(g, s, p) ==
    /\ Orders(s, p, Len(s))
    /\ \A op \in Range(s) : \E a \in 1..Len(s) : s[p[a]] = op
    /\ \A pos \in [OpsOf(g) -> Int] :
         Increasing(s, p, Len(s), pos) => LegalInTurn(g, s, p, Len(s), pos)

LEMMA FullPrefixSolves ==
    ASSUME NEW g, Decoded(g), NEW s, IsPartition(g, s), Reached(g, s)[Len(s)] # {}
    PROVE  \E p : Solves(g, s, p)
<1> DEFINE size == Len(s)
<1>1. s \in Seq(OpsOf(g)) /\ size \in Nat /\ DOMAIN s = 1..size
  BY DEF IsPartition
<1>2. PICK f : AreNodes(f, g, s)
  BY <1>1, ReachedUnfolds
<1>3. size \in 0..size
  BY <1>1
<1>4. PICK node \in f[size] : TRUE
  BY <1>2, <1>3 DEF AreNodes
<1> DEFINE p == node.prefix
<1>5. RightlyReached(g, s, size, node)
  BY <1>2, <1>3, <1>4, AllAreRight
<1>6. p \in [1..size -> 1..size] /\ \A a, b \in 1..size : p[a] = p[b] => a = b
  BY <1>1, <1>5 DEF RightlyReached, Orders
<1> HIDE DEF p, size
<1>7. p \in Injection(1..size, 1..size)
  BY <1>6 DEF Injection, IsInjective
<1>8. p \in Surjection(1..size, 1..size)
  <2>1. IsFiniteSet(1..size) /\ Cardinality(1..size) = size
    BY <1>1, FS_Interval
  <2>2. QED
    BY <1>7, <2>1, FS_Injection
<1>9. ASSUME NEW op \in Range(s)
      PROVE  \E a \in 1..size : s[p[a]] = op
  <2>1. PICK j \in 1..size : s[j] = op
    BY <1>1 DEF Range
  <2>2. PICK a \in 1..size : p[a] = j
    BY <1>8 DEF Surjection
  <2>3. QED
    BY <2>1, <2>2
<1>10. Solves(g, s, p)
  BY <1>5, <1>9 DEF Solves, RightlyReached, p, size
<1>11. QED
  BY <1>10

-----------------------------------------------------------------------------
(* Every linearization is found *)

\* The positions of s in the order pos.
LEMMA SortedBy ==
    ASSUME NEW g, NEW s, IsPartition(g, s), NEW pos \in [OpsOf(g) -> Int],
           \A a, b \in OpsOf(g) : pos[a] = pos[b] => a = b
    PROVE  \E p \in [1..Len(s) -> 1..Len(s)] :
              /\ \A j \in 1..Len(s) : \E a \in 1..Len(s) : p[a] = j
              /\ Increasing(s, p, Len(s), pos)
<1> DEFINE size == Len(s)
           D == 1..size
           lt == {e \in D \X D : pos[s[e[1]]] < pos[s[e[2]]]}
<1>1. s \in Seq(OpsOf(g)) /\ size \in Nat /\ DOMAIN s = D
  BY DEF IsPartition
<1>2. \A a \in D : s[a] \in OpsOf(g) /\ pos[s[a]] \in Int
  BY <1>1
<1>3. \A a, b \in D : <<a, b>> \in lt <=> pos[s[a]] < pos[s[b]]
  OBVIOUS
<1>4. \A a, b \in D : pos[s[a]] = pos[s[b]] => a = b
  BY <1>1, <1>2 DEF IsPartition
<1> HIDE DEF lt, size
<1>5. IsFiniteSet(D) /\ Cardinality(D) = size
  BY <1>1, FS_Interval
<1> HIDE DEF D
<1>6. IsStrictOrder(D, lt)
  BY <1>2, <1>3, <1>4 DEF IsStrictOrder
<1>7. PICK r \in Bijection(D, 1..Cardinality(D)) : \A a, b \in D : <<a, b>> \in lt => r[a] < r[b]
  BY <1>5, <1>6, Numbering
<1>8. /\ r \in [D -> D] /\ \A j \in D : \E a \in D : r[a] = j
      /\ \A a, b \in D : r[a] = r[b] => a = b
  BY <1>5, <1>7 DEF Bijection, Injection, IsInjective, Surjection, D
<1> DEFINE p == [k \in D |-> CHOOSE a \in D : r[a] = k]
<1>9. \A k \in D : p[k] \in D /\ r[p[k]] = k
  BY <1>8
<1>10. p \in [D -> D]
  BY <1>9
<1> HIDE DEF p
<1>11. \A j \in D : r[j] \in D /\ p[r[j]] = j
  BY <1>8, <1>9
<1>12. ASSUME NEW a \in D, NEW b \in D, a < b
       PROVE  pos[s[p[a]]] < pos[s[p[b]]]
  <2>1. p[a] \in D /\ p[b] \in D /\ r[p[a]] = a /\ r[p[b]] = b
    BY <1>9
  <2>2. a \in Int /\ b \in Int
    BY <1>1 DEF D
  <2>3. p[a] # p[b] /\ <<p[b], p[a]>> \notin lt
    <3>1. p[a] # p[b]
      BY <1>12, <2>1, <2>2
    <3>2. <<p[b], p[a]>> \in lt => b < a
      BY <1>7, <2>1
    <3>3. QED
      BY <1>12, <2>2, <3>1, <3>2
  <2>4. <<p[a], p[b]>> \in lt
    BY <1>6, <2>1, <2>3 DEF IsStrictOrder
  <2>5. QED
    BY <1>3, <2>1, <2>4
<1>13. QED
  BY <1>10, <1>11, <1>12 DEF Increasing, D, size

\* p has every position of s.
OrdersAll(s, p) ==
    /\ p \in [1..Len(s) -> DOMAIN s]
    /\ \A w \in Range(s) : \E a \in 1..Len(s) : s[p[a]] = w

\* What a read returns depends on the operations before it on its object.
LEMMA EarlierIsTaken ==
    ASSUME NEW g, NEW s, IsPartition(g, s), NEW pos \in [OpsOf(g) -> Int],
           NEW p, OrdersAll(s, p), Increasing(s, p, Len(s), pos),
           NEW k \in 1..Len(s)
    PROVE  Earlier(g, pos, s[p[k]]) = Writes(Taken(s, p, k - 1))
<1> DEFINE op == s[p[k]]
<1>1. s \in Seq(OpsOf(g)) /\ DOMAIN s = 1..Len(s) /\ Len(s) \in Nat /\ k \in Nat
  BY DEF IsPartition
<1>2. ASSUME NEW a \in 1..Len(s)
      PROVE  s[p[a]] \in OpsOf(g) /\ s[p[a]] \in Range(s) /\ pos[s[p[a]]] \in Int
  <2>1. p[a] \in DOMAIN s
    BY DEF OrdersAll
  <2>2. s[p[a]] \in OpsOf(g)
    BY <1>1, <2>1
  <2>3. QED
    BY <2>1, <2>2 DEF Range
<1>3. op \in OpsOf(g) /\ op \in Range(s) /\ pos[op] \in Int
  BY <1>2
<1>4. ASSUME NEW w \in Earlier(g, pos, op)
      PROVE  w \in Writes(Taken(s, p, k - 1))
  <2>1. w \in OpsOf(g) /\ IsWrite(w) /\ pos[w] < pos[op] /\ OnOneObject(g, op, w)
    BY DEF Earlier, OnOneObject
  <2>2. w \in Range(s)
    BY <1>3, <2>1 DEF IsPartition
  <2>3. PICK a \in 1..Len(s) : s[p[a]] = w
    BY <2>2 DEF OrdersAll
  <2>4. ~(pos[op] < pos[w]) /\ a # k
    BY <1>2, <1>3, <2>1, <2>3
  <2>5. ~(k < a)
    BY <2>3, <2>4 DEF Increasing
  <2>6. a \in 1..k - 1
    BY <1>1, <2>4, <2>5
  <2>7. w \in Taken(s, p, k - 1)
    BY <2>3, <2>6 DEF Taken
  <2>8. QED
    BY <2>1, <2>7 DEF Writes
<1>5. ASSUME NEW w \in Writes(Taken(s, p, k - 1))
      PROVE  w \in Earlier(g, pos, op)
  <2>1. PICK a \in 1..k - 1 : w = s[p[a]]
    BY DEF Writes, Taken
  <2>2. a \in 1..Len(s) /\ a < k
    BY <1>1
  <2>3. pos[w] < pos[op]
    BY <2>1, <2>2 DEF Increasing
  <2>4. w \in OpsOf(g) /\ w \in Range(s) /\ IsWrite(w)
    BY <1>2, <2>1, <2>2 DEF Writes
  <2>5. OnOneObject(g, w, op)
    BY <1>3, <2>4 DEF IsPartition
  <2>6. QED
    BY <2>3, <2>4, <2>5 DEF Earlier, OnOneObject
<1>6. QED
  BY <1>4, <1>5

\* The search does not miss a linearization: taken in the order of a linearization,
\* the operations of a part are children of one another down to the last level.
LEMMA LinearizationIsReached ==
    ASSUME NEW g, Decoded(g), NEW s, IsPartition(g, s), NEW pos \in [OpsOf(g) -> Int],
           \A a, b \in OpsOf(g) : pos[a] = pos[b] => a = b,
           IsLinearization(g, pos)
    PROVE  Reached(g, s)[Len(s)] # {}
<1> DEFINE size == Len(s)
<1>1. s \in Seq(OpsOf(g)) /\ size \in Nat /\ DOMAIN s = 1..size
      /\ \A a, b \in DOMAIN s : s[a] = s[b] => a = b
  BY DEF IsPartition
<1>2. PICK f : AreNodes(f, g, s)
  BY <1>1, ReachedUnfolds
<1>3. PICK p :
        /\ p \in [1..size -> 1..size]
        /\ \A j \in 1..size : \E a \in 1..size : p[a] = j
        /\ Increasing(s, p, size, pos)
  BY SortedBy
<1>4. \A a \in 1..size : p[a] \in DOMAIN s /\ s[p[a]] \in OpsOf(g) /\ pos[s[p[a]]] \in Int
  <2>1. \A y \in DOMAIN s : s[y] \in OpsOf(g) /\ pos[s[y]] \in Int
    BY <1>1
  <2> HIDE DEF size
  <2>2. \A a \in 1..size : p[a] \in DOMAIN s
    BY <1>1, <1>3
  <2>3. QED
    BY <2>1, <2>2
<1>4a. \A k \in 1..size : Earlier(g, pos, s[p[k]]) = Writes(Taken(s, p, k - 1))
  <2>1. p \in [1..size -> DOMAIN s]
    BY <1>1, <1>3
  <2>2. \A w \in Range(s) : \E a \in 1..size : s[p[a]] = w
    <3>1. SUFFICES ASSUME NEW w \in Range(s)
                   PROVE  \E a \in 1..size : s[p[a]] = w
      OBVIOUS
    <3>2. PICK y \in 1..size : s[y] = w
      BY <1>1 DEF Range
    <3>3. QED
      BY <1>3, <3>2
  <2>3. OrdersAll(s, p) /\ Increasing(s, p, Len(s), pos)
    BY <1>3, <2>1, <2>2 DEF OrdersAll
  <2>4. QED
    BY <2>3, EarlierIsTaken
<1> DEFINE upTo(k) == [j \in 1..k |-> p[j]]
           node(k) == [prefix |-> upTo(k), state |-> ValueAfter(g, pos, Writes(Taken(s, p, k)))]
           T == {k \in 0..size : node(k) \in f[k]}
<1>5. 0 \in T
  <2>1. upTo(0) = <<>>
    OBVIOUS
  <2>2. Taken(s, upTo(0), 0) = {} /\ Taken(s, p, 0) = {} /\ 1..0 = {}
    BY DEF Taken
  <2>3. RightlyReached(g, s, 0, Root(g))
    BY <1>1, RootIsRight
  <2>4. Root(g).prefix = <<>> /\ Root(g).state = InitState(g)
    BY DEF Root
  <2>5. Increasing(s, Root(g).prefix, 0, pos)
    BY DEF Increasing
  <2>6. Taken(s, Root(g).prefix, 0) = {}
    BY DEF Taken
  <2>7. InitState(g) = ValueAfter(g, pos, Writes({}))
    BY <2>3, <2>4, <2>5, <2>6 DEF RightlyReached
  <2>8. node(0) = Root(g)
    BY <2>1, <2>2, <2>7 DEF Root
  <2>9. QED
    BY <1>1, <1>2, <2>8 DEF AreNodes
<1>6. ASSUME NEW k \in 1..size, k - 1 \in T
      PROVE  k \in T
  <2> DEFINE x == p[k]
             op == s[x]
             S == Taken(s, p, k - 1)
             old == node(k - 1)
             q == upTo(k - 1)
  <2>1. k \in Nat /\ k - 1 \in Nat /\ x \in DOMAIN s /\ op \in OpsOf(g) /\ x \in 1..size
    BY <1>1, <1>4
  <2>2. \A j \in 1..k - 1 : j \in 1..size /\ pos[s[p[j]]] < pos[op]
    <3>1. SUFFICES ASSUME NEW j \in 1..k - 1
                   PROVE  j \in 1..size /\ pos[s[p[j]]] < pos[s[p[k]]]
      OBVIOUS
    <3>2. j \in 1..size /\ j < k
      BY <1>1
    <3>3. QED
      BY <1>3, <3>2 DEF Increasing
  <2>3. Range(q) = {p[j] : j \in 1..k - 1}
    BY DEF Range
  <2>4. x \notin Range(q)
    <3>1. SUFFICES ASSUME NEW j \in 1..k - 1, p[j] = x
                   PROVE  FALSE
      BY <2>3
    <3>2. pos[s[x]] < pos[s[x]] /\ pos[s[x]] \in Int
      BY <1>4, <2>2, <3>1
    <3>3. QED
      BY <3>2
  <2>5. ASSUME NEW y \in DOMAIN s, y \notin Range(q)
        PROVE  ~Precedes(s[y], op)
    <3>1. PICK a \in 1..size : p[a] = y
      BY <1>1, <1>3
    <3>2. a \notin 1..k - 1
      BY <2>3, <2>5, <3>1
    <3>3. a = k \/ k < a
      BY <3>2
    <3>4. a = k \/ pos[op] < pos[s[y]]
      BY <1>3, <3>1, <3>3 DEF Increasing
    <3>5. pos[op] \in Int /\ pos[s[y]] \in Int /\ s[y] \in OpsOf(g)
      BY <1>4, <3>1
    <3>6. ~(pos[s[y]] < pos[op])
      BY <3>1, <3>4, <3>5
    <3>7. QED
      BY <2>1, <3>5, <3>6 DEF IsLinearization
  <2>6. Earlier(g, pos, op) = Writes(S)
    BY <1>4a
  <2>7. old.prefix = q /\ old.state = ValueAfter(g, pos, Writes(S)) /\ old \in f[k - 1]
    BY <1>6
  <2>8. Legal(op, old.state)
    <3>1. CASE IsWrite(op)
      BY <3>1 DEF Legal
    <3>2. CASE ~IsWrite(op)
      <4>1. op.value = ValueAfter(g, pos, Earlier(g, pos, op))
        BY <2>1, <3>2, ReadValue DEF IsLinearization
      <4>2. QED
        BY <2>6, <2>7, <4>1 DEF Legal
    <3>3. QED
      BY <3>1, <3>2
  <2>9. x \in MayFollow(s, old)
    <3>1. Range(old.prefix) = Range(q) /\ x \in DOMAIN s \ Range(q)
      BY <2>1, <2>4, <2>7
    <3>2. \A y \in DOMAIN s \ Range(q) : ~Precedes(s[y], s[x])
      BY <2>5
    <3>3. Legal(s[x], old.state)
      BY <2>8
    <3> HIDE DEF old, q, x
    <3>4. QED
      BY <3>1, <3>2, <3>3 DEF MayFollow
  <2>10. [prefix |-> Append(q, x), state |-> Apply(g, op, old.state)] \in f[k]
    <3>1. [prefix |-> Append(old.prefix, x), state |-> Apply(g, s[x], old.state)]
             \in Children(g, s, old)
      BY <2>9 DEF Children
    <3>2. f[k] = UNION {Children(g, s, nd) : nd \in f[k - 1]}
      BY <1>2 DEF AreNodes
    <3>3. QED
      BY <2>7, <3>1, <3>2
  <2>11. Append(q, x) = upTo(k)
    <3>1. q \in Seq(1..size) /\ Len(q) = k - 1
      <4>1. PICK last \in Nat : last = k - 1
        BY <2>1
      <4>2. \A j \in 1..last : p[j] \in 1..size
        BY <1>1, <1>4, <2>2, <4>1
      <4>3. [j \in 1..last |-> p[j]] \in Seq(1..size) /\ Len([j \in 1..last |-> p[j]]) = last
        BY <4>1, <4>2
      <4>4. QED
        BY <4>1, <4>3
    <3>2. Append(q, x) = [j \in 1..k |-> IF j <= k - 1 THEN q[j] ELSE x]
      BY <2>1, <3>1
    <3>3. QED
      BY <2>1, <3>2
  <2>12. Apply(g, op, old.state) = ValueAfter(g, pos, Writes(Taken(s, p, k)))
    <3>1. Follows(p, p, x, k)
      BY DEF Follows
    <3>2. Taken(s, p, k) = S \union {op}
      BY <2>1, <3>1, TakenTogether
    <3>3. S \in SUBSET OpsOf(g) /\ op \notin S /\ \A w \in S : pos[w] < pos[op]
      <4>1. \A j \in 1..k - 1 : s[p[j]] \in OpsOf(g) /\ pos[s[p[j]]] < pos[op]
        BY <1>4, <2>2
      <4>2. pos[op] \in Int
        BY <1>4
      <4>3. QED
        BY <4>1, <4>2 DEF Taken
    <3> HIDE DEF S, op
    <3>4. ValueAfter(g, pos, Writes(S \union {op})) = Apply(g, op, ValueAfter(g, pos, Writes(S)))
      BY <2>1, <3>3, OneMoreOperation
    <3>5. QED
      BY <2>7, <3>2, <3>4
  <2>13. [prefix |-> upTo(k), state |-> ValueAfter(g, pos, Writes(Taken(s, p, k)))] \in f[k]
    BY <2>10, <2>11, <2>12
  <2>14. k \in 0..size
    BY <1>1
  <2> HIDE DEF upTo
  <2>15. QED
    BY <2>13, <2>14
<1>7. size \in T
  <2> HIDE DEF T
  <2>1. 0..size \subseteq T
    BY <1>1, <1>5, <1>6, UpTo
  <2>2. QED
    BY <1>1, <2>1
<1> HIDE DEF node
<1>8. f[Len(s)] # {}
  BY <1>7
<1>9. Reached(g, s)[Len(s)] = {nd.prefix : nd \in f[Len(s)]}
  <2>1. Len(s) \in 0..Len(s)
    BY <1>1
  <2>2. QED
    BY <1>2, <2>1 DEF AreNodes
<1>10. PICK nd \in f[Len(s)] : TRUE
  BY <1>8
<1>11. nd.prefix \in Reached(g, s)[Len(s)]
  BY <1>9
<1>12. QED
  BY <1>11

-----------------------------------------------------------------------------
(* Orders of the parts make an order of the whole *)

Before(part, place, a, b) == part[a] = part[b] /\ place[a] < place[b]

\* Each operation takes effect when the last of those up to it is called.
IsPoint(O, part, place, op, x) ==
    /\ \E y \in O : (y = op \/ Before(part, place, y, op)) /\ x = y.call
    /\ \A y \in O : (y = op \/ Before(part, place, y, op)) => y.call <= x

LEMMA PointExists ==
    ASSUME NEW O, IsFiniteSet(O), \A a \in O : a.call \in Int,
           NEW part, NEW place, NEW op \in O
    PROVE  \E x \in Int : IsPoint(O, part, place, op, x)
<1> DEFINE Y == {y \in O : y = op \/ Before(part, place, y, op)}
           C == {y.call : y \in Y}
           f == [y \in Y |-> y.call]
<1>1. IsFiniteSet(Y)
  BY FS_Subset
<1>2. f \in Surjection(Y, C)
  BY DEF Surjection
<1>3. IsFiniteSet(C)
  <2> HIDE DEF f, C, Y
  <2>1. QED
    BY <1>1, <1>2, FS_Surjection
<1>4. C \in SUBSET Int /\ op.call \in C
  OBVIOUS
<1>5. PICK x \in C : \A y \in C : y <= x
  <2> HIDE DEF C
  <2>1. QED
    BY <1>3, <1>4, Greatest
<1>6. QED
  BY <1>5 DEF IsPoint

\* Orders of the parts that real time allows make one of the whole: the order of the
\* points at which the operations take effect.
LEMMA Locality ==
    ASSUME NEW O, IsFiniteSet(O),
           \A a \in O : a.call \in Int /\ a.return \in Int /\ a.call <= a.return,
           NEW part \in [O -> Int], NEW place \in [O -> Int],
           \A a, b \in O : part[a] = part[b] /\ place[a] = place[b] => a = b,
           \A a, b \in O : Before(part, place, a, b) => ~Precedes(b, a)
    PROVE  \E pos \in Bijection(O, 1..Cardinality(O)) :
              \A a, b \in O : Precedes(a, b) \/ Before(part, place, a, b) => pos[a] < pos[b]
<1> DEFINE point == [op \in O |-> CHOOSE x \in Int : IsPoint(O, part, place, op, x)]
<1>1. \A op \in O : point[op] \in Int /\ IsPoint(O, part, place, op, point[op])
  BY PointExists
<1> HIDE DEF point
<1> DEFINE sooner(a, b) ==
               \/ point[a] < point[b]
               \/ point[a] = point[b] /\ part[a] < part[b]
               \/ point[a] = point[b] /\ part[a] = part[b] /\ place[a] < place[b]
           lt == {e \in O \X O : sooner(e[1], e[2])}
<1>2. \A a, b \in O : <<a, b>> \in lt <=> sooner(a, b)
  OBVIOUS
<1> HIDE DEF lt
<1>3. \A a \in O : point[a] \in Int /\ part[a] \in Int /\ place[a] \in Int
  BY <1>1
<1>4. IsStrictOrder(O, lt)
  <2>1. \A a \in O : ~sooner(a, a)
    BY <1>3
  <2>2. \A a, b \in O : a # b => sooner(a, b) \/ sooner(b, a)
    BY <1>3
  <2>3. \A a, b, c \in O : sooner(a, b) /\ sooner(b, c) => sooner(a, c)
    BY <1>3
  <2> HIDE DEF sooner
  <2>4. QED
    BY <1>2, <2>1, <2>2, <2>3 DEF IsStrictOrder
<1>5. PICK pos \in Bijection(O, 1..Cardinality(O)) : \A a, b \in O : <<a, b>> \in lt => pos[a] < pos[b]
  BY <1>4, Numbering
<1>6. ASSUME NEW a \in O, NEW b \in O, Precedes(a, b)
      PROVE  sooner(a, b)
  <2>1. a.return < b.call /\ a.return \in Int /\ b.call \in Int
    BY <1>6 DEF Precedes
  <2>2. PICK y \in O : (y = a \/ Before(part, place, y, a)) /\ point[a] = y.call
    BY <1>1 DEF IsPoint
  <2>3. y.call <= a.return
    <3>1. CASE y = a
      BY <3>1
    <3>2. CASE Before(part, place, y, a)
      <4>1. ~Precedes(a, y)
        BY <3>2
      <4>2. QED
        BY <4>1 DEF Precedes
    <3>3. QED
      BY <2>2, <3>1, <3>2
  <2>4. b.call <= point[b]
    BY <1>1 DEF IsPoint
  <2>5. QED
    BY <1>3, <2>1, <2>2, <2>3, <2>4
<1>7. ASSUME NEW a \in O, NEW b \in O, Before(part, place, a, b)
      PROVE  sooner(a, b)
  <2>1. PICK y \in O : (y = a \/ Before(part, place, y, a)) /\ point[a] = y.call
    BY <1>1 DEF IsPoint
  <2>2. Before(part, place, y, b)
    BY <1>3, <1>7, <2>1 DEF Before
  <2>3. point[a] <= point[b]
    BY <1>1, <2>1, <2>2 DEF IsPoint
  <2>4. part[a] = part[b] /\ place[a] < place[b]
    BY <1>7 DEF Before
  <2>5. QED
    BY <1>3, <2>3, <2>4
<1>8. QED
  BY <1>2, <1>5, <1>6, <1>7

-----------------------------------------------------------------------------
(* The answers of the checker *)

\* Every part searched to its end gives an order of it; together they make an order
\* of the whole, in which a read sees what it sees in its part.
LEMMA OkIsSound ==
    ASSUME NEW g, Decoded(g),
           \A k \in DOMAIN Partition(g) :
               Reached(g, Partition(g)[k])[Len(Partition(g)[k])] # {}
    PROVE  Linearizable(g)
<1> DEFINE O == OpsOf(g)
           parts == Partition(g)
           order == [k \in DOMAIN parts |-> CHOOSE p : Solves(g, parts[k], p)]
           At(k, a) == parts[k][order[k][a]]
           part == [op \in O |-> CHOOSE k \in DOMAIN parts : op \in Range(parts[k])]
           place == [op \in O |-> CHOOSE a \in 1..Len(parts[part[op]]) : At(part[op], a) = op]
<1>1. /\ DOMAIN parts \in SUBSET Nat
      /\ \A k \in DOMAIN parts : IsPartition(g, parts[k])
      /\ \A op \in O : \E k \in DOMAIN parts : op \in Range(parts[k])
      /\ \A op \in O : \A a, b \in DOMAIN parts :
            op \in Range(parts[a]) /\ op \in Range(parts[b]) => a = b
  BY PartsArePartitions
<1> HIDE DEF parts
<1>2. \A k \in DOMAIN parts : Solves(g, parts[k], order[k])
  BY <1>1, FullPrefixSolves DEF parts
<1> HIDE DEF order
<1>3. \A op \in O : part[op] \in DOMAIN parts /\ op \in Range(parts[part[op]])
  BY <1>1
<1>4. part \in [O -> Int]
  BY <1>1, <1>3
<1> HIDE DEF part
<1>5. ASSUME NEW op \in O
      PROVE  place[op] \in 1..Len(parts[part[op]]) /\ At(part[op], place[op]) = op
  <2>1. Solves(g, parts[part[op]], order[part[op]])
    BY <1>2, <1>3
  <2>2. \E a \in 1..Len(parts[part[op]]) : At(part[op], a) = op
    BY <1>3, <2>1 DEF Solves
  <2>3. QED
    BY <2>2
<1>6. place \in [O -> Int]
  <2> HIDE DEF At
  <2>1. place = [op \in O |-> place[op]]
    OBVIOUS
  <2> HIDE DEF place, O
  <2>2. \A op \in O : place[op] \in Int
    BY <1>5
  <2>3. QED
    BY <2>1, <2>2
<1> HIDE DEF place, At
<1>7. ASSUME NEW k \in DOMAIN parts, NEW a \in 1..Len(parts[k])
      PROVE  At(k, a) \in O /\ part[At(k, a)] = k /\ place[At(k, a)] = a
  <2> DEFINE s == parts[k]
             p == order[k]
  <2>1. /\ s \in Seq(O) /\ \A x, y \in DOMAIN s : s[x] = s[y] => x = y
        /\ p \in [1..Len(s) -> DOMAIN s] /\ \A x, y \in 1..Len(s) : p[x] = p[y] => x = y
    BY <1>1, <1>2 DEF IsPartition, Solves, Orders
  <2>2. p[a] \in DOMAIN s /\ At(k, a) = s[p[a]]
    BY <2>1 DEF At
  <2>3. At(k, a) \in O /\ At(k, a) \in Range(s)
    BY <2>1, <2>2 DEF Range
  <2>4. part[At(k, a)] = k
    BY <1>1, <1>3, <2>3
  <2>5. place[At(k, a)] \in 1..Len(s) /\ s[p[place[At(k, a)]]] = s[p[a]]
    BY <1>5, <2>2, <2>3, <2>4 DEF At
  <2> HIDE DEF s, p
  <2>6. p[place[At(k, a)]] = p[a]
    BY <2>1, <2>2, <2>5
  <2>7. QED
    BY <2>1, <2>3, <2>4, <2>5, <2>6 DEF s
<1>8. \A a, b \in O : part[a] = part[b] /\ place[a] = place[b] => a = b
  BY <1>5
<1>9. ASSUME NEW a \in O, NEW b \in O, Before(part, place, a, b)
      PROVE  ~Precedes(b, a)
  <2> DEFINE k == part[a]
             s == parts[k]
             p == order[k]
  <2>1. /\ k \in DOMAIN parts /\ k = part[b] /\ place[a] < place[b]
        /\ place[a] \in 1..Len(s) /\ place[b] \in 1..Len(s)
        /\ s[p[place[a]]] = a /\ s[p[place[b]]] = b
    BY <1>3, <1>5, <1>9 DEF Before, At
  <2>2. Orders(s, p, Len(s))
    BY <1>2, <2>1 DEF Solves
  <2> HIDE DEF k, s, p
  <2>3. SUFFICES ASSUME Precedes(s[p[place[b]]], s[p[place[a]]])
                 PROVE  FALSE
    BY <2>1
  <2>4. p[place[b]] \in DOMAIN s
    BY <2>1, <2>2 DEF Orders
  <2>5. PICK c \in 1..Len(s) : c < place[a] /\ p[c] = p[place[b]]
    BY <2>1, <2>2, <2>3, <2>4 DEF Orders
  <2>6. c = place[b]
    BY <2>1, <2>2, <2>5 DEF Orders
  <2>7. QED
    BY <1>6, <2>1, <2>5, <2>6
<1>10. IsFiniteSet(O) /\ \A a \in O : a.call \in Int /\ a.return \in Int /\ a.call <= a.return
  <2>1. IsFiniteSet(O)
    BY FiniteOps DEF Decoded
  <2>2. QED
    BY <2>1 DEF Decoded, Valid
<1> HIDE DEF O
<1>11. PICK pos \in Bijection(O, 1..Cardinality(O)) :
          \A a, b \in O : Precedes(a, b) \/ Before(part, place, a, b) => pos[a] < pos[b]
  BY <1>4, <1>6, <1>8, <1>9, <1>10, Locality
<1>12. pos \in [O -> Int]
  BY <1>11 DEF Bijection, Injection
<1>13. ASSUME NEW op \in O, ~IsWrite(op)
       PROVE  op.value = ValueAt(g, pos, op)
  <2> DEFINE k == part[op]
             s == parts[k]
             p == order[k]
             a == place[op]
  <2>1. k \in DOMAIN parts /\ a \in 1..Len(s) /\ s[p[a]] = op
    BY <1>3, <1>5 DEF At
  <2>2. IsPartition(g, s) /\ Solves(g, s, p)
    BY <1>1, <1>2, <2>1
  <2>3. Increasing(s, p, Len(s), pos)
    <3>1. SUFFICES ASSUME NEW x \in 1..Len(s), NEW y \in 1..Len(s), x < y
                   PROVE  pos[s[p[x]]] < pos[s[p[y]]]
      BY DEF Increasing
    <3>2. At(k, x) \in O /\ At(k, y) \in O /\ Before(part, place, At(k, x), At(k, y))
      BY <1>7, <2>1, <3>1 DEF Before
    <3>3. pos[At(k, x)] < pos[At(k, y)]
      BY <1>11, <3>2
    <3>4. QED
      BY <3>3 DEF At
  <2> HIDE DEF k, s, p, a
  <2>4. LegalInTurn(g, s, p, Len(s), pos)
    BY <1>12, <2>2, <2>3 DEF Solves, O
  <2>5. Legal(op, ValueAfter(g, pos, Writes(Taken(s, p, a - 1))))
    BY <2>1, <2>4 DEF LegalInTurn
  <2>6. Earlier(g, pos, s[p[a]]) = Writes(Taken(s, p, a - 1))
    <3>1. OrdersAll(s, p)
      BY <2>2 DEF OrdersAll, Solves, Orders
    <3>2. pos \in [OpsOf(g) -> Int]
      BY <1>12 DEF O
    <3>3. QED
      BY <2>1, <2>2, <2>3, <3>1, <3>2, EarlierIsTaken
  <2>7. ValueAt(g, pos, op) = ValueAfter(g, pos, Earlier(g, pos, op))
    BY ReadValue
  <2>8. QED
    BY <1>13, <2>1, <2>5, <2>6, <2>7 DEF Legal
<1>14. IsLinearization(g, pos)
  BY <1>11, <1>13 DEF IsLinearization, O
<1>15. QED
  BY <1>11, <1>14 DEF Linearizable, O

\* A part whose search ends without an order of it: the whole has none either.
LEMMA IllegalIsSound ==
    ASSUME NEW g, Decoded(g), NEW k \in DOMAIN Partition(g),
           Reached(g, Partition(g)[k])[Len(Partition(g)[k])] = {}
    PROVE  ~Linearizable(g)
<1>1. SUFFICES ASSUME NEW pos \in Bijection(OpsOf(g), 1..Cardinality(OpsOf(g))),
                      IsLinearization(g, pos)
               PROVE  FALSE
  BY DEF Linearizable
<1>2. pos \in [OpsOf(g) -> Int] /\ \A a, b \in OpsOf(g) : pos[a] = pos[b] => a = b
  BY DEF Bijection, Injection, IsInjective
<1>3. IsPartition(g, Partition(g)[k])
  BY PartsArePartitions
<1>4. QED
  BY <1>1, <1>2, <1>3, LinearizationIsReached

\* Whichever parts are searched to their ends and whatever is reported, the verdict
\* of a check is the one of the definition.
LEMMA AnswersAreTrue ==
    ASSUME NEW g, Decoded(g), NEW trace \in Check(g)
    PROVE  /\ trace.result = "Ok" => Linearizable(g)
           /\ trace.result = "Illegal" => ~Linearizable(g)
<1>1. CASE trace = Verdict(g, "Ok") /\ Explored(g) = "Ok"
  <2>1. \A k \in DOMAIN Partition(g) : Reached(g, Partition(g)[k])[Len(Partition(g)[k])] # {}
    BY <1>1 DEF Explored
  <2>2. trace.result = "Ok" /\ Linearizable(g)
    BY <1>1, <2>1, OkIsSound DEF Verdict
  <2>3. QED
    BY <2>2
<1>2. CASE trace = Verdict(g, "Unknown")
  BY <1>2 DEF Verdict
<1>3. ASSUME NEW full \in MaySearchInFull(g), RejectedBy(g, full), trace \in Rejections(g, full)
      PROVE  trace.result = "Illegal" /\ ~Linearizable(g)
  <2>1. trace.result = "Illegal"
    BY <1>3 DEF Rejections
  <2>2. full \in SUBSET DOMAIN Partition(g)
    BY DEF MaySearchInFull
  <2>3. PICK k \in full : Reached(g, Partition(g)[k])[Len(Partition(g)[k])] = {}
    BY <1>3 DEF RejectedBy
  <2>4. ~Linearizable(g)
    BY <2>2, <2>3, IllegalIsSound
  <2>5. QED
    BY <2>1, <2>4
<1>4. QED
  BY <1>1, <1>2, <1>3 DEF Check

\* What is left of a decoded history is one, too.
LEMMA PartIsDecoded ==
    ASSUME NEW F \in Families, NEW g \in F, g.model \in KnownModels, NEW s, IsPartOf(s, g)
    PROVE  Decoded(WithOps(g, s))
<1> DEFINE sub == WithOps(g, s)
<1>1. /\ Valid(g) /\ g \in [model : STRING, init : Int, ops : Seq(OpsOf(g))]
      /\ \A op \in OpsOf(g) : op.id \in Int /\ op.value \in Int /\ op.call \in Int /\ op.return \in Int
  BY FamiliesAssumption
<1>2. s \in Seq(Operation) /\ IsSubsequence(s, g.ops)
  BY DEF IsPartOf
<1>3. sub.model = g.model /\ sub.init = g.init /\ sub.ops = s
  BY <1>1 DEF WithOps
<1>4. PICK e \in [1..Len(s) -> 1..Len(g.ops)] : Embeds(e, s, g.ops)
  BY <1>2 DEF IsSubsequence
<1>5. DOMAIN s = 1..Len(s) /\ DOMAIN g.ops = 1..Len(g.ops) /\ g.ops \in Seq(OpsOf(g))
      /\ Len(s) \in Nat /\ Len(g.ops) \in Nat
  BY <1>1, <1>2
<1>6. \A op \in OpsOf(sub) : op \in OpsOf(g)
  <2>1. SUFFICES ASSUME NEW a \in 1..Len(s)
                 PROVE  s[a] \in OpsOf(g)
    BY <1>3, <1>5 DEF OpsOf, Range
  <2>2. s[a] = g.ops[e[a]] /\ e[a] \in 1..Len(g.ops)
    BY <1>4 DEF Embeds
  <2>3. QED
    BY <1>5, <2>2
<1>7. s \in Seq(OpsOf(sub))
  <2>1. \A a \in 1..Len(s) : s[a] \in OpsOf(sub)
    BY <1>3, <1>5 DEF OpsOf, Range
  <2>2. QED
    BY <1>2, <2>1
<1>8. ASSUME NEW a \in DOMAIN s, NEW b \in DOMAIN s, s[a].id = s[b].id
      PROVE  a = b
  <2>1. s[a] = g.ops[e[a]] /\ s[b] = g.ops[e[b]] /\ e[a] \in DOMAIN g.ops /\ e[b] \in DOMAIN g.ops
    BY <1>4, <1>5 DEF Embeds
  <2>2. e[a] = e[b]
    BY <1>1, <1>8, <2>1 DEF Valid
  <2>3. a \in Int /\ b \in Int /\ e[a] \in Int /\ ~(a < b) /\ ~(b < a)
    BY <1>4, <1>5, <2>1, <2>2 DEF Embeds
  <2>4. QED
    BY <2>3
<1>9. Valid(sub)
  BY <1>1, <1>3, <1>6, <1>8 DEF Valid
<1>10. sub \in [model : STRING, init : Int, ops : Seq(OpsOf(sub))]
  <2>1. sub = [model |-> g.model, init |-> g.init, ops |-> s]
    BY <1>1 DEF WithOps
  <2>2. g.model \in STRING /\ g.init \in Int
    BY <1>1
  <2>3. QED
    BY <1>7, <2>1, <2>2
<1> HIDE DEF sub
<1>11. Decoded(sub)
  BY <1>1, <1>3, <1>6, <1>9, <1>10 DEF Decoded
<1>12. QED
  BY <1>11 DEF sub

\* The contract that Explain relies on: the search finds a linearization if and only
\* if there is one.  Every linearization can be found part by part; and orders of the
\* parts that real time and the model allow make one of the whole, in which each
\* operation takes effect at the latest call up to it in its part.
THEOREM CheckerIsSound == CheckIsSound
  BY PartIsDecoded, AnswersAreTrue DEF CheckIsSound

-----------------------------------------------------------------------------
(* What is reported *)

\* Of two positions, the search tries this one first.
Sooner(s, x, y) ==
    \/ s[x].call < s[y].call
    \/ s[x].call = s[y].call /\ x < y

LEMMA Soonest ==
    ASSUME NEW s, NEW D \in SUBSET Int, IsFiniteSet(D), D # {}, \A x \in D : s[x].call \in Int
    PROVE  \E x \in D : \A y \in D : x = y \/ Sooner(s, x, y)
<1> DEFINE lt == {e \in D \X D : Sooner(s, e[1], e[2])}
           size == Cardinality(D)
<1>1. \A a, b \in D : <<a, b>> \in lt <=> Sooner(s, a, b)
  OBVIOUS
<1> HIDE DEF lt
<1>2. IsStrictOrder(D, lt)
  BY <1>1 DEF IsStrictOrder, Sooner
<1>3. PICK r \in Bijection(D, 1..size) : \A a, b \in D : <<a, b>> \in lt => r[a] < r[b]
  BY <1>2, Numbering
<1>4. size \in Nat \ {0}
  BY FS_CardinalityType, FS_EmptySet
<1>5. r \in [D -> 1..size] /\ \A j \in 1..size : \E a \in D : r[a] = j
  BY <1>3 DEF Bijection, Surjection
<1> HIDE DEF size
<1>6. PICK x \in D : r[x] = 1
  BY <1>4, <1>5
<1>7. ASSUME NEW y \in D, x # y
      PROVE  Sooner(s, x, y)
  <2>1. r[y] \in 1..size
    BY <1>5
  <2>2. ~(r[y] < r[x])
    BY <1>4, <1>6, <2>1
  <2>3. <<x, y>> \in lt
    BY <1>2, <1>3, <1>7, <2>2 DEF IsStrictOrder
  <2>4. QED
    BY <1>1, <2>3
<1>8. QED
  BY <1>7

\* p and q differ in their first k positions, and p is tried first.
TriedWithin(s, p, q, k) ==
    \E j \in 1..k : (\A a \in 1..j - 1 : p[a] = q[a]) /\ Sooner(s, p[j], q[j])

AgreeUpTo(p, q, k) == \A a \in 1..k : p[a] = q[a]

FirstUpTo(s, P, p, k) == \A q \in P : AgreeUpTo(p, q, k) \/ TriedWithin(s, p, q, k)

HaveLength(s, P, len) == \A p \in P : p \in Seq(DOMAIN s) /\ Len(p) = len

\* One position further.
LEMMA FirstByOneMore ==
    ASSUME NEW R, NEW s \in Seq(R), \A x \in DOMAIN s : s[x].call \in Int,
           NEW len \in Nat, NEW P, HaveLength(s, P, len), NEW k \in 1..len,
           NEW p \in P, FirstUpTo(s, P, p, k - 1)
    PROVE  \E w \in P : FirstUpTo(s, P, w, k)
<1> DEFINE Same == {q \in P : AgreeUpTo(p, q, k - 1)}
           D == {q[k] : q \in Same}
<1>1. DOMAIN s = 1..Len(s) /\ Len(s) \in Nat /\ k \in Nat
  OBVIOUS
<1>2. \A q \in P : q[k] \in DOMAIN s
  BY DEF HaveLength
<1>3. D \in SUBSET (1..Len(s)) /\ p \in Same
  BY <1>1, <1>2 DEF AgreeUpTo
<1>4. D # {} /\ IsFiniteSet(D) /\ D \in SUBSET Int /\ \A x \in D : s[x].call \in Int
  <2>1. D # {}
    BY <1>3
  <2>2. IsFiniteSet(1..Len(s))
    BY <1>1, FS_Interval
  <2> HIDE DEF D
  <2>3. IsFiniteSet(D)
    BY <1>3, <2>2, FS_Subset
  <2>4. QED
    BY <1>1, <1>3, <2>1, <2>3
<1>5. PICK x \in D : \A y \in D : x = y \/ Sooner(s, x, y)
  <2> HIDE DEF D
  <2> QED  BY <1>4, Soonest
<1>6. PICK w \in Same : w[k] = x
  OBVIOUS
<1>7. w \in P /\ AgreeUpTo(p, w, k - 1)
  OBVIOUS
<1>8. ASSUME NEW q \in P
      PROVE  AgreeUpTo(w, q, k) \/ TriedWithin(s, w, q, k)
  <2>1. CASE q \in Same
    <3>1. AgreeUpTo(w, q, k - 1)
      BY <1>7, <2>1 DEF AgreeUpTo
    <3>2. w[k] = q[k] \/ Sooner(s, w[k], q[k])
      BY <1>5, <1>6, <2>1
    <3>3. k \in 1..k /\ \A a \in 1..k : a = k \/ a \in 1..k - 1
      BY <1>1
    <3>4. QED
      BY <3>1, <3>2, <3>3 DEF AgreeUpTo, TriedWithin
  <2>2. CASE q \notin Same
    <3>1. TriedWithin(s, p, q, k - 1)
      BY <2>2 DEF FirstUpTo
    <3>2. PICK j \in 1..k - 1 : (\A a \in 1..j - 1 : p[a] = q[a]) /\ Sooner(s, p[j], q[j])
      BY <3>1 DEF TriedWithin
    <3>3. j \in 1..k /\ p[j] = w[j] /\ \A a \in 1..j - 1 : p[a] = w[a]
      BY <1>1, <1>7 DEF AgreeUpTo
    <3>4. QED
      BY <3>2, <3>3 DEF TriedWithin
  <2>3. QED
    BY <2>1, <2>2
<1>9. QED
  BY <1>7, <1>8 DEF FirstUpTo

\* Among prefixes of one length there is one that is tried first.
LEMMA FirstIsThere ==
    ASSUME NEW R, NEW s \in Seq(R), \A x \in DOMAIN s : s[x].call \in Int,
           NEW len \in Nat, NEW P, HaveLength(s, P, len), P # {}
    PROVE  FirstTried(s, P) \in P
<1> DEFINE T == {k \in 0..len : \E p \in P : FirstUpTo(s, P, p, k)}
<1>1. 0 \in T
  BY DEF FirstUpTo, AgreeUpTo
<1>2. ASSUME NEW k \in 1..len, k - 1 \in T
      PROVE  k \in T
  <2>1. PICK p \in P : FirstUpTo(s, P, p, k - 1)
    BY <1>2
  <2>2. \E w \in P : FirstUpTo(s, P, w, k)
    BY <2>1, FirstByOneMore
  <2>3. QED
    BY <2>2
<1>3. len \in T
  <2> HIDE DEF T
  <2>1. 0..len \subseteq T
    BY <1>1, <1>2, UpTo
  <2>2. QED
    BY <2>1
<1>4. PICK p \in P : FirstUpTo(s, P, p, len)
  BY <1>3
<1>5. ASSUME NEW q \in P
      PROVE  p = q \/ TriedBefore(s, p, q)
  <2>1. p \in Seq(DOMAIN s) /\ q \in Seq(DOMAIN s) /\ Len(p) = len /\ Len(q) = len
    BY DEF HaveLength
  <2>2. CASE AgreeUpTo(p, q, len)
    <3>1. p \in [1..len -> DOMAIN s] /\ q \in [1..len -> DOMAIN s]
      BY <2>1
    <3>2. p = q
      BY <2>2, <3>1 DEF AgreeUpTo
    <3>3. QED
      BY <3>2
  <2>3. CASE TriedWithin(s, p, q, len)
    <3>1. DOMAIN p \cap DOMAIN q = 1..len
      BY <2>1
    <3>2. QED
      BY <2>3, <3>1 DEF TriedWithin, TriedBefore, Sooner
  <2>4. QED
    BY <1>4, <2>2, <2>3 DEF FirstUpTo
<1>6. QED
  BY <1>5 DEF FirstTried

PrefixesOver(s, P) == \A p \in P : p \in Seq(DOMAIN s) /\ Len(p) \in 1..Len(s)

\* What is reported has been tried, and every operation that has been placed is in
\* something that is reported.
LEMMA ReportedFrom ==
    ASSUME NEW R, NEW s \in Seq(R), \A x \in DOMAIN s : s[x].call \in Int,
           NEW P, PrefixesOver(s, P)
    PROVE  /\ Reported(s, P) \in SUBSET P
           /\ \A p \in P : \A x \in Range(p) : \E q \in Reported(s, P) : x \in Range(q)
<1> DEFINE WithOp(k) == {p \in P : k \in Range(p)}
           Longest(with) == {p \in with : Len(p) = Max({Len(q) : q \in with})}
<1>1. Reported(s, P) = {FirstTried(s, Longest(with)) : with \in {WithOp(k) : k \in DOMAIN s} \ {{}}}
  BY DEF Reported
<1>2. ASSUME NEW k, WithOp(k) # {}
      PROVE  FirstTried(s, Longest(WithOp(k))) \in WithOp(k)
  <2> DEFINE W == WithOp(k)
             lens == {Len(q) : q \in W}
  <2>1. lens \in SUBSET (1..Len(s)) /\ lens # {} /\ Len(s) \in Nat
    <3>1. W # {} /\ W \in SUBSET P
      BY <1>2
    <3>2. Len(s) \in Nat
      OBVIOUS
    <3> HIDE DEF W
    <3>3. QED
      BY <3>1, <3>2 DEF PrefixesOver
  <2>2. Max(lens) \in lens
    <3> HIDE DEF lens
    <3> QED  BY <2>1, GreatestOf
  <2>3. Longest(W) # {} /\ Max(lens) \in Nat
    <3>1. PICK q \in W : Len(q) = Max(lens)
      BY <2>2
    <3>2. q \in Longest(W)
      BY <3>1
    <3>3. Max(lens) \in Nat
      <4> HIDE DEF lens
      <4> QED  BY <2>1, <2>2
    <3>4. QED
      BY <3>2, <3>3
  <2>4. HaveLength(s, Longest(W), Max(lens))
    BY DEF HaveLength, PrefixesOver
  <2>5. FirstTried(s, Longest(W)) \in Longest(W)
    <3> DEFINE L == Longest(W)
               len == Max(lens)
    <3>1. L # {} /\ len \in Nat /\ HaveLength(s, L, len)
      BY <2>3, <2>4
    <3> HIDE DEF L, len
    <3>2. FirstTried(s, L) \in L
      BY <3>1, FirstIsThere
    <3>3. QED
      BY <3>2 DEF L
  <2>6. QED
    BY <2>5
<1> HIDE DEF Longest
<1>3. Reported(s, P) \in SUBSET P
  BY <1>1, <1>2
<1>4. ASSUME NEW p \in P, NEW x \in Range(p)
      PROVE  \E q \in Reported(s, P) : x \in Range(q)
  <2>1. x \in DOMAIN s /\ WithOp(x) # {}
    BY DEF PrefixesOver, Range
  <2>2. FirstTried(s, Longest(WithOp(x))) \in Reported(s, P)
    BY <1>1, <2>1
  <2>3. QED
    BY <1>2, <2>1, <2>2
<1>5. QED
  BY <1>3, <1>4

-----------------------------------------------------------------------------
(* The traces of a rejection *)

\* The operations at the positions p.
OpsAt(s, p) == [k \in DOMAIN p |-> s[p[k]]]

\* The prefixes Q may be reported of the part s: all that there is to report,
\* when no search is cut off.
MayReport(g, s, Q) ==
    /\ Q \in SUBSET AllReached(g, s)
    /\ ~MayTimeOut => Q = Reported(s, AllReached(g, s))

TracesPart(g, s, t) ==
    \E Q : /\ MayReport(g, s, Q)
           /\ \E best \in BestPrefixes(Operations(s, Q)) :
                 t = PartitionTrace(g, s, Operations(s, Q), best)

LEMMA ReachedPrefixes ==
    ASSUME NEW g, Decoded(g), NEW s, IsPartition(g, s), NEW p \in AllReached(g, s)
    PROVE  /\ p \in Seq(DOMAIN s) /\ Len(p) \in 1..Len(s)
           /\ Orders(s, p, Len(p))
           /\ p \in Reached(g, s)[Len(p)]
<1>1. s \in Seq(OpsOf(g)) /\ DOMAIN s = 1..Len(s) /\ Len(s) \in Nat
  BY DEF IsPartition
<1>2. PICK f : AreNodes(f, g, s)
  BY <1>1, ReachedUnfolds
<1>3. PICK len \in DOMAIN s : p \in Reached(g, s)[len]
  BY DEF AllReached
<1>4. len \in 0..Len(s)
  BY <1>1
<1>5. PICK node \in f[len] : p = node.prefix
  BY <1>2, <1>3, <1>4 DEF AreNodes
<1>6. RightlyReached(g, s, len, node)
  BY <1>2, <1>4, AllAreRight
<1>7. QED
  BY <1>1, <1>3, <1>5, <1>6 DEF RightlyReached

LEMMA CallsOfPart ==
    ASSUME NEW g, Decoded(g), NEW s, IsPartition(g, s)
    PROVE  s \in Seq(OpsOf(g)) /\ \A x \in DOMAIN s : s[x].call \in Int
<1>1. s \in Seq(OpsOf(g))
  BY DEF IsPartition
<1>2. ASSUME NEW x \in DOMAIN s
      PROVE  s[x].call \in Int
  <2>1. s[x] \in OpsOf(g)
    BY <1>1
  <2>2. QED
    BY <2>1 DEF Decoded
<1>3. QED
  BY <1>1, <1>2

LEMMA ReportedOf ==
    ASSUME NEW g, Decoded(g), NEW s, IsPartition(g, s), NEW P \in SUBSET AllReached(g, s)
    PROVE  /\ Reported(s, P) \in SUBSET P
           /\ \A p \in P : \A x \in Range(p) : \E q \in Reported(s, P) : x \in Range(q)
<1>1. PrefixesOver(s, P)
  BY ReachedPrefixes DEF PrefixesOver
<1>2. QED
  BY <1>1, CallsOfPart, ReportedFrom

\* A search that is cut off reports what it has reached.
LEMMA CutOffReports ==
    ASSUME NEW g, Decoded(g), NEW s, IsPartition(g, s), NEW Q \in CutOff(g, s)
    PROVE  Q \in SUBSET AllReached(g, s)
<1>1. CASE Q = {}
  BY <1>1
<1>2. CASE Q # {}
  <2>1. PICK last : Q = Reported(s, {p \in AllReached(g, s) : ~TriedBefore(s, last, p)})
    BY <1>2 DEF CutOff
  <2>2. QED
    BY <2>1, ReportedOf
<1>3. QED
  BY <1>1, <1>2

LEMMA RejectionShape ==
    ASSUME NEW g, Decoded(g), NEW full \in MaySearchInFull(g), NEW trace \in Rejections(g, full)
    PROVE  /\ trace.history = g
           /\ \A k \in DOMAIN trace.partitions :
                /\ k \in DOMAIN Partition(g)
                /\ TracesPart(g, Partition(g)[k], trace.partitions[k])
<1> DEFINE parts == Partition(g)
           Reports(k) == IF k \in full THEN {PartialLinearizations(g, parts[k])}
                         ELSE {Operations(parts[k], P) : P \in CutOff(g, parts[k])}
           traces == [k \in DOMAIN parts |->
                        UNION {PartitionTraces(g, partitionOps(g)[k], r) : r \in Reports(k)}]
           choices == {f \in [DOMAIN parts -> UNION Range(traces)] :
                          \A k \in DOMAIN parts : f[k] \in traces[k]}
<1>1. trace \in {[history |-> g, result |-> "Illegal", partitions |-> ps] : ps \in choices}
  BY Zenon DEF Rejections
<1>2. PICK f \in choices : trace = [history |-> g, result |-> "Illegal", partitions |-> f]
  <2> HIDE DEF choices
  <2> QED  BY <1>1
<1>3. /\ trace.history = g /\ trace.partitions = f
      /\ f \in [DOMAIN parts -> UNION Range(traces)]
      /\ \A k \in DOMAIN parts : f[k] \in traces[k]
  <2> HIDE DEF traces, parts
  <2> QED  BY <1>2
<1>4. DOMAIN f = DOMAIN parts
  <2> HIDE DEF traces, parts
  <2> QED  BY <1>3
<1>5. \A k \in DOMAIN parts :
        traces[k] = UNION {PartitionTraces(g, partitionOps(g)[k], r) : r \in Reports(k)}
  <2> HIDE DEF Reports, parts
  <2> QED  OBVIOUS
<1>6. ~MayTimeOut => full = DOMAIN parts
  BY DEF MaySearchInFull
<1> HIDE DEF traces, choices
<1>7. ASSUME NEW k \in DOMAIN parts
      PROVE  TracesPart(g, parts[k], f[k])
  <2>0. IsPartition(g, parts[k])
    BY PartsArePartitions
  <2>1. PICK r \in Reports(k) : f[k] \in PartitionTraces(g, partitionOps(g)[k], r)
    <3> HIDE DEF Reports, parts
    <3> QED  BY <1>3, <1>5
  <2>2. PICK best \in BestPrefixes(r) : f[k] = PartitionTrace(g, parts[k], r, best)
    BY <2>1 DEF PartitionTraces, partitionOps
  <2>3. \E Q : MayReport(g, parts[k], Q) /\ r = Operations(parts[k], Q)
    <3>1. CASE k \in full
      <4> DEFINE Q == Reported(parts[k], AllReached(g, parts[k]))
      <4>1. r = Operations(parts[k], Q)
        BY <2>1, <3>1 DEF PartialLinearizations
      <4>2. Q \in SUBSET AllReached(g, parts[k])
        BY <2>0, ReportedOf
      <4>3. QED
        BY <4>1, <4>2 DEF MayReport
    <3>2. CASE k \notin full
      <4>1. PICK Q \in CutOff(g, parts[k]) : r = Operations(parts[k], Q)
        BY <2>1, <3>2
      <4>2. Q \in SUBSET AllReached(g, parts[k])
        BY <2>0, CutOffReports
      <4>3. QED
        BY <1>6, <3>2, <4>1, <4>2 DEF MayReport
    <3>3. QED
      BY <3>1, <3>2
  <2>4. QED
    <3> HIDE DEF Reports, parts
    <3> QED  BY <2>2, <2>3 DEF TracesPart
<1>8. QED
  BY <1>3, <1>4, <1>7

\* A trace is one of the history that was checked, and says of each part what may
\* be said of it.
LEMMA TraceShape ==
    ASSUME NEW g, Decoded(g), NEW trace \in Check(g)
    PROVE  /\ trace.history = g
           /\ \A k \in DOMAIN trace.partitions :
                /\ k \in DOMAIN Partition(g)
                /\ TracesPart(g, Partition(g)[k], trace.partitions[k])
<1>1. CASE trace = Verdict(g, "Ok") \/ trace = Verdict(g, "Unknown")
  BY <1>1 DEF Verdict
<1>2. CASE \E full \in MaySearchInFull(g) : trace \in Rejections(g, full)
  BY <1>2, RejectionShape
<1>3. QED
  BY <1>1, <1>2 DEF Check

LEMMA ByIdChooses ==
    ASSUME NEW S, IsFiniteSet(S), \A a \in S : a.id \in Int,
           \A a, b \in S : a.id = b.id => a = b
    PROVE  \A k \in 1..Cardinality(S) : ById(S)[k] \in S
<1> DEFINE lt == {e \in S \X S : e[1].id < e[2].id}
           r == Ranks(S, lt)
           size == Cardinality(S)
<1>1. \A a, b \in S : <<a, b>> \in lt <=> a.id < b.id
  OBVIOUS
<1> HIDE DEF lt
<1>2. IsStrictOrder(S, lt)
  BY <1>1 DEF IsStrictOrder
<1>3. r \in Bijection(S, 1..size)
  BY <1>2, Ranking
<1>4. \A j \in 1..size : \E a \in S : r[a] = j
  BY <1>3 DEF Bijection, Surjection
<1>5. ASSUME NEW x \in S
      PROVE  r[x] = Cardinality({a \in S : a.id <= x.id})
  <2>1. UpToElement(S, lt, x) = {a \in S : a.id <= x.id}
    BY <1>1 DEF UpToElement
  <2>2. QED
    BY <2>1 DEF Ranks
<1> HIDE DEF r
<1>6. ASSUME NEW k \in 1..size
      PROVE  (CHOOSE op \in S : Cardinality({a \in S : a.id <= op.id}) = k) \in S
  <2>1. PICK x \in S : r[x] = k
    BY <1>4
  <2>2. Cardinality({a \in S : a.id <= x.id}) = k
    BY <1>5, <2>1
  <2>3. QED
    BY <2>2
<1>7. QED
  BY <1>6 DEF ById

LEMMA IdsTellApart ==
    ASSUME NEW g, Decoded(g)
    PROVE  /\ \A a, b \in OpsOf(g) : a.id = b.id => a = b
           /\ \A op \in OpsOf(g) : op.id \in Int /\ findOp(g, op.id) = op
<1>1. \A a, b \in DOMAIN g.ops : g.ops[a].id = g.ops[b].id => a = b
  BY DEF Decoded, Valid
<1>2. ASSUME NEW op \in OpsOf(g)
      PROVE  findOp(g, op.id) = op
  <2>1. PICK x \in DOMAIN g.ops : g.ops[x] = op
    BY DEF OpsOf, Range
  <2>2. x \in Nat /\ \A j \in 1..x - 1 : j \in DOMAIN g.ops /\ j # x
    BY DEF Decoded
  <2>3. g.ops[x].id = op.id /\ \A j \in 1..x - 1 : g.ops[j].id # op.id
    BY <1>1, <2>1, <2>2
  <2>4. \A k \in DOMAIN g.ops : g.ops[k].id = op.id => k = x
    BY <1>1, <2>1
  <2>5. (CHOOSE k \in DOMAIN g.ops : /\ g.ops[k].id = op.id
                                     /\ \A j \in 1..k - 1 : g.ops[j].id # op.id) = x
    BY <2>3, <2>4
  <2>6. QED
    BY <2>1, <2>5 DEF findOp
<1>3. QED
  BY <1>1, <1>2 DEF OpsOf, Range, Decoded

\* op is an operation of s that is in none of the prefixes Q.
LeftOut(s, Q, op) ==
    /\ op \in Range(s)
    /\ \A q \in Q : \A j \in DOMAIN q : s[q[j]] # op

\* A block classifies an operation that was left out against a reported prefix.
LEMMA BlockOf ==
    ASSUME NEW g, Decoded(g), NEW s, IsPartition(g, s), NEW Q, MayReport(g, s, Q),
           NEW best \in BestPrefixes(Operations(s, Q)),
           NEW t, t = PartitionTrace(g, s, Operations(s, Q), best)
    PROVE  /\ t.longestPrefix = Ids(best)
           /\ \E p : best = OpsAt(s, p) /\ (p \in Q \/ p = <<>>)
           /\ \A b \in Range(t.blocks) : \E op : /\ LeftOut(s, Q, op)
                                                 /\ b = classifyBlock(g, op, best)
<1> DEFINE partials == Operations(s, Q)
           S == Range(s) \ UNION {Range(p) : p \in partials}
<1>1. t.longestPrefix = Ids(best)
  BY DEF PartitionTrace
<1>2. \E p : best = OpsAt(s, p) /\ (p \in Q \/ p = <<>>)
  <2>1. CASE partials = {}
    <3>1. best = <<>>
      BY <2>1 DEF BestPrefixes
    <3>2. OpsAt(s, <<>>) = <<>>
      BY DEF OpsAt
    <3>3. QED
      BY <3>1, <3>2
  <2>2. CASE partials # {}
    <3>1. best \in partials
      BY <2>2 DEF BestPrefixes
    <3>2. QED
      BY <3>1 DEF Operations, OpsAt
  <2>3. QED
    BY <2>1, <2>2
<1>3. ASSUME NEW b \in Range(t.blocks)
      PROVE  \E op : LeftOut(s, Q, op) /\ b = classifyBlock(g, op, best)
  <2>1. IsFiniteSet(S) /\ \A a \in S : a \in OpsOf(g)
    <3>1. S \in SUBSET OpsOf(g)
      BY DEF IsPartition, Range
    <3>2. IsFiniteSet(OpsOf(g))
      BY FiniteOps DEF Decoded
    <3> HIDE DEF S
    <3>3. QED
      BY <3>1, <3>2, FS_Subset
  <2>2. \A k \in 1..Cardinality(S) : ById(S)[k] \in S
    <3> HIDE DEF S
    <3> QED  BY <2>1, IdsTellApart, ByIdChooses
  <2>3. BlockedOps(s, partials) = ById(S)
    BY DEF BlockedOps
  <2>4. PICK k \in 1..Cardinality(S) : b = classifyBlock(g, ById(S)[k], best)
    <3> HIDE DEF S
    <3>1. t.blocks = [k \in DOMAIN ById(S) |-> classifyBlock(g, ById(S)[k], best)]
      BY <2>3 DEF PartitionTrace
    <3>2. DOMAIN ById(S) = 1..Cardinality(S)
      BY DEF ById
    <3>3. QED
      BY <1>3, <3>1, <3>2 DEF Range
  <2>5. LeftOut(s, Q, ById(S)[k])
    <3> DEFINE op == ById(S)[k]
    <3>1. op \in S
      BY <2>2
    <3> HIDE DEF op
    <3>2. ASSUME NEW q \in Q, NEW j \in DOMAIN q
          PROVE  s[q[j]] # op
      <4>1. OpsAt(s, q) \in partials
        BY DEF Operations, OpsAt
      <4>2. s[q[j]] \in Range(OpsAt(s, q))
        BY DEF OpsAt, Range
      <4>3. QED
        BY <3>1, <4>1, <4>2
    <3>3. QED
      BY <3>1, <3>2 DEF LeftOut, op
  <2>6. QED
    BY <2>4, <2>5
<1>4. QED
  BY <1>1, <1>2, <1>3

\* A prefix of a search, or the one it starts from.
LEMMA PrefixIsRight ==
    ASSUME NEW g, Decoded(g), NEW s, IsPartition(g, s), NEW p,
           p \in AllReached(g, s) \/ p = <<>>
    PROVE  /\ p \in Seq(DOMAIN s) /\ Len(p) \in 0..Len(s)
           /\ Orders(s, p, Len(p))
           /\ p \in Reached(g, s)[Len(p)]
<1>1. s \in Seq(OpsOf(g)) /\ Len(s) \in Nat
  BY DEF IsPartition
<1>2. CASE p = <<>>
  <2>1. RightlyReached(g, s, 0, Root(g)) /\ Root(g).prefix = <<>>
    BY <1>1, RootIsRight DEF Root
  <2>2. Orders(s, <<>>, 0)
    BY <2>1 DEF RightlyReached
  <2>3. PICK f : AreNodes(f, g, s)
    BY <1>1, ReachedUnfolds
  <2>4. <<>> \in Reached(g, s)[0]
    BY <1>1, <2>1, <2>3 DEF AreNodes
  <2>5. QED
    BY <1>1, <1>2, <2>2, <2>4
<1>3. CASE p \in AllReached(g, s)
  BY <1>1, <1>3, ReachedPrefixes
<1>4. QED
  BY <1>2, <1>3

\* The operations of a prefix are different.
LEMMA PrefixOps ==
    ASSUME NEW g, Decoded(g), NEW s, IsPartition(g, s), NEW p,
           p \in AllReached(g, s) \/ p = <<>>
    PROVE  OpsAt(s, p) \in Seq(OpsOf(g)) /\ DistinctIds(OpsAt(s, p))
<1> DEFINE len == Len(p)
           q == OpsAt(s, p)
<1>1. p \in Seq(DOMAIN s) /\ len \in Nat /\ DOMAIN p = 1..len /\ Orders(s, p, len)
  BY PrefixIsRight
<1>2. s \in Seq(OpsOf(g)) /\ \A x, y \in DOMAIN s : s[x] = s[y] => x = y
  BY DEF IsPartition
<1>3. DOMAIN q = 1..len /\ \A a \in 1..len : p[a] \in DOMAIN s /\ q[a] = s[p[a]] /\ q[a] \in OpsOf(g)
  <2>1. DOMAIN q = 1..len /\ \A a \in 1..len : q[a] = s[p[a]]
    BY <1>1 DEF OpsAt
  <2>2. \A a \in 1..len : p[a] \in DOMAIN s
    BY <1>1
  <2> HIDE DEF q, len
  <2>3. QED
    BY <1>2, <2>1, <2>2
<1>4. \A a, b \in 1..len : p[a] = p[b] => a = b
  BY <1>1 DEF Orders
<1>5. q \in Seq(OpsOf(g))
  <2>1. q = [a \in 1..len |-> q[a]]
    BY <1>1 DEF OpsAt
  <2> HIDE DEF q, len
  <2>2. QED
    BY <1>1, <1>3, <2>1
<1> HIDE DEF q, len
<1>6. \A a, b \in DOMAIN q : q[a].id = q[b].id => a = b
  BY <1>2, <1>3, <1>4, IdsTellApart
<1>7. QED
  BY <1>5, <1>6 DEF DistinctIds, q

LEMMA NoneKept ==
    ASSUME NEW R, NEW s \in Seq(R), DistinctIds(s)
    PROVE  Only(s, {}) = <<>>
<1>1. Only(s, {}) \in Seq(R) /\ OnlySoFar(s, {}, Len(s), Only(s, {}))
  BY OnlyThose
<1>2. DOMAIN Only(s, {}) = {}
  BY <1>1 DEF OnlySoFar
<1>3. QED
  BY <1>1, <1>2

\* The search puts no operation after one that it precedes: what is outside a prefix
\* precedes nothing in it.
LEMMA NoInversions ==
    ASSUME NEW g, Decoded(g), NEW s, IsPartition(g, s), NEW p,
           p \in AllReached(g, s) \/ p = <<>>,
           NEW op \in Range(s), \A j \in DOMAIN p : s[p[j]] # op
    PROVE  Inversions(op, OpsAt(s, p)) = <<>>
<1> DEFINE q == OpsAt(s, p)
<1>1. Orders(s, p, Len(p)) /\ DOMAIN p = 1..Len(p)
  BY PrefixIsRight
<1>2. PICK x \in DOMAIN s : s[x] = op
  BY DEF Range
<1>3. \A a \in 1..Len(p) : ~Precedes(s[x], s[p[a]])
  BY <1>1, <1>2 DEF Orders
<1>4. {k \in DOMAIN q : Precedes(op, q[k])} = {}
  BY <1>1, <1>2, <1>3 DEF OpsAt
<1>5. q \in Seq(OpsOf(g)) /\ DistinctIds(q)
  BY PrefixOps
<1> HIDE DEF q
<1>6. Only(q, {}) = <<>>
  BY <1>5, NoneKept
<1>7. Inversions(op, q) = <<>>
  BY <1>4, <1>6 DEF Inversions
<1>8. QED
  BY <1>7 DEF q

\* The first constraint is never given.
LEMMA NeverRealTime ==
    ASSUME NEW g, Decoded(g), NEW s, IsPartition(g, s), NEW t, TracesPart(g, s, t),
           NEW b \in Range(t.blocks)
    PROVE  b.constraint # "real-time-precedes"
<1>1. PICK Q, best : /\ MayReport(g, s, Q) /\ best \in BestPrefixes(Operations(s, Q))
                     /\ t = PartitionTrace(g, s, Operations(s, Q), best)
  BY DEF TracesPart
<1>2. PICK p : best = OpsAt(s, p) /\ (p \in Q \/ p = <<>>)
  BY <1>1, BlockOf
<1>3. PICK op : LeftOut(s, Q, op) /\ b = classifyBlock(g, op, best)
  BY <1>1, BlockOf
<1>4. p \in AllReached(g, s) \/ p = <<>>
  BY <1>1, <1>2 DEF MayReport
<1>5. op \in Range(s) /\ \A j \in DOMAIN p : s[p[j]] # op
  BY <1>2, <1>3 DEF LeftOut
<1>6. Inversions(op, best) = <<>>
  BY <1>2, <1>4, <1>5, NoInversions
<1>7. QED
  BY <1>3, <1>6 DEF classifyBlock, Reason

-----------------------------------------------------------------------------
(* The replay of a prefix *)

ReplayStart(g) == [ok |-> TRUE, state |-> InitState(g)]

\* One operation of the replay.
ReplayStep(g, acc, op) ==
    [ok |-> acc.ok /\ Legal(op, acc.state), state |-> Apply(g, op, acc.state)]

\* r has the state of the replay of q before each operation, and after it.
ReplaySteps(g, q, r) ==
    /\ r[0] = ReplayStart(g)
    /\ \A j \in 1..Len(q) : r[j] = ReplayStep(g, r[j - 1], q[j])

\* Replay runs through the operations.
LEMMA ReplayUnfolds ==
    ASSUME NEW g, Decoded(g), NEW q \in Seq(OpsOf(g))
    PROVE  \E r : ReplaySteps(g, q, r) /\ Replay(g, q) = r[Len(q)]
<1> DEFINE len == Len(q)
           A == [ok : BOOLEAN, state : Int]
           step == [e \in (1..len) \X A |-> ReplayStep(g, e[2], q[e[1]])]
           Recursion(f) ==
               f = [t \in SUBSET (DOMAIN q) |->
                       IF t = {} THEN ReplayStart(g) ELSE ReplayStep(g, f[t \ {Max(t)}], q[Max(t)])]
           iter == CHOOSE f : Recursion(f)
<1>1. Replay(g, q) = iter[DOMAIN q]
  BY DEF Replay, FoldLeft, MapThenFoldSet, ReplayStep, ReplayStart
<1>2. len \in Nat /\ DOMAIN q = 1..len
  OBVIOUS
<1>3. ReplayStart(g) \in A
  BY DEF ReplayStart, InitState, Decoded
<1>4. step \in [(1..len) \X A -> A]
  <2>1. ASSUME NEW k \in 1..len, NEW acc \in A
        PROVE  ReplayStep(g, acc, q[k]) \in A
    <3>1. acc.state \in Int /\ q[k].value \in Int
      <4>1. q[k] \in OpsOf(g)
        BY <1>2
      <4>2. QED
        BY <4>1 DEF Decoded
    <3>2. Apply(g, q[k], acc.state) \in Int
      BY <3>1 DEF Apply
    <3>3. (acc.ok /\ Legal(q[k], acc.state)) \in BOOLEAN
      OBVIOUS
    <3>4. QED
      BY <3>2, <3>3 DEF ReplayStep
  <2>2. QED
    BY <2>1
<1>5. \A k \in 1..len, acc \in A : step[<<k, acc>>] = ReplayStep(g, acc, q[k])
  OBVIOUS
<1> HIDE DEF step, A, len
<1>6. PICK f \in [SUBSET (1..len) -> A] : Unfolds(f, len, ReplayStart(g), step)
  BY <1>2, <1>3, <1>4, FoldExists
<1>7. Recursion(f)
  <2>1. ASSUME NEW t \in SUBSET (1..len)
        PROVE  f[t] = IF t = {} THEN ReplayStart(g)
                      ELSE ReplayStep(g, f[t \ {Max(t)}], q[Max(t)])
    <3>1. CASE t = {}
      BY <1>6, <3>1 DEF Unfolds
    <3>2. CASE t # {}
      <4>1. Max(t) \in 1..len /\ t \ {Max(t)} \in SUBSET (1..len)
        BY <1>2, <3>2, GreatestOf
      <4>2. f[t] = step[<<Max(t), f[t \ {Max(t)}]>>] /\ f[t \ {Max(t)}] \in A
        BY <1>6, <3>2, <4>1 DEF Unfolds
      <4>3. QED
        BY <1>5, <3>2, <4>1, <4>2
    <3>3. QED
      BY <3>1, <3>2
  <2>2. QED
    BY <1>2, <1>6, <2>1
<1>8. Recursion(iter)
  BY <1>7
<1> HIDE DEF iter
<1> DEFINE r == [k \in 0..len |-> iter[1..k]]
<1>9. r[0] = ReplayStart(g)
  <2>1. 1..0 = {} /\ 1..0 \in SUBSET (DOMAIN q)
    OBVIOUS
  <2>2. 0 \in 0..len
    BY <1>2
  <2>3. QED
    BY <1>8, <2>1, <2>2
<1>10. ASSUME NEW k \in 1..len
       PROVE  r[k] = ReplayStep(g, r[k - 1], q[k])
  <2>0. k \in Nat /\ k # 0 /\ k \in 0..len /\ k - 1 \in 0..len /\ k \in 1..k /\ k <= len
    BY <1>2
  <2>1. 1..k \in SUBSET (DOMAIN q) /\ 1..k # {}
    <3>1. \A j \in 1..k : j \in 1..len
      BY <1>2, <2>0
    <3>2. QED
      BY <1>2, <2>0, <3>1
  <2>2. Max(1..k) = k
    BY <2>0, GreatestOfInterval
  <2>3. (1..k) \ {k} = 1..k - 1
    BY <2>0
  <2>4. iter[1..k] = ReplayStep(g, iter[1..k - 1], q[k])
    BY <1>8, <2>1, <2>2, <2>3
  <2>5. QED
    BY <2>0, <2>4
<1>11. r[len] = iter[DOMAIN q]
  BY <1>2
<1> HIDE DEF r
<1>12. ReplaySteps(g, q, r)
  BY <1>9, <1>10 DEF ReplaySteps, len
<1>13. QED
  BY <1>1, <1>11, <1>12 DEF len

LEMMA ReplayOfMore ==
    ASSUME NEW g, Decoded(g), NEW q \in Seq(OpsOf(g)), NEW op \in OpsOf(g)
    PROVE  Replay(g, Append(q, op)) = ReplayStep(g, Replay(g, q), op)
<1> DEFINE more == Append(q, op)
<1>1. /\ more \in Seq(OpsOf(g)) /\ Len(more) = Len(q) + 1 /\ more[Len(more)] = op
      /\ Len(q) \in Nat /\ \A k \in 1..Len(q) : more[k] = q[k]
  OBVIOUS
<1> HIDE DEF more
<1>2. PICK r : ReplaySteps(g, q, r) /\ Replay(g, q) = r[Len(q)]
  BY ReplayUnfolds
<1>3. PICK w : ReplaySteps(g, more, w) /\ Replay(g, more) = w[Len(more)]
  BY <1>1, ReplayUnfolds
<1> DEFINE T == {k \in 0..Len(q) : r[k] = w[k]}
<1>4. 0 \in T
  BY <1>1, <1>2, <1>3 DEF ReplaySteps
<1>5. ASSUME NEW k \in 1..Len(q), k - 1 \in T
      PROVE  k \in T
  <2>1. k \in 1..Len(more) /\ r[k - 1] = w[k - 1] /\ k \in 0..Len(q)
    BY <1>1, <1>5
  <2>2. r[k] = ReplayStep(g, r[k - 1], q[k]) /\ w[k] = ReplayStep(g, w[k - 1], more[k])
    BY <1>2, <1>3, <2>1 DEF ReplaySteps
  <2>3. QED
    BY <1>1, <2>1, <2>2
<1>6. Len(q) \in T
  <2> HIDE DEF T
  <2>1. 0..Len(q) \subseteq T
    BY <1>1, <1>4, <1>5, UpTo
  <2>2. QED
    BY <1>1, <2>1
<1>7. Len(more) \in 1..Len(more) /\ Len(more) - 1 = Len(q)
  BY <1>1
<1>8. w[Len(more)] = ReplayStep(g, w[Len(q)], op)
  BY <1>1, <1>3, <1>7 DEF ReplaySteps
<1>9. QED
  BY <1>2, <1>3, <1>6, <1>8 DEF more

\* The replay of the prefix of a node is legal, and ends in the state of the node.
ReplaysTo(g, s, node) ==
    Replay(g, OpsAt(s, node.prefix)) = [ok |-> TRUE, state |-> node.state]

LEMMA Appended ==
    ASSUME NEW R, NEW q \in Seq(R), NEW x \in R
    PROVE  /\ Append(q, x) = [a \in 1..Len(q) + 1 |-> Append(q, x)[a]]
           /\ Append(q, x)[Len(q) + 1] = x
           /\ \A a \in 1..Len(q) : Append(q, x)[a] = q[a]
<1>1. Append(q, x) \in Seq(R) /\ Len(Append(q, x)) = Len(q) + 1
  OBVIOUS
<1>2. \A t \in Seq(R) : t = [a \in 1..Len(t) |-> t[a]]
  OBVIOUS
<1>3. Append(q, x)[Len(q) + 1] = x
  OBVIOUS
<1>4. \A a \in 1..Len(q) : Append(q, x)[a] = q[a]
  OBVIOUS
<1>5. Append(q, x) = [a \in 1..Len(q) + 1 |-> Append(q, x)[a]]
  <2> DEFINE t == Append(q, x)
  <2>1. t \in Seq(R) /\ Len(t) = Len(q) + 1
    BY <1>1
  <2> HIDE DEF t
  <2>2. t = [a \in 1..Len(q) + 1 |-> t[a]]
    BY <1>2, <2>1
  <2>3. QED
    BY <2>2 DEF t
<1>6. QED
  BY <1>3, <1>4, <1>5

LEMMA NodesReplay ==
    ASSUME NEW g, Decoded(g), NEW s, IsPartition(g, s), NEW f, AreNodes(f, g, s)
    PROVE  \A k \in 0..Len(s) : \A node \in f[k] : ReplaysTo(g, s, node)
<1> DEFINE size == Len(s)
           T == {k \in 0..size : \A node \in f[k] : ReplaysTo(g, s, node)}
<1>1. s \in Seq(OpsOf(g)) /\ size \in Nat /\ DOMAIN s = 1..size
  BY DEF IsPartition
<1>2. 0 \in T
  <2>0. <<>> \in Seq(OpsOf(g)) /\ Len(<<>>) = 0
    OBVIOUS
  <2>1. PICK r : ReplaySteps(g, <<>>, r) /\ Replay(g, <<>>) = r[Len(<<>>)]
    BY <2>0, ReplayUnfolds
  <2>2. Replay(g, <<>>) = [ok |-> TRUE, state |-> InitState(g)]
    BY <2>0, <2>1 DEF ReplaySteps, ReplayStart
  <2>3. OpsAt(s, <<>>) = <<>>
    BY DEF OpsAt
  <2>4. f[0] = {Root(g)} /\ Root(g).prefix = <<>> /\ Root(g).state = InitState(g)
    BY DEF AreNodes, Root
  <2>5. ReplaysTo(g, s, Root(g))
    BY <2>2, <2>3, <2>4 DEF ReplaysTo
  <2>6. 0 \in 0..size /\ \A node \in f[0] : node = Root(g)
    BY <1>1, <2>4
  <2>7. QED
    BY <2>5, <2>6
<1>3. ASSUME NEW k \in 1..size, k - 1 \in T
      PROVE  k \in T
  <2>1. SUFFICES ASSUME NEW child \in f[k]
                 PROVE  ReplaysTo(g, s, child)
    OBVIOUS
  <2>2. PICK node \in f[k - 1] : child \in Children(g, s, node)
    BY DEF AreNodes
  <2>3. PICK x \in MayFollow(s, node) :
            child = [prefix |-> Append(node.prefix, x), state |-> Apply(g, s[x], node.state)]
    BY <2>2 DEF Children
  <2>4. x \in DOMAIN s /\ Legal(s[x], node.state) /\ s[x] \in OpsOf(g)
    BY <1>1 DEF MayFollow
  <2>5. node.prefix \in Seq(DOMAIN s)
    <3>1. k - 1 \in 0..size
      BY <1>1
    <3>2. QED
      BY <3>1, AllAreRight DEF RightlyReached
  <2> DEFINE p == node.prefix
             q == OpsAt(s, p)
             more == OpsAt(s, Append(p, x))
  <2>6. q \in Seq(OpsOf(g)) /\ more = Append(q, s[x])
    <3> HIDE DEF p
    <3>1. p \in Seq(DOMAIN s) /\ DOMAIN p = 1..Len(p) /\ Len(p) \in Nat
      BY <2>5 DEF p
    <3>2. \A a \in 1..Len(p) : p[a] \in DOMAIN s /\ s[p[a]] \in OpsOf(g)
      BY <1>1, <3>1
    <3>3. q = [a \in 1..Len(p) |-> s[p[a]]]
      BY <3>1 DEF OpsAt
    <3>4. q \in Seq(OpsOf(g)) /\ Len(q) = Len(p)
      <4> HIDE DEF q
      <4> QED  BY <3>1, <3>2, <3>3
    <3>5. /\ DOMAIN Append(p, x) = 1..Len(p) + 1 /\ Append(p, x)[Len(p) + 1] = x
          /\ \A a \in 1..Len(p) : Append(p, x)[a] = p[a]
      BY <3>1
    <3>6. /\ DOMAIN more = 1..Len(p) + 1 /\ more[Len(p) + 1] = s[x]
          /\ \A a \in 1..Len(p) : more[a] = q[a]
      BY <3>1, <3>3, <3>5 DEF OpsAt
    <3>7. more = [a \in 1..Len(p) + 1 |-> more[a]]
      BY <3>5 DEF OpsAt
    <3> HIDE DEF q, more
    <3>8. /\ Append(q, s[x])[Len(p) + 1] = s[x]
          /\ \A a \in 1..Len(p) : Append(q, s[x])[a] = q[a]
          /\ Append(q, s[x]) = [a \in 1..Len(p) + 1 |-> Append(q, s[x])[a]]
      BY <2>4, <3>4, Appended
    <3>9. \A a \in 1..Len(p) + 1 : more[a] = Append(q, s[x])[a]
      BY <3>1, <3>6, <3>8
    <3>10. QED
      BY <3>4, <3>7, <3>8, <3>9
  <2>7. Replay(g, more) = ReplayStep(g, Replay(g, q), s[x])
    BY <2>4, <2>6, ReplayOfMore
  <2>8. Replay(g, q) = [ok |-> TRUE, state |-> node.state]
    <3>1. ReplaysTo(g, s, node)
      BY <1>3
    <3>2. QED
      BY <3>1 DEF ReplaysTo
  <2>9. Replay(g, more) = [ok |-> TRUE, state |-> Apply(g, s[x], node.state)]
    <3> HIDE DEF more, q
    <3>1. Replay(g, q).ok = TRUE /\ Replay(g, q).state = node.state
      BY <2>8
    <3>2. (Replay(g, q).ok /\ Legal(s[x], Replay(g, q).state)) = TRUE
      BY <2>4, <3>1
    <3>3. QED
      BY <2>7, <3>1, <3>2 DEF ReplayStep
  <2>10. child.prefix = Append(p, x) /\ child.state = Apply(g, s[x], node.state)
    BY <2>3
  <2>11. QED
    BY <2>9, <2>10 DEF ReplaysTo
<1>4. QED
  <2> HIDE DEF T
  <2>1. 0..size \subseteq T
    BY <1>1, <1>2, <1>3, UpTo
  <2>2. QED
    BY <2>1 DEF T

-----------------------------------------------------------------------------
(* The reasons of a search that was not cut off *)

\* A prefix with as many operations as the part has all of them.
LEMMA FullPrefixHasAll ==
    ASSUME NEW s, NEW size \in Nat, DOMAIN s = 1..size, NEW p, Orders(s, p, size)
    PROVE  Range(p) = DOMAIN s
<1>1. p \in [1..size -> 1..size] /\ \A a, b \in 1..size : p[a] = p[b] => a = b
  BY DEF Orders
<1>2. size \in Nat
  OBVIOUS
<1>3. p \in Injection(1..size, 1..size)
  BY <1>1 DEF Injection, IsInjective
<1>4. IsFiniteSet(1..size) /\ Cardinality(1..size) = size
  BY <1>2, FS_Interval
<1>5. p \in Surjection(1..size, 1..size)
  BY <1>3, <1>4, FS_Injection
<1>6. \A x \in 1..size : \E a \in 1..size : p[a] = x
  BY <1>5 DEF Surjection
<1>7. DOMAIN p = 1..size /\ \A a \in 1..size : p[a] \in 1..size
  BY <1>1
<1>8. QED
  BY <1>6, <1>7 DEF Range

\* An operation that may follow a prefix is in a prefix, too.
LEMMA CanGoOn ==
    ASSUME NEW g, Decoded(g), NEW s, IsPartition(g, s), NEW f, AreNodes(f, g, s),
           NEW len \in 0..Len(s), NEW node \in f[len], NEW x \in MayFollow(s, node)
    PROVE  \E p \in AllReached(g, s) : x \in Range(p)
<1> DEFINE size == Len(s)
<1>0. s \in Seq(OpsOf(g))
  BY DEF IsPartition
<1>1. DOMAIN s = 1..size /\ size \in Nat /\ len \in 0..size
  BY <1>0
<1> HIDE DEF size
<1>2. RightlyReached(g, s, len, node)
  BY AllAreRight
<1> DEFINE p == node.prefix
           child == [prefix |-> Append(p, x), state |-> Apply(g, s[x], node.state)]
<1>3. p \in Seq(DOMAIN s) /\ Len(p) = len /\ Orders(s, p, len)
  BY <1>2 DEF RightlyReached
<1>4. x \in DOMAIN s /\ x \notin Range(p)
  BY DEF MayFollow
<1>5. len + 1 \in 1..size
  <2>1. ASSUME len = size
        PROVE  FALSE
    <3> HIDE DEF p, child
    <3>1. Orders(s, p, size)
      BY <1>3, <2>1
    <3>2. Range(p) = DOMAIN s
      BY <1>1, <3>1, FullPrefixHasAll
    <3>3. QED
      BY <1>4, <3>2
  <2>2. len # size
    BY <2>1
  <2>3. QED
    BY <1>1, <2>2
<1>6. child \in f[len + 1]
  <2>1. child \in Children(g, s, node)
    BY DEF Children
  <2>2. len + 1 - 1 = len
    OBVIOUS
  <2>3. f[len + 1] = UNION {Children(g, s, nd) : nd \in f[len]}
    BY <1>5, <2>2 DEF AreNodes, size
  <2>4. QED
    BY <2>1, <2>3
<1>7. Append(p, x) \in Reached(g, s)[len + 1]
  <2>1. len + 1 \in 0..size
    BY <1>1, <1>5
  <2>2. child.prefix = Append(p, x)
    OBVIOUS
  <2> HIDE DEF child, p
  <2>3. Reached(g, s)[len + 1] = {nd.prefix : nd \in f[len + 1]}
    BY <2>1 DEF AreNodes, size
  <2>4. QED
    BY <1>6, <2>2, <2>3
<1>8. Append(p, x) \in AllReached(g, s)
  <2> HIDE DEF p
  <2> QED  BY <1>1, <1>5, <1>7 DEF AllReached
<1>9. x \in Range(Append(p, x))
  <2> HIDE DEF p
  <2>1. DOMAIN Append(p, x) = 1..Len(p) + 1 /\ Append(p, x)[Len(p) + 1] = x
    BY <1>3
  <2>2. Len(p) + 1 \in DOMAIN Append(p, x)
    BY <1>3, <2>1
  <2>3. QED
    BY <2>1, <2>2 DEF Range
<1>10. QED
  BY <1>8, <1>9

\* What is left out of the reports of a whole search is in no prefix.
LEMMA LeftOutOfAll ==
    ASSUME NEW g, Decoded(g), NEW s, IsPartition(g, s), ~MayTimeOut,
           NEW Q, MayReport(g, s, Q), NEW x \in DOMAIN s, LeftOut(s, Q, s[x])
    PROVE  \A p \in AllReached(g, s) : x \notin Range(p)
<1>1. SUFFICES ASSUME NEW p \in AllReached(g, s), x \in Range(p)
               PROVE  FALSE
  OBVIOUS
<1>2. Q = Reported(s, AllReached(g, s))
  BY DEF MayReport
<1>3. PICK q \in Q : x \in Range(q)
  BY <1>1, <1>2, ReportedOf
<1>4. QED
  BY <1>3 DEF LeftOut, Range

\* Another operation is outside the prefix, too, and had returned before the call.
WaitsForAnother(s, t, op) ==
    \E a \in Range(s) : a.id \notin Range(t.longestPrefix) /\ Precedes(a, op)

LEMMA ConflictWaits ==
    ASSUME NEW g, Decoded(g), NEW s, IsPartition(g, s), ~MayTimeOut,
           NEW t, TracesPart(g, s, t), NEW b \in Range(t.blocks),
           b.constraint = "concurrent-conflict"
    PROVE  \E op \in Range(s) : b.opID = op.id /\ WaitsForAnother(s, t, op)
<1>0. s \in Seq(OpsOf(g)) /\ DOMAIN s = 1..Len(s) /\ Len(s) \in Nat
  BY DEF IsPartition
<1>1. PICK Q, best : /\ MayReport(g, s, Q) /\ best \in BestPrefixes(Operations(s, Q))
                     /\ t = PartitionTrace(g, s, Operations(s, Q), best)
  BY DEF TracesPart
<1>2. PICK p : best = OpsAt(s, p) /\ (p \in Q \/ p = <<>>)
  BY <1>1, BlockOf
<1>3. PICK op : LeftOut(s, Q, op) /\ b = classifyBlock(g, op, best)
  BY <1>1, BlockOf
<1>4. t.longestPrefix = Ids(best)
  BY <1>1, BlockOf
<1>5. p \in AllReached(g, s) \/ p = <<>>
  BY <1>1, <1>2 DEF MayReport
<1>6. op \in Range(s) /\ \A j \in DOMAIN p : s[p[j]] # op
  BY <1>2, <1>3 DEF LeftOut
<1>7. PICK x \in DOMAIN s : s[x] = op
  BY <1>6 DEF Range
<1>8. /\ p \in Seq(DOMAIN s) /\ Len(p) \in 0..Len(s)
      /\ p \in Reached(g, s)[Len(p)]
  BY <1>5, PrefixIsRight
<1>9. PICK f : AreNodes(f, g, s)
  BY <1>0, ReachedUnfolds
<1>10. PICK node \in f[Len(p)] : node.prefix = p
  BY <1>8, <1>9 DEF AreNodes
<1>11. Inversions(op, best) = <<>>
  BY <1>2, <1>5, <1>6, NoInversions
<1>12. Replay(g, best).ok = TRUE /\ Replay(g, best).state = node.state
  <2>1. ReplaysTo(g, s, node)
    BY <1>8, <1>9, NodesReplay
  <2>2. Replay(g, best) = [ok |-> TRUE, state |-> node.state]
    BY <1>2, <1>10, <2>1 DEF ReplaysTo
  <2>3. QED
    BY <2>2
<1>13. Legal(op, node.state) /\ b.opID = op.id
  BY <1>3, <1>11, <1>12 DEF classifyBlock, Reason
<1>14. x \notin MayFollow(s, node)
  <2>1. ASSUME x \in MayFollow(s, node)
        PROVE  FALSE
    <3>1. \E r \in AllReached(g, s) : x \in Range(r)
      BY <1>8, <1>9, <1>10, <2>1, CanGoOn
    <3>2. QED
      BY <1>1, <1>3, <1>7, <3>1, LeftOutOfAll
  <2>2. QED
    BY <2>1
<1>15. x \notin Range(p)
  BY <1>6, <1>7 DEF Range
<1>16. PICK y \in DOMAIN s \ Range(p) : Precedes(s[y], op)
  BY <1>7, <1>10, <1>13, <1>14, <1>15 DEF MayFollow
<1>17. s[y] \in Range(s) /\ s[y] \in OpsOf(g)
  BY <1>0 DEF Range
<1>18. s[y].id \notin Range(Ids(best))
  <2>1. ASSUME NEW j \in DOMAIN p
        PROVE  s[p[j]].id # s[y].id
    <3>1. p[j] \in DOMAIN s /\ p[j] # y
      BY <1>8, <1>16 DEF Range
    <3>2. s[p[j]] \in OpsOf(g) /\ s[p[j]] # s[y]
      BY <1>0, <3>1 DEF IsPartition
    <3>3. QED
      BY <1>17, <3>2, IdsTellApart
  <2>2. QED
    BY <1>2, <2>1 DEF Ids, OpsAt, Range
<1>19. WaitsForAnother(s, t, op)
  BY <1>4, <1>16, <1>17, <1>18 DEF WaitsForAnother
<1>20. QED
  BY <1>6, <1>13, <1>19

\* The operations of a part as a history of their own.
LEMMA PartAlone ==
    ASSUME NEW g, Decoded(g), NEW s, IsPartition(g, s)
    PROVE  /\ Decoded(WithOps(g, s)) /\ IsPartition(WithOps(g, s), s)
           /\ WithOps(g, s).model = g.model /\ WithOps(g, s).init = g.init
<1> DEFINE sub == WithOps(g, s)
<1>1. s \in Seq(OpsOf(g)) /\ DOMAIN s = 1..Len(s) /\ Len(s) \in Nat
      /\ \A a, b \in DOMAIN s : s[a] = s[b] => a = b
  BY DEF IsPartition
<1>2. g \in [model : STRING, init : Int, ops : Seq(OpsOf(g))]
  BY DEF Decoded
<1>3. sub = [model |-> g.model, init |-> g.init, ops |-> s]
  BY <1>2 DEF WithOps
<1>4. sub.model = g.model /\ sub.init = g.init /\ sub.ops = s
  BY <1>3
<1> HIDE DEF sub
<1>5. OpsOf(sub) = Range(s) /\ \A op \in OpsOf(sub) : op \in OpsOf(g)
  BY <1>1, <1>4 DEF OpsOf, Range
<1>6. s \in Seq(OpsOf(sub))
  <2>1. \A a \in 1..Len(s) : s[a] \in OpsOf(sub)
    BY <1>1, <1>5 DEF Range
  <2>2. QED
    BY <1>1, <2>1
<1>7. Valid(sub)
  <2>1. \A a, b \in DOMAIN s : s[a].id = s[b].id => a = b
    <3>1. \A a \in DOMAIN s : s[a] \in OpsOf(g)
      BY <1>1
    <3>2. QED
      BY <1>1, <3>1, IdsTellApart
  <2>2. QED
    BY <1>4, <1>5, <2>1 DEF Valid, Decoded
<1>8. Decoded(sub)
  <2>1. sub \in [model : STRING, init : Int, ops : Seq(OpsOf(sub))]
    BY <1>2, <1>3, <1>6
  <2>2. QED
    BY <1>4, <1>5, <1>7, <2>1 DEF Decoded
<1>9. \A a, b \in Range(s) : OnOneObject(sub, a, b)
  <2>1. \A a, b \in Range(s) : OnOneObject(g, a, b)
    BY <1>5 DEF IsPartition
  <2>2. QED
    BY <1>4, <2>1 DEF OnOneObject
<1>10. IsPartition(sub, s)
  BY <1>1, <1>5, <1>6, <1>9 DEF IsPartition
<1>11. QED
  BY <1>4, <1>8, <1>10 DEF sub

\* The search depends on the model and the initial value only.
LEMMA SameSearch ==
    ASSUME NEW g, Decoded(g), NEW s, IsPartition(g, s)
    PROVE  \A len \in 0..Len(s) : Reached(WithOps(g, s), s)[len] = Reached(g, s)[len]
<1> DEFINE sub == WithOps(g, s)
           size == Len(s)
<1>1. Decoded(sub) /\ IsPartition(sub, s) /\ sub.model = g.model /\ sub.init = g.init
  BY PartAlone
<1> HIDE DEF sub
<1>2. s \in Seq(OpsOf(g)) /\ s \in Seq(OpsOf(sub)) /\ size \in Nat
  BY <1>1 DEF IsPartition
<1>3. PICK f : AreNodes(f, g, s)
  BY <1>2, ReachedUnfolds
<1>4. PICK w : AreNodes(w, sub, s)
  BY <1>1, <1>2, ReachedUnfolds
<1>5. Root(sub) = Root(g)
  BY <1>1 DEF Root, InitState
<1>6. \A node : Children(sub, s, node) = Children(g, s, node)
  BY <1>1 DEF Children, Apply
<1> DEFINE T == {k \in 0..size : f[k] = w[k]}
<1>7. 0 \in T
  <2>1. f[0] = {Root(g)} /\ w[0] = {Root(sub)}
    BY <1>3, <1>4 DEF AreNodes
  <2>2. 0 \in 0..size
    BY <1>2
  <2>3. QED
    BY <1>5, <2>1, <2>2
<1>8. ASSUME NEW k \in 1..size, k - 1 \in T
      PROVE  k \in T
  <2>1. f[k] = UNION {Children(g, s, node) : node \in f[k - 1]}
    BY <1>3 DEF AreNodes
  <2>2. w[k] = UNION {Children(sub, s, node) : node \in w[k - 1]}
    BY <1>4 DEF AreNodes
  <2>3. k \in 0..size /\ f[k - 1] = w[k - 1]
    BY <1>2, <1>8
  <2>4. QED
    BY <1>6, <2>1, <2>2, <2>3
<1>9. 0..size \subseteq T
  <2> HIDE DEF T
  <2> QED  BY <1>2, <1>7, <1>8, UpTo
<1>10. ASSUME NEW len \in 0..size
       PROVE  Reached(sub, s)[len] = Reached(g, s)[len]
  BY <1>3, <1>4, <1>9 DEF AreNodes
<1>11. QED
  BY <1>10 DEF sub

\* A prefix as long as the part takes every operation of it.
LEMMA FullPrefixTakesAll ==
    ASSUME NEW g, Decoded(g), NEW s, IsPartition(g, s),
           NEW size \in Nat, DOMAIN s = 1..size, Len(s) = size, NEW p \in Reached(g, s)[size]
    PROVE  Range(p) = DOMAIN s
<1>1. PICK f : AreNodes(f, g, s)
  BY ReachedUnfolds DEF IsPartition
<1>2. size \in 0..size
  OBVIOUS
<1>3. PICK node \in f[size] : node.prefix = p
  BY <1>1, <1>2 DEF AreNodes
<1>4. RightlyReached(g, s, size, node)
  BY <1>1, <1>2, AllAreRight
<1>5. p \in Seq(DOMAIN s) /\ Len(p) = size /\ Orders(s, p, size)
  BY <1>3, <1>4 DEF RightlyReached
<1>6. QED
  BY <1>5, FullPrefixHasAll

\* A part with an operation that is in no prefix has no linearization.
LEMMA BlockedPartIsWrong ==
    ASSUME NEW g, Decoded(g), NEW s, IsPartition(g, s), ~MayTimeOut,
           NEW t, TracesPart(g, s, t), t.blocks # <<>>
    PROVE  ~Linearizable(WithOps(g, s))
<1> DEFINE sub == WithOps(g, s)
           size == Len(s)
<1>0. s \in Seq(OpsOf(g)) /\ DOMAIN s = 1..size /\ size \in Nat
  BY DEF IsPartition
<1>1. PICK Q, best : /\ MayReport(g, s, Q) /\ best \in BestPrefixes(Operations(s, Q))
                     /\ t = PartitionTrace(g, s, Operations(s, Q), best)
  BY DEF TracesPart
<1>2. PICK block : block \in Range(t.blocks)
  <2> DEFINE blocked == BlockedOps(s, Operations(s, Q))
  <2>1. t.blocks = [k \in DOMAIN blocked |-> classifyBlock(g, blocked[k], best)]
    BY <1>1 DEF PartitionTrace
  <2> HIDE DEF blocked
  <2>2. DOMAIN blocked # {}
    BY <2>1
  <2>3. QED
    BY <2>1, <2>2 DEF Range
<1>3. PICK op : LeftOut(s, Q, op)
  BY <1>1, <1>2, BlockOf
<1>4. PICK x \in DOMAIN s : s[x] = op
  BY <1>3 DEF LeftOut, Range
<1>5. SUFFICES ASSUME NEW pos \in Bijection(OpsOf(sub), 1..Cardinality(OpsOf(sub))),
                      IsLinearization(sub, pos)
               PROVE  FALSE
  BY DEF Linearizable
<1>6. pos \in [OpsOf(sub) -> Int] /\ \A a, b \in OpsOf(sub) : pos[a] = pos[b] => a = b
  BY <1>5 DEF Bijection, Injection, IsInjective
<1>7. Reached(sub, s)[size] # {}
  <2>1. Decoded(sub) /\ IsPartition(sub, s)
    BY PartAlone
  <2> HIDE DEF sub
  <2>2. QED
    BY <1>5, <1>6, <2>1, LinearizationIsReached
<1>8. PICK p : p \in Reached(g, s)[size]
  <2>1. size \in 0..size
    BY <1>0
  <2>2. Reached(sub, s)[size] = Reached(g, s)[size]
    BY <2>1, SameSearch
  <2>3. QED
    BY <1>7, <2>2
<1>9. p \in AllReached(g, s)
  <2>1. size \in DOMAIN s
    BY <1>0
  <2>2. QED
    BY <1>8, <2>1 DEF AllReached
<1>10. x \in Range(p)
  BY <1>0, <1>8, FullPrefixTakesAll
<1>11. QED
  BY <1>1, <1>3, <1>4, <1>9, <1>10, LeftOutOfAll

-----------------------------------------------------------------------------
(* The explanations of the catalogue *)

IsRejection(e) ==
    /\ "verdict" \in DOMAIN e /\ e.verdict = "non-linearizable"
    /\ "witness" \in DOMAIN e

LEMMA ExplanationShape ==
    ASSUME NEW name, NEW trace, NEW conflict, NEW witness,
           NEW e, e = Explanation(name, trace, conflict, witness)
    PROVE  IsRejection(e)
  BY DEF Explanation, IsRejection

LEMMA MatchedShape ==
    ASSUME NEW mt \in Range(All), NEW trace, NEW e \in Match(mt, trace)
    PROVE  /\ trace.result = "Illegal"
           /\ IsRejection(e)
<1>1. trace.result = "Illegal" /\ e \in Template(mt, trace)
  BY DEF Match
<1>2. mt \in {"phantom_value", "realtime_inversion", "non_monotonic_read",
              "lost_update", "stale_read"}
  BY DEF All, Range
<1>3. CASE mt = "phantom_value"
  BY <1>1, <1>3, ExplanationShape DEF Template, PhantomValue, FirstFit
<1>4. CASE mt = "realtime_inversion"
  BY <1>1, <1>4, ExplanationShape DEF Template, RealtimeInversion, FirstFit
<1>5. CASE mt = "non_monotonic_read"
  BY <1>1, <1>5, ExplanationShape DEF Template, NonMonotonicRead
<1>6. CASE mt = "lost_update"
  BY <1>1, <1>6, ExplanationShape DEF Template, LostUpdate, FirstFit
<1>7. CASE mt = "stale_read"
  BY <1>1, <1>7, ExplanationShape DEF Template, StaleRead, FirstFit
<1>8. QED
  BY <1>1, <1>2, <1>3, <1>4, <1>5, <1>6, <1>7

LEMMA CheckResults ==
    ASSUME NEW hist, NEW trace \in Check(hist)
    PROVE  trace.result \in {"Ok", "Unknown", "Illegal"}
<1>1. CASE trace = Verdict(hist, "Ok") \/ trace = Verdict(hist, "Unknown")
  BY <1>1 DEF Verdict
<1>2. CASE \E full : trace \in Rejections(hist, full)
  BY <1>2 DEF Rejections
<1>3. QED
  BY <1>1, <1>2 DEF Check

-----------------------------------------------------------------------------
(* The conflicts that are named *)

\* Of two writes or more, the first and the last to return: the one returned before
\* the other, or another write at the same time as the first.
LEMMA FirstAndLast ==
    ASSUME NEW g, Decoded(g), NEW P \in SUBSET DOMAIN g.ops, Cardinality(P) >= 2,
           NEW a, a = Earliest(g, P), NEW b, b = Latest(g, P)
    PROVE  /\ a \in OpsOf(g) /\ b \in OpsOf(g)
           /\ \E k \in P : a = g.ops[k]
           /\ \E k \in P : b = g.ops[k]
           /\ \/ a.return < b.return
              \/ \E k \in P : g.ops[k] # a /\ g.ops[k].return = a.return
<1> DEFINE ret(k) == g.ops[k].return
           First == {k \in P : \A j \in P : ret(j) >= ret(k)}
           Final == {k \in P : \A j \in P : ret(j) <= ret(k)}
<1>1. DOMAIN g.ops = 1..Len(g.ops) /\ Len(g.ops) \in Nat
  BY DEF Decoded
<1>2. IsFiniteSet(P) /\ P \in SUBSET Nat /\ P # {}
  <2>1. IsFiniteSet(1..Len(g.ops))
    BY <1>1, FS_Interval
  <2>2. IsFiniteSet(P) /\ P \in SUBSET Nat
    BY <1>1, <2>1, FS_Subset
  <2>3. QED
    BY <2>2, FS_EmptySet
<1>3. \A k \in P : g.ops[k] \in OpsOf(g) /\ ret(k) \in Int
  BY DEF Decoded, OpsOf, Range
<1>4. First # {} /\ First \in SUBSET Nat
  <2> DEFINE v == [k \in P |-> ret(k)]
  <2>1. v \in [P -> Int] /\ \A k \in P : v[k] = ret(k)
    BY <1>3
  <2> HIDE DEF v
  <2>2. PICK x \in P : \A y \in P : v[x] <= v[y]
    BY <1>2, <2>1, LeastBy
  <2>3. QED
    BY <1>2, <1>3, <2>1, <2>2
<1>5. Final # {} /\ Final \in SUBSET Nat
  <2> DEFINE v == [k \in P |-> 0 - ret(k)]
  <2>1. v \in [P -> Int] /\ \A k \in P : v[k] = 0 - ret(k)
    BY <1>3
  <2> HIDE DEF v
  <2>2. PICK x \in P : \A y \in P : v[x] <= v[y]
    BY <1>2, <2>1, LeastBy
  <2>3. \A y \in P : ret(y) <= ret(x)
    BY <1>3, <2>1, <2>2
  <2>4. QED
    BY <1>2, <2>3
<1>6. Min(First) \in First /\ Min(Final) \in Final
  <2> HIDE DEF First, Final
  <2> QED  BY <1>4, <1>5, LeastOf
<1>7. a = g.ops[Min(First)] /\ b = g.ops[Min(Final)]
  BY DEF Earliest, Latest
<1>8. PICK c \in P : c = Min(First) /\ \A j \in P : ret(j) >= ret(c)
  BY <1>6
<1>9. PICK d \in P : d = Min(Final) /\ \A j \in P : ret(j) <= ret(d)
  BY <1>6
<1>10. PICK k \in P : k # c
  <2>1. ASSUME P = {c}
        PROVE  FALSE
    <3>1. Cardinality(P) = 1
      BY <2>1, FS_Singleton
    <3>2. QED
      BY <3>1
  <2>2. QED
    BY <2>1
<1> HIDE DEF First, Final
<1>11. a = g.ops[c] /\ b = g.ops[d]
  BY <1>7, <1>8, <1>9
<1>12. g.ops[k] # g.ops[c]
  BY <1>10 DEF Decoded, Valid
<1>13. a.return < b.return \/ g.ops[k].return = a.return
  BY <1>3, <1>8, <1>9, <1>11
<1>14. QED
  BY <1>3, <1>11, <1>12, <1>13

\* The history of a trace, and its operations.
LEMMA OpsOfTrace ==
    ASSUME NEW g, Decoded(g), NEW trace \in Check(g)
    PROVE  /\ trace.history = g
           /\ DOMAIN g.ops \in SUBSET Nat /\ IsFiniteSet(DOMAIN g.ops)
           /\ \A k \in DOMAIN g.ops : g.ops[k] \in OpsOf(g)
<1>1. trace.history = g
  BY TraceShape
<1>2. DOMAIN g.ops = 1..Len(g.ops) /\ Len(g.ops) \in Nat
  BY DEF Decoded
<1>3. IsFiniteSet(1..Len(g.ops))
  BY <1>2, FS_Interval
<1>4. QED
  BY <1>1, <1>2, <1>3 DEF OpsOf, Range

\* A block names an operation of the history.
LEMMA BlockedOpIsOp ==
    ASSUME NEW g, Decoded(g), NEW trace \in Check(g), NEW flag,
           NEW x \in BlockedReads(trace, flag)
    PROVE  BlockedOp(trace, x) \in OpsOf(g)
<1>1. PICK p \in DOMAIN trace.partitions : \E j \in DOMAIN trace.partitions[p].blocks : x = <<p, j>>
  BY DEF BlockedReads
<1>2. trace.history = g /\ p \in DOMAIN Partition(g)
      /\ TracesPart(g, Partition(g)[p], trace.partitions[p])
  BY TraceShape
<1> DEFINE s == Partition(g)[p]
           b == Block(trace, x)
<1>3. b \in Range(trace.partitions[p].blocks)
  BY <1>1 DEF Block, Range
<1>4. IsPartition(g, s)
  BY <1>2, PartsArePartitions
<1>5. PICK Q, best : /\ MayReport(g, s, Q) /\ best \in BestPrefixes(Operations(s, Q))
                     /\ trace.partitions[p] = PartitionTrace(g, s, Operations(s, Q), best)
  BY <1>2 DEF TracesPart
<1>6. PICK op : LeftOut(s, Q, op) /\ b = classifyBlock(g, op, best)
  <2> HIDE DEF b, s
  <2> QED  BY <1>3, <1>4, <1>5, BlockOf, SMTT(30)
<1>7. op \in OpsOf(g)
  BY <1>4, <1>6 DEF LeftOut, IsPartition, Range
<1>8. b.opID = op.id
  <2> HIDE DEF b, s
  <2> QED  BY <1>6 DEF classifyBlock, Reason
<1>9. findOp(g, op.id) = op
  BY <1>7, IdsTellApart
<1>10. BlockedOp(trace, x) = op
  BY <1>2, <1>8, <1>9 DEF BlockedOp
<1>11. QED
  BY <1>7, <1>10

\* An explanation as a matcher gives it: the operations in conflict are of the history.
Explains(g, mt, trace, e) ==
    \E conflict, witness :
        /\ e = Explanation(mt, trace, conflict, witness)
        /\ Range(conflict) \subseteq OpsOf(g)

LEMMA FirstFitExplains ==
    ASSUME NEW g, Decoded(g), NEW trace \in Check(g), NEW mt \in Range(All),
           mt # "non_monotonic_read", NEW e \in Template(mt, trace)
    PROVE  Explains(g, mt, trace, e)
<1>0. /\ trace.history = g /\ DOMAIN g.ops \in SUBSET Nat
      /\ \A k \in DOMAIN g.ops : g.ops[k] \in OpsOf(g)
  BY OpsOfTrace
<1>1. mt \in {"phantom_value", "realtime_inversion", "lost_update", "stale_read"}
  BY DEF All, Range
<1>2. CASE mt = "phantom_value"
  <2>1. PICK x \in BlockedReads(trace, FALSE) :
            e = Explanation(mt, trace, <<BlockedOp(trace, x)>>, <<BlockedOp(trace, x)>>)
    BY <1>2 DEF Template, PhantomValue, FirstFit, MetFirst
  <2>2. BlockedOp(trace, x) \in OpsOf(g)
    BY BlockedOpIsOp
  <2>3. Range(<<BlockedOp(trace, x)>>) \subseteq OpsOf(g)
    BY <2>2 DEF Range
  <2>4. QED
    BY <2>1, <2>3 DEF Explains
<1>3. CASE mt = "realtime_inversion"
  <2> DEFINE Future(read) == {k \in WritesOfValue(g, read.value) : Precedes(read, g.ops[k])}
             Both(read) == <<read, g.ops[Min(Future(read))]>>
  <2>1. PICK x \in BlockedReads(trace, FALSE) :
            /\ Future(BlockedOp(trace, x)) # {}
            /\ e = Explanation(mt, trace, Both(BlockedOp(trace, x)), Both(BlockedOp(trace, x)))
    BY <1>0, <1>3 DEF Template, RealtimeInversion, FirstFit, MetFirst
  <2>2. PICK read : read = BlockedOp(trace, x)
    OBVIOUS
  <2>3. read \in OpsOf(g)
    BY <2>2, BlockedOpIsOp
  <2>4. Future(read) \in SUBSET DOMAIN g.ops
    BY DEF WritesOfValue
  <2>5. Min(Future(read)) \in DOMAIN g.ops
    <3>1. Future(read) # {} /\ Future(read) \in SUBSET Nat
      BY <1>0, <2>1, <2>2, <2>4
    <3> HIDE DEF Future
    <3>2. QED
      BY <2>4, <3>1, LeastOf
  <2>6. Range(Both(read)) \subseteq OpsOf(g)
    <3> HIDE DEF Future
    <3> QED  BY <1>0, <2>3, <2>5 DEF Range
  <2>7. QED
    <3> HIDE DEF Both, Future
    <3> QED  BY <2>1, <2>2, <2>6 DEF Explains
<1>4. CASE mt = "lost_update"
  <2> DEFINE Preceding(read) == PrecedingWrites(g, read)
             Three(read) == <<Earliest(g, Preceding(read)), Latest(g, Preceding(read)), read>>
  <2>1. PICK x \in BlockedReads(trace, TRUE) :
            /\ Cardinality(Preceding(BlockedOp(trace, x))) >= 2
            /\ e = Explanation(mt, trace, Three(BlockedOp(trace, x)), Three(BlockedOp(trace, x)))
    BY <1>0, <1>4 DEF Template, LostUpdate, FirstFit, MetFirst
  <2>2. PICK read : read = BlockedOp(trace, x)
    OBVIOUS
  <2>3. read \in OpsOf(g)
    BY <2>2, BlockedOpIsOp
  <2>4. Earliest(g, Preceding(read)) \in OpsOf(g) /\ Latest(g, Preceding(read)) \in OpsOf(g)
    <3>1. Preceding(read) \in SUBSET DOMAIN g.ops
      BY DEF PrecedingWrites
    <3>2. Cardinality(Preceding(read)) >= 2
      BY <2>1, <2>2
    <3> HIDE DEF Preceding
    <3>3. QED
      BY <3>1, <3>2, FirstAndLast
  <2>5. Range(Three(read)) \subseteq OpsOf(g)
    <3> HIDE DEF Preceding
    <3> QED  BY <2>3, <2>4 DEF Range
  <2>6. QED
    <3> HIDE DEF Three, Preceding
    <3> QED  BY <2>1, <2>2, <2>5 DEF Explains
<1>5. CASE mt = "stale_read"
  <2> DEFINE Newer(read) == {k \in PrecedingWrites(g, read) : g.ops[k].value # read.value}
             Both(read) == <<g.ops[Min(Newer(read))], read>>
  <2>1. PICK x \in BlockedReads(trace, TRUE) :
            /\ Newer(BlockedOp(trace, x)) # {}
            /\ e = Explanation(mt, trace, Both(BlockedOp(trace, x)), Both(BlockedOp(trace, x)))
    BY <1>0, <1>5 DEF Template, StaleRead, FirstFit, MetFirst
  <2>2. PICK read : read = BlockedOp(trace, x)
    OBVIOUS
  <2>3. read \in OpsOf(g)
    BY <2>2, BlockedOpIsOp
  <2>4. Newer(read) \in SUBSET DOMAIN g.ops
    BY DEF PrecedingWrites
  <2>5. Min(Newer(read)) \in DOMAIN g.ops
    <3>1. Newer(read) # {} /\ Newer(read) \in SUBSET Nat
      BY <1>0, <2>1, <2>2, <2>4
    <3> HIDE DEF Newer
    <3>2. QED
      BY <2>4, <3>1, LeastOf
  <2>6. Range(Both(read)) \subseteq OpsOf(g)
    <3> HIDE DEF Newer
    <3> QED  BY <1>0, <2>3, <2>5 DEF Range
  <2>7. QED
    <3> HIDE DEF Both, Newer
    <3> QED  BY <2>1, <2>2, <2>6 DEF Explains
<1>6. QED
  BY <1>1, <1>2, <1>3, <1>4, <1>5

LEMMA NonMonotonicExplains ==
    ASSUME NEW g, Decoded(g), NEW trace \in Check(g),
           NEW e \in Template("non_monotonic_read", trace)
    PROVE  Explains(g, "non_monotonic_read", trace, e)
<1>0. /\ trace.history = g
      /\ \A k \in DOMAIN g.ops : g.ops[k] \in OpsOf(g)
  BY OpsOfTrace
<1>1. PICK x \in (DOMAIN g.ops) \X (DOMAIN g.ops) :
          e = Explanation("non_monotonic_read", trace, <<g.ops[x[1]], g.ops[x[2]]>>,
                          MonotonicWitness(g, g.ops[x[1]], g.ops[x[2]]))
  BY <1>0 DEF Template, NonMonotonicRead, MetFirst
<1>2. Range(<<g.ops[x[1]], g.ops[x[2]]>>) \subseteq OpsOf(g)
  BY <1>0 DEF Range
<1>3. QED
  BY <1>1, <1>2 DEF Explains

\* Whatever matcher fits: the operations in conflict are of the history.
LEMMA MatcherExplains ==
    ASSUME NEW g, Decoded(g), NEW trace \in Check(g), NEW mt \in Range(All),
           NEW e \in Match(mt, trace)
    PROVE  Explains(g, mt, trace, e)
  BY FirstFitExplains, NonMonotonicExplains DEF Match

\* A lost update: two writes, the first of which returned before the second, or two
\* that returned together.
LEMMA LostUpdateExplains ==
    ASSUME NEW g, Decoded(g), NEW trace \in Check(g), NEW e \in Match("lost_update", trace)
    PROVE  \E a, b \in OpsOf(g) :
               /\ e.conflict[1] = a.id /\ e.conflict[2] = b.id
               /\ \/ a.return < b.return
                  \/ \E w \in OpsOf(g) \ {a} : IsWrite(w) /\ w.return = a.return
<1>0. /\ trace.history = g
      /\ \A k \in DOMAIN g.ops : g.ops[k] \in OpsOf(g)
  BY OpsOfTrace
<1> DEFINE Preceding(read) == PrecedingWrites(g, read)
           Three(read) == <<Earliest(g, Preceding(read)), Latest(g, Preceding(read)), read>>
<1>1. PICK x \in BlockedReads(trace, TRUE) :
          /\ Cardinality(Preceding(BlockedOp(trace, x))) >= 2
          /\ e = Explanation("lost_update", trace, Three(BlockedOp(trace, x)), Three(BlockedOp(trace, x)))
  BY <1>0 DEF Match, Template, LostUpdate, FirstFit, MetFirst
<1>2. PICK read : read = BlockedOp(trace, x)
  OBVIOUS
<1> DEFINE P == PrecedingWrites(g, read)
           a == Earliest(g, P)
           b == Latest(g, P)
<1>3. Cardinality(P) >= 2 /\ e = Explanation("lost_update", trace, <<a, b, read>>, <<a, b, read>>)
  BY <1>1, <1>2
<1>4. P \in SUBSET DOMAIN g.ops /\ \A k \in P : IsWrite(g.ops[k])
  BY DEF PrecedingWrites
<1> HIDE DEF P
<1>5. /\ a \in OpsOf(g) /\ b \in OpsOf(g)
      /\ \/ a.return < b.return
         \/ \E k \in P : g.ops[k] # a /\ g.ops[k].return = a.return
  BY <1>3, <1>4, FirstAndLast
<1> HIDE DEF a, b
<1>6. e.conflict[1] = a.id /\ e.conflict[2] = b.id
  BY <1>3 DEF Explanation
<1>7. QED
  BY <1>0, <1>4, <1>5, <1>6

-----------------------------------------------------------------------------
(* The inductive invariant *)

LEMMA MinimizeStepKeepsInv ==
    ASSUME DD!SearchInv, MinimizeStep
    PROVE  DD!SearchInv'
<1>1. Minimize!Step /\ h' = h /\ matcher' = matcher
  BY DEF MinimizeStep, matcher
<1>2. DD!Step
  BY <1>1 DEF Minimize!Step, Minimize!GiveUp, Minimize!Start, Minimize!Enter, Minimize!KeepChunk,
     Minimize!PassChunk, Minimize!ChunksTried, Minimize!DropChunk, Minimize!PassComplement,
     Minimize!Refine, Minimize!Finish, Minimize!Recurse, Minimize!NumChunks, Minimize!Least,
     Minimize!Cut, Minimize!Chunk, Minimize!Complement, Minimize!Candidate, Minimize!MayHold,
     Minimize!MayFail, Minimize!wrap, Minimize!Excise,
     DD!Step, DD!GiveUp, DD!Start, DD!Enter, DD!KeepChunk,
     DD!PassChunk, DD!ChunksTried, DD!DropChunk, DD!PassComplement,
     DD!Refine, DD!Finish, DD!Recurse, DD!NumChunks, DD!Least,
     DD!Cut, DD!Chunk, DD!Complement, DD!Candidate, DD!MayHold,
     DD!MayFail, DD!wrap, DD!Excise
<1>3. DD!Next
  BY <1>1, <1>2 DEF DD!Next, DD!args
<1>4. QED
  BY <1>3, DD!NextSearchInv

LEMMA InitExplainInv == Init => ExplainInv
<1> SUFFICES ASSUME Init
             PROVE  ExplainInv
  OBVIOUS
<1>1. PICK F \in Families : h \in F
  BY DEF Init
<1>2. h \in [model : STRING, init : Int, ops : Seq(OpsOf(h))]
  BY <1>1, FamiliesAssumption
<1>3. matchers \in Seq(Range(All)) /\ m = 1 /\ pc = "select"
  BY MatchersAssumption DEF Init
<1>4. ops = h.ops /\ n = 2 /\ phase = "start" /\ i = 1
  BY DEF Init, Minimize!Begin
<1>5. ops \in Seq(Operation)
  <2>1. OpsOf(h) \subseteq Operation
    BY <1>1 DEF Operation
  <2>2. QED
    BY <1>2, <1>4, <2>1
<1>6. DD!TypeOK
  BY <1>4, <1>5 DEF DD!TypeOK, DD!Phases
<1>7. DD!IsSubsequence(ops, h.ops)
  BY <1>4, <1>5, DD!SubsequenceReflexive
<1>8. DD!SearchInv
  BY <1>4, <1>6, <1>7 DEF DD!SearchInv, DD!StillFails, DD!OneMinimalResult
<1>9. QED
  BY <1>1, <1>3, <1>4, <1>8 DEF ExplainInv

\* A step that leaves the minimizer and its arguments alone.
LEMMA StutterKeepsInv ==
    ASSUME DD!SearchInv, UNCHANGED <<h, matchers, ddmin>>, m' = m
    PROVE  DD!SearchInv'
<1>1. UNCHANGED DD!vars
  BY DEF DD!vars, ddmin, matcher
<1>2. QED
  BY <1>1, DD!NextSearchInv

\* Another matcher is tried before the minimizer has asked anything.
LEMMA NewMatcherKeepsInv ==
    ASSUME DD!SearchInv, phase = "start", UNCHANGED <<h, ddmin>>
    PROVE  DD!SearchInv'
<1>1. DD!TypeOK /\ ops = h.ops /\ DD!IsSubsequence(ops, h.ops)
  BY DEF DD!SearchInv, DD!StillFails
<1>2. DD!TypeOK' /\ DD!IsSubsequence(ops, h.ops)'
  BY <1>1 DEF DD!TypeOK, DD!Phases, DD!IsSubsequence, DD!Embeds, ddmin
<1>3. QED
  BY <1>1, <1>2 DEF DD!SearchInv, DD!StillFails, DD!OneMinimalResult, ddmin

LEMMA SameSubsequence ==
    \A s, t : DD!IsSubsequence(s, t) => IsSubsequence(s, t)
  BY DEF DD!IsSubsequence, DD!Embeds, IsSubsequence, Embeds

\* The history is a record, whose operations are known.
LEMMA HistoryShape ==
    ASSUME \E F \in Families : h \in F
    PROVE  /\ h \in [model : STRING, init : Int, ops : Seq(OpsOf(h))]
           /\ h.ops \in Seq(Operation)
<1>1. PICK F \in Families : h \in F
  OBVIOUS
<1>2. h \in [model : STRING, init : Int, ops : Seq(OpsOf(h))]
  BY <1>1, FamiliesAssumption
<1>3. OpsOf(h) \subseteq Operation
  BY <1>1 DEF Operation
<1>4. QED
  BY <1>2, <1>3

\* What the minimizer keeps is part of the history, and so is the history itself.
LEMMA PartsOfHistory ==
    ASSUME ExplainInv
    PROVE  IsPartOf(ops, h) /\ IsPartOf(h.ops, h) /\ h = WithOps(h, h.ops)
<1>1. h \in [model : STRING, init : Int, ops : Seq(OpsOf(h))] /\ h.ops \in Seq(Operation)
  BY HistoryShape DEF ExplainInv
<1>2. IsPartOf(ops, h)
  BY SameSubsequence DEF ExplainInv, DD!SearchInv, DD!StillFails, DD!TypeOK, IsPartOf
<1>3. IsPartOf(h.ops, h)
  <2>1. DD!IsSubsequence(h.ops, h.ops)
    BY <1>1, DD!SubsequenceReflexive
  <2>2. QED
    BY <1>1, <2>1, SameSubsequence DEF IsPartOf
<1>4. h = WithOps(h, h.ops)
  BY <1>1 DEF WithOps
<1>5. QED
  BY <1>2, <1>3, <1>4

LEMMA NextExplainInv == ExplainInv /\ [Next]_vars => ExplainInv'
<1> SUFFICES ASSUME ExplainInv, [Next]_vars
             PROVE  ExplainInv'
  OBVIOUS
<1>0. /\ \E F \in Families : h \in F
      /\ matchers \in Seq(Range(All)) /\ m \in Nat \ {0} /\ DD!SearchInv
  BY DEF ExplainInv
<1>1. CASE UNCHANGED vars
  <2>1. DD!SearchInv'
    BY <1>0, <1>1, StutterKeepsInv DEF vars
  <2>2. AnswerWasChecked' = AnswerWasChecked
    BY <1>1 DEF vars, AnswerWasChecked, MayBe, IsPartOf
  <2>3. QED
    BY <1>0, <1>1, <2>1, <2>2 DEF vars, ddmin, ExplainInv
<1>2. CASE Unselectable
  <2>1. DD!SearchInv'
    BY <1>0, <1>2, StutterKeepsInv DEF Unselectable
  <2>2. QED
    BY <1>0, <1>2, <2>1 DEF Unselectable, ExplainInv
<1>3. CASE CheckHistory
  <2>1. DD!SearchInv'
    BY <1>0, <1>3, StutterKeepsInv DEF CheckHistory
  <2>2. PICK trace \in Check(h) :
            /\ rt' = trace
            /\ CASE trace.result = "Ok" ->
                        pc' = "returned" /\ expl' = Raw("linearizable", NoExplanation.witness)
                 [] trace.result = "Unknown" ->
                        pc' = "returned" /\ expl' = Raw("unknown", NoExplanation.witness)
                 [] trace.result = "Illegal" ->
                        pc' = "match" /\ UNCHANGED expl
    BY <1>3 DEF CheckHistory
  <2>3. trace.result \in {"Ok", "Unknown", "Illegal"}
    BY CheckResults
  <2>4. CASE trace.result = "Illegal"
    BY <1>0, <1>3, <2>1, <2>2, <2>4 DEF CheckHistory, ddmin, ExplainInv
  <2>5. CASE trace.result = "Ok"
    <3>1. pc' = "returned" /\ expl'.verdict = "linearizable" /\ h' = h
      BY <1>3, <2>2, <2>5 DEF CheckHistory, Raw, NoExplanation
    <3>2. AnswerWasChecked'
      BY <2>5, <3>1 DEF AnswerWasChecked, MayBe
    <3>3. QED
      BY <1>0, <1>3, <2>1, <3>1, <3>2 DEF CheckHistory, ExplainInv
  <2>6. CASE trace.result = "Unknown"
    <3>1. pc' = "returned" /\ expl'.verdict = "unknown"
      BY <1>3, <2>2, <2>6 DEF CheckHistory, Raw, NoExplanation
    <3>2. AnswerWasChecked'
      BY <3>1 DEF AnswerWasChecked
    <3>3. QED
      BY <1>0, <1>3, <2>1, <3>1, <3>2 DEF CheckHistory, ExplainInv
  <2>7. QED
    BY <2>3, <2>4, <2>5, <2>6
<1>4. CASE NextMatcher
  <2>1. DD!SearchInv'
    BY <1>0, <1>4, NewMatcherKeepsInv DEF NextMatcher, ExplainInv
  <2>2. QED
    BY <1>0, <1>4, <2>1 DEF NextMatcher, ddmin, ExplainInv
<1>5. CASE FirstFitWins
  <2>1. DD!SearchInv'
    BY <1>0, <1>5, StutterKeepsInv DEF FirstFitWins
  <2>2. QED
    BY <1>0, <1>5, <2>1 DEF FirstFitWins, ExplainInv
<1>6. CASE NoPatternFits
  <2>1. DD!SearchInv'
    BY <1>0, <1>6, StutterKeepsInv DEF NoPatternFits
  <2>2. /\ pc' = "returned" /\ h' = h
        /\ expl'.verdict = "non-linearizable" /\ expl'.witness = h
    BY <1>6 DEF NoPatternFits, Raw, NoExplanation
  <2>3. MayBe(h, "Illegal")
    BY <1>6 DEF NoPatternFits, ExplainInv, MayBe
  <2>4. AnswerWasChecked'
    BY <2>2, <2>3, PartsOfHistory DEF AnswerWasChecked, MayBe, IsPartOf
  <2>5. QED
    BY <1>0, <1>6, <2>1, <2>2, <2>4 DEF NoPatternFits, ExplainInv
<1>7. CASE MinimizeStep
  <2>1. DD!SearchInv'
    BY <1>0, <1>7, MinimizeStepKeepsInv
  <2>2. QED
    BY <1>0, <1>7, <2>1 DEF MinimizeStep, ExplainInv
<1>8. CASE Minimized
  <2>1. DD!SearchInv'
    BY <1>0, <1>8, StutterKeepsInv DEF Minimized
  <2>2. QED
    BY <1>0, <1>8, <2>1 DEF Minimized, ExplainInv
<1>9. CASE Recheck
  <2>1. DD!SearchInv'
    BY <1>0, <1>9, StutterKeepsInv DEF Recheck
  <2>2. matcher \in Range(All) /\ rt \in Check(h) /\ rt.result = "Illegal"
    BY <1>0, <1>9 DEF Recheck, ExplainInv, matcher
  <2>3. PICK e, trace :
            /\ e \in Match(matcher, trace)
            /\ \/ /\ trace \in Check(WithOps(h, ops))
                  /\ expl' = [e EXCEPT !.witness = WithOps(h, ops)]
               \/ trace = rt /\ expl' = [e EXCEPT !.witness = h]
    BY <1>9 DEF Recheck
  <2>4. trace.result = "Illegal" /\ IsRejection(e)
    BY <2>2, <2>3, MatchedShape
  <2>5. expl'.verdict = "non-linearizable"
    BY <2>3, <2>4 DEF IsRejection
  <2>6. \/ expl'.witness = WithOps(h, ops) /\ MayBe(WithOps(h, ops), "Illegal")
        \/ expl'.witness = h
    BY <2>3, <2>4 DEF MayBe, IsRejection
  <2>7. MayBe(h, "Illegal")
    BY <2>2 DEF MayBe
  <2>8. AnswerWasChecked'
    <3>1. h' = h
      BY <1>9 DEF Recheck
    <3>2. QED
      BY <2>5, <2>6, <2>7, <3>1, PartsOfHistory DEF AnswerWasChecked, MayBe, IsPartOf
  <2>9. QED
    BY <1>0, <1>9, <2>1, <2>8 DEF Recheck, ExplainInv
<1>10. QED
  BY <1>1, <1>2, <1>3, <1>4, <1>5, <1>6, <1>7, <1>8, <1>9 DEF Next

-----------------------------------------------------------------------------
(* The types *)

\* The inductive invariant of the types.
TypeInv ==
    /\ pc \in Stages
    /\ m \in 1..Len(matchers) + 1
    /\ rt = NoTrace \/ (h.model \in KnownModels /\ rt \in Check(h))
    /\ pc # "returned" => expl = NoExplanation
    /\ pc = "returned" => expl.verdict \in {"linearizable", "non-linearizable", "unknown"}

LEMMA ReasonsAreConstraints ==
    ASSUME NEW hist, NEW op, NEW prefix
    PROVE  classifyBlock(hist, op, prefix).constraint \in Constraints
  BY DEF classifyBlock, Reason, Constraints

LEMMA ConstraintsOfTrace ==
    ASSUME NEW g, Decoded(g), NEW trace \in Check(g)
    PROVE  \A t \in Range(trace.partitions) : \A b \in Range(t.blocks) : b.constraint \in Constraints
<1>1. SUFFICES ASSUME NEW k \in DOMAIN trace.partitions, NEW b \in Range(trace.partitions[k].blocks)
               PROVE  b.constraint \in Constraints
  BY DEF Range
<1> DEFINE s == Partition(g)[k]
<1>2. IsPartition(g, s) /\ TracesPart(g, s, trace.partitions[k])
  BY TraceShape, PartsArePartitions
<1> HIDE DEF s
<1>3. PICK Q, best : /\ MayReport(g, s, Q) /\ best \in BestPrefixes(Operations(s, Q))
                     /\ trace.partitions[k] = PartitionTrace(g, s, Operations(s, Q), best)
  BY <1>2 DEF TracesPart
<1>4. PICK op : b = classifyBlock(g, op, best)
  BY <1>2, <1>3, BlockOf, SMTT(30)
<1>5. QED
  BY <1>4, ReasonsAreConstraints

\* The trace that is kept is one of a history that could be checked.
LEMMA DecodedWhenTraced ==
    ASSUME TypeInv, ExplainInv
    PROVE  rt = NoTrace \/ (Decoded(h) /\ rt \in Check(h))
<1>1. CASE h.model \in KnownModels
  <2>1. IsPartOf(h.ops, h) /\ h = WithOps(h, h.ops)
    BY PartsOfHistory
  <2>2. Decoded(h)
    BY <1>1, <2>1, PartIsDecoded DEF ExplainInv
  <2>3. QED
    BY <2>2 DEF TypeInv
<1>2. QED
  BY <1>1 DEF TypeInv

LEMMA InitTypeInv == Init => TypeInv
<1> SUFFICES ASSUME Init
             PROVE  TypeInv
  OBVIOUS
<1>1. matchers \in Seq(Range(All)) /\ m = 1 /\ pc = "select" /\ rt = NoTrace /\ expl = NoExplanation
  BY MatchersAssumption DEF Init
<1>2. m \in 1..Len(matchers) + 1
  BY <1>1
<1>3. QED
  BY <1>1, <1>2 DEF TypeInv, Stages

LEMMA NextTypeInv == TypeInv /\ ExplainInv /\ [Next]_vars => TypeInv'
<1> SUFFICES ASSUME TypeInv, ExplainInv, [Next]_vars
             PROVE  TypeInv'
  OBVIOUS
<1> USE DEF TypeInv, Stages
<1>1. CASE UNCHANGED vars
  BY <1>1 DEF vars
<1>2. CASE Unselectable
  BY <1>2 DEF Unselectable
<1>3. CASE CheckHistory
  <2>1. PICK trace \in Check(h) :
            /\ rt' = trace
            /\ CASE trace.result = "Ok" ->
                        pc' = "returned" /\ expl' = Raw("linearizable", NoExplanation.witness)
                 [] trace.result = "Unknown" ->
                        pc' = "returned" /\ expl' = Raw("unknown", NoExplanation.witness)
                 [] trace.result = "Illegal" ->
                        pc' = "match" /\ UNCHANGED expl
    BY <1>3 DEF CheckHistory
  <2>2. trace.result \in {"Ok", "Unknown", "Illegal"}
    BY CheckResults
  <2>3. \/ pc' = "match" /\ expl' = expl
        \/ pc' = "returned" /\ expl'.verdict \in {"linearizable", "unknown"}
    BY <2>1, <2>2 DEF Raw, NoExplanation
  <2>4. QED
    BY <1>3, <2>1, <2>3 DEF CheckHistory
<1>4. CASE NextMatcher
  <2>1. m' \in 1..Len(matchers') + 1
    BY <1>4 DEF NextMatcher, ExplainInv
  <2>2. QED
    BY <1>4, <2>1 DEF NextMatcher
<1>5. CASE FirstFitWins
  BY <1>5 DEF FirstFitWins
<1>6. CASE NoPatternFits
  <2>1. expl'.verdict = "non-linearizable"
    BY <1>6 DEF NoPatternFits, Raw, NoExplanation
  <2>2. QED
    BY <1>6, <2>1 DEF NoPatternFits
<1>7. CASE MinimizeStep
  BY <1>7 DEF MinimizeStep
<1>8. CASE Minimized
  BY <1>8 DEF Minimized
<1>9. CASE Recheck
  <2>1. matcher \in Range(All)
    BY <1>9 DEF Recheck, ExplainInv, matcher
  <2>2. PICK e, trace, w : e \in Match(matcher, trace) /\ expl' = [e EXCEPT !.witness = w]
    BY <1>9 DEF Recheck
  <2>3. IsRejection(e)
    BY <2>1, <2>2, MatchedShape
  <2>4. expl'.verdict = "non-linearizable"
    BY <2>2, <2>3 DEF IsRejection
  <2>5. QED
    BY <1>9, <2>4 DEF Recheck
<1>10. QED
  BY <1>1, <1>2, <1>3, <1>4, <1>5, <1>6, <1>7, <1>8, <1>9 DEF Next

-----------------------------------------------------------------------------
(* A named explanation *)

\* A matcher gave the explanation of the operations s, which are printed with it.
GivenOf(s) ==
    \E trace \in Check(WithOps(h, s)) : \E e \in Match(matcher, trace) :
        expl = [e EXCEPT !.witness = WithOps(h, s)]

\* The inductive invariant of the name: a matcher gave it of what the minimizer left
\* or, if the predicate may refuse that, of the whole history.
NamedInv ==
    /\ pc = "recheck" => phase = "done"
    /\ Named =>
        /\ phase = "done" /\ m <= Len(matchers)
        /\ \/ GivenOf(ops)
           \/ GivenOf(h.ops) /\ FALSE \in PatternAnswers(matcher, WithOps(h, ops))

LEMMA InitNamedInv == Init => NamedInv
  BY DEF Init, NamedInv, Named, Rejected

LEMMA NextNamedInv == NamedInv /\ ExplainInv /\ [Next]_vars => NamedInv'
<1> SUFFICES ASSUME NamedInv, ExplainInv, [Next]_vars
             PROVE  NamedInv'
  OBVIOUS
<1>1. CASE UNCHANGED vars
  BY <1>1 DEF vars, ddmin, NamedInv, Named, Rejected, GivenOf, matcher
<1>2. CASE \/ Unselectable \/ NextMatcher \/ FirstFitWins \/ MinimizeStep
  <2>1. pc' \notin {"recheck", "returned"}
    BY <1>2 DEF Unselectable, NextMatcher, FirstFitWins, MinimizeStep
  <2>2. QED
    BY <2>1 DEF NamedInv, Named, Rejected
<1>3. CASE CheckHistory
  <2>1. PICK trace \in Check(h) :
            CASE trace.result = "Ok" ->
                        pc' = "returned" /\ expl' = Raw("linearizable", NoExplanation.witness)
              [] trace.result = "Unknown" ->
                        pc' = "returned" /\ expl' = Raw("unknown", NoExplanation.witness)
              [] trace.result = "Illegal" ->
                        pc' = "match" /\ UNCHANGED expl
    BY <1>3 DEF CheckHistory
  <2>2. trace.result \in {"Ok", "Unknown", "Illegal"}
    BY CheckResults
  <2>3. \/ pc' = "match"
        \/ pc' = "returned" /\ expl'.verdict \in {"linearizable", "unknown"}
    BY <2>1, <2>2 DEF Raw, NoExplanation
  <2>4. QED
    BY <2>3 DEF NamedInv, Named, Rejected
<1>4. CASE NoPatternFits
  <2>1. pc' = "returned" /\ expl'.pattern = ""
    BY <1>4 DEF NoPatternFits, Raw, NoExplanation
  <2>2. QED
    BY <2>1 DEF NamedInv, Named
<1>5. CASE Minimized
  <2>1. pc' = "recheck" /\ phase' = "done"
    BY <1>5 DEF Minimized, ddmin
  <2>2. QED
    BY <2>1 DEF NamedInv, Named, Rejected
<1>6. CASE Recheck
  <2>1. /\ UNCHANGED <<h, matchers, m, ops, phase>> /\ pc' = "returned"
        /\ phase = "done" /\ m <= Len(matchers)
        /\ rt \in Check(h) /\ h.model \in KnownModels
    BY <1>6 DEF Recheck, ddmin, NamedInv, ExplainInv
  <2>2. h = WithOps(h, h.ops) /\ WithOps(h, ops).model = h.model
    <3>1. h \in [model : STRING, init : Int, ops : Seq(OpsOf(h))]
      BY HistoryShape DEF ExplainInv
    <3>2. QED
      BY <3>1 DEF WithOps
  <2>3. PICK wrt \in Check(WithOps(h, ops)) :
            \/ /\ Match(matcher, wrt) # {}
               /\ \E e \in Match(matcher, wrt) :
                    expl' = [e EXCEPT !.witness = WithOps(h, ops)]
            \/ /\ Match(matcher, wrt) = {}
               /\ \E e \in Match(matcher, rt) : expl' = [e EXCEPT !.witness = h]
    BY <1>6 DEF Recheck
  <2>4. matcher' = matcher
    BY <2>1 DEF matcher
  <2>5. CASE \E e \in Match(matcher, wrt) : expl' = [e EXCEPT !.witness = WithOps(h, ops)]
    <3>1. GivenOf(ops)'
      BY <2>1, <2>4, <2>5 DEF GivenOf
    <3>2. QED
      BY <2>1, <3>1 DEF NamedInv
  <2>6. CASE /\ Match(matcher, wrt) = {}
             /\ \E e \in Match(matcher, rt) : expl' = [e EXCEPT !.witness = h]
    <3>1. FALSE \in PatternAnswers(matcher, WithOps(h, ops))
      BY <2>1, <2>2, <2>6 DEF PatternAnswers
    <3>2. GivenOf(h.ops)'
      <4>1. rt \in Check(WithOps(h, h.ops))
        BY <2>1, <2>2
      <4>2. \E e \in Match(matcher, rt) : expl' = [e EXCEPT !.witness = WithOps(h, h.ops)]
        BY <2>2, <2>6
      <4>3. QED
        BY <2>1, <2>4, <4>1, <4>2 DEF GivenOf
    <3>3. QED
      BY <2>1, <2>4, <3>1, <3>2 DEF NamedInv
  <2>7. QED
    BY <2>3, <2>5, <2>6
<1>7. QED
  BY <1>1, <1>2, <1>3, <1>4, <1>5, <1>6 DEF Next

\* The operations that a named explanation was given of.
LEMMA NamedIsGiven ==
    ASSUME ExplainInv, NamedInv, Named
    PROVE  \E s, trace, e :
               /\ Decoded(WithOps(h, s)) /\ Decoded(h)
               /\ OpsOf(WithOps(h, s)) \subseteq OpsOf(h)
               /\ trace \in Check(WithOps(h, s)) /\ trace.history = WithOps(h, s)
               /\ matcher \in Range(All) /\ e \in Match(matcher, trace)
               /\ expl = [e EXCEPT !.witness = WithOps(h, s)]
<1>1. PICK s : (s = ops \/ s = h.ops) /\ GivenOf(s)
  BY DEF NamedInv
<1>2. IsPartOf(s, h) /\ IsPartOf(h.ops, h) /\ h = WithOps(h, h.ops)
  BY <1>1, PartsOfHistory
<1>3. h.model \in KnownModels /\ \E F \in Families : h \in F
  BY DEF ExplainInv, Named, Rejected
<1>4. Decoded(WithOps(h, s)) /\ Decoded(h)
  BY <1>2, <1>3, PartIsDecoded
<1>5. PICK trace \in Check(WithOps(h, s)) :
          \E e \in Match(matcher, trace) : expl = [e EXCEPT !.witness = WithOps(h, s)]
  BY <1>1 DEF GivenOf
<1>6. trace.history = WithOps(h, s)
  BY <1>4, TraceShape
<1>7. matcher \in Range(All)
  <2>1. matchers \in Seq(Range(All)) /\ m \in 1..Len(matchers)
    BY DEF ExplainInv, NamedInv
  <2>2. QED
    BY <2>1 DEF matcher
<1>8. OpsOf(WithOps(h, s)) \subseteq OpsOf(h)
  <2>1. h \in [model : STRING, init : Int, ops : Seq(OpsOf(h))]
    BY <1>4 DEF Decoded
  <2>2. WithOps(h, s).ops = s
    BY <2>1 DEF WithOps
  <2>3. PICK f \in [1..Len(s) -> 1..Len(h.ops)] : \A a \in 1..Len(s) : s[a] = h.ops[f[a]]
    BY <1>2 DEF IsPartOf, IsSubsequence, Embeds
  <2>4. s \in Seq(Operation) /\ DOMAIN h.ops = 1..Len(h.ops)
    BY <1>2, <2>1 DEF IsPartOf
  <2>5. ASSUME NEW a \in DOMAIN s
        PROVE  s[a] \in Range(h.ops)
    <3>1. f[a] \in DOMAIN h.ops /\ s[a] = h.ops[f[a]]
      BY <2>3, <2>4
    <3>2. QED
      BY <3>1 DEF Range
  <2>6. QED
    BY <2>2, <2>5 DEF OpsOf, Range
<1>9. QED
  BY <1>4, <1>5, <1>6, <1>7, <1>8

-----------------------------------------------------------------------------
(* The theorems *)

\* No verdict without a check that gave it, and no witness that a check has not
\* rejected: whatever is minimized, falls back or times out.
THEOREM AnswersWereChecked == Spec => [](pc = "returned" => AnswerWasChecked)
<1>1. ExplainInv => (pc = "returned" => AnswerWasChecked)
  BY DEF ExplainInv
<1>2. QED
  BY <1>1, InitExplainInv, NextExplainInv, PTL DEF Spec

\* The verdict of the pipeline is that of the definition, or unknown.
THEOREM VerdictIsSound == Spec => []VerdictIsRight
<1>1. ExplainInv => VerdictIsRight
  <2> SUFFICES ASSUME ExplainInv, pc = "returned"
               PROVE  /\ expl.verdict = "linearizable" => Linearizable(h)
                      /\ expl.verdict = "non-linearizable" => ~Linearizable(h)
    BY DEF VerdictIsRight
  <2>1. \A trace \in Check(h) : /\ trace.result = "Ok" => Linearizable(h)
                                /\ trace.result = "Illegal" => ~Linearizable(h)
    <3>1. IsPartOf(h.ops, h) /\ h = WithOps(h, h.ops)
      BY PartsOfHistory
    <3>2. QED
      BY <3>1, CheckerIsSound DEF CheckIsSound, ExplainInv
  <2>2. QED
    BY <2>1 DEF ExplainInv, AnswerWasChecked, MayBe
<1>2. QED
  BY <1>1, InitExplainInv, NextExplainInv, PTL DEF Spec

\* Every witness is a part of the history, and it fails.
THEOREM WitnessesFail == Spec => []WitnessStillFails
<1>1. ExplainInv => WitnessStillFails
  <2> SUFFICES ASSUME ExplainInv, Rejected
               PROVE  Within(expl.witness, h) /\ ~Linearizable(expl.witness)
    BY DEF WitnessStillFails
  <2>1. PICK s : /\ IsPartOf(s, h)
                 /\ expl.witness = WithOps(h, s)
                 /\ MayBe(WithOps(h, s), "Illegal")
    BY DEF Rejected, ExplainInv, AnswerWasChecked
  <2>2. ~Linearizable(WithOps(h, s))
    BY <2>1, CheckerIsSound DEF CheckIsSound, ExplainInv, Rejected, MayBe
  <2>3. Within(WithOps(h, s), h)
    <3>1. h \in [model : STRING, init : Int, ops : Seq(OpsOf(h))]
      BY HistoryShape DEF ExplainInv
    <3>2. /\ WithOps(h, s).ops = s /\ WithOps(h, s).model = h.model
          /\ WithOps(h, s).init = h.init
      BY <3>1 DEF WithOps
    <3>3. QED
      BY <2>1, <3>2 DEF Within, IsPartOf
  <2>4. QED
    BY <2>1, <2>2, <2>3
<1>2. QED
  BY <1>1, InitExplainInv, NextExplainInv, PTL DEF Spec

\* The state of a call has its types, an answer comes with the return and not before,
\* and every reason is one of the three constraints.
THEOREM TypeCorrect == Spec => []TypeOK
<1>1. TypeInv /\ ExplainInv => TypeOK
  <2> SUFFICES ASSUME TypeInv, ExplainInv
               PROVE  TypeOK
    OBVIOUS
  <2>1. Valid(h)
    BY FamiliesAssumption DEF ExplainInv
  <2>2. phase \in Minimize!Phases
    BY DEF ExplainInv, DD!SearchInv, DD!TypeOK, DD!Phases, Minimize!Phases
  <2>3. /\ rt.result \in {"", "Ok", "Illegal", "Unknown"}
        /\ \A p \in Range(rt.partitions) : \A b \in Range(p.blocks) : b.constraint \in Constraints
    <3>1. CASE rt = NoTrace
      <4>1. rt.result = "" /\ rt.partitions = <<>>
        BY <3>1 DEF NoTrace
      <4>2. Range(<<>>) = {}
        BY DEF Range
      <4>3. QED
        BY <4>1, <4>2
    <3>2. CASE Decoded(h) /\ rt \in Check(h)
      <4>1. rt.result \in {"Ok", "Unknown", "Illegal"}
        BY <3>2, CheckResults
      <4>2. QED
        BY <3>2, <4>1, ConstraintsOfTrace
    <3>3. QED
      BY <3>1, <3>2, DecodedWhenTraced
  <2>4. /\ expl.verdict \in {"", "linearizable", "non-linearizable", "unknown"}
        /\ (pc = "returned") <=> (expl.verdict # "")
    <3>1. NoExplanation.verdict = ""
      BY DEF NoExplanation
    <3>2. QED
      BY <3>1 DEF TypeInv
  <2>5. pc \in Stages /\ m \in 1..(Len(matchers) + 1)
    BY DEF TypeInv
  <2>6. QED
    BY <2>1, <2>2, <2>3, <2>4, <2>5, Zenon DEF TypeOK
<1>2. QED
  BY <1>1, InitTypeInv, NextTypeInv, InitExplainInv, NextExplainInv, PTL DEF Spec

\* What is printed with the operations in conflict.
LEMMA OfNamed ==
    ASSUME NEW mt, NEW trace, NEW conflict, NEW shape, NEW w,
           NEW e, e = Explanation(mt, trace, conflict, shape)
    PROVE  /\ [e EXCEPT !.witness = w].witness = w
           /\ [e EXCEPT !.witness = w].pattern = mt
           /\ [e EXCEPT !.witness = w].conflict = e.conflict
           /\ Range(e.conflict) = {op.id : op \in Range(conflict)}
<1>1. e.conflict = [k \in DOMAIN conflict |-> conflict[k].id]
  BY DEF Explanation
<1>2. Range(e.conflict) = {op.id : op \in Range(conflict)}
  BY <1>1 DEF Range
<1>3. QED
  BY <1>2 DEF Explanation

\* The operations in conflict are in the witness that is printed with them.
THEOREM ConflictsAreInWitness == Spec => []ConflictInWitness
<1>1. ExplainInv /\ NamedInv => ConflictInWitness
  <2> SUFFICES ASSUME ExplainInv, NamedInv, Named
               PROVE  Range(expl.conflict) \subseteq IdsOf(expl.witness)
    BY DEF ConflictInWitness
  <2>1. PICK s, trace, e :
            /\ Decoded(WithOps(h, s))
            /\ trace \in Check(WithOps(h, s))
            /\ matcher \in Range(All) /\ e \in Match(matcher, trace)
            /\ expl = [e EXCEPT !.witness = WithOps(h, s)]
    BY NamedIsGiven
  <2>2. Explains(WithOps(h, s), matcher, trace, e)
    BY <2>1, MatcherExplains
  <2>3. PICK conflict, shape : /\ e = Explanation(matcher, trace, conflict, shape)
                               /\ Range(conflict) \subseteq OpsOf(WithOps(h, s))
    BY <2>2 DEF Explains
  <2>4. /\ expl.witness = WithOps(h, s)
        /\ Range(expl.conflict) = {op.id : op \in Range(conflict)}
    BY <2>1, <2>3, OfNamed
  <2>5. QED
    BY <2>3, <2>4 DEF IdsOf
<1>2. QED
  BY <1>1, InitExplainInv, NextExplainInv, InitNamedInv, NextNamedInv, PTL DEF Spec

LEMMA SameWithout ==
    \A s, k : DD!Without(s, k) = Without(s, k)
  BY DEF DD!Without, DD!Excise, Without, Excise

\* What the minimizer left is printed, or else the whole history when the predicate may
\* refuse what was left; and the search does not end while there is an operation that
\* could be left out, unless the predicate may refuse what it started from.
THEOREM WitnessesAreOneMinimal == Spec => []WitnessOneMinimal
<1>1. ExplainInv /\ NamedInv => WitnessOneMinimal
  <2> DEFINE left == WithOps(h, ops)
  <2> SUFFICES ASSUME ExplainInv, NamedInv, Named
               PROVE  /\ \/ expl.witness = left
                         \/ expl.witness = h /\ FALSE \in PatternAnswers(matcher, left)
                      /\ \/ Len(ops) < 2
                         \/ ops = h.ops /\ FALSE \in PatternAnswers(matcher, left)
                         \/ \A k \in DOMAIN ops :
                              FALSE \in PatternAnswers(matcher, WithOps(h, Without(ops, k)))
    BY DEF WitnessOneMinimal
  <2>1. ASSUME NEW s, s = ops \/ s = h.ops, GivenOf(s)
        PROVE  expl.witness = WithOps(h, s)
    <3>1. h.model \in KnownModels /\ \E F \in Families : h \in F
      BY DEF ExplainInv, Named, Rejected
    <3>2. IsPartOf(s, h)
      BY <2>1, PartsOfHistory
    <3>3. Decoded(WithOps(h, s))
      BY <3>1, <3>2, PartIsDecoded
    <3>4. matchers \in Seq(Range(All)) /\ m \in 1..Len(matchers)
      BY DEF ExplainInv, NamedInv
    <3>5. matcher \in Range(All)
      BY <3>4 DEF matcher
    <3>6. PICK trace \in Check(WithOps(h, s)) :
              \E e \in Match(matcher, trace) : expl = [e EXCEPT !.witness = WithOps(h, s)]
      BY <2>1 DEF GivenOf
    <3>7. PICK e \in Match(matcher, trace) : expl = [e EXCEPT !.witness = WithOps(h, s)]
      BY <3>6
    <3>8. IsRejection(e)
      BY <3>5, MatchedShape
    <3>9. QED
      BY <3>7, <3>8 DEF IsRejection
  <2>2. h = WithOps(h, h.ops)
    BY PartsOfHistory
  <2>3. \/ expl.witness = left
        \/ expl.witness = h /\ FALSE \in PatternAnswers(matcher, left)
    BY <2>1, <2>2 DEF NamedInv
  <2>4. \/ Len(ops) < 2
        \/ ops = h.ops /\ FALSE \in PatternAnswers(matcher, left)
        \/ \A k \in 1..Len(ops) :
              FALSE \in PatternAnswers(matcher, WithOps(h, Without(ops, k)))
    <3>1. DD!OneMinimalResult /\ phase = "done"
      BY DEF ExplainInv, NamedInv, DD!SearchInv
    <3>2. QED
      BY <3>1, SameWithout DEF DD!OneMinimalResult, DD!MayFail, DD!wrap, WithOps
  <2>5. DOMAIN ops = 1..Len(ops)
    BY PartsOfHistory DEF IsPartOf
  <2>6. QED
    BY <2>3, <2>4, <2>5
<1>2. QED
  BY <1>1, InitExplainInv, NextExplainInv, InitNamedInv, NextNamedInv, PTL DEF Spec

\* A lost update names two writes of which one returned before the other, or two that
\* returned together.
THEOREM LostUpdatesAreTwoWrites == Spec => []LostUpdateNamesTwoWrites
<1>1. ExplainInv /\ NamedInv => LostUpdateNamesTwoWrites
  <2> SUFFICES ASSUME ExplainInv, NamedInv, Named, expl.pattern = "lost_update"
               PROVE  \/ Culprit(1).return < Culprit(2).return
                      \/ \E w \in OpsOf(expl.witness) \ {Culprit(1)} :
                             IsWrite(w) /\ w.return = Culprit(1).return
    BY DEF LostUpdateNamesTwoWrites, With
  <2>1. PICK s, trace, e :
            /\ Decoded(WithOps(h, s)) /\ Decoded(h)
            /\ OpsOf(WithOps(h, s)) \subseteq OpsOf(h)
            /\ trace \in Check(WithOps(h, s))
            /\ matcher \in Range(All) /\ e \in Match(matcher, trace)
            /\ expl = [e EXCEPT !.witness = WithOps(h, s)]
    BY NamedIsGiven
  <2>2. PICK conflict, shape : e = Explanation(matcher, trace, conflict, shape)
    BY <2>1, MatcherExplains DEF Explains
  <2>3. /\ expl.witness = WithOps(h, s) /\ expl.conflict = e.conflict
        /\ matcher = "lost_update"
    BY <2>1, <2>2, OfNamed
  <2>4. PICK a, b \in OpsOf(WithOps(h, s)) :
            /\ e.conflict[1] = a.id /\ e.conflict[2] = b.id
            /\ \/ a.return < b.return
               \/ \E w \in OpsOf(WithOps(h, s)) \ {a} : IsWrite(w) /\ w.return = a.return
    BY <2>1, <2>3, LostUpdateExplains
  <2>5. Culprit(1) = a /\ Culprit(2) = b
    <3>1. a \in OpsOf(h) /\ b \in OpsOf(h)
      BY <2>1
    <3>2. findOp(h, a.id) = a /\ findOp(h, b.id) = b
      BY <2>1, <3>1, IdsTellApart
    <3>3. QED
      BY <2>3, <2>4, <3>2 DEF Culprit
  <2>6. QED
    BY <2>3, <2>4, <2>5
<1>2. QED
  BY <1>1, InitExplainInv, NextExplainInv, InitNamedInv, NextNamedInv, PTL DEF Spec

\* A part with blocked operations, and what was searched of it.
LEMMA TracedPart ==
    ASSUME TypeInv, ExplainInv, NEW k \in TracedParts
    PROVE  /\ Decoded(h) /\ IsPartition(h, Partition(h)[k])
           /\ TracesPart(h, Partition(h)[k], rt.partitions[k])
           /\ rt.partitions[k].blocks # <<>>
<1>1. k \in DOMAIN rt.partitions /\ rt.partitions[k].blocks # <<>>
  BY DEF TracedParts
<1>2. rt # NoTrace
  <2>1. ASSUME rt = NoTrace
        PROVE  FALSE
    <3>1. rt.partitions = <<>>
      BY <2>1 DEF NoTrace
    <3>2. QED
      BY <1>1, <3>1
  <2>2. QED
    BY <2>1
<1>3. Decoded(h) /\ rt \in Check(h)
  BY <1>2, DecodedWhenTraced
<1>4. QED
  BY <1>1, <1>3, TraceShape, PartsArePartitions

\* No search puts an operation before one that precedes it: the first constraint that
\* classifyBlock tries is never given.
THEOREM RealTimePrecedesNever == Spec => []RealTimePrecedesUnreachable
<1>1. TypeInv /\ ExplainInv => RealTimePrecedesUnreachable
  BY TracedPart, NeverRealTime DEF RealTimePrecedesUnreachable
<1>2. QED
  BY <1>1, InitTypeInv, NextTypeInv, InitExplainInv, NextExplainInv, PTL DEF Spec

\* As long as no search is cut off, an operation in conflict waits for another one
\* outside the prefix: if it could follow the prefix, the search had gone on with it.
THEOREM ConflictsAreDownstream ==
    ASSUME ~MayTimeOut
    PROVE  Spec => []ConcurrentConflictIsDownstream
<1>1. TypeInv /\ ExplainInv => ConcurrentConflictIsDownstream
  <2> SUFFICES ASSUME TypeInv, ExplainInv, NEW k \in TracedParts,
                      NEW b \in Range(rt.partitions[k].blocks),
                      b.constraint = "concurrent-conflict"
               PROVE  \E op \in Open(k) : Precedes(op, findOp(h, b.opID))
    BY DEF ConcurrentConflictIsDownstream
  <2> DEFINE s == Partition(h)[k]
             t == rt.partitions[k]
  <2>1. Decoded(h) /\ IsPartition(h, s) /\ TracesPart(h, s, t)
    BY TracedPart
  <2>2. PICK op \in Range(s) : b.opID = op.id /\ WaitsForAnother(s, t, op)
    <3> HIDE DEF s
    <3> QED  BY <2>1, ConflictWaits
  <2>3. findOp(h, b.opID) = op
    <3>1. op \in OpsOf(h)
      BY <2>1 DEF IsPartition, Range
    <3>2. QED
      BY <2>1, <2>2, <3>1, IdsTellApart
  <2>4. QED
    BY <2>2, <2>3 DEF WaitsForAnother, Open
<1>2. QED
  BY <1>1, InitTypeInv, NextTypeInv, InitExplainInv, NextExplainInv, PTL DEF Spec

\* As long as no search is cut off, a part with blocked operations has no linearization:
\* one would be among the prefixes, with every operation of the part in it.
THEOREM BlockedPartsFail ==
    ASSUME ~MayTimeOut
    PROVE  Spec => []BlockedPartFails
<1>1. TypeInv /\ ExplainInv => BlockedPartFails
  BY TracedPart, BlockedPartIsWrong DEF BlockedPartFails
<1>2. QED
  BY <1>1, InitTypeInv, NextTypeInv, InitExplainInv, NextExplainInv, PTL DEF Spec
=============================================================================
