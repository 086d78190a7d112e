---------------------------- MODULE SearchProofs ----------------------------
(***************************************************************************)
(* Proofs about the search, for every history, every number of parts, and  *)
(* wherever the timeout strikes: no operation of a reported prefix is      *)
(* preceded by one that the prefix does not have, every reported prefix    *)
(* replays, what is accepted has a linearization, and the search as a      *)
(* whole implements the call that pkg/checker makes of it (CheckCall).     *)
(***************************************************************************)
EXTENDS Search, SequenceLemmas

\* The operations of s were put one after the other, and none of them while one
\* that precedes it was still open.
Stacked(k, s) ==
    \A j \in 1..Len(s), y \in Positions(k) :
        (\A l \in 1..j - 1 : s[l] # y) => ~Precedes(parts[k][y], parts[k][s[j]])

\* No return of an open operation lies before e.
OnlyCallsBefore(k, s, e) == \A f \in Listed(k, s) : Before(k, f, e) => f.kind = "call"

Walking(k, s, e) == e = NoEntry \/ (e \in Listed(k, s) /\ OnlyCallsBefore(k, s, e))

\* The inductive invariant.  The stack of calls is needed for the calls that are
\* taken back, the walk for those that are put.
SearchInv ==
    /\ PartsAreTimed(parts)
    /\ DOMAIN calls = DOMAIN parts /\ DOMAIN at = DOMAIN parts /\ DOMAIN longest = DOMAIN parts
    /\ \A k \in DOMAIN parts :
        /\ calls[k] \in Seq(Positions(k))
        /\ Stacked(k, calls[k])
        /\ Walking(k, calls[k], at[k])
        /\ \A x \in Positions(k) : RespectsRealTime(k, longest[k][x])

-----------------------------------------------------------------------------
(* The order of the entries *)

Entries(k) == {Entry(kind, x) : kind \in {"call", "return"}, x \in Positions(k)}

LEMMA EntryFields ==
    ASSUME NEW k \in DOMAIN parts, PartsAreTimed(parts), NEW e \in Entries(k)
    PROVE  /\ e.kind \in {"call", "return"} /\ e.op \in Positions(k) /\ e.op \in Nat
           /\ e = Entry(e.kind, e.op) /\ e # NoEntry
           /\ TimeOf(k, e) \in Nat
<1>1. PICK kind \in {"call", "return"}, x \in Positions(k) : e = Entry(kind, x)
  BY DEF Entries
<1>2. e.kind = kind /\ e.op = x
  BY <1>1 DEF Entry
<1>3. x \in Nat
  BY DEF PartsAreTimed, Positions
<1>4. QED
  BY <1>1, <1>2, <1>3 DEF TimeOf, PartsAreTimed, Positions, NoEntry, Entry

LEMMA BeforeIsTotal ==
    ASSUME NEW k \in DOMAIN parts, PartsAreTimed(parts),
           NEW e \in Entries(k), NEW f \in Entries(k)
    PROVE  /\ ~(Before(k, e, f) /\ Before(k, f, e))
           /\ ~Before(k, e, e)
           /\ e = f \/ Before(k, e, f) \/ Before(k, f, e)
BY EntryFields DEF Before

LEMMA LeastIsFirst ==
    ASSUME NEW k \in DOMAIN parts, PartsAreTimed(parts),
           NEW E \in SUBSET Entries(k), E # {}
    PROVE  Least(k, E) \in E /\ \A f \in E : ~Before(k, f, Least(k, E))
<1>1. PICK a \in E : \A f \in E : TimeOf(k, a) <= TimeOf(k, f)
  <2>1. {TimeOf(k, f) : f \in E} \in SUBSET Nat
    BY EntryFields
  <2>2. {TimeOf(k, f) : f \in E} # {}
    OBVIOUS
  <2>3. \E t \in {TimeOf(k, f) : f \in E} : \A u \in {TimeOf(k, f) : f \in E} : t <= u
    BY <2>1, <2>2, Smallest
  <2>4. QED
    BY <2>3
<1>2. PICK b \in E : /\ TimeOf(k, b) = TimeOf(k, a)
                     /\ b.kind = "return" =>
                            \A f \in E : TimeOf(k, f) = TimeOf(k, a) => f.kind = "return"
  <2>1. CASE \E f \in E : TimeOf(k, f) = TimeOf(k, a) /\ f.kind = "call"
    BY <2>1
  <2>2. CASE ~\E f \in E : TimeOf(k, f) = TimeOf(k, a) /\ f.kind = "call"
    BY <2>2, EntryFields
  <2>3. QED
    BY <2>1, <2>2
<1>3. PICK c \in E : /\ TimeOf(k, c) = TimeOf(k, a) /\ c.kind = b.kind
                     /\ \A f \in E : TimeOf(k, f) = TimeOf(k, a) /\ f.kind = b.kind => c.op <= f.op
  <2> DEFINE Same == {f \in E : TimeOf(k, f) = TimeOf(k, a) /\ f.kind = b.kind}
  <2>1. {f.op : f \in Same} \in SUBSET Nat
    BY EntryFields
  <2>2. {f.op : f \in Same} # {}
    <3>1. b \in Same
      BY <1>2
    <3>2. QED
      BY <3>1
  <2>3. \E t \in {f.op : f \in Same} : \A u \in {f.op : f \in Same} : t <= u
    BY <2>1, <2>2, Smallest
  <2>4. QED
    BY <2>3
<1>4. \A f \in E \ {c} : Before(k, c, f)
  <2>1. SUFFICES ASSUME NEW f \in E, f # c
                 PROVE  Before(k, c, f)
    OBVIOUS
  <2>2. /\ TimeOf(k, c) \in Nat /\ TimeOf(k, f) \in Nat /\ TimeOf(k, c) <= TimeOf(k, f)
        /\ c.op \in Nat /\ f.op \in Nat
        /\ c.kind \in {"call", "return"} /\ f.kind \in {"call", "return"}
        /\ c = Entry(c.kind, c.op) /\ f = Entry(f.kind, f.op)
    BY <1>1, <1>3, EntryFields
  <2>3. c.kind = f.kind => c.op # f.op
    BY <2>1, <2>2
  <2>4. CASE TimeOf(k, c) = TimeOf(k, f)
    BY <1>2, <1>3, <2>2, <2>3, <2>4 DEF Before
  <2>5. CASE TimeOf(k, c) # TimeOf(k, f)
    BY <2>2, <2>5 DEF Before
  <2>6. QED
    BY <2>4, <2>5
<1>5. Least(k, E) \in E /\ \A f \in E \ {Least(k, E)} : Before(k, Least(k, E), f)
  BY <1>3, <1>4 DEF Least
<1>6. QED
  BY <1>5, BeforeIsTotal

-----------------------------------------------------------------------------
(* The walk *)

LEMMA ListedEntries ==
    ASSUME NEW k \in DOMAIN parts, NEW s
    PROVE  Listed(k, s) \in SUBSET Entries(k)
BY DEF Listed, Entries

LEMMA WalkStarts ==
    ASSUME NEW k \in DOMAIN parts, PartsAreTimed(parts), NEW s
    PROVE  Walking(k, s, Least(k, Listed(k, s)))
<1>1. CASE Listed(k, s) = {}
  BY <1>1 DEF Least, Walking
<1>2. CASE Listed(k, s) # {}
  BY <1>2, LeastIsFirst, ListedEntries DEF Walking, OnlyCallsBefore
<1>3. QED
  BY <1>1, <1>2

LEMMA WalkGoesOn ==
    ASSUME NEW k \in DOMAIN parts, PartsAreTimed(parts), NEW s,
           NEW e \in Entries(k), e.kind = "call", OnlyCallsBefore(k, s, e)
    PROVE  Walking(k, s, After(k, s, e))
<1> DEFINE E == {f \in Listed(k, s) : Before(k, e, f)}
           next == Least(k, E)
<1>1. next = After(k, s, e)
  BY DEF After
<1>2. CASE E = {}
  BY <1>1, <1>2 DEF Least, Walking
<1>3. CASE E # {}
  <2>1. E \in SUBSET Entries(k)
    BY ListedEntries
  <2>2. next \in E /\ \A f \in E : ~Before(k, f, next)
    BY <1>3, <2>1, LeastIsFirst
  <2>3. ASSUME NEW f \in Listed(k, s), Before(k, f, next)
        PROVE  f.kind = "call"
    <3>1. f \in Entries(k) /\ ~Before(k, e, f)
      BY <2>2, <2>3, ListedEntries
    <3>2. f = e \/ Before(k, f, e)
      BY <3>1, BeforeIsTotal
    <3>3. QED
      BY <3>2 DEF OnlyCallsBefore
  <2>4. QED
    BY <1>1, <2>2, <2>3 DEF Walking, OnlyCallsBefore
<1>4. QED
  BY <1>2, <1>3

\* At a call no open operation precedes its operation.
LEMMA CallIsDue ==
    ASSUME NEW k \in DOMAIN parts, PartsAreTimed(parts), NEW s, NEW e \in Entries(k),
           e.kind = "call", OnlyCallsBefore(k, s, e)
    PROVE  \A y \in Positions(k) \ Range(s) : ~Precedes(parts[k][y], parts[k][e.op])
<1>1. SUFFICES ASSUME NEW y \in Positions(k) \ Range(s), Precedes(parts[k][y], parts[k][e.op])
               PROVE  FALSE
  OBVIOUS
<1>2. Entry("return", y) \in Listed(k, s) /\ Entry("return", y).kind = "return"
  BY DEF Listed, Entry
<1>3. Before(k, Entry("return", y), e)
  BY <1>1 DEF Before, TimeOf, Entry, Precedes
<1>4. QED
  BY <1>2, <1>3 DEF OnlyCallsBefore

-----------------------------------------------------------------------------
(* The stack of calls *)

LEMMA StackRespectsRealTime ==
    ASSUME NEW k \in DOMAIN parts, NEW s \in Seq(Positions(k)), Stacked(k, s)
    PROVE  RespectsRealTime(k, s)
<1>1. SUFFICES ASSUME NEW x \in Range(s), NEW y \in Positions(k) \ Range(s)
               PROVE  ~Precedes(parts[k][y], parts[k][x])
  BY DEF RespectsRealTime
<1>2. PICK j \in 1..Len(s) : x = s[j]
  BY DEF Range
<1>3. \A l \in 1..j - 1 : s[l] # y
  BY DEF Range
<1>4. QED
  BY <1>2, <1>3 DEF Stacked

LEMMA StackPush ==
    ASSUME NEW k \in DOMAIN parts, NEW s \in Seq(Positions(k)), Stacked(k, s),
           NEW x \in Positions(k),
           \A y \in Positions(k) \ Range(s) : ~Precedes(parts[k][y], parts[k][x])
    PROVE  Append(s, x) \in Seq(Positions(k)) /\ Stacked(k, Append(s, x))
<1> DEFINE n == Len(s)
           t == Append(s, x)
<1>1. t \in Seq(Positions(k)) /\ n \in Nat /\ Len(t) = n + 1
      /\ t[n + 1] = x /\ \A l \in 1..n : t[l] = s[l]
  OBVIOUS
<1> HIDE DEF t
<1>2. ASSUME NEW j \in 1..n + 1, NEW y \in Positions(k), \A l \in 1..j - 1 : t[l] # y
      PROVE  ~Precedes(parts[k][y], parts[k][t[j]])
  <2>1. CASE j = n + 1
    <3>1. y \notin Range(s)
      BY <1>1, <1>2, <2>1 DEF Range
    <3>2. QED
      BY <1>1, <2>1, <3>1
  <2>2. CASE j \in 1..n
    BY SMTT(30), <1>1, <1>2, <2>2 DEF Stacked
  <2>3. QED
    BY <1>1, <2>1, <2>2
<1>3. Stacked(k, t)
  BY <1>1, <1>2 DEF Stacked
<1>4. QED
  BY <1>1, <1>3 DEF t

LEMMA StackPop ==
    ASSUME NEW k \in DOMAIN parts, NEW s \in Seq(Positions(k)), Stacked(k, s), s # <<>>
    PROVE  /\ Front(s) \in Seq(Positions(k)) /\ Stacked(k, Front(s))
           /\ Last(s) \in Positions(k)
           /\ \A y \in Positions(k) \ Range(Front(s)) :
                ~Precedes(parts[k][y], parts[k][Last(s)])
<1> DEFINE n == Len(s)
           t == SubSeq(s, 1, n - 1)
<1>1. /\ n \in Nat \ {0} /\ t \in Seq(Positions(k)) /\ Len(t) = n - 1
      /\ \A l \in 1..n - 1 : t[l] = s[l]
      /\ s[n] \in Positions(k)
  OBVIOUS
<1> HIDE DEF t
<1>2. Stacked(k, t)
  BY <1>1 DEF Stacked
<1>3. ASSUME NEW y \in Positions(k) \ Range(t)
      PROVE  ~Precedes(parts[k][y], parts[k][s[n]])
  <2>1. \A l \in 1..n - 1 : s[l] # y
    BY <1>1 DEF Range
  <2>2. QED
    BY <1>1, <2>1 DEF Stacked
<1>4. QED
  BY <1>1, <1>2, <1>3 DEF Front, Last, t

\* A call that is taken back was due.
LEMMA TakenBackIsDue ==
    ASSUME NEW k \in DOMAIN parts, NEW s, NEW x \in Positions(k),
           \A y \in Positions(k) \ Range(s) : ~Precedes(parts[k][y], parts[k][x])
    PROVE  OnlyCallsBefore(k, s, Entry("call", x))
<1> DEFINE e == Entry("call", x)
<1>1. SUFFICES ASSUME NEW f \in Listed(k, s), Before(k, f, e), f.kind # "call"
               PROVE  FALSE
  BY DEF OnlyCallsBefore
<1>2. PICK kind \in {"call", "return"}, y \in Positions(k) \ Range(s) : f = Entry(kind, y)
  BY DEF Listed
<1>3. f.kind = "return" /\ f.op = y /\ e.kind = "call" /\ e.op = x
  BY <1>1, <1>2 DEF Entry
<1> HIDE DEF e
<1>4. TimeOf(k, f) = parts[k][y].return /\ TimeOf(k, e) = parts[k][x].call
  BY <1>3 DEF TimeOf
<1>5. TimeOf(k, f) < TimeOf(k, e)
  BY <1>1, <1>3 DEF Before, e
<1>6. QED
  BY <1>2, <1>4, <1>5 DEF Precedes

-----------------------------------------------------------------------------
(* The steps *)

LEMMA InitInv ==
    ASSUME Init
    PROVE  SearchInv
<1>1. PartsAreTimed(parts)
  BY InputsAssumption DEF Init
<1>2. ASSUME NEW k \in DOMAIN parts
      PROVE  /\ calls[k] \in Seq(Positions(k)) /\ Stacked(k, calls[k])
             /\ Walking(k, calls[k], at[k])
             /\ \A x \in Positions(k) : RespectsRealTime(k, longest[k][x])
  <2>1. calls[k] = <<>> /\ at[k] = Least(k, Listed(k, <<>>))
        /\ \A x \in Positions(k) : longest[k][x] = <<>>
    BY DEF Init, Positions
  <2>2. Walking(k, calls[k], at[k])
    BY <1>1, <2>1, WalkStarts
  <2>3. <<>> \in Seq(Positions(k)) /\ Stacked(k, <<>>)
    BY DEF Stacked
  <2>4. RespectsRealTime(k, <<>>)
    BY <2>3, StackRespectsRealTime
  <2>5. QED
    BY <2>1, <2>2, <2>3, <2>4
<1>3. QED
  BY <1>1, <1>2 DEF Init, SearchInv

\* What a step of part k has to keep, of its prefix, its entry and its reports.
PartInv(k, s, e, reports) ==
    /\ s \in Seq(Positions(k))
    /\ Stacked(k, s)
    /\ Walking(k, s, e)
    /\ \A x \in Positions(k) : RespectsRealTime(k, reports[x])

LEMMA OtherParts ==
    ASSUME SearchInv, NEW k \in DOMAIN parts, parts' = parts,
           DOMAIN calls' = DOMAIN parts, DOMAIN at' = DOMAIN parts,
           DOMAIN longest' = DOMAIN parts,
           \A q \in DOMAIN parts \ {k} :
                calls'[q] = calls[q] /\ at'[q] = at[q] /\ longest'[q] = longest[q],
           PartInv(k, calls'[k], at'[k], longest'[k])
    PROVE  SearchInv'
<1>1. ASSUME NEW q \in DOMAIN parts
      PROVE  PartInv(q, calls'[q], at'[q], longest'[q])
  BY DEF SearchInv, PartInv
<1>2. ASSUME NEW q \in DOMAIN parts
      PROVE  PartInv(q, calls[q], at[q], longest[q])'
  BY SMTT(30), <1>1 DEF PartInv, Positions, Stacked, Walking, OnlyCallsBefore, Listed,
              Before, TimeOf, RespectsRealTime
<1>3. QED
  BY <1>2 DEF SearchInv, PartInv

LEMMA StepInv ==
    ASSUME SearchInv, [Next]_vars
    PROVE  SearchInv'
<1>1. ASSUME NEW k \in DOMAIN parts
      PROVE  /\ PartsAreTimed(parts) /\ PartInv(k, calls[k], at[k], longest[k])
             /\ at[k].kind = "call" =>
                    /\ at[k] \in Entries(k) /\ at[k].op \in Positions(k)
                    /\ OnlyCallsBefore(k, calls[k], at[k])
  <2>1. PartsAreTimed(parts) /\ PartInv(k, calls[k], at[k], longest[k])
    BY DEF SearchInv, PartInv
  <2>2. NoEntry.kind # "call"
    BY DEF NoEntry, Entry
  <2>3. QED
    BY <2>1, <2>2, ListedEntries, EntryFields DEF PartInv, Walking
<1>2. ASSUME NEW k \in DOMAIN parts, Lift(k)
      PROVE  SearchInv'
  <2> DEFINE s == Append(calls[k], at[k].op)
  <2>1. /\ parts' = parts /\ longest' = longest /\ AtCall(k)
        /\ calls' = [calls EXCEPT ![k] = s]
        /\ at' = [at EXCEPT ![k] = Least(k, Listed(k, calls'[k]))]
    BY <1>2 DEF Lift
  <2>2. s \in Seq(Positions(k)) /\ Stacked(k, s)
    <3>1. \A y \in Positions(k) \ Range(calls[k]) :
            ~Precedes(parts[k][y], parts[k][at[k].op])
      BY <1>1, <2>1, CallIsDue DEF AtCall
    <3>2. QED
      BY <1>1, <2>1, <3>1, StackPush DEF AtCall, PartInv
  <2> HIDE DEF s
  <2>3. calls'[k] = s /\ at'[k] = Least(k, Listed(k, s))
    BY <2>1 DEF SearchInv
  <2>4. PartInv(k, s, Least(k, Listed(k, s)), longest[k])
    BY <1>1, <2>2, WalkStarts DEF PartInv
  <2>5. QED
    BY <2>1, <2>3, <2>4, OtherParts DEF SearchInv
<1>3. ASSUME NEW k \in DOMAIN parts, Skip(k)
      PROVE  SearchInv'
  <2>1. /\ parts' = parts /\ calls' = calls /\ longest' = longest /\ AtCall(k)
        /\ at' = [at EXCEPT ![k] = After(k, calls[k], at[k])]
    BY <1>3 DEF Skip
  <2>2. Walking(k, calls[k], After(k, calls[k], at[k]))
    BY <1>1, <2>1, WalkGoesOn DEF AtCall
  <2>3. at'[k] = After(k, calls[k], at[k])
    BY <2>1 DEF SearchInv
  <2>4. PartInv(k, calls[k], After(k, calls[k], at[k]), longest[k])
    BY <1>1, <2>2 DEF PartInv
  <2>5. QED
    BY <2>1, <2>3, <2>4, OtherParts DEF SearchInv
<1>4. ASSUME NEW k \in DOMAIN parts, Backtrack(k)
      PROVE  SearchInv'
  <2> DEFINE s == Front(calls[k])
             e == Entry("call", Last(calls[k]))
  <2>1. /\ parts' = parts /\ calls[k] # <<>>
        /\ calls' = [calls EXCEPT ![k] = s]
        /\ at' = [at EXCEPT ![k] = After(k, calls'[k], e)]
        /\ longest' = [longest EXCEPT ![k] = Noted(k)]
    BY <1>4 DEF Backtrack
  <2>2. /\ s \in Seq(Positions(k)) /\ Stacked(k, s)
        /\ Last(calls[k]) \in Positions(k)
        /\ \A y \in Positions(k) \ Range(s) :
                ~Precedes(parts[k][y], parts[k][Last(calls[k])])
    BY <1>1, <2>1, StackPop DEF PartInv
  <2>3. e \in Entries(k) /\ e.kind = "call" /\ e.op = Last(calls[k])
    BY <2>2 DEF Entries, Entry
  <2> HIDE DEF s, e
  <2>4. OnlyCallsBefore(k, s, e)
    BY <2>2, TakenBackIsDue DEF e
  <2>5. Walking(k, s, After(k, s, e))
    BY <1>1, <2>3, <2>4, WalkGoesOn
  <2>6. \A x \in Positions(k) : RespectsRealTime(k, Noted(k)[x])
    BY <1>1, StackRespectsRealTime DEF Noted, PartInv
  <2>7. calls'[k] = s /\ at'[k] = After(k, s, e) /\ longest'[k] = Noted(k)
    BY <2>1 DEF SearchInv
  <2>8. PartInv(k, s, After(k, s, e), Noted(k))
    BY <2>2, <2>5, <2>6 DEF PartInv
  <2>9. QED
    BY <2>1, <2>7, <2>8, OtherParts DEF SearchInv
<1>5. ASSUME NEW k \in DOMAIN parts, Complete(k)
      PROVE  SearchInv'
  <2> DEFINE all == [x \in Positions(k) |-> calls[k]]
  <2>1. /\ parts' = parts /\ calls' = calls /\ at' = at
        /\ longest' = [longest EXCEPT ![k] = all]
    BY <1>5 DEF Complete
  <2>2. \A x \in Positions(k) : RespectsRealTime(k, all[x])
    BY <1>1, StackRespectsRealTime DEF PartInv
  <2> HIDE DEF all
  <2>3. PartInv(k, calls[k], at[k], all)
    BY <1>1, <2>2 DEF PartInv
  <2>4. longest'[k] = all
    BY <2>1 DEF SearchInv
  <2>5. QED
    BY <2>1, <2>3, <2>4, OtherParts DEF SearchInv
<1>6. CASE UNCHANGED <<parts, calls, at, longest>>
  BY <1>6 DEF SearchInv, Positions, Stacked, Walking, OnlyCallsBefore, Listed,
              Before, TimeOf, RespectsRealTime
<1>7. ASSUME NEW k \in DOMAIN parts, Exhaust(k) \/ Cut(k) \/ Hear(k)
      PROVE  UNCHANGED <<parts, calls, at, longest>>
  BY <1>7 DEF Exhaust, Cut, Hear, search
<1>8. CASE TimeOut \/ Answer \/ UNCHANGED vars
  BY <1>6, <1>8 DEF TimeOut, Answer, search, vars
<1>9. QED
  BY <1>2, <1>3, <1>4, <1>5, <1>6, <1>7, <1>8 DEF Next, Step

\* Whatever is reported respects real time: for no history, part or moment of the
\* timeout can pkg/checker find an operation in a prefix that one outside of it
\* precedes, and the constraint real-time-precedes is never the reason of a block.
THEOREM ReportsAreDownwardClosed == Spec => []ReportsRespectRealTime
<1>1. Init => SearchInv
  BY InitInv
<1>2. SearchInv /\ [Next]_vars => SearchInv'
  BY StepInv
<1>3. SearchInv => ReportsRespectRealTime
  BY DEF SearchInv, ReportsRespectRealTime
<1>4. QED
  BY <1>1, <1>2, <1>3, PTL DEF Spec

-----------------------------------------------------------------------------
(* The replay *)

\* One operation of the replay, and what it starts from.
Replayed(acc, op) ==
    [ok    |-> acc.ok /\ Legal(op, acc.state),
     state |-> Apply(h, op, acc.state)]

Start == [ok |-> TRUE, state |-> InitState(h)]

\* Replay runs through the operations.
LEMMA ReplayUnfolds ==
    ASSUME NEW n \in Nat, NEW s, DOMAIN s = 1..n, InitState(h) \in Int,
           \A j \in 1..n : s[j].value \in Int
    PROVE  \E r : /\ r[0] = Start
                  /\ \A j \in 1..n : r[j] = Replayed(r[j - 1], s[j])
                  /\ Replay(h, s) = r[n]
<1> DEFINE A == [ok : BOOLEAN, state : Int]
           step == [p \in (1..n) \X A |-> Replayed(p[2], s[p[1]])]
           Recursion(f) ==
               f = [t \in SUBSET (DOMAIN s) |->
                       IF t = {} THEN Start ELSE Replayed(f[t \ {Max(t)}], s[Max(t)])]
           iter == CHOOSE f : Recursion(f)
<1>1. Replay(h, s) = iter[DOMAIN s]
  BY DEF Replay, FoldLeft, MapThenFoldSet, Replayed, Start
<1>2. Start \in A
  BY DEF Start
<1>3. step \in [(1..n) \X A -> A]
  <2>1. ASSUME NEW k \in 1..n, NEW acc \in A
        PROVE  Replayed(acc, s[k]) \in A
    <3>1. (acc.ok /\ Legal(s[k], acc.state)) \in BOOLEAN
      OBVIOUS
    <3>2. Apply(h, s[k], acc.state) \in Int
      <4>1. acc.state \in Int /\ s[k].value \in Int
        OBVIOUS
      <4>2. QED
        BY <4>1 DEF Apply
    <3>3. QED
      BY <3>1, <3>2 DEF Replayed
  <2>2. QED
    BY <2>1
<1>4. PICK f \in [SUBSET (1..n) -> A] : Unfolds(f, n, Start, step)
  BY <1>2, <1>3, FoldExists
<1>5. ASSUME NEW t \in SUBSET (1..n), t # {}
      PROVE  Max(t) \in 1..n /\ t \ {Max(t)} \in SUBSET (1..n)
  BY <1>5, GreatestOf
<1>6. \A k \in 1..n, a \in A : step[<<k, a>>] = Replayed(a, s[k])
  OBVIOUS
<1>7. Recursion(f)
  <2>1. ASSUME NEW t \in SUBSET (1..n)
        PROVE  f[t] = IF t = {} THEN Start ELSE Replayed(f[t \ {Max(t)}], s[Max(t)])
    BY <1>4, <1>5, <1>6 DEF Unfolds
  <2>2. QED
    BY <1>4, <2>1
<1>8. Recursion(iter)
  BY <1>7
<1> HIDE DEF iter
<1>9. iter[1..0] = Start
  <2>1. 1..0 = {} /\ 1..0 \in SUBSET (DOMAIN s)
    OBVIOUS
  <2>2. QED
    BY <1>8, <2>1
<1>10. ASSUME NEW k \in 1..n
       PROVE  iter[1..k] = Replayed(iter[1..k - 1], s[k])
  <2>1. 1..k \in SUBSET (DOMAIN s) /\ 1..k # {} /\ k \in Nat /\ k # 0
    OBVIOUS
  <2>2. Max(1..k) = k
    BY <2>1, GreatestOfInterval
  <2>3. (1..k) \ {k} = 1..k - 1
    OBVIOUS
  <2>4. QED
    BY <1>8, <2>1, <2>2, <2>3
<1> DEFINE r == [k \in 0..n |-> iter[1..k]]
<1>11. /\ r[0] = Start /\ r[n] = iter[DOMAIN s]
       /\ \A k \in 1..n : r[k] = Replayed(r[k - 1], s[k])
  BY <1>9, <1>10
<1>12. QED
  BY <1>1, <1>11

\* st has the states before each operation of the prefix s, and after it; each
\* operation is legal where it is put.
Leads(k, s, st) ==
    /\ st[1] = InitState(h)
    /\ \A j \in 1..Len(s) :
        /\ Legal(parts[k][s[j]], st[j])
        /\ st[j + 1] = Apply(h, parts[k][s[j]], st[j])

Replays(k, s) == Replay(h, [j \in DOMAIN s |-> parts[k][s[j]]]).ok

LEMMA LegalPrefixReplays ==
    ASSUME NEW k \in DOMAIN parts, InitState(h) \in Int,
           \A x \in Positions(k) : parts[k][x].value \in Int,
           NEW s \in Seq(Positions(k)), NEW st, Leads(k, s, st)
    PROVE  Replays(k, s)
<1> DEFINE n == Len(s)
           q == [j \in DOMAIN s |-> parts[k][s[j]]]
<1>1. n \in Nat /\ DOMAIN s = 1..n /\ \A j \in 1..n : s[j] \in Positions(k)
  OBVIOUS
<1>2. DOMAIN q = 1..n /\ \A j \in 1..n : q[j] = parts[k][s[j]] /\ q[j].value \in Int
  BY <1>1
<1> HIDE DEF q
<1>3. PICK r : /\ r[0] = Start
               /\ \A j \in 1..n : r[j] = Replayed(r[j - 1], q[j])
               /\ Replay(h, q) = r[n]
  BY <1>1, <1>2, ReplayUnfolds
<1> DEFINE T == {j \in 0..n : r[j] = [ok |-> TRUE, state |-> st[j + 1]]}
<1>4. 0 \in T
  <2>1. r[0] = [ok |-> TRUE, state |-> st[1]]
    BY <1>3 DEF Start, Leads
  <2>2. 0 \in 0..n /\ 0 + 1 = 1
    BY <1>1
  <2>3. QED
    BY <2>1, <2>2
<1>5. ASSUME NEW j \in 1..n, j - 1 \in T
      PROVE  j \in T
  <2>1. r[j - 1] = [ok |-> TRUE, state |-> st[j]] /\ j \in 0..n
    <3>1. j - 1 + 1 = j
      OBVIOUS
    <3>2. QED
      BY <1>5, <3>1
  <2>2. Legal(q[j], st[j]) /\ st[j + 1] = Apply(h, q[j], st[j])
    BY <1>2 DEF Leads
  <2>3. r[j] = Replayed(r[j - 1], q[j])
    BY <1>3
  <2>4. r[j - 1].ok /\ r[j - 1].state = st[j]
    BY <2>1
  <2>5. r[j] = [ok |-> TRUE, state |-> st[j + 1]]
    BY <2>2, <2>3, <2>4 DEF Replayed
  <2>6. QED
    BY <2>1, <2>5
<1>6. n \in T
  <2> HIDE DEF T
  <2>1. 0..n \subseteq T
    BY <1>1, <1>4, <1>5, UpTo
  <2>2. QED
    BY <1>1, <2>1
<1>7. Replay(h, q).ok
  BY <1>3, <1>6
<1>8. QED
  BY <1>7 DEF q, Replays

-----------------------------------------------------------------------------
(* What is reported replays *)

\* What a step of part k has to keep, of its prefix, its states, its result and its
\* reports.
PartReplays(k, s, st, res, reports) ==
    /\ st \in Seq(Int) /\ Len(st) = Len(s) + 1
    /\ Leads(k, s, st)
    /\ res \in Results
    /\ \A x \in Positions(k) : reports[x] \in Seq(Positions(k)) /\ Replays(k, reports[x])

\* The inductive invariant: the stack of states is that of the prefix.
ReplayInv ==
    /\ h \in Inputs /\ parts = Partition(h)
    /\ DOMAIN state = DOMAIN parts /\ DOMAIN result = DOMAIN parts
    /\ heard \subseteq DOMAIN parts
    /\ verdict \in {"", "Ok", "Illegal", "Unknown"}
    /\ \A k \in DOMAIN parts : PartReplays(k, calls[k], state[k], result[k], longest[k])

LEMMA IntegerValues ==
    ASSUME h \in Inputs, parts = Partition(h)
    PROVE  /\ InitState(h) \in Int
           /\ \A k \in DOMAIN parts : \A x \in Positions(k) : parts[k][x].value \in Int
<1>1. h.init \in Int /\ PartsAreTimed(parts)
  BY InputsAssumption
<1>2. InitState(h) \in Int
  BY <1>1 DEF InitState
<1>3. QED
  BY <1>1, <1>2 DEF PartsAreTimed, Positions

LEMMA LeadsOn ==
    ASSUME NEW k \in DOMAIN parts, NEW s \in Seq(Positions(k)), NEW st \in Seq(Int),
           Len(st) = Len(s) + 1, Leads(k, s, st),
           NEW x \in Positions(k), Legal(parts[k][x], Last(st)),
           NEW next \in Int, next = Apply(h, parts[k][x], Last(st))
    PROVE  /\ Append(st, next) \in Seq(Int) /\ Len(Append(st, next)) = Len(Append(s, x)) + 1
           /\ Leads(k, Append(s, x), Append(st, next))
<1> DEFINE n == Len(s)
           t == Append(s, x)
           u == Append(st, next)
<1>1. /\ n \in Nat /\ Len(t) = n + 1 /\ t[n + 1] = x /\ \A j \in 1..n : t[j] = s[j]
  OBVIOUS
<1>2. /\ u \in Seq(Int) /\ Len(u) = n + 2 /\ u[n + 2] = next
      /\ \A j \in 1..n + 1 : u[j] = st[j]
  OBVIOUS
<1>3. Last(st) = st[n + 1]
  BY DEF Last
<1> HIDE DEF t, u
<1>4. u[1] = InitState(h)
  BY <1>1, <1>2 DEF Leads
<1>5. ASSUME NEW j \in 1..n + 1
      PROVE  Legal(parts[k][t[j]], u[j]) /\ u[j + 1] = Apply(h, parts[k][t[j]], u[j])
  <2>1. CASE j = n + 1
    <3>1. u[j] = st[n + 1] /\ u[j + 1] = next /\ t[j] = x
      BY <1>1, <1>2, <2>1
    <3>2. QED
      BY <1>3, <3>1
  <2>2. CASE j \in 1..n
    <3>0. j \in 1..n + 1 /\ j + 1 \in 1..n + 1
      BY <1>1, <2>2
    <3>1. u[j] = st[j] /\ u[j + 1] = st[j + 1] /\ t[j] = s[j]
      BY <1>1, <1>2, <2>2, <3>0
    <3>2. QED
      BY <2>2, <3>1 DEF Leads
  <2>3. QED
    BY <1>1, <2>1, <2>2
<1>6. Leads(k, t, u)
  BY <1>1, <1>4, <1>5 DEF Leads
<1>7. QED
  BY <1>1, <1>2, <1>6 DEF t, u

LEMMA LeadsBack ==
    ASSUME NEW k \in DOMAIN parts, NEW s \in Seq(Positions(k)), NEW st \in Seq(Int),
           Len(st) = Len(s) + 1, Leads(k, s, st), s # <<>>
    PROVE  /\ Front(st) \in Seq(Int) /\ Len(Front(st)) = Len(Front(s)) + 1
           /\ Leads(k, Front(s), Front(st))
<1> DEFINE n == Len(s)
           t == Front(s)
           u == Front(st)
<1>0. n \in Nat \ {0} /\ st # <<>>
  OBVIOUS
<1>1. Len(t) = n - 1 /\ \A j \in 1..n - 1 : t[j] = s[j]
  BY FrontAndLast
<1>2. /\ u \in Seq(Int) /\ Len(u) = n /\ \A j \in 1..n : u[j] = st[j]
  <2>1. /\ u \in Seq(Int) /\ Len(u) = Len(st) - 1
        /\ \A j \in 1..Len(st) - 1 : u[j] = st[j]
    BY <1>0, FrontAndLast
  <2>2. QED
    BY <1>0, <2>1
<1> HIDE DEF t, u
<1>4. ASSUME NEW j \in 1..n - 1
      PROVE  Legal(parts[k][t[j]], u[j]) /\ u[j + 1] = Apply(h, parts[k][t[j]], u[j])
  <2>1. u[j] = st[j] /\ u[j + 1] = st[j + 1] /\ t[j] = s[j] /\ j \in 1..n
    <3>1. j \in 1..n /\ j + 1 \in 1..n
      BY <1>0
    <3>2. QED
      BY <1>1, <1>2, <3>1
  <2>2. QED
    BY <2>1 DEF Leads
<1>5. u[1] = InitState(h)
  <2>1. 1 \in 1..n
    BY <1>0
  <2>2. QED
    BY <1>2, <2>1 DEF Leads
<1>6. QED
  BY <1>0, <1>1, <1>2, <1>4, <1>5 DEF Leads, t, u

LEMMA InitReplay ==
    ASSUME Init
    PROVE  ReplayInv
<1>1. h \in Inputs /\ parts = Partition(h)
  BY DEF Init
<1>2. /\ InitState(h) \in Int
      /\ \A k \in DOMAIN parts : \A x \in Positions(k) : parts[k][x].value \in Int
  BY <1>1, IntegerValues
<1>3. ASSUME NEW k \in DOMAIN parts
      PROVE  PartReplays(k, calls[k], state[k], result[k], longest[k])
  <2>1. /\ calls[k] = <<>> /\ state[k] = <<InitState(h)>> /\ result[k] = "running"
        /\ \A x \in Positions(k) : longest[k][x] = <<>>
    BY DEF Init, Positions
  <2>2. /\ state[k] \in Seq(Int) /\ Len(state[k]) = 1 /\ state[k][1] = InitState(h)
        /\ <<>> \in Seq(Positions(k)) /\ Len(<<>>) = 0
    BY <1>2, <2>1
  <2>3. Leads(k, <<>>, state[k])
    BY <2>2 DEF Leads
  <2>4. Replays(k, <<>>)
    BY <1>2, <2>2, <2>3, LegalPrefixReplays
  <2>5. Len(state[k]) = Len(calls[k]) + 1 /\ Leads(k, calls[k], state[k])
    BY <2>1, <2>2, <2>3
  <2>6. \A x \in Positions(k) : longest[k][x] \in Seq(Positions(k)) /\ Replays(k, longest[k][x])
    BY <2>1, <2>2, <2>4
  <2>7. result[k] \in Results
    BY <2>1 DEF Results
  <2>8. QED
    BY <2>2, <2>5, <2>6, <2>7 DEF PartReplays
<1>4. QED
  BY <1>1, <1>3 DEF Init, ReplayInv

\* A step of part k.
LEMMA OtherPartsReplay ==
    ASSUME ReplayInv, NEW k \in DOMAIN parts, parts' = parts, h' = h,
           DOMAIN state' = DOMAIN parts, DOMAIN result' = DOMAIN parts,
           heard' \subseteq DOMAIN parts, verdict' = verdict,
           \A q \in DOMAIN parts \ {k} :
                /\ calls'[q] = calls[q] /\ state'[q] = state[q]
                /\ result'[q] = result[q] /\ longest'[q] = longest[q],
           PartReplays(k, calls'[k], state'[k], result'[k], longest'[k])
    PROVE  ReplayInv'
<1>1. ASSUME NEW q \in DOMAIN parts
      PROVE  PartReplays(q, calls'[q], state'[q], result'[q], longest'[q])
  BY DEF ReplayInv
<1>2. ASSUME NEW q \in DOMAIN parts
      PROVE  PartReplays(q, calls[q], state[q], result[q], longest[q])'
  BY <1>1 DEF PartReplays, Positions, Leads, Replays
<1>3. QED
  BY <1>2 DEF ReplayInv

LEMMA StepReplay ==
    ASSUME SearchInv, ReplayInv, [Next]_vars
    PROVE  ReplayInv'
<1>1. /\ InitState(h) \in Int
      /\ \A k \in DOMAIN parts : \A x \in Positions(k) : parts[k][x].value \in Int
  BY IntegerValues DEF ReplayInv
<1>2. ASSUME NEW k \in DOMAIN parts
      PROVE  /\ calls[k] \in Seq(Positions(k)) /\ state[k] \in Seq(Int)
             /\ Len(state[k]) = Len(calls[k]) + 1 /\ Leads(k, calls[k], state[k])
             /\ PartReplays(k, calls[k], state[k], result[k], longest[k])
             /\ Replays(k, calls[k])
  <2>1. /\ calls[k] \in Seq(Positions(k))
        /\ PartReplays(k, calls[k], state[k], result[k], longest[k])
    BY DEF SearchInv, ReplayInv
  <2>2. Replays(k, calls[k])
    BY <1>1, <2>1, LegalPrefixReplays DEF PartReplays
  <2>3. QED
    BY <2>1, <2>2 DEF PartReplays
<1>3. ASSUME NEW k \in DOMAIN parts, Lift(k)
      PROVE  ReplayInv'
  <2> DEFINE x == at[k].op
             next == Apply(h, parts[k][x], Last(state[k]))
             s == Append(calls[k], x)
             st == Append(state[k], next)
  <2>1. /\ parts' = parts /\ h' = h /\ longest' = longest /\ result' = result
        /\ heard' = heard /\ verdict' = verdict
        /\ calls' = [calls EXCEPT ![k] = s]
        /\ state' = [state EXCEPT ![k] = st]
        /\ Legal(parts[k][x], Last(state[k])) /\ at[k].kind = "call"
    BY <1>3 DEF Lift, caller, Reaches, Current, Now, Allowed, AtCall
  <2>2. x \in Positions(k)
    <3>1. NoEntry.kind # "call"
      BY DEF NoEntry, Entry
    <3>2. QED
      BY <2>1, <3>1, ListedEntries, EntryFields DEF SearchInv, Walking
  <2>3. next \in Int
    <3>1. Last(state[k]) \in Int
      BY <1>2 DEF Last
    <3>2. QED
      BY <1>1, <2>2, <3>1 DEF Apply
  <2>4. st \in Seq(Int) /\ Len(st) = Len(s) + 1 /\ Leads(k, s, st)
    BY <1>2, <2>1, <2>2, <2>3, LeadsOn
  <2> HIDE DEF s, st, next
  <2>5. PartReplays(k, s, st, result[k], longest[k])
    BY <1>2, <2>4 DEF PartReplays
  <2>6. calls'[k] = s /\ state'[k] = st
    BY <2>1 DEF SearchInv, ReplayInv
  <2>7. QED
    BY <2>1, <2>5, <2>6, OtherPartsReplay DEF SearchInv, ReplayInv
<1>4. ASSUME NEW k \in DOMAIN parts, Backtrack(k)
      PROVE  ReplayInv'
  <2> DEFINE s == Front(calls[k])
             st == Front(state[k])
  <2>1. /\ parts' = parts /\ h' = h /\ result' = result
        /\ heard' = heard /\ verdict' = verdict /\ calls[k] # <<>>
        /\ calls' = [calls EXCEPT ![k] = s]
        /\ state' = [state EXCEPT ![k] = st]
        /\ longest' = [longest EXCEPT ![k] = Noted(k)]
    BY <1>4 DEF Backtrack, caller
  <2>2. st \in Seq(Int) /\ Len(st) = Len(s) + 1 /\ Leads(k, s, st)
    BY <1>2, <2>1, LeadsBack
  <2> HIDE DEF s, st
  <2>3. \A x \in Positions(k) : Noted(k)[x] \in Seq(Positions(k)) /\ Replays(k, Noted(k)[x])
    BY <1>2 DEF Noted, PartReplays
  <2>4. PartReplays(k, s, st, result[k], Noted(k))
    BY <1>2, <2>2, <2>3 DEF PartReplays
  <2>5. calls'[k] = s /\ state'[k] = st /\ longest'[k] = Noted(k)
    BY <2>1 DEF SearchInv, ReplayInv
  <2>6. QED
    BY <2>1, <2>4, <2>5, OtherPartsReplay DEF SearchInv, ReplayInv
<1>5. ASSUME NEW k \in DOMAIN parts, Complete(k)
      PROVE  ReplayInv'
  <2> DEFINE all == [x \in Positions(k) |-> calls[k]]
  <2>1. /\ parts' = parts /\ h' = h /\ calls' = calls /\ state' = state
        /\ heard' = heard /\ verdict' = verdict
        /\ longest' = [longest EXCEPT ![k] = all]
        /\ result' = [result EXCEPT ![k] = "complete"]
    BY <1>5 DEF Complete, caller
  <2>2. \A x \in Positions(k) : all[x] \in Seq(Positions(k)) /\ Replays(k, all[x])
    BY <1>2
  <2> HIDE DEF all
  <2>3. PartReplays(k, calls[k], state[k], "complete", all)
    BY <1>2, <2>2 DEF PartReplays, Results
  <2>4. longest'[k] = all /\ result'[k] = "complete"
    BY <2>1 DEF SearchInv, ReplayInv
  <2>5. QED
    BY <2>1, <2>3, <2>4, OtherPartsReplay DEF SearchInv, ReplayInv
<1>6. ASSUME NEW k \in DOMAIN parts, NEW res \in {"rejected", "cut"},
             result' = [result EXCEPT ![k] = res],
             UNCHANGED <<h, parts, calls, state, longest, heard, verdict>>
      PROVE  ReplayInv'
  <2>1. PartReplays(k, calls[k], state[k], res, longest[k])
    BY <1>2 DEF PartReplays, Results
  <2>2. result'[k] = res
    BY <1>6 DEF ReplayInv
  <2>3. QED
    BY <1>6, <2>1, <2>2, OtherPartsReplay DEF ReplayInv
<1>7. ASSUME NEW k \in DOMAIN parts, Exhaust(k) \/ Cut(k)
      PROVE  ReplayInv'
  BY <1>6, <1>7 DEF Exhaust, Cut, caller
<1>8. ASSUME UNCHANGED <<h, parts, calls, state, longest, result>>,
             heard' \subseteq DOMAIN parts, verdict' \in {"", "Ok", "Illegal", "Unknown"}
      PROVE  ReplayInv'
  <2>1. ASSUME NEW k \in DOMAIN parts
        PROVE  PartReplays(k, calls[k], state[k], result[k], longest[k])'
    BY <1>2, <1>8 DEF PartReplays, Positions, Leads, Replays
  <2>2. QED
    BY <1>8, <2>1 DEF ReplayInv
<1>9. ASSUME NEW k \in DOMAIN parts, Skip(k) \/ Hear(k)
      PROVE  ReplayInv'
  BY <1>8, <1>9 DEF Skip, Hear, caller, search, ReplayInv
<1>10. CASE TimeOut \/ Answer \/ UNCHANGED vars
  BY <1>8, <1>10 DEF TimeOut, Answer, search, caller, vars, ReplayInv
<1>11. QED
  BY <1>3, <1>4, <1>5, <1>7, <1>9, <1>10 DEF Next, Step

LEMMA SearchInvHolds == Spec => [](SearchInv /\ ReplayInv)
<1>1. Init => SearchInv /\ ReplayInv
  BY InitInv, InitReplay
<1>2. SearchInv /\ ReplayInv /\ [Next]_vars => SearchInv' /\ ReplayInv'
  BY StepInv, StepReplay
<1>3. QED
  BY <1>1, <1>2, PTL DEF Spec

\* Type correctness: among others, the walk never stands at an entry that has been
\* lifted from the list, and there is a state for every call that may be taken back.
THEOREM TypeCorrect == Spec => []TypeOK
<1>1. SearchInv /\ ReplayInv => TypeOK
  <2>1. SUFFICES ASSUME SearchInv, ReplayInv
                 PROVE  TypeOK
    OBVIOUS
  <2>2. ASSUME NEW k \in DOMAIN parts
        PROVE  /\ Range(calls[k]) \subseteq Positions(k)
               /\ Len(state[k]) = Len(calls[k]) + 1
               /\ at[k] = NoEntry \/ at[k] \in Listed(k, calls[k])
               /\ result[k] \in Results
    <3>1. calls[k] \in Seq(Positions(k))
      BY <2>1 DEF SearchInv
    <3>2. Range(calls[k]) \subseteq Positions(k)
      BY <3>1 DEF Range
    <3>3. QED
      BY <2>1, <3>2 DEF SearchInv, ReplayInv, Walking, PartReplays
  <2>3. QED
    BY <2>1, <2>2 DEF ReplayInv, TypeOK
<1>2. QED
  BY <1>1, SearchInvHolds, PTL

\* Through every cache hit, lifting and taking back, with or without a timeout: the
\* replay of a reported prefix in pkg/checker never meets an illegal step.
THEOREM ReportsAreReplayed == Spec => []ReportsReplay
<1>1. ReplayInv => ReportsReplay
  BY DEF ReplayInv, ReportsReplay, PartReplays, Replays
<1>2. QED
  BY <1>1, SearchInvHolds, PTL

-----------------------------------------------------------------------------
(* What an accepting verdict means *)

PutOnce(s) == \A i, j \in 1..Len(s) : s[i] = s[j] => i = j

\* s is a linearization of part k: it has every operation once, none of them behind
\* one that it precedes, and the model allows each where it is.
Linearizes(k, s) ==
    /\ s \in Seq(Positions(k)) /\ Range(s) = Positions(k)
    /\ PutOnce(s)
    /\ \A i, j \in 1..Len(s) : i < j => ~Precedes(parts[k][s[j]], parts[k][s[i]])
    /\ Replays(k, s)

\* What a step of part k has to keep, of its prefix, its entry and its result.
PartEnds(k, s, e, res) ==
    /\ PutOnce(s)
    /\ e = NoEntry => Positions(k) \subseteq Range(s)
    /\ res = "complete" => e = NoEntry

\* The inductive invariant: the walk ends at the end of the list only when the list
\* is empty, for the return of every call is behind it.
AcceptInv ==
    /\ \A k \in DOMAIN parts : PartEnds(k, calls[k], at[k], result[k])
    /\ ok => \A k \in heard : result[k] = "complete"
    /\ verdict = "Ok" => ok /\ heard = DOMAIN parts

LEMMA WalkStartsAtAnEntry ==
    ASSUME NEW k \in DOMAIN parts, PartsAreTimed(parts), NEW s, Least(k, Listed(k, s)) = NoEntry
    PROVE  Positions(k) \subseteq Range(s)
<1>1. Listed(k, s) = {}
  <2>1. SUFFICES ASSUME Listed(k, s) # {}
                 PROVE  FALSE
    OBVIOUS
  <2>2. Listed(k, s) \in SUBSET Entries(k)
    BY ListedEntries
  <2>3. Least(k, Listed(k, s)) \in Entries(k)
    BY <2>1, <2>2, LeastIsFirst
  <2>4. QED
    BY <2>3, EntryFields
<1>2. SUFFICES ASSUME NEW x \in Positions(k), x \notin Range(s)
               PROVE  FALSE
  OBVIOUS
<1>3. Entry("call", x) \in Listed(k, s)
  BY <1>2 DEF Listed
<1>4. QED
  BY <1>1, <1>3

LEMMA WalkFindsTheReturn ==
    ASSUME NEW k \in DOMAIN parts, PartsAreTimed(parts), NEW s,
           NEW x \in Positions(k) \ Range(s), OnlyCallsBefore(k, s, Entry("call", x))
    PROVE  After(k, s, Entry("call", x)) # NoEntry
<1> DEFINE e == Entry("call", x)
           r == Entry("return", x)
           E == {f \in Listed(k, s) : Before(k, e, f)}
<1>1. r \in Listed(k, s)
  BY DEF Listed
<1>2. e.kind = "call" /\ r.kind = "return" /\ e \in Entries(k) /\ r \in Entries(k)
  BY DEF Entry, Entries
<1> HIDE DEF r
<1>3. ~Before(k, r, e)
  BY <1>1, <1>2 DEF OnlyCallsBefore
<1> HIDE DEF e
<1>4. Before(k, e, r)
  BY <1>2, <1>3, BeforeIsTotal
<1>5. E # {} /\ E \in SUBSET Entries(k)
  BY <1>1, <1>4, ListedEntries
<1>6. Least(k, E) \in Entries(k)
  BY <1>5, LeastIsFirst
<1>7. QED
  BY <1>6, EntryFields DEF After, e

LEMMA PutOnceMore ==
    ASSUME NEW R, NEW s \in Seq(R), PutOnce(s), NEW x \in R, x \notin Range(s)
    PROVE  PutOnce(Append(s, x))
<1>1. PICK n \in Nat : n = Len(s)
  OBVIOUS
<1>2. \A j \in 1..n : s[j] # x
  BY <1>1 DEF Range
<1>3. Len(Append(s, x)) = n + 1 /\ Append(s, x)[n + 1] = x /\ \A j \in 1..n : Append(s, x)[j] = s[j]
  BY <1>1
<1>4. QED
  BY <1>1, <1>2, <1>3 DEF PutOnce

LEMMA PutOnceLess ==
    ASSUME NEW R, NEW s \in Seq(R), PutOnce(s), s # <<>>
    PROVE  PutOnce(Front(s)) /\ Last(s) \notin Range(Front(s))
<1>1. PICK n \in Nat \ {0} : n = Len(s)
  OBVIOUS
<1>2. /\ Front(s) \in Seq(R) /\ Len(Front(s)) = n - 1 /\ \A j \in 1..n - 1 : Front(s)[j] = s[j]
      /\ Last(s) = s[n]
  BY <1>1, FrontAndLast
<1>3. PutOnce(Front(s))
  BY <1>1, <1>2 DEF PutOnce
<1>4. \A j \in 1..n - 1 : s[j] # s[n]
  BY <1>1 DEF PutOnce
<1>5. QED
  BY <1>2, <1>3, <1>4 DEF Range

LEMMA InitAccept ==
    ASSUME Init
    PROVE  AcceptInv
<1>1. PartsAreTimed(parts)
  BY InputsAssumption DEF Init
<1>2. ASSUME NEW k \in DOMAIN parts
      PROVE  PartEnds(k, calls[k], at[k], result[k])
  <2>1. calls[k] = <<>> /\ at[k] = Least(k, Listed(k, <<>>)) /\ result[k] = "running"
    BY DEF Init
  <2>2. PutOnce(<<>>)
    BY DEF PutOnce
  <2>3. QED
    BY <1>1, <2>1, <2>2, WalkStartsAtAnEntry DEF PartEnds
<1>3. QED
  BY <1>2 DEF Init, AcceptInv

LEMMA OtherPartsEnd ==
    ASSUME ReplayInv, AcceptInv, NEW k \in DOMAIN parts, UNCHANGED <<parts, heard, ok, verdict>>,
           \A q \in DOMAIN parts \ {k} :
                calls'[q] = calls[q] /\ at'[q] = at[q] /\ result'[q] = result[q],
           result[k] = "running", PartEnds(k, calls'[k], at'[k], result'[k])
    PROVE  AcceptInv'
<1>1. ASSUME NEW q \in DOMAIN parts
      PROVE  PartEnds(q, calls'[q], at'[q], result'[q])
  BY DEF AcceptInv
<1>2. ASSUME NEW q \in DOMAIN parts
      PROVE  PartEnds(q, calls[q], at[q], result[q])'
  BY <1>1 DEF PartEnds, Positions, PutOnce
<1>3. ASSUME ok, NEW q \in heard
      PROVE  result'[q] = "complete"
  BY <1>3 DEF ReplayInv, AcceptInv
<1>4. QED
  BY <1>2, <1>3 DEF AcceptInv

LEMMA StepAccept ==
    ASSUME SearchInv, ReplayInv, AcceptInv, [Next]_vars
    PROVE  AcceptInv'
<1>1. ASSUME NEW k \in DOMAIN parts
      PROVE  /\ PartsAreTimed(parts) /\ calls[k] \in Seq(Positions(k))
             /\ PartEnds(k, calls[k], at[k], result[k])
             /\ Stacked(k, calls[k])
             /\ at[k].kind = "call" =>
                    /\ at[k].op \in Positions(k) \ Range(calls[k])
                    /\ at[k] = Entry("call", at[k].op)
                    /\ OnlyCallsBefore(k, calls[k], at[k])
  <2>1. /\ PartsAreTimed(parts) /\ calls[k] \in Seq(Positions(k))
        /\ PartEnds(k, calls[k], at[k], result[k]) /\ Walking(k, calls[k], at[k])
        /\ Stacked(k, calls[k])
    BY DEF SearchInv, AcceptInv
  <2>2. NoEntry.kind # "call"
    BY DEF NoEntry, Entry
  <2>3. ASSUME at[k].kind = "call"
        PROVE  /\ at[k].op \in Positions(k) \ Range(calls[k])
               /\ at[k] = Entry("call", at[k].op)
               /\ OnlyCallsBefore(k, calls[k], at[k])
    <3>1. at[k] \in Listed(k, calls[k]) /\ OnlyCallsBefore(k, calls[k], at[k])
      BY <2>1, <2>2, <2>3 DEF Walking
    <3>2. PICK kind \in {"call", "return"}, x \in Positions(k) \ Range(calls[k]) :
            at[k] = Entry(kind, x)
      BY <3>1 DEF Listed
    <3>3. QED
      BY <2>3, <3>1, <3>2 DEF Entry
  <2>4. QED
    BY <2>1, <2>3
<1>2. ASSUME NEW k \in DOMAIN parts, Lift(k)
      PROVE  AcceptInv'
  <2> DEFINE s == Append(calls[k], at[k].op)
             e == Least(k, Listed(k, s))
  <2>1. /\ UNCHANGED <<parts, heard, ok, verdict, result>> /\ result[k] = "running"
        /\ at[k].kind = "call"
        /\ calls' = [calls EXCEPT ![k] = s]
        /\ at' = [at EXCEPT ![k] = Least(k, Listed(k, calls'[k]))]
    BY <1>2 DEF Lift, AtCall, Running, caller
  <2>2. PutOnce(s)
    BY <1>1, <2>1, PutOnceMore DEF PartEnds
  <2> HIDE DEF s
  <2>3. calls'[k] = s /\ at'[k] = e
    BY <2>1 DEF SearchInv
  <2>4. PartEnds(k, s, e, result'[k])
    BY <1>1, <2>1, <2>2, WalkStartsAtAnEntry DEF PartEnds
  <2> HIDE DEF e
  <2>5. QED
    BY <2>1, <2>3, <2>4, OtherPartsEnd DEF SearchInv
<1>3. ASSUME NEW k \in DOMAIN parts, Skip(k)
      PROVE  AcceptInv'
  <2> DEFINE e == After(k, calls[k], at[k])
  <2>1. /\ UNCHANGED <<parts, heard, ok, verdict, result, calls>> /\ result[k] = "running"
        /\ at[k].kind = "call"
        /\ at' = [at EXCEPT ![k] = e]
    BY <1>3 DEF Skip, AtCall, Running, caller
  <2>2. e # NoEntry
    BY <1>1, <2>1, WalkFindsTheReturn
  <2> HIDE DEF e
  <2>3. at'[k] = e
    BY <2>1 DEF SearchInv
  <2>4. PartEnds(k, calls[k], e, result'[k])
    BY <1>1, <2>1, <2>2 DEF PartEnds
  <2>5. QED
    BY <2>1, <2>3, <2>4, OtherPartsEnd DEF SearchInv
<1>4. ASSUME NEW k \in DOMAIN parts, Backtrack(k)
      PROVE  AcceptInv'
  <2> DEFINE s == Front(calls[k])
             e == After(k, s, Entry("call", Last(calls[k])))
  <2>1. /\ UNCHANGED <<parts, heard, ok, verdict, result>> /\ result[k] = "running"
        /\ calls[k] # <<>>
        /\ calls' = [calls EXCEPT ![k] = s]
        /\ at' = [at EXCEPT ![k] = After(k, calls'[k], Entry("call", Last(calls[k])))]
    BY <1>4 DEF Backtrack, AtReturn, Running, caller
  <2>2. PutOnce(calls[k]) /\ calls[k] \in Seq(Positions(k))
    BY <1>1 DEF PartEnds
  <2>3. /\ PutOnce(s) /\ Last(calls[k]) \in Positions(k) \ Range(s)
        /\ OnlyCallsBefore(k, s, Entry("call", Last(calls[k])))
    BY <1>1, <2>1, <2>2, PutOnceLess, FrontAndLast, StackPop, TakenBackIsDue
  <2> HIDE DEF s
  <2>4. calls'[k] = s /\ at'[k] = e
    BY <2>1 DEF SearchInv
  <2>5. e # NoEntry
    BY <1>1, <2>3, WalkFindsTheReturn
  <2> HIDE DEF e
  <2>6. PartEnds(k, s, e, result'[k])
    BY <2>1, <2>3, <2>5 DEF PartEnds
  <2>7. QED
    BY <2>1, <2>4, <2>6, OtherPartsEnd DEF SearchInv
<1>5. ASSUME NEW k \in DOMAIN parts, Exhaust(k) \/ Complete(k) \/ Cut(k)
      PROVE  AcceptInv'
  <2>1. /\ UNCHANGED <<parts, heard, ok, verdict, calls, at>> /\ result[k] = "running"
        /\ \A q \in DOMAIN parts \ {k} : result'[q] = result[q]
        /\ result'[k] = "complete" => at[k] = NoEntry
    BY <1>5 DEF Exhaust, Complete, Cut, AtReturn, Running, caller, ReplayInv
  <2>2. PartEnds(k, calls[k], at[k], result'[k])
    BY <1>1, <2>1 DEF PartEnds
  <2>3. QED
    BY <2>1, <2>2, OtherPartsEnd
<1>6. ASSUME UNCHANGED <<parts, calls, at, result>>,
             ok' => \A k \in heard' : result[k] = "complete",
             verdict' = "Ok" => ok' /\ heard' = DOMAIN parts
      PROVE  AcceptInv'
  <2>1. ASSUME NEW k \in DOMAIN parts
        PROVE  PartEnds(k, calls[k], at[k], result[k])'
    BY <1>1, <1>6 DEF PartEnds, Positions, PutOnce
  <2>2. QED
    BY <1>6, <2>1 DEF AcceptInv
<1>7. ASSUME NEW k \in DOMAIN parts, Hear(k)
      PROVE  AcceptInv'
  BY <1>6, <1>7 DEF Hear, search, AcceptInv
<1>8. CASE Answer
  <2>1. /\ UNCHANGED <<parts, calls, at, result, heard, ok>>
        /\ verdict' = "Ok" => ok /\ heard = DOMAIN parts
    BY <1>8 DEF Answer, search
  <2>2. QED
    BY <1>6, <2>1 DEF AcceptInv
<1>9. CASE TimeOut \/ UNCHANGED vars
  <2>1. UNCHANGED <<parts, calls, at, result, heard, ok, verdict>>
    BY <1>9 DEF TimeOut, search, caller, vars
  <2>2. QED
    BY <1>6, <2>1 DEF AcceptInv
<1>10. QED
  BY <1>2, <1>3, <1>4, <1>5, <1>7, <1>8, <1>9 DEF Next, Step

\* A verdict "Ok" is never given to a history that is not linearizable: each part
\* then has a linearization, the prefix with which its search ended.
AcceptedIsLinearizable ==
    verdict = "Ok" =>
        \A k \in DOMAIN parts : \E s \in Seq(Positions(k)) : Linearizes(k, s)

LEMMA AcceptingIsSound ==
    ASSUME SearchInv, ReplayInv, AcceptInv, verdict = "Ok"
    PROVE  \A k \in DOMAIN parts : Linearizes(k, calls[k])
<1>1. SUFFICES ASSUME NEW k \in DOMAIN parts
               PROVE  Linearizes(k, calls[k])
  OBVIOUS
<1> DEFINE s == calls[k]
<1>2. /\ s \in Seq(Positions(k)) /\ Stacked(k, s) /\ PutOnce(s)
      /\ Positions(k) \subseteq Range(s)
  BY DEF SearchInv, AcceptInv, PartEnds
<1>3. Replays(k, s)
  BY <1>2, IntegerValues, LegalPrefixReplays DEF ReplayInv, PartReplays
<1> HIDE DEF s
<1>4. Range(s) = Positions(k)
  BY <1>2 DEF Range
<1>5. ASSUME NEW i \in 1..Len(s), NEW j \in 1..Len(s), i < j
      PROVE  ~Precedes(parts[k][s[j]], parts[k][s[i]])
  <2>1. PICK n \in Nat : n = Len(s)
    BY <1>2
  <2>2. s[j] \in Positions(k)
    BY <1>2
  <2>3. \A l \in 1..i - 1 : s[l] # s[j]
    BY <1>2, <1>5, <2>1 DEF PutOnce
  <2>4. QED
    BY <1>2, <2>2, <2>3 DEF Stacked
<1>6. QED
  BY <1>2, <1>3, <1>4, <1>5 DEF Linearizes, s

THEOREM VerdictOkIsSound == Spec => []AcceptedIsLinearizable
<1> DEFINE Inv == SearchInv /\ ReplayInv /\ AcceptInv
<1>1. Init => Inv
  BY InitInv, InitReplay, InitAccept
<1>2. Inv /\ [Next]_vars => Inv'
  BY StepInv, StepReplay, StepAccept
<1>3. Inv => AcceptedIsLinearizable
  <2>1. SUFFICES ASSUME Inv, verdict = "Ok"
                 PROVE  \A k \in DOMAIN parts : \E s \in Seq(Positions(k)) : Linearizes(k, s)
    BY DEF AcceptedIsLinearizable
  <2>2. \A k \in DOMAIN parts : Linearizes(k, calls[k])
    BY <2>1, AcceptingIsSound
  <2>3. \A k \in DOMAIN parts : calls[k] \in Seq(Positions(k))
    BY <2>1 DEF SearchInv
  <2>4. QED
    BY <2>2, <2>3
<1> HIDE DEF Inv
<1>4. QED
  BY <1>1, <1>2, <1>3, PTL DEF Spec

-----------------------------------------------------------------------------
(* The prefixes of a part *)

\* What is known of the part s of a history g.
IsPart(g, s) ==
    /\ Len(s) \in Nat /\ DOMAIN s = 1..Len(s)
    /\ \A x \in DOMAIN s : s[x].call \in Nat /\ s[x].return \in Nat /\ s[x].value \in Int
    /\ InitState(g) \in Int

\* The operation x is due after the first k of p.
Due(s, p, k, x) == \A y \in DOMAIN s : (\A l \in 1..k : p[l] # y) => ~Precedes(s[y], s[x])

\* p is a prefix that the search may put, and st has the states before each operation
\* of it and after it.
Grown(g, s, p, st) ==
    /\ p \in Seq(DOMAIN s) /\ PutOnce(p)
    /\ \A j \in 1..Len(p) : Due(s, p, j - 1, p[j])
    /\ st \in Seq(Int) /\ Len(st) = Len(p) + 1 /\ st[1] = InitState(g)
    /\ \A j \in 1..Len(p) : Legal(s[p[j]], st[j]) /\ st[j + 1] = Apply(g, s[p[j]], st[j])

Tried(g, s) == {p \in Seq(DOMAIN s) : \E st \in Seq(Int) : Grown(g, s, p, st)}

AgreeUpTo(p, q, k) == \A a \in 1..k : p[a] = q[a]

LEMMA NothingIsGrown ==
    ASSUME NEW g, NEW s, IsPart(g, s)
    PROVE  Grown(g, s, <<>>, <<InitState(g)>>)
<1>1. <<InitState(g)>> \in Seq(Int) /\ <<>> \in Seq(DOMAIN s) /\ Len(<<>>) = 0
  BY DEF IsPart
<1>2. QED
  BY <1>1 DEF Grown, PutOnce

LEMMA ApplyIsTyped ==
    ASSUME NEW g, NEW s, IsPart(g, s), NEW x \in DOMAIN s, NEW v \in Int
    PROVE  Apply(g, s[x], v) \in Int
<1>1. s[x].value \in Int
  BY DEF IsPart
<1>2. QED
  BY <1>1 DEF Apply

LEMMA OneFurther ==
    ASSUME NEW g, NEW s, IsPart(g, s), NEW p, NEW st, Grown(g, s, p, st),
           NEW x \in DOMAIN s, x \notin Range(p), Due(s, p, Len(p), x),
           Legal(s[x], st[Len(p) + 1])
    PROVE  Grown(g, s, Append(p, x), Append(st, Apply(g, s[x], st[Len(p) + 1])))
<1> DEFINE v == Apply(g, s[x], st[Len(p) + 1])
           q == Append(p, x)
           su == Append(st, v)
<1>1. /\ p \in Seq(DOMAIN s) /\ PutOnce(p) /\ st \in Seq(Int) /\ Len(st) = Len(p) + 1
      /\ st[1] = InitState(g)
      /\ \A j \in 1..Len(p) : Due(s, p, j - 1, p[j])
      /\ \A j \in 1..Len(p) : Legal(s[p[j]], st[j]) /\ st[j + 1] = Apply(g, s[p[j]], st[j])
  BY DEF Grown
<1>2. PICK n \in Nat : n = Len(p)
  BY <1>1
<1>3. v \in Int
  <2>1. st[n + 1] \in Int
    BY <1>1, <1>2
  <2>2. QED
    BY <1>2, <2>1, ApplyIsTyped
<1>4. PutOnce(q)
  BY <1>1, PutOnceMore
<1>5. /\ q \in Seq(DOMAIN s) /\ Len(q) = n + 1 /\ q[n + 1] = x /\ \A j \in 1..n : q[j] = p[j]
      /\ su \in Seq(Int) /\ Len(su) = n + 2 /\ su[n + 2] = v /\ \A j \in 1..n + 1 : su[j] = st[j]
  <2> HIDE DEF v
  <2> QED  BY <1>1, <1>2, <1>3
<1> HIDE DEF q, su
<1>6. ASSUME NEW j \in 1..n + 1
      PROVE  Due(s, q, j - 1, q[j])
  <2>1. \A l \in 1..j - 1 : q[l] = p[l]
    BY <1>2, <1>5
  <2>2. CASE j = n + 1
    BY <1>2, <1>5, <2>1, <2>2 DEF Due
  <2>3. CASE j \in 1..n
    <3>1. q[j] = p[j]
      BY <1>5, <2>3
    <3>2. Due(s, p, j - 1, p[j])
      BY <1>1, <1>2, <2>3
    <3>3. QED
      BY <2>1, <3>1, <3>2 DEF Due
  <2>4. QED
    BY <1>2, <2>2, <2>3
<1>7. ASSUME NEW j \in 1..n + 1
      PROVE  Legal(s[q[j]], su[j]) /\ su[j + 1] = Apply(g, s[q[j]], su[j])
  <2>1. CASE j = n + 1
    <3>1. q[j] = x /\ su[j] = st[n + 1] /\ su[j + 1] = v
      BY <1>2, <1>5, <2>1
    <3>2. QED
      BY <1>2, <3>1
  <2>2. CASE j \in 1..n
    <3>1. j \in 1..n + 1 /\ j + 1 \in 1..n + 1
      BY <1>2, <2>2
    <3>2. q[j] = p[j] /\ su[j] = st[j] /\ su[j + 1] = st[j + 1]
      BY <1>5, <2>2, <3>1
    <3>3. QED
      BY <1>1, <1>2, <2>2, <3>2
  <2>3. QED
    BY <1>2, <2>1, <2>2
<1>8. su[1] = InitState(g)
  <2>1. 1 \in 1..n + 1
    BY <1>2
  <2>2. QED
    BY <1>1, <1>5, <2>1
<1>9. Len(q) = n + 1 /\ Len(su) = Len(q) + 1
  BY <1>2, <1>5
<1>10. Grown(g, s, q, su)
  BY <1>4, <1>5, <1>6, <1>7, <1>8, <1>9 DEF Grown
<1>11. QED
  BY <1>10 DEF q, su

LEMMA FirstOnes ==
    ASSUME NEW g, NEW s, IsPart(g, s), NEW p, NEW st, Grown(g, s, p, st), NEW m \in 0..Len(p)
    PROVE  /\ Grown(g, s, SubSeq(p, 1, m), SubSeq(st, 1, m + 1))
           /\ Len(SubSeq(p, 1, m)) = m /\ AgreeUpTo(SubSeq(p, 1, m), p, m)
           /\ SubSeq(st, 1, m + 1)[m + 1] = st[m + 1]
<1> DEFINE q == SubSeq(p, 1, m)
           su == SubSeq(st, 1, m + 1)
<1>1. /\ p \in Seq(DOMAIN s) /\ PutOnce(p) /\ st \in Seq(Int) /\ Len(st) = Len(p) + 1
      /\ st[1] = InitState(g)
      /\ \A j \in 1..Len(p) : Due(s, p, j - 1, p[j])
      /\ \A j \in 1..Len(p) : Legal(s[p[j]], st[j]) /\ st[j + 1] = Apply(g, s[p[j]], st[j])
  BY DEF Grown
<1>2. PICK n \in Nat : n = Len(p)
  BY <1>1
<1>3. /\ q \in Seq(DOMAIN s) /\ Len(q) = m /\ \A j \in 1..m : q[j] = p[j]
      /\ su \in Seq(Int) /\ Len(su) = m + 1 /\ \A j \in 1..m + 1 : su[j] = st[j]
  BY <1>1, <1>2
<1> HIDE DEF q, su
<1>4. m \in Nat /\ \A j \in 1..m : j \in 1..n /\ j \in 1..m + 1 /\ j + 1 \in 1..m + 1
  BY <1>2
<1>5. PutOnce(q)
  BY <1>1, <1>2, <1>3, <1>4 DEF PutOnce
<1>6. ASSUME NEW j \in 1..m
      PROVE  Due(s, q, j - 1, q[j])
  <2>1. (\A l \in 1..j - 1 : q[l] = p[l]) /\ q[j] = p[j]
    BY <1>3, <1>4
  <2>2. Due(s, p, j - 1, p[j])
    BY <1>1, <1>2, <1>4
  <2>3. QED
    BY <2>1, <2>2 DEF Due
<1>7. ASSUME NEW j \in 1..m
      PROVE  Legal(s[q[j]], su[j]) /\ su[j + 1] = Apply(g, s[q[j]], su[j])
  BY <1>1, <1>2, <1>3, <1>4
<1>8. su[1] = InitState(g) /\ su[m + 1] = st[m + 1]
  BY <1>1, <1>3, <1>4
<1>9. Grown(g, s, q, su)
  BY <1>3, <1>5, <1>6, <1>7, <1>8 DEF Grown
<1>10. QED
  BY <1>3, <1>8, <1>9 DEF AgreeUpTo, q, su

\* The operations determine the state.
LEMMA Determined ==
    ASSUME NEW g, NEW s, IsPart(g, s), NEW p, NEW st, Grown(g, s, p, st),
           NEW q, NEW su, Grown(g, s, q, su),
           NEW m \in 0..Len(p), m <= Len(q), AgreeUpTo(p, q, m)
    PROVE  st[m + 1] = su[m + 1]
<1> DEFINE T == {j \in 0..m : st[j + 1] = su[j + 1]}
<1>0. Len(p) \in Nat /\ Len(q) \in Nat /\ m \in Nat
  BY DEF Grown
<1>1. 0 \in T
  BY <1>0 DEF Grown
<1>2. ASSUME NEW j \in 1..m, j - 1 \in T
      PROVE  j \in T
  <2>1. st[j] = su[j]
    <3>1. j - 1 + 1 = j
      OBVIOUS
    <3>2. QED
      BY <1>2, <3>1
  <2>2. j \in 1..Len(p) /\ j \in 1..Len(q) /\ p[j] = q[j]
    BY <1>0 DEF AgreeUpTo
  <2>3. st[j + 1] = Apply(g, s[p[j]], st[j]) /\ su[j + 1] = Apply(g, s[q[j]], su[j])
    BY <2>2 DEF Grown
  <2>4. QED
    BY <2>1, <2>2, <2>3
<1>3. QED
  <2> HIDE DEF T
  <2>1. 0..m \subseteq T
    BY <1>0, <1>1, <1>2, UpTo
  <2>2. m \in T
    BY <1>0, <2>1
  <2>3. QED
    BY <2>2 DEF T

\* The first m operations of p.
FirstOf(p, m) == {p[j] : j \in 1..m}

\* q with p in the place of its first operations.
Spliced(p, q) == [j \in 1..Len(q) |-> IF j <= Len(p) THEN p[j] ELSE q[j]]

\* Whatever goes on from p goes on as well from other prefixes that have the same
\* operations and lead to the same state: this is why a search may have a cache.
LEMMA GoesOnAsWell ==
    ASSUME NEW g, NEW s, IsPart(g, s), NEW p, NEW st, Grown(g, s, p, st),
           NEW q, NEW su, Grown(g, s, q, su), Len(p) <= Len(q),
           FirstOf(p, Len(p)) = FirstOf(q, Len(p)),
           st[Len(p) + 1] = su[Len(p) + 1]
    PROVE  /\ Spliced(p, q) \in Tried(g, s) /\ Len(Spliced(p, q)) = Len(q)
           /\ AgreeUpTo(Spliced(p, q), p, Len(p))
           /\ Range(Spliced(p, q)) = Range(q)
<1> DEFINE m == Len(p)
           n == Len(q)
           r == Spliced(p, q)
           sv == [j \in 1..n + 1 |-> IF j <= m THEN st[j] ELSE su[j]]
<1>1. /\ p \in Seq(DOMAIN s) /\ PutOnce(p) /\ st \in Seq(Int) /\ Len(st) = m + 1
      /\ st[1] = InitState(g)
      /\ \A j \in 1..m : Due(s, p, j - 1, p[j])
      /\ \A j \in 1..m : Legal(s[p[j]], st[j]) /\ st[j + 1] = Apply(g, s[p[j]], st[j])
  BY DEF Grown
<1>2. /\ q \in Seq(DOMAIN s) /\ PutOnce(q) /\ su \in Seq(Int) /\ Len(su) = n + 1
      /\ su[1] = InitState(g)
      /\ \A j \in 1..n : Due(s, q, j - 1, q[j])
      /\ \A j \in 1..n : Legal(s[q[j]], su[j]) /\ su[j + 1] = Apply(g, s[q[j]], su[j])
  BY DEF Grown
<1>3. m \in Nat /\ n \in Nat /\ m <= n
  BY <1>1, <1>2
<1>4. /\ r \in Seq(DOMAIN s) /\ Len(r) = n
      /\ \A j \in 1..m : r[j] = p[j]
      /\ \A j \in m + 1..n : r[j] = q[j]
  <2>1. ASSUME NEW j \in 1..n
        PROVE  (IF j <= m THEN p[j] ELSE q[j]) \in DOMAIN s
    <3>1. q[j] \in DOMAIN s
      BY <1>2
    <3>2. j <= m => p[j] \in DOMAIN s
      BY <1>1, <1>3
    <3>3. QED
      BY <3>1, <3>2
  <2>2. r \in [1..n -> DOMAIN s]
    BY <2>1 DEF Spliced
  <2>3. QED
    BY <1>3, <2>2 DEF Spliced
<1>5. /\ sv \in Seq(Int) /\ Len(sv) = n + 1
      /\ \A j \in 1..m + 1 : sv[j] = st[j]
      /\ \A j \in m + 1..n + 1 : sv[j] = su[j]
  <2>1. \A j \in 1..n + 1 : (IF j <= m THEN st[j] ELSE su[j]) \in Int
    BY <1>1, <1>2, <1>3
  <2>2. sv \in [1..n + 1 -> Int]
    BY <2>1
  <2>3. QED
    BY <1>3, <2>2
<1> DEFINE first == {p[j] : j \in 1..m}
<1>6. /\ \A j \in 1..m : p[j] \in first
      /\ \A j \in 1..m : \E l \in 1..m : p[j] = q[l]
      /\ \A j \in 1..m : \E l \in 1..m : q[j] = p[l]
  <2>1. first = {q[j] : j \in 1..m}
    BY DEF FirstOf
  <2>2. QED
    BY <2>1
<1> HIDE DEF r, sv, m, n, first
<1>7. PutOnce(r)
  <2>1. ASSUME NEW i \in 1..m, NEW j \in m + 1..n
        PROVE  p[i] # q[j]
    <3>1. PICK l \in 1..m : p[i] = q[l]
      BY <1>6
    <3>2. l \in 1..n /\ j \in 1..n /\ l # j
      BY <1>3
    <3>3. QED
      BY <1>2, <3>1, <3>2 DEF PutOnce, n
  <2>2. \A i, j \in 1..m : p[i] = p[j] => i = j
    BY <1>1 DEF PutOnce, m
  <2>3. \A i, j \in m + 1..n : q[i] = q[j] => i = j
    <3>1. \A i \in m + 1..n : i \in 1..n
      BY <1>3
    <3>2. QED
      BY <1>2, <3>1 DEF PutOnce, n
  <2>4. ASSUME NEW i \in 1..n, NEW j \in 1..n, r[i] = r[j]
        PROVE  i = j
    <3>1. (i \in 1..m \/ i \in m + 1..n) /\ (j \in 1..m \/ j \in m + 1..n)
      BY <1>3
    <3>2. QED
      BY <1>4, <2>1, <2>2, <2>3, <2>4, <3>1
  <2>5. QED
    BY <1>4, <2>4 DEF PutOnce
<1>8. ASSUME NEW j \in 1..n
      PROVE  Due(s, r, j - 1, r[j])
  <2>1. CASE j \in 1..m
    <3>1. (\A l \in 1..j - 1 : r[l] = p[l]) /\ r[j] = p[j]
      BY <1>3, <1>4, <2>1
    <3>2. Due(s, p, j - 1, p[j])
      BY <1>1, <2>1
    <3>3. QED
      BY <3>1, <3>2 DEF Due
  <2>2. CASE j \in m + 1..n
    <3>1. Due(s, q, j - 1, q[j]) /\ r[j] = q[j]
      BY <1>2, <1>4, <2>2
    <3>2. ASSUME NEW y, \A l \in 1..j - 1 : r[l] # y, NEW l \in 1..j - 1
          PROVE  q[l] # y
      <4>1. CASE l \in m + 1..j - 1
        BY <1>3, <1>4, <2>2, <3>2, <4>1
      <4>2. CASE l \in 1..m
        <5>1. PICK i \in 1..m : q[l] = p[i]
          BY <1>6, <4>2
        <5>2. i \in 1..j - 1 /\ r[i] = p[i]
          BY <1>3, <1>4, <2>2
        <5>3. QED
          BY <3>2, <5>1, <5>2
      <4>3. QED
        BY <1>3, <4>1, <4>2
    <3>3. QED
      BY <3>1, <3>2 DEF Due
  <2>3. QED
    BY <1>3, <2>1, <2>2
<1>9. ASSUME NEW j \in 1..n
      PROVE  Legal(s[r[j]], sv[j]) /\ sv[j + 1] = Apply(g, s[r[j]], sv[j])
  <2>1. CASE j \in 1..m
    <3>1. j \in 1..m + 1 /\ j + 1 \in 1..m + 1
      BY <1>3, <2>1
    <3>2. r[j] = p[j] /\ sv[j] = st[j] /\ sv[j + 1] = st[j + 1]
      BY <1>4, <1>5, <2>1, <3>1
    <3>3. QED
      BY <1>1, <2>1, <3>2
  <2>2. CASE j \in m + 1..n
    <3>1. j \in m + 1..n + 1 /\ j + 1 \in m + 1..n + 1
      BY <1>3, <2>2
    <3>2. r[j] = q[j] /\ sv[j] = su[j] /\ sv[j + 1] = su[j + 1]
      BY <1>4, <1>5, <2>2, <3>1
    <3>3. QED
      BY <1>2, <3>2
  <2>3. QED
    BY <1>3, <2>1, <2>2
<1>10. sv[1] = InitState(g)
  BY <1>1, <1>3, <1>5
<1>11. Grown(g, s, r, sv)
  BY <1>4, <1>5, <1>7, <1>8, <1>9, <1>10 DEF Grown
<1>12. r \in Tried(g, s)
  BY <1>4, <1>5, <1>11 DEF Tried
<1>13. AgreeUpTo(r, p, m)
  BY <1>4 DEF AgreeUpTo
<1>14. Range(r) = Range(q)
  <2>1. Range(r) = {r[j] : j \in 1..n} /\ Range(q) = {q[j] : j \in 1..n}
    <3>1. DOMAIN r = 1..n /\ DOMAIN q = 1..n
      BY <1>2, <1>3, <1>4 DEF n
    <3>2. QED
      BY <3>1, Zenon DEF Range
  <2>2. ASSUME NEW j \in 1..n
        PROVE  (\E l \in 1..n : r[j] = q[l]) /\ (\E l \in 1..n : q[j] = r[l])
    <3>1. CASE j \in 1..m
      <4>1. PICK a \in 1..m, b \in 1..m : p[j] = q[a] /\ q[j] = p[b]
        BY <1>6, <3>1
      <4>2. a \in 1..n /\ b \in 1..n /\ r[b] = p[b] /\ r[j] = p[j]
        BY <1>3, <1>4, <3>1
      <4>3. QED
        BY <4>1, <4>2
    <3>2. CASE j \in m + 1..n
      BY <1>4, <3>2
    <3>3. QED
      BY <1>3, <3>1, <3>2
  <2>3. {r[j] : j \in 1..n} = {q[j] : j \in 1..n}
    <3>1. ASSUME NEW j \in 1..n
          PROVE  r[j] \in {q[l] : l \in 1..n} /\ q[j] \in {r[l] : l \in 1..n}
      <4>1. PICK a \in 1..n, b \in 1..n : r[j] = q[a] /\ q[j] = r[b]
        BY <2>2
      <4>2. QED
        BY <4>1
    <3>2. QED
      BY <3>1
  <2>4. QED
    BY <2>1, <2>3, Zenon
<1>15. Len(r) = n
  BY <1>4
<1>16. QED
  BY <1>12, <1>13, <1>14, <1>15 DEF r, m, n

-----------------------------------------------------------------------------
(* The order in which prefixes are tried *)

Sooner(s, x, y) == s[x].call < s[y].call \/ (s[x].call = s[y].call /\ x < y)

LEMMA SoonerIsAnOrder ==
    ASSUME NEW g, NEW s, IsPart(g, s),
           NEW x \in DOMAIN s, NEW y \in DOMAIN s, NEW z \in DOMAIN s
    PROVE  /\ ~Sooner(s, x, x) /\ ~(Sooner(s, x, y) /\ Sooner(s, y, x))
           /\ Sooner(s, x, y) \/ x = y \/ Sooner(s, y, x)
           /\ Sooner(s, x, y) /\ Sooner(s, y, z) => Sooner(s, x, z)
<1>1. /\ x \in Int /\ y \in Int /\ z \in Int
      /\ s[x].call \in Int /\ s[y].call \in Int /\ s[z].call \in Int
  <2>1. x \in Nat /\ y \in Nat /\ z \in Nat
    BY DEF IsPart
  <2>2. s[x].call \in Nat /\ s[y].call \in Nat /\ s[z].call \in Nat
    BY DEF IsPart
  <2>3. QED
    BY <2>1, <2>2
<1>2. QED
  BY <1>1 DEF Sooner

\* p and q part at j, and p is tried before q.
PartsAt(s, p, q, j) ==
    j \in 1..Len(p) /\ j \in 1..Len(q) /\ AgreeUpTo(p, q, j - 1) /\ Sooner(s, p[j], q[j])

LEMMA TriedBeforeParts ==
    ASSUME NEW s, NEW p \in Seq(DOMAIN s), NEW q \in Seq(DOMAIN s)
    PROVE  TriedBefore(s, p, q) <=> \E j : PartsAt(s, p, q, j)
<1>1. DOMAIN p = 1..Len(p) /\ DOMAIN q = 1..Len(q)
  OBVIOUS
<1>2. QED
  BY <1>1, Zenon DEF TriedBefore, PartsAt, AgreeUpTo, Sooner

LEMMA FirstDifference ==
    ASSUME NEW R, NEW p \in Seq(R), NEW q \in Seq(R), NEW n \in Nat, n <= Len(p), n <= Len(q)
    PROVE  \/ AgreeUpTo(p, q, n)
           \/ \E j \in 1..n : AgreeUpTo(p, q, j - 1) /\ p[j] # q[j]
<1> DEFINE T == {j \in 0..n : AgreeUpTo(p, q, j)}
<1> SUFFICES ASSUME ~\E j \in 1..n : AgreeUpTo(p, q, j - 1) /\ p[j] # q[j]
             PROVE  AgreeUpTo(p, q, n)
  OBVIOUS
<1>1. 0 \in T
  BY DEF AgreeUpTo
<1>2. ASSUME NEW j \in 1..n, j - 1 \in T
      PROVE  j \in T
  <2>1. AgreeUpTo(p, q, j - 1) /\ p[j] = q[j]
    BY <1>2
  <2>2. \A a \in 1..j : a \in 1..j - 1 \/ a = j
    OBVIOUS
  <2>3. QED
    BY <2>1, <2>2 DEF AgreeUpTo
<1>3. QED
  <2> HIDE DEF T
  <2>1. 0..n \subseteq T
    BY <1>1, <1>2, UpTo
  <2>2. n \in T
    BY <2>1
  <2>3. QED
    BY <2>2 DEF T

LEMMA TriedBeforeIsAnOrder ==
    ASSUME NEW g, NEW s, IsPart(g, s),
           NEW p \in Seq(DOMAIN s), NEW q \in Seq(DOMAIN s), NEW r \in Seq(DOMAIN s)
    PROVE  /\ ~(TriedBefore(s, p, q) /\ TriedBefore(s, q, p))
           /\ TriedBefore(s, p, q) /\ TriedBefore(s, q, r) => TriedBefore(s, p, r)
<1>1. Len(p) \in Nat /\ Len(q) \in Nat /\ Len(r) \in Nat
  OBVIOUS
<1>2. /\ \A j \in 1..Len(p) : p[j] \in DOMAIN s
      /\ \A j \in 1..Len(q) : q[j] \in DOMAIN s
      /\ \A j \in 1..Len(r) : r[j] \in DOMAIN s
  OBVIOUS
<1>3. ASSUME NEW i, NEW j, PartsAt(s, p, q, i), PartsAt(s, q, p, j)
      PROVE  FALSE
  <2>1. i \in 1..Len(p) /\ i \in 1..Len(q) /\ j \in 1..Len(p) /\ j \in 1..Len(q)
    BY <1>3 DEF PartsAt
  <2>2. CASE i < j
    <3>1. i \in 1..j - 1
      BY <1>1, <2>1, <2>2
    <3>2. p[i] = q[i]
      BY <1>3, <3>1 DEF PartsAt, AgreeUpTo
    <3>3. Sooner(s, p[i], q[i])
      BY <1>3 DEF PartsAt
    <3>4. QED
      BY <1>2, <2>1, <3>2, <3>3, SoonerIsAnOrder
  <2>3. CASE j < i
    <3>1. j \in 1..i - 1
      BY <1>1, <2>1, <2>3
    <3>2. p[j] = q[j]
      BY <1>3, <3>1 DEF PartsAt, AgreeUpTo
    <3>3. Sooner(s, q[j], p[j])
      BY <1>3 DEF PartsAt
    <3>4. QED
      BY <1>2, <2>1, <3>2, <3>3, SoonerIsAnOrder
  <2>4. CASE i = j
    <3>1. Sooner(s, p[i], q[i]) /\ Sooner(s, q[i], p[i])
      BY <1>3, <2>4 DEF PartsAt
    <3>2. QED
      BY <1>2, <2>1, <3>1, SoonerIsAnOrder
  <2>5. QED
    BY <1>1, <2>1, <2>2, <2>3, <2>4
<1>4. ASSUME NEW i, NEW j, PartsAt(s, p, q, i), PartsAt(s, q, r, j)
      PROVE  \E l : PartsAt(s, p, r, l)
  <2>1. i \in 1..Len(p) /\ i \in 1..Len(q) /\ j \in 1..Len(q) /\ j \in 1..Len(r)
    BY <1>4 DEF PartsAt
  <2>2. /\ AgreeUpTo(p, q, i - 1) /\ Sooner(s, p[i], q[i])
        /\ AgreeUpTo(q, r, j - 1) /\ Sooner(s, q[j], r[j])
    BY <1>4 DEF PartsAt
  <2>3. CASE i < j
    <3>1. i \in 1..j - 1 /\ i \in 1..Len(r) /\ \A a \in 1..i - 1 : a \in 1..j - 1
      BY <1>1, <2>1, <2>3
    <3>2. AgreeUpTo(p, r, i - 1) /\ q[i] = r[i]
      BY <2>2, <3>1 DEF AgreeUpTo
    <3>3. PartsAt(s, p, r, i)
      BY <2>1, <2>2, <3>1, <3>2 DEF PartsAt
    <3>4. QED
      BY <3>3
  <2>4. CASE j < i
    <3>1. j \in 1..i - 1 /\ j \in 1..Len(p) /\ \A a \in 1..j - 1 : a \in 1..i - 1
      BY <1>1, <2>1, <2>4
    <3>2. AgreeUpTo(p, r, j - 1) /\ p[j] = q[j]
      BY <2>2, <3>1 DEF AgreeUpTo
    <3>3. PartsAt(s, p, r, j)
      BY <2>1, <2>2, <3>1, <3>2 DEF PartsAt
    <3>4. QED
      BY <3>3
  <2>5. CASE i = j
    <3>1. AgreeUpTo(p, r, i - 1)
      BY <2>2, <2>5 DEF AgreeUpTo
    <3>2. Sooner(s, p[i], r[i])
      BY <1>2, <2>1, <2>2, <2>5, SoonerIsAnOrder
    <3>3. PartsAt(s, p, r, i)
      BY <2>1, <2>5, <3>1, <3>2 DEF PartsAt
    <3>4. QED
      BY <3>3
  <2>6. QED
    BY <1>1, <2>1, <2>3, <2>4, <2>5
<1>5. QED
  BY <1>3, <1>4, TriedBeforeParts

\* Of two prefixes one is tried before the other, or begins with it.
LEMMA TriedOrExtended ==
    ASSUME NEW g, NEW s, IsPart(g, s), NEW p \in Seq(DOMAIN s), NEW q \in Seq(DOMAIN s),
           Len(p) <= Len(q)
    PROVE  TriedBefore(s, p, q) \/ TriedBefore(s, q, p) \/ AgreeUpTo(p, q, Len(p))
<1>1. Len(p) \in Nat /\ Len(q) \in Nat /\ Len(p) <= Len(p)
  OBVIOUS
<1>2. SUFFICES ASSUME NEW j \in 1..Len(p), AgreeUpTo(p, q, j - 1), p[j] # q[j]
               PROVE  TriedBefore(s, p, q) \/ TriedBefore(s, q, p)
  BY <1>1, FirstDifference
<1>3. j \in 1..Len(q)
  BY <1>1
<1>4. p[j] \in DOMAIN s /\ q[j] \in DOMAIN s
  BY <1>3
<1>5. Sooner(s, p[j], q[j]) \/ Sooner(s, q[j], p[j])
  BY <1>2, <1>4, SoonerIsAnOrder
<1>6. AgreeUpTo(q, p, j - 1)
  BY <1>2 DEF AgreeUpTo
<1>7. PartsAt(s, p, q, j) \/ PartsAt(s, q, p, j)
  BY <1>2, <1>3, <1>5, <1>6 DEF PartsAt
<1>8. QED
  BY <1>7, TriedBeforeParts

-----------------------------------------------------------------------------
(* What the walk has passed *)

\* The call of x lies before the entry e.
Behind(s, e, x) ==
    \/ e.kind = "none"
    \/ e.kind = "call" /\ Sooner(s, x, e.op)
    \/ e.kind = "return" /\ s[x].call <= s[e.op].return

\* q goes on from p0, with x.
GoesOn(p0, q) == Len(q) > Len(p0) /\ AgreeUpTo(q, p0, Len(p0))
Through(g, s, p0, x) == {q \in Tried(g, s) : GoesOn(p0, q) /\ q[Len(p0) + 1] = x}

\* When the walk stands at e with the prefix p0, it has done with the prefixes that
\* are tried before p0 and with those that go on with an operation behind e.
Passed(g, s, p0, e) ==
    {q \in Tried(g, s) :
        TriedBefore(s, q, p0) \/ (GoesOn(p0, q) /\ Behind(s, e, q[Len(p0) + 1]))}

LEMMA TriedPrefixes ==
    ASSUME NEW g, NEW s, IsPart(g, s), NEW q \in Tried(g, s)
    PROVE  /\ q \in Seq(DOMAIN s) /\ PutOnce(q)
           /\ \A j \in 1..Len(q) : Due(s, q, j - 1, q[j])
BY DEF Tried, Grown

\* Where p0 ends, another prefix that goes on from it goes on with an open operation.
LEMMA GoesOnWithAnOpenOne ==
    ASSUME NEW g, NEW s, IsPart(g, s), NEW p0 \in Seq(DOMAIN s), NEW q \in Tried(g, s), GoesOn(p0, q)
    PROVE  /\ q[Len(p0) + 1] \in DOMAIN s \ Range(p0)
           /\ \A y \in DOMAIN s \ Range(p0) : ~Precedes(s[y], s[q[Len(p0) + 1]])
<1>1. q \in Seq(DOMAIN s) /\ PutOnce(q) /\ \A j \in 1..Len(q) : Due(s, q, j - 1, q[j])
  BY TriedPrefixes
<1>2. PICK n \in Nat : n = Len(p0)
  OBVIOUS
<1>3. n + 1 \in 1..Len(q) /\ AgreeUpTo(q, p0, n)
  BY <1>1, <1>2 DEF GoesOn
<1>4. DOMAIN p0 = 1..n
  BY <1>2
<1>5. q[n + 1] \in DOMAIN s
  BY <1>1, <1>3
<1>6. ASSUME NEW a \in 1..n, p0[a] = q[n + 1]
      PROVE  FALSE
  <2>1. a \in 1..Len(q) /\ a # n + 1
    BY <1>1, <1>3
  <2>2. q[a] = q[n + 1]
    BY <1>3, <1>6 DEF AgreeUpTo
  <2>3. QED
    BY <1>1, <1>3, <2>1, <2>2 DEF PutOnce
<1>7. ASSUME NEW y \in DOMAIN s, y \notin Range(p0)
      PROVE  ~Precedes(s[y], s[q[n + 1]])
  <2>1. \A l \in 1..n : q[l] # y
    BY <1>3, <1>4, <1>7 DEF AgreeUpTo, Range
  <2>2. Due(s, q, n, q[n + 1])
    BY <1>1, <1>2, <1>3
  <2>3. QED
    BY <2>1, <2>2 DEF Due
<1>8. q[n + 1] \notin Range(p0)
  BY <1>4, <1>6 DEF Range
<1>9. QED
  BY <1>2, <1>5, <1>7, <1>8

LEMMA TriedBeforeAppended ==
    ASSUME NEW s, NEW p0 \in Seq(DOMAIN s), NEW x \in DOMAIN s, NEW q \in Seq(DOMAIN s)
    PROVE  TriedBefore(s, q, Append(p0, x)) <=>
                TriedBefore(s, q, p0) \/ (GoesOn(p0, q) /\ Sooner(s, q[Len(p0) + 1], x))
<1> DEFINE p == Append(p0, x)
<1>1. PICK n \in Nat : n = Len(p0)
  OBVIOUS
<1>2. /\ p \in Seq(DOMAIN s) /\ Len(p) = n + 1 /\ p[n + 1] = x /\ \A j \in 1..n : p[j] = p0[j]
      /\ Len(q) \in Nat
  BY <1>1
<1> HIDE DEF p
<1>3. ASSUME NEW j \in 1..n
      PROVE  PartsAt(s, q, p, j) <=> PartsAt(s, q, p0, j)
  <2>1. \A a \in 1..j - 1 : a \in 1..n
    BY <1>1
  <2>2. p[j] = p0[j] /\ (AgreeUpTo(q, p, j - 1) <=> AgreeUpTo(q, p0, j - 1))
    BY <1>2, <2>1 DEF AgreeUpTo
  <2>3. j \in 1..Len(p) /\ j \in 1..Len(p0)
    BY <1>1, <1>2
  <2>4. QED
    BY <2>2, <2>3 DEF PartsAt
<1>4. PartsAt(s, q, p, n + 1) <=> (GoesOn(p0, q) /\ Sooner(s, q[n + 1], x))
  <2>1. AgreeUpTo(q, p, n) <=> AgreeUpTo(q, p0, n)
    BY <1>2 DEF AgreeUpTo
  <2>2. n + 1 \in 1..Len(p) /\ (n + 1 \in 1..Len(q) <=> Len(q) > n) /\ n + 1 - 1 = n
    BY <1>1, <1>2
  <2>3. QED
    BY <1>1, <1>2, <2>1, <2>2 DEF PartsAt, GoesOn
<1>5. \A j : PartsAt(s, q, p, j) => j \in 1..n \/ j = n + 1
  BY <1>1, <1>2 DEF PartsAt
<1>6. \A j : PartsAt(s, q, p0, j) => j \in 1..n
  BY <1>1 DEF PartsAt
<1>7. TriedBefore(s, q, p) <=> \E j : PartsAt(s, q, p, j)
  BY <1>2, TriedBeforeParts
<1>8. TriedBefore(s, q, p0) <=> \E j : PartsAt(s, q, p0, j)
  BY TriedBeforeParts
<1>9. QED
  BY <1>1, <1>3, <1>4, <1>5, <1>6, <1>7, <1>8 DEF p

\* A call is lifted: nothing new has been passed.
LEMMA PassedByLifting ==
    ASSUME NEW g, NEW s, IsPart(g, s), NEW p0 \in Seq(DOMAIN s), NEW x \in DOMAIN s, NEW e,
           \A y \in DOMAIN s \ Range(Append(p0, x)) : ~Behind(s, e, y)
    PROVE  Passed(g, s, Append(p0, x), e) = Passed(g, s, p0, Entry("call", x))
<1>1. Append(p0, x) \in Seq(DOMAIN s)
  OBVIOUS
<1>2. ASSUME NEW q \in Tried(g, s), GoesOn(Append(p0, x), q)
      PROVE  ~Behind(s, e, q[Len(Append(p0, x)) + 1])
  BY <1>1, <1>2, GoesOnWithAnOpenOne
<1>3. ASSUME NEW q \in Tried(g, s)
      PROVE  q \in Passed(g, s, Append(p0, x), e) <=> q \in Passed(g, s, p0, Entry("call", x))
  <2>1. q \in Seq(DOMAIN s)
    BY TriedPrefixes
  <2>2. \A y : Behind(s, Entry("call", x), y) <=> Sooner(s, y, x)
    BY DEF Behind, Entry
  <2>3. QED
    BY <1>2, <2>1, <2>2, TriedBeforeAppended DEF Passed
<1>4. QED
  BY <1>3 DEF Passed

\* The walk goes on behind the call of x.
LEMMA PassedByGoingOn ==
    ASSUME NEW g, NEW s, IsPart(g, s), NEW p0 \in Seq(DOMAIN s), NEW x \in DOMAIN s, NEW e,
           \A y \in DOMAIN s \ Range(p0) : Behind(s, e, y) <=> Sooner(s, y, x) \/ y = x
    PROVE  Passed(g, s, p0, e) = Passed(g, s, p0, Entry("call", x)) \union Through(g, s, p0, x)
<1>1. \A y : Behind(s, Entry("call", x), y) <=> Sooner(s, y, x)
  BY DEF Behind, Entry
<1>2. ASSUME NEW q \in Tried(g, s), GoesOn(p0, q)
      PROVE  Behind(s, e, q[Len(p0) + 1]) <=>
                Behind(s, Entry("call", x), q[Len(p0) + 1]) \/ q[Len(p0) + 1] = x
  BY <1>1, <1>2, GoesOnWithAnOpenOne
<1>3. QED
  BY <1>2 DEF Passed, Through

\* At a return everything that goes on has been passed.
LEMMA AllPassedAtAReturn ==
    ASSUME NEW g, NEW s, IsPart(g, s), NEW p0 \in Seq(DOMAIN s), NEW z \in DOMAIN s \ Range(p0)
    PROVE  Passed(g, s, p0, Entry("return", z)) =
                {q \in Tried(g, s) : TriedBefore(s, q, p0) \/ GoesOn(p0, q)}
<1>1. ASSUME NEW q \in Tried(g, s), GoesOn(p0, q)
      PROVE  Behind(s, Entry("return", z), q[Len(p0) + 1])
  <2>1. q[Len(p0) + 1] \in DOMAIN s /\ ~Precedes(s[z], s[q[Len(p0) + 1]])
    BY <1>1, GoesOnWithAnOpenOne
  <2>2. s[z].return \in Nat /\ s[q[Len(p0) + 1]].call \in Nat
    BY <2>1 DEF IsPart
  <2>3. QED
    BY <2>1, <2>2 DEF Behind, Entry, Precedes
<1>2. QED
  BY <1>1 DEF Passed

\* The call of x is taken back at a return: now the prefix itself has been passed.
LEMMA PassedByTakingBack ==
    ASSUME NEW g, NEW s, IsPart(g, s), NEW p0 \in Seq(DOMAIN s), NEW x \in DOMAIN s,
           Append(p0, x) \in Tried(g, s),
           NEW z \in DOMAIN s \ Range(Append(p0, x))
    PROVE  Passed(g, s, p0, Entry("call", x)) \union Through(g, s, p0, x) =
                Passed(g, s, Append(p0, x), Entry("return", z)) \union {Append(p0, x)}
<1> DEFINE p == Append(p0, x)
<1>1. PICK n \in Nat : n = Len(p0)
  OBVIOUS
<1>2. p \in Seq(DOMAIN s) /\ Len(p) = n + 1 /\ p[n + 1] = x /\ \A j \in 1..n : p[j] = p0[j]
  BY <1>1
<1>10. z \in DOMAIN s \ Range(p)
  OBVIOUS
<1>3. Passed(g, s, p, Entry("return", z)) =
            {q \in Tried(g, s) : TriedBefore(s, q, p) \/ GoesOn(p, q)}
  <2> HIDE DEF p
  <2> QED  BY <1>2, <1>10, AllPassedAtAReturn
<1>4. \A y : Behind(s, Entry("call", x), y) <=> Sooner(s, y, x)
  BY DEF Behind, Entry
<1>5. ASSUME NEW q \in Tried(g, s)
      PROVE  q \in Passed(g, s, p0, Entry("call", x)) <=> TriedBefore(s, q, p)
  <2>1. q \in Seq(DOMAIN s)
    BY TriedPrefixes
  <2>2. QED
    BY <1>4, <2>1, TriedBeforeAppended DEF Passed
<1> HIDE DEF p
<1>6. ASSUME NEW q \in Tried(g, s)
      PROVE  q \in Through(g, s, p0, x) <=> q = p \/ GoesOn(p, q)
  <2>1. q \in Seq(DOMAIN s) /\ Len(q) \in Nat
    BY TriedPrefixes
  <2>2. q \in Through(g, s, p0, x) <=> Len(q) > n /\ AgreeUpTo(q, p0, n) /\ q[n + 1] = x
    BY <1>1 DEF Through, GoesOn
  <2>3. AgreeUpTo(q, p0, n) /\ q[n + 1] = x <=> AgreeUpTo(q, p, n + 1)
    <3>1. \A a \in 1..n + 1 : a \in 1..n \/ a = n + 1
      BY <1>1
    <3>2. n + 1 \in 1..n + 1 /\ \A a \in 1..n : a \in 1..n + 1
      BY <1>1
    <3>3. QED
      BY <1>2, <3>1, <3>2 DEF AgreeUpTo
  <2>4. Len(q) > n <=> Len(q) = n + 1 \/ Len(q) > n + 1
    BY <1>1, <2>1
  <2>5. Len(q) = n + 1 /\ AgreeUpTo(q, p, n + 1) <=> q = p
    <3>1. ASSUME Len(q) = n + 1, AgreeUpTo(q, p, n + 1)
          PROVE  q = p
      BY <1>2, <2>1, <3>1 DEF AgreeUpTo
    <3>2. QED
      BY <1>2, <3>1 DEF AgreeUpTo
  <2>6. GoesOn(p, q) <=> Len(q) > n + 1 /\ AgreeUpTo(q, p, n + 1)
    BY <1>2 DEF GoesOn
  <2>7. QED
    BY <2>2, <2>3, <2>4, <2>5, <2>6
<1>7. \A q : q \in Passed(g, s, p0, Entry("call", x)) \/ q \in Through(g, s, p0, x)
                => q \in Tried(g, s)
  BY DEF Passed, Through
<1>8. p \in Tried(g, s)
  BY DEF p
<1>9. QED
  BY <1>3, <1>5, <1>6, <1>7, <1>8 DEF p

-----------------------------------------------------------------------------
(* The entries behind the walk *)

LEMMA BehindIsBefore ==
    ASSUME NEW k \in DOMAIN parts, PartsAreTimed(parts), NEW e \in Entries(k),
           NEW y \in Positions(k)
    PROVE  Behind(parts[k], e, y) <=> Before(k, Entry("call", y), e)
<1>1. /\ e.kind \in {"call", "return"} /\ e.op \in Positions(k)
  BY EntryFields
<1>2. parts[k][y].call \in Nat /\ parts[k][e.op].return \in Nat /\ parts[k][e.op].call \in Nat
  BY <1>1 DEF PartsAreTimed, Positions
<1>3. Entry("call", y).kind = "call" /\ Entry("call", y).op = y
  BY DEF Entry
<1>4. CASE e.kind = "call"
  BY <1>2, <1>3, <1>4 DEF Behind, Before, TimeOf, Sooner
<1>5. CASE e.kind = "return"
  BY <1>2, <1>3, <1>5 DEF Behind, Before, TimeOf, Sooner
<1>6. QED
  BY <1>1, <1>4, <1>5

LEMMA NothingBehindTheFirst ==
    ASSUME NEW k \in DOMAIN parts, PartsAreTimed(parts), NEW s, NEW y \in Positions(k) \ Range(s)
    PROVE  ~Behind(parts[k], Least(k, Listed(k, s)), y)
<1>1. Entry("call", y) \in Listed(k, s) /\ Listed(k, s) \in SUBSET Entries(k)
  BY ListedEntries DEF Listed
<1>2. /\ Least(k, Listed(k, s)) \in Entries(k)
      /\ ~Before(k, Entry("call", y), Least(k, Listed(k, s)))
  BY <1>1, LeastIsFirst
<1>3. QED
  BY <1>2, BehindIsBefore

LEMMA BehindTheNext ==
    ASSUME NEW k \in DOMAIN parts, PartsAreTimed(parts), NEW s,
           NEW x \in Positions(k) \ Range(s), OnlyCallsBefore(k, s, Entry("call", x)),
           NEW y \in Positions(k) \ Range(s)
    PROVE  Behind(parts[k], After(k, s, Entry("call", x)), y) <=>
                Sooner(parts[k], y, x) \/ y = x
<1> DEFINE c == Entry("call", x)
           d == Entry("call", y)
           E == {f \in Listed(k, s) : Before(k, c, f)}
           e == Least(k, E)
<1>1. /\ c \in Listed(k, s) /\ d \in Listed(k, s) /\ Listed(k, s) \in SUBSET Entries(k)
      /\ c \in Entries(k) /\ d \in Entries(k)
  BY ListedEntries DEF Listed
<1>2. Before(k, d, c) <=> Sooner(parts[k], y, x)
  <2>1. c.kind = "call" /\ c.op = x
    BY DEF Entry
  <2>2. Behind(parts[k], c, y) <=> Before(k, d, c)
    BY <1>1, BehindIsBefore
  <2>3. QED
    BY <2>1, <2>2 DEF Behind
<1>3. c = d <=> x = y
  BY DEF Entry
<1>4. Before(k, c, d) <=> ~(Before(k, d, c) \/ c = d)
  BY <1>1, BeforeIsTotal
<1>5. E # {}
  <2>1. After(k, s, c) # NoEntry
    BY WalkFindsTheReturn
  <2>2. QED
    BY <2>1 DEF After, Least
<1>6. e \in E /\ \A f \in E : ~Before(k, f, e)
  <2>1. E \in SUBSET Entries(k)
    BY <1>1
  <2>2. QED
    BY <1>5, <2>1, LeastIsFirst
<1>7. e \in Entries(k) /\ Before(k, c, e)
  BY <1>1, <1>6
<1>8. Behind(parts[k], e, y) <=> Before(k, d, e)
  BY <1>7, BehindIsBefore
<1>9. ASSUME Before(k, d, c) \/ c = d
      PROVE  Before(k, d, e)
  <2>1. /\ c.kind = "call" /\ d.kind = "call" /\ c.op = x /\ d.op = y
        /\ x \in Nat /\ y \in Nat /\ e.op \in Nat
        /\ e.kind \in {"call", "return"}
        /\ TimeOf(k, c) \in Nat /\ TimeOf(k, d) \in Nat /\ TimeOf(k, e) \in Nat
    <3>1. /\ c.kind = "call" /\ d.kind = "call" /\ c.op = x /\ d.op = y
      BY DEF Entry
    <3>2. QED
      BY <1>1, <1>7, <3>1, EntryFields
  <2> HIDE DEF c, d, e, E
  <2>2. QED
    BY <1>7, <1>9, <2>1 DEF Before
<1>10. ASSUME Before(k, d, e), Before(k, c, d)
       PROVE  FALSE
  BY <1>1, <1>6, <1>10
<1>11. QED
  BY <1>2, <1>3, <1>4, <1>8, <1>9, <1>10 DEF After

-----------------------------------------------------------------------------
(* The prefixes that are reported *)

\* r is the first of the longest of the prefixes D with x.
IsFirst(s, D, x, r) ==
    /\ r \in D /\ x \in Range(r)
    /\ \A q \in D : x \in Range(q) =>
            Len(q) < Len(r) \/ (Len(q) = Len(r) /\ (q = r \/ TriedBefore(s, r, q)))

\* lg has what is to be reported when the prefixes D have been tried.
Reports(s, D, lg) ==
    \A x \in DOMAIN s :
        (lg[x] = <<>> /\ \A q \in D : x \notin Range(q)) \/ IsFirst(s, D, x, lg[x])

\* The last prefix of those tried so far is noted where it is longer.
LEMMA ReportsOneMore ==
    ASSUME NEW s, NEW D \in SUBSET Seq(DOMAIN s), NEW lg, Reports(s, D, lg),
           NEW p \in Seq(DOMAIN s), \A q \in D : TriedBefore(s, q, p) \/ Len(q) > Len(p),
           NEW noted, \A x \in DOMAIN s :
                noted[x] = IF x \in Range(p) /\ Len(p) > Len(lg[x]) THEN p ELSE lg[x]
    PROVE  Reports(s, D \union {p}, noted)
<1>1. ASSUME NEW x \in DOMAIN s, lg[x] = <<>>, \A q \in D : x \notin Range(q)
      PROVE  \/ noted[x] = <<>> /\ \A q \in D \union {p} : x \notin Range(q)
             \/ IsFirst(s, D \union {p}, x, noted[x])
  <2>1. CASE x \notin Range(p)
    BY <1>1, <2>1
  <2>2. CASE x \in Range(p)
    <3>1. Len(p) > 0 /\ Len(<<>>) = 0
      BY <2>2 DEF Range
    <3>2. noted[x] = p
      BY <1>1, <2>2, <3>1
    <3>3. QED
      BY <1>1, <2>2, <3>2 DEF IsFirst
  <2>3. QED
    BY <2>1, <2>2
<1>2. ASSUME NEW x \in DOMAIN s, IsFirst(s, D, x, lg[x])
      PROVE  IsFirst(s, D \union {p}, x, noted[x])
  <2> DEFINE r == lg[x]
  <2>1. r \in D /\ x \in Range(r) /\ Len(r) \in Nat /\ Len(p) \in Nat
    BY <1>2 DEF IsFirst
  <2>2. ASSUME NEW q \in D, x \in Range(q)
        PROVE  /\ Len(q) \in Nat
               /\ Len(q) < Len(r) \/ (Len(q) = Len(r) /\ (q = r \/ TriedBefore(s, r, q)))
    BY <1>2, <2>2 DEF IsFirst
  <2>3. noted[x] = IF x \in Range(p) /\ Len(p) > Len(r) THEN p ELSE r
    OBVIOUS
  <2> HIDE DEF r
  <2>4. CASE x \in Range(p) /\ Len(p) > Len(r)
    <3>1. \A q \in D : x \in Range(q) => Len(q) < Len(p)
      BY <2>1, <2>2, <2>4
    <3>2. noted[x] = p
      BY <2>3, <2>4
    <3>3. QED
      BY <2>4, <3>1, <3>2 DEF IsFirst
  <2>5. CASE x \in Range(p) /\ ~(Len(p) > Len(r))
    <3>1. TriedBefore(s, r, p) \/ Len(r) > Len(p)
      BY <2>1
    <3>2. Len(p) < Len(r) \/ (Len(p) = Len(r) /\ TriedBefore(s, r, p))
      BY <2>1, <2>5, <3>1
    <3>3. noted[x] = r
      BY <2>3, <2>5
    <3>4. QED
      BY <2>1, <2>2, <3>2, <3>3 DEF IsFirst
  <2>6. CASE x \notin Range(p)
    <3>1. noted[x] = r
      BY <2>3, <2>6
    <3>2. QED
      BY <2>1, <2>2, <2>6, <3>1 DEF IsFirst
  <2>7. QED
    BY <2>4, <2>5, <2>6
<1>3. QED
  BY <1>1, <1>2 DEF Reports

\* Prefixes of which others have all operations, and are longer or tried before,
\* change no report.
LEMMA ReportsNoMore ==
    ASSUME NEW g, NEW s, IsPart(g, s), NEW D \in SUBSET Seq(DOMAIN s), NEW lg, Reports(s, D, lg),
           NEW D2 \in SUBSET Seq(DOMAIN s), D \subseteq D2,
           \A q \in D2 \ D : \E p \in D :
                /\ Range(q) \subseteq Range(p)
                /\ Len(q) < Len(p) \/ (Len(q) = Len(p) /\ TriedBefore(s, p, q))
    PROVE  Reports(s, D2, lg)
<1>1. ASSUME NEW x \in DOMAIN s, lg[x] = <<>>, \A q \in D : x \notin Range(q)
      PROVE  \A q \in D2 : x \notin Range(q)
  BY <1>1
<1>2. ASSUME NEW x \in DOMAIN s, IsFirst(s, D, x, lg[x])
      PROVE  IsFirst(s, D2, x, lg[x])
  <2> DEFINE r == lg[x]
  <2>1. r \in D /\ r \in D2 /\ x \in Range(r)
    BY <1>2 DEF IsFirst
  <2>2. \A q \in D : x \in Range(q) =>
            Len(q) < Len(r) \/ (Len(q) = Len(r) /\ (q = r \/ TriedBefore(s, r, q)))
    BY <1>2 DEF IsFirst
  <2> HIDE DEF r
  <2>3. ASSUME NEW q \in D2 \ D, x \in Range(q)
        PROVE  Len(q) < Len(r) \/ (Len(q) = Len(r) /\ TriedBefore(s, r, q))
    <3>1. PICK p \in D :
            /\ Range(q) \subseteq Range(p)
            /\ Len(q) < Len(p) \/ (Len(q) = Len(p) /\ TriedBefore(s, p, q))
      OBVIOUS
    <3>2. Len(p) < Len(r) \/ (Len(p) = Len(r) /\ (p = r \/ TriedBefore(s, r, p)))
      BY <2>2, <2>3, <3>1
    <3>3. /\ Len(p) \in Nat /\ Len(q) \in Nat /\ Len(r) \in Nat
          /\ p \in Seq(DOMAIN s) /\ q \in Seq(DOMAIN s) /\ r \in Seq(DOMAIN s)
      BY <2>1
    <3>4. TriedBefore(s, r, p) /\ TriedBefore(s, p, q) => TriedBefore(s, r, q)
      BY <3>3, TriedBeforeIsAnOrder
    <3>5. QED
      BY <3>1, <3>2, <3>3, <3>4
  <2>4. QED
    BY <2>1, <2>2, <2>3 DEF IsFirst, r
<1>3. QED
  BY <1>1, <1>2 DEF Reports

\* There is one first of the longest.
LEMMA FirstIsReported ==
    ASSUME NEW g, NEW s, IsPart(g, s), NEW D \in SUBSET Seq(DOMAIN s), NEW x, NEW r,
           IsFirst(s, D, x, r)
    PROVE  LET with == {p \in D : x \in Range(p)}
               longestOnes == {p \in with : Len(p) = Max({Len(q) : q \in with})}
           IN  with # {} /\ FirstTried(s, longestOnes) = r
<1> DEFINE with == {p \in D : x \in Range(p)}
           lens == {Len(q) : q \in with}
           firsts == {p \in with : Len(p) = Max(lens)}
<1>1. r \in with /\ r \in Seq(DOMAIN s) /\ Len(r) \in Nat
  BY DEF IsFirst
<1>2. \A q \in with : /\ Len(q) \in Nat /\ q \in Seq(DOMAIN s)
                      /\ Len(q) < Len(r) \/ (Len(q) = Len(r) /\ (q = r \/ TriedBefore(s, r, q)))
  BY DEF IsFirst
<1> HIDE DEF with
<1>3. Max(lens) = Len(r)
  <2>1. Len(r) \in lens /\ \A y \in lens : y \in Nat /\ Len(r) >= y
    BY <1>1, <1>2
  <2> HIDE DEF lens
  <2>2. \A y \in lens : (\A z \in lens : y >= z) => y = Len(r)
    BY <1>1, <2>1
  <2>3. QED
    BY <2>1, <2>2 DEF Max
<1>4. r \in firsts /\ \A q \in firsts : q \in Seq(DOMAIN s) /\ (q = r \/ TriedBefore(s, r, q))
  <2> HIDE DEF lens
  <2> QED  BY <1>1, <1>2, <1>3
<1> HIDE DEF firsts
<1>5. \A q \in firsts : (\A p \in firsts : q = p \/ TriedBefore(s, q, p)) => q = r
  BY <1>1, <1>4, TriedBeforeIsAnOrder
<1>6. \A q \in firsts : r = q \/ TriedBefore(s, r, q)
  BY <1>4
<1>7. FirstTried(s, firsts) = r
  BY <1>4, <1>5, <1>6 DEF FirstTried
<1>8. QED
  BY <1>1, <1>7 DEF with, firsts

LEMMA ReportsThem ==
    ASSUME NEW g, NEW s, IsPart(g, s), NEW D \in SUBSET Seq(DOMAIN s), NEW lg,
           DOMAIN lg = DOMAIN s, Reports(s, D, lg)
    PROVE  Range(lg) \ {<<>>} = Reported(s, D)
<1> DEFINE With(x) == {p \in D : x \in Range(p)}
           First(with) == FirstTried(s, {p \in with : Len(p) = Max({Len(q) : q \in with})})
           withs == {With(x) : x \in DOMAIN s} \ {{}}
<1>1. Reported(s, D) = {First(with) : with \in withs}
  BY Zenon DEF Reported
<1>2. ASSUME NEW x \in DOMAIN s
      PROVE  IF With(x) = {} THEN lg[x] = <<>> ELSE lg[x] = First(With(x)) /\ lg[x] # <<>>
  <2>1. CASE lg[x] = <<>> /\ \A q \in D : x \notin Range(q)
    BY <2>1
  <2>2. CASE IsFirst(s, D, x, lg[x])
    <3>1. With(x) # {} /\ First(With(x)) = lg[x]
      BY <2>2, FirstIsReported
    <3>2. lg[x] # <<>>
      BY <2>2 DEF IsFirst, Range
    <3>3. QED
      BY <3>1, <3>2
  <2>3. QED
    BY <2>1, <2>2 DEF Reports
<1> HIDE DEF First, With
<1>3. Range(lg) = {lg[x] : x \in DOMAIN s}
  BY DEF Range
<1>4. ASSUME NEW r \in Range(lg) \ {<<>>}
      PROVE  r \in {First(with) : with \in withs}
  <2>1. PICK x \in DOMAIN s : r = lg[x]
    BY <1>3
  <2>2. With(x) # {} /\ r = First(With(x))
    BY <1>2, <2>1
  <2>3. QED
    BY <2>2
<1>5. ASSUME NEW with \in withs
      PROVE  First(with) \in Range(lg) \ {<<>>}
  <2>1. PICK x \in DOMAIN s : with = With(x) /\ With(x) # {}
    OBVIOUS
  <2>2. lg[x] = First(with) /\ lg[x] # <<>>
    BY <1>2, <2>1
  <2>3. QED
    BY <1>3, <2>2
<1>6. QED
  BY <1>1, <1>4, <1>5

-----------------------------------------------------------------------------
(* How many operations a prefix has *)

LEMMA PutOnceCounts ==
    ASSUME NEW g, NEW s, IsPart(g, s), NEW q \in Seq(DOMAIN s), PutOnce(q)
    PROVE  /\ Len(q) = Cardinality(Range(q)) /\ Len(q) <= Len(s)
           /\ Len(q) = Len(s) => Range(q) = DOMAIN s
<1>1. PICK n \in Nat : n = Len(q)
  OBVIOUS
<1>2. PICK m \in Nat : m = Len(s) /\ DOMAIN s = 1..m
  BY DEF IsPart
<1>3. DOMAIN q = 1..n /\ q \in [1..n -> Range(q)] /\ Range(q) \in SUBSET (1..m)
  BY <1>1, <1>2 DEF Range
<1>4. q \in Bijection(1..n, Range(q))
  <2>1. q \in Injection(1..n, Range(q))
    BY <1>1, <1>3 DEF Injection, IsInjective, PutOnce
  <2>2. q \in Surjection(1..n, Range(q))
    BY <1>3 DEF Surjection, Range
  <2>3. QED
    BY <2>1, <2>2 DEF Bijection
<1>5. IsFiniteSet(1..n) /\ Cardinality(1..n) = n /\ IsFiniteSet(1..m) /\ Cardinality(1..m) = m
  BY FS_Interval
<1>6. IsFiniteSet(Range(q)) /\ Cardinality(Range(q)) = n
  BY <1>4, <1>5, FS_Bijection DEF ExistsBijection
<1>7. /\ Cardinality(Range(q)) <= m
      /\ m = Cardinality(Range(q)) => 1..m = Range(q)
  BY <1>3, <1>5, FS_Subset
<1>8. QED
  BY <1>1, <1>2, <1>6, <1>7

LEMMA NotFull ==
    ASSUME NEW g, NEW s, IsPart(g, s), NEW q \in Seq(DOMAIN s), PutOnce(q),
           NEW z \in DOMAIN s \ Range(q)
    PROVE  Len(q) < Len(s)
<1>1. Len(q) \in Nat /\ Len(s) \in Nat
  BY DEF IsPart
<1>2. QED
  BY <1>1, PutOnceCounts

-----------------------------------------------------------------------------
(* What holds of a part while it is searched *)

NoFull(s, D) == \A p \in D : Len(p) < Len(s)

\* What is in the cache comes from a prefix that has been passed, or that the current
\* one begins with.
Cached(g, s, D, p0, C) ==
    \A c \in C : \E p, st :
        /\ Grown(g, s, p, st) /\ p # <<>>
        /\ c = <<Range(p), st[Len(p) + 1]>>
        /\ p \in D \/ (Len(p) <= Len(p0) /\ AgreeUpTo(p, p0, Len(p)))

PartTried(g, s, p0, e, C, lg) ==
    /\ Reports(s, Passed(g, s, p0, e), lg)
    /\ NoFull(s, Passed(g, s, p0, e))
    /\ Cached(g, s, Passed(g, s, p0, e), p0, C)

LEMMA NothingTried ==
    ASSUME NEW g, NEW s, IsPart(g, s), NEW e, \A y \in DOMAIN s : ~Behind(s, e, y),
           NEW lg, \A x \in DOMAIN s : lg[x] = <<>>
    PROVE  PartTried(g, s, <<>>, e, {}, lg)
<1>1. <<>> \in Seq(DOMAIN s) /\ Len(<<>>) = 0
  OBVIOUS
<1>2. ASSUME NEW q \in Tried(g, s)
      PROVE  q \notin Passed(g, s, <<>>, e)
  <2>1. q \in Seq(DOMAIN s)
    BY TriedPrefixes
  <2>2. ~TriedBefore(s, q, <<>>)
    <3>1. \A j : j \notin 1..Len(<<>>)
      BY <1>1
    <3>2. \A j : ~PartsAt(s, q, <<>>, j)
      BY <3>1 DEF PartsAt
    <3>3. QED
      BY <1>1, <2>1, <3>2, TriedBeforeParts
  <2>3. GoesOn(<<>>, q) => q[1] \in DOMAIN s
    BY <1>1, <2>1 DEF GoesOn
  <2>4. GoesOn(<<>>, q) => ~Behind(s, e, q[Len(<<>>) + 1])
    BY <1>1, <2>3
  <2>5. QED
    BY <2>2, <2>4 DEF Passed
<1>3. Passed(g, s, <<>>, e) = {}
  BY <1>2 DEF Passed
<1>4. QED
  BY <1>3 DEF PartTried, Reports, NoFull, Cached

LEMMA PrefixIsTried ==
    ASSUME NEW g, NEW s, NEW p, NEW st, Grown(g, s, p, st)
    PROVE  p \in Tried(g, s) /\ p \in Seq(DOMAIN s) /\ Len(p) \in Nat
BY DEF Tried, Grown

LEMMA RangeOfAppend ==
    ASSUME NEW R, NEW p \in Seq(R), NEW x \in R
    PROVE  Range(Append(p, x)) = Range(p) \union {x}
<1>1. PICK n \in Nat : n = Len(p)
  OBVIOUS
<1>2. DOMAIN Append(p, x) = 1..n + 1 /\ DOMAIN p = 1..n
  BY <1>1
<1>3. Append(p, x)[n + 1] = x /\ \A j \in 1..n : Append(p, x)[j] = p[j]
  BY <1>1
<1>4. \A j \in 1..n + 1 : j \in 1..n \/ j = n + 1
  BY <1>1
<1>5. n + 1 \in 1..n + 1 /\ \A j \in 1..n : j \in 1..n + 1
  BY <1>1
<1>6. ASSUME NEW y
      PROVE  y \in Range(Append(p, x)) <=> y \in Range(p) \/ y = x
  <2>1. y \in Range(Append(p, x)) <=> \E j \in 1..n + 1 : Append(p, x)[j] = y
    BY <1>2 DEF Range
  <2>2. y \in Range(p) <=> \E j \in 1..n : p[j] = y
    BY <1>2 DEF Range
  <2>3. QED
    BY <1>3, <1>4, <1>5, <2>1, <2>2
<1>7. QED
  BY <1>6

LEMMA TriedByLifting ==
    ASSUME NEW g, NEW s, IsPart(g, s), NEW p0, NEW st, Grown(g, s, p0, st),
           NEW x \in DOMAIN s, NEW su, Grown(g, s, Append(p0, x), su),
           NEW e, \A y \in DOMAIN s \ Range(Append(p0, x)) : ~Behind(s, e, y),
           NEW C, NEW lg, PartTried(g, s, p0, Entry("call", x), C, lg)
    PROVE  PartTried(g, s, Append(p0, x), e,
                     C \union {<<Range(p0) \union {x}, su[Len(p0) + 2]>>}, lg)
<1> DEFINE p == Append(p0, x)
           D == Passed(g, s, p0, Entry("call", x))
           c0 == <<Range(p0) \union {x}, su[Len(p0) + 2]>>
<1>1. PICK n \in Nat : n = Len(p0)
  BY PrefixIsTried
<1>2. /\ p0 \in Seq(DOMAIN s) /\ p \in Seq(DOMAIN s) /\ Len(p) = n + 1
      /\ \A j \in 1..n : p[j] = p0[j]
  BY <1>1, PrefixIsTried
<1>3. Passed(g, s, p, e) = D
  BY <1>2, PassedByLifting
<1>4. Range(p) = Range(p0) \union {x}
  BY <1>2, RangeOfAppend
<1>5. c0 = <<Range(p), su[Len(p) + 1]>> /\ p # <<>> /\ Grown(g, s, p, su)
      /\ Len(p) <= Len(p) /\ AgreeUpTo(p, p, Len(p))
  <2>1. Len(p0) + 2 = Len(p) + 1
    BY <1>1, <1>2
  <2>2. Len(<<>>) = 0
    OBVIOUS
  <2> HIDE DEF p
  <2>3. p # <<>> /\ Len(p) <= Len(p)
    BY <1>1, <1>2, <2>2
  <2>4. c0 = <<Range(p), su[Len(p) + 1]>>
    BY <1>4, <2>1
  <2>5. QED
    BY <2>3, <2>4 DEF p, AgreeUpTo
<1> HIDE DEF p, D, c0
<1>6. ASSUME NEW q, Len(q) <= Len(p0), AgreeUpTo(q, p0, Len(q)), q \in Seq(DOMAIN s)
      PROVE  Len(q) <= Len(p) /\ AgreeUpTo(q, p, Len(q))
  <2>1. Len(q) \in Nat /\ \A j \in 1..Len(q) : j \in 1..n
    BY <1>1, <1>6
  <2>2. QED
    BY <1>1, <1>2, <1>6, <2>1 DEF AgreeUpTo
<1>7. Cached(g, s, D, p0, C)
  BY DEF PartTried, D
<1>8. Cached(g, s, D, p, C \union {c0})
  <2>1. ASSUME NEW c \in C
        PROVE  \E q, sv : /\ Grown(g, s, q, sv) /\ q # <<>>
                          /\ c = <<Range(q), sv[Len(q) + 1]>>
                          /\ q \in D \/ (Len(q) <= Len(p) /\ AgreeUpTo(q, p, Len(q)))
    <3>1. PICK q, sv : /\ Grown(g, s, q, sv) /\ q # <<>>
                       /\ c = <<Range(q), sv[Len(q) + 1]>>
                       /\ q \in D \/ (Len(q) <= Len(p0) /\ AgreeUpTo(q, p0, Len(q)))
      BY <1>7, Zenon DEF Cached
    <3>2. q \in Seq(DOMAIN s)
      BY <3>1, PrefixIsTried
    <3>3. QED
      BY <1>6, <3>1, <3>2
  <2>2. QED
    BY <1>5, <2>1, Zenon DEF Cached
<1>9. QED
  BY <1>3, <1>8 DEF PartTried, p, D, c0

\* A prefix that the model does not allow.
LEMMA NothingThrough ==
    ASSUME NEW g, NEW s, IsPart(g, s), NEW p0, NEW st, Grown(g, s, p0, st),
           NEW x \in DOMAIN s, ~Legal(s[x], st[Len(p0) + 1])
    PROVE  Through(g, s, p0, x) = {}
<1>1. PICK n \in Nat : n = Len(p0)
  BY PrefixIsTried
<1>2. ASSUME NEW q \in Through(g, s, p0, x)
      PROVE  FALSE
  <2>1. PICK sv : Grown(g, s, q, sv)
    BY <1>2 DEF Through, Tried
  <2>2. n \in 0..Len(q) /\ n <= Len(p0) /\ AgreeUpTo(q, p0, n) /\ q[n + 1] = x /\ n + 1 \in 1..Len(q)
    <3>1. GoesOn(p0, q) /\ q[n + 1] = x /\ Len(q) \in Nat
      BY <1>1, <1>2, <2>1, PrefixIsTried DEF Through
    <3>2. QED
      BY <1>1, <3>1 DEF GoesOn
  <2>3. sv[n + 1] = st[n + 1]
    BY <2>1, <2>2, Determined
  <2>4. Legal(s[x], sv[n + 1])
    BY <2>1, <2>2 DEF Grown
  <2>5. QED
    BY <1>1, <2>3, <2>4
<1>3. QED
  BY <1>2

\* Where the cache has what x leads to, every prefix that goes on with x has another
\* that has been passed, with the same operations and tried before it.
LEMMA SeenIsSubsumed ==
    ASSUME NEW g, NEW s, IsPart(g, s), NEW p0, NEW st, Grown(g, s, p0, st),
           NEW x \in DOMAIN s \ Range(p0), NEW C,
           Cached(g, s, Passed(g, s, p0, Entry("call", x)), p0, C),
           <<Range(p0) \union {x}, Apply(g, s[x], st[Len(p0) + 1])>> \in C,
           NEW q \in Through(g, s, p0, x)
    PROVE  \E r \in Passed(g, s, p0, Entry("call", x)) :
                Range(r) = Range(q) /\ Len(r) = Len(q) /\ TriedBefore(s, r, q)
<1> DEFINE D == Passed(g, s, p0, Entry("call", x))
           c == <<Range(p0) \union {x}, Apply(g, s[x], st[Len(p0) + 1])>>
           a == Append(p0, x)
<1>1. PICK n \in Nat : n = Len(p0)
  BY PrefixIsTried
<1>2. PICK p, su : /\ Grown(g, s, p, su) /\ p # <<>>
                   /\ c = <<Range(p), su[Len(p) + 1]>>
                   /\ p \in D \/ (Len(p) <= Len(p0) /\ AgreeUpTo(p, p0, Len(p)))
  BY Zenon DEF Cached
<1>3. PICK sv : Grown(g, s, q, sv)
  BY DEF Through, Tried
<1>4. /\ p0 \in Seq(DOMAIN s) /\ p \in Seq(DOMAIN s) /\ q \in Seq(DOMAIN s)
      /\ Len(p) \in Nat /\ Len(q) \in Nat
      /\ PutOnce(p0) /\ PutOnce(p)
  <2>1. PutOnce(p0) /\ PutOnce(p)
    BY <1>2 DEF Grown
  <2>2. QED
    BY <1>2, <1>3, <2>1, PrefixIsTried
<1>5. a \in Seq(DOMAIN s) /\ Len(a) = n + 1 /\ a[n + 1] = x /\ \A j \in 1..n : a[j] = p0[j]
  BY <1>1, <1>4
<1>6. PutOnce(a) /\ Range(a) = Range(p0) \union {x}
  BY <1>4, PutOnceMore, RangeOfAppend
<1>7. Range(p) = Range(a) /\ su[Len(p) + 1] = Apply(g, s[x], st[n + 1])
  BY <1>1, <1>2, <1>6
<1> HIDE DEF a, c
<1>8. Len(p) = n + 1
  BY <1>4, <1>5, <1>6, <1>7, PutOnceCounts
<1>9. /\ Len(q) >= n + 1 /\ AgreeUpTo(q, p0, n) /\ q[n + 1] = x /\ q \in Tried(g, s)
      /\ n + 1 \in 1..Len(q) /\ n \in 0..Len(q)
  BY <1>1, <1>4 DEF Through, GoesOn
<1>10. p \in D
  BY <1>1, <1>2, <1>8
<1>11. sv[n + 2] = Apply(g, s[x], st[n + 1])
  <2>1. sv[n + 1] = st[n + 1]
    <3>1. n <= Len(p0)
      BY <1>1
    <3>2. QED
      BY <1>3, <1>9, <3>1, Determined
  <2>2. sv[n + 1 + 1] = Apply(g, s[q[n + 1]], sv[n + 1])
    BY <1>3, <1>9 DEF Grown
  <2>3. n + 1 + 1 = n + 2
    BY <1>1
  <2>4. QED
    BY <1>9, <2>1, <2>2, <2>3
<1>12. FirstOf(p, n + 1) = FirstOf(q, n + 1)
  <2>1. DOMAIN p = 1..n + 1 /\ DOMAIN a = 1..n + 1
    BY <1>4, <1>5, <1>8
  <2>2. Range(p) = {p[j] : j \in 1..n + 1} /\ Range(a) = {a[j] : j \in 1..n + 1}
    BY <2>1, Zenon DEF Range
  <2>3. \A j \in 1..n + 1 : a[j] = q[j]
    <3>1. \A j \in 1..n + 1 : j \in 1..n \/ j = n + 1
      BY <1>1
    <3>2. \A j \in 1..n : q[j] = p0[j]
      BY <1>9 DEF AgreeUpTo
    <3>3. QED
      BY <1>5, <1>9, <3>1, <3>2
  <2>4. {a[j] : j \in 1..n + 1} = {q[j] : j \in 1..n + 1}
    BY <2>3
  <2>5. QED
    BY <1>7, <2>2, <2>4, Zenon DEF FirstOf
<1> DEFINE r == Spliced(p, q)
<1>13. r \in Tried(g, s) /\ Len(r) = Len(q) /\ AgreeUpTo(r, p, n + 1) /\ Range(r) = Range(q)
  <2>1. Len(p) <= Len(q) /\ su[Len(p) + 1] = sv[Len(p) + 1]
    <3>1. n + 1 + 1 = n + 2
      BY <1>1
    <3>2. QED
      BY <1>7, <1>8, <1>9, <1>11, <3>1
  <2>2. FirstOf(p, Len(p)) = FirstOf(q, Len(p))
    BY <1>8, <1>12
  <2>3. /\ Spliced(p, q) \in Tried(g, s) /\ Len(Spliced(p, q)) = Len(q)
        /\ AgreeUpTo(Spliced(p, q), p, Len(p))
        /\ Range(Spliced(p, q)) = Range(q)
    BY <1>2, <1>3, <2>1, <2>2, GoesOnAsWell
  <2>4. QED
    BY <1>8, <2>3
<1> HIDE DEF r
<1>14. r \in Seq(DOMAIN s)
  BY <1>13, TriedPrefixes
<1>15. ASSUME NEW j, PartsAt(s, p, p0, j)
       PROVE  PartsAt(s, r, p0, j) /\ PartsAt(s, r, q, j)
  <2>1. /\ j \in 1..n /\ j \in 1..n + 1 /\ j \in 1..Len(q) /\ j \in 1..Len(p0)
        /\ \A b \in 1..j - 1 : b \in 1..n /\ b \in 1..n + 1
    BY <1>1, <1>9, <1>15 DEF PartsAt
  <2>2. r[j] = p[j] /\ q[j] = p0[j]
    BY <1>9, <1>13, <2>1 DEF AgreeUpTo
  <2>3. \A b \in 1..j - 1 : r[b] = p[b] /\ p[b] = p0[b] /\ q[b] = p0[b]
    BY <1>9, <1>13, <1>15, <2>1 DEF AgreeUpTo, PartsAt
  <2>4. QED
    BY <1>13, <1>15, <2>1, <2>2, <2>3 DEF PartsAt, AgreeUpTo
<1>16. ASSUME GoesOn(p0, p), Sooner(s, p[n + 1], x)
       PROVE  GoesOn(p0, r) /\ Sooner(s, r[n + 1], x) /\ PartsAt(s, r, q, n + 1)
  <2>1. n + 1 \in 1..n + 1 /\ n + 1 - 1 = n /\ \A b \in 1..n : b \in 1..n + 1
    BY <1>1
  <2>2. r[n + 1] = p[n + 1] /\ AgreeUpTo(r, p0, n) /\ AgreeUpTo(r, q, n)
    BY <1>1, <1>9, <1>13, <1>16, <2>1 DEF AgreeUpTo, GoesOn
  <2>3. Len(r) > n /\ n + 1 \in 1..Len(r)
    BY <1>1, <1>4, <1>9, <1>13
  <2>4. QED
    BY <1>1, <1>9, <1>16, <2>1, <2>2, <2>3 DEF GoesOn, PartsAt
<1>17. \A y : Behind(s, Entry("call", x), y) <=> Sooner(s, y, x)
  BY DEF Behind, Entry
<1>18. CASE TriedBefore(s, p, p0)
  <2>1. PICK j : PartsAt(s, p, p0, j)
    BY <1>4, <1>18, TriedBeforeParts
  <2>2. TriedBefore(s, r, p0) /\ TriedBefore(s, r, q)
    BY <1>4, <1>14, <1>15, <2>1, TriedBeforeParts
  <2>3. r \in D
    BY <1>13, <2>2 DEF Passed
  <2>4. QED
    BY <1>13, <2>2, <2>3
<1>19. CASE GoesOn(p0, p) /\ Behind(s, Entry("call", x), p[n + 1])
  <2>1. GoesOn(p0, r) /\ Sooner(s, r[n + 1], x) /\ PartsAt(s, r, q, n + 1)
    BY <1>16, <1>17, <1>19
  <2>2. TriedBefore(s, r, q)
    BY <1>4, <1>14, <2>1, TriedBeforeParts
  <2>3. r \in D
    BY <1>1, <1>13, <1>17, <2>1 DEF Passed
  <2>4. QED
    BY <1>13, <2>2, <2>3
<1>20. QED
  BY <1>1, <1>10, <1>18, <1>19 DEF Passed

LEMMA PassedAreTried ==
    ASSUME NEW g, NEW s, IsPart(g, s), NEW p0, NEW e
    PROVE  /\ Passed(g, s, p0, e) \subseteq Tried(g, s)
           /\ Passed(g, s, p0, e) \in SUBSET Seq(DOMAIN s)
BY TriedPrefixes DEF Passed

\* The walk goes on behind the call of x, for the model does not allow x or the cache
\* has what it leads to.
LEMMA TriedByGoingOn ==
    ASSUME NEW g, NEW s, IsPart(g, s), NEW p0, NEW st, Grown(g, s, p0, st),
           NEW x \in DOMAIN s \ Range(p0), NEW e,
           \A y \in DOMAIN s \ Range(p0) : Behind(s, e, y) <=> Sooner(s, y, x) \/ y = x,
           NEW C, NEW lg, PartTried(g, s, p0, Entry("call", x), C, lg),
           \/ ~Legal(s[x], st[Len(p0) + 1])
           \/ <<Range(p0) \union {x}, Apply(g, s[x], st[Len(p0) + 1])>> \in C
    PROVE  PartTried(g, s, p0, e, C, lg)
<1> DEFINE D == Passed(g, s, p0, Entry("call", x))
           D2 == Passed(g, s, p0, e)
<1>1. p0 \in Seq(DOMAIN s)
  BY PrefixIsTried
<1>2. D2 = D \union Through(g, s, p0, x)
  BY <1>1, PassedByGoingOn
<1>3. Reports(s, D, lg) /\ NoFull(s, D) /\ Cached(g, s, D, p0, C)
  BY DEF PartTried
<1>4. ASSUME NEW q \in Through(g, s, p0, x)
      PROVE  \E r \in D : Range(r) = Range(q) /\ Len(r) = Len(q) /\ TriedBefore(s, r, q)
  <2>1. CASE ~Legal(s[x], st[Len(p0) + 1])
    BY <2>1, NothingThrough
  <2>2. CASE <<Range(p0) \union {x}, Apply(g, s[x], st[Len(p0) + 1])>> \in C
    BY <1>3, <2>2, SeenIsSubsumed
  <2>3. QED
    BY <2>1, <2>2
<1>5. D \in SUBSET Seq(DOMAIN s) /\ D2 \in SUBSET Seq(DOMAIN s)
  BY PassedAreTried
<1> HIDE DEF D, D2
<1>6. D \subseteq D2
  BY <1>2
<1>7. ASSUME NEW q \in D2 \ D
      PROVE  \E r \in D : Range(r) = Range(q) /\ Len(r) = Len(q) /\ TriedBefore(s, r, q)
  BY <1>2, <1>4
<1>8. Reports(s, D2, lg)
  <2>1. \A q \in D2 \ D : \E r \in D :
            /\ Range(q) \subseteq Range(r)
            /\ Len(q) < Len(r) \/ (Len(q) = Len(r) /\ TriedBefore(s, r, q))
    <3>1. SUFFICES ASSUME NEW q \in D2 \ D
                   PROVE  \E r \in D : Range(q) \subseteq Range(r)
                                /\ (Len(q) < Len(r) \/ (Len(q) = Len(r) /\ TriedBefore(s, r, q)))
      OBVIOUS
    <3>2. PICK r \in D : Range(r) = Range(q) /\ Len(r) = Len(q) /\ TriedBefore(s, r, q)
      BY <1>7
    <3>3. QED
      BY <3>2
  <2>2. QED
    BY <1>3, <1>5, <1>6, <2>1, ReportsNoMore
<1>9. NoFull(s, D2)
  <2>1. ASSUME NEW q \in D2
        PROVE  Len(q) < Len(s)
    <3>1. CASE q \in D
      BY <1>3, <3>1 DEF NoFull
    <3>2. CASE q \notin D
      <4>1. PICK r \in D : Len(r) = Len(q)
        BY <1>7, <3>2
      <4>2. QED
        BY <1>3, <4>1 DEF NoFull
    <3>3. QED
      BY <3>1, <3>2
  <2>2. QED
    BY <2>1 DEF NoFull
<1>10. Cached(g, s, D2, p0, C)
  BY <1>3, <1>6, Zenon DEF Cached
<1>11. QED
  BY <1>8, <1>9, <1>10 DEF PartTried, D2

\* The call of x is taken back at the return of z.
LEMMA TriedByTakingBack ==
    ASSUME NEW g, NEW s, IsPart(g, s), NEW p0 \in Seq(DOMAIN s), NEW x \in DOMAIN s, NEW st,
           Grown(g, s, Append(p0, x), st),
           NEW z \in DOMAIN s \ Range(Append(p0, x)), NEW e,
           \A y \in DOMAIN s \ Range(p0) : Behind(s, e, y) <=> Sooner(s, y, x) \/ y = x,
           NEW C, NEW lg, PartTried(g, s, Append(p0, x), Entry("return", z), C, lg),
           NEW noted, \A y \in DOMAIN s :
                noted[y] = IF y \in Range(Append(p0, x)) /\ Len(Append(p0, x)) > Len(lg[y])
                           THEN Append(p0, x) ELSE lg[y]
    PROVE  PartTried(g, s, p0, e, C, noted)
<1> DEFINE p == Append(p0, x)
           D == Passed(g, s, p, Entry("return", z))
           D2 == Passed(g, s, p0, e)
<1>1. p \in Tried(g, s) /\ p \in Seq(DOMAIN s) /\ PutOnce(p)
  BY PrefixIsTried DEF Grown
<1>2. D2 = D \union {p}
  BY <1>1, PassedByGoingOn, PassedByTakingBack
<1>3. Reports(s, D, lg) /\ NoFull(s, D) /\ Cached(g, s, D, p, C)
  BY DEF PartTried
<1>4. D \in SUBSET Seq(DOMAIN s)
  BY PassedAreTried
<1>5. z \in DOMAIN s \ Range(p)
  OBVIOUS
<1>6. \A q \in D : TriedBefore(s, q, p) \/ Len(q) > Len(p)
  <2> HIDE DEF p
  <2> QED  BY <1>1, <1>5, AllPassedAtAReturn DEF GoesOn
<1>7. PICK n \in Nat : n = Len(p0)
  OBVIOUS
<1>8. Len(p) = n + 1 /\ \A j \in 1..n : p[j] = p0[j]
  BY <1>7
<1>9. \A y \in DOMAIN s : noted[y] = IF y \in Range(p) /\ Len(p) > Len(lg[y]) THEN p ELSE lg[y]
  OBVIOUS
<1> HIDE DEF p, D, D2
<1>10. Reports(s, D2, noted)
  BY <1>1, <1>2, <1>3, <1>4, <1>6, <1>9, ReportsOneMore
<1>11. NoFull(s, D2)
  <2>1. Len(p) < Len(s)
    BY <1>1, <1>5, NotFull
  <2>2. QED
    BY <1>2, <1>3, <2>1 DEF NoFull
<1>12. Cached(g, s, D2, p0, C)
  <2>1. ASSUME NEW q, q \in Seq(DOMAIN s), Len(q) <= Len(p), AgreeUpTo(q, p, Len(q))
        PROVE  q \in D2 \/ (Len(q) <= Len(p0) /\ AgreeUpTo(q, p0, Len(q)))
    <3>1. CASE Len(q) = n + 1
      <4>1. q = p
        BY <1>1, <1>8, <2>1, <3>1 DEF AgreeUpTo
      <4>2. QED
        BY <1>2, <4>1
    <3>2. CASE Len(q) <= n
      <4>1. Len(q) \in Nat /\ \A j \in 1..Len(q) : j \in 1..n
        BY <1>7, <2>1, <3>2
      <4>2. QED
        BY <1>7, <1>8, <2>1, <3>2, <4>1 DEF AgreeUpTo
    <3>3. Len(q) \in Nat
      BY <2>1
    <3>4. QED
      BY <1>7, <1>8, <2>1, <3>1, <3>2, <3>3
  <2>2. ASSUME NEW c \in C
        PROVE  \E q, sv : /\ Grown(g, s, q, sv) /\ q # <<>>
                          /\ c = <<Range(q), sv[Len(q) + 1]>>
                          /\ q \in D2 \/ (Len(q) <= Len(p0) /\ AgreeUpTo(q, p0, Len(q)))
    <3>1. PICK q, sv : /\ Grown(g, s, q, sv) /\ q # <<>>
                       /\ c = <<Range(q), sv[Len(q) + 1]>>
                       /\ q \in D \/ (Len(q) <= Len(p) /\ AgreeUpTo(q, p, Len(q)))
      BY <1>3, Zenon DEF Cached
    <3>2. q \in Seq(DOMAIN s)
      BY <3>1, PrefixIsTried
    <3>3. q \in D2 \/ (Len(q) <= Len(p0) /\ AgreeUpTo(q, p0, Len(q)))
      BY <1>2, <2>1, <3>1, <3>2
    <3>4. QED
      BY <3>1, <3>3
  <2>3. QED
    BY <2>2, Zenon DEF Cached
<1>13. QED
  BY <1>10, <1>11, <1>12 DEF PartTried, D2

\* At a return the empty prefix cannot be extended any more: all has been passed.
LEMMA TriedInVain ==
    ASSUME NEW g, NEW s, IsPart(g, s), NEW z \in DOMAIN s,
           NEW C, NEW lg, PartTried(g, s, <<>>, Entry("return", z), C, lg)
    PROVE  /\ Reports(s, Tried(g, s) \ {<<>>}, lg)
           /\ NoFull(s, Tried(g, s))
<1>1. <<>> \in Seq(DOMAIN s) /\ Len(<<>>) = 0 /\ Range(<<>>) = {}
  BY DEF Range
<1>2. Passed(g, s, <<>>, Entry("return", z)) =
            {q \in Tried(g, s) : TriedBefore(s, q, <<>>) \/ GoesOn(<<>>, q)}
  <2> DEFINE p0 == <<>>
  <2>1. p0 \in Seq(DOMAIN s) /\ z \in DOMAIN s \ Range(p0)
    BY <1>1
  <2> HIDE DEF p0
  <2>2. Passed(g, s, p0, Entry("return", z)) =
            {q \in Tried(g, s) : TriedBefore(s, q, p0) \/ GoesOn(p0, q)}
    BY <2>1, AllPassedAtAReturn
  <2>3. QED
    BY <2>2 DEF p0
<1>3. ASSUME NEW q \in Tried(g, s)
      PROVE  TriedBefore(s, q, <<>>) \/ GoesOn(<<>>, q) <=> q # <<>>
  <2>1. q \in Seq(DOMAIN s) /\ Len(q) \in Nat
    BY TriedPrefixes
  <2>2. ~TriedBefore(s, q, <<>>)
    <3>1. \A j : j \notin 1..Len(<<>>)
      BY <1>1
    <3>2. \A j : ~PartsAt(s, q, <<>>, j)
      BY <3>1 DEF PartsAt
    <3>3. QED
      BY <1>1, <2>1, <3>2, TriedBeforeParts
  <2>3. GoesOn(<<>>, q) <=> Len(q) > 0
    BY <1>1 DEF GoesOn, AgreeUpTo
  <2>4. Len(q) > 0 <=> q # <<>>
    BY <2>1
  <2>5. QED
    BY <2>2, <2>3, <2>4
<1>4. Passed(g, s, <<>>, Entry("return", z)) = Tried(g, s) \ {<<>>}
  BY <1>2, <1>3
<1>5. Len(<<>>) < Len(s)
  BY <1>1 DEF IsPart
<1>6. QED
  BY <1>4, <1>5 DEF PartTried, NoFull

\* The prefix has all operations: it is the first that has.
LEMMA TriedInFull ==
    ASSUME NEW g, NEW s, IsPart(g, s), NEW p0, NEW st, Grown(g, s, p0, st),
           DOMAIN s \subseteq Range(p0),
           NEW C, NEW lg, PartTried(g, s, p0, NoEntry, C, lg),
           NEW noted, \A x \in DOMAIN s : noted[x] = p0
    PROVE  Reports(s, Tried(g, s) \ {<<>>}, noted)
<1> DEFINE D == Passed(g, s, p0, NoEntry)
<1>1. p0 \in Tried(g, s) /\ p0 \in Seq(DOMAIN s) /\ PutOnce(p0) /\ Len(p0) \in Nat
  BY PrefixIsTried DEF Grown
<1>2. Len(p0) = Len(s)
  <2>1. Range(p0) = DOMAIN s
    <3>1. \A j \in DOMAIN p0 : p0[j] \in DOMAIN s
      BY <1>1
    <3>2. Range(p0) \subseteq DOMAIN s
      BY <3>1 DEF Range
    <3>3. QED
      BY <3>2
  <2>2. PICK m \in Nat : m = Len(s) /\ DOMAIN s = 1..m
    BY DEF IsPart
  <2>3. Cardinality(1..m) = m
    BY FS_Interval
  <2>4. QED
    BY <1>1, <2>1, <2>2, <2>3, PutOnceCounts
<1>3. NoFull(s, D)
  BY DEF PartTried
<1>4. ASSUME NEW q \in Tried(g, s)
      PROVE  Len(q) < Len(p0) \/ (Len(q) = Len(p0) /\ (q = p0 \/ TriedBefore(s, p0, q)))
  <2>1. q \in Seq(DOMAIN s) /\ PutOnce(q) /\ Len(q) \in Nat
    BY TriedPrefixes
  <2>2. Len(q) <= Len(p0)
    BY <1>2, <2>1, PutOnceCounts
  <2>3. CASE Len(q) = Len(p0)
    <3>1. ~TriedBefore(s, q, p0)
      <4>1. TriedBefore(s, q, p0) => q \in D
        BY DEF Passed
      <4>2. QED
        BY <1>1, <1>2, <1>3, <2>3, <4>1 DEF NoFull
    <3>2. TriedBefore(s, p0, q) \/ AgreeUpTo(p0, q, Len(p0))
      <4>1. Len(p0) <= Len(q)
        BY <1>1, <2>3
      <4>2. QED
        BY <1>1, <2>1, <3>1, <4>1, TriedOrExtended
    <3>3. AgreeUpTo(p0, q, Len(p0)) => q = p0
      BY <1>1, <2>1, <2>3 DEF AgreeUpTo
    <3>4. QED
      BY <2>3, <3>2, <3>3
  <2>4. QED
    BY <1>1, <2>1, <2>2, <2>3
<1> HIDE DEF D
<1>5. ASSUME NEW x \in DOMAIN s
      PROVE  IsFirst(s, Tried(g, s) \ {<<>>}, x, noted[x])
  <2>1. x \in Range(p0) /\ noted[x] = p0
    BY <1>5
  <2>2. p0 # <<>>
    BY <2>1 DEF Range
  <2>3. QED
    BY <1>1, <1>4, <2>1, <2>2 DEF IsFirst
<1>6. QED
  BY <1>5 DEF Reports

-----------------------------------------------------------------------------
(* A search that is cut off *)

Begins(p, q) == Len(p) < Len(q) /\ AgreeUpTo(p, q, Len(p))

LEMMA TriedAreFinite ==
    ASSUME NEW g, NEW s, IsPart(g, s)
    PROVE  IsFiniteSet(Tried(g, s))
<1>1. PICK m \in Nat : m = Len(s) /\ DOMAIN s = 1..m
  BY DEF IsPart
<1> DEFINE Graph(p) == {<<j, p[j]>> : j \in 1..Len(p)}
           U == SUBSET ((1..m) \X (1..m))
           f == [p \in Tried(g, s) |-> Graph(p)]
<1>2. IsFiniteSet(U)
  <2>1. IsFiniteSet(1..m)
    BY FS_Interval
  <2>2. IsFiniteSet((1..m) \X (1..m))
    BY <2>1, FS_Product
  <2>3. QED
    BY <2>2, FS_SUBSET
<1>3. ASSUME NEW p \in Tried(g, s)
      PROVE  /\ p \in Seq(1..m) /\ Len(p) \in Nat /\ Len(p) <= m
             /\ Graph(p) \in U
  <2>1. p \in Seq(1..m) /\ Len(p) \in Nat /\ Len(p) <= m
    BY <1>1, TriedPrefixes, PutOnceCounts
  <2>2. ASSUME NEW j \in 1..Len(p)
        PROVE  <<j, p[j]>> \in (1..m) \X (1..m)
    BY <2>1
  <2>3. QED
    BY <2>1, <2>2
<1>4. ASSUME NEW p \in Tried(g, s), NEW q \in Tried(g, s), Graph(p) = Graph(q)
      PROVE  Len(p) <= Len(q) /\ \A j \in 1..Len(p) : p[j] = q[j]
  <2>1. ASSUME NEW j \in 1..Len(p)
        PROVE  j \in 1..Len(q) /\ p[j] = q[j]
    <3>1. <<j, p[j]>> \in Graph(q)
      BY <1>4
    <3>2. PICK i \in 1..Len(q) : <<j, p[j]>> = <<i, q[i]>>
      BY <3>1
    <3>3. QED
      BY <3>2
  <2>2. Len(p) \in Nat /\ Len(q) \in Nat
    BY <1>3
  <2>3. CASE Len(p) = 0
    BY <2>1, <2>2, <2>3
  <2>4. CASE Len(p) > 0
    <3>1. Len(p) \in 1..Len(p)
      BY <2>2, <2>4
    <3>2. QED
      BY <2>1, <2>2, <3>1
  <2>5. QED
    BY <2>2, <2>3, <2>4
<1>5. ASSUME NEW p \in Tried(g, s), NEW q \in Tried(g, s), Graph(p) = Graph(q)
      PROVE  p = q
  <2>1. p \in Seq(1..m) /\ q \in Seq(1..m) /\ Len(p) \in Nat /\ Len(q) \in Nat
    BY <1>3
  <2>2. Len(p) <= Len(q) /\ Len(q) <= Len(p) /\ \A j \in 1..Len(p) : p[j] = q[j]
    BY <1>4, <1>5
  <2> HIDE DEF Graph
  <2>3. QED
    BY <2>1, <2>2
<1>6. f \in Injection(Tried(g, s), U)
  <2>1. f \in [Tried(g, s) -> U]
    BY <1>3
  <2>2. \A p, q \in Tried(g, s) : f[p] = f[q] => p = q
    <3> HIDE DEF Graph
    <3> QED  BY <1>5
  <2> HIDE DEF f, U
  <2>3. QED
    BY <2>1, <2>2 DEF Injection, IsInjective
<1>7. QED
  <2> HIDE DEF f, U
  <2> QED  BY <1>2, <1>6, FS_Injection

LEMMA BeginsIsAnOrder ==
    ASSUME NEW g, NEW s, IsPart(g, s),
           NEW p \in Seq(DOMAIN s), NEW q \in Seq(DOMAIN s), NEW r \in Seq(DOMAIN s)
    PROVE  /\ Begins(p, q) /\ Begins(q, r) => Begins(p, r)
           /\ Begins(p, q) /\ TriedBefore(s, q, r) => TriedBefore(s, p, r) \/ Begins(p, r)
           /\ TriedBefore(s, p, q) /\ Begins(q, r) => TriedBefore(s, p, r)
<1>1. Len(p) \in Nat /\ Len(q) \in Nat /\ Len(r) \in Nat
  OBVIOUS
<1>2. ASSUME Begins(p, q), Begins(q, r)
      PROVE  Begins(p, r)
  <2>1. \A j \in 1..Len(p) : j \in 1..Len(q)
    BY <1>1, <1>2 DEF Begins
  <2>2. QED
    BY <1>1, <1>2, <2>1 DEF Begins, AgreeUpTo
<1>3. ASSUME Begins(p, q), NEW j, PartsAt(s, q, r, j)
      PROVE  PartsAt(s, p, r, j) \/ Begins(p, r)
  <2>1. j \in 1..Len(q) /\ j \in 1..Len(r) /\ Len(p) < Len(q)
    BY <1>3 DEF PartsAt, Begins
  <2>2. CASE j <= Len(p)
    <3>1. j \in 1..Len(p) /\ \A a \in 1..j - 1 : a \in 1..Len(p)
      BY <1>1, <2>1, <2>2
    <3>2. QED
      BY <1>3, <3>1 DEF PartsAt, Begins, AgreeUpTo
  <2>3. CASE Len(p) < j
    <3>1. Len(p) < Len(r) /\ \A a \in 1..Len(p) : a \in 1..j - 1
      BY <1>1, <2>1, <2>3
    <3>2. QED
      BY <1>3, <3>1 DEF PartsAt, Begins, AgreeUpTo
  <2>4. QED
    BY <1>1, <2>1, <2>2, <2>3
<1>4. ASSUME Begins(q, r), NEW j, PartsAt(s, p, q, j)
      PROVE  PartsAt(s, p, r, j)
  <2>1. j \in 1..Len(p) /\ j \in 1..Len(q) /\ j \in 1..Len(r) /\ \A a \in 1..j - 1 : a \in 1..Len(q)
    BY <1>1, <1>4 DEF PartsAt, Begins
  <2>2. QED
    BY <1>4, <2>1 DEF PartsAt, Begins, AgreeUpTo
<1>5. QED
  BY <1>2, <1>3, <1>4, TriedBeforeParts

\* Of some prefixes one comes last.
LEMMA LastOfThem ==
    ASSUME NEW g, NEW s, IsPart(g, s), NEW D \in SUBSET Tried(g, s), D # {}
    PROVE  \E last \in D : \A q \in D : q = last \/ TriedBefore(s, q, last) \/ Begins(q, last)
<1> DEFINE lt == {w \in D \X D : TriedBefore(s, w[1], w[2]) \/ Begins(w[1], w[2])}
<1>1. \A p \in D : p \in Seq(DOMAIN s) /\ Len(p) \in Nat
  BY TriedPrefixes
<1>2. \A p, q \in D : <<p, q>> \in lt <=> TriedBefore(s, p, q) \/ Begins(p, q)
  OBVIOUS
<1> HIDE DEF lt
<1>3. ASSUME NEW p \in D
      PROVE  <<p, p>> \notin lt
  BY <1>1, <1>2, TriedBeforeIsAnOrder DEF Begins
<1>4. ASSUME NEW p \in D, NEW q \in D, p # q, Len(p) <= Len(q)
      PROVE  <<p, q>> \in lt \/ <<q, p>> \in lt
  <2>1. TriedBefore(s, p, q) \/ TriedBefore(s, q, p) \/ AgreeUpTo(p, q, Len(p))
    BY <1>1, <1>4, TriedOrExtended
  <2>2. Len(p) = Len(q) => ~AgreeUpTo(p, q, Len(p))
    BY <1>1, <1>4 DEF AgreeUpTo
  <2>3. Len(p) < Len(q) \/ Len(p) = Len(q)
    BY <1>1, <1>4
  <2>4. QED
    BY <1>2, <2>1, <2>2, <2>3 DEF Begins
<1>5. ASSUME NEW p \in D, NEW q \in D, NEW r \in D, <<p, q>> \in lt, <<q, r>> \in lt
      PROVE  <<p, r>> \in lt
  <2>1. p \in Seq(DOMAIN s) /\ q \in Seq(DOMAIN s) /\ r \in Seq(DOMAIN s)
    BY <1>1
  <2>2. TriedBefore(s, p, q) \/ Begins(p, q)
    BY <1>2, <1>5
  <2>3. TriedBefore(s, q, r) \/ Begins(q, r)
    BY <1>2, <1>5
  <2>4. TriedBefore(s, p, r) \/ Begins(p, r)
    BY <2>1, <2>2, <2>3, BeginsIsAnOrder, TriedBeforeIsAnOrder
  <2>5. QED
    BY <1>2, <2>4
<1>6. IsStrictOrder(D, lt)
  <2>1. \A p, q \in D : p # q => <<p, q>> \in lt \/ <<q, p>> \in lt
    <3>1. \A p, q \in D : Len(p) <= Len(q) \/ Len(q) <= Len(p)
      BY <1>1
    <3>2. QED
      BY <1>4, <3>1
  <2>2. QED
    BY <1>3, <1>5, <2>1 DEF IsStrictOrder
<1>7. IsFiniteSet(D)
  BY TriedAreFinite, FS_Subset
<1>8. PICK n \in Nat : n = Cardinality(D)
  BY <1>7, FS_CardinalityType
<1>9. PICK r \in Bijection(D, 1..n) : \A a, b \in D : <<a, b>> \in lt => r[a] < r[b]
  BY <1>6, <1>7, <1>8, Numbering
<1>10. r \in [D -> 1..n] /\ \A k \in 1..n : \E p \in D : r[p] = k
  BY <1>9 DEF Bijection, Surjection
<1>11. n \in 1..n
  BY <1>7, <1>8, FS_EmptySet
<1>12. PICK last \in D : r[last] = n
  BY <1>10, <1>11
<1>13. ASSUME NEW q \in D, q # last
       PROVE  TriedBefore(s, q, last) \/ Begins(q, last)
  <2>1. r[q] <= n
    BY <1>10
  <2>2. r[q] \in Int
    BY <1>10
  <2>3. <<last, q>> \notin lt
    BY <1>8, <1>9, <1>12, <2>1, <2>2
  <2>4. <<q, last>> \in lt
    BY <1>6, <1>13, <2>3 DEF IsStrictOrder
  <2>5. QED
    BY <1>2, <2>4
<1>14. QED
  BY <1>12, <1>13

\* An entry of the part s, or none.
IsEntry(s, e) == e.kind = "none" \/ (e.kind \in {"call", "return"} /\ e.op \in DOMAIN s)

\* With a prefix, those that are tried before it have been passed, and those that go
\* on from it.
LEMMA PassedIsClosed ==
    ASSUME NEW g, NEW s, IsPart(g, s), NEW p0 \in Seq(DOMAIN s), NEW e, IsEntry(s, e),
           NEW q \in Passed(g, s, p0, e), NEW p \in Tried(g, s),
           TriedBefore(s, p, q) \/ Begins(q, p)
    PROVE  p \in Passed(g, s, p0, e)
<1>1. PICK n \in Nat : n = Len(p0)
  OBVIOUS
<1>2. /\ p \in Seq(DOMAIN s) /\ q \in Seq(DOMAIN s) /\ Len(p) \in Nat /\ Len(q) \in Nat
  BY TriedPrefixes DEF Passed
<1>3. CASE TriedBefore(s, q, p0)
  <2>1. ASSUME Begins(q, p), NEW j, PartsAt(s, q, p0, j)
        PROVE  PartsAt(s, p, p0, j)
    <3>1. j \in 1..Len(q) /\ j \in 1..Len(p) /\ \A a \in 1..j - 1 : a \in 1..Len(q)
      BY <1>2, <2>1 DEF PartsAt, Begins
    <3>2. QED
      BY <2>1, <3>1 DEF PartsAt, Begins, AgreeUpTo
  <2>2. Begins(q, p) => TriedBefore(s, p, p0)
    BY <1>2, <1>3, <2>1, TriedBeforeParts
  <2>3. TriedBefore(s, p, q) => TriedBefore(s, p, p0)
    BY <1>2, <1>3, TriedBeforeIsAnOrder
  <2>4. QED
    BY <2>2, <2>3 DEF Passed
<1>4. CASE GoesOn(p0, q) /\ Behind(s, e, q[n + 1])
  <2>1. Len(q) > n /\ AgreeUpTo(q, p0, n) /\ n + 1 \in 1..Len(q)
    BY <1>1, <1>2, <1>4 DEF GoesOn
  <2>2. CASE Begins(q, p)
    <3>1. Len(p) > n /\ \A a \in 1..n + 1 : a \in 1..Len(q)
      BY <1>1, <1>2, <2>1, <2>2 DEF Begins
    <3>2. AgreeUpTo(p, p0, n) /\ p[n + 1] = q[n + 1]
      <4>1. \A a \in 1..n : a \in 1..Len(q)
        BY <1>1, <3>1
      <4>2. QED
        BY <2>1, <2>2, <4>1 DEF Begins, AgreeUpTo
    <3>3. QED
      BY <1>1, <1>4, <3>1, <3>2 DEF Passed, GoesOn
  <2>3. ASSUME NEW j, PartsAt(s, p, q, j)
        PROVE  p \in Passed(g, s, p0, e)
    <3>1. j \in 1..Len(p) /\ j \in 1..Len(q) /\ AgreeUpTo(p, q, j - 1) /\ Sooner(s, p[j], q[j])
      BY <2>3 DEF PartsAt
    <3>2. CASE j \in 1..n
      <4>1. \A a \in 1..j - 1 : a \in 1..n
        BY <1>1, <3>2
      <4>2. AgreeUpTo(p, p0, j - 1) /\ q[j] = p0[j]
        BY <2>1, <3>1, <3>2, <4>1 DEF AgreeUpTo
      <4>3. PartsAt(s, p, p0, j)
        BY <1>1, <3>1, <3>2, <4>2 DEF PartsAt
      <4>4. QED
        BY <1>2, <4>3, TriedBeforeParts DEF Passed
    <3>3. CASE j = n + 1
      <4>1. GoesOn(p0, p)
        BY <1>1, <1>2, <2>1, <3>1, <3>3 DEF GoesOn, AgreeUpTo
      <4>2. Sooner(s, p[n + 1], q[n + 1]) /\ p[n + 1] \in DOMAIN s /\ q[n + 1] \in DOMAIN s
        BY <1>2, <3>1, <3>3
      <4>3. Behind(s, e, p[n + 1])
        <5>1. CASE e.kind = "none"
          BY <5>1 DEF Behind
        <5>2. CASE e.kind = "call"
          <6>1. e.op \in DOMAIN s /\ Sooner(s, q[n + 1], e.op)
            BY <1>4, <5>2 DEF Behind, IsEntry
          <6>2. Sooner(s, p[n + 1], e.op)
            BY <4>2, <6>1, SoonerIsAnOrder
          <6>3. QED
            BY <5>2, <6>2 DEF Behind
        <5>3. CASE e.kind = "return"
          <6>1. e.op \in DOMAIN s /\ s[q[n + 1]].call <= s[e.op].return
            BY <1>4, <5>3 DEF Behind, IsEntry
          <6>2. /\ s[p[n + 1]].call \in Nat /\ s[q[n + 1]].call \in Nat /\ s[e.op].return \in Nat
            BY <4>2, <6>1 DEF IsPart
          <6>3. s[p[n + 1]].call <= s[e.op].return
            BY <4>2, <6>1, <6>2 DEF Sooner
          <6>4. QED
            BY <5>3, <6>3 DEF Behind
        <5>4. QED
          BY <5>1, <5>2, <5>3 DEF IsEntry
      <4>4. QED
        BY <1>1, <4>1, <4>3 DEF Passed
    <3>4. CASE j > n + 1
      <4>1. n + 1 \in 1..j - 1 /\ \A a \in 1..n : a \in 1..j - 1
        BY <1>1, <3>1, <3>4
      <4>2. p[n + 1] = q[n + 1] /\ AgreeUpTo(p, p0, n) /\ Len(p) > n
        BY <1>1, <1>2, <2>1, <3>1, <3>4, <4>1 DEF AgreeUpTo
      <4>3. QED
        BY <1>1, <1>4, <4>2 DEF Passed, GoesOn
    <3>5. QED
      BY <1>1, <1>2, <3>1, <3>2, <3>3, <3>4
  <2>4. QED
    BY <1>2, <2>2, <2>3, TriedBeforeParts
<1>5. QED
  BY <1>1, <1>3, <1>4 DEF Passed

LEMMA ReportsOfACutOff ==
    ASSUME NEW g, NEW s, IsPart(g, s), NEW p0 \in Seq(DOMAIN s), NEW e, IsEntry(s, e),
           NEW lg, DOMAIN lg = DOMAIN s, Reports(s, Passed(g, s, p0, e), lg),
           AllReached(g, s) = Tried(g, s) \ {<<>>}
    PROVE  Range(lg) \ {<<>>} \in CutOff(g, s)
<1> DEFINE D == Passed(g, s, p0, e)
           all == Tried(g, s) \ {<<>>}
           Ends == {p \in all : \A q \in all : Len(q) = Len(p) + 1 => ~IsPrefix(p, q)}
           upTo(last) == {p \in all : ~TriedBefore(s, last, p)}
<1>1. CutOff(g, s) = {Reported(s, upTo(last)) : last \in Ends} \union {{}}
  BY Zenon DEF CutOff
<1>2. D \subseteq Tried(g, s) /\ D \in SUBSET Seq(DOMAIN s)
  BY PassedAreTried
<1>3. \A p \in Tried(g, s) : p \in Seq(DOMAIN s) /\ Len(p) \in Nat
  BY TriedPrefixes
<1>4. <<>> \notin D
  <2>1. Len(<<>>) = 0 /\ Len(p0) \in Nat /\ <<>> \in Seq(DOMAIN s)
    OBVIOUS
  <2>2. \A j : ~PartsAt(s, <<>>, p0, j)
    <3>1. \A j : j \notin 1..Len(<<>>)
      BY <2>1
    <3>2. QED
      BY <3>1 DEF PartsAt
  <2>3. ~TriedBefore(s, <<>>, p0)
    BY <2>1, <2>2, TriedBeforeParts
  <2>4. ~GoesOn(p0, <<>>)
    BY <2>1 DEF GoesOn
  <2>5. QED
    BY <2>3, <2>4 DEF Passed
<1>5. D \subseteq all
  BY <1>2, <1>4
<1>6. CASE D = {}
  <2>1. \A x \in DOMAIN s : lg[x] = <<>>
    BY <1>6 DEF Reports, IsFirst
  <2>2. Range(lg) \ {<<>>} = {}
    BY <2>1 DEF Range
  <2>3. QED
    BY <1>1, <2>2
<1>7. CASE D # {}
  <2>1. PICK last \in D : \A q \in D : q = last \/ TriedBefore(s, q, last) \/ Begins(q, last)
    BY <1>2, <1>7, LastOfThem
  <2> DEFINE E == upTo(last)
  <2>2. \A q \in D : ~TriedBefore(s, last, q)
    <3>1. ASSUME NEW q \in D, TriedBefore(s, last, q)
          PROVE  FALSE
      <4>1. q \in Seq(DOMAIN s) /\ last \in Seq(DOMAIN s) /\ Len(q) \in Nat /\ Len(last) \in Nat
        BY <1>2, <1>3, <2>1
      <4>2. CASE q = last \/ TriedBefore(s, q, last)
        BY <3>1, <4>1, <4>2, TriedBeforeIsAnOrder
      <4>3. CASE Begins(q, last)
        <5>1. TriedBefore(s, last, last)
          BY <3>1, <4>1, <4>3, BeginsIsAnOrder
        <5>2. QED
          BY <4>1, <5>1, TriedBeforeIsAnOrder
      <4>4. QED
        BY <2>1, <4>2, <4>3
    <3>2. QED
      BY <3>1
  <2>3. D \subseteq E
    BY <1>5, <2>2
  <2>4. \A p \in Tried(g, s) : ~Begins(last, p)
    <3>1. ASSUME NEW p \in Tried(g, s), Begins(last, p)
          PROVE  FALSE
      <4>1. p \in D
        BY <2>1, <3>1, PassedIsClosed
      <4>2. p \in Seq(DOMAIN s) /\ last \in Seq(DOMAIN s) /\ Len(p) \in Nat /\ Len(last) \in Nat
        BY <1>2, <1>3, <2>1
      <4>3. p # last /\ ~Begins(p, last)
        BY <3>1, <4>2 DEF Begins
      <4>4. TriedBefore(s, p, last)
        BY <2>1, <4>1, <4>3
      <4>5. TriedBefore(s, p, p)
        BY <3>1, <4>2, <4>4, BeginsIsAnOrder
      <4>6. QED
        BY <4>2, <4>5, TriedBeforeIsAnOrder
    <3>2. QED
      BY <3>1
  <2>5. last \in Ends
    <3>1. ASSUME NEW q \in all, Len(q) = Len(last) + 1, IsPrefix(last, q)
          PROVE  FALSE
      <4>1. q \in Seq(DOMAIN s) /\ last \in Seq(DOMAIN s)
        BY <1>2, <1>3, <2>1
      <4>2. PICK n \in Nat : n = Len(last)
        BY <4>1
      <4>3. SubSeq(last, 1, n) = SubSeq(q, 1, n)
        BY <3>1, <4>2 DEF IsPrefix
      <4>4. \A j \in 1..n : SubSeq(last, 1, n)[j] = last[j] /\ SubSeq(q, 1, n)[j] = q[j]
        BY <3>1, <4>1, <4>2
      <4>5. Begins(last, q)
        BY <3>1, <4>1, <4>2, <4>3, <4>4 DEF Begins, AgreeUpTo
      <4>6. QED
        BY <2>4, <4>5
    <3>2. QED
      BY <1>5, <2>1, <3>1
  <2>6. \A q \in E \ D : Begins(q, last)
    <3>1. ASSUME NEW q \in E \ D
          PROVE  Begins(q, last)
      <4>1. q \in Tried(g, s) /\ ~TriedBefore(s, last, q) /\ q # last
        BY <2>1, <3>1
      <4>2. q \in Seq(DOMAIN s) /\ last \in Seq(DOMAIN s) /\ Len(q) \in Nat /\ Len(last) \in Nat
        BY <1>2, <1>3, <2>1, <4>1
      <4>3. ~TriedBefore(s, q, last)
        BY <2>1, <3>1, <4>1, PassedIsClosed
      <4>4. ~Begins(last, q)
        BY <2>4, <4>1
      <4>5. CASE Len(q) <= Len(last)
        <5>1. AgreeUpTo(q, last, Len(q))
          BY <4>1, <4>2, <4>3, <4>5, TriedOrExtended
        <5>2. Len(q) # Len(last)
          BY <4>1, <4>2, <5>1 DEF AgreeUpTo
        <5>3. QED
          BY <4>2, <4>5, <5>1, <5>2 DEF Begins
      <4>6. CASE Len(last) < Len(q)
        <5>1. AgreeUpTo(last, q, Len(last))
          BY <4>1, <4>2, <4>3, <4>6, TriedOrExtended
        <5>2. QED
          BY <4>4, <4>6, <5>1 DEF Begins
      <4>7. QED
        BY <4>2, <4>5, <4>6
    <3>2. QED
      BY <3>1
  <2>7. E \in SUBSET Seq(DOMAIN s)
    BY <1>3
  <2> HIDE DEF E
  <2>8. Reports(s, E, lg)
    <3>1. ASSUME NEW q \in E \ D
          PROVE  Range(q) \subseteq Range(last) /\ Len(q) < Len(last)
      <4>1. Begins(q, last) /\ q \in Seq(DOMAIN s) /\ last \in Seq(DOMAIN s)
        BY <1>2, <2>1, <2>6, <2>7
      <4>2. DOMAIN q = 1..Len(q) /\ DOMAIN last = 1..Len(last) /\ \A j \in 1..Len(q) : j \in 1..Len(last)
        BY <4>1 DEF Begins
      <4>3. QED
        BY <4>1, <4>2 DEF Begins, AgreeUpTo, Range
    <3>2. \A q \in E \ D : \E p \in D :
                /\ Range(q) \subseteq Range(p)
                /\ Len(q) < Len(p) \/ (Len(q) = Len(p) /\ TriedBefore(s, p, q))
      BY <2>1, <3>1
    <3> HIDE DEF D
    <3>3. Reports(s, D, lg)
      BY DEF D
    <3>4. QED
      BY <1>2, <2>3, <2>7, <3>2, <3>3, ReportsNoMore
  <2>9. Range(lg) \ {<<>>} = Reported(s, E)
    BY <2>7, <2>8, ReportsThem
  <2>10. QED
    BY <1>1, <2>5, <2>9 DEF E
<1>8. QED
  BY <1>6, <1>7

-----------------------------------------------------------------------------
(* What the declarative search reaches *)

NodesOf(s) == [prefix : Seq(DOMAIN s), state : Int]

\* f has the nodes of the prefixes of each length.
AreLevels(f, g, s) ==
    /\ Reached(g, s) = [len \in 0..Len(s) |-> {node.prefix : node \in f[len]}]
    /\ f[0] = {Root(g)}
    /\ \A k \in 1..Len(s) : f[k] = UNION {Children(g, s, node) : node \in f[k - 1]}

LEMMA LevelsUnfold ==
    ASSUME NEW g, NEW s, IsPart(g, s)
    PROVE  \E f : AreLevels(f, g, s)
<1> DEFINE size == Len(s)
           A == SUBSET NodesOf(s)
           base == {Root(g)}
           Further(N) == UNION {Children(g, s, node) : node \in N}
           step == [p \in (1..size) \X A |-> Further(p[2])]
           Recursion(f) ==
               f = [len \in 0..size |-> IF len = 0 THEN {Root(g)} ELSE Further(f[len - 1])]
           nodes == CHOOSE f : Recursion(f)
<1>1. size \in Nat
  BY DEF IsPart
<1>2. ASSUME NEW N \in A
      PROVE  Further(N) \in A
  <2>1. ASSUME NEW node \in N, NEW child \in Children(g, s, node)
        PROVE  child \in NodesOf(s)
    <3>1. PICK x \in MayFollow(s, node) :
            child = [prefix |-> Append(node.prefix, x), state |-> Apply(g, s[x], node.state)]
      BY <2>1 DEF Children
    <3>2. x \in DOMAIN s /\ node.prefix \in Seq(DOMAIN s) /\ node.state \in Int
      BY <3>1 DEF MayFollow, NodesOf
    <3>3. Append(node.prefix, x) \in Seq(DOMAIN s) /\ Apply(g, s[x], node.state) \in Int
      BY <3>2, ApplyIsTyped
    <3>4. QED
      BY <3>1, <3>3 DEF NodesOf
  <2>2. QED
    BY <2>1
<1>3. step \in [(1..size) \X A -> A]
  BY <1>2
<1>4. base \in A
  BY DEF Root, NodesOf, IsPart
<1>5. \A k \in 1..size, N \in A : step[<<k, N>>] = Further(N)
  OBVIOUS
<1>6. Reached(g, s) = [len \in 0..size |-> {node.prefix : node \in nodes[len]}]
  BY DEF Reached
<1> HIDE DEF A, step, Further, size, base
<1>7. PICK f \in [0..size -> A] : StepsFrom(f, size, base, step)
  BY <1>1, <1>3, <1>4, RecursionExists
<1>8. ASSUME NEW len \in 0..size
      PROVE  f[len] = IF len = 0 THEN {Root(g)} ELSE Further(f[len - 1])
  <2>1. CASE len = 0
    BY <1>7, <2>1 DEF base, StepsFrom
  <2>2. CASE len # 0
    <3>1. len \in 1..size /\ len - 1 \in 0..size
      BY <1>1, <2>2
    <3>2. f[len - 1] \in A
      BY <1>7, <3>1
    <3>3. f[len] = step[<<len, f[len - 1]>>]
      BY <1>7, <3>1 DEF StepsFrom
    <3>4. QED
      BY <1>5, <2>2, <3>1, <3>2, <3>3
  <2>3. QED
    BY <2>1, <2>2
<1>9. Recursion(f)
  BY <1>7, <1>8
<1>10. Recursion(nodes)
  BY <1>9
<1> HIDE DEF nodes
<1>11. nodes[0] = {Root(g)}
  BY <1>1, <1>10
<1>12. \A k \in 1..size : nodes[k] = Further(nodes[k - 1])
  <2>1. SUFFICES ASSUME NEW k \in 1..size
                 PROVE  nodes[k] = Further(nodes[k - 1])
    OBVIOUS
  <2>2. k \in 0..size /\ k # 0
    BY <1>1
  <2>3. QED
    BY <1>10, <2>2
<1>13. AreLevels(nodes, g, s)
  BY <1>6, <1>11, <1>12 DEF AreLevels, Further, size
<1>14. QED
  BY <1>13

NodeOf(p, st) == [prefix |-> p, state |-> st[Len(p) + 1]]

\* The nodes of one length are those of the grown prefixes of this length.
HasTheGrown(N, g, s, len) ==
    /\ \A node \in N : \E p, st : Grown(g, s, p, st) /\ Len(p) = len /\ node = NodeOf(p, st)
    /\ \A p, st : Grown(g, s, p, st) /\ Len(p) = len => NodeOf(p, st) \in N

LEMMA RootIsGrown ==
    ASSUME NEW g, NEW s, IsPart(g, s)
    PROVE  HasTheGrown({Root(g)}, g, s, 0)
<1>1. Grown(g, s, <<>>, <<InitState(g)>>)
  BY NothingIsGrown
<1>2. Root(g) = NodeOf(<<>>, <<InitState(g)>>) /\ Len(<<>>) = 0
  BY DEF Root, NodeOf
<1>3. ASSUME NEW p, NEW st, Grown(g, s, p, st), Len(p) = 0
      PROVE  NodeOf(p, st) = Root(g)
  <2>1. p = <<>> /\ st[1] = InitState(g)
    BY <1>3 DEF Grown
  <2>2. QED
    BY <1>3, <2>1 DEF NodeOf, Root
<1>4. \A node \in {Root(g)} :
            \E p, st : Grown(g, s, p, st) /\ Len(p) = 0 /\ node = NodeOf(p, st)
  BY <1>1, <1>2
<1>5. \A p, st : Grown(g, s, p, st) /\ Len(p) = 0 => NodeOf(p, st) \in {Root(g)}
  BY <1>3
<1>6. QED
  BY <1>4, <1>5, Zenon DEF HasTheGrown

LEMMA ChildrenAreGrown ==
    ASSUME NEW g, NEW s, IsPart(g, s), NEW len \in Nat, NEW N, HasTheGrown(N, g, s, len)
    PROVE  HasTheGrown(UNION {Children(g, s, node) : node \in N}, g, s, len + 1)
<1> DEFINE M == UNION {Children(g, s, node) : node \in N}
<1>1. ASSUME NEW child \in M
      PROVE  \E q, su : Grown(g, s, q, su) /\ Len(q) = len + 1 /\ child = NodeOf(q, su)
  <2>1. PICK node \in N : child \in Children(g, s, node)
    OBVIOUS
  <2>2. PICK p, st : Grown(g, s, p, st) /\ Len(p) = len /\ node = NodeOf(p, st)
    BY <2>1 DEF HasTheGrown
  <2>3. node.prefix = p /\ node.state = st[len + 1]
    BY <2>2 DEF NodeOf
  <2>4. PICK x \in MayFollow(s, node) :
            child = [prefix |-> Append(p, x), state |-> Apply(g, s[x], st[len + 1])]
    BY <2>1, <2>3 DEF Children
  <2>5. /\ x \in DOMAIN s /\ x \notin Range(p) /\ Legal(s[x], st[len + 1])
        /\ \A y \in DOMAIN s \ Range(p) : ~Precedes(s[y], s[x])
    BY <2>3, <2>4 DEF MayFollow
  <2>6. p \in Seq(DOMAIN s) /\ st \in Seq(Int) /\ Len(st) = len + 1
    BY <2>2 DEF Grown
  <2>7. Due(s, p, len, x)
    <3>1. DOMAIN p = 1..len
      BY <2>2, <2>6
    <3>2. \A y : (\A l \in 1..len : p[l] # y) => y \notin Range(p)
      BY <3>1 DEF Range
    <3>3. QED
      BY <2>5, <3>2 DEF Due
  <2> DEFINE v == Apply(g, s[x], st[len + 1])
  <2>8. Grown(g, s, Append(p, x), Append(st, v))
    BY <2>2, <2>5, <2>7, OneFurther
  <2>9. v \in Int
    BY <2>2, <2>5, <2>6, ApplyIsTyped
  <2> HIDE DEF v
  <2>10. Len(Append(p, x)) = len + 1 /\ Append(st, v)[len + 1 + 1] = v
    BY <2>2, <2>6, <2>9
  <2>11. child = NodeOf(Append(p, x), Append(st, v))
    BY <2>4, <2>10 DEF NodeOf, v
  <2>12. QED
    BY <2>8, <2>10, <2>11
<1>2. ASSUME NEW p, NEW st, Grown(g, s, p, st), Len(p) = len + 1
      PROVE  NodeOf(p, st) \in M
  <2> DEFINE q == SubSeq(p, 1, len)
             su == SubSeq(st, 1, len + 1)
             x == p[len + 1]
             node == NodeOf(q, su)
  <2>1. /\ Grown(g, s, q, su) /\ Len(q) = len /\ AgreeUpTo(q, p, len)
        /\ su[len + 1] = st[len + 1]
    <3>1. len \in 0..Len(p)
      BY <1>2
    <3>2. QED
      BY <1>2, <3>1, FirstOnes
  <2>2. /\ p \in Seq(DOMAIN s) /\ PutOnce(p) /\ Due(s, p, len, x) /\ Legal(s[x], st[len + 1])
        /\ st[len + 1 + 1] = Apply(g, s[x], st[len + 1])
    <3>1. len + 1 \in 1..Len(p) /\ len + 1 - 1 = len
      BY <1>2
    <3>2. QED
      BY <1>2, <3>1 DEF Grown
  <2>3. q \in Seq(DOMAIN s)
    BY <2>1 DEF Grown
  <2> HIDE DEF q, su
  <2>4. node \in N /\ node.prefix = q /\ node.state = st[len + 1]
    BY <2>1 DEF HasTheGrown, NodeOf
  <2>5. x \in DOMAIN s \ Range(q)
    <3>1. x \in DOMAIN s
      BY <1>2, <2>2
    <3>2. DOMAIN q = 1..len
      BY <2>1, <2>3
    <3>3. ASSUME NEW j \in 1..len, q[j] = x
          PROVE  FALSE
      <4>1. p[j] = p[len + 1] /\ j \in 1..Len(p) /\ len + 1 \in 1..Len(p) /\ j # len + 1
        BY <1>2, <2>1, <3>3 DEF AgreeUpTo
      <4>2. QED
        BY <2>2, <4>1 DEF PutOnce
    <3>4. QED
      BY <3>1, <3>2, <3>3 DEF Range
  <2>6. ASSUME NEW y \in DOMAIN s \ Range(q)
        PROVE  ~Precedes(s[y], s[x])
    <3>1. DOMAIN q = 1..len
      BY <2>1, <2>3
    <3>2. \A l \in 1..len : p[l] # y
      BY <2>1, <3>1 DEF Range, AgreeUpTo
    <3>3. QED
      BY <2>2, <3>2 DEF Due
  <2> HIDE DEF x, node
  <2>7. x \in MayFollow(s, node)
    BY <2>2, <2>4, <2>5, <2>6 DEF MayFollow
  <2>8. p = Append(q, x)
    <3>1. Len(p) = Len(Append(q, x)) /\ Append(q, x)[len + 1] = x
      BY <1>2, <2>1, <2>3, <2>5
    <3>2. \A j \in 1..len : Append(q, x)[j] = p[j]
      BY <2>1, <2>3 DEF AgreeUpTo
    <3>3. \A j \in 1..len + 1 : j \in 1..len \/ j = len + 1
      OBVIOUS
    <3>4. \A j \in 1..len + 1 : Append(q, x)[j] = p[j]
      BY <3>1, <3>2, <3>3 DEF x
    <3>5. Append(q, x) \in Seq(DOMAIN s)
      BY <2>3, <2>5
    <3>6. QED
      BY <1>2, <2>2, <3>1, <3>4, <3>5
  <2>9. NodeOf(p, st) = [prefix |-> Append(q, x), state |-> Apply(g, s[x], st[len + 1])]
    BY <1>2, <2>2, <2>8 DEF NodeOf
  <2>10. NodeOf(p, st) \in Children(g, s, node)
    BY <2>4, <2>7, <2>9 DEF Children
  <2>11. QED
    BY <2>4, <2>10
<1> HIDE DEF M
<1>3. QED
  BY <1>1, <1>2, Zenon DEF HasTheGrown, M

LEMMA ReachedAreTried ==
    ASSUME NEW g, NEW s, IsPart(g, s), NEW len \in 0..Len(s)
    PROVE  Reached(g, s)[len] = {p \in Tried(g, s) : Len(p) = len}
<1>1. PICK n \in Nat : n = Len(s)
  BY DEF IsPart
<1>2. PICK f : AreLevels(f, g, s)
  BY LevelsUnfold
<1> DEFINE T == {k \in 0..n : HasTheGrown(f[k], g, s, k)}
<1>3. 0 \in T
  <2>1. f[0] = {Root(g)}
    BY <1>2 DEF AreLevels
  <2>2. QED
    BY <1>1, <2>1, RootIsGrown
<1>4. ASSUME NEW k \in 1..n, k - 1 \in T
      PROVE  k \in T
  <2>1. f[k] = UNION {Children(g, s, node) : node \in f[k - 1]}
    BY <1>1, <1>2 DEF AreLevels
  <2>2. k - 1 \in Nat /\ k - 1 + 1 = k /\ k \in 0..n
    BY <1>1
  <2>3. HasTheGrown(f[k - 1], g, s, k - 1)
    BY <1>4
  <2>4. HasTheGrown(UNION {Children(g, s, node) : node \in f[k - 1]}, g, s, k - 1 + 1)
    BY <2>2, <2>3, ChildrenAreGrown
  <2>5. HasTheGrown(f[k], g, s, k)
    BY <2>1, <2>2, <2>4
  <2>6. QED
    BY <2>2, <2>5
<1>5. HasTheGrown(f[len], g, s, len)
  <2> HIDE DEF T
  <2>1. 0..n \subseteq T
    BY <1>1, <1>3, <1>4, UpTo
  <2>2. len \in T
    BY <1>1, <2>1
  <2>3. QED
    BY <2>2 DEF T
<1>6. Reached(g, s)[len] = {node.prefix : node \in f[len]}
  BY <1>2 DEF AreLevels
<1>7. ASSUME NEW node \in f[len]
      PROVE  node.prefix \in Tried(g, s) /\ Len(node.prefix) = len
  <2>1. PICK p, st : Grown(g, s, p, st) /\ Len(p) = len /\ node = NodeOf(p, st)
    BY <1>5 DEF HasTheGrown
  <2>2. node.prefix = p
    BY <2>1 DEF NodeOf
  <2>3. QED
    BY <2>1, <2>2, PrefixIsTried
<1>8. ASSUME NEW p \in Tried(g, s), Len(p) = len
      PROVE  p \in {node.prefix : node \in f[len]}
  <2>1. PICK st : Grown(g, s, p, st)
    BY DEF Tried
  <2>2. NodeOf(p, st) \in f[len] /\ NodeOf(p, st).prefix = p
    BY <1>5, <1>8, <2>1 DEF HasTheGrown, NodeOf
  <2>3. QED
    BY <2>2
<1>9. QED
  BY <1>6, <1>7, <1>8

LEMMA AllReachedAreTried ==
    ASSUME NEW g, NEW s, IsPart(g, s)
    PROVE  AllReached(g, s) = Tried(g, s) \ {<<>>}
<1>1. AllReached(g, s) = UNION {Reached(g, s)[len] : len \in DOMAIN s}
  BY Zenon DEF AllReached
<1>2. PICK n \in Nat : n = Len(s) /\ DOMAIN s = 1..n
  BY DEF IsPart
<1>3. \A len \in 1..n : Reached(g, s)[len] = {p \in Tried(g, s) : Len(p) = len}
  BY <1>2, ReachedAreTried
<1>4. ASSUME NEW p \in Tried(g, s)
      PROVE  p # <<>> <=> Len(p) \in 1..n
  <2>1. p \in Seq(DOMAIN s) /\ Len(p) \in Nat /\ Len(p) <= n
    BY <1>2, TriedPrefixes, PutOnceCounts
  <2>2. QED
    BY <2>1
<1>5. QED
  BY <1>1, <1>2, <1>3, <1>4

-----------------------------------------------------------------------------
(* The searches of the parts *)

\* What a step of part k has to keep, of its prefix, its entry, its cache, its reports
\* and its result.
PartExplored(k, s, e, C, lg, res) ==
    /\ DOMAIN lg = DOMAIN parts[k]
    /\ res \in {"running", "cut"} => PartTried(h, parts[k], s, e, C, lg)
    /\ res \in {"rejected", "complete"} => Reports(parts[k], Tried(h, parts[k]) \ {<<>>}, lg)
    /\ res = "rejected" => NoFull(parts[k], Tried(h, parts[k]))

\* The inductive invariant: the reports are those of the prefixes that the walk has
\* passed, through every state that was seen before.
ExploreInv ==
    /\ DOMAIN cache = DOMAIN parts
    /\ \A k \in DOMAIN parts :
            PartExplored(k, calls[k], at[k], cache[k], longest[k], result[k])

LEMMA PartIsGrown ==
    ASSUME SearchInv, ReplayInv, AcceptInv, NEW k \in DOMAIN parts
    PROVE  /\ IsPart(h, parts[k])
           /\ Grown(h, parts[k], calls[k], state[k])
           /\ Last(state[k]) = state[k][Len(calls[k]) + 1]
<1>1. IsPart(h, parts[k])
  <2>1. InitState(h) \in Int /\ PartsAreTimed(parts)
    BY IntegerValues DEF SearchInv, ReplayInv
  <2>2. QED
    BY <2>1 DEF PartsAreTimed, IsPart
<1>2. /\ calls[k] \in Seq(DOMAIN parts[k]) /\ Stacked(k, calls[k]) /\ PutOnce(calls[k])
      /\ state[k] \in Seq(Int) /\ Len(state[k]) = Len(calls[k]) + 1 /\ Leads(k, calls[k], state[k])
  BY DEF SearchInv, ReplayInv, AcceptInv, PartReplays, PartEnds, Positions
<1>3. \A j \in 1..Len(calls[k]) : Due(parts[k], calls[k], j - 1, calls[k][j])
  BY <1>2 DEF Stacked, Due, Positions
<1>4. QED
  BY <1>1, <1>2, <1>3 DEF Grown, Leads, Last

LEMMA InitExplore ==
    ASSUME Init
    PROVE  ExploreInv
<1>1. DOMAIN cache = DOMAIN parts
  BY DEF Init
<1>2. ASSUME NEW k \in DOMAIN parts
      PROVE  PartExplored(k, calls[k], at[k], cache[k], longest[k], result[k])
  <2>1. /\ calls[k] = <<>> /\ at[k] = Least(k, Listed(k, <<>>)) /\ cache[k] = {}
        /\ longest[k] = [x \in DOMAIN parts[k] |-> <<>>] /\ result[k] = "running"
    BY DEF Init
  <2>2. PartsAreTimed(parts)
    BY InputsAssumption DEF Init
  <2>3. IsPart(h, parts[k])
    <3>1. InitState(h) \in Int
      BY IntegerValues DEF Init
    <3>2. QED
      BY <2>2, <3>1 DEF PartsAreTimed, IsPart
  <2>4. \A y \in DOMAIN parts[k] : ~Behind(parts[k], at[k], y)
    <3>1. \A y \in DOMAIN parts[k] : y \in Positions(k) \ Range(<<>>)
      BY DEF Positions, Range
    <3>2. \A y \in DOMAIN parts[k] : ~Behind(parts[k], Least(k, Listed(k, <<>>)), y)
      BY <2>2, <3>1, NothingBehindTheFirst
    <3>3. QED
      BY <2>1, <3>2
  <2>5. PartTried(h, parts[k], <<>>, at[k], {}, longest[k])
    BY <2>1, <2>3, <2>4, NothingTried
  <2>6. QED
    BY <2>1, <2>5 DEF PartExplored
<1>3. QED
  BY <1>1, <1>2 DEF ExploreInv

\* Where the walk stands.
LEMMA WalkStandsAt ==
    ASSUME SearchInv, NEW k \in DOMAIN parts
    PROVE  /\ at[k].kind = "call" =>
                /\ at[k].op \in DOMAIN parts[k] \ Range(calls[k])
                /\ at[k] = Entry("call", at[k].op)
                /\ OnlyCallsBefore(k, calls[k], at[k])
           /\ at[k].kind = "return" =>
                /\ at[k].op \in DOMAIN parts[k] \ Range(calls[k])
                /\ at[k] = Entry("return", at[k].op)
           /\ IsEntry(parts[k], at[k])
<1>1. Walking(k, calls[k], at[k])
  BY DEF SearchInv
<1>2. CASE at[k] = NoEntry
  BY <1>2 DEF NoEntry, Entry, IsEntry
<1>3. CASE at[k] \in Listed(k, calls[k]) /\ OnlyCallsBefore(k, calls[k], at[k])
  <2>1. PICK kind \in {"call", "return"}, x \in Positions(k) \ Range(calls[k]) :
            at[k] = Entry(kind, x)
    BY <1>3 DEF Listed
  <2>2. at[k].kind = kind /\ at[k].op = x
    BY <2>1 DEF Entry
  <2>3. QED
    BY <1>3, <2>1, <2>2 DEF IsEntry, Positions
<1>4. QED
  BY <1>1, <1>2, <1>3 DEF Walking

LEMMA LiftExplores ==
    ASSUME SearchInv, ReplayInv, AcceptInv, ExploreInv, NEW k \in DOMAIN parts, Lift(k)
    PROVE  PartExplored(k, calls'[k], at'[k], cache'[k], longest'[k], result'[k])
<1> DEFINE x == at[k].op
           p0 == calls[k]
           st == state[k]
           s == parts[k]
           p == Append(p0, x)
           v == Apply(h, s[x], st[Len(p0) + 1])
           e == Least(k, Listed(k, p))
<1>1. /\ at[k].kind = "call" /\ result[k] = "running" /\ result' = result /\ longest' = longest
      /\ Legal(s[x], Last(st))
      /\ calls' = [calls EXCEPT ![k] = Append(@, x)]
      /\ cache' = [cache EXCEPT ![k] = @ \union {Reaches(k)}]
      /\ at' = [at EXCEPT ![k] = Least(k, Listed(k, calls'[k]))]
  BY DEF Lift, AtCall, Running, Allowed, Current, Now
<1>2. /\ IsPart(h, s) /\ Grown(h, s, p0, st) /\ Last(st) = st[Len(p0) + 1]
  BY PartIsGrown
<1>3. /\ PartsAreTimed(parts)
      /\ x \in DOMAIN s \ Range(p0) /\ at[k] = Entry("call", x)
      /\ OnlyCallsBefore(k, p0, Entry("call", x))
  BY <1>1, WalkStandsAt DEF SearchInv
<1>4. Reaches(k) = <<Range(p0) \union {x}, v>>
  BY <1>2 DEF Reaches, Current, Now
<1>5. calls'[k] = p /\ at'[k] = e /\ cache'[k] = cache[k] \union {<<Range(p0) \union {x}, v>>}
  <2>1. calls'[k] = p /\ cache'[k] = cache[k] \union {Reaches(k)}
    BY <1>1 DEF SearchInv, ExploreInv
  <2>2. at'[k] = Least(k, Listed(k, calls'[k]))
    BY <1>1 DEF SearchInv
  <2> HIDE DEF p
  <2>3. QED
    BY <1>4, <2>1, <2>2
<1>6. PartTried(h, s, p0, Entry("call", x), cache[k], longest[k]) /\ DOMAIN longest[k] = DOMAIN s
  BY <1>1, <1>3 DEF ExploreInv, PartExplored
<1>7. Due(s, p0, Len(p0), x)
  <2>1. p0 \in Seq(DOMAIN s)
    BY <1>2, PrefixIsTried
  <2>2. DOMAIN p0 = 1..Len(p0)
    BY <2>1
  <2>3. \A y : (\A l \in 1..Len(p0) : p0[l] # y) => y \notin Range(p0)
    BY <2>2 DEF Range
  <2>4. \A y \in DOMAIN s \ Range(p0) : ~Precedes(s[y], s[x])
    <3>1. Entry("call", x) \in Entries(k) /\ Entry("call", x).kind = "call" /\ Entry("call", x).op = x
      BY <1>3 DEF Entries, Entry, Positions
    <3>2. QED
      BY <1>3, <3>1, CallIsDue DEF Positions
  <2>5. QED
    BY <2>3, <2>4 DEF Due
<1>8. Grown(h, s, p, Append(st, v))
  BY <1>1, <1>2, <1>3, <1>7, OneFurther
<1>9. \A y \in DOMAIN s \ Range(p) : ~Behind(s, e, y)
  BY <1>3, NothingBehindTheFirst DEF Positions
<1>10. Append(st, v)[Len(p0) + 2] = v
  <2>1. st \in Seq(Int) /\ Len(st) = Len(p0) + 1 /\ Len(p0) \in Nat
    BY <1>2, PrefixIsTried DEF Grown
  <2> HIDE DEF v, st, p0
  <2>2. QED
    BY <2>1
<1> HIDE DEF v, st, p0, s, x, e
<1>11. PartTried(h, s, p, e, cache[k] \union {<<Range(p0) \union {x}, Append(st, v)[Len(p0) + 2]>>},
                 longest[k])
  BY <1>2, <1>3, <1>6, <1>8, <1>9, TriedByLifting
<1>12. PartTried(h, s, p, e, cache'[k], longest'[k])
  BY <1>1, <1>5, <1>10, <1>11
<1>13. QED
  BY <1>1, <1>5, <1>6, <1>12 DEF PartExplored, s

LEMMA FrontThenLast ==
    ASSUME NEW R, NEW s \in Seq(R), s # <<>>
    PROVE  s = Append(Front(s), Last(s))
<1>1. PICK n \in Nat : Len(s) = n
  OBVIOUS
<1>2. n # 0
  BY <1>1
<1> DEFINE p == Front(s)
           x == Last(s)
<1>3. /\ p \in Seq(R) /\ Len(p) = n - 1 /\ x \in R /\ x = s[n]
      /\ \A j \in 1..n - 1 : p[j] = s[j]
  BY <1>1, FrontAndLast
<1> HIDE DEF p, x
<1>4. /\ Append(p, x) \in Seq(R) /\ Len(Append(p, x)) = n
      /\ \A j \in 1..n : Append(p, x)[j] = s[j]
  BY <1>1, <1>2, <1>3
<1>5. s = Append(p, x)
  BY <1>1, <1>4
<1>6. QED
  BY <1>5 DEF p, x

LEMMA SkipExplores ==
    ASSUME SearchInv, ReplayInv, AcceptInv, ExploreInv, NEW k \in DOMAIN parts, Skip(k)
    PROVE  PartExplored(k, calls[k], at'[k], cache[k], longest[k], result[k])
<1> DEFINE x == at[k].op
           p0 == calls[k]
           st == state[k]
           s == parts[k]
           e == After(k, p0, at[k])
<1>1. /\ at[k].kind = "call" /\ result[k] = "running"
      /\ ~Legal(s[x], Last(st)) \/ Reaches(k) \in cache[k]
      /\ at' = [at EXCEPT ![k] = e]
  BY DEF Skip, AtCall, Running, Allowed, Current, Now, Seen
<1>2. /\ IsPart(h, s) /\ Grown(h, s, p0, st) /\ Last(st) = st[Len(p0) + 1]
  BY PartIsGrown
<1>3. /\ PartsAreTimed(parts)
      /\ x \in DOMAIN s \ Range(p0) /\ at[k] = Entry("call", x)
      /\ OnlyCallsBefore(k, p0, Entry("call", x))
  BY <1>1, WalkStandsAt DEF SearchInv
<1>4. Reaches(k) = <<Range(p0) \union {x}, Apply(h, s[x], st[Len(p0) + 1])>>
  BY <1>2 DEF Reaches, Current, Now
<1>5. PartTried(h, s, p0, Entry("call", x), cache[k], longest[k]) /\ DOMAIN longest[k] = DOMAIN s
  BY <1>1, <1>3 DEF ExploreInv, PartExplored
<1>6. \A y \in DOMAIN s \ Range(p0) : Behind(s, e, y) <=> Sooner(s, y, x) \/ y = x
  BY <1>3, BehindTheNext DEF Positions
<1>7. at'[k] = e
  BY <1>1 DEF SearchInv
<1> HIDE DEF st, p0, s, x, e
<1>8. PartTried(h, s, p0, e, cache[k], longest[k])
  BY <1>1, <1>2, <1>3, <1>4, <1>5, <1>6, TriedByGoingOn
<1>9. QED
  BY <1>1, <1>5, <1>7, <1>8 DEF PartExplored, s, p0

LEMMA BacktrackExplores ==
    ASSUME SearchInv, ReplayInv, AcceptInv, ExploreInv, NEW k \in DOMAIN parts, Backtrack(k)
    PROVE  PartExplored(k, calls'[k], at'[k], cache[k], longest'[k], result[k])
<1> DEFINE x == Last(calls[k])
           p0 == Front(calls[k])
           z == at[k].op
           s == parts[k]
           e == After(k, p0, Entry("call", x))
<1>1. /\ at[k].kind = "return" /\ result[k] = "running" /\ calls[k] # <<>>
      /\ longest' = [longest EXCEPT ![k] = Noted(k)]
      /\ calls' = [calls EXCEPT ![k] = p0]
      /\ at' = [at EXCEPT ![k] = After(k, calls'[k], Entry("call", x))]
  BY DEF Backtrack, AtReturn, Running
<1>2. IsPart(h, s) /\ Grown(h, s, calls[k], state[k])
  BY PartIsGrown
<1>3. /\ PartsAreTimed(parts) /\ calls[k] \in Seq(DOMAIN s) /\ Stacked(k, calls[k])
      /\ PutOnce(calls[k])
      /\ z \in DOMAIN s \ Range(calls[k]) /\ at[k] = Entry("return", z)
  BY <1>1, WalkStandsAt DEF SearchInv, AcceptInv, PartEnds, Positions
<1>4. /\ p0 \in Seq(DOMAIN s) /\ x \in DOMAIN s \ Range(p0)
      /\ OnlyCallsBefore(k, p0, Entry("call", x))
  BY <1>1, <1>3, PutOnceLess, FrontAndLast, StackPop, TakenBackIsDue DEF Positions
<1>5. calls[k] = Append(p0, x)
  BY <1>1, <1>3, FrontThenLast
<1>6. PartTried(h, s, calls[k], Entry("return", z), cache[k], longest[k]) /\ DOMAIN longest[k] = DOMAIN s
  BY <1>1, <1>3 DEF ExploreInv, PartExplored
<1>7. \A y \in DOMAIN s \ Range(p0) : Behind(s, e, y) <=> Sooner(s, y, x) \/ y = x
  BY <1>3, <1>4, BehindTheNext DEF Positions
<1>8. calls'[k] = p0 /\ at'[k] = e /\ longest'[k] = Noted(k)
  <2>1. calls'[k] = p0 /\ longest'[k] = Noted(k) /\ at'[k] = After(k, calls'[k], Entry("call", x))
    BY <1>1 DEF SearchInv
  <2> HIDE DEF p0, x
  <2>2. QED
    BY <2>1
<1> HIDE DEF p0, s, x, e, z
<1>9. DOMAIN Noted(k) = DOMAIN s
  BY DEF Noted, Positions, s
<1>10. \A y \in DOMAIN s :
            Noted(k)[y] = IF y \in Range(calls[k]) /\ Len(calls[k]) > Len(longest[k][y])
                          THEN calls[k] ELSE longest[k][y]
  BY DEF Noted, Positions, s
<1> DEFINE c == calls[k]
           lg == longest[k]
           noted == Noted(k)
           C == cache[k]
           st == state[k]
<1>11. /\ c = Append(p0, x) /\ Grown(h, s, c, st) /\ z \in DOMAIN s \ Range(c)
       /\ PartTried(h, s, c, Entry("return", z), C, lg)
       /\ \A y \in DOMAIN s :
            noted[y] = IF y \in Range(c) /\ Len(c) > Len(lg[y]) THEN c ELSE lg[y]
  BY <1>2, <1>3, <1>5, <1>6, <1>10
<1> HIDE DEF c, lg, noted, C, st
<1>12. PartTried(h, s, p0, e, C, noted)
  BY <1>2, <1>4, <1>7, <1>11, TriedByTakingBack
<1>13. QED
  BY <1>1, <1>8, <1>9, <1>12 DEF PartExplored, s, C, noted

LEMMA EndExplores ==
    ASSUME SearchInv, ReplayInv, AcceptInv, ExploreInv, NEW k \in DOMAIN parts,
           Exhaust(k) \/ Complete(k) \/ Cut(k)
    PROVE  PartExplored(k, calls[k], at[k], cache[k], longest'[k], result'[k])
<1> DEFINE s == parts[k]
<1>1. /\ IsPart(h, s) /\ Grown(h, s, calls[k], state[k])
      /\ DOMAIN longest = DOMAIN parts /\ DOMAIN result = DOMAIN parts
  BY PartIsGrown DEF SearchInv, ReplayInv
<1>2. /\ result[k] = "running"
      /\ PartTried(h, s, calls[k], at[k], cache[k], longest[k]) /\ DOMAIN longest[k] = DOMAIN s
  <2>1. result[k] = "running"
    BY DEF Exhaust, Complete, Cut, AtReturn, Running
  <2>2. QED
    BY <2>1 DEF ExploreInv, PartExplored
<1>3. CASE Exhaust(k)
  <2>1. result'[k] = "rejected" /\ longest' = longest /\ calls[k] = <<>> /\ at[k].kind = "return"
    BY <1>1, <1>3 DEF Exhaust, AtReturn
  <2>2. at[k].op \in DOMAIN s /\ at[k] = Entry("return", at[k].op)
    BY <2>1, WalkStandsAt
  <2>3. PartTried(h, s, <<>>, Entry("return", at[k].op), cache[k], longest[k])
    BY <1>2, <2>1, <2>2
  <2> HIDE DEF s
  <2>4. Reports(s, Tried(h, s) \ {<<>>}, longest[k]) /\ NoFull(s, Tried(h, s))
    BY <1>1, <2>2, <2>3, TriedInVain
  <2>5. QED
    BY <1>2, <2>1, <2>4 DEF PartExplored, s
<1>4. CASE Complete(k)
  <2>1. /\ result'[k] = "complete" /\ at[k] = NoEntry
        /\ longest'[k] = [x \in DOMAIN s |-> calls[k]]
    BY <1>1, <1>4 DEF Complete, Positions
  <2>2. DOMAIN s \subseteq Range(calls[k])
    BY <2>1 DEF AcceptInv, PartEnds, Positions
  <2> DEFINE noted == longest'[k]
  <2>3. DOMAIN noted = DOMAIN s /\ \A x \in DOMAIN s : noted[x] = calls[k]
    BY <2>1
  <2> HIDE DEF s, noted
  <2>4. PartTried(h, s, calls[k], NoEntry, cache[k], longest[k])
    BY <1>2, <2>1
  <2>5. Reports(s, Tried(h, s) \ {<<>>}, noted)
    BY <1>1, <2>2, <2>3, <2>4, TriedInFull
  <2>6. QED
    BY <2>1, <2>3, <2>5 DEF PartExplored, s, noted
<1>5. CASE Cut(k)
  <2>1. result'[k] = "cut" /\ longest' = longest
    BY <1>1, <1>5 DEF Cut
  <2>2. QED
    BY <1>2, <2>1 DEF PartExplored
<1>6. QED
  BY <1>3, <1>4, <1>5

LEMMA OtherPartsExplored ==
    ASSUME ExploreInv, NEW k \in DOMAIN parts, UNCHANGED <<h, parts>>,
           DOMAIN cache' = DOMAIN parts,
           \A q \in DOMAIN parts \ {k} :
                /\ calls'[q] = calls[q] /\ at'[q] = at[q] /\ cache'[q] = cache[q]
                /\ longest'[q] = longest[q] /\ result'[q] = result[q],
           PartExplored(k, calls'[k], at'[k], cache'[k], longest'[k], result'[k])
    PROVE  ExploreInv'
<1>1. ASSUME NEW q \in DOMAIN parts
      PROVE  PartExplored(q, calls'[q], at'[q], cache'[q], longest'[q], result'[q])
  BY DEF ExploreInv
<1>2. ASSUME NEW q \in DOMAIN parts
      PROVE  PartExplored(q, calls[q], at[q], cache[q], longest[q], result[q])'
  BY <1>1 DEF PartExplored
<1>3. QED
  BY <1>2 DEF ExploreInv

LEMMA StepExplore ==
    ASSUME SearchInv, ReplayInv, AcceptInv, ExploreInv, [Next]_vars
    PROVE  ExploreInv'
<1>1. /\ DOMAIN calls = DOMAIN parts /\ DOMAIN at = DOMAIN parts /\ DOMAIN longest = DOMAIN parts
      /\ DOMAIN result = DOMAIN parts /\ DOMAIN cache = DOMAIN parts
  BY DEF SearchInv, ReplayInv, ExploreInv
<1>2. ASSUME NEW k \in DOMAIN parts, Lift(k)
      PROVE  ExploreInv'
  <2>1. PartExplored(k, calls'[k], at'[k], cache'[k], longest'[k], result'[k])
    BY <1>2, LiftExplores
  <2>2. /\ UNCHANGED <<h, parts, longest, result>> /\ DOMAIN cache' = DOMAIN parts
        /\ \A q \in DOMAIN parts \ {k} :
                calls'[q] = calls[q] /\ at'[q] = at[q] /\ cache'[q] = cache[q]
    BY <1>1, <1>2 DEF Lift
  <2>3. QED
    BY <2>1, <2>2, OtherPartsExplored
<1>3. ASSUME NEW k \in DOMAIN parts, Skip(k)
      PROVE  ExploreInv'
  <2>1. PartExplored(k, calls[k], at'[k], cache[k], longest[k], result[k])
    BY <1>3, SkipExplores
  <2>2. /\ UNCHANGED <<h, parts, calls, cache, longest, result>>
        /\ \A q \in DOMAIN parts \ {k} : at'[q] = at[q]
    BY <1>1, <1>3 DEF Skip
  <2>3. QED
    BY <1>1, <2>1, <2>2, OtherPartsExplored
<1>4. ASSUME NEW k \in DOMAIN parts, Backtrack(k)
      PROVE  ExploreInv'
  <2>1. PartExplored(k, calls'[k], at'[k], cache[k], longest'[k], result[k])
    BY <1>4, BacktrackExplores
  <2>2. /\ UNCHANGED <<h, parts, cache, result>>
        /\ \A q \in DOMAIN parts \ {k} :
                calls'[q] = calls[q] /\ at'[q] = at[q] /\ longest'[q] = longest[q]
    BY <1>1, <1>4 DEF Backtrack
  <2>3. QED
    BY <1>1, <2>1, <2>2, OtherPartsExplored
<1>5. ASSUME NEW k \in DOMAIN parts, Exhaust(k) \/ Complete(k) \/ Cut(k)
      PROVE  ExploreInv'
  <2>1. PartExplored(k, calls[k], at[k], cache[k], longest'[k], result'[k])
    BY <1>5, EndExplores
  <2>2. /\ UNCHANGED <<h, parts, calls, at, cache>>
        /\ \A q \in DOMAIN parts \ {k} : longest'[q] = longest[q] /\ result'[q] = result[q]
    BY <1>1, <1>5 DEF Exhaust, Complete, Cut
  <2>3. QED
    BY <1>1, <2>1, <2>2, OtherPartsExplored
<1>6. ASSUME UNCHANGED <<h, parts, search>>
      PROVE  ExploreInv'
  <2>1. UNCHANGED <<h, parts, calls, at, cache, longest, result>>
    BY <1>6 DEF search
  <2>2. QED
    BY <2>1 DEF ExploreInv, PartExplored
<1>7. ASSUME TimeOut \/ Answer \/ (\E k \in DOMAIN parts : Hear(k)) \/ UNCHANGED vars
      PROVE  ExploreInv'
  <2>1. UNCHANGED <<h, parts, search>>
    BY <1>7 DEF TimeOut, Answer, Hear, vars
  <2>2. QED
    BY <1>6, <2>1
<1>8. QED
  BY <1>2, <1>3, <1>4, <1>5, <1>7 DEF Next, Step

-----------------------------------------------------------------------------
(* The caller *)

\* What the caller has heard.  Only a part that has been searched in vain makes it
\* give up; a part is cut off only after the timeout, and when the caller returns no
\* search goes on.
CallerInv ==
    /\ \A k \in heard : result[k] # "running"
    /\ ~ok => \E k \in heard : result[k] = "rejected"
    /\ ~timedOut => \A k \in DOMAIN parts : result[k] # "cut"
    /\ timedOut => TimeLimited
    /\ verdict # "" => \A k \in DOMAIN parts : result[k] # "running"

LEMMA StepCaller ==
    ASSUME ReplayInv, CallerInv, [Next]_vars
    PROVE  CallerInv'
<1>1. /\ DOMAIN result = DOMAIN parts /\ heard \subseteq DOMAIN parts
      /\ \A k \in DOMAIN parts : result[k] \in Results
  BY DEF ReplayInv, PartReplays
<1>2. ASSUME NEW k \in DOMAIN parts, Lift(k) \/ Skip(k) \/ Backtrack(k)
      PROVE  CallerInv'
  <2>1. UNCHANGED <<parts, result, heard, ok, timedOut, verdict>>
    BY <1>2 DEF Lift, Skip, Backtrack, caller
  <2>2. QED
    BY <2>1 DEF CallerInv
<1>3. ASSUME NEW k \in DOMAIN parts, Exhaust(k) \/ Complete(k) \/ Cut(k)
      PROVE  CallerInv'
  <2>1. /\ UNCHANGED <<parts, heard, ok, timedOut, verdict>>
        /\ result[k] = "running" /\ result'[k] # "running"
        /\ result'[k] = "cut" => timedOut
        /\ \A q \in DOMAIN parts \ {k} : result'[q] = result[q]
    BY <1>1, <1>3 DEF Exhaust, Complete, Cut, AtReturn, Running, caller
  <2>2. k \notin heard
    BY <2>1 DEF CallerInv
  <2>3. \A q \in heard : result'[q] = result[q]
    BY <1>1, <2>1, <2>2
  <2>4. /\ \A q \in heard : result'[q] # "running"
        /\ ~ok => \E q \in heard : result'[q] = "rejected"
    BY <2>3 DEF CallerInv
  <2>5. ~timedOut => \A q \in DOMAIN parts : result'[q] # "cut"
    BY <2>1 DEF CallerInv
  <2>6. verdict = ""
    BY <2>1 DEF CallerInv
  <2>7. QED
    BY <2>1, <2>4, <2>5, <2>6 DEF CallerInv
<1>4. ASSUME NEW k \in DOMAIN parts, Hear(k)
      PROVE  CallerInv'
  <2>1. /\ UNCHANGED <<parts, result, timedOut, verdict>>
        /\ verdict = "" /\ ~timedOut /\ result[k] # "running"
        /\ heard' = heard \union {k} /\ ok' = (ok /\ result[k] = "complete")
    BY <1>4 DEF Hear, search, Running
  <2>2. result[k] \in {"complete", "rejected"}
    BY <1>1, <2>1 DEF CallerInv, Results
  <2>3. ~ok' => \E q \in heard' : result[q] = "rejected"
    <3>1. CASE ok
      BY <2>1, <2>2, <3>1
    <3>2. CASE ~ok
      BY <2>1, <3>2 DEF CallerInv
    <3>3. QED
      BY <3>1, <3>2
  <2>4. QED
    BY <2>1, <2>3 DEF CallerInv
<1>5. CASE TimeOut
  <2>1. UNCHANGED <<parts, result, heard, ok, verdict>> /\ TimeLimited /\ timedOut' = TRUE
    BY <1>5 DEF TimeOut, search
  <2>2. QED
    BY <2>1 DEF CallerInv
<1>6. CASE Answer
  <2>1. /\ UNCHANGED <<parts, result, heard, ok, timedOut>>
        /\ \A k \in DOMAIN parts : result[k] # "running"
    BY <1>6 DEF Answer, search, Running, CallerInv
  <2>2. QED
    BY <2>1 DEF CallerInv
<1>7. CASE UNCHANGED vars
  <2>1. UNCHANGED <<parts, result, heard, ok, timedOut, verdict>>
    BY <1>7 DEF vars, search, caller
  <2>2. QED
    BY <2>1 DEF CallerInv
<1>8. QED
  BY <1>2, <1>3, <1>4, <1>5, <1>6, <1>7 DEF Next, Step

-----------------------------------------------------------------------------
(* The search implements the call *)

\* The definitions that the call is stated with are those of the search: they do not
\* depend on what CheckCall is instantiated with.
LEMMA SamePartition ==
    ASSUME NEW g
    PROVE  Call!Partition(g) = Partition(g)
<1>1. \A s, P : Call!Only(s, P) = Only(s, P)
  BY Zenon DEF Only, Call!Only
<1>2. Call!FirstOfKey(g.ops) = FirstOfKey(g.ops) /\ Call!OpsOf(g) = OpsOf(g)
  BY DEF Call!FirstOfKey, FirstOfKey, Call!OpsOf, OpsOf, Call!Range, Range
<1> DEFINE order == Only(g.ops, FirstOfKey(g.ops))
           order2 == Call!Only(g.ops, Call!FirstOfKey(g.ops))
           ofKey(key) == {k \in DOMAIN g.ops : g.ops[k].key = key}
           byKey == [key \in {op.key : op \in OpsOf(g)} |-> Only(g.ops, ofKey(key))]
           byKey2 == [key \in {op.key : op \in Call!OpsOf(g)} |-> Call!Only(g.ops, ofKey(key))]
<1>3. order2 = order /\ byKey2 = byKey
  BY <1>1, <1>2
<1>4. Call!Partition(g) = IF g.model # "kv" THEN <<g.ops>>
                          ELSE [p \in DOMAIN order2 |-> byKey2[order2[p].key]]
  BY Zenon DEF Call!Partition
<1>5. Partition(g) = IF g.model # "kv" THEN <<g.ops>>
                     ELSE [p \in DOMAIN order |-> byKey[order[p].key]]
  BY Zenon DEF Partition
<1> HIDE DEF byKey, byKey2, order, order2
<1>6. QED
  BY <1>3, <1>4, <1>5

LEMMA SameReached ==
    ASSUME NEW g, NEW s
    PROVE  Call!Reached(g, s) = Reached(g, s) /\ Call!AllReached(g, s) = AllReached(g, s)
<1>1. Call!Reached(g, s) = Reached(g, s)
  BY Zenon DEF Call!Reached, Reached, Call!Root, Root, Call!InitState, InitState,
               Call!Children, Children, Call!MayFollow, MayFollow, Call!Legal, Legal,
               Call!Apply, Apply, Call!Precedes, Precedes, Call!IsWrite, IsWrite,
               Call!Range, Range
<1>2. QED
  BY <1>1, Zenon DEF Call!AllReached, AllReached

LEMMA SameReported ==
    ASSUME NEW s, NEW P
    PROVE  Call!Reported(s, P) = Reported(s, P)
BY Zenon DEF Call!Reported, Reported, Call!FirstTried, FirstTried, Call!TriedBefore, TriedBefore,
             Call!Max, Max, Call!Range, Range

LEMMA SameCutOff ==
    ASSUME NEW g, NEW s
    PROVE  Call!CutOff(g, s) = CutOff(g, s)
<1>1. \A p, q : Call!TriedBefore(s, p, q) = TriedBefore(s, p, q)
  BY Zenon DEF Call!TriedBefore, TriedBefore
<1>2. \A p, q : Call!IsPrefix(p, q) = IsPrefix(p, q)
  BY Zenon DEF Call!IsPrefix, IsPrefix
<1>3. \A P : Call!Reported(s, P) = Reported(s, P)
  BY SameReported
<1> DEFINE all == AllReached(g, s)
           Ends == {p \in all : \A q \in all : Len(q) = Len(p) + 1 => ~IsPrefix(p, q)}
           Ends2 == {p \in all : \A q \in all : Len(q) = Len(p) + 1 => ~Call!IsPrefix(p, q)}
<1>4. Call!CutOff(g, s) =
        {Call!Reported(s, {p \in all : ~Call!TriedBefore(s, last, p)}) : last \in Ends2} \union {{}}
  BY SameReached, Zenon DEF Call!CutOff
<1>5. CutOff(g, s) = {Reported(s, {p \in all : ~TriedBefore(s, last, p)}) : last \in Ends} \union {{}}
  BY Zenon DEF CutOff
<1>6. Ends2 = Ends
  BY <1>2, Zenon
<1> HIDE DEF all, Ends, Ends2
<1>7. \A last : {p \in all : ~Call!TriedBefore(s, last, p)} = {p \in all : ~TriedBefore(s, last, p)}
  BY <1>1, Zenon
<1> DEFINE R(last) == Reported(s, {p \in all : ~TriedBefore(s, last, p)})
           R2(last) == Call!Reported(s, {p \in all : ~Call!TriedBefore(s, last, p)})
<1>8. \A last : R2(last) = R(last)
  BY <1>3, <1>7, Zenon
<1> HIDE DEF R, R2
<1>9. Call!CutOff(g, s) = {R2(last) : last \in Ends2} \union {{}}
  BY <1>4 DEF R2
<1>10. CutOff(g, s) = {R(last) : last \in Ends} \union {{}}
  BY <1>5 DEF R
<1>11. {R2(last) : last \in Ends2} = {R(last) : last \in Ends}
  BY <1>6, <1>8
<1>12. QED
  BY <1>9, <1>10, <1>11

\* A part that has been searched in vain has no prefix with all operations; a part
\* that has a linearization has one.
LEMMA FullOrNot ==
    ASSUME NEW g, NEW s, IsPart(g, s)
    PROVE  /\ NoFull(s, Tried(g, s)) => Reached(g, s)[Len(s)] = {}
           /\ \A p, st : Grown(g, s, p, st) /\ DOMAIN s \subseteq Range(p) =>
                Reached(g, s)[Len(s)] # {}
<1>1. PICK m \in Nat : m = Len(s) /\ DOMAIN s = 1..m
  BY DEF IsPart
<1>2. Reached(g, s)[m] = {p \in Tried(g, s) : Len(p) = m}
  BY <1>1, ReachedAreTried
<1>3. ASSUME NoFull(s, Tried(g, s))
      PROVE  Reached(g, s)[m] = {}
  BY <1>1, <1>2, <1>3 DEF NoFull
<1>4. ASSUME NEW p, NEW st, Grown(g, s, p, st), DOMAIN s \subseteq Range(p)
      PROVE  Reached(g, s)[m] # {}
  <2>1. p \in Tried(g, s) /\ p \in Seq(DOMAIN s) /\ PutOnce(p)
    BY <1>4, PrefixIsTried DEF Grown
  <2>2. Range(p) = DOMAIN s
    <3>1. \A j \in DOMAIN p : p[j] \in DOMAIN s
      BY <2>1
    <3>2. QED
      BY <1>4, <3>1 DEF Range
  <2>3. Cardinality(1..m) = m
    BY FS_Interval
  <2>4. Len(p) = m
    BY <1>1, <2>1, <2>2, <2>3, PutOnceCounts
  <2>5. QED
    BY <1>2, <2>1, <2>4
<1>5. QED
  BY <1>1, <1>3, <1>4

\* What a call may reply.
LEMMA OkIsAReply ==
    ASSUME NEW g, Call!Explored(g) = "Ok"
    PROVE  [verdict |-> "Ok", reports |-> <<>>] \in Call!Replies(g)
<1>1. (IF Call!Explored(g) = "Ok" THEN {Call!WithoutReports("Ok")} ELSE {}) \subseteq Call!Replies(g)
  BY Zenon DEF Call!Replies
<1>2. QED
  BY <1>1 DEF Call!WithoutReports

LEMMA UnknownIsAReply ==
    ASSUME NEW g, TimeLimited
    PROVE  [verdict |-> "Unknown", reports |-> <<>>] \in Call!Replies(g)
<1>1. (IF TimeLimited THEN {Call!WithoutReports("Unknown")} ELSE {}) \subseteq Call!Replies(g)
  BY Zenon DEF Call!Replies
<1>2. QED
  BY <1>1 DEF Call!WithoutReports

LEMMA IllegalIsAReply ==
    ASSUME NEW g, NEW full \in Call!MaySearchInFull(g), Call!RejectedBy(g, full),
           NEW r, r = [k \in DOMAIN Partition(g) |-> r[k]],
           \A k \in DOMAIN Partition(g) : r[k] \in Call!MayReport(g, k, full)
    PROVE  [verdict |-> "Illegal", reports |-> r] \in Call!Replies(g)
<1> DEFINE P == DOMAIN Call!Partition(g)
           all(f) == UNION {Call!MayReport(g, k, f) : k \in P}
           replies(f) == {[verdict |-> "Illegal", reports |-> q] :
                            q \in {q \in [P -> all(f)] : \A k \in P : q[k] \in Call!MayReport(g, k, f)}}
<1>1. P = DOMAIN Partition(g)
  BY SamePartition
<1>2. r \in [P -> all(full)]
  BY <1>1
<1>3. [verdict |-> "Illegal", reports |-> r] \in replies(full)
  <2> HIDE DEF P
  <2> QED  BY <1>1, <1>2
<1>4. UNION {replies(f) : f \in {f \in Call!MaySearchInFull(g) : Call!RejectedBy(g, f)}}
            \subseteq Call!Replies(g)
  BY DEF Call!Replies
<1> HIDE DEF replies, P, all
<1>5. QED
  BY <1>3, <1>4

\* What part k reports, when it has been searched to its end or was cut off.
LEMMA PartReports ==
    ASSUME SearchInv, ReplayInv, AcceptInv, ExploreInv, NEW k \in DOMAIN parts
    PROVE  LET reports == Range(longest[k]) \ {<<>>} IN
           /\ result[k] \in {"rejected", "complete"} =>
                reports = Reported(parts[k], AllReached(h, parts[k]))
           /\ result[k] = "cut" => reports \in CutOff(h, parts[k])
           /\ result[k] = "rejected" => Reached(h, parts[k])[Len(parts[k])] = {}
           /\ result[k] = "complete" => Reached(h, parts[k])[Len(parts[k])] # {}
<1> DEFINE s == parts[k]
           lg == longest[k]
<1>1. IsPart(h, s) /\ Grown(h, s, calls[k], state[k])
  BY PartIsGrown
<1>2. AllReached(h, s) = Tried(h, s) \ {<<>>}
  BY <1>1, AllReachedAreTried
<1>3. Tried(h, s) \ {<<>>} \in SUBSET Seq(DOMAIN s)
  BY <1>1, TriedPrefixes
<1>4. /\ DOMAIN lg = DOMAIN s
      /\ result[k] = "cut" => PartTried(h, s, calls[k], at[k], cache[k], lg)
      /\ result[k] \in {"rejected", "complete"} => Reports(s, Tried(h, s) \ {<<>>}, lg)
      /\ result[k] = "rejected" => NoFull(s, Tried(h, s))
  BY DEF ExploreInv, PartExplored
<1>5. calls[k] \in Seq(DOMAIN s) /\ IsEntry(s, at[k])
  BY <1>1, WalkStandsAt, PrefixIsTried
<1>6. result[k] = "complete" => DOMAIN s \subseteq Range(calls[k])
  BY DEF AcceptInv, PartEnds, Positions
<1> HIDE DEF s, lg
<1>7. result[k] \in {"rejected", "complete"} => Range(lg) \ {<<>>} = Reported(s, AllReached(h, s))
  BY <1>1, <1>2, <1>3, <1>4, ReportsThem
<1>8. result[k] = "cut" => Range(lg) \ {<<>>} \in CutOff(h, s)
  <2>1. result[k] = "cut" => Reports(s, Passed(h, s, calls[k], at[k]), lg)
    BY <1>4 DEF PartTried
  <2>2. QED
    BY <1>1, <1>2, <1>4, <1>5, <2>1, ReportsOfACutOff
<1>9. result[k] = "rejected" => Reached(h, s)[Len(s)] = {}
  BY <1>1, <1>4, FullOrNot
<1>10. result[k] = "complete" => Reached(h, s)[Len(s)] # {}
  BY <1>1, <1>6, FullOrNot
<1>11. QED
  BY <1>7, <1>8, <1>9, <1>10 DEF s, lg

\* When the caller returns.
LEMMA AnswerIsAReply ==
    ASSUME SearchInv, ReplayInv, AcceptInv, ExploreInv, CallerInv, Answer
    PROVE  Reply' \in Call!Replies(h)
<1>1. /\ parts = Partition(h) /\ heard \subseteq DOMAIN parts
      /\ \A k \in DOMAIN parts : result[k] \in Results
  BY DEF ReplayInv, PartReplays
<1>2. \A k \in DOMAIN parts : result[k] \in {"complete", "rejected", "cut"}
  <2>1. \A k \in DOMAIN parts : result[k] # "running"
    BY DEF Answer, CallerInv, Running
  <2>2. QED
    BY <1>1, <2>1 DEF Results
<1>3. /\ UNCHANGED <<h, parts, longest, result>>
      /\ verdict' = IF ~ok THEN "Illegal" ELSE IF timedOut THEN "Unknown" ELSE "Ok"
      /\ ~timedOut => heard = DOMAIN parts
  BY DEF Answer, search
<1>4. CASE ok /\ ~timedOut
  <2>1. \A k \in DOMAIN parts : result[k] = "complete"
    BY <1>3, <1>4 DEF AcceptInv
  <2>2. \A k \in DOMAIN parts : Reached(h, parts[k])[Len(parts[k])] # {}
    BY <2>1, PartReports
  <2>3. Call!Explored(h) = "Ok"
    BY <1>1, <2>2, SamePartition, SameReached DEF Call!Explored
  <2>4. Reply' = [verdict |-> "Ok", reports |-> <<>>]
    BY <1>3, <1>4 DEF Reply
  <2>5. QED
    BY <2>3, <2>4, OkIsAReply
<1>5. CASE ok /\ timedOut
  <2>1. TimeLimited
    BY <1>5 DEF CallerInv
  <2>2. Reply' = [verdict |-> "Unknown", reports |-> <<>>]
    BY <1>3, <1>5 DEF Reply
  <2>3. QED
    BY <2>1, <2>2, UnknownIsAReply
<1>6. CASE ~ok
  <2> DEFINE full == {k \in DOMAIN parts : result[k] # "cut"}
             r == [k \in DOMAIN parts |-> Range(longest[k]) \ {<<>>}]
  <2>1. Reply' = [verdict |-> "Illegal", reports |-> r]
    BY <1>3, <1>6 DEF Reply
  <2>2. full \in Call!MaySearchInFull(h)
    <3>1. TimeLimited \/ full = DOMAIN parts
      BY DEF CallerInv
    <3>2. full \in SUBSET DOMAIN parts
      OBVIOUS
    <3> HIDE DEF full
    <3>3. Call!Partition(h) = parts
      BY <1>1, SamePartition
    <3>4. QED
      BY <3>1, <3>2, <3>3 DEF Call!MaySearchInFull
  <2>3. Call!RejectedBy(h, full)
    <3>1. PICK k \in heard : result[k] = "rejected"
      BY <1>6 DEF CallerInv
    <3>2. k \in full /\ Reached(h, parts[k])[Len(parts[k])] = {}
      BY <1>1, <3>1, PartReports
    <3>3. Call!Partition(h) = parts /\ Call!Reached(h, parts[k]) = Reached(h, parts[k])
      BY <1>1, SamePartition, SameReached
    <3> HIDE DEF full
    <3>4. QED
      BY <3>2, <3>3 DEF Call!RejectedBy
  <2>4. ASSUME NEW k \in DOMAIN parts
        PROVE  r[k] \in Call!MayReport(h, k, full)
    <3>1. Call!Partition(h) = parts /\ r[k] = Range(longest[k]) \ {<<>>}
      BY <1>1, SamePartition
    <3>2. CASE k \in full
      <4>1. result[k] \in {"rejected", "complete"}
        BY <1>2, <3>2
      <4>2. r[k] = Call!Reported(parts[k], Call!AllReached(h, parts[k]))
        <5>1. Range(longest[k]) \ {<<>>} = Reported(parts[k], AllReached(h, parts[k]))
          BY <4>1, PartReports
        <5>2. Call!AllReached(h, parts[k]) = AllReached(h, parts[k])
          BY SameReached
        <5>3. Call!Reported(parts[k], AllReached(h, parts[k])) = Reported(parts[k], AllReached(h, parts[k]))
          BY SameReported
        <5>4. QED
          BY <3>1, <5>1, <5>2, <5>3
      <4>3. Call!MayReport(h, k, full) = {Call!Reported(parts[k], Call!AllReached(h, parts[k]))}
        BY <3>1, <3>2 DEF Call!MayReport
      <4>4. QED
        BY <4>2, <4>3
    <3>3. CASE k \notin full
      <4>1. result[k] = "cut"
        BY <3>3
      <4>2. r[k] \in Call!CutOff(h, parts[k])
        BY <3>1, <4>1, PartReports, SameCutOff
      <4>3. Call!MayReport(h, k, full) = Call!CutOff(h, parts[k])
        BY <3>1, <3>3 DEF Call!MayReport
      <4>4. QED
        BY <4>2, <4>3
    <3>4. QED
      BY <3>2, <3>3
  <2>5. r = [k \in DOMAIN Partition(h) |-> r[k]]
    BY <1>1
  <2> HIDE DEF r, full
  <2>6. [verdict |-> "Illegal", reports |-> r] \in Call!Replies(h)
    BY <1>1, <2>2, <2>3, <2>4, <2>5, IllegalIsAReply
  <2>7. QED
    BY <2>1, <2>6
<1>7. QED
  BY <1>4, <1>5, <1>6

\* Until then nothing is returned, and afterwards nothing changes what was.
LEMMA OthersStutter ==
    ASSUME CallerInv, [Next]_vars, ~Answer
    PROVE  Reply' = Reply /\ h' = h
<1>1. UNCHANGED <<h, parts, verdict>>
  BY DEF Next, Step, Lift, Skip, Backtrack, Exhaust, Complete, Cut, Hear, TimeOut, vars, caller
<1>2. verdict # "" => longest' = longest
  <2>1. ASSUME NEW k \in DOMAIN parts, verdict # ""
        PROVE  ~Running(k)
    BY <2>1 DEF CallerInv, Running
  <2>2. ASSUME NEW k \in DOMAIN parts, Step(k), verdict # ""
        PROVE  longest' = longest
    BY <2>1, <2>2 DEF Step, Lift, Skip, Backtrack, Exhaust, Complete, Cut, Hear, AtCall, AtReturn
  <2>3. ASSUME TimeOut \/ UNCHANGED vars
        PROVE  longest' = longest
    BY <2>3 DEF TimeOut, vars, search
  <2>4. QED
    BY <2>2, <2>3 DEF Next
<1>3. CASE verdict = "Illegal"
  BY <1>1, <1>2, <1>3 DEF Reply
<1>4. CASE verdict # "Illegal"
  BY <1>1, <1>4 DEF Reply
<1>5. QED
  BY <1>1, <1>3, <1>4

\* The search is one call of the checker: through the cache of states, the lifting of
\* entries and the timeout it answers, for every history and however its goroutines
\* interleave, with a verdict and reports that the definition of the call allows.
THEOREM SearchImplementsCheck == Spec => ImplementsCheckCall
<1> DEFINE Inv == SearchInv /\ ReplayInv /\ AcceptInv /\ ExploreInv /\ CallerInv
<1>1. Init => Inv
  <2>1. Init => CallerInv
    BY DEF Init, CallerInv
  <2>2. QED
    BY <2>1, InitInv, InitReplay, InitAccept, InitExplore
<1>2. Inv /\ [Next]_vars => Inv'
  BY StepInv, StepReplay, StepAccept, StepExplore, StepCaller
<1>3. Init => Call!Init
  BY DEF Init, Call!Init, Call!NoReply, Call!WithoutReports, Reply
<1>4. Inv /\ [Next]_vars => [Call!Return]_<<h, Reply>>
  <2>1. ASSUME Inv, Answer
        PROVE  Call!Return
    <3>1. Reply = Call!NoReply
      BY <2>1 DEF Answer, Reply, Call!NoReply, Call!WithoutReports
    <3>2. Reply' \in Call!Replies(h) /\ h' = h
      BY <2>1, AnswerIsAReply DEF Answer
    <3>3. QED
      BY <3>1, <3>2 DEF Call!Return
  <2>2. ASSUME Inv, [Next]_vars, ~Answer
        PROVE  UNCHANGED <<h, Reply>>
    BY <2>2, OthersStutter
  <2>3. QED
    BY <2>1, <2>2
<1> HIDE DEF Inv
<1>5. QED
  BY <1>1, <1>2, <1>3, <1>4, PTL DEF Spec, ImplementsCheckCall, Call!Spec
=============================================================================
