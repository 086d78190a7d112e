------------------------ MODULE JepsenAdapterProofs -------------------------
(***************************************************************************)
(* Proofs about JepsenAdapter, for every log.                              *)
(***************************************************************************)
EXTENDS JepsenAdapter, TLAPS

\* What waits is an :invoke of a client, with no event of its process since.
PendingIsLatest ==
    \A a \in pending :
        /\ a \in 1..i - 1
        /\ log[a].type = "invoke" /\ OfClient(log[a])
        /\ \A c \in a + 1..i - 1 : log[c].process # log[a].process

\* Nothing else waits: an :invoke of a client is kept until the next event of its process.
LatestIsPending ==
    \A a \in 1..i - 1 :
        /\ log[a].type = "invoke" /\ OfClient(log[a])
        /\ \A c \in a + 1..i - 1 : log[c].process # log[a].process
        => a \in pending

\* An entry of the kinds that a log has.
Readable(e) ==
    /\ e.type # "not-a-map"
    /\ OfClient(e) => e.type \in {"invoke", "ok", "fail", "info"}

\* An operation that buildOp made of what can be converted.
Whole(op) ==
    /\ op.call # NotAnInteger /\ op.return # NotAnInteger
    /\ op.type \in {"read", "write"} /\ op.value # NotAnInteger

\* What has been read, and why the call ended if it has.
ReadSoFar ==
    /\ \A c \in 1..i - 1 : Readable(log[c])
    /\ \A k \in DOMAIN ops : Whole(ops[k])
    /\ outcome = "history" => i = Len(log) + 1
    /\ outcome = "error" => i \in 1..Len(log) /\ Unreadable

Built(Entries) == {buildOp(id, a, b) : id \in Nat, a \in Entries, b \in Entries}

\* The inductive invariant.
IInv(Entries) ==
    /\ log \in Seq(Entries)
    /\ i \in 1..Len(log) + 1
    /\ ops \in Seq(Built(Entries))
    /\ nextID = Len(ops)
    /\ PendingIsLatest /\ LatestIsPending
    /\ ReadSoFar
    /\ OpsArePairs

\* Nothing has been read.
LEMMA BeginPairs ==
    ASSUME NEW Entries, log \in Seq(Entries), Begin
    PROVE  IInv(Entries)
<1>1. ops \in Seq(Built(Entries)) /\ Len(ops) = 0 /\ DOMAIN ops = {}
  BY DEF Begin
<1>2. i = 1 /\ pending = {} /\ nextID = 0 /\ Len(log) \in Nat
  BY DEF Begin
<1>3. OkEvents = {}
  BY <1>2 DEF OkEvents
<1> DEFINE f == [k \in {} |-> 0]
<1>4. f \in [DOMAIN ops -> OkEvents]
  BY <1>1, <1>3
<1>5. OpsArePairs
  BY <1>1, <1>3, <1>4 DEF OpsArePairs, Pairs
<1>6. PendingIsLatest
  BY <1>2 DEF PendingIsLatest
<1>7. LatestIsPending /\ ReadSoFar
  BY <1>1, <1>2 DEF LatestIsPending, ReadSoFar, Begin
<1>8. QED
  BY <1>1, <1>2, <1>5, <1>6, <1>7 DEF IInv

\* Pairs depends on the log, the operations and the completions read only.
LEMMA SamePairs ==
    ASSUME NEW f, Pairs(f), UNCHANGED <<log, ops, OkEvents>>
    PROVE  Pairs(f)'
<1>1. \A k \in DOMAIN ops' : \E a \in 1..f[k] - 1 :
            Completes(a, f[k])' /\ ops'[k] = buildOp(k - 1, log'[a], log'[f[k]])
  BY DEF Pairs, Completes
<1>2. QED
  BY <1>1 DEF Pairs

\* An entry that is not an :ok of a client adds no operation.
LEMMA OtherEntryPairs ==
    ASSUME NEW Entries, IInv(Entries), Reading,
           ~(OfClient(Entry) /\ Entry.type = "ok"),
           i' = i + 1, UNCHANGED <<log, nextID, ops>>
    PROVE  OpsArePairs'
<1>1. OkEvents' = OkEvents
  <2>1. i \in Nat /\ i >= 1
    BY DEF IInv
  <2>2. 1..i' - 1 = (1..i - 1) \union {i}
    BY <2>1
  <2>3. QED
    BY <2>1, <2>2 DEF OkEvents, OfClient, Entry
<1>2. PICK f \in [DOMAIN ops -> OkEvents] : Pairs(f)
  BY DEF IInv, OpsArePairs
<1>3. Pairs(f)'
  BY <1>1, <1>2, SamePairs
<1>4. QED
  BY <1>1, <1>2, <1>3 DEF OpsArePairs

\* An :ok adds the operation of the invocation that waits.
LEMMA OkPairs ==
    ASSUME NEW Entries, IInv(Entries), Ok
    PROVE  OpsArePairs'
<1>1. PICK a \in PendingOf(Entry.process) : ops' = Append(ops, buildOp(nextID, log[a], Entry))
  BY DEF Ok
<1>2. i \in 1..Len(log) /\ i' = i + 1 /\ log' = log /\ log \in Seq(Entries)
  BY DEF Ok, Reading, IInv
<1>3. a \in 1..i - 1 /\ Completes(a, i)
  <2>1. a \in pending /\ log[a].process = log[i].process
    BY DEF PendingOf, Entry
  <2>2. /\ a \in 1..i - 1 /\ log[a].type = "invoke"
        /\ \A c \in a + 1..i - 1 : log[c].process # log[a].process
    BY <2>1 DEF IInv, PendingIsLatest
  <2>3. log[i].type = "ok"
    BY DEF Ok, Entry
  <2>4. QED
    BY <1>2, <2>1, <2>2, <2>3 DEF Completes
<1> DEFINE n == Len(ops)
           new == buildOp(n, log[a], log[i])
<1>4. n \in Nat /\ new \in Built(Entries)
  <2>1. n \in Nat
    BY DEF IInv
  <2>2. log[a] \in Entries /\ log[i] \in Entries
    BY <1>2, <1>3
  <2>3. QED
    BY <2>1, <2>2 DEF Built
<1>5. ops' = Append(ops, new)
  BY <1>1 DEF IInv, Entry
<1>6. /\ DOMAIN ops = 1..n /\ DOMAIN ops' = 1..n + 1
      /\ \A k \in 1..n : ops'[k] = ops[k]
      /\ ops'[n + 1] = new
  <2> HIDE DEF new
  <2>1. ops \in Seq(Built(Entries))
    BY DEF IInv
  <2>2. QED
    BY <1>4, <1>5, <2>1
<1>7. OkEvents' = OkEvents \union {i} /\ OkEvents \subseteq 1..i - 1
  <2>1. 1..i' - 1 = (1..i - 1) \union {i}
    BY <1>2
  <2>2. OfClient(log[i]) /\ log[i].type = "ok"
    BY DEF Ok, Entry
  <2>3. QED
    BY <1>2, <2>1, <2>2 DEF OkEvents, OfClient
<1>8. PICK f \in [DOMAIN ops -> OkEvents] :
        /\ \A j, k \in DOMAIN ops : j < k => f[j] < f[k]
        /\ \A b \in OkEvents : \E k \in DOMAIN ops : f[k] = b
        /\ \A k \in DOMAIN ops : \E c \in 1..f[k] - 1 :
                Completes(c, f[k]) /\ ops[k] = buildOp(k - 1, log[c], log[f[k]])
  BY DEF IInv, OpsArePairs, Pairs
<1>9. PICK g \in [DOMAIN ops' -> OkEvents'] : g[n + 1] = i /\ \A k \in 1..n : g[k] = f[k]
  <2> DEFINE e == [k \in 1..n + 1 |-> IF k = n + 1 THEN i ELSE f[k]]
  <2>1. e \in [DOMAIN ops' -> OkEvents'] /\ e[n + 1] = i /\ \A k \in 1..n : e[k] = f[k]
    BY <1>4, <1>6, <1>7, <1>8
  <2> HIDE DEF e
  <2>2. QED
    BY <2>1
<1>10. \A j, k \in DOMAIN ops' : j < k => g[j] < g[k]
  <2>1. SUFFICES ASSUME NEW j \in 1..n + 1, NEW k \in 1..n + 1, j < k
                 PROVE  g[j] < g[k]
    BY <1>6
  <2>2. j \in 1..n /\ f[j] \in 1..i - 1
    <3>1. j \in 1..n
      BY <1>4, <2>1
    <3>2. f[j] \in OkEvents
      BY <1>6, <1>8, <3>1
    <3>3. QED
      BY <1>7, <3>1, <3>2
  <2>3. CASE k = n + 1
    BY <1>2, <1>9, <2>2, <2>3
  <2>4. CASE k \in 1..n
    BY <1>6, <1>8, <1>9, <2>1, <2>2, <2>4
  <2>5. QED
    BY <1>4, <2>3, <2>4
<1>11. \A b \in OkEvents' : \E k \in DOMAIN ops' : g[k] = b
  <2>1. SUFFICES ASSUME NEW b \in OkEvents'
                 PROVE  \E k \in 1..n + 1 : g[k] = b
    BY <1>6
  <2>2. CASE b = i
    BY <1>4, <1>9, <2>2
  <2>3. CASE b \in OkEvents
    BY <1>4, <1>6, <1>8, <1>9, <2>3
  <2>4. QED
    BY <1>7, <2>2, <2>3
<1>12. \A k \in DOMAIN ops' : \E c \in 1..g[k] - 1 :
          Completes(c, g[k]) /\ ops'[k] = buildOp(k - 1, log[c], log[g[k]])
  <2> HIDE DEF new
  <2>1. SUFFICES ASSUME NEW k \in 1..n + 1
                 PROVE  \E c \in 1..g[k] - 1 :
                          Completes(c, g[k]) /\ ops'[k] = buildOp(k - 1, log[c], log[g[k]])
    BY <1>6
  <2>2. CASE k = n + 1
    <3>1. ops'[k] = buildOp(k - 1, log[a], log[g[k]])
      <4>1. k - 1 = n
        BY <1>4, <2>2
      <4>2. QED
        BY <1>6, <1>9, <2>2, <4>1 DEF new
    <3>2. QED
      BY <1>3, <1>9, <2>2, <3>1
  <2>3. CASE k \in 1..n
    <3>1. g[k] = f[k] /\ ops'[k] = ops[k] /\ k \in DOMAIN ops
      BY <1>6, <1>9, <2>3
    <3>2. QED
      BY <1>8, <3>1
  <2>4. QED
    BY <1>4, <2>2, <2>3
<1>13. QED
  <2>1. \A c, d : Completes(c, d)' = Completes(c, d)
    BY <1>2 DEF Completes
  <2>2. Pairs(g)'
    BY <1>2, <1>10, <1>11, <1>12, <2>1 DEF Pairs
  <2>3. QED
    BY <1>9, <2>2 DEF OpsArePairs

\* What waits after an entry has been read.
LEMMA PendingStaysLatest ==
    ASSUME NEW Entries, IInv(Entries), Reading,
           SkipOther \/ Invoke \/ Ok \/ Drop
    PROVE  PendingIsLatest'
<1>1. i \in Nat /\ i >= 1 /\ i' = i + 1 /\ log' = log
  BY DEF IInv, SkipOther, Invoke, Ok, Drop
<1>2. SUFFICES ASSUME NEW a \in pending'
               PROVE  /\ a \in 1..i
                      /\ log[a].type = "invoke" /\ OfClient(log[a])
                      /\ \A c \in a + 1..i : log[c].process # log[a].process
  BY <1>1 DEF PendingIsLatest, OfClient
<1>3. CASE a \in pending /\ log[a].process # log[i].process
  BY <1>1, <1>3 DEF IInv, PendingIsLatest
<1>4. CASE Invoke /\ a = i
  BY <1>1, <1>4 DEF Invoke, Entry
<1>5. SkipOther => a \in pending /\ log[a].process # log[i].process
  BY DEF SkipOther, IInv, PendingIsLatest, OfClient, Entry
<1>6. Invoke => a = i \/ (a \in pending /\ log[a].process # log[i].process)
  BY DEF Invoke, PendingOf, Entry
<1>7. Drop => a \in pending /\ log[a].process # log[i].process
  BY DEF Drop, PendingOf, Entry
<1>8. Ok => a \in pending /\ log[a].process # log[i].process
  <2>1. SUFFICES ASSUME Ok
                 PROVE  a \in pending /\ log[a].process # log[i].process
    OBVIOUS
  <2>2. PICK b \in PendingOf(log[i].process) : pending' = pending \ {b}
    BY <2>1 DEF Ok, Entry
  <2>3. b \in pending /\ a \in pending /\ a # b /\ log[b].process = log[i].process
    BY <2>2 DEF PendingOf
  <2>4. log[a].process # log[b].process
    <3>1. /\ a \in 1..i - 1 /\ b \in 1..i - 1
          /\ \A c \in a + 1..i - 1 : log[c].process # log[a].process
          /\ \A c \in b + 1..i - 1 : log[c].process # log[b].process
      BY <2>3 DEF IInv, PendingIsLatest
    <3>2. b \in a + 1..i - 1 \/ a \in b + 1..i - 1
      BY <1>1, <2>3, <3>1
    <3>3. QED
      BY <3>1, <3>2
  <2>5. QED
    BY <2>3, <2>4
<1>9. QED
  BY <1>3, <1>4, <1>5, <1>6, <1>7, <1>8

\* What still waits for its next event, when one more entry has been read.
LEMMA LatestStaysPending ==
    ASSUME NEW Entries, IInv(Entries), Reading,
           SkipOther \/ Invoke \/ Ok \/ Drop
    PROVE  LatestIsPending'
<1>1. i \in Nat /\ i >= 1 /\ i' = i + 1 /\ i' - 1 = i /\ log' = log
  BY DEF IInv, SkipOther, Invoke, Ok, Drop
<1>2. SUFFICES ASSUME NEW a \in 1..i,
                      log[a].type = "invoke", OfClient(log[a]),
                      \A c \in a + 1..i : log[c].process # log[a].process
               PROVE  a \in pending'
  BY <1>1 DEF LatestIsPending, OfClient
<1>3. CASE a = i
  <2>1. Entry.type = "invoke" /\ OfClient(Entry)
    BY <1>2, <1>3 DEF Entry
  <2>2. Invoke
    BY <2>1 DEF SkipOther, Ok, Drop
  <2>3. QED
    BY <1>3, <2>2 DEF Invoke
<1>4. CASE a # i
  <2>1. a \in 1..i - 1 /\ i \in a + 1..i
    BY <1>1, <1>4
  <2>2. a \in pending /\ log[a].process # log[i].process
    <3>1. LatestIsPending
      BY DEF IInv
    <3>2. \A c \in a + 1..i - 1 : log[c].process # log[a].process
      BY <1>1, <1>2
    <3>3. log[a].type = "invoke" /\ OfClient(log[a]) /\ log[i].process # log[a].process
      BY <1>2, <2>1
    <3>4. QED
      BY <2>1, <3>1, <3>2, <3>3 DEF LatestIsPending
  <2>3. a \notin PendingOf(Entry.process)
    BY <2>2 DEF PendingOf, Entry
  <2>4. QED
    BY <2>2, <2>3 DEF SkipOther, Invoke, Ok, Drop
<1>5. QED
  BY <1>3, <1>4

\* What is added to what has been read.
LEMMA ReadsOn ==
    ASSUME NEW Entries, IInv(Entries), ReadEDN
    PROVE  ReadSoFar'
<1>1. log' = log /\ i \in 1..Len(log) + 1 /\ Len(log) \in Nat /\ log \in Seq(Entries) /\ ReadSoFar
  BY DEF IInv, ReadEDN, SkipOther, Invoke, Ok, Drop, Refuse, Finish
<1>2. CASE SkipOther \/ Invoke \/ Drop \/ Ok
  <2>1. Reading /\ i' = i + 1 /\ outcome' = outcome /\ outcome = "reading" /\ Readable(log[i])
    BY <1>2 DEF SkipOther, Invoke, Drop, Ok, Reading, Readable, Entry
  <2>2. \A c \in 1..i' - 1 : Readable(log[c])
    <3>1. 1..i' - 1 = (1..i - 1) \union {i}
      BY <1>1, <2>1
    <3>2. QED
      BY <1>1, <2>1, <3>1 DEF ReadSoFar
  <2>3. \A k \in DOMAIN ops' : Whole(ops'[k])
    <3>1. CASE ops' = ops
      BY <1>1, <3>1 DEF ReadSoFar
    <3>2. CASE Ok
      <4>1. PICK a \in PendingOf(Entry.process) :
              Convertible(log[a], Entry) /\ ops' = Append(ops, buildOp(nextID, log[a], Entry))
        BY <3>2 DEF Ok
      <4> DEFINE new == buildOp(nextID, log[a], Entry)
      <4>2. Whole(new)
        BY <4>1 DEF Convertible, buildOp, Whole
      <4>3. ops' = Append(ops, new) /\ ops \in Seq(Built(Entries))
        BY <4>1 DEF IInv
      <4> HIDE DEF new
      <4>4. PICK n \in Nat : n = Len(ops)
        BY <4>3
      <4>5. /\ DOMAIN ops = 1..n /\ DOMAIN ops' = 1..n + 1
            /\ ops'[n + 1] = new /\ \A k \in 1..n : ops'[k] = ops[k]
        BY <4>3, <4>4
      <4>6. \A k \in 1..n : Whole(ops[k])
        BY <1>1, <4>5 DEF ReadSoFar
      <4>7. QED
        BY <4>2, <4>4, <4>5, <4>6
    <3>3. QED
      BY <1>2, <3>1, <3>2 DEF SkipOther, Invoke, Drop
  <2>4. QED
    BY <1>1, <2>1, <2>2, <2>3 DEF ReadSoFar, Readable, OfClient
<1>3. CASE Refuse
  BY <1>1, <1>3 DEF Refuse, ReadSoFar, Readable, OfClient, Reading, Unreadable, Entry, PendingOf,
                    Convertible, ValueOf, Whole
<1>4. CASE Finish
  BY <1>1, <1>4 DEF Finish, ReadSoFar, Readable, OfClient, Whole
<1>5. QED
  BY <1>2, <1>3, <1>4 DEF ReadEDN

\* Every step keeps the invariant.
LEMMA StepPairs ==
    ASSUME NEW Entries, IInv(Entries), [ReadEDN]_vars
    PROVE  IInv(Entries)'
<1>1. CASE SkipOther \/ Invoke \/ Drop
  <2>1. Reading /\ i' = i + 1 /\ UNCHANGED <<log, nextID, ops>>
    BY <1>1 DEF SkipOther, Invoke, Drop
  <2>2. ~(OfClient(Entry) /\ Entry.type = "ok")
    BY <1>1 DEF SkipOther, Invoke, Drop
  <2>3. OpsArePairs' /\ PendingIsLatest' /\ LatestIsPending' /\ ReadSoFar'
    BY <1>1, <2>1, <2>2, OtherEntryPairs, PendingStaysLatest, LatestStaysPending, ReadsOn
       DEF ReadEDN
  <2>4. i' \in 1..Len(log) + 1
    BY <2>1 DEF IInv, Reading
  <2>5. QED
    BY <2>1, <2>3, <2>4 DEF IInv
<1>2. CASE Ok
  <2>1. Reading /\ i' = i + 1 /\ log' = log /\ nextID' = nextID + 1
    BY <1>2 DEF Ok
  <2>2. PICK a \in PendingOf(Entry.process) : ops' = Append(ops, buildOp(nextID, log[a], Entry))
    BY <1>2 DEF Ok
  <2>3. buildOp(nextID, log[a], Entry) \in Built(Entries)
    <3>1. a \in 1..i - 1 /\ i \in 1..Len(log) /\ log \in Seq(Entries)
      BY <2>1 DEF PendingOf, IInv, PendingIsLatest, Reading
    <3>2. log[a] \in Entries /\ Entry \in Entries
      BY <3>1 DEF Entry
    <3>3. nextID \in Nat
      BY DEF IInv
    <3>4. QED
      BY <3>2, <3>3 DEF Built
  <2>4. ops' \in Seq(Built(Entries)) /\ nextID' = Len(ops')
    <3> DEFINE new == buildOp(nextID, log[a], Entry)
    <3> HIDE DEF new
    <3>1. ops \in Seq(Built(Entries)) /\ nextID = Len(ops) /\ new \in Built(Entries)
      BY <2>3 DEF IInv, new
    <3>2. ops' = Append(ops, new)
      BY <2>2 DEF new
    <3>3. QED
      BY <2>1, <3>1, <3>2
  <2>5. OpsArePairs' /\ PendingIsLatest' /\ LatestIsPending' /\ ReadSoFar'
    BY <1>2, <2>1, OkPairs, PendingStaysLatest, LatestStaysPending, ReadsOn DEF ReadEDN
  <2>6. log \in Seq(Entries) /\ i' \in 1..Len(log) + 1
    BY <2>1 DEF IInv, Reading
  <2>7. QED
    BY <2>1, <2>4, <2>5, <2>6 DEF IInv
<1>3. CASE Refuse \/ Finish \/ UNCHANGED vars
  <2>1. UNCHANGED <<log, i, pending, nextID, ops>>
    BY <1>3 DEF Refuse, Finish, vars, adapter
  <2>2. PendingIsLatest' /\ LatestIsPending'
    BY <2>1 DEF IInv, PendingIsLatest, LatestIsPending, OfClient
  <2>3. ReadSoFar'
    <3>1. CASE Refuse \/ Finish
      BY <3>1, ReadsOn DEF ReadEDN
    <3>2. CASE UNCHANGED vars
      BY <3>2 DEF IInv, vars, adapter, ReadSoFar, Readable, OfClient, Whole, Unreadable, Entry,
                  PendingOf, Convertible, ValueOf
    <3>3. QED
      BY <1>3, <3>1, <3>2
  <2>4. OpsArePairs'
    <3>1. PICK f \in [DOMAIN ops -> OkEvents] : Pairs(f)
      BY DEF IInv, OpsArePairs
    <3>2. OkEvents' = OkEvents
      BY <2>1 DEF OkEvents, OfClient
    <3>3. Pairs(f)'
      BY <2>1, <3>1, <3>2, SamePairs
    <3>4. QED
      BY <2>1, <3>1, <3>2, <3>3 DEF OpsArePairs
  <2>5. QED
    BY <2>1, <2>2, <2>3, <2>4 DEF IInv
<1>4. QED
  BY <1>1, <1>2, <1>3 DEF ReadEDN

\* Whatever the log, ReadEDN makes of every :ok one operation, in their order, and
\* pairs it with the event of its process right before it, an :invoke: it never
\* joins the halves of different operations.
THEOREM PairsAreAdjacent ==
    ASSUME NEW Entries
    PROVE  log \in Seq(Entries) /\ Spec => []OpsArePairs
<1>1. log \in Seq(Entries) /\ Begin => IInv(Entries)
  BY BeginPairs
<1>2. IInv(Entries) /\ [ReadEDN]_vars => IInv(Entries)'
  BY StepPairs
<1>3. IInv(Entries) => OpsArePairs
  BY DEF IInv
<1>4. QED
  BY <1>1, <1>2, <1>3, PTL DEF Spec
=============================================================================
