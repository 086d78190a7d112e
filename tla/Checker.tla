------------------------------ MODULE Checker -------------------------------
(***************************************************************************)
(* pkg/checker: one call of Check, which runs the search and reconstructs, *)
(* from the partial linearizations it reports, why each operation that is  *)
(* in none of them ("blocked") could not be placed.                        *)
(*                                                                         *)
(* Check(h) is the set of the traces a call may return: ties among the     *)
(* longest partial linearizations are broken by the order of a Go map, and *)
(* the search may be cut off by the timeout.                               *)
(***************************************************************************)
EXTENDS Porcupine

CONSTANT MayTimeOut        \* whether a search may exceed the timeout

Constraints == {"value-mismatch", "real-time-precedes", "concurrent-conflict"}

Ids(s) == [k \in DOMAIN s |-> s[k].id]

\* The operations S in the order of their ids.
ById(S) ==
    [k \in 1..Cardinality(S) |-> CHOOSE op \in S : Cardinality({a \in S : a.id <= op.id}) = k]

\* BlockedOps: the operations of the part s in no partial linearization,
\* sorted by id.
BlockedOps(s, partials) == ById(Range(s) \ UNION {Range(p) : p \in partials})

\* The longest partial linearization; which one, on a tie, the map decides.
BestPrefixes(partials) ==
    IF partials = {} THEN {<<>>}
    ELSE {p \in partials : \A q \in partials : Len(q) <= Len(p)}

\* Deviation: the operations that finished before op started.
InversionsSwapped(op, prefix) == Only(prefix, {k \in DOMAIN prefix : Precedes(prefix[k], op)})

\* The operations of the prefix that started after op had finished.
Inversions(op, prefix) == Only(prefix, {k \in DOMAIN prefix : Precedes(op, prefix[k])})

lastWriteIn(prefix) ==
    LET last == SelectLastInSeq(prefix, IsWrite)
    IN  IF last = 0 THEN <<>> ELSE <<prefix[last].id>>

Reason(op, prefix, constraint, with) ==
    [opID |-> op.id, prefixIDs |-> Ids(prefix),
     constraint |-> constraint, conflictWith |-> with]

\* Deviation: op is tried in the initial state, the prefix is not replayed.
classifyBlockWithoutReplay(h, op, prefix) ==
    CASE Inversions(op, prefix) # <<>> ->
            Reason(op, prefix, "real-time-precedes", Ids(Inversions(op, prefix)))
      [] Inversions(op, prefix) = <<>> /\ ~Legal(op, InitState(h)) ->
            Reason(op, prefix, "value-mismatch", lastWriteIn(prefix))
      [] OTHER -> Reason(op, prefix, "concurrent-conflict", <<>>)

\* The reason, in the order the code tries the constraints.
classifyBlock(h, op, prefix) ==
    LET replay == Replay(h, prefix)
    IN  CASE Inversions(op, prefix) # <<>> ->
                Reason(op, prefix, "real-time-precedes", Ids(Inversions(op, prefix)))
          [] Inversions(op, prefix) = <<>> /\ replay.ok /\ ~Legal(op, replay.state) ->
                Reason(op, prefix, "value-mismatch", lastWriteIn(prefix))
          [] OTHER -> Reason(op, prefix, "concurrent-conflict", <<>>)

\* buildPartitionTrace, for the longest prefix that the map order picks.
PartitionTrace(h, s, partials, best) ==
    LET blocked == BlockedOps(s, partials)
    IN  [longestPrefix |-> Ids(best),
         partials      |-> {Ids(p) : p \in partials},
         blockedOps    |-> Ids(blocked),
         blocks        |-> [k \in DOMAIN blocked |-> classifyBlock(h, blocked[k], best)]]

\* Deviation: the second split gives the parts in another order.
partitionOpsReversed(h) == Reverse(Partition(h))

\* The operations are split once more, and part and report are matched by
\* their positions.
partitionOps(h) == Partition(h)

PartitionTraces(h, s, partials) ==
    {PartitionTrace(h, s, partials, best) : best \in BestPrefixes(partials)}

Verdict(h, result) == [history |-> h, result |-> result, partitions |-> <<>>]

\* The verdict is Illegal as soon as one part has been searched in vain, even
\* if the searches of others were cut off.
RejectedBy(h, full) ==
    \E k \in full : LET s == Partition(h)[k] IN Reached(h, s)[Len(s)] = {}

\* The traces of a rejection, when the searches of the parts full came to
\* their ends and those of the others were cut off.
Rejections(h, full) ==
    LET parts   == Partition(h)
        Reports(k) == IF k \in full THEN {PartialLinearizations(h, parts[k])}
                      ELSE {Operations(parts[k], P) : P \in CutOff(h, parts[k])}
        traces  == [k \in DOMAIN parts |->
                        UNION {PartitionTraces(h, partitionOps(h)[k], r) : r \in Reports(k)}]
    IN  {[history |-> h, result |-> "Illegal", partitions |-> ps] :
            ps \in {f \in [DOMAIN parts -> UNION Range(traces)] :
                        \A k \in DOMAIN parts : f[k] \in traces[k]}}

\* The sets of parts that may be searched to their ends.
MaySearchInFull(h) ==
    IF MayTimeOut THEN SUBSET DOMAIN Partition(h) ELSE {DOMAIN Partition(h)}

Check(h) ==
    (IF Explored(h) = "Ok" THEN {Verdict(h, "Ok")} ELSE {})
    \union (UNION {Rejections(h, full) :
                    full \in {f \in MaySearchInFull(h) : RejectedBy(h, f)}})
    \union (IF MayTimeOut THEN {Verdict(h, "Unknown")} ELSE {})
=============================================================================
