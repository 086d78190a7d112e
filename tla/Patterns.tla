------------------------------ MODULE Patterns ------------------------------
(***************************************************************************)
(* pkg/pattern: the catalogue of named violations.  Each matcher looks, in *)
(* the rejection trace, for the first blocked operation that fits its      *)
(* template (non_monotonic_read looks at the reads of the clients instead) *)
(* and says which operations are in conflict.                              *)
(*                                                                         *)
(* Match(m, rt) is the set of the explanations matcher m may give for the  *)
(* trace rt: empty when it does not fit, and with more than one element    *)
(* when the order of a Go map decides which conflict it meets first.       *)
(***************************************************************************)
EXTENDS Histories, SequencesExt

All == <<"phantom_value", "realtime_inversion", "non_monotonic_read",
         "lost_update", "stale_read">>

\* An explanation as a matcher returns it, with its own witness: the
\* operations of the history it gives as the shape of the violation.
Explanation(m, rt, conflict, witness) ==
    [verdict |-> "non-linearizable", pattern |-> m,
     conflict |-> [k \in DOMAIN conflict |-> conflict[k].id],
     witness |-> WithOps(rt.history, witness)]

\* The positions of the writes of value v.
WritesOfValue(h, v) ==
    {k \in DOMAIN h.ops : IsWrite(h.ops[k]) /\ h.ops[k].value = v}

\* The positions of the writes that completed before op started.
PrecedingWrites(h, op) ==
    {k \in DOMAIN h.ops : IsWrite(h.ops[k]) /\ Precedes(h.ops[k], op)}

\* The blocked operations are found at pairs <<partition, block>>.
Block(rt, x) == rt.partitions[x[1]].blocks[x[2]]

BlockedOp(rt, x) == findOp(rt.history, Block(rt, x).opID)

\* Where the blocked reads of all partitions are; only those with a value
\* mismatch when the template asks for it.
BlockedReads(rt, mismatchOnly) ==
    {x \in UNION {{p} \X DOMAIN rt.partitions[p].blocks : p \in DOMAIN rt.partitions} :
        /\ mismatchOnly => Block(rt, x).constraint = "value-mismatch"
        /\ IsRead(BlockedOp(rt, x))}

\* What two nested loops meet first: the least pair of X, if there is one.
MetFirst(X) ==
    {x \in X : \A y \in X : x[1] < y[1] \/ (x[1] = y[1] /\ x[2] <= y[2])}

\* The explanation Explain gives for the first blocked read that fits.
FirstFit(rt, mismatchOnly, Fits(_), Explain(_)) ==
    {Explain(BlockedOp(rt, x)) :
        x \in MetFirst({y \in BlockedReads(rt, mismatchOnly) : Fits(BlockedOp(rt, y))})}

-----------------------------------------------------------------------------
(* The five templates *)

PhantomValue(rt) ==
    LET h == rt.history
    IN  FirstFit(rt, FALSE,
            LAMBDA read : read.value # h.init /\ WritesOfValue(h, read.value) = {},
            LAMBDA read : Explanation("phantom_value", rt, <<read>>, <<read>>))

RealtimeInversion(rt) ==
    LET h == rt.history
        Future(read) == {k \in WritesOfValue(h, read.value) : Precedes(read, h.ops[k])}
        Past(read)   == {k \in WritesOfValue(h, read.value) : Precedes(h.ops[k], read)}
        Both(read)   == <<read, h.ops[Min(Future(read))]>>
    IN  FirstFit(rt, FALSE,
            LAMBDA read : /\ read.value # h.init
                          /\ Future(read) # {}
                          /\ Past(read) = {},
            LAMBDA read : Explanation("realtime_inversion", rt, Both(read), Both(read)))

\* Value v2 belongs to an older state than v1, as far as isOlderState can tell.
isOlderState(h, v1, v2) ==
    \/ v2 = h.init /\ WritesOfValue(h, v1) # {}
    \/ \E j \in WritesOfValue(h, v1), k \in WritesOfValue(h, v2) :
            Precedes(h.ops[k], h.ops[j])

\* Two reads of one client, in this order, of which the second goes back.
GoesBack(h, r1, r2) ==
    /\ Precedes(r1, r2)
    /\ r1.value # r2.value
    /\ r1.value = h.init \/ WritesOfValue(h, r1.value) # {}
    /\ r2.value = h.init \/ WritesOfValue(h, r2.value) # {}
    /\ isOlderState(h, r1.value, r2.value)

\* buildMonotonicWitness: both reads and every write of their values.
MonotonicWitness(h, r1, r2) ==
    SelectSeq(h.ops, LAMBDA op : \/ op.id \in {r1.id, r2.id}
                                 \/ IsWrite(op) /\ op.value \in {r1.value, r2.value})

\* The clients are visited in the order of a Go map; within a client the pair
\* with the first r1, and for that the first r2, is taken.
NonMonotonicRead(rt) ==
    LET h == rt.history
        ReadsBy(c) == {k \in DOMAIN h.ops : IsRead(h.ops[k]) /\ h.ops[k].client = c}
        Back(c)    == {x \in ReadsBy(c) \X ReadsBy(c) : GoesBack(h, h.ops[x[1]], h.ops[x[2]])}
    IN  {Explanation("non_monotonic_read", rt, <<h.ops[x[1]], h.ops[x[2]]>>,
                     MonotonicWitness(h, h.ops[x[1]], h.ops[x[2]])) :
            x \in UNION {MetFirst(Back(op.client)) : op \in OpsOf(h)}}

\* Deviation: the earliest write is taken to be the last one.
EarliestIsLast(h, P) == h.ops[Max(P)]

\* The first of the writes at P with the largest, and with the smallest, return.
Latest(h, P) ==
    h.ops[Min({k \in P : \A j \in P : h.ops[j].return <= h.ops[k].return})]

Earliest(h, P) ==
    h.ops[Min({k \in P : \A j \in P : h.ops[j].return >= h.ops[k].return})]

LostUpdate(rt) ==
    LET h == rt.history
        Preceding(read) == PrecedingWrites(h, read)
        Three(read) == <<Earliest(h, Preceding(read)), Latest(h, Preceding(read)), read>>
    IN  FirstFit(rt, TRUE,
            LAMBDA read : /\ Cardinality(Preceding(read)) >= 2
                          /\ read.value # Latest(h, Preceding(read)).value,
            LAMBDA read : Explanation("lost_update", rt, Three(read), Three(read)))

StaleRead(rt) ==
    LET h == rt.history
        Newer(read) == {k \in PrecedingWrites(h, read) : h.ops[k].value # read.value}
        Both(read)  == <<h.ops[Min(Newer(read))], read>>
    IN  FirstFit(rt, TRUE,
            LAMBDA read : Newer(read) # {},
            LAMBDA read : Explanation("stale_read", rt, Both(read), Both(read)))

Template(m, rt) ==
    CASE m = "phantom_value"      -> PhantomValue(rt)
      [] m = "realtime_inversion" -> RealtimeInversion(rt)
      [] m = "non_monotonic_read" -> NonMonotonicRead(rt)
      [] m = "lost_update"        -> LostUpdate(rt)
      [] m = "stale_read"         -> StaleRead(rt)

\* Every matcher declines a trace that is not a rejection.
Match(m, rt) == IF rt.result = "Illegal" THEN Template(m, rt) ELSE {}
=============================================================================
