----------------------------- MODULE DDMinCost ------------------------------
(***************************************************************************)
(* DDMin with a count of the calls of the predicate.  Every call re-runs   *)
(* the linearizability checker, whose own cost is exponential, so the      *)
(* number of calls is what makes minimization usable or not; the design    *)
(* document accepts a number quadratic in the length of the history.       *)
(***************************************************************************)
EXTENDS DDMin

VARIABLE asked             \* how often the predicate has been called

\* The short circuits of DDMin and ddmin: a history of fewer than two
\* operations and a candidate that is empty or whole are not asked about.
Asks ==
    \/ phase = "start" /\ Len(ops) >= 2
    \/ phase = "subset" /\ i <= NumChunks /\ Candidate(Chunk(i))
    \/ phase = "complement" /\ i <= NumChunks /\ Candidate(Complement(i))

CountingInit == Init /\ asked = 0

CountingNext ==
    /\ Next
    /\ asked' = IF Asks THEN asked + 1 ELSE asked

CountingSpec == CountingInit /\ [][CountingNext]_<<vars, asked>>

\* "Naive ddmin is O(n^2) checker calls in the worst case" (DESIGN.md, section 7).  The
\* constant is 2: an odd length refines into uneven chunks and exceeds n^2 + 3n.
QuadraticCalls == asked <= 2 * Len(h.ops) * Len(h.ops)
=============================================================================
