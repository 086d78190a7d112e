------------------------------ MODULE MCDDMin -------------------------------
(***************************************************************************)
(* TLC instance of DDMin.  Operations are numbers, the history of a call   *)
(* is 1..N, and a predicate is given extensionally, so that TLC tries the  *)
(* minimizer against EVERY predicate on a short history (also the ones     *)
(* that are not monotone, which is what makes delta debugging hard) and    *)
(* against predicates of the usual kind on longer ones.                    *)
(***************************************************************************)
EXTENDS DDMin, FiniteSets, Functions, SequencesExt, TLC

CONSTANTS Exhaustive,      \* length of the history tried with every predicate
          Lengths,         \* lengths tried with "contains this core"
          Flaky            \* lengths tried with predicates that waver

AllOps == 1..9

Identity(len) == [model |-> "register", init |-> 0, ops |-> [k \in 1..len |-> k]]

\* A predicate holds of a history whose operations include core or are one
\* of family; where it wavers it may answer either way.
Predicate(core, family, waver) ==
    [core |-> core, family |-> family, waver |-> waver]

NoCore == {0}

McAnswers(p, hist) ==
    LET kept == Range(hist.ops)
    IN  IF kept \in p.waver THEN BOOLEAN
        ELSE {p.core \subseteq kept \/ kept \in p.family}

EveryPredicate(len) ==
    {Predicate(NoCore, F \union {1..len}, {}) : F \in SUBSET (SUBSET (1..len) \ {{}})}

CorePredicates(len) == {Predicate(K, {}, {}) : K \in SUBSET (1..len)}

\* The checker may time out on any history with more than two operations.
WaveringPredicates(len) ==
    {Predicate(K, {}, {S \in SUBSET (1..len) : Cardinality(S) > 2})
        : K \in {J \in SUBSET (1..len) : Cardinality(J) = 2}}

McCalls ==
    {[h |-> Identity(Exhaustive), pred |-> p] : p \in EveryPredicate(Exhaustive)}
    \union UNION {{[h |-> Identity(len), pred |-> p] : p \in CorePredicates(len)}
                    : len \in Lengths}
    \union UNION {{[h |-> Identity(len), pred |-> p] : p \in WaveringPredicates(len)}
                    : len \in Flaky}
=============================================================================
