----------------------------- MODULE PlantedBugs ----------------------------
(***************************************************************************)
(* The command genhist and the pipeline together: the histories that       *)
(* genhist writes for planted bugs, explained.                             *)
(***************************************************************************)
EXTENDS Explainer, BugHistories

PlantedHistories == {generate(bug) : bug \in Planted}

\* "Each runX function returns a deterministic history that fires its named
\* pattern": the full catalogue names the bug that was planted, whatever the order
\* of maps, and the minimizer keeps all of the history, for there is nothing in it
\* that the pattern does not need.
EachBugFiresItsPattern ==
    \A bug \in Planted :
        pc = "returned" /\ matchers = All /\ h = generate(bug) =>
            /\ expl.pattern = Target[bug]
            /\ expl.witness = h
=============================================================================
