----------------------------- MODULE Explainer ------------------------------
(***************************************************************************)
(* pkg/explainer: one call Explain(h, matchers, timeout), the pipeline     *)
(* model selection -> checker -> pattern matching -> minimization ->       *)
(* checker and matcher again on the minimized history.                     *)
(*                                                                         *)
(* The minimizer is the module DDMin on the variables ops, n, phase and i; *)
(* its predicate re-runs the checker and the matcher that fitted.  Checker *)
(* and matchers are functions of the history, up to the timeout and the    *)
(* order of Go maps; each of their calls is one choice among the traces    *)
(* and explanations they may return, so that calls on one history at       *)
(* different moments may disagree.                                         *)
(***************************************************************************)
EXTENDS Checker, Patterns, Subsequences, Linearizability

CONSTANTS Families,        \* sets of histories: those that are explained
          MatcherLists     \* the lists of matchers passed to Explain

ASSUME FamiliesAssumption ==
    \A F \in Families : \A g \in F :
        /\ Valid(g) /\ g \in [model : STRING, init : Int, ops : Seq(OpsOf(g))]
        /\ \A op \in OpsOf(g) : op.id \in Int /\ op.value \in Int /\ op.call \in Int /\ op.return \in Int

\* Lists of the catalogue, in any order and with omissions.
ASSUME MatchersAssumption == \A list \in MatcherLists : list \in Seq(Range(All))

Operation == UNION {UNION {OpsOf(g) : g \in F} : F \in Families}

VARIABLES h,               \* argument: the history
          matchers,        \* argument: the list of matchers
          pc,              \* where the call is
          rt,              \* the trace of the first check
          m,               \* index of the matcher being tried
          ops, n, phase, i,     \* the minimizer's (see DDMin)
          expl             \* the explanation returned

ddmin == <<ops, n, phase, i>>
vars == <<h, matchers, pc, rt, m, ddmin, expl>>

Stages == {"select", "match", "minimize", "recheck", "returned", "error"}

NoTrace == [history |-> [model |-> "", init |-> 0, ops |-> <<>>],
            result |-> "", partitions |-> <<>>]

NoExplanation == [verdict |-> "", pattern |-> "", conflict |-> <<>>,
                  witness |-> [model |-> "", init |-> 0, ops |-> <<>>]]

\* An explanation without a pattern.
Raw(verdict, witness) ==
    [NoExplanation EXCEPT !.verdict = verdict, !.witness = witness]

matcher == matchers[m]

\* patternPredicate: sub is rejected and the given matcher still fires.
PatternAnswers(mt, sub) ==
    IF sub.model \notin KnownModels THEN {FALSE}
    ELSE {Match(mt, trace) # {} : trace \in Check(sub)}

Minimize == INSTANCE DDMin WITH Op <- Operation, Calls <- {},
                                pred <- matcher, Answers <- PatternAnswers

-----------------------------------------------------------------------------

\* Deviations: mistakes in single steps, which the runs have to notice.

\* The verdict Unknown has no case of its own.
CheckHistoryFallsThrough ==
    /\ pc = "select"
    /\ h.model \in KnownModels
    /\ \E trace \in Check(h) :
        /\ rt' = trace
        /\ IF trace.result = "Ok"
           THEN pc' = "returned" /\ expl' = Raw("linearizable", NoExplanation.witness)
           ELSE pc' = "match" /\ UNCHANGED expl
    /\ UNCHANGED <<h, matchers, m, ddmin>>

\* No explanation when no pattern fits.
NoPatternFitsForgotten ==
    /\ pc = "match"
    /\ m > Len(matchers)
    /\ pc' = "returned"
    /\ UNCHANGED <<h, matchers, rt, m, ddmin, expl>>

\* The explanation of the first match, with the minimized witness.
RecheckSkipped ==
    /\ pc = "recheck"
    /\ \E e \in Match(matcher, rt) : expl' = [e EXCEPT !.witness = WithOps(h, ops)]
    /\ pc' = "returned"
    /\ UNCHANGED <<h, matchers, rt, m, ddmin>>

\* Falling back to the first match keeps the minimized witness.
RecheckKeepsWitness ==
    /\ pc = "recheck"
    /\ \E wrt \in Check(WithOps(h, ops)) :
        \E e \in Match(matcher, IF Match(matcher, wrt) # {} THEN wrt ELSE rt) :
            expl' = [e EXCEPT !.witness = WithOps(h, ops)]
    /\ pc' = "returned"
    /\ UNCHANGED <<h, matchers, rt, m, ddmin>>

Unselectable ==
    /\ pc = "select"
    /\ h.model \notin KnownModels
    /\ pc' = "error"
    /\ UNCHANGED <<h, matchers, rt, m, ddmin, expl>>

\* The first check; a verdict other than Illegal ends the call.
CheckHistory ==
    /\ pc = "select"
    /\ h.model \in KnownModels
    /\ \E trace \in Check(h) :
        /\ rt' = trace
        /\ CASE trace.result = "Ok" ->
                    pc' = "returned" /\ expl' = Raw("linearizable", NoExplanation.witness)
             [] trace.result = "Unknown" ->
                    pc' = "returned" /\ expl' = Raw("unknown", NoExplanation.witness)
             [] trace.result = "Illegal" ->
                    pc' = "match" /\ UNCHANGED expl
    /\ UNCHANGED <<h, matchers, m, ddmin>>

NextMatcher ==
    /\ pc = "match"
    /\ m <= Len(matchers)
    /\ Match(matcher, rt) = {}
    /\ m' = m + 1
    /\ UNCHANGED <<h, matchers, pc, rt, ddmin, expl>>

FirstFitWins ==
    /\ pc = "match"
    /\ m <= Len(matchers)
    /\ Match(matcher, rt) # {}
    /\ pc' = "minimize"
    /\ UNCHANGED <<h, matchers, rt, m, ddmin, expl>>

\* Non-linearizable, and no pattern fits.
NoPatternFits ==
    /\ pc = "match"
    /\ m > Len(matchers)
    /\ pc' = "returned"
    /\ expl' = Raw("non-linearizable", h)
    /\ UNCHANGED <<h, matchers, rt, m, ddmin>>

MinimizeStep ==
    /\ pc = "minimize"
    /\ Minimize!Step
    /\ UNCHANGED <<h, matchers, pc, rt, m, expl>>

Minimized ==
    /\ pc = "minimize"
    /\ phase = "done"
    /\ pc' = "recheck"
    /\ UNCHANGED <<h, matchers, rt, m, ddmin, expl>>

\* The witness keeps the model of h, so selecting its model cannot fail.
Recheck ==
    /\ pc = "recheck"
    /\ \E wrt \in Check(WithOps(h, ops)) :
        \/ /\ Match(matcher, wrt) # {}
           /\ \E e \in Match(matcher, wrt) :
                expl' = [e EXCEPT !.witness = WithOps(h, ops)]
        \/ /\ Match(matcher, wrt) = {}
           /\ \E e \in Match(matcher, rt) : expl' = [e EXCEPT !.witness = h]
    /\ pc' = "returned"
    /\ UNCHANGED <<h, matchers, rt, m, ddmin>>

-----------------------------------------------------------------------------

Init ==
    /\ \E F \in Families : h \in F
    /\ matchers \in MatcherLists
    /\ pc = "select"
    /\ rt = NoTrace
    /\ m = 1
    /\ Minimize!Begin(h)
    /\ expl = NoExplanation

Next ==
    \/ Unselectable \/ CheckHistory
    \/ NextMatcher \/ FirstFitWins \/ NoPatternFits
    \/ MinimizeStep \/ Minimized \/ Recheck

Spec == Init /\ [][Next]_vars

\* The call runs on its caller's goroutine; no step of it waits for another
\* process, and a check that takes too long is cut off by its timeout.
FairSpec == Spec /\ WF_vars(Next)

-----------------------------------------------------------------------------
(* Properties *)

TypeOK ==
    /\ Valid(h)
    /\ pc \in Stages
    /\ m \in 1..(Len(matchers) + 1)
    /\ rt.result \in {"", "Ok", "Illegal", "Unknown"}
    /\ \A p \in Range(rt.partitions) : \A b \in Range(p.blocks) : b.constraint \in Constraints
    /\ phase \in Minimize!Phases
    /\ expl.verdict \in {"", "linearizable", "non-linearizable", "unknown"}
    /\ (pc = "returned") <=> (expl.verdict # "")

Rejected == pc = "returned" /\ expl.verdict = "non-linearizable"

Named == Rejected /\ expl.pattern # ""

Within(sub, hist) == /\ IsSubsequence(sub.ops, hist.ops)
                     /\ sub.model = hist.model /\ sub.init = hist.init

\* Soundness and completeness of the verdict: whatever the order of maps, the
\* answer is the one the definition of linearizability gives, or unknown.
VerdictIsRight ==
    pc = "returned" =>
        /\ expl.verdict = "linearizable" => Linearizable(h)
        /\ expl.verdict = "non-linearizable" => ~Linearizable(h)

\* The witness is part of the history and still fails: for every rejection,
\* named or not, minimized or fallen back to the whole history.
WitnessStillFails ==
    Rejected => Within(expl.witness, h) /\ ~Linearizable(expl.witness)

\* The operations in conflict are operations of the witness that is printed
\* with them.
ConflictInWitness ==
    Named => Range(expl.conflict) \subseteq IdsOf(expl.witness)

\* A named witness is minimal for its pattern: what the minimizer left is what is
\* printed, and without any one of its operations the predicate may refuse it.
\* The exceptions are a predicate that may also refuse what was left (a timeout, or
\* another order of a map), when the whole history is printed, and one that
\* refused the whole history to begin with.
WitnessOneMinimal ==
    LET left == WithOps(h, ops)
    IN  Named =>
        /\ \/ expl.witness = left
           \/ expl.witness = h /\ FALSE \in PatternAnswers(matcher, left)
        /\ \/ Len(ops) < 2
           \/ ops = h.ops /\ FALSE \in PatternAnswers(matcher, left)
           \/ \A k \in DOMAIN ops :
                FALSE \in PatternAnswers(matcher, WithOps(h, Without(ops, k)))

\* Explain answers, whatever the checks and the matchers do.
ExplainReturns == <>(pc \in {"returned", "error"})

-----------------------------------------------------------------------------
(* Properties of the reconstruction of block reasons *)

TracedParts == {k \in DOMAIN rt.partitions : rt.partitions[k].blocks # <<>>}

\* The operations of partition k outside the longest prefix.
Open(k) == {op \in Range(Partition(h)[k]) :
                op.id \notin Range(rt.partitions[k].longestPrefix)}

\* The first constraint classifyBlock tries never applies: the search puts no
\* operation into a prefix while one that precedes it is still outside.
RealTimePrecedesUnreachable ==
    \A k \in TracedParts : \A b \in Range(rt.partitions[k].blocks) :
        b.constraint # "real-time-precedes"

\* The catch-all constraint is only given to an operation that the prefix
\* cannot take yet: another open operation had returned before its call.
ConcurrentConflictIsDownstream ==
    \A k \in TracedParts : \A b \in Range(rt.partitions[k].blocks) :
        b.constraint = "concurrent-conflict" =>
            \E op \in Open(k) : Precedes(op, findOp(h, b.opID))

\* A part with blocked operations is at fault: its operations alone have no
\* linearization.  ("The search could not legally incorporate them anywhere.")
\* Without a timeout it holds; a part whose search was cut off is classified
\* like one that was rejected, and then a correct part is blamed.
BlockedPartFails ==
    pc = "match" /\ m = 1 =>
        \A k \in TracedParts : ~Linearizable(WithOps(h, Partition(h)[k]))

-----------------------------------------------------------------------------
(* Properties of the conflicts that are named.  PhantomIsAtFault and         *)
(* GoingBackIsIllegal are what comments say and the code does not do.        *)

With(pattern) == Named /\ expl.pattern = pattern

Culprit(k) == findOp(h, expl.conflict[k])

\* A lost update is two writes, the first of which returned before the second:
\* unless another write of the witness returned at the very same time.
LostUpdateNamesTwoWrites ==
    With("lost_update") =>
        \/ Culprit(1).return < Culprit(2).return
        \/ \E w \in OpsOf(expl.witness) \ {Culprit(1)} :
               IsWrite(w) /\ w.return = Culprit(1).return

\* The writes of the history and the operations with the given ids.
WritesAnd(ids) ==
    WithOps(h, SelectSeq(h.ops, LAMBDA op : IsWrite(op) \/ op.id \in ids))

Blocked(id) == \E p \in Range(rt.partitions) : \E b \in Range(p.blocks) : b.opID = id

\* A phantom value is "neither the initial value nor produced by any write in
\* the history", and the predicate "preserves the matched classification": the
\* read that is named was at fault in the history that was explained, blocked
\* there, or not to be explained by the writes.
PhantomIsAtFault ==
    With("phantom_value") =>
        \/ Blocked(Culprit(1).id)
        \/ ~Linearizable(WritesAnd({Culprit(1).id}))

\* A conflict names operations that "cannot all be ordered": the reads in it
\* are inconsistent with the writes of the history.
GoingBackIsIllegal ==
    With("non_monotonic_read") => ~Linearizable(WritesAnd(Range(expl.conflict)))
=============================================================================
