------------------------------- MODULE DDMin --------------------------------
(***************************************************************************)
(* pkg/minimize/ddmin.go: Zeller's ddmin over the operations of a history. *)
(*                                                                         *)
(* One behaviour is one call DDMin(h, pred).  The tail-recursive ddmin is  *)
(* a loop over the variables ops and n; i is the index of the range loop   *)
(* the call is in, and every step makes at most one call of the predicate. *)
(* The predicate is opaque: it re-runs the checker under a timeout, so it  *)
(* may answer either way on the same history (see Answers).                *)
(***************************************************************************)
EXTENDS Subsequences

CONSTANTS Op,              \* the operations of histories
          Calls,           \* the calls considered: records [h, pred]
          Answers(_, _)    \* the answers a predicate may give on a history

ASSUME CallsAssumption == \A c \in Calls : c.h.ops \in Seq(Op)

VARIABLES h,               \* argument: the history, "orig"
          pred,            \* argument: the predicate
          ops,             \* the operations kept so far
          n,               \* granularity: the number of chunks
          phase,           \* where the call is
          i                \* index of the chunk the loop is at

args == <<h, pred>>
vars == <<h, pred, ops, n, phase, i>>

Phases == {"start", "enter", "subset", "complement", "done"}

-----------------------------------------------------------------------------
(* Chunks *)

Least(a, b) == IF a < b THEN a ELSE b

wrap(s) == [h EXCEPT !.ops = s]

NumChunks == Least(n, Len(ops))

\* Deviation: the operations left over by the division are forgotten.
CutWithoutExtra(k) == k * (Len(ops) \div NumChunks)

\* The number of operations in the first k chunks: each has base operations
\* and the first extra ones have one more.
Cut(k) ==
    LET base  == Len(ops) \div NumChunks
        extra == Len(ops) % NumChunks
    IN  k * base + Least(k, extra)

Chunk(k) == SubSeq(ops, Cut(k - 1) + 1, Cut(k))

\* concatExcept: all the chunks but the k-th, joined in order.
Complement(k) == Excise(ops, Cut(k - 1), Cut(k))

\* Empty and whole candidates are passed over without calling the predicate.
Candidate(s) == Len(s) # 0 /\ Len(s) # Len(ops)

MayHold(s) == TRUE \in Answers(pred, wrap(s))
MayFail(s) == FALSE \in Answers(pred, wrap(s))

-----------------------------------------------------------------------------
(* The call *)

\* ddmin(orig, s, k, pred)
Recurse(s, k) ==
    /\ ops' = s
    /\ n' = k
    /\ phase' = "enter"
    /\ i' = 1

\* Deviations: mistakes in single steps, which the runs have to notice.

\* The rest is what was asked about, but the chunk is what is kept.
KeepChunkAskingTheRest ==
    /\ phase = "subset" /\ i <= NumChunks
    /\ Candidate(Chunk(i)) /\ MayHold(Complement(i))
    /\ Recurse(Chunk(i), 2)

\* The granularity after a removal is not kept at 2 or more.
DropChunkUnclamped ==
    /\ phase = "complement" /\ i <= NumChunks
    /\ Candidate(Complement(i)) /\ MayHold(Complement(i))
    /\ Recurse(Complement(i), n - 1)

\* Every removal starts again at granularity 2, as the reduction to a subset.
DropChunkFromScratch ==
    /\ phase = "complement" /\ i <= NumChunks
    /\ Candidate(Complement(i)) /\ MayHold(Complement(i))
    /\ Recurse(Complement(i), 2)

\* A refused complement passes over the next one as well.
PassTwoComplements ==
    /\ phase = "complement" /\ i <= NumChunks
    /\ Candidate(Complement(i)) => MayFail(Complement(i))
    /\ i' = i + 2
    /\ UNCHANGED <<ops, n, phase>>

\* The granularity may be increased when it cannot grow any more.
RefineAtLimit ==
    /\ phase = "complement" /\ i > NumChunks
    /\ n <= Len(ops)
    /\ Recurse(ops, Least(2 * n, Len(ops)))

\* The search ends one doubling before chunks are single operations.
FinishEarly ==
    /\ phase = "complement" /\ i > NumChunks
    /\ 2 * n >= Len(ops)
    /\ phase' = "done"
    /\ UNCHANGED <<ops, n, i>>

\* DDMin returns h itself when it is too short or the predicate rejects it.
GiveUp ==
    /\ phase = "start"
    /\ Len(ops) < 2 \/ MayFail(ops)
    /\ phase' = "done"
    /\ UNCHANGED <<ops, n, i>>

Start ==
    /\ phase = "start"
    /\ Len(ops) >= 2
    /\ MayHold(ops)
    /\ Recurse(ops, 2)

Enter ==
    /\ phase = "enter"
    /\ phase' = IF Len(ops) < 2 THEN "done" ELSE "subset"
    /\ UNCHANGED <<ops, n, i>>

\* Reduction to a subset: keep only chunk i.
KeepChunk ==
    /\ phase = "subset"
    /\ i <= NumChunks
    /\ Candidate(Chunk(i))
    /\ MayHold(Chunk(i))
    /\ Recurse(Chunk(i), 2)

PassChunk ==
    /\ phase = "subset"
    /\ i <= NumChunks
    /\ Candidate(Chunk(i)) => MayFail(Chunk(i))
    /\ i' = i + 1
    /\ UNCHANGED <<ops, n, phase>>

ChunksTried ==
    /\ phase = "subset"
    /\ i > NumChunks
    /\ phase' = "complement"
    /\ i' = 1
    /\ UNCHANGED <<ops, n>>

\* Reduction to complement: remove chunk i.
DropChunk ==
    /\ phase = "complement"
    /\ i <= NumChunks
    /\ Candidate(Complement(i))
    /\ MayHold(Complement(i))
    /\ Recurse(Complement(i), IF n - 1 < 2 THEN 2 ELSE n - 1)

PassComplement ==
    /\ phase = "complement"
    /\ i <= NumChunks
    /\ Candidate(Complement(i)) => MayFail(Complement(i))
    /\ i' = i + 1
    /\ UNCHANGED <<ops, n, phase>>

\* Increase granularity.
Refine ==
    /\ phase = "complement"
    /\ i > NumChunks
    /\ n < Len(ops)
    /\ Recurse(ops, Least(2 * n, Len(ops)))

Finish ==
    /\ phase = "complement"
    /\ i > NumChunks
    /\ n >= Len(ops)
    /\ phase' = "done"
    /\ UNCHANGED <<ops, n, i>>

Begin(hist) ==
    /\ ops = hist.ops
    /\ n = 2
    /\ phase = "start"
    /\ i = 1

Init ==
    /\ \E c \in Calls : h = c.h /\ pred = c.pred
    /\ Begin(h)

Step ==
    \/ GiveUp \/ Start \/ Enter
    \/ KeepChunk \/ PassChunk \/ ChunksTried
    \/ DropChunk \/ PassComplement \/ Refine \/ Finish

Next == Step /\ UNCHANGED args

Spec == Init /\ [][Next]_vars

\* The recursion runs on the caller's goroutine and nothing can disable it.
FairSpec == Spec /\ WF_vars(Next)

-----------------------------------------------------------------------------
(* Properties *)

TypeOK ==
    /\ h.ops \in Seq(Op)
    /\ ops \in Seq(Op)
    /\ n \in Nat /\ n >= 2
    /\ phase \in Phases
    /\ i \in Nat \ {0}

\* splitChunks cuts what is left into consecutive chunks that cover it, none
\* of them empty and none of them everything; so both loops always call the
\* predicate, and no slice is out of range.
ChunksPartition ==
    phase \in {"subset", "complement"} =>
        /\ Cut(0) = 0
        /\ Cut(NumChunks) = Len(ops)
        /\ \A k \in 1..NumChunks : Candidate(Chunk(k)) /\ Candidate(Complement(k))

\* Operations are only ever removed, and what is left is something the
\* predicate has answered true on.
StillFails ==
    /\ IsSubsequence(ops, h.ops)
    /\ phase # "start" => ops = h.ops \/ MayHold(ops)

\* One-minimality, the promise of the package comment: on the result of a
\* search, no single operation can be left out.
OneMinimalResult ==
    phase = "done" =>
        \/ Len(ops) < 2
        \/ ops = h.ops /\ MayFail(ops)
        \/ \A k \in 1..Len(ops) : MayFail(Without(ops, k))

\* The inductive invariant.  OneMinimalResult is not inductive alone: when the
\* search finishes it rests on the complements refused so far, and StillFails
\* on the predicate having held of whatever replaced the history.
SearchInv ==
    /\ TypeOK
    /\ phase = "start" => ops = h.ops
    /\ phase \in {"subset", "complement"} => Len(ops) >= 2
    /\ phase = "complement" => \A k \in 1..NumChunks : k < i => MayFail(Complement(k))
    /\ StillFails
    /\ OneMinimalResult

\* The call is one of the calls the abstract Minimizer allows: it shrinks to
\* failing subsequences and returns at a one-minimal one.
Abstract == INSTANCE Minimizer WITH current <- ops, returned <- (phase = "done")

ImplementsMinimizer == Abstract!Spec

\* The recursion ends, whatever the predicate answers.
Termination == <>(phase = "done")

=============================================================================
