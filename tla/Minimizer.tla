----------------------------- MODULE Minimizer ------------------------------
(***************************************************************************)
(* What pkg/minimize promises, without how: starting from the operations   *)
(* of a history it drops operations, never reorders or invents one, keeps  *)
(* only sub-histories on which the predicate answered true, and returns    *)
(* when no single operation can be dropped any more ("one-minimal").       *)
(*                                                                         *)
(* A predicate of the program runs the checker under a timeout, so the     *)
(* same sub-history may get different answers.  Answers(p, s) is the set   *)
(* of the answers that predicate p may give on history s.                  *)
(***************************************************************************)
EXTENDS Subsequences

CONSTANT Answers(_, _)     \* the answers a predicate may give on a history

VARIABLES h,               \* the history being minimized
          pred,            \* the predicate of the call
          current,         \* the operations still kept
          returned         \* whether the call has returned

vars == <<h, pred, current, returned>>

\* The promise is the same for every call: h and pred are arbitrary, and fixed.
Init ==
    /\ current = h.ops
    /\ returned = FALSE

MayHold(ops) == TRUE \in Answers(pred, [h EXCEPT !.ops = ops])
MayFail(ops) == FALSE \in Answers(pred, [h EXCEPT !.ops = ops])

\* Drop at least one operation and keep a failing, non-empty rest.
Shrink ==
    /\ ~returned
    /\ Len(current') \in 1..(Len(current) - 1)
    /\ IsSubsequence(current', current)
    /\ MayHold(current')
    /\ UNCHANGED <<h, pred, returned>>

\* No single operation can go: the predicate may refuse each such removal.
OneMinimal ==
    \A k \in 1..Len(current) : MayFail(Without(current, k))

\* Return is allowed when nothing is left to drop, when the predicate does
\* not even hold of the input, or at a one-minimal history.
Return ==
    /\ ~returned
    /\ \/ Len(current) < 2
       \/ current = h.ops /\ MayFail(current)
       \/ OneMinimal
    /\ returned' = TRUE
    /\ UNCHANGED <<h, pred, current>>

Next == Shrink \/ Return

Spec == Init /\ [][Next]_vars
=============================================================================
