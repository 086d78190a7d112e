----------------------------- MODULE CheckCall ------------------------------
(***************************************************************************)
(* What pkg/checker relies on when it calls the search: one reply, a       *)
(* verdict and the prefixes that each part reports.  This is the call as   *)
(* the module Checker makes it, in a single step; Search has the steps of  *)
(* the search itself and is shown to implement it.                         *)
(***************************************************************************)
EXTENDS Checker

VARIABLES h,          \* the history
          reply       \* what the call returned, or NoReply

WithoutReports(v) == [verdict |-> v, reports |-> <<>>]

NoReply == WithoutReports("")

\* The prefixes that part k may report.
MayReport(hist, k, full) ==
    IF k \in full THEN {Reported(Partition(hist)[k], AllReached(hist, Partition(hist)[k]))}
    ELSE CutOff(hist, Partition(hist)[k])

\* Verdict Ok and Unknown come without reports that anyone reads.
Replies(hist) ==
    LET parts == DOMAIN Partition(hist)
        Illegal(full) ==
            {[verdict |-> "Illegal", reports |-> r] :
                r \in {f \in [parts -> UNION {MayReport(hist, k, full) : k \in parts}] :
                        \A k \in parts : f[k] \in MayReport(hist, k, full)}}
    IN  (IF Explored(hist) = "Ok" THEN {WithoutReports("Ok")} ELSE {})
        \union (UNION {Illegal(full) : full \in {f \in MaySearchInFull(hist) : RejectedBy(hist, f)}})
        \union (IF MayTimeOut THEN {WithoutReports("Unknown")} ELSE {})

Init == reply = NoReply

Return ==
    /\ reply = NoReply
    /\ reply' \in Replies(h)
    /\ UNCHANGED h

Spec == Init /\ [][Return]_<<h, reply>>
=============================================================================
