---------------------------- MODULE MCDDMinCost -----------------------------
(***************************************************************************)
(* TLC instance of DDMinCost.  The predicate may answer anything at every  *)
(* call, so the run covers every predicate there is, on histories of up to *)
(* MaxLen operations.                                                      *)
(***************************************************************************)
EXTENDS DDMinCost

CONSTANT MaxLen

AllOps == 1..MaxLen

AnyAnswer(p, hist) == BOOLEAN

McCalls ==
    {[h    |-> [model |-> "register", init |-> 0, ops |-> [k \in 1..len |-> k]],
      pred |-> "any"] : len \in 0..MaxLen}
=============================================================================
