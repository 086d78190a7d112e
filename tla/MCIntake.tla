------------------------------ MODULE MCIntake ------------------------------
(***************************************************************************)
(* TLC instance of Intake: two clients, every interleaving of their calls. *)
(***************************************************************************)
EXTENDS Intake

\* Nothing tells one client from another.
McSymmetry == Permutations(Clients)

\* No metadata, ids of the caller's own, one of the positions only for the first
\* operation (which then meets the position of the second), and all the same.
McTaggings ==
    {[k \in 1..MaxOps |-> NotAnInteger], [k \in 1..MaxOps |-> 10 - k],
     [k \in 1..MaxOps |-> IF k = 1 THEN 1 ELSE NotAnInteger], [k \in 1..MaxOps |-> 7]}
=============================================================================
