----------------------------- MODULE Histories ------------------------------
(***************************************************************************)
(* pkg/history: an operation is a record with fields id, client, type,     *)
(* key, value, call and return; a history is a record with the name of its *)
(* model, the initial value and a sequence of operations.                  *)
(***************************************************************************)
EXTENDS Integers, Sequences, Functions

OpsOf(h) == Range(h.ops)

IdsOf(h) == {op.id : op \in OpsOf(h)}

\* The third kind, "cas", is a read to every model and to no matcher; the value
\* it expects is not used by the program.
IsRead(op) == op.type = "read"

IsWrite(op) == op.type = "write"

\* What History.validate accepts; histories read from JSON have passed it.
Valid(h) ==
    /\ h.model # ""
    /\ \A op \in OpsOf(h) : op.call <= op.return
    /\ \A a, b \in DOMAIN h.ops : h.ops[a].id = h.ops[b].id => a = b

\* findOp: the first operation with this id.
findOp(h, id) ==
    h.ops[CHOOSE k \in DOMAIN h.ops :
            /\ h.ops[k].id = id
            /\ \A j \in 1..(k - 1) : h.ops[j].id # id]

\* Intervals are closed: a precedes b in real time only if it returned
\* strictly before b was called.
Precedes(a, b) == a.return < b.call

\* Deviation: the initial value is not carried over.
WithOpsOnly(h, s) == [h EXCEPT !.ops = s, !.init = 0]

\* The history h with other operations, as the packages that cut histories
\* down build it: the model and the initial value are kept.
WithOps(h, s) == [h EXCEPT !.ops = s]

\* The elements of s at the positions P.
Only(s, P) ==
    LET upTo[k \in 0..Len(s)] == IF k = 0 THEN <<>>
                                 ELSE IF k \in P THEN Append(upTo[k - 1], s[k])
                                 ELSE upTo[k - 1]
    IN  upTo[Len(s)]
=============================================================================
