------------------------------ MODULE Builder -------------------------------
(***************************************************************************)
(* pkg/history: the Builder, with which test code assembles a history call *)
(* by call.  Nothing is validated.                                         *)
(***************************************************************************)
EXTENDS Integers, Sequences

VARIABLES init,            \* the initial value of the model
          ops,             \* the operations so far
          nextID,
          built            \* the operations of the history last built

builder == <<init, ops, nextID, built>>

Entry(id, client, type, key, value, call, return) ==
    [id |-> id, client |-> client, type |-> type, key |-> key, value |-> value,
     call |-> call, return |-> return]

\* Deviation: an id that is given is kept.
AppendGivenID(op) ==
    /\ ops' = Append(ops, IF op.id # 0 THEN op ELSE [op EXCEPT !.id = nextID])
    /\ nextID' = nextID + 1
    /\ UNCHANGED <<init, built>>

\* append: every operation gets the next id, also one that came with an id.
AppendOp(op) ==
    /\ ops' = Append(ops, [op EXCEPT !.id = nextID])
    /\ nextID' = nextID + 1
    /\ UNCHANGED <<init, built>>

\* Write and WriteKey; Read and ReadKey: the key is empty without Key.
Write(client, key, value, call, return) ==
    AppendOp(Entry(0, client, "write", key, value, call, return))

Read(client, key, value, call, return) ==
    AppendOp(Entry(0, client, "read", key, value, call, return))

\* Op: an id of 0 is replaced here, and then by append.
Op(op) ==
    AppendOp(IF op.id = 0 /\ ops # <<>> THEN [op EXCEPT !.id = nextID] ELSE op)

SetInit(v) ==
    /\ init' = v
    /\ UNCHANGED <<ops, nextID, built>>

\* Build copies the operations; the builder may be used further.
Build ==
    /\ built' = ops
    /\ UNCHANGED <<init, ops, nextID>>

\* NewBuilder
New == init = 0 /\ ops = <<>> /\ nextID = 0 /\ built = <<>>
=============================================================================
