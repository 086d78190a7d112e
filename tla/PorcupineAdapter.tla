-------------------------- MODULE PorcupineAdapter --------------------------
(***************************************************************************)
(* pkg/adapter/porcupine: FromOperations turns the operations of a test    *)
(* that calls Porcupine itself into a history.  Each behaviour is one      *)
(* call; an operation is translated per step of the loop, and the result   *)
(* is sorted by the times of the calls.                                    *)
(***************************************************************************)
EXTENDS Integers, SequencesExt

CONSTANT NotAnInteger      \* any metadata or output that is not an int

VARIABLES input,           \* argument: the operations
          translator,      \* argument: "register", "kv", or "nil"
          i,               \* the operation being translated
          ops,             \* those translated
          outcome          \* "reading", "history" or "error"

adapter == <<i, ops, outcome>>
arguments == <<input, translator>>
vars == <<arguments, adapter>>

\* Reads and writes, a read by its output.
ReadOrWrite(op) ==
    \/ op.type = "write"
    \/ op.type = "read" /\ op.value # NotAnInteger

\* The operations of one model of whynot each; a register has no keys.
RegisterTranslator(op) == op.model = "register" /\ ReadOrWrite(op)

KVTranslator(op) == op.model = "kv" /\ ReadOrWrite(op)

Translates(op) ==
    \/ translator = "register" /\ RegisterTranslator(op)
    \/ translator = "kv" /\ KVTranslator(op)

\* The metadata when it is an int, the position otherwise.
IdOf(k) == IF input[k].metadata # NotAnInteger THEN input[k].metadata ELSE k - 1

seen == {ops[k].id : k \in DOMAIN ops}

Translated(k) ==
    [id |-> IdOf(k), client |-> input[k].client, type |-> input[k].type,
     key |-> IF translator = "kv" THEN input[k].key ELSE "",
     value |-> input[k].value, call |-> input[k].call, return |-> input[k].return]

\* Deviation: the sort is by the times of the returns.
SortedByReturn(s) ==
    FoldLeft(LAMBDA sorted, op :
                InsertAt(sorted, SelectLastInSeq(sorted, LAMBDA x : x.return <= op.return) + 1, op),
             <<>>, s)

\* sort.SliceStable, as an insertion sort: an operation goes behind those that were
\* called no later.
SortedByCall(s) ==
    FoldLeft(LAMBDA sorted, op :
                InsertAt(sorted, SelectLastInSeq(sorted, LAMBDA x : x.call <= op.call) + 1, op),
             <<>>, s)

Reading == outcome = "reading" /\ translator # "nil" /\ i <= Len(input)

NilTranslator ==
    /\ outcome = "reading"
    /\ translator = "nil"
    /\ outcome' = "error"
    /\ UNCHANGED <<arguments, i, ops>>

\* Deviation: a duplicate id is accepted.
TranslateAny ==
    /\ Reading
    /\ Translates(input[i])
    /\ ops' = Append(ops, Translated(i))
    /\ i' = i + 1
    /\ UNCHANGED <<arguments, outcome>>

Translate ==
    /\ Reading
    /\ Translates(input[i]) /\ IdOf(i) \notin seen
    /\ ops' = Append(ops, Translated(i))
    /\ i' = i + 1
    /\ UNCHANGED <<arguments, outcome>>

Refuse ==
    /\ Reading
    /\ ~Translates(input[i]) \/ IdOf(i) \in seen
    /\ outcome' = "error"
    /\ UNCHANGED <<arguments, i, ops>>

Sort ==
    /\ outcome = "reading" /\ translator # "nil" /\ i > Len(input)
    /\ ops' = SortedByCall(ops)
    /\ outcome' = "history"
    /\ UNCHANGED <<arguments, i>>

Begin == i = 1 /\ ops = <<>> /\ outcome = "reading"

FromOperations == NilTranslator \/ Translate \/ Refuse \/ Sort

Spec == Begin /\ [][FromOperations]_vars
=============================================================================
