------------------------------- MODULE Models -------------------------------
(***************************************************************************)
(* pkg/model: the data types a history can be checked against.  A model    *)
(* gives the initial state, whether an operation is legal in a state, the  *)
(* state after it, and how operations are split into independent parts.    *)
(***************************************************************************)
EXTENDS Histories, SequencesExt

\* SelectModel fails on every other name.
KnownModels == {"register", "counter", "kv"}

\* The key-value model starts every key at 0 and ignores the history's init.
InitState(h) == IF h.model = "kv" THEN 0 ELSE h.init

\* A write (an increment, for the counter) is always legal; every other kind
\* of operation is a read and must return the state.
Legal(op, state) == IsWrite(op) \/ op.value = state

Apply(h, op, state) ==
    CASE IsWrite(op) /\ h.model = "counter" -> state + op.value
      [] IsWrite(op) /\ h.model # "counter" -> op.value
      [] OTHER                              -> state

\* Deviation: the key-value model without a partition function.
PartitionWhole(h) == <<h.ops>>

\* Where each key comes for the first time.
FirstOfKey(s) == {k \in DOMAIN s : \A j \in 1..(k - 1) : s[j].key # s[k].key}

\* The parts that are checked on their own: the operations of one key for the
\* key-value model, everything otherwise.
Partition(h) ==
    IF h.model # "kv" THEN <<h.ops>>
    ELSE LET order == Only(h.ops, FirstOfKey(h.ops))
             byKey == [key \in {op.key : op \in OpsOf(h)} |->
                        Only(h.ops, {k \in DOMAIN h.ops : h.ops[k].key = key})]
         IN  [p \in DOMAIN order |-> byKey[order[p].key]]

\* Replays the operations s from state; ok is FALSE once one was not legal.
Replay(h, s) ==
    FoldLeft(LAMBDA acc, op : [ok    |-> acc.ok /\ Legal(op, acc.state),
                               state |-> Apply(h, op, acc.state)],
             [ok |-> TRUE, state |-> InitState(h)], s)
=============================================================================
