--------------------------- MODULE Linearizability --------------------------
(***************************************************************************)
(* The definition the verdicts are compared with: a history is             *)
(* linearizable when its operations can be put in one total order that     *)
(* respects real time and in which every read returns what the writes      *)
(* before it left.  Nothing here is taken from the search: there are no    *)
(* prefixes, no partitions and no replay.                                  *)
(***************************************************************************)
EXTENDS Histories, FiniteSets, FiniteSetsExt

\* The writes that order pos puts before op, on the same object.
Earlier(h, pos, op) ==
    {w \in OpsOf(h) :
        /\ IsWrite(w) /\ pos[w] < pos[op]
        /\ h.model = "kv" => w.key = op.key}

\* The value op reads when the operations take effect in the order pos.
ValueAt(h, pos, op) ==
    LET before == Earlier(h, pos, op)
    IN  CASE h.model = "counter" -> h.init + MapThenSumSet(LAMBDA w : w.value, before)
          [] h.model # "counter" /\ before = {} -> IF h.model = "kv" THEN 0 ELSE h.init
          [] OTHER -> (CHOOSE w \in before : \A v \in before : pos[v] <= pos[w]).value

IsLinearization(h, pos) ==
    /\ \A a, b \in OpsOf(h) : Precedes(a, b) => pos[a] < pos[b]
    /\ \A op \in OpsOf(h) : ~IsWrite(op) => op.value = ValueAt(h, pos, op)

Linearizable(h) ==
    \E pos \in Bijection(OpsOf(h), 1..Cardinality(OpsOf(h))) : IsLinearization(h, pos)
=============================================================================
