----------------------------- MODULE Porcupine ------------------------------
(***************************************************************************)
(* The search of github.com/anishathalye/porcupine, which is not part of   *)
(* the repository, as pkg/checker uses it: the verdict of                  *)
(* CheckOperationsVerbose and the partial linearizations it reports.       *)
(*                                                                         *)
(* The search extends a prefix by an operation that is legal after it and  *)
(* that no operation still outside the prefix precedes.  For every         *)
(* operation it reports the first of the longest prefixes with it, trying  *)
(* operations in the order of their calls; the reports of one part come    *)
(* out of a Go map, in no particular order.  Search has the steps of it.   *)
(***************************************************************************)
EXTENDS Models

\* A node of the search: the positions of s put into the prefix so far, and
\* the state they lead to.
Root(h) == [prefix |-> <<>>, state |-> InitState(h)]

\* The positions that the search may put after the prefix of node.
MayFollow(s, node) ==
    LET open == DOMAIN s \ Range(node.prefix)
    IN  {k \in open : /\ \A j \in open : ~Precedes(s[j], s[k])
                      /\ Legal(s[k], node.state)}

Children(h, s, node) ==
    {[prefix |-> Append(node.prefix, k), state |-> Apply(h, s[k], node.state)] :
        k \in MayFollow(s, node)}

\* The prefixes of each length that the search reaches.
Reached(h, s) ==
    LET nodes[len \in 0..Len(s)] ==
            IF len = 0 THEN {Root(h)}
            ELSE UNION {Children(h, s, node) : node \in nodes[len - 1]}
    IN  [len \in 0..Len(s) |-> {node.prefix : node \in nodes[len]}]

\* Operations are tried in the order of their calls: where two prefixes first
\* differ, the one with the earlier call is tried first.
TriedBefore(s, p, q) ==
    \E k \in DOMAIN p \cap DOMAIN q :
        /\ \A j \in 1..(k - 1) : p[j] = q[j]
        /\ \/ s[p[k]].call < s[q[k]].call
           \/ s[p[k]].call = s[q[k]].call /\ p[k] < q[k]

FirstTried(s, P) == CHOOSE p \in P : \A q \in P : p = q \/ TriedBefore(s, p, q)

\* What is reported when the prefixes P have been tried: for each operation
\* the first of the longest prefixes with it, and nothing for an operation that
\* is in none of them.
Reported(s, P) ==
    LET With(k)    == {p \in P : k \in Range(p)}
        First(with) == LET longest == Max({Len(p) : p \in with})
                       IN  FirstTried(s, {p \in with : Len(p) = longest})
    IN  {First(with) : with \in {With(k) : k \in DOMAIN s} \ {{}}}

\* The prefixes as sequences of operations.
Operations(s, P) == {[k \in DOMAIN p |-> s[p[k]]] : p \in P}

AllReached(h, s) == LET reached == Reached(h, s)
                    IN  UNION {reached[len] : len \in DOMAIN s}

\* The partial linearizations of a part that has been searched to the end.
PartialLinearizations(h, s) == Operations(s, Reported(s, AllReached(h, s)))

\* Those of a part whose search was cut off: it has tried the prefixes up to
\* one that it could not extend, or none to the end.
CutOff(h, s) ==
    LET all  == AllReached(h, s)
        Ends == {p \in all : \A q \in all : Len(q) = Len(p) + 1 => ~IsPrefix(p, q)}
    IN  {Reported(s, {p \in all : ~TriedBefore(s, last, p)}) : last \in Ends} \union {{}}

\* The verdict, when the search is not cut off by the timeout.
Explored(h) ==
    IF \A k \in DOMAIN Partition(h) :
          LET s == Partition(h)[k] IN Reached(h, s)[Len(s)] # {}
    THEN "Ok" ELSE "Illegal"
=============================================================================
