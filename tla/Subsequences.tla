---------------------------- MODULE Subsequences ----------------------------
(***************************************************************************)
(* Subsequences of a sequence of operations, in the original order.  The   *)
(* minimizer promises that the operations it returns are "a subset of      *)
(* h.Ops in original order"; that promise is IsSubsequence.                *)
(***************************************************************************)
EXTENDS Integers, Sequences

\* f places every position of s at a position of t, in increasing order.
Embeds(f, s, t) ==
    /\ f \in [1..Len(s) -> 1..Len(t)]
    /\ \A a, b \in 1..Len(s) : a < b => f[a] < f[b]
    /\ \A a \in 1..Len(s) : s[a] = t[f[a]]

\* s is t with some of its elements removed.
IsSubsequence(s, t) ==
    \E f \in [1..Len(s) -> 1..Len(t)] : Embeds(f, s, t)

\* Deviation: the parts are joined in the wrong order.
ExciseSwapped(s, a, b) == SubSeq(s, b + 1, Len(s)) \o SubSeq(s, 1, a)

\* s without its elements at positions a+1 .. b.
Excise(s, a, b) == SubSeq(s, 1, a) \o SubSeq(s, b + 1, Len(s))

\* s without its element at position k.
Without(s, k) == Excise(s, k - 1, k)
=============================================================================
