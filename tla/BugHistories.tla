---------------------------- MODULE BugHistories ----------------------------
(***************************************************************************)
(* scripts/genhist: the five histories that a register with one planted    *)
(* bug would have, laid out by a logical clock; and the sort with which    *)
(* the concurrent driver ends.                                             *)
(***************************************************************************)
EXTENDS Histories, SequencesExt

\* The clock, with the operations that have been given their intervals.
newClock == [now |-> 0, nextID |-> 0, ops |-> <<>>]

Duration == 10
Gap == 10

\* Deviation: the next operation starts when the last one returns.
issueWithoutGap(c, client, kind, value) ==
    [now |-> c.now + Duration, nextID |-> c.nextID + 1,
     ops |-> Append(c.ops, [id |-> c.nextID, client |-> client, type |-> kind, key |-> "",
                            value |-> value, call |-> c.now, return |-> c.now + Duration])]

\* issue: the next operation, from now on, and a gap after it.
issue(c, client, kind, value) ==
    [now |-> c.now + Duration + Gap, nextID |-> c.nextID + 1,
     ops |-> Append(c.ops, [id |-> c.nextID, client |-> client, type |-> kind, key |-> "",
                            value |-> value, call |-> c.now, return |-> c.now + Duration])]

skip(c, d) == [c EXCEPT !.now = @ + d]

Register(s) == [model |-> "register", init |-> 0, ops |-> s]

\* A write has returned and the read returns the initial value.
runStaleRead ==
    Register(issue(issue(newClock, 0, "write", 5), 1, "read", 0).ops)

\* Two writes, and the read returns the first.
runLostUpdate ==
    Register(issue(issue(issue(newClock, 0, "write", 5), 1, "write", 99), 2, "read", 5).ops)

\* The read returns what is only written after it.
runRealtimeInversion ==
    Register(<<[id |-> 0, client |-> 1, type |-> "read", key |-> "", value |-> 5,
                call |-> 5, return |-> 15],
               [id |-> 1, client |-> 0, type |-> "write", key |-> "", value |-> 5,
                call |-> 20, return |-> 30]>>)

\* One client reads what was written and then the initial value.
runNonMonotonic ==
    LET written == skip(issue(newClock, 0, "write", 5), 5)
    IN  Register(issue(issue(written, 1, "read", 5), 1, "read", 0).ops)

\* A read of what was never written.
runPhantomValue == Register(issue(newClock, 0, "read", 99).ops)

Planted == {"stale", "lost", "inversion", "nmr", "phantom"}

\* generate, of the bugs that need no concurrent driver.
generate(bug) ==
    CASE bug = "stale"     -> runStaleRead
      [] bug = "lost"      -> runLostUpdate
      [] bug = "inversion" -> runRealtimeInversion
      [] bug = "nmr"       -> runNonMonotonic
      [] bug = "phantom"   -> runPhantomValue

Target ==
    [bug \in Planted |->
        CASE bug = "stale" -> "stale_read"
          [] bug = "lost" -> "lost_update"
          [] bug = "inversion" -> "realtime_inversion"
          [] bug = "nmr" -> "non_monotonic_read"
          [] bug = "phantom" -> "phantom_value"]

\* sortByCall is an insertion sort: an operation goes behind those that were
\* called no later.
sortByCall(s) ==
    FoldLeft(LAMBDA sorted, op :
                InsertAt(sorted, SelectLastInSeq(sorted, LAMBDA x : x.call <= op.call) + 1, op),
             <<>>, s)
=============================================================================
