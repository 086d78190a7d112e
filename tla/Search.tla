------------------------------- MODULE Search -------------------------------
(***************************************************************************)
(* The search of github.com/anishathalye/porcupine step by step: one       *)
(* goroutine per part of the history runs a depth-first search over the    *)
(* calls and returns of its operations, and the caller collects their      *)
(* results until all are in or the timeout strikes.  The library is not    *)
(* part of the repository; it is modelled because pkg/checker reads what   *)
(* an unfinished search leaves behind.                                     *)
(*                                                                         *)
(* The calls and returns of a part form a list in the order of time.  The  *)
(* search walks along it: a call is put into the prefix, and its two       *)
(* entries are lifted from the list, if the model allows it and the same   *)
(* operations have not led to the same state before; a return ends the     *)
(* walk, for no operation behind it may precede the one it belongs to, and *)
(* the last call is taken back.                                            *)
(***************************************************************************)
EXTENDS Porcupine

CONSTANTS Inputs,          \* the histories that are searched
          TimeLimited      \* whether the timeout may strike

\* A part is a sequence of operations, each with a value and the two times of its
\* entries.
PartsAreTimed(ps) ==
    \A k \in DOMAIN ps :
        /\ Len(ps[k]) \in Nat /\ DOMAIN ps[k] = 1..Len(ps[k])
        /\ \A x \in DOMAIN ps[k] :
            ps[k][x].call \in Nat /\ ps[k][x].return \in Nat /\ ps[k][x].value \in Int

ASSUME InputsAssumption ==
    \A input \in Inputs : input.init \in Int /\ PartsAreTimed(Partition(input))

VARIABLES h,               \* the history
          parts,           \* its parts
          calls,           \* per part: the prefix, as positions
          state,           \* per part: the states before each call, and now
          at,              \* per part: the current entry of the list
          cache,           \* per part: operations put and state reached
          longest,         \* per part and position: the longest prefix with it
          result,          \* per part: how the search ended
          heard,           \* the parts whose results the caller has received
          ok, timedOut,    \* the caller's flags
          verdict          \* what the caller returned

search == <<calls, state, at, cache, longest, result>>
caller == <<heard, ok, timedOut, verdict>>
vars == <<h, parts, search, caller>>

-----------------------------------------------------------------------------
(* The list of a part *)

Positions(k) == DOMAIN parts[k]

Entry(kind, x) == [kind |-> kind, op |-> x]

TimeOf(k, e) == IF e.kind = "call" THEN parts[k][e.op].call ELSE parts[k][e.op].return

\* Calls come before returns of the same time.
Before(k, e, f) ==
    \/ TimeOf(k, e) < TimeOf(k, f)
    \/ /\ TimeOf(k, e) = TimeOf(k, f)
       /\ \/ e.kind = "call" /\ f.kind = "return"
          \/ e.kind = f.kind /\ e.op < f.op

\* The entries of the operations that are not in the prefix s.
Listed(k, s) == {Entry(kind, x) : kind \in {"call", "return"}, x \in Positions(k) \ Range(s)}

NoEntry == Entry("none", 0)

\* The first of the entries E.
Least(k, E) ==
    IF E = {} THEN NoEntry ELSE CHOOSE e \in E : \A f \in E \ {e} : Before(k, e, f)

After(k, s, e) == Least(k, {f \in Listed(k, s) : Before(k, e, f)})

-----------------------------------------------------------------------------

Current(k) == parts[k][at[k].op]

Now(k) == Last(state[k])

\* Deviation: the model is asked about the state before all calls.
AllowedAtStart(k) == Legal(Current(k), InitState(h))

Allowed(k) == Legal(Current(k), Now(k))

Reaches(k) == <<Range(calls[k]) \union {at[k].op}, Apply(h, Current(k), Now(k))>>

\* Deviation: the same operations count as seen whatever state they led to.
SeenInAnyState(k) == \E c \in cache[k] : c[1] = Reaches(k)[1]

Seen(k) == Reaches(k) \in cache[k]

Running(k) == result[k] = "running"

AtCall(k) == Running(k) /\ at[k].kind = "call"
AtReturn(k) == Running(k) /\ at[k].kind = "return"

Lift(k) ==
    /\ AtCall(k)
    /\ Allowed(k)
    /\ ~Seen(k)
    /\ calls' = [calls EXCEPT ![k] = Append(@, at[k].op)]
    /\ state' = [state EXCEPT ![k] = Append(@, Reaches(k)[2])]
    /\ cache' = [cache EXCEPT ![k] = @ \union {Reaches(k)}]
    /\ at' = [at EXCEPT ![k] = Least(k, Listed(k, calls'[k]))]
    /\ UNCHANGED <<h, parts, longest, result, caller>>

\* Deviation: the walk goes on behind a return.
SkipReturns(k) ==
    /\ Running(k) /\ at[k] # NoEntry
    /\ AtCall(k) => ~Allowed(k) \/ Seen(k)
    /\ at' = [at EXCEPT ![k] = After(k, calls[k], @)]
    /\ UNCHANGED <<h, parts, calls, state, cache, longest, result, caller>>

Skip(k) ==
    /\ AtCall(k)
    /\ ~Allowed(k) \/ Seen(k)
    /\ at' = [at EXCEPT ![k] = After(k, calls[k], @)]
    /\ UNCHANGED <<h, parts, calls, state, cache, longest, result, caller>>

\* The prefix is noted for its operations where it is longer than what was.
Noted(k) ==
    [x \in Positions(k) |->
        IF x \in Range(calls[k]) /\ Len(calls[k]) > Len(longest[k][x])
        THEN calls[k] ELSE longest[k][x]]

\* Deviation: the state before the call that is taken back is not restored.
BacktrackKeepsState(k) ==
    /\ AtReturn(k)
    /\ calls[k] # <<>>
    /\ longest' = [longest EXCEPT ![k] = Noted(k)]
    /\ calls' = [calls EXCEPT ![k] = Front(@)]
    /\ at' = [at EXCEPT ![k] = After(k, calls'[k], Entry("call", Last(calls[k])))]
    /\ UNCHANGED <<h, parts, state, cache, result, caller>>

Backtrack(k) ==
    /\ AtReturn(k)
    /\ calls[k] # <<>>
    /\ longest' = [longest EXCEPT ![k] = Noted(k)]
    /\ calls' = [calls EXCEPT ![k] = Front(@)]
    /\ state' = [state EXCEPT ![k] = Front(@)]
    /\ at' = [at EXCEPT ![k] = After(k, calls'[k], Entry("call", Last(calls[k])))]
    /\ UNCHANGED <<h, parts, cache, result, caller>>

Exhaust(k) ==
    /\ AtReturn(k)
    /\ calls[k] = <<>>
    /\ result' = [result EXCEPT ![k] = "rejected"]
    /\ UNCHANGED <<h, parts, calls, state, at, cache, longest, caller>>

\* The list is empty: the prefix is a linearization.
Complete(k) ==
    /\ Running(k)
    /\ at[k] = NoEntry
    /\ longest' = [longest EXCEPT ![k] = [x \in Positions(k) |-> calls[k]]]
    /\ result' = [result EXCEPT ![k] = "complete"]
    /\ UNCHANGED <<h, parts, calls, state, at, cache, caller>>

\* Every round of the search looks at the flag that the caller sets on timeout.
Cut(k) ==
    /\ timedOut
    /\ Running(k)
    /\ at[k] # NoEntry
    /\ result' = [result EXCEPT ![k] = "cut"]
    /\ UNCHANGED <<h, parts, calls, state, at, cache, longest, caller>>

-----------------------------------------------------------------------------
(* The caller *)

Hear(k) ==
    /\ verdict = "" /\ ~timedOut
    /\ k \notin heard
    /\ ~Running(k)
    /\ heard' = heard \union {k}
    /\ ok' = (ok /\ result[k] = "complete")
    /\ UNCHANGED <<h, parts, search, timedOut, verdict>>

TimeOut ==
    /\ TimeLimited
    /\ verdict = "" /\ ~timedOut
    /\ heard # DOMAIN parts
    /\ timedOut' = TRUE
    /\ UNCHANGED <<h, parts, search, heard, ok, verdict>>

\* Deviation: also after a timeout the caller waits for every result.
AnswerWhenHeard ==
    /\ verdict = ""
    /\ heard = DOMAIN parts
    /\ verdict' = IF ~ok THEN "Illegal" ELSE IF timedOut THEN "Unknown" ELSE "Ok"
    /\ UNCHANGED <<h, parts, search, heard, ok, timedOut>>

\* After a timeout the caller waits for the searches it has cut off.
Answer ==
    /\ verdict = ""
    /\ IF timedOut THEN \A k \in DOMAIN parts : ~Running(k) ELSE heard = DOMAIN parts
    /\ verdict' = IF ~ok THEN "Illegal" ELSE IF timedOut THEN "Unknown" ELSE "Ok"
    /\ UNCHANGED <<h, parts, search, heard, ok, timedOut>>

-----------------------------------------------------------------------------

Init ==
    /\ h \in Inputs
    /\ parts = Partition(h)
    /\ calls = [k \in DOMAIN parts |-> <<>>]
    /\ state = [k \in DOMAIN parts |-> <<InitState(h)>>]
    /\ at = [k \in DOMAIN parts |-> Least(k, Listed(k, <<>>))]
    /\ cache = [k \in DOMAIN parts |-> {}]
    /\ longest = [k \in DOMAIN parts |-> [x \in DOMAIN parts[k] |-> <<>>]]
    /\ result = [k \in DOMAIN parts |-> "running"]
    /\ heard = {} /\ ok = TRUE /\ timedOut = FALSE /\ verdict = ""

Step(k) == Lift(k) \/ Skip(k) \/ Backtrack(k) \/ Exhaust(k) \/ Complete(k) \/ Cut(k) \/ Hear(k)

Next == (\E k \in DOMAIN parts : Step(k)) \/ TimeOut \/ Answer

Spec == Init /\ [][Next]_vars

\* Goroutines run: none waits for another, and the caller waits for them.
FairSpec == Spec /\ WF_vars(Next)

-----------------------------------------------------------------------------
(* Properties *)

Results == {"running", "complete", "rejected", "cut"}

TypeOK ==
    /\ \A k \in DOMAIN parts :
        /\ Range(calls[k]) \subseteq Positions(k)
        /\ Len(state[k]) = Len(calls[k]) + 1
        /\ at[k] = NoEntry \/ at[k] \in Listed(k, calls[k])
        /\ result[k] \in Results
    /\ heard \subseteq DOMAIN parts
    /\ verdict \in {"", "Ok", "Illegal", "Unknown"}

\* The prefix s has no operation that one outside of it precedes.
RespectsRealTime(k, s) ==
    \A x \in Range(s), y \in Positions(k) \ Range(s) :
        ~Precedes(parts[k][y], parts[k][x])

\* Whatever is reported, by a search that came to its end or by one that was
\* cut off, leaves nothing out that should have come before: the constraint
\* real-time-precedes of pkg/checker is never the reason of a block.
ReportsRespectRealTime ==
    \A k \in DOMAIN parts : \A x \in Positions(k) :
        RespectsRealTime(k, longest[k][x])

\* The replay of a reported prefix in pkg/checker never meets an illegal step.
ReportsReplay ==
    \A k \in DOMAIN parts : \A x \in Positions(k) :
        LET p == longest[k][x] IN Replay(h, [j \in DOMAIN p |-> parts[k][p[j]]]).ok

\* What the caller gets, as pkg/checker sees it.
Reply ==
    IF verdict = "Illegal"
    THEN [verdict |-> verdict,
          reports |-> [k \in DOMAIN parts |-> Range(longest[k]) \ {<<>>}]]
    ELSE [verdict |-> verdict, reports |-> <<>>]

Call == INSTANCE CheckCall WITH reply <- Reply, MayTimeOut <- TimeLimited

\* The search is one call of the checker: through the cache of states and the
\* lifting of entries, it answers with a verdict and reports that the
\* declarative definition of the call allows, timeouts included.
ImplementsCheckCall == Call!Spec

\* The call returns, with or without a timeout.
SearchReturns == <>(verdict # "")
=============================================================================
