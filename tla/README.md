# whynot: verification project

whynot explains why a recorded history of operations is not linearizable. It
runs the Porcupine checker, reconstructs from what the search reports why
operations could not be placed, matches the result against a catalogue of named
violations, cuts the history down with delta debugging as long as the same name
still fits, and prints the explanation. These modules model that pipeline from
its Go source, check them with TLC and prove with TLAPS what matters most
of the minimizer, the pipeline, the search, the adapters and the recorder.

`PROJECT.json` holds the same facts for tools: components, runs, mutants, the
map from definitions to source lines, findings, hazards, theorems.

## 1. Inventory

| part | state it keeps | operations | how it meets the others |
|---|---|---|---|
| `pkg/history` types, `validate` | a history: model name, initial value, sequence of operations (id, client, type, key, value, call, return) | `Load`, `Read`, `validate` | read by every other part; immutable once read, sub-histories share it |
| `pkg/history` `Builder` | the operations so far, the next id | `Write`, `Read`, `WriteKey`, `ReadKey`, `Op`, `Build` | produces histories that are *not* validated |
| `pkg/model` | none (a state is passed through) | `Init`, `Step`, `Partition`, translators, `SelectModel` | called by the search, by the replay in `classifyBlock` and for every sub-history of the minimizer |
| Porcupine (library) | a search over prefixes, one goroutine per partition | `CheckOperationsVerbose`, `PartialLinearizationsOperations` | called by `checker.Check` under a timeout; reports come out of a Go map |
| `pkg/checker` | a rejection trace under construction | `Check`, `buildPartitionTrace`, `classifyBlock` | called by the explainer and, through the predicate, by every step of the minimizer |
| `pkg/pattern` | none | five matchers in the order of `All` | called back by the explainer on traces of the whole and of reduced histories |
| `pkg/minimize` | operations kept, granularity, loop index | `DDMin`, `ddmin`, `splitChunks`, `concatExcept` | calls back the predicate, which is checker and matcher again |
| `pkg/explainer` | stage of the call, trace, matcher tried, explanation | `Explain`, `patternPredicate` | drives all of the above |
| `pkg/adapter/jepsen` | pending invocations by process, next id; the parser's calls in progress | `ReadEDN`, `buildOp`, `parseEDN` with `parseSeq` and `parseMap` | produces histories that are not validated |
| `pkg/adapter/porcupine` | ids seen | `FromOperations`, translators | produces histories that are not validated further |
| `scripts/genhist` | leader, follower, recorder, shared random generator | concurrent and sequential drivers with injected bugs | produces histories |
| `whynot.go`, `cmd/explain` | none | one call of `Explain` each | entry points |

The hard behaviours are of two kinds. In the pipeline, which is one goroutine but
for the library's search, *the same question is asked again and the answer has
changed*:

- every call of the predicate re-runs an exponential search under a timeout, so
  that a sub-history may fail once and not the next time;
- the timeout strikes between any two steps of the goroutines that search the
  parts of a history, and one part may be rejected while others are cut off;
- ties between longest partial linearizations, and between clients, are broken
  by the order of Go maps, so that the same history may be explained differently
  on two runs, and the check after minimization may disagree with the check that
  the predicate made of the very same history;
- the minimizer removes operations while the explanation of the first match
  still names them;
- the minimizer is a recursion over two quantities that move in opposite
  directions, and its promise (one-minimality) is about a whole pass over the
  last granularity.

In front of it, *the history has to be the one that happened*: clients interleave,
operations fail, stay in flight or are given up, logs lose events, ids are taken
outside the lock that orders the operations, replications overtake each other and
times are cut.

What makes each part correct:

- *minimizer*: shrinks only, in order; keeps only what the predicate accepted;
  returns a one-minimal history; ends; asks O(n²) questions;
- *checker*: the verdict is that of the definition of linearizability; a block
  reason means what the text printed with it says;
- *patterns*: the operations named are in conflict, and are of the kind the
  template describes;
- *explainer*: never a wrong verdict; the witness still fails, is minimal for
  the pattern named, and contains the operations in conflict; an answer is always
  given;
- *search*: what a finished or cut-off search reports respects real time and
  replays, and the caller always returns;
- *adapters, builder, drivers*: what they produce is the history that happened:
  every operation that completed, with its interval, and none that did not; a
  correct register is never turned into a rejected history; input is refused
  only for a reason.

`PROJECT.json` lists the hazards at their lines, each with the properties that
would catch it, or a note where none does.

## 2. Modules

```
Subsequences <- Minimizer                 what pkg/minimize promises
             <- DDMin                     pkg/minimize, refines Minimizer
                 <- DDMinCost             DDMin with a count of predicate calls
Histories <- Models <- Porcupine          pkg/history, pkg/model, what the library's search finds
                        <- Checker        pkg/checker
                            <- CheckCall  the search as one step of the caller
                        <- Search         the search step by step, refines CheckCall
          <- Linearizability              the definition verdicts are compared with
          <- Patterns                     pkg/pattern
          <- BugHistories                 scripts/genhist: planted bugs, the sort
Checker, Patterns, Linearizability, Subsequences, DDMin <- Explainer    pkg/explainer
Explainer, BugHistories <- PlantedBugs    genhist and the pipeline together
BugHistories, Checker, Patterns, Linearizability <- Recorder    scripts/genhist: concurrent driver
EDN                                       pkg/adapter/jepsen: the parser of logs
Execution                                 clients of a register (not part of the repository)
JepsenAdapter, PorcupineAdapter, Builder  pkg/adapter/*, pkg/history: Builder
Execution, the three, Linearizability <- Intake    from an execution to a history
```

`DDMinProofs`, `DDMinCostProofs`, `ExplainerProofs`, `SearchProofs`,
`JepsenAdapterProofs`, `IntakeProofs` and `RecorderProofs` hold the theorems about the
modules they are named for, `SequenceLemmas` what several of them need of sequences,
folds and the sort by the calls; `MC*` are the instances for TLC.

**DDMin.** One behaviour is one call. `h` and `pred` are the arguments, `ops`
and `n` the arguments of the recursive `ddmin`, `phase` and `i` the program
counter: `start` is `DDMin` before it calls `ddmin`, `enter` the length test,
`subset` and `complement` the two range loops at index `i`, `done` the return.
Every action makes at most one call of the predicate. `Start`/`GiveUp` are the
two ways through `DDMin`; `KeepChunk`/`PassChunk` the body of the first loop
(taken, and `continue` or refused); `DropChunk`/`PassComplement` that of the
second; `Refine` the last recursive call and `Finish` the last `return`. Chunks
are not stored: `Cut(k)` is where the k-th chunk of `splitChunks` ends, and
chunk and complement are slices between cuts.

The predicate is opaque, as in Go: `Answers(p, s)` is the *set* of the answers
it may give on `s`. A consistent predicate is the special case of one-element
sets. One-minimality then reads: for each operation of the result, the predicate
may refuse the history without it.

**Minimizer** is the abstract specification: `Shrink` moves to a shorter,
non-empty, accepted subsequence, any at all; `Return` is allowed when nothing is
left to drop, when the predicate refuses the input, or at a one-minimal
history. There are no chunks and no granularity in it.

**Porcupine** models the library by the interface the repository uses. It
defines the prefixes that the search reaches (an operation may follow if it is
legal and no open operation precedes it), and for each operation the first of the
longest prefixes with it, in the order in which the depth-first search tries
operations. The set of these prefixes has no order: the library keeps them in a
map.

**Checker**: `Check(h)` is the set of the traces one call may return. The trace
has the shape of `RejectionTrace` (partitions; longest prefix, partial
linearizations, blocked operations, block reasons). `classifyBlock` tries the
three constraints in the order of the code. **Patterns**: `Match(m, rt)` is the
set of the explanations matcher `m` may return for a trace; empty when it does
not fit. What the loops of the matchers look for are sets of positions in the history
(or of pairs, in nested lists of partitions and blocks), and what a loop meets first
is the least of them. **Explainer**: `pc` is the stage of `Explain`; the minimizer's variables
are those of an instance of `DDMin` whose predicate re-runs `Check` and `Match`,
so that each question is a fresh choice among the traces possible at that
moment. `Recheck` is the second check with its fallback.

**Linearizability** is the independent reference: a total order of the
operations, found by a bijection to positions, that respects real time and in
which every read returns what the writes before it left. It shares no operator
with the search, the replay or the partitions.

**Search** has the steps behind `Porcupine`. A part of the history is a list of
calls and returns in the order of time. `Lift` puts the call that the walk is at
into the prefix and takes its two entries from the list, if the model allows it and the cache has
not seen the same operations lead to the same state; otherwise the walk goes on
(`Skip`), and at a return it ends: the last call is taken back (`Backtrack`). Parts are searched by one
goroutine each, the caller collects their results in any order, and the timeout
may strike between any two steps. `CheckCall` is the same call as `Checker` makes
it, in one step; that `Search` implements it, which is proved (section 5) and checked,
is what justifies `Checker`.

**Execution** is the world outside: clients of an atomic register, whose operations
take effect at one moment between call and return, or (given up, `:info`) at any
later moment or never. It is marked external. **Intake** lets a test stop at some
moment and hands what it has to one of the front ends: the log of events, whole
or damaged at one event (lost, without a time, or a foreign entry), to
**JepsenAdapter** (`ReadEDN`, one action per branch of its loop), the operations
that returned to **PorcupineAdapter** (`FromOperations`, one operation per step),
or the same operations call by call to **Builder**. **EDN** is the parser below
`ReadEDN`: its stack is the calls of `parseSeq` and `parseMap` in progress; the
reference is the grammar of the package comment (`Meanings`), read off stretches of the
text without a stack. It has its own literals and brackets and takes from the parser
only how tokens and values are written down; truth values, which the comment does not
have, are replaced by the numbers they are read as before the grammar is asked.

**Recorder** is one run of `genhist -bug concurrent`. A client is a goroutine whose
operation takes its start time, takes effect (a write on the leader, a read on
the follower), takes its end time, its id (outside the lock) and is appended
(inside it); each write starts a replication that nothing orders. **BugHistories**
has the five planted histories with the logical clock that lays them out, and
**PlantedBugs** feeds them to `Explainer`.

Abstracted: values are small integers (a counter does not reach the width of
`int`); times are small integers; text (`Summary`, `Why`, `Suggestions`,
`Detail`, `StateDesc`) is left out, and with it `describeOp`, `latestWriteID`
and `countBlocked`, which only feed it. The characters of a log are cut into tokens
before `EDN` starts. A matcher's own witness is kept although `Explain` overwrites
it. `Explain` selects the witness's model again; since the minimizer keeps the
model of the history, that cannot fail, and there is no error branch there.
Histories given to `Explain` are valid ones; that the builder and the adapters make
valid ones of an execution is checked by the run `intake` (`MadeIsValid`).

## 3. Runs

| run | what it asks |
|---|---|
| `ddmin` | all 2^14 predicates on four operations that hold of the whole history (also the non-monotone ones), all "contains this core" predicates on histories of 0 to 7 operations, and predicates that may waver on any history longer than two: refinement of `Minimizer`, the inductive invariant `SearchInv` of the proofs, type and chunk invariants, one-minimality, termination |
| `ddmin_cost` | `asked <= 2 n²` for a predicate free to answer anything at any call, histories of 0 to 10 operations |
| `explain` | four families of histories, enumerated (registers, counters and two-key stores of up to three operations over five overlapping or disjoint intervals, registers of up to four operations in four disjoint rounds), and the planted histories of genhist. Verdict against the definition (for the store: of the *whole* history; for the counter: also with the kind `cas`, which the model reads as a read), a witness that still fails, is minimal and contains the conflict, the meaning of block reasons, and that each planted bug is named. 322,062 states |
| `explain_timeouts` | chosen histories shaped like the fixtures of `testdata/histories` (and longer ones with ties, an empty one, one of no model), the search of any of their parts free to be cut off, with the catalogue and with no matchers: verdict, witness, conflict, and that `Explain` returns. 851 states |
| `search` | the search step by step, with the timeout between any two steps, on registers of four operations over overlapping intervals, on counters and on stores of two parts: refinement of `CheckCall`, real time, replay, and that the call returns. 72,598 states |
| `intake` | two clients of an atomic register, up to three calls, every interleaving, clock ties, an empty or a set register; all three front ends: nothing lost or made up, refused only for a reason (also by the translator of another model), valid, no false alarm. 6.3 million states |
| `recorder` | two clients with two operations each, every order of their steps and of the replications, a clock of two ticks per microsecond: ids, order, nothing lost, no read from the future, truncation only relaxes, no false alarm, lateness explained as lateness. 1.8 million states |
| `edn` | all texts of up to six tokens over ten: the parser accepts exactly the texts of the documented grammar, with their meaning, and those with truth values (section 6). 1.2 million states |
| `find_*` | one disagreement each between code and its comments (section 6) |

**Bounds and why they are enough.** Four operations give the minimizer all of
granularity 2, 3 and 4, uneven chunks, and the step from a removal to a lower
granularity; with seven there are two doublings and a division with a remainder
of every kind; which operations are removed is the predicate's choice, and all
predicates are tried at four. The cost run needs no predicate at all, so ten
operations are cheap. In the pipeline every template of the catalogue needs at
most three operations (two writes and a read, a write and two reads). Five
intervals over three rounds contain every relation that matters between two
operations: before, after, overlapping, spanning. A register tells values apart
by equality only, so of histories that differ by exchanging the values 1 and 2
one is kept. Reads that overlap no other read are given to one client, so that
the monotonic template applies; every other operation has its own. The family of
rounds has a fourth operation, since there is little to minimize in a history of
three. (The families are a set of sets, so that TLC need not build their union.)

The search needs four operations for two to be interchangeable before a third (the
cache) and two parts for a timeout between them; the families contain ties of a
call with a call and of a call with a return. For the front ends, two clients and
three calls contain a completed, a failed and an abandoned operation side by side,
and a process that calls again; clients are model values and nothing tells them
apart, so that symmetry is sound (`Intake` neither orders nor counts with them).
Two events per tick make ties. For the recorder, two writes are
enough for replications to overtake each other, two clients for ids and positions
to differ, and two ticks per microsecond for two operations to be ordered or not
after cutting. A text of six tokens holds a map within a vector, a wrong bracket
at two depths, a duplicate key and a key without a value.

`CHECK_DEADLOCK FALSE` everywhere: a call ends.

**Fairness.** `WF_vars(Next)` in `DDMin`, `Explainer` and `Search`. In the first two
one call runs on its caller's goroutine, waits for no other process, and each
check inside it is bounded by its timeout, so that some step is always eventually
taken. In `Search` the goroutines of the parts are scheduled by a runtime that runs
something while anything can run; which one is not assumed fair, and the property
is that the caller returns, because every search ends. No choice among steps is
assumed fair anywhere; in particular the predicate may answer as it likes for
ever, and termination has to come from the code.

Every property is tied to a *deviation*, a plausible mistake in one definition
(the module text marks them so) under which TLC finds the property violated:
chunks without the remainder, a granularity that is not clamped, a search that
stops one doubling early, a fallback that keeps the minimized witness, chunks
joined in the wrong order, a sub-history that loses the initial value, a key-value
model that forgets to partition, a cache that forgets the state, an append outside
the lock, a completion paired with the older invocation, and others.

## 4. What the runs show

The minimizer is right, for consistent and for wavering predicates; it asks at
most 2n² questions. (The design says O(n²); a bound of n² + 3n, which holds for
powers of two, is exceeded for odd lengths, whose refinement produces uneven
chunks.) The verdict of the pipeline is that of the definition on all enumerated
histories (and on all others, section 5). Whatever times out, no verdict is wrong, the witness is a
sub-history that fails, and the conflict is within it: the fallback after the
second check is reachable, and consistent. It is also a second line of defence:
a minimizer that returns a history its predicate did not accept is caught by the
second check, so that such a mistake shows in the refinement of `Minimizer`, not
in the witness that is printed.

The search, with its cache, lifting and timeouts, implements the single step that
`Checker` takes. A correct register never becomes a rejected history through any
of the front ends, as long as no operation is in doubt and no event of the log is
lost; a log that lost an event costs at most the operation it belonged to, or is
refused. The recorder loses no operation, its truncated clock never puts two
operations into an order they did not have, and a follower that was never late is
never rejected. One that was late is only explained by `stale_read`, `lost_update`
or `non_monotonic_read`, if at all. All of this holds of every instance (section 5).

Two facts about block reasons are worth knowing. `real-time-precedes` is never
given (`RealTimePrecedesUnreachable`, for every history a theorem): the search puts
no operation into a prefix while one that precedes it is open, so the first branch of
`classifyBlock` is dead code. And `concurrent-conflict`, the catch-all, is only given to operations
that were not yet due: another open operation had returned before their call
(`ConcurrentConflictIsDownstream`, for every history a theorem as long as no search
is cut off), so it never hides the operation at fault.

## 5. Proofs

`DDMinProofs` proves, for every set of operations, every history and every
predicate, whether consistent or not, from the single assumption that the
histories are sequences of operations (`CallsAssumption`):

- `SearchInvariant`: `Spec => []SearchInv`;
- `TypeCorrect`: `Spec => []TypeOK`;
- `ChunksCover`: `Spec => []ChunksPartition`;
- `OneMinimality`: `Spec => []OneMinimalResult`;
- `Implementation`: `Spec => ImplementsMinimizer`, the refinement.

One-minimality is not inductive. When the search finishes it holds because every
complement of the last pass was refused, so `SearchInv` adds that, for all
indices the second loop has passed, the complement may be refused. That this is
one-minimality at the last granularity is lemma `SingleChunks`: with `n >=
Len(ops)` the k-th chunk is exactly the k-th operation. `PassComplement` either
saw a refusal or skipped an empty or whole complement; that there is none such
needs the arithmetic of `splitChunks` (`Multiples`, `Division`, `CutBounds`):
with n chunks of len, the k-th cut lies between k and len - (n - k), and cuts
strictly increase. `Pieces` concludes that chunks and complements are proper,
non-empty subsequences. That what is kept stays a subsequence of the history
needs transitivity, which is proved over embeddings of positions
(`SubsequenceTransitive`), since operations may be equal. The refinement reuses
the same facts: `KeepChunk` and `DropChunk` are a `Shrink`, `GiveUp`, `Finish` and
a return from `Enter` are a `Return`, every other step stutters.

`DDMinCostProofs`, from the same assumption, proves `QuadraticCost`: `CountingSpec =>
[]QuadraticCalls`. The count alone is not inductive; `CostInv` bounds it together
with a budget for what may still be asked. `Budget(len, k)`, for `len` operations
at granularity `k`, is len² + len when chunks are single operations, since each
level then asks 2 len questions and loses an operation; below that it adds
4 len - 2k - 4, since a level that refuses everything asks 2k and k doubles. The
lemmas `BudgetAfterRemoval`, `BudgetAfterKeeping` and `BudgetAfterRefining` say
that each recursive call lowers the budget by at least what its level asked;
`PieceLengths` that a chunk leaves enough (k non-empty chunks, so none has more
than len - k + 1 operations); `BudgetOfSearch` that the first budget fits into 2n².

`SearchProofs` proves, for any number of operations and parts and wherever the timeout
strikes, from the assumption that values, initial values and times are integers
(`InputsAssumption`):

- `TypeCorrect`: `Spec => []TypeOK`;
- `ReportsAreDownwardClosed`: `Spec => []ReportsRespectRealTime`. The prefix is a stack,
  and a suffix that is taken back must leave it right: the invariant says, for each
  position of the stack, that no operation put later or never precedes the one
  there (`Stacked`). That a new call may be put rests on the walk: no return that is
  still in the list lies before it (`Walking`), for the walk ends at the first return;
  and entries are totally ordered by time, calls before returns on ties;
- `ReportsAreReplayed`: `Spec => []ReportsReplay`. The report is a copy of a prefix made
  earlier, so the invariant (`ReplayInv`) has to say of the stack of states as a whole
  that it is the replay of the prefix, position by position;
- `VerdictOkIsSound`: the verdict `Ok` means that each part has a linearization. A prefix
  reaches the end of the walk only when the list is empty (`AcceptInv`): if an entry
  were left, one of the calls in the prefix would have its return in front of it;
- `SearchImplementsCheck`: `Spec => ImplementsCheckCall`, the refinement. The answer of the
  caller is the `Return` of `CheckCall`, every other step stutters.

`CheckCall` says of a part what the set of all prefixes contains that real time and the
model allow; the search keeps one prefix, a cache and an array. What relates the two
is that a walk tries prefixes in a fixed order (`TriedBefore`): the prefix and the entry
at which the walk stands divide all prefixes of a part into those it has passed and
those to come (`Passed`). `PartTried` says of the passed ones that for each operation the
array has the longest with it, and the first of those (`Reports`), that none is complete
(`NoFull`), and that the cache stems from them (`Cached`). `Lift` moves on into the prefixes
that go on from the current one, `Backtrack` passes the current one itself, the last of
all that begin with it (no prefix goes on with an operation behind the return at which
the walk ends), and `Skip` passes at once all that would go on with the operation. When the model refuses
it there are none. When the state was seen, each of them has a twin that was passed
earlier, with the same operations and hence of the same length (`GoesOnAsWell`), which
is why skipping changes neither the longest prefixes nor the first of them. For a part
that was searched to its end, `ExploreInv` is thus what `CheckCall` asks for, with the levels
by which `CheckCall` defines the set of prefixes unfolded (`ReachedAreTried`). For one that
was cut off, the passed prefixes are closed under what comes before and have a last
one (`LastOfThem`), which is how `CheckCall` describes the answers that a timeout may leave
behind (`ReportsOfACutOff`). `CallerInv` adds that the caller knows what it has heard: it
answers only when no part is running, and all parts are heard unless time ran out.

`ExplainerProofs` proves, for every family of valid histories whose ids, values and
times are integers (`FamiliesAssumption`), every list of matchers of the catalogue
(`MatchersAssumption`), every order of maps and every timeout:

- `CheckerIsSound`: `CheckIsSound`, the contract of the checker. For every history of
  the three models and every part of it that minimization may ask about, a verdict
  `Ok` means that the definition of linearizability holds, `Illegal` that it does not;
- `AnswersWereChecked`: a verdict was given by a check of the history, and the
  witness of a rejection is a part of the history that a check rejected;
- `VerdictIsSound`: `Spec => []VerdictIsRight`;
- `WitnessesFail`: `Spec => []WitnessStillFails`;
- `ConflictsAreInWitness`: `Spec => []ConflictInWitness`;
- `WitnessesAreOneMinimal`: `Spec => []WitnessOneMinimal`;
- `LostUpdatesAreTwoWrites`: `Spec => []LostUpdateNamesTwoWrites`;
- `RealTimePrecedesNever`: `Spec => []RealTimePrecedesUnreachable`;
- `TypeCorrect`: `Spec => []TypeOK`;

and, from the further assumption that no search is cut off (`~MayTimeOut`; that a
part without fault may be reported as blocked otherwise is the finding of `find_cut_off`):

- `ConflictsAreDownstream`: `Spec => []ConcurrentConflictIsDownstream`;
- `BlockedPartsFail`: `Spec => []BlockedPartFails`.

The contract compares a search, part by part, with an order of the whole history
that the definition asks for, and takes five steps:

- *parts*: a part takes the operations of its key and no others, each once
  (`OnlyThose`, by induction over the history), and each operation is in one
  part (`PartsArePartitions`);
- *what is reached is right* (`AllAreRight`): by induction over the levels of the
  search, each node is an order of a part of the operations that real time and the
  model allow, and its state is what the writes in it leave (`ValueAfter`);
- *nothing is missed* (`LinearizationIsReached`): the operations of a part, sorted by
  their positions in a linearization of the whole (`SortedBy`), are children of one
  another down to the last level. For the state this needs that a read sees the
  same value in its part as in the whole, since operations of other keys change
  nothing that it reads (`EarlierIsTaken`);
- *locality* (`Locality`): orders of the parts make one of the whole. An operation is
  given a point, the latest call among the operations up to it in its part; points
  lie within the operations, so that sorting by them respects real time between
  parts, and ties are broken by part and place. For a counter or a register there is
  one part, but the proof is the same;
- *the verdict*: `OkIsSound` puts these together; `IllegalIsSound` is the other direction,
  for a part that was searched to its end, whatever else was cut off.

The pipeline adds no error of its own: its steps compose the proof of the
minimizer (`MinimizeStepKeepsInv` instantiates `DDMinProofs` with the real
predicate) with the two ways out of `Recheck`. The inductive invariant `ExplainInv`
says that what the minimizer keeps is a part of the history that a check has rejected.

What is said about an explanation rests on what a trace is made of:

- *reports*: what is reported of a part are prefixes that the search tried, and every
  operation that was placed at all is in one of them (`ReportedFrom`, `FirstIsThere`);
- *traces* (`TraceShape`): each part of a trace is a part of the history with such
  reports, and each block is of an operation outside all of them, judged against the
  longest (`BlockOf`; an id tells operations apart, `IdsTellApart`);
- *replay* (`NodesReplay`): replaying a prefix that was reached succeeds and ends in the
  state the search had there. The branch of `classifyBlock` for a replay that fails is
  dead code, too;
- *reasons*: nothing outside a prefix precedes an operation in it (`NoInversions`), which
  excludes `real-time-precedes`. An operation that may follow a prefix is in a prefix
  itself if the search was finished (`CanGoOn`); so one that is not, and that the
  model would take after the longest prefix, waits for another (`ConflictWaits`).
  And a part with a linearization would have a prefix with all of its operations
  (`BlockedPartIsWrong`).

The properties of named explanations are about two histories, the one that a matcher
saw last and the one that is printed. `NamedInv` says that they are the same: the
explanation was given of what the minimizer left or, only if the predicate may refuse
that, of the whole history. From there `ConflictInWitness` is that each matcher
names operations of the history it is given (`FirstFitExplains`,
`NonMonotonicExplains`), and `WitnessOneMinimal` is `OneMinimality` of the minimizer
carried over to the real predicate. The statement says what is meant when nothing can
be minimal: a predicate that wavers may refuse at the second check what it accepted,
and then the whole history is printed.

`JepsenAdapterProofs` proves `PairsAreAdjacent` for every log, whole or damaged, without
an assumption on its entries: the operations of a history are the `:ok`s of clients in
their order, each with the `:invoke` that is the last event of its process before
it. The invariant adds that what is pending is an invocation with no event of its
process since (`PendingIsLatest`), and that the operations made enumerate the `:ok`s up
to the entry read next. The run `intake` checks the same definition.

`IntakeProofs` proves, for every number of clients and calls, every resolution of the
clock and every way to give metadata, that is from the assumptions that the bounds are
numbers and no client is the stand-in for a missing process (`ExecutionAssumption`) and
that a client knows no other kinds of operations than the model has (`KindsAssumption`):

- `TypeCorrect`: `Spec => []TypeOK`;
- `NeverJoined`: `Spec => []OpsArePairs`. It is the theorem about `ReadEDN` applied to the
  log that the execution writes;
- `NeedsNoValidation`: `Spec => []MadeIsValid`. What each front end relies on differs, and
  `IInv` has a part for each: the log is in the order of time, whole or damaged
  (`ExecutionInv`, `LogInv`), so that the `:invoke` that was paired with an `:ok` is not
  later; ids from metadata are checked against those seen, and the sort keeps them
  (`OperationsInv`); the builder numbers what it is given (`BuilderInv`);
- `MadeOfWhatCompleted`: `Spec => []HistoryIsWhatCompleted`;
- `RefusedOnlyForAReason`: `Spec => []RefusedForAReason`;
- `AtomicIsLinearizable`: `Spec => []NoFalseAlarm`.

The first of the last three compares a history with what the clients know to have
returned, by way of a log that may have lost an event. `TruthInv` says of the log as
written that the events of a process alternate, that its `:ok`s enumerate the completed
operations in their order, and that each is preceded by the `:invoke` of its operation.
What the log at hand has to do with the one that was written is that one event is
missing, changed or inserted: positions of the one are carried over to the other, and the
last event of a process before an `:ok` is still its `:invoke`, unless that is what was
lost (`CarriedInv`). The adapter enumerates the `:ok`s of the log at hand
(`JepsenAdapterProofs`), and two enumerations of one set in one order are equal
(`SameEnumeration`). For the other front ends `ConversionInv` says that what has been
translated or built is the beginning of what completed. The second turns the same facts
around: each refusal points at an entry, and an entry that is as it was written is never
refused. For the third, the moments at which operations took effect are no part of the
state. `EffectInv` claims that there are some: a history of values of the register, and
for each operation a moment in it, within the interval of the operation, at which a read
saw its value and a write set it, no two writes at one moment. Each step of the execution
extends it or leaves it alone. `EffectsLinearize` makes an order of such moments, which is
a linearization; and cutting times to ticks only lets intervals grow.

`RecorderProofs` proves for every finite set of clients, every resolution of the clock
and up to 100 operations per client (`ClientsAssumption`, `GrainAssumption`,
`OpsAssumption`; the driver gives two clients values that are 100 apart, so that with more
operations values would meet; the command runs 6):

- `TypeCorrect`: `Spec => []TypeOK`;
- `IdsStayDistinct`: `Spec => []IdsAreDistinct`. Distinct ids of recorded operations need
  distinct ids of those that are numbered but not yet appended (`IdsInv`);
- `HistoryIsOfTheRun`: `Spec => []HistoryIsWhatRan`. Every id given belongs to one
  operation, which a client still holds or which has been recorded, and the operations
  given ids are as many as both together (`RecordInv`); at the end nobody holds one,
  so that by counting all were recorded, and the sort is one;
- `OrderIsOfTheRun`: `Spec => []TruncationRelaxesOrder`, from an invariant on the times of
  operations in hand (`ClockInv`) and the arithmetic of division;
- `ReadsAreNotFromTheFuture`: `Spec => []NoReadFromTheFuture`. The value a read returns
  is followed from the write through the replications in flight and the follower
  to the client (`FutureInv`);
- `OnTimeIsLinearizable`: `Spec => []NoFalseAlarm`;
- `LatenessIsStaleness`: `Spec => []OnlyStaleness`.

The first of these two takes the follower as the register. As long as no write returned
before its replication, a write took effect when it was replicated and a read when it
looked, each within its interval, and `EffectInv` claims the history of values and the
moments for it as that of `IntakeProofs` does. It needs that a value on its way belongs
to one write, the one its client is in the middle of (`ValuesInv`), and that no two
operations of a client are called at one time (`CallsInv`). The second excludes two
templates of the catalogue. A value from nowhere is excluded since every value that was
read was written (`WrittenInv`, `FutureInv`); a value from the future since the values of
writes are all different (the client and the round are in them): the one write of a
value that was read began before the read returned, and what is blocked is an
operation of the history (`BlockedAreOperations`).

`SequenceLemmas` proves what the standard modules define by recursion, and what the
proofs about sequences keep needing. That a recursive function exists has to be
proved before anything is known of it (`FoldExists` for folds, `RecursionExists` for
the levels of the search); the prover cannot instantiate the induction theorems of
its library, so that every induction is by a least counterexample (`Smallest`,
`UpTo`). On this rests that the insertion sort of genhist and of the adapter is a sort
and loses nothing (`SortSorts`), that a finite set with a strict total order can be numbered by it
(`Ranking`, `Numbering`), and that a finite set of integers has a greatest element
(`Greatest`) and one that is least by a measure (`LeastBy`). Its last part is about
histories of one object: when operations took effect at moments within their intervals
(`TookEffect`), the definition of linearizability holds (`EffectsLinearize`).

Only model-checked, and why:

- termination and the other liveness properties: beyond the prover;
- the parser (`ParsesTheGrammar`): what a text means is computed from the meanings of
  its stretches, and relating that to a stack is an induction over texts;
- that each planted bug is named (`EachBugFiresItsPattern`): a statement about five
  histories, which the run evaluates in full;
- what the comments promise and the code does not do (section 6): the runs refute it.

## 6. Findings

Each of these is a run that ends in a violation; `PROJECT.json` quotes the lines.

- `find_phantom`: the predicate preserves the name of the pattern but not the read
  it fired on. A read of 1 that overlaps the write of 1 is right: the first check does
  not block it, and the writes of the history explain it. Next to it is a read of 2,
  which nobody wrote. Minimization removes that read and the write of 1, and the
  explanation names the read that is right: no write of 1 appears anywhere.
- `find_going_back`: two reads that are both right are named when a register was
  set back to its initial value between them.
- `find_cut_off`: one part is rejected while the timeout cuts off the search of
  another: the operations of the other, which is correct, are reported as blocked.
- `find_jepsen_info`: a write that ended in `:info` is dropped although it took
  effect and was read: the log of a correct register becomes a rejected history.

Disagreements met while modelling that have no run of their own:

- the package comment of the parser lists what it accepts and calls anything else a
  parse error (`pkg/adapter/jepsen/edn.go:3-16`); truth values are not in the list, and
  `true` and `false` are read as 1 and 0 (`pkg/adapter/jepsen/edn.go:238-241`), so that
  `:process true` is process 1 and `:value false` the value 0. `ParsesTheGrammar` says that
  this is the only exception;
- the comment on `Builder.Op` makes the caller responsible for the id and assigns one
  only if it is zero (`pkg/history/builder.go:80-82`); `append` overwrites every id
  (`pkg/history/builder.go:101`), which is what keeps them distinct (`MadeIsValid`);
- two writes that returned at the same time: the conflict of `lost_update` may name
  one of them twice (`pkg/pattern/lost_update.go:46`); `LostUpdateNamesTwoWrites` says
  when it cannot;
- in key-value histories the write named as overlooked may be one of another key
  (`pkg/pattern/lost_update.go:37`), a limit `DESIGN.md` concedes;
- a rejection no pattern fits is reported with the whole history, although the
  witness is documented as minimized (`pkg/explainer/explainer.go:71`);
- by the order of a Go map (`pkg/checker/checker.go:183`) the matcher that named an
  explanation need not fire on another run;
- a counter read that misses an acknowledged increment is reported as a phantom
  value (`pkg/pattern/phantom_value.go:36`), where the evaluation expects a stale read;
- the concurrent driver may produce a history that is rejected without a blocked
  operation, which no pattern fits, or one that is named `non_monotonic_read`; the
  comment at `scripts/genhist/bugs.go:105` promises `lost_update` or `stale_read`. With
  three clients no pattern need fit even though a read is blocked: a write of 1 from 0
  to 10, a write of 2 from 20 to 100, a read of 2 from 30 to 40 and a read of 1 from 50
  to 60 are rejected, but the write that was overlooked had not returned. So
  `OnlyStaleness` says what an explanation can be, not that there is one.

## 7. Not modelled

- `whynot.go` forwards its arguments to the explainer; `cmd/explain` is flags, file
  input, printing and exit codes around one call of `Explain`. Neither has a state
  or a branch on what is explained.
- Decoding of JSON is `encoding/json`'s; of `pkg/history` reading, what `validate`
  accepts is modelled (`Valid`). The characters of tokens in EDN (escapes, number
  syntax, blanks and comments) are input syntax that no other part depends on.
- The draws of the random generators are nondeterministic choices; its unlocked
  sharing by the clients of the driver is covered by that, and nothing is claimed
  about reproducing a run from its seed.
- The wrap-around of a counter at the width of `int`, and wording everywhere.
- `eval/` and `testdata/` are data; the shapes of the fixtures are the chosen
  histories of `MCExplainer`.
