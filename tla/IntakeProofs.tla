---------------------------- MODULE IntakeProofs ----------------------------
(***************************************************************************)
(* Proofs about the way from an execution to a history, for every number   *)
(* of clients and of operations, every resolution of the clock, and every  *)
(* way to give metadata: what the front ends make is valid and is what     *)
(* completed, a refusal has a reason, also when the log was damaged, and a *)
(* register that was atomic is never turned into a rejected history.       *)
(***************************************************************************)
EXTENDS Intake, SequenceLemmas, FiniteSetTheorems

-----------------------------------------------------------------------------
(* The execution *)

Doing == [f : Kinds \union {"none"}, value : Int, call : Nat,
          applied : BOOLEAN, given_up : BOOLEAN]

Events == [type : {"invoke", "ok", "fail", "info", "crash", "not-a-map"},
           process : Clients \union {NotAnInteger, MaxOps},
           f : Kinds \union {"none", "partition", "read", "write"}, value : Int, time : Int]

Returned == [client : Clients, type : Kinds \union {"none"}, value : Int, call : Nat, return : Nat]

\* The time of the k-th event.
TimeAt(k) == (k - 1) \div Resolution

\* The inductive invariant: the log is in the order of time, and an operation was
\* called before it returned.
ExecutionInv ==
    /\ register \in Int
    /\ doing \in [Clients -> Doing]
    /\ \A c \in Clients : doing[c].call <= Clock
    /\ log \in Seq(Events)
    /\ \A k \in DOMAIN log :
        log[k].time = TimeAt(k) /\ log[k].type \in {"invoke", "ok", "fail", "info"}
    /\ completed \in Seq(Returned)
    /\ \A k \in DOMAIN completed : completed[k].call <= completed[k].return

LEMMA TimeGoesOn ==
    ASSUME NEW m \in Nat, NEW n \in Nat, m <= n
    PROVE  /\ m \div Resolution \in Nat
           /\ m \div Resolution <= n \div Resolution
<1>1. Resolution \in Nat \ {0}
  BY ExecutionAssumption
<1>2. m \div Resolution \in Nat
  BY <1>1
<1>3. m \div Resolution <= n \div Resolution
  BY <1>1
<1>4. QED
  BY <1>2, <1>3

LEMMA CallsIsANumber ==
    ASSUME log \in Seq(Events)
    PROVE  Calls \in Nat
<1>1. IsFiniteSet(1..Len(log))
  BY FS_Interval
<1>2. IsFiniteSet({k \in DOMAIN log : log[k].type = "invoke"})
  BY <1>1, FS_Subset
<1>3. QED
  BY <1>2, FS_CardinalityType DEF Calls

LEMMA LoggedOnce ==
    ASSUME ExecutionInv, NEW type \in {"invoke", "ok", "fail", "info"}, NEW c \in Clients,
           NEW f \in Kinds \union {"none"}, NEW value \in Int,
           Logged(Event(type, c, f, value))
    PROVE  /\ log' \in Seq(Events)
           /\ Len(log') = Len(log) + 1
           /\ \A k \in DOMAIN log' :
                log'[k].time = TimeAt(k) /\ log'[k].type \in {"invoke", "ok", "fail", "info"}
           /\ Clock \in Nat /\ Clock' \in Nat /\ Clock <= Clock'
<1> DEFINE e == Event(type, c, f, value)
<1>1. PICK n \in Nat : n = Len(log)
  BY DEF ExecutionInv
<1>2. Clock = n \div Resolution /\ Clock \in Nat
  BY <1>1, TimeGoesOn DEF Clock
<1>3. e \in Events /\ e.time = n \div Resolution /\ e.type = type
  BY <1>2 DEF Event, Events
<1> HIDE DEF e
<1>4. log' = Append(log, e) /\ log \in Seq(Events)
  BY DEF Logged, e, ExecutionInv
<1>5. /\ log' \in Seq(Events) /\ Len(log') = n + 1 /\ DOMAIN log' = 1..n + 1
      /\ log'[n + 1] = e /\ \A k \in 1..n : log'[k] = log[k]
  BY <1>1, <1>3, <1>4
<1>6. Clock' = (n + 1) \div Resolution
  BY <1>5 DEF Clock
<1>7. Clock' \in Nat /\ Clock <= Clock'
  <2>1. n <= n + 1 /\ n + 1 \in Nat
    BY <1>1
  <2>2. QED
    BY <1>2, <1>6, <2>1, TimeGoesOn
<1>8. ASSUME NEW k \in 1..n + 1
      PROVE  log'[k].time = TimeAt(k) /\ log'[k].type \in {"invoke", "ok", "fail", "info"}
  <2>1. CASE k = n + 1
    <3>1. k - 1 = n
      BY <1>1, <2>1
    <3>2. QED
      BY <1>3, <1>5, <2>1, <3>1 DEF TimeAt
  <2>2. CASE k \in 1..n
    <3>1. k \in DOMAIN log
      BY <1>1, <1>4, <2>2
    <3>2. QED
      BY <1>5, <2>2, <3>1 DEF ExecutionInv
  <2>3. QED
    BY <1>1, <2>1, <2>2
<1>9. QED
  BY <1>1, <1>2, <1>5, <1>7, <1>8

LEMMA InitExecution ==
    ASSUME ExecutionInit
    PROVE  ExecutionInv
<1>1. Idle \in Doing /\ Idle.call = 0
  BY DEF Idle, Doing, NotAnInteger
<1>2. log = <<>> /\ completed = <<>> /\ \A c \in Clients : doing[c] = Idle
  BY DEF ExecutionInit
<1>3. Clock \in Nat
  <2>1. Len(log) = 0
    BY <1>2
  <2>2. QED
    BY <2>1, TimeGoesOn DEF Clock
<1>4. register \in Int
  BY ExecutionAssumption DEF ExecutionInit, NotAnInteger
<1>5. log \in Seq(Events) /\ completed \in Seq(Returned) /\ DOMAIN log = {} /\ DOMAIN completed = {}
  BY <1>2
<1>6. doing \in [Clients -> Doing]
  BY <1>1 DEF ExecutionInit
<1>7. QED
  BY <1>1, <1>2, <1>3, <1>4, <1>5, <1>6 DEF ExecutionInv

LEMMA StepExecution ==
    ASSUME ExecutionInv, ExecutionNext \/ UNCHANGED execution
    PROVE  ExecutionInv'
<1>1. Idle \in Doing /\ Idle.call = 0
  BY DEF Idle, Doing, NotAnInteger
<1>2. /\ doing \in [Clients -> Doing] /\ register \in Int
      /\ \A c \in Clients : doing[c].call \in Nat /\ doing[c].call <= Clock
  BY DEF ExecutionInv, Doing
<1>3. Clock \in Nat
  <2>1. Len(log) \in Nat
    BY DEF ExecutionInv
  <2>2. QED
    BY <2>1, TimeGoesOn DEF Clock
<1>4. ASSUME NEW d \in [Clients -> Doing], doing' = d, Len(log') = Len(log) + 1,
             Clock' \in Nat, Clock <= Clock',
             NEW c \in Clients, d[c].call <= Clock, \A b \in Clients \ {c} : d[b] = doing[b]
      PROVE  doing' \in [Clients -> Doing] /\ \A b \in Clients : doing'[b].call <= Clock'
  <2>1. \A b \in Clients : d[b].call \in Nat /\ d[b].call <= Clock
    BY <1>2, <1>4 DEF Doing
  <2>2. QED
    BY <1>3, <1>4, <2>1
<1>5. ASSUME NEW c \in Clients, NEW f \in Kinds, Invoke(c, f)
      PROVE  ExecutionInv'
  <2> DEFINE value == IF f = "read" THEN NotAnInteger ELSE Calls + 1
             new == [Idle EXCEPT !.f = f, !.value = value, !.call = Clock]
  <2>1. value \in Int
    BY CallsIsANumber DEF ExecutionInv, NotAnInteger
  <2>2. doing' = [doing EXCEPT ![c] = new] /\ Logged(Event("invoke", c, f, value))
        /\ UNCHANGED <<register, completed>>
    BY <1>5 DEF Invoke
  <2> HIDE DEF value
  <2>3. new \in Doing /\ new.call = Clock
    BY <1>3, <2>1 DEF Idle, Doing
  <2> HIDE DEF new
  <2>4. /\ log' \in Seq(Events) /\ Len(log') = Len(log) + 1
        /\ \A k \in DOMAIN log' :
                log'[k].time = TimeAt(k) /\ log'[k].type \in {"invoke", "ok", "fail", "info"}
        /\ Clock' \in Nat /\ Clock <= Clock'
    BY <2>1, <2>2, LoggedOnce
  <2> DEFINE d == [doing EXCEPT ![c] = new]
  <2>5. d \in [Clients -> Doing] /\ d[c].call <= Clock /\ \A b \in Clients \ {c} : d[b] = doing[b]
    BY <1>2, <1>3, <2>3
  <2>6. doing' \in [Clients -> Doing] /\ \A b \in Clients : doing'[b].call <= Clock'
    BY <1>4, <2>2, <2>4, <2>5
  <2>7. QED
    BY <2>2, <2>4, <2>6 DEF ExecutionInv, TimeAt
<1>6. ASSUME NEW c \in Clients, TakeEffect(c)
      PROVE  ExecutionInv'
  <2>1. UNCHANGED <<log, completed>> /\ Clock' = Clock
    BY <1>6 DEF TakeEffect, Clock
  <2>2. register' \in Int
    BY <1>2, <1>6 DEF TakeEffect, Doing
  <2>3. doing' \in [Clients -> Doing] /\ \A b \in Clients : doing'[b].call = doing[b].call
    <3>1. CASE doing' = [doing EXCEPT ![c].applied = TRUE, ![c].value = register]
      BY <1>2, <3>1 DEF Doing
    <3>2. CASE doing' = [doing EXCEPT ![c].applied = TRUE]
      BY <1>2, <3>2 DEF Doing
    <3>3. QED
      BY <1>6, <3>1, <3>2 DEF TakeEffect
  <2>4. QED
    BY <2>1, <2>2, <2>3 DEF ExecutionInv, TimeAt
<1>7. ASSUME NEW c \in Clients, Return(c)
      PROVE  ExecutionInv'
  <2> DEFINE r == [client |-> c, type |-> doing[c].f, value |-> doing[c].value,
                   call |-> doing[c].call, return |-> Clock]
             d == [doing EXCEPT ![c] = Idle]
  <2>1. /\ Logged(Event("ok", c, doing[c].f, doing[c].value))
        /\ completed' = Append(completed, r) /\ doing' = d /\ register' = register
    BY <1>7 DEF Return
  <2>2. doing[c].f \in Kinds \union {"none"} /\ doing[c].value \in Int /\ doing[c].call \in Nat
    BY <1>2 DEF Doing
  <2>3. r \in Returned /\ r.call <= r.return
    BY <1>2, <1>3, <2>2 DEF Returned
  <2> HIDE DEF r
  <2>4. completed' \in Seq(Returned) /\ \A k \in DOMAIN completed' : completed'[k].call <= completed'[k].return
    <3>1. PICK n \in Nat : n = Len(completed)
      BY DEF ExecutionInv
    <3>2. completed \in Seq(Returned) /\ DOMAIN completed = 1..n
      BY <3>1 DEF ExecutionInv
    <3>3. /\ completed' \in Seq(Returned) /\ DOMAIN completed' = 1..n + 1
          /\ completed'[n + 1] = r /\ \A k \in 1..n : completed'[k] = completed[k]
      BY <2>1, <2>3, <3>1, <3>2
    <3>4. \A k \in 1..n : completed[k].call <= completed[k].return
      BY <3>2 DEF ExecutionInv
    <3>5. QED
      BY <2>3, <3>1, <3>3, <3>4
  <2>5. /\ log' \in Seq(Events) /\ Len(log') = Len(log) + 1
        /\ \A k \in DOMAIN log' :
                log'[k].time = TimeAt(k) /\ log'[k].type \in {"invoke", "ok", "fail", "info"}
        /\ Clock' \in Nat /\ Clock <= Clock'
    BY <2>1, <2>2, LoggedOnce
  <2>6. d \in [Clients -> Doing] /\ d[c].call <= Clock /\ \A b \in Clients \ {c} : d[b] = doing[b]
    BY <1>1, <1>2, <1>3
  <2>7. doing' \in [Clients -> Doing] /\ \A b \in Clients : doing'[b].call <= Clock'
    BY <1>4, <2>1, <2>5, <2>6
  <2>8. QED
    BY <1>2, <2>1, <2>4, <2>5, <2>7 DEF ExecutionInv, TimeAt
<1>8. ASSUME NEW c \in Clients, Fail(c) \/ GiveUp(c)
      PROVE  ExecutionInv'
  <2>1. /\ UNCHANGED <<register, completed>>
        /\ \/ Logged(Event("fail", c, doing[c].f, doing[c].value))
           \/ Logged(Event("info", c, doing[c].f, doing[c].value))
    BY <1>8 DEF Fail, GiveUp
  <2>2. doing[c].f \in Kinds \union {"none"} /\ doing[c].value \in Int
    BY <1>2 DEF Doing
  <2>3. /\ log' \in Seq(Events) /\ Len(log') = Len(log) + 1
        /\ \A k \in DOMAIN log' :
                log'[k].time = TimeAt(k) /\ log'[k].type \in {"invoke", "ok", "fail", "info"}
        /\ Clock' \in Nat /\ Clock <= Clock'
    BY <2>1, <2>2, LoggedOnce
  <2>4. PICK d \in [Clients -> Doing] :
            doing' = d /\ d[c].call <= Clock /\ \A b \in Clients \ {c} : d[b] = doing[b]
    <3>1. CASE doing' = [doing EXCEPT ![c] = Idle]
      BY <1>1, <1>2, <1>3, <3>1
    <3>2. CASE doing' = [doing EXCEPT ![c].given_up = TRUE]
      BY <1>2, <3>2 DEF Doing
    <3>3. QED
      BY <1>8, <3>1, <3>2 DEF Fail, GiveUp
  <2>5. doing' \in [Clients -> Doing] /\ \A b \in Clients : doing'[b].call <= Clock'
    BY <1>4, <2>3, <2>4
  <2>6. QED
    BY <1>2, <2>1, <2>3, <2>5 DEF ExecutionInv, TimeAt
<1>9. CASE UNCHANGED execution
  BY <1>9 DEF execution, ExecutionInv, Clock, TimeAt
<1>10. QED
  BY <1>5, <1>6, <1>7, <1>8, <1>9 DEF ExecutionNext

-----------------------------------------------------------------------------
(* Logs *)

\* Entry k has a time, and is one that an operation is made of.
Timed(s, k) == s[k].type \in {"invoke", "ok"} /\ s[k].time # NotAnInteger

\* Such entries are in the order of their times, also in a log with damage.
TimesInOrder(s) ==
    \A a, b \in DOMAIN s : a < b /\ Timed(s, a) /\ Timed(s, b) => s[a].time <= s[b].time

LEMMA LogInOrder ==
    ASSUME ExecutionInv
    PROVE  TimesInOrder(log)
<1>1. SUFFICES ASSUME NEW a \in DOMAIN log, NEW b \in DOMAIN log, a < b
               PROVE  log[a].time <= log[b].time
  BY DEF TimesInOrder
<1>2. a - 1 \in Nat /\ b - 1 \in Nat /\ a - 1 <= b - 1
  BY <1>1 DEF ExecutionInv
<1>3. TimeAt(a) <= TimeAt(b)
  BY <1>2, TimeGoesOn DEF TimeAt
<1>4. QED
  BY <1>3 DEF ExecutionInv

LEMMA LostInOrder ==
    ASSUME ExecutionInv, NEW k \in DOMAIN log
    PROVE  RemoveAt(log, k) \in Seq(Events) /\ TimesInOrder(RemoveAt(log, k))
<1> DEFINE s == RemoveAt(log, k)
<1>1. PICK n \in Nat : n = Len(log)
  BY DEF ExecutionInv
<1>2. log \in Seq(Events) /\ k \in 1..n /\ DOMAIN log = 1..n
  BY <1>1 DEF ExecutionInv
<1>3. /\ s \in Seq(Events) /\ Len(s) = n - 1
      /\ \A j \in 1..k - 1 : s[j] = log[j]
      /\ \A j \in k..n - 1 : s[j] = log[j + 1]
  BY <1>1, <1>2, RemoveAtRemoves
<1> HIDE DEF s
<1>4. TimesInOrder(log)
  BY LogInOrder
<1> DEFINE at(j) == IF j < k THEN j ELSE j + 1
<1>5. \A j \in 1..n - 1 : at(j) \in 1..n /\ s[j] = log[at(j)]
  BY <1>2, <1>3
<1>6. \A a, b \in 1..n - 1 : a < b => at(a) < at(b)
  BY <1>2
<1> HIDE DEF at
<1>7. \A a, b \in 1..n - 1 : a < b /\ Timed(s, a) /\ Timed(s, b) => s[a].time <= s[b].time
  BY <1>2, <1>4, <1>5, <1>6 DEF TimesInOrder, Timed
<1>8. DOMAIN s = 1..n - 1
  BY <1>3
<1>9. TimesInOrder(s)
  BY <1>7, <1>8 DEF TimesInOrder
<1>10. QED
  BY <1>3, <1>9 DEF s

LEMMA UntimedInOrder ==
    ASSUME ExecutionInv, NEW k \in DOMAIN log
    PROVE  /\ [log EXCEPT ![k].time = NotAnInteger] \in Seq(Events)
           /\ TimesInOrder([log EXCEPT ![k].time = NotAnInteger])
<1> DEFINE s == [log EXCEPT ![k].time = NotAnInteger]
           e == [log[k] EXCEPT !.time = NotAnInteger]
<1>1. PICK n \in Nat : n = Len(log)
  BY DEF ExecutionInv
<1>2. log \in Seq(Events) /\ k \in 1..n /\ DOMAIN log = 1..n
  BY <1>1 DEF ExecutionInv
<1>3. e \in Events /\ e.time = NotAnInteger
  <2>1. log[k] \in Events
    BY <1>2
  <2>2. QED
    BY <2>1 DEF Events, NotAnInteger
<1>4. s = [log EXCEPT ![k] = e]
  OBVIOUS
<1> HIDE DEF e, s
<1>5. /\ s \in Seq(Events) /\ DOMAIN s = 1..n /\ s[k] = e
      /\ \A j \in 1..n \ {k} : s[j] = log[j]
  BY <1>1, <1>2, <1>3, <1>4
<1>6. TimesInOrder(log)
  BY LogInOrder
<1>7. TimesInOrder(s)
  <2>1. SUFFICES ASSUME NEW a \in 1..n, NEW b \in 1..n, a < b, Timed(s, a), Timed(s, b)
                 PROVE  s[a].time <= s[b].time
    BY <1>5 DEF TimesInOrder
  <2>2. a # k /\ b # k
    BY <1>3, <1>5, <2>1 DEF Timed
  <2>3. s[a] = log[a] /\ s[b] = log[b]
    BY <1>5, <2>2
  <2>4. QED
    BY <1>2, <1>6, <2>1, <2>3 DEF TimesInOrder, Timed
<1>8. QED
  BY <1>5, <1>7 DEF s

LEMMA ForeignInOrder ==
    ASSUME ExecutionInv, NEW e \in Foreign, NEW k \in 1..Len(log) + 1
    PROVE  InsertAt(log, k, e) \in Seq(Events) /\ TimesInOrder(InsertAt(log, k, e))
<1> DEFINE s == InsertAt(log, k, e)
<1>1. PICK n \in Nat : n = Len(log)
  BY DEF ExecutionInv
<1>2. log \in Seq(Events) /\ k \in 1..n + 1 /\ DOMAIN log = 1..n
  BY <1>1 DEF ExecutionInv
<1>3. e \in Events /\ e.type \notin {"invoke", "ok"}
  <2>1. Clock \in Nat
    BY <1>1, TimeGoesOn DEF Clock
  <2>2. MaxOps \in Nat
    BY ExecutionAssumption
  <2>3. QED
    BY <2>1, <2>2 DEF Foreign, Event, Events, NotAnInteger
<1>4. /\ s \in Seq(Events) /\ Len(s) = n + 1
      /\ s[k] = e
      /\ \A j \in 1..k - 1 : s[j] = log[j]
      /\ \A j \in k + 1..n + 1 : s[j] = log[j - 1]
  <2>1. s \in Seq(Events) /\ IsInsertion(log, e, k, s)
    BY <1>2, <1>3, InsertAtInserts
  <2> HIDE DEF s
  <2>2. QED
    BY <1>1, <2>1 DEF IsInsertion
<1> HIDE DEF s
<1>5. TimesInOrder(log)
  BY LogInOrder
<1> DEFINE at(j) == IF j < k THEN j ELSE j - 1
<1>6. \A j \in 1..n + 1 : j # k => at(j) \in 1..n /\ s[j] = log[at(j)]
  BY <1>2, <1>4
<1>7. \A a, b \in 1..n + 1 : a < b /\ a # k /\ b # k => at(a) < at(b)
  BY <1>2
<1> HIDE DEF at
<1>8. ~Timed(s, k)
  BY <1>3, <1>4 DEF Timed
<1>9. \A a, b \in 1..n + 1 : a < b /\ Timed(s, a) /\ Timed(s, b) => s[a].time <= s[b].time
  BY <1>2, <1>5, <1>6, <1>7, <1>8 DEF TimesInOrder, Timed
<1>10. DOMAIN s = 1..n + 1
  BY <1>4
<1>11. TimesInOrder(s)
  BY <1>9, <1>10 DEF TimesInOrder
<1>12. QED
  BY <1>4, <1>11 DEF s

-----------------------------------------------------------------------------
(* The invariant of the way to a history *)

JP == INSTANCE JepsenAdapterProofs WITH log <- input

\* Ids that operations may get: metadata, or positions.
Ids == {tag[k] : tag \in Taggings, k \in Nat} \union Nat

\* Operations with the times of the execution.
Operations ==
    {op \in [id : Ids, client : Clients, type : Kinds \union {"none"}, key : {"", Key},
             value : Int, call : Nat, return : Nat] : op.call <= op.return}

TestOps ==
    {d \in [model : {"register", "kv"}, key : {Key}, client : Clients,
            type : Kinds \union {"none"}, value : Int, call : Nat, return : Nat,
            metadata : Ids] : d.call <= d.return}

RunningInv ==
    Running => /\ i = 1 /\ pending = {} /\ nextID = 0 /\ ops = <<>>
               /\ init = 0 /\ built = <<>> /\ input = <<>>

\* ReadEDN: what PairsAreAdjacent rests on, and operations with times.
LogInv ==
    front = "jepsen" =>
        /\ TimesInOrder(input)
        /\ JP!IInv(Events)
        /\ \A k \in DOMAIN ops : ops[k].call # NotAnInteger /\ ops[k].return # NotAnInteger

\* FromOperations
OperationsInv ==
    front = "porcupine" =>
        /\ input \in Seq(TestOps)
        /\ i \in 1..Len(input) + 1
        /\ pending = {} /\ nextID = 0
        /\ ops \in Seq(Operations) /\ DistinctIds(ops)

\* Operations with the ids from 0.
Numbered(s) == s \in Seq(Operations) /\ \A k \in DOMAIN s : s[k].id = k - 1

\* Builder
BuilderInv ==
    front = "builder" =>
        /\ input \in Seq(Returned)
        /\ \A k \in DOMAIN input : input[k].call <= input[k].return
        /\ i \in 1..Len(input) + 1
        /\ pending = {} /\ nextID = Len(ops)
        /\ Numbered(ops) /\ Numbered(built)

ControlInv ==
    /\ start \in {Initial, NotAnInteger}
    /\ damage.kind \in {"none", "lost", "untimed", "foreign"}
    /\ front \in {"none", "jepsen", "porcupine", "builder"}
    /\ front \in Fronts \union {"none"}
    /\ Running <=> outcome = "running"
    /\ outcome \in {"running", "reading", "history", "error"}

\* The inductive invariant.
IInv == ExecutionInv /\ ControlInv /\ RunningInv /\ LogInv /\ OperationsInv /\ BuilderInv

LEMMA InitWay ==
    ASSUME Init
    PROVE  IInv
<1>1. ExecutionInv
  BY InitExecution DEF Init
<1>2. front = "none" /\ outcome = "running" /\ Running
  BY DEF Init, Running
<1>3. ControlInv
  BY <1>2 DEF Init, ExecutionInit, ControlInv, Undamaged
<1>4. RunningInv
  BY DEF Init, Test!New, RunningInv
<1>5. QED
  BY <1>1, <1>2, <1>3, <1>4 DEF IInv, LogInv, OperationsInv, BuilderInv

\* The test runs on.
LEMMA ExecuteKeeps ==
    ASSUME IInv, Execute
    PROVE  IInv'
<1>1. UNCHANGED <<start, damage, front, conversion>> /\ Running
  BY DEF Execute
<1>2. ExecutionInv'
  BY StepExecution DEF IInv, Execute
<1>3. front = "none" /\ front' = "none" /\ outcome' = outcome
  BY <1>1 DEF Running, conversion
<1>4. ControlInv'
  BY <1>1, <1>3 DEF IInv, ControlInv, Running
<1>5. RunningInv'
  BY <1>1 DEF IInv, RunningInv, conversion
<1>6. QED
  BY <1>2, <1>3, <1>4, <1>5 DEF IInv, LogInv, OperationsInv, BuilderInv

\* What a hand-over leaves as it was.
LEMMA HandedOver ==
    ASSUME IInv, NEW f \in {"jepsen", "porcupine", "builder"} \cap Fronts, HandOver(f),
           damage'.kind \in {"none", "lost", "untimed", "foreign"}
    PROVE  /\ ExecutionInv' /\ ControlInv' /\ RunningInv'
           /\ front' = f /\ outcome' = "reading"
           /\ i' = 1 /\ pending' = {} /\ nextID' = 0 /\ ops' = <<>> /\ built' = <<>>
<1>1. /\ front' = f /\ outcome' = "reading" /\ f # "none"
      /\ UNCHANGED <<execution, start, i, pending, nextID, ops, init, built>>
  BY DEF HandOver
<1>2. RunningInv /\ Running
  BY DEF HandOver, IInv
<1>3. ExecutionInv'
  BY <1>1, StepExecution DEF IInv
<1>4. ControlInv'
  BY <1>1 DEF IInv, ControlInv, Running
<1>5. QED
  BY <1>1, <1>2, <1>3, <1>4 DEF RunningInv, Running

\* A log may be read as long as nothing has been done.
LEMMA ReadyToRead == (input \in Seq(Events) /\ JP!Begin => JP!IInv(Events))'
<1>1. input \in Seq(Events) /\ JP!Begin => JP!IInv(Events)
  BY JP!BeginPairs
<1>2. QED
  BY <1>1, PTL

LEMMA HandLogKeeps ==
    ASSUME IInv, HandLog, "jepsen" \in Fronts
    PROVE  IInv'
<1>1. ExecutionInv /\ HandOver("jepsen")
  BY DEF IInv, HandLog
<1>2. Len(log) \in Nat
  BY <1>1 DEF ExecutionInv
<1>3. /\ input' \in Seq(Events) /\ TimesInOrder(input')
      /\ damage'.kind \in {"none", "lost", "untimed", "foreign"}
  <2>1. CASE input' = log /\ UNCHANGED damage
    <3>1. log \in Seq(Events) /\ TimesInOrder(log)
      BY <1>1, LogInOrder DEF ExecutionInv
    <3>2. QED
      BY <2>1, <3>1 DEF IInv, ControlInv
  <2>2. ASSUME NEW k \in DOMAIN log,
               damage' = [kind |-> "lost", at |-> k] /\ input' = RemoveAt(log, k)
        PROVE  <1>3!1 /\ <1>3!2
    BY <1>1, <2>2, LostInOrder
  <2>3. ASSUME NEW k \in DOMAIN log, damage' = [kind |-> "untimed", at |-> k],
               input' = [log EXCEPT ![k].time = NotAnInteger]
        PROVE  <1>3!1 /\ <1>3!2
    BY <1>1, <2>3, UntimedInOrder
  <2>4. ASSUME NEW e \in Foreign, NEW k, k = Len(log) \div 2 + 1,
               damage' = [kind |-> "foreign", at |-> k] /\ input' = InsertAt(log, k, e)
        PROVE  <1>3!1 /\ <1>3!2
    <3>1. k \in 1..Len(log) + 1
      BY <1>2, <2>4
    <3>2. QED
      BY <1>1, <2>4, <3>1, ForeignInOrder
  <2>5. QED
    BY <2>1, <2>2, <2>3, <2>4 DEF HandLog
<1>4. /\ ExecutionInv' /\ ControlInv' /\ RunningInv' /\ front' = "jepsen" /\ outcome' = "reading"
      /\ i' = 1 /\ pending' = {} /\ nextID' = 0 /\ ops' = <<>>
  BY <1>1, <1>3, HandedOver
<1>5. JP!IInv(Events)'
  BY <1>3, <1>4, ReadyToRead DEF JP!Begin
<1>6. LogInv'
  BY <1>3, <1>4, <1>5 DEF LogInv, TimesInOrder, Timed
<1>7. QED
  BY <1>4, <1>6 DEF IInv, OperationsInv, BuilderInv

LEMMA HandOperationsKeeps ==
    ASSUME IInv, HandOperations, "porcupine" \in Fronts
    PROVE  IInv'
<1>1. ExecutionInv /\ HandOver("porcupine") /\ damage' = damage
  BY DEF IInv, HandOperations
<1>2. PICK n \in Nat : n = Len(completed)
  BY <1>1 DEF ExecutionInv
<1>3. completed \in Seq(Returned) /\ DOMAIN completed = 1..n
  BY <1>1, <1>2 DEF ExecutionInv
<1>4. input' \in Seq(TestOps)
  <2>1. PICK tag \in Taggings, model \in {"register", "kv"} :
          input' = [k \in DOMAIN completed |->
                    [model |-> model, key |-> Key,
                     client |-> completed[k].client, type |-> completed[k].type,
                     value |-> completed[k].value, call |-> completed[k].call,
                     return |-> completed[k].return, metadata |-> tag[k]]]
    BY DEF HandOperations
  <2> DEFINE d(k) == [model |-> model, key |-> Key,
                      client |-> completed[k].client, type |-> completed[k].type,
                      value |-> completed[k].value, call |-> completed[k].call,
                      return |-> completed[k].return, metadata |-> tag[k]]
  <2>2. ASSUME NEW k \in 1..n
        PROVE  d(k) \in TestOps
    <3>1. completed[k] \in Returned /\ completed[k].call <= completed[k].return
      BY <1>1, <1>3 DEF ExecutionInv
    <3>2. tag[k] \in Ids
      BY DEF Ids
    <3>3. QED
      BY <3>1, <3>2 DEF Returned, TestOps
  <2>3. input' = [k \in 1..n |-> d(k)]
    BY <1>3, <2>1
  <2> HIDE DEF d
  <2>4. QED
    BY <2>2, <2>3
<1>5. /\ ExecutionInv' /\ ControlInv' /\ RunningInv' /\ front' = "porcupine"
      /\ i' = 1 /\ pending' = {} /\ nextID' = 0 /\ ops' = <<>>
  BY <1>1, HandedOver DEF IInv, ControlInv
<1>6. OperationsInv'
  <2>1. i' \in 1..Len(input') + 1
    BY <1>4, <1>5
  <2>2. ops' \in Seq(Operations) /\ DistinctIds(ops')
    BY <1>5 DEF DistinctIds
  <2>3. QED
    BY <1>4, <1>5, <2>1, <2>2 DEF OperationsInv, TestOps, Operations, DistinctIds
<1>7. QED
  BY <1>5, <1>6 DEF IInv, LogInv, BuilderInv

LEMMA StartBuildingKeeps ==
    ASSUME IInv, StartBuilding, "builder" \in Fronts
    PROVE  IInv'
<1>1. ExecutionInv /\ HandOver("builder") /\ damage' = damage /\ input' = completed
  BY DEF IInv, StartBuilding
<1>2. /\ ExecutionInv' /\ ControlInv' /\ RunningInv' /\ front' = "builder"
      /\ i' = 1 /\ pending' = {} /\ nextID' = 0 /\ ops' = <<>> /\ built' = <<>>
  BY <1>1, HandedOver DEF IInv, ControlInv
<1>3. input' \in Seq(Returned) /\ \A k \in DOMAIN input' : input'[k].call <= input'[k].return
  BY <1>1 DEF ExecutionInv
<1>4. BuilderInv'
  <2>1. i' \in 1..Len(input') + 1
    BY <1>2, <1>3
  <2>2. Len(ops') = 0 /\ Numbered(ops') /\ Numbered(built')
    BY <1>2 DEF Numbered
  <2>3. QED
    BY <1>2, <1>3, <2>1, <2>2 DEF BuilderInv, Numbered, Operations
<1>5. QED
  BY <1>2, <1>4 DEF IInv, LogInv, OperationsInv

-----------------------------------------------------------------------------
(* Reading a log *)

LEMMA SameCall ==
    ASSUME Jepsen!ReadEDN
    PROVE  JP!ReadEDN
BY DEF Jepsen!ReadEDN, Jepsen!SkipOther, Jepsen!Invoke, Jepsen!Ok, Jepsen!Drop, Jepsen!Refuse,
       Jepsen!Finish, Jepsen!Reading, Jepsen!Entry, Jepsen!OfClient, Jepsen!PendingOf,
       Jepsen!Convertible, Jepsen!ValueOf, Jepsen!buildOp, Jepsen!Unreadable,
       JP!ReadEDN, JP!SkipOther, JP!Invoke, JP!Ok, JP!Drop, JP!Refuse,
       JP!Finish, JP!Reading, JP!Entry, JP!OfClient, JP!PendingOf,
       JP!Convertible, JP!ValueOf, JP!buildOp, JP!Unreadable

LEMMA ReadLogKeeps ==
    ASSUME IInv, ReadLog
    PROVE  IInv'
<1>1. /\ front = "jepsen" /\ front' = "jepsen" /\ Jepsen!ReadEDN
      /\ UNCHANGED <<execution, start, damage, translator, init, built>>
  BY DEF ReadLog
<1>2. JP!IInv(Events) /\ LogInv /\ ControlInv /\ ExecutionInv
  BY <1>1 DEF IInv, LogInv
<1>3. ExecutionInv'
  BY <1>1, <1>2, StepExecution
<1>4. input' = input /\ outcome = "reading" /\ outcome' \in {"reading", "history", "error"}
  BY <1>1 DEF Jepsen!ReadEDN, Jepsen!SkipOther, Jepsen!Invoke, Jepsen!Ok, Jepsen!Drop,
              Jepsen!Refuse, Jepsen!Finish, Jepsen!Reading
<1>5. ControlInv'
  BY <1>1, <1>2, <1>4 DEF ControlInv, Running
<1>6. JP!IInv(Events)'
  <2>1. JP!ReadEDN
    BY <1>1, SameCall
  <2>2. QED
    BY <1>2, <2>1, JP!StepPairs
<1>7. \A k \in DOMAIN ops' : ops'[k].call # NotAnInteger /\ ops'[k].return # NotAnInteger
  <2>1. \A k \in DOMAIN ops : ops[k].call # NotAnInteger /\ ops[k].return # NotAnInteger
    BY <1>1, <1>2 DEF LogInv
  <2>2. CASE ops' = ops
    BY <2>1, <2>2
  <2>3. CASE Jepsen!Ok
    <3>1. PICK a \in Jepsen!PendingOf(Jepsen!Entry.process) :
            /\ Jepsen!Convertible(input[a], Jepsen!Entry)
            /\ ops' = Append(ops, Jepsen!buildOp(nextID, input[a], Jepsen!Entry))
      BY <2>3 DEF Jepsen!Ok
    <3> DEFINE new == Jepsen!buildOp(nextID, input[a], Jepsen!Entry)
    <3>2. new.call # NotAnInteger /\ new.return # NotAnInteger
      BY <3>1 DEF Jepsen!Convertible, Jepsen!buildOp
    <3>3. ops' = Append(ops, new) /\ ops \in Seq(JP!Built(Events))
      BY <1>2, <3>1 DEF JP!IInv
    <3> HIDE DEF new
    <3>4. PICK n \in Nat : n = Len(ops)
      BY <3>3
    <3>5. /\ DOMAIN ops = 1..n /\ DOMAIN ops' = 1..n + 1
          /\ ops'[n + 1] = new /\ \A k \in 1..n : ops'[k] = ops[k]
      BY <3>3, <3>4
    <3>6. QED
      BY <2>1, <3>2, <3>4, <3>5
  <2>4. QED
    BY <1>1, <2>2, <2>3 DEF Jepsen!ReadEDN, Jepsen!SkipOther, Jepsen!Invoke, Jepsen!Drop,
                            Jepsen!Refuse, Jepsen!Finish
<1>8. LogInv'
  BY <1>1, <1>2, <1>4, <1>6, <1>7 DEF LogInv, TimesInOrder, Timed
<1>9. RunningInv' /\ OperationsInv' /\ BuilderInv'
  BY <1>1 DEF RunningInv, Running, OperationsInv, BuilderInv
<1>10. QED
  BY <1>3, <1>5, <1>8, <1>9 DEF IInv

-----------------------------------------------------------------------------
(* Translating operations *)

\* The sort is the one that the lemmas on sequences speak of.
LEMMA SameSort == Adapter!SortedByCall(ops) = SortedByCalls(ops)
BY DEF Adapter!SortedByCall, SortedByCalls, Adapter!FoldLeft, FoldLeft,
       Adapter!MapThenFoldSet, MapThenFoldSet, Adapter!Max, Max,
       Adapter!InsertAt, InsertAt, Adapter!SelectLastInSeq, SelectLastInSeq

LEMMA ReadOperationsKeeps ==
    ASSUME IInv, ReadOperations
    PROVE  IInv'
<1>1. /\ front = "porcupine" /\ front' = "porcupine" /\ Adapter!FromOperations
      /\ UNCHANGED <<execution, start, damage, pending, nextID, init, built>>
  BY DEF ReadOperations
<1>2. OperationsInv /\ ControlInv /\ ExecutionInv
  BY DEF IInv
<1>3. ExecutionInv'
  BY <1>1, <1>2, StepExecution
<1>4. input' = input /\ outcome = "reading" /\ outcome' \in {"reading", "history", "error"}
  BY <1>1 DEF Adapter!FromOperations, Adapter!NilTranslator, Adapter!Translate,
              Adapter!Refuse, Adapter!Sort, Adapter!Reading, Adapter!arguments
<1>5. ControlInv'
  BY <1>1, <1>2, <1>4 DEF ControlInv, Running
<1>6. /\ input \in Seq(TestOps) /\ i \in 1..Len(input) + 1
      /\ pending = {} /\ nextID = 0
      /\ ops \in Seq(Operations) /\ DistinctIds(ops)
  BY <1>1, <1>2 DEF OperationsInv
<1>7. i' \in 1..Len(input) + 1 /\ ops' \in Seq(Operations) /\ DistinctIds(ops')
  <2>1. CASE UNCHANGED <<i, ops>>
    BY <1>6, <2>1 DEF DistinctIds
  <2>2. CASE Adapter!Translate
    <3>1. /\ i \in 1..Len(input) /\ i' = i + 1
          /\ ops' = Append(ops, Adapter!Translated(i)) /\ Adapter!IdOf(i) \notin Adapter!seen
      BY <1>6, <2>2 DEF Adapter!Translate, Adapter!Reading
    <3>2. input[i] \in TestOps
      BY <1>6, <3>1
    <3>3. Adapter!IdOf(i) \in Ids
      BY <3>1, <3>2 DEF Adapter!IdOf, Ids, TestOps
    <3> DEFINE new == Adapter!Translated(i)
    <3>4. new \in Operations /\ new.id = Adapter!IdOf(i)
      BY <3>2, <3>3 DEF Adapter!Translated, TestOps, Operations
    <3>5. ops' = Append(ops, new)
      BY <3>1
    <3> HIDE DEF new
    <3>6. PICK n \in Nat : n = Len(ops)
      BY <1>6
    <3>7. /\ ops' \in Seq(Operations) /\ DOMAIN ops = 1..n /\ DOMAIN ops' = 1..n + 1
          /\ ops'[n + 1] = new /\ \A k \in 1..n : ops'[k] = ops[k]
      BY <1>6, <3>4, <3>5, <3>6
    <3>8. \A k \in 1..n : ops[k].id # new.id
      BY <3>1, <3>4, <3>7 DEF Adapter!seen
    <3>9. DistinctIds(ops')
      BY <1>6, <3>7, <3>8, <3>6 DEF DistinctIds
    <3>10. QED
      BY <1>6, <3>1, <3>7, <3>9
  <2>3. CASE Adapter!Sort
    <3>0. Adapter!SortedByCall(ops) = SortedByCalls(ops)
      BY SameSort
    <3>1. i' = i /\ ops' = SortedByCalls(ops)
      BY <2>3, <3>0 DEF Adapter!Sort
    <3>2. \A op \in Operations : op.call \in Nat
      BY DEF Operations
    <3>3. SortedByCalls(ops) \in Seq(Operations) /\ SortedSoFar(ops, Len(ops), SortedByCalls(ops))
      BY <1>6, <3>2, SortSorts
    <3>4. QED
      BY <1>6, <3>1, <3>3 DEF SortedSoFar
  <2>4. QED
    BY <1>1, <2>1, <2>2, <2>3 DEF Adapter!FromOperations, Adapter!NilTranslator, Adapter!Refuse
<1>8. OperationsInv'
  BY <1>1, <1>4, <1>6, <1>7 DEF OperationsInv, DistinctIds
<1>9. RunningInv' /\ LogInv' /\ BuilderInv'
  BY <1>1 DEF RunningInv, Running, LogInv, BuilderInv
<1>10. QED
  BY <1>3, <1>5, <1>8, <1>9 DEF IInv

-----------------------------------------------------------------------------
(* Building *)

\* What the builder makes of the next operation, whichever method it gets it by.
Added ==
    [id |-> nextID, client |-> input[i].client, type |-> input[i].type, key |-> "",
     value |-> input[i].value, call |-> input[i].call, return |-> input[i].return]

LEMMA BuilderAppends ==
    ASSUME BuilderAdd
    PROVE  ops' = Append(ops, Added) /\ nextID' = nextID + 1 /\ built' = built
<1> DEFINE d(id) == [id |-> id, client |-> input[i].client, type |-> input[i].type,
                     key |-> "", value |-> input[i].value,
                     call |-> input[i].call, return |-> input[i].return]
<1>0. ASSUME NEW id
      PROVE  [d(id) EXCEPT !.id = nextID] = d(nextID)
  <2> DEFINE Exactly(x) == [id : {x}, client : {input[i].client}, type : {input[i].type},
                            key : {""}, value : {input[i].value},
                            call : {input[i].call}, return : {input[i].return}]
             r == d(id)
             s == [r EXCEPT !.id = nextID]
  <2>1. r \in Exactly(id)
    OBVIOUS
  <2> HIDE DEF r
  <2>2. s \in Exactly(nextID)
    BY <2>1
  <2> HIDE DEF s
  <2>3. s = d(nextID)
    BY <2>2
  <2>4. QED
    BY <2>3 DEF r, s
<1>1. \E id : Test!AppendOp(d(id))
  <2>1. CASE /\ input[i].type = "write"
             /\ Test!Write(input[i].client, "", input[i].value, input[i].call, input[i].return)
    <3>1. Test!AppendOp(d(0))
      BY <2>1 DEF Test!Write, Test!Entry
    <3>2. QED
      BY <3>1
  <2>2. CASE /\ input[i].type = "read"
             /\ Test!Read(input[i].client, "", input[i].value, input[i].call, input[i].return)
    <3>1. Test!AppendOp(d(0))
      BY <2>2 DEF Test!Read, Test!Entry
    <3>2. QED
      BY <3>1
  <2>3. ASSUME NEW id \in {0, 2},
               Test!Op(Test!Entry(id, input[i].client, input[i].type, "", input[i].value,
                                  input[i].call, input[i].return))
        PROVE  \E a : Test!AppendOp(d(a))
    <3>1. Test!Op(d(id)) /\ d(id).id = id
      BY <2>3 DEF Test!Entry
    <3>2. Test!AppendOp(IF id = 0 /\ ops # <<>> THEN d(nextID) ELSE d(id))
      BY <1>0, <3>1 DEF Test!Op
    <3> HIDE DEF d
    <3>3. CASE id = 0 /\ ops # <<>>
      BY <3>2, <3>3
    <3>4. CASE ~(id = 0 /\ ops # <<>>)
      BY <3>2, <3>4
    <3>5. QED
      BY <3>3, <3>4
  <2> HIDE DEF d
  <2>4. QED
    BY <2>1, <2>2, <2>3 DEF BuilderAdd
<1>2. PICK id : Test!AppendOp(d(id))
  BY <1>1
<1>3. ops' = Append(ops, [d(id) EXCEPT !.id = nextID]) /\ nextID' = nextID + 1 /\ built' = built
  BY <1>2 DEF Test!AppendOp
<1>4. QED
  BY <1>0, <1>3 DEF Added

LEMMA BuildingKeeps ==
    ASSUME IInv, BuilderInit \/ BuilderAdd \/ BuilderBuild
    PROVE  IInv'
<1>1. /\ front = "builder" /\ front' = "builder" /\ outcome = "reading"
      /\ outcome' \in {"reading", "history"}
      /\ UNCHANGED <<execution, start, damage, input, pending>>
  BY DEF BuilderInit, BuilderAdd, BuilderBuild, Building
<1>2. BuilderInv /\ ControlInv /\ ExecutionInv
  BY DEF IInv
<1>3. ExecutionInv'
  BY <1>1, <1>2, StepExecution
<1>4. ControlInv'
  BY <1>1, <1>2 DEF ControlInv, Running
<1>5. /\ input \in Seq(Returned) /\ \A k \in DOMAIN input : input[k].call <= input[k].return
      /\ i \in 1..Len(input) + 1 /\ pending = {}
      /\ nextID = Len(ops) /\ Numbered(ops) /\ Numbered(built)
  BY <1>1, <1>2 DEF BuilderInv
<1>6. /\ i' \in 1..Len(input) + 1
      /\ nextID' = Len(ops') /\ Numbered(ops') /\ Numbered(built')
  <2>1. CASE BuilderInit
    BY <1>5, <2>1 DEF BuilderInit, Test!SetInit, Numbered
  <2>2. CASE BuilderBuild
    BY <1>5, <2>2 DEF BuilderBuild, Test!Build, Numbered
  <2>3. CASE BuilderAdd
    <3>0. i <= Len(input) /\ i' = i + 1
      BY <2>3 DEF BuilderAdd
    <3>1. i \in 1..Len(input) /\ i' = i + 1
      BY <1>5, <3>0
    <3>2. input[i] \in Returned /\ input[i].call <= input[i].return
      BY <1>5, <3>1
    <3>3. PICK n \in Nat : n = Len(ops)
      BY <1>5 DEF Numbered
    <3>4. nextID' = nextID + 1 /\ built' = built /\ ops' = Append(ops, Added)
      BY <2>3, BuilderAppends
    <3> DEFINE new == Added
    <3>5. new \in Operations /\ new.id = n
      <4>1. n \in Ids /\ nextID = n
        BY <1>5, <3>3 DEF Ids
      <4>2. QED
        BY <3>2, <4>1 DEF Returned, Operations, Added
    <3>6. ops' = Append(ops, new)
      BY <3>4
    <3> HIDE DEF new
    <3>7. /\ ops' \in Seq(Operations) /\ Len(ops') = n + 1 /\ DOMAIN ops' = 1..n + 1
          /\ ops'[n + 1] = new /\ \A k \in 1..n : ops'[k] = ops[k] /\ ops[k].id = k - 1
      BY <1>5, <3>3, <3>5, <3>6 DEF Numbered
    <3>8. Numbered(ops') /\ nextID' = Len(ops')
      <4>1. nextID' = Len(ops')
        BY <1>5, <3>3, <3>4, <3>7
      <4>2. \A k \in 1..n + 1 : ops'[k].id = k - 1
        BY <3>3, <3>5, <3>7
      <4>3. QED
        BY <3>7, <4>1, <4>2 DEF Numbered
    <3>9. i' \in 1..Len(input) + 1
      BY <1>5, <3>1
    <3>10. Numbered(built')
      BY <1>5, <3>4
    <3>11. QED
      BY <3>8, <3>9, <3>10
  <2>4. QED
    BY <2>1, <2>2, <2>3
<1>7. BuilderInv'
  BY <1>1, <1>5, <1>6 DEF BuilderInv, Numbered
<1>8. RunningInv' /\ LogInv' /\ OperationsInv'
  BY <1>1 DEF RunningInv, Running, LogInv, OperationsInv
<1>9. QED
  BY <1>3, <1>4, <1>7, <1>8 DEF IInv

-----------------------------------------------------------------------------
(* The theorems *)

LEMMA StepWay ==
    ASSUME IInv, [Next]_vars
    PROVE  IInv'
<1>1. CASE UNCHANGED vars
  <2>1. UNCHANGED <<execution, start, damage, front, input, i, pending, nextID, ops, outcome,
                    init, built>>
    BY <1>1 DEF vars, conversion
  <2>2. ExecutionInv'
    BY <2>1, StepExecution DEF IInv
  <2>3. ControlInv' /\ RunningInv'
    BY <2>1 DEF IInv, ControlInv, RunningInv, Running
  <2>4. LogInv'
    <3>1. CASE front = "jepsen"
      <4>1. JP!IInv(Events)
        BY <3>1 DEF IInv, LogInv
      <4>2. UNCHANGED JP!vars
        BY <2>1 DEF JP!vars, JP!adapter
      <4>3. JP!IInv(Events)'
        BY <4>1, <4>2, JP!StepPairs
      <4>4. QED
        BY <2>1, <4>3 DEF IInv, LogInv, TimesInOrder, Timed
    <3>2. CASE front # "jepsen"
      BY <2>1, <3>2 DEF LogInv
    <3>3. QED
      BY <3>1, <3>2
  <2>5. OperationsInv'
    BY <2>1 DEF IInv, OperationsInv, DistinctIds
  <2>6. BuilderInv'
    BY <2>1 DEF IInv, BuilderInv, Numbered
  <2>7. QED
    BY <2>2, <2>3, <2>4, <2>5, <2>6 DEF IInv
<1>2. CASE Next
  BY <1>2, ExecuteKeeps, HandLogKeeps, HandOperationsKeeps, StartBuildingKeeps, ReadLogKeeps,
     ReadOperationsKeeps, BuildingKeeps DEF Next, Convert
<1>3. QED
  BY <1>1, <1>2

\* The invocations that wait are of the log, and of different processes.
LEMMA WaitingIsOfTheLog ==
    ASSUME IInv
    PROVE  /\ pending \subseteq DOMAIN input
           /\ \A a, b \in pending : input[a].process = input[b].process => a = b
<1>1. CASE front = "jepsen"
  <2>1. JP!IInv(Events)
    BY <1>1 DEF IInv, LogInv
  <2>2. PICK n \in Nat : n = Len(input)
    BY <2>1 DEF JP!IInv
  <2>3. DOMAIN input = 1..n /\ i \in 1..n + 1
    BY <2>1, <2>2 DEF JP!IInv
  <2>4. \A a \in pending :
          a \in 1..i - 1 /\ \A c \in a + 1..i - 1 : input[c].process # input[a].process
    BY <2>1 DEF JP!IInv, JP!PendingIsLatest
  <2>5. pending \subseteq DOMAIN input
    BY <2>2, <2>3, <2>4
  <2>6. ASSUME NEW a \in pending, NEW b \in pending, input[a].process = input[b].process
        PROVE  a = b
    <3>1. a \in 1..i - 1 /\ b \in 1..i - 1
      BY <2>4
    <3>2. ~(a < b) /\ ~(b < a)
      BY <2>3, <2>4, <2>6, <3>1
    <3>3. QED
      BY <2>3, <3>1, <3>2
  <2>7. QED
    BY <2>5, <2>6
<1>2. CASE front # "jepsen"
  <2>1. pending = {}
    BY <1>2 DEF IInv, ControlInv, Running, RunningInv, OperationsInv, BuilderInv
  <2>2. QED
    BY <2>1
<1>3. QED
  BY <1>1, <1>2

\* TypeOK holds in every execution and for every front end.
THEOREM TypeCorrect == Spec => []TypeOK
<1>1. Init => IInv
  BY InitWay
<1>2. IInv /\ [Next]_vars => IInv'
  BY StepWay
<1>3. ASSUME IInv
      PROVE  TypeOK
  <2>1. nextID \in Nat /\ (front = "porcupine" \/ nextID = Len(ops))
    <3>1. CASE front = "none"
      BY <1>3, <3>1 DEF IInv, RunningInv, Running
    <3>2. CASE front = "jepsen"
      BY <1>3, <3>2 DEF IInv, LogInv, JP!IInv
    <3>3. CASE front = "porcupine"
      BY <1>3, <3>3 DEF IInv, OperationsInv
    <3>4. CASE front = "builder"
      BY <1>3, <3>4 DEF IInv, BuilderInv, Numbered
    <3>5. QED
      BY <1>3, <3>1, <3>2, <3>3, <3>4 DEF IInv, ControlInv
  <2>2. ControlInv
    BY <1>3 DEF IInv
  <2>3. QED
    BY <1>3, <2>1, <2>2, WaitingIsOfTheLog DEF ControlInv, TypeOK
<1>4. QED
  BY <1>1, <1>2, <1>3, PTL DEF Spec

\* Whatever the log has lost, ReadEDN makes of every :ok one operation and never joins
\* the halves of two.
THEOREM NeverJoined == Spec => []OpsArePairs
<1>1. Init => IInv
  BY InitWay
<1>2. IInv /\ [Next]_vars => IInv'
  BY StepWay
<1>3. IInv => OpsArePairs
  <2>1. SUFFICES ASSUME IInv, front = "jepsen"
                 PROVE  Jepsen!OpsArePairs
    BY DEF OpsArePairs
  <2>2. JP!OpsArePairs
    BY <2>1 DEF IInv, LogInv, JP!IInv
  <2>3. QED
    BY <2>2 DEF JP!OpsArePairs, JP!Pairs, JP!OkEvents, JP!Completes, JP!OfClient, JP!buildOp,
                JP!ValueOf, Jepsen!OpsArePairs, Jepsen!Pairs, Jepsen!OkEvents,
                Jepsen!Completes, Jepsen!OfClient, Jepsen!buildOp, Jepsen!ValueOf
<1>4. QED
  BY <1>1, <1>2, <1>3, PTL DEF Spec

\* What ReadEDN has made is numbered, and every operation was called before it returned:
\* its events are in the order of the log, which is that of their times.
LEMMA ReadIsValid ==
    ASSUME IInv, front = "jepsen"
    PROVE  \A k \in DOMAIN ops : ops[k].id = k - 1 /\ ops[k].call <= ops[k].return
<1>1. JP!IInv(Events) /\ LogInv
  BY DEF IInv, LogInv
<1>2. PICK f \in [DOMAIN ops -> JP!OkEvents] : JP!Pairs(f)
  BY <1>1 DEF JP!IInv, JP!OpsArePairs
<1>3. SUFFICES ASSUME NEW k \in DOMAIN ops
               PROVE  ops[k].id = k - 1 /\ ops[k].call <= ops[k].return
  OBVIOUS
<1>4. PICK a \in 1..f[k] - 1 :
        JP!Completes(a, f[k]) /\ ops[k] = JP!buildOp(k - 1, input[a], input[f[k]])
  BY <1>2 DEF JP!Pairs
<1>5. PICK n \in Nat : n = Len(input) /\ DOMAIN input = 1..n /\ i \in 1..n + 1
  BY <1>1 DEF JP!IInv
<1>6. f[k] \in 1..n /\ a \in 1..n /\ a < f[k]
  BY <1>2, <1>4, <1>5 DEF JP!OkEvents
<1>7. /\ ops[k].id = k - 1
      /\ ops[k].call = input[a].time /\ ops[k].return = input[f[k]].time
  <2>1. \A b, c : /\ JP!buildOp(k - 1, b, c).id = k - 1
                   /\ JP!buildOp(k - 1, b, c).call = b.time
                   /\ JP!buildOp(k - 1, b, c).return = c.time
    BY DEF JP!buildOp
  <2>2. QED
    BY <1>4, <2>1
<1>8. ops[k].call # NotAnInteger /\ ops[k].return # NotAnInteger
  BY <1>1 DEF LogInv
<1>9. Timed(input, a) /\ Timed(input, f[k])
  BY <1>4, <1>7, <1>8 DEF JP!Completes, Timed
<1>10. QED
  BY <1>1, <1>5, <1>6, <1>7, <1>9 DEF LogInv, TimesInOrder

LEMMA CalledFirst == \A op \in Operations : op.call <= op.return
BY DEF Operations

\* What any front end makes of an execution is what History.validate accepts, although
\* none of them validates: also of a log with damage, for every metadata and for every
\* way to use the builder.
THEOREM NeedsNoValidation == Spec => []MadeIsValid
<1>1. Init => IInv
  BY InitWay
<1>2. IInv /\ [Next]_vars => IInv'
  BY StepWay
<1>3. ASSUME IInv, Made
      PROVE  Valid(History)
  <2> DEFINE made == IF front = "builder" THEN built ELSE ops
  <2>1. /\ \A k \in DOMAIN made : made[k].call <= made[k].return
        /\ DistinctIds(made)
    <3>1. CASE front = "jepsen"
      <4>1. made = ops /\ \A k \in DOMAIN ops : ops[k].id = k - 1 /\ ops[k].call <= ops[k].return
        BY <1>3, <3>1, ReadIsValid
      <4>2. DOMAIN ops \subseteq Int
        BY <1>3, <3>1 DEF IInv, LogInv, JP!IInv
      <4>3. QED
        BY <4>1, <4>2 DEF DistinctIds
    <3>2. CASE front = "porcupine"
      <4>1. made = ops /\ ops \in Seq(Operations) /\ DistinctIds(ops)
        BY <1>3, <3>2 DEF IInv, OperationsInv
      <4>2. \A k \in DOMAIN ops : ops[k] \in Operations
        BY <4>1
      <4>3. QED
        BY <4>1, <4>2, CalledFirst
    <3>3. CASE front = "builder"
      <4>1. made = built /\ Numbered(built)
        BY <1>3, <3>3 DEF IInv, BuilderInv
      <4>2. DOMAIN built \subseteq Int /\ \A k \in DOMAIN built : built[k] \in Operations
        BY <4>1 DEF Numbered
      <4>3. DistinctIds(built)
        BY <4>1, <4>2 DEF Numbered, DistinctIds
      <4>4. QED
        BY <4>1, <4>2, <4>3, CalledFirst
    <3>4. front # "none"
      BY <1>3 DEF Made, IInv, ControlInv, Running
    <3>5. QED
      BY <1>3, <3>1, <3>2, <3>3, <3>4 DEF IInv, ControlInv
  <2>2. History.ops = made /\ History.model # ""
    BY DEF History
  <2> HIDE DEF made
  <2>3. \A op \in OpsOf(History) : op.call <= op.return
    BY <2>1, <2>2 DEF OpsOf, Range
  <2>4. QED
    BY <2>1, <2>2, <2>3 DEF Valid, DistinctIds
<1>4. QED
  BY <1>1, <1>2, <1>3, PTL DEF Spec, MadeIsValid

-----------------------------------------------------------------------------
(* What the log and the operations that returned have to do with each other *)

\* Event b ends what event a of its process began, with no other of the process in between.
PairIn(s, a, b) ==
    /\ a < b
    /\ s[a].type = "invoke" /\ s[b].type = "ok"
    /\ s[a].process = s[b].process
    /\ \A k \in a + 1..b - 1 : s[k].process # s[a].process

\* A call that a client waits for.
Calling(c) == doing[c].f # "none" /\ ~doing[c].given_up

LastOf(c, a) ==
    /\ a \in DOMAIN log /\ log[a].process = c
    /\ \A k \in a + 1..Len(log) : log[k].process # c

\* The last event of a client is an :invoke when it waits, that of the operation it waits for.
ClientInv(c) ==
    /\ doing[c].f = "none" => doing[c] = Idle
    /\ doing[c].f \notin {"none", "read"} => doing[c].value \in Nat
    /\ Calling(c) => \E a \in DOMAIN log :
            /\ LastOf(c, a) /\ log[a].type = "invoke"
            /\ log[a].f = doing[c].f /\ log[a].time = doing[c].call
            /\ doing[c].f # "read" => log[a].value = doing[c].value
    /\ ~Calling(c) => \A a \in DOMAIN log : LastOf(c, a) => log[a].type # "invoke"

\* No process calls twice in a row.
Alternation ==
    \A a, b \in DOMAIN log :
        /\ a < b /\ log[a].process = log[b].process
        /\ \A k \in a + 1..b - 1 : log[k].process # log[a].process
        => ~(log[a].type = "invoke" /\ log[b].type = "invoke")

OkAt == {k \in DOMAIN log : log[k].type = "ok"}

\* Operation d is the one between these events.
Describes(d, invoke, ok) ==
    /\ d.client = ok.process /\ d.type = invoke.f /\ d.value = ok.value
    /\ d.call = invoke.time /\ d.return = ok.time
    /\ invoke.f # "read" => invoke.value = ok.value

\* f says of each operation that returned which :ok is its.
CompletedAt(f) ==
    /\ Enumerates(f, Len(completed), OkAt)
    /\ \A k \in 1..Len(completed) : \E a \in 1..Len(log) :
            PairIn(log, a, f[k]) /\ Describes(completed[k], log[a], log[f[k]])

Completing == \E f : CompletedAt(f)

\* The inductive invariant that is added to ExecutionInv: clients alternate between
\* calls and returns, and the operations that returned are the :oks of the log.
TruthInv ==
    /\ \A k \in DOMAIN log : log[k].process \in Clients
    /\ \A k \in DOMAIN completed :
        /\ completed[k].type \in Kinds
        /\ completed[k].type # "read" => completed[k].value \in Nat
    /\ \A c \in Clients : ClientInv(c)
    /\ Alternation
    /\ Completing

Grown(e) ==
    /\ Len(log) \in Nat /\ Len(log') = Len(log) + 1
    /\ DOMAIN log = 1..Len(log) /\ DOMAIN log' = 1..Len(log) + 1
    /\ log'[Len(log) + 1] = e /\ \A k \in 1..Len(log) : log'[k] = log[k]

LEMMA LogGrows ==
    ASSUME ExecutionInv, NEW e, Logged(e)
    PROVE  Grown(e)
<1>1. log \in Seq(Events) /\ log' = Append(log, e)
  BY DEF ExecutionInv, Logged
<1>2. PICK n \in Nat : n = Len(log)
  BY <1>1
<1>3. Len(log') = n + 1 /\ DOMAIN log = 1..n /\ DOMAIN log' = 1..n + 1
  BY <1>1, <1>2
<1>4. log'[n + 1] = e /\ \A k \in 1..n : log'[k] = log[k]
  BY <1>1, <1>2
<1>5. QED
  BY <1>2, <1>3, <1>4 DEF Grown

\* A client calls only when it does not wait.
LEMMA GrowthAlternates ==
    ASSUME TruthInv, NEW e, Grown(e), NEW c \in Clients, e.process = c,
           e.type = "invoke" => ~Calling(c)
    PROVE  Alternation'
<1> DEFINE n == Len(log)
<1>1. SUFFICES ASSUME NEW a \in 1..n + 1, NEW b \in 1..n + 1,
                      a < b, log'[a].process = log'[b].process,
                      \A k \in a + 1..b - 1 : log'[k].process # log'[a].process,
                      log'[a].type = "invoke", log'[b].type = "invoke"
               PROVE  FALSE
  BY DEF Alternation, Grown
<1>2. n \in Nat /\ a \in 1..n /\ log'[a] = log[a] /\ DOMAIN log = 1..n
  BY <1>1 DEF Grown
<1>3. CASE b \in 1..n
  <2>1. log'[b] = log[b] /\ \A k \in a + 1..b - 1 : log'[k] = log[k]
    BY <1>2, <1>3 DEF Grown
  <2>2. QED
    BY <1>1, <1>2, <1>3, <2>1 DEF TruthInv, Alternation
<1>4. CASE b = n + 1
  <2>1. log'[b] = e /\ \A k \in a + 1..n : log'[k] = log[k]
    BY <1>2, <1>4 DEF Grown
  <2>2. b - 1 = n
    BY <1>2, <1>4
  <2>3. LastOf(c, a)
    BY <1>1, <1>2, <2>1, <2>2 DEF LastOf
  <2>4. ~Calling(c) /\ log[a].type = "invoke"
    BY <1>1, <1>2, <2>1
  <2>5. QED
    BY <1>2, <2>3, <2>4 DEF TruthInv, ClientInv
<1>5. QED
  BY <1>2, <1>3, <1>4

\* The event of one client leaves the others as they were.
LEMMA OthersKeep ==
    ASSUME NEW e, Grown(e), NEW c, c # e.process, ClientInv(c), doing'[c] = doing[c]
    PROVE  ClientInv(c)'
<1> DEFINE n == Len(log)
<1>1. n \in Nat /\ DOMAIN log = 1..n /\ DOMAIN log' = 1..n + 1 /\ Len(log') = n + 1
      /\ log'[n + 1] = e /\ \A k \in 1..n : log'[k] = log[k]
  BY DEF Grown
<1> HIDE DEF n
<1>2. \A a : LastOf(c, a)' <=> LastOf(c, a)
  <2>1. ASSUME NEW a, LastOf(c, a)
        PROVE  LastOf(c, a)'
    <3>1. a \in 1..n /\ log[a].process = c /\ \A k \in a + 1..n : log[k].process # c
      BY <1>1, <2>1 DEF LastOf, n
    <3>2. \A k \in a + 1..n + 1 : log'[k].process # c
      BY <1>1, <3>1
    <3>3. QED
      BY <1>1, <3>1, <3>2 DEF LastOf
  <2>2. ASSUME NEW a, LastOf(c, a)'
        PROVE  LastOf(c, a)
    <3>1. a \in 1..n + 1 /\ log'[a].process = c /\ \A k \in a + 1..n + 1 : log'[k].process # c
      BY <1>1, <2>2 DEF LastOf
    <3>2. a \in 1..n
      BY <1>1, <3>1
    <3>3. \A k \in a + 1..n : log[k].process # c
      BY <1>1, <3>1, <3>2
    <3>4. QED
      BY <1>1, <3>1, <3>2, <3>3 DEF LastOf, n
  <2>3. QED
    BY <2>1, <2>2
<1>3. \A a : LastOf(c, a) => a \in 1..n /\ log'[a] = log[a]
  BY <1>1 DEF LastOf
<1>4. Calling(c)' <=> Calling(c)
  BY DEF Calling
<1>5. Calling(c)' => \E a \in DOMAIN log' :
            /\ LastOf(c, a)' /\ log'[a].type = "invoke"
            /\ log'[a].f = doing'[c].f /\ log'[a].time = doing'[c].call
            /\ doing'[c].f # "read" => log'[a].value = doing'[c].value
  <2>1. SUFFICES ASSUME Calling(c)
                 PROVE  \E a \in DOMAIN log' :
                            /\ LastOf(c, a)' /\ log'[a].type = "invoke"
                            /\ log'[a].f = doing'[c].f /\ log'[a].time = doing'[c].call
                            /\ doing'[c].f # "read" => log'[a].value = doing'[c].value
    BY <1>4
  <2>2. PICK a \in DOMAIN log :
            /\ LastOf(c, a) /\ log[a].type = "invoke"
            /\ log[a].f = doing[c].f /\ log[a].time = doing[c].call
            /\ doing[c].f # "read" => log[a].value = doing[c].value
    BY <2>1 DEF ClientInv
  <2>3. a \in DOMAIN log' /\ LastOf(c, a)' /\ log'[a] = log[a]
    BY <1>1, <1>2, <1>3, <2>2
  <2>4. QED
    BY <2>2, <2>3
<1>6. ~Calling(c)' => \A a \in DOMAIN log' : LastOf(c, a)' => log'[a].type # "invoke"
  BY <1>1, <1>2, <1>3, <1>4 DEF ClientInv
<1>7. QED
  BY <1>5, <1>6 DEF ClientInv, Idle

\* The client whose event it is.
LEMMA NewIsLast ==
    ASSUME NEW e, Grown(e), NEW c, c = e.process, NEW n, n = Len(log)
    PROVE  /\ LastOf(c, n + 1)'
           /\ \A a : LastOf(c, a)' => a = n + 1
<1>1. LastOf(c, n + 1)'
  BY DEF Grown, LastOf
<1>2. ASSUME NEW a, LastOf(c, a)', a # n + 1
      PROVE  FALSE
  <2>1. a \in 1..n /\ n + 1 \in a + 1..n + 1
    BY <1>2 DEF Grown, LastOf
  <2>2. QED
    BY <1>2, <2>1 DEF Grown, LastOf
<1>3. QED
  BY <1>1, <1>2

\* Pairs of events stay pairs when the log grows.
LEMMA PairStays ==
    ASSUME NEW e, Grown(e), NEW a \in 1..Len(log), NEW b \in 1..Len(log), PairIn(log, a, b)
    PROVE  PairIn(log', a, b)
<1>1. \A k \in a + 1..b - 1 : log'[k] = log[k]
  BY DEF Grown
<1>2. QED
  BY <1>1 DEF Grown, PairIn

\* An event that is not an :ok completes nothing.
LEMMA NothingCompleted ==
    ASSUME NEW e, Grown(e), e.type # "ok", Completing, completed' = completed
    PROVE  Completing'
<1>1. PICK f : CompletedAt(f)
  BY DEF Completing
<1>2. OkAt' = OkAt
  BY DEF OkAt, Grown
<1>3. Enumerates(f, Len(completed), OkAt)'
  BY <1>1, <1>2 DEF CompletedAt
<1>4. ASSUME NEW k \in 1..Len(completed)
      PROVE  \E a \in 1..Len(log') :
                PairIn(log', a, f[k]) /\ Describes(completed[k], log'[a], log'[f[k]])
  <2>1. PICK a \in 1..Len(log) :
            PairIn(log, a, f[k]) /\ Describes(completed[k], log[a], log[f[k]])
    BY <1>1 DEF CompletedAt
  <2>2. f[k] \in 1..Len(log)
    BY <1>1 DEF CompletedAt, Enumerates, OkAt, Grown
  <2>3. PairIn(log', a, f[k]) /\ log'[a] = log[a] /\ log'[f[k]] = log[f[k]]
    BY <2>1, <2>2, PairStays DEF Grown
  <2>4. a \in 1..Len(log')
    BY DEF Grown
  <2>5. QED
    BY <2>1, <2>3, <2>4
<1>5. CompletedAt(f)'
  BY <1>3, <1>4 DEF CompletedAt
<1>6. QED
  BY <1>5 DEF Completing

\* An :ok that ends what it says completes the operation in between.
LEMMA OneMoreCompleted ==
    ASSUME NEW e, Grown(e), e.type = "ok", Completing, completed \in Seq(Returned),
           NEW d, completed' = Append(completed, d),
           NEW a \in 1..Len(log), PairIn(log', a, Len(log) + 1), Describes(d, log[a], e)
    PROVE  Completing'
<1>0. PICK n \in Nat, m \in Nat : n = Len(log) /\ m = Len(completed)
  <2>1. Len(log) \in Nat /\ Len(completed) \in Nat
    BY DEF Grown
  <2>2. QED
    BY <2>1
<1>1. DOMAIN log = 1..n /\ DOMAIN log' = 1..n + 1 /\ Len(log') = n + 1
      /\ log'[n + 1] = e /\ \A k \in 1..n : log'[k] = log[k]
  BY <1>0 DEF Grown
<1>2. Len(completed') = m + 1 /\ completed'[m + 1] = d /\ \A k \in 1..m : completed'[k] = completed[k]
  BY <1>0
<1>3. PICK f : CompletedAt(f)
  BY DEF Completing
<1>4. /\ f \in [1..m -> OkAt]
      /\ \A j, k \in 1..m : j < k => f[j] < f[k]
      /\ \A x \in OkAt : \E k \in 1..m : f[k] = x
  BY <1>0, <1>3 DEF CompletedAt, Enumerates
<1>5. OkAt' = OkAt \union {n + 1} /\ OkAt \subseteq 1..n
  <2>1. 1..n + 1 = (1..n) \union {n + 1}
    OBVIOUS
  <2>2. QED
    BY <1>1, <2>1 DEF OkAt
<1>6. PICK g \in [1..m + 1 -> OkAt'] : g[m + 1] = n + 1 /\ \A k \in 1..m : g[k] = f[k]
  <2> DEFINE h == [k \in 1..m + 1 |-> IF k = m + 1 THEN n + 1 ELSE f[k]]
  <2>1. h \in [1..m + 1 -> OkAt'] /\ h[m + 1] = n + 1 /\ \A k \in 1..m : h[k] = f[k]
    BY <1>4, <1>5
  <2> HIDE DEF h
  <2>2. QED
    BY <2>1
<1>7. \A j, k \in 1..m + 1 : j < k => g[j] < g[k]
  <2>1. SUFFICES ASSUME NEW j \in 1..m + 1, NEW k \in 1..m + 1, j < k
                 PROVE  g[j] < g[k]
    OBVIOUS
  <2>2. j \in 1..m /\ g[j] = f[j] /\ f[j] \in 1..n
    <3>1. j \in 1..m
      BY <2>1
    <3>2. f[j] \in OkAt
      BY <1>4, <3>1
    <3>3. QED
      BY <1>5, <1>6, <3>1, <3>2
  <2>3. CASE k = m + 1
    BY <1>1, <1>6, <2>2, <2>3
  <2>4. CASE k \in 1..m
    BY <1>4, <1>6, <2>1, <2>2, <2>4
  <2>5. QED
    BY <1>1, <2>3, <2>4
<1>8. \A x \in OkAt' : \E k \in 1..m + 1 : g[k] = x
  <2>1. \A k \in 1..m : k \in 1..m + 1
    BY <1>1
  <2>2. m + 1 \in 1..m + 1
    BY <1>1
  <2>3. QED
    BY <1>4, <1>5, <1>6, <2>1, <2>2
<1>9. ASSUME NEW k \in 1..m + 1
      PROVE  \E b \in 1..n + 1 :
                PairIn(log', b, g[k]) /\ Describes(completed'[k], log'[b], log'[g[k]])
  <2>1. CASE k = m + 1
    <3>1. a \in 1..n + 1 /\ log'[a] = log[a]
      BY <1>0, <1>1
    <3>2. PairIn(log', a, g[k]) /\ Describes(completed'[k], log'[a], log'[g[k]])
      BY <1>0, <1>1, <1>2, <1>6, <2>1, <3>1
    <3>3. QED
      BY <3>1, <3>2
  <2>2. CASE k \in 1..m
    <3>1. PICK b \in 1..Len(log) :
            PairIn(log, b, f[k]) /\ Describes(completed[k], log[b], log[f[k]])
      BY <1>0, <1>3, <2>2 DEF CompletedAt
    <3>2. f[k] \in 1..Len(log)
      BY <1>0, <1>4, <1>5, <2>2
    <3>3. PairIn(log', b, f[k]) /\ log'[b] = log[b] /\ log'[f[k]] = log[f[k]]
      BY <3>1, <3>2, PairStays DEF Grown
    <3>4. b \in 1..n + 1 /\ g[k] = f[k] /\ completed'[k] = completed[k]
      BY <1>0, <1>1, <1>2, <1>6, <2>2
    <3>5. QED
      BY <3>1, <3>3, <3>4
  <2>3. k = m + 1 \/ k \in 1..m
    OBVIOUS
  <2>4. QED
    BY <2>1, <2>2, <2>3
<1>10. Enumerates(g, Len(completed'), OkAt')
  BY <1>2, <1>6, <1>7, <1>8 DEF Enumerates
<1>11. CompletedAt(g)'
  BY <1>1, <1>2, <1>9, <1>10 DEF CompletedAt
<1>12. QED
  BY <1>11 DEF Completing

LEMMA TruthAtFirst ==
    ASSUME ExecutionInit
    PROVE  TruthInv
<1>1. log = <<>> /\ completed = <<>> /\ \A c \in Clients : doing[c] = Idle
  BY DEF ExecutionInit
<1>2. DOMAIN log = {} /\ DOMAIN completed = {} /\ Len(completed) = 0 /\ OkAt = {}
  BY <1>1 DEF OkAt
<1>3. ASSUME NEW c \in Clients
      PROVE  ClientInv(c)
  <2>0. Idle.f = "none" /\ Idle.given_up = FALSE
    BY DEF Idle
  <2>1. doing[c] = Idle /\ doing[c].f = "none"
    BY <1>1, <2>0
  <2>2. ~Calling(c)
    BY <2>1 DEF Calling
  <2>3. QED
    BY <1>2, <2>1, <2>2 DEF ClientInv
<1>4. Completing
  <2> DEFINE f == [k \in {} |-> 0]
  <2>1. Enumerates(f, 0, {})
    BY DEF Enumerates
  <2>2. CompletedAt(f)
    BY <1>2, <2>1 DEF CompletedAt
  <2>3. QED
    BY <2>2 DEF Completing
<1>5. QED
  BY <1>2, <1>3, <1>4 DEF TruthInv, Alternation

\* A client that logs something stays a client of the log.
LEMMA GrowthIsOfClients ==
    ASSUME TruthInv, NEW e, Grown(e), e.process \in Clients
    PROVE  \A k \in DOMAIN log' : log'[k].process \in Clients
<1>1. SUFFICES ASSUME NEW k \in 1..Len(log) + 1
               PROVE  log'[k].process \in Clients
  BY DEF Grown
<1>2. CASE k = Len(log) + 1
  BY <1>2 DEF Grown
<1>3. CASE k \in 1..Len(log)
  BY <1>3 DEF Grown, TruthInv
<1>4. k = Len(log) + 1 \/ k \in 1..Len(log)
  BY DEF Grown
<1>5. QED
  BY <1>2, <1>3, <1>4

LEMMA TruthWhenCalled ==
    ASSUME ExecutionInv, TruthInv, NEW c \in Clients, NEW f \in Kinds, Invoke(c, f)
    PROVE  TruthInv'
<1> DEFINE value == IF f = "read" THEN NotAnInteger ELSE Calls + 1
           e == Event("invoke", c, f, value)
<1>1. /\ doing[c] = Idle
      /\ doing' = [doing EXCEPT ![c] = [Idle EXCEPT !.f = f, !.value = value, !.call = Clock]]
      /\ Logged(e) /\ UNCHANGED <<register, completed>>
  BY DEF Invoke
<1>2. f # "none" /\ (f # "read" => value \in Nat)
  BY KindsAssumption, CallsIsANumber DEF ExecutionInv
<1> HIDE DEF value
<1>3. doing \in [Clients -> Doing]
  BY DEF ExecutionInv
<1>4. /\ doing'[c].f = f /\ doing'[c].value = value /\ doing'[c].call = Clock
      /\ ~doing'[c].given_up
      /\ \A b \in Clients : b # c => doing'[b] = doing[b]
  BY <1>1, <1>3 DEF Idle
<1>5. /\ e.type = "invoke" /\ e.process = c /\ e.f = f /\ e.value = value /\ e.time = Clock
  BY DEF Event
<1>6. PICK x : x = e
  OBVIOUS
<1> HIDE DEF e
<1>7. Grown(x)
  BY <1>1, <1>6, LogGrows
<1>8. PICK n \in Nat : n = Len(log)
  BY <1>7 DEF Grown
<1>9. ~Calling(c)
  BY <1>1 DEF Calling, Idle
<1>10. Alternation'
  BY <1>5, <1>6, <1>7, <1>9, GrowthAlternates
<1>11. ASSUME NEW b \in Clients, b # c
       PROVE  ClientInv(b)'
  BY <1>4, <1>5, <1>6, <1>7, <1>11, OthersKeep DEF TruthInv
<1>12. ClientInv(c)'
  <2>1. LastOf(c, n + 1)' /\ log'[n + 1] = x /\ n + 1 \in DOMAIN log'
    BY <1>5, <1>6, <1>7, <1>8, NewIsLast DEF Grown
  <2>2. Calling(c)'
    BY <1>2, <1>4 DEF Calling
  <2>3. QED
    BY <1>2, <1>4, <1>5, <1>6, <2>1, <2>2 DEF ClientInv
<1>13. Completing'
  BY <1>1, <1>5, <1>6, <1>7, NothingCompleted DEF TruthInv
<1>14. \A k \in DOMAIN log' : log'[k].process \in Clients
  BY <1>5, <1>6, <1>7, GrowthIsOfClients
<1>15. QED
  BY <1>1, <1>10, <1>11, <1>12, <1>13, <1>14 DEF TruthInv

\* Nothing is logged when an operation takes effect.
LEMMA TruthWhenEffective ==
    ASSUME ExecutionInv, TruthInv, NEW c \in Clients, TakeEffect(c)
    PROVE  TruthInv'
<1>1. UNCHANGED <<log, completed>> /\ doing[c].f # "none" /\ doing \in [Clients -> Doing]
  BY DEF TakeEffect, ExecutionInv
<1>2. /\ doing'[c].f = doing[c].f /\ doing'[c].call = doing[c].call
      /\ doing'[c].given_up = doing[c].given_up
      /\ doing[c].f # "read" => doing'[c].value = doing[c].value
      /\ \A b \in Clients : b # c => doing'[b] = doing[b]
  <2>1. CASE doing' = [doing EXCEPT ![c].applied = TRUE, ![c].value = register] /\ doing[c].f = "read"
    BY <1>1, <2>1 DEF Doing
  <2>2. CASE doing' = [doing EXCEPT ![c].applied = TRUE]
    BY <1>1, <2>2 DEF Doing
  <2>3. QED
    BY <2>1, <2>2 DEF TakeEffect
<1>3. \A a, b : LastOf(b, a)' <=> LastOf(b, a)
  BY <1>1 DEF LastOf
<1>4. ASSUME NEW b \in Clients, b # c
      PROVE  ClientInv(b)'
  <2>1. ClientInv(b) /\ doing'[b] = doing[b]
    BY <1>2, <1>4 DEF TruthInv
  <2>2. QED
    BY <1>1, <1>3, <2>1 DEF ClientInv, Calling, Idle
<1>5. ClientInv(c)'
  <2>1. ClientInv(c)
    BY DEF TruthInv
  <2>2. Calling(c)' <=> Calling(c)
    BY <1>2 DEF Calling
  <2>3. QED
    BY <1>1, <1>2, <1>3, <2>1, <2>2 DEF ClientInv
<1>6. Completing' /\ Alternation'
  BY <1>1 DEF TruthInv, Completing, CompletedAt, OkAt, Alternation
<1>7. QED
  BY <1>1, <1>4, <1>5, <1>6 DEF TruthInv

LEMMA TruthWhenReturned ==
    ASSUME ExecutionInv, TruthInv, NEW c \in Clients, Return(c)
    PROVE  TruthInv'
<1> DEFINE d == [client |-> c, type |-> doing[c].f, value |-> doing[c].value,
                 call |-> doing[c].call, return |-> Clock]
           e == Event("ok", c, doing[c].f, doing[c].value)
<1>1. /\ doing[c].applied /\ ~doing[c].given_up
      /\ Logged(e) /\ completed' = Append(completed, d)
      /\ doing' = [doing EXCEPT ![c] = Idle]
  BY DEF Return
<1>2. doing \in [Clients -> Doing] /\ completed \in Seq(Returned)
  BY DEF ExecutionInv
<1>3. ClientInv(c)
  BY DEF TruthInv
<1>4. doing[c].f \in Kinds /\ Calling(c)
  <2>1. doing[c].f # "none"
    BY <1>1, <1>3 DEF ClientInv, Idle
  <2>2. QED
    BY <1>1, <1>2, <2>1 DEF Doing, Calling
<1>5. PICK a \in DOMAIN log :
          /\ LastOf(c, a) /\ log[a].type = "invoke"
          /\ log[a].f = doing[c].f /\ log[a].time = doing[c].call
          /\ doing[c].f # "read" => log[a].value = doing[c].value
  BY <1>3, <1>4 DEF ClientInv
<1>6. /\ e.type = "ok" /\ e.process = c /\ e.f = doing[c].f /\ e.value = doing[c].value
      /\ e.time = Clock
  BY DEF Event
<1>7. /\ d.client = c /\ d.type = doing[c].f /\ d.value = doing[c].value
      /\ d.call = doing[c].call /\ d.return = Clock
  OBVIOUS
<1>8. PICK x, y : x = e /\ y = d
  OBVIOUS
<1> HIDE DEF e, d
<1>9. Grown(x)
  BY <1>1, <1>8, LogGrows
<1>10. PICK n \in Nat : n = Len(log)
  BY <1>9 DEF Grown
<1>11. /\ doing'[c] = Idle /\ \A b \in Clients : b # c => doing'[b] = doing[b]
  BY <1>1, <1>2
<1>12. Alternation'
  BY <1>6, <1>8, <1>9, GrowthAlternates
<1>13. ASSUME NEW b \in Clients, b # c
       PROVE  ClientInv(b)'
  BY <1>6, <1>8, <1>9, <1>11, <1>13, OthersKeep DEF TruthInv
<1>14. ClientInv(c)'
  <2>1. /\ log'[n + 1] = x
        /\ \A b : LastOf(c, b)' => b = n + 1
    BY <1>6, <1>8, <1>9, <1>10, NewIsLast DEF Grown
  <2>2. ~Calling(c)' /\ doing'[c].f = "none"
    BY <1>11 DEF Calling, Idle
  <2>3. x.type # "invoke"
    BY <1>6, <1>8
  <2>4. QED
    BY <1>11, <2>1, <2>2, <2>3 DEF ClientInv, Idle
<1>15. Completing'
  <2>1. a \in 1..Len(log) /\ a \in 1..n
    BY <1>9, <1>10 DEF Grown
  <2>2. PairIn(log', a, Len(log) + 1)
    <3>1. log'[a] = log[a] /\ log'[n + 1] = x /\ \A k \in a + 1..n : log'[k] = log[k]
      BY <1>9, <1>10, <2>1 DEF Grown
    <3>2. log[a].process = c /\ \A k \in a + 1..n : log[k].process # c
      BY <1>5, <1>10 DEF LastOf
    <3>3. a < n + 1 /\ (n + 1) - 1 = n
      BY <2>1
    <3>4. PairIn(log', a, n + 1)
      BY <1>5, <1>6, <1>8, <3>1, <3>2, <3>3 DEF PairIn
    <3>5. QED
      BY <1>10, <3>4
  <2>3. Describes(y, log[a], x)
    BY <1>5, <1>6, <1>7, <1>8 DEF Describes
  <2>4. Completing /\ completed' = Append(completed, y) /\ x.type = "ok"
    BY <1>1, <1>6, <1>8 DEF TruthInv
  <2>5. QED
    BY <1>2, <1>9, <2>1, <2>2, <2>3, <2>4, OneMoreCompleted
<1>16. \A k \in DOMAIN completed' :
          /\ completed'[k].type \in Kinds
          /\ completed'[k].type # "read" => completed'[k].value \in Nat
  <2>1. y.type \in Kinds /\ (y.type # "read" => y.value \in Nat)
    BY <1>3, <1>4, <1>7, <1>8, KindsAssumption DEF ClientInv
  <2>2. PICK m \in Nat : m = Len(completed)
    BY <1>2
  <2>3. /\ DOMAIN completed = 1..m /\ DOMAIN completed' = 1..m + 1
        /\ completed'[m + 1] = y /\ \A k \in 1..m : completed'[k] = completed[k]
    BY <1>1, <1>2, <1>8, <2>2
  <2>4. \A k \in 1..m + 1 : k = m + 1 \/ k \in 1..m
    OBVIOUS
  <2>5. QED
    BY <2>1, <2>3, <2>4 DEF TruthInv
<1>17. \A k \in DOMAIN log' : log'[k].process \in Clients
  BY <1>6, <1>8, <1>9, GrowthIsOfClients
<1>18. QED
  BY <1>12, <1>13, <1>14, <1>15, <1>16, <1>17 DEF TruthInv

LEMMA TruthWhenEnded ==
    ASSUME ExecutionInv, TruthInv, NEW c \in Clients, Fail(c) \/ GiveUp(c)
    PROVE  TruthInv'
<1>1. PICK type \in {"fail", "info"} : Logged(Event(type, c, doing[c].f, doing[c].value))
  BY DEF Fail, GiveUp
<1> DEFINE e == Event(type, c, doing[c].f, doing[c].value)
<1>2. e.type \in {"fail", "info"} /\ e.process = c
  BY DEF Event
<1>3. PICK x : x = e
  OBVIOUS
<1> HIDE DEF e
<1>4. Grown(x) /\ x.type \notin {"invoke", "ok"} /\ x.process = c
  BY <1>1, <1>2, <1>3, LogGrows DEF e
<1>5. PICK n \in Nat : n = Len(log)
  BY <1>4 DEF Grown
<1>6. doing \in [Clients -> Doing] /\ completed' = completed /\ ClientInv(c)
  BY DEF ExecutionInv, Fail, GiveUp, TruthInv
<1>7. /\ \A b \in Clients : b # c => doing'[b] = doing[b]
      /\ ~Calling(c)'
      /\ doing'[c].f = "none" => doing'[c] = Idle
      /\ doing'[c].f \notin {"none", "read"} => doing'[c].value \in Nat
  <2>1. CASE doing' = [doing EXCEPT ![c] = Idle]
    BY <1>6, <2>1 DEF Idle, Calling
  <2>2. CASE doing' = [doing EXCEPT ![c].given_up = TRUE] /\ doing[c].f # "none"
    <3>1. /\ doing'[c].given_up /\ doing'[c].f = doing[c].f /\ doing'[c].value = doing[c].value
          /\ \A b \in Clients : b # c => doing'[b] = doing[b]
      BY <1>6, <2>2 DEF Doing
    <3>2. QED
      BY <1>6, <2>2, <3>1 DEF ClientInv, Calling
  <2>3. QED
    BY <2>1, <2>2 DEF Fail, GiveUp
<1>8. Alternation'
  BY <1>4, GrowthAlternates
<1>9. ASSUME NEW b \in Clients, b # c
      PROVE  ClientInv(b)'
  BY <1>4, <1>7, <1>9, OthersKeep DEF TruthInv
<1>10. ClientInv(c)'
  <2>1. /\ log'[n + 1] = x
        /\ \A b : LastOf(c, b)' => b = n + 1
    BY <1>4, <1>5, NewIsLast DEF Grown
  <2>2. QED
    BY <1>4, <1>7, <2>1 DEF ClientInv, Idle
<1>11. Completing'
  BY <1>4, <1>6, NothingCompleted DEF TruthInv
<1>12. \A k \in DOMAIN log' : log'[k].process \in Clients
  BY <1>4, GrowthIsOfClients
<1>13. QED
  BY <1>6, <1>8, <1>9, <1>10, <1>11, <1>12 DEF TruthInv

LEMMA SameExecution ==
    ASSUME TruthInv, UNCHANGED execution
    PROVE  TruthInv'
<1>1. UNCHANGED <<register, doing, log, completed>>
  BY DEF execution
<1>2. ASSUME NEW c \in Clients
      PROVE  ClientInv(c)'
  <2>1. ClientInv(c) /\ (Calling(c)' <=> Calling(c)) /\ \A a : LastOf(c, a)' <=> LastOf(c, a)
    BY <1>1 DEF TruthInv, Calling, LastOf
  <2>2. QED
    BY <1>1, <2>1 DEF ClientInv, Idle
<1>3. Completing' /\ Alternation'
  BY <1>1 DEF TruthInv, Completing, CompletedAt, OkAt, Alternation
<1>4. QED
  BY <1>1, <1>2, <1>3 DEF TruthInv

LEMMA TruthKept ==
    ASSUME ExecutionInv, TruthInv, ExecutionNext \/ UNCHANGED execution
    PROVE  TruthInv'
<1>1. ASSUME NEW c \in Clients, TakeEffect(c) \/ Return(c) \/ Fail(c) \/ GiveUp(c)
      PROVE  TruthInv'
  BY <1>1, TruthWhenEffective, TruthWhenReturned, TruthWhenEnded
<1>2. QED
  BY <1>1, TruthWhenCalled, SameExecution DEF ExecutionNext

-----------------------------------------------------------------------------
(* What the front ends make of it *)

\* What became of the log.
CarriedInv ==
    /\ front # "jepsen" => damage = Undamaged
    /\ front = "jepsen" =>
        \/ damage = Undamaged /\ input = log
        \/ \E k \in DOMAIN log : damage = [kind |-> "lost", at |-> k] /\ input = RemoveAt(log, k)
        \/ \E k \in DOMAIN log :
                /\ damage = [kind |-> "untimed", at |-> k]
                /\ input = [log EXCEPT ![k].time = NotAnInteger]
        \/ \E k \in 1..Len(log) + 1, e \in Foreign :
                damage = [kind |-> "foreign", at |-> k] /\ input = InsertAt(log, k, e)

\* The operations of a test are those that returned, of one model; a store was empty.
TestsAre(model) ==
    /\ model = "kv" => start = NotAnInteger
    /\ Len(input) = Len(completed)
    /\ \A k \in 1..Len(completed) :
        /\ input[k].model = model /\ input[k].key = Key
        /\ Truth(input[k]) = Truth(completed[k])

\* FromOperations: what has been translated, and why the call ended if it has.
TranslatedInv ==
    front = "porcupine" =>
        /\ translator \in {"register", "kv", "nil"}
        /\ \E model \in {"register", "kv"} : TestsAre(model)
        /\ \A k \in 1..i - 1 : Adapter!Translates(input[k])
        /\ \A j, k \in 1..i - 1 : Adapter!IdOf(j) = Adapter!IdOf(k) => j = k
        /\ outcome = "reading" =>
            Len(ops) = i - 1 /\ \A k \in 1..i - 1 : ops[k] = Adapter!Translated(k)
        /\ outcome = "history" =>
            /\ i = Len(input) + 1 /\ translator # "nil"
            /\ Len(ops) = Len(input) /\ InOrder(ops)
            /\ \A k \in 1..Len(input) : \E j \in 1..Len(input) : ops[k] = Adapter!Translated(j)
            /\ \A j \in 1..Len(input) : \E k \in 1..Len(input) : ops[k] = Adapter!Translated(j)
        /\ outcome = "error" =>
            \/ translator = "nil"
            \/ /\ i \in 1..Len(input)
               /\ \/ ~Adapter!Translates(input[i])
                  \/ \E k \in 1..i - 1 : Adapter!IdOf(k) = Adapter!IdOf(i)

\* The builder has the operations that were given to it, what it built has the first of them.
BuiltInv ==
    front = "builder" =>
        /\ input = completed /\ AllIntegers
        /\ Len(ops) = i - 1 /\ \A k \in 1..i - 1 : Truth(ops[k]) = Truth(completed[k])
        /\ Len(built) <= Len(ops) /\ \A k \in 1..Len(built) : built[k] = ops[k]
        /\ outcome # "error"
        /\ outcome = "history" => i = Len(input) + 1 /\ Len(built) = Len(input)

ConversionInv == CarriedInv /\ TranslatedInv /\ BuiltInv

LEMMA ConversionAtFirst ==
    ASSUME Init
    PROVE  ConversionInv
BY DEF Init, ConversionInv, CarriedInv, TranslatedInv, BuiltInv

\* Handing over.
LEMMA ConversionStarts ==
    ASSUME IInv, ConversionInv, HandLog \/ HandOperations \/ StartBuilding
    PROVE  ConversionInv'
<1>1. /\ UNCHANGED <<execution, start, i, pending, nextID, ops, init, built>>
      /\ Running /\ RunningInv /\ ExecutionInv
  BY DEF HandLog, HandOperations, StartBuilding, HandOver, IInv
<1>2. /\ UNCHANGED <<register, doing, log, completed>> /\ i = 1 /\ ops = <<>> /\ built = <<>>
      /\ damage = Undamaged
  BY <1>1 DEF execution, RunningInv, ConversionInv, CarriedInv, Running
<1>3. Len(log) \in Nat /\ Len(completed) \in Nat /\ Len(ops) = 0 /\ Len(built) = 0
  BY <1>1, <1>2 DEF ExecutionInv
<1>4. CASE HandLog
  <2>1. front' = "jepsen" /\ \A k, e : e \in Foreign' <=> e \in Foreign
    BY <1>2, <1>4 DEF HandLog, HandOver, Foreign, Event, Clock
  <2>2. Len(log) \div 2 + 1 \in 1..Len(log) + 1
    BY <1>3
  <2>3. CarriedInv'
    BY <1>2, <1>4, <2>1, <2>2 DEF HandLog, CarriedInv, Undamaged
  <2>4. QED
    BY <2>1, <2>3 DEF ConversionInv, TranslatedInv, BuiltInv
<1>5. CASE HandOperations
  <2>1. front' = "porcupine" /\ outcome' = "reading" /\ damage' = damage
        /\ translator' \in {"register", "kv", "nil"}
    BY <1>5 DEF HandOperations, HandOver
  <2>2. PICK tag \in Taggings, model \in {"register", "kv"} :
          /\ model = "kv" => start = NotAnInteger
          /\ input' = [k \in DOMAIN completed |->
                    [model |-> model, key |-> Key,
                     client |-> completed[k].client, type |-> completed[k].type,
                     value |-> completed[k].value, call |-> completed[k].call,
                     return |-> completed[k].return, metadata |-> tag[k]]]
    BY <1>5 DEF HandOperations
  <2>3. PICK m \in Nat : m = Len(completed) /\ DOMAIN completed = 1..m
    BY <1>1 DEF ExecutionInv
  <2>4. Len(input') = m
    BY <2>2, <2>3
  <2>5. \A k \in 1..m : /\ input'[k].model = model /\ input'[k].key = Key
                        /\ Truth(input'[k]) = Truth(completed[k])
    BY <2>2, <2>3 DEF Truth
  <2>6. TestsAre(model)'
    BY <1>1, <1>2, <2>2, <2>3, <2>4, <2>5 DEF TestsAre
  <2>7. 1..i' - 1 = {} /\ Len(ops') = i' - 1
    BY <1>1, <1>2, <1>3
  <2>8. TranslatedInv'
    BY <2>1, <2>6, <2>7 DEF TranslatedInv
  <2>9. QED
    BY <1>2, <2>1, <2>8 DEF ConversionInv, CarriedInv, BuiltInv, Undamaged
<1>6. CASE StartBuilding
  <2>1. front' = "builder" /\ outcome' = "reading" /\ damage' = damage /\ input' = completed /\ AllIntegers
    <3>1. HandOver("builder") /\ AllIntegers /\ input' = completed /\ damage' = damage
      BY <1>6 DEF StartBuilding
    <3>2. QED
      BY <3>1 DEF HandOver
  <2>2. 1..i' - 1 = {} /\ Len(ops') = i' - 1 /\ Len(built') <= Len(ops') /\ 1..Len(built') = {}
    BY <1>1, <1>2, <1>3
  <2>3. AllIntegers'
    BY <1>2, <2>1 DEF AllIntegers
  <2>4. BuiltInv'
    BY <1>2, <2>1, <2>2, <2>3 DEF BuiltInv
  <2>5. QED
    BY <1>2, <2>1, <2>4 DEF ConversionInv, CarriedInv, TranslatedInv, Undamaged
<1>7. QED
  BY <1>4, <1>5, <1>6

\* The log that is read stays what it is.
LEMMA ConversionOfLog ==
    ASSUME ConversionInv, ReadLog
    PROVE  ConversionInv'
<1>1. /\ front = "jepsen" /\ front' = "jepsen" /\ UNCHANGED <<execution, damage, input>>
  BY DEF ReadLog, Jepsen!ReadEDN, Jepsen!SkipOther, Jepsen!Invoke, Jepsen!Ok, Jepsen!Drop,
         Jepsen!Refuse, Jepsen!Finish
<1>2. log' = log
  BY <1>1 DEF execution
<1>3. CarriedInv'
  BY <1>1, <1>2 DEF ConversionInv, CarriedInv, Undamaged, Foreign, Event, Clock
<1>4. QED
  BY <1>1, <1>3 DEF ConversionInv, TranslatedInv, BuiltInv

\* One more operation is translated, or the call ends.
LEMMA ConversionOfOperations ==
    ASSUME IInv, ConversionInv, ReadOperations
    PROVE  ConversionInv'
<1>1. /\ front = "porcupine" /\ front' = "porcupine" /\ Adapter!FromOperations
      /\ UNCHANGED <<execution, start, damage, input, translator>>
      /\ outcome = "reading"
  BY DEF ReadOperations, Adapter!FromOperations, Adapter!NilTranslator, Adapter!Translate,
         Adapter!Refuse, Adapter!Sort, Adapter!arguments, Adapter!Reading
<1>2. completed' = completed /\ OperationsInv /\ TranslatedInv
  BY <1>1 DEF execution, IInv, ConversionInv
<1>3. PICK n \in Nat : n = Len(input) /\ input \in Seq(TestOps) /\ i \in 1..n + 1
                       /\ ops \in Seq(Operations) /\ DistinctIds(ops)
  BY <1>1, <1>2 DEF OperationsInv
<1>4. /\ \A k : Adapter!IdOf(k)' = Adapter!IdOf(k)
      /\ \A k : Adapter!Translated(k)' = Adapter!Translated(k)
      /\ \A k : Adapter!Translates(input[k])' <=> Adapter!Translates(input[k])
  BY <1>1 DEF Adapter!IdOf, Adapter!Translated, Adapter!Translates,
              Adapter!RegisterTranslator, Adapter!KVTranslator, Adapter!ReadOrWrite
<1>5. /\ translator \in {"register", "kv", "nil"}
      /\ \A k \in 1..i - 1 : Adapter!Translates(input[k])
      /\ \A j, k \in 1..i - 1 : Adapter!IdOf(j) = Adapter!IdOf(k) => j = k
      /\ Len(ops) = i - 1 /\ \A k \in 1..i - 1 : ops[k] = Adapter!Translated(k)
  BY <1>1, <1>2 DEF TranslatedInv
<1>6. \E model \in {"register", "kv"} : TestsAre(model)'
  <2>1. PICK model \in {"register", "kv"} : TestsAre(model)
    BY <1>1, <1>2 DEF TranslatedInv
  <2>2. TestsAre(model)'
    BY <1>1, <1>2, <2>1 DEF TestsAre, Truth
  <2>3. QED
    BY <2>2
<1>7. \A k \in 1..i - 1 : Adapter!Translated(k).id = Adapter!IdOf(k)
  BY DEF Adapter!Translated
<1>8. CASE Adapter!NilTranslator
  <2>1. translator = "nil" /\ outcome' = "error" /\ i' = i /\ ops' = ops
    BY <1>8 DEF Adapter!NilTranslator
  <2>2. TranslatedInv'
    BY <1>1, <1>4, <1>5, <1>6, <2>1 DEF TranslatedInv
  <2>3. QED
    BY <1>1, <1>2, <2>2 DEF ConversionInv, CarriedInv, BuiltInv, Undamaged
<1>9. CASE Adapter!Translate
  <2>1. /\ i \in 1..n /\ i' = i + 1 /\ outcome' = "reading"
        /\ Adapter!Translates(input[i]) /\ Adapter!IdOf(i) \notin Adapter!seen
        /\ ops' = Append(ops, Adapter!Translated(i))
    BY <1>1, <1>3, <1>9 DEF Adapter!Translate, Adapter!Reading
  <2>2. /\ DOMAIN ops = 1..i - 1 /\ Len(ops') = i /\ i' - 1 = i
        /\ ops'[i] = Adapter!Translated(i) /\ \A k \in 1..i - 1 : ops'[k] = ops[k]
    BY <1>3, <1>5, <2>1
  <2>3. \A k \in 1..i - 1 : Adapter!IdOf(k) # Adapter!IdOf(i)
    BY <1>5, <1>7, <2>1, <2>2 DEF Adapter!seen
  <2>4. \A k \in 1..i : k = i \/ k \in 1..i - 1
    BY <2>1
  <2>5. \A k \in 1..i : Adapter!Translates(input[k])
    BY <1>5, <2>1, <2>4
  <2>6. \A j, k \in 1..i : Adapter!IdOf(j) = Adapter!IdOf(k) => j = k
    BY <1>5, <2>3, <2>4
  <2>7. \A k \in 1..i : ops'[k] = Adapter!Translated(k)
    BY <1>5, <2>2, <2>4
  <2>8. TranslatedInv'
    BY <1>1, <1>4, <1>5, <1>6, <2>1, <2>2, <2>5, <2>6, <2>7 DEF TranslatedInv
  <2>9. QED
    BY <1>1, <1>2, <2>8 DEF ConversionInv, CarriedInv, BuiltInv, Undamaged
<1>10. CASE Adapter!Refuse
  <2>1. /\ i \in 1..n /\ i' = i /\ outcome' = "error" /\ ops' = ops
        /\ ~Adapter!Translates(input[i]) \/ Adapter!IdOf(i) \in Adapter!seen
    BY <1>3, <1>10 DEF Adapter!Refuse, Adapter!Reading
  <2>2. Adapter!IdOf(i) \in Adapter!seen => \E k \in 1..i - 1 : Adapter!IdOf(k) = Adapter!IdOf(i)
    <3>1. DOMAIN ops = 1..i - 1
      BY <1>3, <1>5
    <3>2. QED
      BY <1>5, <1>7, <3>1 DEF Adapter!seen
  <2>3. TranslatedInv'
    BY <1>1, <1>3, <1>4, <1>5, <1>6, <2>1, <2>2 DEF TranslatedInv
  <2>4. QED
    BY <1>1, <1>2, <2>3 DEF ConversionInv, CarriedInv, BuiltInv, Undamaged
<1>11. CASE Adapter!Sort
  <2>1. /\ i = n + 1 /\ i - 1 = n /\ i' = i /\ outcome' = "history" /\ translator # "nil"
        /\ ops' = Adapter!SortedByCall(ops)
    BY <1>3, <1>11 DEF Adapter!Sort
  <2>2. Adapter!SortedByCall(ops) = SortedByCalls(ops)
    BY SameSort
  <2>3. \A op \in Operations : op.call \in Nat
    BY DEF Operations
  <2>4. ops' \in Seq(Operations) /\ SortedSoFar(ops, Len(ops), ops')
    BY <1>3, <2>1, <2>2, <2>3, SortSorts
  <2>5. /\ Len(ops') = n /\ InOrder(ops')
        /\ \A k \in 1..n : \E j \in 1..n : ops'[k] = ops[j]
        /\ \A j \in 1..n : \E k \in 1..n : ops'[k] = ops[j]
    BY <1>5, <2>1, <2>4 DEF SortedSoFar
  <2>6. /\ \A k \in 1..n : \E j \in 1..n : ops'[k] = Adapter!Translated(j)
        /\ \A j \in 1..n : \E k \in 1..n : ops'[k] = Adapter!Translated(j)
    <3>1. \A j \in 1..n : ops[j] = Adapter!Translated(j)
      BY <1>5, <2>1
    <3>2. \A k \in 1..n : \E j \in 1..n : ops'[k] = Adapter!Translated(j)
      <4>1. SUFFICES ASSUME NEW k \in 1..n
                     PROVE  \E j \in 1..n : ops'[k] = Adapter!Translated(j)
        OBVIOUS
      <4>2. PICK j \in 1..n : ops'[k] = ops[j]
        BY <2>5
      <4>3. ops'[k] = Adapter!Translated(j)
        BY <3>1, <4>2
      <4>4. QED
        BY <4>3
    <3>3. \A j \in 1..n : \E k \in 1..n : ops'[k] = Adapter!Translated(j)
      <4>1. SUFFICES ASSUME NEW j \in 1..n
                     PROVE  \E k \in 1..n : ops'[k] = Adapter!Translated(j)
        OBVIOUS
      <4>2. PICK k \in 1..n : ops'[k] = ops[j]
        BY <2>5
      <4>3. ops'[k] = Adapter!Translated(j)
        BY <3>1, <4>2
      <4>4. QED
        BY <4>3
    <3>4. QED
      BY <3>2, <3>3
  <2>7. InOrder(ops)' /\ Len(input') = n
    BY <1>1, <1>3, <2>5 DEF InOrder
  <2>8. /\ i' = Len(input') + 1 /\ translator' # "nil"
        /\ Len(ops') = Len(input')
        /\ \A k \in 1..Len(input') : \E j \in 1..Len(input') : ops'[k] = Adapter!Translated(j)'
        /\ \A j \in 1..Len(input') : \E k \in 1..Len(input') : ops'[k] = Adapter!Translated(j)'
    <3>1. Len(input') = n /\ i' = n + 1 /\ translator' # "nil" /\ Len(ops') = n
      BY <1>1, <2>1, <2>5, <2>7
    <3>2. \A j : Adapter!Translated(j)' = Adapter!Translated(j)
      BY <1>4
    <3>3. QED
      BY <2>6, <3>1, <3>2
  <2>10. /\ \A k \in 1..i' - 1 : Adapter!Translates(input[k])'
         /\ \A j, k \in 1..i' - 1 : Adapter!IdOf(j)' = Adapter!IdOf(k)' => j = k
    BY <1>4, <1>5, <2>1
  <2>11. TranslatedInv'
    BY <1>1, <1>5, <1>6, <2>1, <2>7, <2>8, <2>10 DEF TranslatedInv
  <2>9. QED
    BY <1>1, <1>2, <2>11 DEF ConversionInv, CarriedInv, BuiltInv, Undamaged
<1>12. QED
  BY <1>1, <1>8, <1>9, <1>10, <1>11 DEF Adapter!FromOperations

\* The builder takes one more operation, or builds.
LEMMA ConversionOfCalls ==
    ASSUME IInv, ConversionInv, BuilderInit \/ BuilderAdd \/ BuilderBuild
    PROVE  ConversionInv'
<1>1. /\ front = "builder" /\ front' = "builder" /\ outcome = "reading"
      /\ UNCHANGED <<execution, start, damage, input>>
  BY DEF BuilderInit, BuilderAdd, BuilderBuild, Building
<1>2. completed' = completed /\ BuilderInv /\ BuiltInv
  BY <1>1 DEF execution, IInv, ConversionInv
<1>3. PICK n \in Nat : n = Len(input) /\ input \in Seq(Returned) /\ i \in 1..n + 1
  BY <1>1, <1>2 DEF BuilderInv
<1>4. /\ input = completed /\ AllIntegers
      /\ Len(ops) = i - 1 /\ \A k \in 1..i - 1 : Truth(ops[k]) = Truth(completed[k])
      /\ Len(built) <= Len(ops) /\ \A k \in 1..Len(built) : built[k] = ops[k]
  BY <1>1, <1>2 DEF BuiltInv
<1>5. AllIntegers' /\ input' = completed'
  BY <1>1, <1>2, <1>4 DEF AllIntegers
<1>6. BuiltInv'
  <2>1. CASE BuilderInit
    <3>1. UNCHANGED <<i, ops, built, outcome>>
      BY <2>1 DEF BuilderInit, Test!SetInit
    <3>2. QED
      BY <1>1, <1>2, <1>4, <1>5, <3>1 DEF BuiltInv, Truth
  <2>2. CASE BuilderBuild
    <3>1. /\ built' = ops /\ ops' = ops /\ i' = i
          /\ outcome' = IF i > Len(input) THEN "history" ELSE "reading"
      BY <1>1, <2>2 DEF BuilderBuild, Test!Build
    <3>2. outcome' = "history" => i = n + 1 /\ Len(ops) = n
      BY <1>3, <1>4, <3>1
    <3>3. Len(ops) <= Len(ops) /\ outcome' # "error"
      BY <1>3, <1>4, <3>1
    <3>4. QED
      BY <1>1, <1>2, <1>3, <1>4, <1>5, <3>1, <3>2, <3>3 DEF BuiltInv, Truth
  <2>3. CASE BuilderAdd
    <3>1. /\ i \in 1..n /\ i' = i + 1 /\ outcome' = "reading" /\ built' = built
          /\ ops' = Append(ops, Added)
      <4>1. i <= Len(input) /\ i' = i + 1 /\ outcome' = outcome
        BY <2>3 DEF BuilderAdd
      <4>2. QED
        BY <1>1, <1>3, <2>3, <4>1, BuilderAppends
    <3>2. Truth(Added) = Truth(input[i])
      BY DEF Added, Truth
    <3>3. ops \in Seq(Operations) /\ built \in Seq(Operations)
      BY <1>1, <1>2 DEF BuilderInv, Numbered
    <3>4. /\ Len(ops') = i /\ i' - 1 = i
          /\ ops'[i] = Added /\ \A k \in 1..i - 1 : ops'[k] = ops[k]
      BY <1>4, <3>1, <3>3
    <3>5. \A k \in 1..i : Truth(ops'[k]) = Truth(completed[k])
      <4>1. \A k \in 1..i : k = i \/ k \in 1..i - 1
        BY <3>1
      <4>2. Truth(ops'[i]) = Truth(completed[i])
        BY <1>4, <3>2, <3>4
      <4>3. \A k \in 1..i - 1 : Truth(ops'[k]) = Truth(completed[k])
        BY <1>4, <3>4
      <4>4. QED
        BY <4>1, <4>2, <4>3
    <3>6. Len(built) \in Nat
      BY <3>3
    <3>7. Len(built') <= Len(ops') /\ \A k \in 1..Len(built) : built'[k] = ops'[k]
      BY <1>4, <3>1, <3>4, <3>6
    <3>8. QED
      BY <1>1, <1>2, <1>5, <3>1, <3>4, <3>5, <3>7 DEF BuiltInv, Truth
  <2>4. QED
    BY <2>1, <2>2, <2>3
<1>7. CarriedInv' /\ TranslatedInv'
  BY <1>1 DEF ConversionInv, CarriedInv, TranslatedInv, Undamaged
<1>8. QED
  BY <1>6, <1>7 DEF ConversionInv

LEMMA ConversionKept ==
    ASSUME IInv, ConversionInv, [Next]_vars
    PROVE  ConversionInv'
<1>1. CASE UNCHANGED vars
  <2>1. UNCHANGED <<register, doing, log, completed, start, damage, front, input, translator,
                    i, pending, nextID, ops, outcome, init, built>>
    BY <1>1 DEF vars, execution, conversion
  <2>2. CarriedInv'
    BY <2>1 DEF ConversionInv, CarriedInv, Undamaged, Foreign, Event, Clock
  <2>3. TranslatedInv'
    <3>1. /\ \A k : Adapter!IdOf(k)' = Adapter!IdOf(k)
          /\ \A k : Adapter!Translated(k)' = Adapter!Translated(k)
          /\ \A k : Adapter!Translates(input[k])' <=> Adapter!Translates(input[k])
      BY <2>1 DEF Adapter!IdOf, Adapter!Translated, Adapter!Translates,
                  Adapter!RegisterTranslator, Adapter!KVTranslator, Adapter!ReadOrWrite
    <3>2. \A model : TestsAre(model)' <=> TestsAre(model)
      BY <2>1 DEF TestsAre, Truth
    <3>3. InOrder(ops)' <=> InOrder(ops)
      BY <2>1 DEF InOrder
    <3>4. QED
      BY <2>1, <3>1, <3>2, <3>3 DEF ConversionInv, TranslatedInv
  <2>4. BuiltInv'
    BY <2>1 DEF ConversionInv, BuiltInv, AllIntegers, Truth
  <2>5. QED
    BY <2>2, <2>3, <2>4 DEF ConversionInv
<1>2. CASE Execute
  <2>1. front = "none" /\ front' = "none" /\ damage' = damage
    BY <1>2 DEF Execute, Running
  <2>2. QED
    BY <2>1 DEF ConversionInv, CarriedInv, TranslatedInv, BuiltInv, Undamaged
<1>3. QED
  BY <1>1, <1>2, ConversionStarts, ConversionOfLog, ConversionOfOperations, ConversionOfCalls
     DEF Next, Convert

-----------------------------------------------------------------------------
(* A log and what is left of it *)

\* Entry k is event a of the log, but for the time that it may have lost.
SameEvent(k, a) ==
    /\ input[k].type = log[a].type /\ input[k].process = log[a].process
    /\ input[k].f = log[a].f /\ input[k].value = log[a].value
    /\ \/ input[k].time = log[a].time
       \/ Damaged("untimed") /\ damage.at = a /\ input[k].time = NotAnInteger

\* at says which events the entries in own are, all of the log but one that is lost; there
\* is one other entry at most.
Carried(at, own) ==
    /\ own \in SUBSET (1..Len(input)) /\ at \in [own -> 1..Len(log)]
    /\ \A j, k \in own : j < k => at[j] < at[k]
    /\ \A a \in 1..Len(log) : (\E k \in own : at[k] = a) \/ (Damaged("lost") /\ damage.at = a)
    /\ Damaged("lost") => damage.at \in 1..Len(log) /\ \A k \in own : at[k] # damage.at
    /\ \A k \in own : SameEvent(k, at[k])
    /\ Damaged("untimed") =>
        damage.at \in own /\ at[damage.at] = damage.at /\ input[damage.at].time = NotAnInteger
    /\ \A k \in 1..Len(input) : k \in own \/ (Damaged("foreign") /\ damage.at = k)
    /\ Damaged("foreign") =>
        damage.at \in 1..Len(input) /\ damage.at \notin own /\ input[damage.at] \in Foreign

LEMMA LogIsCarried ==
    ASSUME IInv, ConversionInv, front = "jepsen"
    PROVE  \E at, own : Carried(at, own)
<1>1. PICK n \in Nat : n = Len(log) /\ log \in Seq(Events) /\ DOMAIN log = 1..n
  BY DEF IInv, ExecutionInv
<1>2. CASE damage = Undamaged /\ input = log
  <2> DEFINE at == [k \in 1..n |-> k]
  <2>1. ~Damaged("lost") /\ ~Damaged("untimed") /\ ~Damaged("foreign")
    BY <1>2 DEF Damaged, Undamaged
  <2>2. at \in [1..n -> 1..n] /\ \A k \in 1..n : at[k] = k
    OBVIOUS
  <2>3. Len(input) = n /\ \A k \in 1..n : SameEvent(k, k)
    BY <1>1, <1>2 DEF SameEvent
  <2> HIDE DEF at
  <2>4. Carried(at, 1..n)
    BY <1>1, <2>1, <2>2, <2>3 DEF Carried
  <2>5. QED
    BY <2>4
<1>3. ASSUME NEW d \in DOMAIN log, damage = [kind |-> "lost", at |-> d], input = RemoveAt(log, d)
      PROVE  \E at, own : Carried(at, own)
  <2> DEFINE at == [k \in 1..n - 1 |-> IF k < d THEN k ELSE k + 1]
  <2>1. d \in 1..n /\ damage.at = d
        /\ Damaged("lost") /\ ~Damaged("untimed") /\ ~Damaged("foreign")
    BY <1>1, <1>3 DEF Damaged
  <2>2. /\ Len(input) = n - 1
        /\ \A j \in 1..d - 1 : input[j] = log[j]
        /\ \A j \in d..n - 1 : input[j] = log[j + 1]
    BY <1>1, <1>3, <2>1, RemoveAtRemoves
  <2>3. /\ at \in [1..n - 1 -> 1..n]
        /\ \A k \in 1..n - 1 : (k < d /\ at[k] = k) \/ (d <= k /\ at[k] = k + 1)
    BY <2>1
  <2> HIDE DEF at
  <2>4. \A k \in 1..n - 1 : SameEvent(k, at[k])
    <3>1. ASSUME NEW k \in 1..n - 1
          PROVE  input[k] = log[at[k]]
      <4>1. CASE k < d /\ at[k] = k
        <5>1. k \in 1..d - 1
          BY <2>1, <4>1
        <5>2. QED
          BY <2>2, <4>1, <5>1
      <4>2. CASE d <= k /\ at[k] = k + 1
        BY <2>1, <2>2, <4>2
      <4>3. QED
        BY <2>3, <4>1, <4>2
    <3>2. QED
      BY <3>1 DEF SameEvent
  <2>5. ASSUME NEW a \in 1..n, a # d
        PROVE  \E k \in 1..n - 1 : at[k] = a
    <3>1. CASE a < d
      <4>1. a \in 1..n - 1 /\ at[a] = a
        BY <2>1, <2>3, <3>1
      <4>2. QED
        BY <4>1
    <3>2. CASE d < a
      <4>1. a - 1 \in 1..n - 1 /\ at[a - 1] = a
        BY <2>1, <2>3, <3>2
      <4>2. QED
        BY <4>1
    <3>3. QED
      BY <2>1, <2>5, <3>1, <3>2
  <2>6. \A k \in 1..n - 1 : at[k] # d
    BY <2>1, <2>3
  <2>7. \A j, k \in 1..n - 1 : j < k => at[j] < at[k]
    BY <2>1, <2>3
  <2>8. Carried(at, 1..n - 1)
    BY <1>1, <2>1, <2>2, <2>3, <2>4, <2>5, <2>6, <2>7 DEF Carried
  <2>9. QED
    BY <2>8
<1>4. ASSUME NEW d \in DOMAIN log, damage = [kind |-> "untimed", at |-> d],
             input = [log EXCEPT ![d].time = NotAnInteger]
      PROVE  \E at, own : Carried(at, own)
  <2> DEFINE at == [k \in 1..n |-> k]
             e == [log[d] EXCEPT !.time = NotAnInteger]
  <2>1. d \in 1..n /\ damage.at = d
        /\ Damaged("untimed") /\ ~Damaged("lost") /\ ~Damaged("foreign")
    BY <1>1, <1>4 DEF Damaged
  <2>2. at \in [1..n -> 1..n] /\ \A k \in 1..n : at[k] = k
    OBVIOUS
  <2>3. log[d] \in Events
    BY <1>1, <2>1
  <2>4. /\ e.type = log[d].type /\ e.process = log[d].process /\ e.f = log[d].f
        /\ e.value = log[d].value /\ e.time = NotAnInteger
    BY <2>3 DEF Events
  <2>5. input = [log EXCEPT ![d] = e]
    BY <1>4
  <2> HIDE DEF at, e
  <2>6. Len(input) = n /\ input[d] = e /\ \A k \in 1..n : k # d => input[k] = log[k]
    BY <1>1, <2>1, <2>5
  <2>7. \A k \in 1..n : SameEvent(k, k)
    <3>1. SameEvent(d, d)
      BY <2>1, <2>4, <2>6 DEF SameEvent
    <3>2. \A k \in 1..n : k # d => SameEvent(k, k)
      BY <2>6 DEF SameEvent
    <3>3. QED
      BY <3>1, <3>2
  <2>8. Carried(at, 1..n)
    BY <1>1, <2>1, <2>2, <2>4, <2>6, <2>7 DEF Carried
  <2>9. QED
    BY <2>8
<1>5. ASSUME NEW d \in 1..Len(log) + 1, NEW e \in Foreign,
             damage = [kind |-> "foreign", at |-> d], input = InsertAt(log, d, e)
      PROVE  \E at, own : Carried(at, own)
  <2> DEFINE own == (1..n + 1) \ {d}
             at == [k \in own |-> IF k < d THEN k ELSE k - 1]
  <2>1. d \in 1..n + 1 /\ damage.at = d
        /\ Damaged("foreign") /\ ~Damaged("lost") /\ ~Damaged("untimed")
    BY <1>1, <1>5 DEF Damaged
  <2>2. e \in Events
    <3>1. Clock \in Nat
      BY <1>1, TimeGoesOn DEF Clock
    <3>2. MaxOps \in Nat
      BY ExecutionAssumption
    <3>3. QED
      BY <3>1, <3>2 DEF Foreign, Event, Events, NotAnInteger
  <2>3. IsInsertion(log, e, d, input)
    BY <1>1, <1>5, <2>1, <2>2, InsertAtInserts
  <2>4. /\ Len(input) = n + 1 /\ input[d] = e
        /\ \A j \in 1..d - 1 : input[j] = log[j]
        /\ \A j \in d + 1..n + 1 : input[j] = log[j - 1]
    BY <1>1, <2>3 DEF IsInsertion
  <2>5. /\ own \in SUBSET (1..n + 1)
        /\ at \in [own -> 1..n]
        /\ \A k \in own : (k < d /\ at[k] = k) \/ (d < k /\ at[k] = k - 1)
    BY <2>1
  <2>6. /\ \A k \in 1..n + 1 : k \in own \/ d = k
        /\ d \notin own
    OBVIOUS
  <2> HIDE DEF own, at
  <2>7. \A k \in own : SameEvent(k, at[k])
    <3>1. ASSUME NEW k \in own
          PROVE  input[k] = log[at[k]]
      <4>1. CASE k < d /\ at[k] = k
        BY <2>4, <2>5, <4>1
      <4>2. CASE d < k /\ at[k] = k - 1
        BY <2>1, <2>4, <2>5, <4>2
      <4>3. QED
        BY <2>5, <4>1, <4>2
    <3>2. QED
      BY <3>1 DEF SameEvent
  <2>8. ASSUME NEW a \in 1..n
        PROVE  \E k \in own : at[k] = a
    <3>1. CASE a < d
      <4>1. a \in own /\ at[a] = a
        BY <2>1, <2>5, <2>6, <3>1
      <4>2. QED
        BY <4>1
    <3>2. CASE d <= a
      <4>1. a + 1 \in own /\ at[a + 1] = a
        BY <2>1, <2>5, <2>6, <3>2
      <4>2. QED
        BY <4>1
    <3>3. QED
      BY <2>1, <3>1, <3>2
  <2>9. \A j, k \in own : j < k => at[j] < at[k]
    BY <2>1, <2>5
  <2>10. Carried(at, own)
    BY <1>1, <1>5, <2>1, <2>4, <2>5, <2>6, <2>7, <2>8, <2>9 DEF Carried
  <2>11. QED
    BY <2>10
<1>6. CarriedInv
  BY DEF ConversionInv
<1>7. QED
  BY <1>2, <1>3, <1>4, <1>5, <1>6 DEF CarriedInv

\* An event is ended once, and ends one.
LEMMA OnePair ==
    ASSUME NEW s, NEW a \in Int, NEW c \in Int, NEW b \in Int, PairIn(s, a, b), PairIn(s, c, b)
    PROVE  a = c
<1>1. ~(a < c) /\ ~(c < a)
  BY DEF PairIn
<1>2. QED
  BY <1>1

\* What are the halves of one operation in the input are so in the log: if an event is
\* lost in between, a process would have called twice in a row.
LEMMA PairOfLog ==
    ASSUME TruthInv, NEW at, NEW own, Carried(at, own), Len(log) \in Nat, DOMAIN log = 1..Len(log),
           NEW a \in own, NEW b \in own, PairIn(input, a, b)
    PROVE  PairIn(log, at[a], at[b])
<1>1. a \in Int /\ b \in Int /\ at[a] \in 1..Len(log) /\ at[b] \in 1..Len(log)
      /\ at[a] < at[b]
  BY DEF Carried, PairIn
<1>2. SameEvent(a, at[a]) /\ SameEvent(b, at[b])
  BY DEF Carried
<1>3. /\ log[at[a]].type = "invoke" /\ log[at[b]].type = "ok"
      /\ log[at[a]].process = log[at[b]].process
  BY <1>2 DEF SameEvent, PairIn
<1>4. ASSUME NEW x \in at[a] + 1..at[b] - 1, log[x].process = log[at[a]].process
      PROVE  Damaged("lost") /\ damage.at = x
  <2>1. x \in 1..Len(log)
    BY <1>1
  <2>2. SUFFICES ASSUME NEW k \in own, at[k] = x
                 PROVE  FALSE
    BY <2>1 DEF Carried
  <2>3. k \in Int
    BY DEF Carried
  <2>4. k \in a + 1..b - 1
    <3>1. ~(k = a) /\ ~(k = b)
      BY <1>1, <1>4, <2>2
    <3>2. ~(k < a) /\ ~(b < k)
      BY <1>1, <1>4, <2>2 DEF Carried
    <3>3. QED
      BY <1>1, <2>3, <3>1, <3>2
  <2>5. input[k].process # input[a].process
    BY <2>4 DEF PairIn
  <2>6. SameEvent(k, x)
    BY <2>2 DEF Carried
  <2>7. QED
    BY <1>2, <1>4, <2>5, <2>6 DEF SameEvent
<1>5. ASSUME NEW x \in at[a] + 1..at[b] - 1, log[x].process = log[at[a]].process
      PROVE  FALSE
  <2>1. x \in 1..Len(log)
    BY <1>1
  <2>2. \A y \in at[a] + 1..at[b] - 1 : y # x => log[y].process # log[at[a]].process
    BY <1>4, <1>5
  <2>3. PICK c \in 1..Len(log) : PairIn(log, c, at[b])
    <3>1. PICK f : CompletedAt(f)
      BY DEF TruthInv, Completing
    <3>2. at[b] \in OkAt
      BY <1>1, <1>3 DEF OkAt
    <3>3. PICK k \in 1..Len(completed) : f[k] = at[b]
      BY <3>1, <3>2 DEF CompletedAt, Enumerates
    <3>4. QED
      BY <3>1, <3>3 DEF CompletedAt
  <2>4. log[c].process = log[at[a]].process /\ log[c].type = "invoke" /\ c < at[b]
    BY <1>3, <2>3 DEF PairIn
  <2>5. ~(c < x)
    <3>1. SUFFICES ASSUME c < x
                   PROVE  FALSE
      OBVIOUS
    <3>2. x \in c + 1..at[b] - 1
      BY <1>1, <3>1
    <3>3. QED
      BY <1>5, <2>3, <2>4, <3>2 DEF PairIn
  <2>6. c = x
    <3>1. c \in at[a] + 1..at[b] - 1
      BY <1>1, <2>1, <2>4, <2>5
    <3>2. QED
      BY <2>2, <2>4, <3>1
  <2>7. \A k \in at[a] + 1..x - 1 : log[k].process # log[at[a]].process
    BY <1>1, <2>2
  <2>8. at[a] < x /\ log[x].type = "invoke"
    BY <1>1, <2>4, <2>6
  <2>9. Alternation
    BY DEF TruthInv
  <2>10. QED
    BY <1>1, <1>3, <1>5, <2>1, <2>7, <2>8, <2>9 DEF Alternation
<1>6. QED
  BY <1>1, <1>3, <1>5 DEF PairIn

\* The :oks that were not lost.
Rest == {x \in OkAt : ~(Damaged("lost") /\ damage.at = x)}

\* g says of each operation that is kept which :ok is its.
KeptAt(g) ==
    /\ Enumerates(g, Len(Kept), Rest)
    /\ \A k \in 1..Len(Kept) :
        /\ \E a \in 1..Len(log) : PairIn(log, a, g[k]) /\ Describes(Kept[k], log[a], log[g[k]])
        /\ \E j \in 1..Len(completed) : Kept[k] = completed[j]

LEMMA KeptIsListed ==
    ASSUME ExecutionInv, TruthInv, Damaged("lost") => damage.at \in 1..Len(log)
    PROVE  Kept \in Seq(Returned) /\ \E g : KeptAt(g)
<1>1. PICK m \in Nat : m = Len(completed) /\ completed \in Seq(Returned) /\ DOMAIN completed = 1..m
  BY DEF ExecutionInv
<1>2. PICK n \in Nat : n = Len(log) /\ DOMAIN log = 1..n
  BY DEF ExecutionInv
<1>3. PICK f : CompletedAt(f)
  BY DEF TruthInv, Completing
<1>4. /\ Enumerates(f, m, OkAt)
      /\ f \in [1..m -> OkAt]
      /\ \A j, k \in 1..m : j < k => f[j] < f[k]
      /\ \A x \in OkAt : \E k \in 1..m : f[k] = x
      /\ \A k \in 1..m : \E a \in 1..n : PairIn(log, a, f[k]) /\ Describes(completed[k], log[a], log[f[k]])
  BY <1>1, <1>2, <1>3 DEF CompletedAt, Enumerates
<1>5. OkAt \subseteq 1..n
  BY <1>2 DEF OkAt
<1>6. CASE ~(Damaged("lost") /\ log[damage.at].type = "ok")
  <2>1. Kept = completed
    BY <1>6 DEF Kept
  <2>2. Rest = OkAt
    BY <1>6 DEF Rest, OkAt
  <2>3. KeptAt(f)
    BY <1>1, <1>2, <1>4, <2>1, <2>2 DEF KeptAt
  <2>4. QED
    BY <1>1, <2>1, <2>3
<1>7. CASE Damaged("lost") /\ log[damage.at].type = "ok"
  <2>1. PICK d \in 1..n : d = damage.at
    BY <1>2, <1>7
  <2>2. d \in OkAt /\ Rest = OkAt \ {d}
    BY <1>2, <1>7, <2>1 DEF Rest, OkAt
  <2>3. PICK r \in 1..m : f[r] = d
    BY <1>4, <2>2
  <2>4. Cardinality({x \in OkAt : x <= f[r]}) = r
    BY <1>1, <1>4, <1>5, CountUpTo
  <2>5. {x \in OkAt : x <= f[r]} = {k \in 1..d : log[k].type = "ok"}
    BY <1>2, <2>1, <2>3 DEF OkAt
  <2>6. Kept = RemoveAt(completed, r)
    BY <1>7, <2>1, <2>4, <2>5 DEF Kept
  <2>7. /\ Kept \in Seq(Returned) /\ Len(Kept) = m - 1
        /\ \A j \in 1..r - 1 : Kept[j] = completed[j]
        /\ \A j \in r..m - 1 : Kept[j] = completed[j + 1]
    BY <1>1, <2>3, <2>6, RemoveAtRemoves
  <2> DEFINE at == [k \in 1..m - 1 |-> IF k < r THEN k ELSE k + 1]
  <2>8. /\ at \in [1..m - 1 -> 1..m]
        /\ \A k \in 1..m - 1 : (k < r /\ at[k] = k) \/ (r <= k /\ at[k] = k + 1)
    BY <1>1, <2>3
  <2> HIDE DEF at
  <2>9. ASSUME NEW k \in 1..m - 1
        PROVE  Kept[k] = completed[at[k]]
    <3>1. CASE k < r /\ at[k] = k
      <4>1. k \in 1..r - 1
        BY <2>3, <3>1
      <4>2. QED
        BY <2>7, <3>1, <4>1
    <3>2. CASE r <= k /\ at[k] = k + 1
      <4>1. k \in r..m - 1
        BY <2>3, <3>2
      <4>2. QED
        BY <2>7, <3>2, <4>1
    <3>3. QED
      BY <2>8, <3>1, <3>2
  <2>10. /\ \A j, k \in 1..m - 1 : j < k => at[j] < at[k]
         /\ \A k \in 1..m - 1 : at[k] # r
         /\ \A j \in 1..m : j # r => \E k \in 1..m - 1 : at[k] = j
    <3>1. \A j, k \in 1..m - 1 : j < k => at[j] < at[k]
      BY <2>3, <2>8
    <3>2. \A k \in 1..m - 1 : at[k] # r
      BY <2>3, <2>8
    <3>3. ASSUME NEW j \in 1..m, j # r
          PROVE  \E k \in 1..m - 1 : at[k] = j
      <4>1. CASE j < r
        <5>1. j \in 1..m - 1 /\ at[j] = j
          BY <2>3, <2>8, <4>1
        <5>2. QED
          BY <5>1
      <4>2. CASE r < j
        <5>1. j - 1 \in 1..m - 1 /\ at[j - 1] = j
          BY <2>3, <2>8, <4>2
        <5>2. QED
          BY <5>1
      <4>3. QED
        BY <2>3, <3>3, <4>1, <4>2
    <3>4. QED
      BY <3>1, <3>2, <3>3
  <2> DEFINE g == [k \in 1..m - 1 |-> f[at[k]]]
  <2>11. \A k \in 1..m - 1 : g[k] = f[at[k]] /\ at[k] \in 1..m
    BY <2>8
  <2>12. g \in [1..m - 1 -> Rest]
    <3>1. ASSUME NEW k \in 1..m - 1
          PROVE  f[at[k]] \in Rest
      <4>1. at[k] \in 1..m /\ at[k] # r
        BY <2>8, <2>10
      <4>2. f[at[k]] # f[r]
        <5>1. at[k] < r \/ r < at[k]
          BY <2>3, <4>1
        <5>2. f[at[k]] \in OkAt /\ f[r] \in OkAt
          BY <1>4, <2>3, <4>1
        <5>3. f[at[k]] \in Int /\ f[r] \in Int
          <6>1. \A x \in OkAt : x \in Int
            BY <1>2, <1>5
          <6>2. QED
            BY <5>2, <6>1
        <5>4. CASE at[k] < r
          <6>1. f[at[k]] < f[r]
            BY <1>4, <2>3, <4>1, <5>4
          <6>2. QED
            BY <5>3, <6>1
        <5>5. CASE r < at[k]
          <6>1. f[r] < f[at[k]]
            BY <1>4, <2>3, <4>1, <5>5
          <6>2. QED
            BY <5>3, <6>1
        <5>6. QED
          BY <5>1, <5>4, <5>5
      <4>3. QED
        BY <1>4, <2>2, <2>3, <4>1, <4>2
    <3>2. QED
      BY <3>1
  <2> HIDE DEF g
  <2>13. \A j, k \in 1..m - 1 : j < k => g[j] < g[k]
    BY <1>4, <2>8, <2>10, <2>11
  <2>14. \A x \in Rest : \E k \in 1..m - 1 : g[k] = x
    <3>1. SUFFICES ASSUME NEW x \in Rest
                   PROVE  \E k \in 1..m - 1 : g[k] = x
      OBVIOUS
    <3>2. PICK j \in 1..m : f[j] = x
      BY <1>4, <2>2
    <3>3. j # r
      BY <2>2, <2>3, <3>2
    <3>4. PICK k \in 1..m - 1 : at[k] = j
      BY <2>10, <3>3
    <3>5. QED
      BY <2>11, <3>2, <3>4
  <2>15. Enumerates(g, Len(Kept), Rest)
    BY <2>7, <2>12, <2>13, <2>14 DEF Enumerates
  <2>16. ASSUME NEW k \in 1..m - 1
         PROVE  /\ \E a \in 1..n : PairIn(log, a, g[k]) /\ Describes(Kept[k], log[a], log[g[k]])
                /\ \E j \in 1..m : Kept[k] = completed[j]
    <3>1. PICK a \in 1..n :
            PairIn(log, a, f[at[k]]) /\ Describes(completed[at[k]], log[a], log[f[at[k]]])
      BY <1>4, <2>11
    <3>2. g[k] = f[at[k]] /\ Kept[k] = completed[at[k]] /\ at[k] \in 1..m
      BY <2>9, <2>11
    <3>3. QED
      BY <3>1, <3>2
  <2>17. KeptAt(g)
    BY <1>1, <1>2, <2>7, <2>15, <2>16 DEF KeptAt
  <2>18. QED
    BY <2>7, <2>17
<1>8. QED
  BY <1>6, <1>7

LEMMA TruthOfReturned == \A d \in Returned : Truth(d) = d
BY DEF Truth, Returned

\* An event of the log is not of those that a foreign entry is.
LEMMA OwnEntry ==
    ASSUME NEW at, NEW own, Carried(at, own), NEW k \in 1..Len(input),
           input[k].type \in {"invoke", "ok"}
    PROVE  k \in own
<1>1. \A e \in Foreign : e.type \notin {"invoke", "ok"}
  BY DEF Foreign, Event
<1>2. QED
  BY <1>1 DEF Carried

\* What has been read of a log, operation by operation.
LEMMA OperationsAreOfLog ==
    ASSUME IInv, TruthInv, front = "jepsen", outcome = "history",
           NEW at, NEW own, Carried(at, own)
    PROVE  \E h : /\ Enumerates(h, Len(ops), Rest)
                  /\ \A k \in 1..Len(ops) : \E a, b \in own :
                        /\ h[k] = at[b]
                        /\ PairIn(input, a, b) /\ PairIn(log, at[a], at[b])
                        /\ ops[k] = JP!buildOp(k - 1, input[a], input[b])
<1>1. PICK n \in Nat : n = Len(log) /\ DOMAIN log = 1..n
  BY DEF IInv, ExecutionInv
<1>2. JP!IInv(Events)
  BY DEF IInv, LogInv
<1>3. PICK l \in Nat : l = Len(ops) /\ DOMAIN ops = 1..l
  BY <1>2 DEF JP!IInv
<1>4. i = Len(input) + 1 /\ Len(input) \in Nat
  BY <1>2 DEF JP!IInv, JP!ReadSoFar
<1>5. PICK f \in [DOMAIN ops -> JP!OkEvents] : JP!Pairs(f)
  BY <1>2 DEF JP!IInv, JP!OpsArePairs
<1>6. \A b : b \in JP!OkEvents <=>
              b \in 1..Len(input) /\ input[b].process # NotAnInteger /\ input[b].type = "ok"
  BY <1>4 DEF JP!OkEvents, JP!OfClient
<1>7. \A b \in JP!OkEvents : b \in own /\ at[b] \in 1..n /\ log[at[b]].type = "ok"
  <2>1. SUFFICES ASSUME NEW b \in JP!OkEvents
                 PROVE  b \in own /\ at[b] \in 1..n /\ log[at[b]].type = "ok"
    OBVIOUS
  <2>2. b \in own
    BY <1>6, OwnEntry
  <2>3. SameEvent(b, at[b]) /\ at[b] \in 1..n
    BY <1>1, <2>2 DEF Carried
  <2>4. QED
    BY <1>6, <2>2, <2>3 DEF SameEvent
<1> DEFINE h == [k \in 1..l |-> at[f[k]]]
<1>8. \A k \in 1..l : h[k] = at[f[k]] /\ f[k] \in JP!OkEvents
  BY <1>3, <1>5
<1>9. h \in [1..l -> Rest]
  <2>1. ASSUME NEW k \in 1..l
        PROVE  at[f[k]] \in Rest
    <3>1. f[k] \in own /\ at[f[k]] \in 1..n /\ log[at[f[k]]].type = "ok"
      BY <1>7, <1>8
    <3>2. Damaged("lost") => at[f[k]] # damage.at
      BY <3>1 DEF Carried
    <3>3. QED
      BY <1>1, <3>1, <3>2 DEF Rest, OkAt
  <2>2. QED
    BY <2>1
<1> HIDE DEF h
<1>10. \A j, k \in 1..l : j < k => h[j] < h[k]
  <2>1. SUFFICES ASSUME NEW j \in 1..l, NEW k \in 1..l, j < k
                 PROVE  at[f[j]] < at[f[k]]
    BY <1>8
  <2>2. f[j] < f[k]
    BY <1>3, <1>5, <2>1 DEF JP!Pairs
  <2>3. f[j] \in own /\ f[k] \in own
    BY <1>7, <1>8
  <2>4. QED
    BY <2>2, <2>3 DEF Carried
<1>11. \A x \in Rest : \E k \in 1..l : h[k] = x
  <2>1. SUFFICES ASSUME NEW x \in Rest
                 PROVE  \E k \in 1..l : h[k] = x
    OBVIOUS
  <2>2. x \in 1..n /\ log[x].type = "ok" /\ ~(Damaged("lost") /\ damage.at = x)
    BY <1>1 DEF Rest, OkAt
  <2>3. PICK b \in own : at[b] = x
    BY <1>1, <2>2 DEF Carried
  <2>4. SameEvent(b, x) /\ b \in 1..Len(input)
    BY <2>3 DEF Carried
  <2>5. log[x].process \in Clients
    BY <1>1, <2>2 DEF TruthInv
  <2>6. b \in JP!OkEvents
    BY <1>6, <2>2, <2>4, <2>5, ExecutionAssumption DEF SameEvent
  <2>7. PICK k \in 1..l : f[k] = b
    BY <1>3, <1>5, <2>6 DEF JP!Pairs
  <2>8. QED
    BY <1>8, <2>3, <2>7
<1>12. ASSUME NEW k \in 1..l
       PROVE  \E a, b \in own :
                        /\ h[k] = at[b]
                        /\ PairIn(input, a, b) /\ PairIn(log, at[a], at[b])
                        /\ ops[k] = JP!buildOp(k - 1, input[a], input[b])
  <2>1. PICK a \in 1..f[k] - 1 :
          JP!Completes(a, f[k]) /\ ops[k] = JP!buildOp(k - 1, input[a], input[f[k]])
    BY <1>3, <1>5 DEF JP!Pairs
  <2>2. PairIn(input, a, f[k])
    BY <2>1 DEF JP!Completes, PairIn
  <2>3. f[k] \in own /\ f[k] \in 1..Len(input)
    BY <1>6, <1>7, <1>8
  <2>4. a \in own
    <3>1. a \in 1..Len(input) /\ input[a].type = "invoke"
      BY <1>4, <2>2, <2>3 DEF PairIn
    <3>2. QED
      BY <3>1, OwnEntry
  <2>5. PairIn(log, at[a], at[f[k]])
    BY <1>1, <2>2, <2>3, <2>4, PairOfLog
  <2>6. QED
    BY <1>8, <2>1, <2>2, <2>3, <2>4, <2>5
<1>13. Enumerates(h, l, Rest)
  BY <1>9, <1>10, <1>11 DEF Enumerates
<1>14. QED
  BY <1>3, <1>12, <1>13

\* The operations of a log that was read are those of which it has the :ok.
LEMMA ReadIsKept ==
    ASSUME IInv, TruthInv, ConversionInv, front = "jepsen", outcome = "history"
    PROVE  Truths(ops) = Kept
<1>1. PICK at, own : Carried(at, own)
  BY LogIsCarried
<1>2. PICK h : /\ Enumerates(h, Len(ops), Rest)
               /\ \A k \in 1..Len(ops) : \E a, b \in own :
                        /\ h[k] = at[b]
                        /\ PairIn(input, a, b) /\ PairIn(log, at[a], at[b])
                        /\ ops[k] = JP!buildOp(k - 1, input[a], input[b])
  BY <1>1, OperationsAreOfLog
<1>3. ExecutionInv /\ JP!IInv(Events)
  BY DEF IInv, LogInv
<1>4. Damaged("lost") => damage.at \in 1..Len(log)
  BY <1>1 DEF Carried
<1>5. Kept \in Seq(Returned)
  BY <1>3, <1>4, KeptIsListed
<1>6. PICK g : KeptAt(g)
  BY <1>3, <1>4, KeptIsListed
<1>7. Len(ops) \in Nat /\ DOMAIN ops = 1..Len(ops) /\ Len(Kept) \in Nat /\ DOMAIN Kept = 1..Len(Kept)
  BY <1>3, <1>5 DEF JP!IInv
<1>8. PICK n \in Nat : n = Len(log) /\ DOMAIN log = 1..n
  BY <1>3 DEF ExecutionInv
<1>9. Rest \in SUBSET Int
  BY <1>8 DEF Rest, OkAt
<1>10. Len(ops) = Len(Kept) /\ \A k \in 1..Len(ops) : h[k] = g[k]
  BY <1>2, <1>6, <1>7, <1>9, SameEnumeration DEF KeptAt
<1>11. ASSUME NEW k \in 1..Len(ops)
       PROVE  Truth(ops[k]) = Kept[k]
  <2>1. PICK a \in own, b \in own :
            /\ h[k] = at[b]
            /\ PairIn(log, at[a], at[b])
            /\ ops[k] = JP!buildOp(k - 1, input[a], input[b])
    BY <1>2
  <2>2. PICK x \in 1..Len(log) : PairIn(log, x, g[k]) /\ Describes(Kept[k], log[x], log[g[k]])
    BY <1>6, <1>10 DEF KeptAt
  <2>3. at[a] \in Int /\ at[b] \in Int /\ x \in Int
    BY <1>1, <1>8 DEF Carried
  <2>4. g[k] = at[b] /\ x = at[a]
    BY <1>10, <2>1, <2>2, <2>3, OnePair
  <2>5. JP!Whole(ops[k])
    BY <1>3, <1>7 DEF JP!IInv, JP!ReadSoFar
  <2>6. Truth(ops[k]) = Truth(Kept[k])
    <3>1. PICK op, d, y, id : op = ops[k] /\ d = Kept[k] /\ y = at[b] /\ id = k - 1
      OBVIOUS
    <3>2. Describes(d, log[x], log[y])
      BY <2>2, <2>4, <3>1
    <3>3. op = JP!buildOp(id, input[a], input[b]) /\ JP!Whole(op)
      BY <2>1, <2>5, <3>1
    <3>4. SameEvent(a, x) /\ SameEvent(b, y)
      BY <1>1, <2>4, <3>1 DEF Carried
    <3>5. Truth(op) = Truth(d)
      <4>1. /\ op.client = input[b].process /\ op.type = input[a].f
            /\ op.value = JP!ValueOf(input[a], input[b])
            /\ op.call = input[a].time /\ op.return = input[b].time
        BY <3>3 DEF JP!buildOp
      <4>2. op.call = log[x].time /\ op.return = log[y].time
        BY <3>3, <3>4, <4>1 DEF SameEvent, JP!Whole
      <4>3. op.client = d.client /\ op.type = d.type
        BY <3>2, <3>4, <4>1 DEF SameEvent, Describes
      <4>4. op.value = d.value
        BY <3>2, <3>4, <4>1 DEF SameEvent, Describes, JP!ValueOf
      <4>5. op.call = d.call /\ op.return = d.return
        BY <3>2, <4>2 DEF Describes
      <4>6. QED
        BY <4>3, <4>4, <4>5 DEF Truth
    <3>6. QED
      BY <3>1, <3>5
  <2>7. Kept[k] \in Returned
    BY <1>5, <1>7, <1>10
  <2>8. QED
    BY <2>6, <2>7, TruthOfReturned
<1>12. Truths(ops) = [k \in 1..Len(ops) |-> Truth(ops[k])]
  BY <1>7 DEF Truths
<1>13. Kept = [k \in 1..Len(ops) |-> Kept[k]]
  BY <1>5, <1>7, <1>10
<1>14. QED
  BY <1>11, <1>12, <1>13

-----------------------------------------------------------------------------
(* A history is what completed *)

\* All of it together.
TotalInv == IInv /\ TruthInv /\ ConversionInv

LEMMA TotalAtFirst ==
    ASSUME Init
    PROVE  TotalInv
BY InitWay, TruthAtFirst, ConversionAtFirst DEF Init, TotalInv

LEMMA TotalKept ==
    ASSUME TotalInv, [Next]_vars
    PROVE  TotalInv'
<1>1. ExecutionInv
  BY DEF TotalInv, IInv
<1>2. ExecutionNext \/ UNCHANGED execution
  <2>1. CASE UNCHANGED vars
    BY <2>1 DEF vars
  <2>2. CASE Next
    BY <2>2 DEF Next, Execute, HandLog, HandOperations, StartBuilding, HandOver, Convert, ReadLog,
                ReadOperations, BuilderInit, BuilderAdd, BuilderBuild
  <2>3. QED
    BY <2>1, <2>2
<1>3. TruthInv'
  BY <1>1, <1>2, TruthKept DEF TotalInv
<1>4. QED
  BY <1>3, StepWay, ConversionKept DEF TotalInv

\* Operations that are, one after another, those of a sequence.
LEMMA TruthsOfSame ==
    ASSUME NEW s, NEW t \in Seq(Returned), NEW n \in Nat, Len(s) = n, DOMAIN s = 1..n, Len(t) = n,
           \A k \in 1..n : Truth(s[k]) = Truth(t[k])
    PROVE  Truths(s) = t
<1>1. DOMAIN t = 1..n /\ \A k \in 1..n : t[k] \in Returned
  OBVIOUS
<1>2. \A k \in 1..n : Truth(s[k]) = t[k]
  BY <1>1, TruthOfReturned
<1>3. Truths(s) = [k \in 1..n |-> t[k]]
  BY <1>2 DEF Truths
<1>4. t = [k \in 1..n |-> t[k]]
  BY <1>1
<1>5. QED
  BY <1>3, <1>4

\* Each translated operation is one of those that returned, and none is missing.
LEMMA TranslatedIsWhatCompleted ==
    ASSUME TotalInv, front = "porcupine", Made
    PROVE  /\ Range(Truths(ops)) = Range(completed)
           /\ Len(ops) = Len(completed) /\ InOrder(ops)
           /\ \A op \in Range(ops) : op.key = IF translator = "kv" THEN Key ELSE ""
<1>1. TranslatedInv /\ OperationsInv /\ ExecutionInv /\ outcome = "history"
  BY DEF TotalInv, ConversionInv, IInv, Made
<1>2. PICK model \in {"register", "kv"} : TestsAre(model)
  BY <1>1 DEF TranslatedInv
<1>3. PICK n \in Nat : /\ n = Len(completed) /\ n = Len(input) /\ n = Len(ops)
                       /\ DOMAIN completed = 1..n /\ DOMAIN ops = 1..n
  BY <1>1, <1>2 DEF ExecutionInv, TestsAre, TranslatedInv, OperationsInv
<1>4. /\ \A k \in 1..n : \E j \in 1..n : ops[k] = Adapter!Translated(j)
      /\ \A j \in 1..n : \E k \in 1..n : ops[k] = Adapter!Translated(j)
      /\ InOrder(ops)
  BY <1>1, <1>3 DEF TranslatedInv
<1>5. ASSUME NEW j \in 1..n
      PROVE  /\ Truth(Adapter!Translated(j)) = completed[j]
             /\ Adapter!Translated(j).key = IF translator = "kv" THEN Key ELSE ""
  <2>1. Truth(input[j]) = Truth(completed[j]) /\ input[j].key = Key
    BY <1>2, <1>3 DEF TestsAre
  <2>2. Truth(Adapter!Translated(j)) = Truth(input[j])
    BY DEF Truth, Adapter!Translated
  <2>3. completed[j] \in Returned
    BY <1>1, <1>3 DEF ExecutionInv
  <2>4. Adapter!Translated(j).key = IF translator = "kv" THEN input[j].key ELSE ""
    BY DEF Adapter!Translated
  <2>5. QED
    BY <2>1, <2>2, <2>3, <2>4, TruthOfReturned
<1>6. DOMAIN Truths(ops) = 1..n /\ \A k \in 1..n : Truths(ops)[k] = Truth(ops[k])
  BY <1>3 DEF Truths
<1>7. ASSUME NEW d \in Range(Truths(ops))
      PROVE  d \in Range(completed)
  <2>1. PICK k \in 1..n : d = Truth(ops[k])
    BY <1>6 DEF Range
  <2>2. PICK j \in 1..n : ops[k] = Adapter!Translated(j)
    BY <1>4
  <2>3. d = completed[j]
    BY <1>5, <2>1, <2>2
  <2>4. QED
    BY <1>3, <2>3 DEF Range
<1>8. ASSUME NEW d \in Range(completed)
      PROVE  d \in Range(Truths(ops))
  <2>1. PICK j \in 1..n : d = completed[j]
    BY <1>3 DEF Range
  <2>2. PICK k \in 1..n : ops[k] = Adapter!Translated(j)
    BY <1>4
  <2>3. d = Truths(ops)[k]
    BY <1>5, <1>6, <2>1, <2>2
  <2>4. QED
    BY <1>6, <2>3 DEF Range
<1>9. ASSUME NEW op \in Range(ops)
      PROVE  op.key = IF translator = "kv" THEN Key ELSE ""
  <2>1. PICK k \in 1..n : op = ops[k]
    BY <1>3 DEF Range
  <2>2. PICK j \in 1..n : ops[k] = Adapter!Translated(j)
    BY <1>4
  <2>3. QED
    BY <1>5, <2>1, <2>2
<1>10. QED
  BY <1>3, <1>4, <1>7, <1>8, <1>9

\* What a builder has built are the first of those that returned.
LEMMA BuiltIsWhatCompleted ==
    ASSUME TotalInv, front = "builder"
    PROVE  /\ IsPrefix(Truths(built), completed)
           /\ Made => Truths(built) = completed /\ Len(built) = Len(completed)
<1>1. BuiltInv /\ BuilderInv /\ ExecutionInv
  BY DEF TotalInv, ConversionInv, IInv
<1>2. PICK n \in Nat, m \in Nat, l \in Nat :
        /\ n = Len(completed) /\ m = Len(built) /\ l = Len(ops)
        /\ DOMAIN completed = 1..n /\ DOMAIN built = 1..m
  BY <1>1 DEF ExecutionInv, BuilderInv, Numbered
<1>3. m <= l /\ l <= n /\ l = i - 1 /\ n = Len(input)
  BY <1>1, <1>2 DEF BuiltInv, BuilderInv
<1>4. ASSUME NEW k \in 1..m
      PROVE  Truth(built[k]) = completed[k] /\ k \in 1..n
  <2>1. k \in 1..l /\ k \in 1..i - 1 /\ k \in 1..n
    BY <1>2, <1>3
  <2>2. built[k] = ops[k] /\ Truth(ops[k]) = Truth(completed[k])
    BY <1>1, <1>2, <2>1 DEF BuiltInv
  <2>3. completed[k] \in Returned
    BY <1>1, <1>2, <2>1 DEF ExecutionInv
  <2>4. QED
    BY <2>1, <2>2, <2>3, TruthOfReturned
<1>5. Truths(built) = [k \in 1..m |-> completed[k]]
  BY <1>2, <1>4 DEF Truths
<1>6. /\ Truths(built) \in Seq(Returned) /\ Len(Truths(built)) = m
      /\ \A k \in 1..m : Truths(built)[k] = completed[k]
  <2>1. \A k \in 1..m : completed[k] \in Returned
    BY <1>1, <1>2, <1>4 DEF ExecutionInv
  <2>2. QED
    BY <1>2, <1>5, <2>1
<1>7. SubSeq(Truths(built), 1, m) = SubSeq(completed, 1, m)
  <2>1. m <= n
    BY <1>2, <1>3
  <2>2. completed \in Seq(Returned)
    BY <1>1 DEF ExecutionInv
  <2>3. QED
    BY <1>2, <1>6, <2>1, <2>2
<1>8. IsPrefix(Truths(built), completed)
  BY <1>2, <1>3, <1>6, <1>7 DEF IsPrefix
<1>9. ASSUME Made
      PROVE  Truths(built) = completed /\ m = n
  <2>1. m = n
    BY <1>1, <1>2, <1>3, <1>9 DEF BuiltInv, Made
  <2>2. completed = [k \in 1..n |-> completed[k]]
    BY <1>1, <1>2 DEF ExecutionInv
  <2>3. QED
    BY <1>5, <2>1, <2>2
<1>10. QED
  BY <1>2, <1>8, <1>9

LEMMA NothingLost ==
    ASSUME TotalInv, front # "jepsen"
    PROVE  Kept = completed /\ damage = Undamaged
<1>1. damage = Undamaged
  BY DEF TotalInv, ConversionInv, CarriedInv
<1>2. QED
  BY <1>1 DEF Kept, Damaged, Undamaged

\* Whatever becomes of the log, for every translator and every metadata, and however the
\* builder is used: a history has the operations that returned, or the ones whose :ok
\* the log still has, each as it was; a history that was built before the end has the
\* first of them.
THEOREM MadeOfWhatCompleted == Spec => []HistoryIsWhatCompleted
<1>1. Init => TotalInv
  BY TotalAtFirst
<1>2. TotalInv /\ [Next]_vars => TotalInv'
  BY TotalKept
<1>3. ASSUME TotalInv
      PROVE  HistoryIsWhatCompleted
  <2>1. IInv /\ TruthInv /\ ConversionInv /\ ControlInv
    BY <1>3 DEF TotalInv, IInv
  <2>2. CASE front = "jepsen"
    <3>1. History.ops = ops
      BY <2>2 DEF History
    <3>2. ASSUME Made
          PROVE  Truths(ops) = Kept /\ Len(ops) = Len(Kept)
      <4>1. Truths(ops) = Kept
        BY <2>1, <2>2, <3>2, ReadIsKept DEF Made
      <4>2. DOMAIN ops = 1..Len(ops) /\ Len(ops) \in Nat
        BY <2>1, <2>2 DEF IInv, LogInv, JP!IInv
      <4>3. Len(Truths(ops)) = Len(ops)
        <5>1. Truths(ops) = [k \in 1..Len(ops) |-> Truth(ops[k])]
          BY <4>2 DEF Truths
        <5>2. QED
          BY <4>2, <5>1
      <4>4. QED
        BY <4>1, <4>3
    <3>3. QED
      BY <2>2, <3>1, <3>2 DEF HistoryIsWhatCompleted
  <2>3. CASE front = "porcupine"
    <3>1. History.ops = ops /\ Kept = completed
      BY <1>3, <2>3, NothingLost DEF History
    <3>2. ASSUME Made
          PROVE  \A a, b \in DOMAIN ops : a < b => ops[a].call <= ops[b].call
      BY <1>3, <2>3, <3>2, TranslatedIsWhatCompleted DEF InOrder
    <3>3. QED
      BY <1>3, <2>3, <3>1, <3>2, TranslatedIsWhatCompleted DEF HistoryIsWhatCompleted
  <2>4. CASE front = "builder"
    <3>1. History.ops = built /\ Kept = completed
      BY <1>3, <2>4, NothingLost DEF History
    <3>2. QED
      BY <1>3, <2>4, <3>1, BuiltIsWhatCompleted DEF HistoryIsWhatCompleted
  <2>5. CASE front = "none"
    BY <2>1, <2>5 DEF ControlInv, HistoryIsWhatCompleted, Made, Running
  <2>6. QED
    BY <2>1, <2>2, <2>3, <2>4, <2>5 DEF ControlInv
<1>4. QED
  BY <1>1, <1>2, <1>3, PTL DEF Spec

-----------------------------------------------------------------------------
(* Why a history is not made *)

\* Operations that no front end takes.
Unknown == \E d \in Range(Kept) : d.type = "cas" \/ d.value = NotAnInteger

\* The operation that ends with an :ok that the log still has.
LEMMA OkIsOfKept ==
    ASSUME TotalInv, front = "jepsen", NEW at, NEW own, Carried(at, own), NEW x \in Rest
    PROVE  \E d \in Range(Kept), p \in 1..Len(log) :
                /\ PairIn(log, p, x) /\ Describes(d, log[p], log[x])
                /\ d.type \in Kinds
<1>1. ExecutionInv /\ TruthInv
  BY DEF TotalInv, IInv
<1>2. Damaged("lost") => damage.at \in 1..Len(log)
  BY DEF Carried
<1>3. Kept \in Seq(Returned)
  BY <1>1, <1>2, KeptIsListed
<1>4. PICK g : KeptAt(g)
  BY <1>1, <1>2, KeptIsListed
<1>5. PICK k \in 1..Len(Kept) : g[k] = x
  BY <1>4 DEF KeptAt, Enumerates
<1>6. PICK p \in 1..Len(log) : PairIn(log, p, g[k]) /\ Describes(Kept[k], log[p], log[g[k]])
  BY <1>4 DEF KeptAt
<1>7. PICK j \in 1..Len(completed) : Kept[k] = completed[j]
  BY <1>4 DEF KeptAt
<1>8. completed[j].type \in Kinds
  BY <1>1 DEF ExecutionInv, TruthInv
<1>9. Kept[k] \in Range(Kept)
  BY <1>3 DEF Range
<1>10. QED
  BY <1>5, <1>6, <1>7, <1>8, <1>9

\* An entry of another kind that has been read over is of no client.
LEMMA ForeignIsOfOthers ==
    ASSUME NEW e \in Foreign, JP!Readable(e)
    PROVE  e.type = "info" /\ e.process = NotAnInteger
BY ExecutionAssumption DEF Foreign, Event, JP!Readable, JP!OfClient, NotAnInteger

\* Half of a pair stays before the other half, with no event of the process in between.
LEMMA PairOfInput ==
    ASSUME TruthInv, NEW at, NEW own, Carried(at, own), Len(log) \in Nat, DOMAIN log = 1..Len(log),
           NEW a \in own, NEW b \in own, PairIn(log, at[a], at[b]),
           \A c \in 1..b - 1 : JP!Readable(input[c])
    PROVE  PairIn(input, a, b)
<1>1. /\ a \in Int /\ b \in Int /\ own \in SUBSET (1..Len(input))
      /\ at[a] \in 1..Len(log) /\ at[b] \in 1..Len(log) /\ at[a] < at[b]
  BY DEF Carried, PairIn
<1>2. a < b
  <2>1. b < a => at[b] < at[a]
    BY DEF Carried
  <2>2. QED
    BY <1>1, <2>1
<1>3. SameEvent(a, at[a]) /\ SameEvent(b, at[b])
  BY DEF Carried
<1>4. ASSUME NEW c \in a + 1..b - 1
      PROVE  input[c].process # input[a].process
  <2>1. c \in Int /\ a < c /\ c < b /\ c \in 1..b - 1 /\ c \in 1..Len(input)
    BY <1>1
  <2>2. CASE c \in own
    <3>1. SameEvent(c, at[c]) /\ at[a] < at[c] /\ at[c] < at[b] /\ at[c] \in 1..Len(log)
      BY <2>1, <2>2 DEF Carried
    <3>2. at[c] \in at[a] + 1..at[b] - 1
      BY <1>1, <3>1
    <3>3. log[at[c]].process # log[at[a]].process
      BY <3>2 DEF PairIn
    <3>4. QED
      BY <1>3, <3>1, <3>3 DEF SameEvent
  <2>3. CASE c \notin own
    <3>1. input[c] \in Foreign
      BY <2>1, <2>3 DEF Carried
    <3>2. input[c].process = NotAnInteger
      BY <2>1, <3>1, ForeignIsOfOthers
    <3>3. log[at[a]].process \in Clients
      BY <1>1 DEF TruthInv
    <3>4. input[a].process = log[at[a]].process
      BY <1>3 DEF SameEvent
    <3>5. QED
      BY <3>2, <3>3, <3>4, ExecutionAssumption
  <2>4. QED
    BY <2>2, <2>3
<1>5. input[a].type = "invoke" /\ input[b].type = "ok" /\ input[a].process = input[b].process
  BY <1>3 DEF SameEvent, PairIn
<1>6. QED
  BY <1>2, <1>4, <1>5 DEF PairIn

\* The invocation that an :ok answers is pending when the :ok is read.
LEMMA AnsweredIsPending ==
    ASSUME TotalInv, front = "jepsen", i \in 1..Len(input),
           NEW a \in 1..Len(input), PairIn(input, a, i), input[a].process # NotAnInteger
    PROVE  a \in JP!PendingOf(input[i].process)
<1>1. JP!LatestIsPending
  BY DEF TotalInv, IInv, LogInv, JP!IInv
<1>2. a \in 1..i - 1 /\ input[a].type = "invoke" /\ input[a].process = input[i].process
      /\ \A c \in a + 1..i - 1 : input[c].process # input[a].process
  BY DEF PairIn
<1>3. a \in pending
  BY <1>1, <1>2 DEF JP!LatestIsPending, JP!OfClient
<1>4. QED
  BY <1>2, <1>3 DEF JP!PendingOf

\* An event that lost its time.
LEMMA TimesAreLost ==
    ASSUME ExecutionInv, NEW at, NEW own, Carried(at, own), NEW k \in own,
           input[k].time = NotAnInteger
    PROVE  Damaged("untimed") /\ damage.at = at[k]
<1>1. SameEvent(k, at[k]) /\ at[k] \in 1..Len(log)
  BY DEF Carried
<1>2. PICK x \in 1..Len(log) : x = at[k]
  BY <1>1
<1>3. log[x].time \in Nat
  <2>1. x \in DOMAIN log /\ log[x].time = TimeAt(x) /\ x - 1 \in Nat
    BY DEF ExecutionInv
  <2>2. TimeAt(x) \in Nat
    BY <2>1, ExecutionAssumption DEF TimeAt
  <2>3. QED
    BY <2>1, <2>2
<1>4. QED
  BY <1>1, <1>2, <1>3 DEF SameEvent, NotAnInteger

\* The halves of a pair are the events of an operation that returned.
LEMMA HalvesAreOfCompleted ==
    ASSUME NEW p \in 1..Len(log), NEW x \in 1..Len(log), Len(log) \in Nat, PairIn(log, p, x)
    PROVE  OfCompleted(p) /\ OfCompleted(x) /\ log[p].type = "invoke"
<1>1. x \in p + 1..Len(log) /\ log[x].process = log[p].process
  BY DEF PairIn
<1>2. QED
  BY <1>1 DEF PairIn, OfCompleted

\* An :ok of the log is refused only for what its operation is or has lost.
LEMMA OkIsRefused ==
    ASSUME TotalInv, front = "jepsen", NEW at, NEW own, Carried(at, own), i \in own,
           input[i].type = "ok",
           \A a \in JP!PendingOf(input[i].process) : ~JP!Convertible(input[a], input[i])
    PROVE  Unknown \/ LogIsUnreadable
<1>1. PICK n \in Nat : n = Len(log) /\ DOMAIN log = 1..n
  BY DEF TotalInv, IInv, ExecutionInv
<1>2. ExecutionInv /\ TruthInv /\ JP!ReadSoFar /\ i \in Int /\ Len(input) \in Nat
  BY DEF TotalInv, IInv, LogInv, JP!IInv
<1>3. PICK x \in 1..n : x = at[i] /\ SameEvent(i, x)
  BY <1>1 DEF Carried
<1>4. x \in Rest
  <2>1. log[x].type = "ok" /\ (Damaged("lost") => x # damage.at)
    BY <1>3 DEF SameEvent, Carried
  <2>2. QED
    BY <1>1, <2>1 DEF Rest, OkAt
<1>5. PICK d \in Range(Kept), p \in 1..n :
        PairIn(log, p, x) /\ Describes(d, log[p], log[x]) /\ d.type \in Kinds
  BY <1>1, <1>4, OkIsOfKept
<1>6. OfCompleted(p) /\ OfCompleted(x) /\ log[p].type = "invoke"
  BY <1>1, <1>5, HalvesAreOfCompleted
<1>7. CASE \A a \in own : at[a] # p
  <2>1. Damaged("lost") /\ damage.at = p
    BY <1>1, <1>7 DEF Carried
  <2>2. QED
    BY <1>6, <2>1 DEF LogIsUnreadable
<1>8. ASSUME NEW a \in own, at[a] = p
      PROVE  Unknown \/ LogIsUnreadable
  <2>1. PairIn(log, at[a], at[i])
    BY <1>3, <1>5, <1>8
  <2>2. \A c \in 1..i - 1 : JP!Readable(input[c])
    BY <1>2 DEF JP!ReadSoFar
  <2>3. PairIn(input, a, i)
    BY <1>1, <1>2, <2>1, <2>2, PairOfInput
  <2>4. SameEvent(a, p) /\ a \in 1..Len(input) /\ i \in 1..Len(input)
    BY <1>8 DEF Carried
  <2>5. input[a].process # NotAnInteger
    BY <1>1, <1>2, <2>4, ExecutionAssumption DEF SameEvent, TruthInv
  <2>6. a \in JP!PendingOf(input[i].process)
    BY <2>3, <2>4, <2>5, AnsweredIsPending
  <2>7. ~JP!Convertible(input[a], input[i])
    BY <2>6
  <2>8. CASE input[a].time = NotAnInteger
    <3>1. Damaged("untimed") /\ damage.at = p
      BY <1>2, <1>8, <2>8, TimesAreLost
    <3>2. QED
      BY <1>6, <3>1 DEF LogIsUnreadable
  <2>9. CASE input[i].time = NotAnInteger
    <3>1. Damaged("untimed") /\ damage.at = x
      BY <1>2, <1>3, <2>9, TimesAreLost
    <3>2. QED
      BY <1>6, <3>1 DEF LogIsUnreadable
  <2>10. CASE input[a].f \notin {"read", "write"}
    <3>1. d.type = input[a].f
      BY <1>5, <2>4 DEF Describes, SameEvent
    <3>2. d.type = "cas"
      BY <1>5, <2>10, <3>1, KindsAssumption
    <3>3. QED
      BY <3>2 DEF Unknown
  <2>11. CASE JP!ValueOf(input[a], input[i]) = NotAnInteger
    <3>1. JP!ValueOf(input[a], input[i]) = d.value
      BY <1>3, <1>5, <2>4 DEF Describes, SameEvent, JP!ValueOf
    <3>2. QED
      BY <2>11, <3>1 DEF Unknown
  <2>12. QED
    BY <2>7, <2>8, <2>9, <2>10, <2>11 DEF JP!Convertible
<1>9. QED
  BY <1>7, <1>8

\* A log is refused for a reason.
LEMMA LogRefusedForAReason ==
    ASSUME TotalInv, front = "jepsen", outcome = "error"
    PROVE  Unknown \/ LogIsUnreadable
<1>1. PICK at, own : Carried(at, own)
  BY LogIsCarried DEF TotalInv
<1>2. i \in 1..Len(input) /\ JP!Unreadable
  BY DEF TotalInv, IInv, LogInv, JP!IInv, JP!ReadSoFar
<1>3. CASE i \notin own
  <2>1. Damaged("foreign") /\ damage.at = i /\ input[i] \in Foreign
    BY <1>1, <1>2, <1>3 DEF Carried
  <2>2. input[i].type # "info"
    BY <1>2, <2>1 DEF Foreign, Event, JP!Unreadable, JP!Entry, JP!OfClient
  <2>3. QED
    BY <2>1, <2>2 DEF LogIsUnreadable
<1>4. CASE i \in own
  <2>1. PICK n \in Nat : n = Len(log) /\ DOMAIN log = 1..n
    BY DEF TotalInv, IInv, ExecutionInv
  <2>2. PICK x \in 1..n : x = at[i] /\ SameEvent(i, x)
    BY <1>1, <1>4, <2>1 DEF Carried
  <2>3. log[x].type \in {"invoke", "ok", "fail", "info"}
    BY <2>1 DEF TotalInv, IInv, ExecutionInv
  <2>4. /\ input[i].type = "ok"
        /\ \A a \in JP!PendingOf(input[i].process) : ~JP!Convertible(input[a], input[i])
    BY <1>2, <2>2, <2>3 DEF JP!Unreadable, JP!Entry, SameEvent
  <2>5. QED
    BY <1>1, <1>4, <2>4, OkIsRefused
<1>5. QED
  BY <1>3, <1>4

\* And what is read had none.
LEMMA ReadHasNoReason ==
    ASSUME TotalInv, front = "jepsen", outcome = "history"
    PROVE  ~Unknown /\ ~LogIsUnreadable
<1>1. PICK n \in Nat : n = Len(log) /\ DOMAIN log = 1..n
  BY DEF TotalInv, IInv, ExecutionInv
<1>2. IInv /\ TruthInv /\ ConversionInv /\ JP!ReadSoFar
  BY DEF TotalInv, IInv, LogInv, JP!IInv
<1>3. PICK at, own : Carried(at, own)
  BY <1>2, LogIsCarried
<1>4. PICK h : /\ Enumerates(h, Len(ops), Rest)
               /\ \A k \in 1..Len(ops) : \E a, b \in own :
                        /\ h[k] = at[b]
                        /\ PairIn(input, a, b) /\ PairIn(log, at[a], at[b])
                        /\ ops[k] = JP!buildOp(k - 1, input[a], input[b])
  BY <1>2, <1>3, OperationsAreOfLog
<1>5. /\ DOMAIN ops = 1..Len(ops) /\ Len(input) \in Nat /\ i = Len(input) + 1
      /\ \A c \in 1..Len(input) : JP!Readable(input[c])
      /\ \A k \in 1..Len(ops) : JP!Whole(ops[k])
  BY <1>2 DEF IInv, LogInv, JP!IInv, JP!ReadSoFar
<1>6. ~Unknown
  <2>1. SUFFICES ASSUME NEW d \in Range(Kept), d.type = "cas" \/ d.value = NotAnInteger
                 PROVE  FALSE
    BY DEF Unknown
  <2>2. Truths(ops) = Kept
    BY <1>2, ReadIsKept
  <2>3. PICK k \in 1..Len(ops) : d = Truth(ops[k])
    BY <1>5, <2>1, <2>2 DEF Truths, Range
  <2>4. QED
    BY <1>5, <2>1, <2>3 DEF Truth, JP!Whole
\* Both halves of every operation have been read.
<1>7. ASSUME NEW p \in 1..n, NEW x \in 1..n, PairIn(log, p, x),
             ~(Damaged("lost") /\ damage.at = x)
      PROVE  \E a, b \in own : /\ at[a] = p /\ at[b] = x
                               /\ input[a].time # NotAnInteger /\ input[b].time # NotAnInteger
  <2>1. x \in Rest
    BY <1>1, <1>7 DEF Rest, OkAt, PairIn
  <2>2. PICK k \in 1..Len(ops) : h[k] = x
    BY <1>4, <2>1 DEF Enumerates
  <2>3. PICK a \in own, b \in own :
            /\ h[k] = at[b] /\ PairIn(log, at[a], at[b])
            /\ ops[k] = JP!buildOp(k - 1, input[a], input[b])
    BY <1>4
  <2>4. at[a] \in Int /\ at[b] \in Int /\ p \in Int /\ at[b] = x
    BY <1>1, <1>3, <2>2, <2>3 DEF Carried
  <2>5. at[a] = p
    BY <1>7, <2>3, <2>4, OnePair
  <2>6. JP!Whole(ops[k])
    BY <1>5
  <2>7. input[a].time # NotAnInteger /\ input[b].time # NotAnInteger
    <3>1. PICK op, id : op = ops[k] /\ id = k - 1
      OBVIOUS
    <3>2. op = JP!buildOp(id, input[a], input[b]) /\ JP!Whole(op)
      BY <2>3, <2>6, <3>1
    <3>3. op.call = input[a].time /\ op.return = input[b].time
      BY <3>2 DEF JP!buildOp
    <3>4. QED
      BY <3>2, <3>3 DEF JP!Whole
  <2>8. QED
    BY <2>4, <2>5, <2>7
<1>8. ASSUME Damaged("lost"), log[damage.at].type = "invoke", OfCompleted(damage.at)
      PROVE  FALSE
  <2>1. PICK p \in 1..n : p = damage.at
    BY <1>1, <1>3, <1>8 DEF Carried
  <2>2. PICK x \in p + 1..n : /\ log[x].type = "ok" /\ log[x].process = log[p].process
                              /\ \A c \in p + 1..x - 1 : log[c].process # log[p].process
    BY <1>1, <1>8, <2>1 DEF OfCompleted
  <2>3. x \in 1..n /\ PairIn(log, p, x) /\ x # p
    BY <1>8, <2>1, <2>2 DEF PairIn
  <2>4. PICK a \in own : at[a] = p
    BY <1>7, <2>1, <2>3
  <2>5. QED
    BY <1>3, <1>8, <2>1, <2>4 DEF Carried
<1>9. ASSUME Damaged("untimed"), OfCompleted(damage.at)
      PROVE  FALSE
  <2>1. PICK q \in own : q = damage.at /\ at[q] = q /\ input[q].time = NotAnInteger
    BY <1>3, <1>9 DEF Carried
  <2>2. q \in 1..n /\ own \subseteq Int /\ ~Damaged("lost")
    BY <1>1, <1>3, <1>9, <2>1 DEF Carried, Damaged
  <2>3. \A a \in own : at[a] = q => a = q
    <3>1. SUFFICES ASSUME NEW a \in own, at[a] = q
                   PROVE  a = q
      OBVIOUS
    <3>2. ~(a < q) /\ ~(q < a)
      BY <1>3, <2>1, <2>2, <3>1 DEF Carried
    <3>3. QED
      BY <2>2, <3>2
  <2>4. CASE log[q].type = "ok"
    <3>1. PICK p \in 1..n : PairIn(log, p, q)
      <4>1. q \in Rest
        BY <1>1, <2>2, <2>4 DEF Rest, OkAt
      <4>2. QED
        BY <1>1, <1>3, <4>1, OkIsOfKept
    <3>2. PICK b \in own : at[b] = q /\ input[b].time # NotAnInteger
      BY <1>7, <2>2, <3>1
    <3>3. QED
      BY <2>1, <2>3, <3>2
  <2>5. CASE log[q].type # "ok"
    <3>1. PICK x \in q + 1..n :
            /\ log[x].type = "ok" /\ log[x].process = log[q].process
            /\ \A c \in q + 1..x - 1 : log[c].process # log[q].process
      BY <1>1, <1>9, <2>1, <2>5 DEF OfCompleted
    <3>2. log[q].type = "invoke"
      BY <1>9, <2>1, <2>5 DEF OfCompleted
    <3>3. x \in 1..n /\ PairIn(log, q, x)
      BY <2>2, <3>1, <3>2 DEF PairIn
    <3>4. PICK a \in own : at[a] = q /\ input[a].time # NotAnInteger
      BY <1>7, <2>2, <3>3
    <3>5. QED
      BY <2>1, <2>3, <3>4
  <2>6. QED
    BY <2>4, <2>5
<1>10. ASSUME Damaged("foreign"), input[damage.at].type # "info"
       PROVE  FALSE
  <2>1. PICK e : e = input[damage.at] /\ e \in Foreign /\ JP!Readable(e)
    BY <1>3, <1>5, <1>10 DEF Carried
  <2>2. QED
    BY <1>10, <2>1, ForeignIsOfOthers
<1>11. QED
  BY <1>6, <1>8, <1>9, <1>10 DEF LogIsUnreadable

\* FromOperations refuses nothing else.
LEMMA OperationsRefusedForAReason ==
    ASSUME TotalInv, front = "porcupine", outcome \in {"history", "error"}
    PROVE  outcome = "error" <=>
                Unknown \/ DuplicateIds \/ translator = "nil" \/ WrongTranslator
<1>1. TranslatedInv /\ OperationsInv /\ ExecutionInv /\ TruthInv /\ Kept = completed
  BY NothingLost DEF TotalInv, ConversionInv, IInv
<1>2. PICK model \in {"register", "kv"} : TestsAre(model)
  BY <1>1 DEF TranslatedInv
<1>3. PICK n \in Nat : /\ n = Len(completed) /\ n = Len(input)
                       /\ DOMAIN completed = 1..n /\ DOMAIN input = 1..n
  BY <1>1, <1>2 DEF ExecutionInv, TestsAre, OperationsInv
<1>4. ASSUME NEW k \in 1..n
      PROVE  /\ input[k].type = completed[k].type /\ input[k].value = completed[k].value
             /\ completed[k] \in Range(Kept) /\ completed[k].type \in Kinds
             /\ completed[k].type # "read" => completed[k].value \in Nat
  <2>1. Truth(input[k]) = Truth(completed[k])
    BY <1>2, <1>3 DEF TestsAre
  <2>2. input[k].type = completed[k].type /\ input[k].value = completed[k].value
    BY <2>1 DEF Truth
  <2>3. QED
    BY <1>1, <1>3, <2>2 DEF TruthInv, Range
<1>5. ASSUME NEW k \in 1..n
      PROVE  Adapter!Translates(input[k]) <=>
                /\ translator # "nil" /\ input[k].model = translator
                /\ completed[k].type # "cas" /\ completed[k].value # NotAnInteger
  <2>1. translator \in {"register", "kv", "nil"}
    BY <1>1 DEF TranslatedInv
  <2>2. Adapter!ReadOrWrite(input[k]) <=>
            completed[k].type # "cas" /\ completed[k].value # NotAnInteger
    <3>1. PICK t, v : t = completed[k].type /\ v = completed[k].value
      OBVIOUS
    <3>2. /\ t = input[k].type /\ v = input[k].value
          /\ t \in {"read", "write", "cas"} /\ (t # "read" => v # NotAnInteger)
      <4>1. t = input[k].type /\ v = input[k].value
        BY <1>4, <3>1
      <4>2. t \in {"read", "write", "cas"}
        BY <1>4, <3>1, KindsAssumption
      <4>3. t # "read" => v \in Nat
        BY <1>4, <3>1
      <4>4. QED
        BY <4>1, <4>2, <4>3 DEF NotAnInteger
    <3>3. Adapter!ReadOrWrite(input[k]) <=> t = "write" \/ (t = "read" /\ v # NotAnInteger)
      BY <3>2 DEF Adapter!ReadOrWrite
    <3>4. QED
      BY <3>1, <3>2, <3>3
  <2>3. QED
    BY <2>1, <2>2 DEF Adapter!Translates, Adapter!RegisterTranslator, Adapter!KVTranslator
<1>6. ASSUME outcome = "error"
      PROVE  Unknown \/ DuplicateIds \/ translator = "nil" \/ WrongTranslator
  <2>1. CASE translator = "nil"
    BY <2>1
  <2>2. ASSUME i \in 1..n, ~Adapter!Translates(input[i])
        PROVE  Unknown \/ translator = "nil" \/ WrongTranslator
    BY <1>3, <1>4, <1>5, <2>2 DEF Unknown, WrongTranslator
  <2>3. ASSUME i \in 1..n, NEW k \in 1..i - 1, Adapter!IdOf(k) = Adapter!IdOf(i)
        PROVE  DuplicateIds
    <3>1. k \in DOMAIN input /\ i \in DOMAIN input /\ k # i
      BY <1>3, <2>3
    <3>2. QED
      BY <2>3, <3>1 DEF DuplicateIds
  <2>4. QED
    BY <1>1, <1>3, <1>6, <2>1, <2>2, <2>3 DEF TranslatedInv
<1>7. ASSUME outcome = "history"
      PROVE  ~Unknown /\ ~DuplicateIds /\ translator # "nil" /\ ~WrongTranslator
  <2>1. i = n + 1 /\ translator # "nil" /\ i - 1 = n
    BY <1>1, <1>3, <1>7 DEF TranslatedInv
  <2>2. /\ \A k \in 1..n : Adapter!Translates(input[k])
        /\ \A j, k \in 1..n : Adapter!IdOf(j) = Adapter!IdOf(k) => j = k
    BY <1>1, <2>1 DEF TranslatedInv
  <2>3. ~Unknown
    <3>1. SUFFICES ASSUME NEW d \in Range(completed), d.type = "cas" \/ d.value = NotAnInteger
                   PROVE  FALSE
      BY <1>1 DEF Unknown
    <3>2. PICK k \in 1..n : d = completed[k]
      BY <1>3 DEF Range
    <3>3. QED
      BY <1>5, <2>2, <3>1, <3>2
  <2>4. ~DuplicateIds
    BY <1>3, <2>2 DEF DuplicateIds
  <2>5. ~WrongTranslator
    BY <1>3, <1>5, <2>2 DEF WrongTranslator
  <2>6. QED
    BY <2>1, <2>3, <2>4, <2>5
<1>8. QED
  BY <1>6, <1>7

\* Whatever becomes of the log and for every translator and every metadata: ReadEDN and
\* FromOperations refuse an execution exactly when it has an operation that they do not
\* know or a read without a value, when the log has lost a part of an operation that it
\* has the end of or has an entry without meaning, or when the ids or the translator are
\* wrong.
THEOREM RefusedOnlyForAReason == Spec => []RefusedForAReason
<1>1. Init => TotalInv
  BY TotalAtFirst
<1>2. TotalInv /\ [Next]_vars => TotalInv'
  BY TotalKept
<1>3. ASSUME TotalInv, front \in {"jepsen", "porcupine"}, outcome \in {"history", "error"}
      PROVE  outcome = "error" <=>
                \/ \E d \in Range(Kept) : d.type = "cas" \/ d.value = NotAnInteger
                \/ LogIsUnreadable \/ DuplicateIds
                \/ Translator("nil") \/ WrongTranslator
  <2>1. CASE front = "jepsen"
    <3>1. outcome = "error" <=> Unknown \/ LogIsUnreadable
      BY <1>3, <2>1, LogRefusedForAReason, ReadHasNoReason
    <3>2. ~DuplicateIds /\ ~Translator("nil") /\ ~WrongTranslator
      BY <2>1 DEF DuplicateIds, Translator, WrongTranslator
    <3>3. QED
      BY <3>1, <3>2 DEF Unknown
  <2>2. CASE front = "porcupine"
    <3>1. outcome = "error" <=> Unknown \/ DuplicateIds \/ translator = "nil" \/ WrongTranslator
      BY <1>3, <2>2, OperationsRefusedForAReason
    <3>2. ~LogIsUnreadable /\ (Translator("nil") <=> translator = "nil")
      BY <2>2 DEF LogIsUnreadable, Translator
    <3>3. QED
      BY <3>1, <3>2 DEF Unknown
  <2>3. QED
    BY <1>3, <2>1, <2>2
<1>4. TotalInv => RefusedForAReason
  BY <1>3 DEF RefusedForAReason
<1>5. QED
  BY <1>1, <1>2, <1>4, PTL DEF Spec

-----------------------------------------------------------------------------
(* When the operations took effect *)

\* reg has the values of the register: at first, and after each of the n effects so far;
\* at has the effects of the operations that returned, now of those in flight.

\* No two of them at once.
Apart(at, now) ==
    /\ \A j, k \in DOMAIN completed : at[j] = at[k] => j = k
    /\ \A b, c \in Clients : doing[b].applied /\ doing[c].applied /\ now[b] = now[c] => b = c
    /\ \A k \in DOMAIN completed, c \in Clients : doing[c].applied => at[k] # now[c]

OnlyWritesChange(n, reg, at, now) ==
    \A t \in 1..n :
        \/ reg[t] = reg[t - 1]
        \/ \E k \in DOMAIN completed : completed[k].type = "write" /\ at[k] = t
        \/ \E c \in Clients : doing[c].applied /\ doing[c].f = "write" /\ now[c] = t

\* What returned before a call took effect before it.
EffectsInOrder(at, now) ==
    /\ \A j, k \in DOMAIN completed : completed[j].return < completed[k].call => at[j] < at[k]
    /\ \A k \in DOMAIN completed, c \in Clients :
        doing[c].applied /\ completed[k].return < doing[c].call => at[k] < now[c]

\* A write has the value that the register got, a read the one that it had.
HasValues(n, reg, at, now) ==
    /\ \A k \in DOMAIN completed : at[k] \in 1..n /\ reg[at[k]] = completed[k].value
    /\ \A c \in Clients : doing[c].applied => now[c] \in 1..n /\ reg[now[c]] = doing[c].value

IsRegister(n, reg) ==
    n \in Nat /\ reg \in [0..n -> Int] /\ reg[0] = start /\ reg[n] = register

Effects(n, reg, at, now) ==
    /\ IsRegister(n, reg)
    /\ HasValues(n, reg, at, now)
    /\ Apart(at, now)
    /\ OnlyWritesChange(n, reg, at, now)
    /\ EffectsInOrder(at, now)

\* A compare-and-set, which no front end takes, has happened.
CasHappened ==
    \/ \E c \in Clients : doing[c].applied /\ doing[c].f = "cas"
    \/ \E k \in DOMAIN completed : completed[k].type = "cas"

ReturnedBefore == \A k \in DOMAIN completed : completed[k].return <= Clock

\* The inductive invariant that is added: the register is atomic.
EffectInv ==
    /\ ReturnedBefore
    /\ CasHappened \/ \E n, reg, at, now : Effects(n, reg, at, now)

LEMMA EffectAtFirst ==
    ASSUME Init
    PROVE  EffectInv
<1>1. start = register /\ completed = <<>> /\ \A c \in Clients : ~doing[c].applied
  BY DEF Init, ExecutionInit, Idle
<1>2. start \in Int /\ DOMAIN completed = {}
  BY <1>1, ExecutionAssumption DEF Init, ExecutionInit, NotAnInteger
<1> DEFINE reg == [t \in 0..0 |-> start]
<1>3. IsRegister(0, reg)
  BY <1>1, <1>2 DEF IsRegister
<1>4. Effects(0, reg, <<>>, <<>>)
  BY <1>1, <1>2, <1>3 DEF Effects, HasValues, Apart, OnlyWritesChange, EffectsInOrder
<1>5. QED
  BY <1>2, <1>4 DEF EffectInv, ReturnedBefore

\* The clock does not go back.
LEMMA ClockGoesOn ==
    ASSUME ExecutionInv, NEW e, Logged(e) \/ log' = log
    PROVE  Clock' >= Clock /\ Clock \in Nat /\ Clock' \in Nat
<1>1. PICK n \in Nat : n = Len(log)
  BY DEF ExecutionInv
<1>2. PICK m \in Nat : m = Len(log') /\ n <= m
  <2>1. log \in Seq(Events)
    BY DEF ExecutionInv
  <2>2. CASE Logged(e)
    <3>1. Len(log') = n + 1
      BY <1>1, <2>1, <2>2 DEF Logged
    <3>2. QED
      BY <3>1
  <2>3. CASE log' = log
    BY <1>1, <2>3
  <2>4. QED
    BY <2>2, <2>3
<1>3. /\ n \div Resolution \in Nat /\ n \div Resolution <= m \div Resolution
      /\ m \div Resolution \in Nat
  BY <1>2, TimeGoesOn, ExecutionAssumption
<1>4. Clock = n \div Resolution /\ Clock' = m \div Resolution
  BY <1>1, <1>2 DEF Clock
<1>5. QED
  BY <1>3, <1>4

\* Nothing takes effect or returns: calls, operations that failed and clients that gave up.
LEMMA EffectsStay ==
    ASSUME ExecutionInv, EffectInv, UNCHANGED <<register, completed, start>>,
           NEW e, Logged(e) \/ log' = log,
           \A c \in Clients :
              /\ doing'[c].applied <=> doing[c].applied
              /\ doing[c].applied =>
                    /\ doing'[c].f = doing[c].f /\ doing'[c].value = doing[c].value
                    /\ doing'[c].call = doing[c].call
    PROVE  EffectInv'
<1>1. ReturnedBefore'
  <2>1. Clock' >= Clock /\ Clock \in Nat /\ Clock' \in Nat
    BY ClockGoesOn
  <2>2. ASSUME NEW k \in DOMAIN completed
        PROVE  completed[k].return <= Clock'
    <3>1. completed[k].return <= Clock /\ completed[k] \in Returned
      BY DEF EffectInv, ReturnedBefore, ExecutionInv
    <3>2. completed[k].return \in Nat
      BY <3>1 DEF Returned
    <3>3. QED
      BY <2>1, <3>1, <3>2
  <2>3. QED
    BY <2>2 DEF ReturnedBefore
<1>2. CASE CasHappened
  <2>1. CasHappened'
    BY <1>2 DEF CasHappened
  <2>2. QED
    BY <1>1, <2>1 DEF EffectInv
<1>3. ASSUME NEW n, NEW reg, NEW at, NEW now, Effects(n, reg, at, now)
      PROVE  EffectInv'
  <2>1. IsRegister(n, reg)'
    BY <1>3 DEF Effects, IsRegister
  <2>2. HasValues(n, reg, at, now)'
    BY <1>3 DEF Effects, HasValues
  <2>3. Apart(at, now)'
    BY <1>3 DEF Effects, Apart
  <2>4. OnlyWritesChange(n, reg, at, now)'
    <3>1. SUFFICES ASSUME NEW t \in 1..n, reg[t] # reg[t - 1],
                          ~\E k \in DOMAIN completed : completed[k].type = "write" /\ at[k] = t
                   PROVE  \E c \in Clients : doing'[c].applied /\ doing'[c].f = "write" /\ now[c] = t
      BY DEF OnlyWritesChange
    <3>2. PICK c \in Clients : doing[c].applied /\ doing[c].f = "write" /\ now[c] = t
      BY <1>3, <3>1 DEF Effects, OnlyWritesChange
    <3>3. QED
      BY <3>2
  <2>5. EffectsInOrder(at, now)'
    BY <1>3 DEF Effects, EffectsInOrder
  <2>6. Effects(n, reg, at, now)'
    BY <2>1, <2>2, <2>3, <2>4, <2>5 DEF Effects
  <2>7. QED
    BY <1>1, <2>6 DEF EffectInv
<1>4. QED
  BY <1>2, <1>3 DEF EffectInv

\* An operation takes effect: it is the last so far, and after all that returned.
LEMMA EffectsGrow ==
    ASSUME ExecutionInv, EffectInv, NEW c \in Clients, TakeEffect(c), UNCHANGED start
    PROVE  EffectInv'
<1>1. /\ ~doing[c].applied /\ doing[c].f # "none" /\ UNCHANGED <<log, completed>>
      /\ doing \in [Clients -> Doing] /\ register \in Int
  BY DEF TakeEffect, ExecutionInv
<1>2. /\ doing'[c].applied /\ doing'[c].f = doing[c].f /\ doing'[c].call = doing[c].call
      /\ \A b \in Clients : b # c => doing'[b] = doing[b]
  BY <1>1 DEF TakeEffect, Doing
<1>3. ReturnedBefore'
  BY <1>1 DEF EffectInv, ReturnedBefore, Clock
<1>4. CASE CasHappened
  <2>1. CasHappened'
    BY <1>1, <1>2, <1>4 DEF CasHappened
  <2>2. QED
    BY <1>3, <2>1 DEF EffectInv
<1>5. CASE doing[c].f = "cas"
  <2>1. CasHappened'
    BY <1>2, <1>5 DEF CasHappened
  <2>2. QED
    BY <1>3, <2>1 DEF EffectInv
<1>6. ASSUME doing[c].f # "cas",
             NEW n, NEW reg, NEW at, NEW now, Effects(n, reg, at, now)
      PROVE  EffectInv'
  <2>1. PICK v \in Int : /\ v = doing'[c].value /\ register' = v
                         /\ doing[c].f # "write" => v = register
    <3>1. doing[c].f \in {"read", "write"}
      BY <1>1, <1>6, KindsAssumption DEF Doing
    <3>2. CASE doing[c].f = "read"
      <4>1. doing'[c].value = register /\ register' = register
        <5>1. /\ doing' = [doing EXCEPT ![c].applied = TRUE, ![c].value = register]
              /\ register' = register
          BY <3>2 DEF TakeEffect
        <5>2. c \in DOMAIN doing /\ DOMAIN doing[c] = {"f", "value", "call", "applied", "given_up"}
          BY <1>1 DEF Doing
        <5>3. QED
          BY <1>1, <5>1, <5>2
      <4>2. QED
        BY <1>1, <4>1
    <3>3. CASE doing[c].f = "write"
      <4>1. doing'[c].value = doing[c].value /\ register' = doing[c].value
        <5>1. /\ doing' = [doing EXCEPT ![c].applied = TRUE]
              /\ register' = doing[c].value
          BY <3>3 DEF TakeEffect
        <5>2. c \in DOMAIN doing /\ DOMAIN doing[c] = {"f", "value", "call", "applied", "given_up"}
          BY <1>1 DEF Doing
        <5>3. QED
          BY <1>1, <5>1, <5>2
      <4>2. doing[c].value \in Int
        BY <1>1 DEF Doing
      <4>3. QED
        BY <3>3, <4>1, <4>2
    <3>4. QED
      BY <3>1, <3>2, <3>3
  <2>2. n \in Nat /\ reg \in [0..n -> Int] /\ reg[0] = start /\ reg[n] = register
    BY <1>6 DEF Effects, IsRegister
  <2>3. PICK reg2 \in [0..n + 1 -> Int] : reg2[n + 1] = v /\ \A t \in 0..n : reg2[t] = reg[t]
    <3> DEFINE r == [t \in 0..n + 1 |-> IF t = n + 1 THEN v ELSE reg[t]]
    <3>1. \A t \in 0..n + 1 : t # n + 1 => t \in 0..n
      BY <2>2
    <3>2. r \in [0..n + 1 -> Int]
      BY <2>1, <2>2, <3>1
    <3>3. r[n + 1] = v /\ \A t \in 0..n : r[t] = reg[t]
      BY <2>2
    <3>4. QED
      BY <3>2, <3>3
  <2>4. PICK now2 : now2[c] = n + 1 /\ \A b \in Clients : b # c => now2[b] = now[b]
    <3> DEFINE f == [b \in Clients |-> IF b = c THEN n + 1 ELSE now[b]]
    <3>1. f[c] = n + 1 /\ \A b \in Clients : b # c => f[b] = now[b]
      OBVIOUS
    <3>2. QED
      BY <3>1
  <2>5. /\ \A k \in DOMAIN completed : at[k] \in 1..n /\ at[k] \in 1..n + 1 /\ at[k] \in 0..n
        /\ \A b \in Clients : doing[b].applied =>
              now[b] \in 1..n /\ now[b] \in 1..n + 1 /\ now[b] \in 0..n
    BY <1>6, <2>2 DEF Effects, HasValues
  <2>6. IsRegister(n + 1, reg2)'
    BY <2>1, <2>2, <2>3 DEF IsRegister
  <2>7. HasValues(n + 1, reg2, at, now2)'
    <3>1. ASSUME NEW k \in DOMAIN completed
          PROVE  at[k] \in 1..n + 1 /\ reg2[at[k]] = completed[k].value
      BY <1>6, <2>3, <2>5 DEF Effects, HasValues
    <3>2. ASSUME NEW b \in Clients, doing'[b].applied
          PROVE  now2[b] \in 1..n + 1 /\ reg2[now2[b]] = doing'[b].value
      <4>1. CASE b = c
        BY <2>1, <2>2, <2>3, <2>4, <4>1
      <4>2. CASE b # c
        <5>1. doing[b].applied /\ doing'[b].value = doing[b].value /\ now2[b] = now[b]
          BY <1>2, <2>4, <3>2, <4>2
        <5>2. reg[now[b]] = doing[b].value /\ now[b] \in 0..n /\ now[b] \in 1..n + 1
          BY <1>6, <2>5, <5>1 DEF Effects, HasValues
        <5>3. QED
          BY <2>3, <5>1, <5>2
      <4>3. QED
        BY <4>1, <4>2
    <3>3. QED
      BY <1>1, <3>1, <3>2 DEF HasValues
  <2>8. Apart(at, now2)'
    <3>1. ASSUME NEW k \in DOMAIN completed, NEW b \in Clients, doing'[b].applied
          PROVE  at[k] # now2[b]
      <4>1. CASE b = c
        BY <2>2, <2>4, <2>5, <4>1
      <4>2. CASE b # c
        BY <1>2, <1>6, <2>4, <3>1, <4>2 DEF Effects, Apart
      <4>3. QED
        BY <4>1, <4>2
    <3>2. ASSUME NEW a \in Clients, NEW b \in Clients,
                 doing'[a].applied, doing'[b].applied, now2[a] = now2[b], a # b
          PROVE  FALSE
      <4>1. CASE a = c
        BY <1>2, <2>2, <2>4, <2>5, <3>2, <4>1
      <4>2. CASE b = c
        BY <1>2, <2>2, <2>4, <2>5, <3>2, <4>2
      <4>3. CASE a # c /\ b # c
        BY <1>2, <1>6, <2>4, <3>2, <4>3 DEF Effects, Apart
      <4>4. QED
        BY <4>1, <4>2, <4>3
    <3>3. \A j, k \in DOMAIN completed : at[j] = at[k] => j = k
      BY <1>6 DEF Effects, Apart
    <3>4. QED
      BY <1>1, <3>1, <3>2, <3>3 DEF Apart
  <2>9. OnlyWritesChange(n + 1, reg2, at, now2)'
    <3>1. SUFFICES ASSUME NEW t \in 1..n + 1, reg2[t] # reg2[t - 1],
                          ~\E k \in DOMAIN completed : completed[k].type = "write" /\ at[k] = t
                   PROVE  \E b \in Clients : doing'[b].applied /\ doing'[b].f = "write" /\ now2[b] = t
      BY <1>1 DEF OnlyWritesChange
    <3>2. CASE t = n + 1
      <4>1. reg2[t] = v /\ reg2[t - 1] = register
        <5>1. t - 1 = n /\ n \in 0..n
          BY <2>2, <3>2
        <5>2. QED
          BY <2>2, <2>3, <3>2, <5>1
      <4>2. doing[c].f = "write"
        BY <2>1, <3>1, <4>1
      <4>3. QED
        BY <1>2, <2>4, <3>2, <4>2
    <3>3. CASE t # n + 1
      <4>1. t \in 1..n /\ t \in 0..n /\ t - 1 \in 0..n
        BY <2>2, <3>3
      <4>2. reg[t] # reg[t - 1]
        BY <2>3, <3>1, <4>1
      <4>3. PICK b \in Clients : doing[b].applied /\ doing[b].f = "write" /\ now[b] = t
        BY <1>6, <3>1, <4>1, <4>2 DEF Effects, OnlyWritesChange
      <4>4. b # c
        BY <1>1, <4>3
      <4>5. QED
        BY <1>2, <2>4, <4>3, <4>4
    <3>4. QED
      BY <3>2, <3>3
  <2>10. EffectsInOrder(at, now2)'
    <3>1. ASSUME NEW k \in DOMAIN completed, NEW b \in Clients,
                 doing'[b].applied, completed[k].return < doing'[b].call
          PROVE  at[k] < now2[b]
      <4>1. CASE b = c
        BY <2>2, <2>4, <2>5, <4>1
      <4>2. CASE b # c
        BY <1>2, <1>6, <2>4, <3>1, <4>2 DEF Effects, EffectsInOrder
      <4>3. QED
        BY <4>1, <4>2
    <3>2. \A j, k \in DOMAIN completed : completed[j].return < completed[k].call => at[j] < at[k]
      BY <1>6 DEF Effects, EffectsInOrder
    <3>3. QED
      BY <1>1, <3>1, <3>2 DEF EffectsInOrder
  <2>11. Effects(n + 1, reg2, at, now2)'
    BY <2>6, <2>7, <2>8, <2>9, <2>10 DEF Effects
  <2>12. QED
    BY <1>3, <2>11 DEF EffectInv
<1>7. QED
  BY <1>4, <1>5, <1>6 DEF EffectInv

\* An operation returns: what it was in flight it now is for good.
LEMMA EffectsEnd ==
    ASSUME ExecutionInv, EffectInv, NEW c \in Clients, Return(c), UNCHANGED start
    PROVE  EffectInv'
<1> DEFINE d == [client |-> c, type |-> doing[c].f, value |-> doing[c].value,
                 call |-> doing[c].call, return |-> Clock]
           e == Event("ok", c, doing[c].f, doing[c].value)
<1>1. /\ doing[c].applied /\ Logged(e) /\ completed' = Append(completed, d)
      /\ doing' = [doing EXCEPT ![c] = Idle] /\ register' = register
  BY DEF Return
<1>2. doing \in [Clients -> Doing] /\ completed \in Seq(Returned) /\ doing[c].call <= Clock
  BY DEF ExecutionInv
<1>3. PICK x, y : x = d /\ y = e
  OBVIOUS
<1>4. /\ x.type = doing[c].f /\ x.value = doing[c].value /\ x.call = doing[c].call
      /\ x.return = Clock
  BY <1>3
<1> HIDE DEF d, e
<1>5. /\ ~doing'[c].applied
      /\ \A b \in Clients : b # c => doing'[b] = doing[b]
      /\ \A b \in Clients : doing'[b].applied => b # c
  BY <1>1, <1>2 DEF Idle
<1>6. PICK m \in Nat : /\ m = Len(completed) /\ DOMAIN completed = 1..m
                       /\ DOMAIN completed' = 1..m + 1 /\ completed'[m + 1] = x
                       /\ \A k \in 1..m : completed'[k] = completed[k]
  BY <1>1, <1>2, <1>3
<1>7. \A k \in 1..m + 1 : k = m + 1 \/ k \in 1..m
  OBVIOUS
<1>8. PICK before, after \in Nat : before = Clock /\ after = Clock' /\ before <= after
  BY <1>1, <1>3, ClockGoesOn
<1>9. \A k \in 1..m : /\ completed[k].return \in Nat /\ completed[k].call \in Nat
                      /\ completed[k].return <= before /\ completed[k].call <= before
  <2>1. SUFFICES ASSUME NEW k \in 1..m
                 PROVE  /\ completed[k].return \in Nat /\ completed[k].call \in Nat
                        /\ completed[k].return <= before /\ completed[k].call <= before
    OBVIOUS
  <2>2. completed[k] \in Returned
    BY <1>2, <1>6
  <2>3. completed[k].return \in Nat /\ completed[k].call \in Nat
    BY <2>2 DEF Returned
  <2>4. completed[k].return <= before /\ completed[k].call <= completed[k].return
    BY <1>6, <1>8 DEF EffectInv, ReturnedBefore, ExecutionInv
  <2>5. QED
    BY <2>3, <2>4
<1>10. ReturnedBefore'
  <2>1. ASSUME NEW k \in 1..m + 1
        PROVE  completed'[k].return <= after
    <3>1. CASE k = m + 1
      BY <1>4, <1>6, <1>8, <3>1
    <3>2. CASE k \in 1..m
      <4>1. completed'[k].return = completed[k].return
        BY <1>6, <3>2
      <4>2. QED
        BY <1>8, <1>9, <3>2, <4>1
    <3>3. QED
      BY <1>7, <3>1, <3>2
  <2>2. QED
    BY <1>6, <1>8, <2>1 DEF ReturnedBefore
<1>11. CASE CasHappened
  <2>1. CasHappened'
    <3>1. ASSUME NEW b \in Clients, doing[b].applied, doing[b].f = "cas"
          PROVE  CasHappened'
      <4>1. CASE b = c
        <5>1. m + 1 \in DOMAIN completed' /\ completed'[m + 1].type = "cas"
          BY <1>4, <1>6, <3>1, <4>1
        <5>2. QED
          BY <5>1 DEF CasHappened
      <4>2. CASE b # c
        BY <1>5, <3>1, <4>2 DEF CasHappened
      <4>3. QED
        BY <4>1, <4>2
    <3>2. ASSUME NEW k \in DOMAIN completed, completed[k].type = "cas"
          PROVE  CasHappened'
      <4>1. k \in DOMAIN completed' /\ completed'[k].type = "cas"
        BY <1>6, <3>2
      <4>2. QED
        BY <4>1 DEF CasHappened
    <3>3. QED
      BY <1>11, <3>1, <3>2 DEF CasHappened
  <2>2. QED
    BY <1>10, <2>1 DEF EffectInv
<1>12. ASSUME NEW n, NEW reg, NEW at, NEW now, Effects(n, reg, at, now)
       PROVE  EffectInv'
  <2>1. PICK at2 : at2[m + 1] = now[c] /\ \A k \in 1..m : at2[k] = at[k]
    <3> DEFINE f == [k \in 1..m + 1 |-> IF k = m + 1 THEN now[c] ELSE at[k]]
    <3>1. f[m + 1] = now[c] /\ \A k \in 1..m : f[k] = at[k]
      OBVIOUS
    <3>2. QED
      BY <3>1
  <2>2. IsRegister(n, reg)'
    BY <1>1, <1>12 DEF Effects, IsRegister
  <2>3. HasValues(n, reg, at2, now)'
    <3>1. ASSUME NEW k \in 1..m + 1
          PROVE  at2[k] \in 1..n /\ reg[at2[k]] = completed'[k].value
      <4>1. CASE k = m + 1
        BY <1>1, <1>4, <1>6, <1>12, <2>1, <4>1 DEF Effects, HasValues
      <4>2. CASE k \in 1..m
        BY <1>6, <1>12, <2>1, <4>2 DEF Effects, HasValues
      <4>3. QED
        BY <1>7, <4>1, <4>2
    <3>2. ASSUME NEW b \in Clients, doing'[b].applied
          PROVE  now[b] \in 1..n /\ reg[now[b]] = doing'[b].value
      <4>1. b # c /\ doing'[b] = doing[b]
        BY <1>5, <3>2
      <4>2. QED
        BY <1>12, <3>2, <4>1 DEF Effects, HasValues
    <3>3. QED
      BY <1>6, <3>1, <3>2 DEF HasValues
  <2>4. Apart(at2, now)'
    <3>1. ASSUME NEW j \in 1..m + 1, NEW k \in 1..m + 1, at2[j] = at2[k]
          PROVE  j = k
      <4>1. CASE j = m + 1 /\ k \in 1..m
        BY <1>1, <1>6, <1>12, <2>1, <3>1, <4>1 DEF Effects, Apart
      <4>2. CASE j \in 1..m /\ k = m + 1
        BY <1>1, <1>6, <1>12, <2>1, <3>1, <4>2 DEF Effects, Apart
      <4>3. CASE j \in 1..m /\ k \in 1..m
        BY <1>6, <1>12, <2>1, <3>1, <4>3 DEF Effects, Apart
      <4>4. QED
        BY <1>7, <4>1, <4>2, <4>3
    <3>2. ASSUME NEW k \in 1..m + 1, NEW b \in Clients, doing'[b].applied
          PROVE  at2[k] # now[b]
      <4>1. b # c /\ doing[b].applied
        BY <1>5, <3>2
      <4>2. CASE k = m + 1
        BY <1>1, <1>12, <2>1, <4>1, <4>2 DEF Effects, Apart
      <4>3. CASE k \in 1..m
        BY <1>6, <1>12, <2>1, <4>1, <4>3 DEF Effects, Apart
      <4>4. QED
        BY <1>7, <4>2, <4>3
    <3>3. \A a, b \in Clients : doing'[a].applied /\ doing'[b].applied /\ now[a] = now[b] => a = b
      BY <1>5, <1>12 DEF Effects, Apart
    <3>4. QED
      BY <1>6, <3>1, <3>2, <3>3 DEF Apart
  <2>5. OnlyWritesChange(n, reg, at2, now)'
    <3>1. SUFFICES ASSUME NEW t \in 1..n, reg[t] # reg[t - 1]
                   PROVE  \/ \E k \in 1..m + 1 : completed'[k].type = "write" /\ at2[k] = t
                          \/ \E b \in Clients :
                                doing'[b].applied /\ doing'[b].f = "write" /\ now[b] = t
      BY <1>6 DEF OnlyWritesChange
    <3>2. ASSUME NEW k \in 1..m, completed[k].type = "write", at[k] = t
          PROVE  \E j \in 1..m + 1 : completed'[j].type = "write" /\ at2[j] = t
      <4>1. k \in 1..m + 1 /\ completed'[k].type = "write" /\ at2[k] = t
        BY <1>6, <2>1, <3>2
      <4>2. QED
        BY <4>1
    <3>3. ASSUME NEW b \in Clients, doing[b].applied, doing[b].f = "write", now[b] = t
          PROVE  \/ \E k \in 1..m + 1 : completed'[k].type = "write" /\ at2[k] = t
                 \/ \E a \in Clients : doing'[a].applied /\ doing'[a].f = "write" /\ now[a] = t
      <4>1. CASE b = c
        <5>1. m + 1 \in 1..m + 1 /\ completed'[m + 1].type = "write" /\ at2[m + 1] = t
          BY <1>4, <1>6, <2>1, <3>3, <4>1
        <5>2. QED
          BY <5>1
      <4>2. CASE b # c
        BY <1>5, <3>3, <4>2
      <4>3. QED
        BY <4>1, <4>2
    <3>4. QED
      BY <1>6, <1>12, <3>1, <3>2, <3>3 DEF Effects, OnlyWritesChange
  <2>6. EffectsInOrder(at2, now)'
    <3>1. ASSUME NEW j \in 1..m + 1, NEW k \in 1..m + 1,
                 completed'[j].return < completed'[k].call
          PROVE  at2[j] < at2[k]
      <4>1. CASE j \in 1..m /\ k = m + 1
        <5>1. completed[j].return < doing[c].call
          BY <1>4, <1>6, <3>1, <4>1
        <5>2. at[j] < now[c]
          BY <1>1, <1>6, <1>12, <4>1, <5>1 DEF Effects, EffectsInOrder
        <5>3. QED
          BY <2>1, <4>1, <5>2
      <4>2. CASE j = m + 1
        <5>1. before < completed'[k].call
          BY <1>4, <1>6, <1>8, <3>1, <4>2
        <5>2. completed'[k].call \in Nat /\ completed'[k].call <= before
          <6>1. CASE k = m + 1
            <7>1. doing[c].call \in Nat
              BY <1>2 DEF Doing
            <7>2. QED
              BY <1>2, <1>4, <1>6, <1>8, <6>1, <7>1
          <6>2. CASE k \in 1..m
            <7>1. completed'[k].call = completed[k].call
              BY <1>6, <6>2
            <7>2. QED
              BY <1>9, <6>2, <7>1
          <6>3. QED
            BY <1>7, <6>1, <6>2
        <5>3. QED
          BY <1>8, <5>1, <5>2
      <4>3. CASE j \in 1..m /\ k \in 1..m
        <5>1. completed[j].return < completed[k].call
          BY <1>6, <3>1, <4>3
        <5>2. QED
          BY <1>6, <1>12, <2>1, <4>3, <5>1 DEF Effects, EffectsInOrder
      <4>4. QED
        BY <1>7, <4>1, <4>2, <4>3
    <3>2. ASSUME NEW k \in 1..m + 1, NEW b \in Clients, doing'[b].applied,
                 completed'[k].return < doing'[b].call
          PROVE  at2[k] < now[b]
      <4>1. b # c /\ doing'[b] = doing[b]
        BY <1>5, <3>2
      <4>2. doing[b].call \in Nat /\ doing[b].call <= before
        BY <1>2, <1>8 DEF ExecutionInv, Doing
      <4>3. CASE k = m + 1
        <5>1. before < doing[b].call
          BY <1>4, <1>6, <1>8, <3>2, <4>1, <4>3
        <5>2. QED
          BY <1>8, <4>2, <5>1
      <4>4. CASE k \in 1..m
        <5>1. completed[k].return < doing[b].call
          BY <1>6, <3>2, <4>1, <4>4
        <5>2. QED
          BY <1>6, <1>12, <2>1, <3>2, <4>1, <4>4, <5>1 DEF Effects, EffectsInOrder
      <4>5. QED
        BY <1>7, <4>3, <4>4
    <3>3. QED
      BY <1>6, <3>1, <3>2 DEF EffectsInOrder
  <2>7. Effects(n, reg, at2, now)'
    BY <2>2, <2>3, <2>4, <2>5, <2>6 DEF Effects
  <2>8. QED
    BY <1>10, <2>7 DEF EffectInv
<1>13. QED
  BY <1>11, <1>12 DEF EffectInv

LEMMA EffectKept ==
    ASSUME ExecutionInv, EffectInv, [Next]_vars
    PROVE  EffectInv'
<1>1. UNCHANGED start
  <2>1. CASE UNCHANGED vars
    BY <2>1 DEF vars
  <2>2. CASE Next
    BY <2>2 DEF Next, Execute, HandLog, HandOperations, StartBuilding, HandOver, Convert, ReadLog,
                ReadOperations, BuilderInit, BuilderAdd, BuilderBuild
  <2>3. QED
    BY <2>1, <2>2
<1>2. doing \in [Clients -> Doing]
  BY DEF ExecutionInv
<1>3. CASE UNCHANGED execution
  BY <1>1, <1>3, EffectsStay DEF execution
<1>4. ASSUME NEW c \in Clients, NEW f \in Kinds, Invoke(c, f)
      PROVE  EffectInv'
  <2>1. PICK e : Logged(e)
    BY <1>4 DEF Invoke
  <2>2. /\ UNCHANGED <<register, completed>> /\ doing[c] = Idle
        /\ ~doing'[c].applied /\ \A b \in Clients : b # c => doing'[b] = doing[b]
    BY <1>2, <1>4 DEF Invoke, Idle
  <2>3. ~doing[c].applied
    BY <2>2 DEF Idle
  <2>4. QED
    BY <1>1, <2>1, <2>2, <2>3, EffectsStay
<1>5. ASSUME NEW c \in Clients, Fail(c) \/ GiveUp(c)
      PROVE  EffectInv'
  <2>1. PICK e : Logged(e)
    BY <1>5 DEF Fail, GiveUp
  <2>2. UNCHANGED <<register, completed>>
    BY <1>5 DEF Fail, GiveUp
  <2>3. CASE Fail(c)
    <3>1. /\ ~doing[c].applied /\ ~doing'[c].applied
          /\ \A b \in Clients : b # c => doing'[b] = doing[b]
      BY <1>2, <2>3 DEF Fail, Idle
    <3>2. QED
      BY <1>1, <2>1, <2>2, <3>1, EffectsStay
  <2>4. CASE GiveUp(c)
    <3>1. doing' = [doing EXCEPT ![c].given_up = TRUE]
      BY <2>4 DEF GiveUp
    <3>2. /\ doing'[c].applied = doing[c].applied /\ doing'[c].f = doing[c].f
          /\ doing'[c].value = doing[c].value /\ doing'[c].call = doing[c].call
          /\ \A b \in Clients : b # c => doing'[b] = doing[b]
      BY <1>2, <3>1 DEF Doing
    <3>3. QED
      BY <1>1, <2>1, <2>2, <3>2, EffectsStay
  <2>5. QED
    BY <1>5, <2>3, <2>4
<1>6. ASSUME NEW c \in Clients, TakeEffect(c) \/ Return(c)
      PROVE  EffectInv'
  BY <1>1, <1>6, EffectsGrow, EffectsEnd
<1>7. ExecutionNext \/ UNCHANGED execution
  <2>1. CASE UNCHANGED vars
    BY <2>1 DEF vars
  <2>2. CASE Next
    BY <2>2 DEF Next, Execute, HandLog, HandOperations, StartBuilding, HandOver, Convert, ReadLog,
                ReadOperations, BuilderInit, BuilderAdd, BuilderBuild
  <2>3. QED
    BY <2>1, <2>2
<1>8. QED
  BY <1>3, <1>4, <1>5, <1>6, <1>7 DEF ExecutionNext

-----------------------------------------------------------------------------
(* No false alarm *)

\* index says of each operation of h which of those that returned it is.
IndexedBy(h, index) ==
    /\ index \in [OpsOf(h) -> 1..Len(completed)]
    /\ \A a, b \in OpsOf(h) : index[a] = index[b] => a = b
    /\ \A k \in 1..Len(completed) : \E op \in OpsOf(h) : index[op] = k
    /\ \A op \in OpsOf(h) : Truth(op) = completed[index[op]]

LEMMA IndexedByNumber ==
    ASSUME completed \in Seq(Returned), NEW h, Truths(h.ops) = completed,
           DOMAIN h.ops = 1..Len(completed), \A k \in 1..Len(completed) : h.ops[k].id = k - 1
    PROVE  \E index : IndexedBy(h, index)
<1>1. PICK n \in Nat : n = Len(completed)
  OBVIOUS
<1> DEFINE index == [op \in OpsOf(h) |-> op.id + 1]
<1>2. \A op : op \in OpsOf(h) <=> \E k \in 1..n : op = h.ops[k]
  BY <1>1 DEF OpsOf, Range
<1>3. \A k \in 1..n : h.ops[k].id = k - 1 /\ completed[k] = Truth(h.ops[k])
  BY <1>1 DEF Truths
<1>4. ASSUME NEW op \in OpsOf(h)
      PROVE  index[op] \in 1..n /\ op = h.ops[index[op]] /\ Truth(op) = completed[index[op]]
  <2>1. PICK k \in 1..n : op = h.ops[k]
    BY <1>2
  <2>2. index[op] = op.id + 1 /\ op.id = k - 1
    BY <1>3, <2>1
  <2>3. index[op] = k
    BY <2>2
  <2>4. QED
    BY <1>3, <2>1, <2>3
<1>5. ASSUME NEW k \in 1..n
      PROVE  \E op \in OpsOf(h) : index[op] = k
  <2>1. h.ops[k] \in OpsOf(h)
    BY <1>2
  <2>2. index[h.ops[k]] = h.ops[k].id + 1 /\ h.ops[k].id = k - 1
    BY <1>3, <2>1
  <2>3. QED
    BY <2>1, <2>2
<1>6. index \in [OpsOf(h) -> 1..n]
  BY <1>4
<1> HIDE DEF index
<1>7. \A a, b \in OpsOf(h) : index[a] = index[b] => a = b
  <2>1. SUFFICES ASSUME NEW a \in OpsOf(h), NEW b \in OpsOf(h), index[a] = index[b]
                 PROVE  a = b
    OBVIOUS
  <2>2. a = h.ops[index[a]] /\ b = h.ops[index[b]]
    BY <1>4
  <2>3. QED
    BY <2>1, <2>2
<1>8. IndexedBy(h, index)
  BY <1>1, <1>4, <1>5, <1>6, <1>7 DEF IndexedBy
<1>9. QED
  BY <1>8

LEMMA IndexedByTranslation ==
    ASSUME TotalInv, front = "porcupine", Made
    PROVE  \E index : IndexedBy(History, index)
<1>1. TranslatedInv /\ OperationsInv /\ ExecutionInv /\ outcome = "history"
  BY DEF TotalInv, ConversionInv, IInv, Made
<1>2. PICK model \in {"register", "kv"} : TestsAre(model)
  BY <1>1 DEF TranslatedInv
<1>3. PICK n \in Nat : /\ n = Len(completed) /\ n = Len(input) /\ n = Len(ops)
                       /\ DOMAIN completed = 1..n /\ DOMAIN ops = 1..n
  BY <1>1, <1>2 DEF ExecutionInv, TestsAre, TranslatedInv, OperationsInv
<1>4. /\ \A k \in 1..n : \E j \in 1..n : ops[k] = Adapter!Translated(j)
      /\ \A j \in 1..n : \E k \in 1..n : ops[k] = Adapter!Translated(j)
      /\ \A j, k \in 1..n : Adapter!IdOf(j) = Adapter!IdOf(k) => j = k
  <2>1. i - 1 = n
    BY <1>1, <1>3 DEF TranslatedInv
  <2>2. QED
    BY <1>1, <1>3, <2>1 DEF TranslatedInv
<1>5. \A op : op \in OpsOf(History) <=> \E k \in 1..n : op = ops[k]
  <2>1. History.ops = ops
    BY DEF History
  <2>2. QED
    BY <1>3, <2>1 DEF OpsOf, Range
<1>6. \A j \in 1..n : Adapter!Translated(j).id = Adapter!IdOf(j)
  BY DEF Adapter!Translated
<1> DEFINE index == [op \in OpsOf(History) |-> CHOOSE j \in 1..n : op = Adapter!Translated(j)]
<1>7. ASSUME NEW op \in OpsOf(History)
      PROVE  index[op] \in 1..n /\ op = Adapter!Translated(index[op])
  <2>1. \E j \in 1..n : op = Adapter!Translated(j)
    BY <1>4, <1>5
  <2>2. QED
    BY <2>1
<1>8. index \in [OpsOf(History) -> 1..n]
  BY <1>7
<1> HIDE DEF index
<1>9. \A a, b \in OpsOf(History) : index[a] = index[b] => a = b
  <2>1. SUFFICES ASSUME NEW a \in OpsOf(History), NEW b \in OpsOf(History), index[a] = index[b]
                 PROVE  a = b
    OBVIOUS
  <2>2. a = Adapter!Translated(index[a]) /\ b = Adapter!Translated(index[b])
    BY <1>7
  <2>3. QED
    BY <2>1, <2>2
<1>10. ASSUME NEW j \in 1..n
       PROVE  \E op \in OpsOf(History) : index[op] = j
  <2>1. PICK op \in OpsOf(History) : op = Adapter!Translated(j)
    BY <1>4, <1>5
  <2>2. PICK k \in 1..n : k = index[op] /\ op = Adapter!Translated(k)
    BY <1>7
  <2>3. Adapter!IdOf(j) = Adapter!IdOf(k)
    BY <1>6, <2>1, <2>2
  <2>4. QED
    BY <1>4, <2>2, <2>3
<1>11. ASSUME NEW op \in OpsOf(History)
       PROVE  Truth(op) = completed[index[op]]
  <2>1. PICK j \in 1..n : j = index[op] /\ op = Adapter!Translated(j)
    BY <1>7
  <2>2. Truth(Adapter!Translated(j)) = Truth(input[j])
    BY DEF Truth, Adapter!Translated
  <2>3. Truth(input[j]) = Truth(completed[j]) /\ completed[j] \in Returned
    BY <1>1, <1>2, <1>3 DEF TestsAre, ExecutionInv
  <2>4. QED
    BY <2>1, <2>2, <2>3, TruthOfReturned
<1>12. IndexedBy(History, index)
  BY <1>3, <1>8, <1>9, <1>10, <1>11 DEF IndexedBy
<1>13. QED
  BY <1>12

\* What any front end makes of an execution whose log is whole.
LEMMA MadeIsIndexed ==
    ASSUME TotalInv, Made, ~Damaged("lost")
    PROVE  \E index : IndexedBy(History, index)
<1>1. ExecutionInv /\ IInv /\ TruthInv /\ ConversionInv /\ ControlInv /\ outcome = "history"
  BY DEF TotalInv, IInv, Made
<1>2. completed \in Seq(Returned) /\ DOMAIN completed = 1..Len(completed)
  BY <1>1 DEF ExecutionInv
<1>3. CASE front = "jepsen"
  <2>1. History.ops = ops
    BY <1>3 DEF History
  <2>2. Truths(ops) = completed
    <3>1. Kept = completed
      BY DEF Kept
    <3>2. QED
      BY <1>1, <1>3, <3>1, ReadIsKept
  <2>3. DOMAIN ops = 1..Len(completed)
    BY <1>2, <2>2 DEF Truths
  <2>4. \A k \in DOMAIN ops : ops[k].id = k - 1
    BY <1>1, <1>3, ReadIsValid
  <2>5. QED
    BY <1>2, <2>1, <2>2, <2>3, <2>4, IndexedByNumber
<1>4. CASE front = "porcupine"
  BY <1>4, IndexedByTranslation
<1>5. CASE front = "builder"
  <2>1. History.ops = built
    BY <1>5 DEF History
  <2>2. Truths(built) = completed
    BY <1>5, BuiltIsWhatCompleted
  <2>3. DOMAIN built = 1..Len(completed)
    BY <1>2, <2>2 DEF Truths
  <2>4. \A k \in DOMAIN built : built[k].id = k - 1
    BY <1>1, <1>5 DEF IInv, BuilderInv, Numbered
  <2>5. QED
    BY <1>2, <2>1, <2>2, <2>3, <2>4, IndexedByNumber
<1>6. CASE front = "none"
  BY <1>1, <1>6 DEF ControlInv, Running
<1>7. QED
  BY <1>1, <1>3, <1>4, <1>5, <1>6 DEF ControlInv

\* No history has a read without a value, and a store was empty at first.
LEMMA MadeHasValues ==
    ASSUME TotalInv, Made, ~Damaged("lost"), NEW k \in DOMAIN completed
    PROVE  /\ completed[k].value # NotAnInteger
           /\ Translator("kv") => start = NotAnInteger
<1>1. ExecutionInv /\ ControlInv /\ outcome = "history"
  BY DEF TotalInv, IInv, Made
<1>2. completed[k] \in Range(completed) /\ Kept = completed
  BY DEF Range, Kept
<1>3. CASE front = "jepsen"
  <2>1. ~Unknown
    BY <1>1, <1>3, ReadHasNoReason
  <2>2. QED
    BY <1>2, <1>3, <2>1 DEF Unknown, Translator
<1>4. CASE front = "porcupine"
  <2>1. ~Unknown /\ ~WrongTranslator
    BY <1>1, <1>4, OperationsRefusedForAReason
  <2>2. completed[k].value # NotAnInteger
    BY <1>2, <2>1 DEF Unknown
  <2>3. ASSUME translator = "kv"
        PROVE  start = NotAnInteger
    <3>1. TranslatedInv /\ OperationsInv
      BY <1>4 DEF TotalInv, ConversionInv, IInv
    <3>2. PICK model \in {"register", "kv"} : TestsAre(model)
      BY <1>4, <3>1 DEF TranslatedInv
    <3>3. k \in 1..Len(completed) /\ k \in DOMAIN input
      BY <1>1, <1>4, <3>1, <3>2 DEF ExecutionInv, OperationsInv, TestsAre
    <3>4. input[k].model = model
      BY <3>2, <3>3 DEF TestsAre
    <3>5. input[k].model = "kv"
      BY <1>4, <2>1, <2>3, <3>3 DEF WrongTranslator
    <3>6. QED
      BY <3>2, <3>4, <3>5 DEF TestsAre
  <2>4. QED
    BY <2>2, <2>3 DEF Translator
<1>5. CASE front = "builder"
  <2>1. AllIntegers
    BY <1>5 DEF TotalInv, ConversionInv, BuiltInv
  <2>2. QED
    BY <1>2, <1>5, <2>1 DEF AllIntegers, Translator
<1>6. CASE front = "none"
  BY <1>1, <1>6 DEF ControlInv, Running
<1>7. QED
  BY <1>1, <1>3, <1>4, <1>5, <1>6 DEF ControlInv

\* A history whose operations are those that returned, and no others took effect.
LEMMA MadeIsLinearizable ==
    ASSUME TotalInv, EffectInv, Made, ~InDoubt, ~Damaged("lost")
    PROVE  Linearizable(History)
<1> DEFINE O == OpsOf(History)
<1>1. ExecutionInv /\ ControlInv
  BY DEF TotalInv, IInv
<1>2. ~CasHappened
  BY DEF InDoubt, CasHappened, Range
<1>3. PICK n, reg, at, now : Effects(n, reg, at, now)
  BY <1>2 DEF EffectInv
<1>4. PICK index : IndexedBy(History, index)
  BY MadeIsIndexed
<1>5. PICK m \in Nat : m = Len(completed) /\ DOMAIN completed = 1..m
  BY <1>1 DEF ExecutionInv
<1> HIDE DEF O
<1>6. /\ index \in [O -> 1..m]
      /\ \A a, b \in O : index[a] = index[b] => a = b
      /\ \A k \in 1..m : \E op \in O : index[op] = k
      /\ \A op \in O : Truth(op) = completed[index[op]]
  BY <1>4, <1>5 DEF IndexedBy, O
<1>7. \A op \in O : /\ op.type = completed[index[op]].type /\ op.value = completed[index[op]].value
                    /\ op.call = completed[index[op]].call
                    /\ op.return = completed[index[op]].return
  <2>1. SUFFICES ASSUME NEW op \in O
                 PROVE  /\ op.type = completed[index[op]].type
                        /\ op.value = completed[index[op]].value
                        /\ op.call = completed[index[op]].call
                        /\ op.return = completed[index[op]].return
    OBVIOUS
  <2>2. Truth(op) = completed[index[op]]
    BY <1>6
  <2>3. /\ Truth(op).type = op.type /\ Truth(op).value = op.value
        /\ Truth(op).call = op.call /\ Truth(op).return = op.return
    BY DEF Truth
  <2>4. QED
    BY <2>2, <2>3
<1>8. n \in Nat /\ reg[0] = start
  BY <1>3 DEF Effects, IsRegister
<1> DEFINE moment == [op \in O |-> at[index[op]]]
<1>9. \A op \in O : moment[op] = at[index[op]] /\ index[op] \in DOMAIN completed
  BY <1>5, <1>6
<1>10. moment \in [O -> 1..n]
  BY <1>3, <1>9 DEF Effects, HasValues
<1> HIDE DEF moment
<1>11. \A a, b \in O : moment[a] = moment[b] => a = b
  BY <1>3, <1>6, <1>9 DEF Effects, Apart
<1>12. ASSUME NEW a \in O, NEW b \in O, Precedes(a, b)
       PROVE  moment[a] < moment[b]
  <2>1. completed[index[a]].return < completed[index[b]].call
    BY <1>7, <1>12 DEF Precedes
  <2>2. QED
    BY <1>3, <1>9, <2>1 DEF Effects, EffectsInOrder
<1>13. \A op \in O : op.value = reg[moment[op]]
  BY <1>3, <1>7, <1>9 DEF Effects, HasValues
<1> DEFINE writes == {moment[w] : w \in WritesOf(History)}
<1>14. ChangesOnlyAt(reg, n, writes)
  <2>1. WritesOf(History) \in SUBSET O
    BY DEF WritesOf, O
  <2>2. writes \in SUBSET (1..n)
    BY <1>10, <2>1
  <2>3. ASSUME NEW t \in 1..n, reg[t] # reg[t - 1]
        PROVE  t \in writes
    <3>1. ASSUME NEW k \in DOMAIN completed, completed[k].type = "write", at[k] = t
          PROVE  t \in writes
      <4>1. PICK op \in O : index[op] = k
        BY <1>5, <1>6
      <4>2. op \in WritesOf(History) /\ moment[op] = t
        BY <1>7, <1>9, <3>1, <4>1 DEF WritesOf, IsWrite, O
      <4>3. QED
        BY <4>2
    <3>2. ~\E c \in Clients : doing[c].applied /\ doing[c].f = "write" /\ now[c] = t
      BY DEF InDoubt
    <3>3. QED
      BY <1>3, <2>3, <3>1, <3>2 DEF Effects, OnlyWritesChange
  <2>4. QED
    BY <2>2, <2>3 DEF ChangesOnlyAt
<1>15. TookEffect(History, n, reg, moment)
  BY <1>10, <1>11, <1>12, <1>13, <1>14 DEF TookEffect, O
<1>16. IsFiniteSet(OpsOf(History))
  <2>1. index \in Injection(O, 1..m)
    BY <1>6 DEF Injection, IsInjective
  <2>2. IsFiniteSet(1..m)
    BY <1>5, FS_Interval
  <2>3. QED
    BY <2>1, <2>2, FS_Injection DEF O
<1>17. /\ History.model = IF Translator("kv") THEN "kv" ELSE "register"
       /\ History.init = Given
  BY DEF History
<1>18. ASSUME NEW a \in O, NEW b \in O, History.model = "kv"
       PROVE  a.key = b.key
  <2>1. Translator("kv")
    BY <1>17, <1>18
  <2>2. front = "porcupine" /\ translator = "kv"
    BY <2>1 DEF Translator
  <2>3. a \in Range(ops) /\ b \in Range(ops)
    BY <2>2 DEF O, OpsOf, History
  <2>4. \A op \in Range(ops) : op.key = Key
    BY <2>2, TranslatedIsWhatCompleted
  <2>5. QED
    BY <2>3, <2>4
<1>19. ASSUME NEW op \in O, op.value = reg[0]
       PROVE  op.value = IF History.model = "kv" THEN 0 ELSE History.init
  <2>1. PICK k \in DOMAIN completed : op.value = completed[k].value
    BY <1>7, <1>9
  <2>2. op.value # NotAnInteger /\ (Translator("kv") => start = NotAnInteger)
    BY <2>1, MadeHasValues
  <2>3. ~Translator("kv") /\ start # NotAnInteger
    BY <1>8, <1>19, <2>2
  <2>4. QED
    BY <1>8, <1>17, <1>19, <2>3 DEF Given
<1>20. QED
  BY <1>8, <1>15, <1>16, <1>17, <1>18, <1>19, EffectsLinearize DEF O

\* The register is atomic: whatever the clients do and in whatever order their effects and
\* returns come, whatever the front end, the initial value, the ids, the ties of the clock,
\* and whatever became of the log but for a lost event, no history is made of it that is
\* not linearizable, unless an operation is in doubt.
THEOREM AtomicIsLinearizable == Spec => []NoFalseAlarm
<1>1. Init => TotalInv /\ EffectInv
  BY TotalAtFirst, EffectAtFirst
<1>2. TotalInv /\ EffectInv /\ [Next]_vars => (TotalInv /\ EffectInv)'
  <2>1. TotalInv => ExecutionInv
    BY DEF TotalInv, IInv
  <2>2. QED
    BY <2>1, TotalKept, EffectKept
<1>3. TotalInv /\ EffectInv => NoFalseAlarm
  BY MadeIsLinearizable DEF NoFalseAlarm
<1>4. QED
  BY <1>1, <1>2, <1>3, PTL DEF Spec

=============================================================================
