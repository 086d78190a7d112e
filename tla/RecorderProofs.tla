--------------------------- MODULE RecorderProofs ---------------------------
(***************************************************************************)
(* Proofs about the concurrent driver, for every number of clients and of  *)
(* operations and every interleaving of clients and replications: what is  *)
(* recorded is what ran, a follower that is never late is linearizable,    *)
(* and one that is late is never blamed for anything but that.             *)
(***************************************************************************)
EXTENDS Recorder, SequenceLemmas, FiniteSetTheorems

Types == {"read", "write"}

Operation == [type : Types, value : Nat, call : Nat, return : Nat, id : Nat]

RanOperation == [client : Clients, type : Types, value : Nat, call : Nat, return : Nat]

\* Cut times, of which nothing needs to be known.
CutTimes == {Microseconds(t) : t \in Nat}

Recorded == [id : Nat, client : Clients, type : Types, key : {""}, value : Nat,
             call : CutTimes, return : CutTimes]

TypeInv ==
    /\ pc \in [Clients -> {"idle", "called", "applied", "returned", "numbered"}]
    /\ count \in [Clients -> Nat]
    /\ op \in [Clients -> Operation]
    /\ ran \in Seq(RanOperation) /\ nextID = Len(ran)
    /\ recorded \in Seq(Recorded)
    /\ now \in Nat
    /\ follower \in Nat /\ flying \subseteq Nat

LEMMA InitTypes ==
    ASSUME Init
    PROVE  TypeInv
<1>1. NoOp \in Operation
  BY DEF NoOp, Operation, Types
<1>2. ran \in Seq(RanOperation) /\ recorded \in Seq(Recorded) /\ Len(ran) = 0
  BY DEF Init
<1>3. QED
  BY <1>1, <1>2 DEF Init, TypeInv

LEMMA RanTypes ==
    ASSUME TypeInv
    PROVE  /\ nextID \in Nat
           /\ \A k \in DOMAIN ran : ran[k].call \in Nat /\ ran[k].return \in Nat
<1>1. ran \in Seq(RanOperation) /\ nextID = Len(ran)
  BY DEF TypeInv
<1>2. nextID \in Nat
  BY <1>1
<1>3. \A k \in DOMAIN ran : ran[k] \in RanOperation
  BY <1>1
<1>4. \A r \in RanOperation : r.call \in Nat /\ r.return \in Nat
  BY DEF RanOperation
<1>5. QED
  BY <1>2, <1>3, <1>4

LEMMA StepTypes ==
    ASSUME TypeInv, [Next]_vars
    PROVE  TypeInv'
<1> USE ClientsAssumption
<1>1. ASSUME NEW c \in Clients, Call(c)
      PROVE  TypeInv'
  <2>1. Written(c) \in Nat
    BY DEF Written, TypeInv
  <2>2. PICK type \in Types :
          op' = [op EXCEPT ![c] = [NoOp EXCEPT !.type = type, !.call = now,
                                               !.value = IF type = "write" THEN Written(c) ELSE 0]]
    BY <1>1 DEF Call, Types
  <2>3. [NoOp EXCEPT !.type = type, !.call = now,
                     !.value = IF type = "write" THEN Written(c) ELSE 0] \in Operation
    BY <2>1 DEF NoOp, Operation, TypeInv, Types
  <2>4. op' \in [Clients -> Operation]
    BY <2>2, <2>3 DEF TypeInv
  <2>5. QED
    BY <1>1, <2>4 DEF Call, TypeInv, Now, kv, recorder
<1>2. ASSUME NEW c \in Clients, Write(c)
      PROVE  TypeInv'
  <2>1. op[c].value \in Nat
    BY DEF TypeInv, Operation
  <2>2. QED
    BY <1>2, <2>1 DEF Write, TypeInv, recorder
<1>3. ASSUME NEW c \in Clients, Read(c)
      PROVE  TypeInv'
  <2>1. op' \in [Clients -> Operation]
    BY <1>3 DEF Read, TypeInv, Operation
  <2>2. QED
    BY <1>3, <2>1 DEF Read, TypeInv, kv, recorder
<1>4. ASSUME NEW c \in Clients, Return(c)
      PROVE  TypeInv'
  <2>1. op' \in [Clients -> Operation]
    BY <1>4 DEF Return, TypeInv, Operation
  <2>2. QED
    BY <1>4, <2>1 DEF Return, TypeInv, Now, kv, recorder
<1>5. ASSUME NEW c \in Clients, TakeID(c)
      PROVE  TypeInv'
  <2>1. op' \in [Clients -> Operation]
    BY ZenonT(30), <1>5, RanTypes DEF TakeID, TypeInv, Operation
  <2>2. Ran(c) \in RanOperation
    BY DEF Ran, RanOperation, TypeInv, Operation
  <2>3. ran' \in Seq(RanOperation) /\ nextID' = Len(ran')
    <3> DEFINE new == Ran(c)
    <3>1. new \in RanOperation /\ ran' = Append(ran, new) /\ nextID' = nextID + 1
      BY <1>5, <2>2 DEF TakeID
    <3> HIDE DEF new
    <3>2. QED
      BY <3>1 DEF TypeInv
  <2>4. QED
    BY <1>5, <2>1, <2>3 DEF TakeID, TypeInv, kv
<1>6. ASSUME NEW c \in Clients, AppendOp(c)
      PROVE  TypeInv'
  <2>1. op[c] \in Operation
    BY DEF TypeInv
  <2>2. Microseconds(op[c].call) \in CutTimes /\ Microseconds(op[c].return) \in CutTimes
    BY <2>1 DEF CutTimes, Operation
  <2>3. Entry(c) \in Recorded
    BY <2>1, <2>2 DEF Entry, Recorded, Operation
  <2>4. recorded' \in Seq(Recorded)
    BY <1>6, <2>3 DEF AppendOp, TypeInv
  <2>5. QED
    BY <1>6, <2>4 DEF AppendOp, TypeInv, kv
<1>7. ASSUME NEW v \in flying, Replicate(v)
      PROVE  TypeInv'
  BY <1>7 DEF Replicate, TypeInv, recorder
<1>8. CASE Collect \/ Generate \/ UnknownBug \/ UNCHANGED vars
  BY <1>8 DEF Collect, Generate, UnknownBug, vars, TypeInv, kv, recorder
<1>9. QED
  BY <1>1, <1>2, <1>3, <1>4, <1>5, <1>6, <1>7, <1>8 DEF Next, ClientStep

-----------------------------------------------------------------------------
(* Ids *)

\* The inductive invariant: an id that a client has taken and not yet recorded is
\* that of no other client and of no recorded operation.
IdsInv ==
    /\ \A c \in Clients : pc[c] = "numbered" => op[c].id < nextID
    /\ \A c, d \in Clients :
        pc[c] = "numbered" /\ pc[d] = "numbered" /\ op[c].id = op[d].id => c = d
    /\ \A a \in DOMAIN recorded, c \in Clients :
        pc[c] = "numbered" => recorded[a].id # op[c].id
    /\ IdsAreDistinct

LEMMA InitIds ==
    ASSUME Init
    PROVE  IdsInv
BY DEF Init, IdsInv, IdsAreDistinct

LEMMA StepIds ==
    ASSUME TypeInv, IdsInv, [Next]_vars
    PROVE  IdsInv'
<1>0. nextID \in Nat
  BY DEF TypeInv
<1>1. ASSUME NEW c \in Clients, TakeID(c)
      PROVE  IdsInv'
  <2>1. /\ pc' = [pc EXCEPT ![c] = "numbered"] /\ pc[c] = "returned"
        /\ nextID' = nextID + 1 /\ recorded' = recorded
    BY <1>1 DEF TakeID
  <2>2. op'[c].id = nextID /\ \A d \in Clients \ {c} : op'[d] = op[d]
    BY <1>1 DEF TakeID, TypeInv, Operation
  <2>3. \A d \in Clients : op[d].id \in Nat
    BY DEF TypeInv, Operation
  <2>4. \A a \in DOMAIN recorded : recorded[a].id \in 0..nextID - 1
    BY DEF IdsInv, IdsAreDistinct
  <2>5. \A d \in Clients : pc'[d] = "numbered" => op'[d].id < nextID'
    BY <1>0, <2>1, <2>2, <2>3 DEF IdsInv, TypeInv
  <2>6. \A d, e \in Clients :
          pc'[d] = "numbered" /\ pc'[e] = "numbered" /\ op'[d].id = op'[e].id => d = e
    BY <1>0, <2>1, <2>2, <2>3 DEF IdsInv, TypeInv
  <2>7. \A a \in DOMAIN recorded', d \in Clients :
          pc'[d] = "numbered" => recorded'[a].id # op'[d].id
    BY <1>0, <2>1, <2>2, <2>4 DEF IdsInv, TypeInv
  <2>8. IdsAreDistinct'
    BY <1>0, <2>1 DEF IdsInv, IdsAreDistinct
  <2>9. QED
    BY <2>5, <2>6, <2>7, <2>8 DEF IdsInv
<1>2. ASSUME NEW c \in Clients, AppendOp(c)
      PROVE  IdsInv'
  <2> DEFINE e == Entry(c)
             n == Len(recorded)
  <2>1. /\ pc' = [pc EXCEPT ![c] = "idle"] /\ pc[c] = "numbered"
        /\ UNCHANGED <<op, nextID>> /\ recorded' = Append(recorded, e)
    BY <1>2 DEF AppendOp
  <2>2. e.id = op[c].id
    BY DEF Entry
  <2> HIDE DEF e
  <2>3. /\ recorded \in Seq(Recorded) /\ n \in Nat
    BY DEF TypeInv
  <2>4. /\ DOMAIN recorded = 1..n /\ DOMAIN recorded' = 1..n + 1
        /\ \A a \in 1..n : recorded'[a] = recorded[a]
        /\ recorded'[n + 1] = e
    BY <2>1, <2>3
  <2>5. \A a \in 1..n : recorded[a].id # op[c].id /\ recorded[a].id \in 0..nextID - 1
    BY <2>1, <2>4 DEF IdsInv, IdsAreDistinct
  <2>6. op[c].id \in 0..nextID - 1
    BY <1>0, <2>1 DEF IdsInv, TypeInv, Operation
  <2>7. \A d \in Clients : pc'[d] = "numbered" => pc[d] = "numbered" /\ d # c
    BY <2>1 DEF TypeInv
  <2>8. IdsAreDistinct'
    <3>1. \A a \in 1..n + 1 : recorded'[a].id \in 0..nextID - 1
      BY <2>2, <2>3, <2>4, <2>5, <2>6
    <3>2. \A a, b \in 1..n + 1 : recorded'[a].id = recorded'[b].id => a = b
      BY <2>2, <2>3, <2>4, <2>5 DEF IdsInv, IdsAreDistinct
    <3>3. QED
      BY <2>1, <2>4, <3>1, <3>2 DEF IdsAreDistinct
  <2>9. \A a \in DOMAIN recorded', d \in Clients :
          pc'[d] = "numbered" => recorded'[a].id # op'[d].id
    BY <2>1, <2>2, <2>3, <2>4, <2>7 DEF IdsInv
  <2>10. QED
    BY <2>1, <2>7, <2>8, <2>9 DEF IdsInv
<1>3. ASSUME NEW c \in Clients, Call(c) \/ Write(c) \/ Read(c) \/ Return(c)
      PROVE  IdsInv'
  <2>1. /\ pc[c] # "numbered" /\ pc'[c] # "numbered"
        /\ \A d \in Clients \ {c} : pc'[d] = pc[d] /\ op'[d] = op[d]
        /\ UNCHANGED <<nextID, recorded>>
    BY <1>3 DEF Call, Write, Read, Return, TypeInv, recorder
  <2>2. QED
    BY <2>1 DEF IdsInv, IdsAreDistinct
<1>4. ASSUME NEW v \in flying, Replicate(v)
      PROVE  IdsInv'
  BY <1>4 DEF Replicate, IdsInv, IdsAreDistinct, recorder
<1>5. CASE Collect \/ Generate \/ UnknownBug \/ UNCHANGED vars
  BY <1>5 DEF Collect, Generate, UnknownBug, vars, recorder, IdsInv, IdsAreDistinct
<1>6. QED
  BY <1>1, <1>2, <1>3, <1>4, <1>5 DEF Next, ClientStep

\* However the clients take ids and append, no two recorded operations have the
\* same id, and the ids are those given out so far.
THEOREM IdsStayDistinct == Spec => []IdsAreDistinct
<1>1. Init => TypeInv /\ IdsInv
  BY InitTypes, InitIds
<1>2. TypeInv /\ IdsInv /\ [Next]_vars => TypeInv' /\ IdsInv'
  BY StepTypes, StepIds
<1>3. IdsInv => IdsAreDistinct
  BY DEF IdsInv
<1>4. QED
  BY <1>1, <1>2, <1>3, PTL DEF Spec
-----------------------------------------------------------------------------
(* Where reads have their values from *)

\* Started, of given operations.
StartedIn(r, p, o, v, t) ==
    \/ \E k \in DOMAIN r : r[k].type = "write" /\ r[k].value = v /\ r[k].call < t
    \/ \E c \in Clients :
        /\ p[c] \in {"called", "applied", "returned"}
        /\ o[c].type = "write" /\ o[c].value = v /\ o[c].call < t

\* The inductive invariant: what the follower has, what is on its way to it and
\* what a client has read is of a write that has started.
FutureInv ==
    /\ \A c \in Clients : pc[c] \in {"called", "applied", "returned"} => op[c].call < now
    /\ follower = 0 \/ StartedIn(ran, pc, op, follower, now)
    /\ \A v \in flying : StartedIn(ran, pc, op, v, now)
    /\ \A c \in Clients : pc[c] = "applied" /\ op[c].type = "read" =>
            op[c].value = 0 \/ StartedIn(ran, pc, op, op[c].value, now)
    /\ \A c \in Clients : pc[c] = "returned" /\ op[c].type = "read" =>
            op[c].value = 0 \/ StartedIn(ran, pc, op, op[c].value, op[c].return)
    /\ \A k \in DOMAIN ran : ran[k].type = "read" =>
            ran[k].value = 0 \/ StartedIn(ran, pc, op, ran[k].value, ran[k].return)

LEMMA InitFuture ==
    ASSUME Init
    PROVE  FutureInv
BY DEF Init, FutureInv

\* A write that has started before t has started before any later time.
LEMMA StartedLater ==
    ASSUME TypeInv, NEW v, NEW t \in Nat, NEW u \in Nat, t <= u,
           StartedIn(ran, pc, op, v, t)
    PROVE  StartedIn(ran, pc, op, v, u)
<1>1. \A k \in DOMAIN ran : ran[k].call \in Nat
  BY RanTypes
<1>2. \A c \in Clients : op[c].call \in Nat
  BY DEF TypeInv, Operation
<1>3. QED
  BY <1>1, <1>2 DEF StartedIn

\* No step makes a write that has started one that has not.
LEMMA StartedStays ==
    ASSUME TypeInv, [Next]_vars, NEW v, NEW t \in Nat,
           StartedIn(ran, pc, op, v, t)
    PROVE  StartedIn(ran', pc', op', v, t)
<1>1. ASSUME NEW c \in Clients, TakeID(c)
      PROVE  StartedIn(ran', pc', op', v, t)
  <2> DEFINE n == Len(ran)
             new == Ran(c)
  <2>1. /\ pc' = [pc EXCEPT ![c] = "numbered"]
        /\ ran' = Append(ran, new)
        /\ \A d \in Clients \ {c} : op'[d] = op[d]
    BY <1>1 DEF TakeID, TypeInv
  <2>2. new.type = op[c].type /\ new.value = op[c].value /\ new.call = op[c].call
    BY DEF Ran
  <2>3. new \in RanOperation
    BY DEF Ran, RanOperation, TypeInv, Operation
  <2> HIDE DEF new
  <2>4. ran \in Seq(RanOperation) /\ n \in Nat
    BY DEF TypeInv
  <2>5. /\ DOMAIN ran = 1..n /\ DOMAIN ran' = 1..n + 1
        /\ \A k \in 1..n : ran'[k] = ran[k]
        /\ ran'[n + 1] = new
    BY <2>1, <2>3, <2>4
  <2>6. CASE \E k \in DOMAIN ran : ran[k].type = "write" /\ ran[k].value = v /\ ran[k].call < t
    BY <2>4, <2>5, <2>6 DEF StartedIn
  <2>7. ASSUME NEW d \in Clients, pc[d] \in {"called", "applied", "returned"},
               op[d].type = "write", op[d].value = v, op[d].call < t
        PROVE  StartedIn(ran', pc', op', v, t)
    <3>1. CASE d = c
      BY <2>2, <2>4, <2>5, <2>7, <3>1 DEF StartedIn
    <3>2. CASE d # c
      <4>1. pc'[d] = pc[d] /\ op'[d] = op[d]
        BY <2>1, <3>2 DEF TypeInv
      <4>2. QED
        BY <2>7, <4>1 DEF StartedIn
    <3>3. QED
      BY <3>1, <3>2
  <2>8. QED
    BY <2>6, <2>7 DEF StartedIn
<1>2. ASSUME NEW c \in Clients, Call(c) \/ Read(c) \/ Return(c) \/ Write(c) \/ AppendOp(c)
      PROVE  StartedIn(ran', pc', op', v, t)
  <2>1. /\ ran' = ran
        /\ \A d \in Clients \ {c} : pc'[d] = pc[d] /\ op'[d] = op[d]
    BY <1>2 DEF Call, Read, Return, Write, AppendOp, TypeInv, recorder
  <2>2. \/ pc[c] \in {"idle", "numbered"}
        \/ op[c].type = "read"
        \/ /\ pc'[c] \in {"called", "applied", "returned"}
           /\ op'[c].type = op[c].type /\ op'[c].value = op[c].value /\ op'[c].call = op[c].call
    BY <1>2 DEF Call, Read, Return, Write, AppendOp, TypeInv, Operation
  <2>3. QED
    BY <2>1, <2>2 DEF StartedIn
<1>3. ASSUME NEW w \in flying, Replicate(w)
      PROVE  StartedIn(ran', pc', op', v, t)
  BY <1>3 DEF Replicate, recorder
<1>4. CASE Collect \/ Generate \/ UnknownBug \/ UNCHANGED vars
  BY <1>4 DEF Collect, Generate, UnknownBug, vars, recorder
<1>5. QED
  BY <1>1, <1>2, <1>3, <1>4 DEF Next, ClientStep

LEMMA StepFuture ==
    ASSUME TypeInv, FutureInv, [Next]_vars
    PROVE  FutureInv'
<1> DEFINE S(v, t) == StartedIn(ran, pc, op, v, t)
           T(v, t) == StartedIn(ran', pc', op', v, t)
<1>1. now \in Nat /\ now' \in Nat /\ now <= now'
  <2>1. now' = now \/ now' = now + 1
    BY DEF Next, ClientStep, Call, Write, Read, Return, TakeID, AppendOp, Replicate, Collect,
           Generate, UnknownBug, vars, Now
  <2>2. QED
    BY <2>1 DEF TypeInv
<1>2. \A v, t : t \in Nat /\ S(v, t) => T(v, t)
  BY StartedStays
<1>3. \A v : S(v, now) => T(v, now')
  <2>1. \A v : S(v, now) => S(v, now')
    BY <1>1, StartedLater
  <2>2. QED
    BY <1>1, <1>2, <2>1
<1>4. TypeInv'
  BY StepTypes
<1> HIDE DEF S, T
<1>5. \A c \in Clients : op[c].return \in Nat /\ op[c].call \in Nat
  BY DEF TypeInv, Operation
<1>6. \A k \in DOMAIN ran : ran[k].return \in Nat
  BY RanTypes
<1>7. /\ \A c \in Clients : pc[c] \in {"called", "applied", "returned"} => op[c].call < now
      /\ follower = 0 \/ S(follower, now)
      /\ \A v \in flying : S(v, now)
      /\ \A c \in Clients : pc[c] = "applied" /\ op[c].type = "read" =>
            op[c].value = 0 \/ S(op[c].value, now)
      /\ \A c \in Clients : pc[c] = "returned" /\ op[c].type = "read" =>
            op[c].value = 0 \/ S(op[c].value, op[c].return)
      /\ \A k \in DOMAIN ran : ran[k].type = "read" =>
            ran[k].value = 0 \/ S(ran[k].value, ran[k].return)
  BY DEF FutureInv, S
<1> DEFINE A1 == \A c \in Clients :
                    pc'[c] \in {"called", "applied", "returned"} => op'[c].call < now'
           A2 == follower' = 0 \/ T(follower', now')
           A3 == \A v \in flying' : T(v, now')
           A4 == \A c \in Clients : pc'[c] = "applied" /\ op'[c].type = "read" =>
                    op'[c].value = 0 \/ T(op'[c].value, now')
           A5 == \A c \in Clients : pc'[c] = "returned" /\ op'[c].type = "read" =>
                    op'[c].value = 0 \/ T(op'[c].value, op'[c].return)
           A6 == \A k \in DOMAIN ran' : ran'[k].type = "read" =>
                    ran'[k].value = 0 \/ T(ran'[k].value, ran'[k].return)
           Goal == A1 /\ A2 /\ A3 /\ A4 /\ A5 /\ A6
<1>8. SUFFICES Goal
  BY DEF FutureInv, T
<1>9. ASSUME NEW c \in Clients, Call(c)
      PROVE  Goal
  <2>1. /\ pc' = [pc EXCEPT ![c] = "called"] /\ pc[c] = "idle" /\ now' = now + 1
        /\ UNCHANGED <<follower, flying, ran>>
        /\ op'[c].call = now /\ \A d \in Clients \ {c} : op'[d] = op[d]
    BY <1>9 DEF Call, TypeInv, kv, recorder, Now, NoOp
  <2>2. A1
    BY <1>1, <1>5, <1>7, <2>1 DEF TypeInv
  <2>3. A2 /\ A3
    BY <1>3, <1>7, <2>1
  <2>4. A4 /\ A5
    BY <1>2, <1>3, <1>5, <1>7, <2>1 DEF TypeInv
  <2>5. A6
    BY <1>2, <1>6, <1>7, <2>1
  <2>6. QED
    BY <2>2, <2>3, <2>4, <2>5
<1>10. ASSUME NEW c \in Clients, Write(c)
      PROVE  Goal
  <2>1. /\ pc' = [pc EXCEPT ![c] = "applied"] /\ pc[c] = "called" /\ now' = now
        /\ UNCHANGED <<follower, ran, op>> /\ flying' = flying \union {op[c].value}
        /\ op[c].type = "write"
    BY <1>10 DEF Write, recorder
  <2>2. S(op[c].value, now)
    BY <1>7, <2>1 DEF S, StartedIn
  <2>3. A1 /\ A2 /\ A4 /\ A5
    BY <1>2, <1>3, <1>5, <1>7, <2>1 DEF TypeInv
  <2>4. A3
    BY <1>3, <1>7, <2>1, <2>2
  <2>5. A6
    BY <1>2, <1>6, <1>7, <2>1
  <2>6. QED
    BY <2>3, <2>4, <2>5
<1>11. ASSUME NEW c \in Clients, Read(c)
      PROVE  Goal
  <2>1. /\ pc' = [pc EXCEPT ![c] = "applied"] /\ pc[c] = "called" /\ now' = now
        /\ UNCHANGED <<follower, flying, ran>>
        /\ op'[c].value = follower /\ op'[c].call = op[c].call
        /\ \A d \in Clients \ {c} : op'[d] = op[d]
    BY <1>11 DEF Read, TypeInv, Operation, kv, recorder
  <2>2. A1 /\ A2 /\ A3
    BY <1>3, <1>7, <2>1 DEF TypeInv
  <2>3. A4 /\ A5
    BY <1>2, <1>3, <1>5, <1>7, <2>1 DEF TypeInv
  <2>4. A6
    BY <1>2, <1>6, <1>7, <2>1
  <2>5. QED
    BY <2>2, <2>3, <2>4
<1>12. ASSUME NEW c \in Clients, Return(c)
      PROVE  Goal
  <2>1. /\ pc' = [pc EXCEPT ![c] = "returned"] /\ pc[c] = "applied" /\ now' = now + 1
        /\ UNCHANGED <<follower, flying, ran>>
        /\ op'[c].return = now /\ op'[c].call = op[c].call
        /\ op'[c].value = op[c].value /\ op'[c].type = op[c].type
        /\ \A d \in Clients \ {c} : op'[d] = op[d]
    BY <1>12 DEF Return, TypeInv, Operation, kv, recorder, Now
  <2>2. A1
    BY <1>1, <1>5, <1>7, <2>1 DEF TypeInv
  <2>3. A2 /\ A3
    BY <1>3, <1>7, <2>1
  <2>4. A4
    BY <1>3, <1>7, <2>1 DEF TypeInv
  <2>5. A5
    BY <1>1, <1>2, <1>5, <1>7, <2>1 DEF TypeInv
  <2>6. A6
    BY <1>2, <1>6, <1>7, <2>1
  <2>7. QED
    BY <2>2, <2>3, <2>4, <2>5, <2>6
<1>13. ASSUME NEW c \in Clients, TakeID(c)
      PROVE  Goal
  <2> DEFINE n == Len(ran)
             new == Ran(c)
  <2>1. /\ pc' = [pc EXCEPT ![c] = "numbered"] /\ pc[c] = "returned" /\ now' = now
        /\ UNCHANGED <<follower, flying>> /\ ran' = Append(ran, new)
        /\ \A d \in Clients \ {c} : op'[d] = op[d]
    BY <1>13 DEF TakeID, TypeInv, kv
  <2>2. /\ new.type = op[c].type /\ new.value = op[c].value /\ new.return = op[c].return
        /\ new \in RanOperation
    BY DEF Ran, RanOperation, TypeInv, Operation
  <2> HIDE DEF new
  <2>3. ran \in Seq(RanOperation) /\ n \in Nat
    BY DEF TypeInv
  <2>4. /\ DOMAIN ran = 1..n /\ DOMAIN ran' = 1..n + 1
        /\ \A k \in 1..n : ran'[k] = ran[k]
        /\ ran'[n + 1] = new
    BY <2>1, <2>2, <2>3
  <2>5. A1 /\ A2 /\ A3
    BY <1>3, <1>7, <2>1 DEF TypeInv
  <2>6. A4 /\ A5
    BY <1>2, <1>3, <1>5, <1>7, <2>1 DEF TypeInv
  <2>7. A6
    <3>1. SUFFICES ASSUME NEW k \in 1..n + 1, ran'[k].type = "read"
                   PROVE  ran'[k].value = 0 \/ T(ran'[k].value, ran'[k].return)
      BY <2>4
    <3>2. CASE k \in 1..n
      BY <1>2, <1>6, <1>7, <2>4, <3>1, <3>2
    <3>3. CASE k = n + 1
      BY <1>2, <1>5, <1>7, <2>1, <2>2, <2>4, <3>1, <3>3
    <3>4. QED
      BY <2>3, <3>2, <3>3
  <2>8. QED
    BY <2>5, <2>6, <2>7
<1>14. ASSUME NEW c \in Clients, AppendOp(c)
      PROVE  Goal
  <2>1. /\ pc' = [pc EXCEPT ![c] = "idle"] /\ now' = now
        /\ UNCHANGED <<follower, flying, ran, op>>
    BY <1>14 DEF AppendOp, kv
  <2>2. A1 /\ A2 /\ A3
    BY <1>3, <1>7, <2>1 DEF TypeInv
  <2>3. A4 /\ A5
    BY <1>2, <1>3, <1>5, <1>7, <2>1 DEF TypeInv
  <2>4. A6
    BY <1>2, <1>6, <1>7, <2>1
  <2>5. QED
    BY <2>2, <2>3, <2>4
<1>15. ASSUME NEW w \in flying, Replicate(w)
      PROVE  Goal
  <2>1. /\ follower' = w /\ flying' = flying \ {w}
        /\ UNCHANGED <<now, pc, op, ran>>
    BY <1>15 DEF Replicate, recorder
  <2>2. A1 /\ A2 /\ A3
    BY <1>3, <1>7, <2>1
  <2>3. A4 /\ A5 /\ A6
    BY <1>2, <1>3, <1>5, <1>6, <1>7, <2>1
  <2>4. QED
    BY <2>2, <2>3
<1>16. CASE Collect \/ Generate \/ UnknownBug \/ UNCHANGED vars
  <2>1. UNCHANGED <<follower, flying, now, pc, op, ran>>
    BY <1>16 DEF Collect, Generate, UnknownBug, vars, kv, recorder
  <2>2. A1 /\ A2 /\ A3
    BY <1>3, <1>7, <2>1
  <2>3. A4 /\ A5 /\ A6
    BY <1>2, <1>3, <1>5, <1>6, <1>7, <2>1
  <2>4. QED
    BY <2>2, <2>3
<1>17. QED
  BY <1>9, <1>10, <1>11, <1>12, <1>13, <1>14, <1>15, <1>16 DEF Next, ClientStep

\* Whatever the delays and the order of the replications, a read returns the
\* initial value or one of a write that had started when the read returned: the
\* follower is late, and never ahead or wrong.
THEOREM ReadsAreNotFromTheFuture == Spec => []NoReadFromTheFuture
<1>1. Init => TypeInv /\ FutureInv
  BY InitTypes, InitFuture
<1>2. TypeInv /\ FutureInv /\ [Next]_vars => TypeInv' /\ FutureInv'
  BY StepTypes, StepFuture
<1>3. FutureInv => NoReadFromTheFuture
  BY DEF FutureInv, NoReadFromTheFuture, Started, StartedIn
<1>4. QED
  BY <1>1, <1>2, <1>3, PTL DEF Spec

-----------------------------------------------------------------------------
(* Times and rounds *)

\* The inductive invariant: an operation in hand lies in the past, and is one of
\* the rounds that are left.
ClockInv ==
    /\ outcome \in {"running", "history", "error"}
    /\ leader \in Nat /\ late \in BOOLEAN
    /\ \A c \in Clients :
        /\ count[c] <= OpsPerClient
        /\ pc[c] # "idle" => count[c] < OpsPerClient
        /\ op[c].call <= now /\ op[c].return <= now
        /\ pc[c] \in {"called", "applied"} => op[c].call < now
        /\ pc[c] \in {"returned", "numbered"} => op[c].call < op[c].return
    /\ \A k \in DOMAIN ran : ran[k].call < ran[k].return

LEMMA InitClock ==
    ASSUME Init
    PROVE  ClockInv
<1>1. /\ ran = <<>> /\ now = 0 /\ outcome = "running" /\ leader = 0 /\ late = FALSE
      /\ \A c \in Clients :
            count[c] = 0 /\ pc[c] = "idle" /\ op[c].call = 0 /\ op[c].return = 0
  BY DEF Init, NoOp
<1>2. late \in BOOLEAN
  BY <1>1
<1>3. \A k \in DOMAIN ran : ran[k].call < ran[k].return
  BY <1>1
<1>4. \A c \in Clients :
        /\ count[c] <= OpsPerClient
        /\ op[c].call <= now /\ op[c].return <= now
  BY <1>1, OpsAssumption
<1>5. QED
  BY <1>1, <1>2, <1>3, <1>4 DEF ClockInv

LEMMA StepClock ==
    ASSUME TypeInv, ClockInv, [Next]_vars
    PROVE  ClockInv'
<1> USE OpsAssumption
<1> DEFINE Client(c) ==
               /\ count[c] <= OpsPerClient
               /\ pc[c] # "idle" => count[c] < OpsPerClient
               /\ op[c].call <= now /\ op[c].return <= now
               /\ pc[c] \in {"called", "applied"} => op[c].call < now
               /\ pc[c] \in {"returned", "numbered"} => op[c].call < op[c].return
           Same(c) == pc'[c] = pc[c] /\ op'[c] = op[c] /\ count'[c] = count[c]
           RanOK == \A k \in DOMAIN ran : ran[k].call < ran[k].return
<1>1. /\ \A c \in Clients : Client(c) /\ count[c] \in Nat /\ op[c] \in Operation
      /\ now \in Nat /\ RanOK
  BY DEF ClockInv, TypeInv
<1>2. \A r \in Operation : r.call \in Nat /\ r.return \in Nat /\ r.value \in Nat
  BY DEF Operation
<1>3. (now' = now \/ now' = now + 1) => \A c \in Clients : Same(c) => Client(c)'
  BY <1>1, <1>2
<1>4. ASSUME NEW c \in Clients, Call(c)
      PROVE  ClockInv'
  <2>1. /\ pc' = [pc EXCEPT ![c] = "called"] /\ now' = now + 1 /\ count[c] < OpsPerClient
        /\ UNCHANGED <<count, ran, outcome, leader, late>>
        /\ op'[c].call = now /\ op'[c].return = 0 /\ \A d \in Clients \ {c} : op'[d] = op[d]
    BY <1>4 DEF Call, TypeInv, kv, recorder, Now, NoOp
  <2>2. Client(c)'
    BY <1>1, <2>1 DEF TypeInv
  <2>3. \A d \in Clients \ {c} : Client(d)'
    BY <1>3, <2>1 DEF TypeInv
  <2>4. QED
    BY <1>1, <2>1, <2>2, <2>3 DEF ClockInv
<1>5. ASSUME NEW c \in Clients, Write(c)
      PROVE  ClockInv'
  <2>1. /\ pc' = [pc EXCEPT ![c] = "applied"] /\ pc[c] = "called" /\ now' = now
        /\ UNCHANGED <<count, ran, outcome, late, op>> /\ leader' = op[c].value
    BY <1>5 DEF Write, recorder
  <2>2. \A d \in Clients : Client(d)'
    BY <1>1, <1>3, <2>1 DEF TypeInv
  <2>3. QED
    BY <1>1, <1>2, <2>1, <2>2 DEF ClockInv
<1>6. ASSUME NEW c \in Clients, Read(c)
      PROVE  ClockInv'
  <2>1. /\ pc' = [pc EXCEPT ![c] = "applied"] /\ pc[c] = "called" /\ now' = now
        /\ UNCHANGED <<count, ran, outcome, late, leader>>
        /\ op'[c].call = op[c].call /\ op'[c].return = op[c].return
        /\ \A d \in Clients \ {c} : op'[d] = op[d]
    BY <1>6 DEF Read, TypeInv, Operation, kv, recorder
  <2>2. Client(c)'
    <3>1. pc'[c] = "applied" /\ count[c] < OpsPerClient /\ op[c].call < now /\ count'[c] = count[c]
      BY <1>1, <2>1 DEF TypeInv
    <3>2. QED
      BY <1>1, <2>1, <3>1
  <2>3. \A d \in Clients \ {c} : Client(d)'
    BY <1>3, <2>1 DEF TypeInv
  <2>4. QED
    BY <1>1, <2>1, <2>2, <2>3 DEF ClockInv
<1>7. ASSUME NEW c \in Clients, Return(c)
      PROVE  ClockInv'
  <2>1. /\ pc' = [pc EXCEPT ![c] = "returned"] /\ pc[c] = "applied" /\ now' = now + 1
        /\ UNCHANGED <<count, ran, outcome, leader>>
        /\ op'[c].call = op[c].call /\ op'[c].return = now
        /\ \A d \in Clients \ {c} : op'[d] = op[d]
    BY <1>7 DEF Return, TypeInv, Operation, kv, recorder, Now
  <2>2. late' \in BOOLEAN
    BY <1>7 DEF Return
  <2>3. Client(c)'
    BY <1>1, <1>2, <2>1 DEF TypeInv
  <2>4. \A d \in Clients \ {c} : Client(d)'
    BY <1>3, <2>1 DEF TypeInv
  <2>5. QED
    BY <1>1, <2>1, <2>2, <2>3, <2>4 DEF ClockInv
<1>8. ASSUME NEW c \in Clients, TakeID(c)
      PROVE  ClockInv'
  <2> DEFINE n == Len(ran)
             new == Ran(c)
  <2>1. /\ pc' = [pc EXCEPT ![c] = "numbered"] /\ pc[c] = "returned" /\ now' = now
        /\ UNCHANGED <<count, outcome, leader, late>> /\ ran' = Append(ran, new)
        /\ op'[c].call = op[c].call /\ op'[c].return = op[c].return
        /\ \A d \in Clients \ {c} : op'[d] = op[d]
    BY <1>8 DEF TakeID, TypeInv, Operation, kv
  <2>2. /\ new.call = op[c].call /\ new.return = op[c].return
        /\ new \in RanOperation
    BY DEF Ran, RanOperation, TypeInv, Operation
  <2> HIDE DEF new
  <2>3. Client(c)'
    BY <1>1, <2>1 DEF TypeInv
  <2>4. \A d \in Clients \ {c} : Client(d)'
    BY <1>3, <2>1 DEF TypeInv
  <2>5. ran \in Seq(RanOperation) /\ n \in Nat
    BY DEF TypeInv
  <2>6. /\ DOMAIN ran = 1..n /\ DOMAIN ran' = 1..n + 1
        /\ \A k \in 1..n : ran'[k] = ran[k]
        /\ ran'[n + 1] = new
    BY <2>1, <2>2, <2>5
  <2>7. new.call < new.return
    BY <1>1, <2>1, <2>2
  <2>8. RanOK'
    BY <1>1, <2>5, <2>6, <2>7
  <2>9. QED
    BY <2>1, <2>3, <2>4, <2>8 DEF ClockInv
<1>9. ASSUME NEW c \in Clients, AppendOp(c)
      PROVE  ClockInv'
  <2>1. /\ pc' = [pc EXCEPT ![c] = "idle"] /\ pc[c] = "numbered"
        /\ count' = [count EXCEPT ![c] = @ + 1]
        /\ UNCHANGED <<now, op, ran, outcome, leader, late>>
    BY <1>9 DEF AppendOp, kv
  <2>2. Client(c)'
    <3>1. count[c] \in Nat /\ count[c] < OpsPerClient /\ count'[c] = count[c] + 1
      BY <1>1, <2>1 DEF TypeInv
    <3>2. count'[c] <= OpsPerClient
      BY <3>1
    <3>3. QED
      BY <1>1, <2>1, <3>2 DEF TypeInv
  <2>3. \A d \in Clients \ {c} : Client(d)'
    BY <1>3, <2>1 DEF TypeInv
  <2>4. QED
    BY <1>1, <2>1, <2>2, <2>3 DEF ClockInv
<1>10. ASSUME NEW v \in flying, Replicate(v)
       PROVE  ClockInv'
  BY <1>10 DEF Replicate, ClockInv, recorder
<1>11. CASE Collect \/ Generate \/ UnknownBug \/ UNCHANGED vars
  BY <1>11 DEF Collect, Generate, UnknownBug, vars, kv, recorder, ClockInv
<1>12. QED
  BY <1>4, <1>5, <1>6, <1>7, <1>8, <1>9, <1>10, <1>11 DEF Next, ClientStep

\* Type correctness: among others, no client makes more than its rounds, and
\* no time lies in the future.
THEOREM TypeCorrect == Spec => []TypeOK
<1>1. Init => TypeInv /\ ClockInv
  BY InitTypes, InitClock
<1>2. TypeInv /\ ClockInv /\ [Next]_vars => TypeInv' /\ ClockInv'
  BY StepTypes, StepClock
<1>3. TypeInv /\ ClockInv => TypeOK
  <2>1. SUFFICES ASSUME TypeInv, ClockInv
                 PROVE  TypeOK
    OBVIOUS
  <2>2. ran \in Seq(RanOperation) /\ nextID = Len(ran)
    BY <2>1 DEF TypeInv
  <2>3. nextID \in Nat /\ Len(ran) = nextID
    BY <2>2
  <2>4. \A c \in Clients : op[c].call \in Nat /\ op[c].return \in Nat /\ count[c] \in Nat
    BY <2>1 DEF TypeInv, Operation
  <2>5. QED
    BY <2>1, <2>3, <2>4, OpsAssumption DEF TypeInv, ClockInv, TypeOK
<1>4. QED
  BY <1>1, <1>2, <1>3, PTL DEF Spec

-----------------------------------------------------------------------------
(* What is recorded *)

\* e is what is recorded of r.
IsCutOf(e, r) ==
    /\ e.client = r.client /\ e.type = r.type /\ e.value = r.value
    /\ e.call = Microseconds(r.call) /\ e.return = Microseconds(r.return)

\* The clients that have an id and have not appended.
Holding == {c \in Clients : pc[c] = "numbered"}

\* The inductive invariant: every id has been given to one operation, which a client
\* still holds or which has been recorded.
RecordInv ==
    /\ \A c \in Clients : pc[c] = "numbered" =>
            op[c].id + 1 \in DOMAIN ran /\ ran[op[c].id + 1] = Ran(c)
    /\ \A a \in DOMAIN recorded :
            /\ recorded[a].id + 1 \in DOMAIN ran
            /\ IsCutOf(recorded[a], ran[recorded[a].id + 1])
    /\ Len(ran) = Len(recorded) + Cardinality(Holding)
    /\ Driven => Len(recorded) = Len(ran) /\ result = Register(sortByCall(recorded))

LEMMA InitRecord ==
    ASSUME Init
    PROVE  RecordInv
<1>1. /\ ran = <<>> /\ recorded = <<>> /\ outcome = "running"
      /\ \A c \in Clients : pc[c] = "idle"
  BY DEF Init
<1>2. Holding = {}
  BY <1>1 DEF Holding
<1>3. Cardinality(Holding) = 0
  BY <1>2, FS_EmptySet
<1>4. Len(ran) = 0 /\ Len(recorded) = 0
  BY <1>1
<1>5. \A a \in DOMAIN recorded : FALSE
  BY <1>1
<1>6. QED
  BY <1>1, <1>3, <1>4, <1>5 DEF RecordInv, Driven

LEMMA StepRecord ==
    ASSUME TypeInv, ClockInv, IdsInv, RecordInv, [Next]_vars
    PROVE  RecordInv'
<1>1. /\ ran \in Seq(RanOperation) /\ recorded \in Seq(Recorded)
      /\ \A c \in Clients : op[c] \in Operation /\ op[c].id \in Nat
      /\ IsFiniteSet(Holding) /\ Cardinality(Holding) \in Nat
  <2>1. IsFiniteSet(Holding) /\ Cardinality(Holding) \in Nat
    BY ClientsAssumption, FS_Subset, FS_CardinalityType DEF Holding
  <2>2. QED
    BY <2>1 DEF TypeInv, Operation
<1>2. ASSUME NEW c \in Clients, TakeID(c)
      PROVE  RecordInv'
  <2> DEFINE n == Len(ran)
             new == Ran(c)
  <2>1. /\ pc' = [pc EXCEPT ![c] = "numbered"] /\ pc[c] = "returned"
        /\ UNCHANGED <<recorded, result, bug, outcome>> /\ ran' = Append(ran, new)
        /\ op'[c].id = n /\ \A d \in Clients \ {c} : op'[d] = op[d]
        /\ op'[c] = [op[c] EXCEPT !.id = n] /\ outcome = "running"
    BY <1>2 DEF TakeID, TypeInv, Operation, Driving
  <2>2. /\ new \in RanOperation /\ Ran(c)' = new
        /\ \A d \in Clients \ {c} : Ran(d)' = Ran(d)
    BY ZenonT(30), <2>1 DEF Ran, RanOperation, TypeInv, Operation
  <2> HIDE DEF new
  <2>3. /\ DOMAIN ran = 1..n /\ DOMAIN ran' = 1..n + 1 /\ n \in Nat
        /\ \A k \in 1..n : ran'[k] = ran[k]
        /\ ran'[n + 1] = new /\ Len(ran') = n + 1
    BY <1>1, <2>1, <2>2
  <2>4. ASSUME NEW d \in Clients, pc'[d] = "numbered"
        PROVE  op'[d].id + 1 \in DOMAIN ran' /\ ran'[op'[d].id + 1] = Ran(d)'
    <3>1. CASE d = c
      <4>1. op'[d].id = n /\ Ran(d)' = new
        BY <2>1, <2>2, <3>1
      <4>2. n + 1 \in 1..n + 1
        BY <2>3
      <4>3. QED
        BY <2>3, <4>1, <4>2
    <3>2. CASE d # c
      <4>1. pc[d] = "numbered" /\ op'[d] = op[d] /\ Ran(d)' = Ran(d)
        BY <2>1, <2>2, <2>4, <3>2 DEF TypeInv
      <4>2. op[d].id + 1 \in 1..n /\ ran[op[d].id + 1] = Ran(d)
        BY <2>3, <4>1 DEF RecordInv
      <4>3. QED
        BY <2>3, <4>1, <4>2
    <3>3. QED
      BY <3>1, <3>2
  <2>5. ASSUME NEW a \in DOMAIN recorded
        PROVE  /\ recorded[a].id + 1 \in DOMAIN ran'
               /\ IsCutOf(recorded[a], ran'[recorded[a].id + 1])
    <3>1. recorded[a].id + 1 \in 1..n /\ IsCutOf(recorded[a], ran[recorded[a].id + 1])
      BY <2>3 DEF RecordInv
    <3>2. QED
      BY <2>3, <3>1
  <2>6. Holding' = Holding \union {c} /\ c \notin Holding
    BY <2>1 DEF Holding, TypeInv
  <2>7. Cardinality(Holding') = Cardinality(Holding) + 1
    BY <1>1, <2>6, FS_AddElement
  <2>8. Len(ran') = Len(recorded') + Cardinality(Holding')
    BY <1>1, <2>1, <2>3, <2>7 DEF RecordInv
  <2>9. ~Driven'
    BY <2>1 DEF Driven
  <2>10. \A a \in DOMAIN recorded' :
            /\ recorded'[a].id + 1 \in DOMAIN ran'
            /\ IsCutOf(recorded'[a], ran'[recorded'[a].id + 1])
    BY <2>1, <2>5
  <2>11. QED
    BY <2>4, <2>8, <2>9, <2>10 DEF RecordInv, IsCutOf, Microseconds
<1>3. ASSUME NEW c \in Clients, AppendOp(c)
      PROVE  RecordInv'
  <2> DEFINE n == Len(recorded)
             e == Entry(c)
  <2>1. /\ pc' = [pc EXCEPT ![c] = "idle"] /\ pc[c] = "numbered"
        /\ UNCHANGED <<op, ran, result, bug, outcome>> /\ recorded' = Append(recorded, e)
        /\ outcome = "running"
    BY <1>3 DEF AppendOp, Driving
  <2>2. /\ e.id = op[c].id /\ IsCutOf(e, Ran(c))
    BY DEF Entry, IsCutOf, Ran
  <2> HIDE DEF e
  <2>3. /\ DOMAIN recorded = 1..n /\ DOMAIN recorded' = 1..n + 1 /\ n \in Nat
        /\ \A k \in 1..n : recorded'[k] = recorded[k]
        /\ recorded'[n + 1] = e /\ Len(recorded') = n + 1
    BY <1>1, <2>1
  <2>4. \A d \in Clients : pc'[d] = "numbered" =>
            op'[d].id + 1 \in DOMAIN ran' /\ ran'[op'[d].id + 1] = Ran(d)'
    BY <2>1 DEF RecordInv, Ran, TypeInv
  <2>5. \A a \in DOMAIN recorded' :
            /\ recorded'[a].id + 1 \in DOMAIN ran'
            /\ IsCutOf(recorded'[a], ran'[recorded'[a].id + 1])
    BY <2>1, <2>2, <2>3 DEF RecordInv
  <2>6. Holding' = Holding \ {c} /\ c \in Holding
    BY <2>1 DEF Holding, TypeInv
  <2>7. Cardinality(Holding') = Cardinality(Holding) - 1
    BY <1>1, <2>6, FS_RemoveElement
  <2>8. Len(ran') = Len(recorded') + Cardinality(Holding')
    BY <1>1, <2>1, <2>3, <2>7 DEF RecordInv
  <2>9. ~Driven'
    BY <2>1 DEF Driven
  <2>10. QED
    BY <2>4, <2>5, <2>8, <2>9 DEF RecordInv, IsCutOf, Microseconds
<1>4. ASSUME NEW c \in Clients, Call(c) \/ Write(c) \/ Read(c) \/ Return(c)
      PROVE  RecordInv'
  <2>1. /\ pc[c] # "numbered" /\ pc'[c] # "numbered"
        /\ \A d \in Clients \ {c} : pc'[d] = pc[d] /\ op'[d] = op[d]
        /\ UNCHANGED <<ran, recorded, bug, outcome, result>> /\ outcome = "running"
    BY <1>4 DEF Call, Write, Read, Return, TypeInv, recorder, Driving
  <2>2. Holding' = Holding
    BY <2>1 DEF Holding
  <2>3. \A d \in Clients : pc'[d] = "numbered" =>
            pc[d] = "numbered" /\ op'[d] = op[d] /\ Ran(d)' = Ran(d)
    BY <2>1 DEF Ran
  <2>4. QED
    BY <2>1, <2>2, <2>3 DEF RecordInv, Driven, IsCutOf, Microseconds
<1>5. CASE Collect
  <2>1. /\ UNCHANGED <<pc, op, ran, recorded>> /\ result' = Register(sortByCall(recorded))
        /\ \A c \in Clients : count[c] = OpsPerClient
    BY <1>5 DEF Collect, recorder
  <2>2. Holding = {}
    <3>1. SUFFICES ASSUME NEW c \in Clients, pc[c] = "numbered"
                   PROVE  FALSE
      BY DEF Holding
    <3>2. count[c] < OpsPerClient /\ count[c] = OpsPerClient
      BY <2>1, <3>1 DEF ClockInv
    <3>3. QED
      BY <3>2, OpsAssumption
  <2>3. Cardinality(Holding) = 0
    BY <2>2, FS_EmptySet
  <2>4. Len(recorded) = Len(ran)
    <3>1. Len(recorded) \in Nat /\ Len(ran) \in Nat
      BY <1>1
    <3>2. QED
      BY <2>3, <3>1 DEF RecordInv
  <2>5. Holding' = Holding /\ \A c \in Clients : Ran(c)' = Ran(c)
    BY <2>1 DEF Holding, Ran
  <2>6. QED
    BY <2>1, <2>4, <2>5 DEF RecordInv, IsCutOf, Microseconds
<1>6. CASE Generate \/ UnknownBug
  <2>1. /\ UNCHANGED <<pc, op, ran, recorded>> /\ ~Driven'
    BY <1>6 DEF Generate, UnknownBug, recorder, Driven, Planted
  <2>2. Holding' = Holding /\ \A c \in Clients : Ran(c)' = Ran(c)
    BY <2>1 DEF Holding, Ran
  <2>3. QED
    BY <2>1, <2>2 DEF RecordInv, IsCutOf, Microseconds
<1>7. CASE (\E v \in flying : Replicate(v)) \/ UNCHANGED vars
  <2>1. UNCHANGED <<pc, op, ran, recorded, bug, outcome, result>>
    BY <1>7 DEF Replicate, recorder, vars
  <2>2. Holding' = Holding /\ \A c \in Clients : Ran(c)' = Ran(c)
    BY <2>1 DEF Holding, Ran
  <2>3. QED
    BY <2>1, <2>2 DEF RecordInv, IsCutOf, Microseconds, Driven
<1>8. QED
  BY <1>2, <1>3, <1>4, <1>5, <1>6, <1>7 DEF Next, ClientStep

-----------------------------------------------------------------------------
(* What the history says *)

LEMMA CutTimesAreTimes == CutTimes \subseteq Nat
<1>1. \A t \in Nat : t \div Grain \in Nat
  BY GrainAssumption
<1>2. QED
  BY <1>1 DEF CutTimes, Microseconds

\* Cutting keeps the order, and a microsecond of difference.
LEMMA CuttingIsMonotone ==
    ASSUME NEW t \in Nat, NEW u \in Nat
    PROVE  /\ t <= u => Microseconds(t) <= Microseconds(u)
           /\ t + Grain <= u => Microseconds(t) < Microseconds(u)
           /\ Microseconds(t) \in Nat
<1>1. t <= u => t \div Grain <= u \div Grain
  BY GrainAssumption
<1>2. t + Grain <= u => t \div Grain < u \div Grain
  BY GrainAssumption
<1>3. t \div Grain \in Nat
  BY GrainAssumption
<1>4. QED
  BY <1>1, <1>2, <1>3 DEF Microseconds

\* The operation of a history that has been written is the cut of one that ran.
ComesFrom(e) ==
    /\ e.id + 1 \in DOMAIN ran
    /\ IsCutOf(e, ran[e.id + 1])

LEMMA WrittenHistory ==
    ASSUME TypeInv, IdsInv, RecordInv, Driven
    PROVE  /\ result.model = "register" /\ result.init = 0
           /\ result.ops \in Seq(Recorded)
           /\ Len(result.ops) = Len(ran)
           /\ InOrder(result.ops)
           /\ DistinctIds(result.ops)
           /\ \A e \in OpsOf(result) : e \in Recorded /\ ComesFrom(e)
           /\ \A a \in DOMAIN recorded : recorded[a] \in OpsOf(result)
<1> DEFINE q == sortByCall(recorded)
           n == Len(recorded)
<1>1. result = Register(q) /\ n = Len(ran)
  BY DEF RecordInv
<1>2. recorded \in Seq(Recorded) /\ \A r \in Recorded : r.call \in Nat
  BY CutTimesAreTimes DEF TypeInv, Recorded
<1>3. DistinctIds(recorded)
  BY DEF IdsInv, IdsAreDistinct, DistinctIds
<1>4. q \in Seq(Recorded) /\ SortedSoFar(recorded, n, q)
  <2>1. q = SortedByCalls(recorded)
    BY DEF sortByCall, SortedByCalls
  <2>2. QED
    BY <1>2, <1>3, <2>1, SortSorts
<1> HIDE DEF q
<1>5. result.model = "register" /\ result.init = 0 /\ result.ops = q
  BY <1>1 DEF Register
<1>6. ASSUME NEW e \in OpsOf(result)
      PROVE  e \in Recorded /\ ComesFrom(e)
  <2>1. PICK j \in DOMAIN q : e = q[j]
    BY <1>5 DEF OpsOf, Range
  <2>2. j \in 1..n /\ Len(q) = n
    <3>1. Len(q) = n /\ DOMAIN q = 1..Len(q)
      BY <1>4 DEF SortedSoFar
    <3>2. QED
      BY <2>1, <3>1
  <2>3. PICK i \in 1..n : q[j] = recorded[i]
    BY <1>4, <2>2 DEF SortedSoFar
  <2>4. i \in DOMAIN recorded /\ e = recorded[i] /\ recorded[i] \in Recorded
    BY <1>2, <2>1, <2>3
  <2>5. QED
    BY <2>4 DEF RecordInv, ComesFrom
<1>7. ASSUME NEW a \in DOMAIN recorded
      PROVE  recorded[a] \in OpsOf(result)
  <2>1. a \in 1..n /\ Len(q) = n /\ DOMAIN q = 1..n
    BY <1>2, <1>4 DEF SortedSoFar
  <2>2. PICK j \in 1..n : q[j] = recorded[a]
    BY <1>4, <2>1 DEF SortedSoFar
  <2>3. QED
    BY <1>5, <2>1, <2>2 DEF OpsOf, Range
<1>8. QED
  BY <1>1, <1>4, <1>5, <1>6, <1>7 DEF SortedSoFar

LEMMA RanTimes ==
    ASSUME TypeInv, ClockInv, NEW k \in DOMAIN ran
    PROVE  /\ ran[k].call \in Nat /\ ran[k].return \in Nat
           /\ ran[k].call < ran[k].return
BY RanTypes DEF ClockInv

LEMMA HistoryOfTheRun ==
    ASSUME TypeInv, ClockInv, IdsInv, RecordInv
    PROVE  HistoryIsWhatRan
<1>1. SUFFICES ASSUME Driven
               PROVE  /\ Valid(result)
                      /\ Len(result.ops) = Len(ran)
                      /\ \A e \in OpsOf(result) :
                            LET r == ran[e.id + 1]
                            IN  e.client = r.client /\ e.type = r.type /\ e.value = r.value
                      /\ \A a, b \in DOMAIN result.ops :
                            a < b => result.ops[a].call <= result.ops[b].call
  BY DEF HistoryIsWhatRan
<1>2. \A e \in OpsOf(result) : e.call <= e.return
  <2>1. SUFFICES ASSUME NEW e \in OpsOf(result)
                 PROVE  e.call <= e.return
    OBVIOUS
  <2> DEFINE r == ran[e.id + 1]
  <2>2. e.id + 1 \in DOMAIN ran /\ IsCutOf(e, r)
    BY <1>1, <2>1, WrittenHistory DEF ComesFrom
  <2>3. r.call \in Nat /\ r.return \in Nat /\ r.call < r.return
    BY <2>2, RanTimes
  <2>4. Microseconds(r.call) <= Microseconds(r.return)
    BY <2>3, CuttingIsMonotone
  <2>5. QED
    BY <2>2, <2>4 DEF IsCutOf
<1>3. Valid(result)
  BY <1>1, <1>2, WrittenHistory DEF Valid, DistinctIds
<1>4. QED
  BY <1>1, <1>3, WrittenHistory DEF IsCutOf, ComesFrom, InOrder

LEMMA OrderOfTheRun ==
    ASSUME TypeInv, ClockInv, IdsInv, RecordInv
    PROVE  TruncationRelaxesOrder
<1>1. SUFFICES ASSUME NEW a \in OpsOf(result), NEW b \in OpsOf(result), Driven
               PROVE  /\ Precedes(a, b) => ran[a.id + 1].return < ran[b.id + 1].call
                      /\ ran[a.id + 1].return + Grain <= ran[b.id + 1].call => Precedes(a, b)
  BY DEF TruncationRelaxesOrder
<1> DEFINE t == ran[a.id + 1].return
           u == ran[b.id + 1].call
<1>2. /\ a.id + 1 \in DOMAIN ran /\ b.id + 1 \in DOMAIN ran
      /\ a.return = Microseconds(t) /\ b.call = Microseconds(u)
  BY <1>1, WrittenHistory DEF ComesFrom, IsCutOf
<1>3. t \in Nat /\ u \in Nat
  BY <1>2, RanTimes
<1> HIDE DEF t, u
<1>4. /\ u <= t => Microseconds(u) <= Microseconds(t)
      /\ t + Grain <= u => Microseconds(t) < Microseconds(u)
      /\ Microseconds(t) \in Nat /\ Microseconds(u) \in Nat
  BY <1>3, CuttingIsMonotone
<1>5. /\ Microseconds(t) < Microseconds(u) => t < u
      /\ t + Grain <= u => Microseconds(t) < Microseconds(u)
  <2>1. ASSUME Microseconds(t) < Microseconds(u)
        PROVE  t < u
    <3>1. ~(u <= t)
      BY <1>4, <2>1
    <3>2. QED
      BY <1>3, <3>1
  <2>2. QED
    BY <1>4, <2>1
<1>6. QED
  BY <1>2, <1>5 DEF Precedes, t, u

RunInv == TypeInv /\ ClockInv /\ IdsInv /\ RecordInv

LEMMA RunInvHolds == Spec => []RunInv
<1>1. Init => RunInv
  BY InitTypes, InitClock, InitIds, InitRecord DEF RunInv
<1>2. RunInv /\ [Next]_vars => RunInv'
  BY StepTypes, StepClock, StepIds, StepRecord DEF RunInv
<1>3. QED
  BY <1>1, <1>2, PTL DEF Spec

\* The history of the driver has every operation that ran, once, with its client,
\* kind and value, ordered by the calls, and is accepted when it is read back.
THEOREM HistoryIsOfTheRun == Spec => []HistoryIsWhatRan
<1>1. RunInv => HistoryIsWhatRan
  BY HistoryOfTheRun DEF RunInv
<1>2. QED
  BY <1>1, RunInvHolds, PTL

\* However fine the clock: the recorded times never order what was not ordered, and
\* keep every order by a microsecond or more.
THEOREM OrderIsOfTheRun == Spec => []TruncationRelaxesOrder
<1>1. RunInv => TruncationRelaxesOrder
  BY OrderOfTheRun DEF RunInv
<1>2. QED
  BY <1>1, RunInvHolds, PTL

-----------------------------------------------------------------------------
(* The follower that is never late *)

\* The operation a client has in hand.
Busy(c) == pc[c] \in {"called", "applied", "returned"}

Writing(c) == op[c].type = "write" /\ pc[c] # "idle"

\* The inductive invariant: the values of the writes in hand are those of their
\* rounds, and a value on its way to the follower is, unless one was late, that of a
\* write that has not returned.  Nobody is busy when the history is written.
ValuesInv ==
    /\ \A c \in Clients : Writing(c) => op[c].value = Written(c)
    /\ late \/ \A v \in flying : \E c \in Clients : Writing(c) /\ pc[c] = "applied" /\ op[c].value = v
    /\ Driven => \A c \in Clients : pc[c] = "idle"

\* The inductive invariant: no two operations have been called at the same moment,
\* and every operation that ran is recorded or still held.
CallsInv ==
    /\ \A j, k \in DOMAIN ran : ran[j].call = ran[k].call => j = k
    /\ \A c, d \in Clients : Busy(c) /\ Busy(d) /\ op[c].call = op[d].call => c = d
    /\ \A c \in Clients, k \in DOMAIN ran : Busy(c) => op[c].call # ran[k].call
    /\ \A c \in Clients : Busy(c) => op[c].call < now
    /\ \A k \in DOMAIN ran : ran[k].call < now
    /\ \A k \in DOMAIN ran :
        \/ \E c \in Clients : pc[c] = "numbered" /\ op[c].id = k - 1
        \/ \E a \in DOMAIN recorded : recorded[a].id = k - 1

LEMMA DifferentValues ==
    ASSUME TypeInv, ClockInv, ValuesInv,
           NEW c \in Clients, NEW d \in Clients, Writing(c), Writing(d), op[c].value = op[d].value
    PROVE  c = d
<1>1. /\ op[c].value = c * 100 + count[c] + 1 /\ op[d].value = d * 100 + count[d] + 1
  BY DEF ValuesInv, Written
<1>2. /\ count[c] \in Nat /\ count[d] \in Nat
      /\ count[c] < OpsPerClient /\ count[d] < OpsPerClient
  BY DEF TypeInv, ClockInv, Writing
<1>3. count[c] \in 0..99 /\ count[d] \in 0..99
  BY <1>2, OpsAssumption
<1>4. c \in Nat /\ d \in Nat
  BY ClientsAssumption
<1>5. c * 100 + count[c] + 1 = d * 100 + count[d] + 1
  BY <1>1
<1> DEFINE x == count[c]
           y == count[d]
<1>6. x \in 0..99 /\ y \in 0..99 /\ c * 100 + x + 1 = d * 100 + y + 1
  BY <1>3, <1>5
<1> HIDE DEF x, y
<1>7. ~(c < d) /\ ~(d < c)
  BY <1>4, <1>6
<1>8. QED
  BY <1>4, <1>7

LEMMA InitValues ==
    ASSUME Init
    PROVE  ValuesInv /\ CallsInv
<1>1. /\ ran = <<>> /\ recorded = <<>> /\ outcome = "running" /\ flying = {}
      /\ \A c \in Clients : pc[c] = "idle"
  BY DEF Init
<1>2. \A k \in DOMAIN ran : FALSE
  BY <1>1
<1>3. QED
  BY <1>1, <1>2 DEF ValuesInv, CallsInv, Busy, Writing, Driven

LEMMA StepValues ==
    ASSUME TypeInv, ClockInv, ValuesInv, [Next]_vars
    PROVE  ValuesInv'
<1> DEFINE Own(c) == Writing(c) => op[c].value = Written(c)
           OnItsWay(v, c) == Writing(c) /\ pc[c] = "applied" /\ op[c].value = v
           Awaited == late \/ \A v \in flying : \E c \in Clients : OnItsWay(v, c)
           Same(c) == pc'[c] = pc[c] /\ op'[c] = op[c] /\ count'[c] = count[c]
<1>1. /\ \A c \in Clients : Own(c)
      /\ Awaited
      /\ Driven => \A c \in Clients : pc[c] = "idle"
  BY DEF ValuesInv
<1>2. \A c \in Clients : Same(c) => Own(c)' /\ \A v : OnItsWay(v, c) => OnItsWay(v, c)'
  BY <1>1 DEF Writing, Written
<1>3. SUFFICES ASSUME TRUE
               PROVE  /\ \A c \in Clients : Own(c)'
                      /\ Awaited'
                      /\ Driven' => \A c \in Clients : pc'[c] = "idle"
  BY DEF ValuesInv
<1>4. ASSUME NEW c \in Clients, Call(c)
      PROVE  /\ \A d \in Clients : Own(d)'
             /\ Awaited' /\ ~Driven'
  <2>1. /\ pc' = [pc EXCEPT ![c] = "called"] /\ pc[c] = "idle" /\ count' = count
        /\ UNCHANGED <<flying, late, outcome>> /\ outcome = "running"
        /\ \A d \in Clients \ {c} : op'[d] = op[d]
        /\ op'[c].type = "write" => op'[c].value = Written(c)
    BY <1>4 DEF Call, TypeInv, kv, Driving, NoOp
  <2>2. \A d \in Clients \ {c} : Same(d)
    BY <2>1 DEF TypeInv
  <2>3. Own(c)'
    BY <2>1 DEF Writing, Written
  <2>4. \A v, d : d \in Clients /\ OnItsWay(v, d) => d # c
    BY <2>1
  <2>5. QED
    BY <1>1, <1>2, <2>1, <2>2, <2>3, <2>4 DEF Driven
<1>5. ASSUME NEW c \in Clients, Write(c)
      PROVE  /\ \A d \in Clients : Own(d)'
             /\ Awaited' /\ ~Driven'
  <2>1. /\ pc' = [pc EXCEPT ![c] = "applied"] /\ pc[c] = "called" /\ op[c].type = "write"
        /\ UNCHANGED <<late, op, count, outcome>> /\ flying' = flying \union {op[c].value}
        /\ outcome = "running"
    BY <1>5 DEF Write, recorder, Driving
  <2>2. \A d \in Clients \ {c} : Same(d)
    BY <2>1 DEF TypeInv
  <2>3. Own(c)' /\ OnItsWay(op[c].value, c)'
    BY <1>1, <2>1 DEF Writing, Written, TypeInv
  <2>4. \A v, d : d \in Clients /\ OnItsWay(v, d) => d # c
    BY <2>1
  <2>5. QED
    BY <1>1, <1>2, <2>1, <2>2, <2>3, <2>4 DEF Driven
<1>6. ASSUME NEW c \in Clients, Read(c)
      PROVE  /\ \A d \in Clients : Own(d)'
             /\ Awaited' /\ ~Driven'
  <2>1. /\ pc' = [pc EXCEPT ![c] = "applied"] /\ pc[c] = "called" /\ op[c].type = "read"
        /\ UNCHANGED <<late, count, outcome, flying>> /\ outcome = "running"
        /\ op'[c].type = op[c].type
        /\ \A d \in Clients \ {c} : op'[d] = op[d]
    BY <1>6 DEF Read, TypeInv, Operation, kv, Driving
  <2>2. \A d \in Clients \ {c} : Same(d)
    BY <2>1 DEF TypeInv
  <2>3. Own(c)'
    BY <2>1 DEF Writing
  <2>4. \A v, d : d \in Clients /\ OnItsWay(v, d) => d # c
    BY <2>1
  <2>5. QED
    BY <1>1, <1>2, <2>1, <2>2, <2>3, <2>4 DEF Driven
<1>7. ASSUME NEW c \in Clients, Return(c)
      PROVE  /\ \A d \in Clients : Own(d)'
             /\ Awaited' /\ ~Driven'
  <2>1. /\ pc' = [pc EXCEPT ![c] = "returned"] /\ pc[c] = "applied"
        /\ UNCHANGED <<count, outcome, flying>> /\ outcome = "running"
        /\ op'[c].type = op[c].type /\ op'[c].value = op[c].value
        /\ \A d \in Clients \ {c} : op'[d] = op[d]
        /\ late' = (late \/ (op[c].type = "write" /\ op[c].value \in flying))
    BY <1>7 DEF Return, TypeInv, Operation, kv, Driving
  <2>2. \A d \in Clients \ {c} : Same(d)
    BY <2>1 DEF TypeInv
  <2>3. Own(c)'
    BY <1>1, <2>1 DEF Writing, Written
  <2>4. ASSUME ~late', NEW v \in flying
        PROVE  \E d \in Clients : OnItsWay(v, d)'
    <3>1. PICK d \in Clients : OnItsWay(v, d)
      BY <1>1, <2>1, <2>4
    <3>2. d # c
      BY <2>1, <2>4, <3>1 DEF Writing
    <3>3. QED
      BY <1>2, <2>2, <3>1, <3>2
  <2>5. QED
    BY <1>1, <1>2, <2>1, <2>2, <2>3, <2>4 DEF Driven
<1>8. ASSUME NEW c \in Clients, TakeID(c)
      PROVE  /\ \A d \in Clients : Own(d)'
             /\ Awaited' /\ ~Driven'
  <2>1. /\ pc' = [pc EXCEPT ![c] = "numbered"] /\ pc[c] = "returned"
        /\ UNCHANGED <<late, count, outcome, flying>> /\ outcome = "running"
        /\ op'[c].type = op[c].type /\ op'[c].value = op[c].value
        /\ \A d \in Clients \ {c} : op'[d] = op[d]
    BY <1>8 DEF TakeID, TypeInv, Operation, kv, Driving
  <2>2. \A d \in Clients \ {c} : Same(d)
    BY <2>1 DEF TypeInv
  <2>3. Own(c)'
    BY <1>1, <2>1 DEF Writing, Written
  <2>4. \A v, d : d \in Clients /\ OnItsWay(v, d) => d # c
    BY <2>1
  <2>5. QED
    BY <1>1, <1>2, <2>1, <2>2, <2>3, <2>4 DEF Driven
<1>9. ASSUME NEW c \in Clients, AppendOp(c)
      PROVE  /\ \A d \in Clients : Own(d)'
             /\ Awaited' /\ ~Driven'
  <2>1. /\ pc' = [pc EXCEPT ![c] = "idle"] /\ pc[c] = "numbered"
        /\ count' = [count EXCEPT ![c] = @ + 1]
        /\ UNCHANGED <<late, op, outcome, flying>> /\ outcome = "running"
    BY <1>9 DEF AppendOp, kv, Driving
  <2>2. \A d \in Clients \ {c} : Same(d)
    BY <2>1 DEF TypeInv
  <2>3. Own(c)'
    BY <2>1 DEF Writing, TypeInv
  <2>4. \A v, d : d \in Clients /\ OnItsWay(v, d) => d # c
    BY <2>1
  <2>5. QED
    BY <1>1, <1>2, <2>1, <2>2, <2>3, <2>4 DEF Driven
<1>10. ASSUME NEW v \in flying, Replicate(v)
       PROVE  /\ \A d \in Clients : Own(d)'
              /\ Awaited' /\ Driven' = Driven /\ pc' = pc
  <2>1. /\ UNCHANGED <<pc, op, count, late, bug, outcome>> /\ flying' = flying \ {v}
    BY <1>10 DEF Replicate
  <2>2. QED
    BY <1>1, <1>2, <2>1 DEF Driven
<1>11. CASE Collect
  <2>1. /\ UNCHANGED <<pc, op, count, late, flying>>
        /\ \A c \in Clients : count[c] = OpsPerClient
    BY <1>11 DEF Collect, kv
  <2>2. \A c \in Clients : pc[c] = "idle"
    <3>1. SUFFICES ASSUME NEW c \in Clients, pc[c] # "idle"
                   PROVE  FALSE
      OBVIOUS
    <3>2. count[c] < OpsPerClient /\ count[c] = OpsPerClient
      BY <2>1, <3>1 DEF ClockInv
    <3>3. QED
      BY <3>2, OpsAssumption
  <2>3. QED
    BY <1>1, <1>2, <2>1, <2>2
<1>12. CASE Generate \/ UnknownBug
  <2>1. UNCHANGED <<pc, op, count, late, flying>> /\ ~Driven'
    BY <1>12 DEF Generate, UnknownBug, kv, Driven, Planted
  <2>2. QED
    BY <1>1, <1>2, <2>1
<1>13. CASE UNCHANGED vars
  <2>1. UNCHANGED <<pc, op, count, late, flying, bug, outcome>>
    BY <1>13 DEF vars, kv
  <2>2. QED
    BY <1>1, <1>2, <2>1 DEF Driven
<1>14. QED
  BY <1>1, <1>4, <1>5, <1>6, <1>7, <1>8, <1>9, <1>10, <1>11, <1>12, <1>13 DEF Next, ClientStep

LEMMA StepCalls ==
    ASSUME TypeInv, RecordInv, CallsInv, [Next]_vars
    PROVE  CallsInv'
<1> DEFINE Apart == \A c, d \in Clients : Busy(c) /\ Busy(d) /\ op[c].call = op[d].call => c = d
           ApartFromRan ==
              \A c \in Clients, k \in DOMAIN ran : Busy(c) => op[c].call # ran[k].call
           Past == \A c \in Clients : Busy(c) => op[c].call < now
           RanApart == \A j, k \in DOMAIN ran : ran[j].call = ran[k].call => j = k
           RanPast == \A k \in DOMAIN ran : ran[k].call < now
           Kept(k) == \/ \E c \in Clients : pc[c] = "numbered" /\ op[c].id = k - 1
                      \/ \E a \in DOMAIN recorded : recorded[a].id = k - 1
<1>1. Apart /\ ApartFromRan /\ Past /\ RanApart /\ RanPast /\ \A k \in DOMAIN ran : Kept(k)
  BY DEF CallsInv
<1>2. now \in Nat /\ (\A c \in Clients : op[c].call \in Nat /\ op[c].id \in Nat)
  BY DEF TypeInv, Operation
<1>3. \A k \in DOMAIN ran : ran[k].call \in Nat
  BY RanTypes
<1>4. SUFFICES Apart' /\ ApartFromRan' /\ Past' /\ RanApart' /\ RanPast'
               /\ \A k \in DOMAIN ran' : Kept(k)'
  BY DEF CallsInv, Busy
<1>5. ASSUME NEW c \in Clients, Call(c)
      PROVE  /\ Apart' /\ ApartFromRan' /\ Past' /\ RanApart' /\ RanPast'
             /\ \A k \in DOMAIN ran' : Kept(k)'
  <2>1. /\ pc' = [pc EXCEPT ![c] = "called"] /\ pc[c] = "idle" /\ now' = now + 1
        /\ UNCHANGED <<ran, recorded>>
        /\ op'[c].call = now /\ \A d \in Clients \ {c} : op'[d] = op[d]
    BY <1>5 DEF Call, TypeInv, recorder, Now, NoOp
  <2>2. \A d \in Clients \ {c} : pc'[d] = pc[d] /\ op'[d] = op[d] /\ Busy(d)' = Busy(d)
    BY <2>1 DEF TypeInv, Busy
  <2>3. Past' /\ RanApart' /\ RanPast'
    BY <1>1, <1>2, <1>3, <2>1, <2>2
  <2>4. Apart'
    BY <1>1, <1>2, <2>1, <2>2
  <2>5. ApartFromRan'
    BY <1>1, <1>2, <1>3, <2>1, <2>2
  <2>6. \A d \in Clients : pc[d] = "numbered" => pc'[d] = "numbered" /\ op'[d] = op[d]
    BY <2>1, <2>2
  <2>7. QED
    BY <1>1, <2>1, <2>3, <2>4, <2>5, <2>6
<1>6. ASSUME NEW c \in Clients, Write(c) \/ Read(c) \/ Return(c)
      PROVE  /\ Apart' /\ ApartFromRan' /\ Past' /\ RanApart' /\ RanPast'
             /\ \A k \in DOMAIN ran' : Kept(k)'
  <2>1. /\ pc[c] \in {"called", "applied"} /\ pc'[c] \in {"applied", "returned"}
        /\ now' = now \/ now' = now + 1
        /\ UNCHANGED <<ran, recorded>>
        /\ op'[c].call = op[c].call
        /\ \A d \in Clients \ {c} : pc'[d] = pc[d] /\ op'[d] = op[d]
    BY <1>6 DEF Write, Read, Return, TypeInv, Operation, recorder, Now
  <2>2. \A d \in Clients : Busy(d)' = Busy(d) /\ op'[d].call = op[d].call
    BY <2>1 DEF Busy
  <2>3. \A d \in Clients : pc[d] = "numbered" => pc'[d] = "numbered" /\ op'[d] = op[d]
    BY <2>1
  <2>4. Past' /\ RanPast'
    BY <1>1, <1>2, <1>3, <2>1, <2>2
  <2>5. QED
    BY <1>1, <2>1, <2>2, <2>3, <2>4
<1>7. ASSUME NEW c \in Clients, TakeID(c)
      PROVE  /\ Apart' /\ ApartFromRan' /\ Past' /\ RanApart' /\ RanPast'
             /\ \A k \in DOMAIN ran' : Kept(k)'
  <2> DEFINE n == Len(ran)
             new == Ran(c)
  <2>1. /\ pc' = [pc EXCEPT ![c] = "numbered"] /\ pc[c] = "returned"
        /\ UNCHANGED <<recorded, now>> /\ ran' = Append(ran, new)
        /\ op'[c].id = n /\ \A d \in Clients \ {c} : op'[d] = op[d]
    BY <1>7 DEF TakeID, TypeInv, Operation
  <2>2. new \in RanOperation /\ new.call = op[c].call
    BY DEF Ran, RanOperation, TypeInv, Operation
  <2> HIDE DEF new
  <2>3. /\ DOMAIN ran = 1..n /\ DOMAIN ran' = 1..n + 1 /\ n \in Nat
        /\ \A k \in 1..n : ran'[k] = ran[k]
        /\ ran'[n + 1] = new
    <3>1. ran \in Seq(RanOperation)
      BY DEF TypeInv
    <3>2. QED
      BY <2>1, <2>2, <3>1
  <2>4. Busy(c) /\ ~Busy(c)'
    BY <2>1 DEF Busy, TypeInv
  <2>5. \A d \in Clients \ {c} : pc'[d] = pc[d] /\ op'[d] = op[d] /\ Busy(d)' = Busy(d)
    BY <2>1 DEF TypeInv, Busy
  <2>6. Apart' /\ Past'
    BY <1>1, <2>1, <2>4, <2>5
  <2>7. \A k \in 1..n + 1 : k = n + 1 \/ k \in 1..n
    BY <2>3
  <2>8. ApartFromRan'
    <3>1. SUFFICES ASSUME NEW d \in Clients, NEW k \in 1..n + 1, Busy(d)'
                   PROVE  op'[d].call # ran'[k].call
      BY <2>3
    <3>2. d # c /\ Busy(d) /\ op'[d] = op[d]
      BY <2>4, <2>5, <3>1
    <3>3. CASE k = n + 1
      BY <1>1, <2>2, <2>3, <2>4, <3>2, <3>3
    <3>4. CASE k \in 1..n
      BY <1>1, <2>3, <3>2, <3>4
    <3>5. QED
      BY <2>7, <3>3, <3>4
  <2>9. RanApart'
    <3>1. SUFFICES ASSUME NEW j \in 1..n + 1, NEW k \in 1..n + 1, ran'[j].call = ran'[k].call
                   PROVE  j = k
      BY <2>3
    <3>2. \A i \in 1..n : ran[i].call # new.call
      BY <1>1, <2>2, <2>3, <2>4
    <3>3. QED
      BY <1>1, <2>3, <2>7, <3>1, <3>2
  <2>10. RanPast'
    BY <1>1, <2>1, <2>2, <2>3, <2>4, <2>7
  <2>11. ASSUME NEW k \in 1..n + 1
         PROVE  Kept(k)'
    <3>1. CASE k = n + 1
      <4>1. pc'[c] = "numbered" /\ op'[c].id = k - 1
        BY <2>1, <2>3, <3>1 DEF TypeInv
      <4>2. QED
        BY <4>1
    <3>2. CASE k \in 1..n
      <4>1. Kept(k)
        BY <1>1, <2>3, <3>2
      <4>2. \A d \in Clients : pc[d] = "numbered" => pc'[d] = "numbered" /\ op'[d] = op[d]
        BY <2>1, <2>5
      <4>3. QED
        BY <2>1, <4>1, <4>2
    <3>3. QED
      BY <2>7, <3>1, <3>2
  <2>12. QED
    BY <2>3, <2>6, <2>8, <2>9, <2>10, <2>11
<1>8. ASSUME NEW c \in Clients, AppendOp(c)
      PROVE  /\ Apart' /\ ApartFromRan' /\ Past' /\ RanApart' /\ RanPast'
             /\ \A k \in DOMAIN ran' : Kept(k)'
  <2> DEFINE n == Len(recorded)
             e == Entry(c)
  <2>1. /\ pc' = [pc EXCEPT ![c] = "idle"] /\ pc[c] = "numbered"
        /\ UNCHANGED <<op, ran, now>> /\ recorded' = Append(recorded, e)
    BY <1>8 DEF AppendOp
  <2>2. e.id = op[c].id
    BY DEF Entry
  <2> HIDE DEF e
  <2>3. /\ DOMAIN recorded = 1..n /\ DOMAIN recorded' = 1..n + 1 /\ n \in Nat
        /\ \A a \in 1..n : recorded'[a] = recorded[a]
        /\ recorded'[n + 1] = e
    <3>1. recorded \in Seq(Recorded)
      BY DEF TypeInv
    <3>2. QED
      BY <2>1, <3>1
  <2>4. \A d \in Clients : Busy(d)' = Busy(d)
    BY <2>1 DEF Busy, TypeInv
  <2>5. Apart' /\ ApartFromRan' /\ Past' /\ RanApart' /\ RanPast'
    BY <1>1, <2>1, <2>4
  <2>6. ASSUME NEW k \in DOMAIN ran
        PROVE  Kept(k)'
    <3>1. Kept(k)
      BY <1>1
    <3>2. ASSUME NEW d \in Clients, pc[d] = "numbered", op[d].id = k - 1
          PROVE  Kept(k)'
      <4>1. CASE d = c
        <5>1. n + 1 \in DOMAIN recorded' /\ recorded'[n + 1].id = k - 1
          BY <2>2, <2>3, <3>2, <4>1
        <5>2. QED
          BY <5>1
      <4>2. CASE d # c
        <5>1. pc'[d] = "numbered" /\ op'[d].id = k - 1
          BY <2>1, <3>2, <4>2 DEF TypeInv
        <5>2. QED
          BY <5>1
      <4>3. QED
        BY <4>1, <4>2
    <3>3. ASSUME NEW a \in DOMAIN recorded, recorded[a].id = k - 1
          PROVE  Kept(k)'
      <4>1. a \in DOMAIN recorded' /\ recorded'[a].id = k - 1
        BY <2>3, <3>3
      <4>2. QED
        BY <4>1
    <3>4. QED
      BY <3>1, <3>2, <3>3
  <2>7. QED
    BY <2>1, <2>5, <2>6
<1>9. CASE (\E v \in flying : Replicate(v)) \/ Collect \/ Generate \/ UnknownBug \/ UNCHANGED vars
  <2>1. UNCHANGED <<pc, op, ran, recorded, now>>
    BY <1>9 DEF Replicate, Collect, Generate, UnknownBug, vars, recorder
  <2>2. QED
    BY <1>1, <2>1 DEF Busy
<1>10. QED
  BY <1>5, <1>6, <1>7, <1>8, <1>9 DEF Next, ClientStep

\* An operation that has taken effect, and when it returned.
Open == -1
Effect == [type : Types, value : Nat, call : Nat, until : Nat \union {Open}]

EffectOf(o, until) == [type |-> o.type, value |-> o.value, call |-> o.call, until |-> until]

\* The clients whose read has been served, or whose write has been replicated.
InHand ==
    {c \in Clients :
        /\ pc[c] \in {"applied", "returned"}
        /\ op[c].type = "read" \/ op[c].value \notin flying}

Until(c) == IF pc[c] = "returned" THEN op[c].return ELSE Open

Effects ==
    {EffectOf(ran[k], ran[k].return) : k \in DOMAIN ran}
        \union {EffectOf(op[c], Until(c)) : c \in InHand}

\* Up to the time t the follower has had the values reg at the moments 0..n, which
\* were at the times "when"; the operation called at u took effect at moment at[u].
Told(E, n, reg, at, when, last, t) ==
    /\ n \in Nat /\ reg \in [Nat -> Nat] /\ at \in [Nat -> Nat] /\ when \in [Nat -> Nat]
    /\ reg[0] = 0 /\ reg[n] = last
    /\ \A i, j \in 1..n : i <= j => when[i] <= when[j]
    /\ \A i \in 1..n : when[i] <= t
    /\ ChangesOnlyAt(reg, n, {at[e.call] : e \in {f \in E : f.type = "write"}})
    /\ \A e \in E :
        /\ at[e.call] \in 1..n /\ reg[at[e.call]] = e.value
        /\ e.call < when[at[e.call]]
        /\ e.until # Open => when[at[e.call]] <= e.until
    /\ \A e, f \in E : at[e.call] = at[f.call] => e.call = f.call

\* The inductive invariant: unless a write was late, the follower has been the
\* register that the operations of the run describe.
EffectInv == late \/ \E n, reg, at, when : Told(Effects, n, reg, at, when, follower, now)

\* The operations of F are those of E, some of which have returned at t.
SameEffects(E, F, t) ==
    /\ \A f \in F : \E e \in E :
        /\ f.type = e.type /\ f.value = e.value /\ f.call = e.call
        /\ f.until = e.until \/ f.until = t
    /\ \A e \in E : \E f \in F : f.type = e.type /\ f.value = e.value /\ f.call = e.call

LEMMA ToldStill ==
    ASSUME NEW E \in SUBSET Effect, NEW F, NEW t \in Nat, NEW u \in Nat,
           t <= u, SameEffects(E, F, t),
           NEW n, NEW reg, NEW at, NEW when, NEW last, Told(E, n, reg, at, when, last, t)
    PROVE  Told(F, n, reg, at, when, last, u)
<1> DEFINE W(G) == {at[e.call] : e \in {f \in G : f.type = "write"}}
<1>1. W(F) = W(E)
  <2>1. \A x : x \in W(F) <=> \E f \in F : f.type = "write" /\ x = at[f.call]
    OBVIOUS
  <2>2. \A x : x \in W(E) <=> \E e \in E : e.type = "write" /\ x = at[e.call]
    OBVIOUS
  <2> HIDE DEF W
  <2>3. \A x : x \in W(F) => x \in W(E)
    BY <2>1, <2>2 DEF SameEffects
  <2>4. \A x : x \in W(E) => x \in W(F)
    BY <2>1, <2>2 DEF SameEffects
  <2>5. QED
    BY <2>3, <2>4
<1>2. /\ n \in Nat /\ reg \in [Nat -> Nat] /\ at \in [Nat -> Nat] /\ when \in [Nat -> Nat]
      /\ reg[0] = 0 /\ reg[n] = last
      /\ \A i, j \in 1..n : i <= j => when[i] <= when[j]
      /\ \A i \in 1..n : when[i] <= t
      /\ ChangesOnlyAt(reg, n, W(E))
      /\ \A e \in E :
          /\ at[e.call] \in 1..n /\ reg[at[e.call]] = e.value
          /\ e.call < when[at[e.call]]
          /\ e.until # Open => when[at[e.call]] <= e.until
      /\ \A e, f \in E : at[e.call] = at[f.call] => e.call = f.call
  BY DEF Told
<1> HIDE DEF W
<1>3. \A i \in 1..n : when[i] <= u
  BY <1>2
<1>4. ASSUME NEW f \in F
      PROVE  /\ at[f.call] \in 1..n /\ reg[at[f.call]] = f.value
             /\ f.call < when[at[f.call]]
             /\ f.until # Open => when[at[f.call]] <= f.until
  <2>1. PICK e \in E : /\ f.type = e.type /\ f.value = e.value /\ f.call = e.call
                       /\ f.until = e.until \/ f.until = t
    BY DEF SameEffects
  <2>2. QED
    BY <1>2, <2>1
<1>5. \A e, f \in F : at[e.call] = at[f.call] => e.call = f.call
  BY <1>2 DEF SameEffects
<1>6. QED
  BY <1>1, <1>2, <1>3, <1>4, <1>5 DEF Told, W

LEMMA ToldOneMore ==
    ASSUME NEW E \in SUBSET Effect, NEW e \in Effect, NEW t \in Nat,
           NEW n, NEW reg, NEW at, NEW when, NEW last, Told(E, n, reg, at, when, last, t),
           \A f \in E : f.call # e.call, e.call < t, e.until = Open,
           e.type = "write" \/ e.value = last
    PROVE  \E m, reg2, at2, when2 : Told(E \union {e}, m, reg2, at2, when2, e.value, t)
<1> DEFINE W(G, a) == {a[g.call] : g \in {f \in G : f.type = "write"}}
           m == n + 1
           reg2 == [reg EXCEPT ![m] = e.value]
           at2 == [at EXCEPT ![e.call] = m]
           when2 == [when EXCEPT ![m] = t]
           F == E \union {e}
<1>1. /\ n \in Nat /\ reg \in [Nat -> Nat] /\ at \in [Nat -> Nat] /\ when \in [Nat -> Nat]
      /\ reg[0] = 0 /\ reg[n] = last
      /\ \A i, j \in 1..n : i <= j => when[i] <= when[j]
      /\ \A i \in 1..n : when[i] <= t
      /\ ChangesOnlyAt(reg, n, W(E, at))
      /\ \A f \in E :
          /\ at[f.call] \in 1..n /\ reg[at[f.call]] = f.value
          /\ f.call < when[at[f.call]]
          /\ f.until # Open => when[at[f.call]] <= f.until
      /\ \A f, g \in E : at[f.call] = at[g.call] => f.call = g.call
  BY DEF Told
<1>2. \A f \in F : f.call \in Nat /\ f.value \in Nat /\ f.type \in Types
  BY DEF Effect
<1>3. e \in F /\ E \subseteq F /\ \A f \in F : f \in E \/ f = e
  OBVIOUS
<1>4. \A x : x \in W(E, at) <=> \E f \in E : f.type = "write" /\ x = at[f.call]
  OBVIOUS
<1>5. \A x : x \in W(F, at2) <=> \E f \in F : f.type = "write" /\ x = at2[f.call]
  OBVIOUS
<1> HIDE DEF W
<1>6. /\ m \in Nat /\ m \notin 1..n /\ m \in 1..m /\ m # 0 /\ m # n /\ m - 1 = n
      /\ \A i \in 1..m : i \in 1..n \/ i = m
      /\ \A i \in 1..n : i \in 1..m /\ i # m /\ i <= m /\ ~(m <= i) /\ i - 1 # m /\ i - 1 \in Nat
  BY <1>1
<1> HIDE DEF m, F
<1>7. /\ reg2 \in [Nat -> Nat] /\ reg2[m] = e.value /\ \A i \in Nat : i # m => reg2[i] = reg[i]
  BY <1>1, <1>2, <1>3, <1>6
<1>8. /\ when2 \in [Nat -> Nat] /\ when2[m] = t /\ \A i \in Nat : i # m => when2[i] = when[i]
  BY <1>1, <1>6
<1>9. /\ at2 \in [Nat -> Nat] /\ at2[e.call] = m
      /\ \A f \in E : at2[f.call] = at[f.call]
  BY <1>1, <1>2, <1>3, <1>6
<1> HIDE DEF reg2, when2, at2
<1>10. reg2[0] = 0
  BY <1>1, <1>6, <1>7
<1>11. \A i \in 1..m : when2[i] <= t
  <2>1. \A i \in 1..n : when2[i] = when[i]
    BY <1>1, <1>6, <1>8
  <2>2. when2[m] <= t
    BY <1>8
  <2>3. \A i \in 1..n : when2[i] <= t
    BY <1>1, <2>1
  <2>4. QED
    BY <1>6, <2>2, <2>3
<1>12. ASSUME NEW i \in 1..m, NEW j \in 1..m, i <= j
       PROVE  when2[i] <= when2[j]
  <2>1. CASE j = m
    BY <1>8, <1>11, <2>1
  <2>2. CASE j \in 1..n
    <3>1. i \in 1..n
      BY <1>6, <1>12, <2>2
    <3>2. when2[i] = when[i] /\ when2[j] = when[j]
      BY <1>6, <1>8, <2>2, <3>1
    <3>3. QED
      BY <1>1, <1>12, <2>2, <3>1, <3>2
  <2>3. QED
    BY <1>6, <2>1, <2>2
<1>13. ChangesOnlyAt(reg2, m, W(F, at2))
  <2>1. \A x \in W(F, at2) : x \in 1..m
    BY <1>1, <1>3, <1>5, <1>6, <1>9
  <2>2. ASSUME NEW i \in 1..m, i \notin W(F, at2)
        PROVE  reg2[i] = reg2[i - 1]
    <3>1. CASE i \in 1..n
      <4>1. i \notin W(E, at)
        BY <1>3, <1>4, <1>5, <1>9, <2>2
      <4>2. reg[i] = reg[i - 1]
        BY <1>1, <3>1, <4>1 DEF ChangesOnlyAt
      <4>3. QED
        BY <1>6, <1>7, <3>1, <4>2
    <3>2. CASE i = m
      <4>1. e.type # "write"
        BY <1>3, <1>5, <1>9, <2>2, <3>2
      <4>2. reg2[n] = reg[n]
        BY <1>1, <1>6, <1>7
      <4>3. QED
        BY <1>1, <1>6, <1>7, <3>2, <4>1, <4>2
    <3>3. QED
      BY <1>6, <3>1, <3>2
  <2>3. QED
    BY <2>1, <2>2 DEF ChangesOnlyAt
<1>14. ASSUME NEW f \in F
       PROVE  /\ at2[f.call] \in 1..m /\ reg2[at2[f.call]] = f.value
              /\ f.call < when2[at2[f.call]]
              /\ f.until # Open => when2[at2[f.call]] <= f.until
  <2>1. CASE f = e
    BY <1>6, <1>7, <1>8, <1>9, <2>1
  <2>2. CASE f \in E
    <3> DEFINE i == at[f.call]
    <3>1. i \in 1..n /\ at2[f.call] = i /\ i \in Nat
      BY <1>1, <1>9, <2>2
    <3>2. reg2[i] = reg[i] /\ when2[i] = when[i]
      BY <1>6, <1>7, <1>8, <3>1
    <3>3. QED
      BY <1>1, <1>6, <2>2, <3>1, <3>2
  <2>3. QED
    BY <1>3, <2>1, <2>2
<1>15. ASSUME NEW f \in F, NEW g \in F, at2[f.call] = at2[g.call]
       PROVE  f.call = g.call
  <2>1. \A d \in E : at2[d.call] # m
    BY <1>1, <1>6, <1>9
  <2>2. CASE f \in E /\ g \in E
    BY <1>1, <1>9, <1>15, <2>2
  <2>3. CASE f = e \/ g = e
    <3>1. f = e /\ g = e
      BY <1>3, <1>9, <1>15, <2>1, <2>3
    <3>2. QED
      BY <3>1
  <2>4. QED
    BY <1>3, <2>2, <2>3
<1>16. Told(F, m, reg2, at2, when2, e.value, t)
  BY <1>6, <1>7, <1>8, <1>9, <1>10, <1>11, <1>12, <1>13, <1>14, <1>15 DEF Told, W
<1>17. QED
  BY <1>16 DEF F

LEMMA EffectMembers ==
    /\ \A e : e \in Effects <=> \/ \E k \in DOMAIN ran : e = EffectOf(ran[k], ran[k].return)
                                \/ \E c \in InHand : e = EffectOf(op[c], Until(c))
    /\ \A e : e \in Effects' <=> \/ \E k \in DOMAIN ran' : e = EffectOf(ran'[k], ran'[k].return)
                                 \/ \E c \in InHand' : e = EffectOf(op'[c], Until(c)')
BY DEF Effects

LEMMA EffectsOfOperations == \A o \in Operation, u \in Nat \union {Open} : EffectOf(o, u) \in Effect
BY DEF Operation, EffectOf, Effect

LEMMA EffectTypes ==
    ASSUME TypeInv
    PROVE  Effects \in SUBSET Effect
<1>1. \A o \in Operation, u \in Nat \union {Open} : EffectOf(o, u) \in Effect
  BY EffectsOfOperations
<1>2. \A o \in RanOperation : EffectOf(o, o.return) \in Effect
  BY DEF RanOperation, EffectOf, Effect
<1>3. \A c \in Clients : op[c] \in Operation /\ Until(c) \in Nat \union {Open}
  BY DEF TypeInv, Operation, Until
<1>4. \A k \in DOMAIN ran : ran[k] \in RanOperation
  <2>1. ran \in Seq(RanOperation)
    BY DEF TypeInv
  <2>2. QED
    BY <2>1
<1>5. \A c \in InHand : c \in Clients
  BY DEF InHand
<1>6. ASSUME NEW e \in Effects
      PROVE  e \in Effect
  <2>1. ASSUME NEW k \in DOMAIN ran, e = EffectOf(ran[k], ran[k].return)
        PROVE  e \in Effect
    BY <1>2, <1>4, <2>1
  <2>2. ASSUME NEW c \in InHand, e = EffectOf(op[c], Until(c))
        PROVE  e \in Effect
    BY <1>1, <1>3, <1>5, <2>2
  <2>3. QED
    BY <2>1, <2>2, EffectMembers
<1>7. QED
  BY <1>6

\* A step of one client that has nothing of its own in effect, before or after.
LEMMA NothingNew ==
    ASSUME NEW c \in Clients, c \notin InHand, c \notin InHand', ran' = ran,
           \A d \in Clients \ {c} : pc'[d] = pc[d] /\ op'[d] = op[d],
           \A d \in Clients \ {c} : d \in InHand' <=> d \in InHand
    PROVE  \A e : e \in Effects' <=> e \in Effects
<1>1. \A d \in Clients \ {c} :
        op'[d] = op[d] /\ Until(d)' = Until(d)
  BY DEF Until
<1>2. \A d \in InHand : d \in Clients
  BY DEF InHand
<1>3. \A d \in InHand' : d \in Clients
  BY DEF InHand
<1>4. \A d : d \in InHand' <=> d \in InHand
  BY <1>2, <1>3
<1>5. \A d \in InHand : d \in Clients \ {c}
  BY <1>2
<1>6. ran' = ran
  OBVIOUS
<1>7. QED
  BY <1>1, <1>4, <1>5, <1>6, EffectMembers

\* A step of one client by which its operation takes effect.
LEMMA OneTakesEffect ==
    ASSUME NEW c \in Clients, c \notin InHand, c \in InHand', ran' = ran,
           \A d \in Clients \ {c} : pc'[d] = pc[d] /\ op'[d] = op[d],
           \A d \in Clients \ {c} : d \in InHand' <=> d \in InHand,
           NEW e, e = EffectOf(op'[c], Until(c)')
    PROVE  \A f : f \in Effects' <=> f \in Effects \union {e}
<1>1. \A d \in Clients \ {c} :
        op'[d] = op[d] /\ Until(d)' = Until(d)
  BY DEF Until
<1>2. \A d \in InHand : d \in Clients
  BY DEF InHand
<1>3. \A d \in InHand' : d \in Clients
  BY DEF InHand
<1>4. \A d : d \in InHand' <=> d \in InHand \/ d = c
  BY <1>2, <1>3
<1>5. \A d \in InHand : d \in Clients \ {c}
  BY <1>2
<1>6. ran' = ran
  OBVIOUS
<1>7. QED
  BY <1>1, <1>4, <1>5, <1>6, EffectMembers

LEMMA FreshEffect ==
    ASSUME TypeInv, CallsInv, NEW c \in Clients, c \notin InHand, Busy(c)
    PROVE  \A f \in Effects : f.call # op[c].call
<1>1. ASSUME NEW k \in DOMAIN ran
      PROVE  EffectOf(ran[k], ran[k].return).call # op[c].call
  BY DEF CallsInv, EffectOf
<1>2. ASSUME NEW d \in InHand
      PROVE  EffectOf(op[d], Until(d)).call # op[c].call
  <2>1. d \in Clients /\ Busy(d) /\ d # c
    BY DEF InHand, Busy
  <2>2. op[d].call # op[c].call
    BY <2>1 DEF CallsInv
  <2>3. QED
    BY <2>2 DEF EffectOf
<1>3. QED
  BY <1>1, <1>2, EffectMembers

LEMMA EffectsUnchanged ==
    ASSUME TypeInv, TypeInv', EffectInv, \A e : e \in Effects' <=> e \in Effects,
           follower' = follower, now <= now', late' = late
    PROVE  EffectInv'
<1>1. CASE late
  BY <1>1 DEF EffectInv
<1>2. ASSUME NEW n, NEW reg, NEW at, NEW when, Told(Effects, n, reg, at, when, follower, now)
      PROVE  EffectInv'
  <2>1. Effects \in SUBSET Effect /\ now \in Nat /\ now' \in Nat
    BY EffectTypes DEF TypeInv
  <2>2. SameEffects(Effects, Effects', now)
    BY DEF SameEffects
  <2>3. Told(Effects', n, reg, at, when, follower, now')
    BY <1>2, <2>1, <2>2, ToldStill
  <2>4. Told(Effects', n, reg, at, when, follower', now')
    BY <2>3
  <2>5. QED
    BY <2>4 DEF EffectInv
<1>3. QED
  BY <1>1, <1>2 DEF EffectInv

LEMMA EffectAdded ==
    ASSUME TypeInv, TypeInv', CallsInv, EffectInv, now' = now, late' = late,
           NEW c \in Clients, c \notin InHand, Busy(c),
           NEW e \in Effect, e.call = op[c].call, e.until = Open,
           e.type = "write" \/ e.value = follower,
           \A f : f \in Effects' <=> f \in Effects \union {e},
           follower' = e.value
    PROVE  EffectInv'
<1>1. CASE late
  BY <1>1 DEF EffectInv
<1>2. ASSUME NEW n, NEW reg, NEW at, NEW when, Told(Effects, n, reg, at, when, follower, now)
      PROVE  EffectInv'
  <2>1. Effects \in SUBSET Effect /\ now \in Nat
    BY EffectTypes DEF TypeInv
  <2>2. (\A f \in Effects : f.call # e.call) /\ e.call < now
    BY FreshEffect DEF CallsInv
  <2>3. \E m, reg2, at2, when2 : Told(Effects \union {e}, m, reg2, at2, when2, e.value, now)
    BY <1>2, <2>1, <2>2, ToldOneMore
  <2>4. Effects' = Effects \union {e}
    OBVIOUS
  <2>5. \E m, reg2, at2, when2 : Told(Effects', m, reg2, at2, when2, follower', now')
    BY <2>3, <2>4
  <2>6. QED
    BY <2>5 DEF EffectInv
<1>3. QED
  BY <1>1, <1>2 DEF EffectInv

LEMMA InitEffects ==
    ASSUME Init
    PROVE  EffectInv
<1> DEFINE zero == [k \in Nat |-> 0]
<1>1. /\ ran = <<>> /\ follower = 0 /\ now = 0 /\ \A c \in Clients : pc[c] = "idle"
  BY DEF Init
<1>2. \A c : c \notin InHand
  BY <1>1 DEF InHand
<1>3. \A e : e \notin Effects
  BY <1>1, <1>2, EffectMembers
<1>4. zero \in [Nat -> Nat] /\ zero[0] = 0 /\ 0 \in Nat
  OBVIOUS
<1>5. \A i \in 1..0 : FALSE
  OBVIOUS
<1> HIDE DEF zero
<1>6. {zero[e.call] : e \in {f \in Effects : f.type = "write"}} = {}
  BY <1>3
<1>7. ChangesOnlyAt(zero, 0, {})
  BY <1>5 DEF ChangesOnlyAt
<1>8. Told(Effects, 0, zero, zero, zero, follower, now)
  BY <1>1, <1>3, <1>4, <1>5, <1>6, <1>7 DEF Told
<1>9. QED
  BY <1>8 DEF EffectInv

LEMMA StepEffects ==
    ASSUME TypeInv, ClockInv, ValuesInv, CallsInv, EffectInv, [Next]_vars
    PROVE  EffectInv'
<1>1. TypeInv'
  BY StepTypes
<1>2. now \in Nat /\ (\A c \in Clients : op[c] \in Operation /\ op[c].type \in Types)
  BY DEF TypeInv, Operation
<1>3. ASSUME NEW c \in Clients, Call(c)
      PROVE  EffectInv'
  <2>1. /\ pc' = [pc EXCEPT ![c] = "called"] /\ pc[c] = "idle" /\ now' = now + 1
        /\ UNCHANGED <<follower, flying, ran, late>>
        /\ \A d \in Clients \ {c} : op'[d] = op[d]
    BY <1>3 DEF Call, TypeInv, kv, recorder, Now
  <2>2. \A d \in Clients \ {c} : pc'[d] = pc[d] /\ op'[d] = op[d]
    BY <2>1 DEF TypeInv
  <2>3. c \notin InHand /\ c \notin InHand' /\ \A d \in Clients \ {c} : d \in InHand' <=> d \in InHand
    BY <2>1, <2>2 DEF InHand, TypeInv
  <2>4. \A e : e \in Effects' <=> e \in Effects
    BY <2>1, <2>2, <2>3, NothingNew
  <2>5. QED
    BY <1>1, <1>2, <2>1, <2>4, EffectsUnchanged
<1>4. ASSUME NEW c \in Clients, AppendOp(c)
      PROVE  EffectInv'
  <2>1. /\ pc' = [pc EXCEPT ![c] = "idle"] /\ pc[c] = "numbered"
        /\ UNCHANGED <<follower, flying, ran, late, op, now>>
    BY <1>4 DEF AppendOp, kv
  <2>2. \A d \in Clients \ {c} : pc'[d] = pc[d] /\ op'[d] = op[d]
    BY <2>1 DEF TypeInv
  <2>3. c \notin InHand /\ c \notin InHand' /\ \A d \in Clients \ {c} : d \in InHand' <=> d \in InHand
    BY <2>1, <2>2 DEF InHand, TypeInv
  <2>4. \A e : e \in Effects' <=> e \in Effects
    BY <2>1, <2>2, <2>3, NothingNew
  <2>5. QED
    BY <1>1, <1>2, <2>1, <2>4, EffectsUnchanged
<1>5. ASSUME NEW c \in Clients, Write(c)
      PROVE  EffectInv'
  <2>1. /\ pc' = [pc EXCEPT ![c] = "applied"] /\ pc[c] = "called" /\ op[c].type = "write"
        /\ UNCHANGED <<follower, ran, late, op, now>> /\ flying' = flying \union {op[c].value}
    BY <1>5 DEF Write, recorder
  <2>2. \A d \in Clients \ {c} : pc'[d] = pc[d] /\ op'[d] = op[d]
    BY <2>1 DEF TypeInv
  <2>3. c \notin InHand /\ c \notin InHand'
    BY <2>1 DEF InHand
  <2>4. ASSUME NEW d \in Clients \ {c}
        PROVE  d \in InHand' <=> d \in InHand
    <3>1. CASE op[d].type = "read"
      BY <2>1, <2>2, <3>1 DEF InHand
    <3>2. CASE op[d].type = "write" /\ pc[d] \in {"applied", "returned"}
      <4>1. Writing(c) /\ Writing(d)
        BY <2>1, <3>2 DEF Writing
      <4>2. op[d].value # op[c].value
        BY <4>1, DifferentValues
      <4>3. QED
        BY <2>1, <2>2, <3>2, <4>2 DEF InHand
    <3>3. CASE pc[d] \notin {"applied", "returned"}
      BY <2>2, <3>3 DEF InHand
    <3>4. QED
      BY <1>2, <3>1, <3>2, <3>3 DEF Types
  <2>5. \A e : e \in Effects' <=> e \in Effects
    BY <2>1, <2>2, <2>3, <2>4, NothingNew
  <2>6. QED
    BY <1>1, <1>2, <2>1, <2>5, EffectsUnchanged
<1>6. ASSUME NEW c \in Clients, Read(c)
      PROVE  EffectInv'
  <2> DEFINE e == EffectOf(op'[c], Until(c)')
  <2>1. /\ pc' = [pc EXCEPT ![c] = "applied"] /\ pc[c] = "called" /\ op[c].type = "read"
        /\ UNCHANGED <<follower, ran, late, flying, now>>
        /\ op'[c].type = "read" /\ op'[c].value = follower /\ op'[c].call = op[c].call
        /\ \A d \in Clients \ {c} : op'[d] = op[d]
    BY <1>6 DEF Read, TypeInv, Operation, kv, recorder
  <2>2. \A d \in Clients \ {c} : pc'[d] = pc[d] /\ op'[d] = op[d]
    BY <2>1 DEF TypeInv
  <2>3. pc'[c] = "applied" /\ Busy(c)
    BY <2>1 DEF TypeInv, Busy
  <2>4. c \notin InHand /\ c \in InHand' /\ \A d \in Clients \ {c} : d \in InHand' <=> d \in InHand
    BY <2>1, <2>2, <2>3 DEF InHand
  <2>5. e.call = op[c].call /\ e.until = Open /\ e.value = follower /\ e.type = "read"
    BY <2>1, <2>3 DEF EffectOf, Until
  <2>6. e \in Effect
    <3>1. op'[c] \in Operation /\ Until(c)' = Open
      BY <1>1, <2>3 DEF TypeInv, Until, Operation, Types
    <3>2. QED
      BY <3>1, EffectsOfOperations
  <2>7. \A f : f \in Effects' <=> f \in Effects \union {e}
    BY <2>1, <2>2, <2>4, OneTakesEffect
  <2> HIDE DEF e
  <2>8. QED
    BY <1>1, <2>1, <2>3, <2>4, <2>5, <2>6, <2>7, EffectAdded
<1>7. ASSUME NEW v \in flying, Replicate(v)
      PROVE  EffectInv'
  <2>1. /\ UNCHANGED <<pc, op, ran, late, now>> /\ flying' = flying \ {v} /\ follower' = v
    BY <1>7 DEF Replicate, recorder
  <2>2. CASE late
    BY <2>1, <2>2 DEF EffectInv
  <2>3. CASE ~late
    <3>1. PICK c \in Clients : Writing(c) /\ pc[c] = "applied" /\ op[c].value = v
      BY <2>3 DEF ValuesInv
    <3> DEFINE e == EffectOf(op'[c], Until(c)')
    <3>2. op[c].type = "write" /\ Busy(c)
      BY <3>1 DEF Writing, Busy
    <3>3. c \notin InHand /\ c \in InHand'
      BY <2>1, <3>1, <3>2 DEF InHand
    <3>4. ASSUME NEW d \in Clients \ {c}
          PROVE  d \in InHand' <=> d \in InHand
      <4>1. CASE op[d].type = "read"
        BY <2>1, <4>1 DEF InHand
      <4>2. CASE op[d].type = "write" /\ pc[d] \in {"applied", "returned"}
        <5>1. Writing(d)
          BY <4>2 DEF Writing
        <5>2. op[d].value # v
          BY <3>1, <5>1, DifferentValues
        <5>3. QED
          BY <2>1, <4>2, <5>2 DEF InHand
      <4>3. CASE pc[d] \notin {"applied", "returned"}
        BY <2>1, <4>3 DEF InHand
      <4>4. QED
        BY <1>2, <4>1, <4>2, <4>3 DEF Types
    <3>5. e.call = op[c].call /\ e.until = Open /\ e.value = v /\ e.type = "write"
      BY <2>1, <3>1, <3>2 DEF EffectOf, Until
    <3>6. e \in Effect
      <4>1. op'[c] \in Operation /\ Until(c)' = Open
        BY <1>2, <2>1, <3>1 DEF Until
      <4>2. QED
        BY <4>1, EffectsOfOperations
    <3>7. \A f : f \in Effects' <=> f \in Effects \union {e}
      BY <2>1, <3>3, <3>4, OneTakesEffect
    <3> HIDE DEF e
    <3>8. QED
      BY <1>1, <2>1, <3>2, <3>3, <3>5, <3>6, <3>7, EffectAdded
  <2>4. QED
    BY <2>2, <2>3
<1>8. ASSUME NEW c \in Clients, Return(c)
      PROVE  EffectInv'
  <2>1. /\ pc' = [pc EXCEPT ![c] = "returned"] /\ pc[c] = "applied" /\ now' = now + 1
        /\ UNCHANGED <<follower, ran, flying>>
        /\ op'[c].type = op[c].type /\ op'[c].value = op[c].value
        /\ op'[c].call = op[c].call /\ op'[c].return = now
        /\ \A d \in Clients \ {c} : op'[d] = op[d]
        /\ late' = (late \/ (op[c].type = "write" /\ op[c].value \in flying))
    BY <1>8 DEF Return, TypeInv, Operation, kv, recorder, Now
  <2>2. CASE late'
    BY <2>2 DEF EffectInv
  <2>3. CASE ~late'
    <3>1. ~late /\ (op[c].type = "read" \/ op[c].value \notin flying)
      BY <1>2, <2>1, <2>3 DEF Types
    <3>2. \A d \in Clients \ {c} : pc'[d] = pc[d] /\ op'[d] = op[d] /\ Until(d)' = Until(d)
      BY <2>1 DEF TypeInv, Until
    <3>3. pc'[c] = "returned" /\ Until(c)' = now
      BY <2>1 DEF TypeInv, Until
    <3>4. c \in InHand /\ c \in InHand'
      BY <2>1, <3>1, <3>3 DEF InHand
    <3>5. \A d : d \in InHand' <=> d \in InHand
      <4>1. \A d \in Clients \ {c} : d \in InHand' <=> d \in InHand
        BY <2>1, <3>2 DEF InHand
      <4>2. \A d : d \in InHand \/ d \in InHand' => d \in Clients
        BY DEF InHand
      <4>3. QED
        BY <3>4, <4>1, <4>2
    <3>6. ASSUME NEW d \in InHand
          PROVE  LET e == EffectOf(op[d], Until(d))
                     f == EffectOf(op'[d], Until(d)')
                 IN  /\ f.type = e.type /\ f.value = e.value /\ f.call = e.call
                     /\ f.until = e.until \/ f.until = now
      <4>1. CASE d = c
        BY <2>1, <3>3, <4>1 DEF EffectOf
      <4>2. CASE d # c
        <5>1. d \in Clients \ {c}
          BY <4>2 DEF InHand
        <5>2. op'[d] = op[d] /\ Until(d)' = Until(d)
          BY <3>2, <5>1
        <5>3. QED
          BY <5>2
      <4>3. QED
        BY <4>1, <4>2
    <3>7. SameEffects(Effects, Effects', now)
      <4>1. ASSUME NEW f \in Effects'
            PROVE  \E e \in Effects :
                      /\ f.type = e.type /\ f.value = e.value /\ f.call = e.call
                      /\ f.until = e.until \/ f.until = now
        <5>1. CASE f \in Effects
          BY <5>1
        <5>2. ASSUME NEW d \in InHand, f = EffectOf(op'[d], Until(d)')
              PROVE  \E e \in Effects :
                        /\ f.type = e.type /\ f.value = e.value /\ f.call = e.call
                        /\ f.until = e.until \/ f.until = now
          <6>1. EffectOf(op[d], Until(d)) \in Effects
            BY EffectMembers
          <6>2. QED
            BY <3>6, <5>2, <6>1
        <5>3. QED
          BY <2>1, <3>5, <5>1, <5>2, EffectMembers
      <4>2. ASSUME NEW e \in Effects
            PROVE  \E f \in Effects' : f.type = e.type /\ f.value = e.value /\ f.call = e.call
        <5>1. CASE e \in Effects'
          BY <5>1
        <5>2. ASSUME NEW d \in InHand, e = EffectOf(op[d], Until(d))
              PROVE  \E f \in Effects' : f.type = e.type /\ f.value = e.value /\ f.call = e.call
          <6>1. EffectOf(op'[d], Until(d)') \in Effects'
            BY <3>5, EffectMembers
          <6>2. QED
            BY <3>6, <5>2, <6>1
        <5>3. QED
          BY <2>1, <5>1, <5>2, EffectMembers
      <4>3. QED
        BY <4>1, <4>2 DEF SameEffects
    <3>8. PICK n, reg, at, when : Told(Effects, n, reg, at, when, follower, now)
      BY <3>1 DEF EffectInv
    <3>9. Effects \in SUBSET Effect
      BY EffectTypes
    <3>10. now' \in Nat /\ now <= now'
      BY <1>2, <2>1
    <3>11. Told(Effects', n, reg, at, when, follower, now')
      BY <1>2, <3>7, <3>8, <3>9, <3>10, ToldStill
    <3>12. Told(Effects', n, reg, at, when, follower', now')
      BY <2>1, <3>11
    <3>13. QED
      BY <3>12 DEF EffectInv
  <2>4. QED
    BY <2>2, <2>3
<1>9. ASSUME NEW c \in Clients, TakeID(c)
      PROVE  EffectInv'
  <2> DEFINE n == Len(ran)
             new == Ran(c)
  <2>1. /\ pc' = [pc EXCEPT ![c] = "numbered"] /\ pc[c] = "returned"
        /\ UNCHANGED <<follower, flying, late, now>> /\ ran' = Append(ran, new)
        /\ \A d \in Clients \ {c} : op'[d] = op[d]
    BY <1>9 DEF TakeID, TypeInv, kv
  <2>2. CASE late
    BY <2>1, <2>2 DEF EffectInv
  <2>3. CASE ~late
    <3>1. op[c].type = "read" \/ op[c].value \notin flying
      <4>1. SUFFICES ASSUME op[c].type = "write", op[c].value \in flying
                     PROVE  FALSE
        BY <1>2 DEF Types
      <4>2. PICK d \in Clients : Writing(d) /\ pc[d] = "applied" /\ op[d].value = op[c].value
        BY <2>3, <4>1 DEF ValuesInv
      <4>3. Writing(c)
        BY <2>1, <4>1 DEF Writing
      <4>4. c = d
        BY <4>2, <4>3, DifferentValues
      <4>5. QED
        BY <2>1, <4>2, <4>4
    <3>2. EffectOf(new, new.return) = EffectOf(op[c], Until(c))
      BY <2>1 DEF Ran, EffectOf, Until
    <3>3. new \in RanOperation
      BY <1>2 DEF Ran, RanOperation, Operation
    <3> HIDE DEF new
    <3>4. /\ DOMAIN ran = 1..n /\ DOMAIN ran' = 1..n + 1 /\ n \in Nat
          /\ \A k \in 1..n : ran'[k] = ran[k]
          /\ ran'[n + 1] = new
      <4>1. ran \in Seq(RanOperation)
        BY DEF TypeInv
      <4>2. QED
        BY <2>1, <3>3, <4>1
    <3>5. \A d \in Clients \ {c} : pc'[d] = pc[d] /\ op'[d] = op[d] /\ Until(d)' = Until(d)
      BY <2>1 DEF TypeInv, Until
    <3>6. c \in InHand /\ c \notin InHand'
      BY <2>1, <3>1 DEF InHand, TypeInv
    <3>7. \A d : d \in InHand <=> d \in InHand' \/ d = c
      <4>1. \A d \in Clients \ {c} : d \in InHand' <=> d \in InHand
        BY <2>1, <3>5 DEF InHand
      <4>2. \A d : d \in InHand \/ d \in InHand' => d \in Clients
        BY DEF InHand
      <4>3. QED
        BY <3>6, <4>1, <4>2
    <3>8. \A d \in InHand' : EffectOf(op'[d], Until(d)') = EffectOf(op[d], Until(d))
      <4>1. \A d \in InHand' : d \in Clients \ {c}
        BY <3>6 DEF InHand
      <4>2. QED
        BY <3>5, <4>1
    <3>9. \A e : e \in Effects' <=> e \in Effects
      <4>1. ASSUME NEW e \in Effects'
            PROVE  e \in Effects
        <5>1. ASSUME NEW k \in DOMAIN ran', e = EffectOf(ran'[k], ran'[k].return)
              PROVE  e \in Effects
          <6>1. CASE k \in 1..n
            BY <3>4, <5>1, <6>1, EffectMembers
          <6>2. CASE k = n + 1
            BY <3>2, <3>4, <3>6, <5>1, <6>2, EffectMembers
          <6>3. QED
            BY <3>4, <6>1, <6>2
        <5>2. ASSUME NEW d \in InHand', e = EffectOf(op'[d], Until(d)')
              PROVE  e \in Effects
          BY <3>7, <3>8, <5>2, EffectMembers
        <5>3. QED
          BY <5>1, <5>2, EffectMembers
      <4>2. ASSUME NEW e \in Effects
            PROVE  e \in Effects'
        <5>1. ASSUME NEW k \in DOMAIN ran, e = EffectOf(ran[k], ran[k].return)
              PROVE  e \in Effects'
          <6>1. k \in DOMAIN ran' /\ ran'[k] = ran[k]
            BY <3>4
          <6>2. QED
            BY <5>1, <6>1, EffectMembers
        <5>2. ASSUME NEW d \in InHand, e = EffectOf(op[d], Until(d))
              PROVE  e \in Effects'
          <6>1. CASE d = c
            <7>1. n + 1 \in DOMAIN ran' /\ e = EffectOf(ran'[n + 1], ran'[n + 1].return)
              BY <3>2, <3>4, <5>2, <6>1
            <7>2. QED
              BY <7>1, EffectMembers
          <6>2. CASE d # c
            BY <3>7, <3>8, <5>2, <6>2, EffectMembers
          <6>3. QED
            BY <6>1, <6>2
        <5>3. QED
          BY <5>1, <5>2, EffectMembers
      <4>3. QED
        BY <4>1, <4>2
    <3>10. QED
      BY <1>1, <1>2, <2>1, <3>9, EffectsUnchanged
  <2>4. QED
    BY <2>2, <2>3
<1>10. CASE Collect \/ Generate \/ UnknownBug \/ UNCHANGED vars
  <2>1. UNCHANGED <<pc, op, ran, flying, follower, now, late>>
    BY <1>10 DEF Collect, Generate, UnknownBug, vars, kv, recorder
  <2>2. \A d : d \in InHand' <=> d \in InHand
    BY <2>1 DEF InHand
  <2>3. \A d : Until(d)' = Until(d)
    BY <2>1 DEF Until
  <2>4. \A e : e \in Effects' <=> e \in Effects
    BY <2>1, <2>2, <2>3, EffectMembers
  <2>5. QED
    BY <1>1, <1>2, <2>1, <2>4, EffectsUnchanged
<1>11. QED
  BY <1>3, <1>4, <1>5, <1>6, <1>7, <1>8, <1>9, <1>10 DEF Next, ClientStep

\* When the history is written, every operation that ran is in it.
LEMMA NothingIsMissing ==
    ASSUME TypeInv, IdsInv, RecordInv, ValuesInv, CallsInv, Driven
    PROVE  \A k \in DOMAIN ran : \E e \in OpsOf(result) : e.id + 1 = k
<1>1. SUFFICES ASSUME NEW k \in DOMAIN ran
               PROVE  \E e \in OpsOf(result) : e.id + 1 = k
  OBVIOUS
<1>2. \A c \in Clients : pc[c] # "numbered"
  BY DEF ValuesInv
<1>3. PICK a \in DOMAIN recorded : recorded[a].id = k - 1
  BY <1>2 DEF CallsInv
<1>4. k \in Nat
  <2>1. ran \in Seq(RanOperation)
    BY DEF TypeInv
  <2>2. QED
    BY <2>1
<1>5. recorded[a] \in OpsOf(result) /\ recorded[a].id + 1 = k
  BY <1>3, <1>4, WrittenHistory
<1>6. QED
  BY <1>5

LEMMA TruthfulRecord ==
    ASSUME TypeInv, ClockInv, IdsInv, RecordInv, ValuesInv, CallsInv, EffectInv
    PROVE  NoFalseAlarm
<1>1. SUFFICES ASSUME Driven, ~late
               PROVE  Linearizable(result)
  BY DEF NoFalseAlarm
<1> DEFINE O == OpsOf(result)
           Of(e) == ran[e.id + 1]
<1>2. PICK n, reg, at, when : Told(Effects, n, reg, at, when, follower, now)
  BY <1>1 DEF EffectInv
<1> DEFINE took(e) == at[Of(e).call]
           moment == [e \in O |-> took(e)]
           W == {at[e.call] : e \in {f \in Effects : f.type = "write"}}
<1>3. /\ result.model = "register" /\ result.init = 0 /\ result.ops \in Seq(Recorded)
      /\ \A e \in O : ComesFrom(e)
      /\ \A a \in DOMAIN recorded : recorded[a] \in O
      /\ DistinctIds(result.ops)
  BY <1>1, WrittenHistory
<1>4. IsFiniteSet(O)
  <2> DEFINE size == Len(result.ops)
  <2>1. IsFiniteSet(1..size)
    BY <1>3, FS_Interval
  <2>2. result.ops \in Surjection(1..size, O)
    BY <1>3 DEF Surjection, OpsOf, Range
  <2>3. QED
    BY <2>1, <2>2, FS_Surjection
<1>5. \A c : c \notin InHand
  BY <1>1 DEF ValuesInv, InHand
<1>6. \A e \in O : e.id + 1 \in DOMAIN ran /\ IsCutOf(e, Of(e))
  BY <1>3 DEF ComesFrom
<1>7. \A k \in DOMAIN ran : \E e \in O : e.id + 1 = k
  BY <1>1, NothingIsMissing
<1>8. \A k \in DOMAIN ran :
        /\ at[ran[k].call] \in 1..n /\ reg[at[ran[k].call]] = ran[k].value
        /\ ran[k].call < when[at[ran[k].call]]
        /\ when[at[ran[k].call]] <= ran[k].return
        /\ EffectOf(ran[k], ran[k].return) \in Effects
  <2>1. SUFFICES ASSUME NEW k \in DOMAIN ran
                 PROVE  /\ at[ran[k].call] \in 1..n /\ reg[at[ran[k].call]] = ran[k].value
                        /\ ran[k].call < when[at[ran[k].call]]
                        /\ when[at[ran[k].call]] <= ran[k].return
                        /\ EffectOf(ran[k], ran[k].return) \in Effects
    OBVIOUS
  <2> DEFINE f == EffectOf(ran[k], ran[k].return)
  <2>2. f \in Effects
    BY EffectMembers
  <2>3. /\ f.call = ran[k].call /\ f.value = ran[k].value /\ f.until = ran[k].return
    BY DEF EffectOf
  <2>4. f.until # Open
    <3>1. ran[k].return \in Nat
      BY RanTimes
    <3>2. QED
      BY <2>3, <3>1 DEF Open
  <2> HIDE DEF f
  <2>5. /\ at[f.call] \in 1..n /\ reg[at[f.call]] = f.value
        /\ f.call < when[at[f.call]] /\ when[at[f.call]] <= f.until
    BY <1>2, <2>2, <2>4 DEF Told
  <2>6. QED
    BY <2>2, <2>3, <2>5 DEF f
<1>9. \A j, k \in DOMAIN ran : at[ran[j].call] = at[ran[k].call] => j = k
  <2>1. SUFFICES ASSUME NEW j \in DOMAIN ran, NEW k \in DOMAIN ran,
                        at[ran[j].call] = at[ran[k].call]
                 PROVE  j = k
    OBVIOUS
  <2> DEFINE e == EffectOf(ran[j], ran[j].return)
             f == EffectOf(ran[k], ran[k].return)
  <2>2. e \in Effects /\ f \in Effects
    BY EffectMembers
  <2>3. e.call = ran[j].call /\ f.call = ran[k].call
    BY DEF EffectOf
  <2> HIDE DEF e, f
  <2>4. e.call = f.call
    BY <1>2, <2>1, <2>2, <2>3 DEF Told
  <2>5. QED
    BY <2>3, <2>4 DEF CallsInv
<1>10. /\ n \in Nat /\ reg[0] = 0 /\ when \in [Nat -> Nat]
       /\ \A i, j \in 1..n : i <= j => when[i] <= when[j]
       /\ ChangesOnlyAt(reg, n, W)
  BY <1>2 DEF Told
<1>11. \A e \in O : moment[e] = took(e)
  OBVIOUS
<1>12. moment \in [O -> 1..n]
  BY <1>6, <1>8
<1> HIDE DEF moment
<1>13. ASSUME NEW a \in O, NEW b \in O, moment[a] = moment[b]
       PROVE  a = b
  <2>1. a.id + 1 = b.id + 1
    BY <1>6, <1>9, <1>11, <1>13
  <2>2. a.id \in Nat /\ b.id \in Nat
    BY <1>1, WrittenHistory DEF Recorded
  <2>3. PICK i \in DOMAIN result.ops : a = result.ops[i]
    BY DEF OpsOf, Range
  <2>4. PICK j \in DOMAIN result.ops : b = result.ops[j]
    BY DEF OpsOf, Range
  <2>5. a.id = b.id
    BY <2>1, <2>2
  <2>6. i = j
    BY <1>3, <2>3, <2>4, <2>5 DEF DistinctIds
  <2>7. QED
    BY <2>3, <2>4, <2>6
<1>14. ASSUME NEW a \in O, NEW b \in O, Precedes(a, b)
       PROVE  moment[a] < moment[b]
  <2> DEFINE x == took(a)
             y == took(b)
  <2>1. Of(a).return < Of(b).call
    BY <1>1, <1>14, OrderOfTheRun DEF TruncationRelaxesOrder
  <2>2. x \in 1..n /\ when[x] <= Of(a).return
    BY <1>6, <1>8
  <2>3. y \in 1..n /\ Of(b).call < when[y]
    BY <1>6, <1>8
  <2>4. Of(a).return \in Nat /\ Of(b).call \in Nat
    BY <1>6, RanTimes
  <2> DEFINE p == Of(a).return
             q == Of(b).call
  <2>5. p < q /\ when[x] <= p /\ q < when[y] /\ p \in Nat /\ q \in Nat
    BY <2>1, <2>2, <2>3, <2>4
  <2>6. moment[a] = x /\ moment[b] = y
    BY <1>11
  <2> HIDE DEF x, y, p, q
  <2>7. x \in Nat /\ y \in Nat /\ when[x] \in Nat /\ when[y] \in Nat
    BY <1>10, <2>2, <2>3
  <2>8. ~(y <= x)
    BY <1>10, <2>2, <2>3, <2>5, <2>7
  <2>9. QED
    BY <2>6, <2>7, <2>8
<1>15. {moment[w] : w \in WritesOf(result)} = W
  <2>1. \A x : x \in W <=> \E f \in Effects : f.type = "write" /\ x = at[f.call]
    OBVIOUS
  <2>2. ASSUME NEW w \in WritesOf(result)
        PROVE  moment[w] \in W
    <3> DEFINE k == w.id + 1
               f == EffectOf(ran[k], ran[k].return)
    <3>1. w \in O /\ w.type = "write"
      BY DEF WritesOf, IsWrite
    <3>2. f \in Effects /\ f.type = ran[k].type /\ f.call = ran[k].call
      BY <1>6, <1>8, <3>1 DEF EffectOf
    <3>3. ran[k].type = "write" /\ moment[w] = at[ran[k].call]
      BY <1>6, <1>11, <3>1 DEF IsCutOf
    <3> HIDE DEF f, k
    <3>4. QED
      BY <2>1, <3>2, <3>3
  <2>3. ASSUME NEW x \in W
        PROVE  \E w \in WritesOf(result) : x = moment[w]
    <3>1. PICK f \in Effects : f.type = "write" /\ x = at[f.call]
      BY <2>1
    <3>2. PICK k \in DOMAIN ran : f = EffectOf(ran[k], ran[k].return)
      BY <1>5, EffectMembers
    <3>3. ran[k].type = "write" /\ x = at[ran[k].call]
      BY <3>1, <3>2 DEF EffectOf
    <3>4. PICK w \in O : w.id + 1 = k
      BY <1>7
    <3>5. w.type = "write" /\ moment[w] = x
      BY <1>6, <1>11, <3>3, <3>4 DEF IsCutOf
    <3>6. QED
      BY <3>5 DEF WritesOf, IsWrite
  <2> HIDE DEF W
  <2>4. QED
    BY <2>2, <2>3
<1>16. \A e \in O : e.value = reg[moment[e]]
  BY <1>6, <1>8, <1>11 DEF IsCutOf
<1>17. TookEffect(result, n, reg, moment)
  BY <1>10, <1>12, <1>13, <1>14, <1>15, <1>16 DEF TookEffect
<1>18. \A e \in O : ~IsWrite(e) /\ e.value = reg[0] =>
            e.value = IF result.model = "kv" THEN 0 ELSE result.init
  BY <1>3, <1>10
<1>19. QED
  BY <1>3, <1>4, <1>10, <1>17, <1>18, EffectsLinearize

\* Whatever the number of clients, their interleaving and the resolution of the
\* clock: when no write returned before it was replicated, the history is
\* linearizable, so that what "concurrent" is rejected for is its lateness alone.
THEOREM OnTimeIsLinearizable == Spec => []NoFalseAlarm
<1> DEFINE I == TypeInv /\ ClockInv /\ IdsInv /\ RecordInv /\ ValuesInv /\ CallsInv /\ EffectInv
<1>1. Init => I
  BY InitTypes, InitClock, InitIds, InitRecord, InitValues, InitEffects
<1>2. I /\ [Next]_vars => I'
  BY StepTypes, StepClock, StepIds, StepRecord, StepValues, StepCalls, StepEffects
<1>3. I => NoFalseAlarm
  BY TruthfulRecord
<1>4. QED
  BY <1>1, <1>2, <1>3, PTL DEF Spec

-----------------------------------------------------------------------------
(* What the follower does wrong *)

\* The rounds of a client that have an id.
Rounds == [c \in Clients |-> IF pc[c] = "numbered" THEN count[c] + 1 ELSE count[c]]

\* The inductive invariant: the value of a write that ran says whose it was and in
\* which round, so that no two writes have one value.
WrittenInv ==
    /\ \A k \in DOMAIN ran : ran[k].type = "write" =>
            \E r \in 0..99 : /\ r < Rounds[ran[k].client]
                             /\ ran[k].value = ran[k].client * 100 + r + 1
    /\ \A j, k \in DOMAIN ran :
            ran[j].type = "write" /\ ran[k].type = "write" /\ ran[j].value = ran[k].value => j = k

LEMMA InitWritten ==
    ASSUME Init
    PROVE  WrittenInv
<1>1. ran = <<>>
  BY DEF Init
<1>2. \A k \in DOMAIN ran : FALSE
  BY <1>1
<1>3. QED
  BY <1>2 DEF WrittenInv

\* Rounds only go on.
LEMMA WrittenStays ==
    ASSUME TypeInv, WrittenInv, ran' = ran,
           \A c \in Clients : Rounds[c] <= Rounds'[c] /\ Rounds'[c] \in Nat
    PROVE  WrittenInv'
<1>1. \A k \in DOMAIN ran : ran[k].client \in Clients
  <2>1. ran \in Seq(RanOperation) /\ \A r \in RanOperation : r.client \in Clients
    BY DEF TypeInv, RanOperation
  <2>2. QED
    BY <2>1
<1>2. \A c \in Clients : Rounds[c] \in Nat
  BY DEF Rounds, TypeInv
<1>3. ASSUME NEW k \in DOMAIN ran, ran[k].type = "write"
      PROVE  \E r \in 0..99 : /\ r < Rounds'[ran[k].client]
                              /\ ran[k].value = ran[k].client * 100 + r + 1
  <2> DEFINE c == ran[k].client
  <2>1. PICK r \in 0..99 : r < Rounds[c] /\ ran[k].value = c * 100 + r + 1
    BY <1>3 DEF WrittenInv
  <2>2. r < Rounds'[c]
    <3>1. c \in Clients
      BY <1>1, <1>3
    <3> HIDE DEF c
    <3>2. QED
      BY <1>2, <2>1, <3>1
  <2>3. QED
    BY <2>1, <2>2
<1>4. QED
  BY <1>3 DEF WrittenInv

LEMMA StepWritten ==
    ASSUME TypeInv, ClockInv, ValuesInv, WrittenInv, [Next]_vars
    PROVE  WrittenInv'
<1>0. \A c \in Clients : count[c] \in Nat
  BY DEF TypeInv
<1>1. ASSUME NEW c \in Clients, Call(c) \/ Write(c) \/ Read(c) \/ Return(c)
      PROVE  WrittenInv'
  <2>1. /\ pc[c] # "numbered" /\ pc'[c] # "numbered"
        /\ \A d \in Clients \ {c} : pc'[d] = pc[d]
        /\ UNCHANGED <<ran, count>>
    BY <1>1 DEF Call, Write, Read, Return, TypeInv, recorder
  <2>2. \A d \in Clients : Rounds'[d] = Rounds[d]
    BY <2>1 DEF Rounds
  <2>3. \A d \in Clients : Rounds[d] \in Nat
    BY <1>0 DEF Rounds
  <2>4. QED
    BY <2>1, <2>2, <2>3, WrittenStays
<1>2. ASSUME NEW c \in Clients, AppendOp(c)
      PROVE  WrittenInv'
  <2>1. /\ pc[c] = "numbered" /\ pc'[c] # "numbered"
        /\ \A d \in Clients \ {c} : pc'[d] = pc[d] /\ count'[d] = count[d]
        /\ ran' = ran /\ count'[c] = count[c] + 1
    BY <1>2 DEF AppendOp, TypeInv
  <2>2. \A d \in Clients : Rounds'[d] = Rounds[d]
    BY <2>1 DEF Rounds
  <2>3. \A d \in Clients : Rounds[d] \in Nat
    BY <1>0 DEF Rounds
  <2>4. QED
    BY <2>1, <2>2, <2>3, WrittenStays
<1>3. ASSUME NEW c \in Clients, TakeID(c)
      PROVE  WrittenInv'
  <2> DEFINE n == Len(ran)
             new == Ran(c)
  <2>1. /\ pc' = [pc EXCEPT ![c] = "numbered"] /\ pc[c] = "returned"
        /\ count' = count /\ ran' = Append(ran, new)
    BY <1>3 DEF TakeID
  <2>2. /\ new.type = op[c].type /\ new.value = op[c].value /\ new.client = c
        /\ new \in RanOperation
    BY DEF Ran, RanOperation, TypeInv, Operation
  <2>3. new.type = "write" => new.value = c * 100 + count[c] + 1
    BY <2>1, <2>2 DEF ValuesInv, Writing, Written
  <2> HIDE DEF new
  <2>4. /\ DOMAIN ran = 1..n /\ DOMAIN ran' = 1..n + 1 /\ n \in Nat
        /\ \A k \in 1..n : ran'[k] = ran[k]
        /\ ran'[n + 1] = new
        /\ \A k \in 1..n : ran[k].client \in Clients
    <3>1. ran \in Seq(RanOperation) /\ \A r \in RanOperation : r.client \in Clients
      BY DEF TypeInv, RanOperation
    <3>2. QED
      BY <2>1, <2>2, <3>1
  <2>5. \A k \in 1..n + 1 : k = n + 1 \/ k \in 1..n
    BY <2>4
  <2>6. count[c] \in 0..99 /\ c \in Nat
    <3>1. count[c] < OpsPerClient
      BY <2>1 DEF ClockInv
    <3>2. QED
      BY <1>0, <3>1, OpsAssumption, ClientsAssumption
  <2>7. /\ Rounds[c] = count[c] /\ Rounds'[c] = count[c] + 1
        /\ \A d \in Clients \ {c} : Rounds'[d] = Rounds[d]
    BY <2>1 DEF Rounds, TypeInv
  <2>8. \A d \in Clients : Rounds[d] <= Rounds'[d] /\ Rounds[d] \in Nat /\ Rounds'[d] \in Nat
    <3>1. \A d \in Clients : Rounds[d] \in Nat
      BY <1>0 DEF Rounds
    <3>2. QED
      BY <1>0, <2>7, <3>1
  <2>9. ASSUME NEW k \in 1..n, ran[k].type = "write"
        PROVE  \E r \in 0..99 : /\ r < Rounds[ran[k].client]
                                /\ ran[k].value = ran[k].client * 100 + r + 1
    BY <2>4, <2>9 DEF WrittenInv
  <2>10. ASSUME NEW k \in 1..n + 1, ran'[k].type = "write"
         PROVE  \E r \in 0..99 : /\ r < Rounds'[ran'[k].client]
                                 /\ ran'[k].value = ran'[k].client * 100 + r + 1
    <3> DEFINE d == ran'[k].client
    <3>1. CASE k = n + 1
      <4>1. d = c /\ ran'[k].value = c * 100 + count[c] + 1
        BY <2>2, <2>3, <2>4, <2>10, <3>1
      <4>2. count[c] < Rounds'[c]
        <5>1. count[c] \in Nat /\ Rounds'[c] = count[c] + 1
          BY <1>0, <2>7
        <5>2. QED
          BY <5>1
      <4>3. QED
        BY <2>6, <4>1, <4>2
    <3>2. CASE k \in 1..n
      <4>1. ran'[k] = ran[k]
        BY <2>4, <3>2
      <4>2. PICK r \in 0..99 : r < Rounds[d] /\ ran[k].value = d * 100 + r + 1
        BY <2>9, <2>10, <3>2, <4>1
      <4>3. d \in Clients
        BY <2>4, <3>2, <4>1
      <4> HIDE DEF d
      <4>4. r < Rounds'[d]
        <5>1. Rounds[d] <= Rounds'[d] /\ Rounds[d] \in Nat /\ Rounds'[d] \in Nat
          BY <2>8, <4>3
        <5>2. QED
          BY <4>2, <5>1
      <4>5. QED
        BY <4>1, <4>2, <4>4 DEF d
    <3>3. QED
      BY <2>5, <3>1, <3>2
  <2>11. ASSUME NEW k \in 1..n, ran[k].type = "write", new.type = "write"
         PROVE  ran[k].value # new.value
    <3> DEFINE d == ran[k].client
    <3>1. PICK r \in 0..99 : r < Rounds[d] /\ ran[k].value = d * 100 + r + 1
      BY <2>9, <2>11
    <3>2. d \in Nat /\ d \in Clients
      BY <2>4, ClientsAssumption
    <3> HIDE DEF d
    <3> DEFINE x == count[c]
    <3>3. x \in 0..99 /\ new.value = c * 100 + x + 1 /\ (d = c => r < x) /\ c \in Nat
      BY <2>3, <2>6, <2>7, <2>11, <3>1
    <3> HIDE DEF x
    <3>4. d * 100 + r + 1 # c * 100 + x + 1
      <4>1. CASE d = c
        BY <3>3, <4>1
      <4>2. CASE d < c
        BY <3>2, <3>3, <4>2
      <4>3. CASE c < d
        BY <3>2, <3>3, <4>3
      <4>4. QED
        BY <3>2, <3>3, <4>1, <4>2, <4>3
    <3>5. QED
      BY <3>1, <3>3, <3>4
  <2>12. ASSUME NEW j \in 1..n + 1, NEW k \in 1..n + 1,
                ran'[j].type = "write", ran'[k].type = "write", ran'[j].value = ran'[k].value
         PROVE  j = k
    <3>1. CASE j \in 1..n /\ k \in 1..n
      BY <2>4, <2>12, <3>1 DEF WrittenInv
    <3>2. CASE j = n + 1 \/ k = n + 1
      BY <2>4, <2>5, <2>11, <2>12, <3>2
    <3>3. QED
      BY <2>5, <3>1, <3>2
  <2>13. QED
    BY <2>4, <2>10, <2>12 DEF WrittenInv
<1>4. CASE (\E v \in flying : Replicate(v)) \/ Collect \/ Generate \/ UnknownBug \/ UNCHANGED vars
  <2>1. UNCHANGED <<pc, count, ran>>
    BY <1>4 DEF Replicate, Collect, Generate, UnknownBug, vars, recorder
  <2>2. \A d \in Clients : Rounds'[d] = Rounds[d] /\ Rounds[d] \in Nat
    BY <1>0, <2>1 DEF Rounds
  <2>3. QED
    BY <2>1, <2>2, WrittenStays
<1>5. QED
  BY <1>1, <1>2, <1>3, <1>4 DEF Next, ClientStep

LEMMA FoundById ==
    ASSUME NEW R, NEW g, g.ops \in Seq(R), DistinctIds(g.ops), NEW o \in OpsOf(g)
    PROVE  findOp(g, o.id) = o
<1>1. PICK x \in DOMAIN g.ops : g.ops[x] = o
  BY DEF OpsOf, Range
<1>2. x \in Nat /\ \A j \in 1..x - 1 : j \in DOMAIN g.ops /\ j # x
  OBVIOUS
<1>3. g.ops[x].id = o.id /\ \A j \in 1..x - 1 : g.ops[j].id # o.id
  BY <1>1, <1>2 DEF DistinctIds
<1>4. \A k \in DOMAIN g.ops : g.ops[k].id = o.id => k = x
  BY <1>1 DEF DistinctIds
<1>5. (CHOOSE k \in DOMAIN g.ops : /\ g.ops[k].id = o.id
                                   /\ \A j \in 1..k - 1 : g.ops[j].id # o.id) = x
  BY <1>3, <1>4
<1>6. QED
  BY <1>1, <1>5 DEF findOp

\* In the order of the ids each has its place.
LEMMA InOrderOfIds ==
    ASSUME NEW S, IsFiniteSet(S), \A a \in S : a.id \in Int,
           \A a, b \in S : a.id = b.id => a = b
    PROVE  DOMAIN ById(S) = 1..Cardinality(S) /\ Range(ById(S)) \subseteq S
<1> DEFINE lt == {e \in S \X S : e[1].id < e[2].id}
           r == Ranks(S, lt)
           n == Cardinality(S)
<1>1. \A a, b \in S : <<a, b>> \in lt <=> a.id < b.id
  OBVIOUS
<1> HIDE DEF lt
<1>2. IsStrictOrder(S, lt)
  BY <1>1 DEF IsStrictOrder
<1>3. \A k \in 1..n : \E a \in S : r[a] = k
  <2>1. r \in Bijection(S, 1..n)
    BY <1>2, Ranking
  <2>2. QED
    BY <2>1 DEF Bijection, Surjection
<1>4. ASSUME NEW x \in S
      PROVE  r[x] = Cardinality({a \in S : a.id <= x.id})
  <2>1. UpToElement(S, lt, x) = {a \in S : a.id <= x.id}
    BY <1>1 DEF UpToElement
  <2>2. QED
    BY <2>1 DEF Ranks
<1> HIDE DEF r
<1>5. ASSUME NEW k \in 1..n
      PROVE  ById(S)[k] \in S
  <2>1. PICK x \in S : r[x] = k
    BY <1>3
  <2>2. Cardinality({a \in S : a.id <= x.id}) = k
    BY <1>4, <2>1
  <2>3. (CHOOSE o \in S : Cardinality({a \in S : a.id <= o.id}) = k) \in S
    BY <2>2
  <2>4. QED
    BY <2>3 DEF ById
<1>6. DOMAIN ById(S) = 1..n
  BY DEF ById
<1>7. QED
  BY <1>5, <1>6 DEF Range

\* Whatever is reported of a part, a block of its trace names one of its operations.
LEMMA BlocksNameOperations ==
    ASSUME NEW g, NEW s, IsFiniteSet(Range(s)), \A a \in Range(s) : a.id \in Int,
           \A a, b \in Range(s) : a.id = b.id => a = b,
           NEW partials, NEW t \in PartitionTraces(g, s, partials), NEW j \in DOMAIN t.blocks
    PROVE  \E o \in Range(s) : t.blocks[j].opID = o.id
<1> DEFINE S == Range(s) \ UNION {Range(p) : p \in partials}
<1>1. PICK best \in BestPrefixes(partials) : t = PartitionTrace(g, s, partials, best)
  BY DEF PartitionTraces
<1>2. S \subseteq Range(s) /\ IsFiniteSet(S)
  <2>1. S \subseteq Range(s)
    OBVIOUS
  <2> HIDE DEF S
  <2>2. QED
    BY <2>1, FS_Subset
<1>3. BlockedOps(s, partials) = ById(S)
  BY DEF BlockedOps
<1> HIDE DEF S
<1>4. t.blocks = [k \in DOMAIN ById(S) |-> classifyBlock(g, ById(S)[k], best)]
  BY <1>1, <1>3 DEF PartitionTrace
<1>5. j \in DOMAIN ById(S) /\ t.blocks[j] = classifyBlock(g, ById(S)[j], best)
  BY <1>4
<1>6. Range(ById(S)) \subseteq S
  BY <1>2, InOrderOfIds
<1>7. ById(S)[j] \in S
  BY <1>5, <1>6 DEF Range
<1> DEFINE o == ById(S)[j]
<1>8. t.blocks[j].opID = o.id
  <2> HIDE DEF o
  <2>1. t.blocks[j] = classifyBlock(g, o, best)
    BY <1>5 DEF o
  <2>2. QED
    BY <2>1 DEF classifyBlock, Reason
<1>9. QED
  BY <1>2, <1>7, <1>8

\* A blocked read of a trace of a register's history is an operation of it.
LEMMA BlockedAreOperations ==
    ASSUME NEW R, NEW g, g.model # "kv", g.ops \in Seq(R), DistinctIds(g.ops),
           \A a \in OpsOf(g) : a.id \in Int,
           NEW trace \in Check(g), trace.result = "Illegal", NEW flag
    PROVE  /\ trace.history = g
           /\ \A x \in BlockedReads(trace, flag) :
                 BlockedOp(trace, x) \in OpsOf(g) /\ IsRead(BlockedOp(trace, x))
<1> DEFINE parts == Partition(g)
           s == g.ops
           Reports(full, k) == IF k \in full THEN {PartialLinearizations(g, parts[k])}
                               ELSE {Operations(parts[k], P) : P \in CutOff(g, parts[k])}
           traces(full) == [k \in DOMAIN parts |->
                        UNION {PartitionTraces(g, partitionOps(g)[k], r) : r \in Reports(full, k)}]
           choices(full) == {f \in [DOMAIN parts -> UNION Range(traces(full))] :
                          \A k \in DOMAIN parts : f[k] \in traces(full)[k]}
<1>1. \A verdict : Verdict(g, verdict).result = verdict
  BY DEF Verdict
<1>2. PICK full : trace \in Rejections(g, full)
  <2>1. trace # Verdict(g, "Ok") /\ trace # Verdict(g, "Unknown")
    BY <1>1
  <2>2. QED
    BY <2>1 DEF Check
<1>3. trace \in {[history |-> g, result |-> "Illegal", partitions |-> ps] : ps \in choices(full)}
  BY <1>2, Zenon DEF Rejections
<1>4. PICK f \in choices(full) : trace = [history |-> g, result |-> "Illegal", partitions |-> f]
  <2> HIDE DEF choices
  <2> QED  BY <1>3
<1>5. /\ trace.history = g /\ trace.partitions = f
      /\ f \in [DOMAIN parts -> UNION Range(traces(full))]
      /\ \A k \in DOMAIN parts : f[k] \in traces(full)[k]
  <2> HIDE DEF traces, parts
  <2> QED  BY <1>4
<1>6. DOMAIN f = DOMAIN parts
  <2> HIDE DEF traces, parts
  <2> QED  BY <1>5
<1>7. \A k \in DOMAIN parts :
        traces(full)[k] = UNION {PartitionTraces(g, partitionOps(g)[k], r) : r \in Reports(full, k)}
  <2> HIDE DEF Reports, parts
  <2> QED  OBVIOUS
<1> HIDE DEF traces, choices
<1>8. parts = <<s>>
  BY DEF Partition
<1>9. /\ IsFiniteSet(Range(s)) /\ OpsOf(g) = Range(s)
      /\ \A a, b \in Range(s) : a.id = b.id => a = b
  <2> DEFINE size == Len(s)
  <2>1. IsFiniteSet(1..size)
    BY FS_Interval
  <2>2. s \in Surjection(1..size, Range(s))
    BY DEF Surjection, Range
  <2>3. IsFiniteSet(Range(s))
    BY <2>1, <2>2, FS_Surjection
  <2>4. QED
    BY <2>3 DEF OpsOf, Range, DistinctIds
<1>10. ASSUME NEW x \in BlockedReads(trace, flag)
       PROVE  BlockedOp(trace, x) \in OpsOf(g) /\ IsRead(BlockedOp(trace, x))
  <2>1. PICK k \in DOMAIN trace.partitions : \E j \in DOMAIN trace.partitions[k].blocks : x = <<k, j>>
    BY <1>10 DEF BlockedReads
  <2>2. PICK j \in DOMAIN trace.partitions[k].blocks : x = <<k, j>>
    BY <2>1
  <2>3. k \in DOMAIN parts /\ trace.partitions[k] = f[k] /\ parts[k] = s
    <3>1. k \in DOMAIN parts /\ trace.partitions[k] = f[k]
      <4> HIDE DEF parts
      <4> QED  BY <1>5, <1>6, <2>1
    <3>2. QED
      BY <1>8, <3>1
  <2>4. PICK r \in Reports(full, k) : f[k] \in PartitionTraces(g, partitionOps(g)[k], r)
    <3> HIDE DEF Reports, parts
    <3> QED  BY <1>5, <1>7, <2>3
  <2>5. f[k] \in PartitionTraces(g, s, r)
    BY <2>3, <2>4 DEF partitionOps
  <2>6. j \in DOMAIN f[k].blocks /\ Block(trace, x) = f[k].blocks[j]
    BY <2>2, <2>3 DEF Block
  <2> HIDE DEF parts, s, Reports
  <2>7. PICK o \in Range(s) : f[k].blocks[j].opID = o.id
    BY <1>9, <2>5, <2>6, BlocksNameOperations
  <2>8. findOp(g, o.id) = o
    BY <1>9, <2>7, FoundById
  <2>9. BlockedOp(trace, x) = o
    BY <1>5, <2>6, <2>7, <2>8 DEF BlockedOp
  <2>10. IsRead(BlockedOp(trace, x))
    BY <1>10 DEF BlockedReads
  <2>11. QED
    BY <1>9, <2>7, <2>9, <2>10
<1>11. QED
  BY <1>5, <1>10

\* A read of the history has its value from a write of the history that was called
\* before the read returned, and no other write has this value.
LEMMA ReadFromOneWrite ==
    ASSUME TypeInv, IdsInv, RecordInv, ValuesInv, CallsInv, WrittenInv, FutureInv, Driven,
           NEW read \in OpsOf(result), IsRead(read), read.value # 0
    PROVE  /\ \E w \in OpsOf(result) : IsWrite(w) /\ w.value = read.value
           /\ \A w \in OpsOf(result) : IsWrite(w) /\ w.value = read.value =>
                ran[w.id + 1].call < ran[read.id + 1].return
<1> DEFINE i == read.id + 1
<1>1. \A e \in OpsOf(result) : e.id + 1 \in DOMAIN ran /\ IsCutOf(e, ran[e.id + 1])
  BY WrittenHistory DEF ComesFrom
<1>2. i \in DOMAIN ran /\ ran[i].type = "read" /\ ran[i].value = read.value
  BY <1>1 DEF IsCutOf, IsRead
<1>3. \A c \in Clients : pc[c] = "idle"
  BY DEF ValuesInv
<1>4. PICK k \in DOMAIN ran : /\ ran[k].type = "write" /\ ran[k].value = read.value
                              /\ ran[k].call < ran[i].return
  <2> HIDE DEF i
  <2>1. StartedIn(ran, pc, op, ran[i].value, ran[i].return)
    BY <1>2 DEF FutureInv
  <2>2. QED
    BY <1>2, <1>3, <2>1 DEF StartedIn
<1>5. PICK e \in OpsOf(result) : e.id + 1 = k
  BY NothingIsMissing
<1>6. IsWrite(e) /\ e.value = read.value
  BY <1>1, <1>4, <1>5 DEF IsCutOf, IsWrite
<1>7. ASSUME NEW w \in OpsOf(result), IsWrite(w), w.value = read.value
      PROVE  ran[w.id + 1].call < ran[i].return
  <2>1. /\ w.id + 1 \in DOMAIN ran /\ ran[w.id + 1].type = "write"
        /\ ran[w.id + 1].value = read.value
    BY <1>1, <1>7 DEF IsCutOf, IsWrite
  <2>2. w.id + 1 = k
    BY <1>4, <2>1 DEF WrittenInv
  <2>3. QED
    BY <1>4, <2>2
<1>8. QED
  BY <1>6, <1>7

LEMMA OnlyLate ==
    ASSUME TypeInv, ClockInv, IdsInv, RecordInv, ValuesInv, CallsInv, WrittenInv, FutureInv
    PROVE  OnlyStaleness
<1>1. SUFFICES ASSUME Driven, NEW trace \in Check(result),
                      NEW mt \in Range(All), Match(mt, trace) # {}
               PROVE  mt \in {"stale_read", "lost_update", "non_monotonic_read"}
  BY DEF OnlyStaleness
<1> DEFINE g == result
           Of(x) == BlockedOp(trace, x)
<1>2. trace.result = "Illegal" /\ Template(mt, trace) # {}
  BY <1>1 DEF Match
<1>3. /\ g.model = "register" /\ g.init = 0 /\ g.ops \in Seq(Recorded) /\ DistinctIds(g.ops)
      /\ \A a \in OpsOf(g) : a \in Recorded
  BY <1>1, WrittenHistory
<1>4. \A a \in OpsOf(g) : a.id \in Int
  <2>1. \A r \in Recorded : r.id \in Nat
    BY DEF Recorded
  <2> HIDE DEF g
  <2>2. QED
    BY <1>3, <2>1
<1>5. /\ trace.history = g
      /\ \A x \in BlockedReads(trace, FALSE) : Of(x) \in OpsOf(g) /\ IsRead(Of(x))
  <2> HIDE DEF g
  <2>1. g.model # "kv" /\ trace \in Check(g)
    BY <1>1, <1>3 DEF g
  <2>2. QED
    BY <1>2, <1>3, <1>4, <2>1, BlockedAreOperations
<1>6. ASSUME NEW x \in BlockedReads(trace, FALSE), Of(x).value # 0
      PROVE  /\ \E w \in OpsOf(g) : IsWrite(w) /\ w.value = Of(x).value
             /\ \A w \in OpsOf(g) : IsWrite(w) /\ w.value = Of(x).value => ~Precedes(Of(x), w)
  <2> DEFINE read == Of(x)
  <2>1. read \in OpsOf(g) /\ IsRead(read)
    BY <1>5
  <2> HIDE DEF read
  <2>2. read.value # 0
    BY <1>6 DEF read
  <2>3. /\ \E w \in OpsOf(g) : IsWrite(w) /\ w.value = read.value
        /\ \A w \in OpsOf(g) : IsWrite(w) /\ w.value = read.value =>
                ran[w.id + 1].call < ran[read.id + 1].return
    BY <1>1, <2>1, <2>2, ReadFromOneWrite
  <2>4. ASSUME NEW w \in OpsOf(g), IsWrite(w), w.value = read.value, Precedes(read, w)
        PROVE  FALSE
    <3>1. ran[w.id + 1].call < ran[read.id + 1].return
      BY <2>3, <2>4
    <3>2. ran[read.id + 1].return < ran[w.id + 1].call
      BY <1>1, <2>1, <2>4, OrderOfTheRun DEF TruncationRelaxesOrder
    <3>3. w.id + 1 \in DOMAIN ran /\ read.id + 1 \in DOMAIN ran
      BY <1>1, <2>1, <2>4, WrittenHistory DEF ComesFrom
    <3>4. ran[w.id + 1].call \in Nat /\ ran[read.id + 1].return \in Nat
      BY <3>3, RanTimes
    <3>5. QED
      BY <3>1, <3>2, <3>4
  <2>5. QED
    BY <2>3, <2>4 DEF read
<1>7. mt # "phantom_value"
  <2>1. SUFFICES ASSUME mt = "phantom_value"
                 PROVE  FALSE
    OBVIOUS
  <2>2. PICK x \in BlockedReads(trace, FALSE) :
            Of(x).value # g.init /\ WritesOfValue(g, Of(x).value) = {}
    BY <1>2, <1>5, <2>1 DEF Template, PhantomValue, FirstFit, MetFirst
  <2>3. PICK w \in OpsOf(g) : IsWrite(w) /\ w.value = Of(x).value
    BY <1>3, <1>6, <2>2
  <2>4. PICK k \in DOMAIN g.ops : w = g.ops[k]
    BY <2>3 DEF OpsOf, Range
  <2>5. k \in WritesOfValue(g, Of(x).value)
    BY <2>3, <2>4 DEF WritesOfValue
  <2>6. QED
    BY <2>2, <2>5
<1>8. mt # "realtime_inversion"
  <2>1. SUFFICES ASSUME mt = "realtime_inversion"
                 PROVE  FALSE
    OBVIOUS
  <2>2. PICK x \in BlockedReads(trace, FALSE) :
            /\ Of(x).value # g.init
            /\ {k \in WritesOfValue(g, Of(x).value) : Precedes(Of(x), g.ops[k])} # {}
    BY <1>2, <1>5, <2>1 DEF Template, RealtimeInversion, FirstFit, MetFirst
  <2>3. PICK k \in WritesOfValue(g, Of(x).value) : Precedes(Of(x), g.ops[k])
    BY <2>2
  <2>4. g.ops[k] \in OpsOf(g) /\ IsWrite(g.ops[k]) /\ g.ops[k].value = Of(x).value
    BY DEF WritesOfValue, OpsOf, Range
  <2>5. QED
    BY <1>3, <1>6, <2>2, <2>3, <2>4
<1>9. QED
  BY <1>7, <1>8 DEF All, Range

\* Whatever is late and by how much: a rejected history of the driver is explained as
\* a stale read, a lost update or a read going back, if at all, and never as a value
\* from nowhere or from the future.
THEOREM LatenessIsStaleness == Spec => []OnlyStaleness
<1> DEFINE I == /\ TypeInv /\ ClockInv /\ IdsInv /\ RecordInv
                /\ ValuesInv /\ CallsInv /\ WrittenInv /\ FutureInv
<1>1. Init => I
  BY InitTypes, InitClock, InitIds, InitRecord, InitValues, InitWritten, InitFuture
<1>2. I /\ [Next]_vars => I'
  BY StepTypes, StepClock, StepIds, StepRecord, StepValues, StepCalls, StepWritten, StepFuture
<1>3. I => OnlyStaleness
  BY OnlyLate
<1>4. QED
  BY <1>1, <1>2, <1>3, PTL DEF Spec

=============================================================================
