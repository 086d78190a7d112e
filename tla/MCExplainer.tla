---------------------------- MODULE MCExplainer -----------------------------
(***************************************************************************)
(* TLC instance of Explainer: sets of histories, small enough to enumerate *)
(* and built so that every template of the catalogue fits some of them.    *)
(***************************************************************************)
EXTENDS PlantedBugs

\* <<call, return>>, in the order of the calls: two disjoint rounds and the
\* intervals that span them, so that operations can be concurrent or ordered;
\* and four disjoint rounds.
Rounds3 == {<<0, 1>>, <<0, 3>>, <<2, 3>>, <<2, 5>>, <<4, 5>>}
Rounds4 == {<<0, 1>>, <<2, 3>>, <<4, 5>>, <<6, 7>>}

\* <<type, value>>
Values == {<<"write", 1>>, <<"write", 2>>, <<"read", 0>>, <<"read", 1>>, <<"read", 2>>}
Sums == {<<"write", 1>>, <<"write", 2>>, <<"read", 0>>, <<"read", 2>>, <<"read", 3>>,
         <<"cas", 1>>}
Puts == {<<"write", 1>>, <<"read", 0>>, <<"read", 1>>}

\* A slot is what an operation is, without its id and client.
Slots(intervals, kinds, keys) ==
    {<<t, kind, key>> : t \in intervals, kind \in kinds, key \in keys}

Overlap(a, b) == ~(a[1][2] < b[1][1]) /\ ~(b[1][2] < a[1][1])

\* Reads that overlap no other read are all of client 1, so that the monotonic
\* template has something to look at; every other operation is of its own.
ClientOf(slots, k) ==
    IF /\ slots[k][2][1] = "read"
       /\ \A j \in DOMAIN slots \ {k} :
            slots[j][2][1] = "read" => ~Overlap(slots[j], slots[k])
    THEN 1 ELSE 10 + k

MakeOp(slots, k) ==
    [id |-> k, client |-> ClientOf(slots, k), type |-> slots[k][2][1],
     key |-> slots[k][3], value |-> slots[k][2][2],
     call |-> slots[k][1][1], return |-> slots[k][1][2]]

MakeHistory(model, slots) ==
    [model |-> model, init |-> 0, ops |-> [k \in DOMAIN slots |-> MakeOp(slots, k)]]

\* Histories in the order of their calls, as recorders write them.
MayComeNext(s, slot) ==
    s # <<>> => LET last == s[Len(s)]
                IN  \/ last[1][1] < slot[1][1]
                    \/ last[1][1] = slot[1][1] /\ last[1][2] <= slot[1][2]

SlotSequences(slots, maxOps) ==
    LET upTo[len \in 0..maxOps] ==
            IF len = 0 THEN {<<>>}
            ELSE upTo[len - 1] \union
                 {Append(x[1], x[2]) : x \in {y \in upTo[len - 1] \X slots :
                        Len(y[1]) = len - 1 /\ MayComeNext(y[1], y[2])}}
    IN  upTo[maxOps]

\* A register compares values for equality only, so 1 and 2 are alike: of two
\* histories that differ in nothing else, the one that mentions 1 first is kept.
FirstValueIsOne(s) ==
    LET k == SelectInSeq(s, LAMBDA slot : slot[2][2] # 0)
    IN  k # 0 => s[k][2][2] = 1

HistoriesOf(model, maxOps, slots) ==
    {MakeHistory(model, s) :
        s \in {x \in SlotSequences(slots, maxOps) : model = "register" => FirstValueIsOne(x)}}

Registers == HistoriesOf("register", 3, Slots(Rounds3, Values, {""}))
Rounds == HistoriesOf("register", 4, Slots(Rounds4, Values, {""}))
Counters == HistoriesOf("counter", 3, Slots(Rounds3, Sums, {""}))
KeyValues == HistoriesOf("kv", 3, Slots(Rounds3, Puts, {"a", "b"}))

Enumerated == {Registers, Rounds, Counters, KeyValues, PlantedHistories}
OnlyRegisters == {Registers}

-----------------------------------------------------------------------------
(* Chosen histories *)

Op(id, client, type, key, value, call, return) ==
    [id |-> id, client |-> client, type |-> type, key |-> key, value |-> value,
     call |-> call, return |-> return]

Hist(model, init, s) == [model |-> model, init |-> init, ops |-> s]

\* Two clients go back: which of them is named depends on the order of a map.
TwoClientsBack ==
    Hist("register", 3, <<Op(0, 0, "write", "", 5, 0, 10),
                          Op(1, 1, "read", "", 5, 20, 30), Op(2, 2, "read", "", 5, 20, 30),
                          Op(3, 1, "read", "", 3, 40, 50), Op(4, 2, "read", "", 3, 40, 50)>>)

\* Two longest partial linearizations: which one is the best depends on a map.
TwoLongest ==
    Hist("register", 0, <<Op(0, 0, "write", "", 1, 0, 10), Op(1, 1, "write", "", 2, 0, 10),
                          Op(2, 2, "read", "", 1, 20, 30), Op(3, 3, "read", "", 2, 20, 30),
                          Op(4, 4, "read", "", 1, 40, 50)>>)

\* A client reads 5 and then 0, both rightly: 0 was written in between.  Another
\* client's read of 5 comes too late.
SetBack ==
    Hist("register", 0, <<Op(0, 0, "write", "", 5, 0, 10), Op(1, 1, "read", "", 5, 20, 30),
                          Op(2, 0, "write", "", 0, 40, 50), Op(3, 1, "read", "", 0, 60, 70),
                          Op(4, 2, "read", "", 5, 80, 90)>>)

\* A key-value history with an initial value its model ignores, a counter that
\* lost an increment, a correct history, an empty one and one of no known model.
KeyValue == Hist("kv", 7, <<Op(0, 0, "write", "a", 1, 0, 10), Op(1, 0, "write", "b", 2, 20, 30),
                            Op(2, 1, "read", "a", 0, 40, 50), Op(3, 1, "read", "b", 2, 40, 50)>>)
Counted == Hist("counter", 1, <<Op(0, 0, "write", "", 1, 0, 10), Op(1, 1, "write", "", 2, 0, 10),
                                Op(2, 2, "read", "", 3, 20, 30)>>)
Correct == Hist("register", 0, <<Op(0, 0, "write", "", 1, 0, 10), Op(1, 1, "read", "", 1, 0, 10),
                                 Op(2, 2, "read", "", 0, 0, 10), Op(3, 1, "read", "", 1, 20, 30)>>)
Empty == Hist("register", 0, <<>>)
NoModel == Hist("queue", 0, <<Op(0, 0, "write", "", 1, 0, 10)>>)

Curated == {PlantedHistories,
            {TwoClientsBack, TwoLongest, SetBack, KeyValue, Counted, Correct, Empty, NoModel}}

Catalogue == {All}
CatalogueOrNone == {All, <<>>}
=============================================================================
