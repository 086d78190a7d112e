------------------------------ MODULE MCSearch ------------------------------
(***************************************************************************)
(* TLC instance of Search: registers of up to four operations, two of them *)
(* writes, over overlapping intervals, so that the cache and the ties of   *)
(* calls and returns matter; key-value histories of two parts; a counter.  *)
(***************************************************************************)
EXTENDS Search

MakeOp(k, slot) ==
    [id |-> k - 1, client |-> k, type |-> slot[1], key |-> slot[2], value |-> slot[3],
     call |-> slot[4], return |-> slot[5]]

Make(model, slots) ==
    [model |-> model, init |-> 0,
     ops |-> [k \in DOMAIN slots |-> MakeOp(k, slots[k])]]

Intervals == {<<0, 1>>, <<0, 2>>, <<1, 2>>, <<1, 3>>, <<3, 3>>}

Slots(types, keys, values) ==
    {<<tv[1], key, tv[2], i[1], i[2]>> : tv \in types \X values, key \in keys, i \in Intervals}

Two(model, W, R) == {Make(model, s) : s \in W \X R}
Three(model, W, R) == {Make(model, s) : s \in W \X W \X R}

OneWrite == Slots({"write"}, {""}, {1})
OtherWrite == Slots({"write"}, {""}, {2})
Reads == Slots({"read"}, {""}, {0, 1, 2})

Registers ==
    {Make("register", s) : s \in OneWrite \X OtherWrite \X Reads \X {<<"read", "", 1, 1, 3>>, <<"read", "", 0, 3, 3>>}}
Counters ==
    {Make("counter", s) : s \in OneWrite \X OtherWrite \X Slots({"read"}, {""}, {1, 3})}
KeyValues ==
    {Make("kv", <<a, b, c, d>>) :
        a \in {<<"write", "a", 1, 0, 1>>}, b \in Slots({"read"}, {"a"}, {0, 1}),
        c \in {<<"write", "b", 1, 0, 2>>}, d \in Slots({"read"}, {"b"}, {0, 1})}

McInputs == Registers \union Counters \union KeyValues
=============================================================================
