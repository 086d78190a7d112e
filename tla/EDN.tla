-------------------------------- MODULE EDN ---------------------------------
(***************************************************************************)
(* pkg/adapter/jepsen, edn.go: the parser of Jepsen logs, a recursive      *)
(* descent whose calls of parseSeq and parseMap in progress are the stack. *)
(* Each behaviour is one call of parseEDN.  The text is a sequence of      *)
(* tokens, blanks, commas and comments left out; the code has all of it    *)
(* before it starts, here a token is chosen when the parser gets to it, and *)
(* the tokens after one that is refused by Rest.                           *)
(***************************************************************************)
EXTENDS Integers, SequencesExt

CONSTANTS Tokens,          \* <<kind, content>>, of the kinds below
          MaxTokens        \* bound on the length of a text

Kinds == {"keyword", "int", "string", "symbol", "char", "invalid"}

ASSUME TokensAssumption == \A t \in Tokens : t[1] \in Kinds

Char(c) == <<"char", c>>

Opening == {"[", "(", "{"}

Close(open) == CASE open = "[" -> "]" [] open = "(" -> ")" [] open = "{" -> "}"

VARIABLES src,             \* the tokens so far
          stack,           \* innermost call last: what it opened, what it has, its key
          out,             \* the values at the top level
          outcome          \* "parsing", "values"; "error" or, at the end, "unclosed"

vars == <<src, stack, out, outcome>>

\* Values, apart from the atoms: a vector or list, and a map from keywords.
Vector(s) == <<"vector", s>>
EdnMap(f) == <<"map", f>>

NoKey == "no key"

Frame(open) == [open |-> open, items |-> <<>>, map |-> <<>>, key |-> NoKey]

\* Deviation: a symbol stands for itself.
AnySymbol(t) == t[1] \in {"keyword", "int", "string", "symbol"}

\* parseSymbol knows three symbols, of which two are integers.  What the characters
\* of a keyword, a string or a number are is not modelled: one that parseKeyword,
\* parseString or parseNumber refuses is an invalid token.
IsAtom(t) ==
    \/ t[1] \in {"keyword", "int", "string"}
    \/ t[1] = "symbol" /\ t[2] \in {"nil", "true", "false"}

AtomValue(t) ==
    CASE t = <<"symbol", "true">>  -> <<"int", 1>>
      [] t = <<"symbol", "false">> -> <<"int", 0>>
      [] OTHER -> t

Parsing == outcome = "parsing"

Inside == stack # <<>>

Innermost == stack[Len(stack)]

InMap == Inside /\ Innermost.open = "{"

\* The next token is t.
Consume(t) == Parsing /\ Len(src) < MaxTokens /\ src' = Append(src, t)

Refuse(t) ==
    /\ Consume(t)
    /\ outcome' = "error"
    /\ UNCHANGED <<stack, out>>

\* A key that comes again gets the new value.
Put(f, k, v) == (k :> v) @@ f

\* A value is complete: it goes to the call that asked for it.  In a map it is a
\* key, which only a keyword can be, or the value of the last key.
MayTake(frames, v) ==
    frames # <<>> =>
        LET f == frames[Len(frames)]
        IN  f.open = "{" /\ f.key = NoKey => v[1] = "keyword"

Taken(f, v) ==
    CASE f.open # "{"                  -> [f EXCEPT !.items = Append(@, v)]
      [] f.open = "{" /\ f.key = NoKey -> [f EXCEPT !.key = v[2]]
      [] OTHER                         -> [f EXCEPT !.map = Put(@, f.key, v), !.key = NoKey]

Deliver(frames, v) ==
    /\ UNCHANGED outcome
    /\ IF frames = <<>>
       THEN out' = Append(out, v) /\ stack' = <<>>
       ELSE /\ stack' = [frames EXCEPT ![Len(frames)] = Taken(@, v)]
            /\ UNCHANGED out

Atom(t) ==
    /\ IsAtom(t)
    /\ MayTake(stack, AtomValue(t))
    /\ Consume(t)
    /\ Deliver(stack, AtomValue(t))

\* A bracket may open anywhere; where a keyword is needed the error comes with
\* the end of what it opens.
Open(t) ==
    /\ t[1] = "char" /\ t[2] \in Opening
    /\ Consume(t)
    /\ stack' = Append(stack, Frame(t[2]))
    /\ UNCHANGED <<out, outcome>>

\* Deviation: any bracket closes a vector or a list.
ClosesAnySeq(t) ==
    /\ Inside /\ t[1] = "char"
    /\ \/ Innermost.open # "{" /\ t[2] \in {"]", ")"}
       \/ Innermost.open = "{" /\ t[2] = "}" /\ Innermost.key = NoKey

\* The bracket that the innermost call waits for; a map waits for none while a
\* key has no value.
Closes(t) ==
    /\ Inside /\ t = Char(Close(Innermost.open))
    /\ Innermost.key = NoKey

Collected == IF InMap THEN EdnMap(Innermost.map) ELSE Vector(Innermost.items)

CloseSeqOrMap(t) ==
    /\ Closes(t)
    /\ MayTake(Front(stack), Collected)
    /\ Consume(t)
    /\ Deliver(Front(stack), Collected)

\* Characters and symbols without a meaning, brackets that close nothing, a map
\* without a value, keys that are not keywords.
Unexpected(t) ==
    \/ t[1] \in {"symbol", "invalid"} /\ ~IsAtom(t)
    \/ IsAtom(t) /\ ~MayTake(stack, AtomValue(t))
    \/ t[1] = "char" /\ t[2] \notin Opening /\ ~Closes(t)
    \/ Closes(t) /\ ~MayTake(Front(stack), Collected)

Fail(t) == Unexpected(t) /\ Refuse(t)

\* Deviation: the end of the text ends every call.
EndAnywhere ==
    /\ Parsing
    /\ outcome' = "values"
    /\ out' = IF Len(out) = 1 /\ out[1][1] = "vector" THEN out[1][2] ELSE out
    /\ UNCHANGED <<src, stack>>

\* The end of the text: of all calls, or in the middle of one.
End ==
    /\ Parsing /\ ~Inside
    /\ outcome' = "values"
    /\ out' = IF Len(out) = 1 /\ out[1][1] = "vector" THEN out[1][2] ELSE out
    /\ UNCHANGED <<src, stack>>

Unclosed ==
    /\ Parsing /\ Inside
    /\ outcome' = "unclosed"
    /\ UNCHANGED <<src, stack, out>>

\* Nothing of the text behind an error is looked at.
Rest(t) ==
    /\ outcome = "error" /\ Len(src) < MaxTokens
    /\ src' = Append(src, t)
    /\ UNCHANGED <<stack, out, outcome>>

Init == src = <<>> /\ stack = <<>> /\ out = <<>> /\ outcome = "parsing"

Next ==
    \/ \E t \in Tokens : Atom(t) \/ Open(t) \/ CloseSeqOrMap(t) \/ Fail(t) \/ Rest(t)
    \/ End \/ Unclosed

Spec == Init /\ [][Next]_vars

-----------------------------------------------------------------------------
(* The grammar: what a text means, without a stack and without an order of   *)
(* reading.  It is that of the package comment, and uses of the parser only   *)
(* the way in which tokens and values are written down.  Of a stretch of      *)
(* tokens, value has the values it can be as one value, and all those it can  *)
(* be as a sequence of values.                                                *)

\* "keywords ..., integers (signed), nil, strings": each stands for itself.
Literal(t) == t[1] \in {"keyword", "int", "string"} \/ t = <<"symbol", "nil">>

\* "vectors", "lists (treated like vectors)"; "maps".
SeqBrackets == {<<Char("["), Char("]")>>, <<Char("("), Char(")")>>}
MapBrackets == {<<Char("{"), Char("}")>>}

\* What the comment does not name and the code accepts: truth values, read as numbers.
TruthValues == (<<"symbol", "true">> :> <<"int", 1>>) @@ (<<"symbol", "false">> :> <<"int", 0>>)

WithoutTruthValues(text) ==
    [k \in DOMAIN text |->
        IF text[k] \in DOMAIN TruthValues THEN TruthValues[text[k]] ELSE text[k]]

IsMapBody(s) == Len(s) % 2 = 0 /\ \A k \in DOMAIN s : k % 2 = 1 => s[k][1] = "keyword"

KeysOf(s) == {s[k][2] : k \in {j \in DOMAIN s : j % 2 = 1}}

\* Of two values of one key the last counts.
MapOf(s) ==
    [k \in KeysOf(s) |->
        s[1 + CHOOSE j \in DOMAIN s : j % 2 = 1 /\ s[j][2] = k
                /\ \A l \in DOMAIN s : l % 2 = 1 /\ s[l][2] = k => l <= j]]

\* The values that one token, or the tokens from a bracket to its own, can be, when
\* within has the sequences of values between the brackets.
ValuesOf(first, last, len, within) ==
    CASE len = 1 -> {t \in {first} : Literal(t)}
      [] len > 1 /\ <<first, last>> \in SeqBrackets -> {Vector(s) : s \in within}
      [] len > 1 /\ <<first, last>> \in MapBrackets ->
            {EdnMap(MapOf(s)) : s \in {x \in within : IsMapBody(x)}}
      [] OTHER -> {}

\* The stretches of len tokens by where they begin, from those of fewer tokens:
\* shorter[l + 1] has the stretches of l tokens.
Stretches(text, len, shorter) ==
    [a \in 1..(Len(text) + 1 - len) |->
        LET b == a + len - 1
            within == IF len > 1 THEN shorter[len - 1][a + 1].all ELSE {}
            value == ValuesOf(text[a], text[b], len, within)
        IN  [value |-> value,
             all |-> {<<v>> : v \in value} \union
                     UNION {{<<v>> \o s : v \in shorter[l + 1][a].value,
                                          s \in shorter[len - l + 1][a + l].all} :
                                l \in 1..(len - 1)}]]

Meanings(text) ==
    LET none == [a \in 1..(Len(text) + 1) |-> [value |-> {}, all |-> {<<>>}]]
        table == FoldLeft(LAMBDA t, len : Append(t, <<>> \o Stretches(text, len, t)),
                          <<none>>, [k \in 1..Len(text) |-> k])
    IN  table[Len(text) + 1][1].all

-----------------------------------------------------------------------------
(* Properties *)

\* A vector or list that is all of the log is the log.
Flattened(s) == IF Len(s) = 1 /\ s[1][1] = "vector" THEN s[1][2] ELSE s

\* "Anything outside this subset returns a parse error rather than being
\* silently skipped", but for truth values: when these are written as the numbers
\* they are read as, a text is parsed if and only if it has a meaning in the
\* documented grammar, to the only meaning it has.
ParsesTheGrammar ==
    LET meanings == Meanings(WithoutTruthValues(src))
    IN  /\ outcome = "values" => {Flattened(s) : s \in meanings} = {out}
        /\ outcome \in {"error", "unclosed"} => meanings = {}
=============================================================================
