----------------------------- MODULE MCGrammar -----------------------------
(***************************************************************************)
(* A vocabulary of single bytes and of tokens that cross the boundaries of *)
(* the grammar, and four tool sets: a string; names one of which begins    *)
(* the other, with no, one and two parameters, and numbers; an enum with a *)
(* repeated member and members that begin one another; two booleans.       *)
(***************************************************************************)
EXTENDS Constrained

Spell == <<<<"<o>">>, <<"<c>">>, <<"<q>">>,
           <<",">>, <<"-">>, <<".">>, <<"1">>, <<":">>, <<"a">>, <<"c">>, <<"e">>,
           <<"f">>, <<"k">>, <<"t">>, <<"{">>, <<"}">>, <<"_">>,
           <<"c", ":">>, <<"a", "{">>, <<"k", ":">>, <<":", "_">>, <<",", "_">>,
           <<"1", "1">>, <<"1", "}">>, <<"t", "e">>, <<"e", ",">>, <<"e", "}">>, <<"_", "k">>>>
MCToken == 0 .. Len(Spell) + 3
MCPiece == [t \in MCToken |->
              IF t = 0 THEN <<"P">> ELSE IF t <= Len(Spell) THEN Spell[t]
              ELSE <<<<"N">>, <<"<", ">">>, <<"<", "q", ">">>>>[t - Len(Spell)]]
\* Byte token <0x00> is spelled N and decodes to the byte.
MCDecoded == [t \in MCToken |-> IF t = Len(Spell) + 1 THEN <<"nul">> ELSE MCPiece[t]]
\* Without the "q" of the quote a string cannot spell it.
Bytes == {":", "}", ",", " ", "a", "P", "<", ">"}
\* With the byte token, and with all the characters of the quote.
ByteTokens == Bytes \cup {"N"}
Spelt == Bytes \cup {"q"}

MCCall  == <<"c", ":">>
MCTrue  == <<"t", "e">>
MCFalse == <<"f", "e">>
MCOpenText  == <<"<", "o", ">">>
MCCloseText == <<"<", "c", ">">>
MCQuoteText == <<"<", "q", ">">>

\* The reference sentences: words up to a length.
Words(S, n) == UNION {[1 .. k -> S] : k \in 0 .. n}
StrWords3 == Words(Bytes, 3)
NulWords1 == Words(ByteTokens, 1)
SpeltWords3 == Words(Spelt, 3)
NatWords5 == Words({"1"}, 5) \ {<<>>}
NatWords6 == Words({"1"}, 6) \ {<<>>}

Tool(name, params) == [name |-> name, params |-> params]
Param(name, kind) == [name |-> name, required |-> TRUE, ty |-> [kind |-> kind]]
EnumOf(name, vals) == [name |-> name, required |-> TRUE, ty |-> [kind |-> "enum", vals |-> vals]]
Optional(p) == [p EXCEPT !.required = FALSE]

MCToolSets ==
  [str  |-> <<Tool(<<"a">>, <<Param(<<"k">>, "str")>>)>>,
   pair |-> <<Tool(<<"a">>, <<Optional(Param(<<"k">>, "bool"))>>),
              Tool(<<"a", "k">>, <<Param(<<"k">>, "int"), Param(<<"e">>, "bool")>>),
              Tool(<<"e">>, <<Param(<<"k">>, "num")>>)>>,
   enum |-> <<Tool(<<"a">>, <<EnumOf(<<"k">>, <<<<"a">>, <<"a", "k">>, <<"a">>, <<"t">>>>),
                              Optional(Param(<<"t">>, "str")), Param(<<"e">>, "int")>>)>>,
   bool |-> <<Tool(<<"k">>, <<Param(<<"k">>, "bool"), Param(<<"a">>, "bool")>>),
              Tool(<<"a">>, <<Param(<<"k">>, "int")>>)>>]
StrSet == [str |-> MCToolSets.str]
=============================================================================
