----------------------------- MODULE ToolGrammar -----------------------------
(***************************************************************************)
(* GrammarBuilder and Constraint::compile (crates/fgm-core/src/grammar.rs):*)
(* a tool set becomes an automaton over bytes, and the automaton a mask    *)
(* over tokens.  A byte is a model value or a short string; a builder is   *)
(* [st, panic], its states and whether an assertion has failed, and a      *)
(* cursor [b, at] is a builder and the state reached in it.                *)
(***************************************************************************)
EXTENDS Mask, SequencesExt

CONSTANTS
  CallOpen, CallClose, Quote,   \* the delimiter tokens (Delims)
  CallWord,                     \* "call:"
  TrueWord, FalseWord,          \* "true", "false"
  Digit,                        \* the ASCII digits
  StrByte,                      \* bytes >= 0x20, newline and tab
  Meta,                         \* U+2581, how a piece spells a space
  Piece,                        \* how tokenizer.json spells each token
  Special                       \* the ids of its added_tokens

-----------------------------------------------------------------------------
(* States and edges *)

NoClass == [bytes |-> {}, to |-> None, exitOn |-> None, exit |-> None]
Blank   == [lits |-> <<>>, toks |-> <<>>, class |-> NoClass, accept |-> FALSE]

\* The first edge on x, as Vec::find returns it.
First(edges, x) ==
  LET hits == {i \in DOMAIN edges : edges[i][1] = x}
  IN  IF hits = {} THEN None ELSE edges[Min(hits)][2]

\* Dfa::step: a literal edge, else the exit of the class, else the class.
StepByte(st, s, c) ==
  LET q == st[s]
      lit == First(q.lits, c)
  IN  IF lit # None THEN lit
      ELSE IF q.class.exit # None /\ c = q.class.exitOn THEN q.class.exit
      ELSE IF c \notin q.class.bytes THEN None
      ELSE IF q.class.to = None THEN s ELSE q.class.to

Add(b) == [b EXCEPT !.st = Append(@, Blank)]
NewIn(b) == Len(b.st) + 1
AddLit(b, s, c, to) == [b EXCEPT !.st[s].lits = Append(@, <<c, to>>)]
TokTo(b, s, id, to) == [b EXCEPT !.st[s].toks = Append(@, <<id, to>>)]
SetClass(b, s, bytes, to, exitOn, exit) ==
  [b EXCEPT !.st[s].class =
     [bytes |-> bytes, to |-> to, exitOn |-> exitOn, exit |-> exit]]

At(b, s) == [b |-> b, at |-> s]

\* op(b), with b evaluated first: a builder is the result of a long chain of
\* edits, and TLC would otherwise carry it along unevaluated.
Edit(op(_), b) == CHOOSE r \in {op(v) : v \in {b}} : TRUE

\* Fault: no sharing, every alternative gets a chain of its own.
FaultLit(w, word) ==
  LET after[k \in 0 .. Len(word)] ==
        IF k = 0 THEN w
        ELSE LET v == after[k - 1]
             IN  At(AddLit(Add(v.b), v.at, word[k], NewIn(v.b)), NewIn(v.b))
  IN  after[Len(word)]

\* lit: walk word, reusing edges and creating the rest.
Lit(w, word) ==
  LET one(v, c) ==
        LET to == First(v.b.st[v.at].lits, c)
        IN  IF to # None THEN At(v.b, to)
            ELSE At(AddLit(Add(v.b), v.at, c, NewIn(v.b)), NewIn(v.b))
      after[k \in 0 .. Len(word)] == IF k = 0 THEN w ELSE one(after[k - 1], word[k])
  IN  after[Len(word)]

\* lit_to: the last byte lands on an existing state, and must be a new edge.
LitTo(w, word, to) ==
  LET v == Lit(w, Front(word))
      taken == First(v.b.st[v.at].lits, Last(word)) # None
  IN  [AddLit(v.b, v.at, Last(word), to) EXCEPT !.panic = @ \/ taken]

Tok(w, id) ==
  LET to == First(w.b.st[w.at].toks, id)
  IN  IF to # None THEN At(w.b, to) ELSE At(TokTo(Add(w.b), w.at, id, NewIn(w.b)), NewIn(w.b))

\* maybe_space: what sub builds from a new state also starts at from.
Join(b, from, v) ==
  LET q == b.st[v]
  IN  [b EXCEPT !.st[from] =
         [lits   |-> Append(@.lits, <<" ", v>>) \o q.lits,
          toks   |-> @.toks \o q.toks,
          class  |-> IF @.class = NoClass THEN q.class ELSE @.class,
          accept |-> @.accept \/ q.accept]]
MaybeSpace(b, from, sub(_)) == Join(sub(At(Add(b), NewIn(b))), from, NewIn(b))

\* Fault: the naive class, digits and dots in any number.
FaultNumberTo(b, from, exitOn, to, frac) ==
  SetClass(b, from, IF frac THEN Digit \cup {"."} ELSE Digit, None, exitOn, to)
\* number_to: -?[0-9]+ and, for a Num, at most one fraction.
NumberTo(b, from, exitOn, to, frac) ==
  LET int == NewIn(b)
      neg == int + 1
      dot == int + 2
      dec == int + 3
      whole == SetClass(SetClass(SetClass(AddLit(Add(Add(b)), from, "-", neg),
                 from, Digit, int, None, None), neg, Digit, int, None, None),
                 int, Digit, int, exitOn, to)
  IN  IF ~frac THEN whole
      ELSE SetClass(SetClass(AddLit(Add(Add(whole)), int, ".", dot),
             dot, Digit, dec, None, None), dec, Digit, dec, exitOn, to)

\* An enum: every member from one quote to one state, a repeated member once.
EnumTo(w, vals, exitOn, to) ==
  LET open == Tok(w, Quote)
      closed == NewIn(open.b)
      seen(k) == \E j \in 1 .. k - 1 : vals[j] = vals[k]
      member(b, v) == LET end == Lit(At(b, open.at), v) IN TokTo(end.b, end.at, Quote, closed)
      upTo[k \in 0 .. Len(vals)] ==
        IF k = 0 THEN Add(open.b)
        ELSE IF seen(k) THEN upTo[k - 1] ELSE member(upTo[k - 1], vals[k])
  IN  LitTo(At(upTo[Len(vals)], closed), <<exitOn>>, to)

\* value_to: one parameter value, ending on exitOn and landing on to.
ValueTo(w, ty, exitOn, to) ==
  CASE ty.kind = "str" ->
         LET body == Tok(w, Quote)
             closed == Tok(At(SetClass(body.b, body.at, StrByte, None, None, None), body.at), Quote)
         IN  LitTo(closed, <<exitOn>>, to)
    [] ty.kind = "int"  -> NumberTo(w.b, w.at, exitOn, to, FALSE)
    [] ty.kind = "num"  -> NumberTo(w.b, w.at, exitOn, to, TRUE)
    [] ty.kind = "bool" ->
         LitTo(At(LitTo(w, Append(TrueWord, exitOn), to), w.at), Append(FalseWord, exitOn), to)
    [] ty.kind = "enum" -> EnumTo(w, ty.vals, exitOn, to)

\* Only required parameters are in the grammar, in schema order.
Required(tool) ==
  LET upTo[i \in 0 .. Len(tool.params)] ==
        IF i = 0 THEN <<>>
        ELSE IF tool.params[i].required THEN Append(upTo[i - 1], tool.params[i]) ELSE upTo[i - 1]
  IN  upTo[Len(tool.params)]

\* One parameter, from w: key and value, each after an optional space.
ParamTo(w, p, exitOn, to) ==
  LET value(v) == ValueTo(v, p.ty, exitOn, to)
      key(k) == LET after == Lit(k, Append(p.name, ":")) IN MaybeSpace(after.b, after.at, value)
  IN  MaybeSpace(w.b, w.at, key)

\* One tool: NAME{k: v, ...}, from head to end.
AddTool(b, head, end, tool) ==
  LET open == Lit(At(b, head), Append(tool.name, "{"))
      req == Required(tool)
      param(w, i) ==
        IF i = Len(req) THEN At(ParamTo(w, req[i], "}", end), end)
        ELSE At(ParamTo(At(Add(w.b), w.at), req[i], ",", NewIn(w.b)), NewIn(w.b))
      upTo[i \in 0 .. Len(req)] ==
        IF i = 0 THEN open ELSE Edit(LAMBDA v : param(v, i), upTo[i - 1])
  IN  IF req = <<>> THEN LitTo(open, <<"}">>, end) ELSE upTo[Len(req)].b

\* build_with: <|tool_call>call:... <tool_call|>, one alternative per tool.
Build(tools) ==
  LET head == Lit(Tok(At([st |-> <<Blank>>, panic |-> FALSE], Start), CallOpen), CallWord)
      end == NewIn(head.b)
      done == Tok(At(Add(head.b), end), CallClose)
      first == [done.b EXCEPT !.st[done.at].accept = TRUE]
      upTo[k \in 0 .. Len(tools)] ==
        IF k = 0 THEN first ELSE Edit(LAMBDA b : AddTool(b, head.at, end, tools[k]), upTo[k - 1])
  IN  upTo[Len(tools)]

-----------------------------------------------------------------------------
(* From bytes to tokens *)

Spelled(t) ==
  [i \in 1 .. Len(Piece[t]) |-> IF Piece[t][i] = Meta THEN " " ELSE Piece[t][i]]
\* Fault: added tokens keep the bytes they are spelled with.
FaultVocabBytes(t) == IF t \in {CallOpen, CallClose, Quote} THEN <<>> ELSE Spelled(t)
\* load_vocab_bytes: the spelling of a token, none for an added token.
VocabBytes(t) == IF t \in Special THEN <<>> ELSE Spelled(t)

\* The bytes some token spells alone.
Byte == {VocabBytes(t)[1] : t \in {u \in Token : Len(VocabBytes(u)) = 1}}

\* A vocabulary that can spell the grammar: the delimiters are added tokens, and
\* every byte the builder asks for, with one of the digits, is a token.  The digits
\* are not punctuation, nor do the booleans begin with a space.
ASSUME VocabAssumption ==
  /\ IsFiniteSet(Token)
  /\ \A t \in Token : Piece[t] \in Seq(Range(Piece[t]))
  /\ {CallOpen, CallClose, Quote} \subseteq Token \cap Special
  /\ CallOpen # CallClose /\ CallOpen # Quote /\ CallClose # Quote
  /\ {"{", "}", ",", ":", "-", ".", " "} \subseteq Byte /\ Digit \cap Byte # {}
  /\ {CallWord, TrueWord, FalseWord} \subseteq Seq(Byte) \ {<<>>}
  /\ TrueWord[1] # FalseWord[1] /\ " " \notin {TrueWord[1], FalseWord[1]}
  /\ Digit \cap {"}", ",", "-", ".", " "} = {}

\* compile: every token's bytes walked from every state, then the token edges.
Walk(st, s, word) ==
  LET upTo[k \in 0 .. Len(word)] ==
        IF k = 0 THEN s
        ELSE IF upTo[k - 1] = None THEN None ELSE StepByte(st, upTo[k - 1], word[k])
  IN  upTo[Len(word)]
TokenTo(st, s, t) ==
  LET byTok == {i \in DOMAIN st[s].toks : st[s].toks[i][1] = t}
  IN  IF byTok # {} THEN st[s].toks[Max(byTok)][2]
      ELSE IF VocabBytes(t) = <<>> THEN None ELSE Walk(st, s, VocabBytes(t))
Compile(b) ==
  [next   |-> [s \in DOMAIN b.st |-> [t \in Token |-> TokenTo(b.st, s, t)]],
   accept |-> [s \in DOMAIN b.st |-> b.st[s].accept],
   panic  |-> b.panic]
=============================================================================
