----------------------------- MODULE Constrained -----------------------------
(***************************************************************************)
(* Constrained decoding of one tool call (crates/fgm-core/src/grammar.rs,  *)
(* driven by fgm-bench): the model picks any token the mask admits.  The   *)
(* language the automaton should accept is written down independently, as  *)
(* the sentences of a tool set with the call each of them stands for.      *)
(***************************************************************************)
EXTENDS CallParser

CONSTANTS
  ToolSets,     \* tool sets to compile: a function to sequences of tools
  NUL,          \* a control character: no string may contain one
  Decoded,      \* the bytes Tokenizer::decode gives for each token
  MaxIdle,      \* bound: bytes that leave the automaton where it is
  StrWords,     \* the string bodies of the reference sentences
  NatWords      \* their runs of digits

VARIABLES
  tools,   \* which tool set this run was started with
  con,     \* the constraint compiled from it
  state,   \* Constraint::state
  out,     \* the tokens emitted
  idle     \* bytes of those that did not move the automaton (for the bound)
vars == <<tools, con, state, out, idle>>

\* Tool sets the vocabulary can spell: names are distinct and have no "{", enums
\* are not empty; build_with relies on all three.  A key does not begin with the
\* space that may stand before it (parse_call would trim it).
ASSUME ToolAssumption ==
  \A n \in DOMAIN ToolSets : LET ts == ToolSets[n] IN
     /\ ts \in Seq(Range(ts)) \ {<<>>}
     /\ \A i, j \in DOMAIN ts : ts[i].name = ts[j].name => i = j
     /\ \A i \in DOMAIN ts :
          /\ ts[i].name \in Seq(Byte \ {"{"})
          /\ ts[i].params \in Seq(Range(ts[i].params))
          /\ \A j \in DOMAIN ts[i].params : LET p == ts[i].params[j] IN
               /\ p.name \in Seq(Byte) /\ p.required \in BOOLEAN
               /\ p.name # <<>> => p.name[1] # " "
               /\ p.ty.kind \in {"str", "int", "num", "bool", "enum"}
               /\ p.ty.kind = "enum" => p.ty.vals \in Seq(Seq(Byte)) \ {<<>>}

ASSUME BoundAssumption == MaxIdle \in Nat

\* In a text a delimiter is one symbol, which no token spells.
Opens  == "OPEN"
Closes == "CLOSE"
Quotes == "QUOTE"
Marks  == {Opens, Closes, Quotes}
ASSUME SymbolAssumption ==
  /\ Marks \cap (StrByte \cup Digit) = {}
  /\ \A t \in Token : Marks \cap Range(Spelled(t)) = {}

-----------------------------------------------------------------------------
Done == Accepting(con, state)

Init ==
  /\ tools \in DOMAIN ToolSets
  /\ con = Edit(Compile, Build(ToolSets[tools]))
  /\ state = Start /\ out = <<>> /\ idle = 0

\* One constrained step: the argmax of masked logits is some admitted token,
\* and token 0 when nothing is admitted.
Emit(t) ==
  /\ ~Done
  /\ t \in Allowed(con, state) \/ (Allowed(con, state) = {} /\ t = 0)
  /\ out' = Append(out, t)
  /\ state' = Advance(con, state, t)
  /\ idle' = IF state' = state THEN idle + Len(VocabBytes(t)) ELSE idle
  /\ idle' <= MaxIdle
  /\ UNCHANGED <<tools, con>>

Next == \E t \in Token : Emit(t)
Spec == Init /\ [][Next]_vars

\* Fault: the first token admitted, wherever it leads.
FaultPick(s) == Min(Allowed(con, s))
\* The walk of the "tools" mode takes the first delimiter admitted or the first
\* token that leaves the state, else the first token admitted.
Moves(s, t) == con.next[s][t] # s
Pick(s) ==
  LET good == {t \in Allowed(con, s) : VocabBytes(t) = <<>> \/ Moves(s, t)}
  IN  Min(IF good # {} THEN good ELSE Allowed(con, s))
\* Where it stops: it goes by the state alone, so in as many steps as there are
\* states or never.
WalkFrom(s) ==
  LET walk[n \in 0 .. Cardinality(DOMAIN con.next), q \in DOMAIN con.next] ==
        IF n = 0 \/ Accepting(con, q) \/ Allowed(con, q) = {} THEN q
        ELSE walk[n - 1, Advance(con, q, Pick(q))]
  IN  walk[Cardinality(DOMAIN con.next), s]

-----------------------------------------------------------------------------
(* The reference: the calls of a tool set and how they may be spelled. *)

Cat(A, B)   == {<<a[1] \o b[1], a[2] \o b[2]>> : a \in A, b \in B}
Lone(word)  == {<<word, <<>>>>}               \* text that carries no argument

Num(frac) ==
  LET abs == NatWords \cup
               (IF frac THEN {a \o <<".">> \o b : a, b \in NatWords} ELSE {})
  IN  abs \cup {<<"-">> \o a : a \in abs}
ValuesOf(ty) ==
  CASE ty.kind = "str"  -> StrWords
    [] ty.kind = "enum" -> Range(ty.vals)
    [] ty.kind = "bool" -> {TrueWord, FalseWord}
    [] ty.kind = "int"  -> Num(FALSE)
    [] ty.kind = "num"  -> Num(TRUE)
Quoted(ty, v) == IF ty.kind \in {"str", "enum"} THEN <<Quotes>> \o v \o <<Quotes>> ELSE v
ArgTexts(p) ==
  {<<s1 \o p.name \o <<":">> \o s2 \o Quoted(p.ty, v), <<<<p.name, v>>>>>> :
     s1, s2 \in {<<>>, <<" ">>}, v \in ValuesOf(p.ty)}

\* Texts of one call of a tool, each with the arguments it passes.
ArgLists(req) ==
  LET comma(i) == Lone(IF i = 1 THEN <<>> ELSE <<",">>)
      upto[i \in 0 .. Len(req)] ==
        IF i = 0 THEN Lone(<<>>) ELSE Cat(Cat(upto[i - 1], comma(i)), ArgTexts(req[i]))
  IN  upto[Len(req)]
CallsOf(tool) ==
  {<<<<Opens>> \o CallWord \o tool.name \o <<"{">> \o a[1] \o <<"}", Closes>>,
     [name |-> tool.name, args |-> a[2]]>> : a \in ArgLists(Required(tool))}
Calls     == [n \in DOMAIN ToolSets |-> UNION {CallsOf(ToolSets[n][i]) : i \in DOMAIN ToolSets[n]}]
Sentences == [n \in DOMAIN ToolSets |-> {c[1] : c \in Calls[n]}]
Viable    == [n \in DOMAIN ToolSets |->
                UNION {{SubSeq(s, 1, k) : k \in 0 .. Len(s)} : s \in Sentences[n]}]

\* The text a run of tokens stands for.
Symbols(t) ==
  CASE t = CallOpen  -> <<Opens>>
    [] t = CallClose -> <<Closes>>
    [] t = Quote     -> <<Quotes>>
    [] OTHER         -> VocabBytes(t)
TextOf(ids) == FlattenSeq([i \in DOMAIN ids |-> Symbols(ids[i])])

-----------------------------------------------------------------------------
(* Properties *)

\* Types: the state is one of the automaton's, no builder assertion has failed,
\* and of the added tokens only the delimiters are emitted (a mask that admits
\* <pad> decodes it forever, grammar.rs:561-566).
TypeOK ==
  /\ tools \in DOMAIN ToolSets
  /\ state \in DOMAIN con.next
  /\ out \in Seq((Token \ Special) \cup {CallOpen, CallClose, Quote})
  /\ idle \in 0 .. MaxIdle
  /\ ~con.panic

\* The mask admits a token exactly when some call of the tool set continues
\* with it: no tool, value or branch is unreachable, and no admitted token
\* leads where the call cannot be finished.  grammar.rs:163-176 records two
\* builders that got this wrong (one tool in twelve reachable; a dead end after
\* "false"), 264-271 a third.
MaskIsExact ==
  \A t \in Token :
     t \in Allowed(con, state)
       <=> Symbols(t) # <<>> /\ TextOf(out) \o Symbols(t) \in Viable[tools]

\* Decoding ends exactly when the text is a complete call.
DoneIsACall == Done <=> TextOf(out) \in Sentences[tools]

\* A forced run is emitted without asking the model: every call that begins
\* with the text so far must continue with the whole run.
RunIsForced ==
  LET run  == ForcedRun(con, state, 15)
      text == TextOf(out)
      ends == text \o TextOf(run)
  IN  run # <<>> => \A s \in Sentences[tools] : IsPrefix(text, s) => IsPrefix(ends, s)

\* What was decoded under the constraint is, rendered to text, what parse_call
\* reads back: the same tool with the same arguments (fgm-bench asserts on it).
ParsesBack == Done => <<TextOf(out), ParseCall(Render(out))>> \in Calls[tools]

\* Strings hold no control characters (grammar.rs:94, ByteClass::StrBody), also
\* when the ids are turned into text by the server's tokenizer.
NoControlBytes ==
  \A i \in DOMAIN out : NUL \notin Range(Decoded[out[i]])

\* The walk of the "tools" mode, which picks tokens without a model, reaches a
\* complete call from the start and never circles in a string or a number.
WalkEnds == out = <<>> => Accepting(con, WalkFrom(state))
=============================================================================
