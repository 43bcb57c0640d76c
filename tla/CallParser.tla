----------------------------- MODULE CallParser -----------------------------
(***************************************************************************)
(* render and parse_call (crates/fgm-core/src/grammar.rs): the emitted ids *)
(* back to text, the delimiters spelled out, and the text back to a call.  *)
(***************************************************************************)
EXTENDS ToolGrammar

CONSTANTS
  OpenText, CloseText, QuoteText,  \* how render spells the delimiters
  NameChar,                        \* alphanumeric characters and "_"
  Space                            \* what trim removes

NoCall == [name |-> <<>>, args |-> <<>>]     \* parse_call's None

Spelling(t) ==
  CASE t = CallOpen  -> OpenText
    [] t = CallClose -> CloseText
    [] t = Quote     -> QuoteText
    [] OTHER         -> VocabBytes(t)
Render(ids) == FlattenSeq([i \in DOMAIN ids |-> Spelling(ids[i])])

From(s, i) == SubSeq(s, i, Len(s))
\* Where p first occurs in s, Len(s) + 1 when it does not.
Find(s, p) ==
  Min({Len(s) + 1} \cup {i \in DOMAIN s : IsPrefix(p, From(s, i))})
Absent(s, p) == Find(s, p) > Len(s)

TrimStart(s) ==
  From(s, Min({Len(s) + 1} \cup {i \in DOMAIN s : s[i] \notin Space}))
Trim(s) == Reverse(TrimStart(Reverse(TrimStart(s))))

Digits(s) == s # <<>> /\ Range(s) \subseteq Digit
\* Fault: the fraction may be empty.
FaultValidScalar(v) ==
  \/ v \in {TrueWord, FalseWord}
  \/ v # <<>> /\ Range(v) \subseteq Digit \cup {"-"}
\* valid_scalar: a boolean, or -?digits with at most one fraction.
ValidScalar(v) ==
  LET u == IF IsPrefix(<<"-">>, v) THEN Tail(v) ELSE v
  IN  \/ v \in {TrueWord, FalseWord}
      \/ Digits(u)
      \/ \E i \in DOMAIN u : /\ u[i] = "."
                             /\ Digits(SubSeq(u, 1, i - 1)) /\ Digits(From(u, i + 1))

\* A round of parse_call's loop: key, colon, value, comma.
Round(was) ==
  LET rest   == was.rest
      key    == Trim(SubSeq(rest, 1, Find(rest, <<":">>) - 1))
      val    == TrimStart(From(rest, Find(rest, <<":">>) + 1))
      quoted == IsPrefix(QuoteText, val)
      body   == From(val, Len(QuoteText) + 1)
      bare   == Trim(SubSeq(val, 1, Find(val, <<",">>) - 1))
      value  == IF quoted THEN SubSeq(body, 1, Find(body, QuoteText) - 1) ELSE bare
      after  == TrimStart(IF quoted THEN From(body, Find(body, QuoteText) + Len(QuoteText))
                                    ELSE From(val, Find(val, <<",">>)))
  IN  IF \/ Absent(rest, <<":">>) \/ key = <<>>
         \/ quoted /\ Absent(body, QuoteText)
         \/ ~quoted /\ ~ValidScalar(bare)
         \/ after # <<>> /\ Head(after) # ","
      THEN [was EXCEPT !.ok = FALSE]
      ELSE [was EXCEPT !.rest = IF after = <<>> THEN <<>> ELSE TrimStart(Tail(after)),
                       !.args = Append(@, <<key, value>>)]
\* The loop: every round takes a colon.
ParseArgs(text) ==
  LET upTo[n \in 0 .. Len(text)] ==
        IF n = 0 THEN [rest |-> text, args |-> <<>>, ok |-> TRUE]
        ELSE LET was == upTo[n - 1]
             IN  IF ~was.ok \/ was.rest = <<>> THEN was ELSE Round(was)
  IN  upTo[Len(text)]

\* parse_call
ParseCall(s) ==
  LET open  == OpenText \o CallWord
      inner == SubSeq(s, Len(open) + 1, Len(s) - Len(CloseText))
      name  == SubSeq(inner, 1, Find(inner, <<"{">>) - 1)
      body  == From(inner, Find(inner, <<"{">>) + 1)
      args  == ParseArgs(Trim(Front(body)))
  IN  IF \/ ~IsPrefix(open, s) \/ ~IsSuffix(CloseText, s) \/ Len(s) < Len(open) + Len(CloseText)
         \/ Absent(inner, <<"{">>)
         \/ name = <<>> \/ ~(Range(name) \subseteq NameChar)
         \/ body = <<>> \/ Last(body) # "}"
      THEN NoCall
      ELSE IF ~args.ok THEN NoCall
      ELSE [name |-> name, args |-> args.args]
=============================================================================
