----------------------------- MODULE Speculate -----------------------------
(***************************************************************************)
(* Greedy decoding of one prompt with the two shortcuts of the bench's     *)
(* genfile mode (crates/fgm-bench/src/main.rs): a run of tokens the        *)
(* grammar forces is fed in one forward, and a draft copied from the       *)
(* prompt is verified in one forward and cut back where the model          *)
(* disagrees.  One action per iteration of the decode loop.                *)
(***************************************************************************)
EXTENDS Runner, SequencesExt

CONSTANTS
  Prompts,          \* the prompt lines
  Grammars,         \* compiled constraints; Free stands for none
  Lookaheads,       \* values of FGM_MTP_LOOKUP
  Ngen,             \* tokens to generate
  Eos,              \* FGM_EOS
  RunMax,           \* the longest forced run taken at once
  LogitRows,        \* logit rows the runner was built for
  Better(_, _, _)   \* Better(h, t, u): t has a larger logit than u after h

INSTANCE Mask

\* No FGM_GRAMMAR: one state that admits every token.
Free == [next |-> [s \in {1} |-> [t \in Token |-> 1]], accept |-> [s \in {1} |-> FALSE]]

VARIABLES
  run,     \* the line's settings: prompt, con, batched (FGM_MTP_GRAMMAR), lookahead
  phase,   \* "prefill", "decode", "done", "panic"
  pos,     \* positions of the cache that count
  tok,     \* chosen, not emitted yet
  state,   \* the constraint's state
  out,     \* emitted
  cache
vars == <<run, phase, pos, tok, state, out, cache>>

\* The context holds every line, a forced run and a draft are no longer than a
\* chunk (15 and 16 against 256), and no prompt holds the padding token 0.
ASSUME SpeculateAssumption ==
  /\ Ngen \in Nat /\ Eos \subseteq Token /\ RunMax \in 1 .. Chunk
  /\ LogitRows \in 0 .. Chunk /\ Lookaheads \subseteq Nat
  /\ \A p \in Prompts :
       /\ p \in Seq(Token) /\ p # <<>> /\ Len(p) + Ngen <= Ctx
       /\ \A k \in 1 .. Len(p) : p[k] # 0

\* Eos holds added tokens, which a compiled constraint never admits.
ASSUME GrammarAssumption ==
  IsFiniteSet(Token) /\ \A g \in Grammars : IsConstraint(g, Eos)

-----------------------------------------------------------------------------
\* The argmax of the logits after h, masked by constraint c in state s.
Choice(c, h, s) == BestOf(Allowed(c, s), LAMBDA t, u : Better(h, t, u))
After(c, s, toks) ==
  LET at[k \in 0 .. Len(toks)] == IF k = 0 THEN s ELSE Advance(c, at[k - 1], toks[k])
  IN  at[Len(toks)]

\* A forward of toks at pos, and the history behind the logits of its row i.
Fwd(toks) == Forward(cache, Elems(toks, Arith(Len(toks), pos + Len(toks))), pos)
RowOut(f, i) == IF f.out = Bad THEN Bad ELSE SubSeq(f.out, 1, pos + i)

Lines == [prompt : Prompts, con : Grammars, batched : BOOLEAN, lookahead : Lookaheads]
Init ==
  /\ run \in Lines
  /\ phase = "prefill" /\ pos = 0 /\ tok = 0 /\ state = Start /\ out = <<>>
  /\ cache = NewCache

\* One chunk of the prompt; the last one chooses the first token.
Prefill ==
  /\ phase = "prefill"
  /\ LET n == MinOf(Chunk, Len(run.prompt) - pos)
         f == Fwd(SubSeq(run.prompt, pos + 1, pos + n))
         last == pos + n = Len(run.prompt)
     IN  /\ cache' = f.kv
         /\ pos' = pos + n
         /\ tok' = IF last THEN Choice(run.con, f.out, state) ELSE tok
         /\ state' = IF last THEN Advance(run.con, state, tok') ELSE state
         /\ phase' = IF last THEN "decode" ELSE phase
  /\ UNCHANGED <<run, out>>

\* The loop condition and its two breaks; every other iteration emits tok.
Over == Len(out) >= Ngen \/ tok \in Eos
Emitted == Append(out, tok)
Closed == Accepting(run.con, state)
Finish ==
  /\ phase = "decode" /\ (Over \/ Closed)
  /\ out' = IF Over THEN out ELSE Emitted
  /\ phase' = "done"
  /\ UNCHANGED <<run, pos, tok, state, cache>>

Going == phase = "decode" /\ ~Over /\ ~Closed

\* Exact path: tok and all but the last forced token advance the cache.
Run == IF run.batched THEN ForcedRun(run.con, state, RunMax) ELSE <<>>
TakesRun == Len(Run) > 1 /\ Len(Emitted) + Len(Run) <= Ngen
FeedRun ==
  /\ Going /\ TakesRun
  /\ cache' = Fwd(<<tok>> \o Front(Run)).kv
  /\ out' = Emitted \o Front(Run)
  /\ tok' = Last(Run)
  /\ state' = After(run.con, state, Run)
  /\ pos' = pos + Len(Run)
  /\ UNCHANGED <<run, phase>>

\* What followed the last occurrence of the last two tokens in the prompt.
Draft ==
  LET n == Len(Emitted)
      hits == {j \in 3 .. Len(run.prompt) :
                 n >= 2 /\ SubSeq(run.prompt, j - 2, j - 1) = SubSeq(Emitted, n - 1, n)}
  IN  IF hits = {} THEN <<>>
      ELSE SubSeq(run.prompt, Max(hits), MinOf(Len(run.prompt), Max(hits) + run.lookahead - 1))
TakesDraft ==
  /\ ~TakesRun /\ run.lookahead > 0
  /\ Draft # <<>> /\ Len(Emitted) + Len(Draft) + 1 <= Ngen

\* Row i of f decides what follows the first i - 1 tokens of the draft.
Decided(f, i) ==
  Choice(run.con, RowOut(f, i), After(run.con, state, SubSeq(Draft, 1, i - 1)))
\* The tokens of the draft the model agrees with, up to the end of the answer.
Agreed(f) ==
  LET bad == {i \in DOMAIN Draft : Decided(f, i) # Draft[i] \/ Draft[i] \in Eos}
  IN  IF bad = {} THEN Len(Draft) ELSE Min(bad) - 1
\* Fault: the row after a fully accepted draft is thrown away.
FaultContinues(f, acc) ==
  Decided(f, IF acc = Len(Draft) /\ acc > 0 THEN acc ELSE acc + 1)
Continues(f, acc) == Decided(f, acc + 1)
\* Fault: the cache is not cut back to what was accepted.
FaultCutBack(acc) == pos + Len(Draft) + 1
CutBack(acc) == pos + acc + 1

FeedDraft ==
  /\ Going /\ TakesDraft /\ Len(Draft) + 1 <= LogitRows
  /\ LET f == Fwd(<<tok>> \o Draft)
         acc == Agreed(f)
     IN  /\ cache' = f.kv
         /\ out' = Emitted \o SubSeq(Draft, 1, acc)
         /\ tok' = Continues(f, acc)
         /\ state' = After(run.con, state, Append(SubSeq(Draft, 1, acc), tok'))
         /\ pos' = CutBack(acc)
  /\ UNCHANGED <<run, phase>>

\* forward_multi refuses more logit rows than the runner was built for.
DraftPanics ==
  /\ Going /\ TakesDraft /\ Len(Draft) + 1 > LogitRows
  /\ phase' = "panic" /\ out' = Emitted
  /\ UNCHANGED <<run, pos, tok, state, cache>>

\* One token, chosen by the model, or by the grammar where it leaves no choice.
Step ==
  /\ Going /\ ~TakesRun /\ ~TakesDraft
  /\ LET f == Fwd(<<tok>>)
         forced == Forced(run.con, state)
     IN  /\ cache' = f.kv
         /\ tok' = IF forced # {} THEN CHOOSE t \in forced : TRUE
                    ELSE Choice(run.con, f.out, state)
         /\ state' = Advance(run.con, state, tok')
  /\ out' = Emitted /\ pos' = pos + 1
  /\ UNCHANGED <<run, phase>>

Next == Prefill \/ Finish \/ FeedRun \/ FeedDraft \/ DraftPanics \/ Step
Spec == Init /\ [][Next]_vars

-----------------------------------------------------------------------------
(* The reference: one token per forward, no shortcut. *)

\* The loop of line r, from the first token: what is emitted, what is chosen, the state.
Chosen(r, ids, s) == Choice(r.con, LoneRun(r.prompt, ids), s)
PlainStart(r) ==
  LET t == Chosen(r, <<>>, Start)
  IN  [out |-> <<>>, tok |-> t, s |-> Advance(r.con, Start, t), over |-> FALSE]
PlainStep(r, was) ==
  LET ids == Append(was.out, was.tok)
      t   == Chosen(r, ids, was.s)
  IN  IF was.over \/ Len(was.out) >= Ngen \/ was.tok \in Eos
      THEN [was EXCEPT !.over = TRUE]
      ELSE IF Accepting(r.con, was.s)
      THEN [was EXCEPT !.out = ids, !.over = TRUE]
      ELSE [out |-> ids, tok |-> t, s |-> Advance(r.con, was.s, t), over |-> FALSE]
PlainRun(r) ==
  LET at[n \in 0 .. Ngen + 1] == IF n = 0 THEN PlainStart(r) ELSE PlainStep(r, at[n - 1])
  IN  at
Plain(r) == PlainRun(r)[Ngen + 1].out

-----------------------------------------------------------------------------
(* Properties *)

\* Every forward of more than one row is computed like one of a single row.  A
\* draft of 15 tokens is not (16 rows take int8 weights, forward.rs:67), nor is
\* a run under a lower FGM_WEIGHTS or a forced FGM_ROWBATCH.
RowsAlike ==
  \A m \in {RunMax} \cup {MinOf(k + 1, LogitRows) : k \in Lookaheads} :
     WeightRows \notin 2 .. m /\ RowbatchRows > m

\* Types; every emitted token has its position, so a rewound cache and the
\* answer never drift apart; nothing is written past the context.
TypeOK ==
  /\ run \in Lines /\ pos \in 0 .. Ctx
  /\ phase \in {"prefill", "decode", "done", "panic"}
  /\ tok \in Token /\ state \in DOMAIN run.con.next
  /\ out \in Seq(Token) /\ Len(out) <= Ngen
  /\ IsCache(cache, Elem)
  /\ phase = "prefill" => pos < Len(run.prompt) /\ out = <<>>
  /\ phase = "decode" => pos = Len(run.prompt) + Len(out)

\* The one difference the code makes: a draft whose accepted part ends in the
\* token that completes the call leaves nothing admitted, the argmax of masked
\* logits is token 0, and the loop emits it before it breaks (main.rs:936-939).
OneMore ==
  /\ run.lookahead > 0 /\ out = Append(Plain(run), 0)
  /\ Closed /\ Allowed(run.con, state) = {}

\* Speculation is indistinguishable from not speculating (main.rs:1006-1009):
\* whatever is batched, drafted and rejected, the answer is that of the plain
\* loop, with or without a constraint, up to one token after a drafted call.
SameAsPlain ==
  /\ IsPrefix(out, Plain(run)) \/ phase = "done"
  /\ phase = "done" => out = Plain(run) \/ OneMore

\* The comment taken at its word: nothing follows the call either.
StopsAtTheCall == IsPrefix(out, Plain(run))

\* What a rejected draft wrote is never read (main.rs:1031-1034): every position
\* the next token attends to holds the answer so far, also in a ring where a
\* draft may have overwritten the oldest rows.
WindowIntact ==
  phase = "decode" =>
    \A l \in Layers : \A q \in WindowStart(l, pos) .. pos - 1 :
       cache.rows[KvSource(l)][SlotOf(KvSource(l), q)] =
          SubSeq(LoneRun(run.prompt, out), 1, q + 1)

\* The assertion of forward_multi on the logit rows asked for (forward.rs:396).
DraftFits == phase # "panic"
=============================================================================
