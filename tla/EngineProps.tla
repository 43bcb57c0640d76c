---------------------------- MODULE EngineProps ----------------------------
(***************************************************************************)
(* What the scheduler promises: README.md ("equal to the same prompt run   *)
(* alone", "byte-identical with sharing on or off") and the contracts its  *)
(* comments state.                                                         *)
(***************************************************************************)
EXTENDS Engine

\* A decode step of any batch size is computed like one of a single row.
\* --batch and FGM_WEIGHTS can break this; their defaults (8 and 16) do not.
ASSUME BatchAssumption == WeightRows \notin 2 .. Batch /\ RowbatchRows > Batch

\* The tokens of slot s that went through a decode step already.
Fed(s) == SubSeq(s.out_ids, 1, s.pos - Len(Prompt[s.job]))

-----------------------------------------------------------------------------
IsSlot(s) ==
  /\ DOMAIN s = {"job", "out_ids", "text", "sent", "pos", "tok"}
  /\ s.job \in Request /\ s.out_ids \in Seq(Token)
  /\ s.pos \in Nat /\ s.tok \in Token

\* The types of the scheduler's variables (StreamIsPrefix speaks of the text).
TypeOK ==
  /\ open \in BOOLEAN
  /\ status \in [Request -> {"new", "accepted", "rejected"}]
  /\ queue \in Seq(Request)
  /\ pc \in {"admit", "prefill", "build", "emit", "forward", "returned"}
  /\ DOMAIN slots \subseteq SlotId
  /\ \A i \in DOMAIN slots : IsSlot(slots[i])
  /\ DOMAIN caches = SlotId
  /\ \A i \in SlotId : IsCache(caches[i], Elem)
  /\ cur \in [slot : SlotId, job : Request, reuse : Nat, off : Nat, first : Token]
  /\ DOMAIN prefix = {"toks", "kv"} /\ prefix.toks \in Seq(Token)
  /\ IsCache(prefix.kv, Elem)
  /\ DOMAIN build = {"share", "off", "kv"} /\ build.share \in Nat /\ build.off \in Nat
  /\ IsCache(build.kv, Elem)
  /\ lastToks \in Seq(Token)
  /\ DOMAIN events = Request

-----------------------------------------------------------------------------
(* KV state *)

\* Every cache in use holds, at every position attention may still read, the
\* row of its own sequence as a lone run would have computed it: no row of the
\* slot's previous occupant (clear drops no rows), of another slot, of a
\* template whose prompt differs, or overwritten by the ring wrapping.
KvFaithful ==
  /\ \A i \in DOMAIN slots : Holds(caches[i], Alone(slots[i].job, Fed(slots[i])))
  /\ pc \in {"prefill", "build"} =>
       Holds(caches[cur.slot], SubSeq(FullPrefill(Prompt[cur.job]), 1, cur.off))

\* The template holds exactly what a full prefill of any prompt beginning with
\* its tokens would have left: whole chunks (engine.rs:210-218), prefilled to
\* exactly toks.len() positions (engine.rs:111).
TemplateExact ==
  /\ Len(prefix.toks) % Chunk = 0
  /\ prefix.kv.len = Len(prefix.toks)
  /\ Holds(prefix.kv, FullPrefill(prefix.toks))

\* The token a slot holds is the one its request would have chosen run alone,
\* whatever was batched with it and whether or not its prefix was shared.
SameAsAlone ==
  \A i \in DOMAIN slots :
    slots[i].tok = IF pc = "forward" /\ slots[i].out_ids # <<>>
                   THEN slots[i].out_ids[Len(slots[i].out_ids)]
                   ELSE Argmax(Alone(slots[i].job, slots[i].out_ids))

\* No forward writes past a cache, no fork copies a template longer than one,
\* no two jobs share a slot: the asserts and slice bounds that would panic.
NoPanic ==
  /\ pc = "forward" => \A i \in DOMAIN slots : slots[i].pos < Ctx
  /\ pc = "prefill" => Len(Prompt[cur.job]) <= Ctx
  /\ Len(prefix.toks) < Ctx
  /\ pc \in {"prefill", "build"} => cur.slot \notin DOMAIN slots

-----------------------------------------------------------------------------
(* Jobs and events *)

IsDone(e) == e.type = "done"
Finished(r) == \E k \in DOMAIN events[r] : IsDone(events[r][k])
TextOf(evs) ==
  FlattenSeq([k \in DOMAIN evs |-> IF IsDone(evs[k]) THEN <<>> ELSE evs[k].text])
Delivered(r) == TextOf(events[r])

\* How many times request r is present in the engine.
Places(r) ==
  Cardinality({k \in DOMAIN queue : queue[k] = r})
  + (IF pc \in {"prefill", "build"} /\ cur.job = r THEN 1 ELSE 0)
  + Cardinality({i \in DOMAIN slots : slots[i].job = r})
  + Cardinality({k \in DOMAIN events[r] : IsDone(events[r][k])})

\* An accepted job is in the channel, being admitted, in a slot or answered:
\* exactly one of them, so it is answered once, and Done is its last event.
OnePlace ==
  \A r \in Request :
    /\ Places(r) = IF status[r] = "accepted" THEN 1 ELSE 0
    /\ \A k \in DOMAIN events[r] : IsDone(events[r][k]) => k = Len(events[r])

\* What was streamed is a prefix of the text decoded so far, however many
\* bytes a character needed: nothing already sent has changed since.
StreamIsPrefix ==
  \A i \in DOMAIN slots :
    LET s == slots[i] IN
      /\ s.sent <= Len(Decode(s.out_ids))
      /\ Delivered(s.job) = SubSeq(Decode(s.out_ids), 1, s.sent)

\* "length" is reported for max_tokens or a full context and for nothing else,
\* and no completion is longer than max_tokens.
FinishHonest ==
  \A r \in Request : \A k \in DOMAIN events[r] :
    LET e == events[r][k] IN
      IsDone(e) =>
        /\ e.completion <= MaxTokens[r]
        /\ e.finish = "length" =>
             e.completion = MaxTokens[r] \/ e.prompt + e.completion = Ctx - 1

\* engine::run returns with nothing unanswered: a closed channel still yields
\* the jobs it holds, and decoding goes on until the slots are empty.
DrainedOnReturn ==
  pc = "returned" => \A r \in Request : status[r] = "accepted" => Finished(r)

\* What the job of a slot that this step takes away has been sent.
Flushed ==
  \A i \in DOMAIN slots \ DOMAIN slots' :
    LET s    == slots[i]
        text == Decode(Append(s.out_ids, s.tok))
        cuts == StopCuts(text, Stops[s.job])
        sent == TextOf(events'[s.job])
    IN  IF pc = "forward" \/ cuts = {} \/ s.tok \in Eos \/ Len(s.out_ids) >= MaxTokens[s.job]
        THEN sent = Decode(s.out_ids)
        ELSE sent = SubSeq(text, 1, IF Min(cuts) >= s.sent THEN Min(cuts) ELSE s.sent)

\* A job that ends has been sent all its text: what was held back for a
\* character's missing bytes is flushed, and up to a stop string and no further
\* (unless the match began in text already sent: see StopNeverLeaks).
FlushComplete == [][Flushed]_vars

-----------------------------------------------------------------------------
(* The scheduler implements Completions. *)

DoneOf(r) == CHOOSE e \in {events[r][k] : k \in DOMAIN events[r]} : IsDone(e)

AnswerOf(r) ==
  IF Finished(r)
  THEN [st |-> "done", out |-> <<>>,
        finish |-> DoneOf(r).finish, n |-> DoneOf(r).completion]
  ELSE IF \E i \in DOMAIN slots : slots[i].job = r
  THEN [st |-> "running", finish |-> "", n |-> 0,
        out |-> slots[CHOOSE i \in DOMAIN slots : slots[i].job = r].out_ids]
  ELSE [st |-> "waiting", out |-> <<>>, finish |-> "", n |-> 0]

Answers == INSTANCE Completions WITH answer <- [r \in Request |-> AnswerOf(r)]

\* Each request gets the tokens, the count and the finish reason it would get
\* alone, under every batching, admission order and sharing.
ImplementsCompletions == Answers!Spec

-----------------------------------------------------------------------------
(* Liveness, under weak fairness of the engine thread *)

\* Every accepted job is answered.
EveryJobAnswered ==
  \A r \in Request : status[r] = "accepted" ~> Finished(r)

\* Once the channel is closed the engine returns.
ClosedReturns == ~open ~> pc = "returned"

-----------------------------------------------------------------------------
(* What the documents and comments say and the code does not do: each is    *)
(* checked by a run that TLC must find violated.                            *)

\* README.md:164, "max_tokens work", and main.rs:226-236, which accepts every
\* request whose prompt and max_tokens fit the context: a completion that ends
\* with "length" has max_tokens tokens.
LengthIsMaxTokens ==
  \A r \in Request : \A k \in DOMAIN events[r] :
    IsDone(events[r][k]) /\ events[r][k].finish = "length" =>
      events[r][k].completion = MaxTokens[r]

\* engine.rs:31, "Newly decoded text, already past every stop check": text
\* handed to the client ends before the stop string that ends the completion.
StopNeverLeaks ==
  [][\A i \in DOMAIN slots \ DOMAIN slots' :
       LET s    == slots[i]
           cuts == StopCuts(Decode(Append(s.out_ids, s.tok)), Stops[s.job])
       IN  pc = "emit" /\ cuts # {} /\ s.tok \notin Eos /\ Len(s.out_ids) < MaxTokens[s.job]
             => Len(TextOf(events'[s.job])) <= Min(cuts)
    ]_vars

\* engine.rs:205-207, "(Re)build the template when this prompt and the previous
\* one share a long enough prefix that the current template does not already
\* cover": the engine's step after such a prefill (its test is engine.rs:222)
\* starts a build.  Steps of clients leave the engine's variables alone.
UncoveredShareIsBuilt ==
  [][LET toks == Prompt[cur.job]
         covered == /\ Len(prefix.toks) >= Share(toks)
                    /\ SubSeq(prefix.toks, 1, Share(toks)) = SubSeq(toks, 1, Share(toks))
     IN  Prefilled /\ cur.reuse = 0 /\ PrefixMin > 0 /\ Share(toks) >= PrefixMin /\ ~covered
           => pc' = "build"
    ]_engine

\* forward.rs:554-558, debug_assert!(!lk.ring || m + cfg.sliding_window <=
\* lk.capacity), for the forward a prefill is about to run.
RingAssertion ==
  pc = "prefill" /\ cur.off < Len(Prompt[cur.job]) =>
    \A l \in Layers :
      \/ NeedsFull(KvSource(l))
      \/ MinOf(Chunk, Len(Prompt[cur.job]) - cur.off) + Window <= Capacity(KvSource(l))
=============================================================================
