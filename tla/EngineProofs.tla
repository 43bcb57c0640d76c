---------------------------- MODULE EngineProofs ----------------------------
(***************************************************************************)
(* The scheduler, for every batch size, context, layout and set of         *)
(* requests.  Three inductive invariants, one on top of the other:         *)
(*  - IInv ties each slot's pos to its prompt and out_ids, bounds out_ids  *)
(*    by max_tokens, and carries the job being admitted and the template   *)
(*    being built through their prefill loops.  It gives the cache and the *)
(*    answers (KvFaithful, SameAsAlone).                                   *)
(*  - JInv says where a job can be (the channel, admission, a slot,        *)
(*    answered: never in two of them), that Done is the last event a job   *)
(*    hears, and that a slot between two steps has room in the context for *)
(*    its next token.  It gives the accounting of jobs, and Completions.   *)
(*  - TextInv says that what a job was sent is the stable part of its      *)
(*    text: tokens may split a character, a later token never changes what *)
(*    was sent, and what is held back is flushed.                          *)
(* Each operation has a lemma for each of them.                            *)
(***************************************************************************)
EXTENDS EngineProps, RunnerProofs, FiniteSetTheorems

-----------------------------------------------------------------------------
(* A request alone: the history its answer is judged by *)

\* What is assumed of a request.
LEMMA PromptFacts ==
  ASSUME NEW r \in Request
  PROVE  /\ Prompt[r] \in Seq(Token) /\ Len(Prompt[r]) \in Nat
         /\ Len(Prompt[r]) >= 1 /\ MaxTokens[r] \in Nat
  BY RequestAssumption, EmptySeq, LenProperties

\* What is known of lone runs, for a request.
LEMMA AloneType ==
  ASSUME NEW r \in Request, NEW ids \in Seq(Token)
  PROVE  /\ Alone(r, ids) \in Seq(Elem)
         /\ Len(Alone(r, ids)) = Len(Prompt[r]) + Len(ids)
  BY PromptFacts, LoneRunType DEF Alone

LEMMA AloneNothing ==
  ASSUME NEW r \in Request PROVE Alone(r, <<>>) = FullPrefill(Prompt[r])
  BY PromptFacts, LoneRunNothing DEF Alone

LEMMA AloneAppend ==
  ASSUME NEW r \in Request, NEW ids \in Seq(Token), NEW t \in Token
  PROVE  Alone(r, Append(ids, t)) =
           Alone(r, ids) \o Elems(<<t>>, Arith(1, Len(Prompt[r]) + Len(ids) + 1))
  BY PromptFacts, LoneRunAppend DEF Alone

-----------------------------------------------------------------------------
(* The inductive invariant *)

\* A slot and its cache; fwd: between the emit loop and the forward, when the
\* token the slot holds is already in out_ids but not yet in the cache.
SlotOK(s, c, fwd) ==
  /\ IsSlot(s) /\ Fits(s.job) /\ Len(s.out_ids) <= MaxTokens[s.job]
  /\ fwd  => /\ s.out_ids # <<>> /\ s.tok = s.out_ids[Len(s.out_ids)]
             /\ s.pos = Len(Prompt[s.job]) + Len(s.out_ids) - 1
  /\ ~fwd => /\ s.tok = Argmax(Alone(s.job, s.out_ids))
             /\ s.pos = Len(Prompt[s.job]) + Len(s.out_ids)
  /\ Holds(c, Alone(s.job, Fed(s)))

\* A job of n = off prefilled tokens, and the cache it is prefilled into.
Prefilling(job, off, c) ==
  /\ off \in 0 .. Len(Prompt[job])
  /\ off % Chunk = 0 \/ off = Len(Prompt[job])
  /\ Holds(c, SubSeq(FullPrefill(Prompt[job]), 1, off))

CurOK(k, c) ==
  /\ Fits(k.job)
  /\ Prefilling(k.job, k.off, c)
  /\ k.off = Len(Prompt[k.job]) => k.first = Argmax(FullPrefill(Prompt[k.job]))

BuildOK(b, k) ==
  /\ k.off = Len(Prompt[k.job])
  /\ b.share < Len(Prompt[k.job]) /\ b.share % Chunk = 0
  /\ b.off <= b.share /\ b.off % Chunk = 0 /\ b.kv.len = b.off
  /\ Holds(b.kv, SubSeq(FullPrefill(SubSeq(Prompt[k.job], 1, b.share)), 1, b.off))

IInv ==
  /\ TypeOK
  /\ \A k \in DOMAIN queue : Fits(queue[k])
  /\ \A i \in DOMAIN slots : SlotOK(slots[i], caches[i], pc = "forward")
  /\ pc \in {"prefill", "build"} =>
       cur.slot \notin DOMAIN slots /\ CurOK(cur, caches[cur.slot])
  /\ pc = "build" => BuildOK(build, cur)
  /\ TemplateExact /\ Len(prefix.toks) < Ctx

-----------------------------------------------------------------------------
(* What one operation does to one slot *)

\* The chosen token is in the vocabulary.
LEMMA ArgmaxType == ASSUME NEW h PROVE Argmax(h) \in Token
  BY RunnerAssumption DEF Argmax

\* What admission checks (main.rs, completions).
LEMMA FitsFacts ==
  ASSUME NEW r \in Request, Fits(r)
  PROVE  /\ Prompt[r] \in Seq(Token) /\ Len(Prompt[r]) \in 1 .. Ctx
         /\ MaxTokens[r] \in Nat /\ Len(Prompt[r]) + MaxTokens[r] <= Ctx
  BY PromptFacts, ChunkFacts DEF Fits

\* One prefill forward, of a prompt or of a template.
LEMMA ChunkForward ==
  ASSUME NEW toks \in Seq(Token), Len(toks) <= Ctx, NEW c, IsCache(c, Elem),
         NEW off \in Nat, off < Len(toks), off % Chunk = 0,
         Holds(c, SubSeq(FullPrefill(toks), 1, off))
  PROVE  LET n == MinOf(Chunk, Len(toks) - off)
             f == ForwardChunk(c, toks, off)
         IN  /\ n \in 1 .. Chunk /\ off + n <= Len(toks)
             /\ (off + n) % Chunk = 0 \/ off + n = Len(toks)
             /\ f.out = SubSeq(FullPrefill(toks), 1, off + n)
             /\ f.kv.len = IF c.len >= off + n THEN c.len ELSE off + n
             /\ IsCache(f.kv, Elem)
             /\ Holds(f.kv, SubSeq(FullPrefill(toks), 1, off + n))
<1> DEFINE n == MinOf(Chunk, Len(toks) - off)
           e == Elems(SubSeq(toks, off + 1, off + n), Arith(n, off + n))
           h == SubSeq(FullPrefill(toks), 1, off)
           f == ForwardChunk(c, toks, off)
<1>1. /\ n \in 1 .. Chunk /\ off + n <= Len(toks)
      /\ e \in Seq(Elem) /\ Len(e) = n
      /\ h \o e = SubSeq(FullPrefill(toks), 1, off + n)
      /\ (off + n) % Chunk = 0 \/ off + n = Len(toks)
  BY FullPrefillChunk
<1>2. h \in Seq(Elem) /\ Len(h) = off
  <2>1. /\ FullPrefill(toks) \in Seq(Elem) /\ Len(FullPrefill(toks)) = Len(toks)
        /\ Len(toks) \in Nat
    BY FullPrefillType, LenProperties
  <2>2. \A k \in 1 .. off : FullPrefill(toks)[k] \in Elem
    BY <2>1, ElementOfSeq
  <2> QED BY <2>2, SubSeqProperties
<1>3. f = Forward(c, e, Len(h))
  <2>1. f = Forward(c, e, off)
    BY DEF ForwardChunk
  <2> HIDE DEF f, e, h
  <2> QED BY <2>1, <1>2
<1>4. Len(toks) \in Nat
  BY LenProperties
<1> HIDE DEF f, e, h, n
<1>5. /\ 1 <= Len(e) /\ Len(e) <= Chunk /\ Len(h) + Len(e) <= Ctx
      /\ Holds(c, h)
  BY <1>1, <1>2, <1>4, ChunkFacts DEF h
<1>6. /\ f.out = h \o e /\ IsCache(f.kv, Elem) /\ Holds(f.kv, h \o e)
      /\ f.kv.len = IF c.len >= Len(h) + Len(e) THEN c.len ELSE Len(h) + Len(e)
  BY <1>2, <1>1, <1>3, <1>5, ForwardHolds
<1>7. f.kv.len = IF c.len >= off + n THEN c.len ELSE off + n
  BY <1>6, <1>1, <1>2
<1> QED BY <1>1, <1>6, <1>7 DEF n, f

\* A batch of any size the scheduler forms is computed like a single row.
LEMMA BatchArith ==
  ASSUME NEW m \in 1 .. Batch, NEW span, NEW span2
  PROVE  Arith(m, span) = Arith(1, span2)
  BY BatchAssumption, EngineAssumption, RunnerAssumption DEF Arith

\* Until the emit loop every token of out_ids has been decoded.
LEMMA FedBefore ==
  ASSUME NEW s, IsSlot(s), s.pos = Len(Prompt[s.job]) + Len(s.out_ids)
  PROVE  Fed(s) = s.out_ids
<1>1. /\ Len(Prompt[s.job]) \in Nat /\ Len(s.out_ids) \in Nat
      /\ s.out_ids \in Seq(Token)
  BY PromptFacts, LenProperties DEF IsSlot
<1>2. s.pos - Len(Prompt[s.job]) = Len(s.out_ids)
  BY <1>1
<1> QED BY <1>1, <1>2, SubSeqFull DEF Fed

\* The decode forward of one slot.
LEMMA DecodeForward ==
  ASSUME NEW s, NEW c, SlotOK(s, c, TRUE), IsCache(c, Elem),
         NEW m \in 1 .. Batch, NEW span
  PROVE  LET f == Forward(c, Elems(<<s.tok>>, Arith(m, span)), s.pos)
         IN  /\ IsCache(f.kv, Elem)
             /\ SlotOK([s EXCEPT !.tok = Argmax(f.out), !.pos = @ + 1], f.kv, FALSE)
<1> DEFINE r   == s.job
           ids == Fed(s)
           h   == Alone(r, ids)
           e   == Elems(<<s.tok>>, Arith(m, span))
           f   == Forward(c, e, s.pos)
           s2  == [s EXCEPT !.tok = Argmax(f.out), !.pos = @ + 1]
<1>1. /\ IsSlot(s) /\ r \in Request /\ s.out_ids \in Seq(Token) /\ s.tok \in Token
      /\ Fits(r) /\ Len(s.out_ids) <= MaxTokens[r]
      /\ s.out_ids # <<>> /\ s.tok = s.out_ids[Len(s.out_ids)]
      /\ s.pos = Len(Prompt[r]) + Len(s.out_ids) - 1
      /\ Holds(c, h)
  BY DEF SlotOK, IsSlot
<1>2. /\ Len(s.out_ids) \in Nat /\ Len(s.out_ids) >= 1
      /\ Len(Prompt[r]) \in 1 .. Ctx /\ MaxTokens[r] \in Nat
      /\ Len(Prompt[r]) + MaxTokens[r] <= Ctx
  BY <1>1, FitsFacts, LenProperties, EmptySeq
<1>3. /\ ids \in Seq(Token) /\ Len(ids) = Len(s.out_ids) - 1
      /\ s.out_ids = Append(ids, s.tok)
  <2>1. s.pos - Len(Prompt[r]) = Len(s.out_ids) - 1
    BY <1>1, <1>2, ChunkFacts
  <2>2. ids = SubSeq(s.out_ids, 1, Len(s.out_ids) - 1)
    BY <2>1 DEF Fed
  <2> HIDE DEF ids
  <2> QED BY <2>2, <1>1, <1>2
<1> HIDE DEF ids, r, s2, f, e, h
<1>4. s.pos \in Nat /\ s.pos = Len(Prompt[r]) + Len(ids) /\ s.pos + 1 <= Ctx
  <2> DEFINE L == Len(Prompt[r])  N == Len(s.out_ids)  p == s.pos  k == Len(ids)
  <2>1. p = L + N - 1 /\ k = N - 1 /\ N <= MaxTokens[r] /\ L + MaxTokens[r] <= Ctx
    BY <1>1, <1>2, <1>3
  <2>2. L \in Nat /\ L >= 1 /\ N \in Nat /\ N >= 1 /\ MaxTokens[r] \in Nat
    BY <1>2, ChunkFacts
  <2> HIDE DEF L, N, p, k
  <2>3. p \in Nat /\ p = L + k /\ p + 1 <= Ctx
    BY <2>1, <2>2, ChunkFacts
  <2> QED BY <2>3 DEF L, N, p, k
<1>5. h \in Seq(Elem) /\ Len(h) = s.pos
  BY <1>1, <1>3, <1>4, AloneType DEF h
<1>6. e \in Seq(Elem) /\ Len(e) = 1
  <2>1. <<s.tok>> \in Seq(Token) /\ Len(<<s.tok>>) = 1
    BY <1>1
  <2> QED BY <2>1, ElemsType, ArithType DEF e
<1>7. Alone(r, s.out_ids) = h \o e
  <2>1. Arith(m, span) = Arith(1, Len(Prompt[r]) + Len(ids) + 1)
    BY BatchArith
  <2> QED BY <2>1, <1>1, <1>3, AloneAppend DEF e, h
<1>8. /\ f.out = h \o e /\ IsCache(f.kv, Elem) /\ Holds(f.kv, h \o e)
  <2>1. f = Forward(c, e, Len(h))
    BY <1>5 DEF f
  <2>2. 1 <= Len(e) /\ Len(e) <= Chunk /\ Len(h) + Len(e) <= Ctx
    BY <1>4, <1>5, <1>6, ChunkFacts
  <2> QED BY <2>1, <2>2, <1>1, <1>5, <1>6, ForwardHolds
<1>9. /\ DOMAIN s2 = DOMAIN s /\ s2.job = r /\ s2.out_ids = s.out_ids
      /\ s2.tok = Argmax(f.out) /\ s2.pos = s.pos + 1
  BY <1>1 DEF IsSlot, s2, r
<1>10. IsSlot(s2)
  BY <1>1, <1>4, <1>9, ArgmaxType DEF IsSlot
<1>11. s2.pos = Len(Prompt[r]) + Len(s.out_ids)
  <2>1. s.pos = Len(Prompt[r]) + Len(s.out_ids) - 1 /\ s2.pos = s.pos + 1
    BY <1>1, <1>9
  <2> QED BY <2>1, <1>2
<1>12. Fed(s2) = s2.out_ids
  BY <1>9, <1>10, <1>11, FedBefore
<1>13. SlotOK(s2, f.kv, FALSE)
  BY <1>1, <1>7, <1>8, <1>9, <1>10, <1>11, <1>12 DEF SlotOK
<1> QED BY <1>8, <1>13 DEF f, e, s2

\* A slot that stays after the emit loop holds its token in out_ids.
LEMMA EmitStays ==
  ASSUME NEW s, NEW c, SlotOK(s, c, FALSE), ~Outcome(s).leaves
  PROVE  SlotOK(Outcome(s).slot, c, TRUE)
<1> DEFINE t == Outcome(s).slot
           out == Append(s.out_ids, s.tok)
           r == s.job
<1>1. /\ IsSlot(s) /\ r \in Request /\ s.out_ids \in Seq(Token) /\ s.tok \in Token
      /\ Fits(r) /\ Len(s.out_ids) <= MaxTokens[r]
      /\ s.pos = Len(Prompt[r]) + Len(s.out_ids)
      /\ Holds(c, Alone(r, Fed(s)))
  BY DEF SlotOK, IsSlot
<1>2. ~(Len(s.out_ids) >= MaxTokens[r])
  BY DEF Outcome, Retired
<1>3. /\ DOMAIN t = DOMAIN s /\ t.job = r /\ t.tok = s.tok /\ t.pos = s.pos
      /\ t.out_ids = out
  BY <1>1 DEF Outcome, Retired, Accept, IsSlot
<1>4. /\ Len(s.out_ids) \in Nat /\ MaxTokens[r] \in Nat /\ Len(Prompt[r]) \in Nat
      /\ out \in Seq(Token) /\ Len(out) = Len(s.out_ids) + 1 /\ out[Len(out)] = s.tok
      /\ SubSeq(out, 1, Len(s.out_ids)) = s.out_ids
  BY <1>1, PromptFacts, LenProperties
<1>5. Fed(s) = s.out_ids
  BY <1>1, FedBefore
<1> HIDE DEF t, out, r
<1>6. Fed(t) = s.out_ids
  <2>1. t.pos - Len(Prompt[t.job]) = Len(s.out_ids)
    BY <1>1, <1>3, <1>4
  <2> QED BY <2>1, <1>3, <1>4 DEF Fed
<1>7. IsSlot(t)
  BY <1>1, <1>3, <1>4 DEF IsSlot, r
<1>8. /\ t.out_ids # <<>> /\ t.tok = t.out_ids[Len(t.out_ids)]
      /\ Len(t.out_ids) <= MaxTokens[t.job]
      /\ t.pos = Len(Prompt[t.job]) + Len(t.out_ids) - 1
  <2>1. out # <<>>
    BY <1>4, EmptySeq
  <2> QED BY <2>1, <1>1, <1>2, <1>3, <1>4
<1>9. SlotOK(t, c, TRUE)
  BY <1>1, <1>3, <1>5, <1>6, <1>7, <1>8 DEF SlotOK
<1> QED BY <1>9 DEF t

\* A prefilled job takes its slot.
LEMMA InstallSlot ==
  ASSUME NEW k, NEW c, k.job \in Request, CurOK(k, c), k.off = Len(Prompt[k.job])
  PROVE  SlotOK(Slot(k.job, <<>>, <<>>, 0, Len(Prompt[k.job]), k.first), c, FALSE)
<1> DEFINE r == k.job
           s == Slot(r, <<>>, <<>>, 0, Len(Prompt[r]), k.first)
           full == FullPrefill(Prompt[r])
<1>1. /\ Fits(r) /\ Len(Prompt[r]) \in Nat /\ MaxTokens[r] \in Nat
      /\ Prompt[r] \in Seq(Token)
      /\ Holds(c, SubSeq(full, 1, Len(Prompt[r])))
      /\ k.first = Argmax(full)
  BY PromptFacts DEF CurOK, Prefilling
<1>2. full \in Seq(Elem) /\ SubSeq(full, 1, Len(Prompt[r])) = full
  BY <1>1, FullPrefillType, SubSeqFull
<1>3. /\ DOMAIN s = {"job", "out_ids", "text", "sent", "pos", "tok"}
      /\ s.job = r /\ s.out_ids = <<>> /\ s.pos = Len(Prompt[r]) /\ s.tok = k.first
  BY DEF Slot
<1>4. Len(<<>>) = 0 /\ <<>> \in Seq(Token)
  BY EmptySeq
<1> HIDE DEF s, full, r
<1>5. IsSlot(s)
  BY <1>1, <1>3, <1>4, ArgmaxType DEF IsSlot, r
<1>6. s.pos = Len(Prompt[s.job]) + Len(s.out_ids)
  BY <1>1, <1>3, <1>4
<1>7. Alone(r, <<>>) = full
  BY AloneNothing DEF full, r
<1>8. Fed(s) = <<>>
  BY <1>3, <1>5, <1>6, FedBefore
<1>9. SlotOK(s, c, FALSE)
  <2>1. Holds(c, Alone(r, Fed(s)))
    BY <1>1, <1>2, <1>7, <1>8
  <2>2. s.tok = Argmax(Alone(r, s.out_ids)) /\ Len(s.out_ids) <= MaxTokens[r]
    BY <1>1, <1>3, <1>4, <1>7
  <2> QED BY <2>1, <2>2, <1>1, <1>3, <1>5, <1>6 DEF SlotOK
<1> QED BY <1>9 DEF s, r

-----------------------------------------------------------------------------
(* Init and the actions preserve IInv *)

\* Every cache holds the empty sequence.
LEMMA EmptyHistory ==
  ASSUME NEW c, NEW h, Len(h) = 0 PROVE Holds(c, h)
  BY DEF Holds, Live

\* engine::run starts with empty slots and an empty template.
LEMMA InitIInv == Init => IInv
<1> SUFFICES ASSUME Init PROVE IInv
  OBVIOUS
<1> USE DEF Init
<1>1. DOMAIN slots = {}
  OBVIOUS
<1>2. 0 \in SlotId /\ (CHOOSE r \in Request : TRUE) \in Request /\ 0 \in Token
  BY EngineAssumption, RequestAssumption, RunnerAssumption DEF SlotId
<1>3. cur \in [slot : SlotId, job : Request, reuse : Nat, off : Nat, first : Token]
  BY <1>2 DEF NoJob
<1>4. <<>> \in Seq(Token) /\ <<>> \in Seq(Request) /\ Len(<<>>) = 0
  BY EmptySeq
<1>5. TypeOK
  BY <1>1, <1>3, <1>4, NewCacheType DEF TypeOK, NoBuild
<1>6. TemplateExact /\ Len(prefix.toks) < Ctx
  <2>1. Len(FullPrefill(prefix.toks)) = 0
    BY <1>4, FullPrefillType
  <2>2. 0 % Chunk = 0
    BY ChunkFacts
  <2> QED BY <1>4, <2>1, <2>2, EmptyHistory, NewCacheType, ChunkFacts DEF TemplateExact
<1> QED BY <1>1, <1>5, <1>6 DEF IInv

\* An admitted job fits the context.
LEMMA SubmitIInv ==
  ASSUME IInv, NEW r \in Request, Submit(r) PROVE IInv'
<1> USE DEF Submit, engine
<1>1. queue \in Seq(Request) /\ queue' = Append(queue, r)
  BY DEF IInv, TypeOK
<1>2. queue' \in Seq(Request) /\ \A k \in DOMAIN queue' : Fits(queue'[k])
  BY <1>1 DEF IInv
<1>3. TypeOK'
  BY <1>2 DEF IInv, TypeOK
<1> QED BY <1>2, <1>3 DEF IInv, TemplateExact

\* A rejected one leaves the engine alone.
LEMMA RejectIInv ==
  ASSUME IInv, NEW r \in Request, Reject(r) PROVE IInv'
<1> USE DEF Reject, engine
<1>1. TypeOK'
  BY DEF IInv, TypeOK
<1> QED BY <1>1 DEF IInv, TemplateExact

\* Closing the channel leaves the engine alone.
LEMMA HangupIInv == ASSUME IInv, Hangup PROVE IInv'
<1> USE DEF Hangup, engine
<1>1. TypeOK'
  BY DEF IInv, TypeOK
<1> QED BY <1>1 DEF IInv, TemplateExact

\* Leaving the admission loop changes nothing but pc.
LEMMA AdmitBreakIInv == ASSUME IInv, AdmitBreak PROVE IInv'
<1> USE DEF AdmitBreak, channels
<1>1. TypeOK'
  BY DEF IInv, TypeOK
<1> QED BY <1>1 DEF IInv, TemplateExact

\* Returning changes nothing but pc.
LEMMA ReturnIInv == ASSUME IInv, Return PROVE IInv'
<1> USE DEF Return, channels
<1>1. TypeOK'
  BY DEF IInv, TypeOK
<1> QED BY <1>1 DEF IInv, TemplateExact

\* The cache a job starts from holds the template, or nothing.
LEMMA StartingCache ==
  ASSUME TemplateExact, prefix.toks \in Seq(Token), Len(prefix.toks) < Ctx,
         IsCache(prefix.kv, Elem), NEW c, IsCache(c, Elem), NEW r \in Request
  PROVE  LET reuse == Reuse(Prompt[r])
             new   == IF reuse > 0 THEN ForkFrom(Clear(c), prefix.kv) ELSE Clear(c)
         IN  /\ reuse \in Nat /\ reuse < Len(Prompt[r])
             /\ IsCache(new, Elem) /\ Prefilling(r, reuse, new)
<1> DEFINE toks  == Prompt[r]
           reuse == Reuse(toks)
           new   == IF reuse > 0 THEN ForkFrom(Clear(c), prefix.kv) ELSE Clear(c)
           full  == FullPrefill(toks)
<1>1. /\ toks \in Seq(Token) /\ Len(toks) \in Nat /\ Len(toks) >= 1
      /\ Len(prefix.toks) \in Nat
  BY PromptFacts, LenProperties
<1>2. IsCache(new, Elem)
  BY ClearType, ForkType
<1>3. CASE reuse > 0
  <2>1. /\ reuse = Len(prefix.toks) /\ reuse \in 0 .. Len(toks) /\ reuse < Len(toks)
        /\ SubSeq(toks, 1, reuse) = prefix.toks
    BY <1>1, <1>3 DEF Reuse
  <2>2. reuse % Chunk = 0 /\ prefix.kv.len = reuse /\ Holds(prefix.kv, FullPrefill(prefix.toks))
    BY <2>1 DEF TemplateExact
  <2> HIDE DEF reuse, toks
  <2>3. FullPrefill(prefix.toks) = SubSeq(full, 1, reuse)
    BY <1>1, <2>1, <2>2, FullPrefillShare
  <2>4. FullPrefill(prefix.toks) \in Seq(Elem) /\ Len(FullPrefill(prefix.toks)) = reuse
    BY <2>1, FullPrefillType
  <2>5. Holds(ForkFrom(Clear(c), prefix.kv), FullPrefill(prefix.toks))
    <3>1. /\ prefix.kv.len = Len(FullPrefill(prefix.toks))
          /\ Len(FullPrefill(prefix.toks)) <= Ctx
      BY <1>1, <2>1, <2>2, <2>4, ChunkFacts
    <3> QED BY <3>1, <2>2, <2>4, ForkHolds
  <2>6. Holds(new, SubSeq(full, 1, reuse))
    BY <2>3, <2>5, <1>3
  <2> HIDE DEF new
  <2> QED BY <1>1, <1>2, <2>1, <2>2, <2>6 DEF Prefilling, toks, reuse, new, full
<1>4. CASE ~(reuse > 0)
  <2>1. reuse = 0
    BY <1>1, <1>4 DEF Reuse
  <2> HIDE DEF reuse
  <2>2. 0 % Chunk = 0 /\ 0 \in 0 .. Len(toks) /\ 0 < Len(toks)
    BY <1>1, ChunkFacts
  <2>3. Len(SubSeq(full, 1, 0)) = 0
    BY SubSeqEmpty, EmptySeq
  <2>4. Holds(new, SubSeq(full, 1, 0))
    BY <2>3, EmptyHistory
  <2> HIDE DEF new
  <2> QED BY <1>2, <2>1, <2>2, <2>4 DEF Prefilling, reuse, new
<1> QED BY <1>3, <1>4

\* A received job starts from a cleared cache or a copy of the template.
LEMMA RecvIInv == ASSUME IInv, Recv PROVE IInv'
<1> DEFINE r == Head(queue)
           reuse == Reuse(Prompt[r])
           new(i) == IF reuse > 0 THEN ForkFrom(Clear(caches[i]), prefix.kv)
                                  ELSE Clear(caches[i])
<1>1. TypeOK /\ TemplateExact /\ Len(prefix.toks) < Ctx /\ pc = "admit"
  BY DEF IInv, Recv
<1>2. PICK i \in Free :
        /\ cur' = [slot |-> i, job |-> r, reuse |-> reuse, off |-> reuse, first |-> 0]
        /\ caches' = [caches EXCEPT ![i] = new(i)]
  BY DEF Recv
<1>3. /\ i \in SlotId /\ i \notin DOMAIN slots /\ DOMAIN caches = SlotId
      /\ \A j \in SlotId : IsCache(caches[j], Elem)
      /\ prefix.toks \in Seq(Token) /\ IsCache(prefix.kv, Elem)
      /\ queue \in Seq(Request) /\ queue # <<>> /\ DOMAIN slots \subseteq SlotId
  BY <1>1 DEF Free, TypeOK, Recv
<1>4. /\ r \in Request /\ Fits(r)
      /\ queue' \in Seq(Request) /\ \A k \in DOMAIN queue' : Fits(queue'[k])
  BY <1>3 DEF Recv, IInv
<1>5. /\ reuse \in Nat /\ reuse < Len(Prompt[r])
      /\ IsCache(new(i), Elem) /\ Prefilling(r, reuse, new(i))
  BY <1>1, <1>3, <1>4, StartingCache
<1> HIDE DEF new, reuse, r
<1>6. /\ DOMAIN caches' = SlotId /\ \A j \in SlotId : IsCache(caches'[j], Elem)
      /\ caches'[i] = new(i) /\ \A j \in DOMAIN slots : caches'[j] = caches[j]
  BY <1>2, <1>3, <1>5
<1>7. /\ cur' \in [slot : SlotId, job : Request, reuse : Nat, off : Nat, first : Token]
      /\ cur'.slot = i /\ cur'.job = r /\ cur'.off = reuse
  BY <1>2, <1>3, <1>4, <1>5, RunnerAssumption
<1>8. TypeOK'
  BY <1>1, <1>4, <1>6, <1>7 DEF TypeOK, Recv
<1>9. CurOK(cur, caches[cur.slot])'
  BY <1>4, <1>5, <1>6, <1>7, PromptFacts DEF CurOK
<1>10. \A j \in DOMAIN slots' : SlotOK(slots[j], caches[j], pc = "forward")'
  BY <1>1, <1>6 DEF IInv, Recv
<1>11. TemplateExact' /\ Len(prefix'.toks) < Ctx /\ pc' = "prefill" /\ slots' = slots
  BY <1>1 DEF Recv, TemplateExact
<1> QED BY <1>3, <1>4, <1>7, <1>8, <1>9, <1>10, <1>11 DEF IInv

\* One chunk of the prompt.
LEMMA PrefillChunkIInv == ASSUME IInv, PrefillChunk PROVE IInv'
<1> DEFINE r == cur.job
           i == cur.slot
           n == MinOf(Chunk, Len(Prompt[r]) - cur.off)
           f == ForwardChunk(caches[i], Prompt[r], cur.off)
           full == FullPrefill(Prompt[r])
<1>1. /\ TypeOK /\ TemplateExact /\ Len(prefix.toks) < Ctx /\ pc = "prefill"
      /\ cur.slot \notin DOMAIN slots /\ CurOK(cur, caches[i])
      /\ cur.off < Len(Prompt[r])
  BY DEF IInv, PrefillChunk
<1>2. /\ r \in Request /\ i \in SlotId /\ cur.off \in Nat /\ DOMAIN caches = SlotId
      /\ \A j \in SlotId : IsCache(caches[j], Elem) /\ DOMAIN slots \subseteq SlotId
      /\ Prompt[r] \in Seq(Token) /\ Len(Prompt[r]) \in 1 .. Ctx /\ Fits(r)
      /\ cur.off % Chunk = 0 /\ Holds(caches[i], SubSeq(full, 1, cur.off))
  BY <1>1, FitsFacts DEF TypeOK, CurOK, Prefilling
<1>3. /\ n \in 1 .. Chunk /\ cur.off + n <= Len(Prompt[r])
      /\ (cur.off + n) % Chunk = 0 \/ cur.off + n = Len(Prompt[r])
      /\ f.out = SubSeq(full, 1, cur.off + n)
      /\ IsCache(f.kv, Elem) /\ Holds(f.kv, SubSeq(full, 1, cur.off + n))
  BY <1>1, <1>2, ChunkFacts, ChunkForward
<1>4. /\ caches' = [caches EXCEPT ![i] = f.kv]
      /\ cur' = [cur EXCEPT !.off = @ + n,
                            !.first = IF cur.off + n >= Len(Prompt[r])
                                      THEN Argmax(f.out) ELSE @]
  BY DEF PrefillChunk
<1> HIDE DEF f, n
<1>5. cur.off + n \in Nat /\ cur.off + n \in 0 .. Len(Prompt[r])
  <2>1. cur.off \in Nat /\ n \in 1 .. Chunk /\ cur.off + n <= Len(Prompt[r])
    BY <1>2, <1>3
  <2>2. Len(Prompt[r]) \in Nat
    BY <1>2, ChunkFacts
  <2> QED BY <2>1, <2>2, ChunkFacts
<1>6. /\ cur' \in [slot : SlotId, job : Request, reuse : Nat, off : Nat, first : Token]
      /\ cur'.slot = i /\ cur'.job = r /\ cur'.off = cur.off + n
      /\ cur.off + n >= Len(Prompt[r]) => cur'.first = Argmax(f.out)
  BY <1>1, <1>4, <1>5, ArgmaxType DEF TypeOK
<1>7. /\ DOMAIN caches' = SlotId /\ \A j \in SlotId : IsCache(caches'[j], Elem)
      /\ caches'[i] = f.kv /\ \A j \in DOMAIN slots : caches'[j] = caches[j]
  BY <1>1, <1>2, <1>3, <1>4
<1>8. cur.off + n = Len(Prompt[r]) => f.out = full
  BY <1>2, <1>3, FullPrefillType, SubSeqFull
<1>9. /\ queue' = queue /\ pc' = pc /\ slots' = slots /\ prefix' = prefix
      /\ UNCHANGED <<open, status, build, lastToks, events>>
  BY DEF PrefillChunk, channels
<1>10. TypeOK'
  BY <1>1, <1>6, <1>7, <1>9 DEF TypeOK
<1>11. CurOK(cur, caches[cur.slot])'
  <2>1. Prefilling(cur'.job, cur'.off, caches'[cur'.slot])
    BY <1>3, <1>5, <1>6, <1>7 DEF Prefilling
  <2>2. cur'.off = Len(Prompt[r]) => cur'.first = Argmax(full)
    BY <1>2, <1>6, <1>8
  <2> QED BY <2>1, <2>2, <1>2, <1>6 DEF CurOK
<1>12. \A j \in DOMAIN slots' : SlotOK(slots[j], caches[j], pc = "forward")'
  BY <1>7, <1>9 DEF IInv
<1>13. TemplateExact'
  BY <1>1, <1>9 DEF TemplateExact
<1> QED BY <1>1, <1>6, <1>9, <1>10, <1>11, <1>12, <1>13 DEF IInv

\* Install, common to both ends of an admission.
LEMMA InstallKeeps ==
  ASSUME IInv, Install, pc \in {"prefill", "build"},
         cur.off = Len(Prompt[cur.job]), UNCHANGED <<channels, caches>>
  PROVE  /\ DOMAIN slots' \subseteq SlotId /\ \A i \in DOMAIN slots' : IsSlot(slots'[i])
         /\ cur' \in [slot : SlotId, job : Request, reuse : Nat, off : Nat, first : Token]
         /\ lastToks' \in Seq(Token) /\ pc' = "admit"
         /\ \A i \in DOMAIN slots' : SlotOK(slots'[i], caches'[i], FALSE)
<1> DEFINE new == Slot(cur.job, <<>>, <<>>, 0, Len(Prompt[cur.job]), cur.first)
<1>1. /\ TypeOK /\ CurOK(cur, caches[cur.slot])
      /\ \A i \in DOMAIN slots : SlotOK(slots[i], caches[i], FALSE)
      /\ caches' = caches
  BY DEF IInv
<1>2. cur.job \in Request /\ cur.slot \in SlotId /\ DOMAIN slots \subseteq SlotId
  BY <1>1 DEF TypeOK
<1>3. SlotOK(new, caches[cur.slot], FALSE)
  BY <1>1, <1>2, InstallSlot
<1> HIDE DEF new
<1>4. slots' = [i \in DOMAIN slots \cup {cur.slot} |->
                  IF i = cur.slot THEN new ELSE slots[i]]
  BY DEF Install, new
<1>5. /\ DOMAIN slots' = DOMAIN slots \cup {cur.slot} /\ DOMAIN slots' \subseteq SlotId
      /\ \A i \in DOMAIN slots' : SlotOK(slots'[i], caches'[i], FALSE)
  BY <1>1, <1>2, <1>3, <1>4
<1>6. \A i \in DOMAIN slots' : IsSlot(slots'[i])
  BY <1>5 DEF SlotOK
<1>7. cur' \in [slot : SlotId, job : Request, reuse : Nat, off : Nat, first : Token]
  BY EngineAssumption, RequestAssumption, RunnerAssumption DEF Install, NoJob, SlotId
<1>8. lastToks' \in Seq(Token)
  BY <1>2, PromptFacts DEF Install
<1> QED BY <1>5, <1>6, <1>7, <1>8 DEF Install

\* A job leaves prefill with its whole prompt in the cache.
LEMMA PrefilledFacts ==
  ASSUME IInv, Prefilled
  PROVE  /\ pc = "prefill" /\ cur.job \in Request /\ Fits(cur.job)
         /\ cur.off = Len(Prompt[cur.job])
<1>1. /\ pc = "prefill" /\ cur.job \in Request /\ cur.off \in Nat
      /\ CurOK(cur, caches[cur.slot]) /\ cur.off >= Len(Prompt[cur.job])
  BY DEF IInv, TypeOK, Prefilled
<1>2. cur.off \in 0 .. Len(Prompt[cur.job]) /\ Len(Prompt[cur.job]) \in Nat
  BY <1>1, PromptFacts DEF CurOK, Prefilling
<1> QED BY <1>1, <1>2 DEF CurOK

\* The job takes its slot without a build.
LEMMA AdmitDoneIInv == ASSUME IInv, AdmitDone PROVE IInv'
<1>1. /\ Install /\ UNCHANGED <<channels, caches, prefix, build, events>>
      /\ pc = "prefill" /\ cur.off = Len(Prompt[cur.job])
  BY PrefilledFacts DEF AdmitDone
<1>2. /\ DOMAIN slots' \subseteq SlotId /\ \A i \in DOMAIN slots' : IsSlot(slots'[i])
      /\ cur' \in [slot : SlotId, job : Request, reuse : Nat, off : Nat, first : Token]
      /\ lastToks' \in Seq(Token) /\ pc' = "admit"
      /\ \A i \in DOMAIN slots' : SlotOK(slots'[i], caches'[i], FALSE)
  BY <1>1, InstallKeeps
<1>3. TypeOK'
  BY <1>1, <1>2 DEF IInv, TypeOK, channels
<1>4. TemplateExact' /\ Len(prefix'.toks) < Ctx /\ queue' = queue
  BY <1>1 DEF IInv, TemplateExact, channels
<1> QED BY <1>2, <1>3, <1>4 DEF IInv

\* A shared prefix is whole chunks and shorter than the prompt.
LEMMA ShareFacts ==
  ASSUME NEW toks \in Seq(Token), Len(toks) >= 1
  PROVE  /\ Share(toks) \in Nat /\ Share(toks) < Len(toks)
         /\ Share(toks) % Chunk = 0
<1> DEFINE x == MinOf(Lcp(toks, lastToks), SatSub(Len(toks), 1))
<1>1. Len(toks) \in Nat
  BY LenProperties
<1>2. Lcp(toks, lastToks) \in Nat
  <2> DEFINE S == {n \in 1 .. Len(toks) :
                    n <= Len(lastToks) /\ SubSeq(toks, 1, n) = SubSeq(lastToks, 1, n)}
  <2>1. IsFiniteSet(1 .. Len(toks))
    BY <1>1, FS_Interval
  <2>2. S \subseteq 1 .. Len(toks)
    OBVIOUS
  <2> HIDE DEF S
  <2>3. Cardinality(S) \in Nat
    BY <2>1, <2>2, FS_Subset, FS_CardinalityType
  <2> QED BY <2>3 DEF Lcp, S
<1>3. x \in Nat /\ x < Len(toks)
  BY <1>1, <1>2 DEF MinOf, SatSub
<1> HIDE DEF x
<1>4. (x \div Chunk) * Chunk \in 0 .. x /\ ((x \div Chunk) * Chunk) % Chunk = 0
  BY <1>3, WholeChunks
<1>5. Share(toks) = (x \div Chunk) * Chunk
  BY DEF Share, x
<1> QED BY <1>1, <1>3, <1>4, <1>5

\* A build starts from a new cache.
LEMMA StartBuildIInv == ASSUME IInv, StartBuild PROVE IInv'
<1> DEFINE r == cur.job  share == Share(Prompt[r])
<1>1. /\ pc = "prefill" /\ r \in Request /\ cur.off = Len(Prompt[r])
      /\ build' = [share |-> share, off |-> 0, kv |-> NewCache] /\ pc' = "build"
      /\ UNCHANGED <<channels, slots, caches, cur, prefix, lastToks, events>>
  BY PrefilledFacts DEF StartBuild
<1>2. share \in Nat /\ share < Len(Prompt[r]) /\ share % Chunk = 0
  BY <1>1, PromptFacts, ShareFacts
<1> HIDE DEF share
<1>3. TypeOK'
  BY <1>1, <1>2, NewCacheType DEF IInv, TypeOK, channels
<1>4. BuildOK(build', cur')
  <2>1. Len(SubSeq(FullPrefill(SubSeq(Prompt[r], 1, share)), 1, 0)) = 0
    BY SubSeqEmpty, EmptySeq
  <2>2. Holds(NewCache, SubSeq(FullPrefill(SubSeq(Prompt[r], 1, share)), 1, 0))
    BY <2>1, EmptyHistory
  <2>3. 0 % Chunk = 0
    BY ChunkFacts
  <2> QED BY <1>1, <1>2, <2>2, <2>3, NewCacheType DEF BuildOK
<1>5. TemplateExact' /\ Len(prefix'.toks) < Ctx
  BY <1>1 DEF IInv, TemplateExact
<1>6. /\ cur'.slot \notin DOMAIN slots' /\ CurOK(cur', caches'[cur'.slot])
      /\ \A i \in DOMAIN slots' : SlotOK(slots'[i], caches'[i], FALSE)
      /\ \A k \in DOMAIN queue' : Fits(queue'[k])
  BY <1>1 DEF IInv, channels
<1> QED BY <1>1, <1>3, <1>4, <1>5, <1>6 DEF IInv

\* One chunk of the template.
LEMMA BuildChunkIInv == ASSUME IInv, BuildChunk PROVE IInv'
<1> DEFINE r == cur.job
           toks == SubSeq(Prompt[r], 1, build.share)
           n == MinOf(Chunk, build.share - build.off)
           f == ForwardChunk(build.kv, toks, build.off)
           full == FullPrefill(toks)
<1>1. /\ TypeOK /\ pc = "build" /\ CurOK(cur, caches[cur.slot]) /\ BuildOK(build, cur)
      /\ build.off < build.share /\ r \in Request
      /\ build.share \in Nat /\ build.off \in Nat /\ IsCache(build.kv, Elem)
      /\ DOMAIN build = {"share", "off", "kv"}
  BY DEF IInv, BuildChunk, TypeOK
<1>2. /\ Prompt[r] \in Seq(Token) /\ Len(Prompt[r]) \in 1 .. Ctx
      /\ build.share < Len(Prompt[r])
      /\ build.share % Chunk = 0 /\ build.off % Chunk = 0 /\ build.kv.len = build.off
      /\ Holds(build.kv, SubSeq(full, 1, build.off))
  BY <1>1, FitsFacts DEF CurOK, BuildOK
<1>3. toks \in Seq(Token) /\ Len(toks) = build.share /\ Len(toks) <= Ctx
  <2>1. \A k \in 1 .. build.share : Prompt[r][k] \in Token
    BY <1>1, <1>2, ElementOfSeq, ChunkFacts
  <2>2. toks \in Seq(Token) /\ Len(toks) = build.share
    BY <2>1, <1>1, SubSeqProperties
  <2> HIDE DEF toks
  <2> QED BY <2>2, <1>1, <1>2, ChunkFacts
<1> HIDE DEF toks
<1>4. /\ n \in 1 .. Chunk /\ build.off + n <= build.share
      /\ (build.off + n) % Chunk = 0 \/ build.off + n = build.share
      /\ f.kv.len = IF build.kv.len >= build.off + n THEN build.kv.len ELSE build.off + n
      /\ IsCache(f.kv, Elem) /\ Holds(f.kv, SubSeq(full, 1, build.off + n))
  <2> DEFINE N == MinOf(Chunk, Len(toks) - build.off)
  <2>1. build.off < Len(toks)
    BY <1>1, <1>3
  <2>2. /\ N \in 1 .. Chunk /\ build.off + N <= Len(toks)
        /\ (build.off + N) % Chunk = 0 \/ build.off + N = Len(toks)
        /\ f.kv.len = IF build.kv.len >= build.off + N THEN build.kv.len ELSE build.off + N
        /\ IsCache(f.kv, Elem) /\ Holds(f.kv, SubSeq(full, 1, build.off + N))
    <3> DEFINE o == build.off  d == build.kv  g == ForwardChunk(d, toks, o)
               M == MinOf(Chunk, Len(toks) - o)
    <3>1. /\ toks \in Seq(Token) /\ Len(toks) <= Ctx /\ IsCache(d, Elem)
          /\ o \in Nat /\ o < Len(toks) /\ o % Chunk = 0
          /\ Holds(d, SubSeq(FullPrefill(toks), 1, o))
      BY <2>1, <1>1, <1>2, <1>3
    <3> HIDE DEF o, d
    <3>2. /\ M \in 1 .. Chunk /\ o + M <= Len(toks)
          /\ (o + M) % Chunk = 0 \/ o + M = Len(toks)
          /\ g.kv.len = IF d.len >= o + M THEN d.len ELSE o + M
          /\ IsCache(g.kv, Elem) /\ Holds(g.kv, SubSeq(FullPrefill(toks), 1, o + M))
      BY <3>1, ChunkForward
    <3> QED BY <3>2 DEF o, d
  <2>3. N = n
    BY <1>3
  <2> HIDE DEF f, n, full, N
  <2> QED BY <2>2, <2>3, <1>3
<1>5. build' = [build EXCEPT !.off = @ + n, !.kv = f.kv]
  BY DEF BuildChunk, toks
<1> HIDE DEF f, n, full, r
<1>6. /\ DOMAIN build' = {"share", "off", "kv"} /\ build'.share = build.share
      /\ build'.off = build.off + n /\ build'.kv = f.kv
  BY <1>1, <1>5
<1>7. /\ build.off + n \in Nat /\ (build.off + n) % Chunk = 0
      /\ f.kv.len = build.off + n
  <2>1. n \in Nat /\ n >= 1
    BY <1>4, ChunkFacts
  <2>2. (build.off + n) % Chunk = 0
    BY <1>2, <1>4
  <2>3. ~(build.off >= build.off + n)
    BY <2>1, <1>1
  <2> QED BY <2>1, <2>2, <2>3, <1>1, <1>2, <1>4
<1>8. /\ UNCHANGED <<open, status, queue, pc, slots, caches, cur, prefix, lastToks, events>>
  BY DEF BuildChunk, channels
<1>9. TypeOK'
  BY <1>1, <1>4, <1>6, <1>7, <1>8 DEF TypeOK
<1>10. BuildOK(build', cur')
  BY <1>1, <1>2, <1>4, <1>6, <1>7, <1>8 DEF BuildOK, full, toks, r
<1>11. TemplateExact' /\ Len(prefix'.toks) < Ctx
  BY <1>8 DEF IInv, TemplateExact
<1>12. /\ cur'.slot \notin DOMAIN slots' /\ CurOK(cur', caches'[cur'.slot])
       /\ \A i \in DOMAIN slots' : SlotOK(slots'[i], caches'[i], FALSE)
       /\ \A k \in DOMAIN queue' : Fits(queue'[k])
       /\ pc' = "build"
  BY <1>1, <1>8 DEF IInv
<1>13. /\ pc' = "build" /\ \A k \in DOMAIN queue' : Fits(queue'[k])
       /\ \A i \in DOMAIN slots' : SlotOK(slots'[i], caches'[i], pc' = "forward")
  BY <1>12
<1> QED BY <1>9, <1>10, <1>11, <1>12, <1>13 DEF IInv

\* The template replaces the old one and the job takes its slot.
LEMMA BuildDoneIInv == ASSUME IInv, BuildDone PROVE IInv'
<1> DEFINE r == cur.job
           toks == SubSeq(Prompt[r], 1, build.share)
<1>1. /\ TypeOK /\ pc = "build" /\ CurOK(cur, caches[cur.slot]) /\ BuildOK(build, cur)
      /\ build.off >= build.share /\ r \in Request
      /\ build.share \in Nat /\ build.off \in Nat /\ IsCache(build.kv, Elem)
  BY DEF IInv, BuildDone, TypeOK
<1>2. /\ Prompt[r] \in Seq(Token) /\ Len(Prompt[r]) \in 1 .. Ctx
      /\ build.share < Len(Prompt[r]) /\ build.share % Chunk = 0
      /\ build.off = build.share /\ build.kv.len = build.share
      /\ Holds(build.kv, SubSeq(FullPrefill(toks), 1, build.share))
      /\ cur.off = Len(Prompt[r])
  BY <1>1, FitsFacts DEF CurOK, BuildOK
<1>3. toks \in Seq(Token) /\ Len(toks) = build.share
  <2>1. \A k \in 1 .. build.share : Prompt[r][k] \in Token
    BY <1>1, <1>2, ElementOfSeq, ChunkFacts
  <2> QED BY <2>1, <1>1, SubSeqProperties
<1> HIDE DEF toks
<1>4. Holds(build.kv, FullPrefill(toks))
  <2>1. FullPrefill(toks) \in Seq(Elem) /\ Len(FullPrefill(toks)) = build.share
    BY <1>3, FullPrefillType
  <2>2. SubSeq(FullPrefill(toks), 1, Len(FullPrefill(toks))) = FullPrefill(toks)
    BY <2>1, SubSeqFull
  <2> QED BY <1>2, <2>1, <2>2
<1>5. /\ Install /\ prefix' = [toks |-> toks, kv |-> build.kv] /\ build' = NoBuild
      /\ UNCHANGED <<channels, caches, events>>
  BY DEF BuildDone, toks
<1>6. /\ DOMAIN slots' \subseteq SlotId /\ \A i \in DOMAIN slots' : IsSlot(slots'[i])
      /\ cur' \in [slot : SlotId, job : Request, reuse : Nat, off : Nat, first : Token]
      /\ lastToks' \in Seq(Token) /\ pc' = "admit"
      /\ \A i \in DOMAIN slots' : SlotOK(slots'[i], caches'[i], FALSE)
  BY <1>1, <1>2, <1>5, InstallKeeps
<1>7. TemplateExact' /\ Len(prefix'.toks) < Ctx
  BY <1>2, <1>3, <1>4, <1>5, ChunkFacts DEF TemplateExact
<1>8. TypeOK'
  BY <1>1, <1>3, <1>5, <1>6, NewCacheType DEF TypeOK, NoBuild, channels
<1>9. \A k \in DOMAIN queue' : Fits(queue'[k])
  BY <1>5 DEF IInv, channels
<1> QED BY <1>6, <1>7, <1>8, <1>9 DEF IInv

\* The slots that stay after the emit loop hold their token in out_ids.
LEMMA EmitIInv == ASSUME IInv, Emit PROVE IInv'
<1> DEFINE gone == {i \in DOMAIN slots : Outcome(slots[i]).leaves}
<1>1. /\ TypeOK /\ pc = "emit" /\ DOMAIN slots \subseteq SlotId
      /\ \A i \in DOMAIN slots : SlotOK(slots[i], caches[i], FALSE)
      /\ UNCHANGED <<open, status, queue, caches, cur, prefix, build, lastToks>>
  BY DEF IInv, TypeOK, Emit, channels
<1>2. /\ slots' = [i \in DOMAIN slots \ gone |-> Outcome(slots[i]).slot]
      /\ pc' = IF gone = DOMAIN slots THEN "admit" ELSE "forward"
  BY DEF Emit, Keep
<1>3. DOMAIN events' = Request
  BY DEF Emit, Send
<1>4. /\ DOMAIN slots' = DOMAIN slots \ gone
      /\ \A i \in DOMAIN slots' : SlotOK(slots'[i], caches'[i], TRUE)
  <2>1. ASSUME NEW i \in DOMAIN slots, i \notin gone
        PROVE  SlotOK(Outcome(slots[i]).slot, caches[i], TRUE)
    BY <1>1, <2>1, EmitStays
  <2> HIDE DEF gone
  <2> QED BY <1>1, <1>2, <2>1
<1> HIDE DEF gone
<1>5. \A i \in DOMAIN slots' : SlotOK(slots'[i], caches'[i], pc' = "forward")
  <2>1. CASE gone = DOMAIN slots
    BY <1>4, <2>1
  <2>2. CASE gone # DOMAIN slots
    <3>1. pc' = "forward"
      BY <1>2, <2>2
    <3> QED BY <1>4, <3>1
  <2> QED BY <2>1, <2>2
<1>6. pc' \in {"admit", "forward"}
  BY <1>2
<1>7. \A i \in DOMAIN slots' : IsSlot(slots'[i])
  BY <1>4 DEF SlotOK
<1>8. TypeOK'
  BY <1>1, <1>3, <1>4, <1>6, <1>7 DEF TypeOK
<1>9. TemplateExact' /\ Len(prefix'.toks) < Ctx /\ \A k \in DOMAIN queue' : Fits(queue'[k])
  BY <1>1 DEF IInv, TemplateExact
<1> QED BY <1>5, <1>6, <1>8, <1>9 DEF IInv

\* The number of rows of a decode step.
LEMMA BatchSize ==
  ASSUME TypeOK, NEW i \in DOMAIN slots PROVE Cardinality(DOMAIN slots) \in 1 .. Batch
<1>1. Batch \in Nat /\ Batch >= 1 /\ DOMAIN slots \subseteq 0 .. Batch - 1
  BY EngineAssumption DEF TypeOK, SlotId
<1>2. IsFiniteSet(0 .. Batch - 1) /\ Cardinality(0 .. Batch - 1) = Batch
  <2>1. IsFiniteSet(0 .. Batch - 1) /\ Cardinality(0 .. Batch - 1) =
          IF 0 > Batch - 1 THEN 0 ELSE (Batch - 1) - 0 + 1
    BY <1>1, FS_Interval
  <2> QED BY <1>1, <2>1
<1>3. /\ IsFiniteSet(DOMAIN slots) /\ Cardinality(DOMAIN slots) <= Batch
  BY <1>1, <1>2, FS_Subset
<1>4. Cardinality(DOMAIN slots) \in Nat /\ Cardinality(DOMAIN slots) # 0
  BY <1>3, FS_CardinalityType, FS_EmptySet
<1> QED BY <1>1, <1>3, <1>4

\* Every occupied slot is one token further.
LEMMA StepIInv == ASSUME IInv, Step PROVE IInv'
<1> DEFINE m == Cardinality(DOMAIN slots)
           span == Max({slots[i].pos : i \in DOMAIN slots}) + 1
           f(i) == Forward(caches[i], Elems(<<slots[i].tok>>, Arith(m, span)), slots[i].pos)
           next(i) == [slots[i] EXCEPT !.tok = Argmax(f(i).out), !.pos = @ + 1]
           gone == {i \in DOMAIN slots : next(i).pos >= Ctx - 1}
<1>1. /\ TypeOK /\ pc = "forward" /\ DOMAIN slots \subseteq SlotId
      /\ \A i \in SlotId : IsCache(caches[i], Elem)
      /\ \A i \in DOMAIN slots : SlotOK(slots[i], caches[i], TRUE)
      /\ UNCHANGED <<open, status, queue, cur, prefix, build, lastToks>> /\ pc' = "admit"
  BY DEF IInv, TypeOK, Step, channels
<1>2. /\ slots' = [i \in DOMAIN slots \ gone |-> next(i)]
      /\ caches' = [i \in SlotId |-> IF i \in DOMAIN slots THEN f(i).kv ELSE caches[i]]
  BY DEF Step, Keep
<1>3. DOMAIN events' = Request
  BY DEF Step, Send
<1>4. ASSUME NEW i \in DOMAIN slots
      PROVE  IsCache(f(i).kv, Elem) /\ SlotOK(next(i), f(i).kv, FALSE)
  <2>1. m \in 1 .. Batch /\ IsCache(caches[i], Elem) /\ SlotOK(slots[i], caches[i], TRUE)
    BY <1>1, BatchSize
  <2> HIDE DEF m, span
  <2> QED BY <2>1, DecodeForward
<1> HIDE DEF gone, f, next
<1>5. DOMAIN caches' = SlotId /\ \A i \in SlotId : IsCache(caches'[i], Elem)
  BY <1>1, <1>2, <1>4
<1>6. /\ DOMAIN slots' \subseteq SlotId
      /\ \A i \in DOMAIN slots' : SlotOK(slots'[i], caches'[i], FALSE)
  BY <1>1, <1>2, <1>4
<1>7. \A i \in DOMAIN slots' : IsSlot(slots'[i])
  BY <1>6 DEF SlotOK
<1>8. TypeOK'
  BY <1>1, <1>3, <1>5, <1>6, <1>7 DEF TypeOK
<1>9. TemplateExact' /\ Len(prefix'.toks) < Ctx /\ \A k \in DOMAIN queue' : Fits(queue'[k])
  BY <1>1 DEF IInv, TemplateExact
<1> QED BY <1>1, <1>6, <1>8, <1>9 DEF IInv

-----------------------------------------------------------------------------
(* The theorems *)

\* No step of the system disturbs IInv.
LEMMA NextIInv == ASSUME IInv, [Next]_vars PROVE IInv'
<1>1. CASE UNCHANGED vars
  <2> USE <1>1 DEF vars
  <2>1. TypeOK'
    BY DEF IInv, TypeOK
  <2>2. \A i \in DOMAIN slots' : SlotOK(slots'[i], caches'[i], pc' = "forward")
    BY DEF IInv
  <2> QED BY <2>1, <2>2 DEF IInv, TemplateExact
<1>2. ASSUME NEW r \in Request, Submit(r) PROVE IInv'
  BY <1>2, SubmitIInv
<1>3. ASSUME NEW r \in Request, Reject(r) PROVE IInv'
  BY <1>3, RejectIInv
<1>4. CASE Hangup
  BY <1>4, HangupIInv
<1>5. CASE Recv
  BY <1>5, RecvIInv
<1>6. CASE AdmitBreak
  BY <1>6, AdmitBreakIInv
<1>7. CASE Return
  BY <1>7, ReturnIInv
<1>8. CASE PrefillChunk
  BY <1>8, PrefillChunkIInv
<1>9. CASE AdmitDone
  BY <1>9, AdmitDoneIInv
<1>10. CASE StartBuild
  BY <1>10, StartBuildIInv
<1>11. CASE BuildChunk
  BY <1>11, BuildChunkIInv
<1>12. CASE BuildDone
  BY <1>12, BuildDoneIInv
<1>13. CASE Emit
  BY <1>13, EmitIInv
<1>14. CASE Step
  BY <1>14, StepIInv
<1> QED BY <1>1, <1>2, <1>3, <1>4, <1>5, <1>6, <1>7, <1>8, <1>9, <1>10, <1>11,
           <1>12, <1>13, <1>14 DEF Next, EngineNext

\* IInv holds in every state the scheduler reaches.
THEOREM Invariance == Spec => []IInv
<1>1. Init => IInv
  BY InitIInv
<1>2. IInv /\ [Next]_vars => IInv'
  BY NextIInv
<1> QED BY <1>1, <1>2, PTL DEF Spec

\* The scheduler's variables keep their types (engine.rs).
THEOREM TypeCorrect == Spec => []TypeOK
<1>1. IInv => TypeOK
  BY DEF IInv
<1> QED BY <1>1, Invariance, PTL

\* The prefix template is what a full prefill of any prompt beginning with its
\* tokens would have left (engine.rs, the share rule and the template build).
THEOREM TemplateIsExact == Spec => []TemplateExact
<1>1. IInv => TemplateExact
  BY DEF IInv
<1> QED BY <1>1, Invariance, PTL

\* Every cache in use holds its own sequence and nothing else, whatever was
\* batched, shared, reused or overwritten (kv.rs, forward.rs, engine.rs).
THEOREM KvIsFaithful == Spec => []KvFaithful
<1>1. IInv => KvFaithful
  <2> SUFFICES ASSUME IInv PROVE KvFaithful
    OBVIOUS
  <2>1. \A i \in DOMAIN slots : Holds(caches[i], Alone(slots[i].job, Fed(slots[i])))
    BY DEF IInv, SlotOK
  <2>2. pc \in {"prefill", "build"} =>
          Holds(caches[cur.slot], SubSeq(FullPrefill(Prompt[cur.job]), 1, cur.off))
    BY DEF IInv, CurOK, Prefilling
  <2> QED BY <2>1, <2>2 DEF KvFaithful
<1> QED BY <1>1, Invariance, PTL

\* Every slot's next token is the one its request would get run alone
\* (README.md, "equal to the same prompt run alone").
THEOREM BatchingIsInvisible == Spec => []SameAsAlone
<1>1. IInv => SameAsAlone
  <2> SUFFICES ASSUME IInv, NEW i \in DOMAIN slots
               PROVE  slots[i].tok = IF pc = "forward" /\ slots[i].out_ids # <<>>
                        THEN slots[i].out_ids[Len(slots[i].out_ids)]
                        ELSE Argmax(Alone(slots[i].job, slots[i].out_ids))
    BY DEF SameAsAlone
  <2>1. SlotOK(slots[i], caches[i], pc = "forward")
    BY DEF IInv
  <2>2. CASE pc = "forward"
    BY <2>1, <2>2 DEF SlotOK
  <2>3. CASE pc # "forward"
    BY <2>1, <2>3 DEF SlotOK
  <2> QED BY <2>2, <2>3
<1> QED BY <1>1, Invariance, PTL

\* No forward, fork or admission meets an index that is out of bounds
\* (forward.rs, kv.rs: the asserts and slices of the scheduler's calls).
THEOREM NeverPanics == Spec => []NoPanic
<1>1. IInv => NoPanic
  <2> SUFFICES ASSUME IInv PROVE NoPanic
    OBVIOUS
  <2>1. ASSUME pc = "forward", NEW i \in DOMAIN slots PROVE slots[i].pos < Ctx
    <3>1. /\ slots[i].job \in Request /\ Fits(slots[i].job)
          /\ slots[i].out_ids \in Seq(Token)
          /\ Len(slots[i].out_ids) <= MaxTokens[slots[i].job]
          /\ slots[i].pos = Len(Prompt[slots[i].job]) + Len(slots[i].out_ids) - 1
      BY <2>1 DEF IInv, SlotOK, IsSlot
    <3> DEFINE p == slots[i].pos  L == Len(Prompt[slots[i].job])
               N == Len(slots[i].out_ids)  M == MaxTokens[slots[i].job]
    <3>2. L \in Nat /\ N \in Nat /\ M \in Nat /\ L + M <= Ctx /\ N <= M /\ p = L + N - 1
      BY <3>1, FitsFacts, LenProperties, ChunkFacts
    <3> HIDE DEF p, L, N, M
    <3>3. p < Ctx
      BY <3>2, ChunkFacts
    <3> QED BY <3>3 DEF p
  <2>2. pc \in {"prefill", "build"} =>
          cur.slot \notin DOMAIN slots /\ Fits(cur.job) /\ cur.job \in Request
    BY DEF IInv, CurOK, TypeOK
  <2>3. pc = "prefill" => Len(Prompt[cur.job]) <= Ctx
    BY <2>2, FitsFacts, ChunkFacts
  <2> QED BY <2>1, <2>2, <2>3 DEF NoPanic, IInv
<1> QED BY <1>1, Invariance, PTL

-----------------------------------------------------------------------------
(* Where a job is: the inductive invariant *)

IsQueued(q, r)        == \E k \in DOMAIN q : q[k] = r
IsAdmitted(p, c, r)   == p \in {"prefill", "build"} /\ c.job = r
IsDecoded(s, r)       == \E i \in DOMAIN s : s[i].job = r
HeardDone(evs)        == \E k \in DOMAIN evs : IsDone(evs[k])

\* The accepted jobs are those in one of the four places, and no two places
\* have one in common.
JobsInv ==
  /\ \A r \in Request :
       status[r] = "accepted" <=>
         \/ IsQueued(queue, r) \/ IsAdmitted(pc, cur, r)
         \/ IsDecoded(slots, r) \/ HeardDone(events[r])
  /\ \A r \in Request : IsQueued(queue, r) => ~IsAdmitted(pc, cur, r) /\ ~IsDecoded(slots, r) /\ ~HeardDone(events[r])
  /\ \A r \in Request : IsAdmitted(pc, cur, r) => ~IsDecoded(slots, r) /\ ~HeardDone(events[r])
  /\ \A r \in Request : IsDecoded(slots, r) => ~HeardDone(events[r])
  /\ \A k, l \in DOMAIN queue : queue[k] = queue[l] => k = l
  /\ \A i, j \in DOMAIN slots : slots[i].job = slots[j].job => i = j

\* The count and the finish reason of a Done event, as FinishHonest has them.
Honest(r, e) ==
  /\ e.completion <= MaxTokens[r]
  /\ e.finish = "length" =>
       e.completion = MaxTokens[r] \/ e.prompt + e.completion = Ctx - 1

IsList(s) == s \in Seq({s[k] : k \in DOMAIN s})
EventsOK(r, evs) ==
  /\ IsList(evs)
  /\ \A k \in DOMAIN evs : IsDone(evs[k]) => k = Len(evs) /\ Honest(r, evs[k])

EventsInv == \A r \in Request : EventsOK(r, events[r])

ReturnInv == pc = "returned" => ~open /\ queue = <<>> /\ DOMAIN slots = {}

\* Otherwise the context check of the last step would have retired the slot.
RoomInv ==
  pc # "forward" =>
    \A i \in DOMAIN slots : slots[i].out_ids = <<>> \/ slots[i].pos < Ctx - 1

JInv == JobsInv /\ EventsInv /\ ReturnInv /\ RoomInv

-----------------------------------------------------------------------------
(* Sequences of events *)

\* What a concatenation is made of, whatever the elements are.
LEMMA Glue ==
  ASSUME NEW a, NEW b, IsList(a), IsList(b)
  PROVE  /\ IsList(a \o b) /\ Len(a) \in Nat /\ Len(b) \in Nat
         /\ Len(a \o b) = Len(a) + Len(b) /\ DOMAIN (a \o b) = 1 .. Len(a) + Len(b)
         /\ DOMAIN a = 1 .. Len(a) /\ DOMAIN b = 1 .. Len(b)
         /\ \A k \in 1 .. Len(a) : (a \o b)[k] = a[k]
         /\ \A k \in 1 .. Len(b) : (a \o b)[Len(a) + k] = b[k]
<1> DEFINE S == {a[k] : k \in DOMAIN a} \cup {b[k] : k \in DOMAIN b}
           c == a \o b
<1>1. a \in Seq(S) /\ b \in Seq(S)
  <2>1. a \in Seq({a[k] : k \in DOMAIN a}) /\ b \in Seq({b[k] : k \in DOMAIN b})
    BY DEF IsList
  <2>2. /\ Len(a) \in Nat /\ DOMAIN a = 1 .. Len(a) /\ \A k \in DOMAIN a : a[k] \in S
        /\ Len(b) \in Nat /\ DOMAIN b = 1 .. Len(b) /\ \A k \in DOMAIN b : b[k] \in S
    BY <2>1, LenProperties
  <2>3. a \in [1 .. Len(a) -> S] /\ b \in [1 .. Len(b) -> S]
    BY <2>1, <2>2
  <2> HIDE DEF S
  <2> QED BY <2>2, <2>3
<1> HIDE DEF S
<1>2. /\ c \in Seq(S) /\ Len(c) = Len(a) + Len(b)
      /\ \A k \in 1 .. Len(a) + Len(b) : c[k] = IF k <= Len(a) THEN a[k] ELSE b[k - Len(a)]
  BY <1>1, ConcatProperties
<1>3. /\ Len(a) \in Nat /\ Len(b) \in Nat /\ DOMAIN c = 1 .. Len(a) + Len(b)
      /\ DOMAIN a = 1 .. Len(a) /\ DOMAIN b = 1 .. Len(b)
  BY <1>1, <1>2, LenProperties
<1> HIDE DEF c
<1>4. c \in Seq({c[k] : k \in DOMAIN c})
  <2>1. c = [k \in DOMAIN c |-> c[k]] /\ \A k \in DOMAIN c : c[k] \in {c[j] : j \in DOMAIN c}
    BY <1>2, <1>3
  <2>2. c \in [1 .. Len(c) -> {c[j] : j \in DOMAIN c}]
    BY <2>1, <1>2, <1>3
  <2> QED BY <2>2, <1>2, <1>3
<1> QED BY <1>2, <1>3, <1>4 DEF IsList, c

\* A sequence that ends with the Done event d and holds no other.
Ends(s, d) ==
  /\ IsList(s) /\ Len(s) >= 1 /\ s[Len(s)] = d /\ IsDone(d)
  /\ \A k \in DOMAIN s : IsDone(s[k]) => k = Len(s)
NoDone(s) == IsList(s) /\ \A k \in DOMAIN s : ~IsDone(s[k])

LEMMA Singles ==
  ASSUME NEW e
  PROVE  /\ IsList(<<>>) /\ Len(<<>>) = 0 /\ DOMAIN <<>> = {}
         /\ IsList(<<e>>) /\ Len(<<e>>) = 1 /\ DOMAIN <<e>> = {1} /\ <<e>>[1] = e
<1>1. DOMAIN <<e>> = {1} /\ Len(<<e>>) = 1 /\ <<e>>[1] = e
  OBVIOUS
<1>2. {<<e>>[k] : k \in DOMAIN <<e>>} = {e}
  BY <1>1
<1>3. <<e>> \in Seq({e})
  OBVIOUS
<1>4. <<>> \in Seq({<<>>[k] : k \in DOMAIN <<>>}) /\ Len(<<>>) = 0 /\ DOMAIN <<>> = {}
  BY EmptySeq
<1> QED BY <1>1, <1>2, <1>3, <1>4 DEF IsList

\* What was sent before, with no Done, and what ends the job.
LEMMA GlueEnds ==
  ASSUME NEW a, NEW b, NEW d, NoDone(a), Ends(b, d)
  PROVE  Ends(a \o b, d)
<1>1. IsList(a) /\ IsList(b) /\ Len(b) >= 1 /\ b[Len(b)] = d /\ IsDone(d)
  BY DEF Ends, NoDone
<1>2. /\ IsList(a \o b) /\ Len(a) \in Nat /\ Len(b) \in Nat
      /\ Len(a \o b) = Len(a) + Len(b) /\ DOMAIN (a \o b) = 1 .. Len(a) + Len(b)
      /\ DOMAIN a = 1 .. Len(a) /\ DOMAIN b = 1 .. Len(b)
      /\ \A k \in 1 .. Len(a) : (a \o b)[k] = a[k]
      /\ \A k \in 1 .. Len(b) : (a \o b)[Len(a) + k] = b[k]
  BY <1>1, Glue
<1>3. (a \o b)[Len(a \o b)] = d
  BY <1>1, <1>2
<1>4. ASSUME NEW k \in DOMAIN (a \o b), IsDone((a \o b)[k]) PROVE k = Len(a \o b)
  <2>1. CASE k <= Len(a)
    BY <1>2, <1>4, <2>1 DEF NoDone
  <2>2. CASE ~(k <= Len(a))
    <3> DEFINE j == k - Len(a)
    <3>1. j \in 1 .. Len(b) /\ k = Len(a) + j
      BY <1>2, <2>2
    <3>2. (a \o b)[k] = b[j]
      BY <1>2, <3>1
    <3>3. j = Len(b)
      BY <1>2, <1>4, <3>1, <3>2 DEF Ends
    <3> QED BY <1>2, <3>1, <3>3
  <2> QED BY <2>1, <2>2
<1> QED BY <1>1, <1>2, <1>3, <1>4 DEF Ends

LEMMA GlueNoDone ==
  ASSUME NEW a, NEW b, NoDone(a), NoDone(b)
  PROVE  NoDone(a \o b)
<1>1. /\ IsList(a \o b) /\ Len(a) \in Nat /\ Len(b) \in Nat
      /\ DOMAIN (a \o b) = 1 .. Len(a) + Len(b)
      /\ DOMAIN a = 1 .. Len(a) /\ DOMAIN b = 1 .. Len(b)
      /\ \A k \in 1 .. Len(a) : (a \o b)[k] = a[k]
      /\ \A k \in 1 .. Len(b) : (a \o b)[Len(a) + k] = b[k]
  BY Glue DEF NoDone
<1>2. ASSUME NEW k \in DOMAIN (a \o b), k > Len(a)
      PROVE  k - Len(a) \in 1 .. Len(b) /\ (a \o b)[k] = b[k - Len(a)]
  <2>1. k - Len(a) \in 1 .. Len(b) /\ k = Len(a) + (k - Len(a))
    BY <1>1, <1>2
  <2> QED BY <2>1, <1>1
<1>3. ASSUME NEW k \in DOMAIN (a \o b) PROVE ~IsDone((a \o b)[k])
  BY <1>1, <1>2 DEF NoDone
<1> QED BY <1>1, <1>3 DEF NoDone

\* The Done event of a job is the last event.
LEMMA DoneOfEnds ==
  ASSUME NEW s, NEW d, Ends(s, d)
  PROVE  /\ \E k \in DOMAIN s : IsDone(s[k])
         /\ (CHOOSE e \in {s[k] : k \in DOMAIN s} : IsDone(e)) = d
<1>1. Len(s) \in Nat /\ DOMAIN s = 1 .. Len(s)
  BY LenProperties DEF Ends, IsList
<1>2. Len(s) \in DOMAIN s /\ s[Len(s)] = d /\ IsDone(d)
  BY <1>1 DEF Ends
<1>3. \A e \in {s[k] : k \in DOMAIN s} : IsDone(e) => e = d
  BY <1>2 DEF Ends
<1>4. d \in {s[k] : k \in DOMAIN s}
  BY <1>2
<1> QED BY <1>2, <1>3, <1>4

\* A job that heard one honest Done, at the end, has heard what it should.
LEMMA EndsOK ==
  ASSUME NEW r, NEW s, NEW d, Ends(s, d), Honest(r, d)
  PROVE  EventsOK(r, s)
  BY DEF EventsOK, Ends

-----------------------------------------------------------------------------
(* What one slot sends *)

\* finish_slot ends with Done, and sends no other.
LEMMA FinishEnds ==
  ASSUME NEW s, NEW f
  PROVE  Ends(Finish(s, f), DoneEvent(f, s.job, s.out_ids))
<1> DEFINE d == DoneEvent(f, s.job, s.out_ids)
           t == TextEvent(SubSeq(s.text, s.sent + 1, Len(s.text)))
           a == IF Len(s.text) > s.sent THEN <<t>> ELSE <<>>
<1>1. IsDone(d) /\ ~IsDone(t)
  BY DEF IsDone, DoneEvent, TextEvent
<1>2. Finish(s, f) = a \o <<d>>
  BY DEF Finish
<1> HIDE DEF d, t
<1>3. NoDone(<<t>>) /\ NoDone(<<>>) /\ Ends(<<d>>, d)
  BY <1>1, Singles DEF NoDone, Ends
<1>4. NoDone(a)
  BY <1>3
<1> HIDE DEF a
<1> QED BY <1>2, <1>3, <1>4, GlueEnds DEF d

\* The four ways of the emit loop's body.
LEMMA OutcomeCases ==
  ASSUME NEW s, IsSlot(s)
  PROVE  LET o   == Outcome(s)
             out == Append(s.out_ids, s.tok)
             hit == StopCuts(Decode(out), Stops[s.job]) # {}
         IN  \/ /\ s.tok \in Eos
                /\ o.leaves /\ Ends(o.sends, DoneEvent("stop", s.job, s.out_ids))
             \/ /\ s.tok \notin Eos /\ Len(s.out_ids) >= MaxTokens[s.job]
                /\ o.leaves /\ Ends(o.sends, DoneEvent("length", s.job, s.out_ids))
             \/ /\ s.tok \notin Eos /\ ~(Len(s.out_ids) >= MaxTokens[s.job]) /\ hit
                /\ o.leaves /\ Ends(o.sends, DoneEvent("stop", s.job, out))
             \/ /\ s.tok \notin Eos /\ ~(Len(s.out_ids) >= MaxTokens[s.job]) /\ ~hit
                /\ ~o.leaves /\ NoDone(o.sends)
                /\ o.slot.job = s.job /\ o.slot.pos = s.pos /\ o.slot.out_ids = out
<1> DEFINE out == Append(s.out_ids, s.tok)
           text == Decode(out)
           cuts == StopCuts(text, Stops[s.job])
<1>1. CASE s.tok \in Eos
  BY <1>1, FinishEnds DEF Outcome, Retired
<1>2. CASE s.tok \notin Eos /\ Len(s.out_ids) >= MaxTokens[s.job]
  BY <1>2, FinishEnds DEF Outcome, Retired
<1>3. CASE s.tok \notin Eos /\ ~(Len(s.out_ids) >= MaxTokens[s.job])
  <2>1. Outcome(s) = Accept(s)
    BY <1>3 DEF Outcome
  <2>2. CASE cuts # {}
    <3> DEFINE t == [s EXCEPT !.out_ids = out, !.text = SubSeq(text, 1, Min(cuts))]
    <3>1. Accept(s) = Retired(t, "stop")
      BY <2>2 DEF Accept
    <3>2. t.job = s.job /\ t.out_ids = out
      BY DEF IsSlot
    <3> HIDE DEF t
    <3>3. Ends(Finish(t, "stop"), DoneEvent("stop", s.job, out))
      BY <3>2, FinishEnds
    <3>4. /\ Outcome(s).leaves
          /\ Ends(Outcome(s).sends, DoneEvent("stop", s.job, out))
      BY <2>1, <3>1, <3>3 DEF Retired
    <3> QED BY <1>3, <2>2, <3>4
  <2>3. CASE cuts = {}
    <3> DEFINE st == StableLen(text)
               e == TextEvent(SubSeq(text, s.sent + 1, st))
               sends == IF st > s.sent THEN <<e>> ELSE <<>>
    <3>1. /\ ~Accept(s).leaves /\ Accept(s).sends = sends
          /\ Accept(s).slot.job = s.job /\ Accept(s).slot.pos = s.pos
          /\ Accept(s).slot.out_ids = out
      BY <2>3 DEF Accept, IsSlot
    <3>2. ~IsDone(e)
      BY DEF IsDone, TextEvent
    <3> HIDE DEF e
    <3>3. NoDone(<<e>>) /\ NoDone(<<>>)
      BY <3>2, Singles DEF NoDone
    <3>4. NoDone(sends)
      BY <3>3
    <3> HIDE DEF sends
    <3> QED BY <1>3, <2>1, <2>3, <3>1, <3>4
  <2> QED BY <2>2, <2>3
<1> QED BY <1>1, <1>2, <1>3

\* What the steps that send do to a job: a slot's job hears what its slot
\* sends, nobody else hears anything.
LEMMA Heard ==
  ASSUME JobsInv, TypeOK, NEW sends, Send(sends)
  PROVE  /\ \A i \in DOMAIN slots :
              events'[slots[i].job] = events[slots[i].job] \o sends[i]
         /\ \A r \in Request : ~IsDecoded(slots, r) => events'[r] = events[r]
<1>1. events' = [r \in Request |->
                   IF \E i \in DOMAIN slots : slots[i].job = r
                   THEN events[r] \o sends[CHOOSE i \in DOMAIN slots : slots[i].job = r]
                   ELSE events[r]]
  BY DEF Send
<1>2. ASSUME NEW i \in DOMAIN slots
      PROVE  events'[slots[i].job] = events[slots[i].job] \o sends[i]
  <2>1. slots[i].job \in Request
    BY DEF TypeOK, IsSlot
  <2>2. (CHOOSE j \in DOMAIN slots : slots[j].job = slots[i].job) = i
    BY DEF JobsInv
  <2> QED BY <1>1, <2>1, <2>2
<1>3. ASSUME NEW r \in Request, ~IsDecoded(slots, r) PROVE events'[r] = events[r]
  BY <1>1, <1>3 DEF IsDecoded
<1> QED BY <1>2, <1>3

\* The emit loop and the decode step, as far as jobs are concerned: some slots
\* leave, each after one honest Done, the others stay and send none.
LEMMA Retiring ==
  ASSUME JobsInv, EventsInv, TypeOK, TypeOK',
         NEW gone \in SUBSET DOMAIN slots, NEW sends, NEW d, Send(sends),
         DOMAIN slots' = DOMAIN slots \ gone,
         \A i \in DOMAIN slots' : slots'[i].job = slots[i].job,
         pc \notin {"prefill", "build"}, pc' \notin {"prefill", "build"},
         UNCHANGED <<status, queue>>,
         \A i \in DOMAIN slots \ gone : NoDone(sends[i]),
         \A i \in gone : Ends(sends[i], d[i]) /\ Honest(slots[i].job, d[i])
  PROVE  /\ JobsInv' /\ EventsInv'
         /\ \A i \in gone : Ends(events'[slots[i].job], d[i])
<1>1. /\ \A i \in DOMAIN slots :
              events'[slots[i].job] = events[slots[i].job] \o sends[i]
      /\ \A r \in Request : ~IsDecoded(slots, r) => events'[r] = events[r]
  BY Heard
<1>2. /\ \A i \in DOMAIN slots : slots[i].job \in Request
      /\ \A i, j \in DOMAIN slots : slots[i].job = slots[j].job => i = j
  BY DEF TypeOK, IsSlot, JobsInv
<1>3. ASSUME NEW i \in DOMAIN slots PROVE NoDone(events[slots[i].job])
  BY <1>2 DEF JobsInv, IsDecoded, HeardDone, NoDone, EventsInv, EventsOK
<1>4. ASSUME NEW i \in gone PROVE Ends(events'[slots[i].job], d[i])
  <2>1. NoDone(events[slots[i].job]) /\ Ends(sends[i], d[i])
    BY <1>3
  <2>2. events'[slots[i].job] = events[slots[i].job] \o sends[i]
    BY <1>1
  <2> QED BY <2>1, <2>2, GlueEnds
<1>5. ASSUME NEW i \in DOMAIN slots \ gone PROVE NoDone(events'[slots[i].job])
  <2>1. NoDone(events[slots[i].job]) /\ NoDone(sends[i])
    BY <1>3
  <2>2. events'[slots[i].job] = events[slots[i].job] \o sends[i]
    BY <1>1
  <2> QED BY <2>1, <2>2, GlueNoDone
<1>6. ASSUME NEW i \in gone
      PROVE  EventsOK(slots[i].job, events'[slots[i].job]) /\ HeardDone(events'[slots[i].job])
  <2>1. Ends(events'[slots[i].job], d[i])
    BY <1>4
  <2>2. HeardDone(events'[slots[i].job])
    BY <2>1, DoneOfEnds DEF HeardDone
  <2>3. EventsOK(slots[i].job, events'[slots[i].job])
    <3>1. Honest(slots[i].job, d[i])
      OBVIOUS
    <3> QED BY <2>1, <3>1, EndsOK
  <2> QED BY <2>2, <2>3
<1>7. ASSUME NEW i \in DOMAIN slots \ gone
      PROVE  EventsOK(slots[i].job, events'[slots[i].job]) /\ ~HeardDone(events'[slots[i].job])
  BY <1>5 DEF NoDone, EventsOK, HeardDone
<1>8. ASSUME NEW r \in Request, ~IsDecoded(slots, r)
      PROVE  EventsOK(r, events'[r]) /\ (HeardDone(events'[r]) <=> HeardDone(events[r]))
  BY <1>1, <1>8 DEF EventsInv, HeardDone
<1>9. EventsInv'
  <2>1. ASSUME NEW r \in Request PROVE EventsOK(r, events'[r])
    BY <1>6, <1>7, <1>8 DEF IsDecoded
  <2> QED BY <2>1 DEF EventsInv
<1>10. /\ \A r : IsQueued(queue', r) <=> IsQueued(queue, r)
       /\ \A r : ~IsAdmitted(pc, cur, r) /\ ~IsAdmitted(pc', cur', r)
       /\ \A r : IsDecoded(slots', r) <=> \E i \in DOMAIN slots \ gone : slots[i].job = r
  BY DEF IsQueued, IsAdmitted, IsDecoded
<1>11. ASSUME NEW r \in Request
       PROVE  IsDecoded(slots', r) \/ HeardDone(events'[r]) <=> IsDecoded(slots, r) \/ HeardDone(events[r])
  <2>1. CASE IsDecoded(slots, r)
    <3>1. PICK i \in DOMAIN slots : slots[i].job = r
      BY <2>1 DEF IsDecoded
    <3>2. CASE i \in gone
      BY <2>1, <3>1, <3>2, <1>6 DEF HeardDone
    <3>3. CASE i \notin gone
      BY <2>1, <3>1, <3>3, <1>10
    <3> QED BY <3>2, <3>3
  <2>2. CASE ~IsDecoded(slots, r)
    <3>1. ~(\E i \in DOMAIN slots \ gone : slots[i].job = r)
      BY <2>2 DEF IsDecoded
    <3>2. ~IsDecoded(slots', r)
      BY <3>1, <1>10
    <3>3. HeardDone(events'[r]) <=> HeardDone(events[r])
      BY <2>2, <1>8 DEF HeardDone
    <3> QED BY <2>2, <3>2, <3>3
  <2> QED BY <2>1, <2>2
<1>12. ASSUME NEW r \in Request, IsDecoded(slots', r) PROVE ~HeardDone(events'[r]) /\ IsDecoded(slots, r)
  <2>1. PICK i \in DOMAIN slots \ gone : slots[i].job = r
    BY <1>10, <1>12
  <2>2. IsDecoded(slots, r)
    BY <2>1 DEF IsDecoded
  <2>3. ~HeardDone(events'[r])
    BY <2>1, <1>7
  <2> QED BY <2>2, <2>3 DEF HeardDone
<1>13. ASSUME NEW r \in Request, HeardDone(events'[r]) PROVE IsDecoded(slots, r) \/ HeardDone(events[r])
  BY <1>13, <1>11
<1>14. \A k, l \in DOMAIN queue' : queue'[k] = queue'[l] => k = l
  BY DEF JobsInv
<1>15. \A i, j \in DOMAIN slots' : slots'[i].job = slots'[j].job => i = j
  BY <1>2
<1>16. JobsInv'
  <2>1. ASSUME NEW r \in Request
        PROVE  /\ status'[r] = "accepted" <=>
                    IsQueued(queue', r) \/ IsAdmitted(pc', cur', r) \/ IsDecoded(slots', r) \/ HeardDone(events'[r])
               /\ IsQueued(queue', r) => ~IsAdmitted(pc', cur', r) /\ ~IsDecoded(slots', r) /\ ~HeardDone(events'[r])
               /\ IsAdmitted(pc', cur', r) => ~IsDecoded(slots', r) /\ ~HeardDone(events'[r])
               /\ IsDecoded(slots', r) => ~HeardDone(events'[r])
    <3>1. /\ status[r] = "accepted" <=> IsQueued(queue, r) \/ IsAdmitted(pc, cur, r) \/ IsDecoded(slots, r) \/ HeardDone(events[r])
          /\ IsQueued(queue, r) => ~IsDecoded(slots, r) /\ ~HeardDone(events[r])
      BY DEF JobsInv
    <3> QED BY <3>1, <1>10, <1>11, <1>12, <1>13
  <2> QED BY <2>1, <1>14, <1>15 DEF JobsInv
<1> QED BY <1>4, <1>9, <1>16

-----------------------------------------------------------------------------
(* Init and the actions preserve JInv *)

LEMMA InitJInv == Init => JInv
<1> SUFFICES ASSUME Init PROVE JInv
  OBVIOUS
<1>1. DOMAIN slots = {} /\ DOMAIN queue = {} /\ pc = "admit"
  BY EmptySeq DEF Init
<1>2. \A r \in Request : IsList(events[r]) /\ DOMAIN events[r] = {} /\ status[r] = "new"
  BY Singles DEF Init
<1>3. JobsInv
  BY <1>1, <1>2 DEF JobsInv, IsQueued, IsAdmitted, IsDecoded, HeardDone
<1>4. EventsInv
  BY <1>2 DEF EventsInv, EventsOK
<1> QED BY <1>1, <1>3, <1>4 DEF JInv, ReturnInv, RoomInv

\* Nothing that says where a job is changes.
LEMMA PlacesKept ==
  ASSUME JInv, UNCHANGED <<queue, slots, events>>,
         \A r : IsAdmitted(pc', cur', r) <=> IsAdmitted(pc, cur, r),
         \A r \in Request : status'[r] = "accepted" <=> status[r] = "accepted"
  PROVE  JobsInv' /\ EventsInv'
<1>1. \A r : /\ IsQueued(queue', r) <=> IsQueued(queue, r)
             /\ IsDecoded(slots', r) <=> IsDecoded(slots, r)
             /\ HeardDone(events'[r]) <=> HeardDone(events[r])
  BY DEF IsQueued, IsDecoded, HeardDone
<1>2. JobsInv'
  BY <1>1 DEF JInv, JobsInv
<1> QED BY <1>2 DEF JInv, EventsInv

LEMMA SubmitJInv == ASSUME IInv, JInv, NEW r \in Request, Submit(r) PROVE JInv'
<1>1. /\ queue \in Seq(Request) /\ queue' = Append(queue, r)
      /\ status' = [status EXCEPT ![r] = "accepted"] /\ status[r] = "new" /\ open
      /\ status \in [Request -> {"new", "accepted", "rejected"}]
      /\ UNCHANGED <<open, pc, slots, cur, events>>
  BY DEF Submit, engine, IInv, TypeOK
<1>2. ~IsQueued(queue, r) /\ ~IsAdmitted(pc, cur, r) /\ ~IsDecoded(slots, r) /\ ~HeardDone(events[r])
  BY <1>1 DEF JInv, JobsInv
<1>3. /\ DOMAIN queue = 1 .. Len(queue) /\ DOMAIN queue' = 1 .. Len(queue) + 1
      /\ Len(queue) \in Nat /\ queue'[Len(queue) + 1] = r
      /\ \A k \in DOMAIN queue : queue'[k] = queue[k]
  BY <1>1, AppendProperties, LenProperties
<1>4. \A q : IsQueued(queue', q) <=> IsQueued(queue, q) \/ q = r
  BY <1>3 DEF IsQueued
<1>5. \A q : /\ IsAdmitted(pc', cur', q) <=> IsAdmitted(pc, cur, q)
             /\ IsDecoded(slots', q) <=> IsDecoded(slots, q)
             /\ HeardDone(events'[q]) <=> HeardDone(events[q])
  BY <1>1 DEF IsAdmitted, IsDecoded, HeardDone
<1>6. \A k, l \in DOMAIN queue' : queue'[k] = queue'[l] => k = l
  BY <1>2, <1>3 DEF JInv, JobsInv, IsQueued
<1>7. JobsInv'
  BY <1>1, <1>2, <1>4, <1>5, <1>6 DEF JInv, JobsInv
<1> QED BY <1>1, <1>7 DEF JInv, EventsInv, ReturnInv, RoomInv

LEMMA RecvJInv == ASSUME IInv, JInv, Recv PROVE JInv'
<1> DEFINE r == Head(queue)
<1>1. /\ pc = "admit" /\ pc' = "prefill" /\ queue # <<>> /\ queue' = Tail(queue)
      /\ cur'.job = r /\ queue \in Seq(Request)
      /\ UNCHANGED <<open, status, slots, events>>
  BY DEF Recv, IInv, TypeOK
<1>2. /\ DOMAIN queue = 1 .. Len(queue) /\ DOMAIN queue' = 1 .. Len(queue) - 1
      /\ Len(queue) \in Nat /\ Len(queue) >= 1 /\ r = queue[1]
      /\ \A k \in DOMAIN queue' : k + 1 \in DOMAIN queue /\ queue'[k] = queue[k + 1]
  <2>1. /\ Tail(queue) \in Seq(Request) /\ Len(Tail(queue)) = Len(queue) - 1
        /\ Len(queue) \in Nat /\ Len(queue) >= 1 /\ DOMAIN queue = 1 .. Len(queue)
        /\ \A k \in 1 .. Len(Tail(queue)) : Tail(queue)[k] = queue[k + 1]
    BY <1>1, HeadTailProperties, LenProperties, EmptySeq
  <2> QED BY <1>1, <2>1
<1> HIDE DEF r
<1>3. IsQueued(queue, r) /\ ~IsQueued(queue', r)
  BY <1>2 DEF IsQueued, JInv, JobsInv
<1>4. \A q : q # r => (IsQueued(queue', q) <=> IsQueued(queue, q))
  <2>1. ASSUME NEW q, q # r, IsQueued(queue, q) PROVE IsQueued(queue', q)
    <3>1. PICK k \in DOMAIN queue : queue[k] = q
      BY <2>1 DEF IsQueued
    <3>2. k - 1 \in DOMAIN queue' /\ queue'[k - 1] = queue[k]
      BY <1>2, <2>1, <3>1
    <3> QED BY <3>1, <3>2 DEF IsQueued
  <2>2. ASSUME NEW q, IsQueued(queue', q) PROVE IsQueued(queue, q)
    BY <1>2, <2>2 DEF IsQueued
  <2> QED BY <2>1, <2>2
<1>5. \A q : /\ ~IsAdmitted(pc, cur, q) /\ (IsAdmitted(pc', cur', q) <=> q = r)
             /\ IsDecoded(slots', q) <=> IsDecoded(slots, q)
             /\ HeardDone(events'[q]) <=> HeardDone(events[q])
  BY <1>1 DEF IsAdmitted, IsDecoded, HeardDone
<1>6. \A k, l \in DOMAIN queue' : queue'[k] = queue'[l] => k = l
  BY <1>2 DEF JInv, JobsInv
<1>7. JobsInv'
  BY <1>1, <1>3, <1>4, <1>5, <1>6 DEF JInv, JobsInv
<1> QED BY <1>1, <1>7 DEF JInv, EventsInv, ReturnInv, RoomInv

\* The prefilled job moves from admission to its slot.
LEMMA InstallJInv ==
  ASSUME IInv, JInv, pc \in {"prefill", "build"}, Install,
         UNCHANGED <<open, status, queue, events>>
  PROVE  JInv'
<1> DEFINE r == cur.job
           n == Slot(r, <<>>, <<>>, 0, Len(Prompt[r]), cur.first)
<1>1. /\ slots' = [i \in DOMAIN slots \cup {cur.slot} |-> IF i = cur.slot THEN n ELSE slots[i]]
      /\ pc' = "admit" /\ n.job = r /\ n.out_ids = <<>>
      /\ cur.slot \notin DOMAIN slots
  BY DEF Install, IInv, Slot
<1> HIDE DEF r, n
<1>2. IsAdmitted(pc, cur, r) /\ ~IsQueued(queue, r) /\ ~IsDecoded(slots, r) /\ ~HeardDone(events[r]) /\ r \in Request
  BY DEF IsAdmitted, JInv, JobsInv, IInv, TypeOK, r
<1>3. \A q : /\ IsAdmitted(pc, cur, q) <=> q = r
             /\ ~IsAdmitted(pc', cur', q)
             /\ IsQueued(queue', q) <=> IsQueued(queue, q)
             /\ HeardDone(events'[q]) <=> HeardDone(events[q])
  BY <1>1 DEF IsAdmitted, IsQueued, HeardDone, r
<1>4. \A q : IsDecoded(slots', q) <=> IsDecoded(slots, q) \/ q = r
  BY <1>1 DEF IsDecoded
<1>5. \A i, j \in DOMAIN slots' : slots'[i].job = slots'[j].job => i = j
  BY <1>1, <1>2 DEF JInv, JobsInv, IsDecoded
<1>6. JobsInv'
  BY <1>2, <1>3, <1>4, <1>5 DEF JInv, JobsInv
<1>7. RoomInv'
  BY <1>1 DEF JInv, RoomInv
<1> QED BY <1>1, <1>6, <1>7 DEF JInv, EventsInv, ReturnInv

\* What a slot the emit loop retires has sent last.
EmitEnd(s) ==
  IF s.tok \in Eos THEN DoneEvent("stop", s.job, s.out_ids)
  ELSE IF Len(s.out_ids) >= MaxTokens[s.job] THEN DoneEvent("length", s.job, s.out_ids)
  ELSE DoneEvent("stop", s.job, Append(s.out_ids, s.tok))

LEMMA EmitHonest ==
  ASSUME NEW s, NEW c, SlotOK(s, c, FALSE), Outcome(s).leaves
  PROVE  Ends(Outcome(s).sends, EmitEnd(s)) /\ Honest(s.job, EmitEnd(s))
<1>1. /\ IsSlot(s) /\ Len(s.out_ids) <= MaxTokens[s.job]
      /\ s.job \in Request /\ s.out_ids \in Seq(Token) /\ s.tok \in Token
  BY DEF SlotOK, IsSlot
<1>2. /\ Len(s.out_ids) \in Nat /\ MaxTokens[s.job] \in Nat
      /\ Len(Append(s.out_ids, s.tok)) = Len(s.out_ids) + 1
  BY <1>1, RequestAssumption, LenProperties, AppendProperties
<1>3. Ends(Outcome(s).sends, EmitEnd(s))
  BY <1>1, OutcomeCases DEF EmitEnd
<1>4. Honest(s.job, EmitEnd(s))
  <2> DEFINE N == Len(s.out_ids)  M == MaxTokens[s.job]
  <2>1. /\ EmitEnd(s).finish \in {"stop", "length"}
        /\ EmitEnd(s).finish = "length" => N >= M /\ EmitEnd(s).completion = N
        /\ EmitEnd(s).completion = N \/ (~(N >= M) /\ EmitEnd(s).completion = N + 1)
    BY <1>2 DEF EmitEnd, DoneEvent
  <2> HIDE DEF N
  <2>2. N \in Nat /\ M \in Nat /\ N <= M
    BY <1>1, <1>2 DEF N
  <2> QED BY <2>1, <2>2 DEF Honest
<1> QED BY <1>3, <1>4

LEMMA EmitJInv ==
  ASSUME IInv, JInv, Emit
  PROVE  /\ JInv'
         /\ \A i \in DOMAIN slots : Outcome(slots[i]).leaves =>
              Ends(events'[slots[i].job], EmitEnd(slots[i]))
<1> DEFINE o == [i \in DOMAIN slots |-> Outcome(slots[i])]
           gone == {i \in DOMAIN slots : o[i].leaves}
           sends == [i \in DOMAIN slots |-> o[i].sends]
           d == [i \in DOMAIN slots |-> EmitEnd(slots[i])]
<1>1. /\ TypeOK /\ TypeOK' /\ pc = "emit"
      /\ \A i \in DOMAIN slots : SlotOK(slots[i], caches[i], FALSE)
      /\ UNCHANGED <<open, status, queue, cur>>
      /\ slots' = [i \in DOMAIN slots \ gone |-> o[i].slot]
      /\ Send(sends) /\ pc' = IF gone = DOMAIN slots THEN "admit" ELSE "forward"
  <2>1. IInv'
    BY EmitIInv
  <2> QED BY <2>1 DEF Emit, Keep, IInv, channels
<1>2. ASSUME NEW i \in gone PROVE Ends(sends[i], d[i]) /\ Honest(slots[i].job, d[i])
  BY <1>1, EmitHonest
<1>3. ASSUME NEW i \in DOMAIN slots \ gone
      PROVE  NoDone(sends[i]) /\ o[i].slot.job = slots[i].job
  <2>1. ~Outcome(slots[i]).leaves /\ IsSlot(slots[i])
    BY <1>1 DEF SlotOK
  <2>2. NoDone(Outcome(slots[i]).sends) /\ Outcome(slots[i]).slot.job = slots[i].job
    BY <2>1, OutcomeCases
  <2> QED BY <2>2
<1>4. gone \in SUBSET DOMAIN slots /\ \A i \in DOMAIN slots : Outcome(slots[i]).leaves => i \in gone
  OBVIOUS
<1> HIDE DEF o, gone, sends
<1>5. /\ pc' \in {"admit", "forward"} /\ DOMAIN slots' = DOMAIN slots \ gone
      /\ \A i \in DOMAIN slots' : slots'[i].job = slots[i].job
  BY <1>1, <1>3
<1>6. /\ JobsInv' /\ EventsInv' /\ \A i \in gone : Ends(events'[slots[i].job], d[i])
  <2> HIDE DEF d
  <2>1. JobsInv /\ EventsInv
    BY DEF JInv
  <2> QED BY <2>1, <1>1, <1>2, <1>3, <1>4, <1>5, Retiring
<1>7. RoomInv' /\ ReturnInv'
  <2>1. pc' # "forward" => DOMAIN slots' = {}
    BY <1>1, <1>5
  <2> QED BY <2>1, <1>5 DEF RoomInv, ReturnInv
<1>8. \A i \in gone : d[i] = EmitEnd(slots[i])
  BY <1>4
<1> HIDE DEF d
<1> QED BY <1>4, <1>6, <1>7, <1>8 DEF JInv

LEMMA StepJInv ==
  ASSUME IInv, JInv, Step
  PROVE  /\ JInv'
         /\ \E gone \in SUBSET DOMAIN slots :
              /\ DOMAIN slots' = DOMAIN slots \ gone
              /\ \A i \in DOMAIN slots' : /\ slots'[i].job = slots[i].job
                                          /\ slots'[i].out_ids = slots[i].out_ids
              /\ \A i \in gone : /\ slots[i].pos + 1 >= Ctx - 1
                                 /\ Ends(events'[slots[i].job],
                                         DoneEvent("length", slots[i].job, slots[i].out_ids))
<1> DEFINE m == Cardinality(DOMAIN slots)
           span == Max({slots[i].pos : i \in DOMAIN slots}) + 1
           f == [i \in DOMAIN slots |->
                   Forward(caches[i], Elems(<<slots[i].tok>>, Arith(m, span)), slots[i].pos)]
           next == [i \in DOMAIN slots |->
                      [slots[i] EXCEPT !.tok = Argmax(f[i].out), !.pos = @ + 1]]
           gone == {i \in DOMAIN slots : next[i].pos >= Ctx - 1}
           sends == [i \in DOMAIN slots |->
                       IF i \in gone THEN Finish(next[i], "length") ELSE <<>>]
           d == [i \in DOMAIN slots |-> DoneEvent("length", slots[i].job, slots[i].out_ids)]
<1>1. /\ TypeOK /\ TypeOK' /\ pc = "forward" /\ pc' = "admit"
      /\ \A i \in DOMAIN slots : SlotOK(slots[i], caches[i], TRUE)
      /\ UNCHANGED <<open, status, queue, cur>>
  <2>1. IInv'
    BY StepIInv
  <2> QED BY <2>1 DEF Step, IInv, channels
<1>2. slots' = [i \in DOMAIN slots \ gone |-> next[i]] /\ Send(sends)
  BY DEF Step, Keep
<1>3. ASSUME NEW i \in DOMAIN slots
      PROVE  /\ next[i].job = slots[i].job /\ next[i].out_ids = slots[i].out_ids
             /\ next[i].pos = slots[i].pos + 1
             /\ next[i].pos >= Ctx - 1 <=> i \in gone
  <2> HIDE DEF f
  <2>1. IsSlot(slots[i])
    BY <1>1 DEF SlotOK
  <2> QED BY <2>1 DEF IsSlot
<1>4. ASSUME NEW i \in DOMAIN slots
      PROVE  sends[i] = IF i \in gone THEN Finish(next[i], "length") ELSE <<>>
  OBVIOUS
<1>5. gone \in SUBSET DOMAIN slots /\ \A i \in DOMAIN slots : d[i] =
                                         DoneEvent("length", slots[i].job, slots[i].out_ids)
  OBVIOUS
<1> HIDE DEF m, span, f, next, gone, sends, d
<1>6. ASSUME NEW i \in gone
      PROVE  Ends(sends[i], d[i]) /\ Honest(slots[i].job, d[i])
  <2> DEFINE s == slots[i]  L == Len(Prompt[s.job])  N == Len(s.out_ids)  M == MaxTokens[s.job]
  <2>1. i \in DOMAIN slots
    BY <1>5
  <2>2. /\ s.pos = L + N - 1 /\ N <= M /\ L + M <= Ctx
        /\ s.job \in Request /\ s.out_ids \in Seq(Token)
    BY <1>1, <2>1 DEF SlotOK, IsSlot, Fits
  <2>3. L \in Nat /\ N \in Nat /\ M \in Nat /\ Ctx \in Nat
    BY <2>2, PromptFacts, RequestAssumption, LenProperties, ChunkFacts
  <2>4. s.pos + 1 >= Ctx - 1
    BY <1>3, <2>1
  <2>5. /\ d[i].completion = N /\ d[i].prompt = L
    <3>1. d[i] = DoneEvent("length", s.job, s.out_ids)
      BY <1>5, <2>1
    <3> HIDE DEF s
    <3> QED BY <3>1 DEF DoneEvent
  <2> HIDE DEF s, L, N, M
  <2>6. N = M \/ L + N = Ctx - 1
    BY <2>2, <2>3, <2>4
  <2>7. Honest(s.job, d[i])
    BY <2>2, <2>5, <2>6 DEF Honest, M
  <2>8. Ends(sends[i], d[i])
    BY <1>3, <1>4, <1>5, <2>1, FinishEnds
  <2> QED BY <2>7, <2>8 DEF s
<1>7. \A i \in DOMAIN slots \ gone : NoDone(sends[i])
  BY <1>4, Singles DEF NoDone
<1>8. /\ DOMAIN slots' = DOMAIN slots \ gone
      /\ \A i \in DOMAIN slots' : /\ slots'[i].job = slots[i].job
                                  /\ slots'[i].out_ids = slots[i].out_ids
                                  /\ slots'[i].pos = slots[i].pos + 1
                                  /\ ~(slots'[i].pos >= Ctx - 1)
  BY <1>2, <1>3
<1>9. /\ JobsInv' /\ EventsInv' /\ \A i \in gone : Ends(events'[slots[i].job], d[i])
  <2>1. JobsInv /\ EventsInv
    BY DEF JInv
  <2> QED BY <2>1, <1>1, <1>2, <1>5, <1>6, <1>7, <1>8, Retiring
<1>10. RoomInv' /\ ReturnInv'
  <2>1. ASSUME NEW i \in DOMAIN slots' PROVE slots'[i].pos < Ctx - 1
    <3>1. slots'[i].pos \in Nat /\ Ctx \in Nat
      BY <1>1, ChunkFacts DEF TypeOK, IsSlot
    <3> QED BY <3>1, <1>8
  <2> QED BY <2>1, <1>1 DEF RoomInv, ReturnInv
<1>11. \A i \in gone : slots[i].pos + 1 >= Ctx - 1
  BY <1>3, <1>5
<1> QED BY <1>5, <1>8, <1>9, <1>10, <1>11 DEF JInv

LEMMA NextJInv == ASSUME IInv, JInv, [Next]_vars PROVE JInv'
<1>1. ASSUME UNCHANGED <<queue, slots, events, open, pc>>, cur'.job = cur.job,
             \A r \in Request : status'[r] = "accepted" <=> status[r] = "accepted"
      PROVE  JInv'
  <2>1. \A r : IsAdmitted(pc', cur', r) <=> IsAdmitted(pc, cur, r)
    BY <1>1 DEF IsAdmitted
  <2>2. JobsInv' /\ EventsInv'
    BY <1>1, <2>1, PlacesKept
  <2> QED BY <1>1, <2>2 DEF JInv, ReturnInv, RoomInv
<1>2. ASSUME UNCHANGED <<queue, slots, events, open, status>>,
             \A r : IsAdmitted(pc', cur', r) <=> IsAdmitted(pc, cur, r),
             pc # "forward", pc' = "returned" => ~open /\ queue = <<>> /\ DOMAIN slots = {}
      PROVE  JInv'
  <2>1. JobsInv' /\ EventsInv'
    BY <1>2, PlacesKept
  <2> QED BY <1>2, <2>1 DEF JInv, ReturnInv, RoomInv
<1>3. CASE UNCHANGED vars
  BY <1>1, <1>3 DEF vars
<1>4. ASSUME NEW r \in Request, Submit(r) PROVE JInv'
  BY <1>4, SubmitJInv
<1>5. ASSUME NEW r \in Request, Reject(r) PROVE JInv'
  <2>1. status \in [Request -> {"new", "accepted", "rejected"}]
    BY DEF IInv, TypeOK
  <2>2. \A q \in Request : status'[q] = "accepted" <=> status[q] = "accepted"
    BY <1>5, <2>1 DEF Reject
  <2> QED BY <1>1, <1>5, <2>2 DEF Reject, engine
<1>6. CASE Hangup
  <2>1. UNCHANGED <<queue, slots, events, pc, cur, status>> /\ open /\ ~open'
    BY <1>6 DEF Hangup, engine
  <2>2. JobsInv' /\ EventsInv'
    BY <2>1, PlacesKept
  <2> QED BY <2>1, <2>2 DEF JInv, ReturnInv, RoomInv
<1>7. CASE Recv
  BY <1>7, RecvJInv
<1>8. CASE AdmitBreak
  BY <1>2, <1>8 DEF AdmitBreak, channels, IsAdmitted
<1>9. CASE Return
  BY <1>2, <1>9 DEF Return, channels, IsAdmitted
<1>10. CASE PrefillChunk
  <2>1. cur'.job = cur.job
    BY <1>10 DEF PrefillChunk, IInv, TypeOK
  <2> QED BY <1>1, <1>10, <2>1 DEF PrefillChunk, channels
<1>11. CASE AdmitDone
  BY <1>11, InstallJInv DEF AdmitDone, Prefilled, channels
<1>12. CASE StartBuild
  BY <1>2, <1>12 DEF StartBuild, Prefilled, channels, IsAdmitted
<1>13. CASE BuildChunk
  BY <1>1, <1>13 DEF BuildChunk, channels
<1>14. CASE BuildDone
  BY <1>14, InstallJInv DEF BuildDone, channels
<1>15. CASE Emit
  BY <1>15, EmitJInv
<1>16. CASE Step
  BY <1>16, StepJInv
<1> QED BY <1>3, <1>4, <1>5, <1>6, <1>7, <1>8, <1>9, <1>10, <1>11, <1>12, <1>13,
           <1>14, <1>15, <1>16 DEF Next, EngineNext

\* JInv holds in every state the scheduler reaches.
THEOREM JobInvariance == Spec => []JInv
<1>1. Init => JInv
  BY InitJInv
<1>2. IInv /\ JInv /\ [Next]_vars => JInv'
  BY NextJInv
<1> QED BY <1>1, <1>2, Invariance, PTL DEF Spec

-----------------------------------------------------------------------------
(* The theorems about jobs *)

LEMMA AtMostOne ==
  ASSUME NEW S, \A x, y \in S : x = y
  PROVE  Cardinality(S) = IF S = {} THEN 0 ELSE 1
<1>1. CASE S = {}
  BY <1>1, FS_EmptySet
<1>2. CASE S # {}
  <2>1. PICK x : x \in S
    BY <1>2
  <2>2. S = {x}
    BY <2>1
  <2> QED BY <1>2, <2>2, FS_Singleton
<1> QED BY <1>1, <1>2

\* An accepted job is in exactly one place, is answered once, and Done is its
\* last event (engine.rs: admission, the slots, finish_slot).
THEOREM JobsHaveOnePlace == Spec => []OnePlace
<1>1. ASSUME IInv, JInv PROVE OnePlace
  <2> SUFFICES ASSUME NEW r \in Request
               PROVE  /\ Places(r) = IF status[r] = "accepted" THEN 1 ELSE 0
                      /\ \A k \in DOMAIN events[r] : IsDone(events[r][k]) => k = Len(events[r])
    BY DEF OnePlace
  <2> DEFINE Q == {k \in DOMAIN queue : queue[k] = r}
             S == {i \in DOMAIN slots : slots[i].job = r}
             D == {k \in DOMAIN events[r] : IsDone(events[r][k])}
             A == pc \in {"prefill", "build"} /\ cur.job = r
  <2>1. \A k \in DOMAIN events[r] : IsDone(events[r][k]) => k = Len(events[r])
    BY <1>1 DEF JInv, EventsInv, EventsOK
  <2>2. /\ \A x, y \in Q : x = y
        /\ \A x, y \in S : x = y
        /\ \A x, y \in D : x = y
    BY <1>1, <2>1 DEF JInv, JobsInv
  <2>3. /\ IsQueued(queue, r) <=> Q # {}
        /\ IsAdmitted(pc, cur, r) <=> A
        /\ IsDecoded(slots, r) <=> S # {}
        /\ HeardDone(events[r]) <=> D # {}
    BY DEF IsQueued, IsAdmitted, IsDecoded, HeardDone
  <2>4. /\ status[r] = "accepted" <=> Q # {} \/ A \/ S # {} \/ D # {}
        /\ Q # {} => ~A /\ S = {} /\ D = {}
        /\ A => S = {} /\ D = {}
        /\ S # {} => D = {}
    BY <1>1, <2>3 DEF JInv, JobsInv
  <2>5. Places(r) = Cardinality(Q) + (IF A THEN 1 ELSE 0) + Cardinality(S) + Cardinality(D)
    BY DEF Places
  <2> HIDE DEF Q, S, D, A
  <2>6. /\ Cardinality(Q) = IF Q = {} THEN 0 ELSE 1
        /\ Cardinality(S) = IF S = {} THEN 0 ELSE 1
        /\ Cardinality(D) = IF D = {} THEN 0 ELSE 1
    BY <2>2, AtMostOne
  <2> QED BY <2>1, <2>4, <2>5, <2>6
<1> QED BY <1>1, Invariance, JobInvariance, PTL

\* The finish reason and the count of every answer are true (engine.rs, the
\* retire loop, the context check and finish_slot).
THEOREM FinishIsHonest == Spec => []FinishHonest
<1>1. JInv => FinishHonest
  BY DEF JInv, EventsInv, EventsOK, Honest, FinishHonest
<1> QED BY <1>1, JobInvariance, PTL

\* engine::run returns only when every accepted job was answered.
THEOREM ReturnsDrained == Spec => []DrainedOnReturn
<1>1. JInv => DrainedOnReturn
  <2> SUFFICES ASSUME JInv, pc = "returned", NEW r \in Request, status[r] = "accepted"
               PROVE  Finished(r)
    BY DEF DrainedOnReturn
  <2>1. DOMAIN queue = {} /\ DOMAIN slots = {}
    BY EmptySeq DEF JInv, ReturnInv
  <2>2. ~IsQueued(queue, r) /\ ~IsAdmitted(pc, cur, r) /\ ~IsDecoded(slots, r)
    BY <2>1 DEF IsQueued, IsAdmitted, IsDecoded
  <2>3. HeardDone(events[r])
    BY <2>2 DEF JInv, JobsInv
  <2> QED BY <2>3 DEF HeardDone, Finished
<1> QED BY <1>1, JobInvariance, PTL

-----------------------------------------------------------------------------
(* The scheduler implements Completions *)

\* Completions, an instance, has copies of the operators it shares with the
\* scheduler: they are the same.
LEMMA SameFullPrefill == \A t : Answers!FullPrefill(t) = FullPrefill(t)
  BY DEF Answers!FullPrefill, FullPrefill, Answers!PrefillArith, PrefillArith,
         Answers!ChunkStart, ChunkStart, Answers!Arith, Arith, Answers!MinOf, MinOf
LEMMA SameAlone == ASSUME NEW r, NEW ids PROVE Answers!Alone(r, ids) = Alone(r, ids)
  BY SameFullPrefill DEF Answers!Alone, Alone, Answers!LoneRun, LoneRun, Answers!Arith, Arith
LEMMA SameArgmax == ASSUME NEW h PROVE Answers!Argmax(h) = Argmax(h)
  BY DEF Answers!Argmax, Argmax
LEMMA SameDecode == ASSUME NEW ids PROVE Answers!Decode(ids) = Decode(ids)
  BY DEF Answers!Decode, Decode, Answers!Lossy, Lossy, Bytes, Answers!Bytes,
         FlattenSeq, Answers!FlattenSeq
LEMMA SameStopCuts ==
  ASSUME NEW t, NEW stops PROVE Answers!StopCuts(t, stops) = StopCuts(t, stops)
  BY DEF Answers!StopCuts, StopCuts

\* One step of an answer, in the scheduler's own operators.
LEMMA AdvanceIs ==
  ASSUME NEW r, NEW out
  PROVE  LET tok  == Argmax(Alone(r, out))
             out2 == Append(out, tok)
         IN  Answers!Advance(r, out) =
               IF out # <<>> /\ Len(Prompt[r]) + Len(out) >= Ctx - 1
               THEN Answers!Done("length", Len(out))
               ELSE IF tok \in Eos THEN Answers!Done("stop", Len(out))
               ELSE IF Len(out) >= MaxTokens[r] THEN Answers!Done("length", Len(out))
               ELSE IF StopCuts(Decode(out2), Stops[r]) # {}
               THEN Answers!Done("stop", Len(out2))
               ELSE Answers!Running(out2)
<1>1. Answers!Argmax(Answers!Alone(r, out)) = Argmax(Alone(r, out))
  BY SameAlone, SameArgmax
<1>2. \A t : Answers!StopCuts(Answers!Decode(t), Stops[r]) = StopCuts(Decode(t), Stops[r])
  BY SameDecode, SameStopCuts
<1> QED BY <1>1, <1>2 DEF Answers!Advance

\* The answer to r as the slots s and the events evs of r show it.
AnswerIn(s, evs, r) ==
  IF HeardDone(evs)
  THEN LET e == CHOOSE x \in {evs[k] : k \in DOMAIN evs} : IsDone(x)
       IN  Answers!Done(e.finish, e.completion)
  ELSE IF IsDecoded(s, r)
  THEN Answers!Running(s[CHOOSE i \in DOMAIN s : s[i].job = r].out_ids)
  ELSE Answers!Waiting

LEMMA AnswerIs ==
  /\ \A r : AnswerOf(r) = AnswerIn(slots, events[r], r)
  /\ \A r : AnswerOf(r)' = AnswerIn(slots', events'[r], r)
  BY DEF AnswerOf, AnswerIn, Finished, DoneOf, HeardDone, IsDecoded,
         Answers!Done, Answers!Running, Answers!Waiting

LEMMA AnswerDone ==
  ASSUME NEW s, NEW evs, NEW r, NEW d, Ends(evs, d)
  PROVE  AnswerIn(s, evs, r) = Answers!Done(d.finish, d.completion)
<1>1. HeardDone(evs) /\ (CHOOSE e \in {evs[k] : k \in DOMAIN evs} : IsDone(e)) = d
  BY DoneOfEnds DEF HeardDone
<1> QED BY <1>1 DEF AnswerIn

LEMMA AnswerRunning ==
  ASSUME NEW s, NEW evs, NEW i \in DOMAIN s, ~HeardDone(evs),
         \A j, k \in DOMAIN s : s[j].job = s[k].job => j = k
  PROVE  AnswerIn(s, evs, s[i].job) = Answers!Running(s[i].out_ids)
<1>1. (CHOOSE j \in DOMAIN s : s[j].job = s[i].job) = i
  OBVIOUS
<1>2. IsDecoded(s, s[i].job)
  BY DEF IsDecoded
<1> QED BY <1>1, <1>2 DEF AnswerIn

LEMMA AnswerWaiting ==
  ASSUME NEW s, NEW evs, NEW r, ~HeardDone(evs), ~IsDecoded(s, r)
  PROVE  AnswerIn(s, evs, r) = Answers!Waiting
  BY DEF AnswerIn

\* Every slot's job is running; a job in no slot is not.
LEMMA AnswersNow ==
  ASSUME IInv, JInv
  PROVE  /\ \A i \in DOMAIN slots :
              /\ slots[i].job \in Request
              /\ AnswerIn(slots, events[slots[i].job], slots[i].job) =
                   Answers!Running(slots[i].out_ids)
         /\ \A i, j \in DOMAIN slots : slots[i].job = slots[j].job => i = j
<1>1. ASSUME NEW i \in DOMAIN slots
      PROVE  slots[i].job \in Request /\ ~HeardDone(events[slots[i].job])
  BY DEF IInv, TypeOK, IsSlot, JInv, JobsInv, IsDecoded
<1>2. \A i, j \in DOMAIN slots : slots[i].job = slots[j].job => i = j
  BY DEF JInv, JobsInv
<1> QED BY <1>1, <1>2, AnswerRunning

answers == [r \in Request |-> AnswerOf(r)]

\* A job that takes its slot starts to be answered.
LEMMA InstallStarts ==
  ASSUME IInv, JInv, JInv', pc \in {"prefill", "build"}, Install, UNCHANGED events
  PROVE  Answers!Next
<1> DEFINE r == cur.job
           n == Slot(r, <<>>, <<>>, 0, Len(Prompt[r]), cur.first)
<1>1. /\ slots' = [i \in DOMAIN slots \cup {cur.slot} |-> IF i = cur.slot THEN n ELSE slots[i]]
      /\ n.job = r /\ n.out_ids = <<>> /\ cur.slot \notin DOMAIN slots /\ r \in Request
  BY DEF Install, IInv, TypeOK, Slot
<1>2. ~IsDecoded(slots, r) /\ ~HeardDone(events[r])
  BY <1>1 DEF JInv, JobsInv, IsAdmitted
<1>3. AnswerIn(slots, events[r], r) = Answers!Waiting
  BY <1>2, AnswerWaiting
<1>4. /\ cur.slot \in DOMAIN slots' /\ slots'[cur.slot].job = r
      /\ slots'[cur.slot].out_ids = <<>>
      /\ \A j, k \in DOMAIN slots' : slots'[j].job = slots'[k].job => j = k
  <2> HIDE DEF n
  <2> QED BY <1>1 DEF JInv, JobsInv
<1>5. AnswerIn(slots', events'[r], r) = Answers!Running(<<>>)
  <2>1. ~HeardDone(events'[r])
    BY <1>2
  <2> QED BY <2>1, <1>4, AnswerRunning
<1>6. ASSUME NEW q \in Request, q # r
      PROVE  AnswerIn(slots', events'[q], q) = AnswerIn(slots, events[q], q)
  <2> HIDE DEF n
  <2>1. CASE HeardDone(events[q])
    BY <2>1 DEF AnswerIn
  <2>2. CASE ~HeardDone(events[q]) /\ ~IsDecoded(slots, q)
    <3>1. ~IsDecoded(slots', q)
      BY <2>2, <1>1, <1>6 DEF IsDecoded
    <3> QED BY <2>2, <3>1, AnswerWaiting
  <2>3. CASE ~HeardDone(events[q]) /\ IsDecoded(slots, q)
    <3>1. PICK i \in DOMAIN slots : slots[i].job = q
      BY <2>3 DEF IsDecoded
    <3>2. i \in DOMAIN slots' /\ slots'[i] = slots[i]
      BY <3>1, <1>1
    <3>3. \A j, k \in DOMAIN slots : slots[j].job = slots[k].job => j = k
      BY DEF JInv, JobsInv
    <3>4. AnswerIn(slots, events[q], q) = Answers!Running(slots[i].out_ids)
      BY <2>3, <3>1, <3>3, AnswerRunning
    <3>5. AnswerIn(slots', events'[q], q) = Answers!Running(slots'[i].out_ids)
      BY <2>3, <3>1, <3>2, <1>4, AnswerRunning
    <3> QED BY <3>2, <3>4, <3>5
  <2> QED BY <2>1, <2>2, <2>3
<1> HIDE DEF n, r
<1>7. /\ \A q \in {r} : answers[q].st = "waiting"
      /\ answers' = [q \in Request |-> IF q \in {r} THEN Answers!Running(<<>>) ELSE answers[q]]
  <2>1. answers[r].st = "waiting"
    <3>1. answers[r] = AnswerIn(slots, events[r], r)
      BY <1>1, AnswerIs DEF answers
    <3>2. answers[r] = Answers!Waiting
      BY <3>1, <1>3
    <3>3. Answers!Waiting.st = "waiting"
      BY DEF Answers!Waiting
    <3> QED BY <3>2, <3>3
  <2>2. answers' = [q \in Request |-> AnswerIn(slots', events'[q], q)]
    BY AnswerIs DEF answers
  <2>3. \A q \in Request : answers[q] = AnswerIn(slots, events[q], q)
    BY AnswerIs DEF answers
  <2> QED BY <2>1, <2>2, <2>3, <1>1, <1>5, <1>6
<1>8. Answers!Start({r})
  BY <1>7 DEF Answers!Start, answers
<1> QED BY <1>1, <1>8 DEF Answers!Next

\* What the emit loop makes of a slot is one step of its answer.
LEMMA EmitAdvances ==
  ASSUME NEW s, NEW c, SlotOK(s, c, FALSE), s.out_ids = <<>> \/ s.pos < Ctx - 1
  PROVE  Answers!Advance(s.job, s.out_ids) =
           IF Outcome(s).leaves
           THEN Answers!Done(EmitEnd(s).finish, EmitEnd(s).completion)
           ELSE Answers!Running(Outcome(s).slot.out_ids)
<1> DEFINE out2 == Append(s.out_ids, s.tok)
           hit == StopCuts(Decode(out2), Stops[s.job]) # {}
<1>1. /\ IsSlot(s) /\ s.tok = Argmax(Alone(s.job, s.out_ids))
      /\ s.pos = Len(Prompt[s.job]) + Len(s.out_ids)
      /\ s.pos \in Nat
  BY DEF SlotOK, IsSlot
<1>2. ~(s.out_ids # <<>> /\ Len(Prompt[s.job]) + Len(s.out_ids) >= Ctx - 1)
  <2>1. CASE s.out_ids = <<>>
    BY <2>1
  <2>2. CASE s.pos < Ctx - 1
    <3> DEFINE p == s.pos
    <3>1. p \in Nat /\ p < Ctx - 1 /\ Ctx \in Nat
      BY <2>2, <1>1, ChunkFacts
    <3> HIDE DEF p
    <3>2. ~(p >= Ctx - 1)
      BY <3>1
    <3> QED BY <3>2, <1>1 DEF p
  <2> QED BY <2>1, <2>2
<1>3. Answers!Advance(s.job, s.out_ids) =
        IF s.tok \in Eos THEN Answers!Done("stop", Len(s.out_ids))
        ELSE IF Len(s.out_ids) >= MaxTokens[s.job] THEN Answers!Done("length", Len(s.out_ids))
        ELSE IF hit THEN Answers!Done("stop", Len(out2))
        ELSE Answers!Running(out2)
  BY <1>1, <1>2, AdvanceIs
<1>4. \A f, o : /\ DoneEvent(f, s.job, o).finish = f
                /\ DoneEvent(f, s.job, o).completion = Len(o)
  BY DEF DoneEvent
<1> HIDE DEF hit, out2
<1>5. CASE s.tok \in Eos
  <2>1. Outcome(s).leaves
    BY <1>1, <1>5, OutcomeCases
  <2> QED BY <2>1, <1>3, <1>4, <1>5 DEF EmitEnd
<1>6. CASE s.tok \notin Eos /\ Len(s.out_ids) >= MaxTokens[s.job]
  <2>1. Outcome(s).leaves
    BY <1>1, <1>6, OutcomeCases
  <2> QED BY <2>1, <1>3, <1>4, <1>6 DEF EmitEnd
<1>7. CASE s.tok \notin Eos /\ ~(Len(s.out_ids) >= MaxTokens[s.job]) /\ hit
  <2>1. Outcome(s).leaves
    BY <1>1, <1>7, OutcomeCases DEF hit, out2
  <2> QED BY <2>1, <1>3, <1>4, <1>7 DEF EmitEnd, out2
<1>8. CASE s.tok \notin Eos /\ ~(Len(s.out_ids) >= MaxTokens[s.job]) /\ ~hit
  <2>1. ~Outcome(s).leaves /\ Outcome(s).slot.out_ids = out2
    BY <1>1, <1>8, OutcomeCases DEF hit, out2
  <2> QED BY <2>1, <1>3, <1>8
<1> QED BY <1>5, <1>6, <1>7, <1>8

\* Some slots' jobs advance, every other answer stays.
LEMMA Growing ==
  ASSUME IInv, JInv, NEW moved \in SUBSET DOMAIN slots,
         \A i \in moved : AnswerIn(slots', events'[slots[i].job], slots[i].job) =
                            Answers!Advance(slots[i].job, slots[i].out_ids),
         \A r \in Request : (\A i \in moved : slots[i].job # r) =>
            AnswerIn(slots', events'[r], r) = AnswerIn(slots, events[r], r)
  PROVE  Answers!Next
<1> DEFINE R == {slots[i].job : i \in moved}
<1>1. /\ \A i \in DOMAIN slots :
           /\ slots[i].job \in Request
           /\ AnswerIn(slots, events[slots[i].job], slots[i].job) =
                Answers!Running(slots[i].out_ids)
      /\ R \in SUBSET Request
  <2>1. \A i \in DOMAIN slots :
          /\ slots[i].job \in Request
          /\ AnswerIn(slots, events[slots[i].job], slots[i].job) =
               Answers!Running(slots[i].out_ids)
    BY AnswersNow
  <2> QED BY <2>1
<1>2. \A o : Answers!Running(o).st = "running" /\ Answers!Running(o).out = o
  BY DEF Answers!Running
<1>3. /\ \A r \in Request : answers[r] = AnswerIn(slots, events[r], r)
      /\ answers' = [r \in Request |-> AnswerIn(slots', events'[r], r)]
  BY AnswerIs DEF answers
<1>4. ASSUME NEW r \in R
      PROVE  /\ answers[r].st = "running"
             /\ AnswerIn(slots', events'[r], r) = Answers!Advance(r, answers[r].out)
  <2>1. PICK i \in moved : slots[i].job = r
    OBVIOUS
  <2>2. answers[r] = Answers!Running(slots[i].out_ids)
    BY <1>1, <1>3, <2>1
  <2>3. answers[r].st = "running" /\ answers[r].out = slots[i].out_ids
    BY <1>2, <2>2
  <2> QED BY <2>1, <2>3
<1>5. ASSUME NEW r \in Request, r \notin R
      PROVE  AnswerIn(slots', events'[r], r) = answers[r]
  BY <1>3, <1>5
<1> HIDE DEF R
<1>6. answers' = [r \in Request |->
                    IF r \in R THEN Answers!Advance(r, answers[r].out) ELSE answers[r]]
  <2> HIDE DEF answers
  <2> QED BY <1>3, <1>4, <1>5
<1>7. Answers!Grow(R)
  BY <1>4, <1>6 DEF Answers!Grow, answers
<1> QED BY <1>1, <1>7 DEF Answers!Next

\* A job in no slot is not answered by a step of the slots.
LEMMA Bystander ==
  ASSUME IInv, JInv, JInv', NEW r \in Request, ~IsDecoded(slots, r), ~IsDecoded(slots', r),
         events'[r] = events[r]
  PROVE  AnswerIn(slots', events'[r], r) = AnswerIn(slots, events[r], r)
  BY DEF AnswerIn

LEMMA EmitGrows == ASSUME IInv, JInv, Emit PROVE Answers!Next
<1> DEFINE gone == {i \in DOMAIN slots : Outcome(slots[i]).leaves}
<1>1. /\ TypeOK /\ pc = "emit" /\ JobsInv
      /\ \A i \in DOMAIN slots : SlotOK(slots[i], caches[i], FALSE)
      /\ \A i \in DOMAIN slots : slots[i].out_ids = <<>> \/ slots[i].pos < Ctx - 1
      /\ \A i, j \in DOMAIN slots : slots[i].job = slots[j].job => i = j
  BY DEF IInv, JInv, JobsInv, RoomInv, Emit
<1>2. /\ slots' = [i \in DOMAIN slots \ gone |-> Outcome(slots[i]).slot]
      /\ Send([i \in DOMAIN slots |-> [j \in DOMAIN slots |-> Outcome(slots[j])][i].sends])
  BY DEF Emit, Keep
<1>3. /\ JInv' /\ \A i \in gone : Ends(events'[slots[i].job], EmitEnd(slots[i]))
  BY EmitJInv
<1>4. ASSUME NEW i \in DOMAIN slots \ gone
      PROVE  Outcome(slots[i]).slot.job = slots[i].job
  <2>1. ~Outcome(slots[i]).leaves /\ IsSlot(slots[i])
    BY <1>1 DEF SlotOK
  <2> QED BY <2>1, OutcomeCases
<1>5. ASSUME NEW i \in DOMAIN slots
      PROVE  AnswerIn(slots', events'[slots[i].job], slots[i].job) =
               Answers!Advance(slots[i].job, slots[i].out_ids)
  <2>1. Answers!Advance(slots[i].job, slots[i].out_ids) =
          IF Outcome(slots[i]).leaves
          THEN Answers!Done(EmitEnd(slots[i]).finish, EmitEnd(slots[i]).completion)
          ELSE Answers!Running(Outcome(slots[i]).slot.out_ids)
    BY <1>1, EmitAdvances
  <2>2. CASE i \in gone
    BY <2>1, <2>2, <1>3, AnswerDone
  <2>3. CASE i \notin gone
    <3>1. /\ i \in DOMAIN slots' /\ slots'[i].job = slots[i].job
          /\ slots'[i].out_ids = Outcome(slots[i]).slot.out_ids
      BY <2>3, <1>2, <1>4
    <3>2. /\ \A j, k \in DOMAIN slots' : slots'[j].job = slots'[k].job => j = k
      BY <1>3 DEF JInv, JobsInv
    <3>3. ~HeardDone(events'[slots[i].job])
      <4>1. slots[i].job \in Request
        BY <1>1 DEF TypeOK, IsSlot
      <4>2. IsDecoded(slots', slots[i].job)
        BY <3>1 DEF IsDecoded
      <4> QED BY <4>1, <4>2, <1>3 DEF JInv, JobsInv
    <3>4. AnswerIn(slots', events'[slots[i].job], slots'[i].job)
            = Answers!Running(slots'[i].out_ids)
      BY <3>1, <3>2, <3>3, AnswerRunning
    <3> QED BY <2>1, <2>3, <3>1, <3>4
  <2> QED BY <2>2, <2>3
<1> HIDE DEF gone
<1>6. ASSUME NEW r \in Request, \A i \in DOMAIN slots : slots[i].job # r
      PROVE  AnswerIn(slots', events'[r], r) = AnswerIn(slots, events[r], r)
  <2>1. ~IsDecoded(slots, r) /\ ~IsDecoded(slots', r)
    BY <1>2, <1>4, <1>6 DEF IsDecoded
  <2>2. events'[r] = events[r]
    BY <1>1, <1>2, <2>1, Heard
  <2> QED BY <2>1, <2>2, <1>3, Bystander
<1> QED BY <1>5, <1>6, Growing

LEMMA StepGrows == ASSUME IInv, JInv, Step PROVE Answers!Next
<1>1. PICK gone \in SUBSET DOMAIN slots :
        /\ DOMAIN slots' = DOMAIN slots \ gone
        /\ \A i \in DOMAIN slots' : /\ slots'[i].job = slots[i].job
                                    /\ slots'[i].out_ids = slots[i].out_ids
        /\ \A i \in gone : /\ slots[i].pos + 1 >= Ctx - 1
                           /\ Ends(events'[slots[i].job],
                                   DoneEvent("length", slots[i].job, slots[i].out_ids))
  BY StepJInv
<1>2. /\ TypeOK /\ JobsInv /\ JInv' /\ pc = "forward"
      /\ \A i \in DOMAIN slots : SlotOK(slots[i], caches[i], TRUE)
      /\ \A i, j \in DOMAIN slots : slots[i].job = slots[j].job => i = j
      /\ \A i, j \in DOMAIN slots' : slots'[i].job = slots'[j].job => i = j
  BY StepJInv DEF IInv, JInv, JobsInv, Step
<1>3. PICK sends : Send(sends)
  BY DEF Step
<1>4. ASSUME NEW i \in gone
      PROVE  AnswerIn(slots', events'[slots[i].job], slots[i].job) =
               Answers!Advance(slots[i].job, slots[i].out_ids)
  <2> DEFINE r == slots[i].job  out == slots[i].out_ids
  <2>1. out # <<>> /\ Len(Prompt[r]) + Len(out) >= Ctx - 1
    <3>1. /\ out # <<>> /\ slots[i].pos = Len(Prompt[r]) + Len(out) - 1
          /\ slots[i].pos + 1 >= Ctx - 1 /\ r \in Request /\ out \in Seq(Token)
      BY <1>1, <1>2 DEF SlotOK, IsSlot
    <3>2. Len(Prompt[r]) \in Nat /\ Len(out) \in Nat /\ Ctx \in Nat
      BY <3>1, PromptFacts, ChunkFacts, LenProperties
    <3> DEFINE p == slots[i].pos  L == Len(Prompt[r])  N == Len(out)
    <3>3. p = L + N - 1 /\ p + 1 >= Ctx - 1 /\ L \in Nat /\ N \in Nat /\ Ctx \in Nat
      BY <3>1, <3>2
    <3> HIDE DEF p, L, N
    <3>4. L + N >= Ctx - 1
      BY <3>3
    <3> QED BY <3>1, <3>4 DEF L, N
  <2>2. Answers!Advance(r, out) = Answers!Done("length", Len(out))
    <3> HIDE DEF r, out
    <3> QED BY <2>1, AdvanceIs
  <2>3. /\ DoneEvent("length", r, out).finish = "length"
        /\ DoneEvent("length", r, out).completion = Len(out)
    BY DEF DoneEvent
  <2>4. AnswerIn(slots', events'[r], r) =
          Answers!Done(DoneEvent("length", r, out).finish, DoneEvent("length", r, out).completion)
    BY <1>1, AnswerDone
  <2> QED BY <2>2, <2>3, <2>4
<1>5. ASSUME NEW r \in Request, \A i \in gone : slots[i].job # r
      PROVE  AnswerIn(slots', events'[r], r) = AnswerIn(slots, events[r], r)
  <2>1. CASE IsDecoded(slots, r)
    <3>1. PICK i \in DOMAIN slots : slots[i].job = r
      BY <2>1 DEF IsDecoded
    <3>2. i \in DOMAIN slots' /\ slots'[i].job = r /\ slots'[i].out_ids = slots[i].out_ids
      BY <3>1, <1>1, <1>5
    <3>3. AnswerIn(slots, events[r], r) = Answers!Running(slots[i].out_ids)
      <4>1. AnswerIn(slots, events[slots[i].job], slots[i].job) =
              Answers!Running(slots[i].out_ids)
        BY AnswersNow
      <4> QED BY <3>1, <4>1
    <3>4. ~HeardDone(events'[r])
      <4>1. IsDecoded(slots', r)
        BY <3>2 DEF IsDecoded
      <4> QED BY <4>1, <1>2 DEF JInv, JobsInv
    <3>5. AnswerIn(slots', events'[r], slots'[i].job) = Answers!Running(slots'[i].out_ids)
      BY <3>2, <3>4, <1>2, AnswerRunning
    <3> QED BY <3>2, <3>3, <3>5
  <2>2. CASE ~IsDecoded(slots, r)
    <3>1. ~IsDecoded(slots', r)
      BY <2>2, <1>1 DEF IsDecoded
    <3>2. events'[r] = events[r]
      BY <2>2, <1>2, <1>3, Heard
    <3> QED BY <2>2, <3>1, <3>2, <1>2, Bystander
  <2> QED BY <2>1, <2>2
<1> QED BY <1>4, <1>5, Growing

\* The answers start out waiting.
LEMMA InitAnswers == Init => Answers!Init
<1> SUFFICES ASSUME Init PROVE Answers!Init
  OBVIOUS
<1>1. ASSUME NEW r \in Request PROVE AnswerIn(slots, events[r], r) = Answers!Waiting
  <2>1. DOMAIN events[r] = {} /\ DOMAIN slots = {}
    BY Singles DEF Init
  <2>2. ~HeardDone(events[r]) /\ ~IsDecoded(slots, r)
    BY <2>1 DEF HeardDone, IsDecoded
  <2> QED BY <2>2, AnswerWaiting
<1>2. answers = [r \in Request |-> Answers!Waiting]
  BY <1>1, AnswerIs DEF answers
<1> QED BY <1>2 DEF Answers!Init, answers

LEMMA NextAnswers ==
  ASSUME IInv, JInv, [Next]_vars PROVE Answers!Next \/ UNCHANGED answers
<1>1. ASSUME UNCHANGED <<slots, events>> PROVE UNCHANGED answers
  <2>1. \A r : AnswerIn(slots', events'[r], r) = AnswerIn(slots, events[r], r)
    BY <1>1
  <2> QED BY <2>1, AnswerIs DEF answers
<1>2. JInv'
  BY NextJInv
<1>3. CASE AdmitDone
  BY <1>2, <1>3, InstallStarts DEF AdmitDone, Prefilled
<1>4. CASE BuildDone
  BY <1>2, <1>4, InstallStarts DEF BuildDone
<1>5. CASE Emit
  BY <1>5, EmitGrows
<1>6. CASE Step
  BY <1>6, StepGrows
<1>7. CASE UNCHANGED vars
  BY <1>1, <1>7 DEF vars
<1>8. ASSUME NEW r \in Request, Submit(r) \/ Reject(r) PROVE UNCHANGED answers
  BY <1>1, <1>8 DEF Submit, Reject, engine
<1>9. CASE Hangup \/ Recv \/ AdmitBreak \/ Return \/ PrefillChunk \/ StartBuild \/ BuildChunk
  BY <1>1, <1>9 DEF Hangup, engine, Recv, AdmitBreak, Return, PrefillChunk, StartBuild, BuildChunk
<1> QED BY <1>3, <1>4, <1>5, <1>6, <1>7, <1>8, <1>9 DEF Next, EngineNext

\* The scheduler implements Completions: every request is answered as if alone,
\* whatever is batched, admitted or shared (engine.rs).
THEOREM EngineIsCompletions == Spec => ImplementsCompletions
<1>1. Init => Answers!Init
  BY InitAnswers
<1>2. IInv /\ JInv /\ [Next]_vars => [Answers!Next]_answers
  BY NextAnswers
<1> QED BY <1>1, <1>2, Invariance, JobInvariance, PTL
        DEF Spec, ImplementsCompletions, Answers!Spec, answers

-----------------------------------------------------------------------------
(* Text: what decode and stable_len do to a run of tokens that grows. *)

Byte == UNION {ToSet(Piece[t]) : t \in Token}
Char == Byte \cup {Wide, Replacement}

\* FlattenSeq, one element after the other.
LEMMA Flattening ==
  ASSUME NEW S, NEW s \in Seq(Seq(S))
  PROVE  \E f \in [0 .. Len(s) -> Seq(S)] :
           /\ f[0] = <<>> /\ f[Len(s)] = FlattenSeq(s)
           /\ \A i \in 1 .. Len(s) : f[i] = f[i - 1] \o s[i]
<1> DEFINE n == Len(s)
           step == [i \in 1 .. n |-> [a \in Seq(S) |-> a \o s[i]]]
           flat == CHOOSE h : h = [i \in 1 .. n |-> IF i = 1 THEN s[i] ELSE h[i - 1] \o s[i]]
<1>1. n \in Nat /\ \A i \in 1 .. n : s[i] \in Seq(S)
  BY LenProperties, ElementOfSeq
<1>2. /\ <<>> \in Seq(S) /\ step \in [1 .. n -> [Seq(S) -> Seq(S)]]
      /\ \A i \in 1 .. n : \A a \in Seq(S) : step[i][a] = a \o s[i]
  <2>1. \A i \in 1 .. n : \A a \in Seq(S) : a \o s[i] \in Seq(S)
    BY <1>1, ConcatProperties
  <2> HIDE DEF n
  <2> QED BY <2>1, EmptySeq
<1> HIDE DEF step
<1>3. PICK f : Recursive(f, Seq(S), <<>>, n, step)
  <2> DEFINE R == Seq(S)
  <2>1. <<>> \in R /\ step \in [1 .. n -> [R -> R]]
    BY <1>2
  <2> HIDE DEF R, n
  <2>2. \E f : Recursive(f, R, <<>>, n, step)
    BY <1>1, <2>1, Recursion
  <2> QED BY <2>2 DEF R
<1>4. /\ f \in [0 .. n -> Seq(S)] /\ f[0] = <<>>
      /\ \A i \in 1 .. n : f[i] = f[i - 1] \o s[i]
  <2>1. \A i \in 1 .. n : i - 1 \in 0 .. n
    BY <1>1
  <2>2. f \in [0 .. n -> Seq(S)] /\ f[0] = <<>> /\ \A i \in 1 .. n : f[i] = step[i][f[i - 1]]
    BY <1>3 DEF Recursive
  <2> HIDE DEF n
  <2>3. \A i \in 1 .. n : f[i - 1] \in Seq(S)
    BY <2>1, <2>2
  <2> QED BY <1>2, <2>2, <2>3
<1>6. 1 \in 1 .. n => f[1] = s[1]
  <2>1. ASSUME 1 \in 1 .. n PROVE f[1] = <<>> \o s[1] /\ s[1] \in Seq(S)
    <3> HIDE DEF n
    <3> DEFINE k == 1
    <3>1. k \in 1 .. n /\ k - 1 = 0
      BY <2>1
    <3> HIDE DEF k
    <3>2. f[k] = f[k - 1] \o s[k] /\ s[k] \in Seq(S)
      BY <1>1, <1>4, <3>1
    <3> QED BY <1>4, <3>1, <3>2 DEF k
  <2> HIDE DEF n
  <2>2. ASSUME 1 \in 1 .. n PROVE <<>> \o s[1] = s[1]
    BY <2>1, <2>2, ConcatEmptySeq
  <2> QED BY <2>1, <2>2
<1>5. f[n] = FlattenSeq(s)
  <2>1. CASE n = 0
    <3>1. s = <<>>
      <4>1. \A q \in Seq(Seq(S)) : q # <<>> => Len(q) \in Nat \ {0}
        BY EmptySeq
      <4> QED BY <2>1, <4>1
    <3> QED BY <1>4, <2>1, <3>1 DEF FlattenSeq
  <2>2. CASE n # 0
    <3> DEFINE g == [i \in 1 .. n |-> f[i]]
    <3>1. g = [i \in 1 .. n |-> IF i = 1 THEN s[i] ELSE g[i - 1] \o s[i]]
      <4>1. ASSUME NEW i \in 1 .. n PROVE f[i] = IF i = 1 THEN s[i] ELSE g[i - 1] \o s[i]
        <5>1. CASE i = 1
          BY <1>6, <5>1
        <5>2. CASE i # 1
          <6>1. i - 1 \in 1 .. n
            BY <1>1, <5>2
          <6> QED BY <1>4, <5>2, <6>1
        <5> QED BY <5>1, <5>2
      <4> QED BY <4>1
    <3> HIDE DEF g
    <3>2. flat = [i \in 1 .. n |-> IF i = 1 THEN s[i] ELSE flat[i - 1] \o s[i]]
      BY <3>1, Zenon
    <3>3. FlattenSeq(s) = flat[n]
      BY <2>2, Zenon DEF FlattenSeq
    <3> HIDE DEF n
    <3> HIDE DEF flat
    <3> DEFINE T == {i \in 0 .. n : i = 0 \/ flat[i] = f[i]}
    <3>4. 0 \in T
      BY <1>1
    <3>5. ASSUME NEW i \in 1 .. n, i - 1 \in T PROVE i \in T
      <4>1. CASE i = 1
        <5>1. flat[1] = s[1]
          BY <3>2, <4>1
        <5>2. 1 \in 0 .. n /\ f[1] = s[1]
          BY <1>6, <4>1
        <5> QED BY <4>1, <5>1, <5>2
      <4>2. CASE i # 1
        <5>1. flat[i - 1] = f[i - 1] /\ i \in 0 .. n
          BY <3>5, <4>2
        <5>2. flat[i] = flat[i - 1] \o s[i]
          BY <3>2, <4>2
        <5>3. f[i] = f[i - 1] \o s[i]
          BY <1>4
        <5> QED BY <5>1, <5>2, <5>3
      <4> QED BY <4>1, <4>2
    <3> HIDE DEF T
    <3>6. \A i \in 0 .. n : i \in T
      BY <1>1, <3>4, <3>5, UpTo
    <3> QED BY <1>1, <2>2, <3>3, <3>6 DEF T
  <2> QED BY <2>1, <2>2
<1> QED BY <1>4, <1>5

\* Nothing, flattened.
LEMMA FlattenNothing == FlattenSeq(<<>>) = <<>>
  BY EmptySeq DEF FlattenSeq

\* One sequence more, flattened.
LEMMA FlattenAppend ==
  ASSUME NEW S, NEW s \in Seq(Seq(S)), NEW x \in Seq(S)
  PROVE  FlattenSeq(s) \in Seq(S) /\ FlattenSeq(Append(s, x)) = FlattenSeq(s) \o x
<1> DEFINE t == Append(s, x)  n == Len(s)
<1>1. /\ t \in Seq(Seq(S)) /\ n \in Nat /\ Len(t) = n + 1
      /\ \A i \in 1 .. n : t[i] = s[i]
      /\ t[n + 1] = x
  BY AppendProperties, LenProperties
<1>2. PICK f \in [0 .. n -> Seq(S)] :
        /\ f[0] = <<>> /\ f[n] = FlattenSeq(s)
        /\ \A i \in 1 .. n : f[i] = f[i - 1] \o s[i]
  BY Flattening
<1> HIDE DEF t
<1>3. PICK g \in [0 .. Len(t) -> Seq(S)] :
        /\ g[0] = <<>> /\ g[Len(t)] = FlattenSeq(t)
        /\ \A i \in 1 .. Len(t) : g[i] = g[i - 1] \o t[i]
  BY <1>1, Flattening
<1> HIDE DEF n
<1>4. \A i \in 0 .. n : g[i] = f[i]
  <2> DEFINE T == {i \in 0 .. n : g[i] = f[i]}
  <2>1. 0 \in T
    BY <1>1, <1>2, <1>3
  <2>2. ASSUME NEW i \in 1 .. n, i - 1 \in T PROVE i \in T
    <3>1. i \in 1 .. Len(t) /\ i \in 0 .. n
      BY <1>1
    <3>3. g[i - 1] = f[i - 1]
      BY <2>2
    <3>4. t[i] = s[i]
      BY <1>1
    <3> QED BY <1>2, <1>3, <3>1, <3>3, <3>4
  <2> HIDE DEF T
  <2>3. \A i \in 0 .. n : i \in T
    BY <1>1, <2>1, <2>2, UpTo
  <2> QED BY <2>3 DEF T
<1>5. g[n + 1] = g[n] \o x
  <2> DEFINE m == n + 1
  <2>1. m \in 1 .. Len(t) /\ m - 1 = n /\ t[m] = x
    BY <1>1
  <2> HIDE DEF m
  <2>2. g[m] = g[n] \o x
    BY <1>3, <2>1
  <2> QED BY <2>2 DEF m
<1>6. n \in 0 .. n
  BY <1>1
<1> QED BY <1>1, <1>2, <1>3, <1>4, <1>5, <1>6 DEF t

\* No tokens, no bytes.
LEMMA BytesNothing == Bytes(<<>>) = <<>>
<1>1. [k \in 1 .. Len(<<>>) |-> Piece[<<>>[k]]] = <<>>
  BY EmptySeq
<1> QED BY <1>1, FlattenNothing DEF Bytes

\* decode works on the bytes of all tokens: a token more adds its own.
LEMMA BytesAppend ==
  ASSUME NEW ids \in Seq(Token), NEW tok \in Token
  PROVE  /\ Bytes(ids) \in Seq(Byte) /\ Piece[tok] \in Seq(Byte)
         /\ Bytes(Append(ids, tok)) = Bytes(ids) \o Piece[tok]
<1> DEFINE more == Append(ids, tok)
           s == [k \in 1 .. Len(ids) |-> Piece[ids[k]]]
           t == [k \in 1 .. Len(more) |-> Piece[more[k]]]
<1>1. \A u \in Token : Piece[u] \in Seq(Byte)
  <2>1. ASSUME NEW u \in Token PROVE Piece[u] \in Seq(Byte)
    <3>1. Piece[u] \in Seq(ToSet(Piece[u])) /\ ToSet(Piece[u]) \subseteq Byte
      BY PieceAssumption DEF Byte
    <3> QED BY <3>1, SeqMonotonic
  <2> QED BY <2>1
<1>2. /\ Len(ids) \in Nat /\ Len(more) = Len(ids) + 1 /\ more[Len(ids) + 1] = tok
      /\ \A k \in 1 .. Len(ids) : more[k] = ids[k] /\ ids[k] \in Token
  BY AppendProperties, LenProperties, ElementOfSeq
<1> HIDE DEF more
<1>3. s \in Seq(Seq(Byte)) /\ Len(s) = Len(ids)
  <2> DEFINE n == Len(ids)  R == Seq(Byte)
  <2>1. \A k \in 1 .. n : Piece[ids[k]] \in R
    BY <1>1, <1>2
  <2>2. n \in Nat
    BY <1>2
  <2> HIDE DEF n, R
  <2>3. [k \in 1 .. n |-> Piece[ids[k]]] \in [1 .. n -> R]
    BY <2>1
  <2>4. /\ [k \in 1 .. n |-> Piece[ids[k]]] \in Seq(R)
        /\ Len([k \in 1 .. n |-> Piece[ids[k]]]) = n
    BY <2>2, <2>3
  <2> QED BY <2>4 DEF n, R
<1>4. t = Append(s, Piece[tok])
  <2> DEFINE p == Piece[tok]  n == Len(ids)
  <2>1. p \in Seq(Byte) /\ s \in Seq(Seq(Byte)) /\ Len(s) = n /\ n \in Nat
    BY <1>1, <1>2, <1>3
  <2>2. \A k \in 1 .. n : s[k] = Piece[ids[k]]
    OBVIOUS
  <2>3. DOMAIN t = 1 .. n + 1 /\ \A k \in 1 .. n + 1 : t[k] = Piece[more[k]]
    BY <1>2
  <2>4. t = [k \in 1 .. n + 1 |-> Piece[more[k]]]
    BY <1>2
  <2> HIDE DEF s, t
  <2>5. /\ Append(s, p) \in Seq(Seq(Byte)) /\ Len(Append(s, p)) = n + 1
        /\ \A k \in 1 .. n : Append(s, p)[k] = s[k]
        /\ Append(s, p)[n + 1] = p
    BY <2>1, AppendProperties
  <2>6. DOMAIN Append(s, p) = 1 .. n + 1 /\ Append(s, p) = [k \in 1 .. n + 1 |-> Append(s, p)[k]]
    BY <2>5, LenProperties
  <2> HIDE DEF p, n
  <2>7. \A k \in 1 .. n + 1 : Append(s, p)[k] = Piece[more[k]]
    BY <1>2, <2>1, <2>2, <2>5 DEF p, n
  <2> QED BY <2>4, <2>6, <2>7 DEF p
<1> HIDE DEF s, t
<1>5. FlattenSeq(s) \in Seq(Byte) /\ FlattenSeq(Append(s, Piece[tok])) = FlattenSeq(s) \o Piece[tok]
  BY <1>1, <1>3, FlattenAppend
<1>6. Bytes(ids) = FlattenSeq(s) /\ Bytes(more) = FlattenSeq(t)
  BY DEF Bytes, s, t
<1> QED BY <1>1, <1>4, <1>5, <1>6 DEF more

\* What an event says, and a run of events that say characters.
Said(e) == IF IsDone(e) THEN <<>> ELSE e.text
IsStream(evs) == IsList(evs) /\ \A k \in DOMAIN evs : Said(evs[k]) \in Seq(Char)

\* Nothing sent says nothing.
LEMMA NothingSaid == IsStream(<<>>) /\ TextOf(<<>>) = <<>>
<1>1. IsList(<<>>) /\ DOMAIN <<>> = {}
  BY Singles
<1>2. IsStream(<<>>)
  BY <1>1 DEF IsStream
<1>3. [k \in DOMAIN <<>> |-> IF IsDone(<<>>[k]) THEN <<>> ELSE <<>>[k].text] = <<>>
  <2> DEFINE c == [k \in {} |-> IF IsDone(<<>>[k]) THEN <<>> ELSE <<>>[k].text]
  <2>1. c \in [1 .. 0 -> {}]
    OBVIOUS
  <2> HIDE DEF c
  <2>2. c \in Seq({}) /\ Len(c) = 0
    BY <2>1
  <2>3. c = <<>>
    BY <2>2, EmptySeq
  <2> QED BY <1>1, <2>3 DEF c
<1> QED BY <1>2, <1>3, FlattenNothing DEF TextOf

\* One event more.
LEMMA SaidNext ==
  ASSUME NEW a, NEW e, IsStream(a), Said(e) \in Seq(Char)
  PROVE  /\ IsStream(a \o <<e>>) /\ TextOf(a) \in Seq(Char)
         /\ TextOf(a \o <<e>>) = TextOf(a) \o Said(e)
<1> DEFINE b == a \o <<e>>  n == Len(a)
           s == [k \in DOMAIN a |-> Said(a[k])]
           t == [k \in DOMAIN b |-> Said(b[k])]
<1>1. IsList(a) /\ IsList(<<e>>) /\ Len(<<e>>) = 1 /\ <<e>>[1] = e
  BY Singles DEF IsStream
<1>2. /\ IsList(b) /\ n \in Nat /\ DOMAIN b = 1 .. n + 1 /\ DOMAIN a = 1 .. n
      /\ (\A k \in 1 .. n : b[k] = a[k]) /\ b[n + 1] = e
  <2>1. /\ IsList(a \o <<e>>) /\ Len(a) \in Nat
        /\ DOMAIN (a \o <<e>>) = 1 .. Len(a) + Len(<<e>>) /\ DOMAIN a = 1 .. Len(a)
        /\ \A k \in 1 .. Len(a) : (a \o <<e>>)[k] = a[k]
        /\ \A k \in 1 .. Len(<<e>>) : (a \o <<e>>)[Len(a) + k] = <<e>>[k]
    BY <1>1, Glue
  <2> QED BY <1>1, <2>1
<1> HIDE DEF b, n
<1>3. IsStream(b)
  BY <1>2 DEF IsStream
<1>4. s \in Seq(Seq(Char)) /\ Len(s) = n
  <2> DEFINE R == Seq(Char)
  <2>1. \A k \in 1 .. n : Said(a[k]) \in R
    BY <1>2 DEF IsStream
  <2>2. s = [k \in 1 .. n |-> Said(a[k])]
    BY <1>2
  <2> HIDE DEF R, s
  <2>3. s \in [1 .. n -> R]
    BY <2>1, <2>2
  <2>4. s \in Seq(R) /\ Len(s) = n
    BY <1>2, <2>3
  <2> QED BY <2>4 DEF R
<1>5. t = Append(s, Said(e))
  <2> DEFINE p == Said(e)
  <2>1. \A k \in 1 .. n : s[k] = Said(a[k])
    BY <1>2
  <2>2. t = [k \in 1 .. n + 1 |-> Said(b[k])]
    BY <1>2
  <2> HIDE DEF s, t
  <2>3. /\ Append(s, p) \in Seq(Seq(Char)) /\ Len(Append(s, p)) = n + 1
        /\ \A k \in 1 .. n : Append(s, p)[k] = s[k]
        /\ Append(s, p)[n + 1] = p
    <3>1. p \in Seq(Char)
      OBVIOUS
    <3> HIDE DEF p
    <3> QED BY <1>4, <3>1, AppendProperties
  <2>4. DOMAIN Append(s, p) = 1 .. n + 1 /\ Append(s, p) = [k \in 1 .. n + 1 |-> Append(s, p)[k]]
    BY <2>3, LenProperties
  <2>5. \A k \in 1 .. n + 1 : Append(s, p)[k] = Said(b[k])
    <3> HIDE DEF p
    <3> QED BY <1>2, <2>1, <2>3 DEF p
  <2> QED BY <2>2, <2>4, <2>5 DEF p
<1>6. TextOf(a) = FlattenSeq(s) /\ TextOf(b) = FlattenSeq(t)
  BY DEF TextOf, Said
<1> HIDE DEF s, t
<1>7. FlattenSeq(s) \in Seq(Char) /\ FlattenSeq(Append(s, Said(e))) = FlattenSeq(s) \o Said(e)
  BY <1>4, FlattenAppend
<1> QED BY <1>3, <1>5, <1>6, <1>7 DEF b

\* Byte i of b ends a character of two bytes, and what it stands for otherwise.
Completes(b, i) == b[i] = Cont /\ i > 1 /\ b[i - 1] = Lead
CharAt(b, i) ==
  IF b[i] \notin {Lead, Cont} THEN b[i]
  ELSE IF b[i] = Lead /\ i < Len(b) /\ b[i + 1] = Cont THEN Wide
  ELSE Replacement
\* What Lossy has read after byte i, given what it had before it.
Read(b, i, t) == IF Completes(b, i) THEN t ELSE Append(t, CharAt(b, i))

\* A byte is read as a character.
LEMMA ReadType ==
  ASSUME NEW b \in Seq(Byte), NEW i \in 1 .. Len(b), NEW t \in Seq(Char)
  PROVE  Read(b, i, t) \in Seq(Char)
<1>1. b[i] \in Byte
  BY ElementOfSeq
<1>2. CharAt(b, i) \in Char
  BY <1>1 DEF CharAt, Char
<1>3. Append(t, CharAt(b, i)) \in Seq(Char)
  BY <1>2, AppendProperties
<1> QED BY <1>3 DEF Read

\* Lossy, one byte after the other.
LEMMA Reading ==
  ASSUME NEW b \in Seq(Byte)
  PROVE  \E f \in [0 .. Len(b) -> Seq(Char)] :
           /\ f[0] = <<>> /\ f[Len(b)] = Lossy(b)
           /\ \A i \in 1 .. Len(b) : f[i] = Read(b, i, f[i - 1])
<1> DEFINE n == Len(b)
           step == [i \in 1 .. n |-> [t \in Seq(Char) |-> Read(b, i, t)]]
           upTo == CHOOSE h : h = [i \in 0 .. n |->
                     IF i = 0 THEN <<>>
                     ELSE IF Completes(b, i) THEN h[i - 1] ELSE Append(h[i - 1], CharAt(b, i))]
<1>1. n \in Nat
  BY LenProperties
<1>2. /\ <<>> \in Seq(Char) /\ step \in [1 .. n -> [Seq(Char) -> Seq(Char)]]
      /\ \A i \in 1 .. n : \A t \in Seq(Char) : step[i][t] = Read(b, i, t)
  <2>1. \A i \in 1 .. n : \A t \in Seq(Char) : Read(b, i, t) \in Seq(Char)
    BY ReadType
  <2> HIDE DEF n
  <2> QED BY <2>1, EmptySeq
<1> HIDE DEF step
<1>3. PICK f : Recursive(f, Seq(Char), <<>>, n, step)
  <2> DEFINE R == Seq(Char)
  <2>1. <<>> \in R /\ step \in [1 .. n -> [R -> R]]
    BY <1>2
  <2> HIDE DEF R, n
  <2>2. \E f : Recursive(f, R, <<>>, n, step)
    BY <1>1, <2>1, Recursion
  <2> QED BY <2>2 DEF R
<1>4. /\ f \in [0 .. n -> Seq(Char)] /\ f[0] = <<>>
      /\ \A i \in 1 .. n : f[i] = Read(b, i, f[i - 1])
  <2>1. \A i \in 1 .. n : i - 1 \in 0 .. n
    BY <1>1
  <2>2. f \in [0 .. n -> Seq(Char)] /\ f[0] = <<>> /\ \A i \in 1 .. n : f[i] = step[i][f[i - 1]]
    BY <1>3 DEF Recursive
  <2> HIDE DEF n
  <2>3. \A i \in 1 .. n : f[i - 1] \in Seq(Char)
    BY <2>1, <2>2
  <2> QED BY <1>2, <2>2, <2>3
<1>5. Lossy(b) = upTo[n]
  BY Zenon DEF Lossy, Completes, CharAt
<1>6. upTo = [i \in 0 .. n |->
        IF i = 0 THEN <<>>
        ELSE IF Completes(b, i) THEN upTo[i - 1] ELSE Append(upTo[i - 1], CharAt(b, i))]
  <2> DEFINE Fix(h) == [i \in 0 .. n |->
               IF i = 0 THEN <<>>
               ELSE IF Completes(b, i) THEN h[i - 1] ELSE Append(h[i - 1], CharAt(b, i))]
  <2>1. f = Fix(f)
    <3> HIDE DEF n
    <3>1. \A i \in 0 .. n : f[i] = IF i = 0 THEN <<>> ELSE Read(b, i, f[i - 1])
      BY <1>1, <1>4
    <3>2. f = [i \in 0 .. n |-> f[i]]
      BY <1>4
    <3> QED BY <3>1, <3>2 DEF Read
  <2> HIDE DEF n
  <2> QED BY <2>1, Zenon
<1> HIDE DEF upTo, n
<1>7. upTo[0] = <<>> /\ \A i \in 1 .. n : upTo[i] = Read(b, i, upTo[i - 1])
  <2>1. 0 \in 0 .. n /\ \A i \in 1 .. n : i \in 0 .. n /\ i # 0
    BY <1>1
  <2>2. upTo[0] = <<>>
    BY <1>6, <2>1, Zenon
  <2>3. ASSUME NEW i \in 1 .. n PROVE upTo[i] = Read(b, i, upTo[i - 1])
    <3>1. upTo[i] = IF i = 0 THEN <<>>
                    ELSE IF Completes(b, i) THEN upTo[i - 1] ELSE Append(upTo[i - 1], CharAt(b, i))
      BY <1>6, <2>1, Zenon
    <3> QED BY <2>1, <3>1, Zenon DEF Read
  <2> QED BY <2>2, <2>3
<1>8. \A i \in 0 .. n : upTo[i] = f[i]
  <2> DEFINE T == {i \in 0 .. n : upTo[i] = f[i]}
  <2>1. 0 \in T
    BY <1>1, <1>4, <1>7
  <2>2. ASSUME NEW i \in 1 .. n, i - 1 \in T PROVE i \in T
    <3>1. i \in 0 .. n /\ upTo[i - 1] = f[i - 1]
      BY <1>1, <2>2
    <3> QED BY <1>4, <1>7, <3>1
  <2> HIDE DEF T
  <2>3. \A i \in 0 .. n : i \in T
    BY <1>1, <2>1, <2>2, UpTo
  <2> QED BY <2>3 DEF T
<1>9. f[n] = Lossy(b)
  BY <1>1, <1>5, <1>8
<1> QED BY <1>4, <1>9 DEF n

\* No bytes, no text.
LEMMA LossyNothing == Lossy(<<>>) = <<>>
<1> DEFINE b == <<>>
<1>1. b \in Seq(Byte) /\ Len(b) = 0
  BY EmptySeq
<1> HIDE DEF b
<1>2. PICK f \in [0 .. Len(b) -> Seq(Char)] :
        /\ f[0] = <<>> /\ f[Len(b)] = Lossy(b)
        /\ \A i \in 1 .. Len(b) : f[i] = Read(b, i, f[i - 1])
  BY <1>1, Reading
<1>3. Lossy(b) = <<>>
  BY <1>1, <1>2
<1> QED BY <1>3 DEF b

\* u goes on where t ended, but for a last character that was not whole.
GoesOn(t, u) ==
  /\ Len(t) <= Len(u)
  /\ \A k \in 1 .. Len(t) : u[k] = t[k] \/ (k = Len(t) /\ t[k] = Replacement)

\* A character more.
LEMMA GoesOnFurther ==
  ASSUME NEW t \in Seq(Char), NEW u \in Seq(Char), NEW ch \in Char, GoesOn(t, u)
  PROVE  GoesOn(t, Append(u, ch))
<1>1. /\ Len(t) \in Nat /\ Len(u) \in Nat /\ Len(Append(u, ch)) = Len(u) + 1
      /\ \A k \in 1 .. Len(u) : Append(u, ch)[k] = u[k]
  BY LenProperties, AppendProperties
<1> QED BY <1>1 DEF GoesOn

\* What more bytes do to the text.
LEMMA LossyGrows ==
  ASSUME NEW b \in Seq(Byte), NEW c \in Seq(Byte)
  PROVE  /\ Lossy(b) \in Seq(Char) /\ Lossy(b \o c) \in Seq(Char)
         /\ GoesOn(Lossy(b), Lossy(b \o c))
<1> DEFINE d == b \o c  n == Len(b)  m == Len(d)
<1>1. /\ d \in Seq(Byte) /\ n \in Nat /\ m \in Nat /\ n <= m
      /\ \A i \in 1 .. n : d[i] = b[i]
  BY LenProperties, ConcatProperties
<1> HIDE DEF d
<1>2. PICK f \in [0 .. n -> Seq(Char)] :
        /\ f[0] = <<>> /\ f[n] = Lossy(b)
        /\ \A i \in 1 .. n : f[i] = Read(b, i, f[i - 1])
  BY Reading
<1>3. PICK g \in [0 .. m -> Seq(Char)] :
        /\ g[0] = <<>> /\ g[m] = Lossy(d)
        /\ \A i \in 1 .. m : g[i] = Read(d, i, g[i - 1])
  BY <1>1, Reading
<1>4. \A i \in 1 .. n : Completes(d, i) <=> Completes(b, i)
  <2>1. ASSUME NEW i \in 1 .. n PROVE d[i] = b[i] /\ (i > 1 => d[i - 1] = b[i - 1])
    BY <1>1
  <2> HIDE DEF n
  <2> QED BY <2>1 DEF Completes
<1>5. \A i \in 1 .. n : CharAt(d, i) = CharAt(b, i) \/ (i = n /\ CharAt(b, i) = Replacement)
  <2>1. ASSUME NEW i \in 1 .. n, i < n PROVE CharAt(d, i) = CharAt(b, i)
    <3>1. d[i] = b[i] /\ d[i + 1] = b[i + 1] /\ i < Len(b) /\ i < Len(d)
      BY <1>1, <2>1
    <3> QED BY <3>1, Zenon DEF CharAt
  <2>2. ASSUME n \in 1 .. n PROVE CharAt(d, n) = CharAt(b, n) \/ CharAt(b, n) = Replacement
    <3>1. d[n] = b[n]
      BY <1>1, <2>2
    <3>2. CharAt(b, n) = IF b[n] \notin {Lead, Cont} THEN b[n] ELSE Replacement
      BY <1>1 DEF CharAt
    <3>3. CASE b[n] \notin {Lead, Cont}
      <4>1. CharAt(d, n) = d[n]
        BY <3>1, <3>3, Zenon DEF CharAt
      <4> HIDE DEF n
      <4> QED BY <3>1, <3>2, <3>3, <4>1
    <3> QED BY <3>2, <3>3
  <2> HIDE DEF n
  <2> QED BY <1>1, <2>1, <2>2
<1> HIDE DEF n, m
<1>6. \A i \in 0 .. n : i < n => g[i] = f[i]
  <2> DEFINE T == {i \in 0 .. n : i < n => g[i] = f[i]}
  <2>1. 0 \in T
    BY <1>1, <1>2, <1>3
  <2>2. ASSUME NEW i \in 1 .. n, i - 1 \in T PROVE i \in T
    <3>1. i \in 0 .. n /\ i \in 1 .. m /\ g[i - 1] = f[i - 1]
      BY <1>1, <2>2
    <3>2. i < n => (Completes(d, i) <=> Completes(b, i)) /\ CharAt(d, i) = CharAt(b, i)
      BY <1>1, <1>4, <1>5
    <3>3. i < n => Read(d, i, g[i - 1]) = Read(b, i, f[i - 1])
      BY <1>4, <3>1, <3>2 DEF Read
    <3> QED BY <1>2, <1>3, <3>1, <3>3
  <2> HIDE DEF T
  <2>3. \A i \in 0 .. n : i \in T
    BY <1>1, <2>1, <2>2, UpTo
  <2> QED BY <2>3 DEF T
<1>7. n \in 0 .. n /\ n \in 0 .. m /\ f[n] \in Seq(Char) /\ g[n] \in Seq(Char)
  BY <1>1, <1>2, <1>3
<1>8. GoesOn(f[n], g[n])
  <2>1. ASSUME f[n] = g[n] PROVE GoesOn(f[n], g[n])
    <3>1. Len(f[n]) \in Nat
      BY <1>7, LenProperties
    <3> QED BY <2>1, <3>1 DEF GoesOn
  <2>2. CASE n = 0
    BY <1>2, <1>3, <2>1, <2>2
  <2>3. CASE n # 0
    <3> DEFINE x == f[n - 1]
    <3>1. n \in 1 .. n /\ n \in 1 .. m /\ n - 1 \in 0 .. n /\ n - 1 < n
      BY <1>1, <2>3
    <3>2. g[n - 1] = x /\ x \in Seq(Char)
      BY <1>2, <1>6, <3>1
    <3>3. f[n] = Read(b, n, x) /\ g[n] = Read(d, n, x)
      BY <1>2, <1>3, <3>1, <3>2
    <3> HIDE DEF x
    <3>4. CASE Completes(b, n)
      BY <1>4, <2>1, <3>1, <3>3, <3>4 DEF Read
    <3>5. CASE ~Completes(b, n)
      <4> DEFINE p == CharAt(b, n)  q == CharAt(d, n)
      <4>1. f[n] = Append(x, p) /\ g[n] = Append(x, q)
        BY <1>4, <3>1, <3>3, <3>5 DEF Read
      <4>2. p = q \/ p = Replacement
        BY <1>5, <3>1
      <4> HIDE DEF p, q
      <4>3. \A e : /\ Len(x) \in Nat /\ Len(Append(x, e)) = Len(x) + 1
                   /\ (\A k \in 1 .. Len(x) : Append(x, e)[k] = x[k])
                   /\ Append(x, e)[Len(x) + 1] = e
        BY <3>2
      <4>4. GoesOn(Append(x, p), Append(x, q))
        BY <4>2, <4>3 DEF GoesOn
      <4> QED BY <4>1, <4>4
    <3> QED BY <3>4, <3>5
  <2> QED BY <2>2, <2>3
<1>9. \A k \in 0 .. m : n <= k => GoesOn(f[n], g[k])
  <2> DEFINE T == {k \in 0 .. m : n <= k => GoesOn(f[n], g[k])}
  <2>1. 0 \in T
    <3>1. n <= 0 => n = 0
      BY <1>1
    <3> QED BY <1>1, <1>8, <3>1
  <2>2. ASSUME NEW k \in 1 .. m, k - 1 \in T PROVE k \in T
    <3>1. SUFFICES ASSUME n <= k PROVE GoesOn(f[n], g[k])
      BY <1>1
    <3>2. CASE n = k
      BY <1>8, <3>2
    <3>3. CASE n # k
      <4> DEFINE u == g[k - 1]
      <4>1. GoesOn(f[n], u)
        BY <1>1, <2>2, <3>1, <3>3
      <4>2. u \in Seq(Char) /\ g[k] = Read(d, k, u)
        <5>1. k - 1 \in 0 .. m
          BY <1>1
        <5>2. g[k - 1] \in Seq(Char)
          BY <1>3, <5>1
        <5>3. g[k] = Read(d, k, g[k - 1])
          BY <1>3
        <5> QED BY <5>2, <5>3
      <4>3. CharAt(d, k) \in Char
        <5>1. d[k] \in Byte
          BY <1>1, ElementOfSeq DEF m
        <5> QED BY <5>1 DEF CharAt, Char
      <4> HIDE DEF u
      <4>4. GoesOn(f[n], Append(u, CharAt(d, k)))
        BY <1>7, <4>1, <4>2, <4>3, GoesOnFurther
      <4> QED BY <4>1, <4>2, <4>4 DEF Read
    <3> QED BY <3>2, <3>3
  <2> HIDE DEF T
  <2>3. \A k \in 0 .. m : k \in T
    BY <1>1, <2>1, <2>2, UpTo
  <2> QED BY <2>3 DEF T
<1>10. m \in 0 .. m /\ g[m] \in Seq(Char)
  BY <1>1, <1>3
<1> QED BY <1>1, <1>2, <1>3, <1>7, <1>9, <1>10 DEF d

\* The part of a text that can be sent ends with a whole character.
LEMMA StableIs ==
  ASSUME NEW t \in Seq(Char)
  PROVE  /\ Len(t) \in Nat /\ StableLen(t) \in 0 .. Len(t)
         /\ StableLen(t) > 0 => t[StableLen(t)] # Replacement
         /\ \A n \in 1 .. Len(t) : t[n] # Replacement => n <= StableLen(t)
<1> DEFINE m == Len(t)
           T == {0} \cup {n \in 1 .. m : t[n] # Replacement}
<1>1. m \in Nat
  BY LenProperties
<1>2. StableLen(t) = Max(T)
  BY DEF StableLen
<1> HIDE DEF m
<1>3. T \subseteq 0 .. m /\ T # {}
  BY <1>1
<1>4. \E x \in T : \A y \in T : x >= y
  BY <1>1, <1>3, Greatest
<1>5. Max(T) \in T /\ \A y \in T : Max(T) >= y
  BY <1>4 DEF Max
<1>6. \A n \in 1 .. m : t[n] # Replacement => n <= Max(T)
  BY <1>1, <1>5
<1>7. Max(T) \in 0 .. m /\ (Max(T) > 0 => t[Max(T)] # Replacement)
  BY <1>1, <1>5
<1> QED BY <1>1, <1>2, <1>6, <1>7 DEF m

\* What was sent stays as it is, and more of the text is sent.
LEMMA StableGrows ==
  ASSUME NEW t \in Seq(Char), NEW u \in Seq(Char), GoesOn(t, u)
  PROVE  /\ StableLen(t) <= StableLen(u)
         /\ SubSeq(u, 1, StableLen(t)) = SubSeq(t, 1, StableLen(t))
<1> DEFINE n == StableLen(t)
<1>1. /\ Len(t) \in Nat /\ n \in 0 .. Len(t) /\ (n > 0 => t[n] # Replacement)
      /\ Len(u) \in Nat /\ StableLen(u) \in 0 .. Len(u)
      /\ \A k \in 1 .. Len(u) : u[k] # Replacement => k <= StableLen(u)
  BY StableIs
<1> HIDE DEF n
<1>2. ASSUME NEW k \in 1 .. n PROVE u[k] = t[k]
  <2>1. k \in 1 .. Len(t)
    BY <1>1
  <2>2. ASSUME k = Len(t), t[k] = Replacement PROVE FALSE
    <3>1. k = n
      BY <1>1, <2>2
    <3> QED BY <1>1, <2>2, <3>1
  <2> QED BY <2>1, <2>2 DEF GoesOn
<1>3. n <= StableLen(u)
  <2>1. CASE n = 0
    BY <1>1, <2>1
  <2>2. CASE n # 0
    <3>1. n \in 1 .. n /\ n \in 1 .. Len(u) /\ t[n] # Replacement
      BY <1>1, <2>2 DEF GoesOn
    <3> QED BY <1>1, <1>2, <3>1
  <2> QED BY <2>1, <2>2
<1>4. SubSeq(u, 1, n) = SubSeq(t, 1, n)
  <2>1. n \in Nat /\ n <= Len(t) /\ n <= Len(u)
    BY <1>1 DEF GoesOn
  <2>2. (\A k \in 1 .. n : t[k] \in Char) /\ \A k \in 1 .. n : u[k] \in Char
    BY <2>1, ElementOfSeq
  <2>3. /\ SubSeq(t, 1, n) \in Seq(Char) /\ Len(SubSeq(t, 1, n)) = n
        /\ \A k \in 1 .. n : SubSeq(t, 1, n)[k] = t[k]
    BY <2>1, <2>2, SubSeqProperties
  <2>4. /\ SubSeq(u, 1, n) \in Seq(Char) /\ Len(SubSeq(u, 1, n)) = n
        /\ \A k \in 1 .. n : SubSeq(u, 1, n)[k] = u[k]
    BY <2>1, <2>2, SubSeqProperties
  <2> QED BY <1>2, <2>3, <2>4, SeqEqual
<1> QED BY <1>3, <1>4 DEF n

\* A token more only completes the text.
LEMMA DecodeGrows ==
  ASSUME NEW ids \in Seq(Token), NEW tok \in Token
  PROVE  /\ Decode(ids) \in Seq(Char) /\ Decode(Append(ids, tok)) \in Seq(Char)
         /\ GoesOn(Decode(ids), Decode(Append(ids, tok)))
<1>1. /\ Bytes(ids) \in Seq(Byte) /\ Piece[tok] \in Seq(Byte)
      /\ Bytes(Append(ids, tok)) = Bytes(ids) \o Piece[tok]
  BY BytesAppend
<1> QED BY <1>1, LossyGrows DEF Decode

\* Nothing is decoded to nothing.
LEMMA DecodeNothing == Decode(<<>>) = <<>> /\ <<>> \in Seq(Char) /\ StableLen(<<>>) = 0
<1> DEFINE t == <<>>
<1>1. t \in Seq(Char) /\ Len(t) = 0
  BY EmptySeq
<1> HIDE DEF t
<1>2. StableLen(t) = 0
  <2>1. StableLen(t) \in 0 .. Len(t)
    BY <1>1, StableIs
  <2> QED BY <1>1, <2>1
<1> QED BY <1>1, <1>2, BytesNothing, LossyNothing DEF Decode, t

\* A text in two parts.
LEMMA Cut ==
  ASSUME NEW t \in Seq(Char), NEW n \in 0 .. Len(t), NEW m \in n .. Len(t)
  PROVE  /\ SubSeq(t, 1, n) \in Seq(Char) /\ Len(SubSeq(t, 1, n)) = n
         /\ SubSeq(t, n + 1, m) \in Seq(Char)
         /\ SubSeq(t, 1, n) \o SubSeq(t, n + 1, m) = SubSeq(t, 1, m)
<1>1. Len(t) \in Nat /\ n \in Nat /\ m \in Nat /\ n <= m /\ m <= Len(t)
  BY LenProperties
<1>2. (\A k \in 1 .. n : t[k] \in Char) /\ (\A k \in n + 1 .. m : t[k] \in Char)
  BY <1>1, ElementOfSeq
<1>3. SubSeq(t, 1, n) \in Seq(Char) /\ Len(SubSeq(t, 1, n)) = n
  BY <1>1, <1>2, SubSeqProperties
<1>4. SubSeq(t, n + 1, m) \in Seq(Char)
  <2> DEFINE k == n + 1
  <2>1. k \in Int /\ m \in Int /\ \A i \in k .. m : t[i] \in Char
    BY <1>1, <1>2
  <2> HIDE DEF k
  <2>2. SubSeq(t, k, m) \in Seq(Char)
    BY <2>1, SubSeqProperties
  <2> QED BY <2>2 DEF k
<1>5. SubSeq(t, 1, n) \o SubSeq(t, n + 1, m) = SubSeq(t, 1, m)
  <2> DEFINE one == 1
  <2>1. one \in 1 .. Len(t) + 1 /\ n \in one - 1 .. Len(t) /\ m \in n .. Len(t)
    BY <1>1
  <2> HIDE DEF one
  <2>2. SubSeq(t, one, n) \o SubSeq(t, n + 1, m) = SubSeq(t, one, m)
    BY <2>1, ConcatAdjacentSubSeq
  <2> QED BY <2>2 DEF one
<1> QED BY <1>3, <1>4, <1>5

\* Done alone adds no text.
LEMMA SaidDone ==
  ASSUME NEW evs, IsStream(evs), NEW d, IsDone(d), NEW all, all = evs \o (<<>> \o <<d>>)
  PROVE  IsStream(all) /\ TextOf(all) = TextOf(evs)
<1>1. Said(d) = <<>> /\ <<>> \in Seq(Char)
  BY EmptySeq DEF Said
<1>2. all = evs \o <<d>>
  <2>1. <<>> \o <<d>> = <<d>>
    OBVIOUS
  <2> QED BY <2>1
<1>3. /\ IsStream(evs \o <<d>>) /\ TextOf(evs) \in Seq(Char)
      /\ TextOf(evs \o <<d>>) = TextOf(evs) \o <<>>
  BY <1>1, SaidNext
<1>4. TextOf(evs) \o <<>> = TextOf(evs)
  BY <1>3, ConcatEmptySeq
<1> QED BY <1>2, <1>3, <1>4

\* Concatenation is associative.
LEMMA Assoc ==
  ASSUME NEW a, NEW b, NEW c, IsList(a), IsList(b), IsList(c)
  PROVE  a \o (b \o c) = (a \o b) \o c
<1> DEFINE E == {a[k] : k \in DOMAIN a} \cup {b[k] : k \in DOMAIN b} \cup {c[k] : k \in DOMAIN c}
<1>1. /\ a \in Seq({a[k] : k \in DOMAIN a}) /\ b \in Seq({b[k] : k \in DOMAIN b})
      /\ c \in Seq({c[k] : k \in DOMAIN c})
  BY DEF IsList
<1>2. a \in Seq(E) /\ b \in Seq(E) /\ c \in Seq(E)
  <2>1. /\ {a[k] : k \in DOMAIN a} \subseteq E /\ {b[k] : k \in DOMAIN b} \subseteq E
        /\ {c[k] : k \in DOMAIN c} \subseteq E
    OBVIOUS
  <2> HIDE DEF E
  <2> QED BY <1>1, <2>1, SeqMonotonic
<1> HIDE DEF E
<1> QED BY <1>2, ConcatAssociative

\* A last text, then Done.
LEMMA SaidTwice ==
  ASSUME NEW evs, IsStream(evs), NEW t, Said(t) \in Seq(Char), NEW d, IsDone(d)
  PROVE  /\ IsStream((evs \o <<t>>) \o <<d>>)
         /\ TextOf((evs \o <<t>>) \o <<d>>) = TextOf(evs) \o Said(t)
<1> DEFINE said == evs \o <<t>>
<1>1. Said(d) = <<>> /\ <<>> \in Seq(Char)
  BY EmptySeq DEF Said
<1>2. IsStream(said) /\ TextOf(evs) \in Seq(Char) /\ TextOf(said) = TextOf(evs) \o Said(t)
  BY <1>1, SaidNext
<1> HIDE DEF said
<1>3. IsStream(said \o <<d>>) /\ TextOf(said \o <<d>>) = TextOf(said) \o <<>>
  BY <1>1, <1>2, SaidNext
<1>4. TextOf(said) \in Seq(Char)
  BY <1>2, ConcatProperties
<1>5. TextOf(said) \o <<>> = TextOf(said)
  BY <1>4, ConcatEmptySeq
<1> QED BY <1>2, <1>3, <1>5 DEF said

\* What was sent of the text of a slot is its beginning.
Held(s, evs) ==
  /\ s.text \in Seq(Char) /\ s.sent \in 0 .. Len(s.text)
  /\ IsStream(evs) /\ TextOf(evs) = SubSeq(s.text, 1, s.sent)

\* finish_slot: the text held back, if there is any, then Done.
LEMMA FinishSays ==
  ASSUME NEW s, NEW f, NEW evs, Held(s, evs)
  PROVE  IsStream(evs \o Finish(s, f)) /\ TextOf(evs \o Finish(s, f)) = s.text
<1> DEFINE text == s.text  n == s.sent
           rest == SubSeq(text, n + 1, Len(text))
           d == DoneEvent(f, s.job, s.out_ids)  t == TextEvent(rest)
           all == evs \o Finish(s, f)
<1>1. /\ IsDone(d) /\ Said(t) = rest
      /\ text \in Seq(Char) /\ n \in 0 .. Len(text) /\ IsStream(evs)
      /\ TextOf(evs) = SubSeq(text, 1, n)
  BY DEF IsDone, DoneEvent, Said, TextEvent, Held
<1>2. Finish(s, f) = (IF Len(text) > n THEN <<t>> ELSE <<>>) \o <<d>>
  BY DEF Finish
<1> HIDE DEF d, t
<1> HIDE DEF text, n
<1>3. Len(text) \in Nat /\ n \in Nat /\ Len(text) \in n .. Len(text)
  BY <1>1, LenProperties
<1>4. rest \in Seq(Char) /\ SubSeq(text, 1, n) \o rest = SubSeq(text, 1, Len(text))
  BY <1>1, <1>3, Cut
<1>5. SubSeq(text, 1, Len(text)) = text
  BY <1>1, SubSeqFull
<1> HIDE DEF rest
<1>6. ASSUME Len(text) > n PROVE IsStream(all) /\ TextOf(all) = text
  <2>1. all = evs \o (<<t>> \o <<d>>)
    BY <1>2, <1>6
  <2> DEFINE one == <<t>>  two == <<d>>
  <2>2. evs \o (one \o two) = (evs \o one) \o two
    <3>1. IsList(evs) /\ IsList(one) /\ IsList(two)
      BY <1>1, Singles DEF IsStream
    <3> HIDE DEF one, two
    <3> QED BY <3>1, Assoc
  <2>3. IsStream((evs \o <<t>>) \o <<d>>)
    BY <1>1, <1>4, SaidTwice
  <2>4. TextOf((evs \o <<t>>) \o <<d>>) = TextOf(evs) \o Said(t)
    BY <1>1, <1>4, SaidTwice
  <2> HIDE DEF all
  <2>5. all = (evs \o <<t>>) \o <<d>>
    BY <2>1, <2>2
  <2> QED BY <1>1, <1>4, <1>5, <2>3, <2>4, <2>5
<1>7. ASSUME ~(Len(text) > n) PROVE IsStream(all) /\ TextOf(all) = text
  <2>1. all = evs \o (<<>> \o <<d>>)
    BY <1>2, <1>7
  <2>2. IsStream(all) /\ TextOf(all) = TextOf(evs)
    BY <1>1, <2>1, SaidDone
  <2>3. n = Len(text)
    BY <1>1, <1>3, <1>7
  <2> QED BY <1>1, <1>5, <2>2, <2>3
<1>8. IsStream(all) /\ TextOf(all) = text
  BY <1>6, <1>7
<1> QED BY <1>8 DEF text

-----------------------------------------------------------------------------
(* The text of a slot and the text its client received *)

\* A slot's text is what its tokens decode to, the client has its stable part.
SlotText(s, evs) ==
  /\ s.text = Decode(s.out_ids) /\ s.sent = StableLen(s.text)
  /\ TextOf(evs) = SubSeq(s.text, 1, s.sent)

\* Nobody hears anything before the first decode step of their slot.
TextInv ==
  /\ \A i \in DOMAIN slots : SlotText(slots[i], events[slots[i].job])
  /\ \A r \in Request :
       /\ IsStream(events[r])
       /\ IsDecoded(slots, r) \/ HeardDone(events[r]) \/ events[r] = <<>>

\* What SlotText says, with its types.
LEMMA SlotTextFacts ==
  ASSUME NEW s, NEW evs, IsSlot(s), SlotText(s, evs)
  PROVE  /\ s.text \in Seq(Char) /\ s.text = Decode(s.out_ids) /\ Len(s.text) \in Nat
         /\ s.sent = StableLen(s.text) /\ s.sent \in 0 .. Len(s.text)
         /\ TextOf(evs) = SubSeq(s.text, 1, s.sent)
<1>1. s.out_ids \in Seq(Token) /\ s.tok \in Token
  BY DEF IsSlot
<1>2. Decode(s.out_ids) \in Seq(Char)
  BY <1>1, DecodeGrows
<1> DEFINE t == s.text
<1>3. t \in Seq(Char) /\ t = Decode(s.out_ids) /\ s.sent = StableLen(t) /\ TextOf(evs) = SubSeq(t, 1, s.sent)
  BY <1>2 DEF SlotText
<1> HIDE DEF t
<1>4. Len(t) \in Nat /\ StableLen(t) \in 0 .. Len(t)
  BY <1>3, StableIs
<1> QED BY <1>3, <1>4 DEF t

\* A slot that ends with the text it has sends what it held back.
LEMMA FlushAll ==
  ASSUME NEW s, NEW f, NEW evs, IsSlot(s), SlotText(s, evs), IsStream(evs)
  PROVE  IsStream(evs \o Finish(s, f)) /\ TextOf(evs \o Finish(s, f)) = Decode(s.out_ids)
<1>1. Held(s, evs) /\ s.text = Decode(s.out_ids)
  BY SlotTextFacts DEF Held
<1>2. IsStream(evs \o Finish(s, f))
  BY <1>1, FinishSays
<1>3. TextOf(evs \o Finish(s, f)) = s.text
  BY <1>1, FinishSays
<1> QED BY <1>1, <1>2, <1>3

\* The text up to the first stop string, or what was sent if that is longer.
UpToStop(s) ==
  LET text == Decode(Append(s.out_ids, s.tok))
      cuts == StopCuts(text, Stops[s.job])
  IN  SubSeq(text, 1, IF Min(cuts) >= s.sent THEN Min(cuts) ELSE s.sent)

\* The first stop string begins inside the text.
LEMMA FirstCut ==
  ASSUME NEW t \in Seq(Char), NEW stops, StopCuts(t, stops) # {}
  PROVE  Min(StopCuts(t, stops)) \in 0 .. Len(t)
<1> DEFINE T == StopCuts(t, stops)
<1>1. Len(t) \in Nat
  BY LenProperties
<1>2. T \subseteq 0 .. Len(t) /\ T # {}
  BY DEF StopCuts
<1> HIDE DEF T
<1>3. T \subseteq Nat
  BY <1>1, <1>2
<1>4. \E x \in T : \A y \in T : x <= y
  BY <1>2, <1>3, Least
<1>5. Min(T) \in T
  BY <1>4 DEF Min
<1> QED BY <1>2, <1>5 DEF T

\* What the last token did to the text.
LEMMA TextAfter ==
  ASSUME NEW s, NEW evs, IsSlot(s), SlotText(s, evs)
  PROVE  LET text == Decode(Append(s.out_ids, s.tok))
         IN  /\ text \in Seq(Char) /\ Len(text) \in Nat
             /\ s.sent \in Nat /\ s.sent <= StableLen(text) /\ StableLen(text) \in 0 .. Len(text)
             /\ TextOf(evs) = SubSeq(text, 1, s.sent)
<1> DEFINE t == s.text  u == Decode(Append(s.out_ids, s.tok))
<1>1. /\ t \in Seq(Char) /\ t = Decode(s.out_ids) /\ s.sent = StableLen(t)
      /\ Len(t) \in Nat /\ s.sent \in 0 .. Len(t) /\ TextOf(evs) = SubSeq(t, 1, s.sent)
  BY SlotTextFacts
<1>2. s.out_ids \in Seq(Token) /\ s.tok \in Token
  BY DEF IsSlot
<1>3. u \in Seq(Char) /\ GoesOn(t, u)
  BY <1>1, <1>2, DecodeGrows
<1> HIDE DEF t, u
<1>4. Len(u) \in Nat /\ StableLen(u) \in 0 .. Len(u)
  BY <1>3, StableIs
<1>5. StableLen(t) <= StableLen(u) /\ SubSeq(u, 1, StableLen(t)) = SubSeq(t, 1, StableLen(t))
  BY <1>1, <1>3, StableGrows
<1>6. s.sent \in Nat
  BY <1>1
<1> QED BY <1>1, <1>3, <1>4, <1>5, <1>6 DEF u

\* A slot that ends at a stop string.
LEMMA StopSays ==
  ASSUME NEW s, NEW evs, IsSlot(s), SlotText(s, evs), IsStream(evs),
         StopCuts(Decode(Append(s.out_ids, s.tok)), Stops[s.job]) # {}
  PROVE  /\ Accept(s).leaves /\ IsStream(evs \o Accept(s).sends)
         /\ TextOf(evs \o Accept(s).sends) = UpToStop(s)
<1> DEFINE out == Append(s.out_ids, s.tok)
           u == Decode(out)
           m == Min(StopCuts(u, Stops[s.job]))
           n == s.sent
           c == SubSeq(u, 1, m)
           all == evs \o Accept(s).sends
           t == [s EXCEPT !.out_ids = out, !.text = c]
<1>1. Accept(s) = Retired(t, "stop")
  BY DEF Accept
<1>2. t.text = c /\ t.sent = n
  BY DEF IsSlot
<1>3. /\ u \in Seq(Char) /\ Len(u) \in Nat /\ n \in Nat /\ n <= Len(u)
      /\ TextOf(evs) = SubSeq(u, 1, n)
  <2>1. /\ u \in Seq(Char) /\ Len(u) \in Nat
        /\ n \in Nat /\ n <= StableLen(u) /\ StableLen(u) \in 0 .. Len(u)
        /\ TextOf(evs) = SubSeq(u, 1, n)
    BY TextAfter
  <2> HIDE DEF u, n
  <2> QED BY <2>1
<1>4. m \in 0 .. Len(u)
  BY <1>3, FirstCut
<1>5. UpToStop(s) = SubSeq(u, 1, IF m >= n THEN m ELSE n)
  BY DEF UpToStop
<1>6. Accept(s).leaves /\ Accept(s).sends = Finish(t, "stop")
  BY <1>1 DEF Retired
<1> HIDE DEF t, m, n, u
<1>7. c \in Seq(Char) /\ Len(c) = m
  <2>1. m \in m .. Len(u)
    BY <1>3, <1>4
  <2> QED BY <1>3, <1>4, <2>1, Cut
<1>8. all = evs \o Finish(t, "stop")
  BY <1>6
<1>9. CASE m >= n
  <2>1. n \in 0 .. Len(u) /\ n \in 0 .. Len(c) /\ 0 \in 0 .. Len(c)
    BY <1>3, <1>4, <1>7, <1>9
  <2>2. SubSeq(c, 1, n) = SubSeq(u, 1, n)
    <3>1. n \in n .. Len(u) /\ n \in n .. Len(c)
      BY <1>3, <1>4, <1>7, <1>9
    <3>2. /\ SubSeq(c, 1, n) \in Seq(Char) /\ Len(SubSeq(c, 1, n)) = n
      <4> HIDE DEF c
      <4> QED BY <1>7, <2>1, <3>1, Cut
    <3>3. SubSeq(u, 1, n) \in Seq(Char) /\ Len(SubSeq(u, 1, n)) = n
      BY <1>3, <2>1, <3>1, Cut
    <3>4. \A k \in 1 .. n : SubSeq(c, 1, n)[k] = SubSeq(u, 1, n)[k]
      <4>1. \A k \in 1 .. n : SubSeq(u, 1, n)[k] = u[k]
        BY <1>3
      <4>2. \A k \in 1 .. m : c[k] = u[k]
        BY <1>3, <1>4
      <4> HIDE DEF c
      <4>3. \A k \in 1 .. n : SubSeq(c, 1, n)[k] = c[k] /\ k \in 1 .. m
        BY <1>3, <1>4, <1>7, <1>9
      <4> QED BY <4>1, <4>2, <4>3
    <3> HIDE DEF c
    <3> QED BY <3>2, <3>3, <3>4, SeqEqual
  <2>3. TextOf(evs) = SubSeq(c, 1, n)
    BY <1>3, <2>2
  <2>4. UpToStop(s) = c
    BY <1>5, <1>9
  <2> HIDE DEF c
  <2>5. Held(t, evs)
    BY <1>2, <1>7, <2>1, <2>3 DEF Held
  <2>6. IsStream(evs \o Finish(t, "stop"))
    BY <2>5, FinishSays
  <2>7. TextOf(evs \o Finish(t, "stop")) = t.text
    BY <2>5, FinishSays
  <2> QED BY <1>2, <1>6, <1>8, <2>4, <2>6, <2>7
<1>10. CASE ~(m >= n)
  <2> DEFINE d == DoneEvent("stop", t.job, t.out_ids)
  <2> HIDE DEF c
  <2>1. ~(Len(c) > n)
    BY <1>3, <1>4, <1>7, <1>10
  <2>2. Finish(t, "stop") = <<>> \o <<d>>
    BY <1>2, <2>1 DEF Finish
  <2>3. IsDone(d)
    BY DEF IsDone, DoneEvent
  <2> HIDE DEF d
  <2>4. all = evs \o (<<>> \o <<d>>)
    BY <1>8, <2>2
  <2>5. IsStream(all) /\ TextOf(all) = TextOf(evs)
    BY <2>3, <2>4, SaidDone
  <2> QED BY <1>3, <1>5, <1>6, <1>10, <2>5
<1> QED BY <1>9, <1>10

\* A slot that stays has sent the stable part of its new text.
LEMMA AcceptSays ==
  ASSUME NEW s, NEW evs, IsSlot(s), SlotText(s, evs), IsStream(evs),
         StopCuts(Decode(Append(s.out_ids, s.tok)), Stops[s.job]) = {}
  PROVE  /\ ~Accept(s).leaves /\ IsStream(evs \o Accept(s).sends)
         /\ SlotText(Accept(s).slot, evs \o Accept(s).sends)
<1> DEFINE out == Append(s.out_ids, s.tok)
           u == Decode(out)
           st == StableLen(u)
           n == s.sent
           e == TextEvent(SubSeq(u, n + 1, st))
           new == IF st > n THEN st ELSE n
           t == [s EXCEPT !.out_ids = out, !.text = u, !.sent = new]
           all == evs \o Accept(s).sends
<1>1. /\ ~Accept(s).leaves /\ Accept(s).slot = t
      /\ Accept(s).sends = IF st > n THEN <<e>> ELSE <<>>
  BY DEF Accept
<1>2. t.out_ids = out /\ t.text = u /\ t.sent = new
  BY DEF IsSlot
<1>3. /\ u \in Seq(Char) /\ Len(u) \in Nat /\ n \in Nat /\ n <= st /\ st \in 0 .. Len(u)
      /\ TextOf(evs) = SubSeq(u, 1, n)
  BY TextAfter
<1>4. st = StableLen(u) /\ u = Decode(out)
  OBVIOUS
<1>5. Said(e) = SubSeq(u, n + 1, st)
  BY DEF Said, IsDone, TextEvent
<1> HIDE DEF t, e, st, u, out, n
<1>6. new = st
  BY <1>3
<1>7. IsStream(all) /\ TextOf(all) = SubSeq(u, 1, st)
  <2>1. CASE st > n
    <3>1. n \in 0 .. Len(u) /\ st \in n .. Len(u)
      BY <1>3
    <3>2. SubSeq(u, n + 1, st) \in Seq(Char) /\ SubSeq(u, 1, n) \o SubSeq(u, n + 1, st) = SubSeq(u, 1, st)
      BY <1>3, <3>1, Cut
    <3>3. Said(e) \in Seq(Char)
      BY <1>5, <3>2
    <3>4. IsStream(evs \o <<e>>) /\ TextOf(evs \o <<e>>) = TextOf(evs) \o Said(e)
      BY <3>3, SaidNext
    <3>5. all = evs \o <<e>>
      BY <1>1, <2>1
    <3> HIDE DEF all
    <3> QED BY <1>3, <1>5, <3>2, <3>4, <3>5
  <2>2. CASE ~(st > n)
    <3>1. st = n
      BY <1>3, <2>2
    <3>2. evs \o <<>> = evs
      <4>1. evs \in Seq({evs[k] : k \in DOMAIN evs})
        BY DEF IsStream, IsList
      <4> QED BY <4>1, ConcatEmptySeq
    <3>3. all = evs
      BY <1>1, <2>2, <3>2
    <3> HIDE DEF all
    <3> QED BY <1>3, <3>1, <3>3
  <2> QED BY <2>1, <2>2
<1> HIDE DEF new, all
<1>8. SlotText(t, all)
  BY <1>2, <1>4, <1>6, <1>7 DEF SlotText
<1> QED BY <1>1, <1>7, <1>8 DEF all

\* What a client has when its slot leaves after the emit loop.
Ending(s) ==
  IF s.tok \in Eos \/ Len(s.out_ids) >= MaxTokens[s.job] THEN Decode(s.out_ids) ELSE UpToStop(s)

LEMMA OutcomeSays ==
  ASSUME NEW s, NEW evs, IsSlot(s), SlotText(s, evs), IsStream(evs)
  PROVE  /\ IsStream(evs \o Outcome(s).sends)
         /\ ~Outcome(s).leaves => SlotText(Outcome(s).slot, evs \o Outcome(s).sends)
         /\ Outcome(s).leaves =>
              /\ TextOf(evs \o Outcome(s).sends) = Ending(s)
              /\ \/ s.tok \in Eos \/ Len(s.out_ids) >= MaxTokens[s.job]
                 \/ StopCuts(Decode(Append(s.out_ids, s.tok)), Stops[s.job]) # {}
<1>1. CASE s.tok \in Eos \/ Len(s.out_ids) >= MaxTokens[s.job]
  <2>1. PICK f : Outcome(s) = Retired(s, f)
    BY <1>1 DEF Outcome
  <2>2. Outcome(s).leaves /\ Outcome(s).sends = Finish(s, f)
    BY <2>1 DEF Retired
  <2>3. IsStream(evs \o Finish(s, f))
    BY FlushAll
  <2>4. TextOf(evs \o Finish(s, f)) = Decode(s.out_ids)
    BY FlushAll
  <2> QED BY <1>1, <2>2, <2>3, <2>4 DEF Ending
<1>2. CASE ~(s.tok \in Eos \/ Len(s.out_ids) >= MaxTokens[s.job])
  <2>1. Outcome(s) = Accept(s)
    BY <1>2 DEF Outcome
  <2>2. CASE StopCuts(Decode(Append(s.out_ids, s.tok)), Stops[s.job]) = {}
    <3>1. /\ ~Accept(s).leaves /\ IsStream(evs \o Accept(s).sends)
          /\ SlotText(Accept(s).slot, evs \o Accept(s).sends)
      BY <2>2, AcceptSays
    <3> QED BY <2>1, <3>1
  <2>3. CASE StopCuts(Decode(Append(s.out_ids, s.tok)), Stops[s.job]) # {}
    <3>1. /\ Accept(s).leaves /\ IsStream(evs \o Accept(s).sends)
          /\ TextOf(evs \o Accept(s).sends) = UpToStop(s)
      BY <2>3, StopSays
    <3> QED BY <1>2, <2>1, <2>3, <3>1 DEF Ending
  <2> QED BY <2>2, <2>3
<1> QED BY <1>1, <1>2

-----------------------------------------------------------------------------
(* Init and the actions preserve TextInv *)

\* Nothing was decoded or sent yet.
LEMMA InitTextInv == Init => TextInv
<1> SUFFICES ASSUME Init PROVE TextInv
  OBVIOUS
<1>1. DOMAIN slots = {} /\ \A r \in Request : events[r] = <<>>
  BY DEF Init
<1> QED BY <1>1, NothingSaid DEF TextInv

\* A step that sends nothing and takes no slot.
LEMMA QuietTextInv ==
  ASSUME TextInv, UNCHANGED <<slots, events>> PROVE TextInv'
  BY DEF TextInv

\* A job takes its slot before it heard anything.
LEMMA InstallTextInv ==
  ASSUME IInv, JInv, TextInv, Install, pc \in {"prefill", "build"}, UNCHANGED events
  PROVE  TextInv'
<1> DEFINE r == cur.job  new == Slot(r, <<>>, <<>>, 0, Len(Prompt[r]), cur.first)
<1>1. /\ slots' = [i \in DOMAIN slots \cup {cur.slot} |-> IF i = cur.slot THEN new ELSE slots[i]]
      /\ cur.slot \notin DOMAIN slots /\ r \in Request
  BY DEF Install, IInv, TypeOK
<1>2. events[r] = <<>>
  <2>1. IsAdmitted(pc, cur, r)
    BY DEF IsAdmitted
  <2> QED BY <1>1, <2>1 DEF TextInv, JInv, JobsInv
<1>3. new.job = r /\ new.out_ids = <<>> /\ new.text = <<>> /\ new.sent = 0
  BY DEF Slot
<1> HIDE DEF new, r
<1>4. SlotText(new, events[r])
  <2>1. SubSeq(<<>>, 1, 0) = <<>>
    <3> DEFINE one == 1  none == 0
    <3>1. one \in Int /\ none \in Int /\ none < one
      OBVIOUS
    <3> HIDE DEF one, none
    <3>2. SubSeq(<<>>, one, none) = <<>>
      BY <3>1, SubSeqEmpty
    <3> QED BY <3>2 DEF one, none
  <2> QED BY <1>2, <1>3, <2>1, DecodeNothing, NothingSaid DEF SlotText
<1>5. ASSUME NEW i \in DOMAIN slots' PROVE SlotText(slots'[i], events'[slots'[i].job])
  <2>1. CASE i = cur.slot
    BY <1>1, <1>3, <1>4, <2>1
  <2>2. CASE i # cur.slot
    BY <1>1, <2>2 DEF TextInv
  <2> QED BY <2>1, <2>2
<1>6. ASSUME NEW q \in Request, IsDecoded(slots, q) PROVE IsDecoded(slots', q)
  BY <1>1, <1>6 DEF IsDecoded
<1> QED BY <1>5, <1>6 DEF TextInv

\* The steps that send: what each slot's job has afterwards.
LEMMA SendTextInv ==
  ASSUME IInv, JInv, TextInv, IInv', JInv', NEW gone \in SUBSET DOMAIN slots, NEW sends, Send(sends),
         DOMAIN slots' = DOMAIN slots \ gone,
         \A i \in DOMAIN slots' : slots'[i].job = slots[i].job,
         \A i \in DOMAIN slots : IsStream(events[slots[i].job] \o sends[i]),
         \A i \in DOMAIN slots' : SlotText(slots'[i], events[slots[i].job] \o sends[i]),
         \A i \in gone : HeardDone(events'[slots[i].job])
  PROVE  TextInv'
<1>1. /\ \A i \in DOMAIN slots :
              events'[slots[i].job] = events[slots[i].job] \o sends[i]
      /\ \A r \in Request : ~IsDecoded(slots, r) => events'[r] = events[r]
  BY Heard DEF IInv, JInv
<1>2. ASSUME NEW i \in DOMAIN slots' PROVE SlotText(slots'[i], events'[slots'[i].job])
  BY <1>1
<1>3. ASSUME NEW r \in Request
      PROVE  IsStream(events'[r]) /\ (IsDecoded(slots', r) \/ HeardDone(events'[r]) \/ events'[r] = <<>>)
  <2>1. CASE IsDecoded(slots, r)
    <3>1. PICK i \in DOMAIN slots : slots[i].job = r
      BY <2>1 DEF IsDecoded
    <3>2. IsStream(events'[r])
      BY <1>1, <3>1
    <3>3. CASE i \in gone
      BY <3>1, <3>2, <3>3
    <3>4. CASE i \notin gone
      BY <3>1, <3>2, <3>4 DEF IsDecoded
    <3> QED BY <3>3, <3>4
  <2>2. CASE ~IsDecoded(slots, r)
    BY <1>1, <2>2 DEF TextInv
  <2> QED BY <2>1, <2>2
<1> QED BY <1>2, <1>3 DEF TextInv

\* The emit loop.
LEMMA EmitTextInv == ASSUME IInv, JInv, TextInv, Emit PROVE TextInv' /\ Flushed
<1> DEFINE o == [i \in DOMAIN slots |-> Outcome(slots[i])]
           gone == {i \in DOMAIN slots : o[i].leaves}
           sends == [i \in DOMAIN slots |-> o[i].sends]
<1>1. /\ pc = "emit" /\ TypeOK
      /\ slots' = [i \in DOMAIN slots \ gone |-> o[i].slot] /\ Send(sends)
  BY DEF Emit, Keep, IInv
<1>2. IInv' /\ JInv'
  BY EmitIInv, EmitJInv
<1>3. ASSUME NEW i \in DOMAIN slots
      PROVE  /\ slots[i].job \in Request /\ IsSlot(slots[i])
             /\ SlotText(slots[i], events[slots[i].job]) /\ IsStream(events[slots[i].job])
  BY <1>1 DEF TypeOK, IsSlot, TextInv
<1>4. ASSUME NEW i \in DOMAIN slots
      PROVE  /\ o[i] = Outcome(slots[i]) /\ sends[i] = o[i].sends
             /\ i \in gone <=> o[i].leaves
  OBVIOUS
<1>5. gone \in SUBSET DOMAIN slots
  OBVIOUS
<1>6. ASSUME NEW i \in gone PROVE HeardDone(events'[slots[i].job])
  <2>1. Ends(events'[slots[i].job], EmitEnd(slots[i]))
    BY EmitJInv
  <2> QED BY <2>1, DoneOfEnds DEF HeardDone
<1> HIDE DEF o, gone, sends
<1>7. ASSUME NEW i \in DOMAIN slots
      PROVE  /\ IsStream(events[slots[i].job] \o sends[i])
             /\ i \notin gone => SlotText(o[i].slot, events[slots[i].job] \o sends[i])
             /\ i \in gone =>
                  /\ TextOf(events[slots[i].job] \o sends[i]) = Ending(slots[i])
                  /\ \/ slots[i].tok \in Eos \/ Len(slots[i].out_ids) >= MaxTokens[slots[i].job]
                     \/ StopCuts(Decode(Append(slots[i].out_ids, slots[i].tok)), Stops[slots[i].job]) # {}
  <2> DEFINE s == slots[i]  evs == events[s.job]
  <2>1. IsSlot(s) /\ SlotText(s, evs) /\ IsStream(evs)
    BY <1>3
  <2> HIDE DEF s, evs
  <2>2. /\ IsStream(evs \o Outcome(s).sends)
        /\ ~Outcome(s).leaves => SlotText(Outcome(s).slot, evs \o Outcome(s).sends)
        /\ Outcome(s).leaves =>
             /\ TextOf(evs \o Outcome(s).sends) = Ending(s)
             /\ \/ s.tok \in Eos \/ Len(s.out_ids) >= MaxTokens[s.job]
                \/ StopCuts(Decode(Append(s.out_ids, s.tok)), Stops[s.job]) # {}
    BY <2>1, OutcomeSays
  <2>3. o[i] = Outcome(s) /\ sends[i] = Outcome(s).sends /\ (i \in gone <=> Outcome(s).leaves)
    BY <1>4 DEF s
  <2>4. /\ IsStream(evs \o sends[i])
        /\ i \notin gone => SlotText(o[i].slot, evs \o sends[i])
        /\ i \in gone =>
             /\ TextOf(evs \o sends[i]) = Ending(s)
             /\ \/ s.tok \in Eos \/ Len(s.out_ids) >= MaxTokens[s.job]
                \/ StopCuts(Decode(Append(s.out_ids, s.tok)), Stops[s.job]) # {}
    BY <2>2, <2>3
  <2> QED BY <2>4 DEF s, evs
<1>8. /\ DOMAIN slots' = DOMAIN slots \ gone
      /\ \A i \in DOMAIN slots' : slots'[i] = o[i].slot /\ i \in DOMAIN slots /\ i \notin gone
  BY <1>1
<1>9. \A i \in DOMAIN slots' : slots'[i].job = slots[i].job
  <2>1. ASSUME NEW i \in DOMAIN slots' PROVE slots'[i].job = slots[i].job
    <3>1. ~Outcome(slots[i]).leaves /\ IsSlot(slots[i]) /\ slots'[i] = Outcome(slots[i]).slot
      BY <1>3, <1>4, <1>8
    <3> QED BY <3>1, OutcomeCases
  <2> QED BY <2>1
<1>10. TextInv'
  BY <1>1, <1>2, <1>5, <1>6, <1>7, <1>8, <1>9, SendTextInv
<1>11. ASSUME NEW i \in gone PROVE TextOf(events'[slots[i].job]) = Ending(slots[i])
  <2>1. i \in DOMAIN slots
    BY <1>5
  <2>2. events'[slots[i].job] = events[slots[i].job] \o sends[i]
    BY <1>1, <2>1, Heard DEF JInv
  <2> QED BY <1>7, <2>1, <2>2
<1>12. Flushed
  <2>1. ASSUME NEW i \in DOMAIN slots \ DOMAIN slots'
        PROVE  LET s    == slots[i]
                   text == Decode(Append(s.out_ids, s.tok))
                   cuts == StopCuts(text, Stops[s.job])
                   sent == TextOf(events'[s.job])
               IN  IF pc = "forward" \/ cuts = {} \/ s.tok \in Eos
                      \/ Len(s.out_ids) >= MaxTokens[s.job]
                   THEN sent = Decode(s.out_ids)
                   ELSE sent = SubSeq(text, 1, IF Min(cuts) >= s.sent THEN Min(cuts) ELSE s.sent)
    <3>1. i \in gone
      BY <1>8
    <3>2. TextOf(events'[slots[i].job]) = Ending(slots[i])
      BY <1>11, <3>1
    <3>3. \/ slots[i].tok \in Eos \/ Len(slots[i].out_ids) >= MaxTokens[slots[i].job]
          \/ StopCuts(Decode(Append(slots[i].out_ids, slots[i].tok)), Stops[slots[i].job]) # {}
      BY <1>5, <1>7, <3>1
    <3> QED BY <1>1, <3>2, <3>3 DEF Ending, UpToStop
  <2> QED BY <2>1 DEF Flushed
<1> QED BY <1>10, <1>12

\* The decode step: the texts stay, full contexts are flushed.
LEMMA StepTextInv == ASSUME IInv, JInv, TextInv, Step PROVE TextInv' /\ Flushed
<1> DEFINE m == Cardinality(DOMAIN slots)
           span == Max({slots[i].pos : i \in DOMAIN slots}) + 1
           f == [i \in DOMAIN slots |->
                   Forward(caches[i], Elems(<<slots[i].tok>>, Arith(m, span)), slots[i].pos)]
           next == [i \in DOMAIN slots |->
                      [slots[i] EXCEPT !.tok = Argmax(f[i].out), !.pos = @ + 1]]
           gone == {i \in DOMAIN slots : next[i].pos >= Ctx - 1}
           sends == [i \in DOMAIN slots |->
                       IF i \in gone THEN Finish(next[i], "length") ELSE <<>>]
<1>1. /\ pc = "forward" /\ TypeOK
      /\ slots' = [i \in DOMAIN slots \ gone |-> next[i]] /\ Send(sends)
  BY DEF Step, Keep, IInv
<1>2. IInv' /\ JInv'
  BY StepIInv, StepJInv
<1>3. ASSUME NEW i \in DOMAIN slots
      PROVE  /\ slots[i].job \in Request /\ IsSlot(slots[i])
             /\ SlotText(slots[i], events[slots[i].job]) /\ IsStream(events[slots[i].job])
  BY <1>1 DEF TypeOK, IsSlot, TextInv
<1>4. ASSUME NEW i \in DOMAIN slots
      PROVE  /\ next[i].job = slots[i].job /\ next[i].out_ids = slots[i].out_ids
             /\ next[i].text = slots[i].text /\ next[i].sent = slots[i].sent
  <2> HIDE DEF f
  <2>1. IsSlot(slots[i])
    BY <1>3
  <2> QED BY <2>1 DEF IsSlot
<1>5. ASSUME NEW i \in DOMAIN slots
      PROVE  sends[i] = IF i \in gone THEN Finish(next[i], "length") ELSE <<>>
  OBVIOUS
<1>6. gone \in SUBSET DOMAIN slots
  OBVIOUS
<1> HIDE DEF m, span, f, next, gone, sends
<1>7. ASSUME NEW i \in DOMAIN slots
      PROVE  /\ IsStream(events[slots[i].job] \o sends[i])
             /\ i \notin gone => events[slots[i].job] \o sends[i] = events[slots[i].job]
             /\ i \in gone =>
                  /\ TextOf(events[slots[i].job] \o sends[i]) = Decode(slots[i].out_ids)
                  /\ Ends(sends[i], DoneEvent("length", slots[i].job, slots[i].out_ids))
  <2> DEFINE s == slots[i]  evs == events[s.job]
  <2>1. IsSlot(s) /\ SlotText(s, evs) /\ IsStream(evs)
    BY <1>3
  <2>2. Finish(next[i], "length") = Finish(s, "length")
    BY <1>4 DEF Finish
  <2>3. sends[i] = IF i \in gone THEN Finish(s, "length") ELSE <<>>
    BY <1>5, <2>2
  <2>4. Ends(Finish(s, "length"), DoneEvent("length", s.job, s.out_ids))
    BY FinishEnds
  <2> HIDE DEF s, evs
  <2>5. IsStream(evs \o Finish(s, "length"))
    BY <2>1, FlushAll
  <2>6. TextOf(evs \o Finish(s, "length")) = Decode(s.out_ids)
    BY <2>1, FlushAll
  <2>7. evs \o <<>> = evs
    <3>1. evs \in Seq({evs[k] : k \in DOMAIN evs})
      BY <2>1 DEF IsStream, IsList
    <3> QED BY <3>1, ConcatEmptySeq
  <2>8. /\ IsStream(evs \o sends[i])
        /\ i \notin gone => evs \o sends[i] = evs
        /\ i \in gone =>
             /\ TextOf(evs \o sends[i]) = Decode(s.out_ids)
             /\ Ends(sends[i], DoneEvent("length", s.job, s.out_ids))
    BY <2>1, <2>3, <2>4, <2>5, <2>6, <2>7
  <2> QED BY <2>8 DEF s, evs
<1>8. /\ DOMAIN slots' = DOMAIN slots \ gone
      /\ \A i \in DOMAIN slots' : slots'[i] = next[i] /\ i \in DOMAIN slots /\ i \notin gone
  BY <1>1
<1>9. \A i \in DOMAIN slots' : slots'[i].job = slots[i].job
  BY <1>4, <1>8
<1>10. ASSUME NEW i \in DOMAIN slots'
       PROVE  SlotText(slots'[i], events[slots[i].job] \o sends[i])
  <2>1. i \in DOMAIN slots /\ i \notin gone /\ slots'[i] = next[i]
    BY <1>8
  <2>2. SlotText(slots[i], events[slots[i].job])
    BY <1>3, <2>1
  <2>3. SlotText(next[i], events[slots[i].job])
    BY <1>4, <2>1, <2>2 DEF SlotText
  <2>4. events[slots[i].job] \o sends[i] = events[slots[i].job]
    BY <1>7, <2>1
  <2> QED BY <2>1, <2>3, <2>4
<1>11. ASSUME NEW i \in gone
       PROVE  /\ HeardDone(events'[slots[i].job])
              /\ TextOf(events'[slots[i].job]) = Decode(slots[i].out_ids)
  <2>1. i \in DOMAIN slots
    BY <1>6
  <2>2. events'[slots[i].job] = events[slots[i].job] \o sends[i]
    BY <1>1, <2>1, Heard DEF JInv
  <2>3. HeardDone(sends[i])
    BY <1>7, <2>1, DoneOfEnds DEF HeardDone
  <2>4. HeardDone(events[slots[i].job] \o sends[i])
    <3> DEFINE a == events[slots[i].job]  b == sends[i]
    <3>1. IsList(a) /\ IsList(b)
      BY <1>3, <1>7, <2>1 DEF IsStream, Ends
    <3>2. PICK k \in DOMAIN b : IsDone(b[k])
      BY <2>3 DEF HeardDone
    <3> HIDE DEF a, b
    <3>3. /\ Len(a) \in Nat /\ Len(b) \in Nat /\ DOMAIN (a \o b) = 1 .. Len(a) + Len(b)
          /\ DOMAIN b = 1 .. Len(b) /\ \A l \in 1 .. Len(b) : (a \o b)[Len(a) + l] = b[l]
      BY <3>1, Glue
    <3>4. Len(a) + k \in DOMAIN (a \o b) /\ (a \o b)[Len(a) + k] = b[k]
      BY <3>2, <3>3
    <3> QED BY <3>2, <3>4 DEF HeardDone, a, b
  <2> QED BY <1>7, <2>1, <2>2, <2>4
<1>12. TextInv'
  BY <1>1, <1>2, <1>6, <1>7, <1>8, <1>9, <1>10, <1>11, SendTextInv
<1>13. Flushed
  <2>1. \A i \in DOMAIN slots \ DOMAIN slots' : TextOf(events'[slots[i].job]) = Decode(slots[i].out_ids)
    BY <1>8, <1>11
  <2> QED BY <1>1, <2>1 DEF Flushed
<1> QED BY <1>12, <1>13

\* No step of the system disturbs TextInv, and what leaves is flushed.
LEMMA NextTextInv == ASSUME IInv, JInv, TextInv, [Next]_vars PROVE TextInv' /\ Flushed
<1>1. ASSUME DOMAIN slots \subseteq DOMAIN slots' PROVE Flushed
  BY <1>1 DEF Flushed
<1>2. ASSUME UNCHANGED <<slots, events>> PROVE TextInv' /\ Flushed
  BY <1>1, <1>2, QuietTextInv
<1>3. ASSUME Install, pc \in {"prefill", "build"}, UNCHANGED events PROVE TextInv' /\ Flushed
  <2>1. DOMAIN slots \subseteq DOMAIN slots'
    BY <1>3 DEF Install
  <2> QED BY <1>1, <1>3, <2>1, InstallTextInv
<1>4. CASE UNCHANGED vars
  BY <1>2, <1>4 DEF vars
<1>5. ASSUME NEW r \in Request, Submit(r) \/ Reject(r) PROVE TextInv' /\ Flushed
  BY <1>2, <1>5 DEF Submit, Reject, engine
<1>6. CASE Hangup
  BY <1>2, <1>6 DEF Hangup, engine
<1>7. CASE Recv \/ AdmitBreak \/ Return
  BY <1>2, <1>7 DEF Recv, AdmitBreak, Return
<1>8. CASE PrefillChunk \/ StartBuild \/ BuildChunk
  BY <1>2, <1>8 DEF PrefillChunk, StartBuild, BuildChunk
<1>9. CASE AdmitDone
  BY <1>3, <1>9 DEF AdmitDone, Prefilled
<1>10. CASE BuildDone
  BY <1>3, <1>10 DEF BuildDone
<1>11. CASE Emit
  BY <1>11, EmitTextInv
<1>12. CASE Step
  BY <1>12, StepTextInv
<1> QED BY <1>4, <1>5, <1>6, <1>7, <1>8, <1>9, <1>10, <1>11, <1>12 DEF Next, EngineNext

\* What a client was sent is the beginning of what its tokens decode to now: no
\* later token ever changes a character that left the server.
THEOREM StreamingIsStable == Spec => []StreamIsPrefix
<1>1. Init => TextInv
  BY InitTextInv
<1>2. IInv /\ JInv /\ TextInv /\ [Next]_vars => TextInv'
  BY NextTextInv
<1>3. IInv /\ TextInv => StreamIsPrefix
  <2> SUFFICES ASSUME IInv, TextInv, NEW i \in DOMAIN slots
               PROVE  /\ slots[i].sent <= Len(Decode(slots[i].out_ids))
                      /\ Delivered(slots[i].job) = SubSeq(Decode(slots[i].out_ids), 1, slots[i].sent)
    BY DEF StreamIsPrefix
  <2> DEFINE s == slots[i]  evs == events[s.job]
  <2>1. IsSlot(s) /\ SlotText(s, evs)
    BY DEF IInv, TypeOK, TextInv
  <2>2. Delivered(s.job) = TextOf(evs)
    BY DEF Delivered
  <2> HIDE DEF s, evs
  <2>3. /\ s.text = Decode(s.out_ids) /\ Len(s.text) \in Nat /\ s.sent \in 0 .. Len(s.text)
        /\ TextOf(evs) = SubSeq(s.text, 1, s.sent)
    BY <2>1, SlotTextFacts
  <2>4. s.sent <= Len(s.text)
    <3> DEFINE n == s.sent  k == Len(s.text)
    <3>1. k \in Nat /\ n \in 0 .. k
      BY <2>3
    <3> HIDE DEF n, k
    <3>2. n <= k
      BY <3>1
    <3> QED BY <3>2 DEF n, k
  <2> QED BY <2>2, <2>3, <2>4 DEF s
<1> QED BY <1>1, <1>2, <1>3, Invariance, JobInvariance, PTL DEF Spec

\* When a slot is taken from its job, the client has all of its text: up to the
\* stop string, or all of it.
THEOREM LeavingFlushes == Spec => FlushComplete
<1>1. Init => TextInv
  BY InitTextInv
<1>2. IInv /\ JInv /\ TextInv /\ [Next]_vars => TextInv' /\ Flushed
  BY NextTextInv
<1> QED BY <1>1, <1>2, Invariance, JobInvariance, PTL DEF Spec, FlushComplete
=============================================================================
