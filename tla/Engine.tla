------------------------------- MODULE Engine -------------------------------
(***************************************************************************)
(* The batching scheduler (crates/fgm-serve/src/engine.rs): one thread     *)
(* that owns the KV caches, admits jobs from a channel into free slots,    *)
(* prefills each on arrival, decodes every occupied slot one token per     *)
(* step, and streams text back until a job stops.  The other side of the   *)
(* channel is a connection thread per request (main.rs, completions),      *)
(* present here as the actions Submit, Reject and Hangup.                  *)
(*                                                                         *)
(* engine::run is sequential, so its state is its program counter pc and   *)
(* its locals.  One action is one iteration of one of its loops, and what  *)
(* other threads can observe, the channels, changes between any two.       *)
(***************************************************************************)
EXTENDS Requests

CONSTANTS
  Batch,       \* slots (--batch)
  PrefixMin    \* shortest shared prefix worth a template (--share-min), 0: none

ASSUME EngineAssumption == Batch \in Nat \ {0} /\ PrefixMin \in Nat

VARIABLES
  open,      \* some sender of the job channel is alive
  status,    \* what became of each request at the connection thread
  queue,     \* the job channel
  pc,        \* where engine::run is
  slots,     \* the occupied slots
  caches,    \* a KV cache per slot, occupied or not
  cur,       \* the job being admitted (pc = "prefill" or "build")
  prefix,    \* the prefix template; toks = <<>> when there is none
  build,     \* the template being built (pc = "build")
  lastToks,  \* prompt of the previous job
  events     \* what was sent to each request's event channel

channels == <<open, status, queue>>
vars == <<open, status, queue, pc, slots, caches, cur, prefix, build, lastToks, events>>

SlotId == 0 .. Batch - 1
\* Fault: occupied slots are handed out again.
FaultFree == SlotId
Free == SlotId \ DOMAIN slots

TextEvent(t) == [type |-> "text", text |-> t]
DoneEvent(f, r, out) ==
  [type |-> "done", finish |-> f, prompt |-> Len(Prompt[r]), completion |-> Len(out)]

NoJob   == [slot |-> 0, job |-> CHOOSE r \in Request : TRUE,
            reuse |-> 0, off |-> 0, first |-> 0]
NoBuild == [share |-> 0, off |-> 0, kv |-> NewCache]

Init ==
  /\ open = TRUE
  /\ status = [r \in Request |-> "new"]
  /\ queue = <<>>
  /\ pc = "admit"
  /\ slots = <<>>
  /\ caches = [i \in SlotId |-> NewCache]
  /\ cur = NoJob
  /\ prefix = [toks |-> <<>>, kv |-> NewCache]
  /\ build = NoBuild
  /\ lastToks = <<>>
  /\ events = [r \in Request |-> <<>>]

-----------------------------------------------------------------------------
(* The connection threads *)

engine == <<pc, slots, caches, cur, prefix, build, lastToks, events>>

Fits(r) == Len(Prompt[r]) + MaxTokens[r] <= Ctx

Submit(r) ==
  /\ open /\ status[r] = "new" /\ Fits(r)
  /\ status' = [status EXCEPT ![r] = "accepted"]
  /\ queue' = Append(queue, r)
  /\ UNCHANGED <<open, engine>>

Reject(r) ==
  /\ status[r] = "new" /\ ~Fits(r)
  /\ status' = [status EXCEPT ![r] = "rejected"]
  /\ UNCHANGED <<open, queue, engine>>

\* The last sender of the channel is dropped.
Hangup ==
  /\ open
  /\ open' = FALSE
  /\ UNCHANGED <<status, queue, engine>>

-----------------------------------------------------------------------------
(* Admission *)

\* Fault: `<=`, a prompt equal to the template leaves nothing to forward.
FaultReuse(toks) ==
  IF Len(prefix.toks) <= Len(toks) /\ SubSeq(toks, 1, Len(prefix.toks)) = prefix.toks
  THEN Len(prefix.toks) ELSE 0

\* A template is reused by a longer prompt that begins with all of it.
Reuse(toks) ==
  IF Len(prefix.toks) < Len(toks) /\ SubSeq(toks, 1, Len(prefix.toks)) = prefix.toks
  THEN Len(prefix.toks) ELSE 0

\* Receive a job (recv when idle, else try_recv) into the lowest free slot.
Recv ==
  /\ pc = "admit" /\ queue # <<>>
  /\ \E i \in Free :
       /\ \A j \in Free : i <= j
       /\ LET reuse == Reuse(Prompt[Head(queue)]) IN
            /\ cur' = [slot |-> i, job |-> Head(queue),
                       reuse |-> reuse, off |-> reuse, first |-> 0]
            /\ caches' = [caches EXCEPT ![i] =
                            IF reuse > 0 THEN ForkFrom(Clear(@), prefix.kv) ELSE Clear(@)]
  /\ queue' = Tail(queue)
  /\ pc' = "prefill"
  /\ UNCHANGED <<open, status, slots, prefix, build, lastToks, events>>

\* No slot is free, or the channel is empty and there is decoding to do.
AdmitBreak ==
  /\ pc = "admit"
  /\ DOMAIN slots # {}
  /\ Free = {} \/ queue = <<>>
  /\ pc' = "emit"
  /\ UNCHANGED <<channels, slots, caches, cur, prefix, build, lastToks, events>>

\* Fault: return on TryRecvError::Disconnected, with slots occupied.
FaultReturn ==
  /\ pc = "admit" /\ Free # {}
  /\ queue = <<>> /\ ~open
  /\ pc' = "returned"
  /\ UNCHANGED <<channels, slots, caches, cur, prefix, build, lastToks, events>>

\* Idle, and recv reports that the channel is empty and closed.
Return ==
  /\ pc = "admit"
  /\ DOMAIN slots = {} /\ queue = <<>> /\ ~open
  /\ pc' = "returned"
  /\ UNCHANGED <<channels, slots, caches, cur, prefix, build, lastToks, events>>

\* One runner.forward of a chunk of toks at off.
ForwardChunk(c, toks, off) ==
  LET n == MinOf(Chunk, Len(toks) - off)
  IN  Forward(c, Elems(SubSeq(toks, off + 1, off + n), Arith(n, off + n)), off)

PrefillChunk ==
  LET toks == Prompt[cur.job]
      n    == MinOf(Chunk, Len(toks) - cur.off)
      f    == ForwardChunk(caches[cur.slot], toks, cur.off)
  IN  /\ pc = "prefill" /\ cur.off < Len(toks)
      /\ caches' = [caches EXCEPT ![cur.slot] = f.kv]
      /\ cur' = [cur EXCEPT !.off = @ + n,
                            !.first = IF cur.off + n >= Len(toks) THEN Argmax(f.out) ELSE @]
      /\ UNCHANGED <<channels, pc, slots, prefix, build, lastToks, events>>

Prefilled == pc = "prefill" /\ cur.off >= Len(Prompt[cur.job])

\* Length of the longest common leading run: the leading lengths that agree.
Lcp(a, b) ==
  Cardinality({n \in 1 .. Len(a) : n <= Len(b) /\ SubSeq(a, 1, n) = SubSeq(b, 1, n)})

\* Fault: the shared length is not floored to whole chunks.
FaultShare(toks) == MinOf(Lcp(toks, lastToks), SatSub(Len(toks), 1))

\* The prefix shared with the previous prompt, in whole prefill chunks, at
\* least one token short of the prompt.
Share(toks) == (MinOf(Lcp(toks, lastToks), SatSub(Len(toks), 1)) \div Chunk) * Chunk

Rebuild(toks) ==
  /\ PrefixMin > 0 /\ cur.reuse = 0
  /\ Share(toks) >= PrefixMin
  /\ Share(toks) # Len(prefix.toks)

\* Fault: position and token swapped.
FaultSlot(r, out, text, sent, pos, tok) ==
  [job |-> r, out_ids |-> out, text |-> text, sent |-> sent, pos |-> tok, tok |-> pos]

Slot(r, out, text, sent, pos, tok) ==
  [job |-> r, out_ids |-> out, text |-> text, sent |-> sent, pos |-> pos, tok |-> tok]

\* The end of the admission loop's body: the prefilled job takes its slot.
Install ==
  LET toks == Prompt[cur.job] IN
    /\ lastToks' = toks
    /\ slots' = [i \in DOMAIN slots \cup {cur.slot} |->
                   IF i = cur.slot
                   THEN Slot(cur.job, <<>>, <<>>, 0, Len(toks), cur.first)
                   ELSE slots[i]]
    /\ cur' = NoJob
    /\ pc' = "admit"

AdmitDone ==
  /\ Prefilled /\ ~Rebuild(Prompt[cur.job])
  /\ Install
  /\ UNCHANGED <<channels, caches, prefix, build, events>>

StartBuild ==
  /\ Prefilled /\ Rebuild(Prompt[cur.job])
  /\ build' = [share |-> Share(Prompt[cur.job]), off |-> 0, kv |-> NewCache]
  /\ pc' = "build"
  /\ UNCHANGED <<channels, slots, caches, cur, prefix, lastToks, events>>

BuildChunk ==
  LET toks == SubSeq(Prompt[cur.job], 1, build.share)
      n    == MinOf(Chunk, build.share - build.off)
  IN  /\ pc = "build" /\ build.off < build.share
      /\ build' = [build EXCEPT !.off = @ + n,
                                !.kv = ForwardChunk(@, toks, build.off).kv]
      /\ UNCHANGED <<channels, pc, slots, caches, cur, prefix, lastToks, events>>

BuildDone ==
  /\ pc = "build" /\ build.off >= build.share
  /\ prefix' = [toks |-> SubSeq(Prompt[cur.job], 1, build.share), kv |-> build.kv]
  /\ build' = NoBuild
  /\ Install
  /\ UNCHANGED <<channels, caches, events>>

-----------------------------------------------------------------------------
(* One batched decode step *)

\* Fault: held-back text is dropped.
FaultFinish(s, f) == <<DoneEvent(f, s.job, s.out_ids)>>
\* Fault: return after the flush.
FaultFinishFlush(s, f) ==
  IF Len(s.text) > s.sent
  THEN <<TextEvent(SubSeq(s.text, s.sent + 1, Len(s.text)))>>
  ELSE <<DoneEvent(f, s.job, s.out_ids)>>

\* What finish_slot sends: the text held back, then Done.
Finish(s, f) ==
  (IF Len(s.text) > s.sent
   THEN <<TextEvent(SubSeq(s.text, s.sent + 1, Len(s.text)))>> ELSE <<>>)
  \o <<DoneEvent(f, s.job, s.out_ids)>>

\* Fault: the slot is not taken.
FaultRetired(s, f) == [slot |-> s, sends |-> Finish(s, f), leaves |-> FALSE]

\* The retire loop's body for one slot: the slot afterwards, what it sends,
\* and whether it leaves.
Retired(s, f) == [slot |-> s, sends |-> Finish(s, f), leaves |-> TRUE]

Accept(s) ==
  LET out  == Append(s.out_ids, s.tok)
      text == Decode(out)
      cuts == StopCuts(text, Stops[s.job])
      stable == StableLen(text)
      sent == IF stable > s.sent THEN stable ELSE s.sent
  IN  IF cuts # {}
      THEN Retired([s EXCEPT !.out_ids = out, !.text = SubSeq(text, 1, Min(cuts))], "stop")
      ELSE [slot   |-> [s EXCEPT !.out_ids = out, !.text = text, !.sent = sent],
            sends  |-> IF stable > s.sent
                       THEN <<TextEvent(SubSeq(text, s.sent + 1, stable))>> ELSE <<>>,
            leaves |-> FALSE]

\* Fault: one token too many.
FaultOutcome(s) ==
  IF s.tok \in Eos THEN Retired(s, "stop")
  ELSE IF Len(s.out_ids) > MaxTokens[s.job] THEN Retired(s, "length")
  ELSE Accept(s)
\* Fault: max_tokens is looked at before the end-of-text token.
FaultOutcomeOrder(s) ==
  IF Len(s.out_ids) >= MaxTokens[s.job] THEN Retired(s, "length")
  ELSE IF s.tok \in Eos THEN Retired(s, "stop")
  ELSE Accept(s)

Outcome(s) ==
  IF s.tok \in Eos THEN Retired(s, "stop")
  ELSE IF Len(s.out_ids) >= MaxTokens[s.job] THEN Retired(s, "length")
  ELSE Accept(s)

\* Slots not in gone keep what new says of them; each slot's job gets sends[i].
Keep(gone, new) == slots' = [i \in DOMAIN slots \ gone |-> new[i]]
Send(sends) ==
  events' = [r \in Request |->
     IF \E i \in DOMAIN slots : slots[i].job = r
     THEN events[r] \o sends[CHOOSE i \in DOMAIN slots : slots[i].job = r]
     ELSE events[r]]

Emit ==
  LET o    == [i \in DOMAIN slots |-> Outcome(slots[i])]
      gone == {i \in DOMAIN slots : o[i].leaves}
  IN  /\ pc = "emit"
      /\ Keep(gone, [i \in DOMAIN slots |-> o[i].slot])
      /\ Send([i \in DOMAIN slots |-> o[i].sends])
      /\ pc' = IF gone = DOMAIN slots THEN "admit" ELSE "forward"
      /\ UNCHANGED <<channels, caches, cur, prefix, build, lastToks>>

\* forward_multi over the occupied slots, one row each at its own position.
Step ==
  LET m    == Cardinality(DOMAIN slots)
      span == Max({slots[i].pos : i \in DOMAIN slots}) + 1
      f    == [i \in DOMAIN slots |->
                 Forward(caches[i], Elems(<<slots[i].tok>>, Arith(m, span)), slots[i].pos)]
      next == [i \in DOMAIN slots |->
                 [slots[i] EXCEPT !.tok = Argmax(f[i].out), !.pos = @ + 1]]
      gone == {i \in DOMAIN slots : next[i].pos >= Ctx - 1}
  IN  /\ pc = "forward"
      /\ caches' = [i \in SlotId |-> IF i \in DOMAIN slots THEN f[i].kv ELSE caches[i]]
      /\ Keep(gone, next)
      /\ Send([i \in DOMAIN slots |->
                 IF i \in gone THEN Finish(next[i], "length") ELSE <<>>])
      /\ pc' = "admit"
      /\ UNCHANGED <<channels, cur, prefix, build, lastToks>>

-----------------------------------------------------------------------------
EngineNext ==
  \/ Recv \/ AdmitBreak \/ Return
  \/ PrefillChunk \/ AdmitDone \/ StartBuild \/ BuildChunk \/ BuildDone
  \/ Emit \/ Step

Next ==
  \/ \E r \in Request : Submit(r) \/ Reject(r)
  \/ Hangup
  \/ EngineNext

\* Fault: recv does not notice that the channel was closed.
FaultEngineWaits ==
  \/ pc = "returned"
  \/ pc = "admit" /\ DOMAIN slots = {} /\ queue = <<>>

\* The engine thread blocks in recv, on an empty open channel while no slot is
\* occupied, and nowhere else.
EngineWaits ==
  \/ pc = "returned"
  \/ pc = "admit" /\ DOMAIN slots = {} /\ queue = <<>> /\ open

\* The engine is a thread the system keeps running; clients owe nothing.  This
\* is WF_vars(EngineNext): EngineWaits says when EngineNext is not enabled, and
\* its steps, and no others, change the engine's state.  TLC evaluates it faster.
Fairness == []<>EngineWaits \/ []<><<TRUE>>_engine

Spec == Init /\ [][Next]_vars /\ Fairness
=============================================================================
