------------------------------- MODULE Runner -------------------------------
(***************************************************************************)
(* The forward pass as the scheduler sees it (crates/fgm-core/src/         *)
(* forward.rs): which rows of the caches it writes, which rows attention   *)
(* then reads, and which arithmetic a batch of m rows is computed with.    *)
(* The numbers themselves are abstracted to the history they stand for.    *)
(*                                                                         *)
(* A history is a sequence of elements [tok, arith]: the token and the     *)
(* arithmetic its row went through.  Two runs that feed the same tokens    *)
(* through different arithmetic have different histories, as two such runs *)
(* of the engine may disagree on the next token.                           *)
(***************************************************************************)
EXTENDS KvCache, AttnRuns

CONSTANTS
  Token,         \* the vocabulary
  WeightRows,    \* WeightSel::Above(t): rows from which int8 weights are used
  RowbatchRows,  \* rows from which attention may be batched by head
  RowbatchSpan,  \* span whose K rows no longer fit in the L2 cache
  Greedy(_)      \* the token of the largest logit after a history

ASSUME RunnerAssumption ==
  /\ 0 \in Token
  /\ WeightRows \in Nat /\ RowbatchRows \in Nat \ {0} /\ RowbatchSpan \in Nat
\* A ring has room for three positions beside the window (PREFILL_CHUNK is 256): with
\* fewer the two ends of a window may share a group of four slots, which ops.c sums twice.
ASSUME RingAssumption == Chunk >= 3

\* DualW::pick and the rowbatch rule, for a forward of m rows whose last
\* position is span - 1.
Arith(m, span) ==
  [int8     |-> m >= WeightRows,
   rowbatch |-> m >= RowbatchRows /\ span > RowbatchSpan]

ArithClass == [int8 : BOOLEAN, rowbatch : BOOLEAN]
Elem       == [tok : Token, arith : ArithClass]
\* The two marks of a row that holds no history are no histories.
ASSUME RowAssumption == Zero \notin Seq(Elem) /\ Bad \notin Seq(Elem)

Elems(toks, a) == [k \in 1 .. Len(toks) |-> [tok |-> toks[k], arith |-> a]]

\* Index of the first largest logit; 0 when no logit compares greater.
Argmax(h) == IF Greedy(h) \in Token THEN Greedy(h) ELSE 0

-----------------------------------------------------------------------------
\* The history the cached rows below position off stand for.
Base(c, off) == IF off = 0 THEN <<>> ELSE c.rows[0][SlotOf(0, off - 1)]

\* Every layer writes all its rows before any row of that layer attends: slot
\* s of layer l ends up with the last row that maps to it.
Written(c, e, off) ==
  [l \in Owned |-> [s \in Slots(l) |->
     LET mine == {k \in 1 .. Len(e) : SlotOf(l, off + k - 1) = s}
     IN  IF mine = {} THEN c.rows[l][s]
         ELSE Base(c, off) \o SubSeq(e, 1, CHOOSE k \in mine : \A j \in mine : j <= k)]]

\* What the kernel sums for a query at position p, of the layer l reads.
RingOf(l)   == IF NeedsFull(KvSource(l)) THEN 0 ELSE Capacity(KvSource(l))
SummedOnce  == [l \in Layers |-> [p \in 0 .. Ctx - 1 |->
                  CountedOnce(RingOf(l), WindowStart(l, p), p + 1)]]

\* Row k of the batch attends, in every layer, to its own sequence only, and to
\* each position of the window once.
Sound(rows, h, p) ==
  \A l \in Layers :
     /\ SummedOnce[l][p]
     /\ \A q \in WindowStart(l, p) .. p :
          rows[KvSource(l)][SlotOf(KvSource(l), q)] = SubSeq(h, 1, q + 1)

\* forward(tokens, off, kv): the cache afterwards and the history the logits of
\* its last row stand for.  A row that read a wrong row, or attended to one
\* that did, is Bad.
Forward(c, e, off) ==
  LET base  == Base(c, off)
      rows  == Written(c, e, off)
      fine  == /\ base \notin {Zero, Bad}
               /\ \A k \in 1 .. Len(e) : Sound(rows, base \o e, off + k - 1)
      spoil == [l \in Owned |-> [s \in Slots(l) |->
                  IF \E k \in 1 .. Len(e) : SlotOf(l, off + k - 1) = s
                  THEN Bad ELSE c.rows[l][s]]]
  IN  [kv  |-> [len  |-> IF c.len >= off + Len(e) THEN c.len ELSE off + Len(e),
                rows |-> IF fine THEN rows ELSE spoil],
       out |-> IF fine THEN base \o e ELSE Bad]

-----------------------------------------------------------------------------
(* Prefilling a prompt in chunks, as every caller does. *)

\* Position k - 1 of a full prefill is in the chunk [ChunkStart(k), ... + Chunk),
\* computed by a forward of that chunk's rows.
ChunkStart(k) == ((k - 1) \div Chunk) * Chunk
PrefillArith(off, len) ==
  LET n == MinOf(Chunk, len - off) IN Arith(n, off + n)

\* The history a full prefill of toks leaves.
FullPrefill(toks) ==
  [k \in 1 .. Len(toks) |->
     [tok |-> toks[k], arith |-> PrefillArith(ChunkStart(k), Len(toks))]]

\* ... and the history of a sequence whose tokens ids then went in one at a time,
\* each in a forward of its own.
LoneRun(prompt, ids) ==
  FullPrefill(prompt) \o
    [k \in 1 .. Len(ids) |-> [tok |-> ids[k], arith |-> Arith(1, Len(prompt) + k)]]
=============================================================================
