------------------------------ MODULE KvCache ------------------------------
(***************************************************************************)
(* The int8 KV cache of one sequence (crates/fgm-core/src/kv.rs) and the   *)
(* part of the model configuration that lays it out (model.rs).            *)
(*                                                                         *)
(* A cache is [len, rows]: rows[l][s] is what slot s of layer l holds, for *)
(* every layer that owns storage.  What is stored is abstracted to the     *)
(* tokens it was computed from: the K and V rows of position p depend on   *)
(* tokens 0..p, so the right content of position p of a sequence h is its  *)
(* prefix SubSeq(h, 1, p + 1).  Zero is the content of a slot that was     *)
(* never written, Bad that of a row computed from something other than its *)
(* own sequence.  K, V and their scales are written and copied together    *)
(* and are one row here (the transposed V copies whole groups of four      *)
(* slots: the extra ones lie beyond len).                                  *)
(***************************************************************************)
EXTENDS Integers, Sequences, FiniteSets

CONSTANTS
  NumLayers,    \* num_hidden_layers
  FirstShared,  \* first_shared_layer: this layer and later ones own no KV
  Sliding,      \* the layers of type "sliding_attention"
  StoreFull,    \* store_full_length_kv: the layers the shared ones read
  Window,       \* sliding_window
  Ctx,          \* max_len: positions a full-length layer holds (--ctx)
  Chunk,        \* max_batch: the most rows one forward submits (prefill_chunk)
  Zero,         \* content of a slot nothing was written to
  Bad           \* content computed from a wrong row

Layers == 0 .. NumLayers - 1
Owned  == 0 .. FirstShared - 1        \* the layers with storage of their own

ASSUME KvAssumption ==
  /\ NumLayers \in Nat /\ FirstShared \in 1 .. NumLayers
  /\ Sliding \subseteq Layers /\ StoreFull \subseteq Owned
  /\ \A l \in Layers \ Owned :
        \E s \in StoreFull : (s \in Sliding) <=> (l \in Sliding)
  /\ Window \in Nat \ {0} /\ Ctx \in Nat \ {0} /\ Chunk \in Nat \ {0}

-----------------------------------------------------------------------------
(* Layout *)

MinOf(a, b) == IF a <= b THEN a ELSE b
SatSub(a, b) == IF a >= b THEN a - b ELSE 0     \* usize::saturating_sub

IsShared(l) == l >= FirstShared

\* The layer whose cache layer l reads.
KvSource(l) ==
  IF ~IsShared(l) THEN l
  ELSE CHOOSE s \in StoreFull : (s \in Sliding) <=> (l \in Sliding)

\* A sliding layer that no shared layer reads gets a ring; others do not wrap.
NeedsFull(l) == l \notin Sliding \/ l \in StoreFull
\* Fault: a ring without room for the rows of one forward.
FaultCapacity(l) == IF NeedsFull(l) THEN Ctx ELSE MinOf(Window, Ctx)
Capacity(l) == IF NeedsFull(l) THEN Ctx ELSE MinOf(Window + Chunk, Ctx)
Slots(l)     == 0 .. Capacity(l) - 1
SlotOf(l, p) == IF NeedsFull(l) THEN p ELSE p % Capacity(l)

\* First position a query at position p may attend to in layer l.
WindowStart(l, p) == IF l \in Sliding THEN SatSub(p, Window - 1) ELSE 0

-----------------------------------------------------------------------------
(* Operations *)

NewCache == [len |-> 0, rows |-> [l \in Owned |-> [s \in Slots(l) |-> Zero]]]

\* clear forgets the length only: the rows stay until they are overwritten.
Clear(c) == [c EXCEPT !.len = 0]

\* Slots fork_from copies: a ring that has wrapped is live everywhere.
ForkSlots(l, len) ==
  IF ~NeedsFull(l) /\ len >= Capacity(l) THEN Capacity(l) ELSE len

ForkFrom(c, src) ==
  [len  |-> src.len,
   rows |-> [l \in Owned |-> [s \in Slots(l) |->
               IF s < ForkSlots(l, src.len) THEN src.rows[l][s]
                                            ELSE c.rows[l][s]]]]

-----------------------------------------------------------------------------
(* What a cache that stands for a sequence must hold. *)

\* Positions of a sequence of n tokens that layer l still remembers.
Live(l, n) == {p \in 0 .. n - 1 : p >= n - Capacity(l)}

\* Every live position of h is in its slot, computed from h and nothing else.
Holds(c, h) ==
  \A l \in Owned : \A p \in Live(l, Len(h)) :
     c.rows[l][SlotOf(l, p)] = SubSeq(h, 1, p + 1)

Row(Elem)   == Seq(Elem) \cup {Zero, Bad}
IsCache(c, Elem) ==
  /\ DOMAIN c = {"len", "rows"}
  /\ c.len \in 0 .. Ctx
  /\ DOMAIN c.rows = Owned
  /\ \A l \in Owned : /\ DOMAIN c.rows[l] = Slots(l)
                      /\ \A s \in Slots(l) : c.rows[l][s] \in Row(Elem)
=============================================================================
