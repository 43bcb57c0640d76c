---------------------------- MODULE RunnerProofs ----------------------------
(***************************************************************************)
(* What a forward does to a cache, for every configuration: each position  *)
(* of a window is summed once, the layout is injective on the positions a  *)
(* layer must remember, a copied template is complete, a forward on a      *)
(* faithful cache reads only rows of its own sequence and leaves a         *)
(* faithful cache (ForwardHolds), and whole chunks of prefill may be       *)
(* shared (FullPrefillShare).                                              *)
(***************************************************************************)
EXTENDS Runner, SequenceTheorems, WellFoundedInduction, TLAPS

(* Induction: a set of naturals has a least element. *)

\* The order of the naturals, as a set of pairs.
Below == {ss \in Nat \X Nat : ss[1] < ss[2]}

LEMMA BelowWellFounded == IsWellFoundedOn(Below, Nat)
  BY NatLessThanWellFounded DEF OpToRel, Below

\* Every set of naturals that is not empty has a least element.
LEMMA Least ==
  ASSUME NEW T, T \subseteq Nat, T # {}
  PROVE  \E x \in T : \A y \in T : x <= y
<1>1. PICK x \in T : \A y \in T : ~(<<y, x>> \in Below)
  BY BelowWellFounded, WFMin
<1>2. \A y \in T : ~(y < x)
  BY <1>1 DEF Below
<1> QED BY <1>2, SMT

\* Every set of naturals up to n that is not empty has a greatest.
LEMMA Greatest ==
  ASSUME NEW n \in Nat, NEW T, T \subseteq 0 .. n, T # {}
  PROVE  \E x \in T : \A y \in T : x >= y
<1> DEFINE U == {n - x : x \in T}
<1>1. U \subseteq Nat /\ U # {}
  <2>1. \A x \in T : x \in 0 .. n /\ n - x \in Nat
    OBVIOUS
  <2>2. U \subseteq Nat
    BY <2>1
  <2>3. PICK x \in T : TRUE
    OBVIOUS
  <2>4. n - x \in U
    BY <2>3
  <2> QED BY <2>2, <2>4
<1> HIDE DEF U
<1>2. PICK u \in U : \A y \in U : u <= y
  BY <1>1, Least
<1>3. PICK x \in T : u = n - x
  BY <1>2 DEF U
<1>4. \A y \in T : x >= y
  <2>1. SUFFICES ASSUME NEW y \in T PROVE x >= y
    OBVIOUS
  <2>2. n - y \in U
    BY DEF U
  <2>3. n - x <= n - y
    BY <1>2, <1>3, <2>2
  <2> QED BY <2>3
<1> QED BY <1>4

\* Induction up to n.
LEMMA UpTo ==
  ASSUME NEW n \in Nat, NEW T, 0 \in T, \A k \in 1 .. n : k - 1 \in T => k \in T
  PROVE  \A k \in 0 .. n : k \in T
<1> DEFINE U == {k \in 0 .. n : k \notin T}
<1>1. SUFFICES ASSUME U # {} PROVE FALSE
  OBVIOUS
<1>2. U \subseteq Nat
  OBVIOUS
<1> HIDE DEF U
<1>3. PICK x \in U : \A y \in U : x <= y
  BY <1>1, <1>2, Least
<1>4. x \in 1 .. n /\ x \notin T
  BY <1>3 DEF U
<1>5. x - 1 \in 0 .. n /\ ~(x <= x - 1)
  BY <1>4
<1>6. x - 1 \in T
  BY <1>3, <1>5 DEF U
<1> QED BY <1>4, <1>6

\* f is defined by recursion on 0 .. n, each value by the one before it; there is one.
Recursive(f, S, base, n, step) ==
  f \in [0 .. n -> S] /\ f[0] = base /\ \A k \in 1 .. n : f[k] = step[k][f[k - 1]]

LEMMA Recursion ==
  ASSUME NEW S, NEW base \in S, NEW n \in Nat, NEW step \in [1 .. n -> [S -> S]]
  PROVE  \E f : Recursive(f, S, base, n, step)
<1> DEFINE Good(m, f) == f[0] = base /\ \A k \in 1 .. m : f[k] = step[k][f[k - 1]]
           T == {m \in 0 .. n : \E f \in [0 .. m -> S] : Good(m, f)}
<1>1. 0 \in T
  <2> DEFINE f == [k \in 0 .. 0 |-> base]
  <2>1. f \in [0 .. 0 -> S] /\ Good(0, f)
    OBVIOUS
  <2> HIDE DEF f, Good
  <2> QED BY <2>1
<1>2. ASSUME NEW m \in 1 .. n, m - 1 \in T PROVE m \in T
  <2>1. PICK f \in [0 .. m - 1 -> S] : Good(m - 1, f)
    BY <1>2
  <2> DEFINE next == step[m][f[m - 1]]
             g == [k \in 0 .. m |-> IF k <= m - 1 THEN f[k] ELSE next]
  <2>2. next \in S
    OBVIOUS
  <2>3. g \in [0 .. m -> S] /\ g[m] = next /\ \A k \in 0 .. m - 1 : g[k] = f[k]
    BY <2>2
  <2> HIDE DEF g
  <2>4. ASSUME NEW k \in 1 .. m PROVE g[k] = step[k][g[k - 1]]
    <3>1. CASE k \in 1 .. m - 1
      BY <3>1, <2>1, <2>3
    <3>2. CASE k = m
      BY <3>2, <2>3
    <3> QED BY <3>1, <3>2
  <2>5. Good(m, g)
    BY <2>1, <2>3, <2>4
  <2> HIDE DEF Good
  <2> QED BY <2>3, <2>5
<1> HIDE DEF Good
<1>3. n \in T
  <2> HIDE DEF T
  <2>1. \A k \in 1 .. n : k - 1 \in T => k \in T
    BY <1>2
  <2>2. \A k \in 0 .. n : k \in T
    BY <1>1, <2>1, UpTo
  <2> QED BY <2>2
<1>4. \E f \in [0 .. n -> S] : Good(n, f)
  BY <1>3
<1> QED BY <1>4 DEF Good, Recursive

-----------------------------------------------------------------------------
(* The attention kernel: the slot runs of csrc/ops.c. *)

\* Quotient and remainder, by a capacity and by the size of a group.
LEMMA DivMod ==
  ASSUME NEW p \in Nat, NEW c \in Nat, c >= 1
  PROVE  /\ p % c \in Nat /\ p % c < c
         /\ p = c * (p \div c) + (p % c) /\ p \div c \in Nat
  OBVIOUS

\* A remainder is determined by where it lies.
LEMMA ModIs ==
  ASSUME NEW p \in Nat, NEW c \in Nat, c >= 1,
         NEW a \in Nat, NEW x \in Nat, x < c, p = c * a + x
  PROVE  p % c = x
<1> DEFINE b == p \div c
<1>1. b \in Nat /\ p = c * b + (p % c) /\ p % c \in Nat /\ p % c < c
  BY DivMod
<1> HIDE DEF b
<1>2. c * b - c * a = c * (b - a)
  BY <1>1
<1>3. c * (b - a) = x - (p % c)
  BY <1>1, <1>2
<1>4. CASE b - a <= -1
  <2>1. c * (b - a) <= -c BY <1>1, <1>4
  <2> QED BY <2>1, <1>1, <1>3
<1>5. CASE b - a >= 1
  <2>1. c * (b - a) >= c BY <1>1, <1>5
  <2> QED BY <2>1, <1>1, <1>3
<1>6. CASE b = a
  <2>1. c * (b - a) = 0 BY <1>1, <1>6
  <2> QED BY <2>1, <1>1, <1>3
<1> QED BY <1>4, <1>5, <1>6, <1>1

\* The slot of a position less than a ring's length after another.
LEMMA SlotAfter ==
  ASSUME NEW start \in Nat, NEW ring \in Nat, ring >= 1, NEW k \in Nat, k < ring
  PROVE  (start + k) % ring
           = IF (start % ring) + k < ring THEN (start % ring) + k
                                          ELSE (start % ring) + k - ring
<1> DEFINE d == start \div ring  s == start % ring
<1>1. s \in Nat /\ s < ring /\ d \in Nat /\ start = ring * d + s
  BY DivMod
<1> HIDE DEF d, s
<1>2. CASE s + k < ring
  <2>1. start + k = ring * d + (s + k) /\ s + k \in Nat
    BY <1>1
  <2>2. (start + k) % ring = s + k
    BY <2>1, <1>1, <1>2, ModIs
  <2> QED BY <2>2, <1>2 DEF s
<1>3. CASE ~(s + k < ring)
  <2> DEFINE x == s + k - ring  d1 == d + 1  p == start + k
  <2>1. /\ x \in Nat /\ x < ring /\ d1 \in Nat /\ p \in Nat
        /\ p = ring * d1 + x
    BY <1>1, <1>3
  <2> HIDE DEF x, d1, p
  <2>2. p % ring = x
    BY <2>1, ModIs
  <2> QED BY <2>2, <1>3 DEF s, x, p
<1> QED BY <1>2, <1>3

\* Rounding to a group of four: at most three slots either way.
LEMMA Rounding ==
  ASSUME NEW x \in Nat
  PROVE  /\ DownTo4(x) \in Nat /\ DownTo4(x) <= x /\ x - 3 <= DownTo4(x)
         /\ UpTo4(x) \in Nat /\ x <= UpTo4(x) /\ UpTo4(x) <= x + 3
  BY DEF DownTo4, UpTo4

\* Two ends at least three slots apart share no group.
LEMMA GroupsApart ==
  ASSUME NEW x \in Nat, NEW y \in Nat, x + 3 <= y
  PROVE  UpTo4(x) <= DownTo4(y)
  BY DEF DownTo4, UpTo4

\* Each position of a window that does not wrap, or leaves three slots of the ring free,
\* is in exactly one lane of one run (ops.c:548-562, 599-625).
THEOREM WindowSummedOnce ==
  ASSUME NEW ring \in Nat, NEW start \in Nat, NEW end \in Nat, start < end,
         ring = 0 \/ end <= ring \/ end - start + 3 <= ring
  PROVE  CountedOnce(ring, start, end)
<1> DEFINE s0 == start % ring  span == end - start
<1>1. span \in Nat /\ span >= 1
  OBVIOUS
<1>2. SUFFICES ASSUME NEW q \in start .. end - 1
      PROVE  /\ Filled(ring, start, end, KvSlot(ring, q)) = {q}
             /\ \E r \in Runs(ring, start, end) :
                  /\ KvSlot(ring, q) \in Lanes(r)
                  /\ \A other \in Runs(ring, start, end) :
                       KvSlot(ring, q) \in Lanes(other) => other = r
  BY DEF CountedOnce
<1>3. CASE ring = 0
  <2>1. Runs(ring, start, end) = {<<start, end>>} /\ KvSlot(ring, q) = q
    BY <1>3 DEF Runs, KvSlot
  <2>2. Filled(ring, start, end, q) = {q}
    BY <1>3 DEF Filled, KvSlot
  <2>3. q \in Lanes(<<start, end>>)
    BY Rounding DEF Lanes
  <2> QED BY <2>1, <2>2, <2>3
<1>4. CASE ring >= 1
  <2>1. span <= ring
    BY <1>4
  <2>2. \A u \in start .. end - 1 :
          KvSlot(ring, u) = IF s0 + (u - start) < ring THEN s0 + (u - start)
                                                       ELSE s0 + (u - start) - ring
    <3>1. SUFFICES ASSUME NEW u \in start .. end - 1
          PROVE  KvSlot(ring, u) = IF s0 + (u - start) < ring THEN s0 + (u - start)
                                                       ELSE s0 + (u - start) - ring
      OBVIOUS
    <3> DEFINE k == u - start
    <3>2. k \in Nat /\ k < ring /\ u = start + k
      BY <2>1
    <3> HIDE DEF k
    <3>3. KvSlot(ring, u) = (start + k) % ring
      BY <3>2, <1>4 DEF KvSlot
    <3>4. KvSlot(ring, u) = IF s0 + k < ring THEN s0 + k ELSE s0 + k - ring
      BY <3>2, <3>3, <1>4, SlotAfter
    <3> QED BY <3>4 DEF k
  <2>3. s0 \in Nat /\ s0 < ring
    BY <1>4, DivMod
  <2> HIDE DEF s0
  <2>4. Filled(ring, start, end, KvSlot(ring, q)) = {q}
    <3>1. \A u \in start .. end - 1 : KvSlot(ring, u) = KvSlot(ring, q) => u = q
      BY <2>1, <2>2, <2>3
    <3> QED BY <3>1 DEF Filled
  <2>5. CASE span >= ring
    <3>1. Runs(ring, start, end) = {<<0, ring>>}
      BY <2>5, <1>4 DEF Runs
    <3>2. KvSlot(ring, q) \in 0 .. ring - 1
      BY <2>1, <2>2, <2>3
    <3>3. KvSlot(ring, q) \in Lanes(<<0, ring>>)
      BY <3>2, Rounding DEF Lanes
    <3> QED BY <3>1, <3>3, <2>4
  <2>6. CASE span < ring /\ s0 + span <= ring
    <3>1. Runs(ring, start, end) = {<<s0, s0 + span>>}
      BY <2>6, <1>4 DEF Runs, s0
    <3>2. KvSlot(ring, q) \in s0 .. s0 + span - 1
      BY <2>6, <2>2, <2>3
    <3>3. KvSlot(ring, q) \in Lanes(<<s0, s0 + span>>)
      BY <3>2, <2>3, Rounding DEF Lanes
    <3> QED BY <3>1, <3>3, <2>4
  <2>7. CASE span < ring /\ ~(s0 + span <= ring)
    <3> DEFINE e == s0 + span - ring  A == <<s0, ring>>  B == <<0, e>>
    <3>1. Runs(ring, start, end) = {A, B}
      BY <2>7, <1>4 DEF Runs, s0
    <3>2. e \in Nat /\ e >= 1 /\ e + 3 <= s0
      <4>1. ~(end <= ring)
        <5>1. SUFFICES ASSUME end <= ring PROVE FALSE
          OBVIOUS
        <5>2. start < ring /\ start = ring * 0 + start
          BY <5>1
        <5>3. s0 = start
          BY <5>2, <1>4, ModIs DEF s0
        <5> QED BY <5>1, <5>3, <2>7
      <4> QED BY <4>1, <2>7, <2>3, <1>4
    <3>3. UpTo4(e) <= DownTo4(s0)
      BY <3>2, <2>3, GroupsApart
    <3>4. \/ KvSlot(ring, q) \in s0 .. ring - 1
          \/ KvSlot(ring, q) \in 0 .. e - 1
      BY <2>2, <2>3, <2>7
    <3>5. /\ Lanes(A) = DownTo4(s0) .. (UpTo4(ring) - 1)
          /\ Lanes(B) = DownTo4(0) .. (UpTo4(e) - 1)
          /\ A # B
      BY <3>2 DEF Lanes
    <3>8. /\ DownTo4(s0) \in Nat /\ DownTo4(s0) <= s0
          /\ UpTo4(ring) \in Nat /\ ring <= UpTo4(ring)
          /\ DownTo4(0) = 0 /\ UpTo4(e) \in Nat /\ e <= UpTo4(e)
      BY <3>2, <2>3, Rounding
    <3> HIDE DEF e, A, B
    <3>6. CASE KvSlot(ring, q) \in s0 .. ring - 1
      <4>1. KvSlot(ring, q) \in Lanes(A) /\ KvSlot(ring, q) \notin Lanes(B)
        BY <3>3, <3>5, <3>6, <3>8, <2>3
      <4> QED BY <4>1, <3>1, <2>4
    <3>7. CASE KvSlot(ring, q) \in 0 .. e - 1
      <4>1. KvSlot(ring, q) \in Lanes(B) /\ KvSlot(ring, q) \notin Lanes(A)
        BY <3>2, <3>3, <3>5, <3>7, <3>8, <2>3
      <4> QED BY <4>1, <3>1, <2>4
    <3> QED BY <3>4, <3>6, <3>7
  <2> QED BY <2>5, <2>6, <2>7, <2>3, <1>1, <1>4
<1> QED BY <1>3, <1>4

-----------------------------------------------------------------------------
(* The cache *)

\* The bounds on the configuration, as numbers.
LEMMA ChunkFacts ==
  /\ NumLayers \in Nat /\ FirstShared \in 1 .. NumLayers
  /\ Window \in Nat /\ Window >= 1 /\ Ctx \in Nat /\ Ctx >= 1
  /\ Chunk \in Nat /\ Chunk >= 1
  BY KvAssumption

\* A layer's capacity never exceeds the context (kv.rs, KvCache::build).
LEMMA CapacityFacts ==
  ASSUME NEW l \in Owned
  PROVE  /\ Capacity(l) \in Nat /\ 1 <= Capacity(l) /\ Capacity(l) <= Ctx
         /\ NeedsFull(l) => Capacity(l) = Ctx
         /\ ~NeedsFull(l) => Capacity(l) = MinOf(Window + Chunk, Ctx)
  BY ChunkFacts DEF Capacity, MinOf

\* Positions less than a ring's length apart have different slots.
LEMMA ModInjective ==
  ASSUME NEW p \in Nat, NEW q \in Nat, NEW c \in Nat, c >= 1,
         p < q, q - p < c
  PROVE  p % c # q % c
<1>1. SUFFICES ASSUME p % c = q % c PROVE FALSE
  OBVIOUS
<1> DEFINE a == p \div c  b == q \div c
<1>2. a \in Nat /\ b \in Nat /\ p = c * a + (p % c) /\ q = c * b + (q % c)
  BY DivMod
<1>3. p % c \in Int /\ q % c \in Int
  BY DivMod
<1> HIDE DEF a, b
<1>4. q - p = c * b - c * a
  BY <1>1, <1>2, <1>3
<1>5. c * b - c * a = c * (b - a)
  BY <1>2
<1>6. CASE b - a <= 0
  <2>1. c * (b - a) <= 0 BY <1>6, <1>2
  <2> QED BY <2>1, <1>4, <1>5
<1>7. CASE b - a >= 1
  <2>1. c * (b - a) >= c BY <1>7, <1>2
  <2> QED BY <2>1, <1>4, <1>5
<1> QED BY <1>6, <1>7, <1>2

\* A position of the context has a slot in every layer (kv.rs, slot).
LEMMA SlotOfType ==
  ASSUME NEW l \in Owned, NEW p \in 0 .. Ctx - 1
  PROVE  SlotOf(l, p) \in Slots(l)
<1>1. CASE NeedsFull(l)
  BY <1>1, CapacityFacts DEF SlotOf, Slots
<1>2. CASE ~NeedsFull(l)
  <2>1. p \in Nat /\ Capacity(l) \in Nat /\ Capacity(l) >= 1
    BY ChunkFacts, CapacityFacts
  <2>2. p % Capacity(l) \in 0 .. Capacity(l) - 1
    BY <2>1, DivMod
  <2> QED BY <1>2, <2>2 DEF SlotOf, Slots
<1> QED BY <1>1, <1>2

\* ... and no two positions a layer remembers at once share one.
LEMMA SlotOfInjective ==
  ASSUME NEW l \in Owned, NEW p \in Nat, NEW q \in Nat,
         p < q, q - p < Capacity(l)
  PROVE  SlotOf(l, p) # SlotOf(l, q)
  BY CapacityFacts, ModInjective DEF SlotOf

\* The layer a layer reads owns storage, and is no ring unless the reader slides
\* (model.rs, kv_source).
LEMMA KvSourceFacts ==
  ASSUME NEW l \in Layers
  PROVE  /\ KvSource(l) \in Owned
         /\ ~NeedsFull(KvSource(l)) => l \in Sliding
<1>1. CASE ~IsShared(l)
  BY <1>1, ChunkFacts DEF KvSource, IsShared, Owned, Layers, NeedsFull
<1>2. CASE IsShared(l)
  <2>1. l \in Layers \ Owned
    BY <1>2, ChunkFacts DEF IsShared, Owned, Layers
  <2>2. KvSource(l) \in StoreFull /\ (KvSource(l) \in Sliding <=> l \in Sliding)
    BY <1>2, <2>1, KvAssumption DEF KvSource
  <2> QED BY <2>2, KvAssumption DEF NeedsFull
<1> QED BY <1>1, <1>2

-----------------------------------------------------------------------------

\* new makes an empty cache.
LEMMA NewCacheType == IsCache(NewCache, Elem) /\ NewCache.len = 0
  BY ChunkFacts DEF IsCache, NewCache, Row

\* clear keeps the rows.
LEMMA ClearType ==
  ASSUME NEW c, IsCache(c, Elem)
  PROVE  IsCache(Clear(c), Elem) /\ Clear(c).len = 0 /\ Clear(c).rows = c.rows
  BY ChunkFacts DEF IsCache, Clear

\* fork_from makes a cache of the template's length.
LEMMA ForkType ==
  ASSUME NEW c, IsCache(c, Elem), NEW src, IsCache(src, Elem)
  PROVE  IsCache(ForkFrom(c, src), Elem) /\ ForkFrom(c, src).len = src.len
  BY DEF IsCache, ForkFrom

\* fork_from copies everything a sequence needs, wrapped or not (kv.rs, fork_from).
LEMMA ForkHolds ==
  ASSUME NEW c, NEW src, NEW h \in Seq(Elem),
         Holds(src, h), src.len = Len(h), Len(h) <= Ctx
  PROVE  Holds(ForkFrom(c, src), h)
<1>1. SUFFICES ASSUME NEW l \in Owned, NEW p \in Live(l, Len(h))
               PROVE  ForkFrom(c, src).rows[l][SlotOf(l, p)] = SubSeq(h, 1, p + 1)
  BY DEF Holds
<1>2. Len(h) \in Nat /\ p \in 0 .. Len(h) - 1 /\ p \in 0 .. Ctx - 1
  BY LenProperties, ChunkFacts DEF Live
<1>3. SlotOf(l, p) \in Slots(l) /\ src.rows[l][SlotOf(l, p)] = SubSeq(h, 1, p + 1)
  BY <1>2, SlotOfType DEF Holds
<1>4. SlotOf(l, p) < ForkSlots(l, Len(h))
  <2>1. CASE NeedsFull(l)
    BY <2>1, <1>2 DEF SlotOf, ForkSlots
  <2>2. CASE ~NeedsFull(l) /\ Len(h) >= Capacity(l)
    BY <2>2, <1>3, CapacityFacts DEF ForkSlots, Slots
  <2>3. CASE ~NeedsFull(l) /\ ~(Len(h) >= Capacity(l))
    <3>1. p \in Nat /\ Capacity(l) \in Nat /\ p < Capacity(l)
      BY <2>3, <1>2, CapacityFacts
    <3>2. p % Capacity(l) = p
      BY <3>1
    <3> QED BY <3>2, <2>3, <1>2 DEF SlotOf, ForkSlots
  <2> QED BY <2>1, <2>2, <2>3
<1> QED BY <1>3, <1>4 DEF ForkFrom

-----------------------------------------------------------------------------

\* One forward's rows fit every layer at once.
LEMMA BatchFits ==
  ASSUME NEW l \in Owned, NEW n \in Nat, n <= Chunk, n <= Ctx
  PROVE  n <= Capacity(l)
  BY CapacityFacts, ChunkFacts DEF MinOf

\* Each row of a forward is found in its slot after the writes.
LEMMA WrittenNew ==
  ASSUME NEW c, NEW e \in Seq(Elem), NEW off \in Nat,
         Len(e) <= Chunk, off + Len(e) <= Ctx,
         NEW l \in Owned, NEW k \in 1 .. Len(e)
  PROVE  /\ SlotOf(l, off + k - 1) \in Slots(l)
         /\ Written(c, e, off)[l][SlotOf(l, off + k - 1)]
              = Base(c, off) \o SubSeq(e, 1, k)
<1> DEFINE s    == SlotOf(l, off + k - 1)
           mine == {j \in 1 .. Len(e) : SlotOf(l, off + j - 1) = s}
<1>1. Len(e) \in Nat /\ Len(e) <= Capacity(l) /\ Capacity(l) \in Nat
  <2>1. Len(e) \in Nat
    BY LenProperties
  <2> QED BY <2>1, BatchFits, CapacityFacts, ChunkFacts
<1>2. s \in Slots(l)
  <2>1. off + k - 1 \in 0 .. Ctx - 1
    BY <1>1, ChunkFacts
  <2> QED BY <2>1, SlotOfType
<1>3. ASSUME NEW j \in mine PROVE j = k
  <2>1. off + j - 1 \in Nat /\ off + k - 1 \in Nat
    BY <1>1
  <2>2. CASE j < k
    BY <2>1, <2>2, <1>1, SlotOfInjective
  <2>3. CASE k < j
    BY <2>1, <2>3, <1>1, SlotOfInjective
  <2> QED BY <2>2, <2>3, <1>1
<1>4. mine = {k}
  BY <1>3
<1>5. (CHOOSE j \in mine : \A i \in mine : i <= j) = k
  <2> HIDE DEF mine
  <2>1. k \in mine /\ \A i \in mine : i <= k
    BY <1>4
  <2>2. (CHOOSE j \in mine : \A i \in mine : i <= j) \in mine
    BY <2>1, Zenon
  <2> QED BY <2>2, <1>4
<1> HIDE DEF s
<1>6. Written(c, e, off)[l][s] = Base(c, off) \o SubSeq(e, 1, k)
  BY <1>2, <1>4, <1>5 DEF Written
<1> QED BY <1>2, <1>6 DEF s

\* A slot no row maps to is left alone.
LEMMA WrittenOld ==
  ASSUME NEW c, NEW e, NEW off, NEW l \in Owned, NEW s \in Slots(l),
         \A k \in 1 .. Len(e) : SlotOf(l, off + k - 1) # s
  PROVE  Written(c, e, off)[l][s] = c.rows[l][s]
  BY DEF Written

\* What the cached rows stand for is the sequence they were written for.
LEMMA BaseOfHolds ==
  ASSUME NEW c, NEW h \in Seq(Elem), Holds(c, h), Len(h) <= Ctx
  PROVE  Base(c, Len(h)) = h
<1>1. Len(h) \in Nat /\ 0 \in Owned
  BY LenProperties, ChunkFacts DEF Owned
<1>2. CASE Len(h) = 0
  BY <1>2, EmptySeq DEF Base
<1>3. CASE Len(h) # 0
  <2>1. Len(h) - 1 \in Live(0, Len(h))
    BY <1>1, <1>3, CapacityFacts DEF Live
  <2>2. c.rows[0][SlotOf(0, Len(h) - 1)] = SubSeq(h, 1, Len(h))
    BY <2>1, <1>1 DEF Holds
  <2> QED BY <2>2, <1>3, SubSeqFull DEF Base
<1> QED BY <1>2, <1>3

\* ... which is the sequence up to that row, when the rows below are its own.
LEMMA WrittenOwn ==
  ASSUME NEW c, NEW h \in Seq(Elem), NEW e \in Seq(Elem), Base(c, Len(h)) = h,
         Len(e) <= Chunk, Len(h) + Len(e) <= Ctx,
         NEW l \in Owned, NEW p \in Len(h) .. Len(h) + Len(e) - 1
  PROVE  Written(c, e, Len(h))[l][SlotOf(l, p)] = SubSeq(h \o e, 1, p + 1)
<1>1. /\ Len(h) \in Nat /\ Len(e) \in Nat
      /\ h \o e \in Seq(Elem) /\ Len(h \o e) = Len(h) + Len(e)
  BY LenProperties, ConcatProperties
<1> DEFINE k == p - Len(h) + 1
<1>2. k \in 1 .. Len(e) /\ Len(h) + k - 1 = p
  BY <1>1
<1>3. Written(c, e, Len(h))[l][SlotOf(l, p)] = h \o SubSeq(e, 1, k)
  <2>1. Written(c, e, Len(h))[l][SlotOf(l, Len(h) + k - 1)]
          = Base(c, Len(h)) \o SubSeq(e, 1, k)
    <3> HIDE DEF k
    <3> QED BY <1>1, <1>2, WrittenNew
  <2> QED BY <2>1, <1>2
<1>4. h \o SubSeq(e, 1, k) = SubSeq(h \o e, 1, p + 1)
  <2>1. SubSeq(e, 1, k) \in Seq(Elem) /\ Len(SubSeq(e, 1, k)) = k
    BY <1>1, <1>2, SubSeqProperties, ElementOfSeq
  <2> QED BY <2>1, <1>1, <1>2, SeqEqual, ConcatProperties, SubSeqProperties
<1> QED BY <1>3, <1>4

\* What a batch leaves at every position that is still live after it.
LEMMA WrittenHolds ==
  ASSUME NEW c, NEW h \in Seq(Elem), NEW e \in Seq(Elem), Holds(c, h),
         Len(e) <= Chunk, Len(h) + Len(e) <= Ctx,
         NEW l \in Owned, NEW p \in Live(l, Len(h) + Len(e))
  PROVE  Written(c, e, Len(h))[l][SlotOf(l, p)] = SubSeq(h \o e, 1, p + 1)
<1>1. /\ Len(h) \in Nat /\ Len(e) \in Nat /\ Len(h) <= Ctx
      /\ h \o e \in Seq(Elem) /\ Len(h \o e) = Len(h) + Len(e)
  BY LenProperties, ConcatProperties, ChunkFacts
<1>2. p \in 0 .. Len(h) + Len(e) - 1 /\ p >= Len(h) + Len(e) - Capacity(l)
  BY <1>1, CapacityFacts DEF Live
<1>3. CASE p >= Len(h)
  <2>1. p \in Len(h) .. Len(h) + Len(e) - 1 /\ Base(c, Len(h)) = h
    BY <1>1, <1>2, <1>3, BaseOfHolds
  <2> QED BY <2>1, WrittenOwn
<1>4. CASE p < Len(h)
  <2>1. p \in Live(l, Len(h))
    BY <1>1, <1>2, <1>4, CapacityFacts DEF Live
  <2>2. p \in Nat /\ SlotOf(l, p) \in Slots(l)
    BY <1>1, <1>2, <1>4, SlotOfType, ChunkFacts
  <2>3. ASSUME NEW k \in 1 .. Len(e) PROVE SlotOf(l, Len(h) + k - 1) # SlotOf(l, p)
    BY <1>1, <1>2, <1>4, <2>2, SlotOfInjective, CapacityFacts
  <2>4. Written(c, e, Len(h))[l][SlotOf(l, p)] = SubSeq(h, 1, p + 1)
    <3>1. Written(c, e, Len(h))[l][SlotOf(l, p)] = c.rows[l][SlotOf(l, p)]
      BY <2>2, <2>3, WrittenOld
    <3> QED BY <3>1, <2>1 DEF Holds
  <2>5. SubSeq(h, 1, p + 1) = SubSeq(h \o e, 1, p + 1)
    BY <1>1, <1>2, <1>4, SubSeqOfConcat1
  <2> QED BY <2>4, <2>5
<1> QED BY <1>1, <1>2, <1>3, <1>4

\* No position attention may read has been overwritten: the ring has room for
\* the window and the rows of the batch.
LEMMA ReadsLive ==
  ASSUME NEW n \in Nat, NEW m \in Nat, m <= Chunk, n + m <= Ctx,
         NEW l \in Layers, NEW k \in 1 .. m,
         NEW q \in WindowStart(l, n + k - 1) .. n + k - 1
  PROVE  q \in Live(KvSource(l), n + m)
<1> DEFINE s == KvSource(l)
<1>1. /\ s \in Owned /\ Capacity(s) \in Nat
      /\ NeedsFull(s) => Capacity(s) = Ctx
      /\ ~NeedsFull(s) => l \in Sliding /\ Capacity(s) = MinOf(Window + Chunk, Ctx)
  BY KvSourceFacts, CapacityFacts
<1>2. /\ WindowStart(l, n + k - 1) \in Nat
      /\ l \in Sliding => WindowStart(l, n + k - 1) >= n + k - Window
  BY ChunkFacts DEF WindowStart, SatSub
<1> HIDE DEF s
<1>3. q \in 0 .. n + m - 1
  BY <1>2
<1>4. q >= n + m - Capacity(s)
  <2>1. CASE NeedsFull(s)
    BY <2>1, <1>1, <1>3
  <2>2. CASE ~NeedsFull(s)
    BY <2>2, <1>1, <1>2, <1>3, ChunkFacts DEF MinOf
  <2> QED BY <2>1, <2>2
<1>5. q \in Live(s, n + m)
  BY <1>3, <1>4, <1>1 DEF Live
<1> QED BY <1>5 DEF s

\* In every layer, the kernel sums each position of a query's window once.
LEMMA LayersSumOnce ==
  ASSUME NEW l \in Layers, NEW p \in 0 .. Ctx - 1
  PROVE  SummedOnce[l][p]
<1> DEFINE s == KvSource(l)  start == WindowStart(l, p)
<1>1. /\ s \in Owned /\ Capacity(s) \in Nat
      /\ ~NeedsFull(s) => l \in Sliding /\ Capacity(s) = MinOf(Window + Chunk, Ctx)
  BY KvSourceFacts, CapacityFacts
<1>2. /\ p \in Nat /\ start \in Nat /\ start < p + 1
      /\ l \in Sliding => p + 1 - start <= Window
  BY ChunkFacts DEF WindowStart, SatSub
<1>3. RingOf(l) = IF NeedsFull(s) THEN 0 ELSE Capacity(s)
  BY DEF RingOf
<1> HIDE DEF s, start
<1>4. CountedOnce(RingOf(l), start, p + 1)
  <2>1. RingOf(l) \in Nat /\ p + 1 \in Nat
    BY <1>1, <1>2, <1>3
  <2>2. RingOf(l) = 0 \/ p + 1 <= RingOf(l) \/ p + 1 - start + 3 <= RingOf(l)
    BY <1>1, <1>2, <1>3, ChunkFacts, RingAssumption DEF MinOf
  <2> QED BY <1>2, <2>1, <2>2, WindowSummedOnce
<1> QED BY <1>4 DEF SummedOnce, start

\* Whatever a forward computes, it leaves a cache.
LEMMA ForwardType ==
  ASSUME NEW c, IsCache(c, Elem), NEW e \in Seq(Elem), NEW off \in Nat,
         Len(e) <= Chunk, off + Len(e) <= Ctx
  PROVE  IsCache(Forward(c, e, off).kv, Elem)
<1> DEFINE rows  == Written(c, e, off)
           spoil == [l \in Owned |-> [s \in Slots(l) |->
                       IF \E k \in 1 .. Len(e) : SlotOf(l, off + k - 1) = s
                       THEN Bad ELSE c.rows[l][s]]]
           new   == IF c.len >= off + Len(e) THEN c.len ELSE off + Len(e)
           ok    == /\ Base(c, off) \notin {Zero, Bad}
                    /\ \A k \in 1 .. Len(e) : Sound(rows, Base(c, off) \o e, off + k - 1)
<1>1. Len(e) \in Nat /\ 0 \in Owned /\ Ctx \in Nat
  BY LenProperties, ChunkFacts DEF Owned
<1>2. new \in 0 .. Ctx
  BY <1>1 DEF IsCache
<1>3. Base(c, off) \in Row(Elem)
  <2>1. CASE off = 0
    BY <2>1, EmptySeq DEF Base, Row
  <2>2. CASE off # 0
    <3>1. SlotOf(0, off - 1) \in Slots(0)
      BY <2>2, <1>1, SlotOfType
    <3> QED BY <3>1, <2>2, <1>1 DEF Base, IsCache
  <2> QED BY <2>1, <2>2
<1>4. ASSUME Base(c, off) \notin {Zero, Bad}, NEW l \in Owned, NEW s \in Slots(l)
      PROVE  rows[l][s] \in Row(Elem)
  <2>1. CASE \E k \in 1 .. Len(e) : SlotOf(l, off + k - 1) = s
    <3>1. PICK k \in 1 .. Len(e) : SlotOf(l, off + k - 1) = s
      BY <2>1
    <3>2. rows[l][s] = Base(c, off) \o SubSeq(e, 1, k)
      BY <3>1, WrittenNew
    <3>3. SubSeq(e, 1, k) \in Seq(Elem) /\ Base(c, off) \in Seq(Elem)
      BY <1>1, <1>3, <1>4, SubSeqProperties, ElementOfSeq DEF Row
    <3> QED BY <3>2, <3>3, ConcatProperties DEF Row
  <2>2. CASE ~\E k \in 1 .. Len(e) : SlotOf(l, off + k - 1) = s
    <3>1. rows[l][s] = c.rows[l][s]
      BY <2>2, WrittenOld
    <3> QED BY <3>1 DEF IsCache
  <2> QED BY <2>1, <2>2
<1>5. \A l \in Owned : \A s \in Slots(l) : spoil[l][s] \in Row(Elem)
  BY DEF IsCache, Row
<1>6. /\ DOMAIN rows = Owned /\ DOMAIN spoil = Owned
      /\ \A l \in Owned : DOMAIN rows[l] = Slots(l) /\ DOMAIN spoil[l] = Slots(l)
  BY DEF Written
<1>7. Forward(c, e, off).kv = [len |-> new, rows |-> IF ok THEN rows ELSE spoil]
  BY DEF Forward
<1>8. ok => Base(c, off) \notin {Zero, Bad}
  OBVIOUS
<1> HIDE DEF rows, spoil, new, ok
<1>9. CASE ok
  BY <1>9, <1>2, <1>4, <1>6, <1>7, <1>8 DEF IsCache
<1>10. CASE ~ok
  BY <1>10, <1>2, <1>5, <1>6, <1>7 DEF IsCache
<1> QED BY <1>9, <1>10

\* A forward whose rows all read their own sequence computes that sequence.
LEMMA ForwardFine ==
  ASSUME NEW c, NEW h \in Seq(Elem), NEW e \in Seq(Elem), Base(c, Len(h)) = h,
         Len(h) + Len(e) <= Ctx,
         \A l \in Layers, k \in 1 .. Len(e) :
           \A q \in WindowStart(l, Len(h) + k - 1) .. Len(h) + k - 1 :
             Written(c, e, Len(h))[KvSource(l)][SlotOf(KvSource(l), q)]
               = SubSeq(h \o e, 1, q + 1)
  PROVE  Forward(c, e, Len(h)) =
           [kv  |-> [len  |-> IF c.len >= Len(h) + Len(e) THEN c.len ELSE Len(h) + Len(e),
                     rows |-> Written(c, e, Len(h))],
            out |-> h \o e]
<1> DEFINE rows == Written(c, e, Len(h))
<1>1. Len(h) \in Nat /\ Len(e) \in Nat
  BY LenProperties
<1>2. h \notin {Zero, Bad}
  BY RowAssumption
<1>3. ASSUME NEW k \in 1 .. Len(e) PROVE Sound(rows, h \o e, Len(h) + k - 1)
  <2>1. Len(h) + k - 1 \in 0 .. Ctx - 1
    BY <1>1, ChunkFacts
  <2>2. \A l \in Layers : SummedOnce[l][Len(h) + k - 1]
    BY <2>1, LayersSumOnce
  <2> QED BY <2>2 DEF Sound
<1> QED BY <1>2, <1>3 DEF Forward

\* A forward over a cache that holds h leaves it holding h \o e, and its logits
\* are those of h \o e: no row of the batch read a row of anything else.
LEMMA ForwardHolds ==
  ASSUME NEW c, NEW h \in Seq(Elem), NEW e \in Seq(Elem),
         IsCache(c, Elem), Holds(c, h),
         1 <= Len(e), Len(e) <= Chunk, Len(h) + Len(e) <= Ctx
  PROVE  /\ Forward(c, e, Len(h)).out = h \o e
         /\ Forward(c, e, Len(h)).kv.len
              = IF c.len >= Len(h) + Len(e) THEN c.len ELSE Len(h) + Len(e)
         /\ IsCache(Forward(c, e, Len(h)).kv, Elem)
         /\ Holds(Forward(c, e, Len(h)).kv, h \o e)
<1> DEFINE rows == Written(c, e, Len(h))
           new  == IF c.len >= Len(h) + Len(e) THEN c.len ELSE Len(h) + Len(e)
<1>1. /\ Len(h) \in Nat /\ Len(e) \in Nat /\ Len(h) <= Ctx
      /\ h \o e \in Seq(Elem) /\ Len(h \o e) = Len(h) + Len(e)
  BY LenProperties, ConcatProperties, ChunkFacts
<1>2. Base(c, Len(h)) = h
  BY <1>1, BaseOfHolds
<1>4. ASSUME NEW l \in Layers, NEW k \in 1 .. Len(e),
             NEW q \in WindowStart(l, Len(h) + k - 1) .. Len(h) + k - 1
      PROVE  rows[KvSource(l)][SlotOf(KvSource(l), q)] = SubSeq(h \o e, 1, q + 1)
  <2>1. q \in Live(KvSource(l), Len(h) + Len(e)) /\ KvSource(l) \in Owned
    BY <1>1, ReadsLive, KvSourceFacts
  <2> HIDE DEF rows
  <2> QED BY <2>1, WrittenHolds DEF rows
<1>5. Forward(c, e, Len(h)) = [kv |-> [len |-> new, rows |-> rows], out |-> h \o e]
  BY <1>2, <1>4, ForwardFine
<1>6. Holds([len |-> new, rows |-> rows], h \o e)
  <2>1. SUFFICES ASSUME NEW l \in Owned, NEW p \in Live(l, Len(h \o e))
                 PROVE  rows[l][SlotOf(l, p)] = SubSeq(h \o e, 1, p + 1)
    BY DEF Holds
  <2>2. p \in Live(l, Len(h) + Len(e))
    BY <1>1
  <2> QED BY <2>2, WrittenHolds, ZenonT(30)
<1>7. IsCache(Forward(c, e, Len(h)).kv, Elem)
  BY <1>1, ForwardType
<1> HIDE DEF rows, new
<1> QED BY <1>5, <1>6, <1>7 DEF new

-----------------------------------------------------------------------------
(* Histories *)

\* An arithmetic is one of the four classes.
LEMMA ArithType ==
  ASSUME NEW m, NEW span PROVE Arith(m, span) \in ArithClass
  BY DEF Arith, ArithClass

\* A function on 1 .. n is a sequence of length n.
LEMMA FunctionIsSeq ==
  ASSUME NEW S, NEW n \in Nat, NEW f \in [1 .. n -> S]
  PROVE  f \in Seq(S) /\ Len(f) = n
  BY SeqDef

\* The rows of one forward.
LEMMA ElemsType ==
  ASSUME NEW toks \in Seq(Token), NEW a \in ArithClass
  PROVE  /\ Elems(toks, a) \in Seq(Elem)
         /\ Len(Elems(toks, a)) = Len(toks)
         /\ \A k \in 1 .. Len(toks) : Elems(toks, a)[k] = [tok |-> toks[k], arith |-> a]
<1>1. Len(toks) \in Nat /\ \A k \in 1 .. Len(toks) : toks[k] \in Token
  BY LenProperties, ElementOfSeq
<1>2. Elems(toks, a) \in [1 .. Len(toks) -> Elem]
  BY <1>1 DEF Elems, Elem
<1> QED BY <1>1, <1>2, FunctionIsSeq DEF Elems

\* A full prefill leaves one element per token.
LEMMA FullPrefillType ==
  ASSUME NEW toks \in Seq(Token)
  PROVE  /\ FullPrefill(toks) \in Seq(Elem)
         /\ Len(FullPrefill(toks)) = Len(toks)
<1>1. Len(toks) \in Nat /\ \A k \in 1 .. Len(toks) : toks[k] \in Token
  BY LenProperties, ElementOfSeq
<1>2. FullPrefill(toks) \in [1 .. Len(toks) -> Elem]
  BY <1>1, ArithType DEF FullPrefill, PrefillArith, Elem
<1> QED BY <1>1, <1>2, FunctionIsSeq

(* A run alone *)

\* The elements of the tokens decoded after a prompt of n tokens, one at a time.
Decoded(n, ids) == [k \in 1 .. Len(ids) |-> [tok |-> ids[k], arith |-> Arith(1, n + k)]]

LEMMA DecodedType ==
  ASSUME NEW n, NEW ids \in Seq(Token)
  PROVE  /\ Decoded(n, ids) \in Seq(Elem) /\ Len(Decoded(n, ids)) = Len(ids)
         /\ \A k \in 1 .. Len(ids) :
              Decoded(n, ids)[k] = [tok |-> ids[k], arith |-> Arith(1, n + k)]
<1>1. Len(ids) \in Nat /\ \A k \in 1 .. Len(ids) : ids[k] \in Token
  BY LenProperties, ElementOfSeq
<1>2. Decoded(n, ids) \in [1 .. Len(ids) -> Elem]
  BY <1>1, ArithType DEF Decoded, Elem
<1> QED BY <1>1, <1>2, FunctionIsSeq DEF Decoded

\* A lone run leaves one element per token of its prompt and its completion.
LEMMA LoneRunType ==
  ASSUME NEW prompt \in Seq(Token), NEW ids \in Seq(Token)
  PROVE  /\ LoneRun(prompt, ids) \in Seq(Elem)
         /\ Len(LoneRun(prompt, ids)) = Len(prompt) + Len(ids)
<1> DEFINE full == FullPrefill(prompt)  rest == Decoded(Len(prompt), ids)
<1>1. /\ full \in Seq(Elem) /\ Len(full) = Len(prompt)
      /\ rest \in Seq(Elem) /\ Len(rest) = Len(ids)
  BY FullPrefillType, DecodedType
<1>2. LoneRun(prompt, ids) = full \o rest
  BY DEF LoneRun, Decoded
<1> HIDE DEF full, rest
<1>3. full \o rest \in Seq(Elem) /\ Len(full \o rest) = Len(full) + Len(rest)
  BY <1>1, ConcatProperties
<1> QED BY <1>1, <1>2, <1>3

\* Before the first decode step a lone run is its prefill.
LEMMA LoneRunNothing ==
  ASSUME NEW prompt \in Seq(Token) PROVE LoneRun(prompt, <<>>) = FullPrefill(prompt)
<1>1. FullPrefill(prompt) \in Seq(Elem)
  BY FullPrefillType
<1>2. [k \in 1 .. Len(<<>>) |-> [tok |-> <<>>[k], arith |-> Arith(1, Len(prompt) + k)]] = <<>>
  BY EmptySeq
<1> QED BY <1>1, <1>2, ConcatEmptySeq DEF LoneRun

\* Tokens that went in by one forward are those of a lone run, when a forward of their
\* number computes them like forwards of one row.
LEMMA LoneRunExtend ==
  ASSUME NEW prompt \in Seq(Token), NEW ids \in Seq(Token), NEW toks \in Seq(Token),
         NEW a \in ArithClass,
         \A k \in 1 .. Len(toks) : Arith(1, Len(prompt) + Len(ids) + k) = a
  PROVE  LoneRun(prompt, ids \o toks) = LoneRun(prompt, ids) \o Elems(toks, a)
<1> DEFINE n == Len(prompt)  more == ids \o toks  e == Elems(toks, a)
           old == Decoded(n, ids)  new == Decoded(n, more)  full == FullPrefill(prompt)
<1>1. /\ n \in Nat /\ Len(ids) \in Nat /\ Len(toks) \in Nat
      /\ more \in Seq(Token) /\ Len(more) = Len(ids) + Len(toks)
      /\ \A k \in 1 .. Len(ids) + Len(toks) :
           more[k] = IF k <= Len(ids) THEN ids[k] ELSE toks[k - Len(ids)]
  BY LenProperties, ConcatProperties
<1> HIDE DEF more, n
<1>2. /\ e \in Seq(Elem) /\ Len(e) = Len(toks)
      /\ \A k \in 1 .. Len(toks) : e[k] = [tok |-> toks[k], arith |-> a]
  BY ElemsType
<1>3. /\ old \in Seq(Elem) /\ Len(old) = Len(ids)
      /\ \A k \in 1 .. Len(ids) : old[k] = [tok |-> ids[k], arith |-> Arith(1, n + k)]
  BY DecodedType
<1>4. /\ new \in Seq(Elem) /\ Len(new) = Len(more)
      /\ \A k \in 1 .. Len(more) : new[k] = [tok |-> more[k], arith |-> Arith(1, n + k)]
  BY <1>1, DecodedType
<1>5. full \in Seq(Elem)
  BY FullPrefillType
<1>6. LoneRun(prompt, ids) = full \o old /\ LoneRun(prompt, more) = full \o new
  BY DEF LoneRun, Decoded, n
<1> HIDE DEF e, old, new, full
<1>7. /\ old \o e \in Seq(Elem) /\ Len(old \o e) = Len(ids) + Len(toks)
      /\ \A k \in 1 .. Len(ids) + Len(toks) :
           (old \o e)[k] = IF k <= Len(ids) THEN old[k] ELSE e[k - Len(ids)]
  <2>1. /\ old \o e \in Seq(Elem) /\ Len(old \o e) = Len(old) + Len(e)
        /\ \A k \in 1 .. Len(old) + Len(e) :
             (old \o e)[k] = IF k <= Len(old) THEN old[k] ELSE e[k - Len(old)]
    <3>1. old \in Seq(Elem) /\ e \in Seq(Elem)
      BY <1>2, <1>3
    <3> QED BY <3>1, ConcatProperties
  <2>2. Len(old) = Len(ids) /\ Len(e) = Len(toks)
    BY <1>2, <1>3
  <2> DEFINE both == old \o e
  <2> HIDE DEF both
  <2>3. both \in Seq(Elem) /\ Len(both) = Len(ids) + Len(toks)
    BY <2>1, <2>2 DEF both
  <2>4. \A k \in 1 .. Len(ids) + Len(toks) :
          both[k] = IF k <= Len(ids) THEN old[k] ELSE e[k - Len(ids)]
    BY <2>1, <2>2, Zenon DEF both
  <2> QED BY <2>3, <2>4 DEF both
<1>8. ASSUME NEW k \in 1 .. Len(ids) + Len(toks) PROVE new[k] = (old \o e)[k]
  <2>1. CASE k <= Len(ids)
    <3>1. k \in 1 .. Len(ids) /\ k \in 1 .. Len(more)
      BY <2>1, <1>1
    <3>2. (old \o e)[k] = old[k] /\ more[k] = ids[k]
      BY <2>1, <1>1, <1>7
    <3>3. old[k] = [tok |-> ids[k], arith |-> Arith(1, n + k)]
      BY <3>1, <1>3
    <3>4. new[k] = [tok |-> more[k], arith |-> Arith(1, n + k)]
      BY <3>1, <1>4
    <3> QED BY <3>2, <3>3, <3>4
  <2>2. CASE ~(k <= Len(ids))
    <3> DEFINE j == k - Len(ids)
    <3>1. j \in 1 .. Len(toks) /\ n + k = n + Len(ids) + j /\ more[k] = toks[j]
      BY <2>2, <1>1
    <3>2. Arith(1, n + k) = a
      BY <3>1 DEF n
    <3>3. (old \o e)[k] = e[j]
      BY <2>2, <1>7
    <3> HIDE DEF j
    <3> QED BY <3>1, <3>2, <3>3, <1>1, <1>2, <1>4
  <2> QED BY <2>1, <2>2
<1>9. new = old \o e
  <2> DEFINE both == old \o e
  <2>1. /\ both \in Seq(Elem) /\ Len(both) = Len(new)
        /\ \A k \in 1 .. Len(new) : new[k] = both[k]
    <3>1. Len(new) = Len(ids) + Len(toks)
      BY <1>1, <1>4
    <3>2. both \in Seq(Elem) /\ Len(both) = Len(ids) + Len(toks)
      BY <1>7
    <3>3. \A k \in 1 .. Len(ids) + Len(toks) : new[k] = both[k]
      BY <1>8
    <3> QED BY <3>1, <3>2, <3>3
  <2> HIDE DEF both
  <2>2. new = both
    BY <2>1, <1>4, SeqEqual
  <2> QED BY <2>2 DEF both
<1>10. (full \o old) \o e = full \o (old \o e)
  <2>1. e \in Seq(Elem) /\ old \in Seq(Elem) /\ full \in Seq(Elem)
    BY <1>2, <1>3, <1>5
  <2> QED BY <2>1, ConcatAssociative
<1> QED BY <1>6, <1>9, <1>10 DEF more, e

\* A decode step adds one element computed by a forward of one row.
LEMMA LoneRunAppend ==
  ASSUME NEW prompt \in Seq(Token), NEW ids \in Seq(Token), NEW t \in Token
  PROVE  LoneRun(prompt, Append(ids, t)) =
           LoneRun(prompt, ids) \o Elems(<<t>>, Arith(1, Len(prompt) + Len(ids) + 1))
<1> DEFINE one == <<t>>  a == Arith(1, Len(prompt) + Len(ids) + 1)
<1>1. one \in Seq(Token) /\ Len(one) = 1 /\ Append(ids, t) = ids \o one
  BY AppendIsConcat
<1>2. a \in ArithClass
  BY ArithType
<1> HIDE DEF one
<1>3. \A k \in 1 .. Len(one) : Arith(1, Len(prompt) + Len(ids) + k) = a
  BY <1>1
<1> HIDE DEF a
<1>4. LoneRun(prompt, ids \o one) = LoneRun(prompt, ids) \o Elems(one, a)
  BY <1>1, <1>2, <1>3, LoneRunExtend
<1> QED BY <1>1, <1>4 DEF one, a

(* Whole chunks *)

\* A quotient and a remainder determine each other.
LEMMA DivUnique ==
  ASSUME NEW c \in Nat, c >= 1, NEW q \in Nat, NEW r \in 0 .. c - 1
  PROVE  (c * q + r) \div c = q /\ (c * q + r) % c = r
<1> DEFINE p == c * q + r
           a == p \div c
           s == p % c
<1>1. p \in Nat
  <2>1. c * q \in Nat
    OBVIOUS
  <2> QED BY <2>1
<1>2. a \in Nat /\ s \in 0 .. c - 1 /\ p = c * a + s
  <2> HIDE DEF p
  <2> QED BY <1>1, DivMod
<1>3. c * q + r = c * a + s
  BY <1>2
<1> HIDE DEF p, a, s
<1>4. c * (a - q) = r - s
  BY <1>2, <1>3
<1>5. CASE a - q <= -1
  <2>1. c * (a - q) <= -c
    BY <1>5, <1>2
  <2> QED BY <2>1, <1>4, <1>2
<1>6. CASE a - q >= 1
  <2>1. c * (a - q) >= c
    BY <1>6, <1>2
  <2> QED BY <2>1, <1>4, <1>2
<1>7. CASE a = q
  BY <1>7, <1>3, <1>2 DEF a, s, p
<1> QED BY <1>2, <1>5, <1>6, <1>7

\* Flooring to whole chunks (engine.rs, the share rule).
LEMMA WholeChunks ==
  ASSUME NEW x \in Nat
  PROVE  /\ (x \div Chunk) * Chunk \in 0 .. x
         /\ ((x \div Chunk) * Chunk) % Chunk = 0
<1>1. /\ Chunk \in Nat /\ Chunk >= 1 /\ x \div Chunk \in Nat
      /\ x = Chunk * (x \div Chunk) + (x % Chunk) /\ x % Chunk \in 0 .. Chunk - 1
  BY ChunkFacts, DivMod
<1> DEFINE q == x \div Chunk
<1> HIDE DEF q
<1>2. q * Chunk = Chunk * q + 0 /\ q \in Nat /\ q * Chunk \in Nat
  BY <1>1 DEF q
<1>3. (Chunk * q + 0) % Chunk = 0
  BY <1>1, <1>2, DivUnique
<1> QED BY <1>1, <1>2, <1>3 DEF q

\* The positions of the chunk that begins at off.
LEMMA NextChunk ==
  ASSUME NEW off \in Nat, off % Chunk = 0
  PROVE  /\ (off + Chunk) % Chunk = 0
         /\ \A k \in off + 1 .. off + Chunk : ChunkStart(k) = off
<1> DEFINE q == off \div Chunk
<1>1. Chunk \in Nat /\ Chunk >= 1 /\ q \in Nat /\ off = Chunk * q
  BY ChunkFacts, DivMod
<1> HIDE DEF q
<1>2. (off + Chunk) % Chunk = 0
  <2>1. off + Chunk = Chunk * (q + 1) + 0 /\ q + 1 \in Nat
    BY <1>1
  <2> QED BY <2>1, <1>1, DivUnique
<1>3. ASSUME NEW k \in off + 1 .. off + Chunk
      PROVE  ChunkStart(k) = off
  <2> DEFINE i == k - 1 - off
  <2>1. i \in 0 .. Chunk - 1 /\ k - 1 = Chunk * q + i
    BY <1>1
  <2> HIDE DEF i
  <2>2. (k - 1) \div Chunk = q
    BY <2>1, <1>1, DivUnique
  <2> QED BY <2>2, <1>1 DEF ChunkStart
<1> QED BY <1>2, <1>3

\* One chunk more of a full prefill.
LEMMA FullPrefillChunk ==
  ASSUME NEW toks \in Seq(Token), NEW off \in Nat, off % Chunk = 0, off < Len(toks)
  PROVE  LET n == MinOf(Chunk, Len(toks) - off)
             e == Elems(SubSeq(toks, off + 1, off + n), Arith(n, off + n))
         IN  /\ n \in 1 .. Chunk /\ off + n <= Len(toks)
             /\ e \in Seq(Elem) /\ Len(e) = n
             /\ SubSeq(FullPrefill(toks), 1, off) \o e
                  = SubSeq(FullPrefill(toks), 1, off + n)
             /\ (off + n) % Chunk = 0 \/ off + n = Len(toks)
<1> DEFINE n == MinOf(Chunk, Len(toks) - off)
           part == SubSeq(toks, off + 1, off + n)
           e == Elems(part, Arith(n, off + n))
           full == FullPrefill(toks)
<1>1. /\ Len(toks) \in Nat /\ Chunk \in Nat /\ Chunk >= 1
      /\ \A k \in 1 .. Len(toks) : toks[k] \in Token
  BY ChunkFacts, LenProperties, ElementOfSeq
<1>2. /\ n \in 1 .. Chunk /\ off + n <= Len(toks)
      /\ n = Chunk \/ off + n = Len(toks)
  BY <1>1 DEF MinOf
<1> HIDE DEF n
<1>3. /\ part \in Seq(Token) /\ Len(part) = n
      /\ \A k \in 1 .. n : part[k] = toks[off + k]
  BY <1>1, <1>2, SubSeqProperties
<1> HIDE DEF part
<1>4. /\ e \in Seq(Elem) /\ Len(e) = n
      /\ \A k \in 1 .. n : e[k] = [tok |-> toks[off + k], arith |-> Arith(n, off + n)]
  <2>1. Arith(n, off + n) \in ArithClass
    BY ArithType
  <2>2. /\ e \in Seq(Elem) /\ Len(e) = Len(part)
        /\ \A k \in 1 .. Len(part) : e[k] = [tok |-> part[k], arith |-> Arith(n, off + n)]
    BY <1>3, <2>1, ElemsType
  <2> QED BY <2>2, <1>3
<1> HIDE DEF e
<1>5. full \in Seq(Elem) /\ Len(full) = Len(toks)
  BY FullPrefillType
<1>6. ASSUME NEW k \in off + 1 .. off + n
      PROVE  full[k] = [tok |-> toks[k], arith |-> Arith(n, off + n)]
  <2>1. k \in 1 .. Len(toks) /\ k \in off + 1 .. off + Chunk
    BY <1>1, <1>2
  <2>2. ChunkStart(k) = off
    BY <2>1, NextChunk
  <2>3. PrefillArith(off, Len(toks)) = Arith(n, off + n)
    BY DEF PrefillArith, n
  <2> QED BY <2>1, <2>2, <2>3 DEF FullPrefill
<1> HIDE DEF full
<1>7. /\ SubSeq(full, 1, off) \in Seq(Elem) /\ Len(SubSeq(full, 1, off)) = off
      /\ \A k \in 1 .. off : SubSeq(full, 1, off)[k] = full[k]
      /\ SubSeq(full, 1, off + n) \in Seq(Elem) /\ Len(SubSeq(full, 1, off + n)) = off + n
      /\ \A k \in 1 .. off + n : SubSeq(full, 1, off + n)[k] = full[k]
  <2>1. /\ \A k \in 1 .. off : full[k] \in Elem
        /\ \A k \in 1 .. off + n : full[k] \in Elem
    BY <1>1, <1>2, <1>5, ElementOfSeq
  <2> QED BY <2>1, <1>2, SubSeqProperties
<1> DEFINE joined == SubSeq(full, 1, off) \o e
<1>8. /\ joined \in Seq(Elem) /\ Len(joined) = off + n
      /\ \A k \in 1 .. off + n :
           joined[k] = IF k <= off THEN full[k] ELSE e[k - off]
  <2>1. /\ joined \in Seq(Elem)
        /\ Len(joined) = Len(SubSeq(full, 1, off)) + Len(e)
        /\ \A k \in 1 .. Len(SubSeq(full, 1, off)) + Len(e) :
             joined[k] = IF k <= Len(SubSeq(full, 1, off))
                         THEN SubSeq(full, 1, off)[k]
                         ELSE e[k - Len(SubSeq(full, 1, off))]
    BY <1>4, <1>7, ConcatProperties
  <2> HIDE DEF joined
  <2>2. Len(joined) = off + n
    BY <2>1, <1>4, <1>7
  <2>3. ASSUME NEW k \in 1 .. off + n
        PROVE  joined[k] = IF k <= off THEN full[k] ELSE e[k - off]
    BY <2>1, <1>2, <1>4, <1>7
  <2> QED BY <2>1, <2>2, <2>3
<1> HIDE DEF joined
<1>9. ASSUME NEW k \in 1 .. off + n PROVE joined[k] = SubSeq(full, 1, off + n)[k]
  <2>1. CASE k <= off
    BY <2>1, <1>7, <1>8
  <2>2. CASE k > off
    <3>1. k - off \in 1 .. n /\ k \in off + 1 .. off + n /\ off + (k - off) = k
      BY <2>2, <1>2
    <3>2. e[k - off] = [tok |-> toks[k], arith |-> Arith(n, off + n)]
      BY <3>1, <1>4
    <3> QED BY <3>1, <3>2, <1>6, <1>7, <1>8, <2>2
  <2> QED BY <2>1, <2>2, <1>2
<1>10. joined = SubSeq(full, 1, off + n)
  <2>1. \A k \in 1 .. Len(joined) : joined[k] = SubSeq(full, 1, off + n)[k]
    BY <1>8, <1>9
  <2> QED BY <2>1, <1>7, <1>8, SeqEqual
<1>11. (off + n) % Chunk = 0 \/ off + n = Len(toks)
  BY <1>2, NextChunk
<1> QED BY <1>2, <1>4, <1>10, <1>11 DEF n, part, e, full, joined

\* A prompt's first whole chunks are prefilled like a prompt of just those.
LEMMA FullPrefillShare ==
  ASSUME NEW toks \in Seq(Token), NEW m \in 0 .. Len(toks), m % Chunk = 0
  PROVE  FullPrefill(SubSeq(toks, 1, m)) = SubSeq(FullPrefill(toks), 1, m)
<1> DEFINE part == SubSeq(toks, 1, m)
           full == FullPrefill(toks)
<1>1. /\ Len(toks) \in Nat /\ Chunk \in Nat /\ Chunk >= 1 /\ m \in Nat
      /\ \A k \in 1 .. Len(toks) : toks[k] \in Token
  BY ChunkFacts, LenProperties, ElementOfSeq
<1>2. part \in Seq(Token) /\ Len(part) = m /\ \A k \in 1 .. m : part[k] = toks[k]
  BY <1>1, SubSeqProperties
<1>3. full \in Seq(Elem) /\ Len(full) = Len(toks)
  BY FullPrefillType
<1>4. FullPrefill(part) \in Seq(Elem) /\ Len(FullPrefill(part)) = m
  <2> HIDE DEF part
  <2>1. FullPrefill(part) \in Seq(Elem) /\ Len(FullPrefill(part)) = Len(part)
    BY <1>2, FullPrefillType
  <2> QED BY <2>1, <1>2
<1>5. ASSUME NEW k \in 1 .. m PROVE FullPrefill(part)[k] = full[k]
  <2> DEFINE start == ChunkStart(k)
  <2>1. k - 1 \in Nat /\ k \in 1 .. Len(toks)
    BY <1>1
  <2>2. start \in 0 .. k - 1 /\ start % Chunk = 0 /\ start \in Nat
    <3>1. ((k - 1) \div Chunk) * Chunk \in 0 .. k - 1
          /\ (((k - 1) \div Chunk) * Chunk) % Chunk = 0
      BY <2>1, WholeChunks
    <3> QED BY <3>1, <2>1 DEF ChunkStart
  <2>3. start + Chunk <= m
    \* both are whole chunks, and start < m
    <3> DEFINE a == start \div Chunk  b == m \div Chunk
    <3>1. a \in Nat /\ b \in Nat /\ start = Chunk * a /\ m = Chunk * b
      <4> HIDE DEF start
      <4>1. a \in Nat /\ start = Chunk * a + (start % Chunk)
        BY <1>1, <2>2, DivMod
      <4>2. b \in Nat /\ m = Chunk * b + (m % Chunk)
        BY <1>1, DivMod
      <4> HIDE DEF a, b
      <4> QED BY <4>1, <4>2, <2>2, <1>1
    <3>2. start < m
      BY <2>1, <2>2
    <3> HIDE DEF a, b, start
    <3>3. a < b
      <4>1. SUFFICES ASSUME b <= a PROVE FALSE
        BY <3>1
      <4>2. Chunk * b <= Chunk * a
        BY <4>1, <3>1, <1>1
      <4> QED BY <4>2, <3>1, <3>2
    <3>4. Chunk * (a + 1) <= Chunk * b
      BY <3>3, <3>1, <1>1
    <3>5. Chunk * (a + 1) = Chunk * a + Chunk
      BY <3>1, <1>1
    <3> QED BY <3>1, <3>4, <3>5
  <2>4. MinOf(Chunk, m - start) = Chunk /\ MinOf(Chunk, Len(toks) - start) = Chunk
    <3> HIDE DEF start
    <3> QED BY <2>2, <2>3, <1>1 DEF MinOf
  <2>5. PrefillArith(start, m) = PrefillArith(start, Len(toks))
    <3> HIDE DEF start
    <3> QED BY <2>4 DEF PrefillArith
  <2>6. FullPrefill(part)[k] = [tok |-> toks[k], arith |-> PrefillArith(start, m)]
    <3> HIDE DEF part
    <3> QED BY <1>2 DEF FullPrefill
  <2>7. full[k] = [tok |-> toks[k], arith |-> PrefillArith(start, Len(toks))]
    BY <2>1 DEF FullPrefill
  <2> QED BY <2>5, <2>6, <2>7
<1> HIDE DEF part, full
<1>6. /\ SubSeq(full, 1, m) \in Seq(Elem) /\ Len(SubSeq(full, 1, m)) = m
      /\ \A k \in 1 .. m : SubSeq(full, 1, m)[k] = full[k]
  <2>1. \A k \in 1 .. m : full[k] \in Elem
    BY <1>1, <1>3, ElementOfSeq
  <2> QED BY <2>1, <1>1, SubSeqProperties
<1>7. \A k \in 1 .. Len(FullPrefill(part)) : FullPrefill(part)[k] = SubSeq(full, 1, m)[k]
  BY <1>4, <1>5, <1>6
<1> QED BY <1>4, <1>6, <1>7, SeqEqual DEF part, full
=============================================================================
