--------------------------- MODULE SpeculateProofs ---------------------------
(***************************************************************************)
(* Speculative decoding, for every prompt, constraint, lookahead, layout   *)
(* and model: what a rejected draft wrote is never read, and the answer is *)
(* that of the loop that feeds one token at a time.                        *)
(***************************************************************************)
EXTENDS Speculate, RunnerProofs, FiniteSetTheorems

(* A cache that was cut back *)

\* The positions of a sequence of n tokens that the next forward may read.
Near(l, n) == {p \in 0 .. n - 1 : NeedsFull(l) \/ p >= n - Window}

\* Holds keeps every position that still has its slot; after a rejected draft the
\* oldest of a ring are gone, but none of those the window reaches back to.
Recent(c, h) ==
  \A l \in Owned : \A p \in Near(l, Len(h)) :
     c.rows[l][SlotOf(l, p)] = SubSeq(h, 1, p + 1)

LEMMA BaseOfRecent ==
  ASSUME NEW c, NEW h \in Seq(Elem), Recent(c, h)
  PROVE  Base(c, Len(h)) = h
<1>1. Len(h) \in Nat /\ 0 \in Owned /\ Window >= 1 /\ Window \in Nat
  BY LenProperties, ChunkFacts DEF Owned
<1>2. CASE Len(h) = 0
  BY <1>2, EmptySeq DEF Base
<1>3. CASE Len(h) # 0
  <2>1. Len(h) - 1 \in Near(0, Len(h))
    BY <1>1, <1>3 DEF Near
  <2>2. c.rows[0][SlotOf(0, Len(h) - 1)] = SubSeq(h, 1, Len(h))
    BY <2>1, <1>1 DEF Recent
  <2> QED BY <2>2, <1>3, SubSeqFull DEF Base
<1> QED BY <1>2, <1>3

\* A batch leaves alone what the window of its first row reaches back to.
LEMMA WrittenRecent ==
  ASSUME NEW c, NEW h \in Seq(Elem), NEW e \in Seq(Elem), Recent(c, h),
         Len(e) <= Chunk, Len(h) + Len(e) <= Ctx,
         NEW l \in Owned, NEW p \in 0 .. Len(h) + Len(e) - 1,
         NeedsFull(l) \/ p >= Len(h) - Window
  PROVE  Written(c, e, Len(h))[l][SlotOf(l, p)] = SubSeq(h \o e, 1, p + 1)
<1>1. /\ Len(h) \in Nat /\ Len(e) \in Nat /\ Len(h) <= Ctx
      /\ h \o e \in Seq(Elem) /\ Len(h \o e) = Len(h) + Len(e)
  BY LenProperties, ConcatProperties, ChunkFacts
<1>2. CASE p >= Len(h)
  <2>1. p \in Len(h) .. Len(h) + Len(e) - 1 /\ Base(c, Len(h)) = h
    BY <1>1, <1>2, BaseOfRecent
  <2> QED BY <2>1, WrittenOwn
<1>3. CASE p < Len(h)
  <2>1. p \in Near(l, Len(h))
    BY <1>1, <1>3 DEF Near
  <2>2. p \in Nat /\ SlotOf(l, p) \in Slots(l)
    BY <1>1, <1>3, SlotOfType, ChunkFacts
  <2>3. ASSUME NEW k \in 1 .. Len(e) PROVE SlotOf(l, Len(h) + k - 1) # SlotOf(l, p)
    <3>1. Len(h) + k - 1 \in Nat /\ p < Len(h) + k - 1
      BY <1>1, <1>3
    <3>2. Len(h) + k - 1 - p < Capacity(l)
      BY <1>1, <1>3, CapacityFacts, ChunkFacts DEF MinOf
    <3> QED BY <2>2, <3>1, <3>2, SlotOfInjective
  <2>4. Written(c, e, Len(h))[l][SlotOf(l, p)] = SubSeq(h, 1, p + 1)
    <3>1. Written(c, e, Len(h))[l][SlotOf(l, p)] = c.rows[l][SlotOf(l, p)]
      BY <2>2, <2>3, WrittenOld
    <3> QED BY <3>1, <2>1 DEF Recent
  <2>5. SubSeq(h, 1, p + 1) = SubSeq(h \o e, 1, p + 1)
    BY <1>1, <1>3, SubSeqOfConcat1
  <2> QED BY <2>4, <2>5
<1> QED BY <1>1, <1>2, <1>3

\* A forward over a cache cut back to h computes h \o e, and may be cut back again
\* to any of its rows: none of them lets the window reach an overwritten slot.
LEMMA ForwardRecent ==
  ASSUME NEW c, NEW h \in Seq(Elem), NEW e \in Seq(Elem), Recent(c, h),
         Len(e) <= Chunk, Len(h) + Len(e) <= Ctx
  PROVE  /\ Forward(c, e, Len(h)).out = h \o e
         /\ \A m \in 0 .. Len(e) :
              Recent(Forward(c, e, Len(h)).kv, SubSeq(h \o e, 1, Len(h) + m))
<1> DEFINE rows == Written(c, e, Len(h))
           f    == Forward(c, e, Len(h))
<1>1. /\ Len(h) \in Nat /\ Len(e) \in Nat
      /\ h \o e \in Seq(Elem) /\ Len(h \o e) = Len(h) + Len(e)
  BY LenProperties, ConcatProperties
<1>2. ASSUME NEW l \in Layers, NEW k \in 1 .. Len(e),
             NEW q \in WindowStart(l, Len(h) + k - 1) .. Len(h) + k - 1
      PROVE  rows[KvSource(l)][SlotOf(KvSource(l), q)] = SubSeq(h \o e, 1, q + 1)
  <2>1. /\ WindowStart(l, Len(h) + k - 1) \in Nat
        /\ l \in Sliding => WindowStart(l, Len(h) + k - 1) >= Len(h) + k - Window
    BY <1>1, ChunkFacts DEF WindowStart, SatSub
  <2>2. /\ q \in 0 .. Len(h) + Len(e) - 1
        /\ NeedsFull(KvSource(l)) \/ q >= Len(h) - Window
    BY <1>1, <2>1, KvSourceFacts, ChunkFacts
  <2>3. KvSource(l) \in Owned
    BY KvSourceFacts
  <2> HIDE DEF rows
  <2> QED BY <2>2, <2>3, WrittenRecent DEF rows
<1>3. f.out = h \o e /\ f.kv.rows = rows
  <2>1. Base(c, Len(h)) = h
    BY BaseOfRecent
  <2> QED BY <2>1, <1>2, ForwardFine
<1>4. ASSUME NEW m \in 0 .. Len(e)
      PROVE  Recent(f.kv, SubSeq(h \o e, 1, Len(h) + m))
  <2> DEFINE part == SubSeq(h \o e, 1, Len(h) + m)
  <2>1. part \in Seq(Elem) /\ Len(part) = Len(h) + m
    BY <1>1, SubSeqProperties, ElementOfSeq
  <2>2. SUFFICES ASSUME NEW l \in Owned, NEW p \in Near(l, Len(h) + m)
                 PROVE  rows[l][SlotOf(l, p)] = SubSeq(part, 1, p + 1)
    <3> HIDE DEF rows, f
    <3> QED BY <2>1, <1>3 DEF Recent
  <2>3. /\ p \in 0 .. Len(h) + m - 1 /\ p \in 0 .. Len(h) + Len(e) - 1
        /\ NeedsFull(l) \/ p >= Len(h) - Window
    BY <1>1, ChunkFacts DEF Near
  <2>4. rows[l][SlotOf(l, p)] = SubSeq(h \o e, 1, p + 1)
    BY <2>3, WrittenRecent
  <2>5. SubSeq(part, 1, p + 1) = SubSeq(h \o e, 1, p + 1)
    <3>1. /\ SubSeq(part, 1, p + 1) \in Seq(Elem) /\ Len(SubSeq(part, 1, p + 1)) = p + 1
          /\ \A i \in 1 .. p + 1 : SubSeq(part, 1, p + 1)[i] = part[i]
      <4>1. \A i \in 1 .. p + 1 : part[i] \in Elem
        BY <2>1, <2>3, <1>1, ElementOfSeq
      <4> HIDE DEF part
      <4> QED BY <2>1, <2>3, <1>1, <4>1, SubSeqProperties
    <3>2. /\ SubSeq(h \o e, 1, p + 1) \in Seq(Elem)
          /\ Len(SubSeq(h \o e, 1, p + 1)) = p + 1
          /\ \A i \in 1 .. p + 1 : SubSeq(h \o e, 1, p + 1)[i] = (h \o e)[i]
      <4>1. \A i \in 1 .. p + 1 : (h \o e)[i] \in Elem
        BY <2>3, <1>1, ElementOfSeq
      <4> QED BY <2>3, <1>1, <4>1, SubSeqProperties
    <3>3. \A i \in 1 .. p + 1 : part[i] = (h \o e)[i]
      BY <2>3, <1>1, SubSeqProperties
    <3> HIDE DEF part
    <3> QED BY <3>1, <3>2, <3>3, SeqEqual
  <2> QED BY <2>4, <2>5
<1> HIDE DEF rows, f
<1> QED BY <1>3, <1>4 DEF f

-----------------------------------------------------------------------------
(* The constraint *)

\* What GrammarAssumption says of a state.
LEMMA ConstraintFacts ==
  ASSUME NEW g \in Grammars
  PROVE  /\ Start \in DOMAIN g.next
         /\ \A s \in DOMAIN g.next :
              /\ \A t \in Token : g.next[s][t] \in (DOMAIN g.next) \cup {None}
              /\ Accepting(g, s) => Allowed(g, s) = {}
              /\ Forced(g, s) \cap Eos = {}
<1>1. IsConstraint(g, Eos)
  BY GrammarAssumption
<1> QED BY <1>1 DEF IsConstraint

\* advance stays in the automaton.
LEMMA AdvanceType ==
  ASSUME NEW g \in Grammars, NEW s \in DOMAIN g.next, NEW t \in Token
  PROVE  Advance(g, s, t) \in DOMAIN g.next
<1>1. g.next[s][t] \in (DOMAIN g.next) \cup {None}
  BY ConstraintFacts
<1> QED BY <1>1 DEF Advance

\* The states After passes through.
LEMMA AfterWalk ==
  ASSUME NEW g \in Grammars, NEW s \in DOMAIN g.next, NEW toks \in Seq(Token)
  PROVE  \E at \in [0 .. Len(toks) -> DOMAIN g.next] :
           /\ at[0] = s /\ After(g, s, toks) = at[Len(toks)]
           /\ \A k \in 1 .. Len(toks) : at[k] = Advance(g, at[k - 1], toks[k])
<1> DEFINE n == Len(toks)
           S == DOMAIN g.next
           step == [k \in 1 .. n |-> [q \in S |-> Advance(g, q, toks[k])]]
           at == CHOOSE at : at = [k \in 0 .. n |->
                                     IF k = 0 THEN s ELSE Advance(g, at[k - 1], toks[k])]
<1>1. n \in Nat /\ \A k \in 1 .. n : toks[k] \in Token
  BY LenProperties, ElementOfSeq
<1>2. /\ step \in [1 .. n -> [S -> S]]
      /\ \A k \in 1 .. n : \A q \in S : step[k][q] = Advance(g, q, toks[k])
  BY <1>1, AdvanceType
<1> HIDE DEF step
<1>3. PICK f : Recursive(f, S, s, n, step)
  <2> HIDE DEF n, S
  <2>1. s \in S
    BY DEF S
  <2> QED BY <1>1, <1>2, <2>1, Recursion
<1>4. f = [k \in 0 .. n |-> IF k = 0 THEN s ELSE Advance(g, f[k - 1], toks[k])]
  <2> HIDE DEF S
  <2>1. ASSUME NEW k \in 1 .. n PROVE f[k] = Advance(g, f[k - 1], toks[k])
    <3>1. f[k - 1] \in S
      BY <1>1, <1>3 DEF Recursive
    <3> QED BY <1>2, <1>3, <3>1 DEF Recursive
  <2> QED BY <1>1, <1>3, <2>1 DEF Recursive
<1>5. at = [k \in 0 .. n |-> IF k = 0 THEN s ELSE Advance(g, at[k - 1], toks[k])]
  BY <1>4, Zenon
<1>6. After(g, s, toks) = at[n]
  BY Zenon DEF After
<1> HIDE DEF at
<1>7. at[0] = s /\ \A k \in 1 .. n : at[k] = Advance(g, at[k - 1], toks[k])
  BY <1>1, <1>5
<1>8. \A k \in 0 .. n : k \in {i \in 0 .. n : at[i] \in S}
  <2> DEFINE T == {i \in 0 .. n : at[i] \in S}
  <2>1. 0 \in T
    BY <1>1, <1>7
  <2>2. \A k \in 1 .. n : k - 1 \in T => k \in T
    BY <1>1, <1>7, AdvanceType
  <2> HIDE DEF T, n
  <2>3. \A k \in 0 .. n : k \in T
    BY <1>1, <2>1, <2>2, UpTo
  <2> QED BY <2>3 DEF T
<1>9. at \in [0 .. n -> S]
  BY <1>5, <1>8
<1> QED BY <1>6, <1>7, <1>9

\* After is determined by any such walk.
LEMMA AfterIs ==
  ASSUME NEW g \in Grammars, NEW s \in DOMAIN g.next, NEW toks \in Seq(Token),
         NEW at, at[0] = s,
         \A k \in 1 .. Len(toks) : at[k] = Advance(g, at[k - 1], toks[k])
  PROVE  After(g, s, toks) = at[Len(toks)]
<1> DEFINE n == Len(toks)
<1>1. n \in Nat
  BY LenProperties
<1>2. PICK walk \in [0 .. n -> DOMAIN g.next] :
        /\ walk[0] = s /\ After(g, s, toks) = walk[n]
        /\ \A k \in 1 .. n : walk[k] = Advance(g, walk[k - 1], toks[k])
  BY AfterWalk
<1> DEFINE T == {k \in 0 .. n : at[k] = walk[k]}
<1>3. 0 \in T
  BY <1>1, <1>2
<1>4. \A k \in 1 .. n : k - 1 \in T => k \in T
  BY <1>1, <1>2
<1> HIDE DEF T, n
<1>5. \A k \in 0 .. n : k \in T
  BY <1>1, <1>3, <1>4, UpTo
<1>6. n \in T
  BY <1>1, <1>5
<1> QED BY <1>2, <1>6 DEF T, n

\* No tokens, and one token more.
LEMMA AfterNothing ==
  ASSUME NEW g \in Grammars, NEW s \in DOMAIN g.next
  PROVE  After(g, s, <<>>) = s
<1> DEFINE none == <<>>
<1>1. none \in Seq(Token) /\ Len(none) = 0
  BY EmptySeq
<1> HIDE DEF none
<1>2. PICK at \in [0 .. Len(none) -> DOMAIN g.next] :
        /\ at[0] = s /\ After(g, s, none) = at[Len(none)]
        /\ \A k \in 1 .. Len(none) : at[k] = Advance(g, at[k - 1], none[k])
  <2>1. none \in Seq(Token)
    BY <1>1
  <2> QED BY <2>1, AfterWalk, Zenon
<1>3. After(g, s, none) = s
  BY <1>1, <1>2
<1> QED BY <1>3 DEF none

LEMMA AfterAppend ==
  ASSUME NEW g \in Grammars, NEW s \in DOMAIN g.next, NEW toks \in Seq(Token), NEW t \in Token
  PROVE  /\ After(g, s, toks) \in DOMAIN g.next
         /\ After(g, s, Append(toks, t)) = Advance(g, After(g, s, toks), t)
<1> DEFINE n == Len(toks)  more == Append(toks, t)
<1>1. /\ n \in Nat /\ more \in Seq(Token) /\ Len(more) = n + 1
      /\ \A k \in 1 .. n : more[k] = toks[k]
      /\ more[n + 1] = t
  BY LenProperties, AppendProperties
<1>2. PICK at \in [0 .. n -> DOMAIN g.next] :
        /\ at[0] = s /\ After(g, s, toks) = at[n]
        /\ \A k \in 1 .. n : at[k] = Advance(g, at[k - 1], toks[k])
  BY AfterWalk
<1> DEFINE on == [k \in 0 .. n + 1 |-> IF k <= n THEN at[k] ELSE Advance(g, at[n], t)]
<1>3. /\ on[0] = s /\ on[n] = at[n] /\ on[n + 1] = Advance(g, at[n], t)
      /\ \A k \in 0 .. n : on[k] = at[k]
  BY <1>1, <1>2
<1> HIDE DEF on, more, n
<1>4. \A k \in 1 .. n + 1 : on[k] = Advance(g, on[k - 1], more[k])
  <2>1. ASSUME NEW k \in 1 .. n PROVE on[k] = Advance(g, on[k - 1], more[k])
    BY <1>1, <1>2, <1>3
  <2>2. on[n + 1] = Advance(g, on[n + 1 - 1], more[n + 1])
    BY <1>1, <1>3
  <2> QED BY <1>1, <2>1, <2>2
<1>5. After(g, s, more) = on[n + 1]
  BY <1>1, <1>3, <1>4, AfterIs
<1>6. at[n] \in DOMAIN g.next
  BY <1>1
<1> QED BY <1>2, <1>3, <1>5, <1>6 DEF more, n

LEMMA AfterType ==
  ASSUME NEW g \in Grammars, NEW s \in DOMAIN g.next, NEW toks \in Seq(Token)
  PROVE  After(g, s, toks) \in DOMAIN g.next
  BY AfterAppend, RunnerAssumption

\* A forced token is the only one there is, whoever chooses.
LEMMA ForcedOne ==
  ASSUME NEW g \in Grammars, NEW s \in DOMAIN g.next, Forced(g, s) # {}
  PROVE  \E t \in Token :
           /\ Forced(g, s) = {t} /\ Allowed(g, s) = {t} /\ t \notin Eos
           /\ g.next[s][t] = Advance(g, s, t)
           /\ \A h : Choice(g, h, s) = t
<1>1. Allowed(g, s) \subseteq Token /\ Forced(g, s) = Allowed(g, s)
      /\ Cardinality(Allowed(g, s)) = 1
  BY DEF Allowed, Forced
<1>2. IsFiniteSet(Allowed(g, s))
  <2>1. IsFiniteSet(Token)
    BY GrammarAssumption
  <2> QED BY <1>1, <2>1, FS_Subset
<1>3. PICK t : Allowed(g, s) = {t}
  BY <1>1, <1>2, FS_Singleton
<1>4. t \in Token /\ t \notin Eos /\ g.next[s][t] = Advance(g, s, t)
  <2>1. t \in Allowed(g, s) /\ t \in Forced(g, s)
    BY <1>1, <1>3
  <2>2. Forced(g, s) \cap Eos = {}
    BY ConstraintFacts
  <2>3. t \in Token /\ g.next[s][t] # None
    BY <2>1 DEF Allowed
  <2> QED BY <2>1, <2>2, <2>3 DEF Advance
<1>5. ASSUME NEW h PROVE Choice(g, h, s) = t
  <2> DEFINE best == {v \in {t} : \A u \in {t} : u = v \/ Better(h, v, u)}
  <2>1. best = {t}
    OBVIOUS
  <2>2. Choice(g, h, s) = IF best = {} THEN 0 ELSE CHOOSE v \in best : TRUE
    BY <1>3 DEF Choice, BestOf
  <2> QED BY <2>1, <2>2
<1> QED BY <1>1, <1>3, <1>4, <1>5

\* An accepting state admits nothing: the argmax of masked logits is token 0, which
\* leads nowhere.
LEMMA AtTheEnd ==
  ASSUME NEW g \in Grammars, NEW s \in DOMAIN g.next, Accepting(g, s)
  PROVE  /\ Allowed(g, s) = {} /\ Advance(g, s, 0) = s
         /\ \A h : Choice(g, h, s) = 0
<1>1. Allowed(g, s) = {}
  BY ConstraintFacts
<1>2. g.next[s][0] = None
  BY <1>1, RunnerAssumption DEF Allowed
<1>3. ASSUME NEW h PROVE Choice(g, h, s) = 0
  <2> DEFINE best == {v \in {} : \A u \in {} : u = v \/ Better(h, v, u)}
  <2>1. best = {}
    OBVIOUS
  <2>2. Choice(g, h, s) = IF best = {} THEN 0 ELSE CHOOSE v \in best : TRUE
    BY <1>1 DEF Choice, BestOf
  <2> QED BY <2>1, <2>2
<1> QED BY <1>1, <1>2, <1>3 DEF Advance

\* Whatever the logits, a token of the vocabulary is chosen.
LEMMA ChoiceType ==
  ASSUME NEW g, NEW h, NEW s
  PROVE  Choice(g, h, s) \in Token
<1> DEFINE best == {v \in Allowed(g, s) : \A u \in Allowed(g, s) : u = v \/ Better(h, v, u)}
<1>1. Choice(g, h, s) = IF best = {} THEN 0 ELSE CHOOSE v \in best : TRUE
  BY DEF Choice, BestOf
<1>2. best \subseteq Token
  BY DEF Allowed
<1> HIDE DEF best
<1> QED BY <1>1, <1>2, RunnerAssumption

\* A run every state of which leaves no choice and is not the last.
IsRun(g, s, toks) ==
  \A k \in 1 .. Len(toks) :
    /\ ~Accepting(g, After(g, s, SubSeq(toks, 1, k - 1)))
    /\ Forced(g, After(g, s, SubSeq(toks, 1, k - 1))) = {toks[k]}

\* The prefixes of a sequence, and of one with an element more.
LEMMA PrefixOfAppend ==
  ASSUME NEW S, NEW q \in Seq(S), NEW t \in S, NEW k \in 0 .. Len(q)
  PROVE  SubSeq(Append(q, t), 1, k) = SubSeq(q, 1, k)
<1>1. /\ Len(q) \in Nat /\ Append(q, t) \in Seq(S) /\ Len(Append(q, t)) = Len(q) + 1
      /\ \A i \in 1 .. Len(q) : Append(q, t)[i] = q[i] /\ q[i] \in S
  BY LenProperties, AppendProperties, ElementOfSeq
<1>2. /\ SubSeq(Append(q, t), 1, k) \in Seq(S) /\ Len(SubSeq(Append(q, t), 1, k)) = k
      /\ \A i \in 1 .. k : SubSeq(Append(q, t), 1, k)[i] = q[i]
  <2> DEFINE more == Append(q, t)
  <2>1. \A i \in 1 .. k : more[i] \in S /\ more[i] = q[i]
    BY <1>1
  <2> HIDE DEF more
  <2>2. SubSeq(more, 1, k) \in Seq(S) /\ Len(SubSeq(more, 1, k)) = k
        /\ \A i \in 1 .. k : SubSeq(more, 1, k)[i] = more[i]
    BY <1>1, <2>1, SubSeqProperties
  <2> QED BY <2>1, <2>2 DEF more
<1>3. /\ SubSeq(q, 1, k) \in Seq(S) /\ Len(SubSeq(q, 1, k)) = k
      /\ \A i \in 1 .. k : SubSeq(q, 1, k)[i] = q[i]
  BY <1>1, SubSeqProperties
<1> QED BY <1>2, <1>3, SeqEqual

\* forced_run returns such a run, no longer than asked for.
LEMMA ForcedRunIsRun ==
  ASSUME NEW g \in Grammars, NEW s \in DOMAIN g.next, NEW max \in Nat
  PROVE  /\ ForcedRun(g, s, max) \in Seq(Token)
         /\ Len(ForcedRun(g, s, max)) <= max
         /\ IsRun(g, s, ForcedRun(g, s, max))
<1> DEFINE Q == [toks : Seq(Token), at : DOMAIN g.next]
           first == [toks |-> <<>>, at |-> s]
           next(was) ==
             LET t == CHOOSE u \in Forced(g, was.at) : TRUE
             IN  IF Accepting(g, was.at) \/ Forced(g, was.at) = {} THEN was
                 ELSE [toks |-> Append(was.toks, t), at |-> g.next[was.at][t]]
           step == [k \in 1 .. max |-> [was \in Q |-> next(was)]]
           rec == CHOOSE rec : rec = [k \in 0 .. max |->
                                         IF k = 0 THEN first ELSE next(rec[k - 1])]
<1>1. first \in Q
  BY EmptySeq
<1>2. ASSUME NEW was \in Q PROVE next(was) \in Q
  <2>1. CASE Accepting(g, was.at) \/ Forced(g, was.at) = {}
    BY <2>1
  <2>2. CASE ~(Accepting(g, was.at) \/ Forced(g, was.at) = {})
    <3>1. PICK t \in Token : Forced(g, was.at) = {t} /\ g.next[was.at][t] = Advance(g, was.at, t)
      BY <2>2, ForcedOne
    <3>2. (CHOOSE u \in Forced(g, was.at) : TRUE) = t
      BY <3>1
    <3>3. Append(was.toks, t) \in Seq(Token) /\ Advance(g, was.at, t) \in DOMAIN g.next
      BY AppendProperties, AdvanceType
    <3> QED BY <2>2, <3>1, <3>2, <3>3
  <2> QED BY <2>1, <2>2
<1>3. step \in [1 .. max -> [Q -> Q]] /\ \A k \in 1 .. max, was \in Q : step[k][was] = next(was)
  BY <1>2
<1> HIDE DEF Q, first, next, step
<1>4. PICK f : Recursive(f, Q, first, max, step)
  BY <1>1, <1>3, Recursion
<1>5. f = [k \in 0 .. max |-> IF k = 0 THEN first ELSE next(f[k - 1])]
  <2>1. ASSUME NEW k \in 1 .. max PROVE f[k] = next(f[k - 1])
    <3>1. f[k - 1] \in Q
      BY <1>4 DEF Recursive
    <3> QED BY <1>3, <1>4, <3>1 DEF Recursive
  <2> QED BY <1>4, <2>1 DEF Recursive
<1>6. rec = [k \in 0 .. max |-> IF k = 0 THEN first ELSE next(rec[k - 1])]
  BY <1>5, Zenon
<1>7. ForcedRun(g, s, max) = rec[max].toks
  BY Zenon DEF ForcedRun, first, next
<1> HIDE DEF rec
<1>8. rec[0] = first /\ \A k \in 1 .. max : rec[k] = next(rec[k - 1])
  BY <1>6
<1> DEFINE T == {k \in 0 .. max :
                   /\ rec[k] \in Q /\ Len(rec[k].toks) <= k
                   /\ rec[k].at = After(g, s, rec[k].toks)
                   /\ IsRun(g, s, rec[k].toks)}
<1>9. 0 \in T
  <2>1. IsRun(g, s, <<>>) /\ After(g, s, <<>>) = s /\ Len(<<>>) = 0
    BY AfterNothing, EmptySeq DEF IsRun
  <2> QED BY <1>1, <1>8, <2>1 DEF first
<1>10. ASSUME NEW k \in 1 .. max, k - 1 \in T PROVE k \in T
  <2> DEFINE was == rec[k - 1]
  <2>1. /\ was \in Q /\ was.toks \in Seq(Token) /\ was.at \in DOMAIN g.next
        /\ Len(was.toks) <= k - 1 /\ Len(was.toks) \in Nat
        /\ was.at = After(g, s, was.toks) /\ IsRun(g, s, was.toks)
        /\ rec[k] = next(was)
    BY <1>8, <1>10, LenProperties DEF Q
  <2> HIDE DEF was
  <2>2. CASE Accepting(g, was.at) \/ Forced(g, was.at) = {}
    <3>1. rec[k] = was
      BY <2>1, <2>2 DEF next
    <3> QED BY <2>1, <3>1
  <2>3. CASE ~(Accepting(g, was.at) \/ Forced(g, was.at) = {})
    <3>1. PICK t \in Token : Forced(g, was.at) = {t} /\ g.next[was.at][t] = Advance(g, was.at, t)
      BY <2>1, <2>3, ForcedOne
    <3>2. (CHOOSE u \in Forced(g, was.at) : TRUE) = t
      BY <3>1
    <3> DEFINE more == Append(was.toks, t)
    <3>3. rec[k] = [toks |-> more, at |-> Advance(g, was.at, t)]
      BY <2>1, <2>3, <3>1, <3>2 DEF next
    <3>4. /\ more \in Seq(Token) /\ Len(more) = Len(was.toks) + 1
          /\ more[Len(was.toks) + 1] = t
          /\ \A i \in 1 .. Len(was.toks) : more[i] = was.toks[i]
          /\ \A i \in 0 .. Len(was.toks) : SubSeq(more, 1, i) = SubSeq(was.toks, 1, i)
      BY <2>1, AppendProperties, PrefixOfAppend
    <3>5. After(g, s, more) = Advance(g, was.at, t) /\ Advance(g, was.at, t) \in DOMAIN g.next
      BY <2>1, AfterAppend, AdvanceType
    <3>6. SubSeq(was.toks, 1, Len(was.toks)) = was.toks
      BY <2>1, SubSeqFull
    <3> HIDE DEF more
    <3>7. IsRun(g, s, more)
      <4>1. SUFFICES ASSUME NEW i \in 1 .. Len(more)
            PROVE  /\ ~Accepting(g, After(g, s, SubSeq(more, 1, i - 1)))
                   /\ Forced(g, After(g, s, SubSeq(more, 1, i - 1))) = {more[i]}
        BY DEF IsRun
      <4>2. i - 1 \in 0 .. Len(was.toks) /\ SubSeq(more, 1, i - 1) = SubSeq(was.toks, 1, i - 1)
        BY <2>1, <3>4
      <4>3. CASE i \in 1 .. Len(was.toks)
        <5>1. more[i] = was.toks[i]
          BY <3>4, <4>3
        <5> QED BY <2>1, <4>2, <4>3, <5>1 DEF IsRun
      <4>4. CASE i = Len(was.toks) + 1
        <5>1. SubSeq(more, 1, i - 1) = was.toks
          BY <2>1, <3>6, <4>2, <4>4
        <5> QED BY <2>1, <2>3, <3>1, <3>4, <4>4, <5>1
      <4> QED BY <2>1, <3>4, <4>3, <4>4
    <3>8. rec[k] \in Q
      BY <3>3, <3>4, <3>5 DEF Q
    <3> QED BY <2>1, <3>3, <3>4, <3>5, <3>7, <3>8
  <2> QED BY <2>2, <2>3
<1>11. max \in T
  <2> HIDE DEF T
  <2>1. \A k \in 1 .. max : k - 1 \in T => k \in T
    BY <1>10
  <2>2. \A k \in 0 .. max : k \in T
    BY <1>9, <2>1, UpTo
  <2> QED BY <2>2
<1> QED BY <1>7, <1>11 DEF Q

-----------------------------------------------------------------------------
(* Types *)

\* The extremes of a set of positions.
LEMMA MinIs ==
  ASSUME NEW T, T \subseteq Nat, T # {}
  PROVE  Min(T) \in T /\ \A x \in T : Min(T) <= x
<1>1. \E x \in T : \A y \in T : x <= y
  BY Least
<1> QED BY <1>1 DEF Min

LEMMA MaxIs ==
  ASSUME NEW n \in Nat, NEW T, T \subseteq 0 .. n, T # {}
  PROVE  Max(T) \in T
<1>1. \E x \in T : \A y \in T : x >= y
  BY Greatest
<1> QED BY <1>1 DEF Max

\* The first and the last n tokens of a sequence are a sequence.
LEMMA PartType ==
  ASSUME NEW S, NEW q \in Seq(S), NEW m \in 1 .. Len(q) + 1, NEW n \in 0 .. Len(q)
  PROVE  /\ SubSeq(q, m, n) \in Seq(S)
         /\ Len(SubSeq(q, m, n)) = IF m <= n THEN n - m + 1 ELSE 0
         /\ \A i \in 1 .. n - m + 1 : SubSeq(q, m, n)[i] = q[m + i - 1]
<1>1. m \in Int /\ n \in Int /\ \A i \in m .. n : q[i] \in S
  BY LenProperties, ElementOfSeq
<1> QED BY <1>1, SubSeqProperties

LEMMA Beginning ==
  ASSUME NEW S, NEW q \in Seq(S), NEW n \in 0 .. Len(q)
  PROVE  /\ SubSeq(q, 1, n) \in Seq(S) /\ Len(SubSeq(q, 1, n)) = n
         /\ \A i \in 1 .. n : SubSeq(q, 1, n)[i] = q[i]
<1>1. n \in Nat /\ 1 \in 1 .. Len(q) + 1
  BY LenProperties
<1>2. /\ SubSeq(q, 1, n) \in Seq(S)
      /\ Len(SubSeq(q, 1, n)) = IF 1 <= n THEN n - 1 + 1 ELSE 0
      /\ \A i \in 1 .. n - 1 + 1 : SubSeq(q, 1, n)[i] = q[1 + i - 1]
  BY <1>1, PartType
<1>3. Len(SubSeq(q, 1, n)) = n
  BY <1>1, <1>2
<1>4. ASSUME NEW i \in 1 .. n PROVE SubSeq(q, 1, n)[i] = q[i]
  <2>1. i \in 1 .. n - 1 + 1 /\ 1 + i - 1 = i
    BY <1>1
  <2> QED BY <1>2, <2>1
<1> QED BY <1>2, <1>3, <1>4

\* What is known of a line.
LEMMA LineFacts ==
  ASSUME NEW r \in Lines
  PROVE  /\ r.prompt \in Seq(Token) /\ Len(r.prompt) \in Nat /\ Len(r.prompt) >= 1
         /\ r.con \in Grammars /\ r.batched \in BOOLEAN
         /\ r.lookahead \in Lookaheads /\ r.lookahead \in Nat
         /\ Ngen \in Nat /\ Len(r.prompt) + Ngen <= Ctx
         /\ \A k \in 1 .. Len(r.prompt) : r.prompt[k] # 0
         /\ Start \in DOMAIN r.con.next
         /\ RunMax \in 1 .. Chunk /\ LogitRows \in 0 .. Chunk
<1>1. r.prompt \in Prompts /\ r.con \in Grammars /\ r.batched \in BOOLEAN /\ r.lookahead \in Lookaheads
  BY DEF Lines
<1> DEFINE p == r.prompt
<1>2. /\ p \in Seq(Token) /\ p # <<>> /\ Len(p) + Ngen <= Ctx
      /\ \A k \in 1 .. Len(p) : p[k] # 0
  BY <1>1, SpeculateAssumption
<1>3. Len(p) \in Nat /\ Len(p) >= 1
  BY <1>2, EmptySeq, LenProperties
<1>4. r.lookahead \in Nat /\ Ngen \in Nat /\ RunMax \in 1 .. Chunk /\ LogitRows \in 0 .. Chunk
  BY <1>1, SpeculateAssumption
<1>5. Start \in DOMAIN r.con.next
  BY <1>1, ConstraintFacts
<1> QED BY <1>1, <1>2, <1>3, <1>4, <1>5

\* The draft is a part of the prompt, no longer than asked for.
LEMMA DraftType ==
  ASSUME run \in Lines
  PROVE  /\ Draft \in Seq(Token) /\ Len(Draft) \in Nat /\ Len(Draft) <= run.lookahead
         /\ \A k \in 1 .. Len(Draft) : Draft[k] # 0
<1> DEFINE n    == Len(Emitted)
           p    == run.prompt
           hits == {j \in 3 .. Len(p) :
                      n >= 2 /\ SubSeq(p, j - 2, j - 1) = SubSeq(Emitted, n - 1, n)}
           m    == Max(hits)
           b    == MinOf(Len(p), m + run.lookahead - 1)
<1>1. Draft = IF hits = {} THEN <<>> ELSE SubSeq(p, m, b)
  BY DEF Draft
<1>2. /\ p \in Seq(Token) /\ Len(p) \in Nat /\ run.lookahead \in Nat
      /\ \A k \in 1 .. Len(p) : p[k] # 0
  BY LineFacts
<1>3. hits \subseteq 3 .. Len(p) /\ hits \subseteq 0 .. Len(p)
  OBVIOUS
<1> HIDE DEF hits, p
<1>4. CASE hits = {}
  BY <1>1, <1>2, <1>4, EmptySeq
<1>5. CASE hits # {}
  <2>1. m \in 3 .. Len(p)
    BY <1>2, <1>3, <1>5, MaxIs
  <2> HIDE DEF m
  <2>2. b \in 0 .. Len(p) /\ m \in 1 .. Len(p) + 1 /\ b <= m + run.lookahead - 1
    BY <2>1, <1>2 DEF MinOf
  <2> HIDE DEF b
  <2>3. /\ SubSeq(p, m, b) \in Seq(Token)
        /\ Len(SubSeq(p, m, b)) = IF m <= b THEN b - m + 1 ELSE 0
        /\ \A i \in 1 .. b - m + 1 : SubSeq(p, m, b)[i] = p[m + i - 1]
    BY <1>2, <2>2, PartType
  <2>4. Draft = SubSeq(p, m, b)
    BY <1>1, <1>5
  <2>5. Len(Draft) \in Nat /\ Len(Draft) <= run.lookahead /\ Draft \in Seq(Token)
    BY <2>2, <2>3, <2>4, <1>2
  <2>6. ASSUME NEW k \in 1 .. Len(Draft) PROVE Draft[k] # 0
    <3>1. k \in 1 .. b - m + 1 /\ m + k - 1 \in 1 .. Len(p)
      BY <2>1, <2>2, <2>3, <2>4
    <3> QED BY <3>1, <2>3, <2>4, <1>2
  <2> QED BY <2>5, <2>6
<1> QED BY <1>4, <1>5

\* The accepted part: every token of it is the model's, and none ends the answer.
LEMMA AgreedType ==
  ASSUME run \in Lines, NEW f
  PROVE  /\ Agreed(f) \in 0 .. Len(Draft)
         /\ \A i \in 1 .. Agreed(f) : Decided(f, i) = Draft[i] /\ Draft[i] \notin Eos
<1> DEFINE bad == {i \in DOMAIN Draft : Decided(f, i) # Draft[i] \/ Draft[i] \in Eos}
<1>1. Len(Draft) \in Nat /\ DOMAIN Draft = 1 .. Len(Draft)
  BY DraftType, LenProperties
<1>2. Agreed(f) = IF bad = {} THEN Len(Draft) ELSE Min(bad) - 1
  BY DEF Agreed
<1>3. bad \subseteq 1 .. Len(Draft) /\ bad \subseteq Nat
  BY <1>1
<1>4. \A i \in 1 .. Len(Draft) : i \notin bad => Decided(f, i) = Draft[i] /\ Draft[i] \notin Eos
  BY <1>1
<1> HIDE DEF bad
<1>5. CASE bad = {}
  BY <1>1, <1>2, <1>4, <1>5
<1>6. CASE bad # {}
  <2>1. Min(bad) \in bad /\ \A x \in bad : Min(bad) <= x
    BY <1>3, <1>6, MinIs
  <2>2. Min(bad) \in 1 .. Len(Draft) /\ Agreed(f) = Min(bad) - 1
    BY <1>2, <1>3, <1>6, <2>1
  <2> QED BY <1>1, <1>4, <2>1, <2>2
<1> QED BY <1>5, <1>6

\* A token in front of others, and behind them.
LEMMA FrontAndBack ==
  ASSUME NEW t \in Token, NEW q \in Seq(Token)
  PROVE  /\ Len(q) \in Nat
         /\ <<t>> \o q \in Seq(Token) /\ Len(<<t>> \o q) = Len(q) + 1
         /\ (<<t>> \o q)[1] = t
         /\ \A k \in 1 .. Len(q) : (<<t>> \o q)[k + 1] = q[k]
         /\ Append(q, t) \in Seq(Token) /\ Len(Append(q, t)) = Len(q) + 1
         /\ Append(q, t) = q \o <<t>>
<1> DEFINE one == <<t>>  both == one \o q
<1>1. one \in Seq(Token) /\ Len(one) = 1 /\ one[1] = t /\ Len(q) \in Nat
  BY LenProperties
<1> HIDE DEF one
<1>2. /\ both \in Seq(Token) /\ Len(both) = Len(one) + Len(q)
      /\ \A i \in 1 .. Len(one) + Len(q) :
           both[i] = IF i <= Len(one) THEN one[i] ELSE q[i - Len(one)]
  BY <1>1, ConcatProperties
<1> HIDE DEF both
<1>3. Len(both) = Len(q) + 1 /\ both[1] = t
  BY <1>1, <1>2
<1>4. ASSUME NEW k \in 1 .. Len(q) PROVE both[k + 1] = q[k]
  BY <1>1, <1>2
<1>5. Append(q, t) \in Seq(Token) /\ Len(Append(q, t)) = Len(q) + 1
  BY AppendProperties
<1>6. Append(q, t) = q \o one
  BY AppendIsConcat DEF one
<1> QED BY <1>1, <1>2, <1>3, <1>4, <1>5, <1>6 DEF both, one

\* What a forward of tokens leaves is a cache.
LEMMA FwdType ==
  ASSUME TypeOK, NEW toks \in Seq(Token), Len(toks) <= Chunk, pos + Len(toks) <= Ctx
  PROVE  IsCache(Fwd(toks).kv, Elem)
<1> DEFINE e == Elems(toks, Arith(Len(toks), pos + Len(toks)))
<1>1. e \in Seq(Elem) /\ Len(e) = Len(toks)
  BY ArithType, ElemsType
<1>2. pos \in Nat /\ IsCache(cache, Elem)
  BY ChunkFacts DEF TypeOK
<1> HIDE DEF e
<1>3. IsCache(Forward(cache, e, pos).kv, Elem)
  BY <1>1, <1>2, ForwardType
<1> QED BY <1>3 DEF Fwd, e

\* What a type-correct state in the loop has.
LEMMA LoopFacts ==
  ASSUME TypeOK
  PROVE  /\ run \in Lines /\ run.con \in Grammars /\ run.prompt \in Seq(Token)
         /\ state \in DOMAIN run.con.next /\ tok \in Token
         /\ out \in Seq(Token) /\ Len(out) \in Nat
         /\ Emitted \in Seq(Token) /\ Len(Emitted) = Len(out) + 1
         /\ Len(run.prompt) \in Nat /\ Ngen \in Nat
         /\ Len(run.prompt) + Ngen <= Ctx /\ Ctx \in Nat
         /\ Going => /\ pos = Len(run.prompt) + Len(out) /\ Len(out) < Ngen
                     /\ tok \notin Eos /\ ~Accepting(run.con, state)
  BY LineFacts, LenProperties, AppendProperties, ChunkFacts DEF TypeOK, Emitted, Going, Over, Closed

\* What the exact path feeds.
LEMMA RunFacts ==
  ASSUME TypeOK, Going, TakesRun
  PROVE  /\ Run \in Seq(Token) /\ Len(Run) \in 2 .. RunMax /\ Len(Run) <= Chunk
         /\ IsRun(run.con, state, Run)
         /\ Len(out) + 1 + Len(Run) <= Ngen
         /\ Front(Run) \in Seq(Token) /\ Len(Front(Run)) = Len(Run) - 1
         /\ Last(Run) \in Token
         /\ <<tok>> \o Front(Run) \in Seq(Token) /\ Len(<<tok>> \o Front(Run)) = Len(Run)
         /\ pos + Len(Run) <= Ctx
<1>1. /\ run.con \in Grammars /\ state \in DOMAIN run.con.next /\ tok \in Token
      /\ Len(out) \in Nat /\ Len(Emitted) = Len(out) + 1 /\ Len(run.prompt) \in Nat
      /\ pos = Len(run.prompt) + Len(out) /\ Len(run.prompt) + Ngen <= Ctx
      /\ Ngen \in Nat /\ Ctx \in Nat
  BY LoopFacts
<1>2. RunMax \in 1 .. Chunk /\ RunMax \in Nat /\ Chunk \in Nat
  BY SpeculateAssumption, ChunkFacts
<1>3. Len(Run) > 1 /\ Len(Emitted) + Len(Run) <= Ngen
  BY DEF TakesRun
<1>4. Run = ForcedRun(run.con, state, RunMax)
  <2>1. Run # <<>>
    BY <1>3, EmptySeq
  <2> QED BY <2>1 DEF Run
<1>5. /\ Run \in Seq(Token) /\ Len(Run) <= RunMax /\ IsRun(run.con, state, Run)
      /\ Len(Run) \in Nat
  BY <1>1, <1>2, <1>4, ForcedRunIsRun, LenProperties
<1>6. Len(Run) \in 2 .. RunMax /\ Len(Run) <= Chunk
  BY <1>2, <1>3, <1>5
<1>7. Front(Run) \in Seq(Token) /\ Len(Front(Run)) = Len(Run) - 1
  <2>1. 1 \in 1 .. Len(Run) + 1 /\ Len(Run) - 1 \in 0 .. Len(Run)
    BY <1>2, <1>6
  <2>2. /\ SubSeq(Run, 1, Len(Run) - 1) \in Seq(Token)
        /\ Len(SubSeq(Run, 1, Len(Run) - 1)) = IF 1 <= Len(Run) - 1 THEN Len(Run) - 1 - 1 + 1 ELSE 0
    BY <1>5, <2>1, PartType
  <2> QED BY <2>2, <1>2, <1>6 DEF Front
<1>8. Last(Run) \in Token
  BY <1>2, <1>5, <1>6, ElementOfSeq DEF Last
<1>9. <<tok>> \o Front(Run) \in Seq(Token) /\ Len(<<tok>> \o Front(Run)) = Len(Run)
  <2>1. /\ <<tok>> \o Front(Run) \in Seq(Token)
        /\ Len(<<tok>> \o Front(Run)) = Len(Front(Run)) + 1
    BY <1>1, <1>7, FrontAndBack
  <2> QED BY <2>1, <1>5, <1>7
<1> QED BY <1>1, <1>2, <1>3, <1>5, <1>6, <1>7, <1>8, <1>9

\* What a draft is verified with.
LEMMA DraftFacts ==
  ASSUME TypeOK, Going, TakesDraft, Len(Draft) + 1 <= LogitRows, NEW f
  PROVE  /\ Draft \in Seq(Token) /\ Len(Draft) \in Nat
         /\ Len(Draft) + 1 <= MinOf(run.lookahead + 1, LogitRows)
         /\ Len(Draft) + 1 <= Chunk
         /\ <<tok>> \o Draft \in Seq(Token) /\ Len(<<tok>> \o Draft) = Len(Draft) + 1
         /\ pos + Len(Draft) + 1 <= Ctx
         /\ Len(out) + 1 + Len(Draft) + 1 <= Ngen
         /\ Agreed(f) \in 0 .. Len(Draft) /\ Agreed(f) \in Nat
         /\ SubSeq(Draft, 1, Agreed(f)) \in Seq(Token)
         /\ Len(SubSeq(Draft, 1, Agreed(f))) = Agreed(f)
         /\ run.lookahead \in Lookaheads /\ run.lookahead > 0
<1>1. /\ run \in Lines /\ tok \in Token
      /\ Len(out) \in Nat /\ Len(Emitted) = Len(out) + 1 /\ Len(run.prompt) \in Nat
      /\ pos = Len(run.prompt) + Len(out) /\ Len(run.prompt) + Ngen <= Ctx
      /\ Ngen \in Nat /\ Ctx \in Nat
  BY LoopFacts
<1>2. Draft \in Seq(Token) /\ Len(Draft) \in Nat /\ Len(Draft) <= run.lookahead
  BY <1>1, DraftType
<1>3. Agreed(f) \in 0 .. Len(Draft)
  BY <1>1, AgreedType
<1>4. /\ LogitRows \in 0 .. Chunk /\ Chunk \in Nat
      /\ run.lookahead \in Nat /\ run.lookahead \in Lookaheads
  BY <1>1, LineFacts, ChunkFacts
<1>5. /\ <<tok>> \o Draft \in Seq(Token)
      /\ Len(<<tok>> \o Draft) = Len(Draft) + 1
  BY <1>1, <1>2, FrontAndBack
<1>6. /\ SubSeq(Draft, 1, Agreed(f)) \in Seq(Token)
      /\ Len(SubSeq(Draft, 1, Agreed(f))) = Agreed(f)
  <2> DEFINE a == Agreed(f)  d == Draft
  <2>1. a \in 0 .. Len(d) /\ 1 \in 1 .. Len(d) + 1 /\ d \in Seq(Token) /\ Len(d) \in Nat
    BY <1>2, <1>3
  <2> HIDE DEF a, d
  <2>2. SubSeq(d, 1, a) \in Seq(Token) /\ Len(SubSeq(d, 1, a)) = IF 1 <= a THEN a - 1 + 1 ELSE 0
    BY <2>1, PartType
  <2> DEFINE part == SubSeq(d, 1, a)
  <2>3. part \in Seq(Token) /\ Len(part) = IF 1 <= a THEN a - 1 + 1 ELSE 0
    BY <2>2
  <2> HIDE DEF part
  <2>4. Len(part) = a
    BY <2>1, <2>3
  <2> QED BY <2>3, <2>4 DEF a, d, part
<1>7. Len(Draft) + 1 <= MinOf(run.lookahead + 1, LogitRows)
  BY <1>2, <1>4 DEF MinOf
<1>8. Len(Emitted) + Len(Draft) + 1 <= Ngen /\ run.lookahead > 0
  BY DEF TakesDraft
<1>9. /\ Len(Draft) + 1 <= Chunk /\ pos + Len(Draft) + 1 <= Ctx
      /\ Len(out) + 1 + Len(Draft) + 1 <= Ngen /\ Agreed(f) \in Nat
  BY <1>1, <1>2, <1>3, <1>4, <1>8
<1> QED BY <1>2, <1>3, <1>4, <1>5, <1>6, <1>7, <1>8, <1>9, Zenon

LEMMA PrefillFacts ==
  ASSUME TypeOK, phase = "prefill"
  PROVE  LET n    == MinOf(Chunk, Len(run.prompt) - pos)
             part == SubSeq(run.prompt, pos + 1, pos + n)
         IN  /\ n \in 1 .. Chunk /\ n \in Nat /\ pos \in Nat /\ pos + n <= Len(run.prompt)
             /\ part \in Seq(Token) /\ Len(part) = n
             /\ pos + n <= Ctx
<1> DEFINE n == MinOf(Chunk, Len(run.prompt) - pos)  p == run.prompt
<1>1. /\ p \in Seq(Token) /\ Len(p) \in Nat /\ pos \in Nat /\ pos < Len(p)
      /\ Chunk \in Nat /\ Chunk >= 1 /\ Ctx \in Nat /\ Ngen \in Nat /\ Len(p) + Ngen <= Ctx
  BY LineFacts, ChunkFacts DEF TypeOK
<1>2. n \in 1 .. Chunk /\ n \in Nat /\ pos + n <= Len(p)
  BY <1>1 DEF MinOf
<1> HIDE DEF n, p
<1>4. SubSeq(p, pos + 1, pos + n) \in Seq(Token) /\ Len(SubSeq(p, pos + 1, pos + n)) = n
  <2> DEFINE i == pos + 1  j == pos + n
  <2>1. i \in 1 .. Len(p) + 1 /\ j \in 0 .. Len(p) /\ i <= j /\ j - i + 1 = n
    BY <1>1, <1>2
  <2> HIDE DEF i, j
  <2> DEFINE part == SubSeq(p, i, j)
  <2>2. part \in Seq(Token) /\ Len(part) = IF i <= j THEN j - i + 1 ELSE 0
    BY <1>1, <2>1, PartType
  <2> HIDE DEF part
  <2>3. part \in Seq(Token) /\ Len(part) = n
    BY <2>1, <2>2
  <2> QED BY <2>3 DEF i, j, part
<1>5. pos + n <= Ctx
  BY <1>1, <1>2
<1>6. Chunk \in Nat /\ n = MinOf(Chunk, Len(run.prompt) - pos) /\ p = run.prompt
  BY <1>1 DEF n, p
<1> QED BY <1>1, <1>2, <1>4, <1>5, <1>6, Zenon

\* Types: with the forms of the next state, one lemma an action.
LEMMA PrefillType == ASSUME TypeOK, Prefill PROVE TypeOK'
<1> DEFINE n    == MinOf(Chunk, Len(run.prompt) - pos)
           part == SubSeq(run.prompt, pos + 1, pos + n)
           f    == Fwd(part)
           last == pos + n = Len(run.prompt)
<1>1. /\ phase = "prefill" /\ cache' = f.kv /\ pos' = pos + n
      /\ tok' = (IF last THEN Choice(run.con, f.out, state) ELSE tok)
      /\ state' = (IF last THEN Advance(run.con, state, tok') ELSE state)
      /\ phase' = (IF last THEN "decode" ELSE phase)
      /\ run' = run /\ out' = out
  BY DEF Prefill
<1>2. /\ n \in 1 .. Chunk /\ n \in Nat /\ pos \in Nat /\ pos + n <= Len(run.prompt)
      /\ part \in Seq(Token) /\ Len(part) = n
      /\ pos + n <= Ctx
  BY <1>1, PrefillFacts
<1> HIDE DEF n, part
<1>3. IsCache(f.kv, Elem)
  BY <1>2, FwdType
<1>4. /\ run \in Lines /\ run.con \in Grammars /\ state \in DOMAIN run.con.next
      /\ tok \in Token /\ out = <<>> /\ Ctx \in Nat /\ Len(run.prompt) \in Nat
  BY <1>1, LoopFacts, ChunkFacts DEF TypeOK
<1>5. tok' \in Token
  BY <1>1, <1>4, ChoiceType
<1>6. state' \in DOMAIN run.con.next
  BY <1>1, <1>4, <1>5, AdvanceType
<1>7. out' = <<>> /\ out' \in Seq(Token) /\ Len(out') = 0 /\ Len(out') <= Ngen
  BY <1>1, <1>4, EmptySeq, SpeculateAssumption
<1>8. pos' \in 0 .. Ctx
  BY <1>1, <1>2, <1>4
<1> HIDE DEF f, last
<1>9. CASE last
  <2>1. phase' = "decode" /\ pos' = Len(run.prompt) + Len(out')
    BY <1>1, <1>4, <1>7, <1>9 DEF last
  <2> QED BY <1>1, <1>3, <1>4, <1>5, <1>6, <1>7, <1>8, <2>1 DEF TypeOK
<1>10. CASE ~last
  <2>1. phase' = "prefill" /\ pos' < Len(run.prompt)
    BY <1>1, <1>2, <1>4, <1>10 DEF last
  <2> QED BY <1>1, <1>3, <1>4, <1>5, <1>6, <1>7, <1>8, <2>1 DEF TypeOK
<1> QED BY <1>9, <1>10

\* An iteration of the loop: the answer grows by as many tokens as the cache.
LEMMA GrowType ==
  ASSUME TypeOK, Going, run' = run, phase' = phase, IsCache(cache', Elem), tok' \in Token,
         state' \in DOMAIN run.con.next, out' \in Seq(Token), Len(out') <= Ngen,
         pos' = pos + Len(out') - Len(out)
  PROVE  TypeOK'
<1>1. /\ run \in Lines /\ Len(out) \in Nat /\ Len(run.prompt) \in Nat /\ Ngen \in Nat
      /\ Len(run.prompt) + Ngen <= Ctx /\ Ctx \in Nat /\ pos = Len(run.prompt) + Len(out)
      /\ phase = "decode" /\ Len(out') \in Nat
  BY LoopFacts, LenProperties DEF Going
<1>2. pos' = Len(run.prompt) + Len(out') /\ pos' \in 0 .. Ctx
  BY <1>1
<1> QED BY <1>1, <1>2 DEF TypeOK

LEMMA FeedRunType == ASSUME TypeOK, FeedRun PROVE TypeOK'
<1>1. /\ Going /\ TakesRun /\ run' = run /\ phase' = phase
      /\ cache' = Fwd(<<tok>> \o Front(Run)).kv /\ out' = Emitted \o Front(Run)
      /\ tok' = Last(Run) /\ state' = After(run.con, state, Run) /\ pos' = pos + Len(Run)
  BY DEF FeedRun
<1>2. /\ Run \in Seq(Token) /\ Len(Run) \in 2 .. RunMax /\ Len(Run) <= Chunk
      /\ Len(out) + 1 + Len(Run) <= Ngen
      /\ Front(Run) \in Seq(Token) /\ Len(Front(Run)) = Len(Run) - 1
      /\ Last(Run) \in Token
      /\ <<tok>> \o Front(Run) \in Seq(Token) /\ Len(<<tok>> \o Front(Run)) = Len(Run)
      /\ pos + Len(Run) <= Ctx
  BY <1>1, RunFacts
<1>3. /\ run.con \in Grammars /\ state \in DOMAIN run.con.next
      /\ Emitted \in Seq(Token) /\ Len(Emitted) = Len(out) + 1 /\ Len(out) \in Nat
      /\ Ngen \in Nat /\ Len(run.prompt) \in Nat /\ pos = Len(run.prompt) + Len(out)
  BY <1>1, LoopFacts
<1>4. IsCache(cache', Elem)
  BY <1>1, <1>2, FwdType
<1>5. state' \in DOMAIN run.con.next
  BY <1>1, <1>2, <1>3, AfterType
<1>6. out' \in Seq(Token) /\ Len(out') = Len(out) + Len(Run)
  <2>1. /\ Emitted \o Front(Run) \in Seq(Token)
        /\ Len(Emitted \o Front(Run)) = Len(Emitted) + Len(Front(Run))
    BY <1>2, <1>3, ConcatProperties
  <2>2. Len(Run) \in Nat
    BY <1>2, LenProperties
  <2> QED BY <1>1, <1>2, <1>3, <2>1, <2>2
<1>7. Len(Run) \in Nat /\ Len(out') <= Ngen /\ pos' = pos + Len(out') - Len(out)
  BY <1>1, <1>2, <1>3, <1>6, LenProperties
<1> QED BY <1>1, <1>2, <1>4, <1>5, <1>6, <1>7, GrowType

LEMMA FeedDraftType == ASSUME TypeOK, FeedDraft PROVE TypeOK'
<1> DEFINE fed == <<tok>> \o Draft  f == Fwd(fed)  acc == Agreed(f)  part == SubSeq(Draft, 1, acc)
<1>1. /\ Going /\ TakesDraft /\ Len(Draft) + 1 <= LogitRows /\ run' = run /\ phase' = phase
      /\ cache' = f.kv /\ out' = Emitted \o part
      /\ tok' = Continues(f, acc) /\ state' = After(run.con, state, Append(part, tok'))
      /\ pos' = pos + acc + 1
  BY DEF FeedDraft, CutBack
<1>2. /\ Draft \in Seq(Token) /\ Len(Draft) \in Nat /\ Len(Draft) + 1 <= Chunk
      /\ fed \in Seq(Token) /\ Len(fed) = Len(Draft) + 1
      /\ pos + Len(Draft) + 1 <= Ctx
      /\ Len(out) + 1 + Len(Draft) + 1 <= Ngen
      /\ acc \in 0 .. Len(Draft) /\ acc \in Nat
      /\ part \in Seq(Token) /\ Len(part) = acc
  BY <1>1, DraftFacts
<1>3. /\ run.con \in Grammars /\ state \in DOMAIN run.con.next
      /\ Emitted \in Seq(Token) /\ Len(Emitted) = Len(out) + 1 /\ Len(out) \in Nat
      /\ Ngen \in Nat /\ Len(run.prompt) \in Nat /\ pos = Len(run.prompt) + Len(out)
  BY <1>1, LoopFacts
<1> HIDE DEF fed, acc, part
<1>4. IsCache(cache', Elem)
  <2>1. Len(fed) <= Chunk /\ pos + Len(fed) <= Ctx
    <3> DEFINE d == Len(Draft)
    <3>1. d \in Nat /\ d + 1 <= Chunk /\ pos + d + 1 <= Ctx /\ pos \in Nat /\ Len(fed) = d + 1
      BY <1>2, <1>3
    <3> HIDE DEF d
    <3> QED BY <3>1, ChunkFacts
  <2> QED BY <1>1, <1>2, <2>1, FwdType
<1>5. tok' \in Token
  BY <1>1, ChoiceType DEF Continues, Decided
<1> HIDE DEF f
<1>6. state' \in DOMAIN run.con.next
  <2>1. Append(part, tok') \in Seq(Token)
    BY <1>2, <1>5, AppendProperties
  <2> QED BY <1>1, <1>3, <2>1, AfterType
<1>7. out' \in Seq(Token) /\ Len(out') = Len(out) + 1 + acc
  <2>1. /\ Emitted \o part \in Seq(Token)
        /\ Len(Emitted \o part) = Len(Emitted) + Len(part)
    BY <1>2, <1>3, ConcatProperties
  <2> QED BY <1>1, <1>2, <1>3, <2>1
<1>8. Len(out') <= Ngen /\ pos' = pos + Len(out') - Len(out)
  <2> DEFINE d == Len(Draft)  more == Len(out')
  <2>1. /\ d \in Nat /\ acc \in 0 .. d /\ Len(out) + 1 + d + 1 <= Ngen /\ Len(out) \in Nat
        /\ Ngen \in Nat /\ more = Len(out) + 1 + acc /\ pos \in Nat /\ pos' = pos + acc + 1
    BY <1>1, <1>2, <1>3, <1>7
  <2> HIDE DEF d, more
  <2>2. more <= Ngen /\ pos' = pos + more - Len(out)
    BY <2>1
  <2> QED BY <2>2 DEF more
<1> QED BY <1>1, <1>4, <1>5, <1>6, <1>7, <1>8, GrowType

LEMMA StepFacts ==
  ASSUME TypeOK, Step
  PROVE  LET f == Fwd(<<tok>>)
         IN  /\ Going /\ run' = run /\ phase' = phase /\ cache' = f.kv
             /\ out' = Emitted /\ pos' = pos + 1
             /\ tok' = Choice(run.con, f.out, state) /\ tok' \in Token
             /\ state' = Advance(run.con, state, tok')
             /\ <<tok>> \in Seq(Token) /\ Len(<<tok>>) = 1
<1> DEFINE f == Fwd(<<tok>>)  forced == Forced(run.con, state)
<1>1. /\ Going /\ run' = run /\ phase' = phase /\ cache' = f.kv
      /\ tok' = (IF forced # {} THEN CHOOSE t \in forced : TRUE
                                ELSE Choice(run.con, f.out, state))
      /\ state' = Advance(run.con, state, tok') /\ out' = Emitted /\ pos' = pos + 1
  BY DEF Step
<1>2. run.con \in Grammars /\ state \in DOMAIN run.con.next /\ tok \in Token
  BY LoopFacts
<1> DEFINE h == f.out
<1> HIDE DEF f, h
<1>3. tok' = Choice(run.con, h, state)
  <2>1. CASE forced = {}
    BY <1>1, <2>1 DEF h
  <2>2. CASE forced # {}
    <3>1. PICK t \in Token : forced = {t} /\ \A g : Choice(run.con, g, state) = t
      BY <1>2, <2>2, ForcedOne
    <3>2. Choice(run.con, h, state) = t
      BY <3>1
    <3>3. (CHOOSE u \in forced : TRUE) = t
      BY <3>1
    <3> QED BY <1>1, <2>2, <3>2, <3>3
  <2> QED BY <2>1, <2>2
<1>4. tok' \in Token
  BY <1>3, ChoiceType
<1>5. <<tok>> \in Seq(Token) /\ Len(<<tok>>) = 1
  BY <1>2
<1> QED BY <1>1, <1>3, <1>4, <1>5 DEF f, h

LEMMA StepType == ASSUME TypeOK, Step PROVE TypeOK'
<1> DEFINE one == <<tok>>
<1>1. /\ Going /\ run' = run /\ phase' = phase /\ cache' = Fwd(one).kv
      /\ out' = Emitted /\ pos' = pos + 1 /\ tok' \in Token
      /\ state' = Advance(run.con, state, tok')
      /\ one \in Seq(Token) /\ Len(one) = 1
  BY StepFacts
<1> HIDE DEF one
<1>2. /\ run.con \in Grammars /\ state \in DOMAIN run.con.next
      /\ Emitted \in Seq(Token) /\ Len(Emitted) = Len(out) + 1 /\ Len(out) \in Nat
      /\ Ngen \in Nat /\ Len(run.prompt) \in Nat /\ pos = Len(run.prompt) + Len(out)
      /\ Len(out) < Ngen /\ Len(run.prompt) + Ngen <= Ctx /\ Ctx \in Nat
  BY <1>1, LoopFacts
<1>3. IsCache(cache', Elem)
  <2>1. Len(one) <= Chunk /\ pos + Len(one) <= Ctx
    BY <1>1, <1>2, ChunkFacts
  <2> QED BY <1>1, <2>1, FwdType
<1>4. state' \in DOMAIN run.con.next
  BY <1>1, <1>2, AdvanceType
<1>5. Len(out') <= Ngen /\ pos' = pos + Len(out') - Len(out)
  BY <1>1, <1>2
<1> QED BY <1>1, <1>2, <1>3, <1>4, <1>5, GrowType

\* The end of a line: nothing is fed.
LEMMA EndType == ASSUME TypeOK, Finish \/ DraftPanics PROVE TypeOK'
<1>1. /\ run \in Lines /\ out \in Seq(Token) /\ Len(out) \in Nat
      /\ Emitted \in Seq(Token) /\ Len(Emitted) = Len(out) + 1 /\ Ngen \in Nat
  BY LoopFacts
<1>2. /\ UNCHANGED <<run, pos, tok, state, cache>> /\ phase' \in {"done", "panic"}
      /\ \/ out' = out
         \/ out' = Emitted /\ Len(out) < Ngen
  BY <1>1 DEF Finish, DraftPanics, Going, Over
<1>3. out' \in Seq(Token) /\ Len(out') <= Ngen
  BY <1>1, <1>2 DEF TypeOK
<1> QED BY <1>2, <1>3 DEF TypeOK

\* Every emitted token has its position in the cache, and nothing is written past the
\* context, whatever is drafted, batched and cut back (main.rs:936-1040).
THEOREM TypeCorrect == Spec => []TypeOK
<1>1. Init => TypeOK
  <2> SUFFICES ASSUME Init PROVE TypeOK
    OBVIOUS
  <2>1. /\ run \in Lines /\ phase = "prefill" /\ pos = 0 /\ tok = 0 /\ state = Start
        /\ out = <<>> /\ cache = NewCache
    BY DEF Init
  <2>2. Len(run.prompt) >= 1 /\ Len(run.prompt) \in Nat /\ Ngen \in Nat
        /\ Start \in DOMAIN run.con.next
    BY <2>1, LineFacts
  <2>3. out \in Seq(Token) /\ Len(out) = 0
    BY <2>1, EmptySeq
  <2>4. IsCache(cache, Elem)
    BY <2>1, NewCacheType
  <2>5. pos \in 0 .. Ctx /\ tok \in Token
    BY <2>1, ChunkFacts, RunnerAssumption
  <2> QED BY <2>1, <2>2, <2>3, <2>4, <2>5 DEF TypeOK
<1>2. TypeOK /\ [Next]_vars => TypeOK'
  <2>1. CASE UNCHANGED vars
    BY <2>1 DEF vars, TypeOK
  <2> QED BY <2>1, PrefillType, FeedRunType, FeedDraftType, StepType, EndType DEF Next
<1> QED BY <1>1, <1>2, PTL DEF Spec

-----------------------------------------------------------------------------
(* The cache stands for the answer *)

\* A prefix that takes in the first of two sequences.
LEMMA PrefixOfConcat ==
  ASSUME NEW S, NEW s \in Seq(S), NEW t \in Seq(S), NEW m \in 0 .. Len(t)
  PROVE  SubSeq(s \o t, 1, Len(s) + m) = s \o SubSeq(t, 1, m)
<1> DEFINE both == s \o t  n == Len(s)  part == SubSeq(t, 1, m)  end == n + m
<1>1. /\ n \in Nat /\ Len(t) \in Nat /\ m \in Nat /\ both \in Seq(S) /\ Len(both) = n + Len(t)
      /\ \A i \in 1 .. n + Len(t) : both[i] = IF i <= n THEN s[i] ELSE t[i - n]
  BY LenProperties, ConcatProperties
<1>2. /\ part \in Seq(S) /\ Len(part) = m /\ \A i \in 1 .. m : part[i] = t[i]
  <2>1. 1 \in 1 .. Len(t) + 1
    BY <1>1
  <2>2. /\ part \in Seq(S) /\ Len(part) = IF 1 <= m THEN m - 1 + 1 ELSE 0
        /\ \A i \in 1 .. m - 1 + 1 : part[i] = t[1 + i - 1]
    BY <2>1, PartType
  <2> HIDE DEF part
  <2> QED BY <1>1, <2>2
<1> HIDE DEF both, part
<1> DEFINE whole == s \o part
<1>3. /\ whole \in Seq(S) /\ Len(whole) = end
      /\ \A i \in 1 .. end : whole[i] = IF i <= n THEN s[i] ELSE part[i - n]
  <2>1. /\ whole \in Seq(S) /\ Len(whole) = Len(s) + Len(part)
        /\ \A i \in 1 .. Len(s) + Len(part) :
             whole[i] = IF i <= Len(s) THEN s[i] ELSE part[i - Len(s)]
    BY <1>2, ConcatProperties
  <2> HIDE DEF whole
  <2> QED BY <1>2, <2>1
<1>4. /\ SubSeq(both, 1, end) \in Seq(S) /\ Len(SubSeq(both, 1, end)) = end
      /\ \A i \in 1 .. end : SubSeq(both, 1, end)[i] = both[i]
  <2>1. 1 \in 1 .. Len(both) + 1 /\ end \in 0 .. Len(both) /\ end \in Nat
    BY <1>1
  <2> HIDE DEF end
  <2>2. /\ SubSeq(both, 1, end) \in Seq(S)
        /\ Len(SubSeq(both, 1, end)) = IF 1 <= end THEN end - 1 + 1 ELSE 0
        /\ \A i \in 1 .. end - 1 + 1 : SubSeq(both, 1, end)[i] = both[1 + i - 1]
    BY <1>1, <2>1, PartType
  <2>3. Len(SubSeq(both, 1, end)) = end
    BY <2>1, <2>2
  <2>4. ASSUME NEW i \in 1 .. end PROVE SubSeq(both, 1, end)[i] = both[i]
    <3>1. i \in 1 .. end - 1 + 1 /\ 1 + i - 1 = i
      BY <2>1
    <3> QED BY <2>2, <3>1
  <2> QED BY <2>2, <2>3, <2>4
<1>5. ASSUME NEW i \in 1 .. end PROVE whole[i] = both[i]
  <2>1. CASE i <= n
    BY <2>1, <1>1, <1>3
  <2>2. CASE ~(i <= n)
    <3>1. i - n \in 1 .. m /\ i \in 1 .. n + Len(t)
      BY <2>2, <1>1
    <3> QED BY <2>2, <3>1, <1>1, <1>2, <1>3
  <2> QED BY <2>1, <2>2
<1> HIDE DEF whole, end
<1>6. SubSeq(both, 1, end) = whole
  BY <1>3, <1>4, <1>5, SeqEqual
<1> QED BY <1>6 DEF whole, end, both, part

\* The rows of a forward of a part of the tokens.
LEMMA PrefixOfElems ==
  ASSUME NEW toks \in Seq(Token), NEW a \in ArithClass, NEW m \in 0 .. Len(toks)
  PROVE  /\ SubSeq(toks, 1, m) \in Seq(Token) /\ Len(SubSeq(toks, 1, m)) = m
         /\ Elems(SubSeq(toks, 1, m), a) = SubSeq(Elems(toks, a), 1, m)
<1> DEFINE part == SubSeq(toks, 1, m)  e == Elems(toks, a)  some == Elems(part, a)
<1>1. /\ m \in Nat /\ Len(toks) \in Nat /\ 1 \in 1 .. Len(toks) + 1
      /\ (IF 1 <= m THEN m - 1 + 1 ELSE 0) = m
  BY LenProperties
<1>2. /\ part \in Seq(Token) /\ Len(part) = m /\ \A i \in 1 .. m : part[i] = toks[i]
  <2>1. /\ part \in Seq(Token) /\ Len(part) = IF 1 <= m THEN m - 1 + 1 ELSE 0
        /\ \A i \in 1 .. m - 1 + 1 : part[i] = toks[1 + i - 1]
    BY <1>1, PartType
  <2> HIDE DEF part
  <2> QED BY <1>1, <2>1
<1> HIDE DEF part
<1>3. /\ e \in Seq(Elem) /\ Len(e) = Len(toks)
      /\ \A k \in 1 .. Len(toks) : e[k] = [tok |-> toks[k], arith |-> a]
  BY ElemsType
<1>4. /\ some \in Seq(Elem) /\ Len(some) = Len(part)
      /\ \A k \in 1 .. Len(part) : some[k] = [tok |-> part[k], arith |-> a]
  BY <1>2, ElemsType
<1> HIDE DEF e, some
<1>5. /\ SubSeq(e, 1, m) \in Seq(Elem) /\ Len(SubSeq(e, 1, m)) = m
      /\ \A i \in 1 .. m : SubSeq(e, 1, m)[i] = e[i]
  <2>1. /\ SubSeq(e, 1, m) \in Seq(Elem) /\ Len(SubSeq(e, 1, m)) = IF 1 <= m THEN m - 1 + 1 ELSE 0
        /\ \A i \in 1 .. m - 1 + 1 : SubSeq(e, 1, m)[i] = e[1 + i - 1]
    BY <1>1, <1>3, PartType
  <2>2. ASSUME NEW i \in 1 .. m PROVE SubSeq(e, 1, m)[i] = e[i]
    <3>1. i \in 1 .. m - 1 + 1 /\ 1 + i - 1 = i
      BY <1>1
    <3> QED BY <2>1, <3>1
  <2> QED BY <1>1, <2>1, <2>2
<1>6. ASSUME NEW i \in 1 .. m PROVE some[i] = SubSeq(e, 1, m)[i]
  <2>1. i \in 1 .. Len(toks) /\ i \in 1 .. Len(part)
    BY <1>1, <1>2
  <2> QED BY <2>1, <1>2, <1>3, <1>4, <1>5
<1>7. some = SubSeq(e, 1, m)
  BY <1>2, <1>4, <1>5, <1>6, SeqEqual
<1> QED BY <1>2, <1>7 DEF part, e, some

\* A forward of tokens that it computes like forwards of one row: over a cache of
\* the answer, cut back to any of its rows, it is as if they had gone in one by one.
LEMMA FedAlike ==
  ASSUME TypeOK, phase = "decode", Recent(cache, LoneRun(run.prompt, out)),
         NEW fed \in Seq(Token), Len(fed) <= Chunk, pos + Len(fed) <= Ctx,
         \A k \in 1 .. Len(fed) : Arith(1, pos + k) = Arith(Len(fed), pos + Len(fed)),
         NEW m \in 0 .. Len(fed)
  PROVE  LET h == LoneRun(run.prompt, out \o SubSeq(fed, 1, m))
         IN  /\ h \in Seq(Elem) /\ Len(h) = pos + m
             /\ Recent(Fwd(fed).kv, h)
             /\ Fwd(fed).out # Bad /\ SubSeq(Fwd(fed).out, 1, pos + m) = h
<1> DEFINE a == Arith(Len(fed), pos + Len(fed))  e == Elems(fed, a)
           h == LoneRun(run.prompt, out)  part == SubSeq(fed, 1, m)
           part_e == Elems(part, a)  f == Forward(cache, e, pos)
<1>1. /\ run.prompt \in Seq(Token) /\ out \in Seq(Token)
      /\ Len(run.prompt) \in Nat /\ Len(out) \in Nat /\ pos = Len(run.prompt) + Len(out)
  BY LoopFacts DEF TypeOK
<1>2. h \in Seq(Elem) /\ Len(h) = pos
  BY <1>1, LoneRunType
<1>3. a \in ArithClass /\ e \in Seq(Elem) /\ Len(e) = Len(fed) /\ Len(fed) \in Nat
  BY ArithType, ElemsType, LenProperties
<1>4. /\ part \in Seq(Token) /\ Len(part) = m /\ part_e = SubSeq(e, 1, m)
  BY <1>3, PrefixOfElems
<1>5. LoneRun(run.prompt, out \o part) = h \o part_e
  <2> HIDE DEF part, part_e, e, h, f
  <2>1. ASSUME NEW k \in 1 .. Len(part)
        PROVE  Arith(1, Len(run.prompt) + Len(out) + k) = a
    <3>1. k \in 1 .. Len(fed) /\ Len(run.prompt) + Len(out) + k = pos + k
      BY <1>1, <1>3, <1>4
    <3>2. Arith(1, pos + k) = a
      BY <3>1
    <3> QED BY <3>1, <3>2
  <2>2. part \in Seq(Token) /\ part_e = Elems(part, a) /\ a \in ArithClass
    BY <1>3, <1>4 DEF part_e
  <2>3. run.prompt \in Seq(Token) /\ out \in Seq(Token)
    BY <1>1
  <2> HIDE DEF a
  <2>4. LoneRun(run.prompt, out \o part) = LoneRun(run.prompt, out) \o Elems(part, a)
    BY <2>1, <2>2, <2>3, LoneRunExtend, ZenonT(30)
  <2> QED BY <2>2, <2>4 DEF h
<1>6. Fwd(fed) = f
  BY DEF Fwd
<1> HIDE DEF a, e, h, part, part_e
<1>7. /\ f.out = h \o e
      /\ \A i \in 0 .. Len(e) : Recent(f.kv, SubSeq(h \o e, 1, Len(h) + i))
  <2>1. h \in Seq(Elem) /\ e \in Seq(Elem)
    BY <1>2, <1>3
  <2>2. Recent(cache, h)
    BY DEF h
  <2>3. Len(e) <= Chunk /\ Len(h) + Len(e) <= Ctx /\ f = Forward(cache, e, Len(h))
    BY <1>2, <1>3 DEF f
  <2> HIDE DEF f
  <2>4. f.out = h \o e
    BY <2>1, <2>2, <2>3, ForwardRecent
  <2>5. \A i \in 0 .. Len(e) : Recent(f.kv, SubSeq(h \o e, 1, Len(h) + i))
    BY <2>1, <2>2, <2>3, ForwardRecent
  <2> QED BY <2>4, <2>5
<1>8. SubSeq(h \o e, 1, Len(h) + m) = h \o part_e
  <2>1. h \in Seq(Elem) /\ e \in Seq(Elem) /\ m \in 0 .. Len(e)
    BY <1>2, <1>3
  <2>2. SubSeq(h \o e, 1, Len(h) + m) = h \o SubSeq(e, 1, m)
    BY <2>1, PrefixOfConcat
  <2> QED BY <1>4, <2>2
<1>9. h \o e \in Seq(Elem) /\ f.out # Bad
  <2>1. h \o e \in Seq(Elem)
    BY <1>2, <1>3, ConcatProperties
  <2> QED BY <1>7, <2>1, RowAssumption
<1> HIDE DEF f
<1>10. /\ LoneRun(run.prompt, out \o part) \in Seq(Elem)
       /\ Len(LoneRun(run.prompt, out \o part)) = pos + m
  <2>1. out \o part \in Seq(Token) /\ Len(out \o part) = Len(out) + m
    BY <1>1, <1>4, ConcatProperties
  <2>2. /\ LoneRun(run.prompt, out \o part) \in Seq(Elem)
        /\ Len(LoneRun(run.prompt, out \o part)) = Len(run.prompt) + Len(out \o part)
    BY <1>1, <2>1, LoneRunType
  <2>3. \A i, j \in Nat : i + (j + m) = i + j + m
    BY <1>3
  <2> QED BY <1>1, <2>1, <2>2, <2>3
<1> QED BY <1>2, <1>3, <1>5, <1>6, <1>7, <1>8, <1>9, <1>10 DEF part

\* No more rows than RowsAlike speaks of are computed like one row.
LEMMA Alike ==
  ASSUME RowsAlike,
         NEW m \in {RunMax} \cup {MinOf(k + 1, LogitRows) : k \in Lookaheads}, m \in Nat,
         NEW n \in 1 .. m, NEW s, NEW t
  PROVE  Arith(1, s) = Arith(n, t)
<1>1. WeightRows \notin 2 .. m /\ RowbatchRows > m
  BY DEF RowsAlike
<1>2. WeightRows \in Nat /\ RowbatchRows \in Nat
  BY RunnerAssumption
<1>3. (1 >= WeightRows) = (n >= WeightRows)
  BY <1>1, <1>2
<1>4. ~(1 >= RowbatchRows) /\ ~(n >= RowbatchRows)
  BY <1>1, <1>2
<1>5. (1 >= RowbatchRows /\ s > RowbatchSpan) = (n >= RowbatchRows /\ t > RowbatchSpan)
  BY <1>4, Zenon
<1> QED BY <1>3, <1>5, Zenon DEF Arith

\* The cache holds what was fed: whole chunks of the prompt, then the answer.
CacheInv ==
  /\ phase = "prefill" => /\ pos % Chunk = 0
                          /\ Recent(cache, SubSeq(FullPrefill(run.prompt), 1, pos))
  /\ phase = "decode" => Recent(cache, LoneRun(run.prompt, out))

\* The three kinds of forward of the loop, for any part of what they feed.
LEMMA RunAlike ==
  ASSUME RowsAlike, TypeOK, CacheInv, Going, TakesRun, NEW m \in 0 .. Len(Run)
  PROVE  LET fed == <<tok>> \o Front(Run)
             h   == LoneRun(run.prompt, out \o SubSeq(fed, 1, m))
         IN  /\ h \in Seq(Elem) /\ Len(h) = pos + m
             /\ Recent(Fwd(fed).kv, h)
             /\ Fwd(fed).out # Bad /\ SubSeq(Fwd(fed).out, 1, pos + m) = h
<1> DEFINE fed == <<tok>> \o Front(Run)
<1>1. /\ Len(Run) \in 2 .. RunMax /\ Len(Run) <= Chunk
      /\ fed \in Seq(Token) /\ Len(fed) = Len(Run) /\ pos + Len(Run) <= Ctx
  BY RunFacts
<1>2. RunMax \in Nat /\ pos \in Nat /\ phase = "decode"
  BY SpeculateAssumption, ChunkFacts DEF TypeOK, Going
<1> HIDE DEF fed
<1>3. \A k \in 1 .. Len(fed) : Arith(1, pos + k) = Arith(Len(fed), pos + Len(fed))
  <2>1. Len(fed) \in 1 .. RunMax
    BY <1>1, <1>2
  <2> QED BY <1>2, <2>1, Alike
<1>4. m \in 0 .. Len(fed) /\ Len(fed) <= Chunk /\ pos + Len(fed) <= Ctx
  BY <1>1
<1>5. Recent(cache, LoneRun(run.prompt, out))
  BY <1>2 DEF CacheInv
<1> QED BY <1>1, <1>2, <1>3, <1>4, <1>5, FedAlike DEF fed

LEMMA DraftAlike ==
  ASSUME RowsAlike, TypeOK, CacheInv, Going, TakesDraft, Len(Draft) + 1 <= LogitRows,
         NEW m \in 0 .. Len(Draft) + 1
  PROVE  LET fed == <<tok>> \o Draft
             h   == LoneRun(run.prompt, out \o SubSeq(fed, 1, m))
         IN  /\ h \in Seq(Elem) /\ Len(h) = pos + m
             /\ Recent(Fwd(fed).kv, h)
             /\ Fwd(fed).out # Bad /\ SubSeq(Fwd(fed).out, 1, pos + m) = h
<1> DEFINE fed == <<tok>> \o Draft  most == MinOf(run.lookahead + 1, LogitRows)  n == Len(Draft) + 1
<1>1. /\ Len(Draft) \in Nat /\ n <= most /\ n <= Chunk /\ n \in Nat /\ n >= 1
      /\ fed \in Seq(Token) /\ Len(fed) = n
      /\ run.lookahead \in Lookaheads
  BY DraftFacts
<1>2. pos + n <= Ctx
  <2>1. pos \in Nat /\ Len(Draft) \in Nat /\ pos + Len(Draft) + 1 <= Ctx
    BY DraftFacts, ChunkFacts DEF TypeOK
  <2> QED BY <2>1
<1>3. most \in Nat /\ pos \in Nat /\ phase = "decode"
  <2>1. run.lookahead \in Nat /\ LogitRows \in Nat
    BY LineFacts, ChunkFacts DEF TypeOK
  <2>2. most \in Nat
    BY <2>1 DEF MinOf
  <2> QED BY <2>2, ChunkFacts DEF TypeOK, Going
<1>4. most \in {RunMax} \cup {MinOf(k + 1, LogitRows) : k \in Lookaheads}
  BY <1>1
<1> HIDE DEF fed, most, n
<1>5. \A k \in 1 .. Len(fed) : Arith(1, pos + k) = Arith(Len(fed), pos + Len(fed))
  <2>1. Len(fed) \in 1 .. most
    BY <1>1, <1>3
  <2> QED BY <1>3, <1>4, <2>1, Alike
<1>6. m \in 0 .. Len(fed) /\ Len(fed) <= Chunk /\ pos + Len(fed) <= Ctx
  BY <1>1, <1>2 DEF n
<1>7. Recent(cache, LoneRun(run.prompt, out))
  BY <1>3 DEF CacheInv
<1> QED BY <1>1, <1>3, <1>5, <1>6, <1>7, FedAlike DEF fed

LEMMA StepAlike ==
  ASSUME TypeOK, CacheInv, Going
  PROVE  LET h == LoneRun(run.prompt, Emitted)
         IN  /\ h \in Seq(Elem) /\ Len(h) = pos + 1
             /\ Recent(Fwd(<<tok>>).kv, h) /\ Fwd(<<tok>>).out = h
<1> DEFINE one == <<tok>>  a == Arith(1, pos + 1)  e == Elems(one, a)
           h == LoneRun(run.prompt, out)  more == LoneRun(run.prompt, Emitted)
<1>1. /\ run.prompt \in Seq(Token) /\ out \in Seq(Token) /\ tok \in Token
      /\ Len(run.prompt) \in Nat /\ Len(out) \in Nat /\ pos = Len(run.prompt) + Len(out)
      /\ Len(out) < Ngen /\ Len(run.prompt) + Ngen <= Ctx /\ Ngen \in Nat /\ Ctx \in Nat
      /\ Emitted \in Seq(Token) /\ Len(Emitted) = Len(out) + 1
  BY LoopFacts
<1>2. h \in Seq(Elem) /\ Len(h) = pos
  BY <1>1, LoneRunType
<1>3. one \in Seq(Token) /\ Len(one) = 1 /\ a \in ArithClass
  BY <1>1, ArithType
<1>4. more = h \o e
  BY <1>1, LoneRunAppend DEF Emitted
<1>5. Fwd(one) = Forward(cache, e, pos)
  BY <1>3 DEF Fwd
<1> HIDE DEF one, a
<1>6. e \in Seq(Elem) /\ Len(e) = 1
  BY <1>3, ElemsType
<1>7. more \in Seq(Elem) /\ Len(more) = Len(run.prompt) + Len(Emitted)
  BY <1>1, LoneRunType
<1> HIDE DEF e, h, more
<1>8. Len(more) = pos + 1
  <2>1. \A i, j \in Nat : i + (j + 1) = i + j + 1
    OBVIOUS
  <2> QED BY <1>1, <1>7, <2>1
<1>9. Recent(cache, h)
  BY DEF CacheInv, Going, h
<1>10. Len(e) <= Chunk /\ Len(h) + Len(e) <= Ctx
  BY <1>1, <1>2, <1>6, ChunkFacts
<1>11. /\ Forward(cache, e, Len(h)).out = h \o e
       /\ Recent(Forward(cache, e, Len(h)).kv, SubSeq(h \o e, 1, Len(h) + 1))
  <2>1. 1 \in 0 .. Len(e)
    BY <1>6
  <2> QED BY <1>2, <1>6, <1>9, <1>10, <2>1, ForwardRecent
<1>12. SubSeq(more, 1, Len(h) + 1) = more
  BY <1>2, <1>7, <1>8, SubSeqFull
<1> QED BY <1>2, <1>4, <1>5, <1>7, <1>8, <1>11, <1>12 DEF one, more

\* One more chunk of the prompt; its last row is that of a lone run.
LEMMA PrefillAlike ==
  ASSUME TypeOK, CacheInv, phase = "prefill"
  PROVE  LET n == MinOf(Chunk, Len(run.prompt) - pos)
             f == Fwd(SubSeq(run.prompt, pos + 1, pos + n))
             h == SubSeq(FullPrefill(run.prompt), 1, pos + n)
         IN  /\ f.out = h /\ Recent(f.kv, h)
             /\ pos + n # Len(run.prompt) => (pos + n) % Chunk = 0
             /\ pos + n = Len(run.prompt) => h = LoneRun(run.prompt, <<>>)
<1> DEFINE p == run.prompt  n == MinOf(Chunk, Len(p) - pos)
           part == SubSeq(p, pos + 1, pos + n)
           a == Arith(n, pos + n)  e == Elems(part, a)
           full == FullPrefill(p)  h == SubSeq(full, 1, pos)  more == SubSeq(full, 1, pos + n)
<1>1. /\ p \in Seq(Token) /\ Len(p) \in Nat /\ pos \in Nat /\ pos < Len(p) /\ pos % Chunk = 0
      /\ Recent(cache, h)
  BY LoopFacts, ChunkFacts DEF TypeOK, CacheInv
<1>2. /\ n \in 1 .. Chunk /\ n \in Nat /\ pos + n <= Len(p)
      /\ part \in Seq(Token) /\ Len(part) = n /\ pos + n <= Ctx
  BY PrefillFacts
<1> HIDE DEF p
<1>3. /\ e \in Seq(Elem) /\ Len(e) = n /\ h \o e = more
      /\ (pos + n) % Chunk = 0 \/ pos + n = Len(p)
  BY <1>1, FullPrefillChunk
<1>4. full \in Seq(Elem) /\ Len(full) = Len(p)
  BY <1>1, FullPrefillType
<1>5. Fwd(part) = Forward(cache, e, pos)
  BY <1>2 DEF Fwd
<1> HIDE DEF n, part, a, e, full
<1>6. h \in Seq(Elem) /\ Len(h) = pos
  <2>1. 1 \in 1 .. Len(full) + 1 /\ pos \in 0 .. Len(full)
    BY <1>1, <1>4
  <2>2. h \in Seq(Elem) /\ Len(h) = IF 1 <= pos THEN pos - 1 + 1 ELSE 0
    BY <1>4, <2>1, PartType
  <2> QED BY <1>1, <2>2
<1>7. more \in Seq(Elem) /\ Len(more) = pos + n
  <2> DEFINE j == pos + n
  <2>1. 1 \in 1 .. Len(full) + 1 /\ j \in 0 .. Len(full) /\ 1 <= j /\ j \in Nat
    BY <1>1, <1>2, <1>4
  <2> HIDE DEF j
  <2>2. SubSeq(full, 1, j) \in Seq(Elem) /\ Len(SubSeq(full, 1, j)) = IF 1 <= j THEN j - 1 + 1 ELSE 0
    BY <1>4, <2>1, PartType
  <2>3. SubSeq(full, 1, j) \in Seq(Elem) /\ Len(SubSeq(full, 1, j)) = j
    BY <2>1, <2>2
  <2> QED BY <2>3 DEF j
<1>8. pos + n = Len(p) => more = full
  BY <1>4, SubSeqFull
<1> HIDE DEF h, more
<1>9. /\ Forward(cache, e, Len(h)).out = h \o e
      /\ Recent(Forward(cache, e, Len(h)).kv, SubSeq(h \o e, 1, Len(h) + n))
  <2>1. n \in 0 .. Len(e) /\ Len(e) <= Chunk /\ Len(h) + Len(e) <= Ctx
    BY <1>2, <1>3, <1>6
  <2> QED BY <1>1, <1>3, <1>6, <2>1, ForwardRecent
<1>10. SubSeq(more, 1, Len(h) + n) = more
  BY <1>6, <1>7, SubSeqFull
<1>11. LoneRun(p, <<>>) = full
  BY <1>1, LoneRunNothing DEF full
<1> QED BY <1>3, <1>5, <1>6, <1>8, <1>9, <1>10, <1>11 DEF p, n, part, more, full

\* What was emitted and a part of what followed it, as a part of what was fed.
LEMMA EmittedPart ==
  ASSUME NEW ids \in Seq(Token), NEW t \in Token, NEW d \in Seq(Token), NEW m \in 0 .. Len(d)
  PROVE  Append(ids, t) \o SubSeq(d, 1, m) = ids \o SubSeq(<<t>> \o d, 1, m + 1)
<1> DEFINE one == <<t>>  part == SubSeq(d, 1, m)
<1>1. one \in Seq(Token) /\ Len(one) = 1 /\ Append(ids, t) = ids \o one
  BY FrontAndBack
<1>2. part \in Seq(Token)
  BY PrefixOfElems, ArithType
<1>3. SubSeq(one \o d, 1, Len(one) + m) = one \o part
  <2> HIDE DEF one, part
  <2> QED BY <1>1, PrefixOfConcat DEF part
<1> HIDE DEF one, part
<1>4. (ids \o one) \o part = ids \o (one \o part)
  BY <1>1, <1>2, ConcatAssociative
<1>5. Len(one) + m = m + 1
  BY <1>1, LenProperties
<1> QED BY <1>1, <1>3, <1>4, <1>5 DEF one, part

\* What the two batched steps emit.
LEMMA RunEmits ==
  ASSUME TypeOK, FeedRun
  PROVE  out' = out \o SubSeq(<<tok>> \o Front(Run), 1, Len(Run))
<1> DEFINE d == Front(Run)  fed == <<tok>> \o d
<1>1. /\ Going /\ TakesRun /\ out' = Emitted \o d
  BY DEF FeedRun
<1>2. /\ d \in Seq(Token) /\ Len(d) = Len(Run) - 1 /\ Len(Run) \in 2 .. RunMax
      /\ tok \in Token /\ out \in Seq(Token)
  BY <1>1, RunFacts, LoopFacts
<1> HIDE DEF d
<1>3. Len(d) \in 0 .. Len(d) /\ Len(d) + 1 = Len(Run)
  BY <1>2, LenProperties, SpeculateAssumption, ChunkFacts
<1>4. Append(out, tok) \o SubSeq(d, 1, Len(d)) = out \o SubSeq(<<tok>> \o d, 1, Len(d) + 1)
  BY <1>2, <1>3, EmittedPart
<1>5. SubSeq(d, 1, Len(d)) = d
  BY <1>2, SubSeqFull
<1> QED BY <1>1, <1>3, <1>4, <1>5 DEF Emitted, d

LEMMA DraftEmits ==
  ASSUME TypeOK, FeedDraft
  PROVE  LET fed == <<tok>> \o Draft
             acc == Agreed(Fwd(fed))
         IN  out' = out \o SubSeq(fed, 1, acc + 1)
<1> DEFINE d == Draft  acc == Agreed(Fwd(<<tok>> \o Draft))
<1>1. /\ Going /\ TakesDraft /\ Len(Draft) + 1 <= LogitRows
      /\ out' = Emitted \o SubSeq(d, 1, acc)
  BY DEF FeedDraft
<1>2. /\ d \in Seq(Token) /\ acc \in 0 .. Len(d) /\ tok \in Token /\ out \in Seq(Token)
  BY <1>1, DraftFacts, LoopFacts
<1> HIDE DEF d, acc
<1>3. Append(out, tok) \o SubSeq(d, 1, acc) = out \o SubSeq(<<tok>> \o d, 1, acc + 1)
  BY <1>2, EmittedPart
<1> QED BY <1>1, <1>3 DEF Emitted, d, acc

LEMMA CacheStep ==
  ASSUME RowsAlike, TypeOK, CacheInv, Next
  PROVE  CacheInv'
<1>1. CASE Prefill
  <2> DEFINE n == MinOf(Chunk, Len(run.prompt) - pos)
             f == Fwd(SubSeq(run.prompt, pos + 1, pos + n))
             h == SubSeq(FullPrefill(run.prompt), 1, pos + n)
  <2>1. /\ phase = "prefill" /\ cache' = f.kv /\ pos' = pos + n /\ run' = run /\ out' = out
        /\ phase' = IF pos + n = Len(run.prompt) THEN "decode" ELSE phase
    BY <1>1 DEF Prefill
  <2>2. /\ Recent(f.kv, h)
        /\ pos + n # Len(run.prompt) => (pos + n) % Chunk = 0
        /\ pos + n = Len(run.prompt) => h = LoneRun(run.prompt, <<>>)
    BY <2>1, PrefillAlike
  <2>3. out = <<>>
    BY <2>1 DEF TypeOK
  <2>4. CASE pos + n = Len(run.prompt)
    <3>1. phase' = "decode" /\ Recent(cache', LoneRun(run.prompt, out))
      BY <2>1, <2>2, <2>3, <2>4
    <3> HIDE DEF n, f, h
    <3> QED BY <2>1, <3>1 DEF CacheInv
  <2>5. CASE pos + n # Len(run.prompt)
    <3>1. phase' = "prefill" /\ pos' % Chunk = 0 /\ Recent(cache', SubSeq(FullPrefill(run.prompt), 1, pos'))
      BY <2>1, <2>2, <2>5
    <3> HIDE DEF n, f, h
    <3> QED BY <2>1, <3>1 DEF CacheInv
  <2> QED BY <2>4, <2>5
<1>2. CASE FeedRun
  <2> DEFINE fed == <<tok>> \o Front(Run)
  <2>1. Going /\ TakesRun /\ run' = run /\ phase' = phase /\ cache' = Fwd(fed).kv
    BY <1>2 DEF FeedRun
  <2>2. Len(Run) \in 0 .. Len(Run)
    BY <2>1, RunFacts, SpeculateAssumption, ChunkFacts
  <2>3. Recent(Fwd(fed).kv, LoneRun(run.prompt, out \o SubSeq(fed, 1, Len(Run))))
    BY <2>1, <2>2, RunAlike
  <2>4. out' = out \o SubSeq(fed, 1, Len(Run))
    BY <1>2, RunEmits
  <2>5. phase' = "decode" /\ Recent(cache', LoneRun(run'.prompt, out'))
    BY <2>1, <2>3, <2>4 DEF Going
  <2> QED BY <2>5 DEF CacheInv
<1>3. CASE FeedDraft
  <2> DEFINE fed == <<tok>> \o Draft  acc == Agreed(Fwd(fed))
  <2>1. /\ Going /\ TakesDraft /\ Len(Draft) + 1 <= LogitRows /\ run' = run /\ phase' = phase
        /\ cache' = Fwd(fed).kv
    BY <1>3 DEF FeedDraft
  <2>2. acc + 1 \in 0 .. Len(Draft) + 1
    BY <2>1, DraftFacts
  <2>3. Recent(Fwd(fed).kv, LoneRun(run.prompt, out \o SubSeq(fed, 1, acc + 1)))
    BY <2>1, <2>2, DraftAlike
  <2>4. out' = out \o SubSeq(fed, 1, acc + 1)
    BY <1>3, DraftEmits
  <2>5. phase' = "decode" /\ Recent(cache', LoneRun(run'.prompt, out'))
    BY <2>1, <2>3, <2>4 DEF Going
  <2> QED BY <2>5 DEF CacheInv
<1>4. CASE Step
  <2>1. Going /\ run' = run /\ phase' = phase /\ cache' = Fwd(<<tok>>).kv /\ out' = Emitted
    BY <1>4, StepFacts
  <2>2. Recent(Fwd(<<tok>>).kv, LoneRun(run.prompt, Emitted))
    BY <2>1, StepAlike
  <2>3. phase' = "decode" /\ Recent(cache', LoneRun(run'.prompt, out'))
    BY <2>1, <2>2 DEF Going
  <2> QED BY <2>3 DEF CacheInv
<1>5. CASE Finish \/ DraftPanics
  BY <1>5 DEF Finish, DraftPanics, CacheInv
<1> QED BY <1>1, <1>2, <1>3, <1>4, <1>5 DEF Next

LEMMA CacheInit == ASSUME Init PROVE CacheInv
<1>1. phase = "prefill" /\ pos = 0 /\ run \in Lines
  BY DEF Init
<1>2. SubSeq(FullPrefill(run.prompt), 1, pos) = <<>>
  BY <1>1, SubSeqEmpty
<1>3. Recent(cache, <<>>)
  BY EmptySeq DEF Recent, Near
<1>4. pos % Chunk = 0
  BY <1>1, ChunkFacts
<1> QED BY <1>1, <1>2, <1>3, <1>4 DEF CacheInv

\* What a rejected draft wrote is never read (main.rs:1031-1034): when forwards of
\* several rows are computed like those of one, every position the next token attends
\* to holds the answer so far, also in a ring that a draft went round.
THEOREM RejectedNeverRead == ASSUME RowsAlike PROVE Spec => []WindowIntact
<1>1. Init => CacheInv
  BY CacheInit
<1>2. TypeOK /\ CacheInv /\ [Next]_vars => CacheInv'
  <2>1. UNCHANGED vars /\ CacheInv => CacheInv'
    BY DEF vars, CacheInv
  <2> QED BY <2>1, CacheStep
<1>3. TypeOK /\ CacheInv => WindowIntact
  <2>1. SUFFICES ASSUME TypeOK, CacheInv, phase = "decode",
                        NEW l \in Layers, NEW q \in WindowStart(l, pos) .. pos - 1
                 PROVE  cache.rows[KvSource(l)][SlotOf(KvSource(l), q)] =
                          SubSeq(LoneRun(run.prompt, out), 1, q + 1)
    BY DEF WindowIntact
  <2> DEFINE h == LoneRun(run.prompt, out)
  <2>2. Len(h) = pos /\ pos \in Nat
    BY <2>1, LoopFacts, LoneRunType, ChunkFacts DEF TypeOK
  <2>3. /\ WindowStart(l, pos) \in Nat
        /\ l \in Sliding => WindowStart(l, pos) >= pos - Window
    BY <2>2, ChunkFacts DEF WindowStart, SatSub
  <2>4. KvSource(l) \in Owned /\ (~NeedsFull(KvSource(l)) => l \in Sliding)
    BY KvSourceFacts
  <2> HIDE DEF h
  <2>5. q \in Near(KvSource(l), Len(h))
    BY <2>2, <2>3, <2>4, ChunkFacts DEF Near
  <2>6. Recent(cache, h)
    BY <2>1 DEF CacheInv, h
  <2> QED BY <2>4, <2>5, <2>6 DEF Recent, h
<1> QED BY <1>1, <1>2, <1>3, TypeCorrect, PTL DEF Spec

-----------------------------------------------------------------------------
(* The plain loop *)

\* A state of the plain loop.
PlainState(r) ==
  [out : Seq(Token), tok : Token, s : DOMAIN r.con.next, over : BOOLEAN]

LEMMA PlainStepType ==
  ASSUME NEW r \in Lines, NEW was \in PlainState(r)
  PROVE  PlainStep(r, was) \in PlainState(r)
<1> DEFINE ids == Append(was.out, was.tok)
           t == Chosen(r, ids, was.s)
<1>1. r.con \in Grammars
  BY LineFacts
<1>2. ids \in Seq(Token) /\ t \in Token
  BY AppendProperties, ChoiceType DEF PlainState, Chosen
<1>3. Advance(r.con, was.s, t) \in DOMAIN r.con.next
  BY <1>1, <1>2, AdvanceType DEF PlainState
<1>4. PlainStep(r, was) =
        IF was.over \/ Len(was.out) >= Ngen \/ was.tok \in Eos
        THEN [was EXCEPT !.over = TRUE]
        ELSE IF Accepting(r.con, was.s)
        THEN [was EXCEPT !.out = ids, !.over = TRUE]
        ELSE [out |-> ids, tok |-> t, s |-> Advance(r.con, was.s, t), over |-> FALSE]
  BY DEF PlainStep
<1> HIDE DEF ids, t
<1>5. [was EXCEPT !.over = TRUE] \in PlainState(r)
  BY DEF PlainState
<1>6. [was EXCEPT !.out = ids, !.over = TRUE] \in PlainState(r)
  BY <1>2 DEF PlainState
<1>7. [out |-> ids, tok |-> t, s |-> Advance(r.con, was.s, t), over |-> FALSE] \in PlainState(r)
  BY <1>2, <1>3 DEF PlainState
<1> QED BY <1>4, <1>5, <1>6, <1>7

\* It is defined, and goes from state to state.
LEMMA PlainRunIs ==
  ASSUME NEW r \in Lines
  PROVE  /\ PlainRun(r)[0] = PlainStart(r)
         /\ \A n \in 1 .. Ngen + 1 : PlainRun(r)[n] = PlainStep(r, PlainRun(r)[n - 1])
         /\ \A n \in 0 .. Ngen + 1 : PlainRun(r)[n] \in PlainState(r)
<1> DEFINE N == Ngen + 1  Q == PlainState(r)
           step == [n \in 1 .. N |-> [was \in Q |-> PlainStep(r, was)]]
           at == CHOOSE at : at = [n \in 0 .. Ngen + 1 |->
                                     IF n = 0 THEN PlainStart(r) ELSE PlainStep(r, at[n - 1])]
<1>1. N \in Nat
  BY SpeculateAssumption
<1>2. PlainStart(r) \in Q
  <2> DEFINE t == Chosen(r, <<>>, Start)
  <2>1. t \in Token /\ r.con \in Grammars /\ Start \in DOMAIN r.con.next
    BY LineFacts, ChoiceType DEF Chosen
  <2>2. Advance(r.con, Start, t) \in DOMAIN r.con.next
    BY <2>1, AdvanceType
  <2>3. PlainStart(r) = [out |-> <<>>, tok |-> t, s |-> Advance(r.con, Start, t), over |-> FALSE]
    BY DEF PlainStart
  <2> HIDE DEF t
  <2> QED BY <2>1, <2>2, <2>3, EmptySeq DEF PlainState
<1>3. /\ step \in [1 .. N -> [Q -> Q]]
      /\ \A n \in 1 .. N : \A was \in Q : step[n][was] = PlainStep(r, was)
  BY PlainStepType
<1> HIDE DEF step
<1>4. PICK f : Recursive(f, Q, PlainStart(r), N, step)
  <2> HIDE DEF N, Q
  <2> QED BY <1>1, <1>2, <1>3, Recursion
<1>5. f = [n \in 0 .. Ngen + 1 |-> IF n = 0 THEN PlainStart(r) ELSE PlainStep(r, f[n - 1])]
  <2> HIDE DEF Q
  <2>1. ASSUME NEW n \in 1 .. N PROVE f[n] = PlainStep(r, f[n - 1])
    <3>1. f[n - 1] \in Q
      BY <1>1, <1>4 DEF Recursive
    <3> QED BY <1>3, <1>4, <3>1 DEF Recursive
  <2> QED BY <1>1, <1>4, <2>1 DEF Recursive
<1>6. at = [n \in 0 .. Ngen + 1 |-> IF n = 0 THEN PlainStart(r) ELSE PlainStep(r, at[n - 1])]
  BY <1>5, Zenon
<1>7. PlainRun(r) = at
  BY Zenon DEF PlainRun
<1> HIDE DEF at
<1>8. at[0] = PlainStart(r) /\ \A n \in 1 .. N : at[n] = PlainStep(r, at[n - 1])
  BY <1>1, <1>6
<1> DEFINE T == {n \in 0 .. N : at[n] \in Q}
<1>9. 0 \in T
  BY <1>1, <1>2, <1>8
<1>10. \A n \in 1 .. N : n - 1 \in T => n \in T
  BY <1>1, <1>8, PlainStepType
<1> HIDE DEF T, N, Q
<1>11. \A n \in 0 .. N : n \in T
  BY <1>1, <1>9, <1>10, UpTo
<1> QED BY <1>7, <1>8, <1>11 DEF T, N, Q

LEMMA PlainNext ==
  ASSUME NEW r \in Lines, NEW n \in 0 .. Ngen
  PROVE  PlainRun(r)[n + 1] = PlainStep(r, PlainRun(r)[n])
<1> DEFINE m == n + 1
<1>1. m \in 1 .. Ngen + 1 /\ m - 1 = n
  BY SpeculateAssumption
<1> HIDE DEF m
<1>2. PlainRun(r)[m] = PlainStep(r, PlainRun(r)[m - 1])
  BY <1>1, PlainRunIs
<1> QED BY <1>1, <1>2 DEF m

\* A prefix is one of every extension, and of what that is a prefix of.
LEMMA PrefixReflexive ==
  ASSUME NEW S, NEW q \in Seq(S) PROVE IsPrefix(q, q)
  BY LenProperties DEF IsPrefix

LEMMA NothingIsPrefix ==
  ASSUME NEW S, NEW q \in Seq(S) PROVE IsPrefix(<<>>, q)
<1>1. Len(q) \in Nat
  BY LenProperties
<1>2. SubSeq(q, 1, 0) = <<>>
  BY SubSeqEmpty
<1> QED BY <1>1, <1>2 DEF IsPrefix

LEMMA PrefixTransitive ==
  ASSUME NEW S, NEW p \in Seq(S), NEW q \in Seq(S), NEW u \in Seq(S),
         IsPrefix(p, q), IsPrefix(q, u)
  PROVE  IsPrefix(p, u)
<1> DEFINE n == Len(p)
<1>1. n \in Nat /\ Len(q) \in Nat /\ Len(u) \in Nat /\ n <= Len(q) /\ Len(q) <= Len(u)
  BY LenProperties DEF IsPrefix
<1>2. SubSeq(p, 1, n) = SubSeq(q, 1, n) /\ SubSeq(q, 1, Len(q)) = SubSeq(u, 1, Len(q))
  BY DEF IsPrefix
<1> HIDE DEF n
<1>3. /\ SubSeq(q, 1, n) \in Seq(S) /\ Len(SubSeq(q, 1, n)) = n
      /\ \A i \in 1 .. n : SubSeq(q, 1, n)[i] = q[i]
  BY <1>1, Beginning
<1>4. /\ SubSeq(u, 1, n) \in Seq(S) /\ Len(SubSeq(u, 1, n)) = n
      /\ \A i \in 1 .. n : SubSeq(u, 1, n)[i] = u[i]
  BY <1>1, Beginning
<1>5. ASSUME NEW i \in 1 .. n PROVE q[i] = u[i]
  <2>1. i \in 1 .. Len(q) /\ Len(q) \in 0 .. Len(q) /\ Len(q) \in 0 .. Len(u)
    BY <1>1
  <2>2. SubSeq(q, 1, Len(q))[i] = q[i] /\ SubSeq(u, 1, Len(q))[i] = u[i]
    BY <2>1, Beginning
  <2> QED BY <1>2, <2>2
<1>6. SubSeq(q, 1, n) = SubSeq(u, 1, n)
  BY <1>3, <1>4, <1>5, SeqEqual
<1> QED BY <1>1, <1>2, <1>6 DEF IsPrefix, n

LEMMA PrefixAppend ==
  ASSUME NEW S, NEW q \in Seq(S), NEW t \in S
  PROVE  IsPrefix(q, Append(q, t))
<1>1. Len(q) \in Nat /\ Len(q) \in 0 .. Len(q) /\ Len(Append(q, t)) = Len(q) + 1
  BY LenProperties, AppendProperties
<1>2. SubSeq(Append(q, t), 1, Len(q)) = SubSeq(q, 1, Len(q))
  BY <1>1, PrefixOfAppend
<1> QED BY <1>1, <1>2 DEF IsPrefix

\* What the plain loop emitted stays, and once it is over nothing is added.
LEMMA PlainGrows ==
  ASSUME NEW r \in Lines, NEW n \in 0 .. Ngen + 1
  PROVE  /\ IsPrefix(PlainRun(r)[n].out, Plain(r))
         /\ PlainRun(r)[n].over => Plain(r) = PlainRun(r)[n].out
<1> DEFINE at == PlainRun(r)  N == Ngen + 1
           T == {k \in 0 .. N - n :
                   /\ IsPrefix(at[n].out, at[n + k].out)
                   /\ at[n].over => at[n + k].over /\ at[n + k].out = at[n].out}
<1>1. N \in Nat /\ n \in Nat /\ N - n \in Nat /\ n <= N
  BY SpeculateAssumption
<1>2. /\ \A k \in 1 .. N : at[k] = PlainStep(r, at[k - 1])
      /\ \A k \in 0 .. N : /\ at[k] \in PlainState(r)
                           /\ at[k].out \in Seq(Token) /\ at[k].tok \in Token
  BY PlainRunIs DEF PlainState
<1>3. Plain(r) = at[N].out
  BY DEF Plain
<1> HIDE DEF at, N
<1>4. 0 \in T
  <2>1. n + 0 = n /\ at[n].out \in Seq(Token)
    BY <1>1, <1>2
  <2>2. IsPrefix(at[n].out, at[n].out)
    BY <2>1, PrefixReflexive
  <2> QED BY <1>1, <2>1, <2>2
<1>5. ASSUME NEW k \in 1 .. N - n, k - 1 \in T PROVE k \in T
  <2> DEFINE was == at[n + (k - 1)]  ids == Append(was.out, was.tok)
  <2>1. /\ n + k \in 1 .. N /\ n + (k - 1) \in 0 .. N /\ n + k - 1 = n + (k - 1)
        /\ k \in 0 .. N - n /\ n \in 0 .. N
    BY <1>1
  <2>2. /\ was \in PlainState(r) /\ was.out \in Seq(Token) /\ was.tok \in Token
        /\ at[n + k] = PlainStep(r, was)
        /\ at[n].out \in Seq(Token) /\ at[n + k].out \in Seq(Token)
    BY <1>2, <2>1
  <2>3. IsPrefix(at[n].out, was.out) /\ (at[n].over => was.over /\ was.out = at[n].out)
    BY <1>5
  <2> HIDE DEF was
  <2>4. /\ at[n + k].out = was.out \/ at[n + k].out = ids
        /\ was.over => at[n + k].over /\ at[n + k].out = was.out
    BY <2>2 DEF PlainStep, PlainState
  <2>5. ids \in Seq(Token) /\ IsPrefix(was.out, was.out) /\ IsPrefix(was.out, ids)
    BY <2>2, AppendProperties, PrefixReflexive, PrefixAppend
  <2> HIDE DEF ids
  <2>6. IsPrefix(was.out, at[n + k].out)
    BY <2>4, <2>5
  <2>7. IsPrefix(at[n].out, at[n + k].out)
    BY <2>2, <2>3, <2>6, PrefixTransitive
  <2>8. at[n].over => at[n + k].over /\ at[n + k].out = at[n].out
    BY <2>3, <2>4
  <2> QED BY <2>1, <2>7, <2>8
<1>6. N - n \in T
  <2> HIDE DEF T
  <2> DEFINE m == N - n
  <2>1. 0 \in T /\ (\A k \in 1 .. m : k - 1 \in T => k \in T) /\ m \in Nat
    BY <1>1, <1>4, <1>5
  <2> HIDE DEF m
  <2>2. \A k \in 0 .. m : k \in T
    BY <2>1, UpTo
  <2>3. m \in T
    BY <2>1, <2>2
  <2> QED BY <2>3 DEF m
<1>7. n + (N - n) = N
  BY <1>1
<1> QED BY <1>3, <1>6, <1>7 DEF at

\* The plain loop has emitted ids, chosen t, and goes on from state s.
PlainAt(r, ids, t, s) ==
  PlainRun(r)[Len(ids)] = [out |-> ids, tok |-> t, s |-> s, over |-> FALSE]

LEMMA PlainMore ==
  ASSUME NEW r \in Lines, NEW ids \in Seq(Token), NEW t \in Token, NEW s \in DOMAIN r.con.next,
         PlainAt(r, ids, t, s), Len(ids) < Ngen, t \notin Eos, ~Accepting(r.con, s)
  PROVE  LET u == Chosen(r, Append(ids, t), s)
         IN  PlainAt(r, Append(ids, t), u, Advance(r.con, s, u))
<1> DEFINE n == Len(ids)  u == Chosen(r, Append(ids, t), s)
           was == [out |-> ids, tok |-> t, s |-> s, over |-> FALSE]
<1>1. n \in Nat /\ Ngen \in Nat /\ n < Ngen /\ Len(Append(ids, t)) = n + 1
  BY LenProperties, AppendProperties, SpeculateAssumption
<1>2. PlainRun(r)[n + 1] = PlainStep(r, was)
  <2>1. PlainRun(r)[n] = was
    BY DEF PlainAt
  <2> HIDE DEF n, was
  <2> QED BY <1>1, <2>1, PlainNext
<1>3. PlainStep(r, was) = [out |-> Append(ids, t), tok |-> u,
                           s |-> Advance(r.con, s, u), over |-> FALSE]
  BY <1>1 DEF PlainStep
<1> HIDE DEF n, u, was
<1> QED BY <1>1, <1>2, <1>3 DEF PlainAt, u

LEMMA PlainEnds ==
  ASSUME NEW r \in Lines, NEW ids \in Seq(Token), NEW t \in Token, NEW s \in DOMAIN r.con.next,
         PlainAt(r, ids, t, s), Len(ids) <= Ngen
  PROVE  /\ IsPrefix(ids, Plain(r))
         /\ Len(ids) >= Ngen \/ t \in Eos => Plain(r) = ids
         /\ Len(ids) < Ngen /\ t \notin Eos /\ Accepting(r.con, s) => Plain(r) = Append(ids, t)
<1> DEFINE n == Len(ids)
           was == [out |-> ids, tok |-> t, s |-> s, over |-> FALSE]
           then == PlainRun(r)[n + 1]
<1>1. n \in Nat /\ Ngen \in Nat /\ n <= Ngen
  BY LenProperties, SpeculateAssumption
<1>2. PlainRun(r)[n] = was
  BY DEF PlainAt
<1> HIDE DEF n
<1>3. then = PlainStep(r, was)
  <2> HIDE DEF was
  <2> QED BY <1>1, <1>2, PlainNext
<1>4. IsPrefix(ids, Plain(r))
  <2>1. n \in 0 .. Ngen + 1
    BY <1>1
  <2>2. IsPrefix(PlainRun(r)[n].out, Plain(r))
    BY <2>1, PlainGrows
  <2> QED BY <1>2, <2>2
<1>5. then.over => Plain(r) = then.out
  <2>1. n + 1 \in 0 .. Ngen + 1
    BY <1>1
  <2> QED BY <2>1, PlainGrows
<1>6. n >= Ngen \/ t \in Eos => then.over /\ then.out = ids
  BY <1>3 DEF PlainStep, n
<1>7. n < Ngen /\ t \notin Eos /\ Accepting(r.con, s) => then.over /\ then.out = Append(ids, t)
  BY <1>1, <1>3 DEF PlainStep, n
<1> HIDE DEF then
<1> QED BY <1>4, <1>5, <1>6, <1>7 DEF n

\* Appending to a sequence that ends in b appends to b.
LEMMA Joined ==
  ASSUME NEW a \in Seq(Token), NEW b \in Seq(Token), NEW t \in Token
  PROVE  Append(a \o b, t) = a \o Append(b, t)
<1> DEFINE one == <<t>>
<1>1. one \in Seq(Token)
  OBVIOUS
<1>2. a \o b \in Seq(Token)
  BY ConcatProperties
<1>3. Append(a \o b, t) = (a \o b) \o one /\ Append(b, t) = b \o one
  BY <1>2, AppendIsConcat
<1> HIDE DEF one
<1>4. (a \o b) \o one = a \o (b \o one)
  BY <1>1, ConcatAssociative
<1> QED BY <1>3, <1>4

\* A part of a sequence grows by one.
LEMMA PartGrows ==
  ASSUME NEW S, NEW w \in Seq(S), NEW k \in 1 .. Len(w)
  PROVE  SubSeq(w, 1, k) = Append(SubSeq(w, 1, k - 1), w[k])
<1> DEFINE part == SubSeq(w, 1, k - 1)  t == w[k]
<1>1. SubSeq(w, 1, k) = part \o <<t>>
  <2>1. 1 \in 1 .. Len(w) /\ k \in 1 .. Len(w)
    BY LenProperties
  <2> QED BY <2>1, SubSeqRecursiveSecond
<1>2. t \in S /\ part \in Seq(S)
  <2>1. k - 1 \in 0 .. Len(w) /\ t \in S
    BY LenProperties, ElementOfSeq
  <2> QED BY <2>1, Beginning
<1> HIDE DEF part, t
<1>3. Append(part, t) = part \o <<t>>
  BY <1>2, AppendIsConcat
<1> QED BY <1>1, <1>3 DEF part, t

LEMMA FedGrows ==
  ASSUME NEW a \in Seq(Token), NEW w \in Seq(Token)
  PROVE  /\ \A k \in 1 .. Len(w) :
              Append(a \o SubSeq(w, 1, k - 1), w[k]) = a \o SubSeq(w, 1, k)
         /\ a \o SubSeq(w, 1, Len(w)) = a \o w
<1>1. ASSUME NEW k \in 1 .. Len(w)
      PROVE  Append(a \o SubSeq(w, 1, k - 1), w[k]) = a \o SubSeq(w, 1, k)
  <2> DEFINE part == SubSeq(w, 1, k - 1)  t == w[k]
  <2>1. SubSeq(w, 1, k) = Append(part, t)
    BY PartGrows
  <2>2. t \in Token /\ part \in Seq(Token)
    <3>1. k - 1 \in 0 .. Len(w) /\ t \in Token
      BY LenProperties, ElementOfSeq
    <3> QED BY <3>1, Beginning
  <2> HIDE DEF part, t
  <2>3. Append(a \o part, t) = a \o Append(part, t)
    BY <2>2, Joined
  <2> QED BY <2>1, <2>3 DEF part, t
<1>2. SubSeq(w, 1, Len(w)) = w
  BY SubSeqFull
<1> QED BY <1>1, <1>2

LEMMA AllFed ==
  ASSUME NEW a \in Seq(Token), NEW w \in Seq(Token), NEW n \in Nat, Len(w) = n + 1,
         NEW part, part = a \o SubSeq(w, 1, n)
  PROVE  Append(part, w[n + 1]) = a \o w
<1> DEFINE m == n + 1
<1>1. m \in 1 .. Len(w) /\ m - 1 = n /\ m = Len(w)
  OBVIOUS
<1> HIDE DEF m
<1>2. Append(a \o SubSeq(w, 1, m - 1), w[m]) = a \o SubSeq(w, 1, m)
  BY <1>1, FedGrows
<1>3. a \o SubSeq(w, 1, m) = a \o w
  BY <1>1, FedGrows
<1>4. Append(part, w[m]) = a \o w
  BY <1>1, <1>2, <1>3
<1> QED BY <1>4 DEF m

\* The plain loop goes through w, the states q, when it chooses each next token of w.
LEMMA PlainWalk ==
  ASSUME NEW r \in Lines, NEW ids \in Seq(Token), NEW w \in Seq(Token), NEW n \in Nat,
         Len(w) = n + 1, Len(ids) + n <= Ngen,
         NEW q, \A k \in 0 .. n : q[k] \in DOMAIN r.con.next,
         PlainAt(r, ids, w[1], q[0]),
         \A k \in 1 .. n : /\ ~Accepting(r.con, q[k - 1]) /\ w[k] \notin Eos
                           /\ Chosen(r, ids \o SubSeq(w, 1, k), q[k - 1]) = w[k + 1]
                           /\ q[k] = Advance(r.con, q[k - 1], w[k + 1])
  PROVE  /\ PlainAt(r, ids \o SubSeq(w, 1, n), w[n + 1], q[n])
         /\ ids \o SubSeq(w, 1, n) \in Seq(Token) /\ Len(ids \o SubSeq(w, 1, n)) = Len(ids) + n
<1> DEFINE fed(k) == ids \o SubSeq(w, 1, k)
           T == {k \in 0 .. n : PlainAt(r, fed(k), w[k + 1], q[k])}
<1>1. Len(ids) \in Nat /\ \A k \in 1 .. n + 1 : w[k] \in Token
  BY LenProperties, ElementOfSeq
<1>2. ASSUME NEW k \in 0 .. n + 1
      PROVE  fed(k) \in Seq(Token) /\ Len(fed(k)) = Len(ids) + k
  <2> DEFINE part == SubSeq(w, 1, k)
  <2>1. part \in Seq(Token) /\ Len(part) = k
    BY Beginning
  <2> HIDE DEF part
  <2>2. ids \o part \in Seq(Token) /\ Len(ids \o part) = Len(ids) + k
    BY <2>1, ConcatProperties
  <2> QED BY <2>2 DEF part
<1>3. ASSUME NEW k \in 1 .. n + 1
      PROVE  Append(fed(k - 1), w[k]) = fed(k)
  BY FedGrows
<1>4. fed(0) = ids
  <2>1. SubSeq(w, 1, 0) = <<>>
    BY SubSeqEmpty
  <2> QED BY <2>1, ConcatEmptySeq
<1>6. 0 \in T
  <2> HIDE DEF fed
  <2>1. PlainAt(r, fed(0), w[1], q[0])
    BY <1>4
  <2>2. 0 \in 0 .. n /\ 0 + 1 = 1
    OBVIOUS
  <2> QED BY <2>1, <2>2
<1>7. ASSUME NEW k \in 1 .. n, k - 1 \in T PROVE k \in T
  <2>1. /\ k - 1 \in 0 .. n + 1 /\ k - 1 \in 0 .. n /\ k \in 1 .. n + 1 /\ k - 1 + 1 = k
        /\ k \in 0 .. n
    OBVIOUS
  <2>2. PlainAt(r, fed(k - 1), w[k], q[k - 1])
    BY <1>7, <2>1
  <2>3. fed(k - 1) \in Seq(Token) /\ Len(fed(k - 1)) = Len(ids) + (k - 1)
    BY <1>2, <2>1
  <2>4. Len(fed(k - 1)) < Ngen /\ w[k] \in Token /\ q[k - 1] \in DOMAIN r.con.next
    BY <1>1, <2>1, <2>3, SpeculateAssumption
  <2>5. Append(fed(k - 1), w[k]) = fed(k)
    BY <1>3, <2>1
  <2>6. /\ ~Accepting(r.con, q[k - 1]) /\ w[k] \notin Eos
        /\ Chosen(r, fed(k), q[k - 1]) = w[k + 1]
        /\ q[k] = Advance(r.con, q[k - 1], w[k + 1])
    OBVIOUS
  <2> HIDE DEF fed
  <2>7. LET u == Chosen(r, fed(k), q[k - 1])
        IN  PlainAt(r, fed(k), u, Advance(r.con, q[k - 1], u))
    BY <2>2, <2>3, <2>4, <2>5, <2>6, PlainMore
  <2> QED BY <2>1, <2>6, <2>7
<1> HIDE DEF fed, T
<1>8. \A k \in 0 .. n : k \in T
  BY <1>6, <1>7, UpTo
<1>9. n \in T /\ n + 1 \in 1 .. n + 1 /\ n + 1 - 1 = n /\ n \in 0 .. n + 1
  BY <1>8
<1>10. PlainAt(r, fed(n), w[n + 1], q[n])
  BY <1>9 DEF T
<1>11. fed(n) \in Seq(Token) /\ Len(fed(n)) = Len(ids) + n
  BY <1>2, <1>9
<1> QED BY <1>10, <1>11 DEF fed

\* The states After passes through on the way.
LEMMA AfterPart ==
  ASSUME NEW g \in Grammars, NEW s \in DOMAIN g.next, NEW toks \in Seq(Token),
         NEW k \in 1 .. Len(toks)
  PROVE  /\ After(g, s, SubSeq(toks, 1, k - 1)) \in DOMAIN g.next
         /\ After(g, s, SubSeq(toks, 1, k)) =
              Advance(g, After(g, s, SubSeq(toks, 1, k - 1)), toks[k])
<1> DEFINE part == SubSeq(toks, 1, k - 1)  t == toks[k]
<1>1. k - 1 \in 0 .. Len(toks) /\ t \in Token
  BY LenProperties, ElementOfSeq
<1>2. SubSeq(toks, 1, k) = Append(part, t)
  BY PartGrows
<1>3. part \in Seq(Token)
  BY <1>1, Beginning
<1> HIDE DEF part, t
<1>4. After(g, s, part) \in DOMAIN g.next
      /\ After(g, s, Append(part, t)) = Advance(g, After(g, s, part), t)
  BY <1>1, <1>3, AfterAppend
<1> QED BY <1>2, <1>4 DEF part, t

-----------------------------------------------------------------------------
(* The loop with its shortcuts goes through states of the plain loop *)

\* After a draft whose accepted part completes the call there is no state of the
\* plain loop left: it has stopped, and the argmax of masked logits is token 0.
PastTheCall ==
  /\ out = Plain(run) /\ tok = 0
  /\ Closed /\ Allowed(run.con, state) = {} /\ run.lookahead > 0

AnswerInv ==
  /\ phase = "prefill" => state = Start
  /\ phase = "decode" => PlainAt(run, out, tok, state) \/ PastTheCall
  /\ phase = "panic" => IsPrefix(out, Plain(run))
  /\ phase = "done" => out = Plain(run) \/ OneMore

LEMMA AnswerInit == ASSUME Init PROVE AnswerInv
  BY DEF Init, AnswerInv

\* Where the loop goes on, the plain loop is in the same state.
LEMMA OnTheWay ==
  ASSUME TypeOK, AnswerInv, Going
  PROVE  PlainAt(run, out, tok, state)
  BY DEF AnswerInv, PastTheCall, Going

LEMMA PrefillAnswer ==
  ASSUME TypeOK, CacheInv, AnswerInv, Prefill
  PROVE  AnswerInv'
<1> DEFINE n == MinOf(Chunk, Len(run.prompt) - pos)
           f == Fwd(SubSeq(run.prompt, pos + 1, pos + n))
           h == SubSeq(FullPrefill(run.prompt), 1, pos + n)
           last == pos + n = Len(run.prompt)
<1>1. /\ phase = "prefill"
      /\ tok' = (IF last THEN Choice(run.con, f.out, state) ELSE tok)
      /\ state' = (IF last THEN Advance(run.con, state, tok') ELSE state)
      /\ phase' = (IF last THEN "decode" ELSE phase)
      /\ run' = run /\ out' = out
  BY DEF Prefill
<1>2. f.out = h /\ (last => h = LoneRun(run.prompt, <<>>))
  BY <1>1, PrefillAlike
<1>3. run \in Lines /\ out = <<>> /\ state = Start
  BY <1>1 DEF TypeOK, AnswerInv
<1> HIDE DEF n, f, h, last
<1>4. CASE last
  <2>1. tok' = Chosen(run, <<>>, Start) /\ state' = Advance(run.con, Start, tok')
    BY <1>1, <1>2, <1>3, <1>4 DEF Chosen
  <2>2. PlainRun(run)[0] = PlainStart(run)
    BY <1>3, PlainRunIs
  <2>3. PlainStart(run) = [out |-> <<>>, tok |-> tok', s |-> state', over |-> FALSE]
    BY <2>1 DEF PlainStart
  <2>4. PlainAt(run, <<>>, tok', state')
    BY <2>2, <2>3 DEF PlainAt
  <2> QED BY <1>1, <1>3, <1>4, <2>4 DEF AnswerInv
<1>5. CASE ~last
  BY <1>1, <1>3, <1>5 DEF AnswerInv
<1> QED BY <1>4, <1>5

LEMMA StepAnswer ==
  ASSUME TypeOK, CacheInv, AnswerInv, Step
  PROVE  AnswerInv'
<1> DEFINE f == Fwd(<<tok>>)
<1>1. /\ Going /\ run' = run /\ phase' = phase /\ out' = Emitted
      /\ tok' = Choice(run.con, f.out, state)
      /\ state' = Advance(run.con, state, tok')
  BY StepFacts
<1>2. f.out = LoneRun(run.prompt, Emitted)
  BY <1>1, StepAlike
<1>3. /\ run \in Lines /\ out \in Seq(Token) /\ tok \in Token /\ state \in DOMAIN run.con.next
      /\ Len(out) < Ngen /\ tok \notin Eos /\ ~Accepting(run.con, state)
  BY <1>1, LoopFacts
<1>4. PlainAt(run, out, tok, state)
  BY <1>1, OnTheWay
<1> HIDE DEF f
<1>5. tok' = Chosen(run, Append(out, tok), state)
  BY <1>1, <1>2 DEF Chosen, Emitted
<1>6. PlainAt(run, Append(out, tok), tok', state')
  BY <1>1, <1>3, <1>4, <1>5, PlainMore
<1>7. phase = "decode"
  BY <1>1 DEF Going
<1> QED BY <1>1, <1>6, <1>7 DEF AnswerInv, Emitted

LEMMA EndAnswer ==
  ASSUME TypeOK, AnswerInv, Finish \/ DraftPanics
  PROVE  AnswerInv'
<1>1. /\ run \in Lines /\ out \in Seq(Token) /\ tok \in Token /\ state \in DOMAIN run.con.next
      /\ Len(out) <= Ngen /\ Len(out) \in Nat /\ Ngen \in Nat
  BY LoopFacts DEF TypeOK
<1>2. CASE Finish
  <2>1. /\ phase = "decode" /\ (Over \/ Closed) /\ out' = (IF Over THEN out ELSE Emitted)
        /\ phase' = "done" /\ run' = run /\ state' = state
    BY <1>2 DEF Finish
  <2>2. CASE PlainAt(run, out, tok, state)
    <3>1. /\ Len(out) >= Ngen \/ tok \in Eos => Plain(run) = out
          /\ Len(out) < Ngen /\ tok \notin Eos /\ Accepting(run.con, state)
               => Plain(run) = Append(out, tok)
      BY <1>1, <2>2, PlainEnds
    <3>2. out' = Plain(run)
      BY <1>1, <2>1, <3>1 DEF Over, Closed, Emitted
    <3> QED BY <2>1, <3>2 DEF AnswerInv
  <2>3. CASE PastTheCall
    <3>1. out' = Plain(run) \/ out' = Append(Plain(run), 0)
      BY <2>1, <2>3 DEF PastTheCall, Emitted
    <3> QED BY <2>1, <2>3, <3>1 DEF AnswerInv, PastTheCall, OneMore, Closed
  <2> QED BY <2>1, <2>2, <2>3 DEF AnswerInv
<1>3. CASE DraftPanics
  <2>1. Going /\ phase' = "panic" /\ out' = Append(out, tok) /\ run' = run
    BY <1>3 DEF DraftPanics, Emitted
  <2>2. Len(out) < Ngen /\ tok \notin Eos /\ ~Accepting(run.con, state)
    BY <2>1, LoopFacts
  <2> DEFINE more == Append(out, tok)  u == Chosen(run, more, state)
             s == Advance(run.con, state, u)
  <2>3. PlainAt(run, out, tok, state)
    BY <2>1, OnTheWay
  <2>4. PlainAt(run, more, u, s)
    BY <1>1, <2>2, <2>3, PlainMore
  <2>5. more \in Seq(Token) /\ Len(more) <= Ngen
    BY <1>1, <2>2, AppendProperties
  <2>6. u \in Token /\ s \in DOMAIN run.con.next
    BY <1>1, ChoiceType, AdvanceType, LineFacts DEF Chosen
  <2> HIDE DEF more, u, s
  <2>7. IsPrefix(more, Plain(run))
    BY <1>1, <2>4, <2>5, <2>6, PlainEnds
  <2> QED BY <2>1, <2>7 DEF AnswerInv, more
<1> QED BY <1>2, <1>3

\* A run every state of which forces its token is what the plain loop chooses.
LEMMA RunAnswer ==
  ASSUME TypeOK, AnswerInv, FeedRun
  PROVE  AnswerInv'
<1> DEFINE n == Len(Run)  one == <<tok>>  w == one \o Run
           q == [k \in 0 .. n |-> After(run.con, state, SubSeq(Run, 1, k))]
<1>1. /\ Going /\ TakesRun /\ run' = run /\ phase' = phase
      /\ tok' = Last(Run) /\ state' = After(run.con, state, Run)
  BY DEF FeedRun
<1>2. /\ Run \in Seq(Token) /\ n \in 2 .. RunMax /\ IsRun(run.con, state, Run)
      /\ Len(out) + 1 + n <= Ngen
      /\ Front(Run) \in Seq(Token) /\ Len(Front(Run)) = n - 1
  BY <1>1, RunFacts
<1>3. /\ run \in Lines /\ run.con \in Grammars /\ out \in Seq(Token) /\ tok \in Token
      /\ state \in DOMAIN run.con.next
      /\ Len(out) \in Nat /\ Ngen \in Nat /\ tok \notin Eos
  BY <1>1, LoopFacts
<1>4. PlainAt(run, out, tok, state)
  BY <1>1, OnTheWay
<1>5. n \in Nat /\ n >= 2 /\ Len(out) + n <= Ngen
  BY <1>2, <1>3, SpeculateAssumption, ChunkFacts
<1>6. /\ w \in Seq(Token) /\ Len(w) = n + 1 /\ w[1] = tok
      /\ \A k \in 1 .. n : w[k + 1] = Run[k]
  BY <1>2, <1>3, FrontAndBack
<1>7. \A k \in 0 .. n : q[k] = After(run.con, state, SubSeq(Run, 1, k))
  OBVIOUS
<1>8. \A k \in 0 .. n : q[k] \in DOMAIN run.con.next
  <2> SUFFICES ASSUME NEW k \in 0 .. n
               PROVE  After(run.con, state, SubSeq(Run, 1, k)) \in DOMAIN run.con.next
    OBVIOUS
  <2> DEFINE part == SubSeq(Run, 1, k)
  <2>1. part \in Seq(Token)
    BY <1>2, Beginning
  <2> HIDE DEF part
  <2>2. After(run.con, state, part) \in DOMAIN run.con.next
    BY <1>3, <2>1, AfterType
  <2> QED BY <2>2 DEF part
<1>9. q[0] = state
  <2>1. SubSeq(Run, 1, 0) = <<>>
    BY SubSeqEmpty
  <2>2. After(run.con, state, <<>>) = state
    BY <1>3, AfterNothing
  <2>3. q[0] = After(run.con, state, SubSeq(Run, 1, 0))
    BY <1>5, <1>7
  <2> QED BY <2>1, <2>2, <2>3
<1>10. q[n] = state'
  <2>1. SubSeq(Run, 1, n) = Run
    BY <1>2, SubSeqFull
  <2>2. q[n] = After(run.con, state, SubSeq(Run, 1, n))
    BY <1>5, <1>7
  <2> HIDE DEF q, n
  <2> QED BY <1>1, <2>1, <2>2
<1>11. ASSUME NEW k \in 1 .. n
       PROVE  /\ ~Accepting(run.con, q[k - 1]) /\ Run[k] \notin Eos
              /\ q[k] = Advance(run.con, q[k - 1], Run[k])
              /\ \A h : Choice(run.con, h, q[k - 1]) = Run[k]
  <2>1. k - 1 \in 0 .. n /\ k \in 0 .. n /\ k \in 1 .. Len(Run)
    BY <1>5
  <2>2. q[k - 1] = After(run.con, state, SubSeq(Run, 1, k - 1))
        /\ q[k] = After(run.con, state, SubSeq(Run, 1, k))
    BY <1>7, <2>1
  <2>3. q[k - 1] \in DOMAIN run.con.next
    BY <1>8, <2>1
  <2> HIDE DEF q, n
  <2>4. ~Accepting(run.con, q[k - 1]) /\ Forced(run.con, q[k - 1]) = {Run[k]}
    BY <1>2, <2>1, <2>2 DEF IsRun
  <2>5. \E t \in Token : /\ Forced(run.con, q[k - 1]) = {t} /\ t \notin Eos
                         /\ \A h : Choice(run.con, h, q[k - 1]) = t
    BY <1>3, <2>3, <2>4, ForcedOne
  <2>6. q[k] = Advance(run.con, q[k - 1], Run[k])
    BY <1>2, <1>3, <2>1, <2>2, AfterPart
  <2> QED BY <2>4, <2>5, <2>6
<1>12. SubSeq(w, 1, n) = one \o Front(Run)
  <2>1. n - 1 \in 0 .. Len(Run) /\ one \in Seq(Token) /\ Len(one) = 1
    BY <1>3, <1>5
  <2>2. Len(one) + (n - 1) = n
    BY <1>5, <2>1
  <2>3. Front(Run) = SubSeq(Run, 1, n - 1)
    BY DEF Front
  <2> HIDE DEF one, n
  <2>4. SubSeq(one \o Run, 1, Len(one) + (n - 1)) = one \o SubSeq(Run, 1, n - 1)
    BY <1>2, <2>1, PrefixOfConcat
  <2> QED BY <2>2, <2>3, <2>4
<1>13. out' = out \o SubSeq(w, 1, n)
  <2> DEFINE fed == one \o Front(Run)
  <2>1. fed \in Seq(Token) /\ Len(fed) = n
    BY <1>1, RunFacts
  <2>2. SubSeq(fed, 1, Len(fed)) = fed
    BY <2>1, SubSeqFull
  <2>3. out' = out \o SubSeq(fed, 1, n)
    BY RunEmits
  <2> HIDE DEF fed, w, n
  <2> QED BY <1>12, <2>1, <2>2, <2>3 DEF fed
<1>14. w[n + 1] = tok'
  <2>1. w[n + 1] = Run[n]
    BY <1>5, <1>6
  <2> QED BY <1>1, <2>1 DEF Last
<1>15. \A k \in 1 .. n : w[k] \notin Eos
  <2> SUFFICES ASSUME NEW k \in 1 .. n PROVE w[k] \notin Eos
    OBVIOUS
  <2>1. CASE k = 1
    BY <1>3, <1>6, <2>1
  <2>2. CASE k # 1
    <3> DEFINE j == k - 1
    <3>1. j \in 1 .. n /\ j + 1 = k
      BY <1>5, <2>2
    <3> HIDE DEF j
    <3>2. w[j + 1] = Run[j] /\ Run[j] \notin Eos
      BY <1>6, <1>11, <3>1
    <3> QED BY <3>1, <3>2
  <2> QED BY <2>1, <2>2
<1> HIDE DEF n, one, w, q
<1>16. \A k \in 1 .. n : /\ ~Accepting(run.con, q[k - 1]) /\ w[k] \notin Eos
                         /\ Chosen(run, out \o SubSeq(w, 1, k), q[k - 1]) = w[k + 1]
                         /\ q[k] = Advance(run.con, q[k - 1], w[k + 1])
  BY <1>6, <1>11, <1>15 DEF Chosen
<1>17. PlainAt(run, out, w[1], q[0])
  BY <1>4, <1>6, <1>9
<1>18. PlainAt(run, out \o SubSeq(w, 1, n), w[n + 1], q[n])
  BY <1>3, <1>5, <1>6, <1>8, <1>16, <1>17, PlainWalk
<1>19. PlainAt(run, out', tok', state')
  BY <1>10, <1>13, <1>14, <1>18
<1>20. phase' = "decode"
  BY <1>1 DEF Going
<1> QED BY <1>1, <1>19, <1>20 DEF AnswerInv

\* The accepted part of a draft is what the plain loop chooses, and the row after it
\* decides what comes next, unless the call is complete.
LEMMA DraftAnswer ==
  ASSUME RowsAlike, TypeOK, CacheInv, AnswerInv, FeedDraft
  PROVE  AnswerInv'
<1> DEFINE d == Draft  one == <<tok>>  fed == one \o d  f == Fwd(fed)  n == Agreed(f)
           part == SubSeq(d, 1, n)  w == one \o part
           q == [k \in 0 .. Len(d) |-> After(run.con, state, SubSeq(d, 1, k))]
<1>1. /\ Going /\ TakesDraft /\ Len(d) + 1 <= LogitRows /\ run' = run /\ phase' = phase
      /\ tok' = Decided(f, n + 1) /\ state' = After(run.con, state, Append(part, tok'))
  BY DEF FeedDraft, Continues
<1>2. /\ d \in Seq(Token) /\ Len(d) \in Nat /\ n \in 0 .. Len(d) /\ n \in Nat
      /\ Len(out) + 1 + Len(d) + 1 <= Ngen
      /\ part \in Seq(Token) /\ Len(part) = n /\ run.lookahead > 0
      /\ fed \in Seq(Token) /\ Len(fed) = Len(d) + 1
  BY <1>1, DraftFacts
<1>3. /\ run \in Lines /\ run.con \in Grammars /\ out \in Seq(Token) /\ tok \in Token
      /\ state \in DOMAIN run.con.next
      /\ Len(out) \in Nat /\ Ngen \in Nat /\ tok \notin Eos
  BY <1>1, LoopFacts
<1>4. PlainAt(run, out, tok, state)
  BY <1>1, OnTheWay
<1>5. n <= Len(d) /\ Len(out) + n < Ngen
  BY <1>2, <1>3
<1>6. \A k \in 1 .. Len(d) : d[k] # 0
  BY <1>3, DraftType
<1>7. \A k \in 1 .. n : Decided(f, k) = d[k] /\ d[k] \notin Eos
  BY <1>3, AgreedType
<1>8. /\ w \in Seq(Token) /\ Len(w) = n + 1 /\ w[1] = tok
      /\ \A k \in 1 .. n : w[k + 1] = part[k]
  <2> HIDE DEF part
  <2> QED BY <1>2, <1>3, FrontAndBack
<1>9. \A k \in 1 .. n : part[k] = d[k]
  BY <1>2, Beginning
<1>10. \A k \in 0 .. Len(d) : q[k] = After(run.con, state, SubSeq(d, 1, k))
  OBVIOUS
<1>11. \A k \in 0 .. Len(d) : q[k] \in DOMAIN run.con.next
  <2> SUFFICES ASSUME NEW k \in 0 .. Len(d)
               PROVE  After(run.con, state, SubSeq(d, 1, k)) \in DOMAIN run.con.next
    OBVIOUS
  <2> DEFINE p == SubSeq(d, 1, k)
  <2>1. p \in Seq(Token)
    BY <1>2, Beginning
  <2> HIDE DEF p
  <2>2. After(run.con, state, p) \in DOMAIN run.con.next
    BY <1>3, <2>1, AfterType
  <2> QED BY <2>2 DEF p
<1>12. q[0] = state
  <2>1. SubSeq(d, 1, 0) = <<>>
    BY SubSeqEmpty
  <2>2. After(run.con, state, <<>>) = state
    BY <1>3, AfterNothing
  <2>3. q[0] = After(run.con, state, SubSeq(d, 1, 0))
    BY <1>2, <1>10
  <2> QED BY <2>1, <2>2, <2>3
<1>13. q[n] = After(run.con, state, part)
  BY <1>2, <1>10
\* Row k of the draft's forward is the row of the plain loop.
<1>14. ASSUME NEW k \in 1 .. n + 1
       PROVE  Decided(f, k) = Chosen(run, out \o SubSeq(fed, 1, k), q[k - 1])
  <2>1. k \in 0 .. Len(d) + 1 /\ k - 1 \in 0 .. Len(d)
    BY <1>2, <1>5
  <2>2. /\ f.out # Bad
        /\ SubSeq(f.out, 1, pos + k) = LoneRun(run.prompt, out \o SubSeq(fed, 1, k))
    BY <1>1, <2>1, DraftAlike
  <2>3. RowOut(f, k) = LoneRun(run.prompt, out \o SubSeq(fed, 1, k))
    BY <2>2 DEF RowOut
  <2>4. q[k - 1] = After(run.con, state, SubSeq(d, 1, k - 1))
    BY <1>10, <2>1
  <2> HIDE DEF f, fed, q, n
  <2>5. Decided(f, k) = Choice(run.con, RowOut(f, k), After(run.con, state, SubSeq(d, 1, k - 1)))
    BY DEF Decided
  <2> QED BY <2>3, <2>4, <2>5 DEF Chosen
<1>15. ASSUME NEW k \in 0 .. n
       PROVE  SubSeq(fed, 1, k + 1) = SubSeq(w, 1, k + 1)
  <2>1. one \in Seq(Token) /\ Len(one) = 1 /\ k \in 0 .. Len(d) /\ k \in 0 .. Len(part)
    BY <1>2, <1>3
  <2>2. Len(one) + k = k + 1
    BY <2>1
  <2>3. SubSeq(part, 1, k) = SubSeq(d, 1, k)
    <3> DEFINE a == SubSeq(part, 1, k)  b == SubSeq(d, 1, k)
    <3>1. /\ a \in Seq(Token) /\ Len(a) = k
          /\ \A i \in 1 .. k : a[i] = part[i]
      BY <1>2, <2>1, Beginning
    <3>2. /\ b \in Seq(Token) /\ Len(b) = k
          /\ \A i \in 1 .. k : b[i] = d[i]
      BY <1>2, <2>1, Beginning
    <3>3. \A i \in 1 .. k : part[i] = d[i]
      BY <1>2, <1>9
    <3> HIDE DEF a, b, part
    <3>4. a = b
      BY <3>1, <3>2, <3>3, SeqEqual
    <3> QED BY <3>4 DEF a, b
  <2> HIDE DEF one, part, d
  <2>4. SubSeq(one \o d, 1, Len(one) + k) = one \o SubSeq(d, 1, k)
    BY <1>2, <2>1, PrefixOfConcat
  <2>5. SubSeq(one \o part, 1, Len(one) + k) = one \o SubSeq(part, 1, k)
    BY <1>2, <2>1, PrefixOfConcat
  <2> QED BY <2>2, <2>3, <2>4, <2>5
<1>16. out' = out \o SubSeq(fed, 1, n + 1)
  BY DraftEmits
<1>17. \A k \in 1 .. n + 1 : w[k] \notin Eos
  <2> SUFFICES ASSUME NEW k \in 1 .. n + 1 PROVE w[k] \notin Eos
    OBVIOUS
  <2>1. CASE k = 1
    BY <1>3, <1>8, <2>1
  <2>2. CASE k # 1
    <3> DEFINE j == k - 1
    <3>1. j \in 1 .. n /\ j + 1 = k
      BY <1>2, <2>2
    <3> HIDE DEF j, w, part, n, d
    <3>2. w[j + 1] = d[j] /\ d[j] \notin Eos
      BY <1>7, <1>8, <1>9, <3>1
    <3> QED BY <3>1, <3>2
  <2> QED BY <2>1, <2>2
<1>18. ASSUME NEW k \in 1 .. n
       PROVE  q[k] = Advance(run.con, q[k - 1], d[k])
  <2>1. k - 1 \in 0 .. Len(d) /\ k \in 0 .. Len(d) /\ k \in 1 .. Len(d)
    BY <1>2, <1>5
  <2>2. q[k - 1] = After(run.con, state, SubSeq(d, 1, k - 1))
        /\ q[k] = After(run.con, state, SubSeq(d, 1, k))
    BY <1>10, <2>1
  <2> HIDE DEF q, n, d
  <2> QED BY <1>2, <1>3, <2>1, <2>2, AfterPart
<1>19. Append(part, tok') \in Seq(Token) /\ tok' \in Token
       /\ state' = Advance(run.con, q[n], tok')
  <2>1. tok' \in Token
    BY <1>1, ChoiceType DEF Decided
  <2> HIDE DEF part, q, n, f
  <2>2. After(run.con, state, Append(part, tok')) = Advance(run.con, After(run.con, state, part), tok')
    BY <1>2, <1>3, <2>1, AfterAppend
  <2>3. Append(part, tok') \in Seq(Token)
    BY <1>2, <2>1, AppendProperties
  <2> QED BY <1>1, <1>13, <2>1, <2>2, <2>3
<1> HIDE DEF d, one, fed, f, n, part, w, q
<1>20. ASSUME NEW k \in 1 .. n + 1
       PROVE  Decided(f, k) = Chosen(run, out \o SubSeq(w, 1, k), q[k - 1])
  <2> DEFINE j == k - 1
  <2>1. j \in 0 .. n /\ j + 1 = k
    BY <1>2
  <2> HIDE DEF j
  <2>2. SubSeq(fed, 1, k) = SubSeq(w, 1, k)
    BY <1>15, <2>1
  <2> QED BY <1>14, <2>2
<1>21. ASSUME NEW k \in 1 .. n
       PROVE  /\ ~Accepting(run.con, q[k - 1]) /\ w[k] \notin Eos
              /\ Chosen(run, out \o SubSeq(w, 1, k), q[k - 1]) = w[k + 1]
              /\ q[k] = Advance(run.con, q[k - 1], w[k + 1])
  <2>1. k \in 1 .. n + 1 /\ k \in 1 .. Len(d) /\ k - 1 \in 0 .. Len(d)
    BY <1>2, <1>5
  <2>2. w[k + 1] = d[k] /\ Decided(f, k) = d[k] /\ d[k] # 0
    BY <1>6, <1>7, <1>8, <1>9, <2>1
  <2>3. Decided(f, k) = Chosen(run, out \o SubSeq(w, 1, k), q[k - 1])
    BY <1>20, <2>1
  <2>4. q[k - 1] \in DOMAIN run.con.next
    BY <1>11, <2>1
  <2>5. ~Accepting(run.con, q[k - 1])
    <3>1. ASSUME Accepting(run.con, q[k - 1]) PROVE \A h : Choice(run.con, h, q[k - 1]) = 0
      BY <1>3, <2>4, <3>1, AtTheEnd
    <3> QED BY <2>2, <2>3, <3>1 DEF Chosen
  <2> QED BY <1>17, <1>18, <2>1, <2>2, <2>3, <2>5
<1> DEFINE ids == out \o SubSeq(w, 1, n)
<1>22. PlainAt(run, ids, w[n + 1], q[n]) /\ ids \in Seq(Token) /\ Len(ids) = Len(out) + n
  <2>1. PlainAt(run, out, w[1], q[0])
    BY <1>4, <1>8, <1>12
  <2>2. \A k \in 0 .. n : q[k] \in DOMAIN run.con.next
    BY <1>2, <1>5, <1>11
  <2>3. Len(out) + n <= Ngen /\ Len(w) = n + 1
    BY <1>2, <1>3, <1>5, <1>8
  <2>4. \A k \in 1 .. n : /\ ~Accepting(run.con, q[k - 1]) /\ w[k] \notin Eos
                          /\ Chosen(run, out \o SubSeq(w, 1, k), q[k - 1]) = w[k + 1]
                          /\ q[k] = Advance(run.con, q[k - 1], w[k + 1])
    BY <1>21
  <2>5. w \in Seq(Token) /\ n \in Nat /\ out \in Seq(Token) /\ run \in Lines
    BY <1>2, <1>3, <1>8
  <2>6. PlainAt(run, out \o SubSeq(w, 1, n), w[n + 1], q[n])
    BY <2>1, <2>2, <2>3, <2>4, <2>5, PlainWalk
  <2>7. ids \in Seq(Token) /\ Len(ids) = Len(out) + n
    BY <2>1, <2>2, <2>3, <2>4, <2>5, PlainWalk
  <2> QED BY <2>6, <2>7
<1>23. out' = out \o w
  <2>1. SubSeq(fed, 1, n + 1) = SubSeq(w, 1, n + 1)
    BY <1>2, <1>15
  <2>2. SubSeq(w, 1, n + 1) = w
    <3>1. w \in Seq(Token) /\ Len(w) = n + 1
      BY <1>8
    <3> QED BY <3>1, SubSeqFull
  <2> QED BY <1>16, <2>1, <2>2
<1>24. tok' = Chosen(run, out', q[n])
  <2> DEFINE m == n + 1
  <2>1. m \in 1 .. n + 1 /\ m - 1 = n
    BY <1>2
  <2>2. SubSeq(w, 1, m) = w /\ tok' = Decided(f, m)
    BY <1>1, <1>8, SubSeqFull
  <2> HIDE DEF m
  <2> QED BY <1>20, <1>23, <2>1, <2>2
<1>25. /\ w[n + 1] \in Token /\ w[n + 1] \notin Eos /\ q[n] \in DOMAIN run.con.next
       /\ Len(ids) < Ngen /\ Append(ids, w[n + 1]) = out'
  <2>1. n + 1 \in 1 .. n + 1 /\ n \in 0 .. Len(d)
    BY <1>2
  <2>2. w[n + 1] \in Token
    <3>1. w \in Seq(Token) /\ n + 1 \in 1 .. Len(w)
      BY <1>8, <2>1
    <3> QED BY <3>1, ElementOfSeq
  <2>3. Append(ids, w[n + 1]) = out'
    <3>1. ids = out \o SubSeq(w, 1, n)
      OBVIOUS
    <3> HIDE DEF ids
    <3>2. out \in Seq(Token) /\ w \in Seq(Token) /\ n \in Nat /\ Len(w) = n + 1
      BY <1>2, <1>3, <1>8
    <3>3. Append(ids, w[n + 1]) = out \o w
      BY <3>1, <3>2, AllFed, Zenon
    <3> QED BY <1>23, <3>3
  <2> QED BY <1>5, <1>11, <1>17, <1>22, <2>1, <2>2, <2>3
<1> HIDE DEF ids
<1>26. phase' = "decode"
  BY <1>1 DEF Going
<1>27. CASE ~Accepting(run.con, q[n])
  <2>1. PlainAt(run, out', tok', state')
    BY <1>3, <1>19, <1>22, <1>24, <1>25, <1>27, PlainMore
  <2> QED BY <1>1, <1>26, <2>1 DEF AnswerInv
<1>28. CASE Accepting(run.con, q[n])
  <2>1. Plain(run) = out'
    <3> DEFINE t == w[n + 1]  u == q[n]
    <3>1. /\ PlainAt(run, ids, t, u) /\ ids \in Seq(Token) /\ t \in Token /\ t \notin Eos
          /\ u \in DOMAIN run.con.next /\ Accepting(run.con, u) /\ Append(ids, t) = out'
      BY <1>22, <1>25, <1>28
    <3>2. Len(ids) < Ngen /\ Len(ids) <= Ngen
      BY <1>3, <1>22, <1>25, LenProperties
    <3> HIDE DEF t, u
    <3>3. Len(ids) < Ngen /\ t \notin Eos /\ Accepting(run.con, u) => Plain(run) = Append(ids, t)
      BY <1>3, <3>1, <3>2, PlainEnds
    <3> QED BY <3>1, <3>2, <3>3
  <2>2. Allowed(run.con, q[n]) = {} /\ Advance(run.con, q[n], 0) = q[n] /\ tok' = 0
    BY <1>3, <1>24, <1>25, <1>28, AtTheEnd DEF Chosen
  <2>3. state' = q[n]
    BY <1>19, <2>2
  <2>4. PastTheCall'
    BY <1>1, <1>2, <1>28, <2>1, <2>2, <2>3 DEF PastTheCall, Closed
  <2> QED BY <1>26, <2>4 DEF AnswerInv
<1> QED BY <1>27, <1>28

LEMMA AnswerStep ==
  ASSUME RowsAlike, TypeOK, CacheInv, AnswerInv, Next
  PROVE  AnswerInv'
  BY PrefillAnswer, StepAnswer, EndAnswer, RunAnswer, DraftAnswer DEF Next

\* Speculation is indistinguishable from not speculating (main.rs:1006-1009): when
\* forwards of several rows are computed like those of one, the answer is that of the
\* plain loop for every model, prompt and constraint, up to one token after a call
\* that a draft completes.
THEOREM SpeculationUnseen == ASSUME RowsAlike PROVE Spec => []SameAsPlain
<1>1. Init => CacheInv /\ AnswerInv
  BY CacheInit, AnswerInit
<1>2. TypeOK /\ CacheInv /\ AnswerInv /\ [Next]_vars => (CacheInv /\ AnswerInv)'
  <2>1. UNCHANGED vars /\ CacheInv /\ AnswerInv => (CacheInv /\ AnswerInv)'
    BY DEF vars, CacheInv, AnswerInv, PastTheCall, OneMore, Closed
  <2> QED BY <2>1, CacheStep, AnswerStep
<1>3. TypeOK /\ AnswerInv => SameAsPlain
  <2> SUFFICES ASSUME TypeOK, AnswerInv, phase # "done" PROVE IsPrefix(out, Plain(run))
    BY DEF SameAsPlain, AnswerInv
  <2>1. /\ run \in Lines /\ out \in Seq(Token) /\ Len(out) <= Ngen /\ tok \in Token
        /\ state \in DOMAIN run.con.next
    BY DEF TypeOK
  <2>2. Plain(run) \in Seq(Token)
    <3>1. Ngen + 1 \in 0 .. Ngen + 1
      BY SpeculateAssumption
    <3>2. PlainRun(run)[Ngen + 1] \in PlainState(run)
      BY <2>1, <3>1, PlainRunIs
    <3> QED BY <3>2 DEF Plain, PlainState
  <2>3. CASE phase = "prefill"
    <3>1. out = <<>> /\ <<>> \in Seq(Token)
      BY <2>3 DEF TypeOK
    <3> QED BY <2>2, <3>1, NothingIsPrefix
  <2>4. CASE phase = "decode" /\ PlainAt(run, out, tok, state)
    BY <2>1, <2>4, PlainEnds
  <2>5. CASE phase = "decode" /\ PastTheCall
    BY <2>2, <2>5, PrefixReflexive DEF PastTheCall
  <2>6. CASE phase = "panic"
    BY <2>6 DEF AnswerInv
  <2> QED BY <2>3, <2>4, <2>5, <2>6 DEF TypeOK, AnswerInv
<1> QED BY <1>1, <1>2, <1>3, TypeCorrect, PTL DEF Spec
=============================================================================
