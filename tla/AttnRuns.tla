------------------------------ MODULE AttnRuns ------------------------------
(* Which cached positions the attention kernel adds up, and how often         *)
(* (csrc/ops.c, fgm_attend_q8_heads and fgm_attend_q8_row). The values are     *)
(* stored by groups of four slots and summed group by group, so a window over *)
(* a ring is cut into at most two runs of slots, each rounded out to whole    *)
(* groups; the lanes of a group that hold none of the window's positions are  *)
(* given weight zero first.                                                   *)
EXTENDS Integers

\* ring is 0 or the capacity of the layer's ring; the window is start..end-1.
KvSlot(ring, p) == IF ring = 0 THEN p ELSE p % ring

Runs(ring, start, end) ==
  LET s0 == start % ring  span == end - start IN
  IF ring = 0 THEN {<<start, end>>}
  ELSE IF span >= ring THEN {<<0, ring>>}
  ELSE IF s0 + span <= ring THEN {<<s0, s0 + span>>}
  ELSE {<<s0, ring>>, <<0, s0 + span - ring>>}

DownTo4(x) == x - (x % 4)
UpTo4(x)   == DownTo4(x + 3)
\* The lanes of a run that are cleared, and then multiplied with their slot's values.
Lanes(r) == DownTo4(r[1]) .. (UpTo4(r[2]) - 1)

\* The weight of a lane is that of the last position filled in, and every run that
\* covers the lane adds it: each position of the window must come out once.
Filled(ring, start, end, s) == {q \in start .. end - 1 : KvSlot(ring, q) = s}
CountedOnce(ring, start, end) ==
  \A q \in start .. end - 1 :
    LET s == KvSlot(ring, q) IN
    /\ Filled(ring, start, end, s) = {q}
    /\ \E r \in Runs(ring, start, end) :
         /\ s \in Lanes(r)
         /\ \A other \in Runs(ring, start, end) : s \in Lanes(other) => other = r
=============================================================================
