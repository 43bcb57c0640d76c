------------------------------ MODULE TileGuard ------------------------------
(* The AMX GEMM on a host that may lose its tile registers: the choice of     *)
(* backend, the probe that decides whether the guard is needed, and the       *)
(* guarded kernels, one tile instruction at a time, with the tile file zeroed *)
(* between any two of them (csrc/amx_gemm.c, fgm-kernels/src/lib.rs, and the  *)
(* order forward.rs and pool.rs call them in).                                *)
(*                                                                            *)
(* A tile holds one value per row, which stands for its sixteen columns: a    *)
(* reset takes a tile as a whole and tile_intact looks at one column. The     *)
(* products of a step are data (Term); the scales of int8 weights and of the  *)
(* activations are applied after the fact and left out.                       *)
EXTENDS Integers
CONSTANTS
  TR,        \* rows of a tile: 16
  KB, GK,    \* steps of the k loop, and those of one int4 scale group
  MaxRetry,  \* MAX_RETRY: 16
  Sentinel, SentMin,  \* SENTINEL and SENT_MIN
  MaxTerm,   \* bound of what one step adds to an element
  Term,      \* Term[row][n block][kb]
  Scale,     \* Scale[group], the int4 scales
  Stale,     \* what the output buffer holds before the call
  Calls,     \* records [q4, m, n0, n1, panel]: the GEMMs that may be asked for
  Hosts,     \* records [amx, grants, vnni, preserves]
  Envs       \* records [backend, guard, noGuard]: FGM_BACKEND, FGM_TILE_GUARD, FGM_NO_TILE_GUARD

\* amx_gemm.c:124-130: no sum reaches half the sentinel, so what is left of a reset tile
\* and a tile that was not reset cannot be confused, nor can the 32 bits overflow.
ASSUME TileAssumption ==
  /\ TR \in Nat \ {0} /\ KB \in Nat \ {0} /\ GK \in Nat \ {0} /\ KB % GK = 0
  /\ MaxRetry \in Nat \ {0} /\ Sentinel = 2 * SentMin /\ SentMin \in Nat \ {0}
  /\ MaxTerm \in Nat /\ KB * MaxTerm < SentMin
  /\ Stale \in Int
  /\ \A c \in Calls :
       /\ c.q4 \in BOOLEAN /\ c.m \in Nat \ {0} /\ c.n0 \in Nat /\ c.n1 \in Nat /\ c.n0 < c.n1
       /\ (c.n1 - c.n0) % 4 = 0 /\ c.panel \in Nat \ {0} /\ c.panel % 4 = 0
       /\ \A r \in 0..(c.m - 1), n \in c.n0..(c.n1 - 1), kb \in 0..(KB - 1) :
            Term[r][n][kb] \in -MaxTerm..MaxTerm
  /\ \A kb \in 0..(KB - 1) : Scale[kb \div GK] \in Int

VARIABLES
  host, env,   \* the machine and the variables it is started with
  phase,       \* "backend", "detect", "pool", "enter", "gemm", "done", "panic" or "sigill"
  backend, perm, guard, stage,  \* the backend, the tile permission, guard_on, the next probe
  call, at,    \* the GEMM, and the block it is at: [np, tail, mb, nb]
  guarded,     \* what tile_guard() said when the kernel was entered
  pc, t, kb, kb0, att,  \* where the kernel is: instruction, tile, step, group, attempt
  acc, ops, buf,        \* accumulator tiles, whether the operand tiles hold, stored tiles
  C, gaveUp    \* the output, and the cells whose block ran out of attempts
kernel == <<call, at, guarded, pc, t, kb, kb0, att, acc, ops, buf, C, gaveUp>>
setup  == <<host, env, backend, perm, guard, stage>>
vars   == <<setup, phase, kernel>>

Tiles == 0..3
Probes == 3   \* hold times of 2, 8 and 16 ms

-----------------------------------------------------------------------------
(* The loop nest: panels of n blocks, and for each the rows in blocks of two  *)
(* tiles and then what is left of them.                                       *)
FullRows(c) == c.m - (c.m % (2 * TR))
Rem(c) == c.m % (2 * TR)
PanelEnd(c, np) == IF np + c.panel < c.n1 THEN np + c.panel ELSE c.n1
Paired(c, a) == ~a.tail \/ Rem(c) > TR      \* INNER_*_2x2, else INNER_*_1x4
Start(c, np) == [np |-> np, tail |-> FullRows(c) = 0,
                 mb |-> 0, nb |-> np]

\* The rows of tile i of the block, and the cells they are stored to.
TileRows(c, a, i) ==
  IF ~a.tail THEN TR
  ELSE IF ~Paired(c, a) THEN Rem(c)
  ELSE IF i \in {0, 1} THEN TR ELSE Rem(c) - TR
TileRow(c, a, i) == IF Paired(c, a) /\ i \in {2, 3} THEN a.mb + TR ELSE a.mb
TileCol(c, a, i) == IF Paired(c, a) THEN a.nb + (i % 2) ELSE a.nb + i
TileCells(c, a, i) == {<<TileRow(c, a, i) + r, TileCol(c, a, i)>> : r \in 0..(TileRows(c, a, i) - 1)}
BlockCells(c, a) == UNION {TileCells(c, a, i) : i \in Tiles}
Cells(c) == (0..(c.m - 1)) \X (c.n0..(c.n1 - 1))

\* The block after this one, or the end of the call.
FaultAdvance(c, a) ==   \* the row loop runs over the tail as well
  LET nb == a.nb + (IF Paired(c, a) THEN 2 ELSE 4) IN
  IF nb < PanelEnd(c, a.np) THEN [a EXCEPT !.nb = nb]
  ELSE IF ~a.tail /\ a.mb + 2 * TR < c.m THEN [a EXCEPT !.mb = @ + 2 * TR, !.nb = a.np]
  ELSE IF ~a.tail /\ Rem(c) > 0 THEN [a EXCEPT !.tail = TRUE, !.mb = FullRows(c), !.nb = a.np]
  ELSE Start(c, a.np + c.panel)
Advance(c, a) ==
  LET nb == a.nb + (IF Paired(c, a) THEN 2 ELSE 4) IN
  IF nb < PanelEnd(c, a.np) THEN [a EXCEPT !.nb = nb]
  ELSE IF ~a.tail /\ a.mb + 2 * TR < FullRows(c) THEN [a EXCEPT !.mb = @ + 2 * TR, !.nb = a.np]
  ELSE IF ~a.tail /\ Rem(c) > 0 THEN [a EXCEPT !.tail = TRUE, !.mb = FullRows(c), !.nb = a.np]
  ELSE Start(c, a.np + c.panel)
AtEnd(c, a) == a.np >= c.n1

-----------------------------------------------------------------------------
(* Before the first GEMM: forward.rs with_logit_rows, then Pool::new.         *)
NoTile == [r \in {} |-> 0]
Idle == /\ call = [q4 |-> TRUE, m |-> 0, n0 |-> 0, n1 |-> 0, panel |-> 4]
        /\ at = [np |-> 0, tail |-> FALSE, mb |-> 0, nb |-> 0]
        /\ guarded = FALSE /\ pc = "clear" /\ t = 0 /\ kb = 0 /\ kb0 = 0 /\ att = 0
        /\ acc = [i \in Tiles |-> NoTile] /\ buf = [i \in Tiles |-> NoTile] /\ ops = FALSE
        /\ C = NoTile /\ gaveUp = {}
Init == /\ host \in Hosts /\ env \in Envs
        /\ phase = "backend" /\ backend = "none" /\ perm = FALSE /\ guard = "unset" /\ stage = 1
        /\ Idle

\* arch_prctl: a CPU with AMX and a kernel that grants it.
AmxInit == perm \/ (host.amx /\ host.grants)

\* backend(): only the automatic choice asks for the permission.
Backend ==
  /\ phase = "backend"
  /\ \/ /\ env.backend = "vnni"
        /\ backend' = "vnni" /\ phase' = "detect" /\ UNCHANGED perm
     \/ /\ env.backend = "amx" /\ host.amx
        /\ backend' = "amx" /\ phase' = "detect" /\ UNCHANGED perm
     \/ /\ env.backend = "auto" /\ host.amx /\ AmxInit
        /\ backend' = "amx" /\ phase' = "detect" /\ perm' = AmxInit
     \/ /\ env.backend = "auto" /\ ~(host.amx /\ AmxInit) /\ host.vnni
        /\ backend' = "vnni" /\ phase' = "detect" /\ UNCHANGED perm
     \/ /\ \/ env.backend = "amx" /\ ~host.amx
           \/ env.backend = "auto" /\ ~(host.amx /\ AmxInit) /\ ~host.vnni
        /\ phase' = "panic" /\ UNCHANGED <<backend, perm>>
  /\ UNCHANGED <<host, env, guard, stage, kernel>>

\* tile_guard_autodetect up to its loop.
Autodetect ==
  /\ phase = "detect" /\ stage = 1
  /\ \/ backend # "amx" /\ UNCHANGED guard
     \/ backend = "amx" /\ env.guard \in {"on", "off"} /\ guard' = env.guard
  /\ phase' = "pool"
  /\ UNCHANGED <<host, env, backend, perm, stage, kernel>>

\* One tile_probe: it runs tile instructions, and only a host that loses tiles fails it.
Probe ==
  /\ phase = "detect" /\ backend = "amx" /\ env.guard \notin {"on", "off"}
  /\ IF ~perm THEN phase' = "sigill" /\ UNCHANGED <<guard, stage>>
     ELSE \E bad \in IF host.preserves THEN {FALSE} ELSE BOOLEAN :
            /\ guard' = IF bad THEN "on" ELSE IF stage = Probes THEN "off" ELSE guard
            /\ phase' = IF bad \/ stage = Probes THEN "pool" ELSE "detect"
            /\ stage' = IF bad \/ stage = Probes THEN stage ELSE stage + 1
  /\ UNCHANGED <<host, env, backend, perm, kernel>>

\* Pool::new: the caller and every worker ask for the permission, whatever the answer.
PoolNew ==
  /\ phase = "pool"
  /\ perm' = AmxInit /\ phase' = "enter"
  /\ UNCHANGED <<host, env, backend, guard, stage, kernel>>

-----------------------------------------------------------------------------
(* fgm_gemm_q4g and fgm_gemm_q8c.                                             *)

\* tile_guard(): guarded when nobody ran the probe.
GuardOn == IF guard = "unset" THEN ~env.noGuard ELSE guard = "on"

\* The sum of the steps lo..hi-1 of an element, and what it contributes to the output.
Sums(x, lo) ==
  LET f[k \in lo..KB] == IF k = lo THEN 0 ELSE f[k - 1] + Term[x[1]][x[2]][k - 1] IN f
Sum(x, lo, hi) == Sums(x, lo)[hi]
GroupLen(c) == IF c.q4 THEN GK ELSE KB
Weight(c, k) == IF c.q4 THEN Scale[k \div GK] ELSE 1
Products(c, x) ==   \* the product without tiles, after each group
  LET g[k \in 0..(KB \div GroupLen(c))] ==
        IF k = 0 THEN 0
        ELSE g[k - 1] + Weight(c, (k - 1) * GroupLen(c))
                          * Sum(x, (k - 1) * GroupLen(c), k * GroupLen(c))
  IN g
Ref(c, x) == Products(c, x)[KB \div GroupLen(c)]

\* Into the first instruction of an attempt: the int4 kernel first clears its cells.
AttemptPc(c) == IF c.q4 THEN "clear" ELSE "seed"

Enter ==
  /\ phase = "enter"
  /\ \E c \in Calls :
       /\ call' = c
       /\ \/ /\ backend = "vnni"      \* no tiles: the result is the product
             /\ C' = [x \in Cells(c) |-> Ref(c, x)] /\ phase' = "done"
             /\ UNCHANGED <<at, guarded, pc>>
          \/ /\ backend = "amx" /\ ~perm
             /\ phase' = "sigill" /\ UNCHANGED <<at, guarded, pc, C>>
          \/ /\ backend = "amx" /\ perm
             /\ C' = [x \in Cells(c) |-> Stale] /\ phase' = "gemm"
             /\ at' = Start(c, c.n0) /\ guarded' = GuardOn /\ pc' = AttemptPc(c)
  /\ UNCHANGED <<setup, t, kb, kb0, att, acc, ops, buf, gaveUp>>

\* One pass of an instruction over the four tiles: after the last one comes pc "next".
EachTile(next) == IF t = 3 THEN t' = 0 /\ pc' = next ELSE t' = t + 1 /\ UNCHANGED pc

FaultCleared(D) == D   \* a second attempt adds to what the first one left
Cleared(D) == [x \in DOMAIN D |-> IF x \in BlockCells(call, at) THEN 0 ELSE D[x]]
Clear ==
  /\ phase = "gemm" /\ pc = "clear"
  /\ C' = Cleared(C) /\ pc' = "seed"
  /\ UNCHANGED <<setup, phase, call, at, guarded, t, kb, kb0, att, acc, ops, buf, gaveUp>>

\* ACC_SEED
Seed ==
  /\ phase = "gemm" /\ pc = "seed"
  /\ acc' = [acc EXCEPT ![t] = [r \in 0..(TileRows(call, at, t) - 1) |-> IF guarded THEN Sentinel ELSE 0]]
  /\ EachTile("load")
  /\ UNCHANGED <<setup, phase, call, at, guarded, kb, kb0, att, ops, buf, C, gaveUp>>

\* The loads of the activation tiles, which all four products of a step read.
Load ==
  /\ phase = "gemm" /\ pc = "load"
  /\ ops' = TRUE /\ pc' = "dp"
  /\ UNCHANGED <<setup, phase, call, at, guarded, t, kb, kb0, att, acc, buf, C, gaveUp>>

\* _tile_dpbssd: a 2x2 block takes its tiles column by column.
Dp ==
  /\ phase = "gemm" /\ pc = "dp"
  /\ LET i == IF Paired(call, at) /\ t \in {1, 2} THEN 3 - t ELSE t
         y == TileRow(call, at, i)  x == TileCol(call, at, i)
     IN acc' = [acc EXCEPT ![i] = [r \in DOMAIN @ |-> @[r] + (IF ops THEN Term[y + r][x][kb] ELSE 0)]]
  /\ LET last == t = 3 /\ kb + 1 = kb0 + GroupLen(call) IN
       /\ EachTile(IF last THEN "store" ELSE "load")
       /\ kb' = IF t = 3 THEN kb + 1 ELSE kb
  /\ UNCHANGED <<setup, phase, call, at, guarded, kb0, att, ops, buf, C, gaveUp>>

Store ==
  /\ phase = "gemm" /\ pc = "store"
  /\ buf' = [buf EXCEPT ![t] = acc[t]]
  /\ EachTile("check")
  /\ UNCHANGED <<setup, phase, call, at, guarded, kb, kb0, att, acc, ops, C, gaveUp>>

TileIntact(s) == \A r \in DOMAIN s : s[r] >= SentMin
Intact == guarded => \A i \in Tiles : TileIntact(buf[i])

\* On to the next block, or out of the kernel.
NextBlock ==
  LET a == Advance(call, at) IN
  /\ kb' = 0 /\ kb0' = 0 /\ att' = 0
  /\ IF AtEnd(call, a)
     THEN phase' = "done" /\ UNCHANGED <<at, pc>>
     ELSE at' = a /\ pc' = AttemptPc(call) /\ UNCHANGED phase

\* drain16 adds to the cleared cells; the int8 kernel stores over what is there.
Bias == IF guarded THEN Sentinel ELSE 0
Drained(D) ==
  [x \in DOMAIN D |->
     IF x \notin BlockCells(call, at) THEN D[x]
     ELSE LET i == CHOOSE i \in Tiles : x \in TileCells(call, at, i)
              v == buf[i][x[1] - TileRow(call, at, i)] - Bias
          IN (IF call.q4 THEN D[x] ELSE 0) + Weight(call, kb0) * v]
Drain ==
  /\ phase = "gemm" /\ pc = "check" /\ Intact
  /\ C' = Drained(C)
  /\ IF kb < KB THEN kb0' = kb /\ pc' = "seed" /\ UNCHANGED <<phase, at, kb, att>>
                ELSE NextBlock
  /\ UNCHANGED <<setup, call, guarded, t, acc, ops, buf, gaveUp>>

\* A tile came back reset: again from the start, MAX_RETRY times in all, and then the
\* next block, with what the cells hold by then.
FaultTried(n) == n
Tried(n) == n + 1
Retry ==
  /\ phase = "gemm" /\ pc = "check" /\ ~Intact
  /\ IF Tried(att) < MaxRetry
     THEN /\ att' = Tried(att) /\ kb' = 0 /\ kb0' = 0 /\ pc' = AttemptPc(call)
          /\ UNCHANGED <<phase, at, gaveUp>>
     ELSE gaveUp' = gaveUp \cup BlockCells(call, at) /\ NextBlock
  /\ UNCHANGED <<setup, call, guarded, t, acc, ops, buf, C>>

\* The host preempts the thread and loses the tile file, between any two instructions.
Reset ==
  /\ phase = "gemm" /\ ~host.preserves
  /\ acc' = [i \in Tiles |-> [r \in DOMAIN acc[i] |-> 0]] /\ ops' = FALSE
  /\ UNCHANGED <<setup, phase, call, at, guarded, pc, t, kb, kb0, att, buf, C, gaveUp>>

Ended == phase \in {"done", "panic", "sigill"} /\ UNCHANGED vars
Work == \/ Backend \/ Autodetect \/ Probe \/ PoolNew \/ Enter
        \/ Clear \/ Seed \/ Load \/ Dp \/ Store \/ Drain \/ Retry
Next == Work \/ Reset \/ Ended
Spec == Init /\ [][Next]_vars
\* The thread goes on being scheduled, however often it is preempted.
FairSpec == Spec /\ WF_vars(Work)

-----------------------------------------------------------------------------
TypeOK ==
  /\ host \in Hosts /\ env \in Envs
  /\ phase \in {"backend", "detect", "pool", "enter", "gemm", "done", "panic", "sigill"}
  /\ backend \in {"none", "amx", "vnni"} /\ perm \in BOOLEAN
  /\ guard \in {"unset", "on", "off"} /\ stage \in 1..Probes
  /\ guarded \in BOOLEAN /\ ops \in BOOLEAN
  /\ pc \in {"clear", "seed", "load", "dp", "store", "check"}
  /\ t \in Tiles /\ kb \in 0..KB /\ kb0 \in 0..KB /\ att \in 0..(MaxRetry - 1)
  /\ phase = "gemm" => /\ call \in Calls /\ ~AtEnd(call, at)
                       /\ BlockCells(call, at) \subseteq Cells(call)
                       /\ gaveUp \subseteq Cells(call) /\ DOMAIN C = Cells(call)

\* Every element the call is asked for comes out as the product of its row and column,
\* counted once and from all its groups, however many resets there were and whenever they
\* came: the tails of the loop nest, the seeds, the check, the second attempts and the
\* drain, unless its block ran out of attempts or a host that loses tiles went unguarded.
Exact ==
  phase = "done" /\ (backend = "vnni" \/ guarded \/ host.preserves) =>
    \A x \in Cells(call) \ gaveUp : C[x] = Ref(call, x)

\* A GEMM returns, even if every one of its blocks is hit at every attempt.
CallEnds == <>(phase \in {"done", "panic", "sigill"})

\* lib.rs:138-139: no tile instruction runs before the permission was asked for.
PermissionFirst == phase # "sigill"

\* amx_gemm.c:128-130: on detection the block is recomputed, so a guarded product is right.
GuardedIsRight == phase = "done" /\ guarded => \A x \in Cells(call) : C[x] = Ref(call, x)
=============================================================================
