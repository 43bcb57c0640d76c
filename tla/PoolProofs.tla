---------------------------- MODULE PoolProofs ----------------------------
(***************************************************************************)
(* For any number of threads and any jobs: the pool implements             *)
(* `ParallelFor`, and a job's pointers are used only while they live.      *)
(*                                                                         *)
(* First the arithmetic: split_n cuts a job into consecutive shares that   *)
(* cover it, and its pieces cover its outputs without overlap.  Then the   *)
(* protocol: the invariant IInv says where workers can be given where the  *)
(* caller is, whose job the cell holds, which share each thread works on,  *)
(* and that exactly the pieces worked off have been written.  One lemma    *)
(* per action; the theorems are at the end.                                *)
(***************************************************************************)
EXTENDS Pool, TLAPS

-----------------------------------------------------------------------------
(* Arithmetic, and split_n.                                                *)

\* What \div and % are.
LEMMA Division ==
  ASSUME NEW a \in Nat, NEW b \in Nat \ {0}
  PROVE  /\ a \div b \in Nat
         /\ a % b \in Nat
         /\ a % b < b
         /\ a = (a \div b) * b + (a % b)
  BY SMT

\* A product grows with its first factor.
LEMMA TimesMonotone ==
  ASSUME NEW a \in Nat, NEW b \in Nat, NEW c \in Nat, a <= b
  PROVE  a * c <= b * c
<1>1. PICK d \in Nat : b = a + d
  OBVIOUS
<1>2. b * c = a * c + d * c
  BY <1>1, SMT
<1>3. d * c \in Nat /\ a * c \in Nat
  BY SMT
<1> QED
  BY <1>2, <1>3

\* And a factor in common can be taken out of a strict inequality.
LEMMA TimesCancel ==
  ASSUME NEW a \in Nat, NEW b \in Nat, NEW c \in Nat, a * c < b * c
  PROVE  a < b
<1>1. SUFFICES ASSUME b <= a PROVE FALSE
  OBVIOUS
<1>2. b * c <= a * c
  BY <1>1, TimesMonotone
<1> QED
  BY <1>2, SMT

\* split_n: a share lies within the job, and ends where the next would begin.
LEMMA SplitFacts ==
  ASSUME NEW total \in Nat, NEW t \in Thread
  PROVE  /\ SplitStart(total, t) \in Nat
         /\ SplitEnd(total, t) \in Nat
         /\ SplitStart(total, t) <= SplitEnd(total, t)
         /\ SplitEnd(total, t) = (t + 1) * (total \div NT) + Smaller(t + 1, total % NT)
         /\ SplitEnd(total, t) <= total
<1> DEFINE per == total \div NT
           extra == total % NT
<1>1. NT \in Nat \ {0} /\ t \in Nat /\ t + 1 \in Nat /\ t + 1 <= NT
  BY PoolAssumption DEF Thread
<1>2. per \in Nat /\ extra \in Nat /\ extra < NT /\ total = per * NT + extra
  BY <1>1, Division
<1> HIDE DEF per, extra
<1>3. t * per \in Nat /\ (t + 1) * per = t * per + per
  BY <1>1, <1>2, SMT
<1>4. (t + 1) * per <= per * NT
  <2>1. (t + 1) * per <= NT * per
    BY <1>1, <1>2, TimesMonotone
  <2> QED
    BY <2>1, <1>1, <1>2, SMT
<1>5. SplitStart(total, t) = t * per + Smaller(t, extra)
  BY DEF SplitStart, per, extra
<1>6. SplitEnd(total, t) = SplitStart(total, t) + per + (IF t < extra THEN 1 ELSE 0)
  BY DEF SplitEnd, per, extra
<1>7. Smaller(t, extra) \in Nat /\ Smaller(t + 1, extra) = Smaller(t, extra) + (IF t < extra THEN 1 ELSE 0)
      /\ Smaller(t + 1, extra) <= extra
  BY <1>1, <1>2 DEF Smaller
<1>8. /\ SplitStart(total, t) \in Nat
      /\ SplitEnd(total, t) \in Nat
      /\ SplitStart(total, t) <= SplitEnd(total, t)
      /\ SplitEnd(total, t) = (t + 1) * per + Smaller(t + 1, extra)
  BY <1>1, <1>2, <1>3, <1>5, <1>6, <1>7
<1>9. SplitEnd(total, t) <= total
  BY <1>1, <1>2, <1>3, <1>4, <1>7, <1>8
<1> QED
  BY <1>8, <1>9 DEF per, extra

\* split_n: what one thread's share ends with comes before what a later one's
\* begins with.
LEMMA SplitOrdered ==
  ASSUME NEW total \in Nat, NEW t \in Thread, NEW u \in Thread, t < u
  PROVE  SplitEnd(total, t) <= SplitStart(total, u)
<1> DEFINE per == total \div NT
           extra == total % NT
<1>1. NT \in Nat \ {0} /\ t \in Nat /\ u \in Nat /\ t + 1 <= u
  BY PoolAssumption DEF Thread
<1>2. per \in Nat /\ extra \in Nat
  BY <1>1, Division
<1>3. SplitEnd(total, t) = (t + 1) * per + Smaller(t + 1, extra)
  BY SplitFacts
<1>4. SplitStart(total, u) = u * per + Smaller(u, extra)
  BY DEF SplitStart
<1> HIDE DEF per, extra
<1>5. (t + 1) * per <= u * per /\ (t + 1) * per \in Nat /\ u * per \in Nat
  BY <1>1, <1>2, TimesMonotone
<1>6. Smaller(t + 1, extra) <= Smaller(u, extra) /\ Smaller(t + 1, extra) \in Nat /\ Smaller(u, extra) \in Nat
  BY <1>1, <1>2 DEF Smaller
<1> QED
  BY <1>3, <1>4, <1>5, <1>6

\* split_n leaves no piece out.
LEMMA SplitCovers ==
  ASSUME NEW total \in Nat, NEW p \in Nat, p < total
  PROVE  \E t \in Thread : SplitStart(total, t) <= p /\ p < SplitEnd(total, t)
<1> DEFINE per == total \div NT
           extra == total % NT
<1>1. NT \in Nat \ {0}
  BY PoolAssumption
<1>2. per \in Nat /\ extra \in Nat /\ extra < NT /\ total = per * NT + extra
  BY <1>1, Division
<1>3. ASSUME NEW t \in Thread
      PROVE  /\ SplitStart(total, t) = t * per + Smaller(t, extra)
             /\ SplitEnd(total, t) = (t + 1) * per + Smaller(t + 1, extra)
  BY SplitFacts DEF SplitStart
<1> HIDE DEF per, extra
<1>4. extra * (per + 1) \in Nat /\ extra * (per + 1) = extra * per + extra
  BY <1>2, SMT
\* p lies in one of the shares of per + 1 pieces.
<1>5. CASE p < extra * (per + 1)
  <2> DEFINE t == p \div (per + 1)
  <2>1. /\ t \in Nat /\ p % (per + 1) \in Nat /\ p % (per + 1) < per + 1
        /\ p = t * (per + 1) + (p % (per + 1))
    <3>1. per + 1 \in Nat \ {0}
      BY <1>2
    <3> QED
      BY <3>1, Division
  <2> HIDE DEF t
  <2>2. t * (per + 1) \in Nat /\ t * (per + 1) = t * per + t /\ t * per \in Nat
        /\ (t + 1) * per = t * per + per
    BY <1>2, <2>1, SMT
  <2>3. t * (per + 1) < extra * (per + 1)
    BY <1>4, <1>5, <2>1, <2>2
  <2>4. t < extra
    BY <1>2, <2>1, <2>3, TimesCancel
  <2>5. t \in Thread
    BY <1>1, <1>2, <2>1, <2>4 DEF Thread
  <2>6. SplitStart(total, t) = t * per + t /\ SplitEnd(total, t) = (t + 1) * per + t + 1
    BY <1>2, <1>3, <2>1, <2>4, <2>5 DEF Smaller
  <2> QED
    BY <1>2, <2>1, <2>2, <2>5, <2>6
\* p lies in one of the shares of per pieces.
<1>6. CASE ~ (p < extra * (per + 1))
  <2> DEFINE d == p - extra * (per + 1)
             q == d \div per
             t == extra + q
  <2>1. d \in Nat /\ p = d + extra * per + extra
    BY <1>2, <1>4, <1>6
  <2>2. per * NT \in Nat /\ extra * per \in Nat
    BY <1>1, <1>2, SMT
  <2> HIDE DEF d
  <2>3. d + extra * per < per * NT
    BY <1>1, <1>2, <2>1, <2>2
  <2>4. per # 0
    BY <1>1, <1>2, <2>1, <2>2, <2>3, SMT
  <2>5. q \in Nat /\ d % per \in Nat /\ d % per < per /\ d = q * per + (d % per)
    BY <1>2, <2>1, <2>4, Division
  <2> HIDE DEF q
  <2>6. t * per = extra * per + q * per /\ (t + 1) * per = t * per + per
        /\ q * per \in Nat /\ t * per \in Nat
    BY <1>2, <2>5, SMT
  <2>7. t * per < NT * per
    BY <1>1, <1>2, <2>2, <2>3, <2>5, <2>6, SMT
  <2>8. t \in Nat /\ t < NT
    BY <1>1, <1>2, <2>5, <2>7, TimesCancel
  <2>9. t \in Thread /\ t >= extra
    BY <1>1, <1>2, <2>5, <2>8 DEF Thread
  <2> HIDE DEF t
  <2>10. SplitStart(total, t) = t * per + extra /\ SplitEnd(total, t) = (t + 1) * per + extra
    BY <1>2, <1>3, <2>8, <2>9 DEF Smaller
  <2> QED
    BY <1>2, <2>1, <2>2, <2>5, <2>6, <2>9, <2>10
<1> QED
  BY <1>5, <1>6

-----------------------------------------------------------------------------
(* What the pieces of a job write.                                         *)

\* What PoolAssumption says of one job.
LEMMA JobType ==
  ASSUME NEW j \in Job
  PROVE  /\ j.kind \in Kinds /\ j.m \in Nat \ {0} /\ j.n \in Nat \ {0}
         /\ j.kind = "gemm" => j.n % 64 = 0
  BY PoolAssumption

\* The number of pieces is a number.
LEMMA PiecesNat ==
  ASSUME NEW j \in Job
  PROVE  Pieces(j) \in Nat
<1>1. j.m \in Nat /\ j.n \in Nat
  BY JobType
<1>2. j.n \div 16 \in Nat /\ (j.n \div 16) \div 4 \in Nat /\ (j.m + 15) \div 16 \in Nat
  BY <1>1, SMT
<1>3. j.m * j.n \in Nat
  BY <1>1, SMT
<1> QED
  BY <1>1, <1>2, <1>3 DEF Pieces

\* An output lies in piece p iff p is the output's block, row or pair.
LEMMA WritesIn ==
  ASSUME NEW j \in Job, NEW p \in Nat, NEW u \in Writes(j, p)
  PROVE  /\ u \in Nat
         /\ p = CASE j.kind = "gemm" -> u \div 4
                  [] j.kind = "prep" -> u \div 16
                  [] j.kind = "rows" -> u \div j.n
                  [] OTHER           -> u
<1>1. j.m \in Nat \ {0} /\ j.n \in Nat \ {0}
  BY JobType
<1>2. CASE j.kind = "gemm"
  <2>1. u \in 4 * p .. 4 * p + 3
    BY <1>2 DEF Writes
  <2> QED
    BY <1>2, <2>1
<1>3. CASE j.kind = "prep"
  <2>1. u \in 16 * p .. Smaller(16 * p + 16, j.m) - 1
    BY <1>3 DEF Writes
  <2>2. u \in 16 * p .. 16 * p + 15
    BY <1>1, <2>1 DEF Smaller
  <2> QED
    BY <1>3, <2>2
<1>4. CASE j.kind = "rows"
  <2>1. u \in p * j.n .. p * j.n + j.n - 1
    BY <1>4 DEF Writes
  <2>2. p * j.n \in Nat
    BY <1>1, SMT
  <2>3. u \in Nat /\ u < p * j.n + j.n /\ p * j.n <= u
    BY <1>1, <2>1, <2>2
  <2> DEFINE q == u \div j.n
  <2>4. q \in Nat /\ u % j.n \in Nat /\ u % j.n < j.n /\ u = q * j.n + (u % j.n)
    BY <1>1, <2>3, Division
  <2> HIDE DEF q
  <2>5. q * j.n \in Nat /\ (q + 1) * j.n = q * j.n + j.n /\ (p + 1) * j.n = p * j.n + j.n
    BY <1>1, <2>4, SMT
  <2>6. p < q + 1
    <3>1. p * j.n < (q + 1) * j.n
      BY <1>1, <2>2, <2>3, <2>4, <2>5
    <3> QED
      BY <3>1, <1>1, <2>4, TimesCancel
  <2>7. q < p + 1
    <3>1. q * j.n < (p + 1) * j.n
      BY <1>1, <2>2, <2>3, <2>4, <2>5
    <3> QED
      BY <3>1, <1>1, <2>4, TimesCancel
  <2>8. p = q
    BY <2>4, <2>6, <2>7
  <2> QED
    BY <1>4, <2>3, <2>8 DEF q
<1>5. CASE j.kind \notin {"gemm", "prep", "rows"}
  BY <1>5 DEF Writes
<1> QED
  BY <1>2, <1>3, <1>4, <1>5

\* No output belongs to two pieces.
LEMMA WritesDisjoint ==
  ASSUME NEW j \in Job, NEW p \in Nat, NEW q \in Nat,
         NEW u \in Writes(j, p), u \in Writes(j, q)
  PROVE  p = q
<1>1. p = CASE j.kind = "gemm" -> u \div 4
            [] j.kind = "prep" -> u \div 16
            [] j.kind = "rows" -> u \div j.n
            [] OTHER           -> u
  BY WritesIn
<1>2. q = CASE j.kind = "gemm" -> u \div 4
            [] j.kind = "prep" -> u \div 16
            [] j.kind = "rows" -> u \div j.n
            [] OTHER           -> u
  BY WritesIn
<1> QED
  BY <1>1, <1>2

\* Every output belongs to a piece, and the pieces write nothing else.
LEMMA WritesCover ==
  ASSUME NEW j \in Job
  PROVE  \A u : u \in Outputs(j) <=> \E p \in 0 .. Pieces(j) - 1 : u \in Writes(j, p)
<1>1. j.m \in Nat \ {0} /\ j.n \in Nat \ {0} /\ j.kind \in Kinds
  BY JobType
<1>2. CASE j.kind = "gemm"
  <2>1. PICK k \in Nat : j.n = 64 * k
    <3>1. j.n % 64 = 0 /\ j.n \div 64 \in Nat
      BY <1>1, <1>2, JobType, SMT
    <3>2. j.n = 64 * (j.n \div 64)
      BY <1>1, <3>1, SMT
    <3> QED
      BY <3>1, <3>2
  <2>2. j.n \div 16 = 4 * k /\ (j.n \div 16) \div 4 = k
    BY <2>1, SMT
  <2>3. Outputs(j) = 0 .. 4 * k - 1 /\ Pieces(j) = k
        /\ \A p : Writes(j, p) = 4 * p .. 4 * p + 3
    BY <1>2, <2>2 DEF Outputs, Pieces, Writes
  <2>4. ASSUME NEW u \in 0 .. 4 * k - 1
        PROVE  u \div 4 \in 0 .. k - 1 /\ u \in 4 * (u \div 4) .. 4 * (u \div 4) + 3
    BY <2>1, SMT
  <2>5. ASSUME NEW p \in 0 .. k - 1, NEW u \in 4 * p .. 4 * p + 3
        PROVE  u \in 0 .. 4 * k - 1
    BY <2>1, SMT
  <2> QED
    BY <2>3, <2>4, <2>5
<1>3. CASE j.kind = "prep"
  <2> DEFINE b == (j.m + 15) \div 16
  <2>1. Outputs(j) = 0 .. j.m - 1 /\ Pieces(j) = b
        /\ \A p : Writes(j, p) = 16 * p .. Smaller(16 * p + 16, j.m) - 1
    BY <1>3 DEF Outputs, Pieces, Writes
  <2>2. b \in Nat /\ 16 * b >= j.m
    BY <1>1, SMT
  <2>3. ASSUME NEW u \in 0 .. j.m - 1
        PROVE  u \div 16 \in 0 .. b - 1 /\ u \in 16 * (u \div 16) .. 16 * (u \div 16) + 15
    BY <1>1, <2>2, SMT
  <2> HIDE DEF b
  <2>4. ASSUME NEW u \in 0 .. j.m - 1
        PROVE  u \in 16 * (u \div 16) .. Smaller(16 * (u \div 16) + 16, j.m) - 1
    BY <1>1, <2>3 DEF Smaller
  <2>5. ASSUME NEW p \in 0 .. b - 1, NEW u \in 16 * p .. Smaller(16 * p + 16, j.m) - 1
        PROVE  u \in 0 .. j.m - 1
    BY <1>1, <2>2 DEF Smaller
  <2>6. ASSUME NEW u \in Outputs(j)
        PROVE  \E p \in 0 .. Pieces(j) - 1 : u \in Writes(j, p)
    <3>1. u \in 0 .. j.m - 1
      BY <2>1
    <3>2. u \in Writes(j, u \div 16)
      BY <2>1, <2>4, <3>1
    <3> QED
      BY <2>1, <2>3, <3>1, <3>2
  <2>7. ASSUME NEW p \in 0 .. Pieces(j) - 1, NEW u \in Writes(j, p)
        PROVE  u \in Outputs(j)
    BY <2>1, <2>5
  <2> QED
    BY <2>6, <2>7
<1>4. CASE j.kind = "rows"
  <2>1. Outputs(j) = 0 .. j.m * j.n - 1 /\ Pieces(j) = j.m
        /\ \A p : Writes(j, p) = p * j.n .. p * j.n + j.n - 1
    BY <1>4 DEF Outputs, Pieces, Writes
  <2>2. j.m * j.n \in Nat
    BY <1>1, SMT
  <2>3. ASSUME NEW u \in 0 .. j.m * j.n - 1
        PROVE  \E p \in 0 .. j.m - 1 : u \in p * j.n .. p * j.n + j.n - 1
    <3> DEFINE q == u \div j.n
    <3>1. q \in Nat /\ u % j.n \in Nat /\ u % j.n < j.n /\ u = q * j.n + (u % j.n)
      BY <1>1, Division
    <3> HIDE DEF q
    <3>2. q * j.n \in Nat
      BY <1>1, <3>1, SMT
    <3>3. q * j.n < j.m * j.n
      BY <2>2, <3>1, <3>2
    <3>4. q < j.m
      BY <1>1, <3>1, <3>3, TimesCancel
    <3> QED
      BY <1>1, <3>1, <3>2, <3>4
  <2>4. ASSUME NEW p \in 0 .. j.m - 1, NEW u \in p * j.n .. p * j.n + j.n - 1
        PROVE  u \in 0 .. j.m * j.n - 1
    <3>1. p + 1 \in Nat /\ p \in Nat /\ p + 1 <= j.m
      BY <1>1
    <3>2. (p + 1) * j.n <= j.m * j.n
      BY <1>1, <3>1, TimesMonotone
    <3>3. (p + 1) * j.n = p * j.n + j.n /\ p * j.n \in Nat
      BY <1>1, <3>1, SMT
    <3> QED
      BY <1>1, <2>2, <3>2, <3>3
  <2> QED
    BY <2>1, <2>3, <2>4
<1>5. CASE j.kind = "heads"
  <2>1. Outputs(j) = 0 .. j.m * j.n - 1 /\ Pieces(j) = j.m * j.n
        /\ \A p : Writes(j, p) = {p}
    BY <1>5 DEF Outputs, Pieces, Writes
  <2> QED
    BY <2>1
<1> QED
  BY <1>1, <1>2, <1>3, <1>4, <1>5 DEF Kinds

-----------------------------------------------------------------------------
(* The inductive invariant.                                                *)

Outside == {"back", "start", "inStart"}
Inside == {"go", "take", "work", "done", "inDone"}

\* The caller is in the middle of a pooled call: past the start barrier and not
\* yet through the done barrier.
Pooled == /\ ~ stop
          /\ pc[0] \in Inside
          /\ ~ (pc[0] = "work" /\ Inline(job))

\* The caller works off a job by itself.
Alone == pc[0] = "work" /\ Inline(job)

\* Where the caller is tells where the workers can be.
PhaseInv ==
  /\ pc[0] \in {"idle", "start", "inStart", "go", "work", "done", "inDone",
               "back", "join", "dropped"}
  /\ stop => pc[0] \in {"start", "inStart", "go", "join", "dropped"}
  /\ pc[0] = "join" => stop
  /\ \A t \in Worker :
       pc[t] \in IF pc[0] = "dropped" THEN {"exited"}
                ELSE IF stop /\ pc[0] \in {"go", "join"} THEN {"go", "exited"}
                ELSE IF Pooled THEN Inside
                ELSE Outside

\* From the store to the cell to the return of the call, the cell is this
\* call's.
CellInv ==
  /\ ~ stop /\ pc[0] \in {"start", "inStart", "go", "done", "inDone", "back"}
       => ~ Inline(job)
  /\ ~ stop /\ ~ Inline(job)
       /\ pc[0] \in {"start", "inStart", "go", "work", "done", "inDone", "back"}
       => cell = [job |-> job, call |-> calls]

\* A working thread has the share split_n gives it of this call's job.
ShareInv ==
  /\ Pooled =>
       \A t \in Thread :
         pc[t] = "work" => /\ mine[t].job = job
                           /\ mine[t].call = calls
                           /\ mine[t].hi = SplitEnd(Pieces(job), t)
                           /\ SplitStart(Pieces(job), t) <= mine[t].i
                           /\ mine[t].i <= mine[t].hi
  /\ Alone => /\ mine[0].job = job
              /\ mine[0].hi = Pieces(job)
              /\ mine[0].i <= mine[0].hi

\* In a pooled call, thread t is through with piece p of its share.
Through(t, p) == \/ pc[t] \in {"done", "inDone"}
                 \/ pc[t] = "work" /\ p < mine[t].i

\* Exactly the pieces threads are through with have been written, once.
TallyInv ==
  /\ Pooled =>
       \A t \in Thread :
         \A p \in SplitStart(Pieces(job), t) .. SplitEnd(Pieces(job), t) - 1 :
           \A u \in Writes(job, p) : tally[u] = IF Through(t, p) THEN 1 ELSE 0
  /\ Alone => \A p \in 0 .. Pieces(job) - 1 :
               \A u \in Writes(job, p) : tally[u] = IF p < mine[0].i THEN 1 ELSE 0
  /\ ~ stop /\ pc[0] \in {"start", "inStart"}
       => \A u \in Outputs(job) : tally[u] = 0
  /\ pc[0] \in {"idle", "back", "dropped"} \/ stop
       => \A u \in Outputs(job) : tally[u] = 1

IInv == TypeOK /\ PhaseInv /\ CellInv /\ ShareInv /\ TallyInv

\* The caller and the workers are all the threads.
LEMMA ThreadFacts ==
  /\ NT \in Nat \ {0} /\ 0 \in Thread /\ 0 \notin Worker
  /\ \A t : t \in Worker <=> t \in Thread /\ t # 0
  /\ NT = 1 => Worker = {}
  BY PoolAssumption DEF Thread, Worker

\* A fresh pool satisfies the invariant.
LEMMA InitIInv == Init => IInv
<1> SUFFICES ASSUME Init PROVE IInv
  OBVIOUS
<1>1. /\ job \in Job /\ cell = NoJob /\ stop = FALSE /\ calls = 0
      /\ pc = [t \in Thread |-> IF t = 0 THEN "idle" ELSE "start"]
      /\ mine = [t \in Thread |-> Share(job, 0, 0, 0)]
      /\ tally = [u \in Outputs(job) |-> 1]
  BY DEF Init
<1>2. TypeOK
  <2>1. MaxCalls \in Nat /\ 0 \in 0 .. MaxCalls
    BY PoolAssumption
  <2>2. Share(job, 0, 0, 0) \in Shares
    BY <1>1, <2>1 DEF Share, Shares
  <2>3. mine \in [Thread -> Shares]
    BY <1>1, <2>2
  <2>4. \A t \in Thread : mine[t].hi <= Pieces(mine[t].job)
    BY <1>1, PiecesNat DEF Share
  <2>5. pc \in [Thread -> ThreadState]
    BY <1>1 DEF ThreadState
  <2> QED
    BY <1>1, <2>1, <2>3, <2>4, <2>5 DEF TypeOK
<1>3. PhaseInv
  BY <1>1, ThreadFacts DEF PhaseInv, Pooled, Outside, Inside
<1>4. CellInv /\ ShareInv /\ TallyInv
  BY <1>1, ThreadFacts DEF CellInv, ShareInv, TallyInv, Pooled, Alone, Inside
<1> QED
  BY <1>2, <1>3, <1>4 DEF IInv

\* A job the caller does alone: the workers stay where they are.
LEMMA CallInlineStep ==
  ASSUME IInv, NEW j \in Job, CallInline(j)
  PROVE  IInv'
<1> USE ThreadFacts
<1>1. /\ pc[0] = "idle" /\ Inline(j) /\ calls < MaxCalls /\ calls' = calls + 1
      /\ job' = j /\ tally' = [u \in Outputs(j) |-> 0]
      /\ mine' = [mine EXCEPT ![0] = Share(j, calls', 0, Pieces(j))]
      /\ pc' = [pc EXCEPT ![0] = "work"]
      /\ UNCHANGED <<cell, stop>>
  BY DEF CallInline, Begin, Go
<1>2. TypeOK /\ PhaseInv
  BY DEF IInv
<1>3. ~ stop /\ pc \in [Thread -> ThreadState] /\ mine \in [Thread -> Shares]
  BY <1>1, <1>2 DEF PhaseInv, TypeOK
<1>4. /\ pc'[0] = "work" /\ \A t \in Worker : pc'[t] = pc[t]
      /\ mine'[0] = Share(j, calls', 0, Pieces(j)) /\ \A t \in Worker : mine'[t] = mine[t]
  BY <1>1, <1>3
<1>5. TypeOK'
  <2>1. calls' \in 0 .. MaxCalls
    BY <1>1, <1>2, PoolAssumption DEF TypeOK
  <2>2. Share(j, calls', 0, Pieces(j)) \in Shares
    BY <2>1, PiecesNat DEF Share, Shares
  <2>3. mine' \in [Thread -> Shares]
    BY <1>1, <1>3, <2>2
  <2>4. \A t \in Thread : mine'[t].hi <= Pieces(mine'[t].job)
    BY <1>2, <1>4, PiecesNat DEF TypeOK, Share
  <2>5. pc' \in [Thread -> ThreadState]
    BY <1>1, <1>3 DEF ThreadState
  <2> QED
    BY <1>1, <1>2, <2>1, <2>3, <2>4, <2>5 DEF TypeOK
<1>6. PhaseInv'
  BY <1>1, <1>2, <1>3, <1>4 DEF PhaseInv, Pooled, Inside
<1>7. CellInv'
  BY <1>1, <1>4 DEF CellInv
<1>8. ShareInv'
  BY <1>1, <1>4, PiecesNat DEF ShareInv, Pooled, Alone, Share
<1>9. TallyInv'
  <2>1. \A p \in 0 .. Pieces(j) - 1 : \A u \in Writes(j, p) : u \in Outputs(j)
    BY WritesCover
  <2> QED
    BY <1>1, <1>3, <1>4, <2>1 DEF TallyInv, Pooled, Alone, Share
<1> QED
  BY <1>5, <1>6, <1>7, <1>8, <1>9 DEF IInv

\* The store to the cell, while no worker is past the start barrier.
LEMMA CallPooledStep ==
  ASSUME IInv, NEW j \in Job, CallPooled(j)
  PROVE  IInv'
<1> USE ThreadFacts
<1>1. /\ pc[0] = "idle" /\ ~ Inline(j) /\ calls < MaxCalls /\ calls' = calls + 1
      /\ job' = j /\ tally' = [u \in Outputs(j) |-> 0]
      /\ cell' = [job |-> j, call |-> calls']
      /\ pc' = [pc EXCEPT ![0] = "start"]
      /\ UNCHANGED <<mine, stop>>
  BY DEF CallPooled, Begin, Go
<1>2. TypeOK /\ PhaseInv
  BY DEF IInv
<1>3. ~ stop /\ pc \in [Thread -> ThreadState]
  BY <1>1, <1>2 DEF PhaseInv, TypeOK
<1>4. pc'[0] = "start" /\ \A t \in Worker : pc'[t] = pc[t]
  BY <1>1, <1>3
<1>5. TypeOK'
  <2>1. calls' \in 1 .. MaxCalls
    BY <1>1, <1>2, PoolAssumption DEF TypeOK
  <2>2. pc' \in [Thread -> ThreadState]
    BY <1>1, <1>3 DEF ThreadState
  <2> QED
    BY <1>1, <1>2, <2>1, <2>2 DEF TypeOK
<1>6. PhaseInv'
  BY <1>1, <1>2, <1>3, <1>4 DEF PhaseInv, Pooled, Inside
<1>7. CellInv'
  BY <1>1 DEF CellInv
<1>8. ShareInv'
  BY <1>4 DEF ShareInv, Pooled, Alone, Inside
<1>9. TallyInv'
  BY <1>1, <1>3, <1>4 DEF TallyInv, Pooled, Alone, Inside
<1> QED
  BY <1>5, <1>6, <1>7, <1>8, <1>9 DEF IInv

\* The start barrier: blocking changes nothing; its release begins a pooled
\* call, nothing of which has been written, or the end of the pool.
LEMMA WaitStartStep ==
  ASSUME IInv, NEW t \in Thread, WaitStart(t)
  PROVE  IInv'
<1> USE ThreadFacts
<1>1. /\ pc[t] = "start"
      /\ UNCHANGED <<cell, stop, mine, job, calls, tally>>
      /\ Wait(t, "inStart", "go")
  BY DEF WaitStart
<1>2. TypeOK /\ PhaseInv /\ CellInv /\ ShareInv /\ TallyInv
  BY DEF IInv
<1>3. pc \in [Thread -> ThreadState]
  BY <1>2 DEF TypeOK
<1>4. pc[0] \in {"idle", "start", "inStart", "back"} \/ Alone
  BY <1>1, <1>2 DEF PhaseInv, Pooled, Inside, Alone
\* Not the last one: it blocks.
<1>5. CASE pc' = [pc EXCEPT ![t] = "inStart"]
  <2>1. /\ pc'[t] = "inStart" /\ \A v \in Thread \ {t} : pc'[v] = pc[v]
        /\ pc' \in [Thread -> ThreadState]
    BY <1>3, <1>5 DEF ThreadState
  <2>2. TypeOK'
    BY <1>1, <1>2, <2>1 DEF TypeOK
  <2>3. ~ Pooled /\ ~ Pooled' /\ (Alone' <=> Alone)
    BY <1>1, <1>4, <2>1 DEF Pooled, Alone, Inside
  <2>4. PhaseInv'
    BY <1>1, <1>2, <1>4, <2>1, <2>3 DEF PhaseInv, Outside, Alone
  <2>5. CellInv'
    BY <1>1, <1>2, <2>1 DEF CellInv
  <2>6. ShareInv' /\ TallyInv'
    BY <1>1, <1>2, <2>1, <2>3 DEF ShareInv, TallyInv
  <2> QED
    BY <2>2, <2>4, <2>5, <2>6 DEF IInv
\* The last one releases all: a pooled call, or the end, has begun.
<1>6. CASE /\ \A v \in Thread \ {t} : pc[v] = "inStart"
           /\ pc' = [v \in Thread |-> "go"]
  <2>1. \A v \in Thread : pc'[v] = "go"
    BY <1>6
  <2>2. TypeOK'
    BY <1>1, <1>2, <1>6 DEF TypeOK, ThreadState
  <2>3. pc[0] \in {"start", "inStart"}
    BY <1>1, <1>6
  <2>4. PhaseInv'
    BY <1>1, <1>2, <2>1, <2>3 DEF PhaseInv, Pooled, Inside
  <2>5. CellInv'
    BY <1>1, <1>2, <2>1, <2>3 DEF CellInv
  <2>6. ShareInv'
    BY <2>1 DEF ShareInv, Alone
  <2>7. TallyInv'
    <3>1. ASSUME ~ stop, NEW v \in Thread,
                 NEW p \in SplitStart(Pieces(job), v) .. SplitEnd(Pieces(job), v) - 1,
                 NEW u \in Writes(job, p)
          PROVE  tally[u] = 0
      <4>1. job \in Job /\ \A w \in Outputs(job) : tally[w] = 0
        BY <1>2, <2>3, <3>1 DEF TallyInv, TypeOK
      <4>2. p \in 0 .. Pieces(job) - 1
        BY <4>1, PiecesNat, SplitFacts
      <4> QED
        BY <4>1, <4>2, WritesCover
    <3>2. \A v \in Thread, p \in Nat : ~ Through(v, p)'
      BY <2>1 DEF Through
    <3>3. ASSUME NEW v \in Thread
          PROVE  SplitStart(Pieces(job), v) .. SplitEnd(Pieces(job), v) - 1 \subseteq Nat
      BY <1>2, PiecesNat, SplitFacts DEF TypeOK
    <3>4. job' = job /\ tally' = tally /\ stop' = stop
      BY <1>1
    <3>5. ASSUME Pooled', NEW v \in Thread,
                 NEW p \in SplitStart(Pieces(job), v) .. SplitEnd(Pieces(job), v) - 1,
                 NEW u \in Writes(job, p)
          PROVE  tally'[u] = IF Through(v, p)' THEN 1 ELSE 0
      BY <3>1, <3>2, <3>3, <3>4, <3>5 DEF Pooled
    <3>6. ~ Alone' /\ pc'[0] = "go"
      BY <2>1 DEF Alone
    <3>7. stop => \A u \in Outputs(job) : tally[u] = 1
      BY <1>2 DEF TallyInv
    <3> QED
      BY <3>4, <3>5, <3>6, <3>7 DEF TallyInv
  <2> QED
    BY <2>2, <2>4, <2>5, <2>6, <2>7 DEF IInv
<1> QED
  BY <1>1, <1>5, <1>6 DEF Wait, Go

\* A worker that sees the stop flag exits, one that does not is in a call.
LEMMA CheckStopStep ==
  ASSUME IInv, NEW t \in Thread, CheckStop(t)
  PROVE  IInv'
<1> USE ThreadFacts
<1>1. /\ t \in Worker /\ pc[t] = "go"
      /\ pc' = [pc EXCEPT ![t] = IF stop THEN "exited" ELSE "take"]
      /\ UNCHANGED <<cell, stop, mine, job, calls, tally>>
  BY DEF CheckStop, Go
<1>2. TypeOK /\ PhaseInv /\ CellInv /\ ShareInv /\ TallyInv
  BY DEF IInv
<1>3. /\ pc'[t] = IF stop THEN "exited" ELSE "take"
      /\ \A v \in Thread \ {t} : pc'[v] = pc[v]
      /\ pc'[0] = pc[0]
      /\ pc' \in [Thread -> ThreadState]
  BY <1>1, <1>2 DEF TypeOK, ThreadState
<1>4. (Pooled' <=> Pooled) /\ (Alone' <=> Alone)
  BY <1>1, <1>3 DEF Pooled, Alone
<1>5. TypeOK'
  BY <1>1, <1>2, <1>3 DEF TypeOK
<1>6. PhaseInv'
  <2>1. CASE stop
    <3>1. pc[0] \in {"go", "join"}
      BY <1>1, <1>2, <2>1 DEF PhaseInv, Pooled, Outside
    <3> QED
      BY <1>1, <1>2, <1>3, <2>1, <3>1 DEF PhaseInv
  <2>2. CASE ~ stop
    <3>1. Pooled /\ pc[0] \notin {"dropped", "join"}
      BY <1>1, <1>2, <2>2 DEF PhaseInv, Outside, Pooled, Inside
    <3>2. \A v \in Worker : pc'[v] \in Inside
      BY <1>2, <1>3, <2>2, <3>1 DEF PhaseInv, Inside
    <3> QED
      BY <1>1, <1>2, <1>3, <1>4, <2>2, <3>1, <3>2 DEF PhaseInv
  <2> QED
    BY <2>1, <2>2
<1>7. CellInv'
  BY <1>1, <1>2, <1>3 DEF CellInv
<1>8. ShareInv'
  BY <1>1, <1>2, <1>3, <1>4 DEF ShareInv
<1>9. TallyInv'
  <2>1. \A v \in Thread : \A p : Through(v, p)' <=> Through(v, p)
    BY <1>1, <1>3 DEF Through
  <2> QED
    BY <1>1, <1>2, <1>3, <1>4, <2>1 DEF TallyInv
<1> QED
  BY <1>5, <1>6, <1>7, <1>8, <1>9 DEF IInv

\* Both ways to take a share: by a worker from the cell, by the caller from its
\* argument.
LEMMA TakeShare ==
  ASSUME IInv, NEW t \in Thread, Pooled, pc[t] \in {"go", "take"},
         pc' = [pc EXCEPT ![t] = "work"],
         mine' = [mine EXCEPT ![t] = ShareOf(job, calls, t)],
         UNCHANGED <<cell, stop, job, calls, tally>>
  PROVE  IInv'
<1> USE ThreadFacts
<1>2. TypeOK /\ PhaseInv /\ CellInv /\ ShareInv /\ TallyInv
  BY DEF IInv
<1> DEFINE lo == SplitStart(Pieces(job), t)
           hi == SplitEnd(Pieces(job), t)
<1>3. job \in Job /\ Pieces(job) \in Nat /\ lo \in Nat /\ hi \in Nat
      /\ lo <= hi /\ hi <= Pieces(job)
  BY <1>2, PiecesNat, SplitFacts DEF TypeOK
<1>4. ShareOf(job, calls, t) = [job |-> job, call |-> calls, i |-> lo, hi |-> hi]
  BY DEF ShareOf, Share
<1> HIDE DEF lo, hi
<1>5. /\ pc \in [Thread -> ThreadState] /\ mine \in [Thread -> Shares]
      /\ calls \in 0 .. MaxCalls
  BY <1>2 DEF TypeOK
<1>6. ShareOf(job, calls, t) \in Shares
  BY <1>3, <1>4, <1>5 DEF Shares
<1>7. /\ pc' \in [Thread -> ThreadState] /\ mine' \in [Thread -> Shares]
      /\ pc'[t] = "work" /\ \A v \in Thread \ {t} : pc'[v] = pc[v] /\ mine'[v] = mine[v]
      /\ mine'[t].job = job /\ mine'[t].call = calls /\ mine'[t].i = lo /\ mine'[t].hi = hi
  BY <1>4, <1>5, <1>6 DEF ThreadState
<1>8. ~ Inline(job) /\ ~ stop
  BY <1>2 DEF CellInv, Pooled, Inside, PhaseInv
<1>9. Pooled' /\ ~ Alone' /\ ~ Alone
  BY <1>7, <1>8 DEF Pooled, Alone, Inside
<1>10. TypeOK'
  BY <1>2, <1>3, <1>7 DEF TypeOK
<1>11. PhaseInv'
  <2>1. pc[0] \in Inside /\ \A v \in Worker : pc[v] \in Inside
    BY <1>2, <1>8 DEF PhaseInv, Pooled, Inside
  <2>2. pc'[0] \in Inside /\ \A v \in Worker : pc'[v] \in Inside
    BY <1>7, <2>1 DEF Inside
  <2>3. pc'[0] # "take"
    BY <1>2, <1>7 DEF PhaseInv
  <2>4. ~ stop' /\ pc'[0] \in {"go", "work", "done", "inDone"}
    BY <1>8, <2>2, <2>3 DEF Inside
  <2> QED
    BY <1>9, <2>2, <2>4 DEF PhaseInv
<1>12. CellInv'
  BY <1>2, <1>7, <1>8 DEF CellInv, Pooled, Inside, PhaseInv
<1>13. ShareInv'
  BY <1>2, <1>3, <1>7, <1>9 DEF ShareInv, lo, hi
<1>14. TallyInv'
  <2>1. ASSUME NEW v \in Thread,
               NEW p \in SplitStart(Pieces(job), v) .. SplitEnd(Pieces(job), v) - 1
        PROVE  Through(v, p)' <=> Through(v, p)
    <3>1. CASE v = t
      <4>1. ~ (p < lo)
        BY <1>3, <3>1 DEF lo, hi
      <4> QED
        BY <1>7, <3>1, <4>1 DEF Through
    <3>2. CASE v # t
      BY <1>7, <3>2 DEF Through
    <3> QED
      BY <3>1, <3>2
  <2>2. pc'[0] \notin {"start", "inStart", "idle", "back", "dropped"}
    BY <1>9 DEF Pooled, Inside
  <2> QED
    BY <1>2, <1>8, <1>9, <2>1, <2>2 DEF TallyInv
<1> QED
  BY <1>10, <1>11, <1>12, <1>13, <1>14 DEF IInv

\* A worker finds this call's job in the cell.
LEMMA TakeStep ==
  ASSUME IInv, NEW t \in Thread, Take(t)
  PROVE  IInv'
<1> USE ThreadFacts
<1>1. /\ pc[t] = "take"
      /\ mine' = [mine EXCEPT ![t] = ShareOf(cell.job, cell.call, t)]
      /\ pc' = [pc EXCEPT ![t] = "work"]
      /\ UNCHANGED <<cell, stop, job, calls, tally>>
  BY DEF Take, Go
<1>2. PhaseInv /\ CellInv
  BY DEF IInv
<1>3. Pooled
  BY <1>1, <1>2 DEF PhaseInv, Outside
<1>4. cell = [job |-> job, call |-> calls]
  BY <1>2, <1>3 DEF PhaseInv, CellInv, Pooled, Inside
<1>5. mine' = [mine EXCEPT ![t] = ShareOf(job, calls, t)]
  BY <1>1, <1>4
<1> QED
  BY <1>1, <1>3, <1>5, TakeShare

\* The caller uses its own argument, which is the same job.
LEMMA TakeOwnStep ==
  ASSUME IInv, TakeOwn
  PROVE  IInv'
<1> USE ThreadFacts
<1>1. /\ pc[0] = "go" /\ ~ stop
      /\ mine' = [mine EXCEPT ![0] = ShareOf(job, calls, 0)]
      /\ pc' = [pc EXCEPT ![0] = "work"]
      /\ UNCHANGED <<cell, stop, job, calls, tally>>
  BY DEF TakeOwn, Go
<1>2. Pooled
  BY <1>1 DEF Pooled, Inside
<1> QED
  BY <1>1, <1>2, TakeShare

\* A piece is written for the first time: no other thread's share has it.
LEMMA WorkStep ==
  ASSUME IInv, NEW t \in Thread, Work(t)
  PROVE  IInv'
<1> USE ThreadFacts
<1> DEFINE s == mine[t]
<1>1. /\ pc[t] = "work" /\ s.i < s.hi
      /\ tally' = [u \in DOMAIN tally |->
                     IF u \in Writes(s.job, s.i) THEN tally[u] + 1 ELSE tally[u]]
      /\ mine' = [mine EXCEPT ![t].i = s.i + 1]
      /\ UNCHANGED <<pc, cell, stop, job, calls>>
  BY DEF Work
<1>2. TypeOK /\ PhaseInv /\ CellInv /\ ShareInv /\ TallyInv
  BY DEF IInv
<1>3. /\ job \in Job /\ Pieces(job) \in Nat
      /\ mine \in [Thread -> Shares] /\ tally \in [Outputs(job) -> Nat]
      /\ s.i \in Nat /\ s.hi \in Nat
  BY <1>2, PiecesNat DEF TypeOK, Shares
<1>4. /\ mine' \in [Thread -> Shares]
      /\ mine'[t].i = s.i + 1 /\ mine'[t].job = s.job /\ mine'[t].call = s.call /\ mine'[t].hi = s.hi
      /\ \A v \in Thread \ {t} : mine'[v] = mine[v]
  BY <1>1, <1>3 DEF Shares
<1>5. tally' \in [Outputs(job) -> Nat]
  BY <1>1, <1>3
<1>6. (Pooled' <=> Pooled) /\ (Alone' <=> Alone)
  BY <1>1 DEF Pooled, Alone
<1>7. Pooled \/ (Alone /\ t = 0)
  BY <1>1, <1>2 DEF PhaseInv, Outside, Pooled, Alone, Inside
<1>8. ~ (Pooled /\ Alone)
  BY DEF Pooled, Alone
<1>9. TypeOK'
  BY <1>1, <1>2, <1>4, <1>5 DEF TypeOK
<1>10. PhaseInv' /\ CellInv'
  <2>1. PhaseInv'
    <3>1. pc' = pc /\ stop' = stop /\ job' = job
      BY <1>1
    <3> QED
      BY <1>2, <1>6, <3>1 DEF PhaseInv
  <2>2. CellInv'
    BY <1>1, <1>2 DEF CellInv
  <2> QED
    BY <2>1, <2>2
<1>11. ShareInv'
  <2>1. pc' = pc /\ job' = job /\ calls' = calls
    BY <1>1
  <2>2. ASSUME Pooled, NEW v \in Thread, pc[v] = "work"
        PROVE  /\ mine'[v].job = job
               /\ mine'[v].call = calls
               /\ mine'[v].hi = SplitEnd(Pieces(job), v)
               /\ SplitStart(Pieces(job), v) <= mine'[v].i
               /\ mine'[v].i <= mine'[v].hi
    <3>1. SplitStart(Pieces(job), v) \in Nat
      BY <1>3, SplitFacts
    <3>2. /\ mine[v].job = job /\ mine[v].call = calls
          /\ mine[v].hi = SplitEnd(Pieces(job), v)
          /\ SplitStart(Pieces(job), v) <= mine[v].i /\ mine[v].i <= mine[v].hi
      BY <1>2, <2>2 DEF ShareInv
    <3>3. CASE v = t
      BY <1>1, <1>3, <1>4, <3>1, <3>2, <3>3
    <3>4. CASE v # t
      BY <1>4, <3>2, <3>4
    <3> QED
      BY <3>3, <3>4
  <2>3. ASSUME Alone
        PROVE  mine'[0].job = job /\ mine'[0].hi = Pieces(job) /\ mine'[0].i <= mine'[0].hi
    BY <1>1, <1>2, <1>3, <1>4, <1>7, <1>8, <2>3 DEF ShareInv
  <2> QED
    BY <1>6, <2>1, <2>2, <2>3 DEF ShareInv
<1>12. TallyInv'
  <2>1. pc'[0] \notin {"start", "inStart", "idle", "back", "dropped"} /\ ~ stop'
    BY <1>1, <1>2, <1>7 DEF Pooled, Alone, Inside, PhaseInv
  <2>2. s.job = job
    BY <1>1, <1>2, <1>7 DEF ShareInv
  <2>3. ASSUME NEW p \in Nat, p < Pieces(job), NEW u \in Writes(job, p)
        PROVE  tally'[u] = IF p = s.i THEN tally[u] + 1 ELSE tally[u]
    <3>1. u \in Outputs(job)
      BY <1>3, <2>3, WritesCover
    <3>2. u \in Writes(job, s.i) => p = s.i
      BY <1>3, WritesDisjoint
    <3>3. tally'[u] = IF u \in Writes(job, s.i) THEN tally[u] + 1 ELSE tally[u]
      BY <1>1, <1>3, <2>2, <3>1
    <3> QED
      BY <2>3, <3>2, <3>3
  <2>4. ASSUME Pooled, NEW v \in Thread,
               NEW p \in SplitStart(Pieces(job), v) .. SplitEnd(Pieces(job), v) - 1,
               NEW u \in Writes(job, p)
        PROVE  tally'[u] = IF Through(v, p)' THEN 1 ELSE 0
    <3>1. p \in Nat /\ p < Pieces(job)
      BY <1>3, SplitFacts
    <3>2. tally[u] = IF Through(v, p) THEN 1 ELSE 0
      BY <1>2, <2>4 DEF TallyInv
    <3>3. SplitStart(Pieces(job), t) <= s.i /\ s.i < SplitEnd(Pieces(job), t)
      BY <1>1, <1>2, <2>4 DEF ShareInv
    <3>4. CASE v = t
      <4>1. Through(t, p) <=> p < s.i
        BY <1>1 DEF Through
      <4>2. Through(t, p)' <=> p < s.i + 1
        BY <1>1, <1>4 DEF Through
      <4> QED
        BY <1>3, <2>3, <3>1, <3>2, <3>4, <4>1, <4>2
    <3>5. CASE v # t
      <4>1. Through(v, p)' <=> Through(v, p)
        BY <1>1, <1>4, <3>5 DEF Through
      <4>2. v \in Nat /\ t \in Nat
        BY DEF Thread
      <4>3. \/ SplitEnd(Pieces(job), v) <= SplitStart(Pieces(job), t)
            \/ SplitEnd(Pieces(job), t) <= SplitStart(Pieces(job), v)
        BY <1>3, <3>5, <4>2, SplitOrdered
      <4>4. p # s.i
        <5>1. /\ SplitStart(Pieces(job), t) \in Nat /\ SplitEnd(Pieces(job), t) \in Nat
              /\ SplitStart(Pieces(job), v) \in Nat /\ SplitEnd(Pieces(job), v) \in Nat
          BY <1>3, SplitFacts
        <5> QED
          BY <1>3, <3>1, <3>3, <4>3, <5>1
      <4> QED
        BY <2>3, <3>1, <3>2, <4>1, <4>4
    <3> QED
      BY <3>4, <3>5
  <2>5. ASSUME Alone, NEW p \in 0 .. Pieces(job) - 1, NEW u \in Writes(job, p)
        PROVE  tally'[u] = IF p < mine'[0].i THEN 1 ELSE 0
    <3>1. t = 0
      BY <1>7, <1>8, <2>5
    <3>2. tally[u] = IF p < mine[0].i THEN 1 ELSE 0
      BY <1>2, <2>5 DEF TallyInv
    <3>3. p \in Nat /\ p < Pieces(job)
      BY <1>3
    <3> QED
      BY <1>3, <1>4, <2>3, <3>1, <3>2, <3>3
  <2>6. job' = job
    BY <1>1
  <2> QED
    BY <1>6, <2>1, <2>4, <2>5, <2>6 DEF TallyInv
<1> QED
  BY <1>9, <1>10, <1>11, <1>12 DEF IInv

\* A finished share; an inline call that returns has written everything.
LEMMA WorkedStep ==
  ASSUME IInv, NEW t \in Thread, Worked(t)
  PROVE  IInv'
<1> USE ThreadFacts
<1>1. /\ pc[t] = "work" /\ mine[t].i >= mine[t].hi
      /\ pc' = [pc EXCEPT ![t] = IF t = 0 /\ Inline(job) THEN "idle" ELSE "done"]
      /\ UNCHANGED <<cell, stop, mine, job, calls, tally>>
  BY DEF Worked, Go
<1>2. TypeOK /\ PhaseInv /\ CellInv /\ ShareInv /\ TallyInv
  BY DEF IInv
<1>3. /\ pc'[t] = (IF t = 0 /\ Inline(job) THEN "idle" ELSE "done")
      /\ \A v \in Thread \ {t} : pc'[v] = pc[v]
      /\ pc' \in [Thread -> ThreadState]
  BY <1>1, <1>2 DEF TypeOK, ThreadState
<1>4. /\ job \in Job /\ Pieces(job) \in Nat /\ mine \in [Thread -> Shares]
      /\ mine[t].i \in Nat /\ mine[t].hi \in Nat
  BY <1>2, PiecesNat DEF TypeOK, Shares
<1>5. TypeOK'
  BY <1>1, <1>2, <1>3 DEF TypeOK
<1>6. Pooled \/ (Alone /\ t = 0)
  BY <1>1, <1>2 DEF PhaseInv, Outside, Pooled, Alone, Inside
\* A job done inline: the call returns.
<1>7. CASE Alone /\ t = 0
  <2>1. pc'[0] = "idle" /\ ~ stop /\ \A v \in Worker : pc'[v] = pc[v]
    BY <1>1, <1>2, <1>3, <1>7 DEF Alone, PhaseInv
  <2>2. ~ Pooled /\ ~ Pooled' /\ ~ Alone'
    BY <1>7, <2>1 DEF Alone, Pooled, Inside
  <2>3. PhaseInv'
    BY <1>1, <1>2, <1>7, <2>1, <2>2 DEF PhaseInv, Alone
  <2>4. CellInv' /\ ShareInv'
    BY <2>1, <2>2 DEF CellInv, ShareInv
  <2>5. ASSUME NEW u \in Outputs(job)
        PROVE  tally[u] = 1
    <3>1. PICK p \in 0 .. Pieces(job) - 1 : u \in Writes(job, p)
      BY <1>4, WritesCover
    <3>2. p < mine[0].i
      BY <1>1, <1>2, <1>4, <1>7, <3>1 DEF ShareInv
    <3> QED
      BY <1>2, <1>7, <3>1, <3>2 DEF TallyInv
  <2>6. TallyInv'
    BY <1>1, <2>1, <2>2, <2>5 DEF TallyInv
  <2> QED
    BY <1>5, <2>3, <2>4, <2>6 DEF IInv
\* A share of a pooled call.
<1>8. CASE Pooled
  <2>1. ~ Inline(job) /\ ~ stop
    <3>1. pc[0] # "take" /\ (pc[0] \in {"go", "done", "inDone"} => ~ Inline(job))
      BY <1>2, <1>8 DEF PhaseInv, CellInv, Pooled
    <3> QED
      BY <1>8, <3>1 DEF Pooled, Inside
  <2>2. pc'[t] = "done"
    BY <1>3, <2>1
  <2>3. Pooled' /\ ~ Alone' /\ ~ Alone
    BY <1>1, <1>3, <1>8, <2>1, <2>2 DEF Pooled, Alone, Inside
  <2>4. PhaseInv'
    <3>1. \A v \in Worker : pc[v] \in Inside
      BY <1>2, <1>8 DEF PhaseInv, Pooled, Inside
    <3>2. \A v \in Worker : pc'[v] \in Inside
      BY <1>3, <2>2, <3>1 DEF Inside
    <3>3. pc'[0] \in {"go", "work", "done", "inDone"}
      BY <1>2, <1>3, <1>8, <2>2 DEF PhaseInv, Pooled, Inside
    <3> QED
      BY <1>1, <2>1, <2>3, <3>2, <3>3 DEF PhaseInv
  <2>5. CellInv'
    BY <1>1, <1>2, <1>3, <1>8, <2>1 DEF CellInv, Pooled, Inside, PhaseInv
  <2>6. ShareInv'
    BY <1>1, <1>2, <1>3, <1>8, <2>2, <2>3 DEF ShareInv
  <2>7. TallyInv'
    <3>1. ASSUME NEW v \in Thread,
                 NEW p \in SplitStart(Pieces(job), v) .. SplitEnd(Pieces(job), v) - 1
          PROVE  Through(v, p)' <=> Through(v, p)
      <4>1. CASE v = t
        <5>1. p < mine[t].i
          <6>1. mine[t].hi = SplitEnd(Pieces(job), t)
            BY <1>1, <1>2, <1>8 DEF ShareInv
          <6>2. SplitStart(Pieces(job), t) \in Nat /\ SplitEnd(Pieces(job), t) \in Nat
            BY <1>4, SplitFacts
          <6> QED
            BY <1>1, <1>4, <4>1, <6>1, <6>2
        <5> QED
          BY <1>1, <2>2, <4>1, <5>1 DEF Through
      <4>2. CASE v # t
        BY <1>1, <1>3, <4>2 DEF Through
      <4> QED
        BY <4>1, <4>2
    <3>2. pc'[0] \notin {"start", "inStart", "idle", "back", "dropped"}
      BY <2>3 DEF Pooled, Inside
    <3> QED
      BY <1>1, <1>2, <1>8, <2>1, <2>3, <3>1, <3>2 DEF TallyInv
  <2> QED
    BY <1>5, <2>4, <2>5, <2>6, <2>7 DEF IInv
<1> QED
  BY <1>6, <1>7, <1>8

\* The done barrier: when it opens every share is done, so every output is.
LEMMA WaitDoneStep ==
  ASSUME IInv, NEW t \in Thread, WaitDone(t)
  PROVE  IInv'
<1> USE ThreadFacts
<1>1. /\ pc[t] = "done"
      /\ UNCHANGED <<cell, stop, mine, job, calls, tally>>
      /\ Wait(t, "inDone", "back")
  BY DEF WaitDone
<1>2. TypeOK /\ PhaseInv /\ CellInv /\ ShareInv /\ TallyInv
  BY DEF IInv
<1>3. pc \in [Thread -> ThreadState] /\ job \in Job /\ Pieces(job) \in Nat
  BY <1>2, PiecesNat DEF TypeOK
<1>4. Pooled
  BY <1>1, <1>2 DEF PhaseInv, Outside, Pooled, Inside
<1>5. ~ Inline(job) /\ ~ stop /\ pc[0] \in {"go", "work", "done", "inDone"}
  <2>1. pc[0] # "take" /\ (pc[0] \in {"go", "done", "inDone"} => ~ Inline(job))
    BY <1>2, <1>4 DEF PhaseInv, CellInv, Pooled
  <2> QED
    BY <1>4, <2>1 DEF Pooled, Inside
<1>6. \A v \in Worker : pc[v] \in Inside
  BY <1>2, <1>4, <1>5 DEF PhaseInv
\* Not the last one: it blocks.
<1>7. CASE pc' = [pc EXCEPT ![t] = "inDone"]
  <2>1. /\ pc'[t] = "inDone" /\ \A v \in Thread \ {t} : pc'[v] = pc[v]
        /\ pc' \in [Thread -> ThreadState]
    BY <1>3, <1>7 DEF ThreadState
  <2>2. Pooled' /\ ~ Alone' /\ pc'[0] \in {"go", "work", "done", "inDone"}
    BY <1>1, <1>5, <2>1 DEF Pooled, Alone, Inside
  <2>3. TypeOK'
    BY <1>1, <1>2, <2>1 DEF TypeOK
  <2>4. PhaseInv'
    <3>1. \A v \in Worker : pc'[v] \in Inside
      BY <1>6, <2>1 DEF Inside
    <3> QED
      BY <1>1, <1>5, <2>2, <3>1 DEF PhaseInv
  <2>5. CellInv'
    BY <1>1, <1>2, <1>5, <2>2 DEF CellInv
  <2>6. ShareInv'
    BY <1>1, <1>2, <1>4, <2>1, <2>2 DEF ShareInv
  <2>7. \A v \in Thread : \A p : Through(v, p)' <=> Through(v, p)
    BY <1>1, <2>1 DEF Through
  <2>8. TallyInv'
    BY <1>1, <1>2, <1>4, <1>5, <2>2, <2>7 DEF TallyInv
  <2> QED
    BY <2>3, <2>4, <2>5, <2>6, <2>8 DEF IInv
\* The last one releases all: every share is done, hence every output.
<1>8. CASE /\ \A v \in Thread \ {t} : pc[v] = "inDone"
           /\ pc' = [v \in Thread |-> "back"]
  <2>1. \A v \in Thread : pc'[v] = "back"
    BY <1>8
  <2>2. ~ Pooled' /\ ~ Alone'
    BY <2>1 DEF Pooled, Alone, Inside
  <2>3. TypeOK'
    BY <1>1, <1>2, <1>8 DEF TypeOK, ThreadState
  <2>4. PhaseInv'
    BY <1>1, <1>5, <2>1, <2>2 DEF PhaseInv, Outside
  <2>5. CellInv'
    BY <1>1, <1>2, <1>5 DEF CellInv
  <2>6. ShareInv'
    BY <2>2 DEF ShareInv
  <2>7. ASSUME NEW u \in Outputs(job)
        PROVE  tally[u] = 1
    <3>1. PICK p \in 0 .. Pieces(job) - 1 : u \in Writes(job, p)
      BY <1>3, WritesCover
    <3>2. PICK v \in Thread : SplitStart(Pieces(job), v) <= p /\ p < SplitEnd(Pieces(job), v)
      BY <1>3, <3>1, SplitCovers
    <3>3. p \in SplitStart(Pieces(job), v) .. SplitEnd(Pieces(job), v) - 1
      BY <1>3, <3>1, <3>2, SplitFacts
    <3>4. Through(v, p)
      BY <1>1, <1>8 DEF Through
    <3> QED
      BY <1>2, <1>4, <3>1, <3>3, <3>4 DEF TallyInv
  <2>8. TallyInv'
    BY <1>1, <2>1, <2>2, <2>7 DEF TallyInv
  <2> QED
    BY <2>3, <2>4, <2>5, <2>6, <2>8 DEF IInv
<1> QED
  BY <1>1, <1>7, <1>8 DEF Wait, Go

\* After the done barrier threads part; nothing else changes.
LEMMA BackStep ==
  ASSUME IInv, NEW t \in Thread, Back(t)
  PROVE  IInv'
<1> USE ThreadFacts
<1>1. /\ pc[t] = "back"
      /\ pc' = [pc EXCEPT ![t] = IF t = 0 THEN "idle" ELSE "start"]
      /\ UNCHANGED <<cell, stop, mine, job, calls, tally>>
  BY DEF Back, Go
<1>2. TypeOK /\ PhaseInv /\ CellInv /\ ShareInv /\ TallyInv
  BY DEF IInv
<1>3. /\ pc'[t] = (IF t = 0 THEN "idle" ELSE "start")
      /\ \A v \in Thread \ {t} : pc'[v] = pc[v]
      /\ pc' \in [Thread -> ThreadState]
  BY <1>1, <1>2 DEF TypeOK, ThreadState
<1>4. ~ Pooled /\ ~ Pooled' /\ (Alone' <=> Alone)
      /\ pc[0] \notin {"dropped", "join"} /\ ~ (stop /\ pc[0] = "go")
  BY <1>1, <1>2, <1>3 DEF PhaseInv, Pooled, Alone, Inside
<1>5. TypeOK'
  BY <1>1, <1>2, <1>3 DEF TypeOK
<1>6. PhaseInv'
  <2>1. \A v \in Worker : pc[v] \in Outside
    BY <1>2, <1>4 DEF PhaseInv
  <2>2. \A v \in Worker : pc'[v] \in Outside
    BY <1>3, <2>1 DEF Outside
  <2>3. pc'[0] \in {"idle", "start", "inStart", "back", "work"} \/ pc'[0] = pc[0]
    BY <1>3
  <2> QED
    BY <1>1, <1>2, <1>3, <1>4, <2>2, <2>3 DEF PhaseInv
<1>7. CellInv'
  BY <1>1, <1>2, <1>3 DEF CellInv
<1>8. ShareInv'
  BY <1>1, <1>2, <1>4 DEF ShareInv
<1>9. TallyInv'
  BY <1>1, <1>2, <1>3, <1>4 DEF TallyInv
<1> QED
  BY <1>5, <1>6, <1>7, <1>8, <1>9 DEF IInv

\* drop finds the workers before the start barrier.
LEMMA DropStep ==
  ASSUME IInv, Drop
  PROVE  IInv'
<1> USE ThreadFacts
<1>1. /\ pc[0] = "idle" /\ stop' = (NT > 1)
      /\ pc' = [pc EXCEPT ![0] = IF NT > 1 THEN "start" ELSE "dropped"]
      /\ UNCHANGED <<cell, mine, job, calls, tally>>
  BY DEF Drop, Go
<1>2. TypeOK /\ PhaseInv /\ CellInv /\ ShareInv /\ TallyInv
  BY DEF IInv
<1>3. /\ pc'[0] = (IF NT > 1 THEN "start" ELSE "dropped")
      /\ \A v \in Worker : pc'[v] = pc[v]
      /\ pc' \in [Thread -> ThreadState]
  BY <1>1, <1>2 DEF TypeOK, ThreadState
<1>4. ~ Pooled /\ ~ Pooled' /\ ~ Alone /\ ~ Alone'
  BY <1>1, <1>3 DEF Pooled, Alone, Inside
<1>5. TypeOK'
  BY <1>1, <1>2, <1>3 DEF TypeOK
<1>6. PhaseInv'
  BY <1>1, <1>2, <1>3, <1>4 DEF PhaseInv
<1>7. CellInv'
  BY <1>1, <1>3 DEF CellInv
<1>8. ShareInv'
  BY <1>4 DEF ShareInv
<1>9. TallyInv'
  BY <1>1, <1>2, <1>3, <1>4 DEF TallyInv
<1> QED
  BY <1>5, <1>6, <1>7, <1>8, <1>9 DEF IInv

\* GoJoin and Join: the caller alone moves, on its way out.
LEMMA LeaveStep ==
  ASSUME IInv, GoJoin \/ Join
  PROVE  IInv'
<1> USE ThreadFacts
<1>1. PICK to \in {"join", "dropped"} :
        /\ pc' = [pc EXCEPT ![0] = to]
        /\ pc[0] \in {"go", "join"}
        /\ pc[0] = "go" => stop /\ to = "join"
        /\ pc[0] = "join" => to = "dropped" /\ \A v \in Worker : pc[v] = "exited"
        /\ UNCHANGED <<cell, stop, mine, job, calls, tally>>
  BY DEF GoJoin, Join, Go
<1>2. TypeOK /\ PhaseInv /\ CellInv /\ ShareInv /\ TallyInv
  BY DEF IInv
<1>3. /\ pc'[0] = to /\ \A v \in Worker : pc'[v] = pc[v]
      /\ pc' \in [Thread -> ThreadState] /\ stop
  BY <1>1, <1>2 DEF TypeOK, PhaseInv, ThreadState
<1>4. ~ Pooled' /\ ~ Alone'
  BY <1>3 DEF Pooled, Alone, Inside
<1>5. TypeOK'
  BY <1>1, <1>2, <1>3 DEF TypeOK
<1>6. PhaseInv'
  BY <1>1, <1>2, <1>3, <1>4 DEF PhaseInv
<1>7. CellInv' /\ ShareInv'
  BY <1>1, <1>3, <1>4 DEF CellInv, ShareInv
<1>8. TallyInv'
  BY <1>1, <1>2, <1>3, <1>4 DEF TallyInv
<1> QED
  BY <1>5, <1>6, <1>7, <1>8 DEF IInv

\* Every step preserves the invariant.
LEMMA NextIInv == IInv /\ [Next]_vars => IInv'
<1> SUFFICES ASSUME IInv, [Next]_vars PROVE IInv'
  OBVIOUS
<1>1. CASE \E j \in Job : CallInline(j)
  BY <1>1, CallInlineStep
<1>2. CASE \E j \in Job : CallPooled(j)
  BY <1>2, CallPooledStep
<1>3. CASE Drop
  BY <1>3, DropStep
<1>4. ASSUME NEW t \in Thread, Step(t)
      PROVE  IInv'
  BY <1>4, WaitStartStep, CheckStopStep, TakeStep, WorkStep, WorkedStep,
     WaitDoneStep, BackStep, TakeOwnStep, LeaveStep DEF Step
<1>5. CASE UNCHANGED vars
  BY <1>5 DEF vars, IInv, TypeOK, PhaseInv, CellInv, ShareInv, TallyInv, Pooled, Alone, Through
<1> QED
  BY <1>1, <1>2, <1>3, <1>4, <1>5 DEF Next

-----------------------------------------------------------------------------
(* The theorems.                                                           *)

\* What relates the threads of a pool holds in every reachable state.
THEOREM PoolInvariance == Spec => []IInv
<1>1. Init => IInv
  BY InitIInv
<1>2. IInv /\ [Next]_vars => IInv'
  BY NextIInv
<1> QED
  BY <1>1, <1>2, PTL DEF Spec

\* Types, and no thread is handed a piece beyond the job (split_n).
THEOREM PoolTypeCorrect == Spec => []TypeOK
<1>1. IInv => TypeOK
  BY DEF IInv
<1> QED
  BY <1>1, PoolInvariance, PTL

\* A worker uses a job's pointers only while the caller is inside the call they
\* belong to, and the cell is never written while it may be read
\* (pool.rs:86-88, the safety argument of the `unsafe impl`s).
THEOREM PointersStayLive == Spec => []WithinCall
<1>1. IInv => WithinCall
  <2> SUFFICES ASSUME IInv, NEW t \in Worker
               PROVE /\ pc[t] \in Running => /\ pc[0] \in {"go", "work", "done", "inDone"}
                                            /\ ~ stop /\ ~ Inline(job)
                     /\ pc[t] = "take" => cell = [job |-> job, call |-> calls]
                     /\ pc[t] = "work" => mine[t].job = job /\ mine[t].call = calls
    BY DEF WithinCall
  <2>1. PhaseInv /\ CellInv /\ ShareInv /\ t \in Thread
    BY ThreadFacts DEF IInv
  <2>2. ASSUME pc[t] \in Running
        PROVE  Pooled /\ pc[0] \in {"go", "work", "done", "inDone"} /\ ~ stop /\ ~ Inline(job)
    <3>1. Pooled
      BY <2>1, <2>2 DEF PhaseInv, Running, Outside
    <3> QED
      BY <2>1, <3>1 DEF PhaseInv, CellInv, Pooled, Inside
  <2>3. pc[t] = "take" => cell = [job |-> job, call |-> calls]
    BY <2>1, <2>2 DEF CellInv, Running
  <2>4. pc[t] = "work" => mine[t].job = job /\ mine[t].call = calls
    BY <2>1, <2>2 DEF ShareInv, Running
  <2> QED
    BY <2>2, <2>3, <2>4
<1> QED
  BY <1>1, PoolInvariance, PTL

\* Between calls every worker is on its way to the start barrier, and after drop
\* every worker has exited.
THEOREM WorkersAccountedFor == Spec => []NobodyLeftBehind
<1>1. IInv => NobodyLeftBehind
  BY DEF IInv, PhaseInv, Pooled, Inside, Outside, NobodyLeftBehind
<1> QED
  BY <1>1, PoolInvariance, PTL

\* The pool implements ParallelFor: every output of a call's job is written
\* exactly once, all before the call returns and none after, for any number of
\* threads and any jobs.
THEOREM PoolIsParallelFor == Spec => ImplementsParallelFor
<1>1. Init => Promise!Init
  BY ThreadFacts DEF Init, Promise!Init, Phase
<1>2. IInv /\ IInv' /\ [Next]_vars => [Promise!Next]_(Promise!vars)
  <2> SUFFICES ASSUME IInv, IInv', [Next]_vars
               PROVE  [Promise!Next]_(Promise!vars)
    OBVIOUS
  <2> USE ThreadFacts DEF Promise!vars
  <2>1. TypeOK /\ PhaseInv /\ TallyInv /\ pc \in [Thread -> ThreadState]
        /\ TypeOK' /\ TallyInv' /\ ShareInv'
    BY DEF IInv, TypeOK
  <2>2. ASSUME NEW j \in Job, CallInline(j) \/ CallPooled(j)
        PROVE  Promise!Begin(j)
    <3>1. /\ pc[0] = "idle" /\ stop' = stop /\ job' = j
          /\ tally' = [u \in Outputs(j) |-> 0]
          /\ pc' \in {[pc EXCEPT ![0] = "work"], [pc EXCEPT ![0] = "start"]}
      BY <2>2 DEF CallInline, CallPooled, Begin, Go
    <3>2. ~ stop /\ pc'[0] \in {"work", "start"}
      BY <2>1, <3>1 DEF PhaseInv
    <3>3. Phase = "idle" /\ Phase' = "busy"
      BY <3>1, <3>2 DEF Phase
    <3> QED
      BY <3>1, <3>3 DEF Promise!Begin
  <2>3. ASSUME Drop
        PROVE  Promise!Drop
    <3>1. /\ pc[0] = "idle" /\ stop' = (NT > 1) /\ job' = job /\ tally' = tally
          /\ pc'[0] = IF NT > 1 THEN "start" ELSE "dropped"
      BY <2>1, <2>3 DEF Drop, Go
    <3>2. ~ stop
      BY <2>1, <3>1 DEF PhaseInv
    <3>3. Phase = "idle" /\ Phase' = "dropped"
      BY <3>1, <3>2 DEF Phase
    <3> QED
      BY <3>1, <3>3 DEF Promise!Drop
  <2>4. ASSUME NEW t \in Thread, Work(t)
        PROVE  Promise!Write
    <3>1. /\ pc' = pc /\ stop' = stop /\ job' = job /\ pc[t] = "work"
          /\ tally' = [u \in DOMAIN tally |->
               IF u \in Writes(mine[t].job, mine[t].i) THEN tally[u] + 1 ELSE tally[u]]
      BY <2>4 DEF Work
    <3>2. Pooled \/ Alone
      BY <2>1, <3>1 DEF PhaseInv, Outside, Pooled, Alone, Inside
    <3>3. ~ stop /\ pc[0] \notin {"idle", "dropped"}
      BY <2>1, <3>2 DEF Pooled, Alone, Inside, PhaseInv
    <3>4. Phase = "busy" /\ Phase' = "busy"
      BY <3>1, <3>3 DEF Phase
    <3>5. tally \in [Outputs(job) -> Nat] /\ job \in Job /\ Pieces(job) \in Nat
      BY <2>1, PiecesNat DEF TypeOK
    <3>6. ASSUME NEW u \in Outputs(job)
          PROVE  tally'[u] \in {0, 1} /\ tally[u] <= tally'[u]
      <4>1. tally[u] \in Nat /\ tally'[u] \in {tally[u], tally[u] + 1}
        BY <3>1, <3>5
      <4>2. PICK p \in 0 .. Pieces(job) - 1 : u \in Writes(job, p)
        BY <3>5, WritesCover
      <4>3. CASE Alone
        <5>1. Alone'
          BY <3>1, <4>3 DEF Alone
        <5>2. tally'[u] \in {0, 1}
          BY <2>1, <3>1, <4>2, <5>1 DEF TallyInv
        <5> QED
          BY <4>1, <5>2
      <4>4. CASE Pooled
        <5>1. Pooled'
          BY <3>1, <4>4 DEF Pooled
        <5>2. PICK v \in Thread : SplitStart(Pieces(job), v) <= p /\ p < SplitEnd(Pieces(job), v)
          BY <3>5, <4>2, SplitCovers
        <5>3. p \in SplitStart(Pieces(job), v) .. SplitEnd(Pieces(job), v) - 1
          BY <3>5, <4>2, <5>2, SplitFacts
        <5>4. tally'[u] \in {0, 1}
          BY <2>1, <3>1, <4>2, <5>1, <5>3 DEF TallyInv
        <5> QED
          BY <4>1, <5>4
      <4> QED
        BY <3>2, <4>3, <4>4
    <3>7. tally' \in [Outputs(job) -> {0, 1}]
      <4>1. tally' \in [Outputs(job) -> Nat]
        BY <2>1, <3>1 DEF TypeOK
      <4> QED
        BY <3>6, <4>1
    <3> QED
      BY <3>1, <3>4, <3>6, <3>7 DEF Promise!Write
  \* The other steps return a call or are invisible.
  <2>5. ASSUME NEW t \in Thread,
               \/ WaitStart(t) \/ CheckStop(t) \/ Take(t) \/ Worked(t) \/ WaitDone(t)
               \/ Back(t) \/ (t = 0 /\ (TakeOwn \/ GoJoin \/ Join))
        PROVE  [Promise!Next]_(Promise!vars)
    <3>1. stop' = stop /\ job' = job /\ tally' = tally
      BY <2>5 DEF WaitStart, CheckStop, Take, Worked, WaitDone, Back, TakeOwn, GoJoin, Join
    <3>2. pc[0] \notin {"idle", "dropped"} \/ pc'[0] = pc[0]
      BY <2>1, <2>5 DEF WaitStart, CheckStop, Take, Worked, WaitDone, Back, TakeOwn, GoJoin, Join, Wait, Go
    <3>3. CASE Phase' = Phase
      BY <3>1, <3>3
    <3>4. CASE Phase' # Phase
      <4>1. Phase = "busy" /\ Phase' = "idle"
        <5>1. pc'[0] = "dropped" => pc[0] \in {"join", "dropped"}
          BY <2>1, <2>5 DEF WaitStart, CheckStop, Take, Worked, WaitDone, Back, TakeOwn, GoJoin, Join, Wait, Go
        <5>2. ~ stop /\ pc[0] # "dropped"
          BY <2>1, <3>1, <3>2, <3>4, <5>1 DEF Phase, PhaseInv
        <5>3. pc[0] # "join" /\ pc'[0] # "dropped"
          BY <2>1, <5>1, <5>2 DEF PhaseInv
        <5>4. pc[0] # "idle"
          BY <3>1, <3>2, <3>4, <5>2, <5>3 DEF Phase
        <5> QED
          BY <3>1, <3>4, <5>2, <5>3, <5>4 DEF Phase
      <4>2. pc'[0] = "idle"
        BY <4>1 DEF Phase
      <4>3. \A u \in Outputs(job) : tally[u] = 1
        BY <2>1, <3>1, <4>2 DEF TallyInv
      <4>4. Promise!End
        BY <3>1, <4>1, <4>3 DEF Promise!End
      <4> QED
        BY <4>4 DEF Promise!Next
    <3> QED
      BY <3>3, <3>4
  <2>6. CASE UNCHANGED vars
    BY <2>6 DEF vars, Phase
  <2>7. CASE \E j \in Job : CallInline(j) \/ CallPooled(j)
    <3>1. \E j \in Job : Promise!Begin(j)
      BY <2>2, <2>7
    <3> QED
      BY <3>1 DEF Promise!Next
  <2>8. CASE Drop
    BY <2>3, <2>8 DEF Promise!Next
  <2>9. ASSUME NEW t \in Thread, Step(t)
        PROVE  [Promise!Next]_(Promise!vars)
    <3>1. CASE Work(t)
      BY <2>4, <3>1 DEF Promise!Next
    <3>2. CASE \/ WaitStart(t) \/ CheckStop(t) \/ Take(t) \/ Worked(t) \/ WaitDone(t)
               \/ Back(t) \/ (t = 0 /\ (TakeOwn \/ GoJoin \/ Join))
      BY <2>5, <3>2
    <3> QED
      BY <2>9, <3>1, <3>2 DEF Step
  <2> QED
    BY <2>6, <2>7, <2>8, <2>9 DEF Next
<1> QED
  BY <1>1, <1>2, PoolInvariance, PTL DEF Spec, Promise!Spec, ImplementsParallelFor
=============================================================================
