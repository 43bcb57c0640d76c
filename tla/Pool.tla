-------------------------------- MODULE Pool --------------------------------
(***************************************************************************)
(* The worker pool of `fgm-core/src/pool.rs`.  Thread 0 is the caller,     *)
(* threads 1..NT-1 are the workers spawned by `Pool::new`.  A call writes  *)
(* the job cell, meets the workers at the barrier `start`, does its own    *)
(* share, and meets them again at the barrier `done`.  Every thread's step *)
(* is an action of its own, so threads interleave everywhere.              *)
(*                                                                         *)
(* Only one thread calls: `Pool` holds an UnsafeCell and is not Sync.      *)
(* What a kernel computes is left out; which outputs each thread writes,   *)
(* and when, is kept.  A job is [kind, m, n]: m rows, and n output columns *)
(* ("gemm") or heads ("heads", and "rows" for the head-batched path).      *)
(***************************************************************************)
EXTENDS Integers

CONSTANTS NT,           \* threads, the caller included (FGM_THREADS)
          Job,          \* the jobs of the instance
          MaxCalls      \* bound on the calls a behaviour makes

Kinds == {"gemm", "prep", "heads", "rows"}

\* Every N of the model is a multiple of 64 (amx_gemm.c:23), and the kernels
\* take whole groups of four 16-column blocks (fgm-kernels/src/lib.rs:177).
ASSUME PoolAssumption ==
  /\ NT \in Nat \ {0}
  /\ MaxCalls \in Nat
  /\ Job # {}
  /\ Job \subseteq [kind : Kinds, m : Nat \ {0}, n : Nat \ {0}]
  /\ \A j \in Job : j.kind = "gemm" => j.n % 64 = 0

Thread == 0 .. NT - 1
Worker == 1 .. NT - 1

-----------------------------------------------------------------------------
(* How a job is cut up.                                                    *)

Smaller(a, b) == IF a <= b THEN a ELSE b

\* Mutant: the spare pieces are not counted in where a share starts.
FaultSplitStart(total, t) == t * (total \div NT)

\* split_n: the first total % NT threads take one piece more.
SplitStart(total, t) == t * (total \div NT) + Smaller(t, total % NT)
\* Mutant: the share of a thread ends as if it had one of the spare pieces.
FaultSplitEnd(total, t) == SplitStart(total, t) + total \div NT + 1
SplitEnd(total, t) ==
  SplitStart(total, t) + total \div NT + (IF t < total % NT THEN 1 ELSE 0)

\* The pieces split_n is applied to: groups of four 16-column blocks, blocks
\* of 16 rows, rows, or (row, head) pairs.
Pieces(j) == CASE j.kind = "gemm" -> (j.n \div 16) \div 4
               [] j.kind = "prep" -> (j.m + 15) \div 16
               [] j.kind = "rows" -> j.m
               [] OTHER           -> j.m * j.n

\* What piece i writes: 16-column blocks, rows (the last block is cut at m),
\* all heads of a row, or one (row, head) pair.
Writes(j, i) == CASE j.kind = "gemm" -> 4 * i .. 4 * i + 3
                  [] j.kind = "prep" -> 16 * i .. Smaller(16 * i + 16, j.m) - 1
                  [] j.kind = "rows" -> i * j.n .. i * j.n + j.n - 1
                  [] OTHER           -> {i}

\* All that the job must write.
Outputs(j) == CASE j.kind = "gemm" -> 0 .. (j.n \div 16) - 1
                [] j.kind = "prep" -> 0 .. j.m - 1
                [] OTHER           -> 0 .. j.m * j.n - 1

\* Jobs the caller does alone: all without workers, and a prep too small to
\* be worth two barriers.
Inline(j) == NT = 1 \/ (j.kind = "prep" /\ Pieces(j) < NT * 2)

\* A thread's share of a job: piece `i` is next, `hi` ends it.  `call` says
\* which call's job it is (it is no variable of the program: a thread that
\* used a job of another call would use dangling pointers).
Share(j, c, lo, hi) == [job |-> j, call |-> c, i |-> lo, hi |-> hi]
ShareOf(j, c, t) ==
  Share(j, c, SplitStart(Pieces(j), t), SplitEnd(Pieces(j), t))
-----------------------------------------------------------------------------
VARIABLES pc,           \* where each thread is
          cell,         \* Inner::job, with the number of the call
          stop,         \* Inner::stop
          mine,         \* each thread's share, in its own locals
          job,          \* the caller's argument
          calls,        \* how many calls were made
          tally         \* how often each output of `job` was written

vars == <<pc, cell, stop, mine, job, calls, tally>>

NoJob == [call |-> 0]

\* Workers start out before the start barrier; the caller owns a fresh pool.
Init == /\ pc = [t \in Thread |-> IF t = 0 THEN "idle" ELSE "start"]
        /\ cell = NoJob
        /\ stop = FALSE
        /\ job \in Job
        /\ mine = [t \in Thread |-> Share(job, 0, 0, 0)]
        /\ calls = 0
        /\ tally = [u \in Outputs(job) |-> 1]

Go(t, where) == pc' = [pc EXCEPT ![t] = where]

\* Barrier::wait: a thread blocks in `inside` until all are there; the last
\* one releases everybody to `out`.
Wait(t, inside, out) ==
  IF \A u \in Thread \ {t} : pc[u] = inside
    THEN pc' = [u \in Thread |-> out]
    ELSE Go(t, inside)

Begin(j) == /\ pc[0] = "idle"
            /\ calls < MaxCalls
            /\ calls' = calls + 1
            /\ job' = j
            /\ tally' = [u \in Outputs(j) |-> 0]
            /\ UNCHANGED stop

\* gemm, prep, attn: the early return that does everything on the caller.
CallInline(j) == /\ Inline(j)
                 /\ Begin(j)
                 /\ mine' = [mine EXCEPT ![0] = Share(j, calls', 0, Pieces(j))]
                 /\ Go(0, "work")
                 /\ UNCHANGED cell

\* gemm, prep, attn: publish the job, then go to the start barrier.
CallPooled(j) == /\ ~ Inline(j)
                 /\ Begin(j)
                 /\ cell' = [job |-> j, call |-> calls']
                 /\ Go(0, "start")
                 /\ UNCHANGED mine

\* start.wait(), by any thread, for a job or for the end.
WaitStart(t) == /\ pc[t] = "start"
                /\ Wait(t, "inStart", "go")
                /\ UNCHANGED <<cell, stop, mine, job, calls, tally>>

\* A released worker looks at the stop flag.
CheckStop(t) == /\ t # 0
                /\ pc[t] = "go"
                /\ Go(t, IF stop THEN "exited" ELSE "take")
                /\ UNCHANGED <<cell, stop, mine, job, calls, tally>>

\* Mutant: a worker with nothing to do leaves its loop, not its job.
FaultTake(t) == /\ pc[t] = "take"
                /\ mine' = [mine EXCEPT ![t] = ShareOf(cell.job, cell.call, t)]
                /\ Go(t, IF mine'[t].i < mine'[t].hi THEN "work" ELSE "exited")
                /\ UNCHANGED <<cell, stop, job, calls, tally>>

\* It copies the job out of the cell and takes its share.
Take(t) == /\ pc[t] = "take"
           /\ mine' = [mine EXCEPT ![t] = ShareOf(cell.job, cell.call, t)]
           /\ Go(t, "work")
           /\ UNCHANGED <<cell, stop, job, calls, tally>>

\* The released caller takes its share of its own argument.
TakeOwn == /\ pc[0] = "go"
           /\ ~ stop
           /\ mine' = [mine EXCEPT ![0] = ShareOf(job, calls, 0)]
           /\ Go(0, "work")
           /\ UNCHANGED <<cell, stop, job, calls, tally>>

\* One piece: run_gemm, run_attn, run_attn_rows, run_prep.
Work(t) ==
  LET s == mine[t]
  IN  /\ pc[t] = "work"
      /\ s.i < s.hi
      /\ tally' = [u \in DOMAIN tally |->
                     IF u \in Writes(s.job, s.i) THEN tally[u] + 1 ELSE tally[u]]
      /\ mine' = [mine EXCEPT ![t].i = s.i + 1]
      /\ UNCHANGED <<pc, cell, stop, job, calls>>

\* Mutant: the caller returns without waiting for the workers.
FaultWorked(t) == /\ pc[t] = "work"
                  /\ mine[t].i >= mine[t].hi
                  /\ Go(t, IF t = 0 THEN "idle" ELSE "done")
                  /\ UNCHANGED <<cell, stop, mine, job, calls, tally>>

\* The share is done; an inline call returns at once.
Worked(t) == /\ pc[t] = "work"
             /\ mine[t].i >= mine[t].hi
             /\ Go(t, IF t = 0 /\ Inline(job) THEN "idle" ELSE "done")
             /\ UNCHANGED <<cell, stop, mine, job, calls, tally>>

\* done.wait().
WaitDone(t) == /\ pc[t] = "done"
               /\ Wait(t, "inDone", "back")
               /\ UNCHANGED <<cell, stop, mine, job, calls, tally>>

\* Past the done barrier: the call returns, a worker begins its loop again.
Back(t) == /\ pc[t] = "back"
           /\ Go(t, IF t = 0 THEN "idle" ELSE "start")
           /\ UNCHANGED <<cell, stop, mine, job, calls, tally>>

\* Mutant: drop joins workers that are still parked at the start barrier.
FaultDrop == /\ pc[0] = "idle"
             /\ stop' = (NT > 1)
             /\ Go(0, IF NT > 1 THEN "join" ELSE "dropped")
             /\ UNCHANGED <<cell, mine, job, calls, tally>>

\* drop: set the flag, release the workers, join them.
Drop == /\ pc[0] = "idle"
        /\ stop' = (NT > 1)
        /\ Go(0, IF NT > 1 THEN "start" ELSE "dropped")
        /\ UNCHANGED <<cell, mine, job, calls, tally>>

GoJoin == /\ pc[0] = "go"
          /\ stop
          /\ Go(0, "join")
          /\ UNCHANGED <<cell, stop, mine, job, calls, tally>>

\* Mutant: drop does not join.
FaultJoin == /\ pc[0] = "join"
             /\ Go(0, "dropped")
             /\ UNCHANGED <<cell, stop, mine, job, calls, tally>>

Join == /\ pc[0] = "join"
        /\ \A t \in Worker : pc[t] = "exited"
        /\ Go(0, "dropped")
        /\ UNCHANGED <<cell, stop, mine, job, calls, tally>>

\* What a thread does of its own accord once it is running.
Step(t) == \/ WaitStart(t) \/ CheckStop(t) \/ Take(t)
           \/ Work(t) \/ Worked(t) \/ WaitDone(t) \/ Back(t)
           \/ t = 0 /\ (TakeOwn \/ GoJoin \/ Join)

Next == \/ \E j \in Job : CallInline(j) \/ CallPooled(j)
        \/ Drop
        \/ \E t \in Thread : Step(t)

Spec == Init /\ [][Next]_vars

\* The system schedules every thread; nobody owes a call or a drop.
FairSpec == Spec /\ \A t \in Thread : WF_vars(Step(t))
-----------------------------------------------------------------------------
(* What must be true.                                                      *)

ThreadState == {"idle", "start", "inStart", "go", "take", "work", "done",
                "inDone", "back", "exited", "join", "dropped"}

Shares == [job : Job, call : 0 .. MaxCalls, i : Nat, hi : Nat]

\* The type invariant, with one bound: a share ends where the job ends, so no
\* thread of the pool is handed a piece that does not exist.
TypeOK == /\ pc \in [Thread -> ThreadState]
          /\ cell \in {NoJob} \cup [job : Job, call : 1 .. MaxCalls]
          /\ stop \in BOOLEAN
          /\ mine \in [Thread -> Shares]
          /\ \A t \in Thread : mine[t].hi <= Pieces(mine[t].job)
          /\ job \in Job
          /\ calls \in 0 .. MaxCalls
          /\ tally \in [Outputs(job) -> Nat]

Running == {"take", "work", "done", "inDone"}

\* The comment at pool.rs:86-88: the job's pointers live only as long as the
\* caller is inside the call.  A worker that is past the stop flag, and so will
\* read the cell or is using what it read, does so while the caller is inside a
\* pooled call, and has read the job of that call and no earlier or later one.
\* The cell is written by a caller outside a call: nobody reads it meanwhile.
WithinCall ==
  \A t \in Worker :
    /\ pc[t] \in Running => /\ pc[0] \in {"go", "work", "done", "inDone"}
                           /\ ~ stop /\ ~ Inline(job)
    /\ pc[t] = "take" => cell = [job |-> job, call |-> calls]
    /\ pc[t] = "work" => mine[t].job = job /\ mine[t].call = calls

\* No thread is left behind: when the caller is outside a call with the pool
\* intact, every worker is on its way to the start barrier or waits there, and
\* when drop returns every worker has exited (none runs on a freed pool).
NobodyLeftBehind ==
  /\ pc[0] = "idle" => \A t \in Worker : pc[t] \in {"back", "start", "inStart"}
  /\ pc[0] = "dropped" => \A t \in Worker : pc[t] = "exited"

\* The pool is a parallel for: each call writes each output of its job exactly
\* once, all before it returns and none after; a dropped pool does nothing more.
Phase == IF stop \/ pc[0] = "dropped" THEN "dropped"
         ELSE IF pc[0] = "idle" THEN "idle" ELSE "busy"

Promise == INSTANCE ParallelFor WITH phase <- Phase

ImplementsParallelFor == Promise!Spec

\* Every call returns: with the barriers as they are no thread waits for one
\* that will not come, although workers with an empty share take part too.
CallReturns == \A c \in 1 .. MaxCalls : (calls = c) ~> (pc[0] = "idle" \/ stop)

\* Dropping the pool ends, and ends every worker.
DropEnds == stop ~> (pc[0] = "dropped" /\ \A t \in Worker : pc[t] = "exited")
=============================================================================
