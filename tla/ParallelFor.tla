---------------------------- MODULE ParallelFor ----------------------------
(***************************************************************************)
(* What a worker pool promises its caller: a call writes every output of   *)
(* its job exactly once, all of them before it returns and none of them    *)
(* after.  No threads, barriers or cells: `Pool` implements this.          *)
(***************************************************************************)
EXTENDS Naturals

CONSTANTS Job,          \* the jobs a caller may hand over
          Outputs(_)    \* the outputs of a job

VARIABLES phase,        \* "idle", "busy" (inside a call) or "dropped"
          job,          \* the job of the current or the last call
          tally         \* how often each output of that job was written

vars == <<phase, job, tally>>

Init == phase = "idle" /\ job \in Job /\ tally = [u \in Outputs(job) |-> 1]

Begin(j) == /\ phase = "idle"
            /\ phase' = "busy"
            /\ job' = j
            /\ tally' = [u \in Outputs(j) |-> 0]

\* Some outputs not written yet are written.
Write == /\ phase = "busy"
         /\ tally' \in [Outputs(job) -> {0, 1}]
         /\ \A u \in Outputs(job) : tally[u] <= tally'[u]
         /\ UNCHANGED <<phase, job>>

End == /\ phase = "busy"
       /\ \A u \in Outputs(job) : tally[u] = 1
       /\ phase' = "idle"
       /\ UNCHANGED <<job, tally>>

Drop == phase = "idle" /\ phase' = "dropped" /\ UNCHANGED <<job, tally>>

Next == (\E j \in Job : Begin(j)) \/ Write \/ End \/ Drop

Spec == Init /\ [][Next]_vars
=============================================================================
