------------------------------- MODULE MCPool -------------------------------
(***************************************************************************)
(* An instance of `Pool`: one job of each kind whose pieces do not divide  *)
(* evenly among three threads, and one of each that leaves threads idle or *)
(* is done inline.                                                         *)
(***************************************************************************)
EXTENDS Pool

AJob(kind, m, n) == [kind |-> kind, m |-> m, n |-> n]

MCJob == {AJob("gemm", 1, 320),     \* five groups of four blocks
          AJob("gemm", 1, 64),      \* one group: two threads idle
          AJob("prep", 100, 64),    \* seven blocks, the last of four rows
          AJob("prep", 80, 64),     \* five blocks: inline with three threads
          AJob("rows", 4, 2),       \* four rows of two heads
          AJob("heads", 1, 2)}      \* a decode step: one thread idle
=============================================================================
