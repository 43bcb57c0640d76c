-------------------------------- MODULE Mask --------------------------------
(***************************************************************************)
(* A compiled constraint at work (crates/fgm-core/src/grammar.rs,          *)
(* Constraint): which tokens a state of the automaton admits, where they   *)
(* lead, and the run of tokens the automaton forces.                       *)
(*                                                                         *)
(* A constraint is [next, accept]: next[s][t] is the state after token t   *)
(* in state s, None where t is masked; accept[s] tells the final states.   *)
(* The bitset of the code is the set of t whose next state is not None:    *)
(* compile sets the two together.                                          *)
(***************************************************************************)
EXTENDS Integers, Sequences, FiniteSets

CONSTANT Token     \* the vocabulary, 0 included

None == 0          \* no state: states are numbered from 1
Start == 1         \* where reset puts the constraint

Allowed(c, s) == {t \in Token : c.next[s][t] # None}
Accepting(c, s) == c.accept[s]

\* advance(t): a masked token leaves the state as it is.
Advance(c, s, t) == IF c.next[s][t] = None THEN s ELSE c.next[s][t]

\* forced_at: the only token admitted, as a set that is empty when there is a
\* choice or nothing to choose.
Forced(c, s) == IF Cardinality(Allowed(c, s)) = 1 THEN Allowed(c, s) ELSE {}

\* A constraint: edges to states of its own, no way out of an accepting state, and
\* no token of ends that is the only choice.
IsConstraint(c, ends) ==
  /\ Start \in DOMAIN c.next
  /\ \A s \in DOMAIN c.next :
       /\ c.accept[s] \in BOOLEAN
       /\ \A t \in Token : c.next[s][t] \in (DOMAIN c.next) \cup {None}
       /\ Accepting(c, s) => Allowed(c, s) = {}
       /\ Forced(c, s) \cap ends = {}

\* Fault: a run that goes on through an accepting state and through choices.
FaultForcedRun(c, s, max) ==
  LET run[n \in 0 .. max] ==
        IF n = 0 THEN [toks |-> <<>>, at |-> s]
        ELSE LET was == run[n - 1]  t == CHOOSE u \in Allowed(c, was.at) : TRUE
             IN  IF Allowed(c, was.at) = {} THEN was
                 ELSE [toks |-> Append(was.toks, t), at |-> c.next[was.at][t]]
  IN  run[max].toks

\* forced_run(max): stops at a choice, at an accepting state, or at max.
ForcedRun(c, s, max) ==
  LET run[n \in 0 .. max] ==
        IF n = 0 THEN [toks |-> <<>>, at |-> s]
        ELSE LET was == run[n - 1]  t == CHOOSE u \in Forced(c, was.at) : TRUE
             IN  IF Accepting(c, was.at) \/ Forced(c, was.at) = {} THEN was
                 ELSE [toks |-> Append(was.toks, t), at |-> c.next[was.at][t]]
  IN  run[max].toks

\* The argmax of masked logits: the best admitted token under an order of the
\* vocabulary, and token 0 when no logit compares greater than -inf.
BestOf(S, better(_, _)) ==
  LET best == {t \in S : \A u \in S : u = t \/ better(t, u)}
  IN  IF best = {} THEN 0 ELSE CHOOSE t \in best : TRUE
=============================================================================
