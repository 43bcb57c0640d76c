---------------------------- MODULE MCSpeculate ----------------------------
(***************************************************************************)
(* Every prompt of four tokens and some of six, with and without a         *)
(* grammar.  Token 4 ends an answer and may appear in a prompt, as the end *)
(* of turn does; token 3 closes a call.                                    *)
(***************************************************************************)
EXTENDS Speculate

MCToken == 0 .. 4
\* Some hold a call, its closing token included.
MCPrompts == [1 .. 4 -> {1, 2, 4}] \cup {<<1>> \o p : p \in [1 .. 5 -> {1, 2}]}
             \cup [1 .. 5 -> {1, 2, 3}]

\* A stand-in for the model: an order of the vocabulary that depends on the
\* whole history and its arithmetic.
Weight(e) == e.tok + (IF e.arith.int8 THEN 2 ELSE 0) + (IF e.arith.rowbatch THEN 1 ELSE 0)
MCGreedy(h) ==
  IF h = Bad THEN 0
  ELSE LET hash == FoldLeft(LAMBDA acc, e : (acc * 12 + Weight(e)) % 23, 1, h)
       IN  <<1, 2, 2, 1, 2, 1, 3, 4>>[1 + (hash % 8)]
MCBetter(h, t, u) == (t + 5 - MCGreedy(h)) % 5 < (u + 5 - MCGreedy(h)) % 5

\* A constraint from the edges <<state, token, next>> and the final states.
Automaton(n, edges, final) ==
  [next |-> [s \in 1 .. n |-> [t \in Token |->
               LET to == {e \in edges : e[1] = s /\ e[2] = t}
               IN  IF to = {} THEN 0 ELSE (CHOOSE e \in to : TRUE)[3]]],
   accept |-> [s \in 1 .. n |-> s \in final]]
\* A loop with a choice, then forced runs of three and two; one that closes.
Looping == Automaton(5, {<<1, 1, 2>>, <<1, 2, 3>>, <<2, 2, 3>>, <<3, 1, 4>>, <<4, 2, 1>>,
                         <<1, 3, 5>>}, {5})
Closing == Automaton(5, {<<1, 1, 1>>, <<1, 2, 2>>, <<2, 1, 3>>, <<2, 2, 4>>, <<3, 1, 4>>,
                         <<4, 3, 5>>}, {5})
MCGrammars == {Free, Looping, Closing}
=============================================================================
