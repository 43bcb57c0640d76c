------------------------------ MODULE MCEngine ------------------------------
(***************************************************************************)
(* The scheduler with a chunk of 3, a window of 2, two slots and a context *)
(* of 10: the ring of layer 0 holds 5 positions, so a prompt of 6 wraps it *)
(* and a template of 6 is forked after it has wrapped.                     *)
(***************************************************************************)
EXTENDS EngineProps

MCToken == 0 .. 4
MCPiece == (0 :> <<"z">>) @@ (1 :> <<"a">>) @@ (2 :> <<"h1">>)
           @@ (3 :> <<"h2", "b">>) @@ (4 :> <<>>)

\* A stand-in for the language model: some function of the whole history, the
\* arithmetic included, that gives the requests below answers of some length.
Weight(e) == e.tok + (IF e.arith.int8 THEN 2 ELSE 0) + (IF e.arith.rowbatch THEN 1 ELSE 0)
MCGreedy(h) ==
  IF h = Bad THEN 0
  ELSE LET hash == FoldLeft(LAMBDA acc, e : (acc * 12 + Weight(e)) % 23, 1, h)
       IN  <<1, 2, 2, 3, 4>>[1 + (hash % 5)]

\* Each configuration takes some of these requests.  r1, r2 and r3 share six
\* tokens, r4 is the first three of them; r3 fills the context to its last
\* position, r2 ends in a stop string, r6 does not fit.  a1, a2, b1, b2 are two
\* pairs that share three tokens; s1 has a stop string of two tokens' text; c1
\* fills a context of 4.
Common == <<1, 2, 3, 1, 2, 2>>
AllPrompt ==
  [r1 |-> Common \o <<1>>, r2 |-> Common \o <<2>>, r3 |-> Common \o <<1, 3>>,
   r4 |-> <<1, 2, 3>>, r5 |-> <<1, 2, 3, 3>>, r6 |-> Common \o <<1, 2, 3, 1, 2>>,
   a1 |-> <<1, 2, 3, 1>>, a2 |-> <<1, 2, 3, 2>>,
   b1 |-> <<2, 2, 2, 1>>, b2 |-> <<2, 2, 2, 2>>,
   s1 |-> <<1, 2, 3>>, c1 |-> <<1, 2, 3>>]
AllMaxTokens ==
  [r1 |-> 1, r2 |-> 3, r3 |-> 2, r4 |-> 4, r5 |-> 4, r6 |-> 1,
   a1 |-> 1, a2 |-> 1, b1 |-> 1, b2 |-> 1, s1 |-> 4, c1 |-> 1]
AllStops == [r \in DOMAIN AllPrompt |->
               IF r = "r2" THEN {<<"b">>} ELSE IF r = "s1" THEN {<<"a", "a">>} ELSE {}]

MCPrompt    == [r \in Request |-> AllPrompt[r]]
MCMaxTokens == [r \in Request |-> AllMaxTokens[r]]
MCStops     == [r \in Request |-> AllStops[r]]
=============================================================================
