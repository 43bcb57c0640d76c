------------------------------ MODULE MCServer ------------------------------
(***************************************************************************)
(* Three clients and one slot: the first streams, the second does not, the *)
(* third makes any request; answers of up to two pieces.  The first and    *)
(* the third may be ones that do not read.                                 *)
(***************************************************************************)
EXTENDS ServerProps

Post == <<"POST", "/v1/completions">>
Ask(prompt, max, stream, pieces, reads) ==
  [line |-> 3, length |-> 1, cut |-> FALSE, route |-> Post, json |-> TRUE, odd |-> FALSE,
   prompt |-> prompt, max |-> max, stream |-> stream, pieces |-> pieces, reads |-> reads]
Plain == Ask(1, 1, FALSE, 0, TRUE)
\* What is answered without the engine: dropped, 413, 200, 404 and 400.
Immediate ==
  {[Plain EXCEPT !.line = 1], [Plain EXCEPT !.length = 2],
   [Plain EXCEPT !.route = <<"GET", "/health">>, !.reads = FALSE],
   [Plain EXCEPT !.route = <<"GET", "/">>], [Plain EXCEPT !.odd = TRUE]}
\* The last one's sum does not fit in a word and is still too large.
MCOffers ==
  [c1 |-> {Ask(2, 2, TRUE, 2, TRUE), Ask(2, 2, TRUE, 1, FALSE)},
   c2 |-> {Ask(2, 2, FALSE, 1, TRUE)},
   c3 |-> Immediate \cup {[Plain EXCEPT !.reads = FALSE],
                         Ask(3, 2, TRUE, 0, TRUE), Ask(7, 6, FALSE, 0, TRUE)}]
PairOffers == [c1 |-> {Ask(2, 2, TRUE, 2, TRUE)}, c2 |-> {Ask(2, 2, FALSE, 1, TRUE)}]
\* A sum that does not fit in a word and looks small.
WrapOffers == [PairOffers EXCEPT !.c1 = {Ask(1, 7, FALSE, 0, TRUE), Ask(2, 2, FALSE, 1, TRUE)}]
=============================================================================
