------------------------------ MODULE MCFetch ------------------------------
(***************************************************************************)
(* Files of three blocks, crashes and failures up to a bound; one launch   *)
(* that downloads, beside one that may not and has its tokenizer given.    *)
(***************************************************************************)
EXTENDS Fetch

MCGiven == [p \in Launch |-> IF p \in Offline THEN {"tokenizer"} ELSE {}]
=============================================================================
