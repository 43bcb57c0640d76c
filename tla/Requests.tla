------------------------------ MODULE Requests ------------------------------
(***************************************************************************)
(* The requests of an instance and the reference their answers are judged  *)
(* by: the history a request leaves when it is run alone, from an empty    *)
(* cache, without batching and without prefix sharing.                     *)
(***************************************************************************)
EXTENDS Runner, Text

CONSTANTS
  Request,     \* the requests clients make, each at most once
  Prompt,      \* the tokens of each, <bos> included
  MaxTokens,   \* max_tokens
  Stops,       \* the set of its stop strings
  Eos          \* tokens that end a completion

ASSUME RequestAssumption ==
  /\ Request # {}
  /\ Prompt \in [Request -> Seq(Token)]
  /\ \A r \in Request : Prompt[r] # <<>>          \* encode adds <bos>
  /\ MaxTokens \in [Request -> Nat]
  /\ Eos \subseteq Token

\* Every token stands for some bytes.
ASSUME PieceAssumption ==
  \A t \in Token : t \in DOMAIN Piece /\ Piece[t] \in Seq(ToSet(Piece[t]))

-----------------------------------------------------------------------------
\* A full prefill followed by decoding ids one row at a time.
Alone(r, ids) == LoneRun(Prompt[r], ids)
=============================================================================
