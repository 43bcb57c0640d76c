-------------------------------- MODULE Text --------------------------------
(***************************************************************************)
(* The text side of a completion: Tokenizer::decode                        *)
(* (crates/fgm-serve/src/tokenizer.rs), and stable_len and the stop search *)
(* of the scheduler (engine.rs).  A token stands for a few bytes; a        *)
(* character outside ASCII is two bytes, a Lead and a Cont, which the      *)
(* tokenizer may hand out in two tokens (byte fallback).                   *)
(***************************************************************************)
EXTENDS Integers, Sequences, SequencesExt

CONSTANTS
  Piece,        \* the bytes of each token; <<>> for control tokens
  Lead, Cont,   \* the first and the second byte of a two-byte character
  Wide,         \* the character they make together
  Replacement   \* U+FFFD, what from_utf8_lossy writes for anything else

\* All bytes of a run of tokens, in order: decode never works token by token.
Bytes(ids) == FlattenSeq([k \in 1 .. Len(ids) |-> Piece[ids[k]]])

\* from_utf8_lossy: one character for each byte that does not complete another.
Lossy(b) ==
  LET completes(i) == b[i] = Cont /\ i > 1 /\ b[i - 1] = Lead
      charAt(i) ==
        IF b[i] \notin {Lead, Cont} THEN b[i]
        ELSE IF b[i] = Lead /\ i < Len(b) /\ b[i + 1] = Cont THEN Wide
        ELSE Replacement
      upTo[i \in 0 .. Len(b)] ==
        IF i = 0 THEN <<>>
        ELSE IF completes(i) THEN upTo[i - 1] ELSE Append(upTo[i - 1], charAt(i))
  IN  upTo[Len(b)]

Decode(ids) == Lossy(Bytes(ids))

\* Fault: everything is sent at once.
FaultStableLen(t) == Len(t)

\* Length of the prefix of t that later tokens cannot change.
StableLen(t) == Max({0} \cup {n \in 1 .. Len(t) : t[n] # Replacement})

\* Where the stop strings occur in t, as lengths of the text before them.
StopCuts(t, stops) ==
  {i \in 0 .. Len(t) :
     \E p \in stops : /\ i + Len(p) <= Len(t)
                      /\ SubSeq(t, i + 1, i + Len(p)) = p}
=============================================================================
