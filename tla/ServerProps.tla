----------------------------- MODULE ServerProps -----------------------------
(***************************************************************************)
(* What a client may rely on, whatever the engine, the other clients and   *)
(* the sockets do.                                                         *)
(***************************************************************************)
EXTENDS Server

-----------------------------------------------------------------------------
UpTo(n) == [k \in 1 .. n |-> k]

\* Types, and never more jobs at work than slots.
TypeOK ==
  /\ pc \in [Client -> {"accepted", "read", "opening", "waiting", "ending", "closed", "aborted"}]
  /\ gone \subseteq Client /\ active \subseteq Client
  /\ jobs \in Seq(Client) /\ sent \in [Client -> Nat]
  /\ alive \in BOOLEAN /\ unwinds \in BOOLEAN
  /\ Cardinality(active) <= Batch

\* What may be on the wire of a completion: one status, or a stream of its
\* pieces in order, closed by the final chunk and then the end mark.
Pieces(n) == [k \in 1 .. n |-> Piece(k)]
Streams(r) ==
  {<<>>} \cup {<<Open>> \o Pieces(n) : n \in 0 .. r.pieces}
         \cup {<<Open>> \o Pieces(n) \o <<End>> : n \in 0 .. r.pieces}
         \cup {<<Open>> \o Pieces(r.pieces) \o <<Final>>,
               <<Open>> \o Pieces(r.pieces) \o <<Final, End>>}
Singles(r) == {<<>>, <<Status(200), Body(UpTo(r.pieces))>>}
Refusals   == {<<Status(400)>>, <<Status(500)>>}

\* A response is never torn, doubled or mixed up: a 200 has the whole answer,
\* the chunk with finish_reason follows every piece of it, and a failure after
\* the first pieces of an answer that is not streamed is a 500.
ResponseWhole ==
  \A c \in Client :
     wire[c] \in (IF ~IsCompletion(req[c]) THEN {<<>>, <<Status(ReplyTo(req[c]))>>}
                  ELSE IF req[c].stream THEN Streams(req[c]) \cup Refusals
                  ELSE Singles(req[c]) \cup Refusals)

\* A connection whose request was read ends (answered, failed or given up) if
\* its client goes on reading or is gone, also when it hangs up in the middle of
\* an answer and when the engine dies at any moment.
EveryConnectionEnds ==
  \A c \in Client : pc[c] # "accepted" /\ ~Stalled(c) ~> pc[c] \in {"closed", "aborted"}

\* A client that stays and reads gets its whole answer as long as the engine
\* lives, whatever the others ask, and however many of them hang up or stop
\* reading: a thread stuck in a write keeps no slot, since what the engine sends
\* it waits in a channel without a bound.  (A sum that overflows a checked build
\* is the exception: that connection is dropped.)
Complete(c) ==
  \/ Status(400) \in {wire[c][i] : i \in DOMAIN wire[c]}
  \/ Len(wire[c]) >= 2 /\ wire[c][Len(wire[c]) - 1] \in {Final, Status(200)}
Served(c) == IsCompletion(req[c]) /\ ~Overflow(req[c]) /\ req[c].reads
StayersServed ==
  \A c \in Client : Served(c) /\ pc[c] = "read" ~> Complete(c) \/ c \in gone \/ ~alive

-----------------------------------------------------------------------------
(* What comments and messages say *)

\* main.rs:229-231, the refusal: "prompt is {} tokens and max_tokens is
\* {max_tokens}, which exceeds the {}-token context this server was started
\* with (--ctx)": no job that exceeds it is in the channel or at work.
AdmittedFits ==
  \A c \in Client : c \in active \/ (\E i \in DOMAIN jobs : jobs[i] = c)
     => req[c].prompt + req[c].max <= Ctx

\* main.rs:298-299: "The engine dropped the sender without a Done, which means
\* it died. Say so rather than returning a truncated 200."
TruncationIsTold ==
  \A c \in Client : \A i \in DOMAIN wire[c] : wire[c][i] = End => wire[c][i - 1] = Final

\* engine.rs:34-36: a dropped sender, which the connection reports, "covers the
\* only failure mode that exists": no connection is cut off without a word.
DeathIsReported == \A c \in Client : pc[c] # "aborted"
=============================================================================
