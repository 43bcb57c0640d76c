------------------------------- MODULE Server -------------------------------
(***************************************************************************)
(* One connection per client (crates/fgm-serve/src/main.rs, http.rs): the  *)
(* request is read, routed and answered; a completion is handed to the     *)
(* engine and its events are copied to the socket as they come.  The       *)
(* engine is what a connection sees of it: the job channel, one event      *)
(* channel per job, at most Batch jobs at work, and that it may die.       *)
(***************************************************************************)
EXTENDS Integers, Sequences, FiniteSets

CONSTANTS
  Client,
  Offers,    \* the requests a client may make: a set for each client
  Ctx,       \* --ctx
  Batch,     \* --batch
  MaxBody,   \* MAX_BODY
  Word       \* usize is arithmetic modulo this

VARIABLES
  req,       \* the request each client makes
  unwinds,   \* the profile: panics unwind one thread (dev) or abort (release)
  pc,        \* connection: accepted, read, opening, waiting, ending, closed, aborted
  gone,      \* clients that hung up
  wire,      \* what was written to each socket
  text,      \* text gathered for a response that is not streamed
  chan,      \* events in each job's channel
  jobs,      \* the job channel
  active,    \* jobs the engine works on
  sent,      \* pieces of text the engine has sent for each job
  alive      \* the engine thread runs
conn   == <<pc, wire, text>>
engine == <<jobs, active, sent, alive>>
vars   == <<req, unwinds, conn, gone, chan, engine>>

ASSUME ServerAssumption ==
  /\ Batch \in Nat \ {0} /\ Word \in Nat \ {0} /\ Ctx \in 0 .. Word - 1 /\ MaxBody \in Nat
  /\ \A c \in Client : \A r \in Offers[c] :
       /\ r.prompt \in 0 .. Word - 1 /\ r.max \in 0 .. Word - 1
       /\ r.length \in Nat /\ r.pieces \in Nat /\ r.stream \in BOOLEAN /\ r.reads \in BOOLEAN

-----------------------------------------------------------------------------
(* A request: line (its words), length (Content-Length, 0 without one), cut    *)
(* (fewer bytes came), route, json (the body parses), odd (a field the server  *)
(* refuses), prompt (its length in tokens, 0 when it is no string), max,       *)
(* stream, pieces: how many texts its answer comes in, and reads: whether the  *)
(* client goes on taking what is written to its socket.                        *)

\* read_request: nothing to answer, or an error, which is answered 413.
Unreadable(r) == r.line < 2
ReadFails(r)  == r.length > MaxBody \/ r.cut
Unsupported(r) == r.odd

\* handle's routes and the checks of completions up to the context; 0 when the
\* connection is dropped without a reply.
IsCompletion(r) ==
  /\ ~Unreadable(r) /\ ~ReadFails(r)
  /\ r.route = <<"POST", "/v1/completions">> /\ r.json /\ ~Unsupported(r) /\ r.prompt > 0
ReplyTo(r) ==
  CASE Unreadable(r) -> 0
    [] ~Unreadable(r) /\ ReadFails(r) -> 413
    [] OTHER -> CASE r.route \in {<<"GET", "/v1/models">>, <<"GET", "/health">>} -> 200
                  [] r.route[1] = "OPTIONS" -> 200
                  [] r.route = <<"POST", "/v1/completions">> -> 400
                  [] OTHER -> 404

-----------------------------------------------------------------------------
(* Frames on the wire: what one call of respond, sse_open, sse_send or        *)
(* sse_done writes.  The answer that is not streamed is one call too.          *)

Status(code)  == <<"status", code>>
Body(t)       == <<"body", t>>       \* the JSON of a complete answer
Open          == <<"open">>          \* sse_open
Piece(k)      == <<"piece", k>>
Final         == <<"final">>         \* the chunk with finish_reason and usage
End           == <<"end">>           \* data: [DONE]

Text(k) == <<"text", k>>
Done    == <<"done">>

Init ==
  /\ req \in {f \in [Client -> UNION {Offers[c] : c \in Client}] : \A c \in Client : f[c] \in Offers[c]}
  /\ unwinds \in BOOLEAN
  /\ pc = [c \in Client |-> "accepted"]
  /\ gone = {}
  /\ wire = [c \in Client |-> <<>>] /\ text = [c \in Client |-> <<>>]
  /\ chan = [c \in Client |-> <<>>]
  /\ jobs = <<>> /\ active = {} /\ sent = [c \in Client |-> 0] /\ alive = TRUE

Goto(c, l) == pc' = [pc EXCEPT ![c] = l]
\* A write fails only when the client is gone, and not always then.  It blocks
\* when the client does not read, though not before the buffers are full.
Write(c, frames, l) ==
  \/ wire' = [wire EXCEPT ![c] = @ \o frames] /\ Goto(c, l)
  \/ c \in gone /\ UNCHANGED wire /\ Goto(c, "closed")

-----------------------------------------------------------------------------
(* The connection thread *)

\* read_request has what it needs: a whole request, or the end of the input.
Read(c) ==
  /\ pc[c] = "accepted" /\ Goto(c, "read")
  /\ UNCHANGED <<req, unwinds, wire, text, gone, chan, engine>>

Reply(c) ==
  /\ pc[c] = "read" /\ ~IsCompletion(req[c])
  /\ IF ReplyTo(req[c]) = 0 THEN Goto(c, "closed") /\ UNCHANGED wire
     ELSE Write(c, <<Status(ReplyTo(req[c]))>>, "closed")
  /\ UNCHANGED <<req, unwinds, text, gone, chan, engine>>

Sum(r)      == (r.prompt + r.max) % Word
Overflow(r) == r.prompt + r.max >= Word
Exceeds(r) == Sum(r) > Ctx

\* completions up to the job: refused, no engine, or handed over.
Refuse(c) ==
  /\ pc[c] = "read" /\ IsCompletion(req[c])
  /\ ~(unwinds /\ Overflow(req[c])) /\ Exceeds(req[c])
  /\ Write(c, <<Status(400)>>, "closed")
  /\ UNCHANGED <<req, unwinds, text, gone, chan, engine>>

\* The sum panics where overflow is checked, and the connection is dropped.
Panic(c) ==
  /\ pc[c] = "read" /\ IsCompletion(req[c]) /\ unwinds /\ Overflow(req[c])
  /\ Goto(c, "closed")
  /\ UNCHANGED <<req, unwinds, wire, text, gone, chan, engine>>

Admitted(c) ==
  /\ pc[c] = "read" /\ IsCompletion(req[c])
  /\ ~(unwinds /\ Overflow(req[c])) /\ ~Exceeds(req[c])
Submit(c) ==
  /\ Admitted(c) /\ alive
  /\ jobs' = Append(jobs, c)
  /\ Goto(c, IF req[c].stream THEN "opening" ELSE "waiting")
  /\ UNCHANGED <<req, unwinds, wire, text, gone, chan, active, sent, alive>>
NoEngine(c) ==
  /\ Admitted(c) /\ ~alive
  /\ Write(c, <<Status(500)>>, "closed")
  /\ UNCHANGED <<req, unwinds, text, gone, chan, engine>>

OpenStream(c) ==
  /\ pc[c] = "opening"
  /\ Write(c, <<Open>>, "waiting")
  /\ UNCHANGED <<req, unwinds, text, gone, chan, engine>>

\* One event; closing the connection drops the receiver and what is in it.
Recv(c) ==
  /\ pc[c] = "waiting" /\ chan[c] # <<>>
  /\ LET e == Head(chan[c])
         stream == req[c].stream
     IN  \/ /\ e # Done /\ ~stream
            /\ text' = [text EXCEPT ![c] = Append(@, e[2])]
            /\ UNCHANGED <<pc, wire>>
         \/ /\ e # Done /\ stream
            /\ Write(c, <<Piece(e[2])>>, "waiting") /\ UNCHANGED text
         \/ /\ e = Done
            /\ IF stream THEN Write(c, <<Final>>, "ending")
               ELSE Write(c, <<Status(200), Body(text[c])>>, "closed")
            /\ UNCHANGED text
  /\ chan' = [chan EXCEPT ![c] = Tail(@)]
  /\ UNCHANGED <<req, unwinds, gone, engine>>

\* sse_done, once the final chunk is written.
EndStream(c) ==
  /\ pc[c] = "ending"
  /\ Write(c, <<End>>, "closed")
  /\ UNCHANGED <<req, unwinds, text, gone, chan, engine>>

\* recv fails when nothing is left and no sender is: the engine has dropped the job.
\* Fault: the connection keeps a sender of its own.
FaultDropped(c) == FALSE
Dropped(c) == c \notin active /\ \A i \in DOMAIN jobs : jobs[i] # c
\* Fault: a truncated answer, as if it were complete.
FaultApology(c) == IF req[c].stream THEN <<End>> ELSE <<Status(200), Body(text[c])>>
Apology(c) == IF req[c].stream THEN <<End>> ELSE <<Status(500)>>
RecvError(c) ==
  /\ pc[c] = "waiting" /\ chan[c] = <<>> /\ Dropped(c)
  /\ Write(c, Apology(c), "closed")
  /\ UNCHANGED <<req, unwinds, text, gone, chan, engine>>

Connection(c) ==
  Reply(c) \/ Refuse(c) \/ Panic(c) \/ Submit(c) \/ NoEngine(c)
    \/ OpenStream(c) \/ Recv(c) \/ EndStream(c) \/ RecvError(c)

HangUp(c) ==
  /\ c \notin gone /\ gone' = gone \cup {c}
  /\ UNCHANGED <<req, unwinds, conn, chan, engine>>

-----------------------------------------------------------------------------
(* The engine thread, as connections see it *)

\* Fault: no limit to the slots.
FaultFree == TRUE
Free == Cardinality(active) < Batch
Take ==
  /\ alive /\ jobs # <<>> /\ Free
  /\ active' = active \cup {Head(jobs)} /\ jobs' = Tail(jobs)
  /\ UNCHANGED <<req, unwinds, conn, gone, chan, sent, alive>>

\* Fault: a job nobody listens to keeps its slot.
FaultRetired(c) == IF pc[c] = "closed" THEN active ELSE active \ {c}
Retired(c) == active \ {c}

\* The next piece or the end; a send to a dropped receiver is ignored.
Send(c) ==
  /\ alive /\ c \in active
  /\ LET e == IF sent[c] < req[c].pieces THEN Text(sent[c] + 1) ELSE Done
     IN  /\ chan' = IF pc[c] = "closed" THEN chan ELSE [chan EXCEPT ![c] = Append(@, e)]
         /\ sent' = IF e = Done THEN sent ELSE [sent EXCEPT ![c] = @ + 1]
         /\ active' = IF e = Done THEN Retired(c) ELSE active
  /\ UNCHANGED <<req, unwinds, conn, gone, jobs, alive>>

\* A panic of the engine: in dev its channels drop with all jobs in them, in
\* release (Cargo.toml: panic = "abort") it takes the process along.
Die ==
  /\ alive /\ active # {} /\ alive' = FALSE
  /\ jobs' = <<>> /\ active' = {}
  /\ pc' = IF unwinds THEN pc
           ELSE [c \in Client |-> IF pc[c] = "closed" THEN "closed" ELSE "aborted"]
  /\ UNCHANGED <<req, unwinds, wire, text, gone, chan, sent>>

Next ==
  \/ \E c \in Client : Read(c) \/ Connection(c) \/ HangUp(c) \/ Send(c)
  \/ Take \/ Die

\* A client that is connected and does not read what is written to it.
Stalled(c) == ~req[c].reads /\ c \notin gone

\* Threads are scheduled, but the code sets no timeout on a socket: a thread
\* whose client has stalled may stay in a write for good, so of its steps only
\* those that write nothing are fair.  Clients owe nothing, neither a request
\* nor to read nor to hang up, and the engine need not die.
Runs(c) == Connection(c) /\ (Stalled(c) => wire' = wire)
Fairness ==
  /\ \A c \in Client : WF_vars(Runs(c)) /\ WF_vars(Send(c))
  /\ WF_vars(Take)
Spec == Init /\ [][Next]_vars
FairSpec == Spec /\ Fairness
=============================================================================
