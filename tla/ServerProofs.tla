---------------------------- MODULE ServerProofs ----------------------------
(***************************************************************************)
(* What is on a socket is never torn, doubled or mixed up, for any number  *)
(* of clients, requests, slots and pieces.  Flow ties the four places a    *)
(* piece of an answer passes through: sent by the engine, in the channel,  *)
(* gathered or written by the connection.                                  *)
(*                                                                         *)
(* And of the launch the server is started by, when at most one downloads, *)
(* for any number of launches beside it, of blocks, crashes and new        *)
(* versions: no truncated file gets its name, and no block is transferred  *)
(* twice.                                                                  *)
(***************************************************************************)
EXTENDS ServerProps, Fetch, SequenceTheorems, FiniteSetTheorems, TLAPS

-----------------------------------------------------------------------------
(* The inductive invariant *)

InJobs(q, c) == \E i \in DOMAIN q : q[i] = c

\* k pieces were taken from the channel q of a request r, of s pieces sent;
\* Done is in it only after the last piece, once the engine let go of the job.
Flow(r, q, s, k, held) ==
  /\ k \in 0 .. s /\ s \in 0 .. r.pieces
  /\ q \in Seq(UNION {{Text(i), Done} : i \in Nat})
  /\ \A j \in 1 .. Len(q) : q[j] = IF j <= s - k THEN Text(k + j) ELSE Done
  /\ \/ Len(q) = s - k
     \/ Len(q) = s - k + 1 /\ s = r.pieces /\ ~held

\* What a connection that has taken k pieces has done with them.
Copied(r, w, t, l, k) ==
  \/ l = "opening" /\ k = 0 /\ w = <<>> /\ r.stream
  \/ l = "waiting" /\ r.stream /\ w = <<Open>> \o Pieces(k)
  \/ l = "waiting" /\ ~r.stream /\ w = <<>> /\ t = UpTo(k)

\* The final chunk is written and the end mark is not.
Ending(r, w) ==
  IsCompletion(r) /\ r.stream /\ w = <<Open>> \o Pieces(r.pieces) \o <<Final>>

Whole(r, w) ==
  w \in (IF ~IsCompletion(r) THEN {<<>>, <<Status(ReplyTo(r))>>}
         ELSE IF r.stream THEN Streams(r) \cup Refusals
         ELSE Singles(r) \cup Refusals)

\* One client: its request, connection, channel and job.
ClientOK(r, l, w, t, q, s, inJobs, inActive, u) ==
  LET held == inJobs \/ inActive
  IN  /\ l \in {"accepted", "read"} => w = <<>> /\ t = <<>> /\ q = <<>> /\ s = 0 /\ ~held
      /\ l \in {"opening", "waiting"} =>
           /\ IsCompletion(r) /\ ~Exceeds(r) /\ ~(u /\ Overflow(r))
           /\ \E k \in Nat : Flow(r, q, s, k, held) /\ Copied(r, w, t, l, k)
      /\ l = "ending" => Ending(r, w)
      /\ l \in {"closed", "aborted"} => Whole(r, w)
      /\ inJobs => ~inActive

ClientsOK ==
  \A c \in Client : ClientOK(req[c], pc[c], wire[c], text[c], chan[c], sent[c],
                             InJobs(jobs, c), c \in active, unwinds)

IInv ==
  /\ TypeOK /\ IsFiniteSet(active)
  /\ DOMAIN req = Client /\ \A c \in Client : req[c] \in Offers[c]
  /\ DOMAIN wire = Client /\ DOMAIN text = Client /\ DOMAIN chan = Client
  /\ \A i, j \in DOMAIN jobs : jobs[i] = jobs[j] => i = j
  /\ ClientsOK

-----------------------------------------------------------------------------
(* Pieces *)

LEMMA UpToIs ==
  ASSUME NEW n \in Nat
  PROVE  UpTo(n) \in Seq(Nat) /\ Len(UpTo(n)) = n /\ \A k \in 1 .. n : UpTo(n)[k] = k
BY DEF UpTo

LEMMA PiecesAre ==
  ASSUME NEW S, NEW n \in Nat, \A k \in Nat : Piece(k) \in S
  PROVE  Pieces(n) \in Seq(S) /\ Len(Pieces(n)) = n /\ \A k \in 1 .. n : Pieces(n)[k] = Piece(k)
<1> DEFINE f == [k \in 1 .. n |-> Piece(k)]
<1>1. f \in [1 .. n -> S]
  OBVIOUS
<1>2. f \in Seq(S) /\ Len(f) = n
  <2> HIDE DEF f
  <2>1. DOMAIN f = 1 .. n
    BY <1>1
  <2> QED BY <1>1, <2>1
<1>3. Pieces(n) = f
  BY DEF Pieces
<1> QED BY <1>2, <1>3

LEMMA MoreTexts ==
  ASSUME NEW n \in Nat
  PROVE  Append(UpTo(n), n + 1) = UpTo(n + 1)
<1> DEFINE x == Append(UpTo(n), n + 1)  y == UpTo(n + 1)
<1>1. y \in Seq(Nat) /\ Len(y) = n + 1 /\ \A k \in 1 .. n + 1 : y[k] = k
  BY UpToIs, n + 1 \in Nat
<1>2. x \in Seq(Nat) /\ Len(x) = n + 1 /\ \A k \in 1 .. n + 1 : x[k] = k
  BY UpToIs
<1> HIDE DEF x, y
<1>3. x = y
  BY <1>1, <1>2, SeqEqual
<1> QED BY <1>3 DEF x, y

\* The frame of piece n + 1 after the frames of a stream of n pieces.
LEMMA MorePieces ==
  ASSUME NEW n \in Nat
  PROVE  (<<Open>> \o Pieces(n)) \o <<Piece(n + 1)>> = <<Open>> \o Pieces(n + 1)
<1> DEFINE S == {Piece(k) : k \in Nat} \cup {Open}
<1>1. /\ \A k \in Nat : Piece(k) \in S
      /\ <<Open>> \in Seq(S) /\ <<Piece(n + 1)>> \in Seq(S)
  OBVIOUS
<1> HIDE DEF S
<1> DEFINE p == Pieces(n)  q == Pieces(n + 1)
<1>2. /\ p \in Seq(S) /\ Len(p) = n /\ \A k \in 1 .. n : p[k] = Piece(k)
      /\ q \in Seq(S) /\ Len(q) = n + 1 /\ \A k \in 1 .. n + 1 : q[k] = Piece(k)
  BY <1>1, PiecesAre, n + 1 \in Nat
<1> HIDE DEF p, q
<1> DEFINE a == (<<Open>> \o p) \o <<Piece(n + 1)>>  b == <<Open>> \o q
<1>3. a \in Seq(S) /\ Len(a) = n + 2 /\ b \in Seq(S) /\ Len(b) = n + 2
  BY <1>1, <1>2
<1> DEFINE h == <<Open>> \o p
<1>h. h \in Seq(S) /\ Len(h) = n + 1 /\ h[1] = Open /\ \A k \in 2 .. n + 1 : h[k] = Piece(k - 1)
  BY <1>1, <1>2
<1>b. b[1] = Open /\ \A k \in 2 .. n + 2 : b[k] = Piece(k - 1)
  BY <1>1, <1>2
<1>a. (\A k \in 1 .. n + 1 : a[k] = h[k]) /\ a[n + 2] = Piece(n + 1)
  <2> HIDE DEF h
  <2>1. (\A k \in 1 .. n + 1 : (h \o <<Piece(n + 1)>>)[k] = h[k])
        /\ (h \o <<Piece(n + 1)>>)[n + 2] = Piece(n + 1)
    BY <1>1, <1>h
  <2> QED BY <2>1 DEF h
<1>4. \A k \in 1 .. n + 2 : a[k] = b[k]
  <2> HIDE DEF a, b, h
  <2> QED BY <1>h, <1>a, <1>b
<1> HIDE DEF a, b
<1>5. a = b
  BY <1>3, <1>4, SeqEqual
<1> QED BY <1>5 DEF a, b, p, q

LEMMA TwoFrames ==
  ASSUME NEW a, NEW b
  PROVE  <<a>> \o <<b>> = <<a, b>>
<1> DEFINE S == {a, b}  x == <<a>>  y == <<b>>  z == <<a, b>>  v == x \o y
<1>1. /\ x \in Seq(S) /\ Len(x) = 1 /\ x[1] = a
      /\ y \in Seq(S) /\ Len(y) = 1 /\ y[1] = b
      /\ z \in Seq(S) /\ Len(z) = 2 /\ z[1] = a /\ z[2] = b
  OBVIOUS
<1> HIDE DEF S, x, y, z
<1>2. /\ v \in Seq(S) /\ Len(v) = 1 + 1
      /\ \A i \in 1 .. 1 + 1 : v[i] = IF i <= 1 THEN x[i] ELSE y[i - 1]
  BY <1>1, ConcatProperties
<1> HIDE DEF v
<1>3. Len(v) = Len(z) /\ \A i \in 1 .. Len(v) : v[i] = z[i]
  BY <1>1, <1>2
<1>4. v = z
  BY <1>1, <1>2, <1>3, SeqEqual
<1> QED BY <1>4 DEF v, x, y, z

\* The end mark after the final chunk.
LEMMA StreamEnds ==
  ASSUME NEW n \in Nat
  PROVE  (<<Open>> \o Pieces(n) \o <<Final>>) \o <<End>> = <<Open>> \o Pieces(n) \o <<Final, End>>
<1> DEFINE S == {Piece(k) : k \in Nat} \cup {Open, Final, End}
<1>1. /\ \A k \in Nat : Piece(k) \in S
      /\ <<Open>> \in Seq(S) /\ <<Final>> \in Seq(S) /\ <<End>> \in Seq(S) /\ <<Final, End>> \in Seq(S)
  OBVIOUS
<1>2. <<Final>> \o <<End>> = <<Final, End>>
  BY TwoFrames
<1> HIDE DEF S
<1>3. Pieces(n) \in Seq(S)
  BY <1>1, PiecesAre
<1> DEFINE h == <<Open>> \o Pieces(n)
<1>4. h \in Seq(S)
  BY <1>1, <1>3, ConcatProperties
<1> HIDE DEF h
<1>5. (h \o <<Final>>) \o <<End>> = h \o (<<Final>> \o <<End>>)
  BY <1>1, <1>4, ConcatAssociative
<1> QED BY <1>2, <1>5 DEF h

LEMMA OntoNothing ==
  ASSUME NEW x, NEW y
  PROVE  <<>> \o <<x>> = <<x>> /\ <<>> \o <<x, y>> = <<x, y>>
<1>1. <<>> \in Seq({x, y}) /\ <<x>> \in Seq({x, y}) /\ <<x, y>> \in Seq({x, y})
  OBVIOUS
<1> QED BY <1>1, ConcatEmptySeq

-----------------------------------------------------------------------------
(* The flow of one answer *)

LEMMA SendPiece ==
  ASSUME NEW r, NEW q, NEW s, NEW k, r.pieces \in Nat, Flow(r, q, s, k, TRUE), s < r.pieces
  PROVE  Flow(r, Append(q, Text(s + 1)), s + 1, k, TRUE)
<1> DEFINE E == UNION {{Text(i), Done} : i \in Nat}  p == Append(q, Text(s + 1))
<1>1. /\ k \in 0 .. s /\ s \in 0 .. r.pieces /\ q \in Seq(E) /\ Len(q) = s - k
      /\ \A j \in 1 .. Len(q) : q[j] = IF j <= s - k THEN Text(k + j) ELSE Done
  BY DEF Flow
<1>2. Text(s + 1) \in E
  BY <1>1
<1> HIDE DEF E
<1>3. p \in Seq(E) /\ Len(p) = s - k + 1 /\ p[s - k + 1] = Text(s + 1) /\ \A j \in 1 .. s - k : p[j] = q[j]
  BY <1>1, <1>2
<1>4. \A j \in 1 .. s - k + 1 : p[j] = Text(k + j)
  <2> SUFFICES ASSUME NEW j \in 1 .. s - k + 1 PROVE p[j] = Text(k + j)
    OBVIOUS
  <2> HIDE DEF p
  <2>1. CASE j = s - k + 1
    <3>1. k + j = s + 1
      BY <1>1, <2>1
    <3> QED BY <3>1, <2>1, <1>3
  <2>2. CASE j \in 1 .. s - k
    BY <2>2, <1>1, <1>3
  <2> QED BY <2>1, <2>2, <1>1
<1> HIDE DEF p
<1>5. k \in 0 .. s + 1 /\ s + 1 \in 0 .. r.pieces /\ Len(p) = (s + 1) - k /\ s - k + 1 = (s + 1) - k
  BY <1>1, <1>3
<1>6. \A j \in 1 .. Len(p) : p[j] = IF j <= (s + 1) - k THEN Text(k + j) ELSE Done
  BY <1>4, <1>5
<1> QED BY <1>3, <1>5, <1>6 DEF Flow, E, p

LEMMA SendDone ==
  ASSUME NEW r, NEW q, NEW s, NEW k, r.pieces \in Nat, Flow(r, q, s, k, TRUE), ~(s < r.pieces)
  PROVE  Flow(r, Append(q, Done), s, k, FALSE)
<1> DEFINE E == UNION {{Text(i), Done} : i \in Nat}  p == Append(q, Done)
<1>1. /\ k \in 0 .. s /\ s \in 0 .. r.pieces /\ q \in Seq(E) /\ Len(q) = s - k /\ s = r.pieces
      /\ \A j \in 1 .. Len(q) : q[j] = IF j <= s - k THEN Text(k + j) ELSE Done
  BY DEF Flow
<1>2. Done \in E
  OBVIOUS
<1> HIDE DEF E
<1>3. p \in Seq(E) /\ Len(p) = s - k + 1 /\ p[s - k + 1] = Done /\ \A j \in 1 .. s - k : p[j] = q[j]
  BY <1>1, <1>2
<1> HIDE DEF p
<1>4. \A j \in 1 .. Len(p) : p[j] = IF j <= s - k THEN Text(k + j) ELSE Done
  <2> SUFFICES ASSUME NEW j \in 1 .. s - k + 1 PROVE p[j] = IF j <= s - k THEN Text(k + j) ELSE Done
    BY <1>3
  <2>1. CASE j = s - k + 1
    BY <2>1, <1>1, <1>3
  <2>2. CASE j \in 1 .. s - k
    BY <2>2, <1>1, <1>3
  <2> QED BY <2>1, <2>2, <1>1
<1> QED BY <1>1, <1>3, <1>4 DEF Flow, E, p

LEMMA RecvPiece ==
  ASSUME NEW r, NEW q, NEW s, NEW k, NEW h, r.pieces \in Nat, Flow(r, q, s, k, h), q # <<>>, Head(q) # Done
  PROVE  Head(q) = Text(k + 1) /\ Flow(r, Tail(q), s, k + 1, h)
<1> DEFINE E == UNION {{Text(i), Done} : i \in Nat}  p == Tail(q)
<1>1. /\ k \in 0 .. s /\ s \in 0 .. r.pieces /\ q \in Seq(E)
      /\ \A j \in 1 .. Len(q) : q[j] = IF j <= s - k THEN Text(k + j) ELSE Done
      /\ \/ Len(q) = s - k
         \/ Len(q) = s - k + 1 /\ s = r.pieces /\ ~h
  BY DEF Flow
<1> HIDE DEF E
<1>2. Len(q) \in Nat \ {0} /\ Head(q) = q[1]
  BY <1>1
<1>3. p \in Seq(E) /\ Len(p) = Len(q) - 1 /\ \A j \in 1 .. Len(p) : p[j] = q[j + 1]
  BY <1>1
<1>4. 1 <= s - k /\ Head(q) = Text(k + 1)
  BY <1>1, <1>2
<1> HIDE DEF p
<1>5. \A j \in 1 .. Len(p) : p[j] = IF j <= s - (k + 1) THEN Text((k + 1) + j) ELSE Done
  <2> SUFFICES ASSUME NEW j \in 1 .. Len(p)
               PROVE p[j] = IF j <= s - (k + 1) THEN Text((k + 1) + j) ELSE Done
    OBVIOUS
  <2>1. j + 1 \in 1 .. Len(q) /\ (j + 1 <= s - k <=> j <= s - (k + 1)) /\ k + (j + 1) = (k + 1) + j
    BY <1>1, <1>2, <1>3
  <2>2. q[j + 1] = IF j + 1 <= s - k THEN Text(k + (j + 1)) ELSE Done
    BY <2>1, <1>1
  <2> QED BY <2>1, <2>2, <1>3
<1>6. k + 1 \in 0 .. s /\ (Len(q) = s - k => Len(p) = s - (k + 1))
      /\ (Len(q) = s - k + 1 => Len(p) = s - (k + 1) + 1)
  BY <1>1, <1>2, <1>3, <1>4
<1>7. p \in Seq(UNION {{Text(i), Done} : i \in Nat})
  BY <1>3 DEF E
<1>8. Flow(r, p, s, k + 1, h)
  BY <1>1, <1>5, <1>6, <1>7 DEF Flow
<1> QED BY <1>4, <1>8 DEF p

LEMMA RecvLast ==
  ASSUME NEW r, NEW q, NEW s, NEW k, NEW h, r.pieces \in Nat, Flow(r, q, s, k, h), q # <<>>, Head(q) = Done
  PROVE  k = r.pieces
<1> DEFINE E == UNION {{Text(i), Done} : i \in Nat}
<1>1. /\ k \in 0 .. s /\ s \in 0 .. r.pieces /\ q \in Seq(E)
      /\ \A j \in 1 .. Len(q) : q[j] = IF j <= s - k THEN Text(k + j) ELSE Done
      /\ \/ Len(q) = s - k
         \/ Len(q) = s - k + 1 /\ s = r.pieces /\ ~h
  BY DEF Flow
<1> HIDE DEF E
<1>2. Len(q) \in Nat \ {0} /\ Head(q) = q[1]
  BY <1>1
<1>3. \A x : Text(x) # Done
  BY DEF Text, Done
<1>4. ~(1 <= s - k)
  BY <1>1, <1>2, <1>3
<1> QED BY <1>1, <1>2, <1>4

-----------------------------------------------------------------------------
(* One client *)

\* Whatever a connection is at, what it wrote so far may stay as it is.
LEMMA SoFar ==
  ASSUME NEW r, NEW l, NEW w, NEW t, NEW q, NEW s, NEW j, NEW a, NEW u,
         r.pieces \in Nat, r.stream \in BOOLEAN,
         l \in {"accepted", "read", "opening", "waiting", "ending", "closed", "aborted"},
         ClientOK(r, l, w, t, q, s, j, a, u)
  PROVE  Whole(r, w)
<1>1. CASE l \in {"accepted", "read"}
  BY <1>1 DEF ClientOK, Whole, Singles, Streams
<1>2. CASE l \in {"opening", "waiting"}
  <2>1. IsCompletion(r)
    BY <1>2 DEF ClientOK
  <2>a. PICK k \in Nat : Flow(r, q, s, k, j \/ a) /\ Copied(r, w, t, l, k)
    BY <1>2 DEF ClientOK
  <2>2. k \in 0 .. r.pieces /\ Copied(r, w, t, l, k)
    BY <2>a DEF Flow
  <2>3. w = <<>> \/ (r.stream /\ w = <<Open>> \o Pieces(k))
    BY <2>2 DEF Copied
  <2> QED BY <2>1, <2>2, <2>3 DEF Whole, Singles, Streams
<1>3. CASE l = "ending"
  <2>1. Ending(r, w)
    BY <1>3 DEF ClientOK
  <2>2. <<Open>> \o Pieces(r.pieces) \o <<Final>> \in Streams(r)
    BY DEF Streams
  <2> QED BY <2>1, <2>2 DEF Ending, Whole
<1>4. CASE l \in {"closed", "aborted"}
  BY <1>4 DEF ClientOK
<1> QED BY <1>1, <1>2, <1>3, <1>4

\* A client the step is not about: its connection, its channel and whether the
\* engine holds its job stay as they are.
LEMMA Untouched ==
  ASSUME NEW r, NEW l, NEW w, NEW t, NEW q, NEW s, NEW j, NEW a, NEW u, NEW jj, NEW aa,
         ClientOK(r, l, w, t, q, s, j, a, u),
         (jj \/ aa) => (j \/ a), jj => ~aa
  PROVE  ClientOK(r, l, w, t, q, s, jj, aa, u)
<1>1. l \in {"accepted", "read"} => w = <<>> /\ t = <<>> /\ q = <<>> /\ s = 0 /\ ~(jj \/ aa)
  BY DEF ClientOK
<1>2. ASSUME l \in {"opening", "waiting"}
      PROVE  /\ IsCompletion(r) /\ ~Exceeds(r) /\ ~(u /\ Overflow(r))
             /\ \E k \in Nat : Flow(r, q, s, k, jj \/ aa) /\ Copied(r, w, t, l, k)
  <2>1. /\ IsCompletion(r) /\ ~Exceeds(r) /\ ~(u /\ Overflow(r))
        /\ \E k \in Nat : Flow(r, q, s, k, j \/ a) /\ Copied(r, w, t, l, k)
    BY <1>2 DEF ClientOK
  <2>2. PICK k \in Nat : Flow(r, q, s, k, j \/ a) /\ Copied(r, w, t, l, k)
    BY <2>1
  <2>3. Flow(r, q, s, k, jj \/ aa)
    BY <2>2 DEF Flow
  <2> QED BY <2>1, <2>2, <2>3
<1>3. (l = "ending" => Ending(r, w)) /\ (l \in {"closed", "aborted"} => Whole(r, w))
  BY DEF ClientOK
<1> QED BY <1>1, <1>2, <1>3 DEF ClientOK

-----------------------------------------------------------------------------
(* The steps *)

\* Every client as it was, but for c.
LEMMA OneConnection ==
  ASSUME NEW c \in Client, IInv,
         UNCHANGED <<req, unwinds, jobs, active, sent>>,
         pc' \in [Client -> {"accepted", "read", "opening", "waiting", "ending", "closed", "aborted"}],
         DOMAIN wire' = Client, DOMAIN text' = Client, DOMAIN chan' = Client,
         alive' \in BOOLEAN, gone' \subseteq Client,
         \A d \in Client \ {c} : pc'[d] = pc[d] /\ wire'[d] = wire[d] /\ text'[d] = text[d] /\ chan'[d] = chan[d],
         ClientOK(req[c], pc'[c], wire'[c], text'[c], chan'[c], sent[c], InJobs(jobs, c), c \in active, unwinds)
  PROVE  IInv'
<1>1. TypeOK'
  BY DEF IInv, TypeOK
<1>2. ClientsOK'
  <2> SUFFICES ASSUME NEW d \in Client
               PROVE  ClientOK(req'[d], pc'[d], wire'[d], text'[d], chan'[d], sent'[d],
                               InJobs(jobs', d), d \in active', unwinds')
    BY DEF ClientsOK
  <2>1. CASE d = c
    BY <2>1
  <2>2. CASE d # c
    BY <2>2 DEF IInv, ClientsOK
  <2> QED BY <2>1, <2>2
<1> QED BY <1>1, <1>2 DEF IInv

LEMMA Requested ==
  ASSUME IInv, NEW c \in Client
  PROVE  /\ req[c].pieces \in Nat /\ req[c].stream \in BOOLEAN
         /\ pc[c] \in {"accepted", "read", "opening", "waiting", "ending", "closed", "aborted"}
         /\ ClientOK(req[c], pc[c], wire[c], text[c], chan[c], sent[c], InJobs(jobs, c), c \in active, unwinds)
         /\ Whole(req[c], wire[c])
         /\ InJobs(jobs, c) => c \notin active
<1>1. req[c].pieces \in Nat /\ req[c].stream \in BOOLEAN
  BY ServerAssumption DEF IInv
<1>2. pc[c] \in {"accepted", "read", "opening", "waiting", "ending", "closed", "aborted"}
  BY DEF IInv, TypeOK
<1>3. ClientOK(req[c], pc[c], wire[c], text[c], chan[c], sent[c], InJobs(jobs, c), c \in active, unwinds)
  BY DEF IInv, ClientsOK
<1>4. Whole(req[c], wire[c])
  BY <1>1, <1>2, <1>3, SoFar
<1>5. InJobs(jobs, c) => c \notin active
  BY <1>3 DEF ClientOK
<1> QED BY <1>1, <1>2, <1>3, <1>4, <1>5

\* A reply that ends the connection, written or failed on a client that is gone.
LEMMA LastWrite ==
  ASSUME IInv, NEW c \in Client, NEW frames, Write(c, frames, "closed"),
         Whole(req[c], wire[c] \o frames),
         UNCHANGED <<req, unwinds, jobs, active, sent, alive, gone, text>>,
         DOMAIN chan' = Client, \A d \in Client \ {c} : chan'[d] = chan[d]
  PROVE  IInv'
<1>1. /\ pc' = [pc EXCEPT ![c] = "closed"]
      /\ wire' = [wire EXCEPT ![c] = @ \o frames] \/ UNCHANGED wire
  BY DEF Write, Goto
<1>2. /\ pc' \in [Client -> {"accepted", "read", "opening", "waiting", "ending", "closed", "aborted"}]
      /\ pc'[c] = "closed" /\ \A d \in Client \ {c} : pc'[d] = pc[d]
  BY <1>1 DEF IInv, TypeOK
<1>3. DOMAIN wire' = Client /\ \A d \in Client \ {c} : wire'[d] = wire[d]
  BY <1>1 DEF IInv
<1>4. Whole(req[c], wire'[c])
  <2>1. wire'[c] = wire[c] \o frames \/ wire'[c] = wire[c]
    BY <1>1 DEF IInv
  <2> QED BY <2>1, Requested
<1>5. ClientOK(req[c], pc'[c], wire'[c], text'[c], chan'[c], sent[c], InJobs(jobs, c), c \in active, unwinds)
  BY <1>2, <1>4, Requested DEF ClientOK
<1>6. alive' \in BOOLEAN /\ gone' \subseteq Client /\ DOMAIN text' = Client
  BY DEF IInv, TypeOK
<1> QED BY <1>2, <1>3, <1>5, <1>6, OneConnection

LEMMA ReadStep ==
  ASSUME IInv, NEW c \in Client, Read(c)
  PROVE  IInv'
<1>1. /\ pc[c] = "accepted" /\ pc' = [pc EXCEPT ![c] = "read"]
      /\ UNCHANGED <<req, unwinds, wire, text, gone, chan, jobs, active, sent, alive>>
  BY DEF Read, Goto, engine
<1>2. /\ pc' \in [Client -> {"accepted", "read", "opening", "waiting", "ending", "closed", "aborted"}]
      /\ pc'[c] = "read" /\ \A d \in Client \ {c} : pc'[d] = pc[d]
  BY <1>1 DEF IInv, TypeOK
<1>3. ClientOK(req[c], "read", wire[c], text[c], chan[c], sent[c], InJobs(jobs, c), c \in active, unwinds)
  BY <1>1, Requested DEF ClientOK
<1>4. alive' \in BOOLEAN /\ gone' \subseteq Client /\ DOMAIN text' = Client /\ DOMAIN wire' = Client /\ DOMAIN chan' = Client
  BY <1>1 DEF IInv, TypeOK
<1> QED BY <1>1, <1>2, <1>3, <1>4, OneConnection

\* Before a connection has a job it has written nothing.
LEMMA Unwritten ==
  ASSUME IInv, NEW c \in Client, pc[c] = "read"
  PROVE  /\ wire[c] = <<>> /\ text[c] = <<>> /\ chan[c] = <<>> /\ sent[c] = 0
         /\ ~InJobs(jobs, c) /\ c \notin active
BY Requested DEF ClientOK

LEMMA ReplyStep ==
  ASSUME IInv, NEW c \in Client, Reply(c)
  PROVE  IInv'
<1>1. /\ pc[c] = "read" /\ ~IsCompletion(req[c])
      /\ UNCHANGED <<req, unwinds, text, gone, chan, jobs, active, sent, alive>>
  BY DEF Reply, engine
<1>2. CASE ReplyTo(req[c]) = 0
  <2>1. pc' = [pc EXCEPT ![c] = "closed"] /\ UNCHANGED wire
    BY <1>2 DEF Reply, Goto
  <2>2. /\ pc' \in [Client -> {"accepted", "read", "opening", "waiting", "ending", "closed", "aborted"}]
        /\ pc'[c] = "closed" /\ \A d \in Client \ {c} : pc'[d] = pc[d]
    BY <2>1 DEF IInv, TypeOK
  <2>3. ClientOK(req[c], pc'[c], wire[c], text[c], chan[c], sent[c], InJobs(jobs, c), c \in active, unwinds)
    BY <2>2, Requested DEF ClientOK
  <2>4. alive' \in BOOLEAN /\ gone' \subseteq Client /\ DOMAIN text' = Client /\ DOMAIN wire' = Client /\ DOMAIN chan' = Client
    BY <1>1, <2>1 DEF IInv, TypeOK
  <2> QED BY <1>1, <2>1, <2>2, <2>3, <2>4, OneConnection
<1>3. CASE ReplyTo(req[c]) # 0
  <2>1. Write(c, <<Status(ReplyTo(req[c]))>>, "closed")
    BY <1>3 DEF Reply
  <2>2. wire[c] \o <<Status(ReplyTo(req[c]))>> = <<Status(ReplyTo(req[c]))>>
    BY <1>1, Unwritten, OntoNothing
  <2>3. Whole(req[c], wire[c] \o <<Status(ReplyTo(req[c]))>>)
    BY <1>1, <2>2 DEF Whole
  <2>4. DOMAIN chan' = Client
    BY <1>1 DEF IInv
  <2> QED BY <1>1, <2>1, <2>3, <2>4, LastWrite
<1> QED BY <1>2, <1>3

LEMMA RefuseStep ==
  ASSUME IInv, NEW c \in Client, Refuse(c) \/ NoEngine(c)
  PROVE  IInv'
<1>1. PICK code \in {400, 500} :
        /\ pc[c] = "read" /\ IsCompletion(req[c]) /\ Write(c, <<Status(code)>>, "closed")
        /\ UNCHANGED <<req, unwinds, text, gone, chan, jobs, active, sent, alive>>
  BY DEF Refuse, NoEngine, Admitted, engine
<1>2. wire[c] \o <<Status(code)>> = <<Status(code)>>
  <2>1. wire[c] = <<>>
    BY <1>1, Unwritten
  <2>2. <<>> \o <<Status(code)>> = <<Status(code)>>
    BY OntoNothing
  <2> QED BY <2>1, <2>2
<1>3. Whole(req[c], <<Status(code)>>)
  BY <1>1 DEF Whole, Refusals
<1>4. DOMAIN chan' = Client
  BY <1>1 DEF IInv
<1> QED BY <1>1, <1>2, <1>3, <1>4, LastWrite

LEMMA PanicStep ==
  ASSUME IInv, NEW c \in Client, Panic(c)
  PROVE  IInv'
<1>1. /\ pc' = [pc EXCEPT ![c] = "closed"]
      /\ UNCHANGED <<req, unwinds, wire, text, gone, chan, jobs, active, sent, alive>>
  BY DEF Panic, Goto, engine
<1>2. /\ pc' \in [Client -> {"accepted", "read", "opening", "waiting", "ending", "closed", "aborted"}]
      /\ pc'[c] = "closed" /\ \A d \in Client \ {c} : pc'[d] = pc[d]
  BY <1>1 DEF IInv, TypeOK
<1>3. ClientOK(req[c], pc'[c], wire[c], text[c], chan[c], sent[c], InJobs(jobs, c), c \in active, unwinds)
  BY <1>2, Requested DEF ClientOK
<1>4. /\ alive' \in BOOLEAN /\ gone' \subseteq Client
      /\ DOMAIN text' = Client /\ DOMAIN wire' = Client /\ DOMAIN chan' = Client
  BY <1>1 DEF IInv, TypeOK
<1> QED BY <1>1, <1>2, <1>3, <1>4, OneConnection

\* An answer of which nothing was sent yet.
LEMMA Beginning ==
  ASSUME NEW r, r.pieces \in Nat, r.stream \in BOOLEAN, NEW h
  PROVE  /\ Flow(r, <<>>, 0, 0, h)
         /\ Copied(r, <<>>, <<>>, IF r.stream THEN "opening" ELSE "waiting", 0)
<1>1. UpTo(0) = <<>>
  BY UpToIs, 0 \in Nat
<1>2. <<>> \in Seq(UNION {{Text(i), Done} : i \in Nat}) /\ Len(<<>>) = 0
  OBVIOUS
<1>3. Flow(r, <<>>, 0, 0, h)
  BY <1>2 DEF Flow
<1> QED BY <1>1, <1>3 DEF Copied

LEMMA SubmitStep ==
  ASSUME IInv, NEW c \in Client, Submit(c)
  PROVE  IInv'
<1> DEFINE l == IF req[c].stream THEN "opening" ELSE "waiting"
<1>1. /\ pc[c] = "read" /\ IsCompletion(req[c]) /\ ~(unwinds /\ Overflow(req[c])) /\ ~Exceeds(req[c])
      /\ jobs' = Append(jobs, c) /\ pc' = [pc EXCEPT ![c] = l]
      /\ UNCHANGED <<req, unwinds, wire, text, gone, chan, active, sent, alive>>
  BY DEF Submit, Admitted, Goto
<1>2. jobs \in Seq(Client) /\ Len(jobs) \in Nat /\ DOMAIN jobs = 1 .. Len(jobs)
  BY DEF IInv, TypeOK
<1>3. /\ jobs' \in Seq(Client) /\ DOMAIN jobs' = 1 .. Len(jobs) + 1
      /\ jobs'[Len(jobs) + 1] = c /\ \A i \in 1 .. Len(jobs) : jobs'[i] = jobs[i]
  BY <1>1, <1>2
<1>4. wire[c] = <<>> /\ text[c] = <<>> /\ chan[c] = <<>> /\ sent[c] = 0 /\ ~InJobs(jobs, c) /\ c \notin active
  BY <1>1, Unwritten
<1>5. \A i, j \in DOMAIN jobs' : jobs'[i] = jobs'[j] => i = j
  BY <1>2, <1>3, <1>4 DEF IInv, InJobs
<1>6. TypeOK'
  BY <1>1, <1>3 DEF IInv, TypeOK
<1>7. InJobs(jobs', c) /\ \A d \in Client \ {c} : (InJobs(jobs', d) => InJobs(jobs, d))
  BY <1>2, <1>3 DEF InJobs
<1>8. ClientsOK'
  <2> SUFFICES ASSUME NEW d \in Client
               PROVE  ClientOK(req[d], pc'[d], wire[d], text[d], chan[d], sent[d],
                               InJobs(jobs', d), d \in active, unwinds)
    BY <1>1 DEF ClientsOK
  <2>1. CASE d = c
    <3>1. pc'[c] = l /\ l \in {"opening", "waiting"}
      BY <1>1 DEF IInv, TypeOK
    <3>2. /\ Flow(req[c], chan[c], sent[c], 0, InJobs(jobs', c) \/ c \in active)
          /\ Copied(req[c], wire[c], text[c], l, 0)
      BY <1>4, Requested, Beginning
    <3> HIDE DEF l
    <3> QED BY <1>1, <1>4, <2>1, <3>1, <3>2 DEF ClientOK
  <2>2. CASE d # c
    <3>1. pc'[d] = pc[d]
      BY <1>1, <2>2 DEF IInv, TypeOK
    <3>2. (InJobs(jobs', d) => InJobs(jobs, d)) /\ (InJobs(jobs', d) => ~(d \in active))
      BY <1>7, <2>2, Requested
    <3>3. ClientOK(req[d], pc[d], wire[d], text[d], chan[d], sent[d], InJobs(jobs', d), d \in active, unwinds)
      BY <3>2, Requested, Untouched
    <3> QED BY <3>1, <3>3
  <2> QED BY <2>1, <2>2
<1> QED BY <1>1, <1>5, <1>6, <1>8 DEF IInv

LEMMA OpenStep ==
  ASSUME IInv, NEW c \in Client, OpenStream(c)
  PROVE  IInv'
<1>1. /\ pc[c] = "opening" /\ Write(c, <<Open>>, "waiting")
      /\ UNCHANGED <<req, unwinds, text, gone, chan, jobs, active, sent, alive>>
  BY DEF OpenStream, engine
<1>2. /\ IsCompletion(req[c]) /\ ~Exceeds(req[c]) /\ ~(unwinds /\ Overflow(req[c]))
      /\ \E k \in Nat : /\ Flow(req[c], chan[c], sent[c], k, InJobs(jobs, c) \/ c \in active)
                        /\ Copied(req[c], wire[c], text[c], pc[c], k)
  BY <1>1, Requested DEF ClientOK
<1>3. /\ Flow(req[c], chan[c], sent[c], 0, InJobs(jobs, c) \/ c \in active)
      /\ wire[c] = <<>> /\ req[c].stream
  BY <1>1, <1>2 DEF Copied
<1>4. /\ pc' \in [Client -> {"accepted", "read", "opening", "waiting", "ending", "closed", "aborted"}]
      /\ \A d \in Client \ {c} : pc'[d] = pc[d] /\ wire'[d] = wire[d]
      /\ DOMAIN wire' = Client
      /\ \/ pc'[c] = "waiting" /\ wire'[c] = wire[c] \o <<Open>>
         \/ pc'[c] = "closed" /\ wire'[c] = wire[c]
  BY <1>1 DEF IInv, TypeOK, Write, Goto
<1>5. ClientOK(req[c], pc'[c], wire'[c], text[c], chan[c], sent[c], InJobs(jobs, c), c \in active, unwinds)
  <2>1. CASE pc'[c] = "waiting" /\ wire'[c] = wire[c] \o <<Open>>
    <3>1. <<Open>> \o Pieces(0) = <<Open>> /\ wire[c] \o <<Open>> = <<Open>>
      <4>1. Pieces(0) = <<>>
        BY PiecesAre, 0 \in Nat DEF Pieces
      <4>2. <<Open>> \in Seq({Open})
        OBVIOUS
      <4> QED BY <1>3, <4>1, <4>2, OntoNothing, ConcatEmptySeq
    <3>2. Copied(req[c], wire'[c], text[c], "waiting", 0)
      BY <1>3, <2>1, <3>1 DEF Copied
    <3> QED BY <1>2, <1>3, <2>1, <3>2, Requested DEF ClientOK
  <2>2. CASE pc'[c] = "closed" /\ wire'[c] = wire[c]
    BY <2>2, Requested DEF ClientOK
  <2> QED BY <1>4, <2>1, <2>2
<1>6. /\ alive' \in BOOLEAN /\ gone' \subseteq Client
      /\ DOMAIN text' = Client /\ DOMAIN chan' = Client
  BY <1>1 DEF IInv, TypeOK
<1> QED BY <1>1, <1>4, <1>5, <1>6, OneConnection

\* What a waiting connection knows.
LEMMA Waiting ==
  ASSUME IInv, NEW c \in Client, pc[c] = "waiting"
  PROVE  /\ IsCompletion(req[c]) /\ ~Exceeds(req[c]) /\ ~(unwinds /\ Overflow(req[c]))
         /\ \E k \in Nat :
              /\ Flow(req[c], chan[c], sent[c], k, InJobs(jobs, c) \/ c \in active)
              /\ IF req[c].stream THEN wire[c] = <<Open>> \o Pieces(k)
                 ELSE wire[c] = <<>> /\ text[c] = UpTo(k)
<1>1. /\ IsCompletion(req[c]) /\ ~Exceeds(req[c]) /\ ~(unwinds /\ Overflow(req[c]))
      /\ \E k \in Nat : /\ Flow(req[c], chan[c], sent[c], k, InJobs(jobs, c) \/ c \in active)
                        /\ Copied(req[c], wire[c], text[c], pc[c], k)
  BY Requested DEF ClientOK
<1>2. PICK k \in Nat : /\ Flow(req[c], chan[c], sent[c], k, InJobs(jobs, c) \/ c \in active)
                       /\ Copied(req[c], wire[c], text[c], pc[c], k)
  BY <1>1
<1>3. IF req[c].stream THEN wire[c] = <<Open>> \o Pieces(k) ELSE wire[c] = <<>> /\ text[c] = UpTo(k)
  BY <1>2 DEF Copied
<1> QED BY <1>1, <1>2, <1>3

LEMMA RecvStep ==
  ASSUME IInv, NEW c \in Client, Recv(c)
  PROVE  IInv'
<1> DEFINE e == Head(chan[c])
<1>1. /\ pc[c] = "waiting" /\ chan[c] # <<>> /\ chan' = [chan EXCEPT ![c] = Tail(@)]
      /\ UNCHANGED <<req, unwinds, gone, jobs, active, sent, alive>>
  BY DEF Recv, engine
<1>2. DOMAIN chan' = Client /\ chan'[c] = Tail(chan[c]) /\ \A d \in Client \ {c} : chan'[d] = chan[d]
  BY <1>1 DEF IInv
<1>3. IsCompletion(req[c]) /\ ~Exceeds(req[c]) /\ ~(unwinds /\ Overflow(req[c]))
  BY <1>1, Waiting
<1>4. PICK k \in Nat :
        /\ Flow(req[c], chan[c], sent[c], k, InJobs(jobs, c) \/ c \in active)
        /\ IF req[c].stream THEN wire[c] = <<Open>> \o Pieces(k)
           ELSE wire[c] = <<>> /\ text[c] = UpTo(k)
  BY <1>1, Waiting
<1>5. alive' \in BOOLEAN /\ gone' \subseteq Client
  BY <1>1 DEF IInv, TypeOK
<1>6. ASSUME e # Done
      PROVE  /\ e[2] = k + 1
             /\ Flow(req[c], chan'[c], sent[c], k + 1, InJobs(jobs, c) \/ c \in active)
  <2> DEFINE h == InJobs(jobs, c) \/ c \in active
  <2>1. Flow(req[c], chan[c], sent[c], k, h) /\ chan'[c] = Tail(chan[c])
    BY <1>2, <1>4
  <2> HIDE DEF h
  <2>2. req[c].pieces \in Nat /\ chan[c] # <<>> /\ Head(chan[c]) # Done
    BY <1>1, <1>6, Requested
  <2>3. Head(chan[c]) = Text(k + 1) /\ Flow(req[c], Tail(chan[c]), sent[c], k + 1, h)
    BY <2>1, <2>2, RecvPiece
  <2> QED BY <2>1, <2>3 DEF Text, h
<1>7. CASE e # Done /\ ~req[c].stream
  <2>1. text' = [text EXCEPT ![c] = Append(@, e[2])] /\ UNCHANGED <<pc, wire>>
    BY <1>7 DEF Recv
  <2>2. /\ DOMAIN text' = Client /\ DOMAIN wire' = Client
        /\ \A d \in Client \ {c} : text'[d] = text[d]
        /\ text'[c] = Append(text[c], e[2])
    BY <2>1 DEF IInv
  <2>3. text'[c] = UpTo(k + 1)
    BY <1>4, <1>6, <1>7, <2>2, MoreTexts
  <2>4. Copied(req[c], wire'[c], text'[c], pc'[c], k + 1)
    BY <1>1, <1>4, <1>7, <2>1, <2>3 DEF Copied
  <2>5. ClientOK(req[c], pc'[c], wire'[c], text'[c], chan'[c], sent[c], InJobs(jobs, c), c \in active, unwinds)
    BY <1>1, <1>3, <1>6, <1>7, <2>1, <2>4, k + 1 \in Nat, Requested DEF ClientOK
  <2>6. pc' \in [Client -> {"accepted", "read", "opening", "waiting", "ending", "closed", "aborted"}]
    BY <2>1 DEF IInv, TypeOK
  <2> QED BY <1>1, <1>2, <1>5, <2>1, <2>2, <2>5, <2>6, OneConnection
<1>8. CASE e # Done /\ req[c].stream
  <2>1. Write(c, <<Piece(e[2])>>, "waiting") /\ UNCHANGED text
    BY <1>8 DEF Recv
  <2>2. /\ pc' \in [Client -> {"accepted", "read", "opening", "waiting", "ending", "closed", "aborted"}]
        /\ \A d \in Client \ {c} : pc'[d] = pc[d] /\ wire'[d] = wire[d]
        /\ DOMAIN wire' = Client /\ DOMAIN text' = Client
        /\ \/ pc'[c] = "waiting" /\ wire'[c] = wire[c] \o <<Piece(e[2])>>
           \/ pc'[c] = "closed" /\ wire'[c] = wire[c]
    BY <2>1 DEF IInv, TypeOK, Write, Goto
  <2>5. ClientOK(req[c], pc'[c], wire'[c], text'[c], chan'[c], sent[c], InJobs(jobs, c), c \in active, unwinds)
    <3>1. CASE pc'[c] = "waiting" /\ wire'[c] = wire[c] \o <<Piece(e[2])>>
      <4>1. wire'[c] = <<Open>> \o Pieces(k + 1)
        BY <1>4, <1>6, <1>8, <3>1, MorePieces
      <4>2. Copied(req[c], wire'[c], text'[c], pc'[c], k + 1)
        BY <1>8, <3>1, <4>1 DEF Copied
      <4> QED BY <1>3, <1>6, <1>8, <3>1, <4>2, k + 1 \in Nat, Requested DEF ClientOK
    <3>2. CASE pc'[c] = "closed" /\ wire'[c] = wire[c]
      BY <3>2, Requested DEF ClientOK
    <3> QED BY <2>2, <3>1, <3>2
  <2> QED BY <1>1, <1>2, <1>5, <2>1, <2>2, <2>5, OneConnection
<1>9. CASE e = Done /\ req[c].stream
  <2>1. Write(c, <<Final>>, "ending") /\ UNCHANGED text
    BY <1>9 DEF Recv
  <2>2. k = req[c].pieces
    BY <1>1, <1>4, <1>9, Requested, RecvLast
  <2>3. /\ pc' \in [Client -> {"accepted", "read", "opening", "waiting", "ending", "closed", "aborted"}]
        /\ \A d \in Client \ {c} : pc'[d] = pc[d] /\ wire'[d] = wire[d]
        /\ DOMAIN wire' = Client /\ DOMAIN text' = Client
        /\ \/ pc'[c] = "ending" /\ wire'[c] = wire[c] \o <<Final>>
           \/ pc'[c] = "closed" /\ wire'[c] = wire[c]
    BY <2>1 DEF IInv, TypeOK, Write, Goto
  <2>4. ClientOK(req[c], pc'[c], wire'[c], text'[c], chan'[c], sent[c], InJobs(jobs, c), c \in active, unwinds)
    <3>1. CASE pc'[c] = "ending" /\ wire'[c] = wire[c] \o <<Final>>
      <4>1. wire'[c] = <<Open>> \o Pieces(req[c].pieces) \o <<Final>>
        BY <1>4, <1>9, <2>2, <3>1
      <4>2. Ending(req[c], wire'[c])
        BY <1>3, <1>9, <4>1 DEF Ending
      <4> QED BY <3>1, <4>2, Requested DEF ClientOK
    <3>2. CASE pc'[c] = "closed" /\ wire'[c] = wire[c]
      BY <3>2, Requested DEF ClientOK
    <3> QED BY <2>3, <3>1, <3>2
  <2> QED BY <1>1, <1>2, <1>5, <2>1, <2>3, <2>4, OneConnection
<1>10. CASE e = Done /\ ~req[c].stream
  <2> DEFINE f == <<Status(200), Body(text[c])>>
  <2>1. Write(c, f, "closed") /\ UNCHANGED text
    BY <1>10 DEF Recv
  <2>2. k = req[c].pieces
    BY <1>1, <1>4, <1>10, Requested, RecvLast
  <2>3. wire[c] \o f = <<Status(200), Body(UpTo(req[c].pieces))>>
    BY <1>4, <1>10, <2>2, OntoNothing
  <2> HIDE DEF f
  <2>4. Whole(req[c], wire[c] \o f)
    BY <1>3, <1>10, <2>3 DEF Whole, Singles
  <2> QED BY <1>1, <1>2, <2>1, <2>4, LastWrite
<1> QED BY <1>7, <1>8, <1>9, <1>10

LEMMA EndStep ==
  ASSUME IInv, NEW c \in Client, EndStream(c)
  PROVE  IInv'
<1>1. /\ pc[c] = "ending" /\ Write(c, <<End>>, "closed")
      /\ UNCHANGED <<req, unwinds, text, gone, chan, jobs, active, sent, alive>>
  BY DEF EndStream, engine
<1>2. Ending(req[c], wire[c])
  BY <1>1, Requested DEF ClientOK
<1>3. Whole(req[c], wire[c] \o <<End>>)
  <2> DEFINE p == <<Open>> \o Pieces(req[c].pieces)
  <2>1. wire[c] \o <<End>> = p \o <<Final, End>>
    BY <1>2, Requested, StreamEnds DEF Ending
  <2>2. p \o <<Final, End>> \in Streams(req[c])
    BY DEF Streams
  <2> QED BY <1>2, <2>1, <2>2 DEF Ending, Whole
<1>4. DOMAIN chan' = Client
  BY <1>1 DEF IInv
<1> QED BY <1>1, <1>3, <1>4, LastWrite

LEMMA RecvErrorStep ==
  ASSUME IInv, NEW c \in Client, RecvError(c)
  PROVE  IInv'
<1> DEFINE f == Apology(c)
<1>1. /\ pc[c] = "waiting" /\ Write(c, f, "closed")
      /\ UNCHANGED <<req, unwinds, text, gone, chan, jobs, active, sent, alive>>
  BY DEF RecvError, engine
<1>2. IsCompletion(req[c])
  BY <1>1, Waiting
<1>3. PICK k \in Nat :
        /\ Flow(req[c], chan[c], sent[c], k, InJobs(jobs, c) \/ c \in active)
        /\ IF req[c].stream THEN wire[c] = <<Open>> \o Pieces(k)
           ELSE wire[c] = <<>> /\ text[c] = UpTo(k)
  BY <1>1, Waiting
<1>4. Whole(req[c], wire[c] \o f)
  <2>1. CASE req[c].stream
    <3>1. f = <<End>> /\ wire[c] \o f = <<Open>> \o Pieces(k) \o <<End>>
      BY <1>3, <2>1 DEF Apology
    <3>2. k \in 0 .. req[c].pieces
      BY <1>3, Requested DEF Flow
    <3>3. <<Open>> \o Pieces(k) \o <<End>> \in Streams(req[c])
      BY <3>2 DEF Streams
    <3> QED BY <1>2, <2>1, <3>1, <3>3 DEF Whole
  <2>2. CASE ~req[c].stream
    <3>1. wire[c] \o f = <<Status(500)>>
      <4>1. wire[c] = <<>>
        BY <1>3, <2>2
      <4>2. f = <<Status(500)>>
        BY <2>2 DEF Apology
      <4>3. <<>> \o <<Status(500)>> = <<Status(500)>>
        BY OntoNothing
      <4> QED BY <4>1, <4>2, <4>3
    <3> QED BY <1>2, <2>2, <3>1 DEF Whole, Refusals
  <2> QED BY <2>1, <2>2
<1>5. DOMAIN chan' = Client
  BY <1>1 DEF IInv
<1> HIDE DEF f
<1> QED BY <1>1, <1>4, <1>5, LastWrite

LEMMA HangUpStep ==
  ASSUME IInv, NEW c \in Client, HangUp(c)
  PROVE  IInv'
<1>1. /\ gone' = gone \cup {c}
      /\ UNCHANGED <<req, unwinds, pc, wire, text, chan, jobs, active, sent, alive>>
  BY DEF HangUp, conn, engine
<1>2. TypeOK'
  BY <1>1 DEF IInv, TypeOK
<1>3. ClientsOK'
  BY <1>1 DEF IInv, ClientsOK
<1> QED BY <1>1, <1>2, <1>3 DEF IInv

LEMMA TakeStep ==
  ASSUME IInv, Take
  PROVE  IInv'
<1> DEFINE h == Head(jobs)
<1>1. /\ jobs # <<>> /\ Cardinality(active) < Batch
      /\ active' = active \cup {h} /\ jobs' = Tail(jobs)
      /\ UNCHANGED <<req, unwinds, pc, wire, text, gone, chan, sent, alive>>
  BY DEF Take, Free, conn
<1>2. /\ jobs \in Seq(Client) /\ Len(jobs) \in Nat \ {0} /\ DOMAIN jobs = 1 .. Len(jobs)
      /\ h = jobs[1] /\ h \in Client
  BY <1>1 DEF IInv, TypeOK
<1>3. /\ jobs' \in Seq(Client) /\ DOMAIN jobs' = 1 .. Len(jobs) - 1
      /\ \A i \in 1 .. Len(jobs) - 1 : jobs'[i] = jobs[i + 1]
  BY <1>1, <1>2
<1>4. InJobs(jobs, h)
  BY <1>2 DEF InJobs
<1>5. h \notin active /\ \A i, j \in DOMAIN jobs : jobs[i] = jobs[j] => i = j
  BY <1>2, <1>4, Requested DEF IInv
<1>6. \A d \in Client : InJobs(jobs', d) => InJobs(jobs, d) /\ d # h
  <2> SUFFICES ASSUME NEW d \in Client, NEW i \in DOMAIN jobs', jobs'[i] = d
               PROVE  InJobs(jobs, d) /\ d # h
    BY DEF InJobs
  <2>1. i + 1 \in DOMAIN jobs /\ jobs[i + 1] = d /\ 1 \in DOMAIN jobs /\ i + 1 # 1
    BY <1>2, <1>3
  <2> QED BY <2>1, <1>2, <1>5 DEF InJobs
<1>7. \A i, j \in DOMAIN jobs' : jobs'[i] = jobs'[j] => i = j
  <2> SUFFICES ASSUME NEW i \in DOMAIN jobs', NEW j \in DOMAIN jobs', jobs'[i] = jobs'[j]
               PROVE  i = j
    OBVIOUS
  <2>1. i + 1 \in DOMAIN jobs /\ j + 1 \in DOMAIN jobs /\ jobs[i + 1] = jobs[j + 1] /\ i \in Nat /\ j \in Nat
    BY <1>2, <1>3
  <2> QED BY <2>1, <1>5
<1> HIDE DEF h
<1>8. IsFiniteSet(active') /\ Cardinality(active') <= Batch
  <2>1. IsFiniteSet(active) /\ Cardinality(active) \in Nat
    BY FS_CardinalityType DEF IInv
  <2>2. IsFiniteSet(active') /\ Cardinality(active') = Cardinality(active) + 1
    BY <1>1, <1>5, <2>1, FS_AddElement
  <2> QED BY <1>1, <2>1, <2>2, ServerAssumption
<1>9. TypeOK'
  BY <1>1, <1>2, <1>3, <1>8 DEF IInv, TypeOK
<1>10. ClientsOK'
  <2> SUFFICES ASSUME NEW d \in Client
               PROVE  ClientOK(req[d], pc[d], wire[d], text[d], chan[d], sent[d],
                               InJobs(jobs', d), d \in active', unwinds)
    BY <1>1 DEF ClientsOK
  <2>1. d \in active' => InJobs(jobs, d) \/ d \in active
    BY <1>1, <1>4
  <2>2. InJobs(jobs', d) => InJobs(jobs, d) /\ ~(d \in active')
    BY <1>1, <1>6, Requested
  <2> QED BY <2>1, <2>2, Requested, Untouched
<1> QED BY <1>1, <1>7, <1>8, <1>9, <1>10 DEF IInv

LEMMA SendStep ==
  ASSUME IInv, NEW c \in Client, Send(c)
  PROVE  IInv'
<1> DEFINE e == IF sent[c] < req[c].pieces THEN Text(sent[c] + 1) ELSE Done
<1>1. /\ c \in active
      /\ chan' = IF pc[c] = "closed" THEN chan ELSE [chan EXCEPT ![c] = Append(@, e)]
      /\ sent' = IF e = Done THEN sent ELSE [sent EXCEPT ![c] = @ + 1]
      /\ active' = IF e = Done THEN active \ {c} ELSE active
      /\ UNCHANGED <<req, unwinds, pc, wire, text, gone, jobs, alive>>
  BY DEF Send, Retired, conn
<1>2. e = Done <=> ~(sent[c] < req[c].pieces)
  BY DEF Text, Done
<1> HIDE DEF e
<1>3. IsFiniteSet(active') /\ Cardinality(active') <= Batch /\ active' \subseteq active
  <2>1. active' \subseteq active
    BY <1>1
  <2>2. IsFiniteSet(active') /\ Cardinality(active') <= Cardinality(active)
    BY <2>1, FS_Subset DEF IInv
  <2> QED BY <2>1, <2>2, FS_CardinalityType, ServerAssumption DEF IInv, TypeOK
<1>4. TypeOK'
  BY <1>1, <1>3 DEF IInv, TypeOK
<1>5. /\ DOMAIN chan' = Client /\ \A d \in Client \ {c} : chan'[d] = chan[d]
      /\ \A d \in Client \ {c} : sent'[d] = sent[d] /\ (d \in active' <=> d \in active)
  BY <1>1 DEF IInv, TypeOK
<1>6. ~InJobs(jobs, c)
  BY <1>1, Requested
<1>7. ClientOK(req[c], pc[c], wire[c], text[c], chan'[c], sent'[c], InJobs(jobs, c), c \in active', unwinds)
  <2>1. CASE pc[c] \in {"closed", "aborted"}
    BY <1>6, <2>1, Requested DEF ClientOK
  <2>2. CASE pc[c] \in {"accepted", "read", "ending"}
    BY <1>1, <1>6, <2>2, Requested DEF ClientOK
  <2>3. CASE pc[c] \in {"opening", "waiting"}
    <3>1. /\ IsCompletion(req[c]) /\ ~Exceeds(req[c]) /\ ~(unwinds /\ Overflow(req[c]))
          /\ \E k \in Nat : /\ Flow(req[c], chan[c], sent[c], k, InJobs(jobs, c) \/ c \in active)
                            /\ Copied(req[c], wire[c], text[c], pc[c], k)
      BY <2>3, Requested DEF ClientOK
    <3>2. PICK k \in Nat : /\ Flow(req[c], chan[c], sent[c], k, InJobs(jobs, c) \/ c \in active)
                           /\ Copied(req[c], wire[c], text[c], pc[c], k)
      BY <3>1
    <3>3. Flow(req[c], chan[c], sent[c], k, TRUE)
      BY <1>1, <3>2 DEF Flow
    <3>4. chan'[c] = Append(chan[c], e)
      BY <1>1, <2>3 DEF IInv
    <3>5. Flow(req[c], chan'[c], sent'[c], k, InJobs(jobs, c) \/ c \in active')
      <4>1. CASE sent[c] < req[c].pieces
        <5>1. e = Text(sent[c] + 1) /\ sent'[c] = sent[c] + 1 /\ c \in active'
          BY <1>1, <1>2, <4>1 DEF IInv, TypeOK, e
        <5>2. Flow(req[c], chan'[c], sent'[c], k, TRUE)
          BY <3>3, <3>4, <4>1, <5>1, Requested, SendPiece
        <5> QED BY <5>1, <5>2 DEF Flow
      <4>2. CASE ~(sent[c] < req[c].pieces)
        <5>1. e = Done /\ sent'[c] = sent[c] /\ c \notin active'
          BY <1>1, <1>2, <4>2 DEF IInv, TypeOK
        <5>2. Flow(req[c], chan'[c], sent'[c], k, FALSE)
          BY <3>3, <3>4, <4>2, <5>1, Requested, SendDone
        <5> QED BY <1>6, <5>1, <5>2 DEF Flow
      <4> QED BY <4>1, <4>2
    <3> QED BY <1>6, <2>3, <3>1, <3>2, <3>5 DEF ClientOK
  <2> QED BY <2>1, <2>2, <2>3, Requested
<1>8. ClientsOK'
  <2> SUFFICES ASSUME NEW d \in Client
               PROVE  ClientOK(req[d], pc[d], wire[d], text[d], chan'[d], sent'[d],
                               InJobs(jobs, d), d \in active', unwinds)
    BY <1>1 DEF ClientsOK
  <2>1. CASE d = c
    BY <1>7, <2>1
  <2>2. CASE d # c
    BY <1>5, <2>2, Requested DEF ClientOK
  <2> QED BY <2>1, <2>2
<1> QED BY <1>1, <1>3, <1>4, <1>5, <1>8 DEF IInv

LEMMA DieStep ==
  ASSUME IInv, Die
  PROVE  IInv'
<1>1. /\ alive' = FALSE /\ jobs' = <<>> /\ active' = {}
      /\ pc' = IF unwinds THEN pc
               ELSE [c \in Client |-> IF pc[c] = "closed" THEN "closed" ELSE "aborted"]
      /\ UNCHANGED <<req, unwinds, wire, text, gone, chan, sent>>
  BY DEF Die
<1>2. IsFiniteSet(active') /\ Cardinality(active') = 0
  BY <1>1, FS_EmptySet
<1>3. pc' \in [Client -> {"accepted", "read", "opening", "waiting", "ending", "closed", "aborted"}]
  BY <1>1 DEF IInv, TypeOK
<1>4. TypeOK'
  <2>1. jobs' \in Seq(Client) /\ Cardinality(active') <= Batch
    BY <1>1, <1>2, ServerAssumption
  <2>2. active' \subseteq Client /\ gone' \subseteq Client /\ alive' \in BOOLEAN
        /\ sent' \in [Client -> Nat] /\ unwinds' \in BOOLEAN
    BY <1>1 DEF IInv, TypeOK
  <2> QED BY <1>3, <2>1, <2>2 DEF TypeOK
<1>5. \A c \in Client : ~InJobs(jobs', c) /\ c \notin active'
  BY <1>1 DEF InJobs
<1>6. ClientsOK'
  <2> SUFFICES ASSUME NEW d \in Client
               PROVE  ClientOK(req[d], pc'[d], wire[d], text[d], chan[d], sent[d],
                               InJobs(jobs', d), d \in active', unwinds)
    BY <1>1 DEF ClientsOK
  <2>1. CASE unwinds
    <3>1. ClientOK(req[d], pc[d], wire[d], text[d], chan[d], sent[d], InJobs(jobs', d), d \in active', unwinds)
      BY <1>5, Requested, Untouched
    <3> QED BY <1>1, <2>1, <3>1
  <2>2. CASE ~unwinds
    <3>1. pc'[d] \in {"closed", "aborted"}
      BY <1>1, <2>2
    <3> QED BY <1>5, <3>1, Requested DEF ClientOK
  <2> QED BY <2>1, <2>2
<1>7. \A i, j \in DOMAIN jobs' : jobs'[i] = jobs'[j] => i = j
  BY <1>1
<1> QED BY <1>1, <1>2, <1>4, <1>6, <1>7 DEF IInv

LEMMA InitOK == Init => IInv
<1> SUFFICES ASSUME Init PROVE IInv
  OBVIOUS
<1>1. DOMAIN req = Client /\ \A c \in Client : req[c] \in Offers[c]
  BY DEF Init
<1>2. IsFiniteSet(active) /\ Cardinality(active) = 0
  BY FS_EmptySet DEF Init
<1>3. TypeOK
  BY <1>2, ServerAssumption DEF Init, TypeOK
<1>4. \A c \in Client : ~InJobs(jobs, c) /\ c \notin active
  BY DEF Init, InJobs
<1>5. ClientsOK
  BY <1>4 DEF Init, ClientsOK, ClientOK
<1>6. /\ DOMAIN wire = Client /\ DOMAIN text = Client /\ DOMAIN chan = Client
      /\ \A i, j \in DOMAIN jobs : jobs[i] = jobs[j] => i = j
  BY DEF Init
<1> QED BY <1>1, <1>2, <1>3, <1>5, <1>6 DEF IInv

LEMMA NextOK == IInv /\ [Next]_vars => IInv'
<1> SUFFICES ASSUME IInv, [Next]_vars PROVE IInv'
  OBVIOUS
<1>1. CASE UNCHANGED vars
  <2>1. UNCHANGED <<req, unwinds, pc, wire, text, gone, chan, jobs, active, sent, alive>>
    BY <1>1 DEF vars, conn, engine
  <2> QED BY <2>1 DEF IInv, TypeOK, ClientsOK
<1>2. CASE Take
  BY <1>2, TakeStep
<1>3. CASE Die
  BY <1>3, DieStep
<1>4. ASSUME NEW c \in Client, Read(c) \/ Connection(c) \/ HangUp(c) \/ Send(c)
      PROVE  IInv'
  <2>1. CASE Read(c) \/ Reply(c) \/ Refuse(c) \/ NoEngine(c) \/ Panic(c) \/ Submit(c)
    BY <2>1, ReadStep, ReplyStep, RefuseStep, PanicStep, SubmitStep
  <2>2. CASE OpenStream(c) \/ Recv(c) \/ EndStream(c) \/ RecvError(c)
    BY <2>2, OpenStep, RecvStep, EndStep, RecvErrorStep
  <2>3. CASE HangUp(c) \/ Send(c)
    BY <2>3, HangUpStep, SendStep
  <2> QED BY <1>4, <2>1, <2>2, <2>3 DEF Connection
<1> QED BY <1>1, <1>2, <1>3, <1>4 DEF Next

\* IInv holds in every reachable state.
LEMMA Invariance == Spec => []IInv
<1>1. Init => IInv
  BY InitOK
<1>2. IInv /\ [Next]_vars => IInv'
  BY NextOK
<1> QED BY <1>1, <1>2, PTL DEF Spec

-----------------------------------------------------------------------------
(* The theorems *)

\* The variables keep their types, and the engine never works on more jobs than
\* it has slots.
THEOREM ServerTypeCorrect == Spec => []TypeOK
<1>1. IInv => TypeOK
  BY DEF IInv
<1> QED BY <1>1, Invariance, PTL

\* For any number of clients, whatever they ask, whenever they hang up and
\* whenever the engine dies: a 200 that is not streamed has the whole answer,
\* the final chunk of a stream follows every one of its pieces, in order, and
\* nothing of one answer is ever written to another client's socket.
THEOREM ResponsesWhole == Spec => []ResponseWhole
<1>1. IInv => ResponseWhole
  BY Requested DEF ResponseWhole, Whole
<1> QED BY <1>1, Invariance, PTL

-----------------------------------------------------------------------------
(* The launch: its inductive invariant *)

\* What the code needs and does not ask for: nothing locks the .part file.
OneDownload == \A p, q \in Launch \ Offline : p = q

Transfer == [to : Inode \cup {Absent}, version : Nat, from : Nat, next : Nat]
States == {"resolve", "transfer", "rename", "ready", "exit"}

\* A beginning of the file, in blocks of whatever versions.
Partial(s) == s \in Seq(Int \X Int) /\ Len(s) <= Blocks /\ \A k \in 1 .. Len(s) : s[k][2] = k

Shape ==
  /\ stage \in [Launch -> States] /\ at \in [Launch -> {1, 2}] /\ curl \in [Launch -> Transfer]
  /\ dest \in [Name -> Inode \cup {Absent}] /\ part \in [Name -> Inode \cup {Absent}]
  /\ data \in [Inode -> Seq(Int \X Int)] /\ version \in Nat /\ trips \in Nat
  /\ fetched \in [Name -> Nat]

\* The names share no file, and what is in no file under a name is empty.
Names ==
  /\ \A f, g \in Name : dest[f] # Absent => dest[f] # part[g]
  /\ \A f, g \in Name : f # g /\ dest[f] # Absent => dest[f] # dest[g]
  /\ \A f, g \in Name : f # g /\ part[f] # Absent => part[f] # part[g]
  /\ \A i \in Inode : data[i] # <<>> => \E f \in Name : i \in {dest[f], part[f]}

Contents ==
  /\ \A i \in Inode : Partial(data[i])
  /\ \A f \in Name : dest[f] # Absent => Len(data[dest[f]]) = Blocks

\* A transfer appends where the partial file of the wanted name ends.
Transfers ==
  \A p \in Launch :
    /\ stage[p] = "transfer" =>
         /\ p \notin Offline /\ dest[Wanted(p)] = Absent /\ part[Wanted(p)] # Absent
         /\ curl[p].to = part[Wanted(p)]
         /\ curl[p].next = Len(data[part[Wanted(p)]]) + 1
    /\ stage[p] # "transfer" => curl[p] = NoCurl

\* A file is renamed when it is whole.
Renames ==
  \A p \in Launch : stage[p] = "rename" =>
    /\ p \notin Offline /\ dest[Wanted(p)] = Absent /\ part[Wanted(p)] # Absent
    /\ Len(data[part[Wanted(p)]]) = Blocks

\* A launch has the files before the one it is at.
Has(p, f) == f \in Given[p] \/ dest[f] # Absent
Progress ==
  \A p \in Launch :
    /\ stage[p] \in {"resolve", "transfer", "rename"} => \A i \in 1 .. at[p] - 1 : Has(p, File[i])
    /\ stage[p] = "ready" => \A i \in {1, 2} : Has(p, File[i])

\* What was transferred for a name is in the file under it, or in its .part.
Kept(f) == IF dest[f] # Absent THEN Len(data[dest[f]])
           ELSE IF part[f] # Absent THEN Len(data[part[f]]) ELSE 0
Counted == \A f \in Name : fetched[f] = Kept(f)

FetchInv == Shape /\ Names /\ Contents /\ Transfers /\ Renames /\ Progress /\ Counted

-----------------------------------------------------------------------------
LEMMA Files ==
  /\ DOMAIN File = {1, 2} /\ Len(File) = 2 /\ Name = {File[1], File[2]} /\ File[1] # File[2]
  /\ \A f \in Name : \E i \in {1, 2} : f = File[i]
  /\ \A i \in {1, 2} : File[i] \in Name
<1>1. DOMAIN File = {1, 2} /\ Len(File) = 2 /\ File[1] = "weights" /\ File[2] = "tokenizer"
  BY DEF File
<1>2. Name = {File[1], File[2]}
  BY <1>1 DEF Name
<1> QED BY <1>1, <1>2

LEMMA WantedIs ==
  ASSUME Shape, NEW p \in Launch
  PROVE  Wanted(p) \in Name /\ at[p] \in {1, 2} /\ Wanted(p) = File[at[p]]
BY Files DEF Shape, Wanted

LEMMA FetchInitOK == FetchInit => FetchInv
<1> SUFFICES ASSUME FetchInit PROVE FetchInv
  OBVIOUS
<1>1. Shape
  <2>1. NoCurl \in Transfer
    BY DEF NoCurl, Transfer
  <2>2. data \in [Inode -> Seq(Int \X Int)]
    BY DEF FetchInit
  <2> QED BY <2>1, <2>2 DEF FetchInit, Shape, States
<1>2. Names
  BY DEF FetchInit, Names
<1>3. \A i \in Inode : data[i] = <<>>
  BY DEF FetchInit
<1>4. <<>> \in Seq(Int \X Int) /\ Len(<<>>) = 0
  OBVIOUS
<1>5. Contents
  BY <1>3, <1>4, FetchAssumption DEF FetchInit, Contents, Partial
<1>6. \A p \in Launch : stage[p] = "resolve" /\ curl[p] = NoCurl /\ at[p] = 1
  BY DEF FetchInit
<1>7. Progress
  <2> SUFFICES ASSUME NEW p \in Launch, NEW i \in 1 .. at[p] - 1
               PROVE  Has(p, File[i])
    BY <1>6 DEF Progress
  <2>1. i \in 1 .. 1 - 1
    BY <1>6
  <2> QED BY <2>1
<1>8. Transfers /\ Renames
  BY <1>6 DEF Transfers, Renames
<1>9. Counted
  BY DEF FetchInit, Counted, Kept
<1> QED BY <1>1, <1>2, <1>5, <1>8, <1>7, <1>9 DEF FetchInv

-----------------------------------------------------------------------------
(* The steps *)

\* A step that leaves the files alone, of one launch, whose transfer is over.
LEMMA Moved ==
  ASSUME FetchInv, NEW p \in Launch, UNCHANGED files,
         NEW l \in States, l # "transfer",
         stage' = [stage EXCEPT ![p] = l], curl' = [curl EXCEPT ![p] = NoCurl],
         at' \in [Launch -> {1, 2}], \A q \in Launch \ {p} : at'[q] = at[q],
         version' \in Nat, trips' \in Nat,
         l = "rename" => /\ p \notin Offline /\ dest[File[at'[p]]] = Absent /\ part[File[at'[p]]] # Absent
                         /\ Len(data[part[File[at'[p]]]]) = Blocks,
         l \in {"resolve", "rename"} => \A i \in 1 .. at'[p] - 1 : Has(p, File[i]),
         l = "ready" => \A i \in {1, 2} : Has(p, File[i])
  PROVE  FetchInv'
<1>0. UNCHANGED <<dest, part, data, fetched>> /\ NoCurl \in Transfer
  BY DEF files, NoCurl, Transfer
<1>1. /\ stage'[p] = l /\ curl'[p] = NoCurl /\ curl' \in [Launch -> Transfer] /\ stage' \in [Launch -> States]
      /\ \A q \in Launch \ {p} : stage'[q] = stage[q] /\ curl'[q] = curl[q]
  BY <1>0 DEF FetchInv, Shape
<1>2. Shape' /\ Names' /\ Contents'
  BY <1>0, <1>1 DEF FetchInv, Shape, Names, Contents
<1>4. Transfers'
  BY <1>0, <1>1 DEF FetchInv, Transfers, Wanted
<1>5. Renames'
  BY <1>0, <1>1 DEF FetchInv, Renames, Wanted
<1>6. Progress'
  BY <1>0, <1>1 DEF FetchInv, Progress, Has
<1>7. Counted'
  BY <1>0 DEF FetchInv, Counted, Kept
<1> QED BY <1>2, <1>4, <1>5, <1>6, <1>7 DEF FetchInv

LEMMA Idle ==
  ASSUME FetchInv, NEW p \in Launch, stage[p] # "transfer"
  PROVE  [curl EXCEPT ![p] = NoCurl] = curl
<1>1. curl[p] = NoCurl /\ curl \in [Launch -> Transfer]
  BY DEF FetchInv, Transfers, Shape
<1> QED BY <1>1

\* Where a launch goes after the file it is at.
LEMMA NextFileIs ==
  ASSUME Shape, NEW p \in Launch, NextFile(p)
  PROVE  /\ at' \in [Launch -> {1, 2}] /\ \A q \in Launch \ {p} : at'[q] = at[q]
         /\ \/ at[p] = 1 /\ at'[p] = 2 /\ stage' = [stage EXCEPT ![p] = "resolve"]
            \/ at[p] = 2 /\ at'[p] = 2 /\ stage' = [stage EXCEPT ![p] = "ready"]
<1>1. at \in [Launch -> {1, 2}] /\ Len(File) = 2
  BY Files DEF Shape
<1>2. CASE at[p] < 2
  <2>1. at' = [at EXCEPT ![p] = @ + 1] /\ stage' = [stage EXCEPT ![p] = "resolve"] /\ at[p] = 1
    BY <1>1, <1>2 DEF NextFile, Proceed
  <2> QED BY <1>1, <2>1
<1>3. CASE ~(at[p] < 2)
  <2>1. at' = at /\ stage' = [stage EXCEPT ![p] = "ready"] /\ at[p] = 2
    BY <1>1, <1>3 DEF NextFile, Proceed
  <2> QED BY <1>1, <2>1
<1> QED BY <1>2, <1>3

LEMMA FoundStep ==
  ASSUME FetchInv, NEW p \in Launch, Found(p)
  PROVE  FetchInv'
<1>1. /\ stage[p] = "resolve" /\ Has(p, File[at[p]]) /\ NextFile(p)
      /\ UNCHANGED <<curl, files, version, trips>>
  BY DEF Found, There, Has, Wanted
<1>2. Shape /\ curl' = [curl EXCEPT ![p] = NoCurl] /\ version' \in Nat /\ trips' \in Nat
  BY <1>1, Idle DEF FetchInv, Shape
<1>3. \A i \in 1 .. at[p] - 1 : Has(p, File[i])
  BY <1>1 DEF FetchInv, Progress
<1>4. /\ at' \in [Launch -> {1, 2}] /\ \A q \in Launch \ {p} : at'[q] = at[q]
      /\ \/ at[p] = 1 /\ at'[p] = 2 /\ stage' = [stage EXCEPT ![p] = "resolve"]
         \/ at[p] = 2 /\ at'[p] = 2 /\ stage' = [stage EXCEPT ![p] = "ready"]
  BY <1>1, <1>2, NextFileIs
<1>5. CASE at[p] = 1 /\ at'[p] = 2 /\ stage' = [stage EXCEPT ![p] = "resolve"]
  <2>1. \A i \in 1 .. at'[p] - 1 : Has(p, File[i])
    BY <1>1, <1>5
  <2>2. "resolve" \in States
    BY DEF States
  <2> QED BY <1>1, <1>2, <1>4, <1>5, <2>1, <2>2, Moved
<1>6. CASE at[p] = 2 /\ at'[p] = 2 /\ stage' = [stage EXCEPT ![p] = "ready"]
  <2>1. \A i \in {1, 2} : Has(p, File[i])
    BY <1>1, <1>3, <1>6
  <2>2. "ready" \in States
    BY DEF States
  <2> QED BY <1>1, <1>2, <1>4, <1>6, <2>1, <2>2, Moved
<1> QED BY <1>4, <1>5, <1>6

\* Steps that only end a launch, or begin it anew.
LEMMA OutStep ==
  ASSUME FetchInv, NEW p \in Launch, NotFound(p) \/ Crash(p) \/ Relaunch(p)
  PROVE  FetchInv'
<1>1. /\ curl' = [curl EXCEPT ![p] = NoCurl] /\ UNCHANGED files
      /\ version' \in Nat /\ trips' \in Nat
  <2>1. CASE NotFound(p)
    BY <2>1, Idle DEF NotFound, FetchInv, Shape
  <2>2. CASE Crash(p)
    BY <2>2 DEF Crash, FetchInv, Shape
  <2>3. CASE Relaunch(p)
    BY <2>3, Idle DEF Relaunch, FetchInv, Shape
  <2> QED BY <2>1, <2>2, <2>3
<1>2. CASE NotFound(p) \/ Crash(p)
  <2>1. stage' = [stage EXCEPT ![p] = "exit"] /\ UNCHANGED at
    BY <1>2 DEF NotFound, Crash, Proceed
  <2>2. at' \in [Launch -> {1, 2}] /\ "exit" \in States
    BY <2>1 DEF FetchInv, Shape, States
  <2> QED BY <1>1, <2>1, <2>2, Moved
<1>3. CASE Relaunch(p)
  <2>1. stage' = [stage EXCEPT ![p] = "resolve"] /\ at' = [at EXCEPT ![p] = 1]
    BY <1>3 DEF Relaunch, Proceed
  <2>2. /\ at' \in [Launch -> {1, 2}] /\ at'[p] = 1 /\ "resolve" \in States
        /\ \A q \in Launch \ {p} : at'[q] = at[q]
    BY <2>1 DEF FetchInv, Shape, States
  <2>3. \A i \in 1 .. at'[p] - 1 : Has(p, File[i])
    <3>1. 1 .. 1 - 1 = {}
      OBVIOUS
    <3> QED BY <2>2, <3>1
  <2> QED BY <1>1, <2>1, <2>2, <2>3, Moved
<1> QED BY <1>2, <1>3

LEMMA EndedStep ==
  ASSUME FetchInv, NEW p \in Launch, Ended(p)
  PROVE  FetchInv'
<1>1. /\ stage[p] = "transfer" /\ curl' = [curl EXCEPT ![p] = NoCurl]
      /\ UNCHANGED <<at, files, version>> /\ trips' \in Nat
      /\ \/ curl[p].next > Blocks /\ stage' = [stage EXCEPT ![p] = "rename"]
         \/ stage' = [stage EXCEPT ![p] = "exit"]
  BY DEF Ended, Finished, Verdict, Proceed, FetchInv, Shape
<1>2. at' \in [Launch -> {1, 2}] /\ version' \in Nat /\ "rename" \in States /\ "exit" \in States
  BY <1>1 DEF FetchInv, Shape, States
<1>3. CASE stage' = [stage EXCEPT ![p] = "exit"]
  BY <1>1, <1>2, <1>3, Moved
<1>4. CASE curl[p].next > Blocks /\ stage' = [stage EXCEPT ![p] = "rename"]
  <2> DEFINE n == part[Wanted(p)]
  <2>1. /\ p \notin Offline /\ dest[Wanted(p)] = Absent /\ n # Absent
        /\ curl[p].next = Len(data[n]) + 1
    BY <1>1 DEF FetchInv, Transfers
  <2>2. Wanted(p) \in Name /\ Wanted(p) = File[at[p]]
    BY WantedIs DEF FetchInv
  <2>3. n \in Inode
    BY <2>1, <2>2 DEF FetchInv, Shape
  <2>4. Len(data[n]) = Blocks
    <3>1. data[n] \in Seq(Int \X Int) /\ Len(data[n]) <= Blocks
      BY <2>3 DEF FetchInv, Contents, Partial
    <3> HIDE DEF n
    <3> QED BY <1>4, <2>1, <3>1, FetchAssumption
  <2>5. \A i \in 1 .. at'[p] - 1 : Has(p, File[i])
    BY <1>1 DEF FetchInv, Progress
  <2> QED BY <1>1, <1>2, <1>4, <2>1, <2>2, <2>4, <2>5, Moved
<1> QED BY <1>1, <1>3, <1>4

LEMMA PublishStep ==
  ASSUME FetchInv, Publish
  PROVE  FetchInv'
<1>1. UNCHANGED <<stage, at, curl, dest, part, data, fetched, trips>> /\ version' = version + 1
  BY DEF Publish, files
<1>2. Shape'
  BY <1>1 DEF FetchInv, Shape
<1>3. Names' /\ Contents' /\ Transfers' /\ Renames' /\ Progress' /\ Counted'
  BY <1>1 DEF FetchInv, Names, Contents, Transfers, Renames, Progress, Wanted, Has, Counted, Kept
<1> QED BY <1>2, <1>3 DEF FetchInv

-----------------------------------------------------------------------------
(* The steps that need the one launch that downloads *)

LEMMA Alone ==
  ASSUME OneDownload, FetchInv, NEW p \in Launch, p \notin Offline, NEW q \in Launch, q # p
  PROVE  stage[q] \notin {"transfer", "rename"} /\ curl[q] = NoCurl
BY DEF OneDownload, FetchInv, Transfers, Renames

\* There is a file left for a new transfer.
LEMMA FreshIs ==
  ASSUME OneDownload, FetchInv, NEW p \in Launch, p \notin Offline, stage[p] = "resolve",
         NEW f \in Name, part[f] = Absent
  PROVE  /\ Fresh \in Inode /\ data[Fresh] = <<>>
         /\ \A g \in Name : Fresh \notin {dest[g], part[g]}
<1>1. \A i \in Inode : \A q \in Launch : curl[q].to # i
  <2>1. ASSUME NEW q \in Launch PROVE curl[q] = NoCurl
    <3>1. CASE q = p
      BY <3>1 DEF FetchInv, Transfers
    <3>2. CASE q # p
      BY <3>2, Alone
    <3> QED BY <3>1, <3>2
  <2>2. NoCurl.to = 0 /\ 0 \notin Inode
    BY DEF NoCurl, Absent, Inode
  <2> QED BY <2>1, <2>2
<1>2. PICK g \in Name : Name = {f, g}
  BY Files
<1>3. {1, 2, 3, 4} \subseteq Inode
  BY FetchAssumption DEF Inode
<1>4. PICK i \in {1, 2, 3, 4} : i # dest[f] /\ i # dest[g] /\ i # part[g]
  OBVIOUS
<1>5. i \in Inode /\ i # part[f]
  BY <1>3, <1>4 DEF Absent
<1>6. \A h \in Name : i \notin {dest[h], part[h]}
  BY <1>2, <1>4, <1>5
<1>7. data[i] = <<>>
  BY <1>5, <1>6 DEF FetchInv, Names
<1> QED BY <1>1, <1>5, <1>6, <1>7 DEF Fresh

LEMMA StartStep ==
  ASSUME OneDownload, FetchInv, NEW p \in Launch, Start(p)
  PROVE  FetchInv'
<1> DEFINE f == Wanted(p)
           i == Opened(f)
           n == Len(data[i]) + 1
<1>1. /\ stage[p] = "resolve" /\ p \notin Offline /\ dest[f] = Absent
      /\ part' = [part EXCEPT ![f] = i]
      /\ curl' = [curl EXCEPT ![p] = [to |-> i, version |-> version, from |-> n, next |-> n]]
      /\ stage' = [stage EXCEPT ![p] = "transfer"]
      /\ UNCHANGED <<at, dest, data, fetched, version, trips>>
  BY DEF Start, There, Proceed
<1>2. f \in Name /\ f = File[at[p]]
  BY WantedIs DEF FetchInv
<1>3. i \in Inode /\ \A g \in Name : i # dest[g] /\ (g # f => i # part[g])
  <2>1. CASE part[f] = Absent
    BY <1>1, <1>2, <2>1, FreshIs DEF Opened
  <2>2. CASE part[f] # Absent
    <3>1. part[f] \in Inode /\ part[f] # Absent
      BY <1>2, <2>2 DEF FetchInv, Shape
    <3> QED BY <1>2, <2>2, <3>1 DEF FetchInv, Names, Opened
  <2> QED BY <2>1, <2>2
<1>0. Len(data[i]) = IF part[f] # Absent THEN Len(data[part[f]]) ELSE 0
  <2>1. CASE part[f] = Absent
    <3>1. data[i] = <<>>
      BY <1>1, <1>2, <2>1, FreshIs DEF Opened
    <3> QED BY <2>1, <3>1
  <2>2. CASE part[f] # Absent
    BY <2>2 DEF Opened
  <2> QED BY <2>1, <2>2
<1> HIDE DEF i, f
<1>4. data' = data /\ n \in Nat \ {0}
  BY <1>1, <1>3 DEF FetchInv, Shape
<1>5. i # Absent
  BY <1>3 DEF Inode, Absent
<1> HIDE DEF n
<1>6. /\ stage'[p] = "transfer" /\ curl'[p] = [to |-> i, version |-> version, from |-> n, next |-> n]
      /\ part'[f] = i /\ \A g \in Name \ {f} : part'[g] = part[g]
      /\ \A q \in Launch \ {p} : stage'[q] = stage[q] /\ curl'[q] = curl[q]
  BY <1>1, <1>2 DEF FetchInv, Shape
<1>7. Shape'
  <2>1. [to |-> i, version |-> version, from |-> n, next |-> n] \in Transfer
    BY <1>3, <1>4 DEF FetchInv, Shape, Transfer
  <2>2. stage' \in [Launch -> States] /\ part' \in [Name -> Inode \cup {Absent}]
    BY <1>1, <1>3 DEF FetchInv, Shape, States
  <2> QED BY <1>1, <1>4, <2>1, <2>2 DEF FetchInv, Shape
<1>8. Names'
  <2>1. \A g, h \in Name : dest[g] # Absent => dest[g] # part'[h]
    BY <1>3, <1>6 DEF FetchInv, Names
  <2>2. \A g, h \in Name : g # h /\ part'[g] # Absent => part'[g] # part'[h]
    BY <1>3, <1>6 DEF FetchInv, Names
  <2>3. \A j \in Inode : data[j] # <<>> => \E g \in Name : j \in {dest[g], part'[g]}
    <3>1. part[f] # Absent => i = part[f]
      BY DEF i, Opened
    <3> QED BY <1>2, <1>6, <3>1 DEF FetchInv, Names, Inode, Absent
  <2> QED BY <1>1, <1>4, <2>1, <2>2, <2>3 DEF FetchInv, Names
<1>9. Contents'
  BY <1>1, <1>4 DEF FetchInv, Contents
<1>10. Transfers' /\ Renames'
  <2> SUFFICES ASSUME NEW q \in Launch
               PROVE  /\ stage'[q] = "transfer" =>
                           /\ q \notin Offline /\ dest[File[at[q]]] = Absent /\ part'[File[at[q]]] # Absent
                           /\ curl'[q].to = part'[File[at[q]]]
                           /\ curl'[q].next = Len(data[part'[File[at[q]]]]) + 1
                      /\ stage'[q] # "transfer" => curl'[q] = NoCurl
                      /\ stage'[q] # "rename"
    BY <1>1, <1>4 DEF Transfers, Renames, Wanted
  <2>1. CASE q = p
    BY <1>1, <1>2, <1>5, <1>6, <2>1 DEF n
  <2>2. CASE q # p
    BY <1>1, <1>6, <2>2, Alone
  <2> QED BY <2>1, <2>2
<1>11. Progress'
  BY <1>1, <1>6 DEF FetchInv, Progress, Has
<1>12. Counted'
  <2> SUFFICES ASSUME NEW g \in Name
               PROVE  fetched[g] = IF dest[g] # Absent THEN Len(data[dest[g]])
                                   ELSE IF part'[g] # Absent THEN Len(data[part'[g]]) ELSE 0
    BY <1>1 DEF Counted, Kept
  <2>1. fetched[g] = Kept(g)
    BY DEF FetchInv, Counted
  <2>2. CASE g = f
    BY <1>0, <1>1, <1>5, <1>6, <2>1, <2>2 DEF Kept
  <2>3. CASE g # f
    BY <1>6, <2>1, <2>3 DEF Kept
  <2> QED BY <2>2, <2>3
<1> QED BY <1>7, <1>8, <1>9, <1>10, <1>11, <1>12 DEF FetchInv

LEMMA BlockStep ==
  ASSUME OneDownload, FetchInv, NEW p \in Launch, Block(p)
  PROVE  FetchInv'
<1> DEFINE f == Wanted(p)
           n == part[f]
           b == <<curl[p].version, curl[p].next>>
<1>1. /\ curl[p] # NoCurl /\ curl[p].next <= Blocks
      /\ data' = [data EXCEPT ![curl[p].to] = Append(@, b)]
      /\ curl' = [curl EXCEPT ![p].next = @ + 1]
      /\ fetched' = [fetched EXCEPT ![f] = @ + 1]
      /\ UNCHANGED <<stage, at, dest, part, version, trips>>
  BY DEF Block
<1>2. stage[p] = "transfer" /\ p \notin Offline /\ dest[f] = Absent /\ n # Absent
      /\ curl[p].to = n /\ curl[p].next = Len(data[n]) + 1
  BY <1>1 DEF FetchInv, Transfers
<1>3. f \in Name /\ f = File[at[p]] /\ n \in Inode
  BY <1>2, WantedIs DEF FetchInv, Shape
<1>4. /\ curl[p] \in Transfer /\ data[n] \in Seq(Int \X Int) /\ Partial(data[n])
      /\ b \in Int \X Int
  BY <1>3 DEF FetchInv, Shape, Transfer, Contents
<1>5. /\ curl'[p].to = n /\ curl'[p].next = Len(data[n]) + 2 /\ curl' \in [Launch -> Transfer]
      /\ \A q \in Launch \ {p} : curl'[q] = curl[q]
  <2> DEFINE m == [curl[p] EXCEPT !.next = curl[p].next + 1]
  <2>1. curl' = [curl EXCEPT ![p] = m]
    BY <1>1
  <2>2. m \in Transfer
    <3>1. curl[p].next + 1 \in Nat
      BY <1>4 DEF Transfer
    <3> QED BY <1>4, <3>1 DEF Transfer
  <2>3. m.to = n /\ m.next = curl[p].next + 1
    BY <1>2, <1>4 DEF Transfer
  <2> HIDE DEF m
  <2>4. curl[p].next + 1 = Len(data[n]) + 2
    BY <1>2, <1>4
  <2> QED BY <2>1, <2>2, <2>3, <2>4 DEF FetchInv, Shape
<1> HIDE DEF n, f
<1>6. /\ data'[n] = Append(data[n], b) /\ data' \in [Inode -> Seq(Int \X Int)]
      /\ \A j \in Inode \ {n} : data'[j] = data[j]
  BY <1>1, <1>2, <1>3, <1>4 DEF FetchInv, Shape
<1>7. Partial(data'[n]) /\ Len(data'[n]) = Len(data[n]) + 1
  <2> DEFINE s == data[n]
  <2>1. b[2] = Len(s) + 1 /\ Len(s) + 1 <= Blocks
    BY <1>1, <1>2
  <2>2. s \in Seq(Int \X Int) /\ \A k \in 1 .. Len(s) : s[k][2] = k
    BY <1>4 DEF Partial
  <2> HIDE DEF s, b
  <2>3. /\ Append(s, b) \in Seq(Int \X Int) /\ Len(Append(s, b)) = Len(s) + 1
        /\ Append(s, b)[Len(s) + 1] = b /\ \A k \in 1 .. Len(s) : Append(s, b)[k] = s[k]
    BY <1>4, <2>2
  <2>4. \A k \in 1 .. Len(s) + 1 : Append(s, b)[k][2] = k
    BY <2>1, <2>2, <2>3
  <2>5. Partial(Append(s, b))
    BY <2>1, <2>3, <2>4 DEF Partial
  <2> QED BY <1>6, <2>3, <2>5 DEF s
<1> HIDE DEF b
<1>8. Shape'
  <2>1. fetched' \in [Name -> Nat]
    BY <1>1, <1>3 DEF FetchInv, Shape
  <2> QED BY <1>1, <1>5, <1>6, <2>1 DEF FetchInv, Shape
<1>9. Names'
  <2>1. \A j \in Inode : data'[j] # <<>> => \E g \in Name : j \in {dest[g], part[g]}
    BY <1>3, <1>6 DEF FetchInv, Names, n
  <2> QED BY <1>1, <2>1 DEF FetchInv, Names
<1>10. Contents'
  <2>1. \A j \in Inode : Partial(data'[j])
    BY <1>6, <1>7 DEF FetchInv, Contents
  <2>2. \A g \in Name : dest[g] # Absent => dest[g] # n /\ dest[g] \in Inode
    BY <1>3 DEF FetchInv, Names, Shape, n
  <2>3. \A g \in Name : dest[g] # Absent => Len(data'[dest[g]]) = Blocks
    BY <1>6, <2>2 DEF FetchInv, Contents
  <2> QED BY <1>1, <2>1, <2>3 DEF Contents
<1>11. Transfers' /\ Renames'
  <2> SUFFICES ASSUME NEW q \in Launch
               PROVE  /\ stage[q] = "transfer" =>
                           /\ q \notin Offline /\ dest[File[at[q]]] = Absent /\ part[File[at[q]]] # Absent
                           /\ curl'[q].to = part[File[at[q]]]
                           /\ curl'[q].next = Len(data'[part[File[at[q]]]]) + 1
                      /\ stage[q] # "transfer" => curl'[q] = NoCurl
                      /\ stage[q] # "rename"
    BY <1>1 DEF Transfers, Renames, Wanted
  <2>1. CASE q = p
    <3>1. Len(data'[n]) + 1 = Len(data[n]) + 2
      BY <1>4, <1>7
    <3>2. n = part[File[at[p]]] /\ dest[File[at[p]]] = Absent
      BY <1>2, <1>3 DEF n
    <3> QED BY <1>2, <1>5, <2>1, <3>1, <3>2
  <2>2. CASE q # p
    BY <1>2, <1>5, <2>2, Alone
  <2> QED BY <2>1, <2>2
<1>12. Progress'
  BY <1>1 DEF FetchInv, Progress, Has
<1>13. Counted'
  <2> SUFFICES ASSUME NEW g \in Name
               PROVE  fetched'[g] = IF dest[g] # Absent THEN Len(data'[dest[g]])
                                    ELSE IF part[g] # Absent THEN Len(data'[part[g]]) ELSE 0
    BY <1>1 DEF Counted, Kept
  <2>1. fetched[g] = Kept(g)
    BY DEF FetchInv, Counted
  <2>2. CASE g = f
    <3>1. dest[g] = Absent /\ part[g] # Absent /\ part[g] = n
      BY <1>2, <2>2 DEF n
    <3>2. fetched[g] = Len(data[n])
      BY <2>1, <3>1 DEF Kept
    <3>3. fetched'[g] = fetched[g] + 1
      BY <1>1, <2>2 DEF FetchInv, Shape
    <3> QED BY <1>7, <3>1, <3>2, <3>3
  <2>3. CASE g # f
    <3>1. fetched'[g] = fetched[g]
      BY <1>1, <2>3 DEF FetchInv, Shape
    <3>2. dest[g] # Absent => dest[g] \in Inode \ {n}
      BY <1>3 DEF FetchInv, Names, Shape, n
    <3>3. part[g] # Absent => part[g] \in Inode \ {n}
      BY <1>3, <2>3 DEF FetchInv, Names, Shape, n
    <3> QED BY <1>6, <2>1, <3>1, <3>2, <3>3 DEF Kept
  <2> QED BY <2>2, <2>3
<1> QED BY <1>8, <1>9, <1>10, <1>11, <1>12, <1>13 DEF FetchInv

LEMMA RenameStep ==
  ASSUME OneDownload, FetchInv, NEW p \in Launch, Rename(p)
  PROVE  FetchInv'
<1> DEFINE f == Wanted(p)
           n == part[f]
<1>1. stage[p] = "rename" /\ p \notin Offline /\ dest[f] = Absent /\ n # Absent /\ Len(data[n]) = Blocks
  BY DEF Rename, FetchInv, Renames
<1>2. /\ dest' = [dest EXCEPT ![f] = n] /\ part' = [part EXCEPT ![f] = Absent]
      /\ NextFile(p) /\ UNCHANGED <<curl, data, fetched, version, trips>>
  BY <1>1 DEF Rename
<1>3. f \in Name /\ f = File[at[p]] /\ n \in Inode /\ at[p] \in {1, 2} /\ Shape
  BY <1>1, WantedIs DEF FetchInv, Shape
<1> HIDE DEF f
<1>4. /\ at' \in [Launch -> {1, 2}] /\ \A q \in Launch \ {p} : at'[q] = at[q]
      /\ \/ at[p] = 1 /\ at'[p] = 2 /\ stage' = [stage EXCEPT ![p] = "resolve"]
         \/ at[p] = 2 /\ at'[p] = 2 /\ stage' = [stage EXCEPT ![p] = "ready"]
  BY <1>2, <1>3, NextFileIs
<1>5. /\ dest'[f] = n /\ part'[f] = Absent
      /\ \A g \in Name \ {f} : dest'[g] = dest[g] /\ part'[g] = part[g]
      /\ dest' \in [Name -> Inode \cup {Absent}] /\ part' \in [Name -> Inode \cup {Absent}]
  BY <1>2, <1>3 DEF Shape
<1>6. /\ stage' \in [Launch -> States] /\ stage'[p] \in {"resolve", "ready"}
      /\ \A q \in Launch \ {p} : stage'[q] = stage[q]
  BY <1>4, <1>3 DEF Shape, States
<1>7. Shape'
  BY <1>2, <1>4, <1>5, <1>6 DEF FetchInv, Shape
<1>8. Names'
  <2>1. \A g \in Name : n # dest[g] /\ (g # f => n # part[g])
    BY <1>1, <1>3 DEF FetchInv, Names
  <2> HIDE DEF n
  <2>2. \A g, h \in Name : dest'[g] # Absent => dest'[g] # part'[h]
    BY <1>1, <1>5, <2>1 DEF FetchInv, Names
  <2>3. \A g, h \in Name : g # h /\ dest'[g] # Absent => dest'[g] # dest'[h]
    BY <1>1, <1>5, <2>1 DEF FetchInv, Names
  <2>4. \A g, h \in Name : g # h /\ part'[g] # Absent => part'[g] # part'[h]
    BY <1>5 DEF FetchInv, Names
  <2>5. \A j \in Inode : data[j] # <<>> => \E g \in Name : j \in {dest'[g], part'[g]}
    <3> SUFFICES ASSUME NEW j \in Inode, data[j] # <<>>
                 PROVE  \E g \in Name : j \in {dest'[g], part'[g]}
      OBVIOUS
    <3>1. PICK g \in Name : j \in {dest[g], part[g]}
      BY DEF FetchInv, Names
    <3>2. 0 \notin Inode
      BY DEF Inode
    <3>3. CASE g = f
      BY <1>1, <1>3, <1>5, <3>1, <3>2, <3>3 DEF n, Absent
    <3>4. CASE g # f
      BY <1>5, <3>1, <3>4
    <3> QED BY <3>3, <3>4
  <2> QED BY <1>2, <2>2, <2>3, <2>4, <2>5 DEF Names
<1>9. Contents'
  BY <1>1, <1>2, <1>5 DEF FetchInv, Contents
<1>10. Transfers' /\ Renames'
  <2> SUFFICES ASSUME NEW q \in Launch
               PROVE  stage'[q] \notin {"transfer", "rename"} /\ curl'[q] = NoCurl
    BY DEF Transfers, Renames
  <2>1. CASE q = p
    BY <1>1, <1>2, <1>6, <2>1 DEF FetchInv, Transfers
  <2>2. CASE q # p
    BY <1>1, <1>2, <1>6, <2>2, Alone
  <2> QED BY <2>1, <2>2
<1>11. Progress'
  <2>1. \A q \in Launch, g \in Name : Has(q, g) => g \in Given[q] \/ dest'[g] # Absent
    BY <1>1, <1>5 DEF Has
  <2>2. ASSUME NEW q \in Launch \ {p}
        PROVE  /\ stage'[q] \in {"resolve", "transfer", "rename"} =>
                    \A i \in 1 .. at'[q] - 1 : File[i] \in Given[q] \/ dest'[File[i]] # Absent
               /\ stage'[q] = "ready" => \A i \in {1, 2} : File[i] \in Given[q] \/ dest'[File[i]] # Absent
    <3>1. at'[q] = at[q] /\ stage'[q] = stage[q] /\ at[q] \in {1, 2}
      BY <1>3, <1>4, <1>6 DEF Shape
    <3>2. \A i \in 1 .. at[q] - 1 : File[i] \in Name
      BY <3>1, Files
    <3> QED BY <2>1, <3>1, <3>2, Files DEF FetchInv, Progress
  <2>3. /\ \A i \in 1 .. at[p] - 1 : File[i] \in Given[p] \/ dest'[File[i]] # Absent
        /\ dest'[File[at[p]]] # Absent
    <3>1. \A i \in 1 .. at[p] - 1 : File[i] \in Name
      BY <1>3, Files
    <3>2. \A i \in 1 .. at[p] - 1 : Has(p, File[i])
      BY <1>1 DEF FetchInv, Progress
    <3> QED BY <1>1, <1>3, <1>5, <2>1, <3>1, <3>2
  <2>4. /\ stage'[p] = "resolve" =>
             \A i \in 1 .. at'[p] - 1 : File[i] \in Given[p] \/ dest'[File[i]] # Absent
        /\ stage'[p] = "ready" => \A i \in {1, 2} : File[i] \in Given[p] \/ dest'[File[i]] # Absent
    <3>1. CASE at[p] = 1 /\ at'[p] = 2 /\ stage' = [stage EXCEPT ![p] = "resolve"]
      BY <1>3, <2>3, <3>1 DEF Shape
    <3>2. CASE at[p] = 2 /\ at'[p] = 2 /\ stage' = [stage EXCEPT ![p] = "ready"]
      BY <1>3, <2>3, <3>2 DEF Shape
    <3> QED BY <1>4, <3>1, <3>2
  <2> QED BY <1>6, <2>2, <2>4 DEF Progress, Has
<1>12. Counted'
  <2> SUFFICES ASSUME NEW g \in Name
               PROVE  fetched[g] = IF dest'[g] # Absent THEN Len(data[dest'[g]])
                                   ELSE IF part'[g] # Absent THEN Len(data[part'[g]]) ELSE 0
    BY <1>2 DEF Counted, Kept
  <2>1. fetched[g] = Kept(g)
    BY DEF FetchInv, Counted
  <2>2. CASE g = f
    <3>1. part[g] = n
      BY <2>2 DEF n
    <3> QED BY <1>1, <1>5, <2>1, <2>2, <3>1 DEF Kept
  <2>3. CASE g # f
    BY <1>5, <2>1, <2>3 DEF Kept
  <2> QED BY <2>2, <2>3
<1> QED BY <1>7, <1>8, <1>9, <1>10, <1>11, <1>12 DEF FetchInv

LEMMA FetchNextOK == OneDownload /\ FetchInv /\ [FetchNext]_fetchVars => FetchInv'
<1> SUFFICES ASSUME OneDownload, FetchInv, [FetchNext]_fetchVars PROVE FetchInv'
  OBVIOUS
<1>1. CASE UNCHANGED fetchVars
  <2>1. UNCHANGED <<stage, at, curl, dest, part, data, fetched, version, trips>>
    BY <1>1 DEF fetchVars, files
  <2> QED BY <2>1 DEF FetchInv, Shape, Names, Contents, Transfers, Renames, Progress, Counted, Kept, Wanted, Has
<1>2. CASE Publish
  BY <1>2, PublishStep
<1>3. ASSUME NEW p \in Launch, Steps(p) \/ Crash(p) \/ Relaunch(p)
      PROVE  FetchInv'
  <2>1. CASE Found(p) \/ NotFound(p) \/ Crash(p) \/ Relaunch(p) \/ Ended(p)
    BY <2>1, FoundStep, OutStep, EndedStep
  <2>2. CASE Start(p) \/ Block(p) \/ Rename(p)
    BY <2>2, StartStep, BlockStep, RenameStep
  <2> QED BY <1>3, <2>1, <2>2 DEF Steps
<1> QED BY <1>1, <1>2, <1>3 DEF FetchNext

LEMMA FetchInvariance == OneDownload => (FetchSpec => []FetchInv)
<1>1. FetchInit => FetchInv
  BY FetchInitOK
<1>2. OneDownload /\ FetchInv /\ [FetchNext]_fetchVars => FetchInv'
  BY FetchNextOK
<1>3. OneDownload => []OneDownload
  <2>1. OneDownload => OneDownload'
    BY DEF OneDownload
  <2> QED BY <2>1, PTL
<1> QED BY <1>1, <1>2, <1>3, PTL DEF FetchSpec

-----------------------------------------------------------------------------
(* The theorems *)

\* The variables keep their types, no two names share a file, and a launch that
\* goes on to open its files has them.
THEOREM FetchTypeCorrect == OneDownload => (FetchSpec => []FetchTypeOK)
<1>1. FetchInv => FetchTypeOK
  <2> SUFFICES ASSUME FetchInv PROVE FetchTypeOK
    OBVIOUS
  <2>1. \A p \in Launch : stage[p] = "ready" => \A f \in Name \ Given[p] : dest[f] # Absent
    BY Files DEF FetchInv, Progress, Has
  <2> QED BY <2>1, Files DEF FetchInv, Shape, States, Names, FetchTypeOK
<1> QED BY <1>1, FetchInvariance, PTL

\* README.md:82-84: wherever the launch is killed and however often its
\* transfer fails, the file under its own name has every block once, in order.
THEOREM Untruncated == OneDownload => (FetchSpec => []NeverTruncated)
<1>1. FetchInv => NeverTruncated
  <2> SUFFICES ASSUME FetchInv, NEW f \in Name, dest[f] # Absent
               PROVE  /\ Len(data[dest[f]]) = Blocks
                      /\ \A k \in 1 .. Blocks : data[dest[f]][k][2] = k
    BY DEF NeverTruncated
  <2>1. dest[f] \in Inode
    BY DEF FetchInv, Shape
  <2> QED BY <2>1 DEF FetchInv, Contents, Partial
<1> QED BY <1>1, FetchInvariance, PTL

\* fetch.rs:53-55: over any number of launches, crashes, failed transfers and new
\* versions, no block of a file is transferred twice.  All that was transferred
\* is in the file or its .part (Counted), which never has more than its blocks.
THEOREM Unrepeated == OneDownload => (FetchSpec => []NeverRefetched)
<1>1. FetchInv => NeverRefetched
  <2> SUFFICES ASSUME FetchInv, NEW f \in Name PROVE fetched[f] <= Blocks
    BY DEF NeverRefetched
  <2>1. fetched[f] = Kept(f)
    BY DEF FetchInv, Counted
  <2>2. dest[f] \in Inode \cup {Absent} /\ part[f] \in Inode \cup {Absent}
    BY DEF FetchInv, Shape
  <2>3. \A i \in Inode : Len(data[i]) <= Blocks
    BY DEF FetchInv, Contents, Partial
  <2>4. 0 <= Blocks
    BY FetchAssumption
  <2> QED BY <2>1, <2>2, <2>3, <2>4 DEF Kept
<1> QED BY <1>1, FetchInvariance, PTL
=============================================================================
