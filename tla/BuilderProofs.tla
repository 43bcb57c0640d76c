---------------------------- MODULE BuilderProofs ----------------------------
(***************************************************************************)
(* The pieces GrammarBuilder makes an automaton of: literals, trees of     *)
(* words, the values of each type, parameters.  Ok describes a builder at  *)
(* work: the shape of its states, and which of them have no way on yet.    *)
(* Means gives each of its states a language, the texts that lead from it  *)
(* to the accepting state, and Fit is both: an operation of the builder    *)
(* keeps the languages of the states there were and gives the new ones     *)
(* theirs.                                                                 *)
(***************************************************************************)
EXTENDS Constrained, SequenceTheorems, FiniteSetTheorems, WellFoundedInduction, TLAPS

-----------------------------------------------------------------------------
(* Builders *)

Delims == {CallOpen, CallClose, Quote}
Index  == Nat \ {0}
Class  == {cl \in [bytes : {{}, Digit, StrByte}, to : Nat, exitOn : Byte \cup {None}, exit : Nat] :
             cl.exit = None \/ cl.exitOn \in Byte}
Row    == [lits : Seq(Byte \X Index), toks : Seq(Delims \X Index), class : Class, accept : BOOLEAN]
Builder == [st : Seq(Row), panic : BOOLEAN]
Cursor  == [b : Builder, at : Index]

\* Every edge of q leads to one of n states.
Points(q, n) ==
  /\ \A i \in DOMAIN q.lits : q.lits[i][2] <= n
  /\ \A i \in DOMAIN q.toks : q.toks[i][2] <= n
  /\ q.class.to <= n /\ q.class.exit <= n

\* There is a way on from q.
Leads(q) == q.lits # <<>> \/ q.toks # <<>> \/ q.class.bytes = Digit

\* b fails no assertion, d is its accepting state (none when d is 0), and of its
\* states only those in open may lack a way on.
Ok(b, d, open) ==
  /\ b \in Builder /\ ~b.panic
  /\ d \in 0 .. Len(b.st)
  /\ \A s \in 1 .. Len(b.st) :
       /\ Points(b.st[s], Len(b.st))
       /\ b.st[s].accept = (s = d)
       /\ s \in open \/ Leads(b.st[s])

\* Of the states of b, r has changed s alone.
Edits(b, r, s) ==
  Len(b.st) <= Len(r.st) /\ \A q \in 1 .. Len(b.st) : q = s \/ r.st[q] = b.st[q]

\* r is b with q for its state s, and with a new state and q for its state s.
Sets(b, r, s, q)  == Edits(b, r, s) /\ r.st[s] = q /\ Len(r.st) = Len(b.st)
Links(b, r, s, q) == /\ Edits(b, r, s) /\ r.st[s] = q
                     /\ Len(r.st) = Len(b.st) + 1 /\ r.st[Len(r.st)] = Blank

LEMMA PointsMore ==
  ASSUME NEW q \in Row, NEW n \in Nat, NEW m \in Nat, n <= m, Points(q, n)
  PROVE  Points(q, m)
<1>1. q.lits \in Seq(Byte \X Index) /\ q.toks \in Seq(Delims \X Index) /\ q.class \in Class
  BY DEF Row
<1>2. \A i \in DOMAIN q.lits : q.lits[i][2] \in Nat
  BY <1>1 DEF Index
<1>3. \A i \in DOMAIN q.toks : q.toks[i][2] \in Nat
  BY <1>1 DEF Index
<1>4. q.class.to \in Nat /\ q.class.exit \in Nat
  BY <1>1 DEF Class
<1> QED BY <1>2, <1>3, <1>4 DEF Points

LEMMA BlankFacts ==
  /\ Blank \in Row /\ Blank.accept = FALSE /\ Blank.lits = <<>> /\ Blank.toks = <<>>
  /\ Blank.class = NoClass /\ NoClass \in Class
  /\ \A n \in Nat : Points(Blank, n)
<1>1. NoClass \in Class
  BY DEF NoClass, Class, None
<1>2. Blank = [lits |-> <<>>, toks |-> <<>>, class |-> NoClass, accept |-> FALSE]
  BY DEF Blank
<1>3. NoClass.to = 0 /\ NoClass.exit = 0
  BY DEF NoClass, None
<1> HIDE DEF Blank
<1>4. /\ Blank.accept = FALSE /\ Blank.lits = <<>> /\ Blank.toks = <<>> /\ Blank.class = NoClass
  BY <1>2
<1>5. Blank \in Row
  BY <1>1, <1>2 DEF Row
<1>6. \A n \in Nat : Points(Blank, n)
  BY <1>3, <1>4 DEF Points
<1> QED BY <1>1, <1>4, <1>5, <1>6

\* Every set of naturals that is not empty has a least element.
LEMMA Least ==
  ASSUME NEW T, T \subseteq Nat, T # {}
  PROVE  \E x \in T : \A y \in T : x <= y
<1> DEFINE Below == {ss \in Nat \X Nat : ss[1] < ss[2]}
<1>1. IsWellFoundedOn(Below, Nat)
  BY NatLessThanWellFounded DEF OpToRel
<1>2. PICK x \in T : \A y \in T : ~(<<y, x>> \in Below)
  BY <1>1, WFMin
<1>3. \A y \in T : ~(y < x)
  BY <1>2
<1> QED BY <1>3, SMT

\* Where the first edge on x leads, if there is one.
LEMMA FirstIs ==
  ASSUME NEW edges, DOMAIN edges \subseteq Nat, NEW x
  PROVE  \/ First(edges, x) = None /\ \A i \in DOMAIN edges : edges[i][1] # x
         \/ \E i \in DOMAIN edges : edges[i][1] = x /\ First(edges, x) = edges[i][2]
<1> DEFINE hits == {i \in DOMAIN edges : edges[i][1] = x}
<1>1. First(edges, x) = IF hits = {} THEN None ELSE edges[Min(hits)][2]
  BY DEF First
<1>2. CASE hits = {}
  BY <1>1, <1>2
<1>3. CASE hits # {}
  <2>1. hits \subseteq Nat
    OBVIOUS
  <2>2. PICK m \in hits : \A y \in hits : m <= y
    BY <2>1, <1>3, Least
  <2>3. Min(hits) \in hits
    BY <2>2 DEF Min
  <2> QED BY <1>1, <1>3, <2>3
<1> QED BY <1>2, <1>3

\* b with q for its state s.
Put(b, s, q) == [st |-> [b.st EXCEPT ![s] = q], panic |-> b.panic]

LEMMA PutOk ==
  ASSUME NEW b, NEW d, NEW open, Ok(b, d, open), NEW s \in 1 .. Len(b.st), NEW q \in Row,
         Points(q, Len(b.st)), q.accept = (s = d)
  PROVE  /\ Ok(Put(b, s, q), d, open \cup {s}) /\ (Leads(q) => Ok(Put(b, s, q), d, open \ {s}))
         /\ Sets(b, Put(b, s, q), s, q)
<1> DEFINE r == Put(b, s, q)
<1>1. b.st \in Seq(Row) /\ b.panic \in BOOLEAN
  BY DEF Ok, Builder
<1>2. r.st \in Seq(Row) /\ Len(r.st) = Len(b.st) /\ r.panic = b.panic
  BY <1>1 DEF Put
<1>3. r.st[s] = q /\ \A x \in 1 .. Len(b.st) : x = s \/ r.st[x] = b.st[x]
  BY <1>1 DEF Put
<1>4. r \in Builder
  BY <1>1, <1>2 DEF Builder, Put
<1> HIDE DEF r
<1>5. Edits(b, r, s)
  BY <1>2, <1>3, <1>1 DEF Edits
<1>6. Ok(r, d, open \cup {s}) /\ (Leads(q) => Ok(r, d, open \ {s}))
  BY <1>2, <1>3, <1>4 DEF Ok
<1>7. Sets(b, r, s, q)
  BY <1>2, <1>3, <1>5 DEF Sets
<1> QED BY <1>6, <1>7 DEF r

\* A record with one field changed, field by field.
LEMMA Fields ==
  /\ \A b \in Builder : \A x : [b EXCEPT !.st = x] = [st |-> x, panic |-> b.panic]
  /\ \A b \in Builder : \A x : [b EXCEPT !.panic = x] = [st |-> b.st, panic |-> x]
  /\ \A b \in Builder : b = [st |-> b.st, panic |-> b.panic] /\ b.st \in Seq(Row) /\ b.panic \in BOOLEAN
  /\ \A q \in Row : \A x : [q EXCEPT !.lits = x]
       = [lits |-> x, toks |-> q.toks, class |-> q.class, accept |-> q.accept]
  /\ \A q \in Row : \A x : [q EXCEPT !.toks = x]
       = [lits |-> q.lits, toks |-> x, class |-> q.class, accept |-> q.accept]
  /\ \A q \in Row : \A x : [q EXCEPT !.class = x]
       = [lits |-> q.lits, toks |-> q.toks, class |-> x, accept |-> q.accept]
<1>1. /\ \A b \in Builder : \A x : [b EXCEPT !.st = x] = [st |-> x, panic |-> b.panic]
      /\ \A b \in Builder : \A x : [b EXCEPT !.panic = x] = [st |-> b.st, panic |-> x]
      /\ \A b \in Builder : b = [st |-> b.st, panic |-> b.panic] /\ b.st \in Seq(Row) /\ b.panic \in BOOLEAN
  BY DEF Builder
<1>2. \A q \in Row : \A x : [q EXCEPT !.lits = x]
       = [lits |-> x, toks |-> q.toks, class |-> q.class, accept |-> q.accept]
  BY DEF Row
<1>3. \A q \in Row : \A x : [q EXCEPT !.toks = x]
       = [lits |-> q.lits, toks |-> x, class |-> q.class, accept |-> q.accept]
  BY DEF Row
<1>4. \A q \in Row : \A x : [q EXCEPT !.class = x]
       = [lits |-> q.lits, toks |-> q.toks, class |-> x, accept |-> q.accept]
  BY DEF Row
<1> QED BY <1>1, <1>2, <1>3, <1>4

LEMMA AddOk ==
  ASSUME NEW b, NEW d, NEW open, Ok(b, d, open)
  PROVE  /\ Ok(Add(b), d, open \cup {NewIn(b)}) /\ NewIn(b) = Len(b.st) + 1
         /\ Len(Add(b).st) = Len(b.st) + 1 /\ Add(b).st[NewIn(b)] = Blank
         /\ \A s \in 1 .. Len(b.st) : Add(b).st[s] = b.st[s]
         /\ Len(b.st) \in Nat
<1> DEFINE r == Add(b)
<1>1. b.st \in Seq(Row) /\ b.panic \in BOOLEAN /\ b = [st |-> b.st, panic |-> b.panic]
  BY DEF Ok, Builder
<1>2. r.st = Append(b.st, Blank) /\ r.panic = b.panic /\ r = [st |-> r.st, panic |-> r.panic]
  <2>1. r = [st |-> Append(b.st, Blank), panic |-> b.panic]
    BY Fields DEF Add, Ok
  <2> QED BY <2>1
<1>3. /\ r.st \in Seq(Row) /\ Len(r.st) = Len(b.st) + 1 /\ r.st[Len(b.st) + 1] = Blank
      /\ \A s \in 1 .. Len(b.st) : r.st[s] = b.st[s]
      /\ Len(b.st) \in Nat
  BY <1>1, <1>2, BlankFacts
<1>4. r \in Builder
  BY <1>1, <1>2, <1>3 DEF Builder
<1> HIDE DEF r
<1>5. \A s \in 1 .. Len(b.st) : Points(r.st[s], Len(r.st))
  <2>1. SUFFICES ASSUME NEW s \in 1 .. Len(b.st) PROVE Points(r.st[s], Len(r.st))
    OBVIOUS
  <2>2. Points(b.st[s], Len(b.st)) /\ b.st[s] \in Row /\ r.st[s] = b.st[s]
    BY <1>1, <1>3 DEF Ok
  <2> QED BY <2>2, <1>3, PointsMore
<1>6. Ok(r, d, open \cup {Len(b.st) + 1})
  <2>1. Points(r.st[Len(b.st) + 1], Len(r.st))
    BY <1>3, BlankFacts
  <2>2. d \in 0 .. Len(r.st) /\ ~r.panic
    BY <1>2, <1>3 DEF Ok
  <2>3. ASSUME NEW s \in 1 .. Len(r.st)
        PROVE  Points(r.st[s], Len(r.st)) /\ r.st[s].accept = (s = d)
                 /\ (s \in open \cup {Len(b.st) + 1} \/ Leads(r.st[s]))
    <3>1. CASE s \in 1 .. Len(b.st)
      BY <3>1, <1>3, <1>5 DEF Ok
    <3>2. CASE s = Len(b.st) + 1
      <4>1. r.st[s].accept = FALSE
        BY <3>2, <1>3, BlankFacts
      <4>2. s # d
        BY <3>2, <1>3 DEF Ok
      <4> QED BY <3>2, <4>1, <4>2, <2>1
    <3> QED BY <3>1, <3>2, <1>3
  <2> QED BY <1>4, <2>2, <2>3 DEF Ok
<1> QED BY <1>3, <1>6 DEF r, NewIn

\* A state with one more edge.
WithLit(q, c, to) == [q EXCEPT !.lits = Append(@, <<c, to>>)]
WithTok(q, id, to) == [q EXCEPT !.toks = Append(@, <<id, to>>)]
WithClass(q, bytes, to, exitOn, exit) ==
  [q EXCEPT !.class = [bytes |-> bytes, to |-> to, exitOn |-> exitOn, exit |-> exit]]

\* The edits of the builder put one state.
LEMMA EditsPut ==
  ASSUME NEW b \in Builder, NEW s \in 1 .. Len(b.st)
  PROVE  /\ \A c, to : AddLit(b, s, c, to) = Put(b, s, WithLit(b.st[s], c, to))
         /\ \A id, to : TokTo(b, s, id, to) = Put(b, s, WithTok(b.st[s], id, to))
<1>1. \A x : [b EXCEPT !.st = x] = [st |-> x, panic |-> b.panic]
  BY Fields
<1>2. \A c, to : AddLit(b, s, c, to) = Put(b, s, WithLit(b.st[s], c, to))
  BY <1>1 DEF AddLit, Put, WithLit
<1>3. \A id, to : TokTo(b, s, id, to) = Put(b, s, WithTok(b.st[s], id, to))
  BY <1>1 DEF TokTo, Put, WithTok
<1> QED BY <1>2, <1>3

LEMMA AppendType ==
  ASSUME NEW S, NEW q \in Seq(S), NEW e \in S
  PROVE  Append(q, e) \in Seq(S) /\ Append(q, e) # <<>>
BY AppendProperties

\* A state given one more edge.
LEMMA RowEdits ==
  ASSUME NEW q \in Row, NEW n \in Nat, Points(q, n), NEW to \in 1 .. n
  PROVE  /\ \A c \in Byte : LET r == WithLit(q, c, to)
              IN  r \in Row /\ Points(r, n) /\ Leads(r) /\ r.accept = q.accept
         /\ \A id \in Delims : LET r == WithTok(q, id, to)
              IN  r \in Row /\ Points(r, n) /\ Leads(r) /\ r.accept = q.accept
<1>1. q.lits \in Seq(Byte \X Index) /\ q.toks \in Seq(Delims \X Index) /\ to \in Index
  BY DEF Row, Index
<1>2. ASSUME NEW c \in Byte PROVE LET r == WithLit(q, c, to)
              IN  r \in Row /\ Points(r, n) /\ Leads(r) /\ r.accept = q.accept
  <2> DEFINE r == WithLit(q, c, to)
  <2>1. r.lits = Append(q.lits, <<c, to>>) /\ r.toks = q.toks /\ r.class = q.class /\ r.accept = q.accept
        /\ r = [lits |-> r.lits, toks |-> r.toks, class |-> r.class, accept |-> r.accept]
    <3>1. r = [lits |-> Append(q.lits, <<c, to>>), toks |-> q.toks, class |-> q.class, accept |-> q.accept]
      BY Fields DEF WithLit
    <3> QED BY <3>1
  <2> HIDE DEF r
  <2>2. r.lits \in Seq(Byte \X Index) /\ r.lits # <<>>
    <3>1. <<c, to>> \in Byte \X Index
      BY <1>1, <1>2
    <3>2. Append(q.lits, <<c, to>>) \in Seq(Byte \X Index) /\ Append(q.lits, <<c, to>>) # <<>>
      BY <1>1, <3>1, AppendType, Zenon
    <3> QED BY <2>1, <3>2
  <2>3. r \in Row
    BY <2>1, <2>2, <1>1 DEF Row
  <2>4. \A i \in DOMAIN r.lits : r.lits[i][2] <= n
    BY <1>1, <2>1 DEF Points
  <2>5. Points(r, n)
    BY <2>1, <2>4 DEF Points
  <2> QED BY <2>1, <2>2, <2>3, <2>5 DEF Leads, r
<1>3. ASSUME NEW id \in Delims PROVE LET r == WithTok(q, id, to)
              IN  r \in Row /\ Points(r, n) /\ Leads(r) /\ r.accept = q.accept
  <2> DEFINE r == WithTok(q, id, to)
  <2>1. r.toks = Append(q.toks, <<id, to>>) /\ r.lits = q.lits /\ r.class = q.class /\ r.accept = q.accept
        /\ r = [lits |-> r.lits, toks |-> r.toks, class |-> r.class, accept |-> r.accept]
    <3>1. r = [lits |-> q.lits, toks |-> Append(q.toks, <<id, to>>), class |-> q.class, accept |-> q.accept]
      BY Fields DEF WithTok
    <3> QED BY <3>1
  <2> HIDE DEF r
  <2>2. r.toks \in Seq(Delims \X Index) /\ r.toks # <<>>
    <3>1. <<id, to>> \in Delims \X Index
      BY <1>1, <1>3
    <3>2. Append(q.toks, <<id, to>>) \in Seq(Delims \X Index) /\ Append(q.toks, <<id, to>>) # <<>>
      BY <1>1, <3>1, AppendType, Zenon
    <3> QED BY <2>1, <3>2
  <2>3. r \in Row
    BY <2>1, <2>2, <1>1 DEF Row
  <2>4. \A i \in DOMAIN r.toks : r.toks[i][2] <= n
    BY <1>1, <2>1 DEF Points
  <2>5. Points(r, n)
    BY <2>1, <2>4 DEF Points
  <2> QED BY <2>1, <2>2, <2>3, <2>5 DEF Leads, r
<1> QED BY <1>2, <1>3

-----------------------------------------------------------------------------
(* Folds: recursive functions on 0 .. n *)

\* Induction up to n.
LEMMA UpTo ==
  ASSUME NEW n \in Nat, NEW T, 0 \in T, \A k \in 1 .. n : k - 1 \in T => k \in T
  PROVE  \A k \in 0 .. n : k \in T
<1> DEFINE U == {k \in 0 .. n : k \notin T}
<1>1. SUFFICES ASSUME U # {} PROVE FALSE
  OBVIOUS
<1>2. U \subseteq Nat
  OBVIOUS
<1> HIDE DEF U
<1>3. PICK x \in U : \A y \in U : x <= y
  BY <1>1, <1>2, Least
<1>4. x \in 1 .. n /\ x \notin T
  BY <1>3 DEF U
<1>5. x - 1 \in 0 .. n /\ ~(x <= x - 1)
  BY <1>4
<1>6. x - 1 \in T
  BY <1>3, <1>5 DEF U
<1> QED BY <1>4, <1>6

\* f folds step over 1 .. n from base.
IsFold(f, n, base, step) == f = [k \in 0 .. n |-> IF k = 0 THEN base ELSE step[k][f[k - 1]]]

\* There is a fold, and its values stay where each step takes them.
LEMMA Fold ==
  ASSUME NEW n \in Nat, NEW P, NEW base \in P[0], NEW step,
         \A k \in 1 .. n : \A v \in P[k - 1] : step[k][v] \in P[k]
  PROVE  \E f : IsFold(f, n, base, step) /\ \A k \in 0 .. n : f[k] \in P[k]
<1> DEFINE Good(m, f) == IsFold(f, m, base, step) /\ \A k \in 0 .. m : f[k] \in P[k]
           T == {m \in 0 .. n : \E f : Good(m, f)}
<1>1. 0 \in T
  <2> DEFINE f == [k \in 0 .. 0 |-> base]
  <2>1. f = [k \in 0 .. 0 |-> IF k = 0 THEN base ELSE step[k][f[k - 1]]]
    OBVIOUS
  <2>2. \A k \in 0 .. 0 : f[k] \in P[k]
    OBVIOUS
  <2> HIDE DEF f
  <2> QED BY <2>1, <2>2 DEF IsFold
<1>2. ASSUME NEW m \in 1 .. n, m - 1 \in T PROVE m \in T
  <2>1. PICK f : Good(m - 1, f)
    BY <1>2
  <2>2. f = [k \in 0 .. m - 1 |-> IF k = 0 THEN base ELSE step[k][f[k - 1]]]
    BY <2>1 DEF IsFold
  <2> DEFINE next == step[m][f[m - 1]]
             g == [k \in 0 .. m |-> IF k <= m - 1 THEN f[k] ELSE next]
  <2>3. next \in P[m]
    BY <2>1
  <2>4. g[m] = next /\ \A k \in 0 .. m - 1 : g[k] = f[k]
    OBVIOUS
  <2>5. DOMAIN g = 0 .. m /\ g = [k \in 0 .. m |-> g[k]]
    OBVIOUS
  <2> HIDE DEF g
  <2>6. ASSUME NEW k \in 0 .. m PROVE g[k] = IF k = 0 THEN base ELSE step[k][g[k - 1]]
    <3>1. CASE k = m
      BY <3>1, <2>4
    <3>2. CASE k \in 0 .. m - 1
      <4>1. g[k] = IF k = 0 THEN base ELSE step[k][f[k - 1]]
        BY <3>2, <2>2, <2>4
      <4>2. k = 0 \/ g[k - 1] = f[k - 1]
        BY <3>2, <2>4
      <4> QED BY <4>1, <4>2
    <3> QED BY <3>1, <3>2
  <2>7. IsFold(g, m, base, step)
    BY <2>5, <2>6 DEF IsFold
  <2>8. \A k \in 0 .. m : g[k] \in P[k]
    BY <2>1, <2>3, <2>4
  <2> QED BY <2>7, <2>8
<1> HIDE DEF Good
<1>3. n \in T
  <2> HIDE DEF T
  <2>1. \A k \in 1 .. n : k - 1 \in T => k \in T
    BY <1>2
  <2>2. \A k \in 0 .. n : k \in T
    BY <1>1, <2>1, UpTo
  <2> QED BY <2>2
<1>4. \E f : Good(n, f)
  BY <1>3
<1> QED BY <1>4 DEF Good

\* A byte of Lit.
LitStep(v, c) ==
  LET to == First(v.b.st[v.at].lits, c)
  IN  IF to # None THEN At(v.b, to)
      ELSE At(AddLit(Add(v.b), v.at, c, NewIn(v.b)), NewIn(v.b))

\* Where Lit arrives, from where each of its steps arrives.
LEMMA LitRuns ==
  ASSUME NEW w, NEW word, Len(word) \in Nat, NEW P, w \in P[0],
         \A k \in 1 .. Len(word) : \A v \in P[k - 1] : LitStep(v, word[k]) \in P[k]
  PROVE  Lit(w, word) \in P[Len(word)]
<1> DEFINE n == Len(word)
           step == [k \in 1 .. n |-> [v \in P[k - 1] |-> LitStep(v, word[k])]]
           IsRun(f) == f = [k \in 0 .. n |-> IF k = 0 THEN w ELSE LitStep(f[k - 1], word[k])]
           run == CHOOSE f : IsRun(f)
<1>1. \A k \in 1 .. n : \A v \in P[k - 1] : step[k][v] = LitStep(v, word[k])
  OBVIOUS
<1> HIDE DEF n, step
<1>2. PICK f : IsFold(f, n, w, step) /\ \A k \in 0 .. n : f[k] \in P[k]
  <2>1. \A k \in 1 .. n : \A v \in P[k - 1] : step[k][v] \in P[k]
    BY <1>1 DEF n
  <2> QED BY <2>1, Fold DEF n
<1>3. IsRun(f)
  <2>1. \A k \in 0 .. n : k = 0 \/ step[k][f[k - 1]] = LitStep(f[k - 1], word[k])
    BY <1>1, <1>2 DEF n
  <2> QED BY <1>2, <2>1 DEF IsFold
<1>4. IsRun(run)
  <2> HIDE DEF IsRun
  <2> QED BY <1>3, Zenon
<1>5. Lit(w, word) = run[n]
  BY Zenon DEF Lit, LitStep, n
<1> HIDE DEF run
<1>6. \A k \in 0 .. n : k \in {j \in 0 .. n : run[j] \in P[j]}
  <2> DEFINE T == {j \in 0 .. n : run[j] \in P[j]}
  <2>1. 0 \in T
    BY <1>4 DEF n
  <2>2. ASSUME NEW k \in 1 .. n, k - 1 \in T PROVE k \in T
    <3>1. run[k] = LitStep(run[k - 1], word[k])
      BY <1>4, <2>2 DEF n
    <3> QED BY <3>1, <2>2 DEF n
  <2> HIDE DEF T
  <2>3. \A k \in 0 .. n : k \in T
    BY <2>1, <2>2, UpTo DEF n
  <2> QED BY <2>3 DEF T
<1> QED BY <1>5, <1>6 DEF n

-----------------------------------------------------------------------------
(* One edit *)

LEMMA OkFacts ==
  ASSUME NEW b, NEW d, NEW open, Ok(b, d, open)
  PROVE  /\ b \in Builder /\ b.st \in Seq(Row) /\ Len(b.st) \in Nat /\ b.panic = FALSE
         /\ \A s \in 1 .. Len(b.st) : b.st[s] \in Row /\ Points(b.st[s], Len(b.st))
         /\ \A s \in 1 .. Len(b.st) : b.st[s].accept = (s = d)
<1>1. b \in Builder /\ b.st \in Seq(Row) /\ Len(b.st) \in Nat /\ b.panic = FALSE
  BY Fields DEF Ok
<1>2. \A s \in 1 .. Len(b.st) : b.st[s] \in Row
  BY <1>1
<1>3. /\ \A s \in 1 .. Len(b.st) : Points(b.st[s], Len(b.st))
      /\ \A s \in 1 .. Len(b.st) : b.st[s].accept = (s = d)
  BY DEF Ok
<1> QED BY <1>1, <1>2, <1>3

LEMMA OkMore ==
  ASSUME NEW b, NEW d, NEW open, NEW left, Ok(b, d, open), open \subseteq left
  PROVE  Ok(b, d, left)
BY DEF Ok

LEMMA OkLess ==
  ASSUME NEW b, NEW d, NEW open, NEW s \in 1 .. Len(b.st), Ok(b, d, open), Leads(b.st[s])
  PROVE  Ok(b, d, open \ {s})
BY DEF Ok

LEMMA AddLitOk ==
  ASSUME NEW b, NEW d, NEW open, Ok(b, d, open), NEW s \in 1 .. Len(b.st), s # d,
         NEW c \in Byte, NEW to \in 1 .. Len(b.st)
  PROVE  /\ Ok(AddLit(b, s, c, to), d, open \ {s})
         /\ Sets(b, AddLit(b, s, c, to), s, WithLit(b.st[s], c, to))
<1> DEFINE q == WithLit(b.st[s], c, to)
<1> HIDE DEF q
<1>1. /\ b \in Builder /\ b.st[s] \in Row /\ Points(b.st[s], Len(b.st)) /\ Len(b.st) \in Nat
      /\ b.st[s].accept = (s = d)
  BY OkFacts
<1>2. AddLit(b, s, c, to) = Put(b, s, q)
  BY <1>1, EditsPut DEF q
<1>3. q \in Row /\ Points(q, Len(b.st)) /\ Leads(q) /\ q.accept = (s = d)
  BY <1>1, RowEdits DEF q
<1>4. Ok(Put(b, s, q), d, open \ {s}) /\ Sets(b, Put(b, s, q), s, q)
  BY <1>3, PutOk
<1> QED BY <1>2, <1>4 DEF q

LEMMA TokToOk ==
  ASSUME NEW b, NEW d, NEW open, Ok(b, d, open), NEW s \in 1 .. Len(b.st), s # d,
         NEW id \in Delims, NEW to \in 1 .. Len(b.st)
  PROVE  /\ Ok(TokTo(b, s, id, to), d, open \ {s})
         /\ Sets(b, TokTo(b, s, id, to), s, WithTok(b.st[s], id, to))
<1> DEFINE q == WithTok(b.st[s], id, to)
<1> HIDE DEF q
<1>1. /\ b \in Builder /\ b.st[s] \in Row /\ Points(b.st[s], Len(b.st)) /\ Len(b.st) \in Nat
      /\ b.st[s].accept = (s = d)
  BY OkFacts
<1>2. TokTo(b, s, id, to) = Put(b, s, q)
  BY <1>1, EditsPut DEF q
<1>3. q \in Row /\ Points(q, Len(b.st)) /\ Leads(q) /\ q.accept = (s = d)
  BY <1>1, RowEdits DEF q
<1>4. Ok(Put(b, s, q), d, open \ {s}) /\ Sets(b, Put(b, s, q), s, q)
  BY <1>3, PutOk
<1> QED BY <1>2, <1>4 DEF q

IsClass(b, d, open, s, class) ==
  /\ Ok(b, d, open) /\ s \in 1 .. Len(b.st) /\ s # d
  /\ class.bytes \in {Digit, StrByte} /\ class.to \in 0 .. Len(b.st)
  /\ class.exitOn \in Byte \cup {None} /\ class.exit \in 0 .. Len(b.st)
  /\ class.exit = None \/ class.exitOn \in Byte
\* r is b with state s given a class and nothing else.
Classed(b, d, open, s, r, closes) ==
  /\ Ok(r, d, open \cup {s}) /\ (closes => Ok(r, d, open \ {s}))
  /\ Edits(b, r, s) /\ Len(r.st) = Len(b.st)
  /\ r.st[s].toks = b.st[s].toks /\ r.st[s].lits = b.st[s].lits

LEMMA SetClassOk ==
  ASSUME NEW b, NEW d, NEW open, NEW s, NEW bytes, NEW to, NEW exitOn, NEW exit,
         IsClass(b, d, open, s, [bytes |-> bytes, to |-> to, exitOn |-> exitOn, exit |-> exit])
  PROVE  Classed(b, d, open, s, SetClass(b, s, bytes, to, exitOn, exit), bytes = Digit)
<1> DEFINE cl == [bytes |-> bytes, to |-> to, exitOn |-> exitOn, exit |-> exit]
           q == WithClass(b.st[s], bytes, to, exitOn, exit)
           r == SetClass(b, s, bytes, to, exitOn, exit)
<1> HIDE DEF cl, q, r
<1>1. /\ b \in Builder /\ b.st[s] \in Row /\ Points(b.st[s], Len(b.st)) /\ Len(b.st) \in Nat
      /\ b.st[s].accept = (s = d)
      /\ Ok(b, d, open) /\ s \in 1 .. Len(b.st) /\ s # d
      /\ bytes \in {Digit, StrByte} /\ to \in 0 .. Len(b.st)
      /\ exitOn \in Byte \cup {None} /\ exit \in 0 .. Len(b.st) /\ (exit = None \/ exitOn \in Byte)
  BY OkFacts DEF IsClass
<1>2. r = Put(b, s, q)
  BY <1>1, Fields DEF SetClass, Put, WithClass, q, r
<1>3. cl \in Class /\ cl.to <= Len(b.st) /\ cl.exit <= Len(b.st) /\ cl.bytes = bytes
  <2>1. bytes \in {{}, Digit, StrByte}
    BY <1>1
  <2>2. to \in Nat /\ exit \in Nat /\ to <= Len(b.st) /\ exit <= Len(b.st)
    BY <1>1
  <2> QED BY <1>1, <2>1, <2>2 DEF Class, cl
<1>4. q = [lits |-> b.st[s].lits, toks |-> b.st[s].toks, class |-> cl, accept |-> b.st[s].accept]
  BY <1>1, Fields DEF q, WithClass, cl
<1>5. q.lits = b.st[s].lits /\ q.toks = b.st[s].toks /\ q.class = cl /\ q.accept = b.st[s].accept
  BY <1>4
<1>6. q \in Row
  BY <1>1, <1>3, <1>4 DEF Row
<1>7. Points(q, Len(b.st))
  BY <1>1, <1>3, <1>5 DEF Points
<1>8. bytes = Digit => Leads(q)
  BY <1>3, <1>5 DEF Leads
<1>9. q.accept = (s = d)
  BY <1>1, <1>5
<1>10. /\ Ok(r, d, open \cup {s}) /\ (Leads(q) => Ok(r, d, open \ {s}))
       /\ Sets(b, r, s, q)
  BY <1>1, <1>2, <1>6, <1>7, <1>9, PutOk
<1> QED BY <1>5, <1>8, <1>10 DEF r, Classed, Sets

LEMMA EditsTwice ==
  ASSUME NEW b, NEW r, NEW u, NEW s, NEW t, Edits(b, r, s), Edits(r, u, t),
         t = s \/ t > Len(b.st), Len(b.st) \in Nat, Len(r.st) \in Nat, Len(u.st) \in Nat, t \in Nat
  PROVE  Edits(b, u, s)
BY DEF Edits

\* A new state and an edge to it.
LEMMA LinkOk ==
  ASSUME NEW b, NEW d, NEW open, Ok(b, d, open), NEW s \in 1 .. Len(b.st), s # d, NEW c \in Byte
  PROVE  LET n == Len(b.st) + 1  r == AddLit(Add(b), s, c, n)
         IN  Ok(r, d, (open \ {s}) \cup {n}) /\ Links(b, r, s, WithLit(b.st[s], c, n))
<1> DEFINE n == Len(b.st) + 1  a == Add(b)  r == AddLit(a, s, c, n)
<1>1. /\ Ok(a, d, open \cup {n}) /\ Len(a.st) = n /\ a.st[n] = Blank
      /\ \A x \in 1 .. Len(b.st) : a.st[x] = b.st[x]
      /\ Len(b.st) \in Nat
  BY AddOk
<1>2. s \in 1 .. Len(a.st) /\ n \in 1 .. Len(a.st) /\ s # n
  BY <1>1
<1> HIDE DEF n, a
<1>3. Ok(r, d, (open \cup {n}) \ {s}) /\ Sets(a, r, s, WithLit(a.st[s], c, n))
  BY <1>1, <1>2, AddLitOk
<1> HIDE DEF r
<1>4. Edits(b, r, s)
  BY <1>1, <1>3 DEF Edits, Sets, n
<1>5. r.st[n] = Blank /\ Len(r.st) = n
  BY <1>1, <1>2, <1>3 DEF Edits, Sets
<1>6. r.st[s] = WithLit(b.st[s], c, n)
  BY <1>1, <1>3 DEF Sets
<1>7. Ok(r, d, (open \ {s}) \cup {n})
  BY <1>3, OkMore, (open \cup {n}) \ {s} \subseteq (open \ {s}) \cup {n}
<1> QED BY <1>4, <1>5, <1>6, <1>7 DEF r, a, n, Links

LEMMA LinkTokOk ==
  ASSUME NEW b, NEW d, NEW open, Ok(b, d, open), NEW s \in 1 .. Len(b.st), s # d,
         NEW id \in Delims, b.st[s].toks = <<>>
  PROVE  LET n == Len(b.st) + 1  r == Tok(At(b, s), id)
         IN  /\ r.at = n /\ Ok(r.b, d, (open \ {s}) \cup {n})
             /\ Links(b, r.b, s, WithTok(b.st[s], id, n))
<1> DEFINE n == Len(b.st) + 1  a == Add(b)  u == TokTo(a, s, id, n)
<1>1. /\ Ok(a, d, open \cup {n}) /\ Len(a.st) = n /\ a.st[n] = Blank
      /\ \A x \in 1 .. Len(b.st) : a.st[x] = b.st[x]
      /\ Len(b.st) \in Nat /\ NewIn(b) = n
  BY AddOk
<1>2. s \in 1 .. Len(a.st) /\ n \in 1 .. Len(a.st) /\ s # n
  BY <1>1
<1> HIDE DEF n
<1>3. Tok(At(b, s), id) = At(u, n)
  <2>1. First(b.st[s].toks, id) = None
    BY DEF First
  <2> QED BY <2>1, <1>1 DEF Tok, At
<1> HIDE DEF a
<1>4. Ok(u, d, (open \cup {n}) \ {s}) /\ Sets(a, u, s, WithTok(a.st[s], id, n))
  BY <1>1, <1>2, TokToOk
<1> HIDE DEF u
<1>5. Edits(b, u, s)
  BY <1>1, <1>4 DEF Edits, Sets, n
<1>6. u.st[n] = Blank /\ Len(u.st) = n
  BY <1>1, <1>2, <1>4 DEF Edits, Sets
<1>7. u.st[s] = WithTok(b.st[s], id, n)
  BY <1>1, <1>4 DEF Sets
<1>8. Ok(u, d, (open \ {s}) \cup {n})
  BY <1>4, OkMore, (open \cup {n}) \ {s} \subseteq (open \ {s}) \cup {n}
<1>9. Tok(At(b, s), id).b = u /\ Tok(At(b, s), id).at = n
  BY <1>3 DEF At
<1> QED BY <1>5, <1>6, <1>7, <1>8, <1>9 DEF n, Links

-----------------------------------------------------------------------------
(* Languages: sets of texts *)

Symbol == Marks \cup Byte \cup StrByte \cup Digit \cup UNION {Range(VocabBytes(t)) : t \in Token}
Text   == Seq(Symbol)
u \odot v == u \o v
Then(X, Y) == {x \odot y : x \in X, y \in Y}

LEMMA TextFacts ==
  /\ <<>> \in Text /\ Len(<<>>) = 0
  /\ \A c \in Symbol : <<c>> \in Text /\ Len(<<c>>) = 1
  /\ \A u \in Text : Len(u) \in Nat /\ (Len(u) = 0 <=> u = <<>>) /\ u \odot <<>> = u /\ <<>> \odot u = u
  /\ \A u, v \in Text : u \odot v \in Text /\ Len(u \odot v) = Len(u) + Len(v)
<1>1. \A u \in Text : Len(u) \in Nat /\ (Len(u) = 0 <=> u = <<>>) /\ u \odot <<>> = u /\ <<>> \odot u = u
  BY EmptySeq, LenProperties, ConcatEmptySeq DEF Text, \odot
<1>2. \A u, v \in Text : u \odot v \in Text /\ Len(u \odot v) = Len(u) + Len(v)
  BY ConcatProperties DEF Text, \odot
<1> QED BY <1>1, <1>2, EmptySeq DEF Text

LEMMA Assoc == \A u, v, w \in Text : (u \odot v) \odot w = u \odot (v \odot w)
BY ConcatAssociative DEF Text, \odot

LEMMA Cancel == \A u, v, w \in Text : u \odot v = u \odot w => v = w
BY ConcatSimplifications DEF Text, \odot

\* A text that is not empty begins with a symbol, in one way.
Starts(S, w) == \E c \in S, u \in Seq(S) : w = <<c>> \odot u /\ Len(w) = Len(u) + 1
LEMMA BeginsIs == \A S : \A w \in Seq(S) : w # <<>> => Starts(S, w)
<1> SUFFICES ASSUME NEW S, NEW w \in Seq(S), w # <<>> PROVE Starts(S, w)
  OBVIOUS
<1>1. w[1] \in S /\ Tail(w) \in Seq(S) /\ Len(w) \in Nat /\ Len(Tail(w)) = Len(w) - 1
  BY HeadTailProperties, EmptySeq, LenProperties
<1>2. w = <<w[1]>> \odot Tail(w)
  BY SMT DEF \odot
<1> DEFINE c == w[1]
           u == Tail(w)
<1>3. c \in S /\ u \in Seq(S) /\ w = <<c>> \odot u /\ Len(w) = Len(u) + 1
  BY <1>1, <1>2
<1> HIDE DEF c, u
<1> QED BY <1>3, Zenon DEF Starts

LEMMA Begins ==
  /\ \A w \in Text : w # <<>> => \E c \in Symbol, u \in Text : w = <<c>> \odot u /\ Len(w) = Len(u) + 1
  /\ \A c \in Symbol : \A u \in Text : <<c>> \odot u # <<>> /\ (<<c>> \odot u)[1] = c
  /\ \A c, e \in Symbol : \A u, v \in Text : <<c>> \odot u = <<e>> \odot v => c = e /\ u = v
<1>1. \A c \in Symbol : \A u \in Text : <<c>> \odot u # <<>> /\ (<<c>> \odot u)[1] = c
  BY DEF Text, \odot
<1>2. \A w \in Text : w # <<>> => \E c \in Symbol, u \in Text : w = <<c>> \odot u /\ Len(w) = Len(u) + 1
  <2>1. \A w \in Seq(Symbol) : w # <<>> => Starts(Symbol, w)
    BY BeginsIs, Zenon
  <2> QED BY <2>1, Zenon DEF Text, Starts
<1>3. ASSUME NEW c \in Symbol, NEW e \in Symbol, NEW u \in Text, NEW v \in Text, <<c>> \odot u = <<e>> \odot v
      PROVE  c = e /\ u = v
  <2>1. c = e
    BY <1>1, <1>3
  <2> QED BY <2>1, <1>3, Cancel, TextFacts, SMTT(30)
<1>4. \A c, e \in Symbol : \A u, v \in Text : <<c>> \odot u = <<e>> \odot v => c = e /\ u = v
  BY <1>3, Zenon
<1> QED BY <1>1, <1>2, <1>4

LEMMA ThenIn ==
  /\ \A X, Y, w : w \in Then(X, Y) <=> \E x \in X, y \in Y : w = x \odot y
  /\ \A X, Y : \A x \in X, y \in Y : x \odot y \in Then(X, Y)
BY DEF Then

\* The texts of X with one of the symbols in C before them; what follows c in X.
Before(C, X) == {<<c>> \odot u : c \in C, u \in X}
Past(X, c) == {u \in Text : <<c>> \odot u \in X}

LEMMA ThenType == \A X, Y : X \subseteq Text /\ Y \subseteq Text => Then(X, Y) \subseteq Text
<1>1. SUFFICES ASSUME NEW X, NEW Y, X \subseteq Text, Y \subseteq Text, NEW w \in Then(X, Y)
               PROVE  w \in Text
  OBVIOUS
<1>2. PICK x \in X, y \in Y : w = x \odot y
  BY DEF Then
<1> QED BY <1>1, <1>2, TextFacts

LEMMA ThenSome == \A X, Y : X # {} /\ Y # {} => Then(X, Y) # {}
<1>1. SUFFICES ASSUME NEW X, NEW Y, NEW x \in X, NEW y \in Y PROVE Then(X, Y) # {}
  OBVIOUS
<1>2. x \odot y \in Then(X, Y)
  BY ThenIn
<1> QED BY <1>2

LEMMA ThenNone == \A X : X \subseteq Text => Then({<<>>}, X) = X /\ Then(X, {<<>>}) = X
<1>1. SUFFICES ASSUME NEW X, X \subseteq Text PROVE Then({<<>>}, X) = X /\ Then(X, {<<>>}) = X
  OBVIOUS
<1>2. \A x \in X : x \odot <<>> = x /\ <<>> \odot x = x
  BY <1>1, TextFacts
<1> DEFINE Z == {<<>>}
<1>3. \A z : z \in Z <=> z = <<>>
  OBVIOUS
<1> HIDE DEF Z
<1>4. ASSUME NEW w \in X PROVE w \in Then(Z, X) /\ w \in Then(X, Z)
  <2>1. <<>> \in Z /\ <<>> \odot w = w /\ w \odot <<>> = w
    BY <1>2, <1>3
  <2> QED BY <2>1, ThenIn
<1>5. ASSUME NEW w \in Then(Z, X) PROVE w \in X
  <2>1. PICK z \in Z, x \in X : w = z \odot x
    BY DEF Then
  <2> QED BY <2>1, <1>2, <1>3
<1>6. ASSUME NEW w \in Then(X, Z) PROVE w \in X
  <2>1. PICK x \in X, z \in Z : w = x \odot z
    BY DEF Then
  <2> QED BY <2>1, <1>2, <1>3
<1>7. Then(Z, X) = X /\ Then(X, Z) = X
  BY <1>4, <1>5, <1>6
<1> QED BY <1>7 DEF Z

LEMMA ThenOne ==
  ASSUME NEW u \in Text, NEW v \in Text
  PROVE  Then({u}, {v}) = {u \odot v}
BY DEF Then

LEMMA ThenAssoc ==
  ASSUME NEW X, NEW Y, NEW Z, X \subseteq Text, Y \subseteq Text, Z \subseteq Text
  PROVE  Then(Then(X, Y), Z) = Then(X, Then(Y, Z))
<1>1. \A x \in X, y \in Y, z \in Z : (x \odot y) \odot z = x \odot (y \odot z)
  BY Assoc
<1> DEFINE XY == Then(X, Y)
           YZ == Then(Y, Z)
<1>2. /\ \A x \in X, y \in Y : x \odot y \in XY
      /\ \A y \in Y, z \in Z : y \odot z \in YZ
      /\ \A v \in XY : \E x \in X, y \in Y : v = x \odot y
      /\ \A v \in YZ : \E y \in Y, z \in Z : v = y \odot z
  BY DEF Then
<1> HIDE DEF XY, YZ
<1>3. ASSUME NEW w \in Then(XY, Z) PROVE w \in Then(X, YZ)
  <2>1. PICK v \in XY, z \in Z : w = v \odot z
    BY DEF Then
  <2>2. PICK x \in X, y \in Y : v = x \odot y
    BY <1>2
  <2>3. w = x \odot (y \odot z) /\ y \odot z \in YZ
    BY <1>1, <1>2, <2>1, <2>2
  <2> QED BY <2>3 DEF Then
<1>4. ASSUME NEW w \in Then(X, YZ) PROVE w \in Then(XY, Z)
  <2>1. PICK x \in X, v \in YZ : w = x \odot v
    BY DEF Then
  <2>2. PICK y \in Y, z \in Z : v = y \odot z
    BY <1>2
  <2>3. w = (x \odot y) \odot z /\ x \odot y \in XY
    BY <1>1, <1>2, <2>1, <2>2
  <2> QED BY <2>3 DEF Then
<1>5. Then(XY, Z) = Then(X, YZ)
  BY <1>3, <1>4
<1> QED BY <1>5 DEF XY, YZ

LEMMA ThenOr ==
  ASSUME NEW X, NEW Y, NEW Z
  PROVE  /\ Then(X \cup Y, Z) = Then(X, Z) \cup Then(Y, Z)
         /\ Then(Z, X \cup Y) = Then(Z, X) \cup Then(Z, Y)
BY DEF Then

LEMMA BeforeType ==
  ASSUME NEW C, C \subseteq Symbol, NEW X, X \subseteq Text
  PROVE  /\ Before(C, X) \subseteq Text /\ <<>> \notin Before(C, X)
         /\ C # {} /\ X # {} => Before(C, X) # {}
<1>1. \A c \in C : \A u \in X : <<c>> \odot u \in Text /\ <<c>> \odot u # <<>>
  <2>1. \A c \in C : \A u \in X : c \in Symbol /\ u \in Text /\ <<c>> \in Text
    BY TextFacts
  <2> QED BY <2>1, TextFacts, Begins
<1>2. \A w : w \in Before(C, X) <=> \E c \in C, u \in X : w = <<c>> \odot u
  BY DEF Before
<1> DEFINE Z == Before(C, X)
<1> HIDE DEF Z
<1>3. \A w \in Z : w \in Text /\ w # <<>>
  BY <1>1, <1>2 DEF Z
<1>4. \A c \in C, u \in X : <<c>> \odot u \in Z
  BY <1>2 DEF Z
<1> QED BY <1>3, <1>4 DEF Z

\* What follows a symbol, for each way to build a language.
LEMMA PastBefore ==
  ASSUME NEW C, C \subseteq Symbol, NEW X, X \subseteq Text
  PROVE  \A e \in Symbol : Past(Before(C, X), e) = IF e \in C THEN X ELSE {}
<1>1. SUFFICES ASSUME NEW e \in Symbol PROVE Past(Before(C, X), e) = IF e \in C THEN X ELSE {}
  OBVIOUS
<1>2. ASSUME NEW u \in Text, <<e>> \odot u \in Before(C, X) PROVE e \in C /\ u \in X
  <2>1. PICK c \in C, v \in X : <<e>> \odot u = <<c>> \odot v
    BY <1>2 DEF Before
  <2>2. c = e /\ v = u
    BY <2>1, Begins
  <2> QED BY <2>2
<1>3. ASSUME e \in C, NEW u \in X PROVE u \in Text /\ <<e>> \odot u \in Before(C, X)
  BY <1>3 DEF Before
<1> QED BY <1>2, <1>3 DEF Past

LEMMA PastOr == \A X, Y, e : Past(X \cup Y, e) = Past(X, e) \cup Past(Y, e)
BY DEF Past

LEMMA PastNone == \A e : Past({}, e) = {}
BY DEF Past

LEMMA PastType == \A X, e : Past(X, e) \subseteq Text
BY DEF Past

LEMMA PastStar ==
  ASSUME NEW C, C \subseteq Symbol, NEW Y, Y \subseteq Text
  PROVE  LET X == Then(Seq(C), Y)
         IN  /\ X \subseteq Text /\ (<<>> \in X <=> <<>> \in Y) /\ Y \subseteq X
             /\ \A e \in Symbol : Past(X, e) = (IF e \in C THEN X ELSE {}) \cup Past(Y, e)
<1> DEFINE S == Seq(C)  X == Then(S, Y)
<1>1. /\ S \subseteq Text /\ <<>> \in S
      /\ \A c \in C : \A a \in S : <<c>> \odot a \in S
      /\ \A a \in S : a # <<>> => \E c \in C, e \in S : a = <<c>> \odot e
  <2>1. S \subseteq Text
    BY SeqMonotonic DEF Text
  <2>2. \A c \in C : \A a \in S : <<c>> \odot a \in S
    BY ConcatProperties DEF \odot
  <2>3. \A a \in S : a # <<>> => \E c \in C, e \in S : a = <<c>> \odot e
    <3>1. \A a \in S : a # <<>> => Starts(C, a)
      BY BeginsIs, Zenon
    <3> QED BY <3>1, Zenon DEF Starts
  <2>4. <<>> \in S
    BY EmptySeq
  <2> HIDE DEF S
  <2> QED BY <2>1, <2>2, <2>3, <2>4
<1> HIDE DEF S
<1>2. X \subseteq Text
  BY <1>1, ThenType
<1>3. Y \subseteq X
  <2>1. \A y \in Y : y = <<>> \odot y
    BY TextFacts
  <2> QED BY <1>1, <2>1 DEF Then
<1>4. ASSUME NEW a \in S, NEW y \in Y, a # <<>>
      PROVE  \E c \in C : \E v \in X : a \odot y = <<c>> \odot v
  <2>1. PICK c \in C, e \in S : a = <<c>> \odot e
    BY <1>1, <1>4
  <2>2. e \odot y \in X
    BY DEF Then
  <2>3. c \in Symbol /\ e \in Text /\ y \in Text /\ <<c>> \in Text
    BY <1>1, TextFacts
  <2>4. a \odot y = <<c>> \odot (e \odot y)
    BY <2>1, <2>3, Assoc
  <2> QED BY <2>2, <2>4
<1>5. ASSUME NEW w \in X PROVE w \in Y \/ \E c \in C : \E v \in X : w = <<c>> \odot v
  <2>1. PICK a \in S, y \in Y : w = a \odot y
    BY DEF Then
  <2>2. CASE a = <<>>
    BY <2>1, <2>2, TextFacts
  <2>3. CASE a # <<>>
    BY <2>1, <2>3, <1>4
  <2> QED BY <2>2, <2>3
<1>6. ASSUME NEW c \in C, NEW v \in X PROVE <<c>> \odot v \in X
  <2>1. PICK a \in S, y \in Y : v = a \odot y
    BY DEF Then
  <2>2. c \in Symbol /\ a \in Text /\ y \in Text /\ <<c>> \in Text
    BY <1>1, TextFacts
  <2> DEFINE ca == <<c>> \odot a
  <2>3. ca \in S /\ <<c>> \odot v = ca \odot y
    BY <1>1, <2>1, <2>2, Assoc
  <2> HIDE DEF ca
  <2>4. ca \odot y \in X
    BY <2>3 DEF Then
  <2> QED BY <2>3, <2>4
<1> HIDE DEF X
<1>7. <<>> \in X <=> <<>> \in Y
  <2>1. \A c \in C : \A v \in X : <<c>> \odot v # <<>>
    BY <1>2, Begins
  <2> QED BY <1>3, <1>5, <2>1
<1>8. ASSUME NEW e \in Symbol, NEW u \in Text
      PROVE  <<e>> \odot u \in X <=> (e \in C /\ u \in X) \/ <<e>> \odot u \in Y
  <2>1. ASSUME NEW c \in C, NEW v \in X, <<e>> \odot u = <<c>> \odot v PROVE e = c /\ u = v
    <3>1. c \in Symbol /\ v \in Text
      BY <1>2
    <3> QED BY <2>1, <3>1, Begins
  <2>2. ASSUME <<e>> \odot u \in X PROVE (e \in C /\ u \in X) \/ <<e>> \odot u \in Y
    BY <1>5, <2>1, <2>2
  <2> QED BY <1>3, <1>6, <2>2
<1>9. \A e \in Symbol : Past(X, e) = (IF e \in C THEN X ELSE {}) \cup Past(Y, e)
  BY <1>2, <1>8 DEF Past
<1> QED BY <1>2, <1>3, <1>7, <1>9 DEF X, S

\* Symbols before a sequence of languages, and after it.
LEMMA BeforeThen ==
  ASSUME NEW C, C \subseteq Symbol, NEW X, X \subseteq Text, NEW Y, Y \subseteq Text
  PROVE  Before(C, Then(X, Y)) = Then(Before(C, X), Y)
<1> DEFINE XY == Then(X, Y)  CX == Before(C, X)
<1>1. \A c \in C, x \in X, y \in Y : <<c>> \odot (x \odot y) = (<<c>> \odot x) \odot y
  <2>1. \A c \in C : <<c>> \in Text
    BY TextFacts
  <2> QED BY <2>1, Assoc
<1>2. /\ \A w : w \in XY <=> \E x \in X, y \in Y : w = x \odot y
      /\ \A w : w \in CX <=> \E c \in C, x \in X : w = <<c>> \odot x
  BY DEF Then, Before
<1> HIDE DEF XY, CX
<1>3. \A w : w \in Before(C, XY) <=> \E c \in C, v \in XY : w = <<c>> \odot v
  BY DEF Before
<1>4. \A w : w \in Then(CX, Y) <=> \E v \in CX, y \in Y : w = v \odot y
  BY DEF Then
<1>5. ASSUME NEW w \in Before(C, XY) PROVE w \in Then(CX, Y)
  <2>1. PICK c \in C, v \in XY : w = <<c>> \odot v
    BY <1>3
  <2>2. PICK x \in X, y \in Y : v = x \odot y
    BY <1>2
  <2> DEFINE cx == <<c>> \odot x
  <2>3. w = cx \odot y /\ cx \in CX
    BY <1>1, <1>2, <2>1, <2>2
  <2> HIDE DEF cx
  <2> QED BY <1>4, <2>3
<1>6. ASSUME NEW w \in Then(CX, Y) PROVE w \in Before(C, XY)
  <2>1. PICK v \in CX, y \in Y : w = v \odot y
    BY <1>4
  <2>2. PICK c \in C, x \in X : v = <<c>> \odot x
    BY <1>2
  <2> DEFINE xy == x \odot y
  <2>3. w = <<c>> \odot xy /\ xy \in XY
    BY <1>1, <1>2, <2>1, <2>2
  <2> HIDE DEF xy
  <2> QED BY <1>3, <2>3
<1> QED BY <1>5, <1>6 DEF XY, CX

LEMMA BeforeOne ==
  ASSUME NEW c \in Symbol, NEW v \in Text, NEW Y, Y \subseteq Text
  PROVE  Then({<<c>> \odot v}, Y) = Before({c}, Then({v}, Y))
<1> DEFINE X == {v}  C == {c}
<1>1. X \subseteq Text /\ C \subseteq Symbol /\ Before(C, X) = {<<c>> \odot v}
  BY DEF Before
<1> HIDE DEF X, C
<1>2. Before(C, Then(X, Y)) = Then(Before(C, X), Y)
  BY <1>1, BeforeThen
<1> QED BY <1>1, <1>2 DEF X, C
-----------------------------------------------------------------------------
(* Rows: the edges of a state as equations between languages *)

\* The delimiter that a mark stands for.
TokOf(c) == CASE c = Opens -> CallOpen [] c = Closes -> CallClose [] OTHER -> Quote
TokEdge(q, id) ==
  LET hits == {i \in DOMAIN q.toks : q.toks[i][1] = id}
  IN  IF hits = {} THEN None ELSE q.toks[Max(hits)][2]
ByteEdge(q, s, c) == StepByte([x \in {s} |-> q], s, c)
\* Where state s, with row q, goes on a symbol.
Goes(q, s, c) == IF c \in Marks THEN TokEdge(q, TokOf(c)) ELSE ByteEdge(q, s, c)

LEMMA MarkFacts ==
  /\ Opens # Closes /\ Opens # Quotes /\ Closes # Quotes /\ Marks = {Opens, Closes, Quotes}
  /\ TokOf(Opens) = CallOpen /\ TokOf(Closes) = CallClose /\ TokOf(Quotes) = Quote
  /\ \A c, e \in Marks : TokOf(c) = TokOf(e) => c = e
  /\ \A c \in Marks : TokOf(c) \in Delims
  /\ Marks \cap Byte = {} /\ Marks \cap StrByte = {} /\ Marks \cap Digit = {}
  /\ Marks \subseteq Symbol /\ Byte \subseteq Symbol /\ StrByte \subseteq Symbol /\ Digit \subseteq Symbol
<1>1. Opens # Closes /\ Opens # Quotes /\ Closes # Quotes
  BY DEF Opens, Closes, Quotes
<1>2. Marks = {Opens, Closes, Quotes}
  BY DEF Marks
<1>3. TokOf(Opens) = CallOpen /\ TokOf(Closes) = CallClose /\ TokOf(Quotes) = Quote
  <2> HIDE DEF Opens, Closes, Quotes
  <2> QED BY <1>1 DEF TokOf
<1>4. CallOpen # CallClose /\ CallOpen # Quote /\ CallClose # Quote
  BY VocabAssumption
<1>5. \A c, e \in Marks : TokOf(c) = TokOf(e) => c = e
  BY <1>2, <1>3, <1>4
<1>6. \A c \in Marks : TokOf(c) \in Delims
  BY <1>2, <1>3 DEF Delims
<1>7. Marks \cap StrByte = {} /\ Marks \cap Digit = {}
  BY SymbolAssumption
<1>8. ASSUME NEW t \in Token, Len(VocabBytes(t)) = 1 PROVE VocabBytes(t)[1] \notin Marks
  <2>1. VocabBytes(t) # <<>> /\ VocabBytes(t) = Spelled(t)
    BY <1>8 DEF VocabBytes
  <2>2. Marks \cap Range(Spelled(t)) = {}
    BY SymbolAssumption
  <2>3. Piece[t] \in Seq(Range(Piece[t])) /\ Len(Piece[t]) \in Nat
    BY VocabAssumption, LenProperties
  <2>4. DOMAIN Spelled(t) = 1 .. Len(Spelled(t))
    BY <2>3 DEF Spelled
  <2>5. Spelled(t)[1] \in Range(Spelled(t))
    BY <1>8, <2>1, <2>4 DEF Range
  <2> QED BY <2>1, <2>2, <2>5
<1>9. Marks \cap Byte = {}
  BY <1>8 DEF Byte
<1> QED BY <1>1, <1>2, <1>3, <1>5, <1>6, <1>7, <1>9 DEF Symbol

\* A language for every state, and none for no state.
Lang == {R \in [Nat -> SUBSET Text] : R[None] = {}}
\* Row q of state s leads where its language says.
Exact(q, s, R) ==
  /\ <<>> \in R[s] <=> q.accept
  /\ \A c \in Symbol : R[Goes(q, s, c)] = Past(R[s], c)
\* Every state has a way to the end, and the rows of those not in open are exact.
Means(b, R, open) ==
  /\ R \in Lang
  /\ \A s \in 1 .. Len(b.st) : R[s] # {} /\ (s \in open \/ Exact(b.st[s], s, R))
\* R and T agree on the states of b.
Same(b, R, T) == \A x \in 0 .. Len(b.st) : T[x] = R[x]

LEMMA LangFacts ==
  ASSUME NEW R \in Lang
  PROVE  R[None] = {} /\ R[0] = {} /\ \A s \in Nat : R[s] \subseteq Text
BY DEF Lang, None

LEMMA EdgeTypes ==
  ASSUME NEW q \in Row
  PROVE  /\ q.lits \in Seq(Byte \X Index) /\ q.toks \in Seq(Delims \X Index) /\ q.class \in Class
         /\ \A c : First(q.lits, c) = None \/ \E i \in DOMAIN q.lits : First(q.lits, c) = q.lits[i][2]
<1>1. q.lits \in Seq(Byte \X Index) /\ q.toks \in Seq(Delims \X Index) /\ q.class \in Class
  BY DEF Row
<1>2. DOMAIN q.lits \subseteq Nat
  BY <1>1
<1> QED BY <1>1, <1>2, FirstIs, SMTT(30)

\* The last edge on id.
LEMMA LastHit ==
  ASSUME NEW q \in Row, NEW id
  PROVE  \/ TokEdge(q, id) = None /\ \A i \in DOMAIN q.toks : q.toks[i][1] # id
         \/ \E i \in DOMAIN q.toks : /\ q.toks[i][1] = id /\ TokEdge(q, id) = q.toks[i][2]
                                    /\ \A j \in DOMAIN q.toks : q.toks[j][1] = id => j <= i
<1> DEFINE hits == {i \in DOMAIN q.toks : q.toks[i][1] = id}
<1>1. TokEdge(q, id) = IF hits = {} THEN None ELSE q.toks[Max(hits)][2]
  BY DEF TokEdge
<1>2. CASE hits = {}
  BY <1>1, <1>2
<1>3. CASE hits # {}
  <2>1. DOMAIN q.toks = 1 .. Len(q.toks) /\ Len(q.toks) \in Nat
    BY EdgeTypes
  <2> DEFINE n == Len(q.toks)
             over == {m \in Nat : \A i \in hits : i <= m}
  <2>2. n \in over /\ over \subseteq Nat
    BY <2>1
  <2> HIDE DEF over
  <2>3. PICK m \in over : \A y \in over : m <= y
    BY <2>2, Least
  <2>4. m \in hits
    <3>1. SUFFICES ASSUME m \notin hits PROVE FALSE
      OBVIOUS
    <3>2. m \in Nat /\ \A i \in hits : i <= m /\ i \in Nat /\ i # m
      BY <2>1, <2>3, <3>1 DEF over
    <3>3. PICK i \in hits : TRUE
      BY <1>3
    <3>4. m - 1 \in Nat /\ \A y \in hits : y <= m - 1
      BY <3>2, <3>3
    <3>5. m - 1 \in over /\ ~(m <= m - 1)
      BY <3>2, <3>4 DEF over
    <3> QED BY <2>3, <3>5
  <2>5. \A y \in hits : y <= m
    BY <2>3 DEF over
  <2>6. Max(hits) \in hits /\ \A y \in hits : y <= Max(hits)
    <3> HIDE DEF hits
    <3>1. Max(hits) = CHOOSE x \in hits : \A y \in hits : x >= y
      BY Zenon DEF Max
    <3>2. \A y \in hits : y \in Nat
      BY <2>1 DEF hits
    <3>3. \E x \in hits : \A y \in hits : x >= y
      BY <2>4, <2>5, <3>2
    <3>4. Max(hits) \in hits /\ \A y \in hits : Max(hits) >= y
      BY <3>1, <3>3, Zenon
    <3> QED BY <3>2, <3>4
  <2> QED BY <1>1, <1>3, <2>6
<1> QED BY <1>2, <1>3

\* Where the edges of a row lead: a state of the builder, or none.
LEMMA GoesIn ==
  ASSUME NEW q \in Row, NEW n \in Nat, Points(q, n), NEW s \in 1 .. n, NEW c
  PROVE  Goes(q, s, c) \in 0 .. n
<1>1. CASE c \in Marks
  <2>1. Goes(q, s, c) = TokEdge(q, TokOf(c))
    BY <1>1 DEF Goes
  <2>2. TokEdge(q, TokOf(c)) = None \/ \E i \in DOMAIN q.toks : TokEdge(q, TokOf(c)) = q.toks[i][2]
    BY LastHit
  <2>3. \A i \in DOMAIN q.toks : q.toks[i][2] \in Nat /\ q.toks[i][2] <= n
    BY EdgeTypes DEF Points, Index
  <2> QED BY <2>1, <2>2, <2>3 DEF None
<1>2. CASE c \notin Marks
  <2> DEFINE lit == First(q.lits, c)
  <2>1. lit = None \/ \E i \in DOMAIN q.lits : lit = q.lits[i][2]
    BY EdgeTypes
  <2>2. \A i \in DOMAIN q.lits : q.lits[i][2] \in Nat /\ q.lits[i][2] <= n
    BY EdgeTypes DEF Points, Index
  <2>3. lit \in 0 .. n
    BY <2>1, <2>2 DEF None
  <2>4. q.class.to \in Nat /\ q.class.exit \in Nat /\ q.class.to <= n /\ q.class.exit <= n
    BY EdgeTypes DEF Class, Points
  <2> HIDE DEF lit
  <2>5. Goes(q, s, c) = IF lit # None THEN lit
          ELSE IF q.class.exit # None /\ c = q.class.exitOn THEN q.class.exit
          ELSE IF c \notin q.class.bytes THEN None
          ELSE IF q.class.to = None THEN s ELSE q.class.to
    BY <1>2 DEF Goes, ByteEdge, StepByte, lit
  <2> QED BY <2>3, <2>4, <2>5 DEF None
<1> QED BY <1>1, <1>2
-----------------------------------------------------------------------------
(* Edges: where a row leads after each of the builder's edits *)

LEMMA LeastHit ==
  ASSUME NEW edges, DOMAIN edges \subseteq Nat, NEW x
  PROVE  \/ First(edges, x) = None /\ \A i \in DOMAIN edges : edges[i][1] # x
         \/ \E i \in DOMAIN edges : /\ edges[i][1] = x /\ First(edges, x) = edges[i][2]
                                    /\ \A j \in DOMAIN edges : edges[j][1] = x => i <= j
<1> DEFINE hits == {i \in DOMAIN edges : edges[i][1] = x}
<1>1. First(edges, x) = IF hits = {} THEN None ELSE edges[Min(hits)][2]
  BY DEF First
<1>2. CASE hits = {}
  BY <1>1, <1>2
<1>3. CASE hits # {}
  <2>1. hits \subseteq Nat
    OBVIOUS
  <2>2. PICK m \in hits : \A y \in hits : m <= y
    BY <2>1, <1>3, Least
  <2>3. Min(hits) \in hits /\ \A y \in hits : Min(hits) <= y
    BY <2>2 DEF Min
  <2> QED BY <1>1, <1>3, <2>3
<1> QED BY <1>2, <1>3

LEMMA AppendIs ==
  ASSUME NEW S, NEW q \in Seq(S), NEW e
  PROVE  /\ Len(q) \in Nat /\ DOMAIN q = 1 .. Len(q) /\ DOMAIN Append(q, e) = 1 .. Len(q) + 1
         /\ Append(q, e)[Len(q) + 1] = e /\ \A i \in 1 .. Len(q) : Append(q, e)[i] = q[i]
OBVIOUS

\* The first edge on x once there is one more, on c.
FirstMore(edges, c, to, x) ==
  First(Append(edges, <<c, to>>), x) =
    IF First(edges, x) # None THEN First(edges, x) ELSE IF x = c THEN to ELSE None
LEMMA FirstAppend ==
  ASSUME NEW A, NEW edges \in Seq(A \X Index), NEW c, NEW to, NEW x
  PROVE  FirstMore(edges, c, to, x)
<1> USE DEF FirstMore
<1> DEFINE n == Len(edges)  more == Append(edges, <<c, to>>)  end == <<c, to>>
<1>1. /\ n \in Nat /\ DOMAIN edges = 1 .. n /\ DOMAIN more = 1 .. n + 1
      /\ more[n + 1] = end /\ \A i \in 1 .. n : more[i] = edges[i]
      /\ DOMAIN edges \subseteq Nat /\ DOMAIN more \subseteq Nat
  BY AppendIs
<1>2. end[1] = c /\ end[2] = to /\ \A i \in DOMAIN edges : edges[i][2] # None
  BY DEF Index, None
<1> HIDE DEF more, n, end
<1>3. \/ First(edges, x) = None /\ \A i \in DOMAIN edges : edges[i][1] # x
      \/ \E i \in DOMAIN edges : /\ edges[i][1] = x /\ First(edges, x) = edges[i][2]
                                 /\ \A j \in DOMAIN edges : edges[j][1] = x => i <= j
  BY <1>1, LeastHit
<1>4. \/ First(more, x) = None /\ \A i \in DOMAIN more : more[i][1] # x
      \/ \E i \in DOMAIN more : /\ more[i][1] = x /\ First(more, x) = more[i][2]
                                /\ \A j \in DOMAIN more : more[j][1] = x => i <= j
  BY <1>1, LeastHit
<1>5. CASE First(edges, x) = None
  <2>1. \A i \in DOMAIN edges : edges[i][1] # x
    BY <1>2, <1>3, <1>5
  <2>2. \A i \in DOMAIN more : more[i][1] = x => i = n + 1 /\ x = c
    BY <1>1, <1>2, <2>1
  <2>3. CASE x = c
    <3>1. more[n + 1][1] = x /\ n + 1 \in DOMAIN more /\ more[n + 1][2] = to
      BY <1>1, <1>2, <2>3
    <3> QED BY <1>4, <1>5, <2>2, <2>3, <3>1 DEF more, end
  <2> QED BY <1>4, <1>5, <2>2, <2>3 DEF more, end
<1>6. CASE First(edges, x) # None
  <2>1. PICK i \in 1 .. n : /\ edges[i][1] = x /\ First(edges, x) = edges[i][2]
                            /\ \A j \in 1 .. n : edges[j][1] = x => i <= j
    BY <1>1, <1>3, <1>6
  <2>2. PICK m \in 1 .. n + 1 : /\ more[m][1] = x /\ First(more, x) = more[m][2]
                                /\ \A j \in 1 .. n + 1 : more[j][1] = x => m <= j
    BY <1>1, <1>4, <2>1
  <2>3. m <= i
    BY <1>1, <2>1, <2>2
  <2>4. i <= m
    BY <1>1, <2>1, <2>2, <2>3
  <2>5. m = i
    BY <1>1, <2>3, <2>4
  <2> QED BY <1>1, <1>6, <2>1, <2>2, <2>5 DEF more, end
<1> QED BY <1>5, <1>6

LEMMA TokAppend ==
  ASSUME NEW q \in Row, NEW r \in Row, NEW id, NEW to, r.toks = Append(q.toks, <<id, to>>), NEW x
  PROVE  TokEdge(r, x) = IF x = id THEN to ELSE TokEdge(q, x)
<1> DEFINE n == Len(q.toks)  end == <<id, to>>  old == q.toks  new == r.toks
<1>1. /\ n \in Nat /\ DOMAIN old = 1 .. n /\ DOMAIN new = 1 .. n + 1
      /\ new[n + 1] = end /\ \A i \in 1 .. n : new[i] = old[i]
  <2>1. old \in Seq(Delims \X Index)
    BY EdgeTypes
  <2> HIDE DEF end
  <2> QED BY <2>1, AppendIs DEF end
<1>2. end[1] = id /\ end[2] = to
  OBVIOUS
<1>3. \/ TokEdge(q, x) = None /\ \A i \in DOMAIN old : old[i][1] # x
      \/ \E i \in DOMAIN old : /\ old[i][1] = x /\ TokEdge(q, x) = old[i][2]
                               /\ \A j \in DOMAIN old : old[j][1] = x => j <= i
  BY LastHit
<1>4. \/ TokEdge(r, x) = None /\ \A i \in DOMAIN new : new[i][1] # x
      \/ \E i \in DOMAIN new : /\ new[i][1] = x /\ TokEdge(r, x) = new[i][2]
                               /\ \A j \in DOMAIN new : new[j][1] = x => j <= i
  BY LastHit
<1> HIDE DEF n, end, old, new
<1>5. CASE x = id
  <2>1. new[n + 1][1] = x /\ n + 1 \in DOMAIN new
    BY <1>1, <1>2, <1>5
  <2>2. PICK i \in DOMAIN new : TokEdge(r, x) = new[i][2] /\ \A j \in DOMAIN new : new[j][1] = x => j <= i
    BY <1>4, <2>1
  <2>3. i = n + 1
    BY <1>1, <2>1, <2>2
  <2> QED BY <1>1, <1>2, <1>5, <2>2, <2>3
<1>6. CASE x # id
  <2>1. \A i \in DOMAIN new : new[i][1] = x => i \in 1 .. n /\ old[i][1] = x
    BY <1>1, <1>2, <1>6
  <2>2. CASE \A i \in DOMAIN old : old[i][1] # x
    BY <1>1, <1>3, <1>4, <1>6, <2>1, <2>2
  <2>3. CASE \E i \in DOMAIN old : old[i][1] = x
    <3>1. PICK i \in 1 .. n : /\ old[i][1] = x /\ TokEdge(q, x) = old[i][2]
                              /\ \A j \in 1 .. n : old[j][1] = x => j <= i
      BY <1>1, <1>3, <2>3
    <3>2. i \in DOMAIN new /\ new[i][1] = x
      BY <1>1, <3>1
    <3>3. PICK m \in DOMAIN new : /\ new[m][1] = x /\ TokEdge(r, x) = new[m][2]
                                  /\ \A j \in DOMAIN new : new[j][1] = x => j <= m
      BY <1>4, <3>2
    <3>4. m \in 1 .. n /\ old[m][1] = x
      BY <2>1, <3>3
    <3>5. m = i
      BY <1>1, <3>1, <3>2, <3>3, <3>4
    <3> QED BY <1>1, <1>6, <3>1, <3>3, <3>5
  <2> QED BY <2>2, <2>3
<1> QED BY <1>5, <1>6

\* On a byte, and on a mark.
LEMMA GoesIs ==
  ASSUME NEW q, NEW s, NEW c
  PROVE  /\ c \in Marks => Goes(q, s, c) = TokEdge(q, TokOf(c))
         /\ c \notin Marks => Goes(q, s, c) =
              IF First(q.lits, c) # None THEN First(q.lits, c)
              ELSE IF q.class.exit # None /\ c = q.class.exitOn THEN q.class.exit
              ELSE IF c \notin q.class.bytes THEN None
              ELSE IF q.class.to = None THEN s ELSE q.class.to
BY DEF Goes, ByteEdge, StepByte

LEMMA GoesBlank == \A s, c : Goes(Blank, s, c) = None /\ First(Blank.lits, c) = None
<1>1. NoClass.exit = None /\ NoClass.bytes = {}
  BY DEF NoClass
<1>2. /\ \A x : First(Blank.lits, x) = None
      /\ \A x : TokEdge(Blank, x) = None
  BY BlankFacts DEF First, TokEdge
<1> QED BY <1>1, <1>2, BlankFacts, GoesIs

LEMMA GoesLit ==
  ASSUME NEW q \in Row, NEW c \in Byte, NEW to \in Index, First(q.lits, c) = None
  PROVE  /\ \A s, e : Goes(WithLit(q, c, to), s, e) = IF e = c THEN to ELSE Goes(q, s, e)
         /\ \A e : First(WithLit(q, c, to).lits, e) = IF e = c THEN to ELSE First(q.lits, e)
         /\ WithLit(q, c, to) \in Row /\ WithLit(q, c, to).accept = q.accept
         /\ WithLit(q, c, to).class = q.class
<1> DEFINE r == WithLit(q, c, to)
<1>1. /\ r = [lits |-> Append(q.lits, <<c, to>>), toks |-> q.toks, class |-> q.class, accept |-> q.accept]
  BY Fields DEF WithLit
<1>2. r.lits = Append(q.lits, <<c, to>>) /\ r.toks = q.toks /\ r.class = q.class /\ r.accept = q.accept
  BY <1>1
<1>3. r \in Row
  <2>1. <<c, to>> \in Byte \X Index /\ q.lits \in Seq(Byte \X Index)
    BY EdgeTypes
  <2>2. Append(q.lits, <<c, to>>) \in Seq(Byte \X Index)
    BY <2>1, AppendType, Zenon
  <2> QED BY <1>1, <2>2 DEF Row
<1> HIDE DEF r
<1> DEFINE edges == q.lits
<1>8. edges \in Seq(Byte \X Index) /\ r.lits = Append(edges, <<c, to>>) /\ First(edges, c) = None
  BY EdgeTypes, <1>2
<1>5. c \notin Marks /\ to # None
  BY MarkFacts DEF Index, None
<1> HIDE DEF edges
<1>4. ASSUME NEW e PROVE First(r.lits, e) = IF e = c THEN to ELSE First(edges, e)
  <2>1. FirstMore(edges, c, to, e)
    BY <1>8, FirstAppend
  <2> QED BY <1>8, <2>1 DEF FirstMore
<1>6. \A x : TokEdge(r, x) = TokEdge(q, x)
  BY <1>2 DEF TokEdge
<1>7. ASSUME NEW s, NEW e PROVE Goes(r, s, e) = IF e = c THEN to ELSE Goes(q, s, e)
  <2>1. CASE e \in Marks
    BY <2>1, <1>5, <1>6, GoesIs
  <2>2. CASE e \notin Marks
    <3>1. First(r.lits, e) = IF e = c THEN to ELSE First(q.lits, e)
      BY <1>4 DEF edges
    <3>2. Goes(r, s, e) = IF First(r.lits, e) # None THEN First(r.lits, e)
              ELSE IF r.class.exit # None /\ e = r.class.exitOn THEN r.class.exit
              ELSE IF e \notin r.class.bytes THEN None
              ELSE IF r.class.to = None THEN s ELSE r.class.to
      BY <2>2, GoesIs
    <3>3. Goes(q, s, e) = IF First(q.lits, e) # None THEN First(q.lits, e)
              ELSE IF q.class.exit # None /\ e = q.class.exitOn THEN q.class.exit
              ELSE IF e \notin q.class.bytes THEN None
              ELSE IF q.class.to = None THEN s ELSE q.class.to
      BY <2>2, GoesIs
    <3> QED BY <3>1, <3>2, <3>3, <1>2, <1>5
  <2> QED BY <2>1, <2>2
<1> QED BY <1>2, <1>3, <1>4, <1>7 DEF r, edges

LEMMA GoesTok ==
  ASSUME NEW q \in Row, NEW k \in Marks, NEW to \in Index
  PROVE  /\ \A s, e : Goes(WithTok(q, TokOf(k), to), s, e) = IF e = k THEN to ELSE Goes(q, s, e)
         /\ WithTok(q, TokOf(k), to).lits = q.lits
         /\ WithTok(q, TokOf(k), to) \in Row /\ WithTok(q, TokOf(k), to).accept = q.accept
         /\ WithTok(q, TokOf(k), to).class = q.class
<1> DEFINE id == TokOf(k)  r == WithTok(q, id, to)
<1>1. id \in Delims
  BY MarkFacts
<1> HIDE DEF id
<1>2. r = [lits |-> q.lits, toks |-> Append(q.toks, <<id, to>>), class |-> q.class, accept |-> q.accept]
  BY Fields DEF WithTok
<1>3. r.lits = q.lits /\ r.toks = Append(q.toks, <<id, to>>) /\ r.class = q.class /\ r.accept = q.accept
  BY <1>2
<1>4. r \in Row
  <2>1. <<id, to>> \in Delims \X Index /\ q.toks \in Seq(Delims \X Index)
    BY <1>1, EdgeTypes
  <2>2. Append(q.toks, <<id, to>>) \in Seq(Delims \X Index)
    BY <2>1, AppendType, Zenon
  <2> QED BY <1>2, <2>2 DEF Row
<1> HIDE DEF r
<1>5. \A x : TokEdge(r, x) = IF x = id THEN to ELSE TokEdge(q, x)
  BY <1>3, <1>4, TokAppend
<1>6. \A e \in Marks : TokOf(e) = id <=> e = k
  BY MarkFacts DEF id
<1>7. ASSUME NEW s, NEW e PROVE Goes(r, s, e) = IF e = k THEN to ELSE Goes(q, s, e)
  <2>1. CASE e \in Marks
    BY <2>1, <1>5, <1>6, GoesIs
  <2>2. CASE e \notin Marks
    BY <2>2, <1>3, GoesIs
  <2> QED BY <2>1, <2>2
<1> QED BY <1>3, <1>4, <1>7 DEF r, id

\* A class gives a row that had none the bytes it has no edge for.
LEMMA GoesClass ==
  ASSUME NEW q \in Row, q.class = NoClass, NEW bytes, NEW to, NEW exitOn, NEW exit,
         [bytes |-> bytes, to |-> to, exitOn |-> exitOn, exit |-> exit] \in Class
  PROVE  /\ \A s, e : Goes(WithClass(q, bytes, to, exitOn, exit), s, e) =
              IF e \in Marks \/ Goes(q, s, e) # None THEN Goes(q, s, e)
              ELSE IF exit # None /\ e = exitOn THEN exit
              ELSE IF e \notin bytes THEN None ELSE IF to = None THEN s ELSE to
         /\ WithClass(q, bytes, to, exitOn, exit).lits = q.lits
         /\ WithClass(q, bytes, to, exitOn, exit) \in Row
         /\ WithClass(q, bytes, to, exitOn, exit).accept = q.accept
         /\ WithClass(q, bytes, to, exitOn, exit).class.to = to
         /\ WithClass(q, bytes, to, exitOn, exit).class.exit = exit
<1> DEFINE cl == [bytes |-> bytes, to |-> to, exitOn |-> exitOn, exit |-> exit]
           r == WithClass(q, bytes, to, exitOn, exit)
<1>0. cl.bytes = bytes /\ cl.to = to /\ cl.exitOn = exitOn /\ cl.exit = exit /\ cl \in Class
  OBVIOUS
<1> HIDE DEF cl
<1>1. r = [lits |-> q.lits, toks |-> q.toks, class |-> cl, accept |-> q.accept]
  BY Fields DEF WithClass, cl
<1>2. r.lits = q.lits /\ r.toks = q.toks /\ r.class = cl /\ r.accept = q.accept
  BY <1>1
<1>3. r \in Row
  BY <1>0, <1>1, EdgeTypes DEF Row
<1> HIDE DEF r
<1>4. \A x : TokEdge(r, x) = TokEdge(q, x)
  BY <1>2 DEF TokEdge
<1>5. q.class.exit = None /\ q.class.bytes = {}
  BY DEF NoClass
<1>6. ASSUME NEW s, NEW e
      PROVE  Goes(r, s, e) =
               IF e \in Marks \/ Goes(q, s, e) # None THEN Goes(q, s, e)
               ELSE IF exit # None /\ e = exitOn THEN exit
               ELSE IF e \notin bytes THEN None ELSE IF to = None THEN s ELSE to
  <2>1. CASE e \in Marks
    BY <2>1, <1>4, GoesIs
  <2>2. CASE e \notin Marks
    <3>1. Goes(q, s, e) = First(q.lits, e)
      BY <2>2, <1>5, GoesIs
    <3> QED BY <2>2, <3>1, <1>0, <1>2, GoesIs
  <2> QED BY <2>1, <2>2
<1> QED BY <1>0, <1>2, <1>3, <1>6 DEF r
-----------------------------------------------------------------------------
(* What a row reads, edge by edge *)

\* Row q of state s reads the language X, where the states read what R says.
Reads(q, s, R, X) ==
  /\ X \subseteq Text /\ (<<>> \in X <=> q.accept)
  /\ \A c \in Symbol : R[Goes(q, s, c)] = Past(X, c)

LEMMA ReadsExact ==
  ASSUME NEW q, NEW s, NEW R
  PROVE  Reads(q, s, R, R[s]) => Exact(q, s, R)
BY DEF Reads, Exact

LEMMA ReadsBlank ==
  ASSUME NEW R \in Lang, NEW s
  PROVE  Reads(Blank, s, R, {})
<1>1. R[None] = {} /\ Blank.accept = FALSE
  BY LangFacts, BlankFacts
<1>2. \A c : Goes(Blank, s, c) = None /\ Past({}, c) = {}
  BY GoesBlank, PastNone
<1> QED BY <1>1, <1>2 DEF Reads

\* A state of b reads the same where R and T agree.
LEMMA ReadsSame ==
  ASSUME NEW q \in Row, NEW n \in Nat, Points(q, n), NEW s \in 1 .. n, NEW R, NEW T,
         \A x \in 0 .. n : T[x] = R[x], NEW X
  PROVE  Reads(q, s, R, X) => Reads(q, s, T, X)
<1>1. \A c : Goes(q, s, c) \in 0 .. n
  BY GoesIn
<1> QED BY <1>1 DEF Reads

\* One more way on, where there was none.
LEMMA ReadsMore ==
  ASSUME NEW R \in Lang, NEW q, NEW r, NEW s, NEW X, Reads(q, s, R, X),
         NEW C, C \subseteq Symbol, NEW to \in Nat,
         r.accept = q.accept, \A e \in C : Goes(q, s, e) = None,
         \A e : Goes(r, s, e) = IF e \in C THEN to ELSE Goes(q, s, e)
  PROVE  Reads(r, s, R, X \cup Before(C, R[to]))
<1> DEFINE B == Before(C, R[to])
<1>1. R[to] \subseteq Text /\ R[None] = {}
  BY LangFacts
<1>2. B \subseteq Text /\ <<>> \notin B
  BY <1>1, BeforeType
<1>3. \A e \in Symbol : Past(B, e) = IF e \in C THEN R[to] ELSE {}
  BY <1>1, PastBefore
<1> HIDE DEF B
<1>4. \A e \in Symbol : Past(X \cup B, e) = Past(X, e) \cup Past(B, e)
  BY PastOr
<1>5. /\ X \subseteq Text /\ (<<>> \in X <=> q.accept)
      /\ \A c \in Symbol : R[Goes(q, s, c)] = Past(X, c)
  BY DEF Reads
<1>6. ASSUME NEW e \in Symbol PROVE R[Goes(r, s, e)] = Past(X \cup B, e)
  <2>1. CASE e \in C
    <3>1. Past(X, e) = {}
      BY <1>1, <1>5, <2>1
    <3> QED BY <3>1, <1>3, <1>4, <2>1
  <2>2. CASE e \notin C
    BY <1>3, <1>4, <1>5, <2>2
  <2> QED BY <2>1, <2>2
<1> QED BY <1>2, <1>5, <1>6 DEF Reads, B

LEMMA ReadsLit ==
  ASSUME NEW R \in Lang, NEW q \in Row, NEW s, NEW X, Reads(q, s, R, X), NEW c \in Byte, NEW to \in Index,
         First(q.lits, c) = None, Goes(q, s, c) = None
  PROVE  Reads(WithLit(q, c, to), s, R, X \cup Before({c}, R[to]))
<1> DEFINE r == WithLit(q, c, to)  C == {c}
<1>1. r.accept = q.accept /\ \A e : Goes(r, s, e) = IF e = c THEN to ELSE Goes(q, s, e)
  BY GoesLit
<1>2. \A e : e \in C <=> e = c
  OBVIOUS
<1>3. C \subseteq Symbol /\ to \in Nat
  BY MarkFacts DEF Index
<1> HIDE DEF r, C
<1>4. \A e : Goes(r, s, e) = IF e \in C THEN to ELSE Goes(q, s, e)
  BY <1>1, <1>2
<1>5. \A e \in C : Goes(q, s, e) = None
  BY <1>2
<1>6. Reads(r, s, R, X \cup Before(C, R[to]))
  BY <1>1, <1>3, <1>4, <1>5, ReadsMore
<1> QED BY <1>6 DEF r, C

LEMMA ReadsTok ==
  ASSUME NEW R \in Lang, NEW q \in Row, NEW s, NEW X, Reads(q, s, R, X), NEW k \in Marks, NEW to \in Index,
         Goes(q, s, k) = None
  PROVE  Reads(WithTok(q, TokOf(k), to), s, R, X \cup Before({k}, R[to]))
<1> DEFINE r == WithTok(q, TokOf(k), to)  C == {k}
<1>1. r.accept = q.accept /\ \A e : Goes(r, s, e) = IF e = k THEN to ELSE Goes(q, s, e)
  BY GoesTok
<1>2. \A e : e \in C <=> e = k
  OBVIOUS
<1>3. C \subseteq Symbol /\ to \in Nat
  BY MarkFacts DEF Index
<1> HIDE DEF r, C
<1>4. \A e : Goes(r, s, e) = IF e \in C THEN to ELSE Goes(q, s, e)
  BY <1>1, <1>2
<1>5. \A e \in C : Goes(q, s, e) = None
  BY <1>2
<1>6. Reads(r, s, R, X \cup Before(C, R[to]))
  BY <1>1, <1>3, <1>4, <1>5, ReadsMore
<1> QED BY <1>6 DEF r, C

\* A class with no exit, and one with an exit that is not in it.
LEMMA ReadsClass ==
  ASSUME NEW R \in Lang, NEW q \in Row, q.class = NoClass, NEW s \in Index, NEW X, Reads(q, s, R, X),
         NEW C \in {Digit, StrByte}, NEW to \in Nat, \A e \in C : Goes(q, s, e) = None
  PROVE  Reads(WithClass(q, C, to, None, None), s, R, X \cup Before(C, R[IF to = None THEN s ELSE to]))
<1> DEFINE r == WithClass(q, C, to, None, None)  goal == IF to = None THEN s ELSE to
<1>1. goal \in Nat /\ C \subseteq Symbol /\ C \cap Marks = {}
  BY MarkFacts DEF Index
<1>2. [bytes |-> C, to |-> to, exitOn |-> None, exit |-> None] \in Class
  BY DEF Class, None
<1>3. r.accept = q.accept /\ \A e : Goes(r, s, e) =
              IF e \in Marks \/ Goes(q, s, e) # None THEN Goes(q, s, e)
              ELSE IF None # None /\ e = None THEN None
              ELSE IF e \notin C THEN None ELSE IF to = None THEN s ELSE to
  BY <1>2, GoesClass
<1> HIDE DEF r
<1>4. \A e : Goes(r, s, e) = IF e \in C THEN goal ELSE Goes(q, s, e)
  <2>1. SUFFICES ASSUME NEW e PROVE Goes(r, s, e) = IF e \in C THEN goal ELSE Goes(q, s, e)
    OBVIOUS
  <2>2. e \in Marks => Goes(r, s, e) = Goes(q, s, e)
    BY <1>3
  <2>3. e \notin Marks => Goes(r, s, e) = IF Goes(q, s, e) # None THEN Goes(q, s, e) ELSE IF e \notin C THEN None ELSE goal
    BY <1>3
  <2> HIDE DEF goal
  <2> QED BY <1>1, <2>2, <2>3
<1> HIDE DEF goal
<1>5. Reads(r, s, R, X \cup Before(C, R[goal]))
  BY <1>1, <1>3, <1>4, ReadsMore
<1> QED BY <1>5 DEF r, goal

LEMMA ReadsClassExit ==
  ASSUME NEW R \in Lang, NEW s \in Index, NEW C \in {Digit, StrByte}, NEW to \in Index,
         NEW exitOn \in Byte, exitOn \notin C, NEW exit \in Index
  PROVE  Reads(WithClass(Blank, C, to, exitOn, exit), s, R, Before(C, R[to]) \cup Before({exitOn}, R[exit]))
<1> DEFINE r == WithClass(Blank, C, to, exitOn, exit)  E == {exitOn}
           X == Before(C, R[to])  Y == Before(E, R[exit])
<1>1. C \subseteq Symbol /\ C \cap Marks = {} /\ exitOn \in Symbol /\ exitOn \notin Marks /\ to # None /\ exit # None
      /\ to \in Nat /\ exit \in Nat
  BY MarkFacts DEF Index, None
<1>2. [bytes |-> C, to |-> to, exitOn |-> exitOn, exit |-> exit] \in Class
  BY <1>1 DEF Class
<1>3. r.accept = Blank.accept /\ \A e : Goes(r, s, e) =
              IF e \in Marks \/ Goes(Blank, s, e) # None THEN Goes(Blank, s, e)
              ELSE IF exit # None /\ e = exitOn THEN exit
              ELSE IF e \notin C THEN None ELSE IF to = None THEN s ELSE to
  BY <1>2, GoesClass, BlankFacts
<1> HIDE DEF r
<1>4. \A e : Goes(r, s, e) = IF e = exitOn THEN exit ELSE IF e \in C THEN to ELSE None
  BY <1>1, <1>3, GoesBlank
<1>5. R[to] \subseteq Text /\ R[exit] \subseteq Text /\ R[None] = {}
  BY <1>1, LangFacts
<1>6. E \subseteq Symbol /\ \A e : e \in E <=> e = exitOn
  BY <1>1
<1> HIDE DEF E
<1>7. X \subseteq Text /\ <<>> \notin X /\ Y \subseteq Text /\ <<>> \notin Y
  BY <1>1, <1>5, <1>6, BeforeType
<1>8. \A e \in Symbol : Past(X, e) = IF e \in C THEN R[to] ELSE {}
  <2>1. C \subseteq Symbol /\ R[to] \subseteq Text
    BY <1>1, <1>5
  <2> QED BY <2>1, PastBefore, ZenonT(30)
<1>9. \A e \in Symbol : Past(Y, e) = IF e \in E THEN R[exit] ELSE {}
  BY <1>5, <1>6, PastBefore
<1> HIDE DEF X, Y
<1>10. \A e \in Symbol : Past(X \cup Y, e) = Past(X, e) \cup Past(Y, e)
  BY PastOr
<1>11. ASSUME NEW e \in Symbol PROVE R[Goes(r, s, e)] = Past(X \cup Y, e)
  <2>1. CASE e = exitOn
    BY <2>1, <1>4, <1>6, <1>8, <1>9, <1>10
  <2>2. CASE e # exitOn
    BY <2>2, <1>4, <1>5, <1>6, <1>8, <1>9, <1>10
  <2> QED BY <2>1, <2>2
<1>12. Reads(r, s, R, X \cup Y)
  BY <1>3, <1>7, <1>11, BlankFacts DEF Reads
<1> QED BY <1>12 DEF r, X, Y, E

\* What a class that stays in its state reads.
LEMMA StarIs ==
  ASSUME NEW C, C \subseteq Symbol, NEW Y, Y \subseteq Text
  PROVE  Then(Seq(C), Y) = Before(C, Then(Seq(C), Y)) \cup Y
<1> DEFINE S == Seq(C)  X == Then(S, Y)  B == Before(C, X)
<1>1. X \subseteq Text /\ (<<>> \in X <=> <<>> \in Y) /\ Y \subseteq X
      /\ \A e \in Symbol : Past(X, e) = (IF e \in C THEN X ELSE {}) \cup Past(Y, e)
  BY PastStar
<1> HIDE DEF X, S
<1>2. \A w : w \in B <=> \E c \in C, u \in X : w = <<c>> \odot u
  BY DEF Before
<1> HIDE DEF B
<1>3. ASSUME NEW w \in X PROVE w \in B \cup Y
  <2>1. CASE w = <<>>
    BY <1>1, <2>1
  <2>2. CASE w # <<>>
    <3>1. PICK c \in Symbol, u \in Text : w = <<c>> \odot u
      BY <1>1, <2>2, Begins
    <3>2. u \in Past(X, c)
      BY <3>1 DEF Past
    <3>3. (c \in C /\ u \in X) \/ u \in Past(Y, c)
      BY <1>1, <3>2
    <3> QED BY <1>2, <3>1, <3>3 DEF Past
  <2> QED BY <2>1, <2>2
<1>4. ASSUME NEW w \in B PROVE w \in X
  <2>1. PICK c \in C, u \in X : w = <<c>> \odot u
    BY <1>2
  <2>2. u \in Past(X, c)
    BY <1>1, <2>1
  <2> QED BY <2>1, <2>2 DEF Past
<1>5. X = B \cup Y
  BY <1>1, <1>3, <1>4
<1> QED BY <1>5 DEF X, B, S
-----------------------------------------------------------------------------
(* Builders at work, with the language of every state fixed when it is added *)

\* b fails no assertion, and its states mean what R says, those in open once they
\* have all their edges.
Fit(b, d, R, open) == Ok(b, d, Nat) /\ Means(b, R, open)
\* r has grown out of state s of b, and T out of R.
Work(b, d, R, s, r, T, left) ==
  /\ Len(b.st) \in Nat /\ s \in 1 .. Len(b.st) /\ s # d /\ d \in 0 .. Len(b.st)
  /\ Fit(r, d, T, left) /\ Edits(b, r, s) /\ Same(b, R, T)
\* x is s or one of the states that r has added to b.
Own(b, s, r, x) == x \in {s} \cup (Len(b.st) + 1 .. Len(r.st))
\* u is r with a new state that means X.
Added(r, T, X, u, U) ==
  /\ Len(r.st) \in Nat /\ NewIn(r) = Len(r.st) + 1 /\ Len(u.st) = Len(r.st) + 1
  /\ u.st[NewIn(r)] = Blank /\ \A x \in 1 .. Len(r.st) : u.st[x] = r.st[x]
  /\ Same(r, T, U) /\ U[NewIn(r)] = X
\* State s of b has come to mean what R says, and no other state has changed.
Solved(b, d, R, open, s, r) ==
  \E T : Fit(r, d, T, open \ {s}) /\ Edits(b, r, s) /\ Same(b, R, T)

LEMMA FitFacts ==
  ASSUME NEW b, NEW d, NEW R, NEW open, Fit(b, d, R, open)
  PROVE  /\ Ok(b, d, Nat) /\ b \in Builder /\ Len(b.st) \in Nat /\ d \in 0 .. Len(b.st) /\ R \in Lang
         /\ \A s \in 1 .. Len(b.st) :
              /\ b.st[s] \in Row /\ Points(b.st[s], Len(b.st)) /\ b.st[s].accept = (s = d)
              /\ R[s] # {} /\ R[s] \subseteq Text /\ (s \in open \/ Exact(b.st[s], s, R))
<1>1. Ok(b, d, Nat) /\ Means(b, R, open)
  BY DEF Fit
<1>2. /\ b \in Builder /\ Len(b.st) \in Nat /\ d \in 0 .. Len(b.st)
      /\ \A s \in 1 .. Len(b.st) : b.st[s] \in Row /\ Points(b.st[s], Len(b.st))
      /\ \A s \in 1 .. Len(b.st) : b.st[s].accept = (s = d)
  BY <1>1, OkFacts DEF Ok
<1>3. /\ R \in Lang
      /\ \A s \in 1 .. Len(b.st) : R[s] # {} /\ (s \in open \/ Exact(b.st[s], s, R))
  BY <1>1 DEF Means
<1>4. \A s \in 1 .. Len(b.st) : R[s] \subseteq Text
  BY <1>3, LangFacts
<1> QED BY <1>1, <1>2, <1>3, <1>4

LEMMA FitMore ==
  ASSUME NEW b, NEW d, NEW R, NEW open, NEW left, Fit(b, d, R, open), open \subseteq left
  PROVE  Fit(b, d, R, left)
BY DEF Fit, Means

\* A new state that means X.
FitsNew(r, d, T, left, X) ==
  \E U : Fit(Add(r), d, U, left \cup {NewIn(r)}) /\ Added(r, T, X, Add(r), U)
LEMMA FitAdd ==
  ASSUME NEW r, NEW d, NEW T, NEW left, Fit(r, d, T, left), NEW X, X \subseteq Text, X # {}
  PROVE  FitsNew(r, d, T, left, X)
<1> DEFINE n == Len(r.st) + 1
           u == Add(r)
           U == [T EXCEPT ![n] = X]
<1>1. /\ Ok(u, d, Nat \cup {NewIn(r)}) /\ NewIn(r) = n /\ Len(u.st) = n /\ u.st[n] = Blank
      /\ \A s \in 1 .. Len(r.st) : u.st[s] = r.st[s]
      /\ Len(r.st) \in Nat
  BY AddOk, FitFacts
<1>2. T \in [Nat -> SUBSET Text] /\ T[None] = {} /\ n \in Nat /\ n # None
  BY <1>1, FitFacts DEF Lang, None
<1>3. U \in [Nat -> SUBSET Text] /\ U[n] = X /\ \A x \in Nat : x # n => U[x] = T[x]
  BY <1>2
<1> HIDE DEF U
<1>4. U \in Lang
  BY <1>2, <1>3 DEF Lang, None
<1>5. \A x \in 0 .. Len(r.st) : U[x] = T[x]
  BY <1>1, <1>3
<1>6. Ok(u, d, Nat)
  <2>1. Nat \cup {NewIn(r)} \subseteq Nat
    BY <1>1
  <2> QED BY <1>1, <2>1, OkMore
<1> HIDE DEF u
<1>7. ASSUME NEW s \in 1 .. Len(u.st)
      PROVE  U[s] # {} /\ (s \in left \cup {n} \/ Exact(u.st[s], s, U))
  <2>1. CASE s = n
    BY <2>1, <1>3
  <2>2. CASE s \in 1 .. Len(r.st)
    <3>1. /\ r.st[s] \in Row /\ Points(r.st[s], Len(r.st)) /\ T[s] # {} /\ U[s] = T[s]
          /\ s \in left \/ Exact(r.st[s], s, T)
      BY <2>2, <1>5, FitFacts
    <3>2. \A c : Goes(r.st[s], s, c) \in 0 .. Len(r.st)
      BY <3>1, <2>2, <1>1, GoesIn
    <3>3. Exact(r.st[s], s, T) => Exact(r.st[s], s, U)
      BY <3>1, <3>2, <1>5 DEF Exact
    <3> QED BY <2>2, <1>1, <3>1, <3>3
  <2> QED BY <2>1, <2>2, <1>1
<1>8. Fit(u, d, U, left \cup {n})
  BY <1>4, <1>6, <1>7 DEF Fit, Means
<1>9. Added(r, T, X, u, U)
  BY <1>1, <1>3, <1>5 DEF Added, Same
<1> QED BY <1>1, <1>8, <1>9 DEF u, FitsNew

\* More edges for a state that is open.
LEMMA FitPut ==
  ASSUME NEW r, NEW d, NEW T, NEW left, Fit(r, d, T, left), NEW x \in left, NEW u,
         Ok(u, d, Nat), Edits(r, u, x), Len(u.st) = Len(r.st)
  PROVE  Fit(u, d, T, left)
<1>1. ASSUME NEW s \in 1 .. Len(u.st) PROVE T[s] # {} /\ (s \in left \/ Exact(u.st[s], s, T))
  BY <1>1, FitFacts DEF Edits
<1> QED BY <1>1, FitFacts DEF Fit, Means

\* A state that has all its edges.
LEMMA FitClose ==
  ASSUME NEW r, NEW d, NEW T, NEW left, Fit(r, d, T, left), NEW x, Exact(r.st[x], x, T)
  PROVE  Fit(r, d, T, left \ {x})
BY DEF Fit, Means

LEMMA WorkFacts ==
  ASSUME NEW b, NEW d, NEW R, NEW s, NEW r, NEW T, NEW left, Work(b, d, R, s, r, T, left)
  PROVE  /\ Fit(r, d, T, left) /\ Len(r.st) \in Nat /\ Len(b.st) \in Nat /\ Len(b.st) <= Len(r.st)
         /\ s \in 1 .. Len(r.st) /\ T \in Lang /\ s # d
         /\ \A x : Own(b, s, r, x) <=> x \in 1 .. Len(r.st) /\ (x = s \/ x > Len(b.st))
         /\ \A x : Own(b, s, r, x) => x # d
<1>1. /\ Len(b.st) \in Nat /\ s \in 1 .. Len(b.st) /\ s # d /\ d \in 0 .. Len(b.st)
      /\ Fit(r, d, T, left) /\ Len(b.st) <= Len(r.st)
  BY DEF Work, Edits
<1>2. Len(r.st) \in Nat /\ T \in Lang
  BY <1>1, FitFacts
<1> QED BY <1>1, <1>2 DEF Own

LEMMA WorkAdd ==
  ASSUME NEW b, NEW d, NEW R, NEW s, NEW r, NEW T, NEW left, Work(b, d, R, s, r, T, left),
         NEW X, X \subseteq Text, X # {}
  PROVE  \E U : Work(b, d, R, s, Add(r), U, left \cup {NewIn(r)}) /\ Added(r, T, X, Add(r), U)
<1>1. Fit(r, d, T, left) /\ Len(b.st) \in Nat /\ Len(r.st) \in Nat /\ Len(b.st) <= Len(r.st)
  BY WorkFacts
<1>2. PICK U : Fit(Add(r), d, U, left \cup {NewIn(r)}) /\ Added(r, T, X, Add(r), U)
  <2>1. FitsNew(r, d, T, left, X)
    BY <1>1, FitAdd
  <2> QED BY <2>1, Zenon DEF FitsNew
<1>3. Edits(b, Add(r), s) /\ Same(b, R, U)
  BY <1>1, <1>2 DEF Work, Added, Edits, Same
<1> QED BY <1>2, <1>3 DEF Work

LEMMA WorkPut ==
  ASSUME NEW b, NEW d, NEW R, NEW s, NEW r, NEW T, NEW left, Work(b, d, R, s, r, T, left),
         NEW x \in left, Own(b, s, r, x), NEW u, Ok(u, d, Nat), NEW q, Sets(r, u, x, q)
  PROVE  Work(b, d, R, s, u, T, left)
<1>1. /\ Fit(r, d, T, left) /\ Len(r.st) \in Nat /\ Len(b.st) \in Nat /\ x \in Nat /\ (x = s \/ x > Len(b.st))
      /\ Edits(b, r, s) /\ Edits(r, u, x) /\ Len(u.st) = Len(r.st)
  <2>1. /\ Fit(r, d, T, left) /\ Len(r.st) \in Nat /\ Len(b.st) \in Nat /\ x \in Nat /\ (x = s \/ x > Len(b.st))
    BY WorkFacts
  <2> QED BY <2>1 DEF Work, Sets
<1>2. Fit(u, d, T, left)
  BY <1>1, FitPut
<1>3. Edits(b, u, s)
  BY <1>1, EditsTwice
<1> QED BY <1>2, <1>3 DEF Work

LEMMA WorkLit ==
  ASSUME NEW b, NEW d, NEW R, NEW s, NEW r, NEW T, NEW left, Work(b, d, R, s, r, T, left),
         NEW x \in left, Own(b, s, r, x), NEW c \in Byte, NEW to \in 1 .. Len(r.st)
  PROVE  /\ Work(b, d, R, s, AddLit(r, x, c, to), T, left)
         /\ Sets(r, AddLit(r, x, c, to), x, WithLit(r.st[x], c, to))
<1>1. Ok(r, d, Nat) /\ x \in 1 .. Len(r.st) /\ x # d
  BY WorkFacts, FitFacts
<1> DEFINE u == AddLit(r, x, c, to)
<1>2. Ok(u, d, Nat \ {x}) /\ Sets(r, u, x, WithLit(r.st[x], c, to))
  BY <1>1, AddLitOk
<1> HIDE DEF u
<1>3. Ok(u, d, Nat)
  BY <1>2, Nat \ {x} \subseteq Nat, OkMore
<1>4. Work(b, d, R, s, u, T, left)
  BY <1>2, <1>3, WorkPut
<1> QED BY <1>2, <1>4 DEF u

LEMMA WorkTok ==
  ASSUME NEW b, NEW d, NEW R, NEW s, NEW r, NEW T, NEW left, Work(b, d, R, s, r, T, left),
         NEW x \in left, Own(b, s, r, x), NEW id \in Delims, NEW to \in 1 .. Len(r.st)
  PROVE  /\ Work(b, d, R, s, TokTo(r, x, id, to), T, left)
         /\ Sets(r, TokTo(r, x, id, to), x, WithTok(r.st[x], id, to))
<1>1. Ok(r, d, Nat) /\ x \in 1 .. Len(r.st) /\ x # d
  BY WorkFacts, FitFacts
<1> DEFINE u == TokTo(r, x, id, to)
<1>2. Ok(u, d, Nat \ {x}) /\ Sets(r, u, x, WithTok(r.st[x], id, to))
  BY <1>1, TokToOk
<1> HIDE DEF u
<1>3. Ok(u, d, Nat)
  BY <1>2, Nat \ {x} \subseteq Nat, OkMore
<1>4. Work(b, d, R, s, u, T, left)
  BY <1>2, <1>3, WorkPut
<1> QED BY <1>2, <1>4 DEF u

\* State x now reads what it should.
LEMMA WorkClose ==
  ASSUME NEW b, NEW d, NEW R, NEW s, NEW r, NEW T, NEW left, Work(b, d, R, s, r, T, left),
         NEW x, Reads(r.st[x], x, T, T[x])
  PROVE  Work(b, d, R, s, r, T, left \ {x})
<1>1. Fit(r, d, T, left \ {x})
  BY WorkFacts, ReadsExact, FitClose, ZenonT(30)
<1> QED BY <1>1 DEF Work

LEMMA WorkBegin ==
  ASSUME NEW b, NEW d, NEW R, NEW open, Fit(b, d, R, open), NEW s \in 1 .. Len(b.st), s # d
  PROVE  Work(b, d, R, s, b, R, open)
BY FitFacts DEF Work, Edits, Same

LEMMA WorkEnd ==
  ASSUME NEW b, NEW d, NEW R, NEW s, NEW r, NEW T, NEW left, Work(b, d, R, s, r, T, left),
         NEW open, left \subseteq open \ {s}
  PROVE  Solved(b, d, R, open, s, r)
BY FitMore DEF Work, Solved

\* A part of the work is itself solved.
LEMMA WorkPart ==
  ASSUME NEW b, NEW d, NEW R, NEW s, NEW r, NEW T, NEW left, Work(b, d, R, s, r, T, left),
         NEW x, Own(b, s, r, x), NEW u, Solved(r, d, T, left, x, u)
  PROVE  \E U : Work(b, d, R, s, u, U, left \ {x}) /\ Same(r, T, U) /\ Edits(r, u, x)
<1>1. PICK U : Fit(u, d, U, left \ {x}) /\ Edits(r, u, x) /\ Same(r, T, U)
  BY DEF Solved
<1>2. Len(r.st) \in Nat /\ Len(b.st) \in Nat /\ Len(b.st) <= Len(r.st) /\ x \in Nat /\ (x = s \/ x > Len(b.st))
      /\ Edits(b, r, s) /\ Same(b, R, T) /\ Len(u.st) \in Nat
  <2>1. /\ Len(r.st) \in Nat /\ Len(b.st) \in Nat /\ Len(b.st) <= Len(r.st) /\ x \in Nat
        /\ x = s \/ x > Len(b.st)
    BY WorkFacts
  <2>2. Len(u.st) \in Nat
    BY <1>1, FitFacts
  <2> QED BY <2>1, <2>2 DEF Work
<1>3. Edits(b, u, s)
  BY <1>1, <1>2, EditsTwice
<1>4. Same(b, R, U)
  BY <1>1, <1>2 DEF Same
<1> QED BY <1>1, <1>3, <1>4 DEF Work
-----------------------------------------------------------------------------
(* Literals *)

LEMMA FirstNone ==
  ASSUME NEW A, NEW edges \in Seq(A \X Index), NEW x
  PROVE  First(edges, x) = None <=> \A i \in DOMAIN edges : edges[i][1] # x
<1>1. \A i \in DOMAIN edges : edges[i][2] # None
  BY DEF Index, None
<1>2. \/ First(edges, x) = None /\ \A i \in DOMAIN edges : edges[i][1] # x
      \/ \E i \in DOMAIN edges : edges[i][1] = x /\ First(edges, x) = edges[i][2]
  <2>1. DOMAIN edges \subseteq Nat
    OBVIOUS
  <2> QED BY <2>1, FirstIs, ZenonT(30)
<1> QED BY <1>1, <1>2

\* r is v after a byte c it had no edge for.
NewStep(v, r, c) ==
  /\ \A i \in DOMAIN v.b.st[v.at].lits : v.b.st[v.at].lits[i][1] # c
  /\ r \in Cursor /\ r.at = Len(v.b.st) + 1
  /\ Links(v.b, r.b, v.at, WithLit(v.b.st[v.at], c, r.at))
\* r is v after a byte it had an edge for.
OldStep(v, r, c) ==
  /\ \E i \in DOMAIN v.b.st[v.at].lits : v.b.st[v.at].lits[i] = <<c, r.at>>
  /\ r \in Cursor /\ r.b = v.b /\ r.at \in 1 .. Len(v.b.st)

LEMMA LitStepIs ==
  ASSUME NEW v, NEW d, NEW open, Ok(v.b, d, open), v.at \in 1 .. Len(v.b.st), v.at # d, NEW c \in Byte
  PROVE  LET r == LitStep(v, c)
         IN  \/ OldStep(v, r, c) /\ Ok(r.b, d, open \ {v.at})
             \/ NewStep(v, r, c) /\ Ok(r.b, d, (open \ {v.at}) \cup {r.at})
<1> DEFINE b == v.b  s == v.at  q == b.st[s]  n == Len(b.st) + 1
<1>1. /\ b \in Builder /\ Len(b.st) \in Nat /\ q \in Row /\ Points(q, Len(b.st))
  BY OkFacts
<1>2. q.lits \in Seq(Byte \X Index)
  BY <1>1 DEF Row
<1>3. CASE First(q.lits, c) = None
  <2> DEFINE r == At(AddLit(Add(b), s, c, n), n)
  <2>1. LitStep(v, c) = r
    BY <1>3, AddOk DEF LitStep
  <2>2. Ok(r.b, d, (open \ {s}) \cup {n}) /\ Links(b, r.b, s, WithLit(q, c, n)) /\ r.at = n
    BY LinkOk DEF At
  <2>3. r.b \in Builder /\ r \in Cursor
    <3>1. AddLit(Add(b), s, c, n) \in Builder
      BY <2>2, OkFacts DEF At
    <3> QED BY <3>1, <1>1 DEF At, Cursor, Index
  <2>4. \A i \in DOMAIN q.lits : q.lits[i][1] # c
    BY <1>2, <1>3, FirstNone
  <2> HIDE DEF r
  <2>5. NewStep(v, r, c)
    BY <2>2, <2>3, <2>4 DEF NewStep
  <2> QED BY <2>1, <2>2, <2>5
<1>4. CASE First(q.lits, c) # None
  <2>1. PICK i \in DOMAIN q.lits : q.lits[i][1] = c /\ First(q.lits, c) = q.lits[i][2]
    <3>1. \/ First(q.lits, c) = None /\ \A i \in DOMAIN q.lits : q.lits[i][1] # c
          \/ \E i \in DOMAIN q.lits : q.lits[i][1] = c /\ First(q.lits, c) = q.lits[i][2]
      <4>1. DOMAIN q.lits \subseteq Nat
        BY <1>2
      <4> QED BY <4>1, FirstIs, Zenon
    <3> QED BY <3>1, <1>4
  <2> DEFINE to == q.lits[i][2]
  <2>2. to \in 1 .. Len(b.st) /\ q.lits[i] = <<c, to>>
    <3>1. q.lits[i] \in Byte \X Index
      BY <1>2
    <3>2. to <= Len(b.st)
      BY <1>1 DEF Points
    <3>3. q.lits[i][2] \in Index /\ q.lits[i] = <<q.lits[i][1], q.lits[i][2]>>
      BY <3>1
    <3>4. \A x \in Index : x <= Len(b.st) => x \in 1 .. Len(b.st)
      BY <1>1 DEF Index
    <3> QED BY <3>2, <3>3, <3>4, <2>1, Zenon
  <2>3. LitStep(v, c) = At(b, to)
    BY <1>4, <2>1 DEF LitStep
  <2>4. Leads(q)
    BY <1>2, <2>1 DEF Leads
  <2>5. Ok(b, d, open \ {s})
    BY <2>4, OkLess
  <2> HIDE DEF to
  <2>6. At(b, to).b = b /\ At(b, to).at = to /\ At(b, to) \in Cursor
    BY <1>1, <2>2 DEF At, Cursor, Index
  <2>7. OldStep(v, At(b, to), c)
    BY <2>2, <2>6 DEF OldStep
  <2> QED BY <2>3, <2>5, <2>6, <2>7
<1> QED BY <1>3, <1>4

\* w has followed a word, its first byte c, from state s of b through new states.
Chained(b, w, s, c) ==
  /\ w \in Cursor /\ Edits(b, w.b, s)
  /\ w.at \in Len(b.st) + 1 .. Len(w.b.st) /\ w.b.st[w.at] = Blank
  /\ w.b.st[s] = WithLit(b.st[s], c, Len(b.st) + 1)

\* A word none of which is at state s yet.
IsNew(b, d, open, s, word) ==
  /\ Ok(b, d, open) /\ s \in 1 .. Len(b.st) /\ s # d
  /\ word \in Seq(Byte) /\ word # <<>> /\ First(b.st[s].lits, word[1]) = None

LEMMA Chain ==
  ASSUME NEW b, NEW d, NEW open, NEW s, NEW word, IsNew(b, d, open, s, word)
  PROVE  LET w == Lit(At(b, s), word)
         IN  Ok(w.b, d, (open \ {s}) \cup {w.at}) /\ Chained(b, w, s, word[1])
<1> USE DEF IsNew
<1> DEFINE n == Len(word)
           On(w) == Ok(w.b, d, (open \ {s}) \cup {w.at}) /\ Chained(b, w, s, word[1])
           P == [k \in 0 .. n |-> IF k = 0 THEN {At(b, s)} ELSE {w \in Cursor : On(w)}]
<1>1. n \in Nat /\ n >= 1 /\ \A k \in 1 .. n : word[k] \in Byte
  BY EmptySeq, LenProperties
<1>2. /\ b \in Builder /\ Len(b.st) \in Nat /\ b.st[s] \in Row /\ d \in 0 .. Len(b.st)
  BY OkFacts DEF Ok
<1>3. At(b, s).b = b /\ At(b, s).at = s
  BY DEF At
<1>4. LitStep(At(b, s), word[1]) \in Cursor /\ On(LitStep(At(b, s), word[1]))
  <2> DEFINE v == At(b, s)  r == LitStep(v, word[1])
  <2>1. \A i \in DOMAIN b.st[s].lits : b.st[s].lits[i][1] # word[1]
    <3>1. b.st[s].lits \in Seq(Byte \X Index)
      BY <1>2 DEF Row
    <3> QED BY <3>1, FirstNone
  <2> HIDE DEF v, r
  <2>2. v.b = b /\ v.at = s
    BY <1>3 DEF v
  <2>3. \/ OldStep(v, r, word[1])
        \/ NewStep(v, r, word[1]) /\ Ok(r.b, d, (open \ {s}) \cup {r.at})
    <3>1. word[1] \in Byte
      BY <1>1
    <3> QED BY <2>2, <3>1, LitStepIs DEF r
  <2>4. ~OldStep(v, r, word[1])
    BY <2>1, <2>2 DEF OldStep
  <2>5. NewStep(v, r, word[1]) /\ Ok(r.b, d, (open \ {s}) \cup {r.at})
    BY <2>3, <2>4
  <2>6. Chained(b, r, s, word[1])
    BY <2>2, <2>5, <1>2 DEF NewStep, Links, Chained
  <2>7. r \in Cursor
    BY <2>6 DEF Chained
  <2> QED BY <2>5, <2>6, <2>7 DEF r, v
<1>5. ASSUME NEW v \in Cursor, On(v), NEW c \in Byte
      PROVE  LitStep(v, c) \in Cursor /\ On(LitStep(v, c))
  <2> DEFINE r == LitStep(v, c)  left == (open \ {s}) \cup {v.at}
  <2> HIDE DEF r
  <2>1. /\ v.at \in Len(b.st) + 1 .. Len(v.b.st) /\ v.b.st[v.at] = Blank /\ Edits(b, v.b, s)
        /\ v.b.st[s] = WithLit(b.st[s], word[1], Len(b.st) + 1)
        /\ Ok(v.b, d, left) /\ Len(v.b.st) \in Nat
    BY <1>5, OkFacts DEF Chained
  <2>2. v.at \in 1 .. Len(v.b.st) /\ v.at # d /\ v.at # s
    BY <2>1, <1>2
  <2> HIDE DEF left
  <2>3. \/ OldStep(v, r, c)
        \/ NewStep(v, r, c) /\ Ok(r.b, d, (left \ {v.at}) \cup {r.at})
    BY <2>1, <2>2, LitStepIs DEF r
  <2>4. ~OldStep(v, r, c)
    BY <2>1, BlankFacts DEF OldStep
  <2>5. NewStep(v, r, c) /\ Ok(r.b, d, (left \ {v.at}) \cup {r.at})
    BY <2>3, <2>4
  <2>6. Ok(r.b, d, (open \ {s}) \cup {r.at})
    BY <2>5, OkMore, (left \ {v.at}) \cup {r.at} \subseteq (open \ {s}) \cup {r.at} DEF left
  <2>7. Len(r.b.st) = Len(v.b.st) + 1 /\ r.at = Len(r.b.st) /\ r.b.st[r.at] = Blank /\ r \in Cursor
        /\ Edits(v.b, r.b, v.at)
    BY <2>5 DEF NewStep, Links
  <2>8. r.b.st[s] = v.b.st[s]
    BY <2>1, <2>2, <2>7 DEF Edits
  <2>9. Edits(b, r.b, s)
    <3>1. Edits(b, v.b, s) /\ Edits(v.b, r.b, v.at)
      BY <2>1, <2>7
    <3>2. v.at > Len(b.st) /\ v.at \in Nat /\ Len(r.b.st) \in Nat
      BY <2>1, <2>2, <2>7, <1>2
    <3> QED BY <3>1, <3>2, <1>2, <2>1, EditsTwice
  <2>10. Chained(b, r, s, word[1])
    BY <2>1, <2>7, <2>8, <2>9, <1>2 DEF Chained
  <2> QED BY <2>6, <2>7, <2>10 DEF r
<1> HIDE DEF On
<1>6. At(b, s) \in P[0]
  BY <1>1
<1>7. ASSUME NEW k \in 1 .. n, NEW v \in P[k - 1] PROVE LitStep(v, word[k]) \in P[k]
  <2>1. CASE k = 1
    BY <2>1, <1>4, <1>7, <1>1
  <2>2. CASE k > 1
    <3>1. v \in Cursor /\ On(v)
      BY <2>2, <1>7
    <3> QED BY <3>1, <1>5, <1>1, <2>2
  <2> QED BY <2>1, <2>2
<1>8. Lit(At(b, s), word) \in P[n]
  <2> HIDE DEF P
  <2> QED BY <1>1, <1>6, <1>7, LitRuns
<1>9. On(Lit(At(b, s), word))
  BY <1>1, <1>8
<1> QED BY <1>9 DEF On

LEMMA LitEmpty == \A w : Lit(w, <<>>) = w
<1>1. SUFFICES ASSUME NEW w PROVE Lit(w, <<>>) = w
  OBVIOUS
<1> DEFINE P == [k \in 0 .. 0 |-> {w}]
<1>2. Lit(w, <<>>) \in P[Len(<<>>)]
  <2>1. Len(<<>>) = 0 /\ w \in P[0]
    OBVIOUS
  <2>2. \A k \in 1 .. Len(<<>>) : \A v \in P[k - 1] : LitStep(v, <<>>[k]) \in P[k]
    BY <2>1
  <2> HIDE DEF P
  <2> QED BY <2>1, <2>2, LitRuns
<1> QED BY <1>2

LEMMA Front1 ==
  ASSUME NEW word \in Seq(Byte), word # <<>>
  PROVE  /\ Last(word) \in Byte
         /\ Len(word) = 1 => Front(word) = <<>> /\ Last(word) = word[1]
         /\ Len(word) # 1 => Front(word) \in Seq(Byte) \ {<<>>} /\ Front(word)[1] = word[1]
<1>1. Len(word) \in Nat /\ Len(word) >= 1
  BY EmptySeq, LenProperties
<1>2. Last(word) \in Byte /\ (Len(word) = 1 => Last(word) = word[1])
  BY <1>1 DEF Last
<1>3. Len(word) = 1 => Front(word) = <<>>
  BY <1>1 DEF Front
<1>4. ASSUME Len(word) # 1 PROVE Front(word) \in Seq(Byte) \ {<<>>} /\ Front(word)[1] = word[1]
  <2> DEFINE n == Len(word)
  <2>1. n - 1 \in Nat /\ n - 1 >= 1 /\ \A i \in 1 .. n - 1 : word[i] \in Byte
    <3>1. \A i \in 1 .. n : word[i] \in Byte
      OBVIOUS
    <3>2. n \in Nat /\ n >= 1 /\ n # 1
      BY <1>1, <1>4
    <3> HIDE DEF n
    <3> QED BY <3>1, <3>2
  <2>2. Front(word) \in Seq(Byte) /\ Len(Front(word)) = Len(word) - 1
    BY <1>1, <2>1 DEF Front
  <2>3. Front(word)[1] = word[1]
    BY <1>1, <2>1 DEF Front
  <2> QED BY <2>1, <2>2, <2>3
<1> QED BY <1>2, <1>3, <1>4

\* r has a word, its first byte c, from state s of b to a state it had.
Closed(b, r, s, c) == Edits(b, r, s) /\ \E x \in Index : r.st[s] = WithLit(b.st[s], c, x)

LEMMA LitToOk ==
  ASSUME NEW b, NEW d, NEW open, NEW s, NEW word, IsNew(b, d, open, s, word),
         NEW to \in 1 .. Len(b.st)
  PROVE  LET r == LitTo(At(b, s), word, to)
         IN  Ok(r, d, open \ {s}) /\ Closed(b, r, s, word[1])
<1> DEFINE v == Lit(At(b, s), Front(word))
           u == AddLit(v.b, v.at, Last(word), to)
<1>1. /\ b \in Builder /\ Len(b.st) \in Nat /\ d \in 0 .. Len(b.st)
      /\ Ok(b, d, open) /\ s \in 1 .. Len(b.st) /\ s # d
      /\ word \in Seq(Byte) /\ word # <<>> /\ First(b.st[s].lits, word[1]) = None
  BY OkFacts DEF Ok, IsNew
<1>2. ASSUME First(v.b.st[v.at].lits, Last(word)) = None, u \in Builder, u.panic = FALSE
      PROVE  LitTo(At(b, s), word, to) = u
  <2> HIDE DEF v, u
  <2>1. LitTo(At(b, s), word, to) = [u EXCEPT !.panic = u.panic \/ First(v.b.st[v.at].lits, Last(word)) # None]
    BY DEF LitTo, v, u
  <2>2. (u.panic \/ First(v.b.st[v.at].lits, Last(word)) # None) = u.panic
    BY <1>2
  <2>3. [u EXCEPT !.panic = u.panic] = [st |-> u.st, panic |-> u.panic]
    BY <1>2, Fields
  <2> QED BY <2>1, <2>2, <2>3, <1>2, Fields
<1>3. CASE Len(word) = 1
  <2>1. v.b = b /\ v.at = s /\ Last(word) = word[1] /\ Last(word) \in Byte
    BY <1>1, <1>3, Front1, LitEmpty DEF At
  <2> HIDE DEF v
  <2>2. Ok(u, d, open \ {s}) /\ Sets(b, u, s, WithLit(b.st[s], Last(word), to))
    BY <1>1, <2>1, AddLitOk
  <2> HIDE DEF u
  <2>3. u \in Builder /\ u.panic = FALSE
    BY <2>2, OkFacts
  <2>4. LitTo(At(b, s), word, to) = u
    BY <1>1, <1>2, <2>1, <2>3
  <2>5. Closed(b, u, s, word[1])
    BY <2>1, <2>2, <1>1 DEF Closed, Sets, Index
  <2> QED BY <2>2, <2>4, <2>5
<1>4. CASE Len(word) # 1
  <2>1. /\ Front(word) \in Seq(Byte) /\ Front(word) # <<>> /\ Front(word)[1] = word[1] /\ Last(word) \in Byte
    BY <1>1, <1>4, Front1
  <2>2. Ok(v.b, d, (open \ {s}) \cup {v.at}) /\ Chained(b, v, s, word[1])
    <3>1. IsNew(b, d, open, s, Front(word))
      BY <1>1, <2>1 DEF IsNew
    <3>2. Ok(v.b, d, (open \ {s}) \cup {v.at}) /\ Chained(b, v, s, Front(word)[1])
      BY <3>1, Chain
    <3> QED BY <2>1, <3>2
  <2> HIDE DEF v
  <2>3. /\ v.at \in Len(b.st) + 1 .. Len(v.b.st) /\ v.b.st[v.at] = Blank /\ Edits(b, v.b, s)
        /\ v.b.st[s] = WithLit(b.st[s], word[1], Len(b.st) + 1) /\ Len(v.b.st) \in Nat
    BY <2>2, OkFacts DEF Chained
  <2>4. v.at \in 1 .. Len(v.b.st) /\ v.at # d /\ v.at # s /\ to \in 1 .. Len(v.b.st) /\ s \in 1 .. Len(v.b.st)
    BY <2>3, <1>1
  <2>5. Ok(u, d, ((open \ {s}) \cup {v.at}) \ {v.at}) /\ Sets(v.b, u, v.at, WithLit(v.b.st[v.at], Last(word), to))
    BY <2>1, <2>2, <2>4, AddLitOk
  <2> HIDE DEF u
  <2>6. Ok(u, d, open \ {s})
    BY <2>5, OkMore, ((open \ {s}) \cup {v.at}) \ {v.at} \subseteq open \ {s}
  <2>7. u \in Builder /\ u.panic = FALSE /\ Len(u.st) \in Nat
    BY <2>6, OkFacts
  <2>8. First(v.b.st[v.at].lits, Last(word)) = None
    BY <2>3, BlankFacts DEF First
  <2>9. LitTo(At(b, s), word, to) = u
    BY <1>2, <2>7, <2>8
  <2>10. u.st[s] = WithLit(b.st[s], word[1], Len(b.st) + 1)
    BY <2>3, <2>4, <2>5 DEF Sets, Edits
  <2>11. Edits(b, u, s)
    <3>1. Edits(v.b, u, v.at) /\ v.at > Len(b.st) /\ v.at \in Nat
      BY <2>3, <2>4, <2>5, <1>1 DEF Sets
    <3> QED BY <3>1, <2>3, <2>7, <1>1, EditsTwice
  <2>12. Closed(b, u, s, word[1])
    BY <2>10, <2>11, <1>1 DEF Closed, Index
  <2> QED BY <2>6, <2>9, <2>12
<1> QED BY <1>3, <1>4

-----------------------------------------------------------------------------
(* Words: a chain of new states *)

\* u is r with a new state that means Z and q for its state x, which leads there.
Linked(b, d, R, s, r, T, left, x, q, Z, u, U) ==
  /\ Work(b, d, R, s, u, U, left \cup {Len(r.st) + 1})
  /\ Len(u.st) = Len(r.st) + 1 /\ u.st[Len(r.st) + 1] = Blank /\ U[Len(r.st) + 1] = Z
  /\ Same(r, T, U) /\ u.st[x] = q /\ Edits(r, u, x)
MayLink(b, d, R, s, r, T, left, x, q, Z, u) == \E U : Linked(b, d, R, s, r, T, left, x, q, Z, u, U)

LEMMA LinkLit ==
  ASSUME NEW b, NEW d, NEW R, NEW s, NEW r, NEW T, NEW left, Work(b, d, R, s, r, T, left),
         NEW x \in left, Own(b, s, r, x), NEW c \in Byte, NEW Z, Z \subseteq Text, Z # {}
  PROVE  MayLink(b, d, R, s, r, T, left, x, WithLit(r.st[x], c, Len(r.st) + 1), Z,
                 AddLit(Add(r), x, c, Len(r.st) + 1))
<1> DEFINE n == Len(r.st) + 1  a == Add(r)  u == AddLit(a, x, c, n)
<1>1. PICK U : Work(b, d, R, s, a, U, left \cup {NewIn(r)}) /\ Added(r, T, Z, a, U)
  BY WorkAdd
<1>2. /\ Len(r.st) \in Nat /\ NewIn(r) = n /\ Len(a.st) = n /\ a.st[n] = Blank
      /\ \A y \in 1 .. Len(r.st) : a.st[y] = r.st[y]
      /\ Same(r, T, U) /\ U[n] = Z
  BY <1>1 DEF Added
<1>3. x \in 1 .. Len(r.st) /\ Own(b, s, a, x) /\ x # n
  <2>1. x \in 1 .. Len(r.st)
    BY WorkFacts
  <2> QED BY <2>1, <1>2 DEF Own
<1> HIDE DEF a
<1>4. Work(b, d, R, s, u, U, left \cup {n}) /\ Sets(a, u, x, WithLit(a.st[x], c, n))
  <2>1. Work(b, d, R, s, a, U, left \cup {n}) /\ x \in left \cup {n} /\ n \in 1 .. Len(a.st)
    BY <1>1, <1>2
  <2> HIDE DEF n
  <2> QED BY <2>1, <1>3, WorkLit
<1> HIDE DEF u
<1>5. Linked(b, d, R, s, r, T, left, x, WithLit(r.st[x], c, n), Z, u, U)
  BY <1>2, <1>3, <1>4 DEF Linked, Sets, Edits
<1> QED BY <1>5 DEF u, a, n, MayLink

LEMMA LinkTok ==
  ASSUME NEW b, NEW d, NEW R, NEW s, NEW r, NEW T, NEW left, Work(b, d, R, s, r, T, left),
         NEW x \in left, Own(b, s, r, x), NEW id \in Delims, NEW Z, Z \subseteq Text, Z # {},
         r.st[x].toks = <<>>
  PROVE  LET w == Tok(At(r, x), id)
         IN  /\ w.at = Len(r.st) + 1 /\ w = At(w.b, w.at)
             /\ MayLink(b, d, R, s, r, T, left, x, WithTok(r.st[x], id, Len(r.st) + 1), Z, w.b)
<1> DEFINE n == Len(r.st) + 1  a == Add(r)  u == TokTo(a, x, id, n)
<1>1. PICK U : Work(b, d, R, s, a, U, left \cup {NewIn(r)}) /\ Added(r, T, Z, a, U)
  BY WorkAdd
<1>2. /\ Len(r.st) \in Nat /\ NewIn(r) = n /\ Len(a.st) = n /\ a.st[n] = Blank
      /\ \A y \in 1 .. Len(r.st) : a.st[y] = r.st[y]
      /\ Same(r, T, U) /\ U[n] = Z
  BY <1>1 DEF Added
<1>3. x \in 1 .. Len(r.st) /\ Own(b, s, a, x) /\ x # n
  <2>1. x \in 1 .. Len(r.st)
    BY WorkFacts
  <2> QED BY <2>1, <1>2 DEF Own
<1>4. Tok(At(r, x), id) = At(u, n)
  <2>1. First(r.st[x].toks, id) = None
    BY DEF First
  <2> QED BY <2>1, <1>2 DEF Tok, At
<1> HIDE DEF a
<1>5. Work(b, d, R, s, u, U, left \cup {n}) /\ Sets(a, u, x, WithTok(a.st[x], id, n))
  <2>1. Work(b, d, R, s, a, U, left \cup {n}) /\ x \in left \cup {n} /\ n \in 1 .. Len(a.st)
    BY <1>1, <1>2
  <2> HIDE DEF n
  <2> QED BY <2>1, <1>3, WorkTok
<1> HIDE DEF u
<1>6. Linked(b, d, R, s, r, T, left, x, WithTok(r.st[x], id, n), Z, u, U)
  BY <1>2, <1>3, <1>5 DEF Linked, Sets, Edits
<1>7. Tok(At(r, x), id).b = u /\ Tok(At(r, x), id).at = n
  BY <1>4 DEF At
<1>8. At(Tok(At(r, x), id).b, Tok(At(r, x), id).at) = Tok(At(r, x), id)
  BY <1>4, <1>7
<1> QED BY <1>6, <1>7, <1>8 DEF u, a, n, MayLink

\* A state with one way on, which is exact when that leads where it should.
LEMMA ReadsOne ==
  ASSUME NEW R \in Lang, NEW s, NEW c \in Byte, NEW to \in Index
  PROVE  Reads(WithLit(Blank, c, to), s, R, Before({c}, R[to]))
<1>1. Reads(Blank, s, R, {}) /\ Blank \in Row /\ First(Blank.lits, c) = None /\ Goes(Blank, s, c) = None
  BY ReadsBlank, BlankFacts, GoesBlank
<1>2. Reads(WithLit(Blank, c, to), s, R, {} \cup Before({c}, R[to]))
  BY <1>1, ReadsLit
<1>3. {} \cup Before({c}, R[to]) = Before({c}, R[to])
  OBVIOUS
<1> QED BY <1>2, <1>3

LEMMA ReadsOneTok ==
  ASSUME NEW R \in Lang, NEW s, NEW k \in Marks, NEW to \in Index
  PROVE  Reads(WithTok(Blank, TokOf(k), to), s, R, Before({k}, R[to]))
<1>1. Reads(Blank, s, R, {}) /\ Blank \in Row /\ Goes(Blank, s, k) = None
  BY ReadsBlank, BlankFacts, GoesBlank
<1>2. Reads(WithTok(Blank, TokOf(k), to), s, R, {} \cup Before({k}, R[to]))
  BY <1>1, ReadsTok
<1>3. {} \cup Before({k}, R[to]) = Before({k}, R[to])
  OBVIOUS
<1> QED BY <1>2, <1>3

\* What is left of a word after k bytes.
Rest(word, k) == SubSeq(word, k + 1, Len(word))

LEMMA RestIs ==
  ASSUME NEW S, NEW word \in Seq(S)
  PROVE  /\ Len(word) \in Nat /\ Rest(word, 0) = word /\ Rest(word, Len(word)) = <<>>
         /\ \A k \in 0 .. Len(word) : Rest(word, k) \in Seq(S)
         /\ \A k \in 1 .. Len(word) : word[k] \in S /\ Rest(word, k - 1) = <<word[k]>> \odot Rest(word, k)
<1> DEFINE n == Len(word)
<1>1. n \in Nat /\ \A k \in 1 .. n : word[k] \in S
  OBVIOUS
<1>2. Rest(word, 0) = word
  BY DEF Rest
<1>3. Rest(word, n) = <<>>
  BY <1>1 DEF Rest
<1>4. \A k \in 0 .. n : Rest(word, k) \in Seq(S)
  BY <1>1 DEF Rest
<1>5. ASSUME NEW k \in 1 .. n PROVE Rest(word, k - 1) = <<word[k]>> \odot Rest(word, k)
  <2> DEFINE p == <<word[k]>>  u == Rest(word, k)  v == Rest(word, k - 1)
  <2>1. Len(p) = 1 /\ p[1] = word[k] /\ p \in Seq(S)
    BY <1>1
  <2>2. u \in Seq(S) /\ Len(u) = n - k /\ \A i \in 1 .. n - k : u[i] = word[i + k]
    BY <1>1, <1>4 DEF Rest
  <2>3. v \in Seq(S) /\ Len(v) = n - k + 1 /\ \A i \in 1 .. n - k + 1 : v[i] = word[i + k - 1]
    BY <1>1 DEF Rest
  <2> HIDE DEF p, u, v, n
  <2> DEFINE w == p \o u
  <2>4. /\ w \in Seq(S) /\ Len(w) = Len(p) + Len(u)
        /\ \A i \in 1 .. Len(p) + Len(u) : w[i] = IF i <= Len(p) THEN p[i] ELSE u[i - Len(p)]
    BY <2>1, <2>2, ConcatProperties
  <2> HIDE DEF w
  <2>5. Len(w) = n - k + 1
    BY <1>1, <2>1, <2>2, <2>4
  <2>6. ASSUME NEW i \in 1 .. n - k + 1 PROVE w[i] = v[i]
    <3>1. w[i] = IF i <= 1 THEN p[i] ELSE u[i - 1]
      BY <1>1, <2>1, <2>4, <2>2
    <3>2. CASE i = 1
      BY <1>1, <2>1, <2>3, <3>1, <3>2
    <3>3. CASE i # 1
      <4>1. i - 1 \in 1 .. n - k /\ ~(i <= 1)
        BY <1>1, <3>3
      <4>2. u[i - 1] = word[(i - 1) + k] /\ v[i] = word[i + k - 1]
        BY <2>2, <2>3, <4>1
      <4>3. (i - 1) + k = i + k - 1
        BY <1>1
      <4> QED BY <3>1, <4>1, <4>2, <4>3
    <3> QED BY <3>2, <3>3
  <2>7. w = v
    BY <2>3, <2>4, <2>5, <2>6, SeqEqual
  <2> QED BY <2>7 DEF p, u, v, w, \odot
<1> QED BY <1>1, <1>2, <1>3, <1>4, <1>5

\* A word that state s of b has no edge for.
NewWord(b, d, R, open, s, word) ==
  /\ Fit(b, d, R, open) /\ s \in 1 .. Len(b.st) /\ s # d /\ s \in open
  /\ word \in Seq(Byte) /\ word # <<>> /\ First(b.st[s].lits, word[1]) = None
\* w has followed k bytes of word from state s of b, through new states.
InChain(b, d, R, open, s, word, Z, k, w, T) ==
  /\ Work(b, d, R, s, w.b, T, open \cup {w.at})
  /\ w.at \in Len(b.st) + 1 .. Len(w.b.st) /\ w.b.st[w.at] = Blank
  /\ T[w.at] = Then({Rest(word, k)}, Z)
  /\ Len(b.st) + 1 \in 1 .. Len(w.b.st)
  /\ w.b.st[s] = WithLit(b.st[s], word[1], Len(b.st) + 1)
  /\ T[Len(b.st) + 1] = Then({Rest(word, 1)}, Z)
OnChain(b, d, R, open, s, word, Z, k, w) ==
  w = At(w.b, w.at) /\ \E T : InChain(b, d, R, open, s, word, Z, k, w, T)

\* What is left of a word before Z.
LEMMA RestThen ==
  ASSUME NEW word \in Seq(Byte), NEW Z, Z \subseteq Text, Z # {}
  PROVE  /\ Len(word) \in Nat /\ (word # <<>> => Len(word) >= 1)
         /\ \A k \in 0 .. Len(word) : Then({Rest(word, k)}, Z) \subseteq Text /\ Then({Rest(word, k)}, Z) # {}
         /\ \A k \in 1 .. Len(word) : /\ word[k] \in Byte
              /\ Then({Rest(word, k - 1)}, Z) = Before({word[k]}, Then({Rest(word, k)}, Z))
         /\ Then({Rest(word, 0)}, Z) = Then({word}, Z) /\ Then({Rest(word, Len(word))}, Z) = Z
<1>1. word \in Seq(Symbol) /\ (word # <<>> => Len(word) >= 1) /\ \A k \in 1 .. Len(word) : word[k] \in Byte
  <2>1. Byte \subseteq Symbol
    BY MarkFacts
  <2> QED BY <2>1, SeqMonotonic, EmptySeq, LenProperties
<1>2. /\ Len(word) \in Nat /\ Rest(word, 0) = word /\ Rest(word, Len(word)) = <<>>
      /\ \A k \in 0 .. Len(word) : Rest(word, k) \in Text
      /\ \A k \in 1 .. Len(word) : word[k] \in Symbol /\ Rest(word, k - 1) = <<word[k]>> \odot Rest(word, k)
  BY <1>1, RestIs DEF Text
<1>3. ASSUME NEW k \in 0 .. Len(word)
      PROVE  Then({Rest(word, k)}, Z) \subseteq Text /\ Then({Rest(word, k)}, Z) # {}
  <2> DEFINE X == {Rest(word, k)}
  <2>1. X \subseteq Text /\ X # {}
    BY <1>2
  <2> HIDE DEF X
  <2>2. Then(X, Z) \subseteq Text /\ Then(X, Z) # {}
    BY <2>1, ThenType, ThenSome
  <2> QED BY <2>2 DEF X
<1>4. ASSUME NEW k \in 1 .. Len(word)
      PROVE  Then({Rest(word, k - 1)}, Z) = Before({word[k]}, Then({Rest(word, k)}, Z))
  <2>1. word[k] \in Symbol /\ Rest(word, k) \in Text /\ Rest(word, k - 1) = <<word[k]>> \odot Rest(word, k)
    BY <1>2
  <2> QED BY <2>1, BeforeOne
<1>5. Then({<<>>}, Z) = Z
  BY ThenNone
<1> QED BY <1>1, <1>2, <1>3, <1>4, <1>5

LEMMA RestAt ==
  ASSUME NEW word \in Seq(Byte), NEW Z, Z \subseteq Text, Z # {}, NEW k \in 1 .. Len(word)
  PROVE  /\ Then({Rest(word, k)}, Z) \subseteq Text /\ Then({Rest(word, k)}, Z) # {} /\ word[k] \in Byte
         /\ Then({Rest(word, k - 1)}, Z) = Before({word[k]}, Then({Rest(word, k)}, Z))
<1> DEFINE X(j) == Then({Rest(word, j)}, Z)
<1>1. /\ Len(word) \in Nat
      /\ \A j \in 0 .. Len(word) : X(j) \subseteq Text /\ X(j) # {}
      /\ \A j \in 1 .. Len(word) : word[j] \in Byte /\ X(j - 1) = Before({word[j]}, X(j))
  BY RestThen, Zenon
<1> HIDE DEF X
<1>2. X(k) \subseteq Text /\ X(k) # {} /\ word[k] \in Byte /\ X(k - 1) = Before({word[k]}, X(k))
  BY <1>1
<1> QED BY <1>2 DEF X

LEMMA ChainStart ==
  ASSUME NEW b, NEW d, NEW R, NEW open, NEW s, NEW word, NewWord(b, d, R, open, s, word),
         NEW Z, Z \subseteq Text, Z # {}
  PROVE  OnChain(b, d, R, open, s, word, Z, 1, LitStep(At(b, s), word[1]))
<1>1. /\ Fit(b, d, R, open) /\ s \in 1 .. Len(b.st) /\ s # d /\ s \in open
      /\ word \in Seq(Byte) /\ word # <<>> /\ First(b.st[s].lits, word[1]) = None
  BY DEF NewWord
<1> DEFINE n == Len(b.st) + 1  c == word[1]  Y == Then({Rest(word, 1)}, Z)  u == AddLit(Add(b), s, c, n)
<1>2. Y \subseteq Text /\ Y # {} /\ c \in Byte
  <2>1. 1 \in 1 .. Len(word) /\ word \in Seq(Byte)
    BY <1>1, EmptySeq, LenProperties
  <2> QED BY <2>1, RestAt
<1> HIDE DEF c, Y
<1>3. Work(b, d, R, s, b, R, open) /\ Own(b, s, b, s) /\ Len(b.st) \in Nat
  BY <1>1, WorkBegin, FitFacts DEF Own
<1>4. LitStep(At(b, s), c) = At(u, n)
  <2>1. NewIn(b) = n
    BY DEF NewIn
  <2> QED BY <1>1, <2>1 DEF LitStep, At, c
<1>5. PICK T : Linked(b, d, R, s, b, R, open, s, WithLit(b.st[s], c, n), Y, u, T)
  <2>1. MayLink(b, d, R, s, b, R, open, s, WithLit(b.st[s], c, n), Y, u)
    BY <1>1, <1>2, <1>3, LinkLit
  <2> QED BY <2>1 DEF MayLink
<1> HIDE DEF u
<1>6. InChain(b, d, R, open, s, word, Z, 1, At(u, n), T)
  BY <1>3, <1>5 DEF Linked, InChain, At, n, Y, c
<1> QED BY <1>4, <1>6 DEF OnChain, At, c

LEMMA ChainStep ==
  ASSUME NEW b, NEW d, NEW R, NEW open, NEW s, NEW word, NewWord(b, d, R, open, s, word),
         NEW Z, Z \subseteq Text, Z # {}, NEW k \in 2 .. Len(word), NEW v,
         OnChain(b, d, R, open, s, word, Z, k - 1, v)
  PROVE  OnChain(b, d, R, open, s, word, Z, k, LitStep(v, word[k]))
<1>1. PICK T : InChain(b, d, R, open, s, word, Z, k - 1, v, T)
  BY DEF OnChain
<1> DEFINE r == v.b  x == v.at  m == Len(b.st) + 1  n == Len(r.st) + 1  c == word[k]
           Y == Then({Rest(word, k)}, Z)  u == AddLit(Add(r), x, c, n)  left == open \cup {x}
<1>2. Y \subseteq Text /\ Y # {} /\ c \in Byte /\ Then({Rest(word, k - 1)}, Z) = Before({c}, Y)
  <2>1. k \in 1 .. Len(word) /\ word \in Seq(Byte)
    BY DEF NewWord
  <2> QED BY <2>1, RestAt
<1>3. /\ Work(b, d, R, s, r, T, left) /\ x \in m .. Len(r.st) /\ r.st[x] = Blank
      /\ T[x] = Before({c}, Y) /\ m \in 1 .. Len(r.st)
      /\ r.st[s] = WithLit(b.st[s], word[1], m) /\ T[m] = Then({Rest(word, 1)}, Z)
  BY <1>1, <1>2 DEF InChain
<1> HIDE DEF c, Y
<1>4. LitStep(v, c) = At(u, n)
  <2>1. NewIn(r) = n /\ First(r.st[x].lits, c) = None
    BY <1>3, GoesBlank DEF NewIn
  <2> QED BY <2>1 DEF LitStep
<1> HIDE DEF r, x, left
<1>5. Own(b, s, r, x) /\ x \in left /\ Len(r.st) \in Nat /\ Len(b.st) \in Nat /\ s \in 1 .. Len(b.st) /\ x # s
  <2>1. x \in left
    BY DEF left
  <2>2. Len(r.st) \in Nat /\ Len(b.st) \in Nat /\ s \in 1 .. Len(b.st)
    BY <1>3, WorkFacts DEF Work
  <2> QED BY <1>3, <2>1, <2>2 DEF Own
<1>6. PICK U : Linked(b, d, R, s, r, T, left, x, WithLit(Blank, c, n), Y, u, U)
  <2>1. MayLink(b, d, R, s, r, T, left, x, WithLit(r.st[x], c, n), Y, u)
    BY <1>2, <1>3, <1>5, LinkLit
  <2> QED BY <2>1, <1>3 DEF MayLink
<1> HIDE DEF u
<1>7. /\ Work(b, d, R, s, u, U, left \cup {n}) /\ Len(u.st) = n /\ u.st[n] = Blank /\ U[n] = Y
      /\ Same(r, T, U) /\ u.st[x] = WithLit(Blank, c, n) /\ Edits(r, u, x)
  BY <1>6 DEF Linked
<1>8. U[x] = Before({c}, U[n]) /\ U[m] = T[m] /\ u.st[s] = r.st[s]
  BY <1>3, <1>5, <1>7, SMTT(30) DEF Same, Edits
<1>9. Reads(u.st[x], x, U, U[x])
  <2>1. U \in Lang /\ n \in Index
    BY <1>5, <1>7, WorkFacts DEF Index
  <2> HIDE DEF n
  <2>2. Reads(WithLit(Blank, c, n), x, U, Before({c}, U[n]))
    BY <1>2, <2>1, ReadsOne
  <2> QED BY <2>2, <1>7, <1>8
<1>10. Work(b, d, R, s, u, U, (left \cup {n}) \ {x})
  BY <1>7, <1>9, WorkClose
<1>11. Work(b, d, R, s, u, U, open \cup {n})
  <2>1. (left \cup {n}) \ {x} \subseteq open \cup {n}
    BY DEF left
  <2> QED BY <1>10, <2>1, FitMore DEF Work
<1>12. InChain(b, d, R, open, s, word, Z, k, At(u, n), U)
  BY <1>3, <1>5, <1>7, <1>8, <1>11 DEF InChain, At, Y
<1> QED BY <1>4, <1>12 DEF OnChain, At, c

\* A word through new states, and then Z.
LEMMA ChainIs ==
  ASSUME NEW b, NEW d, NEW R, NEW open, NEW s, NEW word, NewWord(b, d, R, open, s, word),
         NEW Z, Z \subseteq Text, Z # {}
  PROVE  OnChain(b, d, R, open, s, word, Z, Len(word), Lit(At(b, s), word))
<1> DEFINE n == Len(word)
           P == [k \in 0 .. n |-> IF k = 0 THEN {At(b, s)}
                   ELSE {w \in Cursor : OnChain(b, d, R, open, s, word, Z, k, w)}]
<1>1. n \in Nat /\ n >= 1
  BY RestThen DEF NewWord
<1>2. ASSUME NEW k, NEW w, OnChain(b, d, R, open, s, word, Z, k, w) PROVE w \in Cursor
  <2>1. PICK T : InChain(b, d, R, open, s, word, Z, k, w, T) /\ w = At(w.b, w.at)
    BY <1>2 DEF OnChain
  <2>2. w.b \in Builder /\ Len(b.st) \in Nat /\ w.at \in Len(b.st) + 1 .. Len(w.b.st) /\ Len(w.b.st) \in Nat
    <3>1. Work(b, d, R, s, w.b, T, open \cup {w.at}) /\ w.at \in Len(b.st) + 1 .. Len(w.b.st)
      BY <2>1 DEF InChain
    <3>2. Fit(w.b, d, T, open \cup {w.at}) /\ Len(b.st) \in Nat
      BY <3>1, WorkFacts
    <3> QED BY <3>1, <3>2, FitFacts
  <2> QED BY <2>1, <2>2 DEF Cursor, At, Index
<1>3. At(b, s) \in P[0]
  BY <1>1
<1>4. ASSUME NEW k \in 1 .. n, NEW v \in P[k - 1] PROVE LitStep(v, word[k]) \in P[k]
  <2>1. OnChain(b, d, R, open, s, word, Z, k, LitStep(v, word[k]))
    <3>1. CASE k = 1
      <4>1. v = At(b, s)
        BY <1>1, <1>4, <3>1
      <4> QED BY <3>1, <4>1, ChainStart
    <3>2. CASE k # 1
      <4>1. k \in 2 .. Len(word) /\ OnChain(b, d, R, open, s, word, Z, k - 1, v)
        BY <1>1, <1>4, <3>2
      <4> HIDE DEF P, n
      <4> QED BY <4>1, ChainStep
    <3> QED BY <3>1, <3>2
  <2>2. LitStep(v, word[k]) \in Cursor
    BY <1>2, <2>1
  <2> QED BY <1>1, <2>1, <2>2
<1>5. Lit(At(b, s), word) \in P[n]
  <2> HIDE DEF P
  <2> QED BY <1>1, <1>3, <1>4, LitRuns
<1> QED BY <1>1, <1>5

\* r has a word from state s of b, where it had no edge for it, to state to.
WordSet(b, d, R, open, s, word, to, r, T) ==
  /\ Work(b, d, R, s, r, T, open)
  /\ \E x \in 1 .. Len(r.st) : /\ r.st[s] = WithLit(b.st[s], word[1], x)
                               /\ T[x] = Then({Rest(word, 1)}, R[to])
MaySet(b, d, R, open, s, word, to, r) == \E T : WordSet(b, d, R, open, s, word, to, r, T)

LEMMA FrontRest ==
  ASSUME NEW word \in Seq(Byte), word # <<>>, Len(word) # 1
  PROVE  Rest(Front(word), 1) \in Text /\ Rest(word, 1) = Rest(Front(word), 1) \odot <<Last(word)>>
<1> DEFINE n == Len(word)  f == Front(word)  p == Rest(f, 1)  l == <<Last(word)>>  v == Rest(word, 1)
<1>1. n \in Nat /\ n >= 2 /\ \A i \in 1 .. n : word[i] \in Byte
  <2>1. n \in Nat /\ \A i \in 1 .. n : word[i] \in Byte
    OBVIOUS
  <2>2. n # 0 /\ n # 1
    BY EmptySeq, LenProperties
  <2> HIDE DEF n
  <2> QED BY <2>1, <2>2
<1>2. f \in Seq(Byte) /\ Len(f) = n - 1 /\ \A i \in 1 .. n - 1 : f[i] = word[i]
  BY <1>1 DEF Front
<1> HIDE DEF f
<1>3. p \in Seq(Byte) /\ Len(p) = n - 2 /\ \A i \in 1 .. n - 2 : p[i] = word[i + 1]
  BY <1>1, <1>2 DEF Rest
<1>4. l \in Seq(Byte) /\ Len(l) = 1 /\ l[1] = word[n]
  BY <1>1 DEF Last
<1>5. v \in Seq(Byte) /\ Len(v) = n - 1 /\ \A i \in 1 .. n - 1 : v[i] = word[i + 1]
  BY <1>1 DEF Rest
<1> DEFINE w == p \o l
<1> HIDE DEF p, l, v, n
<1>6. /\ w \in Seq(Byte) /\ Len(w) = Len(p) + Len(l)
      /\ \A i \in 1 .. Len(p) + Len(l) : w[i] = IF i <= Len(p) THEN p[i] ELSE l[i - Len(p)]
  BY <1>3, <1>4, ConcatProperties
<1> HIDE DEF w
<1>7. ASSUME NEW i \in 1 .. n - 1 PROVE w[i] = v[i]
  <2>1. w[i] = IF i <= n - 2 THEN p[i] ELSE l[i - (n - 2)]
    BY <1>1, <1>3, <1>4, <1>6
  <2>2. CASE i <= n - 2
    <3>1. i \in 1 .. n - 2
      BY <1>1, <2>2
    <3> QED BY <1>3, <1>5, <2>1, <2>2, <3>1
  <2>3. CASE ~(i <= n - 2)
    <3>1. i = n - 1 /\ i - (n - 2) = 1 /\ i + 1 = n
      BY <1>1, <2>3
    <3> QED BY <1>4, <1>5, <2>1, <2>3, <3>1
  <2> QED BY <2>2, <2>3
<1>8. w = v
  <2>1. Len(w) = Len(v) /\ w \in Seq(Byte) /\ v \in Seq(Byte) /\ \A i \in 1 .. Len(w) : w[i] = v[i]
    BY <1>1, <1>3, <1>4, <1>5, <1>6, <1>7
  <2> QED BY <2>1, SeqEqual
<1>9. p \in Text
  BY <1>3, MarkFacts, SeqMonotonic DEF Text
<1> QED BY <1>8, <1>9 DEF f, p, l, v, w, \odot

\* A word and a last byte before a language.
LEMMA ThenLast ==
  ASSUME NEW p \in Text, NEW c \in Symbol, NEW Y, Y \subseteq Text
  PROVE  Then({p}, Before({c}, Y)) = Then({p \odot <<c>>}, Y)
<1> DEFINE P == {p}  C == {<<c>>}
<1>1. P \subseteq Text /\ C \subseteq Text /\ <<c>> \in Text /\ <<>> \in Text /\ <<c>> = <<c>> \odot <<>>
  BY TextFacts
<1>2. Then(C, Y) = Before({c}, Y)
  <2>1. Then({<<c>> \odot <<>>}, Y) = Before({c}, Then({<<>>}, Y)) /\ Then({<<>>}, Y) = Y
    BY <1>1, BeforeOne, ThenNone
  <2> QED BY <1>1, <2>1
<1>3. Then(P, C) = {p \odot <<c>>}
  BY <1>1, ThenOne
<1> HIDE DEF P, C
<1>4. Then(Then(P, C), Y) = Then(P, Then(C, Y))
  BY <1>1, ThenAssoc
<1> QED BY <1>2, <1>3, <1>4 DEF P

LEMMA WordTo ==
  ASSUME NEW b, NEW d, NEW R, NEW open, NEW s, NEW word, NewWord(b, d, R, open, s, word),
         NEW to \in 1 .. Len(b.st)
  PROVE  MaySet(b, d, R, open, s, word, to, LitTo(At(b, s), word, to))
<1> DEFINE v == Lit(At(b, s), Front(word))
           r == v.b
           x == v.at
           c == Last(word)
           u == AddLit(r, x, c, to)
<1>1. /\ Fit(b, d, R, open) /\ s \in 1 .. Len(b.st) /\ s # d /\ s \in open
      /\ word \in Seq(Byte) /\ word # <<>> /\ First(b.st[s].lits, word[1]) = None
  BY DEF NewWord
<1>2. Work(b, d, R, s, b, R, open) /\ Own(b, s, b, s) /\ Len(b.st) \in Nat /\ R[to] \subseteq Text /\ R[to] # {}
  BY <1>1, WorkBegin, FitFacts DEF Own
<1>3. ASSUME First(r.st[x].lits, c) = None, u \in Builder, u.panic = FALSE
      PROVE  LitTo(At(b, s), word, to) = u
  <2> HIDE DEF u, v
  <2>1. LitTo(At(b, s), word, to) = [u EXCEPT !.panic = u.panic \/ First(r.st[x].lits, c) # None]
    BY DEF LitTo, v, u
  <2>2. (u.panic \/ First(r.st[x].lits, c) # None) = u.panic
    BY <1>3
  <2>3. [u EXCEPT !.panic = u.panic] = [st |-> u.st, panic |-> u.panic]
    BY <1>3, Fields
  <2> QED BY <2>1, <2>2, <2>3, <1>3, Fields
<1>4. CASE Len(word) = 1
  <2>1. r = b /\ x = s /\ c = word[1] /\ c \in Byte
    BY <1>1, <1>4, Front1, LitEmpty DEF At
  <2> HIDE DEF v, r, x, c
  <2>2. Work(b, d, R, s, u, R, open) /\ Sets(b, u, s, WithLit(b.st[s], c, to))
    BY <1>1, <1>2, <2>1, WorkLit
  <2> HIDE DEF u
  <2>3. u \in Builder /\ u.panic = FALSE
    <3>1. Fit(u, d, R, open)
      BY <2>2, WorkFacts
    <3> QED BY <3>1, OkFacts DEF Fit
  <2>4. LitTo(At(b, s), word, to) = u
    BY <1>1, <1>3, <2>1, <2>3
  <2>5. R[to] = Then({Rest(word, 1)}, R[to])
    <3>1. Then({Rest(word, Len(word))}, R[to]) = R[to]
      BY <1>1, <1>2, RestThen
    <3> QED BY <1>4, <3>1
  <2>6. WordSet(b, d, R, open, s, word, to, u, R)
    BY <2>1, <2>2, <2>5 DEF WordSet, Sets
  <2> QED BY <2>4, <2>6 DEF MaySet
<1>5. CASE Len(word) # 1
  <2> DEFINE f == Front(word)  Z == Before({c}, R[to])  m == Len(b.st) + 1
  <2>1. f \in Seq(Byte) /\ f # <<>> /\ f[1] = word[1] /\ c \in Byte
    BY <1>1, <1>5, Front1
  <2>2. NewWord(b, d, R, open, s, f)
    BY <1>1, <2>1 DEF NewWord
  <2>3. Z \subseteq Text /\ Z # {} /\ c \in Symbol /\ {c} \subseteq Symbol
    BY <1>2, <2>1, MarkFacts, BeforeType
  <2> HIDE DEF Z
  <2>4. OnChain(b, d, R, open, s, f, Z, Len(f), v)
    BY <2>2, <2>3, ChainIs
  <2>5. PICK T : InChain(b, d, R, open, s, f, Z, Len(f), v, T)
    BY <2>4 DEF OnChain
  <2> HIDE DEF v, f, c
  <2>6. /\ Work(b, d, R, s, r, T, open \cup {x}) /\ x \in m .. Len(r.st) /\ r.st[x] = Blank
        /\ T[x] = Then({Rest(f, Len(f))}, Z) /\ m \in 1 .. Len(r.st)
        /\ r.st[s] = WithLit(b.st[s], word[1], m) /\ T[m] = Then({Rest(f, 1)}, Z)
    BY <2>1, <2>5 DEF InChain
  <2> HIDE DEF r, x
  <2>7. /\ Own(b, s, r, x) /\ x \in open \cup {x} /\ to \in 1 .. Len(r.st) /\ x # s
        /\ T \in Lang /\ T[to] = R[to] /\ s \in 1 .. Len(r.st)
    <3>1. Len(r.st) \in Nat /\ Len(b.st) <= Len(r.st) /\ T \in Lang
      BY <2>6, WorkFacts
    <3>2. Same(b, R, T)
      BY <2>6 DEF Work
    <3> QED BY <1>1, <1>2, <2>6, <3>1, <3>2 DEF Own, Same
  <2>8. Work(b, d, R, s, u, T, open \cup {x}) /\ Sets(r, u, x, WithLit(Blank, c, to))
    BY <2>1, <2>6, <2>7, WorkLit
  <2> HIDE DEF u
  <2>9. T[x] = Before({c}, T[to])
    <3>1. Then({Rest(f, Len(f))}, Z) = Z
      BY <2>1, <2>3, RestThen
    <3> QED BY <2>6, <2>7, <3>1 DEF Z
  <2>10. Reads(u.st[x], x, T, T[x])
    <3>1. to \in Index
      BY <1>2 DEF Index
    <3>2. Reads(WithLit(Blank, c, to), x, T, Before({c}, T[to]))
      BY <2>1, <2>7, <3>1, ReadsOne
    <3> QED BY <2>8, <2>9, <3>2 DEF Sets
  <2>11. Work(b, d, R, s, u, T, open)
    <3>1. Work(b, d, R, s, u, T, (open \cup {x}) \ {x})
      BY <2>8, <2>10, WorkClose
    <3> QED BY <3>1, FitMore, (open \cup {x}) \ {x} \subseteq open DEF Work
  <2>12. T[m] = Then({Rest(word, 1)}, R[to])
    <3>1. Rest(f, 1) \in Text /\ Rest(word, 1) = Rest(f, 1) \odot <<c>>
      BY <1>1, <1>5, FrontRest DEF f, c
    <3>2. Then({Rest(f, 1)}, Before({c}, R[to])) = Then({Rest(f, 1) \odot <<c>>}, R[to])
      BY <1>2, <2>3, <3>1, ThenLast
    <3> QED BY <2>6, <3>1, <3>2 DEF Z
  <2>13. u.st[s] = WithLit(b.st[s], word[1], m) /\ m \in 1 .. Len(u.st)
    BY <2>6, <2>7, <2>8 DEF Sets, Edits
  <2>14. WordSet(b, d, R, open, s, word, to, u, T)
    BY <2>11, <2>12, <2>13 DEF WordSet
  <2>15. LitTo(At(b, s), word, to) = u
    <3>1. u \in Builder /\ u.panic = FALSE
      <4>1. Fit(u, d, T, open)
        BY <2>11, WorkFacts
      <4> QED BY <4>1, OkFacts DEF Fit
    <3>2. First(r.st[x].lits, c) = None
      BY <2>6, GoesBlank
    <3> QED BY <1>3, <3>1, <3>2
  <2> QED BY <2>14, <2>15 DEF MaySet
<1> QED BY <1>4, <1>5
-----------------------------------------------------------------------------
(* Values and parameters: what starts at a blank state *)

Fresh(b, d, open, s) == Ok(b, d, open) /\ s \in 1 .. Len(b.st) /\ s # d /\ b.st[s] = Blank
\* r has given s a way on and changed no other state of b.
Filled(b, d, open, s, r) == Ok(r, d, open \ {s}) /\ Edits(b, r, s)

LEMMA FreshFacts ==
  ASSUME NEW b, NEW d, NEW open, NEW s, Fresh(b, d, open, s)
  PROVE  /\ Ok(b, d, open) /\ s \in 1 .. Len(b.st) /\ s # d /\ b.st[s] = Blank
         /\ Len(b.st) \in Nat /\ d \in 0 .. Len(b.st) /\ b \in Builder
         /\ \A word \in Seq(Byte) \ {<<>>} : IsNew(b, d, open, s, word)
<1>1. /\ Ok(b, d, open) /\ s \in 1 .. Len(b.st) /\ s # d /\ b.st[s] = Blank
      /\ Len(b.st) \in Nat /\ d \in 0 .. Len(b.st) /\ b \in Builder
  BY OkFacts DEF Fresh, Ok
<1>2. \A x : First(Blank.lits, x) = None
  BY BlankFacts DEF First
<1> QED BY <1>1, <1>2 DEF IsNew

LEMMA FilledTwice ==
  ASSUME NEW b, NEW d, NEW open, NEW s, NEW r, NEW left, NEW t, NEW u,
         Len(b.st) \in Nat, Len(r.st) \in Nat, Len(u.st) \in Nat, t \in Nat,
         Edits(b, r, s), Filled(r, d, left, t, u), t = s \/ t > Len(b.st), left \ {t} \subseteq open \ {s}
  PROVE  Filled(b, d, open, s, u)
BY EditsTwice, OkMore DEF Filled

LEMMA Singles == \A c : <<c>> # <<>> /\ <<c>>[1] = c /\ \A S : c \in S => <<c>> \in Seq(S)
OBVIOUS

LEMMA Bytes ==
  /\ {"{", "}", ",", ":", "-", ".", " "} \subseteq Byte /\ Digit # {}
  /\ CallWord \in Seq(Byte) /\ CallWord # <<>> /\ TrueWord \in Seq(Byte) /\ TrueWord # <<>>
  /\ FalseWord \in Seq(Byte) /\ FalseWord # <<>> /\ TrueWord[1] # FalseWord[1]
BY VocabAssumption

\* str: a quoted text of any length.
LEMMA StrOk ==
  ASSUME NEW w, NEW d, NEW open, Fresh(w.b, d, open, w.at), w = At(w.b, w.at),
         NEW exitOn \in Byte, NEW to \in 1 .. Len(w.b.st), NEW ty, ty.kind = "str"
  PROVE  Filled(w.b, d, open, w.at, ValueTo(w, ty, exitOn, to))
<1> DEFINE b == w.b  s == w.at
           body == Tok(w, Quote)
           mid == SetClass(body.b, body.at, StrByte, None, None, None)
           closed == Tok(At(mid, body.at), Quote)
           r == LitTo(closed, <<exitOn>>, to)
<1>1. ValueTo(w, ty, exitOn, to) = r
  BY DEF ValueTo
<1>2. /\ Ok(b, d, open) /\ s \in 1 .. Len(b.st) /\ s # d /\ b.st[s] = Blank
      /\ Len(b.st) \in Nat /\ d \in 0 .. Len(b.st)
  BY FreshFacts
<1>3. /\ body.at = Len(b.st) + 1 /\ Ok(body.b, d, (open \ {s}) \cup {body.at})
      /\ Edits(b, body.b, s) /\ Len(body.b.st) = Len(b.st) + 1 /\ body.b.st[body.at] = Blank
  <2>1. b.st[s].toks = <<>> /\ Quote \in Delims
    BY <1>2, BlankFacts DEF Delims
  <2>2. LET n == Len(b.st) + 1  u == Tok(At(b, s), Quote)
        IN  /\ u.at = n /\ Ok(u.b, d, (open \ {s}) \cup {n})
            /\ Links(b, u.b, s, WithTok(b.st[s], Quote, n))
    BY <1>2, <2>1, LinkTokOk
  <2>3. body = Tok(At(b, s), Quote)
    OBVIOUS
  <2> HIDE DEF body
  <2> QED BY <2>2, <2>3 DEF Links
<1> HIDE DEF body
<1>4. /\ Ok(mid, d, (open \ {s}) \cup {body.at}) /\ Edits(body.b, mid, body.at)
      /\ mid.st[body.at].toks = <<>> /\ Len(mid.st) = Len(body.b.st)
  <2>1. body.at \in 1 .. Len(body.b.st) /\ body.at # d /\ None \in 0 .. Len(body.b.st)
    BY <1>2, <1>3 DEF None
  <2>2. IsClass(body.b, d, (open \ {s}) \cup {body.at}, body.at,
          [bytes |-> StrByte, to |-> None, exitOn |-> None, exit |-> None])
    BY <1>3, <2>1 DEF IsClass
  <2>3. Classed(body.b, d, (open \ {s}) \cup {body.at}, body.at, mid, StrByte = Digit)
    BY <2>2, SetClassOk
  <2> HIDE DEF mid
  <2>4. Ok(mid, d, (open \ {s}) \cup {body.at})
    BY <2>3, OkMore, ((open \ {s}) \cup {body.at}) \cup {body.at} \subseteq (open \ {s}) \cup {body.at}
       DEF Classed
  <2> QED BY <1>3, <2>3, <2>4, BlankFacts DEF Classed
<1> HIDE DEF mid
<1>5. /\ closed.at = Len(mid.st) + 1 /\ Ok(closed.b, d, (((open \ {s}) \cup {body.at}) \ {body.at}) \cup {closed.at})
      /\ Edits(mid, closed.b, body.at) /\ Len(closed.b.st) = Len(mid.st) + 1
      /\ closed.b.st[closed.at] = Blank /\ closed = At(closed.b, closed.at)
  <2>1. body.at \in 1 .. Len(mid.st) /\ body.at # d /\ Quote \in Delims
    BY <1>2, <1>3, <1>4 DEF Delims
  <2>2. closed = At(closed.b, closed.at)
    BY DEF Tok, At
  <2>3. LET n == Len(mid.st) + 1  u == Tok(At(mid, body.at), Quote)
            left == (((open \ {s}) \cup {body.at}) \ {body.at}) \cup {n}
        IN  u.at = n /\ Ok(u.b, d, left) /\ Links(mid, u.b, body.at, WithTok(mid.st[body.at], Quote, n))
    BY <1>4, <2>1, LinkTokOk
  <2> HIDE DEF closed
  <2>4. closed = Tok(At(mid, body.at), Quote)
    BY DEF closed
  <2> QED BY <2>2, <2>3, <2>4 DEF Links
<1> HIDE DEF closed
<1>6. Filled(closed.b, d, (open \ {s}) \cup {closed.at}, closed.at, r)
  <2>1. Ok(closed.b, d, (open \ {s}) \cup {closed.at})
    BY <1>5, OkMore, (((open \ {s}) \cup {body.at}) \ {body.at}) \cup {closed.at} \subseteq (open \ {s}) \cup {closed.at}
  <2>2. Fresh(closed.b, d, (open \ {s}) \cup {closed.at}, closed.at)
    BY <2>1, <1>2, <1>3, <1>4, <1>5 DEF Fresh
  <2>3. <<exitOn>> \in Seq(Byte) \ {<<>>} /\ to \in 1 .. Len(closed.b.st)
    BY <1>2, <1>3, <1>4, <1>5, Singles
  <2>4. IsNew(closed.b, d, (open \ {s}) \cup {closed.at}, closed.at, <<exitOn>>)
    BY <2>2, <2>3, FreshFacts
  <2>5. LET u == LitTo(At(closed.b, closed.at), <<exitOn>>, to)
        IN  Ok(u, d, ((open \ {s}) \cup {closed.at}) \ {closed.at}) /\ Closed(closed.b, u, closed.at, <<exitOn>>[1])
    BY <2>3, <2>4, LitToOk
  <2> QED BY <2>5, <1>5 DEF Filled, Closed
<1>7. /\ Len(r.st) \in Nat /\ Len(closed.b.st) \in Nat /\ Len(mid.st) \in Nat /\ Len(body.b.st) \in Nat
  BY <1>6, <1>5, <1>3, <1>4, <1>2, OkFacts DEF Filled
<1> HIDE DEF r
<1>8. Edits(b, mid, s)
  BY <1>2, <1>3, <1>4, <1>7, EditsTwice
<1>9. Edits(b, closed.b, s)
  BY <1>2, <1>3, <1>5, <1>7, <1>8, EditsTwice, SMTT(30)
<1>10. Filled(b, d, open, s, r)
  <2>1. closed.at > Len(b.st) /\ closed.at \in Nat
    BY <1>2, <1>3, <1>4, <1>5, SMTT(30)
  <2>2. ((open \ {s}) \cup {closed.at}) \ {closed.at} \subseteq open \ {s}
    OBVIOUS
  <2> QED BY <1>2, <1>6, <1>7, <1>9, <2>1, <2>2, FilledTwice
<1> QED BY <1>1, <1>10

\* r has grown out of state s of b.
Grown(b, d, s, r, left) ==
  /\ Len(b.st) \in Nat /\ s \in 1 .. Len(b.st) /\ s # d /\ d \in 0 .. Len(b.st)
  /\ Ok(r, d, left) /\ Edits(b, r, s)
Steps(b, d, s, r, u, left) == Grown(b, d, s, u, left) /\ Len(u.st) = Len(r.st)

LEMMA OwnFacts ==
  ASSUME NEW b, NEW d, NEW s, NEW r, NEW left, NEW x, Grown(b, d, s, r, left), Own(b, s, r, x)
  PROVE  /\ x \in 1 .. Len(r.st) /\ x # d /\ Ok(r, d, left) /\ Len(r.st) \in Nat
         /\ x = s \/ x > Len(b.st)
BY OkFacts DEF Grown, Own, Edits

LEMMA GrownAdd ==
  ASSUME NEW b, NEW d, NEW s, NEW r, NEW left, Grown(b, d, s, r, left)
  PROVE  /\ Grown(b, d, s, Add(r), left \cup {NewIn(r)})
         /\ Len(Add(r).st) = Len(r.st) + 1 /\ NewIn(r) = Len(r.st) + 1 /\ Len(r.st) \in Nat
<1>1. /\ Ok(Add(r), d, left \cup {NewIn(r)}) /\ NewIn(r) = Len(r.st) + 1
      /\ Len(Add(r).st) = Len(r.st) + 1 /\ Len(r.st) \in Nat
      /\ \A q \in 1 .. Len(r.st) : Add(r).st[q] = r.st[q]
  BY AddOk DEF Grown
<1>2. Edits(b, Add(r), s)
  BY <1>1 DEF Grown, Edits
<1> QED BY <1>1, <1>2 DEF Grown

LEMMA GrownEdit ==
  ASSUME NEW b, NEW d, NEW s, NEW r, NEW u, NEW left, NEW x, Grown(b, d, s, r, left), Own(b, s, r, x),
         Ok(u, d, left \ {x}), Edits(r, u, x), Len(u.st) = Len(r.st)
  PROVE  Steps(b, d, s, r, u, left \ {x})
<1>1. /\ Len(r.st) \in Nat /\ Len(b.st) \in Nat /\ x \in Nat /\ Edits(b, r, s)
      /\ x = s \/ x > Len(b.st)
  BY OwnFacts DEF Grown
<1>2. Edits(b, u, s)
  BY <1>1, EditsTwice
<1> QED BY <1>2 DEF Grown, Steps

LEMMA GrownLit ==
  ASSUME NEW b, NEW d, NEW s, NEW r, NEW left, NEW x, Grown(b, d, s, r, left), Own(b, s, r, x),
         NEW c \in Byte, NEW to \in 1 .. Len(r.st)
  PROVE  Steps(b, d, s, r, AddLit(r, x, c, to), left \ {x})
<1>1. x \in 1 .. Len(r.st) /\ x # d /\ Ok(r, d, left)
  BY OwnFacts
<1>2. Ok(AddLit(r, x, c, to), d, left \ {x}) /\ Sets(r, AddLit(r, x, c, to), x, WithLit(r.st[x], c, to))
  BY <1>1, AddLitOk, ZenonT(60)
<1> QED BY <1>2, GrownEdit DEF Sets

LEMMA GrownDigit ==
  ASSUME NEW b, NEW d, NEW s, NEW r, NEW left, NEW x, Grown(b, d, s, r, left), Own(b, s, r, x),
         NEW to \in 0 .. Len(r.st), NEW exitOn \in Byte \cup {None}, NEW exit \in 0 .. Len(r.st),
         exit = None \/ exitOn \in Byte
  PROVE  Steps(b, d, s, r, SetClass(r, x, Digit, to, exitOn, exit), left \ {x})
<1>1. x \in 1 .. Len(r.st) /\ x # d /\ Ok(r, d, left)
  BY OwnFacts
<1>2. IsClass(r, d, left, x, [bytes |-> Digit, to |-> to, exitOn |-> exitOn, exit |-> exit])
  BY <1>1 DEF IsClass
<1>3. Classed(r, d, left, x, SetClass(r, x, Digit, to, exitOn, exit), Digit = Digit)
  BY <1>2, SetClassOk
<1> QED BY <1>3, GrownEdit DEF Classed

LEMMA FreshGrown ==
  ASSUME NEW b, NEW d, NEW open, NEW s, Fresh(b, d, open, s)
  PROVE  Grown(b, d, s, b, open)
BY FreshFacts DEF Grown, Edits

LEMMA GrownFilled ==
  ASSUME NEW b, NEW d, NEW s, NEW r, NEW left, NEW open, Grown(b, d, s, r, left), left \subseteq open \ {s}
  PROVE  Filled(b, d, open, s, r)
BY OkMore DEF Grown, Filled

\* int and num.
LEMMA NumberOk ==
  ASSUME NEW b, NEW d, NEW open, NEW s, Fresh(b, d, open, s), NEW frac \in BOOLEAN,
         NEW exitOn \in Byte, NEW to \in 1 .. Len(b.st)
  PROVE  Filled(b, d, open, s, NumberTo(b, s, exitOn, to, frac))
<1> DEFINE int == NewIn(b)
           neg == int + 1
           dot == int + 2
           dec == int + 3
           a1 == Add(b)  a2 == Add(a1)
           r1 == AddLit(a2, s, "-", neg)
           r2 == SetClass(r1, s, Digit, int, None, None)
           r3 == SetClass(r2, neg, Digit, int, None, None)
           whole == SetClass(r3, int, Digit, int, exitOn, to)
           a3 == Add(whole)  a4 == Add(a3)
           r5 == AddLit(a4, int, ".", dot)
           r6 == SetClass(r5, dot, Digit, dec, None, None)
           r7 == SetClass(r6, dec, Digit, dec, exitOn, to)
           L2 == (open \cup {int}) \cup {neg}
           L3 == ((L2 \ {s}) \ {s}) \ {neg}
           L4 == L3 \ {int}
           L6 == (L4 \cup {dot}) \cup {dec}
           L7 == ((L6 \ {int}) \ {dot}) \ {dec}
<1>1. NumberTo(b, s, exitOn, to, frac) = IF ~frac THEN whole ELSE r7
  BY DEF NumberTo
<1>2. Len(b.st) \in Nat /\ s \in 1 .. Len(b.st) /\ Grown(b, d, s, b, open)
  BY FreshFacts, FreshGrown
<1>3. Grown(b, d, s, a1, open \cup {int}) /\ Len(a1.st) = Len(b.st) + 1 /\ int = Len(b.st) + 1
  BY <1>2, GrownAdd
<1> HIDE DEF int, a1
<1>4. Grown(b, d, s, a2, L2) /\ Len(a2.st) = int + 1
  <2>1. /\ Grown(b, d, s, a2, (open \cup {int}) \cup {NewIn(a1)})
        /\ Len(a2.st) = Len(a1.st) + 1 /\ NewIn(a1) = Len(a1.st) + 1
    BY <1>3, GrownAdd
  <2> QED BY <2>1, <1>2, <1>3
<1> HIDE DEF a2, L2
<1>5. Own(b, s, a2, s) /\ neg \in 1 .. Len(a2.st) /\ "-" \in Byte /\ "." \in Byte
  <2>1. "-" \in Byte /\ "." \in Byte
    BY Bytes
  <2> QED BY <2>1, <1>2, <1>3, <1>4 DEF Own
<1>6. Steps(b, d, s, a2, r1, L2 \ {s})
  BY <1>4, <1>5, GrownLit
<1> HIDE DEF r1
<1>7. Steps(b, d, s, r1, r2, (L2 \ {s}) \ {s})
  <2>1. Own(b, s, r1, s) /\ int \in 0 .. Len(r1.st) /\ None \in 0 .. Len(r1.st) /\ Grown(b, d, s, r1, L2 \ {s})
    BY <1>2, <1>3, <1>4, <1>6 DEF Own, Steps, None
  <2> QED BY <2>1, None \in Byte \cup {None}, GrownDigit
<1> HIDE DEF r2
<1>8. Steps(b, d, s, r2, r3, L3)
  <2>1. /\ Own(b, s, r2, neg) /\ int \in 0 .. Len(r2.st) /\ None \in 0 .. Len(r2.st)
        /\ Grown(b, d, s, r2, (L2 \ {s}) \ {s})
    BY <1>2, <1>3, <1>4, <1>6, <1>7 DEF Own, Steps, None
  <2> QED BY <2>1, None \in Byte \cup {None}, GrownDigit
<1> HIDE DEF r3, L3
<1>9. Steps(b, d, s, r3, whole, L4)
  <2>1. /\ Own(b, s, r3, int) /\ int \in 0 .. Len(r3.st) /\ to \in 0 .. Len(r3.st)
        /\ Grown(b, d, s, r3, L3)
    BY <1>2, <1>3, <1>4, <1>6, <1>7, <1>8 DEF Own, Steps
  <2> QED BY <2>1, exitOn \in Byte \cup {None}, GrownDigit
<1> HIDE DEF whole
<1>10. CASE ~frac
  <2>1. L4 \subseteq open \ {s}
    BY DEF L2, L3
  <2>2. Filled(b, d, open, s, whole)
    <3> HIDE DEF L4
    <3> QED BY <1>9, <2>1, GrownFilled DEF Steps
  <2> QED BY <1>1, <1>10, <2>2
<1>11. CASE frac
  <2>0. Len(whole.st) = neg /\ Grown(b, d, s, whole, L4)
    BY <1>4, <1>6, <1>7, <1>8, <1>9 DEF Steps
  <2> HIDE DEF L4
  <2>1. Grown(b, d, s, a3, L4 \cup {dot}) /\ Len(a3.st) = dot
    <3>1. /\ Grown(b, d, s, a3, L4 \cup {NewIn(whole)}) /\ Len(a3.st) = Len(whole.st) + 1
          /\ NewIn(whole) = Len(whole.st) + 1
      BY <2>0, GrownAdd
    <3>2. Len(whole.st) + 1 = dot
      BY <2>0, <1>2, <1>3
    <3> QED BY <3>1, <3>2
  <2> HIDE DEF a3
  <2>2. Grown(b, d, s, a4, L6) /\ Len(a4.st) = dec
    <3>1. /\ Grown(b, d, s, a4, (L4 \cup {dot}) \cup {NewIn(a3)}) /\ Len(a4.st) = Len(a3.st) + 1
          /\ NewIn(a3) = Len(a3.st) + 1
      BY <2>1, GrownAdd
    <3>2. Len(a3.st) + 1 = dec
      BY <2>1, <1>2, <1>3
    <3> QED BY <3>1, <3>2
  <2> HIDE DEF a4, L6
  <2>3. Steps(b, d, s, a4, r5, L6 \ {int})
    <3>1. Own(b, s, a4, int) /\ dot \in 1 .. Len(a4.st)
      BY <1>2, <1>3, <2>2 DEF Own
    <3> QED BY <2>2, <3>1, <1>5, GrownLit
  <2> HIDE DEF r5
  <2>4. Steps(b, d, s, r5, r6, (L6 \ {int}) \ {dot})
    <3>1. /\ Own(b, s, r5, dot) /\ dec \in 0 .. Len(r5.st) /\ None \in 0 .. Len(r5.st)
          /\ Grown(b, d, s, r5, L6 \ {int})
      BY <1>2, <1>3, <2>2, <2>3 DEF Own, Steps, None
    <3> QED BY <3>1, None \in Byte \cup {None}, GrownDigit
  <2> HIDE DEF r6
  <2>5. Steps(b, d, s, r6, r7, L7)
    <3>1. /\ Own(b, s, r6, dec) /\ dec \in 0 .. Len(r6.st) /\ to \in 0 .. Len(r6.st)
          /\ Grown(b, d, s, r6, (L6 \ {int}) \ {dot})
      BY <1>2, <1>3, <2>2, <2>3, <2>4 DEF Own, Steps
    <3> QED BY <3>1, exitOn \in Byte \cup {None}, GrownDigit
  <2> HIDE DEF r7
  <2>6. L7 \subseteq open \ {s}
    BY DEF L2, L3, L4, L6
  <2>7. Filled(b, d, open, s, r7)
    <3> HIDE DEF L7
    <3> QED BY <2>5, <2>6, GrownFilled DEF Steps
  <2> QED BY <1>1, <1>11, <2>7
<1> QED BY <1>10, <1>11

LEMMA Word ==
  ASSUME NEW word \in Seq(Byte), NEW c \in Byte
  PROVE  /\ Append(word, c) \in Seq(Byte) \ {<<>>}
         /\ word # <<>> => Append(word, c)[1] = word[1]
<1>1. Append(word, c) \in Seq(Byte) /\ Append(word, c) # <<>>
  BY AppendProperties
<1>2. word # <<>> => Append(word, c)[1] = word[1]
  BY EmptySeq, LenProperties, AppendProperties
<1> QED BY <1>1, <1>2

LEMMA WithLitFacts ==
  ASSUME NEW q \in Row, NEW c, NEW x
  PROVE  /\ WithLit(q, c, x).lits = Append(q.lits, <<c, x>>)
         /\ WithLit(q, c, x).toks = q.toks
BY Fields DEF WithLit

\* bool: two words that part at their first byte.
LEMMA BoolOk ==
  ASSUME NEW w, NEW d, NEW open, Fresh(w.b, d, open, w.at), w = At(w.b, w.at),
         NEW exitOn \in Byte, NEW to \in 1 .. Len(w.b.st), NEW ty, ty.kind = "bool"
  PROVE  Filled(w.b, d, open, w.at, ValueTo(w, ty, exitOn, to))
<1> DEFINE b == w.b  s == w.at
           yes == Append(TrueWord, exitOn)  no == Append(FalseWord, exitOn)
           r == LitTo(w, yes, to)  u == LitTo(At(r, s), no, to)
<1>1. ValueTo(w, ty, exitOn, to) = u
  BY DEF ValueTo
<1>2. Len(b.st) \in Nat /\ s \in 1 .. Len(b.st) /\ s # d /\ b.st[s] = Blank /\ w = At(b, s)
  BY FreshFacts
<1>3. /\ yes \in Seq(Byte) \ {<<>>} /\ no \in Seq(Byte) \ {<<>>}
      /\ yes[1] = TrueWord[1] /\ no[1] = FalseWord[1] /\ yes[1] # no[1]
  BY Bytes, Word
<1> HIDE DEF yes, no
<1>4. Ok(r, d, open \ {s}) /\ Closed(b, r, s, yes[1])
  <2>1. IsNew(b, d, open, s, yes)
    BY <1>3, FreshFacts
  <2>2. LET v == LitTo(At(b, s), yes, to) IN Ok(v, d, open \ {s}) /\ Closed(b, v, s, yes[1])
    BY <2>1, LitToOk
  <2> QED BY <1>2, <2>2
<1> HIDE DEF r
<1>5. Edits(b, r, s) /\ Len(r.st) \in Nat /\ s \in 1 .. Len(r.st) /\ to \in 1 .. Len(r.st)
  BY <1>2, <1>4, OkFacts DEF Closed, Edits
<1>6. First(r.st[s].lits, no[1]) = None
  <2>1. PICK x \in Index : r.st[s] = WithLit(Blank, yes[1], x)
    BY <1>2, <1>4 DEF Closed
  <2>2. r.st[s].lits = <<<<yes[1], x>>>>
    <3>1. WithLit(Blank, yes[1], x).lits = Append(Blank.lits, <<yes[1], x>>)
      BY BlankFacts, WithLitFacts
    <3> QED BY <2>1, <3>1, BlankFacts
  <2> QED BY <1>3, <2>2 DEF First
<1>7. IsNew(r, d, open \ {s}, s, no)
  BY <1>2, <1>3, <1>4, <1>5, <1>6 DEF IsNew
<1>8. Ok(u, d, (open \ {s}) \ {s}) /\ Closed(r, u, s, no[1])
  BY <1>5, <1>7, LitToOk
<1> HIDE DEF u
<1>9. Filled(r, d, open \ {s}, s, u) /\ Len(u.st) \in Nat
  BY <1>8, OkFacts DEF Filled, Closed
<1>10. Filled(b, d, open, s, u)
  <2>1. (open \ {s}) \ {s} \subseteq open \ {s}
    OBVIOUS
  <2> QED BY <1>2, <1>5, <1>9, <2>1, FilledTwice
<1> QED BY <1>1, <1>10

-----------------------------------------------------------------------------
(* What values mean *)

\* A row that reads the same from any state.
Carries(q) == q.class.to # None \/ q.class.bytes = {}
\* State s of b has come to mean what R says, with a row that may be copied.
Valued(b, d, R, open, s, r) == Solved(b, d, R, open, s, r) /\ Carries(r.st[s])
\* A blank state that is to mean what R says.
Ready(b, d, R, open, s) ==
  Fit(b, d, R, open) /\ s \in 1 .. Len(b.st) /\ s # d /\ s \in open /\ b.st[s] = Blank

LEMMA CarriesLit ==
  ASSUME NEW q \in Row, q.class = NoClass, NEW c \in Byte, NEW to \in Index
  PROVE  WithLit(q, c, to).class = NoClass /\ Carries(WithLit(q, c, to)) /\ WithLit(q, c, to) \in Row
<1>1. WithLit(q, c, to).class = q.class
  BY Fields DEF WithLit
<1>2. WithLit(q, c, to) = [lits |-> Append(q.lits, <<c, to>>), toks |-> q.toks, class |-> q.class, accept |-> q.accept]
  BY Fields DEF WithLit
<1>3. Append(q.lits, <<c, to>>) \in Seq(Byte \X Index)
  <2>1. <<c, to>> \in Byte \X Index /\ q.lits \in Seq(Byte \X Index)
    BY EdgeTypes
  <2> QED BY <2>1, AppendType, Zenon
<1>4. WithLit(q, c, to) \in Row
  BY <1>2, <1>3 DEF Row
<1> QED BY <1>1, <1>4 DEF Carries, NoClass

LEMMA CarriesTok ==
  ASSUME NEW q \in Row, q.class = NoClass, NEW id, NEW to
  PROVE  WithTok(q, id, to).class = NoClass /\ Carries(WithTok(q, id, to))
<1>1. WithTok(q, id, to).class = q.class
  BY Fields DEF WithTok
<1> QED BY <1>1 DEF Carries, NoClass

LEMMA ReadyFacts ==
  ASSUME NEW b, NEW d, NEW R, NEW open, NEW s, Ready(b, d, R, open, s)
  PROVE  /\ Fit(b, d, R, open) /\ s \in 1 .. Len(b.st) /\ s # d /\ s \in open /\ b.st[s] = Blank
         /\ Len(b.st) \in Nat /\ R \in Lang /\ Work(b, d, R, s, b, R, open) /\ Own(b, s, b, s)
         /\ \A x \in 1 .. Len(b.st) : R[x] \subseteq Text /\ R[x] # {}
         /\ \A word \in Seq(Byte) \ {<<>>} : NewWord(b, d, R, open, s, word)
<1>1. Fit(b, d, R, open) /\ s \in 1 .. Len(b.st) /\ s # d /\ s \in open /\ b.st[s] = Blank
  BY DEF Ready
<1>2. /\ Len(b.st) \in Nat /\ R \in Lang
      /\ \A x \in 1 .. Len(b.st) : R[x] \subseteq Text /\ R[x] # {}
  BY <1>1, FitFacts
<1>3. \A x : First(Blank.lits, x) = None
  BY GoesBlank
<1>4. \A word \in Seq(Byte) \ {<<>>} : NewWord(b, d, R, open, s, word)
  BY <1>1, <1>3 DEF NewWord
<1>5. Work(b, d, R, s, b, R, open)
  BY <1>1, WorkBegin
<1> QED BY <1>1, <1>2, <1>4, <1>5 DEF Own

\* A word before a language, by its first byte.
LEMMA WordThen ==
  ASSUME NEW word \in Seq(Byte), word # <<>>, NEW Y, Y \subseteq Text, Y # {}
  PROVE  word[1] \in Byte /\ Before({word[1]}, Then({Rest(word, 1)}, Y)) = Then({word}, Y)
<1>1. 1 \in 1 .. Len(word)
  BY EmptySeq, LenProperties
<1>2. word[1] \in Byte /\ Then({Rest(word, 1 - 1)}, Y) = Before({word[1]}, Then({Rest(word, 1)}, Y))
  BY <1>1, RestAt
<1>3. Then({Rest(word, 0)}, Y) = Then({word}, Y)
  BY RestThen
<1> QED BY <1>2, <1>3

\* One word to a state.
LEMMA OneWord ==
  ASSUME NEW b, NEW d, NEW R, NEW open, NEW s, Ready(b, d, R, open, s), NEW to \in 1 .. Len(b.st),
         NEW word \in Seq(Byte), word # <<>>, R[s] = Then({word}, R[to])
  PROVE  Valued(b, d, R, open, s, LitTo(At(b, s), word, to))
<1> DEFINE r == LitTo(At(b, s), word, to)
<1>1. /\ s \in 1 .. Len(b.st) /\ b.st[s] = Blank /\ Len(b.st) \in Nat
      /\ R[to] \subseteq Text /\ R[to] # {} /\ NewWord(b, d, R, open, s, word)
  BY ReadyFacts
<1>2. MaySet(b, d, R, open, s, word, to, r)
  BY <1>1, WordTo
<1> HIDE DEF r
<1>3. PICK T : WordSet(b, d, R, open, s, word, to, r, T)
  BY <1>2 DEF MaySet
<1>4. PICK x \in 1 .. Len(r.st) : r.st[s] = WithLit(Blank, word[1], x) /\ T[x] = Then({Rest(word, 1)}, R[to])
  BY <1>1, <1>3 DEF WordSet
<1>5. Work(b, d, R, s, r, T, open) /\ x \in Index /\ T \in Lang /\ T[s] = R[s]
  <2>1. Work(b, d, R, s, r, T, open)
    BY <1>3 DEF WordSet
  <2>2. T \in Lang /\ Len(r.st) \in Nat
    BY <2>1, WorkFacts
  <2>3. T[s] = R[s]
    BY <1>1, <2>1 DEF Work, Same
  <2> QED BY <2>1, <2>2, <2>3 DEF Index
<1>6. word[1] \in Byte /\ Before({word[1]}, T[x]) = T[s]
  BY <1>1, <1>4, <1>5, WordThen
<1>7. Reads(r.st[s], s, T, T[s])
  <2>1. Reads(WithLit(Blank, word[1], x), s, T, Before({word[1]}, T[x]))
    BY <1>5, <1>6, ReadsOne
  <2> QED BY <2>1, <1>4, <1>6
<1>8. Work(b, d, R, s, r, T, open \ {s})
  BY <1>5, <1>7, WorkClose
<1>9. Solved(b, d, R, open, s, r)
  BY <1>8, open \ {s} \subseteq open \ {s}, WorkEnd
<1>10. Carries(r.st[s])
  BY <1>4, <1>5, <1>6, BlankFacts, CarriesLit
<1> QED BY <1>9, <1>10 DEF Valued, r

LEMMA SetClassRow ==
  ASSUME NEW b \in Builder, NEW s \in 1 .. Len(b.st), NEW bytes, NEW to, NEW exitOn, NEW exit
  PROVE  SetClass(b, s, bytes, to, exitOn, exit).st[s] = WithClass(b.st[s], bytes, to, exitOn, exit)
BY Fields DEF SetClass, WithClass

LEMMA WorkClass ==
  ASSUME NEW b, NEW d, NEW R, NEW s, NEW r, NEW T, NEW left, Work(b, d, R, s, r, T, left),
         NEW x \in left, Own(b, s, r, x), NEW bytes \in {Digit, StrByte}, NEW to \in 0 .. Len(r.st),
         NEW exitOn \in Byte \cup {None}, NEW exit \in 0 .. Len(r.st),
         exit = None \/ exitOn \in Byte
  PROVE  /\ Work(b, d, R, s, SetClass(r, x, bytes, to, exitOn, exit), T, left)
         /\ Sets(r, SetClass(r, x, bytes, to, exitOn, exit), x, WithClass(r.st[x], bytes, to, exitOn, exit))
<1> DEFINE u == SetClass(r, x, bytes, to, exitOn, exit)
<1>1. Ok(r, d, Nat) /\ x \in 1 .. Len(r.st) /\ x # d /\ r \in Builder
  BY WorkFacts, FitFacts
<1>2. IsClass(r, d, Nat, x, [bytes |-> bytes, to |-> to, exitOn |-> exitOn, exit |-> exit])
  BY <1>1 DEF IsClass
<1>3. Classed(r, d, Nat, x, u, bytes = Digit)
  BY <1>2, SetClassOk
<1>4. u.st[x] = WithClass(r.st[x], bytes, to, exitOn, exit)
  BY <1>1, SetClassRow
<1> HIDE DEF u
<1>5. Ok(u, d, Nat) /\ Sets(r, u, x, WithClass(r.st[x], bytes, to, exitOn, exit))
  <2>1. Ok(u, d, Nat \cup {x}) /\ Nat \cup {x} \subseteq Nat
    BY <1>1, <1>3 DEF Classed
  <2>2. Ok(u, d, Nat)
    BY <2>1, OkMore
  <2> QED BY <2>2, <1>3, <1>4 DEF Classed, Sets
<1>6. Work(b, d, R, s, u, T, left)
  BY <1>5, WorkPut
<1> QED BY <1>5, <1>6 DEF u

\* A quoted text of the bytes in C, and then Y.
StrLang(Y) == Before({Quotes}, Then(Seq(StrByte), Before({Quotes}, Y)))

LEMMA StrMeans ==
  ASSUME NEW b, NEW d, NEW R, NEW open, NEW s, Ready(b, d, R, open, s), NEW to \in 1 .. Len(b.st),
         NEW exitOn \in Byte, NEW ty, ty.kind = "str", R[s] = StrLang(Before({exitOn}, R[to]))
  PROVE  Valued(b, d, R, open, s, ValueTo(At(b, s), ty, exitOn, to))
<1> DEFINE w == At(b, s)
           body == Tok(w, Quote)
           n1 == Len(b.st) + 1
           mid == SetClass(body.b, body.at, StrByte, None, None, None)
           closed == Tok(At(mid, body.at), Quote)
           n2 == Len(mid.st) + 1
           r == LitTo(closed, <<exitOn>>, to)
           E == Before({exitOn}, R[to])
           Q == Before({Quotes}, E)
           B == Then(Seq(StrByte), Q)
<1>1. ValueTo(w, ty, exitOn, to) = r
  BY DEF ValueTo, At
<1>2. /\ s \in 1 .. Len(b.st) /\ s # d /\ s \in open /\ b.st[s] = Blank
      /\ Len(b.st) \in Nat /\ R \in Lang /\ Work(b, d, R, s, b, R, open) /\ Own(b, s, b, s)
      /\ R[to] \subseteq Text /\ R[to] # {}
  BY ReadyFacts
<1>3. Quotes \in Marks /\ TokOf(Quotes) = Quote /\ Quote \in Delims /\ Quotes \in Symbol /\ exitOn \in Symbol
      /\ StrByte \subseteq Symbol /\ Quotes \notin StrByte
  BY MarkFacts DEF Delims
<1>4. E \subseteq Text /\ E # {} /\ Q \subseteq Text /\ Q # {}
  <2>1. E \subseteq Text /\ E # {}
    BY <1>2, <1>3, BeforeType
  <2> HIDE DEF E
  <2> QED BY <2>1, <1>3, BeforeType
<1>5. B \subseteq Text /\ B # {} /\ B = Before(StrByte, B) \cup Q
  <2> HIDE DEF Q
  <2>1. B \subseteq Text /\ Q \subseteq B
    BY <1>3, <1>4, PastStar
  <2>2. B = Before(StrByte, B) \cup Q
    BY <1>3, <1>4, StarIs
  <2> QED BY <2>1, <2>2, <1>4
<1>6. R[s] = Before({Quotes}, B)
  BY DEF StrLang
<1> HIDE DEF E, Q, B, r
\* The opening quote.
<1>7. body.at = n1 /\ MayLink(b, d, R, s, b, R, open, s, WithTok(b.st[s], Quote, n1), B, body.b)
  <2>1. b.st[s].toks = <<>>
    BY <1>2, BlankFacts
  <2> QED BY <2>1, <1>2, <1>3, <1>5, LinkTok
<1> HIDE DEF body, mid, closed, w
<1>8. PICK U : Linked(b, d, R, s, b, R, open, s, WithTok(b.st[s], Quote, n1), B, body.b, U)
  BY <1>7 DEF MayLink
<1>9. /\ Work(b, d, R, s, body.b, U, open \cup {n1}) /\ Len(body.b.st) = n1 /\ body.b.st[n1] = Blank
      /\ U[n1] = B /\ U[s] = R[s] /\ U[to] = R[to] /\ body.b.st[s] = WithTok(Blank, Quote, n1) /\ U \in Lang
  <2>1. Work(b, d, R, s, body.b, U, open \cup {n1})
    BY <1>8 DEF Linked
  <2>2. U \in Lang
    BY <2>1, WorkFacts
  <2> QED BY <2>1, <2>2, <1>2, <1>8 DEF Linked, Same
<1>10. Work(b, d, R, s, body.b, U, (open \cup {n1}) \ {s})
  <2>1. Reads(body.b.st[s], s, U, U[s])
    <3>1. n1 \in Index
      BY <1>2 DEF Index
    <3>2. Reads(WithTok(Blank, TokOf(Quotes), n1), s, U, Before({Quotes}, U[n1]))
      BY <1>3, <1>9, <3>1, ReadsOneTok
    <3> QED BY <3>2, <1>3, <1>6, <1>9
  <2> QED BY <2>1, <1>9, WorkClose
<1>11. n1 \in (open \cup {n1}) \ {s} /\ Own(b, s, body.b, n1) /\ n1 \in Index
  BY <1>2, <1>9 DEF Own, Index
<1> DEFINE left == (open \cup {n1}) \ {s}
<1> HIDE DEF left
\* Its text.
<1>12. /\ Work(b, d, R, s, mid, U, left)
       /\ Sets(body.b, mid, n1, WithClass(Blank, StrByte, None, None, None))
  <2>1. None \in 0 .. Len(body.b.st) /\ None \in Byte \cup {None} /\ StrByte \in {Digit, StrByte}
    BY <1>2, <1>9 DEF None
  <2>2. mid = SetClass(body.b, n1, StrByte, None, None, None)
    BY <1>7 DEF mid
  <2>3. Work(b, d, R, s, body.b, U, left) /\ n1 \in left
    BY <1>10, <1>11 DEF left
  <2> HIDE DEF n1
  <2> QED BY <2>1, <2>2, <2>3, <1>9, <1>11, WorkClass
<1>13. Len(mid.st) = n1 /\ mid.st[n1] = WithClass(Blank, StrByte, None, None, None) /\ Own(b, s, mid, n1)
       /\ mid.st[n1] \in Row /\ n1 \in 1 .. Len(mid.st) /\ Points(mid.st[n1], Len(mid.st))
  <2>1. Len(mid.st) = n1 /\ mid.st[n1] = WithClass(Blank, StrByte, None, None, None) /\ Own(b, s, mid, n1)
        /\ n1 \in 1 .. Len(mid.st)
    BY <1>2, <1>9, <1>12 DEF Sets, Own
  <2>2. Fit(mid, d, U, left)
    BY <1>12, WorkFacts
  <2> QED BY <2>1, <2>2, FitFacts
<1> DEFINE q == mid.st[n1]
<1>14. [bytes |-> StrByte, to |-> None, exitOn |-> None, exit |-> None] \in Class
  BY DEF Class, None
<1>15. /\ \A x, e : Goes(q, x, e) = IF e \in Marks \/ Goes(Blank, x, e) # None THEN Goes(Blank, x, e)
              ELSE IF None # None /\ e = None THEN None
              ELSE IF e \notin StrByte THEN None ELSE IF None = None THEN x ELSE None
       /\ q.toks = <<>>
  <2>1. q = WithClass(Blank, StrByte, None, None, None)
    BY <1>13
  <2> HIDE DEF q
  <2>2. WithClass(Blank, StrByte, None, None, None).toks = Blank.toks
    BY BlankFacts, Fields DEF WithClass
  <2> QED BY <2>1, <2>2, <1>14, BlankFacts, GoesClass
<1>16. Goes(q, n1, Quotes) = None
  BY <1>3, <1>15, GoesBlank
\* The closing quote.
<1>17. closed.at = n2 /\ closed = At(closed.b, closed.at)
       /\ MayLink(b, d, R, s, mid, U, left, n1, WithTok(q, Quote, n2), E, closed.b)
  <2>1. n1 \in left /\ Own(b, s, mid, n1) /\ Work(b, d, R, s, mid, U, left) /\ closed = Tok(At(mid, n1), Quote)
    BY <1>7, <1>11, <1>12, <1>13 DEF left, closed
  <2> HIDE DEF n1
  <2> QED BY <2>1, <1>3, <1>4, <1>15, LinkTok
<1>18. PICK V : Linked(b, d, R, s, mid, U, left, n1, WithTok(q, Quote, n2), E, closed.b, V)
  BY <1>17 DEF MayLink
<1>19. /\ Work(b, d, R, s, closed.b, V, left \cup {n2}) /\ Len(closed.b.st) = n2 /\ closed.b.st[n2] = Blank
       /\ V[n2] = E /\ V[n1] = B /\ V[to] = R[to] /\ closed.b.st[n1] = WithTok(q, Quote, n2) /\ V \in Lang
       /\ closed.b.st[s] = body.b.st[s]
  <2>1. Work(b, d, R, s, closed.b, V, left \cup {n2})
    BY <1>18 DEF Linked
  <2>2. V \in Lang
    BY <2>1, WorkFacts
  <2>3. V[n1] = U[n1] /\ V[to] = U[to]
    BY <1>2, <1>13, <1>18 DEF Linked, Same
  <2>4. closed.b.st[s] = body.b.st[s]
    BY <1>2, <1>9, <1>12, <1>13, <1>18 DEF Linked, Sets, Edits
  <2> QED BY <2>1, <2>2, <2>3, <2>4, <1>9, <1>18 DEF Linked
<1>20. Work(b, d, R, s, closed.b, V, (left \cup {n2}) \ {n1})
  <2>1. Reads(Blank, n1, V, {}) /\ Blank \in Row /\ Blank.class = NoClass
    BY <1>19, ReadsBlank, BlankFacts
  <2>2. \A e \in StrByte : Goes(Blank, n1, e) = None
    BY GoesBlank
  <2>3. Reads(q, n1, V, {} \cup Before(StrByte, V[IF None = None THEN n1 ELSE None]))
    <3>1. Reads(WithClass(Blank, StrByte, None, None, None), n1, V, {} \cup Before(StrByte, V[IF None = None THEN n1 ELSE None]))
      <4> HIDE DEF n1
      <4>1. None \in Nat /\ StrByte \in {Digit, StrByte}
        BY DEF None
      <4> QED BY <4>1, <2>1, <2>2, <1>11, <1>19, ReadsClass
    <3> QED BY <3>1, <1>13
  <2> HIDE DEF q
  <2>4. Reads(q, n1, V, Before(StrByte, B))
    <3>1. {} \cup Before(StrByte, V[IF None = None THEN n1 ELSE None]) = Before(StrByte, B)
      BY <1>19
    <3> QED BY <2>3, <3>1
  <2>5. Reads(WithTok(q, TokOf(Quotes), n2), n1, V, Before(StrByte, B) \cup Before({Quotes}, V[n2]))
    <3>1. n2 \in Index /\ q \in Row
      BY <1>2, <1>13 DEF Index, q
    <3> HIDE DEF n1, n2
    <3> QED BY <3>1, <2>4, <1>3, <1>16, <1>19, ReadsTok
  <2>6. Reads(closed.b.st[n1], n1, V, V[n1])
    BY <2>5, <1>3, <1>5, <1>19 DEF Q
  <2> QED BY <2>6, <1>19, WorkClose
\* What ends it.
<1>21. Valued(closed.b, d, V, (left \cup {n2}) \ {n1}, n2, r)
  <2>1. Ready(closed.b, d, V, (left \cup {n2}) \ {n1}, n2)
    <3>1. Fit(closed.b, d, V, (left \cup {n2}) \ {n1})
      BY <1>20, WorkFacts
    <3>2. n2 # d /\ n2 # n1 /\ n2 \in 1 .. Len(closed.b.st)
      BY <1>2, <1>13, <1>19 DEF Work
    <3> QED BY <3>1, <3>2, <1>19 DEF Ready
  <2>2. <<exitOn>> \in Seq(Byte) /\ <<exitOn>> # <<>> /\ <<exitOn>>[1] = exitOn
    BY Singles
  <2>3. V[n2] = Then({<<exitOn>>}, V[to])
    <3>1. <<exitOn>> = <<>> \odot <<exitOn>> /\ <<>> \in Text
      BY <1>3, TextFacts
    <3>2. Then({<<>>}, Before({exitOn}, R[to])) = Then({<<>> \odot <<exitOn>>}, R[to])
      BY <1>2, <1>3, <3>1, ThenLast
    <3>3. Then({<<>>}, Before({exitOn}, R[to])) = Before({exitOn}, R[to])
      BY <1>4, ThenNone DEF E
    <3> QED BY <3>1, <3>2, <3>3, <1>19 DEF E
  <2>4. to \in 1 .. Len(closed.b.st)
    BY <1>2, <1>13, <1>19
  <2>5. Valued(closed.b, d, V, (left \cup {n2}) \ {n1}, n2, LitTo(At(closed.b, n2), <<exitOn>>, to))
    <3> HIDE DEF n2, left
    <3> QED BY <2>1, <2>2, <2>3, <2>4, OneWord
  <2> QED BY <2>5, <1>17 DEF r
<1>22. PICK W : Work(b, d, R, s, r, W, ((left \cup {n2}) \ {n1}) \ {n2}) /\ Edits(closed.b, r, n2)
  <2>1. Own(b, s, closed.b, n2)
    BY <1>2, <1>13, <1>19 DEF Own
  <2> HIDE DEF n2, n1
  <2>2. Solved(closed.b, d, V, (left \cup {n2}) \ {n1}, n2, r)
    BY <1>21 DEF Valued
  <2> QED BY <2>1, <2>2, <1>20, WorkPart
<1>23. Solved(b, d, R, open, s, r)
  <2>1. ((left \cup {n2}) \ {n1}) \ {n2} \subseteq open \ {s}
    BY DEF left
  <2> HIDE DEF n1, n2
  <2> QED BY <1>22, <2>1, WorkEnd
<1>24. Carries(r.st[s])
  <2>1. s \in 1 .. Len(closed.b.st) /\ s # n2
    BY <1>2, <1>9, <1>13, <1>19
  <2>2. r.st[s] = closed.b.st[s]
    <3> HIDE DEF n2
    <3> QED BY <2>1, <1>22 DEF Edits
  <2>3. r.st[s] = WithTok(Blank, Quote, n1)
    BY <2>2, <1>9, <1>19
  <2> QED BY <2>3, BlankFacts, CarriesTok
<1> QED BY <1>1, <1>23, <1>24 DEF Valued, w

\* A run of digits and then Y; a number and then Y.
DigitsThen(Y) == Before(Digit, Then(Seq(Digit), Y))
Minus == "-"
Dot   == "."
Whole(frac, Y) == IF frac THEN Y \cup Before({Dot}, DigitsThen(Y)) ELSE Y
NumLang(frac, Y) == Before({Minus}, DigitsThen(Whole(frac, Y))) \cup DigitsThen(Whole(frac, Y))

LEMMA NumberBytes ==
  /\ Minus \in Byte /\ Dot \in Byte /\ Minus \notin Digit /\ Dot \notin Digit
  /\ Minus \in Symbol /\ Dot \in Symbol /\ Digit \subseteq Symbol /\ Digit # {} /\ Digit \in {Digit, StrByte}
BY VocabAssumption, MarkFacts DEF Minus, Dot

LEMMA DigitsIs ==
  ASSUME NEW Y, Y \subseteq Text, Y # {}
  PROVE  /\ DigitsThen(Y) \subseteq Text /\ DigitsThen(Y) # {}
         /\ Then(Seq(Digit), Y) \subseteq Text /\ Then(Seq(Digit), Y) # {}
         /\ Then(Seq(Digit), Y) = DigitsThen(Y) \cup Y
<1>1. Digit \subseteq Symbol /\ Digit # {}
  BY NumberBytes
<1> DEFINE X == Then(Seq(Digit), Y)
<1>2. X \subseteq Text /\ Y \subseteq X
  BY <1>1, PastStar
<1>3. X = Before(Digit, X) \cup Y
  BY <1>1, StarIs
<1> HIDE DEF X
<1>4. X # {}
  BY <1>2
<1>5. Before(Digit, X) \subseteq Text /\ Before(Digit, X) # {}
  BY <1>1, <1>2, <1>4, BeforeType
<1> QED BY <1>2, <1>3, <1>4, <1>5 DEF X, DigitsThen

LEMMA WholeIs ==
  ASSUME NEW Y, Y \subseteq Text, Y # {}, NEW frac \in BOOLEAN
  PROVE  Whole(frac, Y) \subseteq Text /\ Whole(frac, Y) # {}
<1>1. DigitsThen(Y) \subseteq Text
  BY DigitsIs
<1>2. Before({Dot}, DigitsThen(Y)) \subseteq Text
  <2>1. {Dot} \subseteq Symbol
    BY NumberBytes
  <2> QED BY <1>1, <2>1, BeforeType
<1> QED BY <1>2 DEF Whole

\* One more class, on a state that was blank or had one literal.
LEMMA ReadsDigit ==
  ASSUME NEW R \in Lang, NEW q \in Row, q.class = NoClass, NEW s \in Index, NEW X, Reads(q, s, R, X),
         NEW to \in Index, \A e \in Digit : Goes(q, s, e) = None
  PROVE  /\ Reads(WithClass(q, Digit, to, None, None), s, R, X \cup Before(Digit, R[to]))
         /\ Carries(WithClass(q, Digit, to, None, None))
<1>1. to \in Nat /\ to # None /\ Digit \in {Digit, StrByte}
  BY NumberBytes DEF Index, None
<1>2. Reads(WithClass(q, Digit, to, None, None), s, R, X \cup Before(Digit, R[IF to = None THEN s ELSE to]))
  BY <1>1, ReadsClass
<1>3. Before(Digit, R[IF to = None THEN s ELSE to]) = Before(Digit, R[to])
  BY <1>1
<1>4. [bytes |-> Digit, to |-> to, exitOn |-> None, exit |-> None] \in Class
  BY <1>1 DEF Class, None
<1>5. WithClass(q, Digit, to, None, None).class.to = to
  BY <1>4, GoesClass
<1> QED BY <1>1, <1>2, <1>3, <1>5 DEF Carries

\* A state of digits and what ends them.
LEMMA ReadsRun ==
  ASSUME NEW R \in Lang, NEW s \in Index, NEW exitOn \in Byte \ Digit, NEW to \in Index
  PROVE  Reads(WithClass(Blank, Digit, s, exitOn, to), s, R, Before(Digit, R[s]) \cup Before({exitOn}, R[to]))
BY NumberBytes, ReadsClassExit

\* A class for a state that is still open.
LEMMA DigitsTo ==
  ASSUME NEW b, NEW d, NEW R, NEW s, NEW r, NEW T, NEW left, Work(b, d, R, s, r, T, left),
         NEW x \in left, Own(b, s, r, x), NEW to \in 1 .. Len(r.st)
  PROVE  /\ Work(b, d, R, s, SetClass(r, x, Digit, to, None, None), T, left)
         /\ Sets(r, SetClass(r, x, Digit, to, None, None), x, WithClass(r.st[x], Digit, to, None, None))
<1>1. to \in 0 .. Len(r.st) /\ None \in 0 .. Len(r.st) /\ None \in Byte \cup {None} /\ Digit \in {Digit, StrByte}
  BY DEF None
<1> QED BY <1>1, WorkClass

LEMMA RunTo ==
  ASSUME NEW b, NEW d, NEW R, NEW s, NEW r, NEW T, NEW left, Work(b, d, R, s, r, T, left),
         NEW x \in left, Own(b, s, r, x), NEW exitOn \in Byte, NEW to \in 1 .. Len(r.st)
  PROVE  /\ Work(b, d, R, s, SetClass(r, x, Digit, x, exitOn, to), T, left)
         /\ Sets(r, SetClass(r, x, Digit, x, exitOn, to), x, WithClass(r.st[x], Digit, x, exitOn, to))
<1>1. x \in 1 .. Len(r.st)
  BY WorkFacts
<1>2. x \in 0 .. Len(r.st) /\ to \in 0 .. Len(r.st) /\ exitOn \in Byte \cup {None} /\ Digit \in {Digit, StrByte}
  BY <1>1
<1> QED BY <1>2, WorkClass

LEMMA AddedIs ==
  ASSUME NEW r, NEW T, NEW X, NEW u, NEW U, Added(r, T, X, u, U)
  PROVE  /\ NewIn(r) = Len(r.st) + 1 /\ Len(u.st) = Len(r.st) + 1 /\ Len(r.st) \in Nat
         /\ u.st[Len(r.st) + 1] = Blank /\ U[Len(r.st) + 1] = X
         /\ \A x \in 1 .. Len(r.st) : u.st[x] = r.st[x] /\ U[x] = T[x]
<1>1. /\ NewIn(r) = Len(r.st) + 1 /\ Len(u.st) = Len(r.st) + 1 /\ Len(r.st) \in Nat
      /\ u.st[NewIn(r)] = Blank /\ U[NewIn(r)] = X
      /\ \A x \in 1 .. Len(r.st) : u.st[x] = r.st[x]
      /\ \A x \in 0 .. Len(r.st) : U[x] = T[x]
  BY DEF Added, Same
<1>2. \A x \in 1 .. Len(r.st) : x \in 0 .. Len(r.st)
  BY <1>1
<1> QED BY <1>1, <1>2

\* r has the states of a whole number from state s of b, of which the second last is
\* still open for a fraction.
Wholes(b, d, R, open, s, F, exitOn, to, r, V) ==
  LET int == Len(b.st) + 1
  IN  /\ Work(b, d, R, s, r, V, (open \ {s}) \cup {int}) /\ Len(r.st) = int + 1
      /\ V[int] = Then(Seq(Digit), F) /\ r.st[int] = WithClass(Blank, Digit, int, exitOn, to)
      /\ Carries(r.st[s])
MayWhole(b, d, R, open, s, F, exitOn, to, r) == \E V : Wholes(b, d, R, open, s, F, exitOn, to, r, V)
WholeTo(b, s, exitOn, to) ==
  LET int == NewIn(b)
      neg == int + 1
  IN  SetClass(SetClass(SetClass(AddLit(Add(Add(b)), s, "-", neg),
        s, Digit, int, None, None), neg, Digit, int, None, None), int, Digit, int, exitOn, to)

LEMMA WholeMeans ==
  ASSUME NEW b, NEW d, NEW R, NEW open, NEW s, Ready(b, d, R, open, s), NEW to \in 1 .. Len(b.st),
         NEW exitOn \in Byte, NEW F, F \subseteq Text, F # {},
         R[s] = Before({Minus}, DigitsThen(F)) \cup DigitsThen(F)
  PROVE  MayWhole(b, d, R, open, s, F, exitOn, to, WholeTo(b, s, exitOn, to))
<1> DEFINE int == Len(b.st) + 1
           neg == int + 1
           a1 == Add(b)  a2 == Add(a1)
           r1 == AddLit(a2, s, Minus, neg)
           r2 == SetClass(r1, s, Digit, int, None, None)
           r3 == SetClass(r2, neg, Digit, int, None, None)
           r4 == SetClass(r3, int, Digit, int, exitOn, to)
           N == DigitsThen(F)
           I == Then(Seq(Digit), F)
<1>1. WholeTo(b, s, exitOn, to) = r4
  BY DEF WholeTo, NewIn, Minus
<1>2. /\ s \in 1 .. Len(b.st) /\ s # d /\ s \in open /\ b.st[s] = Blank
      /\ Len(b.st) \in Nat /\ R \in Lang /\ Work(b, d, R, s, b, R, open) /\ Own(b, s, b, s)
  BY ReadyFacts
<1>3. N \subseteq Text /\ N # {} /\ I \subseteq Text /\ I # {} /\ N = Before(Digit, I)
  BY DigitsIs DEF DigitsThen
<1>4. R[s] = Before({Minus}, N) \cup N
  OBVIOUS
<1>5. Minus \in Byte /\ Minus \notin Digit /\ int \in Index /\ neg \in Index /\ int # neg
      /\ s # int /\ s # neg /\ to # int /\ to # neg /\ s \in Index
  BY <1>2, NumberBytes DEF Index
<1> HIDE DEF N, I
<1>6. PICK U1 : Work(b, d, R, s, a1, U1, open \cup {NewIn(b)}) /\ Added(b, R, I, a1, U1)
  BY <1>2, <1>3, WorkAdd
<1> HIDE DEF a1
<1>7. /\ NewIn(b) = int /\ Len(a1.st) = int /\ a1.st[int] = Blank /\ U1[int] = I /\ U1[s] = R[s]
      /\ a1.st[s] = Blank /\ Work(b, d, R, s, a1, U1, open \cup {int})
  <2>1. /\ NewIn(b) = int /\ Len(a1.st) = int /\ a1.st[int] = Blank /\ U1[int] = I
        /\ \A x \in 1 .. Len(b.st) : a1.st[x] = b.st[x] /\ U1[x] = R[x]
    BY <1>6, AddedIs
  <2> QED BY <1>2, <1>6, <2>1
<1>8. PICK U : Work(b, d, R, s, a2, U, (open \cup {int}) \cup {NewIn(a1)}) /\ Added(a1, U1, N, a2, U)
  BY <1>3, <1>7, WorkAdd
<1> HIDE DEF a2
<1>9. /\ NewIn(a1) = neg /\ Len(a2.st) = neg /\ a2.st[neg] = Blank /\ a2.st[int] = Blank /\ a2.st[s] = Blank
      /\ U[neg] = N /\ U[int] = I /\ U[s] = R[s]
      /\ Work(b, d, R, s, a2, U, (open \cup {int}) \cup {neg}) /\ U \in Lang
  <2>1. NewIn(a1) = neg /\ Len(a2.st) = neg /\ a2.st[neg] = Blank /\ a2.st[int] = Blank /\ a2.st[s] = Blank
        /\ U[neg] = N /\ U[int] = I /\ U[s] = R[s]
    <3>1. /\ NewIn(a1) = Len(a1.st) + 1 /\ Len(a2.st) = Len(a1.st) + 1
          /\ a2.st[Len(a1.st) + 1] = Blank /\ U[Len(a1.st) + 1] = N
          /\ \A x \in 1 .. Len(a1.st) : a2.st[x] = a1.st[x] /\ U[x] = U1[x]
      BY <1>8, AddedIs
    <3>2. int \in 1 .. Len(a1.st) /\ s \in 1 .. Len(a1.st)
      BY <1>2, <1>7
    <3> QED BY <1>7, <3>1, <3>2
  <2>2. U \in Lang
    BY <1>8, WorkFacts
  <2> QED BY <1>8, <2>1, <2>2
<1> DEFINE L == (open \cup {int}) \cup {neg}
<1>10. s \in L /\ int \in L /\ neg \in L
  BY <1>2
<1> HIDE DEF L, int, neg
\* The first state: a sign or a digit.
<1>11. Work(b, d, R, s, r1, U, L) /\ Sets(a2, r1, s, WithLit(Blank, Minus, neg))
  <2>1. Own(b, s, a2, s) /\ neg \in 1 .. Len(a2.st) /\ Work(b, d, R, s, a2, U, L)
    BY <1>5, <1>9 DEF Own, L, Index
  <2> QED BY <2>1, <1>5, <1>9, <1>10, WorkLit
<1>12. /\ Len(r1.st) = neg /\ r1.st[s] = WithLit(Blank, Minus, neg) /\ r1.st[int] = Blank /\ r1.st[neg] = Blank
  <2>1. int \in 1 .. Len(a2.st) /\ neg \in 1 .. Len(a2.st)
    BY <1>2, <1>5, <1>9 DEF int, neg
  <2> QED BY <2>1, <1>5, <1>9, <1>11 DEF Sets, Edits
<1> HIDE DEF r1
<1>13. Work(b, d, R, s, r2, U, L) /\ Sets(r1, r2, s, WithClass(WithLit(Blank, Minus, neg), Digit, int, None, None))
  <2>1. Own(b, s, r1, s) /\ int \in 1 .. Len(r1.st)
    BY <1>2, <1>5, <1>12 DEF Own, int, neg
  <2> QED BY <2>1, <1>10, <1>11, <1>12, DigitsTo
<1>14. /\ Len(r2.st) = neg /\ r2.st[s] = WithClass(WithLit(Blank, Minus, neg), Digit, int, None, None)
       /\ r2.st[int] = Blank /\ r2.st[neg] = Blank
  <2>1. int \in 1 .. Len(r1.st) /\ neg \in 1 .. Len(r1.st)
    BY <1>2, <1>5, <1>12 DEF int, neg
  <2> QED BY <2>1, <1>5, <1>12, <1>13 DEF Sets, Edits
<1> HIDE DEF r2
<1> DEFINE q == WithLit(Blank, Minus, neg)
<1>15. Reads(r2.st[s], s, U, U[s]) /\ Carries(r2.st[s])
  <2>1. Reads(q, s, U, Before({Minus}, U[neg])) /\ q \in Row /\ q.class = NoClass
    BY <1>5, <1>9, ReadsOne, BlankFacts, CarriesLit
  <2>2. \A e \in Digit : Goes(q, s, e) = None
    <3>1. \A e : Goes(q, s, e) = IF e = Minus THEN neg ELSE Goes(Blank, s, e)
      BY <1>5, BlankFacts, GoesBlank, GoesLit
    <3> HIDE DEF q
    <3> QED BY <3>1, <1>5, GoesBlank
  <2> HIDE DEF q
  <2>3. /\ Reads(WithClass(q, Digit, int, None, None), s, U, Before({Minus}, U[neg]) \cup Before(Digit, U[int]))
        /\ Carries(WithClass(q, Digit, int, None, None))
    BY <2>1, <2>2, <1>5, <1>9, ReadsDigit
  <2>4. Before({Minus}, U[neg]) \cup Before(Digit, U[int]) = U[s]
    BY <1>3, <1>4, <1>9
  <2> QED BY <2>3, <2>4, <1>14 DEF q
<1>16. Work(b, d, R, s, r2, U, L \ {s})
  BY <1>13, <1>15, WorkClose
\* After the sign.
<1>17. Work(b, d, R, s, r3, U, L \ {s}) /\ Sets(r2, r3, neg, WithClass(Blank, Digit, int, None, None))
  <2>1. Own(b, s, r2, neg) /\ neg \in L \ {s} /\ int \in 1 .. Len(r2.st)
    BY <1>2, <1>5, <1>10, <1>14 DEF Own, int, neg
  <2> QED BY <2>1, <1>14, <1>16, DigitsTo
<1>18. /\ Len(r3.st) = neg /\ r3.st[s] = r2.st[s] /\ r3.st[int] = Blank
       /\ r3.st[neg] = WithClass(Blank, Digit, int, None, None)
  <2>1. int \in 1 .. Len(r2.st) /\ s \in 1 .. Len(r2.st)
    BY <1>2, <1>5, <1>14 DEF int, neg
  <2> QED BY <2>1, <1>5, <1>14, <1>17 DEF Sets, Edits
<1> HIDE DEF r3
<1>19. Work(b, d, R, s, r3, U, (L \ {s}) \ {neg})
  <2>1. Reads(Blank, neg, U, {}) /\ \A e \in Digit : Goes(Blank, neg, e) = None
    BY <1>9, ReadsBlank, GoesBlank
  <2>2. Reads(WithClass(Blank, Digit, int, None, None), neg, U, {} \cup Before(Digit, U[int]))
    BY <2>1, <1>5, <1>9, BlankFacts, ReadsDigit
  <2>3. {} \cup Before(Digit, U[int]) = U[neg]
    BY <1>3, <1>9
  <2>4. Reads(r3.st[neg], neg, U, U[neg])
    BY <2>2, <2>3, <1>18
  <2> QED BY <2>4, <1>17, WorkClose
\* The digits.
<1>20. /\ Work(b, d, R, s, r4, U, (L \ {s}) \ {neg})
       /\ Sets(r3, r4, int, WithClass(Blank, Digit, int, exitOn, to))
  <2>1. Own(b, s, r3, int) /\ int \in (L \ {s}) \ {neg} /\ to \in 1 .. Len(r3.st)
    BY <1>2, <1>5, <1>10, <1>18 DEF Own, int, neg
  <2> QED BY <2>1, <1>18, <1>19, RunTo
<1>21. Len(r4.st) = neg /\ r4.st[int] = WithClass(Blank, Digit, int, exitOn, to) /\ r4.st[s] = r2.st[s]
  <2>1. int \in 1 .. Len(r3.st) /\ s \in 1 .. Len(r3.st)
    BY <1>2, <1>5, <1>18 DEF int, neg
  <2> QED BY <2>1, <1>5, <1>18, <1>20 DEF Sets, Edits
<1> HIDE DEF r4
<1>22. Work(b, d, R, s, r4, U, (open \ {s}) \cup {int})
  <2>1. (L \ {s}) \ {neg} \subseteq (open \ {s}) \cup {int}
    BY DEF L
  <2> QED BY <2>1, <1>20, FitMore DEF Work
<1>23. Wholes(b, d, R, open, s, F, exitOn, to, r4, U)
  BY <1>9, <1>15, <1>21, <1>22 DEF Wholes, int, neg, I
<1> QED BY <1>1, <1>23 DEF MayWhole

\* The digits before the exit.
LEMMA ReadsEnd ==
  ASSUME NEW V \in Lang, NEW x \in Index, NEW exitOn \in Byte \ Digit, NEW to \in Index, V[to] # {},
         V[x] = Then(Seq(Digit), Before({exitOn}, V[to]))
  PROVE  Reads(WithClass(Blank, Digit, x, exitOn, to), x, V, V[x])
<1> DEFINE E == Before({exitOn}, V[to])
<1>1. E \subseteq Text /\ E # {}
  <2>1. {exitOn} \subseteq Symbol /\ V[to] \subseteq Text
    BY MarkFacts, LangFacts DEF Index
  <2> QED BY <2>1, BeforeType
<1>2. V[x] = Then(Seq(Digit), E)
  OBVIOUS
<1>3. Reads(WithClass(Blank, Digit, x, exitOn, to), x, V, Before(Digit, V[x]) \cup E)
  BY ReadsRun
<1> HIDE DEF E
<1>4. V[x] = Before(Digit, V[x]) \cup E
  BY <1>1, <1>2, DigitsIs DEF DigitsThen
<1> QED BY <1>3, <1>4

LEMMA IntMeans ==
  ASSUME NEW b, NEW d, NEW R, NEW open, NEW s, Ready(b, d, R, open, s), NEW to \in 1 .. Len(b.st),
         NEW exitOn \in Byte \ Digit, R[s] = NumLang(FALSE, Before({exitOn}, R[to]))
  PROVE  Valued(b, d, R, open, s, NumberTo(b, s, exitOn, to, FALSE))
<1> DEFINE r == WholeTo(b, s, exitOn, to)
           E == Before({exitOn}, R[to])
           int == Len(b.st) + 1
<1>1. NumberTo(b, s, exitOn, to, FALSE) = r
  BY DEF NumberTo, WholeTo
<1>2. E \subseteq Text /\ E # {} /\ to \in Index /\ int \in Index /\ Len(b.st) \in Nat
  <2>1. {exitOn} \subseteq Symbol /\ R[to] \subseteq Text /\ R[to] # {} /\ Len(b.st) \in Nat
    BY MarkFacts, ReadyFacts
  <2> QED BY <2>1, BeforeType, SMTT(30) DEF Index
<1>3. R[s] = Before({Minus}, DigitsThen(E)) \cup DigitsThen(E)
  BY DEF NumLang, Whole
<1> HIDE DEF r
<1>4. PICK V : Wholes(b, d, R, open, s, E, exitOn, to, r, V)
  <2> HIDE DEF E
  <2>1. MayWhole(b, d, R, open, s, E, exitOn, to, r)
    BY <1>2, <1>3, WholeMeans DEF r
  <2> QED BY <2>1 DEF MayWhole
<1>5. /\ Work(b, d, R, s, r, V, (open \ {s}) \cup {int}) /\ V[int] = Then(Seq(Digit), E)
      /\ r.st[int] = WithClass(Blank, Digit, int, exitOn, to) /\ Carries(r.st[s])
  BY <1>4 DEF Wholes
<1>6. V \in Lang /\ V[to] = R[to] /\ V[to] # {}
  <2>1. V \in Lang /\ R[to] # {}
    BY <1>5, WorkFacts, ReadyFacts
  <2> QED BY <1>2, <1>5, <2>1 DEF Work, Same
<1> HIDE DEF int
<1>7. Reads(r.st[int], int, V, V[int])
  <2>1. V[int] = Then(Seq(Digit), Before({exitOn}, V[to]))
    BY <1>5, <1>6
  <2> QED BY <1>2, <1>5, <1>6, <2>1, ReadsEnd
<1>8. Work(b, d, R, s, r, V, ((open \ {s}) \cup {int}) \ {int})
  BY <1>5, <1>7, WorkClose
<1>9. Solved(b, d, R, open, s, r)
  BY <1>8, ((open \ {s}) \cup {int}) \ {int} \subseteq open \ {s}, WorkEnd
<1> QED BY <1>1, <1>5, <1>9 DEF Valued

LEMMA FractionMeans ==
  ASSUME NEW b, NEW d, NEW R, NEW open, NEW s, Ready(b, d, R, open, s), NEW to \in 1 .. Len(b.st),
         NEW exitOn \in Byte \ Digit, exitOn # Dot, R[s] = NumLang(TRUE, Before({exitOn}, R[to]))
  PROVE  Valued(b, d, R, open, s, NumberTo(b, s, exitOn, to, TRUE))
<1> DEFINE int == Len(b.st) + 1
           dot == int + 2
           dec == int + 3
           r == WholeTo(b, s, exitOn, to)
           a1 == Add(r)  a2 == Add(a1)
           r1 == AddLit(a2, int, Dot, dot)
           r2 == SetClass(r1, dot, Digit, dec, None, None)
           r3 == SetClass(r2, dec, Digit, dec, exitOn, to)
           E == Before({exitOn}, R[to])
           N == DigitsThen(E)
           I == Then(Seq(Digit), E)
           F == E \cup Before({Dot}, N)
           J == Then(Seq(Digit), F)
<1>1. NumberTo(b, s, exitOn, to, TRUE) = r3
  BY DEF NumberTo, WholeTo, NewIn, Dot
<1>2. /\ s \in 1 .. Len(b.st) /\ s # d /\ s \in open /\ Len(b.st) \in Nat /\ to \in Index
      /\ s # int /\ s # dot /\ s # dec /\ to # int /\ to # dot /\ to # dec /\ s \in Index
      /\ int \in Index /\ dot \in Index /\ dec \in Index /\ int # dot /\ int # dec /\ dot # dec
  BY ReadyFacts DEF Index
<1>3. E \subseteq Text /\ E # {}
  <2>1. {exitOn} \subseteq Symbol /\ R[to] \subseteq Text /\ R[to] # {}
    BY MarkFacts, ReadyFacts
  <2> QED BY <2>1, BeforeType
<1>4. R[s] = Before({Minus}, DigitsThen(F)) \cup DigitsThen(F)
  BY DEF NumLang, Whole
<1>5. N \subseteq Text /\ N # {} /\ I \subseteq Text /\ I # {} /\ N = Before(Digit, I) /\ F \subseteq Text /\ F # {}
  <2> HIDE DEF E
  <2>1. N \subseteq Text /\ N # {} /\ I \subseteq Text /\ I # {} /\ N = Before(Digit, I)
    BY <1>3, DigitsIs DEF DigitsThen
  <2> HIDE DEF N
  <2>2. Before({Dot}, N) \subseteq Text
    <3>1. {Dot} \subseteq Symbol
      BY NumberBytes
    <3> QED BY <2>1, <3>1, BeforeType
  <2> QED BY <1>3, <2>1, <2>2
<1> HIDE DEF r, F
<1>6. PICK V : Wholes(b, d, R, open, s, F, exitOn, to, r, V)
  <2>1. MayWhole(b, d, R, open, s, F, exitOn, to, r)
    BY <1>4, <1>5, WholeMeans DEF r
  <2> QED BY <2>1 DEF MayWhole
<1> DEFINE L == (open \ {s}) \cup {int}
           q == WithClass(Blank, Digit, int, exitOn, to)
<1>7. /\ Work(b, d, R, s, r, V, L) /\ Len(r.st) = int + 1 /\ V[int] = J /\ r.st[int] = q /\ Carries(r.st[s])
      /\ V[to] = R[to] /\ R[to] # {}
  <2>1. /\ Work(b, d, R, s, r, V, L) /\ Len(r.st) = int + 1 /\ V[int] = J /\ r.st[int] = q /\ Carries(r.st[s])
    BY <1>6 DEF Wholes
  <2> QED BY <1>2, <2>1, ReadyFacts DEF Work, Same
<1> HIDE DEF N, I, J
<1>8. PICK U1 : Work(b, d, R, s, a1, U1, L \cup {NewIn(r)}) /\ Added(r, V, N, a1, U1)
  <2> HIDE DEF L, E
  <2> QED BY <1>5, <1>7, WorkAdd
<1> HIDE DEF a1
<1>9. /\ NewIn(r) = dot /\ Len(a1.st) = dot /\ a1.st[dot] = Blank /\ U1[dot] = N
      /\ a1.st[int] = q /\ a1.st[s] = r.st[s] /\ U1[int] = J /\ U1[to] = R[to]
  <2>1. /\ NewIn(r) = Len(r.st) + 1 /\ Len(a1.st) = Len(r.st) + 1
        /\ a1.st[Len(r.st) + 1] = Blank /\ U1[Len(r.st) + 1] = N
        /\ \A x \in 1 .. Len(r.st) : a1.st[x] = r.st[x] /\ U1[x] = V[x]
    BY <1>8, AddedIs
  <2>2. int \in 1 .. Len(r.st) /\ s \in 1 .. Len(r.st) /\ to \in 1 .. Len(r.st)
    BY <1>2, <1>7
  <2>3. Len(r.st) + 1 = dot
    BY <1>7 DEF Index
  <2>4. a1.st[int] = r.st[int] /\ a1.st[s] = r.st[s] /\ U1[int] = V[int] /\ U1[to] = V[to]
    <3> HIDE DEF int
    <3> QED BY <2>1, <2>2
  <2> HIDE DEF int, dot, dec, q, L
  <2> QED BY <1>7, <2>1, <2>3, <2>4
<1>10. PICK U : Work(b, d, R, s, a2, U, (L \cup {dot}) \cup {NewIn(a1)}) /\ Added(a1, U1, I, a2, U)
  <2> HIDE DEF L, E
  <2> QED BY <1>5, <1>8, <1>9, WorkAdd
<1> HIDE DEF a2
<1>11. /\ NewIn(a1) = dec /\ Len(a2.st) = dec /\ a2.st[dec] = Blank /\ U[dec] = I /\ a2.st[dot] = Blank /\ U[dot] = N
       /\ a2.st[int] = q /\ a2.st[s] = r.st[s] /\ U[int] = J /\ U[to] = R[to] /\ U \in Lang
  <2>1. /\ NewIn(a1) = Len(a1.st) + 1 /\ Len(a2.st) = Len(a1.st) + 1
        /\ a2.st[Len(a1.st) + 1] = Blank /\ U[Len(a1.st) + 1] = I
        /\ \A x \in 1 .. Len(a1.st) : a2.st[x] = a1.st[x] /\ U[x] = U1[x]
    BY <1>10, AddedIs
  <2>2. int \in 1 .. Len(a1.st) /\ s \in 1 .. Len(a1.st) /\ to \in 1 .. Len(a1.st) /\ dot \in 1 .. Len(a1.st)
    BY <1>2, <1>9
  <2>3. U \in Lang
    BY <1>10, WorkFacts
  <2>4. dot + 1 = dec
    BY <1>2 DEF Index
  <2> HIDE DEF int, dot, dec, q
  <2> QED BY <1>2, <1>9, <2>1, <2>2, <2>3, <2>4
<1> DEFINE M == (L \cup {dot}) \cup {dec}
<1>12. Work(b, d, R, s, a2, U, M) /\ int \in M /\ dot \in M /\ dec \in M
  BY <1>10, <1>11
<1>13. \A x \in {int, dot, dec} : x \in Len(b.st) + 1 .. dec
  BY <1>2
<1> HIDE DEF M, L, int, dot, dec
\* The dot.
<1>14. Work(b, d, R, s, r1, U, M) /\ Sets(a2, r1, int, WithLit(q, Dot, dot))
  <2>1. Own(b, s, a2, int) /\ dot \in 1 .. Len(a2.st)
    BY <1>2, <1>11, <1>13 DEF Own, Index
  <2> QED BY <2>1, <1>11, <1>12, NumberBytes, WorkLit
<1>15. /\ Len(r1.st) = dec /\ r1.st[int] = WithLit(q, Dot, dot) /\ r1.st[dot] = Blank /\ r1.st[dec] = Blank
       /\ r1.st[s] = r.st[s]
  <2>1. \A x \in {int, dot, dec, s} : x \in 1 .. Len(a2.st)
    BY <1>2, <1>11, <1>13 DEF Index
  <2> QED BY <2>1, <1>2, <1>11, <1>14 DEF Sets, Edits
<1> HIDE DEF r1
<1>16. Reads(r1.st[int], int, U, U[int])
  <2> DEFINE X == Before(Digit, U[int]) \cup Before({exitOn}, U[to])
  <2>1. Reads(q, int, U, X)
    BY <1>2, <1>11, ReadsRun
  <2>2. /\ Blank \in Row /\ Blank.class = NoClass /\ \A s1, c : Goes(Blank, s1, c) = None
        /\ [bytes |-> Digit, to |-> int, exitOn |-> exitOn, exit |-> to] \in Class
    BY <1>2, BlankFacts, GoesBlank, NumberBytes DEF Class, Index
  <2>3. /\ q \in Row /\ q.lits = Blank.lits
        /\ \A s1, e : Goes(q, s1, e) =
              IF e \in Marks \/ Goes(Blank, s1, e) # None THEN Goes(Blank, s1, e)
              ELSE IF to # None /\ e = exitOn THEN to
              ELSE IF e \notin Digit THEN None ELSE IF int = None THEN s1 ELSE int
    BY <2>2, GoesClass
  <2> HIDE DEF q
  <2>4. First(q.lits, Dot) = None /\ Goes(q, int, Dot) = None
    BY <2>2, <2>3, NumberBytes, GoesBlank
  <2> HIDE DEF X
  <2>5. Reads(WithLit(q, Dot, dot), int, U, X \cup Before({Dot}, U[dot]))
    BY <1>2, <1>11, <2>1, <2>3, <2>4, NumberBytes, ReadsLit
  <2>6. X \cup Before({Dot}, U[dot]) = U[int]
    <3>1. Then(Seq(Digit), F) = Before(Digit, Then(Seq(Digit), F)) \cup F
      BY <1>5, DigitsIs DEF DigitsThen
    <3>2. J = Before(Digit, J) \cup F
      BY <3>1 DEF J
    <3>3. F = E \cup Before({Dot}, N) /\ U[to] = R[to]
      BY <1>11 DEF F
    <3> QED BY <3>2, <3>3, <1>11 DEF X, E
  <2> QED BY <1>15, <2>5, <2>6
<1>17. Work(b, d, R, s, r1, U, M \ {int})
  BY <1>14, <1>16, WorkClose
<1>18. /\ Work(b, d, R, s, r2, U, M \ {int})
       /\ Sets(r1, r2, dot, WithClass(Blank, Digit, dec, None, None))
  <2>1. Own(b, s, r1, dot) /\ dot \in M \ {int} /\ dec \in 1 .. Len(r1.st)
    BY <1>2, <1>12, <1>13, <1>15 DEF Own, Index
  <2> QED BY <2>1, <1>15, <1>17, DigitsTo
<1>19. /\ Len(r2.st) = dec /\ r2.st[dot] = WithClass(Blank, Digit, dec, None, None) /\ r2.st[dec] = Blank
       /\ r2.st[s] = r.st[s]
  <2>1. \A x \in {dot, dec, s} : x \in 1 .. Len(r1.st)
    BY <1>2, <1>13, <1>15 DEF Index
  <2> QED BY <2>1, <1>2, <1>15, <1>18 DEF Sets, Edits
<1> HIDE DEF r2
<1>20. Work(b, d, R, s, r2, U, (M \ {int}) \ {dot})
  <2>1. Reads(Blank, dot, U, {}) /\ \A e \in Digit : Goes(Blank, dot, e) = None
    BY <1>11, ReadsBlank, GoesBlank
  <2>2. Reads(WithClass(Blank, Digit, dec, None, None), dot, U, {} \cup Before(Digit, U[dec]))
    BY <2>1, <1>2, <1>11, BlankFacts, ReadsDigit
  <2>3. {} \cup Before(Digit, U[dec]) = U[dot]
    BY <1>5, <1>11
  <2>4. Reads(r2.st[dot], dot, U, U[dot])
    BY <2>2, <2>3, <1>19
  <2> QED BY <2>4, <1>18, WorkClose
\* After the dot.
<1>21. /\ Work(b, d, R, s, r3, U, (M \ {int}) \ {dot})
       /\ Sets(r2, r3, dec, WithClass(Blank, Digit, dec, exitOn, to))
  <2>1. Own(b, s, r2, dec) /\ dec \in (M \ {int}) \ {dot} /\ to \in 1 .. Len(r2.st)
    <3>1. to \in 1 .. Len(b.st) /\ dec \in Len(b.st) + 1 .. dec
      BY <1>13
    <3> QED BY <3>1, <1>2, <1>12, <1>19 DEF Own, Index
  <2> QED BY <2>1, <1>19, <1>20, RunTo
<1>22. r3.st[dec] = WithClass(Blank, Digit, dec, exitOn, to) /\ r3.st[s] = r.st[s]
  <2>1. s \in 1 .. Len(r2.st)
    BY <1>2, <1>13, <1>19 DEF Index
  <2> QED BY <2>1, <1>2, <1>19, <1>21 DEF Sets, Edits
<1> HIDE DEF r3
<1>23. Reads(r3.st[dec], dec, U, U[dec])
  <2>1. U[dec] = Then(Seq(Digit), Before({exitOn}, U[to])) /\ U[to] # {}
    BY <1>7, <1>11 DEF I, E
  <2> QED BY <1>2, <1>11, <1>22, <2>1, ReadsEnd
<1>24. Work(b, d, R, s, r3, U, ((M \ {int}) \ {dot}) \ {dec})
  BY <1>21, <1>23, WorkClose
<1>25. Solved(b, d, R, open, s, r3)
  <2>1. ((M \ {int}) \ {dot}) \ {dec} \subseteq open \ {s}
    BY DEF M, L
  <2> QED BY <1>24, <2>1, WorkEnd
<1> QED BY <1>1, <1>7, <1>22, <1>25 DEF Valued

\* Work on a state that the work so far owns is work on the first state.
LEMMA WorkTwice ==
  ASSUME NEW b, NEW d, NEW R, NEW s, NEW r, NEW T, NEW left, Work(b, d, R, s, r, T, left),
         NEW x, Own(b, s, r, x), NEW u, NEW U, NEW rest, Work(r, d, T, x, u, U, rest)
  PROVE  Work(b, d, R, s, u, U, rest)
<1>1. /\ Len(r.st) \in Nat /\ Len(b.st) \in Nat /\ Len(b.st) <= Len(r.st) /\ x \in Nat /\ (x = s \/ x > Len(b.st))
      /\ Len(u.st) \in Nat /\ Fit(u, d, U, rest)
  <2>1. Len(r.st) \in Nat /\ Len(b.st) \in Nat /\ Len(b.st) <= Len(r.st) /\ x \in Nat /\ (x = s \/ x > Len(b.st))
    BY WorkFacts
  <2>2. Len(u.st) \in Nat /\ Fit(u, d, U, rest)
    BY WorkFacts
  <2> QED BY <2>1, <2>2
<1>2. Edits(b, r, s) /\ Edits(r, u, x) /\ Same(b, R, T) /\ Same(r, T, U)
  BY DEF Work
<1>3. Edits(b, u, s)
  BY <1>1, <1>2, EditsTwice
<1>4. Same(b, R, U)
  BY <1>1, <1>2 DEF Same
<1> QED BY <1>1, <1>3, <1>4 DEF Work

LEMMA SameIs ==
  ASSUME NEW b, NEW d, NEW R, NEW s, NEW r, NEW T, NEW left, Work(b, d, R, s, r, T, left)
  PROVE  \A x \in 1 .. Len(b.st) : T[x] = R[x] /\ x \in 1 .. Len(r.st)
<1>1. Len(b.st) \in Nat /\ Len(r.st) \in Nat /\ Len(b.st) <= Len(r.st)
  BY WorkFacts
<1> QED BY <1>1 DEF Work, Same

LEMMA AppendByte ==
  ASSUME NEW word \in Seq(Byte), word # <<>>, NEW c \in Byte
  PROVE  /\ Append(word, c) \in Seq(Byte) /\ Append(word, c) # <<>> /\ Append(word, c)[1] = word[1]
         /\ \A Y : Y \subseteq Text => Then({Append(word, c)}, Y) = Then({word}, Before({c}, Y))
<1>1. Append(word, c) = word \odot <<c>> /\ word \in Text /\ c \in Symbol
  <2>1. word \in Text
    BY MarkFacts, SeqMonotonic DEF Text
  <2> QED BY <2>1, MarkFacts DEF \odot
<1>2. Append(word, c) \in Seq(Byte) /\ Append(word, c) # <<>>
  OBVIOUS
<1>3. Append(word, c)[1] = word[1]
  <2>1. Len(word) \in Nat /\ Len(word) # 0
    BY EmptySeq, LenProperties
  <2> QED BY <2>1, AppendIs
<1> QED BY <1>1, <1>2, <1>3, ThenLast

LEMMA BoolMeans ==
  ASSUME NEW b, NEW d, NEW R, NEW open, NEW s, Ready(b, d, R, open, s), NEW to \in 1 .. Len(b.st),
         NEW exitOn \in Byte,
         R[s] = Then({TrueWord}, Before({exitOn}, R[to])) \cup Then({FalseWord}, Before({exitOn}, R[to]))
  PROVE  Valued(b, d, R, open, s,
           LitTo(At(LitTo(At(b, s), Append(TrueWord, exitOn), to), s), Append(FalseWord, exitOn), to))
<1> DEFINE yes == Append(TrueWord, exitOn)
           no == Append(FalseWord, exitOn)
           y == yes[1]
           n == no[1]
           r == LitTo(At(b, s), yes, to)
           u == LitTo(At(r, s), no, to)
<1>1. /\ s \in 1 .. Len(b.st) /\ s # d /\ s \in open /\ b.st[s] = Blank
      /\ Len(b.st) \in Nat /\ R \in Lang /\ s \in Index
      /\ R[to] \subseteq Text /\ R[to] # {} /\ to \in Index
  BY ReadyFacts DEF Index
<1>2. /\ yes \in Seq(Byte) /\ yes # <<>> /\ no \in Seq(Byte) /\ no # <<>> /\ y \in Byte /\ n \in Byte /\ y # n
      /\ \A Y : Y \subseteq Text => Then({yes}, Y) = Then({TrueWord}, Before({exitOn}, Y))
      /\ \A Y : Y \subseteq Text => Then({no}, Y) = Then({FalseWord}, Before({exitOn}, Y))
  <2>1. /\ TrueWord \in Seq(Byte) /\ TrueWord # <<>> /\ FalseWord \in Seq(Byte) /\ FalseWord # <<>>
        /\ TrueWord[1] # FalseWord[1]
    BY VocabAssumption
  <2>2. /\ yes \in Seq(Byte) /\ yes # <<>> /\ yes[1] = TrueWord[1]
        /\ \A Y : Y \subseteq Text => Then({yes}, Y) = Then({TrueWord}, Before({exitOn}, Y))
    BY <2>1, AppendByte
  <2>3. /\ no \in Seq(Byte) /\ no # <<>> /\ no[1] = FalseWord[1]
        /\ \A Y : Y \subseteq Text => Then({no}, Y) = Then({FalseWord}, Before({exitOn}, Y))
    BY <2>1, AppendByte
  <2>4. y \in Byte /\ n \in Byte
    <3>1. Len(TrueWord) >= 1 /\ Len(FalseWord) >= 1
      BY <2>1, EmptySeq, LenProperties
    <3>2. TrueWord[1] \in Byte /\ FalseWord[1] \in Byte
      BY <2>1, <3>1
    <3> QED BY <2>2, <2>3, <3>2
  <2> QED BY <2>1, <2>2, <2>3, <2>4
<1> HIDE DEF yes, no
<1>3. PICK T : WordSet(b, d, R, open, s, yes, to, r, T)
  <2>1. NewWord(b, d, R, open, s, yes)
    BY <1>2, ReadyFacts
  <2>2. MaySet(b, d, R, open, s, yes, to, r)
    BY <2>1, WordTo
  <2> QED BY <2>2 DEF MaySet
<1> HIDE DEF r
<1>4. PICK x \in 1 .. Len(r.st) : r.st[s] = WithLit(Blank, y, x) /\ T[x] = Then({Rest(yes, 1)}, R[to])
  BY <1>1, <1>3 DEF WordSet
<1>5. /\ Work(b, d, R, s, r, T, open) /\ x \in Index /\ T[s] = R[s] /\ T[to] = R[to]
      /\ Len(r.st) \in Nat /\ s \in 1 .. Len(r.st) /\ to \in 1 .. Len(r.st) /\ Fit(r, d, T, open) /\ Own(b, s, r, s)
  <2>1. Work(b, d, R, s, r, T, open)
    BY <1>3 DEF WordSet
  <2>2. Len(r.st) \in Nat /\ Len(b.st) <= Len(r.st) /\ Fit(r, d, T, open)
    BY <2>1, WorkFacts
  <2>3. T[s] = R[s] /\ T[to] = R[to]
    <3>1. \A p \in 1 .. Len(b.st) : T[p] = R[p] /\ p \in 1 .. Len(r.st)
      BY <2>1, SameIs
    <3> QED BY <1>1, <3>1
  <2> QED BY <1>1, <2>1, <2>2, <2>3 DEF Index, Own
<1> HIDE DEF y, n
<1> DEFINE q == WithLit(Blank, y, x)
<1>6. /\ q \in Row /\ q.class = NoClass /\ First(q.lits, n) = None /\ Goes(q, s, n) = None
  <2>1. /\ \A p, e : Goes(q, p, e) = IF e = y THEN x ELSE Goes(Blank, p, e)
        /\ \A e : First(q.lits, e) = IF e = y THEN x ELSE First(Blank.lits, e)
        /\ q \in Row /\ q.class = Blank.class
    <3> DEFINE B == Blank
    <3>1. First(B.lits, y) = None /\ B \in Row /\ q = WithLit(B, y, x)
      BY GoesBlank, BlankFacts
    <3> HIDE DEF B, q
    <3>2. y \in Byte /\ x \in Index
      BY <1>2, <1>5
    <3>3. /\ \A p, e : Goes(WithLit(B, y, x), p, e) = IF e = y THEN x ELSE Goes(B, p, e)
          /\ \A e : First(WithLit(B, y, x).lits, e) = IF e = y THEN x ELSE First(B.lits, e)
          /\ WithLit(B, y, x) \in Row /\ WithLit(B, y, x).class = B.class
      BY <3>1, <3>2, GoesLit
    <3> QED BY <3>1, <3>3 DEF B
  <2> HIDE DEF q
  <2> QED BY <1>2, <2>1, GoesBlank, BlankFacts
<1> HIDE DEF q
<1>7. PICK U : WordSet(r, d, T, open, s, no, to, u, U)
  <2>1. NewWord(r, d, T, open, s, no)
    BY <1>1, <1>2, <1>4, <1>5, <1>6 DEF NewWord, q, n
  <2>2. MaySet(r, d, T, open, s, no, to, u)
    BY <1>5, <2>1, WordTo
  <2> QED BY <2>2 DEF MaySet
<1> HIDE DEF u
<1>8. PICK z \in 1 .. Len(u.st) : u.st[s] = WithLit(q, n, z) /\ U[z] = Then({Rest(no, 1)}, R[to])
  BY <1>4, <1>5, <1>7 DEF WordSet, q, n
<1>9. Work(r, d, T, s, u, U, open)
  BY <1>7 DEF WordSet
<1>10. U \in Lang /\ z \in Index /\ U[x] = T[x] /\ U[s] = R[s] /\ Work(b, d, R, s, u, U, open)
  <2>1. U \in Lang /\ Len(u.st) \in Nat
    BY <1>9, WorkFacts
  <2>2. U[x] = T[x] /\ U[s] = T[s]
    <3>1. \A p \in 1 .. Len(r.st) : U[p] = T[p] /\ p \in 1 .. Len(u.st)
      BY <1>9, SameIs
    <3> QED BY <1>5, <3>1
  <2>3. Work(b, d, R, s, u, U, open)
    BY <1>5, <1>9, WorkTwice
  <2>4. z \in Index
    BY <2>1 DEF Index
  <2> QED BY <1>5, <2>1, <2>2, <2>3, <2>4
<1>11. Reads(u.st[s], s, U, U[s])
  <2>1. Reads(q, s, U, Before({y}, U[x]))
    BY <1>2, <1>5, <1>10, ReadsOne DEF q
  <2>2. Reads(WithLit(q, n, z), s, U, Before({y}, U[x]) \cup Before({n}, U[z]))
    BY <1>2, <1>6, <1>10, <2>1, ReadsLit
  <2>3. Before({y}, U[x]) = Then({yes}, R[to])
    <3>1. Before({yes[1]}, Then({Rest(yes, 1)}, R[to])) = Then({yes}, R[to])
      BY <1>1, <1>2, WordThen
    <3> QED BY <3>1, <1>4, <1>10 DEF y
  <2>4. Before({n}, U[z]) = Then({no}, R[to])
    <3>1. Before({no[1]}, Then({Rest(no, 1)}, R[to])) = Then({no}, R[to])
      BY <1>1, <1>2, WordThen
    <3> QED BY <3>1, <1>8 DEF n
  <2>5. Before({y}, U[x]) \cup Before({n}, U[z]) = U[s]
    BY <1>1, <1>2, <1>10, <2>3, <2>4
  <2> QED BY <1>8, <2>2, <2>5
<1>12. Solved(b, d, R, open, s, u)
  <2>1. Work(b, d, R, s, u, U, open \ {s})
    BY <1>10, <1>11, WorkClose
  <2> QED BY <2>1, open \ {s} \subseteq open \ {s}, WorkEnd
<1>13. Carries(u.st[s])
  BY <1>2, <1>6, <1>8, <1>10, CarriesLit
<1> QED BY <1>12, <1>13 DEF Valued, u, r, yes, no
-----------------------------------------------------------------------------
(* Words that share their first symbols *)

\* What X has after the text w.
After(X, w) == {u \in Text : w \odot u \in X}

LEMMA AfterIs ==
  ASSUME NEW X, X \subseteq Text
  PROVE  /\ After(X, <<>>) = X
         /\ \A w \in Text : After(X, w) \subseteq Text
         /\ \A w \in Text : \A c \in Symbol : Past(After(X, w), c) = After(X, w \odot <<c>>)
         /\ \A w, v \in Text : After(X, w \odot v) # {} => After(X, w) # {}
<1>1. After(X, <<>>) = X
  <2>1. \A u \in Text : <<>> \odot u = u
    BY TextFacts
  <2> QED BY <2>1 DEF After
<1>2. \A w, v, u \in Text : (w \odot v) \odot u = w \odot (v \odot u) /\ v \odot u \in Text
  BY Assoc, TextFacts
<1>3. ASSUME NEW w \in Text, NEW c \in Symbol PROVE Past(After(X, w), c) = After(X, w \odot <<c>>)
  <2>1. <<c>> \in Text
    BY TextFacts
  <2>2. \A u \in Text : (w \odot <<c>>) \odot u = w \odot (<<c>> \odot u) /\ <<c>> \odot u \in Text
    BY <1>2, <2>1
  <2> QED BY <2>2 DEF Past, After
<1>4. ASSUME NEW w \in Text, NEW v \in Text, After(X, w \odot v) # {} PROVE After(X, w) # {}
  BY <1>2, <1>4 DEF After
<1> QED BY <1>1, <1>3, <1>4 DEF After

LEMMA CancelEnd == \A u, v, w \in Text : u \odot w = v \odot w => u = v
BY ConcatSimplifications DEF Text, \odot

\* A text that is not empty ends with a symbol.
LEMMA Ends == \A w \in Text : w # <<>> => \E u \in Text, c \in Symbol : w = u \odot <<c>>
<1>1. SUFFICES ASSUME NEW w \in Seq(Symbol), w # <<>>
               PROVE  \E u \in Seq(Symbol), c \in Symbol : w = u \odot <<c>>
  BY DEF Text
<1>2. PICK u \in Seq(Symbol), c \in Symbol : w = Append(u, c)
  BY <1>1, SequenceEmptyOrAppend
<1>3. w = u \odot <<c>>
  BY <1>2, AppendIsConcat DEF \odot
<1> QED BY <1>3

\* Two words before two texts that are the same: one of the words begins the other.
LEMMA SplitAt ==
  ASSUME NEW S, S \subseteq Symbol, NEW v \in Seq(S), NEW p \in Seq(S), Len(p) < Len(v),
         NEW a \in Text, NEW c \in Symbol, NEW u \in Text, v \odot a = p \odot (<<c>> \odot u)
  PROVE  \E t \in Seq(S) : v = p \odot (<<c>> \odot t) /\ u = t \odot a /\ c \in S
<1> DEFINE m == Len(p)  n == Len(v)  k == m + 1
           f == SubSeq(v, 1, m)  h == SubSeq(v, k, n)  t == SubSeq(v, k + 1, n)
<1>1. m \in Nat /\ n \in Nat /\ m < n /\ k \in 1 .. n /\ (\A i \in 1 .. n : v[i] \in S) /\ v[k] \in S
      /\ n \in k .. n /\ 1 \in 1 .. n + 1 /\ m \in 0 .. n /\ n \in m .. n
  OBVIOUS
<1>2. v = f \o h
  <2>1. f \o SubSeq(v, m + 1, n) = SubSeq(v, 1, n)
    <3>1. m \in 1 - 1 .. n
      BY <1>1
    <3> HIDE DEF n, m
    <3> QED BY <1>1, <3>1, ConcatAdjacentSubSeq DEF n
  <2>2. SubSeq(v, 1, n) = v
    BY SubSeqFull
  <2> QED BY <2>1, <2>2
<1>3. h = <<v[k]>> \odot t
  BY <1>1, SubSeqRecursiveFirst DEF \odot
<1>4. t \in Seq(S) /\ f \in Seq(S) /\ Len(f) = m /\ \A i \in 1 .. m : f[i] = v[i]
  BY <1>1
<1>5. v \in Text /\ p \in Text /\ f \in Text /\ t \in Text /\ <<v[k]>> \in Text /\ <<c>> \in Text /\ h \in Text
  <2>1. v \in Text /\ p \in Text /\ f \in Text /\ t \in Text
    BY <1>4, SeqMonotonic DEF Text
  <2>2. <<v[k]>> \in Text /\ <<c>> \in Text
    BY <1>1, TextFacts
  <2>3. h \in Text
    <3> HIDE DEF h, t
    <3> QED BY <1>3, <2>1, <2>2, TextFacts
  <2> QED BY <2>1, <2>2, <2>3
<1> DEFINE w == v \o a  z == <<c>> \odot u  y == p \o z
<1>6. z \in Text /\ w = y
  BY <1>5, TextFacts DEF \odot
<1>7. /\ \A i \in 1 .. n : w[i] = v[i]
      /\ \A i \in 1 .. m : y[i] = p[i]
  <2>1. \A i \in 1 .. Len(v) + Len(a) : w[i] = IF i <= Len(v) THEN v[i] ELSE a[i - Len(v)]
    BY <1>5, ConcatProperties DEF Text
  <2> HIDE DEF z
  <2>2. \A i \in 1 .. Len(p) + Len(z) : y[i] = IF i <= Len(p) THEN p[i] ELSE z[i - Len(p)]
    BY <1>5, <1>6, ConcatProperties DEF Text
  <2>3. Len(a) \in Nat /\ Len(z) \in Nat
    BY <1>6, TextFacts
  <2> HIDE DEF w, y
  <2> QED BY <1>1, <2>1, <2>2, <2>3, SMTT(30)
<1> HIDE DEF w, y, z
<1>8. f = p
  <2>1. \A i \in 1 .. m : f[i] = p[i]
    BY <1>1, <1>4, <1>6, <1>7
  <2> QED BY <1>4, <2>1, SeqEqual
<1>9. h \odot a = z
  <2>1. (f \odot h) \odot a = f \odot (h \odot a)
    BY <1>5, Assoc
  <2>2. f \odot (h \odot a) = f \odot z
    BY <1>2, <1>6, <1>8, <2>1 DEF w, y, \odot
  <2>3. h \odot a \in Text
    BY <1>5, TextFacts
  <2> QED BY <1>5, <1>6, <2>2, <2>3, Cancel
<1>10. v[k] = c /\ t \odot a = u
  <2>1. h \odot a = <<v[k]>> \odot (t \odot a)
    <3> HIDE DEF h, t
    <3> QED BY <1>3, <1>5, Assoc
  <2>2. t \odot a \in Text
    BY <1>5, TextFacts
  <2> QED BY <1>1, <1>9, <2>1, <2>2, Begins DEF z
<1>11. v = p \odot (<<c>> \odot t)
  BY <1>2, <1>3, <1>8, <1>10 DEF \odot
<1> QED BY <1>1, <1>4, <1>10, <1>11

\* Words with no e in them, and an e after one of them.
LEMMA SplitOnce ==
  ASSUME NEW e \in Symbol, NEW v \in Seq(Symbol \ {e}), NEW p \in Seq(Symbol \ {e}), NEW z \in Text
  PROVE  /\ p # v \odot (<<e>> \odot z)
         /\ \A c \in Symbol : \A u \in Text : v \odot (<<e>> \odot z) = p \odot (<<c>> \odot u) =>
              \/ c = e /\ v = p
              \/ \E t \in Text : v = (p \odot <<c>>) \odot t
<1> DEFINE S == Symbol \ {e}  ez == <<e>> \odot z
<1>1. S \subseteq Symbol /\ v \in Text /\ p \in Text /\ <<e>> \in Text /\ ez \in Text /\ e \notin S
  <2>1. Symbol \ {e} \subseteq Symbol
    OBVIOUS
  <2> QED BY <2>1, SeqMonotonic, TextFacts DEF Text
<1>2. v \in Seq(S) /\ p \in Seq(S) /\ Len(v) \in Nat /\ Len(p) \in Nat
  BY LenProperties
<1> HIDE DEF S
<1>3. ASSUME p = v \odot ez PROVE FALSE
  <2>1. p \odot <<>> = v \odot (<<e>> \odot z) /\ <<>> \in Text
    BY <1>1, <1>3, TextFacts
  <2>2. Len(ez) = 1 + Len(z) /\ Len(z) \in Nat /\ Len(p) = Len(v) + Len(ez)
    BY <1>1, <1>3, TextFacts
  <2>3. Len(v) < Len(p)
    BY <1>2, <2>2
  <2>4. PICK t \in Seq(S) : e \in S
    BY <1>1, <1>2, <2>1, <2>3, SplitAt
  <2> QED BY <1>1, <2>4
<1>4. ASSUME NEW c \in Symbol, NEW u \in Text, v \odot ez = p \odot (<<c>> \odot u)
      PROVE  (c = e /\ v = p) \/ \E t \in Text : v = (p \odot <<c>>) \odot t
  <2> DEFINE cu == <<c>> \odot u
  <2>1. <<c>> \in Text /\ cu \in Text
    BY TextFacts
  <2>2. CASE Len(p) < Len(v)
    <3>1. PICK t \in Seq(S) : v = p \odot (<<c>> \odot t)
      BY <1>1, <1>2, <1>4, <2>2, SplitAt
    <3>2. t \in Text
      BY <1>1, SeqMonotonic DEF Text
    <3>3. (p \odot <<c>>) \odot t = p \odot (<<c>> \odot t)
      BY <1>1, <2>1, <3>2, Assoc
    <3> QED BY <3>1, <3>2, <3>3
  <2>3. CASE Len(v) < Len(p)
    <3>1. p \odot cu = v \odot (<<e>> \odot z)
      BY <1>4
    <3>2. PICK t \in Seq(S) : e \in S
      <4> HIDE DEF cu
      <4> QED BY <1>1, <1>2, <2>1, <2>3, <3>1, SplitAt
    <3> QED BY <1>1, <3>2
  <2>4. CASE Len(v) = Len(p)
    <3> DEFINE w == v \o ez  y == p \o cu
    <3>1. w = y
      BY <1>4 DEF \odot
    <3>2. \A i \in 1 .. Len(v) : w[i] = v[i]
      <4> HIDE DEF ez
      <4>1. \A i \in 1 .. Len(v) + Len(ez) : w[i] = IF i <= Len(v) THEN v[i] ELSE ez[i - Len(v)]
        BY <1>1, ConcatProperties DEF Text
      <4>2. Len(ez) \in Nat
        BY <1>1, TextFacts
      <4> HIDE DEF w
      <4> QED BY <1>2, <4>1, <4>2
    <3>3. \A i \in 1 .. Len(p) : y[i] = p[i]
      <4> HIDE DEF cu
      <4>1. \A i \in 1 .. Len(p) + Len(cu) : y[i] = IF i <= Len(p) THEN p[i] ELSE cu[i - Len(p)]
        BY <1>1, <2>1, ConcatProperties DEF Text
      <4>2. Len(cu) \in Nat
        BY <2>1, TextFacts
      <4> HIDE DEF y
      <4> QED BY <1>2, <4>1, <4>2
    <3> HIDE DEF w, y
    <3>4. v = p
      <4>1. \A i \in 1 .. Len(v) : v[i] = p[i]
        BY <2>4, <3>1, <3>2, <3>3
      <4> QED BY <1>2, <2>4, <4>1, SeqEqual
    <3>5. ez = cu
      <4> HIDE DEF ez, cu
      <4> QED BY <1>1, <1>4, <2>1, <3>4, Cancel DEF cu
    <3>6. c = e
      BY <3>5, Begins
    <3> QED BY <3>4, <3>6
  <2> QED BY <1>2, <2>2, <2>3, <2>4
<1> QED BY <1>3, <1>4
-----------------------------------------------------------------------------
(* Trees of words: the states that the texts of one language run through   *)

\* Row q of state y, in the tree of the states N with the words lab, for the words
\* of the language X that end in e; those in W are finished.
Branches(q, y, T, N, lab, e, X, W) ==
  \A c \in Symbol :
    LET g == Goes(q, y, c)
        u == lab[y] \odot <<c>>
    IN  IF c = e /\ lab[y] \in W THEN T[g] = After(X, u)
        ELSE IF g = None THEN \A z \in N : lab[z] # u
        ELSE g \in N /\ lab[g] = u
Labels(r, T, N, lab, e, X, W) ==
  /\ \A y \in N : /\ lab[y] \in Seq(Symbol \ {e}) /\ T[y] = After(X, lab[y]) /\ r.st[y].class = NoClass
                  /\ Branches(r.st[y], y, T, N, lab, e, X, W)
  /\ \A y, z \in N : lab[y] = lab[z] => y = z
  /\ \A y \in N : \A p, t \in Text : lab[y] = p \odot t => \E z \in N : lab[z] = p
  /\ \A v \in W : \E y \in N : lab[y] = v
\* r has grown from b into a tree of N, rooted in o.
Tree(b, d, R, o, base, e, W, r, T, N, lab) ==
  /\ Work(b, d, R, o, r, T, base \cup N) /\ \A y \in N : Own(b, o, r, y)
  /\ Labels(r, T, N, lab, e, R[o], W) /\ R[o] \subseteq Text /\ e \in Symbol /\ lab \in [Nat -> Text]
  /\ o \in N /\ lab[o] = <<>>
\* v has come to the state of the word u.
OnTree(b, d, R, o, base, e, W, v, u) ==
  /\ v = At(v.b, v.at)
  /\ \E T, N, lab : Tree(b, d, R, o, base, e, W, v.b, T, N, lab) /\ v.at \in N /\ lab[v.at] = u

\* What is known of a state y of the tree.
TreeState(b, d, R, o, base, e, W, r, T, N, lab, y) ==
  /\ Work(b, d, R, o, r, T, base \cup N) /\ Own(b, o, r, y) /\ y \in 1 .. Len(r.st) /\ y # d
  /\ r \in Builder /\ r.st[y] \in Row /\ r.st[y].accept = FALSE /\ r.st[y].class = NoClass
  /\ lab[y] \in Seq(Symbol \ {e}) /\ lab[y] \in Text /\ T[y] = After(R[o], lab[y]) /\ T[y] # {}
  /\ Branches(r.st[y], y, T, N, lab, e, R[o], W) /\ T \in Lang /\ Len(r.st) \in Nat
  /\ Points(r.st[y], Len(r.st)) /\ R[o] \subseteq Text /\ e \in Symbol /\ y \in Nat
LEMMA TreeFacts ==
  ASSUME NEW b, NEW d, NEW R, NEW o, NEW base, NEW e, NEW W, NEW r, NEW T, NEW N, NEW lab,
         Tree(b, d, R, o, base, e, W, r, T, N, lab), NEW y \in N
  PROVE  TreeState(b, d, R, o, base, e, W, r, T, N, lab, y)
<1>1. Work(b, d, R, o, r, T, base \cup N) /\ Own(b, o, r, y) /\ R[o] \subseteq Text /\ e \in Symbol
      /\ lab[y] \in Seq(Symbol \ {e}) /\ T[y] = After(R[o], lab[y]) /\ r.st[y].class = NoClass
      /\ Branches(r.st[y], y, T, N, lab, e, R[o], W)
  BY DEF Tree, Labels
<1>2. Fit(r, d, T, base \cup N) /\ y \in 1 .. Len(r.st) /\ y # d /\ T \in Lang /\ Len(r.st) \in Nat
  BY <1>1, WorkFacts
<1>3. /\ r \in Builder /\ r.st[y] \in Row /\ T[y] # {} /\ Points(r.st[y], Len(r.st))
      /\ r.st[y].accept = FALSE
  <2>1. /\ r \in Builder /\ r.st[y] \in Row /\ r.st[y].accept = (y = d) /\ T[y] # {}
        /\ Points(r.st[y], Len(r.st))
    BY <1>2, FitFacts
  <2>2. (y = d) = FALSE
    BY <1>2
  <2>3. r.st[y].accept = FALSE
    BY <2>1, <2>2, Zenon
  <2> QED BY <2>1, <2>3
<1>4. lab[y] \in Text
  <2>1. Symbol \ {e} \subseteq Symbol
    OBVIOUS
  <2> QED BY <1>1, <2>1, SeqMonotonic DEF Text
<1>5. y \in Nat
  BY <1>2
<1> QED BY <1>1, <1>2, <1>3, <1>4, <1>5 DEF TreeState

\* A tree of one state.
LEMMA TreeStart ==
  ASSUME NEW b, NEW d, NEW R, NEW open, NEW o, Ready(b, d, R, open, o), NEW base, open \subseteq base \cup {o},
         NEW e \in Symbol
  PROVE  \E T, N, lab : Tree(b, d, R, o, base, e, {}, b, T, N, lab)
<1> DEFINE N == {o}  lab == [x \in Nat |-> <<>>]
<1>1. /\ Fit(b, d, R, open) /\ o \in 1 .. Len(b.st) /\ o # d /\ b.st[o] = Blank /\ Len(b.st) \in Nat
      /\ R[o] \subseteq Text /\ Own(b, o, b, o)
  BY ReadyFacts
<1>2. Work(b, d, R, o, b, R, base \cup N)
  <2>1. Fit(b, d, R, base \cup N)
    BY <1>1, FitMore
  <2> HIDE DEF N
  <2> QED BY <1>1, <2>1, WorkBegin
<1>3. lab \in [Nat -> Text] /\ lab[o] = <<>> /\ (\A y : y \in N <=> y = o) /\ <<>> \in Seq(Symbol \ {e})
  BY <1>1, TextFacts, EmptySeq
<1> HIDE DEF N, lab
<1>4. Branches(b.st[o], o, R, N, lab, e, R[o], {})
  <2>1. ASSUME NEW c \in Symbol PROVE Goes(Blank, o, c) = None /\ lab[o] \odot <<c>> # <<>>
    <3>1. <<>> \odot <<c>> = <<c>> /\ <<c>> # <<>>
      BY TextFacts
    <3> QED BY <3>1, <1>3, GoesBlank
  <2> QED BY <2>1, <1>1, <1>3 DEF Branches
<1>5. ASSUME NEW p \in Text, NEW t \in Text, lab[o] = p \odot t PROVE lab[o] = p
  <2> DEFINE w == p \odot t
  <2>0. w = <<>> /\ Len(w) = Len(p) + Len(t) /\ Len(<<>>) = 0 /\ Len(p) \in Nat /\ Len(t) \in Nat
    BY <1>3, <1>5, TextFacts
  <2> HIDE DEF w
  <2>1. Len(p) + Len(t) = 0 /\ Len(p) \in Nat /\ Len(t) \in Nat
    BY <2>0
  <2>2. Len(p) = 0
    BY <2>1
  <2> QED BY <2>2, <1>3, TextFacts
<1>6. Labels(b, R, N, lab, e, R[o], {})
  <2>1. R[o] = After(R[o], lab[o]) /\ b.st[o].class = NoClass
    BY <1>1, <1>3, AfterIs, BlankFacts
  <2>2. /\ lab[o] \in Seq(Symbol \ {e})
        /\ \A p, t \in Text : lab[o] = p \odot t => lab[o] = p
    BY <1>3, <1>5
  <2>3. \A y \in N : y = o
    BY <1>3
  <2> QED BY <1>3, <1>4, <2>1, <2>2, <2>3, Zenon DEF Labels
<1>7. Tree(b, d, R, o, base, e, {}, b, R, N, lab)
  BY <1>1, <1>2, <1>3, <1>6 DEF Tree
<1> QED BY <1>3, <1>7

\* An edge of the tree that is there.
LEMMA TreeOld ==
  ASSUME NEW b, NEW d, NEW R, NEW o, NEW base, NEW e, NEW W, NEW r, NEW T, NEW N, NEW lab,
         Tree(b, d, R, o, base, e, W, r, T, N, lab), NEW y \in N, NEW c \in Byte, c # e
  PROVE  LET g == First(r.st[y].lits, c)
         IN  /\ g = Goes(r.st[y], y, c)
             /\ IF g = None THEN \A z \in N : lab[z] # lab[y] \odot <<c>>
                ELSE g \in N /\ lab[g] = lab[y] \odot <<c>>
<1> DEFINE g == First(r.st[y].lits, c)
<1>1. /\ r.st[y] \in Row /\ r.st[y].class = NoClass /\ c \in Symbol /\ c \notin Marks
      /\ Branches(r.st[y], y, T, N, lab, e, R[o], W)
  <2>1. /\ r.st[y] \in Row /\ r.st[y].class = NoClass
        /\ Branches(r.st[y], y, T, N, lab, e, R[o], W)
    <3>1. TreeState(b, d, R, o, base, e, W, r, T, N, lab, y)
      BY TreeFacts
    <3> QED BY <3>1 DEF TreeState
  <2> QED BY <2>1, MarkFacts
<1>2. NoClass.exit = None /\ NoClass.bytes = {}
  BY DEF NoClass
<1>3. g = Goes(r.st[y], y, c)
  BY <1>1, <1>2, GoesIs
<1> HIDE DEF g
<1>4. IF g = None THEN \A z \in N : lab[z] # lab[y] \odot <<c>> ELSE g \in N /\ lab[g] = lab[y] \odot <<c>>
  BY <1>1, <1>3 DEF Branches
<1> QED BY <1>3, <1>4 DEF g

LEMMA EndSame ==
  ASSUME NEW u \in Text, NEW v \in Text, NEW c \in Symbol, NEW k \in Symbol, u \odot <<c>> = v \odot <<k>>
  PROVE  u = v /\ c = k
<1>1. u \in Seq(Symbol) /\ v \in Seq(Symbol)
  BY DEF Text
<1>2. Append(u, c) = u \odot <<c>> /\ Append(v, k) = v \odot <<k>>
  BY <1>1, AppendIsConcat DEF \odot
<1>3. Append(u, c) = Append(v, k)
  BY <1>2
<1> QED BY <1>1, <1>3, AppendInjective
LEMMA EndIs ==
  \A u \in Text : \A c \in Symbol : u \odot <<c>> \in Text /\ u \odot <<c>> # u
<1>1. ASSUME NEW u \in Text, NEW c \in Symbol PROVE u \odot <<c>> \in Text /\ u \odot <<c>> # u
  <2> DEFINE cc == <<c>>  w == u \odot cc
  <2>0. cc \in Text /\ Len(cc) = 1
    BY TextFacts
  <2> HIDE DEF cc
  <2>3. \A p, q \in Text : p \odot q \in Text /\ Len(p \odot q) = Len(p) + Len(q) /\ Len(p) \in Nat
    BY TextFacts
  <2>4. u \odot cc \in Text /\ Len(u \odot cc) = Len(u) + Len(cc) /\ Len(u) \in Nat
    BY <2>0, <2>3, Zenon
  <2>1. w \in Text /\ Len(w) = Len(u) + 1 /\ Len(u) \in Nat
    BY <2>0, <2>4
  <2> HIDE DEF w
  <2>2. w # u
    BY <2>1
  <2> QED BY <2>1, <2>2 DEF w, cc
<1> QED BY <1>1

\* The rows when n comes after c from y.
BranchesTo(r, y, c, n, N, U, mine, e, X, W) ==
  /\ Branches(Blank, n, U, N \cup {n}, mine, e, X, W)
  /\ Branches(WithLit(r.st[y], c, n), y, U, N \cup {n}, mine, e, X, W)
  /\ \A z \in N : z # y => Branches(r.st[z], z, U, N \cup {n}, mine, e, X, W)

\* The rows of a tree with one more state, n, after c from y.
LEMMA BranchMore ==
  ASSUME NEW b, NEW d, NEW R, NEW o, NEW base, NEW e, NEW W, NEW r, NEW T, NEW N, NEW lab,
         Tree(b, d, R, o, base, e, W, r, T, N, lab), NEW y \in N, NEW c \in Byte, c # e,
         First(r.st[y].lits, c) = None,
         NEW n, n = Len(r.st) + 1, NEW U, U \in Lang, Same(r, T, U), NEW mine, mine \in [Nat -> Text],
         mine[n] = lab[y] \odot <<c>>, \A x \in N : mine[x] = lab[x]
  PROVE  BranchesTo(r, y, c, n, N, U, mine, e, R[o], W)
<1> DEFINE M == N \cup {n}  w == lab[y] \odot <<c>>  q == WithLit(r.st[y], c, n)
<1>1. \A z \in N : TreeState(b, d, R, o, base, e, W, r, T, N, lab, z)
  BY TreeFacts
<1>2. /\ r.st[y] \in Row /\ lab[y] \in Text /\ c \in Symbol /\ c \notin Marks /\ n \in Index /\ Len(r.st) \in Nat
      /\ w \in Text /\ R[o] \subseteq Text
  <2>1. r.st[y] \in Row /\ lab[y] \in Text /\ Len(r.st) \in Nat /\ R[o] \subseteq Text
    BY <1>1 DEF TreeState
  <2> QED BY <2>1, MarkFacts, EndIs DEF Index
<1>3. \A z \in N : z \in 1 .. Len(r.st) /\ lab[z] \in Text /\ z # n /\ Branches(r.st[z], z, T, N, lab, e, R[o], W)
  <2>1. \A z \in N : z \in 1 .. Len(r.st) /\ lab[z] \in Text /\ Branches(r.st[z], z, T, N, lab, e, R[o], W)
    BY <1>1 DEF TreeState
  <2> QED BY <1>2, <2>1
\* No state has the new word.
<1>4. \A z \in N : lab[z] # w
  BY <1>2, TreeOld
<1>5. w \notin W /\ \A z \in N : \A t \in Text : lab[z] # w \odot t
  <2>1. Labels(r, T, N, lab, e, R[o], W)
    BY DEF Tree
  <2>2. /\ \A x \in N : \A p, t \in Text : lab[x] = p \odot t => \E z \in N : lab[z] = p
        /\ \A v \in W : \E x \in N : lab[x] = v
    BY <2>1 DEF Labels
  <2> HIDE DEF w
  <2> QED BY <2>2, <1>2, <1>4
<1> HIDE DEF M, q
<1>6. \A x : x \in M <=> x \in N \/ x = n
  BY DEF M
<1>7. ASSUME NEW z \in N, NEW k \in Symbol, lab[z] \odot <<k>> = w PROVE z = y /\ k = c
  <2>1. lab[z] = lab[y] /\ k = c
    <3>1. lab[z] \in Text /\ lab[y] \in Text /\ c \in Symbol
      BY <1>2, <1>3
    <3>2. lab[z] \odot <<k>> = lab[y] \odot <<c>>
      BY <1>7
    <3> DEFINE lz == lab[z]  ly == lab[y]
    <3>3. lz \in Text /\ ly \in Text /\ c \in Symbol /\ k \in Symbol /\ lz \odot <<k>> = ly \odot <<c>>
      BY <3>1, <3>2
    <3> HIDE DEF lz, ly
    <3>4. lz = ly /\ k = c
      BY <3>3, EndSame
    <3> QED BY <3>4 DEF lz, ly
  <2> QED BY <2>1 DEF Tree, Labels
<1>8. Branches(Blank, n, U, M, mine, e, R[o], W)
  <2>1. ASSUME NEW k \in Symbol PROVE mine[n] \notin W /\ Goes(Blank, n, k) = None /\ \A z \in M : mine[z] # mine[n] \odot <<k>>
    <3>1. <<k>> \in Text /\ w \odot <<k>> # w
      BY <1>2, TextFacts, EndIs
    <3> HIDE DEF w
    <3> QED BY <3>1, <1>5, <1>6, GoesBlank DEF w
  <2> QED BY <2>1 DEF Branches
<1>9. \A s, k : Goes(q, s, k) = IF k = c THEN n ELSE Goes(r.st[y], s, k)
  BY <1>2, GoesLit DEF q
\* The old edges still lead where they did.
<1>10. ASSUME NEW z \in N, NEW k \in Symbol, NEW p, Goes(p, z, k) = Goes(r.st[z], z, k), z # y \/ k # c
       PROVE  LET g == Goes(p, z, k)
                  u == mine[z] \odot <<k>>
              IN  IF k = e /\ mine[z] \in W THEN U[g] = After(R[o], u)
                  ELSE IF g = None THEN \A x \in M : mine[x] # u
                  ELSE g \in M /\ mine[g] = u
  <2> DEFINE g == Goes(p, z, k)  u == lab[z] \odot <<k>>
  <2>1. g \in 0 .. Len(r.st) /\ mine[z] = lab[z]
    <3>1. r.st[z] \in Row /\ Points(r.st[z], Len(r.st)) /\ z \in 1 .. Len(r.st)
      BY <1>1 DEF TreeState
    <3>2. Goes(r.st[z], z, k) \in 0 .. Len(r.st)
      BY <3>1, <1>2, GoesIn
    <3> QED BY <3>2, <1>10
  <2>2. U[g] = T[g]
    BY <2>1 DEF Same
  <2>3. IF k = e /\ lab[z] \in W THEN T[g] = After(R[o], u)
        ELSE IF g = None THEN \A x \in N : lab[x] # u ELSE g \in N /\ lab[g] = u
    <3>1. Branches(r.st[z], z, T, N, lab, e, R[o], W)
      BY <1>3
    <3> HIDE DEF g
    <3> QED BY <3>1, <1>10 DEF Branches, g
  <2>4. u # w
    BY <1>7, <1>10
  <2> HIDE DEF g, u, w
  <2>5. IF k = e /\ mine[z] \in W THEN U[g] = After(R[o], u)
        ELSE IF g = None THEN \A x \in M : mine[x] # u ELSE g \in M /\ mine[g] = u
    <3>1. mine[n] # u
      BY <2>4 DEF w
    <3> QED BY <1>6, <2>1, <2>2, <2>3, <3>1
  <2> QED BY <2>1, <2>5 DEF g, u
<1>11. Branches(q, y, U, M, mine, e, R[o], W)
  <2>1. \A k \in Symbol : k # c => Goes(q, y, k) = Goes(r.st[y], y, k)
    BY <1>9
  <2>2. Goes(q, y, c) = n /\ n # None /\ mine[y] = lab[y]
    BY <1>2, <1>9 DEF Index, None
  <2>3. n \in M /\ mine[n] = mine[y] \odot <<c>>
    BY <1>6, <2>2
  <2> SUFFICES ASSUME NEW k \in Symbol
               PROVE  LET g == Goes(q, y, k)
                          u == mine[y] \odot <<k>>
                      IN  IF k = e /\ mine[y] \in W THEN U[g] = After(R[o], u)
                          ELSE IF g = None THEN \A x \in M : mine[x] # u
                          ELSE g \in M /\ mine[g] = u
    BY DEF Branches
  <2>4. CASE k = c
    BY <2>2, <2>3, <2>4
  <2>5. CASE k # c
    BY <1>10, <2>1, <2>5
  <2> QED BY <2>4, <2>5
<1>12. ASSUME NEW z \in N, z # y PROVE Branches(r.st[z], z, U, M, mine, e, R[o], W)
  BY <1>10, <1>12 DEF Branches
<1> QED BY <1>8, <1>11, <1>12 DEF M, q, BranchesTo

\* State n of the tree u stands for the word w.
TreeTo(b, d, R, o, base, e, W, u, n, w) ==
  \E U, M, mine : Tree(b, d, R, o, base, e, W, u, U, M, mine) /\ n \in M /\ mine[n] = w
LEMMA TreeGrow ==
  ASSUME NEW b, NEW d, NEW R, NEW o, NEW base, NEW e, NEW W, NEW r, NEW T, NEW N, NEW lab,
         Tree(b, d, R, o, base, e, W, r, T, N, lab), NEW y \in N, NEW c \in Byte, c # e,
         First(r.st[y].lits, c) = None, After(R[o], lab[y] \odot <<c>>) # {}
  PROVE  TreeTo(b, d, R, o, base, e, W, AddLit(Add(r), y, c, Len(r.st) + 1), Len(r.st) + 1, lab[y] \odot <<c>>)
<1> DEFINE n == Len(r.st) + 1  u == AddLit(Add(r), y, c, n)  w == lab[y] \odot <<c>>  Z == After(R[o], w)
           M == N \cup {n}  mine == [lab EXCEPT ![n] = w]  q == WithLit(r.st[y], c, n)
<1>1. \A z \in N : TreeState(b, d, R, o, base, e, W, r, T, N, lab, z)
  BY TreeFacts
<1>2. /\ Work(b, d, R, o, r, T, base \cup N) /\ r.st[y] \in Row /\ lab[y] \in Text /\ c \in Symbol
      /\ n \in Index /\ Len(r.st) \in Nat /\ n \in Nat
      /\ w \in Text /\ R[o] \subseteq Text /\ Own(b, o, r, y) /\ y \in base \cup N /\ e \in Symbol
  <2>1. Work(b, d, R, o, r, T, base \cup N) /\ r.st[y] \in Row /\ lab[y] \in Text /\ Len(r.st) \in Nat
        /\ R[o] \subseteq Text /\ Own(b, o, r, y) /\ e \in Symbol
    BY <1>1 DEF TreeState
  <2> QED BY <2>1, MarkFacts, EndIs DEF Index
<1>3. \A z \in N : z \in 1 .. Len(r.st) /\ z # n
  <2>1. \A z \in N : z \in 1 .. Len(r.st)
    BY <1>1 DEF TreeState
  <2> QED BY <1>2, <2>1
<1>4. Z \subseteq Text /\ Z # {}
  BY <1>2, AfterIs
<1> HIDE DEF Z
<1>5. PICK U : Linked(b, d, R, o, r, T, base \cup N, y, q, Z, u, U)
  <2>1. MayLink(b, d, R, o, r, T, base \cup N, y, q, Z, u)
    BY <1>2, <1>4, LinkLit
  <2> QED BY <2>1 DEF MayLink
<1> HIDE DEF u
<1>6. /\ Work(b, d, R, o, u, U, (base \cup N) \cup {n}) /\ Len(u.st) = n /\ u.st[n] = Blank /\ U[n] = Z
      /\ Same(r, T, U) /\ u.st[y] = q /\ Edits(r, u, y)
  BY <1>5 DEF Linked
<1>7. /\ mine \in [Nat -> Text] /\ mine[n] = w /\ \A x \in N : mine[x] = lab[x] /\ U[x] = T[x]
      /\ U \in Lang
  <2>1. lab \in [Nat -> Text]
    BY DEF Tree
  <2>2. U \in Lang
    BY <1>6, WorkFacts
  <2>3. \A x \in N : U[x] = T[x]
    BY <1>3, <1>6 DEF Same
  <2> QED BY <1>2, <1>3, <2>1, <2>2, <2>3
<1> HIDE DEF mine
<1>8. /\ Branches(Blank, n, U, M, mine, e, R[o], W)
      /\ Branches(q, y, U, M, mine, e, R[o], W)
      /\ \A z \in N : z # y => Branches(r.st[z], z, U, M, mine, e, R[o], W)
  <2>1. BranchesTo(r, y, c, n, N, U, mine, e, R[o], W)
    <3> HIDE DEF M, q, u
    <3> QED BY <1>6, <1>7, BranchMore
  <2> QED BY <2>1 DEF BranchesTo
<1>9. \A x : x \in M <=> x \in N \/ x = n
  OBVIOUS
<1> HIDE DEF M, n
<1>10. \A z \in N : lab[z] # w
  BY TreeOld DEF w
<1>11. ASSUME NEW z \in N PROVE u.st[z].class = NoClass /\ (z = y \/ u.st[z] = r.st[z])
  <2>1. r.st[z].class = NoClass /\ z \in 1 .. Len(r.st)
    BY <1>1 DEF TreeState
  <2>2. z = y \/ u.st[z] = r.st[z]
    BY <2>1, <1>6 DEF Edits
  <2>3. q.class = r.st[y].class
    BY <1>2, Fields DEF WithLit
  <2> QED BY <1>6, <2>1, <2>2, <2>3
<1>12. Labels(u, U, M, mine, e, R[o], W)
  <2>1. ASSUME NEW z \in M
        PROVE  /\ mine[z] \in Seq(Symbol \ {e}) /\ U[z] = After(R[o], mine[z]) /\ u.st[z].class = NoClass
               /\ Branches(u.st[z], z, U, M, mine, e, R[o], W)
    <3>1. CASE z \in N
      <4>1. lab[z] \in Seq(Symbol \ {e}) /\ T[z] = After(R[o], lab[z])
        BY <3>1, <1>1 DEF TreeState
      <4>2. Branches(u.st[z], z, U, M, mine, e, R[o], W)
        BY <3>1, <1>6, <1>8, <1>11
      <4> QED BY <3>1, <4>1, <4>2, <1>7, <1>11
    <3>2. CASE z = n
      <4>1. lab[y] \in Seq(Symbol \ {e}) /\ <<c>> \in Seq(Symbol \ {e})
        BY <1>1, <1>2 DEF TreeState
      <4>2. w \in Seq(Symbol \ {e})
        BY <4>1, ConcatProperties DEF \odot
      <4> QED BY <3>2, <4>2, <1>6, <1>7, <1>8, BlankFacts DEF Z
    <3> QED BY <3>1, <3>2, <1>9
  <2>2. ASSUME NEW x \in M, NEW z \in M, mine[x] = mine[z] PROVE x = z
    <3>1. \A x1, z1 \in N : lab[x1] = lab[z1] => x1 = z1
      BY DEF Tree, Labels
    <3> HIDE DEF w
    <3> QED BY <2>2, <3>1, <1>7, <1>9, <1>10
  <2>3. ASSUME NEW z \in M, NEW p \in Text, NEW t \in Text, mine[z] = p \odot t PROVE \E x \in M : mine[x] = p
    <3>1. \A x \in N : \A p1, t1 \in Text : lab[x] = p1 \odot t1 => \E z1 \in N : lab[z1] = p1
      BY DEF Tree, Labels
    <3>2. \A x \in N : \A t1 \in Text : lab[x] = p \odot t1 => \E z1 \in M : mine[z1] = p
      BY <3>1, <1>7, <1>9
    <3>3. CASE z \in N
      BY <2>3, <3>2, <3>3, <1>7
    <3>4. CASE z = n /\ t = <<>>
      BY <2>3, <3>4, TextFacts
    <3>5. CASE z = n /\ t # <<>>
      <4>1. PICK a \in Text, k \in Symbol : t = a \odot <<k>>
        BY <3>5, Ends
      <4>2. p \odot t = (p \odot a) \odot <<k>> /\ p \odot a \in Text
        BY <4>1, Assoc, TextFacts
      <4>3. lab[y] = p \odot a
        <5>1. lab[y] \odot <<c>> = (p \odot a) \odot <<k>>
          BY <1>7, <2>3, <3>5, <4>2
        <5>2. lab[y] \in Text /\ c \in Symbol
          BY <1>2
        <5>3. k \in Symbol
          BY <4>1
        <5> DEFINE pa == p \odot a
        <5>4. pa \in Text /\ lab[y] \odot <<c>> = pa \odot <<k>>
          BY <4>2, <5>1
        <5> HIDE DEF pa
        <5>5. lab[y] = pa
          BY <5>2, <5>3, <5>4, EndSame
        <5> QED BY <5>5 DEF pa
      <4> QED BY <3>2, <4>1, <4>3
    <3> QED BY <3>3, <3>4, <3>5, <1>9
  <2>4. ASSUME NEW v \in W PROVE \E x \in M : mine[x] = v
    <3>1. \E x \in N : lab[x] = v
      BY DEF Tree, Labels
    <3> QED BY <3>1, <1>7, <1>9
  <2> QED BY <2>1, <2>2, <2>3, <2>4 DEF Labels
<1>13. ASSUME NEW z \in M PROVE Own(b, o, u, z)
  <2>1. Len(b.st) \in Nat /\ Len(b.st) <= Len(r.st)
    BY <1>2, WorkFacts
  <2>2. CASE z \in N
    <3>1. Own(b, o, r, z)
      BY <2>2, <1>1 DEF TreeState
    <3> QED BY <3>1, <2>1, <1>2, <1>6 DEF Own, n
  <2>3. CASE z = n
    BY <2>1, <2>3, <1>2, <1>6 DEF Own, n
  <2> QED BY <2>2, <2>3, <1>9
<1>14. Work(b, d, R, o, u, U, base \cup M)
  <2>1. (base \cup N) \cup {n} = base \cup M
    BY <1>9
  <2> QED BY <2>1, <1>6
<1>15. Tree(b, d, R, o, base, e, W, u, U, M, mine)
  <2>1. o \in N /\ lab[o] = <<>>
    BY DEF Tree
  <2>2. o \in M /\ mine[o] = <<>>
    BY <2>1, <1>7, <1>9
  <2> QED BY <2>2, <1>2, <1>7, <1>12, <1>13, <1>14 DEF Tree
<1> QED BY <1>7, <1>9, <1>15 DEF u, w, n, TreeTo

\* One more byte of a word that the language has.
LEMMA TreeStep ==
  ASSUME NEW b, NEW d, NEW R, NEW o, NEW base, NEW e, NEW W, NEW v, NEW u,
         OnTree(b, d, R, o, base, e, W, v, u), NEW c \in Byte, c # e, After(R[o], u \odot <<c>>) # {}
  PROVE  OnTree(b, d, R, o, base, e, W, LitStep(v, c), u \odot <<c>>)
<1> DEFINE r == v.b  y == v.at  to == First(r.st[y].lits, c)  w == u \odot <<c>>  n == Len(r.st) + 1
           a == AddLit(Add(r), y, c, n)
<1>1. PICK T, N, lab : Tree(b, d, R, o, base, e, W, r, T, N, lab) /\ y \in N /\ lab[y] = u
  BY DEF OnTree
<1>2. LitStep(v, c) = IF to # None THEN At(r, to) ELSE At(a, n)
  BY DEF LitStep, NewIn
<1>3. CASE to # None
  <2>1. IF to = None THEN \A z \in N : lab[z] # w ELSE to \in N /\ lab[to] = w
    BY <1>1, TreeOld
  <2> HIDE DEF to, w
  <2>2. OnTree(b, d, R, o, base, e, W, At(r, to), w)
    <3>1. At(r, to).b = r /\ At(r, to).at = to
      BY DEF At
    <3> HIDE DEF r
    <3> QED BY <1>1, <1>3, <2>1, <3>1 DEF OnTree
  <2> QED BY <1>2, <1>3, <2>2 DEF w
<1>4. CASE to = None
  <2>1. TreeTo(b, d, R, o, base, e, W, a, n, w)
    <3>1. First(r.st[y].lits, c) = None /\ After(R[o], lab[y] \odot <<c>>) # {}
      BY <1>1, <1>4
    <3>2. TreeTo(b, d, R, o, base, e, W, AddLit(Add(r), y, c, Len(r.st) + 1), Len(r.st) + 1, lab[y] \odot <<c>>)
      <4> HIDE DEF r, y
      <4> QED BY <1>1, <3>1, TreeGrow
    <3> QED BY <1>1, <3>2
  <2> HIDE DEF a, n, w
  <2>2. OnTree(b, d, R, o, base, e, W, At(a, n), w)
    <3>1. At(a, n).b = a /\ At(a, n).at = n
      BY DEF At
    <3> QED BY <2>1, <3>1 DEF OnTree, TreeTo
  <2> QED BY <1>2, <1>4, <2>2 DEF w
<1> QED BY <1>3, <1>4

LEMMA OnTreeFacts ==
  ASSUME NEW b, NEW d, NEW R, NEW o, NEW base, NEW e, NEW W, NEW v, NEW u,
         OnTree(b, d, R, o, base, e, W, v, u)
  PROVE  v \in Cursor /\ u \in Seq(Symbol \ {e}) /\ u \in Text /\ R[o] \subseteq Text
<1>1. PICK T, N, lab : Tree(b, d, R, o, base, e, W, v.b, T, N, lab) /\ v.at \in N /\ lab[v.at] = u
  BY DEF OnTree
<1>2. TreeState(b, d, R, o, base, e, W, v.b, T, N, lab, v.at)
  BY <1>1, TreeFacts
<1>3. v.b \in Builder /\ v.at \in 1 .. Len(v.b.st) /\ Len(v.b.st) \in Nat /\ v = At(v.b, v.at)
  BY <1>2 DEF TreeState, OnTree
<1>4. v \in Cursor
  BY <1>3 DEF Cursor, At, Index
<1> QED BY <1>1, <1>2, <1>4 DEF TreeState

\* v has come to the state of the first k bytes of a word.
OnWord(b, d, R, o, base, e, W, word, k, v) ==
  \E u \in Text : OnTree(b, d, R, o, base, e, W, v, u) /\ u \odot Rest(word, k) = word

LEMMA WordStep ==
  ASSUME NEW b, NEW d, NEW R, NEW o, NEW base, NEW e, NEW W, NEW word \in Seq(Byte \ {e}),
         R[o] \subseteq Text, After(R[o], word) # {}, NEW k \in 1 .. Len(word), NEW v,
         OnWord(b, d, R, o, base, e, W, word, k - 1, v)
  PROVE  OnWord(b, d, R, o, base, e, W, word, k, LitStep(v, word[k]))
<1> DEFINE c == word[k]  x == Rest(word, k)
<1>1. PICK u \in Text : OnTree(b, d, R, o, base, e, W, v, u) /\ u \odot Rest(word, k - 1) = word
  BY DEF OnWord
<1>2. c \in Byte \ {e} /\ x \in Text /\ Rest(word, k - 1) = <<c>> \odot x /\ c \in Symbol
  <2>1. c \in Byte \ {e} /\ x \in Seq(Byte \ {e}) /\ Rest(word, k - 1) = <<c>> \odot x
    <3>1. /\ \A j \in 0 .. Len(word) : Rest(word, j) \in Seq(Byte \ {e})
          /\ \A j \in 1 .. Len(word) : word[j] \in Byte \ {e} /\ Rest(word, j - 1) = <<word[j]>> \odot Rest(word, j)
      BY RestIs
    <3>2. k \in 0 .. Len(word)
      OBVIOUS
    <3> QED BY <3>1, <3>2
  <2>2. c \in Symbol /\ Byte \ {e} \subseteq Symbol
    BY <2>1, MarkFacts
  <2>3. x \in Text
    BY <2>1, <2>2, SeqMonotonic DEF Text
  <2> QED BY <2>1, <2>2, <2>3
<1> HIDE DEF c, x
<1> DEFINE w == u \odot <<c>>
<1>3. w \in Text /\ w \odot x = word
  <2>1. <<c>> \in Text
    BY <1>2, TextFacts
  <2>2. (u \odot <<c>>) \odot x = u \odot (<<c>> \odot x)
    BY <1>2, <2>1, Assoc
  <2> QED BY <1>1, <1>2, <2>1, <2>2, TextFacts
<1> HIDE DEF w
<1>4. After(R[o], w) # {}
  <2>1. \A p, q \in Text : After(R[o], p \odot q) # {} => After(R[o], p) # {}
    BY AfterIs
  <2> QED BY <1>2, <1>3, <2>1
<1>5. OnTree(b, d, R, o, base, e, W, LitStep(v, c), w)
  <2>1. c \in Byte /\ c # e /\ After(R[o], u \odot <<c>>) # {}
    BY <1>2, <1>4 DEF w
  <2> QED BY <1>1, <2>1, TreeStep DEF w
<1> QED BY <1>3, <1>5 DEF OnWord, c, x

\* A word that the language goes on from, walked from the root.
LEMMA TreeWord ==
  ASSUME NEW b, NEW d, NEW R, NEW o, NEW base, NEW e, NEW W, NEW v,
         OnTree(b, d, R, o, base, e, W, v, <<>>), NEW word \in Seq(Byte \ {e}), After(R[o], word) # {}
  PROVE  OnTree(b, d, R, o, base, e, W, Lit(v, word), word)
<1> DEFINE n == Len(word)
           P == [k \in 0 .. n |-> {w \in Cursor : OnWord(b, d, R, o, base, e, W, word, k, w)}]
<1>1. n \in Nat /\ v \in Cursor /\ R[o] \subseteq Text
  <2>1. v \in Cursor /\ R[o] \subseteq Text
    <3> DEFINE u == <<>>
    <3>1. OnTree(b, d, R, o, base, e, W, v, u)
      OBVIOUS
    <3> HIDE DEF u
    <3> QED BY <3>1, OnTreeFacts
  <2> QED BY <2>1
<1>2. v \in P[0]
  <2>1. Rest(word, 0) = word /\ word \in Text
    BY RestIs, MarkFacts, SeqMonotonic DEF Text
  <2>2. <<>> \in Text /\ <<>> \odot word = word
    BY <2>1, TextFacts
  <2>3. OnWord(b, d, R, o, base, e, W, word, 0, v)
    BY <2>1, <2>2 DEF OnWord
  <2> QED BY <1>1, <2>3
<1>3. ASSUME NEW k \in 1 .. n, NEW w \in P[k - 1] PROVE LitStep(w, word[k]) \in P[k]
  <2>1. OnWord(b, d, R, o, base, e, W, word, k - 1, w)
    BY <1>1, <1>3
  <2>2. OnWord(b, d, R, o, base, e, W, word, k, LitStep(w, word[k]))
    BY <1>1, <2>1, WordStep
  <2>3. LitStep(w, word[k]) \in Cursor
    BY <2>2, OnTreeFacts DEF OnWord
  <2> QED BY <1>1, <2>2, <2>3
<1>4. Lit(v, word) \in P[n]
  <2> HIDE DEF P
  <2> QED BY <1>1, <1>2, <1>3, LitRuns
<1>5. OnWord(b, d, R, o, base, e, W, word, n, Lit(v, word))
  BY <1>1, <1>4
<1>6. PICK u \in Text : OnTree(b, d, R, o, base, e, W, Lit(v, word), u) /\ u \odot Rest(word, n) = word
  BY <1>5 DEF OnWord
<1>7. Rest(word, n) = <<>> /\ u \odot <<>> = u
  BY RestIs, TextFacts
<1> QED BY <1>6, <1>7

\* A word does not have the symbol that ends it.
LEMMA EndOut ==
  ASSUME NEW e \in Symbol, NEW v \in Text
  PROVE  v \odot <<e>> \notin Seq(Symbol \ {e})
<1> DEFINE w == Append(v, e)  n == Len(v) + 1
<1>1. v \in Seq(Symbol) /\ v \odot <<e>> = w
  BY AppendIsConcat DEF \odot, Text
<1>2. Len(w) = n /\ w[n] = e /\ n \in 1 .. n
  BY <1>1
<1> HIDE DEF w, n
<1>3. w \notin Seq(Symbol \ {e})
  BY <1>2
<1> QED BY <1>1, <1>3

LEMMA TreeOwn ==
  ASSUME NEW b, NEW d, NEW R, NEW o, NEW r, NEW T, NEW left, Work(b, d, R, o, r, T, left),
         NEW u, NEW U, NEW rest, Work(b, d, R, o, u, U, rest), NEW x, Edits(r, u, x),
         NEW z, Own(b, o, r, z)
  PROVE  Own(b, o, u, z)
<1>1. Len(r.st) \in Nat /\ z \in 1 .. Len(r.st) /\ (z = o \/ z > Len(b.st))
  BY WorkFacts
<1>2. Len(u.st) \in Nat /\ \A y : Own(b, o, u, y) <=> y \in 1 .. Len(u.st) /\ (y = o \/ y > Len(b.st))
  BY WorkFacts
<1> QED BY <1>1, <1>2 DEF Edits

\* More states outside the tree, whose root stays where it is.
LEMMA TreeKept ==
  ASSUME NEW b, NEW d, NEW R, NEW o, NEW base, NEW e, NEW W, NEW r, NEW T, NEW N, NEW lab,
         Tree(b, d, R, o, base, e, W, r, T, N, lab),
         NEW n, n \notin N, NEW u, NEW U, NEW rest, Work(b, d, R, o, u, U, rest \cup N),
         Edits(r, u, n), Same(r, T, U)
  PROVE  Tree(b, d, R, o, rest, e, W, u, U, N, lab)
<1>1. \A z \in N : TreeState(b, d, R, o, base, e, W, r, T, N, lab, z)
  BY TreeFacts
<1>2. ASSUME NEW z \in N
      PROVE  u.st[z] = r.st[z] /\ U[z] = T[z] /\ Own(b, o, u, z) /\ Branches(r.st[z], z, U, N, lab, e, R[o], W)
  <2>1. /\ z \in 1 .. Len(r.st) /\ Len(r.st) \in Nat /\ Own(b, o, r, z) /\ Points(r.st[z], Len(r.st))
        /\ Work(b, d, R, o, r, T, base \cup N)
        /\ Branches(r.st[z], z, T, N, lab, e, R[o], W) /\ r.st[z] \in Row
    BY <1>1 DEF TreeState
  <2>2. u.st[z] = r.st[z] /\ U[z] = T[z]
    BY <2>1, <1>2 DEF Edits, Same
  <2>3. Own(b, o, u, z)
    BY <2>1, TreeOwn
  <2>4. \A c : U[Goes(r.st[z], z, c)] = T[Goes(r.st[z], z, c)]
    <3>1. \A c : Goes(r.st[z], z, c) \in 0 .. Len(r.st)
      BY <2>1, GoesIn
    <3> QED BY <3>1 DEF Same
  <2>5. Branches(r.st[z], z, U, N, lab, e, R[o], W)
    BY <2>1, <2>4 DEF Branches
  <2> QED BY <2>2, <2>3, <2>5
<1>3. Labels(u, U, N, lab, e, R[o], W)
  <2>1. Labels(r, T, N, lab, e, R[o], W)
    BY DEF Tree
  <2> QED BY <2>1, <1>2 DEF Labels
<1>4. R[o] \subseteq Text /\ e \in Symbol /\ lab \in [Nat -> Text] /\ o \in N /\ lab[o] = <<>>
  BY DEF Tree
<1> QED BY <1>2, <1>3, <1>4 DEF Tree

\* State y ends a word, with a way on to the state to.
LEMMA TreeEnd ==
  ASSUME NEW b, NEW d, NEW R, NEW o, NEW base, NEW e, NEW W, NEW r, NEW T, NEW N, NEW lab,
         Tree(b, d, R, o, base, e, W, r, T, N, lab), NEW y \in N, lab[y] \notin W,
         NEW u, NEW U, NEW rest, Work(b, d, R, o, u, U, rest \cup N), Edits(r, u, y), Same(r, T, U),
         NEW to, U[to] = After(R[o], lab[y] \odot <<e>>), u.st[y].class = NoClass,
         \A k : Goes(u.st[y], y, k) = IF k = e THEN to ELSE Goes(r.st[y], y, k)
  PROVE  Tree(b, d, R, o, rest, e, W \cup {lab[y]}, u, U, N, lab)
<1> DEFINE V == W \cup {lab[y]}
<1>1. \A z \in N : TreeState(b, d, R, o, base, e, W, r, T, N, lab, z)
  BY TreeFacts
<1>2. Labels(r, T, N, lab, e, R[o], W)
  BY DEF Tree
<1>3. ASSUME NEW z \in N
      PROVE  /\ u.st[z].class = NoClass /\ (z = y \/ u.st[z] = r.st[z]) /\ U[z] = T[z] /\ Own(b, o, u, z)
             /\ Branches(u.st[z], z, U, N, lab, e, R[o], V)
  <2>1. /\ z \in 1 .. Len(r.st) /\ Len(r.st) \in Nat /\ Own(b, o, r, z) /\ Points(r.st[z], Len(r.st))
        /\ Work(b, d, R, o, r, T, base \cup N)
        /\ Branches(r.st[z], z, T, N, lab, e, R[o], W) /\ r.st[z] \in Row /\ r.st[z].class = NoClass
    BY <1>1 DEF TreeState
  <2>2. (z = y \/ u.st[z] = r.st[z]) /\ U[z] = T[z]
    BY <2>1 DEF Edits, Same
  <2>3. Own(b, o, u, z)
    BY <2>1, TreeOwn
  <2>4. \A c : U[Goes(r.st[z], z, c)] = T[Goes(r.st[z], z, c)]
    <3>1. \A c : Goes(r.st[z], z, c) \in 0 .. Len(r.st)
      BY <2>1, GoesIn
    <3> QED BY <3>1 DEF Same
  <2>5. Branches(r.st[z], z, U, N, lab, e, R[o], W)
    BY <2>1, <2>4 DEF Branches
  <2>6. CASE z = y
    <3>1. ASSUME NEW k \in Symbol
          PROVE  LET g == Goes(u.st[z], z, k)
                     w == lab[z] \odot <<k>>
                 IN  IF k = e /\ lab[z] \in V THEN U[g] = After(R[o], w)
                     ELSE IF g = None THEN \A x \in N : lab[x] # w ELSE g \in N /\ lab[g] = w
      <4>1. CASE k = e
        BY <4>1, <2>6
      <4>2. CASE k # e
        BY <4>2, <2>5, <2>6 DEF Branches
      <4> QED BY <4>1, <4>2
    <3> QED BY <3>1, <2>2, <2>3, <2>6 DEF Branches
  <2>7. CASE z # y
    <3>1. lab[z] \in V <=> lab[z] \in W
      BY <2>7, <1>2 DEF Labels
    <3>2. u.st[z] = r.st[z]
      BY <2>2, <2>7
    <3> HIDE DEF V
    <3>3. Branches(u.st[z], z, U, N, lab, e, R[o], V)
      BY <3>1, <3>2, <2>5 DEF Branches
    <3> QED BY <3>2, <3>3, <2>1, <2>2, <2>3
  <2> QED BY <2>6, <2>7
<1>4. Labels(u, U, N, lab, e, R[o], V)
  BY <1>2, <1>3 DEF Labels
<1>5. R[o] \subseteq Text /\ e \in Symbol /\ lab \in [Nat -> Text] /\ o \in N /\ lab[o] = <<>>
  BY DEF Tree
<1> QED BY <1>3, <1>4, <1>5 DEF Tree

\* A tree whose finished words begin every text of its language.
LEMMA TreeExact ==
  ASSUME NEW b, NEW d, NEW R, NEW o, NEW base, NEW e, NEW W, NEW r, NEW T, NEW N, NEW lab,
         Tree(b, d, R, o, base, e, W, r, T, N, lab),
         \A w \in R[o] : \E v \in W, z \in Text : w = v \odot (<<e>> \odot z)
  PROVE  Work(b, d, R, o, r, T, (base \cup N) \ N)
<1> DEFINE X == R[o]
<1>1. Labels(r, T, N, lab, e, X, W) /\ X \subseteq Text /\ e \in Symbol
  BY DEF Tree
<1>2. \A v \in W : v \in Seq(Symbol \ {e})
  BY <1>1 DEF Labels
<1> HIDE DEF X
<1>3. ASSUME NEW y \in N PROVE Exact(r.st[y], y, T)
  <2> DEFINE p == lab[y]
  <2>1. /\ p \in Seq(Symbol \ {e}) /\ p \in Text /\ T[y] = After(X, p) /\ r.st[y].accept = FALSE
        /\ Branches(r.st[y], y, T, N, lab, e, X, W) /\ T \in Lang
    <3>1. TreeState(b, d, R, o, base, e, W, r, T, N, lab, y)
      BY TreeFacts
    <3> QED BY <3>1 DEF TreeState, X
  <2> HIDE DEF p
  <2>2. <<>> \notin T[y]
    <3>1. SUFFICES ASSUME <<>> \in After(X, p) PROVE FALSE
      BY <2>1
    <3>2. p \in X
      BY <3>1, <2>1, TextFacts DEF After
    <3>3. PICK v \in W, z \in Text : p = v \odot (<<e>> \odot z)
      BY <3>2 DEF X
    <3>4. v \in Seq(Symbol \ {e})
      BY <1>2
    <3> QED BY <3>3, <3>4, <2>1, <1>1, SplitOnce
  <2>3. ASSUME NEW c \in Symbol PROVE T[Goes(r.st[y], y, c)] = Past(T[y], c)
    <3> DEFINE g == Goes(r.st[y], y, c)  u == p \odot <<c>>
    <3>1. IF c = e /\ p \in W THEN T[g] = After(X, u)
          ELSE IF g = None THEN \A z \in N : lab[z] # u ELSE g \in N /\ lab[g] = u
      BY <2>1 DEF Branches, p
    <3>2. Past(T[y], c) = After(X, u)
      BY <2>1, <1>1, AfterIs
    <3>3. u \in Text /\ <<c>> \in Text
      BY <2>1, TextFacts
    <3> HIDE DEF g
    <3>4. CASE c = e /\ p \in W
      BY <3>1, <3>2, <3>4 DEF g
    <3>5. CASE g = None /\ ~(c = e /\ p \in W)
      <4>1. T[g] = {}
        BY <3>5, <2>1, LangFacts
      <4>2. \A z \in N : lab[z] # u
        BY <3>1, <3>5
      <4>3. ASSUME NEW a \in After(X, u) PROVE FALSE
        <5>1. a \in Text /\ u \odot a \in X
          BY <4>3 DEF After
        <5>2. PICK v \in W, z \in Text : u \odot a = v \odot (<<e>> \odot z)
          BY <5>1 DEF X
        <5>3. v \odot (<<e>> \odot z) = p \odot (<<c>> \odot a)
          BY <5>1, <5>2, <3>3, <2>1, Assoc
        <5>4. v \in Seq(Symbol \ {e})
          BY <1>2
        <5>5. (c = e /\ v = p) \/ \E t \in Text : v = (p \odot <<c>>) \odot t
          BY <5>1, <5>3, <5>4, <2>1, <1>1, SplitOnce
        <5>6. PICK t \in Text : v = u \odot t
          BY <5>5, <3>5
        <5>7. PICK x \in N : lab[x] = v
          BY <1>1 DEF Labels
        <5>8. \E z1 \in N : lab[z1] = u
          BY <5>6, <5>7, <3>3, <1>1 DEF Labels
        <5> QED BY <5>8, <4>2
      <4> QED BY <4>1, <4>3, <3>2 DEF g
    <3>6. CASE g # None /\ ~(c = e /\ p \in W)
      <4>1. g \in N /\ lab[g] = u
        BY <3>1, <3>6
      <4>2. T[g] = After(X, lab[g])
        BY <4>1, <1>1 DEF Labels
      <4> QED BY <4>1, <4>2, <3>2 DEF g
    <3> QED BY <3>4, <3>5, <3>6 DEF g
  <2> QED BY <2>1, <2>2, <2>3 DEF Exact
<1>4. Work(b, d, R, o, r, T, base \cup N)
  BY DEF Tree
<1>5. Fit(r, d, T, (base \cup N) \ N)
  <2>1. Fit(r, d, T, base \cup N)
    BY <1>4 DEF Work
  <2> QED BY <2>1, <1>3 DEF Fit, Means
<1> QED BY <1>4, <1>5 DEF Work
-----------------------------------------------------------------------------
(* Enums: the members share the states after the opening quote *)

\* o and what is beyond the state o + 1 where every member ends.
Region(o, r) == {o} \cup (o + 2 .. Len(r.st))
\* Members have been spelled from o, and their bytes stay in its region.
Spread(b, d, s, o, r) ==
  /\ Len(b.st) \in Nat /\ s \in 1 .. Len(b.st) /\ s # d /\ d \in 0 .. Len(b.st)
  /\ o = Len(b.st) + 1 /\ Edits(b, r, s) /\ o + 1 \in 1 .. Len(r.st) /\ r.st[o + 1] = Blank
  /\ \A x \in Region(o, r) : \A i \in DOMAIN r.st[x].lits : r.st[x].lits[i][2] \in Region(o, r)
Inside(b, d, s, o, L, v) ==
  v \in Cursor /\ Spread(b, d, s, o, v.b) /\ Ok(v.b, d, L \cup {v.at}) /\ v.at \in Region(o, v.b)

LEMMA SpreadFacts ==
  ASSUME NEW b, NEW d, NEW s, NEW o, NEW r, Spread(b, d, s, o, r), NEW x \in Region(o, r),
         Len(r.st) \in Nat
  PROVE  /\ x \in 1 .. Len(r.st) /\ x # d /\ x # o + 1 /\ x > Len(b.st) /\ x # s
         /\ o + 1 \in 1 .. Len(r.st)
BY DEF Spread, Region

\* An edit inside the region whose edges stay there.
LEMMA SpreadEdit ==
  ASSUME NEW b, NEW d, NEW s, NEW o, NEW r, NEW x, NEW u, Spread(b, d, s, o, r), x \in Region(o, r),
         Len(r.st) \in Nat, Len(u.st) \in Nat, Edits(r, u, x),
         \A y \in Len(r.st) + 1 .. Len(u.st) : u.st[y].lits = <<>>,
         \A i \in DOMAIN u.st[x].lits : u.st[x].lits[i][2] \in Region(o, u)
  PROVE  Spread(b, d, s, o, u)
<1>1. /\ x \in 1 .. Len(r.st) /\ x # o + 1 /\ x > Len(b.st) /\ x # s /\ o + 1 \in 1 .. Len(r.st)
      /\ Len(b.st) \in Nat /\ o = Len(b.st) + 1 /\ Edits(b, r, s) /\ r.st[o + 1] = Blank
  BY SpreadFacts DEF Spread
<1>2. Edits(b, u, s)
  BY <1>1, EditsTwice
<1>3. o + 1 \in 1 .. Len(u.st) /\ u.st[o + 1] = Blank
  BY <1>1 DEF Edits
<1>4. ASSUME NEW y \in Region(o, u), NEW i \in DOMAIN u.st[y].lits
      PROVE  u.st[y].lits[i][2] \in Region(o, u)
  <2>1. CASE y = x
    BY <1>4, <2>1
  <2>2. CASE y \in Len(r.st) + 1 .. Len(u.st)
    BY <1>4, <2>2
  <2>3. CASE y \in Region(o, r) /\ y # x
    <3>1. u.st[y] = r.st[y]
      BY <1>1, <2>3, SMTT(30) DEF Edits, Region
    <3>2. r.st[y].lits[i][2] \in Region(o, r)
      BY <1>4, <2>3, <3>1 DEF Spread
    <3> QED BY <3>1, <3>2, <1>1, SMTT(30) DEF Region, Edits
  <2>4. \/ y = x \/ y \in Len(r.st) + 1 .. Len(u.st) \/ (y \in Region(o, r) /\ y # x)
    BY <1>1, <1>4 DEF Region, Edits
  <2> QED BY <2>1, <2>2, <2>3, <2>4
<1> QED BY <1>2, <1>3, <1>4 DEF Spread

LEMMA AppendCases ==
  ASSUME NEW S, NEW q \in Seq(S), NEW e \in S, NEW i \in DOMAIN Append(q, e)
  PROVE  (i \in DOMAIN q /\ Append(q, e)[i] = q[i]) \/ Append(q, e)[i] = e
BY AppendProperties

LEMMA InsideStep ==
  ASSUME NEW b, NEW d, NEW s, NEW o, NEW L, NEW v, Inside(b, d, s, o, L, v), NEW c \in Byte
  PROVE  Inside(b, d, s, o, L, LitStep(v, c))
<1> DEFINE r == LitStep(v, c)  x == v.at  q == v.b.st[x]
<1> HIDE DEF r, x
<1>1. /\ Spread(b, d, s, o, v.b) /\ Ok(v.b, d, L \cup {x}) /\ x \in Region(o, v.b) /\ v \in Cursor
      /\ Len(v.b.st) \in Nat
  BY OkFacts DEF Inside, x
<1>2. x \in 1 .. Len(v.b.st) /\ x # d
  BY <1>1, SpreadFacts
<1>3. \/ OldStep(v, r, c) /\ Ok(r.b, d, (L \cup {x}) \ {x})
      \/ NewStep(v, r, c) /\ Ok(r.b, d, ((L \cup {x}) \ {x}) \cup {r.at})
  BY <1>1, <1>2, LitStepIs DEF r, x
<1>4. CASE OldStep(v, r, c) /\ Ok(r.b, d, (L \cup {x}) \ {x})
  <2>1. r.b = v.b /\ r \in Cursor /\ r.at \in Region(o, v.b)
    BY <1>1, <1>4 DEF OldStep, Spread, x
  <2>2. Ok(r.b, d, L \cup {r.at})
    BY <1>4, OkMore, (L \cup {x}) \ {x} \subseteq L \cup {r.at}
  <2> QED BY <2>1, <2>2, <1>1 DEF Inside, r
<1>5. CASE NewStep(v, r, c) /\ Ok(r.b, d, ((L \cup {x}) \ {x}) \cup {r.at})
  <2>1. /\ r \in Cursor /\ r.at = Len(v.b.st) + 1 /\ Edits(v.b, r.b, x) /\ Len(r.b.st) = Len(v.b.st) + 1
        /\ r.b.st[r.at] = Blank /\ r.b.st[x] = WithLit(q, c, r.at)
    BY <1>5 DEF NewStep, Links, x
  <2>2. Ok(r.b, d, L \cup {r.at})
    BY <1>5, OkMore, ((L \cup {x}) \ {x}) \cup {r.at} \subseteq L \cup {r.at}
  <2>3. r.at \in Region(o, r.b)
    BY <1>1, <2>1 DEF Region, Spread
  <2>4. \A y \in Len(v.b.st) + 1 .. Len(r.b.st) : r.b.st[y].lits = <<>>
    BY <2>1, <1>1, BlankFacts
  <2>5. ASSUME NEW i \in DOMAIN r.b.st[x].lits PROVE r.b.st[x].lits[i][2] \in Region(o, r.b)
    <3>1. q \in Row /\ q.lits \in Seq(Byte \X Index)
      BY <1>1, <1>2, OkFacts DEF Row
    <3>2. r.b.st[x].lits = Append(q.lits, <<c, r.at>>)
      <4>1. WithLit(q, c, r.at).lits = Append(q.lits, <<c, r.at>>)
        <5> HIDE DEF q
        <5> QED BY <3>1, WithLitFacts
      <4> QED BY <2>1, <4>1
    <3>3. \/ i \in DOMAIN q.lits /\ r.b.st[x].lits[i] = q.lits[i]
          \/ r.b.st[x].lits[i] = <<c, r.at>>
      <4>1. <<c, r.at>> \in Byte \X Index
        BY <2>1, <1>1 DEF Index
      <4> HIDE DEF q
      <4> QED BY <2>5, <3>1, <3>2, <4>1, AppendCases
    <3>4. CASE i \in DOMAIN q.lits /\ r.b.st[x].lits[i] = q.lits[i]
      <4>1. q.lits[i][2] \in Region(o, v.b)
        BY <1>1, <3>4 DEF Spread
      <4> QED BY <3>4, <4>1, <2>1, <1>1 DEF Region
    <3> QED BY <3>3, <3>4, <2>3
  <2>6. Spread(b, d, s, o, r.b)
    BY <1>1, <2>1, <2>4, <2>5, SpreadEdit
  <2> QED BY <2>1, <2>2, <2>3, <2>6 DEF Inside, r
<1> QED BY <1>3, <1>4, <1>5

\* One member, from o to the state after it.
MemberTo(r, o, word) == LET end == Lit(At(r, o), word) IN TokTo(end.b, end.at, Quote, o + 1)

LEMMA MemberOk ==
  ASSUME NEW b, NEW d, NEW s, NEW o, NEW L, NEW r, Spread(b, d, s, o, r), Ok(r, d, L \cup {o}),
         NEW word \in Seq(Byte)
  PROVE  Spread(b, d, s, o, MemberTo(r, o, word)) /\ Ok(MemberTo(r, o, word), d, L)
<1> DEFINE w == At(r, o)  n == Len(word)
           P == [k \in 0 .. n |-> {v \in Cursor : Inside(b, d, s, o, L, v)}]
           end == Lit(w, word)  x == end.at  u == TokTo(end.b, x, Quote, o + 1)
<1>1. n \in Nat /\ \A k \in 1 .. n : word[k] \in Byte
  OBVIOUS
<1>2. w \in Cursor /\ Inside(b, d, s, o, L, w)
  <2>1. w.b = r /\ w.at = o /\ o \in Region(o, r)
    BY DEF At, Region
  <2>2. r \in Builder /\ o \in Index /\ w = [b |-> r, at |-> o]
    <3>1. r \in Builder
      BY OkFacts
    <3>2. o \in Index
      BY DEF Spread, Index
    <3> QED BY <3>1, <3>2 DEF At
  <2>3. w \in Cursor
    BY <2>2 DEF Cursor
  <2> HIDE DEF w
  <2> QED BY <2>1, <2>3 DEF Inside
<1>3. end \in P[n]
  <2> HIDE DEF w
  <2>1. w \in P[0]
    BY <1>1, <1>2
  <2>2. \A k \in 1 .. n : \A v \in P[k - 1] : LitStep(v, word[k]) \in P[k]
    BY <1>1, InsideStep, SMTT(30) DEF Inside
  <2> HIDE DEF P
  <2> QED BY <1>1, <2>1, <2>2, LitRuns
<1> HIDE DEF w
<1>4. Inside(b, d, s, o, L, end)
  BY <1>1, <1>3
<1> HIDE DEF end, P
<1>5. /\ Spread(b, d, s, o, end.b) /\ Ok(end.b, d, L \cup {x}) /\ x \in Region(o, end.b)
      /\ Len(end.b.st) \in Nat
  BY <1>4, OkFacts DEF Inside
<1>6. x \in 1 .. Len(end.b.st) /\ x # d /\ o + 1 \in 1 .. Len(end.b.st)
  BY <1>5, SpreadFacts
<1>7. Ok(u, d, (L \cup {x}) \ {x}) /\ Sets(end.b, u, x, WithTok(end.b.st[x], Quote, o + 1))
  BY <1>5, <1>6, TokToOk DEF Delims
<1> HIDE DEF u
<1>8. Ok(u, d, L)
  BY <1>7, OkMore, (L \cup {x}) \ {x} \subseteq L
<1>9. Spread(b, d, s, o, u)
  <2>1. end.b.st[x] \in Row
    BY <1>5, <1>6, OkFacts
  <2>2. u.st[x].lits = end.b.st[x].lits /\ Edits(end.b, u, x) /\ Len(u.st) = Len(end.b.st)
    BY <1>7, <2>1, Fields DEF Sets, WithTok
  <2>3. \A i \in DOMAIN u.st[x].lits : u.st[x].lits[i][2] \in Region(o, u)
    BY <1>5, <2>2 DEF Spread, Region
  <2>4. \A y \in Len(end.b.st) + 1 .. Len(u.st) : u.st[y].lits = <<>>
    BY <2>2, <1>5
  <2> QED BY <1>5, <2>2, <2>3, <2>4, SpreadEdit
<1>10. MemberTo(r, o, word) = u
  BY DEF MemberTo, u, end, w
<1> QED BY <1>8, <1>9, <1>10

\* A member after the first k - 1, unless it was spelled before.
NextMember(v, o, vals, k) ==
  IF \E j \in 1 .. k - 1 : vals[j] = vals[k] THEN v ELSE MemberTo(v, o, vals[k])

\* Where the members of an enum arrive, from where each of them arrives.
EnumRun(w, vals, exitOn, to, S) ==
  \E r \in S : EnumTo(w, vals, exitOn, to) = LitTo(At(r, NewIn(Tok(w, Quote).b)), <<exitOn>>, to)
LEMMA EnumRuns ==
  ASSUME NEW w, NEW vals, Len(vals) \in Nat, NEW exitOn, NEW to, NEW o, o = Tok(w, Quote).at,
         NewIn(Tok(w, Quote).b) = o + 1, NEW P, Add(Tok(w, Quote).b) \in P[0],
         \A k \in 1 .. Len(vals) : \A v \in P[k - 1] : NextMember(v, o, vals, k) \in P[k]
  PROVE  EnumRun(w, vals, exitOn, to, P[Len(vals)])
<1> DEFINE n == Len(vals)
           body == Tok(w, Quote)  closed == NewIn(body.b)
           seen(k) == \E j \in 1 .. k - 1 : vals[j] = vals[k]
           member(r, v) == LET end == Lit(At(r, body.at), v) IN TokTo(end.b, end.at, Quote, closed)
           next(r, k) == IF seen(k) THEN r ELSE member(r, vals[k])
           IsRun(f) == f = [k \in 0 .. n |-> IF k = 0 THEN Add(body.b)
                              ELSE IF seen(k) THEN f[k - 1] ELSE member(f[k - 1], vals[k])]
           run == CHOOSE f : IsRun(f)
           step == [k \in 1 .. n |-> [v \in P[k - 1] |-> next(v, k)]]
           r == LitTo(At(run[n], closed), <<exitOn>>, to)
<1>1. EnumTo(w, vals, exitOn, to) = r
  BY Zenon DEF EnumTo
<1>2. \A v, k : next(v, k) = NextMember(v, o, vals, k)
  <2>1. \A v, k : member(v, vals[k]) = MemberTo(v, o, vals[k])
    <3> HIDE DEF body
    <3> QED BY DEF MemberTo, body
  <2> HIDE DEF member
  <2> QED BY <2>1 DEF NextMember
<1> HIDE DEF body, closed
<1>3. \A k \in 1 .. n : DOMAIN step[k] = P[k - 1] /\ \A v \in P[k - 1] : step[k][v] = next(v, k)
  <2> HIDE DEF next
  <2> QED OBVIOUS
<1> HIDE DEF step
<1>4. \A k \in 1 .. n : \A v \in P[k - 1] : next(v, k) \in P[k]
  <2> HIDE DEF next
  <2> QED BY <1>2
<1>5. n \in Nat /\ Add(body.b) \in P[0]
  BY DEF body
<1>6. PICK f : IsFold(f, n, Add(body.b), step) /\ \A k \in 0 .. n : f[k] \in P[k]
  <2>1. \A k \in 1 .. n : \A v \in P[k - 1] : step[k][v] \in P[k]
    <3> HIDE DEF next
    <3> QED BY <1>3, <1>4
  <2> HIDE DEF next, n
  <2> QED BY <1>5, <2>1, Fold
<1>7. IsRun(run)
  <2>1. ASSUME NEW k \in 1 .. n PROVE step[k][f[k - 1]] = next(f[k - 1], k)
    <3>1. f[k - 1] \in P[k - 1]
      BY <1>5, <1>6
    <3> HIDE DEF next
    <3> QED BY <3>1, <1>3
  <2>2. \A k \in 0 .. n : (IF k = 0 THEN Add(body.b) ELSE step[k][f[k - 1]]) =
          (IF k = 0 THEN Add(body.b) ELSE IF seen(k) THEN f[k - 1] ELSE member(f[k - 1], vals[k]))
    <3> HIDE DEF member, seen
    <3> QED BY <2>1, <1>5
  <2>3. IsRun(f)
    <3> HIDE DEF member, seen
    <3> QED BY <2>2, <1>6 DEF IsFold
  <2> HIDE DEF IsRun
  <2> QED BY <2>3, Zenon
<1> HIDE DEF run
<1>8. run[0] = Add(body.b) /\ \A k \in 1 .. n : run[k] = next(run[k - 1], k)
  <2> HIDE DEF member, seen, n
  <2>1. \A k \in 0 .. n : run[k] = IF k = 0 THEN Add(body.b)
                              ELSE IF seen(k) THEN run[k - 1] ELSE member(run[k - 1], vals[k])
    BY <1>7
  <2>2. run[0] = Add(body.b)
    BY <2>1, <1>5
  <2>3. ASSUME NEW k \in 1 .. n PROVE run[k] = IF seen(k) THEN run[k - 1] ELSE member(run[k - 1], vals[k])
    <3>1. k \in 0 .. n /\ k # 0
      BY <1>5
    <3> HIDE DEF run
    <3> QED BY <2>1, <3>1
  <2> QED BY <2>2, <2>3
<1> HIDE DEF next
<1>9. run[n] \in P[n]
  <2> DEFINE T == {j \in 0 .. n : run[j] \in P[j]}
  <2>1. 0 \in T
    BY <1>5, <1>8
  <2>2. ASSUME NEW k \in 1 .. n, k - 1 \in T PROVE k \in T
    BY <2>2, <1>4, <1>5, <1>8
  <2> HIDE DEF T
  <2>3. \A k \in 0 .. n : k \in T
    BY <1>5, <2>1, <2>2, UpTo
  <2> QED BY <2>3, <1>5 DEF T
<1> QED BY <1>1, <1>9 DEF EnumRun, closed, body

\* enum: some member, then the byte it exits on.
LEMMA EnumOk ==
  ASSUME NEW w, NEW d, NEW open, Fresh(w.b, d, open, w.at), w = At(w.b, w.at),
         NEW exitOn \in Byte, NEW to \in 1 .. Len(w.b.st), NEW vals \in Seq(Seq(Byte)), vals # <<>>
  PROVE  Filled(w.b, d, open, w.at, EnumTo(w, vals, exitOn, to))
<1> DEFINE b == w.b  s == w.at  n == Len(vals)
           body == Tok(w, Quote)  o == body.at  closed == NewIn(body.b)
           L == (open \ {s}) \cup {closed}
<1>2. /\ Ok(b, d, open) /\ s \in 1 .. Len(b.st) /\ s # d /\ b.st[s] = Blank
      /\ Len(b.st) \in Nat /\ d \in 0 .. Len(b.st) /\ w = At(b, s)
      /\ n \in Nat /\ n >= 1 /\ \A k \in 1 .. n : vals[k] \in Seq(Byte)
  BY FreshFacts, EmptySeq, LenProperties
<1>3. /\ o = Len(b.st) + 1 /\ Ok(body.b, d, (open \ {s}) \cup {o})
      /\ Edits(b, body.b, s) /\ Len(body.b.st) = Len(b.st) + 1 /\ body.b.st[o] = Blank
  <2>1. b.st[s].toks = <<>> /\ Quote \in Delims
    BY <1>2, BlankFacts DEF Delims
  <2>2. LET m == Len(b.st) + 1  u == Tok(At(b, s), Quote)
        IN  /\ u.at = m /\ Ok(u.b, d, (open \ {s}) \cup {m})
            /\ Links(b, u.b, s, WithTok(b.st[s], Quote, m))
    BY <1>2, <2>1, LinkTokOk
  <2>3. body = Tok(At(b, s), Quote)
    BY <1>2
  <2> HIDE DEF body
  <2> QED BY <2>2, <2>3 DEF Links
<1> HIDE DEF body, o
<1>4. closed = o + 1 /\ Ok(Add(body.b), d, L \cup {o}) /\ Spread(b, d, s, o, Add(body.b))
  <2> DEFINE a == Add(body.b)
  <2>1. /\ Ok(a, d, ((open \ {s}) \cup {o}) \cup {closed}) /\ closed = Len(body.b.st) + 1
        /\ Len(a.st) = Len(body.b.st) + 1 /\ a.st[closed] = Blank
        /\ \A x \in 1 .. Len(body.b.st) : a.st[x] = body.b.st[x]
    BY <1>3, AddOk
  <2> HIDE DEF a
  <2>2. closed = o + 1 /\ Len(a.st) = o + 1
    BY <1>2, <1>3, <2>1
  <2>3. Ok(a, d, L \cup {o})
    BY <2>1, OkMore, ((open \ {s}) \cup {o}) \cup {closed} \subseteq L \cup {o}
  <2>4. Edits(b, a, s)
    BY <1>2, <1>3, <2>1, SMTT(30) DEF Edits
  <2>5. Region(o, a) = {o} /\ a.st[o].lits = <<>>
    <3>1. o \in Nat /\ o \in 1 .. Len(body.b.st) /\ o + 2 .. o + 1 = {}
      BY <1>2, <1>3, SMTT(30)
    <3>2. a.st[o] = Blank
      BY <3>1, <1>3, <2>1
    <3> QED BY <3>1, <3>2, <2>2, BlankFacts DEF Region
  <2>6. o + 1 \in 1 .. Len(a.st) /\ a.st[o + 1] = Blank
    BY <1>2, <1>3, <2>1, <2>2
  <2>7. Spread(b, d, s, o, a)
    BY <1>2, <1>3, <2>4, <2>5, <2>6 DEF Spread
  <2> QED BY <2>2, <2>3, <2>7 DEF a
<1> HIDE DEF closed, L
<1> DEFINE Good(v, k) == Spread(b, d, s, o, v) /\ Ok(v, d, IF k = 0 THEN L \cup {o} ELSE L)
           P == [k \in 0 .. n |-> IF k = 0 THEN {v \in Builder : Good(v, 0)} ELSE {v \in Builder : Good(v, 1)}]
           next(v, k) == NextMember(v, o, vals, k)
<1>5. /\ \A v : v \in P[0] <=> v \in Builder /\ Spread(b, d, s, o, v) /\ Ok(v, d, L \cup {o})
      /\ \A k \in 1 .. n : \A v : v \in P[k] <=> v \in Builder /\ Spread(b, d, s, o, v) /\ Ok(v, d, L)
  BY <1>2
<1>6. ASSUME NEW k \in 1 .. n, NEW v \in P[k - 1] PROVE next(v, k) \in P[k]
  <2>1. v \in Builder /\ Spread(b, d, s, o, v) /\ Ok(v, d, IF k = 1 THEN L \cup {o} ELSE L)
    <3> HIDE DEF P
    <3>1. CASE k = 1
      <4>1. v \in P[0]
        BY <1>6, <3>1
      <4> QED BY <1>5, <3>1, <4>1
    <3>2. CASE k # 1
      <4>1. k - 1 \in 1 .. n
        BY <1>2, <3>2
      <4> QED BY <1>5, <1>6, <3>2, <4>1
    <3> QED BY <3>1, <3>2
  <2>2. SUFFICES next(v, k) \in Builder /\ Spread(b, d, s, o, next(v, k)) /\ Ok(next(v, k), d, L)
    <3> HIDE DEF next, P
    <3> QED BY <1>5
  <2> DEFINE seen == \E j \in 1 .. k - 1 : vals[j] = vals[k]
  <2>3. CASE seen
    <3>1. k # 1
      BY <2>3
    <3>2. Ok(v, d, L)
      BY <3>1, <2>1, <1>2
    <3>3. next(v, k) = v
      BY <2>3 DEF NextMember
    <3> HIDE DEF next
    <3> QED BY <2>1, <3>2, <3>3
  <2>4. CASE ~seen
    <3>1. next(v, k) = MemberTo(v, o, vals[k])
      BY <2>4 DEF NextMember
    <3>2. Ok(v, d, L \cup {o})
      BY <2>1, OkMore, L \subseteq L \cup {o}, L \cup {o} \subseteq L \cup {o}
    <3> HIDE DEF next, seen
    <3>3. Spread(b, d, s, o, next(v, k)) /\ Ok(next(v, k), d, L)
      BY <3>1, <3>2, <2>1, <1>2, MemberOk
    <3> QED BY <3>3, OkFacts
  <2> QED BY <2>3, <2>4
<1> HIDE DEF P
<1>7. PICK a \in P[n] : EnumTo(w, vals, exitOn, to) = LitTo(At(a, closed), <<exitOn>>, to)
  <2>1. Add(body.b) \in P[0]
    <3>1. Add(body.b) \in Builder
      BY <1>4, OkFacts
    <3> QED BY <1>4, <1>5, <3>1
  <2>2. EnumRun(w, vals, exitOn, to, P[Len(vals)])
    <3>1. Len(vals) \in Nat /\ o = Tok(w, Quote).at /\ NewIn(Tok(w, Quote).b) = o + 1
          /\ Add(Tok(w, Quote).b) \in P[0]
      BY <1>2, <1>4, <2>1 DEF o, closed, body
    <3> QED BY <3>1, <1>6, EnumRuns
  <2> QED BY <2>2 DEF EnumRun, closed, body
<1>11. Spread(b, d, s, o, a) /\ Ok(a, d, L)
  <2>1. n \in 1 .. n
    BY <1>2
  <2> HIDE DEF n
  <2> QED BY <1>5, <1>7, <2>1
<1> DEFINE r == LitTo(At(a, closed), <<exitOn>>, to)
<1>12. Filled(a, d, L, closed, r)
  <2>1. /\ Ok(a, d, L) /\ closed \in 1 .. Len(a.st) /\ closed # d /\ a.st[closed] = Blank
        /\ to \in 1 .. Len(a.st)
    <3>1. /\ Len(a.st) \in Nat /\ Len(b.st) <= Len(a.st) /\ closed \in 1 .. Len(a.st)
          /\ a.st[closed] = Blank
      BY <1>4, <1>11, OkFacts DEF Spread, Edits
    <3>2. Ok(a, d, L)
      BY <1>11
    <3>3. closed # d /\ to \in 1 .. Len(a.st)
      BY <1>2, <1>3, <1>4, <3>1, SMTT(30)
    <3> QED BY <3>1, <3>2, <3>3
  <2>2. Fresh(a, d, L, closed) /\ <<exitOn>> \in Seq(Byte) \ {<<>>}
    BY <2>1, Singles DEF Fresh
  <2>3. IsNew(a, d, L, closed, <<exitOn>>)
    BY <2>2, FreshFacts
  <2>4. LET u == LitTo(At(a, closed), <<exitOn>>, to)
        IN  Ok(u, d, L \ {closed}) /\ Closed(a, u, closed, <<exitOn>>[1])
    BY <2>1, <2>3, LitToOk
  <2> QED BY <2>4 DEF Filled, Closed
<1> HIDE DEF r
<1>13. Filled(b, d, open, s, r)
  <2>1. Len(r.st) \in Nat /\ Len(a.st) \in Nat /\ Edits(b, a, s) /\ closed > Len(b.st) /\ closed \in Nat
    <3>1. Len(r.st) \in Nat
      BY <1>12, OkFacts DEF Filled
    <3>2. Len(a.st) \in Nat /\ Edits(b, a, s)
      BY <1>11, OkFacts DEF Spread
    <3> QED BY <1>2, <1>3, <1>4, <3>1, <3>2, SMTT(30)
  <2>2. L \ {closed} \subseteq open \ {s}
    BY DEF L
  <2> QED BY <1>2, <1>12, <2>1, <2>2, FilledTwice
<1> QED BY <1>7, <1>13 DEF r

-----------------------------------------------------------------------------
(* What enums mean: a tree of members, each ended by a quote *)

\* One of the words V, the symbol e, and then what Z says of the word.
Choice(e, V, Z) == {w \in Text : \E v \in V : \E z \in Z[v] : w = v \odot (<<e>> \odot z)}
\* How a tree reads that.
Chosen(e, V, Z, X) ==
  /\ X \subseteq Text
  /\ \A w \in X : \E v \in V, z \in Text : w = v \odot (<<e>> \odot z)
  /\ \A v \in V : v \in Text /\ After(X, v \odot <<e>>) = Z[v] /\ After(X, v) # {}

LEMMA OnlyEnd ==
  ASSUME NEW e \in Symbol, NEW v \in Text, NEW t \in Text
  PROVE  (v \odot <<e>>) \odot t \notin Seq(Symbol \ {e})
<1> DEFINE p == v \odot <<e>>  w == p \odot t  n == Len(v) + 1
<1>1. <<e>> \in Text /\ Len(v) \in Nat
  BY TextFacts
<1>2. p \in Text /\ p[n] = e /\ Len(p) = n
  <2>1. v \in Seq(Symbol) /\ p = Append(v, e)
    BY AppendIsConcat DEF \odot, Text
  <2>2. Append(v, e)[n] = e /\ Len(Append(v, e)) = n
    BY <2>1
  <2>3. p \in Text
    BY <1>1, TextFacts
  <2> QED BY <2>1, <2>2, <2>3
<1> HIDE DEF p
<1>3. w[n] = e /\ n \in 1 .. Len(w)
  <2>1. /\ Len(w) = Len(p) + Len(t) /\ Len(t) \in Nat
        /\ \A i \in 1 .. Len(p) + Len(t) : w[i] = IF i <= Len(p) THEN p[i] ELSE t[i - Len(p)]
    BY <1>2, ConcatProperties, LenProperties DEF Text, \odot
  <2> HIDE DEF w
  <2> QED BY <1>1, <1>2, <2>1
<1> HIDE DEF w, n
<1>4. w \notin Seq(Symbol \ {e})
  BY <1>3
<1> QED BY <1>4 DEF w, p

LEMMA ChoiceIs ==
  ASSUME NEW e \in Symbol, NEW V, V \subseteq Seq(Symbol \ {e}),
         NEW Z, \A v \in V : Z[v] \subseteq Text /\ Z[v] # {}
  PROVE  Chosen(e, V, Z, Choice(e, V, Z))
<1> DEFINE X == Choice(e, V, Z)
<1>2. \A v \in V : v \in Text /\ v \in Seq(Symbol \ {e})
  <2>1. Symbol \ {e} \subseteq Symbol
    OBVIOUS
  <2> QED BY <2>1, SeqMonotonic DEF Text
<1>3. <<e>> \in Text /\ \A z \in Text : <<e>> \odot z \in Text
  <2>1. <<e>> \in Text
    BY TextFacts
  <2> HIDE DEF X
  <2> QED BY <2>1, TextFacts
<1>1. /\ \A w \in X : \E v \in V : \E z \in Z[v] : w = v \odot (<<e>> \odot z)
      /\ \A v \in V : \A z \in Z[v] : v \odot (<<e>> \odot z) \in X
  <2>1. \A v \in V : \A z \in Z[v] : v \odot (<<e>> \odot z) \in Text
    BY <1>2, <1>3, TextFacts
  <2> QED BY <2>1 DEF Choice
<1> HIDE DEF X
<1>4. X \subseteq Text
  BY DEF Choice, X
<1>5. ASSUME NEW v \in V PROVE After(X, v \odot <<e>>) = Z[v]
  <2>1. ASSUME NEW u \in Z[v] PROVE u \in After(X, v \odot <<e>>)
    <3>1. v \odot (<<e>> \odot u) \in X /\ u \in Text
      BY <1>1, <2>1
    <3>2. (v \odot <<e>>) \odot u = v \odot (<<e>> \odot u)
      BY <3>1, <1>2, <1>3, Assoc
    <3> QED BY <3>1, <3>2 DEF After
  <2>2. ASSUME NEW u \in After(X, v \odot <<e>>) PROVE u \in Z[v]
    <3>1. u \in Text /\ (v \odot <<e>>) \odot u \in X
      BY <2>2 DEF After
    <3>2. PICK a \in V : \E z \in Z[a] : (v \odot <<e>>) \odot u = a \odot (<<e>> \odot z)
      BY <3>1, <1>1
    <3>3. PICK z \in Z[a] : (v \odot <<e>>) \odot u = a \odot (<<e>> \odot z)
      BY <3>2
    <3>4. z \in Text /\ a \odot (<<e>> \odot z) = v \odot (<<e>> \odot u)
      BY <3>1, <3>3, <1>2, <1>3, Assoc
    <3>5. (e = e /\ a = v) \/ \E t \in Text : a = (v \odot <<e>>) \odot t
      BY <3>1, <3>4, <1>2, SplitOnce
    <3>6. \A t \in Text : a # (v \odot <<e>>) \odot t
      BY <1>2, OnlyEnd
    <3>7. a = v
      BY <3>5, <3>6
    <3>8. <<e>> \odot z = <<e>> \odot u
      <4> DEFINE ez == <<e>> \odot z  eu == <<e>> \odot u
      <4>1. ez \in Text /\ eu \in Text /\ v \odot ez = v \odot eu
        BY <3>1, <3>4, <3>7, <1>3
      <4> HIDE DEF ez, eu
      <4>2. ez = eu
        BY <4>1, <1>2, Cancel
      <4> QED BY <4>2 DEF ez, eu
    <3>9. z = u
      BY <3>1, <3>4, <3>8, <1>3, Cancel
    <3> QED BY <3>7, <3>9
  <2> QED BY <2>1, <2>2
<1>6. ASSUME NEW v \in V PROVE After(X, v) # {}
  <2>1. PICK z \in Z[v] : TRUE
    OBVIOUS
  <2>2. <<e>> \odot z \in After(X, v)
    BY <2>1, <1>1, <1>3 DEF After
  <2> QED BY <2>2
<1>7. \A w \in X : \E v \in V, z \in Text : w = v \odot (<<e>> \odot z)
  BY <1>1
<1> QED BY <1>2, <1>4, <1>5, <1>6, <1>7 DEF X, Chosen

\* A member that was not there before.
LEMMA MemberMeans ==
  ASSUME NEW b, NEW d, NEW R, NEW o, NEW base, NEW W, NEW r,
         OnTree(b, d, R, o, base, Quotes, W, At(r, o), <<>>), NEW word \in Seq(Byte), word \notin W,
         After(R[o], word) # {}, o + 1 \in 1 .. Len(b.st),
         R[o + 1] = After(R[o], word \odot <<Quotes>>)
  PROVE  OnTree(b, d, R, o, base, Quotes, W \cup {word}, At(MemberTo(r, o, word), o), <<>>)
<1> DEFINE v == Lit(At(r, o), word)  a == v.b  y == v.at  to == o + 1
           u == TokTo(a, y, Quote, to)
<1>1. Quotes \in Marks /\ TokOf(Quotes) = Quote /\ Quote \in Delims /\ Byte \ {Quotes} = Byte
  BY MarkFacts DEF Delims
<1>2. OnTree(b, d, R, o, base, Quotes, W, v, word)
  <2>1. word \in Seq(Byte \ {Quotes})
    BY <1>1
  <2> QED BY <2>1, TreeWord
<1>3. PICK T, N, lab : Tree(b, d, R, o, base, Quotes, W, a, T, N, lab) /\ y \in N /\ lab[y] = word
  BY <1>2 DEF OnTree
<1> HIDE DEF v, a, y, to
<1>4. /\ Work(b, d, R, o, a, T, base \cup N) /\ Own(b, o, a, y) /\ a.st[y] \in Row /\ a.st[y].class = NoClass
      /\ Len(a.st) \in Nat
  <2>1. TreeState(b, d, R, o, base, Quotes, W, a, T, N, lab, y)
    BY <1>3, TreeFacts
  <2> QED BY <2>1 DEF TreeState
<1>5. T[to] = R[to] /\ to \in 1 .. Len(a.st)
  <2>1. \A x \in 1 .. Len(b.st) : T[x] = R[x] /\ x \in 1 .. Len(a.st)
    BY <1>4, SameIs
  <2> QED BY <2>1 DEF to
<1>6. Work(b, d, R, o, u, T, base \cup N) /\ Sets(a, u, y, WithTok(a.st[y], Quote, to))
  <2>1. y \in base \cup N
    BY <1>3
  <2> QED BY <2>1, <1>1, <1>4, <1>5, WorkTok
<1> HIDE DEF u
<1>7. /\ \A k : Goes(u.st[y], y, k) = IF k = Quotes THEN to ELSE Goes(a.st[y], y, k)
      /\ u.st[y].class = NoClass
  <2>1. to \in Index
    BY <1>4, <1>5 DEF Index
  <2>2. /\ \A s, k : Goes(WithTok(a.st[y], TokOf(Quotes), to), s, k)
                       = IF k = Quotes THEN to ELSE Goes(a.st[y], s, k)
        /\ WithTok(a.st[y], TokOf(Quotes), to).class = a.st[y].class
    BY <2>1, <1>1, <1>4, GoesTok
  <2>3. u.st[y] = WithTok(a.st[y], TokOf(Quotes), to)
    BY <1>1, <1>6 DEF Sets
  <2> QED BY <2>2, <2>3, <1>4
<1>8. Tree(b, d, R, o, base, Quotes, W \cup {lab[y]}, u, T, N, lab)
  <2>1. Edits(a, u, y) /\ Same(a, T, T) /\ lab[y] \notin W
    BY <1>3, <1>6 DEF Sets, Same
  <2>2. T[to] = After(R[o], lab[y] \odot <<Quotes>>)
    BY <1>3, <1>5 DEF to
  <2> QED BY <2>1, <2>2, <1>3, <1>6, <1>7, TreeEnd
<1>9. OnTree(b, d, R, o, base, Quotes, W \cup {word}, At(u, o), <<>>)
  <2>1. o \in N /\ lab[o] = <<>>
    BY <1>8 DEF Tree
  <2>2. At(u, o).b = u /\ At(u, o).at = o
    BY DEF At
  <2> QED BY <2>1, <2>2, <1>3, <1>8 DEF OnTree
<1> QED BY <1>9 DEF MemberTo, u, a, y, v, to

\* The first k members are spelled.
Upto(vals, k) == {vals[j] : j \in 1 .. k}

LEMMA UptoIs ==
  ASSUME NEW vals \in Seq(Seq(Byte))
  PROVE  /\ Len(vals) \in Nat /\ Upto(vals, Len(vals)) = Range(vals) /\ Upto(vals, 0) = {}
         /\ \A k \in 1 .. Len(vals) :
              /\ Upto(vals, k) = Upto(vals, k - 1) \cup {vals[k]} /\ vals[k] \in Seq(Byte) \cap Range(vals)
              /\ vals[k] \in Upto(vals, k - 1) <=> \E j \in 1 .. k - 1 : vals[j] = vals[k]
<1> DEFINE n == Len(vals)
<1>1. DOMAIN vals = 1 .. n /\ n \in Nat
  OBVIOUS
<1> HIDE DEF n
<1>2. Upto(vals, n) = Range(vals) /\ Upto(vals, 0) = {}
  BY <1>1 DEF Range, Upto
<1>3. ASSUME NEW k \in 1 .. n
      PROVE  /\ Upto(vals, k) = Upto(vals, k - 1) \cup {vals[k]} /\ vals[k] \in Seq(Byte) \cap Range(vals)
             /\ vals[k] \in Upto(vals, k - 1) <=> \E j \in 1 .. k - 1 : vals[j] = vals[k]
  <2>1. 1 .. k = (1 .. k - 1) \cup {k}
    BY <1>1
  <2>2. vals[k] \in Seq(Byte) \cap Range(vals)
    BY <1>1 DEF Range
  <2>3. Upto(vals, k) = Upto(vals, k - 1) \cup {vals[k]}
    BY <2>1 DEF Upto
  <2>4. vals[k] \in Upto(vals, k - 1) <=> \E j \in 1 .. k - 1 : vals[j] = vals[k]
    BY DEF Upto
  <2> QED BY <2>2, <2>3, <2>4
<1> QED BY <1>1, <1>2, <1>3 DEF n

\* A builder with the first k members.
Members(b, d, R, o, base, vals, k, v) == OnTree(b, d, R, o, base, Quotes, Upto(vals, k), At(v, o), <<>>)

LEMMA MembersStep ==
  ASSUME NEW b, NEW d, NEW R, NEW o, NEW base, NEW vals \in Seq(Seq(Byte)), NEW k \in 1 .. Len(vals), NEW v,
         Members(b, d, R, o, base, vals, k - 1, v), o + 1 \in 1 .. Len(b.st),
         \A a \in Range(vals) : After(R[o], a) # {} /\ R[o + 1] = After(R[o], a \odot <<Quotes>>)
  PROVE  Members(b, d, R, o, base, vals, k, NextMember(v, o, vals, k))
<1> DEFINE a == vals[k]
<1>1. /\ Upto(vals, k) = Upto(vals, k - 1) \cup {a} /\ a \in Seq(Byte) /\ a \in Range(vals)
      /\ a \in Upto(vals, k - 1) <=> \E j \in 1 .. k - 1 : vals[j] = a
  BY UptoIs
<1>2. NextMember(v, o, vals, k) = IF a \in Upto(vals, k - 1) THEN v ELSE MemberTo(v, o, a)
  BY <1>1 DEF NextMember
<1> HIDE DEF a
<1>3. CASE a \in Upto(vals, k - 1)
  <2>1. Upto(vals, k) = Upto(vals, k - 1)
    BY <1>1, <1>3
  <2> QED BY <2>1, <1>2, <1>3 DEF Members
<1>4. CASE a \notin Upto(vals, k - 1)
  <2>1. OnTree(b, d, R, o, base, Quotes, Upto(vals, k - 1) \cup {a}, At(MemberTo(v, o, a), o), <<>>)
    <3>1. OnTree(b, d, R, o, base, Quotes, Upto(vals, k - 1), At(v, o), <<>>)
      BY DEF Members
    <3>2. After(R[o], a) # {} /\ R[o + 1] = After(R[o], a \odot <<Quotes>>)
      BY <1>1
    <3> QED BY <1>1, <1>4, <3>1, <3>2, MemberMeans
  <2> QED BY <2>1, <1>1, <1>2, <1>4 DEF Members
<1> QED BY <1>3, <1>4

\* An enum: a quoted member and then Y.
EnumLang(vals, Y) == Before({Quotes}, Then(Range(vals), Before({Quotes}, Y)))

LEMMA EnumLangFacts ==
  ASSUME NEW vals \in Seq(Seq(Byte)), vals # <<>>, NEW Y, Y \subseteq Text, Y # {}
  PROVE  LET Q == Before({Quotes}, Y)
             X == Then(Range(vals), Q)
         IN  /\ X \subseteq Text /\ X # {}
             /\ \A w \in X : \E v \in Range(vals), z \in Text : w = v \odot (<<Quotes>> \odot z)
             /\ \A v \in Range(vals) : After(X, v \odot <<Quotes>>) = Y /\ After(X, v) # {}
<1> DEFINE V == Range(vals)  Q == Before({Quotes}, Y)  X == Then(V, Q)  Z == [v \in V |-> Y]
<1>1. Quotes \in Symbol /\ Byte \subseteq Symbol \ {Quotes}
  BY MarkFacts
<1>2. V \subseteq Seq(Symbol \ {Quotes}) /\ V # {}
  <2>1. DOMAIN vals = 1 .. Len(vals) /\ Len(vals) \in Nat /\ Len(vals) # 0
    BY EmptySeq
  <2>2. \A i \in DOMAIN vals : vals[i] \in Seq(Byte)
    OBVIOUS
  <2>3. Seq(Byte) \subseteq Seq(Symbol \ {Quotes})
    BY <1>1, SeqMonotonic
  <2>4. 1 \in DOMAIN vals
    BY <2>1
  <2> QED BY <2>2, <2>3, <2>4 DEF Range
<1> HIDE DEF V
<1>3. \A v \in V : Z[v] = Y
  OBVIOUS
<1> HIDE DEF Z
<1>4. Chosen(Quotes, V, Z, Choice(Quotes, V, Z))
  <2>1. \A v \in V : Z[v] \subseteq Text /\ Z[v] # {}
    BY <1>3
  <2> QED BY <1>1, <1>2, <2>1, ChoiceIs
<1>5. Choice(Quotes, V, Z) = X
  <2>0. \A q : q \in Q <=> \E z \in Y : q = <<Quotes>> \odot z
    BY DEF Before
  <2>1. ASSUME NEW w \in Choice(Quotes, V, Z) PROVE w \in X
    <3>1. PICK v \in V : \E z \in Z[v] : w = v \odot (<<Quotes>> \odot z)
      BY DEF Choice
    <3>2. PICK z \in Y : w = v \odot (<<Quotes>> \odot z)
      BY <3>1, <1>3
    <3>3. <<Quotes>> \odot z \in Q
      BY <2>0
    <3> HIDE DEF Q
    <3> QED BY <3>2, <3>3, ThenIn
  <2>2. ASSUME NEW w \in X PROVE w \in Choice(Quotes, V, Z)
    <3> HIDE DEF Q
    <3>1. PICK v \in V, q \in Q : w = v \odot q
      BY ThenIn
    <3>2. PICK z \in Y : q = <<Quotes>> \odot z
      BY <2>0
    <3>3. v \in Text /\ z \in Text /\ <<Quotes>> \in Text
      BY <1>1, <1>4, TextFacts DEF Chosen
    <3>4. w = v \odot (<<Quotes>> \odot z) /\ z \in Z[v]
      BY <3>1, <3>2, <1>3
    <3>5. w \in Text
      BY <3>3, <3>4, TextFacts
    <3> QED BY <3>4, <3>5 DEF Choice
  <2> HIDE DEF X
  <2> QED BY <2>1, <2>2
<1> HIDE DEF X
<1>6. X # {}
  <2>1. PICK v \in V : TRUE
    BY <1>2
  <2>2. After(X, v) # {}
    BY <2>1, <1>4, <1>5 DEF Chosen
  <2> QED BY <2>2 DEF After
<1>7. Chosen(Quotes, V, Z, X)
  BY <1>4, <1>5
<1> QED BY <1>3, <1>6, <1>7 DEF V, X, Chosen

LEMMA EnumMeans ==
  ASSUME NEW b, NEW d, NEW R, NEW open, NEW s, Ready(b, d, R, open, s), NEW to \in 1 .. Len(b.st),
         NEW exitOn \in Byte, NEW vals \in Seq(Seq(Byte)), vals # <<>>,
         R[s] = EnumLang(vals, Before({exitOn}, R[to]))
  PROVE  Valued(b, d, R, open, s, EnumTo(At(b, s), vals, exitOn, to))
<1> DEFINE w == At(b, s)  body == Tok(w, Quote)  o == Len(b.st) + 1  c == o + 1  a == Add(body.b)
           E == Before({exitOn}, R[to])  Q == Before({Quotes}, E)  X == Then(Range(vals), Q)
           V == Range(vals)  n == Len(vals)
           open1 == (open \cup {o}) \ {s}
           base == (open1 \cup {c}) \ {o}
<1>1. /\ s \in 1 .. Len(b.st) /\ s # d /\ s \in open /\ b.st[s] = Blank
      /\ Len(b.st) \in Nat /\ R \in Lang /\ Work(b, d, R, s, b, R, open) /\ Own(b, s, b, s)
      /\ R[to] \subseteq Text /\ R[to] # {}
  BY ReadyFacts
<1>2. Quotes \in Marks /\ TokOf(Quotes) = Quote /\ Quote \in Delims /\ Quotes \in Symbol /\ exitOn \in Symbol
  BY MarkFacts DEF Delims
<1>3. E \subseteq Text /\ E # {}
  BY <1>1, <1>2, BeforeType
<1> HIDE DEF E
<1>4. /\ X \subseteq Text /\ X # {}
      /\ \A x \in X : \E v \in V, z \in Text : x = v \odot (<<Quotes>> \odot z)
      /\ \A v \in V : After(X, v \odot <<Quotes>>) = E /\ After(X, v) # {}
  BY <1>3, EnumLangFacts
<1>5. R[s] = Before({Quotes}, X)
  BY DEF EnumLang, E
<1> HIDE DEF X, Q, V
\* The opening quote.
<1>6. body.at = o /\ MayLink(b, d, R, s, b, R, open, s, WithTok(b.st[s], Quote, o), X, body.b)
  <2>1. b.st[s].toks = <<>>
    BY <1>1, BlankFacts
  <2> QED BY <2>1, <1>1, <1>2, <1>4, LinkTok
<1>7. PICK U : Linked(b, d, R, s, b, R, open, s, WithTok(b.st[s], Quote, o), X, body.b, U)
  BY <1>6 DEF MayLink
<1> HIDE DEF body, a, w
<1>8. /\ Work(b, d, R, s, body.b, U, open \cup {o}) /\ Len(body.b.st) = o /\ body.b.st[o] = Blank
      /\ U[o] = X /\ U[s] = R[s] /\ U[to] = R[to] /\ body.b.st[s] = WithTok(Blank, Quote, o) /\ U \in Lang
  <2>1. Work(b, d, R, s, body.b, U, open \cup {o})
    BY <1>7 DEF Linked
  <2>2. U \in Lang
    BY <2>1, WorkFacts
  <2> QED BY <2>1, <2>2, <1>1, <1>7 DEF Linked, Same
<1>9. Work(b, d, R, s, body.b, U, open1)
  <2>1. Reads(body.b.st[s], s, U, U[s])
    <3>1. o \in Index
      BY <1>1 DEF Index
    <3>2. Reads(WithTok(Blank, TokOf(Quotes), o), s, U, Before({Quotes}, U[o]))
      BY <1>2, <1>8, <3>1, ReadsOneTok
    <3> QED BY <3>2, <1>2, <1>5, <1>8
  <2> QED BY <2>1, <1>8, WorkClose
<1> HIDE DEF open1
\* The state after the closing quote.
<1>10. PICK S : Work(b, d, R, s, a, S, open1 \cup {NewIn(body.b)}) /\ Added(body.b, U, E, a, S)
  BY <1>3, <1>9, WorkAdd DEF a
<1>11. /\ Work(b, d, R, s, a, S, open1 \cup {c}) /\ Len(a.st) = c /\ NewIn(body.b) = c
       /\ a.st[c] = Blank /\ a.st[o] = Blank /\ a.st[s] = WithTok(Blank, Quote, o)
       /\ S[c] = E /\ S[o] = X /\ S[to] = R[to] /\ S \in Lang
  <2>1. NewIn(body.b) = c /\ Len(a.st) = c /\ a.st[c] = Blank /\ S[c] = E
    BY <1>1, <1>8, <1>10 DEF Added
  <2>2. /\ \A x \in 1 .. o : a.st[x] = body.b.st[x] /\ S[x] = U[x]
    <3>1. Len(body.b.st) = o /\ o \in Nat
      BY <1>1, <1>8
    <3> HIDE DEF o
    <3>2. \A x \in 1 .. Len(body.b.st) : a.st[x] = body.b.st[x]
      BY <1>10 DEF Added
    <3>3. \A x \in 1 .. o : x \in 0 .. o
      BY <3>1
    <3>4. \A x \in 0 .. Len(body.b.st) : S[x] = U[x]
      BY <1>10 DEF Added, Same
    <3> QED BY <3>1, <3>2, <3>3, <3>4
  <2>3. S \in Lang
    BY <1>10, WorkFacts
  <2>4. s \in 1 .. o /\ to \in 1 .. o /\ o \in 1 .. o
    BY <1>1
  <2> QED BY <2>1, <2>2, <2>3, <2>4, <1>8, <1>10
\* The members.
<1>12. Members(a, d, S, o, base, vals, 0, a) /\ Own(b, s, a, o) /\ o \in 1 .. Len(a.st) /\ o # d
  <2>1. Own(b, s, a, o) /\ o \in 1 .. Len(a.st)
    BY <1>1, <1>11 DEF Own
  <2>2. o # d
    BY <2>1, <1>11, WorkFacts
  <2>3. Ready(a, d, S, open1 \cup {c}, o)
    <3>1. Fit(a, d, S, open1 \cup {c})
      BY <1>11, WorkFacts
    <3>2. o \in open1
      BY <1>1 DEF open1
    <3> QED BY <2>1, <2>2, <3>1, <3>2, <1>11 DEF Ready
  <2>4. PICK T, N, lab : Tree(a, d, S, o, base, Quotes, {}, a, T, N, lab)
    <3>1. open1 \cup {c} \subseteq base \cup {o}
      OBVIOUS
    <3> HIDE DEF base
    <3> QED BY <2>3, <3>1, <1>2, TreeStart
  <2>5. o \in N /\ lab[o] = <<>>
    BY <2>4 DEF Tree
  <2>6. At(a, o).b = a /\ At(a, o).at = o /\ Upto(vals, 0) = {}
    BY UptoIs DEF At
  <2> HIDE DEF base, o
  <2>7. OnTree(a, d, S, o, base, Quotes, {}, At(a, o), <<>>)
    BY <2>4, <2>5, <2>6 DEF OnTree
  <2> QED BY <2>1, <2>2, <2>6, <2>7 DEF Members
<1> HIDE DEF base
<1> DEFINE P == [k \in 0 .. n |-> {v \in Builder : Members(a, d, S, o, base, vals, k, v)}]
<1>13. ASSUME NEW k, NEW v, Members(a, d, S, o, base, vals, k, v) PROVE v \in Builder
  <2>1. OnTree(a, d, S, o, base, Quotes, Upto(vals, k), At(v, o), <<>>) /\ At(v, o).b = v
    BY <1>13 DEF Members, At
  <2>2. \A x, y : OnTree(a, d, S, o, base, Quotes, Upto(vals, k), x, y) => x \in Cursor
    BY OnTreeFacts
  <2>3. At(v, o) \in Cursor
    BY <2>1, <2>2
  <2> QED BY <2>1, <2>3 DEF Cursor
<1>14. ASSUME NEW k \in 1 .. n, NEW v \in P[k - 1] PROVE NextMember(v, o, vals, k) \in P[k]
  <2>1. n \in Nat
    BY UptoIs
  <2>2. k - 1 \in 0 .. n /\ k \in 0 .. n
    BY <2>1
  <2>3. Members(a, d, S, o, base, vals, k - 1, v)
    BY <1>14, <2>2
  <2>4. Members(a, d, S, o, base, vals, k, NextMember(v, o, vals, k))
    <3>1. o + 1 \in 1 .. Len(a.st) /\ S[o + 1] = E /\ S[o] = X
      BY <1>1, <1>11
    <3>2. \A x \in V : After(S[o], x) # {} /\ S[o + 1] = After(S[o], x \odot <<Quotes>>)
      BY <3>1, <1>4
    <3> HIDE DEF o, n, P
    <3> QED BY <2>3, <3>1, <3>2, MembersStep DEF n, V
  <2> HIDE DEF n
  <2> QED BY <2>2, <2>4, <1>13
<1>15. PICK r \in P[n] : EnumTo(w, vals, exitOn, to) = LitTo(At(r, c), <<exitOn>>, to)
  <2>1. n \in Nat /\ o = Tok(w, Quote).at /\ NewIn(Tok(w, Quote).b) = o + 1
    BY <1>6, <1>11, UptoIs DEF body
  <2>2. Add(Tok(w, Quote).b) \in P[0]
    <3>1. a \in P[0]
      BY <2>1, <1>12, <1>13
    <3> QED BY <3>1 DEF a, body
  <2> HIDE DEF P, o
  <2>3. EnumRun(w, vals, exitOn, to, P[Len(vals)])
    BY <2>1, <2>2, <1>14, EnumRuns
  <2> QED BY <2>1, <2>3 DEF EnumRun, body
<1> HIDE DEF P
<1>16. PICK T : Work(a, d, S, o, r, T, base)
  <2>1. Members(a, d, S, o, base, vals, n, r) /\ Upto(vals, n) = V
    <3>1. n \in Nat /\ Upto(vals, n) = V
      BY UptoIs DEF V
    <3> HIDE DEF n
    <3> QED BY <3>1, <1>15 DEF P
  <2>2. At(r, o).b = r
    BY DEF At
  <2>3. OnTree(a, d, S, o, base, Quotes, V, At(r, o), <<>>)
    BY <2>1 DEF Members
  <2>4. PICK T, N, lab : Tree(a, d, S, o, base, Quotes, V, r, T, N, lab)
    <3> HIDE DEF o
    <3> QED BY <2>2, <2>3 DEF OnTree
  <2>5. Work(a, d, S, o, r, T, (base \cup N) \ N)
    <3>1. \A x \in S[o] : \E v \in V, z \in Text : x = v \odot (<<Quotes>> \odot z)
      BY <1>4, <1>11
    <3> QED BY <2>4, <3>1, TreeExact
  <2>6. Fit(r, d, T, (base \cup N) \ N)
    BY <2>5, WorkFacts
  <2>7. Fit(r, d, T, base)
    BY <2>6, (base \cup N) \ N \subseteq base, FitMore
  <2> QED BY <2>5, <2>7 DEF Work
\* What ends it.
<1>17. /\ Work(b, d, R, s, r, T, base) /\ Len(r.st) \in Nat /\ Len(a.st) <= Len(r.st) /\ r.st[c] = Blank
       /\ T[c] = E /\ T[to] = R[to] /\ r.st[s] = WithTok(Blank, Quote, o) /\ T \in Lang
  <2>1. Work(b, d, R, s, r, T, base)
    <3> HIDE DEF o, c
    <3> QED BY <1>11, <1>12, <1>16, WorkTwice
  <2>2. Len(r.st) \in Nat /\ Len(a.st) <= Len(r.st) /\ T \in Lang
    BY <1>16, WorkFacts
  <2>3. \A x \in 1 .. Len(a.st) : T[x] = S[x] /\ (x = o \/ r.st[x] = a.st[x])
    <3>1. Edits(a, r, o)
      BY <1>16 DEF Work
    <3>2. \A x \in 1 .. Len(a.st) : T[x] = S[x] /\ x \in 1 .. Len(r.st)
      <4> HIDE DEF o
      <4> QED BY <1>16, SameIs
    <3> QED BY <3>1, <3>2 DEF Edits
  <2>4. c \in 1 .. Len(a.st) /\ c # o /\ s \in 1 .. Len(a.st) /\ s # o /\ to \in 1 .. Len(a.st)
    BY <1>1, <1>11
  <2> QED BY <2>1, <2>2, <2>3, <2>4, <1>11
<1> DEFINE u == LitTo(At(r, c), <<exitOn>>, to)
<1>18. Valued(r, d, T, base, c, u)
  <2>1. Ready(r, d, T, base, c)
    <3>1. Fit(r, d, T, base)
      BY <1>17, WorkFacts
    <3>2. c \in 1 .. Len(r.st) /\ c \in base
      BY <1>1, <1>11, <1>17, SMTT(30) DEF base
    <3>3. c # d
      <4>1. Own(b, s, r, c)
        BY <1>1, <1>11, <1>17 DEF Own
      <4> HIDE DEF c
      <4> QED BY <4>1, <1>17, WorkFacts
    <3> QED BY <3>1, <3>2, <3>3, <1>17 DEF Ready
  <2>2. <<exitOn>> \in Seq(Byte) /\ <<exitOn>> # <<>> /\ <<exitOn>>[1] = exitOn
    BY Singles
  <2>3. T[c] = Then({<<exitOn>>}, T[to])
    <3>1. <<exitOn>> = <<>> \odot <<exitOn>> /\ <<>> \in Text
      BY <1>2, TextFacts
    <3>2. Then({<<>>}, Before({exitOn}, R[to])) = Then({<<>> \odot <<exitOn>>}, R[to])
      BY <1>1, <1>2, <3>1, ThenLast
    <3>3. Then({<<>>}, Before({exitOn}, R[to])) = Before({exitOn}, R[to])
      BY <1>3, ThenNone DEF E
    <3> QED BY <3>1, <3>2, <3>3, <1>17 DEF E
  <2>4. to \in 1 .. Len(r.st)
    BY <1>1, <1>11, <1>17
  <2> HIDE DEF c
  <2> QED BY <2>1, <2>2, <2>3, <2>4, OneWord
<1> HIDE DEF u
<1>19. PICK Z : Work(b, d, R, s, u, Z, base \ {c}) /\ Edits(r, u, c)
  <2>1. Own(b, s, r, c)
    BY <1>1, <1>11, <1>17 DEF Own
  <2>2. Solved(r, d, T, base, c, u)
    BY <1>18 DEF Valued
  <2> HIDE DEF c
  <2> QED BY <2>1, <2>2, <1>17, WorkPart
<1>20. Solved(b, d, R, open, s, u)
  <2>1. base \ {c} \subseteq open \ {s}
    BY DEF base, open1
  <2> HIDE DEF c
  <2> QED BY <1>19, <2>1, WorkEnd
<1>21. Carries(u.st[s])
  <2>1. u.st[s] = WithTok(Blank, Quote, o)
    BY <1>1, <1>11, <1>17, <1>19 DEF Edits
  <2> QED BY <2>1, BlankFacts, CarriesTok
<1> QED BY <1>15, <1>20, <1>21 DEF Valued, u, w
-----------------------------------------------------------------------------
(* Parameters *)

IsType(ty) ==
  /\ ty.kind \in {"str", "int", "num", "bool", "enum"}
  /\ ty.kind = "enum" => ty.vals \in Seq(Seq(Byte)) \ {<<>>}
SpaceByte == " "
IsParam(p) ==
  /\ p.name \in Seq(Byte) /\ p.required \in BOOLEAN /\ IsType(p.ty)
  /\ p.name # <<>> => p.name[1] # SpaceByte

LEMMA ValueOk ==
  ASSUME NEW w, NEW d, NEW open, Fresh(w.b, d, open, w.at), w = At(w.b, w.at),
         NEW exitOn \in Byte, NEW to \in 1 .. Len(w.b.st), NEW ty, IsType(ty)
  PROVE  Filled(w.b, d, open, w.at, ValueTo(w, ty, exitOn, to))
<1>1. CASE ty.kind = "str"
  BY <1>1, StrOk
<1>2. CASE ty.kind = "int"
  <2>1. ValueTo(w, ty, exitOn, to) = NumberTo(w.b, w.at, exitOn, to, FALSE)
    BY <1>2 DEF ValueTo
  <2> QED BY <2>1, NumberOk
<1>3. CASE ty.kind = "num"
  <2>1. ValueTo(w, ty, exitOn, to) = NumberTo(w.b, w.at, exitOn, to, TRUE)
    BY <1>3 DEF ValueTo
  <2> QED BY <2>1, NumberOk
<1>4. CASE ty.kind = "bool"
  BY <1>4, BoolOk
<1>5. CASE ty.kind = "enum"
  <2>1. ValueTo(w, ty, exitOn, to) = EnumTo(w, ty.vals, exitOn, to)
    BY <1>5 DEF ValueTo
  <2>2. ty.vals \in Seq(Seq(Byte)) /\ ty.vals # <<>>
    BY <1>5 DEF IsType
  <2> QED BY <2>1, <2>2, EnumOk
<1> QED BY <1>1, <1>2, <1>3, <1>4, <1>5 DEF IsType

LEMMA ConcatFront ==
  ASSUME NEW S, NEW e \in S, NEW q \in Seq(S)
  PROVE  /\ <<e>> \o q \in Seq(S) /\ <<e>> \o q # <<>>
         /\ \A i \in DOMAIN (<<e>> \o q) : (<<e>> \o q)[i] = e \/ \E j \in DOMAIN q : (<<e>> \o q)[i] = q[j]
<1> DEFINE c == <<e>> \o q
<1>1. /\ c \in Seq(S) /\ Len(c) = 1 + Len(q) /\ Len(q) \in Nat
      /\ \A i \in 1 .. Len(c) : c[i] = IF i <= 1 THEN e ELSE q[i - 1]
  OBVIOUS
<1> HIDE DEF c
<1>2. \A i \in DOMAIN c : c[i] = e \/ \E j \in DOMAIN q : c[i] = q[j]
  <2>1. SUFFICES ASSUME NEW i \in 1 .. Len(c), i > 1 PROVE \E j \in DOMAIN q : c[i] = q[j]
    BY <1>1
  <2>2. i - 1 \in DOMAIN q /\ c[i] = q[i - 1]
    BY <1>1, <2>1
  <2> QED BY <2>2
<1>3. c # <<>>
  BY <1>1
<1> QED BY <1>1, <1>2, <1>3 DEF c

\* An optional space: what starts at the new state starts at s as well.
LEMMA JoinOk ==
  ASSUME NEW b, NEW d, NEW open, NEW s, NEW r, Fresh(b, d, open, s),
         Filled(Add(b), d, open \cup {NewIn(b)}, NewIn(b), r)
  PROVE  Filled(b, d, open, s, Join(r, s, NewIn(b)))
<1> DEFINE n == NewIn(b)  q == r.st[n]
           sp == " "
           lits == <<<<sp, n>>>> \o q.lits
           row == [lits |-> lits, toks |-> q.toks, class |-> q.class, accept |-> FALSE]
           u == Join(r, s, n)
<1>1. /\ s \in 1 .. Len(b.st) /\ s # d /\ b.st[s] = Blank /\ Len(b.st) \in Nat /\ d \in 0 .. Len(b.st)
      /\ n = Len(b.st) + 1 /\ Len(Add(b).st) = n /\ \A x \in 1 .. Len(b.st) : Add(b).st[x] = b.st[x]
  BY FreshFacts, AddOk, ZenonT(60)
<1> HIDE DEF n
<1>2. Ok(r, d, (open \cup {n}) \ {n}) /\ Edits(Add(b), r, n)
  BY DEF Filled, n
<1>3. /\ r \in Builder /\ Len(r.st) \in Nat /\ n <= Len(r.st) /\ Edits(b, r, s) /\ r.st[s] = Blank
      /\ n \in 1 .. Len(r.st) /\ s \in 1 .. Len(r.st)
  <2> HIDE DEF q, u, row, lits
  <2>1. r \in Builder /\ Len(r.st) \in Nat
    BY <1>2, OkFacts
  <2>2. n <= Len(r.st) /\ \A x \in 1 .. Len(b.st) : r.st[x] = b.st[x]
    BY <1>1, <1>2, SMTT(30) DEF Edits
  <2> QED BY <2>1, <2>2, <1>1 DEF Edits
<1>4. q \in Row /\ Points(q, Len(r.st)) /\ q.accept = FALSE
  <2>1. n # d
    BY <1>1
  <2> HIDE DEF q, sp, lits, row, u
  <2>2. r.st[n] \in Row /\ Points(r.st[n], Len(r.st)) /\ r.st[n].accept = (n = d)
    <3>1. Points(r.st[n], Len(r.st)) /\ r.st[n].accept = (n = d)
      BY <1>2, <1>3 DEF Ok
    <3>2. r.st \in Seq(Row)
      BY <1>3 DEF Builder
    <3> QED BY <1>3, <3>1, <3>2
  <2> QED BY <2>1, <2>2 DEF q
<1>5. q.lits \in Seq(Byte \X Index) /\ q.toks \in Seq(Delims \X Index) /\ q.class \in Class
  BY <1>4 DEF Row
<1> HIDE DEF q
<1>6. u = Put(r, s, row)
  <2>1. /\ Blank.lits = <<>> /\ Blank.toks = <<>> /\ Blank.class = NoClass /\ Blank.accept = FALSE
    BY BlankFacts
  <2>2. Append(Blank.lits, <<" ", n>>) = <<<<" ", n>>>> /\ Blank.toks \o q.toks = q.toks
    BY <2>1, <1>5
  <2>3. row = [lits |-> Append(Blank.lits, <<" ", n>>) \o q.lits, toks |-> Blank.toks \o q.toks,
               class |-> IF Blank.class = NoClass THEN q.class ELSE Blank.class,
               accept |-> Blank.accept \/ q.accept]
    BY <2>1, <2>2, <1>4
  <2> HIDE DEF row
  <2>4. u = [r EXCEPT !.st = [r.st EXCEPT ![s] = row]]
    BY <1>3, <2>3 DEF Join, q
  <2> QED BY <2>4, <1>3, Fields DEF Put
<1>7. lits \in Seq(Byte \X Index) /\ lits # <<>> /\ \A i \in DOMAIN lits : lits[i][2] <= Len(r.st)
  <2>1. sp \in Byte
    BY Bytes
  <2> HIDE DEF sp
  <2>2. <<sp, n>> \in Byte \X Index
    BY <2>1, <1>1 DEF Index
  <2>3. /\ lits \in Seq(Byte \X Index) /\ lits # <<>>
        /\ \A i \in DOMAIN lits : lits[i] = <<sp, n>> \/ \E j \in DOMAIN q.lits : lits[i] = q.lits[j]
    BY <2>2, <1>5, ConcatFront
  <2> HIDE DEF lits
  <2>4. ASSUME NEW i \in DOMAIN lits PROVE lits[i][2] <= Len(r.st)
    <3>1. CASE lits[i] = <<sp, n>>
      BY <3>1, <1>3
    <3>2. CASE \E j \in DOMAIN q.lits : lits[i] = q.lits[j]
      BY <3>2, <1>4 DEF Points
    <3> QED BY <2>3, <3>1, <3>2
  <2> QED BY <2>3, <2>4
<1> HIDE DEF lits
<1>8. row \in Row /\ Points(row, Len(r.st)) /\ Leads(row) /\ row.accept = FALSE
  <2>1. row \in Row
    BY <1>5, <1>7 DEF Row
  <2>2. row.lits = lits /\ row.toks = q.toks /\ row.class = q.class /\ row.accept = FALSE
    OBVIOUS
  <2> HIDE DEF row
  <2> QED BY <1>4, <1>7, <2>1, <2>2 DEF Points, Leads
<1> HIDE DEF row, u
<1>9. Ok(u, d, ((open \cup {n}) \ {n}) \ {s}) /\ Sets(r, u, s, row)
  BY <1>1, <1>2, <1>3, <1>6, <1>8, PutOk
<1>10. Ok(u, d, open \ {s})
  BY <1>9, OkMore, ((open \cup {n}) \ {n}) \ {s} \subseteq open \ {s}
<1>11. Edits(b, u, s)
  <2>1. Len(u.st) \in Nat /\ Edits(r, u, s)
    BY <1>9, OkFacts DEF Sets
  <2> QED BY <2>1, <1>1, <1>3, EditsTwice
<1> QED BY <1>10, <1>11 DEF Filled, u, n

LEMMA FreshAdd ==
  ASSUME NEW b, NEW d, NEW open, NEW s, Fresh(b, d, open, s)
  PROVE  LET n == NewIn(b)  v == At(Add(b), n)
         IN  /\ v.b = Add(b) /\ v.at = n /\ v = At(v.b, v.at) /\ n = Len(b.st) + 1
             /\ Fresh(v.b, d, open \cup {n}, v.at) /\ Len(Add(b).st) = Len(b.st) + 1 /\ Len(b.st) \in Nat
<1> DEFINE n == NewIn(b)  v == At(Add(b), n)
<1>1. /\ Ok(b, d, open) /\ Len(b.st) \in Nat /\ d \in 0 .. Len(b.st)
  BY FreshFacts
<1>2. /\ Ok(Add(b), d, open \cup {n}) /\ n = Len(b.st) + 1
      /\ Len(Add(b).st) = Len(b.st) + 1 /\ Add(b).st[n] = Blank
  BY <1>1, AddOk
<1>3. v.b = Add(b) /\ v.at = n /\ v = At(v.b, v.at)
  BY DEF At
<1> HIDE DEF n, v
<1> QED BY <1>1, <1>2, <1>3 DEF Fresh, n, v

LEMMA ParamOk ==
  ASSUME NEW w, NEW d, NEW open, Fresh(w.b, d, open, w.at), w = At(w.b, w.at),
         NEW exitOn \in Byte, NEW to \in 1 .. Len(w.b.st), NEW p, IsParam(p)
  PROVE  Filled(w.b, d, open, w.at, ParamTo(w, p, exitOn, to))
<1> DEFINE value(v) == ValueTo(v, p.ty, exitOn, to)
           b == w.b  n == NewIn(b)  k == At(Add(b), n)
           word == Append(p.name, ":")
           a == Lit(k, word)
           m == NewIn(a.b)  v == At(Add(a.b), m)
           r == value(v)
           u == Join(r, a.at, m)
           L == ((open \cup {n}) \ {n}) \cup {a.at}
<1>1. ParamTo(w, p, exitOn, to) = Join(u, w.at, n)
  BY DEF ParamTo, MaybeSpace
<1>2. /\ k.b = Add(b) /\ k.at = n /\ k = At(k.b, k.at) /\ n = Len(b.st) + 1
      /\ Fresh(k.b, d, open \cup {n}, k.at) /\ Len(Add(b).st) = Len(b.st) + 1 /\ Len(b.st) \in Nat
  BY FreshAdd
<1> HIDE DEF k, n
<1>3. /\ Ok(a.b, d, L) /\ Chained(k.b, a, n, word[1])
  <2>1. ":" \in Byte
    BY Bytes
  <2>2. word \in Seq(Byte) \ {<<>>}
    BY <2>1, Word DEF IsParam
  <2> HIDE DEF word
  <2>3. IsNew(k.b, d, open \cup {n}, n, word)
    BY <1>2, <2>2, FreshFacts
  <2>4. LET x == Lit(At(k.b, n), word)
        IN  Ok(x.b, d, ((open \cup {n}) \ {n}) \cup {x.at}) /\ Chained(k.b, x, n, word[1])
    BY <2>3, Chain
  <2> QED BY <1>2, <2>4
<1> HIDE DEF a, word
<1>4. /\ a.at \in Len(k.b.st) + 1 .. Len(a.b.st) /\ a.b.st[a.at] = Blank /\ Edits(k.b, a.b, n)
      /\ Len(a.b.st) \in Nat /\ d \in 0 .. Len(b.st)
  BY <1>3, OkFacts, FreshFacts DEF Chained
<1>5. Fresh(a.b, d, L, a.at)
  BY <1>2, <1>3, <1>4 DEF Fresh
<1>6. /\ v.b = Add(a.b) /\ v.at = m /\ v = At(v.b, v.at)
      /\ Fresh(v.b, d, L \cup {m}, v.at) /\ Len(Add(a.b).st) = Len(a.b.st) + 1
  BY <1>5, FreshAdd
<1> HIDE DEF v, L
<1>7. Filled(Add(a.b), d, L \cup {m}, m, r)
  <2>1. to \in 1 .. Len(v.b.st)
    BY <1>2, <1>4, <1>6, SMTT(30)
  <2>2. Filled(v.b, d, L \cup {m}, v.at, ValueTo(v, p.ty, exitOn, to))
    BY <1>6, <2>1, ValueOk DEF IsParam
  <2> HIDE DEF m
  <2> QED BY <1>6, <2>2
<1> HIDE DEF r
<1>8. Filled(a.b, d, L, a.at, u)
  BY <1>5, <1>7, JoinOk
<1> HIDE DEF u
<1>9. Filled(Add(b), d, open \cup {n}, n, u)
  <2>1. Len(u.st) \in Nat
    BY <1>8, OkFacts DEF Filled
  <2>2. L \ {a.at} \subseteq (open \cup {n}) \ {n}
    BY DEF L
  <2>3. Edits(Add(b), a.b, n) /\ a.at > Len(Add(b).st) /\ a.at \in Nat /\ Len(Add(b).st) \in Nat
    BY <1>2, <1>4
  <2> QED BY <1>4, <1>8, <2>1, <2>2, <2>3, FilledTwice
<1>10. Filled(b, d, open, w.at, Join(u, w.at, n))
  BY <1>9, JoinOk DEF n
<1> QED BY <1>1, <1>10

-----------------------------------------------------------------------------
(* What a parameter means *)

\* A value of the type ty and then Y.
ValueLang(ty, Y) ==
  CASE ty.kind = "str"  -> StrLang(Y)
    [] ty.kind = "int"  -> NumLang(FALSE, Y)
    [] ty.kind = "num"  -> NumLang(TRUE, Y)
    [] ty.kind = "bool" -> Then({TrueWord}, Y) \cup Then({FalseWord}, Y)
    [] ty.kind = "enum" -> EnumLang(ty.vals, Y)
\* A byte that can follow a value.
ExitByte == Byte \ (Digit \cup {Dot})

LEMMA ValueMeans ==
  ASSUME NEW b, NEW d, NEW R, NEW open, NEW s, Ready(b, d, R, open, s), NEW to \in 1 .. Len(b.st),
         NEW exitOn \in ExitByte, NEW ty, IsType(ty), R[s] = ValueLang(ty, Before({exitOn}, R[to]))
  PROVE  Valued(b, d, R, open, s, ValueTo(At(b, s), ty, exitOn, to))
<1> DEFINE w == At(b, s)  E == Before({exitOn}, R[to])
<1>0. exitOn \in Byte \ Digit /\ exitOn \in Byte /\ exitOn # Dot /\ w.b = b /\ w.at = s
  BY DEF ExitByte, At
<1> HIDE DEF w, E
<1>1. CASE ty.kind = "str"
  <2>1. R[s] = StrLang(E)
    BY <1>1 DEF ValueLang, E
  <2> QED BY <1>0, <1>1, <2>1, StrMeans DEF E
<1>2. CASE ty.kind = "int"
  <2>1. R[s] = NumLang(FALSE, E) /\ ValueTo(w, ty, exitOn, to) = NumberTo(w.b, w.at, exitOn, to, FALSE)
    BY <1>2 DEF ValueLang, E, ValueTo
  <2> QED BY <1>0, <2>1, IntMeans DEF E, w
<1>3. CASE ty.kind = "num"
  <2>1. R[s] = NumLang(TRUE, E) /\ ValueTo(w, ty, exitOn, to) = NumberTo(w.b, w.at, exitOn, to, TRUE)
    BY <1>3 DEF ValueLang, E, ValueTo
  <2> QED BY <1>0, <2>1, FractionMeans DEF E, w
<1>4. CASE ty.kind = "bool"
  <2>1. /\ R[s] = Then({TrueWord}, E) \cup Then({FalseWord}, E)
        /\ ValueTo(w, ty, exitOn, to)
             = LitTo(At(LitTo(w, Append(TrueWord, exitOn), to), w.at), Append(FalseWord, exitOn), to)
    BY <1>4 DEF ValueLang, E, ValueTo
  <2> QED BY <1>0, <2>1, BoolMeans DEF E, w
<1>5. CASE ty.kind = "enum"
  <2>1. /\ R[s] = EnumLang(ty.vals, E) /\ ValueTo(w, ty, exitOn, to) = EnumTo(w, ty.vals, exitOn, to)
        /\ ty.vals \in Seq(Seq(Byte)) /\ ty.vals # <<>>
    BY <1>5 DEF ValueLang, E, ValueTo, IsType
  <2> QED BY <1>0, <2>1, EnumMeans DEF E, w
<1> QED BY <1>1, <1>2, <1>3, <1>4, <1>5 DEF IsType

LEMMA SpaceFacts ==
  /\ SpaceByte \in Byte /\ SpaceByte \in Symbol /\ SpaceByte \notin Marks /\ SpaceByte \notin Digit
  /\ SpaceByte # Minus /\ SpaceByte # ":" /\ SpaceByte # TrueWord[1] /\ SpaceByte # FalseWord[1] /\ SpaceByte # Quotes
<1>1. SpaceByte \in Byte /\ SpaceByte \notin Digit /\ SpaceByte \notin {TrueWord[1], FalseWord[1]}
  BY Zenon, VocabAssumption DEF SpaceByte
<1>2. SpaceByte # Minus /\ SpaceByte # ":"
  BY Zenon DEF SpaceByte, Minus
<1>3. SpaceByte \in Symbol /\ SpaceByte \notin Marks /\ SpaceByte # Quotes
  BY <1>1, MarkFacts
<1> QED BY <1>1, <1>2, <1>3

\* X is a language that does not begin with a space.
NoSpace(X) == X \subseteq Text /\ X # {} /\ Past(X, SpaceByte) = {}

LEMMA NoSpaceBefore ==
  ASSUME NEW C, C \subseteq Symbol, C # {}, SpaceByte \notin C, NEW X, X \subseteq Text, X # {}
  PROVE  NoSpace(Before(C, X))
<1>1. Before(C, X) \subseteq Text /\ Before(C, X) # {}
  BY BeforeType
<1>2. Past(Before(C, X), SpaceByte) = {}
  <2>1. SpaceByte \in Symbol
    BY SpaceFacts
  <2> QED BY <2>1, PastBefore
<1> QED BY <1>1, <1>2 DEF NoSpace

LEMMA NoSpaceOr == \A X, Y : NoSpace(X) /\ NoSpace(Y) => NoSpace(X \cup Y)
BY PastOr DEF NoSpace

LEMMA NoSpaceWord ==
  ASSUME NEW word \in Seq(Byte), word # <<>>, word[1] # SpaceByte, NEW Y, Y \subseteq Text, Y # {}
  PROVE  NoSpace(Then({word}, Y))
<1> DEFINE C == {word[1]}  X == Then({Rest(word, 1)}, Y)
<1>1. word[1] \in Byte /\ Before(C, X) = Then({word}, Y)
  BY WordThen
<1>2. X \subseteq Text /\ X # {}
  <2>1. 1 \in 1 .. Len(word)
    BY EmptySeq, LenProperties
  <2> QED BY <2>1, RestAt
<1>3. C \subseteq Symbol /\ C # {} /\ SpaceByte \notin C
  BY <1>1, MarkFacts
<1> HIDE DEF C, X
<1>4. NoSpace(Before(C, X))
  BY <1>2, <1>3, NoSpaceBefore
<1> QED BY <1>1, <1>4

LEMMA NumLangSpace ==
  ASSUME NEW Y, Y \subseteq Text, Y # {}, NEW frac \in BOOLEAN
  PROVE  NoSpace(NumLang(frac, Y))
<1> DEFINE W == Whole(frac, Y)
<1>1. W \subseteq Text /\ W # {}
  BY WholeIs
<1> HIDE DEF W
<1>2. DigitsThen(W) \subseteq Text /\ DigitsThen(W) # {} /\ Then(Seq(Digit), W) \subseteq Text /\ Then(Seq(Digit), W) # {}
  BY <1>1, DigitsIs
<1>3. Digit \subseteq Symbol /\ Digit # {} /\ Minus \in Symbol /\ SpaceByte \notin Digit /\ SpaceByte # Minus
  BY NumberBytes, SpaceFacts
<1>4. NoSpace(DigitsThen(W))
  BY <1>2, <1>3, NoSpaceBefore DEF DigitsThen
<1> DEFINE M == {Minus}
<1>5. M \subseteq Symbol /\ M # {} /\ SpaceByte \notin M
  BY <1>3
<1> HIDE DEF M
<1>6. NoSpace(Before(M, DigitsThen(W)))
  BY <1>2, <1>5, NoSpaceBefore
<1>7. NoSpace(Before(M, DigitsThen(W)) \cup DigitsThen(W))
  BY <1>4, <1>6, NoSpaceOr
<1> QED BY <1>7 DEF M, W, NumLang

LEMMA ValueLangFacts ==
  ASSUME NEW Y, Y \subseteq Text, Y # {}, NEW ty, IsType(ty)
  PROVE  NoSpace(ValueLang(ty, Y))
<1> DEFINE C == {Quotes}  Q == Before(C, Y)
<1>1. C \subseteq Symbol /\ C # {} /\ SpaceByte \notin C
  BY MarkFacts, SpaceFacts
<1> HIDE DEF C
<1>2. Q \subseteq Text /\ Q # {}
  BY <1>1, BeforeType
<1> HIDE DEF Q
<1>3. CASE ty.kind = "str"
  <2> DEFINE X == Then(Seq(StrByte), Q)
  <2>1. X \subseteq Text /\ Q \subseteq X
    <3>1. StrByte \subseteq Symbol
      BY MarkFacts
    <3> QED BY <3>1, <1>2, PastStar
  <2>2. ValueLang(ty, Y) = Before(C, X)
    BY <1>3 DEF ValueLang, StrLang, Q, C
  <2> HIDE DEF X
  <2>3. X # {}
    BY <1>2, <2>1
  <2> QED BY <1>1, <2>1, <2>2, <2>3, NoSpaceBefore
<1>4. CASE ty.kind = "enum"
  <2> DEFINE X == Then(Range(ty.vals), Q)
  <2>1. ty.vals \in Seq(Seq(Byte)) /\ ty.vals # <<>>
    BY <1>4 DEF IsType
  <2>2. X \subseteq Text /\ X # {}
    BY <2>1, EnumLangFacts DEF Q, C
  <2>3. ValueLang(ty, Y) = Before(C, X)
    BY <1>4 DEF ValueLang, EnumLang, Q, C
  <2> HIDE DEF X
  <2> QED BY <1>1, <2>2, <2>3, NoSpaceBefore
<1>5. CASE ty.kind = "bool"
  <2>1. /\ TrueWord \in Seq(Byte) /\ TrueWord # <<>> /\ FalseWord \in Seq(Byte) /\ FalseWord # <<>>
        /\ TrueWord[1] # SpaceByte /\ FalseWord[1] # SpaceByte
    BY VocabAssumption, SpaceFacts
  <2>2. NoSpace(Then({TrueWord}, Y)) /\ NoSpace(Then({FalseWord}, Y))
    BY <2>1, NoSpaceWord
  <2>3. ValueLang(ty, Y) = Then({TrueWord}, Y) \cup Then({FalseWord}, Y)
    BY <1>5 DEF ValueLang
  <2> QED BY <2>2, <2>3, NoSpaceOr
<1>6. CASE ty.kind = "int"
  <2>1. ValueLang(ty, Y) = NumLang(FALSE, Y)
    BY <1>6 DEF ValueLang
  <2> QED BY <2>1, NumLangSpace
<1>7. CASE ty.kind = "num"
  <2>1. ValueLang(ty, Y) = NumLang(TRUE, Y)
    BY <1>7 DEF ValueLang
  <2> QED BY <2>1, NumLangSpace
<1> QED BY <1>3, <1>4, <1>5, <1>6, <1>7 DEF IsType

-----------------------------------------------------------------------------
(* An optional space *)

\* Z, or a space and then Z.
Spaced(Z) == Z \cup Before({SpaceByte}, Z)
\* Row q, with an edge on a space to state n before the others.
JoinedRow(q, n) ==
  [lits |-> <<<<" ", n>>>> \o q.lits, toks |-> q.toks, class |-> q.class, accept |-> FALSE]

LEMMA SpacedFacts ==
  ASSUME NEW Z, Z \subseteq Text, Z # {}
  PROVE  Spaced(Z) \subseteq Text /\ Spaced(Z) # {}
<1>1. {SpaceByte} \subseteq Symbol
  BY SpaceFacts
<1>2. Before({SpaceByte}, Z) \subseteq Text
  BY <1>1, BeforeType
<1> QED BY <1>2 DEF Spaced

LEMMA JoinIs ==
  ASSUME NEW r \in Builder, NEW s \in 1 .. Len(r.st), r.st[s] = Blank, NEW n,
         r.st[n] \in Row, r.st[n].accept = FALSE
  PROVE  Join(r, s, n) = Put(r, s, JoinedRow(r.st[n], n))
<1> DEFINE q == r.st[n]  row == JoinedRow(q, n)  u == Join(r, s, n)
<1>1. q.toks \in Seq(Delims \X Index) /\ q.accept = FALSE
  BY DEF Row
<1> HIDE DEF q
<1>2. /\ Blank.lits = <<>> /\ Blank.toks = <<>> /\ Blank.class = NoClass /\ Blank.accept = FALSE
  BY BlankFacts
<1>3. Append(Blank.lits, <<" ", n>>) = <<<<" ", n>>>> /\ Blank.toks \o q.toks = q.toks
  BY <1>1, <1>2
<1>4. row = [lits |-> Append(Blank.lits, <<" ", n>>) \o q.lits, toks |-> Blank.toks \o q.toks,
             class |-> IF Blank.class = NoClass THEN q.class ELSE Blank.class,
             accept |-> Blank.accept \/ q.accept]
  BY <1>1, <1>2, <1>3 DEF JoinedRow
<1> HIDE DEF row
<1>5. u = [r EXCEPT !.st = [r.st EXCEPT ![s] = row]]
  BY <1>4 DEF Join, q
<1> QED BY <1>5, Fields DEF Put, q, row

LEMMA FirstFront ==
  ASSUME NEW A, NEW edges \in Seq(A \X Index), NEW c \in A, NEW to \in Index, NEW x
  PROVE  First(<<<<c, to>>>> \o edges, x) = IF x = c THEN to ELSE First(edges, x)
<1> DEFINE n == Len(edges)  more == <<<<c, to>>>> \o edges  new == <<c, to>>
<1>1. /\ n \in Nat /\ DOMAIN edges = 1 .. n /\ DOMAIN more = 1 .. n + 1 /\ DOMAIN edges \subseteq Nat
      /\ DOMAIN more \subseteq Nat /\ more[1] = new /\ \A i \in 1 .. n : more[i + 1] = edges[i]
  <2> DEFINE one == <<new>>
  <2>1. one \in Seq(A \X Index) /\ Len(one) = 1 /\ one[1] = new
    OBVIOUS
  <2> HIDE DEF one, new
  <2>2. /\ more = one \o edges /\ n \in Nat /\ DOMAIN edges = 1 .. n
    BY DEF one, new
  <2> HIDE DEF more
  <2>3. /\ Len(more) = 1 + n
        /\ \A i \in 1 .. 1 + n : more[i] = IF i <= 1 THEN one[i] ELSE edges[i - 1]
    <3> DEFINE S == A \X Index
    <3>1. one \in Seq(S) /\ edges \in Seq(S)
      BY <2>1
    <3> HIDE DEF S
    <3>2. /\ Len(more) = Len(one) + Len(edges)
          /\ \A i \in 1 .. Len(one) + Len(edges) : more[i] = IF i <= Len(one) THEN one[i] ELSE edges[i - Len(one)]
      BY <2>2, <3>1, ConcatProperties, Zenon
    <3> QED BY <2>1, <3>2
  <2>4. DOMAIN more = 1 .. n + 1 /\ more[1] = new
    BY <2>1, <2>2, <2>3
  <2>5. ASSUME NEW i \in 1 .. n PROVE more[i + 1] = edges[i]
    <3>1. i + 1 \in 1 .. 1 + n /\ ~(i + 1 <= 1) /\ i + 1 - 1 = i
      BY <2>2
    <3> QED BY <2>3, <3>1
  <2> QED BY <2>2, <2>4, <2>5
<1>2. new[1] = c /\ new[2] = to
  OBVIOUS
<1> HIDE DEF more, n, new
<1>3. \/ First(edges, x) = None /\ \A i \in DOMAIN edges : edges[i][1] # x
      \/ \E i \in DOMAIN edges : /\ edges[i][1] = x /\ First(edges, x) = edges[i][2]
                                 /\ \A j \in DOMAIN edges : edges[j][1] = x => i <= j
  BY <1>1, LeastHit
<1>4. \/ First(more, x) = None /\ \A i \in DOMAIN more : more[i][1] # x
      \/ \E i \in DOMAIN more : /\ more[i][1] = x /\ First(more, x) = more[i][2]
                                /\ \A j \in DOMAIN more : more[j][1] = x => i <= j
  BY <1>1, LeastHit
<1>5. First(more, x) = IF x = c THEN to ELSE First(edges, x)
  <2>1. CASE x = c
    <3>1. 1 \in DOMAIN more /\ more[1][1] = x
      BY <1>1, <1>2, <2>1
    <3>2. PICK i \in DOMAIN more : /\ more[i][1] = x /\ First(more, x) = more[i][2]
                                   /\ \A j \in DOMAIN more : more[j][1] = x => i <= j
      BY <1>4, <3>1
    <3>3. i = 1
      BY <1>1, <3>1, <3>2
    <3> QED BY <1>1, <1>2, <2>1, <3>2, <3>3
  <2>2. CASE x # c
    <3>1. \A i \in DOMAIN more : more[i][1] = x => i - 1 \in 1 .. n /\ more[i] = edges[i - 1]
      <4>1. ASSUME NEW i \in DOMAIN more, more[i][1] = x PROVE i - 1 \in 1 .. n /\ more[i] = edges[i - 1]
        <5>1. i # 1
          BY <1>1, <1>2, <2>2, <4>1
        <5>2. i - 1 \in 1 .. n /\ (i - 1) + 1 = i
          BY <1>1, <5>1
        <5> QED BY <1>1, <5>2
      <4> QED BY <4>1
    <3>2. \A i \in 1 .. n : i + 1 \in DOMAIN more /\ more[i + 1] = edges[i]
      BY <1>1
    <3>3. CASE \A i \in DOMAIN edges : edges[i][1] # x
      <4>1. \A i \in DOMAIN more : more[i][1] # x
        BY <1>1, <3>1, <3>3
      <4> QED BY <1>3, <1>4, <2>2, <3>3, <4>1
    <3>4. CASE \E i \in DOMAIN edges : edges[i][1] = x
      <4>1. PICK i \in 1 .. n : /\ edges[i][1] = x /\ First(edges, x) = edges[i][2]
                                /\ \A j \in 1 .. n : edges[j][1] = x => i <= j
        BY <1>1, <1>3, <3>4
      <4>2. i + 1 \in DOMAIN more /\ more[i + 1][1] = x
        BY <3>2, <4>1
      <4>3. PICK m \in DOMAIN more : /\ more[m][1] = x /\ First(more, x) = more[m][2]
                                     /\ \A j \in DOMAIN more : more[j][1] = x => m <= j
        BY <1>4, <4>2
      <4>4. m - 1 \in 1 .. n /\ more[m] = edges[m - 1]
        BY <3>1, <4>3
      <4>5. i <= m - 1 /\ m <= i + 1 /\ m \in Nat
        BY <1>1, <4>1, <4>2, <4>3, <4>4
      <4>6. m - 1 = i
        BY <1>1, <4>5
      <4> QED BY <2>2, <4>1, <4>3, <4>4, <4>6
    <3> QED BY <3>3, <3>4
  <2> QED BY <2>1, <2>2
<1> QED BY <1>5 DEF more, new

LEMMA JoinGoes ==
  ASSUME NEW q \in Row, Carries(q), NEW n \in Index, NEW s, NEW e
  PROVE  Goes(JoinedRow(q, n), s, e) = IF e = SpaceByte THEN n ELSE Goes(q, n, e)
<1> DEFINE row == JoinedRow(q, n)  sp == SpaceByte
<1>1. row.toks = q.toks /\ row.class = q.class /\ row.lits = <<<<sp, n>>>> \o q.lits
  BY DEF JoinedRow, SpaceByte
<1>2. sp \in Byte /\ sp \notin Marks /\ q.lits \in Seq(Byte \X Index) /\ n # None
  BY SpaceFacts, EdgeTypes DEF Index, None
<1> HIDE DEF row, sp
<1>3. First(row.lits, e) = IF e = sp THEN n ELSE First(q.lits, e)
  BY <1>1, <1>2, FirstFront
<1>4. \A x : TokEdge(row, x) = TokEdge(q, x)
  BY <1>1 DEF TokEdge
<1>5. Goes(row, s, e) = IF e = sp THEN n ELSE Goes(q, n, e)
  <2>1. CASE e \in Marks
    BY <2>1, <1>2, <1>4, GoesIs
  <2>2. CASE e \notin Marks
    <3>1. Goes(row, s, e) = IF First(row.lits, e) # None THEN First(row.lits, e)
              ELSE IF row.class.exit # None /\ e = row.class.exitOn THEN row.class.exit
              ELSE IF e \notin row.class.bytes THEN None
              ELSE IF row.class.to = None THEN s ELSE row.class.to
      BY <2>2, GoesIs
    <3>2. Goes(q, n, e) = IF First(q.lits, e) # None THEN First(q.lits, e)
              ELSE IF q.class.exit # None /\ e = q.class.exitOn THEN q.class.exit
              ELSE IF e \notin q.class.bytes THEN None
              ELSE IF q.class.to = None THEN n ELSE q.class.to
      BY <2>2, GoesIs
    <3>3. e \in q.class.bytes => q.class.to # None
      BY DEF Carries
    <3> QED BY <3>1, <3>2, <3>3, <1>1, <1>2, <1>3
  <2> QED BY <2>1, <2>2
<1> QED BY <1>5 DEF row, sp

\* The joined row reads what the row read, with or without a space.
LEMMA JoinReads ==
  ASSUME NEW T \in Lang, NEW q \in Row, Carries(q), q.accept = FALSE, NEW n \in Index, NEW s, Exact(q, n, T),
         Past(T[n], SpaceByte) = {}
  PROVE  Reads(JoinedRow(q, n), s, T, Spaced(T[n]))
<1> DEFINE row == JoinedRow(q, n)  S == {SpaceByte}  Y == T[n]  B == Before(S, Y)
<1>1. SpaceByte \in Symbol /\ S \subseteq Symbol /\ Y \subseteq Text
  BY SpaceFacts, LangFacts DEF Index
<1>2. (\A e : e \in S <=> e = SpaceByte) /\ row.accept = FALSE
  BY DEF JoinedRow
<1>3. \A e : Goes(row, s, e) = IF e = SpaceByte THEN n ELSE Goes(q, n, e)
  BY JoinGoes
<1> HIDE DEF row, S
<1>4. B \subseteq Text /\ <<>> \notin B /\ \A e \in Symbol : Past(B, e) = IF e \in S THEN Y ELSE {}
  BY <1>1, BeforeType, PastBefore, ZenonT(30)
<1>5. <<>> \notin Y /\ \A c \in Symbol : T[Goes(q, n, c)] = Past(Y, c)
  BY DEF Exact
<1>6. Past(Y, SpaceByte) = {}
  OBVIOUS
<1>7. Spaced(Y) = Y \cup B
  BY DEF Spaced, S
<1> HIDE DEF B
<1>8. ASSUME NEW c \in Symbol PROVE T[Goes(row, s, c)] = Past(Y \cup B, c)
  <2>1. Past(Y \cup B, c) = Past(Y, c) \cup Past(B, c)
    BY PastOr
  <2>2. CASE c = SpaceByte
    <3>1. Past(B, c) = Y /\ Past(Y, c) = {} /\ Goes(row, s, c) = n
      BY <2>2, <1>2, <1>3, <1>4, <1>6
    <3> QED BY <2>1, <3>1
  <2>3. CASE c # SpaceByte
    <3>1. Past(B, c) = {} /\ Goes(row, s, c) = Goes(q, n, c)
      BY <2>3, <1>2, <1>3, <1>4
    <3> QED BY <2>1, <3>1, <1>5
  <2> QED BY <2>2, <2>3
<1> HIDE DEF Y
<1>9. Reads(row, s, T, Y \cup B)
  BY <1>1, <1>2, <1>4, <1>5, <1>8 DEF Reads
<1> QED BY <1>7, <1>9 DEF row, Y

LEMMA JoinMeans ==
  ASSUME NEW b, NEW d, NEW R, NEW open, NEW s, Ready(b, d, R, open, s),
         NEW n, n = NewIn(b), NEW U, NEW Y, Added(b, R, Y, Add(b), U), NoSpace(Y), R[s] = Spaced(Y),
         NEW r, Valued(Add(b), d, U, open \cup {n}, n, r)
  PROVE  Solved(b, d, R, open, s, Join(r, s, n))
<1> DEFINE a == Add(b)  q == r.st[n]  row == JoinedRow(q, n)  u == Put(r, s, row)
<1>1. /\ Fit(b, d, R, open) /\ s \in 1 .. Len(b.st) /\ s # d /\ s \in open /\ b.st[s] = Blank
      /\ Len(b.st) \in Nat
  BY ReadyFacts
<1>2. /\ n = Len(b.st) + 1 /\ Len(a.st) = n /\ Same(b, R, U) /\ U[n] = Y
      /\ \A x \in 1 .. Len(b.st) : a.st[x] = b.st[x]
  BY DEF Added
<1> HIDE DEF a
<1>3. PICK T : Fit(r, d, T, (open \cup {n}) \ {n}) /\ Edits(a, r, n) /\ Same(a, U, T)
  BY DEF Valued, Solved, a
<1>4. /\ r \in Builder /\ Len(r.st) \in Nat /\ T \in Lang /\ n \in 1 .. Len(r.st) /\ Ok(r, d, Nat) /\ d \in 0 .. Len(r.st)
  <2>1. /\ r \in Builder /\ Len(r.st) \in Nat /\ T \in Lang /\ Ok(r, d, Nat) /\ d \in 0 .. Len(r.st)
    BY <1>3, FitFacts
  <2>2. n <= Len(r.st)
    BY <1>2, <1>3 DEF Edits
  <2> QED BY <1>1, <1>2, <2>1, <2>2
<1>5. /\ q \in Row /\ Points(q, Len(r.st)) /\ q.accept = FALSE /\ Exact(q, n, T) /\ Carries(q)
  <2>1. n # d
    <3>1. d \in 0 .. Len(b.st)
      BY <1>1, FitFacts
    <3> QED BY <3>1, <1>1, <1>2
  <2>2. /\ q \in Row /\ Points(q, Len(r.st)) /\ q.accept = (n = d)
        /\ n \in (open \cup {n}) \ {n} \/ Exact(q, n, T)
    BY <1>3, <1>4, FitFacts
  <2>3. (n = d) = FALSE /\ n \notin (open \cup {n}) \ {n}
    BY <2>1
  <2>4. q.accept = FALSE
    BY <2>2, <2>3, Zenon
  <2>5. Carries(q)
    BY DEF Valued
  <2> QED BY <2>2, <2>3, <2>4, <2>5
<1>6. /\ s \in 1 .. Len(r.st) /\ r.st[s] = Blank /\ s # n /\ n \in Index /\ T[n] = Y
      /\ Edits(b, r, s) /\ Same(b, R, T) /\ T[s] = R[s]
  <2>1. s \in 1 .. Len(r.st) /\ r.st[s] = Blank /\ s # n /\ n \in Index
    <3>1. s \in 1 .. Len(a.st) /\ s # n
      BY <1>1, <1>2
    <3>2. r.st[s] = a.st[s]
      BY <1>3, <3>1 DEF Edits
    <3>3. s \in 1 .. Len(r.st) /\ n \in Index
      BY <1>1, <1>2, <1>4 DEF Index
    <3> QED BY <1>1, <1>2, <3>1, <3>2, <3>3
  <2>2. T[n] = Y
    <3>1. n \in 0 .. Len(a.st)
      BY <1>1, <1>2
    <3> QED BY <3>1, <1>2, <1>3 DEF Same
  <2>3. Edits(b, r, s)
    <3>1. Len(b.st) <= Len(r.st)
      BY <1>1, <1>2, <1>4
    <3>2. ASSUME NEW x \in 1 .. Len(b.st) PROVE r.st[x] = b.st[x]
      <4>1. x \in 1 .. Len(a.st) /\ x # n
        BY <1>1, <1>2
      <4> QED BY <4>1, <1>2, <1>3 DEF Edits
    <3> QED BY <3>1, <3>2 DEF Edits
  <2>4. Same(b, R, T)
    <3>1. ASSUME NEW x \in 0 .. Len(b.st) PROVE T[x] = R[x]
      <4>1. x \in 0 .. Len(a.st)
        BY <1>1, <1>2
      <4> QED BY <4>1, <1>2, <1>3 DEF Same
    <3> QED BY <3>1 DEF Same
  <2>5. T[s] = R[s]
    BY <2>4, <1>1 DEF Same
  <2> QED BY <2>1, <2>2, <2>3, <2>4, <2>5
<1> HIDE DEF q
<1>7. Join(r, s, n) = u
  BY <1>4, <1>5, <1>6, JoinIs DEF q
<1>8. row \in Row /\ Points(row, Len(r.st)) /\ row.accept = FALSE
  <2> DEFINE lits == <<<<SpaceByte, n>>>> \o q.lits
  <2>1. /\ lits \in Seq(Byte \X Index)
        /\ \A i \in DOMAIN lits : lits[i] = <<SpaceByte, n>> \/ \E j \in DOMAIN q.lits : lits[i] = q.lits[j]
    <3> DEFINE e == <<SpaceByte, n>>
    <3>1. e \in Byte \X Index /\ q.lits \in Seq(Byte \X Index)
      BY <1>5, <1>6, SpaceFacts, EdgeTypes
    <3> HIDE DEF e
    <3>2. /\ <<e>> \o q.lits \in Seq(Byte \X Index)
          /\ \A i \in DOMAIN (<<e>> \o q.lits) : (<<e>> \o q.lits)[i] = e \/ \E j \in DOMAIN q.lits : (<<e>> \o q.lits)[i] = q.lits[j]
      BY <3>1, ConcatFront
    <3> QED BY <3>2 DEF e
  <2>2. row = [lits |-> lits, toks |-> q.toks, class |-> q.class, accept |-> FALSE]
    BY DEF JoinedRow, SpaceByte
  <2> HIDE DEF lits, row
  <2>3. ASSUME NEW i \in DOMAIN lits PROVE lits[i][2] <= Len(r.st)
    <3>1. CASE lits[i] = <<SpaceByte, n>>
      BY <3>1, <1>4
    <3>2. CASE \E j \in DOMAIN q.lits : lits[i] = q.lits[j]
      BY <3>2, <1>5 DEF Points
    <3> QED BY <2>1, <3>1, <3>2
  <2>4. q.toks \in Seq(Delims \X Index) /\ q.class \in Class
    BY <1>5, EdgeTypes
  <2>5. row \in Row
    BY <2>1, <2>2, <2>4 DEF Row
  <2>6. row.lits = lits /\ row.toks = q.toks /\ row.class = q.class /\ row.accept = FALSE
    BY <2>2
  <2> QED BY <2>3, <2>5, <2>6, <1>5 DEF Points
<1>9. Reads(row, s, T, T[s])
  <2>1. Past(T[n], SpaceByte) = {}
    BY <1>6 DEF NoSpace
  <2>2. Reads(row, s, T, Spaced(T[n]))
    BY <2>1, <1>4, <1>5, <1>6, JoinReads
  <2> QED BY <2>2, <1>6
<1> HIDE DEF row
<1>10. Work(b, d, R, s, r, T, open)
  <2>1. Fit(r, d, T, open)
    BY <1>3, FitMore, (open \cup {n}) \ {n} \subseteq open
  <2>2. d \in 0 .. Len(b.st)
    BY <1>1, FitFacts
  <2> QED BY <2>1, <2>2, <1>1, <1>6 DEF Work
<1>11. Ok(u, d, Nat) /\ Sets(r, u, s, row)
  <2>1. row.accept = (s = d)
    <3>1. (s = d) = FALSE
      BY <1>1
    <3> QED BY <1>8, <3>1, Zenon
  <2>2. Ok(u, d, Nat \cup {s}) /\ Sets(r, u, s, row)
    BY <1>4, <1>6, <1>8, <2>1, PutOk
  <2>3. Nat \cup {s} \subseteq Nat
    BY <1>4, <1>6
  <2> QED BY <2>2, <2>3, OkMore
<1> HIDE DEF u
<1>12. Work(b, d, R, s, u, T, open)
  <2>1. Own(b, s, r, s)
    BY DEF Own
  <2> QED BY <2>1, <1>1, <1>10, <1>11, WorkPut
<1>13. Work(b, d, R, s, u, T, open \ {s})
  <2>1. Reads(u.st[s], s, T, T[s])
    BY <1>9, <1>11 DEF Sets
  <2> QED BY <2>1, <1>12, WorkClose
<1>14. Solved(b, d, R, open, s, u)
  BY <1>13, WorkEnd
<1> QED BY <1>7, <1>14

\* A parameter, spaces and all, and then Y.
KeyOf(p) == Append(p.name, ":")
ParamLang(p, Y) == Spaced(Then({KeyOf(p)}, Spaced(ValueLang(p.ty, Y))))

LEMMA KeyFacts ==
  ASSUME NEW p, IsParam(p)
  PROVE  KeyOf(p) \in Seq(Byte) /\ KeyOf(p) # <<>> /\ KeyOf(p)[1] # SpaceByte
<1> DEFINE c == ":"
<1>1. c \in Byte /\ c # SpaceByte
  BY Bytes, SpaceFacts
<1> HIDE DEF c
<1>2. p.name \in Seq(Byte) /\ (p.name # <<>> => p.name[1] # SpaceByte) /\ KeyOf(p) = Append(p.name, c)
  BY DEF IsParam, KeyOf, c
<1>3. KeyOf(p) \in Seq(Byte) /\ KeyOf(p) # <<>> /\ (p.name # <<>> => KeyOf(p)[1] = p.name[1])
  BY <1>1, <1>2, Word
<1>4. p.name = <<>> => KeyOf(p)[1] = c
  BY <1>2
<1> QED BY <1>1, <1>2, <1>3, <1>4

LEMMA ParamLangFacts ==
  ASSUME NEW Y, Y \subseteq Text, Y # {}, NEW p, IsParam(p)
  PROVE  LET V == ValueLang(p.ty, Y)
             K == Then({KeyOf(p)}, Spaced(V))
         IN  /\ NoSpace(V) /\ NoSpace(K) /\ Spaced(V) \subseteq Text /\ Spaced(V) # {}
             /\ ParamLang(p, Y) = Spaced(K) /\ ParamLang(p, Y) \subseteq Text /\ ParamLang(p, Y) # {}
<1> DEFINE V == ValueLang(p.ty, Y)  K == Then({KeyOf(p)}, Spaced(V))
<1>1. NoSpace(V)
  BY ValueLangFacts DEF IsParam
<1> HIDE DEF V
<1>2. Spaced(V) \subseteq Text /\ Spaced(V) # {}
  BY <1>1, SpacedFacts DEF NoSpace
<1>3. NoSpace(K)
  BY <1>2, KeyFacts, NoSpaceWord
<1> HIDE DEF K
<1>4. Spaced(K) \subseteq Text /\ Spaced(K) # {}
  BY <1>3, SpacedFacts DEF NoSpace
<1>5. ParamLang(p, Y) = Spaced(K)
  BY DEF ParamLang, K, V
<1> QED BY <1>1, <1>2, <1>3, <1>4, <1>5 DEF K, V

\* A new state for X, beside the state s that is ready.
ReadyNew(b, d, R, open, s, X) ==
  \E U : /\ Added(b, R, X, Add(b), U) /\ NewIn(b) = Len(b.st) + 1 /\ Len(b.st) \in Nat
         /\ Fit(Add(b), d, U, open \cup {NewIn(b)})
         /\ Ready(Add(b), d, U, open \cup {NewIn(b)}, NewIn(b))
LEMMA AddReady ==
  ASSUME NEW b, NEW d, NEW R, NEW open, NEW s, Ready(b, d, R, open, s), NEW X, X \subseteq Text, X # {}
  PROVE  ReadyNew(b, d, R, open, s, X)
<1> DEFINE n == NewIn(b)  a == Add(b)
<1>1. Fit(b, d, R, open) /\ Len(b.st) \in Nat /\ d \in 0 .. Len(b.st)
  BY ReadyFacts, FitFacts
<1>2. FitsNew(b, d, R, open, X)
  BY <1>1, FitAdd
<1>3. PICK U : Fit(a, d, U, open \cup {n}) /\ Added(b, R, X, a, U)
  BY <1>2 DEF FitsNew
<1>4. n = Len(b.st) + 1 /\ Len(a.st) = n /\ a.st[n] = Blank
  BY <1>3 DEF Added
<1> HIDE DEF n, a
<1>5. n \in 1 .. Len(a.st) /\ n # d
  BY <1>1, <1>4
<1>6. Ready(a, d, U, open \cup {n}, n)
  BY <1>3, <1>4, <1>5 DEF Ready
<1> QED BY <1>1, <1>3, <1>4, <1>6 DEF ReadyNew, n, a

LEMMA ParamMeans ==
  ASSUME NEW b, NEW d, NEW R, NEW open, NEW s, Ready(b, d, R, open, s), NEW to \in 1 .. Len(b.st),
         NEW exitOn \in ExitByte, NEW p, IsParam(p), R[s] = ParamLang(p, Before({exitOn}, R[to]))
  PROVE  Solved(b, d, R, open, s, ParamTo(At(b, s), p, exitOn, to))
<1> DEFINE E == Before({exitOn}, R[to])
           V == ValueLang(p.ty, E)
           word == KeyOf(p)
           K == Then({word}, Spaced(V))
           n == NewIn(b)
           b1 == Add(b)
           a == Lit(At(b1, n), word)
           x == a.at
           m == NewIn(a.b)
           b2 == Add(a.b)
           v == ValueTo(At(b2, m), p.ty, exitOn, to)
           u == Join(v, x, m)
           open1 == open \cup {n}
           open2 == (open1 \cup {x}) \ {n}
<1>1. ParamTo(At(b, s), p, exitOn, to) = Join(u, s, n)
  <2>1. At(b, s).b = b /\ At(b, s).at = s
    BY DEF At
  <2> QED BY <2>1 DEF ParamTo, MaybeSpace, KeyOf
<1>2. /\ E \subseteq Text /\ E # {} /\ s \in 1 .. Len(b.st) /\ Len(b.st) \in Nat /\ d \in 0 .. Len(b.st)
      /\ R[to] \subseteq Text /\ to \in Nat
  <2>1. /\ R[to] \subseteq Text /\ R[to] # {} /\ {exitOn} \subseteq Symbol /\ {exitOn} # {}
    BY ReadyFacts, MarkFacts DEF ExitByte
  <2>2. E \subseteq Text /\ E # {}
    BY <2>1, BeforeType
  <2>3. Fit(b, d, R, open) /\ s \in 1 .. Len(b.st)
    BY DEF Ready
  <2>4. Len(b.st) \in Nat /\ d \in 0 .. Len(b.st)
    BY <2>3, FitFacts
  <2>5. to \in Nat
    BY <2>4
  <2> HIDE DEF E
  <2> QED BY <2>1, <2>2, <2>3, <2>4, <2>5
<1>3. /\ NoSpace(V) /\ NoSpace(K) /\ Spaced(V) \subseteq Text /\ Spaced(V) # {} /\ R[s] = Spaced(K)
      /\ word \in Seq(Byte) /\ word # <<>>
  <2>1. R[s] = ParamLang(p, E)
    OBVIOUS
  <2> HIDE DEF E
  <2> QED BY <2>1, <1>2, ParamLangFacts, KeyFacts
<1> HIDE DEF word, u, v
<1>4. PICK U : /\ Added(b, R, K, b1, U) /\ n = Len(b.st) + 1
               /\ Fit(b1, d, U, open1) /\ Ready(b1, d, U, open1, n)
  <2> HIDE DEF K, n, b1
  <2>1. ReadyNew(b, d, R, open, s, K)
    BY <1>3, AddReady DEF NoSpace
  <2> QED BY <2>1 DEF ReadyNew, n, b1
<1>5. /\ U[n] = K /\ Len(b1.st) = n /\ n \in 1 .. Len(b1.st) /\ to \in 1 .. Len(b1.st) /\ U[to] = R[to]
      /\ n # d /\ to # n
  <2>1. U[n] = K /\ Len(b1.st) = n /\ Same(b, R, U)
    BY <1>4 DEF Added
  <2> HIDE DEF n, b1, K
  <2>2. n \in 1 .. Len(b1.st) /\ to \in 1 .. Len(b1.st) /\ to \in 0 .. Len(b.st) /\ n # d /\ to # n
    BY <1>2, <1>4, <2>1
  <2> QED BY <2>1, <2>2 DEF Same
<1> HIDE DEF V, K, n, b1, E
<1>6. PICK T : InChain(b1, d, U, open1, n, word, Spaced(V), Len(word), a, T)
  <2>1. NewWord(b1, d, U, open1, n, word)
    BY <1>3, <1>4, ReadyFacts
  <2>2. OnChain(b1, d, U, open1, n, word, Spaced(V), Len(word), a)
    BY <2>1, <1>3, ChainIs
  <2> HIDE DEF a, x
  <2> QED BY <2>2 DEF OnChain
<1> DEFINE j == Len(b1.st) + 1
<1>7. /\ Work(b1, d, U, n, a.b, T, open1 \cup {x}) /\ x \in j .. Len(a.b.st) /\ a.b.st[x] = Blank
      /\ T[x] = Spaced(V) /\ j \in 1 .. Len(a.b.st)
      /\ a.b.st[n] = WithLit(Blank, word[1], j) /\ T[j] = Then({Rest(word, 1)}, Spaced(V))
  <2>1. Then({Rest(word, Len(word))}, Spaced(V)) = Spaced(V)
    BY <1>3, RestThen
  <2>2. b1.st[n] = Blank
    BY <1>4 DEF Ready
  <2> HIDE DEF a, x
  <2> QED BY <1>6, <2>1, <2>2 DEF InChain, x
<1> HIDE DEF a, x
<1>8. /\ T \in Lang /\ T[n] = K /\ T[to] = R[to] /\ to \in 1 .. Len(a.b.st) /\ n \in 1 .. Len(a.b.st)
      /\ x # n /\ j \in Index /\ Own(b1, n, a.b, x) /\ x \in 1 .. Len(a.b.st) /\ x # d /\ Len(a.b.st) \in Nat
      /\ Own(b1, n, a.b, n)
  <2>1. \A y \in 1 .. Len(b1.st) : T[y] = U[y] /\ y \in 1 .. Len(a.b.st)
    BY <1>7, SameIs
  <2>2. T \in Lang /\ Len(a.b.st) \in Nat /\ Len(b1.st) \in Nat
    BY <1>7, WorkFacts
  <2>3. x # n /\ j \in Index /\ x \in 1 .. Len(a.b.st) /\ x > Len(b1.st)
    BY <1>5, <1>7, <2>2 DEF Index
  <2>4. Own(b1, n, a.b, x) /\ Own(b1, n, a.b, n)
    BY <1>7, <2>2 DEF Own
  <2>5. x # d
    BY <1>7, <2>4, WorkFacts
  <2>6. T[n] = U[n] /\ T[to] = U[to] /\ to \in 1 .. Len(a.b.st) /\ n \in 1 .. Len(a.b.st)
    BY <2>1, <1>5
  <2> QED BY <1>5, <2>2, <2>3, <2>4, <2>5, <2>6
<1>9. Reads(a.b.st[n], n, T, T[n]) /\ Carries(a.b.st[n])
  <2>1. word[1] \in Byte /\ Before({word[1]}, T[j]) = T[n]
    BY <1>3, <1>7, <1>8, WordThen DEF K
  <2> HIDE DEF j
  <2>2. Reads(WithLit(Blank, word[1], j), n, T, Before({word[1]}, T[j]))
    BY <2>1, <1>8, ReadsOne
  <2>3. Carries(WithLit(Blank, word[1], j))
    BY <2>1, <1>8, BlankFacts, CarriesLit
  <2> QED BY <2>1, <2>2, <2>3, <1>7
<1>10. Work(b1, d, U, n, a.b, T, open2)
  BY <1>7, <1>9, WorkClose
<1>11. Ready(a.b, d, T, open2, x)
  <2>1. Fit(a.b, d, T, open2)
    BY <1>10, WorkFacts
  <2> QED BY <2>1, <1>7, <1>8 DEF Ready
<1> HIDE DEF open2, j
<1>12. PICK S : /\ Added(a.b, T, V, b2, S) /\ m = Len(a.b.st) + 1
                /\ Fit(b2, d, S, open2 \cup {m}) /\ Ready(b2, d, S, open2 \cup {m}, m)
  <2> HIDE DEF m, b2
  <2>1. ReadyNew(a.b, d, T, open2, x, V)
    BY <1>3, <1>11, AddReady DEF NoSpace
  <2> QED BY <2>1 DEF ReadyNew, m, b2
<1>13. S[m] = V /\ S[to] = R[to] /\ to \in 1 .. Len(b2.st)
  <2>1. S[m] = V /\ Len(b2.st) = m /\ Same(a.b, T, S)
    BY <1>12 DEF Added
  <2> HIDE DEF m, b2
  <2>2. to \in 0 .. Len(a.b.st) /\ to \in 1 .. Len(b2.st)
    BY <1>8, <1>12, <2>1
  <2> QED BY <2>1, <2>2, <1>8 DEF Same
<1>14. Valued(b2, d, S, open2 \cup {m}, m, v)
  <2> HIDE DEF m, b2
  <2>1. IsType(p.ty) /\ S[m] = ValueLang(p.ty, Before({exitOn}, S[to]))
    BY <1>13 DEF IsParam, V, E
  <2>2. Valued(b2, d, S, open2 \cup {m}, m, ValueTo(At(b2, m), p.ty, exitOn, to))
    BY <2>1, <1>12, <1>13, ValueMeans
  <2> QED BY <2>2 DEF v
<1>15. Solved(a.b, d, T, open2, x, u)
  <2> DEFINE c == a.b
  <2>1. /\ Ready(c, d, T, open2, x) /\ m = NewIn(c) /\ Added(c, T, V, Add(c), S) /\ NoSpace(V) /\ T[x] = Spaced(V)
        /\ Valued(Add(c), d, S, open2 \cup {m}, m, v)
    BY <1>3, <1>7, <1>11, <1>12, <1>14
  <2> HIDE DEF c, m
  <2>2. Solved(c, d, T, open2, x, Join(v, x, m))
    BY <2>1, JoinMeans
  <2> QED BY <2>2 DEF c, u
<1>16. PICK Q : Work(b1, d, U, n, u, Q, open2 \ {x}) /\ Edits(a.b, u, x)
  <2> DEFINE c == a.b
  <2>1. Work(b1, d, U, n, c, T, open2) /\ Own(b1, n, c, x) /\ Solved(c, d, T, open2, x, u)
    BY <1>8, <1>10, <1>15
  <2> HIDE DEF c
  <2>2. \E Q : Work(b1, d, U, n, u, Q, open2 \ {x}) /\ Same(c, T, Q) /\ Edits(c, u, x)
    BY <2>1, WorkPart
  <2> QED BY <2>2 DEF c
<1>17. Valued(b1, d, U, open1, n, u)
  <2>1. open2 \ {x} \subseteq open1 \ {n}
    BY DEF open2
  <2>2. Solved(b1, d, U, open1, n, u)
    BY <2>1, <1>16, WorkEnd
  <2>3. u.st[n] = a.b.st[n]
    BY <1>8, <1>16 DEF Edits
  <2> QED BY <2>2, <2>3, <1>9 DEF Valued
<1>18. Solved(b, d, R, open, s, Join(u, s, n))
  <2>1. /\ n = NewIn(b) /\ Added(b, R, K, Add(b), U) /\ NoSpace(K) /\ R[s] = Spaced(K)
        /\ Valued(Add(b), d, U, open \cup {n}, n, u)
    BY <1>3, <1>4, <1>17 DEF n, b1
  <2> HIDE DEF open1
  <2> QED BY <2>1, JoinMeans
<1> QED BY <1>1, <1>18
=============================================================================
