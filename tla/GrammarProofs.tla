---------------------------- MODULE GrammarProofs ----------------------------
(***************************************************************************)
(* The automaton of a tool set, for every vocabulary and every tool set    *)
(* that it can spell: the builder fails no assertion, no state but the     *)
(* last is without a token, the compiled constraint is one that the        *)
(* speculative loop may be given, what it admits is exactly what the calls *)
(* of the tool set go on with, and what it wrote is read back by the       *)
(* parser of calls as the tool and the arguments it was written for.       *)
(***************************************************************************)
EXTENDS BuilderProofs

-----------------------------------------------------------------------------
(* Tools *)

Brace == "{"
IsTool(tool) ==
  /\ tool.name \in Seq(Byte \ {Brace}) /\ tool.params \in Seq(Range(tool.params))
  /\ \A i \in DOMAIN tool.params : IsParam(tool.params[i])

LEMMA RequiredType ==
  ASSUME NEW tool, IsTool(tool)
  PROVE  /\ Required(tool) \in Seq(Range(tool.params))
         /\ \A i \in DOMAIN Required(tool) : IsParam(Required(tool)[i])
<1> DEFINE ps == tool.params  n == Len(ps)  S == Seq(Range(ps))
           IsRun(f) == f = [i \in 0 .. n |-> IF i = 0 THEN <<>>
                              ELSE IF ps[i].required THEN Append(f[i - 1], ps[i]) ELSE f[i - 1]]
           run == CHOOSE f : IsRun(f)
           P == [k \in 0 .. n |-> S]
           next(v, k) == IF ps[k].required THEN Append(v, ps[k]) ELSE v
           step == [k \in 1 .. n |-> [v \in S |-> next(v, k)]]
<1>1. Required(tool) = run[n]
  BY Zenon DEF Required
<1>2. n \in Nat /\ \A k \in 1 .. n : ps[k] \in Range(ps)
  <2>1. n \in Nat /\ DOMAIN ps = 1 .. n
    BY DEF IsTool
  <2> HIDE DEF n
  <2> QED BY <2>1 DEF Range
<1>3. \A k \in 1 .. n : \A v \in S : next(v, k) \in S /\ step[k][v] = next(v, k)
  <2>1. SUFFICES ASSUME NEW k \in 1 .. n, NEW v \in S PROVE next(v, k) \in S
    <3> HIDE DEF next, S, n
    <3> QED OBVIOUS
  <2> HIDE DEF n
  <2>2. Append(v, ps[k]) \in S
    <3>1. ps[k] \in Range(ps)
      BY <1>2
    <3> HIDE DEF ps
    <3> QED BY <3>1, AppendProperties
  <2> HIDE DEF S
  <2> QED BY <2>2
<1>4. PICK f : IsFold(f, n, <<>>, step) /\ \A k \in 0 .. n : f[k] \in P[k]
  <2>1. <<>> \in P[0]
    BY <1>2
  <2>2. \A k \in 1 .. n : \A v \in P[k - 1] : step[k][v] \in P[k]
    <3> HIDE DEF next, step, S
    <3> QED BY <1>2, <1>3
  <2> HIDE DEF step, P, n
  <2> QED BY <1>2, <2>1, <2>2, Fold
<1>5. IsRun(f) /\ IsRun(run)
  <2>1. \A k \in 1 .. n : step[k][f[k - 1]] = next(f[k - 1], k)
    <3> HIDE DEF next, step, S
    <3> QED BY <1>2, <1>3, <1>4
  <2>2. IsRun(f)
    <3> HIDE DEF step, ps, n
    <3> QED BY <1>2, <1>4, <2>1 DEF IsFold
  <2> HIDE DEF IsRun
  <2> QED BY <2>2, Zenon
<1> HIDE DEF run
<1>6. run[0] = <<>> /\ \A k \in 1 .. n : run[k] = next(run[k - 1], k)
  <2> HIDE DEF ps, n
  <2>1. \A k \in 0 .. n : run[k] = IF k = 0 THEN <<>>
                             ELSE IF ps[k].required THEN Append(run[k - 1], ps[k]) ELSE run[k - 1]
    BY <1>5
  <2> QED BY <1>2, <2>1
<1> HIDE DEF next
<1>7. run[n] \in S
  <2> DEFINE T == {j \in 0 .. n : run[j] \in S}
  <2>1. 0 \in T
    <3>1. 0 \in 0 .. n /\ <<>> \in S
      BY <1>2
    <3> HIDE DEF S, n
    <3> QED BY <1>6, <3>1
  <2>2. ASSUME NEW k \in 1 .. n, k - 1 \in T PROVE k \in T
    <3> HIDE DEF S, n
    <3> QED BY <2>2, <1>2, <1>3, <1>6
  <2> HIDE DEF T
  <2>3. \A k \in 0 .. n : k \in T
    BY <1>2, <2>1, <2>2, UpTo
  <2> QED BY <2>3, <1>2 DEF T
<1>8. \A x \in Range(ps) : IsParam(x)
  BY DEF IsTool, Range
<1> QED BY <1>1, <1>7, <1>8

\* The states that spell names from head: T, each with what it has spelled; a
\* brace ends one of the names in used.
Trie(b, d, head, used, T, L) ==
  /\ T \subseteq 1 .. Len(b.st) /\ d \notin T /\ head \in T /\ L[head] = <<>>
  /\ \A x \in T : \A i \in DOMAIN b.st[x].lits :
       IF b.st[x].lits[i][1] = Brace THEN L[x] \in used
       ELSE b.st[x].lits[i][2] \in T /\ L[b.st[x].lits[i][2]] = Append(L[x], b.st[x].lits[i][1])
LEMMA TrieFacts ==
  ASSUME NEW b, NEW d, NEW head, NEW used, NEW T, NEW L, Trie(b, d, head, used, T, L)
  PROVE  T \subseteq 1 .. Len(b.st) /\ d \notin T /\ head \in T /\ L[head] = <<>>
BY Zenon DEF Trie

\* Names are spelled from head, and d is as the builder left it.
Final == [Blank EXCEPT !.accept = TRUE]
Spelt(b, d, head, end, used) ==
  /\ Len(b.st) \in Nat /\ d \in 1 .. Len(b.st) /\ b.st[d] = Final /\ end \in 1 .. Len(b.st)
  /\ \E T, L : Trie(b, d, head, used, T, L)
\* Along a name: v has spelled label.
Along(d, head, end, used, label, v) ==
  /\ v \in Cursor /\ Ok(v.b, d, {d, v.at})
  /\ Len(v.b.st) \in Nat /\ d \in 1 .. Len(v.b.st) /\ v.b.st[d] = Final /\ end \in 1 .. Len(v.b.st)
  /\ \E T, L : Trie(v.b, d, head, used, T, L) /\ v.at \in T /\ L[v.at] = label

LEMMA AlongStep ==
  ASSUME NEW d, NEW head, NEW end, NEW used, NEW label, NEW v, Along(d, head, end, used, label, v),
         NEW c \in Byte \ {Brace}
  PROVE  Along(d, head, end, used, Append(label, c), LitStep(v, c))
<1> DEFINE r == LitStep(v, c)  x == v.at  q == v.b.st[x]  n == Len(v.b.st)
<1> HIDE DEF r, x
<1> HIDE DEF q
<1>1. PICK T, L : Trie(v.b, d, head, used, T, L) /\ x \in T /\ L[x] = label
  BY DEF Along, x
<1>2. /\ v \in Cursor /\ Ok(v.b, d, {d, x}) /\ n \in Nat /\ d \in 1 .. n /\ v.b.st[d] = Final
      /\ end \in 1 .. n /\ x \in 1 .. n /\ x # d
  BY <1>1 DEF Along, Trie, x
<1>3. \/ OldStep(v, r, c) /\ Ok(r.b, d, {d, x} \ {x})
      \/ NewStep(v, r, c) /\ Ok(r.b, d, ({d, x} \ {x}) \cup {r.at})
  BY <1>2, LitStepIs DEF r, x
<1>4. CASE OldStep(v, r, c) /\ Ok(r.b, d, {d, x} \ {x})
  <2>1. PICK i \in DOMAIN q.lits : q.lits[i] = <<c, r.at>>
    BY <1>4 DEF OldStep, x, q
  <2>2. r.b = v.b /\ r \in Cursor
    BY <1>4 DEF OldStep
  <2>3. r.at \in T /\ L[r.at] = Append(label, c)
    <3>1. IF v.b.st[x].lits[i][1] = Brace THEN L[x] \in used
          ELSE v.b.st[x].lits[i][2] \in T /\ L[v.b.st[x].lits[i][2]] = Append(L[x], v.b.st[x].lits[i][1])
      BY <1>1, <2>1 DEF Trie, q
    <3>2. v.b.st[x].lits[i] = <<c, r.at>> /\ c # Brace
      BY <2>1 DEF q
    <3> QED BY <1>1, <3>1, <3>2
  <2>4. Ok(r.b, d, {d, r.at})
    BY <1>4, OkMore, {d, x} \ {x} \subseteq {d, r.at}
  <2> QED BY <1>1, <1>2, <2>2, <2>3, <2>4 DEF Along, r
<1>5. CASE NewStep(v, r, c) /\ Ok(r.b, d, ({d, x} \ {x}) \cup {r.at})
  <2>1. /\ r \in Cursor /\ r.at = n + 1 /\ Edits(v.b, r.b, x) /\ Len(r.b.st) = n + 1
        /\ r.b.st[r.at] = Blank /\ r.b.st[x] = WithLit(q, c, r.at)
    BY <1>5 DEF NewStep, Links, x, q
  <2>2. Ok(r.b, d, {d, r.at})
    BY <1>5, OkMore, ({d, x} \ {x}) \cup {r.at} \subseteq {d, r.at}
  <2>3. d \in 1 .. Len(r.b.st) /\ r.b.st[d] = Final /\ end \in 1 .. Len(r.b.st) /\ Len(r.b.st) \in Nat
    BY <1>2, <2>1, SMTT(30) DEF Edits
  <2> DEFINE U == T \cup {r.at}  M == [y \in U |-> IF y = r.at THEN Append(label, c) ELSE L[y]]
  <2>4. r.at \notin T /\ r.at # x /\ r.at # d /\ T \subseteq 1 .. n /\ d \notin T
    <3>1. T \subseteq 1 .. n /\ d \notin T
      BY <1>1, TrieFacts
    <3>2. r.at \notin 1 .. n
      BY <1>2, <2>1
    <3> QED BY <1>1, <1>2, <3>1, <3>2
  <2>5. \A y \in T : M[y] = L[y] /\ (y # x => r.b.st[y] = v.b.st[y])
    BY <2>1, <2>4 DEF Edits
  <2>6. M[r.at] = Append(label, c)
    OBVIOUS
  <2>7. \A i \in DOMAIN r.b.st[x].lits :
          \/ i \in DOMAIN q.lits /\ r.b.st[x].lits[i] = q.lits[i]
          \/ r.b.st[x].lits[i] = <<c, r.at>>
    <3>1. q \in Row /\ q.lits \in Seq(Byte \X Index)
      BY <1>2, OkFacts DEF Row, q
    <3>2. <<c, r.at>> \in Byte \X Index
      BY <1>2, <2>1 DEF Index
    <3> HIDE DEF q
    <3>3. r.b.st[x].lits = Append(q.lits, <<c, r.at>>)
      BY <2>1, <3>1, WithLitFacts
    <3> QED BY <3>1, <3>2, <3>3, AppendCases
  <2> HIDE DEF U, M
  <2>8. ASSUME NEW y \in U, NEW i \in DOMAIN r.b.st[y].lits
        PROVE  IF r.b.st[y].lits[i][1] = Brace THEN M[y] \in used
               ELSE /\ r.b.st[y].lits[i][2] \in U
                    /\ M[r.b.st[y].lits[i][2]] = Append(M[y], r.b.st[y].lits[i][1])
    <3>1. CASE y = r.at
      BY <3>1, <2>1, <2>8, BlankFacts
    <3>2. CASE y \in T /\ i \in DOMAIN v.b.st[y].lits /\ r.b.st[y].lits[i] = v.b.st[y].lits[i]
      <4> DEFINE e == v.b.st[y].lits[i]
      <4>1. IF e[1] = Brace THEN L[y] \in used ELSE e[2] \in T /\ L[e[2]] = Append(L[y], e[1])
        BY <1>1, <3>2 DEF Trie
      <4> HIDE DEF e
      <4>2. M[y] = L[y] /\ (e[2] \in T => e[2] \in U /\ M[e[2]] = L[e[2]])
        BY <3>2, <2>5 DEF U
      <4>3. r.b.st[y].lits[i] = e
        BY <3>2 DEF e
      <4> QED BY <4>1, <4>2, <4>3
    <3>3. CASE y = x /\ r.b.st[x].lits[i] = <<c, r.at>>
      BY <3>3, <1>1, <2>5, <2>6 DEF U
    <3>4. y = r.at \/ y \in T
      BY <2>8 DEF U
    <3>5. y \in T /\ y # x => r.b.st[y] = v.b.st[y]
      BY <2>5
    <3>6. CASE y \in T /\ y # x
      BY <2>8, <3>2, <3>5, <3>6
    <3>7. CASE y = x
      BY <1>1, <2>7, <2>8, <3>2, <3>3, <3>7 DEF q
    <3> QED BY <3>1, <3>4, <3>6, <3>7
  <2>9. Trie(r.b, d, head, used, U, M)
    <3>1. U \subseteq 1 .. Len(r.b.st) /\ d \notin U /\ head \in U /\ M[head] = <<>>
      <4>1. T \subseteq 1 .. n /\ d \notin T /\ head \in T /\ L[head] = <<>>
        BY <1>1, TrieFacts
      <4>2. 1 .. n \subseteq 1 .. Len(r.b.st) /\ r.at \in 1 .. Len(r.b.st)
        BY <1>2, <2>1
      <4> QED BY <4>1, <4>2, <2>4, <2>5 DEF U
    <3> QED BY <3>1, <2>8 DEF Trie
  <2>10. r.at \in U
    BY DEF U
  <2> QED BY <2>1, <2>2, <2>3, <2>6, <2>9, <2>10 DEF Along, r
<1> QED BY <1>3, <1>4, <1>5

\* The brace has been spelled, by an edge no other name has.
Opened(d, head, end, used, w) ==
  /\ w \in Cursor /\ Ok(w.b, d, {d, w.at})
  /\ Len(w.b.st) \in Nat /\ d \in 1 .. Len(w.b.st) /\ w.b.st[d] = Final /\ end \in 1 .. Len(w.b.st)
  /\ w.at \in 1 .. Len(w.b.st) /\ w.at # d /\ w.b.st[w.at] = Blank
  /\ \E T, L : Trie(w.b, d, head, used, T, L) /\ w.at \notin T

LEMMA BraceStep ==
  ASSUME NEW d, NEW head, NEW end, NEW used, NEW label, NEW v, Along(d, head, end, used, label, v),
         label \notin used, Brace \in Byte
  PROVE  Opened(d, head, end, used \cup {label}, LitStep(v, Brace))
<1> DEFINE r == LitStep(v, Brace)  x == v.at  q == v.b.st[x]  n == Len(v.b.st)
<1> HIDE DEF r, x, q
<1>1. PICK T, L : Trie(v.b, d, head, used, T, L) /\ x \in T /\ L[x] = label
  BY DEF Along, x
<1>2. /\ v \in Cursor /\ Ok(v.b, d, {d, x}) /\ n \in Nat /\ d \in 1 .. n /\ v.b.st[d] = Final
      /\ end \in 1 .. n /\ x \in 1 .. n /\ x # d
  BY <1>1 DEF Along, Trie, x
<1>3. \/ OldStep(v, r, Brace)
      \/ NewStep(v, r, Brace) /\ Ok(r.b, d, ({d, x} \ {x}) \cup {r.at})
  BY <1>2, LitStepIs DEF r, x
<1>4. ~OldStep(v, r, Brace)
  <2>1. SUFFICES ASSUME NEW i \in DOMAIN q.lits, q.lits[i] = <<Brace, r.at>> PROVE FALSE
    BY DEF OldStep, x, q
  <2>2. IF q.lits[i][1] = Brace THEN L[x] \in used
        ELSE q.lits[i][2] \in T /\ L[q.lits[i][2]] = Append(L[x], q.lits[i][1])
    BY <1>1, <2>1 DEF Trie, q
  <2> QED BY <1>1, <2>1, <2>2
<1>5. /\ r \in Cursor /\ r.at = n + 1 /\ Edits(v.b, r.b, x) /\ Len(r.b.st) = n + 1
      /\ r.b.st[r.at] = Blank /\ r.b.st[x] = WithLit(q, Brace, r.at)
  BY <1>3, <1>4 DEF NewStep, Links, x, q
<1>6. Ok(r.b, d, {d, r.at})
  BY <1>3, <1>4, OkMore, ({d, x} \ {x}) \cup {r.at} \subseteq {d, r.at}
<1>7. /\ d \in 1 .. Len(r.b.st) /\ r.b.st[d] = Final /\ end \in 1 .. Len(r.b.st) /\ Len(r.b.st) \in Nat
      /\ r.at \in 1 .. Len(r.b.st) /\ r.at # d
  BY <1>2, <1>5, SMTT(30) DEF Edits
<1>8. r.at \notin T /\ T \subseteq 1 .. n /\ d \notin T /\ head \in T /\ L[head] = <<>>
  <2>1. T \subseteq 1 .. n /\ d \notin T /\ head \in T /\ L[head] = <<>>
    BY <1>1, TrieFacts
  <2>2. r.at \notin 1 .. n
    BY <1>2, <1>5
  <2> QED BY <2>1, <2>2
<1>9. \A i \in DOMAIN r.b.st[x].lits :
        \/ i \in DOMAIN q.lits /\ r.b.st[x].lits[i] = q.lits[i]
        \/ r.b.st[x].lits[i] = <<Brace, r.at>>
  <2>1. q \in Row /\ q.lits \in Seq(Byte \X Index)
    BY <1>2, OkFacts DEF Row, q
  <2>2. <<Brace, r.at>> \in Byte \X Index
    BY <1>2, <1>5 DEF Index
  <2>3. r.b.st[x].lits = Append(q.lits, <<Brace, r.at>>)
    BY <1>5, <2>1, WithLitFacts
  <2> QED BY <2>1, <2>2, <2>3, AppendCases
<1>10. ASSUME NEW y \in T, NEW i \in DOMAIN r.b.st[y].lits
       PROVE  IF r.b.st[y].lits[i][1] = Brace THEN L[y] \in used \cup {label}
              ELSE /\ r.b.st[y].lits[i][2] \in T
                   /\ L[r.b.st[y].lits[i][2]] = Append(L[y], r.b.st[y].lits[i][1])
  <2>1. CASE i \in DOMAIN v.b.st[y].lits /\ r.b.st[y].lits[i] = v.b.st[y].lits[i]
    <3> DEFINE e == v.b.st[y].lits[i]
    <3>1. IF e[1] = Brace THEN L[y] \in used ELSE e[2] \in T /\ L[e[2]] = Append(L[y], e[1])
      BY <1>1, <2>1 DEF Trie
    <3> HIDE DEF e
    <3>2. r.b.st[y].lits[i] = e
      BY <2>1 DEF e
    <3> QED BY <3>1, <3>2
  <2>2. CASE y = x /\ r.b.st[x].lits[i] = <<Brace, r.at>>
    BY <2>2, <1>1
  <2>3. y # x => r.b.st[y] = v.b.st[y]
    BY <1>5, <1>8 DEF Edits
  <2> QED BY <1>9, <1>10, <2>1, <2>2, <2>3 DEF q
<1>11. Trie(r.b, d, head, used \cup {label}, T, L)
  <2>1. T \subseteq 1 .. Len(r.b.st)
    BY <1>2, <1>5, <1>8
  <2> QED BY <2>1, <1>8, <1>10 DEF Trie
<1> QED BY <1>5, <1>6, <1>7, <1>8, <1>11 DEF Opened, r

LEMMA Heads ==
  ASSUME NEW S, NEW word \in Seq(S)
  PROVE  /\ SubSeq(word, 1, 0) = <<>> /\ SubSeq(word, 1, Len(word)) = word
         /\ \A k \in 1 .. Len(word) : Append(SubSeq(word, 1, k - 1), word[k]) = SubSeq(word, 1, k)
<1>1. SubSeq(word, 1, 0) = <<>> /\ SubSeq(word, 1, Len(word)) = word
  OBVIOUS
<1>2. ASSUME NEW k \in 1 .. Len(word) PROVE Append(SubSeq(word, 1, k - 1), word[k]) = SubSeq(word, 1, k)
  OBVIOUS
<1> QED BY <1>1, <1>2

\* A name that is not taken is spelled, up to its brace.
LEMMA OpenOk ==
  ASSUME NEW b, NEW d, NEW head, NEW end, NEW used, Spelt(b, d, head, end, used),
         Ok(b, d, {d, head}), NEW name \in Seq(Byte \ {Brace}), name \notin used
  PROVE  Opened(d, head, end, used \cup {name}, Lit(At(b, head), Append(name, Brace)))
<1> DEFINE w == At(b, head)  word == Append(name, Brace)  n == Len(name)
           pre(k) == SubSeq(name, 1, k)
           P == [k \in 0 .. n + 1 |->
                   IF k = n + 1 THEN {v \in Cursor : Opened(d, head, end, used \cup {name}, v)}
                   ELSE {v \in Cursor : Along(d, head, end, used, pre(k), v)}]
<1>1. /\ n \in Nat /\ Len(word) = n + 1 /\ word[n + 1] = Brace /\ Brace \in Byte
      /\ \A k \in 1 .. n : word[k] = name[k] /\ name[k] \in Byte \ {Brace}
  <2>1. Brace \in Byte
    BY Bytes DEF Brace
  <2> QED BY <2>1, AppendProperties
<1>2. pre(0) = <<>> /\ pre(n) = name /\ \A k \in 1 .. n : pre(k) = Append(pre(k - 1), name[k])
  <2>1. /\ SubSeq(name, 1, 0) = <<>> /\ SubSeq(name, 1, Len(name)) = name
        /\ \A k \in 1 .. Len(name) : Append(SubSeq(name, 1, k - 1), name[k]) = SubSeq(name, 1, k)
    <3> HIDE DEF P, w, word, n
    <3> QED BY Heads
  <2> HIDE DEF P, w, word
  <2> QED BY <2>1
<1> HIDE DEF word, pre, n
<1>3. w \in Cursor /\ Along(d, head, end, used, pre(0), w)
  <2>1. w.b = b /\ w.at = head
    BY DEF At
  <2>2. head \in 1 .. Len(b.st) /\ b \in Builder
    BY OkFacts DEF Spelt, Trie
  <2>3. w \in Cursor
    BY <2>2 DEF Cursor, Index, At, Spelt
  <2>4. PICK T, L : Trie(b, d, head, used, T, L)
    BY DEF Spelt
  <2>5. head \in T /\ L[head] = pre(0)
    BY <1>2, <2>4 DEF Trie
  <2> HIDE DEF w
  <2> QED BY <2>1, <2>3, <2>4, <2>5 DEF Along, Spelt
<1> HIDE DEF w
<1>4. /\ \A v : v \in P[n + 1] <=> v \in Cursor /\ Opened(d, head, end, used \cup {name}, v)
      /\ \A k \in 0 .. n : \A v : v \in P[k] <=> v \in Cursor /\ Along(d, head, end, used, pre(k), v)
  BY <1>1
<1> HIDE DEF P
<1>5. ASSUME NEW k \in 1 .. n + 1, NEW v \in P[k - 1] PROVE LitStep(v, word[k]) \in P[k]
  <2>1. k - 1 \in 0 .. n /\ Along(d, head, end, used, pre(k - 1), v)
    <3>1. k - 1 \in 0 .. n
      BY <1>1
    <3> QED BY <3>1, <1>4, <1>5
  <2>2. CASE k \in 1 .. n
    <3>1. /\ name[k] \in Byte \ {Brace} /\ word[k] = name[k] /\ pre(k) = Append(pre(k - 1), name[k])
          /\ k \in 0 .. n
      <4>1. k \in 0 .. n /\ name[k] \in Byte \ {Brace} /\ word[k] = name[k]
        BY <2>2, <1>1
      <4>2. pre(k) = Append(pre(k - 1), name[k])
        BY <2>2, <1>2
      <4> QED BY <4>1, <4>2
    <3>2. Along(d, head, end, used, Append(pre(k - 1), name[k]), LitStep(v, name[k]))
      BY <2>1, <3>1, AlongStep
    <3>3. LitStep(v, word[k]) \in Cursor /\ Along(d, head, end, used, pre(k), LitStep(v, word[k]))
      BY <3>1, <3>2 DEF Along
    <3> QED BY <3>1, <3>3, <1>4
  <2>3. CASE k = n + 1
    <3>1. k - 1 = n /\ word[k] = Brace
      BY <1>1, <2>3
    <3>2. Opened(d, head, end, used \cup {name}, LitStep(v, Brace))
      BY <1>1, <1>2, <2>1, <3>1, BraceStep
    <3> QED BY <1>4, <2>3, <3>1, <3>2 DEF Opened
  <2> QED BY <2>2, <2>3, <1>1
<1>6. Lit(w, word) \in P[n + 1]
  <2>1. w \in P[0]
    BY <1>1, <1>3, <1>4
  <2> QED BY <1>1, <1>5, <2>1, LitRuns
<1> QED BY <1>4, <1>6 DEF w, word

\* What is then built from the new state leaves the names as they are.
LEMMA SpeltKept ==
  ASSUME NEW d, NEW head, NEW end, NEW used, NEW w, Opened(d, head, end, used, w),
         NEW r, Edits(w.b, r, w.at), Len(r.st) \in Nat
  PROVE  Spelt(r, d, head, end, used)
<1>1. PICK T, L : Trie(w.b, d, head, used, T, L) /\ w.at \notin T
  BY DEF Opened
<1>2. /\ Len(w.b.st) \in Nat /\ d \in 1 .. Len(w.b.st) /\ w.b.st[d] = Final /\ end \in 1 .. Len(w.b.st)
      /\ w.at # d
  BY DEF Opened
<1>3. d \in 1 .. Len(r.st) /\ r.st[d] = Final /\ end \in 1 .. Len(r.st)
  BY <1>2 DEF Edits
<1>4. T \subseteq 1 .. Len(r.st) /\ \A x \in T : r.st[x] = w.b.st[x]
  <2>1. T \subseteq 1 .. Len(w.b.st)
    BY <1>1, TrieFacts
  <2>2. Len(w.b.st) <= Len(r.st) /\ \A x \in 1 .. Len(w.b.st) : x = w.at \/ r.st[x] = w.b.st[x]
    BY Zenon DEF Edits
  <2>3. 1 .. Len(w.b.st) \subseteq 1 .. Len(r.st)
    BY <1>2, <2>2
  <2> QED BY <1>1, <2>1, <2>2, <2>3, Zenon
<1>5. Trie(r, d, head, used, T, L)
  <2>1. ASSUME NEW x \in T, NEW i \in DOMAIN r.st[x].lits
        PROVE  IF r.st[x].lits[i][1] = Brace THEN L[x] \in used
               ELSE /\ r.st[x].lits[i][2] \in T
                    /\ L[r.st[x].lits[i][2]] = Append(L[x], r.st[x].lits[i][1])
    <3>1. r.st[x] = w.b.st[x] /\ i \in DOMAIN w.b.st[x].lits
      BY <1>4, <2>1
    <3>2. IF w.b.st[x].lits[i][1] = Brace THEN L[x] \in used
          ELSE /\ w.b.st[x].lits[i][2] \in T
               /\ L[w.b.st[x].lits[i][2]] = Append(L[x], w.b.st[x].lits[i][1])
      BY <1>1, <3>1 DEF Trie
    <3> QED BY <3>1, <3>2
  <2> QED BY <1>1, <1>4, <2>1 DEF Trie
<1> QED BY <1>3, <1>5, Len(r.st) \in Nat DEF Spelt

\* Parameters at work, from w to v: v is where the next one starts.
Working(d, end, w, v) ==
  /\ v \in Cursor /\ Edits(w.b, v.b, w.at) /\ Fresh(v.b, d, {d, v.at}, v.at)
  /\ Len(w.b.st) \in Nat /\ end \in 1 .. Len(v.b.st)
  /\ v.at = w.at \/ v.at > Len(w.b.st)
\* The last one is done.
Worked(d, w, v) == v \in Cursor /\ Edits(w.b, v.b, w.at) /\ Ok(v.b, d, {d})

\* The i-th of the required parameters.
NextParam(w, req, i, end) ==
  IF i = Len(req) THEN At(ParamTo(w, req[i], "}", end), end)
  ELSE At(ParamTo(At(Add(w.b), w.at), req[i], ",", NewIn(w.b)), NewIn(w.b))

LEMMA NextParamOk ==
  ASSUME NEW d, NEW end, NEW w, NEW v, Working(d, end, w, v), NEW req, NEW i, IsParam(req[i])
  PROVE  IF i = Len(req) THEN Worked(d, w, NextParam(v, req, i, end))
         ELSE Working(d, end, w, NextParam(v, req, i, end))
<1> DEFINE b == v.b  s == v.at  p == req[i]
<1>1. /\ v \in Cursor /\ Edits(w.b, b, w.at) /\ Fresh(b, d, {d, s}, s) /\ Len(w.b.st) \in Nat
      /\ end \in 1 .. Len(b.st) /\ (s = w.at \/ s > Len(w.b.st))
      /\ Len(b.st) \in Nat /\ s \in 1 .. Len(b.st) /\ s # d /\ d \in 0 .. Len(b.st) /\ b.st[s] = Blank
  BY FreshFacts DEF Working
<1>2. v = At(v.b, v.at)
  BY DEF Working, Cursor, At
<1>3. "}" \in Byte
  BY Bytes
<1>4. "," \in Byte
  BY Bytes
<1>5. CASE i = Len(req)
  <2> DEFINE r == ParamTo(v, p, "}", end)
  <2>1. Filled(b, d, {d, s}, s, r)
    BY <1>1, <1>2, <1>3, ParamOk
  <2> HIDE DEF r
  <2>2. Ok(r, d, {d}) /\ Edits(b, r, s) /\ Len(r.st) \in Nat /\ r \in Builder
    <3>1. Ok(r, d, {d, s} \ {s}) /\ Edits(b, r, s)
      BY <2>1 DEF Filled
    <3>2. Ok(r, d, {d})
      BY <3>1, OkMore, {d, s} \ {s} \subseteq {d}
    <3> QED BY <3>1, <3>2, OkFacts
  <2>3. Edits(w.b, r, w.at)
    BY <1>1, <2>2, EditsTwice
  <2>4. At(r, end).b = r /\ At(r, end) \in Cursor
    BY <1>1, <2>2 DEF At, Cursor, Index
  <2>5. NextParam(v, req, i, end) = At(r, end)
    BY <1>5 DEF NextParam, r
  <2> QED BY <1>5, <2>2, <2>3, <2>4, <2>5 DEF Worked
<1>6. CASE i # Len(req)
  <2> DEFINE a == Add(b)  n == NewIn(b)  x == At(a, s)
             r == ParamTo(x, p, ",", n)
  <2>1. /\ Ok(a, d, {d, s} \cup {n}) /\ n = Len(b.st) + 1 /\ Len(a.st) = n /\ a.st[n] = Blank
        /\ \A y \in 1 .. Len(b.st) : a.st[y] = b.st[y]
    BY <1>1, AddOk DEF Fresh
  <2>2. x.b = a /\ x.at = s /\ x = At(x.b, x.at)
    BY DEF At
  <2> HIDE DEF a, n, x
  <2>3. Fresh(a, d, {d, s} \cup {n}, s) /\ n \in 1 .. Len(a.st)
    <3>1. s \in 1 .. Len(a.st) /\ n \in 1 .. Len(a.st) /\ a.st[s] = Blank
      BY <1>1, <2>1, SMTT(30)
    <3> QED BY <1>1, <2>1, <3>1 DEF Fresh
  <2>4. Filled(a, d, {d, s} \cup {n}, s, r)
    BY <1>4, <2>2, <2>3, ParamOk
  <2> HIDE DEF r
  <2>5. Ok(r, d, {d, n}) /\ Edits(a, r, s) /\ Len(r.st) \in Nat /\ r \in Builder
    <3>1. Ok(r, d, ({d, s} \cup {n}) \ {s}) /\ Edits(a, r, s)
      BY <2>4 DEF Filled
    <3>2. Ok(r, d, {d, n})
      BY <3>1, OkMore, ({d, s} \cup {n}) \ {s} \subseteq {d, n}
    <3> QED BY <3>1, <3>2, OkFacts
  <2>6. Edits(b, r, s) /\ r.st[n] = Blank /\ n \in 1 .. Len(r.st) /\ n # d
    <3> HIDE DEF b, s
    <3>1. /\ Len(b.st) <= Len(r.st) /\ n \in 1 .. Len(r.st) /\ n # d /\ n # s /\ n \in 1 .. Len(a.st)
      BY <1>1, <2>1, <2>5 DEF Edits
    <3>2. \A y \in 1 .. Len(b.st) : y = s \/ r.st[y] = b.st[y]
      BY <1>1, <2>1, <2>5 DEF Edits
    <3>3. r.st[n] = Blank
      BY <2>1, <2>5, <3>1 DEF Edits
    <3> QED BY <3>1, <3>2, <3>3 DEF Edits
  <2>7. Edits(w.b, r, w.at)
    BY <1>1, <2>5, <2>6, EditsTwice
  <2> DEFINE u == At(r, n)
  <2>8. u.b = r /\ u.at = n /\ u \in Cursor
    BY <1>1, <2>1, <2>5 DEF At, Cursor, Index
  <2> HIDE DEF u
  <2>9. Fresh(r, d, {d, n}, n)
    BY <2>5, <2>6 DEF Fresh
  <2>10. end \in 1 .. Len(r.st) /\ n > Len(w.b.st)
    BY <1>1, <2>1, <2>6 DEF Edits
  <2>11. Working(d, end, w, u)
    BY <1>1, <2>7, <2>8, <2>9, <2>10 DEF Working
  <2>12. NextParam(v, req, i, end) = u
    BY <1>6 DEF NextParam, u, r, x, a, n
  <2> QED BY <1>6, <2>11, <2>12
<1> QED BY <1>5, <1>6

\* The states they run through.
ParamsRunTo(run, w, req, end) ==
  run = [i \in 0 .. Len(req) |-> IF i = 0 THEN w ELSE NextParam(run[i - 1], req, i, end)]

\* All of them, one at least.
LEMMA ParamsOk ==
  ASSUME NEW d, NEW end, NEW w, Working(d, end, w, w), NEW req, Len(req) \in Nat \ {0},
         \A i \in 1 .. Len(req) : IsParam(req[i]),
         NEW run, ParamsRunTo(run, w, req, end)
  PROVE  Worked(d, w, run[Len(req)])
<1> DEFINE n == Len(req)
           T == {i \in 0 .. n : IF i = n THEN Worked(d, w, run[i]) ELSE Working(d, end, w, run[i])}
<1> HIDE DEF n
<1>1. /\ n \in Nat \ {0} /\ n = Len(req) /\ run[0] = w
      /\ \A i \in 1 .. n : IsParam(req[i])
      /\ \A i \in 1 .. n : run[i] = NextParam(run[i - 1], req, i, end)
  BY DEF n, ParamsRunTo
<1>2. 0 \in T
  BY <1>1
<1>3. ASSUME NEW k \in 1 .. n, k - 1 \in T PROVE k \in T
  <2>1. Working(d, end, w, run[k - 1]) /\ IsParam(req[k])
    BY <1>1, <1>3
  <2>2. IF k = Len(req) THEN Worked(d, w, NextParam(run[k - 1], req, k, end))
        ELSE Working(d, end, w, NextParam(run[k - 1], req, k, end))
    BY <2>1, NextParamOk
  <2> QED BY <1>1, <2>2
<1> HIDE DEF T
<1>4. n \in T
  <2>1. \A k \in 0 .. n : k \in T
    BY <1>1, <1>2, <1>3, UpTo
  <2> QED BY <1>1, <2>1
<1> QED BY <1>1, <1>4 DEF T

\* There is such a run.
LEMMA ParamsRun ==
  ASSUME NEW d, NEW end, NEW w, Working(d, end, w, w), NEW req, Len(req) \in Nat \ {0},
         \A i \in 1 .. Len(req) : IsParam(req[i])
  PROVE  \E f : ParamsRunTo(f, w, req, end)
<1> DEFINE n == Len(req)
           P == [i \in 0 .. n |-> IF i = n THEN {v \in Cursor : Worked(d, w, v)}
                                  ELSE {v \in Cursor : Working(d, end, w, v)}]
           step == [i \in 1 .. n |-> [v \in P[i - 1] |-> NextParam(v, req, i, end)]]
<1> HIDE DEF n
<1>1. n \in Nat \ {0} /\ n = Len(req) /\ \A i \in 1 .. n : IsParam(req[i])
  BY DEF n
<1>2. /\ \A i \in 1 .. n : \A v \in P[i - 1] : step[i][v] = NextParam(v, req, i, end)
      /\ \A v : v \in P[n] <=> v \in Cursor /\ Worked(d, w, v)
      /\ \A i \in 0 .. n - 1 : \A v : v \in P[i] <=> v \in Cursor /\ Working(d, end, w, v)
  BY <1>1
<1> HIDE DEF P, step
<1>3. ASSUME NEW i \in 1 .. n, NEW v \in P[i - 1] PROVE step[i][v] \in P[i]
  <2>1. Working(d, end, w, v) /\ IsParam(req[i])
    <3>1. i - 1 \in 0 .. n - 1
      BY <1>1
    <3> QED BY <3>1, <1>1, <1>2, <1>3
  <2>2. IF i = Len(req) THEN Worked(d, w, NextParam(v, req, i, end))
        ELSE Working(d, end, w, NextParam(v, req, i, end))
    BY <2>1, NextParamOk
  <2>3. CASE i = n
    BY <2>2, <2>3, <1>1, <1>2, <1>3 DEF Worked
  <2>4. CASE i # n
    <3>1. i \in 0 .. n - 1
      BY <1>1, <2>4
    <3> QED BY <2>2, <2>4, <3>1, <1>1, <1>2, <1>3 DEF Working
  <2> QED BY <2>3, <2>4
<1>4. w \in P[0]
  <2>1. 0 \in 0 .. n - 1
    BY <1>1
  <2> QED BY <2>1, <1>2 DEF Working
<1>5. PICK f : IsFold(f, n, w, step) /\ \A k \in 0 .. n : f[k] \in P[k]
  BY <1>1, <1>3, <1>4, Fold
<1>6. \A i \in 1 .. n : step[i][f[i - 1]] = NextParam(f[i - 1], req, i, end)
  <2>1. \A i \in 1 .. n : f[i - 1] \in P[i - 1]
    BY <1>1, <1>5
  <2> QED BY <2>1, <1>2
<1> QED BY <1>1, <1>5, <1>6 DEF IsFold, ParamsRunTo

LEMMA OnlyOne == \A x : (CHOOSE r \in {x} : TRUE) = x
OBVIOUS

\* What a tool comes to, from the state w after its brace.
ToolRuns(w, req, end, r) ==
  IF req = <<>> THEN r = LitTo(w, <<"}">>, end)
  ELSE \E run : ParamsRunTo(run, w, req, end) /\ r = run[Len(req)].b

LEMMA RequiredLen ==
  ASSUME NEW tool, IsTool(tool)
  PROVE  /\ Len(Required(tool)) \in Nat /\ (Required(tool) # <<>> => Len(Required(tool)) \in Nat \ {0})
         /\ \A i \in 1 .. Len(Required(tool)) : IsParam(Required(tool)[i])
<1> DEFINE req == Required(tool)
<1>1. req \in Seq(Range(tool.params)) /\ \A i \in DOMAIN req : IsParam(req[i])
  BY RequiredType
<1> HIDE DEF req
<1>2. Len(req) \in Nat /\ (req # <<>> => Len(req) \in Nat \ {0}) /\ \A i \in 1 .. Len(req) : IsParam(req[i])
  BY <1>1, EmptySeq, LenProperties
<1> QED BY <1>2 DEF req

LEMMA AddToolIs ==
  ASSUME NEW b, NEW d, NEW head, NEW end, NEW tool, IsTool(tool),
         LET w == Lit(At(b, head), Append(tool.name, "{")) IN Working(d, end, w, w)
  PROVE  ToolRuns(Lit(At(b, head), Append(tool.name, "{")), Required(tool), end, AddTool(b, head, end, tool))
<1> DEFINE open == Lit(At(b, head), Append(tool.name, "{"))
           req == Required(tool)
           param(w, i) ==
             IF i = Len(req) THEN At(ParamTo(w, req[i], "}", end), end)
             ELSE At(ParamTo(At(Add(w.b), w.at), req[i], ",", NewIn(w.b)), NewIn(w.b))
           IsRun(f) == f = [i \in 0 .. Len(req) |->
                              IF i = 0 THEN open ELSE Edit(LAMBDA v : param(v, i), f[i - 1])]
           run == CHOOSE f : IsRun(f)
           w == open
<1>1. AddTool(b, head, end, tool) = IF req = <<>> THEN LitTo(open, <<"}">>, end) ELSE run[Len(req)].b
  BY Zenon DEF AddTool
<1>2. Working(d, end, w, w)
  OBVIOUS
<1>3. /\ Len(req) \in Nat /\ (req # <<>> => Len(req) \in Nat \ {0})
      /\ \A i \in 1 .. Len(req) : IsParam(req[i])
  BY RequiredLen
<1> HIDE DEF w
<1>4. CASE req = <<>>
  BY <1>1, <1>4 DEF ToolRuns
<1>5. CASE req # <<>>
  <2>1. AddTool(b, head, end, tool) = run[Len(req)].b
    BY <1>1, <1>5
  <2>3. ASSUME NEW f, NEW i PROVE Edit(LAMBDA v : param(v, i), f) = NextParam(f, req, i, end)
    <3>1. {param(v, i) : v \in {f}} = {NextParam(f, req, i, end)}
      BY DEF NextParam
    <3>2. Edit(LAMBDA v : param(v, i), f) = CHOOSE u \in {param(v, i) : v \in {f}} : TRUE
      BY Zenon DEF Edit
    <3> QED BY <3>1, <3>2, OnlyOne
  <2>4. \A f : IsRun(f) <=> ParamsRunTo(f, w, req, end)
    <3> HIDE DEF open, req
    <3> QED BY <2>3, Zenon DEF w, ParamsRunTo
  <2>5. \E f : IsRun(f)
    <3> HIDE DEF IsRun
    <3>1. Len(req) \in Nat \ {0} /\ \A i \in 1 .. Len(req) : IsParam(req[i])
      BY <1>3, <1>5
    <3> HIDE DEF req
    <3>2. \E f : ParamsRunTo(f, w, req, end)
      BY <1>2, <3>1, ParamsRun
    <3> QED BY <2>4, <3>2
  <2>6. IsRun(run)
    <3> HIDE DEF IsRun
    <3> QED BY <2>5, Zenon
  <2>7. ParamsRunTo(run, w, req, end)
    <3> HIDE DEF IsRun, run
    <3> QED BY <2>4, <2>6
  <2>8. ToolRuns(w, req, end, AddTool(b, head, end, tool))
    <3> HIDE DEF run, req
    <3> QED BY <1>5, <2>1, <2>7 DEF ToolRuns
  <2> QED BY <2>8 DEF w
<1> QED BY <1>4, <1>5

LEMMA AddToolOk ==
  ASSUME NEW b, NEW d, NEW head, NEW end, NEW used, Spelt(b, d, head, end, used),
         Ok(b, d, {d, head}), NEW tool, IsTool(tool), tool.name \notin used
  PROVE  /\ Spelt(AddTool(b, head, end, tool), d, head, end, used \cup {tool.name})
         /\ Ok(AddTool(b, head, end, tool), d, {d})
         /\ ToolRuns(Lit(At(b, head), Append(tool.name, "{")), Required(tool), end, AddTool(b, head, end, tool))
<1> DEFINE open == Lit(At(b, head), Append(tool.name, "{"))
           req == Required(tool)
           names == used \cup {tool.name}
           r == AddTool(b, head, end, tool)
           w == open
<1>1. Opened(d, head, end, names, open)
  BY OpenOk DEF IsTool, Brace
<1>2. /\ Len(req) \in Nat /\ (req # <<>> => Len(req) \in Nat \ {0})
      /\ \A i \in 1 .. Len(req) : IsParam(req[i])
  BY RequiredLen
<1> HIDE DEF w, names
<1>3. /\ w \in Cursor /\ Ok(w.b, d, {d, w.at}) /\ w.at \in 1 .. Len(w.b.st) /\ w.at # d
      /\ w.b.st[w.at] = Blank /\ end \in 1 .. Len(w.b.st) /\ Len(w.b.st) \in Nat
      /\ w = At(w.b, w.at) /\ Fresh(w.b, d, {d, w.at}, w.at) /\ Opened(d, head, end, names, w)
  <2>1. Opened(d, head, end, names, w)
    BY <1>1 DEF w
  <2>2. w \in Cursor
    BY <2>1 DEF Opened
  <2>3. w = At(w.b, w.at)
    BY <2>2 DEF Cursor, At
  <2> QED BY <2>1, <2>2, <2>3 DEF Opened, Fresh
<1>4. Working(d, end, w, w)
  BY <1>3 DEF Working, Edits
<1>5. ToolRuns(w, req, end, r)
  BY <1>4, AddToolIs DEF w
<1> HIDE DEF r, req
<1>6. Ok(r, d, {d}) /\ Len(r.st) \in Nat /\ Edits(w.b, r, w.at)
  <2>1. CASE req = <<>>
    <3>1. r = LitTo(w, <<"}">>, end)
      BY <1>5, <2>1 DEF ToolRuns
    <3>2. "}" \in Byte
      BY Bytes
    <3>3. <<"}">> \in Seq(Byte) \ {<<>>}
      BY <3>2, Singles
    <3>4. IsNew(w.b, d, {d, w.at}, w.at, <<"}">>)
      BY <1>3, <3>3, FreshFacts
    <3>5. LET u == LitTo(At(w.b, w.at), <<"}">>, end)
          IN  Ok(u, d, {d, w.at} \ {w.at}) /\ Closed(w.b, u, w.at, <<"}">>[1])
      BY <1>3, <3>4, LitToOk
    <3>6. Ok(r, d, {d, w.at} \ {w.at}) /\ Edits(w.b, r, w.at)
      BY <1>3, <3>1, <3>5 DEF Closed
    <3> QED BY <3>6, OkMore, OkFacts, {d, w.at} \ {w.at} \subseteq {d}
  <2>2. CASE req # <<>>
    <3>1. PICK run : ParamsRunTo(run, w, req, end) /\ r = run[Len(req)].b
      BY <1>5, <2>2 DEF ToolRuns
    <3>2. Worked(d, w, run[Len(req)])
      BY <1>2, <1>4, <2>2, <3>1, ParamsOk
    <3> QED BY <3>1, <3>2, OkFacts DEF Worked
  <2> QED BY <2>1, <2>2
<1>7. Spelt(r, d, head, end, names)
  BY <1>3, <1>6, SpeltKept
<1> QED BY <1>5, <1>6, <1>7 DEF names, r, req, w

-----------------------------------------------------------------------------
(* What a list of parameters means *)

Closing == "}"
Comma == ","

LEMMA EndBytes ==
  /\ Closing \in ExitByte /\ Comma \in ExitByte /\ Closing \in Symbol /\ Comma \in Symbol
  /\ Closing \in Byte /\ Comma \in Byte
<1>1. Closing \in Byte
  BY Bytes DEF Closing
<1>2. Comma \in Byte
  BY Bytes DEF Comma
<1>3. Closing \notin Digit /\ Comma \notin Digit
  <2>1. Closing \in {"}", ",", "-", ".", " "} /\ Comma \in {"}", ",", "-", ".", " "}
    BY Zenon DEF Closing, Comma
  <2> QED BY <2>1, VocabAssumption
<1>4. Closing # Dot /\ Comma # Dot
  BY Zenon DEF Closing, Comma, Dot
<1> QED BY <1>1, <1>2, <1>3, <1>4, MarkFacts DEF ExitByte

\* f says what the last k parameters mean, and then Y.
IsLists(req, Y, f) ==
  /\ f[0] = Y
  /\ \A k \in 1 .. Len(req) :
       f[k] = ParamLang(req[Len(req) - k + 1], Before({IF k = 1 THEN Closing ELSE Comma}, f[k - 1]))
  /\ \A k \in 0 .. Len(req) : f[k] \subseteq Text /\ f[k] # {}
Lists(req, Y) == CHOOSE f : IsLists(req, Y, f)

LEMMA ListsAre ==
  ASSUME NEW req, Len(req) \in Nat, \A i \in 1 .. Len(req) : IsParam(req[i]), NEW Y, Y \subseteq Text, Y # {}
  PROVE  IsLists(req, Y, Lists(req, Y))
<1> DEFINE n == Len(req)
           More(X, k) == ParamLang(req[n - k + 1], Before({IF k = 1 THEN Closing ELSE Comma}, X))
           S == {X \in SUBSET Text : X # {}}
           P == [k \in 0 .. n |-> S]
           step == [k \in 1 .. n |-> [X \in S |-> More(X, k)]]
<1>1. ASSUME NEW k \in 1 .. n, NEW X \in S PROVE More(X, k) \in S
  <2> DEFINE c == IF k = 1 THEN Closing ELSE Comma  E == Before({c}, X)  p == req[n - k + 1]
  <2>1. {c} \subseteq Symbol /\ {c} # {}
    BY EndBytes
  <2> HIDE DEF c
  <2>2. X \subseteq Text /\ X # {}
    OBVIOUS
  <2>3. E \subseteq Text /\ E # {}
    BY <2>1, <2>2, BeforeType
  <2>4. IsParam(p)
    <3>1. n - k + 1 \in 1 .. n
      OBVIOUS
    <3> QED BY <3>1
  <2> HIDE DEF E, p
  <2>5. ParamLang(p, E) \subseteq Text /\ ParamLang(p, E) # {}
    BY <2>3, <2>4, ParamLangFacts
  <2> QED BY <2>5 DEF E, p, c
<1> HIDE DEF More
<1>2. \A k \in 1 .. n : \A X \in S : step[k][X] = More(X, k) /\ step[k][X] \in S
  <2> HIDE DEF S, n
  <2> QED BY <1>1
<1>3. PICK f : IsFold(f, n, Y, step) /\ \A k \in 0 .. n : f[k] \in P[k]
  <2>1. Y \in P[0]
    OBVIOUS
  <2>2. \A k \in 1 .. n : \A X \in P[k - 1] : step[k][X] \in P[k]
    <3> HIDE DEF S, step
    <3> QED BY <1>2
  <2> HIDE DEF P, step, n
  <2>3. n \in Nat
    BY DEF n
  <2> QED BY <2>1, <2>2, <2>3, Fold
<1>4. \A k \in 0 .. n : f[k] \in S
  <2> HIDE DEF S
  <2> QED BY <1>3
<1>5. f[0] = Y /\ \A k \in 1 .. n : f[k] = More(f[k - 1], k)
  <2>1. f[0] = Y /\ \A k \in 1 .. n : f[k] = step[k][f[k - 1]]
    <3> HIDE DEF step, P
    <3> QED BY <1>3 DEF IsFold
  <2>2. \A k \in 1 .. n : f[k - 1] \in S
    <3> HIDE DEF S
    <3> QED BY <1>4
  <2> HIDE DEF step, S
  <2> QED BY <1>2, <2>1, <2>2
<1>6. IsLists(req, Y, f)
  BY <1>4, <1>5 DEF IsLists, More
<1> QED BY <1>6 DEF Lists

\* v has come past k of the parameters, from state s of b.
Listing(b, d, R, open, s, k, n, f, v) ==
  /\ v = At(v.b, v.at)
  /\ \E T : /\ Work(b, d, R, s, v.b, T, (open \ {s}) \cup {v.at}) /\ Own(b, s, v.b, v.at)
            /\ v.b.st[v.at] = Blank /\ T[v.at] = f[n - k]
Listed(b, d, R, open, s, k, n, f, v) ==
  IF k = n THEN Solved(b, d, R, open, s, v.b) ELSE Listing(b, d, R, open, s, k, n, f, v)

LEMMA LastParamMeans ==
  ASSUME NEW b, NEW d, NEW R, NEW open, NEW s, NEW end \in 1 .. Len(b.st), NEW req, Len(req) \in Nat \ {0},
         IsParam(req[Len(req)]), NEW f, IsLists(req, R[end], f),
         NEW v, Listing(b, d, R, open, s, Len(req) - 1, Len(req), f, v)
  PROVE  Solved(b, d, R, open, s, NextParam(v, req, Len(req), end).b)
<1> DEFINE n == Len(req)  a == v.b  x == v.at  p == req[n]  left == (open \ {s}) \cup {x}
           r == ParamTo(At(a, x), p, Closing, end)
<1>1. v = At(a, x) /\ NextParam(v, req, n, end).b = r
  <2>1. v = At(a, x)
    BY DEF Listing
  <2>2. NextParam(v, req, n, end) = At(ParamTo(v, p, Closing, end), end)
    BY Zenon DEF NextParam, Closing
  <2> QED BY <2>1, <2>2 DEF At
<1> HIDE DEF r
<1>2. PICK T : /\ Work(b, d, R, s, a, T, left) /\ Own(b, s, a, x) /\ a.st[x] = Blank /\ T[x] = f[1]
  <2>1. n - (n - 1) = 1
    OBVIOUS
  <2> HIDE DEF n
  <2> QED BY <2>1 DEF Listing, n
<1> HIDE DEF a, x
<1>3. f[0] = R[end] /\ f[1] = ParamLang(p, Before({Closing}, f[0]))
  <2>1. 1 \in 1 .. n /\ n - 1 + 1 = n /\ 1 - 1 = 0
    OBVIOUS
  <2> HIDE DEF n
  <2> QED BY <2>1 DEF IsLists, n
<1>4. T[end] = R[end] /\ end \in 1 .. Len(a.st)
  <2>1. \A y \in 1 .. Len(b.st) : T[y] = R[y] /\ y \in 1 .. Len(a.st)
    BY <1>2, SameIs
  <2> QED BY <2>1
<1>5. Ready(a, d, T, left, x)
  <2>1. Fit(a, d, T, left) /\ x \in 1 .. Len(a.st) /\ x # d
    BY <1>2, WorkFacts
  <2> QED BY <1>2, <2>1 DEF Ready
<1>6. Solved(a, d, T, left, x, r)
  <2>1. T[x] = ParamLang(p, Before({Closing}, T[end])) /\ IsParam(p)
    BY <1>2, <1>3, <1>4
  <2> HIDE DEF left, p
  <2> QED BY <2>1, <1>4, <1>5, EndBytes, ParamMeans DEF r
<1> HIDE DEF left
<1>7. PICK U : Work(b, d, R, s, r, U, left \ {x}) /\ Same(a, T, U) /\ Edits(a, r, x)
  BY <1>2, <1>6, WorkPart
<1>8. left \ {x} \subseteq open \ {s}
  BY DEF left
<1> QED BY <1>1, <1>7, <1>8, WorkEnd

LEMMA NextParamMeans ==
  ASSUME NEW b, NEW d, NEW R, NEW open, NEW s, NEW end \in 1 .. Len(b.st), NEW req, Len(req) \in Nat,
         NEW i \in 1 .. Len(req) - 1, IsParam(req[i]), NEW f, IsLists(req, R[end], f),
         NEW v, Listing(b, d, R, open, s, i - 1, Len(req), f, v)
  PROVE  Listing(b, d, R, open, s, i, Len(req), f, NextParam(v, req, i, end))
<1> DEFINE n == Len(req)  a == v.b  x == v.at  p == req[i]  left == (open \ {s}) \cup {x}
           m == NewIn(a)  a2 == Add(a)  r == ParamTo(At(a2, x), p, Comma, m)  X == f[n - i]
<1>1. v = At(a, x) /\ NextParam(v, req, i, end) = At(r, m)
  <2>1. v = At(a, x)
    BY DEF Listing
  <2>2. i # Len(req)
    OBVIOUS
  <2>3. NextParam(v, req, i, end) = At(ParamTo(At(Add(v.b), v.at), p, Comma, NewIn(v.b)), NewIn(v.b))
    BY <2>2, Zenon DEF NextParam, Comma
  <2> QED BY <2>1, <2>3
<1>2. /\ i \in 1 .. n /\ n - i + 1 \in 2 .. n /\ n - i \in 0 .. n /\ n - (i - 1) = n - i + 1
      /\ n - (n - i + 1) + 1 = i /\ (n - i + 1) - 1 = n - i /\ n - i + 1 # 1 /\ n - i + 1 \in 1 .. n
  OBVIOUS
<1> HIDE DEF n, r
<1>3. PICK T : /\ Work(b, d, R, s, a, T, left) /\ Own(b, s, a, x) /\ a.st[x] = Blank /\ T[x] = f[n - i + 1]
  BY <1>2 DEF Listing, n
<1>4. f[n - i + 1] = ParamLang(p, Before({Comma}, X)) /\ X \subseteq Text /\ X # {}
  <2>1. \A k \in 1 .. n : f[k] = ParamLang(req[n - k + 1], Before({IF k = 1 THEN Closing ELSE Comma}, f[k - 1]))
    BY DEF IsLists, n
  <2>2. \A k \in 0 .. n : f[k] \subseteq Text /\ f[k] # {}
    BY DEF IsLists, n
  <2>3. f[n - i + 1] = ParamLang(req[n - (n - i + 1) + 1], Before({Comma}, f[(n - i + 1) - 1]))
    BY <2>1, <1>2
  <2> QED BY <2>2, <2>3, <1>2
<1> HIDE DEF a, x, X, left
<1>5. PICK U : Work(b, d, R, s, a2, U, left \cup {m}) /\ Added(a, T, X, a2, U)
  BY <1>3, <1>4, WorkAdd DEF m, a2
<1>6. /\ U[m] = X /\ U[x] = T[x] /\ a2.st[m] = Blank /\ a2.st[x] = Blank /\ m \in 1 .. Len(a2.st)
      /\ x \in 1 .. Len(a2.st) /\ x # m /\ m = Len(a.st) + 1 /\ Len(a.st) \in Nat /\ x # d
      /\ Len(b.st) \in Nat /\ m > Len(b.st) /\ Own(b, s, a2, x)
  <2>1. /\ Len(a.st) \in Nat /\ x \in 1 .. Len(a.st) /\ x # d /\ Len(b.st) \in Nat /\ Len(b.st) <= Len(a.st)
        /\ x = s \/ x > Len(b.st)
    BY <1>3, WorkFacts
  <2>2. /\ m = Len(a.st) + 1 /\ Len(a2.st) = Len(a.st) + 1 /\ a2.st[m] = Blank
        /\ \A y \in 1 .. Len(a.st) : a2.st[y] = a.st[y]
        /\ Same(a, T, U) /\ U[m] = X
    BY <1>5 DEF Added, m
  <2> HIDE DEF m, a2
  <2>3. x \in 0 .. Len(a.st) /\ m \in 1 .. Len(a2.st) /\ x \in 1 .. Len(a2.st) /\ x # m /\ m > Len(b.st)
    BY <2>1, <2>2, SMTT(30)
  <2>4. U[x] = T[x] /\ a2.st[x] = Blank
    BY <2>1, <2>2, <2>3, <1>3 DEF Same
  <2>5. Own(b, s, a2, x)
    BY <2>1, <2>3, <1>5, WorkFacts
  <2> QED BY <2>1, <2>2, <2>3, <2>4, <2>5
<1> HIDE DEF m, a2
<1>7. Solved(a2, d, U, left \cup {m}, x, r)
  <2>1. x \in left
    BY DEF left
  <2>2. Fit(a2, d, U, left \cup {m})
    BY <1>5, WorkFacts
  <2>3. Ready(a2, d, U, left \cup {m}, x)
    BY <2>1, <2>2, <1>6 DEF Ready
  <2>4. U[x] = ParamLang(p, Before({Comma}, U[m])) /\ IsParam(p)
    BY <1>3, <1>4, <1>6
  <2> HIDE DEF p
  <2> DEFINE lefts == left \cup {m}
  <2> HIDE DEF lefts
  <2>5. Ready(a2, d, U, lefts, x) /\ Comma \in ExitByte
    BY <2>3, EndBytes DEF lefts
  <2>6. Solved(a2, d, U, lefts, x, ParamTo(At(a2, x), p, Comma, m))
    BY <2>4, <2>5, <1>6, ParamMeans
  <2> QED BY <2>6 DEF r, p, lefts
<1>8. PICK V : Work(b, d, R, s, r, V, (left \cup {m}) \ {x}) /\ Same(a2, U, V) /\ Edits(a2, r, x)
  BY <1>5, <1>6, <1>7, WorkPart
<1>9. r.st[m] = Blank /\ m \in 1 .. Len(r.st) /\ V[m] = X
  <2>1. m \in 0 .. Len(a2.st)
    BY <1>6
  <2>2. Len(a2.st) <= Len(r.st) /\ Len(r.st) \in Nat /\ Len(a2.st) \in Nat
    BY <1>5, <1>8, WorkFacts DEF Edits
  <2>3. r.st[m] = a2.st[m]
    BY <1>6, <1>8 DEF Edits
  <2>4. m \in 1 .. Len(r.st)
    BY <2>2, <1>6
  <2> QED BY <2>1, <2>3, <2>4, <1>6, <1>8 DEF Same
<1>10. Own(b, s, r, m)
  BY <1>6, <1>8, <1>9, WorkFacts, SMTT(30)
<1>11. (left \cup {m}) \ {x} \subseteq (open \ {s}) \cup {m}
  BY DEF left
<1>12. Work(b, d, R, s, r, V, (open \ {s}) \cup {m})
  BY <1>8, <1>11, FitMore DEF Work
<1>13. At(r, m) = At(At(r, m).b, At(r, m).at) /\ At(r, m).b = r /\ At(r, m).at = m
  BY DEF At
<1> QED BY <1>1, <1>9, <1>10, <1>12, <1>13 DEF Listing, X, n

\* All of them, one at least.
LEMMA ParamsMean ==
  ASSUME NEW b, NEW d, NEW R, NEW open, NEW s, Ready(b, d, R, open, s), NEW end \in 1 .. Len(b.st),
         NEW req, Len(req) \in Nat \ {0}, \A i \in 1 .. Len(req) : IsParam(req[i]),
         R[s] = Lists(req, R[end])[Len(req)],
         NEW run, ParamsRunTo(run, At(b, s), req, end)
  PROVE  Solved(b, d, R, open, s, run[Len(req)].b)
<1> DEFINE n == Len(req)  f == Lists(req, R[end])
           T == {i \in 0 .. n : Listed(b, d, R, open, s, i, n, f, run[i])}
<1> HIDE DEF n, f
<1>1. /\ n \in Nat \ {0} /\ n = Len(req) /\ run[0] = At(b, s)
      /\ \A i \in 1 .. n : IsParam(req[i])
      /\ \A i \in 1 .. n : run[i] = NextParam(run[i - 1], req, i, end)
  <2> DEFINE w == At(b, s)
  <2>1. run = [i \in 0 .. n |-> IF i = 0 THEN w ELSE NextParam(run[i - 1], req, i, end)] /\ n \in Nat \ {0}
    BY DEF n, ParamsRunTo
  <2> HIDE DEF w
  <2>2. run[0] = w /\ \A i \in 1 .. n : run[i] = NextParam(run[i - 1], req, i, end)
    <3>1. \A i \in 0 .. n : run[i] = IF i = 0 THEN w ELSE NextParam(run[i - 1], req, i, end)
      BY <2>1, Zenon
    <3>2. 0 \in 0 .. n /\ \A i \in 1 .. n : i \in 0 .. n /\ i # 0
      BY <2>1
    <3> QED BY <3>1, <3>2
  <2> QED BY <2>1, <2>2 DEF n, w
<1>2. IsLists(req, R[end], f) /\ f[n] = R[s]
  <2>1. R[end] \subseteq Text /\ R[end] # {}
    BY ReadyFacts
  <2>2. Len(req) \in Nat
    OBVIOUS
  <2> QED BY <2>1, <2>2, ListsAre DEF f, n
<1>3. Listing(b, d, R, open, s, 0, n, f, run[0])
  <2>1. /\ Work(b, d, R, s, b, R, open) /\ Own(b, s, b, s) /\ b.st[s] = Blank /\ s \in open
    BY ReadyFacts
  <2>2. open = (open \ {s}) \cup {s} /\ n - 0 = n
    BY <1>1, <2>1
  <2>3. At(b, s) = At(At(b, s).b, At(b, s).at) /\ At(b, s).b = b /\ At(b, s).at = s
    BY DEF At
  <2>4. Listing(b, d, R, open, s, 0, n, f, At(b, s))
    BY <1>2, <2>1, <2>2, <2>3 DEF Listing
  <2> QED BY <1>1, <2>4
<1>4. 0 \in T
  BY <1>1, <1>3 DEF Listed
<1>5. ASSUME NEW k \in 1 .. n, k - 1 \in T PROVE k \in T
  <2>1. Listing(b, d, R, open, s, k - 1, n, f, run[k - 1]) /\ IsParam(req[k])
    <3>1. k - 1 # n
      BY <1>1
    <3> QED BY <1>1, <1>5, <3>1 DEF Listed
  <2> HIDE DEF T
  <2>2. run[k] = NextParam(run[k - 1], req, k, end)
    BY <1>1
  <2>3. CASE k = n
    <3>1. Solved(b, d, R, open, s, NextParam(run[k - 1], req, Len(req), end).b)
      BY <1>1, <1>2, <2>1, <2>3, LastParamMeans
    <3> QED BY <1>1, <2>2, <2>3, <3>1 DEF Listed, T
  <2>4. CASE k # n
    <3>1. k \in 1 .. Len(req) - 1 /\ Len(req) \in Nat
      BY <1>1, <2>4
    <3>2. Listing(b, d, R, open, s, k, Len(req), f, NextParam(run[k - 1], req, k, end))
      BY <1>1, <1>2, <2>1, <3>1, NextParamMeans
    <3> QED BY <1>1, <2>2, <2>4, <3>2 DEF Listed, T
  <2> QED BY <2>3, <2>4
<1> HIDE DEF T
<1>6. n \in T
  <2>1. \A k \in 0 .. n : k \in T
    BY <1>1, <1>4, <1>5, UpTo
  <2> QED BY <1>1, <2>1
<1> QED BY <1>1, <1>6 DEF T, Listed

-----------------------------------------------------------------------------
(* What a tool means *)

\* r is a byte e on from the state of word, in a tree with the finished words W.
Ended(b, d, R, o, base, e, W, word, r) ==
  \E v : OnTree(b, d, R, o, base, e, W, v, word) /\ r = LitStep(v, e)

\* A word and the symbol that ends it, walked from the root.
LEMMA TreeWordEnd ==
  ASSUME NEW b, NEW d, NEW R, NEW o, NEW base, NEW e \in Byte, NEW W, NEW v,
         OnTree(b, d, R, o, base, e, W, v, <<>>), NEW word \in Seq(Byte \ {e}), After(R[o], word) # {}
  PROVE  Ended(b, d, R, o, base, e, W, word, Lit(v, Append(word, e)))
<1> DEFINE n == Len(word)  long == Append(word, e)
           P == [k \in 0 .. n + 1 |->
                  IF k = n + 1 THEN {r \in {LitStep(w, e) : w \in Cursor} : Ended(b, d, R, o, base, e, W, word, r)}
                  ELSE {w \in Cursor : OnWord(b, d, R, o, base, e, W, word, k, w)}]
<1>1. /\ n \in Nat /\ v \in Cursor /\ R[o] \subseteq Text /\ Len(long) = n + 1 /\ long[n + 1] = e
      /\ \A k \in 1 .. n : long[k] = word[k]
  <2>1. v \in Cursor /\ R[o] \subseteq Text
    <3> DEFINE u == <<>>
    <3>1. OnTree(b, d, R, o, base, e, W, v, u)
      OBVIOUS
    <3> HIDE DEF u
    <3> QED BY <3>1, OnTreeFacts
  <2>2. /\ n \in Nat /\ Len(long) = n + 1 /\ long[n + 1] = e
        /\ \A k \in 1 .. n : long[k] = word[k]
    BY AppendProperties
  <2> QED BY <2>1, <2>2
<1> HIDE DEF n, long
<1>2. /\ \A r : r \in P[n + 1] <=> r \in {LitStep(w, e) : w \in Cursor} /\ Ended(b, d, R, o, base, e, W, word, r)
      /\ \A k \in 0 .. n : \A w : w \in P[k] <=> w \in Cursor /\ OnWord(b, d, R, o, base, e, W, word, k, w)
  BY <1>1
<1> HIDE DEF P
<1>3. v \in P[0]
  <2>1. Rest(word, 0) = word /\ word \in Text
    BY RestIs, MarkFacts, SeqMonotonic DEF Text
  <2>2. <<>> \in Text /\ <<>> \odot word = word
    BY <2>1, TextFacts
  <2>3. OnWord(b, d, R, o, base, e, W, word, 0, v)
    BY <2>1, <2>2 DEF OnWord
  <2> QED BY <1>1, <1>2, <2>3
<1>4. ASSUME NEW k \in 1 .. n + 1, NEW w \in P[k - 1] PROVE LitStep(w, long[k]) \in P[k]
  <2>1. k - 1 \in 0 .. n /\ w \in Cursor /\ OnWord(b, d, R, o, base, e, W, word, k - 1, w)
    <3>1. k - 1 \in 0 .. n
      BY <1>1
    <3> QED BY <3>1, <1>2, <1>4
  <2>2. CASE k = n + 1
    <3>1. PICK u \in Text : OnTree(b, d, R, o, base, e, W, w, u) /\ u \odot Rest(word, n) = word
      BY <1>1, <2>1, <2>2 DEF OnWord
    <3>2. Rest(word, n) = <<>> /\ u \odot <<>> = u
      BY RestIs, TextFacts DEF n
    <3>3. Ended(b, d, R, o, base, e, W, word, LitStep(w, e))
      BY <3>1, <3>2 DEF Ended
    <3>4. LitStep(w, long[k]) = LitStep(w, e)
      BY <1>1, <2>2
    <3> QED BY <1>2, <2>1, <2>2, <3>3, <3>4
  <2>3. CASE k # n + 1
    <3>1. k \in 1 .. Len(word) /\ k \in 1 .. n /\ k \in 0 .. n
      BY <1>1, <2>3 DEF n
    <3>2. OnWord(b, d, R, o, base, e, W, word, k, LitStep(w, word[k]))
      BY <1>1, <2>1, <3>1, WordStep
    <3>3. LitStep(w, word[k]) \in Cursor
      BY <3>2, OnTreeFacts DEF OnWord
    <3> QED BY <1>1, <1>2, <3>1, <3>2, <3>3
  <2> QED BY <2>2, <2>3
<1>5. Lit(v, long) \in P[n + 1]
  <2>1. Len(long) \in Nat
    BY <1>1
  <2>2. Lit(v, long) \in P[Len(long)]
    BY <1>1, <1>3, <1>4, <2>1, LitRuns
  <2> QED BY <1>1, <2>2
<1> QED BY <1>2, <1>5 DEF long

\* What follows the brace of a tool, and then Y.
ToolRest(tool, Y) ==
  LET req == Required(tool)
  IN  IF req = <<>> THEN Before({Closing}, Y) ELSE Lists(req, Y)[Len(req)]

LEMMA ToolRestType ==
  ASSUME NEW tool, IsTool(tool), NEW Y, Y \subseteq Text, Y # {}
  PROVE  ToolRest(tool, Y) \subseteq Text /\ ToolRest(tool, Y) # {}
<1> DEFINE req == Required(tool)
<1>1. CASE req = <<>>
  <2>1. ToolRest(tool, Y) = Before({Closing}, Y)
    BY <1>1 DEF ToolRest
  <2>2. {Closing} \subseteq Symbol /\ {Closing} # {}
    BY EndBytes
  <2> QED BY <2>1, <2>2, BeforeType
<1>2. CASE req # <<>>
  <2>1. Len(req) \in Nat /\ \A i \in 1 .. Len(req) : IsParam(req[i])
    BY RequiredLen
  <2>2. ToolRest(tool, Y) = Lists(req, Y)[Len(req)]
    BY <1>2 DEF ToolRest
  <2> HIDE DEF req
  <2>3. IsLists(req, Y, Lists(req, Y))
    BY <2>1, ListsAre
  <2>4. Len(req) \in 0 .. Len(req)
    BY <2>1
  <2> QED BY <2>2, <2>3, <2>4 DEF IsLists
<1> QED BY <1>1, <1>2

\* The parameters of a tool, from the state after its brace.
LEMMA RestMeans ==
  ASSUME NEW b, NEW d, NEW R, NEW open, NEW s, Ready(b, d, R, open, s), NEW end \in 1 .. Len(b.st),
         NEW tool, IsTool(tool), R[s] = ToolRest(tool, R[end]), NEW r, ToolRuns(At(b, s), Required(tool), end, r)
  PROVE  Solved(b, d, R, open, s, r)
<1> DEFINE req == Required(tool)
<1>1. CASE req = <<>>
  <2> DEFINE word == <<"}">>
  <2>1. word \in Seq(Byte) /\ word # <<>> /\ word = <<Closing>> /\ R[end] \subseteq Text
    <3>1. R[end] \subseteq Text
      BY ReadyFacts
    <3>2. <<Closing>> \in Seq(Byte) /\ word = <<Closing>>
      <4>1. word = <<Closing>>
        BY DEF Closing
      <4>2. <<Closing>> \in Seq(Byte)
        BY EndBytes, Singles
      <4> QED BY <4>1, <4>2
    <3>3. word # <<>>
      OBVIOUS
    <3> HIDE DEF word
    <3> QED BY <3>1, <3>2, <3>3
  <2>2. r = LitTo(At(b, s), word, end)
    BY <1>1 DEF ToolRuns
  <2>3. R[s] = Before({Closing}, R[end])
    BY <1>1 DEF ToolRest
  <2> HIDE DEF word
  <2>4. Then({word}, R[end]) = Before({Closing}, R[end])
    <3>1. word[1] = Closing /\ Rest(word, 1) = <<>>
      <4>1. Len(word) = 1 /\ word[1] = Closing
        BY <2>1
      <4>2. Rest(word, Len(word)) = <<>>
        BY <2>1, RestIs
      <4> QED BY <4>1, <4>2
    <3>2. Before({word[1]}, Then({Rest(word, 1)}, R[end])) = Then({word}, R[end])
      <4>1. R[end] # {}
        BY ReadyFacts
      <4> QED BY <2>1, <4>1, WordThen
    <3>3. Then({<<>>}, R[end]) = R[end]
      BY <2>1, ThenNone
    <3> QED BY <3>1, <3>2, <3>3
  <2>5. R[s] = Then({word}, R[end])
    BY <2>3, <2>4
  <2>6. Valued(b, d, R, open, s, LitTo(At(b, s), word, end))
    BY <2>1, <2>5, OneWord
  <2> QED BY <2>2, <2>6 DEF Valued
<1>2. CASE req # <<>>
  <2>1. Len(req) \in Nat \ {0} /\ \A i \in 1 .. Len(req) : IsParam(req[i])
    BY <1>2, RequiredLen
  <2>2. R[s] = Lists(req, R[end])[Len(req)]
    BY <1>2 DEF ToolRest
  <2>3. ToolRuns(At(b, s), req, end, r)
    OBVIOUS
  <2> HIDE DEF req
  <2>4. PICK run : ParamsRunTo(run, At(b, s), req, end) /\ r = run[Len(req)].b
    BY <1>2, <2>3 DEF ToolRuns
  <2>5. Solved(b, d, R, open, s, run[Len(req)].b)
    <3> HIDE <2>4
    <3> QED BY <2>1, <2>2, <2>4, ParamsMean
  <2> QED BY <2>4, <2>5
<1> QED BY <1>1, <1>2

\* r has the names in W, each with its brace and what follows it, in a tree from state o of b.
Named(b, d, R, o, W, r) == OnTree(b, d, R, o, {}, Brace, W, At(r, o), <<>>)

\* The state after a brace that no other name has.
Braced(b, d, R, o, W, name, w) ==
  \E a, y, T, N, lab, U :
    /\ Tree(b, d, R, o, {}, Brace, W, a, T, N, lab) /\ y \in N /\ lab[y] = name
    /\ Tree(b, d, R, o, {w.at}, Brace, W \cup {name}, w.b, U, N, lab)
    /\ w.at \notin N /\ w = At(w.b, w.at) /\ w.b.st[w.at] = Blank /\ w.at \in 1 .. Len(w.b.st)
    /\ U[w.at] = After(R[o], name \odot <<Brace>>) /\ Own(b, o, w.b, w.at)

LEMMA BraceMeans ==
  ASSUME NEW b, NEW d, NEW R, NEW o, NEW W, NEW v, NEW name, name \in Seq(Byte \ {Brace}), name \notin W,
         OnTree(b, d, R, o, {}, Brace, W, v, name), After(R[o], name \odot <<Brace>>) # {}
  PROVE  Braced(b, d, R, o, W, name, LitStep(v, Brace))
<1> DEFINE a == v.b  y == v.at  q == a.st[y]  n == Len(a.st) + 1  Z == After(R[o], name \odot <<Brace>>)
           u == AddLit(Add(a), y, Brace, n)  w == LitStep(v, Brace)
<1>1. PICK T, N, lab : Tree(b, d, R, o, {}, Brace, W, a, T, N, lab) /\ y \in N /\ lab[y] = name
  BY DEF OnTree
<1>2. v = At(a, y) /\ Brace \in Byte /\ Brace \in Symbol /\ Brace \notin Marks
  <2>1. Brace \in Byte
    BY Bytes DEF Brace
  <2> QED BY <2>1, MarkFacts DEF OnTree
<1> HIDE DEF a, y
<1>3. /\ Work(b, d, R, o, a, T, {} \cup N) /\ Own(b, o, a, y) /\ q \in Row /\ q.class = NoClass
      /\ Len(a.st) \in Nat /\ y \in 1 .. Len(a.st) /\ R[o] \subseteq Text /\ name \in Text
      /\ Branches(q, y, T, N, lab, Brace, R[o], W)
  <2>1. TreeState(b, d, R, o, {}, Brace, W, a, T, N, lab, y)
    BY <1>1, TreeFacts
  <2> QED BY <1>1, <2>1 DEF TreeState
<1> HIDE DEF q
<1>4. First(q.lits, Brace) = None
  <2>1. First(q.lits, Brace) = Goes(q, y, Brace)
    <3>1. NoClass.exit = None /\ NoClass.bytes = {}
      BY DEF NoClass
    <3> QED BY <3>1, <1>2, <1>3, GoesIs
  <2> DEFINE g == Goes(q, y, Brace)
  <2>2. IF g = None THEN \A z \in N : lab[z] # name \odot <<Brace>> ELSE g \in N /\ lab[g] = name \odot <<Brace>>
    <3> HIDE DEF g
    <3>1. LET h == Goes(q, y, Brace)
              x == lab[y] \odot <<Brace>>
          IN  IF Brace = Brace /\ lab[y] \in W THEN T[h] = After(R[o], x)
              ELSE IF h = None THEN \A z \in N : lab[z] # x
              ELSE h \in N /\ lab[h] = x
      BY <1>2, <1>3 DEF Branches
    <3> QED BY <3>1, <1>1 DEF g
  <2>3. \A z \in N : lab[z] \in Seq(Symbol \ {Brace})
    <3> TAKE z \in N
    <3>1. TreeState(b, d, R, o, {}, Brace, W, a, T, N, lab, z)
      BY <1>1, TreeFacts
    <3> QED BY <3>1 DEF TreeState
  <2>4. name \odot <<Brace>> \notin Seq(Symbol \ {Brace})
    BY <1>2, <1>3, EndOut
  <2> HIDE DEF g
  <2>5. g = None
    BY <2>2, <2>3, <2>4
  <2> QED BY <2>1, <2>5 DEF g
<1>5. w = At(u, n)
  <2>1. First(v.b.st[v.at].lits, Brace) = None /\ v.b = a /\ v.at = y
    BY <1>4 DEF q, a, y
  <2>2. NewIn(a) = n
    BY DEF NewIn
  <2> QED BY <2>1, <2>2 DEF LitStep
<1>6. Z \subseteq Text /\ Z # {}
  BY DEF After
<1> HIDE DEF Z, w
<1>7. PICK U : Linked(b, d, R, o, a, T, {} \cup N, y, WithLit(q, Brace, n), Z, u, U)
  <2>1. y \in {} \cup N
    BY <1>1
  <2>2. MayLink(b, d, R, o, a, T, {} \cup N, y, WithLit(a.st[y], Brace, Len(a.st) + 1), Z,
                AddLit(Add(a), y, Brace, Len(a.st) + 1))
    BY <2>1, <1>2, <1>3, <1>6, LinkLit
  <2> QED BY <2>2 DEF MayLink, n, u, q
<1> HIDE DEF u
<1>8. /\ Work(b, d, R, o, u, U, {n} \cup N) /\ Len(u.st) = n /\ u.st[n] = Blank /\ U[n] = Z
      /\ Same(a, T, U) /\ u.st[y] = WithLit(q, Brace, n) /\ Edits(a, u, y)
  <2>1. ({} \cup N) \cup {n} = {n} \cup N
    OBVIOUS
  <2> QED BY <2>1, <1>7 DEF Linked, n
<1>9. Tree(b, d, R, o, {n}, Brace, W \cup {lab[y]}, u, U, N, lab)
  <2>1. n \in Index
    BY <1>3 DEF Index
  <2>2. /\ \A k : Goes(WithLit(q, Brace, n), y, k) = IF k = Brace THEN n ELSE Goes(q, y, k)
        /\ WithLit(q, Brace, n).class = q.class
    BY <2>1, <1>2, <1>3, <1>4, GoesLit
  <2>3. /\ \A k : Goes(u.st[y], y, k) = IF k = Brace THEN n ELSE Goes(a.st[y], y, k)
        /\ u.st[y].class = NoClass
    BY <2>2, <1>3, <1>8 DEF q
  <2>4. lab[y] \notin W /\ U[n] = After(R[o], lab[y] \odot <<Brace>>)
    BY <1>1, <1>8 DEF Z
  <2> HIDE DEF n
  <2> QED BY <2>3, <2>4, <1>1, <1>8, TreeEnd
<1>10. n \notin N /\ n \in 1 .. Len(u.st) /\ Own(b, o, u, n)
  <2>1. \A z \in N : z \in 1 .. Len(a.st)
    <3> TAKE z \in N
    <3>1. TreeState(b, d, R, o, {}, Brace, W, a, T, N, lab, z)
      BY <1>1, TreeFacts
    <3> QED BY <3>1 DEF TreeState
  <2>2. Len(b.st) <= Len(a.st) /\ Len(b.st) \in Nat
    BY <1>3, WorkFacts
  <2>3. n \in 1 .. Len(u.st) /\ n > Len(b.st) /\ n \notin 1 .. Len(a.st)
    BY <2>2, <1>3, <1>8
  <2> QED BY <2>1, <2>3, <1>8, WorkFacts
<1> HIDE DEF n
<1>11. w.b = u /\ w.at = n
  BY <1>5 DEF At
<1> QED BY <1>1, <1>5, <1>8, <1>9, <1>10, <1>11 DEF Braced, w, Z

LEMMA ToolMeans ==
  ASSUME NEW b, NEW d, NEW R, NEW o, NEW W, NEW a, Named(b, d, R, o, W, a),
         NEW end \in 1 .. Len(b.st), NEW tool, IsTool(tool), tool.name \notin W,
         After(R[o], tool.name \odot <<Brace>>) = ToolRest(tool, R[end]), R[end] \subseteq Text, R[end] # {},
         NEW r, ToolRuns(Lit(At(a, o), Append(tool.name, Brace)), Required(tool), end, r)
  PROVE  Named(b, d, R, o, W \cup {tool.name}, r)
<1> DEFINE name == tool.name  V == W \cup {name}  w == Lit(At(a, o), Append(name, Brace))
<1>1. name \in Seq(Byte \ {Brace}) /\ Brace \in Byte /\ name \in Text /\ <<Brace>> \in Text /\ R[o] \subseteq Text
  <2>1. Brace \in Byte /\ name \in Seq(Byte \ {Brace})
    BY Bytes DEF Brace, IsTool
  <2>2. Brace \in Symbol /\ Byte \ {Brace} \subseteq Symbol
    BY <2>1, MarkFacts
  <2>3. R[o] \subseteq Text
    <3> DEFINE e == <<>>
    <3>1. OnTree(b, d, R, o, {}, Brace, W, At(a, o), e)
      BY DEF Named
    <3> HIDE DEF e
    <3> QED BY <3>1, OnTreeFacts
  <2>4. name \in Text
    BY <2>1, <2>2, SeqMonotonic DEF Text
  <2> QED BY <2>1, <2>2, <2>3, <2>4, TextFacts
<1>2. ToolRest(tool, R[end]) # {}
  BY ToolRestType
<1> HIDE DEF name
<1>3. After(R[o], name \odot <<Brace>>) # {} /\ After(R[o], name) # {}
  <2>1. After(R[o], name \odot <<Brace>>) # {}
    BY <1>2 DEF name
  <2> QED BY <2>1, <1>1, AfterIs
<1>4. Ended(b, d, R, o, {}, Brace, W, name, w)
  <2>1. OnTree(b, d, R, o, {}, Brace, W, At(a, o), <<>>)
    BY DEF Named
  <2> DEFINE c == At(a, o)
  <2> HIDE DEF c
  <2>2. OnTree(b, d, R, o, {}, Brace, W, c, <<>>)
    BY <2>1 DEF c
  <2>3. Ended(b, d, R, o, {}, Brace, W, name, Lit(c, Append(name, Brace)))
    BY <2>2, <1>1, <1>3, TreeWordEnd
  <2> QED BY <2>3 DEF c
<1> HIDE DEF w
<1>5. Braced(b, d, R, o, W, name, w)
  <2>1. PICK v : OnTree(b, d, R, o, {}, Brace, W, v, name) /\ w = LitStep(v, Brace)
    BY <1>4 DEF Ended
  <2>2. name \notin W
    BY DEF name
  <2> QED BY <2>1, <2>2, <1>1, <1>3, BraceMeans
<1> DEFINE u == w.b  n == w.at
<1>6. PICK N, lab, U : /\ Tree(b, d, R, o, {n}, Brace, V, u, U, N, lab)
                       /\ n \notin N /\ w = At(u, n) /\ u.st[n] = Blank /\ n \in 1 .. Len(u.st)
                       /\ U[n] = ToolRest(tool, R[end]) /\ Own(b, o, u, n)
  <2>1. After(R[o], name \odot <<Brace>>) = ToolRest(tool, R[end])
    BY DEF name
  <2> QED BY <2>1, <1>5 DEF Braced
<1> HIDE DEF u, n, V
<1>7. Work(b, d, R, o, u, U, {n} \cup N)
  BY <1>6 DEF Tree
<1>8. U[end] = R[end] /\ end \in 1 .. Len(u.st)
  <2>1. \A x \in 1 .. Len(b.st) : U[x] = R[x] /\ x \in 1 .. Len(u.st)
    BY <1>7, SameIs
  <2> QED BY <2>1
<1>9. Solved(u, d, U, {n} \cup N, n, r)
  <2>1. Fit(u, d, U, {n} \cup N) /\ n # d
    BY <1>6, <1>7, WorkFacts
  <2>2. Ready(u, d, U, {n} \cup N, n)
    BY <2>1, <1>6 DEF Ready
  <2>3. U[n] = ToolRest(tool, U[end])
    BY <1>6, <1>8
  <2>4. ToolRuns(At(u, n), Required(tool), end, r)
    BY <1>6 DEF w, name
  <2> DEFINE open == {n} \cup N
  <2> HIDE DEF open
  <2>5. Ready(u, d, U, open, n)
    BY <2>2 DEF open
  <2>6. Solved(u, d, U, open, n, r)
    BY <2>3, <2>4, <2>5, <1>8, RestMeans
  <2> QED BY <2>6 DEF open
<1>10. PICK S : Work(b, d, R, o, r, S, ({n} \cup N) \ {n}) /\ Same(u, U, S) /\ Edits(u, r, n)
  BY <1>6, <1>7, <1>9, WorkPart
<1>11. Work(b, d, R, o, r, S, {} \cup N)
  <2>1. ({n} \cup N) \ {n} = {} \cup N
    BY <1>6
  <2> QED BY <2>1, <1>10
<1>12. Tree(b, d, R, o, {}, Brace, V, r, S, N, lab)
  BY <1>6, <1>10, <1>11, TreeKept
<1>13. OnTree(b, d, R, o, {}, Brace, V, At(r, o), <<>>)
  <2>1. o \in N /\ lab[o] = <<>>
    BY <1>12 DEF Tree
  <2>2. At(r, o).b = r /\ At(r, o).at = o
    BY DEF At
  <2> QED BY <2>1, <2>2, <1>12 DEF OnTree
<1> QED BY <1>13 DEF Named, V, name
-----------------------------------------------------------------------------
(* The whole automaton *)

IsToolSet(ts) ==
  /\ ts \in Seq(Range(ts)) \ {<<>>}
  /\ \A i \in DOMAIN ts : IsTool(ts[i])
  /\ \A i, j \in DOMAIN ts : ts[i].name = ts[j].name => i = j

\* The state a call ends in.
LEMMA FinalFacts ==
  /\ Final \in Row /\ Final.lits = <<>> /\ Final.toks = <<>> /\ Final.class = NoClass
  /\ Final.accept = TRUE /\ \A n \in Nat : Points(Final, n)
<1>1. Final = [lits |-> <<>>, toks |-> <<>>, class |-> NoClass, accept |-> TRUE]
  <2>1. [Blank EXCEPT !.accept = TRUE] =
          [lits |-> Blank.lits, toks |-> Blank.toks, class |-> Blank.class, accept |-> TRUE]
    <3>1. \A q \in Row : \A x : [q EXCEPT !.accept = x] =
                   [lits |-> q.lits, toks |-> q.toks, class |-> q.class, accept |-> x]
      BY DEF Row
    <3> QED BY <3>1, BlankFacts
  <2> QED BY <2>1, BlankFacts DEF Final
<1>2. Final.lits = <<>> /\ Final.toks = <<>> /\ Final.class = NoClass /\ Final.accept = TRUE
  BY <1>1
<1>3. Final \in Row
  BY <1>1, BlankFacts DEF Row
<1>4. \A n \in Nat : Points(Final, n)
  BY <1>2, BlankFacts DEF Points
<1> QED BY <1>2, <1>3, <1>4

\* The one state the builder begins with.
FirstState == [st |-> <<Blank>>, panic |-> FALSE]
LEMMA FirstOk == Ok(FirstState, None, {Start}) /\ Len(FirstState.st) = 1 /\ FirstState.st[Start] = Blank
<1> DEFINE b0 == FirstState
<1>1. b0 = [st |-> <<Blank>>, panic |-> FALSE]
  BY DEF FirstState
<1> HIDE DEF b0
<1> DEFINE st == <<Blank>>
<1>2. st \in Seq(Row) /\ Len(st) = 1 /\ st[1] = Blank
  BY BlankFacts
<1> HIDE DEF st
<1>3. b0.st = st /\ b0.panic = FALSE /\ b0 \in Builder
  BY <1>1, <1>2 DEF Builder, st
<1>4. Points(Blank, 1) /\ Blank.accept = FALSE
  BY BlankFacts
<1>5. ASSUME NEW s \in 1 .. 1
      PROVE  Points(b0.st[s], 1) /\ b0.st[s].accept = (s = 0) /\ s \in {1}
  <2>1. s = 1
    OBVIOUS
  <2>2. b0.st[s] = Blank /\ Blank.accept = FALSE /\ Points(Blank, 1)
    BY <1>2, <1>3, <1>4, <2>1
  <2>3. (s = 0) = FALSE /\ s \in {1}
    BY <2>1
  <2> QED BY <2>2, <2>3
<1>6. Ok(b0, 0, {1})
  <2>1. Len(b0.st) = 1 /\ 0 \in 0 .. Len(b0.st)
    BY <1>2, <1>3
  <2> QED BY <1>3, <1>5, <2>1 DEF Ok
<1> QED BY <1>2, <1>3, <1>6 DEF None, Start, st, b0

\* The prefix, the end of a call and the accepting state.
LEMMA FrameOk ==
  LET head == Lit(Tok(At([st |-> <<Blank>>, panic |-> FALSE], Start), CallOpen), CallWord)
      end == NewIn(head.b)
      done == Tok(At(Add(head.b), end), CallClose)
      first == [done.b EXCEPT !.st[done.at].accept = TRUE]
  IN  Ok(first, done.at, {done.at, head.at}) /\ Spelt(first, done.at, head.at, end, {})
<1> DEFINE b0 == [st |-> <<Blank>>, panic |-> FALSE]
           open == Tok(At(b0, Start), CallOpen)
           head == Lit(open, CallWord)
           h == head.at
           end == NewIn(head.b)
           a == Add(head.b)
           done == Tok(At(a, end), CallClose)
           d == done.at
           first == [done.b EXCEPT !.st[d].accept = TRUE]
<1>1. Ok(b0, None, {Start}) /\ Len(b0.st) = 1 /\ b0.st[Start] = Blank
  BY FirstOk DEF FirstState
<1>0. None = 0 /\ None \in Nat /\ Start = 1
  BY DEF None, Start
<1> HIDE DEF b0
<1>2. /\ Ok(open.b, None, {2}) /\ open.at = 2 /\ Len(open.b.st) = 2 /\ open.b.st[2] = Blank
      /\ open = At(open.b, open.at)
  <2>1. b0.st[Start].toks = <<>> /\ CallOpen \in Delims /\ Start \in 1 .. Len(b0.st) /\ Start # None
    BY <1>0, <1>1, BlankFacts DEF Delims
  <2>2. LET n == Len(b0.st) + 1  r == Tok(At(b0, Start), CallOpen)
        IN  /\ r.at = n /\ Ok(r.b, None, ({Start} \ {Start}) \cup {n})
            /\ Links(b0, r.b, Start, WithTok(b0.st[Start], CallOpen, n))
    BY <1>1, <2>1, LinkTokOk
  <2>3. open = At(open.b, open.at)
    BY DEF Tok, At
  <2> HIDE DEF open
  <2>4. open.at = 2 /\ Ok(open.b, None, ({Start} \ {Start}) \cup {2}) /\ Len(open.b.st) = 2 /\ open.b.st[2] = Blank
    BY <1>0, <1>1, <2>2 DEF open, Links
  <2>5. Ok(open.b, None, {2})
    BY <2>4, OkMore, ({Start} \ {Start}) \cup {2} \subseteq {2}
  <2> QED BY <2>3, <2>4, <2>5
<1> HIDE DEF open
<1>3. Ok(head.b, None, {h}) /\ h \in 3 .. Len(head.b.st) /\ head.b.st[h] = Blank /\ Len(head.b.st) \in Nat
  <2>1. IsNew(open.b, None, {2}, 2, CallWord)
    <3>1. Fresh(open.b, None, {2}, 2)
      BY <1>0, <1>2 DEF Fresh
    <3> QED BY <3>1, FreshFacts, Bytes
  <2>2. LET w == Lit(At(open.b, 2), CallWord)
        IN  Ok(w.b, None, ({2} \ {2}) \cup {w.at}) /\ Chained(open.b, w, 2, CallWord[1])
    BY <2>1, Chain
  <2>3. head = Lit(At(open.b, 2), CallWord)
    BY <1>2
  <2> HIDE DEF head
  <2>4. Ok(head.b, None, ({2} \ {2}) \cup {h}) /\ h \in 3 .. Len(head.b.st) /\ head.b.st[h] = Blank
    BY <1>2, <2>2, <2>3 DEF Chained
  <2>5. Ok(head.b, None, {h})
    BY <2>4, OkMore, ({2} \ {2}) \cup {h} \subseteq {h}
  <2> QED BY <2>4, <2>5, OkFacts
<1> HIDE DEF head, h
<1>4. /\ Ok(a, None, {h} \cup {end}) /\ end = Len(head.b.st) + 1 /\ Len(a.st) = end
      /\ a.st[end] = Blank /\ a.st[h] = Blank
  <2> HIDE DEF done, first, d
  <2>1. /\ Ok(a, None, {h} \cup {end}) /\ end = Len(head.b.st) + 1 /\ Len(a.st) = Len(head.b.st) + 1
        /\ a.st[end] = Blank /\ \A x \in 1 .. Len(head.b.st) : a.st[x] = head.b.st[x]
    BY <1>3, AddOk
  <2> QED BY <1>3, <2>1
<1> HIDE DEF end, a
<1>5. /\ Ok(done.b, None, {h, d}) /\ d = end + 1 /\ Len(done.b.st) = d /\ done.b.st[d] = Blank
      /\ done.b.st[h] = Blank
  <2>1. a.st[end].toks = <<>> /\ CallClose \in Delims /\ end \in 1 .. Len(a.st) /\ end # None
    BY <1>0, <1>3, <1>4, BlankFacts DEF Delims
  <2>2. LET n == Len(a.st) + 1  r == Tok(At(a, end), CallClose)
        IN  /\ r.at = n /\ Ok(r.b, None, (({h} \cup {end}) \ {end}) \cup {n})
            /\ Links(a, r.b, end, WithTok(a.st[end], CallClose, n))
    BY <1>4, <2>1, LinkTokOk, ZenonT(60)
  <2> HIDE DEF done
  <2>3. /\ d = end + 1 /\ Ok(done.b, None, (({h} \cup {end}) \ {end}) \cup {d})
        /\ Links(a, done.b, end, WithTok(a.st[end], CallClose, d))
    BY <1>4, <2>2 DEF done
  <2>4. Ok(done.b, None, {h, d})
    BY <2>3, OkMore, (({h} \cup {end}) \ {end}) \cup {d} \subseteq {h, d}
  <2>5. Len(done.b.st) = d /\ done.b.st[d] = Blank
    BY <1>4, <2>3 DEF Links
  <2>6. done.b.st[h] = Blank
    BY <1>3, <1>4, <2>3, SMTT(30) DEF Links, Edits
  <2> QED BY <2>3, <2>4, <2>5, <2>6
<1> HIDE DEF d
<1>6. first = Put(done.b, d, Final)
  <2> HIDE DEF done, first
  <2>1. done.b \in Builder /\ d \in 1 .. Len(done.b.st)
    <3>1. done.b \in Builder
      BY <1>5 DEF Ok
    <3> QED BY <3>1, <1>3, <1>4, <1>5
  <2>2. first = [done.b EXCEPT !.st = [done.b.st EXCEPT ![d] = Final]]
    BY <1>5, <2>1 DEF Final, first
  <2> QED BY <2>1, <2>2, Fields DEF Put
<1> HIDE DEF first
<1>7. Final \in Row /\ Final.lits = <<>> /\ Final.accept = TRUE /\ \A n \in Nat : Points(Final, n)
  BY FinalFacts
<1>8. /\ first \in Builder /\ first.panic = FALSE /\ Len(first.st) = d /\ first.st[d] = Final
      /\ \A x \in 1 .. d : x # d => first.st[x] = done.b.st[x]
      /\ d \in Nat /\ d > end /\ h \in 1 .. d /\ h < end /\ h # d /\ end \in 1 .. d
  <2>1. done.b.st \in Seq(Row) /\ done.b.panic = FALSE /\ d \in 1 .. Len(done.b.st) /\ Len(done.b.st) = d
    <3> HIDE DEF done
    <3>1. done.b \in Builder /\ ~done.b.panic
      BY <1>5 DEF Ok
    <3> QED BY <3>1, <1>3, <1>4, <1>5, Fields
  <2>2. first.st = [done.b.st EXCEPT ![d] = Final] /\ first.panic = FALSE
        /\ first = [st |-> first.st, panic |-> first.panic]
    BY <1>6, <2>1 DEF Put
  <2>3. /\ first.st \in Seq(Row) /\ Len(first.st) = d /\ first.st[d] = Final
        /\ \A x \in 1 .. d : x # d => first.st[x] = done.b.st[x]
    BY <1>7, <2>1, <2>2
  <2>4. first \in Builder
    BY <2>2, <2>3 DEF Builder
  <2>5. d \in Nat /\ d > end /\ h \in 1 .. d /\ h < end /\ h # d /\ end \in 1 .. d
    <3> DEFINE m == Len(head.b.st)
    <3>1. m \in Nat /\ h \in 1 .. m
      BY <1>3
    <3>2. end = m + 1 /\ d = end + 1
      BY <1>4, <1>5
    <3> HIDE DEF m
    <3> QED BY <3>1, <3>2
  <2> QED BY <2>2, <2>3, <2>4, <2>5, Zenon
<1>9. Ok(first, d, {d, h})
  <2>1. ASSUME NEW s \in 1 .. d
        PROVE  Points(first.st[s], d) /\ first.st[s].accept = (s = d) /\ (s \in {d, h} \/ Leads(first.st[s]))
    <3>1. CASE s = d
      BY <3>1, <1>7, <1>8
    <3>2. CASE s # d
      <4>1. first.st[s] = done.b.st[s] /\ s # None
        BY <3>2, <1>0, <1>8
      <4>2. Points(done.b.st[s], d) /\ done.b.st[s].accept = (s = None) /\ (s \in {h, d} \/ Leads(done.b.st[s]))
        BY <1>5, <1>8 DEF Ok
      <4> QED BY <4>1, <4>2, <3>2
    <3> QED BY <3>1, <3>2
  <2> QED BY <1>8, <2>1 DEF Ok
<1>10. Spelt(first, d, h, end, {})
  <2> DEFINE L == [x \in {h} |-> <<>>]
  <2>1. first.st[h].lits = <<>>
    BY <1>5, <1>8, BlankFacts
  <2>2. Trie(first, d, h, {}, {h}, L)
    BY <1>8, <2>1 DEF Trie
  <2> QED BY <1>8, <2>2 DEF Spelt
<1> QED BY <1>9, <1>10 DEF first, d, done, a, end, h, head, open, b0

\* The automaton after k tools.
BuiltUp(ts, d, head, end, k, b) ==
  /\ b \in Builder /\ Ok(b, d, IF k = 0 THEN {d, head} ELSE {d})
  /\ Spelt(b, d, head, end, {ts[j].name : j \in 1 .. k})

\* The k-th tool is added, under a name none of the earlier ones has.
GrownBy(ts, d, head, end, k, b, r) ==
  /\ BuiltUp(ts, d, head, end, k, r)
  /\ ToolRuns(Lit(At(b, head), Append(ts[k].name, "{")), Required(ts[k]), end, r)
  /\ ts[k].name \notin {ts[j].name : j \in 1 .. k - 1}

LEMMA BuildStep ==
  ASSUME NEW ts, IsToolSet(ts), NEW d, NEW head, NEW end, NEW k \in 1 .. Len(ts), NEW b,
         BuiltUp(ts, d, head, end, k - 1, b)
  PROVE  GrownBy(ts, d, head, end, k, b, AddTool(b, head, end, ts[k]))
<1> DEFINE used == {ts[j].name : j \in 1 .. k - 1}  all == {ts[j].name : j \in 1 .. k}
           r == AddTool(b, head, end, ts[k])
<1>1. Len(ts) \in Nat /\ DOMAIN ts = 1 .. Len(ts) /\ IsTool(ts[k])
  BY DEF IsToolSet
<1>2. ts[k].name \notin used
  <2>1. SUFFICES ASSUME NEW j \in 1 .. k - 1, ts[j].name = ts[k].name PROVE FALSE
    OBVIOUS
  <2>2. j \in DOMAIN ts /\ k \in DOMAIN ts /\ j # k
    BY <1>1
  <2> QED BY <2>1, <2>2 DEF IsToolSet
<1>3. used \cup {ts[k].name} = all
  <2>1. 1 .. k = (1 .. k - 1) \cup {k}
    BY <1>1
  <2> QED BY <2>1
<1>4. Ok(b, d, {d, head}) /\ Spelt(b, d, head, end, used)
  <2>1. Ok(b, d, IF k - 1 = 0 THEN {d, head} ELSE {d}) /\ {d} \subseteq {d, head}
    BY DEF BuiltUp
  <2>2. Ok(b, d, {d, head})
    BY <2>1, OkMore
  <2> QED BY <2>2 DEF BuiltUp
<1> HIDE DEF used, all, r
<1>5. /\ Spelt(r, d, head, end, used \cup {ts[k].name}) /\ Ok(r, d, {d})
      /\ ToolRuns(Lit(At(b, head), Append(ts[k].name, "{")), Required(ts[k]), end, r)
  BY <1>1, <1>2, <1>4, AddToolOk, Zenon DEF r
<1>6. r \in Builder /\ k # 0
  <2>1. Ok(r, d, {d})
    BY <1>5
  <2> QED BY <2>1 DEF Ok
<1>7. BuiltUp(ts, d, head, end, k, r)
  BY <1>3, <1>5, <1>6 DEF BuiltUp, all
<1> QED BY <1>2, <1>5, <1>7, Zenon DEF GrownBy, used, r

\* The frame, and the tools that are added to it.
FrameOpen == Tok(At(FirstState, Start), CallOpen)
FrameHead == Lit(FrameOpen, CallWord)
FrameEnd == NewIn(FrameHead.b)
FrameDone == Tok(At(Add(FrameHead.b), FrameEnd), CallClose)
Frame == [FrameDone.b EXCEPT !.st[FrameDone.at].accept = TRUE]


LEMMA BuildRuns ==
  ASSUME NEW ts, Len(ts) \in Nat, NEW P, Frame \in P[0],
         \A k \in 1 .. Len(ts) : \A b \in P[k - 1] : AddTool(b, FrameHead.at, FrameEnd, ts[k]) \in P[k]
  PROVE  Build(ts) \in P[Len(ts)]
<1> DEFINE head == FrameHead  end == FrameEnd  first == Frame
           n == Len(ts)
           IsRun(f) == f = [k \in 0 .. n |->
             IF k = 0 THEN first ELSE Edit(LAMBDA b : AddTool(b, head.at, end, ts[k]), f[k - 1])]
           run == CHOOSE f : IsRun(f)
           next(b, k) == AddTool(b, head.at, end, ts[k])
           step == [k \in 1 .. n |-> [b \in P[k - 1] |-> next(b, k)]]
<1>1. Build(ts) = run[n]
  BY Zenon DEF Build, Frame, FrameHead, FrameEnd, FrameDone, FrameOpen, FirstState
<1>2. n \in Nat
  OBVIOUS
<1>3. ASSUME NEW b, NEW k PROVE Edit(LAMBDA v : AddTool(v, head.at, end, ts[k]), b) = next(b, k)
  <2> HIDE DEF head, end
  <2>1. {AddTool(v, head.at, end, ts[k]) : v \in {b}} = {next(b, k)}
    OBVIOUS
  <2>2. Edit(LAMBDA v : AddTool(v, head.at, end, ts[k]), b)
          = CHOOSE u \in {AddTool(v, head.at, end, ts[k]) : v \in {b}} : TRUE
    BY Zenon DEF Edit
  <2> QED BY <2>1, <2>2, OnlyOne
<1>4. \A f : IsRun(f) <=> f = [k \in 0 .. n |-> IF k = 0 THEN first ELSE next(f[k - 1], k)]
  <2> HIDE DEF first, head, end, next
  <2> QED BY <1>3, Zenon
<1>5. first \in P[0] /\ \A k \in 1 .. n : \A b \in P[k - 1] : next(b, k) \in P[k]
  OBVIOUS
<1> HIDE DEF first, head, end, IsRun
<1>6. \A k \in 1 .. n : \A b \in P[k - 1] : step[k][b] = next(b, k)
  BY <1>2
<1> HIDE DEF step, next
<1>7. PICK f : IsFold(f, n, first, step) /\ \A k \in 0 .. n : f[k] \in P[k]
  <2>1. \A k \in 1 .. n : \A b \in P[k - 1] : step[k][b] \in P[k]
    BY <1>5, <1>6
  <2> HIDE DEF n
  <2> QED BY <1>2, <1>5, <2>1, Fold
<1>8. IsRun(f)
  <2>1. \A k \in 1 .. n : step[k][f[k - 1]] = next(f[k - 1], k)
    <3>1. \A k \in 1 .. n : f[k - 1] \in P[k - 1]
      BY <1>2, <1>7
    <3> QED BY <3>1, <1>6
  <2> HIDE DEF n
  <2>2. \A k \in 0 .. n : (IF k = 0 THEN first ELSE step[k][f[k - 1]])
                          = (IF k = 0 THEN first ELSE next(f[k - 1], k))
    BY <1>2, <2>1
  <2>3. f = [k \in 0 .. n |-> IF k = 0 THEN first ELSE step[k][f[k - 1]]]
    BY <1>7, Zenon DEF IsFold
  <2>4. f = [k \in 0 .. n |-> IF k = 0 THEN first ELSE next(f[k - 1], k)]
    BY <2>2, <2>3
  <2> QED BY <1>4, <2>4, Zenon
<1>9. IsRun(run)
  BY <1>8, Zenon
<1> HIDE DEF run
<1>10. run[0] = first /\ \A k \in 1 .. n : run[k] = next(run[k - 1], k)
  <2> HIDE DEF n
  <2>1. run = [k \in 0 .. n |-> IF k = 0 THEN first ELSE next(run[k - 1], k)]
    BY <1>4, <1>9
  <2> QED BY <1>2, <2>1
<1>11. run[n] \in P[n]
  <2> DEFINE T == {k \in 0 .. n : run[k] \in P[k]}
  <2> HIDE DEF n
  <2>1. 0 \in T
    BY <1>2, <1>5, <1>10
  <2>2. ASSUME NEW k \in 1 .. n, k - 1 \in T PROVE k \in T
    BY <2>2, <1>2, <1>5, <1>10
  <2> HIDE DEF T
  <2>3. \A k \in 0 .. n : k \in T
    BY <1>2, <2>1, <2>2, UpTo
  <2> QED BY <2>3, <1>2 DEF T
<1> QED BY <1>1, <1>11

LEMMA FrameBuilt ==
  ASSUME NEW ts
  PROVE  BuiltUp(ts, FrameDone.at, FrameHead.at, FrameEnd, 0, Frame)
<1> DEFINE d == FrameDone.at  h == FrameHead.at
<1>1. Ok(Frame, d, {d, h}) /\ Spelt(Frame, d, h, FrameEnd, {})
  BY FrameOk, Zenon DEF Frame, FrameDone, FrameEnd, FrameHead, FrameOpen, FirstState
<1> HIDE DEF d, h
<1>2. {ts[j].name : j \in 1 .. 0} = {}
  OBVIOUS
<1>3. Frame \in Builder
  BY <1>1 DEF Ok
<1> QED BY <1>1, <1>2, <1>3 DEF BuiltUp, d, h

LEMMA BuildOk ==
  ASSUME NEW ts, IsToolSet(ts)
  PROVE  LET b == Build(ts)
         IN  \E d \in 1 .. Len(b.st) : Ok(b, d, {d}) /\ b.st[d] = Final
<1> DEFINE d == FrameDone.at  h == FrameHead.at  end == FrameEnd  n == Len(ts)
           P == [k \in 0 .. n |-> {b \in Builder : BuiltUp(ts, d, h, end, k, b)}]
<1>1. n \in Nat \ {0}
  BY EmptySeq, LenProperties DEF IsToolSet
<1>2. Frame \in P[0]
  <2>1. 0 \in 0 .. n /\ BuiltUp(ts, d, h, end, 0, Frame)
    BY <1>1, FrameBuilt
  <2> HIDE DEF d, h, end, n
  <2> QED BY <2>1 DEF BuiltUp
<1>3. ASSUME NEW k \in 1 .. n, NEW b \in P[k - 1] PROVE AddTool(b, h, end, ts[k]) \in P[k]
  <2>1. k - 1 \in 0 .. n /\ k \in 0 .. n
    BY <1>1
  <2> HIDE DEF d, h, end
  <2>2. BuiltUp(ts, d, h, end, k - 1, b)
    BY <1>3, <2>1
  <2>3. BuiltUp(ts, d, h, end, k, AddTool(b, h, end, ts[k]))
    BY <2>2, BuildStep DEF GrownBy
  <2> QED BY <2>1, <2>3 DEF BuiltUp
<1>4. Build(ts) \in P[n]
  <2> HIDE DEF P
  <2> QED BY <1>1, <1>2, <1>3, BuildRuns
<1>5. BuiltUp(ts, d, h, end, n, Build(ts))
  <2> HIDE DEF n, d, h, end
  <2> QED BY <1>1, <1>4
<1> HIDE DEF n, d, h, end
<1> QED BY <1>1, <1>5 DEF BuiltUp, Spelt

-----------------------------------------------------------------------------
(* What the frame of a call means *)

\* The opening mark, the call word, and then X.
Prefixed(X) == Before({Opens}, Then({CallWord}, X))
HeadMeans(X, T) ==
  LET b == FrameHead.b
      h == FrameHead.at
  IN  /\ Fit(b, None, T, {h}) /\ T[Start] = Prefixed(X) /\ T[h] = X /\ h \in 1 .. Len(b.st) /\ h # Start
      /\ b.st[h] = Blank /\ Start \in 1 .. Len(b.st)

LEMMA OpenMeans ==
  ASSUME NEW Z, Z \subseteq Text, Z # {}
  PROVE  \E U : /\ Fit(FrameOpen.b, None, U, {2}) /\ U[Start] = Before({Opens}, Z) /\ U[2] = Z
                /\ FrameOpen = At(FrameOpen.b, 2) /\ Len(FrameOpen.b.st) = 2 /\ FrameOpen.b.st[2] = Blank
<1> DEFINE b == FirstState  u == FrameOpen.b  L == Before({Opens}, Z)  R == [x \in Nat |-> IF x = 0 THEN {} ELSE L]
<1>1. Ok(b, None, {Start}) /\ Len(b.st) = 1 /\ b.st[Start] = Blank
  BY FirstOk
<1>2. Opens \in Marks /\ TokOf(Opens) = CallOpen /\ CallOpen \in Delims /\ Opens \in Symbol
  BY MarkFacts DEF Delims
<1>3. L \subseteq Text /\ L # {}
  <2>1. {Opens} \subseteq Symbol /\ {Opens} # {}
    BY <1>2
  <2> QED BY <2>1, BeforeType
<1> HIDE DEF b, L
<1>4. /\ None = 0 /\ Start = 1 /\ Start \in 1 .. Len(b.st) /\ Start # None /\ b.st[Start].toks = <<>>
      /\ Len(b.st) + 1 = 2 /\ Start \in {Start}
  BY <1>1, BlankFacts DEF None, Start
<1>5. R \in Lang /\ R[Start] = L
  <2>1. R \in [Nat -> SUBSET Text]
    BY <1>3
  <2>2. R[None] = {} /\ R[Start] = L
    BY <1>4
  <2> HIDE DEF R
  <2> QED BY <2>1, <2>2 DEF Lang
<1> HIDE DEF R
<1>6. Fit(b, None, R, {Start})
  <2>1. Ok(b, None, Nat)
    BY <1>1, <1>4, OkMore, {Start} \subseteq Nat
  <2>2. \A s \in 1 .. Len(b.st) : R[s] # {} /\ s \in {Start}
    BY <1>1, <1>3, <1>4, <1>5
  <2> QED BY <2>1, <2>2, <1>5 DEF Fit, Means
<1>7. Work(b, None, R, Start, b, R, {Start}) /\ Own(b, Start, b, Start)
  <2>1. Work(b, None, R, Start, b, R, {Start})
    BY <1>4, <1>6, WorkBegin
  <2> QED BY <2>1 DEF Own
<1>8. /\ FrameOpen.at = 2 /\ FrameOpen = At(u, FrameOpen.at)
      /\ MayLink(b, None, R, Start, b, R, {Start}, Start, WithTok(b.st[Start], CallOpen, 2), Z, u)
  <2> DEFINE w == Tok(At(b, Start), CallOpen)
  <2>1. /\ w.at = Len(b.st) + 1 /\ w = At(w.b, w.at)
        /\ MayLink(b, None, R, Start, b, R, {Start}, Start, WithTok(b.st[Start], CallOpen, Len(b.st) + 1), Z, w.b)
    <3>1. LET v == Tok(At(b, Start), CallOpen)
          IN  /\ v.at = Len(b.st) + 1 /\ v = At(v.b, v.at)
              /\ MayLink(b, None, R, Start, b, R, {Start}, Start, WithTok(b.st[Start], CallOpen, Len(b.st) + 1), Z, v.b)
      BY <1>2, <1>4, <1>7, LinkTok
    <3> QED BY <3>1
  <2> HIDE DEF w
  <2>2. w = FrameOpen
    BY DEF w, FrameOpen, b
  <2> QED BY <2>1, <2>2, <1>4
<1> HIDE DEF u
<1>9. PICK U : Linked(b, None, R, Start, b, R, {Start}, Start, WithTok(b.st[Start], CallOpen, 2), Z, u, U)
  BY <1>8 DEF MayLink
<1>10. /\ Work(b, None, R, Start, u, U, {Start} \cup {2}) /\ Len(u.st) = 2 /\ u.st[2] = Blank /\ U[2] = Z
       /\ Same(b, R, U) /\ u.st[Start] = WithTok(Blank, TokOf(Opens), 2)
  BY <1>1, <1>2, <1>4, <1>9 DEF Linked
<1>11. U[Start] = L /\ U \in Lang
  <2>1. Start \in 0 .. Len(b.st)
    BY <1>1, <1>4
  <2> QED BY <2>1, <1>5, <1>10, WorkFacts DEF Same
<1>12. Reads(u.st[Start], Start, U, U[Start])
  <2>1. 2 \in Index
    BY DEF Index
  <2>2. Reads(WithTok(Blank, TokOf(Opens), 2), Start, U, Before({Opens}, U[2]))
    BY <2>1, <1>2, <1>11, ReadsOneTok
  <2> QED BY <2>2, <1>10, <1>11 DEF L
<1>13. Fit(u, None, U, {2})
  <2>1. Work(b, None, R, Start, u, U, ({Start} \cup {2}) \ {Start})
    BY <1>10, <1>12, WorkClose
  <2>2. Fit(u, None, U, ({Start} \cup {2}) \ {Start})
    BY <2>1, Zenon DEF Work
  <2> QED BY <2>2, FitMore, ({Start} \cup {2}) \ {Start} \subseteq {2}
<1> QED BY <1>8, <1>10, <1>11, <1>13 DEF u, L

LEMMA PrefixMeans ==
  ASSUME NEW X, X \subseteq Text, X # {}
  PROVE  \E T : HeadMeans(X, T)
<1> DEFINE b == FrameOpen.b  word == CallWord  Z == Then({word}, X)  a == FrameHead  h == FrameHead.at
<1>1. word \in Seq(Byte) /\ word # <<>> /\ Z \subseteq Text /\ Z # {}
  <2>1. word \in Seq(Byte) /\ word # <<>>
    BY VocabAssumption
  <2> HIDE DEF word
  <2>2. /\ Len(word) \in Nat /\ Then({Rest(word, 0)}, X) = Then({word}, X)
        /\ \A k \in 0 .. Len(word) : Then({Rest(word, k)}, X) \subseteq Text /\ Then({Rest(word, k)}, X) # {}
    BY <2>1, RestThen
  <2>3. 0 \in 0 .. Len(word)
    BY <2>2
  <2> QED BY <2>1, <2>2, <2>3
<1> HIDE DEF word, Z
<1>2. PICK U : /\ Fit(b, None, U, {2}) /\ U[Start] = Before({Opens}, Z) /\ U[2] = Z
               /\ FrameOpen = At(b, 2) /\ Len(b.st) = 2 /\ b.st[2] = Blank
  <2> HIDE DEF a, h
  <2> QED BY <1>1, OpenMeans
<1> HIDE DEF b
<1>3. Ready(b, None, U, {2}, 2) /\ None = 0 /\ Start = 1
  BY <1>2 DEF Ready, None, Start
<1>4. NewWord(b, None, U, {2}, 2, word)
  BY <1>1, <1>3, ReadyFacts
<1>5. a = Lit(At(b, 2), word)
  BY <1>2 DEF FrameHead, word
<1> HIDE DEF a, h
<1>6. PICK T : InChain(b, None, U, {2}, 2, word, X, Len(word), a, T)
  <2>1. OnChain(b, None, U, {2}, 2, word, X, Len(word), a)
    BY <1>4, <1>5, ChainIs
  <2> QED BY <2>1 DEF OnChain
<1>7. /\ Work(b, None, U, 2, a.b, T, {2} \cup {a.at}) /\ a.at \in 3 .. Len(a.b.st) /\ a.b.st[a.at] = Blank
      /\ T[a.at] = X /\ 3 \in 1 .. Len(a.b.st)
      /\ a.b.st[2] = WithLit(Blank, word[1], 3) /\ T[3] = Then({Rest(word, 1)}, X)
  <2>1. Then({Rest(word, Len(word))}, X) = X
    BY <1>1, RestThen
  <2>2. Len(b.st) + 1 = 3 /\ b.st[2] = Blank
    BY <1>2
  <2>3. T[a.at] = X
    BY <1>6, <2>1 DEF InChain
  <2>4. Work(b, None, U, 2, a.b, T, {2} \cup {a.at}) /\ a.b.st[a.at] = Blank
    BY <1>6 DEF InChain
  <2>5. a.at \in 3 .. Len(a.b.st) /\ 3 \in 1 .. Len(a.b.st)
    BY <1>6, <2>2 DEF InChain
  <2>6. a.b.st[2] = WithLit(Blank, word[1], 3) /\ T[3] = Then({Rest(word, 1)}, X)
    BY <1>6, <2>2 DEF InChain
  <2> QED BY <2>3, <2>4, <2>5, <2>6
<1>8. T[2] = Z /\ T[Start] = Prefixed(X) /\ T \in Lang /\ Len(a.b.st) \in Nat /\ Start \in 1 .. Len(a.b.st)
  <2>1. \A y \in 1 .. Len(b.st) : T[y] = U[y] /\ y \in 1 .. Len(a.b.st)
    BY <1>7, SameIs
  <2>2. Start \in 1 .. Len(b.st) /\ 2 \in 1 .. Len(b.st)
    BY <1>2, <1>3
  <2>3. T[2] = U[2] /\ T[Start] = U[Start] /\ Start \in 1 .. Len(a.b.st)
    BY <2>1, <2>2
  <2> QED BY <2>3, <1>2, <1>7, WorkFacts DEF Prefixed, Z, word
<1>9. Reads(a.b.st[2], 2, T, T[2])
  <2>1. word[1] \in Byte /\ Before({word[1]}, T[3]) = T[2]
    BY <1>1, <1>7, <1>8, WordThen DEF Z
  <2>2. 3 \in Index
    BY DEF Index
  <2>3. Reads(WithLit(Blank, word[1], 3), 2, T, Before({word[1]}, T[3]))
    BY <2>1, <2>2, <1>8, ReadsOne
  <2> QED BY <2>1, <2>3, <1>7
<1>10. Fit(a.b, None, T, {a.at})
  <2>1. Work(b, None, U, 2, a.b, T, ({2} \cup {a.at}) \ {2})
    BY <1>7, <1>9, WorkClose
  <2>2. Fit(a.b, None, T, ({2} \cup {a.at}) \ {2})
    BY <2>1, Zenon DEF Work
  <2> QED BY <2>2, FitMore, ({2} \cup {a.at}) \ {2} \subseteq {a.at}
<1>11. a.at \in 1 .. Len(a.b.st) /\ a.at # Start
  BY <1>3, <1>7, <1>8
<1> QED BY <1>7, <1>8, <1>10, <1>11 DEF HeadMeans, a

LEMMA GoesFinal == \A s, c : Goes(Final, s, c) = None
<1>1. NoClass.exit = None /\ NoClass.bytes = {}
  BY DEF NoClass
<1>2. /\ \A x : First(Final.lits, x) = None
      /\ \A x : TokEdge(Final, x) = None
  BY FinalFacts DEF First, TokEdge
<1> QED BY <1>1, <1>2, FinalFacts, GoesIs

LEMMA ReadsFinal ==
  ASSUME NEW R \in Lang, NEW s
  PROVE  Reads(Final, s, R, {<<>>})
<1>1. R[None] = {} /\ Final.accept = TRUE
  BY LangFacts, FinalFacts
<1>2. ASSUME NEW c \in Symbol PROVE Past({<<>>}, c) = {}
  BY Begins DEF Past
<1>3. {<<>>} \subseteq Text
  BY TextFacts
<1> QED BY <1>1, <1>2, <1>3, GoesFinal DEF Reads

\* The language of every state of the frame.
FrameFits(X, R) ==
  LET b == Frame
      h == FrameHead.at
  IN  /\ Fit(b, FrameDone.at, R, {h}) /\ R[Start] = Prefixed(X) /\ R[h] = X
      /\ FrameEnd \in 1 .. Len(b.st) /\ R[FrameEnd] = Before({Closes}, {<<>>})
      /\ h \in 1 .. Len(b.st) /\ h # FrameDone.at /\ b.st[h] = Blank /\ Start \in 1 .. Len(b.st) /\ h # Start

\* The state before the closing mark, and the one after it.
DoneMeans(X, V) ==
  LET c == FrameDone.b
      d == FrameDone.at
      h == FrameHead.at
  IN  /\ Fit(c, None, V, {h, d}) /\ V[Start] = Prefixed(X) /\ V[h] = X /\ V[d] = {<<>>}
      /\ FrameEnd \in 1 .. Len(c.st) /\ V[FrameEnd] = Before({Closes}, {<<>>}) /\ d \in 1 .. Len(c.st)
      /\ h \in 1 .. Len(c.st) /\ h # d /\ c.st[h] = Blank /\ Start \in 1 .. Len(c.st) /\ c.st[d] = Blank /\ h # Start

LEMMA CloseMeans ==
  ASSUME NEW X, X \subseteq Text, X # {}
  PROVE  \E V : DoneMeans(X, V)
<1> DEFINE a == FrameHead.b  h == FrameHead.at  end == FrameEnd  b == Add(a)  d == FrameDone.at  c == FrameDone.b
           Y == Before({Closes}, {<<>>})
<1>1. PICK T : /\ Fit(a, None, T, {h}) /\ T[Start] = Prefixed(X) /\ T[h] = X /\ h \in 1 .. Len(a.st)
               /\ a.st[h] = Blank /\ Start \in 1 .. Len(a.st) /\ h # Start
  BY PrefixMeans DEF HeadMeans
<1>2. /\ Closes \in Marks /\ TokOf(Closes) = CallClose /\ CallClose \in Delims /\ Closes \in Symbol
      /\ {<<>>} \subseteq Text /\ {<<>>} # {} /\ Y \subseteq Text /\ Y # {}
  <2>1. /\ Closes \in Marks /\ TokOf(Closes) = CallClose /\ CallClose \in Delims /\ Closes \in Symbol
        /\ {<<>>} \subseteq Text /\ {<<>>} # {} /\ {Closes} \subseteq Symbol /\ {Closes} # {}
    BY MarkFacts, TextFacts DEF Delims
  <2> QED BY <2>1, BeforeType
<1>3. NewIn(a) = end /\ None = 0 /\ Start = 1
  BY DEF FrameEnd, None, Start
<1> HIDE DEF a, Y, end, h
<1>4. PICK U : Fit(b, None, U, {h} \cup {end}) /\ Added(a, T, Y, b, U)
  <2>1. FitsNew(a, None, T, {h}, Y)
    BY <1>1, <1>2, FitAdd
  <2> QED BY <2>1, <1>3 DEF FitsNew
<1>5. /\ end = Len(a.st) + 1 /\ Len(b.st) = end /\ b.st[end] = Blank /\ b.st[h] = Blank /\ Len(a.st) \in Nat
      /\ end # h /\ U[end] = Y /\ U[h] = X /\ U[Start] = Prefixed(X) /\ end \in 1 .. Len(b.st) /\ end # None
      /\ h \in 1 .. Len(b.st) /\ Start \in 1 .. Len(b.st) /\ Start # end
  <2>1. /\ Len(a.st) \in Nat /\ end = Len(a.st) + 1 /\ Len(b.st) = Len(a.st) + 1
        /\ b.st[end] = Blank /\ \A x \in 1 .. Len(a.st) : b.st[x] = a.st[x]
        /\ Same(a, T, U) /\ U[end] = Y
    BY <1>3, <1>4 DEF Added
  <2> HIDE DEF b
  <2>2. h \in 0 .. Len(a.st) /\ Start \in 0 .. Len(a.st)
    BY <1>1, <2>1
  <2>3. U[h] = X /\ U[Start] = Prefixed(X)
    BY <1>1, <2>1, <2>2 DEF Same
  <2> QED BY <1>1, <1>3, <2>1, <2>2, <2>3
<1> HIDE DEF b
<1>6. Work(b, None, U, end, b, U, {h} \cup {end}) /\ Own(b, end, b, end)
  <2>1. Work(b, None, U, end, b, U, {h} \cup {end})
    BY <1>4, <1>5, WorkBegin
  <2> QED BY <2>1 DEF Own
<1>7. d = end + 1 /\ MayLink(b, None, U, end, b, U, {h} \cup {end}, end, WithTok(Blank, CallClose, end + 1), {<<>>}, c)
  <2> DEFINE w == Tok(At(b, end), CallClose)  Z == {<<>>}  left == {h} \cup {end}
  <2>1. end \in left /\ b.st[end].toks = <<>> /\ Z \subseteq Text /\ Z # {}
    BY <1>2, <1>5, BlankFacts
  <2> HIDE DEF w, Z
  <2>2. w.at = Len(b.st) + 1 /\ MayLink(b, None, U, end, b, U, left, end, WithTok(b.st[end], CallClose, Len(b.st) + 1), Z, w.b)
    <3> HIDE DEF left
    <3>1. Work(b, None, U, end, b, U, left)
      BY <1>6 DEF left
    <3>2. LET v == Tok(At(b, end), CallClose)
          IN  /\ v.at = Len(b.st) + 1 /\ v = At(v.b, v.at)
              /\ MayLink(b, None, U, end, b, U, left, end, WithTok(b.st[end], CallClose, Len(b.st) + 1), Z, v.b)
      BY <1>2, <1>6, <2>1, <3>1, LinkTok
    <3> QED BY <3>2 DEF w
  <2>3. w = FrameDone
    BY DEF w, FrameDone, b, a, end
  <2> QED BY <2>2, <2>3, <1>5 DEF Z
<1> HIDE DEF c, d
<1>8. PICK V : Linked(b, None, U, end, b, U, {h} \cup {end}, end, WithTok(Blank, CallClose, end + 1), {<<>>}, c, V)
  BY <1>7 DEF MayLink
<1>9. /\ Work(b, None, U, end, c, V, ({h} \cup {end}) \cup {d}) /\ Len(c.st) = d /\ c.st[d] = Blank /\ V[d] = {<<>>}
      /\ Same(b, U, V) /\ c.st[end] = WithTok(Blank, TokOf(Closes), d) /\ Edits(b, c, end)
  BY <1>2, <1>5, <1>7, <1>8 DEF Linked
<1>10. /\ V[end] = Y /\ V[h] = X /\ V[Start] = Prefixed(X) /\ V \in Lang /\ c.st[h] = Blank
       /\ d \in Index /\ d \in 1 .. Len(c.st) /\ end \in 1 .. Len(c.st) /\ h \in 1 .. Len(c.st)
       /\ Start \in 1 .. Len(c.st) /\ h # d
  <2>1. end \in 0 .. Len(b.st) /\ h \in 0 .. Len(b.st) /\ Start \in 0 .. Len(b.st)
    BY <1>5
  <2>2. V[end] = Y /\ V[h] = X /\ V[Start] = Prefixed(X)
    BY <2>1, <1>5, <1>9 DEF Same
  <2>3. c.st[h] = Blank
    BY <1>5, <1>9 DEF Edits
  <2>4. V \in Lang
    BY <1>9, WorkFacts
  <2> QED BY <2>2, <2>3, <2>4, <1>5, <1>7, <1>9 DEF Index
<1>11. Reads(c.st[end], end, V, V[end])
  <2>1. Reads(WithTok(Blank, TokOf(Closes), d), end, V, Before({Closes}, V[d]))
    BY <1>2, <1>10, ReadsOneTok
  <2> QED BY <2>1, <1>9, <1>10 DEF Y
<1>12. Fit(c, None, V, {h, d})
  <2>1. Work(b, None, U, end, c, V, (({h} \cup {end}) \cup {d}) \ {end})
    BY <1>9, <1>11, WorkClose
  <2>2. Fit(c, None, V, (({h} \cup {end}) \cup {d}) \ {end})
    BY <2>1, Zenon DEF Work
  <2> QED BY <2>2, FitMore, (({h} \cup {end}) \cup {d}) \ {end} \subseteq {h, d}
<1> QED BY <1>1, <1>9, <1>10, <1>12 DEF DoneMeans, c, d, h, end, Y

LEMMA FrameMeans ==
  ASSUME NEW X, X \subseteq Text, X # {}
  PROVE  \E R : FrameFits(X, R)
<1> DEFINE c == FrameDone.b  d == FrameDone.at  f == Frame  h == FrameHead.at
<1>1. PICK V : /\ Fit(c, None, V, {h, d}) /\ V[Start] = Prefixed(X) /\ V[h] = X /\ V[d] = {<<>>}
               /\ FrameEnd \in 1 .. Len(c.st) /\ V[FrameEnd] = Before({Closes}, {<<>>}) /\ d \in 1 .. Len(c.st)
               /\ h \in 1 .. Len(c.st) /\ h # d /\ c.st[h] = Blank /\ Start \in 1 .. Len(c.st)
               /\ c.st[d] = Blank /\ h # Start
  BY CloseMeans DEF DoneMeans
<1>2. Ok(f, d, {d, h})
  <2>1. Ok([FrameDone.b EXCEPT !.st[FrameDone.at].accept = TRUE], FrameDone.at, {FrameDone.at, FrameHead.at})
    BY FrameOk, Zenon DEF FrameDone, FrameEnd, FrameHead, FrameOpen, FirstState
  <2> QED BY <2>1 DEF Frame
<1>3. f = [c EXCEPT !.st = [c.st EXCEPT ![d] = [c.st[d] EXCEPT !.accept = TRUE]]]
  BY DEF Frame
<1> HIDE DEF c, d, h, f
<1>4. /\ Len(f.st) = Len(c.st) /\ f.st[d] = Final /\ \A x \in 1 .. Len(c.st) : x # d => f.st[x] = c.st[x]
  <2>1. c.st \in Seq(Row) /\ c \in [st : Seq(Row), panic : BOOLEAN]
    <3>1. c \in Builder
      BY <1>1, FitFacts
    <3> QED BY <3>1 DEF Builder
  <2>2. f.st = [c.st EXCEPT ![d] = [c.st[d] EXCEPT !.accept = TRUE]]
    BY <1>3, <2>1
  <2>3. [c.st[d] EXCEPT !.accept = TRUE] = Final
    BY <1>1 DEF Final
  <2> DEFINE st == c.st  q == [c.st[d] EXCEPT !.accept = TRUE]
  <2> HIDE DEF st, q
  <2>4. f.st = [st EXCEPT ![d] = q] /\ st \in Seq(Row) /\ d \in 1 .. Len(st)
    BY <1>1, <2>1, <2>2 DEF st, q
  <2>5. Len(f.st) = Len(st) /\ f.st[d] = q /\ \A x \in 1 .. Len(st) : x # d => f.st[x] = st[x]
    BY <2>4
  <2> QED BY <2>3, <2>5 DEF st, q
<1>5. /\ V \in Lang /\ \A s \in 1 .. Len(c.st) : V[s] # {} /\ (s \in {h, d} \/ Exact(c.st[s], s, V))
  BY <1>1, FitFacts
<1>6. ASSUME NEW s \in 1 .. Len(f.st) PROVE V[s] # {} /\ (s \in {h} \/ Exact(f.st[s], s, V))
  <2>1. CASE s = d
    <3>1. Reads(Final, d, V, {<<>>})
      BY <1>5, ReadsFinal
    <3>2. Exact(f.st[d], d, V)
      BY <3>1, <1>1, <1>4, ReadsExact
    <3> QED BY <2>1, <3>2, <1>1
  <2>2. CASE s # d
    BY <2>2, <1>4, <1>5, <1>6
  <2> QED BY <2>1, <2>2
<1>7. Ok(f, d, Nat)
  <2>1. h \in Nat /\ d \in Nat
    BY <1>1
  <2> QED BY <2>1, <1>2, OkMore, {d, h} \subseteq Nat
<1>8. Fit(f, d, V, {h})
  BY <1>5, <1>6, <1>7 DEF Fit, Means
<1>9. f.st[h] = Blank
  BY <1>1, <1>4
<1> QED BY <1>1, <1>4, <1>8, <1>9 DEF FrameFits, f, d, h
-----------------------------------------------------------------------------
(* What the whole automaton means *)

ToolNames(ts) == {ts[j].name : j \in 1 .. Len(ts)}
\* What follows the brace of each of them.
RestOf(ts, Y) == [v \in ToolNames(ts) |-> ToolRest(ts[CHOOSE i \in 1 .. Len(ts) : ts[i].name = v], Y)]
CallLang(ts, Y) == Choice(Brace, ToolNames(ts), RestOf(ts, Y))
\* The texts after a call.
CallEnd == Before({Closes}, {<<>>})

LEMMA CallsAre ==
  ASSUME NEW ts, IsToolSet(ts), NEW Y, Y \subseteq Text, Y # {}
  PROVE  /\ Chosen(Brace, ToolNames(ts), RestOf(ts, Y), CallLang(ts, Y)) /\ CallLang(ts, Y) # {}
         /\ \A k \in 1 .. Len(ts) : RestOf(ts, Y)[ts[k].name] = ToolRest(ts[k], Y)
<1> DEFINE n == Len(ts)  V == ToolNames(ts)  Z == RestOf(ts, Y)  X == CallLang(ts, Y)
           At1(v) == CHOOSE i \in 1 .. n : ts[i].name = v
<1>1. n \in Nat \ {0} /\ DOMAIN ts = 1 .. n /\ \A i \in 1 .. n : IsTool(ts[i])
  BY EmptySeq, LenProperties DEF IsToolSet
<1>2. ASSUME NEW k \in 1 .. n PROVE At1(ts[k].name) = k
  BY <1>1 DEF IsToolSet
<1>3. \A k \in 1 .. n : ts[k].name \in V /\ Z[ts[k].name] = ToolRest(ts[k], Y)
  <2> TAKE k \in 1 .. n
  <2>1. ts[k].name \in V
    BY DEF ToolNames
  <2>2. Z[ts[k].name] = ToolRest(ts[At1(ts[k].name)], Y)
    <3> HIDE DEF V
    <3> QED BY <2>1 DEF RestOf, V
  <2> QED BY <1>2, <2>1, <2>2
<1>4. \A v \in V : \E k \in 1 .. n : v = ts[k].name
  BY DEF ToolNames
<1> HIDE DEF V, Z, X, n, At1
<1>5. Brace \in Symbol /\ V \subseteq Seq(Symbol \ {Brace})
  <2>1. Brace \in Byte
    BY Bytes DEF Brace
  <2>2. Brace \in Symbol /\ Byte \ {Brace} \subseteq Symbol \ {Brace}
    BY <2>1, MarkFacts
  <2>3. Seq(Byte \ {Brace}) \subseteq Seq(Symbol \ {Brace})
    BY <2>2, SeqMonotonic
  <2>4. \A k \in 1 .. n : ts[k].name \in Seq(Byte \ {Brace})
    BY <1>1 DEF IsTool
  <2> QED BY <2>2, <2>3, <2>4, <1>4
<1>6. \A v \in V : Z[v] \subseteq Text /\ Z[v] # {}
  <2>1. \A k \in 1 .. n : ToolRest(ts[k], Y) \subseteq Text /\ ToolRest(ts[k], Y) # {}
    BY <1>1, ToolRestType
  <2> QED BY <2>1, <1>3, <1>4
<1>7. Chosen(Brace, V, Z, X)
  <2>1. Chosen(Brace, V, Z, Choice(Brace, V, Z))
    BY <1>5, <1>6, ChoiceIs
  <2> QED BY <2>1 DEF X, CallLang, V, Z
<1>8. X # {}
  <2>1. 1 \in 1 .. n
    BY <1>1
  <2>2. After(X, ts[1].name) # {}
    BY <2>1, <1>3, <1>7 DEF Chosen
  <2> QED BY <2>2 DEF After
<1> QED BY <1>3, <1>7, <1>8 DEF V, Z, X, n

\* The languages of the states of the whole automaton.
BuiltMeans(ts, R, d) ==
  LET b == Build(ts)
  IN  /\ Fit(b, d, R, {}) /\ b.st[d] = Final /\ d \in 1 .. Len(b.st) /\ Start \in 1 .. Len(b.st)
      /\ R[Start] = Prefixed(CallLang(ts, CallEnd))

LEMMA ClosedFacts == CallEnd \subseteq Text /\ CallEnd # {}
<1>1. {<<>>} \subseteq Text /\ {<<>>} # {}
  BY TextFacts
<1>2. {Closes} \subseteq Symbol /\ {Closes} # {}
  BY MarkFacts
<1> QED BY <1>1, <1>2, BeforeType DEF CallEnd

LEMMA BuildMeans ==
  ASSUME NEW ts, IsToolSet(ts)
  PROVE  \E R, d : BuiltMeans(ts, R, d)
<1> DEFINE d == FrameDone.at  h == FrameHead.at  end == FrameEnd  n == Len(ts)  X == CallLang(ts, CallEnd)
           W(k) == {ts[j].name : j \in 1 .. k}  f == Frame
<1>1. n \in Nat \ {0} /\ \A i \in 1 .. n : IsTool(ts[i])
  BY EmptySeq, LenProperties DEF IsToolSet
<1>2. Chosen(Brace, W(n), RestOf(ts, CallEnd), X) /\ X # {} /\ X \subseteq Text
  <2>1. W(n) = ToolNames(ts)
    BY DEF ToolNames
  <2>2. Chosen(Brace, ToolNames(ts), RestOf(ts, CallEnd), X) /\ X # {}
    BY ClosedFacts, CallsAre
  <2> QED BY <2>1, <2>2 DEF Chosen
<1>3. \A k \in 1 .. n : After(X, ts[k].name \odot <<Brace>>) = ToolRest(ts[k], CallEnd)
  <2>1. \A k \in 1 .. n : RestOf(ts, CallEnd)[ts[k].name] = ToolRest(ts[k], CallEnd)
    BY ClosedFacts, CallsAre
  <2>2. \A k \in 1 .. n : ts[k].name \in W(n)
    OBVIOUS
  <2> HIDE DEF W, X
  <2> QED BY <2>1, <2>2, <1>2 DEF Chosen
<1> HIDE DEF X
<1>4. PICK R : FrameFits(X, R)
  BY <1>2, FrameMeans
<1>5. /\ Fit(f, d, R, {h}) /\ R[Start] = Prefixed(X) /\ R[h] = X
      /\ end \in 1 .. Len(f.st) /\ R[end] = CallEnd
      /\ h \in 1 .. Len(f.st) /\ h # d /\ f.st[h] = Blank /\ Start \in 1 .. Len(f.st)
  BY <1>4 DEF FrameFits, CallEnd
<1> HIDE DEF d, h, end, f
<1>6. Named(f, d, R, h, {}, f)
  <2>1. Ready(f, d, R, {h}, h)
    BY <1>5 DEF Ready
  <2>2. Brace \in Symbol
    <3>1. Brace \in Byte
      BY Bytes DEF Brace
    <3> QED BY <3>1, MarkFacts
  <2> DEFINE open == {h}  none == {}
  <2>3. open \subseteq none \cup {h}
    OBVIOUS
  <2> HIDE DEF open, none
  <2>4. PICK T, N, lab : Tree(f, d, R, h, none, Brace, {}, f, T, N, lab)
    <3>1. Ready(f, d, R, open, h)
      BY <2>1 DEF open
    <3> QED BY <3>1, <2>2, <2>3, TreeStart
  <2>5. h \in N /\ lab[h] = <<>>
    BY <2>4 DEF Tree
  <2>6. At(f, h).b = f /\ At(f, h).at = h
    BY DEF At
  <2>7. OnTree(f, d, R, h, none, Brace, {}, At(f, h), <<>>)
    BY <2>4, <2>5, <2>6 DEF OnTree
  <2> QED BY <2>7 DEF Named, none
<1> DEFINE Q(k, b) == BuiltUp(ts, d, h, end, k, b) /\ Named(f, d, R, h, W(k), b)
           P == [k \in 0 .. n |-> {b \in Builder : Q(k, b)}]
<1>7. f \in P[0]
  <2>1. BuiltUp(ts, d, h, end, 0, f)
    BY FrameBuilt DEF d, h, end, f
  <2>2. W(0) = {}
    OBVIOUS
  <2>3. Q(0, f)
    <3> HIDE DEF W
    <3> QED BY <2>1, <2>2, <1>6
  <2>4. 0 \in 0 .. n /\ f \in Builder
    BY <1>1, <2>1 DEF BuiltUp
  <2> HIDE DEF Q, n
  <2> QED BY <2>3, <2>4
<1>8. ASSUME NEW k \in 1 .. n, NEW b \in P[k - 1] PROVE AddTool(b, h, end, ts[k]) \in P[k]
  <2> DEFINE r == AddTool(b, h, end, ts[k])  name == ts[k].name
  <2>1. k - 1 \in 0 .. n /\ k \in 0 .. n
    BY <1>1
  <2>2. Q(k - 1, b)
    <3> HIDE DEF Q, n
    <3> QED BY <2>1, <1>8
  <2>3. GrownBy(ts, d, h, end, k, b, r)
    <3>1. BuiltUp(ts, d, h, end, k - 1, b)
      BY <2>2
    <3> HIDE DEF r
    <3> QED BY <3>1, BuildStep DEF r
  <2> HIDE DEF r
  <2>4. /\ BuiltUp(ts, d, h, end, k, r) /\ name \notin W(k - 1)
        /\ ToolRuns(Lit(At(b, h), Append(name, Brace)), Required(ts[k]), end, r)
    BY <2>3, Zenon DEF GrownBy, Brace
  <2>5. W(k - 1) \cup {name} = W(k)
    <3>1. 1 .. k = (1 .. k - 1) \cup {k}
      BY <1>1
    <3> QED BY <3>1
  <2>6. Named(f, d, R, h, W(k), r)
    <3> DEFINE old == W(k - 1)  tool == ts[k]
    <3>1. Named(f, d, R, h, old, b) /\ tool.name \notin old /\ IsTool(tool)
      BY <1>1, <2>2, <2>4
    <3>2. /\ After(R[h], tool.name \odot <<Brace>>) = ToolRest(tool, R[end])
          /\ R[end] \subseteq Text /\ R[end] # {}
      <4> HIDE DEF n
      <4> QED BY <1>3, <1>5, ClosedFacts
    <3>3. ToolRuns(Lit(At(b, h), Append(tool.name, Brace)), Required(tool), end, r)
      BY <2>4
    <3> HIDE DEF old, tool
    <3>4. Named(f, d, R, h, old \cup {tool.name}, r)
      BY <1>5, <3>1, <3>2, <3>3, ToolMeans
    <3> QED BY <3>4, <2>5 DEF old, tool
  <2>7. r \in Builder /\ Q(k, r)
    BY <2>4, <2>6 DEF BuiltUp
  <2> HIDE DEF Q, n
  <2> QED BY <2>1, <2>7 DEF r
<1> DEFINE B == Build(ts)
<1>9. Q(n, B)
  <2>1. B \in P[n]
    <3> HIDE DEF P
    <3>1. Len(ts) \in Nat /\ Frame \in P[0]
      BY <1>1, <1>7 DEF f
    <3>2. \A k \in 1 .. Len(ts) : \A b \in P[k - 1] : AddTool(b, FrameHead.at, FrameEnd, ts[k]) \in P[k]
      BY <1>8 DEF h, end
    <3> QED BY <3>1, <3>2, BuildRuns
  <2>2. n \in 0 .. n
    BY <1>1
  <2> HIDE DEF Q, n, B
  <2> QED BY <2>1, <2>2
<1> HIDE DEF B
<1>10. PICK T, N, lab : Tree(f, d, R, h, {}, Brace, W(n), B, T, N, lab)
  <2> DEFINE V == W(n)
  <2>1. Named(f, d, R, h, V, B)
    BY <1>9
  <2> HIDE DEF V
  <2> DEFINE v == At(B, h)
  <2>2. v.b = B
    BY DEF At
  <2>3. OnTree(f, d, R, h, {}, Brace, V, v, <<>>)
    BY <2>1 DEF Named
  <2> HIDE DEF v
  <2> QED BY <2>2, <2>3 DEF OnTree, V
<1> DEFINE V == W(n)
<1>11. \A w \in R[h] : \E v \in V, z \in Text : w = v \odot (<<Brace>> \odot z)
  BY <1>2, <1>5 DEF Chosen
<1> HIDE DEF V
<1>12. Work(f, d, R, h, B, T, ({} \cup N) \ N)
  <2>1. Tree(f, d, R, h, {}, Brace, V, B, T, N, lab)
    BY <1>10 DEF V
  <2> QED BY <2>1, <1>11, TreeExact
<1>13. Fit(B, d, T, {})
  <2>1. ({} \cup N) \ N = {}
    OBVIOUS
  <2>2. Fit(B, d, T, ({} \cup N) \ N)
    BY <1>12, Zenon DEF Work
  <2> QED BY <2>1, <2>2
<1>14. T[Start] = Prefixed(X) /\ Start \in 1 .. Len(B.st)
  <2>1. \A x \in 1 .. Len(f.st) : T[x] = R[x] /\ x \in 1 .. Len(B.st)
    BY <1>12, SameIs
  <2> QED BY <2>1, <1>5
<1>15. B.st[d] = Final /\ d \in 1 .. Len(B.st)
  <2>1. Spelt(B, d, h, end, W(n))
    BY <1>9 DEF BuiltUp
  <2> QED BY <2>1 DEF Spelt
<1> QED BY <1>13, <1>14, <1>15 DEF BuiltMeans, X, B
-----------------------------------------------------------------------------
(* The values of the sentences, as languages *)

\* The sentences have every string body and every run of digits.
AllWords == StrWords = Seq(StrByte) /\ NatWords = Seq(Digit) \ {<<>>}
\* The texts of the values of a type.
ValueTexts(ty) == {Quoted(ty, v) : v \in ValuesOf(ty)}
Quotation(V) == {(<<Quotes>> \odot v) \odot <<Quotes>> : v \in V}

LEMMA QuotationIs ==
  ASSUME NEW V, V \subseteq Text, NEW Y, Y \subseteq Text
  PROVE  Quotation(V) \subseteq Text /\ Then(Quotation(V), Y) = Before({Quotes}, Then(V, Before({Quotes}, Y)))
<1> DEFINE q == <<Quotes>>  Q == Quotation(V)  B == Before({Quotes}, Y)  VB == Then(V, B)
<1>1. q \in Text
  BY MarkFacts, TextFacts
<1>2. /\ \A w : w \in Q <=> \E v \in V : w = (q \odot v) \odot q
      /\ \A w : w \in B <=> \E y \in Y : w = q \odot y
      /\ \A w : w \in VB <=> \E v \in V, u \in B : w = v \odot u
      /\ \A w : w \in Before({Quotes}, VB) <=> \E u \in VB : w = q \odot u
      /\ \A w : w \in Then(Q, Y) <=> \E u \in Q, y \in Y : w = u \odot y
  BY DEF Quotation, Before, Then
<1> HIDE DEF q, Q, B, VB
<1>3. ASSUME NEW v \in Text PROVE (q \odot v) \odot q \in Text
  <2>1. q \odot v \in Text
    BY <1>1, TextFacts
  <2> QED BY <2>1, <1>1, TextFacts
<1>4. ASSUME NEW v \in Text, NEW y \in Text
      PROVE  ((q \odot v) \odot q) \odot y = q \odot (v \odot (q \odot y))
  <2> DEFINE qv == q \odot v  qy == q \odot y
  <2>1. qv \in Text /\ qy \in Text
    BY <1>1, TextFacts
  <2>2. qv \odot qy = q \odot (v \odot qy)
    <3> HIDE DEF qy
    <3> QED BY <1>1, <2>1, Assoc
  <2> HIDE DEF qv
  <2>3. (qv \odot q) \odot y = qv \odot (q \odot y)
    BY <1>1, <2>1, Assoc
  <2> QED BY <2>2, <2>3 DEF qv
<1>5. Q \subseteq Text
  BY <1>2, <1>3
<1>6. ASSUME NEW w \in Then(Q, Y) PROVE w \in Before({Quotes}, VB)
  <2>1. PICK v \in V, y \in Y : w = ((q \odot v) \odot q) \odot y
    <3>1. PICK u \in Q, y \in Y : w = u \odot y
      BY <1>2
    <3>2. PICK v \in V : u = (q \odot v) \odot q
      BY <1>2
    <3> QED BY <3>1, <3>2
  <2> DEFINE qy == q \odot y  vy == v \odot qy
  <2>2. w = q \odot vy
    BY <1>4, <2>1
  <2>3. qy \in B
    BY <1>2
  <2>4. vy \in VB
    <3> HIDE DEF qy
    <3> QED BY <1>2, <2>3
  <2> HIDE DEF vy
  <2> QED BY <1>2, <2>2, <2>4
<1>7. ASSUME NEW w \in Before({Quotes}, VB) PROVE w \in Then(Q, Y)
  <2>1. PICK u \in VB : w = q \odot u
    BY <1>2
  <2>2. PICK v \in V, z \in B : u = v \odot z
    BY <1>2
  <2>3. PICK y \in Y : z = q \odot y
    BY <1>2
  <2> DEFINE qv == (q \odot v) \odot q
  <2>4. w = qv \odot y /\ qv \in Q
    BY <1>2, <1>4, <2>1, <2>2, <2>3
  <2> HIDE DEF qv
  <2> QED BY <1>2, <2>4
<1>8. Then(Q, Y) = Before({Quotes}, VB)
  BY <1>6, <1>7
<1> QED BY <1>5, <1>8 DEF Q, VB, B

LEMMA NatWordsAre ==
  ASSUME AllWords, NEW Y, Y \subseteq Text
  PROVE  NatWords \subseteq Text /\ Then(NatWords, Y) = DigitsThen(Y)
<1> DEFINE S == Seq(Digit)  D == Before(Digit, S)
<1>1. Digit \subseteq Symbol /\ S \subseteq Text
  <2>1. Digit \subseteq Symbol
    BY NumberBytes
  <2> QED BY <2>1, SeqMonotonic DEF Text
<1>2. D = NatWords
  <2>1. ASSUME NEW c \in Digit, NEW u \in S PROVE <<c>> \odot u \in NatWords
    <3>1. <<c>> \odot u \in Seq(Digit)
      BY ConcatProperties DEF \odot
    <3>2. <<c>> \odot u # <<>>
      <4>1. c \in Symbol /\ u \in Text
        BY <1>1
      <4> QED BY <4>1, Begins
    <3> QED BY <3>1, <3>2 DEF AllWords
  <2>2. ASSUME NEW w \in NatWords PROVE \E c \in Digit, u \in S : w = <<c>> \odot u
    <3>1. w \in Seq(Digit) /\ w # <<>>
      BY DEF AllWords
    <3>2. Starts(Digit, w)
      BY <3>1, BeginsIs, Zenon
    <3> QED BY <3>2, Zenon DEF Starts
  <2>3. \A w : w \in D <=> \E c \in Digit, u \in S : w = <<c>> \odot u
    <3> HIDE DEF S
    <3> QED BY DEF Before
  <2> HIDE DEF S, D
  <2> QED BY <2>1, <2>2, <2>3
<1>3. Before(Digit, Then(S, Y)) = Then(D, Y)
  <2> HIDE DEF S
  <2> QED BY <1>1, BeforeThen DEF D
<1>4. NatWords \subseteq Text
  BY <1>1 DEF AllWords
<1> QED BY <1>2, <1>3, <1>4 DEF DigitsThen

\* A number without its sign; with a fraction, two runs of digits and a dot.
Fractions == {(a \odot <<Dot>>) \odot b : a, b \in NatWords}
Unsigned(frac) == NatWords \cup (IF frac THEN Fractions ELSE {})

LEMMA NumIs == \A frac : Num(frac) = Unsigned(frac) \cup Before({Minus}, Unsigned(frac))
<1>1. TAKE frac
<1> DEFINE abs == NatWords \cup (IF frac THEN {a \o <<".">> \o b : a, b \in NatWords} ELSE {})
<1>2. Num(frac) = abs \cup {<<"-">> \o a : a \in abs}
  BY SMT DEF Num
<1>3. {a \o <<".">> \o b : a, b \in NatWords} = Fractions
  BY SMT DEF Fractions, Dot, \odot
<1>4. abs = Unsigned(frac)
  BY <1>3, SMTT(30) DEF Unsigned
<1> HIDE DEF abs
<1>5. {<<"-">> \o a : a \in abs} = {<<Minus>> \odot a : a \in abs}
  BY SMT DEF Minus, \odot
<1>6. Before({Minus}, abs) = {<<Minus>> \odot a : a \in abs}
  BY DEF Before
<1> QED BY <1>2, <1>4, <1>5, <1>6

LEMMA FractionsAre ==
  ASSUME AllWords, NEW Y, Y \subseteq Text
  PROVE  Fractions \subseteq Text /\ Then(Fractions, Y) = DigitsThen(Before({Dot}, DigitsThen(Y)))
<1> DEFINE N == NatWords  F == Fractions  t == <<Dot>>  D == Then(N, Y)  E == Before({Dot}, D)
<1>1. t \in Text /\ N \subseteq Text /\ D = DigitsThen(Y)
  BY NatWordsAre, NumberBytes, TextFacts
<1>2. E \subseteq Text
  <2>1. D \subseteq Text /\ {Dot} \subseteq Symbol
    BY <1>1, ThenType, NumberBytes
  <2> HIDE DEF D
  <2> QED BY <2>1, BeforeType
<1>3. Then(N, E) = DigitsThen(E)
  <2> HIDE DEF E
  <2> QED BY <1>2, NatWordsAre
<1>4. /\ \A w : w \in F <=> \E a, b \in N : w = (a \odot t) \odot b
      /\ \A w : w \in D <=> \E b \in N, y \in Y : w = b \odot y
      /\ \A w : w \in E <=> \E u \in D : w = t \odot u
      /\ \A w : w \in Then(N, E) <=> \E a \in N, u \in E : w = a \odot u
      /\ \A w : w \in Then(F, Y) <=> \E f \in F, y \in Y : w = f \odot y
  BY DEF Fractions, Before, Then
<1> HIDE DEF t, N, F, D, E
<1>5. ASSUME NEW a \in Text, NEW b \in Text PROVE (a \odot t) \odot b \in Text
  <2>1. a \odot t \in Text
    BY <1>1, TextFacts
  <2> QED BY <2>1, TextFacts
<1>6. ASSUME NEW a \in Text, NEW b \in Text, NEW y \in Text
      PROVE  ((a \odot t) \odot b) \odot y = a \odot (t \odot (b \odot y))
  <2> DEFINE h == a \odot t  v == b \odot y
  <2>1. h \in Text /\ v \in Text
    BY <1>1, TextFacts
  <2>2. h \odot v = a \odot (t \odot v)
    <3> HIDE DEF v
    <3> QED BY <1>1, <2>1, Assoc
  <2> HIDE DEF h
  <2>3. (h \odot b) \odot y = h \odot (b \odot y)
    BY <2>1, Assoc
  <2> QED BY <2>2, <2>3 DEF h
<1>7. F \subseteq Text
  BY <1>1, <1>4, <1>5
<1>8. ASSUME NEW w \in Then(F, Y) PROVE w \in Then(N, E)
  <2>1. PICK a \in N, b \in N, y \in Y : w = ((a \odot t) \odot b) \odot y
    <3>1. PICK f \in F, y \in Y : w = f \odot y
      BY <1>4
    <3>2. PICK a \in N, b \in N : f = (a \odot t) \odot b
      BY <1>4
    <3> QED BY <3>1, <3>2
  <2> DEFINE v == b \odot y  u == t \odot v
  <2>2. w = a \odot u
    <3>1. a \in Text /\ b \in Text /\ y \in Text
      BY <1>1
    <3> QED BY <1>6, <2>1, <3>1
  <2>3. v \in D
    BY <1>4
  <2>4. u \in E
    <3> HIDE DEF v
    <3> QED BY <1>4, <2>3
  <2> HIDE DEF u
  <2> QED BY <1>4, <2>2, <2>4
<1>9. ASSUME NEW w \in Then(N, E) PROVE w \in Then(F, Y)
  <2>1. PICK a \in N, u \in E : w = a \odot u
    BY <1>4
  <2>2. PICK v \in D : u = t \odot v
    BY <1>4
  <2>3. PICK b \in N, y \in Y : v = b \odot y
    BY <1>4
  <2> DEFINE f == (a \odot t) \odot b
  <2>4. w = f \odot y /\ f \in F
    <3>1. a \in Text /\ b \in Text /\ y \in Text
      BY <1>1
    <3> QED BY <1>4, <1>6, <2>1, <2>2, <2>3, <3>1
  <2> HIDE DEF f
  <2> QED BY <1>4, <2>4
<1>10. Then(F, Y) = Then(N, E)
  BY <1>8, <1>9
<1> QED BY <1>1, <1>3, <1>7, <1>10 DEF F, E

LEMMA NumTexts ==
  ASSUME AllWords, NEW frac \in BOOLEAN, NEW Y, Y \subseteq Text
  PROVE  Num(frac) \subseteq Text /\ Then(Num(frac), Y) = NumLang(frac, Y)
<1> DEFINE A == Unsigned(frac)  D == Before({Dot}, DigitsThen(Y))  W == Whole(frac, Y)
<1>1. /\ NatWords \subseteq Text /\ Fractions \subseteq Text /\ Then(NatWords, Y) = DigitsThen(Y)
      /\ Then(Fractions, Y) = DigitsThen(D)
  BY NatWordsAre, FractionsAre
<1>2. D \subseteq Text /\ {Minus} \subseteq Symbol
  <2>1. DigitsThen(Y) \subseteq Text
    BY <1>1, ThenType
  <2> QED BY <2>1, NumberBytes, BeforeType
<1> HIDE DEF D
<1>3. A \subseteq Text /\ W \subseteq Text
  BY <1>1, <1>2 DEF Unsigned, Whole, D
<1>4. Then(A, Y) = DigitsThen(W)
  <2>1. CASE frac
    <3>1. A = NatWords \cup Fractions /\ W = Y \cup D
      BY <2>1 DEF Unsigned, Whole, D
    <3>2. Then(NatWords \cup Fractions, Y) = Then(NatWords, Y) \cup Then(NatWords, D)
      <4>1. Then(NatWords, D) = DigitsThen(D)
        BY <1>2, NatWordsAre
      <4> QED BY <4>1, <1>1, ThenOr
    <3>3. Then(NatWords, Y \cup D) = Then(NatWords, Y) \cup Then(NatWords, D)
      BY ThenOr
    <3> HIDE DEF A, W
    <3>4. Then(NatWords, W) = DigitsThen(W)
      BY <1>3, NatWordsAre
    <3> QED BY <3>1, <3>2, <3>3, <3>4
  <2>2. CASE ~frac
    <3>1. A = NatWords /\ W = Y
      BY <2>2 DEF Unsigned, Whole
    <3> QED BY <3>1, <1>1
  <2> QED BY <2>1, <2>2
<1> HIDE DEF A
<1>5. Then(Before({Minus}, A), Y) = Before({Minus}, DigitsThen(W)) /\ Before({Minus}, A) \subseteq Text
  <2> DEFINE M == {Minus}
  <2>1. M \subseteq Symbol
    BY <1>2
  <2> HIDE DEF M
  <2>2. Before(M, Then(A, Y)) = Then(Before(M, A), Y) /\ Before(M, A) \subseteq Text
    BY <2>1, <1>3, BeforeThen, BeforeType
  <2> QED BY <2>2, <1>4 DEF M
<1>6. Num(frac) = A \cup Before({Minus}, A)
  BY NumIs DEF A
<1>7. Then(Num(frac), Y) = Then(A, Y) \cup Then(Before({Minus}, A), Y)
  BY <1>6, ThenOr
<1> QED BY <1>3, <1>4, <1>5, <1>6, <1>7 DEF NumLang

LEMMA ValueTextsAre ==
  ASSUME AllWords, NEW ty, IsType(ty), NEW Y, Y \subseteq Text
  PROVE  ValueTexts(ty) \subseteq Text /\ Then(ValueTexts(ty), Y) = ValueLang(ty, Y)
<1> DEFINE V == ValuesOf(ty)
<1>1. ASSUME ty.kind \in {"str", "enum"}, V \subseteq Text
      PROVE  /\ ValueTexts(ty) \subseteq Text
             /\ Then(ValueTexts(ty), Y) = Before({Quotes}, Then(V, Before({Quotes}, Y)))
  <2>1. ValueTexts(ty) = Quotation(V)
    BY <1>1, Zenon DEF ValueTexts, Quoted, Quotation, \odot
  <2> HIDE DEF V
  <2> QED BY <1>1, <2>1, QuotationIs
<1>2. ASSUME ty.kind \notin {"str", "enum"} PROVE ValueTexts(ty) = V
  <2>1. \A v : Quoted(ty, v) = v
    BY <1>2, Zenon DEF Quoted
  <2> HIDE DEF V
  <2> QED BY <2>1 DEF ValueTexts, V
<1>3. CASE ty.kind = "str"
  <2>1. V = Seq(StrByte)
    BY <1>3 DEF ValuesOf, AllWords
  <2>2. V \subseteq Text
    <3>1. StrByte \subseteq Symbol
      BY MarkFacts
    <3> QED BY <2>1, <3>1, SeqMonotonic DEF Text
  <2> HIDE DEF V
  <2> QED BY <1>1, <1>3, <2>1, <2>2 DEF ValueLang, StrLang
<1>4. CASE ty.kind = "enum"
  <2>1. V = Range(ty.vals)
    BY <1>4 DEF ValuesOf
  <2>2. V \subseteq Text
    <3>1. ty.vals \in Seq(Seq(Byte))
      BY <1>4 DEF IsType
    <3>2. Seq(Byte) \subseteq Text
      <4>1. Byte \subseteq Symbol
        BY MarkFacts
      <4> QED BY <4>1, SeqMonotonic DEF Text
    <3> QED BY <2>1, <3>1, <3>2 DEF Range
  <2> HIDE DEF V
  <2> QED BY <1>1, <1>4, <2>1, <2>2 DEF ValueLang, EnumLang
<1>5. CASE ty.kind = "bool"
  <2>1. V = {TrueWord} \cup {FalseWord}
    BY <1>5 DEF ValuesOf
  <2>2. TrueWord \in Text /\ FalseWord \in Text
    <3>1. Byte \subseteq Symbol
      BY MarkFacts
    <3> QED BY <3>1, Bytes, SeqMonotonic DEF Text
  <2> HIDE DEF V
  <2>3. ValueTexts(ty) = V
    BY <1>2, <1>5
  <2>4. Then(V, Y) = Then({TrueWord}, Y) \cup Then({FalseWord}, Y)
    BY <2>1, ThenOr
  <2> QED BY <1>5, <2>1, <2>2, <2>3, <2>4 DEF ValueLang
<1>6. CASE ty.kind = "int"
  <2>1. V = Num(FALSE)
    BY <1>6 DEF ValuesOf
  <2> HIDE DEF V
  <2>2. ValueTexts(ty) = V
    BY <1>2, <1>6
  <2> QED BY <1>6, <2>1, <2>2, NumTexts DEF ValueLang
<1>7. CASE ty.kind = "num"
  <2>1. V = Num(TRUE)
    BY <1>7 DEF ValuesOf
  <2> HIDE DEF V
  <2>2. ValueTexts(ty) = V
    BY <1>2, <1>7
  <2> QED BY <1>7, <2>1, <2>2, NumTexts DEF ValueLang
<1> QED BY <1>3, <1>4, <1>5, <1>6, <1>7 DEF IsType
-----------------------------------------------------------------------------
(* The parameters of the sentences, as languages *)

\* The texts of calls and of argument lists, which come with what they pass.
Texts(A) == {a[1] : a \in A}
Gap == {<<>>, <<SpaceByte>>}
Colon == <<":">>
\* One way to pass v for p.
Passing(p, s, u, v) == <<(((s \odot p.name) \odot Colon) \odot u) \odot Quoted(p.ty, v), <<<<p.name, v>>>>>>

LEMMA GapIs ==
  ASSUME NEW Z, Z \subseteq Text
  PROVE  Gap \subseteq Text /\ Then(Gap, Z) = Spaced(Z)
<1> DEFINE N == {<<>>}  S == {<<SpaceByte>>}
<1>1. Gap = N \cup S
  BY DEF Gap
<1>2. <<>> \in Text /\ <<SpaceByte>> \in Text
  BY SpaceFacts, TextFacts
<1>3. Then(N, Z) = Z
  BY ThenNone
<1>4. Then(S, Z) = Before({SpaceByte}, Z)
  BY DEF Then, Before
<1>5. N \subseteq Text /\ S \subseteq Text
  BY <1>2
<1> HIDE DEF N, S
<1>6. Then(Gap, Z) = Then(N, Z) \cup Then(S, Z)
  BY <1>1, ThenOr
<1> QED BY <1>1, <1>3, <1>4, <1>5, <1>6 DEF Spaced

LEMMA ArgTextsAre == \A p : ArgTexts(p) = {Passing(p, s, u, v) : s, u \in Gap, v \in ValuesOf(p.ty)}
BY DEF ArgTexts, Passing, Gap, SpaceByte, Colon, \odot

\* The texts of one parameter.
LEMMA ParamTexts ==
  ASSUME AllWords, NEW p, IsParam(p), NEW Y, Y \subseteq Text, Y # {}
  PROVE  Texts(ArgTexts(p)) \subseteq Text /\ Then(Texts(ArgTexts(p)), Y) = ParamLang(p, Y)
<1> DEFINE V == ValueTexts(p.ty)  K == {KeyOf(p)}  GV == Then(Gap, V)  KGV == Then(K, GV)  W == Then(Gap, KGV)
           name == p.name
<1>1. V \subseteq Text /\ Then(V, Y) = ValueLang(p.ty, Y)
  BY ValueTextsAre DEF IsParam
<1>2. KeyOf(p) \in Text /\ name \in Text /\ Colon \in Text /\ KeyOf(p) = name \odot Colon /\ Gap \subseteq Text
  <2>1. name \in Seq(Byte) /\ ":" \in Byte
    BY Bytes DEF IsParam
  <2>2. name \in Text /\ Colon \in Text
    <3>1. Byte \subseteq Symbol
      BY MarkFacts
    <3>2. Seq(Byte) \subseteq Text
      BY <3>1, SeqMonotonic DEF Text
    <3>3. \A c \in Byte : <<c>> \in Text
      BY <3>1, TextFacts
    <3>4. name \in Text
      BY <2>1, <3>2
    <3> QED BY <2>1, <3>3, <3>4 DEF Colon
  <2>3. KeyOf(p) = name \odot Colon
    BY <2>1, AppendIsConcat DEF KeyOf, Colon, \odot
  <2> HIDE DEF name
  <2> QED BY <2>2, <2>3, <1>1, GapIs, TextFacts
<1>3. GV \subseteq Text /\ KGV \subseteq Text /\ W \subseteq Text
  <2>1. GV \subseteq Text
    BY <1>1, <1>2, ThenType
  <2> HIDE DEF GV
  <2>2. KGV \subseteq Text
    <3>1. K \subseteq Text
      BY <1>2
    <3> QED BY <2>1, <3>1, ThenType
  <2> HIDE DEF KGV
  <2> QED BY <1>2, <2>1, <2>2, ThenType
<1>4. /\ \A w : w \in GV <=> \E u \in Gap, q \in V : w = u \odot q
      /\ \A w : w \in KGV <=> \E r \in GV : w = (name \odot Colon) \odot r
      /\ \A w : w \in W <=> \E s \in Gap, r \in KGV : w = s \odot r
      /\ \A q : q \in V <=> \E v \in ValuesOf(p.ty) : q = Quoted(p.ty, v)
  <2>1. \A q : q \in V <=> \E v \in ValuesOf(p.ty) : q = Quoted(p.ty, v)
    BY DEF ValueTexts
  <2> HIDE DEF V
  <2>2. \A w : w \in GV <=> \E u \in Gap, q \in V : w = u \odot q
    BY DEF Then
  <2> HIDE DEF GV, name
  <2>3. \A w : w \in KGV <=> \E r \in GV : w = (name \odot Colon) \odot r
    BY <1>2 DEF Then
  <2> HIDE DEF KGV
  <2>4. \A w : w \in W <=> \E s \in Gap, r \in KGV : w = s \odot r
    BY DEF Then
  <2> QED BY <2>1, <2>2, <2>3, <2>4
<1>5. \A w : w \in Texts(ArgTexts(p)) <=>
        \E s \in Gap, u \in Gap, q \in V : w = (((s \odot name) \odot Colon) \odot u) \odot q
  <2>1. \A a : a \in ArgTexts(p) <=> \E s, u \in Gap, v \in ValuesOf(p.ty) : a = Passing(p, s, u, v)
    BY ArgTextsAre
  <2>2. \A w : w \in Texts(ArgTexts(p)) <=> \E a \in ArgTexts(p) : w = a[1]
    BY DEF Texts
  <2>3. \A s, u, v : Passing(p, s, u, v)[1] = (((s \odot name) \odot Colon) \odot u) \odot Quoted(p.ty, v)
    BY DEF Passing
  <2> HIDE DEF name, V
  <2>4. \A w : w \in Texts(ArgTexts(p)) <=>
          \E s, u \in Gap, v \in ValuesOf(p.ty) : w = (((s \odot name) \odot Colon) \odot u) \odot Quoted(p.ty, v)
    <3>1. ASSUME NEW w \in Texts(ArgTexts(p))
          PROVE  \E s, u \in Gap, v \in ValuesOf(p.ty) : w = (((s \odot name) \odot Colon) \odot u) \odot Quoted(p.ty, v)
      <4>1. PICK a \in ArgTexts(p) : w = a[1]
        BY <2>2
      <4>2. PICK s \in Gap, u \in Gap, v \in ValuesOf(p.ty) : a = Passing(p, s, u, v)
        BY <2>1
      <4> QED BY <4>1, <4>2, <2>3
    <3>2. ASSUME NEW s \in Gap, NEW u \in Gap, NEW v \in ValuesOf(p.ty)
          PROVE  (((s \odot name) \odot Colon) \odot u) \odot Quoted(p.ty, v) \in Texts(ArgTexts(p))
      <4> DEFINE a == Passing(p, s, u, v)
      <4>1. a \in ArgTexts(p)
        BY <2>1
      <4>2. a[1] = (((s \odot name) \odot Colon) \odot u) \odot Quoted(p.ty, v)
        BY <2>3
      <4> HIDE DEF a
      <4> QED BY <4>1, <4>2, <2>2
    <3> QED BY <3>1, <3>2
  <2> QED BY <2>4, <1>4
<1> HIDE DEF V, K, GV, KGV, W, name
<1>6. ASSUME NEW s \in Text, NEW u \in Text, NEW q \in Text
      PROVE  (((s \odot name) \odot Colon) \odot u) \odot q = s \odot ((name \odot Colon) \odot (u \odot q))
  <2> DEFINE sn == s \odot name  nc == name \odot Colon  snc == sn \odot Colon  uq == u \odot q  ncuq == nc \odot uq
  <2>1. sn \in Text /\ nc \in Text /\ uq \in Text
    BY <1>2, TextFacts
  <2>2. snc = s \odot nc
    BY <1>2, Assoc
  <2> HIDE DEF sn, nc
  <2>3. snc \in Text
    BY <1>2, <2>1, TextFacts
  <2> HIDE DEF snc
  <2>4. (snc \odot u) \odot q = snc \odot uq
    BY <2>3, Assoc
  <2> HIDE DEF uq
  <2>5. (s \odot nc) \odot uq = s \odot (nc \odot uq)
    BY <2>1, Assoc
  <2> QED BY <2>2, <2>4, <2>5 DEF sn, nc, snc, uq
<1>7. Texts(ArgTexts(p)) = W
  <2>1. ASSUME NEW w \in Texts(ArgTexts(p)) PROVE w \in W
    <3>1. PICK s \in Gap, u \in Gap, q \in V : w = (((s \odot name) \odot Colon) \odot u) \odot q
      BY <1>5
    <3>2. w = s \odot ((name \odot Colon) \odot (u \odot q))
      <4>1. s \in Text /\ u \in Text /\ q \in Text
        BY <1>1, <1>2
      <4> QED BY <4>1, <3>1, <1>6
    <3> DEFINE uq == u \odot q  r == (name \odot Colon) \odot uq
    <3>3. uq \in GV
      BY <1>4
    <3>4. r \in KGV
      <4> HIDE DEF uq
      <4> QED BY <3>3, <1>4
    <3>5. w = s \odot r
      BY <3>2
    <3> HIDE DEF r
    <3> QED BY <3>4, <3>5, <1>4
  <2>2. ASSUME NEW w \in W PROVE w \in Texts(ArgTexts(p))
    <3>1. PICK s \in Gap, r \in KGV : w = s \odot r
      BY <1>4
    <3>2. PICK x \in GV : r = (name \odot Colon) \odot x
      BY <1>4
    <3>3. PICK u \in Gap, q \in V : x = u \odot q
      BY <1>4
    <3>4. w = (((s \odot name) \odot Colon) \odot u) \odot q
      <4>1. s \in Text /\ u \in Text /\ q \in Text
        BY <1>1, <1>2
      <4> QED BY <4>1, <3>1, <3>2, <3>3, <1>6
    <3> QED BY <3>4, <1>5
  <2> QED BY <2>1, <2>2
<1>8. Then(W, Y) = ParamLang(p, Y)
  <2> DEFINE VY == Then(V, Y)  L == ValueLang(p.ty, Y)
  <2>1. Then(GV, Y) = Spaced(L) /\ L \subseteq Text
    <3>1. VY \subseteq Text
      BY <1>1, ThenType
    <3>2. Then(GV, Y) = Then(Gap, VY)
      BY <1>1, <1>2, ThenAssoc DEF GV
    <3> HIDE DEF VY
    <3>3. Then(Gap, VY) = Spaced(VY)
      BY <3>1, GapIs
    <3> QED BY <3>1, <3>2, <3>3, <1>1 DEF VY
  <2> HIDE DEF L
  <2> DEFINE S == Spaced(L)
  <2>2. Then(KGV, Y) = Then(K, S)
    <3>1. K \subseteq Text
      BY <1>2 DEF K
    <3>2. Then(Then(K, GV), Y) = Then(K, Then(GV, Y))
      BY <1>3, <3>1, ThenAssoc
    <3> QED BY <2>1, <3>2 DEF KGV
  <2>3. Then(K, S) \subseteq Text
    <3>1. S \subseteq Text
      <4>1. {SpaceByte} \subseteq Symbol
        BY SpaceFacts
      <4> QED BY <4>1, <2>1, BeforeType DEF Spaced
    <3>2. K \subseteq Text
      BY <1>2 DEF K
    <3> HIDE DEF S
    <3> QED BY <3>1, <3>2, ThenType
  <2> HIDE DEF S
  <2> DEFINE KS == Then(K, S)
  <2>4. Then(W, Y) = Then(Gap, KS)
    <3>1. Then(Then(Gap, KGV), Y) = Then(Gap, Then(KGV, Y))
      BY <1>2, <1>3, ThenAssoc
    <3> QED BY <2>2, <3>1 DEF W
  <2>5. Then(Gap, KS) = Spaced(KS)
    <3> HIDE DEF KS
    <3> QED BY <2>3, GapIs DEF KS
  <2> QED BY <2>4, <2>5 DEF ParamLang, L, S, K
<1> QED BY <1>3, <1>7, <1>8

LEMMA TextsCat ==
  ASSUME NEW A, NEW B
  PROVE  Texts(Cat(A, B)) = Then(Texts(A), Texts(B))
<1> DEFINE C == Cat(A, B)  F == Texts(A)  G == Texts(B)  pair(a, b) == <<a[1] \odot b[1], a[2] \odot b[2]>>
<1>1. /\ \A w : w \in F <=> \E a \in A : w = a[1]
      /\ \A w : w \in G <=> \E b \in B : w = b[1]
      /\ \A w : w \in Texts(C) <=> \E c \in C : w = c[1]
  BY DEF Texts
<1>2. C = {pair(a, b) : a \in A, b \in B}
  BY DEF Cat, \odot
<1>3. \A a, b : pair(a, b)[1] = a[1] \odot b[1]
  OBVIOUS
<1> HIDE DEF C, F, G, pair
<1>4. \A c : c \in C <=> \E a \in A, b \in B : c = pair(a, b)
  BY <1>2
<1>5. \A w : w \in Texts(C) <=> \E a \in A, b \in B : w = a[1] \odot b[1]
  <2>1. ASSUME NEW w \in Texts(C) PROVE \E a \in A, b \in B : w = a[1] \odot b[1]
    <3>1. PICK c \in C : w = c[1]
      BY <1>1
    <3>2. PICK a \in A, b \in B : c = pair(a, b)
      BY <1>4
    <3> QED BY <3>1, <3>2, <1>3
  <2>2. ASSUME NEW a \in A, NEW b \in B PROVE a[1] \odot b[1] \in Texts(C)
    <3>1. pair(a, b) \in C /\ pair(a, b)[1] = a[1] \odot b[1]
      BY <1>3, <1>4
    <3> QED BY <3>1, <1>1
  <2> QED BY <2>1, <2>2
<1>6. \A w : w \in Then(F, G) <=> \E x \in F, y \in G : w = x \odot y
  BY DEF Then
<1>7. \A w : w \in Then(F, G) <=> \E a \in A, b \in B : w = a[1] \odot b[1]
  <2>1. ASSUME NEW w \in Then(F, G) PROVE \E a \in A, b \in B : w = a[1] \odot b[1]
    <3>1. PICK x \in F, y \in G : w = x \odot y
      BY <1>6
    <3> QED BY <3>1, <1>1
  <2>2. ASSUME NEW a \in A, NEW b \in B PROVE a[1] \odot b[1] \in Then(F, G)
    <3>1. a[1] \in F /\ b[1] \in G
      BY <1>1
    <3> QED BY <3>1, <1>6
  <2> QED BY <2>1, <2>2
<1> QED BY <1>5, <1>7 DEF C, F, G

LEMMA TextsLone == \A w : Texts(Lone(w)) = {w}
BY DEF Texts, Lone

\* run gives the argument lists of the first parameters.
Argued(req, run) ==
  /\ ArgLists(req) = run[Len(req)] /\ run[0] = Lone(<<>>)
  /\ \A i \in 1 .. Len(req) :
       run[i] = Cat(Cat(run[i - 1], Lone(IF i = 1 THEN <<>> ELSE <<Comma>>)), ArgTexts(req[i]))

LEMMA ArgListsRun ==
  ASSUME NEW req, Len(req) \in Nat
  PROVE  \E run : Argued(req, run)
<1> DEFINE n == Len(req)
           comma(i) == Lone(IF i = 1 THEN <<>> ELSE <<Comma>>)
           next(A, i) == Cat(Cat(A, comma(i)), ArgTexts(req[i]))
           IsRun(f) == f = [i \in 0 .. n |-> IF i = 0 THEN Lone(<<>>)
                              ELSE Cat(Cat(f[i - 1], Lone(IF i = 1 THEN <<>> ELSE <<",">>)), ArgTexts(req[i]))]
           run == CHOOSE f : IsRun(f)
           first == Lone(<<>>)
<1>1. ArgLists(req) = run[n]
  BY Zenon DEF ArgLists
<1>2. \A f : IsRun(f) <=> f = [i \in 0 .. n |-> IF i = 0 THEN first ELSE next(f[i - 1], i)]
  BY Zenon DEF Comma
<1> HIDE DEF IsRun, next, first
<1>3. n \in Nat
  OBVIOUS
<1> HIDE DEF n
<1> DEFINE Part(k, f) == f[0] = first /\ \A i \in 1 .. k : f[i] = next(f[i - 1], i)
           T == {k \in 0 .. n : \E f : Part(k, f)}
<1>4. 0 \in T
  <2> DEFINE f == [i \in 0 .. n |-> first]
  <2>1. f[0] = first
    BY <1>3
  <2> HIDE DEF f
  <2>2. Part(0, f)
    BY <2>1
  <2> QED BY <2>2, <1>3
<1>5. ASSUME NEW k \in 1 .. n, k - 1 \in T PROVE k \in T
  <2>1. PICK f : Part(k - 1, f)
    BY <1>5
  <2> DEFINE g == [i \in 0 .. n |-> IF i < k THEN f[i] ELSE next(f[k - 1], k)]
  <2>2. \A i \in 0 .. n : g[i] = IF i < k THEN f[i] ELSE next(f[k - 1], k)
    OBVIOUS
  <2> HIDE DEF g
  <2>3. g[0] = first
    BY <1>3, <2>1, <2>2
  <2>4. ASSUME NEW i \in 1 .. k PROVE g[i] = next(g[i - 1], i)
    <3>1. g[i - 1] = f[i - 1]
      BY <1>3, <2>2
    <3>2. CASE i = k
      BY <1>3, <2>2, <3>1, <3>2
    <3>3. CASE i # k
      <4>1. g[i] = f[i] /\ i \in 1 .. k - 1
        BY <1>3, <2>2, <3>3
      <4> QED BY <2>1, <3>1, <4>1
    <3> QED BY <3>2, <3>3
  <2>5. Part(k, g)
    BY <2>3, <2>4
  <2> HIDE DEF Part
  <2> QED BY <2>5, <1>3
<1> HIDE DEF T
<1>6. n \in T
  <2>1. \A k \in 0 .. n : k \in T
    BY <1>3, <1>4, <1>5, UpTo
  <2> QED BY <2>1, <1>3
<1>7. PICK f : Part(n, f)
  BY <1>6 DEF T
<1> DEFINE g == [i \in 0 .. n |-> f[i]]
<1>8. g = [i \in 0 .. n |-> IF i = 0 THEN first ELSE next(g[i - 1], i)]
  <2>1. ASSUME NEW i \in 0 .. n PROVE f[i] = IF i = 0 THEN first ELSE next(g[i - 1], i)
    <3>1. CASE i = 0
      BY <1>7, <3>1
    <3>2. CASE i # 0
      <4>1. i \in 1 .. n /\ i - 1 \in 0 .. n
        BY <1>3, <3>2
      <4> QED BY <1>7, <3>2, <4>1
    <3> QED BY <3>1, <3>2
  <2> QED BY <2>1
<1> HIDE DEF g
<1>9. IsRun(run)
  <2>1. IsRun(g)
    BY <1>2, <1>8
  <2> QED BY <2>1, Zenon
<1> HIDE DEF run
<1>10. run[0] = first /\ \A i \in 1 .. n : run[i] = next(run[i - 1], i)
  <2>1. run = [i \in 0 .. n |-> IF i = 0 THEN first ELSE next(run[i - 1], i)]
    BY <1>2, <1>9
  <2> QED BY <1>3, <2>1
<1>11. Argued(req, run)
  BY <1>1, <1>10, Zenon DEF Argued, first, next, n
<1> QED BY <1>11
-----------------------------------------------------------------------------
(* The sentences, as the language of the first state *)

LEMMA ListTexts ==
  ASSUME AllWords, NEW tool, IsTool(tool), NEW Y, Y \subseteq Text, Y # {}
  PROVE  LET A == Texts(ArgLists(Required(tool)))
         IN  A \subseteq Text /\ Then(A, Before({Closing}, Y)) = ToolRest(tool, Y)
<1> DEFINE req == Required(tool)  n == Len(req)  C == Before({Closing}, Y)  L == Lists(req, Y)  none == <<>>
<1>1. /\ n \in Nat /\ (req # <<>> <=> n # 0) /\ \A i \in 1 .. n : IsParam(req[i])
  <2>1. req \in Seq(Range(tool.params))
    BY RequiredType
  <2> HIDE DEF req
  <2>2. n \in Nat /\ (req # <<>> <=> n # 0)
    BY <2>1, EmptySeq, LenProperties
  <2>3. \A i \in 1 .. Len(Required(tool)) : IsParam(Required(tool)[i])
    BY RequiredLen
  <2> QED BY <2>2, <2>3 DEF req
<1>2. ToolRest(tool, Y) = IF n = 0 THEN C ELSE L[n]
  BY <1>1 DEF ToolRest
<1> HIDE DEF req
<1>3. PICK run : Argued(req, run)
  BY <1>1, ArgListsRun
<1>4. IsLists(req, Y, L)
  BY <1>1, ListsAre
<1>5. /\ L[0] = Y /\ \A k \in 0 .. n : L[k] \subseteq Text /\ L[k] # {}
      /\ \A k \in 1 .. n : L[k] = ParamLang(req[n - k + 1], Before({IF k = 1 THEN Closing ELSE Comma}, L[k - 1]))
  BY <1>4, Zenon DEF IsLists
<1> HIDE DEF L
<1>6. /\ C \subseteq Text /\ C # {}
      /\ \A k \in 0 .. n : Before({Comma}, L[k]) \subseteq Text /\ Before({Comma}, L[k]) # {}
  <2>1. {Closing} \subseteq Symbol /\ {Comma} \subseteq Symbol /\ {Closing} # {} /\ {Comma} # {}
    BY EndBytes
  <2>2. C \subseteq Text /\ C # {}
    BY <2>1, BeforeType
  <2>3. \A k \in 0 .. n : Before({Comma}, L[k]) \subseteq Text /\ Before({Comma}, L[k]) # {}
    <3> TAKE k \in 0 .. n
    <3> QED BY <2>1, <1>5, BeforeType
  <2> QED BY <2>2, <2>3
<1> HIDE DEF C
<1> DEFINE A(i) == Texts(run[i])  sep(i) == {IF i = 1 THEN none ELSE <<Comma>>}  P(i) == Texts(ArgTexts(req[i]))
           Tail0(i) == IF i = n THEN C ELSE IF i = 0 THEN L[n] ELSE Before({Comma}, L[n - i])
<1>7. /\ A(0) = {none} /\ ArgLists(req) = run[n]
      /\ \A i \in 1 .. n : A(i) = Then(Then(A(i - 1), sep(i)), P(i))
  <2>1. ArgLists(req) = run[n] /\ run[0] = Lone(none)
    BY <1>3 DEF Argued
  <2>2. ASSUME NEW i \in 1 .. n PROVE A(i) = Then(Then(A(i - 1), sep(i)), P(i))
    <3> DEFINE w == IF i = 1 THEN none ELSE <<Comma>>  X == Cat(run[i - 1], Lone(w))
    <3>1. run[i] = Cat(X, ArgTexts(req[i]))
      BY <1>3 DEF Argued
    <3>2. Texts(X) = Then(A(i - 1), {w})
      <4> HIDE DEF w
      <4>1. Texts(Cat(run[i - 1], Lone(w))) = Then(Texts(run[i - 1]), Texts(Lone(w)))
        BY TextsCat
      <4> QED BY <4>1, TextsLone
    <3> HIDE DEF X
    <3>3. Texts(Cat(X, ArgTexts(req[i]))) = Then(Texts(X), Texts(ArgTexts(req[i])))
      BY TextsCat
    <3> QED BY <3>1, <3>2, <3>3
  <2> QED BY <2>1, <2>2, TextsLone
<1>8. ASSUME NEW i \in 0 .. n PROVE Tail0(i) \subseteq Text /\ Tail0(i) # {}
  <2>1. n \in 0 .. n /\ n - i \in 0 .. n
    BY <1>1
  <2> QED BY <2>1, <1>5, <1>6
<1>9. ASSUME NEW i \in 1 .. n
      PROVE  /\ sep(i) \subseteq Text /\ P(i) \subseteq Text
             /\ Tail0(i - 1) = Then(sep(i), Then(P(i), Tail0(i)))
  <2> DEFINE k == n - i + 1  K == L[k]
  <2>1. k \in 1 .. n /\ k - 1 = n - i /\ n - k + 1 = i /\ (k = 1 <=> i = n) /\ i \in 0 .. n /\ n \in Nat /\ k \in 0 .. n
    BY <1>1
  <2>2. K = ParamLang(req[i], Tail0(i))
    <3>1. K = ParamLang(req[i], Before({IF k = 1 THEN Closing ELSE Comma}, L[n - i]))
      <4> HIDE DEF k
      <4>1. L[k] = ParamLang(req[n - k + 1], Before({IF k = 1 THEN Closing ELSE Comma}, L[k - 1]))
        BY <1>5, <2>1
      <4> QED BY <4>1, <2>1
    <3>2. Before({IF k = 1 THEN Closing ELSE Comma}, L[n - i]) = Tail0(i)
      <4>1. CASE i = n
        <5>1. L[n - i] = Y /\ (IF k = 1 THEN Closing ELSE Comma) = Closing
          BY <4>1, <1>5, <2>1
        <5> QED BY <4>1, <5>1 DEF C
      <4>2. CASE i # n
        <5>1. (IF k = 1 THEN Closing ELSE Comma) = Comma /\ i # 0
          <6> HIDE DEF k, n
          <6> QED BY <4>2, <2>1
        <5> QED BY <4>2, <5>1
      <4> QED BY <4>1, <4>2
    <3> QED BY <3>1, <3>2
  <2>3. P(i) \subseteq Text /\ Then(P(i), Tail0(i)) = K
    <3> DEFINE p == req[i]  Z == Tail0(i)
    <3>1. IsParam(p) /\ Z \subseteq Text /\ Z # {}
      BY <1>1, <1>8, <2>1
    <3> HIDE DEF p, Z
    <3>2. Texts(ArgTexts(p)) \subseteq Text /\ Then(Texts(ArgTexts(p)), Z) = ParamLang(p, Z)
      BY <3>1, ParamTexts
    <3> QED BY <3>2, <2>2 DEF p, Z
  <2>4. sep(i) \subseteq Text /\ Tail0(i - 1) = Then(sep(i), K)
    <3>1. i - 1 # n /\ (i = 1 <=> i - 1 = 0)
      <4> HIDE DEF n
      <4> QED BY <2>1
    <3>2. K \subseteq Text
      BY <1>5, <2>1
    <3>3. CASE i = 1
      <4>1. Tail0(i - 1) = K /\ sep(i) = {none}
        BY <3>1, <3>3, <2>1
      <4>2. none \in Text /\ Then({none}, K) = K
        <5> HIDE DEF K
        <5> QED BY <3>2, ThenNone, TextFacts
      <4> HIDE DEF none, K
      <4> QED BY <4>1, <4>2
    <3>4. CASE i # 1
      <4>1. n - (i - 1) = k
        <5> HIDE DEF n
        <5> QED BY <2>1
      <4>2. Tail0(i - 1) = Before({Comma}, K) /\ sep(i) = {<<Comma>>}
        BY <3>1, <3>4, <4>1
      <4>3. <<Comma>> \in Text
        BY EndBytes, TextFacts
      <4> HIDE DEF K
      <4>4. Then({<<Comma>>}, K) = Before({Comma}, K)
        BY DEF Then, Before
      <4> QED BY <4>2, <4>3, <4>4
    <3> QED BY <3>3, <3>4
  <2> QED BY <2>3, <2>4
<1>10. n # 0 => /\ \A i \in 0 .. n : A(i) \subseteq Text
                /\ Then(A(n), C) = L[n]
  <2> SUFFICES ASSUME n # 0 PROVE /\ \A i \in 0 .. n : A(i) \subseteq Text
                                  /\ Then(A(n), C) = L[n]
    OBVIOUS
  <2> DEFINE T == {i \in 0 .. n : A(i) \subseteq Text /\ Then(A(i), Tail0(i)) = L[n]}
  <2>1. 0 \in T
    <3>1. Tail0(0) = L[n]
      OBVIOUS
    <3>2. L[n] \subseteq Text /\ n \in 0 .. n
      BY <1>1, <1>5
    <3>3. none \in Text /\ Then({none}, L[n]) = L[n]
      BY <3>2, ThenNone, TextFacts
    <3>4. A(0) = {none} /\ 0 \in 0 .. n
      BY <1>1, <1>7
    <3> HIDE DEF A, Tail0, none, n
    <3> QED BY <3>1, <3>3, <3>4
  <2>2. ASSUME NEW i \in 1 .. n, i - 1 \in T PROVE i \in T
    <3> DEFINE X == A(i - 1)  S == sep(i)  Q == P(i)  Z == Tail0(i)  XS == Then(X, S)  QZ == Then(Q, Z)
    <3>1. i \in 0 .. n /\ X \subseteq Text /\ Then(X, Tail0(i - 1)) = L[n]
      <4> HIDE DEF A, Tail0
      <4> QED BY <1>1, <2>2
    <3>2. S \subseteq Text /\ Q \subseteq Text /\ Tail0(i - 1) = Then(S, QZ)
      BY <1>9
    <3>3. Z \subseteq Text
      BY <1>8, <3>1
    <3>4. A(i) = Then(XS, Q)
      BY <1>7
    <3> HIDE DEF X, S, Q, Z, A, Tail0
    <3>5. XS \subseteq Text /\ QZ \subseteq Text
      BY <3>1, <3>2, <3>3, ThenType
    <3>6. Then(XS, QZ) = Then(X, Then(S, QZ))
      <4> HIDE DEF QZ
      <4> QED BY <3>1, <3>2, <3>5, ThenAssoc
    <3> HIDE DEF XS
    <3>7. Then(Then(XS, Q), Z) = Then(XS, QZ)
      BY <3>2, <3>3, <3>5, ThenAssoc
    <3>8. Then(XS, Q) \subseteq Text
      BY <3>2, <3>5, ThenType
    <3>9. A(i) \subseteq Text /\ Then(A(i), Tail0(i)) = L[n]
      BY <3>1, <3>2, <3>4, <3>6, <3>7, <3>8 DEF Z
    <3> QED BY <3>1, <3>9
  <2> HIDE DEF T
  <2>3. \A i \in 0 .. n : i \in T
    BY <1>1, <2>1, <2>2, UpTo
  <2>4. n \in T /\ Tail0(n) = C
    BY <1>1, <2>3
  <2> HIDE DEF A, Tail0
  <2> QED BY <2>3, <2>4 DEF T
<1>11. A(n) \subseteq Text /\ Then(A(n), C) = ToolRest(tool, Y)
  <2>1. CASE n = 0
    <3>1. none \in Text /\ Then({none}, C) = C
      BY <1>6, ThenNone, TextFacts
    <3>2. A(n) = {none}
      BY <1>7, <2>1
    <3> HIDE DEF A, none
    <3> QED BY <1>2, <2>1, <3>1, <3>2
  <2>2. CASE n # 0
    <3>1. n \in 0 .. n
      BY <1>1
    <3> HIDE DEF A
    <3> QED BY <1>2, <1>10, <2>2, <3>1
  <2> QED BY <2>1, <2>2
<1> HIDE DEF n
<1> QED BY <1>7, <1>11 DEF req, C

\* One call of a tool.
CallText(tool, x) ==
  ((((<<Opens>> \odot CallWord) \odot tool.name) \odot <<Brace>>) \odot x) \odot <<Closing, Closes>>

LEMMA CallsOfAre ==
  \A tool : Texts(CallsOf(tool)) = {CallText(tool, x) : x \in Texts(ArgLists(Required(tool)))}
<1>1. TAKE tool
<1> DEFINE A == ArgLists(Required(tool))  call(a) == <<CallText(tool, a[1]), [name |-> tool.name, args |-> a[2]]>>
<1>2. CallsOf(tool) = {call(a) : a \in A}
  BY DEF CallsOf, CallText, Brace, Closing, \odot
<1>3. \A a : call(a)[1] = CallText(tool, a[1])
  OBVIOUS
<1> HIDE DEF A, call
<1>4. \A c : c \in CallsOf(tool) <=> \E a \in A : c = call(a)
  BY <1>2
<1>5. ASSUME NEW w \in Texts(CallsOf(tool)) PROVE w \in {CallText(tool, x) : x \in Texts(A)}
  <2>1. PICK c \in CallsOf(tool) : w = c[1]
    BY DEF Texts
  <2>2. PICK a \in A : c = call(a)
    BY <1>4
  <2>3. w = CallText(tool, a[1]) /\ a[1] \in Texts(A)
    BY <1>3, <2>1, <2>2 DEF Texts
  <2> QED BY <2>3
<1>6. ASSUME NEW w \in {CallText(tool, x) : x \in Texts(A)} PROVE w \in Texts(CallsOf(tool))
  <2>1. PICK x \in Texts(A) : w = CallText(tool, x)
    OBVIOUS
  <2>2. PICK a \in A : x = a[1]
    BY DEF Texts
  <2>3. call(a) \in CallsOf(tool) /\ call(a)[1] = w
    BY <1>3, <1>4, <2>1, <2>2
  <2> QED BY <2>3 DEF Texts
<1>7. Texts(CallsOf(tool)) = {CallText(tool, x) : x \in Texts(A)}
  BY <1>5, <1>6
<1> QED BY <1>7 DEF A

LEMMA CallTextIs ==
  ASSUME NEW tool, IsTool(tool), NEW x \in Text
  PROVE  LET e == <<Closing>> \odot (<<Closes>> \odot <<>>)
         IN  /\ CallText(tool, x) = <<Opens>> \odot (CallWord \odot (tool.name \odot (<<Brace>> \odot (x \odot e))))
             /\ tool.name \odot (<<Brace>> \odot (x \odot e)) \in Text
<1> DEFINE o == <<Opens>>  name == tool.name  br == <<Brace>>  e == <<Closing>> \odot (<<Closes>> \odot <<>>)
           cw == CallWord  end == <<Closing, Closes>>
           o1 == o \odot cw  o2 == o1 \odot name  o3 == o2 \odot br  o4 == o3 \odot x
           e1 == x \odot e  e2 == br \odot e1  e3 == name \odot e2  e4 == cw \odot e3
<1>1. o \in Text /\ cw \in Text /\ name \in Text /\ br \in Text /\ <<Closing>> \in Text /\ <<Closes>> \in Text
  <2>1. Brace \in Byte /\ name \in Seq(Byte) /\ cw \in Seq(Byte)
    <3>1. Brace \in Byte
      BY Bytes DEF Brace
    <3>2. name \in Seq(Byte)
      <4>1. name \in Seq(Byte \ {Brace}) /\ Byte \ {Brace} \subseteq Byte
        BY DEF IsTool
      <4> QED BY <4>1, SeqMonotonic
    <3> QED BY <3>1, <3>2, Bytes
  <2>2. Byte \subseteq Symbol
    BY MarkFacts
  <2>3. Seq(Byte) \subseteq Text
    BY <2>2, SeqMonotonic DEF Text
  <2>4. Opens \in Symbol /\ Closes \in Symbol /\ Brace \in Symbol /\ Closing \in Symbol
    BY <2>1, <2>2, MarkFacts, EndBytes
  <2>5. o \in Text /\ br \in Text /\ <<Closing>> \in Text /\ <<Closes>> \in Text
    BY <2>4, TextFacts
  <2>6. cw \in Text /\ name \in Text
    BY <2>1, <2>3
  <2> QED BY <2>5, <2>6
<1>2. end = e /\ e \in Text
  <2>1. <<Closes>> \odot <<>> = <<Closes>>
    BY <1>1, TextFacts
  <2>2. <<Closing>> \odot <<Closes>> = end /\ <<Closing>> \odot <<Closes>> \in Text
    <3>1. \A a, b : <<a>> \o <<b>> = <<a, b>>
      <4> TAKE a, b
      <4> DEFINE S == {a, b}
      <4> DEFINE one == <<a>>  two == <<a, b>>
      <4>1. one \in Seq(S) /\ b \in S /\ Len(one) = 1 /\ one[1] = a
        OBVIOUS
      <4>2. two \in Seq(S) /\ Len(two) = 2 /\ two[1] = a /\ two[2] = b
        OBVIOUS
      <4> HIDE DEF S, one, two
      <4>3. Append(one, b) = one \o <<b>>
        BY <4>1, AppendIsConcat
      <4>4. Append(one, b) \in Seq(S) /\ Len(Append(one, b)) = 2 /\ Append(one, b)[1] = a /\ Append(one, b)[2] = b
        <5>1. /\ Append(one, b) \in Seq(S) /\ Len(Append(one, b)) = Len(one) + 1
              /\ \A i \in 1 .. Len(one) : Append(one, b)[i] = one[i]
              /\ Append(one, b)[Len(one) + 1] = b
          BY <4>1, AppendProperties, ZenonT(30)
        <5> QED BY <4>1, <5>1
      <4>5. \A i \in 1 .. 2 : Append(one, b)[i] = two[i]
        BY <4>2, <4>4
      <4>6. Append(one, b) = two
        BY <4>2, <4>4, <4>5, SeqEqual
      <4> QED BY <4>3, <4>6 DEF one, two
    <3>2. <<Closing>> \odot <<Closes>> = end
      BY <3>1, Zenon DEF \odot
    <3> QED BY <3>2, <1>1, TextFacts
  <2> QED BY <2>1, <2>2
<1> HIDE DEF o, name, br, e, cw, end
<1>3. o1 \in Text
  BY <1>1, TextFacts
<1>4. o2 \in Text
  <2> HIDE DEF o1
  <2> QED BY <1>1, <1>3, TextFacts
<1>5. o3 \in Text
  <2> HIDE DEF o2
  <2> QED BY <1>1, <1>4, TextFacts
<1>6. e1 \in Text
  BY <1>2, TextFacts
<1>7. e2 \in Text
  <2> HIDE DEF e1
  <2> QED BY <1>1, <1>6, TextFacts
<1>8. e3 \in Text
  <2> HIDE DEF e2
  <2> QED BY <1>1, <1>7, TextFacts
<1>9. o4 \odot e = o3 \odot e1
  <2> HIDE DEF o3
  <2> QED BY <1>2, <1>5, Assoc
<1>10. o3 \odot e1 = o2 \odot e2
  <2> HIDE DEF o2, e1
  <2> QED BY <1>1, <1>4, <1>6, Assoc DEF e1
<1>11. o2 \odot e2 = o1 \odot e3
  <2> HIDE DEF o1, e2
  <2> QED BY <1>1, <1>3, <1>7, Assoc
<1>12. o1 \odot e3 = o \odot e4
  <2> HIDE DEF e3
  <2> QED BY <1>1, <1>8, Assoc
<1>13. CallText(tool, x) = o4 \odot end
  BY DEF CallText, o, cw, name, br, end
<1> HIDE DEF o1, o2, o3, o4, e1, e2, e3, e4
<1>14. CallText(tool, x) = o \odot e4
  BY <1>2, <1>9, <1>10, <1>11, <1>12, <1>13
<1> QED BY <1>8, <1>14 DEF e1, e2, e3, e4, o, cw, name, br, e
-----------------------------------------------------------------------------
(* From bytes to tokens *)

LEMMA Greatest ==
  ASSUME NEW n \in Nat, NEW S, S \subseteq 1 .. n, S # {}
  PROVE  Max(S) \in S
<1> DEFINE T == {y \in 0 .. n : n - y \in S}
<1>1. T \subseteq Nat /\ T # {}
  <2>1. PICK x \in S : TRUE
    OBVIOUS
  <2>2. n - x \in 0 .. n /\ n - (n - x) = x
    OBVIOUS
  <2>3. n - x \in T
    BY <2>2
  <2>4. T \subseteq Nat
    OBVIOUS
  <2> HIDE DEF T
  <2> QED BY <2>3, <2>4
<1>2. PICK y \in T : \A z \in T : y <= z
  BY <1>1, Least
<1>3. n - y \in S
  OBVIOUS
<1>4. \A x \in S : n - y >= x
  <2>1. SUFFICES ASSUME NEW x \in S PROVE n - y >= x
    OBVIOUS
  <2>2. n - x \in T
    <3>1. n - x \in 0 .. n /\ n - (n - x) = x
      OBVIOUS
    <3> QED BY <3>1
  <2>3. y <= n - x /\ x \in 1 .. n /\ y \in 0 .. n
    BY <1>2, <2>2
  <2> QED BY <2>3
<1> QED BY <1>3, <1>4 DEF Max

LEMMA VocabFacts ==
  /\ Delims \subseteq Token \cap Special
  /\ \A t \in Token : Len(VocabBytes(t)) \in Nat
  /\ \A t \in Token : VocabBytes(t) # <<>> => Len(VocabBytes(t)) >= 1
  /\ \A t \in Special : VocabBytes(t) = <<>>
  /\ \A c \in Byte : \E t \in Token \ Special : Len(VocabBytes(t)) = 1 /\ VocabBytes(t)[1] = c
<1>1. Delims \subseteq Token \cap Special
  BY VocabAssumption DEF Delims
<1>2. \A t \in Special : VocabBytes(t) = <<>>
  BY DEF VocabBytes
<1>3. ASSUME NEW t \in Token
      PROVE  Len(VocabBytes(t)) \in Nat /\ (VocabBytes(t) # <<>> => Len(VocabBytes(t)) >= 1)
  <2> DEFINE n == Len(Piece[t])
  <2>1. n \in Nat
    <3>1. Piece[t] \in Seq(Range(Piece[t]))
      BY VocabAssumption
    <3> QED BY <3>1, LenProperties
  <2> HIDE DEF n
  <2> DEFINE byte(i) == IF Piece[t][i] = Meta THEN " " ELSE Piece[t][i]
             w == [i \in 1 .. n |-> byte(i)]
  <2>2. Len(w) = n /\ (n = 0 => w = <<>>)
    <3> HIDE DEF byte
    <3> QED BY <2>1
  <2>3. VocabBytes(t) = <<>> \/ VocabBytes(t) = w
    BY DEF VocabBytes, Spelled, n
  <2> HIDE DEF w
  <2> QED BY <2>1, <2>2, <2>3
<1>4. ASSUME NEW c \in Byte
      PROVE  \E t \in Token \ Special : Len(VocabBytes(t)) = 1 /\ VocabBytes(t)[1] = c
  <2>1. PICK t \in Token : Len(VocabBytes(t)) = 1 /\ VocabBytes(t)[1] = c
    BY DEF Byte
  <2>2. t \notin Special
    BY <1>2, <2>1
  <2> QED BY <2>1, <2>2
<1> QED BY <1>1, <1>2, <1>3, <1>4

LEMMA StepOk ==
  ASSUME NEW b, NEW d, NEW open, Ok(b, d, open), NEW s \in 1 .. Len(b.st), NEW c
  PROVE  StepByte(b.st, s, c) \in 0 .. Len(b.st)
<1> DEFINE q == b.st[s]  n == Len(b.st)
<1> HIDE DEF q
<1>1. /\ n \in Nat /\ q \in Row /\ Points(q, n)
  BY OkFacts DEF q
<1>2. q.lits \in Seq(Byte \X Index) /\ q.class \in Class
  BY <1>1 DEF Row
<1>3. First(q.lits, c) \in 0 .. n
  <2>1. \/ First(q.lits, c) = None /\ \A i \in DOMAIN q.lits : q.lits[i][1] # c
        \/ \E i \in DOMAIN q.lits : q.lits[i][1] = c /\ First(q.lits, c) = q.lits[i][2]
    <3>1. DOMAIN q.lits \subseteq Nat
      BY <1>2
    <3> QED BY <3>1, FirstIs, ZenonT(60)
  <2>2. \A i \in DOMAIN q.lits : q.lits[i][2] \in 0 .. n
    <3>1. \A i \in DOMAIN q.lits : q.lits[i][2] \in Nat
      BY <1>2 DEF Index
    <3> QED BY <3>1, <1>1 DEF Points
  <2> QED BY <2>1, <2>2, <1>1 DEF None
<1>4. q.class.to \in 0 .. n /\ q.class.exit \in 0 .. n
  BY <1>1, <1>2 DEF Class, Points
<1>5. None \in 0 .. n /\ s \in 0 .. n
  BY <1>1 DEF None
<1> QED BY <1>3, <1>4, <1>5 DEF StepByte, q

\* run gives the states word is walked through from s.
Walked(b, s, word, run) ==
  /\ Walk(b.st, s, word) = run[Len(word)] /\ run[0] = s
  /\ \A k \in 0 .. Len(word) : run[k] \in 0 .. Len(b.st)
  /\ \A k \in 1 .. Len(word) :
       run[k] = IF run[k - 1] = None THEN None ELSE StepByte(b.st, run[k - 1], word[k])

LEMMA WalkRuns ==
  ASSUME NEW b, NEW d, NEW open, Ok(b, d, open), NEW s \in 1 .. Len(b.st), NEW word, Len(word) \in Nat
  PROVE  \E run : Walked(b, s, word, run)
<1> DEFINE n == Len(word)  N == Len(b.st)
           next(q, k) == IF q = None THEN None ELSE StepByte(b.st, q, word[k])
           IsRun(f) == f = [k \in 0 .. n |-> IF k = 0 THEN s
                              ELSE IF f[k - 1] = None THEN None ELSE StepByte(b.st, f[k - 1], word[k])]
           run == CHOOSE f : IsRun(f)
           P == [k \in 0 .. n |-> 0 .. N]
           step == [k \in 1 .. n |-> [q \in 0 .. N |-> next(q, k)]]
<1>1. Walk(b.st, s, word) = run[n]
  BY Zenon DEF Walk
<1>2. N \in Nat /\ n \in Nat
  BY OkFacts
<1> HIDE DEF n
<1>3. \A k \in 1 .. n : \A q \in 0 .. N : step[k][q] = next(q, k) /\ next(q, k) \in 0 .. N
  <2>1. ASSUME NEW k \in 1 .. n, NEW q \in 0 .. N PROVE next(q, k) \in 0 .. N
    <3>1. CASE q = None
      BY <3>1, <1>2 DEF None
    <3>2. CASE q # None
      <4>1. q \in 1 .. N
        BY <3>2, <1>2 DEF None
      <4> QED BY <3>2, <4>1, StepOk
    <3> QED BY <3>1, <3>2
  <2> HIDE DEF next
  <2> QED BY <2>1
<1>4. PICK f : IsFold(f, n, s, step) /\ \A k \in 0 .. n : f[k] \in P[k]
  <2>1. s \in P[0]
    BY <1>2
  <2>2. \A k \in 1 .. n : \A q \in P[k - 1] : step[k][q] \in P[k]
    <3> HIDE DEF step, next
    <3> QED BY <1>2, <1>3
  <2> HIDE DEF step, P
  <2> QED BY <1>2, <2>1, <2>2, Fold
<1>5. \A k \in 1 .. n : step[k][f[k - 1]] = next(f[k - 1], k)
  <2>1. \A k \in 1 .. n : f[k - 1] \in 0 .. N
    BY <1>2, <1>4
  <2> HIDE DEF step, next
  <2> QED BY <2>1, <1>3
<1> HIDE DEF step
<1>6. IsRun(f)
  <2>1. \A k \in 0 .. n : (IF k = 0 THEN s ELSE step[k][f[k - 1]])
                          = (IF k = 0 THEN s ELSE next(f[k - 1], k))
    <3> HIDE DEF next
    <3> QED BY <1>2, <1>5
  <2>2. f = [k \in 0 .. n |-> IF k = 0 THEN s ELSE step[k][f[k - 1]]]
    BY <1>4, Zenon DEF IsFold
  <2>3. f = [k \in 0 .. n |-> IF k = 0 THEN s ELSE next(f[k - 1], k)]
    <3> HIDE DEF next
    <3> QED BY <2>1, <2>2
  <2> QED BY <2>3, Zenon
<1>7. IsRun(run)
  <2> HIDE DEF IsRun
  <2> QED BY <1>6, Zenon
<1> HIDE DEF run
<1>8. run[0] = s /\ \A k \in 1 .. n : run[k] = next(run[k - 1], k)
  BY <1>2, <1>7
<1>9. \A k \in 0 .. n : run[k] \in 0 .. N
  <2> DEFINE T == {k \in 0 .. n : run[k] \in 0 .. N}
  <2>1. 0 \in T
    BY <1>2, <1>8
  <2>2. ASSUME NEW k \in 1 .. n, k - 1 \in T PROVE k \in T
    <3> HIDE DEF next
    <3>1. next(run[k - 1], k) \in 0 .. N
      BY <1>3, <2>2
    <3> QED BY <3>1, <1>2, <1>8
  <2> HIDE DEF T
  <2>3. \A k \in 0 .. n : k \in T
    BY <1>2, <2>1, <2>2, UpTo
  <2> QED BY <2>3 DEF T
<1>10. Walked(b, s, word, run)
  BY <1>1, <1>8, <1>9 DEF n, Walked
<1> QED BY <1>10

\* A compiled automaton: edges to its own states, none out of the accepting one,
\* some out of every other, and no added token but the delimiters on them.
Sound(c) ==
  /\ IsConstraint(c, Special \ Delims) /\ c.panic = FALSE
  /\ \A s \in DOMAIN c.next : Accepting(c, s) \/ Allowed(c, s) # {}
  /\ \A s \in DOMAIN c.next : Allowed(c, s) \subseteq (Token \ Special) \cup Delims

LEMMA TokenToOk ==
  ASSUME NEW b, NEW d, NEW open, Ok(b, d, open), NEW s \in 1 .. Len(b.st), NEW t \in Token
  PROVE  /\ TokenTo(b.st, s, t) \in 0 .. Len(b.st)
         /\ t \in Special \ Delims => TokenTo(b.st, s, t) = None
         /\ b.st[s] = Final => TokenTo(b.st, s, t) = None
         /\ (\E i \in DOMAIN b.st[s].toks : b.st[s].toks[i][1] = t) => TokenTo(b.st, s, t) # None
         /\ (t \notin Special /\ Len(VocabBytes(t)) = 1)
              => TokenTo(b.st, s, t) = StepByte(b.st, s, VocabBytes(t)[1])
<1> DEFINE q == b.st[s]  n == Len(b.st)  word == VocabBytes(t)
           byTok == {i \in DOMAIN q.toks : q.toks[i][1] = t}
           to == TokenTo(b.st, s, t)
<1> HIDE DEF q, word, to
<1>1. /\ n \in Nat /\ q \in Row /\ Points(q, n)
  BY OkFacts DEF q
<1>2. q.toks \in Seq(Delims \X Index)
  BY <1>1 DEF Row
<1>3. to = IF byTok # {} THEN q.toks[Max(byTok)][2]
           ELSE IF word = <<>> THEN None ELSE Walk(b.st, s, word)
  BY DEF TokenTo, to, q, word
<1>4. ASSUME byTok # {} PROVE to \in 1 .. n /\ t \in Delims
  <2>1. byTok \subseteq 1 .. Len(q.toks) /\ Len(q.toks) \in Nat
    BY <1>2
  <2>2. Max(byTok) \in byTok
    <3> HIDE DEF byTok
    <3> QED BY <1>4, <2>1, Greatest
  <2> DEFINE i == Max(byTok)
  <2>3. i \in DOMAIN q.toks /\ q.toks[i][1] = t
    BY <2>2
  <2> HIDE DEF i
  <2>4. q.toks[i][1] \in Delims /\ q.toks[i][2] \in Index /\ q.toks[i][2] <= n
    BY <1>1, <1>2, <2>3 DEF Points
  <2>5. to = q.toks[i][2]
    BY <1>3, <1>4 DEF i
  <2> QED BY <2>3, <2>4, <2>5, <1>1 DEF Index
<1>5. Len(word) \in Nat /\ (word # <<>> => Len(word) >= 1) /\ (t \in Special => word = <<>>)
  BY VocabFacts DEF word
<1> HIDE DEF byTok
<1>6. PICK run : Walked(b, s, word, run)
  BY <1>5, WalkRuns
<1>7. /\ Walk(b.st, s, word) = run[Len(word)] /\ run[0] = s
      /\ \A k \in 0 .. Len(word) : run[k] \in 0 .. n
      /\ \A k \in 1 .. Len(word) :
           run[k] = IF run[k - 1] = None THEN None ELSE StepByte(b.st, run[k - 1], word[k])
  BY <1>6 DEF Walked
<1>8. to \in 0 .. n
  BY <1>1, <1>3, <1>4, <1>5, <1>7 DEF None
<1>9. t \in Special \ Delims => to = None
  BY <1>3, <1>4, <1>5
<1>10. ASSUME q = Final PROVE to = None
  <2>1. Final.lits = <<>> /\ Final.toks = <<>> /\ Final.class = NoClass
    <3>1. \A x \in Row : \A y : [x EXCEPT !.accept = y] =
            [lits |-> x.lits, toks |-> x.toks, class |-> x.class, accept |-> y]
      BY DEF Row
    <3>2. Final = [lits |-> <<>>, toks |-> <<>>, class |-> NoClass, accept |-> TRUE]
      BY <3>1, BlankFacts DEF Final
    <3> QED BY <3>2
  <2>2. byTok = {}
    BY <1>10, <2>1 DEF byTok
  <2>3. \A c : StepByte(b.st, s, c) = None
    <3>1. q.lits = <<>> /\ q.class = NoClass
      BY <1>10, <2>1
    <3>2. NoClass.bytes = {} /\ NoClass.exit = None
      BY DEF NoClass
    <3>3. \A c : First(<<>>, c) = None
      BY DEF First
    <3> QED BY <3>1, <3>2, <3>3 DEF StepByte, q
  <2>4. CASE word = <<>>
    BY <1>3, <2>2, <2>4
  <2>5. CASE word # <<>>
    <3> DEFINE T == {k \in 0 .. Len(word) : k = 0 \/ run[k] = None}
    <3>1. 0 \in T
      BY <1>5
    <3>2. ASSUME NEW k \in 1 .. Len(word), k - 1 \in T PROVE k \in T
      <4>1. run[k - 1] = s \/ run[k - 1] = None
        BY <3>2, <1>7
      <4>2. run[k] = IF run[k - 1] = None THEN None ELSE StepByte(b.st, run[k - 1], word[k])
        BY <1>7
      <4> QED BY <4>1, <4>2, <2>3, <1>5
    <3> HIDE DEF T
    <3>3. Len(word) \in T
      <4>1. \A k \in 0 .. Len(word) : k \in T
        BY <1>5, <3>1, <3>2, UpTo
      <4> QED BY <4>1, <1>5
    <3>4. run[Len(word)] = None
      BY <3>3, <2>5, <1>5 DEF T
    <3> QED BY <3>4, <1>3, <1>7, <2>2, <2>5
  <2> QED BY <2>4, <2>5
<1>11. ASSUME NEW i \in DOMAIN q.toks, q.toks[i][1] = t PROVE to # None
  <2>1. byTok # {}
    BY <1>11 DEF byTok
  <2> QED BY <2>1, <1>4, <1>1 DEF None
<1>12. ASSUME t \notin Special, Len(word) = 1 PROVE to = StepByte(b.st, s, word[1])
  <2>1. byTok = {}
    BY <1>4, <1>12, VocabFacts
  <2>2. word # <<>>
    BY <1>12
  <2>3. s # None /\ run[1] = IF run[0] = None THEN None ELSE StepByte(b.st, run[0], word[1])
    <3>1. 1 \in 1 .. Len(word) /\ 1 - 1 = 0 /\ s # None
      BY <1>12 DEF None
    <3> QED BY <3>1, <1>7
  <2> QED BY <1>3, <1>7, <1>12, <2>1, <2>2, <2>3
<1> QED BY <1>8, <1>9, <1>10, <1>11, <1>12 DEF q, word, to

\* A state with a way on has a byte or a delimiter that takes it.
LEMMA LeadsSomewhere ==
  ASSUME NEW b, NEW d, NEW open, Ok(b, d, open), NEW s \in 1 .. Len(b.st), Leads(b.st[s])
  PROVE  \E t \in Token : TokenTo(b.st, s, t) # None
<1> DEFINE q == b.st[s]
<1> HIDE DEF q
<1>1. q.lits \in Seq(Byte \X Index) /\ q.toks \in Seq(Delims \X Index) /\ q.class \in Class
  <2>1. q \in Row
    BY OkFacts DEF q
  <2> QED BY <2>1 DEF Row
<1>2. ASSUME NEW c \in Byte, StepByte(b.st, s, c) # None PROVE \E t \in Token : TokenTo(b.st, s, t) # None
  <2>1. PICK t \in Token \ Special : Len(VocabBytes(t)) = 1 /\ VocabBytes(t)[1] = c
    BY VocabFacts
  <2>2. TokenTo(b.st, s, t) = StepByte(b.st, s, VocabBytes(t)[1])
    BY <2>1, TokenToOk
  <2> QED BY <1>2, <2>1, <2>2
<1>3. CASE q.lits # <<>>
  <2> DEFINE c == q.lits[1][1]
  <2>1. 1 \in DOMAIN q.lits /\ q.lits[1] \in Byte \X Index
    BY <1>1, <1>3, EmptySeq, LenProperties
  <2>2. c \in Byte
    BY <2>1
  <2>3. First(q.lits, c) # None
    BY <1>1, <2>1, FirstNone
  <2>4. StepByte(b.st, s, c) # None
    <3> HIDE DEF c
    <3> QED BY <2>3 DEF StepByte, q
  <2> QED BY <1>2, <2>2, <2>4
<1>4. CASE q.toks # <<>>
  <2> DEFINE t == q.toks[1][1]
  <2>1. 1 \in DOMAIN q.toks /\ q.toks[1] \in Delims \X Index
    BY <1>1, <1>4, EmptySeq, LenProperties
  <2>2. t \in Token
    BY <2>1, VocabFacts
  <2>3. \E i \in DOMAIN b.st[s].toks : b.st[s].toks[i][1] = t
    BY <2>1 DEF q
  <2> HIDE DEF t
  <2> QED BY <2>2, <2>3, TokenToOk
<1>5. CASE q.class.bytes = Digit
  <2>1. PICK c \in Digit : c \in Byte
    BY VocabAssumption
  <2>2. StepByte(b.st, s, c) # None
    <3>1. s # None
      BY DEF None
    <3> QED BY <3>1, <1>5 DEF StepByte, q
  <2> QED BY <1>2, <2>1, <2>2
<1> QED BY <1>3, <1>4, <1>5 DEF Leads, q

\* A builder that has met its promises compiles to a sound constraint.
LEMMA CompileSound ==
  ASSUME NEW b, NEW d \in 1 .. Len(b.st), Ok(b, d, {d}), b.st[d] = Final
  PROVE  Sound(Compile(b))
<1> DEFINE n == Len(b.st)  c == Compile(b)
<1>1. n \in Nat /\ DOMAIN b.st = 1 .. n /\ b.panic = FALSE
      /\ \A s \in 1 .. n : b.st[s].accept = (s = d)
  <2>1. b.st \in Seq(Row) /\ n \in Nat /\ b.panic = FALSE
    BY OkFacts
  <2>2. \A s \in 1 .. n : b.st[s].accept = (s = d)
    BY DEF Ok
  <2> QED BY <2>1, <2>2
<1>2. /\ c.next = [s \in DOMAIN b.st |-> [t \in Token |-> TokenTo(b.st, s, t)]]
      /\ c.accept = [s \in DOMAIN b.st |-> b.st[s].accept]
      /\ c.panic = b.panic
  BY Zenon DEF Compile
<1> HIDE DEF c
<1>3. /\ DOMAIN c.next = 1 .. n /\ c.panic = FALSE
      /\ \A s \in 1 .. n : c.accept[s] = (s = d)
      /\ \A s \in 1 .. n : \A t \in Token : c.next[s][t] = TokenTo(b.st, s, t)
  BY <1>1, <1>2
<1>4. ASSUME NEW s \in 1 .. n
      PROVE  /\ \A t \in Token : TokenTo(b.st, s, t) \in 0 .. n
             /\ \A t \in Token : t \in Special \ Delims => TokenTo(b.st, s, t) = None
             /\ s = d => \A t \in Token : TokenTo(b.st, s, t) = None
             /\ s # d => \E t \in Token : TokenTo(b.st, s, t) # None
  <2>1. \A t \in Token : /\ TokenTo(b.st, s, t) \in 0 .. n
                         /\ t \in Special \ Delims => TokenTo(b.st, s, t) = None
                         /\ s = d => TokenTo(b.st, s, t) = None
    BY TokenToOk
  <2>2. ASSUME s # d PROVE \E t \in Token : TokenTo(b.st, s, t) # None
    <3>1. Leads(b.st[s])
      BY <2>2 DEF Ok
    <3> QED BY <3>1, LeadsSomewhere
  <2> QED BY <2>1, <2>2
<1>5. \A s \in 1 .. n : Allowed(c, s) = {t \in Token : TokenTo(b.st, s, t) # None}
  BY <1>3 DEF Allowed
<1>6. \A s \in 1 .. n : Accepting(c, s) = (s = d)
  BY <1>3 DEF Accepting
<1>7. \A s \in 1 .. n : Accepting(c, s) \/ Allowed(c, s) # {}
  <2>1. SUFFICES ASSUME NEW s \in 1 .. n, s # d PROVE Allowed(c, s) # {}
    BY <1>6
  <2>2. PICK t \in Token : TokenTo(b.st, s, t) # None
    BY <1>4, <2>1
  <2> QED BY <2>2, <1>5
<1>8. \A s \in 1 .. n : Allowed(c, s) \subseteq (Token \ Special) \cup Delims
  BY <1>4, <1>5
<1>9. IsConstraint(c, Special \ Delims)
  <2>1. Start \in DOMAIN c.next
    BY <1>1, <1>3 DEF Start
  <2>2. ASSUME NEW s \in 1 .. n
        PROVE  /\ c.accept[s] \in BOOLEAN
               /\ \A t \in Token : c.next[s][t] \in (DOMAIN c.next) \cup {None}
               /\ Accepting(c, s) => Allowed(c, s) = {}
               /\ Forced(c, s) \cap (Special \ Delims) = {}
    <3>1. \A t \in Token : c.next[s][t] \in (DOMAIN c.next) \cup {None}
      <4>1. \A x \in 0 .. n : x \in (1 .. n) \cup {None}
        BY <1>1 DEF None
      <4> QED BY <4>1, <1>3, <1>4
    <3>2. Accepting(c, s) => Allowed(c, s) = {}
      BY <1>4, <1>5, <1>6
    <3>3. Forced(c, s) \subseteq Allowed(c, s)
      BY DEF Forced
    <3> QED BY <3>1, <3>2, <3>3, <1>3, <1>8
  <2> QED BY <2>1, <2>2, <1>3 DEF IsConstraint
<1> QED BY <1>3, <1>7, <1>8, <1>9 DEF Sound, c

\* What GrammarBuilder::build and Constraint::compile make of any tool set the
\* vocabulary can spell is a constraint in the sense the decode loops need: no
\* assertion of the builder fails, every state but the accepting one admits a
\* token, so the mask never leaves the argmax without a choice, and of the added
\* tokens only the delimiters are ever admitted.
THEOREM CompiledIsSound ==
  ASSUME NEW ts, IsToolSet(ts)
  PROVE  Sound(Compile(Build(ts)))
<1>1. PICK d \in 1 .. Len(Build(ts).st) : Ok(Build(ts), d, {d}) /\ Build(ts).st[d] = Final
  BY BuildOk, Zenon
<1> QED BY <1>1, CompileSound

\* The tool sets of a run are tool sets.
LEMMA Spellable ==
  ASSUME NEW n \in DOMAIN ToolSets
  PROVE  IsToolSet(ToolSets[n])
<1> DEFINE ts == ToolSets[n]
<1>1. /\ ts \in Seq(Range(ts)) /\ ts # <<>>
      /\ \A i, j \in DOMAIN ts : ts[i].name = ts[j].name => i = j
  BY ToolAssumption
<1>2. ASSUME NEW i \in DOMAIN ts PROVE IsTool(ts[i])
  <2>1. /\ ts[i].name \in Seq(Byte \ {Brace}) /\ ts[i].params \in Seq(Range(ts[i].params))
        /\ \A j \in DOMAIN ts[i].params : LET p == ts[i].params[j] IN
             /\ p.name \in Seq(Byte) /\ p.required \in BOOLEAN
             /\ p.name # <<>> => p.name[1] # SpaceByte
             /\ p.ty.kind \in {"str", "int", "num", "bool", "enum"}
             /\ p.ty.kind = "enum" => p.ty.vals \in Seq(Seq(Byte)) \ {<<>>}
    BY ToolAssumption DEF Brace, SpaceByte
  <2>2. \A j \in DOMAIN ts[i].params : IsParam(ts[i].params[j])
    BY <2>1 DEF IsParam, IsType
  <2> QED BY <2>1, <2>2 DEF IsTool
<1> QED BY <1>1, <1>2 DEF IsToolSet

-----------------------------------------------------------------------------
(* What the tokens mean *)

\* The first state of the automaton means the sentences of the tool set.
LEMMA SentencesAre ==
  ASSUME AllWords, NEW n \in DOMAIN ToolSets
  PROVE  Sentences[n] = Prefixed(CallLang(ToolSets[n], CallEnd))
<1> DEFINE ts == ToolSets[n]  X == CallLang(ts, CallEnd)  e == <<Closing>> \odot (<<Closes>> \odot <<>>)
           A(i) == Texts(ArgLists(Required(ts[i])))  E == Before({Closing}, CallEnd)
           pre(u) == <<Opens>> \odot (CallWord \odot u)
<1>1. IsToolSet(ts)
  BY Spellable
<1>2. DOMAIN ts = 1 .. Len(ts) /\ \A i \in DOMAIN ts : IsTool(ts[i])
  <2>1. ts \in Seq(Range(ts)) /\ \A i \in DOMAIN ts : IsTool(ts[i])
    BY <1>1 DEF IsToolSet
  <2> HIDE DEF ts
  <2> QED BY <2>1, LenProperties
<1>3. \A w : w \in Sentences[n] <=> \E i \in DOMAIN ts : \E x \in A(i) : w = CallText(ts[i], x)
  <2>1. Sentences[n] = Texts(UNION {CallsOf(ts[i]) : i \in DOMAIN ts})
    BY DEF Sentences, Calls, Texts
  <2>2. \A w : w \in Sentences[n] <=> \E i \in DOMAIN ts : w \in Texts(CallsOf(ts[i]))
    <3> HIDE DEF ts
    <3> QED BY <2>1 DEF Texts
  <2>3. \A i : \A w : w \in Texts(CallsOf(ts[i])) <=> \E x \in A(i) : w = CallText(ts[i], x)
    <3> TAKE i
    <3>1. Texts(CallsOf(ts[i])) = {CallText(ts[i], x) : x \in A(i)}
      BY CallsOfAre
    <3> HIDE DEF A
    <3> QED BY <3>1
  <2> HIDE DEF A, ts
  <2> QED BY <2>2, <2>3
<1>4. \A w : w \in Prefixed(X) <=> \E u \in X : w = pre(u)
  <2> HIDE DEF X
  <2>1. \A w : w \in Then({CallWord}, X) <=> \E u \in X : w = CallWord \odot u
    BY DEF Then
  <2> DEFINE CX == Then({CallWord}, X)
  <2> HIDE DEF CX
  <2>2. \A w : w \in Before({Opens}, CX) <=> \E v \in CX : w = <<Opens>> \odot v
    BY DEF Before
  <2> QED BY <2>1, <2>2 DEF Prefixed, CX
<1>5. \A z : z \in E <=> z = e
  BY DEF Before, CallEnd
<1>6. ASSUME NEW i \in DOMAIN ts
      PROVE  A(i) \subseteq Text /\ \A z : z \in ToolRest(ts[i], CallEnd) <=> \E x \in A(i) : z = x \odot e
  <2>1. IsTool(ts[i])
    BY <1>2
  <2>2. A(i) \subseteq Text /\ Then(A(i), E) = ToolRest(ts[i], CallEnd)
    <3> DEFINE tool == ts[i]
    <3>1. IsTool(tool)
      BY <2>1
    <3> HIDE DEF tool
    <3>2. LET B == Texts(ArgLists(Required(tool)))
          IN  B \subseteq Text /\ Then(B, Before({Closing}, CallEnd)) = ToolRest(tool, CallEnd)
      BY <3>1, ClosedFacts, ListTexts
    <3> QED BY <3>2 DEF tool
  <2> HIDE DEF A, E, e, ts
  <2>3. \A z : z \in Then(A(i), E) <=> \E x \in A(i), y \in E : z = x \odot y
    BY DEF Then
  <2> QED BY <2>2, <2>3, <1>5
<1>7. \A u : u \in X <=> u \in Text /\ \E i \in DOMAIN ts : \E z \in ToolRest(ts[i], CallEnd) : u = ts[i].name \odot (<<Brace>> \odot z)
  <2> DEFINE V == ToolNames(ts)  Z == RestOf(ts, CallEnd)
  <2>1. \A u : u \in X <=> u \in Text /\ \E v \in V : \E z \in Z[v] : u = v \odot (<<Brace>> \odot z)
    <3> HIDE DEF V, Z
    <3> QED BY DEF CallLang, Choice, V, Z
  <2>2. \A k \in 1 .. Len(ts) : Z[ts[k].name] = ToolRest(ts[k], CallEnd)
    BY <1>1, ClosedFacts, CallsAre
  <2>3. \A v : v \in V <=> \E k \in 1 .. Len(ts) : v = ts[k].name
    BY DEF ToolNames
  <2> HIDE DEF X, V, Z, ts
  <2> QED BY <2>1, <2>2, <2>3, <1>2
<1>8. ASSUME NEW i \in DOMAIN ts, NEW x \in A(i)
      PROVE  LET u == ts[i].name \odot (<<Brace>> \odot (x \odot e))
             IN  CallText(ts[i], x) = pre(u) /\ u \in Text
  <2>1. IsTool(ts[i]) /\ x \in Text
    BY <1>2, <1>6
  <2> QED BY <2>1, CallTextIs
<1> HIDE DEF X, e, A, E, ts, pre
<1>9. ASSUME NEW w \in Sentences[n] PROVE w \in Prefixed(X)
  <2>1. PICK i \in DOMAIN ts : \E x \in A(i) : w = CallText(ts[i], x)
    BY <1>3
  <2>2. PICK x \in A(i) : w = CallText(ts[i], x)
    BY <2>1
  <2> DEFINE z == x \odot e  u == ts[i].name \odot (<<Brace>> \odot z)
  <2>3. w = pre(u) /\ u \in Text
    BY <1>8, <2>2
  <2>4. z \in ToolRest(ts[i], CallEnd)
    BY <1>6
  <2> HIDE DEF z
  <2>5. u \in X
    BY <1>7, <2>3, <2>4
  <2> HIDE DEF u
  <2> QED BY <1>4, <2>3, <2>5
<1>10. ASSUME NEW w \in Prefixed(X) PROVE w \in Sentences[n]
  <2>1. PICK u \in X : w = pre(u)
    BY <1>4
  <2>2. PICK i \in DOMAIN ts : \E z \in ToolRest(ts[i], CallEnd) : u = ts[i].name \odot (<<Brace>> \odot z)
    BY <1>7
  <2>3. PICK z \in ToolRest(ts[i], CallEnd) : u = ts[i].name \odot (<<Brace>> \odot z)
    BY <2>2
  <2>4. PICK x \in A(i) : z = x \odot e
    BY <1>6
  <2>5. w = CallText(ts[i], x)
    BY <1>8, <2>1, <2>3, <2>4
  <2> QED BY <1>3, <2>5
<1>11. Sentences[n] = Prefixed(X)
  BY <1>9, <1>10
<1> QED BY <1>11 DEF X, ts

LEMMA SymbolsAre ==
  ASSUME NEW t \in Token
  PROVE  /\ Symbols(t) \in Text
         /\ t \in Delims => \E m \in Marks : TokOf(m) = t /\ Symbols(t) = <<m>>
         /\ t \notin Delims => /\ Symbols(t) = VocabBytes(t) /\ VocabBytes(t) \in Seq(Symbol)
                               /\ \A i \in 1 .. Len(VocabBytes(t)) : VocabBytes(t)[i] \in Symbol \ Marks
<1> DEFINE word == VocabBytes(t)
<1>1. CallOpen # CallClose /\ CallOpen # Quote /\ CallClose # Quote
  BY VocabAssumption
<1>2. ASSUME t \in Delims PROVE \E m \in Marks : TokOf(m) = t /\ Symbols(t) = <<m>>
  <2>1. CASE t = CallOpen
    <3>1. Symbols(t) = <<Opens>> /\ Opens \in Marks /\ TokOf(Opens) = t
      BY <2>1, MarkFacts DEF Symbols
    <3> QED BY <3>1
  <2>2. CASE t = CallClose
    <3>1. Symbols(t) = <<Closes>> /\ Closes \in Marks /\ TokOf(Closes) = t
      BY <1>1, <2>2, MarkFacts DEF Symbols
    <3> QED BY <3>1
  <2>3. CASE t = Quote
    <3>1. Symbols(t) = <<Quotes>> /\ Quotes \in Marks /\ TokOf(Quotes) = t
      BY <1>1, <2>3, MarkFacts DEF Symbols
    <3> QED BY <3>1
  <2> QED BY <1>2, <2>1, <2>2, <2>3 DEF Delims
<1>3. word \in Seq(Range(word)) /\ Range(word) \subseteq Symbol /\ Range(word) \cap Marks = {} /\ Len(word) \in Nat
  <2>1. CASE word = <<>>
    <3> HIDE DEF word
    <3>1. DOMAIN <<>> = {}
      OBVIOUS
    <3>2. Range(word) = {}
      BY <2>1, <3>1 DEF Range
    <3> QED BY <2>1, <3>2, EmptySeq
  <2>2. CASE word # <<>>
    <3>1. word = Spelled(t)
      BY <2>2 DEF VocabBytes
    <3> DEFINE n == Len(Piece[t])  byte(i) == IF Piece[t][i] = Meta THEN " " ELSE Piece[t][i]
    <3>2. n \in Nat
      <4>1. Piece[t] \in Seq(Range(Piece[t]))
        BY VocabAssumption
      <4> QED BY <4>1, LenProperties
    <3>3. word = [i \in 1 .. n |-> byte(i)]
      BY <3>1, Zenon DEF Spelled
    <3> HIDE DEF word, n, byte
    <3>4. word \in Seq(Range(word)) /\ Len(word) \in Nat
      BY <3>2, <3>3 DEF Range
    <3>5. Range(word) \cap Marks = {}
      BY <3>1, SymbolAssumption
    <3>6. Range(word) \subseteq Symbol
      BY DEF Symbol, word
    <3> QED BY <3>4, <3>5, <3>6
  <2> QED BY <2>1, <2>2
<1>4. word \in Seq(Symbol) /\ \A i \in 1 .. Len(word) : word[i] \in Symbol \ Marks
  <2> HIDE DEF word
  <2>1. word \in Seq(Symbol)
    BY <1>3, SeqMonotonic
  <2>2. \A i \in 1 .. Len(word) : word[i] \in Range(word)
    BY <1>3 DEF Range
  <2> QED BY <1>3, <2>1, <2>2
<1>5. t \notin Delims => Symbols(t) = word
  BY Zenon DEF Symbols, Delims
<1>6. Symbols(t) \in Text
  <2>1. CASE t \in Delims
    <3>1. PICK m \in Marks : Symbols(t) = <<m>>
      BY <1>2, <2>1
    <3> QED BY <3>1, MarkFacts, TextFacts
  <2>2. CASE t \notin Delims
    BY <2>2, <1>4, <1>5 DEF Text
  <2> QED BY <2>1, <2>2
<1> QED BY <1>2, <1>4, <1>5, <1>6

\* One byte, from a state that means R.
LEMMA StepMeans ==
  ASSUME NEW b, NEW d, NEW R, Fit(b, d, R, {}), NEW s \in 1 .. Len(b.st), NEW c \in Symbol \ Marks
  PROVE  R[StepByte(b.st, s, c)] = Past(R[s], c)
<1> DEFINE q == b.st[s]
<1>1. Exact(q, s, R)
  BY FitFacts
<1>2. StepByte([x \in {s} |-> q], s, c) = StepByte(b.st, s, c)
  BY DEF StepByte
<1>3. Goes(q, s, c) = StepByte(b.st, s, c)
  BY <1>2, Zenon DEF Goes, ByteEdge
<1> HIDE DEF q
<1> QED BY <1>1, <1>3 DEF Exact

LEMMA TokenMeans ==
  ASSUME NEW b, NEW d, NEW R, Fit(b, d, R, {}), NEW s \in 1 .. Len(b.st), NEW t \in Token
  PROVE  LET to == TokenTo(b.st, s, t)
         IN  IF Symbols(t) = <<>> THEN to = None ELSE R[to] = After(R[s], Symbols(t))
<1> DEFINE q == b.st[s]  n == Len(b.st)  word == VocabBytes(t)  to == TokenTo(b.st, s, t)  X == R[s]
           byTok == {i \in DOMAIN q.toks : q.toks[i][1] = t}
<1>1. /\ Ok(b, d, Nat) /\ n \in Nat /\ R \in Lang /\ q \in Row /\ X \subseteq Text /\ Exact(q, s, R)
  BY FitFacts
<1>2. to = IF byTok # {} THEN q.toks[Max(byTok)][2]
           ELSE IF word = <<>> THEN None ELSE Walk(b.st, s, word)
  BY Zenon DEF TokenTo
<1>3. R[None] = {} /\ After({}, Symbols(t)) = {}
  BY <1>1, LangFacts DEF After
<1>4. CASE t \in Delims
  <2>1. PICK m \in Marks : TokOf(m) = t /\ Symbols(t) = <<m>>
    BY <1>4, SymbolsAre
  <2>2. word = <<>>
    BY <1>4, VocabFacts
  <2>3. to = TokEdge(q, t)
    <3> HIDE DEF q, to, word
    <3> QED BY <1>2, <2>2 DEF TokEdge
  <2>4. to = Goes(q, s, m)
    <3> HIDE DEF q, to
    <3> QED BY <2>1, <2>3, GoesIs
  <2>5. R[to] = Past(X, m) /\ m \in Symbol
    <3>1. m \in Symbol
      BY MarkFacts
    <3> HIDE DEF q, to
    <3> QED BY <1>1, <2>4, <3>1 DEF Exact, X
  <2>6. Past(X, m) = After(X, <<m>>)
    <3> HIDE DEF X
    <3>1. After(X, <<>>) = X /\ <<>> \in Text /\ <<m>> \in Text /\ <<>> \odot <<m>> = <<m>>
      BY <1>1, <2>5, AfterIs, TextFacts
    <3>2. Past(After(X, <<>>), m) = After(X, <<>> \odot <<m>>)
      BY <1>1, <2>5, <3>1, AfterIs
    <3> QED BY <3>1, <3>2
  <2> HIDE DEF to, X
  <2> QED BY <2>1, <2>5, <2>6 DEF to, X
<1>5. CASE t \notin Delims
  <2>1. /\ Symbols(t) = word /\ word \in Seq(Symbol) /\ Len(word) \in Nat
        /\ \A i \in 1 .. Len(word) : word[i] \in Symbol \ Marks
    BY <1>5, SymbolsAre, VocabFacts
  <2>2. byTok = {}
    <3>1. q.toks \in Seq(Delims \X Index)
      BY <1>1 DEF Row
    <3> HIDE DEF q
    <3> QED BY <3>1, <1>5
  <2>3. to = IF word = <<>> THEN None ELSE Walk(b.st, s, word)
    BY <1>2, <2>2
  <2>4. PICK run : Walked(b, s, word, run)
    BY <1>1, <2>1, WalkRuns
  <2>5. /\ Walk(b.st, s, word) = run[Len(word)] /\ run[0] = s
        /\ \A k \in 0 .. Len(word) : run[k] \in 0 .. n
        /\ \A k \in 1 .. Len(word) :
             run[k] = IF run[k - 1] = None THEN None ELSE StepByte(b.st, run[k - 1], word[k])
    BY <2>4 DEF Walked
  <2> HIDE DEF word, to, q, byTok
  <2> DEFINE p(k) == SubSeq(word, 1, k)  T == {k \in 0 .. Len(word) : R[run[k]] = After(X, p(k))}
  <2>6. /\ p(0) = <<>> /\ p(Len(word)) = word /\ \A k \in 0 .. Len(word) : p(k) \in Text
        /\ \A k \in 1 .. Len(word) : p(k) = p(k - 1) \odot <<word[k]>>
    <3>1. p(0) = <<>> /\ p(Len(word)) = word
      BY <2>1, SubSeqEmpty, SubSeqFull
    <3>2. \A k \in 0 .. Len(word) : p(k) \in Text
      <4> TAKE k \in 0 .. Len(word)
      <4>1. \A i \in 1 .. k : word[i] \in Symbol
        BY <2>1
      <4> QED BY <2>1, <4>1, SubSeqProperties DEF Text
    <3>3. ASSUME NEW k \in 1 .. Len(word) PROVE p(k) = p(k - 1) \odot <<word[k]>>
      <4>1. 1 \in 1 .. Len(word) /\ k \in 1 .. Len(word)
        BY <2>1
      <4> QED BY <2>1, <4>1, SubSeqRecursiveSecond DEF \odot
    <3> QED BY <3>1, <3>2, <3>3
  <2> HIDE DEF p
  <2>7. 0 \in T
    <3>1. After(X, <<>>) = X
      BY <1>1, AfterIs
    <3> QED BY <3>1, <2>1, <2>5, <2>6
  <2>8. ASSUME NEW k \in 1 .. Len(word), k - 1 \in T PROVE k \in T
    <3> DEFINE u == run[k - 1]  c == word[k]
    <3>1. R[u] = After(X, p(k - 1)) /\ u \in 0 .. n /\ c \in Symbol \ Marks /\ k - 1 \in 0 .. Len(word)
      BY <2>1, <2>5, <2>8
    <3>2. Past(After(X, p(k - 1)), c) = After(X, p(k))
      <4>1. p(k - 1) \in Text /\ p(k) = p(k - 1) \odot <<c>>
        BY <2>6, <3>1
      <4>2. \A w \in Text : \A e \in Symbol : Past(After(X, w), e) = After(X, w \odot <<e>>)
        BY <1>1, AfterIs
      <4>3. c \in Symbol
        BY <3>1
      <4> DEFINE w == p(k - 1)
      <4>4. w \in Text /\ p(k) = w \odot <<c>>
        BY <4>1
      <4> HIDE DEF X, c, w
      <4>5. Past(After(X, w), c) = After(X, w \odot <<c>>)
        BY <4>2, <4>3, <4>4
      <4> QED BY <4>4, <4>5 DEF w
    <3>3. R[run[k]] = Past(R[u], c)
      <4>1. run[k] = IF u = None THEN None ELSE StepByte(b.st, u, c)
        BY <2>5
      <4> HIDE DEF u, c
      <4>2. CASE u = None
        BY <4>1, <4>2, <1>3, PastNone
      <4>3. CASE u # None
        <5>1. u \in 1 .. n
          BY <1>1, <3>1, <4>3 DEF None
        <5> QED BY <3>1, <4>1, <4>3, <5>1, StepMeans
      <4> QED BY <4>2, <4>3
    <3> HIDE DEF u, c
    <3> QED BY <3>1, <3>2, <3>3
  <2> HIDE DEF T
  <2>9. Len(word) \in T
    <3>1. \A k \in 0 .. Len(word) : k \in T
      BY <2>1, <2>7, <2>8, UpTo
    <3> QED BY <2>1, <3>1
  <2>10. R[run[Len(word)]] = After(X, word)
    BY <2>6, <2>9 DEF T
  <2> HIDE DEF X
  <2> QED BY <2>1, <2>3, <2>5, <2>10 DEF to, X
<1> QED BY <1>4, <1>5

\* The digits are tokens of one byte, and so are two string bytes.
Spells == Digit \subseteq Byte /\ \E c, e \in StrByte \cap Byte : c # e

LEMMA OneByte ==
  ASSUME NEW b, NEW d, Ok(b, d, Nat), NEW s \in 1 .. Len(b.st), NEW c \in Byte
  PROVE  \E t \in Token : Symbols(t) = <<c>> /\ TokenTo(b.st, s, t) = StepByte(b.st, s, c)
<1>1. PICK t \in Token \ Special : Len(VocabBytes(t)) = 1 /\ VocabBytes(t)[1] = c
  BY VocabFacts
<1>2. TokenTo(b.st, s, t) = StepByte(b.st, s, c)
  BY <1>1, TokenToOk
<1>3. t \notin Delims
  BY <1>1, VocabFacts
<1>4. Symbols(t) = VocabBytes(t) /\ VocabBytes(t) \in Seq(Symbol)
  BY <1>1, <1>3, SymbolsAre
<1>5. VocabBytes(t) = <<c>>
  <2> DEFINE w == VocabBytes(t)
  <2>1. w \in Seq(Symbol) /\ Len(w) = 1 /\ w[1] = c
    BY <1>1, <1>4
  <2> HIDE DEF w
  <2>2. w = <<c>>
    BY <2>1
  <2> QED BY <2>2 DEF w
<1> QED BY <1>1, <1>2, <1>4, <1>5

\* A symbol a sentence goes on with is a token of its own, or else there is a choice.
LEMMA HeadSpelt ==
  ASSUME NEW b, NEW d, NEW R, Fit(b, d, R, {}), Spells, NEW s \in 1 .. Len(b.st),
         NEW c \in Symbol, Past(R[s], c) # {}
  PROVE  \/ \E t \in Token : Symbols(t) = <<c>>
         \/ \E t, u \in Token : t # u /\ TokenTo(b.st, s, t) # None /\ TokenTo(b.st, s, u) # None
<1> DEFINE q == b.st[s]
<1>1. Ok(b, d, Nat) /\ R \in Lang /\ q \in Row /\ Exact(q, s, R)
  BY FitFacts
<1>2. CASE c \in Marks
  <2>1. TokOf(c) \in Delims /\ TokOf(c) \in Token
    BY <1>2, MarkFacts, VocabFacts
  <2>2. PICK m \in Marks : TokOf(m) = TokOf(c) /\ Symbols(TokOf(c)) = <<m>>
    BY <2>1, SymbolsAre
  <2>3. m = c
    BY <1>2, <2>2, MarkFacts
  <2> QED BY <2>1, <2>2, <2>3
<1>3. CASE c \in Byte
  BY <1>1, <1>3, OneByte
<1>4. CASE c \notin Marks /\ c \notin Byte
  <2>1. Goes(q, s, c) # None
    <3>1. R[Goes(q, s, c)] = Past(R[s], c) /\ R[None] = {}
      <4> HIDE DEF q
      <4> QED BY <1>1, LangFacts DEF Exact
    <3> HIDE DEF q
    <3> QED BY <3>1
  <2>2. /\ q.lits \in Seq(Byte \X Index) /\ q.class \in Class
    BY <1>1, EdgeTypes
  <2>3. First(q.lits, c) = None
    <3> DEFINE L == q.lits
    <3>1. L \in Seq(Byte \X Index)
      BY <2>2
    <3> HIDE DEF L
    <3>2. DOMAIN L \subseteq Nat /\ \A i \in DOMAIN L : L[i][1] \in Byte
      BY <3>1
    <3>3. \A i \in DOMAIN L : L[i][1] # c
      BY <1>4, <3>2
    <3>4. First(L, c) = None
      BY <3>2, <3>3, FirstIs
    <3> QED BY <3>4 DEF L
  <2>4. q.class.bytes \in {{}, Digit, StrByte} /\ (q.class.exit = None \/ q.class.exitOn \in Byte)
    BY <2>2 DEF Class
  <2> HIDE DEF q
  <2>5. c \in q.class.bytes
    BY <1>4, <2>1, <2>3, <2>4, GoesIs
  <2>6. q.class.bytes = StrByte
    BY <1>4, <2>4, <2>5 DEF Spells
  <2>7. ASSUME NEW e \in StrByte \cap Byte PROVE StepByte(b.st, s, e) # None
    <3>1. StepByte(b.st, s, e) =
            IF First(q.lits, e) # None THEN First(q.lits, e)
            ELSE IF q.class.exit # None /\ e = q.class.exitOn THEN q.class.exit
            ELSE IF e \notin q.class.bytes THEN None
            ELSE IF q.class.to = None THEN s ELSE q.class.to
      BY Zenon DEF StepByte, q
    <3>2. s # None
      BY DEF None
    <3> QED BY <2>6, <3>1, <3>2
  <2>8. PICK e, x \in StrByte \cap Byte : e # x
    BY DEF Spells
  <2>9. PICK t \in Token : Symbols(t) = <<e>> /\ TokenTo(b.st, s, t) = StepByte(b.st, s, e)
    BY <1>1, OneByte
  <2>10. PICK u \in Token : Symbols(u) = <<x>> /\ TokenTo(b.st, s, u) = StepByte(b.st, s, x)
    BY <1>1, OneByte
  <2>11. t # u
    BY <2>8, <2>9, <2>10
  <2> QED BY <2>7, <2>9, <2>10, <2>11
<1> QED BY <1>2, <1>3, <1>4

-----------------------------------------------------------------------------
(* Texts put together *)

\* What is true of a text made of two.
Joined(S, u, v) ==
  /\ u \odot v \in Seq(S) /\ Len(u) \in Nat /\ Len(v) \in Nat /\ Len(u \odot v) = Len(u) + Len(v)
  /\ \A i \in 1 .. Len(u) : (u \odot v)[i] = u[i] /\ u[i] \in S
  /\ \A i \in 1 .. Len(v) : (u \odot v)[Len(u) + i] = v[i] /\ v[i] \in S
  /\ u \odot <<>> = u /\ <<>> \odot u = u

LEMMA StrCat ==
  ASSUME NEW S, NEW u \in Seq(S), NEW v \in Seq(S)
  PROVE  Joined(S, u, v)
<1> DEFINE w == u \o v
<1>1. /\ Len(u) \in Nat /\ Len(v) \in Nat
      /\ \A i \in 1 .. Len(u) : u[i] \in S
      /\ \A i \in 1 .. Len(v) : v[i] \in S
  BY LenProperties, ElementOfSeq
<1>2. /\ w \in Seq(S) /\ Len(w) = Len(u) + Len(v)
      /\ \A i \in 1 .. Len(u) + Len(v) : w[i] = IF i <= Len(u) THEN u[i] ELSE v[i - Len(u)]
  BY ConcatProperties
<1>3. u \o <<>> = u /\ <<>> \o u = u
  BY ConcatEmptySeq
<1> HIDE DEF w
<1>4. \A i \in 1 .. Len(u) : w[i] = u[i]
  BY <1>1, <1>2
<1>5. \A i \in 1 .. Len(v) : w[Len(u) + i] = v[i]
  BY <1>1, <1>2
<1> QED BY <1>1, <1>2, <1>3, <1>4, <1>5 DEF w, \odot, Joined

LEMMA StrAssoc ==
  ASSUME NEW S, NEW u \in Seq(S), NEW v \in Seq(S), NEW w \in Seq(S)
  PROVE  (u \odot v) \odot w = u \odot (v \odot w)
BY ConcatAssociative DEF \odot

LEMMA StrOne ==
  ASSUME NEW S, NEW c \in S
  PROVE  <<c>> \in Seq(S) /\ Len(<<c>>) = 1 /\ <<c>>[1] = c
OBVIOUS

\* f gives what the texts of s make up, one after the other.
Flat(S, s, f) ==
  /\ FlattenSeq(s) = f[Len(s)] /\ f[0] = <<>>
  /\ \A k \in 0 .. Len(s) : f[k] \in Seq(S)
  /\ \A k \in 1 .. Len(s) : f[k] = f[k - 1] \odot s[k]

LEMMA FlatRuns ==
  ASSUME NEW S, NEW s \in Seq(Seq(S))
  PROVE  \E f : Flat(S, s, f)
<1> DEFINE n == Len(s)  T == Seq(S)
           P == [k \in 0 .. n |-> T]
           step == [k \in 1 .. n |-> [w \in T |-> w \odot s[k]]]
           IsRun(g) == g = [i \in 1 .. Len(s) |-> IF i = 1 THEN s[i] ELSE g[i - 1] \o s[i]]
           run == CHOOSE g : IsRun(g)
<1>1. n \in Nat /\ \A k \in 1 .. n : s[k] \in T
  BY LenProperties, ElementOfSeq
<1>2. FlattenSeq(s) = IF n = 0 THEN s ELSE run[n]
  BY Zenon DEF FlattenSeq
<1>3. /\ <<>> \in T
      /\ \A u, v \in T : u \odot v \in T /\ <<>> \odot v = v
  <2>1. \A u, v \in T : Joined(S, u, v)
    BY StrCat
  <2> QED BY <2>1, EmptySeq DEF Joined
<1>4. s = <<>> <=> n = 0
  BY EmptySeq
<1>5. \A g : IsRun(g) <=> g = [i \in 1 .. n |-> IF i = 1 THEN s[i] ELSE g[i - 1] \odot s[i]]
  BY DEF \odot
<1> HIDE DEF n, T, IsRun
<1>6. \A k \in 1 .. n : \A w \in T : step[k][w] = w \odot s[k] /\ w \odot s[k] \in T
  BY <1>1, <1>3
<1>7. PICK f : IsFold(f, n, <<>>, step) /\ \A k \in 0 .. n : f[k] \in P[k]
  <2>1. <<>> \in P[0] /\ \A k \in 0 .. n : P[k] = T
    BY <1>1, <1>3
  <2> HIDE DEF step, P
  <2>2. \A k \in 1 .. n : \A w \in P[k - 1] : step[k][w] \in P[k]
    <3> TAKE k \in 1 .. n
    <3>1. k - 1 \in 0 .. n /\ k \in 0 .. n
      BY <1>1
    <3> QED BY <1>6, <2>1, <3>1
  <2> QED BY <1>1, <2>1, <2>2, Fold
<1>8. \A k \in 0 .. n : f[k] \in T
  BY <1>7
<1> HIDE DEF step, P
<1>9. f[0] = <<>> /\ \A k \in 1 .. n : f[k] = f[k - 1] \odot s[k]
  <2>1. f = [k \in 0 .. n |-> IF k = 0 THEN <<>> ELSE step[k][f[k - 1]]]
    BY <1>7 DEF IsFold
  <2>2. f[0] = <<>>
    BY <1>1, <2>1
  <2>3. \A k \in 1 .. n : f[k] = step[k][f[k - 1]] /\ f[k - 1] \in T
    BY <1>1, <1>8, <2>1
  <2> QED BY <1>6, <2>2, <2>3
<1> DEFINE g == [i \in 1 .. n |-> f[i]]
<1>10. IsRun(g)
  <2>1. ASSUME NEW i \in 1 .. n PROVE f[i] = IF i = 1 THEN s[i] ELSE g[i - 1] \odot s[i]
    <3>1. f[i] = f[i - 1] \odot s[i] /\ s[i] \in T
      BY <1>1, <1>9
    <3>2. CASE i = 1
      <4>1. f[i - 1] = <<>>
        BY <1>9, <3>2
      <4> HIDE DEF g
      <4> QED BY <3>1, <3>2, <4>1, <1>3
    <3>3. CASE i # 1
      <4>1. g[i - 1] = f[i - 1]
        BY <1>1, <3>3
      <4> HIDE DEF g
      <4> QED BY <3>1, <3>3, <4>1
    <3> QED BY <3>2, <3>3
  <2>2. g = [i \in 1 .. n |-> IF i = 1 THEN s[i] ELSE g[i - 1] \odot s[i]]
    BY <2>1
  <2> HIDE DEF g
  <2> QED BY <1>5, <2>2
<1>11. IsRun(run)
  <2> HIDE DEF g
  <2> QED BY <1>10, Zenon
<1>12. run = [i \in 1 .. n |-> IF i = 1 THEN s[i] ELSE run[i - 1] \odot s[i]]
  <2> HIDE DEF run
  <2> QED BY <1>5, <1>11
<1> HIDE DEF run
<1>13. \A k \in 0 .. n : k = 0 \/ run[k] = f[k]
  <2> DEFINE Q == {k \in 0 .. n : k = 0 \/ run[k] = f[k]}
  <2>1. 0 \in Q
    BY <1>1
  <2>2. ASSUME NEW k \in 1 .. n, k - 1 \in Q PROVE k \in Q
    <3>1. f[k] = f[k - 1] \odot s[k] /\ s[k] \in T
      BY <1>1, <1>9
    <3>2. run[k] = IF k = 1 THEN s[k] ELSE run[k - 1] \odot s[k]
      BY <1>12
    <3>3. CASE k = 1
      <4>1. f[k - 1] = <<>>
        BY <1>9, <3>3
      <4>2. run[k] = f[k]
        BY <3>1, <3>2, <3>3, <4>1, <1>3
      <4> QED BY <1>1, <4>2
    <3>4. CASE k # 1
      <4>1. run[k - 1] = f[k - 1]
        BY <1>1, <2>2, <3>4
      <4>2. run[k] = f[k]
        BY <3>1, <3>2, <3>4, <4>1
      <4> QED BY <1>1, <4>2
    <3> QED BY <3>3, <3>4
  <2> HIDE DEF Q
  <2>3. \A k \in 0 .. n : k \in Q
    BY <1>1, <2>1, <2>2, UpTo
  <2> QED BY <2>3 DEF Q
<1>14. FlattenSeq(s) = f[n]
  <2>1. n \in 0 .. n
    BY <1>1
  <2> QED BY <1>2, <1>4, <1>9, <1>13, <2>1
<1>15. Flat(S, s, f)
  BY <1>8, <1>9, <1>14 DEF Flat, n, T
<1> QED BY <1>15

\* Two flattened one after the other, and one alone.
LEMMA FlatCat ==
  ASSUME NEW S, NEW s \in Seq(Seq(S)), NEW t \in Seq(Seq(S))
  PROVE  /\ FlattenSeq(s) \in Seq(S) /\ FlattenSeq(t) \in Seq(S)
         /\ FlattenSeq(s \odot t) = FlattenSeq(s) \odot FlattenSeq(t)
<1> DEFINE m == Len(s)  n == Len(t)  st == s \odot t
<1>1. /\ st \in Seq(Seq(S)) /\ m \in Nat /\ n \in Nat /\ Len(st) = m + n
      /\ \A i \in 1 .. m : st[i] = s[i] /\ s[i] \in Seq(S)
      /\ \A i \in 1 .. n : st[m + i] = t[i] /\ t[i] \in Seq(S)
  <2>1. Joined(Seq(S), s, t)
    BY StrCat
  <2> QED BY <2>1 DEF Joined
<1> HIDE DEF st
<1>2. PICK f : Flat(S, s, f)
  BY FlatRuns
<1>3. PICK g : Flat(S, t, g)
  BY FlatRuns
<1>4. PICK h : Flat(S, st, h)
  BY <1>1, FlatRuns
<1>5. /\ FlattenSeq(s) = f[m] /\ f[0] = <<>> /\ \A k \in 0 .. m : f[k] \in Seq(S)
      /\ \A k \in 1 .. m : f[k] = f[k - 1] \odot s[k]
  BY <1>2 DEF Flat
<1>6. /\ FlattenSeq(t) = g[n] /\ g[0] = <<>> /\ \A k \in 0 .. n : g[k] \in Seq(S)
      /\ \A k \in 1 .. n : g[k] = g[k - 1] \odot t[k]
  BY <1>3 DEF Flat
<1>7. /\ FlattenSeq(st) = h[m + n] /\ h[0] = <<>>
      /\ \A k \in 1 .. m + n : h[k] = h[k - 1] \odot st[k]
  BY <1>1, <1>4 DEF Flat
<1> HIDE DEF m, n
<1>8. \A k \in 0 .. m : h[k] = f[k]
  <2> DEFINE Q == {k \in 0 .. m : h[k] = f[k]}
  <2>1. 0 \in Q
    BY <1>1, <1>5, <1>7
  <2>2. ASSUME NEW k \in 1 .. m, k - 1 \in Q PROVE k \in Q
    <3>1. k \in 1 .. m + n /\ h[k - 1] = f[k - 1] /\ st[k] = s[k] /\ k \in 0 .. m
      BY <1>1, <2>2
    <3> QED BY <1>5, <1>7, <3>1
  <2> HIDE DEF Q
  <2>3. \A k \in 0 .. m : k \in Q
    BY <1>1, <2>1, <2>2, UpTo
  <2> QED BY <2>3 DEF Q
<1>9. f[m] \in Seq(S) /\ h[m] = f[m] /\ g[n] \in Seq(S)
  <2>1. m \in 0 .. m /\ n \in 0 .. n
    BY <1>1
  <2> QED BY <1>5, <1>6, <1>8, <2>1
<1>10. \A k \in 0 .. n : h[m + k] = f[m] \odot g[k]
  <2> DEFINE Q == {k \in 0 .. n : h[m + k] = f[m] \odot g[k]}
  <2>1. 0 \in Q
    <3>1. Joined(S, f[m], f[m])
      BY <1>9, StrCat
    <3>2. f[m] \odot g[0] = f[m]
      BY <1>6, <3>1 DEF Joined
    <3>3. m + 0 = m /\ 0 \in 0 .. n
      BY <1>1
    <3> QED BY <1>9, <3>2, <3>3
  <2>2. ASSUME NEW k \in 1 .. n, k - 1 \in Q PROVE k \in Q
    <3>1. m + k \in 1 .. m + n /\ (m + k) - 1 = m + (k - 1) /\ k \in 0 .. n /\ k - 1 \in 0 .. n
      BY <1>1
    <3>2. h[m + k] = h[m + (k - 1)] \odot st[m + k] /\ st[m + k] = t[k] /\ t[k] \in Seq(S)
      BY <1>1, <1>7, <3>1
    <3>3. h[m + (k - 1)] = f[m] \odot g[k - 1] /\ g[k - 1] \in Seq(S) /\ g[k] = g[k - 1] \odot t[k]
      BY <1>6, <2>2, <3>1
    <3>4. (f[m] \odot g[k - 1]) \odot t[k] = f[m] \odot (g[k - 1] \odot t[k])
      BY <1>9, <3>2, <3>3, StrAssoc
    <3> QED BY <3>1, <3>2, <3>3, <3>4
  <2> HIDE DEF Q
  <2>3. \A k \in 0 .. n : k \in Q
    BY <1>1, <2>1, <2>2, UpTo
  <2> QED BY <2>3 DEF Q
<1>11. h[m + n] = f[m] \odot g[n]
  <2>1. n \in 0 .. n
    BY <1>1
  <2> QED BY <1>10, <2>1
<1> QED BY <1>5, <1>6, <1>7, <1>9, <1>11 DEF st

LEMMA FlatOne ==
  ASSUME NEW S, NEW w \in Seq(S)
  PROVE  <<w>> \in Seq(Seq(S)) /\ FlattenSeq(<<w>>) = w
<1> DEFINE s == <<w>>
<1>1. s \in Seq(Seq(S)) /\ Len(s) = 1 /\ s[1] = w
  BY StrOne
<1> HIDE DEF s
<1>2. PICK f : Flat(S, s, f)
  BY <1>1, FlatRuns
<1>3. FlattenSeq(s) = f[0] \odot w /\ f[0] = <<>>
  <2>1. 1 \in 1 .. Len(s) /\ 1 - 1 = 0
    BY <1>1
  <2> QED BY <1>1, <1>2, <2>1 DEF Flat
<1>4. Joined(S, w, w)
  BY StrCat
<1> QED BY <1>1, <1>3, <1>4 DEF Joined, s
-----------------------------------------------------------------------------
(* Decoding *)

LEMMA ConIs == \A n : Edit(Compile, Build(ToolSets[n])) = Compile(Build(ToolSets[n]))
<1>1. SUFFICES ASSUME NEW n PROVE Edit(Compile, Build(ToolSets[n])) = Compile(Build(ToolSets[n]))
  OBVIOUS
<1>2. {Compile(v) : v \in {Build(ToolSets[n])}} = {Compile(Build(ToolSets[n]))}
  OBVIOUS
<1>3. Edit(Compile, Build(ToolSets[n]))
        = CHOOSE r \in {Compile(v) : v \in {Build(ToolSets[n])}} : TRUE
  BY Zenon DEF Edit
<1> QED BY <1>2, <1>3, OnlyOne

\* The run is in a state of a sound constraint.
InSound == TypeOK /\ Sound(con)

LEMMA SoundInit == ASSUME Init PROVE InSound
<1>1. tools \in DOMAIN ToolSets /\ con = Compile(Build(ToolSets[tools]))
  BY ConIs DEF Init
<1>2. Sound(con)
  BY <1>1, Spellable, CompiledIsSound
<1>3. Start \in DOMAIN con.next /\ con.panic = FALSE
  BY <1>2 DEF Sound, IsConstraint
<1>4. state = Start /\ out = <<>> /\ idle = 0 /\ 0 \in 0 .. MaxIdle
  BY BoundAssumption DEF Init
<1>5. <<>> \in Seq((Token \ Special) \cup {CallOpen, CallClose, Quote})
  OBVIOUS
<1> QED BY <1>1, <1>2, <1>3, <1>4, <1>5 DEF InSound, TypeOK

LEMMA SoundStep == ASSUME InSound, [Next]_vars PROVE InSound'
<1>1. /\ tools \in DOMAIN ToolSets /\ state \in DOMAIN con.next /\ idle \in 0 .. MaxIdle
      /\ out \in Seq((Token \ Special) \cup Delims)
      /\ Sound(con) /\ con.panic = FALSE
  BY DEF InSound, TypeOK, Sound, Delims
<1>2. ASSUME NEW t \in Token, Emit(t) PROVE InSound'
  <2>1. UNCHANGED <<tools, con>> /\ out' = Append(out, t) /\ idle' <= MaxIdle
    BY <1>2 DEF Emit
  <2>2. Allowed(con, state) # {}
    BY <1>1, <1>2 DEF Emit, Done, Sound
  <2>3. t \in Allowed(con, state)
    BY <1>2, <2>2 DEF Emit
  <2>4. t \in (Token \ Special) \cup Delims
    BY <1>1, <2>3 DEF Sound
  <2>5. out' \in Seq((Token \ Special) \cup Delims)
    BY <1>1, <2>1, <2>4, AppendProperties
  <2>6. state' \in DOMAIN con.next
    <3>1. state' = con.next[state][t] /\ con.next[state][t] # None
      BY <1>2, <2>3 DEF Emit, Advance, Allowed
    <3>2. con.next[state][t] \in (DOMAIN con.next) \cup {None}
      BY <1>1 DEF Sound, IsConstraint
    <3> QED BY <3>1, <3>2
  <2>7. idle' \in 0 .. MaxIdle
    <3>1. idle' = IF state' = state THEN idle + Len(VocabBytes(t)) ELSE idle
      BY <1>2 DEF Emit
    <3>2. Len(VocabBytes(t)) \in Nat
      BY VocabFacts
    <3> QED BY <1>1, <2>1, <3>1, <3>2, BoundAssumption
  <2> QED BY <1>1, <2>1, <2>5, <2>6, <2>7 DEF InSound, TypeOK, Delims
<1>3. CASE UNCHANGED vars
  BY <1>3 DEF vars, InSound, TypeOK
<1> QED BY <1>2, <1>3 DEF Next

\* Decoding under a tool grammar: the state is always one of the automaton's, no
\* assertion of the builder has failed, and of the added tokens only delimiters
\* are emitted, never a <pad> (Constraint::compile, load_vocab_bytes).
THEOREM TypeCorrect == Spec => []TypeOK
<1>1. Init => InSound
  BY SoundInit
<1>2. InSound /\ [Next]_vars => InSound'
  BY SoundStep
<1>3. InSound => TypeOK
  BY DEF InSound
<1> QED BY <1>1, <1>2, <1>3, PTL DEF Spec

\* Until the call is complete the mask admits some token, so the argmax over
\* masked logits never falls back to token 0 (Constraint::apply_mask).
THEOREM NeverStuck == Spec => [](~Done => Allowed(con, state) # {})
<1>1. Init => InSound
  BY SoundInit
<1>2. InSound /\ [Next]_vars => InSound'
  BY SoundStep
<1>3. InSound => (~Done => Allowed(con, state) # {})
  BY DEF InSound, TypeOK, Done, Sound
<1> QED BY <1>1, <1>2, <1>3, PTL DEF Spec
-----------------------------------------------------------------------------
(* What has been decoded *)

\* f gives the text of each head of a run of tokens.
Spoken(ids, f) ==
  /\ TextOf(ids) = f[Len(ids)] /\ f[0] = <<>>
  /\ \A k \in 0 .. Len(ids) : f[k] \in Text
  /\ \A k \in 1 .. Len(ids) : f[k] = f[k - 1] \odot Symbols(ids[k])

LEMMA SpokenRuns ==
  ASSUME NEW ids \in Seq(Token)
  PROVE  \E f : Spoken(ids, f)
<1> DEFINE s == [i \in DOMAIN ids |-> Symbols(ids[i])]
<1>1. Len(ids) \in Nat /\ DOMAIN ids = 1 .. Len(ids) /\ \A k \in 1 .. Len(ids) : Symbols(ids[k]) \in Text
  BY LenProperties, ElementOfSeq, SymbolsAre
<1>2. s \in Seq(Text) /\ Len(s) = Len(ids) /\ \A k \in 1 .. Len(ids) : s[k] = Symbols(ids[k])
  BY <1>1
<1>3. TextOf(ids) = FlattenSeq(s)
  BY DEF TextOf
<1> HIDE DEF s
<1>4. PICK f : Flat(Symbol, s, f)
  BY <1>2, FlatRuns DEF Text
<1>5. Spoken(ids, f)
  BY <1>2, <1>3, <1>4 DEF Flat, Spoken, Text
<1> QED BY <1>5

\* One more token.
LEMMA TextFollows ==
  ASSUME NEW ids \in Seq(Token), NEW t \in Token
  PROVE  TextOf(ids) \in Text /\ TextOf(Append(ids, t)) = TextOf(ids) \odot Symbols(t)
<1> DEFINE n == Len(ids)  more == Append(ids, t)
<1>1. n \in Nat /\ more \in Seq(Token) /\ Len(more) = n + 1 /\ more[n + 1] = t /\ \A k \in 1 .. n : more[k] = ids[k]
  BY LenProperties, AppendProperties
<1> HIDE DEF more, n
<1>2. PICK f : Spoken(ids, f)
  BY SpokenRuns
<1>3. PICK g : Spoken(more, g)
  BY <1>1, SpokenRuns
<1>4. /\ TextOf(ids) = f[n] /\ f[0] = <<>> /\ \A k \in 0 .. n : f[k] \in Text
      /\ \A k \in 1 .. n : f[k] = f[k - 1] \odot Symbols(ids[k])
  BY <1>2 DEF Spoken, n
<1>5. /\ TextOf(more) = g[n + 1] /\ g[0] = <<>>
      /\ \A k \in 1 .. n + 1 : g[k] = g[k - 1] \odot Symbols(more[k])
  BY <1>1, <1>3 DEF Spoken
<1>6. g[n] = f[n]
  <2> DEFINE T == {k \in 0 .. n : g[k] = f[k]}
  <2>1. 0 \in T
    BY <1>1, <1>4, <1>5
  <2>2. ASSUME NEW k \in 1 .. n, k - 1 \in T PROVE k \in T
    <3>1. k \in 1 .. n + 1 /\ g[k - 1] = f[k - 1] /\ more[k] = ids[k]
      BY <1>1, <2>2
    <3>2. g[k] = f[k]
      BY <1>4, <1>5, <3>1
    <3> QED BY <1>1, <3>2
  <2> HIDE DEF T
  <2>3. \A k \in 0 .. n : k \in T
    BY <1>1, <2>1, <2>2, UpTo
  <2>4. n \in T
    BY <1>1, <2>3
  <2> QED BY <2>4 DEF T
<1>7. n + 1 \in 1 .. n + 1 /\ (n + 1) - 1 = n /\ n \in 0 .. n
  BY <1>1
<1>8. g[n + 1] = g[n] \odot Symbols(t)
  BY <1>1, <1>5, <1>7
<1> QED BY <1>4, <1>5, <1>6, <1>7, <1>8 DEF more

LEMMA NothingSaid == TextOf(<<>>) = <<>>
<1>1. <<>> \in Seq(Token) /\ Len(<<>>) = 0
  BY EmptySeq
<1>2. PICK f : Spoken(<<>>, f)
  BY <1>1, SpokenRuns
<1> QED BY <1>1, <1>2 DEF Spoken
-----------------------------------------------------------------------------
(* What the mask admits *)

LEMMA AfterBoth ==
  ASSUME NEW X, NEW u \in Text, NEW v \in Text
  PROVE  After(X, u \odot v) = After(After(X, u), v)
<1>1. \A z \in Text : (u \odot v) \odot z = u \odot (v \odot z) /\ v \odot z \in Text
  BY Assoc, TextFacts
<1> QED BY <1>1 DEF After

\* A text that some sentence continues.
LEMMA ViableIs ==
  ASSUME NEW n \in DOMAIN ToolSets, Sentences[n] \subseteq Text, NEW w \in Text
  PROVE  w \in Viable[n] <=> After(Sentences[n], w) # {}
<1> DEFINE S == Sentences[n]
<1>1. w \in Viable[n] <=> \E s \in S : \E k \in 0 .. Len(s) : w = SubSeq(s, 1, k)
  BY DEF Viable
<1>2. After(S, w) # {} <=> \E u \in Text : w \odot u \in S
  BY DEF After
<1>3. Len(w) \in Nat /\ \A s \in S : s \in Text /\ Len(s) \in Nat
  BY TextFacts
<1> HIDE DEF S
<1>4. ASSUME NEW s \in S, NEW k \in 0 .. Len(s), w = SubSeq(s, 1, k)
      PROVE  \E u \in Text : w \odot u \in S
  <2> DEFINE m == Len(s)  u == SubSeq(s, k + 1, m)
  <2>1. m \in Nat /\ s \in Seq(Symbol) /\ s \in Text
    BY <1>3 DEF Text
  <2>2. u \in Text
    <3> HIDE DEF m
    <3>1. k + 1 \in Int /\ m \in Int /\ \A i \in k + 1 .. m : i \in 1 .. m
      BY <2>1, <1>4
    <3>2. \A i \in 1 .. m : s[i] \in Symbol
      BY <2>1 DEF m
    <3> QED BY <3>1, <3>2, SubSeqProperties DEF Text
  <2>3. SubSeq(s, 1, k) \o u = s
    <3>1. 1 \in 1 .. m + 1 /\ k \in 1 - 1 .. m /\ m \in k .. m
      BY <2>1, <1>4
    <3>2. SubSeq(s, 1, k) \o SubSeq(s, k + 1, m) = SubSeq(s, 1, m)
      BY <2>1, <3>1, ConcatAdjacentSubSeq
    <3>3. SubSeq(s, 1, m) = s
      BY <2>1, SubSeqFull
    <3> QED BY <3>2, <3>3
  <2> HIDE DEF u, m
  <2>4. w \odot u = s
    BY <1>4, <2>3 DEF \odot
  <2> QED BY <2>2, <2>4
<1>5. ASSUME NEW u \in Text, w \odot u \in S
      PROVE  \E s \in S : \E k \in 0 .. Len(s) : w = SubSeq(s, 1, k)
  <2> DEFINE s == w \odot u  m == Len(w)
  <2>1. m \in Nat /\ Len(s) = m + Len(u) /\ Len(u) \in Nat
    BY TextFacts
  <2>2. w = SubSeq(s, 1, m)
    <3>1. w \in Seq(Symbol) /\ u \in Seq(Symbol)
      BY DEF Text
    <3>2. CASE m = 0
      <4>1. w = <<>>
        BY <3>2, TextFacts
      <4>2. SubSeq(s, 1, m) = <<>>
        <5> HIDE DEF s
        <5> QED BY <3>2, SubSeqEmpty
      <4> QED BY <4>1, <4>2
    <3>3. CASE m # 0
      <4>1. 1 \in 1 .. m /\ m \in 1 .. m
        BY <2>1, <3>3
      <4>2. SubSeq(w \o u, 1, m) = SubSeq(w, 1, m)
        BY <3>1, <4>1, SubSeqOfConcat1
      <4>3. SubSeq(w, 1, m) = w
        BY <3>1, SubSeqFull
      <4> QED BY <4>2, <4>3 DEF \odot
    <3> QED BY <3>2, <3>3
  <2>3. s \in S /\ m \in 0 .. Len(s)
    BY <1>5, <2>1
  <2> HIDE DEF s, m
  <2> QED BY <2>2, <2>3
<1> QED BY <1>1, <1>2, <1>4, <1>5 DEF S

\* R gives the languages of the n states of c, which starts with S.
Meant(c, S, R, n) ==
  /\ n \in Nat /\ DOMAIN c.next = 1 .. n /\ Start \in 1 .. n /\ R[Start] = S
  /\ \A s \in 1 .. n : R[s] \subseteq Text /\ R[s] # {} /\ (c.accept[s] <=> <<>> \in R[s])
  /\ \A s \in 1 .. n : \A t \in Token :
       LET to == c.next[s][t]
       IN  /\ to \in 0 .. n
           /\ Symbols(t) = <<>> => to = None
           /\ Symbols(t) # <<>> => After(R[s], Symbols(t)) = IF to = None THEN {} ELSE R[to]
  /\ Spells => \A s \in 1 .. n : \A e \in Symbol : Past(R[s], e) # {} =>
       \/ \E t \in Token : Symbols(t) = <<e>>
       \/ \E t, u \in Token : t # u /\ c.next[s][t] # None /\ c.next[s][u] # None

\* What build_with and compile make of a tool set accepts the sentences of the tool
\* set and nothing else: each state has a language, the calls' ends that may still
\* follow, and every token leads to what is left of that language behind the token.
THEOREM CompiledMeans ==
  ASSUME AllWords, NEW k \in DOMAIN ToolSets
  PROVE  \E R, n : Meant(Compile(Build(ToolSets[k])), Sentences[k], R, n)
<1> DEFINE ts == ToolSets[k]  b == Build(ts)  n == Len(b.st)  c == Compile(b)
<1>1. PICK R, d : BuiltMeans(ts, R, d)
  <2>1. IsToolSet(ts)
    BY Spellable
  <2> HIDE DEF ts
  <2> QED BY <2>1, BuildMeans
<1>2. /\ Fit(b, d, R, {}) /\ Start \in 1 .. n /\ R[Start] = Sentences[k]
  <2>1. Sentences[k] = Prefixed(CallLang(ts, CallEnd))
    BY SentencesAre
  <2> HIDE DEF ts
  <2> QED BY <1>1, <2>1 DEF BuiltMeans
<1> HIDE DEF b, ts
<1>3. /\ n \in Nat /\ Ok(b, d, Nat) /\ R \in Lang
      /\ \A s \in 1 .. n : b.st[s].accept = (s = d) /\ R[s] # {} /\ R[s] \subseteq Text /\ Exact(b.st[s], s, R)
  BY <1>2, FitFacts
<1>4. DOMAIN b.st = 1 .. n
  BY <1>3, OkFacts
<1>5. /\ c.next = [s \in DOMAIN b.st |-> [t \in Token |-> TokenTo(b.st, s, t)]]
      /\ c.accept = [s \in DOMAIN b.st |-> b.st[s].accept]
  BY Zenon DEF Compile
<1> HIDE DEF c, n
<1>6. /\ DOMAIN c.next = 1 .. n
      /\ \A s \in 1 .. n : c.accept[s] = b.st[s].accept
      /\ \A s \in 1 .. n : \A t \in Token : c.next[s][t] = TokenTo(b.st, s, t)
  BY <1>4, <1>5
<1>7. \A s \in 1 .. n : c.accept[s] <=> <<>> \in R[s]
  BY <1>3, <1>6 DEF Exact
<1>8. ASSUME NEW s \in 1 .. n, NEW t \in Token
      PROVE  LET to == c.next[s][t]
             IN  /\ to \in 0 .. n
                 /\ Symbols(t) = <<>> => to = None
                 /\ Symbols(t) # <<>> => After(R[s], Symbols(t)) = IF to = None THEN {} ELSE R[to]
  <2> DEFINE to == TokenTo(b.st, s, t)
  <2>1. to \in 0 .. n
    BY <1>3, TokenToOk DEF n
  <2>2. IF Symbols(t) = <<>> THEN to = None ELSE R[to] = After(R[s], Symbols(t))
    BY <1>2, TokenMeans DEF n
  <2>3. R[None] = {}
    BY <1>3, LangFacts
  <2>4. c.next[s][t] = to
    BY <1>6
  <2> HIDE DEF to
  <2> QED BY <2>1, <2>2, <2>3, <2>4
<1>9. ASSUME Spells, NEW s \in 1 .. n, NEW e \in Symbol, Past(R[s], e) # {}
      PROVE  \/ \E t \in Token : Symbols(t) = <<e>>
             \/ \E t, u \in Token : t # u /\ c.next[s][t] # None /\ c.next[s][u] # None
  <2>1. \/ \E t \in Token : Symbols(t) = <<e>>
        \/ \E t, u \in Token : t # u /\ TokenTo(b.st, s, t) # None /\ TokenTo(b.st, s, u) # None
    BY <1>2, <1>9, HeadSpelt DEF n
  <2> QED BY <2>1, <1>6
<1>10. Meant(c, Sentences[k], R, n)
  BY <1>2, <1>3, <1>6, <1>7, <1>8, <1>9 DEF Meant
<1> QED BY <1>10 DEF c, b, ts

\* The state stands for what may follow the text so far.
InText ==
  /\ InSound
  /\ \E R, n : /\ Meant(con, Sentences[tools], R, n) /\ state \in 1 .. n
               /\ R[state] = After(Sentences[tools], TextOf(out))

LEMMA InTextInit == ASSUME AllWords, Init PROVE InText
<1>1. tools \in DOMAIN ToolSets /\ con = Compile(Build(ToolSets[tools])) /\ state = Start /\ out = <<>>
  BY ConIs DEF Init
<1>2. PICK R, n : Meant(con, Sentences[tools], R, n)
  BY <1>1, CompiledMeans
<1>3. R[Start] = Sentences[tools] /\ Start \in 1 .. n /\ Sentences[tools] \subseteq Text
  BY <1>2 DEF Meant
<1>4. TextOf(out) = <<>>
  BY <1>1, NothingSaid
<1>5. After(Sentences[tools], <<>>) = Sentences[tools]
  BY <1>3, AfterIs
<1> QED BY <1>1, <1>2, <1>3, <1>4, <1>5, SoundInit DEF InText

LEMMA Out == ASSUME InSound PROVE out \in Seq(Token) /\ TextOf(out) \in Text
<1>1. out \in Seq((Token \ Special) \cup Delims)
  BY DEF InSound, TypeOK, Delims
<1>2. (Token \ Special) \cup Delims \subseteq Token
  BY VocabFacts
<1>3. out \in Seq(Token)
  BY <1>1, <1>2, SeqMonotonic
<1>4. TextOf(out) \in Text
  <2>1. PICK f : Spoken(out, f)
    BY <1>3, SpokenRuns
  <2>2. Len(out) \in 0 .. Len(out)
    BY <1>3, LenProperties
  <2> QED BY <2>1, <2>2 DEF Spoken
<1> QED BY <1>3, <1>4

LEMMA InTextStep == ASSUME InText, [Next]_vars PROVE InText'
<1>1. InSound /\ InSound'
  BY SoundStep DEF InText
<1>2. PICK R, n : /\ Meant(con, Sentences[tools], R, n) /\ state \in 1 .. n
                  /\ R[state] = After(Sentences[tools], TextOf(out))
  BY DEF InText
<1> DEFINE S == Sentences[tools]  text == TextOf(out)
<1>3. ASSUME NEW t \in Token, Emit(t) PROVE InText'
  <2>1. UNCHANGED <<tools, con>> /\ out' = Append(out, t)
    BY <1>3 DEF Emit
  <2>2. t \in Allowed(con, state)
    <3>1. Allowed(con, state) # {}
      BY <1>1, <1>3 DEF Emit, Done, Sound, InSound, TypeOK
    <3> QED BY <1>3, <3>1 DEF Emit
  <2>3. state' = con.next[state][t] /\ state' # None
    BY <1>3, <2>2 DEF Emit, Advance, Allowed
  <2>4. Symbols(t) # <<>> /\ state' \in 1 .. n /\ R[state'] = After(R[state], Symbols(t))
    <3> DEFINE to == con.next[state][t]
    <3>1. /\ to \in 0 .. n /\ n \in Nat
          /\ Symbols(t) = <<>> => to = None
          /\ Symbols(t) # <<>> => After(R[state], Symbols(t)) = IF to = None THEN {} ELSE R[to]
      BY <1>2 DEF Meant
    <3>2. state' = to /\ to # None
      BY <2>3
    <3> HIDE DEF to
    <3>3. to \in 1 .. n
      BY <3>1, <3>2 DEF None
    <3> QED BY <3>1, <3>2, <3>3
  <2>5. TextOf(out') = text \odot Symbols(t) /\ text \in Text /\ Symbols(t) \in Text
    BY <1>1, <2>1, Out, TextFollows, SymbolsAre
  <2>6. R[state'] = After(S, TextOf(out'))
    <3> HIDE DEF S, text
    <3>1. After(S, text \odot Symbols(t)) = After(After(S, text), Symbols(t))
      BY <2>5, AfterBoth
    <3> QED BY <1>2, <2>4, <2>5, <3>1 DEF S, text
  <2>7. Meant(con', Sentences[tools'], R, n) /\ Sentences[tools'] = S
    BY <1>2, <2>1
  <2>8. \E Q, m : /\ Meant(con', Sentences[tools'], Q, m) /\ state' \in 1 .. m
                  /\ Q[state'] = After(Sentences[tools'], TextOf(out'))
    BY <2>4, <2>6, <2>7
  <2> QED BY <1>1, <2>8 DEF InText
<1>4. CASE UNCHANGED vars
  BY <1>1, <1>4 DEF vars, InText
<1> QED BY <1>3, <1>4 DEF Next

\* What the invariant says of the mask and of the end.
LEMMA MaskShows ==
  ASSUME InText
  PROVE  MaskIsExact /\ DoneIsACall
<1> DEFINE S == Sentences[tools]  text == TextOf(out)
<1>1. InSound /\ tools \in DOMAIN ToolSets
  BY DEF InText, InSound, TypeOK
<1>2. PICK R, n : Meant(con, S, R, n) /\ state \in 1 .. n /\ R[state] = After(S, text)
  BY DEF InText
<1>3. S \subseteq Text
  BY <1>2 DEF Meant
<1>4. text \in Text
  BY <1>1, Out
<1> HIDE DEF S, text
<1>5. ASSUME NEW t \in Token
      PROVE  t \in Allowed(con, state) <=> Symbols(t) # <<>> /\ text \o Symbols(t) \in Viable[tools]
  <2> DEFINE to == con.next[state][t]
  <2>1. /\ to \in 0 .. n /\ n \in Nat
        /\ Symbols(t) = <<>> => to = None
        /\ Symbols(t) # <<>> => After(R[state], Symbols(t)) = IF to = None THEN {} ELSE R[to]
    BY <1>2 DEF Meant
  <2>2. t \in Allowed(con, state) <=> to # None
    BY DEF Allowed
  <2> HIDE DEF to
  <2>3. to = None \/ R[to] # {}
    <3>1. to = None \/ to \in 1 .. n
      BY <2>1 DEF None
    <3> QED BY <3>1, <1>2 DEF Meant
  <2>4. Symbols(t) \in Text /\ text \odot Symbols(t) \in Text
    BY <1>4, SymbolsAre, TextFacts
  <2>5. text \odot Symbols(t) \in Viable[tools] <=> After(S, text \odot Symbols(t)) # {}
    BY <1>1, <1>3, <2>4, ViableIs DEF S
  <2>6. After(S, text \odot Symbols(t)) = After(After(S, text), Symbols(t))
    BY <1>4, <2>4, AfterBoth
  <2>7. text \odot Symbols(t) = text \o Symbols(t)
    BY DEF \odot
  <2> QED BY <1>2, <2>1, <2>2, <2>3, <2>5, <2>6, <2>7
<1>6. Accepting(con, state) <=> text \in S
  <2>1. Accepting(con, state) <=> <<>> \in R[state]
    BY <1>2 DEF Meant, Accepting
  <2>2. <<>> \in After(S, text) <=> text \in S
    <3>1. <<>> \in Text /\ text \odot <<>> = text
      BY <1>4, TextFacts
    <3> QED BY <3>1 DEF After
  <2> QED BY <1>2, <2>1, <2>2
<1>7. MaskIsExact
  BY <1>5 DEF MaskIsExact, text
<1>8. DoneIsACall
  BY <1>6 DEF DoneIsACall, Done, S, text
<1> QED BY <1>7, <1>8

\* For every vocabulary and every tool set, when strings and numbers are any
\* strings of bytes and of digits: a token is admitted exactly when some call of the
\* tool set continues with it (Constraint::compile over what build_with builds).
THEOREM MaskExact == ASSUME AllWords PROVE Spec => []MaskIsExact
<1>1. Init => InText
  BY InTextInit
<1>2. InText /\ [Next]_vars => InText'
  BY InTextStep
<1>3. InText => MaskIsExact
  BY MaskShows
<1> QED BY <1>1, <1>2, <1>3, PTL DEF Spec

\* Under the same hypothesis decoding ends exactly when the text is a complete call
\* of the tool set, never before and never after (the accept state of build_with).
THEOREM DoneRight == ASSUME AllWords PROVE Spec => []DoneIsACall
<1>1. Init => InText
  BY InTextInit
<1>2. InText /\ [Next]_vars => InText'
  BY InTextStep
<1>3. InText => DoneIsACall
  BY MaskShows
<1> QED BY <1>1, <1>2, <1>3, PTL DEF Spec
-----------------------------------------------------------------------------
(* What the automaton forces *)

\* What is forced is the one token all sentences go on with.
LEMMA ForcedIs ==
  ASSUME Spells, NEW c, NEW S, NEW R, NEW n, Meant(c, S, R, n), NEW s \in 1 .. n,
         ~Accepting(c, s), Forced(c, s) # {}
  PROVE  \E t \in Token : /\ Forced(c, s) = {t} /\ c.next[s][t] \in 1 .. n
                          /\ \A w \in R[s] : \E z \in R[c.next[s][t]] : w = Symbols(t) \odot z
<1>1. Forced(c, s) = Allowed(c, s) /\ Cardinality(Allowed(c, s)) = 1
  BY DEF Forced
<1>2. PICK t : Allowed(c, s) = {t}
  <2>1. Allowed(c, s) \subseteq Token /\ IsFiniteSet(Token)
    BY VocabAssumption DEF Allowed
  <2>2. IsFiniteSet(Allowed(c, s))
    BY <2>1, FS_Subset
  <2> QED BY <1>1, <2>2, FS_Singleton
<1>3. t \in Token /\ \A u \in Token : c.next[s][u] # None <=> u = t
  BY <1>2 DEF Allowed
<1> DEFINE to == c.next[s][t]
<1>4. n \in Nat /\ R[s] \subseteq Text /\ <<>> \notin R[s] /\ to \in 1 .. n
  <2>1. n \in Nat /\ R[s] \subseteq Text /\ to \in 0 .. n
    BY <1>3 DEF Meant
  <2>2. <<>> \notin R[s]
    BY DEF Meant, Accepting
  <2>3. to # None
    BY <1>3
  <2> HIDE DEF to
  <2> QED BY <2>1, <2>2, <2>3 DEF None
<1>5. ASSUME NEW w \in R[s] PROVE \E z \in R[to] : w = Symbols(t) \odot z
  <2>1. PICK e \in Symbol, z \in Text : w = <<e>> \odot z
    BY <1>4, Begins
  <2>2. z \in Past(R[s], e)
    BY <2>1 DEF Past
  <2>3. \/ \E u \in Token : Symbols(u) = <<e>>
        \/ \E u, v \in Token : u # v /\ c.next[s][u] # None /\ c.next[s][v] # None
    BY <2>2 DEF Meant
  <2>4. PICK u \in Token : Symbols(u) = <<e>>
    BY <2>3, <1>3
  <2>5. Symbols(u) # <<>> /\ Past(R[s], e) = After(R[s], Symbols(u))
    BY <2>4, TextFacts DEF Past, After
  <2> DEFINE goal == c.next[s][u]
  <2>6. After(R[s], Symbols(u)) = IF goal = None THEN {} ELSE R[goal]
    BY <2>5 DEF Meant
  <2> HIDE DEF goal
  <2>7. goal # None /\ z \in R[goal]
    BY <2>2, <2>5, <2>6
  <2>8. u = t
    BY <1>3, <2>7 DEF goal
  <2> QED BY <2>1, <2>4, <2>7, <2>8 DEF goal
<1> QED BY <1>1, <1>2, <1>3, <1>4, <1>5

\* A forced run, token by token.
ForcedOn(c, s, max, rec) ==
  /\ ForcedRun(c, s, max) = rec[max].toks /\ rec[0] = [toks |-> <<>>, at |-> s]
  /\ \A k \in 1 .. max :
       LET was == rec[k - 1]  t == CHOOSE u \in Forced(c, was.at) : TRUE
       IN  rec[k] = IF Accepting(c, was.at) \/ Forced(c, was.at) = {} THEN was
                    ELSE [toks |-> Append(was.toks, t), at |-> c.next[was.at][t]]

LEMMA ForcedRuns ==
  ASSUME Spells, NEW c, NEW S, NEW R, NEW n, Meant(c, S, R, n), NEW s \in 1 .. n, NEW max \in Nat
  PROVE  \E rec : ForcedOn(c, s, max, rec)
<1> DEFINE Q == [toks : Seq(Token), at : 1 .. n]
           first == [toks |-> <<>>, at |-> s]
           next(was) ==
             LET t == CHOOSE u \in Forced(c, was.at) : TRUE
             IN  IF Accepting(c, was.at) \/ Forced(c, was.at) = {} THEN was
                 ELSE [toks |-> Append(was.toks, t), at |-> c.next[was.at][t]]
           P == [k \in 0 .. max |-> Q]
           step == [k \in 1 .. max |-> [was \in Q |-> next(was)]]
           IsRun(f) == f = [k \in 0 .. max |-> IF k = 0 THEN first ELSE next(f[k - 1])]
           rec == CHOOSE f : IsRun(f)
<1>1. first \in Q
  BY EmptySeq
<1>2. ASSUME NEW was \in Q PROVE next(was) \in Q
  <2>1. CASE Accepting(c, was.at) \/ Forced(c, was.at) = {}
    BY <2>1
  <2>2. CASE ~(Accepting(c, was.at) \/ Forced(c, was.at) = {})
    <3>1. PICK t \in Token : Forced(c, was.at) = {t} /\ c.next[was.at][t] \in 1 .. n
      BY <2>2, ForcedIs
    <3>2. (CHOOSE u \in Forced(c, was.at) : TRUE) = t
      BY <3>1
    <3>3. Append(was.toks, t) \in Seq(Token)
      BY AppendProperties
    <3> QED BY <2>2, <3>1, <3>2, <3>3
  <2> QED BY <2>1, <2>2
<1>3. \A k \in 1 .. max : \A was \in Q : step[k][was] = next(was) /\ next(was) \in Q
  <2> HIDE DEF next, Q
  <2> QED BY <1>2
<1>4. ForcedRun(c, s, max) = rec[max].toks
  BY Zenon DEF ForcedRun, first, next
<1> HIDE DEF Q, first, next
<1>5. PICK f : IsFold(f, max, first, step) /\ \A k \in 0 .. max : f[k] \in P[k]
  <2>1. first \in P[0] /\ \A k \in 0 .. max : P[k] = Q
    BY <1>1
  <2> HIDE DEF step, P
  <2>2. \A k \in 1 .. max : \A v \in P[k - 1] : step[k][v] \in P[k]
    <3> TAKE k \in 1 .. max
    <3>1. k - 1 \in 0 .. max /\ k \in 0 .. max
      OBVIOUS
    <3> QED BY <1>3, <2>1, <3>1
  <2> QED BY <2>1, <2>2, Fold
<1>6. IsRun(f)
  <2>1. \A k \in 1 .. max : f[k - 1] \in Q
    BY <1>5
  <2> HIDE DEF step
  <2>2. f = [k \in 0 .. max |-> IF k = 0 THEN first ELSE step[k][f[k - 1]]]
    BY <1>5 DEF IsFold
  <2>3. \A k \in 0 .. max : (IF k = 0 THEN first ELSE step[k][f[k - 1]]) = (IF k = 0 THEN first ELSE next(f[k - 1]))
    BY <1>3, <2>1
  <2> QED BY <2>2, <2>3
<1>7. IsRun(rec)
  <2> HIDE DEF IsRun
  <2> QED BY <1>6, Zenon
<1> HIDE DEF rec
<1>8. rec[0] = first /\ \A k \in 1 .. max : rec[k] = next(rec[k - 1])
  BY <1>7
<1>9. ForcedOn(c, s, max, rec)
  BY <1>4, <1>8, Zenon DEF ForcedOn, first, next
<1> QED BY <1>9

\* All that may follow begins with the run.
LEMMA RunIsCommon ==
  ASSUME Spells, NEW c, NEW S, NEW R, NEW n, Meant(c, S, R, n), NEW s \in 1 .. n, NEW max \in Nat
  PROVE  LET run == TextOf(ForcedRun(c, s, max))
         IN  run \in Text /\ \A w \in R[s] : \E z \in Text : w = run \odot z
<1>1. PICK rec : ForcedOn(c, s, max, rec)
  BY ForcedRuns
<1> DEFINE text(k) == TextOf(rec[k].toks)
           Good(k) == /\ rec[k].toks \in Seq(Token) /\ rec[k].at \in 1 .. n
                      /\ text(k) \in Text
                      /\ \A w \in R[s] : \E z \in R[rec[k].at] : w = text(k) \odot z
           T == {k \in 0 .. max : Good(k)}
<1>2. \A q \in 1 .. n : R[q] \subseteq Text
  BY DEF Meant
<1>3. 0 \in T
  <2>1. rec[0].toks = <<>> /\ rec[0].at = s
    BY <1>1 DEF ForcedOn
  <2>2. text(0) = <<>> /\ <<>> \in Seq(Token) /\ <<>> \in Text
    BY <2>1, NothingSaid, EmptySeq, TextFacts
  <2> HIDE DEF text
  <2>3. \A w \in R[s] : w = text(0) \odot w
    BY <1>2, <2>2, TextFacts
  <2>4. Good(0)
    BY <2>1, <2>2, <2>3
  <2> QED BY <2>4
<1>4. ASSUME NEW k \in 1 .. max, k - 1 \in T PROVE k \in T
  <2> DEFINE was == rec[k - 1]
  <2>1. Good(k - 1)
    BY <1>4
  <2>2. k - 1 \in 0 .. max /\ k \in 0 .. max
    OBVIOUS
  <2>3. CASE Accepting(c, was.at) \/ Forced(c, was.at) = {}
    <3>1. rec[k] = was
      BY <1>1, <2>3 DEF ForcedOn
    <3>2. Good(k)
      BY <2>1, <3>1
    <3> QED BY <2>2, <3>2
  <2>4. CASE ~(Accepting(c, was.at) \/ Forced(c, was.at) = {})
    <3>1. was.at \in 1 .. n /\ was.toks \in Seq(Token)
      BY <2>1
    <3>2. PICK t \in Token : /\ Forced(c, was.at) = {t} /\ c.next[was.at][t] \in 1 .. n
                             /\ \A w \in R[was.at] : \E z \in R[c.next[was.at][t]] : w = Symbols(t) \odot z
      <4> HIDE DEF was
      <4> QED BY <2>4, <3>1, ForcedIs
    <3>3. (CHOOSE u \in Forced(c, was.at) : TRUE) = t
      BY <3>2
    <3>4. rec[k].toks = Append(was.toks, t) /\ rec[k].at = c.next[was.at][t]
      <4> DEFINE u == CHOOSE v \in Forced(c, was.at) : TRUE
      <4>1. rec[k] = IF Accepting(c, was.at) \/ Forced(c, was.at) = {} THEN was
                     ELSE [toks |-> Append(was.toks, u), at |-> c.next[was.at][u]]
        BY <1>1, Zenon DEF ForcedOn
      <4>2. u = t
        BY <3>3
      <4> HIDE DEF was, u
      <4>3. rec[k] = [toks |-> Append(was.toks, t), at |-> c.next[was.at][t]]
        BY <2>4, <4>1, <4>2
      <4> QED BY <4>3
    <3>5. rec[k].toks \in Seq(Token)
      BY <3>1, <3>4, AppendProperties
    <3>6. text(k) = text(k - 1) \odot Symbols(t) /\ Symbols(t) \in Text
      BY <3>1, <3>4, TextFollows, SymbolsAre
    <3>7. text(k - 1) \in Text /\ \A w \in R[s] : \E z \in R[was.at] : w = text(k - 1) \odot z
      BY <2>1
    <3>8. rec[k].at \in 1 .. n
      BY <3>2, <3>4
    <3> HIDE DEF text, was
    <3>9. text(k) \in Text
      BY <3>6, <3>7, TextFacts
    <3>10. ASSUME NEW w \in R[s] PROVE \E z \in R[rec[k].at] : w = text(k) \odot z
      <4>1. PICK y \in R[was.at] : w = text(k - 1) \odot y
        BY <3>7
      <4>2. PICK z \in R[rec[k].at] : y = Symbols(t) \odot z
        BY <3>2, <3>4
      <4>3. z \in Text
        BY <1>2, <3>8
      <4>4. (text(k - 1) \odot Symbols(t)) \odot z = text(k - 1) \odot (Symbols(t) \odot z)
        BY <3>6, <3>7, <4>3, Assoc
      <4> QED BY <3>6, <4>1, <4>2, <4>4
    <3>11. Good(k)
      BY <3>5, <3>8, <3>9, <3>10
    <3> QED BY <2>2, <3>11
  <2> QED BY <2>3, <2>4
<1> HIDE DEF T
<1>5. max \in T
  <2>1. \A k \in 0 .. max : k \in T
    BY <1>3, <1>4, UpTo
  <2> QED BY <2>1
<1>6. Good(max) /\ ForcedRun(c, s, max) = rec[max].toks
  BY <1>1, <1>5 DEF T, ForcedOn
<1> DEFINE run == TextOf(ForcedRun(c, s, max))
<1>7. run = text(max)
  BY <1>6
<1>8. run \in Text /\ \A w \in R[s] : \E z \in R[rec[max].at] : w = run \odot z
  BY <1>6, <1>7
<1>9. R[rec[max].at] \subseteq Text
  BY <1>2, <1>6
<1> HIDE DEF run
<1>10. \A w \in R[s] : \E z \in Text : w = run \odot z
  BY <1>8, <1>9
<1> QED BY <1>8, <1>10 DEF run

\* A prefix, by what follows it.
LEMMA PrefixIs ==
  ASSUME NEW u \in Text, NEW s \in Text
  PROVE  IsPrefix(u, s) <=> \E z \in Text : s = u \odot z
<1> DEFINE m == Len(u)  n == Len(s)
<1>1. m \in Nat /\ n \in Nat /\ u \in Seq(Symbol) /\ s \in Seq(Symbol) /\ SubSeq(u, 1, m) = u
  BY TextFacts, SubSeqFull DEF Text
<1>2. IsPrefix(u, s) <=> m <= n /\ SubSeq(s, 1, m) = u
  BY <1>1 DEF IsPrefix
<1>3. ASSUME m <= n, SubSeq(s, 1, m) = u PROVE \E z \in Text : s = u \odot z
  <2> DEFINE z == SubSeq(s, m + 1, n)
  <2>1. z \in Text
    <3> HIDE DEF m, n
    <3>1. m + 1 \in Int /\ n \in Int /\ \A i \in m + 1 .. n : i \in 1 .. n
      BY <1>1
    <3>2. \A i \in 1 .. n : s[i] \in Symbol
      BY <1>1 DEF n
    <3> QED BY <3>1, <3>2, SubSeqProperties DEF Text
  <2>2. SubSeq(s, 1, m) \o z = s
    <3> HIDE DEF m
    <3>1. 1 \in 1 .. n + 1 /\ m \in 1 - 1 .. n /\ n \in m .. n
      BY <1>1, <1>3
    <3>2. SubSeq(s, 1, m) \o SubSeq(s, m + 1, n) = SubSeq(s, 1, n)
      BY <1>1, <3>1, ConcatAdjacentSubSeq
    <3> QED BY <1>1, <3>2, SubSeqFull
  <2> HIDE DEF z
  <2> QED BY <1>3, <2>1, <2>2 DEF \odot
<1>4. ASSUME NEW z \in Text, s = u \odot z PROVE m <= n /\ SubSeq(s, 1, m) = u
  <2>1. n = m + Len(z) /\ Len(z) \in Nat /\ z \in Seq(Symbol)
    BY <1>4, TextFacts DEF Text
  <2>2. CASE m = 0
    <3>1. u = <<>>
      BY <2>2, TextFacts
    <3>2. SubSeq(s, 1, m) = <<>>
      <4> HIDE DEF m
      <4> QED BY <2>2, SubSeqEmpty
    <3> QED BY <1>1, <2>1, <3>1, <3>2
  <2>3. CASE m # 0
    <3>1. 1 \in 1 .. m /\ m \in 1 .. m
      BY <1>1, <2>3
    <3>2. SubSeq(u \o z, 1, m) = SubSeq(u, 1, m)
      BY <1>1, <2>1, <3>1, SubSeqOfConcat1
    <3> QED BY <1>1, <1>4, <2>1, <3>2 DEF \odot
  <2> QED BY <2>2, <2>3
<1> QED BY <1>2, <1>3, <1>4

LEMMA RunShows ==
  ASSUME Spells, InText
  PROVE  RunIsForced
<1> DEFINE S == Sentences[tools]  text == TextOf(out)  run == ForcedRun(con, state, 15)  more == TextOf(run)
<1>1. text \in Text
  BY Out DEF InText
<1>2. PICK R, n : Meant(con, S, R, n) /\ state \in 1 .. n /\ R[state] = After(S, text)
  BY DEF InText
<1>3. S \subseteq Text
  BY <1>2 DEF Meant
<1> HIDE DEF S, text
<1>4. more \in Text /\ \A w \in R[state] : \E z \in Text : w = more \odot z
  BY <1>2, RunIsCommon
<1> HIDE DEF more, run
<1>5. ASSUME NEW s \in S, IsPrefix(text, s) PROVE IsPrefix(text \o more, s)
  <2>1. s \in Text
    BY <1>3
  <2>2. PICK w \in Text : s = text \odot w
    BY <1>1, <1>5, <2>1, PrefixIs
  <2>3. w \in R[state]
    BY <1>2, <2>2 DEF After
  <2>4. PICK z \in Text : w = more \odot z
    BY <1>4, <2>3
  <2>5. s = (text \odot more) \odot z /\ text \odot more \in Text
    BY <1>1, <1>4, <2>2, <2>4, Assoc, TextFacts
  <2> DEFINE ends == text \odot more
  <2>6. ends = text \o more
    BY DEF \odot
  <2>7. IsPrefix(ends, s)
    <3> HIDE DEF ends
    <3> QED BY <2>1, <2>5, PrefixIs DEF ends
  <2> QED BY <2>6, <2>7
<1> QED BY <1>5, Zenon DEF RunIsForced, S, text, more, run

\* For every vocabulary that has the digits and two string bytes as tokens of one
\* byte: what forced_run appends without the model is a part of every call that
\* begins with the text so far.
THEOREM RunForced == ASSUME AllWords, Spells PROVE Spec => []RunIsForced
<1>1. Init => InText
  BY InTextInit
<1>2. InText /\ [Next]_vars => InText'
  BY InTextStep
<1>3. InText => RunIsForced
  BY RunShows
<1> QED BY <1>1, <1>2, <1>3, PTL DEF Spec

-----------------------------------------------------------------------------
(* Searching and trimming *)

LEMMA FromIs ==
  ASSUME NEW S, NEW s \in Seq(S), NEW k \in 1 .. Len(s) + 1
  PROVE  /\ From(s, k) \in Seq(S) /\ Len(From(s, k)) = Len(s) - k + 1
         /\ \A i \in 1 .. Len(s) - k + 1 : From(s, k)[i] = s[k + i - 1]
<1> DEFINE n == Len(s)
<1>1. n \in Nat /\ \A i \in 1 .. n : s[i] \in S
  BY LenProperties, ElementOfSeq
<1>2. n \in Int /\ k \in Int /\ \A i \in k .. n : s[i] \in S
  BY <1>1
<1> HIDE DEF n
<1> DEFINE t == SubSeq(s, k, n)
<1>3. /\ t \in Seq(S) /\ Len(t) = (IF k <= n THEN n - k + 1 ELSE 0)
      /\ \A i \in 1 .. n - k + 1 : t[i] = s[k + i - 1]
  BY <1>2, SubSeqProperties
<1> HIDE DEF t
<1>4. Len(t) = n - k + 1
  BY <1>1, <1>3 DEF n
<1> QED BY <1>3, <1>4 DEF From, t, n

\* A text made of two, cut where the second begins.
LEMMA Cut ==
  ASSUME NEW S, NEW u \in Seq(S), NEW v \in Seq(S)
  PROVE  /\ SubSeq(u \odot v, 1, Len(u)) = u
         /\ From(u \odot v, Len(u) + 1) = v
<1> DEFINE s == u \odot v  m == Len(u)  n == Len(v)
<1>1. /\ s \in Seq(S) /\ m \in Nat /\ n \in Nat /\ Len(s) = m + n
      /\ \A i \in 1 .. m : s[i] = u[i] /\ u[i] \in S
      /\ \A i \in 1 .. n : s[m + i] = v[i]
  <2>1. Joined(S, u, v)
    BY StrCat
  <2> QED BY <2>1 DEF Joined
<1> HIDE DEF s
<1>2. SubSeq(s, 1, m) = u
  <2> DEFINE t == SubSeq(s, 1, m)
  <2>1. /\ t \in Seq(S) /\ Len(t) = (IF 1 <= m THEN m - 1 + 1 ELSE 0)
        /\ \A i \in 1 .. m - 1 + 1 : t[i] = s[1 + i - 1]
    <3>1. 1 \in Int /\ m \in Int /\ \A i \in 1 .. m : s[i] \in S
      BY <1>1
    <3> HIDE DEF m
    <3> QED BY <3>1, SubSeqProperties
  <2> HIDE DEF t
  <2>2. Len(t) = m /\ \A i \in 1 .. m : t[i] = u[i]
    BY <1>1, <2>1
  <2> QED BY <2>1, <2>2, SeqEqual DEF t
<1>3. From(s, m + 1) = v
  <2> DEFINE t == From(s, m + 1)
  <2>1. m + 1 \in 1 .. Len(s) + 1
    BY <1>1
  <2>2. /\ t \in Seq(S) /\ Len(t) = Len(s) - (m + 1) + 1
        /\ \A i \in 1 .. Len(s) - (m + 1) + 1 : t[i] = s[(m + 1) + i - 1]
    <3> DEFINE k == m + 1
    <3>1. k \in 1 .. Len(s) + 1
      BY <2>1
    <3> HIDE DEF k
    <3>2. /\ From(s, k) \in Seq(S) /\ Len(From(s, k)) = Len(s) - k + 1
          /\ \A i \in 1 .. Len(s) - k + 1 : From(s, k)[i] = s[k + i - 1]
      BY <1>1, <3>1, FromIs
    <3> QED BY <3>2 DEF k
  <2> HIDE DEF t
  <2>3. Len(t) = n /\ \A i \in 1 .. n : t[i] = v[i]
    <3>1. \A i \in 1 .. n : s[(m + 1) + i - 1] = s[m + i]
      BY <1>1
    <3> QED BY <1>1, <2>2, <3>1
  <2> QED BY <2>2, <2>3, SeqEqual DEF t
<1> QED BY <1>2, <1>3 DEF s

\* The first of a set of places.
LEMMA FirstOf ==
  ASSUME NEW H, H \subseteq Nat, NEW k \in H, \A i \in H : k <= i
  PROVE  Min(H) = k
<1>1. Min(H) \in H /\ \A i \in H : Min(H) <= i
  BY Zenon DEF Min
<1>2. Min(H) <= k /\ k <= Min(H) /\ Min(H) \in Nat /\ k \in Nat
  BY <1>1
<1> QED BY <1>2

\* p stands in s at i.
Stands(p, s, i) == i + Len(p) <= Len(s) + 1 /\ \A j \in 1 .. Len(p) : s[i + j - 1] = p[j]

LEMMA PrefixAt ==
  ASSUME NEW S, NEW p \in Seq(S), NEW s \in Seq(S)
  PROVE  IsPrefix(p, s) <=> Len(p) <= Len(s) /\ \A j \in 1 .. Len(p) : s[j] = p[j]
<1> DEFINE m == Len(p)  t == SubSeq(s, 1, m)
<1>1. m \in Nat /\ Len(s) \in Nat /\ SubSeq(p, 1, m) = p
  BY LenProperties, SubSeqFull
<1>2. m <= Len(s) => t \in Seq(S) /\ Len(t) = m /\ \A j \in 1 .. m : t[j] = s[j]
  <2> SUFFICES ASSUME m <= Len(s) PROVE t \in Seq(S) /\ Len(t) = m /\ \A j \in 1 .. m : t[j] = s[j]
    OBVIOUS
  <2>1. 1 \in Int /\ m \in Int /\ \A i \in 1 .. m : s[i] \in S
    BY <1>1, ElementOfSeq
  <2> HIDE DEF m
  <2>2. /\ SubSeq(s, 1, m) \in Seq(S) /\ Len(SubSeq(s, 1, m)) = (IF 1 <= m THEN m - 1 + 1 ELSE 0)
        /\ \A i \in 1 .. m - 1 + 1 : SubSeq(s, 1, m)[i] = s[1 + i - 1]
    BY <2>1, SubSeqProperties
  <2> HIDE DEF t
  <2>3. t \in Seq(S) /\ Len(t) = (IF 1 <= m THEN m - 1 + 1 ELSE 0) /\ \A i \in 1 .. m - 1 + 1 : t[i] = s[1 + i - 1]
    BY <2>2 DEF t
  <2> QED BY <1>1, <2>3
<1> HIDE DEF t
<1>3. m <= Len(s) => (t = p <=> \A j \in 1 .. m : s[j] = p[j])
  BY <1>1, <1>2, SeqEqual
<1> QED BY <1>1, <1>3 DEF IsPrefix, t

LEMMA StandsIs ==
  ASSUME NEW S, NEW p \in Seq(S), NEW s \in Seq(S), NEW i \in 1 .. Len(s) + 1
  PROVE  IsPrefix(p, From(s, i)) <=> Stands(p, s, i)
<1> DEFINE t == From(s, i)
<1>1. /\ t \in Seq(S) /\ Len(t) = Len(s) - i + 1
      /\ \A j \in 1 .. Len(s) - i + 1 : t[j] = s[i + j - 1]
  BY FromIs
<1>2. Len(p) \in Nat /\ Len(s) \in Nat
  BY LenProperties
<1> HIDE DEF t
<1>3. IsPrefix(p, t) <=> Len(p) <= Len(t) /\ \A j \in 1 .. Len(p) : t[j] = p[j]
  BY <1>1, PrefixAt
<1>4. Len(p) <= Len(t) <=> i + Len(p) <= Len(s) + 1
  BY <1>1, <1>2
<1>5. Len(p) <= Len(t) => \A j \in 1 .. Len(p) : t[j] = s[i + j - 1]
  BY <1>1, <1>2
<1> QED BY <1>3, <1>4, <1>5 DEF Stands, t

\* Find returns the first place p stands at.
LEMMA FindAt ==
  ASSUME NEW S, NEW p \in Seq(S), NEW s \in Seq(S), NEW k \in 1 .. Len(s) + 1,
         k <= Len(s) => Stands(p, s, k), \A i \in 1 .. k - 1 : ~Stands(p, s, i)
  PROVE  Find(s, p) = k
<1> DEFINE H == {Len(s) + 1} \cup {i \in DOMAIN s : IsPrefix(p, From(s, i))}
<1>1. Len(s) \in Nat /\ DOMAIN s = 1 .. Len(s)
  BY LenProperties
<1>2. \A i : i \in H <=> i = Len(s) + 1 \/ (i \in 1 .. Len(s) /\ Stands(p, s, i))
  <2>1. \A i \in 1 .. Len(s) : IsPrefix(p, From(s, i)) <=> Stands(p, s, i)
    <3> TAKE i \in 1 .. Len(s)
    <3>1. i \in 1 .. Len(s) + 1
      BY <1>1
    <3> QED BY <3>1, StandsIs
  <2>2. \A i : i \in H <=> i = Len(s) + 1 \/ (i \in 1 .. Len(s) /\ IsPrefix(p, From(s, i)))
    BY <1>1
  <2> HIDE DEF H
  <2> QED BY <2>1, <2>2
<1>3. Find(s, p) = Min(H)
  BY DEF Find
<1> HIDE DEF H
<1>4. H \subseteq Nat /\ k \in H
  BY <1>1, <1>2
<1>5. ASSUME NEW i \in H PROVE k <= i
  <2>1. CASE i = Len(s) + 1
    BY <2>1, <1>1
  <2>2. CASE i \in 1 .. Len(s) /\ Stands(p, s, i)
    <3>1. i \notin 1 .. k - 1
      BY <2>2
    <3> QED BY <3>1, <2>2, <1>1
  <2> QED BY <1>2, <2>1, <2>2
<1> QED BY <1>3, <1>4, <1>5, FirstOf

\* When p is absent it stands nowhere.
LEMMA Nowhere ==
  ASSUME NEW S, NEW p \in Seq(S), NEW s \in Seq(S), Absent(s, p), NEW i \in 1 .. Len(s)
  PROVE  ~Stands(p, s, i)
<1> DEFINE H == {Len(s) + 1} \cup {j \in DOMAIN s : IsPrefix(p, From(s, j))}
<1> SUFFICES ASSUME Stands(p, s, i) PROVE FALSE
  OBVIOUS
<1>1. Len(s) \in Nat /\ DOMAIN s = 1 .. Len(s)
  BY LenProperties
<1>2. i \in H
  <2>1. i \in 1 .. Len(s) + 1
    BY <1>1
  <2> QED BY <1>1, <2>1, StandsIs
<1>3. Min(H) > Len(s)
  BY DEF Absent, Find
<1>4. H \subseteq Nat /\ H # {}
  BY <1>1
<1> HIDE DEF H
<1>5. PICK x \in H : \A y \in H : x <= y
  BY <1>4, Least
<1>6. Min(H) = x
  BY <1>4, <1>5, FirstOf
<1>7. x <= i /\ x \in Nat
  BY <1>2, <1>4, <1>5
<1> QED BY <1>1, <1>3, <1>6, <1>7

\* A byte is found behind a text without it.
LEMMA FindByte ==
  ASSUME NEW S, NEW c \in S, NEW u \in Seq(S), \A i \in 1 .. Len(u) : u[i] # c, NEW v \in Seq(S),
         v = <<>> \/ v[1] = c
  PROVE  Find(u \odot v, <<c>>) = Len(u) + 1
<1> DEFINE s == u \odot v  p == <<c>>  k == Len(u) + 1
<1>1. p \in Seq(S) /\ Len(p) = 1 /\ p[1] = c
  BY StrOne
<1>2. /\ s \in Seq(S) /\ Len(u) \in Nat /\ Len(v) \in Nat /\ Len(s) = Len(u) + Len(v)
      /\ \A i \in 1 .. Len(u) : s[i] = u[i]
      /\ \A i \in 1 .. Len(v) : s[Len(u) + i] = v[i]
  <2>1. Joined(S, u, v)
    BY StrCat
  <2> QED BY <2>1 DEF Joined
<1> HIDE DEF p, s
<1>3. \A i \in Nat : Stands(p, s, i) <=> i + 1 <= Len(s) + 1 /\ s[i] = c
  <2> TAKE i \in Nat
  <2>1. (\A j \in 1 .. 1 : s[i + j - 1] = p[j]) <=> s[i + 1 - 1] = p[1]
    OBVIOUS
  <2>2. i + 1 - 1 = i
    OBVIOUS
  <2> QED BY <1>1, <2>1, <2>2 DEF Stands
<1>4. k \in 1 .. Len(s) + 1
  BY <1>2
<1>5. k <= Len(s) => Stands(p, s, k)
  <2> SUFFICES ASSUME k <= Len(s) PROVE Stands(p, s, k)
    OBVIOUS
  <2>1. Len(v) # 0 /\ 1 \in 1 .. Len(v)
    BY <1>2
  <2>2. v # <<>>
    <3>1. Len(<<>>) = 0
      BY EmptySeq
    <3> QED BY <2>1, <3>1
  <2>3. s[Len(u) + 1] = c
    BY <1>2, <2>1, <2>2
  <2>4. k + 1 <= Len(s) + 1 /\ k \in Nat
    BY <1>2
  <2> QED BY <1>3, <2>3, <2>4
<1>6. \A i \in 1 .. k - 1 : ~Stands(p, s, i)
  <2> TAKE i \in 1 .. k - 1
  <2>1. i \in 1 .. Len(u) /\ i \in Nat
    BY <1>2
  <2>2. s[i] # c
    BY <1>2, <2>1
  <2> QED BY <1>3, <2>1, <2>2
<1> HIDE DEF k
<1>7. Find(s, p) = k
  BY <1>1, <1>2, <1>4, <1>5, <1>6, FindAt
<1> QED BY <1>7 DEF s, p, k

\* p stands nowhere in w.
Misses(p, w) == \A i \in 1 .. Len(w) : ~Stands(p, w, i)

LEMMA MissesParts ==
  ASSUME NEW S, NEW p \in Seq(S), NEW u \in Seq(S), NEW v \in Seq(S), Misses(p, u \odot v)
  PROVE  Misses(p, u) /\ Misses(p, v)
<1> DEFINE s == u \odot v
<1>1. /\ s \in Seq(S) /\ Len(u) \in Nat /\ Len(v) \in Nat /\ Len(s) = Len(u) + Len(v)
      /\ \A i \in 1 .. Len(u) : s[i] = u[i]
      /\ \A i \in 1 .. Len(v) : s[Len(u) + i] = v[i]
  <2>1. Joined(S, u, v)
    BY StrCat
  <2> QED BY <2>1 DEF Joined
<1>2. Misses(p, s) /\ Len(p) \in Nat
  BY LenProperties
<1> HIDE DEF s
<1>3. ASSUME NEW i \in 1 .. Len(u), Stands(p, u, i) PROVE FALSE
  <2>1. i + Len(p) <= Len(u) + 1 /\ \A j \in 1 .. Len(p) : u[i + j - 1] = p[j]
    BY <1>3 DEF Stands
  <2>2. \A j \in 1 .. Len(p) : i + j - 1 \in 1 .. Len(u)
    BY <1>1, <1>2, <2>1
  <2>3. \A j \in 1 .. Len(p) : s[i + j - 1] = p[j]
    BY <1>1, <2>1, <2>2
  <2>4. i + Len(p) <= Len(s) + 1 /\ i \in 1 .. Len(s)
    BY <1>1, <1>2, <2>1
  <2> QED BY <1>2, <2>3, <2>4 DEF Stands, Misses
<1>4. ASSUME NEW i \in 1 .. Len(v), Stands(p, v, i) PROVE FALSE
  <2> DEFINE k == Len(u) + i
  <2>1. i + Len(p) <= Len(v) + 1 /\ \A j \in 1 .. Len(p) : v[i + j - 1] = p[j]
    BY <1>4 DEF Stands
  <2>2. \A j \in 1 .. Len(p) : i + j - 1 \in 1 .. Len(v) /\ k + j - 1 = Len(u) + (i + j - 1)
    BY <1>1, <1>2, <2>1
  <2>3. \A j \in 1 .. Len(p) : s[k + j - 1] = p[j]
    <3> TAKE j \in 1 .. Len(p)
    <3> DEFINE m == i + j - 1
    <3>1. m \in 1 .. Len(v) /\ k + j - 1 = Len(u) + m /\ v[m] = p[j]
      BY <2>1, <2>2
    <3> HIDE DEF m, k
    <3> QED BY <1>1, <3>1
  <2>4. k + Len(p) <= Len(s) + 1 /\ k \in 1 .. Len(s)
    BY <1>1, <1>2, <2>1
  <2> HIDE DEF k
  <2> QED BY <1>2, <2>3, <2>4 DEF Stands, Misses
<1> QED BY <1>3, <1>4 DEF Misses

\* A text whose first symbol does not come again is found where it stands, behind
\* a text it does not stand in.
LEMMA FindText ==
  ASSUME NEW S, NEW p \in Seq(S), p # <<>>, \A k \in 2 .. Len(p) : p[k] # p[1],
         NEW u \in Seq(S), Misses(p, u), NEW v \in Seq(S)
  PROVE  /\ Find(u \odot (p \odot v), p) = Len(u) + 1
         /\ ~Absent(u \odot (p \odot v), p)
<1> DEFINE z == p \odot v  s == u \odot z  k == Len(u) + 1  m == Len(p)
<1>1. /\ z \in Seq(S) /\ m \in Nat /\ Len(v) \in Nat /\ Len(z) = m + Len(v)
      /\ \A i \in 1 .. m : z[i] = p[i]
  <2>1. Joined(S, p, v)
    BY StrCat
  <2> QED BY <2>1 DEF Joined
<1>2. m >= 1
  <2>1. m # 0
    BY EmptySeq
  <2> HIDE DEF m
  <2> QED BY <1>1, <2>1
<1> HIDE DEF z, m
<1>3. /\ s \in Seq(S) /\ Len(u) \in Nat /\ Len(z) \in Nat /\ Len(s) = Len(u) + Len(z)
      /\ \A i \in 1 .. Len(u) : s[i] = u[i]
      /\ \A i \in 1 .. Len(z) : s[Len(u) + i] = z[i]
  <2>1. Joined(S, u, z)
    BY <1>1, StrCat
  <2> QED BY <2>1 DEF Joined
<1> HIDE DEF s
<1>4. \A j \in 1 .. m : s[Len(u) + j] = p[j]
  <2> TAKE j \in 1 .. m
  <2>1. j \in 1 .. Len(z)
    BY <1>1
  <2> QED BY <1>1, <1>3, <2>1
<1>5. Stands(p, s, k)
  <2>1. k + m <= Len(s) + 1
    BY <1>1, <1>3
  <2>2. \A j \in 1 .. m : s[k + j - 1] = p[j]
    <3> TAKE j \in 1 .. m
    <3>1. k + j - 1 = Len(u) + j
      BY <1>1, <1>3
    <3> HIDE DEF k
    <3> QED BY <1>4, <3>1
  <2> QED BY <2>1, <2>2 DEF Stands, m
<1>6. ASSUME NEW i \in 1 .. k - 1, Stands(p, s, i) PROVE FALSE
  <2>1. i + m <= Len(s) + 1 /\ \A j \in 1 .. m : s[i + j - 1] = p[j]
    BY <1>6 DEF Stands, m
  <2>2. i \in 1 .. Len(u)
    BY <1>3
  <2>3. CASE i + m <= Len(u) + 1
    <3>1. \A j \in 1 .. m : u[i + j - 1] = p[j]
      <4> TAKE j \in 1 .. m
      <4>1. i + j - 1 \in 1 .. Len(u)
        BY <1>1, <1>3, <2>2, <2>3
      <4> QED BY <1>3, <2>1, <4>1
    <3>2. Stands(p, u, i)
      BY <2>3, <3>1 DEF Stands, m
    <3> QED BY <2>2, <3>2 DEF Misses
  <2>4. CASE ~(i + m <= Len(u) + 1)
    <3> DEFINE j == Len(u) + 2 - i
    <3>1. j \in 2 .. m /\ i + j - 1 = Len(u) + 1
      BY <1>1, <1>3, <2>2, <2>4
    <3>2. j \in 1 .. m /\ 1 \in 1 .. m
      BY <1>1, <1>2, <3>1
    <3> HIDE DEF j
    <3>3. s[Len(u) + 1] = p[j]
      BY <2>1, <3>1, <3>2
    <3>4. s[Len(u) + 1] = p[1]
      BY <1>4, <3>2
    <3> QED BY <3>1, <3>3, <3>4 DEF m
  <2> QED BY <2>3, <2>4
<1>7. k \in 1 .. Len(s) + 1 /\ k <= Len(s)
  BY <1>1, <1>2, <1>3
<1> HIDE DEF k
<1>8. Find(s, p) = k
  BY <1>3, <1>5, <1>6, <1>7, FindAt
<1>9. ~Absent(s, p)
  BY <1>3, <1>7, <1>8 DEF Absent
<1> QED BY <1>8, <1>9 DEF s, z, k

\* w neither begins nor ends with what trim removes.
Neat(w) == w # <<>> => w[1] \notin Space /\ w[Len(w)] \notin Space

LEMMA TrimStartIs ==
  ASSUME NEW S, NEW g \in Seq(S), \A i \in 1 .. Len(g) : g[i] \in Space,
         NEW w \in Seq(S), w # <<>> => w[1] \notin Space
  PROVE  TrimStart(g \odot w) = w
<1> DEFINE s == g \odot w  H == {Len(s) + 1} \cup {i \in DOMAIN s : s[i] \notin Space}  k == Len(g) + 1
<1>1. /\ s \in Seq(S) /\ Len(g) \in Nat /\ Len(w) \in Nat /\ Len(s) = Len(g) + Len(w)
      /\ \A i \in 1 .. Len(g) : s[i] = g[i]
      /\ \A i \in 1 .. Len(w) : s[Len(g) + i] = w[i]
  <2>1. Joined(S, g, w)
    BY StrCat
  <2> QED BY <2>1 DEF Joined
<1>2. From(s, k) = w
  BY Cut
<1>3. TrimStart(s) = From(s, Min(H))
  BY DEF TrimStart
<1> HIDE DEF s
<1>4. \A i : i \in H <=> i = Len(s) + 1 \/ (i \in 1 .. Len(s) /\ s[i] \notin Space)
  <2>1. DOMAIN s = 1 .. Len(s)
    BY <1>1, LenProperties
  <2> QED BY <2>1
<1> HIDE DEF H
<1>5. H \subseteq Nat
  BY <1>1, <1>4
<1>6. k \in H
  <2>1. CASE w = <<>>
    <3>1. Len(w) = 0
      BY <2>1, EmptySeq
    <3> QED BY <1>1, <1>4, <3>1
  <2>2. CASE w # <<>>
    <3>1. Len(w) # 0
      BY <2>2, EmptySeq
    <3>2. 1 \in 1 .. Len(w)
      BY <1>1, <3>1
    <3>3. s[k] \notin Space /\ k \in 1 .. Len(s)
      BY <1>1, <2>2, <3>2
    <3> QED BY <1>4, <3>3
  <2> QED BY <2>1, <2>2
<1>7. ASSUME NEW i \in H PROVE k <= i
  <2>1. i \notin 1 .. Len(g)
    <3> SUFFICES ASSUME i \in 1 .. Len(g) PROVE FALSE
      OBVIOUS
    <3>1. s[i] \in Space /\ i \in 1 .. Len(s) /\ i # Len(s) + 1
      BY <1>1
    <3> QED BY <1>4, <1>7, <3>1
  <2>2. i \in Nat /\ i # 0
    BY <1>1, <1>4
  <2> QED BY <1>1, <2>1, <2>2
<1> HIDE DEF k
<1>8. Min(H) = k
  BY <1>5, <1>6, <1>7, FirstOf
<1> QED BY <1>2, <1>3, <1>8 DEF s

LEMMA TrimIs ==
  ASSUME NEW S, NEW g \in Seq(S), \A i \in 1 .. Len(g) : g[i] \in Space, NEW w \in Seq(S), Neat(w)
  PROVE  Trim(g \odot w) = w
<1> DEFINE r == Reverse(w)  n == Len(w)
<1>1. TrimStart(g \odot w) = w
  BY TrimStartIs DEF Neat
<1>2. Trim(g \odot w) = Reverse(TrimStart(r))
  BY <1>1 DEF Trim
<1>3. n \in Nat /\ \A i \in 1 .. n : w[i] \in S
  BY LenProperties, ElementOfSeq
<1>4. r = [i \in 1 .. n |-> w[(n - i) + 1]]
  BY DEF Reverse
<1>5. r \in Seq(S) /\ Len(r) = n /\ \A i \in 1 .. n : r[i] = w[(n - i) + 1]
  <2>1. \A i \in 1 .. n : (n - i) + 1 \in 1 .. n
    BY <1>3
  <2> HIDE DEF n, r
  <2> QED BY <1>3, <1>4, <2>1
<1> HIDE DEF r
<1>6. Reverse(r) = w
  <2>1. Reverse(r) = [i \in 1 .. n |-> r[(n - i) + 1]]
    BY <1>5 DEF Reverse
  <2>2. \A i \in 1 .. n : r[(n - i) + 1] = w[i]
    <3> TAKE i \in 1 .. n
    <3> DEFINE j == (n - i) + 1
    <3>1. j \in 1 .. n /\ (n - j) + 1 = i
      BY <1>3
    <3> HIDE DEF j, n
    <3>2. r[j] = w[(n - j) + 1]
      BY <1>5, <3>1
    <3> QED BY <3>1, <3>2 DEF j
  <2>3. w = [i \in 1 .. n |-> w[i]]
    BY LenProperties
  <2> HIDE DEF n
  <2> QED BY <2>1, <2>2, <2>3
<1>7. r # <<>> => r[1] \notin Space
  <2> SUFFICES ASSUME r # <<>> PROVE r[1] \notin Space
    OBVIOUS
  <2>1. n # 0
    BY <1>5, EmptySeq
  <2>2. 1 \in 1 .. n /\ (n - 1) + 1 = n
    BY <1>3, <2>1
  <2>3. w # <<>>
    BY <2>1, EmptySeq
  <2>4. r[1] = w[n]
    BY <1>5, <2>2
  <2> QED BY <2>3, <2>4 DEF Neat
<1>8. TrimStart(r) = r
  <2> DEFINE e == <<>>
  <2>1. e \in Seq(S) /\ \A i \in 1 .. Len(e) : e[i] \in Space
    BY EmptySeq
  <2>2. e \odot r = r
    <3>1. Joined(S, r, r)
      BY <1>5, StrCat
    <3> QED BY <3>1 DEF Joined
  <2> HIDE DEF e
  <2>3. TrimStart(e \odot r) = r
    BY <1>5, <1>7, <2>1, TrimStartIs
  <2> QED BY <2>2, <2>3
<1> QED BY <1>2, <1>6, <1>8

-----------------------------------------------------------------------------
(* What render writes for a text *)

Letter == Symbol \ Marks
Char   == Symbol \cup Range(OpenText) \cup Range(CloseText) \cup Range(QuoteText)
Str    == Seq(Char)
\* The delimiters have spellings.
Spellings == OpenText \in Seq(Range(OpenText)) /\ CloseText \in Seq(Range(CloseText)) /\ QuoteText \in Seq(Range(QuoteText))

Glyph(c) == IF c = Opens THEN OpenText ELSE IF c = Closes THEN CloseText ELSE IF c = Quotes THEN QuoteText ELSE <<c>>
Shown(w) == FlattenSeq([i \in 1 .. Len(w) |-> Glyph(w[i])])

LEMMA StrFacts ==
  ASSUME Spellings
  PROVE  /\ OpenText \in Str /\ CloseText \in Str /\ QuoteText \in Str /\ <<>> \in Str /\ Len(<<>>) = 0
         /\ Text \subseteq Str /\ Seq(Letter) \subseteq Text /\ Seq(Letter) \subseteq Str
         /\ Seq(Byte) \subseteq Seq(Letter) /\ Seq(StrByte) \subseteq Seq(Letter) /\ Seq(Digit) \subseteq Seq(Letter)
         /\ Byte \subseteq Letter /\ StrByte \subseteq Letter /\ Digit \subseteq Letter /\ Letter \subseteq Char /\ Symbol \subseteq Char
<1>1. Byte \subseteq Letter /\ StrByte \subseteq Letter /\ Digit \subseteq Letter
  BY MarkFacts DEF Letter
<1>2. Letter \subseteq Symbol /\ Symbol \subseteq Char /\ Letter \subseteq Char
  BY DEF Letter, Char
<1>3. Range(OpenText) \subseteq Char /\ Range(CloseText) \subseteq Char /\ Range(QuoteText) \subseteq Char
  BY DEF Char
<1>4. OpenText \in Str /\ CloseText \in Str /\ QuoteText \in Str
  BY <1>3, SeqMonotonic DEF Spellings, Str
<1>5. /\ Seq(Byte) \subseteq Seq(Letter) /\ Seq(StrByte) \subseteq Seq(Letter) /\ Seq(Digit) \subseteq Seq(Letter)
      /\ Text \subseteq Str /\ Seq(Letter) \subseteq Text /\ Seq(Letter) \subseteq Str
  BY <1>1, <1>2, SeqMonotonic DEF Text, Str
<1> QED BY <1>1, <1>2, <1>4, <1>5, EmptySeq DEF Str

LEMMA GlyphIs ==
  ASSUME Spellings
  PROVE  /\ Glyph(Opens) = OpenText /\ Glyph(Closes) = CloseText /\ Glyph(Quotes) = QuoteText
         /\ \A c \in Letter : Glyph(c) = <<c>>
         /\ \A c \in Symbol : Glyph(c) \in Str
<1>1. Opens # Closes /\ Opens # Quotes /\ Closes # Quotes /\ Marks = {Opens, Closes, Quotes}
  BY MarkFacts
<1> HIDE DEF Opens, Closes, Quotes
<1>2. \A c \in Letter : c # Opens /\ c # Closes /\ c # Quotes
  BY <1>1 DEF Letter
<1>3. \A c \in Symbol : <<c>> \in Str
  BY StrFacts DEF Str
<1> QED BY <1>1, <1>2, <1>3, StrFacts DEF Glyph

\* The glyphs of a text, in order.
Glyphs(w) == [i \in 1 .. Len(w) |-> Glyph(w[i])]
LEMMA GlyphsType ==
  ASSUME Spellings, NEW w \in Text
  PROVE  /\ Glyphs(w) \in Seq(Str) /\ Len(Glyphs(w)) = Len(w) /\ Shown(w) = FlattenSeq(Glyphs(w))
         /\ \A i \in 1 .. Len(w) : Glyphs(w)[i] = Glyph(w[i])
<1>1. Len(w) \in Nat /\ \A i \in 1 .. Len(w) : Glyph(w[i]) \in Str
  <2>1. \A i \in 1 .. Len(w) : w[i] \in Symbol
    BY ElementOfSeq DEF Text
  <2> QED BY <2>1, GlyphIs, LenProperties DEF Text
<1> QED BY <1>1 DEF Glyphs, Shown

LEMMA ShownCat ==
  ASSUME Spellings, NEW u \in Text, NEW v \in Text
  PROVE  Shown(u) \in Str /\ Shown(v) \in Str /\ Shown(u \odot v) = Shown(u) \odot Shown(v)
<1> DEFINE w == u \odot v  m == Len(u)  n == Len(v)
<1>1. /\ w \in Text /\ m \in Nat /\ n \in Nat /\ Len(w) = m + n
      /\ \A i \in 1 .. m : w[i] = u[i]
      /\ \A i \in 1 .. n : w[m + i] = v[i]
  <2>1. Joined(Symbol, u, v)
    BY StrCat DEF Text
  <2> QED BY <2>1 DEF Joined, Text
<1> HIDE DEF w
<1> DEFINE a == Glyphs(u)  b == Glyphs(v)  c == Glyphs(w)
<1>2. /\ a \in Seq(Str) /\ Len(a) = m /\ \A i \in 1 .. m : a[i] = Glyph(u[i])
      /\ b \in Seq(Str) /\ Len(b) = n /\ \A i \in 1 .. n : b[i] = Glyph(v[i])
      /\ c \in Seq(Str) /\ Len(c) = m + n /\ \A i \in 1 .. m + n : c[i] = Glyph(w[i])
      /\ Shown(u) = FlattenSeq(a) /\ Shown(v) = FlattenSeq(b) /\ Shown(w) = FlattenSeq(c)
  BY <1>1, GlyphsType
<1> HIDE DEF a, b, c, m, n
<1>3. /\ a \odot b \in Seq(Str) /\ Len(a \odot b) = m + n
      /\ \A i \in 1 .. m : (a \odot b)[i] = a[i]
      /\ \A i \in 1 .. n : (a \odot b)[m + i] = b[i]
  <2>1. Joined(Str, a, b)
    BY <1>2, StrCat
  <2> QED BY <1>2, <2>1 DEF Joined
<1>4. \A i \in 1 .. m + n : c[i] = (a \odot b)[i]
  <2> TAKE i \in 1 .. m + n
  <2>1. CASE i \in 1 .. m
    <3>1. c[i] = Glyph(w[i]) /\ w[i] = u[i]
      BY <1>1, <1>2, <2>1
    <3>2. (a \odot b)[i] = a[i] /\ a[i] = Glyph(u[i])
      BY <1>2, <1>3, <2>1
    <3> QED BY <3>1, <3>2
  <2>2. CASE i \notin 1 .. m
    <3> DEFINE j == i - m
    <3>1. j \in 1 .. n /\ i = m + j
      <4>1. m \in Nat /\ n \in Nat
        BY <1>1
      <4> QED BY <2>2, <4>1
    <3> HIDE DEF j
    <3>2. c[m + j] = Glyph(w[m + j]) /\ w[m + j] = v[j]
      BY <1>1, <1>2, <3>1
    <3>3. (a \odot b)[m + j] = b[j] /\ b[j] = Glyph(v[j])
      BY <1>2, <1>3, <3>1
    <3> QED BY <3>1, <3>2, <3>3
  <2> QED BY <2>1, <2>2
<1>5. c = a \odot b
  <2> DEFINE ab == a \odot b
  <2> HIDE DEF ab
  <2> QED BY <1>2, <1>3, <1>4, SeqEqual DEF ab
<1>6. FlattenSeq(a) \in Seq(Char) /\ FlattenSeq(b) \in Seq(Char) /\ FlattenSeq(a \odot b) = FlattenSeq(a) \odot FlattenSeq(b)
  BY <1>2, FlatCat DEF Str
<1> QED BY <1>2, <1>5, <1>6 DEF w, Str

LEMMA ShownOne ==
  ASSUME Spellings, NEW c \in Symbol
  PROVE  <<c>> \in Text /\ Shown(<<c>>) = Glyph(c)
<1> DEFINE w == <<c>>  g == Glyph(c)
<1>1. w \in Text /\ Len(w) = 1 /\ w[1] = c
  BY TextFacts, StrOne
<1> HIDE DEF w
<1>2. Glyphs(w) \in Seq(Str) /\ Len(Glyphs(w)) = 1 /\ Glyphs(w)[1] = g /\ Shown(w) = FlattenSeq(Glyphs(w))
  BY <1>1, GlyphsType
<1>3. g \in Str
  BY GlyphIs
<1> HIDE DEF g
<1>4. <<g>> \in Seq(Str) /\ Len(<<g>>) = 1 /\ <<g>>[1] = g
  BY <1>3, StrOne
<1> DEFINE a == Glyphs(w)  b == <<g>>
<1>5. a = b
  <2>1. a \in Seq(Str) /\ b \in Seq(Str) /\ Len(a) = Len(b) /\ \A i \in 1 .. Len(a) : a[i] = b[i]
    BY <1>2, <1>4
  <2> HIDE DEF a, b
  <2> QED BY <2>1, SeqEqual
<1>6. FlattenSeq(<<g>>) = g
  BY <1>3, FlatOne DEF Str
<1> QED BY <1>1, <1>2, <1>5, <1>6 DEF w, g

\* Without delimiters it is the text.
LEMMA ShownPlain ==
  ASSUME Spellings, NEW w \in Seq(Letter)
  PROVE  Shown(w) = w
<1> DEFINE n == Len(w)
<1>1. w \in Text /\ w \in Str /\ n \in Nat /\ \A i \in 1 .. n : w[i] \in Letter
  BY StrFacts, LenProperties, ElementOfSeq
<1>2. PICK f : Flat(Char, Glyphs(w), f)
  <2>1. Glyphs(w) \in Seq(Str)
    BY <1>1, GlyphsType
  <2> QED BY <2>1, FlatRuns DEF Str
<1>3. /\ Shown(w) = f[n] /\ f[0] = <<>> /\ \A k \in 0 .. n : f[k] \in Str
      /\ \A k \in 1 .. n : f[k] = f[k - 1] \odot <<w[k]>>
  <2>1. Glyphs(w) \in Seq(Str) /\ Len(Glyphs(w)) = n /\ Shown(w) = FlattenSeq(Glyphs(w))
    BY <1>1, GlyphsType
  <2>2. \A i \in 1 .. n : Glyphs(w)[i] = Glyph(w[i])
    BY <1>1, GlyphsType
  <2>3. \A i \in 1 .. n : Glyph(w[i]) = <<w[i]>>
    BY <1>1, GlyphIs
  <2> QED BY <1>2, <2>1, <2>2, <2>3 DEF Flat, Str
<1> HIDE DEF n
<1>4. \A k \in 0 .. n : Len(f[k]) = k /\ \A j \in 1 .. k : f[k][j] = w[j]
  <2> DEFINE Q == {k \in 0 .. n : Len(f[k]) = k /\ \A j \in 1 .. k : f[k][j] = w[j]}
  <2>1. 0 \in Q
    BY <1>1, <1>3, EmptySeq
  <2>2. ASSUME NEW k \in 1 .. n, k - 1 \in Q PROVE k \in Q
    <3> DEFINE g == f[k - 1]  e == <<w[k]>>
    <3>1. g \in Str /\ Len(g) = k - 1 /\ (\A j \in 1 .. k - 1 : g[j] = w[j]) /\ f[k] = g \odot e
      <4>1. k - 1 \in 0 .. n
        BY <1>1
      <4> QED BY <1>3, <2>2, <4>1
    <3>2. e \in Str /\ Len(e) = 1 /\ e[1] = w[k]
      BY <1>1, StrFacts, StrOne DEF Str
    <3> HIDE DEF g, e
    <3>3. /\ Len(g \odot e) = Len(g) + 1
          /\ \A i \in 1 .. Len(g) : (g \odot e)[i] = g[i]
          /\ \A i \in 1 .. 1 : (g \odot e)[Len(g) + i] = e[i]
      <4>1. Joined(Char, g, e)
        BY <3>1, <3>2, StrCat DEF Str
      <4> QED BY <3>2, <4>1 DEF Joined
    <3>4. Len(f[k]) = k /\ f[k][k] = w[k] /\ \A j \in 1 .. k - 1 : f[k][j] = w[j]
      <4>1. (k - 1) + 1 = k /\ 1 \in 1 .. 1
        BY <1>1
      <4> QED BY <3>1, <3>2, <3>3, <4>1
    <3>5. \A j \in 1 .. k : j = k \/ j \in 1 .. k - 1
      BY <1>1
    <3> QED BY <3>4, <3>5, <1>1
  <2> HIDE DEF Q
  <2>3. \A k \in 0 .. n : k \in Q
    BY <1>1, <2>1, <2>2, UpTo
  <2> QED BY <2>3 DEF Q
<1>5. f[n] = w
  <2> DEFINE u == f[n]
  <2>1. u \in Str /\ Len(u) = n /\ \A j \in 1 .. n : u[j] = w[j]
    <3>1. n \in 0 .. n
      BY <1>1
    <3> QED BY <1>3, <1>4, <3>1
  <2> HIDE DEF u
  <2>2. Len(u) = Len(w) /\ \A j \in 1 .. Len(u) : u[j] = w[j]
    BY <2>1 DEF n
  <2> QED BY <1>1, <2>1, <2>2, SeqEqual DEF u, Str
<1> QED BY <1>3, <1>5

\* render writes out the text of what was emitted.
LEMMA RenderShows ==
  ASSUME Spellings, NEW ids \in Seq(Token)
  PROVE  TextOf(ids) \in Text /\ Render(ids) = Shown(TextOf(ids))
<1> DEFINE n == Len(ids)  s == [i \in DOMAIN ids |-> Spelling(ids[i])]
<1>1. n \in Nat /\ DOMAIN ids = 1 .. n /\ \A k \in 1 .. n : ids[k] \in Token
  BY LenProperties, ElementOfSeq
<1>2. ASSUME NEW t \in Token
      PROVE  Symbols(t) \in Text /\ Spelling(t) = Shown(Symbols(t)) /\ Spelling(t) \in Str
  <2>1. Symbols(t) \in Text /\ Shown(Symbols(t)) \in Str
    <3>1. Symbols(t) \in Text
      BY SymbolsAre
    <3> QED BY <3>1, ShownCat
  <2>2. Spelling(t) = Shown(Symbols(t))
    <3>1. CallOpen # CallClose /\ CallOpen # Quote /\ CallClose # Quote
      BY VocabAssumption
    <3>2. \A c \in Marks : Shown(<<c>>) = Glyph(c)
      BY ShownOne, MarkFacts
    <3>3. CASE t = CallOpen
      <4>1. Symbols(t) = <<Opens>> /\ Spelling(t) = OpenText
        BY <3>1, <3>3 DEF Symbols, Spelling
      <4> QED BY <3>2, <4>1, GlyphIs, MarkFacts
    <3>4. CASE t = CallClose
      <4>1. Symbols(t) = <<Closes>> /\ Spelling(t) = CloseText
        BY <3>1, <3>4 DEF Symbols, Spelling
      <4> QED BY <3>2, <4>1, GlyphIs, MarkFacts
    <3>5. CASE t = Quote
      <4>1. Symbols(t) = <<Quotes>> /\ Spelling(t) = QuoteText
        BY <3>1, <3>5 DEF Symbols, Spelling
      <4> QED BY <3>2, <4>1, GlyphIs, MarkFacts
    <3>6. CASE t \notin Delims
      <4>1. Symbols(t) = VocabBytes(t) /\ Spelling(t) = VocabBytes(t)
        BY <3>6 DEF Symbols, Spelling, Delims
      <4>2. VocabBytes(t) \in Seq(Letter)
        <5>1. /\ VocabBytes(t) \in Seq(Symbol)
              /\ \A i \in 1 .. Len(VocabBytes(t)) : VocabBytes(t)[i] \in Symbol \ Marks
          BY <3>6, SymbolsAre
        <5> DEFINE w == VocabBytes(t)
        <5> HIDE DEF w
        <5>2. w = [i \in 1 .. Len(w) |-> w[i]] /\ Len(w) \in Nat
          BY <5>1, LenProperties DEF w
        <5> QED BY <5>1, <5>2 DEF w, Letter
      <4> QED BY <4>1, <4>2, ShownPlain
    <3> QED BY <3>3, <3>4, <3>5, <3>6 DEF Delims
  <2> QED BY <2>1, <2>2
<1>3. s \in Seq(Str) /\ Len(s) = n /\ \A k \in 1 .. n : s[k] = Spelling(ids[k])
  <2> HIDE DEF n
  <2> QED BY <1>1, <1>2
<1>4. Render(ids) = FlattenSeq(s)
  BY DEF Render
<1> HIDE DEF s
<1>5. PICK f : Flat(Char, s, f)
  BY <1>3, FlatRuns DEF Str
<1>6. /\ Render(ids) = f[n] /\ f[0] = <<>>
      /\ \A k \in 1 .. n : f[k] = f[k - 1] \odot Spelling(ids[k])
  BY <1>3, <1>4, <1>5 DEF Flat
<1>7. PICK h : Spoken(ids, h)
  BY SpokenRuns
<1>8. /\ TextOf(ids) = h[n] /\ h[0] = <<>> /\ \A k \in 0 .. n : h[k] \in Text
      /\ \A k \in 1 .. n : h[k] = h[k - 1] \odot Symbols(ids[k])
  BY <1>7 DEF Spoken
<1> HIDE DEF n
<1>9. \A k \in 0 .. n : f[k] = Shown(h[k])
  <2> DEFINE Q == {k \in 0 .. n : f[k] = Shown(h[k])}
  <2>1. 0 \in Q
    <3>1. Shown(<<>>) = <<>>
      BY ShownPlain, EmptySeq
    <3> QED BY <1>1, <1>6, <1>8, <3>1
  <2>2. ASSUME NEW k \in 1 .. n, k - 1 \in Q PROVE k \in Q
    <3>1. h[k - 1] \in Text /\ Symbols(ids[k]) \in Text /\ Spelling(ids[k]) = Shown(Symbols(ids[k]))
      <4>1. k - 1 \in 0 .. n
        BY <1>1
      <4> QED BY <1>1, <1>2, <1>8, <4>1
    <3>2. Shown(h[k]) = Shown(h[k - 1]) \odot Shown(Symbols(ids[k]))
      BY <1>8, <3>1, ShownCat
    <3>3. f[k] = Shown(h[k])
      BY <1>6, <2>2, <3>1, <3>2
    <3> QED BY <1>1, <3>3
  <2> HIDE DEF Q
  <2>3. \A k \in 0 .. n : k \in Q
    BY <1>1, <2>1, <2>2, UpTo
  <2> QED BY <2>3 DEF Q
<1>10. n \in 0 .. n
  BY <1>1
<1> QED BY <1>6, <1>8, <1>9, <1>10

-----------------------------------------------------------------------------
(* A round of parse_call *)

\* What parse_call takes for granted of the delimiters, of the literals and of the
\* names a tool set uses.
LegibleTool(tool) ==
  /\ tool.name # <<>> /\ Range(tool.name) \subseteq NameChar
  /\ \A i \in 1 .. Len(Required(tool)) : LET key == Required(tool)[i].name
                                         IN  key # <<>> /\ Neat(key) /\ Misses(Colon, key)
Legible ==
  /\ Spellings /\ QuoteText # <<>> /\ OpenText # <<>> /\ CloseText # <<>>
  /\ \A k \in 2 .. Len(QuoteText) : QuoteText[k] # QuoteText[1]
  /\ QuoteText[1] \notin Space \cup Digit \cup {Minus, TrueWord[1], FalseWord[1]}
  /\ QuoteText[Len(QuoteText)] \notin Space
  /\ SpaceByte \in Space /\ Space \cap (Digit \cup {Minus, Comma}) = {}
  /\ \A w \in {TrueWord, FalseWord} : w # <<>> /\ Neat(w) /\ Misses(<<Comma>>, w)
  /\ \A n \in DOMAIN ToolSets : \A i \in 1 .. Len(ToolSets[n]) : LegibleTool(ToolSets[n][i])

\* The parser's state between two rounds.
Left(rest, args) == [rest |-> rest, args |-> args, ok |-> TRUE]

CutKey(rest)  == Trim(SubSeq(rest, 1, Find(rest, Colon) - 1))
CutVal(rest)  == TrimStart(From(rest, Find(rest, Colon) + 1))
CutBody(val)  == From(val, Len(QuoteText) + 1)
CutWord(body) == SubSeq(body, 1, Find(body, QuoteText) - 1)
CutPast(body) == TrimStart(From(body, Find(body, QuoteText) + Len(QuoteText)))
CutBare(val)  == Trim(SubSeq(val, 1, Find(val, <<Comma>>) - 1))
CutOff(val)   == TrimStart(From(val, Find(val, <<Comma>>)))
GoOn(after)   == IF after = <<>> THEN <<>> ELSE TrimStart(Tail(after))

\* What a round that finds an argument does.
Taken(was, r, a) == [was EXCEPT !.rest = r, !.args = Append(@, a)]

LEMMA LeftIs ==
  \A rest, args, r, a :
     /\ Left(rest, args).rest = rest /\ Left(rest, args).args = args
     /\ Taken(Left(rest, args), r, a) = Left(r, Append(args, a))
<1> DEFINE L(rest, args, ok) == [rest |-> rest, args |-> args, ok |-> ok]
           R(s, r) == [s EXCEPT !.rest = r]
           A(s, r) == [s EXCEPT !.args = r]
           yes == TRUE
<1>1. \A rest, args, ok, r : R(L(rest, args, ok), r) = L(r, args, ok)
  OBVIOUS
<1>2. \A rest, args, ok, r : A(L(rest, args, ok), r) = L(rest, r, ok)
  OBVIOUS
<1>3. \A rest, args, ok : L(rest, args, ok).rest = rest /\ L(rest, args, ok).args = args
  OBVIOUS
<1>4. \A s, r, a : Taken(s, r, a) = A(R(s, r), Append(s.args, a))
  BY DEF Taken
<1> HIDE DEF L, R, A, yes
<1>5. \A rest, args : Left(rest, args) = L(rest, args, yes)
  BY Zenon DEF Left, L, yes
<1> TAKE rest, args, r, a
<1> DEFINE s == L(rest, args, yes)  more == Append(args, a)
<1>6. s = Left(rest, args) /\ L(r, args, yes) = Left(r, args) /\ L(r, more, yes) = Left(r, more)
  BY <1>5, Zenon
<1>7. R(s, r) = L(r, args, yes) /\ s.rest = rest /\ s.args = args
  BY <1>1, <1>3
<1>8. A(L(r, args, yes), more) = L(r, more, yes)
  BY <1>2
<1>9. Taken(s, r, a) = A(R(s, r), Append(s.args, a))
  BY <1>4
<1> HIDE DEF s
<1> QED BY <1>6, <1>7, <1>8, <1>9, Zenon

LEMMA LeftOk == \A rest, args : Left(rest, args).ok
BY Zenon DEF Left

LEMMA RoundQuotedIs ==
  ASSUME NEW rest, NEW args, ~Absent(rest, Colon), CutKey(rest) # <<>>, IsPrefix(QuoteText, CutVal(rest)),
         ~Absent(CutBody(CutVal(rest)), QuoteText),
         CutPast(CutBody(CutVal(rest))) = <<>> \/ Head(CutPast(CutBody(CutVal(rest)))) = Comma
  PROVE  Round(Left(rest, args)) =
           Left(GoOn(CutPast(CutBody(CutVal(rest)))), Append(args, <<CutKey(rest), CutWord(CutBody(CutVal(rest)))>>))
<1> DEFINE was == Left(rest, args)
<1>1. was.rest = rest
  BY LeftIs
<1> HIDE DEF was
<1>2. Round(was) = Taken(was, GoOn(CutPast(CutBody(CutVal(rest)))), <<CutKey(rest), CutWord(CutBody(CutVal(rest)))>>)
  BY <1>1, Zenon DEF Round, CutKey, CutVal, CutBody, CutWord, CutPast, GoOn, Colon, Comma, Taken
<1> DEFINE r == GoOn(CutPast(CutBody(CutVal(rest))))  a == <<CutKey(rest), CutWord(CutBody(CutVal(rest)))>>
<1> HIDE DEF r, a
<1>3. Taken(Left(rest, args), r, a) = Left(r, Append(args, a))
  BY LeftIs
<1> QED BY <1>2, <1>3, Zenon DEF was, r, a

LEMMA RoundBareIs ==
  ASSUME NEW rest, NEW args, ~Absent(rest, Colon), CutKey(rest) # <<>>, ~IsPrefix(QuoteText, CutVal(rest)),
         ValidScalar(CutBare(CutVal(rest))),
         CutOff(CutVal(rest)) = <<>> \/ Head(CutOff(CutVal(rest))) = Comma
  PROVE  Round(Left(rest, args)) =
           Left(GoOn(CutOff(CutVal(rest))), Append(args, <<CutKey(rest), CutBare(CutVal(rest))>>))
<1> DEFINE was == Left(rest, args)
<1>1. was.rest = rest
  BY LeftIs
<1> HIDE DEF was
<1>2. Round(was) = Taken(was, GoOn(CutOff(CutVal(rest))), <<CutKey(rest), CutBare(CutVal(rest))>>)
  BY <1>1, Zenon DEF Round, CutKey, CutVal, CutBare, CutOff, GoOn, Colon, Comma, Taken
<1> DEFINE r == GoOn(CutOff(CutVal(rest)))  a == <<CutKey(rest), CutBare(CutVal(rest))>>
<1> HIDE DEF r, a
<1>3. Taken(Left(rest, args), r, a) = Left(r, Append(args, a))
  BY LeftIs
<1> QED BY <1>2, <1>3, Zenon DEF was, r, a

-----------------------------------------------------------------------------
(* What parse_call reads of one argument *)

LEMMA BitFacts ==
  ASSUME Spellings
  PROVE  /\ Colon \in Str /\ Len(Colon) = 1 /\ Colon[1] = ":" /\ <<Comma>> \in Str /\ Comma \in Char /\ ":" \in Char
         /\ Colon \in Seq(Letter) /\ Gap \subseteq Seq(Letter) /\ Gap \subseteq Str
         /\ SpaceByte \in Space => \A g \in Gap : \A i \in 1 .. Len(g) : g[i] \in Space
<1>1. ":" \in Letter /\ Comma \in Letter /\ SpaceByte \in Letter
  <2>1. ":" \in Byte
    BY Bytes
  <2> QED BY <2>1, StrFacts, EndBytes, SpaceFacts
<1>2. ":" \in Char /\ Comma \in Char
  BY <1>1, StrFacts
<1>3. Colon \in Str /\ Len(Colon) = 1 /\ Colon[1] = ":" /\ Colon \in Seq(Letter)
  BY <1>1, <1>2, StrOne DEF Colon, Str
<1>4. <<Comma>> \in Str
  BY <1>2, StrOne DEF Str
<1> DEFINE s == <<SpaceByte>>  e == <<>>
<1>5. s \in Seq(Letter) /\ Len(s) = 1 /\ s[1] = SpaceByte
  BY <1>1, StrOne
<1>6. e \in Seq(Letter) /\ Len(e) = 0
  BY EmptySeq
<1>7. Gap = {e, s}
  BY DEF Gap
<1> HIDE DEF s, e
<1>8. Gap \subseteq Seq(Letter) /\ Gap \subseteq Str
  BY <1>5, <1>6, <1>7, StrFacts
<1>9. SpaceByte \in Space => \A g \in Gap : \A i \in 1 .. Len(g) : g[i] \in Space
  <2> SUFFICES ASSUME SpaceByte \in Space, NEW g \in Gap, NEW i \in 1 .. Len(g) PROVE g[i] \in Space
    OBVIOUS
  <2>1. g = s
    <3>1. g # e
      <4>1. g = e => i \in 1 .. 0
        BY <1>6
      <4> QED BY <4>1
    <3> QED BY <1>7, <3>1
  <2>2. i = 1
    <3>1. i \in 1 .. 1
      BY <1>5, <2>1
    <3> QED BY <3>1
  <2> QED BY <1>5, <2>1, <2>2
<1> QED BY <1>2, <1>3, <1>4, <1>8, <1>9

\* A text behind one symbol.
LEMMA TailIs ==
  ASSUME NEW S, NEW c \in S, NEW w \in Seq(S)
  PROVE  /\ <<c>> \odot w \in Seq(S) /\ <<c>> \odot w # <<>> /\ Tail(<<c>> \odot w) = w
         /\ (<<c>> \odot w)[1] = c /\ Len(<<c>> \odot w) = 1 + Len(w)
         /\ \A i \in 1 .. Len(w) : (<<c>> \odot w)[i + 1] = w[i]
<1> DEFINE p == <<c>>  s == p \odot w  n == Len(w)
<1>1. p \in Seq(S) /\ Len(p) = 1 /\ p[1] = c
  BY StrOne
<1> HIDE DEF p
<1>2. s \in Seq(S) /\ Len(s) = 1 + n /\ n \in Nat /\ s[1] = c /\ \A i \in 1 .. n : s[i + 1] = w[i]
  <2>1. Joined(S, p, w)
    BY <1>1, StrCat
  <2>2. 1 \in 1 .. 1
    OBVIOUS
  <2>3. s \in Seq(S) /\ Len(s) = 1 + n /\ n \in Nat /\ s[1] = c /\ \A i \in 1 .. n : s[1 + i] = w[i]
    BY <1>1, <2>1, <2>2 DEF Joined
  <2>4. \A i \in 1 .. n : 1 + i = i + 1
    OBVIOUS
  <2> HIDE DEF s, n
  <2> QED BY <2>3, <2>4
<1> HIDE DEF s
<1>3. s # <<>>
  <2>1. Len(s) # 0
    <3> HIDE DEF n
    <3> QED BY <1>2
  <2> QED BY <2>1, EmptySeq
<1>4. Tail(s) \in Seq(S) /\ Len(Tail(s)) = Len(s) - 1 /\ \A i \in 1 .. Len(Tail(s)) : Tail(s)[i] = s[i + 1]
  BY <1>2, <1>3, HeadTailProperties
<1>5. Tail(s) = w
  <2> DEFINE t == Tail(s)
  <2>1. t \in Seq(S) /\ Len(t) = n /\ \A i \in 1 .. n : t[i] = w[i]
    <3>1. Len(t) = n
      <4> HIDE DEF n
      <4> QED BY <1>2, <1>4
    <3> HIDE DEF t
    <3> QED BY <1>2, <1>4, <3>1 DEF t
  <2> HIDE DEF t
  <2> QED BY <2>1, SeqEqual DEF t, n
<1> QED BY <1>2, <1>3, <1>5 DEF s, p, n

\* Y comes behind a value, and R is what is left when it has been read.
Follows(Y, R) ==
  \/ Y = <<>> /\ R = <<>>
  \/ /\ R \in Str /\ R # <<>> /\ R[1] \notin Space
     /\ \E g \in Gap : Y = <<Comma>> \odot (g \odot R)

LEMMA FollowsIs ==
  ASSUME Legible, NEW Y, NEW R, Follows(Y, R)
  PROVE  /\ Y \in Str /\ R \in Str /\ TrimStart(Y) = Y /\ GoOn(Y) = R
         /\ Y = <<>> \/ Y[1] = Comma
         /\ Y = <<>> \/ Head(Y) = Comma
<1> DEFINE none == <<>>
<1>1. none \in Str /\ Len(none) = 0
  BY StrFacts DEF Legible
<1>2. Comma \notin Space
  BY DEF Legible
<1>3. CASE Y = none /\ R = none
  <2>1. TrimStart(none \odot none) = none
    <3> DEFINE w == none
    <3>1. \A i \in 1 .. Len(none) : none[i] \in Space
      BY <1>1
    <3>2. w \in Seq(Char) /\ none \in Seq(Char) /\ (w # <<>> => w[1] \notin Space)
      BY <1>1 DEF Str
    <3> HIDE DEF w
    <3>3. TrimStart(none \odot w) = w
      <4> HIDE DEF none
      <4> QED BY <3>1, <3>2, TrimStartIs
    <3> QED BY <3>3 DEF w
  <2>2. none \odot none = none
    <3>1. Joined(Char, none, none)
      BY <1>1, StrCat DEF Str
    <3> QED BY <3>1 DEF Joined
  <2> QED BY <1>1, <1>3, <2>1, <2>2 DEF GoOn
<1>4. CASE ~(Y = none /\ R = none)
  <2>1. PICK g \in Gap : Y = <<Comma>> \odot (g \odot R)
    BY <1>4 DEF Follows
  <2>2. R \in Str /\ R # <<>> /\ R[1] \notin Space
    BY <1>4 DEF Follows
  <2> DEFINE c == <<Comma>>  gR == g \odot R
  <2>3. c \in Str /\ Len(c) = 1 /\ c[1] = Comma /\ g \in Str /\ \A i \in 1 .. Len(g) : g[i] \in Space
    BY BitFacts DEF Legible
  <2>4. gR \in Str
    <3>1. Joined(Char, g, R)
      BY <2>2, <2>3, StrCat DEF Str
    <3> QED BY <3>1 DEF Joined, Str
  <2>5. TrimStart(gR) = R
    BY <2>2, <2>3, TrimStartIs DEF Str
  <2> HIDE DEF c, gR
  <2>6. Y = c \odot gR
    BY <2>1 DEF c, gR
  <2>7. Y \in Str /\ Len(Y) = 1 + Len(gR) /\ Y[1] = Comma /\ Len(gR) \in Nat
    <3>1. Joined(Char, c, gR)
      BY <2>3, <2>4, StrCat DEF Str
    <3>2. 1 \in 1 .. 1
      OBVIOUS
    <3> QED BY <2>3, <2>6, <3>1, <3>2 DEF Joined, Str
  <2>8. Y # <<>>
    <3>1. Len(Y) # 0
      BY <2>7
    <3> QED BY <1>1, <3>1
  <2>9. Tail(Y) = gR
    <3>1. Tail(<<Comma>> \odot gR) = gR
      BY <2>4, BitFacts, TailIs DEF Str, Legible
    <3> QED BY <2>6, <3>1 DEF c
  <2>10. TrimStart(Y) = Y
    <3>1. none \odot Y = Y
      <4>1. Joined(Char, Y, Y)
        BY <2>7, StrCat DEF Str
      <4> QED BY <4>1 DEF Joined
    <3>2. \A i \in 1 .. Len(none) : none[i] \in Space
      BY <1>1
    <3>3. TrimStart(none \odot Y) = Y
      <4> HIDE DEF none
      <4> QED BY <1>1, <1>2, <2>7, <3>2, TrimStartIs DEF Str
    <3> QED BY <3>1, <3>3
  <2>11. Head(Y) = Comma
    BY <2>7, <2>8 DEF Str
  <2> QED BY <2>2, <2>5, <2>7, <2>8, <2>9, <2>10, <2>11 DEF GoOn
<1> QED BY <1>3, <1>4

\* The bytes of a key: no colon, no space at its ends.
Key(key) == key \in Seq(Letter) /\ key # <<>> /\ Neat(key) /\ Misses(Colon, key)

LEMMA KeyRead ==
  ASSUME Legible, NEW key, Key(key), NEW w \in Str
  PROVE  LET rest == key \odot (Colon \odot w)
         IN  ~Absent(rest, Colon) /\ CutKey(rest) = key /\ CutVal(rest) = TrimStart(w)
<1> DEFINE c == ":"  t == Colon \odot w  rest == key \odot t  n == Len(key)
<1>1. key \in Str /\ Colon \in Str /\ Len(Colon) = 1 /\ Colon[1] = c /\ c \in Char
  BY StrFacts, BitFacts DEF Key, Legible
<1>2. t \in Str /\ t[1] = c /\ Len(t) = 1 + Len(w) /\ Len(w) \in Nat
  <2>1. Joined(Char, Colon, w)
    BY <1>1, StrCat DEF Str
  <2>2. 1 \in 1 .. 1
    OBVIOUS
  <2> QED BY <1>1, <2>1, <2>2 DEF Joined, Str
<1> HIDE DEF t
<1>3. n \in Nat /\ Len(rest) = n + Len(t) /\ rest \in Str
  <2>1. Joined(Char, key, t)
    BY <1>1, <1>2, StrCat DEF Str
  <2> QED BY <2>1 DEF Joined, Str
<1>4. \A i \in 1 .. n : key[i] # c
  <2> SUFFICES ASSUME NEW i \in 1 .. n, key[i] = c PROVE FALSE
    OBVIOUS
  <2>1. ~Stands(Colon, key, i)
    BY DEF Key, Misses
  <2>2. i + 1 <= n + 1 /\ \A j \in 1 .. 1 : key[i + j - 1] = Colon[j]
    <3>1. i + 1 - 1 = i
      BY <1>3
    <3>2. \A j \in 1 .. 1 : j = 1
      OBVIOUS
    <3> QED BY <1>1, <1>3, <2>1, <3>1, <3>2
  <2> QED BY <1>1, <2>1, <2>2 DEF Stands
<1>5. Find(rest, Colon) = n + 1
  <2>1. Colon = <<c>>
    BY DEF Colon
  <2> HIDE DEF c, rest
  <2>2. Find(key \odot t, <<c>>) = Len(key) + 1
    BY <1>1, <1>2, <1>4, FindByte DEF Str
  <2> QED BY <2>1, <2>2 DEF rest
<1>6. ~Absent(rest, Colon)
  <2> HIDE DEF rest, n
  <2> QED BY <1>2, <1>3, <1>5 DEF Absent
<1>7. SubSeq(rest, 1, n) = key /\ From(rest, n + 1) = t
  BY <1>1, <1>2, Cut DEF Str
<1>8. From(rest, n + 2) = w
  <2> DEFINE kc == key \odot Colon
  <2>1. kc \in Str /\ Len(kc) = n + 1
    <3>1. Joined(Char, key, Colon)
      BY <1>1, StrCat DEF Str
    <3> QED BY <1>1, <3>1 DEF Joined, Str
  <2>2. kc \odot w = rest
    BY <1>1, StrAssoc DEF Str, t
  <2> HIDE DEF kc, rest
  <2>3. From(kc \odot w, Len(kc) + 1) = w
    BY <2>1, Cut DEF Str
  <2>4. Len(kc) + 1 = n + 2
    BY <1>3, <2>1
  <2> QED BY <2>2, <2>3, <2>4
<1>9. Trim(key) = key
  <2> DEFINE e == <<>>
  <2>1. e \in Seq(Char) /\ \A i \in 1 .. Len(e) : e[i] \in Space
    BY EmptySeq
  <2>2. e \odot key = key
    <3>1. Joined(Char, key, key)
      BY <1>1, StrCat DEF Str
    <3> QED BY <3>1 DEF Joined
  <2> HIDE DEF e
  <2>3. Trim(e \odot key) = key
    BY <1>1, <2>1, TrimIs DEF Key, Str
  <2> QED BY <2>2, <2>3
<1> HIDE DEF rest, n
<1>10. (n + 1) - 1 = n /\ (n + 1) + 1 = n + 2
  BY <1>3
<1>11. CutKey(rest) = key
  BY <1>5, <1>7, <1>9, <1>10 DEF CutKey
<1>12. CutVal(rest) = TrimStart(w)
  BY <1>5, <1>8, <1>10 DEF CutVal
<1> QED BY <1>6, <1>11, <1>12 DEF rest, t

\* A quoted value.
LEMMA QuotedRead ==
  ASSUME Legible, NEW key, Key(key), NEW u \in Gap, NEW v \in Seq(Letter), Misses(QuoteText, v),
         NEW Y, NEW R, Follows(Y, R), NEW args
  PROVE  Round(Left(key \odot (Colon \odot (u \odot (QuoteText \odot (v \odot (QuoteText \odot Y))))), args))
           = Left(R, Append(args, <<key, v>>))
<1> DEFINE Q == QuoteText  QY == Q \odot Y  body == v \odot QY  val == Q \odot body  w == u \odot val
           rest == key \odot (Colon \odot w)
<1>1. Q \in Str /\ Q # <<>> /\ Len(Q) \in Nat /\ Len(Q) # 0 /\ v \in Str /\ Y \in Str
  <2>1. Q \in Str /\ Q # <<>> /\ v \in Str
    BY StrFacts DEF Legible
  <2>2. Len(Q) \in Nat /\ Len(Q) # 0
    <3> HIDE DEF Q
    <3> QED BY <2>1, EmptySeq, LenProperties DEF Str
  <2> QED BY <2>1, <2>2, FollowsIs
<1>2. QY \in Str
  <2>1. Joined(Char, Q, Y)
    BY <1>1, StrCat DEF Str
  <2> QED BY <2>1 DEF Joined, Str
<1>3. body \in Str
  <2> HIDE DEF QY
  <2>1. Joined(Char, v, QY)
    BY <1>1, <1>2, StrCat DEF Str
  <2> QED BY <2>1 DEF Joined, Str
<1>4. val \in Str /\ val[1] = Q[1] /\ val # <<>>
  <2> HIDE DEF body
  <2>1. Joined(Char, Q, body)
    BY <1>1, <1>3, StrCat DEF Str
  <2>2. 1 \in 1 .. Len(Q)
    BY <1>1
  <2>3. val \in Str /\ val[1] = Q[1] /\ Len(val) = Len(Q) + Len(body) /\ Len(body) \in Nat
    BY <2>1, <2>2 DEF Joined, Str
  <2>4. val # <<>>
    <3>1. Len(val) # 0
      <4> HIDE DEF val, Q
      <4> QED BY <1>1, <2>3
    <3> HIDE DEF val
    <3> QED BY <3>1, EmptySeq
  <2> QED BY <2>3, <2>4
<1>5. w \in Str /\ TrimStart(w) = val
  <2>1. u \in Str /\ \A i \in 1 .. Len(u) : u[i] \in Space
    BY BitFacts DEF Legible
  <2>2. Q[1] \notin Space
    BY DEF Legible
  <2> HIDE DEF val
  <2>3. Joined(Char, u, val)
    BY <1>4, <2>1, StrCat DEF Str
  <2>4. TrimStart(w) = val
    BY <1>4, <2>1, <2>2, TrimStartIs DEF Str
  <2> QED BY <2>3, <2>4 DEF Joined, Str
<1> HIDE DEF w
<1>6. ~Absent(rest, Colon) /\ CutKey(rest) = key /\ CutVal(rest) = val
  BY <1>5, KeyRead
<1> HIDE DEF rest
<1>7. IsPrefix(Q, val) /\ CutBody(val) = body
  <2> HIDE DEF body
  <2>1. From(Q \odot body, Len(Q) + 1) = body
    BY <1>1, <1>3, Cut DEF Str
  <2>2. Joined(Char, Q, body)
    BY <1>1, <1>3, StrCat DEF Str
  <2>3. Len(Q) <= Len(val) /\ \A j \in 1 .. Len(Q) : val[j] = Q[j]
    <3>1. Len(val) = Len(Q) + Len(body) /\ Len(body) \in Nat /\ \A j \in 1 .. Len(Q) : val[j] = Q[j]
      BY <2>2 DEF Joined
    <3> HIDE DEF val, Q
    <3> QED BY <1>1, <3>1
  <2>4. IsPrefix(Q, val)
    <3> HIDE DEF val, Q
    <3> QED BY <1>1, <1>4, <2>3, PrefixAt DEF Str
  <2> QED BY <2>1, <2>4 DEF CutBody
<1>8. Find(body, Q) = Len(v) + 1 /\ ~Absent(body, Q)
  <2>1. \A k \in 2 .. Len(Q) : Q[k] # Q[1]
    BY DEF Legible
  <2> HIDE DEF Q
  <2>2. /\ Find(v \odot (Q \odot Y), Q) = Len(v) + 1
        /\ ~Absent(v \odot (Q \odot Y), Q)
    <3>1. Misses(Q, v)
      BY DEF Q
    <3> QED BY <1>1, <2>1, <3>1, FindText DEF Str
  <2> QED BY <2>2
<1>9. SubSeq(body, 1, Len(v)) = v /\ From(body, (Len(v) + 1) + Len(Q)) = Y
  <2>1. SubSeq(body, 1, Len(v)) = v
    <3> HIDE DEF QY
    <3> QED BY <1>1, <1>2, Cut DEF Str
  <2> DEFINE vQ == v \odot Q
  <2>2. vQ \in Str /\ Len(vQ) = Len(v) + Len(Q) /\ Len(v) \in Nat
    <3>1. Joined(Char, v, Q)
      BY <1>1, StrCat DEF Str
    <3> QED BY <3>1 DEF Joined, Str
  <2>3. vQ \odot Y = body
    BY <1>1, StrAssoc DEF Str
  <2> HIDE DEF vQ, body, Q
  <2>4. From(vQ \odot Y, Len(vQ) + 1) = Y
    BY <1>1, <2>2, Cut DEF Str
  <2>5. Len(vQ) + 1 = (Len(v) + 1) + Len(Q)
    BY <1>1, <2>2
  <2> QED BY <2>1, <2>3, <2>4, <2>5
<1> HIDE DEF body, val
<1>10. CutWord(body) = v /\ CutPast(body) = Y
  <2>1. TrimStart(Y) = Y /\ Len(v) \in Nat
    BY <1>1, FollowsIs, LenProperties DEF Str
  <2>2. (Len(v) + 1) - 1 = Len(v)
    BY <2>1
  <2> QED BY <1>8, <1>9, <2>1, <2>2 DEF CutWord, CutPast
<1>11. (Y = <<>> \/ Head(Y) = Comma) /\ GoOn(Y) = R
  BY FollowsIs
<1>12. key # <<>>
  BY DEF Key
<1>13. Round(Left(rest, args)) =
         Left(GoOn(CutPast(CutBody(CutVal(rest)))), Append(args, <<CutKey(rest), CutWord(CutBody(CutVal(rest)))>>))
  BY <1>6, <1>7, <1>8, <1>10, <1>11, <1>12, RoundQuotedIs
<1> QED BY <1>6, <1>7, <1>10, <1>11, <1>13 DEF rest, w, val, body

\* A value without quotes.
Bare(v) ==
  /\ v \in Seq(Letter) /\ v # <<>> /\ Neat(v) /\ Misses(<<Comma>>, v)
  /\ v[1] # QuoteText[1] /\ ValidScalar(v)

LEMMA BareRead ==
  ASSUME Legible, NEW key, Key(key), NEW u \in Gap, NEW v, Bare(v), NEW Y, NEW R, Follows(Y, R), NEW args
  PROVE  Round(Left(key \odot (Colon \odot (u \odot (v \odot Y))), args)) = Left(R, Append(args, <<key, v>>))
<1> DEFINE val == v \odot Y  w == u \odot val  rest == key \odot (Colon \odot w)  n == Len(v)
<1>1. v \in Str /\ v # <<>> /\ n \in Nat /\ n # 0 /\ Y \in Str /\ Len(Y) \in Nat
  <2>1. v \in Str /\ v # <<>> /\ Y \in Str
    BY StrFacts, FollowsIs DEF Bare, Legible
  <2> QED BY <2>1, EmptySeq, LenProperties DEF Str
<1>2. val \in Str /\ val[1] = v[1] /\ Len(val) = n + Len(Y) /\ \A i \in 1 .. Len(v) : v[i] \in Char
  <2>1. Joined(Char, v, Y)
    BY <1>1, StrCat DEF Str
  <2>2. 1 \in 1 .. n
    BY <1>1
  <2> QED BY <2>1, <2>2 DEF Joined, Str
<1> HIDE DEF n
<1>3. w \in Str /\ TrimStart(w) = val
  <2>1. u \in Str /\ \A i \in 1 .. Len(u) : u[i] \in Space
    BY BitFacts DEF Legible
  <2>2. v[1] \notin Space
    BY DEF Bare, Neat
  <2> HIDE DEF val
  <2>3. Joined(Char, u, val)
    BY <1>2, <2>1, StrCat DEF Str
  <2>4. TrimStart(w) = val
    BY <1>2, <2>1, <2>2, TrimStartIs DEF Str
  <2> QED BY <2>3, <2>4 DEF Joined, Str
<1> HIDE DEF w
<1>4. ~Absent(rest, Colon) /\ CutKey(rest) = key /\ CutVal(rest) = val
  BY <1>3, KeyRead
<1> HIDE DEF rest
<1>5. ~IsPrefix(QuoteText, val)
  <2>1. QuoteText \in Str /\ QuoteText # <<>>
    BY StrFacts DEF Legible
  <2>2. 1 \in 1 .. Len(QuoteText)
    <3>1. Len(QuoteText) \in Nat /\ Len(QuoteText) # 0
      BY <2>1, EmptySeq, LenProperties DEF Str
    <3> QED BY <3>1
  <2>3. val[1] # QuoteText[1]
    BY <1>2 DEF Bare
  <2> HIDE DEF val
  <2>4. IsPrefix(QuoteText, val) <=> Len(QuoteText) <= Len(val) /\ \A j \in 1 .. Len(QuoteText) : val[j] = QuoteText[j]
    BY <1>2, <2>1, PrefixAt DEF Str
  <2> QED BY <2>2, <2>3, <2>4
<1>6. Find(val, <<Comma>>) = n + 1
  <2> DEFINE c == Comma
  <2>1. \A i \in 1 .. Len(v) : v[i] # c
    <3> SUFFICES ASSUME NEW i \in 1 .. Len(v), v[i] = c PROVE FALSE
      OBVIOUS
    <3>1. c \in Char
      BY BitFacts DEF Legible
    <3> HIDE DEF c
    <3> DEFINE p == <<c>>
    <3>2. Len(p) = 1 /\ p[1] = c
      BY <3>1, StrOne
    <3> HIDE DEF p
    <3>3. ~Stands(p, v, i)
      BY DEF Bare, Misses, p, c
    <3>4. i + 1 <= Len(v) + 1 /\ i + 1 - 1 = i
      BY <1>1 DEF n
    <3>5. \A j \in 1 .. 1 : v[i + j - 1] = p[j]
      <4>1. \A j \in 1 .. 1 : j = 1
        OBVIOUS
      <4> QED BY <3>2, <3>4, <4>1
    <3> QED BY <3>2, <3>3, <3>4, <3>5 DEF Stands
  <2>2. c \in Char /\ (Y = <<>> \/ Y[1] = c)
    BY BitFacts, FollowsIs DEF Legible
  <2> HIDE DEF c
  <2>3. Find(v \odot Y, <<c>>) = Len(v) + 1
    BY <1>1, <2>1, <2>2, FindByte DEF Str
  <2> QED BY <2>3 DEF c, n
<1>7. SubSeq(val, 1, n) = v /\ From(val, n + 1) = Y
  BY <1>1, Cut DEF Str, n
<1>8. Trim(v) = v
  <2> DEFINE e == <<>>
  <2>1. e \in Seq(Char) /\ \A i \in 1 .. Len(e) : e[i] \in Space
    BY EmptySeq
  <2>2. e \odot v = v
    <3>1. Joined(Char, v, v)
      BY <1>1, StrCat DEF Str
    <3> QED BY <3>1 DEF Joined
  <2> HIDE DEF e
  <2>3. Trim(e \odot v) = v
    BY <1>1, <2>1, TrimIs DEF Bare, Str
  <2> QED BY <2>2, <2>3
<1> HIDE DEF val
<1>9. CutBare(val) = v /\ CutOff(val) = Y
  <2>1. (n + 1) - 1 = n
    BY <1>1
  <2>2. TrimStart(Y) = Y
    BY FollowsIs
  <2> QED BY <1>6, <1>7, <1>8, <2>1, <2>2 DEF CutBare, CutOff
<1>10. (Y = <<>> \/ Head(Y) = Comma) /\ GoOn(Y) = R
  BY FollowsIs
<1>11. key # <<>> /\ ValidScalar(v)
  BY DEF Key, Bare
<1>12. Round(Left(rest, args)) =
         Left(GoOn(CutOff(CutVal(rest))), Append(args, <<CutKey(rest), CutBare(CutVal(rest))>>))
  BY <1>4, <1>5, <1>9, <1>10, <1>11, RoundBareIs
<1> QED BY <1>4, <1>9, <1>10, <1>12 DEF rest, w, val

-----------------------------------------------------------------------------
(* The values without quotes *)

Scalar(u) ==
  \/ Digits(u)
  \/ \E i \in DOMAIN u : u[i] = Dot /\ Digits(SubSeq(u, 1, i - 1)) /\ Digits(From(u, i + 1))

LEMMA ScalarIs ==
  \A v : ValidScalar(v) <=> v \in {TrueWord, FalseWord} \/ Scalar(IF IsPrefix(<<Minus>>, v) THEN Tail(v) ELSE v)
BY Zenon DEF ValidScalar, Scalar, Minus, Dot

\* A number without its sign.
Numeral(a) ==
  /\ a \in Seq(Digit \cup {Dot}) /\ Len(a) \in Nat /\ Len(a) # 0
  /\ a[1] \in Digit /\ a[Len(a)] \in Digit /\ Scalar(a)

LEMMA DigitsAre ==
  ASSUME AllWords, NEW a \in NatWords
  PROVE  a \in Seq(Digit) /\ Len(a) \in Nat /\ Len(a) # 0 /\ Digits(a) /\ \A i \in 1 .. Len(a) : a[i] \in Digit
<1>1. a \in Seq(Digit) /\ a # <<>>
  BY DEF AllWords
<1>2. Len(a) \in Nat /\ Len(a) # 0 /\ DOMAIN a = 1 .. Len(a) /\ \A i \in 1 .. Len(a) : a[i] \in Digit
  BY <1>1, EmptySeq, LenProperties, ElementOfSeq
<1>3. Range(a) \subseteq Digit
  BY <1>2 DEF Range
<1> QED BY <1>1, <1>2, <1>3 DEF Digits

LEMMA UnsignedNumeral ==
  ASSUME AllWords, NEW frac, NEW a \in Unsigned(frac)
  PROVE  Numeral(a)
<1> DEFINE S == Digit \cup {Dot}
<1>1. CASE a \in NatWords
  <2>1. a \in Seq(Digit) /\ Len(a) \in Nat /\ Len(a) # 0 /\ Digits(a) /\ \A i \in 1 .. Len(a) : a[i] \in Digit
    BY <1>1, DigitsAre
  <2>2. 1 \in 1 .. Len(a) /\ Len(a) \in 1 .. Len(a)
    BY <2>1
  <2>3. a \in Seq(S)
    BY <2>1, SeqMonotonic
  <2> QED BY <2>1, <2>2, <2>3 DEF Numeral, Scalar
<1>2. CASE a \in Fractions
  <2>1. PICK x \in NatWords, y \in NatWords : a = (x \odot <<Dot>>) \odot y
    BY <1>2 DEF Fractions
  <2> DEFINE d == <<Dot>>  xd == x \odot d  m == Len(x)  n == Len(y)
  <2>2. /\ x \in Seq(Digit) /\ m \in Nat /\ m # 0 /\ Digits(x) /\ \A i \in 1 .. m : x[i] \in Digit
        /\ y \in Seq(Digit) /\ n \in Nat /\ n # 0 /\ Digits(y) /\ \A i \in 1 .. n : y[i] \in Digit
    BY DigitsAre
  <2>3. x \in Seq(S) /\ y \in Seq(S) /\ d \in Seq(S) /\ Len(d) = 1 /\ d[1] = Dot
    <3>1. x \in Seq(S) /\ y \in Seq(S)
      BY <2>2, SeqMonotonic
    <3>2. Dot \in S
      OBVIOUS
    <3> HIDE DEF S
    <3> QED BY <3>1, <3>2, StrOne
  <2> HIDE DEF S, d
  <2>4. /\ xd \in Seq(S) /\ Len(xd) = m + 1 /\ xd[m + 1] = Dot /\ \A i \in 1 .. m : xd[i] = x[i]
    <3>1. Joined(S, x, d)
      BY <2>3, StrCat
    <3>2. 1 \in 1 .. 1
      OBVIOUS
    <3> QED BY <2>3, <3>1, <3>2 DEF Joined
  <2> HIDE DEF xd
  <2>5. a = xd \odot y
    BY <2>1 DEF xd, d
  <2>6. /\ a \in Seq(S) /\ Len(a) = (m + 1) + n /\ \A i \in 1 .. m + 1 : a[i] = xd[i]
        /\ \A i \in 1 .. n : a[(m + 1) + i] = y[i]
    <3>1. Joined(S, xd, y)
      BY <2>3, <2>4, StrCat
    <3> QED BY <2>4, <2>5, <3>1 DEF Joined
  <2>7. From(a, (m + 1) + 1) = y
    BY <2>3, <2>4, <2>5, Cut
  <2>8. SubSeq(a, 1, m) = x
    <3> DEFINE dy == d \odot y
    <3>1. dy \in Seq(S)
      <4>1. Joined(S, d, y)
        BY <2>3, StrCat
      <4> QED BY <4>1 DEF Joined
    <3>2. a = x \odot dy
      BY <2>3, <2>5, StrAssoc DEF xd
    <3> HIDE DEF dy
    <3> QED BY <2>3, <3>1, <3>2, Cut
  <2> HIDE DEF m, n
  <2>9. /\ m + 1 \in 1 .. Len(a) /\ (m + 1) - 1 = m /\ 1 \in 1 .. m /\ n \in 1 .. n /\ Len(a) = (m + 1) + n
        /\ 1 \in 1 .. m + 1 /\ m + 1 \in 1 .. m + 1 /\ Len(a) \in Nat /\ Len(a) # 0 /\ DOMAIN a = 1 .. Len(a)
    <3>1. Len(a) = (m + 1) + n
      BY <2>6
    <3>2. DOMAIN a = 1 .. Len(a)
      BY <2>6, LenProperties
    <3> QED BY <2>2, <3>1, <3>2
  <2>10. a[1] = x[1] /\ a[m + 1] = Dot /\ a[Len(a)] = y[n]
    BY <2>4, <2>6, <2>9
  <2>11. Scalar(a)
    <3> DEFINE k == m + 1
    <3>1. k \in DOMAIN a /\ a[k] = Dot /\ Digits(SubSeq(a, 1, k - 1)) /\ Digits(From(a, k + 1))
      BY <2>2, <2>7, <2>8, <2>9, <2>10
    <3> HIDE DEF k
    <3> QED BY <3>1 DEF Scalar
  <2>12. a[1] \in Digit /\ a[Len(a)] \in Digit
    BY <2>2, <2>9, <2>10
  <2> QED BY <2>6, <2>9, <2>11, <2>12 DEF Numeral, S
<1>3. a \in NatWords \/ a \in Fractions
  BY DEF Unsigned
<1> QED BY <1>1, <1>2, <1>3

LEMMA NumeralBare ==
  ASSUME Legible, NEW a, Numeral(a)
  PROVE  Bare(a) /\ Bare(<<Minus>> \odot a)
<1> DEFINE S == Digit \cup {Dot, Minus}
<1>1. /\ Digit \subseteq Letter /\ Minus \in Letter /\ Dot \in Letter /\ Minus \notin Digit /\ Minus # Dot
      /\ Comma \notin Digit /\ Comma # Minus /\ Comma # Dot
  <2>1. Minus # Dot /\ Comma # Minus /\ Comma # Dot
    BY Zenon DEF Minus, Comma, Dot
  <2>2. Spellings
    BY DEF Legible
  <2>3. Comma \notin Digit
    BY EndBytes DEF ExitByte
  <2> QED BY <2>1, <2>2, <2>3, StrFacts, NumberBytes
<1>2. /\ QuoteText[1] \notin Digit /\ QuoteText[1] # Minus /\ \A c \in Digit : c \notin Space /\ Minus \notin Space
  BY DEF Legible
<1>3. ASSUME NEW v \in Seq(S), Len(v) \in Nat, Len(v) # 0, v[1] \in Digit \cup {Minus}, v[Len(v)] \in Digit, ValidScalar(v)
      PROVE  Bare(v)
  <2>1. v \in Seq(Letter)
    <3>1. S \subseteq Letter
      BY <1>1
    <3> HIDE DEF S
    <3> QED BY <1>3, <3>1, SeqMonotonic
  <2>2. v # <<>>
    BY <1>3, EmptySeq
  <2>3. Neat(v)
    BY <1>2, <1>3 DEF Neat
  <2>4. \A i \in 1 .. Len(v) : v[i] # Comma
    <3>1. \A i \in 1 .. Len(v) : v[i] \in S
      <4> HIDE DEF S
      <4> QED BY <1>3, ElementOfSeq
    <3> QED BY <1>1, <3>1
  <2>5. Misses(<<Comma>>, v)
    <3> SUFFICES ASSUME NEW i \in 1 .. Len(v), Stands(<<Comma>>, v, i) PROVE FALSE
      BY DEF Misses
    <3> DEFINE p == <<Comma>>
    <3>1. Len(p) = 1 /\ p[1] = Comma
      BY <1>1, StrOne, EndBytes
    <3>2. \A j \in 1 .. Len(p) : v[i + j - 1] = p[j]
      BY DEF Stands
    <3> HIDE DEF p
    <3>3. 1 \in 1 .. 1 /\ i + 1 - 1 = i
      BY <1>3
    <3>4. v[i] = Comma
      BY <3>1, <3>2, <3>3
    <3> QED BY <2>4, <3>4
  <2>6. v[1] # QuoteText[1]
    BY <1>2, <1>3
  <2> QED BY <1>3, <2>1, <2>2, <2>3, <2>5, <2>6 DEF Bare
<1>4. a \in Seq(S) /\ Len(a) \in Nat /\ Len(a) # 0 /\ a[1] \in Digit /\ a[Len(a)] \in Digit /\ Scalar(a)
  <2>1. Digit \cup {Dot} \subseteq S
    OBVIOUS
  <2> HIDE DEF S
  <2> QED BY <2>1, SeqMonotonic DEF Numeral
<1> DEFINE p == <<Minus>>  v == p \odot a
<1>5. p \in Seq(S) /\ Len(p) = 1 /\ p[1] = Minus
  <2>1. Minus \in S
    OBVIOUS
  <2> HIDE DEF S
  <2> QED BY <2>1, StrOne
<1>6. /\ v \in Seq(S) /\ v # <<>> /\ Tail(v) = a /\ v[1] = Minus /\ Len(v) = 1 + Len(a) /\ v[Len(a) + 1] = a[Len(a)]
  <2>1. Minus \in S /\ Len(a) \in 1 .. Len(a)
    BY <1>4
  <2> HIDE DEF S
  <2> DEFINE c == Minus
  <2> HIDE DEF c
  <2>2. /\ <<c>> \odot a \in Seq(S) /\ <<c>> \odot a # <<>> /\ Tail(<<c>> \odot a) = a
        /\ (<<c>> \odot a)[1] = c /\ Len(<<c>> \odot a) = 1 + Len(a)
    BY <1>4, <2>1, TailIs DEF c
  <2>3. \A i \in 1 .. Len(a) : (<<c>> \odot a)[i + 1] = a[i]
    BY <1>4, <2>1, TailIs DEF c
  <2> QED BY <2>1, <2>2, <2>3 DEF c
<1> HIDE DEF p, v
<1>7. ~IsPrefix(p, a) /\ IsPrefix(p, v)
  <2>1. 1 <= Len(a) /\ Len(v) \in Nat /\ 1 <= Len(v) /\ Len(v) # 0 /\ 1 \in 1 .. 1
    BY <1>4, <1>6
  <2> HIDE DEF S
  <2>2. IsPrefix(p, a) <=> Len(p) <= Len(a) /\ \A j \in 1 .. Len(p) : a[j] = p[j]
    BY <1>4, <1>5, PrefixAt
  <2>3. IsPrefix(p, v) <=> Len(p) <= Len(v) /\ \A j \in 1 .. Len(p) : v[j] = p[j]
    BY <1>5, <1>6, PrefixAt
  <2>4. a[1] # Minus
    BY <1>1, <1>4
  <2>5. ~IsPrefix(p, a)
    BY <1>5, <2>1, <2>2, <2>4
  <2>6. \A j \in 1 .. Len(p) : v[j] = p[j]
    <3>1. \A j \in 1 .. 1 : j = 1
      OBVIOUS
    <3> QED BY <1>5, <1>6, <3>1
  <2> QED BY <1>5, <2>1, <2>3, <2>5, <2>6
<1>8. ValidScalar(a) /\ ValidScalar(v)
  <2>1. ValidScalar(a)
    BY <1>4, <1>7, ScalarIs, Zenon DEF p
  <2>2. Scalar(Tail(v))
    BY <1>4, <1>6
  <2> QED BY <2>1, <2>2, <1>7, ScalarIs, Zenon DEF p
<1>9. Bare(a)
  BY <1>3, <1>4, <1>8
<1>10. Bare(v)
  <2>1. Len(v) \in Nat /\ Len(v) # 0 /\ Len(v) = Len(a) + 1
    BY <1>4, <1>6
  <2>2. v[Len(v)] \in Digit
    BY <1>4, <1>6, <2>1
  <2>3. v \in Seq(S) /\ v[1] \in Digit \cup {Minus}
    BY <1>6
  <2> HIDE DEF S
  <2> QED BY <1>3, <1>8, <2>1, <2>2, <2>3
<1> QED BY <1>9, <1>10 DEF v, p

LEMMA BareValues ==
  ASSUME AllWords, Legible, NEW ty, ty.kind \in {"bool", "int", "num"}, NEW v \in ValuesOf(ty)
  PROVE  Bare(v)
<1>1. ASSUME NEW frac, v \in Num(frac) PROVE Bare(v)
  <2>1. CASE v \in Unsigned(frac)
    BY <2>1, UnsignedNumeral, NumeralBare
  <2>2. CASE v \in Before({Minus}, Unsigned(frac))
    <3>1. PICK a \in Unsigned(frac) : v = <<Minus>> \odot a
      BY <2>2 DEF Before
    <3>2. Numeral(a)
      BY UnsignedNumeral
    <3> QED BY <3>1, <3>2, NumeralBare
  <2> QED BY <1>1, <2>1, <2>2, NumIs
<1>2. CASE ty.kind = "bool"
  <2>1. v \in {TrueWord, FalseWord}
    BY <1>2 DEF ValuesOf
  <2>2. v \in Seq(Letter)
    <3>1. Spellings
      BY DEF Legible
    <3> QED BY <2>1, <3>1, Bytes, StrFacts
  <2>3. ValidScalar(v)
    BY <2>1, ScalarIs, Zenon
  <2>4. v # <<>> /\ Neat(v) /\ Misses(<<Comma>>, v) /\ v[1] # QuoteText[1]
    BY <2>1 DEF Legible
  <2> QED BY <2>2, <2>3, <2>4 DEF Bare
<1>3. CASE ty.kind = "int"
  BY <1>1, <1>3 DEF ValuesOf
<1>4. CASE ty.kind = "num"
  BY <1>1, <1>4 DEF ValuesOf
<1> QED BY <1>2, <1>3, <1>4

-----------------------------------------------------------------------------
(* The loop of parse_call *)

Step(was) == IF ~was.ok \/ was.rest = <<>> THEN was ELSE Round(was)
\* f gives the first n states of the loop.
Rounds(f, text, n) == f[0] = Left(text, <<>>) /\ \A k \in 1 .. n : f[k] = Step(f[k - 1])
\* After i rounds the loop is in st.
Reaches(text, i, st) == \A f : Rounds(f, text, i) => f[i] = st

LEMMA ParseRuns ==
  ASSUME NEW text, Len(text) \in Nat
  PROVE  \E f : ParseArgs(text) = f[Len(text)] /\ Rounds(f, text, Len(text))
<1> DEFINE n == Len(text)
           first == Left(text, <<>>)
           IsRun(f) == f = [k \in 0 .. n |-> IF k = 0 THEN [rest |-> text, args |-> <<>>, ok |-> TRUE]
                              ELSE LET was == f[k - 1]
                                   IN  IF ~was.ok \/ was.rest = <<>> THEN was ELSE Round(was)]
           run == CHOOSE f : IsRun(f)
<1>1. ParseArgs(text) = run[n]
  BY Zenon DEF ParseArgs
<1>2. \A f : IsRun(f) <=> f = [k \in 0 .. n |-> IF k = 0 THEN first ELSE Step(f[k - 1])]
  BY Zenon DEF Step, Left
<1> HIDE DEF IsRun, first
<1>3. n \in Nat
  OBVIOUS
<1> HIDE DEF n
<1> DEFINE Part(k, f) == f[0] = first /\ \A i \in 1 .. k : f[i] = Step(f[i - 1])
           T == {k \in 0 .. n : \E f : Part(k, f)}
<1>4. 0 \in T
  <2> DEFINE f == [i \in 0 .. n |-> first]
  <2>1. f[0] = first
    BY <1>3
  <2> HIDE DEF f
  <2>2. Part(0, f)
    BY <2>1
  <2> QED BY <2>2, <1>3
<1>5. ASSUME NEW k \in 1 .. n, k - 1 \in T PROVE k \in T
  <2>1. PICK f : Part(k - 1, f)
    BY <1>5
  <2> DEFINE g == [i \in 0 .. n |-> IF i < k THEN f[i] ELSE Step(f[k - 1])]
  <2>2. \A i \in 0 .. n : g[i] = IF i < k THEN f[i] ELSE Step(f[k - 1])
    OBVIOUS
  <2> HIDE DEF g
  <2>3. g[0] = first
    BY <1>3, <2>1, <2>2
  <2>4. ASSUME NEW i \in 1 .. k PROVE g[i] = Step(g[i - 1])
    <3>1. g[i - 1] = f[i - 1]
      BY <1>3, <2>2
    <3>2. CASE i = k
      BY <1>3, <2>2, <3>1, <3>2
    <3>3. CASE i # k
      <4>1. g[i] = f[i] /\ i \in 1 .. k - 1
        BY <1>3, <2>2, <3>3
      <4> QED BY <2>1, <3>1, <4>1
    <3> QED BY <3>2, <3>3
  <2>5. Part(k, g)
    BY <2>3, <2>4
  <2> HIDE DEF Part
  <2> QED BY <2>5, <1>3
<1> HIDE DEF T
<1>6. n \in T
  <2>1. \A k \in 0 .. n : k \in T
    BY <1>3, <1>4, <1>5, UpTo
  <2> QED BY <2>1, <1>3
<1>7. PICK f : Part(n, f)
  BY <1>6 DEF T
<1> DEFINE g == [i \in 0 .. n |-> f[i]]
<1>8. g = [i \in 0 .. n |-> IF i = 0 THEN first ELSE Step(g[i - 1])]
  <2>1. ASSUME NEW i \in 0 .. n PROVE f[i] = IF i = 0 THEN first ELSE Step(g[i - 1])
    <3>1. CASE i = 0
      BY <1>7, <3>1
    <3>2. CASE i # 0
      <4>1. i \in 1 .. n /\ i - 1 \in 0 .. n
        BY <1>3, <3>2
      <4> QED BY <1>7, <3>2, <4>1
    <3> QED BY <3>1, <3>2
  <2> QED BY <2>1
<1> HIDE DEF g
<1>9. IsRun(run)
  <2>1. IsRun(g)
    BY <1>2, <1>8
  <2> QED BY <2>1, Zenon
<1> HIDE DEF run
<1>10. run[0] = first /\ \A i \in 1 .. n : run[i] = Step(run[i - 1])
  <2>1. run = [i \in 0 .. n |-> IF i = 0 THEN first ELSE Step(run[i - 1])]
    BY <1>2, <1>9
  <2> QED BY <1>3, <2>1
<1>11. Rounds(run, text, n)
  BY <1>10 DEF Rounds, first
<1> QED BY <1>1, <1>11 DEF n

LEMMA ReachFirst == \A text : Reaches(text, 0, Left(text, <<>>))
BY DEF Reaches, Rounds

LEMMA ReachNext ==
  ASSUME NEW text, NEW i \in Nat, NEW rest, NEW args, Reaches(text, i, Left(rest, args)), rest # <<>>,
         NEW st, Round(Left(rest, args)) = st
  PROVE  Reaches(text, i + 1, st)
<1> SUFFICES ASSUME NEW f, Rounds(f, text, i + 1) PROVE f[i + 1] = st
  BY DEF Reaches
<1>1. Rounds(f, text, i) /\ f[i + 1] = Step(f[i])
  BY DEF Rounds
<1>2. f[i] = Left(rest, args)
  BY <1>1 DEF Reaches
<1>3. Left(rest, args).ok
  BY LeftOk, Zenon
<1>4. Left(rest, args).rest = rest
  BY LeftIs
<1>5. Step(Left(rest, args)) = Round(Left(rest, args))
  BY <1>3, <1>4, Zenon DEF Step
<1> QED BY <1>1, <1>2, <1>5

LEMMA ParseEnds ==
  ASSUME NEW text, Len(text) \in Nat, NEW i \in 0 .. Len(text), NEW args, Reaches(text, i, Left(<<>>, args))
  PROVE  ParseArgs(text) = Left(<<>>, args)
<1> DEFINE n == Len(text)  st == Left(<<>>, args)
<1>1. PICK f : ParseArgs(text) = f[n] /\ Rounds(f, text, n)
  BY ParseRuns
<1>2. n \in Nat /\ i \in 0 .. n
  OBVIOUS
<1> HIDE DEF n
<1>3. f[i] = st
  <2>1. Rounds(f, text, i)
    BY <1>1, <1>2 DEF Rounds
  <2> QED BY <2>1 DEF Reaches
<1>4. Step(st) = st
  <2>1. st.rest = <<>>
    BY LeftIs
  <2> HIDE DEF st
  <2> QED BY <2>1, Zenon DEF Step
<1> HIDE DEF st
<1> DEFINE T == {k \in 0 .. n : k >= i => f[k] = st}
<1>5. 0 \in T
  BY <1>2, <1>3
<1>6. ASSUME NEW k \in 1 .. n, k - 1 \in T PROVE k \in T
  <2>1. f[k] = Step(f[k - 1])
    BY <1>1 DEF Rounds
  <2>2. CASE k >= i /\ k # i
    <3>1. f[k - 1] = st
      BY <1>2, <1>6, <2>2
    <3> QED BY <1>2, <1>4, <2>1, <3>1
  <2>3. CASE ~(k >= i /\ k # i)
    BY <1>2, <1>3, <2>3
  <2> QED BY <2>2, <2>3
<1> HIDE DEF T
<1>7. \A k \in 0 .. n : k \in T
  BY <1>2, <1>5, <1>6, UpTo
<1>8. f[n] = st
  BY <1>2, <1>7 DEF T
<1> QED BY <1>1, <1>8 DEF st

-----------------------------------------------------------------------------
(* One argument, as render writes it *)

LEMMA ShownAfter ==
  ASSUME Spellings, NEW u \in Seq(Letter), NEW v \in Text
  PROVE  u \odot v \in Text /\ Shown(v) \in Str /\ u \odot Shown(v) \in Str /\ Shown(u \odot v) = u \odot Shown(v)
<1>1. u \in Text /\ u \in Str /\ Shown(u) = u
  BY StrFacts, ShownPlain
<1>2. Shown(v) \in Str /\ Shown(u \odot v) = Shown(u) \odot Shown(v)
  BY <1>1, ShownCat
<1>3. Joined(Char, u, Shown(v))
  BY <1>1, <1>2, StrCat DEF Str
<1>4. u \odot Shown(v) \in Str
  BY <1>3 DEF Joined, Str
<1>5. u \odot v \in Text
  BY <1>1, TextFacts
<1> QED BY <1>1, <1>2, <1>4, <1>5

LEMMA ValueLetters ==
  ASSUME AllWords, Legible, NEW ty, IsType(ty), NEW v \in ValuesOf(ty)
  PROVE  v \in Seq(Letter)
<1>1. Spellings
  BY DEF Legible
<1>2. CASE ty.kind = "str"
  BY <1>1, <1>2, StrFacts DEF ValuesOf, AllWords
<1>3. CASE ty.kind = "enum"
  <2>1. v \in Range(ty.vals) /\ ty.vals \in Seq(Seq(Byte))
    BY <1>3 DEF ValuesOf, IsType
  <2>2. v \in Seq(Byte)
    BY <2>1 DEF Range
  <2> QED BY <1>1, <2>2, StrFacts
<1>4. CASE ty.kind \in {"bool", "int", "num"}
  BY <1>4, BareValues DEF Bare
<1> QED BY <1>2, <1>3, <1>4 DEF IsType

\* What render writes for a value.
Written(ty, v) == IF ty.kind \in {"str", "enum"} THEN QuoteText \odot (v \odot QuoteText) ELSE v

LEMMA WrittenIs ==
  ASSUME AllWords, Legible, NEW ty, IsType(ty), NEW v \in ValuesOf(ty)
  PROVE  /\ Quoted(ty, v) \in Text /\ Written(ty, v) \in Str /\ Shown(Quoted(ty, v)) = Written(ty, v)
         /\ Misses(QuoteText, Quoted(ty, v)) => Misses(QuoteText, v)
<1> DEFINE q == <<Quotes>>  Q == QuoteText  vq == v \odot q  vQ == v \odot Q
<1>1. v \in Seq(Letter) /\ v \in Text /\ v \in Str /\ Q \in Str /\ Spellings
  <2>1. v \in Seq(Letter) /\ Spellings
    BY ValueLetters DEF Legible
  <2> QED BY <2>1, StrFacts
<1>2. CASE ty.kind \in {"str", "enum"}
  <2>1. q \in Text /\ Shown(q) = Q
    BY <1>1, ShownOne, GlyphIs, MarkFacts
  <2>2. vq \in Text /\ Shown(vq) = vQ /\ vQ \in Str
    <3> HIDE DEF q, Q
    <3> QED BY <1>1, <2>1, ShownAfter
  <2>3. Quoted(ty, v) = (q \odot v) \odot q
    BY <1>2, Zenon DEF Quoted, \odot
  <2> HIDE DEF q, Q
  <2>4. (q \odot v) \odot q = q \odot vq
    BY <1>1, <2>1, StrAssoc DEF Text
  <2> HIDE DEF vq, vQ
  <2>5. q \odot vq \in Text /\ Shown(q \odot vq) = Q \odot vQ
    BY <1>1, <2>1, <2>2, ShownCat, TextFacts
  <2>6. Q \odot vQ \in Str
    <3>1. Joined(Char, Q, vQ)
      BY <1>1, <2>2, StrCat DEF Str
    <3> QED BY <3>1 DEF Joined, Str
  <2>7. Written(ty, v) = Q \odot vQ
    BY <1>2, Zenon DEF Written, vQ, Q
  <2>8. Misses(Q, q \odot vq) => Misses(Q, v)
    <3>1. q \in Seq(Char) /\ vq \in Seq(Char) /\ Q \in Seq(Char) /\ v \in Seq(Char)
      BY <1>1, <2>1, <2>2, StrFacts DEF Str
    <3>2. Misses(Q, q \odot vq) => Misses(Q, vq)
      BY <3>1, MissesParts
    <3>3. Misses(Q, v \odot q) => Misses(Q, v)
      BY <3>1, MissesParts
    <3> QED BY <3>2, <3>3 DEF vq
  <2> QED BY <2>3, <2>4, <2>5, <2>6, <2>7, <2>8 DEF Q
<1>3. CASE ty.kind \notin {"str", "enum"}
  <2>1. Quoted(ty, v) = v /\ Written(ty, v) = v
    BY <1>3, Zenon DEF Quoted, Written
  <2>2. Shown(v) = v
    BY <1>1, ShownPlain
  <2> QED BY <1>1, <2>1, <2>2
<1> QED BY <1>2, <1>3

\* A value is read back, whatever follows it.
LEMMA ValueRead ==
  ASSUME AllWords, Legible, NEW key, Key(key), NEW u \in Gap, NEW ty, IsType(ty), NEW v \in ValuesOf(ty),
         Misses(QuoteText, v), NEW Y, NEW R, Follows(Y, R), NEW args
  PROVE  Round(Left(key \odot (Colon \odot (u \odot (Written(ty, v) \odot Y))), args)) = Left(R, Append(args, <<key, v>>))
<1> DEFINE Q == QuoteText
<1>1. v \in Seq(Letter) /\ v \in Str /\ Q \in Str /\ Y \in Str
  <2>1. v \in Seq(Letter) /\ Spellings /\ Y \in Str
    BY ValueLetters, FollowsIs DEF Legible
  <2> QED BY <2>1, StrFacts
<1>2. CASE ty.kind \in {"str", "enum"}
  <2>1. Written(ty, v) = Q \odot (v \odot Q)
    BY <1>2, Zenon DEF Written
  <2>2. (Q \odot (v \odot Q)) \odot Y = Q \odot (v \odot (Q \odot Y))
    <3> HIDE DEF Q
    <3> DEFINE vQ == v \odot Q
    <3>1. vQ \in Str
      <4>1. Joined(Char, v, Q)
        BY <1>1, StrCat DEF Str
      <4> QED BY <4>1 DEF Joined, Str
    <3>2. vQ \odot Y = v \odot (Q \odot Y)
      BY <1>1, StrAssoc DEF Str
    <3> HIDE DEF vQ
    <3>3. (Q \odot vQ) \odot Y = Q \odot (vQ \odot Y)
      BY <1>1, <3>1, StrAssoc DEF Str
    <3> QED BY <3>2, <3>3 DEF vQ
  <2> QED BY <1>1, <2>1, <2>2, QuotedRead
<1>3. CASE ty.kind \notin {"str", "enum"}
  <2>1. Written(ty, v) = v
    BY <1>3, Zenon DEF Written
  <2>2. Bare(v)
    <3>1. ty.kind \in {"bool", "int", "num"}
      BY <1>3 DEF IsType
    <3> QED BY <3>1, BareValues
  <2> QED BY <2>1, <2>2, BareRead
<1> QED BY <1>2, <1>3

\* The value as written ends with no space.
LEMMA WrittenEnds ==
  ASSUME AllWords, Legible, NEW ty, IsType(ty), NEW v \in ValuesOf(ty)
  PROVE  LET V == Written(ty, v) IN Len(V) \in Nat /\ Len(V) # 0 /\ V[Len(V)] \notin Space
<1> DEFINE V == Written(ty, v)  Q == QuoteText
<1>1. v \in Str /\ Q \in Str /\ Q # <<>> /\ V \in Str /\ Q[Len(Q)] \notin Space
  <2>1. v \in Seq(Letter) /\ Spellings /\ V \in Str /\ Q # <<>> /\ Q[Len(Q)] \notin Space
    BY ValueLetters, WrittenIs DEF Legible
  <2> QED BY <2>1, StrFacts
<1>2. CASE ty.kind \in {"str", "enum"}
  <2>1. V = Q \odot (v \odot Q)
    BY <1>2, Zenon DEF Written
  <2> DEFINE m == Len(v)  n == Len(Q)  vQ == v \odot Q
  <2>2. m \in Nat /\ n \in Nat /\ n # 0
    <3> HIDE DEF Q
    <3> QED BY <1>1, EmptySeq, LenProperties DEF Str
  <2> HIDE DEF V, Q
  <2>3. vQ \in Str /\ Len(vQ) = m + n /\ \A i \in 1 .. n : vQ[m + i] = Q[i]
    <3>1. Joined(Char, v, Q)
      BY <1>1, StrCat DEF Str
    <3> QED BY <3>1 DEF Joined, Str
  <2> HIDE DEF vQ
  <2>4. V = Q \odot vQ
    BY <2>1 DEF vQ
  <2>5. Len(V) = n + (m + n) /\ \A i \in 1 .. m + n : V[n + i] = vQ[i]
    <3>1. Joined(Char, Q, vQ)
      BY <1>1, <2>3, StrCat DEF Str
    <3> QED BY <2>3, <2>4, <3>1 DEF Joined
  <2> HIDE DEF m, n
  <2>6. n \in 1 .. n /\ m + n \in 1 .. m + n /\ Len(V) \in Nat /\ Len(V) # 0
    BY <2>2, <2>5
  <2>7. V[Len(V)] = Q[n]
    BY <2>3, <2>5, <2>6
  <2> QED BY <1>1, <2>6, <2>7 DEF V, n
<1>3. CASE ty.kind \notin {"str", "enum"}
  <2>1. V = v
    BY <1>3, Zenon DEF Written
  <2>2. v # <<>> /\ Neat(v)
    <3>1. ty.kind \in {"bool", "int", "num"}
      BY <1>3 DEF IsType
    <3> QED BY <3>1, BareValues DEF Bare
  <2> HIDE DEF V
  <2>3. Len(v) \in Nat /\ Len(v) # 0
    BY <1>1, <2>2, EmptySeq, LenProperties DEF Str
  <2> QED BY <2>1, <2>2, <2>3 DEF Neat, V
<1> QED BY <1>2, <1>3

-----------------------------------------------------------------------------
(* The arguments of a call *)

Pair == Text \X Text
\* One round reads the text W as what c passes.
TakesOne(W, c) ==
  \A Y, R : Follows(Y, R) =>
     \A args \in Seq(Pair) : Round(Left(W \odot Y, args)) = Left(R, args \odot c[2])
\* The text of an argument without the space before it.
ArgReads(c) ==
  \E s \in Gap, W \in Str : /\ Shown(c[1]) = s \odot W /\ W # <<>> /\ Neat(W)
                            /\ TakesOne(W, c)

LEMMA ArgRead ==
  ASSUME AllWords, Legible, NEW p, IsParam(p), Key(p.name), NEW c \in ArgTexts(p)
  PROVE  /\ c[1] \in Text /\ c[2] \in Seq(Pair)
         /\ Misses(QuoteText, c[1]) => ArgReads(c)
<1> DEFINE key == p.name  ty == p.ty
<1>1. PICK s \in Gap, u \in Gap, v \in ValuesOf(ty) : c = Passing(p, s, u, v)
  BY ArgTextsAre
<1> DEFINE q == Quoted(ty, v)  V == Written(ty, v)
<1>2. IsType(ty) /\ Spellings
  BY DEF IsParam, Legible
<1>3. /\ s \in Seq(Letter) /\ u \in Seq(Letter) /\ key \in Seq(Letter) /\ Colon \in Seq(Letter)
      /\ s \in Str /\ u \in Str /\ key \in Str /\ Colon \in Str
      /\ q \in Text /\ V \in Str /\ Shown(q) = V /\ v \in Text
  <2>1. key \in Seq(Letter)
    BY DEF Key
  <2>2. v \in Seq(Letter)
    BY <1>2, ValueLetters
  <2>3. q \in Text /\ V \in Str /\ Shown(q) = V
    BY <1>2, WrittenIs
  <2> QED BY <1>2, <2>1, <2>2, <2>3, BitFacts, StrFacts
<1>4. c[1] = (((s \odot key) \odot Colon) \odot u) \odot q /\ c[2] = <<<<key, v>>>>
  BY <1>1 DEF Passing
<1>5. c[2] \in Seq(Pair)
  <2>1. key \in Text
    BY <1>2, <1>3, StrFacts
  <2> DEFINE kv == <<key, v>>
  <2>2. kv \in Pair
    BY <1>3, <2>1 DEF Pair
  <2> HIDE DEF kv
  <2> QED BY <1>4, <2>2, StrOne DEF kv
<1> HIDE DEF q, V
<1> DEFINE uq == u \odot q  cuq == Colon \odot uq  t == key \odot cuq
           uV == u \odot V  cuV == Colon \odot uV  W == key \odot cuV
<1>6. uq \in Text /\ uV \in Str /\ Shown(uq) = uV
  BY <1>2, <1>3, ShownAfter
<1> HIDE DEF uq, uV
<1>7. cuq \in Text /\ cuV \in Str /\ Shown(cuq) = cuV
  BY <1>2, <1>3, <1>6, ShownAfter
<1> HIDE DEF cuq, cuV
<1>8. t \in Text /\ W \in Str /\ Shown(t) = W
  BY <1>2, <1>3, <1>7, ShownAfter
<1>9. c[1] = s \odot t
  <2>1. s \in Text /\ key \in Text /\ Colon \in Text /\ u \in Text
    BY <1>2, <1>3, StrFacts
  <2> DEFINE sk == s \odot key  skc == sk \odot Colon
  <2>2. sk \in Text
    BY <2>1, TextFacts
  <2>3. sk \odot cuq = s \odot t
    BY <1>7, <2>1, Assoc
  <2> HIDE DEF sk
  <2>4. skc \in Text
    BY <2>1, <2>2, TextFacts
  <2>5. skc \odot uq = sk \odot cuq
    BY <1>6, <2>1, <2>2, Assoc DEF cuq
  <2> HIDE DEF skc
  <2>6. (skc \odot u) \odot q = skc \odot uq
    BY <1>3, <2>1, <2>4, Assoc DEF uq
  <2> QED BY <1>4, <2>3, <2>5, <2>6 DEF sk, skc
<1> HIDE DEF t, W
<1>10. c[1] \in Text /\ Shown(c[1]) = s \odot W
  BY <1>2, <1>3, <1>8, <1>9, ShownAfter
<1>11. W # <<>> /\ Neat(W)
  <2> DEFINE m == Len(key)  k == Len(cuV)
  <2>1. m \in Nat /\ m # 0 /\ key[1] \notin Space
    <3>1. key # <<>> /\ Neat(key)
      BY DEF Key
    <3> HIDE DEF key
    <3> QED BY <1>3, <3>1, EmptySeq, LenProperties DEF Str, Neat
  <2>2. Len(V) \in Nat /\ Len(V) # 0 /\ V[Len(V)] \notin Space
    BY <1>2, WrittenEnds DEF V
  <2> DEFINE l == Len(V)
  <2>3. Len(uV) = Len(u) + l /\ Len(u) \in Nat /\ uV[Len(u) + l] = V[l]
    <3>1. Joined(Char, u, V)
      BY <1>3, StrCat DEF Str
    <3>2. l \in 1 .. l
      BY <2>2
    <3> HIDE DEF l
    <3>3. \A i \in 1 .. Len(V) : uV[Len(u) + i] = V[i]
      BY <3>1 DEF Joined, uV
    <3> QED BY <3>1, <3>2, <3>3 DEF Joined, uV, l
  <2>4. l \in Nat /\ l # 0 /\ V[l] \notin Space
    BY <2>2
  <2> HIDE DEF l
  <2> DEFINE j == Len(uV)
  <2>5. j \in Nat /\ j # 0 /\ uV[j] \notin Space
    BY <2>3, <2>4
  <2>6. k = 1 + j /\ cuV[1 + j] = uV[j]
    <3>1. Joined(Char, Colon, uV)
      BY <1>3, <1>6, StrCat DEF Str
    <3>2. j \in 1 .. j /\ Len(Colon) = 1
      BY <1>2, <2>5, BitFacts
    <3>3. \A i \in 1 .. Len(uV) : cuV[Len(Colon) + i] = uV[i]
      BY <3>1 DEF Joined, cuV
    <3> QED BY <3>1, <3>2, <3>3 DEF Joined, cuV
  <2> HIDE DEF j
  <2>7. k \in Nat /\ k # 0 /\ cuV[k] \notin Space
    BY <2>5, <2>6
  <2>8. Len(W) = m + k /\ W[m + k] = cuV[k] /\ W[1] = key[1]
    <3>1. Joined(Char, key, cuV)
      BY <1>3, <1>7, StrCat DEF Str
    <3>2. k \in 1 .. k /\ 1 \in 1 .. m
      BY <2>1, <2>7
    <3>3. \A i \in 1 .. Len(cuV) : W[Len(key) + i] = cuV[i]
      BY <3>1 DEF Joined, W
    <3>4. \A i \in 1 .. Len(key) : W[i] = key[i]
      BY <3>1 DEF Joined, W
    <3> QED BY <3>1, <3>2, <3>3, <3>4 DEF Joined, W
  <2> HIDE DEF m, k
  <2>9. W[1] \notin Space /\ W[Len(W)] \notin Space
    BY <2>1, <2>7, <2>8
  <2>10. W # <<>>
    <3>1. Len(W) # 0
      BY <2>1, <2>7, <2>8
    <3> QED BY <3>1, EmptySeq
  <2> QED BY <2>9, <2>10 DEF Neat
<1>12. ASSUME Misses(QuoteText, c[1]) PROVE Misses(QuoteText, v)
  <2> DEFINE Q == QuoteText
  <2>1. Q \in Seq(Char) /\ s \in Seq(Char) /\ key \in Seq(Char) /\ Colon \in Seq(Char) /\ u \in Seq(Char)
    BY <1>2, <1>3, StrFacts DEF Str
  <2>2. t \in Seq(Char) /\ cuq \in Seq(Char) /\ uq \in Seq(Char) /\ q \in Seq(Char)
    BY <1>2, <1>3, <1>6, <1>7, <1>8, StrFacts DEF Str
  <2>3. Misses(Q, s \odot t) => Misses(Q, t)
    BY <2>1, <2>2, MissesParts
  <2>4. Misses(Q, key \odot cuq) => Misses(Q, cuq)
    BY <2>1, <2>2, MissesParts
  <2>5. Misses(Q, Colon \odot uq) => Misses(Q, uq)
    BY <2>1, <2>2, MissesParts
  <2>6. Misses(Q, u \odot q) => Misses(Q, q)
    BY <2>1, <2>2, MissesParts
  <2>7. Misses(Q, q)
    BY <1>9, <1>12, <2>3, <2>4, <2>5, <2>6 DEF t, cuq, uq
  <2> QED BY <1>2, <2>7, WrittenIs DEF q
<1>13. ASSUME Misses(QuoteText, v), NEW Y, NEW R, Follows(Y, R), NEW args \in Seq(Pair)
       PROVE  Round(Left(W \odot Y, args)) = Left(R, args \odot c[2])
  <2>1. Y \in Str
    BY <1>13, FollowsIs
  <2> DEFINE VY == V \odot Y  uVY == u \odot VY
  <2>2. VY \in Str
    <3>1. Joined(Char, V, Y)
      BY <1>3, <2>1, StrCat DEF Str
    <3> QED BY <3>1 DEF Joined, Str
  <2>3. uV \odot Y = uVY
    BY <1>3, <2>1, StrAssoc DEF Str, uV
  <2> HIDE DEF VY
  <2>4. cuV \odot Y = Colon \odot uVY
    <3>1. (Colon \odot uV) \odot Y = Colon \odot (uV \odot Y)
      BY <1>3, <1>6, <2>1, StrAssoc DEF Str
    <3> QED BY <2>3, <3>1 DEF cuV
  <2> HIDE DEF uVY
  <2>5. W \odot Y = key \odot (Colon \odot uVY)
    <3>1. (key \odot cuV) \odot Y = key \odot (cuV \odot Y)
      BY <1>3, <1>7, <2>1, StrAssoc DEF Str
    <3> QED BY <2>4, <3>1 DEF W
  <2>6. Round(Left(key \odot (Colon \odot (u \odot (Written(ty, v) \odot Y))), args)) = Left(R, Append(args, <<key, v>>))
    BY <1>2, <1>13, ValueRead
  <2>7. Append(args, <<key, v>>) = args \odot c[2]
    <3> DEFINE kv == <<key, v>>
    <3>1. kv \in Pair
      <4>1. key \in Text
        BY <1>2, <1>3, StrFacts
      <4> QED BY <1>3, <4>1 DEF Pair
    <3> HIDE DEF kv
    <3>2. Append(args, kv) = args \o <<kv>>
      BY <1>13, <3>1, AppendIsConcat
    <3> QED BY <1>4, <3>2 DEF kv, \odot
  <2> QED BY <2>5, <2>6, <2>7 DEF uVY, VY, V
<1>14. Misses(QuoteText, c[1]) => ArgReads(c)
  <2> SUFFICES ASSUME Misses(QuoteText, c[1]) PROVE ArgReads(c)
    OBVIOUS
  <2>1. TakesOne(W, c)
    BY <1>12, <1>13 DEF TakesOne
  <2> QED BY <1>8, <1>10, <1>11, <2>1 DEF ArgReads
<1> QED BY <1>5, <1>10, <1>14

\* The text of i arguments without the space before it: i rounds read it as what a passes.
Takes(W, a, i) == \A Y, R : Follows(Y, R) => Reaches(W \odot Y, i, Left(R, a[2]))
ReadsAll(a, i) ==
  \E g \in Gap, W \in Str : /\ Shown(a[1]) = g \odot W /\ W # <<>> /\ Neat(W) /\ Len(W) >= i
                            /\ Takes(W, a, i)

LEMMA FirstRead ==
  ASSUME Legible, NEW c, c[1] \in Text, c[2] \in Seq(Pair), ArgReads(c)
  PROVE  ReadsAll(c, 1)
<1>1. PICK s \in Gap, W \in Str : /\ Shown(c[1]) = s \odot W /\ W # <<>> /\ Neat(W) /\ TakesOne(W, c)
  BY DEF ArgReads
<1>2. Len(W) >= 1 /\ Len(W) \in Nat
  <2>1. Len(W) \in Nat /\ Len(W) # 0
    BY <1>1, EmptySeq, LenProperties DEF Str
  <2> QED BY <2>1
<1>3. ASSUME NEW Y, NEW R, Follows(Y, R) PROVE Reaches(W \odot Y, 1, Left(R, c[2]))
  <2> DEFINE none == <<>>  WY == W \odot Y
  <2>1. WY # <<>>
    <3>1. Y \in Str
      BY <1>3, FollowsIs
    <3>2. Len(WY) = Len(W) + Len(Y) /\ Len(Y) \in Nat
      <4>1. Joined(Char, W, Y)
        BY <3>1, StrCat DEF Str
      <4> QED BY <4>1 DEF Joined
    <3>3. Len(WY) # 0
      BY <1>2, <3>2
    <3> HIDE DEF WY
    <3> QED BY <3>3, EmptySeq
  <2>2. none \in Seq(Pair) /\ none \odot c[2] = c[2]
    <3>1. Joined(Pair, c[2], c[2])
      BY StrCat
    <3> QED BY <3>1, EmptySeq DEF Joined
  <2>3. Round(Left(WY, none)) = Left(R, c[2])
    <3>1. \A args \in Seq(Pair) : Round(Left(WY, args)) = Left(R, args \odot c[2])
      BY <1>1, <1>3 DEF TakesOne
    <3> HIDE DEF none, WY
    <3> QED BY <2>2, <3>1
  <2>4. Reaches(WY, 0, Left(WY, none))
    BY ReachFirst
  <2> HIDE DEF none, WY
  <2>5. Reaches(WY, 0 + 1, Left(R, c[2]))
    BY <2>1, <2>3, <2>4, ReachNext
  <2> QED BY <2>5 DEF WY
<1>4. Takes(W, c, 1)
  BY <1>3 DEF Takes
<1> QED BY <1>1, <1>2, <1>4 DEF ReadsAll

LEMMA NextRead ==
  ASSUME Legible, NEW i \in Nat, NEW b, b[1] \in Text, b[2] \in Seq(Pair), ReadsAll(b, i),
         NEW c, c[1] \in Text, c[2] \in Seq(Pair), ArgReads(c),
         NEW a, a[1] = (b[1] \odot <<Comma>>) \odot c[1], a[2] = b[2] \odot c[2]
  PROVE  ReadsAll(a, i + 1)
<1>1. PICK g \in Gap, W \in Str : /\ Shown(b[1]) = g \odot W /\ W # <<>> /\ Neat(W) /\ Len(W) >= i /\ Takes(W, b, i)
  BY DEF ReadsAll
<1>2. PICK s \in Gap, V \in Str : /\ Shown(c[1]) = s \odot V /\ V # <<>> /\ Neat(V) /\ TakesOne(V, c)
  BY DEF ArgReads
<1> DEFINE m == <<Comma>>  sV == s \odot V  msV == m \odot sV  Z == W \odot msV
<1>3. Spellings
  BY DEF Legible
<1>4. m \in Str /\ m \in Seq(Letter) /\ Len(m) = 1 /\ g \in Str /\ s \in Str /\ s \in Seq(Letter)
  <2>1. m \in Str /\ g \in Str /\ s \in Str /\ s \in Seq(Letter)
    BY <1>3, BitFacts
  <2>2. Comma \in Letter
    BY <1>3, StrFacts, EndBytes
  <2> QED BY <2>1, <2>2, StrOne
<1>5. sV \in Str /\ Len(sV) = Len(s) + Len(V) /\ Len(s) \in Nat /\ Len(V) \in Nat /\ Len(V) # 0
      /\ sV[Len(s) + Len(V)] = V[Len(V)]
  <2>1. Joined(Char, s, V)
    BY <1>4, StrCat DEF Str
  <2>2. Len(V) # 0 /\ Len(V) \in Nat
    BY <1>2, EmptySeq, LenProperties DEF Str
  <2>3. Len(V) \in 1 .. Len(V)
    BY <2>2
  <2> QED BY <2>1, <2>2, <2>3 DEF Joined, Str
<1> HIDE DEF sV, m
<1> DEFINE l == Len(sV)
<1>6. l \in Nat /\ l # 0 /\ sV[l] \notin Space
  <2>1. V[Len(V)] \notin Space
    BY <1>2 DEF Neat
  <2> QED BY <1>5, <2>1
<1>7. msV \in Str /\ Len(msV) = 1 + l /\ msV[1 + l] = sV[l]
  <2>1. Joined(Char, m, sV)
    BY <1>4, <1>5, StrCat DEF Str
  <2>2. l \in 1 .. l
    BY <1>6
  <2>3. \A j \in 1 .. Len(sV) : msV[Len(m) + j] = sV[j]
    BY <2>1 DEF Joined
  <2> QED BY <1>4, <2>1, <2>2, <2>3 DEF Joined, Str
<1> HIDE DEF msV, l
<1> DEFINE k == Len(msV)  n == Len(W)
<1>8. k \in Nat /\ k # 0 /\ msV[k] \notin Space /\ n \in Nat /\ n # 0 /\ n >= i
  <2>1. n \in Nat /\ n # 0
    BY <1>1, EmptySeq, LenProperties DEF Str
  <2>2. k \in Nat /\ k # 0 /\ msV[k] \notin Space
    BY <1>6, <1>7
  <2> QED BY <1>1, <2>1, <2>2
<1>9. Z \in Str /\ Len(Z) = n + k /\ Z[n + k] = msV[k] /\ Z[1] = W[1]
  <2>1. Joined(Char, W, msV)
    BY <1>1, <1>7, StrCat DEF Str
  <2>2. k \in 1 .. k /\ 1 \in 1 .. n
    BY <1>8
  <2>3. \A j \in 1 .. Len(msV) : Z[Len(W) + j] = msV[j]
    BY <2>1 DEF Joined
  <2>4. \A j \in 1 .. Len(W) : Z[j] = W[j]
    BY <2>1 DEF Joined
  <2> QED BY <2>1, <2>2, <2>3, <2>4 DEF Joined, Str
<1> HIDE DEF Z, k, n
<1>10. Z # <<>> /\ Neat(Z) /\ Len(Z) >= i + 1
  <2>1. Len(Z) # 0 /\ Len(Z) >= i + 1
    BY <1>8, <1>9
  <2>2. Z # <<>>
    BY <2>1, EmptySeq
  <2>3. Z[1] \notin Space /\ Z[Len(Z)] \notin Space
    BY <1>1, <1>8, <1>9 DEF Neat
  <2> QED BY <2>1, <2>2, <2>3 DEF Neat
<1>11. Shown(a[1]) = g \odot Z
  <2> DEFINE mc == m \odot c[1]
  <2>1. mc \in Text /\ Shown(mc) = msV
    <3>1. mc \in Text /\ Shown(mc) = m \odot Shown(c[1])
      BY <1>3, <1>4, ShownAfter
    <3> QED BY <1>2, <3>1 DEF msV, sV
  <2>2. a[1] = b[1] \odot mc
    <3>1. m \in Text
      BY <1>3, <1>4, StrFacts
    <3>2. (b[1] \odot m) \odot c[1] = b[1] \odot (m \odot c[1])
      BY <3>1, Assoc
    <3> QED BY <3>2 DEF m
  <2> HIDE DEF mc
  <2>3. Shown(a[1]) = Shown(b[1]) \odot msV
    BY <1>3, <2>1, <2>2, ShownCat
  <2>4. (g \odot W) \odot msV = g \odot Z
    BY <1>4, <1>7, StrAssoc DEF Str, Z
  <2> QED BY <1>1, <2>3, <2>4
<1>12. ASSUME NEW Y, NEW R, Follows(Y, R) PROVE Reaches(Z \odot Y, i + 1, Left(R, a[2]))
  <2>1. Y \in Str
    BY <1>12, FollowsIs
  <2> DEFINE VY == V \odot Y  Y1 == m \odot (s \odot VY)
  <2>2. VY \in Str /\ VY # <<>> /\ VY[1] \notin Space
    <3>1. Joined(Char, V, Y)
      BY <2>1, StrCat DEF Str
    <3>2. VY \in Str /\ Len(VY) = Len(V) + Len(Y) /\ Len(Y) \in Nat /\ \A j \in 1 .. Len(V) : VY[j] = V[j]
      BY <3>1 DEF Joined, Str
    <3>3. V[1] \notin Space
      BY <1>2 DEF Neat
    <3>4. 1 \in 1 .. Len(V) /\ Len(VY) # 0
      <4> HIDE DEF VY
      <4> QED BY <1>5, <3>2
    <3> HIDE DEF VY
    <3>5. VY # <<>>
      BY <3>4, EmptySeq
    <3> QED BY <3>2, <3>3, <3>4, <3>5
  <2> HIDE DEF VY
  <2>3. Follows(Y1, VY)
    BY <2>2 DEF Follows, m
  <2>4. Reaches(W \odot Y1, i, Left(VY, b[2]))
    BY <1>1, <2>3 DEF Takes
  <2>5. W \odot Y1 = Z \odot Y
    <3>1. sV \odot Y = s \odot VY
      BY <1>4, <2>1, StrAssoc DEF Str, sV, VY
    <3>2. msV \odot Y = m \odot (sV \odot Y)
      BY <1>4, <1>5, <2>1, StrAssoc DEF Str, msV
    <3>3. Z \odot Y = W \odot (msV \odot Y)
      BY <1>7, <2>1, StrAssoc DEF Str, Z
    <3> QED BY <3>1, <3>2, <3>3
  <2>6. Round(Left(VY, b[2])) = Left(R, a[2])
    BY <1>2, <1>12 DEF TakesOne, VY
  <2> HIDE DEF Y1
  <2> DEFINE ZY == Z \odot Y
  <2>7. Reaches(ZY, i, Left(VY, b[2]))
    BY <2>4, <2>5
  <2> HIDE DEF ZY
  <2>8. Reaches(ZY, i + 1, Left(R, a[2]))
    BY <2>2, <2>6, <2>7, ReachNext
  <2> QED BY <2>8 DEF ZY
<1>13. Takes(Z, a, i + 1)
  BY <1>12 DEF Takes
<1> QED BY <1>9, <1>10, <1>11, <1>13 DEF ReadsAll

LEMMA CatPairs == \A A, B : \A x \in Cat(A, B) : x = <<x[1], x[2]>>
<1> TAKE A, B
<1> DEFINE two(x, y) == <<x, y>>
<1>1. \A y, z : two(y, z) = <<two(y, z)[1], two(y, z)[2]>>
  OBVIOUS
<1>2. Cat(A, B) = {two(y[1] \odot z[1], y[2] \odot z[2]) : y \in A, z \in B}
  BY DEF Cat, \odot
<1> HIDE DEF two
<1> TAKE x \in Cat(A, B)
<1>3. \E y, z : x = two(y, z)
  BY <1>2
<1> QED BY <1>1, <1>3

LEMMA Argument ==
  ASSUME NEW req, NEW run, Argued(req, run), NEW i \in 1 .. Len(req), NEW a \in run[i]
  PROVE  \E b \in run[i - 1], c \in ArgTexts(req[i]) :
            /\ a[1] = (b[1] \odot (IF i = 1 THEN <<>> ELSE <<Comma>>)) \odot c[1]
            /\ a[2] = (b[2] \odot <<>>) \odot c[2]
<1> DEFINE w == IF i = 1 THEN <<>> ELSE <<Comma>>  none == <<>>  A == run[i - 1]  B == ArgTexts(req[i])
           pair(x, y) == <<x[1] \odot y[1], x[2] \odot y[2]>>
<1>1. \A X, Y : Cat(X, Y) = {pair(x, y) : x \in X, y \in Y}
  BY DEF Cat, \odot
<1>2. Lone(w) = {<<w, none>>}
  BY DEF Lone
<1>3. run[i] = Cat(Cat(A, Lone(w)), B)
  BY DEF Argued
<1>4. \A x, y : pair(x, y)[1] = x[1] \odot y[1] /\ pair(x, y)[2] = x[2] \odot y[2]
  OBVIOUS
<1> HIDE DEF w, none, A, B, pair
<1>5. PICK x \in Cat(A, Lone(w)), c \in B : a = pair(x, c)
  BY <1>1, <1>3
<1>6. PICK b \in A, y \in Lone(w) : x = pair(b, y)
  BY <1>1
<1>7. y[1] = w /\ y[2] = none
  BY <1>2
<1>8. a[1] = (b[1] \odot w) \odot c[1] /\ a[2] = (b[2] \odot none) \odot c[2]
  BY <1>4, <1>5, <1>6, <1>7
<1> QED BY <1>8 DEF w, none, A, B

\* The first i arguments.
Known(a, i) ==
  /\ a[1] \in Text /\ a[2] \in Seq(Pair)
  /\ i = 0 => a[1] = <<>> /\ a[2] = <<>>
  /\ i # 0 /\ Misses(QuoteText, a[1]) => ReadsAll(a, i)

LEMMA KnownNext ==
  ASSUME AllWords, Legible, NEW i \in Nat, NEW b, Known(b, i), NEW p, IsParam(p), Key(p.name), NEW c \in ArgTexts(p),
         NEW a, a[1] = (b[1] \odot (IF i = 0 THEN <<>> ELSE <<Comma>>)) \odot c[1],
         a[2] = (b[2] \odot <<>>) \odot c[2], a = <<a[1], a[2]>>, c = <<c[1], c[2]>>
  PROVE  Known(a, i + 1)
<1> DEFINE none == <<>>
<1>1. c[1] \in Text /\ c[2] \in Seq(Pair) /\ (Misses(QuoteText, c[1]) => ArgReads(c))
  BY ArgRead
<1>2. b[1] \in Text /\ b[2] \in Seq(Pair)
  BY DEF Known
<1>3. b[2] \odot none = b[2] /\ none \odot c[2] = c[2] /\ b[2] \odot c[2] \in Seq(Pair)
  <2>1. Joined(Pair, b[2], c[2])
    BY <1>1, <1>2, StrCat
  <2>2. Joined(Pair, c[2], c[2])
    BY <1>1, StrCat
  <2> QED BY <2>1, <2>2 DEF Joined
<1>4. CASE i = 0
  <2>1. b[1] = none /\ b[2] = none
    BY <1>4 DEF Known
  <2>2. none \in Text /\ none \odot none = none /\ none \odot c[1] = c[1]
    BY <1>1, TextFacts
  <2>3. a[1] = c[1] /\ a[2] = c[2]
    BY <1>3, <1>4, <2>1, <2>2
  <2>4. a = c
    BY <2>3
  <2>5. Misses(QuoteText, c[1]) => ReadsAll(c, 1)
    BY <1>1, FirstRead
  <2> HIDE DEF none
  <2> QED BY <1>1, <1>4, <2>4, <2>5 DEF Known
<1>5. CASE i # 0
  <2> DEFINE m == <<Comma>>  bm == b[1] \odot m
  <2>1. m \in Text
    BY EndBytes, TextFacts
  <2>2. bm \in Text
    BY <1>2, <2>1, TextFacts
  <2>3. a[1] = bm \odot c[1] /\ a[2] = b[2] \odot c[2]
    BY <1>3, <1>5
  <2>4. a[1] \in Text /\ a[2] \in Seq(Pair)
    <3> HIDE DEF bm
    <3> QED BY <1>1, <1>3, <2>2, <2>3, TextFacts
  <2>5. ASSUME Misses(QuoteText, a[1]) PROVE ReadsAll(a, i + 1)
    <3> DEFINE Q == QuoteText
    <3>1. Q \in Seq(Char) /\ bm \in Seq(Char) /\ c[1] \in Seq(Char) /\ b[1] \in Seq(Char) /\ m \in Seq(Char)
      <4>1. Spellings
        BY DEF Legible
      <4> HIDE DEF bm, m
      <4> QED BY <1>1, <1>2, <2>1, <2>2, <4>1, StrFacts DEF Str
    <3> HIDE DEF m
    <3>2. Misses(Q, b[1] \odot m) => Misses(Q, b[1])
      BY <3>1, MissesParts
    <3> HIDE DEF bm
    <3>3. Misses(Q, bm) /\ Misses(Q, c[1])
      <4>1. Misses(Q, bm \odot c[1])
        BY <2>3, <2>5
      <4> QED BY <3>1, <4>1, MissesParts
    <3>4. Misses(Q, b[1])
      BY <3>2, <3>3 DEF bm
    <3>5. ReadsAll(b, i) /\ ArgReads(c)
      BY <1>1, <1>5, <3>3, <3>4 DEF Known
    <3> QED BY <1>1, <1>2, <2>3, <3>5, NextRead DEF bm, m
  <2> QED BY <1>5, <2>4, <2>5 DEF Known
<1> QED BY <1>4, <1>5

\* What parse_call makes of the arguments of a call.
LEMMA ListRead ==
  ASSUME AllWords, Legible, NEW tool, IsTool(tool), LegibleTool(tool), NEW a \in ArgLists(Required(tool))
  PROVE  /\ a[1] \in Text /\ Shown(a[1]) \in Str
         /\ Misses(QuoteText, a[1]) => ParseArgs(Trim(Shown(a[1]))) = Left(<<>>, a[2])
<1> DEFINE req == Required(tool)  n == Len(req)
<1>1. /\ n \in Nat /\ \A i \in 1 .. n : IsParam(req[i]) /\ Key(req[i].name)
  <2>1. n \in Nat
    <3>1. req \in Seq(Range(tool.params))
      BY RequiredType
    <3> HIDE DEF req
    <3> QED BY <3>1, LenProperties
  <2>2. \A i \in 1 .. n : IsParam(req[i])
    BY RequiredLen
  <2>3. ASSUME NEW i \in 1 .. n PROVE Key(req[i].name)
    <3>1. req[i].name \in Seq(Byte)
      BY <2>2 DEF IsParam
    <3>2. req[i].name \in Seq(Letter)
      <4>1. Spellings
        BY DEF Legible
      <4> QED BY <3>1, <4>1, StrFacts
    <3>3. req[i].name # <<>> /\ Neat(req[i].name) /\ Misses(Colon, req[i].name)
      BY DEF LegibleTool
    <3> QED BY <3>2, <3>3 DEF Key
  <2> QED BY <2>1, <2>2, <2>3
<1> HIDE DEF req
<1>2. PICK run : Argued(req, run)
  BY <1>1, ArgListsRun
<1> HIDE DEF n
<1> DEFINE T == {i \in 0 .. n : \A x \in run[i] : Known(x, i) /\ x = <<x[1], x[2]>>}
<1>3. 0 \in T
  <2> DEFINE none == <<>>
  <2>1. run[0] = {<<none, none>>}
    BY <1>2 DEF Argued, Lone
  <2>2. none \in Text /\ none \in Seq(Pair)
    BY TextFacts, EmptySeq
  <2> HIDE DEF none
  <2>3. \A x \in run[0] : x[1] = none /\ x[2] = none /\ x = <<x[1], x[2]>>
    BY <2>1
  <2>4. \A x \in run[0] : Known(x, 0)
    BY <2>2, <2>3 DEF Known, none
  <2> QED BY <1>1, <2>3, <2>4
<1>4. ASSUME NEW i \in 1 .. n, i - 1 \in T PROVE i \in T
  <2>1. ASSUME NEW x \in run[i] PROVE Known(x, i) /\ x = <<x[1], x[2]>>
    <3>1. PICK b \in run[i - 1], c \in ArgTexts(req[i]) :
            /\ x[1] = (b[1] \odot (IF i = 1 THEN <<>> ELSE <<Comma>>)) \odot c[1]
            /\ x[2] = (b[2] \odot <<>>) \odot c[2]
      BY <1>2, Argument DEF n
    <3>2. x = <<x[1], x[2]>>
      <4>1. PICK A, B : run[i] = Cat(A, B)
        BY <1>2 DEF Argued, n
      <4> QED BY <4>1, CatPairs
    <3>3. c = <<c[1], c[2]>>
      <4>1. \E s, u, v : c = Passing(req[i], s, u, v)
        BY ArgTextsAre
      <4> QED BY <4>1 DEF Passing
    <3>4. IsParam(req[i]) /\ Key(req[i].name)
      BY <1>1
    <3> DEFINE k == i - 1
    <3>5. k \in Nat /\ k + 1 = i /\ (i = 1 <=> k = 0)
      BY <1>1
    <3>6. Known(b, k)
      BY <1>4
    <3> HIDE DEF k
    <3>7. x[1] = (b[1] \odot (IF k = 0 THEN <<>> ELSE <<Comma>>)) \odot c[1]
      BY <3>1, <3>5
    <3> DEFINE p == req[i]
    <3>8. IsParam(p) /\ Key(p.name) /\ c \in ArgTexts(p)
      BY <3>4
    <3> HIDE DEF p
    <3>9. Known(x, k + 1)
      BY <3>1, <3>2, <3>3, <3>5, <3>6, <3>7, <3>8, KnownNext
    <3> QED BY <3>2, <3>5, <3>9
  <2> QED BY <2>1, <1>1
<1> HIDE DEF T
<1>5. \A i \in 0 .. n : i \in T
  BY <1>1, <1>3, <1>4, UpTo
<1>6. Known(a, n)
  <2>1. a \in run[n]
    BY <1>2 DEF Argued, n, req
  <2>2. n \in T
    BY <1>1, <1>5
  <2> QED BY <2>1, <2>2 DEF T
<1>7. a[1] \in Text /\ a[2] \in Seq(Pair) /\ Shown(a[1]) \in Str
  <2>1. a[1] \in Text /\ a[2] \in Seq(Pair) /\ Spellings
    BY <1>6 DEF Known, Legible
  <2> QED BY <2>1, ShownCat
<1>8. ASSUME Misses(QuoteText, a[1]) PROVE ParseArgs(Trim(Shown(a[1]))) = Left(<<>>, a[2])
  <2> DEFINE none == <<>>
  <2>0. none \in Str /\ Len(none) = 0 /\ \A i \in 1 .. Len(none) : none[i] \in Space
    BY EmptySeq DEF Str
  <2>1. CASE n = 0
    <3>1. a[1] = none /\ a[2] = none
      BY <1>6, <2>1 DEF Known
    <3>2. Shown(none) = none
      <4>1. none \in Seq(Letter) /\ Spellings
        BY EmptySeq DEF Legible
      <4> QED BY <4>1, ShownPlain
    <3>3. Trim(none) = none
      <4>1. none \odot none = none
        <5>1. Joined(Char, none, none)
          BY <2>0, StrCat DEF Str
        <5> QED BY <5>1 DEF Joined
      <4>2. Neat(none)
        BY DEF Neat
      <4> HIDE DEF none
      <4>3. Trim(none \odot none) = none
        BY <2>0, <4>2, TrimIs DEF Str
      <4> QED BY <4>1, <4>3
    <3>4. ParseArgs(none) = Left(none, none)
      <4>1. Reaches(none, 0, Left(none, none))
        BY ReachFirst
      <4>2. Len(none) \in Nat /\ 0 \in 0 .. Len(none)
        BY <2>0
      <4> DEFINE w == none  args == none
      <4> HIDE DEF w, args
      <4>3. Len(w) \in Nat /\ 0 \in 0 .. Len(w) /\ Reaches(w, 0, Left(<<>>, args))
        BY <4>1, <4>2 DEF w, args
      <4>4. ParseArgs(w) = Left(<<>>, args)
        BY <4>3, ParseEnds
      <4> QED BY <4>4 DEF w, args
    <3> QED BY <3>1, <3>2, <3>3, <3>4
  <2>2. CASE n # 0
    <3>1. PICK g \in Gap, W \in Str : /\ Shown(a[1]) = g \odot W /\ W # <<>> /\ Neat(W) /\ Len(W) >= n
                                      /\ Takes(W, a, n)
      BY <1>6, <1>8, <2>2 DEF Known, ReadsAll
    <3>2. Trim(g \odot W) = W
      <4>1. g \in Str /\ \A i \in 1 .. Len(g) : g[i] \in Space
        BY BitFacts DEF Legible
      <4> QED BY <3>1, <4>1, TrimIs DEF Str
    <3>3. Follows(none, none)
      BY DEF Follows
    <3>4. W \odot none = W
      <4>1. Joined(Char, W, W)
        BY StrCat DEF Str
      <4> QED BY <4>1 DEF Joined
    <3>5. Reaches(W, n, Left(none, a[2]))
      <4>1. Reaches(W \odot none, n, Left(none, a[2]))
        <5> HIDE DEF none
        <5> QED BY <3>1, <3>3 DEF Takes
      <4> QED BY <3>4, <4>1
    <3>6. Len(W) \in Nat /\ n \in 0 .. Len(W)
      <4>1. Len(W) \in Nat
        BY LenProperties DEF Str
      <4> QED BY <1>1, <3>1, <4>1
    <3>7. ParseArgs(W) = Left(<<>>, a[2])
      BY <3>5, <3>6, ParseEnds
    <3> QED BY <3>1, <3>2, <3>7
  <2> QED BY <2>1, <2>2
<1> QED BY <1>7, <1>8

-----------------------------------------------------------------------------
(* A call, as render writes it *)

LEMMA SuffixIs ==
  ASSUME NEW S, NEW u \in Seq(S), NEW v \in Seq(S)
  PROVE  IsSuffix(v, u \odot v)
<1> DEFINE s == u \odot v  m == Len(u)  n == Len(v)  a == Reverse(v)  b == Reverse(s)
<1>1. s \in Seq(S) /\ m \in Nat /\ n \in Nat /\ Len(s) = m + n /\ \A i \in 1 .. n : s[m + i] = v[i] /\ v[i] \in S
  <2>1. Joined(S, u, v)
    BY StrCat
  <2> QED BY <2>1 DEF Joined
<1> HIDE DEF s, m, n
<1>2. \A i \in 1 .. Len(s) : s[i] \in S
  BY <1>1, ElementOfSeq
<1>3. a = [i \in 1 .. n |-> v[(n - i) + 1]] /\ b = [i \in 1 .. Len(s) |-> s[(Len(s) - i) + 1]]
  BY DEF Reverse, n
<1>4. a \in Seq(S) /\ Len(a) = n /\ \A i \in 1 .. n : a[i] = v[(n - i) + 1]
  <2>1. \A i \in 1 .. n : (n - i) + 1 \in 1 .. n
    BY <1>1
  <2> HIDE DEF a
  <2> QED BY <1>1, <1>3, <2>1
<1>5. b \in Seq(S) /\ Len(b) = m + n /\ \A i \in 1 .. m + n : b[i] = s[((m + n) - i) + 1]
  <2>1. \A i \in 1 .. m + n : ((m + n) - i) + 1 \in 1 .. m + n
    BY <1>1
  <2> HIDE DEF b
  <2> QED BY <1>1, <1>2, <1>3, <2>1
<1> HIDE DEF a, b
<1>6. \A i \in 1 .. n : b[i] = a[i]
  <2> TAKE i \in 1 .. n
  <2> DEFINE j == (n - i) + 1
  <2>1. j \in 1 .. n /\ ((m + n) - i) + 1 = m + j /\ i \in 1 .. m + n
    BY <1>1
  <2> HIDE DEF j
  <2>2. s[m + j] = v[j]
    BY <1>1, <2>1
  <2>3. b[i] = s[m + j]
    BY <1>5, <2>1
  <2>4. a[i] = v[j]
    BY <1>4 DEF j
  <2> QED BY <2>2, <2>3, <2>4
<1>7. IsPrefix(a, b)
  <2>1. Len(a) <= Len(b)
    BY <1>1, <1>4, <1>5
  <2>2. a \in Seq(S) /\ b \in Seq(S)
    BY <1>4, <1>5
  <2>3. IsPrefix(a, b) <=> Len(a) <= Len(b) /\ \A j \in 1 .. Len(a) : b[j] = a[j]
    BY <2>2, PrefixAt, Zenon
  <2> QED BY <1>4, <1>6, <2>1, <2>3
<1> QED BY <1>7 DEF IsSuffix, a, b, s

Inner(s)       == SubSeq(s, Len(OpenText \odot CallWord) + 1, Len(s) - Len(CloseText))
CutName(inner) == SubSeq(inner, 1, Find(inner, <<Brace>>) - 1)
CutList(inner) == From(inner, Find(inner, <<Brace>>) + 1)

LEMMA ParseCallIs ==
  ASSUME NEW s, IsPrefix(OpenText \odot CallWord, s), IsSuffix(CloseText, s),
         ~(Len(s) < Len(OpenText \odot CallWord) + Len(CloseText)), ~Absent(Inner(s), <<Brace>>),
         CutName(Inner(s)) # <<>>, Range(CutName(Inner(s))) \subseteq NameChar,
         CutList(Inner(s)) # <<>>, Last(CutList(Inner(s))) = Closing,
         NEW args, ParseArgs(Trim(Front(CutList(Inner(s))))) = Left(<<>>, args)
  PROVE  ParseCall(s) = [name |-> CutName(Inner(s)), args |-> args]
<1>1. Left(<<>>, args).ok
  BY LeftOk, Zenon
<1>2. Left(<<>>, args).args = args
  BY LeftIs
<1> DEFINE st == Left(<<>>, args)
<1>3. ParseArgs(Trim(Front(CutList(Inner(s))))) = st /\ st.ok /\ st.args = args
  BY <1>1, <1>2
<1> HIDE DEF st
<1> QED BY <1>3, Zenon DEF ParseCall, Inner, CutName, CutList, Brace, Closing, \odot

\* parse_call takes a call apart as it was put together.
LEMMA CallRead ==
  ASSUME Legible, NEW name \in Seq(Letter), name # <<>>, Range(name) \subseteq NameChar,
         \A i \in 1 .. Len(name) : name[i] # Brace, NEW X \in Str, NEW args, ParseArgs(Trim(X)) = Left(<<>>, args)
  PROVE  ParseCall(OpenText \odot (CallWord \odot (name \odot (<<Brace>> \odot (X \odot (<<Closing>> \odot CloseText))))))
           = [name |-> name, args |-> args]
<1> DEFINE o == OpenText  w == CallWord  b == <<Brace>>  e == <<Closing>>  f == CloseText
           ow == o \odot w
           Xe == X \odot e  bXe == b \odot Xe  in == name \odot bXe  inf == in \odot f
           s == o \odot (w \odot (name \odot (b \odot (X \odot (e \odot f)))))
<1>1. /\ o \in Str /\ w \in Str /\ b \in Str /\ e \in Str /\ f \in Str /\ name \in Str
      /\ Len(b) = 1 /\ b[1] = Brace /\ Len(e) = 1 /\ e[1] = Closing /\ Brace \in Char
  <2>1. Spellings
    BY DEF Legible
  <2>2. Brace \in Letter /\ Closing \in Letter
    <3>1. Brace \in Byte
      BY Bytes DEF Brace
    <3> QED BY <2>1, <3>1, EndBytes, StrFacts
  <2>3. Brace \in Char /\ Closing \in Char
    BY <2>1, <2>2, StrFacts
  <2>4. b \in Str /\ e \in Str /\ Len(b) = 1 /\ b[1] = Brace /\ Len(e) = 1 /\ e[1] = Closing
    BY <2>3, StrOne DEF Str
  <2>5. o \in Str /\ f \in Str /\ name \in Str
    BY <2>1, StrFacts
  <2>6. w \in Str
    <3>1. w \in Seq(Byte)
      BY Bytes
    <3> HIDE DEF w
    <3> QED BY <2>1, <3>1, StrFacts
  <2> QED BY <2>3, <2>4, <2>5, <2>6
<1> HIDE DEF o, w, b, e, f
<1>2. ow \in Str /\ Len(ow) \in Nat /\ Len(f) \in Nat
  <2>1. Joined(Char, o, w)
    BY <1>1, StrCat DEF Str
  <2>2. ow \in Str
    BY <2>1 DEF Joined, Str
  <2> HIDE DEF ow
  <2> QED BY <1>1, <2>2, LenProperties DEF Str
<1>3. Xe \in Str /\ Len(Xe) = Len(X) + 1 /\ Len(X) \in Nat /\ Xe[Len(X) + 1] = Closing
  <2>1. Joined(Char, X, e)
    BY <1>1, StrCat DEF Str
  <2>2. 1 \in 1 .. 1
    OBVIOUS
  <2> QED BY <1>1, <2>1, <2>2 DEF Joined, Str
<1> HIDE DEF ow
<1>4. Xe # <<>> /\ Last(Xe) = Closing /\ Front(Xe) = X
  <2>1. SubSeq(Xe, 1, Len(X)) = X
    BY <1>1, Cut DEF Str
  <2> HIDE DEF Xe
  <2>2. Len(Xe) # 0 /\ Len(Xe) - 1 = Len(X)
    BY <1>3
  <2>3. Xe # <<>>
    BY <2>2, EmptySeq
  <2> QED BY <1>3, <2>1, <2>2, <2>3 DEF Last, Front
<1> HIDE DEF Xe
<1>5. bXe \in Str /\ bXe[1] = Brace /\ Len(bXe) = 1 + Len(Xe)
  <2>1. Joined(Char, b, Xe)
    BY <1>1, <1>3, StrCat DEF Str
  <2>2. 1 \in 1 .. 1
    OBVIOUS
  <2> QED BY <1>1, <2>1, <2>2 DEF Joined, Str
<1> HIDE DEF bXe
<1> DEFINE n == Len(name)
<1>6. in \in Str /\ Len(in) = n + Len(bXe) /\ n \in Nat /\ Len(bXe) \in Nat
  <2>1. Joined(Char, name, bXe)
    BY <1>1, <1>5, StrCat DEF Str
  <2> QED BY <2>1 DEF Joined, Str
<1>7. Find(in, <<Brace>>) = n + 1
  <2> DEFINE c == Brace
  <2>1. c \in Char /\ bXe[1] = c /\ \A i \in 1 .. Len(name) : name[i] # c
    BY <1>1, <1>5
  <2> HIDE DEF c
  <2>2. Find(name \odot bXe, <<c>>) = Len(name) + 1
    BY <1>1, <1>5, <2>1, FindByte DEF Str
  <2> QED BY <2>2 DEF c
<1>8. SubSeq(in, 1, n) = name /\ From(in, n + 2) = Xe
  <2>1. SubSeq(in, 1, n) = name
    BY <1>1, <1>5, Cut DEF Str
  <2> DEFINE nb == name \odot b
  <2>2. nb \in Str /\ Len(nb) = n + 1
    <3>1. Joined(Char, name, b)
      BY <1>1, StrCat DEF Str
    <3> QED BY <1>1, <3>1 DEF Joined, Str
  <2>3. nb \odot Xe = in
    BY <1>1, <1>3, StrAssoc DEF Str, bXe
  <2> HIDE DEF nb, in, n
  <2>4. From(nb \odot Xe, Len(nb) + 1) = Xe
    BY <1>3, <2>2, Cut DEF Str
  <2>5. Len(nb) + 1 = n + 2
    BY <1>6, <2>2
  <2> QED BY <2>1, <2>3, <2>4, <2>5
<1> HIDE DEF in, n
<1>9. CutName(in) = name /\ CutList(in) = Xe /\ ~Absent(in, <<Brace>>)
  <2>1. (n + 1) - 1 = n /\ (n + 1) + 1 = n + 2 /\ ~(n + 1 > Len(in))
    BY <1>3, <1>5, <1>6
  <2> QED BY <1>7, <1>8, <2>1 DEF CutName, CutList, Absent
<1>10. inf \in Str /\ Len(inf) = Len(in) + Len(f)
  <2>1. Joined(Char, in, f)
    BY <1>1, <1>6, StrCat DEF Str
  <2> QED BY <2>1 DEF Joined, Str
<1>11. s = ow \odot inf
  <2> DEFINE ef == e \odot f  Xef == X \odot ef  bXef == b \odot Xef  inf2 == name \odot bXef
  <2>1. Xe \odot f = Xef
    BY <1>1, StrAssoc DEF Str, Xe
  <2>2. bXe \odot f = bXef
    <3>1. (b \odot Xe) \odot f = b \odot (Xe \odot f)
      BY <1>1, <1>3, StrAssoc DEF Str
    <3> QED BY <2>1, <3>1 DEF bXe
  <2> HIDE DEF Xef
  <2>3. inf = inf2
    <3>1. (name \odot bXe) \odot f = name \odot (bXe \odot f)
      BY <1>1, <1>5, StrAssoc DEF Str
    <3> QED BY <2>2, <3>1 DEF in
  <2>4. (o \odot w) \odot inf = o \odot (w \odot inf)
    <3> HIDE DEF inf
    <3> QED BY <1>1, <1>10, StrAssoc DEF Str
  <2> QED BY <2>3, <2>4 DEF ow, Xef
<1> HIDE DEF s, inf
<1>12. /\ s \in Str /\ Len(s) = Len(ow) + Len(inf) /\ IsPrefix(ow, s)
  <2>1. Joined(Char, ow, inf)
    BY <1>2, <1>10, StrCat DEF Str
  <2>2. s \in Str /\ Len(s) = Len(ow) + Len(inf) /\ \A i \in 1 .. Len(ow) : s[i] = ow[i]
    BY <1>11, <2>1 DEF Joined, Str
  <2>3. Len(inf) \in Nat
    BY <1>10, LenProperties DEF Str
  <2>4. Len(ow) <= Len(s)
    BY <1>2, <2>2, <2>3
  <2>5. IsPrefix(ow, s)
    BY <1>2, <2>2, <2>4, PrefixAt DEF Str
  <2> QED BY <2>2, <2>5
<1> DEFINE owin == ow \odot in
<1>13. /\ owin \in Str /\ Len(owin) = Len(ow) + Len(in) /\ s = owin \odot f
  <2>1. Joined(Char, ow, in)
    BY <1>2, <1>6, StrCat DEF Str
  <2>2. owin \odot f = ow \odot inf
    BY <1>1, <1>2, <1>6, StrAssoc DEF Str, inf
  <2> QED BY <1>11, <2>1, <2>2 DEF Joined, Str
<1>14. IsSuffix(f, s)
  <2> HIDE DEF owin
  <2> QED BY <1>1, <1>13, SuffixIs DEF Str
<1>15. SubSeq(s, Len(ow) + 1, Len(s) - Len(f)) = in
  <2> DEFINE k == Len(ow)  l == Len(owin)  z == SubSeq(s, k + 1, l)
  <2>1. k \in Nat /\ Len(in) \in Nat /\ l = k + Len(in) /\ Len(s) = l + Len(f) /\ Len(s) - Len(f) = l
    <3>1. Len(in) \in Nat
      BY <1>6
    <3>2. Len(owin) = Len(ow) + Len(in) /\ Len(s) = Len(ow) + (Len(in) + Len(f))
      BY <1>10, <1>12, <1>13
    <3> HIDE DEF owin
    <3> QED BY <1>2, <3>1, <3>2
  <2> HIDE DEF k, l
  <2>2. \A i \in 1 .. l : s[i] = owin[i] /\ s[i] \in Char
    <3> HIDE DEF owin
    <3>1. Joined(Char, owin, f)
      BY <1>1, <1>13, StrCat DEF Str
    <3> QED BY <1>13, <3>1 DEF Joined, l
  <2>3. \A i \in 1 .. Len(in) : owin[k + i] = in[i]
    <3>1. Joined(Char, ow, in)
      BY <1>2, <1>6, StrCat DEF Str
    <3> QED BY <3>1 DEF Joined, k
  <2> HIDE DEF owin
  <2>4. /\ z \in Seq(Char) /\ Len(z) = (IF k + 1 <= l THEN l - (k + 1) + 1 ELSE 0)
        /\ \A i \in 1 .. l - (k + 1) + 1 : z[i] = s[(k + 1) + i - 1]
    <3> DEFINE q == k + 1
    <3>1. q \in Int /\ l \in Int /\ \A i \in q .. l : s[i] \in Char
      BY <2>1, <2>2
    <3> HIDE DEF q
    <3>2. /\ SubSeq(s, q, l) \in Seq(Char) /\ Len(SubSeq(s, q, l)) = (IF q <= l THEN l - q + 1 ELSE 0)
          /\ \A i \in 1 .. l - q + 1 : SubSeq(s, q, l)[i] = s[q + i - 1]
      BY <3>1, SubSeqProperties
    <3> QED BY <3>2 DEF q
  <2> HIDE DEF z
  <2>5. Len(z) = Len(in) /\ l - (k + 1) + 1 = Len(in)
    BY <2>1, <2>4
  <2>6. \A i \in 1 .. Len(in) : z[i] = in[i]
    <3> TAKE i \in 1 .. Len(in)
    <3>1. (k + 1) + i - 1 = k + i /\ k + i \in 1 .. l
      BY <2>1
    <3> QED BY <2>2, <2>3, <2>4, <2>5, <3>1
  <2>7. z = in
    BY <1>6, <2>4, <2>5, <2>6, SeqEqual DEF Str
  <2> QED BY <2>1, <2>7 DEF z, k
<1>16. Inner(s) = in
  BY <1>15 DEF Inner, ow, o, w, f
<1>17. ~(Len(s) < Len(ow) + Len(f))
  <2>1. Len(in) \in Nat
    BY <1>6
  <2> QED BY <1>2, <1>10, <1>12, <2>1
<1>18. ParseCall(s) = [name |-> CutName(Inner(s)), args |-> args]
  <2>1. IsPrefix(OpenText \odot CallWord, s) /\ ~(Len(s) < Len(OpenText \odot CallWord) + Len(CloseText)) /\ IsSuffix(CloseText, s)
    BY <1>12, <1>14, <1>17 DEF ow, o, w, f
  <2>2. ~Absent(Inner(s), <<Brace>>) /\ CutName(Inner(s)) = name /\ CutList(Inner(s)) = Xe
    BY <1>9, <1>16
  <2>3. ParseArgs(Trim(Front(CutList(Inner(s))))) = Left(<<>>, args)
    BY <1>4, <2>2
  <2>4. CutName(Inner(s)) # <<>> /\ Range(CutName(Inner(s))) \subseteq NameChar /\ CutList(Inner(s)) # <<>> /\ Last(CutList(Inner(s))) = Closing
    BY <1>4, <2>2
  <2> QED BY <2>1, <2>2, <2>3, <2>4, ParseCallIs
<1> QED BY <1>9, <1>16, <1>18 DEF s, o, w, b, e, f

\* Every call of a tool that does not spell out the quote in its text is read back.
LEMMA SentenceRead ==
  ASSUME AllWords, Legible, NEW tool, IsTool(tool), LegibleTool(tool), NEW c \in CallsOf(tool),
         Misses(QuoteText, c[1])
  PROVE  ParseCall(Shown(c[1])) = c[2] /\ c = <<c[1], c[2]>>
<1> DEFINE name == tool.name  A == ArgLists(Required(tool))
           call(a) == <<CallText(tool, a[1]), [name |-> name, args |-> a[2]]>>
<1>1. CallsOf(tool) = {call(a) : a \in A}
  BY DEF CallsOf, CallText, Brace, Closing, \odot
<1>2. \A a : call(a)[1] = CallText(tool, a[1]) /\ call(a)[2] = [name |-> name, args |-> a[2]] /\ call(a) = <<call(a)[1], call(a)[2]>>
  OBVIOUS
<1> HIDE DEF A, call
<1>3. PICK a \in A : c = call(a)
  BY <1>1
<1>4. c[1] = CallText(tool, a[1]) /\ c[2] = [name |-> name, args |-> a[2]] /\ c = <<c[1], c[2]>>
  BY <1>2, <1>3
<1>5. /\ a[1] \in Text /\ Shown(a[1]) \in Str
      /\ Misses(QuoteText, a[1]) => ParseArgs(Trim(Shown(a[1]))) = Left(<<>>, a[2])
  BY ListRead DEF A
<1>6. Spellings
  BY DEF Legible
<1> DEFINE x == a[1]  X == Shown(x)
           o == <<Opens>>  w == CallWord  b == <<Brace>>  d == <<Closing>>  f == <<Closes>>
           e == d \odot f  xe == x \odot e  bxe == b \odot xe  nbxe == name \odot bxe  wn == w \odot nbxe
<1>7. /\ o \in Text /\ f \in Text /\ Shown(o) = OpenText /\ Shown(f) = CloseText /\ f \odot <<>> = f
      /\ OpenText \in Str /\ CloseText \in Str
  <2>1. o \in Text /\ f \in Text /\ Shown(o) = OpenText /\ Shown(f) = CloseText
    BY <1>6, ShownOne, GlyphIs, MarkFacts
  <2> QED BY <1>6, <2>1, TextFacts, StrFacts
<1>8. w \in Seq(Letter) /\ b \in Seq(Letter) /\ d \in Seq(Letter) /\ name \in Seq(Letter) /\ \A i \in 1 .. Len(name) : name[i] # Brace
  <2>1. Brace \in Byte
    BY Bytes DEF Brace
  <2>2. Brace \in Letter /\ Closing \in Letter
    BY <1>6, <2>1, EndBytes, StrFacts
  <2>3. b \in Seq(Letter) /\ d \in Seq(Letter)
    BY <2>2, StrOne
  <2>4. w \in Seq(Letter)
    BY <1>6, Bytes, StrFacts
  <2>5. name \in Seq(Letter) /\ \A i \in 1 .. Len(name) : name[i] # Brace
    <3>1. name \in Seq(Byte \ {Brace})
      BY DEF IsTool
    <3> HIDE DEF name
    <3>2. name \in Seq(Byte)
      <4>1. Byte \ {Brace} \subseteq Byte
        OBVIOUS
      <4> QED BY <3>1, <4>1, SeqMonotonic
    <3>3. \A i \in 1 .. Len(name) : name[i] # Brace
      BY <3>1, ElementOfSeq
    <3> QED BY <1>6, <3>2, <3>3, StrFacts
  <2> QED BY <2>3, <2>4, <2>5
<1>9. c[1] = o \odot wn
  <2>1. LET e0 == <<Closing>> \odot (<<Closes>> \odot <<>>)
        IN  CallText(tool, x) = <<Opens>> \odot (CallWord \odot (tool.name \odot (<<Brace>> \odot (x \odot e0))))
    BY <1>5, CallTextIs
  <2> QED BY <1>4, <1>7, <2>1
<1> HIDE DEF o, f, b, d, name, w, x, X
<1>10. x \in Text /\ X \in Str /\ X = Shown(x)
  BY <1>5 DEF x, X
<1>11. e \in Text /\ Shown(e) = d \odot CloseText
  BY <1>6, <1>7, <1>8, ShownAfter
<1> HIDE DEF e
<1>12. xe \in Text /\ Shown(xe) = X \odot (d \odot CloseText)
  BY <1>6, <1>10, <1>11, ShownCat, TextFacts
<1> HIDE DEF xe
<1>13. bxe \in Text /\ Shown(bxe) = b \odot (X \odot (d \odot CloseText))
  BY <1>6, <1>8, <1>12, ShownAfter
<1> HIDE DEF bxe
<1>14. nbxe \in Text /\ Shown(nbxe) = name \odot (b \odot (X \odot (d \odot CloseText)))
  BY <1>6, <1>8, <1>13, ShownAfter
<1> HIDE DEF nbxe
<1>15. wn \in Text /\ Shown(wn) = w \odot (name \odot (b \odot (X \odot (d \odot CloseText))))
  BY <1>6, <1>8, <1>14, ShownAfter
<1> HIDE DEF wn
<1>16. Shown(c[1]) = OpenText \odot (w \odot (name \odot (b \odot (X \odot (d \odot CloseText)))))
  BY <1>6, <1>7, <1>9, <1>15, ShownCat
<1>17. Misses(QuoteText, x)
  <2> DEFINE Q == QuoteText
  <2>1. /\ Q \in Seq(Char) /\ o \in Seq(Char) /\ w \in Seq(Char) /\ name \in Seq(Char) /\ b \in Seq(Char) /\ x \in Seq(Char)
        /\ e \in Seq(Char) /\ xe \in Seq(Char) /\ bxe \in Seq(Char) /\ nbxe \in Seq(Char) /\ wn \in Seq(Char)
    BY <1>6, <1>7, <1>8, <1>10, <1>11, <1>12, <1>13, <1>14, <1>15, StrFacts DEF Str
  <2>2. Misses(Q, o \odot wn) => Misses(Q, wn)
    BY <2>1, MissesParts
  <2>3. Misses(Q, w \odot nbxe) => Misses(Q, nbxe)
    BY <2>1, MissesParts
  <2>4. Misses(Q, name \odot bxe) => Misses(Q, bxe)
    BY <2>1, MissesParts
  <2>5. Misses(Q, b \odot xe) => Misses(Q, xe)
    BY <2>1, MissesParts
  <2>6. Misses(Q, x \odot e) => Misses(Q, x)
    BY <2>1, MissesParts
  <2> QED BY <1>9, <2>2, <2>3, <2>4, <2>5, <2>6 DEF wn, nbxe, bxe, xe
<1>18. ParseArgs(Trim(X)) = Left(<<>>, a[2])
  BY <1>5, <1>17 DEF x, X
<1>19. name # <<>> /\ Range(name) \subseteq NameChar
  BY DEF LegibleTool, name
<1> DEFINE args == a[2]
<1>20. ParseCall(OpenText \odot (CallWord \odot (name \odot (<<Brace>> \odot (X \odot (<<Closing>> \odot CloseText))))))
         = [name |-> name, args |-> args]
  <2> HIDE DEF args
  <2>1. ParseArgs(Trim(X)) = Left(<<>>, args)
    BY <1>18 DEF args
  <2> QED BY <1>8, <1>10, <1>19, <2>1, CallRead
<1> QED BY <1>4, <1>16, <1>20 DEF b, d, w

LEMMA ReadShows ==
  ASSUME AllWords, Legible, InText, Absent(TextOf(out), QuoteText)
  PROVE  ParsesBack
<1> SUFFICES ASSUME Done PROVE <<TextOf(out), ParseCall(Render(out))>> \in Calls[tools]
  BY DEF ParsesBack
<1> DEFINE text == TextOf(out)  ts == ToolSets[tools]
<1>1. text \in Sentences[tools]
  <2>1. DoneIsACall
    BY MaskShows
  <2> QED BY <2>1 DEF DoneIsACall
<1>2. tools \in DOMAIN ToolSets
  BY DEF InText, InSound, TypeOK
<1>3. PICK c \in Calls[tools] : text = c[1]
  BY <1>1, <1>2 DEF Sentences
<1>4. PICK i \in DOMAIN ts : c \in CallsOf(ts[i])
  BY <1>2 DEF Calls
<1>5. IsTool(ts[i]) /\ LegibleTool(ts[i])
  <2>1. IsToolSet(ts)
    BY <1>2, Spellable
  <2> HIDE DEF ts
  <2>2. ts \in Seq(Range(ts)) /\ IsTool(ts[i])
    BY <1>4, <2>1 DEF IsToolSet
  <2>3. i \in 1 .. Len(ts)
    BY <1>4, <2>2, LenProperties
  <2> QED BY <1>2, <2>2, <2>3 DEF Legible, ts
<1>6. text \in Text /\ Render(out) = Shown(text)
  <2>1. out \in Seq(Token)
    BY Out DEF InText
  <2>2. Spellings
    BY DEF Legible
  <2> QED BY <2>1, <2>2, RenderShows
<1>7. Misses(QuoteText, text)
  <2>1. QuoteText \in Seq(Char) /\ text \in Seq(Char)
    BY <1>6, StrFacts DEF Legible, Str
  <2> HIDE DEF text
  <2>2. Absent(text, QuoteText)
    BY DEF text
  <2> QED BY <2>1, <2>2, Nowhere DEF Misses
<1> HIDE DEF text, ts
<1>8. ParseCall(Shown(c[1])) = c[2] /\ c = <<c[1], c[2]>>
  BY <1>3, <1>4, <1>5, <1>7, SentenceRead
<1>9. <<text, ParseCall(Render(out))>> = c
  BY <1>3, <1>6, <1>8
<1> QED BY <1>9 DEF text

\* For every vocabulary and every tool set whose names parse_call can tell apart:
\* a finished call, rendered, is read back as the tool and the arguments it was
\* written for, unless its bytes happen to spell the quote.
THEOREM ReadBack == ASSUME AllWords, Legible PROVE Spec => [](Absent(TextOf(out), QuoteText) => ParsesBack)
<1>1. Init => InText
  BY InTextInit
<1>2. InText /\ [Next]_vars => InText'
  BY InTextStep
<1>3. InText => (Absent(TextOf(out), QuoteText) => ParsesBack)
  BY ReadShows
<1> QED BY <1>1, <1>2, <1>3, PTL DEF Spec
=============================================================================
