----------------------------- MODULE TileProofs -----------------------------
(***************************************************************************)
(* The guarded AMX GEMM for every shape, every weight, every number of     *)
(* attempts and every sequence of resets: the loop nest visits each cell,  *)
(* an accumulator that was reset is never taken for one that was not, and  *)
(* what a block leaves is the product of its row and column, counted once. *)
(***************************************************************************)
EXTENDS TileGuard, WellFoundedInduction, TLAPS

(* Induction: a set of naturals has a least element. *)

\* The order of the naturals, as a set of pairs.
Below == {ss \in Nat \X Nat : ss[1] < ss[2]}

LEMMA BelowWellFounded == IsWellFoundedOn(Below, Nat)
  BY NatLessThanWellFounded DEF OpToRel, Below

\* Every set of naturals that is not empty has a least element.
LEMMA Least ==
  ASSUME NEW T, T \subseteq Nat, T # {}
  PROVE  \E x \in T : \A y \in T : x <= y
<1>1. PICK x \in T : \A y \in T : ~(<<y, x>> \in Below)
  BY BelowWellFounded, WFMin
<1>2. \A y \in T : ~(y < x)
  BY <1>1 DEF Below
<1> QED BY <1>2, SMT

\* Induction up to n.
LEMMA UpTo ==
  ASSUME NEW n \in Nat, NEW T, 0 \in T, \A k \in 1 .. n : k - 1 \in T => k \in T
  PROVE  \A k \in 0 .. n : k \in T
<1> DEFINE U == {k \in 0 .. n : k \notin T}
<1>1. SUFFICES ASSUME U # {} PROVE FALSE
  OBVIOUS
<1>2. U \subseteq Nat
  OBVIOUS
<1> HIDE DEF U
<1>3. PICK x \in U : \A y \in U : x <= y
  BY <1>1, <1>2, Least
<1>4. x \in 1 .. n /\ x \notin T
  BY <1>3 DEF U
<1>5. x - 1 \in 0 .. n /\ ~(x <= x - 1)
  BY <1>4
<1>6. x - 1 \in T
  BY <1>3, <1>5 DEF U
<1> QED BY <1>4, <1>6

\* f is defined by recursion on 0 .. n, each value by the one before it; there is one.
Recursive(f, S, base, n, step) ==
  f \in [0 .. n -> S] /\ f[0] = base /\ \A k \in 1 .. n : f[k] = step[k][f[k - 1]]

LEMMA Recursion ==
  ASSUME NEW S, NEW base \in S, NEW n \in Nat, NEW step \in [1 .. n -> [S -> S]]
  PROVE  \E f : Recursive(f, S, base, n, step)
<1> DEFINE Good(m, f) == f[0] = base /\ \A k \in 1 .. m : f[k] = step[k][f[k - 1]]
           T == {m \in 0 .. n : \E f \in [0 .. m -> S] : Good(m, f)}
<1>1. 0 \in T
  <2> DEFINE f == [k \in 0 .. 0 |-> base]
  <2>1. f \in [0 .. 0 -> S] /\ Good(0, f)
    OBVIOUS
  <2> HIDE DEF f, Good
  <2> QED BY <2>1
<1>2. ASSUME NEW m \in 1 .. n, m - 1 \in T PROVE m \in T
  <2>1. PICK f \in [0 .. m - 1 -> S] : Good(m - 1, f)
    BY <1>2
  <2> DEFINE next == step[m][f[m - 1]]
             g == [k \in 0 .. m |-> IF k <= m - 1 THEN f[k] ELSE next]
  <2>2. next \in S
    OBVIOUS
  <2>3. g \in [0 .. m -> S] /\ g[m] = next /\ \A k \in 0 .. m - 1 : g[k] = f[k]
    BY <2>2
  <2> HIDE DEF g
  <2>4. ASSUME NEW k \in 1 .. m PROVE g[k] = step[k][g[k - 1]]
    <3>1. CASE k \in 1 .. m - 1
      BY <3>1, <2>1, <2>3
    <3>2. CASE k = m
      BY <3>2, <2>3
    <3> QED BY <3>1, <3>2
  <2>5. Good(m, g)
    BY <2>1, <2>3, <2>4
  <2> HIDE DEF Good
  <2> QED BY <2>3, <2>5
<1> HIDE DEF Good
<1>3. n \in T
  <2> HIDE DEF T
  <2>1. \A k \in 1 .. n : k - 1 \in T => k \in T
    BY <1>2
  <2>2. \A k \in 0 .. n : k \in T
    BY <1>1, <2>1, UpTo
  <2> QED BY <2>2
<1>4. \E f \in [0 .. n -> S] : Good(n, f)
  BY <1>3
<1> QED BY <1>4 DEF Good, Recursive

-----------------------------------------------------------------------------
(* The product of a row and a column *)

LEMMA TileFacts ==
  /\ TR \in Nat /\ TR >= 1 /\ KB \in Nat /\ KB >= 1 /\ GK \in Nat /\ GK >= 1
  /\ MaxRetry \in Nat /\ MaxRetry >= 1 /\ MaxTerm \in Nat
  /\ Sentinel \in Int /\ SentMin \in Int /\ KB * MaxTerm < SentMin
  /\ Stale \in Int
  BY TileAssumption

LEMMA CallFacts ==
  ASSUME NEW c \in Calls
  PROVE  /\ c.q4 \in BOOLEAN /\ c.m \in Nat /\ c.m >= 1 /\ c.n0 \in Nat /\ c.n1 \in Nat
         /\ c.n0 < c.n1 /\ (c.n1 - c.n0) % 4 = 0
         /\ c.panel \in Nat /\ c.panel >= 1 /\ c.panel % 4 = 0
  BY TileAssumption

\* The k loop is made of whole groups.
LEMMA GroupsOf ==
  ASSUME NEW c \in Calls
  PROVE  LET size == GroupLen(c)  n == KB \div GroupLen(c)
         IN  /\ size \in Nat /\ size >= 1 /\ n \in Nat /\ n >= 1 /\ n * size = KB
             /\ \A g \in 0 .. n - 1 : /\ g * size \in 0 .. KB - 1 /\ (g + 1) * size \in 0 .. KB
                                      /\ (g + 1) * size = g * size + size
<1> DEFINE size == GroupLen(c)  n == KB \div size
<1>1. size \in Nat /\ size >= 1 /\ KB \in Nat /\ KB >= 1 /\ KB % size = 0
  BY TileFacts, TileAssumption DEF GroupLen
<1> HIDE DEF size
<1>2. n \in Nat /\ KB = size * n
  BY <1>1
<1> HIDE DEF n
<1>3. n >= 1 /\ n * size = KB
  BY <1>1, <1>2
<1>4. ASSUME NEW g \in 0 .. n - 1
      PROVE  /\ g * size \in 0 .. KB - 1 /\ (g + 1) * size \in 0 .. KB
             /\ (g + 1) * size = g * size + size
  <2>1. g \in Nat /\ g + 1 <= n /\ g * size \in Nat /\ (g + 1) * size = g * size + size
    BY <1>1, <1>2
  <2>2. (g + 1) * size <= n * size
    BY <1>1, <1>2, <2>1
  <2> QED BY <1>1, <1>3, <2>1, <2>2
<1> QED BY <1>1, <1>2, <1>3, <1>4 DEF size, n

\* What a step adds to an element.
LEMMA TermType ==
  ASSUME NEW c \in Calls, NEW x \in Cells(c), NEW k \in 0 .. KB - 1
  PROVE  Term[x[1]][x[2]][k] \in Int /\ Term[x[1]][x[2]][k] <= MaxTerm
<1>1. x[1] \in 0 .. (c.m - 1) /\ x[2] \in c.n0 .. (c.n1 - 1)
  BY DEF Cells
<1>2. Term[x[1]][x[2]][k] \in -MaxTerm .. MaxTerm
  BY <1>1, TileAssumption
<1> QED BY <1>2, TileFacts

LEMMA SumIs ==
  ASSUME NEW c \in Calls, NEW x \in Cells(c), NEW lo \in 0 .. KB
  PROVE  /\ Sum(x, lo, lo) = 0
         /\ \A k \in lo .. KB - 1 : Sum(x, lo, k + 1) = Sum(x, lo, k) + Term[x[1]][x[2]][k]
         /\ \A k \in lo .. KB : Sum(x, lo, k) \in Int
<1> DEFINE n == KB - lo
           term(k) == Term[x[1]][x[2]][k]
           step == [k \in 1 .. n |-> [q \in Int |-> q + term(lo + k - 1)]]
           sums == CHOOSE f : f = [k \in lo .. KB |->
                                     IF k = lo THEN 0 ELSE f[k - 1] + Term[x[1]][x[2]][k - 1]]
<1>1. n \in Nat /\ KB \in Nat /\ lo \in Nat /\ lo <= KB
  BY TileFacts
<1>2. \A k \in 0 .. KB - 1 : term(k) \in Int
  BY TermType
<1> HIDE DEF term
<1>3. /\ step \in [1 .. n -> [Int -> Int]]
      /\ \A k \in 1 .. n : \A q \in Int : step[k][q] = q + term(lo + k - 1)
  <2>1. \A k \in 1 .. n : lo + k - 1 \in 0 .. KB - 1
    BY <1>1
  <2> QED BY <1>2, <2>1
<1> HIDE DEF step
<1>4. PICK f : Recursive(f, Int, 0, n, step)
  <2> DEFINE S == Int
  <2>1. 0 \in S /\ step \in [1 .. n -> [S -> S]] /\ n \in Nat
    BY <1>1, <1>3
  <2> HIDE DEF n, S
  <2>2. \E f : Recursive(f, S, 0, n, step)
    BY <2>1, Recursion
  <2> QED BY <2>2 DEF S
<1> DEFINE g == [k \in lo .. KB |-> f[k - lo]]
<1>5. /\ g[lo] = 0
      /\ \A k \in lo .. KB : g[k] \in Int
      /\ \A k \in lo + 1 .. KB : g[k] = g[k - 1] + term(k - 1)
  <2>1. \A k \in lo .. KB : k - lo \in 0 .. n /\ g[k] = f[k - lo]
    BY <1>1
  <2>2. g[lo] = 0
    <3>1. lo - lo = 0 /\ lo \in lo .. KB
      BY <1>1
    <3> QED BY <1>4, <2>1, <3>1 DEF Recursive
  <2>3. \A k \in lo .. KB : g[k] \in Int
    BY <1>4, <2>1 DEF Recursive
  <2>4. ASSUME NEW k \in lo + 1 .. KB PROVE g[k] = g[k - 1] + term(k - 1)
    <3> DEFINE j == k - lo
    <3>1. /\ j \in 1 .. n /\ j - 1 = k - 1 - lo /\ lo + j - 1 = k - 1
          /\ k - 1 \in lo .. KB /\ k \in lo .. KB
      BY <1>1
    <3>2. g[k] = f[j] /\ g[k - 1] = f[j - 1] /\ f[j - 1] \in Int
      BY <2>1, <2>3, <3>1
    <3> HIDE DEF j, g, n
    <3>3. f[j] = step[j][f[j - 1]]
      BY <1>4, <3>1 DEF Recursive
    <3> QED BY <1>3, <3>1, <3>2, <3>3
  <2> QED BY <2>2, <2>3, <2>4
<1>6. g = [k \in lo .. KB |-> IF k = lo THEN 0 ELSE g[k - 1] + Term[x[1]][x[2]][k - 1]]
  <2>1. \A k \in lo .. KB : k # lo => k \in lo + 1 .. KB
    BY <1>1
  <2> HIDE DEF n
  <2>2. \A k \in lo .. KB : g[k] = IF k = lo THEN 0 ELSE g[k - 1] + Term[x[1]][x[2]][k - 1]
    BY <1>5, <2>1 DEF term
  <2> QED BY <2>2
<1>7. sums = [k \in lo .. KB |-> IF k = lo THEN 0 ELSE sums[k - 1] + Term[x[1]][x[2]][k - 1]]
  <2> HIDE DEF g
  <2> QED BY <1>6, Zenon
<1>8. \A k : Sum(x, lo, k) = sums[k]
  BY Zenon DEF Sum, Sums
<1> HIDE DEF sums, g, n
<1>9. sums[lo] = 0 /\ \A k \in lo .. KB - 1 : sums[k + 1] = sums[k] + term(k)
  <2>1. sums[lo] = 0
    BY <1>1, <1>7
  <2>2. ASSUME NEW k \in lo .. KB - 1 PROVE sums[k + 1] = sums[k] + term(k)
    <3> DEFINE m == k + 1
    <3>1. m \in lo .. KB /\ m # lo /\ m - 1 = k
      BY <1>1
    <3> HIDE DEF m
    <3>2. sums[m] = sums[m - 1] + Term[x[1]][x[2]][m - 1]
      BY <1>7, <3>1
    <3>3. sums[m] = sums[k] + term(k)
      BY <3>1, <3>2 DEF term
    <3> QED BY <3>3 DEF m
  <2> QED BY <2>1, <2>2
<1>10. \A k \in lo .. KB : sums[k] \in Int
  <2> DEFINE T == {i \in 0 .. n : sums[lo + i] \in Int}
  <2>1. 0 \in T
    BY <1>1, <1>9
  <2>2. ASSUME NEW i \in 1 .. n, i - 1 \in T PROVE i \in T
    <3> DEFINE k == lo + (i - 1)
    <3>1. k \in lo .. KB - 1 /\ k \in 0 .. KB - 1 /\ k + 1 = lo + i /\ i \in 0 .. n
      BY <1>1 DEF n
    <3>2. sums[k] \in Int
      BY <2>2
    <3> HIDE DEF k
    <3>3. sums[k + 1] \in Int
      BY <1>2, <1>9, <3>1, <3>2
    <3> QED BY <3>1, <3>3
  <2> HIDE DEF T
  <2>3. \A i \in 0 .. n : i \in T
    BY <1>1, <2>1, <2>2, UpTo
  <2>4. \A k \in lo .. KB : k - lo \in 0 .. n /\ lo + (k - lo) = k
    BY <1>1 DEF n
  <2> QED BY <2>3, <2>4 DEF T
<1> QED BY <1>8, <1>9, <1>10 DEF term

\* The product, group by group.
LEMMA ProductIs ==
  ASSUME NEW c \in Calls, NEW x \in Cells(c)
  PROVE  /\ Products(c, x)[0] = 0
         /\ \A g \in 0 .. (KB \div GroupLen(c)) - 1 :
              LET lo == g * GroupLen(c)
              IN  Products(c, x)[g + 1] =
                    Products(c, x)[g] + Weight(c, lo) * Sum(x, lo, lo + GroupLen(c))
         /\ \A g \in 0 .. KB \div GroupLen(c) : Products(c, x)[g] \in Int
         /\ \A g \in 0 .. (KB \div GroupLen(c)) - 1 :
              LET lo == g * GroupLen(c)
              IN  Weight(c, lo) \in Int /\ Sum(x, lo, lo + GroupLen(c)) \in Int
<1> DEFINE size == GroupLen(c)  n == KB \div size
           part(g) == Weight(c, g * size) * Sum(x, g * size, (g + 1) * size)
           step == [g \in 1 .. n |-> [q \in Int |-> q + part(g - 1)]]
           all == CHOOSE f : f = [k \in 0 .. n |->
                    IF k = 0 THEN 0
                    ELSE f[k - 1] + Weight(c, (k - 1) * size) * Sum(x, (k - 1) * size, k * size)]
<1>1. /\ n \in Nat /\ n >= 1
      /\ \A g \in 0 .. n - 1 : /\ g * size \in 0 .. KB - 1 /\ (g + 1) * size \in 0 .. KB
                               /\ (g + 1) * size = g * size + size
      /\ size \in Nat /\ size >= 1
  BY GroupsOf
<1>2. ASSUME NEW g \in 0 .. n - 1
      PROVE  Weight(c, g * size) \in Int /\ Sum(x, g * size, (g + 1) * size) \in Int
  <2> DEFINE lo == g * size  hi == (g + 1) * size
  <2>1. lo \in 0 .. KB - 1 /\ hi \in 0 .. KB /\ hi = lo + size
    <3> HIDE DEF size, n
    <3> QED BY <1>1
  <2> HIDE DEF lo, hi, size
  <2>2. hi \in lo .. KB /\ lo \in 0 .. KB
    BY <1>1, <2>1, TileFacts
  <2>3. Scale[lo \div GK] \in Int
    BY <2>1, TileAssumption
  <2>4. Sum(x, lo, hi) \in Int
    BY <2>2, SumIs
  <2>5. Weight(c, lo) \in Int
    BY <2>3 DEF Weight
  <2> QED BY <2>4, <2>5 DEF lo, hi
<1> HIDE DEF size, n
<1>3. n \in Nat /\ \A g \in 0 .. n - 1 : part(g) \in Int
  <2>1. n \in Nat
    BY <1>1
  <2>2. ASSUME NEW g \in 0 .. n - 1 PROVE part(g) \in Int
    <3> DEFINE w == Weight(c, g * size)  v == Sum(x, g * size, (g + 1) * size)
    <3>1. w \in Int /\ v \in Int
      BY <1>2
    <3> HIDE DEF w, v
    <3>2. w * v \in Int
      BY <3>1
    <3> QED BY <3>2 DEF w, v
  <2> HIDE DEF part
  <2> QED BY <2>1, <2>2
<1> HIDE DEF part
<1>4. /\ step \in [1 .. n -> [Int -> Int]]
      /\ \A g \in 1 .. n : \A q \in Int : step[g][q] = q + part(g - 1)
  <2>1. \A g \in 1 .. n : g - 1 \in 0 .. n - 1
    BY <1>1
  <2> QED BY <1>3, <2>1
<1> HIDE DEF step
<1>5. PICK f : Recursive(f, Int, 0, n, step)
  <2> DEFINE S == Int
  <2>1. 0 \in S /\ step \in [1 .. n -> [S -> S]]
    BY <1>4
  <2> HIDE DEF S
  <2>2. \E f : Recursive(f, S, 0, n, step)
    BY <1>3, <2>1, Recursion
  <2> QED BY <2>2 DEF S
<1>6. /\ f \in [0 .. n -> Int] /\ f[0] = 0
      /\ \A g \in 1 .. n : f[g] = f[g - 1] + part(g - 1)
  <2>1. \A g \in 1 .. n : f[g - 1] \in Int
    BY <1>1, <1>5 DEF Recursive
  <2> QED BY <1>4, <1>5, <2>1 DEF Recursive
<1>7. \A k \in 1 .. n :
        part(k - 1) = Weight(c, (k - 1) * size) * Sum(x, (k - 1) * size, k * size)
  <2> SUFFICES ASSUME NEW k \in 1 .. n
               PROVE  part(k - 1) = Weight(c, (k - 1) * size) * Sum(x, (k - 1) * size, k * size)
    OBVIOUS
  <2>1. k - 1 + 1 = k
    BY <1>1
  <2> QED BY <2>1 DEF part
<1>8. f = [k \in 0 .. n |->
             IF k = 0 THEN 0
             ELSE f[k - 1] + Weight(c, (k - 1) * size) * Sum(x, (k - 1) * size, k * size)]
  <2>1. \A k \in 0 .. n : k # 0 => k \in 1 .. n
    BY <1>1
  <2> QED BY <1>6, <1>7, <2>1
<1>9. all = [k \in 0 .. n |->
               IF k = 0 THEN 0
               ELSE all[k - 1] + Weight(c, (k - 1) * size) * Sum(x, (k - 1) * size, k * size)]
  BY <1>8, Zenon
<1>10. Products(c, x) = all
  BY Zenon DEF Products, n, size
<1> HIDE DEF all
<1>11. all[0] = 0 /\ \A k \in 1 .. n : all[k] = all[k - 1] + part(k - 1)
  <2>1. \A k \in 1 .. n : k \in 0 .. n /\ k # 0
    OBVIOUS
  <2>2. 0 \in 0 .. n
    BY <1>1
  <2>3. \A k \in 1 .. n :
          all[k] = all[k - 1] + Weight(c, (k - 1) * size) * Sum(x, (k - 1) * size, k * size)
    BY <1>9, <2>1
  <2> QED BY <1>7, <1>9, <2>2, <2>3
<1>12. \A g \in 0 .. n : all[g] \in Int
  <2> DEFINE T == {g \in 0 .. n : all[g] \in Int}
  <2>1. 0 \in T
    BY <1>1, <1>11
  <2>2. ASSUME NEW k \in 1 .. n, k - 1 \in T PROVE k \in T
    <3>1. k - 1 \in 0 .. n - 1 /\ all[k - 1] \in Int /\ k \in 0 .. n
      BY <1>3, <2>2
    <3> QED BY <1>3, <1>11, <3>1
  <2> HIDE DEF T
  <2>3. \A g \in 0 .. n : g \in T
    BY <1>1, <2>1, <2>2, UpTo
  <2> QED BY <2>3 DEF T
<1>13. ASSUME NEW g \in 0 .. n - 1
       PROVE  LET lo == g * size
              IN  /\ all[g + 1] = all[g] + Weight(c, lo) * Sum(x, lo, lo + size)
                  /\ Weight(c, lo) \in Int /\ Sum(x, lo, lo + size) \in Int
  <2> DEFINE k == g + 1
  <2>1. k \in 1 .. n /\ k - 1 = g /\ (g + 1) * size = g * size + size
    BY <1>1
  <2> HIDE DEF k
  <2>2. all[k] = all[g] + part(g)
    BY <1>11, <2>1
  <2>3. part(g) = Weight(c, g * size) * Sum(x, g * size, g * size + size)
    BY <2>1 DEF part
  <2>4. Weight(c, g * size) \in Int /\ Sum(x, g * size, g * size + size) \in Int
    BY <1>2, <2>1
  <2> QED BY <2>2, <2>3, <2>4 DEF k
<1> QED BY <1>10, <1>11, <1>12, <1>13 DEF n, size

-----------------------------------------------------------------------------
(* The loop nest *)

Width(c, a) == IF Paired(c, a) THEN 2 ELSE 4
Height(c, a) == IF a.tail THEN Rem(c) ELSE 2 * TR

\* A block of the loop nest: whole tiles wide, inside its panel and inside its rows.
BlockOK(c, a) ==
  /\ a \in [np : Nat, tail : BOOLEAN, mb : Nat, nb : Nat]
  /\ c.n0 <= a.np /\ a.np < c.n1 /\ (a.np - c.n0) % 4 = 0
  /\ a.np <= a.nb /\ a.nb < PanelEnd(c, a.np) /\ (a.nb - a.np) % Width(c, a) = 0
  /\ IF a.tail THEN Rem(c) > 0 /\ a.mb = FullRows(c)
     ELSE \E j \in Nat : j >= 1 /\ FullRows(c) = a.mb + j * (2 * TR)

\* The cells of the blocks before a.
Passed(c, a, x) ==
  \/ x[2] < a.np
  \/ /\ x[2] < PanelEnd(c, a.np)
     /\ x[1] < a.mb \/ (x[1] < a.mb + Height(c, a) /\ x[2] < a.nb)

\* Quotient and remainder.
LEMMA DivMod ==
  ASSUME NEW p \in Nat, NEW w \in Nat, w >= 1
  PROVE  /\ p % w \in Nat /\ p % w < w
         /\ p = w * (p \div w) + (p % w) /\ p \div w \in Nat
  OBVIOUS

LEMMA RowFacts ==
  ASSUME NEW c \in Calls
  PROVE  /\ FullRows(c) \in Nat /\ Rem(c) \in Nat /\ Rem(c) < 2 * TR
         /\ FullRows(c) + Rem(c) = c.m
         /\ \E j \in Nat : FullRows(c) = j * (2 * TR)
<1> DEFINE w == 2 * TR  j == c.m \div w
<1>1. w \in Nat /\ w >= 1 /\ c.m \in Nat
  BY TileFacts, CallFacts
<1> HIDE DEF w
<1>2. c.m % w \in Nat /\ c.m % w < w /\ j \in Nat /\ c.m = w * j + (c.m % w)
  BY <1>1, DivMod
<1> HIDE DEF j
<1>3. FullRows(c) = c.m - (c.m % w) /\ Rem(c) = c.m % w
  BY DEF FullRows, Rem, w
<1>4. w * j = j * w /\ w * j \in Nat
  BY <1>1, <1>2
<1>5. FullRows(c) = j * w
  BY <1>1, <1>2, <1>3, <1>4
<1> QED BY <1>1, <1>2, <1>3, <1>4, <1>5 DEF w

LEMMA PanelFacts ==
  ASSUME NEW c \in Calls, NEW np \in Nat, c.n0 <= np, np < c.n1, (np - c.n0) % 4 = 0
  PROVE  LET end == PanelEnd(c, np)
         IN  /\ end \in Nat /\ np < end /\ end <= c.n1 /\ (end - np) % 4 = 0
             /\ end = c.n1 \/ end = np + c.panel
             /\ np + c.panel >= c.n1 => end = c.n1
             /\ (np + c.panel - c.n0) % 4 = 0
<1>1. /\ c.n0 \in Nat /\ c.n1 \in Nat /\ (c.n1 - c.n0) % 4 = 0
      /\ c.panel \in Nat /\ c.panel >= 1 /\ c.panel % 4 = 0
  BY CallFacts
<1>2. (np + c.panel - c.n0) % 4 = 0 /\ (c.n1 - np) % 4 = 0 /\ (np + c.panel - np) % 4 = 0
  BY <1>1
<1> QED BY <1>1, <1>2 DEF PanelEnd

\* Where a block lies.
LEMMA BlockFacts ==
  ASSUME NEW c \in Calls, NEW a, BlockOK(c, a)
  PROVE  LET w == Width(c, a)  h == Height(c, a)  end == PanelEnd(c, a.np)
         IN  /\ a.np \in Nat /\ a.tail \in BOOLEAN /\ a.mb \in Nat /\ a.nb \in Nat
             /\ w \in {2, 4} /\ h \in Nat /\ h >= 1 /\ a.mb + h <= c.m
             /\ a.nb + w <= end /\ end \in Nat /\ end <= c.n1 /\ c.n0 <= a.nb
             /\ a.np <= a.nb /\ (a.nb - a.np) % w = 0 /\ (end - a.np) % 4 = 0
<1> DEFINE w == Width(c, a)  h == Height(c, a)  end == PanelEnd(c, a.np)
<1>1. /\ a.np \in Nat /\ a.tail \in BOOLEAN /\ a.mb \in Nat /\ a.nb \in Nat
      /\ c.n0 <= a.np /\ a.np < c.n1 /\ (a.np - c.n0) % 4 = 0
      /\ a.np <= a.nb /\ a.nb < end /\ (a.nb - a.np) % w = 0
  BY DEF BlockOK
<1>2. end \in Nat /\ end <= c.n1 /\ (end - a.np) % 4 = 0
  BY <1>1, PanelFacts
<1>3. w \in {2, 4}
  BY DEF Width
<1>4. c.n0 \in Nat /\ c.n1 \in Nat /\ c.m \in Nat
  BY CallFacts
<1>5. h \in Nat /\ h >= 1 /\ a.mb + h <= c.m
  <2>1. /\ FullRows(c) \in Nat /\ Rem(c) \in Nat /\ FullRows(c) + Rem(c) = c.m
        /\ TR \in Nat /\ TR >= 1
    BY RowFacts, TileFacts
  <2>2. CASE a.tail
    BY <1>1, <2>1, <2>2 DEF BlockOK, Height
  <2>3. CASE ~a.tail
    <3>1. PICK j \in Nat : j >= 1 /\ FullRows(c) = a.mb + j * (2 * TR)
      BY <2>3 DEF BlockOK
    <3> DEFINE v == 2 * TR
    <3>2. v \in Nat /\ v >= 1 /\ h = v
      BY <2>1, <2>3 DEF Height
    <3> HIDE DEF v, h
    <3>3. j * v >= v
      BY <3>1, <3>2
    <3>4. FullRows(c) = a.mb + j * v /\ j * v \in Nat
      BY <3>1, <3>2 DEF v
    <3> QED BY <1>1, <1>4, <2>1, <3>2, <3>3, <3>4
  <2> QED BY <1>1, <2>2, <2>3
<1> HIDE DEF w, h, end
<1>6. a.nb + w <= end
  BY <1>1, <1>2, <1>3
<1> QED BY <1>1, <1>2, <1>3, <1>4, <1>5, <1>6 DEF w, h, end

\* Where its tiles lie.
LEMMA TilePlace ==
  ASSUME NEW c \in Calls, NEW a, BlockOK(c, a), NEW i \in Tiles
  PROVE  /\ TileRows(c, a, i) \in Nat /\ TileRow(c, a, i) \in Nat /\ TileCol(c, a, i) \in Nat
         /\ a.mb <= TileRow(c, a, i)
         /\ TileRow(c, a, i) + TileRows(c, a, i) <= a.mb + Height(c, a)
         /\ a.nb <= TileCol(c, a, i) /\ TileCol(c, a, i) < a.nb + Width(c, a)
<1>1. /\ a.mb \in Nat /\ a.nb \in Nat /\ a.tail \in BOOLEAN
      /\ Rem(c) \in Nat /\ Rem(c) < 2 * TR /\ TR \in Nat /\ TR >= 1
  BY BlockFacts, RowFacts, TileFacts
<1>2. i \in {0, 1, 2, 3}
  BY DEF Tiles
<1>3. TileRows(c, a, i) \in Nat /\ TileRow(c, a, i) \in Nat /\ a.mb <= TileRow(c, a, i)
      /\ TileRow(c, a, i) + TileRows(c, a, i) <= a.mb + Height(c, a)
  BY <1>1, <1>2 DEF TileRows, TileRow, Height, Paired
<1>4. TileCol(c, a, i) \in Nat /\ a.nb <= TileCol(c, a, i)
      /\ TileCol(c, a, i) < a.nb + Width(c, a)
  <2>1. i % 2 \in {0, 1}
    BY <1>2
  <2> QED BY <1>1, <1>2, <2>1 DEF TileCol, Width
<1> QED BY <1>3, <1>4

\* A cell of a block is one the call is asked for.
LEMMA TileInside ==
  ASSUME NEW c \in Calls, NEW a, BlockOK(c, a), NEW i \in Tiles,
         NEW r \in 0 .. TileRows(c, a, i) - 1
  PROVE  /\ <<TileRow(c, a, i) + r, TileCol(c, a, i)>> \in Cells(c)
         /\ <<TileRow(c, a, i) + r, TileCol(c, a, i)>> \in BlockCells(c, a)
<1> DEFINE y == TileRow(c, a, i)  z == TileCol(c, a, i)  n == TileRows(c, a, i)
<1>1. /\ n \in Nat /\ y \in Nat /\ z \in Nat
      /\ a.mb <= y /\ y + n <= a.mb + Height(c, a)
      /\ a.nb <= z /\ z < a.nb + Width(c, a)
  BY TilePlace
<1>2. /\ a.mb \in Nat /\ a.nb \in Nat /\ Height(c, a) \in Nat /\ Width(c, a) \in {2, 4}
      /\ a.mb + Height(c, a) <= c.m /\ a.nb + Width(c, a) <= PanelEnd(c, a.np)
      /\ PanelEnd(c, a.np) \in Nat /\ PanelEnd(c, a.np) <= c.n1 /\ c.n0 <= a.nb
  BY BlockFacts
<1>3. c.m \in Nat /\ c.n0 \in Nat /\ c.n1 \in Nat
  BY CallFacts
<1>4. <<y + r, z>> \in TileCells(c, a, i)
  BY DEF TileCells
<1> HIDE DEF y, z, n
<1>5. y + r \in 0 .. (c.m - 1) /\ z \in c.n0 .. (c.n1 - 1)
  BY <1>1, <1>2, <1>3 DEF n
<1> QED BY <1>4, <1>5 DEF Cells, BlockCells, y, z

LEMMA BlockInside ==
  ASSUME NEW c \in Calls, NEW a, BlockOK(c, a)
  PROVE  BlockCells(c, a) \subseteq Cells(c)
<1> SUFFICES ASSUME NEW x \in BlockCells(c, a) PROVE x \in Cells(c)
  OBVIOUS
<1>1. PICK i \in Tiles : x \in TileCells(c, a, i)
  BY DEF BlockCells
<1>2. PICK r \in 0 .. (TileRows(c, a, i) - 1) : x = <<TileRow(c, a, i) + r, TileCol(c, a, i)>>
  BY <1>1 DEF TileCells
<1> QED BY <1>2, TileInside

\* The four tiles leave out nothing of the block.
LEMMA BlockAll ==
  ASSUME NEW c \in Calls, NEW a, BlockOK(c, a), NEW y \in Nat, NEW z \in Nat,
         a.mb <= y, y < a.mb + Height(c, a), a.nb <= z, z < a.nb + Width(c, a)
  PROVE  <<y, z>> \in BlockCells(c, a)
<1>1. /\ a.mb \in Nat /\ a.nb \in Nat /\ a.tail \in BOOLEAN
      /\ Rem(c) \in Nat /\ Rem(c) < 2 * TR /\ TR \in Nat /\ TR >= 1
  BY BlockFacts, RowFacts, TileFacts
<1>2. \E i \in Tiles : /\ z = TileCol(c, a, i) /\ TileRow(c, a, i) <= y
                       /\ y < TileRow(c, a, i) + TileRows(c, a, i)
                       /\ TileRow(c, a, i) \in Nat /\ TileRows(c, a, i) \in Nat
  <2>1. CASE Paired(c, a)
    <3> DEFINE i == IF y < a.mb + TR THEN z - a.nb ELSE z - a.nb + 2
    <3>1. z - a.nb \in {0, 1}
      BY <1>1, <2>1 DEF Width
    <3>2. i \in Tiles /\ i % 2 = z - a.nb /\ (i \in {0, 1} <=> y < a.mb + TR)
          /\ (i \in {2, 3} <=> ~(y < a.mb + TR))
      BY <3>1 DEF Tiles
    <3> HIDE DEF i
    <3>3. z = TileCol(c, a, i)
      BY <1>1, <2>1, <3>2 DEF TileCol
    <3>4. TileRow(c, a, i) <= y /\ y < TileRow(c, a, i) + TileRows(c, a, i)
      BY <1>1, <2>1, <3>2 DEF TileRow, TileRows, Height, Paired
    <3> QED BY <3>2, <3>3, <3>4, TilePlace
  <2>2. CASE ~Paired(c, a)
    <3> DEFINE i == z - a.nb
    <3>1. i \in Tiles
      BY <1>1, <2>2 DEF Width, Tiles
    <3>2. z = TileCol(c, a, i)
      BY <1>1, <2>2, <3>1 DEF TileCol
    <3>3. TileRow(c, a, i) <= y /\ y < TileRow(c, a, i) + TileRows(c, a, i)
      BY <1>1, <2>2 DEF TileRow, TileRows, Height, Paired
    <3> QED BY <3>1, <3>2, <3>3, TilePlace
  <2> QED BY <2>1, <2>2
<1>3. PICK i \in Tiles : /\ z = TileCol(c, a, i) /\ TileRow(c, a, i) <= y
                         /\ y < TileRow(c, a, i) + TileRows(c, a, i)
                         /\ TileRow(c, a, i) \in Nat /\ TileRows(c, a, i) \in Nat
  BY <1>2
<1> DEFINE r == y - TileRow(c, a, i)
<1>4. r \in 0 .. TileRows(c, a, i) - 1 /\ y = TileRow(c, a, i) + r
  BY <1>3
<1> HIDE DEF r
<1> QED BY <1>3, <1>4, TileInside

LEMMA StartOK ==
  ASSUME NEW c \in Calls, NEW np \in Nat, c.n0 <= np, np < c.n1, (np - c.n0) % 4 = 0
  PROVE  /\ BlockOK(c, Start(c, np))
         /\ \A x \in Cells(c) : Passed(c, Start(c, np), x) => x[2] < np
<1> DEFINE a == Start(c, np)
<1>1. /\ FullRows(c) \in Nat /\ Rem(c) \in Nat /\ FullRows(c) + Rem(c) = c.m /\ c.m >= 1
      /\ \E j \in Nat : FullRows(c) = j * (2 * TR)
  BY RowFacts, CallFacts
<1>2. a.np = np /\ a.mb = 0 /\ a.nb = np /\ a.tail = (FullRows(c) = 0)
      /\ a \in [np : Nat, tail : BOOLEAN, mb : Nat, nb : Nat]
  BY DEF Start
<1> HIDE DEF a
<1>3. np < PanelEnd(c, np)
  BY PanelFacts
<1>4. (a.nb - a.np) % Width(c, a) = 0
  BY <1>2 DEF Width
<1>5. IF a.tail THEN Rem(c) > 0 /\ a.mb = FullRows(c)
      ELSE \E j \in Nat : j >= 1 /\ FullRows(c) = a.mb + j * (2 * TR)
  <2>1. CASE FullRows(c) = 0
    BY <1>1, <1>2, <2>1
  <2>2. CASE FullRows(c) # 0
    <3>1. PICK j \in Nat : FullRows(c) = j * (2 * TR)
      BY <1>1
    <3>2. j # 0
      BY <2>2, <3>1, TileFacts
    <3>3. FullRows(c) = a.mb + j * (2 * TR) /\ j >= 1
      BY <1>1, <1>2, <3>1, <3>2
    <3> QED BY <1>2, <2>2, <3>3
  <2> QED BY <2>1, <2>2
<1>6. BlockOK(c, a)
  BY <1>2, <1>3, <1>4, <1>5 DEF BlockOK
<1>7. \A x \in Cells(c) : Passed(c, a, x) => x[2] < np
  <2> SUFFICES ASSUME NEW x \in Cells(c), Passed(c, a, x) PROVE x[2] < np
    OBVIOUS
  <2>1. x[1] \in Nat /\ x[2] \in Int
    BY CallFacts DEF Cells
  <2> QED BY <1>2, <2>1 DEF Passed
<1> QED BY <1>6, <1>7 DEF a

\* The next block is one too, and nothing lies between them.
LEMMA AdvanceOK ==
  ASSUME NEW c \in Calls, NEW a, BlockOK(c, a)
  PROVE  LET b == Advance(c, a)
         IN  /\ ~AtEnd(c, b) => BlockOK(c, b)
             /\ \A x \in Cells(c) : AtEnd(c, b) \/ Passed(c, b, x) =>
                  Passed(c, a, x) \/ x \in BlockCells(c, a)
<1> DEFINE b == Advance(c, a)  w == Width(c, a)  h == Height(c, a)  end == PanelEnd(c, a.np)
<1>1. /\ a.np \in Nat /\ a.tail \in BOOLEAN /\ a.mb \in Nat /\ a.nb \in Nat
      /\ w \in {2, 4} /\ h \in Nat /\ h >= 1 /\ a.mb + h <= c.m
      /\ a.nb + w <= end /\ end \in Nat /\ end <= c.n1 /\ c.n0 <= a.nb
      /\ a.np <= a.nb /\ (a.nb - a.np) % w = 0 /\ (end - a.np) % 4 = 0
  BY BlockFacts
<1>2. /\ a \in [np : Nat, tail : BOOLEAN, mb : Nat, nb : Nat]
      /\ c.n0 <= a.np /\ a.np < c.n1 /\ (a.np - c.n0) % 4 = 0
      /\ IF a.tail THEN Rem(c) > 0 /\ a.mb = FullRows(c)
         ELSE \E j \in Nat : j >= 1 /\ FullRows(c) = a.mb + j * (2 * TR)
  BY DEF BlockOK
<1>3. c.m \in Nat /\ c.n0 \in Nat /\ c.n1 \in Nat /\ c.panel \in Nat /\ c.panel >= 1
  BY CallFacts
<1>4. /\ FullRows(c) \in Nat /\ Rem(c) \in Nat /\ FullRows(c) + Rem(c) = c.m
      /\ TR \in Nat /\ TR >= 1
  BY RowFacts, TileFacts
<1>5. /\ a.np < end
      /\ end = c.n1 \/ end = a.np + c.panel
      /\ a.np + c.panel >= c.n1 => end = c.n1
      /\ (a.np + c.panel - c.n0) % 4 = 0
  BY <1>1, <1>2, PanelFacts
<1>6. \A x \in Cells(c) :
        /\ x[1] \in Nat /\ x[1] < c.m /\ x[2] \in Nat /\ x[2] < c.n1 /\ c.n0 <= x[2]
        /\ a.mb <= x[1] /\ x[1] < a.mb + h /\ a.nb <= x[2] /\ x[2] < a.nb + w
             => x \in BlockCells(c, a)
  <2> SUFFICES ASSUME NEW x \in Cells(c)
               PROVE  /\ x[1] \in Nat /\ x[1] < c.m /\ x[2] \in Nat /\ x[2] < c.n1 /\ c.n0 <= x[2]
                      /\ a.mb <= x[1] /\ x[1] < a.mb + h /\ a.nb <= x[2] /\ x[2] < a.nb + w
                           => x \in BlockCells(c, a)
    OBVIOUS
  <2>1. /\ x[1] \in 0 .. (c.m - 1) /\ x[2] \in c.n0 .. (c.n1 - 1) /\ x = <<x[1], x[2]>>
    BY DEF Cells
  <2>2. x[1] \in Nat /\ x[1] < c.m /\ x[2] \in Nat /\ x[2] < c.n1 /\ c.n0 <= x[2]
    BY <1>3, <2>1
  <2>3. ASSUME a.mb <= x[1], x[1] < a.mb + h, a.nb <= x[2], x[2] < a.nb + w
        PROVE  <<x[1], x[2]>> \in BlockCells(c, a)
    BY <2>2, <2>3, BlockAll
  <2> QED BY <2>1, <2>2, <2>3
<1>7. w = IF Paired(c, a) THEN 2 ELSE 4
  BY DEF Width
\* Along the columns of the panel.
<1>8. CASE a.nb + w < end
  <2>1. b = [a EXCEPT !.nb = a.nb + w]
    BY <1>7, <1>8 DEF Advance
  <2>2. /\ b.np = a.np /\ b.mb = a.mb /\ b.tail = a.tail /\ b.nb = a.nb + w
        /\ b \in [np : Nat, tail : BOOLEAN, mb : Nat, nb : Nat]
    BY <1>1, <1>2, <2>1
  <2> HIDE DEF b
  <2>3. Width(c, b) = w /\ Height(c, b) = h
    BY <2>2 DEF Width, Height, Paired
  <2> HIDE DEF w, h
  <2>4. (b.nb - b.np) % Width(c, b) = 0
    BY <1>1, <2>2, <2>3
  <2>5. BlockOK(c, b)
    BY <1>1, <1>2, <1>8, <2>2, <2>4 DEF BlockOK
  <2>6. ASSUME NEW x \in Cells(c), AtEnd(c, b) \/ Passed(c, b, x)
        PROVE  Passed(c, a, x) \/ x \in BlockCells(c, a)
    <3>1. Passed(c, b, x)
      BY <1>1, <1>2, <1>3, <2>2, <2>6 DEF AtEnd
    <3> QED BY <1>1, <1>6, <2>2, <2>3, <3>1 DEF Passed, h
  <2> QED BY <2>5, <2>6 DEF b
\* To the next rows of the panel, or to its tail.
<1>9. CASE a.nb + w >= end /\ ~a.tail /\ (a.mb + 2 * TR < FullRows(c) \/ Rem(c) > 0)
  <2> DEFINE mb == a.mb + 2 * TR
  <2>0. ~(a.nb + w < end) /\ a.nb + w = end
    BY <1>1, <1>9
  <2>1. /\ b.np = a.np /\ b.nb = a.np /\ b.mb = mb /\ b.tail = ~(mb < FullRows(c))
        /\ b \in [np : Nat, tail : BOOLEAN, mb : Nat, nb : Nat]
        /\ BlockOK(c, b)
    <3>1. PICK j \in Nat : j >= 1 /\ FullRows(c) = a.mb + j * (2 * TR)
      BY <1>2, <1>9
    <3> DEFINE v == 2 * TR
    <3>2. v \in Nat /\ v >= 1 /\ FullRows(c) = a.mb + j * v
      BY <1>4, <3>1
    <3>3. FullRows(c) = mb + (j - 1) * v
      <4>1. j * v = v + (j - 1) * v
        BY <3>1, <3>2
      <4> HIDE DEF v
      <4> QED BY <1>1, <3>2, <4>1 DEF v
    <3>4. j = 1 => FullRows(c) = mb
      BY <1>1, <1>4, <3>3
    <3>5. j > 1 => mb < FullRows(c)
      <4>1. j > 1 => (j - 1) * v >= v
        BY <3>1, <3>2
      <4> HIDE DEF v
      <4> QED BY <1>1, <1>4, <3>1, <3>2, <3>3, <4>1 DEF v
    <3> HIDE DEF v
    <3>6. CASE mb < FullRows(c)
      <4>1. b = [a EXCEPT !.mb = a.mb + 2 * TR, !.nb = a.np]
        BY <1>7, <1>9, <2>0, <3>6 DEF Advance
      <4> HIDE DEF b
      <4>2. /\ b.np = a.np /\ b.nb = a.np /\ b.mb = mb /\ b.tail = a.tail
            /\ b \in [np : Nat, tail : BOOLEAN, mb : Nat, nb : Nat]
        <5>1. mb \in Nat /\ b = [a EXCEPT !.mb = mb, !.nb = a.np]
          BY <1>1, <1>4, <4>1
        <5> HIDE DEF mb
        <5> QED BY <1>1, <1>2, <5>1
      <4>3. (b.nb - b.np) % Width(c, b) = 0
        BY <1>1, <4>2 DEF Width
      <4>4. j - 1 \in Nat /\ j - 1 >= 1
        BY <3>1, <3>4, <3>6, <1>4
      <4>5. \E k \in Nat : k >= 1 /\ FullRows(c) = b.mb + k * (2 * TR)
        <5> DEFINE i == j - 1
        <5>1. i \in Nat /\ i >= 1 /\ FullRows(c) = b.mb + i * v
          BY <3>3, <4>2, <4>4
        <5> HIDE DEF i
        <5> QED BY <5>1 DEF v
      <4> QED BY <1>1, <1>2, <1>5, <1>9, <3>6, <4>2, <4>3, <4>5 DEF BlockOK
    <3>7. CASE ~(mb < FullRows(c))
      <4>1. Rem(c) > 0 /\ mb = FullRows(c)
        BY <1>9, <3>1, <3>4, <3>5, <3>7
      <4>2. b = [a EXCEPT !.tail = TRUE, !.mb = FullRows(c), !.nb = a.np]
        BY <1>7, <1>9, <2>0, <3>7, <4>1 DEF Advance
      <4>3. /\ b.np = a.np /\ b.nb = a.np /\ b.mb = mb /\ b.tail = TRUE
            /\ b \in [np : Nat, tail : BOOLEAN, mb : Nat, nb : Nat]
        BY <1>1, <1>2, <1>4, <4>1, <4>2
      <4> HIDE DEF b
      <4>4. (b.nb - b.np) % Width(c, b) = 0
        BY <1>1, <4>3 DEF Width
      <4> QED BY <1>1, <1>2, <1>5, <3>7, <4>1, <4>3, <4>4 DEF BlockOK
    <3> QED BY <3>6, <3>7
  <2> HIDE DEF b
  <2>2. h = 2 * TR
    BY <1>9 DEF Height
  <2>3. ASSUME NEW x \in Cells(c), AtEnd(c, b) \/ Passed(c, b, x)
        PROVE  Passed(c, a, x) \/ x \in BlockCells(c, a)
    <3>1. Passed(c, b, x)
      BY <1>1, <1>2, <1>3, <2>1, <2>3 DEF AtEnd
    <3>2. x[2] < a.np \/ (x[2] < end /\ x[1] < a.mb + h)
      BY <1>1, <1>6, <2>1, <2>2, <3>1 DEF Passed
    <3> HIDE DEF w, h
    <3> QED BY <1>1, <1>6, <2>0, <3>2 DEF Passed, h
  <2> QED BY <2>1, <2>3 DEF b
\* To the next panel, or out.
<1>10. CASE a.nb + w >= end /\ (a.tail \/ ~(a.mb + 2 * TR < FullRows(c) \/ Rem(c) > 0))
  <2>0. ~(a.nb + w < end) /\ a.nb + w = end
    BY <1>1, <1>10
  <2>1. b = Start(c, a.np + c.panel)
    <3>1. ~(~a.tail /\ a.mb + 2 * TR < FullRows(c)) /\ ~(~a.tail /\ Rem(c) > 0)
      BY <1>10
    <3> QED BY <1>7, <2>0, <3>1 DEF Advance
  <2>2. b.np = a.np + c.panel /\ a.np + c.panel \in Nat /\ c.n0 <= a.np + c.panel
    BY <1>1, <1>2, <1>3, <2>1 DEF Start
  <2>3. ~AtEnd(c, b) => /\ BlockOK(c, b)
                        /\ \A x \in Cells(c) : Passed(c, b, x) => x[2] < a.np + c.panel
    <3>1. ~AtEnd(c, b) => a.np + c.panel < c.n1
      BY <1>3, <2>2 DEF AtEnd
    <3> DEFINE np == a.np + c.panel
    <3> HIDE DEF b
    <3>2. np \in Nat /\ c.n0 <= np /\ b = Start(c, np)
      BY <2>1, <2>2
    <3>3. (np - c.n0) % 4 = 0
      <4>1. np - c.n0 = a.np + c.panel - c.n0
        BY <1>1, <1>3
      <4> QED BY <1>5, <4>1
    <3> HIDE DEF np
    <3>4. np < c.n1 => /\ BlockOK(c, Start(c, np))
                       /\ \A x \in Cells(c) : Passed(c, Start(c, np), x) => x[2] < np
      BY <3>2, <3>3, StartOK
    <3> QED BY <3>1, <3>2, <3>4 DEF np
  <2>4. a.mb + h = c.m
    <3>1. CASE a.tail
      BY <1>2, <1>4, <3>1 DEF Height
    <3>2. CASE ~a.tail
      <4>1. PICK j \in Nat : j >= 1 /\ FullRows(c) = a.mb + j * (2 * TR)
        BY <1>2, <3>2
      <4> DEFINE v == 2 * TR
      <4>2. v \in Nat /\ v >= 1 /\ FullRows(c) = a.mb + j * v /\ h = v
        BY <1>4, <3>2, <4>1 DEF Height
      <4>3. j * v >= v
        BY <4>1, <4>2
      <4> HIDE DEF v, h
      <4>4. ~(a.mb + v < FullRows(c)) /\ ~(Rem(c) > 0)
        BY <1>10, <3>2 DEF v
      <4> QED BY <1>1, <1>3, <1>4, <4>1, <4>2, <4>3, <4>4
    <3> QED BY <1>1, <3>1, <3>2
  <2>5. ASSUME NEW x \in Cells(c), AtEnd(c, b) \/ Passed(c, b, x)
        PROVE  Passed(c, a, x) \/ x \in BlockCells(c, a)
    <3>1. x[2] < end
      <4>1. CASE AtEnd(c, b)
        BY <1>1, <1>3, <1>5, <1>6, <2>2, <4>1 DEF AtEnd
      <4>2. CASE ~AtEnd(c, b)
        <5>1. x[2] < a.np + c.panel
          BY <2>3, <2>5, <4>2
        <5> QED BY <1>1, <1>3, <1>5, <1>6, <5>1
      <4> QED BY <4>1, <4>2
    <3> HIDE DEF w, h, b
    <3>2. x[1] < a.mb + h
      BY <1>6, <2>4
    <3> QED BY <1>1, <1>6, <2>0, <3>1, <3>2 DEF Passed, h
  <2> QED BY <2>3, <2>5
<1>11. a.nb + w < end \/ a.nb + w >= end
  BY <1>1
<1> QED BY <1>8, <1>9, <1>10, <1>11

\* A block holds no cell of those before it.
LEMMA NotPassed ==
  ASSUME NEW c \in Calls, NEW a, BlockOK(c, a), NEW x \in BlockCells(c, a)
  PROVE  ~Passed(c, a, x)
<1>1. PICK i \in Tiles : x \in TileCells(c, a, i)
  BY DEF BlockCells
<1>2. PICK r \in 0 .. (TileRows(c, a, i) - 1) : x = <<TileRow(c, a, i) + r, TileCol(c, a, i)>>
  BY <1>1 DEF TileCells
<1>3. /\ TileRow(c, a, i) \in Nat /\ TileCol(c, a, i) \in Nat
      /\ a.mb <= TileRow(c, a, i) /\ a.nb <= TileCol(c, a, i)
  BY TilePlace
<1>4. a.mb \in Nat /\ a.nb \in Nat /\ a.np \in Nat /\ a.np <= a.nb
  BY BlockFacts
<1>5. x[1] \in Nat /\ a.mb <= x[1] /\ x[2] \in Nat /\ a.nb <= x[2]
  <2> DEFINE y == TileRow(c, a, i)  z == TileCol(c, a, i)
  <2>1. x[1] = y + r /\ x[2] = z /\ r \in Nat
    BY <1>2
  <2>2. y \in Nat /\ z \in Nat /\ a.mb <= y /\ a.nb <= z
    BY <1>3
  <2> HIDE DEF y, z
  <2> QED BY <1>4, <2>1, <2>2
<1> QED BY <1>4, <1>5 DEF Passed

-----------------------------------------------------------------------------
(* A tile: what an accumulator holds after step k of a group that began at lo *)

Base(g) == IF g THEN Sentinel ELSE 0

\* It counted every step once.
Counted(c, a, g, lo, i, s, k) ==
  \A r \in DOMAIN s :
    s[r] = Base(g) + Sum(<<TileRow(c, a, i) + r, TileCol(c, a, i)>>, lo, k)

\* It was reset on the way: what it holds is below what the check lets pass.
Lost(g, lo, s, k) ==
  g /\ \A r \in DOMAIN s : s[r] \in Int /\ s[r] <= (k - lo) * MaxTerm

TileFine(c, a, g, lo, i, s, k) ==
  /\ DOMAIN s = 0 .. TileRows(c, a, i) - 1
  /\ Counted(c, a, g, lo, i, s, k) \/ Lost(g, lo, s, k)

\* A seeded tile.
LEMMA SeedFine ==
  ASSUME NEW c \in Calls, NEW a, BlockOK(c, a), NEW i \in Tiles, NEW g, NEW lo \in 0 .. KB - 1,
         NEW s, s = [r \in 0 .. (TileRows(c, a, i) - 1) |-> IF g THEN Sentinel ELSE 0]
  PROVE  TileFine(c, a, g, lo, i, s, lo)
<1>1. ASSUME NEW r \in 0 .. (TileRows(c, a, i) - 1)
      PROVE  s[r] = Base(g) + Sum(<<TileRow(c, a, i) + r, TileCol(c, a, i)>>, lo, lo)
  <2> DEFINE x == <<TileRow(c, a, i) + r, TileCol(c, a, i)>>
  <2>1. x \in Cells(c) /\ lo \in 0 .. KB
    BY TileInside, TileFacts
  <2> HIDE DEF x
  <2>2. Sum(x, lo, lo) = 0
    BY <2>1, SumIs
  <2>3. s[r] = Base(g) /\ Base(g) \in Int
    BY TileFacts DEF Base
  <2> QED BY <2>2, <2>3 DEF x
<1> QED BY <1>1 DEF TileFine, Counted

\* One product: a step counted, or one more on what was lost; operands that were reset
\* leave a tile that was reset with them as it is.
LEMMA ProductFine ==
  ASSUME NEW c \in Calls, NEW a, BlockOK(c, a), NEW i \in Tiles, NEW g, NEW o,
         NEW lo \in 0 .. KB - 1, NEW k \in lo .. KB - 1,
         NEW s, TileFine(c, a, g, lo, i, s, k), ~o => Lost(g, lo, s, k),
         NEW s2, s2 = [r \in DOMAIN s |->
                         s[r] + (IF o THEN Term[TileRow(c, a, i) + r][TileCol(c, a, i)][k] ELSE 0)]
  PROVE  TileFine(c, a, g, lo, i, s2, k + 1) /\ (~o => Lost(g, lo, s2, k + 1))
<1> DEFINE x(r) == <<TileRow(c, a, i) + r, TileCol(c, a, i)>>
           term(r) == Term[TileRow(c, a, i) + r][TileCol(c, a, i)][k]
<1>1. DOMAIN s2 = DOMAIN s /\ DOMAIN s = 0 .. TileRows(c, a, i) - 1
      /\ \A r \in DOMAIN s : s2[r] = s[r] + (IF o THEN term(r) ELSE 0)
  BY DEF TileFine
<1>2. k \in 0 .. KB - 1 /\ lo \in 0 .. KB /\ k \in lo .. KB /\ k \in Int /\ lo \in Int
  BY TileFacts
<1>3. ASSUME NEW r \in DOMAIN s
      PROVE  /\ term(r) \in Int /\ term(r) <= MaxTerm
             /\ Sum(x(r), lo, k) \in Int /\ Sum(x(r), lo, k + 1) = Sum(x(r), lo, k) + term(r)
  <2>1. x(r) \in Cells(c)
    BY <1>1, TileInside
  <2>2. x(r)[1] = TileRow(c, a, i) + r /\ x(r)[2] = TileCol(c, a, i)
    OBVIOUS
  <2>3. term(r) = Term[x(r)[1]][x(r)[2]][k]
    BY <2>2
  <2> HIDE DEF x, term
  <2>4. term(r) \in Int /\ term(r) <= MaxTerm
    BY <1>2, <2>1, <2>3, TermType
  <2>5. Sum(x(r), lo, k) \in Int /\ Sum(x(r), lo, k + 1) = Sum(x(r), lo, k) + Term[x(r)[1]][x(r)[2]][k]
    BY <1>2, <2>1, SumIs
  <2> QED BY <2>3, <2>4, <2>5
<1>4. Base(g) \in Int
  BY TileFacts DEF Base
<1> HIDE DEF term
<1>5. ASSUME Counted(c, a, g, lo, i, s, k), o PROVE Counted(c, a, g, lo, i, s2, k + 1)
  <2> SUFFICES ASSUME NEW r \in DOMAIN s
               PROVE  s2[r] = Base(g) + Sum(x(r), lo, k + 1)
    BY <1>1 DEF Counted
  <2>1. s[r] = Base(g) + Sum(x(r), lo, k)
    BY <1>5 DEF Counted
  <2>2. s2[r] = s[r] + term(r)
    BY <1>1, <1>5
  <2> HIDE DEF x
  <2> QED BY <1>3, <1>4, <2>1, <2>2
<1>6. ASSUME Lost(g, lo, s, k) PROVE Lost(g, lo, s2, k + 1)
  <2>1. (k + 1 - lo) * MaxTerm = (k - lo) * MaxTerm + MaxTerm /\ (k - lo) * MaxTerm \in Int
        /\ MaxTerm \in Nat
    BY <1>2, TileFacts
  <2> DEFINE was == (k - lo) * MaxTerm  now == (k + 1 - lo) * MaxTerm
  <2>2. g /\ \A r \in DOMAIN s : s[r] \in Int /\ s[r] <= was
    BY <1>6 DEF Lost
  <2> HIDE DEF was, now
  <2>3. now = was + MaxTerm /\ was \in Int /\ MaxTerm \in Nat
    BY <2>1 DEF was, now
  <2>4. ASSUME NEW r \in DOMAIN s PROVE s2[r] \in Int /\ s2[r] <= now
    <3>1. s[r] \in Int /\ s[r] <= was /\ term(r) \in Int /\ term(r) <= MaxTerm
      BY <1>3, <2>2
    <3>2. s2[r] = s[r] + (IF o THEN term(r) ELSE 0)
      BY <1>1
    <3> QED BY <2>3, <3>1, <3>2
  <2> QED BY <1>1, <2>2, <2>4 DEF Lost, now
<1> HIDE DEF x
<1> QED BY <1>1, <1>5, <1>6 DEF TileFine

\* A reset tile.
LEMMA ResetFine ==
  ASSUME NEW c, NEW a, NEW i, NEW g, g, NEW lo \in 0 .. KB, NEW k \in lo .. KB,
         NEW s, TileFine(c, a, g, lo, i, s, k), NEW s2, s2 = [r \in DOMAIN s |-> 0]
  PROVE  TileFine(c, a, g, lo, i, s2, k) /\ Lost(g, lo, s2, k)
<1>1. (k - lo) * MaxTerm >= 0
  <2>1. k - lo \in Nat /\ MaxTerm \in Nat
    BY TileFacts
  <2> DEFINE n == k - lo
  <2> HIDE DEF n
  <2>2. n * MaxTerm \in Nat
    BY <2>1 DEF n
  <2> QED BY <2>2 DEF n
<1> DEFINE top == (k - lo) * MaxTerm
<1> HIDE DEF top
<1>2. \A r \in DOMAIN s2 : s2[r] \in Int /\ s2[r] <= top
  BY <1>1 DEF top
<1>3. Lost(g, lo, s2, k)
  BY <1>2 DEF Lost, top
<1> QED BY <1>3 DEF TileFine

\* A tile the check lets pass counted every step.
LEMMA CheckFine ==
  ASSUME NEW c, NEW a, NEW i, NEW g, NEW lo \in 0 .. KB, NEW k \in lo .. KB,
         NEW s, TileFine(c, a, g, lo, i, s, k), g => TileIntact(s)
  PROVE  Counted(c, a, g, lo, i, s, k)
<1>1. SUFFICES ASSUME Lost(g, lo, s, k) PROVE Counted(c, a, g, lo, i, s, k)
  BY DEF TileFine
<1>2. (k - lo) * MaxTerm < SentMin
  <2> DEFINE n == k - lo
  <2>1. n \in Nat /\ n <= KB /\ MaxTerm \in Nat /\ KB \in Nat /\ SentMin \in Int
        /\ KB * MaxTerm < SentMin
    BY TileFacts
  <2> HIDE DEF n
  <2>2. n * MaxTerm <= KB * MaxTerm /\ n * MaxTerm \in Nat /\ KB * MaxTerm \in Nat
    BY <2>1
  <2>3. n * MaxTerm < SentMin
    BY <2>1, <2>2
  <2> QED BY <2>3 DEF n
<1> DEFINE top == (k - lo) * MaxTerm
<1>3. g /\ \A r \in DOMAIN s : s[r] \in Int /\ s[r] <= top /\ s[r] >= SentMin
  BY <1>1 DEF Lost, TileIntact
<1>4. top < SentMin /\ top \in Int /\ SentMin \in Int
  <2>1. k - lo \in Nat /\ MaxTerm \in Nat
    BY TileFacts
  <2> QED BY <1>2, <2>1, TileFacts
<1> HIDE DEF top
<1> QED
  <2> SUFFICES ASSUME NEW r \in DOMAIN s PROVE FALSE
    BY DEF Counted
  <2> QED BY <1>3, <1>4

\* What the drain reads of a counted block.
LEMMA DrainFine ==
  ASSUME NEW c \in Calls, NEW a, BlockOK(c, a), NEW g,
         NEW lo \in 0 .. KB, NEW k \in lo .. KB, NEW bufs,
         \A i \in Tiles : /\ DOMAIN bufs[i] = 0 .. TileRows(c, a, i) - 1
                          /\ Counted(c, a, g, lo, i, bufs[i], k),
         NEW x \in BlockCells(c, a)
  PROVE  LET i == CHOOSE i \in Tiles : x \in TileCells(c, a, i)
         IN  bufs[i][x[1] - TileRow(c, a, i)] - Base(g) = Sum(x, lo, k)
<1> DEFINE i == CHOOSE i \in Tiles : x \in TileCells(c, a, i)
<1>1. i \in Tiles /\ x \in TileCells(c, a, i)
  BY DEF BlockCells
<1> HIDE DEF i
<1>2. PICK r \in 0 .. (TileRows(c, a, i) - 1) : x = <<TileRow(c, a, i) + r, TileCol(c, a, i)>>
  BY <1>1 DEF TileCells
<1>3. TileRow(c, a, i) \in Nat /\ x[1] - TileRow(c, a, i) = r
  BY <1>1, <1>2, TilePlace
<1>4. bufs[i][r] = Base(g) + Sum(x, lo, k)
  BY <1>1, <1>2 DEF Counted
<1>5. Sum(x, lo, k) \in Int /\ Base(g) \in Int
  BY BlockInside, SumIs, TileFacts DEF Base
<1>6. bufs[i][x[1] - TileRow(c, a, i)] - Base(g) = Sum(x, lo, k)
  BY <1>3, <1>4, <1>5
<1> QED BY <1>6 DEF i
-----------------------------------------------------------------------------
(* The invariant.  On a machine that keeps its tiles, or under the guard, what *)
(* is passed is right, what the cells of an int4 block hold is the product of  *)
(* the groups drained so far, and every tile either counted every step or was  *)
(* reset and is below what the check lets pass.                                *)

Holds == guarded \/ host.preserves

\* The place of tile i among the products of a step, and the steps it has seen.
Turn(c, a, i) == IF Paired(c, a) /\ i \in {1, 2} THEN 3 - i ELSE i
Steps(i) == IF pc = "dp" /\ Turn(call, at, i) < t THEN kb + 1 ELSE kb

Fine(tiles, i, k) == TileFine(call, at, guarded, kb0, i, tiles[i], k)
TilesInv ==
  /\ pc = "seed" => \A i \in Tiles : i < t => Fine(acc, i, kb)
  /\ pc \in {"load", "dp", "store"} => \A i \in Tiles : Fine(acc, i, Steps(i))
  /\ pc = "dp" /\ ~ops => \A i \in Tiles : Lost(guarded, kb0, acc[i], Steps(i))
  /\ pc = "store" => \A i \in Tiles : i < t => Fine(buf, i, kb)
  /\ pc = "check" => \A i \in Tiles : Fine(buf, i, kb)

\* The group the kernel is in.
InGroup(g) ==
  /\ kb0 = g * GroupLen(call)
  /\ Holds /\ call.q4 /\ pc # "clear" =>
       \A x \in BlockCells(call, at) : C[x] = Products(call, x)[g]
GroupInv == \E g \in 0 .. (KB \div GroupLen(call)) - 1 : InGroup(g)

PcInv ==
  /\ pc \in {"clear", "load", "check"} => t = 0
  /\ pc \in {"clear", "seed"} => kb = kb0
  /\ pc = "clear" => kb0 = 0
  /\ pc \in {"load", "dp"} => kb0 <= kb /\ kb < kb0 + GroupLen(call)
  /\ pc \in {"store", "check"} => kb = kb0 + GroupLen(call)

DoneInv ==
  Holds => \A x \in Cells(call) : Passed(call, at, x) => x \in gaveUp \/ C[x] = Ref(call, x)

GemmInv ==
  /\ backend = "amx" /\ call \in Calls /\ BlockOK(call, at)
  /\ DOMAIN C = Cells(call) /\ gaveUp \subseteq Cells(call)
  /\ PcInv /\ GroupInv /\ DoneInv /\ (Holds => TilesInv)

Fresh == phase \in {"backend", "detect", "pool", "enter"} =>
           t = 0 /\ kb = 0 /\ kb0 = 0 /\ att = 0 /\ gaveUp = {}

TileInv == /\ TypeOK /\ DOMAIN acc = Tiles /\ DOMAIN buf = Tiles
           /\ Fresh /\ (phase = "gemm" => GemmInv) /\ Exact

LEMMA InitFine == Init => TileInv
<1> SUFFICES ASSUME Init PROVE TileInv
  OBVIOUS
<1>1. 0 \in 0 .. KB /\ 0 \in 0 .. MaxRetry - 1 /\ 0 \in Tiles /\ 1 \in 1 .. Probes
  BY TileFacts DEF Tiles, Probes
<1>2. TypeOK
  BY <1>1 DEF Init, Idle, TypeOK
<1> QED BY <1>2 DEF Init, Idle, TileInv, Fresh, Exact

\* What the invariant says of a kernel under way.
LEMMA InKernel ==
  ASSUME TileInv, phase = "gemm"
  PROVE  /\ call \in Calls /\ BlockOK(call, at) /\ t \in Tiles
         /\ kb \in Nat /\ kb <= KB /\ kb0 \in 0 .. KB - 1 /\ kb0 \in Nat
         /\ GroupLen(call) \in Nat /\ GroupLen(call) >= 1 /\ kb0 + GroupLen(call) <= KB
         /\ pc \in {"clear", "seed", "load", "dp", "store", "check"}
         /\ KB \in Nat
<1>1. GemmInv /\ t \in Tiles /\ kb \in 0 .. KB /\ kb0 \in 0 .. KB
      /\ pc \in {"clear", "seed", "load", "dp", "store", "check"}
  BY DEF TileInv, TypeOK
<1>2. PICK g \in 0 .. (KB \div GroupLen(call)) - 1 : kb0 = g * GroupLen(call)
  BY <1>1 DEF GemmInv, GroupInv, InGroup
<1>3. call \in Calls /\ BlockOK(call, at)
  BY <1>1 DEF GemmInv
<1> DEFINE size == GroupLen(call)
<1>4. /\ size \in Nat /\ size >= 1 /\ g * size \in 0 .. KB - 1
      /\ (g + 1) * size \in 0 .. KB /\ (g + 1) * size = g * size + size
  BY <1>2, <1>3, GroupsOf
<1>5. kb0 = g * size
  BY <1>2
<1> HIDE DEF size
<1>6. kb0 \in 0 .. KB - 1 /\ kb0 + size <= KB
  BY <1>4, <1>5, TileFacts
<1> QED BY <1>1, <1>3, <1>4, <1>6, TileFacts DEF size

\* A step that stays in the kernel.
LEMMA Stays ==
  ASSUME TileInv, phase = "gemm", UNCHANGED <<setup, phase, call, guarded>>,
         ops' \in BOOLEAN, pc' \in {"clear", "seed", "load", "dp", "store", "check"},
         t' \in Tiles, kb' \in 0 .. KB, kb0' \in 0 .. KB, att' \in 0 .. MaxRetry - 1,
         DOMAIN acc' = Tiles, DOMAIN buf' = Tiles, GemmInv'
  PROVE  TileInv'
<1>1. BlockOK(call', at') /\ call' \in Calls
  BY DEF GemmInv
<1>2. BlockCells(call', at') \subseteq Cells(call')
  BY <1>1, BlockInside
<1>3. ~AtEnd(call', at')
  BY <1>1, CallFacts DEF BlockOK, AtEnd
<1>4. TypeOK'
  BY <1>1, <1>2, <1>3 DEF TileInv, TypeOK, GemmInv, setup
<1> QED BY <1>4 DEF TileInv, Fresh, Exact

LEMMA BackendFine == TileInv /\ Backend => TileInv'
<1> SUFFICES ASSUME TileInv, Backend PROVE TileInv'
  OBVIOUS
<1>1. phase = "backend" /\ phase' \in {"detect", "panic"} /\ TypeOK
  BY DEF Backend, TileInv
<1>2. backend' \in {"none", "amx", "vnni"} /\ perm' \in BOOLEAN
  BY <1>1 DEF Backend, AmxInit, TypeOK
<1>3. UNCHANGED <<host, env, guard, stage, kernel>>
  BY DEF Backend
<1>4. TypeOK'
  BY <1>1, <1>2, <1>3 DEF TypeOK, kernel
<1> QED BY <1>1, <1>3, <1>4 DEF TileInv, Fresh, Exact, kernel

LEMMA AutodetectFine == TileInv /\ Autodetect => TileInv'
<1> SUFFICES ASSUME TileInv, Autodetect PROVE TileInv'
  OBVIOUS
<1>1. phase = "detect" /\ phase' = "pool" /\ TypeOK
  BY DEF Autodetect, TileInv
<1>2. guard' \in {"unset", "on", "off"} /\ UNCHANGED <<host, env, backend, perm, stage, kernel>>
  BY <1>1 DEF Autodetect, TypeOK
<1>3. TypeOK'
  BY <1>1, <1>2 DEF TypeOK, kernel
<1> QED BY <1>1, <1>2, <1>3 DEF TileInv, Fresh, Exact, kernel

LEMMA ProbeFine == TileInv /\ Probe => TileInv'
<1> SUFFICES ASSUME TileInv, Probe PROVE TileInv'
  OBVIOUS
<1>1. phase = "detect" /\ TypeOK /\ UNCHANGED <<host, env, backend, perm, kernel>>
  BY DEF Probe, TileInv
<1>2. /\ phase' \in {"pool", "detect", "sigill"} /\ guard' \in {"unset", "on", "off"}
      /\ stage' \in 1 .. Probes
  <2>1. CASE ~perm
    BY <1>1, <2>1 DEF Probe, TypeOK
  <2>2. CASE perm
    <3>1. PICK bad \in BOOLEAN :
            /\ guard' = IF bad THEN "on" ELSE IF stage = Probes THEN "off" ELSE guard
            /\ phase' = IF bad \/ stage = Probes THEN "pool" ELSE "detect"
            /\ stage' = IF bad \/ stage = Probes THEN stage ELSE stage + 1
      BY <2>2 DEF Probe
    <3>2. stage \in 1 .. Probes /\ guard \in {"unset", "on", "off"}
      BY <1>1 DEF TypeOK
    <3>3. stage' \in 1 .. Probes
      BY <3>1, <3>2 DEF Probes
    <3> QED BY <3>1, <3>2, <3>3
  <2> QED BY <2>1, <2>2
<1>3. TypeOK'
  BY <1>1, <1>2 DEF TypeOK, kernel
<1> QED BY <1>1, <1>2, <1>3 DEF TileInv, Fresh, Exact, kernel

LEMMA PoolNewFine == TileInv /\ PoolNew => TileInv'
<1> SUFFICES ASSUME TileInv, PoolNew PROVE TileInv'
  OBVIOUS
<1>1. /\ phase = "pool" /\ phase' = "enter" /\ TypeOK
      /\ UNCHANGED <<host, env, backend, guard, stage, kernel>>
  BY DEF PoolNew, TileInv
<1>2. perm' \in BOOLEAN
  BY <1>1 DEF PoolNew, AmxInit, TypeOK
<1>3. TypeOK'
  BY <1>1, <1>2 DEF TypeOK, kernel
<1> QED BY <1>1, <1>3 DEF TileInv, Fresh, Exact, kernel

LEMMA EnterFine == TileInv /\ Enter => TileInv'
<1> SUFFICES ASSUME TileInv, Enter PROVE TileInv'
  OBVIOUS
<1>1. /\ phase = "enter" /\ TypeOK /\ t = 0 /\ kb = 0 /\ kb0 = 0 /\ att = 0 /\ gaveUp = {}
      /\ DOMAIN acc = Tiles /\ DOMAIN buf = Tiles
      /\ UNCHANGED <<setup, t, kb, kb0, att, acc, ops, buf, gaveUp>>
  BY DEF Enter, TileInv, Fresh
<1>2. PICK c \in Calls :
        /\ call' = c
        /\ \/ /\ backend = "vnni"
              /\ C' = [x \in Cells(c) |-> Ref(c, x)] /\ phase' = "done"
              /\ UNCHANGED <<at, guarded, pc>>
           \/ /\ backend = "amx" /\ ~perm
              /\ phase' = "sigill" /\ UNCHANGED <<at, guarded, pc, C>>
           \/ /\ backend = "amx" /\ perm
              /\ C' = [x \in Cells(c) |-> Stale] /\ phase' = "gemm"
              /\ at' = Start(c, c.n0) /\ guarded' = GuardOn /\ pc' = AttemptPc(c)
  BY DEF Enter
<1>3. CASE phase' = "done" /\ C' = [x \in Cells(c) |-> Ref(c, x)] /\ UNCHANGED <<at, guarded, pc>>
  <2>1. TypeOK'
    BY <1>1, <1>3 DEF TypeOK, setup
  <2>2. Exact'
    BY <1>2, <1>3 DEF Exact
  <2> QED BY <1>1, <1>3, <2>1, <2>2 DEF TileInv, Fresh
<1>4. CASE phase' = "sigill" /\ UNCHANGED <<at, guarded, pc, C>>
  <2>1. TypeOK'
    BY <1>1, <1>4 DEF TypeOK, setup
  <2> QED BY <1>1, <1>4, <2>1 DEF TileInv, Fresh, Exact
<1>5. CASE /\ backend = "amx" /\ C' = [x \in Cells(c) |-> Stale] /\ phase' = "gemm"
           /\ at' = Start(c, c.n0) /\ guarded' = GuardOn /\ pc' = AttemptPc(c)
  <2>1. /\ BlockOK(c, at')
        /\ \A x \in Cells(c) : Passed(c, at', x) => x[2] < c.n0
    <3> DEFINE np == c.n0
    <3>1. np \in Nat /\ c.n0 <= np /\ np < c.n1 /\ (np - c.n0) % 4 = 0
      BY CallFacts
    <3> HIDE DEF np
    <3>2. /\ BlockOK(c, Start(c, np))
          /\ \A x \in Cells(c) : Passed(c, Start(c, np), x) => x[2] < np
      BY <3>1, StartOK
    <3> QED BY <1>5, <3>2 DEF np
  <2>2. \A x \in Cells(c) : ~Passed(c, at', x)
    <3>1. \A x \in Cells(c) : x[2] \in Int /\ c.n0 \in Int /\ c.n0 <= x[2]
      BY CallFacts DEF Cells
    <3> QED BY <2>1, <3>1
  <2>3. BlockCells(c, at') \subseteq Cells(c) /\ ~AtEnd(c, at')
    <3>1. ~AtEnd(c, at')
      BY <2>1, CallFacts DEF BlockOK, AtEnd
    <3>2. BlockCells(c, at') \subseteq Cells(c)
      BY <2>1, BlockInside
    <3> QED BY <3>1, <3>2
  <2>4. guarded' \in BOOLEAN /\ pc' \in {"clear", "seed"} /\ (c.q4 => pc' = "clear")
    BY <1>5 DEF GuardOn, AttemptPc
  <2>5. DOMAIN C' = Cells(c) /\ gaveUp' = {}
    BY <1>1, <1>5
  <2>6. TypeOK'
    BY <1>1, <1>2, <1>5, <2>3, <2>4, <2>5 DEF TypeOK, setup
  <2>7. PcInv' /\ TilesInv'
    BY <1>1, <2>4 DEF PcInv, TilesInv, Tiles
  <2>8. GroupInv'
    <3>1. 0 \in 0 .. (KB \div GroupLen(c)) - 1 /\ 0 * GroupLen(c) = 0
      BY GroupsOf
    <3> QED BY <1>1, <1>2, <2>4, <3>1 DEF GroupInv, InGroup
  <2>9. DoneInv'
    BY <1>2, <2>2 DEF DoneInv
  <2>10. GemmInv'
    BY <1>1, <1>2, <1>5, <2>1, <2>5, <2>7, <2>8, <2>9 DEF GemmInv, setup
  <2> QED BY <1>1, <1>5, <2>6, <2>10 DEF TileInv, Fresh, Exact
<1> QED BY <1>2, <1>3, <1>4, <1>5

\* Leaving a block whose cells are right or given up.
LEMMA NextFine ==
  ASSUME TileInv, phase = "gemm", NextBlock, UNCHANGED <<setup, call, guarded, t, acc, ops, buf>>,
         t = 0, DOMAIN C' = Cells(call), gaveUp' \subseteq Cells(call),
         Holds => \A x \in Cells(call) :
                    Passed(call, at, x) \/ x \in BlockCells(call, at) =>
                      x \in gaveUp' \/ C'[x] = Ref(call, x)
  PROVE  TileInv'
<1> DEFINE a == Advance(call, at)
<1>1. call \in Calls /\ BlockOK(call, at) /\ TypeOK /\ backend = "amx"
      /\ DOMAIN acc = Tiles /\ DOMAIN buf = Tiles
  BY InKernel DEF TileInv, GemmInv
<1>2. /\ ~AtEnd(call, a) => BlockOK(call, a)
      /\ \A x \in Cells(call) : AtEnd(call, a) \/ Passed(call, a, x) =>
           Passed(call, at, x) \/ x \in BlockCells(call, at)
  BY <1>1, AdvanceOK
<1>3. /\ kb' = 0 /\ kb0' = 0 /\ att' = 0
      /\ \/ AtEnd(call, a) /\ phase' = "done" /\ UNCHANGED <<at, pc>>
         \/ ~AtEnd(call, a) /\ at' = a /\ pc' = AttemptPc(call) /\ phase' = phase
  BY DEF NextBlock
<1> HIDE DEF a
<1>4. 0 \in 0 .. KB /\ 0 \in 0 .. MaxRetry - 1
  BY TileFacts
<1>5. CASE AtEnd(call, a) /\ phase' = "done" /\ UNCHANGED <<at, pc>>
  <2>1. TypeOK'
    BY <1>1, <1>3, <1>4, <1>5 DEF TypeOK, setup
  <2>2. Exact'
    <3>1. Holds => \A x \in Cells(call) : x \in gaveUp' \/ C'[x] = Ref(call, x)
      BY <1>2, <1>5
    <3>2. host' = host /\ guarded' = guarded /\ call' = call /\ backend' = "amx"
      BY <1>1 DEF setup
    <3> QED BY <3>1, <3>2 DEF Exact, Holds
  <2> QED BY <1>1, <1>3, <1>5, <2>1, <2>2 DEF TileInv, Fresh
<1>6. CASE ~AtEnd(call, a) /\ at' = a /\ pc' = AttemptPc(call) /\ phase' = phase
  <2>1. pc' \in {"clear", "seed"} /\ (call.q4 => pc' = "clear")
    BY <1>6 DEF AttemptPc
  <2>2. PcInv' /\ TilesInv'
    BY <1>1, <1>3, <2>1 DEF PcInv, TilesInv, TypeOK, Tiles
  <2>3. GroupInv'
    <3>1. 0 \in 0 .. (KB \div GroupLen(call)) - 1 /\ 0 * GroupLen(call) = 0
      BY <1>1, GroupsOf
    <3> QED BY <1>3, <2>1, <3>1 DEF GroupInv, InGroup
  <2>4. DoneInv'
    BY <1>2, <1>6 DEF DoneInv, Holds, setup
  <2>5. GemmInv'
    BY <1>1, <1>2, <1>6, <2>2, <2>3, <2>4 DEF GemmInv, setup
  <2>6. pc' \in {"clear", "seed", "load", "dp", "store", "check"}
    BY <2>1
  <2> QED BY <1>1, <1>3, <1>4, <1>6, <2>5, <2>6, Stays DEF TypeOK
<1> QED BY <1>3, <1>5, <1>6

\* What a step of the kernel that leaves the place and the output alone keeps.
LEMMA SamePlace ==
  ASSUME TileInv, phase = "gemm",
         UNCHANGED <<setup, phase, call, at, guarded, kb0, att, C, gaveUp>>,
         pc # "clear", PcInv', Holds => TilesInv',
         ops' \in BOOLEAN, pc' \in {"clear", "seed", "load", "dp", "store", "check"},
         t' \in Tiles, kb' \in 0 .. KB, DOMAIN acc' = Tiles, DOMAIN buf' = Tiles
  PROVE  TileInv'
<1>1. GemmInv /\ TypeOK
  BY DEF TileInv
<1>2. GroupInv'
  <2>1. PICK g \in 0 .. (KB \div GroupLen(call)) - 1 : InGroup(g)
    BY <1>1 DEF GemmInv, GroupInv
  <2>2. InGroup(g)'
    BY <2>1 DEF InGroup, Holds, setup
  <2> QED BY <2>2 DEF GroupInv
<1>3. DoneInv'
  BY <1>1 DEF GemmInv, DoneInv, Holds, setup
<1>4. Holds' = Holds
  BY DEF Holds, setup
<1>5. GemmInv'
  BY <1>1, <1>2, <1>3, <1>4 DEF GemmInv, setup
<1>6. kb0' \in 0 .. KB /\ att' \in 0 .. MaxRetry - 1
  BY <1>1 DEF TypeOK
<1> QED BY <1>5, <1>6, Stays

LEMMA ClearFine == TileInv /\ Clear => TileInv'
<1> SUFFICES ASSUME TileInv, Clear PROVE TileInv'
  OBVIOUS
<1>1. /\ phase = "gemm" /\ pc = "clear" /\ C' = Cleared(C) /\ pc' = "seed"
      /\ UNCHANGED <<setup, phase, call, at, guarded, t, kb, kb0, att, acc, ops, buf, gaveUp>>
  BY DEF Clear
<1>2. GemmInv /\ TypeOK /\ DOMAIN acc = Tiles /\ DOMAIN buf = Tiles
  BY <1>1 DEF TileInv
<1>3. call \in Calls /\ BlockOK(call, at)
  BY <1>2 DEF GemmInv
<1>4. /\ DOMAIN C = Cells(call) /\ DOMAIN C' = Cells(call)
      /\ \A x \in Cells(call) : C'[x] = IF x \in BlockCells(call, at) THEN 0 ELSE C[x]
  BY <1>1, <1>2 DEF GemmInv, Cleared
<1>5. t = 0 /\ kb = kb0 /\ kb0 = 0
  BY <1>1, <1>2 DEF GemmInv, PcInv
<1>6. PcInv' /\ TilesInv'
  BY <1>1, <1>5 DEF PcInv, TilesInv, Tiles
<1>7. GroupInv'
  <2>1. 0 \in 0 .. (KB \div GroupLen(call)) - 1 /\ 0 * GroupLen(call) = 0
    BY <1>3, GroupsOf
  <2>2. \A x \in BlockCells(call, at) : C'[x] = 0 /\ Products(call, x)[0] = 0
    BY <1>3, <1>4, BlockInside, ProductIs
  <2> QED BY <1>1, <1>5, <2>1, <2>2 DEF GroupInv, InGroup
<1>8. DoneInv'
  <2> SUFFICES ASSUME Holds, NEW x \in Cells(call), Passed(call, at, x)
               PROVE  x \in gaveUp \/ C'[x] = Ref(call, x)
    BY <1>1 DEF DoneInv, Holds, setup
  <2>1. x \notin BlockCells(call, at)
    BY <1>3, NotPassed
  <2>2. x \in gaveUp \/ C[x] = Ref(call, x)
    BY <1>2 DEF GemmInv, DoneInv
  <2> QED BY <1>4, <2>1, <2>2
<1>9. GemmInv'
  BY <1>1, <1>2, <1>4, <1>6, <1>7, <1>8 DEF GemmInv, setup
<1> QED BY <1>1, <1>2, <1>9, Stays DEF TypeOK

LEMMA SeedStep == TileInv /\ Seed => TileInv'
<1> SUFFICES ASSUME TileInv, Seed PROVE TileInv'
  OBVIOUS
<1> DEFINE seeded == [r \in 0 .. (TileRows(call, at, t) - 1) |-> IF guarded THEN Sentinel ELSE 0]
<1>1. /\ phase = "gemm" /\ pc = "seed" /\ acc' = [acc EXCEPT ![t] = seeded]
      /\ IF t = 3 THEN t' = 0 /\ pc' = "load" ELSE t' = t + 1 /\ pc' = pc
      /\ UNCHANGED <<setup, phase, call, at, guarded, kb, kb0, att, ops, buf, C, gaveUp>>
  BY DEF Seed, EachTile
<1>2. GemmInv /\ TypeOK /\ DOMAIN acc = Tiles /\ DOMAIN buf = Tiles
  BY <1>1 DEF TileInv
<1>3. /\ call \in Calls /\ BlockOK(call, at) /\ t \in Tiles /\ kb = kb0 /\ kb0 \in 0 .. KB - 1
      /\ kb0 \in Nat /\ GroupLen(call) \in Nat /\ GroupLen(call) >= 1
  BY <1>1, <1>2, InKernel DEF GemmInv, PcInv
<1>4. TileFine(call, at, guarded, kb0, t, seeded, kb0)
  BY <1>3, SeedFine
<1> HIDE DEF seeded
<1>5. /\ DOMAIN acc' = Tiles /\ acc'[t] = seeded
      /\ \A i \in Tiles : i # t => acc'[i] = acc[i]
  BY <1>1, <1>2, <1>3
<1>6. ASSUME Holds
      PROVE  \A i \in Tiles : i <= t => TileFine(call, at, guarded, kb0, i, acc'[i], kb0)
  <2>1. \A i \in Tiles : i < t => TileFine(call, at, guarded, kb0, i, acc[i], kb0)
    BY <1>1, <1>2, <1>3, <1>6 DEF GemmInv, TilesInv, Fine
  <2> SUFFICES ASSUME NEW i \in Tiles, i <= t
               PROVE  TileFine(call, at, guarded, kb0, i, acc'[i], kb0)
    OBVIOUS
  <2>2. i = t \/ i < t
    BY <1>3 DEF Tiles
  <2> QED BY <1>4, <1>5, <2>1, <2>2
<1>7. t' \in Tiles /\ pc' \in {"clear", "seed", "load", "dp", "store", "check"}
      /\ (t = 3 => t' = 0 /\ pc' = "load") /\ (t # 3 => t' = t + 1 /\ pc' = "seed")
  BY <1>1, <1>3 DEF Tiles
<1>8. PcInv'
  BY <1>1, <1>3, <1>7 DEF PcInv
<1>9. Holds => TilesInv'
  <2> SUFFICES ASSUME Holds PROVE TilesInv'
    OBVIOUS
  <2>1. CASE t = 3
    <3>1. \A i \in Tiles : TileFine(call, at, guarded, kb0, i, acc'[i], kb0)
      BY <1>6, <2>1 DEF Tiles
    <3>2. \A i \in Tiles : Steps(i)' = kb0
      BY <1>1, <1>3, <1>7, <2>1 DEF Steps
    <3> QED BY <1>1, <1>7, <2>1, <3>1, <3>2 DEF TilesInv, Fine
  <2>2. CASE t # 3
    <3>1. \A i \in Tiles : i < t' => i <= t
      BY <1>3, <1>7, <2>2 DEF Tiles
    <3> QED BY <1>1, <1>3, <1>6, <1>7, <2>2, <3>1 DEF TilesInv, Fine
  <2> QED BY <2>1, <2>2
<1> QED BY <1>1, <1>2, <1>5, <1>7, <1>8, <1>9, SamePlace DEF TypeOK

LEMMA LoadStep == TileInv /\ Load => TileInv'
<1> SUFFICES ASSUME TileInv, Load PROVE TileInv'
  OBVIOUS
<1>1. /\ phase = "gemm" /\ pc = "load" /\ ops' = TRUE /\ pc' = "dp"
      /\ UNCHANGED <<setup, phase, call, at, guarded, t, kb, kb0, att, acc, buf, C, gaveUp>>
  BY DEF Load
<1>2. GemmInv /\ TypeOK /\ DOMAIN acc = Tiles /\ DOMAIN buf = Tiles
  BY <1>1 DEF TileInv
<1>3. PcInv'
  BY <1>1, <1>2 DEF GemmInv, PcInv
<1>4. t = 0
  BY <1>1, <1>2 DEF GemmInv, PcInv
<1>5. Holds => TilesInv'
  <2> SUFFICES ASSUME Holds PROVE TilesInv'
    OBVIOUS
  <2>1. \A i \in Tiles : Steps(i) = kb /\ Steps(i)' = kb
    <3>1. \A i \in Tiles : Turn(call, at, i) >= 0
      BY DEF Turn, Tiles
    <3>2. \A i \in Tiles : ~(Turn(call, at, i) < 0)
      BY <3>1 DEF Turn, Tiles
    <3> QED BY <1>1, <1>4, <3>2 DEF Steps
  <2>2. \A i \in Tiles : TileFine(call, at, guarded, kb0, i, acc[i], kb)
    BY <1>1, <1>2, <2>1 DEF GemmInv, TilesInv, Fine
  <2> QED BY <1>1, <2>1, <2>2 DEF TilesInv, Fine
<1>6. ops' \in BOOLEAN /\ pc' \in {"clear", "seed", "load", "dp", "store", "check"}
  BY <1>1
<1> QED BY <1>1, <1>2, <1>3, <1>5, <1>6, SamePlace DEF TypeOK

LEMMA StoreStep == TileInv /\ Store => TileInv'
<1> SUFFICES ASSUME TileInv, Store PROVE TileInv'
  OBVIOUS
<1>1. /\ phase = "gemm" /\ pc = "store" /\ buf' = [buf EXCEPT ![t] = acc[t]]
      /\ IF t = 3 THEN t' = 0 /\ pc' = "check" ELSE t' = t + 1 /\ pc' = pc
      /\ UNCHANGED <<setup, phase, call, at, guarded, kb, kb0, att, acc, ops, C, gaveUp>>
  BY DEF Store, EachTile
<1>2. GemmInv /\ TypeOK /\ DOMAIN acc = Tiles /\ DOMAIN buf = Tiles
  BY <1>1 DEF TileInv
<1>3. t \in Tiles
  BY <1>2 DEF TypeOK
<1>4. /\ DOMAIN buf' = Tiles /\ buf'[t] = acc[t]
      /\ \A i \in Tiles : i # t => buf'[i] = buf[i]
  BY <1>1, <1>2, <1>3
<1>5. t' \in Tiles /\ pc' \in {"clear", "seed", "load", "dp", "store", "check"}
      /\ (t = 3 => t' = 0 /\ pc' = "check") /\ (t # 3 => t' = t + 1 /\ pc' = "store")
  BY <1>1, <1>3 DEF Tiles
<1>6. PcInv'
  BY <1>1, <1>2, <1>5 DEF GemmInv, PcInv
<1>7. Holds => TilesInv'
  <2> SUFFICES ASSUME Holds PROVE TilesInv'
    OBVIOUS
  <2>1. \A i \in Tiles : Steps(i) = kb
    BY <1>1 DEF Steps
  <2>2. \A i \in Tiles : Steps(i)' = kb
    BY <1>1, <1>5 DEF Steps
  <2>3. /\ \A i \in Tiles : TileFine(call, at, guarded, kb0, i, acc[i], kb)
        /\ \A i \in Tiles : i < t => TileFine(call, at, guarded, kb0, i, buf[i], kb)
    BY <1>1, <1>2, <2>1 DEF GemmInv, TilesInv, Fine
  <2>4. ASSUME NEW i \in Tiles, i <= t PROVE TileFine(call, at, guarded, kb0, i, buf'[i], kb)
    <3>1. i = t \/ i < t
      BY <1>3, <2>4 DEF Tiles
    <3> QED BY <1>4, <2>3, <3>1
  <2>5. CASE t = 3
    <3>1. \A i \in Tiles : TileFine(call, at, guarded, kb0, i, buf'[i], kb)
      BY <2>4, <2>5 DEF Tiles
    <3> QED BY <1>1, <1>5, <2>5, <3>1 DEF TilesInv, Fine
  <2>6. CASE t # 3
    <3>1. \A i \in Tiles : i < t' => i <= t
      BY <1>3, <1>5, <2>6 DEF Tiles
    <3> QED BY <1>1, <1>5, <2>2, <2>3, <2>4, <2>6, <3>1 DEF TilesInv, Fine
  <2> QED BY <2>5, <2>6
<1> QED BY <1>1, <1>2, <1>4, <1>5, <1>6, <1>7, SamePlace DEF TypeOK

LEMMA DpStep == TileInv /\ Dp => TileInv'
<1> SUFFICES ASSUME TileInv, Dp PROVE TileInv'
  OBVIOUS
<1> DEFINE i == Turn(call, at, t)
           y == TileRow(call, at, i)
           x == TileCol(call, at, i)
           new == [r \in DOMAIN acc[i] |-> acc[i][r] + (IF ops THEN Term[y + r][x][kb] ELSE 0)]
           last == t = 3 /\ kb + 1 = kb0 + GroupLen(call)
<1>1. /\ phase = "gemm" /\ pc = "dp" /\ acc' = [acc EXCEPT ![i] = new]
      /\ IF t = 3 THEN t' = 0 /\ pc' = (IF last THEN "store" ELSE "load")
                  ELSE t' = t + 1 /\ pc' = pc
      /\ kb' = IF t = 3 THEN kb + 1 ELSE kb
      /\ UNCHANGED <<setup, phase, call, at, guarded, kb0, att, ops, buf, C, gaveUp>>
  BY DEF Dp, EachTile, Turn
<1>2. GemmInv /\ TypeOK /\ DOMAIN acc = Tiles /\ DOMAIN buf = Tiles
  BY <1>1 DEF TileInv
<1>3. /\ call \in Calls /\ BlockOK(call, at) /\ t \in Tiles
      /\ kb0 \in 0 .. KB - 1 /\ kb0 \in Nat /\ kb \in Nat
      /\ GroupLen(call) \in Nat /\ GroupLen(call) >= 1 /\ kb0 + GroupLen(call) <= KB
      /\ KB \in Nat
  BY <1>1, InKernel
<1>4. kb0 <= kb /\ kb < kb0 + GroupLen(call)
  BY <1>1, <1>2 DEF GemmInv, PcInv
<1>5. i \in Tiles /\ Turn(call, at, i) = t
      /\ \A j \in Tiles : Turn(call, at, j) \in Tiles /\ (j # i => Turn(call, at, j) # t)
  BY <1>3 DEF Turn, Tiles
<1> HIDE DEF i, new
<1>6. /\ DOMAIN acc' = Tiles /\ acc'[i] = new
      /\ \A j \in Tiles : j # i => acc'[j] = acc[j]
  BY <1>1, <1>2, <1>5
<1>7. kb \in kb0 .. KB - 1 /\ kb + 1 \in 0 .. KB /\ kb \in 0 .. KB
  BY <1>3, <1>4
<1>8. t' \in Tiles /\ pc' \in {"clear", "seed", "load", "dp", "store", "check"}
      /\ (t = 3 => t' = 0 /\ pc' \in {"load", "store"} /\ kb' = kb + 1)
      /\ (t # 3 => t' = t + 1 /\ pc' = "dp" /\ kb' = kb)
  BY <1>1, <1>3 DEF Tiles
<1>9. PcInv'
  <2>1. CASE t = 3
    <3>1. /\ pc' = "store" => kb + 1 = kb0 + GroupLen(call)
          /\ pc' = "load" => kb + 1 # kb0 + GroupLen(call)
      BY <1>1, <2>1
    <3>2. pc' = "load" => kb0 <= kb + 1 /\ kb + 1 < kb0 + GroupLen(call)
      BY <1>3, <1>4, <3>1
    <3> QED BY <1>1, <1>8, <2>1, <3>1, <3>2 DEF PcInv
  <2>2. CASE t # 3
    BY <1>1, <1>4, <1>8, <2>2 DEF PcInv
  <2> QED BY <2>1, <2>2
<1>10. ASSUME Holds
       PROVE  /\ TileFine(call, at, guarded, kb0, i, acc'[i], kb + 1)
              /\ ~ops => Lost(guarded, kb0, acc'[i], kb + 1)
  <2>1. Steps(i) = kb
    BY <1>3, <1>5 DEF Steps, Tiles
  <2>2. /\ TileFine(call, at, guarded, kb0, i, acc[i], kb)
        /\ ~ops => Lost(guarded, kb0, acc[i], kb)
    BY <1>1, <1>2, <1>5, <1>10, <2>1 DEF GemmInv, TilesInv, Fine
  <2> DEFINE s == acc[i]
  <2>3. new = [r \in DOMAIN s |->
                 s[r] + (IF ops THEN Term[TileRow(call, at, i) + r][TileCol(call, at, i)][kb] ELSE 0)]
    BY DEF new
  <2> HIDE DEF s
  <2>4. TileFine(call, at, guarded, kb0, i, s, kb) /\ (~ops => Lost(guarded, kb0, s, kb))
    BY <2>2 DEF s
  <2>5. TileFine(call, at, guarded, kb0, i, new, kb + 1) /\ (~ops => Lost(guarded, kb0, new, kb + 1))
    BY <1>3, <1>5, <1>7, <2>3, <2>4, ProductFine
  <2> QED BY <1>6, <2>5
<1>11. \A j \in Tiles : Steps(j)' = IF j = i THEN kb + 1 ELSE Steps(j)
  <2> SUFFICES ASSUME NEW j \in Tiles PROVE Steps(j)' = IF j = i THEN kb + 1 ELSE Steps(j)
    OBVIOUS
  <2>1. Turn(call, at, j) \in 0 .. 3 /\ (j # i => Turn(call, at, j) # t)
    BY <1>5 DEF Tiles
  <2>2. j = i => Turn(call, at, j) = t
    BY <1>5
  <2> DEFINE n == Turn(call, at, j)
  <2>3. /\ Steps(j) = IF n < t THEN kb + 1 ELSE kb
        /\ Steps(j)' = IF pc' = "dp" /\ n < t' THEN kb' + 1 ELSE kb'
    BY <1>1 DEF Steps
  <2>4. n \in 0 .. 3 /\ (j # i => n # t) /\ (j = i => n = t)
    BY <2>1, <2>2
  <2> HIDE DEF n
  <2> QED BY <1>3, <1>8, <2>3, <2>4 DEF Tiles
<1>12. Holds => TilesInv'
  <2> SUFFICES ASSUME Holds PROVE TilesInv'
    OBVIOUS
  <2>1. /\ \A j \in Tiles : TileFine(call, at, guarded, kb0, j, acc[j], Steps(j))
        /\ ~ops => \A j \in Tiles : Lost(guarded, kb0, acc[j], Steps(j))
    BY <1>1, <1>2 DEF GemmInv, TilesInv, Fine
  <2>2. /\ \A j \in Tiles : TileFine(call, at, guarded, kb0, j, acc'[j], Steps(j)')
        /\ ~ops => \A j \in Tiles : Lost(guarded, kb0, acc'[j], Steps(j)')
    <3> HIDE DEF Steps
    <3>1. ASSUME NEW j \in Tiles
          PROVE  /\ TileFine(call, at, guarded, kb0, j, acc'[j], Steps(j)')
                 /\ ~ops => Lost(guarded, kb0, acc'[j], Steps(j)')
      <4>1. CASE j = i
        BY <1>10, <1>11, <4>1
      <4>2. CASE j # i
        BY <1>6, <1>11, <2>1, <4>2
      <4> QED BY <4>1, <4>2
    <3> QED BY <3>1
  <2>3. pc' = "store" => t' = 0
    BY <1>8
  <2>4. \A j \in Tiles : ~(j < 0)
    BY DEF Tiles
  <2> QED BY <1>1, <1>8, <2>2, <2>3, <2>4 DEF TilesInv, Fine
<1>13. kb' \in 0 .. KB /\ ops' \in BOOLEAN /\ DOMAIN buf' = Tiles
  BY <1>1, <1>2, <1>7, <1>8 DEF TypeOK
<1> QED BY <1>1, <1>6, <1>8, <1>9, <1>12, <1>13, SamePlace

\* The host takes the tiles: nothing counted is left in them, and only under the guard or
\* on a host that does it.
LEMMA ResetStep == TileInv /\ Reset => TileInv'
<1> SUFFICES ASSUME TileInv, Reset PROVE TileInv'
  OBVIOUS
<1>1. /\ phase = "gemm" /\ ~host.preserves
      /\ acc' = [i \in Tiles |-> [r \in DOMAIN acc[i] |-> 0]] /\ ops' = FALSE
      /\ UNCHANGED <<setup, phase, call, at, guarded, pc, t, kb, kb0, att, buf, C, gaveUp>>
  BY DEF Reset
<1>2. GemmInv /\ TypeOK /\ DOMAIN acc = Tiles /\ DOMAIN buf = Tiles
  BY <1>1 DEF TileInv
<1>3. /\ call \in Calls /\ BlockOK(call, at) /\ t \in Tiles
      /\ kb0 \in 0 .. KB - 1 /\ kb0 \in Nat /\ kb \in Nat /\ kb <= KB
      /\ GroupLen(call) \in Nat /\ GroupLen(call) >= 1 /\ kb0 + GroupLen(call) <= KB
      /\ KB \in Nat
  BY <1>1, InKernel
<1>4. PcInv'
  BY <1>1, <1>2 DEF GemmInv, PcInv
<1>5. ASSUME Holds, NEW i \in Tiles, NEW k \in kb0 .. KB,
             TileFine(call, at, guarded, kb0, i, acc[i], k)
      PROVE  /\ TileFine(call, at, guarded, kb0, i, acc'[i], k)
             /\ Lost(guarded, kb0, acc'[i], k)
  <2> DEFINE s == acc[i]  s2 == acc'[i]
  <2>1. s2 = [r \in DOMAIN s |-> 0] /\ guarded
    BY <1>1, <1>5 DEF Holds
  <2>2. TileFine(call, at, guarded, kb0, i, s, k)
    BY <1>5
  <2>3. kb0 \in 0 .. KB
    BY <1>3
  <2> HIDE DEF s, s2
  <2>4. TileFine(call, at, guarded, kb0, i, s2, k) /\ Lost(guarded, kb0, s2, k)
    BY <2>1, <2>2, <2>3, ResetFine
  <2> QED BY <2>4 DEF s2
<1>6. \A i \in Tiles : Steps(i)' = Steps(i)
  BY <1>1 DEF Steps
<1>7. pc \in {"load", "dp", "store"} => \A i \in Tiles : Steps(i) \in kb0 .. KB
  <2>1. pc \in {"load", "dp"} => kb0 <= kb /\ kb < kb0 + GroupLen(call)
    BY <1>2 DEF GemmInv, PcInv
  <2>2. pc = "store" => kb = kb0 + GroupLen(call)
    BY <1>2 DEF GemmInv, PcInv
  <2>3. pc \in {"load", "dp"} => kb \in kb0 .. KB /\ kb + 1 \in kb0 .. KB
    BY <1>3, <2>1
  <2>4. pc = "store" => kb \in kb0 .. KB
    BY <1>3, <2>2
  <2> QED BY <2>3, <2>4 DEF Steps
<1>8. pc = "seed" => kb \in kb0 .. KB
  BY <1>2, <1>3 DEF GemmInv, PcInv
<1>9. Holds => TilesInv'
  <2> SUFFICES ASSUME Holds PROVE TilesInv'
    OBVIOUS
  <2>1. TilesInv
    BY <1>2 DEF GemmInv
  <2>2. pc = "seed" => \A i \in Tiles : i < t => TileFine(call, at, guarded, kb0, i, acc'[i], kb)
    BY <1>5, <1>8, <2>1 DEF TilesInv, Fine
  <2> HIDE DEF Steps
  <2>3. pc \in {"load", "dp", "store"} =>
          \A i \in Tiles : /\ TileFine(call, at, guarded, kb0, i, acc'[i], Steps(i))
                           /\ Lost(guarded, kb0, acc'[i], Steps(i))
    BY <1>5, <1>7, <2>1 DEF TilesInv, Fine
  <2>4. /\ pc = "store" => \A i \in Tiles : i < t => TileFine(call, at, guarded, kb0, i, buf[i], kb)
        /\ pc = "check" => \A i \in Tiles : TileFine(call, at, guarded, kb0, i, buf[i], kb)
    BY <2>1 DEF TilesInv, Fine
  <2> QED BY <1>1, <1>6, <2>2, <2>3, <2>4 DEF TilesInv, Fine
<1>10. GemmInv'
  <2>1. GroupInv'
    <3>1. PICK g \in 0 .. (KB \div GroupLen(call)) - 1 : InGroup(g)
      BY <1>2 DEF GemmInv, GroupInv
    <3>2. InGroup(g)'
      BY <1>1, <3>1 DEF InGroup, Holds, setup
    <3> QED BY <1>1, <3>2 DEF GroupInv
  <2>2. DoneInv'
    BY <1>1, <1>2 DEF GemmInv, DoneInv, Holds, setup
  <2>3. Holds' = Holds
    BY <1>1 DEF Holds, setup
  <2> QED BY <1>1, <1>2, <1>4, <1>9, <2>1, <2>2, <2>3 DEF GemmInv, setup
<1>11. DOMAIN acc' = Tiles /\ ops' \in BOOLEAN
  BY <1>1
<1> QED BY <1>1, <1>2, <1>10, <1>11, Stays DEF TypeOK

LEMMA RetryStep == TileInv /\ Retry => TileInv'
<1> SUFFICES ASSUME TileInv, Retry PROVE TileInv'
  OBVIOUS
<1>1. /\ phase = "gemm" /\ pc = "check"
      /\ UNCHANGED <<setup, call, guarded, t, acc, ops, buf, C>>
      /\ \/ /\ att + 1 < MaxRetry /\ att' = att + 1 /\ kb' = 0 /\ kb0' = 0
            /\ pc' = AttemptPc(call) /\ UNCHANGED <<phase, at, gaveUp>>
         \/ gaveUp' = gaveUp \cup BlockCells(call, at) /\ NextBlock
  BY DEF Retry, Tried
<1>2. GemmInv /\ TypeOK /\ DOMAIN acc = Tiles /\ DOMAIN buf = Tiles
  BY <1>1 DEF TileInv
<1>3. call \in Calls /\ BlockOK(call, at) /\ t = 0
  BY <1>1, <1>2 DEF GemmInv, PcInv
<1>4. CASE /\ att + 1 < MaxRetry /\ att' = att + 1 /\ kb' = 0 /\ kb0' = 0
           /\ pc' = AttemptPc(call) /\ UNCHANGED <<phase, at, gaveUp>>
  <2>1. pc' \in {"clear", "seed"} /\ (call.q4 => pc' = "clear")
    BY <1>4 DEF AttemptPc
  <2>2. 0 \in 0 .. KB /\ att' \in 0 .. MaxRetry - 1
    BY <1>2, <1>4, TileFacts DEF TypeOK
  <2>3. PcInv' /\ TilesInv'
    BY <1>1, <1>3, <1>4, <2>1 DEF PcInv, TilesInv, Tiles
  <2>4. GroupInv'
    <3>1. 0 \in 0 .. (KB \div GroupLen(call)) - 1 /\ 0 * GroupLen(call) = 0
      BY <1>3, GroupsOf
    <3> QED BY <1>1, <1>4, <2>1, <3>1 DEF GroupInv, InGroup
  <2>5. DoneInv'
    BY <1>1, <1>2, <1>4 DEF GemmInv, DoneInv, Holds, setup
  <2>6. GemmInv'
    BY <1>1, <1>2, <1>4, <2>3, <2>4, <2>5 DEF GemmInv, setup
  <2>7. pc' \in {"clear", "seed", "load", "dp", "store", "check"}
    BY <2>1
  <2> QED BY <1>1, <1>2, <1>4, <2>2, <2>6, <2>7, Stays DEF TypeOK
<1>5. CASE gaveUp' = gaveUp \cup BlockCells(call, at) /\ NextBlock
  <2>1. gaveUp' \subseteq Cells(call) /\ DOMAIN C' = Cells(call)
    BY <1>1, <1>2, <1>3, <1>5, BlockInside DEF GemmInv
  <2>2. Holds => \A x \in Cells(call) :
                   Passed(call, at, x) \/ x \in BlockCells(call, at) =>
                     x \in gaveUp' \/ C'[x] = Ref(call, x)
    BY <1>1, <1>2, <1>5 DEF GemmInv, DoneInv
  <2> QED BY <1>1, <1>3, <1>5, <2>1, <2>2, NextFine
<1> QED BY <1>1, <1>4, <1>5

\* What the drain leaves in the cells of the block: the product of one group more.
LEMMA DrainedIs ==
  ASSUME TileInv, Drain, Holds,
         NEW g \in 0 .. (KB \div GroupLen(call)) - 1, InGroup(g),
         NEW x \in BlockCells(call, at)
  PROVE  C'[x] = Products(call, x)[g + 1]
<1>1. /\ phase = "gemm" /\ pc = "check" /\ C' = Drained(C)
      /\ guarded => \A i \in Tiles : TileIntact(buf[i])
  BY DEF Drain, Intact
<1>2. GemmInv
  BY <1>1 DEF TileInv
<1>3. /\ call \in Calls /\ BlockOK(call, at) /\ kb0 \in 0 .. KB - 1 /\ kb0 \in Nat /\ KB \in Nat
      /\ GroupLen(call) \in Nat /\ GroupLen(call) >= 1 /\ kb0 + GroupLen(call) <= KB
  BY <1>1, InKernel
<1>4. kb = kb0 + GroupLen(call) /\ kb \in kb0 .. KB /\ kb0 \in 0 .. KB
  BY <1>1, <1>2, <1>3 DEF GemmInv, PcInv
<1>5. x \in Cells(call) /\ DOMAIN C = Cells(call)
  BY <1>2, <1>3, BlockInside DEF GemmInv
<1>6. \A i \in Tiles : /\ DOMAIN buf[i] = 0 .. TileRows(call, at, i) - 1
                       /\ Counted(call, at, guarded, kb0, i, buf[i], kb)
  <2> SUFFICES ASSUME NEW i \in Tiles
               PROVE  /\ DOMAIN buf[i] = 0 .. TileRows(call, at, i) - 1
                      /\ Counted(call, at, guarded, kb0, i, buf[i], kb)
    OBVIOUS
  <2> DEFINE s == buf[i]
  <2>1. TileFine(call, at, guarded, kb0, i, s, kb) /\ (guarded => TileIntact(s))
    BY <1>1, <1>2 DEF GemmInv, TilesInv, Fine
  <2> HIDE DEF s
  <2>2. Counted(call, at, guarded, kb0, i, s, kb)
    BY <1>4, <2>1, CheckFine
  <2> QED BY <2>1, <2>2 DEF TileFine, s
<1> DEFINE j == CHOOSE i \in Tiles : x \in TileCells(call, at, i)
           v == buf[j][x[1] - TileRow(call, at, j)] - Base(guarded)
           size == GroupLen(call)
<1>7. v = Sum(x, kb0, kb)
  <2>1. LET i == CHOOSE i \in Tiles : x \in TileCells(call, at, i)
        IN  buf[i][x[1] - TileRow(call, at, i)] - Base(guarded) = Sum(x, kb0, kb)
    <3> HIDE DEF j, v, size
    <3> DEFINE bufs == buf  lo == kb0  k == kb  g1 == guarded
    <3>1. lo \in 0 .. KB /\ k \in lo .. KB /\ call \in Calls /\ BlockOK(call, at)
          /\ \A i \in Tiles : /\ DOMAIN bufs[i] = 0 .. TileRows(call, at, i) - 1
                              /\ Counted(call, at, g1, lo, i, bufs[i], k)
      BY <1>3, <1>4, <1>6
    <3> HIDE DEF bufs, lo, k, g1
    <3>2. LET i == CHOOSE i \in Tiles : x \in TileCells(call, at, i)
          IN  bufs[i][x[1] - TileRow(call, at, i)] - Base(g1) = Sum(x, lo, k)
      BY <3>1, DrainFine, SMTT(20)
    <3> QED BY <3>2 DEF bufs, lo, k, g1
  <2> QED BY <2>1
<1>8. C'[x] = (IF call.q4 THEN C[x] ELSE 0) + Weight(call, kb0) * v
  <2>1. Bias = Base(guarded)
    BY DEF Bias, Base
  <2> QED BY <1>1, <1>5, <2>1 DEF Drained
<1> HIDE DEF j, v
<1>9. kb0 = g * size /\ kb = g * size + size
  BY <1>4 DEF InGroup
<1>10. /\ Products(call, x)[0] = 0
       /\ Products(call, x)[g + 1] =
            Products(call, x)[g] + Weight(call, g * size) * Sum(x, g * size, g * size + size)
       /\ Weight(call, g * size) \in Int /\ Sum(x, g * size, g * size + size) \in Int
       /\ Products(call, x)[g] \in Int
  BY <1>3, <1>5, ProductIs, GroupsOf
<1> DEFINE w == Weight(call, kb0) * v
<1>11. Products(call, x)[g + 1] = Products(call, x)[g] + w
  BY <1>7, <1>9, <1>10
<1>12. w \in Int
  <2> DEFINE p == Weight(call, kb0)
  <2>1. p \in Int /\ v \in Int
    BY <1>7, <1>9, <1>10
  <2> HIDE DEF p
  <2> QED BY <2>1 DEF p
<1> HIDE DEF w
<1>13. CASE call.q4
  <2>1. C[x] = Products(call, x)[g]
    BY <1>1, <1>13 DEF InGroup
  <2> QED BY <1>8, <1>11, <1>13, <2>1 DEF w
<1>14. CASE ~call.q4
  <2>1. size = KB
    BY <1>14 DEF GroupLen
  <2>2. g = 0
    <3>1. g \in Nat /\ KB >= 1 /\ g * KB <= KB - 1
      BY <1>3, <1>9, <2>1, GroupsOf, TileFacts
    <3>2. g >= 1 => g * KB >= KB
      BY <1>3, <3>1
    <3> QED BY <1>3, <3>1, <3>2
  <2>3. C'[x] = 0 + w
    BY <1>8, <1>14 DEF w
  <2> QED BY <1>10, <1>11, <1>12, <2>2, <2>3
<1> QED BY <1>13, <1>14

LEMMA DrainStep == TileInv /\ Drain => TileInv'
<1> SUFFICES ASSUME TileInv, Drain PROVE TileInv'
  OBVIOUS
<1>1. /\ phase = "gemm" /\ pc = "check" /\ C' = Drained(C)
      /\ UNCHANGED <<setup, call, guarded, t, acc, ops, buf, gaveUp>>
      /\ \/ /\ kb < KB /\ kb0' = kb /\ pc' = "seed" /\ UNCHANGED <<phase, at, kb, att>>
         \/ ~(kb < KB) /\ NextBlock
  BY DEF Drain
<1>2. GemmInv /\ TypeOK /\ DOMAIN acc = Tiles /\ DOMAIN buf = Tiles
  BY <1>1 DEF TileInv
<1>3. /\ call \in Calls /\ BlockOK(call, at) /\ kb0 \in 0 .. KB - 1 /\ kb0 \in Nat /\ KB \in Nat
      /\ GroupLen(call) \in Nat /\ GroupLen(call) >= 1 /\ kb0 + GroupLen(call) <= KB
  BY <1>1, InKernel
<1>4. kb = kb0 + GroupLen(call) /\ t = 0
  BY <1>1, <1>2 DEF GemmInv, PcInv
<1>5. /\ DOMAIN C' = Cells(call)
      /\ \A x \in Cells(call) : x \notin BlockCells(call, at) => C'[x] = C[x]
  BY <1>1, <1>2 DEF GemmInv, Drained
<1>6. PICK g \in 0 .. (KB \div GroupLen(call)) - 1 : InGroup(g)
  BY <1>2 DEF GemmInv, GroupInv
<1>7. Holds => \A x \in BlockCells(call, at) : C'[x] = Products(call, x)[g + 1]
  BY <1>6, DrainedIs
<1>8. ASSUME Holds, NEW x \in Cells(call), Passed(call, at, x)
      PROVE  x \in gaveUp \/ C'[x] = Ref(call, x)
  <2>1. x \notin BlockCells(call, at)
    BY <1>3, <1>8, NotPassed
  <2>2. x \in gaveUp \/ C[x] = Ref(call, x)
    BY <1>2, <1>8 DEF GemmInv, DoneInv
  <2> QED BY <1>5, <2>1, <2>2
<1> DEFINE size == GroupLen(call)  n == KB \div size
<1>9. /\ g \in 0 .. n - 1 /\ n \in Nat /\ n * size = KB
      /\ kb = g * size + size /\ (g + 1) * size = g * size + size
  BY <1>3, <1>4, <1>6, GroupsOf DEF InGroup
\* Another group of the same block.
<1>10. CASE kb < KB /\ kb0' = kb /\ pc' = "seed" /\ UNCHANGED <<phase, at, kb, att>>
  <2>1. g + 1 \in 0 .. n - 1 /\ kb = (g + 1) * size
    <3> DEFINE m == g + 1
    <3>1. kb = m * size /\ m \in Nat /\ m <= n
      BY <1>9
    <3> HIDE DEF m, n, size
    <3>2. m # n
      BY <1>9, <1>10, <3>1
    <3>3. m \in 0 .. n - 1
      BY <1>9, <3>1, <3>2
    <3> QED BY <3>1, <3>3 DEF m
  <2> HIDE DEF n
  <2>2. InGroup(g + 1)'
    <3>1. kb0' = (g + 1) * GroupLen(call')
      BY <1>1, <1>10, <2>1 DEF size
    <3> QED BY <1>1, <1>7, <1>10, <3>1 DEF InGroup, Holds, setup
  <2>3. GroupInv'
    BY <1>1, <2>1, <2>2 DEF GroupInv, n, size
  <2>4. PcInv' /\ TilesInv'
    BY <1>1, <1>4, <1>10 DEF PcInv, TilesInv, Tiles
  <2>5. DoneInv'
    BY <1>1, <1>8, <1>10 DEF DoneInv, Holds, setup
  <2>6. GemmInv'
    BY <1>1, <1>2, <1>5, <1>10, <2>3, <2>4, <2>5 DEF GemmInv, setup
  <2>7. pc' \in {"clear", "seed", "load", "dp", "store", "check"}
    BY <1>10
  <2> QED BY <1>1, <1>2, <1>10, <2>6, <2>7, Stays DEF TypeOK
\* The last one: the block is done.
<1>11. CASE ~(kb < KB) /\ NextBlock
  <2>1. g + 1 = n
    <3> DEFINE m == g + 1
    <3>1. kb = m * size /\ m \in Nat /\ m <= n /\ size \in Nat /\ size >= 1
      BY <1>3, <1>9
    <3> HIDE DEF m, n, size
    <3>2. m < n => m * size < n * size
      BY <1>9, <3>1
    <3>3. ~(m < n)
      BY <1>9, <1>11, <3>1, <3>2, <1>3
    <3>4. m = n
      BY <1>9, <3>1, <3>3
    <3> QED BY <3>4 DEF m
  <2>2. Holds => \A x \in BlockCells(call, at) : C'[x] = Ref(call, x)
    BY <1>7, <2>1 DEF Ref
  <2>3. Holds => \A x \in Cells(call) :
                   Passed(call, at, x) \/ x \in BlockCells(call, at) =>
                     x \in gaveUp' \/ C'[x] = Ref(call, x)
    BY <1>1, <1>8, <2>2
  <2>4. gaveUp' \subseteq Cells(call)
    BY <1>1, <1>2 DEF GemmInv
  <2> QED BY <1>1, <1>4, <1>5, <1>11, <2>3, <2>4, NextFine
<1> QED BY <1>1, <1>10, <1>11

LEMMA NextStep == TileInv /\ [Next]_vars => TileInv'
<1> SUFFICES ASSUME TileInv, [Next]_vars PROVE TileInv'
  OBVIOUS
<1>1. CASE Backend
  BY <1>1, BackendFine
<1>2. CASE Autodetect
  BY <1>2, AutodetectFine
<1>3. CASE Probe
  BY <1>3, ProbeFine
<1>4. CASE PoolNew
  BY <1>4, PoolNewFine
<1>5. CASE Enter
  BY <1>5, EnterFine
<1>6. CASE Clear
  BY <1>6, ClearFine
<1>7. CASE Seed
  BY <1>7, SeedStep
<1>8. CASE Load
  BY <1>8, LoadStep
<1>9. CASE Dp
  BY <1>9, DpStep
<1>10. CASE Store
  BY <1>10, StoreStep
<1>11. CASE Drain
  BY <1>11, DrainStep
<1>12. CASE Retry
  BY <1>12, RetryStep
<1>13. CASE Reset
  BY <1>13, ResetStep
<1>14. CASE UNCHANGED vars
  <2>1. UNCHANGED <<setup, phase, kernel>>
    BY <1>14 DEF vars
  <2>2. TypeOK' /\ Fresh' /\ Exact'
    BY <2>1 DEF TileInv, TypeOK, Fresh, Exact, setup, kernel
  <2>3. phase = "gemm" => GemmInv'
    <3> SUFFICES ASSUME GemmInv PROVE GemmInv'
      BY DEF TileInv
    <3>1. UNCHANGED <<host, backend, call, at, guarded, pc, t, kb, kb0, acc, ops, buf, C, gaveUp>>
      BY <2>1 DEF setup, kernel
    <3>2. PcInv' /\ DoneInv'
      BY <3>1 DEF GemmInv, PcInv, DoneInv, Holds
    <3>3. GroupInv'
      BY <3>1 DEF GemmInv, GroupInv, InGroup, Holds
    <3>4. Holds' => TilesInv'
      BY <3>1 DEF GemmInv, TilesInv, Fine, Steps, Holds
    <3> QED BY <3>1, <3>2, <3>3, <3>4 DEF GemmInv
  <2> QED BY <2>1, <2>2, <2>3 DEF TileInv, kernel
<1> QED BY <1>1, <1>2, <1>3, <1>4, <1>5, <1>6, <1>7, <1>8, <1>9, <1>10, <1>11, <1>12, <1>13, <1>14
        DEF Next, Work, Ended

\* Whatever the machine, the environment and the call, the state is of its type: in the
\* kernel the block is one of the loop nest and its cells are cells of the output.
THEOREM TypeCorrect == Spec => []TypeOK
<1>1. Init => TileInv
  BY InitFine
<1>2. TileInv /\ [Next]_vars => TileInv'
  BY NextStep
<1>3. TileInv => TypeOK
  BY DEF TileInv
<1> QED BY <1>1, <1>2, <1>3, PTL DEF Spec

\* A GEMM that ended has the product in every cell whose block did not run out of attempts,
\* however often and whenever the host took the tiles: under the guard, on a host that keeps
\* them, or without tiles (amx_gemm.c, the guarded kernels).
THEOREM ProductExact == Spec => []Exact
<1>1. Init => TileInv
  BY InitFine
<1>2. TileInv /\ [Next]_vars => TileInv'
  BY NextStep
<1>3. TileInv => Exact
  BY DEF TileInv
<1> QED BY <1>1, <1>2, <1>3, PTL DEF Spec
=============================================================================
