--------------------------- MODULE AnswersProofs ---------------------------
(***************************************************************************)
(* Proofs about the answers of queries (module Search), from the invariants*)
(* of module SearchProofs: that no hit is of a document that is gone, does *)
(* not match or was listed already, and that a query that probes every     *)
(* cluster answers what a scan does.                                       *)
(*                                                                         *)
(* First the scores and the orders of hits, for numbers, sequences and sets*)
(* of any size.  Then what each shard holds, and which part of the         *)
(* documents that is.  Then what each plan of a query lists, shard by      *)
(* shard, and what is merged of it.  Last, that nothing is missing there.  *)
(***************************************************************************)
EXTENDS SearchProofs

---------------------------------------------------------------------------
\* Sums and scores.

\* s has the sums of the first elements of f, for any number of them up to n: what
\* SumTo computes, as a function that is there.
Sums(s, f, n) == s = [k \in 0..n |-> IF k = 0 THEN 0 ELSE s[k - 1] + f[k]]

LEMMA SumsExist ==
    ASSUME NEW f, NEW n \in Nat
    PROVE  \E s : Sums(s, f, n)
<1> DEFINE S == {k \in 0..n : \E s : Sums(s, f, k)}
<1>1. 0 \in S
  <2>1. Sums([k \in 0..0 |-> 0], f, 0)
    BY DEF Sums
  <2> QED
    BY <2>1
<1>2. ASSUME NEW k \in 0..n, k < n, k \in S
      PROVE  k + 1 \in S
  <2>1. PICK s : Sums(s, f, k)
    BY <1>2
  <2> DEFINE t == [j \in 0..(k + 1) |-> IF j = k + 1 THEN s[k] + f[k + 1] ELSE s[j]]
  <2>2. \A j \in 0..k : s[j] = IF j = 0 THEN 0 ELSE s[j - 1] + f[j]
    BY <2>1 DEF Sums
  <2>3. ASSUME NEW j \in 0..(k + 1)
        PROVE  t[j] = IF j = 0 THEN 0 ELSE t[j - 1] + f[j]
    <3>1. CASE j = k + 1
      BY <1>2, <3>1
    <3>2. CASE j # k + 1
      BY <1>2, <2>2, <3>2
    <3> QED
      BY <3>1, <3>2
  <2>4. t = [j \in 0..(k + 1) |-> t[j]]
    OBVIOUS
  <2> HIDE DEF t
  <2>5. Sums(t, f, k + 1)
    BY <2>3, <2>4 DEF Sums
  <2>6. k + 1 \in 0..n
    BY <1>2
  <2> QED
    BY <2>5, <2>6
<1> HIDE DEF S
<1>3. \A k \in 0..n : k \in S
  BY <1>1, <1>2, Replays!Upwards
<1> QED
  BY <1>3 DEF S

\* A sum of integers is one, and one of natural numbers is not negative.
LEMMA SumIsInt ==
    ASSUME NEW n \in Nat, NEW f, \A k \in 1..n : f[k] \in Int
    PROVE  /\ SumTo(f, n) \in Int
           /\ (\A k \in 1..n : f[k] >= 0) => SumTo(f, n) >= 0
<1>1. PICK s : Sums(s, f, n) /\ SumTo(f, n) = s[n]
  <2>1. SumTo(f, n) = (CHOOSE s : Sums(s, f, n))[n]
    BY Zenon DEF SumTo, Sums
  <2> QED
    BY <2>1, SumsExist
<1>2. \A k \in 0..n : s[k] = IF k = 0 THEN 0 ELSE s[k - 1] + f[k]
  BY <1>1 DEF Sums
<1> DEFINE S == {k \in 0..n : s[k] \in Int /\ ((\A j \in 1..n : f[j] >= 0) => s[k] >= 0)}
<1>3. 0 \in S
  BY <1>2
<1>4. ASSUME NEW k \in 0..n, k < n, k \in S
      PROVE  k + 1 \in S
  <2>1. k + 1 \in 0..n /\ k + 1 \in 1..n /\ k + 1 # 0 /\ (k + 1) - 1 = k
    BY <1>4
  <2>2. s[k + 1] = s[k] + f[k + 1]
    BY <1>2, <2>1
  <2>3. s[k] \in Int /\ f[k + 1] \in Int
    BY <1>4, <2>1
  <2> QED
    BY <1>4, <2>1, <2>2, <2>3
<1> HIDE DEF S
<1>5. \A k \in 0..n : k \in S
  BY <1>3, <1>4, Replays!Upwards
<1> QED
  BY <1>1, <1>5 DEF S

\* The least of two numbers.
LEMMA LeastOfTwo ==
    ASSUME NEW m \in Int, NEW n \in Int
    PROVE  LeastOf({m, n}) = IF m <= n THEN m ELSE n
<1>1. PICK l : l = IF m <= n THEN m ELSE n
  OBVIOUS
<1>2. l \in {m, n} /\ \A k \in {m, n} : l <= k
  BY <1>1
<1>3. \A k \in {m, n} : (\A j \in {m, n} : k <= j) => k = l
  BY <1>1
<1>4. LeastOf({m, n}) = CHOOSE k \in {m, n} : \A j \in {m, n} : k <= j
  BY DEF LeastOf
<1>5. LeastOf({m, n}) = l
  BY <1>2, <1>3, <1>4
<1> QED
  BY <1>1, <1>5

LEMMA NatProduct == ASSUME NEW x \in Nat, NEW y \in Nat PROVE x * y \in Nat
  OBVIOUS

LEMMA SquareIsNat ==
    ASSUME NEW x \in Int
    PROVE  x * x \in Int /\ x * x >= 0
<1>1. CASE x >= 0
  <2>1. x * x \in Nat
    BY <1>1, NatProduct
  <2> QED
    BY <2>1
<1>2. CASE x < 0
  <2>1. PICK y : y = -x /\ y \in Nat
    BY <1>2
  <2>2. y * y \in Nat
    BY <2>1, NatProduct
  <2>3. x * x = y * y
    BY <2>1
  <2> QED
    BY <2>2, <2>3
<1> QED
  BY <1>1, <1>2

LEMMA DotIsInt ==
    ASSUME NEW a \in Seq(Int), NEW b \in Seq(Int)
    PROVE  Dot(a, b) \in Int /\ (a = b => Dot(a, b) >= 0) /\ SquaredDistance(a, b) \in Int
<1>1. PICK n : n = Shared(a, b) /\ n \in Nat /\ n <= Len(a) /\ n <= Len(b)
  <2>1. Len(a) \in Nat /\ Len(b) \in Nat
    OBVIOUS
  <2>2. PICK l, m : l = Len(a) /\ m = Len(b) /\ l \in Nat /\ m \in Nat
    BY <2>1
  <2>3. LeastOf({l, m}) = IF l <= m THEN l ELSE m
    BY <2>2, LeastOfTwo
  <2> QED
    BY <2>2, <2>3 DEF Shared
<1>2. \A k \in 1..n : a[k] \in Int /\ b[k] \in Int
  BY <1>1
<1>3. PICK f : f = [k \in 1..n |-> a[k] * b[k]]
  OBVIOUS
<1>4. PICK g : g = [k \in 1..n |-> (a[k] - b[k]) * (a[k] - b[k])]
  OBVIOUS
<1>5. \A k \in 1..n : f[k] \in Int /\ (a = b => f[k] >= 0)
  BY <1>2, <1>3, SquareIsNat
<1>6. \A k \in 1..n : g[k] \in Int
  <2>1. \A k \in 1..n : a[k] - b[k] \in Int
    BY <1>2
  <2> QED
    BY <1>4, <2>1, SquareIsNat
<1>7. Dot(a, b) = SumTo(f, n) /\ SquaredDistance(a, b) = SumTo(g, n)
  BY <1>1, <1>3, <1>4 DEF Dot, SquaredDistance
<1>8. SumTo(f, n) \in Int /\ (a = b => SumTo(f, n) >= 0) /\ SumTo(g, n) \in Int
  BY <1>1, <1>5, <1>6, SumIsInt
<1> QED
  BY <1>7, <1>8

LEMMA CosineIsInt ==
    ASSUME NEW dot \in Int, NEW norms \in Nat
    PROVE  CosineOf(dot, norms) \in Int
<1>1. CASE norms = 0
  BY <1>1 DEF CosineOf
<1>2. CASE norms # 0
  <2>1. PICK p : p = dot * dot * CosineScale /\ p \in Int
    BY DEF CosineScale
  <2>2. PICK q : q = p \div norms /\ q \in Int
    BY <1>2, <2>1
  <2>3. CosineOf(dot, norms) = (IF dot < 0 THEN -1 ELSE 1) * q
    BY <1>2, <2>1, <2>2 DEF CosineOf
  <2> QED
    BY <2>2, <2>3
<1> QED
  BY <1>1, <1>2

\* A score of two vectors is an integer.
LEMMA ScoreIsInt ==
    ASSUME NEW a \in Seq(Int), NEW b \in Seq(Int), NEW metric \in Metrics
    PROVE  Score(metric, a, b) \in Int
<1>1. PICK d, e : d = Dot(a, b) /\ d \in Int /\ e = SquaredDistance(a, b) /\ e \in Int
  BY DotIsInt
<1>2. PICK m : m = Dot(a, a) * Dot(b, b) /\ m \in Nat
  <2>1. PICK x, y : x = Dot(a, a) /\ y = Dot(b, b) /\ x \in Nat /\ y \in Nat
    BY DotIsInt
  <2> QED
    BY <2>1
<1>3. Cosine(a, b) \in Int
  BY <1>1, <1>2, CosineIsInt DEF Cosine
<1> QED
  BY <1>1, <1>3 DEF Score, Metrics

---------------------------------------------------------------------------
\* Orders.

\* By one number, the greatest first, and then by another.
LEMMA TwoKeys ==
    ASSUME NEW S, NEW R, NEW f, NEW g, \A x \in S : f[x] \in Int /\ g[x] \in Int,
           \A x, y \in S : <<x, y>> \in R <=> f[x] > f[y] \/ (f[x] = f[y] /\ g[x] < g[y]),
           \A x, y \in S : f[x] = f[y] /\ g[x] = g[y] => x = y
    PROVE  StrictOrder(R, S)
<1>1. ASSUME NEW x \in S PROVE <<x, x>> \notin R
  OBVIOUS
<1>2. ASSUME NEW x \in S, NEW y \in S, NEW z \in S, <<x, y>> \in R, <<y, z>> \in R
      PROVE  <<x, z>> \in R
  <2>1. f[x] \in Int /\ f[y] \in Int /\ f[z] \in Int /\ g[x] \in Int /\ g[y] \in Int /\ g[z] \in Int
    OBVIOUS
  <2>2. f[x] > f[y] \/ (f[x] = f[y] /\ g[x] < g[y])
    BY <1>2
  <2>3. f[y] > f[z] \/ (f[y] = f[z] /\ g[y] < g[z])
    BY <1>2
  <2>4. f[x] > f[z] \/ (f[x] = f[z] /\ g[x] < g[z])
    BY <2>1, <2>2, <2>3
  <2> QED
    BY <2>4
<1>3. ASSUME NEW x \in S, NEW y \in S PROVE x = y \/ <<x, y>> \in R \/ <<y, x>> \in R
  <2>1. f[x] \in Int /\ f[y] \in Int /\ g[x] \in Int /\ g[y] \in Int
    OBVIOUS
  <2>2. \/ f[x] = f[y] /\ g[x] = g[y]
        \/ f[x] > f[y] \/ (f[x] = f[y] /\ g[x] < g[y])
        \/ f[y] > f[x] \/ (f[y] = f[x] /\ g[y] < g[x])
    BY <2>1
  <2> QED
    BY <2>2
<1> QED
  BY <1>1, <1>2, <1>3 DEF StrictOrder

\* P is an order in which what is not apart is alike.
WeakOrder(P, S) ==
    /\ \A x \in S : <<x, x>> \notin P
    /\ \A x, y, z \in S : <<x, y>> \in P /\ <<y, z>> \in P => <<x, z>> \in P
    /\ \A x, y, z \in S : <<x, z>> \in P => <<x, y>> \in P \/ <<y, z>> \in P

\* By a weak order, and then by a number.
LEMMA WeakThenKey ==
    ASSUME NEW S, NEW P, WeakOrder(P, S), NEW g, \A x \in S : g[x] \in Int,
           \A x, y \in S : g[x] = g[y] => x = y,
           NEW R,
           \A x, y \in S : <<x, y>> \in R <=>
                <<x, y>> \in P \/ (<<y, x>> \notin P /\ g[x] < g[y])
    PROVE  StrictOrder(R, S)
<1>1. ASSUME NEW x \in S PROVE <<x, x>> \notin R
  BY DEF WeakOrder
<1>2. ASSUME NEW x \in S, NEW y \in S, NEW z \in S, <<x, y>> \in R, <<y, z>> \in R
      PROVE  <<x, z>> \in R
  <2>1. g[x] \in Int /\ g[y] \in Int /\ g[z] \in Int
    OBVIOUS
  <2>2. <<x, y>> \in P \/ (<<y, x>> \notin P /\ g[x] < g[y])
    BY <1>2
  <2>3. <<y, z>> \in P \/ (<<z, y>> \notin P /\ g[y] < g[z])
    BY <1>2
  <2>4. CASE <<x, y>> \in P /\ <<y, z>> \in P
    BY <2>4, Zenon DEF WeakOrder
  <2>5. CASE <<x, y>> \in P /\ <<z, y>> \notin P
    BY <2>5, Zenon DEF WeakOrder
  <2>6. CASE <<y, x>> \notin P /\ <<y, z>> \in P
    BY <2>6, Zenon DEF WeakOrder
  <2>7. CASE <<y, x>> \notin P /\ g[x] < g[y] /\ <<z, y>> \notin P /\ g[y] < g[z]
    <3>1. <<z, x>> \notin P
      BY <2>7, Zenon DEF WeakOrder
    <3>2. g[x] < g[z]
      BY <2>1, <2>7
    <3> QED
      BY <3>1, <3>2
  <2> QED
    BY <2>2, <2>3, <2>4, <2>5, <2>6, <2>7
<1>3. ASSUME NEW x \in S, NEW y \in S PROVE x = y \/ <<x, y>> \in R \/ <<y, x>> \in R
  <2>1. g[x] \in Int /\ g[y] \in Int
    OBVIOUS
  <2>2. g[x] = g[y] \/ g[x] < g[y] \/ g[y] < g[x]
    BY <2>1
  <2> QED
    BY <2>2
<1> QED
  BY <1>1, <1>2, <1>3 DEF StrictOrder

\* The first elements of a sequence.
LEMMA FirstElements ==
    ASSUME NEW q, IsSequence(q), NEW n \in Nat, NEW p, p = Truncated(q, n)
    PROVE  IsSequence(p) /\ Len(p) <= Len(q) /\ \A k \in 1..Len(p) : p[k] = q[k]
<1>1. PICK l : l = Len(q) /\ l \in Nat
  BY DEF IsSequence
<1>2. PICK m : m = LeastOf({n, l}) /\ m \in 0..l
  <2>1. LeastOf({n, l}) = IF n <= l THEN n ELSE l
    BY <1>1, LeastOfTwo
  <2> QED
    BY <1>1, <2>1
<1> DEFINE S == {q[k] : k \in 1..Len(q)}
<1>3. q \in Seq(S)
  BY SequenceOf
<1> HIDE DEF S
<1>4. PICK i : i = 1
  OBVIOUS
<1>5. p = SubSeq(q, i, m)
  BY <1>1, <1>2, <1>4 DEF Truncated
<1>6. i \in 1..(Len(q) + 1) /\ m \in 0..Len(q)
  BY <1>1, <1>2, <1>4
<1>7. /\ SubSeq(q, i, m) \in Seq(S)
      /\ Len(SubSeq(q, i, m)) = IF i <= m THEN m - i + 1 ELSE 0
      /\ \A k \in 1..(m - i + 1) : SubSeq(q, i, m)[k] = q[i + k - 1]
  BY <1>3, <1>6, SubSeqProperties
<1>8. p \in Seq(S) /\ Len(p) = m /\ \A k \in 1..m : p[k] = q[k]
  <2>1. m - i + 1 = m /\ (i <= m \/ m = 0) /\ \A k \in 1..m : i + k - 1 = k
    BY <1>2, <1>4
  <2>2. Len(p) = m
    BY <1>2, <1>4, <1>5, <1>7, <2>1
  <2> QED
    BY <1>5, <1>7, <2>1, <2>2
<1>9. p = [k \in 1..Len(p) |-> p[k]]
  <2>1. p \in [1..Len(p) -> S]
    BY <1>8, LenProperties
  <2> QED
    BY <2>1
<1>10. Len(p) \in Nat /\ Len(p) <= Len(q)
  <2>1. m \in Nat /\ m <= l
    BY <1>1, <1>2
  <2>2. Len(p) = m /\ Len(q) = l
    BY <1>1, <1>8
  <2> QED
    BY <2>1, <2>2
<1>11. \A k \in 1..Len(p) : p[k] = q[k]
  BY <1>8
<1> QED
  BY <1>9, <1>10, <1>11 DEF IsSequence

---------------------------------------------------------------------------
\* The first elements of a set.

\* q has the first k elements of S, in order, or all of them if there are no more.
Firsts(q, R, S, k) ==
    /\ IsSequence(q) /\ Len(q) <= k
    /\ \A m \in 1..Len(q) : q[m] \in S
    /\ \A m \in 1..Len(q) : \A y \in S : <<y, q[m]>> \in R <=> \E j \in 1..m - 1 : q[j] = y
    /\ \A y \in S : (\E m \in 1..Len(q) : q[m] = y) \/ Len(q) = k

\* No element is there twice.
LEMMA FirstsDiffer ==
    ASSUME NEW S, NEW R, StrictOrder(R, S), NEW k, NEW q, Firsts(q, R, S, k)
    PROVE  \A i, j \in 1..Len(q) : q[i] = q[j] => i = j
<1>1. Len(q) \in Nat
  BY DEF Firsts, IsSequence
<1>2. ASSUME NEW i \in 1..Len(q), NEW j \in 1..Len(q), q[i] = q[j], i < j
      PROVE  FALSE
  <2>1. i \in 1..j - 1 /\ q[i] \in S /\ q[j] \in S
    BY <1>1, <1>2 DEF Firsts
  <2>2. <<q[i], q[j]>> \in R
    BY <2>1 DEF Firsts
  <2> QED
    BY <1>2, <2>1, <2>2 DEF StrictOrder
<1> QED
  BY <1>1, <1>2

LEMMA FirstsAgree ==
    ASSUME NEW S, NEW R, StrictOrder(R, S), NEW k, NEW p, Firsts(p, R, S, k), NEW q, Firsts(q, R, S, k)
    PROVE  \A m \in 1..Len(p) : m \in 1..Len(q) => p[m] = q[m]
<1> DEFINE Bad == {m \in 1..Len(p) : m \in 1..Len(q) /\ p[m] # q[m]}
<1>1. Len(p) \in Nat /\ Len(q) \in Nat
  BY DEF Firsts, IsSequence
<1> SUFFICES ASSUME Bad # {} PROVE FALSE
  OBVIOUS
<1>2. Bad \in SUBSET Nat
  BY <1>1
<1>3. PICK m \in Bad : \A j \in Bad : m <= j
  <2> HIDE DEF Bad
  <2> QED
    BY <1>2, Replays!LeastNumber
<1>4. m \in 1..Len(p) /\ m \in 1..Len(q) /\ p[m] # q[m] /\ p[m] \in S /\ q[m] \in S
  BY <1>3 DEF Firsts
<1>5. ASSUME NEW j \in 1..m - 1 PROVE j \in 1..Len(p) /\ j \in 1..Len(q) /\ p[j] = q[j]
  <2>1. j \in 1..Len(p) /\ j \in 1..Len(q) /\ ~(m <= j)
    BY <1>1, <1>4
  <2> QED
    BY <1>3, <2>1
<1>6. ASSUME <<p[m], q[m]>> \in R PROVE FALSE
  <2>1. PICK j \in 1..m - 1 : q[j] = p[m]
    BY <1>4, <1>6 DEF Firsts
  <2>2. p[j] = p[m]
    BY <1>5, <2>1
  <2>3. <<p[m], p[m]>> \in R
    BY <1>4, <2>2 DEF Firsts
  <2> QED
    BY <1>4, <2>3 DEF StrictOrder
<1>7. ASSUME <<q[m], p[m]>> \in R PROVE FALSE
  <2>1. PICK j \in 1..m - 1 : p[j] = q[m]
    BY <1>4, <1>7 DEF Firsts
  <2>2. q[j] = q[m]
    BY <1>5, <2>1
  <2>3. <<q[m], q[m]>> \in R
    BY <1>4, <2>2 DEF Firsts
  <2> QED
    BY <1>4, <2>3 DEF StrictOrder
<1> QED
  BY <1>4, <1>6, <1>7 DEF StrictOrder

LEMMA FirstsNotShorter ==
    ASSUME NEW S, NEW R, StrictOrder(R, S), NEW k \in Nat, NEW p, Firsts(p, R, S, k), NEW q, Firsts(q, R, S, k)
    PROVE  ~(Len(p) < Len(q))
<1> SUFFICES ASSUME Len(p) < Len(q) PROVE FALSE
  OBVIOUS
<1>1. Len(p) \in Nat /\ Len(q) \in Nat /\ Len(q) <= k
  BY DEF Firsts, IsSequence
<1>2. PICK m : m = Len(p) + 1 /\ m \in 1..Len(q)
  BY <1>1
<1>3. q[m] \in S /\ Len(p) # k
  BY <1>1, <1>2 DEF Firsts
<1>4. PICK j \in 1..Len(p) : p[j] = q[m]
  BY <1>3 DEF Firsts
<1>5. j \in 1..Len(q) /\ j # m
  BY <1>1, <1>2
<1>6. q[j] = q[m]
  BY <1>4, <1>5, FirstsAgree
<1> QED
  BY <1>2, <1>5, <1>6, FirstsDiffer

\* There is one list of them.
LEMMA FirstsOnce ==
    ASSUME NEW S, NEW R, StrictOrder(R, S), NEW k \in Nat, NEW p, Firsts(p, R, S, k), NEW q, Firsts(q, R, S, k)
    PROVE  p = q
<1>1. PICK n : n = Len(p) /\ n \in Nat /\ p = [m \in 1..n |-> p[m]]
  BY DEF Firsts, IsSequence
<1>2. Len(q) \in Nat /\ q = [m \in 1..Len(q) |-> q[m]]
  BY DEF Firsts, IsSequence
<1>3. Len(q) = n
  <2>1. ~(Len(p) < Len(q)) /\ ~(Len(q) < Len(p))
    BY FirstsNotShorter
  <2> QED
    BY <1>1, <1>2, <2>1
<1>4. \A m \in 1..n : p[m] = q[m]
  BY <1>1, <1>3, FirstsAgree
<1>5. q = [m \in 1..n |-> q[m]]
  BY <1>2, <1>3
<1> QED
  BY <1>1, <1>4, <1>5

LEMMA StrictWithin ==
    ASSUME NEW S, NEW R, StrictOrder(R, S), NEW T, T \subseteq S
    PROVE  StrictOrder(R, T)
  BY DEF StrictOrder

\* A sorted set, cut.
LEMMA FirstsSorted ==
    ASSUME NEW S, IsFiniteSet(S), NEW R, StrictOrder(R, S), NEW k \in Nat,
           NEW s, Sorting(s, R, S), NEW q, q = Truncated(s, k)
    PROVE  Firsts(q, R, S, k)
<1>1. /\ IsSequence(s)
      /\ \A m \in 1..Len(s) : s[m] \in S
      /\ \A x \in S : \E m \in 1..Len(s) : s[m] = x
      /\ \A i, j \in 1..Len(s) : i < j => <<s[i], s[j]>> \in R
  BY Sorted
<1>2. IsSequence(q) /\ Len(q) <= Len(s) /\ \A m \in 1..Len(q) : q[m] = s[m]
  BY <1>1, FirstElements
<1>3. Len(s) \in Nat /\ Len(q) \in Nat
  BY <1>1, <1>2 DEF IsSequence
<1>4. Len(q) = IF k <= Len(s) THEN k ELSE Len(s)
  <2>1. PICK n : n = (IF k <= Len(s) THEN k ELSE Len(s)) /\ n \in 0..Len(s)
    BY <1>3
  <2>2. LeastOf({k, Len(s)}) = n
    BY <1>3, <2>1, LeastOfTwo
  <2>3. q = SubSeq(s, 1, n)
    BY <2>2 DEF Truncated
  <2>4. s \in Seq({s[m] : m \in 1..Len(s)})
    BY <1>1, SequenceOf
  <2>5. Len(q) = n
    BY <1>3, <2>1, <2>3, <2>4, SubSeqProperties
  <2> QED
    BY <2>1, <2>5
<1>5. ASSUME NEW m \in 1..Len(q), NEW y \in S
      PROVE  <<y, q[m]>> \in R <=> \E j \in 1..m - 1 : q[j] = y
  <2>1. PICK i \in 1..Len(s) : s[i] = y
    BY <1>1
  <2>2. m \in 1..Len(s) /\ q[m] = s[m]
    BY <1>2, <1>3
  <2>3. ASSUME i < m PROVE <<y, q[m]>> \in R /\ \E j \in 1..m - 1 : q[j] = y
    <3>1. i \in 1..m - 1 /\ i \in 1..Len(q)
      BY <1>3, <2>1, <2>3
    <3>2. q[i] = y
      BY <1>2, <2>1, <3>1
    <3> QED
      BY <1>1, <2>1, <2>2, <2>3, <3>1, <3>2
  <2>4. ASSUME ~(i < m) PROVE <<y, q[m]>> \notin R
    <3>1. i = m \/ <<s[m], s[i]>> \in R
      BY <1>1, <1>3, <2>1, <2>2, <2>4
    <3>2. y \in S /\ s[m] \in S
      BY <1>1, <2>2
    <3> QED
      BY <2>1, <2>2, <3>1, <3>2 DEF StrictOrder
  <2>5. ASSUME ~(i < m), NEW j \in 1..m - 1, q[j] = y PROVE FALSE
    <3>1. j \in 1..Len(s) /\ j \in 1..Len(q) /\ j < i
      BY <1>3, <2>1, <2>2, <2>5
    <3>2. <<s[j], s[i]>> \in R /\ s[j] = y
      BY <1>1, <1>2, <2>5, <3>1
    <3> QED
      BY <2>1, <3>2 DEF StrictOrder
  <2> QED
    BY <2>3, <2>4, <2>5
<1>6. ASSUME NEW y \in S, Len(q) # k PROVE \E m \in 1..Len(q) : q[m] = y
  <2>1. Len(q) = Len(s)
    BY <1>3, <1>4, <1>6
  <2> QED
    BY <1>1, <1>2, <2>1
<1>7. Len(q) <= k
  BY <1>3, <1>4
<1>8. \A m \in 1..Len(q) : q[m] \in S
  BY <1>1, <1>2, <1>3
<1> QED
  BY <1>2, <1>5, <1>6, <1>7, <1>8 DEF Firsts

\* k things are not among fewer.
AllDiffer(l, k)    == \A i, j \in 1..k : l[i] = l[j] => i = j
AreAmong(l, k, f, m)  == \A i \in 1..k : \E j \in 1..m : f[j] = l[i]

LEMMA TooMany ==
    ASSUME NEW k \in Nat, NEW m \in Nat, m < k, NEW l, AllDiffer(l, k), NEW f, AreAmong(l, k, f, m)
    PROVE  FALSE
<1> DEFINE g == [i \in 1..k |-> CHOOSE j \in 1..m : f[j] = l[i]]
<1>1. \A i \in 1..k : g[i] \in 1..m /\ f[g[i]] = l[i]
  BY DEF AreAmong
<1>2. g \in [1..k -> 1..m]
  BY <1>1
<1>3. IsFiniteSet(1..k) /\ IsFiniteSet(1..m) /\ Cardinality(1..k) = k /\ Cardinality(1..m) = m
  BY FS_Interval
<1> HIDE DEF g
<1>4. PICK i, j \in 1..k : i # j /\ g[i] = g[j]
  <2>1. PICK S, T : S = 1..k /\ T = 1..m
    OBVIOUS
  <2>2. IsFiniteSet(S) /\ IsFiniteSet(T) /\ Cardinality(T) < Cardinality(S) /\ g \in [S -> T]
    BY <1>2, <1>3, <2>1
  <2> QED
    BY <2>1, <2>2, FS_PigeonHole
<1> QED
  BY <1>1, <1>4 DEF AllDiffer

\* The elements of N sets, each in one of them, and lists of the first of each;
\* P has what is listed, with the number of the list, in the order of the elements.
PairsOf(P, l, N) ==
    \A x : x \in P <=> \E n \in 1..N : \E m \in 1..Len(l[n]) : x = <<l[n][m], n>>

Parted(S, T, N) ==
    /\ \A y : y \in S <=> \E n \in 1..N : y \in T[n]
    /\ \A i, j \in 1..N : \A y \in T[i] : y \in T[j] => i = j

FirstsOf(l, T, N, R, k) == \A n \in 1..N : Firsts(l[n], R, T[n], k)

LEMMA PairsStrict ==
    ASSUME NEW S, NEW R, StrictOrder(R, S), NEW N \in Nat, NEW T, Parted(S, T, N),
           NEW k \in Nat, NEW l, FirstsOf(l, T, N, R, k),
           NEW P, PairsOf(P, l, N)
    PROVE  /\ \A x \in P : x[1] \in S /\ x[2] \in 1..N /\ x = <<x[1], x[2]>> /\ x[1] \in T[x[2]]
           /\ \A x, y \in P : x[1] = y[1] => x = y
<1>1. ASSUME NEW x \in P
      PROVE  x[1] \in S /\ x[2] \in 1..N /\ x = <<x[1], x[2]>> /\ x[1] \in T[x[2]]
  <2>1. PICK n, m : n \in 1..N /\ m \in 1..Len(l[n]) /\ x = <<l[n][m], n>>
    BY DEF PairsOf
  <2>2. l[n][m] \in T[n]
    <3>1. PICK q, U : q = l[n] /\ U = T[n]
      OBVIOUS
    <3>2. Firsts(q, R, U, k)
      BY <2>1, <3>1 DEF FirstsOf
    <3> QED
      BY <2>1, <3>1, <3>2 DEF Firsts
  <2> QED
    BY <2>1, <2>2 DEF Parted
<1>2. ASSUME NEW x \in P, NEW y \in P, x[1] = y[1]
      PROVE  x = y
  <2>1. x[2] = y[2]
    BY <1>1, <1>2 DEF Parted
  <2> QED
    BY <1>1, <1>2, <2>1
<1> QED
  BY <1>1, <1>2

\* If an element is not listed then k others of its set, which come before it, are.
Before(x, k, P, R, y) == AllDiffer(x, k) /\ \A i \in 1..k : x[i] \in P /\ <<x[i][1], y>> \in R

LEMMA Unlisted ==
    ASSUME NEW S, NEW R, StrictOrder(R, S), NEW N \in Nat, NEW T, Parted(S, T, N),
           NEW k \in Nat, NEW l, FirstsOf(l, T, N, R, k),
           NEW P, PairsOf(P, l, N), NEW n \in 1..N, NEW y \in T[n], <<y, n>> \notin P
    PROVE  \E x : Before(x, k, P, R, y)
<1>1. PICK q, U : q = l[n] /\ U = T[n] /\ y \in U
  OBVIOUS
<1>2. Firsts(q, R, U, k)
  BY <1>1 DEF FirstsOf
<1>3. U \subseteq S
  BY <1>1 DEF Parted
<1>4. StrictOrder(R, U)
  BY <1>3, StrictWithin
<1>5. \A m \in 1..Len(q) : q[m] # y
  BY <1>1 DEF PairsOf
<1>6. Len(q) = k
  BY <1>1, <1>2, <1>5 DEF Firsts
<1>7. ASSUME NEW i \in 1..k PROVE q[i] \in U /\ <<q[i], y>> \in R
  <2>1. q[i] \in U /\ q[i] # y
    BY <1>2, <1>5, <1>6 DEF Firsts
  <2>2. <<y, q[i]>> \notin R
    <3> SUFFICES ASSUME <<y, q[i]>> \in R PROVE FALSE
      OBVIOUS
    <3>1. PICK j \in 1..i - 1 : q[j] = y
      BY <1>1, <1>2, <1>6 DEF Firsts
    <3>2. j \in 1..Len(q)
      BY <1>6
    <3> QED
      BY <1>5, <3>1, <3>2
  <2> QED
    BY <1>1, <1>4, <2>1, <2>2 DEF StrictOrder
<1>8. \A i, j \in 1..k : q[i] = q[j] => i = j
  BY <1>2, <1>4, <1>6, FirstsDiffer
<1> DEFINE x == [i \in 1..k |-> <<q[i], n>>]
<1>9. \A i \in 1..k : x[i] \in P /\ x[i][1] = q[i]
  BY <1>1, <1>6 DEF PairsOf
<1>10. \A i, j \in 1..k : x[i] = x[j] => q[i] = q[j]
  OBVIOUS
<1> HIDE DEF x
<1>11. Before(x, k, P, R, y)
  BY <1>7, <1>8, <1>9, <1>10 DEF Before, AllDiffer
<1> QED
  BY <1>11

\* The first elements of all are the first of each set's first.
LEMMA FirstsMerged ==
    ASSUME NEW S, NEW R, StrictOrder(R, S), NEW N \in Nat, NEW T, Parted(S, T, N),
           NEW k \in Nat, NEW l, FirstsOf(l, T, N, R, k),
           NEW P, PairsOf(P, l, N),
           NEW Q, \A x, y \in P : <<x, y>> \in Q <=> <<x[1], y[1]>> \in R,
           NEW f, Firsts(f, Q, P, k), NEW q, q = [m \in DOMAIN f |-> f[m][1]]
    PROVE  Firsts(q, R, S, k)
<1>1. PICK n : n = Len(f) /\ n \in Nat /\ n <= k /\ DOMAIN f = 1..n
  BY SequenceOf DEF Firsts, IsSequence
<1>2. IsSequence(q) /\ Len(q) = n /\ \A m \in 1..n : q[m] = f[m][1]
  <2>1. \A m \in 1..n : q[m] = f[m][1]
    BY <1>1
  <2>2. q = [m \in 1..n |-> q[m]]
    BY <1>1
  <2> QED
    BY <1>1, <2>1, <2>2, MadeSequence
<1>3. /\ \A x \in P : x[1] \in S /\ x[2] \in 1..N /\ x = <<x[1], x[2]>> /\ x[1] \in T[x[2]]
      /\ \A x, y \in P : x[1] = y[1] => x = y
  BY PairsStrict
<1>4. \A m \in 1..n : f[m] \in P /\ q[m] \in S
  BY <1>1, <1>2, <1>3 DEF Firsts
<1>5. ASSUME NEW m \in 1..n, NEW j \in 1..m - 1
      PROVE  <<q[j], q[m]>> \in R
  <2>1. j \in 1..n
    BY <1>1
  <2>2. <<f[j], f[m]>> \in Q
    BY <1>1, <1>4, <2>1 DEF Firsts
  <2> QED
    BY <1>2, <1>4, <2>1, <2>2
<1>6. ASSUME NEW m \in 1..n, NEW y \in S, <<y, q[m]>> \in R
      PROVE  \E j \in 1..m - 1 : q[j] = y
  <2>1. PICK i : i \in 1..N /\ y \in T[i]
    BY DEF Parted
  <2>2. ASSUME NEW x \in P, <<x[1], q[m]>> \in R
        PROVE  \E j \in 1..m - 1 : f[j] = x
    <3>1. <<x, f[m]>> \in Q
      BY <1>2, <1>4, <2>2
    <3> QED
      BY <1>1, <3>1 DEF Firsts
  <2>3. CASE <<y, i>> \in P
    <3>1. PICK x : x = <<y, i>> /\ x \in P /\ x[1] = y
      BY <2>3
    <3>2. PICK j \in 1..m - 1 : f[j] = x
      BY <1>6, <2>2, <3>1
    <3>3. j \in 1..n
      BY <1>1
    <3> QED
      BY <1>2, <3>1, <3>2, <3>3
  <2>4. CASE <<y, i>> \notin P
    <3>1. PICK x : Before(x, k, P, R, y)
      BY <2>1, <2>4, Unlisted
    <3>2. ASSUME NEW p \in 1..k PROVE \E j \in 1..m - 1 : f[j] = x[p]
      <4>1. x[p] \in P /\ x[p][1] \in S /\ q[m] \in S
        BY <1>3, <1>4, <3>1 DEF Before
      <4>2. <<x[p][1], q[m]>> \in R
        BY <1>6, <3>1, <4>1 DEF StrictOrder, Before
      <4> QED
        BY <2>2, <4>1, <4>2
    <3>3. m - 1 \in Nat /\ m - 1 < k
      BY <1>1
    <3>4. FALSE
      <4>1. PICK z : z = m - 1
        OBVIOUS
      <4>2. AreAmong(x, k, f, z) /\ AllDiffer(x, k) /\ z \in Nat /\ z < k
        BY <3>1, <3>2, <3>3, <4>1 DEF AreAmong, Before
      <4> QED
        BY ONLY <4>2, TooMany, k \in Nat
    <3> QED
      BY <3>4
  <2> QED
    BY <2>3, <2>4
<1>7. ASSUME NEW y \in S, n # k
      PROVE  \E m \in 1..n : q[m] = y
  <2>1. PICK i : i \in 1..N /\ y \in T[i]
    BY DEF Parted
  <2>2. \A x \in P : \E m \in 1..n : f[m] = x
    BY <1>1, <1>7 DEF Firsts
  <2>3. CASE <<y, i>> \in P
    <3>1. PICK x : x = <<y, i>> /\ x \in P /\ x[1] = y
      BY <2>3
    <3> QED
      BY <1>2, <2>2, <3>1
  <2>4. CASE <<y, i>> \notin P
    <3>1. PICK x : Before(x, k, P, R, y)
      BY <2>1, <2>4, Unlisted
    <3>2. AreAmong(x, k, f, n) /\ AllDiffer(x, k)
      BY <2>2, <3>1 DEF AreAmong, Before
    <3>3. n < k /\ n \in Nat
      BY <1>1, <1>7
    <3>4. FALSE
      BY ONLY <3>2, <3>3, TooMany, k \in Nat
    <3> QED
      BY <3>4
  <2> QED
    BY <2>3, <2>4
<1>8. ASSUME NEW m \in 1..n, NEW y \in S
      PROVE  <<y, q[m]>> \in R <=> \E j \in 1..m - 1 : q[j] = y
  BY <1>5, <1>6
<1> QED
  BY <1>1, <1>2, <1>4, <1>7, <1>8 DEF Firsts

---------------------------------------------------------------------------
\* Hits.

\* A hit of a document as it is in D, one that matches.
GoodHit(h, D, req, filter) ==
    /\ h.id \in DOMAIN D
    /\ Matches(filter, D[h.id], schema.fts)
    /\ h.attrs = Project(req.include, D[h.id])
    /\ h.score \in Int

\* A set of hits: every one good, each of a document of its own.
OfDocs(hits, D, req, filter) ==
    /\ \A h \in hits : GoodHit(h, D, req, filter)
    /\ \A g, h \in hits : g.id = h.id => g = h

\* A list of them.
Listed(q, D, req, filter) ==
    /\ IsSequence(q)
    /\ \A k \in 1..Len(q) : GoodHit(q[k], D, req, filter)
    /\ \A j, k \in 1..Len(q) : q[j].id = q[k].id => j = k

LEMMA HitKeys ==
    ASSUME NEW D, AllFit(D, schema), NEW req, NEW filter,
           NEW g, GoodHit(g, D, req, filter), NEW h, GoodHit(h, D, req, filter)
    PROVE  /\ g.score \in Int /\ g.id.items[1] \in Int
           /\ HitBefore(g, h) <=> \/ g.score > h.score
                                  \/ g.score = h.score /\ g.id.items[1] < h.id.items[1]
           /\ g.id = h.id <=> g.id.items[1] = h.id.items[1]
<1>1. PICK i, j : i = g.id /\ j = h.id
  OBVIOUS
<1>2. i \in StorableIds /\ j \in StorableIds /\ i.type = j.type
  BY <1>1 DEF GoodHit, AllFit, IdFits
<1>3. /\ i.items[1] \in Int /\ j.items[1] \in Int
      /\ IdBefore(i, j) <=> i.items[1] < j.items[1]
      /\ i = j <=> i.items[1] = j.items[1]
  BY <1>2, IdOrder
<1>4. g.score \in Int /\ h.score \in Int
  BY DEF GoodHit
<1> QED
  BY <1>1, <1>3, <1>4 DEF HitBefore

LEMMA HitsFinite ==
    ASSUME NEW D, IsFiniteSet(DOMAIN D), NEW req, NEW filter, NEW hits, OfDocs(hits, D, req, filter)
    PROVE  IsFiniteSet(hits)
<1> DEFINE f == [h \in hits |-> h.id]
<1>1. f \in [hits -> DOMAIN D]
  BY DEF OfDocs, GoodHit
<1>2. \A g, h \in hits : f[g] = f[h] => g = h
  BY DEF OfDocs
<1> HIDE DEF f
<1>3. f \in Injection(hits, DOMAIN D)
  BY <1>1, <1>2, Fun_IsInj
<1> QED
  BY <1>3, FS_Injection

\* R has the order of some hits.
HitOrder(R, hits) == \A x, y \in hits : <<x, y>> \in R <=> HitBefore(x, y)

LEMMA HitsOrdered ==
    ASSUME NEW D, AllFit(D, schema), IsMap(D), NEW req, NEW filter,
           NEW hits, OfDocs(hits, D, req, filter), NEW R, HitOrder(R, hits)
    PROVE  /\ StrictOrder(R, hits) /\ IsFiniteSet(hits)
           /\ Sorting(SortedBy(hits, HitBefore), R, hits)
<1> DEFINE f == [h \in hits |-> h.score]
           g == [h \in hits |-> h.id.items[1]]
<1>1. \A x, y \in hits : <<x, y>> \in R <=> HitBefore(x, y)
  BY DEF HitOrder
<1>2. ASSUME NEW x \in hits, NEW y \in hits
      PROVE  /\ f[x] \in Int /\ g[x] \in Int
             /\ HitBefore(x, y) <=> f[x] > f[y] \/ (f[x] = f[y] /\ g[x] < g[y])
             /\ g[x] = g[y] => x = y
  <2>1. GoodHit(x, D, req, filter) /\ GoodHit(y, D, req, filter)
    BY DEF OfDocs
  <2>2. /\ x.score \in Int /\ x.id.items[1] \in Int
        /\ HitBefore(x, y) <=> \/ x.score > y.score
                               \/ x.score = y.score /\ x.id.items[1] < y.id.items[1]
        /\ x.id = y.id <=> x.id.items[1] = y.id.items[1]
    BY <2>1, HitKeys
  <2>3. x.id = y.id => x = y
    BY DEF OfDocs
  <2> QED
    BY <2>2, <2>3
<1>3. IsFiniteSet(hits)
  BY HitsFinite DEF IsMap
<1>4. Sorting(SortedBy(hits, HitBefore), R, hits)
  <2>1. \A x \in hits : {y \in hits : HitBefore(y, x)} = Below(R, hits, x)
    BY <1>1 DEF Below
  <2>2. SortedBy(hits, HitBefore) = [k \in 1..Cardinality(hits) |->
            CHOOSE x \in hits : Cardinality({y \in hits : HitBefore(y, x)}) = k - 1]
    BY Zenon DEF SortedBy
  <2>3. ASSUME NEW k
        PROVE  (CHOOSE x \in hits : Cardinality({y \in hits : HitBefore(y, x)}) = k - 1)
                = CHOOSE x \in hits : Cardinality(Below(R, hits, x)) = k - 1
    BY <2>1
  <2> QED
    BY <2>2, <2>3 DEF Sorting
<1> HIDE DEF f, g
<1>5. StrictOrder(R, hits)
  <2>1. \A x \in hits : f[x] \in Int /\ g[x] \in Int
    BY <1>2
  <2>2. \A x, y \in hits : <<x, y>> \in R <=> f[x] > f[y] \/ (f[x] = f[y] /\ g[x] < g[y])
    BY <1>1, <1>2
  <2>3. \A x, y \in hits : f[x] = f[y] /\ g[x] = g[y] => x = y
    BY <1>2
  <2> QED
    BY ONLY <2>1, <2>2, <2>3, TwoKeys
<1> QED
  BY <1>3, <1>4, <1>5

LEMMA BestFirsts ==
    ASSUME NEW D, AllFit(D, schema), IsMap(D), NEW req, NEW filter,
           NEW hits, OfDocs(hits, D, req, filter), NEW R, HitOrder(R, hits),
           NEW n \in Nat, NEW q, q = Best(hits, n)
    PROVE  Firsts(q, R, hits, n)
<1>1. PICK s : s = SortedBy(hits, HitBefore)
  OBVIOUS
<1>2. StrictOrder(R, hits) /\ IsFiniteSet(hits) /\ Sorting(s, R, hits)
  BY <1>1, HitsOrdered
<1>3. q = Truncated(s, n)
  BY <1>1, Zenon DEF Best
<1> QED
  BY <1>2, <1>3, FirstsSorted

\* The best of some hits are a list of them.
LEMMA BestListed ==
    ASSUME NEW D, AllFit(D, schema), IsMap(D), NEW req, NEW filter,
           NEW hits, OfDocs(hits, D, req, filter), NEW n \in Nat, NEW q, q = Best(hits, n)
    PROVE  Listed(q, D, req, filter)
<1>1. PICK R : R = {p \in hits \X hits : HitBefore(p[1], p[2])}
  OBVIOUS
<1>2. HitOrder(R, hits)
  BY <1>1 DEF HitOrder
<1>3. PICK s : s = SortedBy(hits, HitBefore)
  OBVIOUS
<1>4. StrictOrder(R, hits) /\ IsFiniteSet(hits) /\ Sorting(s, R, hits)
  BY <1>2, <1>3, HitsOrdered
<1>5. /\ IsSequence(s)
      /\ \A k \in 1..Len(s) : s[k] \in hits
      /\ \A j, k \in 1..Len(s) : j < k => <<s[j], s[k]>> \in R
  BY <1>4, Sorted
<1>6. IsSequence(q) /\ Len(q) <= Len(s) /\ \A k \in 1..Len(q) : q[k] = s[k]
  <2>1. q = Truncated(s, n)
    BY <1>3, Zenon DEF Best
  <2> QED
    BY <1>5, <2>1, FirstElements
<1>7. /\ \A k \in 1..Len(q) : q[k] \in hits
      /\ \A j, k \in 1..Len(q) : j < k => <<q[j], q[k]>> \in R
  <2>1. \A k \in 1..Len(q) : k \in 1..Len(s)
    BY <1>5, <1>6 DEF IsSequence
  <2> QED
    BY <1>5, <1>6, <2>1
<1>8. ASSUME NEW j \in 1..Len(q), NEW k \in 1..Len(q), q[j].id = q[k].id
      PROVE  j = k
  <2>1. q[j] = q[k]
    BY <1>7, <1>8 DEF OfDocs
  <2>2. ~(j < k) /\ ~(k < j)
    BY <1>4, <1>7, <2>1 DEF StrictOrder
  <2> QED
    BY <2>2
<1> QED
  BY <1>6, <1>7, <1>8 DEF Listed, OfDocs

---------------------------------------------------------------------------
\* Parts of the documents.

\* What a record may ask for.
Operation(r) == r.op \in {"upsert", "patch", "delete"}

\* Documents that are all among others.
Among(f, g) ==
    /\ f = [i \in DOMAIN f |-> f[i]]
    /\ DOMAIN f \subseteq DOMAIN g
    /\ \A i \in DOMAIN f : f[i] = g[i]

LEMMA AppliedAt ==
    ASSUME NEW D, NEW r, Operation(r), NEW new, new = Docs!Apply(D, r)
    PROVE  /\ new = [i \in DOMAIN new |-> new[i]]
           /\ \A i : i # r.id => (i \in DOMAIN new <=> i \in DOMAIN D)
           /\ \A i \in DOMAIN new : i # r.id => new[i] = D[i]
           /\ r.id \in DOMAIN new <=> \/ r.op = "upsert"
                                      \/ r.op = "patch" /\ r.id \in DOMAIN D
           /\ r.id \in DOMAIN new =>
                 new[r.id] = IF r.op = "upsert" THEN r.attrs ELSE Docs!Patched(D[r.id], r.attrs)
<1> DEFINE present == CASE r.op = "upsert" -> DOMAIN D \cup {r.id}
                        [] r.op = "patch"  -> DOMAIN D
                        [] r.op = "delete" -> DOMAIN D \ {r.id}
<1>1. /\ DOMAIN new = present
      /\ new = [i \in present |-> new[i]]
      /\ \A i \in present : i # r.id => new[i] = D[i]
      /\ \A i \in present : i = r.id =>
            new[i] = IF r.op = "upsert" THEN r.attrs ELSE Docs!Patched(D[i], r.attrs)
  BY DEF Docs!Apply
<1>2. /\ \A i : i # r.id => (i \in present <=> i \in DOMAIN D)
      /\ r.id \in present <=> r.op = "upsert" \/ (r.op = "patch" /\ r.id \in DOMAIN D)
  BY DEF Operation
<1> HIDE DEF present
<1> QED
  BY <1>1, <1>2

LEMMA ApplyWithin ==
    ASSUME NEW f, NEW g, Among(f, g), NEW r, Operation(r),
           NEW a, a = Docs!Apply(f, r), NEW b, b = Docs!Apply(g, r)
    PROVE  Among(a, b)
<1>1. /\ a = [i \in DOMAIN a |-> a[i]]
      /\ \A i : i # r.id => (i \in DOMAIN a <=> i \in DOMAIN f)
      /\ \A i \in DOMAIN a : i # r.id => a[i] = f[i]
      /\ r.id \in DOMAIN a <=> r.op = "upsert" \/ (r.op = "patch" /\ r.id \in DOMAIN f)
      /\ r.id \in DOMAIN a =>
            a[r.id] = IF r.op = "upsert" THEN r.attrs ELSE Docs!Patched(f[r.id], r.attrs)
  BY AppliedAt
<1>2. /\ \A i : i # r.id => (i \in DOMAIN b <=> i \in DOMAIN g)
      /\ \A i \in DOMAIN b : i # r.id => b[i] = g[i]
      /\ r.id \in DOMAIN b <=> r.op = "upsert" \/ (r.op = "patch" /\ r.id \in DOMAIN g)
      /\ r.id \in DOMAIN b =>
            b[r.id] = IF r.op = "upsert" THEN r.attrs ELSE Docs!Patched(g[r.id], r.attrs)
  BY AppliedAt
<1>3. DOMAIN f \subseteq DOMAIN g /\ \A i \in DOMAIN f : f[i] = g[i]
  BY DEF Among
<1>4. ASSUME NEW i \in DOMAIN a PROVE i \in DOMAIN b /\ a[i] = b[i]
  <2>1. CASE i # r.id
    BY <1>1, <1>2, <1>3, <2>1
  <2>2. CASE i = r.id /\ r.op = "upsert"
    BY <1>1, <1>2, <2>2
  <2>3. CASE i = r.id /\ r.op # "upsert"
    <3>1. r.id \in DOMAIN f /\ r.op = "patch"
      BY <1>1, <2>3
    <3>2. f[r.id] = g[r.id] /\ r.id \in DOMAIN b
      BY <1>2, <1>3, <3>1
    <3>3. a[r.id] = Docs!Patched(f[r.id], r.attrs) /\ b[r.id] = Docs!Patched(g[r.id], r.attrs)
      BY <1>1, <1>2, <2>3, <3>2
    <3> QED
      BY <2>3, <3>2, <3>3
  <2> QED
    BY <2>1, <2>2, <2>3
<1> QED
  BY <1>1, <1>4 DEF Among

\* The same records leave parts parts.
LEMMA ReplayWithin ==
    ASSUME NEW f, NEW g, Among(f, g), NEW records, Len(records) \in Nat,
           \A k \in 1..Len(records) : Operation(records[k])
    PROVE  Among(Docs!Replay(f, records), Docs!Replay(g, records))
<1>1. PICK n : n \in Nat /\ n = Len(records)
  OBVIOUS
<1>2. PICK a : Replays!Stages(a, f, records, n) /\ Docs!Replay(f, records) = a[n]
  BY <1>1, ReplayStages
<1>3. PICK b : Replays!Stages(b, g, records, n) /\ Docs!Replay(g, records) = b[n]
  BY <1>1, ReplayStages
<1>4. a[0] = f /\ \A k \in 0..n : k < n => a[k + 1] = Docs!Apply(a[k], records[k + 1])
  BY <1>1, <1>2, StageAt
<1>5. b[0] = g /\ \A k \in 0..n : k < n => b[k + 1] = Docs!Apply(b[k], records[k + 1])
  BY <1>1, <1>3, StageAt
<1> DEFINE S == {k \in 0..n : Among(a[k], b[k])}
<1>6. 0 \in S
  BY <1>1, <1>4, <1>5
<1>7. ASSUME NEW k \in 0..n, k < n, k \in S
      PROVE  k + 1 \in S
  <2>1. k + 1 \in 0..n /\ k + 1 \in 1..n
    BY <1>1, <1>7
  <2>2. Operation(records[k + 1])
    BY <1>1, <2>1
  <2>3. PICK c, d, r, x, y : /\ c = a[k + 1] /\ d = b[k + 1] /\ r = records[k + 1]
                             /\ x = a[k] /\ y = b[k]
    OBVIOUS
  <2>4. c = Docs!Apply(x, r) /\ d = Docs!Apply(y, r) /\ Operation(r) /\ Among(x, y)
    BY <1>4, <1>5, <1>7, <2>2, <2>3
  <2>5. Among(c, d)
    BY <2>4, ApplyWithin
  <2> QED
    BY <2>1, <2>3, <2>5
<1> HIDE DEF S
<1>8. \A k \in 0..n : k \in S
  BY <1>1, <1>6, <1>7, Replays!Upwards
<1> QED
  BY <1>1, <1>2, <1>3, <1>8 DEF S

\* The documents that fall to one of c shards, and the records that do.
Owned(D, c, n) == {i \in DOMAIN D : ShardOf(i, c) = n}
PartOf(D, c, n) == [i \in Owned(D, c, n) |-> D[i]]
OwnOf(records, c, n) == Kept(records, LAMBDA r : ShardOf(r.id, c) = n)

LEMMA ApplyPart ==
    ASSUME NEW D, NEW c, NEW n, NEW r, Operation(r), NEW new, new = Docs!Apply(D, r),
           NEW p, p = PartOf(D, c, n)
    PROVE  PartOf(new, c, n) = IF ShardOf(r.id, c) = n THEN Docs!Apply(p, r) ELSE p
<1>1. /\ \A i : i # r.id => (i \in DOMAIN new <=> i \in DOMAIN D)
      /\ \A i \in DOMAIN new : i # r.id => new[i] = D[i]
      /\ r.id \in DOMAIN new <=> r.op = "upsert" \/ (r.op = "patch" /\ r.id \in DOMAIN D)
      /\ r.id \in DOMAIN new =>
            new[r.id] = IF r.op = "upsert" THEN r.attrs ELSE Docs!Patched(D[r.id], r.attrs)
  BY AppliedAt
<1>2. /\ p = [i \in DOMAIN p |-> p[i]]
      /\ \A i : i \in DOMAIN p <=> i \in DOMAIN D /\ ShardOf(i, c) = n
      /\ \A i \in DOMAIN p : p[i] = D[i]
  BY DEF PartOf, Owned
<1>3. PICK q : q = PartOf(new, c, n)
  OBVIOUS
<1>4. /\ q = [i \in DOMAIN q |-> q[i]]
      /\ \A i : i \in DOMAIN q <=> i \in DOMAIN new /\ ShardOf(i, c) = n
      /\ \A i \in DOMAIN q : q[i] = new[i]
  BY <1>3 DEF PartOf, Owned
<1>5. CASE ShardOf(r.id, c) = n
  <2>1. PICK a : a = Docs!Apply(p, r)
    OBVIOUS
  <2>2. /\ a = [i \in DOMAIN a |-> a[i]]
        /\ \A i : i # r.id => (i \in DOMAIN a <=> i \in DOMAIN p)
        /\ \A i \in DOMAIN a : i # r.id => a[i] = p[i]
        /\ r.id \in DOMAIN a <=> r.op = "upsert" \/ (r.op = "patch" /\ r.id \in DOMAIN p)
        /\ r.id \in DOMAIN a =>
              a[r.id] = IF r.op = "upsert" THEN r.attrs ELSE Docs!Patched(p[r.id], r.attrs)
    BY <2>1, AppliedAt
  <2>3. \A i : i \in DOMAIN a <=> i \in DOMAIN q
    BY <1>1, <1>2, <1>4, <1>5, <2>2
  <2>4. ASSUME NEW i \in DOMAIN a PROVE a[i] = q[i]
    <3>1. i \in DOMAIN q /\ q[i] = new[i] /\ i \in DOMAIN new
      BY <1>4, <2>3
    <3>2. CASE i # r.id
      BY <1>1, <1>2, <2>2, <3>1, <3>2
    <3>3. CASE i = r.id
      <4>1. r.op # "upsert" => p[r.id] = D[r.id]
        BY <1>2, <2>2, <3>3
      <4>2. a[r.id] = new[r.id]
        BY <1>1, <2>2, <3>1, <3>3, <4>1
      <4> QED
        BY <3>1, <3>3, <4>2
    <3> QED
      BY <3>2, <3>3
  <2>5. a = q
    <3>1. DOMAIN a = DOMAIN q
      BY <2>3
    <3> QED
      BY <1>4, <2>2, <2>4, <3>1
  <2> QED
    BY <1>3, <1>5, <2>1, <2>5
<1>6. CASE ShardOf(r.id, c) # n
  <2>1. \A i : i \in DOMAIN p <=> i \in DOMAIN q
    BY <1>1, <1>2, <1>4, <1>6
  <2>2. DOMAIN p = DOMAIN q
    BY <2>1
  <2>3. \A i \in DOMAIN p : p[i] = q[i]
    BY <1>1, <1>2, <1>4, <1>6, <2>1
  <2>4. p = q
    BY <1>2, <1>4, <2>2, <2>3
  <2> QED
    BY <1>3, <1>6, <2>4
<1> QED
  BY <1>5, <1>6

LEMMA ReplayOne ==
    ASSUME NEW D, NEW r, NEW q, q = <<r>>
    PROVE  IsSequence(q) /\ Len(q) = 1 /\ q[1] = r /\ Docs!Replay(D, q) = Docs!Apply(D, r)
<1>1. IsSequence(q) /\ Len(q) = 1 /\ q[1] = r
  BY DEF IsSequence
<1>2. PICK f : Replays!Stages(f, D, q, 1) /\ Docs!Replay(D, q) = f[1]
  BY <1>1, ReplayStages
<1>3. f[0] = D /\ f[0 + 1] = Docs!Apply(f[0], q[0 + 1])
  BY <1>2, StageAt
<1> QED
  BY <1>1, <1>2, <1>3

LEMMA FlattenedStages ==
    ASSUME NEW n \in Nat, n # 0, NEW q, q = [k \in 1..n |-> q[k]]
    PROVE  \E f : Flattenings(f, q, n) /\ FlattenSeq(q) = f[n]
<1>1. Len(q) = n
  BY MadeSequence
<1>2. FlattenSeq(q) = (CHOOSE f : Flattenings(f, q, Len(q)))[Len(q)]
  <2>1. Len(q) # 0
    BY <1>1
  <2> QED
    BY <2>1, Zenon DEF FlattenSeq, Flattenings
<1> QED
  BY <1>1, <1>2, FlatteningsExist

\* What the records that fall to a shard make of the documents that do is what
\* all records make of all documents, as far as it falls to that shard.
LEMMA ReplayOwn ==
    ASSUME NEW D, NEW records, IsSequence(records),
           \A k \in 1..Len(records) : Operation(records[k]),
           NEW c, NEW n, NEW p, p = PartOf(D, c, n), NEW own, own = OwnOf(records, c, n)
    PROVE  /\ Docs!Replay(p, own) = PartOf(Docs!Replay(D, records), c, n)
           /\ IsSequence(own)
           /\ \A k \in 1..Len(own) : Operation(own[k]) /\ \E j \in 1..Len(records) : own[k] = records[j]
<1>1. PICK m : m = Len(records) /\ m \in Nat /\ DOMAIN records = 1..m
  BY SequenceOf DEF IsSequence
<1>2. PICK q : q = [k \in 1..m |-> IF ShardOf(records[k].id, c) = n THEN <<records[k]>> ELSE <<>>]
  OBVIOUS
<1>3. own = FlattenSeq(q)
  BY <1>1, <1>2 DEF OwnOf, Kept
<1>4. ASSUME NEW k \in 1..m
      PROVE  /\ IsSequence(q[k])
             /\ \A i \in 1..Len(q[k]) : q[k][i] = records[k]
             /\ \A d : Docs!Replay(d, q[k]) =
                          IF ShardOf(records[k].id, c) = n THEN Docs!Apply(d, records[k]) ELSE d
  <2>1. PICK r, s : r = records[k] /\ s = q[k] /\ s = IF ShardOf(r.id, c) = n THEN <<r>> ELSE <<>>
    BY <1>2
  <2>2. CASE ShardOf(r.id, c) = n
    <3>1. s = <<r>>
      BY <2>1, <2>2
    <3>2. IsSequence(s) /\ Len(s) = 1 /\ s[1] = r /\ \A d : Docs!Replay(d, s) = Docs!Apply(d, r)
      BY <3>1, ReplayOne
    <3> QED
      BY <2>1, <2>2, <3>2
  <2>3. CASE ShardOf(r.id, c) # n
    <3>1. s = <<>> /\ \A d : Docs!Replay(d, s) = d
      BY <2>1, <2>3, NoneReplayed
    <3> QED
      BY <2>1, <2>3, <3>1, NoRecords
  <2> QED
    BY <2>2, <2>3
<1>5. q = [k \in 1..m |-> q[k]]
  BY <1>2
<1>6. Gathers(own, q, m)
  BY <1>1, <1>3, <1>4, <1>5, Flattened
<1>7. /\ IsSequence(own)
      /\ \A k \in 1..Len(own) : Operation(own[k]) /\ \E j \in 1..Len(records) : own[k] = records[j]
  <2>1. IsSequence(own) /\ \A k \in 1..Len(own) : \E j \in 1..m : \E i \in 1..Len(q[j]) : own[k] = q[j][i]
    BY <1>6 DEF Gathers
  <2>2. ASSUME NEW k \in 1..Len(own)
        PROVE  \E j \in 1..Len(records) : own[k] = records[j]
    <3>1. PICK j \in 1..m : \E i \in 1..Len(q[j]) : own[k] = q[j][i]
      BY <2>1
    <3>2. own[k] = records[j]
      BY <1>4, <3>1
    <3> QED
      BY <1>1, <3>2
  <2>3. \A k \in 1..Len(own) : Operation(own[k])
    BY <2>2
  <2> QED
    BY <2>1, <2>2, <2>3
<1>8. PICK g : Replays!Stages(g, D, records, m) /\ Docs!Replay(D, records) = g[m]
  BY <1>1, ReplayStages
<1>9. g[0] = D /\ \A k \in 0..m : k < m => g[k + 1] = Docs!Apply(g[k], records[k + 1])
  BY <1>1, <1>8, StageAt
<1>10. CASE m = 0
  <2>1. own = <<>>
    <3>1. q = <<>> /\ Len(q) = 0
      BY <1>2, <1>10
    <3> QED
      BY <1>3, <3>1 DEF FlattenSeq
  <2> QED
    BY <1>7, <1>8, <1>9, <1>10, <2>1, NoneReplayed
<1>11. CASE m # 0
  <2>1. PICK f : Flattenings(f, q, m) /\ own = f[m]
    BY <1>1, <1>3, <1>5, <1>11, FlattenedStages
  <2>2. \A j \in 1..m : f[j] = IF j = 1 THEN q[j] ELSE f[j - 1] \o q[j]
    BY <2>1 DEF Flattenings
  <2> DEFINE S == {k \in 0..m : k # 0 => /\ IsSequence(f[k])
                                         /\ Docs!Replay(p, f[k]) = PartOf(g[k], c, n)}
  <2>3. 0 \in S
    BY <1>1
  <2>4. ASSUME NEW k \in 0..m, k < m, k \in S
        PROVE  k + 1 \in S
    <3>1. PICK j : j = k + 1 /\ j \in 1..m /\ j \in 0..m /\ j - 1 = k
      BY <1>1, <2>4
    <3>2. PICK r, x, y, u : r = records[j] /\ x = g[k] /\ y = g[j] /\ u = PartOf(x, c, n)
      OBVIOUS
    <3>3. Operation(r) /\ y = Docs!Apply(x, r)
      BY <1>1, <1>9, <2>4, <3>1, <3>2
    <3>4. PartOf(y, c, n) = IF ShardOf(r.id, c) = n THEN Docs!Apply(u, r) ELSE u
      BY <3>2, <3>3, ApplyPart
    <3>5. /\ IsSequence(q[j])
          /\ Docs!Replay(u, q[j]) = PartOf(y, c, n)
      BY <1>4, <3>1, <3>2, <3>4
    <3>6. CASE k = 0
      <4>1. f[j] = q[j] /\ u = p
        BY <1>9, <2>2, <3>1, <3>2, <3>6
      <4> QED
        BY <3>1, <3>2, <3>5, <4>1
    <3>7. CASE k # 0
      <4>1. f[j] = f[k] \o q[j]
        <5>1. j # 1
          BY <2>4, <3>1, <3>7
        <5>2. f[j] = f[j - 1] \o q[j]
          BY <2>2, <3>1, <5>1, Zenon
        <5> QED
          BY <3>1, <5>2
      <4>2. PICK a, b : a = f[k] /\ b = q[j] /\ IsSequence(a) /\ IsSequence(b)
                        /\ Docs!Replay(p, a) = u
        BY <2>4, <3>2, <3>5, <3>7
      <4>3. IsSequence(a \o b) /\ Docs!Replay(p, a \o b) = Docs!Replay(u, b)
        BY <4>2, Joined2, ReplayJoined
      <4> QED
        BY <3>1, <3>2, <3>5, <4>1, <4>2, <4>3
    <3> QED
      BY <3>6, <3>7
  <2> HIDE DEF S
  <2>5. \A k \in 0..m : k \in S
    BY <1>1, <2>3, <2>4, Replays!Upwards
  <2>6. m \in S
    BY <1>1, <2>5
  <2> QED
    BY <1>7, <1>8, <1>11, <2>1, <2>6 DEF S
<1> QED
  BY <1>10, <1>11

---------------------------------------------------------------------------
\* Distances.

\* A distance of two vectors is an integer.
LEMMA DistanceIsInt ==
    ASSUME NEW a \in Seq(Int), NEW b \in Seq(Int), NEW metric \in Metrics
    PROVE  Distance(metric, a, b) \in Int
<1>1. PICK dot, squared, square_a, square_b :
          /\ dot = Dot(a, b) /\ squared = SquaredDistance(a, b)
          /\ square_a = Dot(a, a) /\ square_b = Dot(b, b)
          /\ dot \in Int /\ squared \in Int /\ square_a \in Nat /\ square_b \in Nat
  BY DotIsInt
<1>2. square_a * square_b \in Nat
  BY <1>1, NatProduct
<1>3. Cosine(a, b) \in Int
  BY <1>1, <1>2, CosineIsInt DEF Cosine
<1> QED
  BY <1>1, <1>3 DEF Distance, Metrics, CosineScale

\* Of some numbers one is the closest.
Numbers(distances, k) == DOMAIN distances = 1..k /\ \A i \in 1..k : distances[i] \in Int

LEMMA ClosestIs ==
    ASSUME NEW k \in Nat, k # 0, NEW distances, Numbers(distances, k)
    PROVE  Closest(distances) \in 1..k
<1> DEFINE R == {p \in (1..k) \X (1..k) : Closer(distances, p[1], p[2])}
           f == [i \in 1..k |-> -distances[i]]
           g == [i \in 1..k |-> i]
<1>1. ASSUME NEW i \in 1..k, NEW j \in 1..k
      PROVE  /\ f[i] \in Int /\ g[i] \in Int
             /\ <<i, j>> \in R <=> Closer(distances, i, j)
             /\ <<i, j>> \in R <=> f[i] > f[j] \/ (f[i] = f[j] /\ g[i] < g[j])
             /\ f[i] = f[j] /\ g[i] = g[j] => i = j
  <2>1. distances[i] \in Int /\ distances[j] \in Int /\ f[i] = -distances[i] /\ f[j] = -distances[j]
    BY DEF Numbers
  <2>2. <<i, j>> \in R <=> Closer(distances, i, j)
    OBVIOUS
  <2> HIDE DEF R, f
  <2> QED
    BY <2>1, <2>2 DEF Closer
<1>2. IsFiniteSet(1..k) /\ Cardinality(1..k) = k
  BY FS_Interval
<1> HIDE DEF R, f, g
<1>3. PICK S : S = 1..k
  OBVIOUS
<1>4. StrictOrder(R, S)
  <2>1. \A x \in S : f[x] \in Int /\ g[x] \in Int
    BY <1>1, <1>3
  <2>2. \A x, y \in S : <<x, y>> \in R <=> f[x] > f[y] \/ (f[x] = f[y] /\ g[x] < g[y])
    BY <1>1, <1>3
  <2>3. \A x, y \in S : f[x] = f[y] /\ g[x] = g[y] => x = y
    BY <1>1, <1>3
  <2> QED
    BY ONLY <2>1, <2>2, <2>3, TwoKeys
<1>5. PICK i \in S : Cardinality(Below(R, S, i)) = 1 - 1
  <2>1. 1 \in 1..Cardinality(S)
    BY <1>2, <1>3
  <2> QED
    BY <1>2, <1>3, <1>4, <2>1, Ranks1
<1>6. Below(R, S, i) = {}
  <2>1. IsFiniteSet(Below(R, S, i))
    BY <1>2, <1>3, FS_Subset DEF Below
  <2> QED
    BY <1>5, <2>1, FS_EmptySet
<1>7. \A j \in 1..k : ~Closer(distances, j, i)
  BY <1>1, <1>3, <1>6 DEF Below
<1> QED
  BY <1>3, <1>7 DEF Closest, Numbers

---------------------------------------------------------------------------
\* Vectors of one dimension.
VectorOfDim(v, d) == v \in Seq(Int) /\ Len(v) = d
VectorsOf(vectors, n, d) == \A o \in 1..n : VectorOfDim(vectors[o], d)

\* The strides that the first centroids are taken in.
LEMMA StrideWithin ==
    ASSUME NEW n \in Nat, NEW k \in 1..n, NEW i \in 1..k
    PROVE  (((i - 1) * n) \div k) + 1 \in 1..n
<1>1. PICK m : m = i - 1 /\ m \in Nat /\ m <= k - 1
  OBVIOUS
<1>2. PICK q : q = (m * n) \div k /\ q \in Nat /\ q * k <= m * n
  <2>1. PICK p : p = m * n /\ p \in Nat
    BY <1>1, NatProduct
  <2>2. p \div k \in Nat /\ (p \div k) * k <= p
    BY <2>1
  <2> QED
    BY <2>1, <2>2
<1>3. q < n
  <2> SUFFICES ASSUME q >= n PROVE FALSE
    BY <1>2
  <2>1. PICK e : q = n + e /\ e \in Nat
    <3>1. q = n + (q - n) /\ q - n \in Nat
      BY <1>2
    <3> QED
      BY <3>1
  <2>2. PICK h : k = m + 1 + h /\ h \in Nat
    <3>1. k = m + 1 + (k - m - 1) /\ k - m - 1 \in Nat
      BY <1>1
    <3> QED
      BY <3>1
  <2>3. q * k = n * m + n + n * h + e * k
    BY <1>1, <2>1, <2>2
  <2>4. n * h \in Nat /\ e * k \in Nat /\ n * m = m * n /\ n * m \in Nat
    BY <1>1, <2>1, <2>2, NatProduct
  <2> QED
    BY <1>2, <2>3, <2>4
<1> QED
  BY <1>1, <1>2, <1>3

LEMMA MeanIsVector ==
    ASSUME NEW vectors, IsSequence(vectors), NEW d, VectorsOf(vectors, Len(vectors), d),
           NEW own, own \subseteq 1..Len(vectors), NEW centroid, VectorOfDim(centroid, d),
           NEW new, new = MeanOf(vectors, own, centroid)
    PROVE  VectorOfDim(new, d)
<1>1. CASE own = {}
  BY <1>1 DEF MeanOf
<1>2. CASE own # {}
  <2>1. PICK n : n = Len(vectors) /\ n \in Nat /\ DOMAIN vectors = 1..n
    BY SequenceOf DEF IsSequence
  <2>2. PICK size : size = Cardinality(own) /\ size \in Nat /\ size # 0
    <3>1. IsFiniteSet(1..n)
      BY <2>1, FS_Interval
    <3>2. IsFiniteSet(own)
      BY <2>1, <3>1, FS_Subset
    <3> QED
      BY <1>2, <3>2, FS_CardinalityType, FS_EmptySet
  <2> DEFINE column(e) == [o \in DOMAIN vectors |-> IF o \in own THEN vectors[o][e] ELSE 0]
             mean == [e \in DOMAIN centroid |-> SumTo(column(e), Len(vectors)) \div Cardinality(own)]
  <2>3. DOMAIN centroid = 1..d /\ d \in Nat
    BY DEF VectorOfDim
  <2>4. ASSUME NEW e \in 1..d
        PROVE  SumTo(column(e), n) \in Int
    <3>1. PICK f : f = column(e)
      OBVIOUS
    <3>2. ASSUME NEW o \in 1..n PROVE f[o] \in Int
      <4>1. vectors[o] \in Seq(Int) /\ Len(vectors[o]) = d
        BY <2>1 DEF VectorsOf, VectorOfDim
      <4>2. vectors[o][e] \in Int
        BY <4>1
      <4>3. f[o] = IF o \in own THEN vectors[o][e] ELSE 0
        BY <2>1, <3>1
      <4> QED
        BY <4>2, <4>3
    <3>3. SumTo(f, n) \in Int
      BY <2>1, <3>2, SumIsInt
    <3> QED
      BY <3>1, <3>3
  <2>5. new = mean
    BY <1>2 DEF MeanOf
  <2>6. \A e \in 1..d : mean[e] \in Int
    <3> SUFFICES ASSUME NEW e \in 1..d PROVE mean[e] \in Int
      OBVIOUS
    <3>1. PICK sum : sum = SumTo(column(e), n) /\ sum \in Int
      BY <2>4
    <3>2. mean[e] = sum \div size
      BY <2>1, <2>2, <2>3, <3>1
    <3> QED
      BY <2>2, <3>1, <3>2
  <2>7. mean = [e \in 1..d |-> mean[e]]
    BY <2>3
  <2> HIDE DEF mean
  <2>8. new = [e \in 1..d |-> new[e]] /\ \A e \in 1..d : new[e] \in Int
    BY <2>5, <2>6, <2>7
  <2> QED
    BY <2>3, <2>8 DEF VectorOfDim
<1> QED
  BY <1>1, <1>2

---------------------------------------------------------------------------
\* The clusters of a segment.

\* What Lloyd's algorithm goes through.
Rounds(f, vectors, start, metric, n) ==
    f = [round \in 0..n |->
            IF round = 0 THEN start ELSE Recentred(vectors, f[round - 1], metric)]

LEMMA RoundsExist ==
    ASSUME NEW vectors, NEW start, NEW metric, NEW n \in Nat
    PROVE  \E f : Rounds(f, vectors, start, metric, n)
<1> DEFINE S == {k \in 0..n : \E f : Rounds(f, vectors, start, metric, k)}
<1>1. 0 \in S
  <2>1. Rounds([k \in 0..0 |-> start], vectors, start, metric, 0)
    BY DEF Rounds
  <2> QED
    BY <2>1
<1>2. ASSUME NEW k \in 0..n, k < n, k \in S
      PROVE  k + 1 \in S
  <2>1. PICK s : Rounds(s, vectors, start, metric, k)
    BY <1>2
  <2> DEFINE t == [j \in 0..(k + 1) |-> IF j = k + 1 THEN Recentred(vectors, s[k], metric) ELSE s[j]]
  <2>2. \A j \in 0..k : s[j] = IF j = 0 THEN start ELSE Recentred(vectors, s[j - 1], metric)
    BY <2>1 DEF Rounds
  <2>3. ASSUME NEW j \in 0..(k + 1)
        PROVE  t[j] = IF j = 0 THEN start ELSE Recentred(vectors, t[j - 1], metric)
    <3>1. CASE j = k + 1
      BY <1>2, <3>1
    <3>2. CASE j # k + 1
      BY <1>2, <2>2, <3>2
    <3> QED
      BY <3>1, <3>2
  <2>4. t = [j \in 0..(k + 1) |-> t[j]]
    OBVIOUS
  <2> HIDE DEF t
  <2>5. Rounds(t, vectors, start, metric, k + 1)
    BY <2>3, <2>4 DEF Rounds
  <2>6. k + 1 \in 0..n
    BY <1>2
  <2> QED
    BY <2>5, <2>6
<1> HIDE DEF S
<1>3. \A k \in 0..n : k \in S
  BY <1>1, <1>2, Replays!Upwards
<1> QED
  BY <1>3 DEF S

\* The centroids there are to start with are as many in the end, and vectors of
\* integers.
LEMMA CentroidsAre ==
    ASSUME NEW vectors, IsSequence(vectors), NEW d, VectorsOf(vectors, Len(vectors), d),
           NEW k \in 1..Len(vectors), NEW metric,
           NEW centroids, centroids = KMeans(vectors, k, Iterations, metric)
    PROVE  DOMAIN centroids = 1..k /\ VectorsOf(centroids, k, d)
<1>1. PICK start : start = [i \in 1..k |-> vectors[(((i - 1) * Len(vectors)) \div k) + 1]]
  OBVIOUS
<1>2. Iterations \in Nat
  BY RequestsAssumption
<1>3. PICK f : /\ Rounds(f, vectors, start, metric, Iterations)
               /\ centroids = f[Iterations]
  <2>1. centroids = (CHOOSE f : Rounds(f, vectors, start, metric, Iterations))[Iterations]
    BY <1>1, Zenon DEF KMeans, Rounds
  <2> QED
    BY <1>2, <2>1, RoundsExist
<1>4. \A j \in 0..Iterations : f[j] = IF j = 0 THEN start ELSE Recentred(vectors, f[j - 1], metric)
  BY <1>3 DEF Rounds
<1>5. DOMAIN start = 1..k /\ VectorsOf(start, k, d)
  <2>1. ASSUME NEW i \in 1..k
        PROVE  VectorOfDim(start[i], d)
    <3>1. PICK n : n = Len(vectors) /\ n \in Nat /\ k \in 1..n
      BY DEF IsSequence
    <3>2. PICK o : o = (((i - 1) * n) \div k) + 1 /\ o \in 1..n
      BY <3>1, StrideWithin
    <3>3. start[i] = vectors[o]
      BY <1>1, <3>1, <3>2
    <3> QED
      BY <3>1, <3>2, <3>3 DEF VectorsOf
  <2> QED
    BY <1>1, <2>1 DEF VectorsOf
<1> DEFINE S == {j \in 0..Iterations : DOMAIN f[j] = 1..k /\ VectorsOf(f[j], k, d)}
<1>6. 0 \in S
  BY <1>2, <1>4, <1>5
<1>7. ASSUME NEW j \in 0..Iterations, j < Iterations, j \in S
      PROVE  j + 1 \in S
  <2>1. j + 1 \in 0..Iterations /\ j + 1 # 0 /\ (j + 1) - 1 = j
    BY <1>2, <1>7
  <2>2. PICK old, new : /\ old = f[j] /\ new = f[j + 1] /\ new = Recentred(vectors, old, metric)
                        /\ DOMAIN old = 1..k /\ VectorsOf(old, k, d)
    BY <1>4, <1>7, <2>1
  <2>3. DOMAIN new = 1..k
    BY <2>2 DEF Recentred
  <2>4. ASSUME NEW c \in 1..k
        PROVE  VectorOfDim(new[c], d)
    <3>1. PICK own, centroid : own = Assigned(vectors, old, metric, c) /\ centroid = old[c]
      OBVIOUS
    <3>2. own \subseteq 1..Len(vectors)
      BY <3>1, SequenceOf DEF Assigned
    <3>3. VectorOfDim(centroid, d)
      BY <2>2, <3>1 DEF VectorsOf
    <3>4. new[c] = MeanOf(vectors, own, centroid)
      BY <2>2, <3>1 DEF Recentred
    <3>5. PICK mean : mean = MeanOf(vectors, own, centroid)
      OBVIOUS
    <3>6. VectorOfDim(mean, d)
      BY ONLY <3>2, <3>3, <3>5, IsSequence(vectors), VectorsOf(vectors, Len(vectors), d), MeanIsVector
    <3> QED
      BY <3>4, <3>5, <3>6
  <2> QED
    BY <2>1, <2>2, <2>3, <2>4 DEF VectorsOf
<1> HIDE DEF S
<1>8. \A j \in 0..Iterations : j \in S
  BY <1>2, <1>6, <1>7, Replays!Upwards
<1> QED
  BY <1>2, <1>3, <1>8 DEF S

\* There are roots.
LEMMA ClusterCountIs ==
    ASSUME NEW n \in Nat, n # 0
    PROVE  ClusterCount(n) \in 1..n
<1> DEFINE S == {k \in 1..n : k * k >= n}
<1>1. n \in S
  <2>1. n \in 1..n
    OBVIOUS
  <2>2. PICK m : m = n - 1 /\ m \in Nat
    OBVIOUS
  <2>3. n * m \in Nat
    BY <2>2, NatProduct
  <2>4. n * n = n * m + n
    BY <2>2
  <2> QED
    BY <2>1, <2>3, <2>4
<1>2. PICK k \in S : \A j \in S : k <= j
  <2>1. S \in SUBSET Nat
    OBVIOUS
  <2> HIDE DEF S
  <2> QED
    BY <1>1, <2>1, Replays!LeastNumber
<1>3. PICK m : m = k - 1 /\ m \in Nat /\ m < k
  OBVIOUS
<1>4. m * m < n
  <2>1. CASE m = 0
    BY <2>1
  <2>2. CASE m # 0
    <3>1. m \in 1..n /\ m \notin S
      BY <1>2, <1>3, <2>2
    <3>2. m * m \in Nat
      BY <1>3, NatProduct
    <3> QED
      BY <3>1, <3>2
  <2> QED
    BY <2>1, <2>2
<1>5. \E j \in 1..n : j * j >= n /\ (j - 1) * (j - 1) < n
  BY <1>2, <1>3, <1>4
<1> QED
  BY <1>5 DEF ClusterCount

\* Clusters of the first n documents: each document is in one.
Clustering(clusters, n) ==
    /\ IsSequence(clusters)
    /\ \A c \in 1..Len(clusters) :
          clusters[c].docs \subseteq 1..n /\ clusters[c].centroid \in Seq(Int)
    /\ \A o \in 1..n : \E c \in 1..Len(clusters) : o \in clusters[c].docs

LEMMA BuiltClusters ==
    ASSUME NEW vectors, IsSequence(vectors), Len(vectors) # 0, NEW metric \in Metrics,
           NEW d, VectorsOf(vectors, Len(vectors), d),
           NEW clusters, clusters = BuildClusters(vectors, Iterations, metric)
    PROVE  Clustering(clusters, Len(vectors))
<1>1. PICK n : n = Len(vectors) /\ n \in Nat /\ n # 0 /\ DOMAIN vectors = 1..n
  BY SequenceOf DEF IsSequence
<1>2. PICK k : k = ClusterCount(n) /\ k \in 1..n
  BY <1>1, ClusterCountIs
<1>3. PICK centroids : /\ centroids = KMeans(vectors, k, Iterations, metric)
                       /\ DOMAIN centroids = 1..k /\ VectorsOf(centroids, k, d)
  BY <1>1, <1>2, CentroidsAre
<1>4. PICK all : all = [c \in 1..k |-> [centroid |-> centroids[c],
                                        docs |-> Assigned(vectors, centroids, metric, c)]]
  OBVIOUS
<1>5. PICK q : q = [c \in 1..k |-> IF all[c].docs # {} THEN <<all[c]>> ELSE <<>>]
  OBVIOUS
<1>6. clusters = FlattenSeq(q)
  <2>1. clusters = ClustersOf(vectors, centroids, metric)
    BY <1>1, <1>2, <1>3 DEF BuildClusters
  <2>2. DOMAIN all = 1..k
    BY <1>4
  <2>3. ClustersOf(vectors, centroids, metric) = Kept(all, LAMBDA cluster : cluster.docs # {})
    BY <1>3, <1>4 DEF ClustersOf
  <2> QED
    BY <1>5, <2>1, <2>2, <2>3 DEF Kept
<1>7. \A c \in 1..k : /\ all[c].docs = Assigned(vectors, centroids, metric, c)
                      /\ all[c].docs \subseteq 1..n /\ all[c].centroid \in Seq(Int)
  BY <1>1, <1>3, <1>4 DEF Assigned, VectorsOf, VectorOfDim
<1>8. ASSUME NEW c \in 1..k
      PROVE  /\ IsSequence(q[c])
             /\ \A i \in 1..Len(q[c]) : q[c][i].docs \subseteq 1..n /\ q[c][i].centroid \in Seq(Int)
             /\ all[c].docs # {} => 1 \in 1..Len(q[c]) /\ q[c][1] = all[c]
  <2>1. PICK t, s : t = all[c] /\ s = q[c] /\ s = IF t.docs # {} THEN <<t>> ELSE <<>>
    BY <1>5
  <2>2. IsSequence(<<t>>) /\ 1 \in 1..Len(<<t>>) /\ \A i \in 1..Len(<<t>>) : <<t>>[i] = t
    BY DEF IsSequence
  <2>3. s = <<t>> \/ s = <<>>
    BY <2>1
  <2> QED
    BY <1>7, <2>1, <2>2, <2>3, NoRecords
<1>9. k \in Nat /\ q = [c \in 1..k |-> q[c]] /\ \A c \in 1..k : IsSequence(q[c])
  BY <1>1, <1>2, <1>5, <1>8
<1>10. Gathers(clusters, q, k)
  BY <1>6, <1>9, Flattened
<1>11. /\ IsSequence(clusters)
       /\ \A j \in 1..Len(clusters) : \E c \in 1..k : \E i \in 1..Len(q[c]) : clusters[j] = q[c][i]
       /\ \A c \in 1..k : \A i \in 1..Len(q[c]) : \E j \in 1..Len(clusters) : clusters[j] = q[c][i]
  BY <1>10 DEF Gathers
<1>12. ASSUME NEW j \in 1..Len(clusters)
       PROVE  clusters[j].docs \subseteq 1..n /\ clusters[j].centroid \in Seq(Int)
  <2>1. PICK c \in 1..k : \E i \in 1..Len(q[c]) : clusters[j] = q[c][i]
    BY <1>11
  <2>2. PICK i \in 1..Len(q[c]) : clusters[j] = q[c][i]
    BY <2>1
  <2> QED
    BY <1>8, <2>2
<1>13. ASSUME NEW o \in 1..n
       PROVE  \E j \in 1..Len(clusters) : o \in clusters[j].docs
  <2>1. PICK distances : distances = [c \in DOMAIN centroids |-> Distance(metric, centroids[c], vectors[o])]
    OBVIOUS
  <2>2. Numbers(distances, k)
    <3>1. ASSUME NEW c \in 1..k PROVE distances[c] \in Int
      <4>1. PICK v, w : /\ v = centroids[c] /\ w = vectors[o] /\ v \in Seq(Int) /\ w \in Seq(Int)
                        /\ distances[c] = Distance(metric, v, w)
        BY <1>1, <1>3, <2>1 DEF VectorsOf, VectorOfDim
      <4> QED
        BY <4>1, DistanceIsInt
    <3> QED
      BY <1>3, <2>1, <3>1 DEF Numbers
  <2>3. PICK c : c = Closest(distances) /\ c \in 1..k
    <3>1. k \in Nat /\ k # 0
      BY <1>1, <1>2
    <3> QED
      BY <2>2, <3>1, ClosestIs
  <2>4. o \in all[c].docs
    <3>1. Nearest(centroids, vectors[o], metric) = c
      BY <2>1, <2>3 DEF Nearest
    <3> QED
      BY <1>1, <1>7, <2>3, <3>1 DEF Assigned
  <2>5. 1 \in 1..Len(q[c]) /\ q[c][1] = all[c]
    BY <1>8, <2>3, <2>4
  <2>6. PICK j \in 1..Len(clusters) : clusters[j] = q[c][1]
    BY <1>11, <2>3, <2>5
  <2> QED
    BY <2>4, <2>5, <2>6
<1> QED
  BY <1>1, <1>11, <1>12, <1>13 DEF Clustering

\* As many probes as there are clusters reach every document.
LEMMA ProbesReachAll ==
    ASSUME NEW clusters, NEW n, Clustering(clusters, n), NEW vector \in Seq(Int),
           NEW metric \in Metrics, NEW nprobe \in Nat, nprobe >= Len(clusters),
           NEW probed,
           \A o : o \in probed <=>
                    \E c \in Probe(clusters, vector, nprobe, metric) : o \in clusters[c].docs
    PROVE  probed = 1..n
<1>1. PICK k : k = Len(clusters) /\ k \in Nat /\ DOMAIN clusters = 1..k
  BY SequenceOf DEF Clustering, IsSequence
<1>2. PICK distances : distances = [c \in DOMAIN clusters |-> Distance(metric, clusters[c].centroid, vector)]
  OBVIOUS
<1>3. ASSUME NEW c \in 1..k PROVE distances[c] \in Int
  <2>1. PICK v : v = clusters[c].centroid /\ v \in Seq(Int) /\ distances[c] = Distance(metric, v, vector)
    BY <1>1, <1>2 DEF Clustering
  <2> QED
    BY <2>1, DistanceIsInt
<1> DEFINE m == IF nprobe = 0 THEN 1 ELSE nprobe
<1>4. m \in Nat /\ m >= k
  <2>1. m \in Nat /\ m >= nprobe
    OBVIOUS
  <2>2. nprobe >= k
    BY <1>1
  <2> HIDE DEF m
  <2> QED
    BY <1>1, <2>1, <2>2
<1>5. IsFiniteSet(1..k) /\ Cardinality(1..k) = k
  <2>1. k \in Nat /\ 1 \in Int /\ k \in Int
    BY <1>1
  <2> HIDE DEF m
  <2> QED
    BY ONLY <2>1, FS_Interval
<1> HIDE DEF m
<1>6. ASSUME NEW c \in 1..k
      PROVE  Cardinality({j \in 1..k : Closer(distances, j, c)}) < m
  <2>1. PICK S : S = {j \in 1..k : Closer(distances, j, c)}
    OBVIOUS
  <2>2. ~Closer(distances, c, c)
    BY <1>3 DEF Closer
  <2>3. c \notin S /\ S \subseteq 1..k
    BY <2>1, <2>2
  <2>4. PICK T : T = 1..k /\ S \subseteq T /\ S # T /\ IsFiniteSet(T) /\ Cardinality(T) = k
    BY <1>5, <2>3
  <2>5. IsFiniteSet(S) /\ Cardinality(S) <= k /\ Cardinality(S) \in Nat
    BY <2>4, FS_Subset, FS_CardinalityType
  <2>6. Cardinality(S) # k
    BY <2>4, FS_Subset
  <2> QED
    BY <1>1, <1>4, <2>1, <2>5, <2>6
<1>7. Probe(clusters, vector, nprobe, metric) = 1..k
  <2>1. DOMAIN distances = 1..k
    BY <1>1, <1>2
  <2>2. FirstOf(distances, m) = 1..k
    BY <1>6, <2>1 DEF FirstOf
  <2> QED
    BY <1>2, <2>2 DEF Probe, m
<1> QED
  BY <1>1, <1>7 DEF Clustering

---------------------------------------------------------------------------
\* What the indexes of a shard are over.

\* A sparse index is over the first n documents, and its weights are numbers.
Weighs(index, n) ==
    \A d \in DOMAIN index : \A o \in DOMAIN index[d] : o \in 1..n /\ index[d][o] \in Int

LEMMA BuiltSparse ==
    ASSUME NEW n, NEW values, DOMAIN values \subseteq 1..n,
           \A o \in DOMAIN values : values[o].items \in Seq(Int)
    PROVE  Weighs(BuildSparse(values), n)
<1> DEFINE dims == UNION {DOMAIN values[o].items : o \in DOMAIN values}
           listed(d) == {o \in DOMAIN values :
                            d \in DOMAIN values[o].items /\ values[o].items[d] # 0}
           index == [d \in {e \in dims : listed(e) # {}} |-> [o \in listed(d) |-> values[o].items[d]]]
<1>1. BuildSparse(values) = index
  BY Zenon DEF BuildSparse
<1>2. ASSUME NEW d \in DOMAIN index, NEW o \in DOMAIN index[d]
      PROVE  o \in 1..n /\ index[d][o] \in Int
  <2>1. index[d] = [p \in listed(d) |-> values[p].items[d]]
    OBVIOUS
  <2>2. o \in listed(d) /\ index[d][o] = values[o].items[d]
    <3> HIDE DEF index, listed
    <3> QED
      BY <1>2, <2>1
  <2>3. o \in DOMAIN values /\ d \in DOMAIN values[o].items
    BY <2>2
  <2>4. PICK items : items = values[o].items /\ items \in Seq(Int)
    BY <2>3
  <2>5. items[d] \in Int
    BY <2>3, <2>4
  <2> HIDE DEF index, listed
  <2> QED
    BY <2>2, <2>3, <2>4, <2>5
<1> HIDE DEF index
<1>3. Weighs(index, n)
  BY <1>2 DEF Weighs
<1> QED
  BY <1>1, <1>3

\* A term index knows how long each of the first n texts is.
Measures(index, n) == \A o \in 1..n : index.lengths[o] \in Nat

LEMMA BuiltLengths ==
    ASSUME NEW n, NEW values, \A o \in DOMAIN values : values[o] \in StorableValues /\ HasText(values[o]),
           NEW tok, NEW index, index = BuildText(values, n, tok)
    PROVE  Measures(index, n)
<1> DEFINE tokens == [o \in DOMAIN values |-> TokensOf(tok, values[o])]
           lengths == [o \in 1..n |-> IF o \in DOMAIN values THEN Len(tokens[o]) ELSE 0]
<1>1. PICK postings : index = [docs |-> n, tokenizer |-> tok, lengths |-> lengths, postings |-> postings]
  BY Zenon DEF BuildText
<1>2. ASSUME NEW o \in 1..n PROVE lengths[o] \in Nat
  <2>1. CASE o \in DOMAIN values
    <3>1. PICK v : v = values[o] /\ v \in StorableValues /\ HasText(v)
      BY <2>1
    <3>2. Len(TokensOf(tok, v)) \in Nat
      BY <3>1, TokenizedValue DEF IsSequence
    <3> QED
      BY <2>1, <3>1, <3>2
  <2>2. CASE o \notin DOMAIN values
    BY <2>2
  <2> QED
    BY <2>1, <2>2
<1> HIDE DEF lengths
<1>3. index.lengths = lengths
  BY <1>1
<1> QED
  BY <1>2, <1>3 DEF Measures

\* What a document has for a vector.
LEMMA VectorIsNumbers ==
    ASSUME NEW attrs, NEW s, DocFits(attrs, s)
    PROVE  VectorOf(attrs) \in Seq(Int)
<1>1. CASE "vector" \in DOMAIN attrs
  <2>1. PICK v : v = attrs["vector"] /\ v \in StorableValues
    BY <1>1 DEF DocFits
  <2>2. v.items \in Seq(Int)
    BY <2>1, ValuesAssumption DEF Numbered
  <2> QED
    BY <1>1, <2>1, <2>2 DEF VectorOf
<1>2. CASE "vector" \notin DOMAIN attrs
  BY <1>2 DEF VectorOf
<1> QED
  BY <1>1, <1>2

\* Every index of a shard is over its segment.
ShardSound(shard) ==
    /\ Clustering(shard.index.clusters, Len(shard.segment))
    /\ \A a \in DOMAIN shard.index.sparse :
          Weighs(shard.index.sparse[a], Len(shard.segment))
    /\ \A a \in DOMAIN shard.index.fts :
          Measures(shard.index.fts[a], Len(shard.segment))

LEMMA BuiltSound ==
    ASSUME NEW s, SoundSchema(s), NEW docs, IsSequence(docs),
           \A o \in 1..Len(docs) : DocFits(docs[o].attrs, s), Indexable(docs),
           NEW shard, shard = BuildShard(docs, s)
    PROVE  ShardSound(shard)
<1>1. PICK n : n = Len(docs) /\ n \in Nat /\ DOMAIN docs = 1..n
  BY SequenceOf DEF IsSequence
<1>2. CASE docs = <<>>
  <2>1. shard.index = NoIndexes
    BY <1>2 DEF BuildShard, EmptyShard
  <2>2. /\ shard.index.clusters = <<>>
        /\ DOMAIN shard.index.sparse = {} /\ DOMAIN shard.index.fts = {}
    BY <2>1 DEF NoIndexes, Nothing
  <2> QED
    BY <1>1, <1>2, <2>2, NoRecords DEF ShardSound, Clustering, BuildShard, EmptyShard
<1>3. CASE docs # <<>>
  <2>1. shard.segment = docs /\ shard.index = BuildIndexes(docs, s)
    BY <1>3 DEF BuildShard
  <2> DEFINE numbers(a) == Restrict(Column(docs, a),
                                    {o \in DOMAIN Column(docs, a) : Column(docs, a)[o].type = "{}f16"})
             sparse == {a \in DOMAIN s.attributes : s.attributes[a] = "{}f16"}
             lists == [a \in sparse |-> BuildSparse(numbers(a))]
             listed == {a \in DOMAIN lists : DOMAIN lists[a] # {}}
             texts == [a \in DOMAIN s.fts |-> BuildText(TextsIn(docs, a), Len(docs), s.fts[a])]
             kept == {a \in DOMAIN texts : DOMAIN texts[a].postings # {}}
             vectors == [o \in DOMAIN docs |-> VectorOf(docs[o].attrs)]
             clusters == BuildClusters(vectors, Iterations, s.metric)
  <2>2. PICK d, i : BuildIndexes(docs, s) =
            [docs |-> Len(docs), dim |-> d, clusters |-> clusters, attributes |-> i,
             fts |-> Restrict(texts, kept), sparse |-> Restrict(lists, listed)]
    BY Zenon DEF BuildIndexes, Filled, TextsIn
  <2>3. /\ shard.index.clusters = clusters /\ shard.index.fts = Restrict(texts, kept)
        /\ shard.index.sparse = Restrict(lists, listed)
    <3> HIDE DEF clusters, texts, kept, lists, listed
    <3> QED
      BY <2>1, <2>2
  <2>4. \A a : /\ DOMAIN Column(docs, a) = {o \in 1..n : a \in DOMAIN docs[o].attrs}
               /\ \A o \in DOMAIN Column(docs, a) : Column(docs, a)[o] = docs[o].attrs[a]
    BY <1>1 DEF Column
  <2>5. ASSUME NEW a, a # "vector", NEW o \in DOMAIN Column(docs, a), ~IsNull(Column(docs, a)[o])
        PROVE  Column(docs, a)[o] \in StorableValues
    <3>1. o \in 1..n /\ a \in DOMAIN docs[o].attrs /\ Column(docs, a)[o] = docs[o].attrs[a]
      BY <2>4, <2>5
    <3>2. PICK attrs : attrs = docs[o].attrs /\ TypedAs(attrs, s)
      BY <1>1, <3>1 DEF DocFits
    <3>3. a \in DOMAIN attrs \ {"vector"} /\ ~IsNull(attrs[a])
      BY <2>5, <3>1, <3>2
    <3>4. attrs[a] \in StorableValues
      BY <3>2, <3>3 DEF TypedAs
    <3> QED
      BY <3>1, <3>2, <3>4
  <2>6. ASSUME NEW a \in DOMAIN shard.index.sparse
        PROVE  Weighs(shard.index.sparse[a], n)
    <3>1. a \in sparse /\ shard.index.sparse[a] = BuildSparse(numbers(a)) /\ a # "vector"
      <4>1. a \in listed /\ shard.index.sparse[a] = lists[a]
        <5> HIDE DEF lists, listed, texts, kept
        <5> QED
          BY <2>3, <2>6 DEF Restrict
      <4>2. a \in sparse
        BY <4>1
      <4>3. lists[a] = BuildSparse(numbers(a))
        <5> HIDE DEF numbers, sparse
        <5> QED
          BY <4>2
      <4> QED
        BY <4>1, <4>2, <4>3 DEF SoundSchema
    <3>2. PICK c, values : c = Column(docs, a) /\ values = numbers(a)
      OBVIOUS
    <3>3. /\ DOMAIN values = {o \in DOMAIN c : c[o].type = "{}f16"}
          /\ \A o \in DOMAIN values : values[o] = c[o]
      BY <3>2 DEF Restrict
    <3>4. DOMAIN values \subseteq 1..n
      BY <2>4, <3>2, <3>3
    <3>5. ASSUME NEW o \in DOMAIN values PROVE values[o].items \in Seq(Int)
      <4>1. c[o].type = "{}f16" /\ values[o] = c[o] /\ o \in DOMAIN c
        BY <3>3
      <4>2. c[o] \in StorableValues
        BY <2>5, <3>1, <3>2, <4>1 DEF IsNull
      <4> QED
        BY <4>1, <4>2, ValuesAssumption DEF Numbered
    <3>6. Weighs(BuildSparse(values), n)
      BY <3>4, <3>5, BuiltSparse
    <3> QED
      BY <3>1, <3>2, <3>6
  <2>7. ASSUME NEW a \in DOMAIN shard.index.fts
        PROVE  Measures(shard.index.fts[a], n)
    <3>1. a \in DOMAIN s.fts /\ a # "vector"
          /\ shard.index.fts[a] = BuildText(TextsIn(docs, a), Len(docs), s.fts[a])
      BY <2>3, <2>7 DEF Restrict, SoundSchema
    <3>2. PICK c, values : c = Column(docs, a) /\ values = TextsIn(docs, a)
      OBVIOUS
    <3>3. /\ DOMAIN values = {o \in DOMAIN c : HasText(c[o])}
          /\ \A o \in DOMAIN values : values[o] = c[o]
      BY <3>2 DEF TextsIn, Restrict
    <3>4. ASSUME NEW o \in DOMAIN values PROVE values[o] \in StorableValues /\ HasText(values[o])
      <4>1. HasText(c[o]) /\ values[o] = c[o] /\ o \in DOMAIN c
        BY <3>3
      <4> QED
        BY <2>5, <3>1, <3>2, <4>1 DEF IsNull, HasText
    <3>5. PICK index, tok : index = shard.index.fts[a] /\ index = BuildText(values, n, tok)
      BY <1>1, <3>1, <3>2
    <3>6. Measures(index, n)
      BY <3>4, <3>5, BuiltLengths
    <3> QED
      BY <3>5, <3>6
  <2>8. Clustering(shard.index.clusters, n)
    <3>1. vectors = [o \in 1..n |-> vectors[o]]
      BY <1>1
    <3>2. PICK v : v = vectors
      OBVIOUS
    <3>3. IsSequence(v) /\ Len(v) = n /\ n # 0
      <4>1. IsSequence(v) /\ Len(v) = n
        BY <1>1, <3>1, <3>2, MadeSequence
      <4>2. n # 0
        <5> SUFFICES ASSUME n = 0 PROVE docs = <<>>
          BY <1>3
        <5> QED
          BY <1>1 DEF IsSequence
      <4> QED
        BY <4>1, <4>2
    <3>4. PICK m, x : m = s.metric /\ x = BuildClusters(v, Iterations, m)
      OBVIOUS
    <3>5. PICK size : size = Len(VectorOf(docs[1].attrs))
      OBVIOUS
    <3>6. \A o \in 1..n : VectorOf(docs[o].attrs) \in Seq(Int)
      <4>1. ASSUME NEW o \in 1..n PROVE VectorOf(docs[o].attrs) \in Seq(Int)
        <5>1. PICK attrs : attrs = docs[o].attrs /\ DocFits(attrs, s)
          BY <1>1
        <5> QED
          BY <5>1, VectorIsNumbers
      <4> QED
        BY <4>1
    <3>7. VectorsOf(v, n, size)
      <4>1. ASSUME NEW o \in 1..n PROVE VectorOfDim(v[o], size)
        <5>1. v[o] = VectorOf(docs[o].attrs)
          BY <1>1, <3>2
        <5>2. Len(VectorOf(docs[o].attrs)) = size
          BY <1>1, <3>5 DEF Indexable
        <5> QED
          BY <3>6, <5>1, <5>2 DEF VectorOfDim
      <4> QED
        BY <4>1 DEF VectorsOf
    <3>8. m \in Metrics
      BY <3>4 DEF SoundSchema
    <3>9. Clustering(x, n)
      BY <3>3, <3>4, <3>7, <3>8, BuiltClusters
    <3>10. shard.index.clusters = x
      BY <2>3, <3>2, <3>4
    <3> QED
      BY <3>9, <3>10
  <2> QED
    BY <1>1, <2>1, <2>6, <2>7, <2>8 DEF ShardSound
<1> QED
  BY <1>2, <1>3

---------------------------------------------------------------------------
\* Shards and their parts of the documents.

\* Before the tail.
Compacted == Docs!Materialize(Segments)

\* More than one shard are as many as the schema says, each with its part of what
\* was compacted.
Whole ==
    Len(shards) > 1 =>
        /\ Len(shards) = ShardCount(schema)
        /\ \A n \in 1..Len(shards) :
              Docs!Materialize(shards[n].segment) = PartOf(Compacted, ShardCount(schema), n)

\* What a shard holds: upserts of ids of the schema's type, and indexes over them.
UpsertsOf(segment, s) ==
    \A o \in 1..Len(segment) : IsUpsert(segment[o]) /\ IdFits(segment[o].id, s)

ShardsSound == \A n \in DOMAIN shards : ShardSound(shards[n]) /\ UpsertsOf(shards[n].segment, schema)

\* The records of the tail agree with the schema.
TailFits == \A k \in 1..Len(tail) : RecordFits(tail[k], schema)

\* The invariant that the answers rest on.
LiveInv == IndexesInv /\ TailFits /\ ShardsSound /\ Whole

LEMMA LiveInit == Init => LiveInv
<1> SUFFICES ASSUME Init PROVE LiveInv
  OBVIOUS
<1>1. shards = <<>> /\ tail = <<>> /\ DOMAIN shards = {} /\ Len(shards) = 0 /\ Len(tail) = 0
  BY DEF Init
<1> QED
  BY <1>1, IndexesInit DEF LiveInv, TailFits, ShardsSound, Whole

\* The tail is laid over what was compacted.
LiveOverCompacted == live = Docs!Replay(Compacted, tail)

LEMMA TailOver == ShardsInv => LiveOverCompacted
<1> SUFFICES ASSUME ShardsInv PROVE live = Docs!Replay(Compacted, tail)
  BY DEF LiveOverCompacted
<1>1. PICK s, t, none : s = Segments /\ t = tail /\ none = Docs!NoDocs
  OBVIOUS
<1>2. IsSequence(s) /\ IsSequence(t)
  BY <1>1, SegmentsSequence DEF ShardsInv
<1>3. Docs!Replay(none, s \o t) = Docs!Replay(Docs!Replay(none, s), t)
  BY <1>2, ReplayJoined
<1> QED
  BY <1>1, <1>3 DEF ShardsInv, Materialized, Compacted, Docs!Materialize

LEMMA TailOverNext == ShardsInv' => LiveOverCompacted'
  BY TailOver, PTL

LEMMA WholeCompact ==
    ASSUME LiveInv, Compact
    PROVE  TailFits' /\ ShardsSound' /\ Whole'
<1>1. SoundSchema(schema) /\ AllFit(live, schema) /\ IsMap(live) /\ Materialized = live
  BY DEF LiveInv, IndexesInv, AnswersInv, ShardsInv, SchemaInv
<1>2. PICK c, buckets, s : c = ShardCount(schema) /\ buckets = Buckets(live, schema) /\ s = schema
  OBVIOUS
<1>3. c \in 1..MaxShards /\ Lays(buckets, live, c)
  BY <1>1, <1>2, BucketsLaid
<1>4. /\ shards' = BuildShards(buckets, s) /\ tail' = <<>> /\ live' = live /\ schema' = schema
      /\ \A n \in DOMAIN buckets : Indexable(buckets[n])
  BY <1>1, <1>2, CompactedTo
<1>5. DOMAIN buckets = 1..c /\ c \in Nat
  BY <1>3, ShardsAssumption DEF Lays
<1>6. /\ shards' = [n \in 1..c |-> shards'[n]]
      /\ \A n \in 1..c : shards'[n] = BuildShard(buckets[n], s)
  BY <1>4, <1>5 DEF BuildShards
<1>7. \A n \in 1..c : shards'[n].segment = buckets[n]
  BY <1>6, BuiltSegment
<1>8. PICK all : all = shards'
  OBVIOUS
<1>9. Len(all) = c /\ DOMAIN all = 1..c
  BY <1>5, <1>6, <1>8, MadeSequence
<1>10. ASSUME NEW n \in 1..c
       PROVE  /\ ShardSound(all[n]) /\ UpsertsOf(all[n].segment, s)
              /\ Docs!Materialize(all[n].segment) = PartOf(live, c, n)
  <2>1. PICK docs, shard : docs = buckets[n] /\ shard = all[n]
    OBVIOUS
  <2>2. IsSequence(docs) /\ shard = BuildShard(docs, s) /\ shard.segment = docs
    BY <1>3, <1>6, <1>7, <1>8, <2>1 DEF Lays, InIdOrder
  <2>3. \A o \in 1..Len(docs) : /\ docs[o].op = "upsert" /\ IsUpsert(docs[o])
                                /\ docs[o].id \in DOMAIN live
                                /\ docs[o].attrs = live[docs[o].id]
                                /\ ShardOf(docs[o].id, c) = n
    BY <1>3, <2>1 DEF Lays
  <2>4. \A o \in 1..Len(docs) : DocFits(docs[o].attrs, s) /\ IdFits(docs[o].id, s)
    BY <1>1, <1>2, <2>3 DEF AllFit
  <2>5. ShardSound(shard)
    <3>1. Indexable(docs)
      BY <1>4, <1>5, <2>1
    <3> QED
      BY <1>1, <1>2, <2>2, <2>4, <3>1, BuiltSound
  <2>6. UpsertsOf(docs, s)
    BY <2>3, <2>4 DEF UpsertsOf
  <2>7. PICK D : D = PartOf(live, c, n)
    OBVIOUS
  <2>8. /\ D = [i \in DOMAIN D |-> D[i]]
        /\ \A i : i \in DOMAIN D <=> i \in DOMAIN live /\ ShardOf(i, c) = n
        /\ \A i \in DOMAIN D : D[i] = live[i]
    BY <2>7 DEF PartOf, Owned
  <2>9. \A o \in 1..Len(docs) : /\ docs[o].op = "upsert"
                                /\ docs[o].id \in DOMAIN D
                                /\ docs[o].attrs = D[docs[o].id]
    BY <2>3, <2>8
  <2>10. ASSUME NEW i \in DOMAIN D
         PROVE  \E o \in 1..Len(docs) : docs[o].id = i
    <3>1. i \in DOMAIN live /\ ShardOf(i, c) = n
      BY <2>8
    <3>2. PICK m \in 1..c : \E k \in 1..Len(buckets[m]) : buckets[m][k].id = i
      BY <1>3, <3>1 DEF Lays
    <3>3. m = n
      BY <1>3, <3>1, <3>2 DEF Lays
    <3> QED
      BY <2>1, <3>2, <3>3
  <2>11. Docs!Materialize(docs) = D
    BY <2>2, <2>8, <2>9, <2>10, ReplayUpserts
  <2> QED
    BY <2>1, <2>2, <2>5, <2>6, <2>7, <2>11
<1>11. TailFits'
  BY <1>4, NoRecords DEF TailFits
<1>12. ShardsSound'
  BY <1>2, <1>4, <1>8, <1>9, <1>10 DEF ShardsSound
<1>13. ShardsInv'
  <2>1. [Next]_vars /\ ShardsInv
    BY DEF LiveInv, IndexesInv, AnswersInv, Next
  <2> QED
    BY <2>1, ShardsNext
<1>14. Compacted' = live
  <2>1. live' = Docs!Replay(Compacted', tail')
    BY <1>13, TailOverNext DEF LiveOverCompacted
  <2> QED
    BY <1>4, <2>1, NoneReplayed
<1>15. Whole'
  <2>1. \A n \in 1..c : Docs!Materialize(all[n].segment) = PartOf(Compacted', c, n)
    BY <1>10, <1>14
  <2>2. c = ShardCount(schema')
    BY <1>2, <1>4
  <2> QED
    BY <1>8, <1>9, <2>1, <2>2 DEF Whole
<1> QED
  BY <1>11, <1>12, <1>15

LEMMA WholeWrite ==
    ASSUME LiveInv, NEW batch \in Batches, Write(batch)
    PROVE  TailFits' /\ ShardsSound' /\ Whole'
<1>1. PICK p : /\ p = Prepared(schema, batch.records, batch.config, HasData) /\ p.ok
               /\ schema' = p.schema
               /\ tail' = tail \o p.records
               /\ shards' = shards
  BY Zenon DEF Write
<1>2. SoundSchema(schema) /\ IsSequence(tail) /\ TailFits
  BY DEF LiveInv, IndexesInv, AnswersInv, ShardsInv, SchemaInv
<1>3. /\ SoundSchema(p.schema) /\ Grown(schema, p.schema) /\ IsSequence(p.records)
      /\ \A k \in 1..Len(p.records) : RecordFits(p.records[k], p.schema)
  BY <1>1, <1>2, PreparedFits
<1>4. PICK s, t, u, x : s = schema /\ t = p.schema /\ u = tail /\ x = p.records
  OBVIOUS
<1>5. /\ \A i : IdFits(i, s) => IdFits(i, t)
      /\ \A r : RecordFits(r, s) => RecordFits(r, t)
  BY <1>2, <1>3, <1>4, StillFits
<1>6. TailFits'
  <2>1. /\ IsSequence(u) /\ IsSequence(x)
        /\ \A k \in 1..Len(u) : RecordFits(u[k], t)
        /\ \A k \in 1..Len(x) : RecordFits(x[k], t)
    BY <1>2, <1>3, <1>4, <1>5 DEF TailFits
  <2>2. PICK y : y = u \o x
    OBVIOUS
  <2>3. /\ Len(y) = Len(u) + Len(x) /\ Len(u) \in Nat /\ Len(x) \in Nat
        /\ \A k \in 1..Len(u) : y[k] = u[k]
        /\ \A k \in 1..Len(x) : y[Len(u) + k] = x[k]
    BY <2>1, <2>2, Joined2 DEF IsSequence
  <2>4. ASSUME NEW k \in 1..Len(y) PROVE RecordFits(y[k], t)
    <3>1. CASE k \in 1..Len(u)
      BY <2>1, <2>3, <3>1
    <3>2. CASE k \notin 1..Len(u)
      <4>1. PICK j : j = k - Len(u) /\ j \in 1..Len(x) /\ k = Len(u) + j
        BY <2>3, <3>2
      <4> QED
        BY <2>1, <2>3, <4>1
    <3> QED
      BY <3>1, <3>2
  <2> QED
    BY <1>1, <1>4, <2>2, <2>4 DEF TailFits
<1>7. ShardsSound'
  <2>1. ShardsSound
    BY DEF LiveInv
  <2> QED
    BY <1>1, <1>4, <1>5, <2>1 DEF ShardsSound, UpsertsOf
<1>8. Whole'
  <2>1. Whole
    BY DEF LiveInv
  <2>2. Compacted' = Compacted
    BY <1>1 DEF Compacted, Segments
  <2>3. ShardCount(s) > 1 => ShardCount(t) = ShardCount(s)
    BY <1>3, <1>4 DEF ShardCount, Grown
  <2> QED
    BY <1>1, <1>4, <2>1, <2>2, <2>3 DEF Whole
<1> QED
  BY <1>6, <1>7, <1>8

LEMMA LiveNext == LiveInv /\ [Next]_vars => LiveInv'
<1> SUFFICES ASSUME LiveInv, [Next]_vars PROVE LiveInv'
  OBVIOUS
<1>1. IndexesInv'
  BY IndexesNext DEF LiveInv
<1>2. CASE Compact
  BY <1>1, <1>2, WholeCompact DEF LiveInv
<1>3. ASSUME NEW batch \in Batches, Write(batch) PROVE LiveInv'
  BY <1>1, <1>3, WholeWrite DEF LiveInv
<1>4. CASE UNCHANGED vars
  <2>1. shards' = shards /\ tail' = tail /\ live' = live /\ schema' = schema
    BY <1>4 DEF vars
  <2> QED
    BY <1>1, <2>1 DEF LiveInv, TailFits, ShardsSound, Whole, Compacted, Segments
<1> QED
  BY <1>2, <1>3, <1>4 DEF Next

\* What there is of a shard, and what it makes of the documents.
Shard(shard, records, now) ==
    /\ InIdOrder(shard.segment) /\ UpsertsOf(shard.segment, schema)
    /\ ShardSound(shard) /\ TextIndexed(shard) /\ Bare(shard)
    /\ ShardIndexed(shard, schema.attributes)
    /\ IsSequence(records)
    /\ \A k \in 1..Len(records) : Operation(records[k])
    /\ now = Docs!Materialize(shard.segment \o records)
    /\ now = Docs!Replay(Docs!Materialize(shard.segment), records)
    /\ Among(now, live)

LEMMA EmptyIsSound ==
    /\ InIdOrder(EmptyShard.segment) /\ UpsertsOf(EmptyShard.segment, schema)
    /\ ShardSound(EmptyShard) /\ TextIndexed(EmptyShard) /\ Bare(EmptyShard)
    /\ ShardIndexed(EmptyShard, schema.attributes)
<1>1. PICK shard : shard = EmptyShard
  OBVIOUS
<1>2. shard.segment = <<>> /\ ~shard.indexed /\ shard.index = NoIndexes
  BY <1>1 DEF EmptyShard
<1>3. /\ shard.index.clusters = <<>>
      /\ DOMAIN shard.index.sparse = {} /\ DOMAIN shard.index.fts = {}
  BY <1>2 DEF NoIndexes, Nothing
<1>4. ShardSound(shard) /\ TextIndexed(shard) /\ Bare(shard) /\ ShardIndexed(shard, schema.attributes)
  BY <1>1, <1>2, <1>3, NoRecords DEF ShardSound, Clustering, TextIndexed, Bare, ShardIndexed
<1>5. InIdOrder(shard.segment) /\ UpsertsOf(shard.segment, schema)
  BY <1>2, NoRecords DEF InIdOrder, UpsertsOf
<1> QED
  BY <1>1, <1>4, <1>5

\* A lone shard has everything that was compacted.
LEMMA LoneShard ==
    ASSUME ShardsInv, Len(shards) <= 1
    PROVE  /\ IsSequence(Resident) /\ Len(Resident) = 1
           /\ Docs!Materialize(Resident[1].segment) = Compacted
<1>1. PICK m \in Nat : shards = [k \in 1..m |-> shards[k]] /\ \A k \in 1..m : InIdOrder(shards[k].segment)
  BY DEF ShardsInv, ShardsSorted
<1>2. IsSequence(shards) /\ Len(shards) = m
  BY <1>1, MadeSequence
<1>3. CASE m = 0
  <2>1. shards = <<>>
    BY <1>1, <1>3
  <2>2. Segments = <<>>
    <3>1. [n \in DOMAIN shards |-> shards[n].segment] = <<>>
      BY <2>1
    <3>2. FlattenSeq(<<>>) = <<>>
      BY DEF FlattenSeq
    <3> QED
      BY <3>1, <3>2 DEF Segments
  <2>3. PICK shard : shard = EmptyShard /\ shard.segment = <<>> /\ Resident = <<shard>>
    <3>1. Resident = <<EmptyShard>>
      BY <2>1 DEF Resident
    <3>2. EmptyShard.segment = <<>>
      BY DEF EmptyShard
    <3> QED
      BY <3>1, <3>2
  <2>4. IsSequence(Resident) /\ Len(Resident) = 1 /\ Resident[1] = shard
    <3>1. PICK q : q = <<shard>>
      OBVIOUS
    <3>2. IsSequence(q) /\ Len(q) = 1 /\ q[1] = shard
      BY <3>1 DEF IsSequence
    <3> QED
      BY <2>3, <3>1, <3>2
  <2>5. Resident[1].segment = <<>>
    BY <2>3, <2>4
  <2> QED
    BY <2>2, <2>4, <2>5 DEF Compacted
<1>4. CASE m = 1
  <2>1. shards # <<>>
    BY <1>2, <1>4
  <2>2. PICK s, q : s = shards[1].segment /\ q = [k \in 1..1 |-> s]
    OBVIOUS
  <2>3. Segments = FlattenSeq(q)
    <3>1. DOMAIN shards = 1..1 /\ \A k \in 1..1 : k = 1
      BY <1>1, <1>4
    <3>2. [n \in DOMAIN shards |-> shards[n].segment] = q
      BY <2>2, <3>1
    <3> QED
      BY <3>2 DEF Segments
  <2>4. PICK f : Flattenings(f, q, 1) /\ FlattenSeq(q) = f[1]
    <3>1. PICK n : n = 1 /\ n \in Nat /\ n # 0
      OBVIOUS
    <3>2. q = [k \in 1..n |-> q[k]]
      BY <2>2, <3>1
    <3>3. \E f : Flattenings(f, q, n) /\ FlattenSeq(q) = f[n]
      BY ONLY <3>1, <3>2, FlattenedStages, Zenon
    <3> QED
      BY <3>1, <3>3
  <2>5. f[1] = s
    <3>1. \A i \in 1..1 : f[i] = IF i = 1 THEN q[i] ELSE f[i - 1] \o q[i]
      BY <2>4 DEF Flattenings
    <3>2. 1 \in 1..1
      OBVIOUS
    <3>3. f[1] = q[1]
      BY <3>1, <3>2
    <3> QED
      BY <2>2, <3>2, <3>3
  <2>6. Resident = shards
    BY <2>1 DEF Resident
  <2> QED
    BY <1>2, <1>4, <2>2, <2>3, <2>4, <2>5, <2>6 DEF Compacted
<1> QED
  BY <1>1, <1>2, <1>3, <1>4

LEMMA PartWithin ==
    ASSUME NEW D, NEW c, NEW n
    PROVE  Among(PartOf(D, c, n), D) /\ \A i \in DOMAIN PartOf(D, c, n) : ShardOf(i, c) = n
  BY DEF Among, PartOf, Owned

\* What shard n makes of the documents: the part that falls to it.
PartSeen(now, n) ==
    IF Len(Resident) > 1
    THEN Len(Resident) = ShardCount(schema) /\ now = PartOf(live, ShardCount(schema), n)
    ELSE now = live

\* Records of the tail, and no others.
OfTail(records) == \A k \in 1..Len(records) : \E j \in 1..Len(tail) : records[k] = tail[j]

LEMMA ShardSees ==
    ASSUME LiveInv, NEW n \in DOMAIN Resident, NEW shard, shard = Resident[n],
           NEW records, records = ShardTail(n),
           NEW now, now = Docs!Materialize(shard.segment \o records)
    PROVE  /\ Shard(shard, records, now) /\ OfTail(records)
           /\ IsSequence(Resident) /\ PartSeen(now, n)
<1>1. ShardsInv /\ IsSequence(tail) /\ live = Docs!Replay(Compacted, tail)
      /\ \A k \in 1..Len(tail) : Operation(tail[k])
  <2>1. ShardsInv /\ LiveOverCompacted
    BY TailOver DEF LiveInv, IndexesInv, AnswersInv
  <2> QED
    BY <2>1 DEF LiveInv, ShardsInv, LiveOverCompacted, TailFits, RecordFits, Operation
<1>2. PICK m \in Nat : shards = [k \in 1..m |-> shards[k]] /\ \A k \in 1..m : InIdOrder(shards[k].segment)
  BY <1>1 DEF ShardsInv, ShardsSorted
<1>3. IsSequence(shards) /\ Len(shards) = m /\ DOMAIN shards = 1..m
  BY <1>2, MadeSequence
<1>4. \A k \in 1..m : LET s == shards[k] IN
          /\ InIdOrder(s.segment) /\ UpsertsOf(s.segment, schema)
          /\ ShardSound(s) /\ TextIndexed(s) /\ Bare(s)
          /\ ShardIndexed(s, schema.attributes)
  BY <1>2, <1>3 DEF LiveInv, IndexesInv, AnswersInv, Terms, Indexed, ShardsSound
<1>5. /\ InIdOrder(shard.segment) /\ UpsertsOf(shard.segment, schema)
      /\ ShardSound(shard) /\ TextIndexed(shard) /\ Bare(shard)
      /\ ShardIndexed(shard, schema.attributes)
  <2>1. CASE shards = <<>>
    <3>1. Resident = <<EmptyShard>>
      BY <2>1 DEF Resident
    <3>2. shard = EmptyShard
      BY <3>1
    <3> QED
      BY <3>2, EmptyIsSound
  <2>2. CASE shards # <<>>
    <3>1. n \in 1..m /\ shard = shards[n]
      BY <1>3, <2>2 DEF Resident
    <3> QED
      BY <1>4, <3>1
  <2> QED
    BY <2>1, <2>2
<1>6. PICK s, base, c : s = shard.segment /\ base = Docs!Materialize(s) /\ c = ShardCount(schema)
  OBVIOUS
<1>7. CASE m <= 1
  <2>1. IsSequence(Resident) /\ Len(Resident) = 1 /\ Docs!Materialize(Resident[1].segment) = Compacted
    BY <1>1, <1>3, <1>7, LoneShard
  <2>2. n = 1 /\ base = Compacted
    BY <1>6, <2>1, SequenceOf
  <2>3. records = tail
    BY <2>1 DEF ShardTail
  <2>4. IsSequence(s) /\ Docs!Materialize(s \o records) = Docs!Replay(base, records)
    BY <1>1, <1>5, <1>6, <2>3, ReplayJoined DEF InIdOrder, Docs!Materialize
  <2>5. Docs!Replay(base, records) = live
    BY <1>1, <2>2, <2>3
  <2>6. Among(live, live)
    BY <1>1 DEF ShardsInv, SchemaInv, IsMap, Among
  <2> QED
    BY <1>1, <1>5, <1>6, <2>1, <2>3, <2>4, <2>5, <2>6 DEF Shard, OfTail, PartSeen
<1>8. CASE m > 1
  <2>1. Resident = shards
    <3>1. shards # <<>>
      BY <1>3, <1>8
    <3> QED
      BY <3>1 DEF Resident
  <2>2. m = c /\ Docs!Materialize(shards[n].segment) = PartOf(Compacted, c, n)
    BY <1>3, <1>6, <1>8, <2>1 DEF LiveInv, Whole
  <2>3. base = PartOf(Compacted, c, n)
    BY <1>6, <2>1, <2>2
  <2>4. records = OwnOf(tail, c, n)
    <3>1. ~(ShardCount(schema) <= 1) /\ ~(Len(Resident) <= 1)
      BY <1>3, <1>6, <1>8, <2>1, <2>2
    <3>2. records = OfShard(n)
      BY <3>1 DEF ShardTail
    <3> QED
      BY <1>6, <3>2 DEF OfShard, OwnOf
  <2>5. PICK d, t : d = Compacted /\ t = tail
    OBVIOUS
  <2>6. /\ Docs!Replay(base, records) = PartOf(Docs!Replay(d, t), c, n)
        /\ IsSequence(records)
        /\ \A k \in 1..Len(records) : Operation(records[k]) /\ \E j \in 1..Len(t) : records[k] = t[j]
    BY <1>1, <2>3, <2>4, <2>5, ReplayOwn
  <2>7. Docs!Replay(base, records) = PartOf(live, c, n)
    BY <1>1, <2>5, <2>6
  <2>8. IsSequence(s) /\ Docs!Materialize(s \o records) = Docs!Replay(base, records)
    BY <1>5, <1>6, <2>6, ReplayJoined DEF InIdOrder, Docs!Materialize
  <2>9. Among(PartOf(live, c, n), live)
    BY PartWithin
  <2>10. Shard(shard, records, now)
    BY <1>5, <1>6, <2>6, <2>7, <2>8, <2>9 DEF Shard
  <2>11. OfTail(records) /\ IsSequence(Resident)
    BY <1>3, <2>1, <2>5, <2>6 DEF OfTail
  <2>12. PartSeen(now, n)
    BY <1>3, <1>6, <1>8, <2>1, <2>2, <2>7, <2>8 DEF PartSeen
  <2> QED
    BY <2>10, <2>11, <2>12
<1> QED
  BY <1>7, <1>8

---------------------------------------------------------------------------
\* What is selected is in the segment.

\* The entries of an index are of the first N documents.
Inside(index, N) == \A v \in DOMAIN index.entries : index.entries[v] \subseteq 1..N

LEMMA InsideUnder ==
    ASSUME NEW index, NEW N, Inside(index, N)
    PROVE  /\ \A K : K \subseteq DOMAIN index.entries => UNION {index.entries[v] : v \in K} \subseteq 1..N
           /\ \A w : Lookup(index, w) \subseteq 1..N
           /\ \A W : UNION {Lookup(index, w) : w \in W} \subseteq 1..N
<1>1. ASSUME NEW K, K \subseteq DOMAIN index.entries
      PROVE  UNION {index.entries[v] : v \in K} \subseteq 1..N
  BY <1>1 DEF Inside
<1>2. ASSUME NEW w
      PROVE  Lookup(index, w) \subseteq 1..N
  <2> DEFINE found == {v \in DOMAIN index.entries : Compare(v, w) \in {"equal", "none"}}
  <2>1. Lookup(index, w) = IF found = {} THEN {} ELSE index.entries[CHOOSE v \in found : TRUE]
    BY DEF Lookup
  <2>2. CASE found = {}
    BY <2>1, <2>2
  <2>3. CASE found # {}
    <3>1. (CHOOSE v \in found : TRUE) \in found
      BY <2>3
    <3>2. PICK v : v = (CHOOSE u \in found : TRUE) /\ v \in DOMAIN index.entries
      BY <3>1
    <3> HIDE DEF found
    <3> QED
      BY <2>1, <2>3, <3>2 DEF Inside
  <2> QED
    BY <2>2, <2>3
<1>3. ASSUME NEW W
      PROVE  UNION {Lookup(index, w) : w \in W} \subseteq 1..N
  BY <1>2
<1> QED
  BY <1>1, <1>2, <1>3

\* What a filter selects is of the first N documents.
SelectedWithin(sel, N) == sel.ordinals \subseteq 1..N

LEMMA SelectionWithin ==
    ASSUME NEW N, NEW S, S \subseteq 1..N, NEW e
    PROVE  SelectedWithin(Selection(S, e), N)
  BY DEF SelectedWithin, Selection

LEMMA UnboundedWithin ==
    ASSUME NEW N
    PROVE  SelectedWithin(Unbounded, N)
  BY DEF SelectedWithin, Unbounded

LEMMA SelectInside ==
    ASSUME NEW index, NEW N, Inside(index, N), NEW op, NEW w
    PROVE  SelectedWithin(Select(index, op, w), N)
<1>1. PICK sel : sel = Select(index, op, w)
  OBVIOUS
<1>2. SelectedWithin(Unbounded, N)
  BY UnboundedWithin
<1>3. ASSUME NEW relation PROVE SelectedWithin(SelectPattern(index, w, relation), N)
  <2>1. PICK S : S = Under(index, LAMBDA v : MatchesPattern(v, w, relation))
    OBVIOUS
  <2>2. S \subseteq 1..N
    BY <2>1 DEF Under, Inside
  <2>3. PICK e : e = TRUE
    OBVIOUS
  <2>4. SelectedWithin(Selection(S, e), N)
    BY <2>2, SelectionWithin
  <2>5. SelectPattern(index, w, relation) = Unbounded \/ SelectPattern(index, w, relation) = Selection(S, e)
    BY <2>1, <2>3, Zenon DEF SelectPattern
  <2> QED
    BY <1>2, <2>4, <2>5
<1>4. CASE op = "Eq"
  <2>1. PICK S, e : S = Lookup(index, w) /\ e = TRUE
    OBVIOUS
  <2>2. S \subseteq 1..N
    BY <2>1, InsideUnder
  <2>3. SelectedWithin(Selection(S, e), N)
    BY <2>2, SelectionWithin
  <2>4. sel = Unbounded \/ sel = Selection(S, e)
    <3>1. sel = IF index.multi_valued \/ IsNull(w) THEN Unbounded ELSE Selection(Lookup(index, w), TRUE)
      BY <1>1, <1>4, Zenon DEF Select, Orderings
    <3> QED
      BY <2>1, <3>1, Zenon
  <2> QED
    BY <1>1, <1>2, <2>3, <2>4
<1>5. CASE op \in Orderings
  <2>1. PICK S, e : S = Under(index, LAMBDA v : OrderedAs(op, Compare(v, w))) /\ e = ~index.multi_valued
    OBVIOUS
  <2>2. S \subseteq 1..N
    BY <2>1 DEF Under, Inside
  <2>3. SelectedWithin(Selection(S, e), N)
    BY <2>2, SelectionWithin
  <2>4. sel = Unbounded \/ sel = Selection(S, e)
    <3>1. sel = IF IsNull(w) THEN Unbounded
                ELSE Selection(Under(index, LAMBDA v : OrderedAs(op, Compare(v, w))), ~index.multi_valued)
      BY <1>1, <1>5, Zenon DEF Select, Orderings
    <3> QED
      BY <2>1, <3>1, Zenon
  <2> QED
    BY <1>1, <1>2, <2>3, <2>4
<1>6. CASE op \in {"In", "ContainsAny"}
  <2>1. PICK S, e : S = UNION {Lookup(index, x) : x \in Elements(w)} /\ e = TRUE
    OBVIOUS
  <2>2. S \subseteq 1..N
    BY <2>1, InsideUnder
  <2>3. SelectedWithin(Selection(S, e), N)
    BY <2>2, SelectionWithin
  <2>4. sel = Selection(S, e)
    BY <1>1, <1>6, <2>1, Zenon DEF Select, Orderings
  <2> QED
    BY <1>1, <2>3, <2>4
<1>7. CASE op = "Contains"
  <2>1. PICK S, e : /\ S = IF index.multi_valued THEN Lookup(index, w)
                           ELSE Under(index, LAMBDA v : ContainsValue(v, w))
                    /\ e = TRUE
    OBVIOUS
  <2>2. Under(index, LAMBDA v : ContainsValue(v, w)) \subseteq 1..N
    BY DEF Under, Inside
  <2>3. S \subseteq 1..N
    BY <2>1, <2>2, InsideUnder
  <2>4. SelectedWithin(Selection(S, e), N)
    BY <2>3, SelectionWithin
  <2>5. sel = Selection(S, e)
    BY <1>1, <1>7, <2>1, Zenon DEF Select, Orderings
  <2> QED
    BY <1>1, <2>4, <2>5
<1>8. CASE op \in {"Glob", "IGlob", "Regex"}
  <2>1. \/ sel = SelectPattern(index, w, GlobMatches)
        \/ sel = SelectPattern(index, w, IGlobMatches)
        \/ sel = SelectPattern(index, w, RegexMatches)
    BY <1>1, <1>8, Zenon DEF Select, Orderings
  <2> QED
    BY <1>1, <1>3, <2>1
<1>9. CASE /\ op # "Eq" /\ op \notin Orderings /\ op \notin {"In", "ContainsAny"}
           /\ op # "Contains" /\ op \notin {"Glob", "IGlob", "Regex"}
  <2>1. sel = Unbounded
    BY <1>1, <1>9, Zenon DEF Select
  <2> QED
    BY <1>1, <1>2, <2>1
<1> QED
  BY <1>4, <1>5, <1>6, <1>7, <1>8, <1>9

LEMMA ConnectedInside ==
    ASSUME NEW sels, NEW N, \A s \in sels : SelectedWithin(s, N)
    PROVE  /\ SelectedWithin(BothOf(sels), N)
           /\ SelectedWithin(EitherOf(sels), N)
           /\ SelectedWithin(NoneOf(sels, N), N)
<1>1. SelectedWithin(Unbounded, N)
  BY UnboundedWithin
<1>2. \A s \in sels : s.ordinals \subseteq 1..N
  BY DEF SelectedWithin
<1>3. PICK bounded : bounded = {s \in sels : s.bounded}
  OBVIOUS
<1>4. SelectedWithin(BothOf(sels), N)
  <2>1. PICK S, e : /\ S = {o \in UNION {s.ordinals : s \in bounded} : \A s \in bounded : o \in s.ordinals}
                    /\ e = \A s \in sels : s.bounded /\ s.exact
    OBVIOUS
  <2>2. S \subseteq 1..N
    BY <1>2, <1>3, <2>1
  <2>3. BothOf(sels) = Unbounded \/ BothOf(sels) = Selection(S, e)
    BY <1>3, <2>1, Zenon DEF BothOf
  <2>4. SelectedWithin(Selection(S, e), N)
    BY <2>2, SelectionWithin
  <2> QED
    BY <1>1, <2>3, <2>4
<1>5. SelectedWithin(EitherOf(sels), N)
  <2>1. PICK S, e : S = UNION {s.ordinals : s \in sels} /\ e = \A s \in sels : s.exact
    OBVIOUS
  <2>2. S \subseteq 1..N
    BY <1>2, <2>1
  <2>3. EitherOf(sels) = Unbounded \/ EitherOf(sels) = Selection(S, e)
    BY <2>1, Zenon DEF EitherOf
  <2>4. SelectedWithin(Selection(S, e), N)
    BY <2>2, SelectionWithin
  <2> QED
    BY <1>1, <2>3, <2>4
<1>6. SelectedWithin(NoneOf(sels, N), N)
  <2>1. PICK S, e : S = (1..N) \ UNION {s.ordinals : s \in sels} /\ e = TRUE
    OBVIOUS
  <2>2. S \subseteq 1..N
    BY <2>1
  <2>3. NoneOf(sels, N) = Unbounded \/ NoneOf(sels, N) = Selection(S, e)
    BY <2>1, Zenon DEF NoneOf
  <2>4. SelectedWithin(Selection(S, e), N)
    BY <2>2, SelectionWithin
  <2> QED
    BY <1>1, <2>3, <2>4
<1> QED
  BY <1>4, <1>5, <1>6

LEMMA EvaluateInside ==
    ASSUME NEW filter, Postfix(filter), NEW indexes, NEW N,
           \A a \in DOMAIN indexes : Inside(indexes[a], N)
    PROVE  SelectedWithin(Evaluate(filter, indexes, N), N)
<1>1. PICK f : /\ \A n \in 1..Len(filter) :
                        f[n] = SelectionAt(filter, indexes, N, n, Operands(f, filter, n))
               /\ Evaluate(filter, indexes, N) = f[Len(filter)]
  BY EvaluateStages
<1>2. PICK m : m = Len(filter) /\ m \in Nat \ {0}
  BY DEF Postfix
<1> DEFINE S == {k \in 0..m : \A n \in 1..k : SelectedWithin(f[n], N)}
<1>3. 0 \in S
  BY <1>2
<1>4. ASSUME NEW k \in 0..m, k < m, k \in S
      PROVE  k + 1 \in S
  <2>1. PICK n : n = k + 1 /\ n \in 1..m /\ n \in 0..m /\ \A j \in 1..n : j = n \/ j \in 1..k
    BY <1>2, <1>4
  <2>2. \A p \in filter[n].parts : p \in 1..k
    BY <1>2, <1>4, <2>1 DEF Postfix
  <2>3. PICK sels : sels = Operands(f, filter, n)
    OBVIOUS
  <2>4. \A s \in sels : SelectedWithin(s, N)
    BY <1>4, <2>2, <2>3 DEF Operands
  <2>5. f[n] = SelectionAt(filter, indexes, N, n, sels)
    BY <1>1, <1>2, <2>1, <2>3
  <2>6. SelectedWithin(f[n], N)
    <3>1. CASE filter[n].kind = "Cmp"
      <4>1. f[n] = IF filter[n].key \in DOMAIN indexes
                   THEN Select(indexes[filter[n].key], filter[n].op, filter[n].value)
                   ELSE Unbounded
        BY <2>5, <3>1, Zenon DEF SelectionAt
      <4>2. CASE filter[n].key \in DOMAIN indexes
        <5>1. PICK index, op, w : /\ index = indexes[filter[n].key]
                                  /\ op = filter[n].op /\ w = filter[n].value
          OBVIOUS
        <5>2. SelectedWithin(Select(index, op, w), N)
          BY <4>2, <5>1, SelectInside
        <5> QED
          BY <4>1, <4>2, <5>1, <5>2
      <4>3. CASE filter[n].key \notin DOMAIN indexes
        BY <4>1, <4>3, UnboundedWithin
      <4> QED
        BY <4>2, <4>3
    <3>2. CASE filter[n].kind = "And"
      <4>1. f[n] = BothOf(sels)
        BY <2>5, <3>2, Zenon DEF SelectionAt
      <4> QED
        BY <2>4, <4>1, ConnectedInside
    <3>3. CASE filter[n].kind = "Or"
      <4>1. f[n] = EitherOf(sels)
        BY <2>5, <3>3, Zenon DEF SelectionAt
      <4> QED
        BY <2>4, <4>1, ConnectedInside
    <3>4. CASE filter[n].kind = "Not"
      <4>1. f[n] = NoneOf(sels, N)
        BY <2>5, <3>4, Zenon DEF SelectionAt
      <4> QED
        BY <2>4, <4>1, ConnectedInside
    <3> QED
      BY <1>2, <2>1, <3>1, <3>2, <3>3, <3>4 DEF Postfix
  <2> QED
    BY <1>4, <2>1, <2>6
<1> HIDE DEF S
<1>5. \A k \in 0..m : k \in S
  BY <1>2, <1>3, <1>4, Replays!Upwards
<1>6. m \in S /\ m \in 1..m
  BY <1>2, <1>5
<1> QED
  BY <1>1, <1>2, <1>6 DEF S

\* A filter is as connected when it is fitted to a schema as it was.
LEMMA CoercedPostfix ==
    ASSUME NEW types, \A a \in DOMAIN types : types[a] \in Types, NEW f, Postfix(f),
           NEW filter, filter = CoerceFilter(f, types)
    PROVE  Postfix(filter)
<1>1. PICK N : N = Len(f) /\ N \in Nat \ {0} /\ f = [n \in 1..N |-> f[n]] /\ DOMAIN f = 1..N
  BY DEF Postfix
<1>2. /\ DOMAIN filter = 1..N
      /\ filter = [n \in 1..N |-> filter[n]]
      /\ \A n \in 1..N : filter[n] = CoerceClause(f[n], types)
  BY <1>1 DEF CoerceFilter
<1>3. Len(filter) = N
  BY <1>1, <1>2, MadeSequence
<1>4. ASSUME NEW n \in 1..N
      PROVE  /\ filter[n] = ClauseOf(filter[n].kind, filter[n].key, filter[n].op, filter[n].value,
                                     filter[n].parts)
             /\ filter[n].kind \in {"Cmp", "And", "Or", "Not"}
             /\ filter[n].parts \subseteq 1..n - 1
  <2>1. PICK k, a, op, v, P, clause : /\ k = f[n].kind /\ a = f[n].key /\ op = f[n].op
                                      /\ v = f[n].value /\ P = f[n].parts /\ clause = f[n]
    OBVIOUS
  <2>2. clause = ClauseOf(k, a, op, v, P) /\ k \in {"Cmp", "And", "Or", "Not"} /\ P \subseteq 1..n - 1
    BY <1>1, <2>1 DEF Postfix, ClauseOf
  <2>3. PICK w : CoerceClause(clause, types) = ClauseOf(k, a, op, w, P)
    BY <2>2, CoercedClause
  <2>4. filter[n] = ClauseOf(k, a, op, w, P)
    BY <1>2, <2>1, <2>3
  <2>5. /\ filter[n].kind = k /\ filter[n].key = a /\ filter[n].op = op
        /\ filter[n].value = w /\ filter[n].parts = P
    BY <2>4 DEF ClauseOf
  <2> QED
    BY <2>2, <2>4, <2>5
<1> QED
  BY <1>1, <1>2, <1>3, <1>4 DEF Postfix, ClauseOf

---------------------------------------------------------------------------
\* What a plan looked at is among the documents.

LEMMA WithinFits ==
    ASSUME NEW f, NEW g, Among(f, g), AllFit(g, schema), IsMap(g)
    PROVE  AllFit(f, schema) /\ IsMap(f)
<1>1. IsFiniteSet(DOMAIN f)
  BY FS_Subset DEF Among, IsMap
<1> QED
  BY <1>1 DEF Among, IsMap, AllFit

\* What is listed of some of the documents is listed of all of them.
LEMMA ListedWithin ==
    ASSUME NEW f, NEW g, Among(f, g), NEW q, NEW req, NEW filter, Listed(q, f, req, filter)
    PROVE  Listed(q, g, req, filter)
<1>1. ASSUME NEW h, GoodHit(h, f, req, filter) PROVE GoodHit(h, g, req, filter)
  BY <1>1 DEF Among, GoodHit
<1> QED
  BY <1>1 DEF Listed

\* The documents of a segment.
LEMMA SegmentKeyed ==
    ASSUME NEW segment, InIdOrder(segment), UpsertsOf(segment, schema)
    PROVE  \E D : /\ D = [i \in DOMAIN D |-> D[i]]
                  /\ DOMAIN D = {segment[o].id : o \in 1..Len(segment)}
                  /\ \A o \in 1..Len(segment) : segment[o] = [op |-> "upsert", id |-> segment[o].id,
                                                              attrs |-> D[segment[o].id]]
                  /\ \A o, p \in 1..Len(segment) : segment[o].id = segment[p].id => o = p
<1>1. ASSUME NEW o \in 1..Len(segment), NEW p \in 1..Len(segment), segment[o].id = segment[p].id
      PROVE  o = p
  <2>1. PICK i : i = segment[o].id /\ i \in StorableIds
    BY DEF UpsertsOf, IdFits
  <2>2. ~IdBefore(i, i)
    <3>1. i.items[1] \in Int /\ (IdBefore(i, i) <=> i.items[1] < i.items[1])
      BY <2>1, IdOrder
    <3> QED
      BY <3>1
  <2>3. ~(o < p) /\ ~(p < o)
    BY <1>1, <2>1, <2>2 DEF InIdOrder
  <2> QED
    BY <2>3 DEF InIdOrder, IsSequence
<1> DEFINE at(i) == CHOOSE o \in 1..Len(segment) : segment[o].id = i
           D == [i \in {segment[o].id : o \in 1..Len(segment)} |-> segment[at(i)].attrs]
<1>2. ASSUME NEW o \in 1..Len(segment)
      PROVE  segment[o] = [op |-> "upsert", id |-> segment[o].id, attrs |-> D[segment[o].id]]
  <2>1. PICK i : i = segment[o].id
    OBVIOUS
  <2>2. at(i) \in 1..Len(segment) /\ segment[at(i)].id = i
    BY <2>1
  <2>3. at(i) = o
    BY <1>1, <2>1, <2>2
  <2>4. D[i] = segment[o].attrs
    BY <2>1, <2>3
  <2> HIDE DEF D
  <2> QED
    BY <2>1, <2>4 DEF UpsertsOf, IsUpsert
<1>3. D = [i \in DOMAIN D |-> D[i]] /\ DOMAIN D = {segment[o].id : o \in 1..Len(segment)}
  OBVIOUS
<1> HIDE DEF D
<1> QED
  BY <1>1, <1>2, <1>3

\* D are the documents of a segment and E those of some ordinals; a shard sees the
\* tail over the former and a plan the tail over the latter.
LaidOver(D, E, shard, ordinals, records, now) ==
    /\ D = [i \in DOMAIN D |-> D[i]]
    /\ \A i : i \in DOMAIN D <=> \E o \in 1..Len(shard.segment) : shard.segment[o].id = i
    /\ \A o \in 1..Len(shard.segment) : D[shard.segment[o].id] = shard.segment[o].attrs
    /\ E = [i \in DOMAIN E |-> D[i]] /\ DOMAIN E = {shard.segment[o].id : o \in ordinals}
    /\ Overlaid(shard, ordinals, records) = Docs!Replay(E, records)
    /\ now = Docs!Replay(D, records)

LEMMA OverlaidIs ==
    ASSUME NEW shard, NEW records, NEW now, Shard(shard, records, now),
           NEW ordinals, ordinals \subseteq 1..Len(shard.segment)
    PROVE  \E D, E : LaidOver(D, E, shard, ordinals, records, now)
<1>1. PICK segment : segment = shard.segment
  OBVIOUS
<1>2. /\ InIdOrder(segment) /\ UpsertsOf(segment, schema) /\ IsSequence(segment)
      /\ IsSequence(records)
      /\ \A k \in 1..Len(records) : Operation(records[k])
      /\ now = Docs!Replay(Docs!Materialize(segment), records)
  BY <1>1 DEF Shard, InIdOrder
<1>3. PICK D : /\ D = [i \in DOMAIN D |-> D[i]]
               /\ DOMAIN D = {segment[o].id : o \in 1..Len(segment)}
               /\ \A o \in 1..Len(segment) : segment[o] = [op |-> "upsert", id |-> segment[o].id,
                                                           attrs |-> D[segment[o].id]]
               /\ \A o, p \in 1..Len(segment) : segment[o].id = segment[p].id => o = p
  BY <1>2, SegmentKeyed
<1>4. \A o \in 1..Len(segment) : /\ segment[o].op = "upsert"
                                 /\ segment[o].id \in DOMAIN D
                                 /\ segment[o].attrs = D[segment[o].id]
  <2> SUFFICES ASSUME NEW o \in 1..Len(segment)
               PROVE  /\ segment[o].op = "upsert" /\ segment[o].id \in DOMAIN D
                      /\ segment[o].attrs = D[segment[o].id]
    OBVIOUS
  <2>1. PICK i, a : i = segment[o].id /\ a = D[i]
    OBVIOUS
  <2>2. segment[o] = [op |-> "upsert", id |-> i, attrs |-> a]
    BY <1>3, <2>1
  <2>3. segment[o].op = "upsert" /\ segment[o].attrs = a
    BY <2>2
  <2> QED
    BY <1>3, <2>1, <2>3
<1>5. Docs!Materialize(segment) = D
  <2>1. \A i \in DOMAIN D : \E o \in 1..Len(segment) : segment[o].id = i
    BY <1>3
  <2> QED
    BY <1>2, <1>3, <1>4, <2>1, ReplayUpserts
<1>6. PICK S : S = {segment[o].id : o \in ordinals}
  OBVIOUS
<1>7. PICK n : n = Len(segment) /\ n \in Nat /\ ordinals \subseteq 1..n
  BY <1>1, <1>2 DEF IsSequence
<1>8. {segment[o] : o \in ordinals} = Bucket(D, S)
  <2>1. ASSUME NEW o \in ordinals
        PROVE  segment[o] = [op |-> "upsert", id |-> segment[o].id, attrs |-> D[segment[o].id]]
    BY <1>3, <1>7
  <2>2. Bucket(D, S) = {[op |-> "upsert", id |-> segment[o].id, attrs |-> D[segment[o].id]] : o \in ordinals}
    BY <1>6 DEF Bucket
  <2> QED
    BY <2>1, <2>2
<1>9. IsFiniteSet(S)
  <2>1. IsFiniteSet(1..n)
    BY <1>7, FS_Interval
  <2>2. IsFiniteSet(ordinals)
    BY <1>7, <2>1, FS_Subset
  <2> DEFINE f == [o \in ordinals |-> segment[o].id]
  <2>3. f \in Surjection(ordinals, S)
    BY <1>6 DEF Surjection
  <2> HIDE DEF f
  <2> QED
    BY <2>2, <2>3, FS_Surjection
<1>10. S \subseteq DOMAIN D /\ S \subseteq StorableIds /\ \A i, j \in S : i.type = j.type
  BY <1>2, <1>3, <1>6, <1>7 DEF UpsertsOf, IdFits
<1>11. PICK q : q = ById(Bucket(D, S))
  OBVIOUS
<1>12. /\ IsSequence(q)
       /\ \A k \in 1..Len(q) : q[k] \in Bucket(D, S)
       /\ \A r \in Bucket(D, S) : \E k \in 1..Len(q) : q[k] = r
  BY <1>9, <1>10, <1>11, BucketSorted
<1>13. PICK E : E = [i \in S |-> D[i]]
  OBVIOUS
<1>14. E = [i \in DOMAIN E |-> E[i]] /\ DOMAIN E = S /\ \A i \in S : E[i] = D[i]
  BY <1>13
<1>15. Docs!Materialize(q) = E
  <2>1. ASSUME NEW k \in 1..Len(q)
        PROVE  q[k].op = "upsert" /\ q[k].id \in DOMAIN E /\ q[k].attrs = E[q[k].id]
    <3>1. PICK i \in S : q[k] = [op |-> "upsert", id |-> i, attrs |-> D[i]]
      BY <1>12 DEF Bucket
    <3>2. PICK a : a = D[i]
      OBVIOUS
    <3>3. q[k] = [op |-> "upsert", id |-> i, attrs |-> a]
      BY <3>1, <3>2
    <3>4. q[k].op = "upsert" /\ q[k].id = i /\ q[k].attrs = a
      BY <3>3
    <3> QED
      BY <1>14, <3>2, <3>4
  <2>2. ASSUME NEW i \in DOMAIN E PROVE \E k \in 1..Len(q) : q[k].id = i
    <3>1. [op |-> "upsert", id |-> i, attrs |-> D[i]] \in Bucket(D, S)
      BY <1>14 DEF Bucket
    <3>2. PICK k \in 1..Len(q) : q[k] = [op |-> "upsert", id |-> i, attrs |-> D[i]]
      BY <1>12, <3>1
    <3> QED
      BY <3>2
  <2> QED
    BY ONLY <1>12, <1>14, <2>1, <2>2, ReplayUpserts
<1>16. Overlaid(shard, ordinals, records) = Docs!Replay(E, records)
  <2>1. Overlaid(shard, ordinals, records) = Docs!Materialize(q \o records)
    BY <1>1, <1>8, <1>11 DEF Overlaid, ById
  <2>2. PICK none : none = Docs!NoDocs
    OBVIOUS
  <2>3. Docs!Replay(none, q \o records) = Docs!Replay(Docs!Replay(none, q), records)
    BY <1>2, <1>12, ReplayJoined
  <2> QED
    BY <1>15, <2>1, <2>2, <2>3 DEF Docs!Materialize
<1>17. \A i : i \in DOMAIN D <=> \E o \in 1..Len(segment) : segment[o].id = i
  BY <1>3
<1>18. E = [i \in DOMAIN E |-> D[i]] /\ DOMAIN E = {segment[o].id : o \in ordinals}
  BY <1>6, <1>13, <1>14
<1>19. now = Docs!Replay(D, records)
  BY <1>2, <1>5
<1>20. \A o \in 1..Len(segment) : D[segment[o].id] = segment[o].attrs
  BY <1>4
<1>21. D = [i \in DOMAIN D |-> D[i]]
  BY <1>3
<1>22. LaidOver(D, E, shard, ordinals, records, now)
  BY ONLY <1>1, <1>16, <1>17, <1>18, <1>19, <1>20, <1>21 DEF LaidOver
<1> QED
  BY <1>22

\* Some documents of a segment, with the tail laid over them, are among all of
\* them with the tail laid over.
LEMMA OverlaidWithin ==
    ASSUME NEW shard, NEW records, NEW now, Shard(shard, records, now),
           NEW ordinals, ordinals \subseteq 1..Len(shard.segment)
    PROVE  Among(Overlaid(shard, ordinals, records), now)
<1>1. PICK D, E : LaidOver(D, E, shard, ordinals, records, now)
  BY OverlaidIs
<1>2. Among(E, D)
  BY <1>1 DEF Among, LaidOver
<1>3. Len(records) \in Nat /\ \A k \in 1..Len(records) : Operation(records[k])
  BY DEF Shard, IsSequence
<1>4. Among(Docs!Replay(E, records), Docs!Replay(D, records))
  BY <1>2, <1>3, ReplayWithin
<1> QED
  BY <1>1, <1>4 DEF LaidOver

---------------------------------------------------------------------------
\* Whether and how one document is there.
AgreeAt(f, g, i) == (i \in DOMAIN f <=> i \in DOMAIN g) /\ (i \in DOMAIN f => f[i] = g[i])

LEMMA ApplyAgrees ==
    ASSUME NEW r, Operation(r), NEW f, NEW g, NEW a, a = Docs!Apply(f, r), NEW b, b = Docs!Apply(g, r), NEW i
    PROVE  /\ AgreeAt(f, g, i) => AgreeAt(a, b, i)
           /\ r.id = i /\ r.op # "patch" => AgreeAt(a, b, i)
           /\ r.id # i => AgreeAt(a, f, i)
<1>1. /\ i # r.id => (i \in DOMAIN a <=> i \in DOMAIN f)
      /\ i \in DOMAIN a /\ i # r.id => a[i] = f[i]
      /\ r.id \in DOMAIN a <=> r.op = "upsert" \/ (r.op = "patch" /\ r.id \in DOMAIN f)
      /\ r.id \in DOMAIN a =>
              a[r.id] = IF r.op = "upsert" THEN r.attrs ELSE Docs!Patched(f[r.id], r.attrs)
  BY AppliedAt
<1>2. /\ i # r.id => (i \in DOMAIN b <=> i \in DOMAIN g)
      /\ i \in DOMAIN b /\ i # r.id => b[i] = g[i]
      /\ r.id \in DOMAIN b <=> r.op = "upsert" \/ (r.op = "patch" /\ r.id \in DOMAIN g)
      /\ r.id \in DOMAIN b =>
              b[r.id] = IF r.op = "upsert" THEN r.attrs ELSE Docs!Patched(g[r.id], r.attrs)
  BY AppliedAt
<1>3. CASE i # r.id
  BY <1>1, <1>2, <1>3 DEF AgreeAt
<1>4. CASE i = r.id
  <2>1. AgreeAt(f, g, i) => AgreeAt(a, b, i)
    BY <1>1, <1>2, <1>4 DEF AgreeAt
  <2>2. r.op # "patch" => AgreeAt(a, b, i)
    BY <1>1, <1>2, <1>4 DEF AgreeAt, Operation
  <2> QED
    BY <1>4, <2>1, <2>2
<1> QED
  BY <1>3, <1>4

\* What records that touch a document whole make of it does not depend on what was
\* there, and records that do not touch it leave it.
TouchedWhole(records, i, n) ==
    (\E k \in 1..n : records[k].id = i) /\ \A k \in 1..n : records[k].op # "patch"
Spared(records, i, n) == \A k \in 1..n : records[k].id # i

LEMMA ReplayAgrees ==
    ASSUME NEW f, NEW g, NEW records, Len(records) \in Nat,
           \A k \in 1..Len(records) : Operation(records[k]), NEW i
    PROVE  /\ TouchedWhole(records, i, Len(records)) => AgreeAt(Docs!Replay(f, records), Docs!Replay(g, records), i)
           /\ Spared(records, i, Len(records)) => AgreeAt(Docs!Replay(f, records), f, i)
<1>1. PICK n : n \in Nat /\ n = Len(records)
  OBVIOUS
<1>2. PICK a : Replays!Stages(a, f, records, n) /\ Docs!Replay(f, records) = a[n]
  BY <1>1, ReplayStages
<1>3. PICK b : Replays!Stages(b, g, records, n) /\ Docs!Replay(g, records) = b[n]
  BY <1>1, ReplayStages
<1>4. a[0] = f /\ \A k \in 0..n : k < n => a[k + 1] = Docs!Apply(a[k], records[k + 1])
  BY <1>1, <1>2, StageAt
<1>5. b[0] = g /\ \A k \in 0..n : k < n => b[k + 1] = Docs!Apply(b[k], records[k + 1])
  BY <1>1, <1>3, StageAt
<1>6. ASSUME NEW k \in 0..n, k < n
      PROVE  /\ k + 1 \in 0..n /\ k + 1 \in 1..n
             /\ AgreeAt(a[k], b[k], i) => AgreeAt(a[k + 1], b[k + 1], i)
             /\ records[k + 1].id = i /\ records[k + 1].op # "patch" => AgreeAt(a[k + 1], b[k + 1], i)
             /\ records[k + 1].id # i => AgreeAt(a[k + 1], a[k], i)
  <2>1. k + 1 \in 0..n /\ k + 1 \in 1..n
    BY <1>1, <1>6
  <2>2. PICK c, d, r, x, y : /\ c = a[k + 1] /\ d = b[k + 1] /\ r = records[k + 1]
                             /\ x = a[k] /\ y = b[k]
    OBVIOUS
  <2>3. c = Docs!Apply(x, r) /\ d = Docs!Apply(y, r) /\ Operation(r)
    BY <1>1, <1>4, <1>5, <1>6, <2>1, <2>2
  <2>4. /\ AgreeAt(x, y, i) => AgreeAt(c, d, i)
        /\ r.id = i /\ r.op # "patch" => AgreeAt(c, d, i)
        /\ r.id # i => AgreeAt(c, x, i)
    BY <2>3, ApplyAgrees
  <2> QED
    BY <2>1, <2>2, <2>4
<1>7. ASSUME TouchedWhole(records, i, n)
      PROVE  AgreeAt(a[n], b[n], i)
  <2> DEFINE S == {k \in 0..n : (\E j \in 1..k : records[j].id = i) => AgreeAt(a[k], b[k], i)}
  <2>1. 0 \in S
    BY <1>1
  <2>2. ASSUME NEW k \in 0..n, k < n, k \in S
        PROVE  k + 1 \in S
    <3>1. CASE records[k + 1].id = i
      <4>1. AgreeAt(a[k + 1], b[k + 1], i)
        BY <1>6, <1>7, <2>2, <3>1 DEF TouchedWhole
      <4> QED
        BY <1>6, <2>2, <4>1
    <3>2. CASE records[k + 1].id # i
      <4>1. ASSUME NEW j \in 1..k + 1, records[j].id = i PROVE AgreeAt(a[k + 1], b[k + 1], i)
        <5>1. j \in 1..k
          BY <1>1, <2>2, <3>2, <4>1
        <5>2. AgreeAt(a[k], b[k], i)
          BY <2>2, <4>1, <5>1
        <5> QED
          BY <1>6, <2>2, <5>2
      <4> QED
        BY <1>6, <2>2, <4>1
    <3> QED
      BY <3>1, <3>2
  <2> HIDE DEF S
  <2>3. \A k \in 0..n : k \in S
    BY <1>1, <2>1, <2>2, Replays!Upwards
  <2> QED
    BY <1>1, <1>7, <2>3 DEF S, TouchedWhole
<1>8. ASSUME Spared(records, i, n)
      PROVE  AgreeAt(a[n], f, i)
  <2> DEFINE S == {k \in 0..n : AgreeAt(a[k], f, i)}
  <2>1. 0 \in S
    BY <1>1, <1>4 DEF AgreeAt
  <2>2. ASSUME NEW k \in 0..n, k < n, k \in S
        PROVE  k + 1 \in S
    <3>1. AgreeAt(a[k + 1], a[k], i)
      BY <1>6, <1>8, <2>2 DEF Spared
    <3> QED
      BY <1>6, <2>2, <3>1 DEF AgreeAt
  <2> HIDE DEF S
  <2>3. \A k \in 0..n : k \in S
    BY <1>1, <2>1, <2>2, Replays!Upwards
  <2> QED
    BY <1>1, <2>3 DEF S
<1> QED
  BY <1>1, <1>2, <1>3, <1>7, <1>8

\* Documents that match the same way are found the same way.
SameFound(f, g, filter) ==
    \A i : /\ (i \in DOMAIN f /\ Matches(filter, f[i], schema.fts))
                <=> (i \in DOMAIN g /\ Matches(filter, g[i], schema.fts))
           /\ i \in DOMAIN f /\ Matches(filter, f[i], schema.fts) => f[i] = g[i]

\* A plan that looks at every document of the segment finds what a scan does; one
\* that looks at those that match does, if the tail patches none.
LEMMA OverlaidFinds ==
    ASSUME NEW shard, NEW records, NEW now, Shard(shard, records, now),
           NEW ordinals, ordinals \subseteq 1..Len(shard.segment), NEW filter,
           \/ ordinals = 1..Len(shard.segment)
           \/ /\ \A k \in 1..Len(records) : records[k].op # "patch"
              /\ \A o \in 1..Len(shard.segment) :
                    Matches(filter, shard.segment[o].attrs, schema.fts) => o \in ordinals
    PROVE  SameFound(Overlaid(shard, ordinals, records), now, filter)
<1>1. PICK segment, over : segment = shard.segment /\ over = Overlaid(shard, ordinals, records)
  OBVIOUS
<1>2. PICK D, E : LaidOver(D, E, shard, ordinals, records, now)
  BY OverlaidIs
<1>3. over = Docs!Replay(E, records) /\ now = Docs!Replay(D, records)
  BY <1>1, <1>2 DEF LaidOver
<1>4. CASE ordinals = 1..Len(segment)
  <2>1. DOMAIN E = DOMAIN D
    BY <1>1, <1>2, <1>4 DEF LaidOver
  <2>2. E = D
    BY <1>2, <2>1 DEF LaidOver
  <2> QED
    BY <1>1, <1>3, <2>2 DEF SameFound
<1>5. CASE /\ \A k \in 1..Len(records) : records[k].op # "patch"
           /\ \A o \in 1..Len(segment) :
                 Matches(filter, segment[o].attrs, schema.fts) => o \in ordinals
  <2>1. Len(records) \in Nat /\ \A k \in 1..Len(records) : Operation(records[k])
    BY DEF Shard, IsSequence
  <2>2. ASSUME NEW i
        PROVE  /\ (i \in DOMAIN over /\ Matches(filter, over[i], schema.fts))
                      <=> (i \in DOMAIN now /\ Matches(filter, now[i], schema.fts))
               /\ i \in DOMAIN over /\ Matches(filter, over[i], schema.fts) => over[i] = now[i]
    <3>1. CASE \E k \in 1..Len(records) : records[k].id = i
      <4>1. AgreeAt(over, now, i)
        BY <1>3, <1>5, <2>1, <3>1, ReplayAgrees DEF TouchedWhole
      <4> QED
        BY <4>1 DEF AgreeAt
    <3>2. CASE ~ \E k \in 1..Len(records) : records[k].id = i
      <4>1. Spared(records, i, Len(records))
        BY <3>2 DEF Spared
      <4>2. AgreeAt(over, E, i) /\ AgreeAt(now, D, i)
        BY <1>3, <2>1, <4>1, ReplayAgrees
      <4>3. i \in DOMAIN E => i \in DOMAIN D /\ E[i] = D[i]
        BY <1>1, <1>2 DEF LaidOver
      <4>4. i \in DOMAIN D /\ Matches(filter, D[i], schema.fts) => i \in DOMAIN E
        <5> SUFFICES ASSUME i \in DOMAIN D, Matches(filter, D[i], schema.fts) PROVE i \in DOMAIN E
          OBVIOUS
        <5>1. PICK o \in 1..Len(segment) : segment[o].id = i
          BY <1>1, <1>2 DEF LaidOver
        <5>2. D[i] = segment[o].attrs
          BY <1>1, <1>2, <5>1 DEF LaidOver
        <5>3. o \in ordinals
          BY <1>5, <5>2
        <5> QED
          BY <1>1, <1>2, <5>1, <5>3 DEF LaidOver
      <4> QED
        BY <4>2, <4>3, <4>4 DEF AgreeAt
    <3> QED
      BY <3>1, <3>2
  <2> QED
    BY <1>1, <2>2 DEF SameFound
<1> QED
  BY <1>1, <1>4, <1>5

---------------------------------------------------------------------------
\* What a shard finds by vector.

\* The hits among some documents, without a limit.
FoundHits(D, req, filter) ==
    {[id |-> i, score |-> Score(schema.metric, req.vector, VectorOf(D[i])),
      attrs |-> Project(req.include, D[i])] :
        i \in {j \in DOMAIN D : Matches(filter, D[j], schema.fts)}}

LEMMA ScoredIs ==
    ASSUME NEW D, NEW req, NEW filter
    PROVE  Scored(D, req, filter) = Best(FoundHits(D, req, filter), req.top_k)
  BY Zenon DEF Scored, TopK, FoundHits

\* One hit for each document that matches.
LEMMA FoundAre ==
    ASSUME SoundSchema(schema), NEW D, AllFit(D, schema), NEW req \in Requests, NEW filter
    PROVE  OfDocs(FoundHits(D, req, filter), D, req, filter)
<1> DEFINE found == {i \in DOMAIN D : Matches(filter, D[i], schema.fts)}
           hit(i) == [id |-> i, score |-> Score(schema.metric, req.vector, VectorOf(D[i])),
                      attrs |-> Project(req.include, D[i])]
<1>1. FoundHits(D, req, filter) = {hit(i) : i \in found}
  BY DEF FoundHits
<1>2. ASSUME NEW i \in found
      PROVE  GoodHit(hit(i), D, req, filter) /\ hit(i).id = i
  <2>1. PICK v, attrs, score, metric, vector, proj :
            /\ attrs = D[i] /\ v = VectorOf(attrs) /\ metric = schema.metric
            /\ vector = req.vector /\ score = Score(metric, vector, v)
            /\ proj = Project(req.include, attrs)
    OBVIOUS
  <2>2. v \in Seq(Int)
    BY <2>1, VectorIsNumbers DEF AllFit
  <2>3. vector \in Seq(Int) /\ metric \in Metrics
    BY <2>1, RequestsAssumption DEF SoundSchema
  <2>4. score \in Int
    BY <2>1, <2>2, <2>3, ScoreIsInt
  <2>5. PICK h : h = hit(i)
    OBVIOUS
  <2>6. h = [id |-> i, score |-> score, attrs |-> proj]
    BY <2>1, <2>5
  <2>7. h.id = i /\ h.score = score /\ h.attrs = proj
    BY <2>6
  <2>8. GoodHit(h, D, req, filter)
    BY <2>1, <2>4, <2>7 DEF GoodHit
  <2> HIDE DEF hit
  <2> QED
    BY <2>5, <2>7, <2>8
<1> HIDE DEF hit, found
<1> QED
  BY <1>1, <1>2 DEF OfDocs

LEMMA TopKListed ==
    ASSUME SoundSchema(schema), NEW D, AllFit(D, schema), IsMap(D), NEW req \in Requests, NEW filter
    PROVE  Listed(Scored(D, req, filter), D, req, filter)
<1>1. PICK hits : hits = FoundHits(D, req, filter)
  OBVIOUS
<1>2. OfDocs(hits, D, req, filter)
  BY <1>1, FoundAre
<1>3. Scored(D, req, filter) = Best(hits, req.top_k)
  BY <1>1, ScoredIs
<1>4. PICK n, q : n = req.top_k /\ q = Best(hits, n) /\ n \in Nat
  BY RequestsAssumption
<1>5. Listed(q, D, req, filter)
  BY <1>2, <1>4, BestListed
<1> QED
  BY <1>3, <1>4, <1>5

LEMMA FailureListed ==
    ASSUME NEW D, NEW req, NEW filter
    PROVE  Listed(Failure.hits, D, req, filter)
<1>1. PICK q : q = Failure.hits /\ q = <<>>
  BY DEF Failure
<1>2. IsSequence(q) /\ Len(q) = 0
  BY <1>1, NoRecords
<1> QED
  BY <1>1, <1>2 DEF Listed

LEMMA AnswerHits ==
    ASSUME NEW hits, NEW indexed, NEW prefiltered
    PROVE  Answer(hits, indexed, prefiltered).hits = hits
  BY DEF Answer

\* Indexes over a segment have entries of its documents.
LEMMA OverInside ==
    ASSUME NEW shard, NEW records, NEW now, Shard(shard, records, now), shard.indexed,
           NEW filter, Postfix(filter)
    PROVE  SelectionOf(shard, filter).ordinals \subseteq 1..Len(shard.segment)
<1>1. PICK N, indexes : N = Len(shard.segment) /\ indexes = shard.index.attributes
  OBVIOUS
<1>2. shard.index.docs = N /\ IndexesOver(indexes, shard.segment, schema.attributes)
  BY <1>1 DEF Shard, ShardIndexed
<1>3. ASSUME NEW a \in DOMAIN indexes PROVE Inside(indexes[a], N)
  <2>1. PICK index, column, type :
            /\ index = indexes[a] /\ column = Column(shard.segment, a)
            /\ type = schema.attributes[a] /\ Over(index, column, type, N)
    BY <1>1, <1>2 DEF IndexesOver
  <2>2. ASSUME NEW v \in DOMAIN index.entries, NEW o \in index.entries[v] PROVE o \in 1..N
    BY <2>1 DEF Over, Entered
  <2> QED
    BY <2>1, <2>2 DEF Inside
<1>4. SelectedWithin(Evaluate(filter, indexes, N), N)
  BY <1>3, EvaluateInside
<1> QED
  BY <1>1, <1>2, <1>4 DEF SelectionOf, SelectedWithin

LEMMA VectorHitsListed ==
    ASSUME SoundSchema(schema), NEW req \in Requests,
           NEW filter, filter = NoFilter \/ Postfix(filter),
           NEW shard, NEW records, NEW now, Shard(shard, records, now),
           AllFit(now, schema), IsMap(now),
           NEW sel, sel = SelectionOf(shard, filter)
    PROVE  Listed(VectorHits(shard, records, req, filter, sel).hits, now, req, filter)
<1>1. now = Docs!Materialize(shard.segment \o records) /\ Among(now, now)
  BY DEF Shard, IsMap, Among
<1>2. PICK answer : answer = VectorHits(shard, records, req, filter, sel)
  OBVIOUS
<1>3. ASSUME NEW documents, Among(documents, now)
      PROVE  Listed(Scored(documents, req, filter), now, req, filter)
  <2>1. AllFit(documents, schema) /\ IsMap(documents)
    BY <1>3, WithinFits
  <2>2. PICK q : q = Scored(documents, req, filter) /\ Listed(q, documents, req, filter)
    BY <2>1, TopKListed
  <2>3. Listed(q, now, req, filter)
    BY <1>3, <2>2, ListedWithin
  <2> QED
    BY <2>2, <2>3
<1>4. ASSUME NEW ordinals, ordinals \subseteq 1..Len(shard.segment)
      PROVE  Listed(Scored(Overlaid(shard, ordinals, records), req, filter), now, req, filter)
  <2>1. PICK documents : documents = Overlaid(shard, ordinals, records)
    OBVIOUS
  <2>2. Among(documents, now)
    BY <1>4, <2>1, OverlaidWithin
  <2> QED
    BY <1>3, <2>1, <2>2
<1>5. CASE ~shard.indexed
  <2>1. answer = Answer(Scored(Docs!Materialize(shard.segment \o records), req, filter), FALSE, FALSE)
    BY <1>2, <1>5, Zenon DEF VectorHits
  <2>2. answer.hits = Scored(now, req, filter)
    BY <1>1, <2>1, AnswerHits
  <2> QED
    BY <1>1, <1>2, <1>3, <2>2
<1>6. CASE shard.indexed /\ filter # NoFilter /\ Prefilters(shard, sel, req)
  <2>1. answer = Answer(Scored(Overlaid(shard, sel.ordinals, records), req, filter), TRUE, TRUE)
    BY <1>2, <1>6, Zenon DEF VectorHits
  <2>2. sel.ordinals \subseteq 1..Len(shard.segment)
    BY <1>6, OverInside
  <2>3. PICK q : /\ q = Scored(Overlaid(shard, sel.ordinals, records), req, filter)
                 /\ Listed(q, now, req, filter)
    BY <1>4, <2>2
  <2>4. answer.hits = q
    BY <2>1, <2>3, AnswerHits
  <2> QED
    BY <1>2, <2>3, <2>4
<1>7. CASE shard.indexed /\ ~(filter # NoFilter /\ Prefilters(shard, sel, req))
  <2>1. PICK probed : probed = Probed(shard.index, req)
    OBVIOUS
  <2>2. \/ answer = Failure
        \/ answer = Answer(Scored(Overlaid(shard, probed, records), req, filter), TRUE, FALSE)
    <3>1. answer = IF shard.index.dim \notin {Len(req.vector)} \ {0} THEN Failure
                   ELSE Answer(Scored(Overlaid(shard, Probed(shard.index, req), records), req, filter),
                               TRUE, FALSE)
      BY <1>2, <1>7, Zenon DEF VectorHits
    <3> QED
      BY <2>1, <3>1, Zenon
  <2>3. probed \subseteq 1..Len(shard.segment)
    <3>1. PICK clusters : clusters = shard.index.clusters
      OBVIOUS
    <3>2. Probe(clusters, req.vector, req.nprobe, schema.metric) \subseteq DOMAIN clusters
      BY DEF Probe, FirstOf
    <3>3. \A c \in DOMAIN clusters : clusters[c].docs \subseteq 1..Len(shard.segment)
      BY <3>1, SequenceOf DEF Shard, ShardSound, Clustering
    <3> QED
      BY <2>1, <3>1, <3>2, <3>3 DEF Probed
  <2>4. PICK q : /\ q = Scored(Overlaid(shard, probed, records), req, filter)
                 /\ Listed(q, now, req, filter)
    BY <1>4, <2>3
  <2>5. answer = Failure \/ answer.hits = q
    BY <2>2, <2>4, AnswerHits
  <2> QED
    BY <1>2, <2>4, <2>5, FailureListed
<1> QED
  BY <1>5, <1>6, <1>7

---------------------------------------------------------------------------
\* What a shard finds by its postings.

\* What ranks the documents that an inverted index finds and the ones the tail
\* touched are numbers.
RanksBy(scores, rescored, segment, now) ==
    /\ \A p \in DOMAIN scores : p \in 1..Len(segment) /\ scores[p] \in Int
    /\ \A i \in DOMAIN now : rescored[i] \in Int

LEMMA RankedListed ==
    ASSUME NEW req \in Requests, NEW filter,
           NEW shard, NEW records, NEW now, Shard(shard, records, now),
           AllFit(now, schema), IsMap(now),
           NEW scores, NEW rescored, RanksBy(scores, rescored, shard.segment, now)
    PROVE  Listed(RankedFrom(shard, records, now, req, filter, scores, rescored).hits,
                  now, req, filter)
<1> DEFINE touched == Touched(records)
           postings == {p \in DOMAIN scores : shard.segment[p].id \in DOMAIN now \ touched}
           recent == {i \in touched \cap DOMAIN now : rescored[i] # 0}
           posted(o) == [id |-> shard.segment[o].id, score |-> scores[o]]
           again(i) == [id |-> i, score |-> rescored[i]]
           found == {posted(o) : o \in postings} \cup {again(i) : i \in recent}
           kept == {h \in found : Matches(filter, now[h.id], schema.fts)}
           hits == {HitOf(h.id, now[h.id], h.score, req) : h \in kept}
<1>1. PICK answer : answer = RankedFrom(shard, records, now, req, filter, scores, rescored)
  OBVIOUS
<1>2. answer = Answer(Best(hits, req.top_k), TRUE, FALSE)
  BY <1>1, Zenon DEF RankedFrom
<1>3. AllFit(now, schema) /\ IsMap(now)
  OBVIOUS
<1>4. PICK segment : segment = shard.segment
  OBVIOUS
<1>5. \A o, p \in 1..Len(segment) : segment[o].id = segment[p].id => o = p
  <2>1. InIdOrder(segment) /\ UpsertsOf(segment, schema)
    BY <1>4 DEF Shard
  <2> QED
    BY <2>1, SegmentKeyed
<1>6. \A g, h \in found : g.id = h.id => g = h
  <2>1. ASSUME NEW o \in postings
        PROVE  /\ posted(o).id = segment[o].id /\ segment[o].id \notin touched
               /\ o \in 1..Len(segment)
    BY <1>4 DEF RanksBy
  <2>2. ASSUME NEW i \in recent PROVE again(i).id = i /\ i \in touched
    OBVIOUS
  <2> HIDE DEF posted, again, postings, recent, touched
  <2>3. ASSUME NEW g \in found, NEW h \in found, g.id = h.id PROVE g = h
    <3>1. CASE \E o \in postings : g = posted(o)
      <4>1. PICK o \in postings : g = posted(o)
        BY <3>1
      <4>2. PICK p \in postings : h = posted(p)
        BY <2>1, <2>2, <2>3, <4>1
      <4>3. o = p
        BY <1>5, <2>1, <2>3, <4>1, <4>2
      <4> QED
        BY <4>1, <4>2, <4>3
    <3>2. CASE \E i \in recent : g = again(i)
      <4>1. PICK i \in recent : g = again(i)
        BY <3>2
      <4>2. PICK j \in recent : h = again(j)
        BY <2>1, <2>2, <2>3, <4>1
      <4>3. i = j
        BY <2>2, <2>3, <4>1, <4>2
      <4> QED
        BY <4>1, <4>2, <4>3
    <3> QED
      BY <2>3, <3>1, <3>2
  <2> QED
    BY <2>3
<1>7. \A h \in found : h.id \in DOMAIN now /\ h.score \in Int
  <2>1. ASSUME NEW o \in postings PROVE posted(o).id \in DOMAIN now /\ posted(o).score \in Int
    BY DEF RanksBy
  <2>2. ASSUME NEW i \in recent PROVE again(i).id \in DOMAIN now /\ again(i).score \in Int
    BY DEF RanksBy
  <2> HIDE DEF posted, again, postings, recent, touched
  <2> QED
    BY <2>1, <2>2
<1> HIDE DEF found
<1>8. ASSUME NEW h \in kept, NEW hit, hit = HitOf(h.id, now[h.id], h.score, req)
      PROVE  GoodHit(hit, now, req, filter) /\ hit.id = h.id
  <2>1. PICK i, score, attrs, proj : /\ i = h.id /\ score = h.score /\ attrs = now[i]
                                     /\ proj = Project(req.include, attrs)
    OBVIOUS
  <2>2. hit = [id |-> i, score |-> score, attrs |-> proj]
    BY <1>8, <2>1 DEF HitOf
  <2>3. hit.id = i /\ hit.score = score /\ hit.attrs = proj
    BY <2>2
  <2>4. i \in DOMAIN now /\ score \in Int /\ Matches(filter, attrs, schema.fts)
    BY <1>7, <2>1
  <2> QED
    BY <2>1, <2>3, <2>4 DEF GoodHit
<1>9. kept \subseteq found
  OBVIOUS
<1> HIDE DEF kept
<1>10. OfDocs(hits, now, req, filter)
  <2>1. \A hit \in hits : GoodHit(hit, now, req, filter)
    BY <1>8
  <2>2. ASSUME NEW a \in hits, NEW b \in hits, a.id = b.id PROVE a = b
    <3>1. PICK g \in kept : a = HitOf(g.id, now[g.id], g.score, req)
      OBVIOUS
    <3>2. PICK h \in kept : b = HitOf(h.id, now[h.id], h.score, req)
      OBVIOUS
    <3>3. g = h
      BY <1>6, <1>8, <1>9, <2>2, <3>1, <3>2
    <3> QED
      BY <3>1, <3>2, <3>3
  <2> HIDE DEF hits
  <2> QED
    BY <2>1, <2>2 DEF OfDocs
<1> HIDE DEF hits
<1>11. PICK n, q, all : n = req.top_k /\ all = hits /\ q = Best(all, n) /\ n \in Nat
  BY RequestsAssumption
<1>12. Listed(q, now, req, filter)
  BY <1>3, <1>10, <1>11, BestListed
<1>13. answer.hits = q
  BY <1>2, <1>11, AnswerHits
<1> QED
  BY <1>1, <1>12, <1>13

\* A value of an attribute is one that may be stored, if there is one.
LEMMA ValueStorable ==
    ASSUME NEW attrs, DocFits(attrs, schema), NEW a, NEW v, v = ValueAt(attrs, a), v.type # "null"
    PROVE  a \in DOMAIN attrs /\ v = attrs[a] /\ v \in StorableValues
<1>1. a \in DOMAIN attrs /\ v = attrs[a]
  BY DEF ValueAt, NullValue, TypedValue
<1>2. CASE a = "vector"
  BY <1>1, <1>2 DEF DocFits
<1>3. CASE a # "vector"
  <2>1. ~IsNull(attrs[a])
    BY <1>1 DEF IsNull
  <2> QED
    BY <1>1, <1>3, <2>1 DEF DocFits, TypedAs
<1> QED
  BY <1>1, <1>2, <1>3

LEMMA SparseScored ==
    ASSUME NEW index, NEW n, Weighs(index, n), NEW v, v.items \in Seq(Int)
    PROVE  \A o \in DOMAIN SparseScores(index, v) : o \in 1..n /\ SparseScores(index, v)[o] \in Int
<1> DEFINE dims == {d \in DOMAIN v.items \cap DOMAIN index : v.items[d] # 0}
           share(d, o) ==
               IF d \in dims /\ o \in DOMAIN index[d] THEN v.items[d] * index[d][o] ELSE 0
           shares(o) == [d \in DOMAIN v.items |-> share(d, o)]
           total(o) == SumTo(shares(o), Len(v.items))
           scored == {o \in UNION {DOMAIN index[d] : d \in dims} : total(o) # 0}
<1>1. SparseScores(index, v) = [o \in scored |-> total(o)]
  BY Zenon DEF SparseScores
<1>2. ASSUME NEW o \in scored PROVE o \in 1..n
  BY <1>2 DEF Weighs
<1>3. PICK items, m : items = v.items /\ items \in Seq(Int) /\ m = Len(items) /\ m \in Nat /\ DOMAIN items = 1..m
  OBVIOUS
<1>4. ASSUME NEW o PROVE total(o) \in Int
  <2>1. ASSUME NEW d \in 1..m PROVE share(d, o) \in Int
    <3>1. CASE d \in dims /\ o \in DOMAIN index[d]
      <4>1. PICK x, y : x = v.items[d] /\ y = index[d][o] /\ x \in Int /\ y \in Int
        BY <1>3, <3>1 DEF Weighs
      <4>2. x * y \in Int
        BY <4>1
      <4> QED
        BY <3>1, <4>1, <4>2
    <3>2. CASE ~(d \in dims /\ o \in DOMAIN index[d])
      BY <3>2
    <3> QED
      BY <3>1, <3>2
  <2> HIDE DEF share
  <2>2. PICK f : f = [d \in 1..m |-> share(d, o)]
    OBVIOUS
  <2>3. f = shares(o) /\ \A d \in 1..m : f[d] \in Int
    BY <1>3, <2>1, <2>2
  <2>4. SumTo(f, m) \in Int
    BY <1>3, <2>3, SumIsInt
  <2> HIDE DEF shares
  <2> QED
    BY <1>3, <2>3, <2>4
<1> HIDE DEF total, scored
<1> QED
  BY <1>1, <1>2, <1>4

LEMMA SparseHitsListed ==
    ASSUME NEW req \in Requests, req.sparse # <<>>, NEW filter,
           NEW shard, NEW records, NEW now, Shard(shard, records, now),
           AllFit(now, schema), IsMap(now)
    PROVE  Listed(SparseHits(shard, records, req, filter).hits, now, req, filter)
<1>1. PICK answer, a, v : /\ answer = SparseHits(shard, records, req, filter)
                          /\ a = req.sparse.attribute /\ v = req.sparse.vector
  OBVIOUS
<1> DEFINE rescore(attrs) == IF ValueAt(attrs, a).type = "{}f16" THEN SparseDot(attrs[a], v) ELSE 0
           rescored == [i \in DOMAIN now |-> rescore(now[i])]
<1>2. PICK scores : scores = SparseScores(shard.index.sparse[a], v)
  OBVIOUS
<1>3. now = Docs!Materialize(shard.segment \o records) /\ AllFit(now, schema)
  BY DEF Shard
<1>4. answer = IF ~shard.indexed \/ a \notin DOMAIN shard.index.sparse THEN Failure
               ELSE RankedFrom(shard, records, now, req, filter, scores, rescored)
  BY <1>1, <1>2, <1>3, Zenon DEF SparseHits
<1>5. v.items \in Seq(Int)
  BY <1>1, RequestsAssumption
<1>6. ASSUME NEW i \in DOMAIN now PROVE rescore(now[i]) \in Int
  <2>1. PICK attrs, w : attrs = now[i] /\ w = ValueAt(attrs, a) /\ DocFits(attrs, schema)
    BY <1>3 DEF AllFit
  <2>2. CASE w.type = "{}f16"
    <3>1. w = attrs[a] /\ w \in StorableValues
      BY <2>1, <2>2, ValueStorable
    <3>2. rescore(now[i]) = SparseDot(w, v)
      BY <2>1, <2>2, <3>1, Zenon
    <3>3. PICK x, y : x = w.items /\ y = v.items /\ x \in Seq(Int) /\ y \in Seq(Int)
      BY <1>5, <3>1, ValuesAssumption DEF Numbered
    <3>4. Dot(x, y) \in Int
      BY <3>3, DotIsInt
    <3>5. SparseDot(w, v) \in Int
      BY <3>3, <3>4 DEF SparseDot
    <3> QED
      BY <3>2, <3>5
  <2>3. CASE w.type # "{}f16"
    <3>1. rescore(now[i]) = 0
      BY <2>1, <2>3, Zenon
    <3> HIDE DEF rescore
    <3> QED
      BY <3>1
  <2> QED
    BY <2>2, <2>3
<1> HIDE DEF rescore
<1>7. \A i \in DOMAIN now : rescored[i] \in Int
  BY <1>6
<1>8. PICK r : r = rescored
  OBVIOUS
<1> HIDE DEF rescored
<1>9. CASE ~(~shard.indexed \/ a \notin DOMAIN shard.index.sparse)
  <2>1. PICK index, n : index = shard.index.sparse[a] /\ n = Len(shard.segment) /\ Weighs(index, n)
    BY <1>9 DEF Shard, ShardSound
  <2>2. \A o \in DOMAIN scores : o \in 1..n /\ scores[o] \in Int
    BY <1>2, <1>5, <2>1, SparseScored
  <2>3. RanksBy(scores, r, shard.segment, now)
    BY <1>7, <1>8, <2>1, <2>2 DEF RanksBy
  <2>4. Listed(RankedFrom(shard, records, now, req, filter, scores, r).hits, now, req, filter)
    BY <2>3, RankedListed
  <2> QED
    BY <1>1, <1>4, <1>8, <1>9, <2>4
<1>10. CASE ~shard.indexed \/ a \notin DOMAIN shard.index.sparse
  BY <1>1, <1>4, <1>10, FailureListed
<1> QED
  BY <1>9, <1>10

LEMMA TermsSum ==
    ASSUME NEW terms, IsSequence(terms), NEW shares, \A k \in 1..Len(terms) : shares[k] \in Int
    PROVE  SumOfTerms(terms, shares) \in Int
<1>1. PICK n : n = Len(terms) /\ n \in Nat /\ DOMAIN terms = 1..n
  BY SequenceOf DEF IsSequence
<1> DEFINE once == [k \in 1..n |-> IF \E j \in 1..k - 1 : terms[j] = terms[k] THEN 0 ELSE shares[k]]
<1>2. SumOfTerms(terms, shares) = SumTo(once, n)
  BY <1>1 DEF SumOfTerms
<1>3. \A k \in 1..n : once[k] \in Int
  BY <1>1
<1>4. PICK f : f = once
  OBVIOUS
<1> HIDE DEF once
<1>5. SumTo(f, n) \in Int
  BY <1>1, <1>3, <1>4, SumIsInt
<1> QED
  BY <1>2, <1>4, <1>5

\* How often a token stands in a text is a number.
LEMMA CountsIn ==
    ASSUME NEW d, IsSequence(d), NEW t
    PROVE  Cardinality({k \in DOMAIN d : d[k] = t}) \in Nat
<1>1. PICK n : n = Len(d) /\ n \in Nat /\ DOMAIN d = 1..n
  BY SequenceOf DEF IsSequence
<1>2. IsFiniteSet(1..n)
  BY <1>1, FS_Interval
<1>3. PICK S : S = {k \in DOMAIN d : d[k] = t} /\ S \subseteq 1..n
  BY <1>1
<1>4. IsFiniteSet(S)
  BY <1>2, <1>3, FS_Subset
<1>5. Cardinality(S) \in Nat
  BY <1>4, FS_CardinalityType
<1> QED
  BY <1>3, <1>5

\* The postings of a term index are of the first n documents, and they are counted.
Counted(index, n) ==
    \A t : /\ Cardinality(DOMAIN TermPostings(index, t)) \in Nat
           /\ \A o \in DOMAIN TermPostings(index, t) :
                 o \in 1..n /\ Cardinality(TermPostings(index, t)[o]) \in Nat

LEMMA PostsCounted ==
    ASSUME NEW docs, IsSequence(docs), NEW a, Stored(docs, a), NEW tok, NEW index, Posts(index, docs, a, tok),
           NEW n, n = Len(docs)
    PROVE  Counted(index, n)
<1>1. n \in Nat
  BY DEF IsSequence
<1> SUFFICES ASSUME NEW t
             PROVE  /\ Cardinality(DOMAIN TermPostings(index, t)) \in Nat
                    /\ \A o \in DOMAIN TermPostings(index, t) :
                          o \in 1..n /\ Cardinality(TermPostings(index, t)[o]) \in Nat
  BY DEF Counted
<1>2. ASSUME NEW o \in DOMAIN TermPostings(index, t)
      PROVE  o \in 1..n /\ Cardinality(TermPostings(index, t)[o]) \in Nat
  <2>1. PICK d : HasTokens(docs, a, tok, o, d) /\ t \in ToSet(d)
    BY <1>2 DEF Posts
  <2>2. PICK v : v = docs[o].attrs[a] /\ HasText(v) /\ d = TokensOf(tok, v) /\ o \in 1..n
                 /\ a \in DOMAIN docs[o].attrs
    BY <2>1 DEF HasTokens
  <2>3. v \in StorableValues
    <3>1. ~IsNull(v)
      BY <2>2 DEF HasText, IsNull
    <3> QED
      BY <2>2, <3>1 DEF Stored
  <2>4. IsSequence(d)
    BY <2>2, <2>3, TokenizedValue
  <2>5. TermPostings(index, t)[o] = {k \in DOMAIN d : d[k] = t}
    BY <2>1 DEF Posts
  <2>6. Cardinality({k \in DOMAIN d : d[k] = t}) \in Nat
    BY <2>4, CountsIn
  <2> QED
    BY ONLY <2>2, <2>5, <2>6
<1>3. IsFiniteSet(DOMAIN TermPostings(index, t))
  <2>1. IsFiniteSet(1..n) /\ DOMAIN TermPostings(index, t) \subseteq 1..n
    BY <1>1, <1>2, FS_Interval
  <2> QED
    BY <2>1, FS_Subset
<1>4. PICK S : S = DOMAIN TermPostings(index, t) /\ Cardinality(S) \in Nat
  BY <1>3, FS_CardinalityType
<1> QED
  BY <1>2, <1>4

\* What a query term adds to a score is a number.
ScoresAreNumbers == \A f, d, n, l \in Nat : Relevance(f, d, n, l) \in Int

LEMMA TextsScored ==
    ASSUME ScoresAreNumbers, NEW index, NEW n \in Nat, Counted(index, n), Measures(index, n), index.docs = n,
           NEW text \in DOMAIN Words
    PROVE  \A o \in DOMAIN TextScores(index, text) : o \in 1..n /\ TextScores(index, text)[o] \in Int
<1>1. PICK terms : terms = Query(index, text) /\ IsSequence(terms)
  BY TokenizedText DEF Query
<1> DEFINE posted(k) == TermPostings(index, terms[k])
           found == UNION {DOMAIN posted(k) : k \in DOMAIN terms}
           share(k, o) ==
               IF o \in DOMAIN posted(k)
               THEN Relevance(Cardinality(posted(k)[o]), Cardinality(DOMAIN posted(k)),
                              index.docs, index.lengths[o])
               ELSE 0
           shares(o) == [k \in DOMAIN terms |-> share(k, o)]
           total(o) == SumOfTerms(terms, shares(o))
<1>2. TextScores(index, text) = [o \in found |-> total(o)]
  BY <1>1, Zenon DEF TextScores
<1>3. ASSUME NEW o \in found PROVE o \in 1..n
  BY <1>3 DEF Counted
<1>4. PICK m : m = Len(terms) /\ m \in Nat /\ DOMAIN terms = 1..m
  BY <1>1, SequenceOf DEF IsSequence
<1>5. ASSUME NEW o \in 1..n PROVE total(o) \in Int
  <2>1. ASSUME NEW k \in 1..m PROVE share(k, o) \in Int
    <3>1. PICK postings : postings = posted(k)
      OBVIOUS
    <3>2. CASE o \in DOMAIN postings
      <4>1. PICK f, d, l : /\ f = Cardinality(postings[o]) /\ d = Cardinality(DOMAIN postings)
                           /\ l = index.lengths[o] /\ f \in Nat /\ d \in Nat /\ l \in Nat
        BY <1>5, <3>1, <3>2 DEF Counted, Measures
      <4>2. Relevance(f, d, n, l) \in Int
        BY <4>1 DEF ScoresAreNumbers
      <4>3. share(k, o) = Relevance(f, d, n, l)
        BY <3>1, <3>2, <4>1
      <4> HIDE DEF share
      <4> QED
        BY <4>2, <4>3
    <3>3. CASE o \notin DOMAIN postings
      <4>1. share(k, o) = 0
        BY <3>1, <3>3
      <4> HIDE DEF share
      <4> QED
        BY <4>1
    <3> QED
      BY <3>2, <3>3
  <2> HIDE DEF share
  <2>2. PICK f : f = [k \in 1..m |-> share(k, o)]
    OBVIOUS
  <2>3. f = shares(o) /\ \A k \in 1..m : f[k] \in Int
    BY <1>4, <2>1, <2>2
  <2>4. SumOfTerms(terms, f) \in Int
    BY <1>1, <1>4, <2>3, TermsSum
  <2> HIDE DEF shares
  <2> QED
    BY <2>3, <2>4
<1> HIDE DEF total, found
<1> QED
  BY <1>2, <1>3, <1>5

LEMMA TextScored ==
    ASSUME ScoresAreNumbers, NEW index, NEW n \in Nat, Counted(index, n), index.docs = n,
           NEW text \in DOMAIN Words, NEW v \in StorableValues, HasText(v)
    PROVE  TextScore(index, v, text) \in Int
<1>1. PICK terms : terms = Query(index, text) /\ IsSequence(terms)
  BY TokenizedText DEF Query
<1>2. PICK tokens : tokens = TokensOf(index.tokenizer, v) /\ IsSequence(tokens)
  BY TokenizedValue
<1> DEFINE frequency(t) == Cardinality({k \in DOMAIN tokens : tokens[k] = t})
           share(t) == IF frequency(t) = 0 THEN 0
                       ELSE Relevance(frequency(t), Cardinality(DOMAIN TermPostings(index, t)),
                                      index.docs, Len(tokens))
           shares == [k \in DOMAIN terms |-> share(terms[k])]
<1>3. TextScore(index, v, text) = SumOfTerms(terms, shares)
  BY <1>1, <1>2, Zenon DEF TextScore
<1>4. ASSUME NEW t PROVE share(t) \in Int
  <2>1. PICK f, d, l : /\ f = frequency(t) /\ d = Cardinality(DOMAIN TermPostings(index, t))
                       /\ l = Len(tokens)
    OBVIOUS
  <2>2. f \in Nat
    BY <1>2, <2>1, CountsIn
  <2>3. d \in Nat /\ l \in Nat
    BY <1>2, <2>1 DEF Counted, IsSequence
  <2>4. Relevance(f, d, n, l) \in Int
    BY <2>2, <2>3 DEF ScoresAreNumbers
  <2> HIDE DEF frequency
  <2>5. share(t) = IF f = 0 THEN 0 ELSE Relevance(f, d, n, l)
    BY <2>1
  <2> HIDE DEF share
  <2> QED
    BY <2>4, <2>5
<1> HIDE DEF share
<1>5. PICK f : f = shares
  OBVIOUS
<1>6. \A k \in 1..Len(terms) : f[k] \in Int
  <2>1. DOMAIN terms = 1..Len(terms)
    BY <1>1, SequenceOf
  <2> QED
    BY <1>4, <1>5, <2>1
<1> HIDE DEF shares
<1>7. SumOfTerms(terms, f) \in Int
  BY <1>1, <1>6, TermsSum
<1> QED
  BY <1>3, <1>5, <1>7

LEMMA TextHitsListed ==
    ASSUME ScoresAreNumbers, NEW req \in Requests, req.text # <<>>, NEW filter,
           NEW shard, NEW records, NEW now, Shard(shard, records, now),
           AllFit(now, schema), IsMap(now)
    PROVE  Listed(TextHits(shard, records, req, filter).hits, now, req, filter)
<1>1. PICK answer, a, index, text : /\ answer = TextHits(shard, records, req, filter)
                                    /\ a = req.text.attribute /\ index = shard.index.fts[a]
                                    /\ text = req.text.query
  OBVIOUS
<1> DEFINE rescore(attrs) == IF HasText(ValueAt(attrs, a)) THEN TextScore(index, attrs[a], text) ELSE 0
           rescored == [i \in DOMAIN now |-> rescore(now[i])]
<1>2. PICK scores : scores = TextScores(index, text)
  OBVIOUS
<1>3. now = Docs!Materialize(shard.segment \o records) /\ AllFit(now, schema)
  BY DEF Shard
<1>4. answer = IF ~shard.indexed \/ a \notin DOMAIN shard.index.fts THEN Failure
               ELSE RankedFrom(shard, records, now, req, filter, scores, rescored)
  BY <1>1, <1>2, <1>3, Zenon DEF TextHits
<1>5. text \in DOMAIN Words
  BY <1>1, RequestsAssumption
<1>6. CASE ~(~shard.indexed \/ a \notin DOMAIN shard.index.fts)
  <2>1. PICK docs, n : docs = shard.segment /\ n = Len(docs) /\ IsSequence(docs) /\ n \in Nat
    BY DEF Shard, InIdOrder, IsSequence
  <2>2. PICK tok : Stored(docs, a) /\ Posts(index, docs, a, tok)
    BY <1>1, <1>6, <2>1 DEF Shard, TextIndexed
  <2>3. Counted(index, n) /\ index.docs = n
    <3>1. Counted(index, n)
      BY <2>1, <2>2, PostsCounted
    <3> QED
      BY <2>1, <2>2, <3>1 DEF Posts
  <2>4. Measures(index, n)
    BY <1>1, <1>6, <2>1 DEF Shard, ShardSound
  <2>5. \A o \in DOMAIN scores : o \in 1..n /\ scores[o] \in Int
    BY <1>2, <1>5, <2>1, <2>3, <2>4, TextsScored
  <2>6. ASSUME NEW i \in DOMAIN now PROVE rescore(now[i]) \in Int
    <3>1. PICK attrs, w : attrs = now[i] /\ w = ValueAt(attrs, a) /\ DocFits(attrs, schema)
      BY <1>3 DEF AllFit
    <3>2. CASE HasText(w)
      <4>1. w = attrs[a] /\ w \in StorableValues
        <5>1. w.type # "null"
          BY <3>2 DEF HasText
        <5> QED
          BY <3>1, <5>1, ValueStorable
      <4>2. TextScore(index, w, text) \in Int
        BY <1>5, <2>1, <2>3, <3>2, <4>1, TextScored
      <4>3. rescore(now[i]) = TextScore(index, w, text)
        BY <3>1, <3>2, <4>1, Zenon
      <4> HIDE DEF rescore
      <4> QED
        BY <4>2, <4>3
    <3>3. CASE ~HasText(w)
      <4>1. rescore(now[i]) = 0
        BY <3>1, <3>3, Zenon
      <4> HIDE DEF rescore
      <4> QED
        BY <4>1
    <3> QED
      BY <3>2, <3>3
  <2> HIDE DEF rescore
  <2>7. \A i \in DOMAIN now : rescored[i] \in Int
    BY <2>6
  <2>8. PICK r : r = rescored
    OBVIOUS
  <2> HIDE DEF rescored
  <2>9. RanksBy(scores, r, shard.segment, now)
    BY <2>1, <2>5, <2>7, <2>8 DEF RanksBy
  <2>10. Listed(RankedFrom(shard, records, now, req, filter, scores, r).hits, now, req, filter)
    BY <2>9, RankedListed
  <2> QED
    BY <1>1, <1>4, <1>6, <2>8, <2>10
<1>7. CASE ~shard.indexed \/ a \notin DOMAIN shard.index.fts
  <2> HIDE DEF rescored
  <2> QED
    BY <1>1, <1>4, <1>7, FailureListed
<1> QED
  BY <1>6, <1>7

---------------------------------------------------------------------------
\* What the shards find, and what is merged of it.

LEMMA LiveIsSound ==
    ASSUME LiveInv
    PROVE  SoundSchema(schema) /\ AllFit(live, schema) /\ IsMap(live) /\ Materialized = live
  BY DEF LiveInv, IndexesInv, AnswersInv, ShardsInv, SchemaInv

\* Where there are shards, hits of documents of one of them.
HashedTo(hits, n) ==
    Len(Resident) > 1 => \A k \in 1..Len(hits) : ShardOf(hits[k].id, ShardCount(schema)) = n

LEMMA ShardHitsListed ==
    ASSUME ScoresAreNumbers, LiveInv, NEW req \in Requests, NEW filter, filter = NoFilter \/ Postfix(filter),
           NEW n \in DOMAIN Resident,
           NEW answer, answer = ShardHits(Resident[n], ShardTail(n), req, filter)
    PROVE  Listed(answer.hits, live, req, filter) /\ HashedTo(answer.hits, n)
<1>1. SoundSchema(schema) /\ AllFit(live, schema) /\ IsMap(live)
  BY LiveIsSound
<1>2. PICK shard, records, now : /\ shard = Resident[n] /\ records = ShardTail(n)
                                 /\ now = Docs!Materialize(shard.segment \o records)
  OBVIOUS
<1>3. Shard(shard, records, now) /\ PartSeen(now, n)
  BY <1>2, ShardSees
<1>4. Among(now, live)
  BY <1>3 DEF Shard
<1>5. AllFit(now, schema) /\ IsMap(now)
  BY <1>1, <1>4, WithinFits
<1>6. PICK sel : sel = SelectionOf(shard, filter)
  OBVIOUS
<1>7. answer = CASE req.sparse # <<>> -> SparseHits(shard, records, req, filter)
                 [] req.sparse = <<>> /\ req.text # <<>> -> TextHits(shard, records, req, filter)
                 [] OTHER -> VectorHits(shard, records, req, filter, sel)
  BY <1>2, <1>6, Zenon DEF ShardHits
<1>8. Listed(answer.hits, now, req, filter)
  <2>1. CASE req.sparse # <<>>
    <3>1. Listed(SparseHits(shard, records, req, filter).hits, now, req, filter)
      BY <1>3, <1>5, <2>1, SparseHitsListed
    <3>2. answer = SparseHits(shard, records, req, filter)
      BY <1>7, <2>1
    <3> QED
      BY <3>1, <3>2
  <2>2. CASE req.sparse = <<>> /\ req.text # <<>>
    <3>1. Listed(TextHits(shard, records, req, filter).hits, now, req, filter)
      BY <1>3, <1>5, <2>2, TextHitsListed
    <3>2. answer = TextHits(shard, records, req, filter)
      BY <1>7, <2>2
    <3> QED
      BY <3>1, <3>2
  <2>3. CASE req.sparse = <<>> /\ req.text = <<>>
    <3>1. Listed(VectorHits(shard, records, req, filter, sel).hits, now, req, filter)
      BY <1>1, <1>3, <1>5, <1>6, VectorHitsListed
    <3>2. answer = VectorHits(shard, records, req, filter, sel)
      BY <1>7, <2>3
    <3> QED
      BY <3>1, <3>2
  <2> QED
    BY <2>1, <2>2, <2>3
<1>9. PICK q : q = answer.hits
  OBVIOUS
<1>10. Listed(q, live, req, filter)
  BY <1>4, <1>8, <1>9, ListedWithin
<1>11. \A k \in 1..Len(q) : q[k].id \in DOMAIN now
  BY <1>8, <1>9 DEF Listed, GoodHit
<1>12. HashedTo(q, n)
  BY <1>3, <1>11, PartWithin DEF HashedTo, PartSeen
<1> QED
  BY <1>9, <1>10, <1>12

\* The first n of some numbered hits, in the order `Merged` puts them in.
FirstPairs(first, hits, n) ==
    first = Truncated(SortedBy(hits,
                LAMBDA a, b : HitBefore(a[1], b[1]) \/ (a[1] = b[1] /\ a[2] < b[2])), n)

\* Some numbered hits, each of a document of its own.
NumberedHits(pairs, D, req, filter) ==
    /\ \A x \in pairs : GoodHit(x[1], D, req, filter) /\ x[2] \in Nat
    /\ \A x, y \in pairs : x[1].id = y[1].id => x = y

PairOrder(Q, pairs) == \A x, y \in pairs : <<x, y>> \in Q <=> HitBefore(x[1], y[1])

\* Some numbered hits in the order `Merged` puts them in.
SortedPairs(s, pairs) ==
    s = SortedBy(pairs, LAMBDA a, b : HitBefore(a[1], b[1]) \/ (a[1] = b[1] /\ a[2] < b[2]))

LEMMA PairsOrdered ==
    ASSUME NEW D, AllFit(D, schema), IsMap(D), NEW req, NEW filter,
           NEW hits, NumberedHits(hits, D, req, filter), NEW R, PairOrder(R, hits),
           NEW s, SortedPairs(s, hits)
    PROVE  StrictOrder(R, hits) /\ IsFiniteSet(hits) /\ Sorting(s, R, hits)
<1> DEFINE before(x, y) == HitBefore(x[1], y[1]) \/ (x[1] = y[1] /\ x[2] < y[2])
           f == [x \in hits |-> x[1].score]
           g == [x \in hits |-> x[1].id.items[1]]
<1>1. ASSUME NEW x \in hits, NEW y \in hits
      PROVE  /\ f[x] \in Int /\ g[x] \in Int
             /\ before(x, y) <=> HitBefore(x[1], y[1])
             /\ before(x, y) <=> f[x] > f[y] \/ (f[x] = f[y] /\ g[x] < g[y])
             /\ g[x] = g[y] => x = y
  <2>1. PICK a, b, m : a = x[1] /\ b = y[1] /\ m = x[2] /\ m \in Nat
    BY DEF NumberedHits
  <2>2. /\ a.score \in Int /\ a.id.items[1] \in Int
        /\ HitBefore(a, b) <=> \/ a.score > b.score
                               \/ a.score = b.score /\ a.id.items[1] < b.id.items[1]
        /\ a.id = b.id <=> a.id.items[1] = b.id.items[1]
    BY <2>1, HitKeys DEF NumberedHits
  <2>3. a.id = b.id => x = y
    BY <2>1 DEF NumberedHits
  <2>4. ~(m < m)
    BY <2>1
  <2>5. before(x, y) <=> HitBefore(a, b)
    BY <2>1, <2>3, <2>4
  <2>6. f[x] = a.score /\ f[y] = b.score /\ g[x] = a.id.items[1] /\ g[y] = b.id.items[1]
    BY <2>1
  <2> HIDE DEF before, f, g
  <2> QED
    BY <2>1, <2>2, <2>3, <2>5, <2>6
<1>2. IsFiniteSet(hits)
  <2> DEFINE i == [x \in hits |-> x[1].id]
  <2>1. i \in [hits -> DOMAIN D]
    BY DEF GoodHit, NumberedHits
  <2>2. \A x, y \in hits : i[x] = i[y] => x = y
    BY DEF NumberedHits
  <2> HIDE DEF i
  <2>3. i \in Injection(hits, DOMAIN D)
    BY <2>1, <2>2, Fun_IsInj
  <2> QED
    BY <2>3, FS_Injection DEF IsMap
<1>3. s = SortedBy(hits, before)
  BY DEF SortedPairs
<1>4. \A x, y \in hits : <<x, y>> \in R <=> before(x, y)
  <2> HIDE DEF before, f, g
  <2> QED
    BY <1>1 DEF PairOrder
<1>5. Sorting(s, R, hits)
  <2> DEFINE below(x) == {y \in hits : before(y, x)}
             ranked(k) == CHOOSE x \in hits : Cardinality(below(x)) = k - 1
  <2>1. \A x \in hits : below(x) = Below(R, hits, x)
    BY <1>4 DEF Below
  <2>2. s = [k \in 1..Cardinality(hits) |-> ranked(k)]
    BY <1>3, Zenon DEF SortedBy
  <2> HIDE DEF below
  <2>3. ASSUME NEW k
        PROVE  ranked(k) = CHOOSE x \in hits : Cardinality(Below(R, hits, x)) = k - 1
    BY <2>1
  <2> HIDE DEF ranked
  <2> QED
    BY <2>2, <2>3 DEF Sorting
<1> HIDE DEF f, g, before
<1>6. StrictOrder(R, hits)
  <2>1. \A x \in hits : f[x] \in Int /\ g[x] \in Int
    BY <1>1
  <2>2. \A x, y \in hits : <<x, y>> \in R <=> f[x] > f[y] \/ (f[x] = f[y] /\ g[x] < g[y])
    BY <1>1, <1>4
  <2>3. \A x, y \in hits : f[x] = f[y] /\ g[x] = g[y] => x = y
    BY <1>1
  <2> QED
    BY ONLY <2>1, <2>2, <2>3, TwoKeys
<1> QED
  BY <1>2, <1>5, <1>6

LEMMA PairsFirsts ==
    ASSUME NEW D, AllFit(D, schema), IsMap(D), NEW req, NEW filter,
           NEW hits, NumberedHits(hits, D, req, filter), NEW R, PairOrder(R, hits),
           NEW n \in Nat, NEW first, FirstPairs(first, hits, n)
    PROVE  Firsts(first, R, hits, n)
<1>1. PICK s : SortedPairs(s, hits) /\ first = Truncated(s, n)
  BY DEF FirstPairs, SortedPairs
<1>2. StrictOrder(R, hits) /\ IsFiniteSet(hits) /\ Sorting(s, R, hits)
  BY <1>1, PairsOrdered
<1> QED
  BY <1>1, <1>2, FirstsSorted

\* The first of some numbered hits, each of a document of its own.
LEMMA PairsListed ==
    ASSUME NEW D, AllFit(D, schema), IsMap(D), NEW req, NEW filter,
           NEW hits, NumberedHits(hits, D, req, filter),
           NEW n \in Nat,
           NEW first, FirstPairs(first, hits, n),
           NEW q, q = [k \in DOMAIN first |-> first[k][1]]
    PROVE  Listed(q, D, req, filter)
<1>1. PICK R : R = {p \in hits \X hits : HitBefore(p[1][1], p[2][1])}
  OBVIOUS
<1>2. PairOrder(R, hits)
  BY <1>1 DEF PairOrder
<1>3. PICK s : SortedPairs(s, hits) /\ first = Truncated(s, n)
  BY DEF FirstPairs, SortedPairs
<1>4. StrictOrder(R, hits) /\ IsFiniteSet(hits) /\ Sorting(s, R, hits)
  BY <1>2, <1>3, PairsOrdered
<1>5. /\ IsSequence(s)
      /\ \A k \in 1..Len(s) : s[k] \in hits
      /\ \A j, k \in 1..Len(s) : j < k => <<s[j], s[k]>> \in R
  BY <1>4, Sorted
<1>6. IsSequence(first) /\ Len(first) <= Len(s) /\ \A k \in 1..Len(first) : first[k] = s[k]
  BY <1>3, <1>5, FirstElements
<1>7. PICK l : l = Len(first) /\ l \in Nat /\ DOMAIN first = 1..l /\ \A k \in 1..l : k \in 1..Len(s)
  BY <1>5, <1>6, SequenceOf DEF IsSequence
<1>8. /\ \A k \in 1..l : first[k] \in hits
      /\ \A j, k \in 1..l : j < k => <<first[j], first[k]>> \in R
  BY <1>5, <1>6, <1>7
<1>9. q = [k \in 1..l |-> q[k]] /\ \A k \in 1..l : q[k] = first[k][1]
  BY <1>7
<1>10. IsSequence(q) /\ Len(q) = l
  BY <1>7, <1>9, MadeSequence
<1>11. ASSUME NEW j \in 1..l, NEW k \in 1..l, q[j].id = q[k].id
       PROVE  j = k
  <2>1. first[j] = first[k]
    BY <1>8, <1>9, <1>11 DEF NumberedHits
  <2>2. ~(j < k) /\ ~(k < j)
    BY <1>4, <1>8, <2>1 DEF StrictOrder
  <2> QED
    BY <1>7, <2>2
<1>12. \A k \in 1..l : GoodHit(q[k], D, req, filter)
  BY <1>8, <1>9 DEF NumberedHits
<1> QED
  BY <1>10, <1>11, <1>12 DEF Listed

LEMMA MergedListed ==
    ASSUME ScoresAreNumbers, LiveInv, NEW req \in Requests, NEW filter, filter = NoFilter \/ Postfix(filter)
    PROVE  Listed(Ranked(req, filter).hits, live, req, filter)
<1>1. SoundSchema(schema) /\ AllFit(live, schema) /\ IsMap(live)
  BY LiveIsSound
<1>2. PICK own : own = [n \in DOMAIN Resident |-> ShardHits(Resident[n], ShardTail(n), req, filter)]
  OBVIOUS
<1>3. ASSUME NEW n \in DOMAIN own
      PROVE  /\ n \in DOMAIN Resident
             /\ Listed(own[n].hits, live, req, filter) /\ HashedTo(own[n].hits, n)
  <2>1. n \in DOMAIN Resident
    BY <1>2
  <2>2. PICK answer : answer = ShardHits(Resident[n], ShardTail(n), req, filter) /\ answer = own[n]
    BY <1>2, <2>1
  <2>3. Listed(answer.hits, live, req, filter) /\ HashedTo(answer.hits, n)
    BY <2>1, <2>2, ShardHitsListed
  <2> QED
    BY <2>1, <2>2, <2>3
<1>4. ASSUME NEW m \in DOMAIN Resident, NEW n \in DOMAIN Resident
      PROVE  m \in Nat /\ (Len(Resident) > 1 \/ m = n)
  <2>1. IsSequence(Resident)
    <3>1. PICK shard, records, now : /\ shard = Resident[n] /\ records = ShardTail(n)
                                     /\ now = Docs!Materialize(shard.segment \o records)
      OBVIOUS
    <3> QED
      BY <3>1, ShardSees
  <2>2. PICK l : l = Len(Resident) /\ l \in Nat /\ DOMAIN Resident = 1..l
    BY <2>1, SequenceOf DEF IsSequence
  <2> QED
    BY <2>2
<1> DEFINE pairs(n) == {<<h, n>> : h \in ToSet(own[n].hits)}
           hits == UNION {pairs(n) : n \in DOMAIN own}
           sorted == SortedBy(hits, LAMBDA a, b : HitBefore(a[1], b[1]) \/ (a[1] = b[1] /\ a[2] < b[2]))
           first == Truncated(sorted, req.top_k)
<1>5. ASSUME NEW x \in hits
      PROVE  \E n \in DOMAIN own : \E k \in 1..Len(own[n].hits) : x[2] = n /\ x[1] = own[n].hits[k] /\ x = <<x[1], x[2]>>
  <2>1. PICK n \in DOMAIN own : x \in pairs(n)
    OBVIOUS
  <2>2. PICK q : q = own[n].hits /\ DOMAIN q = 1..Len(q)
    BY <1>3, SequenceOf DEF Listed
  <2>3. PICK k \in 1..Len(q) : x = <<q[k], n>>
    BY <2>1, <2>2 DEF ToSet
  <2> QED
    BY <2>2, <2>3
<1>6. \A x \in hits : GoodHit(x[1], live, req, filter) /\ x[2] \in Nat
  <2> SUFFICES ASSUME NEW x \in hits PROVE GoodHit(x[1], live, req, filter) /\ x[2] \in Nat
    OBVIOUS
  <2>1. PICK n \in DOMAIN own : \E k \in 1..Len(own[n].hits) : x[2] = n /\ x[1] = own[n].hits[k]
    BY <1>5
  <2>2. PICK k \in 1..Len(own[n].hits) : x[2] = n /\ x[1] = own[n].hits[k]
    BY <2>1
  <2> HIDE DEF hits
  <2> QED
    BY <1>3, <1>4, <2>2 DEF Listed
<1>7. ASSUME NEW x \in hits, NEW y \in hits, x[1].id = y[1].id
      PROVE  x = y
  <2>1. PICK m \in DOMAIN own : \E k \in 1..Len(own[m].hits) : x[2] = m /\ x[1] = own[m].hits[k] /\ x = <<x[1], x[2]>>
    BY <1>5
  <2>2. PICK j \in 1..Len(own[m].hits) : x[2] = m /\ x[1] = own[m].hits[j] /\ x = <<x[1], x[2]>>
    BY <2>1
  <2>3. PICK n \in DOMAIN own : \E k \in 1..Len(own[n].hits) : y[2] = n /\ y[1] = own[n].hits[k] /\ y = <<y[1], y[2]>>
    BY <1>5
  <2>4. PICK k \in 1..Len(own[n].hits) : y[2] = n /\ y[1] = own[n].hits[k] /\ y = <<y[1], y[2]>>
    BY <2>3
  <2> HIDE DEF hits
  <2>5. own[m].hits[j].id = own[n].hits[k].id
    BY <1>7, <2>2, <2>4
  <2>6. m = n
    BY <1>3, <1>4, <2>5 DEF HashedTo
  <2>7. j = k
    BY <1>3, <2>5, <2>6 DEF Listed
  <2> QED
    BY <2>2, <2>4, <2>6, <2>7
<1>8. PICK answer : answer = Ranked(req, filter) /\ answer = Merged(own, req.top_k)
  BY <1>2 DEF Ranked
<1>9. answer = IF \E n \in DOMAIN own : ~own[n].ok THEN Failure
               ELSE Answer([k \in DOMAIN first |-> first[k][1]],
                           \E n \in DOMAIN own : own[n].indexed,
                           \A n \in DOMAIN own : own[n].prefiltered)
  BY <1>8, Zenon DEF Merged
<1>10. PICK all : all = hits
  OBVIOUS
<1> HIDE DEF hits
<1>11. PICK top : top = req.top_k /\ top \in Nat
  BY RequestsAssumption
<1>12. PICK f, q : f = first /\ q = [k \in DOMAIN f |-> f[k][1]]
  OBVIOUS
<1>13. FirstPairs(f, all, top)
  BY <1>10, <1>11, <1>12, Zenon DEF FirstPairs
<1>14. Listed(q, live, req, filter)
  <2>1. NumberedHits(all, live, req, filter)
    BY <1>6, <1>7, <1>10 DEF NumberedHits
  <2> QED
    BY ONLY <1>1, <1>11, <1>12, <1>13, <2>1, PairsListed
<1> HIDE DEF first
<1>15. answer = Failure \/ answer.hits = q
  <2>1. CASE \E n \in DOMAIN own : ~own[n].ok
    BY <1>9, <2>1, Zenon
  <2>2. CASE ~ \E n \in DOMAIN own : ~own[n].ok
    BY <1>9, <1>12, <2>2 DEF Answer
  <2> QED
    BY <2>1, <2>2
<1> QED
  BY <1>8, <1>14, <1>15, FailureListed

---------------------------------------------------------------------------
\* What is merged of the best of each part is the best of all.
LEMMA PartOfDocs ==
    ASSUME NEW D, NEW req, NEW filter, NEW hits, OfDocs(hits, D, req, filter), NEW part, part \subseteq hits
    PROVE  OfDocs(part, D, req, filter)
  BY DEF OfDocs

LEMMA MergedBest ==
    ASSUME NEW D, AllFit(D, schema), IsMap(D), NEW req, NEW filter,
           NEW S, OfDocs(S, D, req, filter), NEW N \in Nat, NEW T, Parted(S, T, N),
           NEW k \in Nat, NEW own, DOMAIN own = 1..N, \A n \in 1..N : own[n].hits = Best(T[n], k),
           NEW answer, answer = Merged(own, k), answer.ok
    PROVE  answer.hits = Best(S, k)
<1>1. PICK R : R = {p \in S \X S : HitBefore(p[1], p[2])}
  OBVIOUS
<1>2. HitOrder(R, S)
  BY <1>1 DEF HitOrder
<1>3. StrictOrder(R, S)
  BY <1>2, HitsOrdered
<1>4. PICK l : l = [n \in 1..N |-> own[n].hits]
  OBVIOUS
<1>5. FirstsOf(l, T, N, R, k)
  <2> SUFFICES ASSUME NEW n \in 1..N PROVE Firsts(l[n], R, T[n], k)
    BY DEF FirstsOf
  <2>1. PICK t, q : t = T[n] /\ q = l[n]
    OBVIOUS
  <2>2. q = Best(t, k)
    BY <1>4, <2>1
  <2>3. t \subseteq S
    BY <2>1 DEF Parted
  <2>4. OfDocs(t, D, req, filter)
    BY <2>3, PartOfDocs
  <2>5. HitOrder(R, t)
    BY <1>2, <2>3 DEF HitOrder
  <2>6. Firsts(q, R, t, k)
    BY <2>2, <2>4, <2>5, BestFirsts
  <2> QED
    BY <2>1, <2>6
<1> DEFINE pairs(n) == {<<h, n>> : h \in ToSet(own[n].hits)}
           hits == UNION {pairs(n) : n \in DOMAIN own}
           sorted == SortedBy(hits, LAMBDA a, b : HitBefore(a[1], b[1]) \/ (a[1] = b[1] /\ a[2] < b[2]))
           first == Truncated(sorted, k)
<1>6. PairsOf(hits, l, N)
  <2>1. ASSUME NEW n \in 1..N
        PROVE  \A x : x \in pairs(n) <=> \E m \in 1..Len(l[n]) : x = <<l[n][m], n>>
    <3>1. PICK q : q = l[n] /\ q = own[n].hits
      BY <1>4
    <3>2. IsSequence(q)
      BY <1>5, <3>1 DEF FirstsOf, Firsts
    <3>3. DOMAIN q = 1..Len(q)
      BY <3>2, SequenceOf
    <3>4. \A h : h \in ToSet(q) <=> \E m \in 1..Len(q) : h = q[m]
      BY <3>3 DEF ToSet
    <3> QED
      BY <3>1, <3>4
  <2>2. \A x : x \in hits <=> \E n \in 1..N : x \in pairs(n)
    OBVIOUS
  <2> HIDE DEF hits, pairs
  <2> QED
    BY <2>1, <2>2 DEF PairsOf
<1>7. answer = IF \E n \in DOMAIN own : ~own[n].ok THEN Failure
               ELSE Answer([m \in DOMAIN first |-> first[m][1]],
                           \E n \in DOMAIN own : own[n].indexed,
                           \A n \in DOMAIN own : own[n].prefiltered)
  BY Zenon DEF Merged
<1>8. PICK all : all = hits
  OBVIOUS
<1>9. PICK f, q : f = first /\ q = [m \in DOMAIN f |-> f[m][1]]
  OBVIOUS
<1>10. FirstPairs(f, all, k)
  BY <1>8, <1>9, Zenon DEF FirstPairs
<1>11. PairsOf(all, l, N)
  BY <1>6, <1>8
<1> HIDE DEF hits, pairs, sorted, first
<1>12. answer.hits = q
  <2>1. ~Failure.ok
    BY DEF Failure
  <2>2. ~ \E n \in DOMAIN own : ~own[n].ok
    BY <1>7, <2>1
  <2> QED
    BY <1>7, <1>9, <2>2 DEF Answer
<1>13. /\ \A x \in all : x[1] \in S /\ x[2] \in 1..N /\ x = <<x[1], x[2]>> /\ x[1] \in T[x[2]]
       /\ \A x, y \in all : x[1] = y[1] => x = y
  BY <1>3, <1>5, <1>11, PairsStrict
<1>14. NumberedHits(all, D, req, filter)
  BY <1>13 DEF NumberedHits, OfDocs
<1>15. PICK Q : Q = {p \in all \X all : <<p[1][1], p[2][1]>> \in R}
  OBVIOUS
<1>16. \A x, y \in all : <<x, y>> \in Q <=> <<x[1], y[1]>> \in R
  BY <1>15
<1>17. PairOrder(Q, all)
  BY <1>2, <1>13, <1>16 DEF PairOrder, HitOrder
<1>18. Firsts(f, Q, all, k)
  BY <1>10, <1>14, <1>17, PairsFirsts
<1>19. Firsts(q, R, S, k)
  BY ONLY <1>3, <1>5, <1>9, <1>11, <1>16, <1>18, FirstsMerged, N \in Nat, k \in Nat, Parted(S, T, N)
<1>20. PICK best : best = Best(S, k)
  OBVIOUS
<1>21. Firsts(best, R, S, k)
  BY <1>2, <1>20, BestFirsts
<1> QED
  BY <1>3, <1>12, <1>19, <1>20, <1>21, FirstsOnce

LEMMA FoundSame ==
    ASSUME NEW f, NEW g, NEW req, NEW filter, SameFound(f, g, filter)
    PROVE  FoundHits(f, req, filter) = FoundHits(g, req, filter)
<1> DEFINE hit(attrs, i) == [id |-> i, score |-> Score(schema.metric, req.vector, VectorOf(attrs)),
                             attrs |-> Project(req.include, attrs)]
           in(D) == {j \in DOMAIN D : Matches(filter, D[j], schema.fts)}
<1>1. FoundHits(f, req, filter) = {hit(f[i], i) : i \in in(f)}
      /\ FoundHits(g, req, filter) = {hit(g[i], i) : i \in in(g)}
  BY DEF FoundHits
<1>2. in(f) = in(g) /\ \A i \in in(f) : f[i] = g[i]
  BY DEF SameFound
<1> HIDE DEF hit, in
<1> QED
  BY <1>1, <1>2

\* The hits of the parts are the hits of all, each in one part.
LEMMA FoundParted ==
    ASSUME NEW D, NEW req, NEW filter, NEW c \in Nat, \A i \in DOMAIN D : ShardOf(i, c) \in 1..c,
           NEW S, S = FoundHits(D, req, filter),
           NEW T, \A n \in 1..c : T[n] = FoundHits(PartOf(D, c, n), req, filter)
    PROVE  Parted(S, T, c)
<1> DEFINE hit(i) == [id |-> i, score |-> Score(schema.metric, req.vector, VectorOf(D[i])),
                      attrs |-> Project(req.include, D[i])]
           found == {i \in DOMAIN D : Matches(filter, D[i], schema.fts)}
           own(n) == {i \in found : ShardOf(i, c) = n}
<1>1. S = {hit(i) : i \in found}
  BY DEF FoundHits
<1>2. ASSUME NEW n \in 1..c PROVE T[n] = {hit(i) : i \in own(n)}
  <2>1. PICK p : p = PartOf(D, c, n)
    OBVIOUS
  <2>2. DOMAIN p = {i \in DOMAIN D : ShardOf(i, c) = n} /\ \A i \in DOMAIN p : p[i] = D[i]
    BY <2>1 DEF PartOf, Owned
  <2>3. {i \in DOMAIN p : Matches(filter, p[i], schema.fts)} = own(n)
    BY <2>2
  <2>4. FoundHits(p, req, filter) = {[id |-> i, score |-> Score(schema.metric, req.vector, VectorOf(p[i])),
                      attrs |-> Project(req.include, p[i])] : i \in own(n)}
    BY <2>3 DEF FoundHits
  <2>5. \A i \in own(n) : p[i] = D[i]
    BY <2>2
  <2>6. FoundHits(p, req, filter) = {hit(i) : i \in own(n)}
    BY <2>4, <2>5
  <2> QED
    BY <2>1, <2>6
<1>3. \A i : hit(i).id = i
  OBVIOUS
<1>4. \A i \in found : ShardOf(i, c) \in 1..c
  OBVIOUS
<1>5. \A n : \A i : i \in own(n) <=> i \in found /\ ShardOf(i, c) = n
  OBVIOUS
<1> HIDE DEF hit, found, own
<1> QED
  BY <1>1, <1>2, <1>3, <1>4, <1>5 DEF Parted

---------------------------------------------------------------------------
\* What an ordered query finds.

LEMMA AsLexical ==
    ASSUME NEW s \in Seq(Int), NEW t \in Seq(Int)
    PROVE  Precedes(s, t) <=> Replays!Lexical(s, t)
<1>1. ASSUME NEW k \in DOMAIN t
      PROVE  (/\ \A j \in 1..k - 1 : j \in DOMAIN s /\ s[j] = t[j]
              /\ k \in DOMAIN s => s[k] < t[k]) <=> Replays!LexicalAt(s, t, k)
  <2>1. k \in 1..Len(t) /\ Len(t) \in Nat /\ DOMAIN t = 1..Len(t)
    OBVIOUS
  <2>2. \A j \in 1..k - 1 : j \in DOMAIN t
    BY <2>1
  <2> QED
    BY <2>2 DEF Replays!LexicalAt, Replays!Agree
<1> QED
  BY <1>1 DEF Precedes, Replays!Lexical

LEMMA PrecedesBetween ==
    ASSUME NEW s \in Seq(Int), NEW t \in Seq(Int), NEW u \in Seq(Int)
    PROVE  /\ Precedes(s, t) /\ Precedes(t, u) => Precedes(s, u)
           /\ Precedes(s, u) => Precedes(s, t) \/ Precedes(t, u)
           /\ s = t \/ Precedes(s, t) \/ Precedes(t, s)
           /\ ~(Precedes(s, t) /\ Precedes(t, s))
<1>1. /\ Precedes(s, t) <=> Replays!Lexical(s, t)
      /\ Precedes(t, s) <=> Replays!Lexical(t, s)
      /\ Precedes(t, u) <=> Replays!Lexical(t, u)
      /\ Precedes(s, u) <=> Replays!Lexical(s, u)
  BY AsLexical
<1>2. s = t \/ Replays!Lexical(s, t) \/ Replays!Lexical(t, s)
  BY Replays!LexicalTotal
<1>3. Replays!Lexical(s, t) /\ Replays!Lexical(t, u) => Replays!Lexical(s, u)
  BY Replays!LexicalTransitive
<1>4. Replays!Lexical(t, s) /\ Replays!Lexical(s, u) => Replays!Lexical(t, u)
  BY Replays!LexicalTransitive
<1>5. Precedes(s, t) /\ Precedes(t, s) => Replays!Lexical(s, s)
  BY <1>1, Replays!LexicalTransitive
<1>6. ~Replays!Lexical(s, s)
  BY Replays!LexicalIrreflexive
<1> QED
  BY <1>1, <1>2, <1>3, <1>4, <1>5, <1>6

\* A null or a value of one type.
KeyOf(v, type) == IsNull(v) \/ (Numbered(v) /\ v.type = type)

\* One value comes before another in the order that is asked for.
AheadOf(v, w, descending) ==
    IF descending THEN Precedes(w.items, v.items) ELSE Precedes(v.items, w.items)

LEMMA KeysOrdered ==
    ASSUME NEW type, NEW v, KeyOf(v, type), NEW w, KeyOf(w, type), NEW descending
    PROVE  KeyBefore(v, w, descending) <=>
              ~IsNull(v) /\ (IsNull(w) \/ (type # "{}f16" /\ AheadOf(v, w, descending)))
<1>1. CASE IsNull(v)
  BY <1>1 DEF KeyBefore
<1>2. CASE ~IsNull(v) /\ IsNull(w)
  BY <1>2 DEF KeyBefore
<1>3. CASE ~IsNull(v) /\ ~IsNull(w)
  <2>1. KeyBefore(v, w, descending) <=> Compare(v, w) = IF descending THEN "greater" ELSE "less"
    BY <1>3 DEF KeyBefore
  <2>2. PICK s, t : s = v.items /\ t = w.items /\ s \in Seq(Int) /\ t \in Seq(Int)
                    /\ v.type = type /\ w.type = type
    BY <1>3 DEF KeyOf, Numbered
  <2>3. CASE type = "{}f16"
    <3>1. Compare(v, w) = "none"
      BY <1>3, <2>2, <2>3 DEF Compare
    <3> QED
      BY <1>3, <2>1, <2>3, <3>1
  <2>4. CASE type # "{}f16"
    <3>1. Compare(v, w) = Order(s, t)
      BY <1>3, <2>2, <2>4 DEF Compare
    <3>2. /\ s = t \/ Precedes(s, t) \/ Precedes(t, s)
          /\ ~(Precedes(s, t) /\ Precedes(t, s))
      BY <2>2, PrecedesBetween
    <3>3. ~Precedes(s, s)
      BY <2>2, NotBeforeItself
    <3>4. (Order(s, t) = "less" <=> Precedes(s, t)) /\ (Order(s, t) = "greater" <=> Precedes(t, s))
      BY <3>2, <3>3 DEF Order
    <3> QED
      BY <1>3, <2>1, <2>2, <2>4, <3>1, <3>4 DEF AheadOf
  <2> QED
    BY <2>3, <2>4
<1> QED
  BY <1>1, <1>2, <1>3

LEMMA KeysWeak ==
    ASSUME NEW S, NEW key, NEW type, \A i \in S : KeyOf(key[i], type), NEW descending,
           NEW P, \A i, j \in S : <<i, j>> \in P <=> KeyBefore(key[i], key[j], descending)
    PROVE  WeakOrder(P, S)
<1>1. ASSUME NEW i \in S, NEW j \in S
      PROVE  <<i, j>> \in P <=>
                ~IsNull(key[i]) /\ (IsNull(key[j]) \/ (type # "{}f16" /\ AheadOf(key[i], key[j], descending)))
  <2>1. PICK v, w : v = key[i] /\ w = key[j] /\ KeyOf(v, type) /\ KeyOf(w, type)
    OBVIOUS
  <2>2. KeyBefore(v, w, descending) <=>
            ~IsNull(v) /\ (IsNull(w) \/ (type # "{}f16" /\ AheadOf(v, w, descending)))
    BY <2>1, KeysOrdered
  <2> QED
    BY <2>1, <2>2
<1>2. ASSUME NEW i \in S, NEW j \in S, NEW k \in S,
             ~IsNull(key[i]), ~IsNull(key[j]), ~IsNull(key[k])
      PROVE  /\ ~AheadOf(key[i], key[i], descending)
             /\ AheadOf(key[i], key[j], descending) /\ AheadOf(key[j], key[k], descending) => AheadOf(key[i], key[k], descending)
             /\ AheadOf(key[i], key[k], descending) => AheadOf(key[i], key[j], descending) \/ AheadOf(key[j], key[k], descending)
  <2>1. PICK s, t, u : /\ s = key[i].items /\ t = key[j].items /\ u = key[k].items
                       /\ s \in Seq(Int) /\ t \in Seq(Int) /\ u \in Seq(Int)
    BY <1>2 DEF KeyOf, Numbered
  <2>2. /\ Precedes(s, t) /\ Precedes(t, u) => Precedes(s, u)
        /\ Precedes(s, u) => Precedes(s, t) \/ Precedes(t, u)
    BY <2>1, PrecedesBetween
  <2>3. /\ Precedes(u, t) /\ Precedes(t, s) => Precedes(u, s)
        /\ Precedes(u, s) => Precedes(u, t) \/ Precedes(t, s)
    BY <2>1, PrecedesBetween
  <2>4. ~Precedes(s, s)
    BY <2>1, NotBeforeItself
  <2> QED
    BY <2>1, <2>2, <2>3, <2>4 DEF AheadOf
<1>3. ASSUME NEW i \in S PROVE <<i, i>> \notin P
  BY <1>1, <1>2
<1>4. ASSUME NEW i \in S, NEW j \in S, NEW k \in S, <<i, j>> \in P, <<j, k>> \in P
      PROVE  <<i, k>> \in P
  BY <1>1, <1>2, <1>4
<1>5. ASSUME NEW i \in S, NEW j \in S, NEW k \in S, <<i, k>> \in P
      PROVE  <<i, j>> \in P \/ <<j, k>> \in P
  BY <1>1, <1>2, <1>5
<1> QED
  BY <1>3, <1>4, <1>5 DEF WeakOrder

LEMMA OrderedListed ==
    ASSUME NEW D, AllFit(D, schema), IsMap(D), NEW req \in Requests, req.order # <<>>, NEW filter,
           NEW q, q = OrderBy(D, req.order, req.top_k, filter, req.include, schema.fts)
    PROVE  Listed(q, D, req, filter)
<1>1. PICK order, attribute, descending, top, type :
            /\ order = req.order
            /\ attribute = req.order.attribute /\ descending = req.order.descending
            /\ top = req.top_k /\ top \in Nat /\ attribute # "vector"
            /\ type = schema.attributes[attribute]
  BY RequestsAssumption
<1>2. q = OrderBy(D, order, top, filter, req.include, schema.fts)
  BY <1>1
<1> DEFINE key == [i \in DOMAIN D |-> ValueAt(D[i], order.attribute)]
           ahead(i, j) == KeyBefore(key[i], key[j], order.descending)
           before(i, j) == ahead(i, j) \/ (~ahead(j, i) /\ IdBefore(i, j))
           hit(i) == [id |-> i, score |-> 0, attrs |-> Project(req.include, D[i])]
           matching == {i \in DOMAIN D : Matches(filter, D[i], schema.fts)}
           ids == Truncated(SortedBy(matching, before), top)
           P == {p \in matching \X matching : ahead(p[1], p[2])}
           R == {p \in matching \X matching : before(p[1], p[2])}
           below(i) == {j \in matching : before(j, i)}
           ranked(k) == CHOOSE i \in matching : Cardinality(below(i)) = k - 1
           g == [i \in matching |-> i.items[1]]
<1>3. q = [k \in DOMAIN ids |-> hit(ids[k])]
  BY <1>2, Zenon DEF OrderBy
<1>4. \A i, j \in matching : (<<i, j>> \in P <=> ahead(i, j)) /\ (<<i, j>> \in R <=> before(i, j))
  OBVIOUS
<1>5. ASSUME NEW i \in matching PROVE KeyOf(key[i], type)
  <2>1. PICK attrs, v : attrs = D[i] /\ v = ValueAt(attrs, attribute) /\ v = key[i] /\ DocFits(attrs, schema)
    BY <1>1 DEF AllFit
  <2>2. CASE IsNull(v)
    BY <2>1, <2>2 DEF KeyOf
  <2>3. CASE ~IsNull(v)
    <3>1. attribute \in DOMAIN attrs /\ v = attrs[attribute] /\ v \in StorableValues
      BY <2>1, <2>3, ValueStorable DEF IsNull
    <3>2. v.type = type
      BY <1>1, <2>1, <2>3, <3>1 DEF DocFits, TypedAs
    <3> QED
      BY <2>1, <3>1, <3>2, ValuesAssumption DEF KeyOf
  <2> QED
    BY <2>2, <2>3
<1>6. ASSUME NEW i \in matching, NEW j \in matching
      PROVE  /\ g[i] \in Int
             /\ g[i] = g[j] => i = j
             /\ IdBefore(i, j) <=> g[i] < g[j]
  <2>1. i \in StorableIds /\ j \in StorableIds /\ i.type = j.type
    BY DEF AllFit, IdFits
  <2>2. /\ i.items[1] \in Int /\ j.items[1] \in Int
        /\ IdBefore(i, j) <=> i.items[1] < j.items[1]
        /\ i = j <=> i.items[1] = j.items[1]
    BY <2>1, IdOrder
  <2>3. g[i] = i.items[1] /\ g[j] = j.items[1]
    OBVIOUS
  <2> HIDE DEF g, matching
  <2> QED
    BY <2>2, <2>3
<1>7. IsFiniteSet(matching)
  BY FS_Subset DEF IsMap
<1>8. matching \subseteq DOMAIN D /\ \A i \in matching : Matches(filter, D[i], schema.fts)
  OBVIOUS
<1>9. PICK s : s = SortedBy(matching, before)
  OBVIOUS
<1>10. PICK first : first = ids /\ first = Truncated(s, top)
  BY <1>9
<1>11. s = [k \in 1..Cardinality(matching) |-> ranked(k)]
  BY <1>9, Zenon DEF SortedBy
<1>12. \A i \in matching : below(i) = Below(R, matching, i)
  BY <1>4 DEF Below
<1> HIDE DEF key, ids, g, matching, P, R
<1>13. WeakOrder(P, matching)
  <2>1. \A i, j \in matching : <<i, j>> \in P <=> KeyBefore(key[i], key[j], descending)
    BY <1>1, <1>4
  <2>2. PICK k : k = key
    OBVIOUS
  <2>3. /\ \A i \in matching : KeyOf(k[i], type)
        /\ \A i, j \in matching : <<i, j>> \in P <=> KeyBefore(k[i], k[j], descending)
    BY <1>5, <2>1, <2>2
  <2> QED
    BY ONLY <2>3, KeysWeak
<1>14. StrictOrder(R, matching)
  <2>1. \A i \in matching : g[i] \in Int
    BY <1>6
  <2>2. \A i, j \in matching : g[i] = g[j] => i = j
    BY <1>6
  <2>3. \A i, j \in matching : <<i, j>> \in R <=>
            <<i, j>> \in P \/ (<<j, i>> \notin P /\ g[i] < g[j])
    BY <1>4, <1>6
  <2> QED
    BY ONLY <1>13, <2>1, <2>2, <2>3, WeakThenKey
<1>15. Sorting(s, R, matching)
  <2> HIDE DEF below
  <2>1. ASSUME NEW k
        PROVE  ranked(k) = CHOOSE i \in matching : Cardinality(Below(R, matching, i)) = k - 1
    BY <1>12
  <2> HIDE DEF ranked
  <2> QED
    BY <1>11, <2>1 DEF Sorting
<1> HIDE DEF before, ahead, below, ranked
<1>16. /\ IsSequence(s)
       /\ \A k \in 1..Len(s) : s[k] \in matching
       /\ \A j, k \in 1..Len(s) : j < k => <<s[j], s[k]>> \in R
  BY <1>7, <1>14, <1>15, Sorted
<1>17. IsSequence(first) /\ Len(first) <= Len(s) /\ \A k \in 1..Len(first) : first[k] = s[k]
  BY <1>1, <1>10, <1>16, FirstElements
<1>18. PICK l : l = Len(first) /\ l \in Nat /\ DOMAIN first = 1..l /\ \A k \in 1..l : k \in 1..Len(s)
  BY <1>16, <1>17, SequenceOf DEF IsSequence
<1>19. /\ \A k \in 1..l : first[k] \in matching
       /\ \A j, k \in 1..l : j < k => <<first[j], first[k]>> \in R
  BY <1>16, <1>17, <1>18
<1>20. ASSUME NEW i \in matching
       PROVE  hit(i).id = i /\ GoodHit(hit(i), D, req, filter)
  <2>1. PICK proj : proj = Project(req.include, D[i])
    OBVIOUS
  <2>2. PICK h : h = hit(i) /\ h = [id |-> i, score |-> 0, attrs |-> proj]
    BY <2>1
  <2>3. h.id = i /\ h.score = 0 /\ h.attrs = proj
    BY <2>2
  <2>4. GoodHit(h, D, req, filter)
    BY <1>8, <2>1, <2>3 DEF GoodHit
  <2> HIDE DEF hit
  <2> QED
    BY <2>2, <2>3, <2>4
<1>21. q = [k \in 1..l |-> hit(first[k])]
  BY <1>3, <1>10, <1>18
<1> HIDE DEF hit
<1>22. q = [k \in 1..l |-> q[k]] /\ \A k \in 1..l : q[k] = hit(first[k])
  BY <1>21
<1>23. IsSequence(q) /\ Len(q) = l
  BY <1>18, <1>22, MadeSequence
<1>24. ASSUME NEW j \in 1..l, NEW k \in 1..l, q[j].id = q[k].id
       PROVE  j = k
  <2>1. first[j] = first[k]
    BY <1>19, <1>20, <1>22, <1>24
  <2>2. ~(j < k) /\ ~(k < j)
    BY <1>14, <1>19, <2>1 DEF StrictOrder
  <2> QED
    BY <1>18, <2>2
<1>25. \A k \in 1..l : GoodHit(q[k], D, req, filter)
  BY <1>19, <1>20, <1>22
<1> QED
  BY <1>23, <1>24, <1>25 DEF Listed

---------------------------------------------------------------------------
\* No answer has what is not there.

LEMMA CoercedRequest ==
    ASSUME SoundSchema(schema), NEW f, f = NoFilter \/ Postfix(f),
           NEW filter, filter = CoerceFilter(f, schema.attributes)
    PROVE  /\ filter = NoFilter \/ Postfix(filter)
           /\ f = NoFilter => filter = NoFilter
           /\ Postfix(f) => Postfix(filter)
<1>1. ASSUME f = NoFilter PROVE filter = NoFilter
  <2>1. PICK none : none = NoFilter /\ DOMAIN none = {} /\ none = <<>>
    BY DEF NoFilter
  <2>2. DOMAIN filter = {} /\ filter = [n \in DOMAIN filter |-> filter[n]]
    BY <1>1, <2>1 DEF CoerceFilter
  <2>3. none = [n \in DOMAIN none |-> none[n]]
    BY <2>1
  <2>4. filter = none
    BY <2>1, <2>2, <2>3
  <2> QED
    BY <2>1, <2>4
<1>2. ASSUME Postfix(f) PROVE Postfix(filter)
  <2>1. PICK types : types = schema.attributes /\ \A a \in DOMAIN types : types[a] \in Types
    BY DEF SoundSchema
  <2>2. filter = CoerceFilter(f, types)
    BY <2>1
  <2> QED
    BY <1>2, <2>1, <2>2, CoercedPostfix
<1> QED
  BY <1>1, <1>2

\* A list of hits has as many ids as hits.
LEMMA IdsDiffer ==
    ASSUME NEW q, IsSequence(q), \A j, k \in 1..Len(q) : q[j].id = q[k].id => j = k
    PROVE  Cardinality({q[k].id : k \in DOMAIN q}) = Len(q)
<1>1. PICK n : n = Len(q) /\ n \in Nat /\ DOMAIN q = 1..n
  BY SequenceOf DEF IsSequence
<1> DEFINE S == {q[k].id : k \in DOMAIN q}
           f == [k \in 1..n |-> q[k].id]
<1>2. f \in Injection(1..n, S)
  <2>1. f \in [1..n -> S]
    BY <1>1
  <2>2. \A j, k \in 1..n : f[j] = f[k] => j = k
    BY <1>1
  <2> HIDE DEF f, S
  <2> QED
    BY <2>1, <2>2, Fun_IsInj
<1>3. f \in Surjection(1..n, S)
  BY <1>1 DEF Surjection
<1> HIDE DEF f, S
<1>4. f \in Bijection(1..n, S)
  BY <1>2, <1>3 DEF Bijection
<1>5. ExistsBijection(1..n, S)
  BY <1>4 DEF ExistsBijection
<1>6. Cardinality(S) = n
  BY <1>1, <1>5, FS_CountingElements
<1> QED
  BY <1>1, <1>6 DEF S

LEMMA ListedIsLive ==
    ASSUME NEW req, NEW q,
           Listed(q, live, req, CoerceFilter(req.filter, schema.attributes))
    PROVE  AreLive(q, req)
<1>1. IsSequence(q) /\ DOMAIN q = 1..Len(q)
  BY SequenceOf DEF Listed
<1>2. Cardinality({q[k].id : k \in DOMAIN q}) = Len(q)
  BY <1>1, IdsDiffer DEF Listed
<1>3. ASSUME NEW k \in DOMAIN q
      PROVE  /\ q[k].id \in DOMAIN live
             /\ Selects(req.filter, q[k].id)
             /\ q[k].attrs = Project(req.include, live[q[k].id])
  BY <1>1 DEF Listed, GoodHit, Selects
<1> QED
  BY <1>2, <1>3 DEF AreLive

LEMMA QueriedListed ==
    ASSUME ScoresAreNumbers, LiveInv, NEW req \in Requests,
           NEW filter, filter = CoerceFilter(req.filter, schema.attributes)
    PROVE  Listed(Queried(req).hits, live, req, filter)
<1>1. SoundSchema(schema) /\ AllFit(live, schema) /\ IsMap(live) /\ Materialized = live
  BY LiveIsSound
<1>2. filter = NoFilter \/ Postfix(filter)
  <2>1. PICK f : f = req.filter /\ (f = NoFilter \/ f \in GivenFilters)
    BY DEF GivenFilters
  <2>2. f = NoFilter \/ Postfix(f)
    BY <2>1, FiltersAssumption
  <2> QED
    BY <1>1, <2>1, <2>2, CoercedRequest
<1>3. PICK answer : answer = Queried(req)
  OBVIOUS
<1>4. PICK q : q = OrderBy(live, req.order, req.top_k, filter, req.include, schema.fts)
  OBVIOUS
<1>5. \/ answer = Failure
      \/ req.order # <<>> /\ answer = Answer(q, FALSE, FALSE)
      \/ answer = Ranked(req, filter)
  BY <1>1, <1>3, <1>4, Zenon DEF Queried
<1>6. CASE answer = Failure
  BY <1>3, <1>6, FailureListed
<1>7. CASE req.order # <<>> /\ answer = Answer(q, FALSE, FALSE)
  <2>1. Listed(q, live, req, filter)
    BY <1>1, <1>4, <1>7, OrderedListed
  <2>2. answer.hits = q
    BY <1>7, AnswerHits
  <2> QED
    BY <1>3, <2>1, <2>2
<1>8. CASE answer = Ranked(req, filter)
  <2>1. Listed(Ranked(req, filter).hits, live, req, filter)
    BY <1>2, MergedListed
  <2> QED
    BY <1>3, <1>8, <2>1
<1> QED
  BY <1>5, <1>6, <1>7, <1>8

LEMMA LiveHits ==
    ASSUME ScoresAreNumbers, LiveInv
    PROVE  HitsAreLive
<1> SUFFICES ASSUME NEW req \in Requests PROVE AreLive(Queried(req).hits, req)
  BY DEF HitsAreLive
<1>1. PICK filter, q : filter = CoerceFilter(req.filter, schema.attributes) /\ q = Queried(req).hits
  OBVIOUS
<1>2. Listed(Queried(req).hits, live, req, filter)
  BY <1>1, QueriedListed
<1>3. Listed(q, live, req, CoerceFilter(req.filter, schema.attributes))
  BY <1>1, <1>2
<1> QED
  BY <1>1, <1>3, ListedIsLive

\* No answer has a document twice, one that is gone, one its filter excludes or
\* attributes it no longer has (Store::query and what it calls: shard_hits, overlay,
\* top_k, order_by and the merge of the shards' answers in store.rs), however the
\* documents were written and compacted, whichever plan each shard took: as long as
\* what a query term adds to a score is a number at all.
THEOREM HitsStayLive ==
    ASSUME ScoresAreNumbers
    PROVE  Spec => []HitsAreLive
<1>1. Init => LiveInv
  BY LiveInit
<1>2. LiveInv /\ [Next]_vars => LiveInv'
  BY LiveNext
<1>3. LiveInv => HitsAreLive
  BY LiveHits
<1> QED
  BY <1>1, <1>2, <1>3, PTL DEF Spec

---------------------------------------------------------------------------
\* What a shard finds by vector is the best of what it sees.

\* What the indexes of a shard select may stand for a filter: nothing is patched, and
\* every document of the segment that matches is selected.
MayStand(sel, shard, records, filter) ==
    /\ \A k \in 1..Len(records) : records[k].op # "patch"
    /\ sel.bounded =>
          \A o \in 1..Len(shard.segment) :
              Matches(filter, shard.segment[o].attrs, schema.fts) => o \in sel.ordinals

LEMMA VectorHitsFound ==
    ASSUME SoundSchema(schema), NEW req \in Requests, NEW filter,
           NEW shard, NEW records, NEW now, Shard(shard, records, now),
           shard.indexed => req.nprobe >= Len(shard.index.clusters),
           NEW sel, sel = SelectionOf(shard, filter),
           \/ filter = NoFilter
           \/ Postfix(filter) /\ (shard.indexed => MayStand(sel, shard, records, filter)),
           NEW answer, answer = VectorHits(shard, records, req, filter, sel), answer.ok
    PROVE  answer.hits = Best(FoundHits(now, req, filter), req.top_k)
<1>1. PICK best : best = Best(FoundHits(now, req, filter), req.top_k)
  OBVIOUS
<1>2. now = Docs!Materialize(shard.segment \o records) /\ Scored(now, req, filter) = best
  BY <1>1, ScoredIs DEF Shard
<1>3. ASSUME NEW ordinals, ordinals \subseteq 1..Len(shard.segment),
             \/ ordinals = 1..Len(shard.segment)
             \/ /\ \A k \in 1..Len(records) : records[k].op # "patch"
                /\ \A o \in 1..Len(shard.segment) :
                      Matches(filter, shard.segment[o].attrs, schema.fts) => o \in ordinals
      PROVE  Scored(Overlaid(shard, ordinals, records), req, filter) = best
  <2>1. PICK over : over = Overlaid(shard, ordinals, records)
    OBVIOUS
  <2>2. SameFound(over, now, filter)
    BY <1>3, <2>1, OverlaidFinds
  <2>3. FoundHits(over, req, filter) = FoundHits(now, req, filter)
    BY <2>2, FoundSame
  <2> QED
    BY <1>1, <2>1, <2>3, ScoredIs
<1>4. CASE ~shard.indexed
  <2>1. answer = Answer(Scored(Docs!Materialize(shard.segment \o records), req, filter), FALSE, FALSE)
    BY <1>4, Zenon DEF VectorHits
  <2>2. answer = Answer(best, FALSE, FALSE)
    BY <1>2, <2>1
  <2>3. answer.hits = best
    BY <2>2 DEF Answer
  <2> QED
    BY <1>1, <2>3
<1>5. CASE shard.indexed /\ filter # NoFilter /\ Prefilters(shard, sel, req)
  <2>1. answer = Answer(Scored(Overlaid(shard, sel.ordinals, records), req, filter), TRUE, TRUE)
    BY <1>5, Zenon DEF VectorHits
  <2>2. PICK ordinals : ordinals = sel.ordinals /\ ordinals \subseteq 1..Len(shard.segment)
    BY <1>5, OverInside
  <2>3. /\ \A k \in 1..Len(records) : records[k].op # "patch"
        /\ \A o \in 1..Len(shard.segment) :
              Matches(filter, shard.segment[o].attrs, schema.fts) => o \in ordinals
    BY <1>5, <2>2 DEF MayStand, Prefilters
  <2>4. Scored(Overlaid(shard, ordinals, records), req, filter) = best
    BY <1>3, <2>2, <2>3
  <2>5. answer = Answer(best, TRUE, TRUE)
    BY <2>1, <2>2, <2>4
  <2>6. answer.hits = best
    BY <2>5 DEF Answer
  <2> QED
    BY <1>1, <2>6
<1>6. CASE shard.indexed /\ ~(filter # NoFilter /\ Prefilters(shard, sel, req))
  <2>1. PICK probed : probed = Probed(shard.index, req)
    OBVIOUS
  <2>2. answer = Answer(Scored(Overlaid(shard, probed, records), req, filter), TRUE, FALSE)
    <3>1. answer = IF shard.index.dim \notin {Len(req.vector)} \ {0} THEN Failure
                   ELSE Answer(Scored(Overlaid(shard, Probed(shard.index, req), records), req, filter),
                               TRUE, FALSE)
      BY <1>6, Zenon DEF VectorHits
    <3>2. ~Failure.ok
      BY DEF Failure
    <3> QED
      BY <2>1, <3>1, <3>2, Zenon
  <2>3. probed = 1..Len(shard.segment)
    <3>1. PICK clusters, n, vector, metric, nprobe :
              /\ clusters = shard.index.clusters /\ n = Len(shard.segment)
              /\ vector = req.vector /\ metric = schema.metric /\ nprobe = req.nprobe
      OBVIOUS
    <3>2. Clustering(clusters, n)
      BY <3>1 DEF Shard, ShardSound
    <3>3. vector \in Seq(Int) /\ nprobe \in Nat /\ metric \in Metrics
      BY <3>1, RequestsAssumption DEF SoundSchema
    <3>4. \A o : o \in probed <=> \E c \in Probe(clusters, vector, nprobe, metric) : o \in clusters[c].docs
      BY <2>1, <3>1 DEF Probed
    <3>5. nprobe >= Len(clusters)
      BY <1>6, <3>1
    <3>6. probed = 1..n
      BY ONLY <3>2, <3>3, <3>4, <3>5, ProbesReachAll
    <3> QED
      BY <3>1, <3>6
  <2>4. Scored(Overlaid(shard, probed, records), req, filter) = best
    BY <1>3, <2>3
  <2>5. answer = Answer(best, TRUE, FALSE)
    BY <2>2, <2>4
  <2>6. answer.hits = best
    BY <2>5 DEF Answer
  <2> QED
    BY <1>1, <2>6
<1> QED
  BY <1>4, <1>5, <1>6

---------------------------------------------------------------------------
\* Where every cluster is probed, an answer is a scan's.

\* The best hits among the documents shard n sees.
BestSeen(hits, n, req, filter) ==
    \E now : PartSeen(now, n) /\ hits = Best(FoundHits(now, req, filter), req.top_k)

\* A shard that answers finds the best of the documents it sees.
LEMMA ShardFound ==
    ASSUME LiveInv, NEW req \in Requests, ByVector(req), FullProbe(req),
           req.filter = NoFilter \/ (req.filter \in Answerable /\ ~TailHasPatches),
           NEW filter, filter = CoerceFilter(req.filter, schema.attributes),
           NEW n \in DOMAIN Resident,
           NEW answer, answer = ShardHits(Resident[n], ShardTail(n), req, filter), answer.ok
    PROVE  BestSeen(answer.hits, n, req, filter)
<1>1. SoundSchema(schema) /\ IsSequence(tail)
  BY LiveIsSound DEF LiveInv, IndexesInv, AnswersInv, ShardsInv
<1>2. PICK shard, records, now, sel : /\ shard = Resident[n] /\ records = ShardTail(n)
                                      /\ now = Docs!Materialize(shard.segment \o records)
                                      /\ sel = SelectionOf(shard, filter)
  OBVIOUS
<1>3. Shard(shard, records, now) /\ OfTail(records) /\ PartSeen(now, n)
  BY <1>2, ShardSees
<1>4. answer = VectorHits(shard, records, req, filter, sel)
  <2>1. answer = CASE req.sparse # <<>> -> SparseHits(shard, records, req, filter)
                   [] req.sparse = <<>> /\ req.text # <<>> -> TextHits(shard, records, req, filter)
                   [] OTHER -> VectorHits(shard, records, req, filter, sel)
    BY <1>2, Zenon DEF ShardHits
  <2> QED
    BY <2>1 DEF ByVector
<1>5. ASSUME shard.indexed
      PROVE  n \in DOMAIN shards /\ shard = shards[n]
  <2>1. shards # <<>>
    <3> SUFFICES ASSUME shards = <<>> PROVE FALSE
      OBVIOUS
    <3>1. Resident = <<EmptyShard>>
      BY DEF Resident
    <3>2. shard = EmptyShard
      BY <1>2, <3>1
    <3> QED
      BY <1>5, <3>2 DEF EmptyShard
  <2> QED
    BY <1>2, <2>1 DEF Resident
<1>6. shard.indexed => req.nprobe >= Len(shard.index.clusters)
  BY <1>5 DEF FullProbe
<1>7. \/ filter = NoFilter
      \/ Postfix(filter) /\ (shard.indexed => MayStand(sel, shard, records, filter))
  <2>1. PICK f : f = req.filter
    OBVIOUS
  <2>2. CASE f = NoFilter
    <3>1. filter = NoFilter
      BY <1>1, <2>1, <2>2, CoercedRequest
    <3> QED
      BY <3>1
  <2>3. CASE f \in Answerable /\ ~TailHasPatches
    <3>1. Postfix(f)
      BY <2>3, FiltersAssumption DEF Answerable
    <3>2. Postfix(filter)
      BY <1>1, <2>1, <3>1, CoercedRequest
    <3>3. \A k \in 1..Len(records) : records[k].op # "patch"
      BY <1>1, <1>3, <2>3, SequenceOf DEF OfTail, TailHasPatches
    <3>4. ASSUME shard.indexed, sel.bounded, NEW o \in 1..Len(shard.segment),
                 Matches(filter, shard.segment[o].attrs, schema.fts)
          PROVE  o \in sel.ordinals
      <4>1. n \in DOMAIN shards /\ shard = shards[n]
        BY <1>5, <3>4
      <4>2. Covers(SelectionOf(shards[n], filter),
                   {p \in DOMAIN shards[n].segment :
                        Matches(filter, shards[n].segment[p].attrs, schema.fts)})
        BY <2>1, <2>3, <4>1, SelectionCovers DEF LiveInv
      <4>3. o \in DOMAIN shard.segment
        BY <1>3, SequenceOf DEF Shard, InIdOrder
      <4> QED
        BY <1>2, <3>4, <4>1, <4>2, <4>3 DEF Covers
    <3> QED
      BY <3>2, <3>3, <3>4 DEF MayStand
  <2> QED
    BY <2>1, <2>2, <2>3
<1>8. answer.hits = Best(FoundHits(now, req, filter), req.top_k)
  BY <1>1, <1>2, <1>3, <1>4, <1>6, <1>7, VectorHitsFound
<1> QED
  BY <1>3, <1>8 DEF BestSeen

\* The hits of one part that is all.
LEMMA OnePart ==
    ASSUME NEW S, NEW T, T[1] = S
    PROVE  Parted(S, T, 1)
<1>1. \A n : n \in 1..1 <=> n = 1
  OBVIOUS
<1> QED
  BY <1>1 DEF Parted

LEMMA FullAnswer ==
    ASSUME LiveInv, NEW req \in Requests, ByVector(req), FullProbe(req),
           req.filter = NoFilter \/ (req.filter \in Answerable /\ ~TailHasPatches),
           Queried(req).ok
    PROVE  Queried(req).hits = QueryBrute(req)
<1>1. SoundSchema(schema) /\ AllFit(live, schema) /\ IsMap(live) /\ Materialized = live
  BY LiveIsSound
<1>2. PICK filter : filter = CoerceFilter(req.filter, schema.attributes)
  OBVIOUS
<1>3. PICK S, k : S = FoundHits(live, req, filter) /\ k = req.top_k /\ k \in Nat
  BY RequestsAssumption
<1>4. OfDocs(S, live, req, filter)
  BY <1>1, <1>3, FoundAre
<1>5. QueryBrute(req) = Best(S, k)
  BY <1>1, <1>2, <1>3, Zenon DEF QueryBrute, TopK, FoundHits
<1>6. PICK own : own = [n \in DOMAIN Resident |-> ShardHits(Resident[n], ShardTail(n), req, filter)]
  OBVIOUS
<1>7. PICK answer : answer = Queried(req) /\ answer = Merged(own, k) /\ answer.ok
  <2>1. ~Failure.ok
    BY DEF Failure
  <2>2. Queried(req) = Failure \/ Queried(req) = Ranked(req, filter)
    BY <1>2, Zenon DEF Queried, ByVector
  <2>3. Ranked(req, filter) = Merged(own, k)
    BY <1>3, <1>6, Zenon DEF Ranked
  <2> QED
    BY <2>1, <2>2, <2>3
<1>8. \A n \in DOMAIN own : own[n].ok
  <2>1. Merged(own, k) = Failure \/ ~ \E n \in DOMAIN own : ~own[n].ok
    BY Zenon DEF Merged
  <2> QED
    BY <1>7, <2>1 DEF Failure
<1>9. PICK N : N = Len(Resident) /\ N \in Nat /\ N # 0 /\ DOMAIN Resident = 1..N
  <2>1. Resident # <<>>
    BY DEF Resident
  <2>2. IsSequence(Resident)
    <3>1. ShardsInv
      BY DEF LiveInv, IndexesInv, AnswersInv
    <3>2. PICK m \in Nat : shards = [n \in 1..m |-> shards[n]]
      BY <3>1 DEF ShardsInv, ShardsSorted
    <3>3. IsSequence(shards) /\ IsSequence(<<EmptyShard>>)
      BY <3>2, MadeSequence DEF IsSequence
    <3> QED
      BY <3>3 DEF Resident
  <2>3. Len(Resident) # 0
    BY <2>1, <2>2 DEF IsSequence
  <2> QED
    BY <2>2, <2>3, SequenceOf DEF IsSequence
<1>10. PICK T : T = [n \in 1..N |-> FoundHits(IF N > 1 THEN PartOf(live, N, n) ELSE live, req, filter)]
  OBVIOUS
<1>11. ASSUME NEW n \in 1..N
       PROVE  own[n].hits = Best(T[n], k) /\ (N > 1 => N = ShardCount(schema))
  <2>1. PICK a : a = ShardHits(Resident[n], ShardTail(n), req, filter) /\ a = own[n] /\ a.ok
    BY <1>6, <1>8, <1>9
  <2>2. PICK now : PartSeen(now, n) /\ a.hits = Best(FoundHits(now, req, filter), req.top_k)
    <3>1. n \in DOMAIN Resident
      BY <1>9
    <3>2. BestSeen(a.hits, n, req, filter)
      BY <1>2, <2>1, <3>1, ShardFound
    <3> QED
      BY <3>2 DEF BestSeen
  <2>3. /\ now = IF N > 1 THEN PartOf(live, N, n) ELSE live
        /\ N > 1 => N = ShardCount(schema)
    BY <1>9, <2>2 DEF PartSeen
  <2>4. T[n] = FoundHits(now, req, filter)
    BY <1>10, <2>3
  <2> QED
    BY <1>3, <2>1, <2>2, <2>3, <2>4
<1>12. Parted(S, T, N)
  <2>1. CASE N > 1
    <3>1. \A i \in DOMAIN live : ShardOf(i, N) \in 1..N
      <4>1. N \in 1..MaxShards
        <5>1. 1 \in 1..N
          BY <1>9
        <5>2. N = ShardCount(schema)
          BY <1>11, <2>1, <5>1
        <5> QED
          BY <1>1, <1>9, <2>1, <5>2, ShardsAssumption DEF ShardCount, SoundSchema
      <4> QED
        BY <1>1, <4>1, ShardsAssumption DEF AllFit, IdFits
    <3>2. \A n \in 1..N : T[n] = FoundHits(PartOf(live, N, n), req, filter)
      BY <1>10, <2>1
    <3>3. PICK D : D = live
      OBVIOUS
    <3> QED
      BY <1>3, <1>9, <3>1, <3>2, <3>3, FoundParted
  <2>2. CASE ~(N > 1)
    <3>1. N = 1
      BY <1>9, <2>2
    <3>2. T[1] = S
      BY <1>3, <1>10, <2>2, <3>1
    <3> QED
      BY <3>1, <3>2, OnePart
  <2> QED
    BY <2>1, <2>2
<1>13. DOMAIN own = 1..N /\ \A n \in 1..N : own[n].hits = Best(T[n], k)
  BY <1>6, <1>9, <1>11
<1>14. PICK D : D = live
  OBVIOUS
<1>15. AllFit(D, schema) /\ IsMap(D) /\ OfDocs(S, D, req, filter)
  BY <1>1, <1>4, <1>14
<1>16. answer.hits = Best(S, k)
  BY ONLY <1>3, <1>7, <1>9, <1>12, <1>13, <1>15, MergedBest
<1> QED
  BY <1>5, <1>7, <1>16

LEMMA FullAnswers == LiveInv => IndexedIsBrute
  BY FullAnswer DEF IndexedIsBrute, AsBrute, SameHits

\* What a query by vector answers when every cluster is probed is what an exhaustive
\* scan of the documents would (Store::query against Store::query_brute in store.rs:
\* the choice of a plan, prefilter, probe, overlay of the tail, ranking in each shard
\* and the merge of the shards' answers), in the same order, however the documents
\* were written, compacted and sharded: without a filter, or with one that the indexes
\* can answer while the tail patches nothing.
THEOREM FullProbesAreBrute == Spec => []IndexedIsBrute
<1>1. Init => LiveInv
  BY LiveInit
<1>2. LiveInv /\ [Next]_vars => LiveInv'
  BY LiveNext
<1>3. LiveInv => IndexedIsBrute
  BY FullAnswers
<1> QED
  BY <1>1, <1>2, <1>3, PTL DEF Spec

=============================================================================
