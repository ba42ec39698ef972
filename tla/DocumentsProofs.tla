-------------------------- MODULE DocumentsProofs --------------------------
(***************************************************************************)
(* What replaying records does, for any documents, attributes and records: *)
(* the facts that compaction relies on when it folds a part of the WAL     *)
(* into a segment and that part is replayed over the segment once more.    *)
(* Before them, what the proofs need of numbers and of sequences of them.  *)
(***************************************************************************)
EXTENDS Documents, Integers, WellFoundedInduction, TLAPS

---------------------------------------------------------------------------
\* Induction, in the form in which the provers can use it.
LEMMA LeastNumber ==
    ASSUME NEW S \in SUBSET Nat, S # {}
    PROVE  \E m \in S : \A n \in S : m <= n
<1> DEFINE R == OpToRel(<, Nat)
<1>1. R = {p \in Nat \X Nat : p[1] < p[2]}
  BY DEF OpToRel
<1>2. IsWellFoundedOn(R, Nat)
  BY NatLessThanWellFounded
<1> HIDE DEF R
<1>3. PICK m \in S : \A n \in S : ~ (<<n, m>> \in R)
  BY <1>2, WFMin
<1>4. \A n \in S : ~ (n < m)
  BY <1>1, <1>3
<1> QED
  BY <1>4

\* A set of numbers up to n that has 0, and with each the next one.
LEMMA Upwards ==
    ASSUME NEW n \in Nat, NEW S, 0 \in S, \A k \in 0..n : k < n /\ k \in S => k + 1 \in S
    PROVE  \A k \in 0..n : k \in S
<1> DEFINE Bad == {k \in 0..n : k \notin S}
<1> SUFFICES ASSUME Bad # {} PROVE FALSE
  OBVIOUS
<1>1. Bad \in SUBSET Nat
  OBVIOUS
<1>2. PICK k \in Bad : \A j \in Bad : k <= j
  <2> HIDE DEF Bad
  <2> QED
    BY <1>1, LeastNumber
<1>3. k \in 0..n /\ k \notin S /\ k # 0
  BY <1>2
<1>4. k - 1 \in 0..n /\ k - 1 < n /\ (k - 1) + 1 = k /\ ~(k <= k - 1)
  BY <1>3
<1> HIDE DEF Bad
<1>5. k - 1 \in S
  BY <1>2, <1>4 DEF Bad
<1> QED
  BY <1>3, <1>4, <1>5

---------------------------------------------------------------------------
\* Sequences of numbers in lexicographic order.
Agree(s, t, n) == \A j \in 1..n : j \in DOMAIN s /\ j \in DOMAIN t /\ s[j] = t[j]

\* Two sequences that agree up to the place before `k` differ at `k`.
Parts(s, t, k) ==
    /\ k \in DOMAIN s \cup DOMAIN t
    /\ Agree(s, t, k - 1)
    /\ k \in DOMAIN s /\ k \in DOMAIN t => s[k] # t[k]

\* One sequence precedes another at the place where they part.
LexicalAt(s, t, k) ==
    /\ k \in DOMAIN t
    /\ Agree(s, t, k - 1)
    /\ k \in DOMAIN s => s[k] < t[k]

Lexical(s, t) == \E k \in DOMAIN t : LexicalAt(s, t, k)

\* Sequences that are not the same part somewhere.
LEMMA PartSomewhere ==
    ASSUME NEW s \in Seq(Int), NEW t \in Seq(Int), s # t
    PROVE  \E k \in Nat \ {0} : Parts(s, t, k)
<1> DEFINE Apart(k) == ~(k \in DOMAIN s /\ k \in DOMAIN t /\ s[k] = t[k])
           S == {k \in Nat \ {0} : k \in DOMAIN s \cup DOMAIN t /\ Apart(k)}
<1>1. /\ DOMAIN s = 1..Len(s) /\ DOMAIN t = 1..Len(t) /\ Len(s) \in Nat /\ Len(t) \in Nat
      /\ s = [j \in 1..Len(s) |-> s[j]] /\ t = [j \in 1..Len(t) |-> t[j]]
  OBVIOUS
<1>2. S # {}
  <2>1. CASE Len(s) # Len(t)
    <3>1. CASE Len(s) < Len(t)
      <4>1. Len(t) \in S
        BY <1>1, <3>1
      <4> QED
        BY <4>1
    <3>2. CASE Len(t) < Len(s)
      <4>1. Len(s) \in S
        BY <1>1, <3>2
      <4> QED
        BY <4>1
    <3>3. Len(s) < Len(t) \/ Len(t) < Len(s)
      <4>1. Len(s) \in Nat /\ Len(t) \in Nat
        BY <1>1
      <4> QED
        BY <4>1, <2>1
    <3> QED
      BY <3>1, <3>2, <3>3
  <2>2. CASE Len(s) = Len(t)
    <3>1. PICK j \in 1..Len(s) : s[j] # t[j]
      <4>1. ASSUME \A i \in 1..Len(s) : s[i] = t[i]
            PROVE  s = t
        <5>1. DOMAIN s = DOMAIN t /\ \A i \in DOMAIN s : s[i] = t[i]
          BY <1>1, <2>2, <4>1
        <5> QED
          BY <5>1
      <4> QED
        BY <4>1
    <3>2. j \in S
      BY <1>1, <2>2, <3>1
    <3> QED
      BY <3>2
  <2> QED
    BY <2>1, <2>2
<1>3. S \in SUBSET Nat
  OBVIOUS
<1> HIDE DEF S
<1>4. PICK k \in S : \A n \in S : k <= n
  BY <1>2, <1>3, LeastNumber
<1>5. k \in Nat \ {0} /\ k \in DOMAIN s \cup DOMAIN t /\ Apart(k)
  BY <1>4 DEF S
<1>6. Agree(s, t, k - 1)
  <2> SUFFICES ASSUME NEW j \in 1..k - 1
               PROVE  j \in DOMAIN s /\ j \in DOMAIN t /\ s[j] = t[j]
    BY DEF Agree
  <2>1. j \in Nat \ {0} /\ j < k
    BY <1>5
  <2>2. j \notin S
    BY <2>1, <1>3, <1>4
  <2>3. j \in DOMAIN s \cup DOMAIN t
    BY <1>1, <1>5, <2>1
  <2> QED
    BY <2>1, <2>2, <2>3 DEF S
<1> QED
  BY <1>5, <1>6 DEF Parts

\* Where two sequences part, one of them precedes the other.
LEMMA PartedArePreceding ==
    ASSUME NEW s \in Seq(Int), NEW t \in Seq(Int), NEW k \in Nat \ {0}, Parts(s, t, k)
    PROVE  Lexical(s, t) \/ Lexical(t, s)
<1>1. Agree(s, t, k - 1) /\ Agree(t, s, k - 1)
  BY DEF Parts, Agree
<1>2. \A n \in DOMAIN s : s[n] \in Int
  OBVIOUS
<1>3. \A n \in DOMAIN t : t[n] \in Int
  OBVIOUS
<1>4. CASE k \in DOMAIN s /\ k \in DOMAIN t
  <2>1. s[k] < t[k] \/ t[k] < s[k]
    BY <1>2, <1>3, <1>4 DEF Parts
  <2>2. LexicalAt(s, t, k) \/ LexicalAt(t, s, k)
    BY <1>1, <1>4, <2>1 DEF LexicalAt
  <2> QED
    BY <1>4, <2>2 DEF Lexical
<1>5. CASE k \notin DOMAIN s
  <2>1. k \in DOMAIN t /\ LexicalAt(s, t, k)
    BY <1>1, <1>5 DEF Parts, LexicalAt
  <2> QED
    BY <2>1 DEF Lexical
<1>6. CASE k \notin DOMAIN t
  <2>1. k \in DOMAIN s /\ LexicalAt(t, s, k)
    BY <1>1, <1>6 DEF Parts, LexicalAt
  <2> QED
    BY <2>1 DEF Lexical
<1> QED
  BY <1>4, <1>5, <1>6

LEMMA LexicalTotal ==
    ASSUME NEW s \in Seq(Int), NEW t \in Seq(Int)
    PROVE  s = t \/ Lexical(s, t) \/ Lexical(t, s)
<1> SUFFICES ASSUME s # t
             PROVE  Lexical(s, t) \/ Lexical(t, s)
  OBVIOUS
<1>1. PICK k \in Nat \ {0} : Parts(s, t, k)
  BY PartSomewhere
<1> QED
  BY <1>1, PartedArePreceding

\* Preceding twice, at two places, is preceding at the first of the two.
LEMMA LexicalAtTwice ==
    ASSUME NEW s \in Seq(Int), NEW t \in Seq(Int), NEW u \in Seq(Int),
           NEW k \in Nat, NEW n \in Nat, LexicalAt(s, t, k), LexicalAt(t, u, n)
    PROVE  LexicalAt(s, u, IF k <= n THEN k ELSE n)
<1>1. /\ \A i \in DOMAIN s : s[i] \in Int
      /\ \A i \in DOMAIN t : t[i] \in Int
      /\ \A i \in DOMAIN u : u[i] \in Int
      /\ DOMAIN s = 1..Len(s) /\ Len(s) \in Nat
      /\ DOMAIN t = 1..Len(t) /\ Len(t) \in Nat
      /\ DOMAIN u = 1..Len(u) /\ Len(u) \in Nat
  OBVIOUS
<1>2. k \in DOMAIN t /\ n \in DOMAIN u
  BY DEF LexicalAt
<1>3. CASE k < n
  <2>1. k \in 1..n - 1
    BY <1>1, <1>2, <1>3
  <2>2. k \in DOMAIN u /\ t[k] = u[k]
    BY <2>1 DEF LexicalAt, Agree
  <2>3. Agree(s, u, k - 1)
    <3> SUFFICES ASSUME NEW j \in 1..k - 1
                 PROVE  j \in DOMAIN s /\ j \in DOMAIN u /\ s[j] = u[j]
      BY DEF Agree
    <3>1. j \in 1..n - 1
      BY <1>3
    <3> QED
      BY <3>1 DEF LexicalAt, Agree
  <2>4. k \in DOMAIN s => s[k] < u[k]
    BY <2>2 DEF LexicalAt
  <2> QED
    BY <1>3, <2>2, <2>3, <2>4 DEF LexicalAt
<1>4. CASE n < k
  <2>1. n \in 1..k - 1
    BY <1>1, <1>2, <1>4
  <2>2. n \in DOMAIN s /\ n \in DOMAIN t /\ s[n] = t[n]
    BY <2>1 DEF LexicalAt, Agree
  <2>3. Agree(s, u, n - 1)
    <3> SUFFICES ASSUME NEW j \in 1..n - 1
                 PROVE  j \in DOMAIN s /\ j \in DOMAIN u /\ s[j] = u[j]
      BY DEF Agree
    <3>1. j \in 1..k - 1
      BY <1>4
    <3> QED
      BY <3>1 DEF LexicalAt, Agree
  <2>4. s[n] < u[n]
    BY <2>2 DEF LexicalAt
  <2>5. ~(k <= n)
    BY <1>4
  <2> QED
    BY <1>2, <2>3, <2>4, <2>5 DEF LexicalAt
<1>5. CASE k = n
  <2>1. Agree(s, u, k - 1)
    BY <1>5 DEF LexicalAt, Agree
  <2>2. k \in DOMAIN s => s[k] < u[k]
    <3> HAVE k \in DOMAIN s
    <3>1. s[k] < t[k] /\ t[k] < u[k]
      BY <1>2, <1>5 DEF LexicalAt
    <3> QED
      BY <1>1, <1>2, <1>5, <3>1
  <2> QED
    BY <1>2, <1>5, <2>1, <2>2 DEF LexicalAt
<1> QED
  BY <1>3, <1>4, <1>5

LEMMA LexicalTransitive ==
    ASSUME NEW s \in Seq(Int), NEW t \in Seq(Int), NEW u \in Seq(Int),
           Lexical(s, t), Lexical(t, u)
    PROVE  Lexical(s, u)
<1>1. PICK k \in DOMAIN t : LexicalAt(s, t, k)
  BY DEF Lexical
<1>2. PICK n \in DOMAIN u : LexicalAt(t, u, n)
  BY DEF Lexical
<1>3. k \in Nat /\ n \in Nat
  OBVIOUS
<1>4. LexicalAt(s, u, IF k <= n THEN k ELSE n)
  BY <1>1, <1>2, <1>3, LexicalAtTwice
<1>5. PICK m : m = IF k <= n THEN k ELSE n
  OBVIOUS
<1>6. LexicalAt(s, u, m)
  BY <1>4, <1>5
<1>7. m \in DOMAIN u
  BY <1>6 DEF LexicalAt
<1> QED
  BY <1>6, <1>7 DEF Lexical

LEMMA LexicalIrreflexive ==
    ASSUME NEW s \in Seq(Int)
    PROVE  ~Lexical(s, s)
<1> SUFFICES ASSUME Lexical(s, s)
             PROVE  FALSE
  OBVIOUS
<1>1. PICK k \in DOMAIN s : LexicalAt(s, s, k)
  BY DEF Lexical
<1>2. s[k] \in Int /\ s[k] < s[k]
  BY <1>1 DEF LexicalAt
<1> QED
  BY <1>2

---------------------------------------------------------------------------
\* Partial functions.

LEMMA Partial ==
    ASSUME NEW D, NEW R, NEW f
    PROVE  f \in PartialFunctions(D, R) <=>
              /\ f = [x \in DOMAIN f |-> f[x]]
              /\ DOMAIN f \subseteq D
              /\ \A x \in DOMAIN f : f[x] \in R
<1>1. ASSUME f \in PartialFunctions(D, R)
      PROVE  f = [x \in DOMAIN f |-> f[x]] /\ DOMAIN f \subseteq D /\ \A x \in DOMAIN f : f[x] \in R
  <2>1. PICK S \in SUBSET D : f \in [S -> R]
    BY <1>1 DEF PartialFunctions
  <2> QED
    BY <2>1
<1>2. ASSUME f = [x \in DOMAIN f |-> f[x]], DOMAIN f \subseteq D, \A x \in DOMAIN f : f[x] \in R
      PROVE  f \in PartialFunctions(D, R)
  <2>1. f \in [DOMAIN f -> R]
    BY <1>2
  <2> QED
    BY <1>2, <2>1 DEF PartialFunctions
<1> QED
  BY <1>1, <1>2

Documents == PartialFunctions(Attrs, Values)

\* Two functions agree at x, where either may be undefined.
SameAt(p, q, x) == (x \in DOMAIN p <=> x \in DOMAIN q) /\ (x \in DOMAIN p => p[x] = q[x])

LEMMA SameEverywhere ==
    ASSUME NEW D, NEW R, NEW p \in PartialFunctions(D, R), NEW q \in PartialFunctions(D, R),
           \A x \in D : SameAt(p, q, x)
    PROVE  p = q
<1>1. /\ p = [x \in DOMAIN p |-> p[x]] /\ q = [x \in DOMAIN q |-> q[x]]
      /\ DOMAIN p \subseteq D /\ DOMAIN q \subseteq D
  BY Partial
<1>2. DOMAIN p = DOMAIN q
  BY <1>1 DEF SameAt
<1>3. \A x \in DOMAIN p : p[x] = q[x]
  BY <1>1 DEF SameAt
<1> QED
  BY <1>1, <1>2, <1>3

---------------------------------------------------------------------------
\* One record.

LEMMA PatchedAt ==
    ASSUME NEW attrs \in Documents, NEW patch \in PartialFunctions(Attrs, Values \cup {Null})
    PROVE  /\ Patched(attrs, patch) \in Documents
           /\ \A x \in Attrs \ DOMAIN patch : SameAt(Patched(attrs, patch), attrs, x)
           /\ \A x \in DOMAIN patch :
                 /\ x \in DOMAIN Patched(attrs, patch) <=> patch[x] # Null
                 /\ patch[x] # Null => Patched(attrs, patch)[x] = patch[x]
<1>1. /\ DOMAIN attrs \subseteq Attrs /\ DOMAIN patch \subseteq Attrs
      /\ \A x \in DOMAIN attrs : attrs[x] \in Values
      /\ \A x \in DOMAIN patch : patch[x] \in Values \cup {Null}
  BY Partial DEF Documents
<1> DEFINE p == Patched(attrs, patch)
<1>2. /\ p = [x \in DOMAIN p |-> p[x]]
      /\ DOMAIN p = {x \in DOMAIN attrs \cup DOMAIN patch : ~(x \in DOMAIN patch /\ patch[x] = Null)}
      /\ \A x \in DOMAIN p : p[x] = IF x \in DOMAIN patch THEN patch[x] ELSE attrs[x]
  BY DEF Patched
<1> HIDE DEF p
<1>3. DOMAIN p \subseteq Attrs /\ \A x \in DOMAIN p : p[x] \in Values
  BY <1>1, <1>2
<1>4. p \in Documents
  BY <1>2, <1>3, Partial DEF Documents
<1>5. \A x \in Attrs \ DOMAIN patch : SameAt(p, attrs, x)
  BY <1>2 DEF SameAt
<1>6. \A x \in DOMAIN patch : /\ x \in DOMAIN p <=> patch[x] # Null
                              /\ patch[x] # Null => p[x] = patch[x]
  BY <1>2
<1> QED
  BY <1>4, <1>5, <1>6 DEF p

\* Two documents that are patched alike agree where the patch says something.
LEMMA PatchedAlike ==
    ASSUME NEW a \in Documents, NEW b \in Documents,
           NEW patch \in PartialFunctions(Attrs, Values \cup {Null}), NEW x \in DOMAIN patch
    PROVE  SameAt(Patched(a, patch), Patched(b, patch), x)
  BY PatchedAt DEF SameAt

\* What a record leaves of each document.
LEMMA AppliedAt ==
    ASSUME NEW live \in LiveSets, NEW r \in Records
    PROVE  /\ Apply(live, r) \in LiveSets
           /\ r.id \in Ids
           /\ \A i \in Ids \ {r.id} : SameAt(Apply(live, r), live, i)
           /\ r.op = "upsert" => r.id \in DOMAIN Apply(live, r) /\ Apply(live, r)[r.id] = r.attrs
           /\ r.op = "delete" => r.id \notin DOMAIN Apply(live, r)
           /\ r.op = "patch" =>
                 /\ r.attrs \in PartialFunctions(Attrs, Values \cup {Null})
                 /\ r.id \in DOMAIN Apply(live, r) <=> r.id \in DOMAIN live
                 /\ r.id \in DOMAIN live => Apply(live, r)[r.id] = Patched(live[r.id], r.attrs)
           /\ r.op \in {"upsert", "patch", "delete"}
<1> DEFINE new == Apply(live, r)
<1>1. /\ r.op \in {"upsert", "patch", "delete"} /\ r.id \in Ids
      /\ r.op = "upsert" => r.attrs \in Documents
      /\ r.op = "patch" => r.attrs \in PartialFunctions(Attrs, Values \cup {Null})
  <2>1. CASE r \in Upserts
    BY <2>1 DEF Upserts, Documents
  <2>2. CASE r \in Patches
    BY <2>2 DEF Patches
  <2>3. CASE r \in Deletes
    BY <2>3 DEF Deletes
  <2> QED
    BY <2>1, <2>2, <2>3 DEF Records
<1>2. DOMAIN live \subseteq Ids /\ \A i \in DOMAIN live : live[i] \in Documents
  BY Partial DEF LiveSets, Documents
<1>3. /\ new = [i \in DOMAIN new |-> new[i]]
      /\ \A i \in DOMAIN new :
            new[i] = IF i # r.id THEN live[i]
                     ELSE IF r.op = "upsert" THEN r.attrs ELSE Patched(live[i], r.attrs)
  BY DEF Apply
<1>4. /\ r.op = "upsert" => DOMAIN new = DOMAIN live \cup {r.id}
      /\ r.op = "patch" => DOMAIN new = DOMAIN live
      /\ r.op = "delete" => DOMAIN new = DOMAIN live \ {r.id}
  BY DEF Apply
<1> HIDE DEF new
<1>5. DOMAIN new \subseteq Ids
  BY <1>1, <1>2, <1>4
<1>6. \A i \in DOMAIN new : new[i] \in Documents
  <2> SUFFICES ASSUME NEW i \in DOMAIN new PROVE new[i] \in Documents
    OBVIOUS
  <2>1. CASE i # r.id \/ r.op = "upsert"
    BY <1>1, <1>2, <1>3, <1>4, <2>1
  <2>2. CASE i = r.id /\ r.op # "upsert"
    BY <1>1, <1>2, <1>3, <1>4, <2>2, PatchedAt
  <2> QED
    BY <2>1, <2>2
<1>7. new \in LiveSets
  BY <1>3, <1>5, <1>6, Partial DEF LiveSets, Documents
<1>8. \A i \in Ids \ {r.id} : SameAt(new, live, i)
  BY <1>1, <1>3, <1>4 DEF SameAt
<1> QED
  BY <1>1, <1>3, <1>4, <1>7, <1>8 DEF new

---------------------------------------------------------------------------
\* A sequence of records.

\* The live sets that Replay goes through.
Stages(f, live, records, n) ==
    f = [k \in 0..n |-> IF k = 0 THEN live ELSE Apply(f[k - 1], records[k])]

LEMMA StagesExist ==
    ASSUME NEW live, NEW records, NEW n \in Nat
    PROVE  \E f : Stages(f, live, records, n)
<1> DEFINE S == {k \in 0..n : \E f : Stages(f, live, records, k)}
<1>1. 0 \in S
  <2>1. Stages([k \in 0..0 |-> live], live, records, 0)
    BY DEF Stages
  <2> QED
    BY <2>1
<1>2. ASSUME NEW k \in 0..n, k < n, k \in S
      PROVE  k + 1 \in S
  <2>1. PICK f : Stages(f, live, records, k)
    BY <1>2
  <2> DEFINE g == [j \in 0..(k + 1) |-> IF j = k + 1 THEN Apply(f[k], records[k + 1]) ELSE f[j]]
  <2>2. \A j \in 0..k : f[j] = IF j = 0 THEN live ELSE Apply(f[j - 1], records[j])
    BY <2>1 DEF Stages
  <2>3. ASSUME NEW j \in 0..(k + 1)
        PROVE  g[j] = IF j = 0 THEN live ELSE Apply(g[j - 1], records[j])
    <3>1. CASE j = k + 1
      BY <1>2, <3>1
    <3>2. CASE j # k + 1
      BY <1>2, <2>2, <3>2
    <3> QED
      BY <3>1, <3>2
  <2>4. g = [j \in 0..(k + 1) |-> g[j]]
    OBVIOUS
  <2> HIDE DEF g
  <2>5. Stages(g, live, records, k + 1)
    BY <2>3, <2>4 DEF Stages
  <2>6. k + 1 \in 0..n
    BY <1>2
  <2> QED
    BY <2>5, <2>6
<1> HIDE DEF S
<1>3. \A k \in 0..n : k \in S
  BY <1>1, <1>2, Upwards
<1> QED
  BY <1>3 DEF S

\* Two runs through the same records agree as far as both go.
LEMMA StagesAgree ==
    ASSUME NEW live, NEW records, NEW others, NEW m \in Nat, NEW n \in Nat, m <= n,
           NEW f, NEW g, Stages(f, live, records, m), Stages(g, live, others, n),
           \A k \in 1..m : records[k] = others[k]
    PROVE  \A k \in 0..m : f[k] = g[k]
<1> DEFINE S == {k \in 0..m : f[k] = g[k]}
<1>1. /\ \A k \in 0..m : f[k] = IF k = 0 THEN live ELSE Apply(f[k - 1], records[k])
      /\ \A k \in 0..n : g[k] = IF k = 0 THEN live ELSE Apply(g[k - 1], others[k])
  BY DEF Stages
<1>2. 0 \in S
  BY <1>1
<1>3. ASSUME NEW k \in 0..m, k < m, k \in S
      PROVE  k + 1 \in S
  <2>1. k + 1 \in 0..m /\ k + 1 \in 0..n /\ k + 1 \in 1..m /\ (k + 1) - 1 = k /\ k + 1 # 0
    BY <1>3
  <2>2. f[k + 1] = Apply(f[k], records[k + 1]) /\ g[k + 1] = Apply(g[k], others[k + 1])
    BY <1>1, <2>1
  <2> QED
    BY <1>3, <2>1, <2>2
<1> HIDE DEF S
<1>4. \A k \in 0..m : k \in S
  BY <1>2, <1>3, Upwards
<1> QED
  BY <1>4 DEF S

LEMMA ReplayLast ==
    ASSUME NEW live, NEW records, Len(records) \in Nat
    PROVE  \E f : Stages(f, live, records, Len(records)) /\ Replay(live, records) = f[Len(records)]
<1>1. Replay(live, records) = (CHOOSE f : Stages(f, live, records, Len(records)))[Len(records)]
  BY Zenon DEF Replay, Stages
<1> QED
  BY <1>1, StagesExist

LEMMA ReplayNone ==
    ASSUME NEW live, NEW records, Len(records) = 0
    PROVE  Replay(live, records) = live
<1>1. PICK f : Stages(f, live, records, 0) /\ Replay(live, records) = f[0]
  BY ReplayLast
<1> QED
  BY <1>1 DEF Stages

\* The last record is applied to what the others make.
LEMMA ReplayOneMore ==
    ASSUME NEW live, NEW S, NEW records \in Seq(S), NEW less \in Seq(S),
           Len(records) = Len(less) + 1, \A k \in 1..Len(less) : less[k] = records[k]
    PROVE  Replay(live, records) = Apply(Replay(live, less), records[Len(records)])
<1> DEFINE n == Len(less)
<1>0. n \in Nat /\ Len(records) = n + 1
  OBVIOUS
<1>1. PICK f : Stages(f, live, less, n) /\ Replay(live, less) = f[n]
  BY <1>0, ReplayLast
<1>2. PICK g : Stages(g, live, records, n + 1) /\ Replay(live, records) = g[n + 1]
  BY <1>0, ReplayLast
<1> HIDE DEF n
<1>3. f[n] = g[n]
  <2>1. \A k \in 1..n : less[k] = records[k]
    BY DEF n
  <2>2. \A k \in 0..n : f[k] = g[k]
    BY <1>0, <1>1, <1>2, <2>1, StagesAgree
  <2> QED
    BY <1>0, <2>2
<1>4. g[n + 1] = Apply(g[n], records[n + 1])
  BY <1>0, <1>2 DEF Stages
<1> QED
  BY <1>0, <1>1, <1>2, <1>3, <1>4

LEMMA ReplayLive ==
    ASSUME NEW live \in LiveSets, NEW records \in Seq(Records)
    PROVE  Replay(live, records) \in LiveSets
<1> DEFINE n == Len(records)
<1>0. n \in Nat /\ \A k \in 1..n : records[k] \in Records
  OBVIOUS
<1>1. PICK f : Stages(f, live, records, n) /\ Replay(live, records) = f[n]
  BY ReplayLast
<1> HIDE DEF n
<1> DEFINE S == {k \in 0..n : f[k] \in LiveSets}
<1>2. \A k \in 0..n : f[k] = IF k = 0 THEN live ELSE Apply(f[k - 1], records[k])
  BY <1>1 DEF Stages
<1>3. 0 \in S
  BY <1>0, <1>2
<1>4. ASSUME NEW k \in 0..n, k < n, k \in S
      PROVE  k + 1 \in S
  <2>1. k + 1 \in 0..n /\ k + 1 \in 1..n /\ (k + 1) - 1 = k /\ k + 1 # 0
    BY <1>0, <1>4
  <2>2. f[k + 1] = Apply(f[k], records[k + 1])
    BY <1>2, <2>1
  <2>3. f[k + 1] \in LiveSets
    BY <1>0, <1>4, <2>1, <2>2, AppliedAt
  <2> QED
    BY <2>1, <2>3
<1> HIDE DEF S
<1>5. \A k \in 0..n : k \in S
  BY <1>0, <1>3, <1>4, Upwards
<1>6. n \in S
  BY <1>0, <1>5
<1> QED
  BY <1>1, <1>6 DEF S

---------------------------------------------------------------------------
\* What is already folded may be replayed once more.

\* b agrees with a or with l, attribute by attribute, on the documents about whose
\* existence a and l agree.
Between(b, a, l) ==
    \A i \in Ids : (i \in DOMAIN a <=> i \in DOMAIN l) =>
        /\ i \in DOMAIN b <=> i \in DOMAIN l
        /\ i \in DOMAIN l => \A x \in Attrs : SameAt(b[i], a[i], x) \/ SameAt(b[i], l[i], x)

LEMMA BetweenStart ==
    ASSUME NEW a, NEW l
    PROVE  Between(l, a, l)
  BY DEF Between, SameAt

LEMMA BetweenEnd ==
    ASSUME NEW b \in LiveSets, NEW l \in LiveSets, Between(b, l, l)
    PROVE  b = l
<1>1. DOMAIN b \subseteq Ids /\ DOMAIN l \subseteq Ids
  BY Partial DEF LiveSets
<1>2. \A i \in DOMAIN b : b[i] \in Documents
  BY Partial DEF LiveSets, Documents
<1>3. \A i \in DOMAIN l : l[i] \in Documents
  BY Partial DEF LiveSets, Documents
<1>4. DOMAIN b = DOMAIN l
  BY <1>1 DEF Between
<1>5. ASSUME NEW i \in Ids PROVE SameAt(b, l, i)
  <2>1. ASSUME i \in DOMAIN l PROVE b[i] = l[i]
    <3>1. b[i] \in Documents /\ l[i] \in Documents
      BY <1>2, <1>3, <1>4, <2>1
    <3>2. \A x \in Attrs : SameAt(b[i], l[i], x)
      BY <2>1 DEF Between
    <3> QED
      BY <3>1, <3>2, SameEverywhere DEF Documents
  <2> QED
    BY <1>4, <2>1 DEF SameAt
<1> QED
  BY <1>5, SameEverywhere DEF LiveSets

LEMMA BetweenApply ==
    ASSUME NEW b \in LiveSets, NEW a \in LiveSets, NEW l \in LiveSets, NEW r \in Records,
           Between(b, a, l)
    PROVE  Between(Apply(b, r), Apply(a, r), l)
<1> DEFINE a1 == Apply(a, r)
           b1 == Apply(b, r)
<1>0. /\ a1 \in LiveSets /\ b1 \in LiveSets /\ r.id \in Ids
      /\ r.op \in {"upsert", "patch", "delete"}
      /\ \A i \in Ids \ {r.id} : SameAt(a1, a, i) /\ SameAt(b1, b, i)
  BY AppliedAt
<1>1. r.op = "upsert" => /\ r.id \in DOMAIN a1 /\ a1[r.id] = r.attrs
                         /\ r.id \in DOMAIN b1 /\ b1[r.id] = r.attrs
  BY AppliedAt
<1>2. r.op = "delete" => r.id \notin DOMAIN a1 /\ r.id \notin DOMAIN b1
  BY AppliedAt
<1>3. r.op = "patch" => /\ r.attrs \in PartialFunctions(Attrs, Values \cup {Null})
                        /\ r.id \in DOMAIN a1 <=> r.id \in DOMAIN a
                        /\ r.id \in DOMAIN b1 <=> r.id \in DOMAIN b
                        /\ r.id \in DOMAIN a => a1[r.id] = Patched(a[r.id], r.attrs)
                        /\ r.id \in DOMAIN b => b1[r.id] = Patched(b[r.id], r.attrs)
  BY AppliedAt
<1> HIDE DEF a1, b1
<1>4. /\ \A i \in DOMAIN a : a[i] \in Documents
      /\ \A i \in DOMAIN b : b[i] \in Documents
      /\ \A i \in DOMAIN l : l[i] \in Documents
  BY Partial DEF LiveSets, Documents
<1> SUFFICES ASSUME NEW i \in Ids, i \in DOMAIN a1 <=> i \in DOMAIN l
             PROVE  /\ i \in DOMAIN b1 <=> i \in DOMAIN l
                    /\ i \in DOMAIN l =>
                          \A x \in Attrs : SameAt(b1[i], a1[i], x) \/ SameAt(b1[i], l[i], x)
  BY DEF Between, a1, b1
<1>5. CASE i # r.id
  BY <1>0, <1>5 DEF Between, SameAt
<1>6. CASE i = r.id /\ r.op = "upsert"
  BY <1>1, <1>6 DEF SameAt
<1>7. CASE i = r.id /\ r.op = "delete"
  BY <1>2, <1>7
<1>8. CASE i = r.id /\ r.op = "patch"
  <2>1. i \in DOMAIN a <=> i \in DOMAIN l
    BY <1>3, <1>8
  <2>2. /\ i \in DOMAIN b <=> i \in DOMAIN l
        /\ i \in DOMAIN l => \A x \in Attrs : SameAt(b[i], a[i], x) \/ SameAt(b[i], l[i], x)
    BY <2>1 DEF Between
  <2>3. ASSUME i \in DOMAIN l, NEW x \in Attrs
        PROVE  SameAt(b1[i], a1[i], x) \/ SameAt(b1[i], l[i], x)
    <3>1. /\ a[i] \in Documents /\ b[i] \in Documents
          /\ r.attrs \in PartialFunctions(Attrs, Values \cup {Null})
          /\ a1[i] = Patched(a[i], r.attrs) /\ b1[i] = Patched(b[i], r.attrs)
      BY <1>3, <1>4, <1>8, <2>1, <2>2, <2>3
    <3>2. CASE x \in DOMAIN r.attrs
      BY <3>1, <3>2, PatchedAlike
    <3>3. CASE x \notin DOMAIN r.attrs
      <4>1. SameAt(a1[i], a[i], x) /\ SameAt(b1[i], b[i], x)
        BY <3>1, <3>3, PatchedAt
      <4> QED
        BY <2>2, <2>3, <4>1 DEF SameAt
    <3> QED
      BY <3>2, <3>3
  <2> QED
    BY <1>3, <1>8, <2>2, <2>3
<1> QED
  BY <1>0, <1>5, <1>6, <1>7, <1>8

LEMMA BetweenReplay ==
    ASSUME NEW b \in LiveSets, NEW a \in LiveSets, NEW l \in LiveSets,
           NEW records \in Seq(Records), Between(b, a, l)
    PROVE  Between(Replay(b, records), Replay(a, records), l)
<1> DEFINE n == Len(records)
<1>0. n \in Nat /\ \A k \in 1..n : records[k] \in Records
  OBVIOUS
<1>1. PICK f : Stages(f, a, records, n) /\ Replay(a, records) = f[n]
  BY ReplayLast
<1>2. PICK g : Stages(g, b, records, n) /\ Replay(b, records) = g[n]
  BY ReplayLast
<1> HIDE DEF n
<1>3. \A k \in 0..n : f[k] = IF k = 0 THEN a ELSE Apply(f[k - 1], records[k])
  BY <1>1 DEF Stages
<1>4. \A k \in 0..n : g[k] = IF k = 0 THEN b ELSE Apply(g[k - 1], records[k])
  BY <1>2 DEF Stages
<1> DEFINE S == {k \in 0..n : f[k] \in LiveSets /\ g[k] \in LiveSets /\ Between(g[k], f[k], l)}
<1>5. 0 \in S
  BY <1>0, <1>3, <1>4
<1>6. ASSUME NEW k \in 0..n, k < n, k \in S
      PROVE  k + 1 \in S
  <2>1. k + 1 \in 0..n /\ k + 1 \in 1..n /\ (k + 1) - 1 = k /\ k + 1 # 0
    BY <1>0, <1>6
  <2>2. f[k + 1] = Apply(f[k], records[k + 1]) /\ g[k + 1] = Apply(g[k], records[k + 1])
    BY <1>3, <1>4, <2>1
  <2>3. records[k + 1] \in Records
    BY <1>0, <2>1
  <2>4. f[k + 1] \in LiveSets /\ g[k + 1] \in LiveSets
    BY <1>6, <2>2, <2>3, AppliedAt
  <2>5. Between(g[k + 1], f[k + 1], l)
    BY <1>6, <2>2, <2>3, BetweenApply
  <2> QED
    BY <2>1, <2>4, <2>5
<1> HIDE DEF S
<1>7. \A k \in 0..n : k \in S
  BY <1>0, <1>5, <1>6, Upwards
<1>8. n \in S
  BY <1>0, <1>7
<1> QED
  BY <1>1, <1>2, <1>8 DEF S

---------------------------------------------------------------------------
\* A sequence of batches, each of them a sequence of records.

\* The live sets that ReplayAll goes through.
Rounds(f, live, batches, n) ==
    f = [k \in 0..n |-> IF k = 0 THEN live ELSE Replay(f[k - 1], batches[k])]

LEMMA RoundsExist ==
    ASSUME NEW live, NEW batches, NEW n \in Nat
    PROVE  \E f : Rounds(f, live, batches, n)
<1> DEFINE S == {k \in 0..n : \E f : Rounds(f, live, batches, k)}
<1>1. 0 \in S
  <2>1. Rounds([k \in 0..0 |-> live], live, batches, 0)
    BY DEF Rounds
  <2> QED
    BY <2>1
<1>2. ASSUME NEW k \in 0..n, k < n, k \in S
      PROVE  k + 1 \in S
  <2>1. PICK f : Rounds(f, live, batches, k)
    BY <1>2
  <2> DEFINE g == [j \in 0..(k + 1) |-> IF j = k + 1 THEN Replay(f[k], batches[k + 1]) ELSE f[j]]
  <2>2. \A j \in 0..k : f[j] = IF j = 0 THEN live ELSE Replay(f[j - 1], batches[j])
    BY <2>1 DEF Rounds
  <2>3. ASSUME NEW j \in 0..(k + 1)
        PROVE  g[j] = IF j = 0 THEN live ELSE Replay(g[j - 1], batches[j])
    <3>1. CASE j = k + 1
      BY <1>2, <3>1
    <3>2. CASE j # k + 1
      BY <1>2, <2>2, <3>2
    <3> QED
      BY <3>1, <3>2
  <2>4. g = [j \in 0..(k + 1) |-> g[j]]
    OBVIOUS
  <2> HIDE DEF g
  <2>5. Rounds(g, live, batches, k + 1)
    BY <2>3, <2>4 DEF Rounds
  <2>6. k + 1 \in 0..n
    BY <1>2
  <2> QED
    BY <2>5, <2>6
<1> HIDE DEF S
<1>3. \A k \in 0..n : k \in S
  BY <1>1, <1>2, Upwards
<1> QED
  BY <1>3 DEF S

\* Two runs through the same batches agree as far as both go.
LEMMA RoundsAgree ==
    ASSUME NEW live, NEW batches, NEW others, NEW m \in Nat, NEW n \in Nat, m <= n,
           NEW f, NEW g, Rounds(f, live, batches, m), Rounds(g, live, others, n),
           \A k \in 1..m : batches[k] = others[k]
    PROVE  \A k \in 0..m : f[k] = g[k]
<1> DEFINE S == {k \in 0..m : f[k] = g[k]}
<1>1. /\ \A k \in 0..m : f[k] = IF k = 0 THEN live ELSE Replay(f[k - 1], batches[k])
      /\ \A k \in 0..n : g[k] = IF k = 0 THEN live ELSE Replay(g[k - 1], others[k])
  BY DEF Rounds
<1>2. 0 \in S
  BY <1>1
<1>3. ASSUME NEW k \in 0..m, k < m, k \in S
      PROVE  k + 1 \in S
  <2>1. k + 1 \in 0..m /\ k + 1 \in 0..n /\ k + 1 \in 1..m /\ (k + 1) - 1 = k /\ k + 1 # 0
    BY <1>3
  <2>2. f[k + 1] = Replay(f[k], batches[k + 1]) /\ g[k + 1] = Replay(g[k], others[k + 1])
    BY <1>1, <2>1
  <2> QED
    BY <1>3, <2>1, <2>2
<1> HIDE DEF S
<1>4. \A k \in 0..m : k \in S
  BY <1>2, <1>3, Upwards
<1> QED
  BY <1>4 DEF S

LEMMA ReplayAllLast ==
    ASSUME NEW live, NEW batches, Len(batches) \in Nat
    PROVE  \E f : Rounds(f, live, batches, Len(batches)) /\ ReplayAll(live, batches) = f[Len(batches)]
<1>1. ReplayAll(live, batches) = (CHOOSE f : Rounds(f, live, batches, Len(batches)))[Len(batches)]
  BY Zenon DEF ReplayAll, Rounds
<1> QED
  BY <1>1, RoundsExist

LEMMA NoBatches ==
    ASSUME NEW live, NEW batches, Len(batches) = 0
    PROVE  ReplayAll(live, batches) = live
<1>1. PICK f : Rounds(f, live, batches, 0) /\ ReplayAll(live, batches) = f[0]
  BY ReplayAllLast
<1> QED
  BY <1>1 DEF Rounds

\* The last batch is replayed over what the others make.
LEMMA OneMoreBatch ==
    ASSUME NEW live, NEW S, NEW batches \in Seq(S), NEW less \in Seq(S),
           Len(batches) = Len(less) + 1, \A k \in 1..Len(less) : less[k] = batches[k]
    PROVE  ReplayAll(live, batches) = Replay(ReplayAll(live, less), batches[Len(batches)])
<1> DEFINE n == Len(less)
<1>0. n \in Nat /\ Len(batches) = n + 1
  OBVIOUS
<1>1. PICK f : Rounds(f, live, less, n) /\ ReplayAll(live, less) = f[n]
  BY <1>0, ReplayAllLast
<1>2. PICK g : Rounds(g, live, batches, n + 1) /\ ReplayAll(live, batches) = g[n + 1]
  BY <1>0, ReplayAllLast
<1> HIDE DEF n
<1>3. f[n] = g[n]
  <2>1. \A k \in 1..n : less[k] = batches[k]
    BY DEF n
  <2>2. \A k \in 0..n : f[k] = g[k]
    BY <1>0, <1>1, <1>2, <2>1, RoundsAgree
  <2> QED
    BY <1>0, <2>2
<1>4. g[n + 1] = Replay(g[n], batches[n + 1])
  BY <1>0, <1>2 DEF Rounds
<1> QED
  BY <1>0, <1>1, <1>2, <1>3, <1>4

\* The live set after the first k batches.
After(batches, k) == ReplayAll(NoDocs, [i \in 1..k |-> batches[i]])

LEMMA NoDocsLive == NoDocs \in LiveSets
  BY Partial DEF NoDocs, LiveSets

\* One more batch of a longer run, over any live set.
LEMMA NextRound ==
    ASSUME NEW live, NEW batches, NEW k \in Nat, \A i \in 1..(k + 1) : batches[i] \in Seq(Records)
    PROVE  ReplayAll(live, [i \in 1..(k + 1) |-> batches[i]]) =
               Replay(ReplayAll(live, [i \in 1..k |-> batches[i]]), batches[k + 1])
<1> DEFINE more == [i \in 1..(k + 1) |-> batches[i]]
           less == [i \in 1..k |-> batches[i]]
<1>1. more \in Seq(Seq(Records)) /\ less \in Seq(Seq(Records))
  OBVIOUS
<1>2. Len(more) = Len(less) + 1 /\ more[Len(more)] = batches[k + 1]
  OBVIOUS
<1>3. \A i \in 1..Len(less) : less[i] = more[i]
  OBVIOUS
<1> HIDE DEF more, less
<1>4. ReplayAll(live, more) = Replay(ReplayAll(live, less), more[Len(more)])
  BY <1>1, <1>2, <1>3, OneMoreBatch
<1> QED
  BY <1>2, <1>4 DEF more, less

LEMMA FirstRound ==
    ASSUME NEW live, NEW batches
    PROVE  ReplayAll(live, [i \in 1..0 |-> batches[i]]) = live
<1>1. Len([i \in 1..0 |-> batches[i]]) = 0
  OBVIOUS
<1> QED
  BY <1>1, NoBatches

LEMMA AfterLive ==
    ASSUME NEW batches, NEW n \in Nat, \A i \in 1..n : batches[i] \in Seq(Records)
    PROVE  \A k \in 0..n : After(batches, k) \in LiveSets
<1> DEFINE S == {k \in 0..n : After(batches, k) \in LiveSets}
<1>1. 0 \in S
  BY FirstRound, NoDocsLive DEF After
<1>2. ASSUME NEW k \in 0..n, k < n, k \in S
      PROVE  k + 1 \in S
  <2>1. k \in Nat /\ k + 1 \in 1..n /\ \A i \in 1..(k + 1) : batches[i] \in Seq(Records)
    BY <1>2
  <2>2. After(batches, k + 1) = Replay(After(batches, k), batches[k + 1])
    BY <2>1, NextRound DEF After
  <2>3. After(batches, k + 1) \in LiveSets
    BY <1>2, <2>1, <2>2, ReplayLive
  <2> QED
    BY <2>1, <2>3
<1> HIDE DEF S
<1>3. \A k \in 0..n : k \in S
  BY <1>1, <1>2, Upwards
<1> QED
  BY <1>3 DEF S

\* Over the live set after k batches, the batches from the one after lo on make the
\* live set after n, whatever part of them was in it already.
THEOREM Refolded ==
    ASSUME NEW batches, NEW n \in Nat, \A i \in 1..n : batches[i] \in Seq(Records),
           NEW lo \in 0..n, NEW k \in lo..n
    PROVE  ReplayAll(After(batches, k), [i \in 1..(n - lo) |-> batches[lo + i]]) =
               After(batches, n)
<1> DEFINE rest == [i \in 1..(n - lo) |-> batches[lo + i]]
           A(j) == After(batches, j)
           G(j) == ReplayAll(A(k), [i \in 1..j |-> rest[i]])
<1>1. /\ lo \in Nat /\ k \in Nat /\ lo <= k /\ k <= n /\ k - lo \in Nat /\ n - k \in Nat
      /\ n - lo \in Nat /\ k - lo <= n - lo
  OBVIOUS
<1>2. \A i \in 1..(n - lo) : rest[i] = batches[lo + i] /\ rest[i] \in Seq(Records)
  BY <1>1
<1>3. rest = [i \in 1..(n - lo) |-> rest[i]]
  OBVIOUS
<1> HIDE DEF rest
<1>4. \A j \in 0..n : A(j) \in LiveSets
  BY AfterLive
<1>5. \A j \in 0..n : j < n => A(j + 1) = Replay(A(j), batches[j + 1])
  <2> SUFFICES ASSUME NEW j \in 0..n, j < n PROVE A(j + 1) = Replay(A(j), batches[j + 1])
    OBVIOUS
  <2>1. j \in Nat /\ \A i \in 1..(j + 1) : batches[i] \in Seq(Records)
    OBVIOUS
  <2> QED
    BY <2>1, NextRound DEF After
<1>6. G(0) = A(k)
  BY FirstRound
<1>7. \A j \in 0..(n - lo) : j < n - lo => G(j + 1) = Replay(G(j), batches[lo + j + 1])
  <2> SUFFICES ASSUME NEW j \in 0..(n - lo), j < n - lo
               PROVE  G(j + 1) = Replay(G(j), batches[lo + j + 1])
    OBVIOUS
  <2>1. j \in Nat /\ \A i \in 1..(j + 1) : rest[i] \in Seq(Records)
    BY <1>1, <1>2
  <2>2. j + 1 \in 1..(n - lo) /\ lo + (j + 1) = lo + j + 1
    BY <1>1
  <2>3. G(j + 1) = Replay(G(j), rest[j + 1])
    BY <2>1, NextRound
  <2> QED
    BY <1>2, <2>2, <2>3
<1>8. \A j \in 1..n : batches[j] \in Seq(Records)
  OBVIOUS
<1> HIDE DEF A, G
<1>9. G(k - lo) = A(k)
  <2> DEFINE S == {j \in 0..(k - lo) : G(j) \in LiveSets /\ Between(G(j), A(lo + j), A(k))}
  <2>1. 0 \in S
    BY <1>1, <1>4, <1>6, BetweenStart
  <2>2. ASSUME NEW j \in 0..(k - lo), j < k - lo, j \in S
        PROVE  j + 1 \in S
    <3>1. /\ j \in 0..(n - lo) /\ j < n - lo /\ lo + j \in 0..n /\ lo + j < n
          /\ lo + j + 1 \in 1..n /\ lo + j + 1 = lo + (j + 1) /\ (lo + j) + 1 = lo + j + 1
          /\ j + 1 \in 0..(k - lo) /\ k \in 0..n
      BY <1>1, <2>2
    <3> DEFINE r == batches[lo + j + 1]
    <3>2. r \in Seq(Records)
      BY <1>8, <3>1
    <3>3. G(j + 1) = Replay(G(j), r) /\ A(lo + j + 1) = Replay(A(lo + j), r)
      BY <1>5, <1>7, <3>1
    <3> HIDE DEF r
    <3>4. G(j) \in LiveSets /\ A(lo + j) \in LiveSets /\ A(k) \in LiveSets
      BY <1>4, <2>2, <3>1
    <3>5. Between(Replay(G(j), r), Replay(A(lo + j), r), A(k))
      BY <2>2, <3>2, <3>4, BetweenReplay
    <3>6. Replay(G(j), r) \in LiveSets
      BY <3>2, <3>4, ReplayLive
    <3> QED
      BY <3>1, <3>3, <3>5, <3>6
  <2> HIDE DEF S
  <2>3. \A j \in 0..(k - lo) : j \in S
    BY <1>1, <2>1, <2>2, Upwards
  <2>4. k - lo \in S /\ lo + (k - lo) = k /\ k \in 0..n
    BY <1>1, <2>3
  <2>5. G(k - lo) \in LiveSets /\ Between(G(k - lo), A(k), A(k))
    BY <2>4 DEF S
  <2> QED
    BY <1>4, <2>4, <2>5, BetweenEnd
<1>10. G(n - lo) = A(n)
  <2> DEFINE S == {j \in 0..(n - k) : G((k - lo) + j) = A(k + j)}
  <2>1. 0 \in S
    BY <1>1, <1>9
  <2>2. ASSUME NEW j \in 0..(n - k), j < n - k, j \in S
        PROVE  j + 1 \in S
    <3>1. /\ (k - lo) + j \in 0..(n - lo) /\ (k - lo) + j < n - lo
          /\ k + j \in 0..n /\ k + j < n
          /\ lo + ((k - lo) + j) + 1 = (k + j) + 1
          /\ ((k - lo) + j) + 1 = (k - lo) + (j + 1) /\ (k + j) + 1 = k + (j + 1)
          /\ j + 1 \in 0..(n - k)
      BY <1>1, <2>2
    <3>2. G(((k - lo) + j) + 1) = Replay(G((k - lo) + j), batches[(k + j) + 1])
      BY <1>7, <3>1
    <3>3. A((k + j) + 1) = Replay(A(k + j), batches[(k + j) + 1])
      BY <1>5, <3>1
    <3> QED
      BY <2>2, <3>1, <3>2, <3>3
  <2> HIDE DEF S
  <2>3. \A j \in 0..(n - k) : j \in S
    BY <1>1, <2>1, <2>2, Upwards
  <2>4. n - k \in S /\ (k - lo) + (n - k) = n - lo /\ k + (n - k) = n
    BY <1>1, <2>3
  <2> QED
    BY <2>4 DEF S
<1> QED
  BY <1>3, <1>10 DEF A, G, rest

=============================================================================
