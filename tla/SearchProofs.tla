---------------------------- MODULE SearchProofs ----------------------------
(***************************************************************************)
(* Proofs about what a namespace answers (module Search) and about the     *)
(* requests that ask it (module CompatApi).                                *)
(*                                                                         *)
(* First what the model's operators do, for sequences, maps and sorted     *)
(* sets of any length.  Then the schema: that the documents that are stored*)
(* agree with it whatever is written.  The shards: that the segments and   *)
(* the tail add up to what was written, through any compactions.  The      *)
(* indexes: that what they select is what the scan finds.  Last the rows   *)
(* of a request: that each gets its own vector.                            *)
(***************************************************************************)
EXTENDS CompatApi, FiniteSetTheorems, FunctionTheorems, SequenceTheorems, TLAPS

\* What holds of any replay holds of the one the namespace uses.
Replays == INSTANCE DocumentsProofs WITH Ids <- {}, Attrs <- {}, Values <- {}, Null <- NullValue

---------------------------------------------------------------------------
\* Sequences of no type in particular.

IsSequence(s) == Len(s) \in Nat /\ s = [k \in 1..Len(s) |-> s[k]]

\* A function on the first n numbers is a sequence of n elements.
LEMMA MadeSequence ==
    ASSUME NEW n \in Nat, NEW s, s = [k \in 1..n |-> s[k]]
    PROVE  IsSequence(s) /\ Len(s) = n /\ DOMAIN s = 1..n /\ s \in Seq({s[k] : k \in 1..n})
<1> DEFINE S == {s[k] : k \in 1..n}
<1>1. s \in [1..n -> S]
  OBVIOUS
<1>2. s \in Seq(S)
  BY <1>1
<1>3. Len(s) = n
  BY <1>1, <1>2
<1> QED
  BY <1>2, <1>3 DEF IsSequence

LEMMA SequenceOf ==
    ASSUME NEW s, IsSequence(s)
    PROVE  DOMAIN s = 1..Len(s) /\ s \in Seq({s[k] : k \in 1..Len(s)})
  BY MadeSequence DEF IsSequence

LEMMA Joined2 ==
    ASSUME NEW s, NEW t, IsSequence(s), IsSequence(t)
    PROVE  /\ IsSequence(s \o t)
           /\ Len(s \o t) = Len(s) + Len(t)
           /\ \A k \in 1..Len(s) : (s \o t)[k] = s[k]
           /\ \A k \in 1..Len(t) : (s \o t)[Len(s) + k] = t[k]
<1> DEFINE S == {s[k] : k \in 1..Len(s)} \cup {t[k] : k \in 1..Len(t)}
<1>1. s \in [1..Len(s) -> S] /\ t \in [1..Len(t) -> S] /\ Len(s) \in Nat /\ Len(t) \in Nat
  BY DEF IsSequence
<1>2. s \in Seq(S) /\ t \in Seq(S)
  BY <1>1
<1> HIDE DEF S
<1>3. /\ s \o t \in Seq(S)
      /\ Len(s \o t) = Len(s) + Len(t)
      /\ \A k \in 1..Len(s) : (s \o t)[k] = s[k]
      /\ \A k \in 1..Len(t) : (s \o t)[Len(s) + k] = t[k]
  BY <1>1, <1>2
<1>4. Len(s \o t) \in Nat /\ s \o t \in [1..Len(s \o t) -> S]
  BY <1>3, LenProperties
<1>5. s \o t = [k \in 1..Len(s \o t) |-> (s \o t)[k]]
  BY <1>4
<1>6. IsSequence(s \o t)
  BY <1>4, <1>5 DEF IsSequence
<1> QED
  BY <1>3, <1>6

---------------------------------------------------------------------------
\* Replaying records.

LEMMA SameReplay ==
    ASSUME NEW documents, NEW records
    PROVE  Docs!Replay(documents, records) = Replays!Replay(documents, records)
  BY Zenon DEF Docs!Replay, Replays!Replay, Docs!Apply, Replays!Apply,
               Docs!Patched, Replays!Patched

\* The documents a replay goes through.
LEMMA ReplayStages ==
    ASSUME NEW documents, NEW records, Len(records) \in Nat
    PROVE  \E f : /\ Replays!Stages(f, documents, records, Len(records))
                  /\ Docs!Replay(documents, records) = f[Len(records)]
  BY Replays!ReplayLast, SameReplay

LEMMA StageAt ==
    ASSUME NEW f, NEW documents, NEW records, NEW n \in Nat,
           Replays!Stages(f, documents, records, n)
    PROVE  /\ f[0] = documents
           /\ \A k \in 0..n : k < n => f[k + 1] = Docs!Apply(f[k], records[k + 1])
<1>1. \A k \in 0..n : f[k] = IF k = 0 THEN documents ELSE Replays!Apply(f[k - 1], records[k])
  BY DEF Replays!Stages
<1>2. ASSUME NEW d, NEW r
      PROVE  Replays!Apply(d, r) = Docs!Apply(d, r)
  BY Zenon DEF Docs!Apply, Replays!Apply, Docs!Patched, Replays!Patched
<1>3. ASSUME NEW k \in 0..n, k < n
      PROVE  f[k + 1] = Docs!Apply(f[k], records[k + 1])
  <2>1. k + 1 \in 0..n /\ k + 1 # 0 /\ (k + 1) - 1 = k
    BY <1>3
  <2>2. f[k + 1] = Replays!Apply(f[k], records[k + 1])
    BY <1>1, <2>1
  <2> QED
    BY <1>2, <2>2
<1> QED
  BY <1>1, <1>3

\* Records after others are replayed over what those make.
LEMMA StagesMeet ==
    ASSUME NEW documents, NEW s, NEW u, NEW m \in Nat, NEW p \in Nat, m <= p,
           \A k \in 1..m : s[k] = u[k],
           NEW f, Replays!Stages(f, documents, u, p),
           NEW g, Replays!Stages(g, documents, s, m)
    PROVE  g[m] = f[m]
<1>1. \A k \in 0..m : g[k] = f[k]
  BY Replays!StagesAgree
<1> QED
  BY <1>1

\* u has p elements: the m of s, then the n of t.
Joins(u, p, s, m, t, n) ==
    /\ p \in Nat /\ m \in Nat /\ n \in Nat /\ p = m + n
    /\ \A k \in 1..m : s[k] = u[k]
    /\ \A k \in 1..n : t[k] = u[m + k]

LEMMA StagesFollow ==
    ASSUME NEW documents, NEW s, NEW t, NEW u, NEW m, NEW n, NEW p, Joins(u, p, s, m, t, n),
           NEW f, Replays!Stages(f, documents, u, p),
           NEW h, Replays!Stages(h, f[m], t, n)
    PROVE  f[p] = h[n]
<1>1. p \in Nat /\ m \in Nat /\ n \in Nat
  BY DEF Joins
<1>2. /\ \A k \in 0..p : k < p => f[k + 1] = Docs!Apply(f[k], u[k + 1])
      /\ \A k \in 0..n : k < n => h[k + 1] = Docs!Apply(h[k], t[k + 1])
      /\ h[0] = f[m]
  BY <1>1, StageAt
<1>3. p = m + n /\ \A k \in 1..n : t[k] = u[m + k]
  BY DEF Joins
<1> DEFINE S == {j \in 0..n : f[m + j] = h[j]}
<1>4. 0 \in S
  BY <1>1, <1>2
<1>5. ASSUME NEW k \in 0..n, k < n, k \in S
      PROVE  k + 1 \in S
  <2>1. m + k \in 0..p /\ m + k < p /\ (m + k) + 1 = m + (k + 1)
        /\ k + 1 \in 1..n /\ k + 1 \in 0..n
    BY <1>1, <1>3, <1>5
  <2>2. f[(m + k) + 1] = Docs!Apply(f[m + k], u[(m + k) + 1])
    BY <1>2, <2>1
  <2>3. h[k + 1] = Docs!Apply(h[k], t[k + 1])
    BY <1>2, <1>5
  <2>4. f[m + (k + 1)] = h[k + 1]
    BY <1>3, <1>5, <2>1, <2>2, <2>3
  <2> QED
    BY <2>1, <2>4
<1> HIDE DEF S
<1>6. \A k \in 0..n : k \in S
  BY <1>1, <1>4, <1>5, Replays!Upwards
<1> QED
  BY <1>1, <1>3, <1>6 DEF S

LEMMA ReplaySplit ==
    ASSUME NEW documents, NEW s, NEW t, NEW u, Joins(u, Len(u), s, Len(s), t, Len(t))
    PROVE  Docs!Replay(documents, u) = Docs!Replay(Docs!Replay(documents, s), t)
<1>0. SUFFICES ASSUME NEW m, NEW n, NEW p, m = Len(s), n = Len(t), p = Len(u),
                      Joins(u, p, s, m, t, n)
               PROVE  Docs!Replay(documents, u) = Docs!Replay(Docs!Replay(documents, s), t)
  OBVIOUS
<1>1. Joins(u, p, s, m, t, n)
  BY <1>0
<1>2. m \in Nat /\ n \in Nat /\ p \in Nat /\ m <= p /\ \A k \in 1..m : s[k] = u[k]
  BY <1>1 DEF Joins
<1>3. PICK f : Replays!Stages(f, documents, u, p) /\ Docs!Replay(documents, u) = f[p]
  BY <1>0, <1>2, ReplayStages
<1>4. PICK g : Replays!Stages(g, documents, s, m) /\ Docs!Replay(documents, s) = g[m]
  BY <1>0, <1>2, ReplayStages
<1>5. PICK h : Replays!Stages(h, g[m], t, n) /\ Docs!Replay(g[m], t) = h[n]
  BY <1>0, <1>2, ReplayStages
<1>6. g[m] = f[m]
  BY <1>2, <1>3, <1>4, StagesMeet
<1>7. Replays!Stages(h, f[m], t, n)
  BY <1>5, <1>6
<1>8. f[p] = h[n]
  BY <1>1, <1>3, <1>7, StagesFollow
<1> QED
  BY <1>3, <1>4, <1>5, <1>8

LEMMA ReplayJoined ==
    ASSUME NEW documents, NEW s, NEW t, IsSequence(s), IsSequence(t)
    PROVE  Docs!Replay(documents, s \o t) = Docs!Replay(Docs!Replay(documents, s), t)
<1>1. PICK u : u = s \o t
  OBVIOUS
<1>2. Joins(u, Len(u), s, Len(s), t, Len(t))
  BY <1>1, Joined2 DEF IsSequence, Joins
<1>3. Docs!Replay(documents, u) = Docs!Replay(Docs!Replay(documents, s), t)
  BY <1>2, ReplaySplit
<1> QED
  BY <1>1, <1>3

---------------------------------------------------------------------------
\* Folding a batch into a schema.

\* The states a fold goes through.
Foldings(f, s, records, n) ==
    f = [k \in 0..n |-> IF k = 0 THEN Folding(s) ELSE AbsorbRecord(f[k - 1], records[k])]

LEMMA FoldingsExist ==
    ASSUME NEW s, NEW records, NEW n \in Nat
    PROVE  \E f : Foldings(f, s, records, n)
<1> DEFINE S == {k \in 0..n : \E f : Foldings(f, s, records, k)}
<1>1. 0 \in S
  <2>1. Foldings([k \in 0..0 |-> Folding(s)], s, records, 0)
    BY DEF Foldings
  <2> QED
    BY <2>1
<1>2. ASSUME NEW k \in 0..n, k < n, k \in S
      PROVE  k + 1 \in S
  <2>1. PICK f : Foldings(f, s, records, k)
    BY <1>2
  <2> DEFINE g == [j \in 0..(k + 1) |->
                      IF j = k + 1 THEN AbsorbRecord(f[k], records[k + 1]) ELSE f[j]]
  <2>2. \A j \in 0..k : f[j] = IF j = 0 THEN Folding(s) ELSE AbsorbRecord(f[j - 1], records[j])
    BY <2>1 DEF Foldings
  <2>3. ASSUME NEW j \in 0..(k + 1)
        PROVE  g[j] = IF j = 0 THEN Folding(s) ELSE AbsorbRecord(g[j - 1], records[j])
    <3>1. CASE j = k + 1
      BY <1>2, <3>1
    <3>2. CASE j # k + 1
      BY <1>2, <2>2, <3>2
    <3> QED
      BY <3>1, <3>2
  <2>4. g = [j \in 0..(k + 1) |-> g[j]]
    OBVIOUS
  <2> HIDE DEF g
  <2>5. Foldings(g, s, records, k + 1)
    BY <2>3, <2>4 DEF Foldings
  <2>6. k + 1 \in 0..n
    BY <1>2
  <2> QED
    BY <2>5, <2>6
<1> HIDE DEF S
<1>3. \A k \in 0..n : k \in S
  BY <1>1, <1>2, Replays!Upwards
<1> QED
  BY <1>3 DEF S

LEMMA AbsorbStages ==
    ASSUME NEW s, NEW records, NEW n \in Nat, n = Len(records)
    PROVE  \E f : /\ f[0] = Folding(s)
                  /\ \A k \in 0..n : k < n => f[k + 1] = AbsorbRecord(f[k], records[k + 1])
                  /\ Absorb(s, records) = f[n]
<1>1. Absorb(s, records) = (CHOOSE f : Foldings(f, s, records, Len(records)))[Len(records)]
  BY Zenon DEF Absorb, Foldings
<1>2. PICK f : Foldings(f, s, records, n) /\ Absorb(s, records) = f[n]
  BY <1>1, FoldingsExist
<1>3. \A k \in 0..n : f[k] = IF k = 0 THEN Folding(s) ELSE AbsorbRecord(f[k - 1], records[k])
  BY <1>2 DEF Foldings
<1>4. ASSUME NEW k \in 0..n, k < n
      PROVE  f[k + 1] = AbsorbRecord(f[k], records[k + 1])
  <2>1. k + 1 \in 0..n /\ k + 1 # 0 /\ (k + 1) - 1 = k
    BY <1>4
  <2> QED
    BY <1>3, <2>1
<1>5. f[0] = Folding(s)
  BY <1>3
<1> QED
  BY <1>2, <1>4, <1>5

---------------------------------------------------------------------------
\* What a schema says of the records and documents it has taken in.

SoundSchema(s) ==
    /\ s = [attributes |-> s.attributes, id_type |-> s.id_type, metric |-> s.metric,
            dim |-> s.dim, num_shards |-> s.num_shards, fts |-> s.fts, embed |-> s.embed]
    /\ "vector" \notin DOMAIN s.attributes \cup DOMAIN s.fts
    /\ \A a \in DOMAIN s.attributes : s.attributes[a] \in Types
    /\ s.id_type \in IdTypes \cup {Undeclared}
    /\ s.dim \in Nat
    /\ s.num_shards \in 0..MaxShards
    /\ s.metric \in Metrics

\* t says what s says, and more.
Grown(s, t) ==
    /\ s.id_type # Undeclared => t.id_type = s.id_type
    /\ s.dim # 0 => t.dim = s.dim
    /\ s.num_shards # 0 => t.num_shards = s.num_shards
    /\ \A a \in DOMAIN s.attributes :
          a \in DOMAIN t.attributes /\ t.attributes[a] = s.attributes[a]

TypedAs(attrs, s) ==
    \A a \in DOMAIN attrs \ {"vector"} :
        ~IsNull(attrs[a]) => /\ a \in DOMAIN s.attributes /\ attrs[a].type = s.attributes[a]
                             /\ attrs[a] \in StorableValues

IdFits(i, s) == i \in StorableIds /\ i.type = s.id_type

DocFits(attrs, s) ==
    /\ TypedAs(attrs, s)
    /\ Len(VectorOf(attrs)) \in {0, s.dim}
    /\ "vector" \in DOMAIN attrs => attrs["vector"] \in StorableValues

RecordFits(r, s) ==
    /\ IdFits(r.id, s)
    /\ r.op \in {"upsert", "patch", "delete"}
    /\ r.op = "upsert" => DocFits(r.attrs, s)
    /\ r.op = "patch" => TypedAs(r.attrs, s) /\ "vector" \notin DOMAIN r.attrs

LEMMA IdIsTyped ==
    ASSUME NEW i \in StorableIds
    PROVE  i.type \in IdTypes /\ i.type # Undeclared
  BY IdsAssumption DEF IdTypes, Undeclared

LEMMA StillFits ==
    ASSUME NEW s, NEW t, SoundSchema(s), SoundSchema(t), Grown(s, t)
    PROVE  /\ \A i : IdFits(i, s) => IdFits(i, t)
           /\ \A attrs : TypedAs(attrs, s) => TypedAs(attrs, t)
           /\ \A attrs : DocFits(attrs, s) => DocFits(attrs, t)
           /\ \A r : RecordFits(r, s) => RecordFits(r, t)
<1>1. \A i : IdFits(i, s) => IdFits(i, t)
  BY IdIsTyped DEF IdFits, Grown
<1>2. \A attrs : TypedAs(attrs, s) => TypedAs(attrs, t)
  BY DEF TypedAs, Grown
<1>3. \A attrs : DocFits(attrs, s) => DocFits(attrs, t)
  BY <1>2 DEF DocFits, Grown, SoundSchema
<1>4. \A r : RecordFits(r, s) => RecordFits(r, t)
  BY <1>1, <1>2, <1>3 DEF RecordFits
<1> QED
  BY <1>1, <1>2, <1>3, <1>4

LEMMA GrownFurther ==
    ASSUME NEW s, NEW t, NEW u, Grown(s, t), Grown(t, u)
    PROVE  Grown(s, u)
  BY DEF Grown

\* What a value is coerced to has the type it was coerced to.
LEMMA CoercedType ==
    ASSUME NEW v, NEW type, Coerce(v, type) # NoValue, ~IsNull(Coerce(v, type))
    PROVE  Coerce(v, type).type = type
  BY DEF Coerce, TypedValue, IsNull

LEMMA AbsorbedAttrs ==
    ASSUME NEW s, SoundSchema(s), NEW attrs, NEW new, new = AbsorbAttrs(s, attrs),
           \A a \in DOMAIN new : new[a] # NoValue
    PROVE  /\ DOMAIN new = DOMAIN attrs
           /\ "vector" \in DOMAIN attrs => new["vector"] = attrs["vector"]
           /\ \A a \in DOMAIN new \ {"vector"} : ~IsNull(new[a]) =>
                  /\ a \in DOMAIN Learned(s, new)
                  /\ new[a].type = Learned(s, new)[a]
           /\ "vector" \notin DOMAIN Learned(s, new)
           /\ \A a \in DOMAIN s.attributes :
                  a \in DOMAIN Learned(s, new) /\ Learned(s, new)[a] = s.attributes[a]
<1>1. /\ DOMAIN new = DOMAIN attrs
      /\ \A a \in DOMAIN new : new[a] = IF a \in DOMAIN s.attributes
                                        THEN Coerce(attrs[a], s.attributes[a]) ELSE attrs[a]
  BY DEF AbsorbAttrs
<1>2. "vector" \notin DOMAIN s.attributes
  BY DEF SoundSchema
<1> DEFINE fresh == {a \in DOMAIN new \ DOMAIN s.attributes : a # "vector" /\ ~IsNull(new[a])}
<1>3. /\ DOMAIN Learned(s, new) = DOMAIN s.attributes \cup fresh
      /\ \A a \in DOMAIN s.attributes \cup fresh :
            Learned(s, new)[a] = IF a \in fresh THEN new[a].type ELSE s.attributes[a]
  BY DEF Learned
<1>4. ASSUME NEW a \in DOMAIN new \ {"vector"}, ~IsNull(new[a])
      PROVE  a \in DOMAIN Learned(s, new) /\ new[a].type = Learned(s, new)[a]
  <2>1. CASE a \in DOMAIN s.attributes
    <3>1. new[a].type = s.attributes[a]
      BY <1>1, <1>4, <2>1, CoercedType
    <3> QED
      BY <1>3, <2>1, <3>1
  <2>2. CASE a \notin DOMAIN s.attributes
    BY <1>3, <1>4, <2>2
  <2> QED
    BY <2>1, <2>2
<1> QED
  BY <1>1, <1>2, <1>3, <1>4

\* A type that is learned is one there is.
LEMMA LearnedTypes ==
    ASSUME NEW s, \A a \in DOMAIN s.attributes : s.attributes[a] \in Types,
           NEW attrs, \A a \in DOMAIN attrs \ {"vector"} : attrs[a].type \in Types \cup {"null"},
           NEW new, new = AbsorbAttrs(s, attrs)
    PROVE  \A a \in DOMAIN Learned(s, new) : Learned(s, new)[a] \in Types
<1>1. ASSUME NEW a \in DOMAIN new, a \notin DOMAIN s.attributes, a # "vector", ~IsNull(new[a])
      PROVE  new[a].type \in Types
  <2>1. new[a] = attrs[a] /\ a \in DOMAIN attrs
    BY <1>1 DEF AbsorbAttrs
  <2> QED
    BY <1>1, <2>1 DEF IsNull
<1> QED
  BY <1>1 DEF Learned

\* A schema's fields, one by one.
SchemaOf(a, i, m, d, n, t, e) ==
    [attributes |-> a, id_type |-> i, metric |-> m, dim |-> d, num_shards |-> n, fts |-> t,
     embed |-> e]

LEMMA SchemaExcept ==
    ASSUME NEW a, NEW i, NEW m, NEW d, NEW n, NEW t, NEW e, NEW x, NEW y, NEW z
    PROVE  [SchemaOf(a, i, m, d, n, t, e) EXCEPT !.id_type = x, !.dim = y, !.attributes = z] =
               SchemaOf(z, x, m, y, n, t, e)
<1> DEFINE s == SchemaOf(a, i, m, d, n, t, e)
           new == [s EXCEPT !.id_type = x, !.dim = y, !.attributes = z]
<1>1. s \in [attributes : {a}, id_type : {i}, metric : {m}, dim : {d}, num_shards : {n},
             fts : {t}, embed : {e}]
  BY DEF SchemaOf
<1> HIDE DEF s
<1>2. new \in [attributes : {z}, id_type : {x}, metric : {m}, dim : {y}, num_shards : {n},
               fts : {t}, embed : {e}]
  BY <1>1
<1> HIDE DEF new
<1>3. new = SchemaOf(z, x, m, y, n, t, e)
  BY <1>2 DEF SchemaOf
<1> QED
  BY <1>3 DEF new, s

\* Whatever type an attribute has, what is kept of a value is one that may be.
LEMMA CoercedIsStorable ==
    ASSUME NEW v \in WrittenValues, NEW type, Coerce(v, type) # NoValue
    PROVE  Coerce(v, type) \in StorableValues
<1>1. CASE type \in Types
  BY <1>1 DEF StorableValues
<1>2. CASE type \notin Types
  <2>1. Coerce(v, type) = v
    BY <1>2 DEF Coerce, Types, Arrays
  <2> QED
    BY <2>1 DEF StorableValues
<1> QED
  BY <1>1, <1>2

LEMMA AbsorbedValues ==
    ASSUME NEW s, NEW r \in Written, r.op # "delete", NEW new, new = AbsorbAttrs(s, r.attrs),
           \A a \in DOMAIN new : new[a] # NoValue
    PROVE  \A a \in DOMAIN new : new[a] \in StorableValues
<1> SUFFICES ASSUME NEW a \in DOMAIN new
             PROVE  new[a] \in StorableValues
  OBVIOUS
<1>1. a \in DOMAIN r.attrs
  BY DEF AbsorbAttrs
<1>2. PICK v : v = r.attrs[a]
  OBVIOUS
<1>3. v \in WrittenValues
  BY <1>1, <1>2 DEF WrittenValues, Range
<1>4. CASE a \in DOMAIN s.attributes
  <2>1. new[a] = Coerce(v, s.attributes[a])
    BY <1>1, <1>2, <1>4 DEF AbsorbAttrs
  <2> QED
    BY <1>3, <2>1, CoercedIsStorable
<1>5. CASE a \notin DOMAIN s.attributes
  <2>1. new[a] = v
    BY <1>1, <1>2, <1>5 DEF AbsorbAttrs
  <2> QED
    BY <1>3, <2>1 DEF StorableValues
<1> QED
  BY <1>4, <1>5

\* The record a fold keeps, and the schema after it.
LEMMA AbsorbStep ==
    ASSUME NEW folding, NEW r \in Written, SoundSchema(folding.schema),
           NEW next, next = AbsorbRecord(folding, r), next.ok
    PROVE  /\ folding.ok
           /\ SoundSchema(next.schema)
           /\ Grown(folding.schema, next.schema)
           /\ \E q : next.records = Append(folding.records, q) /\ RecordFits(q, next.schema)
           /\ next = [ok |-> next.ok, schema |-> next.schema, records |-> next.records]
<1> DEFINE s == folding.schema
           id == AbsorbId(s, r.id)
           attrs == IF r.op = "delete" THEN Nothing ELSE AbsorbAttrs(s, r.attrs)
           fits == r.op = "upsert" => VectorFits(s, r.attrs)
           vectored == r.op = "upsert" /\ "vector" \in DOMAIN r.attrs
           known == [s EXCEPT
              !.id_type = IF @ = Undeclared THEN r.id.type ELSE @,
              !.dim = IF vectored THEN Len(r.attrs["vector"].items) ELSE @,
              !.attributes = Learned(s, attrs)]
           q == IF r.op = "delete" THEN [op |-> "delete", id |-> id]
                                   ELSE [op |-> r.op, id |-> id, attrs |-> attrs]
           fine == folding.ok /\ fits /\ id # NoValue /\ \A a \in DOMAIN attrs : attrs[a] # NoValue
<1>1. next = [ok |-> fine, schema |-> known, records |-> Append(folding.records, q)]
  BY Zenon DEF AbsorbRecord
<1>2. /\ fine
      /\ next.schema = known /\ next.records = Append(folding.records, q)
      /\ next = [ok |-> next.ok, schema |-> next.schema, records |-> next.records]
  <2> HIDE DEF fine, known, q
  <2> QED
    BY <1>1
<1>3. folding.ok /\ fits /\ id # NoValue /\ \A a \in DOMAIN attrs : attrs[a] # NoValue
  BY <1>2, Zenon
<1>4. /\ s = [attributes |-> s.attributes, id_type |-> s.id_type, metric |-> s.metric,
              dim |-> s.dim, num_shards |-> s.num_shards, fts |-> s.fts, embed |-> s.embed]
      /\ "vector" \notin DOMAIN s.attributes \cup DOMAIN s.fts
      /\ s.id_type \in IdTypes \cup {Undeclared}
      /\ s.dim \in Nat
      /\ s.num_shards \in 0..MaxShards
      /\ s.metric \in Metrics
  BY DEF SoundSchema
<1> DEFINE type == IF s.id_type = Undeclared THEN r.id.type ELSE s.id_type
           size == IF vectored THEN Len(r.attrs["vector"].items) ELSE s.dim
           learned == Learned(s, attrs)
<1>5. known = [attributes |-> learned, id_type |-> type, metric |-> s.metric,
               dim |-> size, num_shards |-> s.num_shards, fts |-> s.fts, embed |-> s.embed]
  <2>1. known = [s EXCEPT !.id_type = type, !.dim = size, !.attributes = learned]
    BY Zenon
  <2> HIDE DEF known, type, size, learned, s
  <2> QED
    BY <1>4, <2>1, SchemaExcept DEF SchemaOf
<1>6. known.attributes = learned /\ known.id_type = type /\ known.dim = size
      /\ known.num_shards = s.num_shards /\ known.fts = s.fts /\ known.metric = s.metric
  BY <1>5
<1>7. /\ r.op \in {"upsert", "patch", "delete"}
      /\ r.id.type \in IdTypes
      /\ r.op = "patch" => "vector" \notin DOMAIN r.attrs
      /\ Len(VectorOfRecord(r)) \in Nat
  BY WrittenAssumption
<1>8. IdFits(id, known)
  <2>1. CASE s.id_type = Undeclared
    <3>1. id = CoerceId(r.id, r.id.type) /\ type = r.id.type
      BY <2>1 DEF AbsorbId, CoerceId
    <3>2. id \in StorableIds
      BY <1>3, <1>7, <3>1 DEF StorableIds
    <3>3. id.type = r.id.type
      BY <2>1 DEF AbsorbId
    <3> QED
      BY <1>6, <3>1, <3>2, <3>3 DEF IdFits
  <2>2. CASE s.id_type # Undeclared
    <3>1. id = CoerceId(r.id, s.id_type) /\ type = s.id_type /\ s.id_type \in IdTypes
      BY <1>4, <2>2 DEF AbsorbId
    <3>2. id \in StorableIds
      BY <1>3, <3>1 DEF StorableIds
    <3>3. id.type = s.id_type
      BY <1>3, <3>1 DEF CoerceId, TypedValue
    <3> QED
      BY <1>6, <3>1, <3>2, <3>3 DEF IdFits
  <2> QED
    BY <2>1, <2>2
<1>9. /\ size \in Nat
      /\ s.dim # 0 => size = s.dim
      /\ r.op = "upsert" => Len(VectorOf(r.attrs)) \in {0, size}
  <2>1. CASE vectored
    <3>1. VectorOf(r.attrs) = r.attrs["vector"].items /\ VectorOfRecord(r) = VectorOf(r.attrs)
      BY <2>1 DEF VectorOf, VectorOfRecord
    <3>2. s.dim = 0 \/ Len(r.attrs["vector"].items) = s.dim
      BY <1>3, <2>1 DEF VectorFits
    <3> QED
      BY <1>4, <1>7, <2>1, <3>1, <3>2
  <2>2. CASE ~vectored
    <3>1. ASSUME r.op = "upsert"
          PROVE  Len(VectorOf(r.attrs)) = 0
      BY <2>2, <3>1 DEF VectorOf
    <3> QED
      BY <1>4, <1>7, <2>2, <3>1
  <2> QED
    BY <2>1, <2>2
<1>10. /\ TypedAs(attrs, known)
       /\ "vector" \notin DOMAIN learned
       /\ \A a \in DOMAIN s.attributes : a \in DOMAIN learned /\ learned[a] = s.attributes[a]
       /\ r.op # "delete" => /\ DOMAIN attrs = DOMAIN r.attrs /\ VectorOf(attrs) = VectorOf(r.attrs)
                             /\ \A a \in DOMAIN attrs : attrs[a] \in StorableValues
  <2>1. CASE r.op = "delete"
    <3>1. DOMAIN attrs = {}
      BY <2>1 DEF Nothing
    <3>2. DOMAIN learned = DOMAIN s.attributes
          /\ \A a \in DOMAIN s.attributes : learned[a] = s.attributes[a]
      <4> HIDE DEF attrs
      <4> QED
        BY <3>1 DEF Learned
    <3>3. TypedAs(attrs, known)
      <4> HIDE DEF attrs, known
      <4> QED
        BY <3>1 DEF TypedAs
    <3> QED
      BY <1>4, <2>1, <3>2, <3>3
  <2>2. CASE r.op # "delete"
    <3>1. attrs = AbsorbAttrs(s, r.attrs)
      BY <2>2
    <3> HIDE DEF attrs
    <3>2. /\ DOMAIN attrs = DOMAIN r.attrs
          /\ "vector" \in DOMAIN r.attrs => attrs["vector"] = r.attrs["vector"]
          /\ \A a \in DOMAIN attrs \ {"vector"} : ~IsNull(attrs[a]) =>
                  /\ a \in DOMAIN learned
                  /\ attrs[a].type = learned[a]
          /\ "vector" \notin DOMAIN learned
          /\ \A a \in DOMAIN s.attributes : a \in DOMAIN learned /\ learned[a] = s.attributes[a]
      <4> HIDE DEF s
      <4> QED
        BY <1>3, <3>1, AbsorbedAttrs DEF s
    <3>3. \A a \in DOMAIN attrs : attrs[a] \in StorableValues
      <4> HIDE DEF s
      <4> QED
        BY <1>3, <2>2, <3>1, AbsorbedValues
    <3>4. TypedAs(attrs, known)
      <4> HIDE DEF known, learned
      <4> QED
        BY <1>6, <3>2, <3>3 DEF TypedAs
    <3>5. VectorOf(attrs) = VectorOf(r.attrs)
      BY <3>2 DEF VectorOf
    <3> QED
      BY <3>2, <3>3, <3>4, <3>5
  <2> QED
    BY <2>1, <2>2
<1>11. \A a \in DOMAIN s.attributes : s.attributes[a] \in Types
  BY DEF SoundSchema
<1>12. \A a \in DOMAIN learned : learned[a] \in Types
  <2>1. CASE r.op = "delete"
    <3>1. attrs = Nothing /\ DOMAIN attrs = {}
      BY <2>1 DEF Nothing
    <3> HIDE DEF attrs
    <3> QED
      BY <3>1, <1>11 DEF Learned
  <2>2. CASE r.op # "delete"
    <3>1. attrs = AbsorbAttrs(s, r.attrs)
      BY <2>2
    <3>2. \A a \in DOMAIN r.attrs \ {"vector"} : r.attrs[a].type \in Types \cup {"null"}
      BY <2>2, WrittenAssumption
    <3> HIDE DEF attrs, s
    <3> QED
      BY <1>11, <3>1, <3>2, LearnedTypes
  <2> QED
    BY <2>1, <2>2
<1> HIDE DEF s, id, attrs, fits, vectored, known, type, size, learned
<1>13. SoundSchema(known)
  <2>1. type \in IdTypes \cup {Undeclared}
    BY <1>4, <1>7 DEF type
  <2> QED
    BY <1>4, <1>5, <1>6, <1>9, <1>10, <1>12, <2>1 DEF SoundSchema
<1>14. Grown(s, known)
  BY <1>6, <1>9, <1>10 DEF Grown, type
<1>15. RecordFits(q, known)
  <2>1. CASE r.op = "delete"
    BY <1>8, <2>1 DEF RecordFits
  <2>2. CASE r.op = "patch"
    BY <1>7, <1>8, <1>10, <2>2 DEF RecordFits
  <2>3. CASE r.op = "upsert"
    <3>1. DocFits(attrs, known)
      BY <1>6, <1>9, <1>10, <2>3 DEF DocFits
    <3> QED
      BY <1>8, <2>3, <3>1 DEF RecordFits
  <2> QED
    BY <1>7, <2>1, <2>2, <2>3
<1> HIDE DEF q
<1> QED
  BY <1>2, <1>3, <1>13, <1>14, <1>15 DEF s

\* t is s, of n elements, with one more.
Lengthens(t, s, n, e) == n \in Nat /\ IsSequence(s) /\ Len(s) = n /\ t = Append(s, e)

LEMMA Appended ==
    ASSUME NEW s, NEW e, NEW n, NEW t, Lengthens(t, s, n, e)
    PROVE  /\ IsSequence(t)
           /\ Len(t) = n + 1
           /\ \A k \in 1..n : t[k] = s[k]
           /\ t[n + 1] = e
<1> DEFINE S == {s[k] : k \in 1..n} \cup {e}
<1>1. s \in [1..n -> S] /\ n \in Nat
  BY DEF IsSequence, Lengthens
<1>2. s \in Seq(S) /\ e \in S
  BY <1>1
<1> HIDE DEF S
<1>3. /\ t \in Seq(S)
      /\ Len(t) = n + 1
      /\ \A k \in 1..n : t[k] = s[k]
      /\ t[n + 1] = e
  BY <1>1, <1>2 DEF Lengthens
<1>4. t \in [1..Len(t) -> S]
  BY <1>3, LenProperties
<1>5. t = [k \in 1..Len(t) |-> t[k]]
  BY <1>4
<1> QED
  BY <1>1, <1>3, <1>5 DEF IsSequence

LEMMA NoRecords == IsSequence(<<>>) /\ Len(<<>>) = 0
  BY DEF IsSequence

\* A fold that has failed stays failed.
LEMMA AbsorbedOk ==
    ASSUME NEW folding, NEW r, AbsorbRecord(folding, r).ok
    PROVE  folding.ok
<1> DEFINE id == AbsorbId(folding.schema, r.id)
           attrs == IF r.op = "delete" THEN Nothing ELSE AbsorbAttrs(folding.schema, r.attrs)
           fits == r.op = "upsert" => VectorFits(folding.schema, r.attrs)
           fine == folding.ok /\ fits /\ id # NoValue /\ \A a \in DOMAIN attrs : attrs[a] # NoValue
<1>1. PICK s, q : AbsorbRecord(folding, r) = [ok |-> fine, schema |-> s, records |-> q]
  BY Zenon DEF AbsorbRecord
<1>2. fine
  <2> HIDE DEF fine
  <2> QED
    BY <1>1
<1> QED
  BY <1>2, Zenon

\* Every record of a batch that is taken in fits the schema it leaves.
LEMMA AbsorbFits ==
    ASSUME NEW s, SoundSchema(s), NEW records, NEW n \in Nat, n = Len(records),
           \A k \in 1..n : records[k] \in Written,
           NEW done, done = Absorb(s, records), done.ok
    PROVE  /\ done = [ok |-> done.ok, schema |-> done.schema, records |-> done.records]
           /\ SoundSchema(done.schema)
           /\ Grown(s, done.schema)
           /\ IsSequence(done.records) /\ Len(done.records) = n
           /\ \A k \in 1..n : RecordFits(done.records[k], done.schema)
<1>1. PICK f : /\ f[0] = Folding(s)
               /\ \A k \in 0..n : k < n => f[k + 1] = AbsorbRecord(f[k], records[k + 1])
               /\ Absorb(s, records) = f[n]
  BY AbsorbStages
<1> DEFINE Good(g, k) == /\ g = [ok |-> g.ok, schema |-> g.schema, records |-> g.records]
                         /\ SoundSchema(g.schema)
                         /\ Grown(s, g.schema)
                         /\ IsSequence(g.records) /\ Len(g.records) = k
                         /\ \A j \in 1..k : RecordFits(g.records[j], g.schema)
           S == {k \in 0..n : f[k].ok => Good(f[k], k)}
<1>2. 0 \in S
  <2>1. Grown(s, s)
    BY DEF Grown
  <2>2. f[0].schema = s /\ f[0].records = <<>>
        /\ f[0] = [ok |-> f[0].ok, schema |-> f[0].schema, records |-> f[0].records]
    BY <1>1 DEF Folding
  <2> QED
    BY <2>1, <2>2, NoRecords
<1>3. ASSUME NEW k \in 0..n, k < n, k \in S
      PROVE  k + 1 \in S
  <2>1. k + 1 \in 0..n /\ k + 1 \in 1..n /\ k \in Nat
    BY <1>3
  <2> SUFFICES ASSUME f[k + 1].ok PROVE Good(f[k + 1], k + 1)
    BY <2>1
  <2>2. PICK old, new, r : /\ old = f[k] /\ new = f[k + 1] /\ r = records[k + 1]
                           /\ new = AbsorbRecord(old, r)
    BY <1>1, <1>3
  <2>3. new = AbsorbRecord(old, r) /\ new.ok /\ r \in Written
    BY <2>1, <2>2
  <2>4. old.ok
    BY <2>3, AbsorbedOk
  <2>5. Good(old, k)
    BY <1>3, <2>2, <2>4
  <2>6. SoundSchema(old.schema) /\ IsSequence(old.records) /\ Len(old.records) = k
    BY <2>5
  <2>7. /\ SoundSchema(new.schema)
        /\ Grown(old.schema, new.schema)
        /\ \E q : new.records = Append(old.records, q) /\ RecordFits(q, new.schema)
        /\ new = [ok |-> new.ok, schema |-> new.schema, records |-> new.records]
    BY <2>3, <2>6, AbsorbStep
  <2>8. PICK q, prior : /\ prior = old.records /\ new.records = Append(prior, q)
                        /\ RecordFits(q, new.schema)
    BY <2>7
  <2>9. /\ IsSequence(new.records) /\ Len(new.records) = k + 1
        /\ \A j \in 1..k : new.records[j] = prior[j]
        /\ new.records[k + 1] = q
    <3>1. IsSequence(prior) /\ Len(prior) = k
      BY <2>6, <2>8
    <3>2. PICK now : now = new.records /\ now = Append(prior, q)
      BY <2>8
    <3>3. Lengthens(now, prior, k, q)
      BY <2>1, <3>1, <3>2 DEF Lengthens
    <3>4. IsSequence(now) /\ Len(now) = k + 1 /\ now[k + 1] = q
          /\ \A j \in 1..k : now[j] = prior[j]
      BY <3>3, Appended
    <3> QED
      BY <3>2, <3>4
  <2>10. \A j \in 1..k : RecordFits(new.records[j], new.schema)
    BY <2>5, <2>7, <2>8, <2>9, StillFits
  <2>11. \A j \in 1..(k + 1) : RecordFits(new.records[j], new.schema)
    BY <2>1, <2>8, <2>9, <2>10
  <2>12. Grown(s, new.schema)
    BY <2>5, <2>7, GrownFurther
  <2> QED
    BY <2>2, <2>7, <2>9, <2>11, <2>12
<1> HIDE DEF S
<1>4. \A k \in 0..n : k \in S
  BY <1>2, <1>3, Replays!Upwards
<1>5. Good(f[n], n)
  BY <1>1, <1>4 DEF S
<1> QED
  BY <1>1, <1>5

\* The configuration of a batch, if it is accepted, adds to the schema.
Configured(s, config) ==
    [s EXCEPT
        !.metric = IF config.metric = Undeclared THEN @ ELSE config.metric,
        !.attributes = Adopt(@, config.types),
        !.fts = Adopt(@, config.fts),
        !.num_shards = IF config.num_shards = 0 THEN @ ELSE config.num_shards,
        !.embed = Adopt(@, config.embed)]

LEMMA SchemaConfigured ==
    ASSUME NEW a, NEW i, NEW m, NEW d, NEW n, NEW t, NEW e, NEW b, NEW l, NEW o, NEW u, NEW g
    PROVE  [SchemaOf(a, i, m, d, n, t, e) EXCEPT
                !.metric = l, !.attributes = b, !.fts = u, !.num_shards = o, !.embed = g] =
               SchemaOf(b, i, l, d, o, u, g)
<1> DEFINE s == SchemaOf(a, i, m, d, n, t, e)
           new == [s EXCEPT !.metric = l, !.attributes = b, !.fts = u, !.num_shards = o,
                            !.embed = g]
<1>1. s \in [attributes : {a}, id_type : {i}, metric : {m}, dim : {d}, num_shards : {n},
             fts : {t}, embed : {e}]
  BY DEF SchemaOf
<1> HIDE DEF s
<1>2. new \in [attributes : {b}, id_type : {i}, metric : {l}, dim : {d}, num_shards : {o},
               fts : {u}, embed : {g}]
  BY <1>1
<1> HIDE DEF new
<1>3. new = SchemaOf(b, i, l, d, o, u, g)
  BY <1>2 DEF SchemaOf
<1> QED
  BY <1>3 DEF new, s

LEMMA ConfiguredSound ==
    ASSUME NEW s, SoundSchema(s), NEW config, config.num_shards \in Nat,
           "vector" \notin DOMAIN config.types \cup DOMAIN config.fts, Range(config.types) \subseteq Types,
           config.num_shards = 0 \/ config.num_shards <= MaxShards,
           s.num_shards # 0 => config.num_shards \in {0, s.num_shards},
           config.metric \in Metrics \cup {Undeclared},
           ~Conflicts(s.attributes, config.types)
    PROVE  SoundSchema(Configured(s, config)) /\ Grown(s, Configured(s, config))
<1> DEFINE l == IF config.metric = Undeclared THEN s.metric ELSE config.metric
           b == Adopt(s.attributes, config.types)
           u == Adopt(s.fts, config.fts)
           o == IF config.num_shards = 0 THEN s.num_shards ELSE config.num_shards
           g == Adopt(s.embed, config.embed)
           new == Configured(s, config)
<1>1. s = SchemaOf(s.attributes, s.id_type, s.metric, s.dim, s.num_shards, s.fts, s.embed)
  BY DEF SoundSchema, SchemaOf
<1>2. new = [s EXCEPT !.metric = l, !.attributes = b, !.fts = u, !.num_shards = o, !.embed = g]
  BY Zenon DEF Configured
<1> HIDE DEF new, l, u, g
<1>3. new = SchemaOf(b, s.id_type, l, s.dim, o, u, g)
  <2> HIDE DEF b, o
  <2>1. PICK a, i, m, d, n, t, e :
            /\ a = s.attributes /\ i = s.id_type /\ m = s.metric /\ d = s.dim
            /\ n = s.num_shards /\ t = s.fts /\ e = s.embed
    OBVIOUS
  <2>2. s = SchemaOf(a, i, m, d, n, t, e)
    BY <1>1, <2>1
  <2>3. new = SchemaOf(b, i, l, d, o, u, g)
    BY <1>2, <2>2, SchemaConfigured DEF SchemaOf
  <2> QED
    BY <2>1, <2>3
<1>4. /\ DOMAIN b = DOMAIN s.attributes \cup DOMAIN config.types
      /\ \A a \in DOMAIN s.attributes : b[a] = s.attributes[a]
      /\ \A a \in DOMAIN b : b[a] \in Types
  BY DEF Adopt, Conflicts, Range, SoundSchema
<1>5. "vector" \notin DOMAIN u
  BY DEF Adopt, SoundSchema, u
<1>6. l \in Metrics
  BY DEF SoundSchema, l
<1> HIDE DEF b
<1>7. o \in 0..MaxShards /\ (s.num_shards # 0 => o = s.num_shards)
  BY ShardsAssumption DEF SoundSchema
<1> HIDE DEF o
<1>8. /\ new.attributes = b /\ new.id_type = s.id_type /\ new.dim = s.dim /\ new.num_shards = o
      /\ new.fts = u /\ new.metric = l
      /\ new = SchemaOf(new.attributes, new.id_type, new.metric, new.dim, new.num_shards, new.fts,
                        new.embed)
  BY <1>3 DEF SchemaOf
<1>9. SoundSchema(new)
  BY <1>4, <1>7, <1>8, <1>5, <1>6 DEF SoundSchema, SchemaOf
<1>10. Grown(s, new)
  BY <1>4, <1>7, <1>8 DEF Grown
<1> QED
  BY <1>9, <1>10 DEF new

LEMMA AbsorbedRecord ==
    ASSUME NEW s, NEW records, Len(records) \in Nat
    PROVE  DOMAIN Absorb(s, records) = {"ok", "schema", "records"}
<1>1. PICK n : n \in Nat /\ n = Len(records)
  OBVIOUS
<1>2. PICK f : /\ f[0] = Folding(s)
               /\ \A k \in 0..n : k < n => f[k + 1] = AbsorbRecord(f[k], records[k + 1])
               /\ Absorb(s, records) = f[n]
  BY <1>1, AbsorbStages
<1>3. CASE n = 0
  BY <1>2, <1>3 DEF Folding
<1>4. CASE n # 0
  <2>1. n - 1 \in 0..n /\ n - 1 < n /\ (n - 1) + 1 = n
    BY <1>1, <1>4
  <2>2. f[n] = AbsorbRecord(f[n - 1], records[n])
    BY <1>2, <2>1
  <2>3. ASSUME NEW g, NEW r PROVE DOMAIN AbsorbRecord(g, r) = {"ok", "schema", "records"}
    BY DEF AbsorbRecord
  <2> QED
    BY <1>2, <2>2, <2>3
<1> QED
  BY <1>3, <1>4

\* What a commit makes of a batch: a schema that has grown, and records that fit.
LEMMA PreparedFits ==
    ASSUME NEW s, SoundSchema(s), NEW batch \in Batches, NEW has_data,
           NEW p, p = Prepared(s, batch.records, batch.config, has_data), p.ok
    PROVE  /\ SoundSchema(p.schema)
           /\ Grown(s, p.schema)
           /\ IsSequence(p.records)
           /\ \A k \in 1..Len(p.records) : RecordFits(p.records[k], p.schema)
<1> DEFINE done == Absorb(Configured(s, batch.config), batch.records)
           fine == /\ done.ok
                   /\ MetricSettable(s, batch.config.metric, has_data)
                   /\ ShardsSettable(s, batch.config.num_shards, has_data)
                   /\ ~Conflicts(s.attributes, batch.config.types)
                   /\ ~Conflicts(s.fts, batch.config.fts)
                   /\ ~Conflicts(s.embed, batch.config.embed)
<1>1. p = [done EXCEPT !.ok = fine]
  BY Zenon DEF Prepared, Configured
<1>2. DOMAIN done = {"ok", "schema", "records"}
  BY AbsorbedRecord
<1>3. p.ok = fine /\ p.schema = done.schema /\ p.records = done.records
  <2> HIDE DEF done, fine
  <2> QED
    BY <1>1, <1>2
<1>4. fine
  <2> HIDE DEF done, fine
  <2> QED
    BY <1>3
<1>5. /\ done.ok
      /\ ShardsSettable(s, batch.config.num_shards, has_data)
      /\ ~Conflicts(s.attributes, batch.config.types)
  BY <1>4, Zenon
<1>6. /\ Len(batch.records) \in Nat
      /\ batch.records = [k \in 1..Len(batch.records) |-> batch.records[k]]
      /\ batch.config.num_shards \in Nat
      /\ "vector" \notin DOMAIN batch.config.types \cup DOMAIN batch.config.fts
      /\ Range(batch.config.types) \subseteq Types
      /\ batch.config.metric \in Metrics \cup {Undeclared}
  BY WrittenAssumption
<1>7. SoundSchema(Configured(s, batch.config)) /\ Grown(s, Configured(s, batch.config))
  BY <1>5, <1>6, ConfiguredSound DEF ShardsSettable
<1>8. \A k \in 1..Len(batch.records) : batch.records[k] \in Written
  BY <1>6 DEF Written, ToSet
<1> HIDE DEF done, fine
<1>9. /\ SoundSchema(done.schema)
      /\ Grown(Configured(s, batch.config), done.schema)
      /\ IsSequence(done.records) /\ Len(done.records) = Len(batch.records)
      /\ \A k \in 1..Len(batch.records) : RecordFits(done.records[k], done.schema)
  <2>1. PICK t, rs, n : t = Configured(s, batch.config) /\ rs = batch.records /\ n = Len(batch.records)
    OBVIOUS
  <2>2. done = Absorb(t, rs) /\ SoundSchema(t) /\ n \in Nat /\ n = Len(rs)
        /\ \A k \in 1..n : rs[k] \in Written
    BY <1>6, <1>7, <1>8, <2>1 DEF done
  <2>3. /\ SoundSchema(done.schema)
        /\ Grown(t, done.schema)
        /\ IsSequence(done.records) /\ Len(done.records) = n
        /\ \A k \in 1..n : RecordFits(done.records[k], done.schema)
    BY <1>5, <2>2, AbsorbFits
  <2> QED
    BY <2>1, <2>3
<1>10. Grown(s, done.schema)
  BY <1>7, <1>9, GrownFurther
<1> QED
  BY <1>3, <1>9, <1>10

---------------------------------------------------------------------------
\* What records make of documents.

AllFit(documents, s) ==
    \A i \in DOMAIN documents : IdFits(i, s) /\ DocFits(documents[i], s)

IsMap(documents) ==
    documents = [i \in DOMAIN documents |-> documents[i]] /\ IsFiniteSet(DOMAIN documents)

LEMMA PatchFits ==
    ASSUME NEW s, NEW attrs, DocFits(attrs, s), NEW patch, TypedAs(patch, s),
           "vector" \notin DOMAIN patch
    PROVE  DocFits(Docs!Patched(attrs, patch), s)
<1> DEFINE new == Docs!Patched(attrs, patch)
<1>1. /\ DOMAIN new \subseteq DOMAIN attrs \cup DOMAIN patch
      /\ \A a \in DOMAIN attrs \ DOMAIN patch : a \in DOMAIN new
      /\ \A a \in DOMAIN new : new[a] = IF a \in DOMAIN patch THEN patch[a] ELSE attrs[a]
  BY DEF Docs!Patched
<1> HIDE DEF new
<1>2. TypedAs(new, s)
  BY <1>1 DEF TypedAs, DocFits
<1>3. VectorOf(new) = VectorOf(attrs)
  BY <1>1 DEF VectorOf
<1>4. "vector" \in DOMAIN new => new["vector"] \in StorableValues
  BY <1>1 DEF DocFits
<1> QED
  BY <1>2, <1>3, <1>4 DEF DocFits, new

LEMMA ApplyFits ==
    ASSUME NEW s, NEW documents, AllFit(documents, s), IsMap(documents),
           NEW r, RecordFits(r, s), NEW new, new = Docs!Apply(documents, r)
    PROVE  AllFit(new, s) /\ IsMap(new)
<1> DEFINE present == CASE r.op = "upsert" -> DOMAIN documents \cup {r.id}
                        [] r.op = "patch"  -> DOMAIN documents
                        [] r.op = "delete" -> DOMAIN documents \ {r.id}
<1>1. /\ DOMAIN new = present
      /\ new = [i \in present |-> new[i]]
      /\ \A i \in present : i # r.id => new[i] = documents[i]
      /\ \A i \in present : i = r.id =>
            new[i] = IF r.op = "upsert" THEN r.attrs ELSE Docs!Patched(documents[i], r.attrs)
  BY DEF Docs!Apply
<1>2. r.op \in {"upsert", "patch", "delete"}
  BY DEF RecordFits
<1>3. IsFiniteSet(present)
  BY <1>2, FS_AddElement, FS_RemoveElement DEF IsMap
<1>4. ASSUME NEW i \in present
      PROVE  IdFits(i, s) /\ DocFits(new[i], s)
  <2>1. CASE i # r.id
    BY <1>1, <1>2, <1>4, <2>1 DEF AllFit
  <2>2. CASE i = r.id /\ r.op = "upsert"
    BY <1>1, <1>4, <2>2 DEF RecordFits
  <2>3. CASE i = r.id /\ r.op = "patch"
    <3>1. i \in DOMAIN documents /\ new[i] = Docs!Patched(documents[i], r.attrs)
      BY <1>1, <1>4, <2>3
    <3>2. DocFits(documents[i], s) /\ IdFits(i, s)
      BY <3>1 DEF AllFit
    <3> QED
      BY <2>3, <3>1, <3>2, PatchFits DEF RecordFits
  <2>4. r.op = "delete" => i # r.id
    BY <1>4
  <2> QED
    BY <1>2, <2>1, <2>2, <2>3, <2>4
<1> HIDE DEF present
<1> QED
  BY <1>1, <1>3, <1>4 DEF AllFit, IsMap

LEMMA ReplayFits ==
    ASSUME NEW s, NEW documents, AllFit(documents, s), IsMap(documents),
           NEW records, IsSequence(records), \A k \in 1..Len(records) : RecordFits(records[k], s)
    PROVE  AllFit(Docs!Replay(documents, records), s) /\ IsMap(Docs!Replay(documents, records))
<1>1. PICK n : n \in Nat /\ n = Len(records)
  BY DEF IsSequence
<1>2. PICK f : Replays!Stages(f, documents, records, n) /\ Docs!Replay(documents, records) = f[n]
  BY <1>1, ReplayStages
<1>3. /\ f[0] = documents
      /\ \A k \in 0..n : k < n => f[k + 1] = Docs!Apply(f[k], records[k + 1])
  BY <1>1, <1>2, StageAt
<1> DEFINE S == {k \in 0..n : AllFit(f[k], s) /\ IsMap(f[k])}
<1>4. 0 \in S
  BY <1>1, <1>3
<1>5. ASSUME NEW k \in 0..n, k < n, k \in S
      PROVE  k + 1 \in S
  <2>1. k + 1 \in 0..n /\ k + 1 \in 1..n
    BY <1>1, <1>5
  <2>2. RecordFits(records[k + 1], s)
    BY <1>1, <2>1
  <2>3. f[k + 1] = Docs!Apply(f[k], records[k + 1])
    BY <1>3, <1>5
  <2>4. AllFit(f[k + 1], s) /\ IsMap(f[k + 1])
    BY <1>5, <2>2, <2>3, ApplyFits
  <2> QED
    BY <2>1, <2>4
<1> HIDE DEF S
<1>6. \A k \in 0..n : k \in S
  BY <1>1, <1>4, <1>5, Replays!Upwards
<1> QED
  BY <1>1, <1>2, <1>6 DEF S

---------------------------------------------------------------------------
\* Everything that is stored agrees with the schema.

SchemaInv ==
    /\ SoundSchema(schema)
    /\ AllFit(live, schema)
    /\ IsMap(live)

LEMMA SchemaInit == Init => SchemaInv
<1> SUFFICES ASSUME Init PROVE SchemaInv
  OBVIOUS
<1>1. SoundSchema(schema)
  <2>1. schema = EmptySchema /\ MaxShards \in Nat
    BY ShardsAssumption DEF Init
  <2> QED
    BY <2>1 DEF SoundSchema, EmptySchema, Nothing, Metrics
<1>2. DOMAIN live = {} /\ live = [i \in DOMAIN live |-> live[i]]
  BY DEF Init, Docs!NoDocs
<1> QED
  BY <1>1, <1>2, FS_EmptySet DEF SchemaInv, AllFit, IsMap

LEMMA SchemaNext == SchemaInv /\ [Next]_vars => SchemaInv'
<1> SUFFICES ASSUME SchemaInv, [Next]_vars PROVE SchemaInv'
  OBVIOUS
<1>1. ASSUME NEW batch \in Batches, Write(batch) PROVE SchemaInv'
  <2>1. PICK p : /\ p = Prepared(schema, batch.records, batch.config, HasData) /\ p.ok
                 /\ schema' = p.schema /\ live' = Docs!Replay(live, p.records)
    BY <1>1, Zenon DEF Write
  <2>2. SoundSchema(schema) /\ AllFit(live, schema) /\ IsMap(live)
    BY DEF SchemaInv
  <2>3. /\ SoundSchema(p.schema)
        /\ Grown(schema, p.schema)
        /\ IsSequence(p.records)
        /\ \A k \in 1..Len(p.records) : RecordFits(p.records[k], p.schema)
    BY <2>1, <2>2, PreparedFits
  <2>4. AllFit(live, p.schema)
    BY <2>2, <2>3, StillFits DEF AllFit
  <2>5. AllFit(live', p.schema) /\ IsMap(live')
    BY <2>1, <2>2, <2>3, <2>4, ReplayFits
  <2> QED
    BY <2>1, <2>3, <2>5 DEF SchemaInv
<1>2. ASSUME UNCHANGED <<schema, live>> PROVE SchemaInv'
  BY <1>2 DEF SchemaInv
<1> QED
  BY <1>1, <1>2 DEF Next, Compact, vars

\* Whatever is written -- with any declarations, any records and any first values
\* that declare a type by being there -- every document that is stored agrees with
\* the schema as it is now: its id, its vector, if it has one, and each of its
\* attributes that has a value (Schema::absorb and commit_records, which drops a batch whole when
\* a record of it does not fit).
THEOREM StoredStaysDeclared == Spec => []StoredAsDeclared
<1>1. SchemaInv => StoredAsDeclared
  <2> SUFFICES ASSUME SchemaInv, NEW i \in DOMAIN live
               PROVE  /\ i.type = schema.id_type
                      /\ Len(VectorOf(live[i])) \in {0, schema.dim}
                      /\ \A a \in DOMAIN Named(live[i]) :
                            ~IsNull(live[i][a]) => live[i][a].type = schema.attributes[a]
    BY DEF StoredAsDeclared
  <2>1. IdFits(i, schema) /\ DocFits(live[i], schema)
    BY DEF SchemaInv, AllFit
  <2>2. DOMAIN Named(live[i]) = DOMAIN live[i] \ {"vector"}
    BY DEF Named, Restrict
  <2> QED
    BY <2>1, <2>2 DEF IdFits, DocFits, TypedAs
<1> QED
  BY <1>1, SchemaInit, SchemaNext, PTL DEF Spec

---------------------------------------------------------------------------
\* Sorting: the elements of a finite set, each at its rank.

StrictOrder(R, S) ==
    /\ \A x \in S : <<x, x>> \notin R
    /\ \A x, y, z \in S : <<x, y>> \in R /\ <<y, z>> \in R => <<x, z>> \in R
    /\ \A x, y \in S : x = y \/ <<x, y>> \in R \/ <<y, x>> \in R

Below(R, S, x) == {y \in S : <<y, x>> \in R}

Sorting(q, R, S) ==
    q = [n \in 1..Cardinality(S) |-> CHOOSE x \in S : Cardinality(Below(R, S, x)) = n - 1]

\* The ranks are the numbers below the size of the set, each of one element.
LEMMA Ranks1 ==
    ASSUME NEW S, IsFiniteSet(S), NEW R, StrictOrder(R, S)
    PROVE  /\ \A x \in S : Cardinality(Below(R, S, x)) \in 0..(Cardinality(S) - 1)
           /\ \A x, y \in S :
                <<x, y>> \in R <=> Cardinality(Below(R, S, x)) < Cardinality(Below(R, S, y))
           /\ \A n \in 1..Cardinality(S) : \E x \in S : Cardinality(Below(R, S, x)) = n - 1
<1> DEFINE rank(x) == Cardinality(Below(R, S, x))
<1>1. Cardinality(S) \in Nat
  BY FS_CardinalityType
<1>2. ASSUME NEW x \in S
      PROVE  IsFiniteSet(Below(R, S, x)) /\ rank(x) \in 0..(Cardinality(S) - 1)
  <2>1. Below(R, S, x) \in SUBSET S /\ x \notin Below(R, S, x)
    BY DEF Below, StrictOrder
  <2>2. IsFiniteSet(Below(R, S, x)) /\ rank(x) <= Cardinality(S) /\ rank(x) # Cardinality(S)
    BY <2>1, FS_Subset
  <2>3. rank(x) \in Nat
    BY <2>2, FS_CardinalityType
  <2> QED
    BY <1>1, <2>2, <2>3
<1>3. ASSUME NEW x \in S, NEW y \in S, <<x, y>> \in R
      PROVE  rank(x) < rank(y)
  <2>1. Below(R, S, x) \in SUBSET Below(R, S, y) /\ x \in Below(R, S, y) /\ x \notin Below(R, S, x)
    BY <1>3 DEF Below, StrictOrder
  <2>2. rank(x) <= rank(y) /\ rank(x) # rank(y)
    BY <1>2, <2>1, FS_Subset
  <2> QED
    BY <1>2, <2>2
<1>4. \A x, y \in S : <<x, y>> \in R <=> rank(x) < rank(y)
  <2> SUFFICES ASSUME NEW x \in S, NEW y \in S, rank(x) < rank(y) PROVE <<x, y>> \in R
    BY <1>3
  <2>1. rank(x) \in Int /\ rank(y) \in Int
    BY <1>2
  <2>2. x # y /\ <<y, x>> \notin R
    BY <1>3, <2>1
  <2> QED
    BY <2>2 DEF StrictOrder
<1> DEFINE T == 0..(Cardinality(S) - 1)
           f == [x \in S |-> rank(x)]
<1>5. f \in [S -> T]
  BY <1>2
<1>6. \A x, y \in S : f[x] = f[y] => x = y
  <2> SUFFICES ASSUME NEW x \in S, NEW y \in S, rank(x) = rank(y) PROVE x = y
    OBVIOUS
  <2>1. rank(x) \in Int /\ rank(y) \in Int
    BY <1>2
  <2>2. <<x, y>> \notin R /\ <<y, x>> \notin R
    BY <1>3, <2>1
  <2> QED
    BY <2>2 DEF StrictOrder
<1>7. IsFiniteSet(T) /\ Cardinality(T) = Cardinality(S)
  BY <1>1, FS_Interval
<1> HIDE DEF f, T
<1>8. f \in Injection(S, T)
  BY <1>5, <1>6, Fun_IsInj
<1>9. f \in Surjection(S, T)
  BY <1>7, <1>8, FS_Injection
<1>10. ASSUME NEW n \in 1..Cardinality(S)
       PROVE  \E x \in S : rank(x) = n - 1
  <2>1. n - 1 \in T
    BY <1>1 DEF T
  <2>2. PICK x \in S : f[x] = n - 1
    BY <1>9, <2>1, Fun_SurjectionProperties
  <2> QED
    BY <2>2 DEF f
<1> QED
  BY <1>2, <1>4, <1>10

LEMMA Sorted ==
    ASSUME NEW S, IsFiniteSet(S), NEW R, StrictOrder(R, S), NEW q, Sorting(q, R, S)
    PROVE  /\ IsSequence(q)
           /\ Len(q) = Cardinality(S)
           /\ \A k \in 1..Len(q) : q[k] \in S
           /\ \A x \in S : \E k \in 1..Len(q) : q[k] = x
           /\ \A j, k \in 1..Len(q) : j < k => <<q[j], q[k]>> \in R
<1>1. PICK m : m = Cardinality(S) /\ m \in Nat
  BY FS_CardinalityType
<1>2. q = [n \in 1..m |-> CHOOSE x \in S : Cardinality(Below(R, S, x)) = n - 1]
  BY <1>1 DEF Sorting
<1>3. \A n \in 1..m : q[n] \in S /\ Cardinality(Below(R, S, q[n])) = n - 1
  <2> SUFFICES ASSUME NEW n \in 1..m
               PROVE  q[n] \in S /\ Cardinality(Below(R, S, q[n])) = n - 1
    OBVIOUS
  <2>1. \E x \in S : Cardinality(Below(R, S, x)) = n - 1
    BY <1>1, Ranks1
  <2>2. q[n] = CHOOSE x \in S : Cardinality(Below(R, S, x)) = n - 1
    BY <1>2
  <2> QED
    BY <2>1, <2>2
<1>4. q = [n \in 1..m |-> q[n]]
  BY <1>2
<1>5. IsSequence(q) /\ Len(q) = m
  BY <1>1, <1>4, MadeSequence
<1>6. ASSUME NEW x \in S PROVE \E k \in 1..m : q[k] = x
  <2>1. PICK c : c = Cardinality(Below(R, S, x)) /\ c \in 0..(m - 1)
    BY <1>1, Ranks1
  <2>2. c + 1 \in 1..m /\ (c + 1) - 1 = c
    BY <1>1, <2>1
  <2>3. q[c + 1] \in S /\ Cardinality(Below(R, S, q[c + 1])) = c
    BY <1>3, <2>2
  <2>4. ~(c < c)
    BY <2>1
  <2>5. <<q[c + 1], x>> \notin R /\ <<x, q[c + 1]>> \notin R
    BY <2>1, <2>3, <2>4, Ranks1
  <2> QED
    BY <2>2, <2>3, <2>5 DEF StrictOrder
<1>7. ASSUME NEW j \in 1..m, NEW k \in 1..m, j < k PROVE <<q[j], q[k]>> \in R
  BY <1>1, <1>3, <1>7, Ranks1
<1> QED
  BY <1>1, <1>3, <1>5, <1>6, <1>7
---------------------------------------------------------------------------
\* The segments: the documents of a live set by shard, in the order of their ids.

\* Ids of one type are ordered as the numbers that stand for them.
LEMMA IdOrder ==
    ASSUME NEW i \in StorableIds, NEW j \in StorableIds, i.type = j.type
    PROVE  /\ i.items[1] \in Int /\ j.items[1] \in Int
           /\ IdBefore(i, j) <=> i.items[1] < j.items[1]
           /\ i = j <=> i.items[1] = j.items[1]
<1>1. PICK x, y : /\ x \in Int /\ y \in Int /\ i.items = <<x>> /\ j.items = <<y>>
                  /\ x = i.items[1] /\ y = j.items[1]
                  /\ i = TypedValue(i.type, <<x>>) /\ j = TypedValue(j.type, <<y>>)
                  /\ i.type \in IdTypes
  BY IdsAssumption
<1>2. Compare(i, j) = Order(<<x>>, <<y>>)
  BY <1>1 DEF Compare, IsNull, IdTypes
<1>3. Precedes(<<x>>, <<y>>) <=> x < y
  BY <1>1 DEF Precedes
<1>4. Order(<<x>>, <<y>>) = "less" <=> x < y
  <2>1. <<x>> = <<y>> <=> x = y
    OBVIOUS
  <2> QED
    BY <1>1, <1>3, <2>1 DEF Order
<1>5. i = j <=> x = y
  BY <1>1
<1> QED
  BY <1>1, <1>2, <1>4, <1>5 DEF IdBefore

Bucket(documents, S) == {[op |-> "upsert", id |-> i, attrs |-> documents[i]] : i \in S}

ById(records) == SortedBy(records, LAMBDA a, b : IdBefore(a.id, b.id))

\* A bucket is laid out in the order of the ids, with every document of it.
LEMMA BucketSorted ==
    ASSUME NEW documents, NEW S, IsFiniteSet(S), S \subseteq StorableIds,
           \A i, j \in S : i.type = j.type,
           NEW q, q = ById(Bucket(documents, S))
    PROVE  /\ IsSequence(q)
           /\ \A k \in 1..Len(q) : q[k] \in Bucket(documents, S)
           /\ \A r \in Bucket(documents, S) : \E k \in 1..Len(q) : q[k] = r
           /\ \A j, k \in 1..Len(q) : j < k => IdBefore(q[j].id, q[k].id)
<1> DEFINE B == Bucket(documents, S)
           R == {p \in B \X B : IdBefore(p[1].id, p[2].id)}
<1>1. IsFiniteSet(B)
  <2> DEFINE doc(i) == [op |-> "upsert", id |-> i, attrs |-> documents[i]]
             f == [i \in S |-> doc(i)]
  <2>1. f \in [S -> B]
    BY DEF Bucket
  <2>2. \A r \in B : \E i \in S : f[i] = r
    BY DEF Bucket
  <2>3. f \in Surjection(S, B)
    BY <2>1, <2>2 DEF Surjection
  <2> QED
    BY <2>3, FS_Surjection
<1>2. \A r \in B : r.id \in S /\ r = [op |-> "upsert", id |-> r.id, attrs |-> documents[r.id]]
  BY DEF Bucket
<1> HIDE DEF B
<1>3. \A a, b \in B : <<a, b>> \in R <=> IdBefore(a.id, b.id)
  OBVIOUS
<1> HIDE DEF R
<1>4. \A a, b \in B : /\ a.id.items[1] \in Int
                      /\ <<a, b>> \in R <=> a.id.items[1] < b.id.items[1]
                      /\ a = b <=> a.id.items[1] = b.id.items[1]
  <2> SUFFICES ASSUME NEW a \in B, NEW b \in B
               PROVE  /\ a.id.items[1] \in Int
                      /\ <<a, b>> \in R <=> a.id.items[1] < b.id.items[1]
                      /\ a = b <=> a.id.items[1] = b.id.items[1]
    OBVIOUS
  <2>1. PICK i, j : i = a.id /\ j = b.id
    OBVIOUS
  <2>2. i \in StorableIds /\ j \in StorableIds /\ i.type = j.type
    BY <1>2, <2>1
  <2>3. /\ i.items[1] \in Int
        /\ IdBefore(i, j) <=> i.items[1] < j.items[1]
        /\ i = j <=> i.items[1] = j.items[1]
    BY <2>2, IdOrder
  <2>4. a = b <=> i = j
    BY <1>2, <2>1
  <2> QED
    BY <1>3, <2>1, <2>3, <2>4
<1>5. StrictOrder(R, B)
  <2> DEFINE f == [a \in B |-> a.id.items[1]]
  <2>1. /\ \A a \in B : f[a] \in Int
        /\ \A a, b \in B : <<a, b>> \in R <=> f[a] < f[b]
        /\ \A a, b \in B : a = b <=> f[a] = f[b]
    BY <1>4
  <2> HIDE DEF f
  <2>2. \A a \in B : <<a, a>> \notin R
    BY <2>1
  <2>3. \A a, b, c \in B : <<a, b>> \in R /\ <<b, c>> \in R => <<a, c>> \in R
    BY <2>1
  <2>4. ASSUME NEW a \in B, NEW b \in B
        PROVE  a = b \/ <<a, b>> \in R \/ <<b, a>> \in R
    <3>1. f[a] \in Int /\ f[b] \in Int
      BY <2>1
    <3>2. f[a] = f[b] \/ f[a] < f[b] \/ f[b] < f[a]
      BY <3>1
    <3> QED
      BY <2>1, <3>2
  <2> QED
    BY <2>2, <2>3, <2>4, Zenon DEF StrictOrder
<1>6. Sorting(q, R, B)
  <2>1. \A x \in B : {y \in B : IdBefore(y.id, x.id)} = Below(R, B, x)
    BY <1>3 DEF Below
  <2>2. q = [n \in 1..Cardinality(B) |->
                CHOOSE x \in B : Cardinality({y \in B : IdBefore(y.id, x.id)}) = n - 1]
    BY DEF SortedBy, ById, B
  <2>3. ASSUME NEW n
        PROVE  (CHOOSE x \in B : Cardinality({y \in B : IdBefore(y.id, x.id)}) = n - 1)
                = CHOOSE x \in B : Cardinality(Below(R, B, x)) = n - 1
    BY <2>1
  <2> QED
    BY <2>2, <2>3 DEF Sorting
<1>7. /\ IsSequence(q)
      /\ \A k \in 1..Len(q) : q[k] \in B
      /\ \A r \in B : \E k \in 1..Len(q) : q[k] = r
      /\ \A j, k \in 1..Len(q) : j < k => <<q[j], q[k]>> \in R
  BY <1>1, <1>5, <1>6, Sorted
<1>8. \A j, k \in 1..Len(q) : j < k => IdBefore(q[j].id, q[k].id)
  BY <1>3, <1>7
<1> QED
  BY <1>7, <1>8 DEF B
---------------------------------------------------------------------------
\* The segments one after the other.

\* What FlattenSeq goes through.
Flattenings(f, q, n) == f = [i \in 1..n |-> IF i = 1 THEN q[i] ELSE f[i - 1] \o q[i]]

LEMMA FlatteningsExist ==
    ASSUME NEW q, NEW n \in Nat
    PROVE  \E f : Flattenings(f, q, n)
<1> DEFINE S == {k \in 0..n : \E f : Flattenings(f, q, k)}
<1>1. 0 \in S
  <2>1. Flattenings([i \in 1..0 |-> q], q, 0)
    BY DEF Flattenings
  <2> QED
    BY <2>1
<1>2. ASSUME NEW k \in 0..n, k < n, k \in S
      PROVE  k + 1 \in S
  <2>1. PICK f : Flattenings(f, q, k)
    BY <1>2
  <2> DEFINE last == IF k = 0 THEN q[1] ELSE f[k] \o q[k + 1]
             g == [j \in 1..(k + 1) |-> IF j = k + 1 THEN last ELSE f[j]]
  <2>2. \A j \in 1..k : f[j] = IF j = 1 THEN q[j] ELSE f[j - 1] \o q[j]
    BY <2>1 DEF Flattenings
  <2>3. ASSUME NEW j \in 1..(k + 1)
        PROVE  g[j] = IF j = 1 THEN q[j] ELSE g[j - 1] \o q[j]
    <3>1. CASE j = k + 1
      BY <1>2, <3>1
    <3>2. CASE j # k + 1
      BY <1>2, <2>2, <3>2
    <3> QED
      BY <3>1, <3>2
  <2>4. g = [j \in 1..(k + 1) |-> g[j]]
    OBVIOUS
  <2> HIDE DEF g
  <2>5. Flattenings(g, q, k + 1)
    BY <2>3, <2>4 DEF Flattenings
  <2>6. k + 1 \in 0..n
    BY <1>2
  <2> QED
    BY <2>5, <2>6
<1> HIDE DEF S
<1>3. \A k \in 0..n : k \in S
  BY <1>1, <1>2, Replays!Upwards
<1> QED
  BY <1>3 DEF S

\* `all` is a sequence of exactly the elements of the first n of q.
Gathers(all, q, n) ==
    /\ IsSequence(all)
    /\ \A j \in 1..Len(all) : \E k \in 1..n : \E i \in 1..Len(q[k]) : all[j] = q[k][i]
    /\ \A k \in 1..n : \A i \in 1..Len(q[k]) : \E j \in 1..Len(all) : all[j] = q[k][i]

LEMMA GathersMore ==
    ASSUME NEW all, NEW q, NEW m \in Nat, Gathers(all, q, m), NEW n, n = m + 1,
           IsSequence(q[n])
    PROVE  Gathers(all \o q[n], q, n)
<1>1. PICK s, more : s = q[n] /\ more = all \o s
  OBVIOUS
<1>2. /\ IsSequence(more)
      /\ Len(more) = Len(all) + Len(s)
      /\ \A k \in 1..Len(all) : more[k] = all[k]
      /\ \A k \in 1..Len(s) : more[Len(all) + k] = s[k]
  BY <1>1, Joined2 DEF Gathers
<1>3. Len(all) \in Nat /\ Len(s) \in Nat
  BY <1>1 DEF Gathers, IsSequence
<1>4. \A k \in 1..n : k = n \/ k \in 1..m
  OBVIOUS
<1>5. m \in Nat /\ n \in 1..n /\ \A k \in 1..m : k \in 1..n
  OBVIOUS
<1>6. ASSUME NEW j \in 1..Len(more)
      PROVE  \E k \in 1..n : \E i \in 1..Len(q[k]) : more[j] = q[k][i]
  <2>1. CASE j \in 1..Len(all)
    <3>1. PICK k \in 1..m : \E i \in 1..Len(q[k]) : all[j] = q[k][i]
      BY <2>1 DEF Gathers
    <3> QED
      BY <1>2, <1>5, <2>1, <3>1
  <2>2. CASE j \notin 1..Len(all)
    <3>1. PICK i : i \in 1..Len(s) /\ j = Len(all) + i
      <4>1. j - Len(all) \in 1..Len(s) /\ j = Len(all) + (j - Len(all))
        BY <1>2, <1>3, <2>2
      <4> QED
        BY <4>1
    <3> QED
      BY <1>1, <1>2, <1>5, <3>1
  <2> QED
    BY <2>1, <2>2
<1>7. ASSUME NEW k \in 1..n, NEW i \in 1..Len(q[k])
      PROVE  \E j \in 1..Len(more) : more[j] = q[k][i]
  <2>1. CASE k = n
    <3>1. i \in 1..Len(s) /\ Len(all) + i \in 1..Len(more)
      BY <1>1, <1>2, <1>3, <2>1
    <3> QED
      BY <1>1, <1>2, <2>1, <3>1
  <2>2. CASE k \in 1..m
    <3>1. PICK j \in 1..Len(all) : all[j] = q[k][i]
      BY <2>2 DEF Gathers
    <3>2. j \in 1..Len(more)
      BY <1>2, <1>3
    <3> QED
      BY <1>2, <3>1, <3>2
  <2> QED
    BY <1>4, <2>1, <2>2
<1> QED
  BY <1>1, <1>2, <1>6, <1>7 DEF Gathers

LEMMA Flattened ==
    ASSUME NEW n \in Nat, NEW q, q = [k \in 1..n |-> q[k]], \A k \in 1..n : IsSequence(q[k])
    PROVE  Gathers(FlattenSeq(q), q, n)
<1>1. IsSequence(q) /\ Len(q) = n
  BY MadeSequence
<1>2. CASE n = 0
  <2>1. FlattenSeq(q) = q
    BY <1>1, <1>2 DEF FlattenSeq
  <2> QED
    BY <1>1, <1>2, <2>1 DEF Gathers
<1>3. CASE n # 0
  <2>1. FlattenSeq(q) = (CHOOSE f : Flattenings(f, q, Len(q)))[Len(q)]
    <3>1. Len(q) # 0
      BY <1>1, <1>3
    <3> QED
      BY <3>1, Zenon DEF FlattenSeq, Flattenings
  <2>2. PICK f : Flattenings(f, q, n) /\ FlattenSeq(q) = f[n]
    BY <1>1, <2>1, FlatteningsExist
  <2>3. \A j \in 1..n : f[j] = IF j = 1 THEN q[j] ELSE f[j - 1] \o q[j]
    BY <2>2 DEF Flattenings
  <2> DEFINE S == {k \in 0..n : k # 0 => Gathers(f[k], q, k)}
  <2>4. 0 \in S
    OBVIOUS
  <2>5. ASSUME NEW k \in 0..n, k < n, k \in S
        PROVE  k + 1 \in S
    <3>1. PICK m : m = k + 1 /\ m \in 1..n /\ m \in 0..n /\ m - 1 = k
      BY <2>5
    <3>2. IsSequence(q[m])
      BY <3>1
    <3>3. CASE k = 0
      <4>1. f[1] = q[1] /\ m = 1 /\ IsSequence(q[1])
        BY <2>3, <3>1, <3>2, <3>3
      <4>2. Gathers(q[1], q, 1)
        <5>1. 1 \in 1..1 /\ \A j \in 1..1 : j = 1
          OBVIOUS
        <5> QED
          BY <4>1, <5>1, Zenon DEF Gathers
      <4> QED
        BY <3>1, <4>1, <4>2
    <3>4. CASE k # 0
      <4>1. f[m] = f[k] \o q[m]
        <5>1. m # 1
          BY <2>5, <3>1, <3>4
        <5>2. f[m] = f[m - 1] \o q[m]
          BY <2>3, <3>1, <5>1, Zenon
        <5> QED
          BY <3>1, <5>2
      <4>2. Gathers(f[k], q, k) /\ k \in Nat
        BY <2>5, <3>4
      <4>3. Gathers(f[k] \o q[m], q, m)
        BY <3>1, <3>2, <4>2, GathersMore
      <4> QED
        BY <3>1, <4>1, <4>3
    <3> QED
      BY <3>3, <3>4
  <2> HIDE DEF S
  <2>6. \A k \in 0..n : k \in S
    BY <2>4, <2>5, Replays!Upwards
  <2> QED
    BY <1>3, <2>2, <2>6 DEF S
<1> QED
  BY <1>2, <1>3

---------------------------------------------------------------------------
\* Replaying one upsert for each document gives the documents back.

LEMMA ReplayUpserts ==
    ASSUME NEW D, D = [i \in DOMAIN D |-> D[i]], NEW s, IsSequence(s),
           \A k \in 1..Len(s) : /\ s[k].op = "upsert"
                                /\ s[k].id \in DOMAIN D
                                /\ s[k].attrs = D[s[k].id],
           \A i \in DOMAIN D : \E k \in 1..Len(s) : s[k].id = i
    PROVE  Docs!Materialize(s) = D
<1>1. PICK n : n \in Nat /\ n = Len(s)
  BY DEF IsSequence
<1>2. PICK f : Replays!Stages(f, Docs!NoDocs, s, n) /\ Docs!Replay(Docs!NoDocs, s) = f[n]
  BY <1>1, ReplayStages
<1>3. /\ f[0] = Docs!NoDocs
      /\ \A k \in 0..n : k < n => f[k + 1] = Docs!Apply(f[k], s[k + 1])
  BY <1>1, <1>2, StageAt
<1> DEFINE ids(k) == {s[j].id : j \in 1..k}
           S == {k \in 0..n : f[k] = [i \in ids(k) |-> D[i]]}
<1>4. 0 \in S
  <2>1. ids(0) = {}
    OBVIOUS
  <2>2. Docs!NoDocs = [i \in ids(0) |-> D[i]]
    BY <2>1 DEF Docs!NoDocs
  <2> HIDE DEF ids
  <2>3. 0 \in 0..n
    BY <1>1
  <2> QED
    BY <1>3, <2>2, <2>3
<1>5. ASSUME NEW k \in 0..n, k < n, k \in S
      PROVE  k + 1 \in S
  <2>1. k + 1 \in 0..n /\ k + 1 \in 1..n
    BY <1>1, <1>5
  <2>2. PICK r : r = s[k + 1]
    OBVIOUS
  <2>3. r.op = "upsert" /\ r.attrs = D[r.id]
    BY <1>1, <2>1, <2>2
  <2>4. f[k + 1] = Docs!Apply(f[k], r)
    BY <1>3, <1>5, <2>2
  <2>5. f[k] = [i \in ids(k) |-> D[i]]
    BY <1>5
  <2>6. ids(k + 1) = ids(k) \cup {r.id}
    <3>1. \A j \in 1..(k + 1) : j \in 1..k \/ j = k + 1
      BY <1>5
    <3>2. \A j \in 1..k : j \in 1..(k + 1)
      BY <1>5
    <3> QED
      BY <1>5, <2>2, <3>1, <3>2
  <2> HIDE DEF ids
  <2>7. Docs!Apply(f[k], r) = [i \in ids(k) \cup {r.id} |-> D[i]]
    BY <2>3, <2>5 DEF Docs!Apply
  <2> QED
    BY <2>1, <2>4, <2>6, <2>7
<1> HIDE DEF S
<1>6. n \in S
  BY <1>1, <1>4, <1>5, Replays!Upwards
<1>7. ids(n) = DOMAIN D
  BY <1>1
<1> HIDE DEF ids
<1>8. f[n] = D
  BY <1>6, <1>7 DEF S
<1> QED
  BY <1>2, <1>8 DEF Docs!Materialize
---------------------------------------------------------------------------
\* Segments and tail add up to what was written.

\* A segment in the order of its ids.
InIdOrder(segment) ==
    IsSequence(segment)
    /\ \A j, k \in 1..Len(segment) : j < k => IdBefore(segment[j].id, segment[k].id)

ShardsSorted ==
    \E n \in Nat : /\ shards = [k \in 1..n |-> shards[k]]
                   /\ \A k \in 1..n : InIdOrder(shards[k].segment)

ShardsInv ==
    /\ SchemaInv
    /\ IsSequence(tail)
    /\ ShardsSorted
    /\ Materialized = live

LEMMA NoneReplayed ==
    ASSUME NEW documents
    PROVE  Docs!Replay(documents, <<>>) = documents
<1>1. PICK none : none = <<>> /\ Len(none) = 0
  OBVIOUS
<1> QED
  BY <1>1, Replays!ReplayNone, SameReplay

LEMMA SegmentsGather ==
    ASSUME NEW n \in Nat, shards = [k \in 1..n |-> shards[k]],
           \A k \in 1..n : IsSequence(shards[k].segment),
           NEW q, q = [k \in 1..n |-> shards[k].segment]
    PROVE  Gathers(Segments, q, n)
<1>1. DOMAIN shards = 1..n
  OBVIOUS
<1>2. Segments = FlattenSeq(q)
  BY <1>1 DEF Segments
<1>3. q = [k \in 1..n |-> q[k]] /\ \A k \in 1..n : IsSequence(q[k])
  OBVIOUS
<1>4. Gathers(FlattenSeq(q), q, n)
  BY <1>3, Flattened
<1> QED
  BY <1>2, <1>4

LEMMA SegmentsSequence ==
    ASSUME ShardsSorted
    PROVE  IsSequence(Segments)
<1>1. PICK n \in Nat : shards = [k \in 1..n |-> shards[k]] /\ \A k \in 1..n : InIdOrder(shards[k].segment)
  BY DEF ShardsSorted
<1>2. PICK q : q = [k \in 1..n |-> shards[k].segment]
  OBVIOUS
<1>3. Gathers(Segments, q, n)
  BY <1>1, <1>2, SegmentsGather DEF InIdOrder
<1> QED
  BY <1>3 DEF Gathers

LEMMA ShardsInit == Init => ShardsInv
<1> SUFFICES ASSUME Init PROVE ShardsInv
  OBVIOUS
<1>1. SchemaInv
  BY SchemaInit
<1>2. shards = <<>> /\ tail = <<>> /\ live = Docs!NoDocs
  BY DEF Init
<1>3. shards = [k \in 1..0 |-> shards[k]] /\ \A k \in 1..0 : InIdOrder(shards[k].segment)
  BY <1>2
<1>4. ShardsSorted
  BY <1>3 DEF ShardsSorted
<1>5. Segments = <<>>
  <2>1. [n \in DOMAIN shards |-> shards[n].segment] = <<>>
    BY <1>2
  <2>2. FlattenSeq(<<>>) = <<>>
    BY DEF FlattenSeq
  <2> QED
    BY <2>1, <2>2 DEF Segments
<1>6. Segments \o tail = <<>>
  BY <1>2, <1>5
<1>7. Materialized = live
  BY <1>2, <1>6, NoneReplayed DEF Materialized, Docs!Materialize
<1> QED
  BY <1>1, <1>2, <1>4, <1>7, NoRecords DEF ShardsInv

\* A write adds to the tail what it adds to the documents.
LEMMA WriteAdds ==
    ASSUME ShardsInv, NEW batch \in Batches, Write(batch)
    PROVE  IsSequence(tail)' /\ ShardsSorted' /\ (Materialized = live)'
<1>1. PICK p : /\ p = Prepared(schema, batch.records, batch.config, HasData) /\ p.ok
               /\ tail' = tail \o p.records /\ live' = Docs!Replay(live, p.records)
               /\ shards' = shards
  BY Zenon DEF Write
<1>2. SoundSchema(schema)
  BY DEF ShardsInv, SchemaInv
<1>3. IsSequence(p.records)
  BY <1>1, <1>2, PreparedFits
<1>4. PICK s, t, u : s = Segments /\ t = tail /\ u = p.records
  OBVIOUS
<1>5. ShardsSorted'
  BY <1>1 DEF ShardsInv, ShardsSorted
<1>6. IsSequence(s) /\ IsSequence(t) /\ IsSequence(u) /\ IsSequence(t \o u)
  BY <1>3, <1>4, SegmentsSequence, Joined2 DEF ShardsInv
<1>7. Segments' = Segments
  BY <1>1 DEF Segments
<1>8. PICK v, none : v = t \o u /\ none = Docs!NoDocs /\ IsSequence(v)
  BY <1>6
<1>9. Docs!Replay(none, s \o v) = Docs!Replay(Docs!Replay(none, s), v)
  BY <1>6, <1>8, ReplayJoined
<1>10. ASSUME NEW d PROVE Docs!Replay(d, v) = Docs!Replay(Docs!Replay(d, t), u)
  BY <1>6, <1>8, ReplayJoined
<1>11. Docs!Replay(none, s \o t) = Docs!Replay(Docs!Replay(none, s), t)
  BY <1>6, ReplayJoined
<1>12. live = Docs!Replay(none, s \o t)
  BY <1>4, <1>8 DEF ShardsInv, Materialized, Docs!Materialize
<1>13. Materialized' = Docs!Replay(none, s \o v)
  BY <1>1, <1>4, <1>7, <1>8 DEF Materialized, Docs!Materialize
<1>14. Materialized' = live'
  BY <1>1, <1>4, <1>9, <1>10, <1>11, <1>12, <1>13, Zenon
<1>15. IsSequence(tail')
  BY <1>1, <1>4, <1>6
<1> QED
  BY <1>5, <1>14, <1>15

\* A record of an upsert and nothing more.
IsUpsert(r) == r = [op |-> "upsert", id |-> r.id, attrs |-> r.attrs]

\* `buckets` are c sequences in the order of the ids, with one upsert for each of
\* the documents, in the bucket its id falls in.
Lays(buckets, documents, c) ==
    /\ buckets = [n \in 1..c |-> buckets[n]]
    /\ \A n \in 1..c : InIdOrder(buckets[n])
    /\ \A n \in 1..c : \A k \in 1..Len(buckets[n]) :
          /\ buckets[n][k].op = "upsert"
          /\ buckets[n][k].id \in DOMAIN documents
          /\ buckets[n][k].attrs = documents[buckets[n][k].id]
          /\ ShardOf(buckets[n][k].id, c) = n
          /\ IsUpsert(buckets[n][k])
    /\ \A i \in DOMAIN documents : \E n \in 1..c : \E k \in 1..Len(buckets[n]) :
          buckets[n][k].id = i

LEMMA BucketsLaid ==
    ASSUME NEW s, SoundSchema(s), NEW documents, AllFit(documents, s), IsMap(documents),
           NEW c, c = ShardCount(s), NEW buckets, buckets = Buckets(documents, s)
    PROVE  c \in 1..MaxShards /\ Lays(buckets, documents, c)
<1>1. c \in 1..MaxShards /\ MaxShards \in Nat
  BY ShardsAssumption DEF SoundSchema, ShardCount
<1> DEFINE own(n) == {j \in DOMAIN documents : ShardOf(j, c) = n}
<1>2. /\ buckets = [n \in 1..c |-> buckets[n]]
      /\ \A n \in 1..c : buckets[n] = ById(Bucket(documents, own(n)))
  BY DEF Buckets, Bucket, ById
<1>3. \A i \in DOMAIN documents : i \in StorableIds /\ i.type = s.id_type
  BY DEF AllFit, IdFits
<1>4. ASSUME NEW n \in 1..c
      PROVE  /\ IsSequence(buckets[n])
             /\ \A k \in 1..Len(buckets[n]) : buckets[n][k] \in Bucket(documents, own(n))
             /\ \A r \in Bucket(documents, own(n)) :
                   \E k \in 1..Len(buckets[n]) : buckets[n][k] = r
             /\ \A j, k \in 1..Len(buckets[n]) :
                   j < k => IdBefore(buckets[n][j].id, buckets[n][k].id)
  <2>1. PICK S : S = own(n)
    OBVIOUS
  <2>2. S \subseteq StorableIds /\ \A i, j \in S : i.type = j.type
    BY <1>3, <2>1
  <2>3. IsFiniteSet(S)
    BY <2>1, FS_Subset DEF IsMap
  <2>4. PICK q : q = buckets[n] /\ q = ById(Bucket(documents, S))
    BY <1>2, <2>1
  <2>5. /\ IsSequence(q)
        /\ \A k \in 1..Len(q) : q[k] \in Bucket(documents, S)
        /\ \A r \in Bucket(documents, S) : \E k \in 1..Len(q) : q[k] = r
        /\ \A j, k \in 1..Len(q) : j < k => IdBefore(q[j].id, q[k].id)
    BY <2>2, <2>3, <2>4, BucketSorted
  <2> QED
    BY <2>1, <2>4, <2>5
<1>5. \A n \in 1..c : InIdOrder(buckets[n])
  BY <1>4 DEF InIdOrder
<1>6. ASSUME NEW n \in 1..c, NEW k \in 1..Len(buckets[n])
      PROVE  /\ buckets[n][k].op = "upsert"
             /\ buckets[n][k].id \in DOMAIN documents
             /\ buckets[n][k].attrs = documents[buckets[n][k].id]
             /\ ShardOf(buckets[n][k].id, c) = n
             /\ IsUpsert(buckets[n][k])
  <2>1. PICK r : r = buckets[n][k] /\ r \in Bucket(documents, own(n))
    BY <1>4
  <2>2. PICK i \in own(n) : r = [op |-> "upsert", id |-> i, attrs |-> documents[i]]
    BY <2>1 DEF Bucket
  <2>3. r.op = "upsert" /\ r.id = i /\ r.attrs = documents[i]
    BY <2>2
  <2>4. IsUpsert(r)
    BY <2>2, <2>3 DEF IsUpsert
  <2> QED
    BY <2>1, <2>2, <2>3, <2>4
<1>7. ASSUME NEW i \in DOMAIN documents
      PROVE  \E n \in 1..c : \E k \in 1..Len(buckets[n]) : buckets[n][k].id = i
  <2>1. PICK n \in 1..c : i \in own(n)
    BY <1>1, <1>3, ShardsAssumption
  <2>2. PICK r : r = [op |-> "upsert", id |-> i, attrs |-> documents[i]]
    OBVIOUS
  <2>3. r \in Bucket(documents, own(n)) /\ r.id = i
    BY <2>1, <2>2 DEF Bucket
  <2>4. PICK k \in 1..Len(buckets[n]) : buckets[n][k] = r
    BY <1>4, <2>3
  <2> QED
    BY <2>3, <2>4
<1> QED
  BY <1>1, <1>2, <1>5, <1>6, <1>7 DEF Lays

\* What a compaction leaves: the buckets as segments, and none of the tail.
LEMMA CompactedTo ==
    ASSUME Materialized = live, Compact
    PROVE  /\ \A n \in DOMAIN Buckets(live, schema) : Indexable(Buckets(live, schema)[n])
           /\ shards' = BuildShards(Buckets(live, schema), schema)
           /\ tail' = <<>>
           /\ schema' = schema /\ live' = live
  BY Zenon DEF Compact

LEMMA BuiltSegment ==
    ASSUME NEW docs, NEW s
    PROVE  BuildShard(docs, s).segment = docs
  BY DEF BuildShard, EmptyShard

LEMMA CompactKeeps ==
    ASSUME ShardsInv, Compact
    PROVE  IsSequence(tail)' /\ ShardsSorted' /\ (Materialized = live)'
<1>1. SoundSchema(schema) /\ AllFit(live, schema) /\ IsMap(live) /\ Materialized = live
  BY DEF ShardsInv, SchemaInv
<1>2. PICK c, buckets, s : c = ShardCount(schema) /\ buckets = Buckets(live, schema) /\ s = schema
  OBVIOUS
<1>3. c \in 1..MaxShards /\ Lays(buckets, live, c)
  BY <1>1, <1>2, BucketsLaid
<1>4. c \in Nat
  BY <1>3, ShardsAssumption
<1>5. shards' = BuildShards(buckets, s) /\ tail' = <<>> /\ live' = live
  BY <1>1, <1>2, CompactedTo
<1>6. buckets = [n \in 1..c |-> buckets[n]] /\ DOMAIN buckets = 1..c
  BY <1>3 DEF Lays
<1>7. /\ shards' = [n \in 1..c |-> shards'[n]]
      /\ \A n \in 1..c : shards'[n].segment = buckets[n]
  <2>1. shards' = [n \in 1..c |-> BuildShard(buckets[n], s)]
    BY <1>5, <1>6 DEF BuildShards
  <2> QED
    BY <2>1, BuiltSegment
<1>8. \A n \in 1..c : InIdOrder(shards'[n].segment)
  BY <1>3, <1>7 DEF Lays
<1>9. ShardsSorted'
  BY <1>4, <1>7, <1>8 DEF ShardsSorted, InIdOrder, IsSequence
<1>10. Gathers(Segments', buckets, c)
  <2>1. DOMAIN shards' = 1..c
    BY <1>7
  <2>2. [n \in DOMAIN shards' |-> shards'[n].segment] = buckets
    BY <1>6, <1>7, <2>1
  <2>3. Segments' = FlattenSeq(buckets)
    BY <2>2 DEF Segments
  <2>4. \A n \in 1..c : IsSequence(buckets[n])
    BY <1>3 DEF Lays, InIdOrder
  <2>5. Gathers(FlattenSeq(buckets), buckets, c)
    BY <1>4, <1>6, <2>4, Flattened
  <2> QED
    BY <2>3, <2>5
<1>11. PICK all : all = Segments' /\ IsSequence(all)
  BY <1>10 DEF Gathers
<1>12. /\ \A j \in 1..Len(all) : /\ all[j].op = "upsert"
                                 /\ all[j].id \in DOMAIN live
                                 /\ all[j].attrs = live[all[j].id]
       /\ \A i \in DOMAIN live : \E j \in 1..Len(all) : all[j].id = i
  <2>1. ASSUME NEW j \in 1..Len(all)
        PROVE  all[j].op = "upsert" /\ all[j].id \in DOMAIN live /\ all[j].attrs = live[all[j].id]
    <3>1. PICK n \in 1..c : \E k \in 1..Len(buckets[n]) : all[j] = buckets[n][k]
      BY <1>10, <1>11 DEF Gathers
    <3> QED
      BY <1>3, <3>1 DEF Lays
  <2>2. ASSUME NEW i \in DOMAIN live
        PROVE  \E j \in 1..Len(all) : all[j].id = i
    <3>1. PICK n \in 1..c : \E k \in 1..Len(buckets[n]) : buckets[n][k].id = i
      BY <1>3 DEF Lays
    <3>2. PICK k \in 1..Len(buckets[n]) : buckets[n][k].id = i
      BY <3>1
    <3>3. PICK j \in 1..Len(all) : all[j] = buckets[n][k]
      BY <1>10, <1>11 DEF Gathers
    <3> QED
      BY <3>2, <3>3
  <2> QED
    BY <2>1, <2>2
<1>13. Docs!Materialize(all) = live
  <2>1. live = [i \in DOMAIN live |-> live[i]]
    BY <1>1 DEF IsMap
  <2> QED
    BY <1>11, <1>12, <2>1, ReplayUpserts
<1>14. Materialized' = live'
  <2>1. PICK none, nothing : none = <<>> /\ nothing = Docs!NoDocs
    OBVIOUS
  <2>2. Docs!Replay(nothing, all \o none) = Docs!Replay(Docs!Replay(nothing, all), none)
    <3>1. IsSequence(none)
      BY <2>1, NoRecords
    <3> QED
      BY <1>11, <3>1, ReplayJoined
  <2>3. Docs!Replay(nothing, all \o none) = live
    BY <1>13, <2>1, <2>2, NoneReplayed DEF Docs!Materialize
  <2> QED
    BY <1>5, <1>11, <2>1, <2>3 DEF Materialized, Docs!Materialize
<1> QED
  BY <1>5, <1>9, <1>14, NoRecords

LEMMA ShardsNext == ShardsInv /\ [Next]_vars => ShardsInv'
<1> SUFFICES ASSUME ShardsInv, [Next]_vars PROVE ShardsInv'
  OBVIOUS
<1>1. SchemaInv'
  BY SchemaNext DEF ShardsInv
<1>2. CASE Compact
  BY <1>1, <1>2, CompactKeeps DEF ShardsInv
<1>3. ASSUME NEW batch \in Batches, Write(batch) PROVE ShardsInv'
  BY <1>1, <1>3, WriteAdds DEF ShardsInv
<1>4. CASE UNCHANGED vars
  <2>1. shards' = shards /\ tail' = tail /\ live' = live
    BY <1>4 DEF vars
  <2> QED
    BY <1>1, <2>1 DEF ShardsInv, ShardsSorted, Materialized, Segments
<1> QED
  BY <1>2, <1>3, <1>4 DEF Next

\* Whatever is written and however often it is compacted, for any number of
\* shards, what the segments and the tail hold is what was written: each
\* compaction (Namespace::compact) puts every live document in exactly the
\* segment its id hashes to, and every segment is sorted by id (build_shard).
THEOREM SegmentsStayLive == Spec => []SegmentsAndTailAreLive
<1>1. ShardsInv => SegmentsAndTailAreLive
  <2> SUFFICES ASSUME ShardsInv, NEW n \in DOMAIN shards,
                      NEW o \in 1..Len(shards[n].segment) - 1
               PROVE  IdBefore(shards[n].segment[o].id, shards[n].segment[o + 1].id)
    BY DEF SegmentsAndTailAreLive, ShardsInv
  <2>1. InIdOrder(shards[n].segment)
    BY DEF ShardsInv, ShardsSorted
  <2>2. PICK q : q = shards[n].segment
    OBVIOUS
  <2>3. Len(q) \in Nat /\ \A j, k \in 1..Len(q) : j < k => IdBefore(q[j].id, q[k].id)
    BY <2>1, <2>2 DEF InIdOrder, IsSequence
  <2>4. o \in 1..Len(q) /\ o + 1 \in 1..Len(q) /\ o < o + 1
    BY <2>2, <2>3
  <2> QED
    BY <2>2, <2>3, <2>4
<1> QED
  BY <1>1, ShardsInit, ShardsNext, PTL DEF Spec

---------------------------------------------------------------------------
(***************************************************************************)
(* Delete and patch by filter find the documents that match.  An index     *)
(* holds the values of a column; what it selects, when it says the         *)
(* selection is exact, is what the scan of the column finds, one clause at *)
(* a time and then through the connectives.                                *)
(***************************************************************************)

\* Values of one type are the same or do not compare as equal.
LEMMA NotBeforeItself ==
    ASSUME NEW s \in Seq(Int)
    PROVE  ~Precedes(s, s)
<1>1. \A k \in DOMAIN s : ~(s[k] < s[k])
  <2> TAKE k \in DOMAIN s
  <2>1. s[k] \in Int
    OBVIOUS
  <2> QED
    BY <2>1
<1> QED
  BY <1>1 DEF Precedes

Alike(v, w) == Numbered(v) /\ Numbered(w) /\ v.type = w.type /\ v.type \notin {"{}f16", "null"}

LEMMA AlikeCompare ==
    ASSUME NEW v, NEW w, Alike(v, w)
    PROVE  /\ Compare(v, w) = "equal" <=> v = w
           /\ Compare(v, w) # "none"
<1>1. v.items \in Seq(Int) /\ w.items \in Seq(Int)
  BY DEF Alike, Numbered
<1>2. Compare(v, w) = Order(v.items, w.items)
  BY DEF Alike, Compare, IsNull
<1>3. ~Precedes(v.items, v.items)
  BY <1>1, NotBeforeItself
<1>4. Order(v.items, w.items) = "equal" <=> v.items = w.items
  BY <1>3 DEF Order
<1>5. Order(v.items, w.items) # "none"
  BY DEF Order
<1>6. v.items = w.items <=> v = w
  <2>1. v = TypedValue(v.type, v.items) /\ w = TypedValue(w.type, w.items) /\ v.type = w.type
    BY DEF Alike, Numbered
  <2> QED
    BY <2>1
<1> QED
  BY <1>2, <1>4, <1>5, <1>6

\* The elements of a value have its element type.
LEMMA ElementsAlike ==
    ASSUME NEW v, Numbered(v), NEW e \in Elements(v)
    PROVE  Numbered(e) /\ e.type = ElementType(v.type)
<1>1. CASE v.type \in Arrays
  <2>1. PICK k \in DOMAIN v.items : e = TypedValue(ElementType(v.type), <<v.items[k]>>)
    BY <1>1 DEF Elements
  <2>2. v.items[k] \in Int
    BY DEF Numbered
  <2>3. e.type = ElementType(v.type) /\ e.items = <<v.items[k]>>
    BY <2>1 DEF TypedValue
  <2>4. e.items \in Seq(Int)
    BY <2>2, <2>3
  <2> QED
    BY <2>1, <2>3, <2>4 DEF Numbered
<1>2. CASE v.type \notin Arrays
  <2>1. e = v
    BY <1>2 DEF Elements
  <2> QED
    BY <1>2, <2>1 DEF ElementType, Arrays
<1> QED
  BY <1>1, <1>2

---------------------------------------------------------------------------
\* The values of one attribute by ordinal, all of one type or null.
ColumnOfType(column, type) ==
    \A o \in DOMAIN column : ~IsNull(column[o]) => Numbered(column[o]) /\ column[o].type = type

\* Under a value, an index has the documents that have it as an element.
Entered(index, column) ==
    /\ \A v \in DOMAIN index.entries : \A o :
          o \in index.entries[v] <=> o \in DOMAIN column /\ ~IsNull(column[o]) /\ v \in Elements(column[o])
    /\ \A v \in DOMAIN index.entries : index.entries[v] # {}
    /\ \A o \in DOMAIN column : ~IsNull(column[o]) => Elements(column[o]) \subseteq DOMAIN index.entries
    /\ index.multi_valued <=> \E o \in DOMAIN column : ~IsNull(column[o]) /\ column[o].type \in Arrays

LEMMA BuiltEntered ==
    ASSUME NEW column
    PROVE  Entered(BuildIndex(column), column)
<1> DEFINE present == {o \in DOMAIN column : ~IsNull(column[o])}
           keys == UNION {Elements(column[o]) : o \in present}
           entries == [v \in keys |-> {o \in present : v \in Elements(column[o])}]
           multi == \E o \in present : column[o].type \in Arrays
           index == BuildIndex(column)
<1>1. index = [multi_valued |-> multi, entries |-> entries]
  BY Zenon DEF BuildIndex
<1>2. index.multi_valued = multi /\ index.entries = entries
  <2> HIDE DEF multi, entries, index
  <2> QED
    BY <1>1
<1>3. \A v \in DOMAIN entries : \A o : o \in entries[v] <=> o \in present /\ v \in Elements(column[o])
  <2> HIDE DEF keys, present
  <2> QED
    OBVIOUS
<1>4. \A o \in present : Elements(column[o]) \subseteq DOMAIN entries
  <2>1. DOMAIN entries = keys
    <3> HIDE DEF keys, present
    <3> QED
      OBVIOUS
  <2>2. \A o \in present : Elements(column[o]) \subseteq keys
    <3> HIDE DEF present
    <3> QED
      OBVIOUS
  <2> QED
    BY <2>1, <2>2
<1>5. \A v \in DOMAIN entries : entries[v] # {}
  <2> SUFFICES ASSUME NEW v \in keys
               PROVE  \E o \in present : v \in Elements(column[o])
    <3> HIDE DEF present, keys
    <3> QED
      OBVIOUS
  <2> HIDE DEF present
  <2> QED
    OBVIOUS
<1> HIDE DEF entries, index, keys
<1> QED
  BY <1>2, <1>3, <1>4, <1>5 DEF Entered, index

\* The documents that have a value, and what a lookup for it finds.
Having(column, v) == {o \in DOMAIN column : ~IsNull(column[o]) /\ v \in Elements(column[o])}

LEMMA EntriesAre ==
    ASSUME NEW index, NEW column, Entered(index, column), NEW v \in DOMAIN index.entries
    PROVE  \A o : o \in index.entries[v] <=> o \in Having(column, v)
BY DEF Entered, Having

\* The entries of an index over a column have the element type of the column.
LEMMA EntriesTyped ==
    ASSUME NEW index, NEW column, Entered(index, column), NEW type, ColumnOfType(column, type),
           NEW v \in DOMAIN index.entries
    PROVE  Numbered(v) /\ v.type = ElementType(type) /\ v.type # "null"
<1>1. PICK o : o \in index.entries[v]
  BY DEF Entered
<1>2. o \in DOMAIN column /\ ~IsNull(column[o]) /\ v \in Elements(column[o])
  BY <1>1 DEF Entered
<1>3. PICK x : x = column[o]
  OBVIOUS
<1>4. Numbered(x) /\ x.type = type /\ v \in Elements(x) /\ x.type # "null"
  BY <1>2, <1>3 DEF ColumnOfType, IsNull
<1>5. ElementType(type) # "null"
  BY <1>4 DEF ElementType
<1> QED
  BY <1>4, <1>5, ElementsAlike

\* A literal of the type of the entries is looked up by its value.
Fits(w, type) == Numbered(w) /\ w.type = ElementType(type) /\ type # "{}f16"

LEMMA LookupFinds ==
    ASSUME NEW index, NEW column, Entered(index, column), NEW type, ColumnOfType(column, type),
           NEW w, Fits(w, type)
    PROVE  Lookup(index, w) = Having(column, w)
<1> DEFINE found == {v \in DOMAIN index.entries : Compare(v, w) \in {"equal", "none"}}
<1>1. ASSUME NEW v \in DOMAIN index.entries
      PROVE  Compare(v, w) \in {"equal", "none"} <=> v = w
  <2>1. Numbered(v) /\ v.type = ElementType(type) /\ v.type # "null"
    BY EntriesTyped
  <2>2. ElementType(type) # "{}f16"
    BY DEF Fits, ElementType
  <2>3. Alike(v, w)
    BY <2>1, <2>2 DEF Alike, Fits
  <2> QED
    BY <2>3, AlikeCompare
<1>2. CASE w \in DOMAIN index.entries
  <2>1. found = {w}
    BY <1>1, <1>2
  <2>2. Lookup(index, w) = index.entries[w]
    <3>1. Lookup(index, w) = IF found = {} THEN {} ELSE index.entries[CHOOSE v \in found : TRUE]
      BY Zenon DEF Lookup
    <3> HIDE DEF found
    <3> QED
      BY <2>1, <3>1
  <2>3. \A o : o \in index.entries[w] <=> o \in Having(column, w)
    BY <1>2, EntriesAre
  <2>4. index.entries[w] = Having(column, w)
    BY <2>3
  <2> QED
    BY <2>2, <2>4
<1>3. CASE w \notin DOMAIN index.entries
  <2>1. found = {}
    BY <1>1, <1>3
  <2>2. Lookup(index, w) = {}
    <3>1. Lookup(index, w) = IF found = {} THEN {} ELSE index.entries[CHOOSE v \in found : TRUE]
      BY Zenon DEF Lookup
    <3> HIDE DEF found
    <3> QED
      BY <2>1, <3>1
  <2>3. Having(column, w) = {}
    BY <1>3 DEF Entered, Having
  <2> QED
    BY <2>2, <2>3
<1> QED
  BY <1>2, <1>3

---------------------------------------------------------------------------
\* What the operators the index knows mean.
LEMMA EvalMeans ==
    ASSUME NEW actual, NEW w
    PROVE  /\ Eval(actual, "Eq", w) <=> SameValue(actual, w)
           /\ \A op \in Orderings : Eval(actual, op, w) <=>
                 ~IsNull(actual) /\ ~IsNull(w) /\ OrderedAs(op, Compare(actual, w))
           /\ Eval(actual, "In", w) <=> \E e \in Elements(w) : SameValue(actual, e)
           /\ Eval(actual, "Contains", w) <=> ContainsValue(actual, w)
           /\ Eval(actual, "ContainsAny", w) <=> SharesElement(actual, w)
           /\ Eval(actual, "Glob", w) <=> MatchesPattern(actual, w, GlobMatches)
           /\ Eval(actual, "IGlob", w) <=> MatchesPattern(actual, w, IGlobMatches)
           /\ Eval(actual, "Regex", w) <=> MatchesPattern(actual, w, RegexMatches)
<1>1. DOMAIN Denies = {"NotEq", "NotIn", "NotContains", "NotContainsAny", "NotGlob", "NotIGlob",
                       "NotRegex"}
  BY DEF Denies
<1>2. ASSUME NEW op, op \notin DOMAIN Denies
      PROVE  Eval(actual, op, w) <=> (EvalPositive(actual, op, w) # FALSE)
  <2> DEFINE denied == op \in DOMAIN Denies
  <2>1. denied = FALSE
    BY <1>2
  <2>2. Eval(actual, op, w) <=>
            (EvalPositive(actual, IF denied THEN Denies[op] ELSE op, w) # denied)
    BY Zenon DEF Eval
  <2> HIDE DEF denied
  <2>3. (IF denied THEN Denies[op] ELSE op) = op
    BY <2>1
  <2> QED
    BY <2>1, <2>2, <2>3
<1>3. Eval(actual, "Eq", w) <=> SameValue(actual, w)
  <2>1. EvalPositive(actual, "Eq", w) = SameValue(actual, w)
    BY DEF EvalPositive, Orderings
  <2>2. SameValue(actual, w) \in BOOLEAN
    BY DEF SameValue
  <2> QED
    BY <1>1, <1>2, <2>1, <2>2
<1>4. ASSUME NEW op \in Orderings
      PROVE  Eval(actual, op, w) <=>
                 ~IsNull(actual) /\ ~IsNull(w) /\ OrderedAs(op, Compare(actual, w))
  <2> DEFINE ordered == ~IsNull(actual) /\ ~IsNull(w) /\ OrderedAs(op, Compare(actual, w))
  <2>1. EvalPositive(actual, op, w) = ordered
    BY DEF EvalPositive, Orderings
  <2>2. ordered \in BOOLEAN
    OBVIOUS
  <2>3. op \notin DOMAIN Denies
    BY <1>1 DEF Orderings
  <2> HIDE DEF ordered
  <2>4. Eval(actual, op, w) <=> ordered
    BY <1>2, <2>1, <2>2, <2>3
  <2> QED
    BY <2>4 DEF ordered
<1>5. Eval(actual, "In", w) <=> \E e \in Elements(w) : SameValue(actual, e)
  <2> DEFINE meant == \E e \in Elements(w) : SameValue(actual, e)
  <2>1. EvalPositive(actual, "In", w) = meant
    BY DEF EvalPositive, Orderings
  <2>2. meant \in BOOLEAN
    BY DEF ContainsValue, SharesElement, MatchesPattern
  <2> HIDE DEF meant
  <2>3. Eval(actual, "In", w) <=> meant
    BY <1>1, <1>2, <2>1, <2>2
  <2> QED
    BY <2>3 DEF meant
<1>6. Eval(actual, "Contains", w) <=> ContainsValue(actual, w)
  <2> DEFINE meant == ContainsValue(actual, w)
  <2>1. EvalPositive(actual, "Contains", w) = meant
    BY DEF EvalPositive, Orderings
  <2>2. meant \in BOOLEAN
    BY DEF ContainsValue, SharesElement, MatchesPattern
  <2> HIDE DEF meant
  <2>3. Eval(actual, "Contains", w) <=> meant
    BY <1>1, <1>2, <2>1, <2>2
  <2> QED
    BY <2>3 DEF meant
<1>7. Eval(actual, "ContainsAny", w) <=> SharesElement(actual, w)
  <2> DEFINE meant == SharesElement(actual, w)
  <2>1. EvalPositive(actual, "ContainsAny", w) = meant
    BY DEF EvalPositive, Orderings
  <2>2. meant \in BOOLEAN
    BY DEF ContainsValue, SharesElement, MatchesPattern
  <2> HIDE DEF meant
  <2>3. Eval(actual, "ContainsAny", w) <=> meant
    BY <1>1, <1>2, <2>1, <2>2
  <2> QED
    BY <2>3 DEF meant
<1>8. Eval(actual, "Glob", w) <=> MatchesPattern(actual, w, GlobMatches)
  <2> DEFINE meant == MatchesPattern(actual, w, GlobMatches)
  <2>1. EvalPositive(actual, "Glob", w) = meant
    BY DEF EvalPositive, Orderings
  <2>2. meant \in BOOLEAN
    BY DEF ContainsValue, SharesElement, MatchesPattern
  <2> HIDE DEF meant
  <2>3. Eval(actual, "Glob", w) <=> meant
    BY <1>1, <1>2, <2>1, <2>2
  <2> QED
    BY <2>3 DEF meant
<1>9. Eval(actual, "IGlob", w) <=> MatchesPattern(actual, w, IGlobMatches)
  <2> DEFINE meant == MatchesPattern(actual, w, IGlobMatches)
  <2>1. EvalPositive(actual, "IGlob", w) = meant
    BY DEF EvalPositive, Orderings
  <2>2. meant \in BOOLEAN
    BY DEF ContainsValue, SharesElement, MatchesPattern
  <2> HIDE DEF meant
  <2>3. Eval(actual, "IGlob", w) <=> meant
    BY <1>1, <1>2, <2>1, <2>2
  <2> QED
    BY <2>3 DEF meant
<1>10. Eval(actual, "Regex", w) <=> MatchesPattern(actual, w, RegexMatches)
  <2> DEFINE meant == MatchesPattern(actual, w, RegexMatches)
  <2>1. EvalPositive(actual, "Regex", w) = meant
    BY DEF EvalPositive, Orderings
  <2>2. meant \in BOOLEAN
    BY DEF ContainsValue, SharesElement, MatchesPattern
  <2> HIDE DEF meant
  <2>3. Eval(actual, "Regex", w) <=> meant
    BY <1>1, <1>2, <2>1, <2>2
  <2> QED
    BY <2>3 DEF meant
<1> QED
  BY <1>3, <1>4, <1>5, <1>6, <1>7, <1>8, <1>9, <1>10

---------------------------------------------------------------------------
\* An index over a column, whose values are of one type, of a segment of N
\* documents.
Over(index, column, type, N) ==
    /\ Entered(index, column) /\ ColumnOfType(column, type)
    /\ DOMAIN column \subseteq 1..N /\ N \in Nat
    /\ type # "null"

Actual(column, o) == IF o \in DOMAIN column THEN column[o] ELSE NullValue
Passing(column, op, w, N) == {o \in 1..N : Eval(Actual(column, o), op, w)}

\* The documents that have a value.
Present(column) == {o \in DOMAIN column : ~IsNull(column[o])}

\* No value is an array.
Plain(column) == \A o \in Present(column) : column[o].type \notin Arrays

LEMMA PlainIs ==
    ASSUME NEW index, NEW column, NEW type, NEW N, Over(index, column, type, N)
    PROVE  /\ ~index.multi_valued => Plain(column)
           /\ type \notin Arrays => Plain(column)
           /\ index.multi_valued => type \in Arrays
           /\ ~index.multi_valued /\ type \in Arrays => Present(column) = {}
BY DEF Over, Entered, ColumnOfType, Plain, Present

LEMMA PresentTyped ==
    ASSUME NEW index, NEW column, NEW type, NEW N, Over(index, column, type, N),
           NEW o \in Present(column)
    PROVE  Numbered(column[o]) /\ column[o].type = type
BY DEF Over, ColumnOfType, Present

\* What passes is there or is null, and a null passes only what takes one.
LEMMA PassingPresent ==
    ASSUME NEW index, NEW column, NEW type, NEW N, Over(index, column, type, N), NEW op, NEW w,
           \A v : IsNull(v) => ~Eval(v, op, w)
    PROVE  Passing(column, op, w, N) = {o \in Present(column) : Eval(column[o], op, w)}
<1>1. DOMAIN column \subseteq 1..N
  BY DEF Over
<1>2. IsNull(NullValue)
  BY DEF IsNull, NullValue, TypedValue
<1> QED
  BY <1>1, <1>2 DEF Passing, Present, Actual

\* The entries that pass a test, in a column without arrays.
EntriesOf(index, K) == UNION {index.entries[v] : v \in K}

LEMMA UnderPlain ==
    ASSUME NEW index, NEW column, NEW type, NEW N, Over(index, column, type, N), Plain(column),
           NEW K, K \subseteq DOMAIN index.entries
    PROVE  EntriesOf(index, K) = {o \in Present(column) : column[o] \in K}
<1>1. ASSUME NEW v \in K, NEW o
      PROVE  o \in index.entries[v] <=> o \in Present(column) /\ column[o] = v
  <2>1. o \in index.entries[v] <=> o \in DOMAIN column /\ ~IsNull(column[o]) /\ v \in Elements(column[o])
    BY DEF Over, Entered
  <2>2. o \in Present(column) => Elements(column[o]) = {column[o]}
    BY DEF Plain, Elements
  <2> QED
    BY <2>1, <2>2 DEF Present
<1> QED
  BY <1>1 DEF EntriesOf

\* Every value of a column without arrays is an entry.
LEMMA PlainEntries ==
    ASSUME NEW index, NEW column, NEW type, NEW N, Over(index, column, type, N), Plain(column),
           NEW o \in Present(column)
    PROVE  column[o] \in DOMAIN index.entries
<1>1. Elements(column[o]) = {column[o]}
  BY DEF Plain, Elements
<1>2. Elements(column[o]) \subseteq DOMAIN index.entries
  BY DEF Over, Entered, Present
<1> QED
  BY <1>1, <1>2

\* A null compares with nothing that is not null.
LEMMA NullCompares ==
    ASSUME NEW v, NEW w, IsNull(v), ~IsNull(w)
    PROVE  Compare(v, w) = "less"
BY DEF Compare, IsNull, Floatable

LEMMA HavingAre ==
    ASSUME NEW column, NEW v, NEW o
    PROVE  o \in Having(column, v) <=> o \in Present(column) /\ v \in Elements(column[o])
BY DEF Having, Present

Exact(sel) == sel.bounded /\ sel.exact

LEMMA UnboundedIs == ~Exact(Unbounded)
BY DEF Exact, Unbounded

LEMMA SelectionIs ==
    ASSUME NEW ordinals, NEW exact
    PROVE  /\ Selection(ordinals, exact).ordinals = ordinals
           /\ Selection(ordinals, exact).exact = exact
           /\ Selection(ordinals, exact).bounded
BY DEF Selection

\* Values of the column's type are equal to a literal of it when they are it.
LEMMA EqualToLiteral ==
    ASSUME NEW v, NEW w, NEW type, Numbered(v), v.type = ElementType(type), Fits(w, type),
           type # "null"
    PROVE  SameValue(v, w) <=> v = w
<1>1. ElementType(type) \notin {"{}f16", "null"}
  BY DEF Fits, ElementType
<1>2. Alike(v, w)
  BY <1>1 DEF Alike, Fits
<1> QED
  BY <1>2, AlikeCompare DEF SameValue

LEMMA LiteralNotNull ==
    ASSUME NEW w, NEW type, Fits(w, type), type # "null"
    PROVE  ~IsNull(w)
BY DEF Fits, ElementType, IsNull

---------------------------------------------------------------------------
\* What the index selects for an operator, when it says it is exact.
SelectsRight(index, column, op, w, N) ==
    Exact(Select(index, op, w)) => Select(index, op, w).ordinals = Passing(column, op, w, N)

LEMMA SelectedRight ==
    ASSUME NEW index, NEW column, NEW op, NEW w, NEW N, NEW S, NEW exact,
           \/ Select(index, op, w) = Unbounded
           \/ Select(index, op, w) = Selection(S, exact)
                /\ (exact => S = Passing(column, op, w, N))
    PROVE  SelectsRight(index, column, op, w, N)
<1>1. CASE Select(index, op, w) = Unbounded
  BY <1>1, UnboundedIs DEF SelectsRight
<1>2. CASE Select(index, op, w) = Selection(S, exact) /\ (exact => S = Passing(column, op, w, N))
  BY <1>2, SelectionIs DEF SelectsRight, Exact
<1> QED
  BY <1>1, <1>2

LEMMA SelectEq ==
    ASSUME NEW index, NEW column, NEW type, NEW N, Over(index, column, type, N),
           NEW w, Numbered(w), Faithful("Eq", w, type)
    PROVE  SelectsRight(index, column, "Eq", w, N)
<1>1. Select(index, "Eq", w) = IF index.multi_valued \/ IsNull(w) THEN Unbounded
                               ELSE Selection(Lookup(index, w), TRUE)
  BY DEF Select, Orderings
<1> SUFFICES ASSUME ~index.multi_valued, ~IsNull(w)
             PROVE  Lookup(index, w) = Passing(column, "Eq", w, N)
  BY <1>1, UnboundedIs, SelectionIs DEF SelectsRight
<1>2. \A v : IsNull(v) => ~Eval(v, "Eq", w)
  BY EvalMeans, NullCompares DEF SameValue
<1>3. Passing(column, "Eq", w, N) = {o \in Present(column) : Eval(column[o], "Eq", w)}
  BY <1>2, PassingPresent
<1>4. CASE type \in Arrays
  <2>1. Present(column) = {}
    BY <1>4, PlainIs
  <2>2. DOMAIN index.entries = {}
    <3> SUFFICES ASSUME NEW v \in DOMAIN index.entries
                 PROVE  FALSE
      OBVIOUS
    <3>1. PICK o : o \in index.entries[v]
      BY DEF Over, Entered
    <3>2. o \in Present(column)
      BY <3>1 DEF Over, Entered, Present
    <3> QED
      BY <2>1, <3>2
  <2>3. Lookup(index, w) = {}
    BY <2>2 DEF Lookup
  <2> QED
    BY <1>3, <2>1, <2>3
<1>5. CASE type \notin Arrays
  <2>1. Fits(w, type)
    BY <1>5 DEF Faithful, Fits, Orderings
  <2>2. Lookup(index, w) = Having(column, w)
    BY <2>1, LookupFinds DEF Over
  <2>3. ASSUME NEW o \in Present(column)
        PROVE  Eval(column[o], "Eq", w) <=> o \in Having(column, w)
    <3>1. PICK v : v = column[o]
      OBVIOUS
    <3>2. Numbered(v) /\ v.type = type
      BY <3>1, PresentTyped
    <3>3. ElementType(type) = type /\ Elements(v) = {v}
      BY <1>5, <3>2 DEF ElementType, Elements, Arrays
    <3>4. SameValue(v, w) <=> v = w
      BY <2>1, <3>2, <3>3, EqualToLiteral DEF Over
    <3> QED
      BY <3>1, <3>3, <3>4, EvalMeans, HavingAre
  <2>4. Having(column, w) \subseteq Present(column)
    BY HavingAre
  <2> QED
    BY <1>3, <2>2, <2>3, <2>4
<1> QED
  BY <1>4, <1>5

LEMMA SelectOrdered ==
    ASSUME NEW index, NEW column, NEW type, NEW N, Over(index, column, type, N),
           NEW op \in Orderings, NEW w
    PROVE  SelectsRight(index, column, op, w, N)
<1> DEFINE K == {v \in DOMAIN index.entries : OrderedAs(op, Compare(v, w))}
           under == EntriesOf(index, K)
<1>1. Select(index, op, w) = IF IsNull(w) THEN Unbounded
                             ELSE Selection(under, ~index.multi_valued)
  BY DEF Select, Orderings, Under, EntriesOf
<1> SUFFICES ASSUME ~index.multi_valued, ~IsNull(w)
             PROVE  under = Passing(column, op, w, N)
  <2> HIDE DEF under
  <2>1. CASE IsNull(w)
    BY <1>1, <2>1, SelectedRight
  <2>2. CASE ~IsNull(w)
    <3>1. Select(index, op, w) = Selection(under, ~index.multi_valued)
      BY <1>1, <2>2
    <3>2. PICK exact : exact = ~index.multi_valued
      OBVIOUS
    <3> QED
      BY <2>2, <3>1, <3>2, SelectedRight
  <2> QED
    BY <2>1, <2>2
<1>2. \A v : IsNull(v) => ~Eval(v, op, w)
  BY EvalMeans
<1>3. Passing(column, op, w, N) = {o \in Present(column) : Eval(column[o], op, w)}
  BY <1>2, PassingPresent
<1>4. Plain(column)
  BY PlainIs
<1>5. under = {o \in Present(column) : column[o] \in K}
  <2>1. K \subseteq DOMAIN index.entries
    OBVIOUS
  <2> HIDE DEF K
  <2> QED
    BY <1>4, <2>1, UnderPlain
<1>6. ASSUME NEW o \in Present(column)
      PROVE  column[o] \in K <=> Eval(column[o], op, w)
  <2>1. column[o] \in DOMAIN index.entries /\ ~IsNull(column[o])
    BY <1>4, PlainEntries DEF Present
  <2> QED
    BY <2>1, EvalMeans
<1> HIDE DEF K
<1> QED
  BY <1>3, <1>5, <1>6

\* The documents that have one of the literal's elements.
LEMMA LookupsFind ==
    ASSUME NEW index, NEW column, NEW type, NEW N, Over(index, column, type, N),
           NEW w, \A e \in Elements(w) : Fits(e, type)
    PROVE  UNION {Lookup(index, e) : e \in Elements(w)} =
               {o \in Present(column) : \E e \in Elements(w) : e \in Elements(column[o])}
<1>1. ASSUME NEW e \in Elements(w)
      PROVE  \A o : o \in Lookup(index, e) <=> o \in Present(column) /\ e \in Elements(column[o])
  <2>1. Lookup(index, e) = Having(column, e)
    BY LookupFinds DEF Over
  <2> QED
    BY <2>1, HavingAre
<1> QED
  BY <1>1

LEMMA ElementsFit ==
    ASSUME NEW w, Numbered(w), NEW type,
           \A e \in Elements(w) : e.type = ElementType(type) /\ type # "{}f16"
    PROVE  \A e \in Elements(w) : Fits(e, type)
BY ElementsAlike DEF Fits

LEMMA SelectIn ==
    ASSUME NEW index, NEW column, NEW type, NEW N, Over(index, column, type, N),
           NEW w, Numbered(w), Faithful("In", w, type)
    PROVE  SelectsRight(index, column, "In", w, N)
<1> DEFINE looked == UNION {Lookup(index, e) : e \in Elements(w)}
<1>1. Select(index, "In", w) = Selection(looked, TRUE)
  BY DEF Select, Orderings
<1> SUFFICES looked = Passing(column, "In", w, N)
  BY <1>1, SelectionIs DEF SelectsRight
<1>2. type \notin Arrays /\ \A e \in Elements(w) : Fits(e, type)
  <2>1. type \notin Arrays /\ \A e \in Elements(w) : e.type = ElementType(type) /\ type # "{}f16"
    BY DEF Faithful, Orderings
  <2> QED
    BY <2>1, ElementsFit
<1>3. looked = {o \in Present(column) : \E e \in Elements(w) : e \in Elements(column[o])}
  BY <1>2, LookupsFind
<1>4. \A v : IsNull(v) => ~Eval(v, "In", w)
  <2> SUFFICES ASSUME NEW v, IsNull(v), NEW e \in Elements(w), SameValue(v, e)
               PROVE  FALSE
    BY EvalMeans
  <2>1. ~IsNull(e)
    BY <1>2, LiteralNotNull DEF Over
  <2> QED
    BY <2>1, NullCompares DEF SameValue
<1>5. Passing(column, "In", w, N) = {o \in Present(column) : Eval(column[o], "In", w)}
  BY <1>4, PassingPresent
<1>6. ASSUME NEW o \in Present(column)
      PROVE  Eval(column[o], "In", w) <=> \E e \in Elements(w) : e \in Elements(column[o])
  <2>1. PICK v : v = column[o]
    OBVIOUS
  <2>2. Numbered(v) /\ v.type = type
    BY <2>1, PresentTyped
  <2>3. ElementType(type) = type /\ Elements(v) = {v}
    BY <1>2, <2>2 DEF ElementType, Elements, Arrays
  <2>4. \A e \in Elements(w) : SameValue(v, e) <=> v = e
    BY <1>2, <2>2, <2>3, EqualToLiteral DEF Over
  <2> QED
    BY <2>1, <2>3, <2>4, EvalMeans
<1> QED
  BY <1>3, <1>5, <1>6

LEMMA SelectContainsAny ==
    ASSUME NEW index, NEW column, NEW type, NEW N, Over(index, column, type, N),
           NEW w, Numbered(w), Faithful("ContainsAny", w, type)
    PROVE  SelectsRight(index, column, "ContainsAny", w, N)
<1> DEFINE looked == UNION {Lookup(index, e) : e \in Elements(w)}
<1>1. Select(index, "ContainsAny", w) = Selection(looked, TRUE)
  BY DEF Select, Orderings
<1> SUFFICES looked = Passing(column, "ContainsAny", w, N)
  BY <1>1, SelectionIs DEF SelectsRight
<1>2. \A e \in Elements(w) : Fits(e, type)
  <2>1. \A e \in Elements(w) : e.type = ElementType(type) /\ type # "{}f16"
    BY DEF Faithful, Orderings
  <2> QED
    BY <2>1, ElementsFit
<1>3. looked = {o \in Present(column) : \E e \in Elements(w) : e \in Elements(column[o])}
  BY <1>2, LookupsFind
<1>4. \A v : IsNull(v) => ~Eval(v, "ContainsAny", w)
  <2> SUFFICES ASSUME NEW v, IsNull(v), NEW e \in Elements(w), NEW x \in Elements(v),
                      SameValue(x, e)
               PROVE  FALSE
    BY EvalMeans DEF SharesElement
  <2>1. ~IsNull(e)
    BY <1>2, LiteralNotNull DEF Over
  <2>2. IsNull(x)
    BY DEF Elements, IsNull, Arrays
  <2> QED
    BY <2>1, <2>2, NullCompares DEF SameValue
<1>5. Passing(column, "ContainsAny", w, N)
          = {o \in Present(column) : Eval(column[o], "ContainsAny", w)}
  BY <1>4, PassingPresent
<1>6. ASSUME NEW o \in Present(column)
      PROVE  Eval(column[o], "ContainsAny", w) <=> \E e \in Elements(w) : e \in Elements(column[o])
  <2>1. PICK v : v = column[o]
    OBVIOUS
  <2>2. Numbered(v) /\ v.type = type
    BY <2>1, PresentTyped
  <2>3. \A x \in Elements(v) : Numbered(x) /\ x.type = ElementType(type)
    BY <2>2, ElementsAlike
  <2>4. \A e \in Elements(w), x \in Elements(v) : SameValue(x, e) <=> x = e
    BY <1>2, <2>3, EqualToLiteral DEF Over
  <2>5. SharesElement(v, w) <=> \E e \in Elements(w) : e \in Elements(v)
    BY <2>4 DEF SharesElement
  <2> QED
    BY <2>1, <2>5, EvalMeans
<1> QED
  BY <1>3, <1>5, <1>6

\* A null has no text.
LEMMA NullHasNoText ==
    ASSUME NEW v, IsNull(v)
    PROVE  AsText(v) = NoText
BY DEF IsNull, AsText

LEMMA SelectContains ==
    ASSUME NEW index, NEW column, NEW type, NEW N, Over(index, column, type, N),
           NEW w, Numbered(w), Faithful("Contains", w, type)
    PROVE  SelectsRight(index, column, "Contains", w, N)
<1> DEFINE K == {v \in DOMAIN index.entries : ContainsValue(v, w)}
           under == EntriesOf(index, K)
<1>1. Select(index, "Contains", w) =
          Selection(IF index.multi_valued THEN Lookup(index, w) ELSE under, TRUE)
  BY DEF Select, Orderings, Under, EntriesOf
<1>2. \A v : IsNull(v) => ~Eval(v, "Contains", w)
  BY EvalMeans, NullHasNoText DEF ContainsValue, IsNull
<1>3. Passing(column, "Contains", w, N) = {o \in Present(column) : Eval(column[o], "Contains", w)}
  BY <1>2, PassingPresent
<1>4. CASE ~index.multi_valued
  <2>1. Plain(column)
    BY <1>4, PlainIs
  <2>2. under = {o \in Present(column) : column[o] \in K}
    <3>1. K \subseteq DOMAIN index.entries
      OBVIOUS
    <3> HIDE DEF K
    <3> QED
      BY <2>1, <3>1, UnderPlain
  <2>3. ASSUME NEW o \in Present(column)
        PROVE  column[o] \in K <=> Eval(column[o], "Contains", w)
    <3>1. column[o] \in DOMAIN index.entries
      BY <2>1, PlainEntries
    <3> QED
      BY <3>1, EvalMeans
  <2>4. under = Passing(column, "Contains", w, N)
    <3> HIDE DEF K, under
    <3> QED
      BY <1>3, <2>2, <2>3
  <2> HIDE DEF K, under
  <2> QED
    BY <1>1, <1>4, <2>4, SelectedRight
<1>5. CASE index.multi_valued
  <2>1. type \in {"[]string", "[]uint"} /\ Fits(w, type)
    <3>1. type \in Arrays
      BY <1>5, PlainIs
    <3> QED
      BY <3>1 DEF Faithful, Fits, Orderings
  <2>2. Lookup(index, w) = Having(column, w)
    BY <2>1, LookupFinds DEF Over
  <2>3. ASSUME NEW o \in Present(column)
        PROVE  Eval(column[o], "Contains", w) <=> o \in Having(column, w)
    <3>1. PICK v : v = column[o]
      OBVIOUS
    <3>2. Numbered(v) /\ v.type = type
      BY <3>1, PresentTyped
    <3>3. \A x \in Elements(v) : SameValue(x, w) <=> x = w
      BY <2>1, <3>2, ElementsAlike, EqualToLiteral DEF Over
    <3>4. ContainsValue(v, w) <=> w \in Elements(v)
      BY <2>1, <3>2, <3>3 DEF ContainsValue
    <3> QED
      BY <3>1, <3>4, EvalMeans, HavingAre
  <2>4. Lookup(index, w) = Passing(column, "Contains", w, N)
    BY <1>3, <2>2, <2>3, HavingAre
  <2> HIDE DEF under
  <2> QED
    BY <1>1, <1>5, <2>4, SelectionIs DEF SelectsRight
<1> QED
  BY <1>4, <1>5

\* The three patterns differ by the relation they look into.
Matching(op) == CASE op = "Glob" -> GlobMatches [] op = "IGlob" -> IGlobMatches [] op = "Regex" -> RegexMatches

LEMMA SelectMatching ==
    ASSUME NEW index, NEW column, NEW type, NEW N, Over(index, column, type, N),
           NEW op \in {"Glob", "IGlob", "Regex"}, NEW w, Faithful(op, w, type)
    PROVE  SelectsRight(index, column, op, w, N)
<1> DEFINE relation == Matching(op)
           K == {v \in DOMAIN index.entries : MatchesPattern(v, w, relation)}
           under == EntriesOf(index, K)
<1>1. Select(index, op, w) = SelectPattern(index, w, relation)
  BY DEF Select, Orderings, Matching
<1>2. SelectPattern(index, w, relation) =
          IF AsText(w) = NoText \/ AsText(w) \in BadPatterns THEN Unbounded
          ELSE Selection(under, TRUE)
  <2> HIDE DEF relation
  <2> QED
    BY Zenon DEF SelectPattern, Under, EntriesOf
<1>3. ASSUME NEW v
      PROVE  Eval(v, op, w) <=> MatchesPattern(v, w, relation)
  BY EvalMeans DEF Matching
<1> HIDE DEF relation
<1>4. \A v : IsNull(v) => ~Eval(v, op, w)
  BY <1>3, NullHasNoText DEF MatchesPattern
<1>5. Passing(column, op, w, N) = {o \in Present(column) : Eval(column[o], op, w)}
  BY <1>4, PassingPresent
<1>6. Plain(column)
  <2>1. type \notin Arrays
    BY DEF Faithful, Orderings
  <2> QED
    BY <2>1, PlainIs
<1>7. under = {o \in Present(column) : column[o] \in K}
  <2>1. K \subseteq DOMAIN index.entries
    OBVIOUS
  <2> HIDE DEF K
  <2> QED
    BY <1>6, <2>1, UnderPlain
<1>8. ASSUME NEW o \in Present(column)
      PROVE  column[o] \in K <=> Eval(column[o], op, w)
  <2>1. column[o] \in DOMAIN index.entries
    BY <1>6, PlainEntries
  <2> QED
    BY <1>3, <2>1
<1>9. under = Passing(column, op, w, N)
  <2> HIDE DEF K, under
  <2> QED
    BY <1>5, <1>7, <1>8
<1> HIDE DEF K, under
<1> QED
  BY <1>1, <1>2, <1>9, SelectedRight

\* Whatever the operator.
LEMMA SelectIsRight ==
    ASSUME NEW index, NEW column, NEW type, NEW N, Over(index, column, type, N),
           NEW op, NEW w, Numbered(w), Faithful(op, w, type)
    PROVE  SelectsRight(index, column, op, w, N)
<1>1. CASE op \in Orderings
  BY <1>1, SelectOrdered
<1>2. CASE op \in {"Glob", "IGlob", "Regex"}
  BY <1>2, SelectMatching
<1>3. CASE op \in {"Eq", "In", "ContainsAny", "Contains"}
  BY <1>3, SelectEq, SelectIn, SelectContainsAny, SelectContains
<1>4. CASE op \notin Orderings \cup {"Glob", "IGlob", "Regex", "Eq", "In", "ContainsAny", "Contains"}
  <2>1. Select(index, op, w) = Unbounded
    BY <1>4 DEF Select
  <2> QED
    BY <2>1, UnboundedIs DEF SelectsRight
<1> QED
  BY <1>1, <1>2, <1>3, <1>4

\* A selection that is bounded and not exact is one of an ordering in a column of
\* arrays, and no array is before or after what it is compared with.
LEMMA InexactSelect ==
    ASSUME NEW index, NEW op, NEW w, NEW sel, sel = Select(index, op, w), sel.bounded, ~sel.exact
    PROVE  op \in Orderings /\ index.multi_valued
<1>1. sel # Unbounded
  BY DEF Unbounded
<1>2. ASSUME NEW S, sel = Selection(S, TRUE)
      PROVE  FALSE
  BY <1>2, SelectionIs
<1>3. ASSUME op = "Eq" PROVE FALSE
  BY <1>1, <1>2, <1>3 DEF Select, Orderings
<1>4. ASSUME op \in {"In", "ContainsAny"} PROVE FALSE
  BY <1>1, <1>2, <1>4 DEF Select, Orderings
<1>5. ASSUME op = "Contains" PROVE FALSE
  BY <1>1, <1>2, <1>5 DEF Select, Orderings
<1>6. ASSUME op \in {"Glob", "IGlob", "Regex"} PROVE FALSE
  <2>1. \A r : SelectPattern(index, w, r) # sel
    BY <1>1, <1>2 DEF SelectPattern
  <2> QED
    BY <1>6, <2>1 DEF Select, Orderings
<1>7. op \in Orderings
  <2>1. CASE op \notin Orderings
    <3>1. sel = Unbounded
      BY <1>3, <1>4, <1>5, <1>6, <2>1 DEF Select
    <3> QED
      BY <1>1, <3>1
  <2> QED
    BY <2>1
<1>8. index.multi_valued
  <2> SUFFICES ASSUME ~index.multi_valued PROVE FALSE
    OBVIOUS
  <2>1. op \notin {"Eq", "In", "ContainsAny", "Contains", "Glob", "IGlob", "Regex"}
    BY <1>3, <1>4, <1>5, <1>6
  <2>2. ~IsNull(w)
    BY <1>1, <1>7, <2>1 DEF Select
  <2>3. \E S : sel = Selection(S, ~index.multi_valued)
    BY <1>7, <2>1, <2>2 DEF Select
  <2> QED
    BY <1>2, <2>3
<1> QED
  BY <1>7, <1>8

LEMMA ArraysUnordered ==
    ASSUME NEW index, NEW column, NEW type, NEW N, Over(index, column, type, N),
           index.multi_valued, NEW op \in Orderings, NEW w, Faithful(op, w, type), NEW o
    PROVE  ~Eval(Actual(column, o), op, w)
<1>1. type \in Arrays /\ w.type # type
  <2>1. type \in Arrays
    BY PlainIs
  <2> QED
    BY <2>1 DEF Faithful, Orderings
<1>2. PICK v : v = Actual(column, o)
  OBVIOUS
<1>3. IsNull(v) \/ v.type = type
  BY <1>2 DEF Over, ColumnOfType, Actual, IsNull, NullValue, TypedValue
<1> SUFFICES ASSUME ~IsNull(v), ~IsNull(w), OrderedAs(op, Compare(v, w))
             PROVE  FALSE
  BY <1>2, EvalMeans
<1>4. Compare(v, w) = "none"
  BY <1>1, <1>3 DEF Compare, Arrays, Floatable
<1> QED
  BY <1>4 DEF OrderedAs, Orderings

---------------------------------------------------------------------------
\* Evaluate and Matches go through the clauses in order, as the operands of each
\* come before it.
SelectionAt(filter, indexes, total, n, parts) ==
    CASE filter[n].kind = "Cmp" ->
            IF filter[n].key \in DOMAIN indexes
            THEN Select(indexes[filter[n].key], filter[n].op, filter[n].value)
            ELSE Unbounded
      [] filter[n].kind = "And" -> BothOf(parts)
      [] filter[n].kind = "Or"  -> EitherOf(parts)
      [] filter[n].kind = "Not" -> NoneOf(parts, total)

Operands(f, filter, n) == {f[p] : p \in filter[n].parts}

SelectionsAre(f, filter, indexes, total, D) ==
    f = [n \in D |-> SelectionAt(filter, indexes, total, n, {f[p] : p \in filter[n].parts})]

LEMMA SelectionsExist ==
    ASSUME NEW filter, Postfix(filter), NEW indexes, NEW total
    PROVE  \E f : SelectionsAre(f, filter, indexes, total, 1..Len(filter))
<1> DEFINE N == Len(filter)
           S == {k \in 0..N : \E f : SelectionsAre(f, filter, indexes, total, 1..k)}
<1>0. N \in Nat
  BY DEF Postfix
<1>1. 0 \in S
  <2>1. SelectionsAre([n \in 1..0 |-> 0], filter, indexes, total, 1..0)
    BY DEF SelectionsAre
  <2> QED
    BY <1>0, <2>1
<1>2. ASSUME NEW k \in 0..N, k < N, k \in S
      PROVE  k + 1 \in S
  <2>1. PICK f : SelectionsAre(f, filter, indexes, total, 1..k)
    BY <1>2
  <2> DEFINE g == [n \in 1..(k + 1) |->
                     SelectionAt(filter, indexes, total, n, Operands(f, filter, n))]
  <2>2. \A n \in 1..k : f[n] = SelectionAt(filter, indexes, total, n, Operands(f, filter, n))
    BY <2>1 DEF SelectionsAre, Operands
  <2>3. \A n \in 1..k : g[n] = f[n]
    BY <1>2, <2>2
  <2>4. ASSUME NEW n \in 1..(k + 1)
        PROVE  g[n] = SelectionAt(filter, indexes, total, n, Operands(g, filter, n))
    <3>1. n \in 1..N /\ filter[n].parts \subseteq 1..n - 1
      BY <1>0, <1>2 DEF Postfix
    <3>2. \A p \in filter[n].parts : p \in 1..k
      BY <1>2, <3>1
    <3>3. \A p \in filter[n].parts : g[p] = f[p]
      BY <2>3, <3>2
    <3> HIDE DEF g
    <3>4. Operands(g, filter, n) = Operands(f, filter, n)
      BY <3>3 DEF Operands
    <3> QED
      BY <3>4 DEF g
  <2>5. g = [n \in 1..(k + 1) |-> g[n]]
    OBVIOUS
  <2> HIDE DEF g
  <2>6. SelectionsAre(g, filter, indexes, total, 1..(k + 1))
    BY <2>4, <2>5 DEF SelectionsAre, Operands
  <2>7. k + 1 \in 0..N
    BY <1>0, <1>2
  <2> QED
    BY <2>6, <2>7
<1> HIDE DEF S, N
<1>3. \A k \in 0..N : k \in S
  BY <1>0, <1>1, <1>2, Replays!Upwards
<1>4. N \in S
  BY <1>0, <1>3
<1> QED
  BY <1>4 DEF S, N

LEMMA EvaluateStages ==
    ASSUME NEW filter, Postfix(filter), NEW indexes, NEW total
    PROVE  \E f : /\ \A n \in 1..Len(filter) :
                        f[n] = SelectionAt(filter, indexes, total, n, Operands(f, filter, n))
                  /\ Evaluate(filter, indexes, total) = f[Len(filter)]
<1>1. DOMAIN filter = 1..Len(filter)
  BY DEF Postfix
<1>2. Evaluate(filter, indexes, total) =
          (CHOOSE f : SelectionsAre(f, filter, indexes, total, DOMAIN filter))[Len(filter)]
  BY Zenon DEF Evaluate, SelectionsAre, SelectionAt
<1>3. PICK f : SelectionsAre(f, filter, indexes, total, 1..Len(filter))
               /\ Evaluate(filter, indexes, total) = f[Len(filter)]
  BY <1>1, <1>2, SelectionsExist
<1>4. \A n \in 1..Len(filter) :
          f[n] = SelectionAt(filter, indexes, total, n, Operands(f, filter, n))
  BY <1>3 DEF SelectionsAre, Operands
<1> QED
  BY <1>3, <1>4

HoldingsAre(f, filter, attrs, fts, D) == f = [n \in D |-> HoldsAt(filter[n], attrs, fts, f)]

\* Which clauses hold for a document.
Holdings(filter, attrs, fts) ==
    CHOOSE f : HoldingsAre(f, filter, attrs, fts, DOMAIN filter)

LEMMA HoldingsExist ==
    ASSUME NEW filter, Postfix(filter), NEW attrs, NEW fts
    PROVE  \E f : HoldingsAre(f, filter, attrs, fts, 1..Len(filter))
<1> DEFINE N == Len(filter)
           S == {k \in 0..N : \E f : HoldingsAre(f, filter, attrs, fts, 1..k)}
<1>0. N \in Nat
  BY DEF Postfix
<1>1. 0 \in S
  <2>1. HoldingsAre([n \in 1..0 |-> 0], filter, attrs, fts, 1..0)
    BY DEF HoldingsAre
  <2> QED
    BY <1>0, <2>1
<1>2. ASSUME NEW k \in 0..N, k < N, k \in S
      PROVE  k + 1 \in S
  <2>1. PICK f : HoldingsAre(f, filter, attrs, fts, 1..k)
    BY <1>2
  <2> DEFINE g == [n \in 1..(k + 1) |-> HoldsAt(filter[n], attrs, fts, f)]
  <2>2. \A n \in 1..k : f[n] = HoldsAt(filter[n], attrs, fts, f)
    BY <2>1 DEF HoldingsAre
  <2>3. \A n \in 1..k : g[n] = f[n]
    BY <1>2, <2>2
  <2>4. ASSUME NEW n \in 1..(k + 1)
        PROVE  g[n] = HoldsAt(filter[n], attrs, fts, g)
    <3>1. n \in 1..N /\ filter[n].parts \subseteq 1..n - 1
      BY <1>0, <1>2 DEF Postfix
    <3>2. \A p \in filter[n].parts : p \in 1..k
      BY <1>2, <3>1
    <3>3. \A p \in filter[n].parts : g[p] = f[p]
      BY <2>3, <3>2
    <3> HIDE DEF g
    <3>4. HoldsAt(filter[n], attrs, fts, g) = HoldsAt(filter[n], attrs, fts, f)
      BY <3>3 DEF HoldsAt
    <3> QED
      BY <3>4 DEF g
  <2>5. g = [n \in 1..(k + 1) |-> g[n]]
    OBVIOUS
  <2> HIDE DEF g
  <2>6. HoldingsAre(g, filter, attrs, fts, 1..(k + 1))
    BY <2>4, <2>5 DEF HoldingsAre
  <2>7. k + 1 \in 0..N
    BY <1>0, <1>2
  <2> QED
    BY <2>6, <2>7
<1> HIDE DEF S, N
<1>3. \A k \in 0..N : k \in S
  BY <1>0, <1>1, <1>2, Replays!Upwards
<1>4. N \in S
  BY <1>0, <1>3
<1> QED
  BY <1>4 DEF S, N

LEMMA MatchesStages ==
    ASSUME NEW filter, Postfix(filter), NEW attrs, NEW fts,
           NEW f, f = Holdings(filter, attrs, fts)
    PROVE  /\ \A n \in 1..Len(filter) : f[n] = HoldsAt(filter[n], attrs, fts, f)
           /\ Matches(filter, attrs, fts) <=> f[Len(filter)]
<1>1. DOMAIN filter = 1..Len(filter) /\ filter # NoFilter
  <2>1. Len(filter) # 0 /\ DOMAIN filter = 1..Len(filter)
    BY DEF Postfix
  <2>2. Len(NoFilter) = 0
    BY DEF NoFilter
  <2> QED
    BY <2>1, <2>2
<1>2. Matches(filter, attrs, fts) <=> filter = NoFilter \/ Holdings(filter, attrs, fts)[Len(filter)]
  BY Zenon DEF Matches, Holdings, HoldingsAre
<1>3. HoldingsAre(f, filter, attrs, fts, 1..Len(filter))
  BY <1>1, HoldingsExist DEF Holdings
<1>4. \A n \in 1..Len(filter) : f[n] = HoldsAt(filter[n], attrs, fts, f)
  BY <1>3 DEF HoldingsAre
<1>5. Matches(filter, attrs, fts) <=> f[Len(filter)]
  BY <1>1, <1>2, Zenon
<1> QED
  BY <1>4, <1>5

---------------------------------------------------------------------------
\* Through the connectives.  `hold[o][n]`: clause n holds for document o.
RightAt(sel, hold, N, n) ==
    Exact(sel) => \A o : o \in sel.ordinals <=> o \in 1..N /\ hold[o][n]

Outcomes(f, P) == {f[p] : p \in P}
AllRight(f, hold, N, P) == \A p \in P : RightAt(f[p], hold, N, p)

LEMMA SelectionExact ==
    ASSUME NEW ordinals, NEW exact, Exact(Selection(ordinals, exact))
    PROVE  exact
BY SelectionIs DEF Exact

LEMMA BothRight ==
    ASSUME NEW f, NEW hold, NEW N, NEW P, AllRight(f, hold, N, P),
           NEW sels, sels = Outcomes(f, P), Exact(BothOf(sels))
    PROVE  \A o : o \in BothOf(sels).ordinals <=> o \in 1..N /\ \A p \in P : hold[o][p]
<1> USE DEF Outcomes, AllRight
<1> DEFINE bounded == {s \in sels : s.bounded}
           ordinals == {o \in UNION {s.ordinals : s \in bounded} : \A s \in bounded : o \in s.ordinals}
           exact == \A s \in sels : s.bounded /\ s.exact
<1>1. BothOf(sels) = IF bounded = {} THEN Unbounded ELSE Selection(ordinals, exact)
  BY Zenon DEF BothOf
<1>2. /\ bounded # {}
      /\ BothOf(sels) = Selection(ordinals, exact)
      /\ exact
  <2>1. bounded # {}
    BY <1>1, UnboundedIs, Zenon
  <2>2. BothOf(sels) = Selection(ordinals, exact)
    BY <1>1, <2>1, Zenon
  <2>3. Exact(Selection(ordinals, exact))
    BY <2>2, Zenon
  <2> HIDE DEF bounded, ordinals, exact
  <2>4. exact
    BY <2>3, SelectionExact
  <2> QED
    BY <2>1, <2>2, <2>4, Zenon
<1>3. BothOf(sels).ordinals = ordinals
  <2>1. PICK os, e : BothOf(sels) = Selection(os, e) /\ os = ordinals
    BY <1>2, Zenon
  <2> HIDE DEF ordinals
  <2> QED
    BY <2>1, SelectionIs
<1>4. \A s \in sels : Exact(s)
  BY <1>2 DEF Exact
<1>5. bounded = sels /\ sels # {}
  BY <1>2
<1>6. \A o : o \in ordinals <=> \A s \in sels : o \in s.ordinals
  <2> HIDE DEF bounded
  <2> QED
    BY <1>5
<1>7. \A p \in P : f[p] \in sels /\ Exact(f[p])
  BY <1>4
<1>8. \A p \in P : \A o : o \in f[p].ordinals <=> o \in 1..N /\ hold[o][p]
  BY <1>7 DEF RightAt
<1>9. \A o : (\A s \in sels : o \in s.ordinals) <=> \A p \in P : o \in f[p].ordinals
  OBVIOUS
<1>10. P # {}
  BY <1>5
<1> HIDE DEF ordinals
<1> QED
  BY <1>3, <1>6, <1>8, <1>9, <1>10

LEMMA EitherRight ==
    ASSUME NEW f, NEW hold, NEW N, NEW P, AllRight(f, hold, N, P),
           NEW sels, sels = Outcomes(f, P), Exact(EitherOf(sels))
    PROVE  \A o : o \in EitherOf(sels).ordinals <=> o \in 1..N /\ \E p \in P : hold[o][p]
<1> USE DEF Outcomes, AllRight
<1> DEFINE ordinals == UNION {s.ordinals : s \in sels}
           exact == \A s \in sels : s.exact
           loose == \E s \in sels : ~s.bounded
<1>1. EitherOf(sels) = IF loose THEN Unbounded ELSE Selection(ordinals, exact)
  BY Zenon DEF EitherOf
<1>2. ~loose /\ EitherOf(sels) = Selection(ordinals, exact) /\ exact
  <2>1. ~loose
    BY <1>1, UnboundedIs, Zenon
  <2>2. EitherOf(sels) = Selection(ordinals, exact)
    BY <1>1, <2>1, Zenon
  <2>3. Exact(Selection(ordinals, exact))
    BY <2>2, Zenon
  <2> HIDE DEF loose, ordinals, exact
  <2>4. exact
    BY <2>3, SelectionExact
  <2> QED
    BY <2>1, <2>2, <2>4, Zenon
<1>3. EitherOf(sels).ordinals = ordinals
  <2>1. PICK os, e : EitherOf(sels) = Selection(os, e) /\ os = ordinals
    BY <1>2, Zenon
  <2> HIDE DEF ordinals
  <2> QED
    BY <2>1, SelectionIs
<1>4. \A s \in sels : Exact(s)
  BY <1>2 DEF Exact
<1>5. \A p \in P : f[p] \in sels /\ Exact(f[p])
  BY <1>4
<1>6. \A p \in P : \A o : o \in f[p].ordinals <=> o \in 1..N /\ hold[o][p]
  BY <1>5 DEF RightAt
<1>7. \A o : o \in ordinals <=> \E p \in P : o \in f[p].ordinals
  OBVIOUS
<1> HIDE DEF ordinals
<1> QED
  BY <1>3, <1>6, <1>7

LEMMA NoneRight ==
    ASSUME NEW f, NEW hold, NEW N, NEW P, AllRight(f, hold, N, P),
           NEW sels, sels = Outcomes(f, P), Exact(NoneOf(sels, N))
    PROVE  \A o : o \in NoneOf(sels, N).ordinals <=> o \in 1..N /\ \A p \in P : ~hold[o][p]
<1> USE DEF Outcomes, AllRight
<1> DEFINE ordinals == (1..N) \ UNION {s.ordinals : s \in sels}
           loose == \E s \in sels : ~s.bounded \/ ~s.exact
<1>1. NoneOf(sels, N) = IF loose THEN Unbounded ELSE Selection(ordinals, TRUE)
  BY Zenon DEF NoneOf
<1>2. ~loose /\ NoneOf(sels, N) = Selection(ordinals, TRUE)
  <2>1. ~loose
    BY <1>1, UnboundedIs, Zenon
  <2> QED
    BY <1>1, <2>1, Zenon
<1>3. NoneOf(sels, N).ordinals = ordinals
  <2>1. PICK os, e : NoneOf(sels, N) = Selection(os, e) /\ os = ordinals
    BY <1>2, Zenon
  <2> HIDE DEF ordinals
  <2> QED
    BY <2>1, SelectionIs
<1>4. \A s \in sels : Exact(s)
  BY <1>2 DEF Exact
<1>5. \A p \in P : f[p] \in sels /\ Exact(f[p])
  BY <1>4
<1>6. \A p \in P : \A o : o \in f[p].ordinals <=> o \in 1..N /\ hold[o][p]
  BY <1>5 DEF RightAt
<1>7. \A o : o \in ordinals <=> o \in 1..N /\ \A p \in P : o \notin f[p].ordinals
  OBVIOUS
<1> HIDE DEF ordinals
<1> QED
  BY <1>3, <1>6, <1>7

\* What is selected has at least the documents for which clause n holds.
CoverAt(sel, hold, N, n) == sel.bounded => \A o \in 1..N : hold[o][n] => o \in sel.ordinals
AllCover(f, hold, N, P) == \A p \in P : CoverAt(f[p], hold, N, p)

LEMMA BothCover ==
    ASSUME NEW f, NEW hold, NEW N, NEW P, AllCover(f, hold, N, P),
           NEW sels, sels = Outcomes(f, P), BothOf(sels).bounded,
           NEW o \in 1..N, \A p \in P : hold[o][p]
    PROVE  o \in BothOf(sels).ordinals
<1> DEFINE bounded == {s \in sels : s.bounded}
           ordinals == {x \in UNION {s.ordinals : s \in bounded} : \A s \in bounded : x \in s.ordinals}
           exact == \A s \in sels : s.bounded /\ s.exact
<1>1. BothOf(sels) = IF bounded = {} THEN Unbounded ELSE Selection(ordinals, exact)
  BY Zenon DEF BothOf
<1>2. bounded # {}
  <2>1. ~Unbounded.bounded
    BY DEF Unbounded
  <2> QED
    BY <1>1, <2>1, Zenon
<1>3. BothOf(sels).ordinals = ordinals
  <2>1. PICK os, e : BothOf(sels) = Selection(os, e) /\ os = ordinals
    BY <1>1, <1>2, Zenon
  <2> HIDE DEF ordinals
  <2> QED
    BY <2>1, SelectionIs
<1>4. \A s \in bounded : o \in s.ordinals
  BY DEF Outcomes, AllCover, CoverAt
<1>5. o \in ordinals
  BY <1>2, <1>4
<1> QED
  BY <1>3, <1>5

LEMMA EitherCover ==
    ASSUME NEW f, NEW hold, NEW N, NEW P, AllCover(f, hold, N, P),
           NEW sels, sels = Outcomes(f, P), EitherOf(sels).bounded,
           NEW o \in 1..N, \E p \in P : hold[o][p]
    PROVE  o \in EitherOf(sels).ordinals
<1> DEFINE ordinals == UNION {s.ordinals : s \in sels}
           exact == \A s \in sels : s.exact
           loose == \E s \in sels : ~s.bounded
<1>1. EitherOf(sels) = IF loose THEN Unbounded ELSE Selection(ordinals, exact)
  BY Zenon DEF EitherOf
<1>2. ~loose
  <2>1. ~Unbounded.bounded
    BY DEF Unbounded
  <2> QED
    BY <1>1, <2>1, Zenon
<1>3. EitherOf(sels).ordinals = ordinals
  <2>1. PICK os, e : EitherOf(sels) = Selection(os, e) /\ os = ordinals
    BY <1>1, <1>2, Zenon
  <2> HIDE DEF ordinals
  <2> QED
    BY <2>1, SelectionIs
<1>4. PICK p \in P : hold[o][p]
  OBVIOUS
<1>5. f[p] \in sels /\ o \in f[p].ordinals
  BY <1>2, <1>4 DEF Outcomes, AllCover, CoverAt
<1> QED
  BY <1>3, <1>5

LEMMA NoneIsExact ==
    ASSUME NEW sels, NEW N, NoneOf(sels, N).bounded
    PROVE  Exact(NoneOf(sels, N))
<1> DEFINE ordinals == (1..N) \ UNION {s.ordinals : s \in sels}
           loose == \E s \in sels : ~s.bounded \/ ~s.exact
<1>1. NoneOf(sels, N) = IF loose THEN Unbounded ELSE Selection(ordinals, TRUE)
  BY Zenon DEF NoneOf
<1>2. ~Unbounded.bounded
  BY DEF Unbounded
<1>3. PICK os : NoneOf(sels, N) = Selection(os, TRUE)
  BY <1>1, <1>2, Zenon
<1> QED
  BY <1>3, SelectionIs DEF Exact

\* Indexes over columns of a segment.
IndexesOver(indexes, docs, types) ==
    \A a \in DOMAIN indexes :
        a \in DOMAIN types /\ Over(indexes[a], Column(docs, a), types[a], Len(docs))

\* A filter whose literals the indexes can be asked for.
Askable(filter, types) ==
    /\ Postfix(filter)
    /\ \A n \in 1..Len(filter) : filter[n].kind = "Cmp" =>
          /\ Numbered(filter[n].value)
          /\ filter[n].key \in DOMAIN types
                => Faithful(filter[n].op, filter[n].value, types[filter[n].key])

LEMMA ColumnActual ==
    ASSUME NEW docs, IsSequence(docs), NEW a, NEW o \in 1..Len(docs)
    PROVE  Actual(Column(docs, a), o) = ValueAt(docs[o].attrs, a)
<1>1. DOMAIN docs = 1..Len(docs)
  BY SequenceOf
<1> QED
  BY <1>1 DEF Actual, Column, ValueAt

LEMMA ComparisonRight ==
    ASSUME NEW docs, IsSequence(docs), NEW indexes, NEW types, IndexesOver(indexes, docs, types),
           NEW clause, clause.kind = "Cmp", Numbered(clause.value),
           clause.key \in DOMAIN types => Faithful(clause.op, clause.value, types[clause.key]),
           clause.key \in DOMAIN indexes,
           NEW sel, sel = Select(indexes[clause.key], clause.op, clause.value), Exact(sel), NEW fts
    PROVE  \A o : o \in sel.ordinals <=>
                     o \in 1..Len(docs) /\ MatchesClause(clause, docs[o].attrs, fts)
<1> DEFINE a == clause.key
           op == clause.op
           w == clause.value
<1>1. a \in DOMAIN types /\ Over(indexes[a], Column(docs, a), types[a], Len(docs))
  BY DEF IndexesOver
<1>2. SelectsRight(indexes[a], Column(docs, a), op, w, Len(docs))
  BY <1>1, SelectIsRight
<1>3. sel.ordinals = Passing(Column(docs, a), op, w, Len(docs))
  BY <1>2 DEF SelectsRight
<1>4. op \notin FullTextOps
  <2> SUFFICES ASSUME op \in FullTextOps
               PROVE  sel = Unbounded
    BY UnboundedIs
  <2> QED
    BY DEF FullTextOps, Select, Orderings
<1>5. ASSUME NEW o \in 1..Len(docs)
      PROVE  MatchesClause(clause, docs[o].attrs, fts)
                <=> Eval(Actual(Column(docs, a), o), op, w)
  <2>1. Actual(Column(docs, a), o) = ValueAt(docs[o].attrs, a)
    BY ColumnActual
  <2> QED
    BY <1>4, <2>1 DEF MatchesClause
<1> QED
  BY <1>3, <1>5 DEF Passing

LEMMA ComparisonCovers ==
    ASSUME NEW docs, IsSequence(docs), NEW indexes, NEW types, IndexesOver(indexes, docs, types),
           NEW clause, clause.kind = "Cmp", Numbered(clause.value),
           clause.key \in DOMAIN types => Faithful(clause.op, clause.value, types[clause.key]),
           clause.key \in DOMAIN indexes,
           NEW sel, sel = Select(indexes[clause.key], clause.op, clause.value), sel.bounded,
           NEW fts, NEW o \in 1..Len(docs), MatchesClause(clause, docs[o].attrs, fts)
    PROVE  o \in sel.ordinals
<1>1. CASE Exact(sel)
  BY <1>1, ComparisonRight
<1>2. CASE ~Exact(sel)
  <2>1. PICK a, op, w, index, column, type :
            /\ a = clause.key /\ op = clause.op /\ w = clause.value
            /\ index = indexes[a] /\ column = Column(docs, a) /\ type = types[a]
    OBVIOUS
  <2>2. op \in Orderings /\ index.multi_valued
    BY <1>2, <2>1, InexactSelect DEF Exact
  <2>3. a \in DOMAIN types /\ Over(index, column, type, Len(docs))
    BY <2>1 DEF IndexesOver
  <2>4. ~Eval(Actual(column, o), op, w)
    BY <2>1, <2>2, <2>3, ArraysUnordered
  <2>5. Actual(column, o) = ValueAt(docs[o].attrs, a)
    BY <2>1, ColumnActual
  <2>6. op \notin FullTextOps
    BY <2>2 DEF FullTextOps, Orderings
  <2> QED
    BY <2>1, <2>4, <2>5, <2>6 DEF MatchesClause
<1> QED
  BY <1>1, <1>2

---------------------------------------------------------------------------
\* Clause by clause.
\* What clause n selects, when it is exact, is where it holds.
ClauseStep(filter, docs, fts, indexes, f, hold, n) ==
    /\ f[n] = SelectionAt(filter, indexes, Len(docs), n, Operands(f, filter, n))
    /\ \A o \in 1..Len(docs) : hold[o][n] <=> HoldsAt(filter[n], docs[o].attrs, fts, hold[o])

LEMMA ClauseRight ==
    ASSUME NEW docs, IsSequence(docs), NEW indexes, NEW types, IndexesOver(indexes, docs, types),
           NEW filter, Askable(filter, types), NEW fts, NEW f, NEW hold,
           NEW n \in 1..Len(filter), ClauseStep(filter, docs, fts, indexes, f, hold, n),
           \A p \in filter[n].parts : RightAt(f[p], hold, Len(docs), p)
    PROVE  RightAt(f[n], hold, Len(docs), n)
<1> SUFFICES ASSUME Exact(f[n])
             PROVE  \A o : o \in f[n].ordinals <=> o \in 1..Len(docs) /\ hold[o][n]
  BY DEF RightAt
<1>1. PICK clause, N, parts, sels : /\ clause = filter[n] /\ N = Len(docs) /\ parts = clause.parts
                                    /\ sels = Outcomes(f, parts)
  OBVIOUS
<1>2. /\ clause.kind \in {"Cmp", "And", "Or", "Not"}
      /\ clause.kind = "Cmp" => /\ Numbered(clause.value)
                                /\ clause.key \in DOMAIN types
                                      => Faithful(clause.op, clause.value, types[clause.key])
  BY <1>1 DEF Askable, Postfix
<1>3. AllRight(f, hold, N, parts)
  BY <1>1 DEF AllRight
<1>4. sels = Operands(f, filter, n)
  BY <1>1 DEF Operands, Outcomes
<1>5. f[n] = SelectionAt(filter, indexes, N, n, sels)
  BY <1>1, <1>4 DEF ClauseStep
<1>6. \A o \in 1..N : hold[o][n] <=> HoldsAt(clause, docs[o].attrs, fts, hold[o])
  BY <1>1 DEF ClauseStep
<1>7. CASE clause.kind = "Cmp"
  <2>1. f[n] = IF clause.key \in DOMAIN indexes
               THEN Select(indexes[clause.key], clause.op, clause.value) ELSE Unbounded
    BY <1>1, <1>5, <1>7 DEF SelectionAt
  <2>2. clause.key \in DOMAIN indexes /\ f[n] = Select(indexes[clause.key], clause.op, clause.value)
    BY <2>1, UnboundedIs
  <2>3. PICK sel : sel = f[n]
    OBVIOUS
  <2>4. \A o : o \in sel.ordinals <=> o \in 1..Len(docs) /\ MatchesClause(clause, docs[o].attrs, fts)
    BY <1>2, <1>7, <2>2, <2>3, ComparisonRight
  <2>5. \A o \in 1..N : hold[o][n] <=> MatchesClause(clause, docs[o].attrs, fts)
    BY <1>6, <1>7 DEF HoldsAt
  <2> QED
    BY <1>1, <2>3, <2>4, <2>5
<1>8. CASE clause.kind = "And"
  <2>1. f[n] = BothOf(sels)
    BY <1>1, <1>5, <1>8 DEF SelectionAt
  <2>2. \A o : o \in BothOf(sels).ordinals <=> o \in 1..N /\ \A p \in parts : hold[o][p]
    BY <1>1, <1>3, <2>1, BothRight
  <2>3. \A o \in 1..N : hold[o][n] <=> \A p \in parts : hold[o][p]
    BY <1>1, <1>6, <1>8 DEF HoldsAt
  <2> QED
    BY <1>1, <2>1, <2>2, <2>3
<1>9. CASE clause.kind = "Or"
  <2>1. f[n] = EitherOf(sels)
    BY <1>1, <1>5, <1>9 DEF SelectionAt
  <2>2. \A o : o \in EitherOf(sels).ordinals <=> o \in 1..N /\ \E p \in parts : hold[o][p]
    BY <1>1, <1>3, <2>1, EitherRight
  <2>3. \A o \in 1..N : hold[o][n] <=> \E p \in parts : hold[o][p]
    BY <1>1, <1>6, <1>9 DEF HoldsAt
  <2> QED
    BY <1>1, <2>1, <2>2, <2>3
<1>10. CASE clause.kind = "Not"
  <2>1. f[n] = NoneOf(sels, N)
    BY <1>1, <1>5, <1>10 DEF SelectionAt
  <2>2. \A o : o \in NoneOf(sels, N).ordinals <=> o \in 1..N /\ \A p \in parts : ~hold[o][p]
    BY <1>1, <1>3, <2>1, NoneRight
  <2>3. \A o \in 1..N : hold[o][n] <=> \A p \in parts : ~hold[o][p]
    BY <1>1, <1>6, <1>10 DEF HoldsAt
  <2> QED
    BY <1>1, <2>1, <2>2, <2>3
<1> QED
  BY <1>2, <1>7, <1>8, <1>9, <1>10

LEMMA ClauseCovers ==
    ASSUME NEW docs, IsSequence(docs), NEW indexes, NEW types, IndexesOver(indexes, docs, types),
           NEW filter, Askable(filter, types), NEW fts, NEW f, NEW hold,
           NEW n \in 1..Len(filter), ClauseStep(filter, docs, fts, indexes, f, hold, n),
           \A p \in filter[n].parts : CoverAt(f[p], hold, Len(docs), p),
           RightAt(f[n], hold, Len(docs), n)
    PROVE  CoverAt(f[n], hold, Len(docs), n)
<1> SUFFICES ASSUME f[n].bounded, NEW o \in 1..Len(docs), hold[o][n]
             PROVE  o \in f[n].ordinals
  BY DEF CoverAt
<1>1. PICK clause, N, parts, sels : /\ clause = filter[n] /\ N = Len(docs) /\ parts = clause.parts
                                    /\ sels = Outcomes(f, parts)
  OBVIOUS
<1>2. /\ clause.kind \in {"Cmp", "And", "Or", "Not"}
      /\ clause.kind = "Cmp" => /\ Numbered(clause.value)
                                /\ clause.key \in DOMAIN types
                                      => Faithful(clause.op, clause.value, types[clause.key])
  BY <1>1 DEF Askable, Postfix
<1>3. AllCover(f, hold, N, parts)
  BY <1>1 DEF AllCover
<1>4. sels = Operands(f, filter, n)
  BY <1>1 DEF Operands, Outcomes
<1>5. f[n] = SelectionAt(filter, indexes, N, n, sels)
  BY <1>1, <1>4 DEF ClauseStep
<1>6. HoldsAt(clause, docs[o].attrs, fts, hold[o])
  BY <1>1 DEF ClauseStep
<1>7. CASE clause.kind = "Cmp"
  <2>1. f[n] = IF clause.key \in DOMAIN indexes
               THEN Select(indexes[clause.key], clause.op, clause.value) ELSE Unbounded
    BY <1>1, <1>5, <1>7 DEF SelectionAt
  <2>2. clause.key \in DOMAIN indexes /\ f[n] = Select(indexes[clause.key], clause.op, clause.value)
    <3>1. ~Unbounded.bounded
      BY DEF Unbounded
    <3> QED
      BY <2>1, <3>1
  <2>3. PICK sel : sel = f[n]
    OBVIOUS
  <2>4. MatchesClause(clause, docs[o].attrs, fts)
    BY <1>6, <1>7 DEF HoldsAt
  <2>5. o \in sel.ordinals
    BY <1>2, <1>7, <2>2, <2>3, <2>4, ComparisonCovers
  <2> QED
    BY <2>3, <2>5
<1>8. CASE clause.kind = "And"
  <2>1. f[n] = BothOf(sels)
    BY <1>1, <1>5, <1>8 DEF SelectionAt
  <2>2. \A p \in parts : hold[o][p]
    BY <1>1, <1>6, <1>8 DEF HoldsAt
  <2> QED
    BY <1>1, <1>3, <2>1, <2>2, BothCover
<1>9. CASE clause.kind = "Or"
  <2>1. f[n] = EitherOf(sels)
    BY <1>1, <1>5, <1>9 DEF SelectionAt
  <2>2. \E p \in parts : hold[o][p]
    BY <1>1, <1>6, <1>9 DEF HoldsAt
  <2> QED
    BY <1>1, <1>3, <2>1, <2>2, EitherCover
<1>10. CASE clause.kind = "Not"
  <2>1. f[n] = NoneOf(sels, N)
    BY <1>1, <1>5, <1>10 DEF SelectionAt
  <2>2. Exact(f[n])
    BY <2>1, NoneIsExact
  <2> QED
    BY <1>1, <2>2 DEF RightAt
<1> QED
  BY <1>2, <1>7, <1>8, <1>9, <1>10

LEMMA FilterRight ==
    ASSUME NEW docs, IsSequence(docs), NEW indexes, NEW types, IndexesOver(indexes, docs, types),
           NEW filter, Askable(filter, types), NEW fts,
           NEW sel, sel = Evaluate(filter, indexes, Len(docs))
    PROVE  /\ Exact(sel) => \A o : o \in sel.ordinals <=>
                                   o \in 1..Len(docs) /\ Matches(filter, docs[o].attrs, fts)
           /\ sel.bounded => \A o \in 1..Len(docs) :
                                   Matches(filter, docs[o].attrs, fts) => o \in sel.ordinals
<1>1. PICK N, total : N = Len(filter) /\ total = Len(docs)
  OBVIOUS
<1>2. Postfix(filter) /\ N \in Nat /\ N # 0
  BY <1>1 DEF Askable, Postfix
<1>3. PICK f : /\ \A n \in 1..Len(filter) :
                        f[n] = SelectionAt(filter, indexes, total, n, Operands(f, filter, n))
               /\ Evaluate(filter, indexes, total) = f[Len(filter)]
  BY <1>2, EvaluateStages
<1>4. PICK hold : hold = [o \in 1..total |-> Holdings(filter, docs[o].attrs, fts)]
  OBVIOUS
<1>5. ASSUME NEW o \in 1..total
      PROVE  /\ \A n \in 1..Len(filter) : hold[o][n] = HoldsAt(filter[n], docs[o].attrs, fts, hold[o])
             /\ Matches(filter, docs[o].attrs, fts) <=> hold[o][Len(filter)]
  <2>1. PICK attrs, g : attrs = docs[o].attrs /\ g = hold[o]
    OBVIOUS
  <2>2. g = Holdings(filter, attrs, fts)
    BY <1>4, <2>1
  <2>3. /\ \A n \in 1..Len(filter) : g[n] = HoldsAt(filter[n], attrs, fts, g)
        /\ Matches(filter, attrs, fts) <=> g[Len(filter)]
    BY <1>2, <2>2, MatchesStages
  <2> QED
    BY <2>1, <2>3, Zenon
<1> DEFINE S == {k \in 0..N : \A n \in 1..k : /\ RightAt(f[n], hold, total, n)
                                      /\ CoverAt(f[n], hold, total, n)}
<1>6. 0 \in S
  BY <1>2
<1>7. ASSUME NEW k \in 0..N, k < N, k \in S
      PROVE  k + 1 \in S
  <2>1. k + 1 \in 0..N /\ k + 1 \in 1..Len(filter)
    BY <1>1, <1>2, <1>7
  <2>2. PICK n : n = k + 1
    OBVIOUS
  <2>3. n \in 1..Len(filter)
    BY <2>1, <2>2
  <2>4. ClauseStep(filter, docs, fts, indexes, f, hold, n)
    BY <1>1, <1>3, <1>5, <2>3 DEF ClauseStep
  <2>5. \A p \in filter[n].parts : p \in 1..k
    <3>1. filter[n].parts \subseteq 1..n - 1
      BY <1>2, <2>3 DEF Postfix
    <3> QED
      BY <1>2, <2>2, <3>1
  <2>6. \A p \in filter[n].parts : /\ RightAt(f[p], hold, Len(docs), p)
                                    /\ CoverAt(f[p], hold, Len(docs), p)
    BY <1>1, <1>7, <2>5
  <2>7. RightAt(f[n], hold, Len(docs), n)
    BY <2>3, <2>4, <2>6, ClauseRight
  <2>8. CoverAt(f[n], hold, Len(docs), n)
    BY <2>3, <2>4, <2>6, <2>7, ClauseCovers
  <2>9. \A m \in 1..(k + 1) : m \in 1..k \/ m = k + 1
    BY <1>2
  <2>10. \A m \in 1..(k + 1) : RightAt(f[m], hold, total, m) /\ CoverAt(f[m], hold, total, m)
    BY <1>1, <1>7, <2>2, <2>7, <2>9, <2>8
  <2> QED
    BY <2>1, <2>10
<1> HIDE DEF S
<1>8. \A k \in 0..N : k \in S
  BY <1>2, <1>6, <1>7, Replays!Upwards
<1>9. RightAt(f[N], hold, total, N) /\ CoverAt(f[N], hold, total, N)
  <2>1. N \in 0..N /\ N \in 1..N
    BY <1>2
  <2>2. N \in S
    BY <1>8, <2>1
  <2> QED
    BY <2>1, <2>2 DEF S
<1>10. sel = f[N]
  BY <1>1, <1>3
<1>11. /\ Exact(sel) => \A o : o \in sel.ordinals <=> o \in 1..total /\ hold[o][N]
       /\ sel.bounded => \A o \in 1..total : hold[o][N] => o \in sel.ordinals
  BY <1>9, <1>10 DEF RightAt, CoverAt
<1>12. \A o \in 1..total : Matches(filter, docs[o].attrs, fts) <=> hold[o][N]
  BY <1>1, <1>5
<1> QED
  BY <1>1, <1>11, <1>12


---------------------------------------------------------------------------
\* The indexes a shard is built with.
LEMMA ColumnOver ==
    ASSUME NEW s, SoundSchema(s), NEW docs, IsSequence(docs),
           \A o \in 1..Len(docs) : TypedAs(docs[o].attrs, s), NEW a \in DOMAIN s.attributes
    PROVE  Over(BuildIndex(Column(docs, a)), Column(docs, a), s.attributes[a], Len(docs))
<1>1. DOMAIN docs = 1..Len(docs) /\ Len(docs) \in Nat
  BY SequenceOf DEF IsSequence
<1>2. PICK column, type : column = Column(docs, a) /\ type = s.attributes[a]
  OBVIOUS
<1>3. /\ DOMAIN column = {o \in 1..Len(docs) : a \in DOMAIN docs[o].attrs}
      /\ \A o \in DOMAIN column : column[o] = docs[o].attrs[a]
  BY <1>1, <1>2 DEF Column
<1>4. a # "vector" /\ type \in Types
  BY <1>2 DEF SoundSchema
<1>5. ColumnOfType(column, type)
  <2> SUFFICES ASSUME NEW o \in DOMAIN column, ~IsNull(column[o])
               PROVE  Numbered(column[o]) /\ column[o].type = type
    BY DEF ColumnOfType
  <2>1. TypedAs(docs[o].attrs, s) /\ a \in DOMAIN docs[o].attrs
    BY <1>3
  <2>2. docs[o].attrs[a] = column[o]
    BY <1>3
  <2>3. column[o].type = type /\ column[o] \in StorableValues
    BY <1>2, <1>4, <2>1, <2>2 DEF TypedAs
  <2> QED
    BY <2>3, ValuesAssumption
<1>6. Entered(BuildIndex(column), column)
  BY BuiltEntered
<1>7. type # "null"
  BY <1>4 DEF Types, Arrays
<1> QED
  BY <1>1, <1>2, <1>3, <1>5, <1>6, <1>7 DEF Over

LEMMA BuiltOver ==
    ASSUME NEW s, SoundSchema(s), NEW docs, IsSequence(docs),
           \A o \in 1..Len(docs) : TypedAs(docs[o].attrs, s),
           NEW shard, shard = BuildShard(docs, s), shard.indexed
    PROVE  /\ shard.index.docs = Len(docs)
           /\ IndexesOver(shard.index.attributes, docs, s.attributes)
<1>1. docs # <<>>
  <2> SUFFICES ASSUME docs = <<>> PROVE ~shard.indexed
    OBVIOUS
  <2> QED
    BY DEF BuildShard, EmptyShard
<1>2. shard.index = BuildIndexes(docs, s)
  BY <1>1 DEF BuildShard
<1> DEFINE all == [a \in DOMAIN s.attributes |-> BuildIndex(Column(docs, a))]
           kept == {a \in DOMAIN all : DOMAIN all[a].entries # {}}
<1>3. PICK d, c, t, x : BuildIndexes(docs, s) =
          [docs |-> Len(docs), dim |-> d, clusters |-> c, attributes |-> Restrict(all, kept),
           fts |-> t, sparse |-> x]
  BY Zenon DEF BuildIndexes, Filled
<1>4. shard.index.docs = Len(docs) /\ shard.index.attributes = Restrict(all, kept)
  <2> HIDE DEF all, kept
  <2> QED
    BY <1>2, <1>3
<1>5. PICK indexes : indexes = shard.index.attributes
  OBVIOUS
<1>6. /\ DOMAIN indexes \subseteq DOMAIN s.attributes
      /\ \A a \in DOMAIN indexes : indexes[a] = BuildIndex(Column(docs, a))
  BY <1>4, <1>5 DEF Restrict
<1>7. IndexesOver(indexes, docs, s.attributes)
  BY <1>6, ColumnOver DEF IndexesOver
<1> QED
  BY <1>4, <1>5, <1>7

\* Every index a shard has is over its segment, and as long as nothing is in the
\* tail the segments have the documents as they are.
ShardIndexed(shard, types) ==
    shard.indexed => /\ shard.index.docs = Len(shard.segment)
                     /\ IndexesOver(shard.index.attributes, shard.segment, types)

Indexed == \A n \in DOMAIN shards : ShardIndexed(shards[n], schema.attributes)

Holds(shard, documents) ==
    \A o \in 1..Len(shard.segment) : /\ shard.segment[o].id \in DOMAIN documents
                                     /\ shard.segment[o].attrs = documents[shard.segment[o].id]

Found(i) == \E n \in DOMAIN shards : \E o \in 1..Len(shards[n].segment) : shards[n].segment[o].id = i

Settled ==
    AllIndexed => /\ \A n \in DOMAIN shards : Holds(shards[n], live)
                  /\ \A i \in DOMAIN live : Found(i)

AnswersInv == ShardsInv /\ Indexed /\ Settled

LEMMA IndexedStill ==
    ASSUME NEW s, NEW t, Grown(s, t), NEW shard, ShardIndexed(shard, s.attributes)
    PROVE  ShardIndexed(shard, t.attributes)
  BY DEF Grown, ShardIndexed, IndexesOver

LEMMA AnswersInit == Init => AnswersInv
<1> SUFFICES ASSUME Init PROVE AnswersInv
  OBVIOUS
<1>1. shards = <<>>
  BY DEF Init
<1>2. Settled
  BY <1>1 DEF Settled, AllIndexed
<1>3. DOMAIN shards = {}
  BY <1>1
<1>4. Indexed
  BY <1>3 DEF Indexed
<1> QED
  BY <1>2, <1>4, ShardsInit DEF AnswersInv

LEMMA AnswersCompact == AnswersInv /\ Compact => Indexed' /\ Settled'
<1> SUFFICES ASSUME AnswersInv, Compact PROVE Indexed' /\ Settled'
  OBVIOUS
<1>1. SoundSchema(schema) /\ AllFit(live, schema) /\ IsMap(live) /\ Materialized = live
  BY DEF AnswersInv, ShardsInv, SchemaInv
<1>2. PICK c, buckets, s : c = ShardCount(schema) /\ buckets = Buckets(live, schema) /\ s = schema
  OBVIOUS
<1>3. c \in 1..MaxShards /\ Lays(buckets, live, c)
  BY <1>1, <1>2, BucketsLaid
<1>4. shards' = BuildShards(buckets, s) /\ live' = live /\ schema' = s
  BY <1>1, <1>2, CompactedTo
<1>5. DOMAIN buckets = 1..c
  BY <1>3 DEF Lays
<1>6. DOMAIN shards' = 1..c /\ \A n \in 1..c : shards'[n] = BuildShard(buckets[n], s)
  BY <1>4, <1>5 DEF BuildShards
<1>7. \A n \in 1..c : shards'[n].segment = buckets[n]
  BY <1>6, BuiltSegment
<1>8. ASSUME NEW n \in 1..c
      PROVE  ShardIndexed(shards'[n], s.attributes) /\ Holds(shards'[n], live)
  <2>1. PICK docs, shard : docs = buckets[n] /\ shard = shards'[n]
    OBVIOUS
  <2>2. IsSequence(docs) /\ shard = BuildShard(docs, s) /\ shard.segment = docs
    BY <1>3, <1>6, <1>7, <2>1 DEF Lays, InIdOrder
  <2>3. \A o \in 1..Len(docs) : docs[o].id \in DOMAIN live /\ docs[o].attrs = live[docs[o].id]
    BY <1>3, <2>1 DEF Lays
  <2>4. \A o \in 1..Len(docs) : TypedAs(docs[o].attrs, s)
    BY <1>1, <1>2, <2>3 DEF AllFit, DocFits
  <2>5. shard.indexed => /\ shard.index.docs = Len(docs)
                         /\ IndexesOver(shard.index.attributes, docs, s.attributes)
    BY <1>1, <1>2, <2>2, <2>4, BuiltOver
  <2> QED
    BY <2>1, <2>2, <2>3, <2>5 DEF ShardIndexed, Holds
<1>9. Indexed'
  BY <1>4, <1>6, <1>8 DEF Indexed
<1>10. ASSUME NEW i \in DOMAIN live'
       PROVE  Found(i)'
  <2>1. PICK n \in 1..c : \E k \in 1..Len(buckets[n]) : buckets[n][k].id = i
    BY <1>3, <1>4 DEF Lays
  <2> QED
    BY <1>6, <1>7, <2>1 DEF Found
<1>11. \A n \in DOMAIN shards' : Holds(shards'[n], live')
  BY <1>4, <1>6, <1>8
<1> QED
  BY <1>9, <1>10, <1>11 DEF Settled

LEMMA AnswersWrite ==
    ASSUME AnswersInv, NEW batch \in Batches, Write(batch)
    PROVE  Indexed' /\ Settled'
<1>1. PICK p : /\ p = Prepared(schema, batch.records, batch.config, HasData) /\ p.ok
               /\ schema' = p.schema
               /\ tail' = tail \o p.records /\ live' = Docs!Replay(live, p.records)
               /\ shards' = shards
  BY Zenon DEF Write
<1>2. SoundSchema(schema) /\ IsSequence(tail)
  BY DEF AnswersInv, ShardsInv, SchemaInv
<1>3. Grown(schema, p.schema) /\ IsSequence(p.records)
  BY <1>1, <1>2, PreparedFits
<1>4. Indexed'
  <2>1. PICK s, t : s = schema /\ t = schema'
    OBVIOUS
  <2>2. \A shard : ShardIndexed(shard, s.attributes) => ShardIndexed(shard, t.attributes)
    BY <1>1, <1>3, <2>1, IndexedStill
  <2>3. \A n \in DOMAIN shards : ShardIndexed(shards[n], s.attributes)
    BY <2>1 DEF AnswersInv, Indexed
  <2> QED
    BY <1>1, <2>1, <2>2, <2>3 DEF Indexed
<1>5. Settled'
  <2> SUFFICES ASSUME tail' = <<>>, shards' # <<>>
               PROVE  /\ \A n \in DOMAIN shards' : Holds(shards'[n], live')
                      /\ \A i \in DOMAIN live' : Found(i)'
    BY DEF Settled, AllIndexed
  <2>1. PICK s, t : s = tail /\ t = p.records
    OBVIOUS
  <2>2. s \o t = <<>> /\ IsSequence(s) /\ IsSequence(t)
    BY <1>1, <1>2, <1>3, <2>1
  <2>3. Len(s \o t) = Len(s) + Len(t) /\ Len(s \o t) = 0 /\ Len(s) \in Nat /\ Len(t) \in Nat
    BY <2>2, Joined2, NoRecords DEF IsSequence
  <2>4. Len(s) = 0 /\ Len(t) = 0
    BY <2>3
  <2>5. s = <<>> /\ t = <<>>
    BY <2>2, <2>4 DEF IsSequence
  <2>6. live' = live
    BY <1>1, <2>1, <2>5, NoneReplayed
  <2>7. AllIndexed
    BY <1>1, <2>1, <2>5 DEF AllIndexed
  <2> QED
    BY <1>1, <2>6, <2>7 DEF AnswersInv, Settled, Found
<1> QED
  BY <1>4, <1>5

LEMMA AnswersNext == AnswersInv /\ [Next]_vars => AnswersInv'
<1> SUFFICES ASSUME AnswersInv, [Next]_vars PROVE AnswersInv'
  OBVIOUS
<1>1. ShardsInv'
  BY ShardsNext DEF AnswersInv
<1>2. CASE Compact
  BY <1>1, <1>2, AnswersCompact DEF AnswersInv
<1>3. ASSUME NEW batch \in Batches, Write(batch) PROVE AnswersInv'
  BY <1>1, <1>3, AnswersWrite DEF AnswersInv
<1>4. CASE UNCHANGED vars
  <2>1. shards' = shards /\ tail' = tail /\ live' = live /\ schema' = schema
    BY <1>4 DEF vars
  <2> QED
    BY <1>1, <2>1 DEF AnswersInv, Indexed, Settled, AllIndexed, Found
<1> QED
  BY <1>2, <1>3, <1>4 DEF Next


---------------------------------------------------------------------------
\* Filters as they are fitted to the schema.
ClauseOf(k, a, op, v, P) == [kind |-> k, key |-> a, op |-> op, value |-> v, parts |-> P]

LEMMA ValueReplaced ==
    ASSUME NEW k, NEW a, NEW op, NEW v, NEW P, NEW w, NEW c, c = ClauseOf(k, a, op, v, P)
    PROVE  [c EXCEPT !.value = w] = ClauseOf(k, a, op, w, P)
<1> DEFINE new == [c EXCEPT !.value = w]
<1>1. c \in [kind : {k}, key : {a}, op : {op}, value : {v}, parts : {P}]
  BY DEF ClauseOf
<1>2. new \in [kind : {k}, key : {a}, op : {op}, value : {w}, parts : {P}]
  BY <1>1
<1> HIDE DEF new
<1>3. new = ClauseOf(k, a, op, w, P)
  BY <1>2 DEF ClauseOf
<1> QED
  BY <1>3 DEF new

\* A clause keeps all but its literal, which is coerced to a type or is what it
\* was.
LEMMA CoercedClause ==
    ASSUME NEW types, \A a \in DOMAIN types : types[a] \in Types,
           NEW k, NEW a, NEW op, NEW v, NEW P, NEW clause, clause = ClauseOf(k, a, op, v, P)
    PROVE  \E w : /\ CoerceClause(clause, types) = ClauseOf(k, a, op, w, P)
                  /\ w = v \/ \E t \in Types : w = CoerceOperand(v, t)
<1>1. clause.kind = k /\ clause.key = a /\ clause.op = op /\ clause.value = v
  BY DEF ClauseOf
<1> DEFINE asIs == k # "Cmp" \/ a \notin DOMAIN types \/ op \in FullTextOps \cup PatternOps \/ IsNull(v)
           type == IF op \in ElementOps THEN ElementType(types[a]) ELSE types[a]
           w == CoerceOperand(v, type)
<1>2. CoerceClause(clause, types) = IF asIs THEN clause ELSE [clause EXCEPT !.value = w]
  BY <1>1 DEF CoerceClause
<1>3. CASE asIs
  <2>1. CoerceClause(clause, types) = ClauseOf(k, a, op, v, P)
    BY <1>2, <1>3
  <2> QED
    BY <2>1
<1>4. CASE ~asIs
  <2>1. PICK t : t = type
    OBVIOUS
  <2>2. t \in Types
    <3>1. types[a] \in Types
      BY <1>4
    <3> QED
      BY <2>1, <3>1 DEF ElementType, Types, Arrays
  <2>3. PICK u : u = CoerceOperand(v, t)
    OBVIOUS
  <2> HIDE DEF type, asIs
  <2>4. CoerceClause(clause, types) = [clause EXCEPT !.value = u]
    BY <1>2, <1>4, <2>1, <2>3
  <2>5. CoerceClause(clause, types) = ClauseOf(k, a, op, u, P)
    BY <2>4, ValueReplaced
  <2> QED
    BY <2>2, <2>3, <2>5
<1> QED
  BY <1>3, <1>4

LEMMA AnswerableAsked ==
    ASSUME SoundSchema(schema), NEW f \in Answerable,
           NEW filter, filter = CoerceFilter(f, schema.attributes)
    PROVE  Askable(filter, schema.attributes)
<1>1. PICK types : types = schema.attributes /\ \A a \in DOMAIN types : types[a] \in Types
  BY DEF SoundSchema
<1>2. /\ f \in GivenFilters /\ ~Rejected(filter)
      /\ \A n \in DOMAIN filter :
            filter[n].kind = "Cmp" /\ filter[n].key \in DOMAIN types
                => Faithful(filter[n].op, filter[n].value, types[filter[n].key])
  BY <1>1, Zenon DEF Answerable
<1>3. /\ Postfix(f)
      /\ \A v \in Literals(f) :
            /\ Numbered(v)
            /\ \A t \in Types : CoerceOperand(v, t) # NoValue => Numbered(CoerceOperand(v, t))
  BY <1>2, FiltersAssumption
<1>4. PICK N : N = Len(f) /\ N \in Nat \ {0} /\ f = [n \in 1..N |-> f[n]] /\ DOMAIN f = 1..N
  BY <1>3 DEF Postfix
<1>5. /\ DOMAIN filter = 1..N
      /\ filter = [n \in 1..N |-> filter[n]]
      /\ \A n \in 1..N : filter[n] = CoerceClause(f[n], types)
  BY <1>1, <1>4 DEF CoerceFilter
<1>6. Len(filter) = N
  BY <1>4, <1>5, MadeSequence
<1>7. ASSUME NEW n \in 1..N
      PROVE  /\ filter[n] = ClauseOf(filter[n].kind, filter[n].key, filter[n].op, filter[n].value,
                                     filter[n].parts)
             /\ filter[n].kind \in {"Cmp", "And", "Or", "Not"}
             /\ filter[n].parts \subseteq 1..n - 1
             /\ Numbered(filter[n].value)
  <2>1. PICK k, a, op, v, P, clause : /\ k = f[n].kind /\ a = f[n].key /\ op = f[n].op
                                      /\ v = f[n].value /\ P = f[n].parts /\ clause = f[n]
    OBVIOUS
  <2>2. clause = ClauseOf(k, a, op, v, P) /\ k \in {"Cmp", "And", "Or", "Not"} /\ P \subseteq 1..n - 1
    BY <1>3, <1>4, <2>1 DEF Postfix, ClauseOf
  <2>3. v \in Literals(f)
    BY <1>4, <2>1 DEF Literals
  <2>4. PICK w : /\ CoerceClause(clause, types) = ClauseOf(k, a, op, w, P)
                 /\ w = v \/ \E t \in Types : w = CoerceOperand(v, t)
    BY <1>1, <2>2, CoercedClause
  <2>5. filter[n] = ClauseOf(k, a, op, w, P)
    BY <1>5, <2>1, <2>4
  <2>6. /\ filter[n].kind = k /\ filter[n].key = a /\ filter[n].op = op
        /\ filter[n].value = w /\ filter[n].parts = P
    BY <2>5 DEF ClauseOf
  <2>7. w # NoValue
    BY <1>2, <1>5, <2>6 DEF Rejected
  <2>8. Numbered(w)
    BY <1>3, <2>3, <2>4, <2>7
  <2> QED
    BY <2>2, <2>5, <2>6, <2>8
<1>8. Postfix(filter)
  BY <1>4, <1>5, <1>6, <1>7 DEF Postfix, ClauseOf
<1> QED
  BY <1>1, <1>2, <1>5, <1>6, <1>7, <1>8 DEF Askable

---------------------------------------------------------------------------
\* The ids a list of selections stands for.
IdsSelected(sel) == UNION {{shards[n].segment[o].id : o \in sel[n].ordinals} : n \in DOMAIN sel}

Usable(sel) == \A n \in DOMAIN sel : shards[n].indexed /\ sel[n].bounded /\ sel[n].exact

LookedUp(sel, filter) ==
    IF AllIndexed /\ Usable(sel) THEN IdsSelected(sel)
    ELSE {i \in DOMAIN Materialized : Matches(filter, Materialized[i], schema.fts)}

LEMMA IdsLookedUp ==
    ASSUME NEW f
    PROVE  IdsMatching(f) =
               LookedUp([n \in DOMAIN shards |->
                            SelectionOf(shards[n], CoerceFilter(f, schema.attributes))],
                        CoerceFilter(f, schema.attributes))
BY Zenon DEF IdsMatching, LookedUp, IdsSelected, Usable

LEMMA IdsMatchingIs ==
    ASSUME NEW f, NEW filter, filter = CoerceFilter(f, schema.attributes),
           NEW sel, sel = [n \in DOMAIN shards |-> SelectionOf(shards[n], filter)]
    PROVE  IdsMatching(f) =
               IF AllIndexed /\ Usable(sel) THEN IdsSelected(sel)
               ELSE {i \in DOMAIN Materialized : Matches(filter, Materialized[i], schema.fts)}
<1>1. IdsMatching(f) = LookedUp(sel, filter)
  BY IdsLookedUp
<1> QED
  BY <1>1, Zenon DEF LookedUp

LEMMA SelectedByIndexes ==
    ASSUME AnswersInv, NEW f \in Answerable, NEW filter, filter = CoerceFilter(f, schema.attributes),
           NEW sel, sel = [n \in DOMAIN shards |-> SelectionOf(shards[n], filter)],
           AllIndexed, Usable(sel)
    PROVE  IdsSelected(sel) = {i \in DOMAIN live : Matches(filter, live[i], schema.fts)}
<1>1. SoundSchema(schema) /\ ShardsSorted /\ Indexed
  BY DEF AnswersInv, ShardsInv, SchemaInv
<1>2. PICK types, fts : types = schema.attributes /\ fts = schema.fts
  OBVIOUS
<1>3. Askable(filter, types)
  BY <1>1, <1>2, AnswerableAsked
<1>4. /\ \A n \in DOMAIN shards : Holds(shards[n], live)
      /\ \A i \in DOMAIN live : Found(i)
  BY DEF AnswersInv, Settled
<1>5. DOMAIN sel = DOMAIN shards
  OBVIOUS
<1>6. ASSUME NEW n \in DOMAIN shards
      PROVE  \A o : o \in sel[n].ordinals <=>
                  /\ o \in 1..Len(shards[n].segment)
                  /\ Matches(filter, shards[n].segment[o].attrs, fts)
  <2>1. PICK docs, indexes, own : /\ docs = shards[n].segment /\ own = sel[n]
                                  /\ indexes = shards[n].index.attributes
    OBVIOUS
  <2>2. shards[n].indexed /\ Exact(own)
    BY <1>5, <2>1 DEF Usable, Exact
  <2>3. shards[n].index.docs = Len(docs) /\ IndexesOver(indexes, docs, types)
    BY <1>1, <1>2, <2>1, <2>2 DEF Indexed, ShardIndexed
  <2>4. own = Evaluate(filter, indexes, Len(docs))
    BY <2>1, <2>3 DEF SelectionOf
  <2>5. IsSequence(docs)
    BY <1>1, <2>1 DEF ShardsSorted, InIdOrder
  <2>6. \A o : o \in own.ordinals <=> o \in 1..Len(docs) /\ Matches(filter, docs[o].attrs, fts)
    <3>1. Exact(own) /\ IndexesOver(indexes, docs, types)
      BY <2>2, <2>3
    <3> QED
      BY ONLY <1>3, <2>4, <2>5, <3>1, FilterRight, Zenon
  <2> QED
    BY <2>1, <2>6
<1>7. ASSUME NEW n \in DOMAIN shards, NEW o \in sel[n].ordinals
      PROVE  /\ shards[n].segment[o].id \in DOMAIN live
             /\ Matches(filter, live[shards[n].segment[o].id], fts)
  BY <1>4, <1>6, <1>7 DEF Holds
<1>8. ASSUME NEW i \in DOMAIN live, Matches(filter, live[i], fts)
      PROVE  \E n \in DOMAIN shards : \E o \in sel[n].ordinals : shards[n].segment[o].id = i
  <2>1. PICK n \in DOMAIN shards : \E o \in 1..Len(shards[n].segment) : shards[n].segment[o].id = i
    BY <1>4 DEF Found
  <2>2. PICK o \in 1..Len(shards[n].segment) : shards[n].segment[o].id = i
    BY <2>1
  <2>3. shards[n].segment[o].attrs = live[i]
    BY <1>4, <2>2 DEF Holds
  <2>4. o \in sel[n].ordinals
    BY <1>6, <1>8, <2>3
  <2> QED
    BY <2>2, <2>4
<1>9. \A i : i \in IdsSelected(sel) <=>
          \E n \in DOMAIN shards : \E o \in sel[n].ordinals : shards[n].segment[o].id = i
  <2>1. PICK D : D = DOMAIN sel /\ D = DOMAIN shards
    BY <1>5
  <2>2. IdsSelected(sel) = UNION {{shards[n].segment[o].id : o \in sel[n].ordinals} : n \in D}
    BY <2>1 DEF IdsSelected
  <2> QED
    BY <2>1, <2>2
<1>10. \A i : i \in IdsSelected(sel) <=> i \in DOMAIN live /\ Matches(filter, live[i], fts)
  BY <1>7, <1>8, <1>9
<1> QED
  BY <1>2, <1>10

\* A delete or a patch by filter (ids_matching) is applied to the documents that
\* match, as the accepted writes left them: whether the ids come from the indexes
\* of every shard, because these are exact and there is no tail, or from a scan.
\* For any filter of clauses in postfix order whose literals are ones the indexes
\* over the declared types can be asked for.
THEOREM ByFilterStaysExact == Spec => []ByFilterIsExact
<1>1. AnswersInv => ByFilterIsExact
  <2> SUFFICES ASSUME AnswersInv, NEW f \in Answerable
               PROVE  IdsMatching(f) = Selected(f)
    BY DEF ByFilterIsExact
  <2>1. PICK filter : filter = CoerceFilter(f, schema.attributes)
    OBVIOUS
  <2>2. PICK sel : sel = [n \in DOMAIN shards |-> SelectionOf(shards[n], filter)]
    OBVIOUS
  <2>3. PICK found : found = {i \in DOMAIN live : Matches(filter, live[i], schema.fts)}
    OBVIOUS
  <2>4. IdsMatching(f) = IF AllIndexed /\ Usable(sel) THEN IdsSelected(sel)
                         ELSE {i \in DOMAIN Materialized : Matches(filter, Materialized[i], schema.fts)}
    BY <2>1, <2>2, IdsMatchingIs
  <2>5. Materialized = live
    BY DEF AnswersInv, ShardsInv
  <2>6. IdsMatching(f) = found
    BY <2>1, <2>2, <2>3, <2>4, <2>5, SelectedByIndexes
  <2>7. Selected(f) = found
    BY <2>1, <2>3 DEF Selected, Selects
  <2> QED
    BY <2>6, <2>7
<1> QED
  BY <1>1, AnswersInit, AnswersNext, PTL DEF Spec

---------------------------------------------------------------------------
(***************************************************************************)
(* The indexes over tokens.  A posting list has the positions of a token   *)
(* in the texts of a segment, so that what it answers is what a scan of    *)
(* the texts would.                                                        *)
(***************************************************************************)

\* What is kept of a sequence of tokens, and what a text is cut into, are
\* sequences.
LEMMA TokenizedWords ==
    ASSUME NEW tok, NEW words, IsSequence(words)
    PROVE  IsSequence(TokenizeWords(tok, words))
<1>1. PICK n : n = Len(words) /\ n \in Nat /\ DOMAIN words = 1..n
  BY SequenceOf DEF IsSequence
<1>2. PICK all : all = [k \in 1..n |-> TokenOf(tok, words[k])]
  OBVIOUS
<1>3. PICK q : q = [k \in 1..n |-> IF all[k] # NoToken THEN <<all[k]>> ELSE <<>>]
  OBVIOUS
<1>4. DOMAIN all = 1..n
  BY <1>2
<1>5. TokenizeWords(tok, words) = FlattenSeq(q)
  BY <1>1, <1>2, <1>3, <1>4 DEF TokenizeWords, Kept
<1>6. ASSUME NEW k \in 1..n
      PROVE  IsSequence(q[k])
  <2>1. PICK t : t = all[k]
    OBVIOUS
  <2>2. IsSequence(<<t>>)
    BY DEF IsSequence
  <2> QED
    BY <1>3, <2>1, <2>2, NoRecords
<1>7. q = [k \in 1..n |-> q[k]]
  BY <1>3
<1>8. Gathers(FlattenSeq(q), q, n)
  BY <1>1, <1>6, <1>7, Flattened
<1> QED
  BY <1>5, <1>8 DEF Gathers

LEMMA TokenizedText ==
    ASSUME NEW tok, NEW text \in DOMAIN Words
    PROVE  IsSequence(Tokenize(tok, text))
<1>1. PICK words : words = Words[text] /\ IsSequence(words)
  BY TextsAssumption DEF IsSequence
<1> QED
  BY <1>1, TokenizedWords DEF Tokenize

LEMMA TokenizedValue ==
    ASSUME NEW tok, NEW v \in StorableValues, HasText(v)
    PROVE  IsSequence(TokensOf(tok, v))
<1>1. PICK items : items = v.items /\ items \in Seq(Int)
  BY ValuesAssumption DEF Numbered
<1>2. PICK n : n = Len(items) /\ n \in Nat /\ DOMAIN items = 1..n
  BY <1>1
<1>3. \A k \in 1..n : items[k] \in DOMAIN Words
  BY <1>1, <1>2, TextsAssumption DEF ToSet
<1>4. PICK q : q = [k \in 1..n |-> Words[items[k]]]
  OBVIOUS
<1>5. q = [k \in 1..n |-> q[k]] /\ \A k \in 1..n : IsSequence(q[k])
  BY <1>3, <1>4, TextsAssumption DEF IsSequence
<1>6. PICK words : words = FlattenSeq(q) /\ IsSequence(words)
  BY <1>2, <1>5, Flattened DEF Gathers
<1>7. TokensOf(tok, v) = TokenizeWords(tok, words)
  BY <1>1, <1>2, <1>4, <1>6 DEF TokensOf
<1> QED
  BY <1>6, <1>7, TokenizedWords

\* m elements of a sequence, from the one after s on.
LEMMA Slice ==
    ASSUME NEW d, IsSequence(d), NEW q, IsSequence(q), NEW s \in Nat, s + Len(q) <= Len(d)
    PROVE  SubSeq(d, s + 1, s + Len(q)) = q <=> \A k \in 1..Len(q) : d[s + k] = q[k]
<1> DEFINE S == {d[k] : k \in 1..Len(d)}
<1>1. d \in Seq(S)
  BY SequenceOf
<1>2. PICK m : m = Len(q) /\ m \in Nat
  BY DEF IsSequence
<1>3. PICK part : part = SubSeq(d, s + 1, s + m)
  OBVIOUS
<1> HIDE DEF S
<1>4. Len(d) \in Nat /\ s + m \in Int /\ s + 1 \in Int
  BY <1>2 DEF IsSequence
<1>5. /\ Len(part) = m
      /\ part = [k \in 1..m |-> d[s + k]]
  <2>1. s + 1 \in 1..(Len(d) + 1) /\ s + m \in 0..Len(d) /\ (s + m) - (s + 1) + 1 = m
    BY <1>2, <1>4
  <2>2. PICK i, j : i = s + 1 /\ j = s + m /\ i \in 1..(Len(d) + 1) /\ j \in 0..Len(d)
    BY <2>1
  <2>3. /\ SubSeq(d, i, j) \in Seq(S)
        /\ Len(SubSeq(d, i, j)) = IF i <= j THEN j - i + 1 ELSE 0
        /\ \A k \in 1..(j - i + 1) : SubSeq(d, i, j)[k] = d[i + k - 1]
    BY <1>1, <2>2, SubSeqProperties
  <2>4. part \in Seq(S) /\ Len(part) = m
    BY <1>2, <1>3, <1>4, <2>1, <2>2, <2>3
  <2>5. \A k \in 1..m : part[k] = d[s + k]
    BY <1>2, <1>3, <2>1, <2>2, <2>3
  <2> QED
    BY <2>4, <2>5
<1> QED
  BY <1>2, <1>3, <1>5 DEF IsSequence

---------------------------------------------------------------------------
\* The texts of a column, by ordinal.
TextsIn(docs, a) ==
    Restrict(Column(docs, a), {o \in DOMAIN Column(docs, a) : HasText(Column(docs, a)[o])})

\* Document o of a segment has the tokens d for attribute a.
HasTokens(docs, a, tok, o, d) ==
    /\ o \in 1..Len(docs) /\ a \in DOMAIN docs[o].attrs
    /\ HasText(docs[o].attrs[a])
    /\ d = TokensOf(tok, docs[o].attrs[a])

\* The postings are where the tokens are.
Posts(index, docs, a, tok) ==
    /\ index.docs = Len(docs) /\ index.tokenizer = tok
    /\ \A t, o : o \in DOMAIN TermPostings(index, t) <=>
                    \E d : HasTokens(docs, a, tok, o, d) /\ t \in ToSet(d)
    /\ \A t, o, d : HasTokens(docs, a, tok, o, d) /\ t \in ToSet(d) =>
                    TermPostings(index, t)[o] = {k \in DOMAIN d : d[k] = t}

LEMMA BuiltPosts ==
    ASSUME NEW docs, IsSequence(docs), NEW a, NEW tok,
           NEW index, index = BuildText(TextsIn(docs, a), Len(docs), tok)
    PROVE  Posts(index, docs, a, tok)
<1>1. PICK values, n : values = TextsIn(docs, a) /\ n = Len(docs)
  OBVIOUS
<1>2. DOMAIN docs = 1..n
  BY <1>1, SequenceOf
<1>3. /\ DOMAIN values = {o \in 1..n : a \in DOMAIN docs[o].attrs /\ HasText(docs[o].attrs[a])}
      /\ \A o \in DOMAIN values : values[o] = docs[o].attrs[a]
  <2>1. PICK column : column = Column(docs, a)
    OBVIOUS
  <2>2. /\ DOMAIN column = {o \in 1..n : a \in DOMAIN docs[o].attrs}
        /\ \A o \in DOMAIN column : column[o] = docs[o].attrs[a]
    BY <1>2, <2>1 DEF Column
  <2>3. /\ DOMAIN values = {o \in DOMAIN column : HasText(column[o])} \cap DOMAIN column
        /\ \A o \in DOMAIN values : values[o] = column[o]
    BY <1>1, <2>1 DEF TextsIn, Restrict
  <2> QED
    BY <2>2, <2>3
<1> DEFINE tokens == [o \in DOMAIN values |-> TokensOf(tok, values[o])]
           terms == UNION {ToSet(tokens[o]) : o \in DOMAIN values}
           at(t) == [o \in {p \in DOMAIN values : t \in ToSet(tokens[p])} |->
                        {k \in DOMAIN tokens[o] : tokens[o][k] = t}]
           postings == [t \in terms |-> at(t)]
<1>4. PICK l : index = [docs |-> n, tokenizer |-> tok, lengths |-> l, postings |-> postings]
  BY <1>1, Zenon DEF BuildText
<1>5. index.docs = n /\ index.tokenizer = tok /\ index.postings = postings
  <2> HIDE DEF postings
  <2> QED
    BY <1>4
<1>6. \A t : TermPostings(index, t) = IF t \in terms THEN at(t) ELSE <<>>
  BY <1>5 DEF TermPostings
<1>7. \A o, d : HasTokens(docs, a, tok, o, d) <=> o \in DOMAIN values /\ d = tokens[o]
  BY <1>1, <1>3 DEF HasTokens
<1>8. \A t : t \in terms <=> \E o \in DOMAIN values : t \in ToSet(tokens[o])
  OBVIOUS
<1>9. ASSUME NEW t, NEW o
      PROVE  o \in DOMAIN TermPostings(index, t) <=> o \in DOMAIN values /\ t \in ToSet(tokens[o])
  <2> HIDE DEF tokens, terms
  <2>1. CASE t \in terms
    <3>1. TermPostings(index, t) = at(t)
      BY <1>6, <2>1
    <3> QED
      BY <3>1
  <2>2. CASE t \notin terms
    <3>1. TermPostings(index, t) = <<>>
      BY <1>6, <2>2
    <3> QED
      BY <1>8, <2>2, <3>1
  <2> QED
    BY <2>1, <2>2
<1>10. ASSUME NEW t, NEW o \in DOMAIN values, t \in ToSet(tokens[o])
       PROVE  TermPostings(index, t)[o] = {k \in DOMAIN tokens[o] : tokens[o][k] = t}
  <2>1. t \in terms
    BY <1>8, <1>10
  <2> HIDE DEF tokens, terms
  <2>2. TermPostings(index, t) = at(t)
    BY <1>6, <2>1
  <2> QED
    BY <1>10, <2>2
<1> HIDE DEF tokens, terms, at, postings
<1>11. ASSUME NEW t, NEW o
       PROVE  o \in DOMAIN TermPostings(index, t) <=>
                    \E d : HasTokens(docs, a, tok, o, d) /\ t \in ToSet(d)
  BY <1>7, <1>9
<1>12. ASSUME NEW t, NEW o, NEW d, HasTokens(docs, a, tok, o, d), t \in ToSet(d)
       PROVE  TermPostings(index, t)[o] = {k \in DOMAIN d : d[k] = t}
  <2>1. o \in DOMAIN values /\ d = tokens[o]
    BY <1>7, <1>12
  <2> QED
    BY <1>10, <1>12, <2>1
<1> QED
  BY <1>1, <1>5, <1>11, <1>12 DEF Posts

LEMMA ScannedTokens ==
    ASSUME NEW docs, NEW a, NEW tok, NEW o \in 1..Len(docs), NEW text \in DOMAIN Words,
           NEW q, q = Tokenize(tok, text), NEW op
    PROVE  EvalFullText(ValueAt(docs[o].attrs, a), op, TypedValue("string", <<text>>), tok)
               <=> \E d : HasTokens(docs, a, tok, o, d) /\ q # <<>> /\ TokensMatch(op, d, q)
<1>1. PICK literal, v : literal = TypedValue("string", <<text>>) /\ v = ValueAt(docs[o].attrs, a)
  OBVIOUS
<1>2. AsText(literal) = text /\ text # NoText
  BY <1>1, TextsAssumption DEF AsText, TypedValue
<1>3. EvalFullText(v, op, literal, tok) <=>
          HasText(v) /\ q # <<>> /\ TokensMatch(op, TokensOf(tok, v), q)
  BY <1>2, Zenon DEF EvalFullText
<1>4. CASE a \in DOMAIN docs[o].attrs
  <2>1. v = docs[o].attrs[a]
    BY <1>1, <1>4 DEF ValueAt
  <2>2. \A d : HasTokens(docs, a, tok, o, d) <=> HasText(v) /\ d = TokensOf(tok, v)
    BY <1>4, <2>1 DEF HasTokens
  <2> QED
    BY <1>1, <1>3, <2>2
<1>5. CASE a \notin DOMAIN docs[o].attrs
  <2>1. ~HasText(v)
    BY <1>1, <1>5 DEF ValueAt, HasText, NullValue, TypedValue
  <2>2. \A d : ~HasTokens(docs, a, tok, o, d)
    BY <1>5 DEF HasTokens
  <2> QED
    BY <1>1, <1>3, <2>1, <2>2
<1> QED
  BY <1>4, <1>5

\* A query's tokens are where they stand in a document one after the other.
Stands(d, q) == \E start \in 1..Len(d) : \A k \in 1..Len(q) :
                    start + k - 1 \in 1..Len(d) /\ d[start + k - 1] = q[k]

LEMMA StandsInSequence ==
    ASSUME NEW d, IsSequence(d), NEW q, IsSequence(q), q # <<>>
    PROVE  Stands(d, q) <=> TokensMatch("ContainsTokenSequence", d, q)
<1>1. PICK n, m : n = Len(d) /\ m = Len(q) /\ n \in Nat /\ m \in Nat
  BY DEF IsSequence
<1>2. m # 0
  <2> SUFFICES ASSUME m = 0 PROVE FALSE
    OBVIOUS
  <2>1. q = [k \in 1..0 |-> q[k]]
    BY <1>1 DEF IsSequence
  <2> QED
    BY <2>1
<1>3. TokensMatch("ContainsTokenSequence", d, q) <=>
          \E s \in 0..n - m : SubSeq(d, s + 1, s + m) = q
  BY <1>1 DEF TokensMatch
<1>4. ASSUME NEW s \in 0..n - m
      PROVE  SubSeq(d, s + 1, s + m) = q <=> \A k \in 1..m : d[s + k] = q[k]
  <2>1. s \in Nat /\ s + Len(q) <= Len(d)
    BY <1>1
  <2>2. SubSeq(d, s + 1, s + Len(q)) = q <=> \A k \in 1..Len(q) : d[s + k] = q[k]
    BY <2>1, Slice
  <2> QED
    BY <1>1, <2>2
<1>5. ASSUME Stands(d, q)
      PROVE  \E s \in 0..n - m : \A k \in 1..m : d[s + k] = q[k]
  <2>1. PICK start \in 1..n : \A k \in 1..m : start + k - 1 \in 1..n /\ d[start + k - 1] = q[k]
    BY <1>1, <1>5 DEF Stands
  <2>2. PICK s : s = start - 1 /\ s \in Nat
    BY <1>1
  <2>3. start + m - 1 \in 1..n
    BY <1>1, <1>2, <2>1
  <2>4. s \in 0..n - m
    BY <1>1, <2>2, <2>3
  <2>5. \A k \in 1..m : start + k - 1 = s + k
    BY <1>1, <2>2
  <2> QED
    BY <2>1, <2>4, <2>5
<1>6. ASSUME NEW s \in 0..n - m, \A k \in 1..m : d[s + k] = q[k]
      PROVE  Stands(d, q)
  <2>1. PICK start : start = s + 1 /\ start \in 1..n
    BY <1>1, <1>2
  <2>2. \A k \in 1..m : start + k - 1 = s + k /\ s + k \in 1..n
    BY <1>1, <2>1
  <2> QED
    BY <1>1, <1>6, <2>1, <2>2 DEF Stands
<1> QED
  BY <1>3, <1>4, <1>5, <1>6

\* A value that an attribute of a segment has is a value that may be stored.
Stored(docs, a) ==
    \A o \in 1..Len(docs) :
        a \in DOMAIN docs[o].attrs /\ ~IsNull(docs[o].attrs[a]) => docs[o].attrs[a] \in StorableValues

LEMMA AllTokensFound ==
    ASSUME NEW docs, IsSequence(docs), NEW a, Stored(docs, a), NEW tok,
           NEW index, Posts(index, docs, a, tok), NEW text \in DOMAIN Words, NEW o \in 1..Len(docs)
    PROVE  o \in AllTokens(index, text) <=>
               EvalFullText(ValueAt(docs[o].attrs, a), "ContainsAllTokens",
                            TypedValue("string", <<text>>), tok)
<1>1. PICK q : q = Tokenize(tok, text) /\ IsSequence(q) /\ Query(index, text) = q
  BY TokenizedText DEF Query, Posts
<1>2. EvalFullText(ValueAt(docs[o].attrs, a), "ContainsAllTokens", TypedValue("string", <<text>>), tok)
          <=> \E d : HasTokens(docs, a, tok, o, d) /\ q # <<>> /\ ToSet(q) \subseteq ToSet(d)
  <2>1. PICK op : op = "ContainsAllTokens"
    OBVIOUS
  <2>2. \A d : TokensMatch(op, d, q) <=> ToSet(q) \subseteq ToSet(d)
    BY <2>1 DEF TokensMatch
  <2> QED
    BY <1>1, <2>1, <2>2, ScannedTokens
<1>3. PICK T : T = ToSet(q)
  OBVIOUS
<1>4. T # {} <=> q # <<>>
  <2>1. PICK m : m = Len(q) /\ m \in Nat /\ DOMAIN q = 1..m /\ q = [k \in 1..m |-> q[k]]
    BY <1>1, SequenceOf DEF IsSequence
  <2>2. q # <<>> <=> m # 0
    BY <2>1
  <2>3. T = {q[k] : k \in 1..m}
    BY <1>3, <2>1 DEF ToSet
  <2>4. m # 0 => q[1] \in T
    BY <2>1, <2>3
  <2>5. T # {} => \E k : k \in 1..m
    BY <2>3
  <2>6. T # {} => m # 0
    BY <2>1, <2>5
  <2> QED
    BY <2>2, <2>4, <2>6
<1>5. o \in AllTokens(index, text) <=>
          T # {} /\ \A t \in T : o \in DOMAIN TermPostings(index, t)
  BY <1>1, <1>3, Zenon DEF AllTokens, Posts
<1>6. \A t \in T : o \in DOMAIN TermPostings(index, t) <=>
                      \E d : HasTokens(docs, a, tok, o, d) /\ t \in ToSet(d)
  BY DEF Posts
<1>7. \A d, e : HasTokens(docs, a, tok, o, d) /\ HasTokens(docs, a, tok, o, e) => d = e
  BY DEF HasTokens
<1>8. ASSUME T # {}, \A t \in T : o \in DOMAIN TermPostings(index, t)
      PROVE  \E d : HasTokens(docs, a, tok, o, d) /\ T \subseteq ToSet(d)
  <2>1. PICK u : u \in T
    BY <1>8
  <2>2. PICK d : HasTokens(docs, a, tok, o, d)
    BY <1>6, <1>8, <2>1
  <2>3. \A t \in T : t \in ToSet(d)
    BY <1>6, <1>7, <1>8, <2>2
  <2> QED
    BY <2>2, <2>3
<1>9. ASSUME NEW d, HasTokens(docs, a, tok, o, d), T \subseteq ToSet(d)
      PROVE  \A t \in T : o \in DOMAIN TermPostings(index, t)
  BY <1>6, <1>9
<1> QED
  BY <1>2, <1>3, <1>4, <1>5, <1>8, <1>9

LEMMA TokenSequenceFound ==
    ASSUME NEW docs, IsSequence(docs), NEW a, Stored(docs, a), NEW tok,
           NEW index, Posts(index, docs, a, tok), NEW text \in DOMAIN Words, NEW o \in 1..Len(docs),
           Len(Query(index, text)) # 1
    PROVE  o \in TokenSequence(index, text) <=>
               EvalFullText(ValueAt(docs[o].attrs, a), "ContainsTokenSequence",
                            TypedValue("string", <<text>>), tok)
<1>1. PICK q : q = Tokenize(tok, text) /\ IsSequence(q) /\ Query(index, text) = q
  BY TokenizedText DEF Query, Posts
<1>2. PICK m : m = Len(q) /\ m \in Nat /\ DOMAIN q = 1..m /\ q = [k \in 1..m |-> q[k]]
  BY <1>1, SequenceOf DEF IsSequence
<1>3. q # <<>> <=> m # 0
  BY <1>2
<1> DEFINE at(k) == IF o \in DOMAIN TermPostings(index, q[k]) THEN TermPostings(index, q[k])[o] ELSE {}
<1>4. o \in TokenSequence(index, text) <=>
          q # <<>> /\ \E start \in at(1) : \A k \in DOMAIN q : start + k - 1 \in at(k)
  <2>1. TokenSequence(index, text) =
          {p \in 1..index.docs :
              q # <<>> /\ \E start \in (IF p \in DOMAIN TermPostings(index, q[1])
                                        THEN TermPostings(index, q[1])[p] ELSE {}) :
                  \A k \in DOMAIN q : start + k - 1 \in (IF p \in DOMAIN TermPostings(index, q[k])
                                        THEN TermPostings(index, q[k])[p] ELSE {})}
    BY <1>1, Zenon DEF TokenSequence
  <2>2. index.docs = Len(docs)
    BY DEF Posts
  <2> QED
    BY <2>1, <2>2
<1>5. \A t : o \in DOMAIN TermPostings(index, t) <=>
                      \E d : HasTokens(docs, a, tok, o, d) /\ t \in ToSet(d)
  BY DEF Posts
<1>6. \A t, d : HasTokens(docs, a, tok, o, d) /\ t \in ToSet(d) =>
                    TermPostings(index, t)[o] = {k \in DOMAIN d : d[k] = t}
  BY DEF Posts
<1>7. \A d, e : HasTokens(docs, a, tok, o, d) /\ HasTokens(docs, a, tok, o, e) => d = e
  BY DEF HasTokens
<1>8. EvalFullText(ValueAt(docs[o].attrs, a), "ContainsTokenSequence", TypedValue("string", <<text>>), tok)
          <=> \E d : HasTokens(docs, a, tok, o, d) /\ q # <<>>
                        /\ TokensMatch("ContainsTokenSequence", d, q)
  BY <1>1, ScannedTokens
<1>9. CASE \E d : HasTokens(docs, a, tok, o, d)
  <2>1. PICK d : HasTokens(docs, a, tok, o, d)
    BY <1>9
  <2>2. IsSequence(d)
    <3>1. PICK v : v = docs[o].attrs[a] /\ HasText(v) /\ d = TokensOf(tok, v) /\ a \in DOMAIN docs[o].attrs
      BY <2>1 DEF HasTokens
    <3>2. ~IsNull(v)
      BY <3>1 DEF HasText, IsNull
    <3>3. v \in StorableValues
      BY <3>1, <3>2 DEF Stored
    <3> QED
      BY <3>1, <3>3, TokenizedValue
  <2>3. PICK n : n = Len(d) /\ n \in Nat /\ DOMAIN d = 1..n
    BY <2>2, SequenceOf DEF IsSequence
  <2>4. ASSUME NEW k \in 1..m
        PROVE  at(k) = {j \in 1..n : d[j] = q[k]}
    <3>1. PICK t : t = q[k]
      OBVIOUS
    <3>2. CASE t \in ToSet(d)
      <4>1. o \in DOMAIN TermPostings(index, t) /\ TermPostings(index, t)[o] = {j \in DOMAIN d : d[j] = t}
        BY <1>5, <1>6, <2>1, <3>2
      <4> QED
        BY <2>3, <3>1, <4>1
    <3>3. CASE t \notin ToSet(d)
      <4>1. o \notin DOMAIN TermPostings(index, t)
        BY <1>5, <1>7, <2>1, <3>3
      <4>2. at(k) = {}
        BY <3>1, <4>1
      <4>3. \A j \in 1..n : d[j] # t
        BY <2>3, <3>3 DEF ToSet
      <4> QED
        BY <3>1, <4>2, <4>3
    <3> QED
      BY <3>2, <3>3
  <2> HIDE DEF at
  <2>5. q # <<>> => (Stands(d, q) <=> \E start \in at(1) : \A k \in DOMAIN q : start + k - 1 \in at(k))
    <3> SUFFICES ASSUME q # <<>>
                 PROVE  Stands(d, q) <=> \E start \in at(1) : \A k \in 1..m : start + k - 1 \in at(k)
      BY <1>2
    <3>1. 1 \in 1..m
      BY <1>2, <1>3
    <3>2. ASSUME Stands(d, q)
          PROVE  \E start \in at(1) : \A k \in 1..m : start + k - 1 \in at(k)
      <4>1. PICK start \in 1..n : \A k \in 1..m : start + k - 1 \in 1..n /\ d[start + k - 1] = q[k]
        BY <1>2, <2>3, <3>2 DEF Stands
      <4>2. \A k \in 1..m : start + k - 1 \in at(k)
        BY <2>4, <4>1
      <4>3. start + 1 - 1 = start
        BY <2>3
      <4> QED
        BY <3>1, <4>2, <4>3
    <3>3. ASSUME NEW start \in at(1), \A k \in 1..m : start + k - 1 \in at(k)
          PROVE  Stands(d, q)
      <4>1. start \in 1..n
        BY <2>4, <3>1, <3>3
      <4>2. \A k \in 1..m : start + k - 1 \in 1..n /\ d[start + k - 1] = q[k]
        BY <2>4, <3>3
      <4> QED
        BY <1>2, <2>3, <4>1, <4>2 DEF Stands
    <3> QED
      BY <3>2, <3>3
  <2>6. q # <<>> => (Stands(d, q) <=> TokensMatch("ContainsTokenSequence", d, q))
    BY <1>1, <2>2, StandsInSequence
  <2> QED
    BY <1>4, <1>7, <1>8, <2>1, <2>5, <2>6
<1>10. CASE ~\E d : HasTokens(docs, a, tok, o, d)
  <2>1. \A t : o \notin DOMAIN TermPostings(index, t)
    BY <1>5, <1>10
  <2>2. at(1) = {}
    BY <2>1
  <2> HIDE DEF at
  <2> QED
    BY <1>4, <1>8, <1>10, <2>2
<1> QED
  BY <1>9, <1>10

---------------------------------------------------------------------------
\* Every term index a shard has is over the texts of its segment; a shard with no
\* indexes has no documents.
TextIndexed(shard) ==
    \A a \in DOMAIN shard.index.fts :
        Stored(shard.segment, a) /\ \E tok : Posts(shard.index.fts[a], shard.segment, a, tok)

Bare(shard) == ~shard.indexed => shard = EmptyShard

Terms == \A n \in DOMAIN shards : TextIndexed(shards[n]) /\ Bare(shards[n])

IndexesInv == AnswersInv /\ Terms

LEMMA BuiltTexts ==
    ASSUME NEW s, SoundSchema(s), NEW docs, IsSequence(docs),
           \A o \in 1..Len(docs) : TypedAs(docs[o].attrs, s),
           NEW shard, shard = BuildShard(docs, s)
    PROVE  TextIndexed(shard) /\ Bare(shard)
<1>1. CASE docs = <<>>
  <2>1. shard = EmptyShard
    BY <1>1 DEF BuildShard
  <2>2. shard.index.fts = Nothing
    BY <2>1 DEF EmptyShard, NoIndexes
  <2>3. DOMAIN shard.index.fts = {}
    BY <2>2 DEF Nothing
  <2> QED
    BY <2>1, <2>3 DEF TextIndexed, Bare
<1>2. CASE docs # <<>>
  <2>1. shard.indexed /\ shard.segment = docs /\ shard.index = BuildIndexes(docs, s)
    BY <1>2 DEF BuildShard
  <2> DEFINE all == [a \in DOMAIN s.fts |-> BuildText(TextsIn(docs, a), Len(docs), s.fts[a])]
             kept == {a \in DOMAIN all : DOMAIN all[a].postings # {}}
  <2>2. PICK d, c, i, x : BuildIndexes(docs, s) =
            [docs |-> Len(docs), dim |-> d, clusters |-> c, attributes |-> i,
             fts |-> Restrict(all, kept), sparse |-> x]
    BY Zenon DEF BuildIndexes, Filled, TextsIn
  <2>3. shard.index.fts = Restrict(all, kept)
    <3> HIDE DEF all, kept
    <3> QED
      BY <2>1, <2>2
  <2>4. PICK indexes : indexes = shard.index.fts
    OBVIOUS
  <2>5. /\ DOMAIN indexes \subseteq DOMAIN s.fts
        /\ \A a \in DOMAIN indexes : indexes[a] = BuildText(TextsIn(docs, a), Len(docs), s.fts[a])
    BY <2>3, <2>4 DEF Restrict
  <2>6. ASSUME NEW a \in DOMAIN indexes
        PROVE  Stored(docs, a) /\ \E tok : Posts(indexes[a], docs, a, tok)
    <3>1. a # "vector"
      BY <2>5 DEF SoundSchema
    <3>2. Stored(docs, a)
      BY <3>1 DEF Stored, TypedAs
    <3>3. PICK index, tok : index = indexes[a] /\ index = BuildText(TextsIn(docs, a), Len(docs), tok)
      BY <2>5
    <3>4. Posts(index, docs, a, tok)
      BY <3>3, BuiltPosts
    <3> QED
      BY <3>2, <3>3, <3>4
  <2> QED
    BY <2>1, <2>4, <2>6 DEF TextIndexed, Bare
<1> QED
  BY <1>1, <1>2

LEMMA IndexesInit == Init => IndexesInv
<1> SUFFICES ASSUME Init PROVE IndexesInv
  OBVIOUS
<1>1. DOMAIN shards = {}
  BY DEF Init
<1> QED
  BY <1>1, AnswersInit DEF IndexesInv, Terms

LEMMA TermsCompact ==
    ASSUME AnswersInv, Compact
    PROVE  Terms'
<1>1. SoundSchema(schema) /\ AllFit(live, schema) /\ IsMap(live) /\ Materialized = live
  BY DEF AnswersInv, ShardsInv, SchemaInv
<1>2. PICK c, buckets, s : c = ShardCount(schema) /\ buckets = Buckets(live, schema) /\ s = schema
  OBVIOUS
<1>3. c \in 1..MaxShards /\ Lays(buckets, live, c)
  BY <1>1, <1>2, BucketsLaid
<1>4. shards' = BuildShards(buckets, s)
  BY <1>1, <1>2, CompactedTo
<1>5. DOMAIN buckets = 1..c
  BY <1>3 DEF Lays
<1>6. DOMAIN shards' = 1..c /\ \A n \in 1..c : shards'[n] = BuildShard(buckets[n], s)
  BY <1>4, <1>5 DEF BuildShards
<1>7. ASSUME NEW n \in 1..c
      PROVE  TextIndexed(shards'[n]) /\ Bare(shards'[n])
  <2>1. PICK docs, shard : docs = buckets[n] /\ shard = shards'[n]
    OBVIOUS
  <2>2. IsSequence(docs) /\ shard = BuildShard(docs, s)
    BY <1>3, <1>6, <2>1 DEF Lays, InIdOrder
  <2>3. \A o \in 1..Len(docs) : docs[o].id \in DOMAIN live /\ docs[o].attrs = live[docs[o].id]
    BY <1>3, <2>1 DEF Lays
  <2>4. \A o \in 1..Len(docs) : TypedAs(docs[o].attrs, s)
    BY <1>1, <1>2, <2>3 DEF AllFit, DocFits
  <2>5. TextIndexed(shard) /\ Bare(shard)
    BY <1>1, <1>2, <2>2, <2>4, BuiltTexts
  <2> QED
    BY <2>1, <2>5
<1> QED
  BY <1>6, <1>7 DEF Terms

LEMMA IndexesNext == IndexesInv /\ [Next]_vars => IndexesInv'
<1> SUFFICES ASSUME IndexesInv, [Next]_vars PROVE IndexesInv'
  OBVIOUS
<1>1. AnswersInv'
  BY AnswersNext DEF IndexesInv
<1>2. CASE Compact
  BY <1>1, <1>2, TermsCompact DEF IndexesInv
<1>3. CASE shards' = shards
  BY <1>1, <1>3 DEF IndexesInv, Terms
<1> QED
  BY <1>2, <1>3 DEF Next, Write, vars

LEMMA SelectionCovers ==
    ASSUME IndexesInv, NEW f \in Answerable, NEW n \in DOMAIN shards,
           NEW filter, filter = CoerceFilter(f, schema.attributes)
    PROVE  Covers(SelectionOf(shards[n], filter),
                  {o \in DOMAIN shards[n].segment :
                       Matches(filter, shards[n].segment[o].attrs, schema.fts)})
<1>1. SoundSchema(schema) /\ ShardsSorted /\ Indexed /\ Bare(shards[n])
  BY DEF IndexesInv, Terms, AnswersInv, ShardsInv, SchemaInv
<1>2. PICK types, fts : types = schema.attributes /\ fts = schema.fts
  OBVIOUS
<1>3. Askable(filter, types)
  BY <1>1, <1>2, AnswerableAsked
<1>4. PICK docs, indexes, sel : /\ docs = shards[n].segment /\ sel = SelectionOf(shards[n], filter)
                                /\ indexes = shards[n].index.attributes
  OBVIOUS
<1>5. IsSequence(docs)
  BY <1>1, <1>4 DEF ShardsSorted, InIdOrder
<1>6. shards[n].index.docs = Len(docs) /\ IndexesOver(indexes, docs, types)
  <2>1. CASE shards[n].indexed
    BY <1>1, <1>2, <1>4, <2>1 DEF Indexed, ShardIndexed
  <2>2. CASE ~shards[n].indexed
    <3>1. shards[n] = EmptyShard
      BY <1>1, <2>2 DEF Bare
    <3>2. docs = <<>> /\ shards[n].index.docs = 0 /\ indexes = Nothing
      BY <1>4, <3>1 DEF EmptyShard, NoIndexes
    <3>3. DOMAIN indexes = {}
      BY <3>2 DEF Nothing
    <3> QED
      BY <3>2, <3>3, NoRecords DEF IndexesOver
  <2> QED
    BY <2>1, <2>2
<1>7. sel = Evaluate(filter, indexes, Len(docs)) /\ IndexesOver(indexes, docs, types)
  BY <1>4, <1>6 DEF SelectionOf
<1>8. /\ Exact(sel) => \A o : o \in sel.ordinals <=>
                           o \in 1..Len(docs) /\ Matches(filter, docs[o].attrs, fts)
      /\ sel.bounded => \A o \in 1..Len(docs) :
                            Matches(filter, docs[o].attrs, fts) => o \in sel.ordinals
  BY ONLY <1>3, <1>5, <1>7, FilterRight, Zenon
<1>9. PICK found : found = {o \in DOMAIN docs : Matches(filter, docs[o].attrs, fts)}
  OBVIOUS
<1>10. \A o : o \in found <=> o \in 1..Len(docs) /\ Matches(filter, docs[o].attrs, fts)
  BY <1>5, <1>9, SequenceOf
<1>11. Covers(sel, found)
  BY <1>8, <1>10 DEF Covers, Exact
<1> QED
  BY <1>2, <1>4, <1>9, <1>11

\* What a scan of a segment makes of the tokens of a text.
Scans(n, a, op, text) ==
    {o \in DOMAIN shards[n].segment :
        EvalFullText(ValueAt(shards[n].segment[o].attrs, a), op,
                     TypedValue("string", <<text>>), shards[n].index.fts[a].tokenizer)}

AgreeOn(index, n, a, text) ==
    /\ AllTokens(index, text) = Scans(n, a, "ContainsAllTokens", text)
    /\ Len(Query(index, text)) # 1 =>
            TokenSequence(index, text) = Scans(n, a, "ContainsTokenSequence", text)

LEMMA TermsAgree ==
    ASSUME IndexesInv, NEW n \in DOMAIN shards, NEW a \in DOMAIN shards[n].index.fts,
           NEW text \in DOMAIN Words
    PROVE  AgreeOn(shards[n].index.fts[a], n, a, text)
<1>1. PICK index, docs : index = shards[n].index.fts[a] /\ docs = shards[n].segment
  OBVIOUS
<1>2. IsSequence(docs)
  BY <1>1 DEF IndexesInv, AnswersInv, ShardsInv, ShardsSorted, InIdOrder
<1>3. PICK tok : Stored(docs, a) /\ Posts(index, docs, a, tok)
  BY <1>1 DEF IndexesInv, Terms, TextIndexed
<1>4. index.tokenizer = tok /\ index.docs = Len(docs) /\ DOMAIN docs = 1..Len(docs)
  BY <1>2, <1>3, SequenceOf DEF Posts
<1>5. \A o \in 1..Len(docs) : o \in AllTokens(index, text) <=>
          EvalFullText(ValueAt(docs[o].attrs, a), "ContainsAllTokens",
                       TypedValue("string", <<text>>), tok)
  BY <1>2, <1>3, AllTokensFound
<1>6. Len(Query(index, text)) # 1 => \A o \in 1..Len(docs) : o \in TokenSequence(index, text) <=>
          EvalFullText(ValueAt(docs[o].attrs, a), "ContainsTokenSequence",
                       TypedValue("string", <<text>>), tok)
  BY <1>2, <1>3, TokenSequenceFound
<1>7. AllTokens(index, text) \subseteq 1..Len(docs)
  BY <1>4, Zenon DEF AllTokens
<1>8. TokenSequence(index, text) \subseteq 1..Len(docs)
  BY <1>4, Zenon DEF TokenSequence
<1>9. \A op, o : o \in Scans(n, a, op, text) <=>
          /\ o \in 1..Len(docs)
          /\ EvalFullText(ValueAt(docs[o].attrs, a), op, TypedValue("string", <<text>>), tok)
  BY <1>4, <1>1 DEF Scans
<1>10. AllTokens(index, text) = Scans(n, a, "ContainsAllTokens", text)
  BY <1>5, <1>7, <1>9
<1>11. Len(Query(index, text)) # 1 =>
           TokenSequence(index, text) = Scans(n, a, "ContainsTokenSequence", text)
  BY <1>6, <1>8, <1>9
<1> QED
  BY <1>1, <1>10, <1>11 DEF AgreeOn

\* No index over a segment answers for fewer documents than match, whatever was
\* written and compacted before.  What the indexes over values make of a filter
\* (AttrIndex::select, evaluate) is never less than the documents of the segment
\* that match it, however its clauses are connected, and no more when it is said
\* to be exact; what the term index makes of a query's tokens (all_tokens,
\* token_sequence) is what a scan of the texts makes of them.  For any tokenizer,
\* any words and any filter whose literals the indexes can be asked for.
THEOREM IndexesStayRight == Spec => []IndexesAgree
<1>1. IndexesInv => IndexesAgree
  <2> SUFFICES ASSUME IndexesInv PROVE IndexesAgree
    OBVIOUS
  <2>1. SelectionsCover
    BY SelectionCovers, Zenon DEF SelectionsCover
  <2>2. TermIndexAgrees
    <3>1. \A n \in DOMAIN shards : \A a \in DOMAIN shards[n].index.fts : \A text \in DOMAIN Words :
              AgreeOn(shards[n].index.fts[a], n, a, text)
      BY TermsAgree
    <3> QED
      BY <3>1, Zenon DEF TermIndexAgrees, AgreeOn, Scans
  <2> QED
    BY <2>1, <2>2 DEF IndexesAgree
<1> QED
  BY <1>1, IndexesInit, IndexesNext, PTL DEF Spec

---------------------------------------------------------------------------
\* Requests in flight: the vectors of their rows.

Ascending(S) == SortedBy(S, LAMBDA j, k : j < k)

Lists(q, S) ==
    /\ IsSequence(q) /\ DOMAIN q = 1..Len(q)
    /\ \A m \in 1..Len(q) : q[m] \in S
    /\ \A k \in S : \E m \in 1..Len(q) : q[m] = k

\* The positions that satisfy a condition, in order.
LEMMA Positions ==
    ASSUME NEW n \in Nat, NEW S, S \subseteq 1..n, NEW q, q = Ascending(S)
    PROVE  Lists(q, S)
<1> DEFINE R == {p \in S \X S : p[1] < p[2]}
<1>1. IsFiniteSet(S)
  <2>1. IsFiniteSet(1..n)
    BY FS_Interval
  <2> QED
    BY <2>1, FS_Subset
<1>2. \A j, k \in S : j \in Int /\ (<<j, k>> \in R <=> j < k)
  OBVIOUS
<1> HIDE DEF R
<1>3. StrictOrder(R, S)
  BY <1>2 DEF StrictOrder
<1>4. Sorting(q, R, S)
  <2>1. \A x \in S : {y \in S : y < x} = Below(R, S, x)
    BY <1>2 DEF Below
  <2>2. q = [m \in 1..Cardinality(S) |-> CHOOSE x \in S : Cardinality({y \in S : y < x}) = m - 1]
    BY DEF SortedBy, Ascending
  <2>3. ASSUME NEW m
        PROVE  (CHOOSE x \in S : Cardinality({y \in S : y < x}) = m - 1)
                = CHOOSE x \in S : Cardinality(Below(R, S, x)) = m - 1
    BY <2>1
  <2> QED
    BY <2>2, <2>3 DEF Sorting
<1>5. /\ IsSequence(q)
      /\ \A m \in 1..Len(q) : q[m] \in S
      /\ \A x \in S : \E m \in 1..Len(q) : q[m] = x
  BY <1>1, <1>3, <1>4, Sorted
<1> QED
  BY <1>5, SequenceOf DEF Lists

Later == {"deleting", "patching", "committing"}

\* Where a request goes on: to the endpoint exactly when it has rows to embed.
LEMMA PhaseAfter ==
    ASSUME NEW n \in 1..3, NEW body, NEW pending
    PROVE  /\ n = 1 /\ pending # <<>> => PhaseFrom(n, body, pending) = "embedding"
           /\ n # 1 \/ pending = <<>> => PhaseFrom(n, body, pending) \in Later
<1> DEFINE waits(p) ==
                CASE p = "embedding"  -> pending # <<>>
                  [] p = "deleting"   -> body.delete_by_filter # NoFilter
                  [] p = "patching"   -> body.patch_by_filter # NoFilter
                  [] p = "committing" -> TRUE
           ahead == {k \in n..Len(Phases) : waits(Phases[k])}
           least == CHOOSE k \in ahead : \A m \in ahead : k <= m
<1>1. PhaseFrom(n, body, pending) = Phases[least]
  BY DEF PhaseFrom
<1>2. /\ Len(Phases) = 4
      /\ Phases[1] = "embedding" /\ Phases[2] = "deleting"
      /\ Phases[3] = "patching" /\ Phases[4] = "committing"
  BY DEF Phases
<1>a. waits("committing") /\ (waits("embedding") <=> pending # <<>>)
  BY Zenon
<1> HIDE DEF waits
<1>3. ahead \subseteq 1..4 /\ 4 \in ahead /\ \A k \in ahead : n <= k
  BY <1>2, <1>a
<1>4. n = 1 => (1 \in ahead <=> pending # <<>>)
  BY <1>2, <1>a
<1> HIDE DEF ahead
<1>5. \E k \in ahead : \A m \in ahead : k <= m
  BY <1>3
<1>6. least \in ahead /\ \A m \in ahead : least <= m
  BY <1>5
<1> HIDE DEF least
<1>7. least \in 1..4 /\ n <= least
  BY <1>3, <1>6
<1>8. CASE n = 1 /\ pending # <<>>
  <2>1. least <= 1
    BY <1>4, <1>6, <1>8
  <2>2. least = 1
    BY <1>7, <2>1
  <2> QED
    BY <1>1, <1>2, <1>8, <2>2
<1>9. CASE n # 1 \/ pending = <<>>
  <2>1. least # 1
    BY <1>4, <1>6, <1>7, <1>9
  <2>2. least \in {2, 3, 4}
    BY <1>7, <2>1
  <2> QED
    BY <1>1, <1>2, <1>9, <2>2 DEF Later
<1> QED
  BY <1>8, <1>9

\* A row has the vector it was sent with, or that of its text.
RowRight(row, sent, spec) ==
    row = IF sent.vector # <<>> \/ EmbedSources(sent, spec) = <<>> THEN sent
          ELSE [sent EXCEPT !.vector = <<Embedding[ModelOf(spec)][TextOf(sent, spec)]>>]

RowsRight(rows, sent, spec) ==
    \A k \in DOMAIN rows : RowRight(rows[k], ParsedRow(sent[k]), spec)

\* q lists the positions of the n rows that wait for a vector.
Pends(q, rows, sent, spec, n) ==
    /\ DOMAIN rows = 1..n /\ \A k \in 1..n : rows[k] = ParsedRow(sent[k])
    /\ IsSequence(q) /\ DOMAIN q = 1..Len(q)
    /\ \A m \in 1..Len(q) : q[m] \in 1..n
    /\ \A k \in 1..n :
          (\E m \in 1..Len(q) : q[m] = k)
              <=> rows[k].vector = <<>> /\ EmbedSources(rows[k], spec) # <<>>

LEMMA Needing ==
    ASSUME NEW sent, NEW n \in Nat, sent = [k \in 1..n |-> sent[k]], NEW rows, rows = ParsedRows(sent),
           NEW spec, NEW q, q = NeedingEmbedding(rows, spec)
    PROVE  Pends(q, rows, sent, spec, n)
<1>1. DOMAIN sent = 1..n
  OBVIOUS
<1>2. DOMAIN rows = 1..n /\ \A k \in 1..n : rows[k] = ParsedRow(sent[k])
  BY <1>1 DEF ParsedRows
<1> DEFINE S == {k \in 1..n : rows[k].vector = <<>> /\ EmbedSources(rows[k], spec) # <<>>}
<1>3. q = Ascending(S)
  <2> DEFINE T == {k \in DOMAIN rows : rows[k].vector = <<>> /\ EmbedSources(rows[k], spec) # <<>>}
  <2>1. q = Ascending(T)
    BY DEF NeedingEmbedding, Ascending
  <2>2. S = T
    BY <1>2
  <2> HIDE DEF S, T
  <2> QED
    BY <2>1, <2>2
<1>4. S \subseteq 1..n
  BY Zenon
<1> HIDE DEF S
<1>5. /\ IsSequence(q) /\ DOMAIN q = 1..Len(q)
      /\ \A m \in 1..Len(q) : q[m] \in S
      /\ \A k \in S : \E m \in 1..Len(q) : q[m] = k
  <2>1. Lists(q, S)
    BY <1>3, <1>4, Positions
  <2> QED
    BY <2>1 DEF Lists
<1>6. \A k \in 1..n : (\E m \in 1..Len(q) : q[m] = k) <=> k \in S
  BY <1>5
<1> QED
  BY <1>2, <1>4, <1>5, <1>6 DEF S, Pends

\* Vectors that are each where their index says are those of the texts.
LEMMA PlacedRight ==
    ASSUME NEW model, NEW texts, IsSequence(texts), NEW answer \in Answers(model, texts),
           Acceptable(answer, texts), NEW k \in 1..Len(texts)
    PROVE  Placed(answer)[k] = Embedding[model][texts[k]]
<1>1. PICK n \in 1..Len(texts) : answer \in [1..n -> Data(model, texts)]
  BY DEF Answers
<1>2. PICK l : l = Len(texts) /\ l \in Nat /\ DOMAIN texts = 1..l
  BY SequenceOf DEF IsSequence
<1>3. DOMAIN answer = 1..n /\ \A m \in 1..n : answer[m] \in Data(model, texts)
  BY <1>1
<1>4. Len(answer) = n
  <2>1. answer = [m \in 1..n |-> answer[m]] /\ n \in Nat
    BY <1>1, <1>2
  <2> QED
    BY <2>1, MadeSequence
<1>5. n = l
  BY <1>2, <1>4 DEF Acceptable
<1>6. /\ {answer[m].index : m \in DOMAIN answer} = DOMAIN texts
      /\ \A m \in DOMAIN answer : answer[m].vector # <<>>
  BY DEF Acceptable
<1>7. \E m \in DOMAIN answer : answer[m].index = k
  BY <1>2, <1>6
<1>8. PICK m \in DOMAIN answer : answer[m].index = k /\ Placed(answer)[k] = answer[m].vector
  <2>1. k \in DOMAIN answer
    BY <1>2, <1>3, <1>5
  <2>2. Placed(answer)[k] = answer[CHOOSE m \in DOMAIN answer : answer[m].index = k].vector
    BY <2>1, Zenon DEF Placed
  <2> QED
    BY <1>7, <2>2
<1>9. PICK d : d = answer[m] /\ d \in Data(model, texts) /\ d.index = k /\ d.vector # <<>>
  BY <1>3, <1>6, <1>8
<1>10. d \in {[index |-> j, vector |-> Embedding[model][texts[j]]] : j \in DOMAIN texts}
  <2>1. k # l + 1
    BY <1>2
  <2> QED
    BY <1>2, <1>9, <2>1 DEF Data
<1>11. PICK j \in DOMAIN texts : d = [index |-> j, vector |-> Embedding[model][texts[j]]]
  BY <1>10
<1>12. j = k /\ d.vector = Embedding[model][texts[j]]
  BY <1>9, <1>11
<1> QED
  BY <1>8, <1>9, <1>12

LEMMA AttachedRight ==
    ASSUME NEW sent, NEW n \in Nat, sent = [k \in 1..n |-> sent[k]], NEW rows, rows = ParsedRows(sent),
           NEW spec, NEW q, q = NeedingEmbedding(rows, spec),
           NEW texts, texts = [m \in DOMAIN q |-> TextOf(rows[q[m]], spec)],
           NEW answer \in Answers(ModelOf(spec), texts), Acceptable(answer, texts)
    PROVE  RowsRight(Attached(rows, q, Placed(answer)), sent, spec)
<1>1. /\ DOMAIN rows = 1..n /\ \A k \in 1..n : rows[k] = ParsedRow(sent[k])
      /\ IsSequence(q) /\ DOMAIN q = 1..Len(q)
      /\ \A m \in 1..Len(q) : q[m] \in 1..n
      /\ \A k \in 1..n :
            (\E m \in 1..Len(q) : q[m] = k)
                <=> rows[k].vector = <<>> /\ EmbedSources(rows[k], spec) # <<>>
  <2>1. Pends(q, rows, sent, spec, n)
    BY Needing
  <2> QED
    BY <2>1 DEF Pends
<1>2. IsSequence(texts) /\ Len(texts) = Len(q)
  <2>1. PICK l : l = Len(q) /\ l \in Nat
    BY <1>1 DEF IsSequence
  <2>2. texts = [m \in 1..l |-> texts[m]]
    BY <1>1, <2>1
  <2> QED
    BY <2>1, <2>2, MadeSequence
<1>3. \A m \in 1..Len(q) : Placed(answer)[m] = Embedding[ModelOf(spec)][TextOf(rows[q[m]], spec)]
  <2>1. PICK model : model = ModelOf(spec)
    OBVIOUS
  <2>2. \A m \in 1..Len(texts) : Placed(answer)[m] = Embedding[model][texts[m]]
    BY <1>2, <2>1, PlacedRight
  <2> QED
    BY <1>1, <1>2, <2>1, <2>2
<1>4. ToSet(q) = {q[m] : m \in 1..Len(q)}
  BY <1>1 DEF ToSet
<1> DEFINE new == Attached(rows, q, Placed(answer))
<1>5. DOMAIN new = 1..n
  BY <1>1 DEF Attached
<1>6. ASSUME NEW k \in 1..n
      PROVE  RowRight(new[k], rows[k], spec)
  <2>1. new[k] = IF k \in ToSet(q)
                 THEN [rows[k] EXCEPT !.vector = <<Placed(answer)[CHOOSE m \in DOMAIN q : q[m] = k]>>]
                 ELSE rows[k]
    BY <1>1, Zenon DEF Attached
  <2> HIDE DEF new
  <2>2. CASE k \in ToSet(q)
    <3>1. \E m \in DOMAIN q : q[m] = k
      BY <1>1, <1>4, <2>2
    <3>2. PICK m \in DOMAIN q : q[m] = k /\ new[k] = [rows[k] EXCEPT !.vector = <<Placed(answer)[m]>>]
      BY <2>1, <2>2, <3>1
    <3>3. rows[k].vector = <<>> /\ EmbedSources(rows[k], spec) # <<>>
      BY <1>1, <3>1
    <3>4. Placed(answer)[m] = Embedding[ModelOf(spec)][TextOf(rows[k], spec)]
      BY <1>1, <1>3, <3>2
    <3> QED
      BY <3>2, <3>3, <3>4 DEF RowRight
  <2>3. CASE k \notin ToSet(q)
    <3>1. ~\E m \in 1..Len(q) : q[m] = k
      BY <1>4, <2>3
    <3>2. rows[k].vector # <<>> \/ EmbedSources(rows[k], spec) = <<>>
      BY <1>1, <3>1
    <3> QED
      BY <2>1, <2>3, <3>2 DEF RowRight
  <2> QED
    BY <2>2, <2>3
<1> HIDE DEF new
<1>7. RowsRight(new, sent, spec)
  <2> SUFFICES ASSUME NEW k \in 1..n PROVE RowRight(new[k], ParsedRow(sent[k]), spec)
    BY <1>5 DEF RowsRight
  <2>1. rows[k] = ParsedRow(sent[k])
    BY <1>1
  <2> QED
    BY <1>6, <2>1
<1> QED
  BY <1>7 DEF new

\* A write in flight, with all its fields.
WriteFields == {"phase", "body", "rows", "pending", "spec", "deletes", "patches",
                "remaining", "steady", "ever"}
IsWrite(call) == call = [x \in WriteFields |-> call[x]]

QueryFields == {"phase", "request", "metric", "results", "seen"}
IsQuery(call) == call = [x \in QueryFields |-> call[x]]

AwaitsVectors(call) ==
    /\ call.phase = "embedding"
    /\ call.rows = ParsedRows(call.body.rows)
    /\ call.pending = NeedingEmbedding(call.rows, call.spec)

CallRight(call) ==
    \/ call = Idle
    \/ IsQuery(call) /\ call.phase = "asking"
    \/ /\ IsWrite(call)
       /\ call.body \in Bodies
       /\ \/ AwaitsVectors(call)
          \/ call.phase \in Later /\ RowsRight(call.rows, call.body.rows, call.spec)

CallsRight == calls = [c \in Callers |-> calls[c]] /\ \A c \in Callers : CallRight(calls[c])

LEMMA PhaseTells ==
    ASSUME NEW call, CallRight(call)
    PROVE  /\ call.phase \in {"idle", "asking", "embedding"} \cup Later
           /\ call.phase = "embedding" => IsWrite(call) /\ call.body \in Bodies /\ AwaitsVectors(call)
           /\ call.phase \in Later => /\ IsWrite(call) /\ call.body \in Bodies
                                      /\ RowsRight(call.rows, call.body.rows, call.spec)
           /\ call.phase = "asking" => IsQuery(call)
  BY DEF CallRight, Idle, AwaitsVectors, Later

\* A request whose rows are right keeps them whatever its filters choose.
LEMMA ChosenRight ==
    ASSUME NEW call, CallRight(call), call.phase \in Later,
           NEW new, new.rows = call.rows, new.body = call.body, new.spec = call.spec,
           new.phase \in Later, IsWrite(new)
    PROVE  CallRight(new)
  BY PhaseTells DEF CallRight

LEMMA SetCall ==
    ASSUME CallsRight, NEW c \in Callers, NEW new, CallRight(new),
           calls' = [calls EXCEPT ![c] = new]
    PROVE  CallsRight'
<1>1. DOMAIN calls = Callers
  BY DEF CallsRight
<1>2. calls' = [d \in Callers |-> calls'[d]] /\ \A d \in Callers : calls'[d] = IF d = c THEN new ELSE calls[d]
  BY <1>1
<1>3. \A d \in Callers : CallRight(calls'[d])
  BY <1>2 DEF CallsRight
<1> QED
  BY <1>2, <1>3 DEF CallsRight, CallRight, IsWrite, IsQuery, AwaitsVectors

LEMMA ArriveRight ==
    ASSUME CallsRight, NEW c \in Callers, NEW body \in Bodies, Arrive(c, body)
    PROVE  CallsRight'
<1>1. PICK sent, rows : sent = body.rows /\ rows = ParsedRows(sent)
  OBVIOUS
<1>2. PICK n : n \in Nat /\ sent = [k \in 1..n |-> sent[k]]
  BY <1>1, BodiesAssumption
<1>3. PICK spec, q, new :
         /\ q = NeedingEmbedding(rows, spec)
         /\ new = [phase |-> PhaseFrom(1, body, q), body |-> body, rows |-> rows,
                   pending |-> q, spec |-> spec, deletes |-> <<>>, patches |-> <<>>,
                   remaining |-> FALSE, steady |-> MatchedBy(body, schema, live),
                   ever |-> MatchedBy(body, schema, live)]
         /\ calls' = [calls EXCEPT ![c] = new]
  BY <1>1, Zenon DEF Arrive
<1>4. /\ IsWrite(new) /\ new.body = body /\ new.rows = rows /\ new.spec = spec
      /\ new.pending = q /\ new.phase = PhaseFrom(1, body, q)
  BY <1>3 DEF IsWrite, WriteFields
<1>5. CASE q # <<>>
  <2>1. new.phase = "embedding"
    BY <1>4, <1>5, PhaseAfter
  <2> QED
    BY <1>1, <1>3, <1>4, <2>1, SetCall DEF CallRight, AwaitsVectors
<1>6. CASE q = <<>>
  <2>1. new.phase \in Later
    BY <1>4, <1>6, PhaseAfter
  <2>2. Pends(q, rows, sent, spec, n)
    BY <1>1, <1>2, <1>3, Needing
  <2>3. RowsRight(rows, sent, spec)
    <3>1. Len(q) = 0
      BY <1>6
    <3>2. /\ DOMAIN rows = 1..n /\ \A k \in 1..n : rows[k] = ParsedRow(sent[k])
          /\ \A k \in 1..n : ~(rows[k].vector = <<>> /\ EmbedSources(rows[k], spec) # <<>>)
      BY <2>2, <3>1 DEF Pends
    <3> QED
      BY <3>2 DEF RowsRight, RowRight
  <2>4. CallRight(new)
    BY <1>1, <1>4, <2>1, <2>3 DEF CallRight
  <2> QED
    BY <1>3, <2>4, SetCall
<1> QED
  BY <1>5, <1>6

LEMMA EmbedRight ==
    ASSUME CallsRight, NEW c \in Callers, calls[c].phase = "embedding",
           NEW answer \in Answers(ModelOf(calls[c].spec), TextsOf(calls[c])), Embed(c, answer)
    PROVE  CallsRight'
<1>1. PICK call : call = calls[c] /\ CallRight(call)
  BY DEF CallsRight
<1>2. IsWrite(call) /\ call.body \in Bodies /\ AwaitsVectors(call)
  BY <1>1, PhaseTells
<1>3. PICK sent, rows, spec, q, texts, n :
         /\ sent = call.body.rows /\ rows = call.rows /\ spec = call.spec /\ q = call.pending
         /\ texts = TextsOf(call) /\ n = Len(sent)
  OBVIOUS
<1>4. n \in Nat /\ sent = [k \in 1..n |-> sent[k]]
  BY <1>2, <1>3, BodiesAssumption
<1>5. rows = ParsedRows(sent) /\ q = NeedingEmbedding(rows, spec)
  BY <1>2, <1>3 DEF AwaitsVectors
<1>6. texts = [m \in DOMAIN q |-> TextOf(rows[q[m]], spec)]
  BY <1>3 DEF TextsOf
<1>7. answer \in Answers(ModelOf(spec), texts) /\ Acceptable(answer, texts)
  BY <1>1, <1>3 DEF Embed
<1>8. PICK fixed, phase : fixed = Attached(rows, q, Placed(answer)) /\ phase = PhaseFrom(2, call.body, <<>>)
  OBVIOUS
<1>9. RowsRight(fixed, sent, spec)
  BY <1>4, <1>5, <1>6, <1>7, <1>8, AttachedRight
<1>10. phase \in Later
  BY <1>8, PhaseAfter
<1> DEFINE new == [call EXCEPT !.rows = fixed, !.phase = phase]
<1>11. calls' = [calls EXCEPT ![c] = new]
  BY <1>1, <1>3, <1>8 DEF Embed
<1>12. IsWrite(new) /\ new.rows = fixed /\ new.phase = phase /\ new.body = call.body /\ new.spec = call.spec
  BY <1>2 DEF IsWrite, WriteFields
<1> HIDE DEF new
<1>13. CallRight(new)
  BY <1>2, <1>3, <1>9, <1>10, <1>12 DEF CallRight
<1> QED
  BY <1>11, <1>13, SetCall

LEMMA ChooseRight ==
    ASSUME CallsRight, NEW c \in Callers, ChooseDeletes(c) \/ ChoosePatches(c)
    PROVE  CallsRight'
<1>1. PICK call : call = calls[c] /\ CallRight(call)
  BY DEF CallsRight
<1>2. call.phase \in Later
  BY <1>1 DEF ChooseDeletes, ChoosePatches, Later
<1>3. IsWrite(call)
  BY <1>1, <1>2, PhaseTells
<1>4. CASE ChooseDeletes(c)
  <2>1. PICK chosen :
          calls' = [calls EXCEPT ![c] = [call EXCEPT !.deletes = chosen.ids,
                                                     !.remaining = @ \/ chosen.more,
                                                     !.phase = PhaseFrom(3, call.body, <<>>)]]
    BY <1>1, <1>4, Zenon DEF ChooseDeletes
  <2>2. PICK ids, more, phase : /\ ids = chosen.ids /\ more = (call.remaining \/ chosen.more)
                                /\ phase = PhaseFrom(3, call.body, <<>>)
    OBVIOUS
  <2> DEFINE new == [call EXCEPT !.deletes = ids, !.remaining = more, !.phase = phase]
  <2>3. calls' = [calls EXCEPT ![c] = new]
    BY <1>1, <2>1, <2>2
  <2>4. IsWrite(new) /\ new.rows = call.rows /\ new.phase = phase /\ new.body = call.body /\ new.spec = call.spec
    BY <1>3 DEF IsWrite, WriteFields
  <2>5. phase \in Later
    BY <2>2, PhaseAfter
  <2> HIDE DEF new
  <2>6. CallRight(new)
    BY <1>1, <1>2, <2>4, <2>5, ChosenRight
  <2> QED
    BY <2>3, <2>6, SetCall
<1>5. CASE ChoosePatches(c)
  <2>1. PICK chosen :
          calls' = [calls EXCEPT ![c] = [call EXCEPT !.patches = chosen.ids,
                                                     !.remaining = @ \/ chosen.more,
                                                     !.phase = "committing"]]
    BY <1>1, <1>5, Zenon DEF ChoosePatches
  <2>2. PICK ids, more : ids = chosen.ids /\ more = (call.remaining \/ chosen.more)
    OBVIOUS
  <2> DEFINE new == [call EXCEPT !.patches = ids, !.remaining = more, !.phase = "committing"]
  <2>3. calls' = [calls EXCEPT ![c] = new]
    BY <1>1, <2>1, <2>2
  <2>4. IsWrite(new) /\ new.rows = call.rows /\ new.phase \in Later /\ new.body = call.body /\ new.spec = call.spec
    BY <1>3 DEF IsWrite, WriteFields, Later
  <2> HIDE DEF new
  <2>5. CallRight(new)
    BY <1>1, <1>2, <2>4, ChosenRight
  <2> QED
    BY <2>3, <2>5, SetCall
<1> QED
  BY <1>4, <1>5

\* A commit leaves the rows of the requests that are still in flight.
LEMMA WatchedRight ==
    ASSUME NEW call, CallRight(call), NEW matched, NEW new,
           new = IF call.phase \in {"idle", "asking"} THEN call
                 ELSE [call EXCEPT !.steady = @ \cap matched, !.ever = @ \cup matched]
    PROVE  CallRight(new)
<1>1. CASE call.phase \in {"idle", "asking"}
  BY <1>1
<1>2. CASE call.phase \notin {"idle", "asking"}
  <2>1. IsWrite(call) /\ call.body \in Bodies
    BY <1>2, PhaseTells
  <2>2. PICK steady, ever : steady = call.steady \cap matched /\ ever = call.ever \cup matched
    OBVIOUS
  <2>3. new = [call EXCEPT !.steady = steady, !.ever = ever]
    BY <1>2, <2>2
  <2>4. /\ IsWrite(new) /\ new.phase = call.phase /\ new.rows = call.rows /\ new.body = call.body
        /\ new.spec = call.spec /\ new.pending = call.pending
    BY <2>1, <2>3 DEF IsWrite, WriteFields
  <2>5. CASE call.phase \in Later
    BY <2>4, <2>5, ChosenRight
  <2>6. CASE call.phase = "embedding"
    BY <2>1, <2>4, <2>6, PhaseTells DEF CallRight, AwaitsVectors
  <2> QED
    BY <1>2, <2>5, <2>6, PhaseTells
<1> QED
  BY <1>1, <1>2

LEMMA CommitRight ==
    ASSUME CallsRight, NEW c \in Callers, CommitCall(c)
    PROVE  CallsRight'
<1>1. calls' = [d \in Callers |-> IF d = c THEN Idle ELSE Watched(calls[d])]
  BY Zenon DEF CommitCall
<1>2. ASSUME NEW d \in Callers PROVE CallRight(calls'[d])
  <2>1. CASE d = c
    BY <1>1, <2>1 DEF CallRight
  <2>2. CASE d # c
    <3>1. PICK call, matched : /\ call = calls[d] /\ CallRight(call)
                               /\ matched = MatchedBy(call.body, schema', live')
      BY DEF CallsRight
    <3>2. PICK new : /\ new = calls'[d]
                     /\ new = IF call.phase \in {"idle", "asking"} THEN call
                        ELSE [call EXCEPT !.steady = @ \cap matched, !.ever = @ \cup matched]
      <4>1. calls'[d] = Watched(calls[d])
        BY <1>1, <2>2
      <4> QED
        BY <3>1, <4>1, Zenon DEF Watched
    <3>3. CallRight(new)
      BY <3>1, <3>2, WatchedRight
    <3> QED
      BY <3>2, <3>3
  <2> QED
    BY <2>1, <2>2
<1>3. calls' = [d \in Callers |-> calls'[d]]
  BY <1>1
<1> QED
  BY <1>2, <1>3 DEF CallsRight, CallRight, IsWrite, IsQuery, AwaitsVectors

LEMMA QueryRight ==
    ASSUME CallsRight, NEW c \in Callers, QueryStep(c) \/ Drop(c)
    PROVE  CallsRight'
<1>1. CallRight(Idle)
  BY DEF CallRight
<1>2. CASE Drop(c) \/ Respond(c)
  BY <1>1, <1>2, SetCall DEF Drop, Respond
<1>3. ASSUME NEW request \in V2Queries, Ask(c, request) PROVE CallsRight'
  <2>1. PICK r, m, u, v, new : /\ new = [phase |-> "asking", request |-> r, metric |-> m,
                                         results |-> u, seen |-> v]
                               /\ calls' = [calls EXCEPT ![c] = new]
    BY <1>3 DEF Ask
  <2>2. CallRight(new)
    BY <2>1 DEF CallRight, IsQuery, QueryFields
  <2> QED
    BY <2>1, <2>2, SetCall
<1>4. ASSUME NEW k, AnswerQuery(c, k) PROVE CallsRight'
  <2>1. PICK call : call = calls[c] /\ CallRight(call) /\ call.phase = "asking"
    BY <1>4 DEF CallsRight, AnswerQuery
  <2>2. PICK result : calls' = [calls EXCEPT ![c] = [call EXCEPT
                        !.results[k] = result,
                        !.seen[k] = [live |-> live, metric |-> schema.metric]]]
    BY <1>4, <2>1, Zenon DEF AnswerQuery
  <2>3. PICK u, v : /\ u = [call.results EXCEPT ![k] = result]
                    /\ v = [call.seen EXCEPT ![k] = [live |-> live, metric |-> schema.metric]]
    OBVIOUS
  <2>4. IsQuery(call)
    BY <2>1, PhaseTells
  <2> DEFINE new == [call EXCEPT !.results = u, !.seen = v]
  <2>5. calls' = [calls EXCEPT ![c] = new]
    BY <2>2, <2>3, <2>4 DEF IsQuery, QueryFields
  <2>6. IsQuery(new) /\ new.phase = "asking"
    BY <2>1, <2>4 DEF IsQuery, QueryFields
  <2> HIDE DEF new
  <2>7. CallRight(new)
    BY <2>6 DEF CallRight
  <2> QED
    BY <2>5, <2>7, SetCall
<1> QED
  BY <1>2, <1>3, <1>4 DEF QueryStep

LEMMA CallsRightInit == CompatInit => CallsRight
  BY DEF CompatInit, CallsRight, CallRight

LEMMA CallsRightNext == CallsRight /\ [CompatNext]_<<vars, calls>> => CallsRight'
<1> SUFFICES ASSUME CallsRight, [CompatNext]_<<vars, calls>> PROVE CallsRight'
  OBVIOUS
<1>1. ASSUME NEW c \in Callers, WriteStep(c) PROVE CallsRight'
  BY <1>1, ArriveRight, EmbedRight, ChooseRight, CommitRight DEF WriteStep
<1>2. ASSUME NEW c \in Callers, QueryStep(c) \/ Drop(c) PROVE CallsRight'
  BY <1>2, QueryRight
<1>3. ASSUME UNCHANGED calls PROVE CallsRight'
  BY <1>3 DEF CallsRight, CallRight, IsWrite, IsQuery, AwaitsVectors
<1> QED
  BY <1>1, <1>2, <1>3 DEF CompatNext

\* Whatever rows a request carries, whichever of them need a vector, and in
\* whatever order and with whatever repetitions the endpoint answers, a row that
\* goes on to be committed has the vector it was sent with or the one the model
\* gives for its own text (rows_needing_embedding, HttpEmbedder::embed and
\* attach_vectors), however the requests interleave.
THEOREM RowsKeepTheirVectors == CompatSpec => []EachRowItsVector
<1>1. CallsRight => EachRowItsVector
  <2> SUFFICES ASSUME CallsRight, NEW c \in Callers,
                      calls[c].phase \in {"deleting", "patching", "committing"},
                      NEW k \in DOMAIN calls[c].rows
               PROVE  RowRight(calls[c].rows[k], ParsedRow(calls[c].body.rows[k]), calls[c].spec)
    BY DEF EachRowItsVector, RowRight
  <2>1. CallRight(calls[c]) /\ calls[c].phase \in Later
    BY DEF CallsRight, Later
  <2> QED
    BY <2>1, PhaseTells DEF RowsRight
<1> QED
  BY <1>1, CallsRightInit, CallsRightNext, PTL DEF CompatSpec

=============================================================================
