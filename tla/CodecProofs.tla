---------------------------- MODULE CodecProofs ----------------------------
(***************************************************************************)
(* Proofs about Codec: the values of an object compare in a total order,   *)
(* and what a client reads and writes back is what was stored.             *)
(*                                                                         *)
(* Both rest on one invariant: an object holds records that may be         *)
(* written, whose attributes are well typed.                               *)
(***************************************************************************)
EXTENDS Codec, TLAPS

Least == INSTANCE DocumentsProofs WITH Ids <- {}, Attrs <- {}, Values <- {}, Null <- NullValue

---------------------------------------------------------------------------
(***************************************************************************)
(* Sequences of numbers in lexicographic order.                            *)
(***************************************************************************)
LEMMA PrecedesLexically ==
    ASSUME NEW s \in Seq(Int), NEW t \in Seq(Int)
    PROVE  Precedes(s, t) <=> Least!Lexical(s, t)
<1>1. ASSUME NEW k \in DOMAIN t
      PROVE  (/\ \A j \in 1..k - 1 : j \in DOMAIN s /\ s[j] = t[j]
              /\ k \in DOMAIN s => s[k] < t[k]) <=> Least!LexicalAt(s, t, k)
  <2>1. k \in 1..Len(t) /\ Len(t) \in Nat /\ DOMAIN t = 1..Len(t)
    OBVIOUS
  <2>2. \A j \in 1..k - 1 : j \in DOMAIN t
    BY <2>1
  <2> QED
    BY <2>2 DEF Least!LexicalAt, Least!Agree
<1> QED
  BY <1>1 DEF Precedes, Least!Lexical

LEMMA PrecedesTotal ==
    ASSUME NEW s \in Seq(Int), NEW t \in Seq(Int)
    PROVE  s = t \/ Precedes(s, t) \/ Precedes(t, s)
  BY PrecedesLexically, Least!LexicalTotal

LEMMA PrecedesTransitive ==
    ASSUME NEW s \in Seq(Int), NEW t \in Seq(Int), NEW u \in Seq(Int),
           Precedes(s, t), Precedes(t, u)
    PROVE  Precedes(s, u)
  BY PrecedesLexically, Least!LexicalTransitive

LEMMA PrecedesIrreflexive ==
    ASSUME NEW s \in Seq(Int)
    PROVE  ~Precedes(s, s)
  BY PrecedesLexically, Least!LexicalIrreflexive

---------------------------------------------------------------------------
(***************************************************************************)
(* Values that compare.                                                    *)
(***************************************************************************)
LEMMA MirrorIs ==
    /\ Mirror["equal"] = "equal"
    /\ Mirror["less"] = "greater"
    /\ Mirror["greater"] = "less"
    /\ Mirror["none"] = "none"
BY DEF Mirror

LEMMA OrderMirrored ==
    ASSUME NEW s \in Seq(Int), NEW t \in Seq(Int)
    PROVE  Order(t, s) = Mirror[Order(s, t)]
<1>1. CASE s = t
  BY <1>1, MirrorIs, PrecedesIrreflexive DEF Order
<1>2. CASE s # t /\ Precedes(s, t)
  <2>1. ~Precedes(t, s)
    BY <1>2, PrecedesTransitive, PrecedesIrreflexive
  <2> QED
    BY <1>2, <2>1, MirrorIs DEF Order
<1>3. CASE s # t /\ ~Precedes(s, t)
  <2>1. Precedes(t, s)
    BY <1>3, PrecedesTotal
  <2> QED
    BY <1>3, <2>1, MirrorIs DEF Order
<1> QED
  BY <1>1, <1>2, <1>3

LEMMA OrderEqual ==
    ASSUME NEW s \in Seq(Int), NEW t \in Seq(Int)
    PROVE  (Order(s, t) = "equal") = (s = t)
<1>1. CASE s = t
  BY <1>1, PrecedesIrreflexive DEF Order
<1>2. CASE s # t
  BY <1>2 DEF Order
<1> QED
  BY <1>1, <1>2

LEMMA OrderTransitive ==
    ASSUME NEW s \in Seq(Int), NEW t \in Seq(Int), NEW u \in Seq(Int),
           Order(s, t) = "less", Order(t, u) = "less"
    PROVE  Order(s, u) = "less"
<1>1. Precedes(s, t) /\ Precedes(t, u)
  BY DEF Order
<1>2. Precedes(s, u)
  BY <1>1, PrecedesTransitive
<1>3. s # u
  BY <1>2, PrecedesIrreflexive
<1> QED
  BY <1>2, <1>3 DEF Order

\* An integer is an f64 of its own or its even neighbour's.
LEMMA AsF64IsANumber ==
    ASSUME NEW n \in Int
    PROVE  AsF64(n) \in Int
<1>1. ExactF64 \in Int
  BY WidthAssumption
<1>2. n % 2 \in Int
  OBVIOUS
<1> QED
  BY <1>1, <1>2 DEF AsF64

Scalars == {"bool", "uint", "int", "float", "string", "datetime", "uuid"}

LEMMA ScalarsHoldOne ==
    ASSUME NEW v, WellTyped(v), v.type \in Scalars
    PROVE  v.items[1] \in Int /\ v.items = <<v.items[1]>>
<1>1. v.items \in Seq(Int) /\ Len(v.items) = 1
  BY DEF WellTyped, Holds, Scalars, Arrays
<1> QED
  BY <1>1

LEMMA TypesAre ==
    ASSUME NEW v, WellTyped(v)
    PROVE  v.type \in Scalars \cup Arrays \cup {"{}f16", "null"}
BY DEF WellTyped, Types, Scalars

\* Numbers of different types compare by the f64 they are read as.
LEMMA FloatsMirrored ==
    ASSUME NEW x, NEW y, WellTyped(x), WellTyped(y), x.type \in Scalars, y.type \in Scalars
    PROVE  Order(<<AsF64(y.items[1])>>, <<AsF64(x.items[1])>>)
              = Mirror[Order(<<AsF64(x.items[1])>>, <<AsF64(y.items[1])>>)]
<1>1. x.items[1] \in Int /\ y.items[1] \in Int
  BY ScalarsHoldOne
<1>2. AsF64(x.items[1]) \in Int /\ AsF64(y.items[1]) \in Int
  BY <1>1, AsF64IsANumber
<1>3. PICK s \in Seq(Int) : s = <<AsF64(x.items[1])>>
  <2>1. <<AsF64(x.items[1])>> \in Seq(Int)
    BY <1>2
  <2> QED
    BY <2>1
<1>4. PICK t \in Seq(Int) : t = <<AsF64(y.items[1])>>
  <2>1. <<AsF64(y.items[1])>> \in Seq(Int)
    BY <1>2
  <2> QED
    BY <2>1
<1>5. Order(t, s) = Mirror[Order(s, t)]
  BY OrderMirrored
<1> QED
  BY <1>3, <1>4, <1>5

\* Which of its cases Compare is in.
BothFloat(x, y) ==
    x.type # y.type /\ "float" \in {x.type, y.type} /\ {x.type, y.type} \subseteq Floatable

LEMMA SameItems ==
    ASSUME NEW x, NEW y, WellTyped(x), WellTyped(y), x.type = y.type, x.items = y.items
    PROVE  x = y
BY DEF WellTyped

LEMMA NullsAreEqual ==
    ASSUME NEW x, WellTyped(x), IsNull(x)
    PROVE  Compare(x, x) = "equal"
<1>1. x.items \in Seq(Int)
  BY DEF WellTyped
<1>2. Order(x.items, x.items) = "equal"
  BY <1>1, OrderEqual
<1> QED
  BY <1>2 DEF Compare, IsNull

LEMMA CompareMirrored ==
    ASSUME NEW x, NEW y, WellTyped(x), WellTyped(y)
    PROVE  Compare(y, x) = Mirror[Compare(x, y)]
<1>0. x.items \in Seq(Int) /\ y.items \in Seq(Int)
  BY DEF WellTyped
<1>1. CASE IsNull(x) \/ IsNull(y)
  <2>1. CASE IsNull(x) /\ IsNull(y)
    <3>1. x = y
      <4>1. x.items = <<>> /\ y.items = <<>> /\ x.type = "null" /\ y.type = "null"
        BY <2>1 DEF WellTyped, Holds, IsNull, Arrays
      <4> QED
        BY <4>1, SameItems
    <3>2. Compare(x, x) = "equal"
      BY <2>1, <3>1, NullsAreEqual
    <3> QED
      BY <3>1, <3>2, MirrorIs
  <2>2. CASE IsNull(x) /\ ~IsNull(y)
    <3>1. Compare(x, y) = "less" /\ Compare(y, x) = "greater"
      BY <2>2 DEF Compare, IsNull, Floatable
    <3> QED
      BY <3>1, MirrorIs
  <2>3. CASE ~IsNull(x) /\ IsNull(y)
    <3>1. Compare(x, y) = "greater" /\ Compare(y, x) = "less"
      BY <2>3 DEF Compare, IsNull, Floatable
    <3> QED
      BY <3>1, MirrorIs
  <2> QED
    BY <1>1, <2>1, <2>2, <2>3
<1> SUFFICES ASSUME ~IsNull(x), ~IsNull(y)
             PROVE  Compare(y, x) = Mirror[Compare(x, y)]
  BY <1>1
<1>2. Order(y.items, x.items) = Mirror[Order(x.items, y.items)]
  BY <1>0, OrderMirrored
<1>3. CASE x.type = y.type /\ x.type # "{}f16"
  <2>1. Compare(x, y) = Order(x.items, y.items) /\ Compare(y, x) = Order(y.items, x.items)
    BY <1>3 DEF Compare
  <2> QED
    BY <1>2, <2>1
<1>4. CASE x.type = y.type /\ x.type = "{}f16"
  <2>1. Compare(x, y) = "none" /\ Compare(y, x) = "none"
    BY <1>4 DEF Compare
  <2> QED
    BY <2>1, MirrorIs
<1>5. CASE BothFloat(x, y)
  <2>1. x.type \in Scalars /\ y.type \in Scalars
    BY <1>5 DEF BothFloat, Floatable, Scalars
  <2>2. /\ Compare(x, y) = Order(<<AsF64(x.items[1])>>, <<AsF64(y.items[1])>>)
        /\ Compare(y, x) = Order(<<AsF64(y.items[1])>>, <<AsF64(x.items[1])>>)
    <3>1. {y.type, x.type} = {x.type, y.type}
      OBVIOUS
    <3> QED
      BY <1>5, <3>1 DEF BothFloat, Compare
  <2> QED
    BY <2>1, <2>2, FloatsMirrored
<1>6. CASE x.type # y.type /\ ~BothFloat(x, y)
  <2>1. {y.type, x.type} = {x.type, y.type}
    OBVIOUS
  <2>2. CASE {x.type, y.type} = {"uint", "int"}
    <3>1. Compare(x, y) = Order(x.items, y.items) /\ Compare(y, x) = Order(y.items, x.items)
      BY <1>6, <2>1, <2>2 DEF BothFloat, Compare
    <3> QED
      BY <1>2, <3>1
  <2>3. CASE {x.type, y.type} # {"uint", "int"}
    <3>1. Compare(x, y) = "none" /\ Compare(y, x) = "none"
      BY <1>6, <2>1, <2>3 DEF BothFloat, Compare
    <3> QED
      BY <3>1, MirrorIs
  <2> QED
    BY <2>2, <2>3
<1> QED
  BY <1>3, <1>4, <1>5, <1>6

\* Values of one type compare as the sequences they hold.
LEMMA CompareOfOneType ==
    ASSUME NEW x, NEW y, WellTyped(x), WellTyped(y), x.type = y.type, x.type # "{}f16"
    PROVE  Compare(x, y) = Order(x.items, y.items)
<1>1. CASE IsNull(x)
  <2>1. x = y
    <3>1. x.items = <<>> /\ y.items = <<>>
      BY <1>1 DEF WellTyped, Holds, IsNull, Arrays
    <3> QED
      BY <3>1, SameItems
  <2>2. x.items \in Seq(Int)
    BY DEF WellTyped
  <2>3. Order(x.items, x.items) = "equal"
    BY <2>2, OrderEqual
  <2> QED
    BY <1>1, <2>1, <2>3, NullsAreEqual
<1>2. CASE ~IsNull(x)
  BY <1>2 DEF Compare, IsNull
<1> QED
  BY <1>1, <1>2

---------------------------------------------------------------------------
(***************************************************************************)
(* A value read as JSON and written back.                                  *)
(***************************************************************************)
Echo(v) == Coerce(FromJson(ToJson(v)), v.type) = v

LEMMA NumbersEcho ==
    ASSUME NEW v, WellTyped(v), v.type \in {"uint", "int"}
    PROVE  Echo(v)
<1>1. ToJson(v) = TypedValue("number", v.items)
  BY DEF ToJson, TypedValue
<1>2. DOMAIN v.items = {1} /\ v.items[1] \in Int /\ v = TypedValue(v.type, v.items)
  <2>1. v.items \in Seq(Int) /\ Len(v.items) = 1 /\ v = TypedValue(v.type, v.items)
    BY DEF WellTyped, Holds, Arrays
  <2> QED
    BY <2>1
<1>3. FromJson(ToJson(v)) = TypedValue(IF v.items[1] >= 0 THEN "uint" ELSE "int", v.items)
  BY <1>1, <1>2 DEF FromJson, TypedValue
<1>4. CASE v.type = "uint"
  <2>1. v.items[1] >= 0
    BY <1>4 DEF WellTyped, Holds, Arrays
  <2> QED
    BY <1>2, <1>3, <1>4, <2>1 DEF Echo, Coerce, TypedValue
<1>5. CASE v.type = "int"
  <2>1. FitsInt(v.items)
    BY <1>5 DEF WellTyped, Holds, Arrays
  <2>2. CASE v.items[1] >= 0
    BY <1>2, <1>3, <1>5, <2>1, <2>2 DEF Echo, Coerce, TypedValue, IsNull
  <2>3. CASE ~(v.items[1] >= 0)
    BY <1>2, <1>3, <1>5, <2>3 DEF Echo, Coerce, TypedValue
  <2> QED
    BY <2>2, <2>3
<1> QED
  BY <1>4, <1>5

LEMMA ListsEcho ==
    ASSUME NEW v, WellTyped(v), v.type \in {"[]uint", "[]int"}
    PROVE  Echo(v)
<1> DEFINE natural == \A k \in DOMAIN v.items : v.items[k] >= 0
<1>1. ToJson(v) = TypedValue("list", v.items)
  BY DEF ToJson, TypedValue
<1>2. v = TypedValue(v.type, v.items)
  BY DEF WellTyped
<1>3. FromJson(ToJson(v)) = TypedValue(IF natural THEN "[]uint" ELSE "[]int", v.items)
  BY <1>1 DEF FromJson, TypedValue
<1>4. CASE v.type = "[]uint"
  <2>1. natural
    BY <1>4 DEF WellTyped, Holds, Arrays
  <2> QED
    BY <1>2, <1>3, <1>4, <2>1 DEF Echo, Coerce, TypedValue
<1>5. CASE v.type = "[]int"
  <2>1. FitsInt(v.items)
    BY <1>5 DEF WellTyped, Holds, Arrays
  <2>2. CASE natural
    BY <1>2, <1>3, <1>5, <2>1, <2>2 DEF Echo, Coerce, TypedValue, IsNull
  <2>3. CASE ~natural
    BY <1>2, <1>3, <1>5, <2>3 DEF Echo, Coerce, TypedValue
  <2> QED
    BY <2>2, <2>3
<1> QED
  BY <1>4, <1>5

LEMMA StringsEcho ==
    ASSUME NEW v, WellTyped(v), v.type = "[]string"
    PROVE  Echo(v)
<1>1. ToJson(v) = TypedValue("strings", v.items)
  BY DEF ToJson, TypedValue
<1>2. v = TypedValue(v.type, v.items)
  BY DEF WellTyped
<1>3. FromJson(ToJson(v)) = TypedValue(IF v.items = <<>> THEN "[]uint" ELSE "[]string", v.items)
  BY <1>1 DEF FromJson, TypedValue
<1>4. CASE v.items = <<>>
  <2>1. [k \in DOMAIN v.items |-> Rendered["uint"][v.items[k]]] = <<>>
    BY <1>4
  <2>2. FromJson(ToJson(v)) = TypedValue("[]uint", <<>>)
    BY <1>3, <1>4
  <2>3. Coerce(TypedValue("[]uint", <<>>), "[]string") = TypedValue("[]string", <<>>)
    BY <1>4, <2>1 DEF Coerce, TypedValue, IsNull
  <2> QED
    BY <1>2, <1>4, <2>2, <2>3 DEF Echo
<1>5. CASE v.items # <<>>
  BY <1>2, <1>3, <1>5 DEF Echo, Coerce, TypedValue
<1> QED
  BY <1>4, <1>5

LEMMA RenderedEcho ==
    ASSUME NEW v, WellTyped(v), v.type \in {"datetime", "uuid"}
    PROVE  Echo(v)
<1> DEFINE text == Rendered[v.type][v.items[1]]
<1>1. ToJson(v) = TypedValue("string", <<text>>)
  BY DEF ToJson, TypedValue
<1>2. FromJson(ToJson(v)) = TypedValue("string", <<text>>)
  BY <1>1 DEF FromJson, TypedValue
<1>3. text \in DOMAIN Parsed[v.type] /\ Parsed[v.type][text] = v.items[1]
  BY DEF WellTyped, Holds, Arrays
<1>4. v = TypedValue(v.type, <<v.items[1]>>)
  BY ScalarsHoldOne DEF WellTyped, Scalars
<1>5. Coerce(TypedValue("string", <<text>>), v.type) = TypedValue(v.type, <<v.items[1]>>)
  BY <1>3 DEF Coerce, TypedValue, IsNull
<1> QED
  BY <1>2, <1>4, <1>5 DEF Echo

LEMMA OthersEcho ==
    ASSUME NEW v, WellTyped(v), v.type \in {"null", "bool", "float", "string", "{}f16"}
    PROVE  Echo(v)
<1>1. v = TypedValue(v.type, v.items)
  BY DEF WellTyped
<1>2. CASE v.type = "{}f16"
  BY <1>1, <1>2 DEF Echo, Coerce, FromJson, ToJson, TypedValue
<1>3. CASE v.type # "{}f16"
  <2>1. FromJson(ToJson(v)) = v
    BY <1>3 DEF FromJson, ToJson
  <2> QED
    BY <2>1 DEF Echo, Coerce
<1> QED
  BY <1>2, <1>3

LEMMA ValuesEcho ==
    ASSUME NEW v, WellTyped(v)
    PROVE  Echo(v)
BY TypesAre, NumbersEcho, ListsEcho, StringsEcho, RenderedEcho, OthersEcho DEF Scalars, Arrays

---------------------------------------------------------------------------
(***************************************************************************)
(* An object holds records that may be written.                            *)
(***************************************************************************)
MayBeWritten == entries \in Seq(Entries)

LEMMA MayBeWrittenStays == Spec => []MayBeWritten
<1>1. Init => MayBeWritten
  BY DEF Init, MayBeWritten
<1>2. MayBeWritten /\ [Next]_entries => MayBeWritten'
  <2> SUFFICES ASSUME MayBeWritten, [Next]_entries
               PROVE  MayBeWritten'
    OBVIOUS
  <2>1. ASSUME NEW record \in Entries, Put(record)
        PROVE  MayBeWritten'
    BY <2>1 DEF Put, MayBeWritten
  <2>2. CASE PutObject
    BY <2>2 DEF PutObject, MayBeWritten
  <2>3. CASE UNCHANGED entries
    BY <2>3 DEF MayBeWritten
  <2> QED
    BY <2>1, <2>2, <2>3 DEF Next
<1> QED
  BY <1>1, <1>2, PTL DEF Spec

LEMMA StoredAreWellTyped ==
    ASSUME MayBeWritten
    PROVE  \A v \in StoredValues : WellTyped(v)
<1> SUFFICES ASSUME NEW v \in StoredValues
             PROVE  WellTyped(v)
  OBVIOUS
<1>1. PICK k \in DOMAIN entries :
          v \in {Attributes(entries[k])[a] : a \in DOMAIN Attributes(entries[k])}
  BY DEF StoredValues
<1>2. PICK a \in DOMAIN Attributes(entries[k]) : v = Attributes(entries[k])[a]
  BY <1>1
<1>3. entries[k] \in Entries
  BY DEF MayBeWritten
<1> QED
  BY <1>2, <1>3, EntriesAssumption

\* An attribute that a client reads as JSON and writes back to the same type
\* is the one that was stored (value.rs, Serialize, from_json and coerce),
\* for every schema of texts, dates and uuids that parse as what they render.
THEOREM EchoStaysTheSame == Spec => []EchoIsTheSame
<1>1. MayBeWritten => EchoIsTheSame
  BY StoredAreWellTyped, ValuesEcho DEF EchoIsTheSame, Echo
<1> QED
  BY <1>1, MayBeWrittenStays, PTL

\* Value::compare orders the stored values of a type totally, answers the other
\* way round when the two are swapped, and finds equal only what is the same.
THEOREM ValuesStayOrdered == Spec => []ValuesAreOrdered
<1>1. MayBeWritten => ValuesAreOrdered
  <2> SUFFICES ASSUME MayBeWritten, NEW x \in StoredValues, NEW y \in StoredValues
               PROVE  /\ Compare(y, x) = Mirror[Compare(x, y)]
                      /\ x.type = y.type /\ x.type # "{}f16" =>
                            /\ (Compare(x, y) = "equal") = (x = y)
                            /\ \A z \in StoredValues :
                                  z.type = x.type /\ Compare(x, y) = "less"
                                    /\ Compare(y, z) = "less" => Compare(x, z) = "less"
    BY DEF ValuesAreOrdered
  <2>1. WellTyped(x) /\ WellTyped(y)
    BY StoredAreWellTyped
  <2>2. Compare(y, x) = Mirror[Compare(x, y)]
    BY <2>1, CompareMirrored
  <2>3. ASSUME x.type = y.type, x.type # "{}f16"
        PROVE  (Compare(x, y) = "equal") = (x = y)
    <3>1. Compare(x, y) = Order(x.items, y.items)
      BY <2>1, <2>3, CompareOfOneType
    <3>2. x.items \in Seq(Int) /\ y.items \in Seq(Int)
      BY <2>1 DEF WellTyped
    <3>3. (Order(x.items, y.items) = "equal") = (x.items = y.items)
      BY <3>2, OrderEqual
    <3> QED
      BY <2>1, <2>3, <3>1, <3>3, SameItems
  <2>4. ASSUME x.type = y.type, x.type # "{}f16", NEW z \in StoredValues,
               z.type = x.type, Compare(x, y) = "less", Compare(y, z) = "less"
        PROVE  Compare(x, z) = "less"
    <3>1. WellTyped(z)
      BY StoredAreWellTyped
    <3>2. /\ Compare(x, y) = Order(x.items, y.items)
          /\ Compare(y, z) = Order(y.items, z.items)
          /\ Compare(x, z) = Order(x.items, z.items)
      BY <2>1, <2>4, <3>1, CompareOfOneType
    <3>3. x.items \in Seq(Int) /\ y.items \in Seq(Int) /\ z.items \in Seq(Int)
      BY <2>1, <3>1 DEF WellTyped
    <3> QED
      BY <2>4, <3>2, <3>3, OrderTransitive
  <2> QED
    BY <2>2, <2>3, <2>4
<1> QED
  BY <1>1, MayBeWrittenStays, PTL

=============================================================================
