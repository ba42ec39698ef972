---------------------------- MODULE TypedValues ----------------------------
(***************************************************************************)
(* Typed attribute values (value.rs): what JSON is read as, what a schema  *)
(* makes of it, and how two values compare.                                *)
(*                                                                         *)
(* A value is its type and a sequence of numbers: one for a scalar, the    *)
(* elements of an array, the weights of a sparse vector in the order of    *)
(* the dimensions.  A text is a number too; what the code does with the    *)
(* characters of one is given by the tables below.                         *)
(***************************************************************************)
EXTENDS Integers, Sequences

CONSTANTS
    Texts,      \* the strings, numbered in their order
    Parsed,     \* [type -> [text -> number]]: the texts that parse as a type,
    Rendered,   \* [type -> [number -> text]]: and how a number is written
    MaxInt,     \* i64::MAX
    ExactF64    \* integers up to this one have an f64 of their own

ASSUME WidthAssumption == MaxInt \in Nat /\ ExactF64 \in Nat

Arrays == {"[]string", "[]uint", "[]int"}

\* Type (value.rs).  A null has none; "vector" is a document's embedding,
\* which is not an attribute.
Types == Arrays \cup
    {"bool", "uint", "int", "float", "string", "datetime", "uuid", "{}f16"}

TypedValue(type, items) == [type |-> type, items |-> items]
NullValue == TypedValue("null", <<>>)
IsNull(v) == v.type = "null"

\* The type of one element; a scalar is its own element.
ElementType(type) ==
    CASE type = "[]string" -> "string"
      [] type = "[]uint"   -> "uint"
      [] type = "[]int"    -> "int"
      [] OTHER             -> type

Elements(v) ==
    IF v.type \in Arrays
       THEN {TypedValue(ElementType(v.type), <<v.items[k]>>) : k \in DOMAIN v.items}
       ELSE {v}

---------------------------------------------------------------------------
\* JSON.  A JSON value is written the same way, under the types JSON has:
\* null, bool, number (an integer), float, string, list (of numbers), strings
\* (a list of strings), object, and mixed for what no attribute can hold.

NoValue == TypedValue("error", <<>>)

\* from_json: the narrowest type that fits.  Nothing is read as a uuid or a
\* datetime, and an empty list counts as one of unsigned integers.
FromJson(j) ==
    LET natural == \A k \in DOMAIN j.items : j.items[k] >= 0 IN
    CASE j.type = "number"  -> TypedValue(IF natural THEN "uint" ELSE "int", j.items)
      [] j.type = "list"    -> TypedValue(IF natural THEN "[]uint" ELSE "[]int", j.items)
      [] j.type = "strings" -> TypedValue(IF j.items = <<>> THEN "[]uint" ELSE "[]string",
                                          j.items)
      [] j.type = "object"  -> TypedValue("{}f16", j.items)
      [] j.type = "mixed"   -> NoValue
      [] OTHER              -> j

\* Serialize: dates and uuids leave as strings.
ToJson(v) ==
    CASE v.type \in {"datetime", "uuid"} ->
            TypedValue("string", <<Rendered[v.type][v.items[1]]>>)
      [] v.type \in {"uint", "int"}      -> TypedValue("number", v.items)
      [] v.type \in {"[]uint", "[]int"}  -> TypedValue("list", v.items)
      [] v.type = "[]string"             -> TypedValue("strings", v.items)
      [] v.type = "{}f16"                -> TypedValue("object", v.items)
      [] OTHER                           -> v

---------------------------------------------------------------------------
\* An integer as an f64: the ones past 2^53 lose their last bit.
AsF64(n) == IF n \in (-ExactF64)..ExactF64 THEN n ELSE n - (n % 2)

FitsInt(items) == \A k \in DOMAIN items : items[k] <= MaxInt

\* (Variant: only what has the type already fits.)
CoerceSame(v, type) == IF IsNull(v) \/ v.type = type THEN v ELSE NoValue

\* Value::coerce to a declared type, or NoValue where it fails.
Coerce(v, type) ==
    LET from == v.type
        asText == [k \in DOMAIN v.items |-> Rendered["uint"][v.items[k]]] IN
    CASE IsNull(v) \/ from = type -> v
      [] from = "string" /\ type \in {"uuid", "datetime"} ->
            IF v.items[1] \in DOMAIN Parsed[type]
               THEN TypedValue(type, <<Parsed[type][v.items[1]]>>) ELSE NoValue
      [] from = "uint" /\ type \in {"int", "datetime"} ->
            IF FitsInt(v.items) THEN TypedValue(type, v.items) ELSE NoValue
      [] from \in {"uint", "int"} /\ type = "float" ->
            TypedValue("float", <<AsF64(v.items[1])>>)
      [] from = "int" /\ type = "uint" ->
            IF v.items[1] >= 0 THEN TypedValue("uint", v.items) ELSE NoValue
      [] from = "[]uint" /\ type = "[]string" -> TypedValue("[]string", asText)
      [] from = "[]string" /\ type \in {"[]uint", "[]int"} ->
            IF v.items = <<>> THEN TypedValue(type, <<>>) ELSE NoValue
      [] from = "[]uint" /\ type = "[]int" ->
            IF FitsInt(v.items) THEN TypedValue("[]int", v.items) ELSE NoValue
      [] OTHER -> NoValue

---------------------------------------------------------------------------
\* (Variant: a sequence does not precede the ones it begins.)
PrecedesAtDifference(s, t) ==
    \E k \in DOMAIN t :
        /\ \A j \in 1..k - 1 : j \in DOMAIN s /\ s[j] = t[j]
        /\ k \in DOMAIN s /\ s[k] < t[k]

\* Sequences of numbers in lexicographic order.
Precedes(s, t) ==
    \E k \in DOMAIN t :
        /\ \A j \in 1..k - 1 : j \in DOMAIN s /\ s[j] = t[j]
        /\ k \in DOMAIN s => s[k] < t[k]

Order(s, t) ==
    CASE s = t         -> "equal"
      [] Precedes(s, t) -> "less"
      [] OTHER         -> "greater"

Floatable == {"uint", "int", "float", "datetime"}

\* Value::compare, with "none" for values that do not compare.
Compare(a, b) ==
    CASE IsNull(a) \/ IsNull(b) ->
            (CASE IsNull(a) /\ IsNull(b)  -> "equal"
               [] IsNull(a) /\ ~IsNull(b) -> "less"
               [] OTHER                   -> "greater")
      [] a.type = b.type /\ a.type # "{}f16" -> Order(a.items, b.items)
      [] a.type # b.type /\ "float" \in {a.type, b.type}
            /\ {a.type, b.type} \subseteq Floatable ->
            Order(<<AsF64(a.items[1])>>, <<AsF64(b.items[1])>>)
      [] {a.type, b.type} = {"uint", "int"} -> Order(a.items, b.items)
      [] OTHER -> "none"

\* Value::equals: a null equals a null and nothing else.
SameValue(a, b) == Compare(a, b) = "equal"

NoText == -1

\* Value::as_text: the string a text operator looks at.
AsText(v) ==
    CASE v.type = "string"               -> v.items[1]
      [] v.type \in {"uuid", "datetime"} -> Rendered[v.type][v.items[1]]
      [] OTHER                           -> NoText

=============================================================================
