------------------------------- MODULE Codec -------------------------------
(***************************************************************************)
(* What objects hold: values (value.rs), ids, records (doc.rs), frames     *)
(* (store.rs) and the indexes of a segment, written as bytes and read back.*)
(*                                                                         *)
(* A cell is one number written at a fixed width, or one byte of a text.   *)
(* `take` fails when a field is not there in full, so an object cut inside *)
(* a field reads like one cut before it.  Counts of 32 bits do not wrap.   *)
(***************************************************************************)
EXTENDS AttributeIndex, Ranking

CONSTANTS
    Bytes,      \* [text -> its bytes], and the same for
    NameBytes,  \* attribute names
    Dimensions, \* the dimensions of sparse vectors, named by the first texts
    U16,        \* 2^16: the number of attributes and the length of a name wrap
    Entries,    \* the records that may be written
    MaxEntries  \* bound: records in an object

VARIABLE entries    \* the records of one object, in order

Attributes(r) == IF r.op = "delete" THEN Nothing ELSE Named(r.attrs)

\* Value: what a value of each type can hold.  A date or a uuid is written as
\* a text that parses as it again.
Holds(type, items) ==
    CASE type = "null"                 -> items = <<>>
      [] type \in Arrays \cup {"{}f16"} ->
            /\ type = "[]uint" => \A k \in DOMAIN items : items[k] >= 0
            /\ type = "[]int" => FitsInt(items)
      [] OTHER ->
            /\ Len(items) = 1
            /\ type = "uint" => items[1] >= 0
            /\ type = "int" => FitsInt(items)
            /\ type \in {"datetime", "uuid"} =>
                  /\ Rendered[type][items[1]] \in DOMAIN Parsed[type]
                  /\ Parsed[type][Rendered[type][items[1]]] = items[1]

WellTyped(v) ==
    /\ v = TypedValue(v.type, v.items)
    /\ v.type \in Types \cup {"null"}
    /\ v.items \in Seq(Int)
    /\ Holds(v.type, v.items)

ASSUME EntriesAssumption ==
    \A r \in Entries : \A a \in DOMAIN Attributes(r) : WellTyped(Attributes(r)[a])

---------------------------------------------------------------------------
\* Reading: what was read, and the cells after it.
Fail == [ok |-> FALSE, value |-> <<>>, rest |-> <<>>]
Read(value, rest) == [ok |-> TRUE, value |-> value, rest |-> rest]

\* take.
Take(cells, n) ==
    IF n > Len(cells) THEN Fail ELSE Read(SubSeq(cells, 1, n), SubSeq(cells, n + 1, Len(cells)))

Cell(cells) == IF cells = <<>> THEN Fail ELSE Read(Head(cells), Tail(cells))

As(reading, f(_)) == IF reading.ok THEN Read(f(reading.value), reading.rest) ELSE Fail

Both(first(_), second(_), cells) ==
    LET a == first(cells)
        b == second(a.rest)
    IN  IF a.ok /\ b.ok THEN Read(<<a.value, b.value>>, b.rest) ELSE Fail

Repeated(n, item(_), cells) ==
    FoldLeft(LAMBDA acc, k : LET next == item(acc.rest) IN
                IF acc.ok /\ next.ok THEN Read(Append(acc.value, next.value), next.rest) ELSE Fail,
             Read(<<>>, cells), [k \in 1..n |-> k])

Counted(item(_), cells) ==
    LET n == Cell(cells) IN IF n.ok THEN Repeated(n.value, item, n.rest) ELSE Fail

Listed(items) == <<Len(items)>> \o FlattenSeq(items)
Cells(numbers) == [k \in DOMAIN numbers |-> <<numbers[k]>>]

\* What the bytes that were read are by a table of them, if anything.
Recognized(reading, table) ==
    LET known == {x \in DOMAIN table : table[x] = reading.value}
    IN  IF known = {} THEN Fail ELSE As(reading, LAMBDA bytes : CHOOSE x \in known : TRUE)

\* put_str and get_str: bytes that are no text are refused.
PutText(t) == <<Len(Bytes[t])>> \o Bytes[t]
GetText(cells) == Recognized(Counted(Cell, cells), Bytes)

---------------------------------------------------------------------------
\* Value::encode and decode.
Tags == <<"null", "bool", "uint", "int", "float", "string", "datetime", "uuid",
          "[]string", "[]uint", "[]int", "{}f16">>
TagOf(type) == CHOOSE n \in DOMAIN Tags : Tags[n] = type

Weighted(v) == SelectSeq([k \in DOMAIN v.items |-> k], LAMBDA k : v.items[k] # 0)

\* A sparse vector is written as the dimensions it has, each by its name.
EncodeValue(v) ==
    <<TagOf(v.type)>> \o
    CASE v.type = "null"     -> <<>>
      [] v.type = "string"   -> PutText(v.items[1])
      [] v.type = "[]string" -> Listed([k \in DOMAIN v.items |-> PutText(v.items[k])])
      [] v.type = "{}f16"    ->
            Listed([k \in DOMAIN Weighted(v) |->
                        PutText(Weighted(v)[k]) \o <<v.items[Weighted(v)[k]]>>])
      [] v.type \in {"[]uint", "[]int"} -> Listed(Cells(v.items))
      [] OTHER -> v.items

DecodeValue(cells) ==
    LET tag == Cell(cells)
        type == Tags[tag.value]
        made(items) == TypedValue(type, items)
        spread(pairs) == TypedValue(type,
            [d \in 1..Dimensions |->
                LET own == {k \in DOMAIN pairs : pairs[k][1] = d}
                IN  IF own = {} THEN 0 ELSE pairs[CHOOSE k \in own : TRUE][2]]) IN
    CASE ~tag.ok -> Fail
      [] tag.ok /\ tag.value \notin DOMAIN Tags -> Fail
      [] OTHER ->
         (CASE type = "null"     -> Read(NullValue, tag.rest)
            [] type = "string"   -> As(GetText(tag.rest), LAMBDA t : made(<<t>>))
            [] type = "[]string" -> As(Counted(GetText, tag.rest), made)
            [] type = "{}f16"    ->
                  As(Counted(LAMBDA rest : Both(GetText, Cell, rest), tag.rest), spread)
            [] type \in {"[]uint", "[]int"} -> As(Counted(Cell, tag.rest), made)
            [] OTHER -> As(Take(tag.rest, 1), made))

---------------------------------------------------------------------------
\* Id::encode and decode.
IdTags == <<"uint", "uuid", "string">>
EncodeId(id) ==
    <<CHOOSE n \in 1..3 : IdTags[n] = id.type>> \o
    IF id.type = "string" THEN PutText(id.items[1]) ELSE id.items

DecodeId(cells) ==
    LET tag == Cell(cells) IN
    IF ~tag.ok \/ tag.value \notin 1..3 THEN Fail
    ELSE As(IF IdTags[tag.value] = "string" THEN GetText(tag.rest) ELSE Cell(tag.rest),
            LAMBDA n : TypedValue(IdTags[tag.value], <<n>>))

\* put_attrs and get_attrs: the counts keep 16 bits, the bytes are all written.
PutAttrs(attrs) ==
    LET names == SetToSeq(DOMAIN attrs)
        entry(a) == <<Len(NameBytes[a]) % U16>> \o NameBytes[a] \o EncodeValue(attrs[a])
    IN  <<Len(names) % U16>> \o FlattenSeq([k \in DOMAIN names |-> entry(names[k])])

GetName(cells) == Recognized(Counted(Cell, cells), NameBytes)

GetAttrs(cells) ==
    As(Counted(LAMBDA rest : Both(GetName, DecodeValue, rest), cells),
       LAMBDA pairs : [a \in {pairs[k][1] : k \in DOMAIN pairs} |->
                          pairs[CHOOSE k \in DOMAIN pairs : pairs[k][1] = a][2]])

\* Record::encode and decode; what follows the last field is not looked at.
Ops == <<"upsert", "delete", "patch">>
EncodeRecord(r) ==
    <<CHOOSE n \in 1..3 : Ops[n] = r.op>> \o EncodeId(r.id) \o
    CASE r.op = "delete" -> <<>>
      [] r.op = "patch"  -> PutAttrs(r.attrs)
      [] r.op = "upsert" -> Listed(Cells(VectorOf(r.attrs))) \o PutAttrs(Named(r.attrs))

WithVector(vector, attrs) ==
    IF vector = <<>> THEN attrs ELSE "vector" :> TypedValue("vector", vector) @@ attrs

DecodeFields(op, id, cells) ==
    CASE op = "delete" -> Read([op |-> op, id |-> id], cells)
      [] op = "patch"  -> As(GetAttrs(cells), LAMBDA attrs : [op |-> op, id |-> id, attrs |-> attrs])
      [] op = "upsert" ->
            As(Both(LAMBDA rest : Counted(Cell, rest), GetAttrs, cells),
               LAMBDA pair : [op |-> op, id |-> id, attrs |-> WithVector(pair[1], pair[2])])

DecodeRecord(cells) ==
    LET tag == Cell(cells)
        fields(id) == IF id.ok THEN DecodeFields(Ops[tag.value], id.value, id.rest) ELSE Fail
    IN  IF ~tag.ok \/ tag.value \notin 1..3 THEN Fail ELSE fields(DecodeId(tag.rest))

---------------------------------------------------------------------------
\* (Variant: the header counts itself.)
FrameWithHeader(blobs) ==
    FlattenSeq([k \in DOMAIN blobs |-> <<Len(blobs[k]) + 1>> \o blobs[k]])

\* frame.
Frame(blobs) == FlattenSeq([k \in DOMAIN blobs |-> <<Len(blobs[k])>> \o blobs[k]])

\* unframe: a header without its body is corruption.
Unframe(cells) ==
    LET from[p \in 1..Len(cells) + 1] ==
            CASE p = Len(cells) + 1 -> Read(<<>>, <<>>)
              [] p <= Len(cells) /\ p + cells[p] > Len(cells) -> Fail
              [] OTHER ->
                 LET rest == from[p + cells[p] + 1]
                 IN  IF rest.ok THEN Read(<<SubSeq(cells, p + 1, p + cells[p])>> \o rest.value, <<>>)
                     ELSE Fail
    IN  from[1]

\* frame_records, and an object read back as records.
FrameRecords(records) == Frame([k \in DOMAIN records |-> EncodeRecord(records[k])])

ReadRecords(cells) ==
    LET blobs == Unframe(cells)
        all(decoded) ==
            IF \E k \in DOMAIN decoded : ~decoded[k].ok THEN Fail
            ELSE Read([k \in DOMAIN decoded |-> decoded[k].value], <<>>)
    IN  IF ~blobs.ok THEN Fail
        ELSE all([k \in DOMAIN blobs.value |-> DecodeRecord(blobs.value[k])])

---------------------------------------------------------------------------
\* The indexes.  Sets of ordinals and of positions are written in order.
Numbers(S) == LET sorted == SortedBy(S, LAMBDA a, b : a < b) IN Listed(Cells(sorted))
ReadNumbers(cells) == As(Counted(Cell, cells), LAMBDA s : ToSet(s))

Mapped(pairs) ==
    [x \in {pairs[k][1] : k \in DOMAIN pairs} |->
        pairs[CHOOSE k \in DOMAIN pairs : pairs[k][1] = x][2]]

\* AttrIndex::encode and decode.
EncodeIndex(index) ==
    LET keys == SetToSeq(DOMAIN index.entries) IN
    <<IF index.multi_valued THEN 1 ELSE 0>> \o
    Listed([k \in DOMAIN keys |-> EncodeValue(keys[k]) \o Numbers(index.entries[keys[k]])])

\* (Variant: that the attribute has several values is forgotten.)
DecodeIndexAsSingle(cells) ==
    As(Both(Cell, LAMBDA rest :
                Counted(LAMBDA more : Both(DecodeValue, ReadNumbers, more), rest), cells),
       LAMBDA pair : [multi_valued |-> FALSE, entries |-> Mapped(pair[2])])

DecodeIndex(cells) ==
    As(Both(Cell, LAMBDA rest :
                Counted(LAMBDA more : Both(DecodeValue, ReadNumbers, more), rest), cells),
       LAMBDA pair : [multi_valued |-> pair[1] # 0, entries |-> Mapped(pair[2])])

\* SparseIndex::encode and decode: the dimensions by their names.
EncodeSparse(index) ==
    LET dims == SetToSeq(DOMAIN index)
        posting(d, o) == <<o, index[d][o]>>
        postings(d) == LET own == SetToSeq(DOMAIN index[d])
                       IN  Listed([k \in DOMAIN own |-> posting(d, own[k])])
    IN  Listed([k \in DOMAIN dims |-> PutText(dims[k]) \o postings(dims[k])])

DecodeSparse(cells) ==
    As(Counted(LAMBDA rest : Both(GetText, LAMBDA more :
                    As(Counted(LAMBDA m : Both(Cell, Cell, m), more), Mapped), rest), cells),
       Mapped)

\* FtsIndex::encode and decode, for the lengths and the postings; the tokenizer
\* and the parameters are written in front of them as they are.
EncodeText(index) ==
    LET terms == SetToSeq(DOMAIN index.postings)
        posting(t, o) == <<o>> \o Numbers(index.postings[t][o])
        postings(t) == LET own == SetToSeq(DOMAIN index.postings[t])
                       IN  Listed([k \in DOMAIN own |-> posting(t, own[k])])
    IN  Listed(Cells(index.lengths)) \o
        Listed([k \in DOMAIN terms |-> <<Len(Letters[terms[k]])>> \o Letters[terms[k]]
                                            \o postings(terms[k])])

GetTerm(cells) == Recognized(Counted(Cell, cells), Letters)

DecodeText(cells, tokenizer) ==
    As(Both(LAMBDA rest : Counted(Cell, rest),
            LAMBDA rest : Counted(LAMBDA more : Both(GetTerm, LAMBDA m :
                As(Counted(LAMBDA p : Both(Cell, ReadNumbers, p), m), Mapped), more), rest), cells),
       LAMBDA pair : [docs |-> Len(pair[1]), tokenizer |-> tokenizer,
                      lengths |-> pair[1], postings |-> Mapped(pair[2])])

\* encode_centroids and decode_centroids: the dimension comes from the manifest.
EncodeCentroids(centroids) == FlattenSeq(centroids)
DecodeCentroids(cells, dim) ==
    IF dim = 0 THEN Fail
    ELSE IF Len(cells) % dim # 0 THEN Fail
    ELSE Read([k \in 1..(Len(cells) \div dim) |-> SubSeq(cells, (k - 1) * dim + 1, k * dim)], <<>>)

---------------------------------------------------------------------------
\* An object grows by one record at a time, as a batch is framed.
Init == entries = <<>>

Put(record) ==
    /\ Len(entries) < MaxEntries
    /\ entries' = Append(entries, record)

\* The object is put and the next one begins.
PutObject ==
    /\ entries # <<>>
    /\ entries' = <<>>

Next == PutObject \/ \E record \in Entries : Put(record)

Spec == Init /\ [][Next]_entries

---------------------------------------------------------------------------
\* What must survive being written.

Countable(r) ==
    /\ Cardinality(DOMAIN Attributes(r)) < U16
    /\ \A a \in DOMAIN Attributes(r) : Len(NameBytes[a]) < U16

\* Records whose counts fit their fields are read back as they were written, in
\* order and wherever they stand in the object.  One whose counts wrap is refused
\* with its object or read as another, but it changes no record next to it, and
\* neither what it does nor to which document.
ObjectSurvives ==
    LET read == ReadRecords(FrameRecords(entries)) IN
    /\ (\A k \in DOMAIN entries : Countable(entries[k])) => read.ok
    /\ read.ok =>
          /\ DOMAIN read.value = DOMAIN entries
          /\ \A k \in DOMAIN entries :
                /\ read.value[k].op = entries[k].op /\ read.value[k].id = entries[k].id
                /\ Countable(entries[k]) => read.value[k] = entries[k]

\* An object that lost its end is refused, unless it was cut between two frames:
\* then it reads as the first of its records, and nothing tells the difference.
CutIsNoticed ==
    LET object == FrameRecords(entries)
        first(k) == SubSeq(entries, 1, k)
        known(r, n) ==
            r.ok => \E k \in 0..Len(entries) :
                        Len(FrameRecords(first(k))) = n /\ r.value = first(k) IN
    (\A k \in DOMAIN entries : Countable(entries[k])) =>
        \A n \in 0..Len(object) : known(ReadRecords(SubSeq(object, 1, n)), n)

\* An object is read back whole or as the records it still has.
ObjectsReadBack == ObjectSurvives /\ CutIsNoticed

\* The indexes built over a segment of these documents, read back.
SegmentDocs == SelectSeq(entries, LAMBDA r : r.op = "upsert")
ColumnOf(a) ==
    [o \in {p \in DOMAIN SegmentDocs : a \in DOMAIN Named(SegmentDocs[p].attrs)} |->
        SegmentDocs[o].attrs[a]]
TypedColumn(a, types) ==
    LET c == ColumnOf(a) IN Restrict(c, {o \in DOMAIN c : c[o].type \in types})

Vectors == [k \in DOMAIN SegmentDocs |-> VectorOf(SegmentDocs[k].attrs)]
SameDimension == \A j, k \in DOMAIN Vectors : Len(Vectors[j]) = Len(Vectors[k])

IndexesSurvive ==
    /\ SameDimension /\ Vectors # <<>> =>
          DecodeCentroids(EncodeCentroids(Vectors), Len(Vectors[1]))
              = IF Vectors[1] = <<>> THEN Fail ELSE Read(Vectors, <<>>)
    /\ \A a \in DOMAIN NameBytes :
           LET index == BuildIndex(ColumnOf(a))
               sparse == BuildSparse(TypedColumn(a, {"{}f16"}))
               text == BuildText(TypedColumn(a, {"string", "[]string"}), Len(SegmentDocs),
                                 DefaultTokenizer) IN
           /\ DecodeIndex(EncodeIndex(index)) = Read(index, <<>>)
           /\ DecodeSparse(EncodeSparse(sparse)) = Read(sparse, <<>>)
           /\ DecodeText(EncodeText(text), DefaultTokenizer) = Read(text, <<>>)

\* A value that a client reads as JSON and writes back to an attribute of the
\* same type is the value that was stored.
StoredValues ==
    UNION {{Attributes(entries[k])[a] : a \in DOMAIN Attributes(entries[k])} :
            k \in DOMAIN entries}

EchoIsTheSame ==
    \A v \in StoredValues : Coerce(FromJson(ToJson(v)), v.type) = v

\* The values of one type that compare at all are totally ordered, so that an
\* index sorted by them can be searched, and numbers of different types agree
\* on which is the greater.
Mirror == [equal |-> "equal", less |-> "greater", greater |-> "less", none |-> "none"]

ValuesAreOrdered ==
    \A x, y \in StoredValues :
        /\ Compare(y, x) = Mirror[Compare(x, y)]
        /\ x.type = y.type /\ x.type # "{}f16" =>
              /\ (Compare(x, y) = "equal") = (x = y)
              /\ \A z \in StoredValues :
                    z.type = x.type /\ Compare(x, y) = "less" /\ Compare(y, z) = "less"
                        => Compare(x, z) = "less"

\* The words within `n` edits of one, over the letters there are.
EditsOnce(word, letters) ==
    {word} \cup
    {RemoveAt(word, k) : k \in DOMAIN word} \cup
    {ReplaceAt(word, k, c) : k \in DOMAIN word, c \in letters} \cup
    {InsertAt(word, k, c) : k \in 1..Len(word) + 1, c \in letters}

\* The early exits of levenshtein_within never change its answer: two words of
\* the stored texts are within two edits exactly when two edits lead from one
\* to the other.
StoredWords ==
    {Letters[w] : w \in UNION {ToSet(TokensOf(DefaultTokenizer, v)) :
                                v \in {u \in StoredValues : HasText(u)}}}

FuzzyIsEdits ==
    \A x, y \in StoredWords :
        LET letters == ToSet(x) \cup ToSet(y)
            once == EditsOnce(x, letters)
            twice == UNION {EditsOnce(w, letters) : w \in once} IN
        /\ WithinDistance(x, y, 0) = (x = y)
        /\ WithinDistance(x, y, 1) = (y \in once)
        /\ WithinDistance(x, y, 2) = (y \in twice)

=============================================================================
