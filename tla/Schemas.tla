------------------------------ MODULE Schemas ------------------------------
(***************************************************************************)
(* A namespace's declared shape (Schema in doc.rs): inferred from the first*)
(* write that carries each piece of it, enforced from then on, and carried *)
(* in the manifest.  A batch is folded into the schema, and coerced by it, *)
(* inside the commit loop (commit_records in store.rs).                    *)
(*                                                                         *)
(* The vector of a document is kept among its attributes, under the name   *)
(* "vector", as a value of type "vector".                                  *)
(***************************************************************************)
EXTENDS TypedValues, SequencesExt

CONSTANT MaxShards  \* the most shards a namespace may have

Undeclared == "undeclared"
NoVector == TypedValue("vector", <<>>)

\* A map with no keys.
Nothing == [k \in {} |-> Undeclared]

EmptySchema == [attributes |-> Nothing, id_type |-> Undeclared,
                metric |-> "cosine_distance", dim |-> 0, num_shards |-> 0,
                fts |-> Nothing, embed |-> Nothing]

\* What a write request may declare (WriteConfig).
EmptyConfig == [metric |-> Undeclared, types |-> Nothing, fts |-> Nothing,
                num_shards |-> 0, embed |-> Nothing]

\* Schema::shards.
ShardCount(schema) == IF schema.num_shards = 0 THEN 1 ELSE schema.num_shards

---------------------------------------------------------------------------
\* Document ids: unsigned integers, uuids or strings.
IdTypes == {"uint", "uuid", "string"}

\* Id::deserialize; a string that looks like a uuid is still a string.
IdFromJson(j) ==
    CASE j.type = "number" /\ j.items[1] >= 0 -> TypedValue("uint", j.items)
      [] j.type = "string"                    -> j
      [] OTHER                                -> NoValue

\* Id::coerce.
CoerceId(id, type) ==
    CASE id.type = type -> id
      [] id.type = "string" /\ type \in {"uuid", "uint"} ->
            IF id.items[1] \in DOMAIN Parsed[type]
               THEN TypedValue(type, <<Parsed[type][id.items[1]]>>) ELSE NoValue
      [] type = "string" /\ id.type # type ->
            TypedValue("string", <<Rendered[id.type][id.items[1]]>>)
      [] OTHER -> NoValue

---------------------------------------------------------------------------
\* Folding a batch in.  Every step gives the schema after it, the coerced
\* records so far, and whether all was well.

Folding(schema) == [ok |-> TRUE, schema |-> schema, records |-> <<>>]

AbsorbId(schema, id) ==
    IF schema.id_type = Undeclared THEN id ELSE CoerceId(id, schema.id_type)

\* absorb_vector: once a document has a vector, the ones after it have one as long.
VectorFits(schema, attrs) ==
    LET size == IF "vector" \in DOMAIN attrs THEN Len(attrs["vector"].items) ELSE 0
    IN  size = schema.dim \/ schema.dim = 0

\* (Variant: a value keeps the type it was read as.)
AbsorbAsRead(schema, attrs) == attrs

\* absorb_attrs: a known attribute is coerced.
AbsorbAttrs(schema, attrs) ==
    [a \in DOMAIN attrs |->
        IF a \in DOMAIN schema.attributes
           THEN Coerce(attrs[a], schema.attributes[a]) ELSE attrs[a]]

\* ... and an unknown one gets its type from its first value that is not null.
Learned(schema, attrs) ==
    LET new == {a \in DOMAIN attrs \ DOMAIN schema.attributes :
                    a # "vector" /\ ~IsNull(attrs[a])}
    IN  [a \in DOMAIN schema.attributes \cup new |->
            IF a \in new THEN attrs[a].type ELSE schema.attributes[a]]

AbsorbRecord(folding, r) ==
    LET schema == folding.schema
        id == AbsorbId(schema, r.id)
        attrs == IF r.op = "delete" THEN Nothing ELSE AbsorbAttrs(schema, r.attrs)
        fits == r.op = "upsert" => VectorFits(schema, r.attrs)
        vectored == r.op = "upsert" /\ "vector" \in DOMAIN r.attrs
        known == [schema EXCEPT
            !.id_type = IF @ = Undeclared THEN r.id.type ELSE @,
            !.dim = IF vectored THEN Len(r.attrs["vector"].items) ELSE @,
            !.attributes = Learned(schema, attrs)] IN
    [ok |-> folding.ok /\ fits /\ id # NoValue
              /\ \A a \in DOMAIN attrs : attrs[a] # NoValue,
     schema |-> known,
     records |-> Append(folding.records,
        IF r.op = "delete" THEN [op |-> "delete", id |-> id]
                           ELSE [op |-> r.op, id |-> id, attrs |-> attrs])]

\* Schema::absorb.
Absorb(schema, records) ==
    LET after[k \in 0..Len(records)] ==
            IF k = 0 THEN Folding(schema) ELSE AbsorbRecord(after[k - 1], records[k])
    IN  after[Len(records)]

---------------------------------------------------------------------------
\* Declarations: what is there already may be repeated and not changed
\* (declare, declare_fts, declare_embed).
Conflicts(existing, declared) ==
    \E k \in DOMAIN existing \cap DOMAIN declared : existing[k] # declared[k]

Adopt(existing, declared) ==
    [k \in DOMAIN existing \cup DOMAIN declared |->
        IF k \in DOMAIN declared THEN declared[k] ELSE existing[k]]

\* set_shards: fixed once, and only while nothing is stored.
ShardsSettable(schema, requested, has_data) ==
    \/ requested = 0
    \/ /\ requested <= MaxShards
       /\ IF schema.num_shards = 0 THEN ~has_data ELSE schema.num_shards = requested

\* set_metric.
MetricSettable(schema, requested, has_data) ==
    \/ requested = Undeclared
    \/ has_data => schema.metric = requested

\* What a commit makes of a batch over a manifest: the configuration first,
\* then the records, and the batch is refused whole if any of it is.
Prepared(schema, records, config, has_data) ==
    LET configured == [schema EXCEPT
            !.metric = IF config.metric = Undeclared THEN @ ELSE config.metric,
            !.attributes = Adopt(@, config.types),
            !.fts = Adopt(@, config.fts),
            !.num_shards = IF config.num_shards = 0 THEN @ ELSE config.num_shards,
            !.embed = Adopt(@, config.embed)]
        absorbed == Absorb(configured, records) IN
    [absorbed EXCEPT !.ok =
        /\ @
        /\ MetricSettable(schema, config.metric, has_data)
        /\ ShardsSettable(schema, config.num_shards, has_data)
        /\ ~Conflicts(schema.attributes, config.types)
        /\ ~Conflicts(schema.fts, config.fts)
        /\ ~Conflicts(schema.embed, config.embed)]

=============================================================================
