------------------------------- MODULE Search -------------------------------
(***************************************************************************)
(* What a namespace answers (store.rs): batches are folded into the schema *)
(* and join the tail, a compaction turns everything into one segment and a *)
(* set of indexes per shard, and a query plans its way through the indexes *)
(* and lays the tail over what it finds.                                   *)
(*                                                                         *)
(* One manifest version at a time: how versions are committed, read and    *)
(* swept is the subject of Namespace and NamespaceReads, so a write and a  *)
(* compaction are single steps here and the whole tail is within the cap.  *)
(***************************************************************************)
EXTENDS AttributeIndex, Ranking, Aggregates

CONSTANTS
    Batches,        \* what may be written: a config and raw records
    ShardOf(_, _),  \* shard_of (from 1): a hash, for an id and a shard count
    MaxTail,        \* bound: records in the tail
    Iterations,     \* IvfParams::iters
    MaxCandidates,  \* PREFILTER_MAX_CANDIDATES
    SurvivorMargin, \* PREFILTER_SURVIVOR_MARGIN
    Requests,       \* the ranked and ordered requests that are asked,
    ByFilter,       \* the filters of delete_by_filter and patch_by_filter, and
    Totals          \* aggregations, each with its groups and filter

\* The records that may be written, as they are read: an id is one integer of its
\* type, and only an upsert has a vector, which may be empty: that of a row of
\* upsert_columns is not looked at.  (As "vector" is no attribute here, nothing is
\* declared for it.)
Written == UNION {ToSet(b.records) : b \in Batches}

VectorOfRecord(r) == IF r.op = "upsert" THEN VectorOf(r.attrs) ELSE <<>>

ASSUME WrittenAssumption ==
    /\ \A b \in Batches : /\ Len(b.records) \in Nat
                          /\ b.records = [k \in 1..Len(b.records) |-> b.records[k]]
                          /\ b.config.num_shards \in Nat
                          /\ "vector" \notin DOMAIN b.config.types \cup DOMAIN b.config.fts
                          /\ Range(b.config.types) \subseteq Types
                          /\ b.config.metric \in Metrics \cup {Undeclared}
    /\ \A r \in Written :
          /\ r.op \in {"upsert", "patch", "delete"}
          /\ r.id.type \in IdTypes
          /\ r.op = "patch" => "vector" \notin DOMAIN r.attrs
          /\ r.op # "delete" => \A a \in DOMAIN r.attrs \ {"vector"} :
                                    r.attrs[a].type \in Types \cup {"null"}
          /\ Len(VectorOfRecord(r)) \in Nat

\* The ids that what is written may be stored under, whichever the first was.
StorableIds == {CoerceId(r.id, t) : r \in Written, t \in IdTypes} \ {NoValue}

ASSUME IdsAssumption ==
    \A i \in StorableIds : i.type \in IdTypes /\ i.items[1] \in Int /\ i.items = <<i.items[1]>>
                           /\ i = TypedValue(i.type, i.items)

ASSUME ShardsAssumption ==
    /\ MaxShards \in Nat \ {0}
    /\ \A i \in StorableIds, n \in 1..MaxShards : ShardOf(i, n) \in 1..n

\* The attribute values that what is written may be stored as.
WrittenValues == UNION {Range(r.attrs) : r \in {q \in Written : q.op # "delete"}}
StorableValues ==
    WrittenValues \cup ({Coerce(v, t) : v \in WrittenValues, t \in Types} \ {NoValue})

\* Numbers and texts are integers.
Numbered(v) == v = TypedValue(v.type, v.items) /\ v.items \in Seq(Int)

ASSUME ValuesAssumption == \A v \in StorableValues : Numbered(v)

\* Every text that may be stored has its words.
ASSUME TextsAssumption ==
    /\ NoText \notin DOMAIN Words
    /\ \A t \in DOMAIN Words : /\ Len(Words[t]) \in Nat
                               /\ Words[t] = [k \in 1..Len(Words[t]) |-> Words[t][k]]
    /\ \A v \in StorableValues : HasText(v) => ToSet(v.items) \subseteq DOMAIN Words

\* The operands of a clause come before it, and a literal is a value, as it is
\* read and as it is fitted to a type.
Postfix(filter) ==
    /\ Len(filter) \in Nat \ {0}
    /\ filter = [n \in 1..Len(filter) |-> filter[n]]
    /\ \A n \in 1..Len(filter) :
          /\ filter[n] = [kind |-> filter[n].kind, key |-> filter[n].key, op |-> filter[n].op,
                          value |-> filter[n].value, parts |-> filter[n].parts]
          /\ filter[n].kind \in {"Cmp", "And", "Or", "Not"}
          /\ filter[n].parts \subseteq 1..n - 1

Literals(filter) == {filter[n].value : n \in DOMAIN filter}

\* The filters of deletes and patches, and those of queries.
GivenFilters == ByFilter \cup ({req.filter : req \in Requests} \ {NoFilter})

ASSUME FiltersAssumption ==
    \A f \in GivenFilters :
        /\ Postfix(f)
        /\ \A v \in Literals(f) :
              /\ Numbered(v)
              /\ \A t \in Types : CoerceOperand(v, t) # NoValue => Numbered(CoerceOperand(v, t))

\* What is asked is as it was read: a vector and the weights of a sparse one are
\* numbers, a text has its words, and a vector is not ordered by.
ASSUME RequestsAssumption ==
    /\ Iterations \in Nat
    /\ \A req \in Requests :
          /\ req.top_k \in Nat /\ req.nprobe \in Nat
          /\ req.vector \in Seq(Int)
          /\ req.sparse # <<>> => req.sparse.vector.items \in Seq(Int)
          /\ req.text # <<>> => req.text.query \in DOMAIN Words
          /\ req.order # <<>> => req.order.attribute # "vector"

VARIABLES
    schema,     \* manifest.schema
    shards,     \* manifest.shards, with the contents of their objects
    tail,       \* the records of the WAL objects, in order
    live        \* ghost: the documents the accepted writes add up to

vars == <<schema, shards, tail, live>>

Docs == INSTANCE Documents WITH Ids <- {}, Attrs <- {}, Values <- {}, Null <- NullValue

---------------------------------------------------------------------------
\* A shard: its documents in the order of their ids, and, once it has any, the
\* indexes over them.  Shard::default has neither.
NoIndexes == [docs |-> 0, dim |-> 0, clusters |-> <<>>, attributes |-> Nothing,
              fts |-> Nothing, sparse |-> Nothing]
EmptyShard == [segment |-> <<>>, indexed |-> FALSE, index |-> NoIndexes]

\* The documents of a segment that have an attribute, by ordinal.
Column(docs, a) ==
    [o \in {p \in DOMAIN docs : a \in DOMAIN docs[p].attrs} |-> docs[o].attrs[a]]

Filled(indexes, entries(_)) ==
    Restrict(indexes, {a \in DOMAIN indexes : DOMAIN entries(indexes[a]) # {}})

BuildIndexes(docs, s) ==
    LET texts(a) == LET c == Column(docs, a)
                    IN  Restrict(c, {o \in DOMAIN c : HasText(c[o])})
        weights(a) == LET c == Column(docs, a)
                      IN  Restrict(c, {o \in DOMAIN c : c[o].type = "{}f16"})
        sparse == {a \in DOMAIN s.attributes : s.attributes[a] = "{}f16"} IN
    [docs |-> Len(docs),
     dim |-> Len(VectorOf(docs[1].attrs)),
     clusters |-> BuildClusters([o \in DOMAIN docs |-> VectorOf(docs[o].attrs)],
                                Iterations, s.metric),
     attributes |-> Filled([a \in DOMAIN s.attributes |-> BuildIndex(Column(docs, a))],
                           LAMBDA index : index.entries),
     fts |-> Filled([a \in DOMAIN s.fts |-> BuildText(texts(a), Len(docs), s.fts[a])],
                    LAMBDA index : index.postings),
     sparse |-> Filled([a \in sparse |-> BuildSparse(weights(a))], LAMBDA index : index)]

\* build_shard.
BuildShard(docs, s) ==
    IF docs = <<>> THEN EmptyShard
    ELSE [segment |-> docs, indexed |-> TRUE, index |-> BuildIndexes(docs, s)]

\* The documents of a live set by shard, in the order of their ids.
Buckets(documents, s) ==
    LET count == ShardCount(s)
        bucket(n) == {[op |-> "upsert", id |-> i, attrs |-> documents[i]] :
                        i \in {j \in DOMAIN documents : ShardOf(j, count) = n}}
    IN  [n \in 1..count |-> SortedBy(bucket(n), LAMBDA a, b : IdBefore(a.id, b.id))]

\* index::build refuses documents whose vectors are not of one length.
Indexable(docs) ==
    \A k \in DOMAIN docs : Len(VectorOf(docs[k].attrs)) = Len(VectorOf(docs[1].attrs))

BuildShards(buckets, s) == [n \in DOMAIN buckets |-> BuildShard(buckets[n], s)]

Segments == FlattenSeq([n \in DOMAIN shards |-> shards[n].segment])

\* all_records, materialized.
Materialized == Docs!Materialize(Segments \o tail)

HasData == tail # <<>> \/ Segments # <<>>

---------------------------------------------------------------------------
Init ==
    /\ schema = EmptySchema
    /\ shards = <<>>
    /\ tail = <<>>
    /\ live = Docs!NoDocs

\* commit_records.
Write(batch) ==
    /\ Len(tail) + Len(batch.records) <= MaxTail
    /\ \E prepared \in {Prepared(schema, batch.records, batch.config, HasData)} :
          /\ prepared.ok
          /\ schema' = prepared.schema
          /\ tail' = tail \o prepared.records
          /\ live' = Docs!Replay(live, prepared.records)
    /\ UNCHANGED shards

\* (Variant: what the last segments held is left out.)
CompactTailOnly ==
    /\ \/ tail # <<>> \/ shards = <<>>
       \/ \E n \in DOMAIN shards : ~shards[n].indexed
    /\ \E buckets \in {Buckets(Docs!Materialize(tail), schema)} :
          /\ \A n \in DOMAIN buckets : Indexable(buckets[n])
          /\ shards' = BuildShards(buckets, schema)
    /\ tail' = <<>>
    /\ UNCHANGED <<schema, live>>

\* compact(true), as every caller asks for: not when everything is indexed.
Compact ==
    /\ \/ tail # <<>> \/ shards = <<>>
       \/ \E n \in DOMAIN shards : ~shards[n].indexed
    /\ \E buckets \in {Buckets(Materialized, schema)} :
          /\ \A n \in DOMAIN buckets : Indexable(buckets[n])
          /\ shards' = BuildShards(buckets, schema)
    /\ tail' = <<>>
    /\ UNCHANGED <<schema, live>>

Next == Compact \/ \E batch \in Batches : Write(batch)

Spec == Init /\ [][Next]_vars

---------------------------------------------------------------------------
\* Queries.  A request has a vector, a text or sparse query, an order, any of
\* them absent (<<>>), a filter, top_k, nprobe and what to include.

Failure == [ok |-> FALSE, hits |-> <<>>, indexed |-> FALSE, prefiltered |-> FALSE]
Answer(hits, indexed, prefiltered) ==
    [ok |-> TRUE, hits |-> hits, indexed |-> indexed, prefiltered |-> prefiltered]

\* should_prefilter.
ShouldPrefilter(candidates, docs, clusters, nprobe, top_k) ==
    LET probes == IF nprobe = 0 THEN 1 ELSE nprobe
        least1(n) == IF n = 0 THEN 1 ELSE n
        probed == least1((docs * probes) \div clusters) IN
    /\ candidates <= MaxCandidates
    /\ \/ clusters = 0
       \/ docs = 0
       \/ candidates <= probed
       \/ probed * candidates < docs * (least1(top_k) * SurvivorMargin)

Scored(documents, req, filter) ==
    TopK(documents, req.vector, req.top_k, filter, req.include, schema.metric, schema.fts)

\* push_hit, for a document and the score it got.
HitOf(i, attrs, score, req) ==
    [id |-> i, score |-> score, attrs |-> Project(req.include, attrs)]

\* (Variant: the postings of a document are trusted whatever the tail did to it.)
NoneTouched(records) == {}

\* overlay: the documents whose postings are stale.
Touched(records) == {records[k].id : k \in DOMAIN records}

\* Ranking by an inverted index: postings count for the documents the tail does
\* not touch, and the ones it does touch are scored as they are now (untouched,
\* push_hit).
RankedFrom(shard, records, now, req, filter, scores, rescored) ==
    LET touched == Touched(records)
        postings == {p \in DOMAIN scores : shard.segment[p].id \in DOMAIN now \ touched}
        recent == {i \in touched \cap DOMAIN now : rescored[i] # 0}
        found == {[id |-> shard.segment[o].id, score |-> scores[o]] : o \in postings}
            \cup {[id |-> i, score |-> rescored[i]] : i \in recent}
        kept == {h \in found : Matches(filter, now[h.id], schema.fts)}
    IN  Answer(Best({HitOf(h.id, now[h.id], h.score, req) : h \in kept}, req.top_k),
               TRUE, FALSE)

SparseHits(shard, records, req, filter) ==
    LET a == req.sparse.attribute
        v == req.sparse.vector
        now == Docs!Materialize(shard.segment \o records)
        rescored(attrs) ==
            IF ValueAt(attrs, a).type = "{}f16" THEN SparseDot(attrs[a], v) ELSE 0
    IN  IF ~shard.indexed \/ a \notin DOMAIN shard.index.sparse THEN Failure
        ELSE RankedFrom(shard, records, now, req, filter,
                        SparseScores(shard.index.sparse[a], v),
                        [i \in DOMAIN now |-> rescored(now[i])])

TextHits(shard, records, req, filter) ==
    LET a == req.text.attribute
        index == shard.index.fts[a]
        now == Docs!Materialize(shard.segment \o records)
        rescored(attrs) ==
            IF HasText(ValueAt(attrs, a)) THEN TextScore(index, attrs[a], req.text.query) ELSE 0
    IN  IF ~shard.indexed \/ a \notin DOMAIN shard.index.fts THEN Failure
        ELSE RankedFrom(shard, records, now, req, filter,
                        TextScores(index, req.text.query),
                        [i \in DOMAIN now |-> rescored(now[i])])

\* The documents a plan looked at, with the records of the tail applied.
Overlaid(shard, ordinals, records) ==
    Docs!Materialize(SortedBy({shard.segment[o] : o \in ordinals},
                                  LAMBDA a, b : IdBefore(a.id, b.id)) \o records)

\* What the indexes of a shard make of a filter.  (load_attr_indexes gives
\* `evaluate` those of the filter's attributes, the only ones it looks at.)
SelectionOf(shard, filter) == Evaluate(filter, shard.index.attributes, shard.index.docs)

Prefilters(shard, sel, req) ==
    sel.bounded /\ ShouldPrefilter(Cardinality(sel.ordinals), shard.index.docs,
                                   Len(shard.index.clusters), req.nprobe, req.top_k)

\* The documents of the clusters that are probed.
Probed(index, req) ==
    UNION {index.clusters[c].docs :
              c \in Probe(index.clusters, req.vector, req.nprobe, schema.metric)}

\* shard_hits by vector; `sel` is what the indexes make of the filter.
VectorHits(shard, records, req, filter, sel) ==
    LET among(documents) == Scored(documents, req, filter) IN
    CASE ~shard.indexed ->
            Answer(among(Docs!Materialize(shard.segment \o records)), FALSE, FALSE)
      [] shard.indexed /\ filter # NoFilter /\ Prefilters(shard, sel, req) ->
            Answer(among(Overlaid(shard, sel.ordinals, records)), TRUE, TRUE)
      [] OTHER ->
            IF shard.index.dim \notin {Len(req.vector)} \ {0} THEN Failure
            ELSE Answer(among(Overlaid(shard, Probed(shard.index, req), records)), TRUE, FALSE)

\* shard_hits.
ShardHits(shard, records, req, filter) ==
    CASE req.sparse # <<>> -> SparseHits(shard, records, req, filter)
      [] req.sparse = <<>> /\ req.text # <<>> -> TextHits(shard, records, req, filter)
      [] OTHER -> VectorHits(shard, records, req, filter, SelectionOf(shard, filter))

\* The shards that answer: one empty shard before the first compaction.
Resident == IF shards = <<>> THEN <<EmptyShard>> ELSE shards

\* The records of the tail that hash to a shard.
OfShard(n) == Kept(tail, LAMBDA r : ShardOf(r.id, ShardCount(schema)) = n)

\* The tail a shard sees: its own records, or all of them to a lone shard.
\* (Variant: every shard sees the whole tail.)
WholeTail(n) == tail

ShardTail(n) ==
    IF ShardCount(schema) <= 1 \/ Len(Resident) <= 1 THEN tail
    ELSE OfShard(n)

\* The shards' answers merged: the same hit of two shards is there twice.
Merged(own, top_k) ==
    LET hits == UNION {{<<h, n>> : h \in ToSet(own[n].hits)} : n \in DOMAIN own}
        sorted == SortedBy(hits,
                    LAMBDA a, b : HitBefore(a[1], b[1]) \/ (a[1] = b[1] /\ a[2] < b[2]))
        first == Truncated(sorted, top_k)
    IN  IF \E n \in DOMAIN own : ~own[n].ok THEN Failure
        ELSE Answer([k \in DOMAIN first |-> first[k][1]],
                    \E n \in DOMAIN own : own[n].indexed,
                    \A n \in DOMAIN own : own[n].prefiltered)

\* query, for a ranked request.
Ranked(req, filter) ==
    Merged([n \in DOMAIN Resident |-> ShardHits(Resident[n], ShardTail(n), req, filter)],
           req.top_k)

\* query.
Queried(req) ==
    LET filter == CoerceFilter(req.filter, schema.attributes) IN
    IF \/ Rejected(filter)
       \/ req.vector # <<>> /\ schema.dim # 0 /\ Len(req.vector) # schema.dim
    THEN Failure
    ELSE IF req.order # <<>>
    THEN Answer(OrderBy(Materialized, req.order, req.top_k, filter, req.include, schema.fts),
                FALSE, FALSE)
    ELSE Ranked(req, filter)

\* query_brute: the oracle the tests compare with.
QueryBrute(req) ==
    LET filter == CoerceFilter(req.filter, schema.attributes) IN
    TopK(Materialized, req.vector, req.top_k, filter, req.include, schema.metric, schema.fts)

\* (Variant: the whole tail goes to every shard.)
EveryTail(n) == tail

\* The records of the tail that are aggregated with shard n.
AggregatedTail(n) ==
    IF ShardCount(schema) <= 1 THEN tail
    ELSE OfShard(n)

\* The aggregations of a query: one shard after the other.
Aggregation(aggs, group_by, request_filter) ==
    LET filter == CoerceFilter(request_filter, schema.attributes)
        documents(n) == Docs!Materialize(shards[n].segment \o AggregatedTail(n))
        matching(d) == Restrict(d, {i \in DOMAIN d : Matches(filter, d[i], schema.fts)})
        parts == IF shards = <<>> THEN <<Docs!Materialize(tail)>>
                 ELSE [n \in DOMAIN shards |-> documents(n)]
    IN  Finish(FoldLeft(LAMBDA state, d : FeedAll(state, aggs, group_by, matching(d)),
                        NoGroups, parts),
               aggs, group_by)

\* (Variant: the indexes are asked whatever the tail holds.)
Untailed == shards # <<>>

\* When the indexes alone can say which documents match.
AllIndexed == tail = <<>> /\ shards # <<>>

\* ids_matching without a cap, for delete_by_filter and patch_by_filter: from
\* the indexes when they are exact and there is no tail.
IdsMatching(request_filter) ==
    LET filter == CoerceFilter(request_filter, schema.attributes)
        selected(sel) == UNION {{shards[n].segment[o].id : o \in sel[n].ordinals} :
                                    n \in DOMAIN sel}
        scanned(docs) == {i \in DOMAIN docs : Matches(filter, docs[i], schema.fts)}
        usable(sel) == \A n \in DOMAIN sel :
                            shards[n].indexed /\ sel[n].bounded /\ sel[n].exact
        chosen(sel) == IF AllIndexed /\ usable(sel) THEN selected(sel) ELSE scanned(Materialized)
    IN  chosen([n \in DOMAIN shards |-> SelectionOf(shards[n], filter)])

---------------------------------------------------------------------------
\* What the queries promise.

\* All of a namespace's documents agree with its schema: ids, vectors and every
\* attribute value.  (A later declaration or a later first value must not turn
\* what is stored into something else.)  A document may be without a vector in a
\* namespace that has a dimension: absorb_vector refuses that only once there is
\* one, and then a compaction may fail (index::build).
StoredAsDeclared ==
    \A i \in DOMAIN live :
        /\ i.type = schema.id_type
        /\ Len(VectorOf(live[i])) \in {0, schema.dim}
        /\ \A a \in DOMAIN Named(live[i]) :
              ~IsNull(live[i][a]) => live[i][a].type = schema.attributes[a]

\* Segments and tail add up to the documents written, whatever was compacted
\* before, and every segment is sorted by id.
SegmentsAndTailAreLive ==
    /\ Materialized = live
    /\ \A n \in DOMAIN shards : \A o \in 1..Len(shards[n].segment) - 1 :
            IdBefore(shards[n].segment[o].id, shards[n].segment[o + 1].id)

\* When the index over an attribute of a type can stand for the scan: a lookup
\* takes values that do not compare for equal, so the literals must have the type
\* of the entries, and an array is entered by its elements, so only what asks for
\* an element can be asked of it.
Faithful(op, value, type) ==
    LET alike(v) == v.type = ElementType(type) /\ type # "{}f16"
        scalar == type \notin Arrays IN
    CASE op = "Eq" -> scalar /\ ~IsNull(value) => alike(value)
      [] op \in Orderings -> scalar \/ value.type # type
      [] op = "In" -> scalar /\ \A e \in Elements(value) : alike(e)
      [] op = "ContainsAny" -> \A e \in Elements(value) : alike(e)
      [] op = "Contains" -> scalar \/ (type \in {"[]string", "[]uint"} /\ alike(value))
      [] op \in {"Glob", "IGlob", "Regex"} -> scalar
      [] OTHER -> TRUE

\* The filters that are asked of indexes over what they were meant for.
Answerable ==
    {f \in GivenFilters :
        LET filter == CoerceFilter(f, schema.attributes) IN
        /\ ~Rejected(filter)
        /\ \A n \in DOMAIN filter :
              filter[n].kind = "Cmp" /\ filter[n].key \in DOMAIN schema.attributes
                => Faithful(filter[n].op, filter[n].value, schema.attributes[filter[n].key])}

TailHasPatches == \E k \in DOMAIN tail : tail[k].op = "patch"
ByVector(req) == req.sparse = <<>> /\ req.text = <<>> /\ req.order = <<>>
FullProbe(req) == \A n \in DOMAIN shards : req.nprobe >= Len(shards[n].index.clusters)

SameHits(a, hits) == a.ok => a.hits = hits
AsBrute(req) == SameHits(Queried(req), QueryBrute(req))

\* Where every cluster is probed, a query that is answered is answered as an
\* exhaustive scan of the documents would be; with a filter, when the indexes can
\* be asked for it and the tail patches no document.
IndexedIsBrute ==
    \A req \in Requests :
        ByVector(req) /\ FullProbe(req)
        /\ (req.filter = NoFilter \/ (req.filter \in Answerable /\ ~TailHasPatches))
            => AsBrute(req)

\* With a filter, when the tail patches a document too: "The tail still
\* overrides: it may add matches the index never saw, or remove ones it did."
TailAddsMatches ==
    \A req \in Requests : ByVector(req) /\ FullProbe(req) => AsBrute(req)

\* The documents that match, as the accepted writes left them.
Selects(request_filter, i) ==
    Matches(CoerceFilter(request_filter, schema.attributes), live[i], schema.fts)
Selected(request_filter) == {i \in DOMAIN live : Selects(request_filter, i)}

AreLive(hits, req) ==
    /\ Cardinality({hits[k].id : k \in DOMAIN hits}) = Len(hits)
    /\ \A k \in DOMAIN hits :
          /\ hits[k].id \in DOMAIN live
          /\ Selects(req.filter, hits[k].id)
          /\ hits[k].attrs = Project(req.include, live[hits[k].id])

\* No answer has a document twice, one that is gone, one its filter excludes
\* or attributes it no longer has, however many shards and plans it came from.
HitsAreLive == \A req \in Requests : AreLive(Queried(req).hits, req)

\* A text query that is answered finds every document that shares a token with
\* it, and a sparse query every one that shares a dimension: the documents the
\* tail changed as well as the ones only the index knows.
Shares(req, attrs) ==
    IF req.sparse # <<>>
    THEN LET v == ValueAt(attrs, req.sparse.attribute)
         IN  v.type = "{}f16" /\ SparseDot(v, req.sparse.vector) # 0
    ELSE LET v == ValueAt(attrs, req.text.attribute)
             tokenizer == schema.fts[req.text.attribute]
         IN  HasText(v) /\ ToSet(TokensOf(tokenizer, v))
                                \cap ToSet(Tokenize(tokenizer, req.text.query)) # {}

FindsAll(hits, found, req) ==
    /\ Len(hits) = LeastOf({req.top_k, Cardinality(found)})
    /\ \A k \in DOMAIN hits : hits[k].id \in found

FindsShared(a, req) ==
    a.ok => FindsAll(a.hits, {i \in Selected(req.filter) : Shares(req, live[i])}, req)

\* An ordered answer has the documents that match, in order, the ones without
\* the attribute after all others in both directions.
InOrder(a, req) ==
    LET key(k) == ValueAt(live[a.hits[k].id], req.order.attribute)
        wrong == IF req.order.descending THEN "less" ELSE "greater" IN
    a.ok =>
        /\ FindsAll(a.hits, Selected(req.filter), req)
        /\ \A j, k \in DOMAIN a.hits : j < k =>
              IF IsNull(key(j)) \/ IsNull(key(k)) THEN IsNull(key(k))
              ELSE Compare(key(j), key(k)) # wrong

\* Whatever a text, a sparse or an ordered query ranks by, it leaves out nothing
\* it should have found, the documents the tail changed included.
AnswersAreComplete ==
    \A req \in {r \in Requests : ~ByVector(r)} :
        IF req.order = <<>> THEN FindsShared(Queried(req), req) ELSE InOrder(Queried(req), req)

Covers(sel, matching) ==
    sel.bounded =>
        /\ matching \subseteq sel.ordinals
        /\ sel.exact => sel.ordinals = matching

\* What the indexes of a shard make of a filter is never less than the documents
\* that match it, and exactly those when it says so.
SelectionsCover ==
    \A f \in Answerable, n \in DOMAIN shards :
        LET filter == CoerceFilter(f, schema.attributes) IN
        Covers(SelectionOf(shards[n], filter),
               {o \in DOMAIN shards[n].segment :
                    Matches(filter, shards[n].segment[o].attrs, schema.fts)})

\* A delete or patch by filter is applied to the documents that match.
ByFilterIsExact == \A f \in Answerable : IdsMatching(f) = Selected(f)

\* The number of shards the manifest has is the number the schema says, if any.
ShardsSettled == Len(shards) \in {0, ShardCount(schema)}

\* `result` has every group of the documents that match, and over each of them
\* what its label asks for.
TotalsAreOf(total, result, matching) ==
    LET within(g) == {i \in matching : g \in GroupsOf(total.group_by, live[i])}
        held(g, a) == {i \in within(g) : ~IsNull(ValueAt(live[i], a))}
        key(i, a) == live[i][a]
        right(acc, agg, g) ==
            LET own == held(g, agg.attribute) IN
            CASE agg.function = "Count" /\ agg.attribute = NoAttribute ->
                    acc.items = <<Cardinality(within(g))>>
              [] agg.function = "Count" /\ agg.attribute # NoAttribute ->
                    acc.items = <<Cardinality(own)>>
              [] agg.function = "Sum" ->
                    acc.items = <<MapThenSumSet(LAMBDA i : key(i, agg.attribute).items[1], own)>>
              [] agg.function \in {"Min", "Max"} ->
                    IF own = {} THEN IsNull(acc)
                    ELSE /\ \E i \in own : SameValue(acc, key(i, agg.attribute))
                         /\ \A i \in own : Compare(key(i, agg.attribute), acc) #
                                IF agg.function = "Min" THEN "less" ELSE "greater" IN
    result.ok =>
        /\ UNION {GroupsOf(total.group_by, live[i]) : i \in matching}
                \subseteq DOMAIN result.groups
        /\ \A g \in DOMAIN result.groups : \A l \in DOMAIN total.aggs :
              right(result.groups[g][l], total.aggs[l], g)

\* An aggregation is over every document that matches, each counted once.
EveryDocumentCounted ==
    ShardsSettled =>
        \A total \in Totals :
            TotalsAreOf(total, Aggregation(total.aggs, total.group_by, total.filter),
                        Selected(total.filter))

\* The term index and the scan read the same tokens: a document has all of a
\* query's tokens, or has them in sequence, in one exactly when in the other.
TermIndexAgrees ==
    \A n \in DOMAIN shards : \A a \in DOMAIN shards[n].index.fts :
        LET index == shards[n].index.fts[a]
            scan(op, text) == {o \in DOMAIN shards[n].segment :
                EvalFullText(ValueAt(shards[n].segment[o].attrs, a), op,
                             TypedValue("string", <<text>>), index.tokenizer)} IN
        \A text \in DOMAIN Words :
            /\ AllTokens(index, text) = scan("ContainsAllTokens", text)
            /\ Len(Query(index, text)) # 1 =>
                    TokenSequence(index, text) = scan("ContainsTokenSequence", text)

\* No index over a segment answers for fewer documents than match, neither those
\* over values nor those over tokens.
IndexesAgree == SelectionsCover /\ TermIndexAgrees

=============================================================================
