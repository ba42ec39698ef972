------------------------------ MODULE CompatApi -----------------------------
(***************************************************************************)
(* The compatible API (compat.rs, wire.rs, embed.rs and the handlers of    *)
(* server.rs): what becomes of a write request on its way to the committer,*)
(* with its waits for the embedding endpoint and for the reads of its      *)
(* filters, and of a query and its answer on their way through the engine. *)
(*                                                                         *)
(* Requests wait while others commit.  A commit is the single step of      *)
(* Search; coalescing is the subject of Committer.                         *)
(***************************************************************************)
EXTENDS Search

CONSTANTS
    Callers,        \* requests in flight
    Bodies,         \* write requests
    V2Queries,      \* queries
    AttributeOrder, \* attribute names, sorted
    Embedding,      \* [model -> [input -> vector]], for a sequence of texts (external)
    TailLimit,      \* WRITE_BACKPRESSURE_BYTES, in records
    MaxByFilter,    \* MAX_DELETE_BY_FILTER_ROWS, MAX_PATCH_BY_FILTER_ROWS
    RrfScale        \* one, in the units of fused scores

ASSUME LimitsAssumption == TailLimit \in Nat \ {0} /\ MaxByFilter \in Nat \ {0}

ASSUME BodiesAssumption ==
    \A body \in Bodies : /\ Len(body.rows) \in Nat
                         /\ body.rows = [k \in 1..Len(body.rows) |-> body.rows[k]]

VARIABLE calls      \* [Callers -> a request in flight, or Idle]

Idle == [phase |-> "idle"]

---------------------------------------------------------------------------
\* Write requests.  Rows carry JSON; the vector of a row is a list of one or none.

EmptyBody ==
    [native |-> FALSE, rows |-> <<>>, columns |-> Nothing, patches |-> <<>>,
     patch_columns |-> Nothing, deletes |-> <<>>, delete_by_filter |-> NoFilter,
     patch_by_filter |-> NoFilter, patch |-> Nothing, config |-> EmptyConfig]

\* V2Write::is_empty and WriteRequest::is_empty.
IsEmpty(body) ==
    /\ body.rows = <<>> /\ body.columns = Nothing
    /\ body.patches = <<>> /\ body.patch_columns = Nothing
    /\ body.deletes = <<>>
    /\ body.delete_by_filter = NoFilter /\ body.patch_by_filter = NoFilter

\* A row as it is deserialized.
ParsedRow(row) ==
    [id |-> IdFromJson(row.id), vector |-> row.vector,
     attrs |-> [a \in DOMAIN row.attrs |-> FromJson(row.attrs[a])]]

Readable(row) == row.id # NoValue /\ \A a \in DOMAIN row.attrs : row.attrs[a] # NoValue

ParsedRows(rows) == [k \in DOMAIN rows |-> ParsedRow(rows[k])]

\* Columns::transpose: the columns must be of one length, and a null is no value.
Ragged(columns) ==
    \/ "id" \notin DOMAIN columns
    \/ \E c \in DOMAIN columns : Len(columns[c]) # Len(columns["id"])

Transposed(columns) ==
    LET cell(a, n) == FromJson(columns[a][n])
        present(n) == {a \in DOMAIN columns \ {"id", "vector"} : ~IsNull(cell(a, n))}
        vector(n) == IF "vector" \in DOMAIN columns /\ ~IsNull(columns["vector"][n])
                     THEN <<columns["vector"][n].items>> ELSE <<>> IN
    [n \in DOMAIN columns["id"] |->
        [id |-> IdFromJson(columns["id"][n]), vector |-> vector(n),
         attrs |-> [a \in present(n) |-> cell(a, n)]]]

Rowed(columns) ==
    IF columns = Nothing \/ Ragged(columns) THEN <<>> ELSE Transposed(columns)

---------------------------------------------------------------------------
\* Embedding on write.

\* The declaration of the request if it has any, else that of the namespace.
EmbedSpec(body) == IF body.config.embed = Nothing THEN schema.embed ELSE body.config.embed

\* The text a row is embedded by: its first declared attribute that has text.
EmbedSources(row, spec) ==
    SelectSeq(AttributeOrder,
              LAMBDA a : a \in DOMAIN spec \cap DOMAIN row.attrs /\ HasText(row.attrs[a]))

TextOf(row, spec) == row.attrs[Head(EmbedSources(row, spec))].items

\* rows_needing_embedding: the positions of the rows without a vector.
NeedingEmbedding(rows, spec) ==
    SortedBy({k \in DOMAIN rows : rows[k].vector = <<>> /\ EmbedSources(rows[k], spec) # <<>>},
             LAMBDA j, k : j < k)

\* The model asked for: that of the first declared attribute.
ModelOf(spec) ==
    LET declared == SelectSeq(AttributeOrder, LAMBDA a : a \in DOMAIN spec)
    IN  spec[Head(declared)]

\* What the endpoint may answer for some texts: a vector for the input each
\* datum names, in any order, with repetitions, or one too many.  (external)
Data(model, texts) ==
    {[index |-> k, vector |-> Embedding[model][texts[k]]] : k \in DOMAIN texts} \cup
    {[index |-> Len(texts) + 1, vector |-> <<0>>], [index |-> 1, vector |-> <<>>]}
Answers(model, texts) == UNION {[1..n -> Data(model, texts)] : n \in 1..Len(texts)}

\* HttpEmbedder::embed: one vector for each text, each where its index says.
Acceptable(answer, texts) ==
    /\ Len(answer) = Len(texts)
    /\ {answer[k].index : k \in DOMAIN answer} = DOMAIN texts
    /\ \A k \in DOMAIN answer : answer[k].vector # <<>>

\* (Variant: in the order they arrive.)
PlacedAsArrived(answer) == [k \in DOMAIN answer |-> answer[k].vector]

Placed(answer) ==
    [k \in DOMAIN answer |->
        answer[CHOOSE m \in DOMAIN answer : answer[m].index = k].vector]

\* attach_vectors.
Attached(rows, pending, vectors) ==
    [k \in DOMAIN rows |->
        IF k \in ToSet(pending)
        THEN [rows[k] EXCEPT !.vector = <<vectors[CHOOSE m \in DOMAIN pending : pending[m] = k]>>]
        ELSE rows[k]]

---------------------------------------------------------------------------
\* assemble: every form of write as records, the filters' first.

Deleted(ids) == [k \in DOMAIN ids |-> [op |-> "delete", id |-> ids[k]]]
PatchedWith(ids, attrs) ==
    [k \in DOMAIN ids |-> [op |-> "patch", id |-> ids[k], attrs |-> attrs]]
VectorSent(row) == FlattenSeq(row.vector)
Upserted(rows) ==
    [k \in DOMAIN rows |->
        [op |-> "upsert", id |-> rows[k].id,
         attrs |-> "vector" :> TypedValue("vector", VectorSent(rows[k])) @@ rows[k].attrs]]
PatchRows(rows) ==
    [k \in DOMAIN rows |-> [op |-> "patch", id |-> rows[k].id, attrs |-> rows[k].attrs]]

PatchOf(body) == [a \in DOMAIN body.patch |-> FromJson(body.patch[a])]
ExplicitDeletes(body) == [k \in DOMAIN body.deletes |-> IdFromJson(body.deletes[k])]

\* (Variant: the explicit rows first.)
RowsFirst(call) ==
    Upserted(Rowed(call.body.columns)) \o Upserted(call.rows)
        \o PatchRows(ParsedRows(call.body.patches)) \o Deleted(ExplicitDeletes(call.body))
        \o Deleted(call.deletes) \o PatchedWith(call.patches, PatchOf(call.body))

Assembled(call) ==
    Deleted(call.deletes)
        \o PatchedWith(call.patches, PatchOf(call.body))
        \o Upserted(Rowed(call.body.columns))
        \o PatchRows(Rowed(call.body.patch_columns))
        \o Upserted(call.rows)
        \o PatchRows(ParsedRows(call.body.patches))
        \o Deleted(ExplicitDeletes(call.body))

\* What makes it refuse a request: an empty patch, ragged columns, a vector in a
\* patch by columns, a document without a vector, nothing to do.  In a row a vector
\* of no dimensions is none either; in columns it is one.
Sound(call) ==
    LET body == call.body
        rows == call.rows \o Rowed(body.columns) \o ParsedRows(body.patches) \o Rowed(body.patch_columns) IN
    /\ body.patch_by_filter # NoFilter => body.patch # Nothing
    /\ \A columns \in {body.columns, body.patch_columns} \ {Nothing} : ~Ragged(columns)
    /\ "vector" \notin DOMAIN body.patch_columns
    /\ \A k \in DOMAIN Rowed(body.columns) : Rowed(body.columns)[k].vector # <<>>
    /\ \A k \in DOMAIN call.rows : VectorSent(call.rows[k]) # <<>>
    /\ \A k \in DOMAIN rows : Readable(rows[k])
    /\ Assembled(call) # <<>>

---------------------------------------------------------------------------
\* The handlers v2_write and write.

\* (Variant: every write is let in.)
NeverOverloaded == FALSE

\* Backpressure, from the manifest that is loaded first.
Overloaded == Len(tail) >= TailLimit

Phases == <<"embedding", "deleting", "patching", "committing">>

\* The next wait of a request that has got as far as position n.
PhaseFrom(n, body, pending) ==
    LET waits(p) ==
            CASE p = "embedding"  -> pending # <<>>
              [] p = "deleting"   -> body.delete_by_filter # NoFilter
              [] p = "patching"   -> body.patch_by_filter # NoFilter
              [] p = "committing" -> TRUE
        ahead == {k \in n..Len(Phases) : waits(Phases[k])}
    IN  Phases[CHOOSE k \in ahead : \A m \in ahead : k <= m]

\* The documents a request's delete filter matches.
MatchedBy(body, s, documents) ==
    LET filter == CoerceFilter(body.delete_by_filter, s.attributes) IN
    IF filter = NoFilter \/ Rejected(filter) THEN {}
    ELSE {i \in DOMAIN documents : Matches(filter, documents[i], s.fts)}

\* `steady` and `ever` are ghosts: the documents the delete filter matched all
\* the time since the request was let in, and those it matched at some time.
Arrive(c, body) ==
    LET rows == ParsedRows(body.rows)
        spec == IF body.native THEN Nothing ELSE EmbedSpec(body)
        pending == NeedingEmbedding(rows, spec)
        matched == MatchedBy(body, schema, live) IN
    /\ calls[c] = Idle
    /\ ~IsEmpty(body)
    /\ ~Overloaded
    /\ calls' = [calls EXCEPT ![c] =
            [phase |-> PhaseFrom(1, body, pending), body |-> body, rows |-> rows,
             pending |-> pending, spec |-> spec, deletes |-> <<>>, patches |-> <<>>,
             remaining |-> FALSE, steady |-> matched, ever |-> matched]]
    /\ UNCHANGED vars

TextsOf(call) == [k \in DOMAIN call.pending |-> TextOf(call.rows[call.pending[k]], call.spec)]

Embed(c, answer) ==
    LET call == calls[c] IN
    /\ call.phase = "embedding"
    /\ Acceptable(answer, TextsOf(call))
    /\ calls' = [calls EXCEPT ![c] = [call EXCEPT
            !.rows = Attached(call.rows, call.pending, Placed(answer)),
            !.phase = PhaseFrom(2, call.body, <<>>)]]
    /\ UNCHANGED vars

\* ids_matching up to the cap, in the order of the ids.
Capped(ids) ==
    [ids |-> Truncated(SortedBy(ids, IdBefore), MaxByFilter),
     more |-> Cardinality(ids) > MaxByFilter]

Chosen(filter) == Capped(IdsMatching(filter))

Fitting(filter) == ~Rejected(CoerceFilter(filter, schema.attributes))

ChooseDeletes(c) ==
    LET call == calls[c] IN
    /\ call.phase = "deleting"
    /\ Fitting(call.body.delete_by_filter)
    /\ \E chosen \in {Chosen(call.body.delete_by_filter)} :
          calls' = [calls EXCEPT ![c] = [call EXCEPT
            !.deletes = chosen.ids,
            !.remaining = @ \/ chosen.more,
            !.phase = PhaseFrom(3, call.body, <<>>)]]
    /\ UNCHANGED vars

ChoosePatches(c) ==
    LET call == calls[c] IN
    /\ call.phase = "patching"
    /\ Fitting(call.body.patch_by_filter)
    /\ \E chosen \in {Chosen(call.body.patch_by_filter)} :
          calls' = [calls EXCEPT ![c] = [call EXCEPT
            !.patches = chosen.ids,
            !.remaining = @ \/ chosen.more,
            !.phase = "committing"]]
    /\ UNCHANGED vars

Watched(call) ==
    IF call.phase \in {"idle", "asking"} THEN call
    ELSE LET matched == MatchedBy(call.body, schema', live')
         IN  [call EXCEPT !.steady = @ \cap matched, !.ever = @ \cup matched]

\* The native API declares nothing but the metric.
ConfigOf(body) ==
    IF body.native THEN [EmptyConfig EXCEPT !.metric = body.config.metric] ELSE body.config

\* write_all: the request is answered with its counts.
CommitCall(c) ==
    LET call == calls[c] IN
    /\ call.phase = "committing"
    /\ Sound(call)
    /\ Write([config |-> ConfigOf(call.body), records |-> Assembled(call)])
    /\ calls' = [d \in Callers |-> IF d = c THEN Idle ELSE Watched(calls[d])]

\* The request fails, or its caller goes away, before anything is committed.
Drop(c) ==
    /\ calls[c] # Idle
    /\ calls' = [calls EXCEPT ![c] = Idle]
    /\ UNCHANGED vars

---------------------------------------------------------------------------
\* Queries.  `rank` is what rank_by says, a list of one or none: its kind, its
\* attribute and its argument.  The argument of "ann" and "knn" is a vector or
\* the text and the model that give one.  top_k and limit are Absent or numbers.

Absent == -1
DefaultNprobe == 8
MaxSubqueries == 16

\* top_k is another name for limit.total, and ten rows are the default.
TotalOf(q) ==
    IF q.top_k # Absent THEN q.top_k ELSE IF q.limit # Absent THEN q.limit ELSE 10

EmptyQuery ==
    [rank |-> <<>>, top_k |-> Absent, limit |-> Absent, filter |-> NoFilter,
     include |-> IncludeNone, aggs |-> Nothing, group_by |-> <<>>]

VectorKinds == {"ann", "knn"}
KindOf(q) == IF q.rank = <<>> THEN "none" ELSE q.rank[1].kind

\* pending_embed and resolve_embed.
NeedsEmbedding(q) == KindOf(q) \in VectorKinds /\ "text" \in DOMAIN q.rank[1].argument
Resolved(q) ==
    LET wanted == q.rank[1].argument IN
    IF NeedsEmbedding(q)
    THEN [q EXCEPT !.rank[1].argument = [vector |-> Embedding[wanted.model][wanted.text]]]
    ELSE q

SameModel(queries) ==
    \A j, k \in DOMAIN queries : NeedsEmbedding(queries[j]) /\ NeedsEmbedding(queries[k])
        => queries[j].rank[1].argument.model = queries[k].rank[1].argument.model

\* V2Query::into_native: what is refused, and what the engine is asked.
Convertible(q) ==
    /\ q.group_by # <<>> => q.aggs # Nothing
    /\ q.rank = <<>> => q.aggs # Nothing
    /\ KindOf(q) # "unsupported"
    /\ q.rank # <<>> /\ q.top_k # Absent /\ q.limit # Absent => q.top_k = q.limit
    /\ q.rank # <<>> => TotalOf(q) \in 1..10000

Native(q) ==
    LET asked(kind, value) == IF KindOf(q) = kind THEN value ELSE <<>>
        by == q.rank[1] IN
    [vector |-> IF KindOf(q) \in VectorKinds THEN by.argument.vector ELSE <<>>,
     text |-> asked("bm25", [attribute |-> by.attribute, query |-> by.argument]),
     sparse |-> asked("sparse", [attribute |-> by.attribute, vector |-> by.argument]),
     order |-> asked("order", [attribute |-> by.attribute, descending |-> by.argument]),
     filter |-> q.filter, top_k |-> TotalOf(q), nprobe |-> DefaultNprobe,
     include |-> q.include]

\* to_v2_rows, to_v2_score_rows, to_v2_ordered_rows: $dist, a list of one or none.
\* (Variant: a similarity is sent as it is.)
SimilarityAsDistance(score, metric) == score

ToDistance(score, metric) ==
    IF metric = "cosine_distance" THEN CosineScale - score ELSE -score

RowsOf(q, hits, metric) ==
    LET dist(hit) ==
            CASE KindOf(q) \in VectorKinds       -> <<ToDistance(hit.score, metric)>>
              [] KindOf(q) \in {"bm25", "sparse"} -> <<hit.score>>
              [] OTHER                            -> <<>> IN
    [k \in DOMAIN hits |->
        [id |-> hits[k].id, dist |-> dist(hits[k]), attrs |-> hits[k].attrs]]

\* run_v2_query.  A "knn" is a scan that looks at no dimension, includes no
\* attributes and drops the aggregations of its request.
Refusal == [ok |-> FALSE]
AnswerOf(q, native) ==
    IF KindOf(q) = "knn"
    THEN Answer(QueryBrute([native EXCEPT !.include = IncludeNone]), FALSE, FALSE)
    ELSE Queried(native)

TotalsOf(q) == Aggregation(q.aggs, q.group_by, q.filter)

Response(q, answer, totals, metric) ==
    IF ~answer.ok \/ (totals # Nothing /\ ~totals.ok) THEN Refusal
    ELSE [ok |-> TRUE, rows |-> RowsOf(q, answer.hits, metric), totals |-> totals]

\* An empty vector ranks nothing.
Ranks(q, native) ==
    q.rank # <<>> /\ (KindOf(q) \in VectorKinds => native.vector # <<>>)

RunQuery(q, metric) ==
    LET native == Native(q)
        filter == CoerceFilter(q.filter, schema.attributes)
        counted(totals) == [ok |-> totals.ok, rows |-> <<>>, totals |-> totals] IN
    IF ~Convertible(q) \/ Rejected(filter) THEN Refusal
    ELSE IF ~Ranks(q, native)
    THEN IF q.aggs = Nothing THEN Refusal ELSE counted(TotalsOf(q))
    ELSE Response(q, AnswerOf(q, native),
                  IF q.aggs = Nothing \/ KindOf(q) = "knn" THEN Nothing ELSE TotalsOf(q), metric)

---------------------------------------------------------------------------
\* v2_query.  A request has one query or, when it is multi, several, which are
\* answered each from a manifest of its own and may be fused into one list.

EmptyRequest ==
    [queries |-> <<>>, multi |-> FALSE, rerank |-> FALSE, k |-> 60,
     top_k |-> Absent, limit |-> Absent]

Unanswered == [ok |-> FALSE]

\* The metric that distances are converted by is that of the manifest loaded
\* first.  `seen` is a ghost: the documents each query was answered from.
Ask(c, request) ==
    /\ calls[c] = Idle
    /\ request.multi => Len(request.queries) \in 1..MaxSubqueries /\ SameModel(request.queries)
    /\ calls' = [calls EXCEPT ![c] =
            [phase |-> "asking",
             request |-> [request EXCEPT !.queries =
                            [k \in DOMAIN request.queries |-> Resolved(request.queries[k])]],
             metric |-> schema.metric,
             results |-> [k \in DOMAIN request.queries |-> Unanswered],
             seen |-> [k \in DOMAIN request.queries |-> Nothing]]]
    /\ UNCHANGED vars

AnswerQuery(c, k) ==
    LET call == calls[c] IN
    /\ call.phase = "asking"
    /\ call.results[k] = Unanswered
    /\ \E result \in {RunQuery(call.request.queries[k], call.metric)} :
          /\ result.ok
          /\ calls' = [calls EXCEPT ![c] = [call EXCEPT
                !.results[k] = result,
                !.seen[k] = [live |-> live, metric |-> schema.metric]]]
    /\ UNCHANGED vars

Answered(call) == call.phase = "asking" /\ \A k \in DOMAIN call.results : call.results[k].ok

\* The lists of the queries that return rows.
ListsOf(call) ==
    LET ranked == SelectSeq([k \in DOMAIN call.results |-> k],
                            LAMBDA k : call.request.queries[k].rank # <<>>)
    IN  [n \in DOMAIN ranked |-> call.results[ranked[n]].rows]

\* rrf: the contributions of the lists added up, and the attributes of the first
\* copy of a row that has any.
Fused(lists, k, limit) ==
    LET places == UNION {{n} \X DOMAIN lists[n] : n \in DOMAIN lists}
        row(p) == lists[p[1]][p[2]]
        ids == {row(p).id : p \in places}
        own(i) == {p \in places : row(p).id = i}
        score(i) == MapThenSumSet(LAMBDA p : RrfScale \div (k + p[2]), own(i))
        told(i) == {p \in own(i) : row(p).attrs # Nothing}
        first(ps) == CHOOSE p \in ps : \A o \in ps : p[1] <= o[1]
        attrs(i) == row(first(IF told(i) = {} THEN own(i) ELSE told(i))).attrs
        before(i, j) == score(i) > score(j) \/ (score(i) = score(j) /\ IdBefore(i, j))
        sorted == SortedBy(ids, before)
    IN  [n \in 1..LeastOf({limit, Len(sorted)}) |->
            [id |-> sorted[n], dist |-> <<score(sorted[n])>>, attrs |-> attrs(sorted[n])]]

FusedOf(call) == Fused(ListsOf(call), call.request.k, TotalOf(call.request))

\* The answer is sent: fused, or the results in the order of the queries.
Respond(c) ==
    /\ Answered(calls[c])
    /\ calls[c].request.rerank => ListsOf(calls[c]) # <<>>
    /\ calls' = [calls EXCEPT ![c] = Idle]
    /\ UNCHANGED vars

---------------------------------------------------------------------------
CompatInit == Init /\ calls = [c \in Callers |-> Idle]

WriteStep(c) ==
    \/ \E body \in Bodies : Arrive(c, body)
    \/ /\ calls[c].phase = "embedding"
       /\ \E answer \in Answers(ModelOf(calls[c].spec), TextsOf(calls[c])) : Embed(c, answer)
    \/ ChooseDeletes(c)
    \/ ChoosePatches(c)
    \/ CommitCall(c)

QueryStep(c) ==
    \/ \E request \in V2Queries : Ask(c, request)
    \/ calls[c].phase = "asking" /\ \E k \in DOMAIN calls[c].results : AnswerQuery(c, k)
    \/ Respond(c)

CompatNext ==
    \/ \E c \in Callers : WriteStep(c) \/ QueryStep(c) \/ Drop(c)
    \/ Compact /\ UNCHANGED calls

CompatSpec == CompatInit /\ [][CompatNext]_<<vars, calls>>

---------------------------------------------------------------------------
\* What the callers are promised.

\* Once a request is past its embedding, every row has the vector it was sent
\* with, or the one the model gives for its own text: whatever order the
\* endpoint answers in, and whatever rows needed none.
EachRowItsVector ==
    \A c \in Callers :
        LET call == calls[c] IN
        call.phase \in {"deleting", "patching", "committing"} =>
            \A k \in DOMAIN call.rows :
                LET sent == ParsedRow(call.body.rows[k]) IN
                call.rows[k] =
                    IF sent.vector # <<>> \/ EmbedSources(sent, call.spec) = <<>> THEN sent
                    ELSE [sent EXCEPT !.vector =
                            <<Embedding[ModelOf(call.spec)][TextOf(sent, call.spec)]>>]

\* "Vector dimension and id type fixed the same way": inferred from the first
\* write that carries one, then enforced.
OneDimension == \A i \in DOMAIN live : Len(VectorOf(live[i])) = schema.dim

\* Writers that were let in together take the tail past its limit, by no more
\* than they carry.
MostRecords(body) ==
    Len(body.rows) + Len(Rowed(body.columns)) + Len(body.patches)
        + Len(Rowed(body.patch_columns)) + Len(body.deletes)
        + (IF body.delete_by_filter = NoFilter THEN 0 ELSE MaxByFilter)
        + (IF body.patch_by_filter = NoFilter THEN 0 ELSE MaxByFilter)

TailStaysBounded ==
    LET most == CHOOSE n \in {MostRecords(b) : b \in Bodies} :
                    \A b \in Bodies : MostRecords(b) <= n
    IN  Len(tail) < TailLimit + Cardinality(Callers) * most

\* A write that is accepted did what it was asked for, although its filter was
\* evaluated some commits before its own: the documents its delete filter
\* matched all along are gone (unless a cap left some, or it wrote them itself),
\* nothing is gone that the filter never matched and that was not named, and the
\* documents it wrote are there, with the vector it gave them last.
Commits(c) == calls[c].phase = "committing" /\ calls'[c] = Idle /\ tail' # tail

Given(call) == Rowed(call.body.columns) \o call.rows
IdsOf(rows) == {rows[k].id : k \in DOMAIN rows}
LastOf(rows, i) == CHOOSE k \in DOMAIN rows :
                      rows[k].id = i /\ \A m \in DOMAIN rows : rows[m].id = i => m <= k

AppliedAsAsked(call) ==
    LET named == ToSet(ExplicitDeletes(call.body))
        given == IdsOf(Given(call)) IN
    /\ ~call.remaining => (call.steady \ given) \cap DOMAIN live' = {}
    /\ DOMAIN live \ DOMAIN live' \subseteq call.ever \cup named
    /\ named \cap DOMAIN live' = {}
    /\ \A i \in given \ named :
          /\ i \in DOMAIN live'
          /\ VectorOf(live'[i]) = VectorSent(Given(call)[LastOf(Given(call), i)])

WritesApplyAsAsked ==
    [][\A c \in Callers : Commits(c) => AppliedAsAsked(calls[c])]_<<vars, calls>>

\* A client that reads $dist as a distance for vectors, and as a relevance for
\* texts and sparse vectors, sees the order the rows are in and the documents'
\* own distances; and of fused rows no row stands before one that outranks it
\* everywhere, none is there twice, and attributes that some query fetched are
\* not blanked out by another that did not.
RightlyRanked(q, rows, seen, metric) ==
    LET dist(n) == rows[n].dist[1] IN
    /\ \A n \in DOMAIN rows : rows[n].id \in DOMAIN seen.live
    /\ KindOf(q) \in VectorKinds =>
          /\ \A m, n \in DOMAIN rows : m < n => dist(m) <= dist(n)
          /\ metric = seen.metric => \A n \in DOMAIN rows :
                dist(n) = Distance(metric, q.rank[1].argument.vector,
                                   VectorOf(seen.live[rows[n].id]))
    /\ KindOf(q) \in {"bm25", "sparse"} =>
          \A m, n \in DOMAIN rows : m < n => dist(m) >= dist(n)
    /\ KindOf(q) = "order" => \A n \in DOMAIN rows : rows[n].dist = <<>>

PlaceIn(list, i) ==
    LET own == {n \in DOMAIN list : list[n].id = i}
    IN  IF own = {} THEN Len(list) + 1 ELSE CHOOSE n \in own : TRUE

RightlyFused(rows, lists, limit) ==
    LET outranks(i, j) ==
            \A n \in DOMAIN lists : \/ PlaceIn(lists[n], i) < PlaceIn(lists[n], j)
                                    \/ {i, j} \cap IdsOf(lists[n]) = {}
        listed == UNION {IdsOf(lists[n]) : n \in DOMAIN lists}
        fetched(i) == \E n \in DOMAIN lists : \E m \in DOMAIN lists[n] :
                          lists[n][m].id = i /\ lists[n][m].attrs # Nothing IN
    /\ Len(rows) = LeastOf({limit, Cardinality(listed)})
    /\ Cardinality(IdsOf(rows)) = Len(rows)
    /\ \A n \in DOMAIN rows :
          /\ \A i \in listed : outranks(i, rows[n].id) => PlaceIn(rows, i) < n
          /\ fetched(rows[n].id) => rows[n].attrs # Nothing

ResponsesAreRanked ==
    \A c \in Callers :
        LET call == calls[c] IN
        Answered(call) =>
            /\ \A k \in DOMAIN call.results :
                  RightlyRanked(call.request.queries[k], call.results[k].rows,
                                call.seen[k], call.metric)
            /\ call.request.rerank =>
                  RightlyFused(FusedOf(call), ListsOf(call), TotalOf(call.request))

=============================================================================
