------------------------------ MODULE Ranking ------------------------------
(***************************************************************************)
(* Ranking documents: by vector similarity (doc.rs), through the clusters  *)
(* of an IVF index (index.rs), by sparse vectors (sparse.rs) and by an     *)
(* attribute.                                                              *)
(*                                                                         *)
(* A live set maps ids to attributes.  Coordinates and weights are         *)
(* integers; the mean of a cluster is rounded down.  A sparse vector lists *)
(* a weight for every dimension there is, 0 for the ones it lacks.         *)
(***************************************************************************)
EXTENDS Filters

\* The cosine of two vectors is represented by its signed square, in
\* thousandths: the order is the same.
CosineScale == 1000

\* Vectors are compared over the dimensions they share.
Shared(a, b) == LeastOf({Len(a), Len(b)})
Dot(a, b) == SumTo([k \in 1..Shared(a, b) |-> a[k] * b[k]], Shared(a, b))
SquaredDistance(a, b) ==
    SumTo([k \in 1..Shared(a, b) |-> (a[k] - b[k]) * (a[k] - b[k])], Shared(a, b))

CosineOf(dot, norms) ==
    IF norms = 0 THEN 0
    ELSE (IF dot < 0 THEN -1 ELSE 1) * ((dot * dot * CosineScale) \div norms)

Cosine(a, b) == CosineOf(Dot(a, b), Dot(a, a) * Dot(b, b))

Metrics == {"cosine_distance", "euclidean_squared", "dot_product"}

\* DistanceMetric::score, higher is better.
Score(metric, a, b) ==
    CASE metric = "cosine_distance"   -> Cosine(a, b)
      [] metric = "euclidean_squared" -> -SquaredDistance(a, b)
      [] metric = "dot_product"       -> Dot(a, b)

\* DistanceMetric::distance, lower is better.
Distance(metric, a, b) ==
    CASE metric = "cosine_distance"   -> CosineScale - Cosine(a, b)
      [] metric = "euclidean_squared" -> SquaredDistance(a, b)
      [] metric = "dot_product"       -> -Dot(a, b)

---------------------------------------------------------------------------
\* The elements of a set in an order that is total on them, each at its rank.
SortedBy(S, before(_, _)) ==
    [n \in 1..Cardinality(S) |->
        CHOOSE x \in S : Cardinality({y \in S : before(y, x)}) = n - 1]

\* Hits.

VectorOf(attrs) == IF "vector" \in DOMAIN attrs THEN attrs["vector"].items ELSE <<>>
Named(attrs) == Restrict(attrs, DOMAIN attrs \ {"vector"})

\* Include::project: all attributes, or those of a list, or none.
Project(include, attrs) ==
    IF include.all THEN Named(attrs)
                   ELSE Restrict(attrs, DOMAIN Named(attrs) \cap include.only)

IncludeAll == [all |-> TRUE, only |-> {}]
IncludeNone == [all |-> FALSE, only |-> {}]

IdBefore(a, b) == Compare(a, b) = "less"

\* The best first, and ties by id.
HitBefore(a, b) ==
    \/ a.score > b.score
    \/ a.score = b.score /\ IdBefore(a.id, b.id)

Truncated(seq, n) == SubSeq(seq, 1, LeastOf({n, Len(seq)}))

Best(hits, top_k) == Truncated(SortedBy(hits, HitBefore), top_k)

\* top_k.
TopK(live, vector, top_k, filter, include, metric, fts) ==
    Best({[id |-> i, score |-> Score(metric, vector, VectorOf(live[i])),
           attrs |-> Project(include, live[i])] :
            i \in {j \in DOMAIN live : Matches(filter, live[j], fts)}}, top_k)

\* Documents without the attribute come last in both directions.
KeyBefore(a, b, descending) ==
    CASE IsNull(a) -> FALSE
      [] IsNull(b) /\ ~IsNull(a) -> TRUE
      [] OTHER -> Compare(a, b) = IF descending THEN "greater" ELSE "less"

\* order_by.
OrderBy(live, order, top_k, filter, include, fts) ==
    LET key == [i \in DOMAIN live |-> ValueAt(live[i], order.attribute)]
        ahead(i, j) == KeyBefore(key[i], key[j], order.descending)
        before(i, j) == ahead(i, j) \/ (~ahead(j, i) /\ IdBefore(i, j))
        hit(i) == [id |-> i, score |-> 0, attrs |-> Project(include, live[i])]
        matching == {i \in DOMAIN live : Matches(filter, live[i], fts)}
        ids == Truncated(SortedBy(matching, before), top_k)
    IN  [k \in DOMAIN ids |-> hit(ids[k])]

---------------------------------------------------------------------------
\* IVF.  `vectors` are those of the documents of a segment, in order.

\* By distance, and by position where they are the same.
Closer(distances, i, j) ==
    \/ distances[i] < distances[j]
    \/ distances[i] = distances[j] /\ i < j

Closest(distances) ==
    CHOOSE i \in DOMAIN distances : \A j \in DOMAIN distances : ~Closer(distances, j, i)

\* nearest: the first of the closest centroids.
Nearest(centroids, v, metric) ==
    Closest([i \in DOMAIN centroids |-> Distance(metric, centroids[i], v)])

Assigned(vectors, centroids, metric, c) ==
    {n \in DOMAIN vectors : Nearest(centroids, vectors[n], metric) = c}

\* A centroid without vectors stays.
MeanOf(vectors, own, centroid) ==
    IF own = {} THEN centroid
    ELSE [d \in DOMAIN centroid |->
            SumTo([n \in DOMAIN vectors |-> IF n \in own THEN vectors[n][d] ELSE 0],
                  Len(vectors)) \div Cardinality(own)]

\* One round of Lloyd's algorithm.
Recentred(vectors, centroids, metric) ==
    [c \in DOMAIN centroids |->
        MeanOf(vectors, Assigned(vectors, centroids, metric, c), centroids[c])]

\* kmeans: centroids sampled in strides to start with, then `iters` rounds.
KMeans(vectors, k, iters, metric) ==
    LET n == Len(vectors)
        start == [i \in 1..k |-> vectors[(((i - 1) * n) \div k) + 1]]
        after[round \in 0..iters] ==
            IF round = 0 THEN start ELSE Recentred(vectors, after[round - 1], metric)
    IN  after[iters]

\* IvfParams::for_docs: the root of the number of documents, rounded up.
ClusterCount(n) == CHOOSE k \in 1..n : k * k >= n /\ (k - 1) * (k - 1) < n

\* The centroids that have documents, and the documents of each.
ClustersOf(vectors, centroids, metric) ==
    Kept([c \in DOMAIN centroids |->
            [centroid |-> centroids[c], docs |-> Assigned(vectors, centroids, metric, c)]],
         LAMBDA cluster : cluster.docs # {})

\* index::build.
BuildClusters(vectors, iters, metric) ==
    ClustersOf(vectors, KMeans(vectors, ClusterCount(Len(vectors)), iters, metric), metric)

\* The n closest.
FirstOf(distances, n) ==
    {i \in DOMAIN distances :
        Cardinality({j \in DOMAIN distances : Closer(distances, j, i)}) < n}

\* (Variant: one too few.)
ProbeShort(clusters, q, nprobe, metric) ==
    FirstOf([c \in DOMAIN clusters |-> Distance(metric, clusters[c].centroid, q)],
            LeastOf({nprobe, Len(clusters) - 1}))

\* index::probe: the nprobe closest clusters.
Probe(clusters, q, nprobe, metric) ==
    FirstOf([c \in DOMAIN clusters |-> Distance(metric, clusters[c].centroid, q)],
            IF nprobe = 0 THEN 1 ELSE nprobe)

---------------------------------------------------------------------------
\* Sparse vectors.

\* SparseIndex::build, over the values by ordinal: a list for every dimension
\* some document has weight in.
BuildSparse(values) ==
    LET dims == UNION {DOMAIN values[o].items : o \in DOMAIN values}
        listed(d) == {o \in DOMAIN values :
                        d \in DOMAIN values[o].items /\ values[o].items[d] # 0}
    IN  [d \in {e \in dims : listed(e) # {}} |-> [o \in listed(d) |-> values[o].items[d]]]

\* SparseIndex::score: the documents that share a dimension and do not score 0.
SparseScores(index, v) ==
    LET dims == {d \in DOMAIN v.items \cap DOMAIN index : v.items[d] # 0}
        share(d, o) ==
            IF d \in dims /\ o \in DOMAIN index[d] THEN v.items[d] * index[d][o] ELSE 0
        total(o) == SumTo([d \in DOMAIN v.items |-> share(d, o)], Len(v.items))
        scored == {o \in UNION {DOMAIN index[d] : d \in dims} : total(o) # 0}
    IN  [o \in scored |-> total(o)]

\* sparse::dot.
SparseDot(a, b) == Dot(a.items, b.items)

=============================================================================
