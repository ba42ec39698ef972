---------------------------- MODULE MCCompatApi ----------------------------
(***************************************************************************)
(* CompatApi with two requests in flight over three documents: every form  *)
(* of write, an endpoint that answers out of order, a row whose vector is  *)
(* there and empty, and queries of every kind that may be fused.           *)
(***************************************************************************)
EXTENDS CompatApi

\* The texts, by number: two that are searched and embedded.
MCWords == <<<<"red", "cats">>, <<"blue">>>>
Vocabulary == {"red", "cats", "blue"}
Same == [w \in Vocabulary |-> w]

Number(n) == TypedValue("number", <<n>>)
String(t) == TypedValue("string", <<t>>)
Vector(x, y) == TypedValue("vector", <<x, y>>)

Tokenizer == [language |-> "english", stemming |-> FALSE, remove_stopwords |-> FALSE,
              ascii_folding |-> FALSE, case_sensitive |-> FALSE, max_token_length |-> 39]

Row(i, vector, attrs) == [id |-> Number(i), vector |-> vector, attrs |-> attrs]
Size(op, n) == <<Cmp("size", op, TypedValue("uint", <<n>>))>>

Body == [native |-> FALSE, rows |-> <<>>, columns |-> <<>>, patches |-> <<>>,
         patch_columns |-> <<>>, deletes |-> <<>>, delete_by_filter |-> <<>>,
         patch_by_filter |-> <<>>, patch |-> <<>>, config |-> EmptyConfig]

MCBodies ==
    {[Body EXCEPT !.config.embed = [body |-> "small"], !.config.fts = [body |-> Tokenizer],
                  !.rows = <<Row(1, <<>>, [body |-> String(2), size |-> Number(1)]),
                             Row(2, <<<<1, 1>>>>, [body |-> String(1), size |-> Number(2)]),
                             Row(3, <<>>, [body |-> String(1)])>>],
     [Body EXCEPT !.delete_by_filter = Size("Gte", 2),
                  !.columns = "id" :> <<Number(2)>> @@ "vector" :> <<Vector(0, 2)>>
                                @@ "size" :> <<Number(1)>>],
     [Body EXCEPT !.native = TRUE, !.config.metric = "dot_product",
                  !.patch_by_filter = Size("Eq", 1), !.patch = [size |-> Number(2)],
                  !.rows = <<Row(3, <<<<2, 0>>>>, [size |-> Number(2)])>>,
                  !.deletes = <<Number(1)>>],
     [Body EXCEPT !.config.embed = [body |-> "small"],
                  !.rows = <<Row(1, <<>>, [body |-> String(1)]),
                             Row(2, <<<<>>>>, [body |-> String(2)])>>]}

\* A document whose column gives it a vector of no dimensions, and one of two.
ZeroBodies ==
    {[Body EXCEPT !.columns = "id" :> <<Number(1)>> @@ "vector" :> <<TypedValue("vector", <<>>)>>],
     [Body EXCEPT !.rows = <<Row(2, <<<<1, 1>>>>, <<>>)>>]}

---------------------------------------------------------------------------
Question == [rank |-> <<>>, top_k |-> -1, limit |-> -1, filter |-> <<>>,
          include |-> [all |-> TRUE, only |-> {}], aggs |-> <<>>, group_by |-> <<>>]
By(kind, attribute, argument) ==
    [Question EXCEPT !.rank = <<[kind |-> kind, attribute |-> attribute, argument |-> argument]>>]
Request(multi, rerank, queries) ==
    [queries |-> queries, multi |-> multi, rerank |-> rerank, k |-> 1,
     top_k |-> -1, limit |-> 2]
Counted == [n |-> [function |-> "Count", attribute |-> "no attribute"]]
Without(query) == [query EXCEPT !.include.all = FALSE]

MCV2Queries ==
    {Request(FALSE, FALSE,
        <<[By("ann", "vector", [text |-> <<1>>, model |-> "small"]) EXCEPT !.aggs = Counted]>>),
     Request(FALSE, FALSE, <<[By("order", "size", TRUE) EXCEPT !.filter = Size("Gte", 1)]>>),
     Request(TRUE, TRUE, <<Without(By("knn", "vector", [vector |-> <<1, 0>>])),
                           By("bm25", "body", 1)>>)}

Symmetry == Permutations(Callers)

MCTexts == 1..2
Nowhere == [uuid |-> <<>>, datetime |-> <<>>, uint |-> <<>>]
MCStem == [english |-> Same]
MCStopwords == [english |-> {}]
MCLetters == [w \in Vocabulary |-> <<w>>]
MCRelevance(frequency, documents, all, length) == 10 * frequency - length
MCShardOf(id, n) == 1
MCAttributeOrder == <<"body", "size">>
MCEmbedding == [small |-> <<1>> :> <<1, 0>> @@ <<2>> :> <<0, 1>>]

=============================================================================
