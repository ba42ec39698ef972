------------------------------ MODULE MCSearch ------------------------------
(***************************************************************************)
(* Search with three documents of every kind of attribute, in one shard and*)
(* in two, and the requests that reach every plan.                         *)
(***************************************************************************)
EXTENDS Search

\* The texts, by number: "10", "2024-..", "2025-..", "blue", "red cats",
\* "the cat", two patterns, a pattern that does not compile, "cat", and how
\* other numbers are written.
\* The ones no document is searched for have no words.
MCWords == <<<<"10">>, <<"2024">>, <<"2025">>, <<"blue">>, <<"red", "cats">>, <<"the", "cat">>>>
           @@ [t \in 7..30 |-> <<>>]
Vocabulary == {"10", "2024", "2025", "blue", "red", "cats", "cat", "the"}
Same == [w \in Vocabulary |-> w]
MCParsed == [uuid |-> <<>>, datetime |-> 2 :> 100 @@ 3 :> 200, uint |-> 1 :> 10]
MCRendered == [uuid |-> <<>>, datetime |-> 100 :> 2 @@ 200 :> 3 @@ [n \in 0..20 |-> 40 + n],
             uint |-> [n \in 0..20 |-> IF n = 10 THEN 1 ELSE 10 + n]]
MCRelevance(frequency, documents, all, length) ==
    12 * frequency + 3 * (all - documents) - length

\* shard_of: the odd ids in the first of two.
MCShardOf(id, n) == ((id.items[1] + 1) % n) + 1

Uint(n) == TypedValue("uint", <<n>>)
Text(t) == TypedValue("string", <<t>>)
Vector(x, y) == TypedValue("vector", <<x, y>>)

Tokenizer == [language |-> "english", stemming |-> TRUE, remove_stopwords |-> TRUE,
              ascii_folding |-> FALSE, case_sensitive |-> FALSE, max_token_length |-> 39]
Declared(n) == [EmptyConfig EXCEPT !.types = [when |-> "datetime"],
                                   !.fts = [body |-> Tokenizer], !.num_shards = n]

Upsert(i, attrs) == [op |-> "upsert", id |-> Uint(i), attrs |-> attrs]
Patch(i, attrs) == [op |-> "patch", id |-> Uint(i), attrs |-> attrs]
Batch(config, records) == [config |-> config, records |-> records]

First == Upsert(1, [vector |-> Vector(1, 0), when |-> Text(3), body |-> Text(6),
                    size |-> Uint(1)])
\* A row of upsert_columns whose vector is empty.
Vectorless == Upsert(2, [vector |-> TypedValue("vector", <<>>), size |-> Uint(3)])

MCBatches ==
    {Batch(Declared(n), <<r>>) : n \in {0, 2}, r \in {First, Vectorless}} \cup
    {Batch(EmptyConfig, <<Upsert(2, [vector |-> Vector(0, 1), body |-> Text(5),
                                     size |-> Uint(3), tags |-> TypedValue("[]uint", <<7, 8>>)])>>),
     Batch(EmptyConfig, <<Patch(1, [size |-> Uint(3), body |-> Text(5)])>>),
     Batch(EmptyConfig, <<Patch(2, [size |-> NullValue, when |-> Text(2),
                                    tags |-> TypedValue("[]uint", <<9>>)])>>),
     Batch(EmptyConfig, <<[op |-> "delete", id |-> Uint(1)],
                          Upsert(3, [vector |-> Vector(1, 1), size |-> Uint(1),
                                     feat |-> TypedValue("{}f16", <<1, 2>>)])>>),
     Batch(EmptyConfig, <<Patch(3, [feat |-> TypedValue("{}f16", <<0, 1>>)])>>)}

---------------------------------------------------------------------------

Small == Cmp("size", "Eq", Uint(1))
Large == <<Cmp("size", "Gte", Uint(2))>>
AboutCats == Cmp("body", "ContainsAllTokens", Text(6))
Both == <<Small, AboutCats, Joined("And", {1, 2})>>
NotBoth == <<Small, AboutCats, Joined("And", {1, 2}), Joined("Not", {3})>>
Either == <<Small, AboutCats, Joined("Or", {1, 2})>>
Latest == <<Cmp("when", "Eq", Text(3))>>
Tagged == <<Cmp("tags", "Contains", Uint(9))>>
Starred == <<Cmp("body", "Glob", Text(7))>>
Shouted == <<Cmp("body", "IGlob", Text(7)), Cmp("body", "Regex", Text(8)),
             Joined("Or", {1, 2})>>
Broken == <<Cmp("body", "NotRegex", Text(9)), Cmp("body", "Contains", Text(10)),
            Cmp("size", "NotEq", Uint(1)), Joined("And", {1, 2, 3})>>
ManyTags == <<Cmp("tags", "ContainsAny", TypedValue("[]uint", <<8, 9>>)),
              Cmp("size", "Lt", Uint(3)), Joined("Or", {1, 2}), Joined("Not", {3})>>
SomeDays == <<Cmp("when", "In", TypedValue("[]string", <<2, 3>>))>>

\* Asked of attributes they are not meant for.
Misfits == {<<Cmp("tags", "In", TypedValue("[]uint", <<7>>))>>,
            <<Cmp("tags", "Gte", Uint(8))>>,
            <<Cmp("tags", "Glob", Text(7))>>,
            <<Cmp("feat", "Eq", TypedValue("{}f16", <<1, 2>>))>>,
            <<Cmp("size", "Eq", TypedValue("[]uint", <<1>>))>>}

MCByFilter == Misfits \cup {Large, Both, NotBoth, Either, Latest, Tagged,
             Starred, Shouted, Broken, ManyTags, SomeDays}

Request == [vector |-> <<1, 0>>, text |-> <<>>, sparse |-> <<>>, order |-> <<>>,
            filter |-> <<>>, top_k |-> 3, nprobe |-> 3,
            include |-> [all |-> TRUE, only |-> {}]]

MCRequests ==
    {Request,
     [Request EXCEPT !.top_k = 1, !.vector = <<1, 1>>],
     [Request EXCEPT !.filter = Large, !.top_k = 2],
     [Request EXCEPT !.filter = NotBoth, !.nprobe = 1],
     [Request EXCEPT !.filter = Either, !.top_k = 1],
     [Request EXCEPT !.vector = <<>>, !.text = [attribute |-> "body", query |-> 5]],
     [Request EXCEPT !.vector = <<>>, !.text = [attribute |-> "body", query |-> 6],
                     !.filter = Large, !.top_k = 1],
     [Request EXCEPT !.vector = <<>>,
        !.sparse = [attribute |-> "feat", vector |-> TypedValue("{}f16", <<3, 0>>)]],
     [Request EXCEPT !.vector = <<>>, !.order = [attribute |-> "size", descending |-> TRUE]],
     [Request EXCEPT !.vector = <<>>, !.order = [attribute |-> "when", descending |-> FALSE],
                     !.filter = NotBoth, !.include = [all |-> FALSE, only |-> {"size"}]]}

Over(function, attribute) == [function |-> function, attribute |-> attribute]
MCTotals ==
    {[filter |-> <<>>, group_by |-> <<[attribute |-> "tags", each |-> TRUE]>>,
      aggs |-> [n |-> Over("Count", "no attribute"), top |-> Over("Max", "size")]],
     [filter |-> NotBoth, group_by |-> <<>>,
      aggs |-> [n |-> Over("Count", "size"), sum |-> Over("Sum", "size"),
                least |-> Over("Min", "when")]]}

MCTexts == 1..30
MCStem == [english |-> [Same EXCEPT !["cats"] = "cat"]]
MCStopwords == [english |-> {"the"}]
MCLetters == [w \in Vocabulary |-> <<w>>]
MCWithin == {<<10, 5>>, <<10, 6>>}
MCGlobMatches == {<<7, 5>>}
MCIGlobMatches == {<<7, 5>>, <<7, 4>>}
MCRegexMatches == {<<8, 6>>}

=============================================================================
