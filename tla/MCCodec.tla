------------------------------ MODULE MCCodec ------------------------------
(***************************************************************************)
(* Codec with a record of every kind, an attribute of every type, and 16-  *)
(* bit counts that wrap at four.                                           *)
(***************************************************************************)
EXTENDS Codec

\* Texts 1 and 2 name the dimensions of sparse vectors; 3 is a date, 4 a uuid, 5
\* the number 7, and the others are words.
MCWords == <<<<"x">>, <<"y">>, <<"date">>, <<"hex">>, <<"7">>, <<"kitten">>, <<"kite", "mitten">>,
           <<>>>>
MCLetters == [x |-> <<1>>, y |-> <<2>>, date |-> <<3>>, hex |-> <<4>>, kitten |-> <<1, 2, 3, 3, 4, 5>>,
            kite |-> <<1, 2, 3, 4>>, mitten |-> <<6, 2, 3, 3, 4, 5>>] @@ "7" :> <<7>>
Same == [w \in DOMAIN Letters |-> w]
MCBytes == <<<<9>>, <<8>>, <<3, 1>>, <<4, 2>>, <<7>>, <<6, 6>>, <<6>>, <<>>>>
MCNameBytes == [s |-> <<1>>, v |-> <<2>>, w |-> <<3>>, n |-> <<1, 2>>, long |-> <<1, 1, 1, 1, 1>>]

MCParsed == [uuid |-> 4 :> 40, datetime |-> 3 :> 30, uint |-> 5 :> 7]
MCRendered == [uuid |-> 40 :> 4, datetime |-> 30 :> 3, uint |-> [n \in 0..40 |-> 5]]

Id(n) == TypedValue("uint", <<n>>)
Upsert(id, attrs) == [op |-> "upsert", id |-> id, attrs |-> attrs]

MCEntries ==
    {Upsert(Id(1), [vector |-> TypedValue("vector", <<1, 0>>), s |-> TypedValue("string", <<6>>),
                    v |-> TypedValue("[]uint", <<7, 9>>)]),
     Upsert(Id(2), [s |-> TypedValue("[]string", <<7, 8, 6>>), v |-> TypedValue("uint", <<7>>),
                    w |-> TypedValue("{}f16", <<0, 2>>)]),
     Upsert(TypedValue("string", <<4>>), [s |-> TypedValue("datetime", <<30>>),
                                          v |-> TypedValue("int", <<-3>>),
                                          w |-> TypedValue("{}f16", <<5, 1>>)]),
     Upsert(TypedValue("uuid", <<40>>), [v |-> TypedValue("[]int", <<-1, 4>>),
                                         s |-> TypedValue("[]string", <<>>),
                                         w |-> TypedValue("null", <<>>)]),
     Upsert(Id(3), [s |-> TypedValue("uuid", <<40>>), v |-> TypedValue("float", <<7>>),
                    n |-> TypedValue("bool", <<1>>)]),
     Upsert(Id(4), [s |-> TypedValue("string", <<8>>), v |-> TypedValue("uint", <<9>>),
                    w |-> TypedValue("[]int", <<4>>), n |-> TypedValue("int", <<7>>)]),
     [op |-> "patch", id |-> Id(1), attrs |-> [s |-> TypedValue("null", <<>>),
                                               n |-> TypedValue("uint", <<12>>)]],
     [op |-> "patch", id |-> Id(2), attrs |-> [long |-> TypedValue("float", <<2>>)]],
     [op |-> "delete", id |-> TypedValue("string", <<6>>)]}

MCTexts == DOMAIN MCWords
MCStem == [english |-> Same]
MCStopwords == [english |-> {}]
MCRelevance(frequency, documents, all, length) == frequency

=============================================================================
