----------------------------- MODULE FullText ------------------------------
(***************************************************************************)
(* Full-text search over one attribute (fts.rs): from a text to tokens,    *)
(* from tokens to postings with positions, and what a query finds in them. *)
(*                                                                         *)
(* What a word looks like is given by tables: its lower-case form, its stem*)
(* in each language, its form without accents and its letters.             *)
(***************************************************************************)
EXTENDS TypedValues, FiniteSets, SequencesExt

CONSTANTS
    Words,      \* [text -> sequence of the words in it, as written]
    Lower,      \* [word -> word]
    Stem,       \* [language -> [word -> word]]
    Folded,     \* [word -> word]: without its accents
    Stopwords,  \* [language -> set of lower-case words]
    Letters,    \* [word -> sequence of letters]
    Relevance(_, _, _, _)   \* what one query term adds to the BM25 score of a
                            \* document: its frequency there, the documents it
                            \* is in, all documents, the document's length

\* Tokenizer::default and FtsConfig::default.
DefaultTokenizer == [language |-> "english", stemming |-> TRUE, remove_stopwords |-> TRUE,
                     ascii_folding |-> FALSE, case_sensitive |-> FALSE,
                     max_token_length |-> 39]

---------------------------------------------------------------------------
\* The elements of a sequence that pass a test, in their order.  (SelectSeq, in a
\* form that can be reasoned about.)
Kept(seq, test(_)) ==
    FlattenSeq([k \in DOMAIN seq |-> IF test(seq[k]) THEN <<seq[k]>> ELSE <<>>])

\* The sum of the first n values of a function.
SumTo(f, n) ==
    LET to[k \in 0..n] == IF k = 0 THEN 0 ELSE to[k - 1] + f[k]
    IN  to[n]

NoToken == "dropped"

\* One word: a stopword is recognised before stemming, an accent dropped after.
TokenOf(tokenizer, word) ==
    LET cased == IF tokenizer.case_sensitive THEN word ELSE Lower[word]
        stemmed == IF tokenizer.stemming THEN Stem[tokenizer.language][cased] ELSE cased
        token == IF tokenizer.ascii_folding THEN Folded[stemmed] ELSE stemmed
    IN  IF \/ tokenizer.remove_stopwords /\ cased \in Stopwords[tokenizer.language]
           \/ Len(Letters[token]) \notin 1..tokenizer.max_token_length
        THEN NoToken ELSE token

\* Tokenizer::tokenize over the words of a text; a dropped word leaves no gap.
TokenizeWords(tokenizer, words) ==
    Kept([k \in DOMAIN words |-> TokenOf(tokenizer, words[k])],
         LAMBDA token : token # NoToken)

Tokenize(tokenizer, text) == TokenizeWords(tokenizer, Words[text])

\* attribute_text, and the words in it: a string, or the strings of an array.
HasText(v) == v.type \in {"string", "[]string"}
TokensOf(tokenizer, v) ==
    TokenizeWords(tokenizer, FlattenSeq([k \in DOMAIN v.items |-> Words[v.items[k]]]))

---------------------------------------------------------------------------
\* levenshtein_within, row by row: cell j of row i is the distance between the
\* first i letters of one word and the first j of the other.
LeastOf(S) == CHOOSE n \in S : \A m \in S : n <= m

NextRow(prev, letter, i, word) ==
    LET cell[j \in 0..Len(word)] ==
            IF j = 0 THEN i
            ELSE LeastOf({prev[j] + 1, cell[j - 1] + 1,
                          prev[j - 1] + IF letter = word[j] THEN 0 ELSE 1})
    IN  cell

EditRows(a, b) ==
    LET row[i \in 0..Len(a)] ==
            IF i = 0 THEN [j \in 0..Len(b) |-> j] ELSE NextRow(row[i - 1], a[i], i, b)
    IN  row

\* (Variant: the answer is no as soon as a whole row has used the budget up.)
WithinDistanceEager(a, b, max) ==
    LET rows == EditRows(a, b)
    IN  /\ Len(a) - Len(b) \in (-max)..max
        /\ \A i \in 1..Len(a) : \E j \in 0..Len(b) : rows[i][j] < max \/ i = Len(a)
        /\ rows[Len(a)][Len(b)] <= max

\* The answer is no as soon as a whole row is past the budget.
WithinDistance(a, b, max) ==
    LET rows == EditRows(a, b)
    IN  /\ Len(a) - Len(b) \in (-max)..max
        /\ \A i \in 1..Len(a) : \E j \in 0..Len(b) : rows[i][j] <= max
        /\ rows[Len(a)][Len(b)] <= max

\* default_edit_distance: a short word must match exactly.
EditBudget(token) == IF Len(Letters[token]) <= 5 THEN 0 ELSE 1

Resembles(term, token) ==
    WithinDistance(Letters[term], Letters[token], EditBudget(token))

---------------------------------------------------------------------------
\* FtsIndex.  `values` maps the ordinals that have the attribute to it.

\* FtsIndex::build.
BuildText(values, docs, tokenizer) ==
    LET tokens == [o \in DOMAIN values |-> TokensOf(tokenizer, values[o])]
        terms == UNION {ToSet(tokens[o]) : o \in DOMAIN values}
    IN  [docs |-> docs, tokenizer |-> tokenizer,
         lengths |-> [o \in 1..docs |-> IF o \in DOMAIN values THEN Len(tokens[o]) ELSE 0],
         postings |->
            [t \in terms |->
                [o \in {p \in DOMAIN values : t \in ToSet(tokens[p])} |->
                    {k \in DOMAIN tokens[o] : tokens[o][k] = t}]]]

TermPostings(index, term) ==
    IF term \in DOMAIN index.postings THEN index.postings[term] ELSE <<>>

Query(index, text) == Tokenize(index.tokenizer, text)

\* What the terms of a query add up to; one counts once however often the query
\* repeats it.
SumOfTerms(terms, shares) ==
    SumTo([k \in DOMAIN terms |->
              IF \E j \in 1..k - 1 : terms[j] = terms[k] THEN 0 ELSE shares[k]], Len(terms))

\* FtsIndex::score: every document a query term occurs in, and its score.
TextScores(index, text) ==
    LET terms == Query(index, text)
        posted(k) == TermPostings(index, terms[k])
        found == UNION {DOMAIN posted(k) : k \in DOMAIN terms}
        share(k, o) ==
            IF o \in DOMAIN posted(k)
            THEN Relevance(Cardinality(posted(k)[o]), Cardinality(DOMAIN posted(k)),
                           index.docs, index.lengths[o])
            ELSE 0
    IN  [o \in found |-> SumOfTerms(terms, [k \in DOMAIN terms |-> share(k, o)])]

\* FtsIndex::score_text: a value the index has not seen, on the same scale.
TextScore(index, v, text) ==
    LET tokens == TokensOf(index.tokenizer, v)
        terms == Query(index, text)
        frequency(t) == Cardinality({k \in DOMAIN tokens : tokens[k] = t})
        share(t) == IF frequency(t) = 0 THEN 0
                    ELSE Relevance(frequency(t), Cardinality(DOMAIN TermPostings(index, t)),
                                   index.docs, Len(tokens))
    IN  SumOfTerms(terms, [k \in DOMAIN terms |-> share(terms[k])])

\* FtsIndex::all_tokens.
AllTokens(index, text) ==
    LET tokens == ToSet(Query(index, text))
    IN  {o \in 1..index.docs :
            tokens # {} /\ \A t \in tokens : o \in DOMAIN TermPostings(index, t)}

\* FtsIndex::token_sequence over two tokens or more; a single one goes through
\* all_tokens as a text of its own, and so is tokenized once more.
TokenSequence(index, text) ==
    LET tokens == Query(index, text)
        again == TokenizeWords(index.tokenizer, tokens)
        at(k, o) == IF o \in DOMAIN TermPostings(index, tokens[k])
                    THEN TermPostings(index, tokens[k])[o] ELSE {}
    IN  IF Len(tokens) = 1
        THEN {o \in 1..index.docs :
                again # <<>> /\ o \in DOMAIN TermPostings(index, again[1])}
        ELSE {o \in 1..index.docs :
                tokens # <<>> /\ \E start \in at(1, o) :
                    \A k \in DOMAIN tokens : start + k - 1 \in at(k, o)}

\* FtsIndex::fuzzy, at the budget of each token.
FuzzyMatches(index, text) ==
    UNION {DOMAIN index.postings[term] :
            term \in {w \in DOMAIN index.postings :
                        \E t \in ToSet(Query(index, text)) : Resembles(w, t)}}

=============================================================================
