------------------------------ MODULE Filters ------------------------------
(***************************************************************************)
(* Filter expressions (doc.rs): what they mean for one document, and how   *)
(* their literals are fitted to the declared types.                        *)
(*                                                                         *)
(* A filter is written in postfix order, as a sequence of clauses whose    *)
(* last one is the root: a comparison of an attribute with a value, or     *)
(* "And", "Or" or "Not" over earlier clauses, given by their positions.    *)
(* The empty sequence is no filter.                                        *)
(***************************************************************************)
EXTENDS Schemas, FullText

CONSTANTS
    Within,         \* <<n, t>>: text n is a part of text t
    GlobMatches,    \* <<p, t>>: the glob p matches t, with case and
    IGlobMatches,   \* without it
    RegexMatches,   \* the same for regular expressions, and
    BadPatterns     \* those that do not compile

NoFilter == <<>>
Cmp(key, op, value) ==
    [kind |-> "Cmp", key |-> key, op |-> op, value |-> value, parts |-> {}]
Joined(kind, parts) ==
    [kind |-> kind, key |-> "", op |-> "", value |-> NullValue, parts |-> parts]

FullTextOps == {"ContainsAllTokens", "NotContainsAllTokens", "ContainsTokenSequence", "Fuzzy"}
PatternOps == {"Glob", "NotGlob", "IGlob", "NotIGlob", "Regex", "NotRegex"}
ElementOps == {"In", "NotIn", "ContainsAny", "NotContainsAny", "Contains", "NotContains"}
Orderings == {"Gt", "Gte", "Lt", "Lte"}

\* Filter::keys.
Keys(filter) == {filter[n].key : n \in {k \in DOMAIN filter : filter[k].kind = "Cmp"}}

---------------------------------------------------------------------------
\* pack: the list of coerced elements; those of a type with no array of its own
\* are kept as the strings they are written as.
Pack(values, type) ==
    CASE type = "uint" -> TypedValue("[]uint", [k \in DOMAIN values |-> values[k].items[1]])
      [] type = "int"  -> TypedValue("[]int", [k \in DOMAIN values |-> values[k].items[1]])
      [] OTHER -> TypedValue("[]string",
            SelectSeq([k \in DOMAIN values |-> AsText(values[k])], LAMBDA t : t # NoText))

\* coerce_operand: a list of strings or of unsigned integers one element at a
\* time, anything else (a list of integers too) as a whole.
CoerceOperand(v, type) ==
    IF v.type \in {"[]string", "[]uint"}
    THEN LET each == [k \in DOMAIN v.items |->
                        Coerce(TypedValue(ElementType(v.type), <<v.items[k]>>), type)]
         IN  IF NoValue \in ToSet(each) THEN NoValue ELSE Pack(each, type)
    ELSE Coerce(v, type)

CoerceClause(clause, types) ==
    IF \/ clause.kind # "Cmp"
       \/ clause.key \notin DOMAIN types
       \/ clause.op \in FullTextOps \cup PatternOps
       \/ IsNull(clause.value)
    THEN clause
    ELSE [clause EXCEPT !.value = CoerceOperand(@,
            IF clause.op \in ElementOps THEN ElementType(types[clause.key])
                                        ELSE types[clause.key])]

\* Filter::coerce, on every query and every write by filter.
CoerceFilter(filter, types) == [n \in DOMAIN filter |-> CoerceClause(filter[n], types)]

Rejected(filter) == \E n \in DOMAIN filter : filter[n].value = NoValue

---------------------------------------------------------------------------
\* eval, one group of operators at a time.

\* contains: membership for two of the array types, a part of a text otherwise.
ContainsValue(actual, wanted) ==
    IF actual.type \in {"[]string", "[]uint"}
    THEN \E e \in Elements(actual) : SameValue(e, wanted)
    ELSE /\ NoText \notin {AsText(actual), AsText(wanted)}
         /\ <<AsText(wanted), AsText(actual)>> \in Within

SharesElement(actual, wanted) ==
    \E w \in Elements(wanted), e \in Elements(actual) : SameValue(e, w)

OrderedAs(op, order) ==
    CASE op = "Gt"  -> order = "greater"
      [] op = "Gte" -> order \in {"greater", "equal"}
      [] op = "Lt"  -> order = "less"
      [] op = "Lte" -> order \in {"less", "equal"}

\* glob and regex: a pattern that does not compile matches nothing.
MatchesPattern(actual, pattern, relation) ==
    /\ NoText \notin {AsText(actual), AsText(pattern)}
    /\ AsText(pattern) \notin BadPatterns
    /\ <<AsText(pattern), AsText(actual)>> \in relation

\* The operators and what they deny.
Denies == [NotEq |-> "Eq", NotIn |-> "In", NotContains |-> "Contains",
           NotContainsAny |-> "ContainsAny", NotGlob |-> "Glob", NotIGlob |-> "IGlob",
           NotRegex |-> "Regex"]

EvalPositive(actual, op, expected) ==
    CASE op = "Eq" -> SameValue(actual, expected)
      [] op \in Orderings ->
            ~IsNull(actual) /\ ~IsNull(expected) /\ OrderedAs(op, Compare(actual, expected))
      [] op = "In" -> \E e \in Elements(expected) : SameValue(actual, e)
      [] op = "Contains" -> ContainsValue(actual, expected)
      [] op = "ContainsAny" -> SharesElement(actual, expected)
      [] op = "Glob" -> MatchesPattern(actual, expected, GlobMatches)
      [] op = "IGlob" -> MatchesPattern(actual, expected, IGlobMatches)
      [] op = "Regex" -> MatchesPattern(actual, expected, RegexMatches)

Eval(actual, op, expected) ==
    LET denied == op \in DOMAIN Denies IN
    EvalPositive(actual, IF denied THEN Denies[op] ELSE op, expected) # denied

TokensMatch(op, doc, terms) ==
    CASE op = "ContainsAllTokens"    -> ToSet(terms) \subseteq ToSet(doc)
      [] op = "NotContainsAllTokens" -> ~(ToSet(terms) \subseteq ToSet(doc))
      [] op = "ContainsTokenSequence" ->
            \E start \in 0..Len(doc) - Len(terms) :
                SubSeq(doc, start + 1, start + Len(terms)) = terms
      [] op = "Fuzzy" ->
            \A t \in ToSet(terms) : \E w \in ToSet(doc) : Resembles(w, t)

\* eval_full_text: over the tokens, and false for what has none.
EvalFullText(actual, op, expected, tokenizer) ==
    /\ HasText(actual) /\ AsText(expected) # NoText
    /\ LET terms == Tokenize(tokenizer, AsText(expected))
       IN  terms # <<>> /\ TokensMatch(op, TokensOf(tokenizer, actual), terms)

ValueAt(attrs, key) == IF key \in DOMAIN attrs THEN attrs[key] ELSE NullValue

MatchesClause(clause, attrs, fts) ==
    LET actual == ValueAt(attrs, clause.key)
        tokenizer == IF clause.key \in DOMAIN fts THEN fts[clause.key] ELSE DefaultTokenizer
    IN  IF clause.op \in FullTextOps
        THEN EvalFullText(actual, clause.op, clause.value, tokenizer)
        ELSE Eval(actual, clause.op, clause.value)

\* Filter::matches, given which of the clauses before hold.
HoldsAt(clause, attrs, fts, holds) ==
    CASE clause.kind = "Cmp" -> MatchesClause(clause, attrs, fts)
      [] clause.kind = "And" -> \A p \in clause.parts : holds[p]
      [] clause.kind = "Or"  -> \E p \in clause.parts : holds[p]
      [] clause.kind = "Not" -> \A p \in clause.parts : ~holds[p]

Matches(filter, attrs, fts) ==
    LET holds[n \in DOMAIN filter] == HoldsAt(filter[n], attrs, fts, holds)
    IN  filter = NoFilter \/ holds[Len(filter)]

=============================================================================
