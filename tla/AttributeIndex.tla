--------------------------- MODULE AttributeIndex ---------------------------
(***************************************************************************)
(* The inverted index of one attribute (attrindex.rs) and what a filter    *)
(* can learn from the indexes of a segment.  A document is addressed by its*)
(* ordinal, its position in the segment.                                   *)
(***************************************************************************)
EXTENDS Filters

\* AttrIndex::build over the values of the attribute, by ordinal: nulls are
\* left out and an array is entered under each of its elements.
BuildIndex(values) ==
    LET present == {o \in DOMAIN values : ~IsNull(values[o])}
        keys == UNION {Elements(values[o]) : o \in present}
    IN  [multi_valued |-> \E o \in present : values[o].type \in Arrays,
         entries |-> [v \in keys |-> {o \in present : v \in Elements(values[o])}]]

Selection(ordinals, exact) == [bounded |-> TRUE, ordinals |-> ordinals, exact |-> exact]
Unbounded == [bounded |-> FALSE, ordinals |-> {}, exact |-> FALSE]

\* The documents of the entries whose value passes a test.
Under(index, test(_)) ==
    UNION {index.entries[v] : v \in {w \in DOMAIN index.entries : test(w)}}

\* lookup: a binary search for which values that do not compare are equal, so
\* that a literal of another type finds some entry.
Lookup(index, needle) ==
    LET found == {v \in DOMAIN index.entries : Compare(v, needle) \in {"equal", "none"}}
    IN  IF found = {} THEN {} ELSE index.entries[CHOOSE v \in found : TRUE]

SelectPattern(index, pattern, relation) ==
    IF AsText(pattern) = NoText \/ AsText(pattern) \in BadPatterns THEN Unbounded
    ELSE Selection(Under(index, LAMBDA v : MatchesPattern(v, pattern, relation)), TRUE)

\* AttrIndex::select.  What is not listed, the negations and the full-text
\* operators, is left to the scan.
Select(index, op, operand) ==
    CASE op = "Eq" ->
            IF index.multi_valued \/ IsNull(operand) THEN Unbounded
            ELSE Selection(Lookup(index, operand), TRUE)
      [] op \in Orderings ->
            IF IsNull(operand) THEN Unbounded
            ELSE Selection(Under(index, LAMBDA v : OrderedAs(op, Compare(v, operand))),
                           ~index.multi_valued)
      [] op \in {"In", "ContainsAny"} ->
            Selection(UNION {Lookup(index, w) : w \in Elements(operand)}, TRUE)
      [] op = "Contains" ->
            Selection(IF index.multi_valued THEN Lookup(index, operand)
                      ELSE Under(index, LAMBDA v : ContainsValue(v, operand)), TRUE)
      [] op = "Glob"  -> SelectPattern(index, operand, GlobMatches)
      [] op = "IGlob" -> SelectPattern(index, operand, IGlobMatches)
      [] op = "Regex" -> SelectPattern(index, operand, RegexMatches)
      [] OTHER -> Unbounded

---------------------------------------------------------------------------
\* What the operands of a connective bound together.  An operand of And that
\* bounds nothing drops out and takes the exactness with it; one of Or leaves
\* the union unbounded; only an exact set has a complement.
BothOf(sels) ==
    LET bounded == {s \in sels : s.bounded} IN
    IF bounded = {} THEN Unbounded
    ELSE Selection({o \in UNION {s.ordinals : s \in bounded} :
                        \A s \in bounded : o \in s.ordinals},
                   \A s \in sels : s.bounded /\ s.exact)

EitherOf(sels) ==
    IF \E s \in sels : ~s.bounded THEN Unbounded
    ELSE Selection(UNION {s.ordinals : s \in sels}, \A s \in sels : s.exact)

\* (Variant: the complement of a superset.)
NoneOfSuperset(sels, total) ==
    IF \E s \in sels : ~s.bounded THEN Unbounded
    ELSE Selection((1..total) \ UNION {s.ordinals : s \in sels}, TRUE)

NoneOf(sels, total) ==
    IF \E s \in sels : ~s.bounded \/ ~s.exact THEN Unbounded
    ELSE Selection((1..total) \ UNION {s.ordinals : s \in sels}, TRUE)

\* evaluate, over the indexes there are for the attributes of the filter.
Evaluate(filter, indexes, total) ==
    LET sel[n \in DOMAIN filter] ==
        LET parts == {sel[p] : p \in filter[n].parts} IN
        CASE filter[n].kind = "Cmp" ->
                IF filter[n].key \in DOMAIN indexes
                THEN Select(indexes[filter[n].key], filter[n].op, filter[n].value)
                ELSE Unbounded
          [] filter[n].kind = "And" -> BothOf(parts)
          [] filter[n].kind = "Or"  -> EitherOf(parts)
          [] filter[n].kind = "Not" -> NoneOf(parts, total)
    IN  sel[Len(filter)]

=============================================================================
