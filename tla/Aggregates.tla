----------------------------- MODULE Aggregates -----------------------------
(***************************************************************************)
(* Aggregation (aggregate.rs): Count, Sum, Min, Max and Avg over the       *)
(* documents that match, fed one at a time, in one group or by group keys. *)
(***************************************************************************)
EXTENDS Schemas, Functions

CONSTANT SumLimit   \* an integral sum below this is given as an integer

ASSUME SumLimitAssumption == SumLimit \in Nat

NoAttribute == "no attribute"

Held(attrs, a) == IF a \in DOMAIN attrs THEN attrs[a] ELSE NullValue

\* GroupKey::values: the value of an attribute, or every element of an array.
GroupValues(key, attrs) ==
    LET raw == Held(attrs, key.attribute) IN
    IF ~key.each THEN {raw}
    ELSE IF Elements(raw) = {} THEN {NullValue} ELSE Elements(raw)

\* expand_keys: a document is in every combination of its values.
GroupsOf(group_by, attrs) ==
    {group \in [DOMAIN group_by ->
                    UNION {GroupValues(group_by[k], attrs) : k \in DOMAIN group_by}] :
        \A k \in DOMAIN group_by : group[k] \in GroupValues(group_by[k], attrs)}

---------------------------------------------------------------------------
\* Accumulator.
Fresh == [count |-> 0, sum |-> 0, integral |-> TRUE, seen |-> FALSE,
          min |-> NullValue, max |-> NullValue]

Numeric == {"uint", "int", "float", "datetime"}

\* accumulate, for an aggregation it can be done for.
Accumulate(acc, agg, attrs) ==
    LET v == Held(attrs, agg.attribute) IN
    CASE agg.function = "Count" ->
            [acc EXCEPT !.count = IF agg.attribute = NoAttribute \/ ~IsNull(v) THEN @ + 1 ELSE @]
      [] agg.function # "Count" /\ IsNull(v) -> acc
      [] agg.function \in {"Sum", "Avg"} /\ ~IsNull(v) ->
            [acc EXCEPT !.count = @ + 1, !.seen = TRUE,
                        !.sum = AsF64(@ + AsF64(v.items[1])),
                        !.integral = @ /\ v.type \in {"uint", "int"}]
      [] agg.function = "Min" /\ ~IsNull(v) ->
            [acc EXCEPT !.count = @ + 1,
                        !.min = IF IsNull(@) \/ Compare(v, @) = "less" THEN v ELSE @]
      [] agg.function = "Max" /\ ~IsNull(v) ->
            [acc EXCEPT !.count = @ + 1,
                        !.max = IF IsNull(@) \/ Compare(v, @) = "greater" THEN v ELSE @]

\* Summing what is no number is refused.
Summable(agg, attrs) ==
    agg.function \in {"Sum", "Avg"} =>
        LET v == Held(attrs, agg.attribute) IN IsNull(v) \/ v.type \in Numeric

\* finalize; an average is given as its sum and count.
Finalize(acc, agg) ==
    CASE agg.function = "Count" -> TypedValue("uint", <<acc.count>>)
      [] agg.function = "Sum" ->
            (CASE ~acc.seen -> TypedValue("uint", <<0>>)
               [] acc.integral /\ acc.sum \in (1 - SumLimit)..(SumLimit - 1) ->
                    TypedValue(IF acc.sum < 0 THEN "int" ELSE "uint", <<acc.sum>>)
               [] OTHER -> TypedValue("float", <<acc.sum>>))
      [] agg.function = "Avg" ->
            IF acc.count = 0 THEN NullValue ELSE TypedValue("ratio", <<acc.sum, acc.count>>)
      [] agg.function = "Min" -> acc.min
      [] agg.function = "Max" -> acc.max

---------------------------------------------------------------------------
\* Aggregator: the groups so far, each with an accumulator for every label.
NoGroups == [ok |-> TRUE, groups |-> [g \in {} |-> [l \in {} |-> Fresh]]]

\* Aggregator::feed.
Feed(state, aggs, group_by, attrs) ==
    LET own == GroupsOf(group_by, attrs)
        before(g) == IF g \in DOMAIN state.groups THEN state.groups[g]
                     ELSE [l \in DOMAIN aggs |-> Fresh]
        after(g) == [l \in DOMAIN aggs |-> Accumulate(before(g)[l], aggs[l], attrs)]
        fits == \A l \in DOMAIN aggs : Summable(aggs[l], attrs)
    IN  IF ~state.ok \/ ~fits THEN [state EXCEPT !.ok = FALSE]
        ELSE [state EXCEPT !.groups = [g \in DOMAIN @ \cup own |->
                IF g \in own THEN after(g) ELSE @[g]]]

\* The documents of a live set, one after the other.
FeedAll(state, aggs, group_by, live) ==
    FoldLeft(LAMBDA s, i : Feed(s, aggs, group_by, live[i]), state, SetToSeq(DOMAIN live))

\* Aggregator::finish: without keys there is always the one group.
Finish(state, aggs, group_by) ==
    LET final(acc) == [l \in DOMAIN aggs |-> Finalize(acc[l], aggs[l])]
        groups == IF group_by = <<>> /\ DOMAIN state.groups = {}
                  THEN [g \in {<<>>} |-> [l \in DOMAIN aggs |-> Fresh]] ELSE state.groups
    IN  [ok |-> state.ok, groups |-> [g \in DOMAIN groups |-> final(groups[g])]]

\* aggregate.
Aggregated(live, aggs, group_by) ==
    Finish(FeedAll(NoGroups, aggs, group_by, live), aggs, group_by)

=============================================================================
