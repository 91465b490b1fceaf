------------------------------ MODULE Queries ------------------------------
(***************************************************************************)
(* The queries that GetMixin (database/model/base.py) builds from what a   *)
(* client asks of a list field, tags for instance, of numbers and of dates.*)
(*                                                                         *)
(* There are two languages for lists.  A filter has a part "any" and a     *)
(* part "all", each with terms to include and to exclude; a list of values *)
(* may hold operators that change the meaning of those that follow.  A     *)
(* query is written here as what it decides of a document, which is a set  *)
(* of tags and a value, 0 when it has none.  What MongoDB's operators mean *)
(* is external.                                                            *)
(***************************************************************************)
EXTENDS Integers, FiniteSets, SequencesExt

CONSTANTS
  FieldValues,  \* values of the list field
  None,         \* the term that stands for an empty list
  FieldKeys,    \* values of a number or a date, which are positive numbers
  AskedQueries  \* what clients ask: records with a list, a filter, a range or dates

VARIABLE asked \* the request

-----------------------------------------------------------------------------
(* Filters (ListQueryFilter, get_list_filter_query).                       *)

Negated(S) == {~ b : b \in S}

\* Mutant of NotAll: some tag of a part "any" is excluded only if all of them are missing.
NotAny(tags, values) == values \cap tags = {}

NotAll(tags, values) == ~ (values \subseteq tags)

\* The operations of a part: a size for None, and one operation for the other terms.
Operations(tags, part, any) ==
  LET size(terms)   == IF None \in terms THEN {tags = {}} ELSE {}
      values(terms) == terms \ {None}
      included == IF values(part.include) = {} THEN {}
                  ELSE {IF any THEN values(part.include) \cap tags # {} ELSE values(part.include) \subseteq tags}
      excluded == IF values(part.exclude) = {} THEN {}
                  ELSE {IF any THEN NotAll(tags, values(part.exclude)) ELSE values(part.exclude) \cap tags = {}}
  IN  size(part.include) \cup Negated(size(part.exclude)) \cup included \cup excluded

\* The children of a combination hold: one of them, or all.
Combined(any, decisions) == IF any THEN TRUE \in decisions ELSE FALSE \notin decisions

\* A part without operations is left out; no part at all is a query that every document meets.
FilterMatches(tags, filter) ==
  LET operations == [p \in {"any", "all"} |-> Operations(tags, filter[p], p = "any")]
      queries    == {Combined(p = "any", operations[p]) : p \in {q \in {"any", "all"} : operations[q] # {}}}
  IN  queries = {} \/ Combined(filter.op = "or", queries)

-----------------------------------------------------------------------------
(* Lists of values (NewListFieldBucketHelper, get_list_field_query).       *)

NoOperator == "none"
Operator(v) == CASE v \in {"__$all", "__$and"} -> "all" [] v \in {"__$any", "__$or"} -> "any" [] OTHER -> NoOperator

Reading ==
  [valid |-> TRUE, not |-> FALSE, legacy |-> TRUE, context |-> "any", global |-> NoOperator,
   empty |-> FALSE, all |-> {}, in |-> {}, nin |-> {}]

GlobalAfter(r, operator) ==
  IF r.global # NoOperator THEN r.global
  ELSE IF operator # NoOperator THEN operator ELSE "all"

\* A value, included or excluded, goes to the bucket of the current context.
WithValue(r, value, include) ==
  LET s == [r EXCEPT !.not = FALSE, !.global = GlobalAfter(r, NoOperator)]
  IN  IF ~include THEN [s EXCEPT !.nin = @ \cup {value}]
      ELSE IF r.context = "all" THEN [s EXCEPT !.all = @ \cup {value}]
      ELSE [s EXCEPT !.in = @ \cup {value}]

\* One element of the list.  "minus" is a value with a leading "-", which excludes it as
\* long as no operator has been seen, and is a name like others afterwards.
ReadTerm(r, v) ==
  CASE ~ r.valid    -> r
    [] v.kind = "none"  -> [r EXCEPT !.not = FALSE, !.global = GlobalAfter(r, NoOperator), !.empty = TRUE]
    [] v.kind = "reset" -> [r EXCEPT !.not = FALSE, !.global = GlobalAfter(r, NoOperator), !.context = "any",
                                     !.legacy = TRUE]
    [] v.kind = "operator" /\ r.not -> [r EXCEPT !.valid = FALSE]
    [] v.kind = "operator" /\ v.value = "__$not" -> [r EXCEPT !.not = TRUE]
    [] v.kind = "operator" -> [r EXCEPT !.context = Operator(v.value), !.legacy = FALSE,
                                        !.global = GlobalAfter(r, Operator(v.value))]
    [] v.kind = "minus" /\ ~ r.not /\ r.legacy -> WithValue(r, v.value, FALSE)
    [] v.kind = "minus" -> WithValue(r, <<"-", v.value>>, ~ r.not)
    [] OTHER -> WithValue(r, v.value, ~ r.not)

\* __init__; a list that ends with "not" is refused.
ReadList(list) ==
  LET r == FoldLeft(ReadTerm, Reading, list)
  IN  [r EXCEPT !.valid = @ /\ ~ r.not, !.global = GlobalAfter(r, NoOperator)]

\* get_list_field_query
ListMatches(tags, r) ==
  LET buckets == {b \in {"all", "in", "nin"} : r[b] # {}}
      decides(b) == CASE b = "all" -> r.all \subseteq tags [] b = "in" -> r.in \cap tags # {}
                      [] b = "nin" -> r.nin \cap tags = {}
      query == Combined(r.global = "any", {decides(b) : b \in buckets})
  IN  IF ~ r.empty THEN buckets = {} \/ query
      ELSE tags = {} \/ (buckets # {} /\ query)

-----------------------------------------------------------------------------
(* Ranges and dates, and the query of a request (_prepare_query_no_company).*)

Missing == 0
Open == 0

\* get_range_field_query: open at one end; with no minimum, documents without a value match.
RangeMatches(value, min, max) ==
  \/ min = Open /\ value = Missing
  \/ value # Missing /\ min <= value /\ (max # Open => value <= max)

Compares(value, modifier, bound) ==
  value # Missing /\ CASE modifier = ">=" -> value >= bound [] modifier = ">" -> value > bound
                       [] modifier = "<=" -> value <= bound [] modifier = "<" -> value < bound
                       [] OTHER -> value = bound

\* _get_dates_query: two dates without modifiers are a range; otherwise there is one
\* condition for each modifier, the last.
DatesMatch(value, dates) ==
  IF Len(dates) = 2 /\ dates[1].modifier = "" /\ dates[2].modifier = ""
    THEN RangeMatches(value, dates[1].bound, dates[2].bound)
    ELSE \A i \in DOMAIN dates :
           (\A j \in DOMAIN dates : j > i => dates[j].modifier # dates[i].modifier)
             => Compares(value, dates[i].modifier, dates[i].bound)

\* A request is refused whose list of values, or range, makes no sense.
Accepted(request) ==
  /\ "list" \in DOMAIN request => ReadList(request.list).valid
  /\ "range" \in DOMAIN request => request.range # <<Open, Open>>
  /\ "dates" \in DOMAIN request /\ Len(request.dates) = 2 =>
       ~ \A i \in 1..2 : request.dates[i] = [modifier |-> "", bound |-> Open]

\* All the conditions hold; a filter of a field comes instead of a list of its values.
Matches(tags, value, request) ==
  /\ "filter" \in DOMAIN request => FilterMatches(tags, request.filter)
  /\ "list" \in DOMAIN request /\ "filter" \notin DOMAIN request => ListMatches(tags, ReadList(request.list))
  /\ "range" \in DOMAIN request => RangeMatches(value, request.range[1], request.range[2])
  /\ "dates" \in DOMAIN request => DatesMatch(value, request.dates)

-----------------------------------------------------------------------------
(* What the documentation promises.                                        *)

\* schema/services/_common.conf: the terms of "any" are combined with "or", those of "all"
\* with "and", and op is between the parts if both are provided.
FilterMeans(tags, filter) ==
  LET holds(term)  == IF term = None THEN tags = {} ELSE term \in tags
      means(p)     == Combined(p = "any", {holds(x) : x \in filter[p].include} \cup
                                          {~ holds(x) : x \in filter[p].exclude})
      provided     == {p \in {"any", "all"} : filter[p].include \cup filter[p].exclude # {}}
  IN  provided = {} \/ Combined(filter.op = "or", {means(p) : p \in provided})

\* The documentation of get_list_field_query speaks of lists with one operator in front at
\* most, and of "-" (older clients) or "not" (newer ones) before a value.
Plain(list) ==
  \/ \A i \in DOMAIN list : list[i].kind \in {"value", "none", "minus"}
  \/ \A i \in DOMAIN list : list[i].kind \in {"value", "none"} \/
                              (list[i].kind = "operator" /\ (i = 1 \/ list[i].value = "__$not"))

\* Values are alternatives, or with "all" must all be there; what is excluded must not be.
ListMeans(tags, list) ==
  LET at(i)    == list[i].kind
      operator == IF list # <<>> /\ at(1) = "operator" THEN Operator(list[1].value) ELSE NoOperator
      nots     == {i \in 2..Len(list) : at(i) = "value" /\ at(i - 1) = "operator" /\ list[i - 1].value = "__$not"}
      excluded == {list[i].value : i \in nots \cup {j \in DOMAIN list : at(j) = "minus"}}
      included == {list[i].value : i \in {j \in DOMAIN list \ nots : at(j) = "value"}}
      present  == IF operator = "all" THEN included \subseteq tags ELSE included \cap tags # {}
      absent   == excluded \cap tags = {}
      query    == IF operator = "any" THEN (included # {} /\ present) \/ (excluded # {} /\ absent)
                  ELSE (included # {} => present) /\ absent
  IN  IF \E i \in DOMAIN list : at(i) = "none"
        THEN tags = {} \/ (included \cup excluded # {} /\ query)
        ELSE included \cup excluded = {} \/ query

\* Both ends of a range are included, and the documents without a value when there is no minimum.
RangeMeans(value, range) ==
  IF value = Missing THEN range[1] = Open
  ELSE value \in range[1]..(IF range[2] = Open THEN value ELSE range[2])

\* The documentation of dates speaks of values with an optional modifier each.
DatesMean(value, dates) ==
  \A i \in DOMAIN dates : Compares(value, dates[i].modifier, dates[i].bound)
OneEach(dates) ==
  /\ \A i, j \in DOMAIN dates : i # j => dates[i].modifier # dates[j].modifier
  /\ \A i \in DOMAIN dates : dates[i].bound # Open

\* A request that is accepted selects the documents that the schema and the docstrings
\* say: every filter, every list with one leading operator at most, an empty list of tags
\* and a document without a value included, every range, dates with different modifiers.
SelectedAsDocumented ==
  Accepted(asked) =>
    \A tags \in SUBSET FieldValues, value \in FieldKeys \cup {Missing} :
      \/ "list" \in DOMAIN asked /\ ~ Plain(asked.list)
      \/ "dates" \in DOMAIN asked /\ ~ OneEach(asked.dates)
      \/ Matches(tags, value, asked) <=>
           /\ "filter" \in DOMAIN asked => FilterMeans(tags, asked.filter)
           /\ "filter" \in DOMAIN asked \/ "list" \notin DOMAIN asked \/ ListMeans(tags, asked.list)
           /\ "range" \in DOMAIN asked => RangeMeans(value, asked.range)
           /\ "dates" \in DOMAIN asked => DatesMean(value, asked.dates)
=============================================================================
