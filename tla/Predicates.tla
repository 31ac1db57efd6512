----------------------------- MODULE Predicates -----------------------------
(***************************************************************************)
(* The predicates of RedPath steps: what they accept, how they are parsed  *)
(* and printed, how variables are put into them, and the $filter string    *)
(* that asks a service for the same thing.                                 *)
(*                                                                         *)
(* The text of a predicate is a sequence of symbols with a type: "(", ")", *)
(* " ", "and", "or" or an expression, which is one of                      *)
(*   [type |-> "rel", name, op, value]  a property compared with a value   *)
(*   [type |-> "exists", name, not]     a property that is there, or not   *)
(*   [type |-> "all" | "last"], [type |-> "index", at]                     *)
(* A name is a sequence of segments [name, index]; index is -1 when there  *)
(* is none.  A value is a record named for what its text reads as: number, *)
(* date, true, false, null, string, quoted, or variable.                   *)
(***************************************************************************)
EXTENDS Integers, Sequences, FiniteSets, SequencesExt, TLC

J == INSTANCE Json

Ok(value) == [status |-> "ok", value |-> value]
Fails(status) == [status |-> status]

Symbol(type) == [type |-> type]
\* The logical operators.
Operators == {"and", "or"}
Rel(name, op, value) == [type |-> "rel", name |-> name, op |-> op, value |-> value]
Exists(name, not) == [type |-> "exists", name |-> name, not |-> not]
All == Symbol("all")

-----------------------------------------------------------------------------
(* path_util.cc *)

\* One segment.  The subscript of a non-const json grows an array, or makes
\* one of null: what is out of range is null.  It throws on anything else.
ProcessNodeName(j, segment) ==
  LET field == J!Field(j, segment.name) IN
  IF ~J!Has(j, segment.name) THEN Fails("internal")
  ELSE IF segment.index < 0 THEN Ok(field)
  ELSE IF J!IsArray(field) /\ segment.index < Len(field.array) THEN Ok(field.array[segment.index + 1])
  ELSE IF J!IsArray(field) \/ J!Tag(field) = "null" THEN Ok(J!Null)
  ELSE Fails("throws")

RECURSIVE ResolveRedPathNodeToJson(_, _)
ResolveRedPathNodeToJson(j, names) ==
  IF names = <<>> THEN Fails("internal")
  ELSE LET here == ProcessNodeName(j, Head(names)) IN
       IF here.status # "ok" \/ Len(names) = 1 THEN here
       ELSE ResolveRedPathNodeToJson(here.value, Tail(names))

-----------------------------------------------------------------------------
(* util.cc.  A string is spelled as a sequence of characters, by their     *)
(* codes, and of numbers, in tenths.                                       *)

Digit(c) == "number" \in DOMAIN c
\* static_cast<int> of a double
Truncated(tenths) == IF tenths >= 0 THEN tenths \div 10 ELSE -((-tenths) \div 10)
Difference(c, d) == IF Digit(c) THEN Truncated(c.number - d.number) ELSE c.code - d.code

RECURSIVE FuzzyStringComparison(_, _)
FuzzyStringComparison(lhs, rhs) ==
  IF lhs = <<>> /\ rhs = <<>> THEN 0
  ELSE IF rhs = <<>> THEN -1
  ELSE IF lhs = <<>> THEN 1
  ELSE IF Digit(lhs[1]) # Digit(rhs[1]) THEN IF Digit(lhs[1]) THEN -1 ELSE 1
  ELSE IF Difference(lhs[1], rhs[1]) # 0 THEN Difference(lhs[1], rhs[1])
  ELSE FuzzyStringComparison(Tail(lhs), Tail(rhs))

-----------------------------------------------------------------------------
(* What the strings of documents read as. *)

\* absl::SimpleAtod
Atod(s) == CASE s = "5" -> <<50>> [] s = "7" -> <<70>> [] OTHER -> <<>>
Letter(code) == [code |-> code]
Figure(tenths) == [number |-> tenths]
Spelling(s) ==
  CASE s = "fan2" -> <<Letter(102), Figure(20)>>
    [] s = "fan10" -> <<Letter(102), Figure(100)>>
    [] s = "fan" -> <<Letter(102)>>
    [] s = "5" -> <<Figure(50)>>
    [] OTHER -> <<Letter(97)>>
\* The instant of a date, and whether it has an offset or Z.
Instant(s) ==
  CASE s = "noon" -> <<[at |-> 12, offset |-> FALSE]>>
    [] s = "noonZ" -> <<[at |-> 12, offset |-> TRUE]>>
    [] s = "laterZ" -> <<[at |-> 13, offset |-> TRUE]>>
    [] OTHER -> <<>>

-----------------------------------------------------------------------------
(* predicates.cc: one comparison *)

TestLogicalOp(op, lhs, rhs) ==
  CASE op = ">=" -> lhs >= rhs
    [] op = ">" -> lhs > rhs
    [] op = "<=" -> lhs <= rhs
    [] op = "<" -> lhs < rhs
    [] op = "!=" -> lhs # rhs
    [] OTHER -> lhs = rhs

FuzzyOperators == {"~>", "<~", "~>=", "<~="}
ApplyFuzzyStringComparisonFilter(op, lhs, rhs) ==
  LET c == FuzzyStringComparison(Spelling(lhs), Spelling(rhs)) IN
  Ok(CASE op = "~>" -> c > 0 [] op = "~>=" -> c >= 0 [] op = "<~" -> c < 0 [] op = "<~=" -> c <= 0)

\* A string is parsed; get<std::string>() of anything else throws.
ApplyNumberComparisonFilter(op, j, rhs) ==
  CASE J!IsNumber(j) -> Ok(TestLogicalOp(op, IF J!Tag(j) = "int" THEN 10 * j.int ELSE j.float, rhs))
    [] J!Tag(j) = "string" /\ Atod(j.string) # <<>> -> Ok(TestLogicalOp(op, Atod(j.string)[1], rhs))
    [] J!IsString(j) -> Fails("invalid")
    [] OTHER -> Fails("throws")

\* The property must say its offset; the predicate need not.
ApplyDateTimeComparisonFilter(op, lhs, rhs) ==
  IF Instant(lhs) # <<>> /\ Instant(lhs)[1].offset
  THEN Ok(TestLogicalOp(op, Instant(lhs)[1].at, Instant(rhs)[1].at)) ELSE Fails("internal")

\* Every operator but "!=" asks for equality.
ApplyStringComparisonFilter(condition, op) == Ok(IF op = "!=" THEN ~condition ELSE condition)

ReadsAs(value) == CHOOSE k \in DOMAIN value : TRUE
\* The text of a value: test_value.
TextOf(value) ==
  CASE ReadsAs(value) = "number" -> CHOOSE s \in {"5", "7", "other"} : Atod(s) = <<value.number>> \/ s = "other"
    [] ReadsAs(value) \in {"true", "false", "null"} -> ReadsAs(value)
    [] OTHER -> value[ReadsAs(value)]

Compare(j, op, value) ==
  LET reads == ReadsAs(value) IN
  CASE reads = "date" -> IF J!Tag(j) = "string" THEN ApplyDateTimeComparisonFilter(op, j.string, value.date) ELSE Ok(FALSE)
    [] reads # "date" /\ op \in FuzzyOperators ->
         IF J!Tag(j) = "string" THEN ApplyFuzzyStringComparisonFilter(op, j.string, TextOf(value)) ELSE Ok(FALSE)
    [] OTHER ->
         CASE reads = "number" -> ApplyNumberComparisonFilter(op, j, value.number)
           [] reads = "false" -> ApplyStringComparisonFilter(j = J!Bool(FALSE), op)
           [] reads = "true" -> ApplyStringComparisonFilter(j = J!Bool(TRUE), op)
           [] reads = "null" -> ApplyStringComparisonFilter(J!Tag(j) = "null", op)
           [] OTHER -> ApplyStringComparisonFilter(j = J!Str(TextOf(value)), op)

\* The pattern of a comparison has no brackets and no dollar sign.  A property
\* that is not there never compares, not even as different.
PredicateFilterByNodeComparison(j, e) ==
  LET got == ResolveRedPathNodeToJson(j, e.name) IN
  IF ReadsAs(e.value) = "variable" \/ \E i \in DOMAIN e.name : e.name[i].index >= 0 THEN Fails("invalid")
  ELSE IF got.status # "ok" THEN Ok(FALSE)
  ELSE Compare(got.value, e.op, e.value)

\* A segment with an index is looked up as it stands, brackets and all.
RECURSIVE PredicateFilterByNodeName(_, _)
PredicateFilterByNodeName(j, names) ==
  names = <<>> \/ (/\ Head(names).index < 0 /\ J!Has(j, Head(names).name)
                   /\ PredicateFilterByNodeName(J!Field(j, Head(names).name), Tail(names)))

\* options: the node_index and the node_set_size.
Single(j, e, options) ==
  CASE e.type = "all" -> Ok(TRUE)
    [] e.type = "last" -> Ok(options.index = options.size - 1)
    [] e.type = "index" -> Ok(e.at = options.index)
    [] e.type = "rel" -> PredicateFilterByNodeComparison(j, e)
    [] e.type = "exists" -> Ok(PredicateFilterByNodeName(j, e.name) # e.not)

-----------------------------------------------------------------------------
(* predicates.cc: a whole predicate *)

RECURSIVE Split(_)
\* The stretches between spaces, the empty ones left out.
Split(text) ==
  LET spaces == {i \in DOMAIN text : text[i].type = " "}
      end == IF spaces = {} THEN Len(text) + 1 ELSE CHOOSE i \in spaces : \A k \in spaces : i <= k
  IN  IF text = <<>> THEN <<>>
      ELSE (IF end = 1 THEN <<>> ELSE <<SubSeq(text, 1, end - 1)>>) \o Split(SubSeq(text, end + 1, Len(text)))

\* How many of s lead chunk, and how many end it.
Leading(chunk, s) == Cardinality({k \in DOMAIN chunk : \A i \in 1 .. k : chunk[i].type = s})
Trailing(chunk, s) == Cardinality({k \in DOMAIN chunk : \A i \in k .. Len(chunk) : chunk[i].type = s})

\* A value is joined to what has been read by the operator between them.
Join(value, op, next) == IF op = "or" THEN value \/ next ELSE value /\ next

RECURSIVE PopStates(_, _)
PopStates(state, count) ==
  IF count = 0 THEN state
  ELSE IF state.stack = <<>> THEN [state EXCEPT !.status = "invalid"]
  ELSE PopStates([state EXCEPT !.value = Join(@, state.stack[1].op, state.stack[1].value), !.stack = Tail(@)], count - 1)

\* Every "(" of a stretch saves the state before all of them.
Opened(state, count) ==
  IF count = 0 THEN state
  ELSE [state EXCEPT !.stack = [i \in 1 .. count |-> [value |-> state.value, op |-> IF state.op = "" THEN "and" ELSE state.op]] \o @,
                     !.value = TRUE, !.op = "and", !.depth = @ + count]

Applied(state, got, close) ==
  IF got.status # "ok" THEN [state EXCEPT !.status = got.status]
  ELSE PopStates([state EXCEPT !.value = Join(@, state.op, got.value), !.op = ""], close)

\* word is what is left of a stretch without its parentheses.  A stretch of
\* ")" alone closes its groups without applying what they saved.
Word(j, options, state, word, close) ==
  IF word = <<>> THEN state
  ELSE IF word[1].type \in Operators
  THEN IF state.op # "" THEN [state EXCEPT !.status = "invalid"] ELSE [state EXCEPT !.op = word[1].type]
  ELSE IF state.op = "" \/ Len(word) > 1 THEN [state EXCEPT !.status = "invalid"]
  ELSE Applied(state, Single(j, word[1], options), close)

Stretch(j, options, state, chunk, open, close) ==
  Word(j, options, [Opened(state, open) EXCEPT !.depth = @ - close],
       SubSeq(chunk, open + 1, Len(chunk) - close), close)

RECURSIVE Evaluate(_, _, _, _)
Evaluate(j, options, state, chunks) ==
  IF chunks = <<>> \/ state.status # "ok" THEN state
  ELSE Evaluate(j, options,
                Stretch(j, options, state, chunks[1], Leading(chunks[1], "("), Trailing(chunks[1], ")")),
                Tail(chunks))

ApplyPredicateRule(j, text, options) ==
  LET end == Evaluate(j, options, [value |-> TRUE, op |-> "and", stack |-> <<>>, depth |-> 0, status |-> "ok"], Split(text))
  IN  IF text = <<>> THEN Fails("invalid")
      ELSE IF end.status # "ok" THEN Fails(end.status)
      ELSE IF end.depth # 0 THEN Fails("invalid")
      ELSE Ok(end.value)

-----------------------------------------------------------------------------
(* predicate_object.cc.  A predicate object is [leaf, ops, children]; leaf *)
(* is the text of a relational expression, <<>> when there is none.        *)

Object(leaf, ops, children) == [leaf |-> leaf, ops |-> ops, children |-> children]
Leaf(text) == Object(text, <<>>, <<>>)

Relations(text) == {i \in DOMAIN text : text[i].type = "rel"}
\* kRelationalExpressionRegex: what follows the one operator may hold spaces
\* and words, what precedes it anything but spaces.
OneRelation(text) ==
  /\ Cardinality(Relations(text)) = 1
  /\ \A i \in Relations(text) : \A k \in 1 .. i : text[k].type # " "
  /\ \A i \in DOMAIN text : text[i].type = "exists" => ~text[i].not
OneExistence(text) == Len(text) = 1 /\ text[1].type = "exists"
IsRelationalExpression(text) == OneRelation(text) \/ OneExistence(text)

\* GetChildPredicate: where the group that is opened before start is closed.
Level(text, i, k) ==
  Cardinality({l \in i .. k : text[l].type = "("}) - Cardinality({l \in i .. k : text[l].type = ")"})
Closing(text, start) == {k \in start .. Len(text) : Level(text, start, k) = -1}

\* GetChildRelationalExpression: up to the next space.
Until(text, start) ==
  CHOOSE e \in start .. Len(text) + 1 :
    /\ e = Len(text) + 1 \/ text[e].type = " "
    /\ \A k \in start .. e - 1 : text[k].type # " "

LogicalOperatorAt(text, i) ==
  i + 2 <= Len(text) /\ text[i].type = " " /\ text[i + 1].type \in Operators /\ text[i + 2].type = " "

RECURSIVE CreatePredicateObject(_)
RECURSIVE Children(_, _, _)

\* A child and, unless the text ends with it, the operator after it.
After(text, object, child, next) ==
  IF child.status # "ok" THEN child
  ELSE LET longer == [object EXCEPT !.children = Append(@, child.value)] IN
       IF next > Len(text) THEN Ok(longer)
       ELSE IF ~LogicalOperatorAt(text, next) THEN Fails("invalid")
       ELSE Children(text, [longer EXCEPT !.ops = Append(@, text[next + 1].type)], next + 3)

\* The loop; index is where it has come to.  The group that is not closed is
\* taken for an empty one, and no operator follows it.
Children(text, object, index) ==
  IF index > Len(text) THEN Ok(object)
  ELSE IF text[index].type = "("
  THEN LET closing == Closing(text, index + 1)
           close == CHOOSE k \in closing : \A l \in closing : k <= l
       IN  IF closing = {} THEN Fails("invalid")
           ELSE After(text, object, CreatePredicateObject(SubSeq(text, index + 1, close - 1)), close + 1)
  ELSE LET part == SubSeq(text, index, Until(text, index) - 1) IN
       After(text, object, IF IsRelationalExpression(part) THEN Ok(Leaf(part)) ELSE Fails("invalid"),
             Until(text, index))

CreatePredicateObject(text) ==
  IF IsRelationalExpression(text) THEN Ok(Leaf(text)) ELSE Children(text, Leaf(<<>>), 1)

RECURSIVE PredicateObjectToString(_)
\* A group of one expression loses its parentheses.
ChildToString(child) ==
  IF child.children = <<>> THEN child.leaf
  ELSE IF Len(child.children) = 1 /\ child.children[1].children = <<>> THEN child.children[1].leaf
  ELSE <<Symbol("(")>> \o PredicateObjectToString(child) \o <<Symbol(")")>>
OperatorToString(object, i) ==
  IF i <= Len(object.ops) THEN <<Symbol(" "), Symbol(object.ops[i]), Symbol(" ")>> ELSE <<>>
PredicateObjectToString(object) ==
  IF object.children # <<>>
  THEN FlattenSeq([i \in DOMAIN object.children |-> ChildToString(object.children[i]) \o OperatorToString(object, i)])
  ELSE IF object.leaf = <<>> THEN <<All>> ELSE object.leaf

-----------------------------------------------------------------------------
(* variable_substitution.cc.  variables maps names to sequences of values, *)
(* in the order of the names; no name is the beginning of another.         *)

IsVariable(s, variable) == s.type = "rel" /\ s.value = [variable |-> variable]
HasVariable(text) == \E i \in DOMAIN text : text[i].type = "rel" /\ ReadsAs(text[i].value) = "variable"

\* Where the expression begins of which text[at] is the end: after the last
\* space, its opening parentheses included, or after those of the text.
ExpressionStart(text, at) ==
  LET spaces == {k \in 1 .. at - 1 : text[k].type = " "} IN
  IF spaces = {} THEN Leading(text, "(") + 1 ELSE 1 + CHOOSE k \in spaces : \A l \in spaces : l <= k

\* Each value after everything that precedes the variable in its expression.
Alternatives(before, e, values) ==
  <<Symbol("(")>>
    \o FlattenSeq([i \in DOMAIN values |->
         (IF i = 1 THEN <<>> ELSE <<Symbol(" "), Symbol("or"), Symbol(" ")>>)
           \o before \o <<[e EXCEPT !.value = values[i]]>>])
    \o <<Symbol(")")>>

\* Only what equals the expression of the first occurrence is replaced.
ReplaceMultiValueVariables(text, values, at) ==
  LET start == ExpressionStart(text, at)
      before == SubSeq(text, start, at - 1)
      same == {i \in DOMAIN text : i > Len(before) /\ SubSeq(text, i - Len(before), i) = Append(before, text[at])}
      inside == {i \in DOMAIN text : \E k \in same : i \in k - Len(before) .. k - 1}
  IN  FlattenSeq([i \in DOMAIN text |->
        IF i \in same THEN Alternatives(before, text[i], values) ELSE IF i \in inside THEN <<>> ELSE <<text[i]>>])

ReplaceVariable(text, variable, values) ==
  LET places == {i \in DOMAIN text : IsVariable(text[i], variable)} IN
  IF places = {} \/ values = <<>> THEN text
  ELSE IF Len(values) = 1
  THEN [i \in DOMAIN text |-> IF i \in places THEN [text[i] EXCEPT !.value = values[1]] ELSE text[i]]
  ELSE ReplaceMultiValueVariables(text, values, CHOOSE i \in places : \A k \in places : i <= k)

RECURSIVE RemoveUnpopulatedExpressions(_)
\* Mutant of OperatorBefore: the operators are taken in order, whatever was dropped.
OperatorInOrder(kept, ops, i) == ops[Cardinality({k \in kept : k < i})]
\* A child that stays keeps the operator before it, but for the first.
OperatorBefore(kept, ops, i) == ops[i - 1]
RemoveUnpopulatedExpressions(object) ==
  LET child == [i \in DOMAIN object.children |->
                  IF object.children[i].leaf # <<>> THEN object.children[i]
                  ELSE RemoveUnpopulatedExpressions(object.children[i])]
      kept == {i \in DOMAIN child :
                 IF child[i].leaf # <<>> THEN ~HasVariable(child[i].leaf) ELSE child[i].children # <<>>}
      order == SetToSortSeq(kept, <)
  IN  [object EXCEPT !.children = [n \in DOMAIN order |-> child[order[n]]],
                     !.ops = [n \in 1 .. Len(order) - 1 |-> OperatorBefore(kept, object.ops, order[n + 1])]]

\* A predicate that reads as one relational expression becomes "*".
InvalidateUnpopulatedVariables(text) ==
  LET object == CreatePredicateObject(text) IN
  IF object.status # "ok" THEN object
  ELSE IF object.value.leaf # <<>> THEN Ok(<<All>>)
  ELSE Ok(PredicateObjectToString(RemoveUnpopulatedExpressions(object.value)))

RECURSIVE ReplaceVariables(_, _, _)
ReplaceVariables(text, names, variables) ==
  IF names = <<>> THEN text
  ELSE ReplaceVariables(ReplaceVariable(text, Head(names), variables[Head(names)]), Tail(names), variables)

SubstituteVariables(text, names, variables) ==
  LET replaced == ReplaceVariables(text, names, variables) IN
  IF HasVariable(replaced) THEN InvalidateUnpopulatedVariables(replaced) ELSE Ok(replaced)

-----------------------------------------------------------------------------
(* Variables in the older planner (dellicius/engine/internal): the first   *)
(* value is taken, and what still has a variable is cut out by stretches,  *)
(* parentheses and all, with the operator after it or, at the end, before. *)

RECURSIVE CutOut(_, _, _, _)
CutOut(chunks, index, skip, kept) ==
  IF index > Len(chunks) THEN kept
  ELSE IF skip THEN CutOut(chunks, index + 1, FALSE, kept)
  ELSE IF ~HasVariable(chunks[index]) THEN CutOut(chunks, index + 1, FALSE, Append(kept, chunks[index]))
  ELSE IF index < Len(chunks) THEN CutOut(chunks, index + 1, TRUE, kept)
  ELSE IF kept = <<>> THEN <<<<All>>>> ELSE Front(kept)

WithSpaces(chunks) ==
  FlattenSeq([i \in DOMAIN chunks |-> IF i = 1 THEN chunks[i] ELSE <<Symbol(" ")>> \o chunks[i]])

CutUnpopulatedVariables(text) ==
  IF Len(Split(text)) = 1 THEN <<All>> ELSE WithSpaces(CutOut(Split(text), 1, FALSE, <<>>))

FirstValues(variables) ==
  [v \in DOMAIN variables |-> IF variables[v] = <<>> THEN <<>> ELSE <<variables[v][1]>>]

SubstituteFirstValues(text, names, variables) ==
  LET replaced == ReplaceVariables(text, names, FirstValues(variables)) IN
  IF HasVariable(replaced) THEN CutUnpopulatedVariables(replaced) ELSE replaced

-----------------------------------------------------------------------------
(* filter.cc.  In a $filter string every relation has the operator of its  *)
(* OData name, and its value is quoted unless it is a number or a boolean. *)

FilterOperator(op) ==
  CASE op \in {"<", "<~"} -> "lt" [] op \in {">", "~>"} -> "gt" [] op \in {"<=", "<~="} -> "le"
    [] op \in {">=", "~>="} -> "ge" [] op = "=" -> "eq" [] op = "!=" -> "ne"

QuotedValue(value) ==
  IF ReadsAs(value) \in {"number", "true", "false", "quoted"} THEN value ELSE [quoted |-> TextOf(value)]

ApplyTransformsToExpression(e) ==
  [e EXCEPT !.op = FilterOperator(@), !.value = QuotedValue(@)]

\* What surrounds the relation of a leaf is part of its two sides: quoted with
\* the right one, so that it is no more than a value that nothing has.
Transformed(leaf) ==
  IF Len(leaf) = 1 THEN <<ApplyTransformsToExpression(leaf[1])>>
  ELSE LET i == CHOOSE k \in Relations(leaf) : TRUE IN
       <<[ApplyTransformsToExpression(leaf[i]) EXCEPT !.value = [quoted |-> "other"]]>>

\* No expression at all is a pair of quotes.
LeafFilter(leaf) ==
  IF leaf = <<>> THEN Ok(<<Symbol("quotes")>>)
  ELSE IF leaf[1].type = "exists" THEN Fails("invalid")
  ELSE Ok(Transformed(leaf))

RECURSIVE GenerateFilterString(_)
ChildFilter(child) ==
  IF child.children = <<>> THEN LeafFilter(child.leaf)
  ELSE LET inner == GenerateFilterString(child) IN
       IF inner.status # "ok" THEN inner ELSE Ok(<<Symbol("(")>> \o inner.value \o <<Symbol(")")>>)
GenerateFilterString(object) ==
  IF object.children = <<>> THEN LeafFilter(object.leaf)
  ELSE LET parts == [i \in DOMAIN object.children |-> ChildFilter(object.children[i])] IN
       IF \E i \in DOMAIN parts : parts[i].status # "ok" THEN Fails("invalid")
       ELSE Ok(FlattenSeq([i \in DOMAIN parts |-> parts[i].value \o OperatorToString(object, i)]))

BuildFilterFromRedpathPredicate(text) ==
  LET object == CreatePredicateObject(text) IN
  IF object.status # "ok" THEN object ELSE GenerateFilterString(object.value)

\* A list is joined with "or".
BuildFilterFromRedpathPredicateList(texts) ==
  LET filters == [i \in DOMAIN texts |-> BuildFilterFromRedpathPredicate(texts[i])] IN
  IF \E i \in DOMAIN filters : filters[i].status # "ok" THEN Fails("invalid")
  ELSE Ok(FlattenSeq([i \in DOMAIN filters |->
         (IF i = 1 THEN <<>> ELSE <<Symbol(" "), Symbol("or"), Symbol(" ")>>) \o filters[i].value]))
=============================================================================
