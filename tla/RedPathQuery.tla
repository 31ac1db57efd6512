---------------------------- MODULE RedPathQuery ----------------------------
(***************************************************************************)
(* GetRedPath (query.cc): the objects that a RedPath leads to, with        *)
(* predicates read by themselves and not by ApplyPredicateRule.            *)
(*                                                                         *)
(* A step is [name, groups]; a group is the text of one pair of brackets,  *)
(* as in Predicates.  A condition is "yes", "no" or, where the code        *)
(* dereferences a null object or subscripts a string, "crash".             *)
(***************************************************************************)
EXTENDS RedfishNavigation

PR == INSTANCE Predicates

When(condition) == IF condition THEN "yes" ELSE "no"
\* The number a value is dumped as, in tenths.
Dumped(j) == IF Tag(j) = "int" THEN 10 * j.int ELSE j.float

\* Only a JSON number is a number when it is dumped.
InequalityFilterPropertyForNumbers(j, op, value) == When(IsNumber(j) /\ PR!TestLogicalOp(op, Dumped(j), value))

\* Every operator but "!=" asks for equality.
StringEqualityFilterProperty(same, op) == When(IF op = "!=" THEN ~same ELSE same)

\* json::empty()
Empty(j) == Tag(j) = "null" \/ (IsArray(j) /\ j.array = <<>>) \/ (IsObject(j) /\ DOMAIN j.object = {})

FilterOnPropertyWithValue(j, name, op, value) ==
  LET field == Field(j, name)
      reads == PR!ReadsAs(value)
  IN  CASE ~Has(j, name) -> "no"
        [] Has(j, name) /\ reads = "number" -> InequalityFilterPropertyForNumbers(field, op, value.number)
        [] Has(j, name) /\ reads \in {"true", "false"} -> StringEqualityFilterProperty(field = Bool(reads = "true"), op)
        [] Has(j, name) /\ reads = "null" -> StringEqualityFilterProperty(Empty(field), op)
        [] OTHER -> StringEqualityFilterProperty(field = Str(PR!TextOf(value)), op)

RECURSIVE FilterOnPropertyContainingChild(_, _)
\* elems are the parts of the text between "." and "="; the last one is known
\* by its value, and is a name, a value, or either.
FilterOnPropertyContainingChild(j, elems) ==
  LET elem == Head(elems)
      last == elem = elems[Len(elems)]
  IN  IF elems = <<>> THEN "yes"
      ELSE CASE last /\ Tag(j) = "null" -> When(elem = "null")
             [] last /\ IsNumber(j) -> When(PR!TextOf([number |-> Dumped(j)]) = elem)
             [] last /\ Tag(j) = "bool" -> When(j.bool = (elem # "false"))
             [] OTHER ->
                  IF ~Has(j, elem) /\ j # Str(elem) THEN "no"
                  ELSE IF last THEN FilterOnPropertyContainingChild(j, Tail(elems))
                  ELSE IF ~Has(j, elem) THEN "crash"
                  ELSE FilterOnPropertyContainingChild(Field(j, elem), Tail(elems))

\* The text of a dotted expression split at "." and "=".  The rest of another
\* operator stays on the name before it, as the "!" of a negation does, and
\* makes it the name of nothing; "<" and ">" take the value with them.
SegmentNames(e) == [i \in DOMAIN e.name |-> e.name[i].name]
Garbled(names, at) == [names EXCEPT ![at] = "garbled"]
SplitAtDotsAndEquals(e) ==
  LET names == SegmentNames(e) IN
  IF e.type = "exists" THEN IF e.not THEN Garbled(names, 1) ELSE names
  ELSE IF e.op = "=" THEN Append(names, PR!TextOf(e.value))
  ELSE IF e.op \in {"<", ">"} THEN Garbled(names, Len(names))
  ELSE Append(Garbled(names, Len(names)), PR!TextOf(e.value))

\* What kRedPathRegex has no characters for ends the query.
Malformed(step) ==
  \E g \in DOMAIN step.groups : \E i \in DOMAIN step.groups[g] :
    /\ step.groups[g][i].type = "rel"
    /\ \/ step.groups[g][i].op \in PR!FuzzyOperators
       \/ PR!ReadsAs(step.groups[g][i].value) \in {"date", "quoted", "variable"}

\* The branches of GetRedPath for an expression about properties.  Of several
\* joined expressions the first is taken with the rest as its value, if no
\* other compares; or else nothing is selected.
ConditionOn(j, text) ==
  LET e == text[1]
      dotted == Len(e.name) > 1
      odata == e.name[1].name = "@odata.id"
  IN  IF Len(text) > 1
      THEN IF Cardinality(PR!Relations(text)) = 1 /\ e.type = "rel" /\ ~dotted /\ ~odata
           THEN FilterOnPropertyWithValue(j, e.name[1].name, e.op, [string |-> "joined"]) ELSE "no"
      ELSE IF e.type = "rel" /\ ~dotted /\ ~odata THEN FilterOnPropertyWithValue(j, e.name[1].name, e.op, e.value)
      ELSE IF dotted THEN FilterOnPropertyContainingChild(j, SplitAtDotsAndEquals(e))
      ELSE When(e.type = "exists" /\ ~e.not /\ Has(j, e.name[1].name))

Condition(v, text) ==
  IF text[1].type = "all" THEN "yes"
  ELSE IF ~AsObject(v) THEN "crash"
  ELSE ConditionOn(v.body, text)

\* ApplyFilter: to the members of what can be iterated, or to the value itself.
Candidates(service, v) ==
  IF AsIterable(v) THEN [i \in DOMAIN Elements(v) |-> Element(service, v, i - 1, "resolve", NoParams)] ELSE <<v>>
ApplyFilter(candidates, text) ==
  [crash |-> \E i \in DOMAIN candidates : Condition(candidates[i], text) = "crash",
   passed |-> SelectSeq(candidates, LAMBDA v : Condition(v, text) = "yes")]

\* Of several pairs of brackets the last counts.
Step(service, v, step) ==
  LET text == step.groups[Len(step.groups)] IN
  IF step.groups = <<>> THEN [crash |-> FALSE, passed |-> <<v>>]
  ELSE IF text[1].type = "last"
  THEN [crash |-> FALSE,
        passed |-> IF AsIterable(v) THEN <<Index(service, v, At(Len(Elements(v)) - 1))>> ELSE <<>>]
  ELSE IF text[1].type = "index" THEN [crash |-> FALSE, passed |-> <<Index(service, v, At(text[1].at))>>]
  ELSE ApplyFilter(Candidates(service, v), text)

RECURSIVE Walk(_, _, _)
\* The loop over the steps, and the callbacks: a failed value is no object, and
\* a callback that returns kStop sees a prefix.
Advanced(service, taken, steps) ==
  IF \E i \in DOMAIN taken : taken[i].crash THEN [crash |-> TRUE, objects |-> <<>>]
  ELSE Walk(service, FlattenSeq([i \in DOMAIN taken |-> taken[i].passed]), steps)
Walk(service, passed, steps) ==
  IF steps = <<>> THEN [crash |-> FALSE, objects |-> SelectSeq(passed, AsObject)]
  ELSE IF Malformed(Head(steps)) \/ passed = <<>> THEN [crash |-> FALSE, objects |-> <<>>]
  ELSE Advanced(service, [i \in DOMAIN passed |-> Step(service, Index(service, passed[i], Name(Head(steps).name)), Head(steps))],
                Tail(steps))

GetRedPath(service, root, steps) == Walk(service, <<root>>, steps)
=============================================================================
