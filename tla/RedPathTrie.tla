----------------------------- MODULE RedPathTrie -----------------------------
(***************************************************************************)
(* How a query becomes a plan: its subqueries are joined along their root  *)
(* ids (join.cc), every joined sequence is inserted into a prefix tree of  *)
(* RedPath expressions (redpath_trie.cc), and the freshness the subqueries *)
(* ask for is merged into the query parameters of the RedPath prefixes     *)
(* (CombineQueryParams).                                                   *)
(*                                                                         *)
(* A query is a function from subquery ids to records                      *)
(*   [roots, kind, redpath, target, fresh, raw]                            *)
(* roots is the sequence of root_subquery_ids.  A redpath is a sequence of *)
(* tokens: "/", "[", "]" and words; the words between brackets are the     *)
(* predicate.  target is the pointer or URI of the other two kinds.  A     *)
(* trie node is the sequence of expressions that leads to it.              *)
(***************************************************************************)
EXTENDS Integers, Sequences, FiniteSets, SequencesExt

CONSTANTS
  Less(_, _),   \* the order of RedPath prefixes as strings
  Begins(_, _)  \* a node name's text begins another's, as Sys does System

-----------------------------------------------------------------------------
(* join.cc *)

BuildParentChildSubqueryMap(query) ==
  [p \in DOMAIN query |-> {c \in DOMAIN query : p \in ToSet(query[c].roots)}]

GetRootSubqueries(query) == {q \in DOMAIN query : query[q].roots = <<>>}

\* The sequences JoinSubqueriesFromGivenRoot grows from a root subquery: each id
\* after the first is a child of the one before it, and none is met twice.
JoinSubqueriesFromGivenRoot(query) ==
  {s \in UNION {[1 .. n -> DOMAIN query] : n \in 1 .. Cardinality(DOMAIN query)} :
     /\ s[1] \in GetRootSubqueries(query)
     /\ \A i \in 1 .. Len(s) - 1 : s[i] \in ToSet(query[s[i + 1]].roots)
     /\ \A i, j \in DOMAIN s : s[i] = s[j] => i = j}

\* A sequence that would meet one of its own ids again is a loop; those that end
\* in a leaf are the joined subqueries.  A subquery below a cycle that no root
\* reaches is silently left out.
JoinSubqueries(query) ==
  LET sequences == JoinSubqueriesFromGivenRoot(query)
      children(s) == BuildParentChildSubqueryMap(query)[s[Len(s)]]
  IN  IF GetRootSubqueries(query) = {} THEN [status |-> "invalid", joined |-> {}]
      ELSE IF \E s \in sequences : children(s) \intersect ToSet(s) # {}
      THEN [status |-> "internal", joined |-> {}]
      ELSE [status |-> "ok", joined |-> {s \in sequences : children(s) = {}}]

-----------------------------------------------------------------------------
(* redpath_trie.cc *)

Expression(type, e) == [type |-> type, expression |-> e]

\* Number of brackets open before position i.
Depth(redpath, i) ==
  Cardinality({j \in 1 .. i - 1 : redpath[j] = "["})
    - Cardinality({j \in 1 .. i - 1 : redpath[j] = "]"})

WellBracketed(redpath) ==
  /\ \A i \in 1 .. Len(redpath) + 1 : Depth(redpath, i) \in {0, 1}
  /\ Depth(redpath, Len(redpath) + 1) = 0

\* Where a step ends: at a slash, unless a predicate holds it, and at the end.
Cuts(redpath) ==
  {i \in DOMAIN redpath : redpath[i] = "/" /\ Depth(redpath, i) = 0} \union {Len(redpath) + 1}

\* The stretch between cut i and the one before it.
Step(redpath, i) ==
  SubSeq(redpath, Max({j \in Cuts(redpath) \union {0} : j < i}) + 1, i - 1)

\* Everything a sequence of sequences holds, as FlattenSeq, by recursion over
\* its length.
Concatenation(parts) ==
  LET whole[k \in 0 .. Len(parts)] == IF k = 0 THEN <<>> ELSE whole[k - 1] \o parts[k]
  IN  whole[Len(parts)]

\* kLocationStepRegex: a node name or none, then a bracketed predicate or none.
Opening(step) ==
  CHOOSE i \in 1 .. Len(step) + 1 :
    /\ i = Len(step) + 1 \/ step[i] = "["
    /\ \A j \in 1 .. i - 1 : step[j] # "["

LocationStep(step) ==
  LET o == Opening(step)
  IN  /\ o <= 2
      /\ o <= Len(step) => step[Len(step)] = "]"

Expressions(step) ==
  LET o == Opening(step)
      predicate == SubSeq(step, o + 1, Len(step) - 1)
  IN  <<Expression("node", SubSeq(step, 1, o - 1))>>
        \o IF predicate = <<>> THEN <<>> ELSE <<Expression("predicate", predicate)>>

\* Empty steps add nothing.
SplitRedPath(redpath) ==
  IF WellBracketed(redpath)
     /\ \A i \in Cuts(redpath) : Step(redpath, i) # <<>> => LocationStep(Step(redpath, i))
  THEN [status |-> "ok",
        expressions |-> Concatenation([i \in 1 .. Len(redpath) + 1 |->
          IF i \in Cuts(redpath) /\ Step(redpath, i) # <<>> THEN Expressions(Step(redpath, i))
          ELSE <<>>])]
  ELSE [status |-> "invalid", expressions |-> <<>>]

\* The expressions a subquery adds to those of the subqueries before it.
SubqueryExpressions(subquery) ==
  CASE subquery.kind = "redpath" -> SplitRedPath(subquery.redpath)
    [] subquery.kind = "pointer" ->
         [status |-> "ok", expressions |-> <<Expression("pointer", subquery.target)>>]
    [] subquery.kind = "uri" ->
         [status |-> "ok", expressions |-> <<Expression("uri", subquery.target)>>]

\* Where the k-th subquery of a joined sequence ends.
EndNode(query, seq, k) ==
  Concatenation([i \in 1 .. k |-> SubqueryExpressions(query[seq[i]]).expressions])

\* ProcessSubquerySequence: the nodes InsertRedPathExpressions makes or meets,
\* and the subquery ids it sets.
SequenceEnds(query, seq) ==
  {[node |-> EndNode(query, seq, k), id |-> seq[k]] : k \in DOMAIN seq}

\* Two subqueries may not end in the same node.
TrieConflict(ends) == \E x, y \in ends : x.node = y.node /\ x.id # y.id

\* The subquery id of a node in which no subquery ends.
NoSubquery == ""

CreateRedPathTrie(query) ==
  LET join == JoinSubqueries(query)
      used == UNION {ToSet(s) : s \in join.joined}
      ends == UNION {SequenceEnds(query, s) : s \in join.joined}
      nodes == {<<>>} \union UNION {{SubSeq(x.node, 1, k) : k \in 0 .. Len(x.node)} : x \in ends}
  IN  IF join.status # "ok" THEN [status |-> join.status]
      ELSE IF \E q \in used : SubqueryExpressions(query[q]).status # "ok"
      THEN [status |-> "invalid"]
      ELSE IF TrieConflict(ends) THEN [status |-> "invalid"]
      ELSE [status |-> "ok", nodes |-> nodes, joined |-> join.joined,
            subquery_id |-> [n \in nodes |->
              LET here == {x \in ends : x.node = n}
              IN  IF here = {} THEN NoSubquery ELSE (CHOOSE x \in here : TRUE).id]]

\* RedPathTrieNode::child_expressions.
ChildExpressions(trie, node) ==
  {e \in {n[Len(n)] : n \in trie.nodes \ {<<>>}} : Append(node, e) \in trie.nodes}

-----------------------------------------------------------------------------
(* Query parameters: RedPath prefixes as sequences, a predicate as "[*]".   *)

\* AddExpressionToRedPath
AddExpressionToRedPath(prefix, e) ==
  Append(prefix, IF e.type = "predicate" THEN <<"[*]">> ELSE e.expression)

PrefixOf(node) ==
  [i \in DOMAIN node |-> IF node[i].type = "predicate" THEN <<"[*]">> ELSE node[i].expression]

\* A step as CombineQueryParams writes it, with "[*]" for every predicate.
Written(step) ==
  <<SubSeq(step, 1, Opening(step) - 1)>>
    \o IF Opening(step) <= Len(step) THEN <<<<"[*]">>>> ELSE <<>>

\* The RedPath as CombineQueryParams writes it: a slash is put before it if it
\* has none, and an empty step, which SplitRedPath drops, is left in it.
RedPathString(redpath) ==
  Concatenation([i \in 1 .. Len(redpath) + 1 |->
    IF i \in Cuts(redpath) /\ ~(i = 1 /\ redpath # <<>>) THEN Written(Step(redpath, i)) ELSE <<>>])

\* redpath() of a pointer or uri subquery is empty.
SubqueryRedPath(subquery) == IF subquery.kind = "redpath" THEN subquery.redpath ELSE <<>>

\* Mutant of FreshPrefixes: the RedPath of the subquery alone is recorded.
FreshPrefixesOwn(query, joined) ==
  {RedPathString(query[q].redpath) : q \in {p \in DOMAIN query : query[p].fresh}}

\* The prefixes under which CombineQueryParams records REQUIRED: a uri
\* subquery's is its URI; the empty RedPath of the other two kinds leaves a "/"
\* in the prefix of what is joined below them.
FreshPrefixes(query, joined) ==
  LET prefix(s, k) ==
        Concatenation([i \in 1 .. k |-> RedPathString(SubqueryRedPath(query[s[i]]))])
  IN  UNION {{IF query[s[k]].kind = "uri" THEN <<query[s[k]].target>> ELSE prefix(s, k) :
                k \in {i \in DOMAIN s : query[s[i]].fresh}} : s \in joined}

\* absl::StartsWith on the texts: the last name of p may be the beginning of a
\* longer one.
StartsWith(child, p) ==
  \/ IsPrefix(p, child)
  \/ /\ p # <<>> /\ IsPrefix(Front(p), child) /\ Len(p) <= Len(child)
     /\ Begins(Last(p), child[Len(p)])

\* IsInExpandPath: in what follows the parent's text, every node name that is
\* not empty and every predicate is a level, and so is the rest of a name.
IsInExpandPath(child, parent, levels) ==
  Cardinality({i \in Len(parent) + 1 .. Len(child) : child[i] # <<>>})
    + (IF IsPrefix(parent, child) THEN 0 ELSE 1) <= levels

\* REQUIRED of child makes p REQUIRED too: p is the last prefix with an expand
\* rule before child in the order of the map, and child is in its expansion.
BubblesUp(p, child, expand) ==
  /\ p \in DOMAIN expand /\ expand[p] > 0 /\ Less(p, child)
  /\ \A o \in DOMAIN expand : expand[o] > 0 /\ Less(o, child) => o = p \/ Less(o, p)
  /\ StartsWith(child, p)
  /\ IsInExpandPath(child, p, expand[p])

\* CombineQueryParams: the prefixes fetched with freshness REQUIRED.  expand
\* gives the levels of the prefixes with an expand rule.
CombineQueryParams(query, joined, expand) ==
  LET fresh == FreshPrefixes(query, joined)
  IN  fresh \union {p \in DOMAIN expand :
                      \E child \in fresh : BubblesUp(p, child, expand)}
=============================================================================
