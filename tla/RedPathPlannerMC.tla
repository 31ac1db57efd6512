-------------------------- MODULE RedPathPlannerMC --------------------------
(* A service with two chassis, their sensors, a log with a raw entry and a  *)
(* link, and a query that meets all of it.                                  *)
EXTENDS RedPathPlanner, TLC

MCKind ==
  "root" :> "object" @@ "chassis" :> "collection" @@ "c1" :> "object" @@ "c2" :> "object"
  @@ "sensors" :> "collection" @@ "s1" :> "object" @@ "s2" :> "object"
  @@ "system" :> "object" @@ "cper" :> "raw" @@ "name" :> "value"

None == [n \in {} |-> ""]
MCChild == [r \in DOMAIN MCKind |->
  CASE r = "root" -> "Chassis" :> "chassis" @@ "System" :> "system" @@ "Name" :> "name"
    [] r = "c1" -> "Sensors" :> "sensors" @@ "Cper" :> "cper"
    [] r = "system" -> "Cper" :> "cper"
    [] OTHER -> None]
MCPointer == [r \in DOMAIN MCKind |-> IF r = "c1" THEN "System" :> "system" ELSE None]
MCMembers == [r \in DOMAIN MCKind |->
  CASE r = "chassis" -> <<"c1", "c2">> [] r = "sensors" -> <<"s1", "s2">> [] OTHER -> <<>>]
MCComparing == {<<"hot">>}
MCMatches == <<"all">> :> DOMAIN MCKind @@ <<"hot">> :> {"s2", "system"}

Subquery(roots, kind, path, target, fresh, raw) ==
  [roots |-> roots, kind |-> kind, redpath |-> path, target |-> target, fresh |-> fresh, raw |-> raw]

\* The chassis, their sensors (twice), the system they point at and directly,
\* a raw entry below it, and a property that is no resource.
MCQuery ==
  "chassis" :> Subquery(<<>>, "redpath", <<"/", "Chassis", "[", "all", "]">>, <<>>, FALSE, FALSE)
  @@ "sensors" :> Subquery(<<"chassis">>, "redpath", <<"Sensors", "[", "hot", "]">>, <<>>, TRUE, FALSE)
  @@ "link" :> Subquery(<<"chassis">>, "pointer", <<>>, <<"System">>, FALSE, FALSE)
  @@ "system" :> Subquery(<<>>, "redpath", <<"/", "System", "[", "hot", "]">>, <<>>, FALSE, FALSE)
  @@ "cper" :> Subquery(<<"link", "system">>, "redpath", <<"/", "Cper">>, <<>>, FALSE, TRUE)
  @@ "uri" :> Subquery(<<>>, "uri", <<>>, <<"s2">>, TRUE, FALSE)

\* Sensors are answered below the chassis whether or not it has data.
MCNoData == {<<"chassis", "c2">>}

\* No step has the second rule's name, but a step's name begins with it.
MCExpand == <<<<"Chassis">>, <<"[*]">>>> :> 2 @@ <<<<"Sys">>>> :> 2
MCBegins(a, b) == a = <<"Sys">> /\ b = <<"System">>

Words == <<"Chassis", "Cper", "Sensors", "Sys", "System", "[*]", "s2">>
Rank(w) == IF \E i \in DOMAIN Words : <<Words[i]>> = w
           THEN CHOOSE i \in DOMAIN Words : <<Words[i]>> = w ELSE 0
MCLess(a, b) ==
  \/ IsStrictPrefix(a, b)
  \/ \E i \in DOMAIN a \intersect DOMAIN b :
       Rank(a[i]) < Rank(b[i]) /\ \A j \in 1 .. i - 1 : a[j] = b[j]

MCSubscribable == {<<<<"Chassis">>, <<"[*]">>, <<"Sensors">>, <<"[*]">>>>, <<<<"System">>>>}

\* Everything works, or one resource is broken in one way.
MCFaults ==
  {[r \in DOMAIN MCKind |-> IF r = broken THEN fault ELSE "ok"] :
     broken \in {"root", "chassis", "c1", "s1", "s2", "system"},
     fault \in {"ok", "notfound", "unavailable", "timeout", "malformed"}}
  \union {[r \in DOMAIN MCKind |-> IF r = broken THEN "uncomparable" ELSE "ok"] : broken \in {"s1", "system"}}

MCCaches == {{}, DOMAIN MCKind}

MCResumeAt ==
  {<<<<Expression("node", <<"Chassis">>), Expression("predicate", <<"all">>)>>, "c1">>,
   <<<<Expression("node", <<"Chassis">>)>>, "chassis">>}

\* Although the system and its raw entry are come to by two ways, no answer is.
ASSUME OneWayHere == \A g \in Inputs : OneWay(g)
=============================================================================
