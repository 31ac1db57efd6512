------------------------ MODULE SubscriptionServiceMC ------------------------
EXTENDS SubscriptionService

CONSTANTS r1, r2, r3, r4, r5, u1, u2, u3, sA, sB

\* r1 asks for two resources, one of which is named by a trigger that a later
\* trigger with the same id replaced; r2 asks for one without an event source;
\* r3 is invalid; r4 and r5 ask for one of r1's.
MixedUrisOf == [r \in Requests |-> CASE r = r1 -> {u1, u2} [] r = r2 -> {u3}
                                     [] r \in {r4, r5} -> {u1} [] OTHER -> {}]
EventUris == [r \in Requests |-> CASE r = r1 -> {u1} [] r = r2 -> {u3}
                                   [] r \in {r4, r5} -> {u1} [] OTHER -> {}]

\* One subscriber of two resources.
SharedUrisOf == [r \in Requests |-> {u1, u2}]

\* u2 belongs to two sources, u3 to none.
MCSourcesOfUri == [u \in Uris |-> CASE u = u1 -> {sA} [] u = u2 -> {sA, sB} [] OTHER -> {}]

\* The service after the requests of one set were answered with an error, the
\* invalid ones at once and the others on their first Subscribe call, and
\* those of another have subscribed, had an answer repeated, and got two events
\* from sA.
PastEvent(r, t) == [sub |-> r, src |-> sA, ts |-> t, seq |-> t, uris |-> {u1}]

InitAfter(refused, subscribed) ==
  /\ create = [r \in Requests |->
       IF r \in refused \ Invalid THEN "refused"
       ELSE IF r \in refused \union subscribed THEN "returned" ELSE "new"]
  /\ loop = [r \in Requests |-> {}]
  /\ calls = [r \in Requests |-> {}]
  /\ async = [r \in Requests |->
       IF r \in refused \ Invalid THEN [NoAsync EXCEPT !.pending = UrisOf[r]]
       ELSE IF r \in subscribed
         THEN [NoAsync EXCEPT !.status = "error",
                              !.origins = UNION {SourcesOfUri[u] \X {u} : u \in UrisOf[r]}]
       ELSE NoAsync]
  /\ answers = [r \in Requests |->
       IF r \in refused THEN <<"error">> ELSE IF r \in subscribed THEN <<"ok">> ELSE <<>>]
  /\ last = [r \in Requests |-> NoEvent]
  /\ stored = subscribed
  /\ inbox = [r \in Requests |->
       IF r \in subscribed THEN <<PastEvent(r, 0), PastEvent(r, 1)>> ELSE <<>>]
  /\ log = {PastEvent(r, t) : r \in subscribed, t \in {0, 1}} /\ added = log
  /\ clock = Cardinality(log)
  /\ notify = [n \in Notifs |-> [at |-> "new", src |-> NoEvent, todo |-> {}, queries |-> {}]]
  /\ agg = [x \in Notifs \X Requests |-> NoAgg]

\* Either r1, r2 and r3 are to come, or r4 is there and r5 may reconnect as
\* its successor.
MCSpec ==
  /\ InitAfter({r4, r5}, {}) \/ InitAfter({r1, r2, r3}, {r4})
  /\ [][Next]_vars /\ Fairness
=============================================================================
