------------------------- MODULE SubscriptionStoreMC -------------------------
EXTENDS SubscriptionStore, TLC

CONSTANTS c1, c2, c3, c4, i0, i1, i2, s1, s2

\* c1 and c2 collide on their id, c4 is rejected.
MCIdOf == c1 :> i1 @@ c2 :> i1 @@ c3 :> i2 @@ c4 :> i0
MCSourcesOf == c1 :> {s1, s2} @@ c2 :> {s1} @@ c3 :> {s2} @@ c4 :> {s1}
=============================================================================
