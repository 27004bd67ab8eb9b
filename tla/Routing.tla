------------------------------ MODULE Routing -------------------------------
(***************************************************************************)
(* The two routings, and the path of the delivers between pinex and the    *)
(* ESMEs, one at a time: "part" says which one a behaviour is about.       *)
(***************************************************************************)
EXTENDS RouteMapper, RoutingMatcher, DeliverPath

VARIABLE part

routingVars == <<mapperVars, matcherVars, deliverVars, part>>

Init ==
  /\ part \in {"mapper", "matcher", "deliver"}
  /\ MapperInit /\ MatcherInit /\ DeliverInit
  /\ reverse => part = "matcher"

Next ==
  \/ part = "mapper" /\ MapperNext /\ UNCHANGED <<matcherVars, deliverVars, part>>
  \/ part = "matcher" /\ MatcherNext /\ UNCHANGED <<mapperVars, deliverVars, part>>
  \/ part = "deliver" /\ DeliverNext /\ UNCHANGED <<mapperVars, matcherVars, part>>

Spec == Init /\ [][Next]_routingVars

\* LongestRoute of the part that changes the tree (route_mapper).
LongestWins == part = "mapper" => LongestRoute

\* LatestRule of the part that changes the rules (routing_matcher).
LatestWins == part = "matcher" => LatestRule

=============================================================================
