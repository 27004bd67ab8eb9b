---------------------------- MODULE RouteMapper -----------------------------
(***************************************************************************)
(* The route of one message type in the router towards pinex: its entry in *)
(* routing_list and its route_mapper, a tree of characters in which the    *)
(* destination of a number is the one of the longest stored prefix.        *)
(*                                                                         *)
(* A node is known by the path of characters that leads to it.  The        *)
(* gateway builds a tree from the configuration and looks numbers up;      *)
(* update_route, delete_route and clear_all_routes are the class's own.    *)
(***************************************************************************)
EXTENDS Naturals, Sequences, SequencesExt, FiniteSets

CONSTANTS
  Character,    \* what words are made of
  Prefix,       \* prefixes of routes: sequences of characters
  Number,       \* numbers that are looked up
  Destination,  \* targets
  NoDest,       \* "", the answer when there is none
  Limits,       \* values of max_length_
  MaxList       \* bound: routes added in one call

ASSUME MapperAssumption ==
  /\ Prefix \cup Number \subseteq Seq(Character)
  /\ NoDest \notin Destination
  /\ Limits \subseteq Nat \ {0} /\ MaxList \in Nat

VARIABLES
  method,    \* routing_method of the message type's route, "none" without one
  tree,      \* destinations_: the nodes by their paths
  table      \* history: what was added and is still to be found

mapperVars == <<method, tree, table>>

\* UINT_MAX, which no length reaches.
Unlimited == CHOOSE n \in Limits : \A m \in Limits : m <= n

Node == [valued : BOOLEAN, dest : Destination \cup {NoDest}, limit : Limits, kids : Nat]

NewNode == [valued |-> FALSE, dest |-> NoDest, limit |-> Unlimited, kids |-> 0]

EmptyTree == [p \in {<< >>} |-> NewNode]

NoRoute == [dest |-> NoDest, limit |-> Unlimited]

EmptyTable == [w \in Prefix |-> NoRoute]

IsChild(q, p) == q # << >> /\ Front(q) = p

-----------------------------------------------------------------------------
(* The operations on the tree.                                             *)

CreateSubTree(t, w) ==
  LET new == Prefixes(w) \ DOMAIN t IN
    [p \in DOMAIN t \cup new |->
       [(IF p \in new THEN NewNode ELSE t[p]) EXCEPT
          !.kids = @ + Cardinality({q \in new : IsChild(q, p)})]]

\* The node that is found, or none: the last one with a value on the way down,
\* which ends where the tree does.
FindMatching(t, w) ==
  LET visited == {p \in Prefixes(w) : Prefixes(p) \subseteq DOMAIN t /\ t[p].valued} IN
    {p \in visited : \A q \in visited : Len(q) <= Len(p)}

\* In reverse, "last" is decremented before a character is taken and the first
\* character never is.
Backwards(number) == IF number = << >> THEN << >> ELSE Reverse(Tail(number))

FindDestination(t, number, backwards) ==
  LET found == {p \in FindMatching(t, IF backwards THEN Backwards(number) ELSE number) :
                  Len(number) <= t[p].limit}
  IN IF found = {} THEN NoDest ELSE t[CHOOSE p \in found : TRUE].dest

\* add_route: a prefix that has a value keeps it.
Added(t, r) ==
  LET grown == CreateSubTree(t, r.prefix) IN
    IF grown[r.prefix].valued THEN grown
    ELSE [grown EXCEPT ![r.prefix].valued = TRUE, ![r.prefix].dest = r.dest,
                       ![r.prefix].limit = r.limit]

\* The prefix itself is stored: what update_route and delete_route ask.
Stored(t, w) == FindMatching(t, w) = {w}

\* Mutant: a node is deleted whatever hangs below it.
CleanUpAll(t, w) == [p \in {q \in DOMAIN t : ~IsPrefix(w, q)} \cup {<< >>} |-> t[p]]

\* clean_up climbs from a node without value and children to the root and
\* stops at the first node that has either besides the one just deleted.
CleanUp(t, w) ==
  LET idle(q) == ~t[q].valued /\ t[q].kids = (IF q = w THEN 0 ELSE 1)
      dead == {p \in Prefixes(w) \ {<< >>} :
                 \A q \in Prefixes(w) : Len(q) >= Len(p) => idle(q)}
  IN [p \in DOMAIN t \ dead |->
        [t[p] EXCEPT !.kids = @ - Cardinality({q \in dead : IsChild(q, p)})]]

\* clean_node deletes what is below the root; the root's own value stays.
Cleaned(t) == [p \in {<< >>} |-> [t[p] EXCEPT !.kids = 0]]

-----------------------------------------------------------------------------
(* The steps.                                                              *)

Route == [prefix : Prefix, dest : Destination, limit : Limits]

\* One route after the other; one that is refused does not stop the rest.
AddAll(t, routes) ==
  LET added[n \in 0 .. Len(routes)] == IF n = 0 THEN t ELSE Added(added[n - 1], routes[n])
  IN added[Len(routes)]

\* The history: a table of routes.
Enter(known, r) ==
  IF known[r.prefix] = NoRoute
  THEN [known EXCEPT ![r.prefix] = [dest |-> r.dest, limit |-> r.limit]] ELSE known

EnterAll(known, routes) ==
  LET entered[n \in 0 .. Len(routes)] ==
        IF n = 0 THEN known ELSE Enter(entered[n - 1], routes[n])
  IN entered[Len(routes)]

Kept(known) == [w \in Prefix |-> IF w = << >> THEN known[w] ELSE NoRoute]

\* The lists a route is configured with: no maximum length.
Configured == BoundedSeq({r \in Route : r.limit = Unlimited}, MaxList)

\* on_routes_insert; a second route of the message type is refused.  A route
\* by another method than the prefix reads no prefixes.
InsertRoute ==
  /\ method = "none"
  /\ \/ /\ method' = "prefix"
        /\ \E routes \in Configured :
             /\ tree' = AddAll(EmptyTree, routes)
             /\ table' = EnterAll(EmptyTable, routes)
     \/ /\ method' \in {"round_robin", "load_balance", "broadcast", "client_id"}
        /\ tree' = EmptyTree /\ table' = EmptyTable

\* on_routes_remove: it goes by the message type alone.
RemoveRoute ==
  /\ method # "none"
  /\ method' = "none" /\ tree' = EmptyTree /\ table' = EmptyTable

AddRoute ==
  /\ method = "prefix"
  /\ \E r \in Route : tree' = Added(tree, r) /\ table' = Enter(table, r)
  /\ UNCHANGED method

AddRoutes ==
  /\ method = "prefix"
  /\ \E routes \in Configured, clear \in BOOLEAN :
       /\ tree' = AddAll(IF clear THEN Cleaned(tree) ELSE tree, routes)
       /\ table' = EnterAll(IF clear THEN Kept(table) ELSE table, routes)
  /\ UNCHANGED method

UpdateRoute ==
  /\ method = "prefix"
  /\ \E r \in Route :
       /\ Stored(tree, r.prefix)
       /\ tree' = [tree EXCEPT ![r.prefix].dest = r.dest, ![r.prefix].limit = r.limit]
       /\ table' = [table EXCEPT ![r.prefix] = [dest |-> r.dest, limit |-> r.limit]]
  /\ UNCHANGED method

DeleteRoute ==
  /\ method = "prefix"
  /\ \E w \in Prefix :
       /\ Stored(tree, w)
       /\ tree' = CleanUp([tree EXCEPT ![w].valued = FALSE], w)
       /\ table' = [table EXCEPT ![w] = NoRoute]
  /\ UNCHANGED method

ClearAllRoutes ==
  /\ method = "prefix"
  /\ tree' = Cleaned(tree) /\ table' = Kept(table)
  /\ UNCHANGED method

-----------------------------------------------------------------------------

MapperInit == method = "none" /\ tree = EmptyTree /\ table = EmptyTable

MapperNext ==
  \/ InsertRoute \/ RemoveRoute
  \/ AddRoute \/ AddRoutes \/ UpdateRoute \/ DeleteRoute \/ ClearAllRoutes

MapperSpec == MapperInit /\ [][MapperNext]_mapperVars

-----------------------------------------------------------------------------
(* Properties.                                                             *)

\* Every node but the root leads to a value, and number_of_childs_ is exact:
\* deleting routes leaves neither dead branches nor orphans.
TreeSound ==
  /\ \A p \in DOMAIN tree :
       /\ Prefixes(p) \subseteq DOMAIN tree
       /\ tree[p].kids = Cardinality({q \in DOMAIN tree : IsChild(q, p)})
       /\ p # << >> /\ tree[p].kids = 0 => tree[p].valued
  /\ DOMAIN tree \subseteq {<< >>} \cup UNION {Prefixes(w) : w \in Prefix}

\* What a table of prefixes answers: the longest one, if the number is not
\* too long for it.
Longest(key, number) ==
  LET known == {w \in Prefix : table[w] # NoRoute /\ IsPrefix(w, key)} IN
    IF known = {} THEN NoDest
    ELSE LET w == CHOOSE v \in known : \A u \in known : Len(u) <= Len(v) IN
           IF table[w].limit < Len(number) THEN NoDest ELSE table[w].dest

\* Whatever was added, updated, deleted and cleared, a number's destination is
\* the one of its longest prefix that is still stored; in reverse, of the
\* number read from its end and without its first character.  And the tree
\* stays sound.
LongestRoute ==
  /\ TreeSound
  /\ \A number \in Number :
       /\ FindDestination(tree, number, FALSE) = Longest(number, number)
       /\ FindDestination(tree, number, TRUE) = Longest(Backwards(number), number)

=============================================================================
