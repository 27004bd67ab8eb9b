----------------------------- MODULE MCRouting ------------------------------
(* The two routings and the path of the delivers on small instances.       *)
EXTENDS Routing, TLC

CONSTANTS north, south, n1, n2

MCPrefix == {<< >>, <<"1">>, <<"1", "1">>, <<"1", "2", "1">>, <<"1", "2", "2">>}
MCNumber == UNION {[1 .. n -> {"1", "2"}] : n \in 0 .. 4}

Star(word)  == [word |-> word, star |-> TRUE]
Whole(word) == [word |-> word, star |-> FALSE]

MCRule ==
  {[id |-> 1, target |-> north,
    patterns |-> <<Star(<< >>), Star(<< >>), Star(<<"1", "2">>), Whole(<<"2">>)>>],
   [id |-> 1, target |-> south,
    patterns |-> <<Whole(<<"a">>), Star(<<"1">>), Star(<< >>), Star(<< >>)>>],
   [id |-> 2, target |-> south,
    patterns |-> <<Star(<< >>), Whole(<<"1">>), Whole(<<"1", "2">>), Whole(<<"2">>)>>],
   [id |-> 2, target |-> north,
    patterns |-> <<Star(<<"a">>), Star(<<"A">>), Star(<< >>), Star(<< >>)>>],
   [id |-> 3, target |-> north,
    patterns |-> <<Star(<< >>), Star(<<"1", "~">>), Star(<< >>), Star(<< >>)>>]}

MCQuery ==
  {<<f, s, d, <<"2">>>> : f \in {<<"a">>, <<"A">>}, s \in {<< >>, <<"1">>, <<"1", "~">>},
                       d \in {<<"1", "2">>, <<"2", "1">>, <<"1", "2", "1">>}}

MCChar == {"1", "2", "a", "A", "~"}

MCUpper == "A" :> "a"

\* A pinex server may come back under the other name.
AnyNames == [p \in Peer |-> {n1, n2}]

=============================================================================
