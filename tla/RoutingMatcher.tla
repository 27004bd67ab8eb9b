--------------------------- MODULE RoutingMatcher ---------------------------
(***************************************************************************)
(* The routing of delivers to ESMEs: rules of four patterns, kept as marks *)
(* in one trie, and bit sets that say which marks a record meets.  Bit     *)
(* 4 * rule + field stands for a rule's field; shifting the set by one for *)
(* each field leaves the last bit of the rules all of whose fields match.  *)
(***************************************************************************)
EXTENDS Naturals, Sequences, SequencesExt, FiniteSets, FiniteSetsExt, Functions

CONSTANTS
  Char,          \* the characters of words
  Rule,          \* the rules that may be configured: [id, target, patterns]
  Query,         \* records looked up: four words each, none of them "*"
  NoTarget,      \* "", the answer when no rule matches
  Upper,         \* uppercase letters, a function to their lowercase
  Unprintable,   \* characters that no trie takes
  MaximumRules,  \* MAXIMUM_RULE_NUMBER
  WordBits       \* the 64 bits of a word of a bit_set

FieldNumber == 4  \* ROUTING_FIELD_NUMBER
DestField == 3

\* routing_info reads an empty pattern as "*".
ASSUME MatcherAssumption ==
  /\ \A r \in Rule : \A i \in 1 .. FieldNumber :
       r.patterns[i].star \/ r.patterns[i].word # << >>
  /\ Query \subseteq [1 .. FieldNumber -> Seq(Char)]
  /\ \A c \in DOMAIN Upper : Upper[c] \in Char \ Unprintable
  /\ "throws" \notin {r.target : r \in Rule} \cup {NoTarget}
  /\ MaximumRules \in Nat \ {0} /\ WordBits \in Nat \ {0}

VARIABLES
  nodes,    \* the trie's nodes, by the words that lead to them
  marks,    \* mark_prefix and mark_Complete: [word, star, bit]
  count,    \* count_of_set_rules_
  idOf,     \* prm_id_to_rule_id_
  targetOf, \* rule_id_mapping_; the priority it keeps decides nothing
  reverse,  \* reverse_routing_
  live      \* history: the rules accepted and not removed, by their number

matcherVars == <<nodes, marks, count, idOf, targetOf, reverse, live>>

-----------------------------------------------------------------------------
(* bit_set: a set of bits in words.                                        *)

Words == (MaximumRules * FieldNumber + WordBits - 1) \div WordBits

BitSet(bits) ==
  [w \in 0 .. Words - 1 |-> {b \in 0 .. WordBits - 1 : w * WordBits + b \in bits}]

\* shift_right: the bits move up by one, from a word's last to the next's first.
ShiftRight(s) ==
  [w \in DOMAIN s |->
     ({b + 1 : b \in s[w]} \ {WordBits})
     \cup (IF w > 0 /\ WordBits - 1 \in s[w - 1] THEN {0} ELSE {})]

Both(s, t) == [w \in DOMAIN s |-> s[w] \cap t[w]]

SetBits(s) == UNION {{w * WordBits + b : b \in s[w]} : w \in DOMAIN s}

MatchMask == BitSet({(i + 1) * FieldNumber - 1 : i \in 0 .. MaximumRules - 1})

-----------------------------------------------------------------------------
(* trie_matcher.                                                           *)

Lower(w) == [i \in DOMAIN w |-> IF w[i] \in DOMAIN Upper THEN Upper[w[i]] ELSE w[i]]

\* A character that is no digit and has no place in alphabets_map_ throws as
\* soon as a node is asked for it.
Unread(w) == \E n \in 0 .. Len(w) - 1 :
               SubSeq(w, 1, n) \in nodes /\ w[n + 1] \in Unprintable

\* The marks a word meets: those of every prefix on its way, and of itself.
\* An empty word meets no prefix, not even the empty one.
MatchWord(w) ==
  BitSet({m.bit : m \in {k \in marks : IF k.star THEN w # << >> /\ IsPrefix(k.word, w)
                                       ELSE k.word = w}})

-----------------------------------------------------------------------------
(* prefix_rule_matcher.                                                    *)

\* A pattern with an uppercase letter is refused before it is entered, one
\* with an unprintable character while it is.
Refused(pattern) == ToSet(pattern.word) \cap (DOMAIN Upper \cup Unprintable) # {}

\* The fields entered before the first one that is refused.
EnteredFields(r) ==
  {i \in 1 .. FieldNumber : \A j \in 1 .. i : ~Refused(r.patterns[j])}

\* The nodes that stay of a pattern refused while it was entered.
Remains(pattern) ==
  IF ToSet(pattern.word) \cap DOMAIN Upper # {} THEN {}
  ELSE {p \in Prefixes(pattern.word) : ToSet(p) \cap Unprintable = {}}

\* add_entry: a pattern that ends in "*" marks a prefix, any other a whole word.
Entry(pattern, bit) == [word |-> pattern.word, star |-> pattern.star, bit |-> bit]

\* set_rule: a rule that is refused keeps its number and what was entered.
SetRule(r) ==
  LET entered == EnteredFields(r)
      broken  == {i \in 1 .. FieldNumber : Refused(r.patterns[i])
                                           /\ 1 .. i - 1 \subseteq entered}
  IN
    /\ count' = count + 1
    /\ nodes' = nodes \cup UNION {Prefixes(r.patterns[i].word) : i \in entered}
                      \cup UNION {Remains(r.patterns[i]) : i \in broken}
    /\ marks' = marks \cup {Entry(r.patterns[i], count * FieldNumber + i - 1) : i \in entered}

MatchBits(fields) ==
  LET next(s, i) == Both(ShiftRight(s), MatchWord(fields[i])) IN
    Both(next(next(next(MatchWord(fields[1]), 2), 3), 4), MatchMask)

\* The rules that match, by number.
Match(fields) == {(b + 1) \div FieldNumber - 1 : b \in SetBits(MatchBits(fields))}

-----------------------------------------------------------------------------
(* routing_matcher.                                                        *)

Fields(q) ==
  [i \in 1 .. FieldNumber |->
     Lower(IF i = DestField /\ reverse THEN Reverse(q[i]) ELSE q[i])]

\* "throws", or the last of the targets that match: the loop meant to find
\* the highest priority compares each one with -1.
FindTarget(q) ==
  LET fields == Fields(q)
      known  == {n \in Match(fields) : n \in DOMAIN idOf /\ idOf[n] \in DOMAIN targetOf}
  IN IF \E i \in 1 .. FieldNumber : Unread(fields[i]) THEN "throws"
     ELSE IF known = {} THEN NoTarget ELSE targetOf[idOf[Max(known)]]

-----------------------------------------------------------------------------
(* The steps.                                                              *)

\* A map with one entry more.
With(f, key, value) == [k \in DOMAIN f \cup {key} |-> IF k = key THEN value ELSE f[k]]

\* A rule from the configuration, at the start or inserted at runtime.  One
\* whose id is taken is refused.  Numbers are never used again: past
\* MaximumRules the bit sets have no place, the marks are written behind their
\* storage, and what comes of it is not followed.
AddRule ==
  /\ count < MaximumRules
  /\ \E r \in Rule :
       /\ r.id \notin DOMAIN targetOf
       /\ SetRule(r)
       /\ IF EnteredFields(r) = 1 .. FieldNumber
          THEN /\ idOf' = With(idOf, count, r.id)
               /\ targetOf' = With(targetOf, r.id, r.target)
               /\ live' = With(live, count, r)
          ELSE UNCHANGED <<idOf, targetOf, live>>
  /\ UNCHANGED reverse

\* Mutant: the rule's number stays mapped to its id.
ForgetIdOnly(id) ==
  /\ targetOf' = Restrict(targetOf, DOMAIN targetOf \ {id})
  /\ UNCHANGED idOf

\* The marks stay in the trie; only the mappings forget the rule.
Forget(id) ==
  /\ targetOf' = Restrict(targetOf, DOMAIN targetOf \ {id})
  /\ idOf' = Restrict(idOf, {n \in DOMAIN idOf : idOf[n] # id})

RemoveRule ==
  /\ \E id \in DOMAIN targetOf :
       /\ Forget(id)
       /\ live' = Restrict(live, {n \in DOMAIN live : live[n].id # id})
  /\ UNCHANGED <<nodes, marks, count, reverse>>

\* on_reverse_routing_replace; the patterns stay as they were entered.
ReplaceReverse ==
  /\ reverse' = ~reverse
  /\ UNCHANGED <<nodes, marks, count, idOf, targetOf, live>>

-----------------------------------------------------------------------------

MatcherInit ==
  /\ nodes = {<< >>} /\ marks = {} /\ count = 0
  /\ idOf = << >> /\ targetOf = << >>
  /\ reverse \in BOOLEAN
  /\ live = << >>

MatcherNext == AddRule \/ RemoveRule \/ ReplaceReverse

MatcherSpec == MatcherInit /\ [][MatcherNext]_matcherVars

-----------------------------------------------------------------------------
(* Properties.                                                             *)

Meets(pattern, w) ==
  w # << >> /\ (IF pattern.star THEN IsPrefix(pattern.word, w) ELSE pattern.word = w)

\* A deliver goes to the target of the latest rule in force that matches it in
\* all four fields, whatever rules were refused half way or removed before
\* and wherever a rule's bits lie in the words of a bit set.  It fails, with
\* an exception, only over a character that no trie takes.
LatestRule ==
  \A q \in Query :
    LET fields   == Fields(q)
        matching == {n \in DOMAIN live :
                       \A i \in 1 .. FieldNumber : Meets(live[n].patterns[i], fields[i])}
        answer   == FindTarget(q)
    IN IF answer = "throws"
       THEN \E i \in 1 .. FieldNumber : ToSet(q[i]) \cap Unprintable # {}
       ELSE answer = IF matching = {} THEN NoTarget ELSE live[Max(matching)].target

=============================================================================
