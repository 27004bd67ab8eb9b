--------------------------- MODULE RoutingProofs ----------------------------
(***************************************************************************)
(* Theorems of the two routings: of RoutingMatcher for every set of rules  *)
(* and records, every number of rules and every width of the words of a    *)
(* bit set; of RouteMapper for every set of prefixes, numbers and limits.  *)
(***************************************************************************)
EXTENDS Routing, FiniteSetTheorems, WellFoundedInduction, SequenceTheorems, TLAPS

-----------------------------------------------------------------------------
(* Numbers have a least one.                                               *)
LEMMA LeastOf ==
  ASSUME NEW T, T \subseteq Nat, T # {}
  PROVE  \E x \in T : \A y \in T : x <= y
<1> DEFINE less == OpToRel(<, Nat)
<1>1. \A x, y \in Nat : y < x => <<y, x>> \in less
  BY DEF OpToRel
<1>2. IsWellFoundedOn(less, Nat)
  BY NatLessThanWellFounded
<1> HIDE DEF less
<1>3. PICK x \in T : \A y \in T : ~ (<<y, x>> \in less)
  BY <1>2, WFMin
<1>4. ASSUME NEW y \in T
      PROVE  x <= y
  <2>1. x \in Nat /\ y \in Nat
    OBVIOUS
  <2>2. ~ (y < x)
    BY <1>1, <1>3, <2>1
  <2> QED BY <2>1, <2>2
<1> QED BY <1>4

(* A set of numbers below a bound has a largest one.                       *)
LEMMA Largest ==
  ASSUME NEW K \in Nat, NEW S \in SUBSET (0 .. K), S # {}
  PROVE  Max(S) \in S /\ \A n \in S : n <= Max(S)
<1> DEFINE T == {K - n : n \in S}
<1>1. T \subseteq Nat /\ T # {}
  <2>1. \A n \in S : n \in Nat /\ n <= K /\ K - n \in Nat
    OBVIOUS
  <2>2. T \subseteq Nat
    BY <2>1
  <2>3. PICK n \in S : TRUE
    OBVIOUS
  <2>4. K - n \in T
    OBVIOUS
  <2> QED BY <2>2, <2>4
<1> HIDE DEF T
<1>2. PICK x \in T : \A y \in T : x <= y
  BY <1>1, LeastOf
<1>3. K - x \in S /\ \A n \in S : K - x >= n
  <2>1. PICK m \in S : x = K - m
    BY DEF T
  <2>2. ASSUME NEW n \in S
        PROVE  K - x >= n
    <3>1. x <= K - n
      BY <1>2 DEF T
    <3> QED BY <2>1, <3>1
  <2> QED BY <2>1, <2>2
<1>4. \E m \in S : \A n \in S : m >= n
  BY <1>3
<1> QED BY <1>4 DEF Max

-----------------------------------------------------------------------------
(* The bit sets.  What is done word by word is done to the set of bits.    *)

(* A bit has one place: a word, and a position in it.                      *)
LEMMA PlaceOf ==
  ASSUME NEW b \in Nat
  PROVE  \E w \in Nat, j \in 0 .. WordBits - 1 : b = w * WordBits + j
<1> DEFINE w == b \div WordBits
           j == b % WordBits
<1>1. WordBits \in Nat \ {0}
  BY MatcherAssumption
<1>2. w \in Nat /\ j \in 0 .. WordBits - 1 /\ b = w * WordBits + j
  BY <1>1
<1> QED BY <1>2

LEMMA WordsType == Words \in Nat
<1> DEFINE N == MaximumRules * FieldNumber + WordBits - 1
<1>1. WordBits \in Nat \ {0} /\ N \in Nat
  BY MatcherAssumption DEF FieldNumber
<1>2. Words = N \div WordBits
  BY DEF Words
<1> HIDE DEF N
<1> QED BY <1>1, <1>2

(* The words hold the bits of every rule.                                  *)
LEMMA WordsSuffice ==
  ASSUME NEW w \in Nat, NEW j \in 0 .. WordBits - 1,
         w * WordBits + j < MaximumRules * FieldNumber
  PROVE  Words \in Nat /\ w \in 0 .. Words - 1
<1> DEFINE n == MaximumRules * FieldNumber
           N == n + WordBits - 1
           W == N \div WordBits
<1>1. WordBits \in Nat \ {0} /\ MaximumRules \in Nat \ {0} /\ n \in Nat
  BY MatcherAssumption DEF FieldNumber
<1>2. Words = W
  BY DEF Words
<1> HIDE DEF n
<1>3. N \in Nat
  BY <1>1
<1> HIDE DEF N
<1>4. W \in Nat /\ N < W * WordBits + WordBits
  BY <1>1, <1>3
<1> HIDE DEF W
<1>5. w * WordBits < W * WordBits
  BY <1>1, <1>3, <1>4 DEF N, n
<1>6. w < W
  <2>1. SUFFICES ASSUME w >= W
                 PROVE  FALSE
    BY <1>4
  <2>2. w = W + (w - W) /\ w - W \in Nat
    BY <1>4, <2>1
  <2>3. w * WordBits = W * WordBits + (w - W) * WordBits /\ (w - W) * WordBits \in Nat
    BY <1>1, <1>4, <2>2
  <2>4. W * WordBits \in Nat
    BY <1>1, <1>4
  <2> QED BY <1>5, <2>3, <2>4
<1> QED BY <1>2, <1>4, <1>6

(* get_set_bits_indices gives back the bits that were set.                 *)
LEMMA SetBitsOf ==
  ASSUME NEW B \in SUBSET Nat, \A b \in B : b < MaximumRules * FieldNumber
  PROVE  SetBits(BitSet(B)) = B
<1>1. ASSUME NEW b \in SetBits(BitSet(B))
      PROVE  b \in B
  BY <1>1 DEF SetBits, BitSet
<1>2. ASSUME NEW b \in B
      PROVE  b \in SetBits(BitSet(B))
  <2>1. PICK w \in Nat, j \in 0 .. WordBits - 1 : b = w * WordBits + j
    BY <1>2, PlaceOf
  <2>2. w \in 0 .. Words - 1
    BY <1>2, <2>1, WordsSuffice
  <2>3. j \in BitSet(B)[w]
    BY <1>2, <2>1, <2>2 DEF BitSet
  <2> QED BY <2>1, <2>2, <2>3 DEF SetBits, BitSet
<1> QED BY <1>1, <1>2

(* operator&= intersects.                                                  *)
LEMMA BothOf ==
  ASSUME NEW A, NEW B
  PROVE  Both(BitSet(A), BitSet(B)) = BitSet(A \cap B)
BY DEF Both, BitSet

(* shift_right carries from word to word.                                  *)
LEMMA ShiftOf ==
  ASSUME NEW B \in SUBSET Nat
  PROVE  ShiftRight(BitSet(B)) = BitSet({b + 1 : b \in B})
<1> DEFINE s == BitSet(B)
           t == ShiftRight(s)
           C == {b + 1 : b \in B}
           u == BitSet(C)
<1>0. WordBits \in Nat \ {0}
  BY MatcherAssumption
<1>1. DOMAIN s = 0 .. Words - 1
  BY DEF BitSet
<1>2. \A w \in 0 .. Words - 1 : s[w] = {b \in 0 .. WordBits - 1 : w * WordBits + b \in B}
  BY DEF BitSet
<1>3. u = [w \in 0 .. Words - 1 |-> u[w]]
      /\ \A w \in 0 .. Words - 1 : u[w] = {b \in 0 .. WordBits - 1 : w * WordBits + b \in C}
  BY DEF BitSet
<1> HIDE DEF s, u
<1>4. t = [w \in 0 .. Words - 1 |-> t[w]]
      /\ \A w \in 0 .. Words - 1 :
           t[w] = ({b + 1 : b \in s[w]} \ {WordBits})
                  \cup (IF w > 0 /\ WordBits - 1 \in s[w - 1] THEN {0} ELSE {})
  BY <1>1 DEF ShiftRight
<1> HIDE DEF t
<1>5. ASSUME NEW w \in 0 .. Words - 1
      PROVE  t[w] = u[w]
  <2>0. w \in Nat /\ w * WordBits \in Nat
    BY <1>0
  <2>1. ASSUME NEW j \in 1 .. WordBits - 1
        PROVE  j \in t[w] <=> j \in u[w]
    <3>1. j \in t[w] <=> j - 1 \in s[w]
      BY <1>0, <1>2, <1>4, <2>1
    <3>2. j - 1 \in s[w] <=> w * WordBits + (j - 1) \in B
      BY <1>0, <1>2, <2>1
    <3>3. j \in u[w] <=> w * WordBits + j \in C
      BY <1>3, <2>1
    <3>4. w * WordBits + j \in C <=> w * WordBits + (j - 1) \in B
      BY <1>0, <2>0, <2>1
    <3> QED BY <3>1, <3>2, <3>3, <3>4
  <2>2. 0 \in t[w] <=> 0 \in u[w]
    <3>1. 0 \in t[w] <=> w > 0 /\ WordBits - 1 \in s[w - 1]
      BY <1>0, <1>2, <1>4
    <3>2. 0 \in u[w] <=> w * WordBits \in C
      BY <1>0, <1>3, <2>0
    <3>3. CASE w > 0
      <4>1. WordBits - 1 \in s[w - 1] <=> (w - 1) * WordBits + (WordBits - 1) \in B
        <5>1. w - 1 \in 0 .. Words - 1
          BY <3>3, WordsType
        <5> QED BY <1>0, <1>2, <5>1
      <4>2. (w - 1) * WordBits + (WordBits - 1) = w * WordBits - 1
        BY <1>0, <2>0
      <4>3. w * WordBits \in C <=> w * WordBits - 1 \in B
        BY <2>0
      <4> QED BY <3>1, <3>2, <3>3, <4>1, <4>2, <4>3
    <3>4. CASE w = 0
      <4>1. w * WordBits = 0 /\ 0 \notin C
        BY <1>0, <3>4
      <4> QED BY <3>1, <3>2, <3>4, <4>1
    <3> QED BY <2>0, <3>3, <3>4
  <2>3. t[w] \subseteq 0 .. WordBits - 1 /\ u[w] \subseteq 0 .. WordBits - 1
    BY <1>0, <1>2, <1>3, <1>4
  <2>4. \A j \in 0 .. WordBits - 1 : j = 0 \/ j \in 1 .. WordBits - 1
    BY <1>0
  <2>5. \A j \in 0 .. WordBits - 1 : j \in t[w] <=> j \in u[w]
    BY <2>1, <2>2, <2>4
  <2> QED BY <2>3, <2>5
<1> QED BY <1>3, <1>4, <1>5 DEF t, u, s

-----------------------------------------------------------------------------
(* A record matches a rule when each of its fields meets the rule's mark   *)
(* for that field.                                                         *)

\* The bits of the marks a word meets.
Bits(w) ==
  {m.bit : m \in {k \in marks : IF k.star THEN w # << >> /\ IsPrefix(k.word, w)
                                ELSE k.word = w}}

\* The marks are those of rules that have a number.
MarksNumbered ==
  \A m \in marks : m.bit \in Nat /\ m.bit < MaximumRules * FieldNumber

LEMMA BitsType ==
  ASSUME MarksNumbered, NEW w
  PROVE  /\ Bits(w) \in SUBSET Nat
         /\ \A b \in Bits(w) : b < MaximumRules * FieldNumber
         /\ MatchWord(w) = BitSet(Bits(w))
BY DEF MarksNumbered, Bits, MatchWord

(* One field more.                                                         *)
LEMMA NextField ==
  ASSUME MarksNumbered, NEW B \in SUBSET Nat, NEW w
  PROVE  /\ Both(ShiftRight(BitSet(B)), MatchWord(w)) = BitSet({b + 1 : b \in B} \cap Bits(w))
         /\ {b + 1 : b \in B} \cap Bits(w) \in SUBSET Nat
<1> DEFINE C == {b + 1 : b \in B}
<1>1. ShiftRight(BitSet(B)) = BitSet(C)
  BY ShiftOf
<1>2. MatchWord(w) = BitSet(Bits(w)) /\ Bits(w) \in SUBSET Nat
  BY BitsType
<1> HIDE DEF C
<1>3. Both(BitSet(C), BitSet(Bits(w))) = BitSet(C \cap Bits(w))
  BY BothOf
<1>4. C \cap Bits(w) \in SUBSET Nat
  BY <1>2
<1> QED BY <1>1, <1>2, <1>3, <1>4 DEF C

\* The bits that are left of all four fields.
Meeting(fields) ==
  {b \in Bits(fields[4]) : /\ b - 1 \in Bits(fields[3]) /\ b - 2 \in Bits(fields[2])
                           /\ b - 3 \in Bits(fields[1])}

LEMMA MatchBitsOf ==
  ASSUME MarksNumbered, NEW fields
  PROVE  /\ Meeting(fields) \in SUBSET Nat
         /\ \A b \in Meeting(fields) : b < MaximumRules * FieldNumber
         /\ SetBits(MatchBits(fields))
              = {b \in Meeting(fields) :
                   \E i \in 0 .. MaximumRules - 1 : b = (i + 1) * FieldNumber - 1}
<1> DEFINE S1 == Bits(fields[1])
           S2 == {b + 1 : b \in S1} \cap Bits(fields[2])
           S3 == {b + 1 : b \in S2} \cap Bits(fields[3])
           S4 == {b + 1 : b \in S3} \cap Bits(fields[4])
           mask == {(i + 1) * FieldNumber - 1 : i \in 0 .. MaximumRules - 1}
           next(s, i) == Both(ShiftRight(s), MatchWord(fields[i]))
<1>1. \A i \in 1 .. 4 : /\ Bits(fields[i]) \in SUBSET Nat
                        /\ \A b \in Bits(fields[i]) : b < MaximumRules * FieldNumber
  BY BitsType
<1>2. MatchWord(fields[1]) = BitSet(S1) /\ S1 \in SUBSET Nat
  BY BitsType
<1> HIDE DEF S1
<1>3. next(BitSet(S1), 2) = BitSet(S2) /\ S2 \in SUBSET Nat
  BY <1>2, NextField
<1> HIDE DEF S2
<1>4. next(BitSet(S2), 3) = BitSet(S3) /\ S3 \in SUBSET Nat
  BY <1>3, NextField
<1> HIDE DEF S3
<1>5. next(BitSet(S3), 4) = BitSet(S4) /\ S4 \in SUBSET Nat
  BY <1>4, NextField
<1> HIDE DEF S4
<1>6. MatchBits(fields) = Both(BitSet(S4), MatchMask)
  BY <1>2, <1>3, <1>4, <1>5 DEF MatchBits
<1>7. MatchMask = BitSet(mask)
  BY DEF MatchMask
<1> HIDE DEF mask
<1>8. MatchBits(fields) = BitSet(S4 \cap mask)
  BY <1>6, <1>7, BothOf
<1>9. \A b \in S4 : b < MaximumRules * FieldNumber
  BY <1>1 DEF S4
<1>10. SetBits(MatchBits(fields)) = S4 \cap mask
  <2> DEFINE B == S4 \cap mask
  <2>1. B \in SUBSET Nat /\ \A b \in B : b < MaximumRules * FieldNumber
    BY <1>5, <1>9
  <2> HIDE DEF B
  <2>2. SetBits(BitSet(B)) = B
    BY <2>1, SetBitsOf
  <2> QED BY <1>8, <2>2 DEF B
<1>11. S4 = Meeting(fields)
  <2>1. \A b \in Nat : b \in S4 <=> b \in Bits(fields[4]) /\ b - 1 \in S3
    BY <1>4 DEF S4
  <2>2. \A b \in Int : b \in S3 <=> b \in Bits(fields[3]) /\ b - 1 \in S2
    BY <1>3 DEF S3
  <2>3. \A b \in Int : b \in S2 <=> b \in Bits(fields[2]) /\ b - 1 \in S1
    BY <1>2 DEF S2
  <2>4. \A b \in Nat : b \in S4 <=> b \in Meeting(fields)
    BY <2>1, <2>2, <2>3 DEF S1, Meeting
  <2>5. Meeting(fields) \subseteq Nat
    BY <1>1 DEF Meeting
  <2> QED BY <1>5, <2>4, <2>5
<1>12. \A b : b \in mask <=> \E i \in 0 .. MaximumRules - 1 : b = (i + 1) * FieldNumber - 1
  BY DEF mask
<1> QED BY <1>5, <1>9, <1>10, <1>11, <1>12

(* prefix_rule_matcher::match finds the rules all of whose marks are met.  *)
LEMMA MatchOf ==
  ASSUME MarksNumbered, NEW fields
  PROVE  Match(fields) = {n \in 0 .. MaximumRules - 1 :
                            \A i \in 1 .. FieldNumber :
                              FieldNumber * n + i - 1 \in Bits(fields[i])}
<1>0. MaximumRules \in Nat
  BY MatcherAssumption
<1>1. Match(fields) = {n \in 0 .. MaximumRules - 1 :
                         (n + 1) * FieldNumber - 1 \in Meeting(fields)}
  <2>1. \A i \in 0 .. MaximumRules - 1 :
          ((i + 1) * FieldNumber - 1 + 1) \div FieldNumber - 1 = i
    BY <1>0 DEF FieldNumber
  <2> QED BY <2>1, MatchBitsOf DEF Match
<1>2. ASSUME NEW n \in 0 .. MaximumRules - 1
      PROVE  (n + 1) * FieldNumber - 1 \in Meeting(fields)
               <=> \A i \in 1 .. FieldNumber : FieldNumber * n + i - 1 \in Bits(fields[i])
  <2> DEFINE in(i) == FieldNumber * n + i - 1 \in Bits(fields[i])
  <2>1. /\ (n + 1) * FieldNumber - 1 = FieldNumber * n + 4 - 1
        /\ (n + 1) * FieldNumber - 1 - 1 = FieldNumber * n + 3 - 1
        /\ (n + 1) * FieldNumber - 1 - 2 = FieldNumber * n + 2 - 1
        /\ (n + 1) * FieldNumber - 1 - 3 = FieldNumber * n + 1 - 1
    BY <1>0 DEF FieldNumber
  <2>2. (n + 1) * FieldNumber - 1 \in Meeting(fields) <=> in(4) /\ in(3) /\ in(2) /\ in(1)
    BY <2>1 DEF Meeting
  <2>3. 1 .. FieldNumber = {1, 2, 3, 4}
    BY DEF FieldNumber
  <2> HIDE DEF in
  <2>4. (\A i \in 1 .. FieldNumber : in(i)) <=> in(4) /\ in(3) /\ in(2) /\ in(1)
    BY <2>3
  <2> QED BY <2>2, <2>4 DEF in
<1> QED BY <1>1, <1>2

-----------------------------------------------------------------------------
(* The inductive invariant: what the mappings say of the rules in force,   *)
(* and that each of those has its own four marks and no others.  Refused   *)
(* and removed rules leave marks, too, under numbers that are never used   *)
(* again.                                                                  *)

\* The mark of a rule's field.
MarkOf(n, i) == Entry(live[n].patterns[i], FieldNumber * n + i - 1)

RulesMapped ==
  /\ \A n \in DOMAIN live : live[n] \in Rule
  /\ \A n, k \in DOMAIN live : live[n].id = live[k].id => n = k
  /\ DOMAIN idOf = DOMAIN live
  /\ \A n \in DOMAIN live : idOf[n] = live[n].id
  /\ DOMAIN targetOf = {live[n].id : n \in DOMAIN live}
  /\ \A n \in DOMAIN live : targetOf[live[n].id] = live[n].target

MarksOwned ==
  \A n \in DOMAIN live : \A i \in 1 .. FieldNumber :
    /\ MarkOf(n, i) \in marks
    /\ \A m \in marks : m.bit = FieldNumber * n + i - 1 => m = MarkOf(n, i)

NumbersUsed ==
  /\ count \in Nat /\ count <= MaximumRules
  /\ \A n \in DOMAIN live : n \in Nat /\ n < count
  /\ \A m \in marks : m.bit \in Nat /\ m.bit < FieldNumber * count

MatcherInv == RulesMapped /\ MarksOwned /\ NumbersUsed

LEMMA MatcherInvInit == MatcherInit => MatcherInv
BY MatcherAssumption
   DEF MatcherInit, MatcherInv, RulesMapped, MarksOwned, NumbersUsed

(* A rule that is taken gets the next number, and all of its marks.        *)
LEMMA RuleTaken ==
  ASSUME MatcherInv, count < MaximumRules, NEW r \in Rule, r.id \notin DOMAIN targetOf,
         SetRule(r), EnteredFields(r) = 1 .. FieldNumber,
         idOf' = With(idOf, count, r.id), targetOf' = With(targetOf, r.id, r.target),
         live' = With(live, count, r)
  PROVE  MatcherInv'
<1> DEFINE mark(i) == Entry(r.patterns[i], count * FieldNumber + i - 1)
<1>0. count \in Nat /\ MaximumRules \in Nat /\ count \notin DOMAIN live
  BY MatcherAssumption DEF MatcherInv, NumbersUsed
<1>1. /\ DOMAIN idOf' = DOMAIN idOf \cup {count} /\ idOf'[count] = r.id
      /\ \A n \in DOMAIN idOf \ {count} : idOf'[n] = idOf[n]
  BY DEF With
<1>2. /\ DOMAIN targetOf' = DOMAIN targetOf \cup {r.id} /\ targetOf'[r.id] = r.target
      /\ \A d \in DOMAIN targetOf \ {r.id} : targetOf'[d] = targetOf[d]
  BY DEF With
<1>3. /\ DOMAIN live' = DOMAIN live \cup {count} /\ live'[count] = r
      /\ \A n \in DOMAIN live \ {count} : live'[n] = live[n]
  BY DEF With
<1>4. count' = count + 1 /\ marks' = marks \cup {mark(i) : i \in 1 .. FieldNumber}
  BY DEF SetRule
<1>5. \A i \in 1 .. FieldNumber : mark(i).bit = FieldNumber * count + i - 1
  BY <1>0 DEF Entry, FieldNumber
<1>6. RulesMapped'
  <2> DEFINE L == live'
             T == targetOf'
             I == idOf'
  <2>1. RulesMapped
    BY DEF MatcherInv
  <2>2. \A n \in DOMAIN live : live[n].id \in DOMAIN targetOf
    BY <2>1 DEF RulesMapped
  <2>3. \A n, k \in DOMAIN L : L[n].id = L[k].id => n = k
    BY <1>0, <1>3, <2>1, <2>2 DEF RulesMapped
  <2>4. DOMAIN I = DOMAIN L /\ \A n \in DOMAIN L : I[n] = L[n].id
    BY <1>0, <1>1, <1>3, <2>1 DEF RulesMapped
  <2>5. DOMAIN T = {L[n].id : n \in DOMAIN L}
    BY <1>0, <1>2, <1>3, <2>1 DEF RulesMapped
  <2>6. \A n \in DOMAIN L : T[L[n].id] = L[n].target
    BY <1>0, <1>2, <1>3, <2>1, <2>2 DEF RulesMapped
  <2>7. \A n \in DOMAIN L : L[n] \in Rule
    BY <1>3, <2>1 DEF RulesMapped
  <2> QED BY <2>3, <2>4, <2>5, <2>6, <2>7 DEF RulesMapped
<1>7. NumbersUsed'
  <2>1. count' \in Nat /\ count' <= MaximumRules
    BY <1>0, <1>4
  <2>2. \A n \in DOMAIN live' : n \in Nat /\ n < count'
    BY <1>0, <1>3, <1>4 DEF MatcherInv, NumbersUsed
  <2> HIDE DEF mark
  <2>3. \A m \in marks' : m.bit \in Nat /\ m.bit < FieldNumber * count'
    BY <1>0, <1>4, <1>5 DEF MatcherInv, NumbersUsed, FieldNumber
  <2> QED BY <2>1, <2>2, <2>3 DEF NumbersUsed
<1>8. MarksOwned'
  <2> SUFFICES ASSUME NEW n \in DOMAIN live', NEW i \in 1 .. FieldNumber
               PROVE  /\ MarkOf(n, i)' \in marks'
                      /\ \A m \in marks' : m.bit = FieldNumber * n + i - 1 => m = MarkOf(n, i)'
    BY DEF MarksOwned
  <2>1. CASE n = count
    <3>1. MarkOf(n, i)' = mark(i)
      BY <1>0, <1>3, <2>1 DEF MarkOf, FieldNumber
    <3> HIDE DEF mark
    <3>2. \A m \in marks : m.bit # FieldNumber * count + i - 1
      BY <1>0 DEF MatcherInv, NumbersUsed, FieldNumber
    <3>3. \A k \in 1 .. FieldNumber : mark(k).bit = FieldNumber * count + i - 1 => k = i
      BY <1>0, <1>5 DEF FieldNumber
    <3>4. \A m \in marks' : m.bit = FieldNumber * count + i - 1 => m = mark(i)
      BY <1>4, <3>2, <3>3
    <3> QED BY <1>4, <2>1, <3>1, <3>4
  <2>2. CASE n # count
    <3>1. n \in DOMAIN live /\ MarkOf(n, i)' = MarkOf(n, i)
      BY <1>3, <2>2 DEF MarkOf
    <3> HIDE DEF mark
    <3>2. \A k \in 1 .. FieldNumber : mark(k).bit # FieldNumber * n + i - 1
      BY <1>0, <1>5, <3>1 DEF MatcherInv, NumbersUsed, FieldNumber
    <3>3. \A m \in marks' : m.bit = FieldNumber * n + i - 1 => m \in marks
      BY <1>4, <3>2
    <3> QED BY <1>4, <3>1, <3>3 DEF MatcherInv, MarksOwned
  <2> QED BY <2>1, <2>2
<1> QED BY <1>6, <1>7, <1>8 DEF MatcherInv

(* One that is refused keeps its number; what was entered of it stays.     *)
LEMMA RuleRefused ==
  ASSUME MatcherInv, count < MaximumRules, NEW r \in Rule, SetRule(r),
         UNCHANGED <<idOf, targetOf, live>>
  PROVE  MatcherInv'
<1> DEFINE mark(i) == Entry(r.patterns[i], count * FieldNumber + i - 1)
<1>0. count \in Nat /\ MaximumRules \in Nat
  BY MatcherAssumption DEF MatcherInv, NumbersUsed
<1>1. count' = count + 1 /\ marks' = marks \cup {mark(i) : i \in EnteredFields(r)}
  BY DEF SetRule
<1>2. EnteredFields(r) \subseteq 1 .. FieldNumber
  BY DEF EnteredFields
<1>3. \A i \in 1 .. FieldNumber : mark(i).bit = FieldNumber * count + i - 1
  BY <1>0 DEF Entry, FieldNumber
<1> HIDE DEF mark
<1>4. RulesMapped'
  BY DEF MatcherInv, RulesMapped
<1>5. NumbersUsed'
  <2>1. \A m \in marks' : m.bit \in Nat /\ m.bit < FieldNumber * count'
    BY <1>0, <1>1, <1>2, <1>3 DEF MatcherInv, NumbersUsed, FieldNumber
  <2> QED BY <1>0, <1>1, <2>1 DEF MatcherInv, NumbersUsed
<1>6. MarksOwned'
  <2> SUFFICES ASSUME NEW n \in DOMAIN live, NEW i \in 1 .. FieldNumber
               PROVE  /\ MarkOf(n, i) \in marks'
                      /\ \A m \in marks' : m.bit = FieldNumber * n + i - 1 => m = MarkOf(n, i)
    BY DEF MarksOwned, MarkOf
  <2>1. \A k \in 1 .. FieldNumber : mark(k).bit # FieldNumber * n + i - 1
    BY <1>0, <1>3 DEF MatcherInv, NumbersUsed, FieldNumber
  <2>2. \A m \in marks' : m.bit = FieldNumber * n + i - 1 => m \in marks
    BY <1>1, <1>2, <2>1
  <2> QED BY <1>1, <2>2 DEF MatcherInv, MarksOwned
<1> QED BY <1>4, <1>5, <1>6 DEF MatcherInv

(* The mappings forget a rule; its number is gone with it, since no other  *)
(* rule in force has its id.                                               *)
LEMMA RuleRemoved ==
  ASSUME MatcherInv, RemoveRule
  PROVE  MatcherInv'
<1> PICK id \in DOMAIN targetOf :
      /\ Forget(id)
      /\ live' = Restrict(live, {n \in DOMAIN live : live[n].id # id})
  BY DEF RemoveRule
<1>1. /\ DOMAIN live' = {n \in DOMAIN live : live[n].id # id}
      /\ \A n \in DOMAIN live' : live'[n] = live[n]
  BY DEF Restrict
<1>2. /\ DOMAIN idOf' = {n \in DOMAIN idOf : idOf[n] # id}
      /\ \A n \in DOMAIN idOf' : idOf'[n] = idOf[n]
  BY DEF Forget, Restrict
<1>3. /\ DOMAIN targetOf' = DOMAIN targetOf \ {id}
      /\ \A d \in DOMAIN targetOf' : targetOf'[d] = targetOf[d]
  BY DEF Forget, Restrict
<1>4. UNCHANGED <<marks, count>>
  BY DEF RemoveRule
<1>5. RulesMapped'
  <2> DEFINE L == live'
             T == targetOf'
             I == idOf'
  <2>1. RulesMapped
    BY DEF MatcherInv
  <2>2. \A n, k \in DOMAIN L : L[n].id = L[k].id => n = k
    BY <1>1, <2>1 DEF RulesMapped
  <2>3. DOMAIN I = DOMAIN L /\ \A n \in DOMAIN L : I[n] = L[n].id
    BY <1>1, <1>2, <2>1 DEF RulesMapped
  <2>0. DOMAIN targetOf = {live[n].id : n \in DOMAIN live}
    BY <2>1 DEF RulesMapped
  <2> HIDE DEF L, T, I
  <2>4. DOMAIN T = {L[n].id : n \in DOMAIN L}
    <3>1. \A d \in DOMAIN T : \E n \in DOMAIN live : live[n].id = d /\ d # id
      BY <1>3, <2>0 DEF T
    <3>2. \A n \in DOMAIN L : L[n].id \in DOMAIN T
      BY <1>1, <1>3, <2>0 DEF L, T
    <3>3. \A d \in DOMAIN T : \E n \in DOMAIN L : L[n].id = d
      BY <1>1, <3>1 DEF L
    <3> QED BY <3>2, <3>3
  <2>5. ASSUME NEW n \in DOMAIN L
        PROVE  T[L[n].id] = L[n].target /\ L[n] \in Rule
    <3>1. n \in DOMAIN live /\ L[n] = live[n] /\ live[n].id \in DOMAIN T
      BY <1>1, <2>4, <2>5 DEF L
    <3>2. T[live[n].id] = targetOf[live[n].id]
      BY <1>3, <3>1 DEF T
    <3> QED BY <2>1, <3>1, <3>2 DEF RulesMapped
  <2> USE DEF L, T, I
  <2> QED BY <2>2, <2>3, <2>4, <2>5 DEF RulesMapped
<1>6. MarksOwned'
  BY <1>1, <1>4 DEF MatcherInv, MarksOwned, MarkOf
<1>7. NumbersUsed'
  BY <1>1, <1>4 DEF MatcherInv, NumbersUsed
<1> QED BY <1>5, <1>6, <1>7 DEF MatcherInv

LEMMA MatcherInvStep == MatcherInv /\ [MatcherNext]_matcherVars => MatcherInv'
<1> SUFFICES ASSUME MatcherInv, [MatcherNext]_matcherVars
             PROVE  MatcherInv'
  OBVIOUS
<1>1. CASE AddRule
  <2> PICK r \in Rule :
        /\ r.id \notin DOMAIN targetOf /\ SetRule(r)
        /\ IF EnteredFields(r) = 1 .. FieldNumber
           THEN /\ idOf' = With(idOf, count, r.id)
                /\ targetOf' = With(targetOf, r.id, r.target)
                /\ live' = With(live, count, r)
           ELSE UNCHANGED <<idOf, targetOf, live>>
    BY <1>1 DEF AddRule
  <2>1. count < MaximumRules
    BY <1>1 DEF AddRule
  <2>2. CASE EnteredFields(r) = 1 .. FieldNumber
    BY <2>1, <2>2, RuleTaken
  <2>3. CASE EnteredFields(r) # 1 .. FieldNumber
    BY <2>1, <2>3, RuleRefused
  <2> QED BY <2>2, <2>3
<1>2. CASE RemoveRule
  BY <1>2, RuleRemoved
<1>3. CASE ReplaceReverse \/ UNCHANGED matcherVars
  <2>1. UNCHANGED <<marks, count, idOf, targetOf, live>>
    BY <1>3 DEF ReplaceReverse, matcherVars
  <2>2. RulesMapped'
    BY <2>1 DEF MatcherInv, RulesMapped
  <2>3. MarksOwned'
    BY <2>1 DEF MatcherInv, MarksOwned, MarkOf
  <2>4. NumbersUsed'
    BY <2>1 DEF MatcherInv, NumbersUsed
  <2> QED BY <2>2, <2>3, <2>4 DEF MatcherInv
<1> QED BY <1>1, <1>2, <1>3 DEF MatcherNext

LEMMA MatcherInvariant == MatcherSpec => []MatcherInv
BY MatcherInvInit, MatcherInvStep, PTL DEF MatcherSpec

-----------------------------------------------------------------------------
(* What find_target answers.                                               *)

(* A rule's mark for a field is met when its pattern is.                   *)
LEMMA MarkMet ==
  ASSUME MatcherInv, NEW n \in DOMAIN live, NEW i \in 1 .. FieldNumber, NEW w
  PROVE  FieldNumber * n + i - 1 \in Bits(w) <=> Meets(live[n].patterns[i], w)
<1> DEFINE b == FieldNumber * n + i - 1
           m == MarkOf(n, i)
           p == live[n].patterns[i]
           met(k) == IF k.star THEN w # << >> /\ IsPrefix(k.word, w) ELSE k.word = w
<1>1. m.word = p.word /\ m.star = p.star /\ m.bit = b
  BY DEF MarkOf, Entry
<1>2. m \in marks /\ \A k \in marks : k.bit = b => k = m
  BY DEF MatcherInv, MarksOwned
<1>3. p.star \/ p.word # << >>
  BY MatcherAssumption DEF MatcherInv, RulesMapped
<1>4. Bits(w) = {k.bit : k \in {l \in marks : met(l)}}
  BY DEF Bits
<1>5. met(m) <=> (IF p.star THEN w # << >> /\ IsPrefix(p.word, w) ELSE p.word = w)
  BY <1>1
<1> HIDE DEF b, m, met
<1>6. b \in Bits(w) <=> met(m)
  BY <1>1, <1>2, <1>4
<1> HIDE DEF p
<1>7. Meets(p, w) <=> met(m)
  BY <1>3, <1>5 DEF Meets
<1> QED BY <1>6, <1>7 DEF b, p

(* Only a character no trie takes is not read: the letters are made        *)
(* lowercase, and the word may be reversed.                                *)
LEMMA UnreadWord ==
  ASSUME NEW q \in Query, NEW i \in 1 .. FieldNumber, Unread(Fields(q)[i])
  PROVE  ToSet(q[i]) \cap Unprintable # {}
<1> DEFINE w == IF i = DestField /\ reverse THEN Reverse(q[i]) ELSE q[i]
           v == Lower(w)
<1>1. q[i] \in Seq(Char)
  BY MatcherAssumption
<1>2. DOMAIN q[i] = 1 .. Len(q[i]) /\ Len(q[i]) \in Nat
  BY <1>1, LenProperties
<1>3. /\ w = [k \in 1 .. Len(q[i]) |-> w[k]]
      /\ \A k \in 1 .. Len(q[i]) : w[k] \in ToSet(q[i]) /\ w[k] \in Char
  <2>1. CASE w = q[i]
    BY <1>1, <1>2, <2>1 DEF ToSet
  <2>2. CASE w = Reverse(q[i])
    <3>1. /\ w = [k \in 1 .. Len(q[i]) |-> w[k]]
          /\ \A k \in 1 .. Len(q[i]) : w[k] = q[i][(Len(q[i]) - k) + 1]
      BY <2>2 DEF Reverse
    <3>2. \A k \in 1 .. Len(q[i]) : (Len(q[i]) - k) + 1 \in 1 .. Len(q[i])
      BY <1>2
    <3> HIDE DEF w
    <3>3. ASSUME NEW k \in 1 .. Len(q[i])
          PROVE  w[k] \in ToSet(q[i]) /\ w[k] \in Char
      <4>1. (Len(q[i]) - k) + 1 \in DOMAIN q[i]
        BY <1>2, <3>2
      <4>2. w[k] = q[i][(Len(q[i]) - k) + 1]
        BY <3>1
      <4>3. q[i][(Len(q[i]) - k) + 1] \in Char
        BY <1>1, <3>2, ElementOfSeq
      <4> QED BY <4>1, <4>2, <4>3 DEF ToSet
    <3> QED BY <3>1, <3>3
  <2> QED BY <2>1, <2>2, Zenon
<1>4. Fields(q)[i] = v
  BY DEF Fields
<1> HIDE DEF w
<1>5. /\ v = [k \in 1 .. Len(q[i]) |-> v[k]]
      /\ \A k \in 1 .. Len(q[i]) :
           v[k] = IF w[k] \in DOMAIN Upper THEN Upper[w[k]] ELSE w[k]
  BY <1>3 DEF Lower
<1> HIDE DEF v
<1>6. \A k \in 1 .. Len(q[i]) : v[k] \in Char
  BY <1>3, <1>5, MatcherAssumption
<1>7. v \in Seq(Char)
  BY <1>2, <1>5, <1>6
<1>8. PICK n \in 0 .. Len(v) - 1 : v[n + 1] \in Unprintable
  BY <1>4 DEF Unread
<1>9. n + 1 \in 1 .. Len(q[i])
  <2>1. DOMAIN v = 1 .. Len(v) /\ Len(v) \in Nat
    BY <1>7, LenProperties
  <2>2. n + 1 \in 1 .. Len(v)
    BY <2>1
  <2> QED BY <1>5, <2>1, <2>2
<1>10. w[n + 1] \in Unprintable
  BY <1>5, <1>8, <1>9, MatcherAssumption
<1> QED BY <1>3, <1>9, <1>10

LEMMA LatestSuffices == MatcherInv => LatestRule
<1> SUFFICES ASSUME MatcherInv
             PROVE  LatestRule
  OBVIOUS
<1>1. MarksNumbered /\ MaximumRules \in Nat
  <2>1. count \in Nat /\ count <= MaximumRules /\ MaximumRules \in Nat
        /\ \A m \in marks : m.bit \in Nat /\ m.bit < FieldNumber * count
    BY MatcherAssumption DEF MatcherInv, NumbersUsed
  <2> QED BY <2>1 DEF MarksNumbered, FieldNumber
<1>2. /\ \A n \in DOMAIN live : n \in 0 .. MaximumRules - 1
      /\ DOMAIN idOf = DOMAIN live
      /\ \A n \in DOMAIN live : /\ idOf[n] \in DOMAIN targetOf
                                /\ targetOf[idOf[n]] = live[n].target
                                /\ live[n].target # "throws"
  BY <1>1, MatcherAssumption DEF MatcherInv, RulesMapped, NumbersUsed
<1> SUFFICES ASSUME NEW q \in Query
             PROVE  LET fields   == Fields(q)
                        matching == {n \in DOMAIN live :
                                       \A i \in 1 .. FieldNumber :
                                         Meets(live[n].patterns[i], fields[i])}
                        answer   == FindTarget(q)
                    IN IF answer = "throws"
                       THEN \E i \in 1 .. FieldNumber : ToSet(q[i]) \cap Unprintable # {}
                       ELSE answer = IF matching = {} THEN NoTarget
                                     ELSE live[Max(matching)].target
  BY DEF LatestRule
<1> DEFINE fields   == Fields(q)
           matching == {n \in DOMAIN live :
                          \A i \in 1 .. FieldNumber : Meets(live[n].patterns[i], fields[i])}
           known    == {n \in Match(fields) : n \in DOMAIN idOf /\ idOf[n] \in DOMAIN targetOf}
           refusing   == \E i \in 1 .. FieldNumber : Unread(fields[i])
<1>3. known = matching
  <2>1. \A n \in DOMAIN live :
          n \in Match(fields)
            <=> \A i \in 1 .. FieldNumber : FieldNumber * n + i - 1 \in Bits(fields[i])
    BY <1>1, <1>2, MatchOf
  <2>2. \A n \in DOMAIN live : \A i \in 1 .. FieldNumber :
          FieldNumber * n + i - 1 \in Bits(fields[i]) <=> Meets(live[n].patterns[i], fields[i])
    BY MarkMet
  <2>3. \A n \in DOMAIN live : n \in Match(fields) <=> n \in matching
    BY <2>1, <2>2
  <2>4. \A n : n \in known <=> n \in DOMAIN live /\ n \in Match(fields)
    BY <1>2
  <2> HIDE DEF known
  <2> QED BY <2>3, <2>4
<1>4. FindTarget(q) = IF refusing THEN "throws"
                      ELSE IF known = {} THEN NoTarget ELSE targetOf[idOf[Max(known)]]
  BY DEF FindTarget
<1>5. matching \subseteq DOMAIN live
  OBVIOUS
<1>6. refusing => \E i \in 1 .. FieldNumber : ToSet(q[i]) \cap Unprintable # {}
  BY UnreadWord
<1> HIDE DEF fields, matching, known, refusing
<1>7. matching # {} => Max(matching) \in DOMAIN live
  <2>1. MaximumRules - 1 \in Nat /\ matching \in SUBSET (0 .. MaximumRules - 1)
    BY <1>1, <1>2, <1>5, MatcherAssumption
  <2> QED BY <1>5, <2>1, Largest
<1>8. CASE refusing
  BY <1>4, <1>6, <1>8
<1>9. CASE ~refusing /\ matching = {}
  <2>1. FindTarget(q) = NoTarget /\ NoTarget # "throws"
    BY <1>3, <1>4, <1>9, MatcherAssumption
  <2> QED BY <1>9, <2>1 DEF matching, fields
<1>10. CASE ~refusing /\ matching # {}
  <2>1. FindTarget(q) = targetOf[idOf[Max(matching)]]
    BY <1>3, <1>4, <1>10
  <2>2. FindTarget(q) = live[Max(matching)].target /\ FindTarget(q) # "throws"
    BY <1>2, <1>7, <1>10, <2>1
  <2> QED BY <1>10, <2>2 DEF matching, fields
<1> QED BY <1>8, <1>9, <1>10

(* A deliver goes to the target of the latest rule in force that matches   *)
(* it in all four fields, whatever rules were refused half way or removed  *)
(* before, and wherever a rule's bits lie in the words of a bit set.       *)
THEOREM LatestRuleWins == MatcherSpec => []LatestRule
BY MatcherInvariant, LatestSuffices, PTL

(* The same of the composition.                                            *)
THEOREM LatestWinsAlways == Spec => []LatestWins
<1>1. Init => MatcherInv
  BY MatcherInvInit DEF Init
<1>2. MatcherInv /\ [Next]_routingVars => MatcherInv'
  <2>1. [Next]_routingVars => [MatcherNext]_matcherVars
    BY DEF Next, routingVars
  <2> QED BY <2>1, MatcherInvStep
<1>3. MatcherInv => LatestWins
  BY LatestSuffices DEF LatestWins
<1> QED BY <1>1, <1>2, <1>3, PTL DEF Spec

-----------------------------------------------------------------------------
(* Words and their prefixes, which are the nodes of the tree.              *)

Word == Seq(Character)

LEMMA PrefixOf ==
  ASSUME NEW w \in Word, NEW p
  PROVE  p \in Prefixes(w)
           <=> p \in Word /\ Len(p) <= Len(w) /\ \A i \in 1 .. Len(p) : p[i] = w[i]
<1>1. Len(w) \in Nat /\ \A i \in 1 .. Len(w) : w[i] \in Character
  BY LenProperties, ElementOfSeq DEF Word
<1>2. ASSUME NEW n \in 0 .. Len(w)
      PROVE  /\ SubSeq(w, 1, n) \in Word /\ Len(SubSeq(w, 1, n)) = n
             /\ \A i \in 1 .. n : SubSeq(w, 1, n)[i] = w[i]
  <2>1. \A i \in 1 .. n : w[i] \in Character
    BY <1>1
  <2> QED BY <1>1, <2>1, SubSeqProperties DEF Word
<1>3. ASSUME p \in Prefixes(w)
      PROVE  p \in Word /\ Len(p) <= Len(w) /\ \A i \in 1 .. Len(p) : p[i] = w[i]
  <2>1. PICK n \in 0 .. Len(w) : p = SubSeq(w, 1, n)
    BY <1>3 DEF Prefixes
  <2> QED BY <1>1, <1>2, <2>1
<1>4. ASSUME p \in Word, Len(p) <= Len(w), \A i \in 1 .. Len(p) : p[i] = w[i]
      PROVE  p \in Prefixes(w)
  <2>1. Len(p) \in 0 .. Len(w)
    BY <1>1, <1>4, LenProperties DEF Word
  <2>2. p = SubSeq(w, 1, Len(p))
    BY <1>2, <1>4, <2>1, SeqEqual DEF Word
  <2> QED BY <2>1, <2>2 DEF Prefixes
<1> QED BY <1>3, <1>4

LEMMA WordLength == ASSUME NEW w \in Word PROVE Len(w) \in Nat
BY LenProperties DEF Word

(* Two prefixes of one word: the shorter one is a prefix of the longer.    *)
LEMMA PrefixOrder ==
  ASSUME NEW w \in Word, NEW p \in Prefixes(w), NEW q \in Prefixes(w)
  PROVE  /\ p \in Word /\ q \in Word
         /\ Len(p) <= Len(q) => p \in Prefixes(q)
         /\ Len(p) = Len(q) => p = q
<1>1. /\ p \in Word /\ Len(p) <= Len(w) /\ \A i \in 1 .. Len(p) : p[i] = w[i]
      /\ q \in Word /\ Len(q) <= Len(w) /\ \A i \in 1 .. Len(q) : q[i] = w[i]
  BY PrefixOf
<1>2. Len(p) \in Nat /\ Len(q) \in Nat
  BY <1>1, WordLength
<1>3. Len(p) <= Len(q) => p \in Prefixes(q)
  BY <1>1, <1>2, PrefixOf
<1>4. Len(p) = Len(q) => p = q
  BY <1>1, <1>2, SeqEqual DEF Word
<1> QED BY <1>1, <1>3, <1>4

LEMMA PrefixTrans ==
  ASSUME NEW w \in Word, NEW q \in Prefixes(w), NEW p \in Prefixes(q)
  PROVE  p \in Prefixes(w) /\ Len(p) <= Len(q) /\ (Len(p) = Len(q) => p = q)
<1>1. q \in Word /\ Len(q) <= Len(w) /\ \A i \in 1 .. Len(q) : q[i] = w[i]
  BY PrefixOf
<1>2. p \in Word /\ Len(p) <= Len(q) /\ \A i \in 1 .. Len(p) : p[i] = q[i]
  BY <1>1, PrefixOf
<1>3. Len(p) \in Nat /\ Len(q) \in Nat /\ Len(w) \in Nat
  BY <1>1, <1>2, WordLength
<1>4. p \in Prefixes(w)
  BY <1>1, <1>2, <1>3, PrefixOf
<1>5. Len(p) = Len(q) => p = q
  BY <1>1, <1>2, SeqEqual DEF Word
<1> QED BY <1>2, <1>4, <1>5

LEMMA PrefixEnds ==
  ASSUME NEW w \in Word
  PROVE  /\ << >> \in Prefixes(w) /\ w \in Prefixes(w) /\ << >> \in Word /\ Len(<< >>) = 0
         /\ \A p \in Prefixes(w) : p \in Word /\ Len(p) \in 0 .. Len(w)
         /\ Len(w) = 0 => w = << >>
         /\ IsFiniteSet(Prefixes(w))
<1>1. << >> \in Word /\ Len(<< >>) = 0 /\ Len(w) \in Nat
  BY EmptySeq, WordLength DEF Word
<1>2. << >> \in Prefixes(w) /\ w \in Prefixes(w)
  BY <1>1, PrefixOf
<1>3. \A p \in Prefixes(w) : p \in Word /\ Len(p) \in 0 .. Len(w)
  BY <1>1, PrefixOf, WordLength
<1>4. Len(w) = 0 => w = << >>
  BY <1>1, <1>2, PrefixOrder
<1>5. IsFiniteSet(Prefixes(w))
  <2> DEFINE I == 0 .. Len(w)
             f == [n \in I |-> SubSeq(w, 1, n)]
  <2>1. IsFiniteSet(I)
    BY <1>1, FS_Interval
  <2>2. f \in Surjection(I, Prefixes(w))
    BY DEF Prefixes, Surjection
  <2> QED BY <2>1, <2>2, FS_Surjection
<1> QED BY <1>1, <1>2, <1>3, <1>4, <1>5

(* The parent of a node.                                                   *)
LEMMA FrontOf ==
  ASSUME NEW q \in Word, q # << >>
  PROVE  /\ Front(q) \in Prefixes(q) /\ Front(q) \in Word /\ Len(Front(q)) = Len(q) - 1
         /\ \A r \in Prefixes(q) : r # q => r \in Prefixes(Front(q))
<1>1. Len(q) \in Nat /\ Len(q) # 0
  BY PrefixEnds, WordLength
<1>2. Front(q) \in Prefixes(q)
  BY <1>1 DEF Front, Prefixes
<1>3. \A i \in 1 .. Len(q) - 1 : q[i] \in Character
  BY <1>1, ElementOfSeq DEF Word
<1>4. Front(q) \in Word /\ Len(Front(q)) = Len(q) - 1
  <2> DEFINE n == Len(q) - 1
  <2>1. n \in Int /\ 1 \in Int /\ n \in Nat
    BY <1>1
  <2>2. Front(q) = SubSeq(q, 1, n)
    BY DEF Front
  <2> HIDE DEF n
  <2>3. SubSeq(q, 1, n) \in Seq(Character) /\ Len(SubSeq(q, 1, n)) = IF 1 <= n THEN n - 1 + 1 ELSE 0
    BY <1>3, <2>1, SubSeqProperties DEF n
  <2>4. Len(SubSeq(q, 1, n)) = n
    BY <2>1, <2>3
  <2> QED BY <2>2, <2>3, <2>4 DEF n, Word
<1>5. ASSUME NEW r \in Prefixes(q), r # q
      PROVE  r \in Prefixes(Front(q))
  <2>1. Len(r) \in Nat /\ Len(r) <= Len(q) /\ Len(r) # Len(q)
    BY <1>1, <1>5, PrefixEnds, PrefixOrder
  <2>2. Len(r) <= Len(Front(q))
    BY <1>1, <1>4, <2>1
  <2> QED BY <1>2, <2>2, PrefixOrder
<1> QED BY <1>2, <1>4, <1>5

LEMMA IsPrefixOf ==
  ASSUME NEW p \in Word, NEW w \in Word
  PROVE  IsPrefix(p, w) <=> p \in Prefixes(w)
<1>1. Len(p) \in Nat /\ Len(w) \in Nat
  BY WordLength
<1>2. SubSeq(p, 1, Len(p)) = p
  BY SubSeqFull DEF Word
<1>3. IsPrefix(p, w) <=> Len(p) <= Len(w) /\ p = SubSeq(w, 1, Len(p))
  BY <1>2 DEF IsPrefix
<1>4. ASSUME p \in Prefixes(w)
      PROVE  IsPrefix(p, w)
  <2>1. PICK n \in 0 .. Len(w) : p = SubSeq(w, 1, n)
    BY <1>4 DEF Prefixes
  <2>2. \A i \in 1 .. n : w[i] \in Character
    BY <1>1, ElementOfSeq DEF Word
  <2>3. Len(p) = n
    BY <1>1, <2>1, <2>2, SubSeqProperties
  <2> QED BY <1>3, <2>1, <2>3
<1>5. ASSUME IsPrefix(p, w)
      PROVE  p \in Prefixes(w)
  <2>1. Len(p) \in 0 .. Len(w) /\ p = SubSeq(w, 1, Len(p))
    BY <1>1, <1>3, <1>5
  <2> QED BY <2>1 DEF Prefixes
<1> QED BY <1>4, <1>5

-----------------------------------------------------------------------------
(* The inductive invariant: a tree, whose nodes count their children and   *)
(* lead to values, and a table that has the values of the tree.            *)

NodeMembers == {"valued", "dest", "limit", "kids"}

Children(t, p) == {q \in DOMAIN t : IsChild(q, p)}

\* What holds of each node, but that a leaf has a value.
NodesCount(t) ==
  /\ IsFiniteSet(DOMAIN t) /\ << >> \in DOMAIN t /\ t = [p \in DOMAIN t |-> t[p]]
  /\ \A p \in DOMAIN t :
       /\ p \in Word /\ Prefixes(p) \subseteq DOMAIN t
       /\ DOMAIN t[p] = NodeMembers
       /\ t[p].valued \in BOOLEAN
       /\ t[p].kids = Cardinality(Children(t, p))
       /\ p # << >> => \E w \in Prefix : p \in Prefixes(w)

LeavesValued(t) == \A p \in DOMAIN t : p # << >> /\ t[p].kids = 0 => t[p].valued

Agree(t, known) ==
  /\ known = [w \in Prefix |-> known[w]]
  /\ \A p \in DOMAIN t :
       t[p].valued => /\ p \in Prefix
                      /\ known[p] = [dest |-> t[p].dest, limit |-> t[p].limit]
                      /\ t[p].dest \in Destination /\ t[p].limit \in Limits
  /\ \A w \in Prefix : known[w] # NoRoute => w \in DOMAIN t /\ t[w].valued

MapInv(t, known) == NodesCount(t) /\ LeavesValued(t) /\ Agree(t, known)

LEMMA PrefixWord == ASSUME NEW w \in Prefix PROVE w \in Word
BY MapperAssumption DEF Word

(* A child hangs below a node.                                             *)
LEMMA ParentThere ==
  ASSUME NEW t, NodesCount(t), NEW q \in DOMAIN t, NEW p, IsChild(q, p)
  PROVE  p \in DOMAIN t /\ p \in Prefixes(q) /\ Len(q) = Len(p) + 1 /\ Len(p) \in Nat
<1>1. q \in Word /\ q # << >> /\ p = Front(q) /\ Prefixes(q) \subseteq DOMAIN t
  BY DEF NodesCount, IsChild
<1>2. p \in Prefixes(q) /\ p \in Word /\ Len(p) = Len(q) - 1
  BY <1>1, FrontOf
<1> QED BY <1>1, <1>2, WordLength

(* Between a node and a longer word on its way there is a child of it.     *)
LEMMA ChildBetween ==
  ASSUME NEW w \in Word, NEW p \in Prefixes(w), p # w
  PROVE  \E q \in Prefixes(w) : IsChild(q, p) /\ Len(q) = Len(p) + 1
<1>1. /\ p \in Word /\ Len(p) <= Len(w) /\ \A i \in 1 .. Len(p) : p[i] = w[i]
      /\ Len(p) \in Nat /\ Len(w) \in Nat
  BY PrefixOf, WordLength
<1>2. Len(p) < Len(w)
  BY <1>1, PrefixOrder, PrefixEnds
<1> DEFINE n == Len(p) + 1
           q == SubSeq(w, 1, n)
<1>3. n \in 0 .. Len(w) /\ n \in Int /\ \A i \in 1 .. n : w[i] \in Character
  BY <1>1, <1>2, ElementOfSeq DEF Word
<1>4. q \in Prefixes(w) /\ Len(q) = n
  <2>1. q \in Prefixes(w)
    BY <1>3 DEF Prefixes
  <2> HIDE DEF n
  <2>2. Len(q) = IF 1 <= n THEN n - 1 + 1 ELSE 0
    BY <1>3, SubSeqProperties
  <2>3. 1 <= n
    BY <1>1 DEF n
  <2> QED BY <1>3, <2>1, <2>2, <2>3
<1> HIDE DEF q
<1>5. q \in Word /\ q # << >>
  BY <1>1, <1>4, PrefixOrder, EmptySeq
<1>6. Front(q) \in Prefixes(w) /\ Len(Front(q)) = Len(p)
  BY <1>1, <1>4, <1>5, FrontOf, PrefixTrans
<1>7. Front(q) = p
  BY <1>6, PrefixOrder
<1> QED BY <1>4, <1>5, <1>7 DEF IsChild

LEMMA EmptyMap == MapInv(EmptyTree, EmptyTable)
<1>1. << >> \in Word /\ Prefixes(<< >>) = {<< >>}
  <2>1. << >> \in Word
    BY EmptySeq DEF Word
  <2>2. \A p \in Prefixes(<< >>) : p = << >>
    BY <2>1, PrefixEnds, PrefixOrder
  <2> QED BY <2>1, <2>2, PrefixEnds
<1>2. Children(EmptyTree, << >>) = {}
  BY DEF Children, EmptyTree, IsChild
<1>3. IsFiniteSet({<< >>}) /\ Cardinality({}) = 0
  BY FS_Singleton, FS_EmptySet
<1>4. /\ DOMAIN EmptyTree = {<< >>} /\ EmptyTree[<< >>] = NewNode
      /\ EmptyTree = [p \in {<< >>} |-> NewNode]
  BY DEF EmptyTree
<1>5. NodesCount(EmptyTree)
  BY <1>1, <1>2, <1>3, <1>4 DEF NodesCount, NewNode, NodeMembers
<1>6. LeavesValued(EmptyTree)
  BY <1>4 DEF LeavesValued
<1>7. Agree(EmptyTree, EmptyTable)
  BY <1>4 DEF Agree, EmptyTable, NewNode
<1> QED BY <1>5, <1>6, <1>7 DEF MapInv

-----------------------------------------------------------------------------
(* create_sub_tree.                                                        *)

(* The tree grown by the nodes of a word counts its children, and its only *)
(* leaf without a value may be the word itself.                            *)
LEMMA Grown ==
  ASSUME NEW t, NEW w \in Prefix, NodesCount(t), LeavesValued(t), NEW g, g = CreateSubTree(t, w)
  PROVE  /\ NodesCount(g)
         /\ DOMAIN g = DOMAIN t \cup Prefixes(w)
         /\ \A p \in DOMAIN g : p # << >> /\ p # w /\ g[p].kids = 0 => g[p].valued
         /\ \A p \in DOMAIN g :
              IF p \in DOMAIN t
              THEN (g[p].valued <=> t[p].valued) /\ g[p].dest = t[p].dest /\ g[p].limit = t[p].limit
              ELSE ~ g[p].valued
<1> DEFINE new == Prefixes(w) \ DOMAIN t
           D == DOMAIN t \cup new
           old(p) == IF p \in new THEN NewNode ELSE t[p]
           more(p) == {q \in new : IsChild(q, p)}
<1>1. w \in Word
  BY PrefixWord
<1>2. \A p \in D : g[p] = [old(p) EXCEPT !.kids = @ + Cardinality(more(p))]
  BY DEF CreateSubTree
<1>3. DOMAIN g = D /\ D = DOMAIN t \cup Prefixes(w) /\ g = [p \in D |-> g[p]]
  BY DEF CreateSubTree
<1>4. \A p \in D : DOMAIN old(p) = NodeMembers
  BY DEF NewNode, NodesCount, NodeMembers
<1>5. ASSUME NEW p \in D
      PROVE  /\ g[p].valued = old(p).valued /\ g[p].dest = old(p).dest
             /\ g[p].limit = old(p).limit
             /\ g[p].kids = old(p).kids + Cardinality(more(p))
             /\ DOMAIN g[p] = NodeMembers
  <2> HIDE DEF old, D, more
  <2> QED BY <1>2, <1>4 DEF NodeMembers
<1>6. IsFiniteSet(D) /\ IsFiniteSet(new)
  <2>1. IsFiniteSet(Prefixes(w)) /\ new \in SUBSET Prefixes(w)
    BY <1>1, PrefixEnds
  <2>2. IsFiniteSet(new)
    BY <2>1, FS_Subset
  <2>3. IsFiniteSet(DOMAIN t)
    BY DEF NodesCount
  <2> HIDE DEF new
  <2> QED BY <2>2, <2>3, FS_Union
<1>7. ASSUME NEW p \in D
      PROVE  /\ p \in Word /\ Prefixes(p) \subseteq D
             /\ p # << >> => \E v \in Prefix : p \in Prefixes(v)
  <2>1. CASE p \in DOMAIN t
    BY <2>1 DEF NodesCount
  <2>2. CASE p \in Prefixes(w)
    <3>1. p \in Word
      BY <1>1, <2>2, PrefixEnds
    <3>2. Prefixes(p) \subseteq Prefixes(w)
      BY <1>1, <2>2, PrefixTrans
    <3> QED BY <1>3, <2>2, <3>1, <3>2
  <2> QED BY <2>1, <2>2
<1>8. \A q \in DOMAIN t : \A p : IsChild(q, p) => p \in DOMAIN t
  BY ParentThere
<1>9. ASSUME NEW p \in D
      PROVE  /\ old(p).kids + Cardinality(more(p)) = Cardinality(Children(g, p))
             /\ IsFiniteSet(more(p)) /\ old(p).kids \in Nat
             /\ p \in DOMAIN t => old(p) = t[p]
  <2> DEFINE old1 == Children(t, p)
  <2>1. Children(g, p) = old1 \cup more(p) /\ old1 \cap more(p) = {}
    BY <1>3 DEF Children
  <2>2. IsFiniteSet(old1) /\ IsFiniteSet(more(p))
    <3>1. old1 \in SUBSET DOMAIN t /\ more(p) \in SUBSET new /\ IsFiniteSet(DOMAIN t)
      BY DEF Children, NodesCount
    <3> HIDE DEF old1, more, new
    <3> QED BY <1>6, <3>1, FS_Subset
  <2>3. Cardinality(old1) \in Nat /\ Cardinality(more(p)) \in Nat
    BY <2>2, FS_CardinalityType
  <2>4. Cardinality(Children(g, p)) = Cardinality(old1) + Cardinality(more(p))
    <3> HIDE DEF old1, more
    <3>1. Cardinality(old1 \cup more(p))
            = Cardinality(old1) + Cardinality(more(p)) - Cardinality({})
      BY <2>1, <2>2, FS_Union
    <3> QED BY <2>1, <2>3, <3>1, FS_EmptySet
  <2>5. CASE p \in DOMAIN t
    <3>1. old(p) = t[p] /\ t[p].kids = Cardinality(old1)
      BY <2>5 DEF NodesCount
    <3> HIDE DEF old, old1, more
    <3> QED BY <2>2, <2>3, <2>4, <3>1
  <2>6. CASE p \notin DOMAIN t
    <3>1. old1 = {}
      BY <1>8, <2>6 DEF Children
    <3>2. old(p).kids = 0
      BY <2>6 DEF NewNode
    <3> HIDE DEF old, more
    <3> QED BY <2>2, <2>3, <2>4, <2>6, <3>1, <3>2, FS_EmptySet
  <2> QED BY <2>5, <2>6
<1>10. \A p \in D : old(p).valued \in BOOLEAN
  BY DEF NodesCount, NewNode
<1>11. ASSUME NEW p \in D, p # << >>, p # w, g[p].kids = 0
       PROVE  g[p].valued
  <2>1. old(p).kids \in Nat /\ Cardinality(more(p)) \in Nat
        /\ old(p).kids + Cardinality(more(p)) = 0 /\ g[p].valued = old(p).valued
    <3> HIDE DEF old, more, D
    <3>1. Cardinality(more(p)) \in Nat
      BY <1>9, FS_CardinalityType
    <3> QED BY <1>5, <1>9, <1>11, <3>1
  <2>2. old(p).kids = 0 /\ Cardinality(more(p)) = 0
    <3> HIDE DEF old, more
    <3> QED BY <2>1
  <2>3. CASE p \in DOMAIN t
    BY <1>11, <2>1, <2>2, <2>3 DEF LeavesValued
  <2>4. CASE p \in new
    <3>1. PICK q \in Prefixes(w) : IsChild(q, p)
      BY <1>1, <1>11, <2>4, ChildBetween
    <3>2. q \in more(p)
      BY <1>8, <2>4, <3>1
    <3>3. more(p) = {}
      <4> HIDE DEF more
      <4> QED BY <1>9, <2>2, FS_EmptySet
    <3> QED BY <3>2, <3>3
  <2> QED BY <2>3, <2>4
<1>12. << >> \in D
  BY DEF NodesCount
<1>13. \A p \in D : IF p \in DOMAIN t THEN old(p) = t[p] ELSE ~ old(p).valued
  BY DEF NewNode
<1> HIDE DEF old, more, new, D
<1>14. \A p \in D : g[p].kids = Cardinality(Children(g, p)) /\ g[p].valued \in BOOLEAN
  BY <1>5, <1>9, <1>10
<1>15. \A p \in D : DOMAIN g[p] = NodeMembers
  BY <1>5
<1>16. NodesCount(g)
  BY <1>3, <1>6, <1>7, <1>12, <1>14, <1>15 DEF NodesCount
<1>17. \A p \in D :
         IF p \in DOMAIN t
         THEN (g[p].valued <=> t[p].valued) /\ g[p].dest = t[p].dest /\ g[p].limit = t[p].limit
         ELSE ~ g[p].valued
  BY <1>5, <1>13
<1> QED BY <1>3, <1>11, <1>16, <1>17

(* A node gets another value, or none; it keeps its place and children.    *)
LEMMA Revalued ==
  ASSUME NEW t, NodesCount(t), NEW w \in DOMAIN t, NEW u, DOMAIN u = DOMAIN t,
         u = [p \in DOMAIN u |-> u[p]], DOMAIN u[w] = NodeMembers,
         u[w].valued \in BOOLEAN, u[w].kids = t[w].kids, \A p \in DOMAIN t \ {w} : u[p] = t[p]
  PROVE  NodesCount(u) /\ \A p \in DOMAIN t : u[p].kids = t[p].kids
<1>1. \A p \in DOMAIN t : u[p].kids = t[p].kids
  OBVIOUS
<1>2. \A p : Children(u, p) = Children(t, p)
  BY DEF Children
<1>3. ASSUME NEW p \in DOMAIN u
      PROVE  /\ p \in Word /\ Prefixes(p) \subseteq DOMAIN u
             /\ DOMAIN u[p] = NodeMembers
             /\ u[p].valued \in BOOLEAN
             /\ u[p].kids = Cardinality(Children(u, p))
             /\ p # << >> => \E x \in Prefix : p \in Prefixes(x)
  <2>1. /\ p \in Word /\ Prefixes(p) \subseteq DOMAIN u
        /\ p # << >> => \E x \in Prefix : p \in Prefixes(x)
    BY DEF NodesCount
  <2>2. u[p].kids = Cardinality(Children(u, p))
    BY <1>1, <1>2 DEF NodesCount
  <2>3. CASE p = w
    BY <2>1, <2>2, <2>3
  <2>4. CASE p # w
    <3>1. DOMAIN u[p] = NodeMembers /\ u[p].valued \in BOOLEAN
      BY <2>4 DEF NodesCount
    <3> QED BY <2>1, <2>2, <3>1
  <2> QED BY <2>3, <2>4
<1>4. IsFiniteSet(DOMAIN u) /\ << >> \in DOMAIN u
  BY DEF NodesCount
<1> QED BY <1>1, <1>3, <1>4 DEF NodesCount

SetNode(t, w, d, l) == [t EXCEPT ![w].valued = TRUE, ![w].dest = d, ![w].limit = l]

LEMMA NodeSet ==
  ASSUME NEW t, NEW w \in DOMAIN t, NEW d, NEW l, NEW u, DOMAIN t[w] = NodeMembers,
         u = SetNode(t, w, d, l)
  PROVE  /\ DOMAIN u = DOMAIN t /\ DOMAIN u[w] = NodeMembers /\ u = [p \in DOMAIN u |-> u[p]]
         /\ u[w].valued \in BOOLEAN /\ u[w].valued
         /\ u[w].dest = d /\ u[w].limit = l /\ u[w].kids = t[w].kids
         /\ \A p \in DOMAIN t \ {w} : u[p] = t[p]
BY DEF NodeMembers, SetNode

LEMMA NoRouteNone ==
  ASSUME NEW d \in Destination, NEW l
  PROVE  [dest |-> d, limit |-> l] # NoRoute
BY MapperAssumption DEF NoRoute

\* The value of a node and the table's entry change together.
SetEntry(known, w, d, l) == [known EXCEPT ![w] = [dest |-> d, limit |-> l]]

LEMMA ValueEntered ==
  ASSUME NEW t, NEW known, Agree(t, known), NEW w \in Prefix, NEW u, NEW d \in Destination,
         NEW l \in Limits, NEW after, after = SetEntry(known, w, d, l),
         w \in DOMAIN u, DOMAIN t \subseteq DOMAIN u,
         u[w].valued, u[w].dest = d, u[w].limit = l,
         \A p \in DOMAIN u \ {w} :
           IF p \in DOMAIN t
           THEN (u[p].valued <=> t[p].valued) /\ u[p].dest = t[p].dest /\ u[p].limit = t[p].limit
           ELSE ~ u[p].valued
  PROVE  Agree(u, after)
<1>1. /\ after = [x \in Prefix |-> after[x]] /\ after[w] = [dest |-> d, limit |-> l]
      /\ \A x \in Prefix \ {w} : after[x] = known[x]
  BY DEF Agree, SetEntry
<1>2. ASSUME NEW p \in DOMAIN u, u[p].valued
      PROVE  /\ p \in Prefix /\ after[p] = [dest |-> u[p].dest, limit |-> u[p].limit]
             /\ u[p].dest \in Destination /\ u[p].limit \in Limits
  <2>1. CASE p = w
    BY <1>1, <2>1
  <2>2. CASE p # w
    <3>1. /\ p \in DOMAIN t /\ t[p].valued
          /\ u[p].dest = t[p].dest /\ u[p].limit = t[p].limit
      BY <1>2, <2>2
    <3> QED BY <1>1, <2>2, <3>1 DEF Agree
  <2> QED BY <2>1, <2>2
<1>3. ASSUME NEW x \in Prefix, after[x] # NoRoute
      PROVE  x \in DOMAIN u /\ u[x].valued
  <2>1. CASE x = w
    BY <2>1
  <2>2. CASE x # w
    BY <1>1, <1>3, <2>2 DEF Agree
  <2> QED BY <2>1, <2>2
<1> QED BY <1>1, <1>2, <1>3 DEF Agree

(* add_route.                                                              *)
LEMMA AddedMap ==
  ASSUME NEW t, NEW known, MapInv(t, known), NEW r \in Route
  PROVE  MapInv(Added(t, r), Enter(known, r))
<1> DEFINE w == r.prefix
           g == CreateSubTree(t, w)
           a == Added(t, r)
           d == r.dest
           l == r.limit
<1>0. w \in Prefix /\ d \in Destination /\ l \in Limits
  BY DEF Route
<1>1. NodesCount(t) /\ LeavesValued(t) /\ Agree(t, known)
  BY DEF MapInv
<1>2. /\ NodesCount(g)
      /\ DOMAIN g = DOMAIN t \cup Prefixes(w)
      /\ \A p \in DOMAIN g : p # << >> /\ p # w /\ g[p].kids = 0 => g[p].valued
      /\ \A p \in DOMAIN g :
           IF p \in DOMAIN t
           THEN (g[p].valued <=> t[p].valued) /\ g[p].dest = t[p].dest /\ g[p].limit = t[p].limit
           ELSE ~ g[p].valued
  <2> HIDE DEF w
  <2> QED BY <1>0, <1>1, Grown
<1>3. w \in Word /\ w \in DOMAIN g
  BY <1>0, <1>2, PrefixWord, PrefixEnds
<1>4. a = IF g[w].valued THEN g
          ELSE [g EXCEPT ![w].valued = TRUE, ![w].dest = d, ![w].limit = l]
  BY DEF Added
<1> HIDE DEF g, a, d, l
<1>5. CASE g[w].valued
  <2>1. a = g
    BY <1>4, <1>5
  <2>2. w \in DOMAIN t /\ t[w].valued
    BY <1>2, <1>3, <1>5
  <2>3. known[w] # NoRoute
    <3>1. known[w] = [dest |-> t[w].dest, limit |-> t[w].limit] /\ t[w].dest \in Destination
      BY <1>1, <2>2 DEF Agree
    <3> QED BY <3>1, NoRouteNone
  <2>4. Enter(known, r) = known
    BY <2>3 DEF Enter
  <2>5. LeavesValued(g)
    BY <1>2, <1>5 DEF LeavesValued
  <2>6. Agree(g, known)
    <3>1. \A p \in DOMAIN g : g[p].valued =>
            p \in DOMAIN t /\ t[p].valued /\ g[p].dest = t[p].dest /\ g[p].limit = t[p].limit
      BY <1>2
    <3>2. \A p \in DOMAIN t : p \in DOMAIN g /\ (t[p].valued => g[p].valued)
      BY <1>2
    <3> HIDE DEF w
    <3> QED BY <1>1, <3>1, <3>2 DEF Agree
  <2> QED BY <1>2, <2>1, <2>4, <2>5, <2>6 DEF MapInv, a
<1>6. CASE ~ g[w].valued
  <2> HIDE DEF w
  <2>1. /\ DOMAIN a = DOMAIN g /\ DOMAIN a[w] = NodeMembers /\ a = [p \in DOMAIN a |-> a[p]]
        /\ a[w].valued \in BOOLEAN /\ a[w].valued
        /\ a[w].dest = d /\ a[w].limit = l /\ a[w].kids = g[w].kids
        /\ \A p \in DOMAIN g \ {w} : a[p] = g[p]
    <3>1. DOMAIN g[w] = NodeMembers
      BY <1>2, <1>3 DEF NodesCount
    <3>2. a = SetNode(g, w, d, l)
      BY <1>4, <1>6 DEF SetNode
    <3> QED BY <1>3, <3>1, <3>2, NodeSet
  <2>2. NodesCount(a) /\ \A p \in DOMAIN g : a[p].kids = g[p].kids
    <3>1. a[w].valued \in BOOLEAN
      BY <2>1
    <3> QED BY <1>2, <1>3, <2>1, <3>1, Revalued
  <2>3. known[w] = NoRoute
    <3>1. SUFFICES ASSUME known[w] # NoRoute
                   PROVE  FALSE
      OBVIOUS
    <3>2. w \in DOMAIN t /\ t[w].valued
      BY <1>0, <1>1, <3>1 DEF Agree
    <3> QED BY <1>2, <1>6, <3>2
  <2>4. Enter(known, r) = SetEntry(known, w, d, l)
    BY <2>3 DEF Enter, SetEntry, w, d, l
  <2>5. Agree(a, Enter(known, r))
    <3>1. \A p \in DOMAIN a \ {w} :
            IF p \in DOMAIN t
            THEN (a[p].valued <=> t[p].valued) /\ a[p].dest = t[p].dest /\ a[p].limit = t[p].limit
            ELSE ~ a[p].valued
      BY <1>2, <2>1
    <3>2. w \in DOMAIN a /\ DOMAIN t \subseteq DOMAIN a
      BY <1>2, <1>3, <2>1
    <3> QED BY <1>0, <1>1, <2>1, <2>4, <3>1, <3>2, ValueEntered
  <2>6. LeavesValued(a)
    BY <1>2, <2>1, <2>2 DEF LeavesValued
  <2> QED BY <2>2, <2>5, <2>6 DEF MapInv, a
<1> QED BY <1>5, <1>6

-----------------------------------------------------------------------------
(* Lists of routes.                                                        *)

(* The trees on the way of a list, one after each route.                   *)
LEMMA AddAllSteps ==
  ASSUME NEW t, NEW routes, Len(routes) \in Nat
  PROVE  \E f : /\ f[0] = t /\ AddAll(t, routes) = f[Len(routes)]
                /\ \A n \in 1 .. Len(routes) : f[n] = Added(f[n - 1], routes[n])
<1> DEFINE Steps(f, k) == f = [n \in 0 .. k |-> IF n = 0 THEN t ELSE Added(f[n - 1], routes[n])]
           bad == {k \in Nat : ~ \E f : Steps(f, k)}
<1>1. bad = {}
  <2>1. SUFFICES ASSUME bad # {}
                 PROVE  FALSE
    OBVIOUS
  <2>2. PICK k \in bad : \A j \in bad : k <= j
    BY <2>1, LeastOf
  <2>3. CASE k = 0
    <3> DEFINE f == [n \in 0 .. 0 |-> t]
    <3>1. Steps(f, 0)
      OBVIOUS
    <3> QED BY <2>2, <2>3, <3>1
  <2>4. CASE k # 0
    <3>1. k - 1 \in Nat /\ k - 1 \notin bad
      <4>1. k \in Nat /\ k - 1 \in Nat /\ ~ (k <= k - 1)
        BY <2>4
      <4> HIDE DEF bad
      <4> QED BY <2>2, <4>1
    <3>2. PICK g : Steps(g, k - 1)
      BY <3>1
    <3> DEFINE f == [n \in 0 .. k |-> IF n = 0 THEN t ELSE Added(g[n - 1], routes[n])]
    <3>3. \A n \in 0 .. k - 1 : g[n] = IF n = 0 THEN t ELSE Added(g[n - 1], routes[n])
      BY <3>2
    <3>4. \A n \in 0 .. k - 1 : f[n] = g[n]
      BY <3>1, <3>3
    <3>5. \A n \in 0 .. k : f[n] = IF n = 0 THEN t ELSE Added(f[n - 1], routes[n])
      <4>1. \A n \in 0 .. k : n # 0 => n - 1 \in 0 .. k - 1
        OBVIOUS
      <4>2. \A n \in 0 .. k : f[n] = IF n = 0 THEN t ELSE Added(g[n - 1], routes[n])
        OBVIOUS
      <4> HIDE DEF f
      <4> QED BY <3>4, <4>1, <4>2
    <3>6. f = [n \in 0 .. k |-> f[n]]
      OBVIOUS
    <3> HIDE DEF f
    <3>7. Steps(f, k)
      BY <3>5, <3>6
    <3> QED BY <2>2, <3>7
  <2> QED BY <2>3, <2>4
<1>2. \E f : Steps(f, Len(routes))
  BY <1>1
<1> DEFINE f == CHOOSE h : Steps(h, Len(routes))
<1>3. Steps(f, Len(routes))
  BY <1>2
<1>4. AddAll(t, routes) = f[Len(routes)]
  BY DEF AddAll
<1> HIDE DEF f
<1>5. \A n \in 0 .. Len(routes) : f[n] = IF n = 0 THEN t ELSE Added(f[n - 1], routes[n])
  BY <1>3
<1>6. f[0] = t /\ \A n \in 1 .. Len(routes) : f[n] = Added(f[n - 1], routes[n])
  BY <1>5
<1> QED BY <1>4, <1>6

(* And the tables.                                                         *)
LEMMA EnterAllSteps ==
  ASSUME NEW known, NEW routes, Len(routes) \in Nat
  PROVE  \E f : /\ f[0] = known /\ EnterAll(known, routes) = f[Len(routes)]
                /\ \A n \in 1 .. Len(routes) : f[n] = Enter(f[n - 1], routes[n])
<1> DEFINE Steps(f, k) == f = [n \in 0 .. k |-> IF n = 0 THEN known ELSE Enter(f[n - 1], routes[n])]
           bad == {k \in Nat : ~ \E f : Steps(f, k)}
<1>1. bad = {}
  <2>1. SUFFICES ASSUME bad # {}
                 PROVE  FALSE
    OBVIOUS
  <2>2. PICK k \in bad : \A j \in bad : k <= j
    BY <2>1, LeastOf
  <2>3. CASE k = 0
    <3> DEFINE f == [n \in 0 .. 0 |-> known]
    <3>1. Steps(f, 0)
      OBVIOUS
    <3> QED BY <2>2, <2>3, <3>1
  <2>4. CASE k # 0
    <3>1. k - 1 \in Nat /\ k - 1 \notin bad
      <4>1. k \in Nat /\ k - 1 \in Nat /\ ~ (k <= k - 1)
        BY <2>4
      <4> HIDE DEF bad
      <4> QED BY <2>2, <4>1
    <3>2. PICK g : Steps(g, k - 1)
      BY <3>1
    <3> DEFINE f == [n \in 0 .. k |-> IF n = 0 THEN known ELSE Enter(g[n - 1], routes[n])]
    <3>3. \A n \in 0 .. k - 1 : g[n] = IF n = 0 THEN known ELSE Enter(g[n - 1], routes[n])
      BY <3>2
    <3>4. \A n \in 0 .. k - 1 : f[n] = g[n]
      BY <3>1, <3>3
    <3>5. \A n \in 0 .. k : f[n] = IF n = 0 THEN known ELSE Enter(f[n - 1], routes[n])
      <4>1. \A n \in 0 .. k : n # 0 => n - 1 \in 0 .. k - 1
        OBVIOUS
      <4>2. \A n \in 0 .. k : f[n] = IF n = 0 THEN known ELSE Enter(g[n - 1], routes[n])
        OBVIOUS
      <4> HIDE DEF f
      <4> QED BY <3>4, <4>1, <4>2
    <3>6. f = [n \in 0 .. k |-> f[n]]
      OBVIOUS
    <3> HIDE DEF f
    <3>7. Steps(f, k)
      BY <3>5, <3>6
    <3> QED BY <2>2, <3>7
  <2> QED BY <2>3, <2>4
<1>2. \E f : Steps(f, Len(routes))
  BY <1>1
<1> DEFINE f == CHOOSE h : Steps(h, Len(routes))
<1>3. Steps(f, Len(routes))
  BY <1>2
<1>4. EnterAll(known, routes) = f[Len(routes)]
  BY DEF EnterAll
<1> HIDE DEF f
<1>5. \A n \in 0 .. Len(routes) : f[n] = IF n = 0 THEN known ELSE Enter(f[n - 1], routes[n])
  BY <1>3
<1>6. f[0] = known /\ \A n \in 1 .. Len(routes) : f[n] = Enter(f[n - 1], routes[n])
  BY <1>5
<1> QED BY <1>4, <1>6

LEMMA ListMap ==
  ASSUME NEW t, NEW known, MapInv(t, known), NEW routes \in Seq(Route)
  PROVE  MapInv(AddAll(t, routes), EnterAll(known, routes))
<1> DEFINE K == Len(routes)
<1>1. K \in Nat /\ \A n \in 1 .. K : routes[n] \in Route
  BY LenProperties, ElementOfSeq
<1>2. PICK f : /\ f[0] = t /\ AddAll(t, routes) = f[K]
               /\ \A n \in 1 .. K : f[n] = Added(f[n - 1], routes[n])
  BY <1>1, AddAllSteps
<1>3. PICK e : /\ e[0] = known /\ EnterAll(known, routes) = e[K]
               /\ \A n \in 1 .. K : e[n] = Enter(e[n - 1], routes[n])
  BY <1>1, EnterAllSteps
<1> HIDE DEF K
<1> DEFINE bad == {n \in 0 .. K : ~ MapInv(f[n], e[n])}
<1>4. bad = {}
  <2>1. SUFFICES ASSUME bad # {}
                 PROVE  FALSE
    OBVIOUS
  <2>2. bad \subseteq Nat
    BY <1>1
  <2>3. PICK n \in bad : \A m \in bad : n <= m
    BY <2>1, <2>2, LeastOf
  <2>4. n # 0 /\ n \in 1 .. K
    BY <1>1, <1>2, <1>3
  <2>5. n - 1 \notin bad
    <3>1. n \in Nat /\ ~ (n <= n - 1)
      BY <1>1
    <3> HIDE DEF bad
    <3> QED BY <2>3, <3>1
  <2>6. MapInv(f[n - 1], e[n - 1])
    BY <1>1, <2>4, <2>5
  <2>7. MapInv(f[n], e[n])
    BY <1>1, <1>2, <1>3, <2>4, <2>6, AddedMap
  <2> QED BY <2>7
<1>5. MapInv(f[K], e[K])
  BY <1>1, <1>4
<1> QED BY <1>2, <1>3, <1>5 DEF K

-----------------------------------------------------------------------------
(* update_route and delete_route.                                          *)

LEMMA StoredNode ==
  ASSUME NEW t, NEW w \in Prefix, Stored(t, w)
  PROVE  w \in DOMAIN t /\ t[w].valued
<1>1. w \in FindMatching(t, w)
  BY DEF Stored
<1>2. w \in Prefixes(w)
  BY PrefixWord, PrefixEnds
<1> QED BY <1>1, <1>2 DEF FindMatching

UpdateNode(t, w, d, l) == [t EXCEPT ![w].dest = d, ![w].limit = l]

LEMMA NodeUpdated ==
  ASSUME NEW t, NEW w \in DOMAIN t, NEW d, NEW l, NEW u, DOMAIN t[w] = NodeMembers,
         u = UpdateNode(t, w, d, l)
  PROVE  /\ DOMAIN u = DOMAIN t /\ DOMAIN u[w] = NodeMembers /\ u = [p \in DOMAIN u |-> u[p]]
         /\ u[w].valued = t[w].valued
         /\ u[w].dest = d /\ u[w].limit = l /\ u[w].kids = t[w].kids
         /\ \A p \in DOMAIN t \ {w} : u[p] = t[p]
BY DEF NodeMembers, UpdateNode

LEMMA UpdatedNodes ==
  ASSUME NEW t, NodesCount(t), NEW w \in DOMAIN t, NEW d, NEW l, NEW u,
         u = UpdateNode(t, w, d, l)
  PROVE  /\ DOMAIN u = DOMAIN t /\ u[w].dest = d /\ u[w].limit = l
         /\ u[w].valued <=> t[w].valued
         /\ \A p \in DOMAIN t \ {w} : u[p] = t[p]
         /\ NodesCount(u) /\ \A p \in DOMAIN t : u[p].kids = t[p].kids
<1>1. DOMAIN t[w] = NodeMembers /\ t[w].valued \in BOOLEAN
  BY DEF NodesCount
<1>2. /\ DOMAIN u = DOMAIN t /\ DOMAIN u[w] = NodeMembers /\ u = [p \in DOMAIN u |-> u[p]]
      /\ u[w].valued = t[w].valued
      /\ u[w].dest = d /\ u[w].limit = l /\ u[w].kids = t[w].kids
      /\ \A p \in DOMAIN t \ {w} : u[p] = t[p]
  BY <1>1, NodeUpdated
<1>3. u[w].valued \in BOOLEAN
  BY <1>1, <1>2
<1>4. NodesCount(u) /\ \A p \in DOMAIN t : u[p].kids = t[p].kids
  BY <1>2, <1>3, Revalued
<1> QED BY <1>2, <1>4

LEMMA UpdatedMap ==
  ASSUME NEW t, NEW known, MapInv(t, known), NEW w \in Prefix, w \in DOMAIN t, t[w].valued,
         NEW d \in Destination, NEW l \in Limits, NEW u, u = UpdateNode(t, w, d, l)
  PROVE  MapInv(u, SetEntry(known, w, d, l))
<1>1. NodesCount(t) /\ LeavesValued(t) /\ Agree(t, known)
  BY DEF MapInv
<1>2. /\ DOMAIN u = DOMAIN t /\ u[w].dest = d /\ u[w].limit = l
      /\ u[w].valued <=> t[w].valued
      /\ \A p \in DOMAIN t \ {w} : u[p] = t[p]
      /\ NodesCount(u) /\ \A p \in DOMAIN t : u[p].kids = t[p].kids
  BY <1>1, UpdatedNodes
<1>3. u[w].valued
  BY <1>2
<1>4. LeavesValued(u)
  BY <1>1, <1>2 DEF LeavesValued
<1>5. Agree(u, SetEntry(known, w, d, l))
  <2>1. \A p \in DOMAIN u \ {w} :
          IF p \in DOMAIN t
          THEN (u[p].valued <=> t[p].valued) /\ u[p].dest = t[p].dest /\ u[p].limit = t[p].limit
          ELSE ~ u[p].valued
    BY <1>2
  <2>2. w \in DOMAIN u /\ DOMAIN t \subseteq DOMAIN u
    BY <1>2
  <2> QED BY <1>1, <1>2, <1>3, <2>1, <2>2, ValueEntered
<1> QED BY <1>2, <1>4, <1>5 DEF MapInv

UnsetNode(t, w) == [t EXCEPT ![w].valued = FALSE]

LEMMA NodeUnset ==
  ASSUME NEW t, NEW w \in DOMAIN t, NEW u, DOMAIN t[w] = NodeMembers, u = UnsetNode(t, w)
  PROVE  /\ DOMAIN u = DOMAIN t /\ DOMAIN u[w] = NodeMembers /\ u = [p \in DOMAIN u |-> u[p]]
         /\ u[w].valued \in BOOLEAN /\ ~ u[w].valued /\ u[w].kids = t[w].kids
         /\ \A p \in DOMAIN t \ {w} : u[p] = t[p]
BY DEF NodeMembers, UnsetNode

\* What clean_up of a node deletes.
Idle1(v, w, q) == ~ v[q].valued /\ v[q].kids = IF q = w THEN 0 ELSE 1

Dead(v, w) == {p \in Prefixes(w) \ {<< >>} :
                 \A q \in Prefixes(w) : Len(q) >= Len(p) => Idle1(v, w, q)}

DeadChildren(v, w, p) == {q \in Dead(v, w) : IsChild(q, p)}

(* No node is left without its parent: a node that is deleted has no child *)
(* but the one that is deleted with it.                                    *)
LEMMA NoOrphan ==
  ASSUME NEW v, NodesCount(v), NEW w \in Word, NEW p \in DOMAIN v, p \notin Dead(v, w),
         NEW q \in Prefixes(p), w \in DOMAIN v
  PROVE  q \notin Dead(v, w)
<1> SUFFICES ASSUME q \in Dead(v, w)
             PROVE  FALSE
  OBVIOUS
<1>1. p \in Word /\ Prefixes(p) \subseteq DOMAIN v /\ Prefixes(w) \subseteq DOMAIN v
  BY DEF NodesCount
<1> DEFINE S == {Len(r) : r \in Prefixes(p) \cap Prefixes(w)}
           m == Max(S)
<1>2. Len(p) \in Nat /\ S \in SUBSET (0 .. Len(p)) /\ S # {}
  <2>1. Len(p) \in Nat /\ \A r \in Prefixes(p) : Len(r) \in 0 .. Len(p)
    BY <1>1, WordLength, PrefixEnds
  <2>2. q \in Prefixes(p) \cap Prefixes(w)
    BY DEF Dead
  <2> QED BY <2>1, <2>2
<1>3. m \in S /\ \A n \in S : n <= m
  <2> HIDE DEF S
  <2> QED BY <1>2, Largest
<1>4. PICK r \in Prefixes(p) \cap Prefixes(w) : Len(r) = m
  BY <1>3
<1>5. \A s \in Prefixes(p) \cap Prefixes(w) : Len(s) <= Len(r)
  BY <1>3, <1>4
<1> HIDE DEF S, m
<1>6. q \in Prefixes(w) /\ q # << >> /\ Len(q) <= Len(r) /\ Len(q) # 0
      /\ Len(q) \in Nat /\ Len(r) \in Nat
  <2>1. q \in Prefixes(w) /\ q # << >>
    BY DEF Dead
  <2>2. q \in Word /\ Len(q) # 0 /\ Len(q) \in Nat
    BY <2>1, PrefixOf, PrefixEnds, WordLength
  <2>3. r \in Word /\ Len(r) \in Nat
    BY PrefixOf, WordLength
  <2> QED BY <1>5, <2>1, <2>2, <2>3
<1>7. r \in Dead(v, w)
  <2>1. r # << >>
    BY <1>6, EmptySeq
  <2>2. ASSUME NEW s \in Prefixes(w), Len(s) >= Len(r)
        PROVE  Idle1(v, w, s)
    <3>1. Len(s) \in Nat
      BY PrefixEnds
    <3>2. Len(s) >= Len(q)
      BY <1>6, <2>2, <3>1
    <3> QED BY <3>2 DEF Dead
  <2> QED BY <2>1, <2>2 DEF Dead
<1>8. r # p /\ Idle1(v, w, r)
  <2>1. Len(r) >= Len(r)
    BY <1>6
  <2> QED BY <1>7, <2>1 DEF Dead
<1>9. PICK c \in Prefixes(p) : IsChild(c, r) /\ Len(c) = Len(r) + 1
  BY <1>1, <1>8, ChildBetween
<1>10. c \in Children(v, r) /\ c \notin Prefixes(w)
  <2>1. c \in DOMAIN v
    BY <1>1
  <2>2. c \notin Prefixes(w)
    BY <1>5, <1>6, <1>9
  <2> QED BY <1>9, <2>1, <2>2 DEF Children
<1>11. v[r].kids = Cardinality(Children(v, r)) /\ IsFiniteSet(Children(v, r))
  <2>1. r \in DOMAIN v /\ IsFiniteSet(DOMAIN v) /\ Children(v, r) \in SUBSET DOMAIN v
    BY <1>1 DEF NodesCount, Children
  <2>2. IsFiniteSet(Children(v, r))
    BY <2>1, FS_Subset
  <2> QED BY <2>1, <2>2 DEF NodesCount
<1>12. CASE r = w
  <2>1. Cardinality(Children(v, r)) = 0
    BY <1>8, <1>11, <1>12 DEF Idle1
  <2>2. Children(v, r) = {}
    BY <1>11, <2>1, FS_EmptySet
  <2> QED BY <1>10, <2>2
<1>13. CASE r # w
  <2>1. PICK d \in Prefixes(w) : IsChild(d, r)
    BY <1>13, ChildBetween
  <2>2. d \in Children(v, r) /\ d # c
    BY <1>1, <1>10, <2>1 DEF Children
  <2>3. Cardinality(Children(v, r)) = 1
    BY <1>8, <1>11, <1>13 DEF Idle1
  <2>4. \E x : Children(v, r) = {x}
    BY <1>11, <2>3, FS_Singleton
  <2> QED BY <1>10, <2>2, <2>4
<1> QED BY <1>12, <1>13

(* After clean_up the nodes still count their children, and no node on the *)
(* way is left as a leaf without a value.                                  *)
LEMMA CleanedUp ==
  ASSUME NEW v, NodesCount(v), NEW w \in DOMAIN v,
         \A p \in DOMAIN v : p # << >> /\ p # w /\ v[p].kids = 0 => v[p].valued,
         NEW c, c = CleanUp(v, w)
  PROVE  /\ NodesCount(c) /\ LeavesValued(c) /\ DOMAIN c \subseteq DOMAIN v
         /\ \A p \in DOMAIN c : /\ c[p].valued <=> v[p].valued
                                /\ c[p].dest = v[p].dest /\ c[p].limit = v[p].limit
         /\ \A p \in DOMAIN v : v[p].valued => p \in DOMAIN c
<1> DEFINE D == DOMAIN v \ Dead(v, w)
           gone(p) == DeadChildren(v, w, p)
<1>0. w \in Word /\ Prefixes(w) \subseteq DOMAIN v
  BY DEF NodesCount
<1>1. c = [p \in D |-> [v[p] EXCEPT !.kids = @ - Cardinality(gone(p))]]
  BY DEF CleanUp, Dead, DeadChildren, Idle1
<1>2. DOMAIN c = D /\ c = [p \in D |-> c[p]]
  BY <1>1
<1>3. \A p \in D : DOMAIN v[p] = NodeMembers
  BY DEF NodesCount
<1>4. ASSUME NEW p \in D
      PROVE  /\ c[p].valued = v[p].valued /\ c[p].dest = v[p].dest /\ c[p].limit = v[p].limit
             /\ c[p].kids = v[p].kids - Cardinality(gone(p))
             /\ DOMAIN c[p] = NodeMembers
  <2> HIDE DEF D, gone
  <2>1. c[p] = [v[p] EXCEPT !.kids = @ - Cardinality(gone(p))]
    BY <1>1
  <2> QED BY <1>3, <2>1 DEF NodeMembers
<1>5. ASSUME NEW p \in D
      PROVE  /\ Children(c, p) = Children(v, p) \ gone(p) /\ gone(p) \subseteq Children(v, p)
             /\ IsFiniteSet(Children(v, p)) /\ IsFiniteSet(gone(p))
             /\ v[p].kids = Cardinality(Children(v, p))
  <2>1. gone(p) \subseteq Children(v, p)
    BY <1>0 DEF DeadChildren, Children, Dead
  <2>2. Children(c, p) = Children(v, p) \ gone(p)
    BY <1>2 DEF Children, DeadChildren
  <2>3. Children(v, p) \in SUBSET DOMAIN v /\ IsFiniteSet(DOMAIN v)
    BY DEF Children, NodesCount
  <2>4. v[p].kids = Cardinality(Children(v, p))
    BY DEF NodesCount
  <2> HIDE DEF gone
  <2> QED BY <2>1, <2>2, <2>3, <2>4, FS_Subset
<1>6. ASSUME NEW p \in D
      PROVE  c[p].kids = Cardinality(Children(c, p))
  <2>1. Cardinality(Children(c, p))
          = Cardinality(Children(v, p)) - Cardinality(Children(v, p) \cap gone(p))
    BY <1>5, FS_Difference
  <2>2. Children(v, p) \cap gone(p) = gone(p)
    BY <1>5
  <2> QED BY <1>4, <1>5, <2>1, <2>2
<1>7. ASSUME NEW p \in D
      PROVE  /\ p \in Word /\ Prefixes(p) \subseteq D
             /\ p # << >> => \E x \in Prefix : p \in Prefixes(x)
             /\ v[p].valued \in BOOLEAN
  <2>1. /\ p \in Word /\ Prefixes(p) \subseteq DOMAIN v
        /\ p # << >> => \E x \in Prefix : p \in Prefixes(x)
        /\ v[p].valued \in BOOLEAN
    BY DEF NodesCount
  <2>2. \A q \in Prefixes(p) : q \notin Dead(v, w)
    BY <1>0, NoOrphan
  <2> QED BY <2>1, <2>2
<1>8. << >> \in D /\ IsFiniteSet(D)
  <2>1. << >> \in DOMAIN v /\ << >> \notin Dead(v, w)
        /\ IsFiniteSet(DOMAIN v) /\ D \in SUBSET DOMAIN v
    BY DEF NodesCount, Dead
  <2> HIDE DEF D
  <2>2. IsFiniteSet(D)
    BY <2>1, FS_Subset
  <2> QED BY <2>1, <2>2 DEF D
<1>9. NodesCount(c)
  <2> HIDE DEF D, gone
  <2>1. \A p \in D : c[p].valued \in BOOLEAN
    BY <1>4, <1>7
  <2> QED BY <1>2, <1>4, <1>6, <1>7, <1>8, <2>1 DEF NodesCount
<1>10. ASSUME NEW p \in D, p # << >>, c[p].kids = 0, ~ v[p].valued
       PROVE  FALSE
  <2>1. /\ v[p].kids = Cardinality(gone(p)) /\ v[p].kids \in Nat
        /\ p \in DOMAIN v /\ p \notin Dead(v, w)
    <3>1. Cardinality(Children(v, p)) \in Nat /\ Cardinality(gone(p)) \in Nat
      BY <1>5, FS_CardinalityType
    <3>2. v[p].kids - Cardinality(gone(p)) = 0
      BY <1>4, <1>10
    <3>3. p \in DOMAIN v /\ p \notin Dead(v, w)
      OBVIOUS
    <3> HIDE DEF gone, D
    <3> QED BY <1>5, <3>1, <3>2, <3>3
  <2>2. CASE gone(p) = {}
    <3>1. v[p].kids = 0
      BY <2>1, <2>2, FS_EmptySet
    <3>2. p = w
      BY <1>10, <2>1, <3>1
    <3>3. Idle1(v, w, w)
      BY <1>10, <3>1, <3>2 DEF Idle1
    <3>4. \A q \in Prefixes(w) : Len(q) >= Len(w) => q = w
      BY <1>0, PrefixEnds, PrefixOrder
    <3>5. w \in Dead(v, w)
      BY <1>0, <1>10, <3>2, <3>3, <3>4, PrefixEnds DEF Dead
    <3> QED BY <2>1, <3>2, <3>5
  <2>3. ASSUME NEW x \in gone(p)
        PROVE  FALSE
    <3>1. /\ x \in Dead(v, w) /\ IsChild(x, p) /\ x \in Prefixes(w) /\ x \in DOMAIN v
          /\ \A y \in gone(p) : IsChild(y, p) /\ y \in Prefixes(w) /\ y \in DOMAIN v
      BY <1>0 DEF DeadChildren, Dead
    <3>2. /\ p \in Prefixes(x) /\ Len(x) = Len(p) + 1 /\ Len(p) \in Nat
          /\ \A y \in gone(p) : Len(y) = Len(p) + 1
      <4> HIDE DEF gone
      <4> QED BY <3>1, ParentThere
    <3>3. gone(p) = {x}
      <4>1. \A y \in gone(p) : y = x
        <5> HIDE DEF gone
        <5> QED BY <1>0, <3>1, <3>2, PrefixOrder
      <4> QED BY <4>1
    <3>4. v[p].kids = 1
      BY <2>1, <3>3, FS_Singleton
    <3>5. p \in Prefixes(w) /\ p # w
      <4>1. p \in Prefixes(w)
        BY <1>0, <3>1, <3>2, PrefixTrans
      <4>2. Len(x) \in 0 .. Len(w) /\ Len(w) \in Nat
        BY <1>0, <3>1, PrefixEnds, WordLength
      <4> QED BY <3>2, <4>1, <4>2
    <3>6. Idle1(v, w, p)
      BY <1>10, <3>4, <3>5 DEF Idle1
    <3>7. ASSUME NEW q \in Prefixes(w), Len(q) >= Len(p)
          PROVE  Idle1(v, w, q)
      <4>1. Len(q) \in Nat
        BY <1>0, PrefixEnds
      <4>2. CASE Len(q) = Len(p)
        <5>1. q = p
          BY <1>0, <3>5, <4>2, PrefixOrder
        <5> QED BY <3>6, <5>1
      <4>3. CASE Len(q) # Len(p)
        <5>1. Len(q) >= Len(x)
          BY <3>2, <3>7, <4>1, <4>3
        <5> QED BY <3>1, <5>1 DEF Dead
      <4> QED BY <4>2, <4>3
    <3>8. p \in Dead(v, w)
      BY <1>10, <3>5, <3>7 DEF Dead
    <3> QED BY <2>1, <3>8
  <2> QED BY <2>2, <2>3
<1>11. LeavesValued(c)
  <2> HIDE DEF D, gone
  <2>1. \A p \in D : c[p].valued <=> v[p].valued
    BY <1>4
  <2> QED BY <1>2, <1>10, <2>1 DEF LeavesValued
<1>12. \A p \in DOMAIN v : v[p].valued => p \in D
  <2>1. ASSUME NEW p \in Dead(v, w)
        PROVE  ~ v[p].valued
    <3>1. p \in Prefixes(w) /\ Len(p) \in Nat
      BY <1>0, PrefixEnds DEF Dead
    <3>2. Len(p) >= Len(p)
      BY <3>1
    <3> QED BY <3>1, <3>2 DEF Dead, Idle1
  <2> QED BY <2>1
<1>13. \A p \in D : /\ c[p].valued <=> v[p].valued
                    /\ c[p].dest = v[p].dest /\ c[p].limit = v[p].limit
  <2> HIDE DEF D, gone
  <2> QED BY <1>4
<1>14. D \subseteq DOMAIN v
  OBVIOUS
<1> HIDE DEF D
<1> QED BY <1>2, <1>9, <1>11, <1>12, <1>13, <1>14

\* The table after delete_route.
ForgetEntry(known, w) == [known EXCEPT ![w] = NoRoute]

(* delete_route.                                                           *)
LEMMA DeletedMap ==
  ASSUME NEW t, NEW known, MapInv(t, known), NEW w \in Prefix, w \in DOMAIN t,
         NEW v, v = UnsetNode(t, w)
  PROVE  MapInv(CleanUp(v, w), ForgetEntry(known, w))
<1>1. NodesCount(t) /\ LeavesValued(t) /\ Agree(t, known)
  BY DEF MapInv
<1> DEFINE c == CleanUp(v, w)
           after == ForgetEntry(known, w)
<1>2. /\ DOMAIN v = DOMAIN t /\ DOMAIN v[w] = NodeMembers /\ v = [p \in DOMAIN v |-> v[p]]
      /\ v[w].valued \in BOOLEAN /\ ~ v[w].valued /\ v[w].kids = t[w].kids
      /\ \A p \in DOMAIN t \ {w} : v[p] = t[p]
  <2>1. DOMAIN t[w] = NodeMembers
    BY <1>1 DEF NodesCount
  <2> QED BY <2>1, NodeUnset
<1>3. NodesCount(v) /\ \A p \in DOMAIN t : v[p].kids = t[p].kids
  <2>1. v[w].valued \in BOOLEAN
    BY <1>2
  <2> QED BY <1>1, <1>2, <2>1, Revalued
<1>4. \A p \in DOMAIN v : p # << >> /\ p # w /\ v[p].kids = 0 => v[p].valued
  BY <1>1, <1>2, <1>3 DEF LeavesValued
<1>5. w \in DOMAIN v
  BY <1>2
<1> HIDE DEF c, after
<1>6. /\ NodesCount(c) /\ LeavesValued(c) /\ DOMAIN c \subseteq DOMAIN v
      /\ \A p \in DOMAIN c : /\ c[p].valued <=> v[p].valued
                             /\ c[p].dest = v[p].dest /\ c[p].limit = v[p].limit
      /\ \A p \in DOMAIN v : v[p].valued => p \in DOMAIN c
  BY <1>3, <1>4, <1>5, CleanedUp DEF c
<1>7. /\ after = [x \in Prefix |-> after[x]] /\ after[w] = NoRoute
      /\ \A x \in Prefix \ {w} : after[x] = known[x]
  BY <1>1 DEF Agree, ForgetEntry, after
<1>8. ASSUME NEW p \in DOMAIN c, c[p].valued
      PROVE  /\ p \in Prefix /\ after[p] = [dest |-> c[p].dest, limit |-> c[p].limit]
             /\ c[p].dest \in Destination /\ c[p].limit \in Limits
  <2>1. p \in DOMAIN v /\ v[p].valued /\ c[p].dest = v[p].dest /\ c[p].limit = v[p].limit
    BY <1>6, <1>8
  <2>2. p # w
    BY <1>2, <2>1
  <2>3. p \in DOMAIN t /\ v[p] = t[p]
    BY <1>2, <2>1, <2>2
  <2>4. t[p].valued
    BY <2>1, <2>3
  <2> QED BY <1>1, <1>7, <2>1, <2>2, <2>3, <2>4 DEF Agree
<1>9. ASSUME NEW x \in Prefix, after[x] # NoRoute
      PROVE  x \in DOMAIN c /\ c[x].valued
  <2>1. x # w /\ known[x] # NoRoute
    BY <1>7, <1>9
  <2>2. x \in DOMAIN t /\ t[x].valued
    BY <1>1, <2>1 DEF Agree
  <2>3. x \in DOMAIN v /\ v[x].valued
    BY <1>2, <2>1, <2>2
  <2> QED BY <1>6, <2>3
<1>10. Agree(c, after)
  BY <1>7, <1>8, <1>9 DEF Agree
<1> QED BY <1>6, <1>10 DEF MapInv, c, after

(* clear_all_routes leaves the root, with the value it has.                *)
LEMMA ClearedMap ==
  ASSUME NEW t, NEW known, MapInv(t, known)
  PROVE  MapInv(Cleaned(t), Kept(known))
<1>1. NodesCount(t) /\ LeavesValued(t) /\ Agree(t, known)
  BY DEF MapInv
<1> DEFINE c == Cleaned(t)
           after == Kept(known)
<1>2. << >> \in DOMAIN t /\ << >> \in Word /\ DOMAIN t[<< >>] = NodeMembers
      /\ t[<< >>].valued \in BOOLEAN
  BY <1>1 DEF NodesCount
<1>3. /\ DOMAIN c = {<< >>} /\ c = [p \in {<< >>} |-> c[p]]
      /\ c[<< >>] = [t[<< >>] EXCEPT !.kids = 0]
  BY DEF Cleaned
<1>4. /\ DOMAIN c[<< >>] = NodeMembers /\ c[<< >>].kids = 0
      /\ c[<< >>].valued = t[<< >>].valued
      /\ c[<< >>].dest = t[<< >>].dest /\ c[<< >>].limit = t[<< >>].limit
  BY <1>2, <1>3 DEF NodeMembers
<1>5. after = [w \in Prefix |-> IF w = << >> THEN known[w] ELSE NoRoute]
  BY DEF Kept
<1> HIDE DEF c, after
<1>6. NodesCount(c)
  <2>1. Children(c, << >>) = {}
    BY <1>3 DEF Children, IsChild
  <2>2. IsFiniteSet({<< >>}) /\ Cardinality({}) = 0
    BY FS_Singleton, FS_EmptySet
  <2>3. Prefixes(<< >>) = {<< >>}
    <3>1. \A p \in Prefixes(<< >>) : p = << >>
      BY <1>2, PrefixEnds, PrefixOrder
    <3> QED BY <1>2, <3>1, PrefixEnds
  <2>4. c[<< >>].valued \in BOOLEAN
    BY <1>2, <1>4
  <2> QED BY <1>2, <1>3, <1>4, <2>1, <2>2, <2>3, <2>4 DEF NodesCount
<1>7. LeavesValued(c)
  BY <1>3 DEF LeavesValued
<1>8. c[<< >>].valued <=> t[<< >>].valued
  BY <1>4
<1>9. ASSUME NEW p \in DOMAIN c, c[p].valued
      PROVE  /\ p \in Prefix /\ after[p] = [dest |-> c[p].dest, limit |-> c[p].limit]
             /\ c[p].dest \in Destination /\ c[p].limit \in Limits
  <2>1. p = << >> /\ t[<< >>].valued
    BY <1>3, <1>8, <1>9
  <2>2. /\ << >> \in Prefix
        /\ known[<< >>] = [dest |-> t[<< >>].dest, limit |-> t[<< >>].limit]
        /\ t[<< >>].dest \in Destination /\ t[<< >>].limit \in Limits
    BY <1>1, <1>2, <2>1 DEF Agree
  <2> QED BY <1>4, <1>5, <2>1, <2>2
<1>10. ASSUME NEW x \in Prefix, after[x] # NoRoute
       PROVE  x \in DOMAIN c /\ c[x].valued
  <2>1. x = << >> /\ known[x] # NoRoute
    BY <1>5, <1>10
  <2>2. t[<< >>].valued
    BY <1>1, <2>1 DEF Agree
  <2> QED BY <1>3, <1>8, <2>1, <2>2
<1>11. Agree(c, after)
  BY <1>5, <1>9, <1>10 DEF Agree
<1> QED BY <1>6, <1>7, <1>11 DEF MapInv, c, after

-----------------------------------------------------------------------------
(* The steps keep the tree and the table together.                         *)

LEMMA ConfiguredList == ASSUME NEW routes \in Configured PROVE routes \in Seq(Route)
<1>1. PICK m \in 0 .. MaxList : routes \in [1 .. m -> {r \in Route : r.limit = Unlimited}]
  BY DEF Configured, BoundedSeq, SeqOf
<1>2. m \in Nat /\ routes = [i \in 1 .. m |-> routes[i]] /\ \A i \in 1 .. m : routes[i] \in Route
  BY <1>1, MapperAssumption
<1> QED BY <1>2, SeqDef

LEMMA MapStep ==
  ASSUME MapInv(tree, table), [MapperNext]_mapperVars
  PROVE  MapInv(tree, table)'
<1>1. CASE InsertRoute
  <2>1. CASE \E routes \in Configured :
               tree' = AddAll(EmptyTree, routes) /\ table' = EnterAll(EmptyTable, routes)
    BY <2>1, EmptyMap, ConfiguredList, ListMap
  <2>2. CASE tree' = EmptyTree /\ table' = EmptyTable
    BY <2>2, EmptyMap
  <2> QED BY <1>1, <2>1, <2>2 DEF InsertRoute
<1>2. CASE RemoveRoute
  BY <1>2, EmptyMap DEF RemoveRoute
<1>3. CASE AddRoute
  BY <1>3, AddedMap DEF AddRoute
<1>4. CASE AddRoutes
  <2>1. PICK routes \in Configured, clear \in BOOLEAN :
          /\ tree' = AddAll(IF clear THEN Cleaned(tree) ELSE tree, routes)
          /\ table' = EnterAll(IF clear THEN Kept(table) ELSE table, routes)
    BY <1>4 DEF AddRoutes
  <2>2. CASE clear
    <3>1. tree' = AddAll(Cleaned(tree), routes) /\ table' = EnterAll(Kept(table), routes)
      BY <2>1, <2>2
    <3> QED BY <3>1, ClearedMap, ConfiguredList, ListMap
  <2>3. CASE ~ clear
    <3>1. tree' = AddAll(tree, routes) /\ table' = EnterAll(table, routes)
      BY <2>1, <2>3
    <3> QED BY <3>1, ConfiguredList, ListMap
  <2> QED BY <2>2, <2>3
<1>5. CASE UpdateRoute
  <2>1. PICK r \in Route :
          /\ Stored(tree, r.prefix)
          /\ tree' = [tree EXCEPT ![r.prefix].dest = r.dest, ![r.prefix].limit = r.limit]
          /\ table' = [table EXCEPT ![r.prefix] = [dest |-> r.dest, limit |-> r.limit]]
    BY <1>5 DEF UpdateRoute
  <2>2. r.prefix \in Prefix /\ r.dest \in Destination /\ r.limit \in Limits
    BY DEF Route
  <2>3. r.prefix \in DOMAIN tree /\ tree[r.prefix].valued
    BY <2>1, <2>2, StoredNode
  <2>4. /\ tree' = UpdateNode(tree, r.prefix, r.dest, r.limit)
        /\ table' = SetEntry(table, r.prefix, r.dest, r.limit)
    BY <2>1 DEF UpdateNode, SetEntry
  <2> QED BY <2>2, <2>3, <2>4, UpdatedMap
<1>6. CASE DeleteRoute
  <2>1. PICK w \in Prefix :
          /\ Stored(tree, w)
          /\ tree' = CleanUp([tree EXCEPT ![w].valued = FALSE], w)
          /\ table' = [table EXCEPT ![w] = NoRoute]
    BY <1>6 DEF DeleteRoute
  <2>2. w \in DOMAIN tree
    BY <2>1, StoredNode
  <2>3. tree' = CleanUp(UnsetNode(tree, w), w) /\ table' = ForgetEntry(table, w)
    BY <2>1 DEF UnsetNode, ForgetEntry
  <2> QED BY <2>2, <2>3, DeletedMap
<1>7. CASE ClearAllRoutes
  BY <1>7, ClearedMap DEF ClearAllRoutes
<1>8. CASE UNCHANGED mapperVars
  BY <1>8 DEF mapperVars
<1> QED
  BY <1>1, <1>2, <1>3, <1>4, <1>5, <1>6, <1>7, <1>8 DEF MapperNext

(***************************************************************************)
(* Looking a number up.                                                    *)
(***************************************************************************)
LEMMA BackwardsWord == ASSUME NEW number \in Word PROVE Backwards(number) \in Word
<1>1. CASE number = << >>
  BY <1>1 DEF Backwards
<1>2. CASE number # << >>
  <2> DEFINE s == Tail(number)
  <2>1. s \in Seq(Character)
    BY <1>2, HeadTailProperties DEF Word
  <2>2. Backwards(number) = Reverse(s)
    BY <1>2 DEF Backwards
  <2> HIDE DEF s
  <2>3. Len(s) \in Nat /\ \A i \in 1 .. Len(s) : s[i] \in Character
    BY <2>1, LenProperties, ElementOfSeq
  <2>4. \A i \in 1 .. Len(s) : s[(Len(s) - i) + 1] \in Character
    BY <2>3
  <2>5. Reverse(s) \in [1 .. Len(s) -> Character]
    BY <2>4 DEF Reverse
  <2> QED BY <2>2, <2>3, <2>5, SeqDef DEF Word
<1> QED BY <1>1, <1>2

(* find_matching ends at the longest prefix that is in the table.          *)
LEMMA MatchFound ==
  ASSUME MapInv(tree, table), NEW key \in Word, NEW known,
         known = {w \in Prefix : table[w] # NoRoute /\ IsPrefix(w, key)}
  PROVE  \/ known = {} /\ FindMatching(tree, key) = {}
         \/ \E m \in known : /\ FindMatching(tree, key) = {m}
                             /\ (CHOOSE v \in known : \A u \in known : Len(u) <= Len(v)) = m
                             /\ table[m] = [dest |-> tree[m].dest, limit |-> tree[m].limit]
                             /\ tree[m].limit \in Nat
<1> DEFINE visited == {p \in Prefixes(key) : Prefixes(p) \subseteq DOMAIN tree /\ tree[p].valued}
<1>0. NodesCount(tree) /\ Agree(tree, table)
  BY DEF MapInv
<1>1. ASSUME NEW p \in visited
      PROVE  /\ p \in known /\ tree[p].limit \in Nat
             /\ table[p] = [dest |-> tree[p].dest, limit |-> tree[p].limit]
  <2>1. p \in Word /\ p \in Prefixes(key) /\ p \in Prefixes(p)
    BY PrefixEnds
  <2>2. p \in DOMAIN tree /\ tree[p].valued
    BY <2>1
  <2>3. /\ p \in Prefix /\ table[p] = [dest |-> tree[p].dest, limit |-> tree[p].limit]
        /\ tree[p].dest \in Destination /\ tree[p].limit \in Limits
    BY <1>0, <2>2 DEF Agree
  <2>4. table[p] # NoRoute /\ IsPrefix(p, key) /\ tree[p].limit \in Nat
    BY <2>1, <2>3, NoRouteNone, IsPrefixOf, MapperAssumption
  <2> QED BY <2>3, <2>4
<1>2. ASSUME NEW w \in known
      PROVE  w \in visited
  <2>1. w \in Prefix /\ table[w] # NoRoute /\ IsPrefix(w, key)
    OBVIOUS
  <2>2. w \in Prefixes(key)
    BY <2>1, PrefixWord, IsPrefixOf
  <2>3. w \in DOMAIN tree /\ tree[w].valued
    BY <1>0, <2>1 DEF Agree
  <2>4. Prefixes(w) \subseteq DOMAIN tree
    BY <1>0, <2>3 DEF NodesCount
  <2> QED BY <2>2, <2>3, <2>4
<1>3. visited = known /\ visited \subseteq Prefixes(key)
  BY <1>1, <1>2
<1>4. FindMatching(tree, key) = {p \in visited : \A q \in visited : Len(q) <= Len(p)}
  BY DEF FindMatching
<1> HIDE DEF visited
<1>5. CASE visited = {}
  BY <1>3, <1>4, <1>5
<1>6. CASE visited # {}
  <2> DEFINE S == {Len(p) : p \in visited}
             k == Max(S)
  <2>1. Len(key) \in Nat /\ S \in SUBSET (0 .. Len(key)) /\ S # {}
    BY <1>3, <1>6, WordLength, PrefixEnds
  <2>2. k \in S /\ \A n \in S : n <= k
    <3> HIDE DEF S
    <3> QED BY <2>1, Largest
  <2>3. PICK m \in visited : Len(m) = k
    BY <2>2
  <2>4. \A q \in visited : Len(q) <= Len(m)
    BY <2>2, <2>3
  <2> HIDE DEF S, k
  <2>5. ASSUME NEW p \in visited, \A q \in visited : Len(q) <= Len(p)
        PROVE  p = m
    <3>1. Len(p) <= Len(m) /\ Len(m) <= Len(p) /\ Len(p) \in Nat /\ Len(m) \in Nat
      BY <1>3, <2>4, <2>5, PrefixEnds
    <3>2. Len(p) = Len(m)
      BY <3>1
    <3> QED BY <1>3, <3>2, PrefixOrder
  <2>6. FindMatching(tree, key) = {m}
    BY <1>4, <2>4, <2>5
  <2>7. (CHOOSE v \in known : \A u \in known : Len(u) <= Len(v)) = m
    BY <1>3, <2>4, <2>5
  <2> QED BY <1>1, <1>3, <2>6, <2>7
<1> QED BY <1>5, <1>6

LEMMA LookedUp ==
  ASSUME MapInv(tree, table), NEW number \in Word, NEW backwards \in BOOLEAN, NEW key,
         key = IF backwards THEN Backwards(number) ELSE number
  PROVE  FindDestination(tree, number, backwards) = Longest(key, number)
<1> DEFINE known == {w \in Prefix : table[w] # NoRoute /\ IsPrefix(w, key)}
           found == {p \in FindMatching(tree, key) : Len(number) <= tree[p].limit}
<1>1. key \in Word /\ Len(number) \in Nat
  BY BackwardsWord, WordLength
<1>2. FindDestination(tree, number, backwards)
        = IF found = {} THEN NoDest ELSE tree[CHOOSE p \in found : TRUE].dest
  BY DEF FindDestination
<1>3. Longest(key, number)
        = IF known = {} THEN NoDest
          ELSE LET w == CHOOSE v \in known : \A u \in known : Len(u) <= Len(v) IN
                 IF table[w].limit < Len(number) THEN NoDest ELSE table[w].dest
  BY DEF Longest
<1>4. \/ known = {} /\ FindMatching(tree, key) = {}
      \/ \E m \in known : /\ FindMatching(tree, key) = {m}
                          /\ (CHOOSE v \in known : \A u \in known : Len(u) <= Len(v)) = m
                          /\ table[m] = [dest |-> tree[m].dest, limit |-> tree[m].limit]
                          /\ tree[m].limit \in Nat
  <2> HIDE DEF found
  <2> QED BY <1>1, MatchFound
<1>5. CASE known = {} /\ FindMatching(tree, key) = {}
  BY <1>2, <1>3, <1>5
<1>6. ASSUME NEW m \in known,
             FindMatching(tree, key) = {m},
             (CHOOSE v \in known : \A u \in known : Len(u) <= Len(v)) = m,
             table[m] = [dest |-> tree[m].dest, limit |-> tree[m].limit],
             tree[m].limit \in Nat
      PROVE  FindDestination(tree, number, backwards) = Longest(key, number)
  <2>1. found = IF Len(number) <= tree[m].limit THEN {m} ELSE {}
    BY <1>6
  <2>2. known # {}
    OBVIOUS
  <2> HIDE DEF known, found
  <2>3. Longest(key, number)
          = IF tree[m].limit < Len(number) THEN NoDest ELSE tree[m].dest
    <3> DEFINE w == CHOOSE v \in known : \A u \in known : Len(u) <= Len(v)
    <3>1. Longest(key, number) = IF table[w].limit < Len(number) THEN NoDest ELSE table[w].dest
      BY <1>3, <2>2
    <3>2. w = m
      BY <1>6
    <3> HIDE DEF w
    <3>3. table[m].limit = tree[m].limit /\ table[m].dest = tree[m].dest
      BY <1>6
    <3> QED BY <3>1, <3>2, <3>3
  <2>4. CASE Len(number) <= tree[m].limit
    BY <1>1, <1>2, <1>6, <2>1, <2>3, <2>4
  <2>5. CASE ~ (Len(number) <= tree[m].limit)
    BY <1>1, <1>2, <1>6, <2>1, <2>3, <2>5
  <2> QED BY <2>4, <2>5
<1> QED BY <1>4, <1>5, <1>6

LEMMA MapAnswers == ASSUME MapInv(tree, table) PROVE LongestRoute
<1>1. NodesCount(tree) /\ LeavesValued(tree)
  BY DEF MapInv
<1>2. TreeSound
  <2>1. ASSUME NEW p \in DOMAIN tree
        PROVE  /\ Prefixes(p) \subseteq DOMAIN tree
               /\ tree[p].kids = Cardinality({q \in DOMAIN tree : IsChild(q, p)})
               /\ p # << >> /\ tree[p].kids = 0 => tree[p].valued
               /\ p \in {<< >>} \cup UNION {Prefixes(w) : w \in Prefix}
    <3>1. /\ Prefixes(p) \subseteq DOMAIN tree
          /\ tree[p].kids = Cardinality({q \in DOMAIN tree : IsChild(q, p)})
          /\ p # << >> => \E w \in Prefix : p \in Prefixes(w)
      BY <1>1 DEF NodesCount, Children
    <3>2. p # << >> /\ tree[p].kids = 0 => tree[p].valued
      BY <1>1 DEF LeavesValued
    <3> QED BY <3>1, <3>2
  <2> QED BY <2>1 DEF TreeSound
<1>3. ASSUME NEW number \in Number
      PROVE  /\ FindDestination(tree, number, FALSE) = Longest(number, number)
             /\ FindDestination(tree, number, TRUE) = Longest(Backwards(number), number)
  <2>1. number \in Word
    BY MapperAssumption DEF Word
  <2> QED BY <2>1, LookedUp
<1> QED BY <1>2, <1>3 DEF LongestRoute

(* Whatever is added, updated, deleted and cleared in a route mapper, a    *)
(* number goes where its longest stored prefix says, and the tree keeps    *)
(* neither dead branches nor orphans.                                      *)
THEOREM LongestRouteWins == MapperSpec => []LongestRoute
<1>1. MapperInit => MapInv(tree, table)
  BY EmptyMap DEF MapperInit
<1>2. MapInv(tree, table) /\ [MapperNext]_mapperVars => MapInv(tree, table)'
  BY MapStep
<1>3. MapInv(tree, table) => LongestRoute
  BY MapAnswers
<1> QED BY <1>1, <1>2, <1>3, PTL DEF MapperSpec

(* The same of the composition.                                            *)
THEOREM LongestWinsAlways == Spec => []LongestWins
<1>1. Init => MapInv(tree, table)
  BY EmptyMap DEF Init, MapperInit
<1>2. MapInv(tree, table) /\ [Next]_routingVars => MapInv(tree, table)'
  <2>1. [Next]_routingVars => [MapperNext]_mapperVars
    BY DEF Next, routingVars
  <2> QED BY <2>1, MapStep
<1>3. MapInv(tree, table) => LongestWins
  BY MapAnswers DEF LongestWins
<1> QED BY <1>1, <1>2, <1>3, PTL DEF Spec

=============================================================================
