--------------------------- MODULE PinexLinkProofs ---------------------------
(***************************************************************************)
(* Theorems of PinexLink for every number of addresses, system ids and     *)
(* submits, and every configuration.                                       *)
(***************************************************************************)
EXTENDS PinexLink, PClientListProofs, SequenceTheorems, FiniteSetTheorems

USE DEF Keys, ClientOf

-----------------------------------------------------------------------------
(* Type correctness.  The gauge is a number because user_data_ is finite.  *)

TypeInv == TypeOK /\ IsFiniteSet(userData)

(* What the link says of a submit changes the answers it is for.           *)
LEMMA TellType ==
  ASSUME answers \in [Msg -> Seq(Answer)],
         NEW S, NEW by \in {"response", "timeout", "refused"}, NEW of \in Msg \cup {NoMsg},
         Tell(S, by, of)
  PROVE  answers' \in [Msg -> Seq(Answer)]
<1> DEFINE r == [by |-> by, of |-> of]
<1>1. r \in Answer
  BY DEF Answer
<1>2. \A m \in Msg : Append(answers[m], r) \in Seq(Answer)
  BY <1>1
<1> QED BY <1>2 DEF Tell

(* router::add_target inserts one name.                                    *)
LEMMA AddTargetType ==
  ASSUME targets \in Seq(Name), NEW n \in Name, AddTarget(n)
  PROVE  /\ targets' \in Seq(Name) /\ Len(targets') >= Len(targets)
         /\ UNCHANGED lastIndex
<1>0. Len(targets) \in Nat /\ UNCHANGED lastIndex
  BY LenProperties DEF AddTarget
<1>1. CASE n \in Targets
  <2>1. UNCHANGED targets
    BY <1>1, Zenon DEF AddTarget
  <2> QED BY <1>0, <2>1
<1>2. CASE n \notin Targets
  <2>1. PICK i \in 0 .. Len(targets) :
          targets' = SubSeq(targets, 1, i) \o <<n>> \o SubSeq(targets, i + 1, Len(targets))
    BY <1>2, Zenon DEF AddTarget
  <2> DEFINE front == SubSeq(targets, 1, i)
             back  == SubSeq(targets, i + 1, Len(targets))
  <2>2. \A j \in 1 .. Len(targets) : targets[j] \in Name
    BY ElementOfSeq
  <2>3. front \in Seq(Name) /\ Len(front) = i
    BY <1>0, <2>2, SubSeqProperties
  <2>4. back \in Seq(Name) /\ Len(back) = Len(targets) - i
    BY <1>0, <2>2, SubSeqProperties
  <2>5. <<n>> \in Seq(Name) /\ Len(<<n>>) = 1
    OBVIOUS
  <2>6. targets' = (front \o <<n>>) \o back
    BY <2>1
  <2> HIDE DEF front, back
  <2>7. front \o <<n>> \in Seq(Name) /\ Len(front \o <<n>>) = i + 1
    BY <2>3, <2>5, ConcatProperties
  <2>8. /\ (front \o <<n>>) \o back \in Seq(Name)
        /\ Len((front \o <<n>>) \o back) = Len(targets) + 1
    BY <1>0, <2>4, <2>7, ConcatProperties
  <2>9. targets' \in Seq(Name) /\ Len(targets') = Len(targets) + 1
    BY <2>6, <2>8, Zenon
  <2> QED BY <1>0, <2>9
<1> QED BY <1>1, <1>2

(* router::remove_target leaves names, and starts the round robin again.   *)
LEMMA RemoveTargetType ==
  ASSUME targets \in Seq(Name), NEW n, RemoveTarget(n)
  PROVE  targets' \in Seq(Name) /\ lastIndex' = 0
<1>1. CASE UNCHANGED targets
  BY <1>1 DEF RemoveTarget
<1>2. ASSUME NEW i \in 1 .. Len(targets),
             targets' = SubSeq(targets, 1, i - 1) \o SubSeq(targets, i + 1, Len(targets))
      PROVE  targets' \in Seq(Name)
  <2>1. Len(targets) \in Nat /\ \A j \in 1 .. Len(targets) : targets[j] \in Name
    BY LenProperties, ElementOfSeq
  <2>2. SubSeq(targets, 1, i - 1) \in Seq(Name)
    BY <2>1, SubSeqProperties
  <2>3. SubSeq(targets, i + 1, Len(targets)) \in Seq(Name)
    BY <2>1, SubSeqProperties
  <2> QED BY <1>2, <2>2, <2>3, ConcatProperties
<1> QED BY <1>1, <1>2 DEF RemoveTarget, EraseTarget

(* router::find leaves the targets, and moves the cursor within them.      *)
LEMMA FindType ==
  ASSUME targets \in Seq(Name), lastIndex \in Nat, NEW method, NEW n, Find(method, n)
  PROVE  /\ UNCHANGED targets
         /\ lastIndex' \in Nat
         /\ \/ UNCHANGED lastIndex
            \/ lastIndex' < Len(targets)
<1>1. CASE UNCHANGED router
  BY <1>1 DEF router
<1>2. CASE /\ targets # << >>
           /\ lastIndex' = (lastIndex + 1) % Len(targets)
           /\ UNCHANGED targets
  <2>1. Len(targets) \in Nat \ {0}
    BY <1>2, LenProperties, EmptySeq
  <2> QED BY <1>2, <2>1
<1> QED BY <1>1, <1>2 DEF Find

(* Taking entries out of user_data_.                                       *)
LEMMA TakeType ==
  ASSUME TypeInv, NEW S \in SUBSET userData, Take(S)
  PROVE  /\ userData' \subseteq [key : 1 .. MaxSequence, name : Name, msg : Msg]
         /\ \A u, v \in userData' : u.key = v.key /\ u.name = v.name => u = v
         /\ waiting' \in Int
         /\ IsFiniteSet(userData')
<1>1. IsFiniteSet(S) /\ IsFiniteSet(userData \ S)
  BY FS_Subset, FS_Difference DEF TypeInv
<1>2. Cardinality(S) \in Nat
  BY <1>1, FS_CardinalityType
<1> QED BY <1>1, <1>2 DEF Take, TypeInv, TypeOK

(* The rest of send() after the number was taken.                          *)
LEMMA RememberType ==
  ASSUME TypeInv, NEW k \in 1 .. MaxSequence, NEW n \in Name, NEW m \in Msg,
         Remember(k, n, m)
  PROVE  /\ userData' \subseteq [key : 1 .. MaxSequence, name : Name, msg : Msg]
         /\ \A u, v \in userData' : u.key = v.key /\ u.name = v.name => u = v
         /\ waiting' \in Int /\ shadowed' \subseteq Msg
         /\ IsFiniteSet(userData')
<1> DEFINE u == [key |-> k, name |-> n, msg |-> m]
<1>1. CASE Entries(k, n) # {}
  BY <1>1 DEF Remember, TypeInv, TypeOK
<1>2. CASE Entries(k, n) = {}
  <2>1. userData' = userData \cup {u} /\ waiting' = waiting + 1 /\ UNCHANGED shadowed
    BY <1>2 DEF Remember
  <2>2. u \in [key : 1 .. MaxSequence, name : Name, msg : Msg]
    OBVIOUS
  <2>3. \A v \in userData : ~ (v.key = u.key /\ v.name = u.name)
    BY <1>2 DEF Entries
  <2> HIDE DEF u
  <2>4. IsFiniteSet(userData')
    BY <2>1, FS_AddElement DEF TypeInv
  <2> QED BY <2>1, <2>2, <2>3, <2>4 DEF TypeInv, TypeOK
<1> QED BY <1>1, <1>2

LEMMA TypeInit == Init => TypeInv
<1> SUFFICES ASSUME Init
             PROVE  TypeInv
  OBVIOUS
<1>1. ListTypeOK
  BY ListInitType DEF Init
<1>2. IsFiniteSet(userData)
  BY FS_EmptySet DEF Init
<1>3. targets \in Seq(Name) /\ answers \in [Msg -> Seq(Answer)]
  BY EmptySeq DEF Init
<1> QED BY <1>1, <1>2, <1>3 DEF Init, TypeInv, TypeOK

(* send() of a submit.                                                     *)
LEMMA SendType ==
  ASSUME TypeInv, NEW m \in Msg, Send(m)
  PROVE  TypeInv'
<1> PICK method \in Methods, n \in Name \cup {NoName} :
      /\ Find(method, n)
      /\ NoClient(n, m) \/ \E p \in Peer : p = ClientOf(n) /\ SendVia(p, n, m)
  BY DEF Send
<1>1. targets' \in Seq(Name) /\ lastIndex' \in Nat
  BY FindType DEF TypeInv, TypeOK
<1>2. /\ UNCHANGED <<connected, running, discarded>>
      /\ submitted' \subseteq Msg
  BY DEF Send, TypeInv, TypeOK
<1>3. ASSUME Refuse(m)
      PROVE  /\ answers' \in [Msg -> Seq(Answer)]
             /\ UNCHANGED <<userData, shadowed, waiting>>
  BY <1>3, TellType DEF Refuse, TypeInv, TypeOK
<1>4. CASE NoClient(n, m)
  <2>1. Refuse(m) /\ UNCHANGED listVars
    BY <1>4 DEF NoClient
  <2>2. ListTypeOK'
    BY <2>1 DEF listVars, TypeInv, TypeOK, ListTypeOK, ListEntry
  <2> QED BY <1>1, <1>2, <1>3, <2>1, <2>2 DEF TypeInv, TypeOK
<1>5. ASSUME NEW p \in Peer, p = ClientOf(n), SendVia(p, n, m)
      PROVE  TypeInv'
  <2>1. n \in Name
    BY <1>5, ListAssumption DEF ClientOf
  <2>2. ListTypeOK'
    BY <1>5, ListSendType, ListSendFailsType DEF SendVia, TypeInv, TypeOK
  <2>3. CASE Refuse(m)
    BY <1>1, <1>2, <1>3, <2>2, <2>3 DEF TypeInv, TypeOK
  <2>4. CASE Usable(NextSeq(p)) /\ Remember(NextSeq(p), n, m) /\ UNCHANGED answers
    <3>1. NextSeq(p) \in 1 .. MaxSequence
      BY <2>4, NextSeqType DEF Usable, TypeInv, TypeOK
    <3>2. /\ userData' \subseteq [key : 1 .. MaxSequence, name : Name, msg : Msg]
          /\ \A u, v \in userData' : u.key = v.key /\ u.name = v.name => u = v
          /\ waiting' \in Int /\ shadowed' \subseteq Msg
          /\ IsFiniteSet(userData')
      BY <2>1, <2>4, <3>1, RememberType
    <3> QED BY <1>1, <1>2, <2>2, <2>4, <3>2 DEF TypeInv, TypeOK
  <2> QED BY <1>5, <2>3, <2>4 DEF SendVia
<1> QED BY <1>4, <1>5

LEMMA TypeStep == TypeInv /\ [Next]_linkVars => TypeInv'
<1> SUFFICES ASSUME TypeInv, [Next]_linkVars
             PROVE  TypeInv'
  OBVIOUS
<1>1. ASSUME NEW p \in Peer, LinkStep(p)
      PROVE  TypeInv'
  <2>1. ListTypeOK'
    BY <1>1, ListStepType DEF LinkStep, TypeInv, TypeOK
  <2> QED BY <1>1, <2>1 DEF LinkStep, router, history, TypeInv, TypeOK
<1>2. ASSUME NEW p \in Peer, OnBind(p)
      PROVE  TypeInv'
  <2> PICK n \in Names[p] : ListBind(p, n) /\ AddTarget(n)
    BY <1>2 DEF OnBind
  <2>1. ListTypeOK' /\ n \in Name
    BY ListBindType DEF TypeInv, TypeOK
  <2>2. targets' \in Seq(Name) /\ UNCHANGED lastIndex
    BY <2>1, AddTargetType DEF TypeInv, TypeOK
  <2> QED BY <1>2, <2>1, <2>2 DEF OnBind, history, TypeInv, TypeOK
<1>3. ASSUME NEW p \in Peer, OnSessionClose(p)
      PROVE  TypeInv'
  <2>1. ListTypeOK'
    BY <1>3, ListCloseType DEF OnSessionClose, TypeInv, TypeOK
  <2>2. targets' \in Seq(Name) /\ lastIndex' = 0
    BY <1>3, RemoveTargetType DEF OnSessionClose, TypeInv, TypeOK
  <2> QED BY <1>3, <2>1, <2>2 DEF OnSessionClose, history, TypeInv, TypeOK
<1>4. ASSUME NEW p \in Peer, OnTimer(p)
      PROVE  TypeInv'
  <2>1. ListTypeOK'
    BY <1>4, ListTimerType DEF OnTimer, TypeInv, TypeOK
  <2>2. DueData(p) \subseteq userData
    BY DEF DueData, Entries
  <2>3. Take(DueData(p)) /\ Tell({u.msg : u \in DueData(p)}, "timeout", NoMsg)
    BY <1>4 DEF OnTimer
  <2>4. /\ userData' \subseteq [key : 1 .. MaxSequence, name : Name, msg : Msg]
        /\ \A u, v \in userData' : u.key = v.key /\ u.name = v.name => u = v
        /\ waiting' \in Int
        /\ IsFiniteSet(userData')
    BY <2>2, <2>3, TakeType
  <2>5. answers' \in [Msg -> Seq(Answer)]
    BY <2>3, TellType DEF TypeInv, TypeOK
  <2> QED BY <1>4, <2>1, <2>4, <2>5 DEF OnTimer, router, TypeInv, TypeOK
<1>5. ASSUME NEW m \in Msg, Send(m)
      PROVE  TypeInv'
  BY <1>5, SendType
<1>6. ASSUME NEW r \in wire, OnResponse(r)
      PROVE  TypeInv'
  <2> DEFINE found == Entries(r.key, server[r.peer])
  <2>1. ListTypeOK' /\ r.msg \in Msg
    BY <1>6, ListResponseType DEF OnResponse, TypeInv, TypeOK
  <2>2. found \subseteq userData
    BY DEF Entries
  <2>3. /\ Take(found)
        /\ \/ Tell({u.msg : u \in found}, "response", r.msg) /\ UNCHANGED discarded
           \/ discarded' = discarded \cup {u.msg : u \in found} /\ UNCHANGED answers
    BY <1>6 DEF OnResponse
  <2> HIDE DEF found
  <2>4. /\ userData' \subseteq [key : 1 .. MaxSequence, name : Name, msg : Msg]
        /\ \A u, v \in userData' : u.key = v.key /\ u.name = v.name => u = v
        /\ waiting' \in Int
        /\ IsFiniteSet(userData')
    BY <2>2, <2>3, TakeType
  <2>5. answers' \in [Msg -> Seq(Answer)] /\ discarded' \subseteq Msg
    <3> DEFINE S == {u.msg : u \in found}
    <3>1. S \subseteq Msg
      BY <2>2 DEF TypeInv, TypeOK
    <3> HIDE DEF S
    <3>2. CASE Tell(S, "response", r.msg) /\ UNCHANGED discarded
      BY <2>1, <3>2, TellType DEF TypeInv, TypeOK
    <3>3. CASE discarded' = discarded \cup S /\ UNCHANGED answers
      BY <3>1, <3>3 DEF TypeInv, TypeOK
    <3> QED BY <2>3, <3>2, <3>3 DEF S
  <2>6. UNCHANGED <<targets, lastIndex, connected, running, submitted, shadowed>>
    BY <1>6 DEF OnResponse, router
  <2> QED BY <2>1, <2>4, <2>5, <2>6 DEF TypeInv, TypeOK
<1>7. CASE SendTerminates \/ UNCHANGED linkVars
  <2>1. ListTypeOK'
    BY <1>7 DEF SendTerminates, linkVars, listVars, TypeInv, TypeOK, ListTypeOK, ListEntry
  <2> QED BY <1>7, <2>1 DEF SendTerminates, linkVars, router, history, TypeInv, TypeOK
<1> QED BY <1>1, <1>2, <1>3, <1>4, <1>5, <1>6, <1>7 DEF Next

(* The variables of the link always have their types; no key is twice in   *)
(* user_data_ or in an expirator, and none is 0.                           *)
THEOREM TypeCorrect == SafeSpec => []TypeOK
<1>1. TypeInv => TypeOK
  BY DEF TypeInv
<1> QED BY <1>1, TypeInit, TypeStep, PTL DEF SafeSpec

-----------------------------------------------------------------------------
(* No submit is lost track of and none is answered twice.                  *)

(* The first answer makes a sequence of length one.                        *)
LEMMA FirstAnswer ==
  ASSUME NEW x \in Answer
  PROVE  Append(<< >>, x) # << >> /\ Len(Append(<< >>, x)) = 1
BY EmptySeq, AppendProperties

(* Answering submits that have no answer yet.                              *)
LEMMA TellOnce ==
  ASSUME answers \in [Msg -> Seq(Answer)],
         \A m \in Msg : Len(answers[m]) <= 1,
         NEW S \in SUBSET Msg, S \cap Answered = {},
         NEW by \in {"response", "timeout", "refused"}, NEW of \in Msg \cup {NoMsg},
         Tell(S, by, of)
  PROVE  /\ Answered' = Answered \cup S
         /\ \A m \in Msg : Len(answers'[m]) <= 1
<1> DEFINE r == [by |-> by, of |-> of]
<1>1. r \in Answer
  BY DEF Answer
<1>2. \A m \in S : answers[m] = << >>
  BY DEF Answered
<1>3. \A m \in S : answers'[m] = Append(<< >>, r)
  BY <1>2 DEF Tell
<1>4. Append(<< >>, r) # << >> /\ Len(Append(<< >>, r)) = 1
  BY <1>1, FirstAnswer
<1>5. \A m \in Msg \ S : answers'[m] = answers[m]
  BY DEF Tell
<1> HIDE DEF r
<1>6. \A m \in S : answers'[m] # << >> /\ Len(answers'[m]) = 1
  BY <1>3, <1>4
<1>7. Answered' = Answered \cup S
  BY <1>5, <1>6 DEF Answered
<1>8. \A m \in Msg : Len(answers'[m]) <= 1
  <2> SUFFICES ASSUME NEW m \in Msg
               PROVE  Len(answers'[m]) <= 1
    OBVIOUS
  <2>1. CASE m \in S
    <3>1. Len(answers'[m]) = 1
      BY <1>6, <2>1, Zenon
    <3> QED BY <3>1
  <2>2. CASE m \notin S
    BY <1>5, <2>2
  <2> QED BY <2>1, <2>2
<1> QED BY <1>7, <1>8

(* Entries that leave user_data_ are the only ones of their submits.       *)
LEMMA TakeWaiting ==
  ASSUME Accounted, NEW D \in SUBSET userData, Take(D)
  PROVE  /\ Waiting' = Waiting \ {u.msg : u \in D}
         /\ {u.msg : u \in D} \subseteq Waiting
         /\ \A u, v \in userData' : u.msg = v.msg => u = v
BY DEF Take, Accounted, Waiting

(* What waits and gets its answer, be it a response or the timeout.        *)
LEMMA TellKeepsAccount ==
  ASSUME TypeOK, Accounted, NEW D \in SUBSET userData, Take(D),
         NEW by \in {"response", "timeout", "refused"}, NEW of \in Msg \cup {NoMsg},
         Tell({u.msg : u \in D}, by, of),
         UNCHANGED <<submitted, shadowed, discarded>>
  PROVE  Accounted'
<1> DEFINE S == {u.msg : u \in D}
<1>1. /\ Waiting' = Waiting \ S /\ S \subseteq Waiting
      /\ \A u, v \in userData' : u.msg = v.msg => u = v
  BY TakeWaiting
<1>2. S \in SUBSET Msg
  BY DEF TypeOK
<1>3. S \cap Answered = {} /\ S \cap Lost = {}
  BY <1>1 DEF Accounted
<1> HIDE DEF S
<1>4. /\ Answered' = Answered \cup S
      /\ \A m \in Msg : Len(answers'[m]) <= 1
  BY <1>2, <1>3, TellOnce DEF TypeOK, Accounted, S
<1>5. Lost' = Lost
  BY DEF Lost
<1> QED BY <1>1, <1>3, <1>4, <1>5 DEF Accounted

(* What waits and is thrown away.                                          *)
LEMMA DiscardKeepsAccount ==
  ASSUME TypeOK, Accounted, NEW D \in SUBSET userData, Take(D),
         discarded' = discarded \cup {u.msg : u \in D},
         UNCHANGED <<submitted, shadowed, answers>>
  PROVE  Accounted'
<1> DEFINE S == {u.msg : u \in D}
<1>1. /\ Waiting' = Waiting \ S /\ S \subseteq Waiting
      /\ \A u, v \in userData' : u.msg = v.msg => u = v
  BY TakeWaiting
<1>2. S \cap Answered = {} /\ S \cap Lost = {}
  BY <1>1 DEF Accounted
<1> HIDE DEF S
<1>3. Lost' = Lost \cup S /\ shadowed' \cap discarded' = {}
  BY <1>2 DEF Lost, Accounted, S
<1>4. Answered' = Answered
  BY DEF Answered
<1>5. \A m \in Msg : Len(answers'[m]) <= 1
  BY DEF Accounted
<1> QED BY <1>1, <1>2, <1>3, <1>4, <1>5 DEF Accounted

(* A new submit is refused, waits, or finds its key taken.                 *)
LEMMA SendOutcome ==
  ASSUME NEW m \in Msg, Send(m)
  PROVE  /\ m \notin submitted /\ submitted' = submitted \cup {m} /\ UNCHANGED discarded
         /\ \/ Refuse(m)
            \/ /\ \E u : u.msg = m /\ userData' = userData \cup {u}
               /\ UNCHANGED <<answers, shadowed>>
            \/ /\ shadowed' = shadowed \cup {m}
               /\ UNCHANGED <<answers, userData>>
<1>1. /\ m \notin submitted /\ submitted' = submitted \cup {m} /\ UNCHANGED discarded
      /\ \/ Refuse(m)
         \/ \E k, n : Remember(k, n, m) /\ UNCHANGED answers
  BY DEF Send, NoClient, SendVia
<1>2. ASSUME NEW k, NEW n, Remember(k, n, m)
      PROVE  \/ /\ \E u : u.msg = m /\ userData' = userData \cup {u}
                /\ UNCHANGED shadowed
             \/ /\ shadowed' = shadowed \cup {m}
                /\ UNCHANGED userData
  <2> DEFINE u == [key |-> k, name |-> n, msg |-> m]
  <2>1. CASE Entries(k, n) = {}
    <3>1. userData' = userData \cup {u} /\ UNCHANGED shadowed /\ u.msg = m
      BY <1>2, <2>1 DEF Remember
    <3> HIDE DEF u
    <3> QED BY <3>1
  <2>2. CASE Entries(k, n) # {}
    BY <1>2, <2>2 DEF Remember
  <2> QED BY <2>1, <2>2
<1> QED BY <1>1, <1>2

LEMMA SendKeepsAccount ==
  ASSUME TypeOK, Accounted, NEW m \in Msg, Send(m)
  PROVE  Accounted'
<1>1. /\ m \notin submitted /\ submitted' = submitted \cup {m} /\ UNCHANGED discarded
      /\ \/ Refuse(m)
         \/ /\ \E u : u.msg = m /\ userData' = userData \cup {u}
            /\ UNCHANGED <<answers, shadowed>>
         \/ /\ shadowed' = shadowed \cup {m}
            /\ UNCHANGED <<answers, userData>>
  BY SendOutcome
<1>2. m \notin Waiting /\ m \notin Answered /\ m \notin Lost
  BY <1>1 DEF Accounted
<1>3. CASE Refuse(m)
  <2> DEFINE S == {m}
  <2>0. S \in SUBSET Msg /\ S \cap Answered = {} /\ Tell(S, "refused", NoMsg)
    BY <1>2, <1>3 DEF Refuse
  <2> HIDE DEF S
  <2>1. Answered' = Answered \cup S /\ \A q \in Msg : Len(answers'[q]) <= 1
    BY <2>0, TellOnce DEF TypeOK, Accounted
  <2>2. Waiting' = Waiting /\ Lost' = Lost
    BY <1>1, <1>3 DEF Refuse, Waiting, Lost
  <2>3. UNCHANGED <<userData, shadowed>>
    BY <1>3 DEF Refuse
  <2> QED BY <1>1, <1>2, <2>1, <2>2, <2>3 DEF Accounted, S
<1>4. CASE UNCHANGED <<answers, shadowed>> /\ \E u : u.msg = m /\ userData' = userData \cup {u}
  <2>1. Waiting' = Waiting \cup {m} /\ Answered' = Answered /\ Lost' = Lost
    BY <1>1, <1>4 DEF Waiting, Answered, Lost
  <2>2. \A u, v \in userData' : u.msg = v.msg => u = v
    BY <1>2, <1>4 DEF Accounted, Waiting
  <2> QED BY <1>1, <1>2, <1>4, <2>1, <2>2 DEF Accounted
<1>5. CASE shadowed' = shadowed \cup {m} /\ UNCHANGED <<answers, userData>>
  <2>1. Waiting' = Waiting /\ Answered' = Answered /\ Lost' = Lost \cup {m}
    BY <1>1, <1>5 DEF Waiting, Answered, Lost
  <2>2. shadowed' \cap discarded' = {}
    BY <1>1, <1>2, <1>5 DEF Accounted, Lost
  <2> QED BY <1>1, <1>2, <1>5, <2>1, <2>2 DEF Accounted
<1> QED BY <1>1, <1>3, <1>4, <1>5

(* A response completes what it finds, or takes it out.                    *)
LEMMA ResponseOutcome ==
  ASSUME TypeOK, NEW r \in wire, OnResponse(r)
  PROVE  \E D \in SUBSET userData : \E of \in Msg :
           /\ Take(D) /\ UNCHANGED <<submitted, shadowed>>
           /\ \/ Tell({u.msg : u \in D}, "response", of) /\ UNCHANGED discarded
              \/ discarded' = discarded \cup {u.msg : u \in D} /\ UNCHANGED answers
<1> DEFINE D == Entries(r.key, server[r.peer])
<1>1. D \in SUBSET userData /\ r.msg \in Msg
  BY DEF Entries, TypeOK, ListTypeOK
<1>2. /\ Take(D) /\ UNCHANGED <<submitted, shadowed>>
      /\ \/ Tell({u.msg : u \in D}, "response", r.msg) /\ UNCHANGED discarded
         \/ discarded' = discarded \cup {u.msg : u \in D} /\ UNCHANGED answers
  BY DEF OnResponse
<1> HIDE DEF D
<1> QED BY <1>1, <1>2

LEMMA AccountedInit == Init => Accounted
<1> SUFFICES ASSUME Init
             PROVE  Accounted
  OBVIOUS
<1>1. Waiting = {} /\ Answered = {} /\ Lost = {} /\ \A m \in Msg : Len(answers[m]) <= 1
  BY EmptySeq DEF Init, Waiting, Answered, Lost
<1> QED BY <1>1 DEF Init, Accounted

LEMMA AccountedStep == TypeOK /\ Accounted /\ [Next]_linkVars => Accounted'
<1> SUFFICES ASSUME TypeOK, Accounted, [Next]_linkVars
             PROVE  Accounted'
  OBVIOUS
<1>1. CASE UNCHANGED <<userData, history>>
  BY <1>1 DEF history, Accounted, Waiting, Answered, Lost
<1>2. ASSUME NEW p \in Peer, LinkStep(p) \/ OnBind(p) \/ OnSessionClose(p)
      PROVE  Accounted'
  BY <1>1, <1>2 DEF LinkStep, OnBind, OnSessionClose
<1>3. ASSUME NEW p \in Peer, OnTimer(p)
      PROVE  Accounted'
  <2>1. DueData(p) \subseteq userData
    BY DEF DueData, Entries
  <2> QED BY <1>3, <2>1, TellKeepsAccount DEF OnTimer
<1>4. ASSUME NEW m \in Msg, Send(m)
      PROVE  Accounted'
  BY <1>4, SendKeepsAccount
<1>5. ASSUME NEW r \in wire, OnResponse(r)
      PROVE  Accounted'
  <2> PICK D \in SUBSET userData, of \in Msg :
        /\ Take(D) /\ UNCHANGED <<submitted, shadowed>>
        /\ \/ Tell({u.msg : u \in D}, "response", of) /\ UNCHANGED discarded
           \/ discarded' = discarded \cup {u.msg : u \in D} /\ UNCHANGED answers
    BY <1>5, ResponseOutcome
  <2> QED BY TellKeepsAccount, DiscardKeepsAccount
<1>6. CASE SendTerminates \/ UNCHANGED linkVars
  BY <1>1, <1>6 DEF SendTerminates, linkVars
<1> QED BY <1>2, <1>3, <1>4, <1>5, <1>6 DEF Next

(* Every submit handed to send() is in exactly one place and is answered   *)
(* at most once, whatever reconnects, late responses and reused numbers.   *)
THEOREM SubmitsAccounted == SafeSpec => []Accounted
BY AccountedInit, AccountedStep, TypeCorrect, PTL DEF SafeSpec

-----------------------------------------------------------------------------
(* The clients that can be sent to.                                        *)

(* An address has the name of one of its servers, once it was bound.       *)
ServersNamed == \A p \in Peer :
  /\ server[p] \in Names[p] \cup {NoName}
  /\ p \in Bound => server[p] \in Names[p]

ConnInv == ListTypeOK /\ ClientsUsable /\ ServersNamed

(* Steps that leave the names and the bound p_clients as they are.         *)
LEMMA ConnSame ==
  ASSUME ConnInv, ListTypeOK', UNCHANGED <<server, clients>>, Bound' = Bound
  PROVE  ConnInv'
BY DEF ConnInv, ClientsUsable, ServersNamed

LEMMA ConnStep ==
  ASSUME ConnInv, TypeOK, TypeOK', [Next]_linkVars
  PROVE  ConnInv'
<1>1. ListTypeOK /\ ListTypeOK'
  BY DEF TypeOK
<1>2. ASSUME NEW p \in Peer, LinkStep(p)
      PROVE  ConnInv'
  <2>1. UNCHANGED <<server, clients>> /\ Bound' = Bound
    BY <1>1, <1>2 DEF LinkStep, ListStep, Connect, ConnectFails, Retry, BindAccepted, BindFails,
            PeerUnbind, SessionClose, Bound, ListTypeOK
  <2> QED BY <1>1, <2>1, ConnSame
<1>3. ASSUME NEW p \in Peer, OnBind(p)
      PROVE  ConnInv'
  <2>1. PICK n \in Names[p] : ListBind(p, n)
    BY <1>3 DEF OnBind
  <2>2. n \in Name /\ p \notin Bound
    BY <2>1, ListAssumption DEF ListBind, Bound
  <2>3. /\ Bound' = Bound \cup {p}
        /\ server' = [server EXCEPT ![p] = n]
        /\ \A k \in Name : clients'[k] = clients[k] \/ (k = n /\ clients'[k] = p)
    BY <1>1, <2>1 DEF ListBind, Bound, ListTypeOK
  <2>4. ClientsUsable'
    BY <1>1, <2>2, <2>3 DEF ConnInv, ClientsUsable, ListTypeOK
  <2>5. ServersNamed'
    BY <1>1, <2>3 DEF ConnInv, ServersNamed, ListTypeOK
  <2> QED BY <1>1, <2>4, <2>5 DEF ConnInv
<1>4. ASSUME NEW p \in Peer, OnSessionClose(p)
      PROVE  ConnInv'
  <2>1. ListClose(p)
    BY <1>4 DEF OnSessionClose
  <2>2. p \in Bound /\ Bound' = Bound \ {p} /\ UNCHANGED server
    BY <1>1, <2>1 DEF ListClose, Bound, ListTypeOK
  <2>3. \A k \in Name : clients'[k] = IF k = server[p] THEN NoPeer ELSE clients[k]
    BY <1>1, <2>1 DEF ListClose, ListTypeOK
  <2>4. ClientsUsable'
    BY <1>1, <2>2, <2>3 DEF ConnInv, ClientsUsable, ListTypeOK
  <2>5. ServersNamed'
    BY <2>2 DEF ConnInv, ServersNamed
  <2> QED BY <1>1, <2>4, <2>5 DEF ConnInv
<1>5. CASE \/ \E p \in Peer : OnTimer(p)
           \/ \E m \in Msg : Send(m)
           \/ \E r \in wire : OnResponse(r)
           \/ SendTerminates \/ UNCHANGED linkVars
  <2>1. UNCHANGED <<conn, server, clients>>
    BY <1>5 DEF OnTimer, ListTimer, Send, NoClient, SendVia, ListSendFails, ListSend,
            OnResponse, ListResponse, SendTerminates, linkVars, listVars
  <2>2. Bound' = Bound
    BY <2>1 DEF Bound
  <2> QED BY <1>1, <2>1, <2>2, ConnSame
<1> QED BY <1>2, <1>3, <1>4, <1>5 DEF Next

LEMMA ConnInit == Init => ConnInv
BY ListInitType, ListAssumption
   DEF Init, ListInit, ConnInv, ClientsUsable, ServersNamed, Bound

LEMMA ConnCorrect == SafeSpec => []ConnInv
BY ConnInit, ConnStep, TypeCorrect, PTL DEF SafeSpec

(* A client that p_client_list knows holds a session and is bound under    *)
(* the name it is known by, also when servers share names.                 *)
THEOREM ClientsHoldSessions == SafeSpec => []ClientsUsable
<1>1. ConnInv => ClientsUsable
  BY DEF ConnInv
<1> QED BY <1>1, ConnCorrect, PTL

(* What any step does to the list of bound p_clients.                      *)
LEMMA ReachableStep ==
  ASSUME ConnInv, TypeOK, BoundReachable, [Next]_linkVars
  PROVE  BoundReachable'
<1> SUFFICES ASSUME OwnNames
             PROVE  \A p \in Bound' : clients'[server'[p]] = p
  BY DEF BoundReachable
<1>1. /\ ListTypeOK /\ \A p \in Bound : clients[server[p]] = p
      /\ \A p, q \in Peer : p # q => Names[p] \cap Names[q] = {}
  BY DEF BoundReachable, TypeOK, OwnNames
<1>2. ASSUME NEW p \in Peer, LinkStep(p)
      PROVE  UNCHANGED <<server, clients>> /\ Bound' = Bound
  BY <1>1, <1>2 DEF LinkStep, ListStep, Connect, ConnectFails, Retry, BindAccepted, BindFails,
          PeerUnbind, SessionClose, Bound, ListTypeOK
<1>3. ASSUME NEW p \in Peer, OnBind(p)
      PROVE  \A q \in Bound' : clients'[server'[q]] = q
  <2>1. PICK n \in Names[p] : ListBind(p, n)
    BY <1>3 DEF OnBind
  <2>2. n \in Name /\ p \notin Bound
    BY <2>1, ListAssumption DEF ListBind, Bound
  <2>3. clients[n] = NoPeer
    <3>1. SUFFICES ASSUME clients[n] # NoPeer
                   PROVE  FALSE
      OBVIOUS
    <3>2. clients[n] \in Bound /\ server[clients[n]] = n
      BY <2>2, <3>1 DEF ConnInv, ClientsUsable
    <3>3. clients[n] \in Peer /\ n \in Names[clients[n]]
      BY <3>2 DEF ConnInv, ServersNamed, Bound
    <3> QED BY <1>1, <2>1, <2>2, <3>2, <3>3
  <2>4. /\ Bound' = Bound \cup {p}
        /\ server' = [server EXCEPT ![p] = n]
        /\ clients' = [clients EXCEPT ![n] = p]
    BY <1>1, <2>1, <2>2, <2>3 DEF ListBind, Bound, ListTypeOK
  <2>5. \A q \in Bound : q # p /\ server[q] # n
    BY <1>1, <2>2, <2>3, ListAssumption DEF Bound
  <2> QED BY <1>1, <2>2, <2>4, <2>5 DEF Bound, ListTypeOK
<1>4. ASSUME NEW p \in Peer, OnSessionClose(p)
      PROVE  \A q \in Bound' : clients'[server'[q]] = q
  <2>1. ListClose(p)
    BY <1>4 DEF OnSessionClose
  <2>2. p \in Bound /\ Bound' = Bound \ {p} /\ UNCHANGED server
    BY <1>1, <2>1 DEF ListClose, Bound, ListTypeOK
  <2>3. \A k \in Name : k # server[p] => clients'[k] = clients[k]
    BY <1>1, <2>1 DEF ListClose, ListTypeOK
  <2>4. \A q \in Bound' : server[q] \in Name /\ server[q] # server[p]
    BY <1>1, <2>2, ListAssumption DEF ConnInv, ServersNamed, Bound
  <2> QED BY <1>1, <2>2, <2>3, <2>4
<1>5. CASE \/ \E p \in Peer : OnTimer(p)
           \/ \E m \in Msg : Send(m)
           \/ \E r \in wire : OnResponse(r)
           \/ SendTerminates \/ UNCHANGED linkVars
  <2>1. UNCHANGED <<conn, server, clients>>
    BY <1>5 DEF OnTimer, ListTimer, Send, NoClient, SendVia, ListSendFails, ListSend,
            OnResponse, ListResponse, SendTerminates, linkVars, listVars
  <2> QED BY <1>1, <2>1 DEF Bound
<1> QED BY <1>1, <1>2, <1>3, <1>4, <1>5 DEF Next

(* When addresses do not share names, a submit routed to a bound p_client  *)
(* always finds it: p_client::on_bind and on_session_close keep the list.  *)
THEOREM BoundAreReachable == SafeSpec => []BoundReachable
<1>1. Init => BoundReachable
  BY DEF Init, ListInit, BoundReachable, Bound
<1> QED BY <1>1, ConnCorrect, TypeCorrect, ReachableStep, PTL DEF SafeSpec

-----------------------------------------------------------------------------
(* What waits has a timeout ahead.                                         *)

Timed == \A u \in userData : \E p \in Peer : server[p] = u.name /\ u.key \in Keys(p)

(* An address with one server has one name, and shares it with no other.   *)
LEMMA OneName ==
  ASSUME FixedNames, ServersNamed
  PROVE  /\ \A p \in Peer : \A m, n \in Names[p] : m = n
         /\ \A p, q \in Peer : server[p] = server[q] /\ server[p] # NoName => p = q
<1>1. \A p \in Peer : \A m, n \in Names[p] : m = n
  BY DEF FixedNames
<1>2. ASSUME NEW p \in Peer, NEW q \in Peer, server[p] = server[q], server[p] # NoName
      PROVE  p = q
  BY <1>2 DEF FixedNames, OwnNames, ServersNamed
<1> QED BY <1>1, <1>2

(* A submit joins user_data_ together with its entry in the expirator.     *)
LEMMA SendTimed ==
  ASSUME ConnInv, TypeOK, Timed, NEW m \in Msg, Send(m)
  PROVE  Timed'
<1> PICK method \in Methods, n \in Name \cup {NoName} :
      NoClient(n, m) \/ \E p \in Peer : p = ClientOf(n) /\ SendVia(p, n, m)
  BY DEF Send
<1>1. CASE UNCHANGED <<userData, server, tracked>>
  BY <1>1 DEF Timed
<1>2. ASSUME NEW p \in Peer, p = ClientOf(n), SendVia(p, n, m)
      PROVE  Timed'
  <2>1. n \in Name /\ server[p] = n
    BY <1>2, ListAssumption DEF ConnInv, ClientsUsable
  <2>2. CASE ListSendFails(p) /\ Refuse(m)
    BY <1>1, <2>2 DEF ListSendFails, Refuse
  <2>3. CASE ListSend(p, m)
    <3>1. UNCHANGED server /\ Track(p, m)
      BY <2>3 DEF ListSend
    <3>2. /\ \A q \in Peer : Keys(q) \subseteq Keys(q)'
          /\ NextSeq(p) \in Keys(p)'
      <4> DEFINE e == [key |-> NextSeq(p), msg |-> m, left |-> Timeout]
      <4>1. tracked' = [tracked EXCEPT ![p] =
                          IF NextSeq(p) \in Keys(p) THEN @ ELSE @ \cup {e}]
        BY <3>1 DEF Track
      <4>2. e.key = NextSeq(p)
        OBVIOUS
      <4> HIDE DEF e
      <4> QED BY <4>1, <4>2 DEF TypeOK, ListTypeOK
    <3>3. \A u \in userData' : u \in userData \/ (u.key = NextSeq(p) /\ u.name = n)
      BY <1>2, <2>2, <2>3 DEF SendVia, Remember, Refuse
    <3> QED BY <2>1, <3>1, <3>2, <3>3 DEF Timed
  <2> QED BY <1>2, <2>2, <2>3 DEF SendVia
<1> QED BY <1>1, <1>2 DEF NoClient, Refuse, listVars

(* What leaves an expirator leaves user_data_ with it.                     *)
LEMMA TimedStep ==
  ASSUME ConnInv, TypeOK, WaitingIsTimed, [Next]_linkVars
  PROVE  WaitingIsTimed'
<1> SUFFICES ASSUME FixedNames
             PROVE  Timed'
  BY DEF WaitingIsTimed, Timed
<1>1. /\ Timed /\ ListTypeOK
      /\ userData \subseteq [key : 1 .. MaxSequence, name : Name, msg : Msg]
      /\ \A u \in userData : u.name \in Name /\ u.name # NoName
  BY ListAssumption DEF WaitingIsTimed, Timed, TypeOK
<1>2. /\ \A p \in Peer : \A m, n \in Names[p] : m = n
      /\ \A p, q \in Peer : server[p] = server[q] /\ server[p] # NoName => p = q
  BY OneName DEF ConnInv
<1>3. CASE UNCHANGED <<userData, server, tracked>>
  BY <1>1, <1>3 DEF Timed
<1>4. ASSUME NEW p \in Peer, LinkStep(p) \/ OnSessionClose(p)
      PROVE  Timed'
  BY <1>3, <1>4 DEF LinkStep, ListStep, Connect, ConnectFails, Retry, BindAccepted, BindFails,
          PeerUnbind, SessionClose, OnSessionClose, ListClose
<1>5. ASSUME NEW p \in Peer, OnBind(p)
      PROVE  Timed'
  <2>1. PICK n \in Names[p] : ListBind(p, n)
    BY <1>5 DEF OnBind
  <2>2. server' = [server EXCEPT ![p] = n] /\ UNCHANGED <<userData, tracked>>
    BY <1>5, <2>1 DEF ListBind, OnBind
  <2>3. server[p] = n \/ server[p] = NoName
    BY <1>2, <2>1 DEF ConnInv, ServersNamed
  <2>4. \A u \in userData : \A q \in Peer : server[q] = u.name => server'[q] = u.name
    BY <1>1, <2>2, <2>3 DEF ListTypeOK
  <2> QED BY <1>1, <2>2, <2>4 DEF Timed
<1>6. ASSUME NEW p \in Peer, OnTimer(p)
      PROVE  Timed'
  <2>1. UNCHANGED server /\ userData' = userData \ DueData(p)
    BY <1>6 DEF OnTimer, ListTimer, Take
  <2>2. \A q \in Peer \ {p} : tracked'[q] = tracked[q]
    BY <1>1, <1>6 DEF OnTimer, ListTimer, ListTypeOK
  <2>3. \A e \in tracked[p] \ Due(p) : e.key \in Keys(p)'
    <3> SUFFICES ASSUME NEW e \in tracked[p] \ Due(p)
                 PROVE  e.key \in Keys(p)'
      OBVIOUS
    <3> DEFINE f == [e EXCEPT !.left = @ - 1]
    <3>1. f \in tracked'[p]
      BY <1>1, <1>6 DEF OnTimer, ListTimer, ListTypeOK
    <3>2. f = [key |-> e.key, msg |-> e.msg, left |-> e.left - 1]
      BY <1>1 DEF ListTypeOK, ListEntry
    <3>3. f.key = e.key
      BY <3>2
    <3> QED BY <3>1, <3>3
  <2>4. ASSUME NEW u \in userData'
        PROVE  \E q \in Peer : server'[q] = u.name /\ u.key \in Keys(q)'
    <3>1. PICK q \in Peer : server[q] = u.name /\ u.key \in Keys(q)
      BY <1>1, <2>1, <2>4 DEF Timed
    <3>2. CASE q # p
      BY <2>1, <2>2, <3>1, <3>2
    <3>3. CASE q = p
      <4>1. PICK e \in tracked[p] : e.key = u.key
        BY <3>1, <3>3
      <4>2. e \notin Due(p)
        BY <2>1, <2>4, <3>1, <3>3, <4>1 DEF DueData, Entries
      <4> QED BY <2>1, <2>3, <3>1, <3>3, <4>1, <4>2
    <3> QED BY <3>2, <3>3
  <2> QED BY <2>4 DEF Timed
<1>7. ASSUME NEW r \in wire, OnResponse(r)
      PROVE  Timed'
  <2>1. r.peer \in Peer
    BY <1>1 DEF ListTypeOK
  <2>2. UNCHANGED server /\ userData' = userData \ Entries(r.key, server[r.peer])
    BY <1>7 DEF OnResponse, ListResponse, Take
  <2>3. tracked' = [tracked EXCEPT ![r.peer] = {e \in @ : e.key # r.key}]
    BY <1>7 DEF OnResponse, ListResponse
  <2>4. ASSUME NEW u \in userData'
        PROVE  \E q \in Peer : server'[q] = u.name /\ u.key \in Keys(q)'
    <3>1. PICK q \in Peer : server[q] = u.name /\ u.key \in Keys(q)
      BY <1>1, <2>2, <2>4 DEF Timed
    <3>2. ~ (q = r.peer /\ u.key = r.key)
      BY <2>2, <2>4, <3>1 DEF Entries
    <3>3. u.key \in Keys(q)'
      BY <1>1, <2>1, <2>3, <3>1, <3>2 DEF ListTypeOK
    <3> QED BY <2>2, <3>1, <3>3
  <2> QED BY <2>4 DEF Timed
<1>8. ASSUME NEW m \in Msg, Send(m)
      PROVE  Timed'
  BY <1>1, <1>8, SendTimed
<1>9. CASE SendTerminates \/ UNCHANGED linkVars
  BY <1>3, <1>9 DEF SendTerminates, linkVars, listVars
<1> QED BY <1>4, <1>5, <1>6, <1>7, <1>8, <1>9 DEF Next

(* As long as addresses keep their servers' names, what waits in           *)
(* user_data_ has an entry in the expirator that will time it out.         *)
THEOREM WaitingHasTimeout == SafeSpec => []WaitingIsTimed
<1>1. Init => WaitingIsTimed
  BY DEF Init, WaitingIsTimed
<1> QED BY <1>1, ConnCorrect, TypeCorrect, TimedStep, PTL DEF SafeSpec

-----------------------------------------------------------------------------
(* The round robin.                                                        *)

\* The cursor is within the targets; with none, it is at the start.
RouteInv == RouteInRange /\ (targets = << >> => lastIndex = 0)

LEMMA RouteStep ==
  ASSUME TypeOK, RouteInv, [Next]_linkVars
  PROVE  RouteInv'
<1>1. targets \in Seq(Name) /\ lastIndex \in Nat /\ Len(targets) \in Nat
  BY LenProperties DEF TypeOK
<1>2. CASE UNCHANGED router
  BY <1>2 DEF router, RouteInv, RouteInRange
<1>3. ASSUME NEW p \in Peer, OnBind(p)
      PROVE  RouteInv'
  <2>1. PICK n \in Name : AddTarget(n)
    BY <1>3, ListAssumption DEF OnBind
  <2>2. targets' \in Seq(Name) /\ Len(targets') >= Len(targets) /\ UNCHANGED lastIndex
    BY <1>1, <2>1, AddTargetType
  <2>3. /\ Len(targets') \in Nat
        /\ targets' # << >> => Len(targets') > 0
        /\ targets # << >> => Len(targets) > 0
        /\ targets = << >> => Len(targets) = 0
    BY <1>1, <2>2, LenProperties, EmptySeq
  <2>4. targets' = << >> => Len(targets') = 0
    BY EmptySeq
  <2> QED BY <1>1, <2>2, <2>3, <2>4 DEF RouteInv, RouteInRange
<1>4. ASSUME NEW p \in Peer, OnSessionClose(p)
      PROVE  RouteInv'
  <2>1. targets' \in Seq(Name) /\ lastIndex' = 0
    BY <1>1, <1>4, RemoveTargetType DEF OnSessionClose
  <2>2. targets' # << >> => Len(targets') > 0
    BY <2>1, EmptySeq, LenProperties
  <2> QED BY <2>1, <2>2 DEF RouteInv, RouteInRange
<1>5. ASSUME NEW m \in Msg, Send(m)
      PROVE  RouteInv'
  <2>1. PICK method, n : Find(method, n)
    BY <1>5 DEF Send
  <2>2. /\ UNCHANGED targets /\ lastIndex' \in Nat
        /\ UNCHANGED lastIndex \/ lastIndex' < Len(targets)
    BY <1>1, <2>1, FindType
  <2>3. targets = << >> => Len(targets) = 0
    BY EmptySeq
  <2> QED BY <1>1, <2>2, <2>3 DEF RouteInv, RouteInRange
<1>6. CASE \/ \E p \in Peer : LinkStep(p) \/ OnTimer(p)
           \/ \E r \in wire : OnResponse(r)
           \/ SendTerminates \/ UNCHANGED linkVars
  BY <1>2, <1>6 DEF LinkStep, OnTimer, OnResponse, SendTerminates, linkVars, router
<1> QED BY <1>3, <1>4, <1>5, <1>6 DEF Next

(* route_by_round_robin never reads past the end of targets_list_.         *)
THEOREM CursorInRange == SafeSpec => []RouteInRange
<1>1. Init => RouteInv
  BY DEF Init, RouteInv, RouteInRange
<1>2. RouteInv => RouteInRange
  BY DEF RouteInv
<1> QED BY <1>1, <1>2, TypeCorrect, RouteStep, PTL DEF SafeSpec

-----------------------------------------------------------------------------
(* The link implements the request/reply promise.                          *)

(* What submit_sm sees depends on three sets alone.                         *)
SeenBy(A, L, C) ==
  [m \in Msg |-> IF m \in A THEN "answered"
                 ELSE IF m \in L THEN "lost"
                 ELSE IF m \in C THEN "accepted" ELSE "new"]

LEMMA StatusBySets == Accounted => ServiceStatus = SeenBy(Answered, Lost, submitted)
<1> SUFFICES ASSUME Accounted, NEW m \in Msg
             PROVE  ServiceStatus[m] = SeenBy(Answered, Lost, submitted)[m]
  BY DEF ServiceStatus, SeenBy
<1>1. ~ (Len(answers[m]) > 1)
  BY DEF Accounted
<1> QED BY <1>1 DEF ServiceStatus, SeenBy

LEMMA StatusBySetsNext ==
  (Accounted => ServiceStatus = SeenBy(Answered, Lost, submitted))'
BY StatusBySets, PTL

(* A handler that only answers, only gives up or only accepts requests is  *)
(* a step of the promise.                                                  *)
LEMMA ServiceMove ==
  ASSUME TypeOK, Accounted, TypeOK', Accounted', NEW S \in SUBSET Msg,
         submitted \subseteq submitted', submitted' \subseteq submitted \cup S,
         S \cap (Answered \cup Lost) = {},
         \/ Answered' = Answered \cup S /\ Lost' = Lost
         \/ Answered' = Answered /\ Lost' = Lost \cup S
         \/ Answered' = Answered /\ Lost' = Lost /\ S = {}
         \/ /\ Answered' = Answered /\ Lost' = Lost
            /\ submitted' = submitted \cup S /\ S \cap submitted = {}
  PROVE  [Service!Next]_ServiceStatus
<1>1. /\ ServiceStatus = SeenBy(Answered, Lost, submitted)
      /\ ServiceStatus' = SeenBy(Answered', Lost', submitted')
  BY StatusBySets, StatusBySetsNext
<1>2. \A m \in S : ServiceStatus[m] \in {"new", "accepted"}
  BY <1>1 DEF SeenBy
<1>3. CASE S = {}
  <2>1. ServiceStatus' = ServiceStatus
    BY <1>1, <1>3 DEF SeenBy
  <2> QED BY <2>1
<1>4. CASE S # {} /\ Answered' = Answered \cup S /\ Lost' = Lost
  <2>1. ServiceStatus' = [m \in Msg |-> IF m \in S THEN "answered" ELSE ServiceStatus[m]]
    BY <1>1, <1>4 DEF SeenBy
  <2>2. Service!Answer(S)
    BY <1>2, <1>4, <2>1 DEF Service!Answer, Service!Move
  <2> QED BY <2>2 DEF Service!Next
<1>5. CASE S # {} /\ Answered' = Answered /\ Lost' = Lost \cup S
  <2>1. ServiceStatus' = [m \in Msg |-> IF m \in S THEN "lost" ELSE ServiceStatus[m]]
    BY <1>1, <1>5 DEF SeenBy
  <2>2. Service!Lose(S)
    BY <1>2, <1>5, <2>1 DEF Service!Lose, Service!Move
  <2> QED BY <2>2 DEF Service!Next
<1>6. CASE /\ S # {} /\ Answered' = Answered /\ Lost' = Lost
           /\ submitted' = submitted \cup S /\ S \cap submitted = {}
  <2>1. ServiceStatus' = [m \in Msg |-> IF m \in S THEN "accepted" ELSE ServiceStatus[m]]
    BY <1>1, <1>6 DEF SeenBy
  <2>2. \A m \in S : ServiceStatus[m] \in {"new"}
    BY <1>1, <1>6 DEF SeenBy
  <2>3. Service!Accept(S)
    BY <1>6, <2>1, <2>2 DEF Service!Accept, Service!Move
  <2> QED BY <2>3 DEF Service!Next
<1> QED BY <1>3, <1>4, <1>5, <1>6

LEMMA ServiceInit == Init => Service!Init
<1> SUFFICES ASSUME Init
             PROVE  Service!Init
  OBVIOUS
<1>1. Accounted
  BY AccountedInit
<1>2. TypeOK
  BY TypeInit DEF TypeInv
<1>3. Answered = {} /\ Lost = {} /\ submitted = {}
  BY DEF Init, Answered, Lost
<1> QED BY <1>1, <1>2, <1>3, StatusBySets DEF Service!Init, SeenBy

LEMMA ServiceStep ==
  TypeOK /\ Accounted /\ TypeOK' /\ Accounted' /\ [Next]_linkVars
    => [Service!Next]_ServiceStatus
<1> SUFFICES ASSUME TypeOK, Accounted, TypeOK', Accounted', [Next]_linkVars
             PROVE  [Service!Next]_ServiceStatus
  OBVIOUS
<1>1. CASE UNCHANGED history
  <2>1. Answered' = Answered /\ Lost' = Lost /\ submitted' = submitted
    BY <1>1 DEF history, Answered, Lost
  <2> DEFINE S == {}
  <2>2. S \in SUBSET Msg /\ S = {}
    OBVIOUS
  <2> HIDE DEF S
  <2> QED BY <2>1, <2>2, ServiceMove
<1>2. ASSUME NEW D \in SUBSET userData, Take(D),
             NEW by \in {"response", "timeout", "refused"}, NEW of \in Msg \cup {NoMsg},
             Tell({u.msg : u \in D}, by, of),
             UNCHANGED <<submitted, shadowed, discarded>>
      PROVE  [Service!Next]_ServiceStatus
  <2> DEFINE S == {u.msg : u \in D}
  <2>1. S \in SUBSET Msg /\ S \cap (Answered \cup Lost) = {} /\ Tell(S, by, of)
    BY <1>2 DEF TypeOK, Accounted, Waiting
  <2> HIDE DEF S
  <2>2. S \cap Answered = {} /\ \A m \in Msg : Len(answers[m]) <= 1
    BY <2>1 DEF Accounted
  <2>3. Answered' = Answered \cup S
    <3>1. answers \in [Msg -> Seq(Answer)]
      BY DEF TypeOK
    <3> QED BY <1>2, <2>1, <2>2, <3>1, TellOnce
  <2>4. Lost' = Lost
    BY <1>2 DEF Lost
  <2> QED BY <1>2, <2>1, <2>3, <2>4, ServiceMove
<1>3. ASSUME NEW D \in SUBSET userData,
             discarded' = discarded \cup {u.msg : u \in D},
             UNCHANGED <<submitted, shadowed, answers>>
      PROVE  [Service!Next]_ServiceStatus
  <2> DEFINE S == {u.msg : u \in D}
  <2>1. S \in SUBSET Msg /\ S \cap (Answered \cup Lost) = {}
    BY DEF TypeOK, Accounted, Waiting
  <2>2. Lost' = Lost \cup S
    BY <1>3 DEF Lost
  <2>3. Answered' = Answered
    BY <1>3 DEF Answered
  <2> HIDE DEF S
  <2> QED BY <1>3, <2>1, <2>2, <2>3, ServiceMove
<1>4. ASSUME NEW p \in Peer, OnTimer(p)
      PROVE  [Service!Next]_ServiceStatus
  <2> DEFINE D == DueData(p)
  <2>1. D \in SUBSET userData
    BY DEF DueData, Entries
  <2>2. /\ Take(D) /\ Tell({u.msg : u \in D}, "timeout", NoMsg)
        /\ UNCHANGED <<submitted, shadowed, discarded>>
    BY <1>4 DEF OnTimer
  <2> HIDE DEF D
  <2> QED BY <1>2, <2>1, <2>2
<1>5. ASSUME NEW r \in wire, OnResponse(r)
      PROVE  [Service!Next]_ServiceStatus
  <2> PICK D \in SUBSET userData, of \in Msg :
        /\ Take(D) /\ UNCHANGED <<submitted, shadowed>>
        /\ \/ Tell({u.msg : u \in D}, "response", of) /\ UNCHANGED discarded
           \/ discarded' = discarded \cup {u.msg : u \in D} /\ UNCHANGED answers
    BY <1>5, ResponseOutcome
  <2> QED BY <1>2, <1>3
<1>6. ASSUME NEW m \in Msg, Send(m)
      PROVE  [Service!Next]_ServiceStatus
  <2> DEFINE S == {m}
  <2>1. /\ m \notin submitted /\ submitted' = submitted \cup {m} /\ UNCHANGED discarded
        /\ \/ Refuse(m)
           \/ /\ \E u : u.msg = m /\ userData' = userData \cup {u}
              /\ UNCHANGED <<answers, shadowed>>
           \/ /\ shadowed' = shadowed \cup {m}
              /\ UNCHANGED <<answers, userData>>
    BY <1>6, SendOutcome
  <2>2. /\ S \in SUBSET Msg /\ submitted' = submitted \cup S /\ S \cap submitted = {}
        /\ S \cap (Answered \cup Lost) = {}
    BY <2>1 DEF Accounted
  <2>3. CASE Refuse(m)
    <3>1. Tell(S, "refused", NoMsg) /\ UNCHANGED shadowed
      BY <2>3 DEF Refuse
    <3>2. S \cap Answered = {} /\ \A q \in Msg : Len(answers[q]) <= 1
      BY <2>2 DEF Accounted
    <3> HIDE DEF S
    <3>3. Answered' = Answered \cup S
      BY <2>2, <3>1, <3>2, TellOnce DEF TypeOK
    <3>4. Lost' = Lost
      BY <2>1, <3>1 DEF Lost
    <3> QED BY <2>2, <3>3, <3>4, ServiceMove
  <2>4. CASE UNCHANGED <<answers, shadowed>>
    <3>1. Answered' = Answered /\ Lost' = Lost
      BY <2>1, <2>4 DEF Answered, Lost
    <3> HIDE DEF S
    <3> QED BY <2>2, <3>1, ServiceMove
  <2>5. CASE shadowed' = shadowed \cup {m} /\ UNCHANGED answers
    <3>1. Answered' = Answered /\ Lost' = Lost \cup S
      BY <2>1, <2>5 DEF Answered, Lost
    <3> HIDE DEF S
    <3> QED BY <2>2, <3>1, ServiceMove
  <2> QED BY <2>1, <2>3, <2>4, <2>5
<1>7. CASE \/ \E p \in Peer : LinkStep(p) \/ OnBind(p) \/ OnSessionClose(p)
           \/ SendTerminates \/ UNCHANGED linkVars
  BY <1>1, <1>7 DEF LinkStep, OnBind, OnSessionClose, SendTerminates, linkVars
<1> QED BY <1>4, <1>5, <1>6, <1>7 DEF Next

(* The handlers of the link implement RequestReply: a submit is accepted   *)
(* once, answered at most once, and no answer follows after it was lost.   *)
THEOREM LinkImplementsService == SafeSpec => SubmitService
<1>1. SafeSpec => [](TypeOK /\ Accounted)
  BY TypeCorrect, SubmitsAccounted, PTL
<1>2. SafeSpec => [][Service!Next]_ServiceStatus
  BY <1>1, ServiceStep, PTL DEF SafeSpec
<1> QED BY <1>2, ServiceInit, PTL DEF SafeSpec, SubmitService, Service!SafeSpec

-----------------------------------------------------------------------------
(* The router's targets and the list of bound p_clients are kept in step.  *)

NoTargetTwice == \A i, j \in 1 .. Len(targets) : targets[i] = targets[j] => i = j

ListedNames == {n \in Name : clients[n] # NoPeer}

TargetsInv == Targets = ListedNames /\ NoTargetTwice

(* A list without repetitions is as long as the set of its elements.       *)
LEMMA NoTwiceLength ==
  ASSUME targets \in Seq(Name), NoTargetTwice
  PROVE  IsFiniteSet(Targets) /\ Len(targets) = Cardinality(Targets)
<1> DEFINE I == 1 .. Len(targets)
           f == [i \in I |-> targets[i]]
<1>1. Len(targets) \in Nat
  BY LenProperties
<1>2. IsFiniteSet(I) /\ Cardinality(I) = Len(targets)
  BY <1>1, FS_Interval
<1>3. f \in Bijection(I, Targets)
  BY DEF NoTargetTwice, Targets, Bijection, Injection, Surjection, IsInjective
<1>4. ExistsBijection(I, Targets)
  BY <1>3 DEF ExistsBijection
<1> HIDE DEF I
<1> QED BY <1>2, <1>4, FS_Bijection

\* What add_target and remove_target make of the list t.
Inserted(t, k, n) == SubSeq(t, 1, k) \o <<n>> \o SubSeq(t, k + 1, Len(t))
Erased(t, k)      == SubSeq(t, 1, k - 1) \o SubSeq(t, k + 1, Len(t))

(* The insertion of add_target moves what follows by one place.            *)
LEMMA InsertedAt ==
  ASSUME NEW t \in Seq(Name), NEW n \in Name, NEW k \in 0 .. Len(t)
  PROVE  /\ Len(Inserted(t, k, n)) = Len(t) + 1
         /\ \A i \in 1 .. Len(t) + 1 :
              Inserted(t, k, n)[i] = IF i <= k THEN t[i]
                                     ELSE IF i = k + 1 THEN n ELSE t[i - 1]
<1> DEFINE front == SubSeq(t, 1, k)
           back  == SubSeq(t, k + 1, Len(t))
           mid   == front \o <<n>>
           u     == Inserted(t, k, n)
<1>0. Len(t) \in Nat /\ \A j \in 1 .. Len(t) : t[j] \in Name
  BY LenProperties, ElementOfSeq
<1>1. front \in Seq(Name) /\ Len(front) = k /\ \A i \in 1 .. k : front[i] = t[i]
  BY <1>0, SubSeqProperties
<1>2. /\ back \in Seq(Name) /\ Len(back) = Len(t) - k
      /\ \A i \in 1 .. Len(t) - k : back[i] = t[k + i]
  BY <1>0, SubSeqProperties
<1>3. <<n>> \in Seq(Name) /\ Len(<<n>>) = 1 /\ <<n>>[1] = n
  OBVIOUS
<1>4. u = mid \o back
  BY DEF Inserted
<1> HIDE DEF u, front, back
<1>5. /\ mid \in Seq(Name) /\ Len(mid) = k + 1
      /\ \A i \in 1 .. k + 1 : mid[i] = IF i <= k THEN front[i] ELSE <<n>>[i - k]
  BY <1>1, <1>3, ConcatProperties
<1> HIDE DEF mid
<1>6. \A i \in 1 .. k : mid[i] = t[i]
  BY <1>0, <1>1, <1>5
<1>7. mid[k + 1] = n
  <2>1. k + 1 \in 1 .. k + 1 /\ ~ (k + 1 <= k) /\ (k + 1) - k = 1
    BY <1>0
  <2>2. mid[k + 1] = <<n>>[(k + 1) - k]
    BY <1>5, <2>1
  <2> QED BY <1>3, <2>1, <2>2
<1>8. /\ Len(u) = Len(mid) + Len(back)
      /\ \A i \in 1 .. Len(mid) + Len(back) :
           u[i] = IF i <= Len(mid) THEN mid[i] ELSE back[i - Len(mid)]
  BY <1>2, <1>4, <1>5, ConcatProperties
<1>9. Len(u) = Len(t) + 1
  BY <1>0, <1>2, <1>5, <1>8
<1>10. ASSUME NEW i \in 1 .. Len(t) + 1
       PROVE  u[i] = IF i <= k THEN t[i] ELSE IF i = k + 1 THEN n ELSE t[i - 1]
  <2>1. u[i] = IF i <= k + 1 THEN mid[i] ELSE back[i - (k + 1)]
    <3>1. i \in 1 .. Len(mid) + Len(back) /\ Len(mid) = k + 1
      BY <1>0, <1>2, <1>5
    <3> QED BY <1>8, <3>1
  <2>2. CASE i <= k
    BY <1>0, <1>6, <2>1, <2>2
  <2>3. CASE i = k + 1
    BY <1>0, <1>7, <2>1, <2>3
  <2>4. CASE i > k + 1
    <3>1. i - (k + 1) \in 1 .. Len(t) - k /\ k + (i - (k + 1)) = i - 1
      BY <1>0, <2>4
    <3>2. back[i - (k + 1)] = t[k + (i - (k + 1))]
      BY <1>2, <3>1
    <3> QED BY <1>0, <2>1, <2>4, <3>1, <3>2
  <2> QED BY <1>0, <2>2, <2>3, <2>4
<1> QED BY <1>9, <1>10 DEF u

(* router::add_target adds one name, once.                                 *)
LEMMA AddTargetNames ==
  ASSUME targets \in Seq(Name), NoTargetTwice, NEW n \in Name, AddTarget(n)
  PROVE  Targets' = Targets \cup {n} /\ NoTargetTwice'
<1>0. Len(targets) \in Nat
  BY LenProperties
<1>1. CASE n \in Targets
  <2>1. UNCHANGED targets
    BY <1>1, Zenon DEF AddTarget
  <2> QED BY <1>1, <2>1 DEF Targets, NoTargetTwice
<1>2. CASE n \notin Targets
  <2>1. PICK k \in 0 .. Len(targets) : targets' = Inserted(targets, k, n)
    BY <1>2, Zenon DEF AddTarget, Inserted
  <2>2. /\ Len(targets') = Len(targets) + 1
        /\ \A i \in 1 .. Len(targets) + 1 :
              targets'[i] = IF i <= k THEN targets[i]
                            ELSE IF i = k + 1 THEN n ELSE targets[i - 1]
    BY <2>1, InsertedAt
  <2>3. \A i \in 1 .. Len(targets) : targets[i] # n
    BY <1>2 DEF Targets
  <2>4. NoTargetTwice'
    <3> SUFFICES ASSUME NEW i \in 1 .. Len(targets) + 1, NEW j \in 1 .. Len(targets) + 1,
                        targets'[i] = targets'[j]
                 PROVE  i = j
      BY <2>2 DEF NoTargetTwice
    <3> DEFINE at(x) == IF x <= k THEN x ELSE x - 1
    <3>1. \A x \in {i, j} : x # k + 1 => at(x) \in 1 .. Len(targets)
                                       /\ targets'[x] = targets[at(x)]
      BY <1>0, <2>2
    <3>2. targets'[k + 1] = n
      BY <1>0, <2>2
    <3>3. CASE i = k + 1 \/ j = k + 1
      BY <2>3, <3>1, <3>2, <3>3
    <3>4. CASE i # k + 1 /\ j # k + 1
      <4>1. at(i) = at(j)
        BY <3>1, <3>4 DEF NoTargetTwice
      <4> QED BY <1>0, <3>4, <4>1
    <3> QED BY <3>3, <3>4
  <2>5. \A x \in Targets' : x \in Targets \cup {n}
    <3> SUFFICES ASSUME NEW i \in 1 .. Len(targets')
                 PROVE  targets'[i] \in Targets \cup {n}
      BY DEF Targets
    <3>1. CASE i <= k
      BY <1>0, <2>2, <3>1 DEF Targets
    <3>2. CASE i = k + 1
      BY <1>0, <2>2, <3>2
    <3>3. CASE i > k + 1
      <4>1. i - 1 \in 1 .. Len(targets) /\ targets'[i] = targets[i - 1]
        BY <1>0, <2>2, <3>3
      <4> QED BY <4>1 DEF Targets
    <3> QED BY <3>1, <3>2, <3>3
  <2>6. \A i \in 1 .. Len(targets) : targets[i] \in Targets'
    <3> SUFFICES ASSUME NEW i \in 1 .. Len(targets)
                 PROVE  \E j \in 1 .. Len(targets') : targets'[j] = targets[i]
      BY DEF Targets
    <3>1. CASE i <= k
      <4>1. i \in 1 .. Len(targets')
        BY <1>0, <2>2
      <4> QED BY <1>0, <2>2, <3>1, <4>1
    <3>2. CASE i > k
      <4>1. i + 1 \in 1 .. Len(targets') /\ targets'[i + 1] = targets[i]
        BY <1>0, <2>2, <3>2
      <4> QED BY <4>1
    <3> QED BY <3>1, <3>2
  <2>7. n \in Targets'
    <3>1. k + 1 \in 1 .. Len(targets') /\ targets'[k + 1] = n
      BY <1>0, <2>2
    <3> QED BY <3>1 DEF Targets
  <2>8. Targets \subseteq Targets'
    BY <2>6 DEF Targets
  <2> QED BY <2>4, <2>5, <2>7, <2>8
<1> QED BY <1>1, <1>2

(* The erasure of remove_target closes the gap.                            *)
LEMMA ErasedAt ==
  ASSUME NEW t \in Seq(Name), NEW k \in 1 .. Len(t)
  PROVE  /\ Len(Erased(t, k)) = Len(t) - 1
         /\ \A i \in 1 .. Len(t) - 1 : Erased(t, k)[i] = IF i < k THEN t[i] ELSE t[i + 1]
<1> DEFINE front == SubSeq(t, 1, k - 1)
           back  == SubSeq(t, k + 1, Len(t))
           u     == Erased(t, k)
<1>0. Len(t) \in Nat /\ \A j \in 1 .. Len(t) : t[j] \in Name
  BY LenProperties, ElementOfSeq
<1>1. front \in Seq(Name) /\ Len(front) = k - 1 /\ \A i \in 1 .. k - 1 : front[i] = t[i]
  BY <1>0, SubSeqProperties
<1>2. /\ back \in Seq(Name) /\ Len(back) = Len(t) - k
      /\ \A i \in 1 .. Len(t) - k : back[i] = t[k + i]
  BY <1>0, SubSeqProperties
<1>3. u = front \o back
  BY DEF Erased
<1> HIDE DEF u, front, back
<1>4. /\ Len(u) = Len(front) + Len(back)
      /\ \A i \in 1 .. Len(front) + Len(back) :
           u[i] = IF i <= Len(front) THEN front[i] ELSE back[i - Len(front)]
  BY <1>1, <1>2, <1>3, ConcatProperties
<1>5. Len(u) = Len(t) - 1
  BY <1>0, <1>1, <1>2, <1>4
<1>6. ASSUME NEW i \in 1 .. Len(t) - 1
      PROVE  u[i] = IF i < k THEN t[i] ELSE t[i + 1]
  <2>1. u[i] = IF i <= k - 1 THEN front[i] ELSE back[i - (k - 1)]
    <3>1. i \in 1 .. Len(front) + Len(back) /\ Len(front) = k - 1
      BY <1>0, <1>1, <1>2
    <3> QED BY <1>4, <3>1
  <2>2. CASE i < k
    BY <1>0, <1>1, <2>1, <2>2
  <2>3. CASE i >= k
    <3>1. i - (k - 1) \in 1 .. Len(t) - k /\ k + (i - (k - 1)) = i + 1
      BY <1>0, <2>3
    <3>2. back[i - (k - 1)] = t[k + (i - (k - 1))]
      BY <1>2, <3>1
    <3> QED BY <1>0, <2>1, <2>3, <3>1, <3>2
  <2> QED BY <1>0, <2>2, <2>3
<1> QED BY <1>5, <1>6 DEF u

(* router::remove_target takes the name out, for there is only one of it.  *)
LEMMA EraseTargetNames ==
  ASSUME targets \in Seq(Name), NoTargetTwice, NEW n, EraseTarget(n)
  PROVE  Targets' = Targets \ {n} /\ NoTargetTwice'
<1>0. Len(targets) \in Nat
  BY LenProperties
<1>1. CASE n \notin Targets /\ UNCHANGED targets
  BY <1>1 DEF Targets, NoTargetTwice
<1>2. ASSUME NEW k \in 1 .. Len(targets), targets[k] = n, targets' = Erased(targets, k)
      PROVE  Targets' = Targets \ {n} /\ NoTargetTwice'
  <2>1. /\ Len(targets') = Len(targets) - 1
        /\ \A i \in 1 .. Len(targets) - 1 :
             targets'[i] = IF i < k THEN targets[i] ELSE targets[i + 1]
    BY <1>2, ErasedAt
  <2>2. \A i \in 1 .. Len(targets) : i # k => targets[i] # n
    BY <1>2 DEF NoTargetTwice
  <2>3. NoTargetTwice'
    BY <1>0, <2>1 DEF NoTargetTwice
  <2>4. \A x \in Targets' : x \in Targets \ {n}
    <3> SUFFICES ASSUME NEW i \in 1 .. Len(targets')
                 PROVE  targets'[i] \in Targets \ {n}
      BY DEF Targets
    <3>1. CASE i < k
      <4>1. i \in 1 .. Len(targets) /\ i # k /\ targets'[i] = targets[i]
        BY <1>0, <2>1, <3>1
      <4> QED BY <2>2, <4>1 DEF Targets
    <3>2. CASE i >= k
      <4>1. /\ i + 1 \in 1 .. Len(targets) /\ i + 1 # k
            /\ targets'[i] = targets[i + 1]
        BY <1>0, <2>1, <3>2
      <4> QED BY <2>2, <4>1 DEF Targets
    <3> QED BY <3>1, <3>2
  <2>5. \A i \in 1 .. Len(targets) : i # k => targets[i] \in Targets'
    <3> SUFFICES ASSUME NEW i \in 1 .. Len(targets), i # k
                 PROVE  \E j \in 1 .. Len(targets') : targets'[j] = targets[i]
      BY DEF Targets
    <3>1. CASE i < k
      <4>1. i \in 1 .. Len(targets')
        BY <1>0, <2>1, <3>1
      <4> QED BY <1>0, <2>1, <3>1, <4>1
    <3>2. CASE i > k
      <4>1. i - 1 \in 1 .. Len(targets') /\ (i - 1) + 1 = i /\ ~ (i - 1 < k)
        BY <1>0, <2>1, <3>2
      <4>2. targets'[i - 1] = targets[i]
        BY <2>1, <4>1
      <4> QED BY <4>1, <4>2
    <3> QED BY <3>1, <3>2
  <2>6. Targets \ {n} \subseteq Targets'
    BY <1>2, <2>5 DEF Targets
  <2> QED BY <2>3, <2>4, <2>6
<1> QED BY <1>1, <1>2 DEF EraseTarget, Erased

LEMMA TargetsStep ==
  ASSUME TypeOK, ConnInv, TargetsInv, [Next]_linkVars
  PROVE  TargetsInv'
<1>1. targets \in Seq(Name) /\ ListTypeOK
  BY DEF TypeOK
<1>2. CASE UNCHANGED <<targets, clients>>
  BY <1>2 DEF TargetsInv, Targets, ListedNames, NoTargetTwice
<1>3. ASSUME NEW p \in Peer, OnBind(p)
      PROVE  TargetsInv'
  <2>1. PICK n \in Names[p] : ListBind(p, n) /\ AddTarget(n)
    BY <1>3 DEF OnBind
  <2>2. n \in Name /\ p # NoPeer
    BY <2>1, ListAssumption
  <2>3. Targets' = Targets \cup {n} /\ NoTargetTwice'
    BY <1>1, <2>1, <2>2, AddTargetNames DEF TargetsInv
  <2>4. clients' = [clients EXCEPT ![n] = IF @ = NoPeer THEN p ELSE @]
    BY <2>1 DEF ListBind
  <2>5. ListedNames' = ListedNames \cup {n}
    BY <1>1, <2>2, <2>4 DEF ListedNames, ListTypeOK
  <2> QED BY <2>3, <2>5 DEF TargetsInv
<1>4. ASSUME NEW p \in Peer, OnSessionClose(p)
      PROVE  TargetsInv'
  <2>1. ListClose(p) /\ EraseTarget(server[p])
    BY <1>4 DEF OnSessionClose, RemoveTarget
  <2>2. Targets' = Targets \ {server[p]} /\ NoTargetTwice'
    BY <1>1, <2>1, EraseTargetNames DEF TargetsInv
  <2>3. clients' = [clients EXCEPT ![server[p]] = NoPeer]
    BY <2>1 DEF ListClose
  <2>4. ListedNames' = ListedNames \ {server[p]}
    BY <1>1, <2>3 DEF ListedNames, ListTypeOK
  <2> QED BY <2>2, <2>4 DEF TargetsInv
<1>5. ASSUME NEW p \in Peer, LinkStep(p)
      PROVE  TargetsInv'
  <2>1. UNCHANGED <<targets, clients>>
    BY <1>5 DEF LinkStep, router, ListStep, Connect, ConnectFails, Retry, BindAccepted,
            BindFails, PeerUnbind, SessionClose
  <2> QED BY <1>2, <2>1
<1>6. ASSUME NEW m \in Msg, Send(m)
      PROVE  TargetsInv'
  <2>1. UNCHANGED targets
    BY <1>6 DEF Send, Find, router
  <2>2. UNCHANGED clients
    BY <1>6 DEF Send, NoClient, listVars, SendVia, ListSend, ListSendFails
  <2> QED BY <1>2, <2>1, <2>2
<1>7. CASE \/ \E p \in Peer : OnTimer(p)
           \/ \E r \in wire : OnResponse(r)
           \/ SendTerminates \/ UNCHANGED linkVars
  BY <1>2, <1>7 DEF OnTimer, ListTimer, OnResponse, ListResponse, SendTerminates, linkVars,
     listVars, router
<1> QED BY <1>3, <1>4, <1>5, <1>6, <1>7 DEF Next

(* A submit is routed to clients that p_client_list has, each of them once *)
(* in the router's list, whatever the order of binds and closes.           *)
THEOREM TargetsKeptInStep == SafeSpec => []TargetsAreClients
<1>1. Init => TargetsInv
  <2> SUFFICES ASSUME Init
               PROVE  TargetsInv
    OBVIOUS
  <2>1. targets = << >> /\ Len(targets) = 0
    BY EmptySeq DEF Init
  <2>2. \A n \in Name : clients[n] = NoPeer
    BY DEF Init, ListInit
  <2> QED BY <2>1, <2>2 DEF TargetsInv, Targets, ListedNames, NoTargetTwice
<1>2. TypeOK /\ TargetsInv => TargetsAreClients
  BY NoTwiceLength DEF TypeOK, TargetsInv, TargetsAreClients, ListedNames
<1> QED BY <1>1, <1>2, ConnCorrect, TypeCorrect, TargetsStep, PTL DEF SafeSpec

-----------------------------------------------------------------------------
(* The gauges.                                                             *)

\* What they count is finite.
GaugeInv == Gauges /\ IsFiniteSet(Bound) /\ IsFiniteSet(shadowed)

(* What leaves user_data_ leaves wait_for_resp_.                           *)
LEMMA TakeGauge ==
  ASSUME IsFiniteSet(userData), IsFiniteSet(shadowed), NEW D \in SUBSET userData, Take(D),
         waiting = Cardinality(userData) + Cardinality(shadowed), UNCHANGED shadowed
  PROVE  waiting' = Cardinality(userData') + Cardinality(shadowed')
<1>1. IsFiniteSet(D) /\ userData \cap D = D
  BY FS_Subset
<1>2. Cardinality(userData \ D) = Cardinality(userData) - Cardinality(D)
  BY <1>1, FS_Difference
<1>3. Cardinality(userData) \in Nat /\ Cardinality(D) \in Nat /\ Cardinality(shadowed) \in Nat
  BY <1>1, FS_CardinalityType
<1>4. userData' = userData \ D /\ waiting' = waiting - Cardinality(D)
  BY DEF Take
<1>5. Cardinality(userData') = Cardinality(userData) - Cardinality(D)
  BY <1>2, <1>4
<1> QED BY <1>1, <1>3, <1>4, <1>5

(* A submit that was sent is counted, also when its key was taken.         *)
LEMMA RememberGauge ==
  ASSUME Accounted, IsFiniteSet(userData), IsFiniteSet(shadowed),
         NEW k, NEW n, NEW m, m \notin submitted, Remember(k, n, m),
         waiting = Cardinality(userData) + Cardinality(shadowed)
  PROVE  /\ waiting' = Cardinality(userData') + Cardinality(shadowed')
         /\ IsFiniteSet(shadowed')
<1> DEFINE u == [key |-> k, name |-> n, msg |-> m]
<1>1. /\ Cardinality(userData) \in Nat /\ Cardinality(shadowed) \in Nat
      /\ waiting' = waiting + 1
  BY FS_CardinalityType DEF Remember
<1>2. CASE Entries(k, n) = {}
  <2>1. userData' = userData \cup {u} /\ UNCHANGED shadowed
    BY <1>2 DEF Remember
  <2>2. u \notin userData
    <3>1. m \notin Waiting
      BY DEF Accounted
    <3> QED BY <3>1 DEF Waiting
  <2> HIDE DEF u
  <2>3. Cardinality(userData \cup {u}) = Cardinality(userData) + 1
    BY <2>2, FS_AddElement
  <2> QED BY <1>1, <2>1, <2>3
<1>3. CASE Entries(k, n) # {}
  <2>1. shadowed' = shadowed \cup {m} /\ UNCHANGED userData
    BY <1>3 DEF Remember
  <2>2. m \notin shadowed
    BY DEF Accounted, Lost
  <2>3. /\ Cardinality(shadowed \cup {m}) = Cardinality(shadowed) + 1
        /\ IsFiniteSet(shadowed \cup {m})
    BY <2>2, FS_AddElement
  <2> QED BY <1>1, <2>1, <2>3
<1> QED BY <1>2, <1>3

LEMMA GaugeStep ==
  ASSUME TypeInv, Accounted, GaugeInv, [Next]_linkVars
  PROVE  GaugeInv'
<1>1. /\ ListTypeOK /\ IsFiniteSet(userData)
      /\ IsFiniteSet(Bound) /\ IsFiniteSet(shadowed)
      /\ connected = Cardinality(Bound) /\ Cardinality(Bound) \in Nat
      /\ waiting = Cardinality(userData) + Cardinality(shadowed)
  BY FS_CardinalityType DEF TypeInv, TypeOK, GaugeInv, Gauges
<1>2. ASSUME Bound' = Bound, UNCHANGED connected,
             waiting' = Cardinality(userData') + Cardinality(shadowed'),
             IsFiniteSet(shadowed')
      PROVE  GaugeInv'
  BY <1>1, <1>2 DEF GaugeInv, Gauges
<1>3. ASSUME NEW p \in Peer, LinkStep(p)
      PROVE  GaugeInv'
  <2>1. Bound' = Bound
    BY <1>1, <1>3 DEF LinkStep, ListStep, Connect, ConnectFails, Retry, BindAccepted,
            BindFails, PeerUnbind, SessionClose, Bound, ListTypeOK
  <2>2. UNCHANGED <<userData, shadowed, waiting, connected>>
    BY <1>3 DEF LinkStep, history
  <2> QED BY <1>1, <1>2, <2>1, <2>2
<1>4. ASSUME NEW p \in Peer, OnBind(p)
      PROVE  GaugeInv'
  <2>1. p \notin Bound /\ Bound' = Bound \cup {p}
    BY <1>1, <1>4 DEF OnBind, ListBind, Bound, ListTypeOK
  <2>2. /\ IsFiniteSet(Bound \cup {p})
        /\ Cardinality(Bound \cup {p}) = Cardinality(Bound) + 1
    BY <1>1, <2>1, FS_AddElement
  <2>3. UNCHANGED <<userData, shadowed, waiting>> /\ connected' = connected + 1
    BY <1>4 DEF OnBind, history
  <2> QED BY <1>1, <2>1, <2>2, <2>3 DEF GaugeInv, Gauges
<1>5. ASSUME NEW p \in Peer, OnSessionClose(p)
      PROVE  GaugeInv'
  <2>1. p \in Bound /\ Bound' = Bound \ {p}
    BY <1>1, <1>5 DEF OnSessionClose, ListClose, Bound, ListTypeOK
  <2>2. /\ IsFiniteSet(Bound \ {p})
        /\ Cardinality(Bound \ {p}) = Cardinality(Bound) - 1
    BY <1>1, <2>1, FS_RemoveElement
  <2>3. UNCHANGED <<userData, shadowed, waiting>> /\ connected' = connected - 1
    BY <1>5 DEF OnSessionClose, history
  <2> QED BY <1>1, <2>1, <2>2, <2>3 DEF GaugeInv, Gauges
<1>6. ASSUME NEW p \in Peer, OnTimer(p)
      PROVE  GaugeInv'
  <2>1. DueData(p) \in SUBSET userData
    BY DEF DueData, Entries
  <2>2. Take(DueData(p)) /\ UNCHANGED <<connected, shadowed, conn>>
    BY <1>6 DEF OnTimer, ListTimer
  <2>3. Bound' = Bound
    BY <2>2 DEF Bound
  <2> QED BY <1>1, <1>2, <2>1, <2>2, <2>3, TakeGauge
<1>7. ASSUME NEW r \in wire, OnResponse(r)
      PROVE  GaugeInv'
  <2>1. Entries(r.key, server[r.peer]) \in SUBSET userData
    BY DEF Entries
  <2>2. Take(Entries(r.key, server[r.peer])) /\ UNCHANGED <<connected, shadowed, conn>>
    BY <1>7 DEF OnResponse, ListResponse
  <2>3. Bound' = Bound
    BY <2>2 DEF Bound
  <2> QED BY <1>1, <1>2, <2>1, <2>2, <2>3, TakeGauge
<1>8. ASSUME NEW m \in Msg, Send(m)
      PROVE  GaugeInv'
  <2>1. UNCHANGED <<connected, conn>> /\ m \notin submitted
    BY <1>8 DEF Send, NoClient, SendVia, ListSend, ListSendFails, listVars
  <2>2. Bound' = Bound
    BY <2>1 DEF Bound
  <2>3. Refuse(m) \/ \E k, n : Remember(k, n, m)
    BY <1>8 DEF Send, NoClient, SendVia
  <2>4. CASE Refuse(m)
    BY <1>1, <1>2, <2>1, <2>2, <2>4 DEF Refuse
  <2>5. CASE \E k, n : Remember(k, n, m)
    BY <1>1, <1>2, <2>1, <2>2, <2>5, RememberGauge
  <2> QED BY <2>3, <2>4, <2>5
<1>9. CASE SendTerminates \/ UNCHANGED linkVars
  <2>1. Bound' = Bound
    BY <1>9 DEF SendTerminates, linkVars, listVars, Bound
  <2> QED BY <1>1, <1>2, <1>9, <2>1 DEF SendTerminates, linkVars, history
<1> QED BY <1>3, <1>4, <1>5, <1>6, <1>7, <1>8, <1>9 DEF Next

(* connected_clients_ counts the bound p_clients, also with several p_clients
   of one name; wait_for_resp_ drifts by exactly the submits whose key was
   taken: send, receive_response and the session handlers keep the books.  *)
THEOREM GaugesCount == SafeSpec => []Gauges
<1>1. Init => GaugeInv
  <2> SUFFICES ASSUME Init
               PROVE  GaugeInv
    OBVIOUS
  <2>1. Bound = {} /\ userData = {} /\ shadowed = {} /\ connected = 0 /\ waiting = 0
    BY DEF Init, ListInit, Bound
  <2>2. IsFiniteSet({}) /\ Cardinality({}) = 0
    BY FS_EmptySet
  <2> QED BY <2>1, <2>2 DEF GaugeInv, Gauges
<1>2. GaugeInv => Gauges
  BY DEF GaugeInv
<1> QED BY <1>1, <1>2, TypeInit, TypeStep, SubmitsAccounted, GaugeStep, PTL DEF SafeSpec

-----------------------------------------------------------------------------
(* How a submit can be answered with the response of another one.          *)

\* What a server may answer was sent on the session it has now.
WireInv == \A r \in wire :
  /\ conn[r.peer] \in {"open", "unbinding"}
  /\ r.key <= seq[r.peer]

\* What a response on its way would find is its own submit, or its own submit
\* found the key taken.
FindsOwn == \A r \in wire : \A u \in userData :
  u.key = r.key /\ u.name = server[r.peer] => u.msg = r.msg \/ r.msg \in shadowed

MixInv == OwnNames => WireInv /\ FindsOwn /\ MixedOnlyByKey

NoWrap == \A p \in Peer : seq[p] # 0 => seq'[p] # 0

Mixed == \A m \in Msg : \A i \in 1 .. Len(answers[m]) :
           answers[m][i].of \in {NoMsg, m} \cup shadowed

\* One answer to a submit that had none.
LEMMA TellMixed ==
  ASSUME TypeOK, Mixed, NEW S \in SUBSET Msg, S \cap Answered = {},
         NEW by \in {"response", "timeout", "refused"}, NEW of \in Msg \cup {NoMsg},
         \A m \in S : of \in {NoMsg, m} \cup shadowed,
         Tell(S, by, of), shadowed \subseteq shadowed'
  PROVE  Mixed'
<1> DEFINE r == [by |-> by, of |-> of]
<1>1. r \in Answer /\ r.of = of
  BY DEF Answer
<1>2. \A m \in S : answers[m] = << >>
  BY DEF Answered
<1>3. \A m \in S : answers'[m] = Append(<< >>, r)
  BY <1>2 DEF Tell
<1>4. \A m \in Msg \ S : answers'[m] = answers[m]
  BY DEF Tell
<1> HIDE DEF r
<1>5. Len(Append(<< >>, r)) = 1 /\ Append(<< >>, r)[1] = r
  BY <1>1, EmptySeq, AppendProperties
<1>6. \A m \in S : Len(answers'[m]) = 1 /\ answers'[m][1].of = of
  BY <1>1, <1>3, <1>5
<1>7. ASSUME NEW m \in S
      PROVE  \A i \in 1 .. Len(answers'[m]) : answers'[m][i].of \in {NoMsg, m} \cup shadowed'
  BY <1>6, <1>7
<1>8. ASSUME NEW m \in Msg \ S
      PROVE  \A i \in 1 .. Len(answers'[m]) : answers'[m][i].of \in {NoMsg, m} \cup shadowed'
  BY <1>4, <1>8 DEF Mixed
<1> QED BY <1>7, <1>8 DEF Mixed

\* A bound session's name is that of no other one.
LEMMA OwnServer ==
  ASSUME ConnInv, OwnNames, NEW p \in Bound, NEW q \in Bound, server[p] = server[q]
  PROVE  p = q
BY DEF ConnInv, ServersNamed, OwnNames, Bound

\* send(): the new number is above all that were sent on this session.
LEMMA SendMix ==
  ASSUME ConnInv, TypeOK, Accounted, OwnNames, WireInv, FindsOwn, Mixed, NoWrap,
         NEW m \in Msg, Send(m)
  PROVE  WireInv' /\ FindsOwn' /\ Mixed'
<1>1. ListTypeOK /\ m \notin Answered
  <2>1. m \notin submitted
    BY DEF Send
  <2> QED BY <2>1 DEF TypeOK, Accounted
<1>2. ASSUME Refuse(m)
      PROVE  Mixed' /\ UNCHANGED <<userData, shadowed>>
  <2> DEFINE S == {m}
  <2>1. S \in SUBSET Msg /\ S \cap Answered = {} /\ Tell(S, "refused", NoMsg)
    BY <1>1, <1>2 DEF Refuse
  <2>2. UNCHANGED <<userData, shadowed>>
    BY <1>2 DEF Refuse
  <2> HIDE DEF S
  <2> QED BY <2>1, <2>2, TellMixed
<1> PICK method \in Methods, n \in Name \cup {NoName} :
      NoClient(n, m) \/ \E p \in Peer : p = ClientOf(n) /\ SendVia(p, n, m)
  BY DEF Send
<1>3. CASE NoClient(n, m)
  <2>1. Refuse(m) /\ UNCHANGED <<conn, seq, server, wire>>
    BY <1>3 DEF NoClient, listVars
  <2> QED BY <1>2, <2>1 DEF WireInv, FindsOwn
<1>4. ASSUME NEW p \in Peer, p = ClientOf(n), ListSendFails(p), Refuse(m)
      PROVE  WireInv' /\ FindsOwn' /\ Mixed'
  <2>1. UNCHANGED <<conn, server, wire>> /\ seq' = [seq EXCEPT ![p] = NextSeq(p)]
    BY <1>4 DEF ListSendFails
  <2>2. NextSeq(p) >= seq[p]
    BY <1>1, <2>1, ListAssumption DEF NextSeq, NoWrap, ListTypeOK
  <2>3. \A r \in wire : seq'[r.peer] >= seq[r.peer] /\ r.key \in Int
    BY <1>1, <2>1, <2>2 DEF ListTypeOK
  <2>4. WireInv'
    BY <1>1, <2>1, <2>2, <2>3, NextSeqType DEF WireInv, ListTypeOK
  <2> QED BY <1>2, <1>4, <2>1, <2>4 DEF FindsOwn
<1>5. ASSUME NEW p \in Peer, p = ClientOf(n), SendVia(p, n, m), ListSend(p, m)
      PROVE  WireInv' /\ FindsOwn' /\ Mixed'
  <2> DEFINE k == NextSeq(p)
             x == [peer |-> p, key |-> k, msg |-> m]
             u == [key |-> k, name |-> n, msg |-> m]
  <2>1. n \in Name /\ p \in Bound /\ server[p] = n
    BY <1>5, ListAssumption DEF ConnInv, ClientsUsable
  <2>2. /\ UNCHANGED <<conn, server>> /\ conn[p] = "open"
        /\ seq' = [seq EXCEPT ![p] = k]
        /\ wire' = wire \cup {x}
    BY <1>5 DEF ListSend
  <2>3. /\ k = seq[p] + 1 /\ k \in Int /\ seq[p] \in Int /\ Usable(k)
        /\ \A r \in wire : r.key \in Int
    BY <1>1, <2>2, ListAssumption DEF NextSeq, NoWrap, ListTypeOK, Usable
  <2>4. x.peer = p /\ x.key = k /\ x.msg = m /\ u.key = k /\ u.name = n /\ u.msg = m
    OBVIOUS
  <2>5. Remember(k, n, m) /\ UNCHANGED answers
    BY <1>5, <2>2, <2>3 DEF SendVia, ListSendFails
  <2>6. \/ Entries(k, n) = {} /\ userData' = userData \cup {u} /\ UNCHANGED shadowed
        \/ Entries(k, n) # {} /\ shadowed' = shadowed \cup {m} /\ UNCHANGED userData
    BY <2>5 DEF Remember
  <2> HIDE DEF k, x, u
  <2>7. WireInv'
    <3>1. \A r \in wire : r.peer \in Peer /\ seq'[r.peer] >= seq[r.peer]
                         /\ seq'[r.peer] \in Int /\ seq[r.peer] \in Int
      BY <1>1, <2>2, <2>3 DEF ListTypeOK
    <3>2. seq'[p] = k
      BY <1>1, <2>2 DEF ListTypeOK
    <3>3. \A r \in wire : r.key <= seq'[r.peer]
      BY <2>3, <3>1 DEF WireInv
    <3> QED BY <2>2, <2>3, <2>4, <3>2, <3>3 DEF WireInv
  <2>8. ASSUME NEW r \in wire, r.key = k, server[r.peer] = n
        PROVE  FALSE
    <3>1. r.peer \in Bound
      BY <1>1 DEF WireInv, Bound, ListTypeOK
    <3>2. r.peer = p
      BY <2>1, <2>8, <3>1, OwnServer
    <3> QED BY <2>3, <2>8, <3>2 DEF WireInv
  <2>9. FindsOwn'
    <3>1. ASSUME NEW r \in wire', NEW v \in userData', v.key = r.key, v.name = server[r.peer]
          PROVE  v.msg = r.msg \/ r.msg \in shadowed'
      <4>1. CASE r \in wire /\ v \in userData
        BY <2>6, <3>1, <4>1 DEF FindsOwn
      <4>2. CASE r \in wire /\ v = u
        BY <2>4, <2>8, <3>1, <4>2
      <4>3. CASE r = x /\ v = u
        BY <2>4, <4>3
      <4>4. CASE r = x /\ v \in userData
        <5>1. v \in Entries(k, n)
          BY <2>1, <2>4, <3>1, <4>4 DEF Entries
        <5> QED BY <2>4, <2>6, <4>4, <5>1
      <4> QED BY <2>2, <2>6, <3>1, <4>1, <4>2, <4>3, <4>4
    <3> QED BY <2>2, <3>1 DEF FindsOwn
  <2>10. Mixed'
    BY <2>5, <2>6 DEF Mixed
  <2> QED BY <2>7, <2>9, <2>10
<1> QED BY <1>3, <1>4, <1>5, Zenon DEF SendVia

LEMMA MixStep ==
  ASSUME ConnInv, TypeOK, Accounted, MixInv, [Next]_linkVars, [NoWrap]_seq
  PROVE  MixInv'
<1> SUFFICES ASSUME OwnNames
             PROVE  WireInv' /\ FindsOwn' /\ Mixed'
  BY DEF MixInv, MixedOnlyByKey, Mixed, OwnNames
<1>1. ListTypeOK /\ WireInv /\ FindsOwn /\ Mixed
  BY DEF TypeOK, MixInv, MixedOnlyByKey, Mixed
\* Nothing new is sent, remembered or answered.
<1>2. ASSUME wire' \subseteq wire, userData' \subseteq userData, UNCHANGED <<answers, shadowed>>,
             \A r \in wire' : /\ server'[r.peer] = server[r.peer]
                              /\ conn'[r.peer] \in {"open", "unbinding"}
                              /\ seq'[r.peer] = seq[r.peer]
      PROVE  WireInv' /\ FindsOwn' /\ Mixed'
  <2>1. WireInv'
    BY <1>1, <1>2 DEF WireInv
  <2>2. FindsOwn'
    BY <1>1, <1>2 DEF FindsOwn
  <2>3. Mixed'
    BY <1>1, <1>2 DEF Mixed
  <2> QED BY <2>1, <2>2, <2>3
<1>3. ASSUME NEW p \in Peer, LinkStep(p)
      PROVE  WireInv' /\ FindsOwn' /\ Mixed'
  <2>1. /\ UNCHANGED <<userData, answers, shadowed, server>> /\ wire' \subseteq wire
        /\ \A r \in wire' : /\ conn'[r.peer] \in {"open", "unbinding"}
                            /\ seq'[r.peer] = seq[r.peer]
    BY <1>1, <1>3 DEF LinkStep, ListStep, Connect, ConnectFails, Retry, BindAccepted, BindFails,
            PeerUnbind, SessionClose, history, WireInv, ListTypeOK
  <2> QED BY <1>2, <2>1
<1>4. ASSUME NEW p \in Peer, OnBind(p) \/ OnSessionClose(p)
      PROVE  WireInv' /\ FindsOwn' /\ Mixed'
  <2>1. /\ UNCHANGED <<userData, answers, shadowed, seq, wire>>
        /\ conn[p] \notin {"open", "unbinding"}
        /\ \A q \in Peer \ {p} : conn'[q] = conn[q] /\ server'[q] = server[q]
    BY <1>1, <1>4 DEF OnBind, OnSessionClose, ListBind, ListClose, history, ListTypeOK
  <2>2. \A r \in wire : r.peer \in Peer \ {p}
    BY <1>1, <2>1 DEF WireInv, ListTypeOK
  <2>3. \A r \in wire' : /\ server'[r.peer] = server[r.peer]
                         /\ conn'[r.peer] \in {"open", "unbinding"}
                         /\ seq'[r.peer] = seq[r.peer]
    BY <1>1, <2>1, <2>2 DEF WireInv
  <2> QED BY <1>2, <2>1, <2>3
<1>5. ASSUME NEW p \in Peer, OnTimer(p)
      PROVE  WireInv' /\ FindsOwn' /\ Mixed'
  <2> DEFINE S == {u.msg : u \in DueData(p)}
  <2>1. UNCHANGED <<conn, seq, server, wire, shadowed>> /\ userData' \subseteq userData
    BY <1>5 DEF OnTimer, ListTimer, Take
  <2>2. WireInv' /\ FindsOwn'
    BY <1>1, <2>1 DEF WireInv, FindsOwn
  <2>3. S \in SUBSET Msg /\ S \cap Answered = {} /\ Tell(S, "timeout", NoMsg)
    BY <1>5 DEF OnTimer, DueData, Entries, TypeOK, Accounted, Waiting
  <2> HIDE DEF S
  <2>4. Mixed'
    BY <1>1, <2>1, <2>3, TellMixed
  <2> QED BY <2>2, <2>4
<1>6. ASSUME NEW r \in wire, OnResponse(r)
      PROVE  WireInv' /\ FindsOwn' /\ Mixed'
  <2> DEFINE found == Entries(r.key, server[r.peer])
             S == {u.msg : u \in found}
  <2>1. /\ UNCHANGED <<conn, seq, server, shadowed>>
        /\ wire' \subseteq wire /\ userData' \subseteq userData
    BY <1>6 DEF OnResponse, ListResponse, Take
  <2>2. WireInv' /\ FindsOwn'
    BY <1>1, <2>1 DEF WireInv, FindsOwn
  <2>3. /\ S \in SUBSET Msg /\ S \cap Answered = {} /\ r.msg \in Msg
        /\ Tell(S, "response", r.msg) \/ UNCHANGED answers
    BY <1>1, <1>6 DEF OnResponse, Entries, TypeOK, Accounted, Waiting, ListTypeOK
  <2>4. \A m \in S : r.msg \in {NoMsg, m} \cup shadowed
    BY <1>1 DEF FindsOwn, Entries
  <2> HIDE DEF S
  <2>5. CASE Tell(S, "response", r.msg)
    <3>1. Mixed'
      BY <1>1, <2>1, <2>3, <2>4, <2>5, TellMixed
    <3> QED BY <2>2, <3>1
  <2>6. CASE UNCHANGED answers
    <3>1. Mixed'
      BY <1>1, <2>1, <2>6 DEF Mixed
    <3> QED BY <2>2, <3>1
  <2> QED BY <2>3, <2>5, <2>6
<1>7. ASSUME NEW m \in Msg, Send(m)
      PROVE  WireInv' /\ FindsOwn' /\ Mixed'
  <2>1. NoWrap
    BY DEF NoWrap
  <2> QED BY <1>1, <1>7, <2>1, SendMix
<1>8. CASE SendTerminates \/ UNCHANGED linkVars
  <2>1. /\ UNCHANGED <<wire, userData, answers, shadowed, server, conn, seq>>
    BY <1>8 DEF SendTerminates, linkVars, listVars, history
  <2> QED BY <1>1, <2>1 DEF WireInv, FindsOwn, Mixed
<1> QED BY <1>3, <1>4, <1>5, <1>6, <1>7, <1>8 DEF Next

(* While no session's numbers wrap and no two servers bind with one name,
   a submit is answered with a response of its own, or with that of a submit
   that found its key taken: receive_response and timeout_request cannot mix
   them up otherwise, whatever the reconnects and late responses.          *)
THEOREM MixedByKeyAlone == SafeSpec /\ NumbersKept => []MixedOnlyByKey
<1>1. Init => MixInv
  BY EmptySeq DEF Init, ListInit, MixInv, WireInv, FindsOwn, MixedOnlyByKey
<1>2. TypeOK /\ MixInv => MixedOnlyByKey
  BY DEF MixInv, MixedOnlyByKey
<1>3. NumbersKept <=> [][NoWrap]_seq
  BY PTL DEF NumbersKept, NoWrap
<1> QED BY <1>1, <1>2, <1>3, TypeCorrect, ConnCorrect, SubmitsAccounted, MixStep, PTL DEF SafeSpec

=============================================================================
