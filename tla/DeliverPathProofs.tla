-------------------------- MODULE DeliverPathProofs --------------------------
(***************************************************************************)
(* Theorems of DeliverPath for every number of connections, system ids and *)
(* delivers, and every configuration.                                      *)
(***************************************************************************)
EXTENDS DeliverPath, PClientListProofs, SequenceTheorems

USE DEF Keys

-----------------------------------------------------------------------------
(* Type correctness.                                                       *)

Packet == [peer : Peer, key : 0 .. MaxSequence, msg : Msg]

\* What the ESME's side works on has come from a server: its answer finds the
\* name and the number to go back under.
TypeInv == DeliverTypeOK /\ ListInv /\ \A m \in Msg : back[m] # "new" => m \in Received

\* receive_request, on a session that is open or unbinds.
Takes(r) ==
  /\ conn[r.peer] \in {"open", "unbinding"}
  /\ unread' = unread \ {r}
  /\ info' = [info EXCEPT ![r.msg] = [name |-> server[r.peer], key |-> r.key]]
  /\ via' = [via EXCEPT ![r.msg] = r.peer]
  /\ UNCHANGED <<listVars, served, running, doubled>>

\* What an answer changes, whichever client it finds.
Replied(m, how, met) ==
  /\ answers' = [answers EXCEPT ![m] = Append(@, how)]
  /\ took' = [x \in Msg |-> IF \E a \in met : a.msg = x THEN m ELSE took[x]]
  /\ awaited' = awaited \ met
  /\ stray \subseteq stray' /\ stray' \subseteq stray \cup {m}

(* send_response answers a deliver once, and some requests are answered.   *)
LEMMA ReplyMade ==
  ASSUME NEW m, Reply(m)
  PROVE  \E how \in Outcome : \E met \in SUBSET awaited : Replied(m, how, met)
<1> DEFINE p == ReplyTo(info'[m].name)
           how == IF p = NoPeer THEN "nowhere" ELSE IF conn[p] = "open" THEN "sent" ELSE "failed"
           met == {a \in awaited : how = "sent" /\ a.peer = p /\ a.key = info'[m].key}
<1>1. how \in Outcome /\ met \in SUBSET awaited
  BY DEF Outcome
<1>2. /\ answers' = [answers EXCEPT ![m] = Append(@, how)]
      /\ took' = [x \in Msg |-> IF \E a \in met : a.msg = x THEN m ELSE took[x]]
      /\ awaited' = awaited \ met
      /\ stray' = IF via'[m] = NoPeer \/ info'[m].name \in doubled
                  THEN stray \cup {m} ELSE stray
  BY DEF Reply
<1> HIDE DEF how, met
<1>3. Replied(m, how, met)
  BY <1>2 DEF Replied
<1> QED BY <1>1, <1>3

LEMMA RepliedType ==
  ASSUME DeliverTypeOK, NEW m \in Msg, NEW how \in Outcome, NEW met \in SUBSET awaited,
         Replied(m, how, met)
  PROVE  /\ answers' \in [Msg -> Seq(Outcome)]
         /\ took' \in [Msg -> Msg \cup {NoMsg}]
         /\ awaited' \subseteq Packet /\ stray' \subseteq Msg
<1>1. Append(answers[m], how) \in Seq(Outcome)
  BY AppendProperties DEF DeliverTypeOK
<1> QED BY <1>1 DEF DeliverTypeOK, Replied, Packet

LEMMA TakesType ==
  ASSUME TypeInv, NEW r \in unread, Takes(r)
  PROVE  /\ r.msg \in Msg /\ r.peer \in Peer
         /\ unread' \subseteq Packet
         /\ info' \in [Msg -> [name : Name, key : 0 .. MaxSequence] \cup {NoInfo}]
         /\ via' \in [Msg -> Peer \cup {NoPeer}]
         /\ Received' = Received \cup {r.msg}
<1>1. r \in Packet
  BY DEF TypeInv, DeliverTypeOK, Packet
<1>2. server[r.peer] \in Name
  BY <1>1, ListAssumption DEF TypeInv, ListInv, Takes, Bound, Packet
<1> DEFINE i == [name |-> server[r.peer], key |-> r.key]
<1>3. i \in [name : Name, key : 0 .. MaxSequence]
  BY <1>1, <1>2 DEF Packet
<1>4. i # NoInfo
  BY <1>3, DeliverAssumption
<1>5. info' = [info EXCEPT ![r.msg] = i]
  BY DEF Takes
<1> HIDE DEF i
<1>6. Received' = Received \cup {r.msg}
  BY <1>1, <1>4, <1>5 DEF Received, TypeInv, DeliverTypeOK, Packet
<1> QED BY <1>1, <1>3, <1>5, <1>6 DEF TypeInv, DeliverTypeOK, Takes, Packet

(* The handlers of the list are those of PClientList.                      *)
LEMMA ListPart == ListInv /\ [DeliverNext]_deliverVars => ListInv'
<1>1. [DeliverNext]_deliverVars => ListAction
  BY DEF DeliverNext, deliverVars, DeliverClose, DeliverLinkStep, ServerSends, DeliverBind,
         ReceiveUnknown, ReceiveRefused, ReceiveAccepted, ReceiveDropped, ReceiveThrows,
         Taken, EsmeSettles, ListAction
<1> QED BY <1>1, ListActionKeeps

(* What the ESME's side makes of one deliver.                              *)
LEMMA BackMove ==
  ASSUME DeliverTypeOK, NEW m \in Msg
  PROVE  /\ Esme!Answer({m}) => back' = [back EXCEPT ![m] = "answered"]
         /\ Esme!Accept({m}) => back' = [back EXCEPT ![m] = "accepted"]
         /\ Esme!Lose({m}) => back' = [back EXCEPT ![m] = "lost"]
<1>1. back \in [Msg -> {"new", "accepted", "answered", "lost"}]
  BY DEF DeliverTypeOK, Esme!TypeOK, Esme!Status
<1> QED BY <1>1 DEF Esme!Answer, Esme!Accept, Esme!Lose, Esme!Move

\* How a handler ends for the ESME's side and the server of one deliver.
Ends(m) ==
  \/ Esme!Answer({m}) /\ Reply(m) /\ UNCHANGED ignored
  \/ Esme!Accept({m}) /\ NoReply /\ UNCHANGED ignored
  \/ Esme!Lose({m}) /\ NoReply /\ UNCHANGED ignored
  \/ UNCHANGED back /\ NoReply /\ ignored' = ignored \cup {m}

(* What any step is: a request of a server, one taken from a connection,   *)
(* one settled, one of the connections', or the end.                       *)
LEMMA Steps ==
  ASSUME [DeliverNext]_deliverVars
  PROVE  \/ \E p \in Peer, m \in Msg : ServerSends(p, m)
         \/ \E r \in unread : Takes(r) /\ Ends(r.msg)
         \/ \E m \in Msg : EsmeSettles(m) /\ Ends(m)
         \/ \E p \in Peer : DeliverClose(p) \/ DeliverLinkStep(p)
         \/ \E p \in Peer, n \in Name : DeliverBind(p, n)
         \/ UNCHANGED <<listVars, inbound, info, back, history>> /\ running' \in {running, FALSE}
<1>1. ASSUME NEW r \in unread, ReceiveUnknown(r) \/ ReceiveRefused(r) \/ ReceiveAccepted(r)
                               \/ ReceiveDropped(r)
      PROVE  Takes(r) /\ Ends(r.msg)
  BY <1>1 DEF ReceiveUnknown, ReceiveRefused, ReceiveAccepted, ReceiveDropped, Taken, Takes,
              Ends
<1>2. ASSUME NEW m \in Msg, EsmeSettles(m)
      PROVE  Ends(m)
  BY <1>2 DEF EsmeSettles, Ends
<1>3. ASSUME NEW r \in unread, ReceiveThrows(r)
      PROVE  UNCHANGED <<listVars, inbound, info, back, history>> /\ running' = FALSE
  BY <1>3 DEF ReceiveThrows
<1>4. CASE UNCHANGED deliverVars
  BY <1>4 DEF deliverVars
<1> QED BY <1>1, <1>2, <1>3, <1>4 DEF DeliverNext

LEMMA EndsType ==
  ASSUME TypeInv, NEW m \in Msg, Ends(m)
  PROVE  /\ answers' \in [Msg -> Seq(Outcome)]
         /\ took' \in [Msg -> Msg \cup {NoMsg}]
         /\ awaited' \subseteq Packet /\ stray' \subseteq Msg /\ ignored' \subseteq Msg
         /\ back' \in [Msg -> {"new", "accepted", "answered", "lost"}]
         /\ \A x \in Msg \ {m} : back'[x] = back[x]
<1>1. back \in [Msg -> {"new", "accepted", "answered", "lost"}] /\ DeliverTypeOK
  BY DEF TypeInv, DeliverTypeOK, Esme!TypeOK, Esme!Status
<1>2. /\ back' \in [Msg -> {"new", "accepted", "answered", "lost"}]
      /\ \A x \in Msg \ {m} : back'[x] = back[x]
  BY <1>1, BackMove DEF Ends
<1>3. ignored' \subseteq Msg
  BY <1>1 DEF Ends, DeliverTypeOK
<1>4. CASE NoReply
  BY <1>1, <1>2, <1>3, <1>4 DEF NoReply, DeliverTypeOK, Packet
<1>5. CASE Reply(m)
  BY <1>1, <1>2, <1>3, <1>5, ReplyMade, RepliedType
<1> QED BY <1>4, <1>5 DEF Ends

(* Of the connections' steps, only those that close one take anything.     *)
LEMMA LinkKeeps ==
  ASSUME DeliverTypeOK, NEW p \in Peer,
         \/ DeliverClose(p) \/ DeliverLinkStep(p)
         \/ \E n \in Name : DeliverBind(p, n)
  PROVE  /\ UNCHANGED <<info, back, running, answers, took, ignored, stray>>
         /\ unread' \subseteq unread /\ awaited' \subseteq awaited
         /\ \A r \in unread : r \notin unread' => r.peer = p
         /\ \A a \in awaited : a \notin awaited' => a.peer = p
         /\ \A a \in awaited : a \notin awaited' => \A r \in unread' : r.peer # p
         /\ served' \in [Peer -> 0 .. MaxSequence]
         /\ via' \in [Msg -> Peer \cup {NoPeer}]
         /\ \A m \in Msg : via'[m] \in {via[m], NoPeer}
         /\ doubled' \subseteq Name
<1>1. CASE DeliverClose(p) \/ \E n \in Name : DeliverBind(p, n)
  BY <1>1 DEF DeliverClose, DeliverBind, inbound, DeliverTypeOK
<1>2. CASE DeliverLinkStep(p)
  <2>1. /\ UNCHANGED <<info, back, running, answers, took, ignored, doubled, stray>>
        /\ \/ UNCHANGED <<served, unread, awaited, via>>
           \/ /\ served' = [served EXCEPT ![p] = 0]
              /\ unread' = {r \in unread : r.peer # p}
              /\ awaited' = {a \in awaited : a.peer # p}
              /\ via' = [m \in Msg |-> IF via[m] = p THEN NoPeer ELSE via[m]]
    BY <1>2 DEF DeliverLinkStep
  <2> QED BY <2>1, ListAssumption DEF DeliverTypeOK
<1> QED BY <1>1, <1>2

LEMMA TypeInit == DeliverInit => TypeInv
<1> SUFFICES ASSUME DeliverInit
             PROVE  TypeInv
  OBVIOUS
<1>1. ListInv
  BY ListInvInit DEF DeliverInit
<1>2. Esme!TypeOK /\ \A m \in Msg : back[m] = "new"
  BY DEF DeliverInit, Esme!Init, Esme!TypeOK, Esme!Status
<1>3. answers \in [Msg -> Seq(Outcome)] /\ served \in [Peer -> 0 .. MaxSequence]
  BY EmptySeq, ListAssumption DEF DeliverInit
<1> QED BY <1>1, <1>2, <1>3 DEF DeliverInit, TypeInv, DeliverTypeOK, ListInv

LEMMA TypeStep == TypeInv /\ [DeliverNext]_deliverVars => TypeInv'
<1> SUFFICES ASSUME TypeInv, [DeliverNext]_deliverVars
             PROVE  TypeInv'
  OBVIOUS
<1>1. /\ DeliverTypeOK /\ ListInv' /\ ListTypeOK'
      /\ back \in [Msg -> {"new", "accepted", "answered", "lost"}]
      /\ \A m \in Msg : back[m] # "new" => m \in Received
  BY ListPart DEF TypeInv, ListInv, DeliverTypeOK, Esme!TypeOK, Esme!Status
<1>2. Esme!TypeOK' <=> back' \in [Msg -> {"new", "accepted", "answered", "lost"}]
  BY DEF Esme!TypeOK, Esme!Status
<1>3. ASSUME NEW p \in Peer, NEW m \in Msg, ServerSends(p, m)
      PROVE  TypeInv'
  <2> DEFINE r == [peer |-> p, key |-> served'[p], msg |-> m]
  <2>1. served' \in [Peer -> 0 .. MaxSequence]
    BY <1>1, <1>3, ListAssumption DEF ServerSends, DeliverTypeOK
  <2>2. unread' = unread \cup {r} /\ awaited' = awaited \cup {r} /\ r \in Packet
    BY <1>3, <2>1 DEF ServerSends, Packet
  <2> HIDE DEF r
  <2>3. UNCHANGED <<info, back, running, answers, took, ignored, via, doubled, stray>>
    BY <1>3 DEF ServerSends, history
  <2>4. Received' = Received
    BY <2>3 DEF Received
  <2> QED BY <1>1, <1>2, <2>1, <2>2, <2>3, <2>4 DEF TypeInv, DeliverTypeOK, Packet
<1>4. ASSUME NEW r \in unread, Takes(r), Ends(r.msg)
      PROVE  TypeInv'
  <2>1. /\ r.msg \in Msg /\ r.peer \in Peer
        /\ unread' \subseteq Packet
        /\ info' \in [Msg -> [name : Name, key : 0 .. MaxSequence] \cup {NoInfo}]
        /\ via' \in [Msg -> Peer \cup {NoPeer}]
        /\ Received' = Received \cup {r.msg}
    BY <1>4, TakesType
  <2>2. /\ answers' \in [Msg -> Seq(Outcome)]
        /\ took' \in [Msg -> Msg \cup {NoMsg}]
        /\ awaited' \subseteq Packet /\ stray' \subseteq Msg /\ ignored' \subseteq Msg
        /\ back' \in [Msg -> {"new", "accepted", "answered", "lost"}]
        /\ \A x \in Msg \ {r.msg} : back'[x] = back[x]
    BY <1>4, <2>1, EndsType
  <2>3. UNCHANGED <<served, running, doubled>>
    BY <1>4 DEF Takes
  <2>4. \A x \in Msg : back'[x] # "new" => x \in Received'
    BY <1>1, <2>1, <2>2
  <2> QED BY <1>1, <1>2, <2>1, <2>2, <2>3, <2>4 DEF TypeInv, DeliverTypeOK, Packet
<1>5. ASSUME NEW m \in Msg, EsmeSettles(m), Ends(m)
      PROVE  TypeInv'
  <2>1. /\ answers' \in [Msg -> Seq(Outcome)]
        /\ took' \in [Msg -> Msg \cup {NoMsg}]
        /\ awaited' \subseteq Packet /\ stray' \subseteq Msg /\ ignored' \subseteq Msg
        /\ back' \in [Msg -> {"new", "accepted", "answered", "lost"}]
        /\ \A x \in Msg \ {m} : back'[x] = back[x]
    BY <1>5, EndsType
  <2>2. UNCHANGED <<served, unread, info, via, running, doubled>> /\ back[m] = "accepted"
    BY <1>5 DEF EsmeSettles
  <2>3. Received' = Received
    BY <2>2 DEF Received
  <2>4. \A x \in Msg : back'[x] # "new" => x \in Received'
    BY <1>1, <2>1, <2>2, <2>3
  <2> QED BY <1>1, <1>2, <2>1, <2>2, <2>4 DEF TypeInv, DeliverTypeOK, Packet
<1>6. ASSUME NEW p \in Peer, \/ DeliverClose(p) \/ DeliverLinkStep(p)
                             \/ \E n \in Name : DeliverBind(p, n)
      PROVE  TypeInv'
  <2>1. /\ UNCHANGED <<info, back, running, answers, took, ignored, stray>>
        /\ unread' \subseteq unread /\ awaited' \subseteq awaited
        /\ served' \in [Peer -> 0 .. MaxSequence]
        /\ via' \in [Msg -> Peer \cup {NoPeer}]
        /\ doubled' \subseteq Name
    BY <1>1, <1>6, LinkKeeps
  <2>2. Received' = Received
    BY <2>1 DEF Received
  <2> QED BY <1>1, <1>2, <2>1, <2>2 DEF TypeInv, DeliverTypeOK
<1>7. CASE UNCHANGED <<listVars, inbound, info, back, history>> /\ running' \in {running, FALSE}
  <2>1. Received' = Received
    BY <1>7 DEF Received
  <2> QED BY <1>1, <1>2, <1>7, <2>1 DEF TypeInv, DeliverTypeOK, inbound, history
<1> QED BY <1>3, <1>4, <1>5, <1>6, <1>7, Steps

(* The variables always have their types, and a deliver that the ESME's    *)
(* side works on has a name and a number to be answered under.             *)
THEOREM TypeCorrect == DeliverSpec => []DeliverTypeOK
<1>1. TypeInv => DeliverTypeOK
  BY DEF TypeInv
<1> QED BY <1>1, TypeInit, TypeStep, PTL DEF DeliverSpec

LEMMA TypesCorrect == DeliverSpec => []TypeInv
BY TypeInit, TypeStep, PTL DEF DeliverSpec

-----------------------------------------------------------------------------
(* One place for every deliver.                                            *)

\* A deliver is on its way once, and until it is received; a server waits for
\* it once, until an answer took it; nothing is answered that was ignored, and
\* nothing twice.
OnceOnTheWay ==
  /\ \A r, s \in unread : r.msg = s.msg => r = s
  /\ \A r \in unread : r.msg \notin Received /\ (r \in awaited \/ took[r.msg] # NoMsg)
OnceAwaited ==
  /\ \A a, b \in awaited : a.msg = b.msg => a = b
  /\ \A a \in awaited : took[a.msg] = NoMsg
OnceAnswered ==
  /\ \A m \in Msg : took[m] # NoMsg => took[m] \in Answered
  /\ \A m \in ignored : m \in Received /\ back[m] = "new"
  /\ \A m \in Msg : IF back[m] = "answered" THEN Len(answers[m]) = 1 ELSE answers[m] = << >>

PathInv == OnceOnTheWay /\ OnceAwaited /\ OnceAnswered

LEMMA AnsweredOnce ==
  ASSUME NEW x \in Outcome
  PROVE  Append(<< >>, x) # << >> /\ Len(Append(<< >>, x)) = 1
BY EmptySeq, AppendProperties

(* The answer to a deliver that has none.                                  *)
LEMMA ReplyPath ==
  ASSUME DeliverTypeOK, OnceAwaited, OnceAnswered, NEW m \in Msg, answers[m] = << >>,
         NEW how \in Outcome, NEW met \in SUBSET awaited, Replied(m, how, met)
  PROVE  /\ OnceAwaited'
         /\ Len(answers'[m]) = 1 /\ answers'[m] # << >>
         /\ \A x \in Msg \ {m} : answers'[x] = answers[x]
         /\ \A x \in Msg : took'[x] # NoMsg => took'[x] \in Answered'
         /\ \A x \in Msg : took'[x] = took[x] \/ (took'[x] = m /\ took[x] = NoMsg)
         /\ \A a \in awaited : a \in awaited' \/ took'[a.msg] # NoMsg
<1>1. answers'[m] = Append(<< >>, how) /\ \A x \in Msg \ {m} : answers'[x] = answers[x]
  BY DEF Replied, DeliverTypeOK
<1>2. Len(answers'[m]) = 1 /\ answers'[m] # << >>
  BY <1>1, AnsweredOnce
<1>3. Answered' = Answered \cup {m}
  BY <1>1, <1>2 DEF Answered
<1>4. \A a \in awaited : a.msg \in Msg
  BY DEF DeliverTypeOK
<1>5. \A x \in Msg : took'[x] = took[x] \/ (took'[x] = m /\ took[x] = NoMsg)
  BY <1>4 DEF Replied, OnceAwaited
<1>6. \A a \in met : took'[a.msg] = m
  BY <1>4 DEF Replied
<1>7. \A a \in awaited \ met : took'[a.msg] = took[a.msg]
  BY <1>4 DEF Replied, OnceAwaited
<1>8. OnceAwaited'
  BY <1>7 DEF Replied, OnceAwaited
<1>9. \A a \in awaited : a \in awaited' \/ took'[a.msg] # NoMsg
  BY <1>6, DeliverAssumption DEF Replied
<1> QED BY <1>1, <1>2, <1>3, <1>5, <1>8, <1>9 DEF OnceAnswered

\* What a handler that ends a deliver makes of the others, and of it.
LEMMA EndsPath ==
  ASSUME TypeInv, PathInv, NEW m \in Msg, Ends(m), m \notin ignored
  PROVE  /\ OnceAwaited'
         /\ \A x \in Msg \ {m} : /\ answers'[x] = answers[x] /\ back'[x] = back[x]
                                 /\ x \in ignored' <=> x \in ignored
         /\ \A x \in Msg : took'[x] # NoMsg => took'[x] \in Answered'
         /\ \A x \in Msg : took'[x] = took[x] \/ (took'[x] = m /\ took[x] = NoMsg)
         /\ \A a \in awaited : a \in awaited' \/ took'[a.msg] # NoMsg
         /\ \/ /\ back[m] \in {"new", "accepted"} /\ back'[m] = "answered" /\ m \notin ignored'
               /\ Len(answers'[m]) = 1 /\ answers'[m] # << >>
            \/ /\ answers'[m] = answers[m] /\ UNCHANGED took
               /\ \/ back[m] = "new" /\ back'[m] = "accepted" /\ m \notin ignored'
                  \/ back[m] \in {"new", "accepted"} /\ back'[m] = "lost" /\ m \notin ignored'
                  \/ back'[m] = back[m] /\ m \in ignored'
<1>1. /\ DeliverTypeOK /\ OnceAwaited /\ OnceAnswered
      /\ back \in [Msg -> {"new", "accepted", "answered", "lost"}]
  BY DEF TypeInv, PathInv, DeliverTypeOK, Esme!TypeOK, Esme!Status
<1>2. ASSUME NoReply
      PROVE  /\ OnceAwaited' /\ UNCHANGED <<answers, took, awaited>> /\ Answered' = Answered
             /\ \A x \in Msg : took'[x] # NoMsg => took'[x] \in Answered'
  BY <1>1, <1>2 DEF NoReply, OnceAwaited, OnceAnswered, Answered
<1>3. CASE Esme!Answer({m}) /\ Reply(m) /\ UNCHANGED ignored
  <2>1. back' = [back EXCEPT ![m] = "answered"] /\ back[m] \in {"new", "accepted"}
    BY <1>1, <1>3, BackMove DEF Esme!Answer, Esme!Move
  <2>2. answers[m] = << >>
    BY <1>1, <2>1 DEF OnceAnswered
  <2>3. PICK how \in Outcome, met \in SUBSET awaited : Replied(m, how, met)
    BY <1>3, ReplyMade
  <2> QED BY <1>1, <1>3, <2>1, <2>2, <2>3, ReplyPath
<1>4. CASE Esme!Accept({m}) /\ NoReply /\ UNCHANGED ignored
  <2>1. back' = [back EXCEPT ![m] = "accepted"] /\ back[m] = "new"
    BY <1>1, <1>4, BackMove DEF Esme!Accept, Esme!Move
  <2> QED BY <1>1, <1>2, <1>4, <2>1
<1>5. CASE Esme!Lose({m}) /\ NoReply /\ UNCHANGED ignored
  <2>1. back' = [back EXCEPT ![m] = "lost"] /\ back[m] \in {"new", "accepted"}
    BY <1>1, <1>5, BackMove DEF Esme!Lose, Esme!Move
  <2> QED BY <1>1, <1>2, <1>5, <2>1
<1>6. CASE UNCHANGED back /\ NoReply /\ ignored' = ignored \cup {m}
  BY <1>1, <1>2, <1>6
<1> QED BY <1>3, <1>4, <1>5, <1>6 DEF Ends

LEMMA PathInit == DeliverInit => PathInv
<1> SUFFICES ASSUME DeliverInit
             PROVE  PathInv
  OBVIOUS
<1>1. \A m \in Msg : back[m] = "new"
  BY DEF DeliverInit, Esme!Init
<1> QED BY <1>1 DEF DeliverInit, PathInv, OnceOnTheWay, OnceAwaited, OnceAnswered

LEMMA PathStep == TypeInv /\ PathInv /\ [DeliverNext]_deliverVars => PathInv'
<1> SUFFICES ASSUME TypeInv, PathInv, [DeliverNext]_deliverVars
             PROVE  PathInv'
  OBVIOUS
<1>1. /\ DeliverTypeOK /\ OnceOnTheWay /\ OnceAwaited /\ OnceAnswered
      /\ unread \subseteq Packet /\ awaited \subseteq Packet
      /\ \A m \in Msg : back[m] # "new" => m \in Received
  BY DEF TypeInv, PathInv, DeliverTypeOK, Packet
<1>2. ASSUME NEW p \in Peer, NEW m \in Msg, ServerSends(p, m)
      PROVE  PathInv'
  <2> DEFINE r == [peer |-> p, key |-> served'[p], msg |-> m]
  <2>1. unread' = unread \cup {r} /\ awaited' = awaited \cup {r} /\ r.msg = m
    BY <1>2 DEF ServerSends
  <2> HIDE DEF r
  <2>2. /\ UNCHANGED <<info, back, answers, took, ignored>>
        /\ m \notin Received /\ took[m] = NoMsg /\ \A a \in awaited : a.msg # m
    BY <1>2 DEF ServerSends, history
  <2>3. Received' = Received /\ Answered' = Answered
    BY <2>2 DEF Received, Answered
  <2>4. OnceOnTheWay'
    BY <1>1, <2>1, <2>2, <2>3 DEF OnceOnTheWay
  <2>5. OnceAwaited'
    BY <1>1, <2>1, <2>2 DEF OnceAwaited
  <2>6. OnceAnswered'
    BY <1>1, <2>2, <2>3 DEF OnceAnswered
  <2> QED BY <2>4, <2>5, <2>6 DEF PathInv
<1>3. ASSUME NEW m \in Msg, Ends(m), m \notin ignored, Received' = Received \cup {m},
             unread' \subseteq unread, \A r \in unread' : r.msg # m,
             m \in Received => m \notin ignored'
      PROVE  PathInv'
  <2>1. /\ OnceAwaited'
        /\ \A x \in Msg \ {m} : /\ answers'[x] = answers[x] /\ back'[x] = back[x]
                                /\ x \in ignored' <=> x \in ignored
        /\ \A x \in Msg : took'[x] # NoMsg => took'[x] \in Answered'
        /\ \A x \in Msg : took'[x] = took[x] \/ (took'[x] = m /\ took[x] = NoMsg)
        /\ \A a \in awaited : a \in awaited' \/ took'[a.msg] # NoMsg
        /\ \/ /\ back'[m] = "answered" /\ m \notin ignored'
              /\ Len(answers'[m]) = 1
           \/ /\ answers'[m] = answers[m]
              /\ \/ back[m] = "new" /\ back'[m] = "accepted" /\ m \notin ignored'
                 \/ back[m] \in {"new", "accepted"} /\ back'[m] = "lost" /\ m \notin ignored'
                 \/ back'[m] = back[m] /\ m \in ignored'
    BY <1>3, EndsPath
  <2>2. OnceOnTheWay'
    BY <1>1, <1>3, <2>1, DeliverAssumption DEF OnceOnTheWay, Packet
  <2>3. ASSUME NEW x \in Msg
        PROVE  IF back'[x] = "answered" THEN Len(answers'[x]) = 1 ELSE answers'[x] = << >>
    BY <1>1, <2>1 DEF OnceAnswered
  <2>4. ASSUME NEW x \in ignored'
        PROVE  x \in Received' /\ back'[x] = "new"
    <3>1. CASE x = m
      BY <1>1, <1>3, <2>1, <2>4, <3>1
    <3>2. CASE x # m
      <4>1. x \in ignored /\ x \in Msg /\ back[x] = "new" /\ x \in Received
        <5>1. x \in Msg
          BY <1>3, <2>4, EndsType
        <5> QED BY <1>1, <2>1, <2>4, <3>2, <5>1 DEF OnceAnswered
      <4> QED BY <1>3, <2>1, <3>2, <4>1
    <3> QED BY <3>1, <3>2
  <2> QED BY <2>1, <2>2, <2>3, <2>4 DEF PathInv, OnceAnswered
<1>4. ASSUME NEW r \in unread, Takes(r), Ends(r.msg)
      PROVE  PathInv'
  <2>1. r.msg \in Msg /\ Received' = Received \cup {r.msg} /\ unread' = unread \ {r}
    BY <1>4, TakesType DEF Takes
  <2>2. r.msg \notin Received /\ r.msg \notin ignored
    BY <1>1 DEF OnceOnTheWay, OnceAnswered
  <2>3. \A s \in unread' : s.msg # r.msg
    BY <1>1, <2>1 DEF OnceOnTheWay
  <2> QED BY <1>3, <1>4, <2>1, <2>2, <2>3
<1>5. ASSUME NEW m \in Msg, EsmeSettles(m), Ends(m)
      PROVE  PathInv'
  <2>1. UNCHANGED <<unread, info, ignored>> /\ back[m] = "accepted"
    BY <1>5 DEF EsmeSettles
  <2>2. m \in Received /\ m \notin ignored /\ Received' = Received
    BY <1>1, <2>1 DEF OnceAnswered, Received
  <2>3. \A s \in unread' : s.msg # m
    BY <1>1, <2>1, <2>2 DEF OnceOnTheWay
  <2> QED BY <1>3, <1>5, <2>1, <2>2, <2>3
<1>6. ASSUME NEW p \in Peer, \/ DeliverClose(p) \/ DeliverLinkStep(p)
                             \/ \E n \in Name : DeliverBind(p, n)
      PROVE  PathInv'
  <2>1. /\ UNCHANGED <<info, back, answers, took, ignored>>
        /\ unread' \subseteq unread /\ awaited' \subseteq awaited
        /\ \A a \in awaited : a \notin awaited' => a.peer = p
        /\ \A a \in awaited : a \notin awaited' => \A r \in unread' : r.peer # p
    BY <1>1, <1>6, LinkKeeps
  <2>2. Received' = Received /\ Answered' = Answered
    BY <2>1 DEF Received, Answered
  <2> QED BY <1>1, <2>1, <2>2 DEF PathInv, OnceOnTheWay, OnceAwaited, OnceAnswered
<1>7. CASE UNCHANGED <<listVars, inbound, info, back, history>> /\ running' \in {running, FALSE}
  <2>1. Received' = Received /\ Answered' = Answered
    BY <1>7 DEF Received, Answered, history
  <2> QED BY <1>1, <1>7, <2>1
          DEF inbound, history, PathInv, OnceOnTheWay, OnceAwaited, OnceAnswered
<1> QED BY <1>2, <1>4, <1>5, <1>6, <1>7, Steps

LEMMA PathCorrect == DeliverSpec => []PathInv
BY PathInit, PathStep, TypesCorrect, PTL DEF DeliverSpec

-----------------------------------------------------------------------------
(* The path implements the request/reply promise.                          *)

\* What the server has seen of one deliver, on the way between two states.
OneMoves(m) ==
  \/ DeliverStatus(m)' = DeliverStatus(m)
  \/ DeliverStatus(m) = "new" /\ DeliverStatus(m)' = "accepted"
  \/ DeliverStatus(m) \in {"new", "accepted"} /\ DeliverStatus(m)' \in {"answered", "lost"}

(* A handler that moves one deliver is a step of the promise.              *)
LEMMA DeliveryMove ==
  ASSUME NEW m \in Msg, \A x \in Msg \ {m} : DeliverStatus(x)' = DeliverStatus(x),
         OneMoves(m)
  PROVE  [Delivery!Next]_DeliveryStatus
<1> DEFINE S == {m}
<1>1. S \in SUBSET Msg /\ S # {} /\ m \in S
  OBVIOUS
<1>2. ASSUME NEW from, NEW to, DeliverStatus(m) \in from, DeliverStatus(m)' = to
      PROVE  Delivery!Move(S, from, to)
  <2>1. DeliveryStatus' = [x \in Msg |-> IF x \in S THEN to ELSE DeliveryStatus[x]]
    BY <1>2 DEF DeliveryStatus
  <2>2. \A x \in S : DeliveryStatus[x] \in from
    BY <1>2 DEF DeliveryStatus
  <2> QED BY <1>1, <2>1, <2>2 DEF Delivery!Move
<1> HIDE DEF S
<1>3. CASE DeliverStatus(m)' = DeliverStatus(m)
  <2>1. UNCHANGED DeliveryStatus
    BY <1>3 DEF DeliveryStatus
  <2> QED BY <2>1
<1>4. CASE DeliverStatus(m) = "new" /\ DeliverStatus(m)' = "accepted"
  <2>1. Delivery!Accept(S)
    BY <1>2, <1>4 DEF Delivery!Accept
  <2> QED BY <1>1, <2>1 DEF Delivery!Next
<1>5. CASE DeliverStatus(m) \in {"new", "accepted"} /\ DeliverStatus(m)' = "answered"
  <2>1. Delivery!Answer(S)
    BY <1>2, <1>5 DEF Delivery!Answer
  <2> QED BY <1>1, <2>1 DEF Delivery!Next
<1>6. CASE DeliverStatus(m) \in {"new", "accepted"} /\ DeliverStatus(m)' = "lost"
  <2>1. Delivery!Lose(S)
    BY <1>2, <1>6 DEF Delivery!Lose
  <2> QED BY <1>1, <2>1 DEF Delivery!Next
<1> QED BY <1>3, <1>4, <1>5, <1>6 DEF OneMoves

(* A deliver that a step does not concern.                                 *)
LEMMA SameStatus ==
  ASSUME NEW x \in Msg, answers'[x] = answers[x], back'[x] = back[x],
         took'[x] = x <=> took[x] = x, x \in ignored' <=> x \in ignored,
         x \in Received' <=> x \in Received
  PROVE  DeliverStatus(x)' = DeliverStatus(x)
<1>1. x \in Answered' <=> x \in Answered
  BY DEF Answered
<1>2. DeliverStatus(x)' =
        IF Len(answers'[x]) > 1 THEN "answered twice"
        ELSE IF took'[x] = x THEN "answered"
        ELSE IF x \in Answered' \/ x \in ignored' \/ back'[x] = "lost" THEN "lost"
        ELSE IF x \in Received' THEN "accepted" ELSE "new"
  BY DEF DeliverStatus
<1> QED BY <1>1, <1>2 DEF DeliverStatus

(* One deliver that is received, answered or given up.                     *)
LEMMA EndsMove ==
  ASSUME TypeInv, PathInv, NEW m \in Msg, Ends(m), m \notin ignored,
         Received' = Received \cup {m},
         m \in Received => back[m] = "accepted" /\ m \notin ignored'
  PROVE  [Delivery!Next]_DeliveryStatus
<1>1. /\ OnceAnswered /\ (back[m] # "new" => m \in Received)
      /\ \A x \in Msg \ {m} : /\ answers'[x] = answers[x] /\ back'[x] = back[x]
                              /\ x \in ignored' <=> x \in ignored
      /\ \A x \in Msg : took'[x] = took[x] \/ (took'[x] = m /\ took[x] = NoMsg)
      /\ \/ /\ back[m] \in {"new", "accepted"} /\ back'[m] = "answered" /\ m \notin ignored'
            /\ Len(answers'[m]) = 1 /\ answers'[m] # << >>
         \/ /\ answers'[m] = answers[m] /\ UNCHANGED took
            /\ \/ back[m] = "new" /\ back'[m] = "accepted" /\ m \notin ignored'
               \/ back[m] \in {"new", "accepted"} /\ back'[m] = "lost" /\ m \notin ignored'
               \/ back'[m] = back[m] /\ m \in ignored'
  BY EndsPath DEF PathInv, TypeInv
<1>2. \A x \in Msg \ {m} : DeliverStatus(x)' = DeliverStatus(x)
  <2> SUFFICES ASSUME NEW x \in Msg \ {m}
               PROVE  DeliverStatus(x)' = DeliverStatus(x)
    OBVIOUS
  <2>1. took'[x] = x <=> took[x] = x
    BY <1>1, DeliverAssumption
  <2> QED BY <1>1, <2>1, SameStatus
\* Before: nothing was answered, neither by the handler nor to the server.
<1>3. /\ back[m] \in {"new", "accepted"}
      /\ answers[m] = << >> /\ Len(answers[m]) = 0
      /\ took[m] # m
  <2>1. back[m] \in {"new", "accepted"}
    BY <1>1
  <2>2. answers[m] = << >>
    BY <1>1, <2>1 DEF OnceAnswered
  <2>3. took[m] # m
    BY <1>1, <2>2, DeliverAssumption DEF OnceAnswered, Answered
  <2> QED BY <2>1, <2>2, <2>3, EmptySeq
<1>4. DeliverStatus(m) = IF m \in Received THEN "accepted" ELSE "new"
  BY <1>3 DEF DeliverStatus, Answered
<1>5. DeliverStatus(m)' =
        IF Len(answers'[m]) > 1 THEN "answered twice"
        ELSE IF took'[m] = m THEN "answered"
        ELSE IF m \in Answered' \/ m \in ignored' \/ back'[m] = "lost" THEN "lost"
        ELSE IF m \in Received' THEN "accepted" ELSE "new"
  BY DEF DeliverStatus
<1>6. CASE Len(answers'[m]) = 1 /\ answers'[m] # << >>
  <2>1. m \in Answered'
    BY <1>6 DEF Answered
  <2>2. DeliverStatus(m)' \in {"answered", "lost"}
    BY <1>5, <1>6, <2>1
  <2>3. OneMoves(m)
    BY <1>4, <2>2 DEF OneMoves
  <2> QED BY <1>2, <2>3, DeliveryMove
<1>7. CASE answers'[m] = answers[m] /\ UNCHANGED took
  <2>1. m \notin Answered' /\ took'[m] # m /\ Len(answers'[m]) = 0 /\ m \in Received'
    BY <1>3, <1>7 DEF Answered
  <2>2. OneMoves(m)
    BY <1>1, <1>4, <1>5, <2>1 DEF OneMoves
  <2> QED BY <1>2, <2>2, DeliveryMove
<1> QED BY <1>1, <1>6, <1>7

(* Handlers that leave every deliver's place as it is.                     *)
LEMMA NothingMoves ==
  ASSUME UNCHANGED <<info, back, answers, took, ignored>>
  PROVE  [Delivery!Next]_DeliveryStatus
<1>1. Received' = Received
  BY DEF Received
<1>2. \A x \in Msg : DeliverStatus(x)' = DeliverStatus(x)
  BY <1>1, SameStatus
<1>3. UNCHANGED DeliveryStatus
  BY <1>2 DEF DeliveryStatus
<1> QED BY <1>3

LEMMA DeliveryInit == DeliverInit => Delivery!Init
<1> SUFFICES ASSUME DeliverInit, NEW m \in Msg
             PROVE  DeliveryStatus[m] = "new"
  BY DEF Delivery!Init, DeliveryStatus
<1>1. /\ answers[m] = << >> /\ Len(answers[m]) = 0
      /\ took[m] # m /\ m \notin ignored /\ info[m] = NoInfo /\ back[m] = "new"
  BY EmptySeq, DeliverAssumption DEF DeliverInit, Esme!Init
<1> QED BY <1>1 DEF DeliveryStatus, DeliverStatus, Answered, Received

LEMMA DeliveryStep ==
  TypeInv /\ PathInv /\ [DeliverNext]_deliverVars => [Delivery!Next]_DeliveryStatus
<1> SUFFICES ASSUME TypeInv, PathInv, [DeliverNext]_deliverVars
             PROVE  [Delivery!Next]_DeliveryStatus
  OBVIOUS
<1>1. ASSUME NEW p \in Peer, NEW m \in Msg, ServerSends(p, m)
      PROVE  [Delivery!Next]_DeliveryStatus
  BY <1>1, NothingMoves DEF ServerSends, history
<1>2. ASSUME NEW r \in unread, Takes(r), Ends(r.msg)
      PROVE  [Delivery!Next]_DeliveryStatus
  <2>1. r.msg \in Msg /\ Received' = Received \cup {r.msg}
    BY <1>2, TakesType
  <2>2. r.msg \notin Received /\ r.msg \notin ignored
    BY DEF PathInv, OnceOnTheWay, OnceAnswered
  <2> QED BY <1>2, <2>1, <2>2, EndsMove
<1>3. ASSUME NEW m \in Msg, EsmeSettles(m), Ends(m)
      PROVE  [Delivery!Next]_DeliveryStatus
  <2>1. UNCHANGED <<info, ignored>> /\ back[m] = "accepted"
    BY <1>3 DEF EsmeSettles
  <2>2. m \in Received /\ m \notin ignored /\ Received' = Received
    BY <2>1 DEF PathInv, OnceAnswered, TypeInv, Received
  <2> QED BY <1>3, <2>1, <2>2, EndsMove
<1>4. ASSUME NEW p \in Peer, \/ DeliverClose(p) \/ DeliverLinkStep(p)
                             \/ \E n \in Name : DeliverBind(p, n)
      PROVE  [Delivery!Next]_DeliveryStatus
  BY <1>4, LinkKeeps, NothingMoves DEF TypeInv
<1>5. CASE UNCHANGED <<listVars, inbound, info, back, history>> /\ running' \in {running, FALSE}
  BY <1>5, NothingMoves DEF history
<1> QED BY <1>1, <1>2, <1>3, <1>4, <1>5, Steps

(* The path of the delivers, with the ESME's side as it is specified,      *)
(* implements RequestReply for the servers: process_resp answers a deliver *)
(* once, and none that was given up, whatever connections come and go and  *)
(* whichever numbers and names the servers use again.                      *)
THEOREM PathImplementsService == DeliverSpec => DeliverPathService
<1>1. DeliverSpec => [][Delivery!Next]_DeliveryStatus
  BY TypesCorrect, PathCorrect, DeliveryStep, PTL DEF DeliverSpec
<1> QED BY <1>1, DeliveryInit, PTL DEF DeliverSpec, DeliverPathService, Delivery!SafeSpec

-----------------------------------------------------------------------------
(* Answers find their own deliver.                                         *)

\* The request a received deliver was, while its connection lasts.
HeldAs(m) == [peer |-> via[m], key |-> info[m].key, msg |-> m]
Held == {HeldAs(m) : m \in {x \in Msg : via[x] # NoPeer}}

\* All requests of the connections there are.
Known == unread \cup awaited \cup Held

\* No two of them have one number, and none has one that is still to come.
NumbersApart ==
  /\ \A a, b \in Known : a.peer = b.peer /\ a.key = b.key => a.msg = b.msg
  /\ \A a \in Known : a.key <= served[a.peer]

\* A deliver's connection is bound under the name the answer goes back to.
ViaBound == \A m \in Msg : via[m] # NoPeer =>
  /\ m \in Received
  /\ conn[via[m]] \in {"open", "unbinding"} /\ server[via[m]] = info[m].name

\* Its server waits for the answer, or took another one for it.
HeldAwaited == \A m \in Msg :
  via[m] # NoPeer => HeldAs(m) \in awaited \/ took[m] # NoMsg

\* A name that is not shared leads to the one that is bound with it.
NamesLead == \A p \in Bound : server[p] \notin doubled => clients[server[p]] = p

FitInv == NumbersApart /\ ViaBound /\ HeldAwaited /\ NamesLead /\ AnswersFit

NoWrap == \A p \in Peer : served'[p] < served[p] => conn'[p] = "closed"

LEMMA FirstOutcome ==
  ASSUME NEW x \in Outcome
  PROVE  Append(<< >>, x)[1] = x
BY EmptySeq, AppendProperties

(* An answer sent while the deliver's own connection lasts, to a name that *)
(* is not shared, is taken for its own.                                    *)
LEMMA ReplyFits ==
  ASSUME TypeInv, PathInv, NamesLead, AnswersFit, NEW m \in Msg, Reply(m), answers[m] = << >>,
         info'[m].name \in Name, NEW v, via'[m] = v, NEW k, info'[m].key = k,
         v # NoPeer =>
           /\ v \in Peer /\ conn[v] \in {"open", "unbinding"} /\ server[v] = info'[m].name
           /\ [peer |-> v, key |-> k, msg |-> m] \in awaited \/ took[m] # NoMsg
           /\ \A a \in awaited : a.peer = v /\ a.key = k => a.msg = m
  PROVE  AnswersFit'
<1> DEFINE n == info'[m].name
           p == clients[n]
           how == IF p = NoPeer THEN "nowhere" ELSE IF conn[p] = "open" THEN "sent" ELSE "failed"
           met == {a \in awaited : how = "sent" /\ a.peer = p /\ a.key = k}
<1>1. /\ answers' = [answers EXCEPT ![m] = Append(@, how)]
      /\ took' = [x \in Msg |-> IF \E a \in met : a.msg = x THEN m ELSE took[x]]
      /\ awaited' = awaited \ met
      /\ stray' = IF v = NoPeer \/ n \in doubled THEN stray \cup {m} ELSE stray
  BY DEF Reply, ReplyTo
<1>2. how \in Outcome /\ met \in SUBSET awaited
  BY DEF Outcome
<1>3. ASSUME m \notin stray'
      PROVE  v # NoPeer /\ p = v /\ p # NoPeer
  <2>1. v # NoPeer /\ n \notin doubled
    BY <1>1, <1>3
  <2>2. v \in Bound /\ server[v] = n
    BY <2>1 DEF Bound
  <2> QED BY <2>1, <2>2 DEF NamesLead
<1>4. \A a \in met : how = "sent" /\ a.peer = p /\ a.key = k /\ a \in awaited
  OBVIOUS
<1>5. ASSUME m \notin stray'
      PROVE  how # "nowhere"
  BY <1>3, <1>5
<1>6. ASSUME m \notin stray', how = "sent", [peer |-> v, key |-> k, msg |-> m] \in awaited
      PROVE  took'[m] = m
  <2> DEFINE h == [peer |-> v, key |-> k, msg |-> m]
  <2>1. h.peer = p /\ h.key = k /\ h.msg = m
    BY <1>3, <1>6
  <2>2. h \in met
    BY <1>6, <2>1
  <2> HIDE DEF h, met, how
  <2> QED BY <1>1, <2>1, <2>2
<1> HIDE DEF how, met, p
<1>7. Replied(m, how, met)
  BY <1>1 DEF Replied
<1>8. /\ \A x \in Msg \ {m} : answers'[x] = answers[x]
      /\ \A x \in Msg : took'[x] = took[x] \/ (took'[x] = m /\ took[x] = NoMsg)
  BY <1>2, <1>7, ReplyPath DEF TypeInv, PathInv
<1>9. answers'[m] = Append(<< >>, how)
  BY <1>1 DEF TypeInv, DeliverTypeOK
<1>10. answers'[m][1] = how
  BY <1>2, <1>9, FirstOutcome
<1>11. stray \subseteq stray' /\ stray \subseteq Msg /\ NoMsg \notin Msg
  BY <1>1, DeliverAssumption DEF TypeInv, DeliverTypeOK
<1>12. ASSUME NEW x \in Msg
       PROVE  took'[x] \in {NoMsg, x} \cup stray'
  <2>1. CASE \E a \in met : a.msg = x
    <3>1. took'[x] = m
      BY <1>1, <2>1
    <3>2. m \in stray' \/ m = x
      BY <1>3, <1>4, <2>1
    <3> QED BY <3>1, <3>2
  <2>2. CASE ~ \E a \in met : a.msg = x
    <3>1. took'[x] = took[x]
      BY <1>1, <2>2
    <3> QED BY <1>11, <3>1 DEF AnswersFit
  <2> QED BY <2>1, <2>2
<1>13. ASSUME NEW x \in Answered' \ stray', x # m
       PROVE  /\ answers'[x][1] # "nowhere"
              /\ answers'[x][1] = "sent" => took'[x] = x \/ took'[x] \in stray'
  <2>1. x \in Answered \ stray /\ answers'[x] = answers[x] /\ x \in Msg
    BY <1>8, <1>11, <1>13 DEF Answered
  <2>2. /\ answers[x][1] # "nowhere"
        /\ answers[x][1] = "sent" => took[x] = x \/ took[x] \in stray
    BY <2>1 DEF AnswersFit
  <2> QED BY <1>8, <1>11, <2>1, <2>2
<1>14. ASSUME m \notin stray'
       PROVE  /\ answers'[m][1] # "nowhere"
              /\ answers'[m][1] = "sent" => took'[m] = m \/ took'[m] \in stray'
  <2>1. answers'[m][1] # "nowhere"
    BY <1>5, <1>10, <1>14
  <2>2. ASSUME how = "sent"
        PROVE  took'[m] = m \/ took'[m] \in stray'
    <3>1. CASE [peer |-> v, key |-> k, msg |-> m] \in awaited
      BY <1>6, <1>14, <2>2, <3>1
    <3>2. CASE took[m] # NoMsg
      BY <1>8, <1>12, <3>2
    <3> QED BY <1>3, <1>14, <3>1, <3>2
  <2> QED BY <1>10, <2>1, <2>2
<1> QED BY <1>12, <1>13, <1>14 DEF AnswersFit

(* Fewer requests, and none numbered anew.                                 *)
LEMMA KnownKeeps ==
  ASSUME NumbersApart, Known' \subseteq Known,
         \A a \in Known' : served'[a.peer] = served[a.peer]
  PROVE  NumbersApart'
BY DEF NumbersApart

LEMMA SameFits ==
  ASSUME AnswersFit, UNCHANGED <<answers, took, stray>>
  PROVE  AnswersFit'
BY DEF AnswersFit, Answered

(* A new request has a number above all that its connection has seen.      *)
LEMMA SendsFits ==
  ASSUME TypeInv, FitInv, NoWrap, NEW p \in Peer, NEW m \in Msg, ServerSends(p, m)
  PROVE  FitInv'
<1> DEFINE r == [peer |-> p, key |-> served'[p], msg |-> m]
<1>1. /\ unread' = unread \cup {r} /\ awaited' = awaited \cup {r}
      /\ r.msg = m /\ r.peer = p /\ r.key = served'[p]
      /\ UNCHANGED <<info, back, answers, took, ignored, via, doubled, stray>>
      /\ UNCHANGED <<conn, server, clients>>
      /\ conn[p] \in {"accepted", "open"}
      /\ served' = [served EXCEPT ![p] = (@ + 1) % (MaxSequence + 1)]
  BY DEF ServerSends, history, listVars
<1> HIDE DEF r
<1>2. served \in [Peer -> 0 .. MaxSequence] /\ \A a \in Known : a.peer \in Peer /\ a.key \in Int
  <2>1. \A x \in Msg : x \in Received => info[x].key \in Int
    BY DEF TypeInv, DeliverTypeOK, Received
  <2>2. \A a \in Held : a.peer \in Peer /\ a.key \in Int
    BY <2>1 DEF TypeInv, DeliverTypeOK, Held, HeldAs, FitInv, ViaBound
  <2> QED BY <2>2 DEF TypeInv, DeliverTypeOK, Known
<1>3. served'[p] = served[p] + 1
  <2>1. ~ (served'[p] < served[p]) /\ served[p] \in 0 .. MaxSequence
    BY <1>1, <1>2 DEF NoWrap
  <2>2. served'[p] = (served[p] + 1) % (MaxSequence + 1)
    BY <1>1, <1>2
  <2>3. CASE served[p] = MaxSequence
    BY <2>1, <2>2, <2>3, ListAssumption
  <2>4. CASE served[p] < MaxSequence
    BY <2>1, <2>2, <2>4, ListAssumption
  <2> QED BY <2>1, <2>3, <2>4, ListAssumption
<1>4. Held' = Held /\ Received' = Received
  BY <1>1 DEF Held, HeldAs, Received
<1>5. Known' = Known \cup {r}
  BY <1>1, <1>4 DEF Known
<1>6. \A a \in Known : a.key <= served'[a.peer] /\ (a.peer = p => a.key < r.key)
  <2>1. \A a \in Known : a.key <= served[a.peer] /\ served[a.peer] \in Int
    BY <1>2 DEF FitInv, NumbersApart
  <2>2. \A q \in Peer \ {p} : served'[q] = served[q]
    BY <1>1, <1>2
  <2> QED BY <1>1, <1>2, <1>3, <2>1, <2>2
<1>7. NumbersApart'
  <2>1. r.key <= served'[r.peer]
    BY <1>1, <1>2, <1>3
  <2>2. \A a \in Known' : a.key <= served'[a.peer]
    BY <1>5, <1>6, <2>1
  <2>3. \A a, b \in Known' : a.peer = b.peer /\ a.key = b.key => a.msg = b.msg
    BY <1>1, <1>2, <1>5, <1>6 DEF FitInv, NumbersApart
  <2> QED BY <2>2, <2>3 DEF NumbersApart
<1>8. ViaBound' /\ HeldAwaited' /\ NamesLead'
  BY <1>1, <1>4 DEF FitInv, ViaBound, HeldAwaited, HeldAs, NamesLead, Bound
<1>9. AnswersFit'
  BY <1>1, SameFits DEF FitInv
<1> QED BY <1>7, <1>8, <1>9 DEF FitInv

(* A deliver that is received, with what its handler makes of it.          *)
LEMMA TakesFits ==
  ASSUME TypeInv, PathInv, FitInv, NEW r \in unread, Takes(r), Ends(r.msg)
  PROVE  FitInv'
<1> DEFINE m == r.msg
<1>1. /\ m \in Msg /\ r.peer \in Peer /\ r \in Packet /\ Received' = Received \cup {m}
      /\ r.peer # NoPeer
  BY TakesType, ListAssumption DEF TypeInv, DeliverTypeOK, Packet
<1>2. /\ conn[r.peer] \in {"open", "unbinding"}
      /\ unread' \subseteq unread
      /\ UNCHANGED <<conn, server, clients, served, doubled>>
      /\ \A x \in Msg \ {m} : via'[x] = via[x] /\ info'[x] = info[x]
      /\ via'[m] = r.peer
      /\ info'[m].name = server[r.peer] /\ info'[m].key = r.key
  BY <1>1 DEF Takes, listVars, TypeInv, DeliverTypeOK
<1>3. m \notin Received /\ m \notin ignored /\ (r \in awaited \/ took[m] # NoMsg)
  BY DEF PathInv, OnceOnTheWay, OnceAnswered
<1>4. r = [peer |-> r.peer, key |-> r.key, msg |-> m]
  BY <1>1 DEF Packet
<1>5. HeldAs(m)' = r /\ \A x \in Msg \ {m} : HeldAs(x)' = HeldAs(x)
  BY <1>2, <1>4 DEF HeldAs
<1>6. awaited' \subseteq awaited
  BY DEF Ends, NoReply, Reply
<1>7. /\ \A x \in Msg : took'[x] = took[x] \/ took[x] = NoMsg
      /\ \A a \in awaited : a \in awaited' \/ took'[a.msg] # NoMsg
  BY <1>1, <1>3, EndsPath
<1> HIDE DEF m
<1>8. Held' \subseteq Held \cup {r}
  BY <1>1, <1>2, <1>5 DEF Held
<1>9. Known' \subseteq Known
  BY <1>2, <1>6, <1>8 DEF Known
<1>10. NumbersApart'
  BY <1>2, <1>9, KnownKeeps DEF FitInv
<1>11. ViaBound'
  BY <1>1, <1>2 DEF FitInv, ViaBound
<1>12. HeldAwaited'
  <2> SUFFICES ASSUME NEW x \in Msg, via'[x] # NoPeer
               PROVE  HeldAs(x)' \in awaited' \/ took'[x] # NoMsg
    BY DEF HeldAwaited
  <2>1. HeldAs(x)' \in awaited \/ took[x] # NoMsg
    BY <1>2, <1>3, <1>5 DEF FitInv, HeldAwaited
  <2>2. HeldAs(x)'.msg = x
    BY DEF HeldAs
  <2> QED BY <1>7, <2>1, <2>2
<1>13. NamesLead'
  BY <1>2 DEF FitInv, NamesLead, Bound
<1>14. AnswersFit'
  <2>1. CASE NoReply
    BY <2>1, SameFits DEF NoReply, FitInv
  <2>2. CASE Reply(m)
    <3>1. answers[m] = << >>
      BY <1>1, <1>3 DEF TypeInv, PathInv, OnceAnswered
    <3>2. info'[m].name \in Name
      BY <1>1, <1>2, ListAssumption DEF TypeInv, ListInv, Bound
    <3>3. \A a \in awaited : a.peer = r.peer /\ a.key = r.key => a.msg = m
      BY DEF FitInv, NumbersApart, Known, m
    <3> QED BY <1>1, <1>2, <1>3, <1>4, <2>2, <3>1, <3>2, <3>3, ReplyFits DEF FitInv
  <2> QED BY <2>1, <2>2 DEF Ends, m
<1> QED BY <1>10, <1>11, <1>12, <1>13, <1>14 DEF FitInv

(* A deliver that the ESME's side settles.                                 *)
LEMMA SettleFits ==
  ASSUME TypeInv, PathInv, FitInv, NEW m \in Msg, EsmeSettles(m), Ends(m)
  PROVE  FitInv'
<1>1. /\ back[m] = "accepted"
      /\ UNCHANGED <<unread, info, via, conn, server, clients, served, doubled>>
  BY DEF EsmeSettles, listVars
<1>2. m \in Received /\ m \notin ignored /\ Received' = Received /\ answers[m] = << >>
  BY <1>1 DEF TypeInv, PathInv, OnceAnswered, Received
<1>3. awaited' \subseteq awaited
  BY DEF Ends, NoReply, Reply
<1>4. /\ \A x \in Msg : took'[x] = took[x] \/ took[x] = NoMsg
      /\ \A a \in awaited : a \in awaited' \/ took'[a.msg] # NoMsg
  BY <1>2, EndsPath
<1>5. Held' = Held /\ \A x \in Msg : HeldAs(x)' = HeldAs(x) /\ HeldAs(x).msg = x
  BY <1>1 DEF Held, HeldAs
<1>6. Known' \subseteq Known
  BY <1>1, <1>3, <1>5 DEF Known
<1>7. NumbersApart'
  BY <1>1, <1>6, KnownKeeps DEF FitInv
<1>8. ViaBound' /\ NamesLead'
  BY <1>1, <1>2 DEF FitInv, ViaBound, NamesLead, Bound
<1>9. HeldAwaited'
  BY <1>1, <1>4, <1>5 DEF FitInv, HeldAwaited
<1>10. AnswersFit'
  <2>1. CASE NoReply
    BY <2>1, SameFits DEF NoReply, FitInv
  <2>2. CASE Reply(m)
    <3>1. info'[m].name \in Name /\ via'[m] = via[m] /\ info'[m].key = info[m].key
      BY <1>1, <1>2 DEF TypeInv, DeliverTypeOK, Received
    <3>2. ASSUME via[m] # NoPeer
          PROVE  /\ via[m] \in Peer /\ conn[via[m]] \in {"open", "unbinding"}
                 /\ server[via[m]] = info'[m].name
                 /\ [peer |-> via[m], key |-> info[m].key, msg |-> m] \in awaited
                    \/ took[m] # NoMsg
                 /\ \A a \in awaited : a.peer = via[m] /\ a.key = info[m].key => a.msg = m
      <4>1. HeldAs(m) \in Known /\ HeldAs(m).peer = via[m] /\ HeldAs(m).key = info[m].key
        BY <3>2 DEF Known, Held, HeldAs
      <4>2. \A a \in awaited : a.peer = via[m] /\ a.key = info[m].key => a.msg = m
        BY <1>5, <4>1 DEF FitInv, NumbersApart, Known
      <4>3. via[m] \in Peer
        BY <3>2 DEF TypeInv, DeliverTypeOK
      <4> QED BY <1>1, <3>2, <4>2, <4>3 DEF FitInv, ViaBound, HeldAwaited, HeldAs
    <3> QED BY <1>2, <2>2, <3>1, <3>2, ReplyFits DEF FitInv
  <2> QED BY <2>1, <2>2 DEF Ends
<1> QED BY <1>7, <1>8, <1>9, <1>10 DEF FitInv

(* A connection that comes or goes: what was on one that closes is gone.   *)
LEMMA LinkFits ==
  ASSUME TypeInv, FitInv, NEW p \in Peer, \/ DeliverClose(p) \/ DeliverLinkStep(p)
                                          \/ \E n \in Name : DeliverBind(p, n)
  PROVE  FitInv'
<1>1. /\ DeliverTypeOK /\ ListTypeOK
      /\ UNCHANGED <<info, answers, took, stray>>
      /\ unread' \subseteq unread /\ awaited' \subseteq awaited
      /\ \A a \in awaited : a \notin awaited' => a.peer = p
      /\ \A m \in Msg : via'[m] \in {via[m], NoPeer}
  BY LinkKeeps DEF TypeInv, ListInv
<1>2. Received' = Received
  BY <1>1 DEF Received
<1>3. Held' \subseteq Held /\ \A m \in Msg : via'[m] = via[m] => HeldAs(m)' = HeldAs(m)
  <2>1. \A m \in Msg : via'[m] # NoPeer => via[m] # NoPeer /\ HeldAs(m)' = HeldAs(m)
    BY <1>1 DEF HeldAs
  <2> QED BY <1>1, <2>1 DEF Held, HeldAs
<1>4. Known' \subseteq Known
  BY <1>1, <1>3 DEF Known
<1>5. \A a \in Known' : served'[a.peer] = served[a.peer]
  <2>1. CASE UNCHANGED served
    BY <2>1
  <2>2. CASE ~ UNCHANGED served
    <3>1. /\ served' = [served EXCEPT ![p] = 0]
          /\ unread' = {r \in unread : r.peer # p}
          /\ awaited' = {a \in awaited : a.peer # p}
          /\ via' = [m \in Msg |-> IF via[m] = p THEN NoPeer ELSE via[m]]
      BY <2>2 DEF DeliverClose, DeliverBind, DeliverLinkStep, inbound
    <3>2. \A m \in Msg : via'[m] # p
      BY <3>1, ListAssumption
    <3>3. \A a \in Held' : a.peer # p /\ a.peer \in Peer
      BY <1>1, <3>1, <3>2 DEF Held, HeldAs, DeliverTypeOK
    <3>4. \A a \in Known' : a.peer # p /\ a.peer \in Peer
      BY <1>1, <3>1, <3>3 DEF Known, DeliverTypeOK
    <3> QED BY <1>1, <3>1, <3>4 DEF DeliverTypeOK
  <2> QED BY <2>1, <2>2
<1>6. NumbersApart'
  BY <1>4, <1>5, KnownKeeps DEF FitInv
\* The connections that delivers came on stay as they are.
<1>7. ASSUME NEW m \in Msg, via'[m] # NoPeer
      PROVE  /\ via'[m] = via[m] /\ via[m] \in Peer
             /\ conn'[via[m]] \in {"open", "unbinding"} /\ server'[via[m]] = server[via[m]]
             /\ HeldAs(m) \in awaited => HeldAs(m) \in awaited'
  <2>1. /\ via'[m] = via[m] /\ via[m] \in Peer /\ conn[via[m]] \in {"open", "unbinding"}
    BY <1>1, <1>7 DEF DeliverTypeOK, FitInv, ViaBound
  <2>2. HeldAs(m).peer = via[m]
    BY DEF HeldAs
  <2>3. CASE via[m] # p
    <3>1. conn'[via[m]] = conn[via[m]] /\ server'[via[m]] = server[via[m]]
      BY <1>1, <2>1, <2>3
         DEF DeliverClose, DeliverBind, DeliverLinkStep, ListClose, ListBind, ListStep, Connect,
             ConnectFails, Retry, BindAccepted, BindFails, PeerUnbind, SessionClose, ListTypeOK
    <3> QED BY <1>1, <2>1, <2>2, <2>3, <3>1
  <2>4. CASE via[m] = p
    <3>1. DeliverLinkStep(p)
      BY <2>1, <2>4 DEF DeliverClose, DeliverBind, ListClose, ListBind
    <3>2. ListStep(p) /\ UNCHANGED server
      BY <3>1 DEF DeliverLinkStep, ListStep, Connect, ConnectFails, Retry, BindAccepted,
                  BindFails, PeerUnbind, SessionClose
    <3>3. conn'[p] # "closed" /\ UNCHANGED awaited
      BY <1>7, <2>1, <2>4, <3>1 DEF DeliverLinkStep
    <3>4. conn'[p] \in {"open", "unbinding"}
      BY <1>1, <2>1, <2>4, <3>2, <3>3 DEF ListStep, Connect, ConnectFails, Retry,
              BindAccepted, BindFails, PeerUnbind, SessionClose, ListTypeOK
    <3> QED BY <2>1, <2>4, <3>2, <3>3, <3>4
  <2> QED BY <2>3, <2>4
<1>8. ViaBound'
  BY <1>1, <1>2, <1>7 DEF FitInv, ViaBound
<1>9. HeldAwaited'
  BY <1>1, <1>3, <1>7 DEF FitInv, HeldAwaited
<1>10. NamesLead'
  <2>1. CASE DeliverLinkStep(p)
    <3>1. UNCHANGED <<server, clients, doubled>> /\ Bound' = Bound
      BY <1>1, <2>1 DEF DeliverLinkStep, ListStep, Connect, ConnectFails, Retry, BindAccepted,
              BindFails, PeerUnbind, SessionClose, Bound, ListTypeOK
    <3> QED BY <3>1 DEF FitInv, NamesLead
  <2>2. ASSUME NEW n \in Name, DeliverBind(p, n)
        PROVE  NamesLead'
    <3>1. /\ p \notin Bound /\ Bound' = Bound \cup {p} /\ server' = [server EXCEPT ![p] = n]
          /\ clients' = [clients EXCEPT ![n] = IF @ = NoPeer THEN p ELSE @]
          /\ doubled' = IF \E q \in Bound \ {p} : server[q] = n
                        THEN doubled \cup {n} ELSE doubled
      BY <1>1, <2>2 DEF DeliverBind, ListBind, Bound, ListTypeOK
    <3>2. ASSUME NEW q \in Bound, server[q] \notin doubled'
          PROVE  clients'[server[q]] = q
      <4>1. clients[server[q]] = q /\ server[q] # n /\ server[q] \in Name
        BY <3>1, <3>2, ListAssumption DEF FitInv, NamesLead, TypeInv, ListInv, Bound
      <4> QED BY <1>1, <3>1, <4>1 DEF ListTypeOK
    <3>3. ASSUME n \notin doubled'
          PROVE  clients'[n] = p
      <4>1. \A q \in Bound : server[q] # n
        BY <3>1, <3>3
      <4>2. clients[n] = NoPeer
        BY <4>1 DEF TypeInv, ListInv
      <4> QED BY <1>1, <3>1, <4>2 DEF ListTypeOK
    <3> QED BY <1>1, <3>1, <3>2, <3>3 DEF NamesLead, Bound, ListTypeOK
  <2>3. CASE DeliverClose(p)
    <3>1. /\ p \in Bound /\ Bound' = Bound \ {p} /\ UNCHANGED server
          /\ clients' = [clients EXCEPT ![server[p]] = NoPeer]
          /\ doubled' = IF \E q \in Bound \ {p} : server[q] = server[p]
                        THEN doubled ELSE doubled \ {server[p]}
      BY <1>1, <2>3 DEF DeliverClose, ListClose, Bound, ListTypeOK
    <3>2. ASSUME NEW q \in Bound \ {p}, server[q] \notin doubled'
          PROVE  clients'[server[q]] = q
      <4>1. server[q] # server[p] /\ server[q] \notin doubled
        BY <3>1, <3>2 DEF FitInv, NamesLead
      <4>2. server[q] \in Name
        BY ListAssumption DEF TypeInv, ListInv, Bound
      <4> QED BY <1>1, <3>1, <4>1, <4>2 DEF FitInv, NamesLead, ListTypeOK
    <3> QED BY <3>1, <3>2 DEF NamesLead
  <2> QED BY <2>1, <2>2, <2>3
<1>11. AnswersFit'
  BY <1>1, SameFits DEF FitInv
<1> QED BY <1>6, <1>8, <1>9, <1>10, <1>11 DEF FitInv

LEMMA FitInit == DeliverInit => FitInv
<1> SUFFICES ASSUME DeliverInit
             PROVE  FitInv
  OBVIOUS
<1>1. Known = {} /\ Bound = {} /\ Answered = {} /\ \A m \in Msg : via[m] = NoPeer
  BY DEF DeliverInit, ListInit, Known, Held, Bound, Answered
<1> QED BY <1>1 DEF DeliverInit, FitInv, NumbersApart, ViaBound, HeldAwaited, NamesLead, AnswersFit

LEMMA FitStep ==
  TypeInv /\ PathInv /\ FitInv /\ [DeliverNext]_deliverVars /\ [NoWrap]_<<served, conn>>
    => FitInv'
<1> SUFFICES ASSUME TypeInv, PathInv, FitInv, [DeliverNext]_deliverVars,
                    [NoWrap]_<<served, conn>>
             PROVE  FitInv'
  OBVIOUS
<1>1. ASSUME NEW p \in Peer, NEW m \in Msg, ServerSends(p, m)
      PROVE  FitInv'
  <2>1. NoWrap
    BY DEF NoWrap, TypeInv, DeliverTypeOK
  <2> QED BY <1>1, <2>1, SendsFits
<1>2. CASE UNCHANGED <<listVars, inbound, info, back, history>> /\ running' \in {running, FALSE}
  <2>1. UNCHANGED <<conn, server, clients, served, unread, awaited, info, answers, took, via,
                    doubled, stray>>
    BY <1>2 DEF listVars, inbound, history
  <2>2. /\ Known' = Known /\ Received' = Received /\ Bound' = Bound
        /\ \A m \in Msg : HeldAs(m)' = HeldAs(m)
    BY <2>1 DEF Known, Held, HeldAs, Received, Bound
  <2>3. AnswersFit'
    BY <2>1, SameFits DEF FitInv
  <2> QED BY <2>1, <2>2, <2>3 DEF FitInv, NumbersApart, ViaBound, HeldAwaited, NamesLead
<1> QED BY <1>1, <1>2, TakesFits, SettleFits, LinkFits, Steps

(* As long as no server's numbers wrap during a connection, an answer that *)
(* finds no client or is taken for another deliver's is one whose own      *)
(* connection has closed or whose server shares its name: send_response    *)
(* finds the right server and number for every other one.                  *)
THEOREM AnswersFitTheirs == DeliverSpec /\ NumbersLast => []AnswersFit
<1>1. FitInv => AnswersFit
  BY DEF FitInv
<1>2. NumbersLast <=> [][NoWrap]_<<served, conn>>
  BY PTL DEF NumbersLast, NoWrap
<1> QED BY <1>1, <1>2, FitInit, FitStep, TypesCorrect, PathCorrect, PTL DEF DeliverSpec

=============================================================================
