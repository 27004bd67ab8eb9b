------------------------ MODULE ExternalClientProofs ------------------------
(***************************************************************************)
(* Theorems of ExternalClient for every number of sessions, requests and   *)
(* every configuration.                                                    *)
(***************************************************************************)
EXTENDS ExternalClient, SequenceTheorems, FiniteSetTheorems, TLAPS

(* The expirator's operations are always seen through.                     *)
USE DEF Slot, Untrack, ExpireAll, Leave

(* The expirator's indices stay below IndexSpan.                           *)
LEMMA IndexInRange ==
  ASSUME NEW n \in Nat
  PROVE  n % IndexSpan \in 0 .. IndexSpan - 1
BY ConstantsAssumption

(* session::next_sequence_number yields a usable number.                   *)
LEMMA NextSeqInRange ==
  ASSUME NEW s \in Session, seq \in [Session -> 0 .. MaxSequence]
  PROVE  NextSeq(s) \in 1 .. MaxSequence
BY ConstantsAssumption DEF NextSeq

(* A response changes the reply sequences of the requests it is for.       *)
LEMMA RespondType ==
  ASSUME replies \in [Msg -> Seq(Reply)],
         NEW S, NEW st \in Status, NEW of \in Msg \cup {NoMsg},
         Respond(S, st, of)
  PROVE  replies' \in [Msg -> Seq(Reply)]
<1> DEFINE r == [status |-> st, of |-> of]
<1>1. r \in Reply
  BY DEF Reply
<1>2. \A m \in Msg : Append(replies[m], r) \in Seq(Reply)
  BY <1>1
<1> QED BY <1>2 DEF Respond

(* expirator::add keeps the keys unique.                                   *)
LEMMA TrackType ==
  ASSUME TypeOK, NEW k \in 1 .. MaxSequence, NEW m \in Msg, Track(k, m)
  PROVE  /\ pending' \subseteq Entry
         /\ \A e, f \in pending' : e.key = f.key => e = f
         /\ orphaned' \subseteq Msg
<1> DEFINE n == [at |-> Slot(index + Timeout), key |-> k, msg |-> m]
<1>1. n \in Entry
  <2>1. index + Timeout \in Nat
    BY ConstantsAssumption DEF TypeOK
  <2>2. (index + Timeout) % IndexSpan \in 0 .. IndexSpan - 1
    BY <2>1, IndexInRange
  <2> QED BY <2>2 DEF Entry
<1>2. CASE \E e \in pending : e.key = k
  BY <1>2 DEF Track, TypeOK
<1>3. CASE ~ \E e \in pending : e.key = k
  <2>1. pending' = pending \cup {n} /\ orphaned' = orphaned
    BY <1>3 DEF Track
  <2> QED BY <1>1, <1>3, <2>1 DEF TypeOK
<1> QED BY <1>2, <1>3

(* What send_deliver_sm leaves behind, whichever way it ends.              *)
LEMMA SendDeliverSmType ==
  ASSUME TypeOK, NEW m \in Msg, SendDeliverSm(m)
  PROVE  /\ seq' \in [Session -> 0 .. MaxSequence]
         /\ wire' \subseteq Pdu
         /\ pending' \subseteq Entry
         /\ \A e, f \in pending' : e.key = f.key => e = f
         /\ index' = index
         /\ waiting' \in Int
         /\ orphaned' \subseteq Msg
         /\ replies' \in [Msg -> Seq(Reply)]
<1>1. CASE /\ Respond({m}, "dst_esme_not_bound", NoMsg)
           /\ UNCHANGED <<seq, wire, tracker, orphaned>>
  BY <1>1, RespondType DEF TypeOK, tracker, Status
<1>2. CASE \E s \in binded : SendOn(s, m)
  <2> PICK s \in binded : SendOn(s, m)
    BY <1>2
  <2>1. s \in Session /\ NextSeq(s) \in 1 .. MaxSequence
    BY NextSeqInRange DEF TypeOK
  <2>2. seq' \in [Session -> 0 .. MaxSequence] /\ wire' \subseteq Pdu
    BY <2>1 DEF SendOn, TypeOK, Pdu
  <2>3. Track(NextSeq(s), m) /\ UNCHANGED <<index, replies>> /\ waiting' \in Int
    BY DEF SendOn, TypeOK
  <2> QED BY <2>1, <2>2, <2>3, TrackType DEF TypeOK
<1>3. CASE \E s \in binded : EndpointGone(s, m)
  <2>1. /\ Respond({m}, "rsyserr", NoMsg)
        /\ UNCHANGED <<seq, wire, tracker, orphaned>>
    BY <1>3 DEF EndpointGone
  <2> QED BY <2>1, RespondType DEF TypeOK, tracker, Status
<1>4. CASE \E s \in binded : SendRefused(s, m)
  <2> PICK s \in binded : SendRefused(s, m)
    BY <1>4
  <2>1. s \in Session /\ NextSeq(s) \in 1 .. MaxSequence
    BY NextSeqInRange DEF TypeOK
  <2>2. seq' \in [Session -> 0 .. MaxSequence]
    BY <2>1 DEF SendRefused, TypeOK
  <2>3. /\ Respond({m}, "rsyserr", NoMsg)
        /\ UNCHANGED <<wire, tracker, orphaned>>
    BY DEF SendRefused
  <2> QED BY <2>2, <2>3, RespondType DEF TypeOK, tracker, Status
<1> QED BY <1>1, <1>2, <1>3, <1>4 DEF SendDeliverSm

-----------------------------------------------------------------------------
(* Type correctness.                                                       *)

LEMMA TypeInit == Init => TypeOK
BY ConstantsAssumption DEF Init, TypeOK, SessionState, Entry, Pdu, Reply

LEMMA TypeStep == TypeOK /\ [Next]_vars => TypeOK'
<1> SUFFICES ASSUME TypeOK, [Next]_vars
             PROVE  TypeOK'
  OBVIOUS
<1> USE DEF conf, link, tracker, history
<1>1. ASSUME NEW s \in Session, Bind(s)
      PROVE  TypeOK'
  BY <1>1 DEF Bind, TypeOK, SessionState
<1>2. ASSUME NEW s \in Session, PeerUnbind(s)
      PROVE  TypeOK'
  BY <1>2 DEF PeerUnbind, TypeOK, SessionState
<1>3. ASSUME NEW s \in Session, SessionClose(s) \/ RejectBind(s)
      PROVE  TypeOK'
  BY <1>3 DEF SessionClose, RejectBind, TypeOK, SessionState
<1>4. ASSUME NEW s \in Session, OnSessionClose(s)
      PROVE  TypeOK'
  <2>1. replies' \in [Msg -> Seq(Reply)]
    BY <1>4, RespondType DEF OnSessionClose, TypeOK, Status
  <2>2. index' \in 0 .. IndexSpan - 1
    BY <1>4, ConstantsAssumption DEF OnSessionClose
  <2>3. sess' \in [Session -> SessionState] /\ binded' \subseteq Session
    BY <1>4 DEF OnSessionClose, TypeOK, SessionState
  <2>4. /\ pending' = {} /\ connected' \in Int
        /\ UNCHANGED <<conf, waiting, accepted, orphaned, dropped, seq, queue, wire>>
    BY <1>4 DEF OnSessionClose, TypeOK
  <2> QED BY <2>1, <2>2, <2>3, <2>4 DEF TypeOK
<1>5. ASSUME NEW m \in Msg, ReceiveDeliver(m)
      PROVE  TypeOK'
  <2>1. CASE client = "present"
    <3>1. queue' \in Seq(Msg)
      <4>1. queue' = Append(queue, m)
        BY <1>5, <2>1 DEF ReceiveDeliver
      <4>2. queue \in Seq(Msg)
        BY DEF TypeOK
      <4> QED BY <4>1, <4>2
    <3>2. UNCHANGED replies /\ accepted' \subseteq Msg
      BY <1>5, <2>1 DEF ReceiveDeliver, TypeOK
    <3>3. UNCHANGED <<conf, link, tracker, orphaned, dropped, seq, wire>>
      BY <1>5 DEF ReceiveDeliver
    <3> QED BY <3>1, <3>2, <3>3 DEF TypeOK
  <2>2. CASE client # "present"
    <3>1. replies' \in [Msg -> Seq(Reply)]
      BY <1>5, <2>2, RespondType DEF ReceiveDeliver, TypeOK, Status
    <3> QED BY <1>5, <2>2, <3>1 DEF ReceiveDeliver, TypeOK
  <2> QED BY <2>1, <2>2
<1>6. ASSUME NEW m \in Msg, ReceiveReport(m)
      PROVE  TypeOK'
  <2>1. CASE client = "present"
    BY <1>6, <2>1, SendDeliverSmType DEF ReceiveReport, TypeOK
  <2>2. CASE client # "present"
    <3>1. replies' \in [Msg -> Seq(Reply)]
      BY <1>6, <2>2, RespondType DEF ReceiveReport, TypeOK, Status
    <3> QED BY <1>6, <2>2, <3>1 DEF ReceiveReport, TypeOK
  <2> QED BY <2>1, <2>2
<1>7. ASSUME SendProcess
      PROVE  TypeOK'
  <2>1. Head(queue) \in Msg /\ Tail(queue) \in Seq(Msg)
    BY <1>7 DEF SendProcess, TypeOK
  <2> QED BY <1>7, <2>1, SendDeliverSmType DEF SendProcess, TypeOK
<1>8. ASSUME NEW p \in wire, NEW st \in {"ok", "error"}, OnResponse(p, st)
      PROVE  TypeOK'
  <2> PICK e \in pending : /\ pending' = {f \in pending : f.key # p.seqno}
                           /\ waiting' = waiting - 1
                           /\ Respond({e.msg}, st, p.msg)
    BY <1>8 DEF OnResponse
  <2>1. e.msg \in Msg /\ p.msg \in Msg /\ st \in Status
    BY DEF TypeOK, Status, Pdu, Entry
  <2>2. replies' \in [Msg -> Seq(Reply)]
    BY <2>1, RespondType DEF TypeOK
  <2> QED BY <1>8, <2>2 DEF OnResponse, TypeOK
<1>9. ASSUME NEW p \in wire, OnLateResponse(p)
      PROVE  TypeOK'
  BY <1>9 DEF OnLateResponse, TypeOK
<1>10. ASSUME OnTimer
       PROVE  TypeOK'
  <2>1. replies' \in [Msg -> Seq(Reply)]
    BY <1>10, RespondType DEF OnTimer, TypeOK, Status
  <2>2. index' \in 0 .. IndexSpan - 1
    <3>1. index + 1 \in Nat
      BY ConstantsAssumption DEF TypeOK
    <3> QED BY <1>10, <3>1, IndexInRange DEF OnTimer
  <2> QED BY <1>10, <2>1, <2>2 DEF OnTimer, TypeOK
<1>11. ASSUME NEW n \in MaxSessions, SetMaxSession(n)
       PROVE  TypeOK'
  BY <1>11 DEF SetMaxSession, TypeOK
<1>12. ASSUME Remove
       PROVE  TypeOK'
  BY <1>12 DEF Remove, TypeOK, SessionState
<1>13. ASSUME Destroy
       PROVE  TypeOK'
  BY <1>13 DEF Destroy, TypeOK, Queued
<1>14. CASE UNCHANGED vars
  BY <1>14 DEF vars, TypeOK
<1>15. ASSUME NEW s \in Session, EnquireLink(s)
       PROVE  TypeOK'
  <2>1. NextSeq(s) \in 0 .. MaxSequence
    BY NextSeqInRange DEF TypeOK
  <2> QED BY <1>15, <2>1 DEF EnquireLink, TypeOK
<1> QED BY <1>1, <1>2, <1>3, <1>4, <1>5, <1>6, <1>7, <1>8, <1>9, <1>10, <1>11,
           <1>12, <1>13, <1>14, <1>15
        DEF Next, Connections, Requests, Responses, Reconfigure

(* The variables of the deliver side always have their types, and the      *)
(* expirator never holds two entries of one number.                        *)
THEOREM TypeCorrect == SafeSpec => []TypeOK
BY TypeInit, TypeStep, PTL DEF SafeSpec

-----------------------------------------------------------------------------
(* No request is lost track of and none is answered twice.                 *)

(* The first reply makes a reply sequence of length one.                   *)
LEMMA FirstReply ==
  ASSUME NEW x \in Reply
  PROVE  Append(<< >>, x) # << >> /\ Len(Append(<< >>, x)) = 1
BY EmptySeq, AppendProperties

(* Answering requests that have no answer yet.                             *)
LEMMA RespondOnce ==
  ASSUME replies \in [Msg -> Seq(Reply)],
         \A m \in Msg : Len(replies[m]) <= 1,
         NEW S \in SUBSET Msg, S \cap Answered = {},
         NEW st \in Status, NEW of \in Msg \cup {NoMsg},
         Respond(S, st, of)
  PROVE  /\ Answered' = Answered \cup S
         /\ \A m \in Msg : Len(replies'[m]) <= 1
<1> DEFINE r == [status |-> st, of |-> of]
<1>1. r \in Reply
  BY DEF Reply
<1>2. \A m \in S : replies[m] = << >>
  BY DEF Answered
<1>3. \A m \in S : replies'[m] = Append(<< >>, r)
  BY <1>2 DEF Respond
<1>4. Append(<< >>, r) # << >> /\ Len(Append(<< >>, r)) = 1
  BY <1>1, FirstReply
<1>5. \A m \in Msg \ S : replies'[m] = replies[m]
  BY DEF Respond
<1> HIDE DEF r
<1>6. \A m \in S : replies'[m] # << >> /\ Len(replies'[m]) = 1
  BY <1>3, <1>4
<1>7. Answered' = Answered \cup S
  BY <1>5, <1>6 DEF Answered
<1>8. \A m \in Msg : Len(replies'[m]) <= 1
  <2> SUFFICES ASSUME NEW m \in Msg
               PROVE  Len(replies'[m]) <= 1
    OBVIOUS
  <2>1. CASE m \in S
    <3>1. Len(replies'[m]) = 1
      BY <1>6, <2>1, Zenon
    <3> QED BY <3>1
  <2>2. CASE m \notin S
    BY <1>5, <2>2
  <2> QED BY <2>1, <2>2
<1> QED BY <1>7, <1>8

(* send_deliver_sm answers the request, tracks it, or orphans it.          *)
LEMMA SendDeliverSmOnce ==
  ASSUME TypeOK, NEW m \in Msg, m \notin Answered,
         \A q \in Msg : Len(replies[q]) <= 1,
         SendDeliverSm(m)
  PROVE  \/ /\ Answered' = Answered \cup {m}
            /\ \A q \in Msg : Len(replies'[q]) <= 1
            /\ UNCHANGED <<pending, orphaned>>
         \/ /\ \E n : n.msg = m /\ n \notin pending /\ pending' = pending \cup {n}
            /\ UNCHANGED <<replies, orphaned>>
         \/ /\ orphaned' = orphaned \cup {m}
            /\ UNCHANGED <<replies, pending>>
<1> DEFINE Replied(st) == /\ Respond({m}, st, NoMsg)
                          /\ UNCHANGED <<pending, orphaned>>
<1>1. ASSUME NEW st \in Status, Replied(st)
      PROVE  /\ Answered' = Answered \cup {m}
             /\ \A q \in Msg : Len(replies'[q]) <= 1
             /\ UNCHANGED <<pending, orphaned>>
  BY <1>1, RespondOnce DEF TypeOK
<1>2. CASE Replied("dst_esme_not_bound") \/ Replied("rsyserr")
  BY <1>1, <1>2 DEF Status
<1>3. ASSUME NEW s \in binded, SendOn(s, m)
      PROVE  /\ UNCHANGED replies
             /\ \/ /\ \E n : n.msg = m /\ n \notin pending /\ pending' = pending \cup {n}
                   /\ UNCHANGED orphaned
                \/ orphaned' = orphaned \cup {m} /\ UNCHANGED pending
  <2> DEFINE k == NextSeq(s)
             n == [at |-> Slot(index + Timeout), key |-> k, msg |-> m]
  <2>1. Track(k, m) /\ UNCHANGED replies
    BY <1>3 DEF SendOn
  <2>2. CASE \E e \in pending : e.key = k
    BY <2>1, <2>2 DEF Track
  <2>3. CASE ~ \E e \in pending : e.key = k
    <3>1. pending' = pending \cup {n} /\ UNCHANGED orphaned
      BY <2>1, <2>3 DEF Track
    <3>2. n.msg = m /\ n \notin pending
      BY <2>3
    <3> HIDE DEF n
    <3> QED BY <2>1, <3>1, <3>2
  <2> QED BY <2>2, <2>3
<1>4. \/ Replied("dst_esme_not_bound") \/ Replied("rsyserr")
      \/ \E s \in binded : SendOn(s, m)
  BY DEF SendDeliverSm, EndpointGone, SendRefused, tracker
<1> QED BY <1>2, <1>3, <1>4

(* Taking the head off a queue without repetitions takes that request out. *)
LEMMA QueueTail ==
  ASSUME queue \in Seq(Msg), queue # << >>, queue' = Tail(queue),
         \A i, j \in 1 .. Len(queue) : queue[i] = queue[j] => i = j
  PROVE  /\ Head(queue) \in Queued
         /\ Queued' = Queued \ {Head(queue)}
         /\ \A i, j \in 1 .. Len(queue') : queue'[i] = queue'[j] => i = j
<1>1. Len(queue) \in Nat /\ Len(queue) > 0 /\ Head(queue) = queue[1]
  BY EmptySeq, LenProperties
<1>2. Len(queue') = Len(queue) - 1 /\ \A i \in 1 .. Len(queue') : queue'[i] = queue[i + 1]
  BY HeadTailProperties
<1>3. Head(queue) \in Queued
  BY <1>1 DEF Queued
<1>4. \A x \in Queued' : x \in Queued \ {Head(queue)}
  BY <1>1, <1>2 DEF Queued
<1>5. \A x \in Queued \ {Head(queue)} : x \in Queued'
  <2> SUFFICES ASSUME NEW i \in 1 .. Len(queue), queue[i] # queue[1]
               PROVE  queue[i] \in Queued'
    BY <1>1 DEF Queued
  <2>1. i - 1 \in 1 .. Len(queue') /\ (i - 1) + 1 = i
    BY <1>1, <1>2
  <2> QED BY <1>2, <2>1 DEF Queued
<1>6. \A i, j \in 1 .. Len(queue') : queue'[i] = queue'[j] => i = j
  BY <1>1, <1>2
<1> QED BY <1>3, <1>4, <1>5, <1>6

(* A new request at the end of the queue keeps it free of repetitions.     *)
LEMMA QueueAppend ==
  ASSUME queue \in Seq(Msg), NEW m \in Msg, m \notin Queued, queue' = Append(queue, m),
         \A i, j \in 1 .. Len(queue) : queue[i] = queue[j] => i = j
  PROVE  /\ Queued' = Queued \cup {m}
         /\ \A i, j \in 1 .. Len(queue') : queue'[i] = queue'[j] => i = j
<1>1. /\ Len(queue) \in Nat /\ Len(queue') = Len(queue) + 1
      /\ \A i \in 1 .. Len(queue) : queue'[i] = queue[i]
      /\ queue'[Len(queue) + 1] = m
  BY AppendProperties, LenProperties
<1>2. \A i \in 1 .. Len(queue) : queue[i] # m
  BY DEF Queued
<1>3. Queued' = Queued \cup {m}
  BY <1>1 DEF Queued
<1>4. \A i, j \in 1 .. Len(queue') : queue'[i] = queue'[j] => i = j
  BY <1>1, <1>2
<1> QED BY <1>3, <1>4


(* A request that send_deliver_sm is called for, and that is nowhere else, *)
(* is tracked, answered or orphaned afterwards, and the others stay put.   *)
LEMMA SendKeepsAccount ==
  ASSUME TypeOK, Accounted, NEW m \in Msg,
         m \notin Pending \cup Settled, SendDeliverSm(m), dropped' = dropped
  PROVE  /\ Pending' \cup Settled' = Pending \cup Settled \cup {m}
         /\ Pending' \cap Settled' = {}
         /\ Answered' \cap (orphaned' \cup dropped') = {}
         /\ orphaned' \cap dropped' = {}
         /\ \A e, f \in pending' : e.msg = f.msg => e = f
         /\ \A q \in Msg : Len(replies'[q]) <= 1
<1>1. m \notin Answered /\ m \notin orphaned /\ m \notin dropped /\ m \notin Pending
  BY DEF Settled
<1>2. \A q \in Msg : Len(replies[q]) <= 1
  BY DEF Accounted
<1>3. CASE /\ Answered' = Answered \cup {m}
           /\ \A q \in Msg : Len(replies'[q]) <= 1
           /\ UNCHANGED <<pending, orphaned>>
  <2>1. Pending' = Pending
    BY <1>3 DEF Pending
  <2> QED BY <1>1, <1>3, <2>1 DEF Accounted, Settled
<1>4. CASE /\ \E n : n.msg = m /\ n \notin pending /\ pending' = pending \cup {n}
           /\ UNCHANGED <<replies, orphaned>>
  <2>1. Pending' = Pending \cup {m} /\ Answered' = Answered
    BY <1>4 DEF Pending, Answered
  <2>2. \A e, f \in pending' : e.msg = f.msg => e = f
    BY <1>1, <1>4 DEF Accounted, Pending
  <2> QED BY <1>1, <1>2, <1>4, <2>1, <2>2 DEF Accounted, Settled
<1>5. CASE orphaned' = orphaned \cup {m} /\ UNCHANGED <<replies, pending>>
  <2>1. Pending' = Pending /\ Answered' = Answered
    BY <1>5 DEF Pending, Answered
  <2> QED BY <1>1, <1>2, <1>5, <2>1 DEF Accounted, Settled
<1> QED BY <1>1, <1>2, <1>3, <1>4, <1>5, SendDeliverSmOnce

(* Requests leave the expirator by being answered.                         *)
LEMMA AnswerKeepsAccount ==
  ASSUME TypeOK, Accounted, NEW D \in SUBSET pending,
         NEW st \in Status, NEW of \in Msg \cup {NoMsg},
         Respond({e.msg : e \in D}, st, of), pending' = pending \ D,
         UNCHANGED <<queue, accepted, orphaned, dropped>>
  PROVE  Accounted'
<1> DEFINE S == {e.msg : e \in D}
<1>1. S \in SUBSET Msg /\ S \subseteq Pending
  BY DEF Pending, TypeOK, Entry
<1>2. S \cap Answered = {}
  BY <1>1 DEF Accounted, Settled
<1>3. /\ Answered' = Answered \cup S
      /\ \A m \in Msg : Len(replies'[m]) <= 1
  BY <1>1, <1>2, RespondOnce DEF TypeOK, Accounted
<1>4. Pending' = Pending \ S
  BY DEF Pending, Accounted
<1>5. Queued' = Queued /\ Settled' = Settled \cup S
  BY <1>3 DEF Queued, Settled
<1>6. \A e, f \in pending' : e.msg = f.msg => e = f
  BY DEF Accounted
<1>7. \A i, j \in 1 .. Len(queue') : queue'[i] = queue'[j] => i = j
  BY DEF Accounted
<1> HIDE DEF S
<1>8. S \cap (orphaned \cup dropped) = {} /\ S \cap Queued = {}
  BY <1>1 DEF Accounted, Settled
<1> QED BY <1>1, <1>3, <1>4, <1>5, <1>6, <1>7, <1>8 DEF Accounted

LEMMA AccountedInit == Init => Accounted
<1> SUFFICES ASSUME Init
             PROVE  Accounted
  OBVIOUS
<1>1. Queued = {} /\ Pending = {}
  BY EmptySeq DEF Init, Queued, Pending
<1>2. Settled = {} /\ \A m \in Msg : Len(replies[m]) <= 1
  BY EmptySeq DEF Init, Settled, Answered
<1>3. \A i, j \in 1 .. Len(queue) : queue[i] = queue[j] => i = j
  BY EmptySeq DEF Init
<1> QED BY <1>1, <1>2, <1>3 DEF Init, Accounted, Settled

LEMMA AccountedStep == TypeOK /\ Accounted /\ [Next]_vars => Accounted'
<1> SUFFICES ASSUME TypeOK, Accounted, [Next]_vars
             PROVE  Accounted'
  OBVIOUS
<1> USE DEF conf, link, tracker, history
<1>1. CASE UNCHANGED <<queue, pending, accepted, replies, orphaned, dropped>>
  BY <1>1 DEF Accounted, Queued, Pending, Settled, Answered
<1>2. ASSUME NEW s \in Session, OnSessionClose(s)
      PROVE  Accounted'
  <2>1. pending \in SUBSET pending /\ pending' = pending \ pending
    BY <1>2 DEF OnSessionClose
  <2>2. Respond({e.msg : e \in pending}, "rtimeout", NoMsg)
    BY <1>2 DEF OnSessionClose, Pending
  <2>3. UNCHANGED <<queue, accepted, orphaned, dropped>>
    BY <1>2 DEF OnSessionClose
  <2> QED BY <2>1, <2>2, <2>3, AnswerKeepsAccount DEF Status
<1>3. ASSUME NEW m \in Msg, m \notin accepted, accepted' = accepted \cup {m},
             Respond({m}, "rinvdstadr", NoMsg),
             UNCHANGED <<queue, pending, orphaned, dropped>>
      PROVE  Accounted'
  <2>1. m \notin Queued /\ m \notin Pending /\ m \notin Settled
    BY <1>3 DEF Accounted
  <2>2. /\ Answered' = Answered \cup {m}
        /\ \A q \in Msg : Len(replies'[q]) <= 1
    <3>1. {m} \in SUBSET Msg /\ {m} \cap Answered = {}
      BY <2>1 DEF Settled
    <3>2. \A q \in Msg : Len(replies[q]) <= 1
      BY DEF Accounted
    <3>3. replies \in [Msg -> Seq(Reply)]
      BY DEF TypeOK
    <3> QED BY <1>3, <3>1, <3>2, <3>3, RespondOnce DEF Status
  <2>3. Queued' = Queued /\ Pending' = Pending
    BY <1>3 DEF Queued, Pending
  <2> QED BY <1>3, <2>1, <2>2, <2>3 DEF Accounted, Settled
<1>4. ASSUME NEW m \in Msg, ReceiveDeliver(m)
      PROVE  Accounted'
  <2>1. CASE client = "present"
    <3>1. m \notin Queued /\ m \notin Pending /\ m \notin Settled
      BY <1>4 DEF ReceiveDeliver, Accounted
    <3>2. queue' = Append(queue, m) /\ queue \in Seq(Msg) /\ UNCHANGED replies
      BY <1>4, <2>1 DEF ReceiveDeliver, TypeOK
    <3>3. \A i, j \in 1 .. Len(queue) : queue[i] = queue[j] => i = j
      BY DEF Accounted
    <3>4. /\ Queued' = Queued \cup {m}
          /\ \A i, j \in 1 .. Len(queue') : queue'[i] = queue'[j] => i = j
      BY <3>1, <3>2, <3>3, QueueAppend
    <3>5. /\ accepted' = accepted \cup {m}
          /\ UNCHANGED <<pending, orphaned, dropped>>
      BY <1>4 DEF ReceiveDeliver
    <3>6. Pending' = Pending /\ Answered' = Answered /\ Settled' = Settled
      BY <3>2, <3>5 DEF Pending, Answered, Settled
    <3> QED BY <3>1, <3>2, <3>4, <3>5, <3>6 DEF Accounted
  <2>2. CASE client # "present"
    <3>1. Respond({m}, "rinvdstadr", NoMsg)
      BY <1>4, <2>2 DEF ReceiveDeliver
    <3>2. /\ m \notin accepted /\ accepted' = accepted \cup {m}
          /\ UNCHANGED <<queue, pending, orphaned, dropped>>
      BY <1>4, <2>2 DEF ReceiveDeliver
    <3> QED BY <1>3, <3>1, <3>2
  <2> QED BY <2>1, <2>2
<1>5. ASSUME NEW m \in Msg, ReceiveReport(m)
      PROVE  Accounted'
  <2>1. /\ m \notin accepted /\ accepted' = accepted \cup {m}
        /\ UNCHANGED <<queue, dropped>>
    BY <1>5 DEF ReceiveReport
  <2>2. CASE client = "present"
    <3>1. m \notin Queued /\ m \notin Pending \cup Settled
      BY <2>1 DEF Accounted
    <3>2. SendDeliverSm(m)
      BY <1>5, <2>2 DEF ReceiveReport
    <3>3. /\ Pending' \cup Settled' = Pending \cup Settled \cup {m}
          /\ Pending' \cap Settled' = {}
          /\ Answered' \cap (orphaned' \cup dropped') = {}
          /\ orphaned' \cap dropped' = {}
          /\ \A e, f \in pending' : e.msg = f.msg => e = f
          /\ \A q \in Msg : Len(replies'[q]) <= 1
      BY <2>1, <3>1, <3>2, SendKeepsAccount
    <3>4. /\ Queued' = Queued
          /\ \A i, j \in 1 .. Len(queue') : queue'[i] = queue'[j] => i = j
      BY <2>1 DEF Queued, Accounted
    <3> QED BY <2>1, <3>1, <3>3, <3>4 DEF Accounted
  <2>3. CASE client # "present"
    <3>1. /\ Respond({m}, "rinvdstadr", NoMsg)
          /\ UNCHANGED <<pending, orphaned>>
      BY <1>5, <2>3 DEF ReceiveReport
    <3> QED BY <1>3, <2>1, <3>1
  <2> QED BY <2>2, <2>3
<1>6. ASSUME SendProcess
      PROVE  Accounted'
  <2> DEFINE m == Head(queue)
  <2>1. /\ queue \in Seq(Msg) /\ queue # << >> /\ queue' = Tail(queue)
        /\ SendDeliverSm(m) /\ UNCHANGED <<accepted, dropped>>
    BY <1>6 DEF SendProcess, TypeOK
  <2>2. \A i, j \in 1 .. Len(queue) : queue[i] = queue[j] => i = j
    BY DEF Accounted
  <2>3. /\ m \in Queued /\ Queued' = Queued \ {m}
        /\ \A i, j \in 1 .. Len(queue') : queue'[i] = queue'[j] => i = j
    BY <2>1, <2>2, QueueTail
  <2>4. m \in Msg /\ m \notin Pending \cup Settled
    BY <2>1, <2>3 DEF Accounted
  <2>5. /\ Pending' \cup Settled' = Pending \cup Settled \cup {m}
        /\ Pending' \cap Settled' = {}
        /\ Answered' \cap (orphaned' \cup dropped') = {}
        /\ orphaned' \cap dropped' = {}
        /\ \A e, f \in pending' : e.msg = f.msg => e = f
        /\ \A q \in Msg : Len(replies'[q]) <= 1
    BY <2>1, <2>4, SendKeepsAccount
  <2> HIDE DEF m
  <2> QED BY <2>1, <2>3, <2>4, <2>5 DEF Accounted
<1>7. ASSUME NEW p \in wire, NEW st \in {"ok", "error"}, OnResponse(p, st)
      PROVE  Accounted'
  <2>1. PICK e \in pending : /\ e.key = p.seqno
                             /\ pending' = {f \in pending : f.key # p.seqno}
                             /\ Respond({e.msg}, st, p.msg)
    BY <1>7 DEF OnResponse
  <2>2. pending' = pending \ {e}
    BY <2>1 DEF TypeOK
  <2>3. {e.msg} = {f.msg : f \in {e}} /\ {e} \in SUBSET pending
    OBVIOUS
  <2>4. p.msg \in Msg \cup {NoMsg} /\ st \in Status
    BY DEF TypeOK, Pdu, Status
  <2>5. UNCHANGED <<queue, accepted, orphaned, dropped>>
    BY <1>7 DEF OnResponse
  <2> DEFINE D == {e}
  <2>6. Respond({f.msg : f \in D}, st, p.msg)
    BY <2>1, <2>3
  <2>7. D \in SUBSET pending /\ pending' = pending \ D
    BY <2>2
  <2> HIDE DEF D
  <2> QED BY <2>4, <2>5, <2>6, <2>7, AnswerKeepsAccount
<1>8. ASSUME OnTimer
      PROVE  Accounted'
  <2> DEFINE D == {f \in pending : f.at = index}
  <2>1. D \in SUBSET pending /\ pending' = pending \ D
    BY <1>8 DEF OnTimer
  <2>2. Respond({e.msg : e \in D}, "rtimeout", NoMsg)
    BY <1>8 DEF OnTimer
  <2>3. UNCHANGED <<queue, accepted, orphaned, dropped>>
    BY <1>8 DEF OnTimer
  <2> HIDE DEF D
  <2> QED BY <2>1, <2>2, <2>3, AnswerKeepsAccount DEF Status
<1>9. ASSUME Destroy
      PROVE  Accounted'
  <2>1. /\ dropped' = dropped \cup Queued /\ queue' = << >>
        /\ UNCHANGED <<pending, accepted, replies, orphaned>>
    BY <1>9 DEF Destroy
  <2>2. Queued' = {} /\ \A i, j \in 1 .. Len(queue') : queue'[i] = queue'[j] => i = j
    BY <2>1, EmptySeq DEF Queued
  <2>3. Pending' = Pending /\ Answered' = Answered /\ Settled' = Settled \cup Queued
    BY <2>1 DEF Pending, Answered, Settled
  <2>4. Queued \cap Answered = {} /\ Queued \cap orphaned = {}
    BY DEF Accounted, Settled
  <2> QED BY <2>1, <2>2, <2>3, <2>4 DEF Accounted
<1>10. \/ UNCHANGED <<queue, pending, accepted, replies, orphaned, dropped>>
       \/ \E s \in Session : OnSessionClose(s)
       \/ \E m \in Msg : ReceiveDeliver(m) \/ ReceiveReport(m)
       \/ SendProcess \/ OnTimer \/ Destroy
       \/ \E p \in wire : \E st \in {"ok", "error"} : OnResponse(p, st)
  BY DEF Next, Connections, Requests, Responses, Reconfigure, vars, Bind, RejectBind,
         EnquireLink, PeerUnbind, SessionClose, OnLateResponse, SetMaxSession, Remove
<1> QED BY <1>1, <1>2, <1>4, <1>5, <1>6, <1>7, <1>8, <1>9, <1>10

(* Whatever the ESME, the configuration and the clock do, a request taken  *)
(* from pinex is queued, tracked, answered, orphaned or dropped - exactly  *)
(* one of these - and is answered at most once.                            *)
THEOREM RequestsAccounted == SafeSpec => []Accounted
BY TypeCorrect, AccountedInit, AccountedStep, TypeInit, TypeStep, PTL DEF SafeSpec

-----------------------------------------------------------------------------
(* The deliver side implements the request/reply promise.                  *)

(* What the peer sees depends on three sets alone.                         *)
SeenBy(A, L, C) ==
  [m \in Msg |-> IF m \in A THEN "answered"
                 ELSE IF m \in L THEN "lost"
                 ELSE IF m \in C THEN "accepted" ELSE "new"]

LEMMA StatusBySets == Accounted => ServiceStatus = SeenBy(Answered, Lost, accepted)
<1> SUFFICES ASSUME Accounted, NEW m \in Msg
             PROVE  ServiceStatus[m] = SeenBy(Answered, Lost, accepted)[m]
  BY DEF ServiceStatus, SeenBy
<1>1. ~ (Len(replies[m]) > 1)
  BY DEF Accounted
<1> QED BY <1>1 DEF ServiceStatus, SeenBy

LEMMA StatusBySetsNext ==
  (Accounted => ServiceStatus = SeenBy(Answered, Lost, accepted))'
BY StatusBySets, PTL

(* A handler that only answers, only gives up or only accepts requests is  *)
(* a step of the promise.                                                  *)
LEMMA ServiceMove ==
  ASSUME TypeOK, Accounted, TypeOK', Accounted', NEW S \in SUBSET Msg,
         accepted \subseteq accepted', accepted' \subseteq accepted \cup S,
         S \cap (Answered \cup Lost) = {},
         \/ Answered' = Answered \cup S /\ Lost' = Lost
         \/ Answered' = Answered /\ Lost' = Lost \cup S
         \/ Answered' = Answered /\ Lost' = Lost /\ S = {}
         \/ /\ Answered' = Answered /\ Lost' = Lost
            /\ accepted' = accepted \cup S /\ S \cap accepted = {}
  PROVE  [Service!Next]_ServiceStatus
<1>1. /\ ServiceStatus = SeenBy(Answered, Lost, accepted)
      /\ ServiceStatus' = SeenBy(Answered', Lost', accepted')
  BY StatusBySets, StatusBySetsNext
<1>2. \A m \in S : ServiceStatus[m] \in {"new", "accepted"}
  BY <1>1 DEF SeenBy
<1>3. CASE S = {}
  <2>1. ServiceStatus' = ServiceStatus
    BY <1>1, <1>3 DEF SeenBy
  <2> QED BY <2>1
<1>4. CASE S # {} /\ Answered' = Answered \cup S /\ Lost' = Lost
  <2>1. ServiceStatus' = [m \in Msg |-> IF m \in S THEN "answered" ELSE ServiceStatus[m]]
    BY <1>1, <1>4 DEF SeenBy
  <2>2. Service!Answer(S)
    BY <1>2, <1>4, <2>1 DEF Service!Answer, Service!Move
  <2> QED BY <2>2 DEF Service!Next
<1>5. CASE S # {} /\ Answered' = Answered /\ Lost' = Lost \cup S
  <2>1. ServiceStatus' = [m \in Msg |-> IF m \in S THEN "lost" ELSE ServiceStatus[m]]
    BY <1>1, <1>5 DEF SeenBy
  <2>2. Service!Lose(S)
    BY <1>2, <1>5, <2>1 DEF Service!Lose, Service!Move
  <2> QED BY <2>2 DEF Service!Next
<1>6. CASE /\ S # {} /\ Answered' = Answered /\ Lost' = Lost
           /\ accepted' = accepted \cup S /\ S \cap accepted = {}
  <2>1. ServiceStatus' = [m \in Msg |-> IF m \in S THEN "accepted" ELSE ServiceStatus[m]]
    BY <1>1, <1>6 DEF SeenBy
  <2>2. \A m \in S : ServiceStatus[m] \in {"new"}
    BY <1>1, <1>6 DEF SeenBy
  <2>3. Service!Accept(S)
    BY <1>6, <2>1, <2>2 DEF Service!Accept, Service!Move
  <2> QED BY <2>3 DEF Service!Next
<1> QED BY <1>3, <1>4, <1>5, <1>6

LEMMA ServiceInit == Init => Service!Init
<1> SUFFICES ASSUME Init
             PROVE  Service!Init
  OBVIOUS
<1>1. TypeOK /\ Accounted
  BY TypeInit, AccountedInit
<1>2. Answered = {} /\ Lost = {} /\ accepted = {}
  BY DEF Init, Answered, Lost
<1> QED BY <1>1, <1>2, StatusBySets DEF Service!Init, SeenBy

LEMMA ServiceStep ==
  TypeOK /\ Accounted /\ TypeOK' /\ Accounted' /\ [Next]_vars
    => [Service!Next]_ServiceStatus
<1> SUFFICES ASSUME TypeOK, Accounted, TypeOK', Accounted', [Next]_vars
             PROVE  [Service!Next]_ServiceStatus
  OBVIOUS
<1> USE DEF conf, link, tracker, history
<1>1. CASE UNCHANGED <<accepted, replies, orphaned, dropped>>
  <2>1. Answered' = Answered /\ Lost' = Lost /\ accepted' = accepted
    BY <1>1 DEF Answered, Lost
  <2> DEFINE S == {}
  <2>2. S \in SUBSET Msg /\ S = {}
    OBVIOUS
  <2> HIDE DEF S
  <2> QED BY <2>1, <2>2, ServiceMove
<1>2. ASSUME NEW S \in SUBSET Msg, NEW st \in Status, NEW of \in Msg \cup {NoMsg},
             Respond(S, st, of), S \cap (Answered \cup Lost) = {},
             accepted \subseteq accepted', accepted' \subseteq accepted \cup S,
             UNCHANGED <<orphaned, dropped>>
      PROVE  [Service!Next]_ServiceStatus
  <2>1. Answered' = Answered \cup S
    <3>1. replies \in [Msg -> Seq(Reply)] /\ \A m \in Msg : Len(replies[m]) <= 1
      BY DEF TypeOK, Accounted
    <3>2. S \cap Answered = {}
      BY <1>2
    <3> QED BY <1>2, <3>1, <3>2, RespondOnce
  <2>2. Lost' = Lost
    BY <1>2 DEF Lost
  <2> QED BY <1>2, <2>1, <2>2, ServiceMove
<1>3. ASSUME NEW D \in SUBSET pending, NEW st \in Status, NEW of \in Msg \cup {NoMsg},
             Respond({e.msg : e \in D}, st, of),
             UNCHANGED <<accepted, orphaned, dropped>>
      PROVE  [Service!Next]_ServiceStatus
  <2> DEFINE S == {e.msg : e \in D}
  <2>1. S \in SUBSET Msg /\ S \cap (Answered \cup Lost) = {}
    BY DEF TypeOK, Entry, Accounted, Pending, Settled, Lost
  <2>2. Respond(S, st, of)
    BY <1>3
  <2> HIDE DEF S
  <2> QED BY <1>2, <1>3, <2>1, <2>2
<1>4. ASSUME NEW m \in Msg, m \notin Settled, SendDeliverSm(m), dropped' = dropped,
             accepted \subseteq accepted', accepted' \subseteq accepted \cup {m},
             m \in accepted'
      PROVE  [Service!Next]_ServiceStatus
  <2>1. m \notin Answered /\ m \notin Lost /\ \A q \in Msg : Len(replies[q]) <= 1
    BY <1>4 DEF Settled, Lost, Accounted
  <2> DEFINE S == {m}
  <2>2. /\ S \in SUBSET Msg /\ S \cap (Answered \cup Lost) = {}
        /\ accepted' \subseteq accepted \cup S
    BY <1>4, <2>1
  <2>3. CASE Answered' = Answered \cup {m} /\ UNCHANGED orphaned
    <3>1. Answered' = Answered \cup S /\ Lost' = Lost
      BY <1>4, <2>3 DEF Lost
    <3> HIDE DEF S
    <3> QED BY <1>4, <2>2, <3>1, ServiceMove
  <2>4. CASE UNCHANGED <<replies, orphaned>>
    <3>1. Answered' = Answered /\ Lost' = Lost
      BY <1>4, <2>4 DEF Answered, Lost
    <3>2. CASE m \in accepted
      <4>1. accepted' = accepted
        BY <1>4, <3>2
      <4> QED BY <1>1, <1>4, <2>4, <4>1
    <3>3. CASE m \notin accepted
      <4>1. accepted' = accepted \cup S /\ S \cap accepted = {}
        BY <1>4, <3>3
      <4> HIDE DEF S
      <4> QED BY <1>4, <2>2, <3>1, <4>1, ServiceMove
    <3> QED BY <3>2, <3>3
  <2>5. CASE orphaned' = orphaned \cup {m} /\ UNCHANGED replies
    <3>1. Answered' = Answered /\ Lost' = Lost \cup S
      BY <1>4, <2>5 DEF Answered, Lost
    <3> HIDE DEF S
    <3> QED BY <1>4, <2>2, <3>1, ServiceMove
  <2> QED BY <1>4, <2>1, <2>3, <2>4, <2>5, SendDeliverSmOnce
<1>5. ASSUME NEW s \in Session, OnSessionClose(s)
      PROVE  [Service!Next]_ServiceStatus
  <2>1. Respond({e.msg : e \in pending}, "rtimeout", NoMsg)
    BY <1>5 DEF OnSessionClose, Pending
  <2> QED BY <1>3, <1>5, <2>1 DEF OnSessionClose, Status
<1>6. ASSUME NEW m \in Msg, m \notin accepted, accepted' = accepted \cup {m},
             Respond({m}, "rinvdstadr", NoMsg), UNCHANGED <<orphaned, dropped>>
      PROVE  [Service!Next]_ServiceStatus
  <2> DEFINE S == {m}
  <2>1. S \in SUBSET Msg /\ S \cap (Answered \cup Lost) = {}
    BY <1>6 DEF Accounted, Settled, Lost
  <2>2. /\ Respond(S, "rinvdstadr", NoMsg)
        /\ accepted \subseteq accepted' /\ accepted' \subseteq accepted \cup S
    BY <1>6
  <2> HIDE DEF S
  <2> QED BY <1>2, <1>6, <2>1, <2>2 DEF Status
<1>7. ASSUME NEW m \in Msg, ReceiveDeliver(m)
      PROVE  [Service!Next]_ServiceStatus
  <2>1. CASE client = "present"
    <3>1. /\ m \notin accepted /\ accepted' = accepted \cup {m}
          /\ UNCHANGED <<replies, orphaned, dropped>>
      BY <1>7, <2>1 DEF ReceiveDeliver
    <3>2. Answered' = Answered /\ Lost' = Lost
      BY <3>1 DEF Answered, Lost
    <3> DEFINE S == {m}
    <3>3. /\ S \in SUBSET Msg /\ S \cap (Answered \cup Lost) = {}
          /\ accepted' = accepted \cup S /\ S \cap accepted = {}
      BY <3>1 DEF Accounted, Settled, Lost
    <3> HIDE DEF S
    <3> QED BY <3>2, <3>3, ServiceMove
  <2>2. CASE client # "present"
    <3>1. Respond({m}, "rinvdstadr", NoMsg)
      BY <1>7, <2>2 DEF ReceiveDeliver
    <3>2. /\ m \notin accepted /\ accepted' = accepted \cup {m}
          /\ UNCHANGED <<orphaned, dropped>>
      BY <1>7, <2>2 DEF ReceiveDeliver
    <3> QED BY <1>6, <3>1, <3>2
  <2> QED BY <2>1, <2>2
<1>8. ASSUME NEW m \in Msg, ReceiveReport(m)
      PROVE  [Service!Next]_ServiceStatus
  <2>1. /\ m \notin accepted /\ accepted' = accepted \cup {m}
        /\ UNCHANGED dropped
    BY <1>8 DEF ReceiveReport
  <2>2. CASE client = "present"
    <3>1. SendDeliverSm(m)
      BY <1>8, <2>2 DEF ReceiveReport
    <3>2. m \notin Settled
      BY <2>1 DEF Accounted
    <3> QED BY <1>4, <2>1, <3>1, <3>2
  <2>3. CASE client # "present"
    <3>1. Respond({m}, "rinvdstadr", NoMsg) /\ UNCHANGED orphaned
      BY <1>8, <2>3 DEF ReceiveReport
    <3> QED BY <1>6, <2>1, <3>1
  <2> QED BY <2>2, <2>3
<1>9. ASSUME SendProcess
      PROVE  [Service!Next]_ServiceStatus
  <2>1. /\ queue \in Seq(Msg) /\ queue # << >> /\ queue' = Tail(queue)
        /\ SendDeliverSm(Head(queue)) /\ UNCHANGED <<accepted, dropped>>
    BY <1>9 DEF SendProcess, TypeOK
  <2>2. \A i, j \in 1 .. Len(queue) : queue[i] = queue[j] => i = j
    BY DEF Accounted
  <2>3. Head(queue) \in Queued
    BY <2>1, <2>2, QueueTail
  <2> DEFINE m == Head(queue)
  <2>4. /\ m \in Msg /\ m \notin Settled /\ m \in accepted' /\ SendDeliverSm(m)
        /\ accepted' \subseteq accepted \cup {m}
    BY <2>1, <2>3 DEF Accounted
  <2> HIDE DEF m
  <2> QED BY <1>4, <2>1, <2>4
<1>10. ASSUME NEW p \in wire, NEW st \in {"ok", "error"}, OnResponse(p, st)
       PROVE  [Service!Next]_ServiceStatus
  <2>1. PICK e \in pending : Respond({e.msg}, st, p.msg)
    BY <1>10 DEF OnResponse
  <2> DEFINE D == {e}
  <2>2. D \in SUBSET pending /\ Respond({f.msg : f \in D}, st, p.msg)
    BY <2>1
  <2>3. st \in Status /\ p.msg \in Msg \cup {NoMsg}
    BY DEF Status, TypeOK, Pdu
  <2>4. UNCHANGED <<accepted, orphaned, dropped>>
    BY <1>10 DEF OnResponse
  <2> HIDE DEF D
  <2> QED BY <1>3, <2>2, <2>3, <2>4
<1>11. ASSUME OnTimer
       PROVE  [Service!Next]_ServiceStatus
  <2> DEFINE D == {f \in pending : f.at = index}
  <2>1. D \in SUBSET pending /\ Respond({e.msg : e \in D}, "rtimeout", NoMsg)
    BY <1>11 DEF OnTimer
  <2>2. UNCHANGED <<accepted, orphaned, dropped>>
    BY <1>11 DEF OnTimer
  <2> HIDE DEF D
  <2> QED BY <1>3, <2>1, <2>2 DEF Status
<1>12. ASSUME Destroy
       PROVE  [Service!Next]_ServiceStatus
  <2>1. /\ Lost' = Lost \cup Queued /\ Answered' = Answered /\ accepted' = accepted
    BY <1>12 DEF Destroy, Lost, Answered
  <2>2. Queued \in SUBSET Msg /\ Queued \cap (Answered \cup Lost) = {}
    BY DEF Accounted, Settled, Lost, TypeOK
  <2> QED BY <2>1, <2>2, ServiceMove
<1>13. \/ UNCHANGED <<accepted, replies, orphaned, dropped>>
       \/ \E s \in Session : OnSessionClose(s)
       \/ \E m \in Msg : ReceiveDeliver(m) \/ ReceiveReport(m)
       \/ SendProcess \/ OnTimer \/ Destroy
       \/ \E p \in wire : \E st \in {"ok", "error"} : OnResponse(p, st)
  BY DEF Next, Connections, Requests, Responses, Reconfigure, vars, Bind, RejectBind,
         EnquireLink, PeerUnbind, SessionClose, OnLateResponse, SetMaxSession, Remove
<1> QED BY <1>1, <1>5, <1>7, <1>8, <1>9, <1>10, <1>11, <1>12, <1>13

(* The handlers of the deliver side implement RequestReply: a request is   *)
(* accepted once, answered at most once, and no answer follows after it    *)
(* was given up.                                                           *)
THEOREM DeliverImplementsService == SafeSpec => DeliverService
<1>1. SafeSpec => [](TypeOK /\ Accounted)
  BY TypeCorrect, RequestsAccounted, PTL
<1>2. SafeSpec => [][Service!Next]_ServiceStatus
  BY <1>1, ServiceStep, PTL DEF SafeSpec
<1> QED BY <1>2, ServiceInit, PTL DEF SafeSpec, DeliverService, Service!SafeSpec

-----------------------------------------------------------------------------
(* With one session at a time the expirator's numbers identify delivers.   *)

(* What makes the number of a response mean one deliver: there is one      *)
(* session, nothing is tracked without it, and its numbers only grow.      *)
OneSession ==
  /\ \A s, t \in binded : s = t
  /\ \A s \in Session : sess[s] \in {"open", "unbinding", "closed"} => s \in binded
  /\ \A e \in pending : \E s \in binded : e.key <= seq[s]
  /\ \A p \in wire : p.session \in binded /\ p.seqno <= seq[p.session]
  /\ \A p \in wire : sess[p.session] # "closed"
  /\ \A p \in wire, e \in pending : e.key = p.seqno => e.msg = p.msg
  /\ Correlated
  /\ NothingOrphaned

(* A reply keeps the correlation when it is made up or comes from the      *)
(* request's own response.                                                 *)
LEMMA RespondCorrelated ==
  ASSUME Correlated, replies \in [Msg -> Seq(Reply)],
         NEW S \in SUBSET Msg, S \cap Answered = {},
         NEW st \in Status, NEW of \in Msg \cup {NoMsg},
         of # NoMsg => S \subseteq {of}, Respond(S, st, of)
  PROVE  Correlated'
<1> DEFINE r == [status |-> st, of |-> of]
<1>1. r \in Reply
  BY DEF Reply
<1>2. \A m \in S : replies'[m] = Append(<< >>, r)
  BY DEF Respond, Answered
<1>3. \A m \in Msg \ S : replies'[m] = replies[m]
  BY DEF Respond
<1>4. Len(Append(<< >>, r)) = 1 /\ Append(<< >>, r)[1] = r
  <2> HIDE DEF r
  <2> QED BY <1>1, EmptySeq, AppendProperties
<1>5. \A m \in S : r.of \in {NoMsg, m}
  OBVIOUS
<1> HIDE DEF r
<1> SUFFICES ASSUME NEW m \in Msg, NEW i \in 1 .. Len(replies'[m])
             PROVE  replies'[m][i].of \in {NoMsg, m}
  BY DEF Correlated
<1>6. CASE m \in S
  <2>1. replies'[m] = Append(<< >>, r)
    BY <1>2, <1>6, Zenon
  <2>2. i \in 1 .. Len(Append(<< >>, r))
    BY <2>1
  <2>3. i = 1
    BY <2>2, <1>4
  <2>4. replies'[m][i] = r
    BY <2>1, <2>3, <1>4
  <2> QED BY <1>5, <1>6, <2>4, Zenon
<1>7. CASE m \notin S
  <2>1. replies'[m] = replies[m]
    BY <1>3, <1>7
  <2> QED BY <2>1 DEF Correlated
<1> QED BY <1>6, <1>7

(* Sending on the one session takes a fresh number.                        *)
LEMMA SendOneSession ==
  ASSUME TypeOK, Accounted, OneSession, NumbersLeft, NEW m \in Msg, m \notin Answered,
         SendDeliverSm(m), UNCHANGED <<binded, sess>>
  PROVE  OneSession'
<1>1. ASSUME NEW st \in Status, Respond({m}, st, NoMsg)
      PROVE  Correlated'
  <2> DEFINE S == {m}
  <2>1. S \in SUBSET Msg /\ S \cap Answered = {} /\ Respond(S, st, NoMsg)
    BY <1>1
  <2> HIDE DEF S
  <2> QED BY <2>1, RespondCorrelated DEF TypeOK, OneSession
<1>2. ASSUME NEW s \in binded
      PROVE  /\ s \in Session /\ NextSeq(s) = seq[s] + 1
             /\ seq[s] \in Nat /\ NextSeq(s) \in 1 .. MaxSequence
  BY ConstantsAssumption DEF TypeOK, NextSeq, NumbersLeft
<1>3. CASE \E s \in binded : SendOn(s, m)
  <2> PICK s \in binded : SendOn(s, m)
    BY <1>3
  <2> DEFINE k == NextSeq(s)
             n == [at |-> Slot(index + Timeout), key |-> k, msg |-> m]
             w == [session |-> s, seqno |-> k, msg |-> m]
  <2>1. /\ Track(k, m) /\ seq' = [seq EXCEPT ![s] = k]
        /\ wire' = wire \cup {w} /\ UNCHANGED replies
    BY DEF SendOn
  <2>2. /\ s \in Session /\ k = seq[s] + 1 /\ seq[s] \in Nat
        /\ \A t \in binded : t = s
    BY <1>2 DEF OneSession
  <2>3. \A e \in pending : e.key \in Nat /\ e.key <= seq[s]
    BY <2>2 DEF OneSession, TypeOK, Entry
  <2>4. \A p \in wire : p.session = s /\ p.seqno \in Nat /\ p.seqno <= seq[s]
    BY <2>2 DEF OneSession, TypeOK, Pdu
  <2>5. ~ \E e \in pending : e.key = k
    BY <2>2, <2>3
  <2>6. pending' = pending \cup {n} /\ orphaned' = orphaned
    BY <2>1, <2>5 DEF Track
  <2>7. seq'[s] = k
    BY <2>1, <2>2 DEF TypeOK
  <2>8. /\ n.key = k /\ n.msg = m /\ w.session = s /\ w.seqno = k /\ w.msg = m
    OBVIOUS
  <2> HIDE DEF n, w, k
  <2>9. \A e \in pending' : e.key <= seq'[s]
    BY <2>2, <2>3, <2>6, <2>7, <2>8
  <2>10. \A p \in wire' : p.session = s /\ p.seqno <= seq'[s]
    BY <2>1, <2>2, <2>4, <2>7, <2>8
  <2>11. \A p \in wire', e \in pending' : e.key = p.seqno => e.msg = p.msg
    <3> SUFFICES ASSUME NEW p \in wire', NEW e \in pending', e.key = p.seqno
                 PROVE  e.msg = p.msg
      OBVIOUS
    <3>1. CASE p \in wire /\ e \in pending
      BY <3>1 DEF OneSession
    <3>2. CASE p = w /\ e = n
      BY <3>2, <2>8
    <3>3. CASE p = w /\ e \in pending
      BY <3>3, <2>2, <2>3, <2>8
    <3>4. CASE p \in wire /\ e = n
      BY <3>4, <2>2, <2>4, <2>8
    <3> QED BY <2>1, <2>6, <3>1, <3>2, <3>3, <3>4
  <2>12. Correlated' /\ NothingOrphaned'
    BY <2>1, <2>6 DEF OneSession, Correlated, NothingOrphaned
  <2>13. \A p \in wire' : sess'[p.session] # "closed"
    <3>1. sess[s] = "open" /\ sess' = sess
      BY DEF SendOn
    <3> QED BY <2>1, <2>8, <3>1 DEF OneSession
  <2> QED BY <2>9, <2>10, <2>11, <2>12, <2>13 DEF OneSession
<1>4. CASE /\ \E st \in Status : Respond({m}, st, NoMsg)
           /\ \A s \in binded : seq'[s] >= seq[s]
           /\ UNCHANGED <<wire, pending, orphaned>>
  <2>1. Correlated'
    BY <1>1, <1>4
  <2>2. \A s \in binded : seq[s] \in Nat /\ seq'[s] \in Nat
    BY <1>2, SendDeliverSmType DEF TypeOK
  <2>3. \A e \in pending' : \E s \in binded' : e.key <= seq'[s]
    <3> SUFFICES ASSUME NEW e \in pending
                 PROVE  \E s \in binded : e.key <= seq'[s]
      BY <1>4
    <3> PICK s \in binded : e.key <= seq[s]
      BY DEF OneSession
    <3>1. e.key \in Nat
      BY DEF TypeOK, Entry
    <3>2. e.key <= seq'[s]
      BY <1>4, <2>2, <3>1
    <3> QED BY <3>2
  <2>4. \A p \in wire' : p.session \in binded' /\ p.seqno <= seq'[p.session]
    BY <1>4, <2>2 DEF OneSession, TypeOK, Pdu
  <2>5. \A p \in wire' : sess'[p.session] # "closed"
    BY <1>4 DEF OneSession
  <2> QED BY <1>4, <2>1, <2>3, <2>4, <2>5 DEF OneSession, NothingOrphaned
<1>5. CASE /\ Respond({m}, "dst_esme_not_bound", NoMsg) \/ Respond({m}, "rsyserr", NoMsg)
           /\ UNCHANGED <<seq, wire, pending, orphaned>>
  <2>1. \A s \in binded : seq'[s] >= seq[s]
    BY <1>2, <1>5
  <2> QED BY <1>4, <1>5, <2>1 DEF Status
<1>6. CASE \E s \in binded : SendRefused(s, m)
  <2> PICK s \in binded : SendRefused(s, m)
    BY <1>6
  <2>1. /\ Respond({m}, "rsyserr", NoMsg) /\ UNCHANGED <<wire, pending, orphaned>>
        /\ seq' = [seq EXCEPT ![s] = seq[s] + 1]
    BY <1>2 DEF SendRefused, tracker
  <2>2. \A t \in binded : seq'[t] >= seq[t]
    BY <1>2, <2>1 DEF TypeOK
  <2> QED BY <1>4, <2>1, <2>2 DEF Status
<1>7. \/ Respond({m}, "dst_esme_not_bound", NoMsg) /\ UNCHANGED <<seq, wire, pending, orphaned>>
      \/ Respond({m}, "rsyserr", NoMsg) /\ UNCHANGED <<seq, wire, pending, orphaned>>
      \/ \E s \in binded : SendOn(s, m) \/ SendRefused(s, m)
  BY DEF SendDeliverSm, EndpointGone, tracker
<1> QED BY <1>3, <1>5, <1>6, <1>7

LEMMA OneSessionInit == Init => OneSession
BY EmptySeq DEF Init, OneSession, Correlated, NothingOrphaned

(* A handler that answers tracked requests, or none, with an answer the    *)
(* gateway makes up, and forgets them.                                     *)
LEMMA GiveUpCorrelated ==
  ASSUME TypeOK, Accounted, OneSession, NEW D \in SUBSET pending,
         Respond({e.msg : e \in D}, "rtimeout", NoMsg)
  PROVE  Correlated'
<1> DEFINE S == {e.msg : e \in D}
<1>1. S \in SUBSET Msg /\ S \cap Answered = {}
  BY DEF TypeOK, Entry, Accounted, Settled, Pending
<1>2. Respond(S, "rtimeout", NoMsg)
  OBVIOUS
<1> HIDE DEF S
<1> QED BY <1>1, <1>2, RespondCorrelated DEF TypeOK, OneSession, Status

LEMMA OneSessionStep ==
  ASSUME MaxSessions = {1}, TypeOK, Accounted, OneSession, NumbersLeft, [Next]_vars
  PROVE  OneSession'
<1> USE DEF conf, link, tracker, history
<1>1. ASSUME NEW s \in Session, Bind(s)
      PROVE  OneSession'
  <2>1. binded = {}
    <3> SUFFICES ASSUME NEW t \in binded
                 PROVE  FALSE
      OBVIOUS
    <3>1. binded = {t}
      BY DEF OneSession
    <3>2. Cardinality(binded) = 1
      BY <3>1, FS_Singleton
    <3> QED BY <1>1, <3>2 DEF Bind, Permitted, TypeOK
  <2>2. pending = {} /\ wire = {}
    BY <2>1 DEF OneSession
  <2>3. binded' = {s} /\ sess' = [sess EXCEPT ![s] = "open"]
    BY <1>1, <2>1 DEF Bind
  <2>4. \A t \in Session : sess'[t] \in {"open", "unbinding", "closed"} => t \in binded'
    BY <2>1, <2>3 DEF OneSession, TypeOK
  <2>5. UNCHANGED <<pending, wire, replies, orphaned>>
    BY <1>1 DEF Bind
  <2> QED BY <2>2, <2>3, <2>4, <2>5 DEF OneSession, Correlated, NothingOrphaned
<1>2. ASSUME UNCHANGED <<binded, pending, replies, orphaned>>, wire' \subseteq wire,
             \A s \in binded : seq'[s] = seq[s] \/ seq'[s] = seq[s] + 1,
             \A s \in Session : sess'[s] \in {"open", "unbinding", "closed"}
                                => sess[s] \in {"open", "unbinding", "closed"},
             \A p \in wire' : sess'[p.session] # "closed"
      PROVE  OneSession'
  <2>1. \A s \in binded : seq[s] \in Nat
    BY DEF TypeOK
  <2>2. \A e \in pending' : \E s \in binded' : e.key <= seq'[s]
    <3> SUFFICES ASSUME NEW e \in pending
                 PROVE  \E s \in binded : e.key <= seq'[s]
      BY <1>2
    <3> PICK s \in binded : e.key <= seq[s]
      BY DEF OneSession
    <3>1. e.key \in Nat
      BY DEF TypeOK, Entry
    <3>2. e.key <= seq'[s]
      BY <1>2, <2>1, <3>1
    <3> QED BY <3>2
  <2>3. \A p \in wire' : p.session \in binded' /\ p.seqno <= seq'[p.session]
    <3> SUFFICES ASSUME NEW p \in wire
                 PROVE  p.session \in binded /\ p.seqno <= seq'[p.session]
      BY <1>2
    <3>1. p.seqno \in Nat /\ p.session \in binded /\ p.seqno <= seq[p.session]
      BY DEF TypeOK, Pdu, OneSession
    <3> QED BY <1>2, <2>1, <3>1
  <2>4. Correlated' /\ NothingOrphaned'
    BY <1>2 DEF OneSession, Correlated, NothingOrphaned
  <2> QED BY <1>2, <2>2, <2>3, <2>4 DEF OneSession
<1>3. ASSUME NEW s \in Session, PeerUnbind(s) \/ SessionClose(s) \/ RejectBind(s)
      PROVE  OneSession'
  <2>1. \A t \in Session : sess'[t] \in {"open", "unbinding", "closed"}
                           => sess[t] \in {"open", "unbinding", "closed"}
    BY <1>3 DEF PeerUnbind, SessionClose, RejectBind, TypeOK
  <2>2. UNCHANGED <<binded, seq, pending, replies, orphaned>> /\ wire' \subseteq wire
    BY <1>3 DEF PeerUnbind, SessionClose, RejectBind
  <2>3. \A p \in wire' : sess'[p.session] # "closed"
    BY <1>3 DEF PeerUnbind, SessionClose, RejectBind, OneSession, TypeOK, Pdu
  <2> QED BY <1>2, <2>1, <2>2, <2>3
<1>4. ASSUME NEW s \in Session, OnSessionClose(s)
      PROVE  OneSession'
  <2>1. Respond({e.msg : e \in pending}, "rtimeout", NoMsg)
    BY <1>4 DEF OnSessionClose, Pending
  <2>2. Correlated'
    BY <2>1, GiveUpCorrelated
  <2>3. /\ s \in binded /\ binded' = binded \ {s} /\ pending' = {}
        /\ sess' = [sess EXCEPT ![s] = "gone"] /\ UNCHANGED <<wire, orphaned, seq>>
    BY <1>4 DEF OnSessionClose
  <2>4. binded' = {}
    BY <2>3 DEF OneSession
  <2>5. \A t \in Session : sess'[t] \in {"open", "unbinding", "closed"} => t \in binded'
    BY <2>3 DEF OneSession, TypeOK
  <2>6. wire' = {}
    <3>1. \A p \in wire : p.session = s /\ sess[s] # "closed"
      BY <2>3 DEF OneSession
    <3> QED BY <1>4, <3>1, <2>3 DEF OnSessionClose
  <2> QED BY <2>2, <2>3, <2>4, <2>5, <2>6 DEF OneSession, NothingOrphaned
<1>5. ASSUME NEW m \in Msg, ReceiveDeliver(m)
      PROVE  OneSession'
  <2>1. UNCHANGED <<binded, sess, seq, pending, wire, orphaned>>
    BY <1>5 DEF ReceiveDeliver
  <2>2. Correlated'
    <3>1. CASE client = "present"
      BY <1>5, <3>1 DEF ReceiveDeliver, OneSession, Correlated
    <3>2. CASE client # "present"
      <4> DEFINE S == {m}
      <4>1. S \in SUBSET Msg /\ S \cap Answered = {}
        BY <1>5 DEF ReceiveDeliver, Accounted, Settled
      <4>2. Respond(S, "rinvdstadr", NoMsg)
        BY <1>5, <3>2 DEF ReceiveDeliver
      <4> HIDE DEF S
      <4> QED BY <4>1, <4>2, RespondCorrelated DEF TypeOK, OneSession, Status
    <3> QED BY <3>1, <3>2
  <2> QED BY <2>1, <2>2 DEF OneSession, NothingOrphaned
<1>6. ASSUME NEW m \in Msg, ReceiveReport(m)
      PROVE  OneSession'
  <2>1. m \notin Answered /\ UNCHANGED <<binded, sess>>
    BY <1>6 DEF ReceiveReport, Accounted, Settled
  <2>2. CASE client = "present"
    <3>1. SendDeliverSm(m)
      BY <1>6, <2>2 DEF ReceiveReport
    <3> QED BY <2>1, <3>1, SendOneSession
  <2>3. CASE client # "present"
    <3>1. /\ Respond({m}, "rinvdstadr", NoMsg)
          /\ UNCHANGED <<seq, wire, pending, orphaned>>
      BY <1>6, <2>3 DEF ReceiveReport
    <3> DEFINE S == {m}
    <3>2. S \in SUBSET Msg /\ S \cap Answered = {} /\ Respond(S, "rinvdstadr", NoMsg)
      BY <2>1, <3>1
    <3> HIDE DEF S
    <3>3. Correlated'
      BY <3>2, RespondCorrelated DEF TypeOK, OneSession, Status
    <3> QED BY <2>1, <3>1, <3>3 DEF OneSession, NothingOrphaned
  <2> QED BY <2>2, <2>3
<1>7. ASSUME SendProcess
      PROVE  OneSession'
  <2>1. queue # << >> /\ SendDeliverSm(Head(queue)) /\ UNCHANGED <<binded, sess>>
    BY <1>7 DEF SendProcess
  <2>2. Head(queue) \in Queued /\ Head(queue) \in Msg
    <3>1. queue \in Seq(Msg) /\ queue' = Tail(queue)
      BY <1>7 DEF SendProcess, TypeOK
    <3>2. \A i, j \in 1 .. Len(queue) : queue[i] = queue[j] => i = j
      BY DEF Accounted
    <3> QED BY <2>1, <3>1, <3>2, QueueTail
  <2>3. Head(queue) \notin Answered
    BY <2>2 DEF Accounted, Settled
  <2> QED BY <2>1, <2>2, <2>3, SendOneSession
<1>8. ASSUME NEW p \in wire, NEW st \in {"ok", "error"}, OnResponse(p, st)
      PROVE  OneSession'
  <2> PICK e \in pending : /\ e.key = p.seqno
                           /\ pending' = {f \in pending : f.key # p.seqno}
                           /\ Respond({e.msg}, st, p.msg)
    BY <1>8 DEF OnResponse
  <2>1. e.msg = p.msg
    BY DEF OneSession
  <2> DEFINE S == {e.msg}
  <2>2. S \in SUBSET Msg /\ S \cap Answered = {}
    BY DEF TypeOK, Entry, Accounted, Settled, Pending
  <2>3. st \in Status /\ p.msg \in Msg \cup {NoMsg} /\ S \subseteq {p.msg}
    BY <2>1 DEF Status, TypeOK, Pdu
  <2>4. Respond(S, st, p.msg)
    OBVIOUS
  <2> HIDE DEF S
  <2>5. Correlated'
    BY <2>2, <2>3, <2>4, RespondCorrelated DEF TypeOK, OneSession
  <2>6. UNCHANGED <<binded, sess, seq, orphaned>> /\ wire' = wire \ {p}
    BY <1>8 DEF OnResponse
  <2> QED BY <2>5, <2>6 DEF OneSession, NothingOrphaned
<1>9. ASSUME OnTimer
      PROVE  OneSession'
  <2> DEFINE D == {f \in pending : f.at = index}
  <2>1. D \in SUBSET pending /\ Respond({e.msg : e \in D}, "rtimeout", NoMsg)
    BY <1>9 DEF OnTimer
  <2>2. /\ UNCHANGED <<binded, sess, seq, wire, orphaned>>
        /\ pending' \subseteq pending
    BY <1>9 DEF OnTimer
  <2> HIDE DEF D
  <2>3. Correlated'
    BY <2>1, GiveUpCorrelated
  <2> QED BY <2>2, <2>3 DEF OneSession, NothingOrphaned
<1>10. ASSUME Remove
       PROVE  OneSession'
  <2>1. \A s \in Session : /\ sess'[s] \in {"open", "unbinding", "closed"}
                              => sess[s] \in {"open", "unbinding", "closed"}
                           /\ sess'[s] = "closed" => sess[s] = "closed"
    BY <1>10 DEF Remove
  <2>2. UNCHANGED <<binded, seq, pending, replies, orphaned, wire>>
    BY <1>10 DEF Remove
  <2>3. \A p \in wire' : sess'[p.session] # "closed"
    BY <2>1, <2>2 DEF OneSession, TypeOK, Pdu
  <2> QED BY <1>2, <2>1, <2>2, <2>3
<1>11. ASSUME \/ UNCHANGED vars \/ Destroy
              \/ \E n \in MaxSessions : SetMaxSession(n)
              \/ \E p \in wire : OnLateResponse(p)
       PROVE  OneSession'
  <2>1. /\ UNCHANGED <<binded, sess, seq, pending, replies, orphaned>>
        /\ wire' \subseteq wire
    BY <1>11 DEF vars, Destroy, SetMaxSession, OnLateResponse
  <2>2. \A p \in wire' : sess'[p.session] # "closed"
    BY <2>1 DEF OneSession
  <2> QED BY <1>2, <2>1, <2>2
<1>12. ASSUME NEW s \in Session, EnquireLink(s)
       PROVE  OneSession'
  <2>1. \A t \in binded : seq'[t] = seq[t] \/ seq'[t] = seq[t] + 1
    BY <1>12, ConstantsAssumption DEF EnquireLink, NextSeq, NumbersLeft, TypeOK
  <2>2. UNCHANGED <<binded, sess, pending, wire, replies, orphaned>>
    BY <1>12 DEF EnquireLink
  <2>3. \A p \in wire' : sess'[p.session] # "closed"
    BY <2>2 DEF OneSession
  <2> QED BY <1>2, <2>1, <2>2, <2>3
<1> QED BY <1>1, <1>3, <1>4, <1>5, <1>6, <1>7, <1>8, <1>9, <1>10, <1>11, <1>12
        DEF Next, Connections, Requests, Responses, Reconfigure

LEMMA OneSessionAlways ==
  ASSUME MaxSessions = {1}
  PROVE  SafeSpec /\ []NumbersLeft => []OneSession
<1>1. SafeSpec => [](TypeOK /\ Accounted)
  BY TypeCorrect, RequestsAccounted, PTL
<1>2. TypeOK /\ Accounted /\ OneSession /\ NumbersLeft /\ [Next]_vars => OneSession'
  BY OneSessionStep
<1> QED BY <1>1, <1>2, OneSessionInit, PTL DEF SafeSpec

(* With max_session 1, which is never raised, and until the session has    *)
(* used up its sequence numbers, a deliver_sm_resp completes the deliver   *)
(* it answers: the expirator's lookup by number alone is sound then.       *)
THEOREM SingleSessionSound ==
  ASSUME MaxSessions = {1}
  PROVE  SafeSpec /\ []NumbersLeft => []Correlated
<1>1. OneSession => Correlated
  BY DEF OneSession
<1> QED BY <1>1, OneSessionAlways, PTL

(* In the same case every deliver that is sent is remembered: the session  *)
(* that gave the number of a tracked one is still there, so that           *)
(* expirator::add never finds the key taken.                               *)
THEOREM SingleSessionRemembers ==
  ASSUME MaxSessions = {1}
  PROVE  SafeSpec /\ []NumbersLeft => []NothingOrphaned
<1>1. OneSession => NothingOrphaned
  BY DEF OneSession
<1> QED BY <1>1, OneSessionAlways, PTL

-----------------------------------------------------------------------------
(* binded_sessions_, its gauge and the session limit.                      *)

\* BoundSessions made inductive: the set is finite, and the gauge counts it
\* whether the client is still in ext_clients_map_ or not.
BoundInv ==
  /\ IsFiniteSet(binded)
  /\ connected = Cardinality(binded)
  /\ binded = {s \in Session : sess[s] \in {"open", "unbinding", "closed"}}
  /\ pending # {} => binded # {}

LEMMA BoundInit == Init => BoundInv
BY FS_EmptySet DEF Init, BoundInv

(* What send_deliver_sm may add to the expirator needs a bound session.    *)
LEMMA SendKeepsBound ==
  ASSUME TypeOK, BoundInv, NEW m \in Msg, SendDeliverSm(m),
         UNCHANGED <<binded, sess, connected>>
  PROVE  BoundInv'
<1>1. CASE binded = {}
  <2>1. UNCHANGED pending
    BY <1>1 DEF SendDeliverSm, tracker
  <2> QED BY <2>1 DEF BoundInv
<1>2. CASE binded # {}
  BY <1>2 DEF BoundInv
<1> QED BY <1>1, <1>2

(* A change of sess that moves sessions neither in nor out of the bound    *)
(* states, with nothing new in the expirator.                              *)
LEMMA SameBound ==
  ASSUME BoundInv, UNCHANGED <<binded, connected>>, pending' \subseteq pending,
         \A s \in Session : sess'[s] \in {"open", "unbinding", "closed"}
                            <=> sess[s] \in {"open", "unbinding", "closed"}
  PROVE  BoundInv'
BY DEF BoundInv

LEMMA BoundStep == TypeOK /\ BoundInv /\ [Next]_vars => BoundInv'
<1> SUFFICES ASSUME TypeOK, BoundInv, [Next]_vars
             PROVE  BoundInv'
  OBVIOUS
<1> USE DEF conf, link, tracker, history
<1>1. ASSUME NEW s \in Session, Bind(s)
      PROVE  BoundInv'
  <2>1. /\ s \notin binded /\ binded' = binded \cup {s}
        /\ connected' = connected + 1
        /\ sess' = [sess EXCEPT ![s] = "open"]
    BY <1>1 DEF Bind, BoundInv
  <2>2. IsFiniteSet(binded') /\ Cardinality(binded') = Cardinality(binded) + 1
    BY <2>1, FS_AddElement DEF BoundInv
  <2>3. binded' = {t \in Session : sess'[t] \in {"open", "unbinding", "closed"}}
    BY <2>1 DEF BoundInv, TypeOK
  <2> QED BY <2>1, <2>2, <2>3 DEF BoundInv
<1>2. ASSUME NEW s \in Session, OnSessionClose(s)
      PROVE  BoundInv'
  <2>1. /\ s \in binded /\ binded' = binded \ {s}
        /\ connected' = connected - 1 /\ pending' = {}
        /\ sess' = [sess EXCEPT ![s] = "gone"]
    BY <1>2 DEF OnSessionClose
  <2>2. IsFiniteSet(binded') /\ Cardinality(binded') = Cardinality(binded) - 1
    BY <2>1, FS_RemoveElement DEF BoundInv
  <2>3. binded' = {t \in Session : sess'[t] \in {"open", "unbinding", "closed"}}
    BY <2>1 DEF BoundInv, TypeOK
  <2> QED BY <2>1, <2>2, <2>3 DEF BoundInv
<1>3. ASSUME NEW s \in Session, PeerUnbind(s) \/ SessionClose(s) \/ RejectBind(s)
      PROVE  BoundInv'
  <2>1. UNCHANGED <<binded, connected, pending>>
    BY <1>3 DEF PeerUnbind, SessionClose, RejectBind
  <2>2. \A t \in Session : sess'[t] \in {"open", "unbinding", "closed"}
                           <=> sess[t] \in {"open", "unbinding", "closed"}
    BY <1>3 DEF PeerUnbind, SessionClose, RejectBind, TypeOK
  <2> QED BY <2>1, <2>2, SameBound
<1>4. CASE Remove
  <2>1. UNCHANGED <<binded, connected, pending>>
    BY <1>4 DEF Remove
  <2>2. \A t \in Session : sess'[t] \in {"open", "unbinding", "closed"}
                           <=> sess[t] \in {"open", "unbinding", "closed"}
    BY <1>4 DEF Remove
  <2> QED BY <2>1, <2>2, SameBound
<1>5. ASSUME NEW m \in Msg, ReceiveReport(m)
      PROVE  BoundInv'
  <2>1. CASE SendDeliverSm(m)
    BY <1>5, <2>1, SendKeepsBound DEF ReceiveReport
  <2>2. CASE UNCHANGED pending
    BY <1>5, <2>2 DEF ReceiveReport, BoundInv
  <2> QED BY <1>5, <2>1, <2>2 DEF ReceiveReport
<1>6. CASE SendProcess
  <2>1. Head(queue) \in Msg
    BY <1>6 DEF SendProcess, TypeOK
  <2> QED BY <1>6, <2>1, SendKeepsBound DEF SendProcess
<1>7. CASE UNCHANGED <<binded, connected, sess>> /\ pending' \subseteq pending
  BY <1>7, SameBound
<1>8. ASSUME NEW p \in wire, NEW st \in {"ok", "error"}, OnResponse(p, st)
      PROVE  BoundInv'
  <2>1. UNCHANGED <<binded, connected, sess>> /\ pending' \subseteq pending
    BY <1>8 DEF OnResponse
  <2> QED BY <2>1, <1>7
<1>9. CASE OnTimer
  BY <1>7, <1>9 DEF OnTimer
<1>10. ASSUME NEW m \in Msg, ReceiveDeliver(m)
       PROVE  BoundInv'
  BY <1>7, <1>10 DEF ReceiveDeliver
<1>11. CASE \/ UNCHANGED vars \/ Destroy
            \/ \E n \in MaxSessions : SetMaxSession(n)
            \/ \E p \in wire : OnLateResponse(p)
            \/ \E s \in Session : EnquireLink(s)
  BY <1>7, <1>11 DEF vars, Destroy, SetMaxSession, OnLateResponse, EnquireLink
<1> QED BY <1>1, <1>2, <1>3, <1>4, <1>5, <1>6, <1>8, <1>9, <1>10, <1>11
        DEF Next, Connections, Requests, Responses, Reconfigure

LEMMA BoundHolds == SafeSpec => []BoundInv
BY TypeCorrect, BoundInit, BoundStep, PTL DEF SafeSpec

(* binded_sessions_ is exactly the set of sessions between on_bind and     *)
(* on_session_close, the gauge counts it, and a deliver waits for its      *)
(* response only while some session is left that may carry one.            *)
THEOREM SessionsBound == SafeSpec => []BoundSessions
<1>1. BoundInv => BoundSessions
  BY DEF BoundInv, BoundSessions
<1> QED BY <1>1, BoundHolds, PTL

LEMMA LimitStep == TypeOK /\ BoundInv /\ SessionLimit /\ [Next]_vars => SessionLimit'
<1> SUFFICES ASSUME TypeOK, BoundInv, SessionLimit, [Next]_vars,
                    MaxSessions = {maxSession'}
             PROVE  Cardinality(binded') <= maxSession'
  BY DEF SessionLimit
<1> USE DEF conf, link
<1>1. maxSession' = maxSession /\ Cardinality(binded) <= maxSession
  BY DEF TypeOK, SessionLimit
<1>2. Cardinality(binded) \in Nat /\ maxSession \in Nat
  BY FS_CardinalityType, ConstantsAssumption DEF BoundInv, TypeOK
<1>3. ASSUME NEW s \in Session, Bind(s)
      PROVE  Cardinality(binded') <= maxSession'
  <2>1. binded' = binded \cup {s} /\ Cardinality(binded) # maxSession
    BY <1>3 DEF Bind, Permitted
  <2>2. Cardinality(binded')
          = IF s \in binded THEN Cardinality(binded) ELSE Cardinality(binded) + 1
    BY <2>1, FS_AddElement DEF BoundInv
  <2> QED BY <1>1, <1>2, <2>1, <2>2
<1>4. ASSUME NEW s \in Session, OnSessionClose(s)
      PROVE  Cardinality(binded') <= maxSession'
  <2>1. binded' \in SUBSET binded
    BY <1>4 DEF OnSessionClose
  <2>2. Cardinality(binded') <= Cardinality(binded) /\ Cardinality(binded') \in Nat
    BY <2>1, FS_Subset, FS_CardinalityType DEF BoundInv
  <2> QED BY <1>1, <1>2, <2>2
<1>5. CASE UNCHANGED binded
  BY <1>1, <1>5
<1>6. \/ UNCHANGED binded
      \/ \E s \in Session : Bind(s) \/ OnSessionClose(s)
  BY DEF Next, Connections, Requests, Responses, Reconfigure, vars, RejectBind,
         EnquireLink, PeerUnbind, SessionClose, ReceiveDeliver, ReceiveReport,
         OnResponse, OnLateResponse, SendProcess, OnTimer, SetMaxSession, Remove, Destroy
<1> QED BY <1>3, <1>4, <1>5, <1>6

(* The equality test of check_permision is enough: as long as max_session  *)
(* is not changed at runtime, an ESME never has more sessions than that.   *)
THEOREM SessionsLimited == SafeSpec => []SessionLimit
<1>1. Init => SessionLimit
  BY FS_EmptySet, ConstantsAssumption DEF Init, SessionLimit
<1> QED BY <1>1, TypeCorrect, BoundHolds, LimitStep, PTL DEF SafeSpec

-----------------------------------------------------------------------------
(* Every tracked deliver is due within the dialog timeout.                 *)

(* The arithmetic of the expirator's indices, which turn at IndexSpan: an  *)
(* entry lies ahead of the index by what is left to the turn.              *)
LEMMA Ahead ==
  ASSUME NEW a \in 0 .. IndexSpan - 1, NEW b \in 0 .. IndexSpan - 1
  PROVE  (a - b) % IndexSpan = IF a >= b THEN a - b ELSE a - b + IndexSpan
BY ConstantsAssumption

LEMMA NextSlot ==
  ASSUME NEW a \in 0 .. IndexSpan - 1, NEW d \in 0 .. IndexSpan - 1
  PROVE  Slot(a + d) = IF a + d < IndexSpan THEN a + d ELSE a + d - IndexSpan
BY ConstantsAssumption

LEMMA DueStep == TypeOK /\ DueInTime /\ [Next]_vars => DueInTime'
<1> SUFFICES ASSUME TypeOK, DueInTime, [Next]_vars
             PROVE  DueInTime'
  OBVIOUS
<1> USE DEF conf, link, tracker, history
<1>1. index \in 0 .. IndexSpan - 1 /\ \A e \in pending : e.at \in 0 .. IndexSpan - 1
  BY DEF TypeOK, Entry
<1>2. IndexSpan \in Nat \ {0} /\ Timeout \in 0 .. IndexSpan - 1
  BY ConstantsAssumption
<1>3. CASE UNCHANGED index /\ pending' \subseteq pending
  BY <1>3 DEF DueInTime
<1>4. ASSUME NEW m \in Msg, SendDeliverSm(m)
      PROVE  DueInTime'
  <2>1. CASE UNCHANGED tracker
    BY <1>3, <2>1
  <2>2. ASSUME NEW s \in binded, SendOn(s, m)
        PROVE  DueInTime'
    <3> DEFINE n == [at |-> Slot(index + Timeout), key |-> NextSeq(s), msg |-> m]
    <3>1. index' = index /\ (pending' = pending \/ pending' = pending \cup {n})
      BY <2>2 DEF SendOn, Track
    <3>2. (Slot(index + Timeout) - index) % IndexSpan <= Timeout
      <4>1. Slot(index + Timeout) \in 0 .. IndexSpan - 1
        BY <1>1, <1>2, NextSlot
      <4>2. Slot(index + Timeout) = IF index + Timeout < IndexSpan
                                    THEN index + Timeout
                                    ELSE index + Timeout - IndexSpan
        BY <1>1, <1>2, NextSlot
      <4>3. (Slot(index + Timeout) - index) % IndexSpan
              = IF Slot(index + Timeout) >= index
                THEN Slot(index + Timeout) - index
                ELSE Slot(index + Timeout) - index + IndexSpan
        BY <1>1, <4>1, Ahead
      <4>4. (Slot(index + Timeout) - index) % IndexSpan = Timeout
        BY <1>1, <1>2, <4>2, <4>3
      <4> QED BY <1>2, <4>4
    <3>3. n.at = Slot(index + Timeout)
      OBVIOUS
    <3> HIDE DEF n
    <3> QED BY <3>1, <3>2, <3>3 DEF DueInTime
  <2> QED BY <1>4, <2>1, <2>2 DEF SendDeliverSm, EndpointGone, SendRefused
<1>5. CASE OnTimer
  <2> SUFFICES ASSUME NEW e \in pending, e.at # index
               PROVE  (e.at - index') % IndexSpan <= Timeout
    BY <1>5 DEF OnTimer, DueInTime
  <2> DEFINE a == e.at
  <2>1. a \in 0 .. IndexSpan - 1 /\ a # index /\ (a - index) % IndexSpan <= Timeout
    BY <1>1 DEF DueInTime
  <2>2. index' = Slot(index + 1)
    BY <1>5 DEF OnTimer
  <2> HIDE DEF a
  <2>3. index' = IF index + 1 < IndexSpan THEN index + 1 ELSE 0
    BY <1>1, <1>2, <2>2
  <2>4. index' \in 0 .. IndexSpan - 1
    BY <1>1, <1>2, <2>3
  <2>5. (a - index') % IndexSpan <= (a - index) % IndexSpan
    <3>1. (a - index) % IndexSpan = IF a >= index THEN a - index ELSE a - index + IndexSpan
      BY <1>1, <2>1, Ahead
    <3>2. (a - index') % IndexSpan
            = IF a >= index' THEN a - index' ELSE a - index' + IndexSpan
      BY <2>1, <2>4, Ahead
    <3> QED BY <1>1, <1>2, <2>1, <2>3, <3>1, <3>2
  <2>6. (a - index') % IndexSpan <= Timeout
    <3>1. (a - index) % IndexSpan \in Int /\ (a - index') % IndexSpan \in Int
      BY <1>1, <1>2, <2>1, <2>4
    <3> QED BY <1>2, <2>1, <2>5, <3>1
  <2> QED BY <2>6 DEF a
<1>6. ASSUME NEW s \in Session, OnSessionClose(s)
      PROVE  DueInTime'
  BY <1>6 DEF OnSessionClose, DueInTime
<1>7. ASSUME NEW m \in Msg, ReceiveReport(m)
      PROVE  DueInTime'
  BY <1>3, <1>4, <1>7 DEF ReceiveReport
<1>8. CASE SendProcess
  <2>1. Head(queue) \in Msg
    BY <1>8 DEF SendProcess, TypeOK
  <2> QED BY <1>4, <1>8, <2>1 DEF SendProcess
<1>9. \/ UNCHANGED index /\ pending' \subseteq pending
      \/ \E s \in Session : OnSessionClose(s)
      \/ \E m \in Msg : ReceiveReport(m)
      \/ SendProcess \/ OnTimer
  BY DEF Next, Connections, Requests, Responses, Reconfigure, vars, Bind, RejectBind,
         EnquireLink, PeerUnbind, SessionClose, ReceiveDeliver, OnResponse,
         OnLateResponse, SetMaxSession, Remove, Destroy
<1> QED BY <1>3, <1>5, <1>6, <1>7, <1>8, <1>9

(* No deliver is tracked where the expirator's index has already passed:   *)
(* each is due within dialog_timeout, over the reset of the index when a   *)
(* session closes and over the turn of the 32-bit key.                     *)
THEOREM AllDueInTime == SafeSpec => []DueInTime
<1>1. Init => DueInTime
  BY DEF Init, DueInTime
<1> QED BY <1>1, TypeCorrect, DueStep, PTL DEF SafeSpec

-----------------------------------------------------------------------------
(* What the gauge wait_for_resp_ counts.                                   *)

\* WaitingDrift made inductive: the three sets it adds up are finite.
DriftInv ==
  /\ IsFiniteSet(pending)
  /\ IsFiniteSet(orphaned)
  /\ IsFiniteSet(TimedOut)
  /\ WaitingDrift

LEMMA DriftInit == Init => DriftInv
<1> SUFFICES ASSUME Init
             PROVE  DriftInv
  OBVIOUS
<1>1. TimedOut = {}
  BY EmptySeq DEF Init, TimedOut
<1> QED BY <1>1, FS_EmptySet DEF Init, DriftInv, WaitingDrift

(* A set that disjoint elements are added to, or some are taken out of.    *)
LEMMA CardinalityJoin ==
  ASSUME NEW S, NEW T, IsFiniteSet(S), IsFiniteSet(T), S \cap T = {}
  PROVE  /\ IsFiniteSet(S \cup T)
         /\ Cardinality(S \cup T) = Cardinality(S) + Cardinality(T)
<1>1. Cardinality(S) \in Nat /\ Cardinality(T) \in Nat
  BY FS_CardinalityType
<1>2. IsFiniteSet(S \cup T)
  BY FS_Union
<1>3. Cardinality(S \cup T) = Cardinality(S) + Cardinality(T) - Cardinality(S \cap T)
  BY FS_Union
<1>4. Cardinality(S \cap T) = 0
  BY FS_EmptySet
<1> QED BY <1>1, <1>2, <1>3, <1>4

LEMMA CardinalitySplit ==
  ASSUME NEW S, IsFiniteSet(S), NEW D \in SUBSET S
  PROVE  /\ IsFiniteSet(D) /\ IsFiniteSet(S \ D)
         /\ Cardinality(S \ D) = Cardinality(S) - Cardinality(D)
<1>1. IsFiniteSet(D) /\ S \cap D = D
  BY FS_Subset
<1> QED BY <1>1, FS_Difference

(* Entries of different requests: as many requests as entries.             *)
LEMMA AsManyRequests ==
  ASSUME Accounted, NEW D \in SUBSET pending, IsFiniteSet(D)
  PROVE  /\ IsFiniteSet({e.msg : e \in D})
         /\ Cardinality({e.msg : e \in D}) = Cardinality(D)
<1> DEFINE S == {e.msg : e \in D}
           f == [e \in D |-> e.msg]
<1>1. f \in Bijection(D, S)
  BY DEF Accounted, Bijection, Injection, Surjection, IsInjective
<1>2. ExistsBijection(D, S)
  BY <1>1 DEF ExistsBijection
<1> HIDE DEF S
<1>3. IsFiniteSet(S) /\ Cardinality(S) = Cardinality(D)
  BY <1>2, FS_Bijection
<1> QED BY <1>3 DEF S

(* First answers with another status than a timeout change nothing here.   *)
LEMMA RespondTimedOut ==
  ASSUME TypeOK, NEW S \in SUBSET Msg, S \cap Answered = {},
         NEW st \in Status, NEW of \in Msg \cup {NoMsg}, Respond(S, st, of)
  PROVE  /\ S \cap TimedOut = {}
         /\ TimedOut' = IF st = "rtimeout" THEN TimedOut \cup S ELSE TimedOut
<1> DEFINE r == [status |-> st, of |-> of]
<1>1. r \in Reply /\ r.status = st
  BY DEF Reply
<1>2. \A m \in S : replies[m] = << >> /\ replies'[m] = Append(<< >>, r)
  BY DEF Answered, Respond
<1>3. \A m \in Msg \ S : replies'[m] = replies[m]
  BY DEF Respond
<1> HIDE DEF r
<1>4. Len(<< >>) = 0 /\ Append(<< >>, r) = <<r>> /\ Len(<<r>>) = 1 /\ <<r>>[1] = r
  OBVIOUS
<1>5. \A m \in S : m \notin TimedOut
  BY <1>2, <1>4 DEF TimedOut
<1>6. \A m \in S : m \in TimedOut' <=> st = "rtimeout"
  <2> SUFFICES ASSUME NEW m \in S
               PROVE  m \in TimedOut' <=> st = "rtimeout"
    OBVIOUS
  <2>1. Len(replies'[m]) = 1 /\ replies'[m][1].status = st
    BY <1>1, <1>2, <1>4
  <2> QED BY <2>1 DEF TimedOut
<1>7. \A m \in Msg \ S : m \in TimedOut' <=> m \in TimedOut
  BY <1>3 DEF TimedOut
<1>8. TimedOut \subseteq Msg /\ TimedOut' \subseteq Msg
  BY DEF TimedOut
<1> QED BY <1>5, <1>6, <1>7, <1>8

(* Timeouts take entries out of the expirator, and the gauge stays.        *)
LEMMA GiveUpDrift ==
  ASSUME TypeOK, Accounted, DriftInv, NEW D \in SUBSET pending,
         Respond({e.msg : e \in D}, "rtimeout", NoMsg),
         pending' = pending \ D, UNCHANGED <<orphaned, waiting>>
  PROVE  DriftInv'
<1> DEFINE S == {e.msg : e \in D}
<1>1. S \in SUBSET Msg /\ S \cap Answered = {}
  BY DEF TypeOK, Entry, Accounted, Settled, Pending
<1>2. /\ IsFiniteSet(D) /\ IsFiniteSet(pending')
      /\ Cardinality(pending') = Cardinality(pending) - Cardinality(D)
  BY CardinalitySplit DEF DriftInv
<1>3. IsFiniteSet(S) /\ Cardinality(S) = Cardinality(D)
  BY <1>2, AsManyRequests
<1>4. Respond(S, "rtimeout", NoMsg)
  OBVIOUS
<1> HIDE DEF S
<1>5. S \cap TimedOut = {} /\ TimedOut' = TimedOut \cup S
  BY <1>1, <1>4, RespondTimedOut DEF Status
<1>6. /\ IsFiniteSet(TimedOut')
      /\ Cardinality(TimedOut') = Cardinality(TimedOut) + Cardinality(S)
  BY <1>3, <1>5, CardinalityJoin DEF DriftInv
<1>7. /\ Cardinality(pending) \in Nat /\ Cardinality(TimedOut) \in Nat
      /\ Cardinality(D) \in Nat /\ Cardinality(orphaned) \in Nat
  BY <1>2, FS_CardinalityType DEF DriftInv
<1>8. waiting' = Cardinality(pending') + Cardinality(orphaned') + Cardinality(TimedOut')
  BY <1>2, <1>3, <1>6, <1>7 DEF DriftInv, WaitingDrift
<1> QED BY <1>2, <1>6, <1>8 DEF DriftInv, WaitingDrift

(* An answer the gateway makes up for a request that is not tracked.       *)
LEMMA RefuseDrift ==
  ASSUME TypeOK, DriftInv, NEW m \in Msg, m \notin Answered,
         NEW st \in Status \ {"rtimeout"}, Respond({m}, st, NoMsg),
         UNCHANGED <<pending, orphaned, waiting>>
  PROVE  DriftInv'
<1> DEFINE S == {m}
<1>1. S \in SUBSET Msg /\ S \cap Answered = {} /\ Respond(S, st, NoMsg)
  OBVIOUS
<1> HIDE DEF S
<1>2. TimedOut' = TimedOut
  BY <1>1, RespondTimedOut
<1> QED BY <1>2 DEF DriftInv, WaitingDrift

(* What is sent counts, whether the expirator remembers it or not.         *)
LEMMA SendDrift ==
  ASSUME TypeOK, DriftInv, NEW m \in Msg, m \notin Answered \cup orphaned, SendDeliverSm(m)
  PROVE  DriftInv'
<1>1. ASSUME NEW s \in binded, SendOn(s, m)
      PROVE  DriftInv'
  <2> DEFINE n == [at |-> Slot(index + Timeout), key |-> NextSeq(s), msg |-> m]
  <2>1. TimedOut' = TimedOut /\ waiting' = waiting + 1 /\ Track(NextSeq(s), m)
    BY <1>1 DEF SendOn, TimedOut
  <2>2. /\ Cardinality(pending) \in Nat /\ Cardinality(TimedOut) \in Nat
        /\ Cardinality(orphaned) \in Nat
    BY FS_CardinalityType DEF DriftInv
  <2>3. CASE \E e \in pending : e.key = NextSeq(s)
    <3>1. orphaned' = orphaned \cup {m} /\ UNCHANGED pending
      BY <2>1, <2>3 DEF Track
    <3>2. IsFiniteSet(orphaned') /\ Cardinality(orphaned') = Cardinality(orphaned) + 1
      BY <3>1, FS_AddElement DEF DriftInv
    <3> QED BY <2>1, <2>2, <3>1, <3>2 DEF DriftInv, WaitingDrift
  <2>4. CASE ~ \E e \in pending : e.key = NextSeq(s)
    <3>1. pending' = pending \cup {n} /\ UNCHANGED orphaned
      BY <2>1, <2>4 DEF Track
    <3>2. n \notin pending
      BY <2>4
    <3> HIDE DEF n
    <3>3. IsFiniteSet(pending') /\ Cardinality(pending') = Cardinality(pending) + 1
      BY <3>1, <3>2, FS_AddElement DEF DriftInv
    <3> QED BY <2>1, <2>2, <3>1, <3>3 DEF DriftInv, WaitingDrift
  <2> QED BY <2>3, <2>4
<1>2. ASSUME NEW st \in {"dst_esme_not_bound", "rsyserr"}, Respond({m}, st, NoMsg),
             UNCHANGED <<tracker, orphaned>>
      PROVE  DriftInv'
  <2>1. st \in Status \ {"rtimeout"} /\ m \notin Answered
    BY DEF Status
  <2> QED BY <1>2, <2>1, RefuseDrift DEF tracker
<1>3. \/ \E s \in binded : SendOn(s, m)
      \/ \E st \in {"dst_esme_not_bound", "rsyserr"} :
           Respond({m}, st, NoMsg) /\ UNCHANGED <<tracker, orphaned>>
  BY DEF SendDeliverSm, EndpointGone, SendRefused
<1> QED BY <1>1, <1>2, <1>3

LEMMA DriftStep == TypeOK /\ Accounted /\ DriftInv /\ [Next]_vars => DriftInv'
<1> SUFFICES ASSUME TypeOK, Accounted, DriftInv, [Next]_vars
             PROVE  DriftInv'
  OBVIOUS
<1> USE DEF conf, link, tracker, history
<1>1. CASE UNCHANGED <<pending, orphaned, replies, waiting>>
  BY <1>1 DEF DriftInv, WaitingDrift, TimedOut
<1>2. ASSUME NEW s \in Session, OnSessionClose(s)
      PROVE  DriftInv'
  <2>1. Respond({e.msg : e \in pending}, "rtimeout", NoMsg)
    BY <1>2 DEF OnSessionClose, Pending
  <2>2. pending' = pending \ pending /\ UNCHANGED <<orphaned, waiting>>
    BY <1>2 DEF OnSessionClose
  <2> QED BY <2>1, <2>2, GiveUpDrift
<1>3. CASE OnTimer
  <2> DEFINE D == {f \in pending : f.at = index}
  <2>1. D \in SUBSET pending /\ pending' = pending \ D
    BY <1>3 DEF OnTimer
  <2>2. Respond({e.msg : e \in D}, "rtimeout", NoMsg) /\ UNCHANGED <<orphaned, waiting>>
    BY <1>3 DEF OnTimer
  <2> HIDE DEF D
  <2> QED BY <2>1, <2>2, GiveUpDrift
<1>4. ASSUME NEW p \in wire, NEW st \in {"ok", "error"}, OnResponse(p, st)
      PROVE  DriftInv'
  <2>1. PICK e \in pending : /\ pending' = {f \in pending : f.key # p.seqno}
                             /\ e.key = p.seqno
                             /\ waiting' = waiting - 1
                             /\ Respond({e.msg}, st, p.msg)
    BY <1>4 DEF OnResponse
  <2>2. pending' = pending \ {e} /\ UNCHANGED orphaned
    BY <1>4, <2>1 DEF TypeOK, OnResponse
  <2> DEFINE S == {e.msg}
  <2>3. S \in SUBSET Msg /\ S \cap Answered = {}
    BY DEF TypeOK, Entry, Accounted, Settled, Pending
  <2>4. p.msg \in Msg \cup {NoMsg} /\ st \in Status /\ st # "rtimeout"
    BY DEF TypeOK, Pdu, Status
  <2>5. Respond(S, st, p.msg)
    BY <2>1
  <2> HIDE DEF S
  <2>6. TimedOut' = TimedOut
    BY <2>3, <2>4, <2>5, RespondTimedOut
  <2>7. /\ IsFiniteSet(pending')
        /\ Cardinality(pending') = Cardinality(pending) - 1
    BY <2>2, FS_RemoveElement DEF DriftInv
  <2>8. /\ Cardinality(pending) \in Nat /\ Cardinality(TimedOut) \in Nat
        /\ Cardinality(orphaned) \in Nat
    BY FS_CardinalityType DEF DriftInv
  <2> QED BY <2>1, <2>2, <2>6, <2>7, <2>8 DEF DriftInv, WaitingDrift
<1>5. ASSUME NEW m \in Msg, ReceiveDeliver(m) \/ ReceiveReport(m)
      PROVE  DriftInv'
  <2>1. m \notin Answered \cup orphaned
    BY <1>5 DEF ReceiveDeliver, ReceiveReport, Accounted, Settled
  <2>2. CASE Respond({m}, "rinvdstadr", NoMsg) /\ UNCHANGED <<pending, orphaned, waiting>>
    BY <2>1, <2>2, RefuseDrift DEF Status
  <2>3. CASE SendDeliverSm(m)
    BY <2>1, <2>3, SendDrift
  <2> QED BY <1>1, <1>5, <2>2, <2>3 DEF ReceiveDeliver, ReceiveReport
<1>6. CASE SendProcess
  <2>1. /\ queue \in Seq(Msg) /\ queue # << >> /\ queue' = Tail(queue)
        /\ SendDeliverSm(Head(queue))
    BY <1>6 DEF SendProcess, TypeOK
  <2>2. Head(queue) \in Queued /\ Head(queue) \in Msg
    <3>1. \A i, j \in 1 .. Len(queue) : queue[i] = queue[j] => i = j
      BY DEF Accounted
    <3> QED BY <2>1, <3>1, QueueTail
  <2>3. Head(queue) \notin Answered \cup orphaned
    BY <2>2 DEF Accounted, Settled
  <2> QED BY <2>1, <2>2, <2>3, SendDrift
<1>7. \/ UNCHANGED <<pending, orphaned, replies, waiting>>
      \/ \E s \in Session : OnSessionClose(s)
      \/ \E m \in Msg : ReceiveDeliver(m) \/ ReceiveReport(m)
      \/ SendProcess \/ OnTimer
      \/ \E p \in wire : \E st \in {"ok", "error"} : OnResponse(p, st)
  BY DEF Next, Connections, Requests, Responses, Reconfigure, vars, Bind, RejectBind,
         EnquireLink, PeerUnbind, SessionClose, OnLateResponse, SetMaxSession, Remove, Destroy
<1> QED BY <1>1, <1>2, <1>3, <1>4, <1>5, <1>6, <1>7

(* The gauge wait_for_resp_ is ahead of what is really waited for by       *)
(* exactly the delivers that timed out and those that were orphaned.       *)
THEOREM WaitingDrifts == SafeSpec => []WaitingDrift
<1>1. DriftInv => WaitingDrift
  BY DEF DriftInv
<1> QED BY <1>1, TypeCorrect, RequestsAccounted, DriftInit, DriftStep, PTL DEF SafeSpec

=============================================================================
