-------------------------- MODULE SubmitPathProofs ---------------------------
(***************************************************************************)
(* Theorems of SubmitPath for every number of policy servers, sessions and *)
(* submits, whether or not the numbers of a connection wrap, except where  *)
(* the theorem says so.                                                    *)
(***************************************************************************)
EXTENDS SubmitPath, PClientListProofs, SequenceTheorems, FiniteSetTheorems

-----------------------------------------------------------------------------
(* Type correctness.  The cursor is a number because binded_clients_ is    *)
(* finite.                                                                 *)

\* TypeOK without the list and the flags, for the provers.
PathShape ==
  /\ cursor \in Nat
  /\ paperData \subseteq [key : 1 .. MaxSequence, name : Name, msg : Msg]
  /\ \A d, e \in paperData : d.key = e.key /\ d.name = e.name => d = e
  /\ Back!TypeOK
  /\ sess \in [Session -> {"open", "gone"}]
  /\ origin \in [Msg -> Session \cup {NoSession}]
  /\ answers \in [Msg -> Seq(Answer)]
  /\ approval \in [Msg -> Msg \cup {NoMsg}]
  /\ ignored \subseteq Msg /\ shadowed \subseteq Msg /\ unparsed \subseteq Msg

PathFlags == running \in BOOLEAN /\ gone \in BOOLEAN

PathInv == ListInv /\ IsFiniteSet(BoundNames) /\ PathShape /\ PathFlags

LEMMA PathInvSuffices == PathInv => TypeOK
BY DEF PathInv, ListInv, PathShape, PathFlags, TypeOK

(* A client that a name of binded_clients_ stands for is one of the list.  *)
LEMMA NamedClient ==
  ASSUME ListInv, NEW n \in BoundNames
  PROVE  clients[n] \in Bound /\ server[clients[n]] = n /\ clients[n] \in Peer
BY DEF ListInv, BoundNames, Bound

(* What each handler does to the list of policy servers.                   *)
LEMMA PathListAction ==
  ASSUME ListInv, [Next]_pathVars
  PROVE  ListAction
<1>1. ASSUME NEW m \in Msg, CheckPolicies(m)
      PROVE  ListAction
  <2>1. CASE UNCHANGED listVars
    BY <2>1 DEF ListAction
  <2>2. ASSUME NEW n \in Name, At(n), ListSend(clients[n], m) \/ ListSendFails(clients[n])
        PROVE  ListAction
    <3>1. clients[n] \in Peer
      BY <2>2, NamedClient DEF At
    <3> QED BY <2>2, <3>1 DEF ListAction
  <2> QED BY <1>1, <2>1, <2>2 DEF CheckPolicies, AskServer, AskFails
<1>2. ASSUME NEW m \in Msg, NEW s \in Session, ReceiveSubmit(m, s)
      PROVE  ListAction
  BY <1>1, <1>2 DEF ReceiveSubmit, ListAction
<1>3. CASE \/ \E s \in Session : CursorOverrun(s) \/ SubmitTerminates(s) \/ EsmeStep(s)
           \/ \E r \in wire : PolicyApprovesThrows(r)
           \/ \E m \in Msg : BackSettles(m)
           \/ UNCHANGED pathVars
  BY <1>3 DEF CursorOverrun, SubmitTerminates, EsmeStep, PolicyApprovesThrows,
     BackSettles, Down, pathVars,
          ListAction
<1>4. CASE \E r \in wire : PolicyUnparsed(r) \/ PolicyRejects(r) \/ PolicyApproves(r)
  BY <1>4 DEF PolicyUnparsed, PolicyRejects, PolicyApproves, ListAction
<1>5. CASE \E p \in Peer : \/ OnPolicyTimer(p) \/ PolicyClose(p) \/ PolicyLinkStep(p)
                           \/ \E n \in Name : PolicyBind(p, n)
  BY <1>5 DEF OnPolicyTimer, PolicyClose, PolicyLinkStep, PolicyBind, ListAction
<1> QED BY <1>2, <1>3, <1>4, <1>5 DEF Next

(* binded_clients_ gains one name at a time.                               *)
LEMMA BoundNamesFinite ==
  ASSUME ListInv, IsFiniteSet(BoundNames), ListAction
  PROVE  IsFiniteSet(BoundNames')
<1>1. ASSUME NEW n, BoundNames' \subseteq BoundNames \cup {n}
      PROVE  IsFiniteSet(BoundNames')
  <2>1. IsFiniteSet(BoundNames \cup {n})
    BY FS_AddElement
  <2> QED BY <1>1, <2>1, FS_Subset
<1>2. ASSUME NEW p \in Peer, NEW n \in Name, ListBind(p, n)
      PROVE  BoundNames' \subseteq BoundNames \cup {n}
  BY <1>2 DEF ListBind, BoundNames, ListInv, ListTypeOK
<1>3. ASSUME NEW p \in Peer, ListClose(p)
      PROVE  BoundNames' \subseteq BoundNames \cup {NoName}
  BY <1>3 DEF ListClose, BoundNames, ListInv, ListTypeOK
<1>4. CASE UNCHANGED clients
  <2>1. BoundNames' = BoundNames
    BY <1>4 DEF BoundNames
  <2> QED BY <2>1
<1> QED
  BY <1>1, <1>2, <1>3, <1>4 DEF ListAction, ListStep, Connect, ConnectFails, Retry,
     BindAccepted, BindFails, PeerUnbind, SessionClose, ListTimer, ListSendFails, ListSend,
     ListResponse, listVars

(* A submit_sm_resp changes the answers of the submits it is for.          *)
LEMMA RespondType ==
  ASSUME answers \in [Msg -> Seq(Answer)], NEW S,
         NEW status \in {"throttled", "syserr", "rejected", "timeout", "backend"},
         Respond(S, status)
  PROVE  answers' \in [Msg -> Seq(Answer)]
<1> DEFINE a(m) == [status |-> status, delivered |-> sess[origin'[m]] = "open"]
<1>1. \A m \in Msg : a(m) \in Answer
  BY DEF Answer
<1>2. answers' = [m \in Msg |-> IF m \in S THEN Append(answers[m], a(m)) ELSE answers[m]]
  BY DEF Respond
<1> HIDE DEF a
<1>3. \A m \in Msg : Append(answers[m], a(m)) \in Seq(Answer)
  BY <1>1
<1> QED BY <1>2, <1>3

(* pinex takes a submit or settles it.                                     *)
LEMMA BackType ==
  ASSUME Back!TypeOK, NEW S, Back!Accept(S) \/ Back!Answer(S) \/ Back!Lose(S)
  PROVE  Back!TypeOK'
BY DEF Back!TypeOK, Back!Accept, Back!Answer, Back!Lose, Back!Move, Back!Status

(* on_check_policies_responce, the submit having passed.                   *)
LEMMA ForwardType ==
  ASSUME PathShape, NEW m \in Msg, Forward(m)
  PROVE  Back!TypeOK' /\ answers' \in [Msg -> Seq(Answer)]
<1>1. Back!TypeOK'
  BY BackType DEF Forward, PathShape
<1>2. answers' \in [Msg -> Seq(Answer)]
  BY RespondType DEF Forward, PathShape
<1> QED BY <1>1, <1>2

(* user_data_.insert keeps the keys unique.                                *)
LEMMA RememberType ==
  ASSUME PathShape, NEW k \in 1 .. MaxSequence, NEW n \in Name, NEW m \in Msg,
         Remember(k, n, m)
  PROVE  /\ paperData' \subseteq [key : 1 .. MaxSequence, name : Name, msg : Msg]
         /\ \A d, e \in paperData' : d.key = e.key /\ d.name = e.name => d = e
         /\ shadowed' \subseteq Msg
<1> DEFINE u == [key |-> k, name |-> n, msg |-> m]
<1>1. CASE \E d \in paperData : d.key = k /\ d.name = n
  BY <1>1 DEF Remember, PathShape
<1>2. CASE ~ \E d \in paperData : d.key = k /\ d.name = n
  <2>1. paperData' = paperData \cup {u} /\ UNCHANGED shadowed
    BY <1>2 DEF Remember
  <2>2. u \in [key : 1 .. MaxSequence, name : Name, msg : Msg]
    OBVIOUS
  <2>3. \A d \in paperData : ~ (d.key = u.key /\ d.name = u.name)
    BY <1>2
  <2> HIDE DEF u
  <2> QED BY <2>1, <2>2, <2>3 DEF PathShape
<1> QED BY <1>1, <1>2

(* p_client_list::send_request(msg) keeps the cursor a number.             *)
LEMMA MoveCursorType ==
  ASSUME PathShape, IsFiniteSet(BoundNames), NEW n, At(n), MoveCursor
  PROVE  /\ Cardinality(BoundNames) \in Nat \ {0}
         /\ cursor' \in 0 .. Cardinality(BoundNames) - 1
         /\ gone' = FALSE
<1>1. Cardinality(BoundNames) \in Nat /\ BoundNames # {}
  BY FS_CardinalityType DEF At
<1>2. Cardinality(BoundNames) # 0
  BY <1>1, FS_EmptySet
<1> QED BY <1>1, <1>2 DEF MoveCursor, PathShape

(* paper_client::check_policies.                                           *)
LEMMA CheckType ==
  ASSUME PathInv, NEW m \in Msg, CheckPolicies(m)
  PROVE  /\ cursor' \in Nat
         /\ gone' = FALSE \/ UNCHANGED gone
         /\ paperData' \subseteq [key : 1 .. MaxSequence, name : Name, msg : Msg]
         /\ \A d, e \in paperData' : d.key = e.key /\ d.name = e.name => d = e
         /\ shadowed' \subseteq Msg
         /\ Back!TypeOK'
         /\ answers' \in [Msg -> Seq(Answer)]
<1>0. PathShape /\ ListInv /\ IsFiniteSet(BoundNames)
  BY DEF PathInv
<1>1. Back!TypeOK'
  BY <1>0 DEF CheckPolicies, PathShape, Back!TypeOK
<1>2. CASE AskFails(m)
  <2>1. answers' \in [Msg -> Seq(Answer)]
    BY <1>0, <1>2, RespondType DEF AskFails, PathShape
  <2> QED BY <1>0, <1>1, <1>2, <2>1 DEF AskFails, PathShape
<1>3. ASSUME NEW n \in Name, AskServer(m, n)
      PROVE  /\ cursor' \in Nat /\ gone' = FALSE
             /\ paperData' \subseteq [key : 1 .. MaxSequence, name : Name, msg : Msg]
             /\ \A d, e \in paperData' : d.key = e.key /\ d.name = e.name => d = e
             /\ shadowed' \subseteq Msg
             /\ answers' \in [Msg -> Seq(Answer)]
  <2> DEFINE k == NextSeq(clients[n])
  <2>1. cursor' \in Nat /\ gone' = FALSE
    <3>1. At(n) /\ MoveCursor
      BY <1>3 DEF AskServer
    <3>2. /\ Cardinality(BoundNames) \in Nat \ {0}
          /\ cursor' \in 0 .. Cardinality(BoundNames) - 1
          /\ gone' = FALSE
      BY <1>0, <3>1, MoveCursorType
    <3> QED BY <3>2
  <2>2. CASE Usable(k) /\ Remember(k, n, m) /\ UNCHANGED answers
    <3>1. clients[n] \in Peer
      BY <1>0, <1>3, NamedClient DEF AskServer, At
    <3>2. k \in 1 .. MaxSequence
      BY <1>0, <2>2, <3>1, NextSeqType DEF Usable, ListInv
    <3> HIDE DEF k
    <3>3. /\ paperData' \subseteq [key : 1 .. MaxSequence, name : Name, msg : Msg]
          /\ \A d, e \in paperData' : d.key = e.key /\ d.name = e.name => d = e
          /\ shadowed' \subseteq Msg
      BY <1>0, <2>2, <3>2, RememberType
    <3> QED BY <1>0, <2>1, <2>2, <3>3 DEF PathShape
  <2>3. CASE Respond({m}, "syserr") /\ UNCHANGED <<paperData, shadowed>>
    <3>1. answers' \in [Msg -> Seq(Answer)]
      BY <1>0, <2>3, RespondType DEF PathShape
    <3> QED BY <1>0, <2>1, <2>3, <3>1 DEF PathShape
  <2> QED BY <1>3, <2>2, <2>3 DEF AskServer
<1> QED BY <1>1, <1>2, <1>3 DEF CheckPolicies

LEMMA PathInit == Init => PathInv
<1> SUFFICES ASSUME Init
             PROVE  PathInv
  OBVIOUS
<1>1. ListInv
  BY ListInvInit DEF Init
<1>2. BoundNames = {}
  BY DEF Init, ListInit, BoundNames
<1>3. IsFiniteSet(BoundNames)
  BY <1>2, FS_EmptySet
<1>4. Back!TypeOK
  BY DEF Init, Back!Init, Back!TypeOK, Back!Status
<1>5. answers \in [Msg -> Seq(Answer)]
  BY EmptySeq DEF Init
<1>6. PathFlags
  BY Zenon DEF Init, PathFlags
<1>7. PathShape
  BY <1>4, <1>5 DEF Init, PathShape
<1> QED BY <1>1, <1>3, <1>6, <1>7 DEF PathInv

(* The flags; only what a policy server's closing makes of "gone" is not a *)
(* constant.                                                               *)
LEMMA FlagsStep ==
  ASSUME PathInv, [Next]_pathVars
  PROVE  PathFlags'
<1>1. running' = FALSE \/ running' = running
  BY DEF Next, ReceiveSubmit, CursorOverrun, SubmitTerminates, EsmeStep,
     PolicyUnparsed, PolicyRejects,
     PolicyApproves, PolicyApprovesThrows, OnPolicyTimer, PolicyClose, PolicyLinkStep,
     PolicyBind, BackSettles, Down, pathVars
<1>2. ASSUME NEW m \in Msg, NEW s \in Session, ReceiveSubmit(m, s)
      PROVE  gone' = FALSE \/ gone' = gone
  BY <1>2, CheckType DEF ReceiveSubmit
<1>3. ASSUME NEW p \in Peer, PolicyClose(p)
      PROVE  gone' \in BOOLEAN
  BY <1>3, Zenon DEF PolicyClose
<1>4. ASSUME \/ \E s \in Session : CursorOverrun(s) \/ SubmitTerminates(s) \/ EsmeStep(s)
             \/ \E r \in wire : PolicyUnparsed(r) \/ PolicyRejects(r) \/ PolicyApproves(r)
                                \/ PolicyApprovesThrows(r)
             \/ \E p \in Peer : \/ OnPolicyTimer(p) \/ PolicyLinkStep(p)
                                \/ \E n \in Name : PolicyBind(p, n)
             \/ \E m \in Msg : BackSettles(m)
             \/ UNCHANGED pathVars
      PROVE  gone' = gone
  BY <1>4 DEF CursorOverrun, SubmitTerminates, EsmeStep, PolicyUnparsed, PolicyRejects,
     PolicyApproves,
     PolicyApprovesThrows, OnPolicyTimer, PolicyLinkStep, PolicyBind, BackSettles, Down,
     pathVars, history
<1>5. \/ gone' = FALSE
      \/ gone' = gone
      \/ \E p \in Peer : PolicyClose(p)
  BY <1>2, <1>4 DEF Next
<1>6. running \in BOOLEAN /\ gone \in BOOLEAN
  BY DEF PathInv, PathFlags
<1>7. running' \in BOOLEAN
  BY <1>1, <1>6, Zenon
<1>8. gone' \in BOOLEAN
  BY <1>3, <1>5, <1>6, Zenon
<1> QED BY <1>7, <1>8, Zenon DEF PathFlags

(* What waits and leaves user_data_ is answered.                           *)
LEMMA SettleType ==
  ASSUME PathShape, NEW D, NEW S,
         NEW status \in {"throttled", "syserr", "rejected", "timeout", "backend"},
         Take(D), Respond(S, status), UNCHANGED <<cursor, back, esme, approval, ignored,
                                                  shadowed, unparsed>>
  PROVE  PathShape'
<1>1. answers' \in [Msg -> Seq(Answer)]
  BY RespondType DEF PathShape
<1>2. Back!TypeOK'
  BY DEF PathShape, Back!TypeOK
<1> QED BY <1>1, <1>2 DEF PathShape, Take, esme

LEMMA ShapeStep ==
  ASSUME PathInv, [Next]_pathVars
  PROVE  PathShape'
<1>0. PathShape /\ ListInv /\ ListTypeOK
  BY DEF PathInv, ListInv
<1>1. ASSUME NEW m \in Msg, NEW s \in Session, ReceiveSubmit(m, s)
      PROVE  PathShape'
  <2>1. /\ origin' \in [Msg -> Session \cup {NoSession}]
        /\ UNCHANGED <<sess, approval, unparsed>>
    BY <1>0, <1>1 DEF ReceiveSubmit, PathShape
  <2>2. ignored' \subseteq Msg
    BY <1>0, <1>1 DEF ReceiveSubmit, PathShape
  <2>3. CASE /\ UNCHANGED <<cursor, paperData, back, shadowed>>
             /\ \E status \in {"throttled", "syserr"} : Respond({m}, status)
    <3>1. answers' \in [Msg -> Seq(Answer)]
      BY <1>0, <2>3, RespondType DEF PathShape
    <3> QED BY <1>0, <2>1, <2>2, <2>3, <3>1 DEF PathShape, Back!TypeOK
  <2>4. CASE UNCHANGED <<cursor, paperData, back, shadowed, answers>>
    BY <1>0, <2>1, <2>2, <2>4 DEF PathShape, Back!TypeOK
  <2>5. CASE Forward(m) /\ UNCHANGED <<cursor, paperData, shadowed>>
    <3>1. Back!TypeOK' /\ answers' \in [Msg -> Seq(Answer)]
      BY <1>0, <2>5, ForwardType
    <3> QED BY <1>0, <2>1, <2>2, <2>5, <3>1 DEF PathShape
  <2>6. CASE CheckPolicies(m)
    BY <1>0, <2>1, <2>2, <2>6, CheckType DEF PathShape
  <2> QED BY <1>1, <2>3, <2>4, <2>5, <2>6 DEF ReceiveSubmit
<1>2. ASSUME NEW r \in wire, PolicyUnparsed(r)
      PROVE  PathShape'
  <2>1. unparsed' \subseteq Msg
    BY <1>0, <1>2 DEF PolicyUnparsed, Found, PathShape
  <2> QED BY <1>0, <1>2, <2>1 DEF PolicyUnparsed, esme, PathShape, Back!TypeOK
<1>3. ASSUME NEW r \in wire, PolicyRejects(r)
      PROVE  PathShape'
  BY <1>0, <1>3, SettleType DEF PolicyRejects, esme
<1>4. ASSUME NEW r \in wire, PolicyApproves(r)
      PROVE  PathShape'
  <2> PICK d \in Found(r.key, server[r.peer]) :
        /\ Take({d}) /\ Forward(d.msg)
        /\ approval' = [approval EXCEPT ![d.msg] = r.msg]
    BY <1>4 DEF PolicyApproves
  <2>1. d \in paperData /\ d.msg \in Msg /\ r.msg \in Msg
    BY <1>0 DEF Found, PathShape, ListTypeOK
  <2>2. Back!TypeOK' /\ answers' \in [Msg -> Seq(Answer)]
    BY <1>0, <2>1, ForwardType
  <2>3. approval' \in [Msg -> Msg \cup {NoMsg}]
    BY <1>0, <2>1 DEF PathShape
  <2> QED BY <1>0, <1>4, <2>2, <2>3 DEF PolicyApproves, Take, PathShape
<1>5. ASSUME NEW p \in Peer, OnPolicyTimer(p)
      PROVE  PathShape'
  BY <1>0, <1>5, SettleType DEF OnPolicyTimer, esme
<1>6. ASSUME NEW m \in Msg, BackSettles(m)
      PROVE  PathShape'
  <2>1. Back!TypeOK'
    BY <1>0, <1>6, BackType DEF BackSettles, PathShape
  <2>2. answers' \in [Msg -> Seq(Answer)]
    BY <1>0, <1>6, RespondType DEF BackSettles, PathShape
  <2> QED BY <1>0, <1>6, <2>1, <2>2 DEF BackSettles, PathShape
<1>7. ASSUME NEW s \in Session, EsmeStep(s)
      PROVE  PathShape'
  BY <1>0, <1>7 DEF EsmeStep, history, PathShape, Back!TypeOK
<1>8. CASE UNCHANGED <<cursor, paperData, back, esme, answers, approval, ignored, shadowed,
                       unparsed>>
  BY <1>0, <1>8 DEF esme, PathShape, Back!TypeOK
<1>9. CASE \/ \E s \in Session : CursorOverrun(s) \/ SubmitTerminates(s)
           \/ \E r \in wire : PolicyApprovesThrows(r)
           \/ \E p \in Peer : \/ PolicyClose(p) \/ PolicyLinkStep(p)
                              \/ \E n \in Name : PolicyBind(p, n)
           \/ UNCHANGED pathVars
  BY <1>8, <1>9 DEF CursorOverrun, SubmitTerminates, PolicyApprovesThrows, PolicyClose,
     PolicyLinkStep,
     PolicyBind, Down, pathVars, history
<1> QED BY <1>1, <1>2, <1>3, <1>4, <1>5, <1>6, <1>7, <1>9 DEF Next

LEMMA PathStep == PathInv /\ [Next]_pathVars => PathInv'
<1> SUFFICES ASSUME PathInv, [Next]_pathVars
             PROVE  PathInv'
  OBVIOUS
<1>1. ListInv /\ IsFiniteSet(BoundNames)
  BY DEF PathInv
<1>2. ListAction
  BY <1>1, PathListAction
<1>3. ListInv' /\ IsFiniteSet(BoundNames')
  BY <1>1, <1>2, ListActionKeeps, BoundNamesFinite
<1>4. PathShape' /\ PathFlags'
  BY ShapeStep, FlagsStep
<1> QED BY <1>3, <1>4 DEF PathInv

LEMMA PathInvariant == SafeSpec => []PathInv
BY PathInit, PathStep, PTL DEF SafeSpec

(* The variables of the path keep their types; no key is twice in          *)
(* paper_client's user_data_ or in an expirator, and none is 0.            *)
THEOREM TypeCorrect == SafeSpec => []TypeOK
BY PathInvariant, PathInvSuffices, PTL

-----------------------------------------------------------------------------
(* The round robin cursor.  It starts at 0, every request brings it back   *)
(* into range, and only a client that leaves makes the range smaller.      *)

CursorInv == gone \/ cursor = 0 \/ cursor < Cardinality(BoundNames)

LEMMA CursorInit == Init => CursorInv
BY DEF Init, CursorInv

(* A handler that leaves the cursor alone, and no client leaves.           *)
LEMMA CursorStays ==
  ASSUME PathInv, CursorInv, IsFiniteSet(BoundNames'), UNCHANGED <<cursor, gone>>,
         BoundNames \subseteq BoundNames'
  PROVE  CursorInv'
<1>1. Cardinality(BoundNames) <= Cardinality(BoundNames')
  BY FS_Subset
<1>2. Cardinality(BoundNames) \in Nat /\ Cardinality(BoundNames') \in Nat /\ cursor \in Nat
  BY FS_CardinalityType DEF PathInv, PathShape
<1> QED BY <1>1, <1>2 DEF CursorInv

(* A policy server's p_client takes its name out of binded_clients_, or    *)
(* the name was out already.                                               *)
LEMMA CursorClose ==
  ASSUME PathInv, CursorInv, IsFiniteSet(BoundNames'), NEW p \in Peer, PolicyClose(p)
  PROVE  CursorInv'
<1>1. CASE clients[server[p]] # NoPeer
  <2>1. gone'
    BY <1>1, Zenon DEF PolicyClose
  <2> QED BY <2>1 DEF CursorInv
<1>2. CASE clients[server[p]] = NoPeer
  <2>1. gone' = gone
    <3>1. gone \in BOOLEAN
      BY DEF PathInv, PathFlags
    <3> QED BY <1>2, <3>1, Zenon DEF PolicyClose
  <2>2. UNCHANGED clients
    BY <1>2 DEF PolicyClose, ListClose, PathInv, ListInv, ListTypeOK
  <2>3. BoundNames' = BoundNames /\ UNCHANGED cursor
    BY <2>2 DEF BoundNames, PolicyClose
  <2> QED BY <2>1, <2>3, CursorStays
<1> QED BY <1>1, <1>2

LEMMA CursorStep == PathInv /\ CursorInv /\ [Next]_pathVars => CursorInv'
<1> SUFFICES ASSUME PathInv, CursorInv, [Next]_pathVars
             PROVE  CursorInv'
  OBVIOUS
<1>0. IsFiniteSet(BoundNames') /\ ListInv /\ ListTypeOK
  BY PathListAction, BoundNamesFinite DEF PathInv, ListInv
<1>1. ASSUME UNCHANGED <<clients, cursor, gone>>
      PROVE  CursorInv'
  <2>1. BoundNames' = BoundNames
    BY <1>1 DEF BoundNames
  <2> QED BY <1>0, <1>1, <2>1, CursorStays
<1>2. ASSUME NEW m \in Msg, CheckPolicies(m)
      PROVE  CursorInv'
  <2>1. CASE AskFails(m)
    BY <1>1, <2>1 DEF AskFails, ListSendFails, listVars
  <2>2. ASSUME NEW n \in Name, AskServer(m, n)
        PROVE  CursorInv'
    <3>1. At(n) /\ MoveCursor /\ UNCHANGED clients
      BY <2>2 DEF AskServer, ListSend
    <3>2. /\ Cardinality(BoundNames) \in Nat \ {0}
          /\ cursor' \in 0 .. Cardinality(BoundNames) - 1
      BY <3>1, MoveCursorType DEF PathInv
    <3>3. BoundNames' = BoundNames
      BY <3>1 DEF BoundNames
    <3>4. cursor' < Cardinality(BoundNames)'
      BY <3>2, <3>3
    <3> QED BY <3>4 DEF CursorInv
  <2> QED BY <1>2, <2>1, <2>2 DEF CheckPolicies
<1>3. ASSUME NEW m \in Msg, NEW s \in Session, ReceiveSubmit(m, s)
      PROVE  CursorInv'
  BY <1>1, <1>2, <1>3 DEF ReceiveSubmit, listVars
<1>4. CASE \/ \E s \in Session : CursorOverrun(s) \/ SubmitTerminates(s) \/ EsmeStep(s)
           \/ \E r \in wire : PolicyUnparsed(r) \/ PolicyRejects(r) \/ PolicyApproves(r)
                              \/ PolicyApprovesThrows(r)
           \/ \E p \in Peer : OnPolicyTimer(p) \/ PolicyLinkStep(p)
           \/ \E m \in Msg : BackSettles(m)
           \/ UNCHANGED pathVars
  <2>1. UNCHANGED <<cursor, gone>>
    BY <1>4 DEF CursorOverrun, SubmitTerminates, EsmeStep, PolicyUnparsed,
       PolicyRejects, PolicyApproves,
       PolicyApprovesThrows, OnPolicyTimer, PolicyLinkStep, BackSettles, Down, pathVars, history
  <2>2. UNCHANGED clients
    BY <1>4 DEF CursorOverrun, SubmitTerminates, EsmeStep, PolicyUnparsed,
       PolicyRejects, PolicyApproves,
       PolicyApprovesThrows, OnPolicyTimer, PolicyLinkStep, BackSettles, Down, pathVars,
       listVars, ListResponse, ListTimer, ListStep, Connect, ConnectFails, Retry,
       BindAccepted, BindFails, PeerUnbind, SessionClose
  <2> QED BY <1>1, <2>1, <2>2
<1>5. ASSUME NEW p \in Peer, NEW n \in Name, PolicyBind(p, n)
      PROVE  CursorInv'
  <2>1. UNCHANGED <<cursor, gone>>
    BY <1>5 DEF PolicyBind, history
  <2>2. BoundNames \subseteq BoundNames'
    BY <1>0, <1>5, ListAssumption DEF PolicyBind, ListBind, BoundNames, ListTypeOK
  <2> QED BY <1>0, <2>1, <2>2, CursorStays
<1>6. ASSUME NEW p \in Peer, PolicyClose(p)
      PROVE  CursorInv'
  BY <1>0, <1>6, CursorClose
<1> QED BY <1>3, <1>4, <1>5, <1>6 DEF Next

LEMMA CursorSuffices == PathInv /\ CursorInv => CursorKept
<1> SUFFICES ASSUME PathInv, CursorInv, BoundNames # {}, cursor >= Cardinality(BoundNames)
             PROVE  gone
  BY DEF CursorKept
<1>1. Cardinality(BoundNames) \in Nat /\ Cardinality(BoundNames) # 0 /\ cursor \in Nat
  BY FS_CardinalityType, FS_EmptySet DEF PathInv, PathShape
<1>2. ~ (cursor = 0) /\ ~ (cursor < Cardinality(BoundNames))
  BY <1>1
<1> QED BY <1>2 DEF CursorInv

(* The cursor of p_client_list points past the end of binded_clients_ only *)
(* when a policy server has left since it moved: the one way into the      *)
(* undefined access of send_request(msg).                                  *)
THEOREM CursorKeptAlways == SafeSpec => []CursorKept
<1>1. Init => CursorInv
  BY CursorInit
<1>2. PathInv /\ CursorInv /\ [Next]_pathVars => CursorInv'
  BY CursorStep
<1>3. PathInv /\ CursorInv => CursorKept
  BY CursorSuffices
<1> QED BY <1>1, <1>2, <1>3, PathInvariant, PTL DEF SafeSpec

-----------------------------------------------------------------------------
(* The account of the submits.  Each is in one of six places, and the      *)
(* strengthening says all of what is so in each of them.                   *)

Silent(m) == answers[m] = << >> /\ m \notin ignored /\ m \notin shadowed

Fresh(m)     == m \notin Received /\ Silent(m) /\ m \notin UnderPolicy /\ back[m] = "new"
Waiting(m)   == m \in Received /\ Silent(m) /\ m \in UnderPolicy /\ back[m] = "new"
AtPinex(m)   == m \in Received /\ Silent(m) /\ m \notin UnderPolicy /\ back[m] = "accepted"
LostThere(m) == m \in Received /\ Silent(m) /\ m \notin UnderPolicy /\ back[m] = "lost"

Replied(m) ==
  /\ m \in Received /\ Len(answers[m]) = 1
  /\ m \notin ignored /\ m \notin shadowed /\ m \notin UnderPolicy
  /\ back[m] \in {"new", "answered"}

Dropped(m) ==
  /\ m \in Received /\ answers[m] = << >> /\ m \notin UnderPolicy /\ back[m] = "new"
  /\ m \in ignored <=> m \notin shadowed

OneEntry == \A d, e \in paperData : d.msg = e.msg => d = e

AccountInv ==
  /\ OneEntry
  /\ \A m \in Msg : \/ Fresh(m) \/ Waiting(m) \/ AtPinex(m)
                    \/ LostThere(m) \/ Replied(m) \/ Dropped(m)

LEMMA AccountInit == Init => AccountInv
BY DEF Init, Back!Init, AccountInv, OneEntry, Fresh, Silent, Received, UnderPolicy

(* A submit that a step does not touch.                                    *)
Same(m) ==
  /\ origin'[m] = origin[m] /\ answers'[m] = answers[m] /\ back'[m] = back[m]
  /\ m \in UnderPolicy' <=> m \in UnderPolicy
  /\ m \in ignored' <=> m \in ignored
  /\ m \in shadowed' <=> m \in shadowed

(* What a step does to the submits: it answers some, or takes them over,   *)
(* or pinex gets them, or they are given up.                               *)
Moves(S) ==
  /\ OneEntry'
  /\ \A q \in Msg \ S : Same(q)
  /\ \/ \A m \in S : (Fresh(m) \/ Waiting(m) \/ AtPinex(m)) /\ Replied(m)'
     \/ \A m \in S : Fresh(m) /\ (Waiting(m)' \/ AtPinex(m)')
     \/ \A m \in S : Waiting(m) /\ AtPinex(m)'
     \/ \A m \in S : (Fresh(m) /\ Dropped(m)') \/ (AtPinex(m) /\ LostThere(m)')

LEMMA SameStays ==
  ASSUME NEW m \in Msg, Same(m)
  PROVE  /\ Fresh(m) => Fresh(m)'
         /\ Waiting(m) => Waiting(m)'
         /\ AtPinex(m) => AtPinex(m)'
         /\ LostThere(m) => LostThere(m)'
         /\ Replied(m) => Replied(m)'
         /\ Dropped(m) => Dropped(m)'
BY DEF Same, Fresh, Waiting, AtPinex, LostThere, Replied, Dropped, Silent, Received

LEMMA MovesKeeps ==
  ASSUME AccountInv, NEW S, Moves(S)
  PROVE  AccountInv'
<1> SUFFICES ASSUME NEW m \in Msg
             PROVE  (\/ Fresh(m) \/ Waiting(m) \/ AtPinex(m)
                     \/ LostThere(m) \/ Replied(m) \/ Dropped(m))'
  BY DEF AccountInv, Moves
<1>1. CASE m \notin S
  BY <1>1, SameStays DEF Moves, AccountInv
<1>2. CASE m \in S
  BY <1>2 DEF Moves
<1> QED BY <1>1, <1>2

(* A submit_sm_resp is the first of its submit.                            *)
LEMMA RespondOutcome ==
  ASSUME answers \in [Msg -> Seq(Answer)], NEW S,
         NEW status \in {"throttled", "syserr", "rejected", "timeout", "backend"},
         Respond(S, status)
  PROVE  /\ \A m \in Msg \ S : answers'[m] = answers[m]
         /\ \A m \in Msg : m \in S /\ answers[m] = << >> => Len(answers'[m]) = 1
<1> DEFINE a(m) == [status |-> status, delivered |-> sess[origin'[m]] = "open"]
<1>1. answers' = [m \in Msg |-> IF m \in S THEN Append(answers[m], a(m)) ELSE answers[m]]
  BY DEF Respond
<1> HIDE DEF a
<1>2. \A m \in Msg \ S : answers'[m] = answers[m]
  BY <1>1
<1>3. ASSUME NEW m \in Msg, m \in S, answers[m] = << >>
      PROVE  Len(answers'[m]) = 1
  <2>1. answers'[m] = Append(<< >>, a(m))
    BY <1>1, <1>3
  <2> QED BY <2>1
<1> QED BY <1>2, <1>3

(* pinex takes the submit, or it is answered; nothing else is touched.     *)
LEMMA ForwardOutcome ==
  ASSUME PathShape, NEW m \in Msg, Forward(m),
         answers[m] = << >>, back[m] = "new"
  PROVE  /\ \A q \in Msg \ {m} : answers'[q] = answers[q] /\ back'[q] = back[q]
         /\ \/ back'[m] = "accepted" /\ answers'[m] = << >>
            \/ back'[m] \in {"new", "answered"} /\ Len(answers'[m]) = 1
<1>0. answers \in [Msg -> Seq(Answer)] /\ Back!TypeOK
  BY DEF PathShape
<1>1. CASE Back!Accept({m}) /\ UNCHANGED answers
  BY <1>0, <1>1 DEF Back!Accept, Back!Move, Back!TypeOK
<1>2. CASE Back!Answer({m}) /\ Respond({m}, "syserr")
  <2>1. /\ \A q \in Msg \ {m} : back'[q] = back[q]
        /\ back'[m] = "answered"
    BY <1>0, <1>2 DEF Back!Answer, Back!Move, Back!TypeOK
  <2>2. /\ \A q \in Msg \ {m} : answers'[q] = answers[q]
        /\ Len(answers'[m]) = 1
    BY <1>0, <1>2, RespondOutcome
  <2> QED BY <2>1, <2>2
<1> QED BY <1>1, <1>2 DEF Forward

(* Entries taken out of user_data_ take their submits out of UnderPolicy.  *)
LEMMA TakeOutcome ==
  ASSUME OneEntry, NEW D \in SUBSET paperData, Take(D)
  PROVE  OneEntry' /\ UnderPolicy' = UnderPolicy \ {d.msg : d \in D}
BY DEF OneEntry, Take, UnderPolicy

LEMMA RememberOutcome ==
  ASSUME OneEntry, NEW k, NEW n, NEW m, m \notin UnderPolicy, Remember(k, n, m)
  PROVE  /\ OneEntry'
         /\ \/ UnderPolicy' = UnderPolicy \cup {m} /\ UNCHANGED shadowed
            \/ UnderPolicy' = UnderPolicy /\ shadowed' = shadowed \cup {m}
<1> DEFINE u == [key |-> k, name |-> n, msg |-> m]
<1>1. CASE \E d \in paperData : d.key = k /\ d.name = n
  BY <1>1 DEF Remember, OneEntry, UnderPolicy
<1>2. CASE ~ \E d \in paperData : d.key = k /\ d.name = n
  <2>1. paperData' = paperData \cup {u} /\ UNCHANGED shadowed
    BY <1>2 DEF Remember
  <2>2. u.msg = m
    OBVIOUS
  <2> HIDE DEF u
  <2>3. UnderPolicy' = UnderPolicy \cup {m}
    BY <2>1, <2>2 DEF UnderPolicy
  <2>4. OneEntry'
    BY <2>1, <2>2 DEF OneEntry, UnderPolicy
  <2> QED BY <2>1, <2>3, <2>4
<1> QED BY <1>1, <1>2

(* Submits that wait for a verdict, all answered with one status: a        *)
(* rejection, or the timer's tick.                                         *)
LEMMA SettleMoves ==
  ASSUME PathShape, AccountInv, NEW D \in SUBSET paperData, Take(D),
         NEW status \in {"throttled", "syserr", "rejected", "timeout", "backend"},
         Respond({d.msg : d \in D}, status), UNCHANGED <<origin, back, ignored, shadowed>>
  PROVE  \E S \in SUBSET Msg : Moves(S)
<1> DEFINE S == {d.msg : d \in D}
<1>1. S \in SUBSET Msg /\ S \subseteq UnderPolicy /\ Respond(S, status)
  BY DEF UnderPolicy, PathShape
<1>2. OneEntry' /\ UnderPolicy' = UnderPolicy \ S
  BY TakeOutcome DEF AccountInv
<1> HIDE DEF S
<1>3. \A m \in S : Waiting(m)
  BY <1>1 DEF AccountInv, Fresh, AtPinex, LostThere, Replied, Dropped
<1>4. /\ \A m \in Msg \ S : answers'[m] = answers[m]
      /\ \A m \in Msg : m \in S /\ answers[m] = << >> => Len(answers'[m]) = 1
  BY <1>1, RespondOutcome DEF PathShape
<1>5. \A m \in Msg \ S : Same(m)
  BY <1>2, <1>4 DEF Same
<1>6. \A m \in S : Replied(m)'
  BY <1>1, <1>2, <1>3, <1>4 DEF Waiting, Silent, Replied, Received
<1> QED BY <1>1, <1>2, <1>3, <1>5, <1>6 DEF Moves

(* A step that touches no submit.                                          *)
LEMMA NothingMoves ==
  ASSUME AccountInv, UNCHANGED <<paperData, origin, answers, back, ignored, shadowed>>
  PROVE  \E S \in SUBSET Msg : Moves(S)
<1> DEFINE S == {}
<1>1. \A m \in Msg : Same(m)
  BY DEF Same, UnderPolicy
<1>2. OneEntry'
  BY DEF AccountInv, OneEntry
<1>3. S \in SUBSET Msg /\ \A m \in S : FALSE
  OBVIOUS
<1> HIDE DEF S
<1> QED BY <1>1, <1>2, <1>3 DEF Moves

(* on_check_policies_responce, process_submit_req and paper_client move    *)
(* one submit.                                                             *)
LEMMA OneMoves ==
  ASSUME NEW m \in Msg, OneEntry', \A q \in Msg \ {m} : Same(q),
         \/ (Fresh(m) \/ Waiting(m) \/ AtPinex(m)) /\ Replied(m)'
         \/ Fresh(m) /\ (Waiting(m)' \/ AtPinex(m)' \/ Dropped(m)')
         \/ Waiting(m) /\ AtPinex(m)'
         \/ AtPinex(m) /\ LostThere(m)'
  PROVE  \E S \in SUBSET Msg : Moves(S)
<1> DEFINE S == {m}
<1>1. S \in SUBSET Msg /\ S = {m}
  OBVIOUS
<1> HIDE DEF S
<1>2. /\ OneEntry'
      /\ \A q \in Msg \ S : Same(q)
  BY <1>1
<1>3. CASE (Fresh(m) \/ Waiting(m) \/ AtPinex(m)) /\ Replied(m)'
  BY <1>1, <1>2, <1>3 DEF Moves
<1>4. CASE Fresh(m) /\ (Waiting(m)' \/ AtPinex(m)')
  BY <1>1, <1>2, <1>4 DEF Moves
<1>5. CASE Waiting(m) /\ AtPinex(m)'
  BY <1>1, <1>2, <1>5 DEF Moves
<1>6. CASE (Fresh(m) /\ Dropped(m)') \/ (AtPinex(m) /\ LostThere(m)')
  BY <1>1, <1>2, <1>6 DEF Moves
<1> QED BY <1>3, <1>4, <1>5, <1>6

LEMMA CheckMoves ==
  ASSUME PathShape, AccountInv, NEW m \in Msg, Fresh(m), CheckPolicies(m),
         NEW s \in Session, origin' = [origin EXCEPT ![m] = s], UNCHANGED ignored
  PROVE  \E S \in SUBSET Msg : Moves(S)
<1>0. /\ m \in Received' /\ \A q \in Msg \ {m} : origin'[q] = origin[q]
      /\ UNCHANGED back /\ OneEntry /\ answers \in [Msg -> Seq(Answer)]
  BY PathAssumption DEF Received, PathShape, AccountInv, CheckPolicies
<1>1. CASE Respond({m}, "syserr") /\ UNCHANGED <<paperData, shadowed>>
  <2>1. /\ \A q \in Msg \ {m} : answers'[q] = answers[q]
        /\ answers[m] = << >> => Len(answers'[m]) = 1
    BY <1>0, <1>1, RespondOutcome
  <2>2. OneEntry' /\ UnderPolicy' = UnderPolicy
    BY <1>0, <1>1 DEF OneEntry, UnderPolicy
  <2>3. Replied(m)'
    BY <1>0, <1>1, <2>1, <2>2 DEF Fresh, Silent, Replied
  <2>4. \A q \in Msg \ {m} : Same(q)
    BY <1>0, <1>1, <2>1, <2>2 DEF Same
  <2> QED BY <2>2, <2>3, <2>4, OneMoves
<1>2. ASSUME NEW k, NEW n, Remember(k, n, m), UNCHANGED answers
      PROVE  \E S \in SUBSET Msg : Moves(S)
  <2>1. m \notin UnderPolicy /\ m \notin ignored /\ m \notin shadowed /\ answers[m] = << >>
        /\ back[m] = "new"
    BY DEF Fresh, Silent
  <2>2. /\ OneEntry'
        /\ \/ UnderPolicy' = UnderPolicy \cup {m} /\ UNCHANGED shadowed
           \/ UnderPolicy' = UnderPolicy /\ shadowed' = shadowed \cup {m}
    BY <1>0, <1>2, <2>1, RememberOutcome
  <2>3. Waiting(m)' \/ Dropped(m)'
    BY <1>0, <1>2, <2>1, <2>2 DEF Waiting, Silent, Dropped
  <2>4. \A q \in Msg \ {m} : Same(q)
    BY <1>0, <1>2, <2>2 DEF Same
  <2> QED BY <2>2, <2>3, <2>4, OneMoves
<1> QED BY <1>1, <1>2 DEF CheckPolicies, AskServer, AskFails

LEMMA ReceiveMoves ==
  ASSUME PathShape, AccountInv, NEW m \in Msg, NEW s \in Session, ReceiveSubmit(m, s)
  PROVE  \E S \in SUBSET Msg : Moves(S)
<1>0. /\ m \in Received' /\ \A q \in Msg \ {m} : origin'[q] = origin[q]
      /\ origin' = [origin EXCEPT ![m] = s]
      /\ OneEntry /\ answers \in [Msg -> Seq(Answer)]
  BY PathAssumption DEF Received, PathShape, AccountInv, ReceiveSubmit
<1>1. Fresh(m)
  BY DEF ReceiveSubmit, AccountInv, Received, Waiting, AtPinex, LostThere, Replied,
     Dropped
<1>2. CASE CheckPolicies(m) /\ UNCHANGED ignored
  BY <1>0, <1>1, <1>2, CheckMoves
<1>3. ASSUME UNCHANGED paperData
      PROVE  OneEntry' /\ UnderPolicy' = UnderPolicy
  BY <1>0, <1>3 DEF OneEntry, UnderPolicy
<1>4. ASSUME NEW status \in {"throttled", "syserr"}, Respond({m}, status),
             UNCHANGED <<paperData, back, ignored, shadowed>>
      PROVE  \E S \in SUBSET Msg : Moves(S)
  <2>1. /\ \A q \in Msg \ {m} : answers'[q] = answers[q]
        /\ answers[m] = << >> => Len(answers'[m]) = 1
    BY <1>0, <1>4, RespondOutcome
  <2>2. OneEntry' /\ UnderPolicy' = UnderPolicy
    BY <1>3, <1>4
  <2>3. Replied(m)'
    BY <1>0, <1>1, <1>4, <2>1, <2>2 DEF Fresh, Silent, Replied
  <2>4. \A q \in Msg \ {m} : Same(q)
    BY <1>0, <1>4, <2>1, <2>2 DEF Same
  <2> QED BY <1>1, <2>2, <2>3, <2>4, OneMoves
<1>5. CASE ignored' = ignored \cup {m} /\ UNCHANGED <<paperData, back, answers, shadowed>>
  <2>1. OneEntry' /\ UnderPolicy' = UnderPolicy
    BY <1>3, <1>5
  <2>2. Dropped(m)'
    BY <1>0, <1>1, <1>5, <2>1 DEF Fresh, Silent, Dropped
  <2>3. \A q \in Msg \ {m} : Same(q)
    BY <1>0, <1>5, <2>1 DEF Same
  <2> QED BY <1>1, <2>1, <2>2, <2>3, OneMoves
<1>6. CASE Forward(m) /\ UNCHANGED <<paperData, ignored, shadowed>>
  <2>1. /\ \A q \in Msg \ {m} : answers'[q] = answers[q] /\ back'[q] = back[q]
        /\ \/ back'[m] = "accepted" /\ answers'[m] = << >>
           \/ back'[m] \in {"new", "answered"} /\ Len(answers'[m]) = 1
    BY <1>1, <1>6, ForwardOutcome DEF Fresh, Silent
  <2>2. OneEntry' /\ UnderPolicy' = UnderPolicy
    BY <1>3, <1>6
  <2>3. AtPinex(m)' \/ Replied(m)'
    BY <1>0, <1>1, <1>6, <2>1, <2>2 DEF Fresh, Silent, AtPinex, Replied
  <2>4. \A q \in Msg \ {m} : Same(q)
    BY <1>0, <1>6, <2>1, <2>2 DEF Same
  <2> QED BY <1>1, <2>2, <2>3, <2>4, OneMoves
<1> QED BY <1>2, <1>4, <1>5, <1>6 DEF ReceiveSubmit

LEMMA ApproveMoves ==
  ASSUME PathShape, ListTypeOK, AccountInv, NEW r \in wire, PolicyApproves(r)
  PROVE  \E S \in SUBSET Msg : Moves(S)
<1> PICK d \in Found(r.key, server[r.peer]) : Take({d}) /\ Forward(d.msg)
  BY DEF PolicyApproves
<1> DEFINE m == d.msg
<1>1. d \in paperData /\ m \in Msg /\ m \in UnderPolicy
  BY DEF Found, PathShape, UnderPolicy
<1>2. OneEntry' /\ UnderPolicy' = UnderPolicy \ {m}
  <2>1. OneEntry' /\ UnderPolicy' = UnderPolicy \ {e.msg : e \in {d}}
    BY <1>1, TakeOutcome DEF AccountInv
  <2> QED BY <2>1
<1>3. UNCHANGED <<origin, ignored, shadowed>> /\ Forward(m)
  BY DEF PolicyApproves
<1> HIDE DEF m
<1>4. Waiting(m)
  BY <1>1 DEF AccountInv, Fresh, AtPinex, LostThere, Replied, Dropped
<1>5. /\ \A q \in Msg \ {m} : answers'[q] = answers[q] /\ back'[q] = back[q]
      /\ \/ back'[m] = "accepted" /\ answers'[m] = << >>
         \/ back'[m] \in {"new", "answered"} /\ Len(answers'[m]) = 1
  BY <1>1, <1>3, <1>4, ForwardOutcome DEF Waiting, Silent
<1>6. AtPinex(m)' \/ Replied(m)'
  BY <1>2, <1>3, <1>4, <1>5 DEF Waiting, Silent, AtPinex, Replied, Received
<1>7. \A q \in Msg \ {m} : Same(q)
  BY <1>2, <1>3, <1>5 DEF Same
<1> QED BY <1>1, <1>2, <1>4, <1>6, <1>7, OneMoves

LEMMA BackMoves ==
  ASSUME PathShape, AccountInv, NEW m \in Msg, BackSettles(m)
  PROVE  \E S \in SUBSET Msg : Moves(S)
<1>0. answers \in [Msg -> Seq(Answer)] /\ Back!TypeOK
  BY DEF PathShape
<1>1. UNCHANGED <<origin, paperData, ignored, shadowed>>
  BY DEF BackSettles
<1>2. OneEntry' /\ UnderPolicy' = UnderPolicy
  BY <1>1 DEF AccountInv, OneEntry, UnderPolicy
<1>3. AtPinex(m)
  BY DEF BackSettles, AccountInv, Fresh, Waiting, LostThere, Replied, Dropped
<1>4. CASE Back!Answer({m}) /\ Respond({m}, "backend")
  <2>1. /\ \A q \in Msg \ {m} : back'[q] = back[q]
        /\ back'[m] = "answered"
    BY <1>0, <1>4 DEF Back!Answer, Back!Move, Back!TypeOK
  <2>2. /\ \A q \in Msg \ {m} : answers'[q] = answers[q]
        /\ answers[m] = << >> => Len(answers'[m]) = 1
    BY <1>0, <1>4, RespondOutcome
  <2>3. Replied(m)'
    BY <1>1, <1>2, <1>3, <2>1, <2>2 DEF AtPinex, Silent, Replied, Received
  <2>4. \A q \in Msg \ {m} : Same(q)
    BY <1>1, <1>2, <2>1, <2>2 DEF Same
  <2> QED BY <1>2, <1>3, <2>3, <2>4, OneMoves
<1>5. CASE Back!Lose({m}) /\ UNCHANGED answers
  <2>1. /\ \A q \in Msg \ {m} : back'[q] = back[q]
        /\ back'[m] = "lost"
    BY <1>0, <1>5 DEF Back!Lose, Back!Move, Back!TypeOK
  <2>2. LostThere(m)'
    BY <1>1, <1>2, <1>3, <1>5, <2>1 DEF AtPinex, Silent, LostThere, Received
  <2>3. \A q \in Msg \ {m} : Same(q)
    BY <1>1, <1>2, <1>5, <2>1 DEF Same
  <2> QED BY <1>2, <1>3, <2>2, <2>3, OneMoves
<1> QED BY <1>4, <1>5 DEF BackSettles

LEMMA StepMoves ==
  ASSUME PathInv, AccountInv, [Next]_pathVars
  PROVE  \E S \in SUBSET Msg : Moves(S)
<1>0. PathShape /\ ListTypeOK
  BY DEF PathInv, ListInv
<1>1. ASSUME NEW m \in Msg, NEW s \in Session, ReceiveSubmit(m, s)
      PROVE  \E S \in SUBSET Msg : Moves(S)
  BY <1>0, <1>1, ReceiveMoves
<1>2. ASSUME NEW r \in wire, PolicyRejects(r)
      PROVE  \E S \in SUBSET Msg : Moves(S)
  <2> DEFINE D == Found(r.key, server[r.peer])
  <2>1. /\ D \in SUBSET paperData /\ Take(D) /\ Respond({d.msg : d \in D}, "rejected")
        /\ UNCHANGED <<origin, back, ignored, shadowed>>
    BY <1>2 DEF PolicyRejects, Found
  <2> HIDE DEF D
  <2> QED BY <1>0, <2>1, SettleMoves
<1>3. ASSUME NEW r \in wire, PolicyApproves(r)
      PROVE  \E S \in SUBSET Msg : Moves(S)
  BY <1>0, <1>3, ApproveMoves
<1>4. ASSUME NEW p \in Peer, OnPolicyTimer(p)
      PROVE  \E S \in SUBSET Msg : Moves(S)
  <2> DEFINE D == TimedOut(p)
  <2>1. /\ D \in SUBSET paperData /\ Take(D) /\ Respond({d.msg : d \in D}, "timeout")
        /\ UNCHANGED <<origin, back, ignored, shadowed>>
    BY <1>4 DEF OnPolicyTimer, TimedOut, Found
  <2> HIDE DEF D
  <2> QED BY <1>0, <2>1, SettleMoves
<1>5. ASSUME NEW m \in Msg, BackSettles(m)
      PROVE  \E S \in SUBSET Msg : Moves(S)
  BY <1>0, <1>5, BackMoves
<1>6. CASE \/ \E s \in Session : CursorOverrun(s) \/ SubmitTerminates(s) \/ EsmeStep(s)
           \/ \E r \in wire : PolicyUnparsed(r) \/ PolicyApprovesThrows(r)
           \/ \E p \in Peer : \/ PolicyClose(p) \/ PolicyLinkStep(p)
                              \/ \E n \in Name : PolicyBind(p, n)
           \/ UNCHANGED pathVars
  <2>1. UNCHANGED <<paperData, origin, answers, back, ignored, shadowed>>
    BY <1>6 DEF CursorOverrun, SubmitTerminates, EsmeStep, PolicyUnparsed,
       PolicyApprovesThrows, PolicyClose,
       PolicyLinkStep, PolicyBind, Down, esme, history, pathVars
  <2> QED BY <2>1, NothingMoves
<1> QED BY <1>1, <1>2, <1>3, <1>4, <1>5, <1>6 DEF Next

LEMMA AccountStep == PathInv /\ AccountInv /\ [Next]_pathVars => AccountInv'
BY StepMoves, MovesKeeps

LEMMA AccountCorrect == SafeSpec => []AccountInv
BY AccountInit, AccountStep, PathInvariant, PTL DEF SafeSpec

LEMMA AccountSuffices == PathInv /\ AccountInv => Accounted
<1> SUFFICES ASSUME PathInv, AccountInv, NEW m \in Msg
             PROVE  /\ Len(answers[m]) <= 1
                    /\ m \notin Received =>
                         /\ m \notin UnderPolicy \cup Answered \cup ignored \cup shadowed
                         /\ back[m] = "new"
                    /\ m \in Received =>
                         Cardinality({w \in 1 .. 6 :
                           \/ w = 1 /\ m \in UnderPolicy
                           \/ w = 2 /\ back[m] = "accepted"
                           \/ w = 3 /\ m \in Answered
                           \/ w = 4 /\ m \in ignored
                           \/ w = 5 /\ m \in shadowed
                           \/ w = 6 /\ back[m] = "lost"}) = 1
  BY Zenon DEF Accounted
<1> DEFINE W == {w \in 1 .. 6 : \/ w = 1 /\ m \in UnderPolicy
                                \/ w = 2 /\ back[m] = "accepted"
                                \/ w = 3 /\ m \in Answered
                                \/ w = 4 /\ m \in ignored
                                \/ w = 5 /\ m \in shadowed
                                \/ w = 6 /\ back[m] = "lost"}
<1> HIDE DEF W
<1>1. m \in Answered <=> answers[m] # << >>
  BY DEF Answered
<1>2. \/ Fresh(m) \/ Waiting(m) \/ AtPinex(m)
      \/ LostThere(m) \/ Replied(m) \/ Dropped(m)
  BY DEF AccountInv
<1>3. Len(answers[m]) <= 1
  <2>1. answers[m] = << >> \/ Len(answers[m]) = 1
    BY <1>2 DEF Fresh, Waiting, AtPinex, LostThere, Replied, Dropped, Silent
  <2>2. answers[m] = << >> => Len(answers[m]) = 0
    BY EmptySeq
  <2>3. CASE answers[m] = << >>
    BY <2>2, <2>3
  <2>4. CASE Len(answers[m]) = 1
    BY <2>4
  <2> QED BY <2>1, <2>3, <2>4, Zenon
<1>4. m \notin Received => /\ m \notin UnderPolicy \cup Answered \cup ignored \cup shadowed
                           /\ back[m] = "new"
  BY <1>1, <1>2 DEF Fresh, Waiting, AtPinex, LostThere, Replied, Dropped, Silent
<1>5. ASSUME m \in Received
      PROVE  \E w \in 1 .. 6 : W = {w}
  <2>1. CASE Waiting(m)
    <3>1. W = {1}
      BY <1>1, <2>1 DEF W, Waiting, Silent
    <3> QED BY <3>1
  <2>2. CASE AtPinex(m)
    <3>1. W = {2}
      BY <1>1, <2>2 DEF W, AtPinex, Silent
    <3> QED BY <3>1
  <2>3. CASE Replied(m)
    <3>1. answers[m] # << >>
      BY <2>3 DEF Replied
    <3>2. W = {3}
      BY <1>1, <2>3, <3>1 DEF W, Replied
    <3> QED BY <3>2
  <2>4. CASE Dropped(m)
    <3>1. W = {4} \/ W = {5}
      BY <1>1, <2>4 DEF W, Dropped
    <3> QED BY <3>1
  <2>5. CASE LostThere(m)
    <3>1. W = {6}
      BY <1>1, <2>5 DEF W, LostThere, Silent
    <3> QED BY <3>1
  <2> QED BY <1>2, <1>5, <2>1, <2>2, <2>3, <2>4, <2>5 DEF Fresh
<1>6. m \in Received => Cardinality(W) = 1
  BY <1>5, FS_Singleton
<1> QED BY <1>3, <1>4, <1>6 DEF W

(* Every submit the gateway received is in exactly one place, and is       *)
(* answered at most once, whatever connects, closes, times out or arrives  *)
(* late on the links to the policy servers.                                *)
THEOREM SubmitsAccounted == SafeSpec => []Accounted
BY PathInvariant, AccountCorrect, AccountSuffices, PTL

-----------------------------------------------------------------------------
(* The path is the request/reply service for the ESME: every step accepts  *)
(* submits, answers them, gives them up, or changes nothing an ESME sees.  *)

LEMMA StatusByPlace ==
  \A m \in Msg :
    /\ Fresh(m) => ServiceStatus[m] = "new"
    /\ Waiting(m) \/ AtPinex(m) => ServiceStatus[m] = "accepted"
    /\ LostThere(m) \/ Dropped(m) => ServiceStatus[m] = "lost"
    /\ Replied(m) => ServiceStatus[m] \in {"answered", "lost"}
<1> SUFFICES ASSUME NEW m \in Msg
             PROVE  /\ Fresh(m) => ServiceStatus[m] = "new"
                    /\ Waiting(m) \/ AtPinex(m) => ServiceStatus[m] = "accepted"
                    /\ LostThere(m) \/ Dropped(m) => ServiceStatus[m] = "lost"
                    /\ Replied(m) => ServiceStatus[m] \in {"answered", "lost"}
  OBVIOUS
<1>1. m \in Answered <=> answers[m] # << >>
  BY DEF Answered
<1>2. ServiceStatus[m] = StatusOf(m)
  BY DEF ServiceStatus
<1>3. ASSUME Silent(m)
      PROVE  m \notin Answered /\ ~ (Len(answers[m]) > 1)
  BY <1>1, <1>3 DEF Silent
<1>4. Fresh(m) => StatusOf(m) = "new"
  BY <1>3 DEF StatusOf, Fresh, Silent
<1>5. Waiting(m) \/ AtPinex(m) => StatusOf(m) = "accepted"
  BY <1>3 DEF StatusOf, Waiting, AtPinex, Silent
<1>6. LostThere(m) => StatusOf(m) = "lost"
  BY <1>3 DEF StatusOf, LostThere, Silent
<1>7. Dropped(m) => StatusOf(m) = "lost"
  BY <1>1 DEF StatusOf, Dropped
<1>8. Replied(m) => StatusOf(m) \in {"answered", "lost"}
  BY <1>1 DEF StatusOf, Replied
<1> QED BY <1>2, <1>4, <1>5, <1>6, <1>7, <1>8

LEMMA StatusByPlaceNext ==
  (\A m \in Msg :
    /\ Fresh(m) => ServiceStatus[m] = "new"
    /\ Waiting(m) \/ AtPinex(m) => ServiceStatus[m] = "accepted"
    /\ LostThere(m) \/ Dropped(m) => ServiceStatus[m] = "lost"
    /\ Replied(m) => ServiceStatus[m] \in {"answered", "lost"})'
BY StatusByPlace, PTL

LEMMA SameStatus ==
  ASSUME NEW m \in Msg, Same(m)
  PROVE  ServiceStatus'[m] = ServiceStatus[m]
BY DEF Same, ServiceStatus, StatusOf, Answered, Received

(* A step that answers the submits in A, gives up those in L and changes   *)
(* nothing else for the ESME.                                              *)
LEMMA SettleStatus ==
  ASSUME NEW A \in SUBSET Msg, NEW L \in SUBSET Msg, A \cap L = {},
         \A m \in A \cup L : ServiceStatus[m] \in {"new", "accepted"},
         \A m \in A : ServiceStatus'[m] = "answered",
         \A m \in L : ServiceStatus'[m] = "lost",
         \A m \in Msg \ (A \cup L) : ServiceStatus'[m] = ServiceStatus[m]
  PROVE  [Service!Next]_ServiceStatus
<1>1. /\ ServiceStatus' = [m \in Msg |-> ServiceStatus'[m]]
      /\ ServiceStatus = [m \in Msg |-> ServiceStatus[m]]
  BY DEF ServiceStatus
<1>2. ServiceStatus' = [m \in Msg |-> IF m \in A THEN "answered"
                                     ELSE IF m \in L THEN "lost" ELSE ServiceStatus[m]]
  BY <1>1
<1>3. CASE A = {} /\ L = {}
  BY <1>1, <1>2, <1>3
<1>4. CASE A # {} /\ L = {}
  <2>1. Service!Answer(A)
    BY <1>2, <1>4 DEF Service!Answer, Service!Move
  <2> QED BY <2>1 DEF Service!Next
<1>5. CASE A = {} /\ L # {}
  <2>1. Service!Lose(L)
    BY <1>2, <1>5 DEF Service!Lose, Service!Move
  <2> QED BY <2>1 DEF Service!Next
<1>6. CASE A # {} /\ L # {}
  <2>1. Service!Settle(A, L)
    BY <1>2, <1>6 DEF Service!Settle
  <2> QED BY <2>1 DEF Service!Next
<1> QED BY <1>3, <1>4, <1>5, <1>6

LEMMA ServiceMove ==
  ASSUME NEW S \in SUBSET Msg, Moves(S)
  PROVE  [Service!Next]_ServiceStatus
<1>1. \A m \in Msg \ S : ServiceStatus'[m] = ServiceStatus[m]
  BY SameStatus DEF Moves
<1>2. CASE \A m \in S : (Fresh(m) \/ Waiting(m) \/ AtPinex(m)) /\ Replied(m)'
  <2> DEFINE A == {m \in S : ServiceStatus'[m] = "answered"}
             L == S \ A
  <2>1. \A m \in S : /\ ServiceStatus[m] \in {"new", "accepted"}
                     /\ ServiceStatus'[m] \in {"answered", "lost"}
    BY <1>2, StatusByPlace, StatusByPlaceNext
  <2>2. /\ A \in SUBSET Msg /\ L \in SUBSET Msg /\ A \cap L = {} /\ A \cup L = S
        /\ \A m \in A : ServiceStatus'[m] = "answered"
        /\ \A m \in L : ServiceStatus'[m] = "lost"
    BY <2>1
  <2> HIDE DEF A, L
  <2> QED BY <1>1, <2>1, <2>2, SettleStatus
<1>3. CASE \A m \in S : Fresh(m) /\ (Waiting(m)' \/ AtPinex(m)')
  <2>1. \A m \in S : ServiceStatus[m] = "new" /\ ServiceStatus'[m] = "accepted"
    BY <1>3, StatusByPlace, StatusByPlaceNext
  <2>2. /\ ServiceStatus' = [m \in Msg |-> ServiceStatus'[m]]
        /\ ServiceStatus = [m \in Msg |-> ServiceStatus[m]]
    BY DEF ServiceStatus
  <2>3. ServiceStatus' = [m \in Msg |-> IF m \in S THEN "accepted" ELSE ServiceStatus[m]]
    BY <1>1, <2>1, <2>2
  <2>4. CASE S = {}
    BY <2>2, <2>3, <2>4
  <2>5. CASE S # {}
    <3>1. Service!Accept(S)
      BY <2>1, <2>3, <2>5 DEF Service!Accept, Service!Move
    <3> QED BY <3>1 DEF Service!Next
  <2> QED BY <2>4, <2>5
<1>4. CASE \A m \in S : (Fresh(m) /\ Dropped(m)') \/ (AtPinex(m) /\ LostThere(m)')
  <2> DEFINE A == {}
  <2>1. \A m \in S : /\ ServiceStatus[m] \in {"new", "accepted"}
                     /\ ServiceStatus'[m] = "lost"
    BY <1>4, StatusByPlace, StatusByPlaceNext
  <2>2. A \in SUBSET Msg /\ A \cap S = {} /\ A \cup S = S /\ \A m \in A : FALSE
    OBVIOUS
  <2> HIDE DEF A
  <2> QED BY <1>1, <2>1, <2>2, SettleStatus
<1>5. CASE \A m \in S : Waiting(m) /\ AtPinex(m)'
  <2>1. \A m \in S : ServiceStatus'[m] = ServiceStatus[m]
    BY <1>5, StatusByPlace, StatusByPlaceNext
  <2>2. /\ ServiceStatus' = [m \in Msg |-> ServiceStatus'[m]]
        /\ ServiceStatus = [m \in Msg |-> ServiceStatus[m]]
    BY DEF ServiceStatus
  <2>3. ServiceStatus' = ServiceStatus
    BY <1>1, <2>1, <2>2
  <2> QED BY <2>3
<1> QED BY <1>2, <1>3, <1>4, <1>5 DEF Moves

LEMMA ServiceInit == Init => Service!Init
<1> SUFFICES ASSUME Init
             PROVE  Service!Init
  OBVIOUS
<1>1. \A m \in Msg : Fresh(m)
  BY DEF Init, Back!Init, Fresh, Silent, Received, UnderPolicy
<1>2. ServiceStatus = [m \in Msg |-> ServiceStatus[m]]
  BY DEF ServiceStatus
<1> QED BY <1>1, <1>2, StatusByPlace DEF Service!Init

LEMMA ServiceStep ==
  PathInv /\ AccountInv /\ [Next]_pathVars => [Service!Next]_ServiceStatus
BY StepMoves, ServiceMove

(* The whole way of a submit, through the policy servers and pinex, is the *)
(* request/reply service an ESME expects: taken over once, answered or     *)
(* given up once.                                                          *)
THEOREM PathImplementsService == SafeSpec => SubmitPathService
<1>1. Init => Service!Init
  BY ServiceInit
<1>2. PathInv /\ AccountInv /\ [Next]_pathVars => [Service!Next]_ServiceStatus
  BY ServiceStep
<1> QED
  BY <1>1, <1>2, PathInvariant, AccountCorrect, PTL
     DEF SafeSpec, SubmitPathService, Service!SafeSpec

-----------------------------------------------------------------------------
(* Timeouts.  An expirator has entries only once its p_client has bound,   *)
(* and then the server's name is one found at its address.                 *)

Timed == \A d \in paperData :
           d.msg \in unparsed \/ \E p \in Peer : d.name \in Names[p] /\ d.key \in Keys(p)

TimedInv ==
  /\ \A p \in Peer : tracked[p] # {} => server[p] \in Names[p]
  /\ KeepNames => Timed

LEMMA TimedInit == Init => TimedInv
BY DEF Init, ListInit, TimedInv, Timed

(* An address whose expirator has entries keeps a name of its own.         *)
LEMMA ServerNamedStep ==
  ASSUME ListInv, ListAction, \A p \in Peer : tracked[p] # {} => server[p] \in Names[p],
         NEW p \in Peer, tracked'[p] # {}
  PROVE  server'[p] \in Names[p]
<1>0. ListTypeOK
  BY DEF ListInv
<1>1. CASE UNCHANGED <<server, tracked>>
  BY <1>1
<1>2. ASSUME NEW q \in Peer, NEW n \in Name, ListBind(q, n)
      PROVE  server'[p] \in Names[p]
  BY <1>0, <1>2 DEF ListBind, ListTypeOK
<1>3. ASSUME NEW q \in Peer, NEW m \in Msg, ListSend(q, m)
      PROVE  server'[p] \in Names[p]
  <2>1. /\ UNCHANGED server /\ conn[q] = "open"
        /\ \A k \in Peer \ {q} : tracked'[k] = tracked[k]
    BY <1>0, <1>3 DEF ListSend, Track, ListTypeOK
  <2>2. q \in Bound
    BY <2>1 DEF Bound
  <2> QED BY <2>1, <2>2 DEF ListInv
<1>4. ASSUME NEW q \in Peer, ListTimer(q)
      PROVE  server'[p] \in Names[p]
  <2>1. /\ UNCHANGED server
        /\ \A k \in Peer \ {q} : tracked'[k] = tracked[k]
        /\ tracked[q] = {} => tracked'[q] = {}
    BY <1>0, <1>4 DEF ListTimer, ListTypeOK
  <2> QED BY <2>1
<1>5. ASSUME NEW r \in wire, ListResponse(r)
      PROVE  server'[p] \in Names[p]
  <2>1. UNCHANGED server /\ tracked'[p] \subseteq tracked[p]
    BY <1>0, <1>5 DEF ListResponse, ListTypeOK
  <2> QED BY <2>1
<1> QED BY <1>1, <1>2, <1>3, <1>4, <1>5 DEF ListAction, ListStep, Connect, ConnectFails,
       Retry, BindAccepted, BindFails, PeerUnbind, SessionClose, ListClose, ListSendFails,
       listVars

(* The entry of a p_client that a name of the address p stands for.        *)
LEMMA FoundHere ==
  ASSUME KeepNames, NEW p \in Peer, server[p] \in Names[p],
         NEW d \in paperData, d.name \in Names[p], NEW k, d.key = k
  PROVE  d \in Found(k, server[p])
BY DEF KeepNames, Found

LEMMA TimedTimer ==
  ASSUME PathInv, TimedInv, KeepNames, NEW p \in Peer, OnPolicyTimer(p)
  PROVE  Timed'
<1>0. ListTypeOK /\ ListTimer(p) /\ UNCHANGED unparsed /\ paperData' = paperData \ TimedOut(p)
  BY DEF PathInv, ListInv, OnPolicyTimer, Take
<1>1. SUFFICES ASSUME NEW d \in paperData', d.msg \notin unparsed'
               PROVE  \E q \in Peer : d.name \in Names[q] /\ d.key \in Keys(q)'
  BY DEF Timed
<1>2. PICK q \in Peer : d.name \in Names[q] /\ d.key \in Keys(q)
  BY <1>0, <1>1 DEF TimedInv, Timed
<1>3. CASE q # p
  <2>1. Keys(q)' = Keys(q)
    BY <1>0, <1>3, ListTracks
  <2> QED BY <1>2, <2>1
<1>4. CASE q = p
  <2>1. PICK e \in tracked[p] : e.key = d.key
    BY <1>2, <1>4 DEF Keys
  <2>2. server[p] \in Names[p]
    BY <2>1 DEF TimedInv
  <2>3. d \in Found(e.key, server[p])
    BY <1>0, <1>1, <1>2, <1>4, <2>1, <2>2, FoundHere
  <2>4. e \notin Due(p)
    BY <1>0, <1>1, <2>3 DEF TimedOut
  <2>5. e.key \in Keys(p)'
    BY <1>0, <2>1, <2>4, ListTracks
  <2> QED BY <1>2, <1>4, <2>1, <2>5
<1> QED BY <1>3, <1>4

(* A verdict takes the submit it finds out, or marks it.                   *)
LEMMA TimedVerdict ==
  ASSUME PathInv, TimedInv, KeepNames, NEW r \in wire, ListResponse(r),
         unparsed \subseteq unparsed', paperData' \subseteq paperData,
         \A d \in Found(r.key, server[r.peer]) : d \in paperData' => d.msg \in unparsed'
  PROVE  Timed'
<1>0. ListTypeOK /\ r.peer \in Peer /\ conn[r.peer] = "open"
  BY DEF PathInv, ListInv, ListTypeOK, ListResponse
<1>1. SUFFICES ASSUME NEW d \in paperData', d.msg \notin unparsed'
               PROVE  \E q \in Peer : d.name \in Names[q] /\ d.key \in Keys(q)'
  BY DEF Timed
<1>2. PICK q \in Peer : d.name \in Names[q] /\ d.key \in Keys(q)
  BY <1>1 DEF TimedInv, Timed
<1>3. CASE q # r.peer
  <2>1. Keys(q)' = Keys(q)
    BY <1>0, <1>3, ListTracks
  <2> QED BY <1>2, <2>1
<1>4. CASE q = r.peer
  <2>1. server[q] \in Names[q]
    BY <1>0, <1>4 DEF PathInv, ListInv, Bound
  <2>2. d.key # r.key
    BY <1>1, <1>2, <1>4, <2>1, FoundHere
  <2>3. d.key \in Keys(q)'
    BY <1>0, <1>2, <1>4, <2>2, ListTracks
  <2> QED BY <1>2, <2>3
<1> QED BY <1>3, <1>4

(* A submit joins user_data_ together with its entry in the expirator.     *)
LEMMA TimedAsk ==
  ASSUME PathInv, TimedInv, KeepNames, NEW m \in Msg, NEW n \in Name, AskServer(m, n),
         UNCHANGED unparsed
  PROVE  Timed'
<1>0. ListTypeOK /\ ListInv
  BY DEF PathInv, ListInv
<1> PICK p \in Peer : p = clients[n]
  BY <1>0, NamedClient DEF AskServer, At
<1>1. server[p] = n /\ p \in Bound /\ ListSend(p, m)
  BY <1>0, NamedClient DEF AskServer, At
<1>2. n \in Names[p]
  BY <1>0, <1>1 DEF ListInv
<1>3. \A d \in paperData' : d \in paperData \/ (d.key = NextSeq(p) /\ d.name = n)
  BY DEF AskServer, Remember
<1>4. /\ \A q \in Peer : Keys(q) \subseteq Keys(q)'
      /\ NextSeq(p) \in Keys(p)'
  BY <1>0, <1>1, ListTracks
<1>5. ASSUME NEW d \in paperData', d.msg \notin unparsed'
      PROVE  \E q \in Peer : d.name \in Names[q] /\ d.key \in Keys(q)'
  <2>1. CASE d \in paperData
    <3>1. PICK q \in Peer : d.name \in Names[q] /\ d.key \in Keys(q)
      BY <1>5, <2>1 DEF TimedInv, Timed
    <3> QED BY <1>4, <3>1
  <2>2. CASE d.key = NextSeq(p) /\ d.name = n
    <3> DEFINE k == NextSeq(p)
    <3>1. d.key = k /\ d.name = n /\ k \in Keys(p)'
      BY <1>4, <2>2
    <3> HIDE DEF k
    <3> QED BY <1>1, <1>2, <3>1
  <2> QED BY <1>3, <2>1, <2>2
<1> QED BY <1>5 DEF Timed

LEMMA TimedStep == PathInv /\ TimedInv /\ [Next]_pathVars => TimedInv'
<1> SUFFICES ASSUME PathInv, TimedInv, [Next]_pathVars
             PROVE  TimedInv'
  OBVIOUS
<1>1. ListInv /\ ListAction
  BY PathListAction DEF PathInv
<1>2. \A p \in Peer : tracked'[p] # {} => server'[p] \in Names[p]
  BY <1>1, ServerNamedStep DEF TimedInv
<1>3. SUFFICES ASSUME KeepNames
               PROVE  Timed'
  BY <1>2 DEF TimedInv, KeepNames
<1>4. CASE UNCHANGED <<paperData, tracked, unparsed>>
  BY <1>3, <1>4 DEF TimedInv, Timed, Keys
<1>5. ASSUME NEW m \in Msg, NEW s \in Session, ReceiveSubmit(m, s)
      PROVE  Timed'
  <2>1. ASSUME NEW n \in Name, AskServer(m, n), UNCHANGED unparsed
        PROVE  Timed'
    BY <1>3, <2>1, TimedAsk
  <2> QED BY <1>4, <1>5, <2>1
       DEF ReceiveSubmit, CheckPolicies, AskFails, ListSendFails, listVars
<1>6. ASSUME NEW r \in wire, PolicyUnparsed(r)
      PROVE  Timed'
  <2>1. /\ ListResponse(r) /\ UNCHANGED paperData
        /\ unparsed' = unparsed \cup {d.msg : d \in Found(r.key, server[r.peer])}
    BY <1>6 DEF PolicyUnparsed
  <2> QED BY <1>3, <2>1, TimedVerdict
<1>7. ASSUME NEW r \in wire, PolicyRejects(r)
      PROVE  Timed'
  <2>1. /\ ListResponse(r) /\ UNCHANGED unparsed
        /\ paperData' = paperData \ Found(r.key, server[r.peer])
    BY <1>7 DEF PolicyRejects, Take
  <2> QED BY <1>3, <2>1, TimedVerdict
<1>8. ASSUME NEW r \in wire, PolicyApproves(r)
      PROVE  Timed'
  <2>1. /\ ListResponse(r) /\ UNCHANGED unparsed
        /\ \E d \in Found(r.key, server[r.peer]) : paperData' = paperData \ {d}
    BY <1>8 DEF PolicyApproves, Take
  <2>2. \A d, e \in Found(r.key, server[r.peer]) : d = e
    BY DEF Found, PathInv, PathShape
  <2>3. paperData' = paperData \ Found(r.key, server[r.peer])
    BY <2>1, <2>2
  <2> QED BY <1>3, <2>1, <2>3, TimedVerdict
<1>9. ASSUME NEW p \in Peer, OnPolicyTimer(p)
      PROVE  Timed'
  BY <1>3, <1>9, TimedTimer
<1>10. CASE \/ \E s \in Session : CursorOverrun(s) \/ SubmitTerminates(s) \/ EsmeStep(s)
            \/ \E r \in wire : PolicyApprovesThrows(r)
            \/ \E p \in Peer : \/ PolicyClose(p) \/ PolicyLinkStep(p)
                               \/ \E n \in Name : PolicyBind(p, n)
            \/ \E m \in Msg : BackSettles(m)
            \/ UNCHANGED pathVars
  <2>1. UNCHANGED <<paperData, unparsed>>
    BY <1>10 DEF CursorOverrun, SubmitTerminates, EsmeStep, PolicyApprovesThrows,
       PolicyClose,
       PolicyLinkStep, PolicyBind, BackSettles, Down, history, pathVars
  <2>2. UNCHANGED tracked
    BY <1>10 DEF CursorOverrun, SubmitTerminates, EsmeStep, PolicyApprovesThrows,
       PolicyClose, ListClose,
       PolicyLinkStep, ListStep, Connect, ConnectFails, Retry, BindAccepted, BindFails,
       PeerUnbind, SessionClose, PolicyBind, ListBind, BackSettles, Down, listVars, pathVars
  <2> QED BY <1>4, <2>1, <2>2
<1> QED BY <1>5, <1>6, <1>7, <1>8, <1>9, <1>10 DEF Next

(* As long as the policy servers keep their names, what waits for a        *)
(* verdict has an entry in an expirator that will time it out, whatever    *)
(* connection it was sent on; the exception is the verdict that came and   *)
(* could not be parsed.                                                    *)
THEOREM WaitingHasTimeout == SafeSpec => []PolicyTimed
<1>1. TimedInv => PolicyTimed
  BY DEF TimedInv, Timed, PolicyTimed
<1> QED BY <1>1, TimedInit, TimedStep, PathInvariant, PTL DEF SafeSpec

-----------------------------------------------------------------------------
(* The verdicts.  A submit that has been answered is not touched again, so *)
(* what the ESME was told is settled in the step that tells it.            *)

Told == {"throttled", "rejected", "timeout"}

(* The first submit_sm_resp of a submit has the status it was sent with.   *)
LEMMA RespondStatus ==
  ASSUME answers \in [Msg -> Seq(Answer)], NEW S,
         NEW status \in {"throttled", "syserr", "rejected", "timeout", "backend"},
         Respond(S, status), NEW m \in Msg, answers[m] = << >>
  PROVE  IF m \in S THEN answers'[m][1].status = status ELSE answers'[m] = << >>
<1> DEFINE a(q) == [status |-> status, delivered |-> sess[origin'[q]] = "open"]
           x == a(m)
<1>1. answers' = [q \in Msg |-> IF q \in S THEN Append(answers[q], a(q)) ELSE answers[q]]
  BY DEF Respond
<1>2. x \in Answer /\ x.status = status
  BY DEF Answer
<1> HIDE DEF a
<1>3. m \in S => answers'[m] = Append(<< >>, x)
  BY <1>1
<1>4. m \notin S => answers'[m] = << >>
  BY <1>1
<1> HIDE DEF x
<1>5. Append(<< >>, x)[1] = x
  BY <1>2, EmptySeq, AppendProperties
<1> QED BY <1>2, <1>3, <1>4, <1>5

(* A submit that gets its submit_sm_resp in this step, with one of those   *)
(* statuses, was not sent on and is not now.                               *)
Tells(m) == answers'[m] # << >> /\ answers'[m][1].status \in Told
              => back[m] = "new" /\ back'[m] = "new"

(* Forward tells nothing but a system error.                               *)
LEMMA ForwardTells ==
  ASSUME PathShape, NEW m \in Msg, Forward(m),
         NEW q \in Msg, answers[q] = << >>
  PROVE  Tells(q)
<1>1. CASE UNCHANGED answers
  BY <1>1 DEF Tells
<1>2. CASE Respond({m}, "syserr")
  <2>1. IF q \in {m} THEN answers'[q][1].status = "syserr" ELSE answers'[q] = << >>
    BY <1>2, RespondStatus DEF PathShape
  <2> QED BY <2>1 DEF Tells, Told
<1> QED BY <1>1, <1>2 DEF Forward

LEMMA StepTells ==
  ASSUME PathInv, AccountInv, [Next]_pathVars, NEW q \in Msg, answers[q] = << >>
  PROVE  Tells(q)
<1>0. PathShape /\ answers \in [Msg -> Seq(Answer)]
  BY DEF PathInv, PathShape
<1>1. ASSUME NEW S, NEW status \in {"throttled", "syserr", "rejected", "timeout", "backend"},
             Respond(S, status), q \in S => back[q] = "new", UNCHANGED back
      PROVE  Tells(q)
  <2>1. IF q \in S THEN answers'[q][1].status = status ELSE answers'[q] = << >>
    BY <1>0, <1>1, RespondStatus
  <2> QED BY <1>1, <2>1 DEF Tells
<1>2. CASE UNCHANGED answers
  BY <1>2 DEF Tells
<1>3. ASSUME NEW D \in SUBSET paperData, NEW d \in D, q = d.msg
      PROVE  back[q] = "new"
  <2>1. q \in UnderPolicy
    BY <1>3 DEF UnderPolicy
  <2> QED BY <2>1 DEF AccountInv, Fresh, Waiting, AtPinex, LostThere, Replied, Dropped
<1>4. ASSUME NEW m \in Msg, NEW s \in Session, ReceiveSubmit(m, s)
      PROVE  Tells(q)
  <2>1. q \in {m} => back[q] = "new"
    BY <1>4 DEF ReceiveSubmit, AccountInv, Fresh, Waiting, AtPinex, LostThere, Replied,
       Dropped, Received
  <2>2. ASSUME NEW status \in {"throttled", "syserr"}, Respond({m}, status), UNCHANGED back
        PROVE  Tells(q)
    BY <1>1, <2>1, <2>2
  <2>3. CASE Forward(m)
    BY <1>0, <2>3, ForwardTells
  <2>4. CASE CheckPolicies(m)
    BY <1>2, <2>2, <2>4 DEF CheckPolicies, AskServer, AskFails
  <2> QED BY <1>2, <1>4, <2>2, <2>3, <2>4 DEF ReceiveSubmit
<1>5. ASSUME NEW r \in wire, PolicyRejects(r)
      PROVE  Tells(q)
  <2> DEFINE D == Found(r.key, server[r.peer])
             S == {d.msg : d \in D}
  <2>1. D \in SUBSET paperData /\ Respond(S, "rejected") /\ UNCHANGED back
    BY <1>5 DEF PolicyRejects, Found
  <2> HIDE DEF D
  <2>2. q \in S => back[q] = "new"
    BY <1>3, <2>1
  <2> HIDE DEF S
  <2> QED BY <1>1, <2>1, <2>2
<1>6. ASSUME NEW p \in Peer, OnPolicyTimer(p)
      PROVE  Tells(q)
  <2> DEFINE D == TimedOut(p)
             S == {d.msg : d \in D}
  <2>1. D \in SUBSET paperData /\ Respond(S, "timeout") /\ UNCHANGED back
    BY <1>6 DEF OnPolicyTimer, TimedOut, Found
  <2> HIDE DEF D
  <2>2. q \in S => back[q] = "new"
    BY <1>3, <2>1
  <2> HIDE DEF S
  <2> QED BY <1>1, <2>1, <2>2
<1>7. ASSUME NEW r \in wire, PolicyApproves(r)
      PROVE  Tells(q)
  <2>1. \E m \in Msg : Forward(m)
    BY <1>0, <1>7 DEF PolicyApproves, Found, PathShape
  <2> QED BY <1>0, <2>1, ForwardTells
<1>8. ASSUME NEW m \in Msg, BackSettles(m)
      PROVE  Tells(q)
  <2>1. CASE Respond({m}, "backend")
    <3>1. IF q \in {m} THEN answers'[q][1].status = "backend" ELSE answers'[q] = << >>
      BY <1>0, <2>1, RespondStatus
    <3> QED BY <3>1 DEF Tells, Told
  <2> QED BY <1>2, <1>8, <2>1 DEF BackSettles
<1>9. CASE \/ \E s \in Session : CursorOverrun(s) \/ SubmitTerminates(s) \/ EsmeStep(s)
           \/ \E r \in wire : PolicyUnparsed(r) \/ PolicyApprovesThrows(r)
           \/ \E p \in Peer : \/ PolicyClose(p) \/ PolicyLinkStep(p)
                              \/ \E n \in Name : PolicyBind(p, n)
           \/ UNCHANGED pathVars
  <2>1. UNCHANGED answers
    BY <1>9 DEF CursorOverrun, SubmitTerminates, EsmeStep, PolicyUnparsed,
       PolicyApprovesThrows, PolicyClose,
       PolicyLinkStep, PolicyBind, Down, history, pathVars
  <2> QED BY <1>2, <2>1
<1> QED BY <1>4, <1>5, <1>6, <1>7, <1>8, <1>9 DEF Next

LEMMA ToldStep == PathInv /\ AccountInv /\ ToldNotSent /\ [Next]_pathVars => ToldNotSent'
<1> SUFFICES ASSUME PathInv, AccountInv, ToldNotSent, [Next]_pathVars,
                    NEW m \in Msg, answers'[m] # << >>, answers'[m][1].status \in Told
             PROVE  back'[m] = "new"
  BY DEF ToldNotSent, Answered, Told
<1>1. CASE answers[m] = << >>
  BY <1>1, StepTells DEF Tells
<1>2. CASE answers[m] # << >>
  <2> PICK S \in SUBSET Msg : Moves(S)
    BY StepMoves
  <2>1. m \notin S
    BY <1>2 DEF Moves, Fresh, Waiting, AtPinex, Silent
  <2>2. answers'[m] = answers[m] /\ back'[m] = back[m]
    BY <2>1 DEF Moves, Same
  <2> QED BY <1>2, <2>2 DEF ToldNotSent, Answered, Told
<1> QED BY <1>1, <1>2

(* A submit that the ESME was told was throttled, rejected or timed out is *)
(* never sent on, also when an approval comes after the timeout, or when   *)
(* the numbers of a connection wrap.                                       *)
THEOREM ToldIsNotSent == SafeSpec => []ToldNotSent
<1>1. Init => ToldNotSent
  BY DEF Init, ToldNotSent, Answered
<1> QED BY <1>1, ToldStep, PathInvariant, AccountCorrect, PTL DEF SafeSpec

-----------------------------------------------------------------------------
(* The verdict a submit is sent on by.  As in the library's other client,  *)
(* what a response on its way would find in user_data_ is the entry of its *)
(* own request, unless that request found its key taken.                   *)

\* What a policy server may answer was sent on the session it has now.
WireInv == \A r \in wire :
  /\ conn[r.peer] \in {"open", "unbinding"}
  /\ r.key <= seq[r.peer]

FindsOwn == \A r \in wire : \A d \in paperData :
  d.key = r.key /\ d.name = server[r.peer] => d.msg = r.msg \/ r.msg \in shadowed

VerdictInv == OwnNames => WireInv /\ FindsOwn

NoWrap == \A p \in Peer : seq[p] # 0 => seq'[p] # 0

(* A bound session's name is that of no other one.                         *)
LEMMA OwnServer ==
  ASSUME ListInv, OwnNames, NEW p \in Bound, NEW q \in Bound, server[p] = server[q]
  PROVE  p = q
BY DEF ListInv, OwnNames, Bound

(* A step that sends nothing and remembers nothing.                        *)
LEMMA NothingSent ==
  ASSUME ListTypeOK, WireInv, FindsOwn, wire' \subseteq wire, paperData' \subseteq paperData,
         shadowed \subseteq shadowed',
         \A r \in wire' : /\ server'[r.peer] = server[r.peer]
                          /\ conn'[r.peer] \in {"open", "unbinding"}
                          /\ seq'[r.peer] = seq[r.peer]
  PROVE  WireInv' /\ FindsOwn'
<1>1. WireInv'
  BY DEF WireInv
<1>2. FindsOwn'
  BY DEF FindsOwn
<1> QED BY <1>1, <1>2

(* check_policies: the new number is above all that were sent on this      *)
(* session, so no response on its way has it.                              *)
LEMMA AskVerdict ==
  ASSUME PathInv, OwnNames, WireInv, FindsOwn, NoWrap, NEW m \in Msg, NEW n \in Name,
         AskServer(m, n)
  PROVE  WireInv' /\ FindsOwn'
<1>1. ListInv /\ ListTypeOK
  BY DEF PathInv, ListInv
<1> PICK p \in Peer : p = clients[n]
  BY <1>1, NamedClient DEF AskServer, At
<1> DEFINE k == NextSeq(p)
           x == [peer |-> p, key |-> k, msg |-> m]
           u == [key |-> k, name |-> n, msg |-> m]
<1>2. p \in Bound /\ server[p] = n /\ ListSend(p, m)
  BY <1>1, NamedClient DEF AskServer, At
<1>3. /\ UNCHANGED <<conn, server>> /\ conn[p] = "open"
      /\ seq' = [seq EXCEPT ![p] = k]
      /\ wire' = wire \cup {x}
  BY <1>2 DEF ListSend
<1>4. /\ k = seq[p] + 1 /\ k \in Int /\ seq[p] \in Int /\ Usable(k)
      /\ \A r \in wire : r.key \in Int
  BY <1>1, <1>3, ListAssumption DEF NextSeq, NoWrap, ListTypeOK, Usable
<1>5. x.peer = p /\ x.key = k /\ x.msg = m /\ u.key = k /\ u.name = n /\ u.msg = m
  OBVIOUS
<1>6. Remember(k, n, m)
  BY <1>4 DEF AskServer
<1>7. \/ Found(k, n) = {} /\ paperData' = paperData \cup {u} /\ UNCHANGED shadowed
      \/ Found(k, n) # {} /\ shadowed' = shadowed \cup {m} /\ UNCHANGED paperData
  BY <1>6 DEF Remember, Found
<1> HIDE DEF k, x, u
<1>8. WireInv'
  <2>1. \A r \in wire : r.peer \in Peer /\ seq'[r.peer] >= seq[r.peer]
                       /\ seq'[r.peer] \in Int /\ seq[r.peer] \in Int
    BY <1>1, <1>3, <1>4 DEF ListTypeOK
  <2>2. seq'[p] = k
    BY <1>1, <1>3 DEF ListTypeOK
  <2>3. \A r \in wire : r.key <= seq'[r.peer]
    BY <1>4, <2>1 DEF WireInv
  <2> QED BY <1>3, <1>4, <1>5, <2>2, <2>3 DEF WireInv
<1>9. ASSUME NEW r \in wire, r.key = k, server[r.peer] = n
      PROVE  FALSE
  <2>1. r.peer \in Bound
    BY <1>1 DEF WireInv, Bound, ListTypeOK
  <2>2. r.peer = p
    BY <1>1, <1>2, <1>9, <2>1, OwnServer
  <2> QED BY <1>4, <1>9, <2>2 DEF WireInv
<1>10. ASSUME NEW r \in wire', NEW v \in paperData', v.key = r.key, v.name = server[r.peer]
       PROVE  v.msg = r.msg \/ r.msg \in shadowed'
  <2>1. CASE r \in wire /\ v \in paperData
    BY <1>7, <1>10, <2>1 DEF FindsOwn
  <2>2. CASE r \in wire /\ v = u
    BY <1>5, <1>9, <1>10, <2>2
  <2>3. CASE r = x /\ v = u
    BY <1>5, <2>3
  <2>4. CASE r = x /\ v \in paperData
    <3>1. v \in Found(k, n)
      BY <1>2, <1>5, <1>10, <2>4 DEF Found
    <3> QED BY <1>5, <1>7, <2>4, <3>1
  <2> QED BY <1>3, <1>7, <1>10, <2>1, <2>2, <2>3, <2>4
<1>11. FindsOwn'
  BY <1>3, <1>10 DEF FindsOwn
<1> QED BY <1>8, <1>11

(* A session that throws has counted its number on.                        *)
LEMMA AskFailsVerdict ==
  ASSUME PathInv, WireInv, FindsOwn, NoWrap, NEW m \in Msg, AskFails(m)
  PROVE  WireInv' /\ FindsOwn'
<1>0. ListInv /\ ListTypeOK
  BY DEF PathInv, ListInv
<1>1. UNCHANGED <<paperData, shadowed>>
  BY DEF AskFails
<1>2. CASE UNCHANGED listVars
  BY <1>1, <1>2 DEF listVars, WireInv, FindsOwn
<1>3. ASSUME NEW n \in Name, At(n), ListSendFails(clients[n])
      PROVE  WireInv' /\ FindsOwn'
  <2> PICK p \in Peer : p = clients[n]
    BY <1>0, <1>3, NamedClient DEF At
  <2>1. UNCHANGED <<conn, server, wire>> /\ seq' = [seq EXCEPT ![p] = NextSeq(p)]
    BY <1>3 DEF ListSendFails
  <2>2. NextSeq(p) >= seq[p]
    BY <1>0, <2>1, ListAssumption DEF NextSeq, NoWrap, ListTypeOK
  <2>3. \A r \in wire : seq'[r.peer] >= seq[r.peer] /\ r.key \in Int
    BY <1>0, <2>1, <2>2 DEF ListTypeOK
  <2>4. WireInv'
    BY <1>0, <2>1, <2>2, <2>3, NextSeqType DEF WireInv, ListTypeOK
  <2> QED BY <1>1, <2>1, <2>4 DEF FindsOwn
<1> QED BY <1>2, <1>3 DEF AskFails

LEMMA VerdictStep ==
  ASSUME PathInv, VerdictInv, [Next]_pathVars, [NoWrap]_seq
  PROVE  VerdictInv'
<1> SUFFICES ASSUME OwnNames
             PROVE  WireInv' /\ FindsOwn'
  BY DEF VerdictInv, OwnNames
<1>1. ListInv /\ ListTypeOK /\ WireInv /\ FindsOwn
  BY DEF PathInv, ListInv, VerdictInv
<1>2. NoWrap
  BY DEF NoWrap
<1>3. CASE UNCHANGED <<wire, paperData, shadowed, server, conn, seq>>
  BY <1>1, <1>3 DEF WireInv, FindsOwn
<1>4. ASSUME NEW m \in Msg, NEW s \in Session, ReceiveSubmit(m, s)
      PROVE  WireInv' /\ FindsOwn'
  <2>1. CASE CheckPolicies(m)
    BY <1>1, <1>2, <2>1, AskVerdict, AskFailsVerdict DEF CheckPolicies
  <2> QED BY <1>3, <1>4, <2>1 DEF ReceiveSubmit, listVars
<1>5. ASSUME NEW r \in wire, PolicyUnparsed(r) \/ PolicyRejects(r) \/ PolicyApproves(r)
      PROVE  WireInv' /\ FindsOwn'
  <2>1. /\ wire' \subseteq wire /\ paperData' \subseteq paperData
        /\ UNCHANGED <<shadowed, server, conn, seq>>
    BY <1>5 DEF PolicyUnparsed, PolicyRejects, PolicyApproves, ListResponse, Take
  <2> QED BY <1>1, <2>1 DEF WireInv, FindsOwn
<1>6. ASSUME NEW p \in Peer, OnPolicyTimer(p)
      PROVE  WireInv' /\ FindsOwn'
  <2>1. /\ paperData' \subseteq paperData
        /\ UNCHANGED <<wire, shadowed, server, conn, seq>>
    BY <1>6 DEF OnPolicyTimer, ListTimer, Take
  <2> QED BY <1>1, <2>1 DEF WireInv, FindsOwn
<1>7. ASSUME NEW p \in Peer, PolicyLinkStep(p)
      PROVE  WireInv' /\ FindsOwn'
  <2>1. /\ UNCHANGED <<paperData, shadowed, server>> /\ wire' \subseteq wire
        /\ \A r \in wire' : /\ conn'[r.peer] \in {"open", "unbinding"}
                            /\ seq'[r.peer] = seq[r.peer]
    BY <1>1, <1>7 DEF PolicyLinkStep, ListStep, Connect, ConnectFails, Retry,
       BindAccepted,
       BindFails, PeerUnbind, SessionClose, history, WireInv, ListTypeOK
  <2> QED BY <1>1, <2>1, NothingSent
<1>8. ASSUME NEW p \in Peer, PolicyClose(p) \/ \E n \in Name : PolicyBind(p, n)
      PROVE  WireInv' /\ FindsOwn'
  <2>1. /\ UNCHANGED <<paperData, shadowed, seq, wire>>
        /\ conn[p] \notin {"open", "unbinding"}
        /\ \A q \in Peer \ {p} : conn'[q] = conn[q] /\ server'[q] = server[q]
    BY <1>1, <1>8 DEF PolicyBind, PolicyClose, ListBind, ListClose, history, ListTypeOK
  <2>2. \A r \in wire : r.peer \in Peer \ {p}
    BY <1>1, <2>1 DEF WireInv, ListTypeOK
  <2>3. \A r \in wire' : /\ server'[r.peer] = server[r.peer]
                         /\ conn'[r.peer] \in {"open", "unbinding"}
                         /\ seq'[r.peer] = seq[r.peer]
    BY <1>1, <2>1, <2>2 DEF WireInv
  <2> QED BY <1>1, <2>1, <2>3, NothingSent
<1>9. CASE \/ \E s \in Session : CursorOverrun(s) \/ SubmitTerminates(s) \/ EsmeStep(s)
           \/ \E r \in wire : PolicyApprovesThrows(r)
           \/ \E m \in Msg : BackSettles(m)
           \/ UNCHANGED pathVars
  BY <1>3, <1>9 DEF CursorOverrun, SubmitTerminates, EsmeStep, PolicyApprovesThrows,
     BackSettles, Down, pathVars,
     listVars, history
<1> QED BY <1>4, <1>5, <1>6, <1>7, <1>8, <1>9 DEF Next

(* Only an approval sends on a submit of a client with policies.           *)
LEMMA SentStep ==
  ASSUME PathInv, AccountInv, VerdictInv, SentOnVerdict, [Next]_pathVars
  PROVE  SentOnVerdict'
<1> SUFFICES ASSUME OwnNames, NEW m \in Msg, origin'[m] \in Checked, back'[m] # "new"
             PROVE  approval'[m] = m \/ approval'[m] \in shadowed'
  BY PathAssumption DEF SentOnVerdict, Received, OwnNames
<1>0. PathShape /\ ListTypeOK /\ FindsOwn /\ Back!TypeOK
  BY DEF PathInv, PathShape, ListInv, VerdictInv
<1>1. ASSUME origin'[m] = origin[m], back'[m] = back[m] \/ back[m] # "new",
             approval'[m] = approval[m], shadowed \subseteq shadowed'
      PROVE  approval'[m] = m \/ approval'[m] \in shadowed'
  <2>1. m \in Received
    BY <1>1, PathAssumption DEF Received
  <2> QED BY <1>1, <2>1 DEF SentOnVerdict
<1>2. ASSUME NEW q \in Msg, Forward(q), m # q
      PROVE  back'[m] = back[m]
  BY <1>0, <1>2 DEF Forward, Back!Accept, Back!Answer, Back!Move, Back!TypeOK
<1>3. ASSUME NEW q \in Msg, NEW s \in Session, ReceiveSubmit(q, s)
      PROVE  approval'[m] = m \/ approval'[m] \in shadowed'
  <2>1. /\ shadowed \subseteq shadowed' /\ UNCHANGED approval
        /\ origin' = [origin EXCEPT ![q] = s]
    BY <1>3 DEF ReceiveSubmit, CheckPolicies, AskServer, AskFails, Remember
  <2>2. back[q] = "new"
    BY <1>3 DEF ReceiveSubmit, AccountInv, Fresh, Waiting, AtPinex, LostThere, Replied,
       Dropped, Received
  <2>3. CASE UNCHANGED back
    <3>1. m # q
      BY <2>2, <2>3
    <3> QED BY <1>0, <1>1, <2>1, <2>3, <3>1 DEF PathShape
  <2>4. CASE s \notin Checked /\ Forward(q)
    <3>1. m # q
      BY <1>0, <2>1, <2>4 DEF PathShape
    <3> QED BY <1>0, <1>1, <1>2, <2>1, <2>4, <3>1 DEF PathShape
  <2> QED BY <1>3, <2>3, <2>4 DEF ReceiveSubmit, CheckPolicies
<1>4. ASSUME NEW r \in wire, PolicyApproves(r)
      PROVE  approval'[m] = m \/ approval'[m] \in shadowed'
  <2>1. UNCHANGED <<origin, shadowed>>
    BY <1>4 DEF PolicyApproves
  <2> PICK d \in Found(r.key, server[r.peer]) :
        Forward(d.msg) /\ approval' = [approval EXCEPT ![d.msg] = r.msg]
    BY <1>4 DEF PolicyApproves
  <2>2. d.msg \in Msg /\ (d.msg = r.msg \/ r.msg \in shadowed)
    BY <1>0 DEF Found, FindsOwn, PathShape
  <2>3. CASE m = d.msg
    BY <1>0, <2>1, <2>2, <2>3 DEF PathShape
  <2>4. CASE m # d.msg
    BY <1>0, <1>1, <1>2, <2>1, <2>2, <2>4 DEF PathShape
  <2> QED BY <2>3, <2>4
<1>5. ASSUME NEW q \in Msg, BackSettles(q)
      PROVE  approval'[m] = m \/ approval'[m] \in shadowed'
  <2>1. back'[m] = back[m] \/ back[m] # "new"
    BY <1>0, <1>5 DEF BackSettles, Back!Answer, Back!Lose, Back!Move, Back!TypeOK
  <2> QED BY <1>1, <1>5, <2>1 DEF BackSettles
<1>6. CASE UNCHANGED <<origin, back, approval, shadowed>>
  BY <1>1, <1>6
<1>7. CASE \/ \E s \in Session : CursorOverrun(s) \/ SubmitTerminates(s) \/ EsmeStep(s)
           \/ \E r \in wire : PolicyUnparsed(r) \/ PolicyRejects(r) \/ PolicyApprovesThrows(r)
           \/ \E p \in Peer : \/ OnPolicyTimer(p) \/ PolicyClose(p) \/ PolicyLinkStep(p)
                              \/ \E n \in Name : PolicyBind(p, n)
           \/ UNCHANGED pathVars
  BY <1>6, <1>7 DEF CursorOverrun, SubmitTerminates, EsmeStep, PolicyUnparsed,
     PolicyRejects,
     PolicyApprovesThrows, OnPolicyTimer, PolicyClose, PolicyLinkStep, PolicyBind, Down, esme,
     history, pathVars
<1> QED BY <1>3, <1>4, <1>5, <1>7 DEF Next

(* paper_client's verdicts are kept to: while no policy servers share a    *)
(* name and no session's numbers wrap, a submit of a client with policies  *)
(* reaches pinex on its own verdict, or on that of a submit that found its *)
(* key taken; and what was refused was not sent on.                        *)
THEOREM VerdictsRespected == SafeSpec /\ NumbersKept => []VerdictRespected
<1>1. Init => VerdictInv /\ SentOnVerdict
  <2>1. Init => VerdictInv
    BY DEF Init, ListInit, VerdictInv, WireInv, FindsOwn
  <2>2. Init => SentOnVerdict
    BY DEF Init, Back!Init, SentOnVerdict, Received
  <2> QED BY <2>1, <2>2
<1>2. SentOnVerdict /\ ToldNotSent => VerdictRespected
  BY DEF VerdictRespected
<1>3. NumbersKept <=> [][NoWrap]_seq
  BY PTL DEF NumbersKept, NoWrap
<1> QED
  BY <1>1, <1>2, <1>3, PathInvariant, AccountCorrect, ToldIsNotSent, VerdictStep, SentStep, PTL
     DEF SafeSpec

=============================================================================
