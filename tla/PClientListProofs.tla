-------------------------- MODULE PClientListProofs --------------------------
(***************************************************************************)
(* The types of a p_client_list: every handler of the library keeps them,  *)
(* for every number of addresses and every configuration.                  *)
(***************************************************************************)
EXTENDS PClientList, TLAPS

USE DEF Keys

(* session::next_sequence_number yields a uint32_t.                        *)
LEMMA NextSeqType ==
  ASSUME ListTypeOK, NEW p \in Peer
  PROVE  NextSeq(p) \in 0 .. MaxSequence
BY ListAssumption DEF NextSeq, ListTypeOK

(* The constructors.                                                       *)
LEMMA ListInitType == ListInit => ListTypeOK
BY ListAssumption DEF ListInit, ListTypeOK, ConnState, ListEntry

(* expirator::add keeps the keys unique.                                   *)
LEMMA TrackType ==
  ASSUME ListTypeOK, NEW p \in Peer, NEW m \in Msg, Track(p, m)
  PROVE  /\ tracked' \in [Peer -> SUBSET ListEntry]
         /\ \A q \in Peer : \A e, f \in tracked'[q] : e.key = f.key => e = f
<1> DEFINE n == [key |-> NextSeq(p), msg |-> m, left |-> Timeout]
<1>1. n \in ListEntry /\ n.key = NextSeq(p)
  BY NextSeqType, ListAssumption DEF ListEntry
<1>2. tracked' = [tracked EXCEPT ![p] = IF NextSeq(p) \in Keys(p) THEN @ ELSE @ \cup {n}]
  BY DEF Track
<1> HIDE DEF n
<1>3. CASE NextSeq(p) \in Keys(p)
  BY <1>2, <1>3 DEF ListTypeOK
<1>4. CASE NextSeq(p) \notin Keys(p)
  BY <1>1, <1>2, <1>4 DEF ListTypeOK
<1> QED BY <1>3, <1>4

(* An expirator's tick takes the due entries and ages the others.          *)
LEMMA TimerType ==
  ASSUME ListTypeOK, NEW p \in Peer, ListTimer(p)
  PROVE  /\ tracked' \in [Peer -> SUBSET ListEntry]
         /\ \A q \in Peer : \A e, f \in tracked'[q] : e.key = f.key => e = f
<1> DEFINE aged == {[e EXCEPT !.left = @ - 1] : e \in tracked[p] \ Due(p)}
<1>1. tracked' = [tracked EXCEPT ![p] = aged]
  BY DEF ListTimer
<1>2. \A e \in tracked[p] \ Due(p) :
         /\ e.key \in 0 .. MaxSequence /\ e.msg \in Msg
         /\ e.left - 1 \in 0 .. Timeout
         /\ [e EXCEPT !.left = @ - 1] = [key |-> e.key, msg |-> e.msg, left |-> e.left - 1]
  BY ListAssumption DEF Due, ListTypeOK, ListEntry
<1>3. aged \subseteq ListEntry
  BY <1>2 DEF ListEntry
<1>4. \A e, f \in aged : e.key = f.key => e = f
  <2> SUFFICES ASSUME NEW e \in tracked[p] \ Due(p), NEW f \in tracked[p] \ Due(p),
                      [e EXCEPT !.left = @ - 1].key = [f EXCEPT !.left = @ - 1].key
               PROVE  e = f
    BY Zenon
  <2>1. e.key = f.key
    BY <1>2
  <2> QED BY <2>1 DEF ListTypeOK
<1> HIDE DEF aged
<1> QED BY <1>1, <1>3, <1>4 DEF ListTypeOK

(* Connecting, binding up to the answer, and closing.                      *)
LEMMA ListStepType ==
  ASSUME ListTypeOK, NEW p \in Peer, ListStep(p)
  PROVE  ListTypeOK'
<1>1. UNCHANGED <<server, clients, tracked>> /\ wire' \subseteq wire
  BY DEF ListStep, Connect, ConnectFails, Retry, BindAccepted, BindFails, PeerUnbind,
         SessionClose
<1>2. seq' \in [Peer -> 0 .. MaxSequence]
  BY ListAssumption DEF ListTypeOK, ListStep, Connect, ConnectFails, Retry, BindAccepted,
         BindFails, PeerUnbind, SessionClose
<1>3. conn' \in [Peer -> ConnState]
  BY DEF ListTypeOK, ListStep, Connect, ConnectFails, Retry, BindAccepted, BindFails,
         PeerUnbind, SessionClose, ConnState
<1> QED BY <1>1, <1>2, <1>3 DEF ListTypeOK, ListEntry

LEMMA ListBindType ==
  ASSUME ListTypeOK, NEW p \in Peer, NEW n \in Names[p], ListBind(p, n)
  PROVE  ListTypeOK' /\ n \in Name
<1>1. n \in Name
  BY ListAssumption
<1>2. conn' \in [Peer -> ConnState]
  BY DEF ListBind, ListTypeOK, ConnState
<1>3. /\ server' \in [Peer -> Name \cup {NoName}]
      /\ clients' \in [Name -> Peer \cup {NoPeer}]
      /\ UNCHANGED <<seq, tracked, wire>>
  BY <1>1 DEF ListBind, ListTypeOK
<1> QED BY <1>1, <1>2, <1>3 DEF ListTypeOK, ListEntry

LEMMA ListCloseType ==
  ASSUME ListTypeOK, NEW p \in Peer, ListClose(p)
  PROVE  ListTypeOK'
<1>1. conn' \in [Peer -> ConnState]
  BY DEF ListClose, ListTypeOK, ConnState
<1>2. /\ clients' \in [Name -> Peer \cup {NoPeer}]
      /\ UNCHANGED <<server, seq, tracked, wire>>
  BY DEF ListClose, ListTypeOK
<1> QED BY <1>1, <1>2 DEF ListTypeOK, ListEntry

(* Requests, responses and timeouts.                                       *)
LEMMA ListSendType ==
  ASSUME ListTypeOK, NEW p \in Peer, NEW m \in Msg, ListSend(p, m)
  PROVE  ListTypeOK'
<1>1. NextSeq(p) \in 0 .. MaxSequence
  BY NextSeqType
<1>2. /\ seq' \in [Peer -> 0 .. MaxSequence]
      /\ wire' \subseteq [peer : Peer, key : 0 .. MaxSequence, msg : Msg]
      /\ UNCHANGED <<conn, server, clients>>
  BY <1>1 DEF ListSend, ListTypeOK
<1>3. Track(p, m)
  BY DEF ListSend
<1> QED BY <1>2, <1>3, TrackType DEF ListTypeOK, ListEntry

LEMMA ListSendFailsType ==
  ASSUME ListTypeOK, NEW p \in Peer, ListSendFails(p)
  PROVE  ListTypeOK'
<1>1. NextSeq(p) \in 0 .. MaxSequence
  BY NextSeqType
<1> QED BY <1>1 DEF ListSendFails, ListTypeOK, ListEntry

LEMMA ListResponseType ==
  ASSUME ListTypeOK, NEW r \in wire, ListResponse(r)
  PROVE  /\ ListTypeOK'
         /\ r.peer \in Peer /\ r.msg \in Msg
<1>1. r.peer \in Peer /\ r.msg \in Msg
  BY DEF ListTypeOK
<1>2. /\ tracked' \in [Peer -> SUBSET ListEntry]
      /\ \A q \in Peer : \A e, f \in tracked'[q] : e.key = f.key => e = f
  BY <1>1 DEF ListResponse, ListTypeOK
<1> QED BY <1>1, <1>2 DEF ListResponse, ListTypeOK, ListEntry

LEMMA ListTimerType ==
  ASSUME ListTypeOK, NEW p \in Peer, ListTimer(p)
  PROVE  ListTypeOK'
BY TimerType DEF ListTimer, ListTypeOK, ListEntry

-----------------------------------------------------------------------------
(* All handlers together, for the modules that extend the list.            *)

ListAction ==
  \/ \E p \in Peer : \/ ListStep(p) \/ ListClose(p) \/ ListTimer(p) \/ ListSendFails(p)
                     \/ \E n \in Name : ListBind(p, n)
                     \/ \E m \in Msg : ListSend(p, m)
  \/ \E r \in wire : ListResponse(r)
  \/ UNCHANGED listVars

(* A p_client has the name of one of its servers; a client that is listed  *)
(* under a name is bound with it.                                          *)
ListInv ==
  /\ ListTypeOK
  /\ \A p \in Peer : server[p] \in Names[p] \cup {NoName}
  /\ \A p \in Bound : server[p] \in Names[p]
  /\ \A n \in Name : clients[n] # NoPeer => clients[n] \in Bound /\ server[clients[n]] = n

LEMMA ListInvInit == ListInit => ListInv
BY ListInitType, ListAssumption DEF ListInit, ListInv, Bound

LEMMA ListActionKeeps ==
  ASSUME ListInv, ListAction
  PROVE  ListInv'
<1>0. ListTypeOK
  BY DEF ListInv
<1>1. ASSUME ListTypeOK', UNCHANGED <<server, clients>>, Bound' = Bound
      PROVE  ListInv'
  BY <1>1 DEF ListInv
<1>2. ASSUME NEW p \in Peer, ListStep(p)
      PROVE  ListInv'
  <2>1. UNCHANGED <<server, clients>> /\ Bound' = Bound
    BY <1>0, <1>2 DEF ListStep, Connect, ConnectFails, Retry, BindAccepted, BindFails,
            PeerUnbind, SessionClose, Bound, ListTypeOK
  <2> QED BY <1>0, <1>1, <1>2, <2>1, ListStepType
<1>3. ASSUME NEW p \in Peer, NEW n \in Name, ListBind(p, n)
      PROVE  ListInv'
  <2>1. n \in Names[p] /\ p \notin Bound
    BY <1>3 DEF ListBind, Bound
  <2>2. /\ Bound' = Bound \cup {p}
        /\ server' = [server EXCEPT ![p] = n]
        /\ \A k \in Name : clients'[k] = clients[k] \/ (k = n /\ clients'[k] = p)
    BY <1>0, <1>3 DEF ListBind, Bound, ListTypeOK
  <2>3. ListTypeOK'
    BY <1>0, <1>3, <2>1, ListBindType
  <2> QED BY <1>0, <2>1, <2>2, <2>3 DEF ListInv, ListTypeOK
<1>4. ASSUME NEW p \in Peer, ListClose(p)
      PROVE  ListInv'
  <2>1. p \in Bound /\ Bound' = Bound \ {p} /\ UNCHANGED server
    BY <1>0, <1>4 DEF ListClose, Bound, ListTypeOK
  <2>2. \A k \in Name : clients'[k] = IF k = server[p] THEN NoPeer ELSE clients[k]
    BY <1>0, <1>4 DEF ListClose, ListTypeOK
  <2>3. ListTypeOK'
    BY <1>0, <1>4, ListCloseType
  <2> QED BY <1>0, <2>1, <2>2, <2>3 DEF ListInv, ListTypeOK
<1>5. ASSUME \/ \E p \in Peer : ListTimer(p) \/ ListSendFails(p)
             \/ \E p \in Peer, m \in Msg : ListSend(p, m)
             \/ \E r \in wire : ListResponse(r)
             \/ UNCHANGED listVars
      PROVE  ListInv'
  <2>1. UNCHANGED <<conn, server, clients>>
    BY <1>5 DEF ListTimer, ListSendFails, ListSend, ListResponse, listVars
  <2>2. Bound' = Bound
    BY <2>1 DEF Bound
  <2>3. ASSUME UNCHANGED listVars
        PROVE  ListTypeOK'
    BY <1>0, <2>3 DEF listVars, ListTypeOK, ListEntry
  <2>4. ListTypeOK'
    BY <1>0, <1>5, <2>3, ListTimerType, ListSendFailsType, ListSendType, ListResponseType
  <2> QED BY <1>1, <2>1, <2>2, <2>4
<1> QED BY <1>2, <1>3, <1>4, <1>5 DEF ListAction

(* Every handler leaves the keys of what it does not touch tracked.        *)
LEMMA ListTracks ==
  ASSUME ListTypeOK, NEW p \in Peer
  PROVE  /\ \A m \in Msg : ListSend(p, m) =>
              /\ \A q \in Peer : Keys(q) \subseteq Keys(q)'
              /\ NextSeq(p) \in Keys(p)'
         /\ ListTimer(p) =>
              /\ \A q \in Peer \ {p} : Keys(q)' = Keys(q)
              /\ \A e \in tracked[p] \ Due(p) : e.key \in Keys(p)'
         /\ \A r \in wire : ListResponse(r) /\ r.peer = p =>
              /\ \A q \in Peer \ {p} : Keys(q)' = Keys(q)
              /\ \A k \in Keys(p) \ {r.key} : k \in Keys(p)'
<1>1. ASSUME NEW m \in Msg, ListSend(p, m)
      PROVE  /\ \A q \in Peer : Keys(q) \subseteq Keys(q)'
             /\ NextSeq(p) \in Keys(p)'
  <2> DEFINE e == [key |-> NextSeq(p), msg |-> m, left |-> Timeout]
  <2>1. tracked' = [tracked EXCEPT ![p] =
                      IF NextSeq(p) \in Keys(p) THEN @ ELSE @ \cup {e}]
    BY <1>1 DEF ListSend, Track
  <2>2. e.key = NextSeq(p)
    OBVIOUS
  <2> HIDE DEF e
  <2> QED BY <2>1, <2>2 DEF ListTypeOK
<1>2. ASSUME ListTimer(p)
      PROVE  /\ \A q \in Peer \ {p} : Keys(q)' = Keys(q)
             /\ \A e \in tracked[p] \ Due(p) : e.key \in Keys(p)'
  <2>1. \A q \in Peer \ {p} : tracked'[q] = tracked[q]
    BY <1>2 DEF ListTimer, ListTypeOK
  <2>2. ASSUME NEW e \in tracked[p] \ Due(p)
        PROVE  e.key \in Keys(p)'
    <3> DEFINE f == [e EXCEPT !.left = @ - 1]
    <3>1. f \in tracked'[p]
      BY <1>2, <2>2 DEF ListTimer, ListTypeOK
    <3>2. f = [key |-> e.key, msg |-> e.msg, left |-> e.left - 1]
      BY <2>2 DEF ListTypeOK, ListEntry
    <3>3. f.key = e.key
      BY <3>2
    <3> QED BY <3>1, <3>3
  <2> QED BY <2>1, <2>2
<1>3. ASSUME NEW r \in wire, ListResponse(r), r.peer = p
      PROVE  /\ \A q \in Peer \ {p} : Keys(q)' = Keys(q)
             /\ \A k \in Keys(p) \ {r.key} : k \in Keys(p)'
  BY <1>3 DEF ListResponse, ListTypeOK
<1> QED BY <1>1, <1>2, <1>3

=============================================================================
