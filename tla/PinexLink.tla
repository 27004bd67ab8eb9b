------------------------------ MODULE PinexLink ------------------------------
(***************************************************************************)
(* The submit direction of pinex: a submit_sm is routed to one of the      *)
(* bound servers, sent on its session, and remembered in user_data_ under  *)
(* "sequence@name" until the response or the timeout of the p_client's     *)
(* expirator takes it out again.  The connections are those of             *)
(* PClientList; pinex adds the router's targets and the two gauges.        *)
(***************************************************************************)
EXTENDS PClientList

CONSTANTS
  Methods,  \* routing methods configured for AO_REQ, now or at runtime
  NoMsg     \* "no message"

ASSUME LinkAssumption ==
  /\ Methods \subseteq {"round_robin", "load_balance", "broadcast", "prefix",
                        "client_id"}
  /\ NoMsg \notin Msg

VARIABLES
  targets,    \* router::targets_list_
  lastIndex,  \* router::last_index_
  userData,   \* user_data_
  connected,  \* gauge connected_clients_
  waiting,    \* gauge wait_for_resp_
  running,    \* the process has not ended
  submitted,  \* history: submits handed to send()
  answers,    \* history: what the submit_sm side was told about each
  shadowed,   \* history: sent, but user_data_ had the key already
  discarded   \* history: taken out of user_data_ by a response of another type

router   == <<targets, lastIndex>>
history  == <<submitted, answers, shadowed, discarded>>
linkVars == <<listVars, router, userData, connected, waiting, running, history>>

\* What submit_sm hears of a request: "response" and "timeout" come through
\* process_resp, "refused" is send()'s false.  "of" is the request whose
\* response it is, NoMsg when the gateway made it up.
Answer == [by : {"response", "timeout", "refused"}, of : Msg \cup {NoMsg}]

Targets  == {targets[i] : i \in 1 .. Len(targets)}
Waiting  == {u.msg : u \in userData}
Answered == {m \in Msg : answers[m] # << >>}

-----------------------------------------------------------------------------
(* The router.                                                             *)

\* Mutant: no look whether the target is there.
AddTargetAgain(n) == targets' = Append(targets, n) /\ UNCHANGED lastIndex

\* router::add_target, which keeps the list sorted: any order without
\* repetitions stands for the sorted one.
AddTarget(n) ==
  /\ \/ /\ n \in Targets
        /\ UNCHANGED targets
     \/ /\ n \notin Targets
        /\ \E i \in 0 .. Len(targets) :
             targets' = SubSeq(targets, 1, i) \o <<n>>
                        \o SubSeq(targets, i + 1, Len(targets))
  /\ UNCHANGED lastIndex

\* targets_list_.erase of the element that is n, if there is one.
EraseTarget(n) ==
  \/ /\ n \notin Targets
     /\ UNCHANGED targets
  \/ \E i \in 1 .. Len(targets) :
       /\ targets[i] = n
       /\ targets' = SubSeq(targets, 1, i - 1) \o SubSeq(targets, i + 1, Len(targets))

\* Mutant: the cursor of the round robin stays where it was.
RemoveTargetKeepsIndex(n) == EraseTarget(n) /\ UNCHANGED lastIndex

\* router::remove_target
RemoveTarget(n) == EraseTarget(n) /\ lastIndex' = 0

\* router::find: send() uses the first name it returns.  A prefix route is
\* configured and a client id is the destination address, so that name may
\* be anything; the other methods name a target, or nothing.
Find(method, n) ==
  \/ /\ method \in {"prefix", "client_id"}
     /\ n \in Name \cup {NoName}
     /\ UNCHANGED router
  \/ /\ method \notin {"prefix", "client_id"}
     /\ targets = << >>
     /\ n = NoName
     /\ UNCHANGED router
  \/ /\ method = "round_robin"
     /\ targets # << >>
     /\ n = targets[lastIndex + 1]
     /\ lastIndex' = (lastIndex + 1) % Len(targets)
     /\ UNCHANGED targets
  \/ /\ method = "load_balance"
     /\ n \in Targets
     /\ UNCHANGED router
  \/ /\ method = "broadcast"
     /\ targets # << >>
     /\ n = targets[1]
     /\ UNCHANGED router

-----------------------------------------------------------------------------
(* user_data_ and the answers.                                             *)

Tell(S, by, of) ==
  answers' = [m \in Msg |->
                IF m \in S THEN Append(answers[m], [by |-> by, of |-> of])
                           ELSE answers[m]]

\* Mutant: the key is the sequence number alone.
EntriesAnyName(k, n) == {u \in userData : u.key = k}

\* What user_data_ has under "k@n".
Entries(k, n) == {u \in userData : u.key = k /\ u.name = n}

\* Mutant: an assignment instead of the insert.
RememberOverwrites(k, n, m) ==
  /\ userData' = (userData \ Entries(k, n)) \cup {[key |-> k, name |-> n, msg |-> m]}
  /\ waiting' = waiting + 1
  /\ UNCHANGED shadowed

\* send() after the number was taken: the insert does nothing when the key is
\* there, the gauge counts it all the same.
Remember(k, n, m) ==
  /\ IF Entries(k, n) = {}
     THEN /\ userData' = userData \cup {[key |-> k, name |-> n, msg |-> m]}
          /\ UNCHANGED shadowed
     ELSE /\ shadowed' = shadowed \cup {m}
          /\ UNCHANGED userData
  /\ waiting' = waiting + 1

\* Mutant: the entries stay.
TakeNothing(S) == UNCHANGED <<userData, waiting>>

\* Entries of user_data_ are erased and leave the gauge.
Take(S) ==
  /\ userData' = userData \ S
  /\ waiting' = waiting - Cardinality(S)

Refuse(m) ==
  /\ Tell({m}, "refused", NoMsg)
  /\ UNCHANGED <<userData, shadowed, waiting>>

\* Mutant: number 0 is taken for a success.
UsableAny(k) == TRUE

\* send() takes a returned 0 for a failure.
Usable(k) == k # 0

-----------------------------------------------------------------------------
(* Handlers.                                                               *)

\* p_client::on_bind with session_state_changed.
OnBind(p) == \E n \in Names[p] :
  /\ running
  /\ ListBind(p, n)
  /\ AddTarget(n)
  /\ connected' = connected + 1
  /\ UNCHANGED <<userData, waiting, running, history>>

\* p_client::on_session_close with session_state_changed.
OnSessionClose(p) ==
  /\ running
  /\ ListClose(p)
  /\ RemoveTarget(server[p])
  /\ connected' = connected - 1
  /\ UNCHANGED <<userData, waiting, running, history>>

\* p_client_list::send_request for a submit: binded_clients_.at, then the
\* p_client's session; its exceptions become a 0.
ClientOf(n) == IF n = NoName THEN NoPeer ELSE clients[n]

NoClient(n, m) ==
  /\ ClientOf(n) = NoPeer
  /\ Refuse(m)
  /\ UNCHANGED listVars

SendVia(p, n, m) ==
  \/ /\ ListSendFails(p)
     /\ Refuse(m)
  \/ /\ ListSend(p, m)
     /\ Usable(NextSeq(p))
     /\ Remember(NextSeq(p), n, m)
     /\ UNCHANGED answers
  \/ /\ ListSend(p, m)
     /\ ~Usable(NextSeq(p))
     /\ Refuse(m)

\* pinex::send of a submit_info.
Send(m) ==
  /\ running
  /\ m \notin submitted
  /\ submitted' = submitted \cup {m}
  /\ \E method \in Methods, n \in Name \cup {NoName} :
       /\ Find(method, n)
       /\ NoClient(n, m) \/ \E p \in Peer : p = ClientOf(n) /\ SendVia(p, n, m)
  /\ UNCHANGED <<connected, running, discarded>>

\* The same call, when the load balancing route cannot convert the end of the
\* destination: an exception in an operator that is noexcept ends the process.
SendTerminates ==
  /\ running
  /\ submitted # Msg
  /\ "load_balance" \in Methods /\ targets # << >>
  /\ running' = FALSE
  /\ UNCHANGED <<listVars, router, userData, connected, waiting, history>>

\* pinex::receive_response.  A response that is no AO_RESP takes the request
\* out of user_data_ and goes no further.
OnResponse(r) ==
  LET found == Entries(r.key, server[r.peer]) IN
  /\ running
  /\ ListResponse(r)
  /\ Take(found)
  /\ \/ /\ Tell({u.msg : u \in found}, "response", r.msg)
        /\ UNCHANGED discarded
     \/ /\ discarded' = discarded \cup {u.msg : u \in found}
        /\ UNCHANGED answers
  /\ UNCHANGED <<router, connected, running, submitted, shadowed>>

\* Mutant: the timed out request stays in user_data_.
DueDataNone(p) == {}

\* What the timeouts of this tick find in user_data_, under the name the
\* p_client has now.
DueData(p) == UNION {Entries(e.key, server[p]) : e \in Due(p)}

\* p_client's expirator with pinex::timeout_request.
OnTimer(p) ==
  /\ running
  /\ ListTimer(p)
  /\ Take(DueData(p))
  /\ Tell({u.msg : u \in DueData(p)}, "timeout", NoMsg)
  /\ UNCHANGED <<router, connected, running, submitted, shadowed, discarded>>

LinkStep(p) ==
  /\ running
  /\ ListStep(p)
  /\ UNCHANGED <<router, userData, connected, waiting, running, history>>

-----------------------------------------------------------------------------

Init ==
  /\ ListInit
  /\ targets = << >>
  /\ lastIndex = 0
  /\ userData = {}
  /\ connected = 0
  /\ waiting = 0
  /\ running = TRUE
  /\ submitted = {}
  /\ answers = [m \in Msg |-> << >>]
  /\ shadowed = {}
  /\ discarded = {}

Next ==
  \/ \E p \in Peer : LinkStep(p) \/ OnBind(p) \/ OnSessionClose(p) \/ OnTimer(p)
  \/ \E m \in Msg : Send(m)
  \/ SendTerminates
  \/ \E r \in wire : OnResponse(r)

SafeSpec == Init /\ [][Next]_linkVars

\* Expirators re-arm themselves, posted and deferred handlers are dispatched,
\* an attempt to connect ends and the retry timer fires.
Fairness == \A p \in Peer :
  /\ WF_linkVars(OnTimer(p))
  /\ WF_linkVars(OnBind(p))
  /\ WF_linkVars(OnSessionClose(p))
  /\ WF_linkVars(LinkStep(p) /\ conn[p] \in {"connecting", "retrying"})

\* The environment a reconnect needs: a server that is tried again and again
\* is reached in the end, and answers a bind, be it with a refusal.
ServerReachable == \A p \in Peer :
  /\ SF_linkVars(Connect(p) /\ LinkStep(p))
  /\ WF_linkVars((BindAccepted(p) \/ BindFails(p)) /\ LinkStep(p))

Spec == SafeSpec /\ Fairness /\ ServerReachable

-----------------------------------------------------------------------------
(* Properties.                                                             *)

\* The variables hold what the handlers put there; a key is in user_data_, and
\* in an expirator, once, and a target in the router's list once.
TypeOK ==
  /\ ListTypeOK
  /\ targets \in Seq(Name)
  /\ lastIndex \in Nat
  /\ userData \subseteq [key : 1 .. MaxSequence, name : Name, msg : Msg]
  /\ \A u, v \in userData : u.key = v.key /\ u.name = v.name => u = v
  /\ connected \in Int
  /\ waiting \in Int
  /\ running \in BOOLEAN
  /\ submitted \subseteq Msg
  /\ answers \in [Msg -> Seq(Answer)]
  /\ shadowed \subseteq Msg
  /\ discarded \subseteq Msg

Lost == shadowed \cup discarded

\* Every submit handed to send() is in exactly one place - waiting, answered,
\* shadowed or discarded - and is answered at most once, across reconnects,
\* late responses and reused numbers (send, receive_response, timeout_request).
Accounted ==
  /\ submitted = Waiting \cup Answered \cup Lost
  /\ Waiting \cap (Answered \cup Lost) = {}
  /\ Answered \cap Lost = {}
  /\ shadowed \cap discarded = {}
  /\ \A u, v \in userData : u.msg = v.msg => u = v
  /\ \A m \in Msg : Len(answers[m]) <= 1

\* The router names exactly the clients the list knows, so a target is never
\* one that p_client_list::send_request cannot find, also while a session is
\* closed and its handler has not run, and with servers of one name.
TargetsAreClients ==
  /\ Targets = {n \in Name : clients[n] # NoPeer}
  /\ Len(targets) = Cardinality(Targets)

\* A client of the list holds a session: binded_session_ is never null when
\* p_client_list dereferences it, and it is bound under the name it has there.
ClientsUsable ==
  \A n \in Name : clients[n] # NoPeer =>
                    clients[n] \in Bound /\ server[clients[n]] = n

\* No two addresses lead to servers of one name; an address leads to one server.
OwnNames == \A p, q \in Peer : p # q => Names[p] \cap Names[q] = {}
FixedNames == OwnNames /\ \A p \in Peer : \E n \in Name : Names[p] = {n}

\* When no two servers bind with one name, a bound p_client is in the list:
\* it can be sent to.
BoundReachable ==
  OwnNames => \A p \in Bound : clients[server[p]] = p

\* The cursor of the round robin stays within the list of targets.
RouteInRange == targets # << >> => lastIndex < Len(targets)

\* The gauges: connected_clients_ counts the bound p_clients; wait_for_resp_
\* counts what waits, and is off by each submit whose key was taken.
Gauges ==
  /\ connected = Cardinality(Bound)
  /\ waiting = Cardinality(userData) + Cardinality(shadowed)

\* As long as an address keeps its server's name, and no other address has
\* that name, what waits in user_data_ has an entry in the expirator of its
\* p_client - also when the session it was sent on is long gone - so that it
\* is timed out if nothing else.
WaitingIsTimed ==
  FixedNames =>
    \A u \in userData : \E p \in Peer : server[p] = u.name /\ u.key \in Keys(p)

\* A response completes its own submit and no other.
Correlated ==
  \A m \in Msg : \A i \in 1 .. Len(answers[m]) : answers[m][i].of \in {NoMsg, m}

\* sequence_number_ of no session wraps: a session number leaves 0 when it is
\* made, and only a wrap, after 2^32 - 1 requests, leads back.
NumbersKept == [][\A p \in Peer : seq[p] # 0 => seq'[p] # 0]_seq

\* A submit is answered with the response of another one only when that one
\* found its key in user_data_ taken.  As long as the numbers of a session do
\* not wrap, and no two servers bind with one name, there is no other way for
\* responses to be mixed up, whatever the reconnects, timeouts and late
\* responses.
MixedOnlyByKey == OwnNames =>
  \A m \in Msg : \A i \in 1 .. Len(answers[m]) :
    answers[m][i].of \in {NoMsg, m} \cup shadowed

ServiceStatus ==
  [m \in Msg |-> IF Len(answers[m]) > 1 THEN "answered twice"
                 ELSE IF m \in Answered THEN "answered"
                 ELSE IF m \in Lost THEN "lost"
                 ELSE IF m \in submitted THEN "accepted" ELSE "new"]

Service == INSTANCE RequestReply WITH Request <- Msg, status <- ServiceStatus

\* The link keeps the request/reply promise towards submit_sm.
SubmitService == Service!SafeSpec

\* Every submit that waits is settled in the end, if only by the timeout; a
\* process that ends, over a submit that cannot be routed, leaves the others
\* unsettled.
SubmitSettled ==
  \A m \in Msg : ServiceStatus[m] = "accepted"
                  ~> ServiceStatus[m] \in {"answered", "lost"} \/ ~running

\* A connection that was lost comes back, unless a bind fails on the way or the
\* process ends.
ComesBack == AutoReconnect =>
  \A p \in Peer : conn[p] = "closed" ~> conn[p] \in {"open", "failed"} \/ ~running

\* A connection that was lost comes back, as long as the process runs.
Reconnects == AutoReconnect =>
  \A p \in Peer : conn[p] = "closed" ~> conn[p] = "open" \/ ~running

=============================================================================
