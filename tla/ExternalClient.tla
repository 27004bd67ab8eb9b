--------------------------- MODULE ExternalClient ---------------------------
(***************************************************************************)
(* The deliver side of one sgw_external_client: the ESME's bound sessions, *)
(* the queue of delivers waiting for the send flow control, the expirator  *)
(* that remembers what was sent, and every handler that reads or changes   *)
(* them.  All handlers run on one io_context, so a handler is one step and *)
(* the interleavings are the orders in which handlers are dispatched.      *)
(*                                                                         *)
(* A request is a deliver (queued by flow_controlled_send_deliver) or a    *)
(* delivery report (sent straight away); both are owed one response to the *)
(* pinex peer.                                                             *)
(***************************************************************************)
EXTENDS Integers, Sequences, FiniteSets

CONSTANTS
  Session,      \* TCP sessions the ESME may open; a reconnect is a new one
  Msg,          \* deliver requests arriving over pinex
  Report,       \* those of them that are delivery reports
  MaxSessions,  \* the values max_session is configured to, now or at runtime
  Timeout,      \* dialog_timeout, in ticks of the expirator
  MaxSequence,  \* session::next_sequence_number wraps after this number
  EnquireBound, \* bound of the model: a session whose last number is this
                \* or more sends no enquire_link
  IndexSpan,    \* expirator indices are keyed by an unsigned: 2^32 of them
  NoMsg         \* "no message"

ASSUME ConstantsAssumption ==
  /\ Report \subseteq Msg
  /\ MaxSessions \subseteq Nat /\ MaxSessions # {}
  /\ MaxSequence \in Nat \ {0} /\ EnquireBound \in Nat
  /\ IndexSpan \in Nat /\ Timeout \in Nat /\ Timeout < IndexSpan
  /\ NoMsg \notin Msg

VARIABLES
  client,       \* the client object: in ext_clients_map_, removed, destroyed
  maxSession,   \* max_session_
  binded,       \* binded_sessions_
  sess,         \* state_ of each session, and its two ends
  seq,          \* sequence_number_ of each session
  queue,        \* send_queue_
  pending,      \* index_keys_ of packet_expirator_: at <-> key, with info
  index,        \* index_ of packet_expirator_, modulo IndexSpan
  wire,         \* deliver_sm PDUs an ESME holds and may still answer
  connected,    \* gauge connected_connections_
  waiting,      \* gauge wait_for_resp_
  accepted,     \* history: requests the pinex peer has sent
  replies,      \* history: responses handed to deliver_sm::process_resp
  orphaned,     \* history: sent, but add() found the key taken
  dropped       \* history: still queued when the client was destroyed

conf    == <<client, maxSession>>
link    == <<binded, sess, connected>>
tracker == <<pending, index, waiting>>
history == <<accepted, replies, orphaned, dropped>>
vars    == <<conf, link, tracker, history, seq, queue, wire>>

-----------------------------------------------------------------------------
(* The values.                                                             *)

\* "idle": not yet bound; "rejected": its bind was refused, and it has no
\* request handler any more; "closed": close() ran, its posted handler has not;
\* "gone": the close handler ran.
SessionState == {"idle", "rejected", "open", "unbinding", "closed", "gone"}

Status == {"ok", "error", "rtimeout", "dst_esme_not_bound", "rsyserr",
           "rinvdstadr"}

\* A response towards pinex; "of" is the request whose deliver_sm_resp
\* caused it, NoMsg when the gateway made it up.
Reply == [status : Status, of : Msg \cup {NoMsg}]

Entry == [at : 0 .. IndexSpan - 1, key : 1 .. MaxSequence, msg : Msg]

Pdu == [session : Session, seqno : 1 .. MaxSequence, msg : Msg]

Queued   == {queue[i] : i \in 1 .. Len(queue)}
Pending  == {e.msg : e \in pending}
Answered == {m \in Msg : replies[m] # << >>}

-----------------------------------------------------------------------------
(* Operations that the handlers share.                                     *)

\* session::next_sequence_number
NextSeq(s) == IF seq[s] + 1 > MaxSequence THEN 1 ELSE seq[s] + 1

\* deliver_sm::process_resp / delivery_report::process_resp
Respond(S, status, of) ==
  replies' = [m \in Msg |->
               IF m \in S THEN Append(replies[m], [status |-> status, of |-> of])
                          ELSE replies[m]]

\* Mutant: an index kept wider than the key of the bimap.
SlotUnwrapped(n) == n

\* An index of the expirator: index_ is 64 bits wide, the key an unsigned int.
Slot(n) == n % IndexSpan

\* io::expirator::add: an insert into the bimap does nothing when the key is
\* already there, and its result is ignored.
Track(k, m) ==
  IF \E e \in pending : e.key = k
  THEN /\ orphaned' = orphaned \cup {m}
       /\ UNCHANGED pending
  ELSE /\ pending' = pending \cup
            {[at |-> Slot(index + Timeout), key |-> k, msg |-> m]}
       /\ UNCHANGED orphaned

\* Mutant: the entry of an answered deliver stays.
UntrackNothing(k) == UNCHANGED pending

\* io::expirator::remove
Untrack(k) == pending' = {e \in pending : e.key # k}

\* Mutants: expire_all not called; it resets the index alone; it clears
\* without the handler; the handler reports a system error.
ExpireAllSkipped == UNCHANGED <<pending, index, replies>>
ExpireAllResets  == index' = 0 /\ UNCHANGED <<pending, replies>>
ExpireAllSilent  == pending' = {} /\ index' = 0 /\ UNCHANGED replies
ExpireAllErrors  == pending' = {} /\ index' = 0 /\ Respond(Pending, "rsyserr", NoMsg)

\* io::expirator::expire_all, with on_packet_expire as its handler.
ExpireAll ==
  /\ Respond(Pending, "rtimeout", NoMsg)
  /\ pending' = {}
  /\ index' = 0

\* send_deliver_sm on an open session: the PDU is written and remembered.
SendOn(s, m) ==
  /\ sess[s] = "open"
  /\ seq' = [seq EXCEPT ![s] = NextSeq(s)]
  /\ wire' = wire \cup {[session |-> s, seqno |-> NextSeq(s), msg |-> m]}
  /\ Track(NextSeq(s), m)
  /\ waiting' = waiting + 1
  /\ UNCHANGED <<index, replies>>

\* remote_endpoint() throws when the socket is no longer connected: always
\* after close(), and on a live session when the peer has just gone away.
EndpointGone(s, m) ==
  /\ Respond({m}, "rsyserr", NoMsg)
  /\ UNCHANGED <<seq, wire, tracker, orphaned>>

\* send_impl throws on an unbinding session, after the number was taken.
SendRefused(s, m) ==
  /\ sess[s] = "unbinding"
  /\ seq' = [seq EXCEPT ![s] = NextSeq(s)]
  /\ Respond({m}, "rsyserr", NoMsg)
  /\ UNCHANGED <<wire, tracker, orphaned>>

\* sgw_external_client::send_deliver_sm; rand() picks the session.
SendDeliverSm(m) ==
  \/ /\ binded = {}
     /\ Respond({m}, "dst_esme_not_bound", NoMsg)
     /\ UNCHANGED <<seq, wire, tracker, orphaned>>
  \/ \E s \in binded : SendOn(s, m) \/ EndpointGone(s, m) \/ SendRefused(s, m)

-----------------------------------------------------------------------------
(* Handlers: the ESME's connections.                                       *)

\* Mutant: one session too many.
PermittedOneMore == Cardinality(binded) <= maxSession

\* check_permision: the session limit is an equality test; the other checks
\* concern the bind request alone.
Permitted == Cardinality(binded) # maxSession

\* server::on_binding_session_request and sgw_server::on_bind.
Bind(s) ==
  /\ client = "present"
  /\ sess[s] = "idle"
  /\ Permitted
  /\ sess' = [sess EXCEPT ![s] = "open"]
  /\ binded' = binded \cup {s}
  /\ connected' = connected + 1
  /\ UNCHANGED <<conf, tracker, history, seq, queue, wire>>

\* The bind is refused: the session limit, a check of the request itself, or
\* a system id that is not in ext_clients_map_.
RejectBind(s) ==
  /\ sess[s] = "idle"
  /\ sess' = [sess EXCEPT ![s] = "rejected"]
  /\ UNCHANGED <<conf, binded, connected, tracker, history, seq, queue, wire>>

\* The enquire_link timer of a silent session: the PDU takes a number.
EnquireLink(s) ==
  /\ sess[s] = "open"
  /\ seq[s] < EnquireBound
  /\ seq' = [seq EXCEPT ![s] = NextSeq(s)]
  /\ UNCHANGED <<conf, link, tracker, history, queue, wire>>

\* An unbind PDU from the ESME.
PeerUnbind(s) ==
  /\ sess[s] = "open"
  /\ sess' = [sess EXCEPT ![s] = "unbinding"]
  /\ UNCHANGED <<conf, binded, connected, tracker, history, seq, queue, wire>>

\* session::close, whatever the reason (receive or write error, inactivity,
\* unbind_resp, the cancelled enquire_link timer of a forced unbind).  The
\* close handler is posted, not called.
SessionClose(s) ==
  /\ sess[s] \in {"open", "unbinding"}
  /\ sess' = [sess EXCEPT ![s] = "closed"]
  /\ wire' = {p \in wire : p.session # s}
  /\ UNCHANGED <<conf, binded, connected, tracker, history, seq, queue>>

\* Mutant: the gauge is not decremented.
LeaveUncounted(s) == binded' = binded \ {s} /\ UNCHANGED connected

\* The session leaves binded_sessions_ and the gauge.
Leave(s) == binded' = binded \ {s} /\ connected' = connected - 1

\* sgw_external_client::on_session_close: every deliver that waits for a
\* response, on whatever session, times out.
OnSessionClose(s) ==
  /\ sess[s] = "closed"
  /\ s \in binded
  /\ sess' = [sess EXCEPT ![s] = "gone"]
  /\ Leave(s)
  /\ ExpireAll
  /\ UNCHANGED <<conf, waiting, accepted, orphaned, dropped, seq, queue, wire>>

-----------------------------------------------------------------------------
(* Handlers: delivers and their responses.                                 *)

\* sgw_server::send_deliver, with a route to this client.
ReceiveDeliver(m) ==
  /\ m \notin accepted \cup Report
  /\ accepted' = accepted \cup {m}
  /\ \/ /\ client = "present"
        /\ queue' = Append(queue, m)
        /\ UNCHANGED replies
     \/ /\ client # "present"
        /\ Respond({m}, "rinvdstadr", NoMsg)
        /\ UNCHANGED queue
  /\ UNCHANGED <<conf, link, tracker, orphaned, dropped, seq, wire>>

\* sgw_server::send_delivery_report: no flow control.
ReceiveReport(m) ==
  /\ m \in Report \ accepted
  /\ accepted' = accepted \cup {m}
  /\ \/ /\ client = "present"
        /\ SendDeliverSm(m)
     \/ /\ client # "present"
        /\ Respond({m}, "rinvdstadr", NoMsg)
        /\ UNCHANGED <<seq, wire, tracker, orphaned>>
  /\ UNCHANGED <<conf, link, dropped, queue>>

\* One iteration of the loop of send_process.  The flow control may stop the
\* loop after any iteration, so each iteration is also a whole run of the
\* handler; a run that sends nothing leaves the state alone.
SendProcess ==
  /\ client # "destroyed"
  /\ queue # << >>
  /\ queue' = Tail(queue)
  /\ SendDeliverSm(Head(queue))
  /\ UNCHANGED <<conf, link, accepted, dropped>>

\* on_session_response for a number the expirator knows.  The session the
\* response came from plays no part in the lookup.
OnResponse(p, status) ==
  /\ p \in wire
  /\ sess[p.session] = "open"
  /\ wire' = wire \ {p}
  /\ \E e \in pending :
       /\ e.key = p.seqno
       /\ Untrack(p.seqno)
       /\ waiting' = waiting - 1
       /\ Respond({e.msg}, status, p.msg)
  /\ UNCHANGED <<conf, link, index, accepted, orphaned, dropped, seq, queue>>

\* on_session_response for a number the expirator does not know: too late.
OnLateResponse(p) ==
  /\ p \in wire
  /\ sess[p.session] = "open"
  /\ \A e \in pending : e.key # p.seqno
  /\ wire' = wire \ {p}
  /\ UNCHANGED <<conf, link, tracker, history, seq, queue>>

\* expirator::on_timer: the entries of this index time out, wait_for_resp_
\* stays as it is.
OnTimer ==
  /\ client # "destroyed"
  /\ Respond({e.msg : e \in {f \in pending : f.at = index}}, "rtimeout", NoMsg)
  /\ pending' = {f \in pending : f.at # index}
  /\ index' = Slot(index + 1)
  /\ UNCHANGED <<conf, link, waiting, accepted, orphaned, dropped, seq, queue, wire>>

-----------------------------------------------------------------------------
(* Handlers: configuration.                                                *)

\* set_max_session
SetMaxSession(n) ==
  /\ client = "present"
  /\ maxSession # n
  /\ maxSession' = n
  /\ UNCHANGED <<client, link, tracker, history, seq, queue, wire>>

\* sgw_server::on_external_client_remove: stop() forces every session to
\* unbind, and the map forgets the client.
Remove ==
  /\ client = "present"
  /\ client' = "removed"
  /\ sess' = [s \in Session |-> IF s \in binded /\ sess[s] = "open"
                                THEN "unbinding" ELSE sess[s]]
  /\ UNCHANGED <<maxSession, binded, connected, tracker, history, seq, queue, wire>>

\* The last session handler that kept the object alive is gone: the object
\* is destroyed with its timers, and with whatever is still queued.
Destroy ==
  /\ client = "removed"
  /\ binded = {}
  /\ client' = "destroyed"
  /\ queue' = << >>
  /\ dropped' = dropped \cup Queued
  /\ UNCHANGED <<maxSession, link, tracker, accepted, replies, orphaned, seq, wire>>

-----------------------------------------------------------------------------

Init ==
  /\ client = "present"
  /\ maxSession \in MaxSessions
  /\ binded = {}
  /\ sess = [s \in Session |-> "idle"]
  /\ seq = [s \in Session |-> 0]
  /\ queue = << >>
  /\ pending = {}
  /\ index = 0
  /\ wire = {}
  /\ connected = 0
  /\ waiting = 0
  /\ accepted = {}
  /\ replies = [m \in Msg |-> << >>]
  /\ orphaned = {}
  /\ dropped = {}

Connections == \E s \in Session : Bind(s) \/ RejectBind(s) \/ EnquireLink(s)
                                  \/ PeerUnbind(s) \/ SessionClose(s)
                                  \/ OnSessionClose(s)

Requests == \E m \in Msg : ReceiveDeliver(m) \/ ReceiveReport(m)

Responses == \E p \in wire : OnLateResponse(p)
                             \/ \E status \in {"ok", "error"} : OnResponse(p, status)

Reconfigure == (\E n \in MaxSessions : SetMaxSession(n)) \/ Remove \/ Destroy

Next == Connections \/ Requests \/ Responses \/ SendProcess \/ OnTimer \/ Reconfigure

SafeSpec == Init /\ [][Next]_vars

\* Timers re-arm themselves and posted handlers are dispatched: the io_context
\* always gets to them.  The send flow control lets a queued deliver pass
\* sooner or later.  Nothing is assumed of the ESME or of the configuration.
Fairness ==
  /\ WF_vars(SendProcess)
  /\ WF_vars(OnTimer)

Spec == SafeSpec /\ Fairness

-----------------------------------------------------------------------------
(* Properties.                                                             *)

\* The variables hold what the handlers put there; the expirator's keys are
\* the unique side of its bimap.
TypeOK ==
  /\ client \in {"present", "removed", "destroyed"}
  /\ maxSession \in MaxSessions
  /\ binded \subseteq Session
  /\ sess \in [Session -> SessionState]
  /\ seq \in [Session -> 0 .. MaxSequence]
  /\ queue \in Seq(Msg)
  /\ pending \subseteq Entry
  /\ \A e, f \in pending : e.key = f.key => e = f
  /\ index \in 0 .. IndexSpan - 1
  /\ wire \subseteq Pdu
  /\ connected \in Int
  /\ waiting \in Int
  /\ accepted \subseteq Msg
  /\ replies \in [Msg -> Seq(Reply)]
  /\ orphaned \subseteq Msg
  /\ dropped \subseteq Msg

Settled == Answered \cup orphaned \cup dropped

\* Every request taken from pinex is in exactly one place - queued, tracked by
\* the expirator, answered, orphaned or dropped - and no request is answered
\* twice, whichever of response, timeout, session close, removal and failing
\* send come first (process_deliver_resp, send_deliver_sm, expire_all).
Accounted ==
  /\ accepted = Queued \cup Pending \cup Settled
  /\ Queued \cap Pending = {}
  /\ (Queued \cup Pending) \cap Settled = {}
  /\ Answered \cap (orphaned \cup dropped) = {}
  /\ orphaned \cap dropped = {}
  /\ \A i, j \in 1 .. Len(queue) : queue[i] = queue[j] => i = j
  /\ \A e, f \in pending : e.msg = f.msg => e = f
  /\ \A m \in Msg : Len(replies[m]) <= 1

\* binded_sessions_ holds the sessions between on_bind and on_session_close,
\* also those already closed, and the gauge connected_connections_ counts it
\* until stop() takes the gauge out of its family.  When the last session is
\* gone nothing waits for a response any more.
BoundSessions ==
  /\ binded = {s \in Session : sess[s] \in {"open", "unbinding", "closed"}}
  /\ client = "present" => connected = Cardinality(binded)
  /\ pending # {} => binded # {}

\* check_permision keeps an ESME within its max_session, as long as the
\* setting is not lowered at runtime.
SessionLimit == MaxSessions = {maxSession} => Cardinality(binded) <= maxSession

\* A deliver_sm_resp completes the deliver_sm it answers and no other one
\* (on_session_response looks the number up without regard to the session).
Correlated ==
  \A m \in Msg : \A i \in 1 .. Len(replies[m]) : replies[m][i].of \in {NoMsg, m}

\* What send_deliver_sm hands to a session is remembered: expirator::add never
\* finds the number taken, so every deliver_sm_resp finds its deliver.
NothingOrphaned == orphaned = {}

\* No session has used up its sequence numbers: 2^31 - 1 requests.
NumbersLeft == \A s \in Session : seq[s] < MaxSequence

\* Nothing is tracked behind the expirator's index, where it would wait for
\* a whole turn of the index: a deliver is due within dialog_timeout, also
\* across the reset in expire_all and the wrap of the unsigned key.
DueInTime == \A e \in pending : (e.at - index) % IndexSpan <= Timeout

\* The requests the pinex peer was told timed out.
TimedOut == {m \in Msg : \E i \in 1 .. Len(replies[m]) : replies[m][i].status = "rtimeout"}

\* The gauge wait_for_resp_ is incremented by each send and decremented by
\* responses alone: it is off for ever by every timeout and every orphan.
WaitingDrift ==
  waiting = Cardinality(pending) + Cardinality(orphaned) + Cardinality(TimedOut)

\* What the pinex peer sees of each of its requests.
Lost == orphaned \cup dropped

ServiceStatus ==
  [m \in Msg |-> IF Len(replies[m]) > 1 THEN "answered twice"
                 ELSE IF m \in Answered THEN "answered"
                 ELSE IF m \in Lost THEN "lost"
                 ELSE IF m \in accepted THEN "accepted" ELSE "new"]

Service == INSTANCE RequestReply WITH Request <- Msg, status <- ServiceStatus

\* The deliver side keeps the request/reply promise: accepted once, answered
\* at most once, never answered after it was given up.
DeliverService == Service!SafeSpec

\* Every deliver and report taken from pinex is settled in the end, if only
\* by the timeout of send_deliver_sm.
DeliverSettled == Service!AllSettled

=============================================================================
