----------------------------- MODULE DeliverPath -----------------------------
(***************************************************************************)
(* What becomes of a deliver: a pinex server sends it, or a delivery       *)
(* report, over one of the connections of pinex's p_client_list (the       *)
(* PClientList this module extends), sgw_server hands it to the            *)
(* sgw_external_client of an ESME or refuses it, and its answer goes back  *)
(* under the server's name and number.                                     *)
(*                                                                         *)
(* The ESME's side is the abstract service RequestReply here: module       *)
(* ExternalClient shows that the real one implements it.  Which client a   *)
(* deliver is routed to is module RoutingMatcher's subject.                *)
(***************************************************************************)
EXTENDS PClientList

CONSTANTS
  NoInfo,  \* "not received"
  NoMsg    \* "no message"

ASSUME DeliverAssumption ==
  /\ NoMsg \notin Msg
  /\ NoInfo \notin [name : Name, key : 0 .. MaxSequence]

VARIABLES
  served,    \* the server's last sequence number on each connection
  unread,    \* requests of the servers on their way: [peer, key, msg]
  awaited,   \* requests whose server waits for an answer: [peer, key, msg]
  info,      \* source_connection_, originating_sequence_number_ of each deliver
  back,      \* what the ESME's side is doing with each one (RequestReply)
  running,   \* io_context::run() has not been left by an exception
  answers,   \* history: what became of the answers to each deliver
  took,      \* history: the deliver whose answer the server took for each one
  ignored,   \* history: received and given up without an answer
  via,       \* history: the connection a deliver came on, while it is there
  doubled,   \* history: names several p_clients have been bound with at once
  stray      \* history: answered when "via" was gone or the name was doubled

inbound     == <<served, unread, awaited>>
history     == <<answers, took, ignored, via, doubled, stray>>
deliverVars == <<listVars, inbound, info, back, running, history>>

Esme == INSTANCE RequestReply WITH Request <- Msg, status <- back

\* "nowhere": no client of that name, which send_response counts as sent.
Outcome == {"sent", "nowhere", "failed"}

Received == {m \in Msg : info[m] # NoInfo}
Answered == {m \in Msg : answers[m] # << >>}

-----------------------------------------------------------------------------
(* deliver_sm::process_resp and delivery_report::process_resp.             *)

\* Mutant: any client will do.
ReplyToAny(name) ==
  IF \E n \in Name : clients[n] # NoPeer
  THEN clients[CHOOSE n \in Name : clients[n] # NoPeer] ELSE NoPeer

\* binded_clients_.at(id)
ReplyTo(name) == clients[name]

\* p_client_list::send_response: with the number the request had, on the
\* connection the name has now.  A session that is not open throws, which
\* pinex::send catches.  The server takes it for whatever it has under that
\* number.
Reply(m) ==
  LET p == ReplyTo(info'[m].name)
      how == IF p = NoPeer THEN "nowhere"
             ELSE IF conn[p] = "open" THEN "sent" ELSE "failed"
      met == {a \in awaited : how = "sent" /\ a.peer = p /\ a.key = info'[m].key}
  IN
    /\ answers' = [answers EXCEPT ![m] = Append(@, how)]
    /\ took' = [x \in Msg |-> IF \E a \in met : a.msg = x THEN m ELSE took[x]]
    /\ awaited' = awaited \ met
    /\ stray' = IF via'[m] = NoPeer \/ info'[m].name \in doubled
                THEN stray \cup {m} ELSE stray

NoReply == UNCHANGED <<answers, took, awaited, stray>>

-----------------------------------------------------------------------------
(* The server's side.                                                      *)

\* A request of the server, on a connection it takes for bound.
ServerSends(p, m) ==
  /\ running
  /\ conn[p] \in {"accepted", "open"}
  /\ m \notin Received
  /\ took[m] = NoMsg /\ \A a \in awaited : a.msg # m
  /\ served' = [served EXCEPT ![p] = (@ + 1) % (MaxSequence + 1)]
  /\ LET r == [peer |-> p, key |-> served'[p], msg |-> m] IN
       unread' = unread \cup {r} /\ awaited' = awaited \cup {r}
  /\ UNCHANGED <<listVars, info, back, running, history>>

-----------------------------------------------------------------------------
(* Handlers.                                                               *)

\* pinex::receive_request up to process_req: on an open session, under the
\* name it was bound with.
Taken(r) ==
  /\ running
  /\ conn[r.peer] = "open"
  /\ unread' = unread \ {r}
  /\ info' = [info EXCEPT ![r.msg] = [name |-> server[r.peer], key |-> r.key]]
  /\ via' = [via EXCEPT ![r.msg] = r.peer]
  /\ UNCHANGED <<listVars, served, running, doubled>>

\* A message type that receive_request does not know.
ReceiveUnknown(r) ==
  /\ Taken(r)
  /\ ignored' = ignored \cup {r.msg}
  /\ NoReply
  /\ UNCHANGED back

\* send_deliver, send_delivery_report: no route, or no client of that id.
ReceiveRefused(r) ==
  /\ Taken(r)
  /\ Esme!Answer({r.msg})
  /\ Reply(r.msg)
  /\ UNCHANGED ignored

\* A deliver joins the client's send_queue_; so does a report's deliver_sm,
\* sent at once, the client's expirator.
ReceiveAccepted(r) ==
  /\ Taken(r)
  /\ Esme!Accept({r.msg})
  /\ NoReply
  /\ UNCHANGED ignored

\* consume_request_pdu: a session that unbinds drops requests.
ReceiveDropped(r) ==
  /\ running
  /\ conn[r.peer] = "unbinding"
  /\ unread' = unread \ {r}
  /\ info' = [info EXCEPT ![r.msg] = [name |-> server[r.peer], key |-> r.key]]
  /\ via' = [via EXCEPT ![r.msg] = r.peer]
  /\ ignored' = ignored \cup {r.msg}
  /\ NoReply
  /\ UNCHANGED <<listVars, served, back, running, doubled>>

\* find_target may throw, and extract_dr_status may read past the end of a
\* report that ends in "stat": nothing between here and main catches.
ReceiveThrows(r) ==
  /\ running
  /\ conn[r.peer] = "open"
  /\ running' = FALSE
  /\ UNCHANGED <<listVars, inbound, info, back, history>>

\* Mutant: the answer is sent twice, by a response and by the timeout.
SettlesAgain(m) ==
  /\ running
  /\ back[m] \in {"accepted", "answered"}
  /\ back' = [back EXCEPT ![m] = "answered"]
  /\ UNCHANGED <<info, via>>
  /\ Reply(m)
  /\ UNCHANGED <<listVars, served, unread, running, ignored, doubled>>

\* The ESME's side settles a deliver: process_deliver_resp, a timeout or a
\* refusal, or it is lost there.
EsmeSettles(m) ==
  /\ running
  /\ back[m] = "accepted"
  /\ UNCHANGED <<info, via>>
  /\ \/ Esme!Answer({m}) /\ Reply(m)
     \/ Esme!Lose({m}) /\ NoReply
  /\ UNCHANGED <<listVars, served, unread, running, ignored, doubled>>

\* Two p_clients may be bound under one name.
DeliverBind(p, n) ==
  /\ running
  /\ ListBind(p, n)
  /\ doubled' = IF \E q \in Bound \ {p} : server[q] = n
                THEN doubled \cup {n} ELSE doubled
  /\ UNCHANGED <<inbound, info, back, running, answers, took, ignored, via, stray>>

DeliverClose(p) ==
  /\ running
  /\ ListClose(p)
  /\ doubled' = IF \E q \in Bound \ {p} : server[q] = server[p]
                THEN doubled ELSE doubled \ {server[p]}
  /\ UNCHANGED <<inbound, info, back, running, answers, took, ignored, via, stray>>

\* What is on a connection goes with it, and the next one numbers anew.
DeliverLinkStep(p) ==
  LET cut == conn[p] \in {"open", "unbinding"} /\ conn'[p] = "closed" IN
    /\ running
    /\ ListStep(p)
    /\ served' = IF cut THEN [served EXCEPT ![p] = 0] ELSE served
    /\ unread' = IF cut THEN {r \in unread : r.peer # p} ELSE unread
    /\ awaited' = IF cut THEN {a \in awaited : a.peer # p} ELSE awaited
    /\ via' = IF cut THEN [m \in Msg |-> IF via[m] = p THEN NoPeer ELSE via[m]] ELSE via
    /\ UNCHANGED <<info, back, running, answers, took, ignored, doubled, stray>>

-----------------------------------------------------------------------------

DeliverInit ==
  /\ ListInit
  /\ served = [p \in Peer |-> 0]
  /\ unread = {} /\ awaited = {}
  /\ info = [m \in Msg |-> NoInfo]
  /\ Esme!Init
  /\ running = TRUE
  /\ answers = [m \in Msg |-> << >>]
  /\ took = [m \in Msg |-> NoMsg]
  /\ ignored = {} /\ stray = {} /\ doubled = {}
  /\ via = [m \in Msg |-> NoPeer]

DeliverNext ==
  \/ \E p \in Peer : DeliverClose(p) \/ DeliverLinkStep(p)
                     \/ \E m \in Msg : ServerSends(p, m)
                     \/ \E n \in Name : DeliverBind(p, n)
  \/ \E r \in unread : ReceiveUnknown(r) \/ ReceiveRefused(r) \/ ReceiveAccepted(r)
                       \/ ReceiveDropped(r) \/ ReceiveThrows(r)
  \/ \E m \in Msg : EsmeSettles(m)

DeliverSpec == DeliverInit /\ [][DeliverNext]_deliverVars

-----------------------------------------------------------------------------
(* Properties.                                                             *)

\* The variables have their types.
DeliverTypeOK ==
  /\ ListTypeOK
  /\ served \in [Peer -> 0 .. MaxSequence]
  /\ unread \cup awaited \subseteq [peer : Peer, key : 0 .. MaxSequence, msg : Msg]
  /\ info \in [Msg -> [name : Name, key : 0 .. MaxSequence] \cup {NoInfo}]
  /\ Esme!TypeOK
  /\ running \in BOOLEAN
  /\ answers \in [Msg -> Seq(Outcome)]
  /\ took \in [Msg -> Msg \cup {NoMsg}]
  /\ via \in [Msg -> Peer \cup {NoPeer}]
  /\ ignored \subseteq Msg /\ stray \subseteq Msg /\ doubled \subseteq Name

\* The numbers of a server do not wrap while a connection lasts: the next one
\* starts anew, and only a wrap, after 2^32 - 1 requests, goes back before.
NumbersLast ==
  [][\A p \in Peer : served'[p] < served[p] => conn'[p] = "closed"]_<<served, conn>>

\* As long as they do not, an answer that finds no client, and is counted as
\* sent, or that a server takes for another deliver's, is one whose own
\* connection had closed before, or whose server shared its name with another;
\* every other answer that is sent arrives as its own deliver's.
AnswersFit ==
  /\ \A m \in Msg : took[m] \in {NoMsg, m} \cup stray
  /\ \A m \in Answered \ stray :
       /\ answers[m][1] # "nowhere"
       /\ answers[m][1] = "sent" => took[m] = m \/ took[m] \in stray

\* What the server has seen of a deliver.
DeliverStatus(m) ==
  IF Len(answers[m]) > 1 THEN "answered twice"
  ELSE IF took[m] = m THEN "answered"
  ELSE IF m \in Answered \cup ignored \/ back[m] = "lost" THEN "lost"
  ELSE IF m \in Received THEN "accepted" ELSE "new"

DeliveryStatus == [m \in Msg |-> DeliverStatus(m)]

Delivery == INSTANCE RequestReply WITH Request <- Msg, status <- DeliveryStatus

\* The path back and forth, with the ESME's side, is the request/reply service
\* for the servers of pinex: a deliver is answered once or lost, never both.
DeliverPathService == Delivery!SafeSpec

=============================================================================
