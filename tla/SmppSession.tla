----------------------------- MODULE SmppSession ----------------------------
(***************************************************************************)
(* One pa::smpp::session of the server: its socket's reads and writes, the *)
(* receive loop with its pause and resume, the inactivity and enquire_link *)
(* timers, unbinding and closing.  Around it: the server that binds it,    *)
(* the sgw_external_client that owns it once bound (with the timer of its  *)
(* receive_flow_control_), and a peer that sends well-formed PDUs in any   *)
(* order; a command_length shorter than the header or longer than the      *)
(* buffer is left out.                                                     *)
(*                                                                         *)
(* Time advances in ticks when no handler is due: the io_context is not    *)
(* overloaded.  Handlers of one tick run in any order.  The buffers to be  *)
(* written are counts of PDUs, kept up to a bound.                         *)
(***************************************************************************)
EXTENDS Integers, Sequences

CONSTANTS
  InactivityEvery,  \* inactivity_threshold_, in ticks
  EnquireEvery,     \* enquirelink_threshold_, in ticks
  Chunk,            \* bound: PDUs that one receive completes
  Backlog           \* bound: PDUs counted in a send buffer

ASSUME SessionAssumption ==
  /\ InactivityEvery \in Nat \ {0} /\ EnquireEvery \in Nat \ {0}
  /\ Chunk \in Nat /\ Backlog \in Nat \ {0}

VARIABLES
  st,          \* state_
  rcv,         \* receiving_state_
  role,        \* whose handlers the session has
  at,          \* idle, inside do_receive's loop, or the process is down
  buf,         \* complete PDUs in receive_buf_
  reads,       \* async_receive's outstanding
  writing,     \* PDUs in writing_send_buf_
  pending,     \* PDUs in pending_send_buf_
  writes,      \* async_write's outstanding
  inactive,    \* inactivity_counter_
  enquired,    \* enquirelink_counter_, up to 1
  inactLeft,   \* ticks the inactivity timer has left, or Off
  enqLeft,     \* ticks the enquire_link timer has left, or Off, Aborted
  posted,      \* close handlers posted
  told,        \* history: close handlers run
  resumeArmed, \* the flow control's timer runs
  stopped,     \* the owner has called unbind(true)
  asked        \* history: an enquire_link went out since the last receive

receiving   == <<rcv, at, buf, reads>>
sending     == <<writing, pending, writes>>
timers      == <<inactive, enquired, inactLeft, enqLeft>>
closing     == <<posted, told>>
owner       == <<resumeArmed, stopped>>
sessionVars == <<st, role, receiving, sending, timers, closing, owner, asked>>

Off == -1
Aborted == -2

\* What the peer may send: "enquire" stands for every request the session
\* answers by itself, "response" for those with no effect on the session.
Pdu == {"bind", "submit", "enquire", "response", "unbind", "unbind_resp"}

Chunks == UNION {[1 .. n -> Pdu] : n \in 0 .. Chunk}

-----------------------------------------------------------------------------
(* Sending and closing.                                                    *)

\* Mutant: no look whether a write is under way.
WriteAtOnce ==
  /\ writing' = 1 /\ pending' = 0
  /\ writes' = writes + 1

\* send_impl, send_command and do_send: one async_write at a time takes all
\* that is pending.
Write ==
  IF writing > 0
  THEN /\ pending' = IF pending < Backlog THEN pending + 1 ELSE pending
       /\ UNCHANGED <<writing, writes>>
  ELSE /\ writing' = pending + 1 /\ pending' = 0
       /\ writes' = writes + 1

\* close(): the handler is posted.
Close ==
  /\ st' = "close"
  /\ posted' = IF st = "close" THEN posted ELSE posted + 1

\* do_unset_enquirelink_timer: a handler that is already queued runs as if
\* nothing had happened; one that waits runs with an error.
CancelEnquire ==
  \/ /\ enqLeft >= 0
     /\ enqLeft' = Aborted
  \/ /\ enqLeft <= 0
     /\ UNCHANGED enqLeft

-----------------------------------------------------------------------------
(* The owner, and its flow control's wait.                                 *)

\* pause_receiving
Pause ==
  /\ rcv' = IF rcv = "receiving" THEN "pending_pause" ELSE rcv
  /\ resumeArmed' = TRUE

\* process_submit_req: an answer at once, or not; the flow control pauses
\* every session of the client, or not.
Submit ==
  /\ Write \/ UNCHANGED sending
  /\ Pause \/ UNCHANGED <<rcv, resumeArmed>>

\* server::on_binding_session_request with the gateway's authentication.
Authenticate(accepted) ==
  /\ Write
  /\ enqLeft' = EnquireEvery
  /\ role' = IF accepted THEN "bound" ELSE "refused"

-----------------------------------------------------------------------------
(* do_receive.                                                             *)

\* The completion of async_receive.
Receive(chunk) ==
  /\ at = "idle"
  /\ reads > 0 /\ st # "close"
  /\ reads' = reads - 1
  /\ buf' = buf \o chunk
  /\ inactive' = 0
  /\ enquired' = IF st = "open" THEN 0 ELSE enquired
  /\ asked' = FALSE
  /\ at' = "loop"
  /\ UNCHANGED <<st, rcv, role, sending, inactLeft, enqLeft, closing, owner>>

\* The completion with an error: the peer closed, or close() ran.
ReceiveFails ==
  /\ at = "idle"
  /\ reads > 0
  /\ reads' = reads - 1
  /\ Close
  /\ UNCHANGED <<rcv, at, buf, role, sending, timers, told, owner, asked>>

\* consume_response_pdu and consume_request_pdu: a PDU with no effect.
ConsumeOther ==
  /\ \/ Head(buf) = "response"
     \/ Head(buf) = "bind" /\ (st # "open" \/ role # "binding")
     \/ Head(buf) = "submit" /\ (st # "open" \/ role # "bound")
  /\ UNCHANGED <<st, role, rcv, sending, enqLeft, posted, resumeArmed>>

ConsumeCommand ==
  /\ \/ Head(buf) = "enquire" /\ UNCHANGED <<st, posted>> /\ Write
     \/ Head(buf) = "unbind" /\ Write /\ UNCHANGED posted
        /\ st' = IF st = "open" THEN "unbinding" ELSE st
     \/ Head(buf) = "unbind_resp" /\ Close /\ UNCHANGED sending
  /\ UNCHANGED <<role, rcv, enqLeft, resumeArmed>>

ConsumeBind ==
  /\ Head(buf) = "bind"
  /\ st = "open" /\ role = "binding"
  /\ \E accepted \in BOOLEAN : Authenticate(accepted)
  /\ UNCHANGED <<st, rcv, posted, resumeArmed>>

ConsumeSubmit ==
  /\ Head(buf) = "submit"
  /\ st = "open" /\ role = "bound"
  /\ Submit
  /\ UNCHANGED <<st, role, enqLeft, posted>>

\* An iteration of the loop, which goes on while the session receives, closed
\* or not.
Consume ==
  /\ at = "loop"
  /\ rcv = "receiving" /\ buf # << >>
  /\ ConsumeOther \/ ConsumeCommand \/ ConsumeBind \/ ConsumeSubmit
  /\ buf' = Tail(buf)
  /\ UNCHANGED <<at, reads, inactive, enquired, inactLeft, told, stopped, asked>>

\* remote_endpoint() of a connection that is gone throws in the server's
\* handler; nothing between there and main catches.
BindThrows ==
  /\ at = "loop"
  /\ rcv = "receiving" /\ buf # << >>
  /\ Head(buf) = "bind"
  /\ st = "open" /\ role = "binding"
  /\ at' = "down"
  /\ UNCHANGED <<st, role, rcv, buf, reads, sending, timers, closing, owner, asked>>

\* The end of the loop: paused, or the next async_receive.
LoopEnds ==
  /\ at = "loop"
  /\ rcv # "receiving" \/ buf = << >>
  /\ IF rcv = "pending_pause"
     THEN rcv' = "paused" /\ UNCHANGED reads
     ELSE reads' = reads + 1 /\ UNCHANGED rcv
  /\ at' = "idle"
  /\ UNCHANGED <<st, role, buf, sending, timers, closing, owner, asked>>

-----------------------------------------------------------------------------
(* Other handlers.                                                         *)

\* The completion of async_write, and what was appended meanwhile.
WriteDone ==
  /\ at = "idle"
  /\ writes > 0 /\ st # "close"
  /\ writing' = pending /\ pending' = 0
  /\ writes' = IF pending > 0 THEN writes ELSE writes - 1
  /\ UNCHANGED <<st, role, receiving, timers, closing, owner, asked>>

WriteFails ==
  /\ at = "idle"
  /\ writes > 0
  /\ writes' = writes - 1
  /\ Close
  /\ UNCHANGED <<role, receiving, writing, pending, timers, told, owner, asked>>

\* Mutant: the timer is not set again.
InactivityOnce ==
  /\ at = "idle"
  /\ inactLeft = 0
  /\ inactLeft' = Off
  /\ \/ inactive >= 1 /\ Close /\ UNCHANGED inactive
     \/ inactive = 0 /\ inactive' = 1 /\ UNCHANGED <<st, posted>>
  /\ UNCHANGED <<role, receiving, sending, enquired, enqLeft, told, owner, asked>>

\* do_set_inactivity_timer: the second time in a row closes.
InactivityTimer ==
  /\ at = "idle"
  /\ inactLeft = 0
  /\ \/ /\ inactive >= 1
        /\ Close
        /\ inactLeft' = Off
        /\ UNCHANGED inactive
     \/ /\ inactive = 0
        /\ inactive' = 1
        /\ inactLeft' = InactivityEvery
        /\ UNCHANGED <<st, posted>>
  /\ UNCHANGED <<role, receiving, sending, enquired, enqLeft, told, owner, asked>>

\* Mutant: nothing is sent.
EnquireSilent == UNCHANGED <<sending, asked>>

\* The second time in a row an open session sends an enquire_link.
Enquire ==
  IF enquired >= 1 /\ st = "open"
  THEN Write /\ asked' = TRUE
  ELSE UNCHANGED <<sending, asked>>

\* do_set_enquirelink_timer
EnquireTimer ==
  /\ at = "idle"
  /\ \/ /\ enqLeft = 0
        /\ Enquire
        /\ enquired' = 1
        /\ enqLeft' = EnquireEvery
        /\ UNCHANGED <<st, posted>>
     \/ /\ enqLeft = Aborted
        /\ Close
        /\ enqLeft' = Off
        /\ UNCHANGED <<sending, enquired, asked>>
  /\ UNCHANGED <<role, receiving, inactive, inactLeft, told, owner>>

\* The posted handler: on_session_close of the owner or of the server, then
\* the handlers are dropped.
ClosePosted ==
  /\ at = "idle"
  /\ posted > 0
  /\ posted' = posted - 1
  /\ told' = told + 1
  /\ role' = "gone"
  /\ CancelEnquire
  /\ UNCHANGED <<st, receiving, sending, inactive, enquired, inactLeft, owner, asked>>

\* session::send of a deliver_sm or of a response.
OwnerSends ==
  /\ at = "idle"
  /\ role = "bound" /\ st = "open"
  /\ Write
  /\ UNCHANGED <<st, role, receiving, timers, closing, owner, asked>>

\* A submit on another session of the client pauses this one too.
OwnerPauses ==
  /\ at = "idle"
  /\ role = "bound"
  /\ Pause
  /\ UNCHANGED <<st, role, at, buf, reads, sending, timers, closing, stopped, asked>>

\* Mutant: a session whose read is under way is left to pause.
ResumeOnlyPaused ==
  /\ rcv' = IF rcv = "paused" THEN "receiving" ELSE rcv
  /\ at' = IF rcv = "paused" THEN "loop" ELSE at

\* resume_receiving: only a session that did pause starts to receive.
Resume ==
  /\ rcv' = "receiving"
  /\ at' = IF rcv = "paused" THEN "loop" ELSE at

\* The flow control's timer: it resumes the sessions the client still has.
FlowTimer ==
  /\ at = "idle"
  /\ resumeArmed
  /\ resumeArmed' = FALSE
  /\ IF role = "bound" THEN Resume ELSE UNCHANGED <<rcv, at>>
  /\ UNCHANGED <<st, role, buf, reads, sending, timers, closing, stopped, asked>>

\* sgw_external_client::stop: unbind(true).
OwnerStops ==
  /\ at = "idle"
  /\ role = "bound" /\ ~stopped
  /\ stopped' = TRUE
  /\ IF st = "open"
     THEN st' = "unbinding" /\ CancelEnquire
     ELSE UNCHANGED <<st, enqLeft>>
  /\ UNCHANGED <<role, receiving, sending, inactive, enquired, inactLeft, closing,
                 resumeArmed, asked>>

\* Time passes; the flow control's wait is of any length.
Tick ==
  /\ at = "idle"
  /\ inactLeft # 0 /\ enqLeft \notin {0, Aborted} /\ posted = 0
  /\ inactLeft' = IF inactLeft > 0 THEN inactLeft - 1 ELSE inactLeft
  /\ enqLeft' = IF enqLeft > 0 THEN enqLeft - 1 ELSE enqLeft
  /\ UNCHANGED <<st, role, receiving, sending, inactive, enquired, closing, owner,
                 asked>>

-----------------------------------------------------------------------------

\* on_accept and start(): the first read is under way.
Init ==
  /\ st = "open" /\ role = "binding" /\ rcv = "receiving" /\ at = "idle"
  /\ buf = << >> /\ reads = 1
  /\ writing = 0 /\ pending = 0 /\ writes = 0
  /\ inactive = 0 /\ enquired = 0
  /\ inactLeft = InactivityEvery /\ enqLeft = Off
  /\ posted = 0 /\ told = 0
  /\ resumeArmed = FALSE /\ stopped = FALSE /\ asked = FALSE

Received == \E chunk \in Chunks : Receive(chunk)

Next ==
  \/ Received \/ ReceiveFails \/ Consume \/ BindThrows \/ LoopEnds
  \/ WriteDone \/ WriteFails \/ InactivityTimer \/ EnquireTimer \/ ClosePosted
  \/ OwnerSends \/ OwnerPauses \/ FlowTimer \/ OwnerStops \/ Tick

SafeSpec == Init /\ [][Next]_sessionVars

\* The io_context runs what is ready, and time goes on.
Fairness ==
  /\ WF_sessionVars(Consume) /\ WF_sessionVars(LoopEnds)
  /\ WF_sessionVars(InactivityTimer) /\ WF_sessionVars(EnquireTimer)
  /\ WF_sessionVars(ClosePosted) /\ WF_sessionVars(FlowTimer)
  /\ WF_sessionVars(Tick)

Spec == SafeSpec /\ Fairness

-----------------------------------------------------------------------------
(* Properties.                                                             *)

\* The variables have their types.
TypeOK ==
  /\ st \in {"open", "unbinding", "close"}
  /\ rcv \in {"receiving", "pending_pause", "paused"}
  /\ role \in {"binding", "bound", "refused", "gone"}
  /\ at \in {"idle", "loop", "down"}
  /\ buf \in Seq(Pdu)
  /\ reads \in Nat /\ writes \in Nat
  /\ writing \in 0 .. Backlog + 1 /\ pending \in 0 .. Backlog
  /\ inactive \in 0 .. 1 /\ enquired \in 0 .. 1
  /\ inactLeft \in {Off} \cup 0 .. InactivityEvery
  /\ enqLeft \in {Off, Aborted} \cup 0 .. EnquireEvery
  /\ posted \in Nat /\ told \in Nat
  /\ resumeArmed \in BOOLEAN /\ stopped \in BOOLEAN /\ asked \in BOOLEAN

\* Whatever pauses, resumes, writes and closes meet: one async_receive and
\* one async_write at a time (a second one would use the same buffer), and
\* the owner is told of the close once.
Exclusive == reads <= 1 /\ writes <= 1 /\ posted + told <= 1

\* As long as a session is not closed, it waits for its peer or for a flow
\* control timer that runs, and what is to be sent has a write under way.
NothingStalls ==
  st # "close" =>
    /\ rcv # "receiving" => resumeArmed
    /\ at = "idle" /\ reads = 0 => rcv = "paused"
    /\ pending > 0 \/ writing > 0 => writes > 0

\* An open bound session is closed for inactivity only when it has sent an
\* enquire_link since it last received something: it needs thresholds with
\* 2 * EnquireEvery < InactivityEvery.
AskedFirst ==
  [][role = "bound" /\ st = "open" /\ inactLeft = 0 /\ inactLeft' = Off => asked]_sessionVars

\* A session whose peer falls silent is closed and its owner told, whether it
\* is bound, refused, unbinding, or paused at that time.
SilentCloses ==
  <>[][~Received]_sessionVars => <>(told > 0 \/ at = "down")

\* "close connection and stop the client" (sgw_external_client.h:23): once
\* the owner has stopped, the connection is closed.
StopCloses == stopped ~> st = "close"

=============================================================================
