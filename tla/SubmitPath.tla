----------------------------- MODULE SubmitPath -----------------------------
(***************************************************************************)
(* What becomes of a submit_sm: sgw_external_client takes it from a        *)
(* session of an ESME, paper_client has a policy server look at it (its    *)
(* p_client_list is the PClientList this module extends), pinex sends it   *)
(* on, and the ESME gets a submit_sm_resp.                                 *)
(*                                                                         *)
(* pinex is the abstract service RequestReply here: module PinexLink shows *)
(* that the real one implements it.                                        *)
(***************************************************************************)
EXTENDS PClientList

CONSTANTS
  Session,    \* sessions of ESMEs
  Checked,    \* those of clients whose policy_commands_ are not empty
  NoSession,  \* "no session"
  NoMsg       \* "no message"

\* A map is ordered by its keys: system ids are numbers here.
ASSUME PathAssumption ==
  /\ Name \subseteq Nat
  /\ Checked \subseteq Session
  /\ NoSession \notin Session
  /\ NoMsg \notin Msg

VARIABLES
  cursor,     \* last_index_ of the policy servers' p_client_list
  paperData,  \* paper_client::user_data_
  back,       \* what pinex is doing with each submit (RequestReply)
  sess,       \* state of each ESME session
  running,    \* the process has not ended: neither has an exception left
              \* io_context::run(), nor was std::terminate called
  origin,     \* originating_session_ of each submit
  answers,    \* history: submit_sm_resp's of each submit
  approval,   \* history: the submit whose verdict sent each one on
  ignored,    \* history: given up without a response
  shadowed,   \* history: sent to a policy server under a key that was taken
  unparsed,   \* history: waiting in user_data_ without a timeout
  gone        \* history: a policy server left since the cursor moved

esme     == <<sess, origin>>
history  == <<answers, approval, ignored, shadowed, unparsed, gone>>
pathVars == <<listVars, cursor, paperData, back, running, esme, history>>

Back == INSTANCE RequestReply WITH Request <- Msg, status <- back

Answer == [status : {"throttled", "syserr", "rejected", "timeout", "backend"},
           delivered : BOOLEAN]

Received    == {m \in Msg : origin[m] # NoSession}
Answered    == {m \in Msg : answers[m] # << >>}
UnderPolicy == {d.msg : d \in paperData}

-----------------------------------------------------------------------------
(* submit_sm_resp's.                                                       *)

\* send_submit_resp: a session that is not open any more throws, which is
\* caught and logged.
Respond(S, status) ==
  answers' = [m \in Msg |->
                IF m \in S
                THEN Append(answers[m], [status    |-> status,
                                         delivered |-> sess[origin'[m]] = "open"])
                ELSE answers[m]]

-----------------------------------------------------------------------------
(* on_check_policies_responce, the submit having passed: pinex takes it, or
   refuses it at once.                                                     *)

Forward(m) ==
  \/ /\ Back!Accept({m})
     /\ UNCHANGED answers
  \/ /\ Back!Answer({m})
     /\ Respond({m}, "syserr")

-----------------------------------------------------------------------------
(* paper_client::check_policies.                                           *)

BoundNames == {n \in Name : clients[n] # NoPeer}

\* The place of a name in binded_clients_.
Place(n) == Cardinality({k \in BoundNames : k < n})

\* Mutant: the cursor is not brought back into range.
MoveCursorOn == cursor' = cursor + 1 /\ gone' = FALSE

MoveCursor ==
  /\ cursor' = (cursor + 1) % Cardinality(BoundNames)
  /\ gone' = FALSE

\* Mutant: the entry that is there is overwritten.
RememberOverwrites(k, n, m) ==
  /\ paperData' = {d \in paperData : d.key # k \/ d.name # n}
                    \cup {[key |-> k, name |-> n, msg |-> m]}
  /\ UNCHANGED shadowed

\* user_data_.insert does nothing when the key is there.
Remember(k, n, m) ==
  IF \E d \in paperData : d.key = k /\ d.name = n
  THEN shadowed' = shadowed \cup {m} /\ UNCHANGED paperData
  ELSE /\ paperData' = paperData \cup {[key |-> k, name |-> n, msg |-> m]}
       /\ UNCHANGED shadowed

\* p_client_list::send_request(msg) takes the client the cursor is at.  A
\* cursor past the end is undefined: it may end up at any of them.
At(n) == n \in BoundNames /\ (cursor < Cardinality(BoundNames) => Place(n) = cursor)

\* check_policies takes the number 0 for a failure.
Usable(k) == k # 0

\* The session sends.
AskServer(m, n) ==
  LET p == clients[n] IN
    /\ At(n)
    /\ ListSend(p, m)
    /\ MoveCursor
    /\ IF Usable(NextSeq(p))
       THEN Remember(NextSeq(p), n, m) /\ UNCHANGED answers
       ELSE Respond({m}, "syserr") /\ UNCHANGED <<paperData, shadowed>>

\* The session throws, or no policy server is bound.
AskFails(m) ==
  /\ \/ BoundNames = {} /\ UNCHANGED listVars
     \/ \E n \in Name : At(n) /\ ListSendFails(clients[n])
  /\ Respond({m}, "syserr")
  /\ UNCHANGED <<cursor, gone, paperData, shadowed>>

CheckPolicies(m) ==
  /\ \/ \E n \in Name : AskServer(m, n)
     \/ AskFails(m)
  /\ UNCHANGED back

-----------------------------------------------------------------------------
(* Handlers.                                                               *)

\* The process goes down; nothing of it remains to be looked at.
Down == running' = FALSE
        /\ UNCHANGED <<listVars, cursor, paperData, back, esme, history>>

\* process_submit_req, one disjunct per way out: dropped by the flow control;
\* an invalid data coding, which returns without a response; an exception on
\* the way; without policies to pinex; with policies to a policy server.
ReceiveSubmit(m, s) ==
  /\ running
  /\ sess[s] = "open"
  /\ origin[m] = NoSession
  /\ origin' = [origin EXCEPT ![m] = s]
  /\ \/ /\ \E status \in {"throttled", "syserr"} : Respond({m}, status)
        /\ UNCHANGED <<listVars, cursor, gone, paperData, back, ignored, shadowed>>
     \/ /\ ignored' = ignored \cup {m}
        /\ UNCHANGED <<listVars, cursor, gone, paperData, back, answers, shadowed>>
     \/ /\ s \notin Checked
        /\ Forward(m)
        /\ UNCHANGED <<listVars, cursor, gone, paperData, ignored, shadowed>>
     \/ /\ s \in Checked
        /\ CheckPolicies(m)
        /\ UNCHANGED ignored
  /\ UNCHANGED <<sess, running, approval, unparsed>>

\* The same call for a session without policies, when the load balancing route
\* cannot convert the end of the destination: it does so in an operator that
\* is noexcept, so the process ends before process_submit_req could catch.
SubmitTerminates(s) ==
  /\ running
  /\ sess[s] = "open" /\ s \notin Checked
  /\ \E m \in Msg : origin[m] = NoSession
  /\ Down

\* The same call with a cursor past the end, when nothing good comes of it.
CursorOverrun(s) ==
  /\ running
  /\ sess[s] = "open" /\ s \in Checked
  /\ \E m \in Msg : origin[m] = NoSession
  /\ BoundNames # {}
  /\ cursor >= Cardinality(BoundNames)
  /\ Down

\* Mutant: the key is the sequence number alone.
FoundAnyName(k, n) == {d \in paperData : d.key = k}

\* The entry of user_data_ that process_resp finds.
Found(k, n) == {d \in paperData : d.key = k /\ d.name = n}

\* Mutant: the entry stays in user_data_.
TakeNothing(S) == UNCHANGED paperData

Take(S) == paperData' = paperData \ S

\* receive_response, which cannot be parsed: the expirator's entry is gone.
PolicyUnparsed(r) ==
  /\ running
  /\ ListResponse(r)
  /\ unparsed' = unparsed \cup {d.msg : d \in Found(r.key, server[r.peer])}
  /\ UNCHANGED <<cursor, paperData, back, running, esme, answers, approval,
                 ignored, shadowed, gone>>

\* receive_response, process_resp: not ok, or for no submit that waits.
PolicyRejects(r) ==
  LET found == Found(r.key, server[r.peer]) IN
    /\ running
    /\ ListResponse(r)
    /\ Take(found)
    /\ UNCHANGED origin
    /\ Respond({d.msg : d \in found}, "rejected")
    /\ UNCHANGED <<cursor, back, running, sess, approval, ignored, shadowed,
                   unparsed, gone>>

\* receive_response, process_resp: the submit passes.
PolicyApproves(r) ==
  /\ running
  /\ ListResponse(r)
  /\ UNCHANGED origin
  /\ \E d \in Found(r.key, server[r.peer]) :
       /\ Take({d})
       /\ Forward(d.msg)
       /\ approval' = [approval EXCEPT ![d.msg] = r.msg]
  /\ UNCHANGED <<cursor, running, sess, ignored, shadowed, unparsed, gone>>

\* The same, and sending it on ends the process: by the conversion in the load
\* balancing route, or by an exception that nothing between here and main catches.
PolicyApprovesThrows(r) ==
  /\ running
  /\ r \in wire /\ conn[r.peer] = "open"
  /\ Found(r.key, server[r.peer]) # {}
  /\ Down

\* Mutant: nothing of what is due is found.
TimedOutNone(p) == {}

\* What timeout_request finds for the entries whose index has come.
TimedOut(p) == UNION {Found(e.key, server[p]) : e \in Due(p)}

\* expirator::on_timer of a policy server's p_client.
OnPolicyTimer(p) ==
  /\ running
  /\ tracked[p] # {}
  /\ ListTimer(p)
  /\ Take(TimedOut(p))
  /\ UNCHANGED origin
  /\ Respond({d.msg : d \in TimedOut(p)}, "timeout")
  /\ UNCHANGED <<cursor, back, running, sess, approval, ignored, shadowed,
                 unparsed, gone>>

\* pinex settles a submit: submit_sm::process_resp, or it is lost there.
BackSettles(m) ==
  /\ running
  /\ back[m] = "accepted"
  /\ UNCHANGED origin
  /\ \/ Back!Answer({m}) /\ Respond({m}, "backend")
     \/ Back!Lose({m}) /\ UNCHANGED answers
  /\ UNCHANGED <<listVars, cursor, paperData, running, sess, approval, ignored,
                 shadowed, unparsed, gone>>

\* The policy servers' connections; session_state_changed sets a gauge only.
PolicyBind(p, n) ==
  /\ running
  /\ ListBind(p, n)
  /\ UNCHANGED <<cursor, paperData, back, running, esme, history>>

PolicyClose(p) ==
  /\ running
  /\ ListClose(p)
  /\ gone' = (gone \/ clients[server[p]] # NoPeer)
  /\ UNCHANGED <<cursor, paperData, back, running, esme, answers, approval,
                 ignored, shadowed, unparsed>>

PolicyLinkStep(p) ==
  /\ running
  /\ ListStep(p)
  /\ UNCHANGED <<cursor, paperData, back, running, esme, history>>

\* An ESME's session starts to unbind, or closes.
EsmeStep(s) ==
  /\ running
  /\ sess[s] = "open"
  /\ sess' = [sess EXCEPT ![s] = "gone"]
  /\ UNCHANGED <<listVars, cursor, paperData, back, running, origin, history>>

-----------------------------------------------------------------------------

\* Every session is bound from the start: one that binds later is one that
\* has sent nothing so far.
Init ==
  /\ ListInit
  /\ cursor = 0
  /\ paperData = {}
  /\ Back!Init
  /\ sess = [s \in Session |-> "open"]
  /\ running = TRUE
  /\ origin = [m \in Msg |-> NoSession]
  /\ answers = [m \in Msg |-> << >>]
  /\ approval = [m \in Msg |-> NoMsg]
  /\ ignored = {} /\ shadowed = {} /\ unparsed = {}
  /\ gone = FALSE

Next ==
  \/ \E m \in Msg, s \in Session : ReceiveSubmit(m, s)
  \/ \E s \in Session : CursorOverrun(s) \/ SubmitTerminates(s) \/ EsmeStep(s)
  \/ \E r \in wire : PolicyUnparsed(r) \/ PolicyRejects(r) \/ PolicyApproves(r)
                     \/ PolicyApprovesThrows(r)
  \/ \E p \in Peer : OnPolicyTimer(p) \/ PolicyClose(p) \/ PolicyLinkStep(p)
                     \/ \E n \in Name : PolicyBind(p, n)
  \/ \E m \in Msg : BackSettles(m)

SafeSpec == Init /\ [][Next]_pathVars

\* The expirators' timers run, and pinex settles what it took (PinexLink's
\* SubmitSettled).
Fairness ==
  /\ \A p \in Peer : WF_pathVars(OnPolicyTimer(p))
  /\ \A m \in Msg : WF_pathVars(BackSettles(m))

Spec == SafeSpec /\ Fairness

-----------------------------------------------------------------------------
(* Properties.                                                             *)

\* The variables have their types, and no key is twice in user_data_ or 0.
TypeOK ==
  /\ ListTypeOK
  /\ cursor \in Nat
  /\ paperData \subseteq [key : 1 .. MaxSequence, name : Name, msg : Msg]
  /\ \A d, e \in paperData : d.key = e.key /\ d.name = e.name => d = e
  /\ Back!TypeOK
  /\ sess \in [Session -> {"open", "gone"}]
  /\ running \in BOOLEAN /\ gone \in BOOLEAN
  /\ origin \in [Msg -> Session \cup {NoSession}]
  /\ answers \in [Msg -> Seq(Answer)]
  /\ approval \in [Msg -> Msg \cup {NoMsg}]
  /\ ignored \subseteq Msg /\ shadowed \subseteq Msg /\ unparsed \subseteq Msg

\* Every submit the gateway received is in exactly one place (waiting for a
\* verdict, with pinex, answered, ignored, shadowed, lost by pinex) and is
\* answered at most once, whatever times out, reconnects or arrives late.
Accounted ==
  \A m \in Msg :
    /\ Len(answers[m]) <= 1
    /\ m \notin Received => m \notin UnderPolicy \cup Answered \cup ignored \cup shadowed
                            /\ back[m] = "new"
    /\ m \in Received =>
         Cardinality({w \in 1 .. 6 :
           \/ w = 1 /\ m \in UnderPolicy
           \/ w = 2 /\ back[m] = "accepted"
           \/ w = 3 /\ m \in Answered
           \/ w = 4 /\ m \in ignored
           \/ w = 5 /\ m \in shadowed
           \/ w = 6 /\ back[m] = "lost"}) = 1

\* No two addresses lead to servers of one name.
OwnNames == \A p, q \in Peer : p # q => Names[p] \cap Names[q] = {}

\* sequence_number_ of no session wraps: a session number leaves 0 when it is
\* made, and only a wrap, after 2^32 - 1 requests, leads back.
NumbersKept == [][\A p \in Peer : seq[p] # 0 => seq'[p] # 0]_seq

\* A submit of a client with policies reaches pinex on a verdict only: its
\* own, or that of a submit whose entry user_data_ did not take because the
\* number, restarted by a reconnect, was that of this one.  For servers that
\* do not share a name, and as long as no session's number wraps.
SentOnVerdict ==
  OwnNames =>
    \A m \in Received : origin[m] \in Checked /\ back[m] # "new" =>
      approval[m] = m \/ approval[m] \in shadowed

\* One that the ESME was told was throttled, rejected or timed out was not
\* sent on, also when an approval came after the timeout.
ToldNotSent ==
  \A m \in Answered :
    answers[m][1].status \in {"throttled", "rejected", "timeout"} => back[m] = "new"

\* paper_client's verdicts are kept to, in what is sent on and in what the
\* ESME is told.
VerdictRespected == SentOnVerdict /\ ToldNotSent

\* What waits for a verdict has an entry in its p_client's expirator, unless
\* its verdict came and could not be parsed.  For servers that keep their
\* names.
KeepNames == \A p, q \in Peer : \A m \in Names[p], n \in Names[q] : m = n <=> p = q

PolicyTimed ==
  KeepNames =>
    \A d \in paperData :
      d.msg \in unparsed \/ \E p \in Peer : d.name \in Names[p] /\ d.key \in Keys(p)

\* The cursor points past the end of binded_clients_ only when a policy
\* server has left since it moved.
CursorKept == BoundNames # {} /\ cursor >= Cardinality(BoundNames) => gone

\* What the ESME has seen of a submit.
StatusOf(m) ==
  IF Len(answers[m]) > 1 THEN "answered twice"
  ELSE IF m \in Answered
       THEN IF answers[m][1].delivered THEN "answered" ELSE "lost"
  ELSE IF m \in ignored \cup shadowed \/ back[m] = "lost" THEN "lost"
  ELSE IF m \in Received THEN "accepted" ELSE "new"

ServiceStatus == [m \in Msg |-> StatusOf(m)]

Service == INSTANCE RequestReply WITH Request <- Msg, status <- ServiceStatus

\* The path, policy servers and pinex together, is the request/reply service
\* for the ESME.
SubmitPathService == Service!SafeSpec

\* A submit taken over is answered or given up in the end; the exceptions are
\* a verdict that could not be parsed and the end of the process, which a submit
\* that cannot be routed brings about.
SubmitSettled ==
  \A m \in Msg :
    StatusOf(m) = "accepted"
      ~> StatusOf(m) \in {"answered", "lost"} \/ m \in unparsed \/ ~running

=============================================================================
