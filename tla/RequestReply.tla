---------------------------- MODULE RequestReply ----------------------------
(***************************************************************************)
(* What the gateway promises for a request it takes over from one side and *)
(* has to settle: a deliver_sm that came over pinex and is owed a          *)
(* Deliver_Sm_Resp, or a submit_sm that came from an ESME and is owed a    *)
(* submit_sm_resp.  A request is accepted once, it is answered at most     *)
(* once, and a request that is neither answered nor given up is still      *)
(* being worked on.  One handler may settle many requests (expire_all, a   *)
(* timer tick), so the actions take sets.                                  *)
(***************************************************************************)
CONSTANT Request

VARIABLE status   \* what the requester has seen of each request

Status == {"new", "accepted", "answered", "lost"}

TypeOK == status \in [Request -> Status]

Init == status = [r \in Request |-> "new"]

Move(S, from, to) ==
  /\ S # {}
  /\ \A r \in S : status[r] \in from
  /\ status' = [r \in Request |-> IF r \in S THEN to ELSE status[r]]

Accept(S) == Move(S, {"new"}, "accepted")

\* An error path may answer in the handler that received the request.
Answer(S) == Move(S, {"new", "accepted"}, "answered")

Lose(S) == Move(S, {"new", "accepted"}, "lost")

\* One handler answers some and gives up others.
Settle(A, L) ==
  /\ A # {} /\ L # {} /\ A \cap L = {}
  /\ \A r \in A \cup L : status[r] \in {"new", "accepted"}
  /\ status' = [r \in Request |-> IF r \in A THEN "answered"
                                 ELSE IF r \in L THEN "lost" ELSE status[r]]

Next ==
  \/ \E S \in SUBSET Request : Accept(S) \/ Answer(S) \/ Lose(S)
  \/ \E A, L \in SUBSET Request : Settle(A, L)

SafeSpec == Init /\ [][Next]_status

\* An accepted request does not stay open for ever.
AllSettled ==
  \A r \in Request : status[r] = "accepted" ~> status[r] \in {"answered", "lost"}

Spec == SafeSpec /\ AllSettled

=============================================================================
