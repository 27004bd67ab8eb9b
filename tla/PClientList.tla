---------------------------- MODULE PClientList ----------------------------
(***************************************************************************)
(* The client side of a pinex link: a p_client_list with one p_client per  *)
(* configured address, each with its net/client (connect, bind, retry),    *)
(* the session it is bound with and its expirator.  The module holds the   *)
(* library's part of every handler; the owner of the list (pinex,          *)
(* paper_client) adds its own part in the module that EXTENDS this one.    *)
(*                                                                         *)
(* The expirator is kept as the ticks an entry has left: the difference    *)
(* between its index and the expirator's (module ExternalClient has the    *)
(* indices themselves).                                                    *)
(***************************************************************************)
EXTENDS Integers, Sequences, FiniteSets

CONSTANTS
  Peer,          \* the addresses of the list: one p_client each
  Name,          \* system ids that servers bind with
  Names,         \* Names[p]: those of the servers found at address p
  Msg,           \* requests the owner sends
  Timeout,       \* timeout_sec_, in ticks
  MaxSequence,   \* sequence_number_ is a uint32_t: it wraps to 0 after this
  AutoReconnect, \* auto_reconnect_
  NoPeer,        \* "no p_client"
  NoName         \* the empty system id

ASSUME ListAssumption ==
  /\ Names \in [Peer -> SUBSET Name]
  /\ Timeout \in Nat /\ MaxSequence \in Nat \ {0}
  /\ AutoReconnect \in BOOLEAN
  /\ NoPeer \notin Peer /\ NoName \notin Name

VARIABLES
  conn,     \* what each p_client's net/client and session are doing
  server,   \* server_id_ of each p_client
  seq,      \* sequence_number_ of its session
  clients,  \* binded_clients_ of the list
  tracked,  \* packet_expirator_ of each p_client
  wire      \* stream requests a server holds and may still answer

listVars == <<conn, server, seq, clients, tracked, wire>>

\* "connecting": async_connect is under way; "retrying": the 5 s timer runs;
\* "binding": bind_request sent; "accepted": bind_resp came, on_bind is
\* deferred and the session paused; "open", "unbinding": bound; "closed":
\* close() ran, its posted handler has not; "failed": refused or closed
\* during binding; "stopped": closed, without auto_reconnect_.
ConnState == {"connecting", "retrying", "binding", "accepted", "open",
              "unbinding", "closed", "failed", "stopped"}

\* The p_clients that hold a binded_session_.
Bound == {p \in Peer : conn[p] \in {"open", "unbinding", "closed"}}

Keys(p) == {e.key : e \in tracked[p]}

-----------------------------------------------------------------------------
(* net/client: connect, bind, retry.                                       *)

\* on_connect: a new session numbers from 1, and the bind_request takes 1.
Connect(p) ==
  /\ conn[p] = "connecting"
  /\ conn' = [conn EXCEPT ![p] = "binding"]
  /\ seq' = [seq EXCEPT ![p] = 1]
  /\ UNCHANGED <<server, clients, tracked, wire>>

\* do_connect failed: do_set_retry_timer.
ConnectFails(p) ==
  /\ conn[p] = "connecting"
  /\ conn' = [conn EXCEPT ![p] = "retrying"]
  /\ UNCHANGED <<server, seq, clients, tracked, wire>>

\* The retry timer.
Retry(p) ==
  /\ conn[p] = "retrying"
  /\ conn' = [conn EXCEPT ![p] = "connecting"]
  /\ UNCHANGED <<server, seq, clients, tracked, wire>>

\* on_binding_session_response, accepted: the session is paused and on_bind
\* deferred.
BindAccepted(p) ==
  /\ conn[p] = "binding"
  /\ conn' = [conn EXCEPT ![p] = "accepted"]
  /\ UNCHANGED <<server, seq, clients, tracked, wire>>

\* The bind is rejected, or the session closes first: on_error prints.
BindFails(p) ==
  /\ conn[p] = "binding"
  /\ conn' = [conn EXCEPT ![p] = "failed"]
  /\ UNCHANGED <<server, seq, clients, tracked, wire>>

\* Mutant: the list is not told.
ListBindUntold(p, n) ==
  /\ conn[p] = "accepted"
  /\ n \in Names[p]
  /\ conn' = [conn EXCEPT ![p] = "open"]
  /\ server' = [server EXCEPT ![p] = n]
  /\ UNCHANGED <<seq, clients, tracked, wire>>

\* p_client::on_bind and p_client_list::on_bind: an insert into the map of
\* bound clients does nothing when the server's name is already there.
ListBind(p, n) ==
  /\ conn[p] = "accepted"
  /\ n \in Names[p]
  /\ conn' = [conn EXCEPT ![p] = "open"]
  /\ server' = [server EXCEPT ![p] = n]
  /\ clients' = [clients EXCEPT ![n] = IF @ = NoPeer THEN p ELSE @]
  /\ UNCHANGED <<seq, tracked, wire>>

-----------------------------------------------------------------------------
(* net/session, once bound.                                                *)

\* consume_request_pdu: the server unbinds.
PeerUnbind(p) ==
  /\ conn[p] = "open"
  /\ conn' = [conn EXCEPT ![p] = "unbinding"]
  /\ UNCHANGED <<server, seq, clients, tracked, wire>>

\* session::close, on any error or an unbind_resp; its handler is posted.
SessionClose(p) ==
  /\ conn[p] \in {"open", "unbinding"}
  /\ conn' = [conn EXCEPT ![p] = "closed"]
  /\ wire' = {r \in wire : r.peer # p}
  /\ UNCHANGED <<server, seq, clients, tracked>>

\* Mutants: the bound client stays in the map; it is not started again.
ListCloseKeeps(p) ==
  /\ conn[p] = "closed"
  /\ conn' = [conn EXCEPT ![p] = IF AutoReconnect THEN "connecting" ELSE "stopped"]
  /\ UNCHANGED <<server, seq, clients, tracked, wire>>
ListCloseStops(p) ==
  /\ conn[p] = "closed"
  /\ conn' = [conn EXCEPT ![p] = "stopped"]
  /\ clients' = [clients EXCEPT ![server[p]] = NoPeer]
  /\ UNCHANGED <<server, seq, tracked, wire>>

\* p_client::on_session_close and p_client_list::on_session_close: the name
\* is erased, whoever it stands for; what is tracked stays.
ListClose(p) ==
  /\ conn[p] = "closed"
  /\ conn' = [conn EXCEPT ![p] = IF AutoReconnect THEN "connecting" ELSE "stopped"]
  /\ clients' = [clients EXCEPT ![server[p]] = NoPeer]
  /\ UNCHANGED <<server, seq, tracked, wire>>

-----------------------------------------------------------------------------
(* Requests of the owner.                                                  *)

\* session::next_sequence_number: the comparison with 0xFFFFFFFF never holds.
NextSeq(p) == (seq[p] + 1) % (MaxSequence + 1)

\* expirator::add, with its silent insert.
Track(p, m) ==
  tracked' = [tracked EXCEPT ![p] =
                IF NextSeq(p) \in Keys(p) THEN @
                ELSE @ \cup {[key |-> NextSeq(p), msg |-> m, left |-> Timeout]}]

\* Mutant: the request is sent and not tracked.
ListSendUntracked(p, m) ==
  /\ conn[p] = "open"
  /\ seq' = [seq EXCEPT ![p] = NextSeq(p)]
  /\ wire' = wire \cup {[peer |-> p, key |-> NextSeq(p), msg |-> m]}
  /\ UNCHANGED <<conn, server, clients, tracked>>

\* p_client::send_request on an open session.
ListSend(p, m) ==
  /\ conn[p] = "open"
  /\ seq' = [seq EXCEPT ![p] = NextSeq(p)]
  /\ wire' = wire \cup {[peer |-> p, key |-> NextSeq(p), msg |-> m]}
  /\ Track(p, m)
  /\ UNCHANGED <<conn, server, clients>>

\* p_client::send_request on any other session: send_impl throws when the
\* number is taken.
ListSendFails(p) ==
  /\ conn[p] \in {"unbinding", "closed"}
  /\ seq' = [seq EXCEPT ![p] = NextSeq(p)]
  /\ UNCHANGED <<conn, server, clients, tracked, wire>>

\* p_client::on_session_response, before the owner's handler.
ListResponse(r) ==
  /\ r \in wire
  /\ conn[r.peer] = "open"
  /\ wire' = wire \ {r}
  /\ tracked' = [tracked EXCEPT ![r.peer] = {e \in @ : e.key # r.key}]
  /\ UNCHANGED <<conn, server, seq, clients>>

\* The entries whose index has come.
Due(p) == {e \in tracked[p] : e.left = 0}

\* expirator::on_timer, before the owner's timeout handler.
ListTimer(p) ==
  /\ tracked' = [tracked EXCEPT ![p] =
                   {[e EXCEPT !.left = @ - 1] : e \in tracked[p] \ Due(p)}]
  /\ UNCHANGED <<conn, server, seq, clients, wire>>

-----------------------------------------------------------------------------

\* The constructors: every p_client starts connecting.
ListInit ==
  /\ conn = [p \in Peer |-> "connecting"]
  /\ server = [p \in Peer |-> NoName]
  /\ seq = [p \in Peer |-> 0]
  /\ clients = [n \in Name |-> NoPeer]
  /\ tracked = [p \in Peer |-> {}]
  /\ wire = {}

\* What happens on the link without the owner's knowledge.
ListStep(p) == Connect(p) \/ ConnectFails(p) \/ Retry(p) \/ BindAccepted(p)
               \/ BindFails(p) \/ PeerUnbind(p) \/ SessionClose(p)

ListEntry == [key : 0 .. MaxSequence, msg : Msg, left : 0 .. Timeout]

ListTypeOK ==
  /\ conn \in [Peer -> ConnState]
  /\ server \in [Peer -> Name \cup {NoName}]
  /\ seq \in [Peer -> 0 .. MaxSequence]
  /\ clients \in [Name -> Peer \cup {NoPeer}]
  /\ tracked \in [Peer -> SUBSET ListEntry]
  /\ \A p \in Peer : \A e, f \in tracked[p] : e.key = f.key => e = f
  /\ wire \subseteq [peer : Peer, key : 0 .. MaxSequence, msg : Msg]

=============================================================================
