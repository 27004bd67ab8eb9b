# A TLA+ verification project for smppgw

`smppgw` is an SMPP gateway: ESMEs (SMPP clients) connect to it over TCP, bind, and
submit messages; the gateway passes each submit to a back end over the `pinex`
protocol, optionally after asking a policy server over a second pinex link (the
"paper" client), and takes deliver requests and delivery reports from the back
end to the ESMEs. Everything runs on one `boost::asio::io_context` in one thread, so
**a handler is one step** and every difficulty comes from the order in which
handlers are dispatched: timers, posted close handlers, received PDUs,
configuration callbacks. File names below are relative to `src/`.

## 1. Inventory

| component | state it keeps | operations | talks to |
|---|---|---|---|
| `sgw_server` (`src/smpp/sgw_server.cpp`) | `ext_clients_map_`, routing matchers | `on_authenticate_request`, `on_bind`, insert/remove a client, `send_deliver`, `send_delivery_report`, `find_route` | server, external clients, pinex |
| `sgw_external_client` (`src/smpp/sgw_external_client.cpp`) | `binded_sessions_`, `send_queue_`, `packet_expirator_`, flow controls, gauges, `max_session_` | `check_permision`, `bind`, `on_session_close`, `on_session_request` (submits), `on_session_response`, `send_deliver_sm`, `send_process`, `send_submit_resp`, `stop` | sessions, `submit_sm`, `deliver_sm`, `flow_control`, `expirator` |
| `io::expirator` (`src/libs/expirator.hpp`) | `index_`, bimap `index_keys_` | `add`, `get_info`, `remove`, `expire_all`, `on_timer` | its owner, by callback |
| `io::flow_control` (`src/libs/flow_control.hpp`) | ring of counters, window, last packet times, credit windows | `check`, `wait`, `remove_past_data`, configuration | external client |
| smpp `session` (`libs/smpp/net/session.hpp`) | `state_`, `receiving_state_`, sequence number, buffers, two timers | `bind`, `unbind`, `close`, pause/resume, `send_*` | its handlers |
| smpp `server` (`libs/smpp/net/server.hpp`) | sessions that have not bound | accept, `on_binding_session_request` | `sgw_server` |
| `submit_sm`, `deliver_sm`, `delivery_report` | none (a request travels as a shared `*_info`) | `process_req`, `process_resp`, policy answers | gateway, paper, external client |
| `pinex` (`src/pinex/`) | `user_data_` (sequence@name -> submit), gauges, `router` | `send`, `receive_request`, `receive_response`, `timeout_request`, session state changes | `p_client_list`, gateway |
| `paper_client` (`src/paper/`) | its own map of pending policy checks | `check_policies`, `receive_response`, `timeout_request` | `p_client_list`, `submit_sm` |
| pinex client library (`libs/pinex/`) | `binded_clients_`, one `p_client` per address with `binded_session_`, its expirator, reconnect timer | connect, bind, reconnect, `send_request`, `send_response`, `on_session_*` | the back end, `pinex`/`paper_client` by callback |
| pinex routing (`src/routing/pinex/`) | `targets_list_`, `last_index_`, prefix tree, routing list | `add_target`, `remove_target`, `find`, `route_mapper` add/delete/find | `pinex` |
| smpp routing (`src/routing/smpp/`) | rule lists, prefix tries, bit sets | `find_target`, `add_rule`, `remove_rule` | `sgw_server` |
| `smpp_gateway`, `main`, logging, monitoring, schema | wiring | forwarding | all |

What is hard here: the posted close handlers (state is read between a close and
its handler), numbers that identify a request only within one connection, tables
whose `insert` does nothing when a key exists, reconnects that restart the numbering,
requests that must be answered exactly once whichever of response, timeout, close,
removal or failing send comes first, gauges that must match tables, and limits
tested by equality. `PROJECT.json` ("hazards") lists each at its line.

What makes each component correct:

* external client and `submit_sm`/`deliver_sm`: each request is answered at most once, by
  the answer to itself, and eventually; the session limit holds;
* pinex link: the table of waiting submits, the expirators and the set of bound
  connections agree; a connection that dies is replaced; the router names live targets only;
* session: nothing is sent or handled after close, a paused session resumes;
* flow control: never more than the limit within a window;
* routing: the matcher's answer is the answer of the list of rules it was built from.
## 2. Plan

In the order of importance; all steps are done.

| step | modules | what for |
|---|---|---|
| 1 | `RequestReply` | the promise every request path makes: accepted once, answered at most once, settled in the end |
| 2 | `ExternalClient`, `MCExternalClient`, `ExternalClientProofs` | deliver side of an ESME: sessions, queue, expirator |
| 3 | `PClientList`, `PClientListProofs` | connections of a pinex link, shared by `pinex` and the paper client |
| 4 | `PinexLink`, `MCPinexLink`, `PinexLinkProofs` | submit direction of pinex: router, `user_data_`, gauges |
| 5 | `SubmitPath`, `MCSubmitPath`, `SubmitPathProofs` | a submit from an ESME's session through the policy check (`submit_sm`, `paper_client` on a second `PClientList`) to pinex and back |
| 6 | `SmppSession`, `SmppSessionProofs` | reading, pausing, resuming, writing, both timers, unbinding and closing of one session |
| 7 | `FlowControl`, `FlowControlProofs` | the five methods of `check()` and their configuration at runtime |
| 8 | `RouteMapper`, `RoutingMatcher`, `Routing`, `MCRouting`, `RoutingProofs` | prefix tree and rule bit sets against the table or list they were built from |
| 9 | `DeliverPath` (in `Routing`), `DeliverPathProofs` | the deliver direction of pinex: a back end's request, the ESME's side as `RequestReply`, the answer by name and number |

The paths fit together through `RequestReply`: `ExternalClient` implements it for
pinex and `DeliverPath` uses it as the ESME's side; `PinexLink` implements it for
submits and `SubmitPath` uses it as the back end. So `SubmitPathService` and
`DeliverPathService` say what an ESME and a back end see of the whole gateway.

What is left for later: a client inserted at runtime; policy
servers that change their names (`SubmitPath` is checked with fixed names, its theorems hold for others, too).

## 3. The modules and the code

Numbers, names and texts are abstract: a message is a model value, a `deliver_info` or
`submit_info` is its message, and a command status is one of the few the code tells apart.
`PROJECT.json` ("map") gives the lines of every definition.

### RequestReply

The abstract specification. `status[r]` is what the requester has seen of a request:
`new`, `accepted`, `answered`, or `lost` (given up without an answer). `Accept`,
`Answer` and `Lose` take sets, because one handler may settle many requests
(`expire_all`, a tick of an expirator), and `Settle` answers some and gives up others, because
their requesters may have gone. `SafeSpec` is the safety half, `AllSettled` the
liveness half.

### ExternalClient

One `sgw_external_client` and its ESME.

* `binded`, `sess`, `seq`: `binded_sessions_`, and for each TCP session `state_` and
  `sequence_number_`. `session::close` only changes `state_` and *posts* its handler, so
  `SessionClose` and `OnSessionClose` are two actions and anything may run between them.
  A reconnect is a new member of `Session`.
* `queue`, `pending`, `index`: `send_queue_` and the bimap of `packet_expirator_`.
  `Track` is `expirator::add`, whose insert does nothing when the key is taken;
  the 64-bit index against the unsigned key of the bimap is `Slot`, arithmetic modulo
  `IndexSpan`.
* `wire`: deliver_sm PDUs the ESME holds; it may answer any of them at any time, in any
  order, with success or an error, or never.
* `accepted`, `replies`, `orphaned`, `dropped` are history: what came from pinex, what
  `deliver_sm::process_resp` was told, what was sent but not remembered, and what was
  still queued when the object was destroyed.

Actions: `Bind` (`check_permision` with its equality test against `max_session_`),
`RejectBind`, `EnquireLink` (it uses up a number), `PeerUnbind`, `SessionClose`,
`OnSessionClose` (with `expire_all` and the `responce_timeout` callbacks), `ReceiveDeliver`
(queue), `ReceiveReport` (sent at once), `SendProcess` (the flow-controlled send),
`OnResponse`, `OnLateResponse`, `OnTimer`, `SetMaxSession`, `Remove` (`stop()`, which
closes nothing that is bound), `Destroy`.

### PClientList

The client side of a pinex link as the library sees it. `conn[p]` merges
`net/client` and `net/session` into one state per address: `connecting`, `retrying`
(the 5 s timer), `binding`, `accepted` (bind_resp read, session paused, `on_bind`
deferred), `open`, `unbinding`, `closed` (handler posted), `failed`, `stopped`. `clients`
is `binded_clients_`: its insert does nothing for a name that is there, and a close
erases the name whoever it stands for. `tracked[p]` is the expirator that belongs to the
`p_client`, not to the session: it survives reconnects, while `seq[p]` starts at 1 again.
An entry holds the ticks it has left instead of an absolute index; the index arithmetic
is checked in `ExternalClient`.

### PinexLink

Extends `PClientList` with what `pinex` adds to each handler: `targets`/`lastIndex` of the
router, `userData` (key `sequence@name`), the gauges `connected_clients_` and
`wait_for_resp_`, and the history `submitted`, `answers`, `shadowed` (sent, but
`user_data_.insert` found the key taken) and `discarded` (erased by a response that is no
`AO_RESP`). `OnBind`, `OnSessionClose`, `OnResponse` and `OnTimer` are the library's part
and the owner's part in one step, as in the code; `LinkStep` is what the owner does not
see. `Send` is the whole of `pinex::send` for a submit: `Find` (the router with any
configured method), `p_client_list::send_request` with its missing name, the session that
throws, and the number 0 that is taken for a failure. The order of `targets` is any order
without repetitions, which stands for the sorted one. `SendTerminates` is the same call when the load balancing
route cannot convert the last five characters of the destination: `MyHash::operator()` is `noexcept`
(`router.cpp:124`), so the exception ends the process (`running`) and no catch is reached.

### SubmitPath

Extends a second `PClientList`, the one of the policy servers, with `process_submit_req`,
`submit_sm` and `paper_client`. pinex is the abstract service (`back`).

* `ReceiveSubmit` is `process_submit_req` with a disjunct per way out: throttled by the flow
  control, refused, returned from without a response (an unknown data coding), sent on,
  refused because something threw, or given to a policy server.
* `AskServer` is `paper_client::check_policies` with `send_request(msg)`: the client the
  `cursor` (`last_index_`) is at in the ordered map `binded_clients_`, the cursor's step modulo the size,
  the number 0 taken for a failure, and `user_data_.insert`, which does nothing when the key is there.
  The cursor is never brought back into range when a client goes; `std::advance` past the end is
  undefined, so it may end up at any client (`At`) or end the process (`CursorOverrun`).
* `PolicyApproves`, `PolicyRejects`, `PolicyUnparsed` are the outcomes of a verdict; the key is
  looked up by number and name. `OnPolicyTimer` is the timeout.
* `Respond` is `send_submit_resp`: a session that is not open any more throws, which is caught and
  logged, so that the answer counts as lost for the ESME.
* A destination that the load balancing route cannot convert ends the process (`running`), as in `PinexLink`: straight from
  the ESME with `SubmitTerminates`, whose caller's catch is not reached, and from a verdict with
  `PolicyApprovesThrows`. Any other exception is caught in `process_submit_req` (the `"syserr"` of `ReceiveSubmit`), but on the way from a
  verdict nothing before `io_context::run()` does, which is `PolicyApprovesThrows`, too.
* `approval`, `ignored`, `shadowed`, `unparsed`, `gone` are history.

### SmppSession

One `pa::smpp::session` with the server that binds it, the client that owns it and a peer
that sends well-formed PDUs in any order (section 7).

* `rcv` is `receiving_state_`, `at` says whether `do_receive`'s loop runs: `Consume` takes the PDUs of a
  receive one by one, because a pause, a close or an exception in the middle of the loop is the question.
  `reads` and `writes` count the outstanding asynchronous operations, which must not become two.
* `inactLeft` and `enqLeft` are the two timers: the inactivity timer closes at its second turn without a
  receive, the enquire_link timer sends at its second. `CancelEnquire` cancels: a timer that is already due
  (`enqLeft = 0`) runs all the same, without an error, and is set again.
* `Close` changes the state and posts; `ClosePosted` is the handler. A failed write closes, too.
* `OwnerPauses` and `FlowTimer` are the receive flow control of the client, `OwnerStops` is `stop()` with
  `unbind(true)`; `BindThrows` is `remote_endpoint()` of a socket that is already gone.

### FlowControl

`Fixed`, `Adaptive`, `Normal`, `Credit`, `LimitCredit` and `Disabled` are the branches of `check()`; a packet
passes, passes uncounted (a wait of 0, which its caller takes for none) or waits. Points in time are
kept as ages and cut off where no method tells them apart. `SetMethod`, `SetMax`, `SetWindow` and
`SetSlippage` are the observers, with all they leave alone: the window's total, the index, the packets
counted. `mode` says that a loop would not end or an index would leave its array; what comes of it is not followed.
The adaptive method keeps its period in `credit_windows_size_`, so it sets `window`. `Total` is a sum, `recent` counts the packets that
passed by their age, over the `Span` that the rates speak of.

### RouteMapper, RoutingMatcher

`RouteMapper` is the tree of `route_mapper` (a node is the path to it) behind the entry of one message type in
`routing_list`, with every operation of both: `create_sub_tree`, `find_matching` from either end, `clean_up`,
lists of routes, of which one that is refused does not stop the rest. Words are sequences over any set `Character`.
`table` is the reference: what was added and not deleted. `RoutingMatcher` is the matcher for delivers: rules of four patterns entered field by field as marks in one trie, a
match by shifting and intersecting the words of a `bit_set`, rules refused half way, ids that come again, numbers that are never
used again. `live` is the reference: the rules accepted and not removed, by their number. `Char` has the characters of the
words; the alphabet the tries take is what `Unprintable` leaves of it. `Routing` puts the two and `DeliverPath` side by
side, one at a time, so that one run checks all three.

### DeliverPath

Extends pinex's `PClientList` by the requests of the back ends. `served`, `unread`, `awaited` are the server's side of
each connection; `info` is the `deliver_info` with its `source_connection_` and number; `back` is
the ESME's side. `Reply` is `pinex::send` of a `deliver_info` down to
`p_client::send_response`: the connection is looked up by name when the answer is ready, and the number
is that of the connection the request came on. `took[x]` is the deliver whose answer the server took for x's. Two
ways in end the process: an exception of `find_target` and `extract_dr_status` reading past the end of a report.

## 4. The runs

| run | instance | states | shows |
|---|---|---|---|
| `ec_single` | 3 sessions (one at a time), 2 delivers, 1 report, timeout 2 | 731,820 | types, `BoundSessions`, `SessionLimit`, `Correlated`, `NothingOrphaned`, `DueInTime` |
| `ec_multi` | 2 sessions, limit 1 or 2 changed at runtime, 1 deliver, 1 report, timeout 1, enquire_links that take numbers, which wrap after 2 | 170,544 | `Accounted`, `WaitingDrift`, `DeliverService` (refinement of `RequestReply`), `DeliverSettled` |
| `ec_crosstalk` | 2 sessions at once, 2 delivers | stops at the violation | `Correlated` is violated |
| `pl_link` | 2 addresses with a name each, round robin, 2 submits, timeout 1, no wrap | 39,815 | `BoundReachable`, `WaitingIsTimed`, `MixedOnlyByKey`, `RouteInRange`, `SubmitSettled`, `ComesBack` |
| `pl_names` | 2 addresses, servers under any of 2 names, load balancing, prefix and broadcast routes, destinations that end the process, numbers wrap from 2 to 0 | 376,988 | types, `Accounted`, `TargetsAreClients`, `ClientsUsable`, `Gauges`, `SubmitService` |
| `pl_mixed` | 1 address, 2 submits | stops at the violation | `Correlated` is violated |
| `pl_reconnect` | 1 address, 1 submit | 84 | `Reconnects` is violated |
| `submit_path` | 2 policy servers, 2 submits, a session whose submits are checked and one whose are not, timeout 1, numbers wrap from 2 to 0 | 1,227,734 | `Accounted`, `VerdictRespected`, `PolicyTimed`, `CursorKept`, `SubmitPathService` (refinement), `SubmitSettled` |
| `smpp_session` | enquire_link every 2 ticks, inactivity 5, up to 2 PDUs per receive and in the send buffer | 595,541 | `Exclusive`, `NothingStalls`, `AskedFirst`, `SilentCloses` |
| `smpp_stop` | the same, 1 PDU per receive | stops at the violation | `StopCloses` is violated |
| `flow_control` | every method, a second of 2 ticks, 2 packets per tick, windows of 1 and 3 seconds, 1 change at runtime | 850,922 | `Sound`, `Books`, `RateKept`, `NotStarved` |
| `routing` | 5 prefixes; 4 rules in words of 5 bits; 2 back ends under any of 2 names, 2 delivers | 860,461 | `LongestWins`, `LatestWins`, `AnswersFit`, `DeliverPathService` (refinement) |

Every property of a passing run has a mutant in `PROJECT.json`: a plausible bug in one
mapped definition under which TLC finds that property violated.

**Bounds.** Two sessions at once are needed for one to answer for the other, and one that opens after the other for
a reconnect; a reconnect beside two sessions that stay is left to the theorems. Two addresses, two names and two submits let one take the key, the
name or the slot of the other, and no handler touches more than two of them at a time except
through a set (`expire_all`, a tick), for which three requests in `ec_single`
are one more than needed. A timeout of 1 or 2 ticks gives every order of response, tick and
close. `IndexSpan` is the least number above the timeout plus one or two, so that the index
wraps within the run. `MaxSequence` is small where the wrap is the question (`ec_multi`,
`pl_names`, `submit_path`), and in the other runs as large as the requests of the run can use on one session, so that it
does not wrap. `VerdictRespected` and `AnswersFit` are claimed only as long as no number comes round to the same one, for which
`submit_path` and `routing` have too few requests (their theorems have that as a hypothesis, `NumbersKept` and `NumbersLast`). The numbers of `submit_path` leave one request per connection of a policy server, so that a tick that settles two submits is covered by
the theorems alone. `EnquireBound` caps the enquire_links of a session, which take numbers as delivers do: in `ec_multi` they
bring the number of a session round to one that is still pending, so that a deliver is sent and not remembered; in the other runs of
the external client a session sends one at most, first of all, and does not wrap. In `smpp_session` two PDUs per receive let one pause or close the session before the other;
a send buffer counts up to two. In `flow_control` a second has two ticks, two packets may come in each, and one
change of the configuration reaches every field that the observers leave behind; windows of one and three seconds
are one where nothing shifts and one where the index goes round. In `routing` five prefixes share branches of which some
end inside others; four rules in words of five bits put one rule across two words. Requests are symmetric in
`ec_single` only; no run with a liveness property uses symmetry.

`CHECK_DEADLOCK FALSE` is set where the system may stop: a client that is removed and has nothing left to do
(`ExternalClient`), a process that an exception ended (`SubmitPath`, `DeliverPath`, `SmppSession`, `pl_names`), a session that is closed, a loop that does
not end (`FlowControl`). But for a submit that it cannot route the pinex link must not deadlock, and `pl_link`, which routes round robin, checks
that it does not.

**Fairness.** `ExternalClient`: weak fairness of `OnTimer` (the expirator re-arms its timer)
and of `SendProcess` (re-armed as long as the queue is not empty; that the flow control lets a queued
deliver pass in the end is `NotStarved` of `FlowControl`, with its exceptions). Nothing is assumed of the ESME, which may never answer, nor of the
configuration. `PinexLink`: weak fairness of the expirators, of deferred and posted handlers
(`OnBind`, `OnSessionClose`) and of the end of an attempt to connect and of the retry timer:
the `io_context` gets to every handler. `ComesBack` needs in addition
`ServerReachable`, which is an assumption about the environment and not about the code: a server
tried again and again is reached in the end and answers a bind, be it by a refusal. `SubmitPath`: the expirators, and that
pinex settles what it took, which is `PinexLink`'s `SubmitSettled`. Both `SubmitSettled` and `ComesBack` end with the process: what waits in it
then is not settled. `SmppSession`: handlers that are ready
run and time passes; nothing is assumed of the peer, nor that a write completes. `FlowControl`: time passes and packets keep coming, in ticks
that are not all too busy (strong fairness of `Check`: its bound on calls per tick disables it).

## 5. What the runs found

* **A response completes the deliver of another session** (`ec_crosstalk`). The expirator of
  an external client is keyed by the sequence number alone (`sgw_external_client.cpp:519`) and every session numbers
  its own PDUs. With `max_session` 1 and numbers left this cannot happen: `ec_single` checks
  it and `SingleSessionSound` proves it. In the same situation a deliver whose number is
  taken is sent and forgotten (`orphaned`): its response finds nothing and the back end never hears of it.
* **A response completes the submit of an earlier session** (`pl_mixed`). `p_client` keeps
  its tracked requests across a reconnect while the numbering starts at 1 again; the new
  submit whose key is taken is never answered, not even by a timeout of its own
  (`shadowed`). `MixedOnlyByKey` shows that as long as numbers do not wrap and no two servers bind with one name this is
  the only way. For policy verdicts `VerdictRespected` says the same: a submit is sent on by its own verdict or by that of a
  shadowed one. Both need the names to differ: `user_data_` is keyed by number and name, and a response that comes after the
  timeout of its own request finds the request with the same number on the other connection of that name. TLC shows it
  when `Names` gives two addresses one name.
* **A bind that fails is never tried again** (`pl_reconnect`): `p_client::on_error` prints,
  although `pinex` asks for automatic reconnection. `ComesBack` shows that there is no other way to stay away.
* **A stopped client may keep its connection** (`smpp_stop`): `unbind(true)` closes nothing itself but relies on
  the cancelled enquire_link timer to run with an error; when that handler is already queued it runs as usual and sets the
  timer again, and a session that is unbinding is not touched.

Met while modelling, and visible in the definitions although no run is about them:

* the numbers of a pinex session wrap to 0 (the comparison in `next_sequence_number` comes after an increment of
  a `uint32_t`), and a submit that gets 0 is refused to its ESME after it was sent;
* once `max_session` is lowered below the number of bound sessions the equality test never succeeds again and the
  limit is off;
* `wait_for_resp_` is never decremented for a timeout (`WaitingDrift` states by exactly how much it is off);
* a submit with an unknown data coding gets no response; one whose verdict cannot be parsed stays in
  `user_data_` without a timeout (`unparsed`);
* the answer to a deliver whose back end is gone counts as sent (`"nowhere"` in `DeliverPath`), and one whose back end
  reconnected goes out with a number of the old connection (`AnswersFit` says when);
* a rule's `priority` decides nothing: each candidate is compared with -1 (`routing_matcher.cpp:69-76`), so the last rule in the order of its
  number wins, which is what `LatestRule` states; `is_available` is not asked; an empty field matches no rule, not even `*`;
  numbers of removed rules are not used again, so that once `MAXIMUM_RULE_NUMBER` were ever added the marks of the next are written
  behind the storage of the bit sets (`bit_set.cpp:189` has no more than an assert), which is not followed;
* a destination that is shorter than five characters or does not end in a number ends the process under the load balancing route, and all that waits in it
  is lost (`SubmitTerminates`, `PolicyApprovesThrows`, `SendTerminates`): the conversion is in an operator that is `noexcept`;
* a lookup from the end ignores the first character, and clearing the tree keeps the value of its root;
* a credit overdraft after `max_packets_per_second` was lowered makes the settling loop endless (`mode = "hung"`), and the
  adaptive method overwrites `credit_windows_size_`;
* the shipped configuration asks after 5000 s and closes after 2000 s (`configs/config.json:90-91`): with it a silent
  ESME is closed unasked. `AskedFirst` needs `2 * EnquireEvery < InactivityEvery`.

## 6. The proofs

The theorems hold for all values of the constants that satisfy the named assumptions (`ConstantsAssumption`,
`ListAssumption`, `LinkAssumption`, `SessionAssumption`, `PathAssumption`, `DeliverAssumption`, `MatcherAssumption`,
`MapperAssumption`, `FlowAssumption`): any number of sessions, addresses, names
and requests, any timeout, any width of the numbers, any thresholds, any rules, any limits and windows. The assumptions say that the sets and
numbers are of the kind the code has (a timeout below the span of the index, distinct
"no value" constants) and nothing else.

`ExternalClientProofs`

* `TypeCorrect`: `TypeOK` is inductive. Its one conjunct that is more than types, that
  the expirator never holds a key twice, is what makes `remove` well defined.
* `RequestsAccounted`: `Accounted` is inductive relative to `TypeOK`. The argument is one
  lemma per way of leaving a place: `SendKeepsAccount` (a request that is nowhere is tracked,
  answered or orphaned by `send_deliver_sm`), `AnswerKeepsAccount` (entries that leave
  the expirator are answered for the first time), `QueueTail` and `QueueAppend` (the queue
  has no repetitions).
* `DeliverImplementsService`: under the refinement mapping `ServiceStatus` every handler is
  a step of `RequestReply` or a stutter. The status is a function of three sets
  (`StatusBySets`), and `ServiceMove` turns a change of one of them into `Accept`, `Answer`
  or `Lose`.
* `SingleSessionSound` and `SingleSessionRemembers`: with `MaxSessions = {1}`, as long as numbers are left
  (`NumbersLeft`), `Correlated` and `NothingOrphaned`. Neither is inductive. `OneSession` strengthens them: there is one bound
  session, nothing is tracked without it (`expire_all` at its close), every key and every
  PDU on the wire is at most its sequence number, and a key that is both tracked and on the
  wire belongs to one deliver.
* `SessionsBound` and `SessionsLimited`: `BoundInv` adds that `binded_sessions_` is finite, so that the gauge has something
  to count, and that the gauge counts it in every state of the client. The equality test of `check_permision` keeps the
  limit because sessions are added one by one and the limit does not move.
* `AllDueInTime`: an entry lies ahead of the index by at most the timeout, in arithmetic modulo `IndexSpan`
  (`Ahead`, `NextSlot`); it is `ConstantsAssumption`'s timeout below the span that makes it hold over the turn.
* `WaitingDrifts`: `DriftInv` adds that the three sets are finite; a step that answers, orphans or times out moves delivers
  between them, which `RequestsAccounted` keeps disjoint.

`PClientListProofs` has the library's half: every handler keeps `ListTypeOK`.

`PinexLinkProofs`

* `TypeCorrect`, from `TypeOK` with `IsFiniteSet(userData)`, without which the gauge's
  `Cardinality` would not be a number.
* `SubmitsAccounted` and `LinkImplementsService`: along the same lines as for the deliver side.
* `ClientsHoldSessions`: `ClientsUsable` with `ServersNamed` (an address has the name of one of its
  servers) is inductive. A closing p_client erases the name it bound with, and no other p_client of that
  name is in the list, because the insert of a name that is there does nothing.
* `BoundAreReachable`: from `ClientsUsable` and disjoint names, a binding p_client finds its name free.
* `WaitingHasTimeout`: what waits is tracked by the p_client that has its server's name; a
  response or a tick that takes the key out of the expirator takes the entry out of
  `user_data_` with it, and a name never moves to another address (`OneName`).
* `CursorInRange`: strengthened by "with no targets the cursor is 0".
* `TargetsKeptInStep`: no target is twice in the router's list (`NoTargetTwice`), so that the one a close takes out is gone.
* `GaugesCount`: what the gauges count is finite, and what leaves `user_data_` leaves `wait_for_resp_` (`TakeGauge`).
* `MixedByKeyAlone`, for numbers that do not wrap (`NumbersKept`): `MixInv` says that a request on the wire was sent on the session
  its address has now, with a number not above that session's (`WireInv`), and that its key in `user_data_`, if it is there, stands for itself
  unless `user_data_` refused its entry (`FindsOwn`). `OwnNames` is needed as soon as a request times out.

`SmppSessionProofs`

* `TypeCorrect`, `ExclusiveAlways` and `NothingStallsEver` from one invariant, `SessionInv`. One read at a
  time needs that none is under way while the loop runs or the session is paused (`ReadInv`); one write, that a write
  is under way exactly while something is being written (`WriteInv`); one close, that nothing is posted before it
  (`CloseInv`); and a pause that does not stall, that only a bound session pauses and its timer runs (`PauseInv`).
* `AskedFirstAlways`, for all thresholds with `2 * EnquireEvery < InactivityEvery`: `AskInv` bounds the time
  since the inactivity timer's first turn. While nothing was asked, it and what the enquire_link timer has left are together at most one
  period before the first turn of that timer and two after it, so its second turn comes first.

`SubmitPathProofs`

* `TypeCorrect`, with `IsFiniteSet(BoundNames)`, without which the size the cursor is taken modulo would not
  be a number. The list's half comes from `PClientListProofs` (`ListInv`, kept by every `ListAction`).
* `CursorKeptAlways`: `CursorInv` says that the cursor is 0, within range, or a client left since it moved. A bind only
  makes the range larger, and a close whose name is not in the list leaves it alone.
* `SubmitsAccounted`: `AccountInv` names the six places a submit may be in with all that is so in each (what waits for a verdict
  is new to pinex, what is answered is not there any more); `Moves` is what a step may do to the submits, `StepMoves` that every handler does just
  that. The uniqueness of a submit's entry (`OneEntry`) is what makes taking entries out end the wait.
* `PathImplementsService` reads the status an ESME sees off those places. One tick may answer the submits of sessions that are open and
  lose those of sessions that went, which is `Settle`.
* `WaitingHasTimeout`: as in `PinexLink`, and with a verdict that cannot be parsed as the one exception. An expirator with
  entries belongs to a p_client that has bound (`ServerNamedStep`).
* `ToldIsNotSent`, without any hypothesis: what is answered is not touched again, so the step that tells the ESME settles it.
* `VerdictsRespected`: `WireInv` and `FindsOwn` as in `PinexLink`, for numbers that do not wrap.

`DeliverPathProofs`

* `TypeCorrect`, with the list's half from `PClientListProofs` and: what the ESME's side works on has a name and a number.
* `PathImplementsService`: `PathInv` says that a deliver is on the way once, awaited by one server and answered once. The status
  a server sees depends on whose answer it took (`took`), so an answer that goes to the wrong server, or nowhere, is a loss.
* `AnswersFitTheirs`, for numbers that do not wrap during a connection (`NumbersLast`): `FitInv` says that the numbers of a server's
  requests are different (`NumbersApart`), that a deliver whose connection lasts is still awaited under its own number
  (`ViaBound`, `HeldAwaited`), and that a name that is not shared leads to the client bound with it (`NamesLead`).

`RoutingProofs`

* `LatestRuleWins`, and `LatestWinsAlways` for the composition the run checks: shifting and intersecting words is shifting and
  intersecting the set of bits (`ShiftOf`, `BothOf`), whatever the width of a word, so after three shifts the bit of a rule's last field is
  set exactly when its four marks are met (`MatchOf`). `MatcherInv` says that the rules in force are mapped (`RulesMapped`), that each has its
  four marks and no other mark has their bits (`MarksOwned`), and that nothing has a number that was not given out (`NumbersUsed`): a refused
  or removed rule leaves marks, but none that another rule's match reads.
* `LongestRouteWins`, and `LongestWinsAlways` for the composition: `MapInv` says that the paths of the tree are closed under prefixes and
  count their children (`NodesCount`), that every leaf but the root has a value (`LeavesValued`), and that the nodes with a value are the
  entries of the table (`Agree`). `Grown` and `CleanedUp` are what `create_sub_tree` and `clean_up` do to it: a word under construction is
  the only leaf that may lack a value, and a node that is deleted takes no other along (`NoOrphan`). A list of routes is one route after the
  other (`AddAllSteps`, `ListMap`: a least position at which the tree and the table differ does not exist).

`FlowControlProofs`

* The sums: `Sums` are the sums of the first entries, `SumTo` and `SumUnder` say that whatever grows by each entry, or by at least
  each entry, is the sum or bounds it. The loops of the credit method visit the window in a turned order (`AheadOf`, `AheadApart`,
  `AheadAll`), which leaves its sum (`TurnedTotal`).
* `AlwaysSound` and `BooksBalance` from one invariant, `FlowInv`. `Backed` says that the credits are what the array holds, or one second's allowance
  more, and that every entry is within the limit; it is kept by the seconds without a packet (`IdleBacked`), by an overdraft taken from the entries one after
  the other (`DrainedTotal`) and by the end of a second (`SettleBacked`). With it, and as no more is granted than there is credit, the array covers
  the overdraft of a second (`Covered`), so the loop that takes it from there ends. Which changes of the configuration leave what is
  three conditions on the history: `Steady` (the account), `Fitting` (the array is of the window), `Windowed` (the total).
* `RateIsKept` from `RateInv`, for the configuration the object was built with. `FixedRate`: the list has an entry for every packet that passed, age by age
  (`Often`), and `remove_past_data` takes none that is young (`YoungerOften`). `LimitRate`: the last j elements of the window have counted at least what passed since
  the first of them began (`Elapsed`); when the window moves on, `last_time_` is set to now, so an element stands for a
  second or more (`ElapsedMoves`), and this is why the rate holds in a window less one second only.

Hypotheses. Two theorems of the links and one of the delivers say "as long as numbers do not wrap" (`NumbersKept`, `NumbersLast`), and two of the
external client "as long as numbers are left": a connection would need more than 2^32 - 1 requests, a session of the client 2^31 - 1. They are
properties of the steps and states, not assumptions on constants, and every behaviour without a wrap satisfies them.
`OwnNames` and `KeepNames` are part of the properties themselves, and the runs that check them have names that satisfy them.

Only model-checked: the liveness properties (`DeliverSettled`, `SubmitSettled`, `ComesBack`, `SilentCloses`, `NotStarved`),
because TLAPS has no support for fairness and `ENABLED`, and the counterexamples of section 5. Every safety and action property
that a passing run checks is a theorem, under the hypotheses above where they are named. No module with a theorem declares a `RECURSIVE` operator.

## 7. What is not modelled

* PDU layout, protobuf, logging, tracing, the configuration schema and `main` but for the exception that leaves
  `io_context::run()`: output or data the properties do not tell apart. The values configuration callbacks
  set are inputs (`SetMaxSession`, `Methods`, `SetMax`). Of the Prometheus counters only the gauges are modelled.
* The text of messages: unpacking, data coding, segmentation headers, the status in a delivery report, the commands to a
  policy server. Where the text decides (an unknown data coding, a verdict that cannot be parsed) every outcome is possible.
* A client inserted at runtime: it is a client that has no sessions so far.
* Parts of the libraries that nothing calls: `unbind()` without force, `p_client::stop`, `send_info`, `broad_cast`, the copying and
  printing of a `bit_set`; and `libs/smpp/net/client.hpp`, `libs/pinex/p_server.hpp`, `libs/pinex/net/server.hpp`, classes
  that the gateway never instantiates.
* Malformed PDUs: a `command_length` shorter than the header or longer than the receive buffer (`session.hpp:263-279`), for which
  `do_receive` may not end or throws. What `SmppSession` shows, liveness included, is about peers that send well-formed PDUs.
* A flow control configured with a maximum of 0 (the adaptive method divides by it, others read the front of an empty list) or a window of
  0: `FlowAssumption` leaves them out, although the schema allows them.
* Routing rules past `MAXIMUM_RULE_NUMBER`, for which the bit sets have no place.
* Listening sockets and the accepting of connections: a session begins as accepted.
* Memory: a handler that outlives its object is modelled by what it does (`Destroy`), not as a dangling pointer.
