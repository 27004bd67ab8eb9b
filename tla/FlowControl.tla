----------------------------- MODULE FlowControl ----------------------------
(***************************************************************************)
(* io::flow_control: the five methods by which check() lets a packet pass  *)
(* or says how long to wait, and the configuration changed at runtime.     *)
(*                                                                         *)
(* Time advances in ticks; Second of them make a second (10^6 in the       *)
(* code).  Points in time are kept as their age, up to an age after which  *)
(* no method tells them apart, so that the clock needs no bound.           *)
(***************************************************************************)
EXTENDS Integers, Sequences, SequencesExt, FiniteSets

CONSTANTS
  Second,     \* ticks in a second
  Depth,      \* the 10 of the adaptive method's threshold
  Jitter,     \* bound: ticks the normal method's jitter moves a packet by
  PerTick,    \* bound: calls of check() in one tick
  Changes,    \* bound: changes of the configuration
  Methods,    \* flow_method, as configured
  Maxima,     \* values of max_packets_per_second
  Windows,    \* values of credit_windows_size
  Slippages   \* values of max_slippage

\* Of what can be configured this leaves out a maximum of 0, by which the
\* adaptive method divides, and no window at all; what comes of those is
\* undefined.
ASSUME FlowAssumption ==
  /\ Second \in Nat \ {0} /\ Depth \in Nat \ {0} /\ Jitter \in Nat
  /\ Methods \subseteq {"disabled", "fixed", "adaptive", "normal", "credit",
                        "limit_credit"}
  /\ Maxima \subseteq 1 .. Second
  /\ Windows \subseteq Nat \ {0} /\ IsFiniteSet(Windows) /\ Slippages \subseteq Nat

VARIABLES
  method, max, window, slippage,  \* the configuration; adaptive sets window, too
  fixed,     \* flow_times_fixed_, as ages
  normal,    \* flow_times_normal_, as ages
  phase,     \* ticks since the clock's last full second
  gap,       \* seconds from last_sec_ to now, -1 before the first credit check
  available, \* available_credit_
  arr,       \* credit_arr_
  ind,       \* credit_arr_ind_, plus 1
  npack,     \* npack_in_sec_
  since,     \* ticks since last_time_
  elements,  \* elements_packet_count_
  total,     \* window_total_packets_
  mode,      \* "ok"; "hung": a loop does not end; "unfit": arr is not of the window
  calls,     \* calls of check() in this tick
  changes,   \* history: kinds of changes of the configuration, in order
  recent,    \* history: recent[a] packets passed a ticks ago
  free       \* history: ages of packets that passed uncounted

config   == <<method, max, window, slippage>>
credit   == <<gap, available, arr, ind, npack>>
limited  == <<since, elements, total>>
history  == <<changes, recent, free>>
flowVars == <<config, fixed, normal, phase, credit, limited, mode, calls, history>>

Total(s) ==
  LET sum[n \in 0 .. Len(s)] == IF n = 0 THEN 0 ELSE sum[n - 1] + s[n] IN sum[Len(s)]

\* Ages from here on are all the same to fixed and adaptive, normal, credit,
\* limit_credit.
OldFixed == Depth * Second + 1
OldNormal == Second + 1
OldGap == Max(Windows)
OldSince == Max(Windows) * Second

\* The ages of the packets that passed.
Span == Max({1, Max(Windows) - 1}) * Second

Unchanged == changes = << >>

\* RateKept states a rate: otherwise "recent" and "free" do not go back.
Rated == Unchanged /\ method \in {"fixed", "limit_credit"}

-----------------------------------------------------------------------------
(* check(), by method.  A method's operator is either the packet passing or *)
(* its having to wait.                                                      *)

Passes ==
  /\ recent' = [recent EXCEPT ![0] = @ + 1]
  /\ UNCHANGED free

\* The wait is 0, which the caller takes for a packet that may pass.
PassesFree ==
  /\ recent' = [recent EXCEPT ![0] = @ + 1]
  /\ free' = free \cup {0}

Waits == UNCHANGED <<recent, free>>

\* What remains of a list after its front entries older than "keep" are gone.
Younger(times, keep) ==
  LET young == {i \in DOMAIN times : times[i] <= keep} IN
    IF young = {} THEN << >> ELSE SubSeq(times, Min(young), Len(times))

\* Mutant: the loop erases one entry too many.
PastOneMore(times, keep) ==
  LET young == Younger(times, keep) IN
    IF Len(young) \in {0, Len(times)} THEN young ELSE Tail(young)

\* remove_past_data
Past(times, keep) == Younger(times, keep)

\* The end of the methods that keep a list: the wait until the front is
\* "keep" old.
FromFront(times, keep) == IF Head(times) = keep THEN PassesFree ELSE Waits

Fixed ==
  LET times == Past(fixed, Second) IN
    /\ IF Len(times) < max
       THEN fixed' = Append(times, 0) /\ Passes
       ELSE fixed' = times /\ FromFront(times, Second)
    /\ UNCHANGED <<window, normal, credit, limited, mode>>

\* The list is kept for a time that grows with it; credit_windows_size_ holds
\* that time, in microseconds.
Adaptive ==
  LET threshold == (Depth * Second) \div max
      keep  == Min({(Len(fixed) * Second) \div max + 1, threshold})
      times == Past(fixed, keep)
  IN
    /\ window' = keep
    /\ IF Len(times) <= (max * keep) \div Second
       THEN fixed' = Append(times, 0) /\ Passes
       ELSE fixed' = times /\ FromFront(times, keep)
    /\ UNCHANGED <<normal, credit, limited, mode>>

\* The time kept is jittered, so the front is not always the oldest.
Normal ==
  LET times == Past(normal, Second) IN
    /\ IF Len(times) < max
       THEN (\E j \in -Jitter .. Jitter : normal' = Append(times, j)) /\ Passes
       ELSE normal' = times /\ FromFront(times, Second)
    /\ UNCHANGED <<window, fixed, credit, limited, mode>>

-----------------------------------------------------------------------------
(* The credit method.                                                      *)

\* The indices the loops visit, from ind on.
Ahead(i, k) == ((i + k - 1) % window) + 1

\* Mutant: what the seconds replaced had left is not taken back.
IdleKept(a) ==
  [a EXCEPT !.arr = [i \in 1 .. window |->
                       IF \E k \in 0 .. gap - 2 : Ahead(ind, k) = i THEN max ELSE @[i]],
            !.available = @ + (gap - 1) * max,
            !.ind = Ahead(ind, gap - 1)]

\* The seconds without a packet, before the present one; a window of one second
\* is filled even when there were none.
Idle(a) ==
  IF gap >= window
  THEN [arr |-> [i \in 1 .. window |-> max], available |-> max * window, ind |-> 1]
  ELSE LET filled == {Ahead(ind, k) : k \in 0 .. gap - 2} IN
         [arr |-> [i \in 1 .. window |-> IF i \in filled THEN max ELSE a.arr[i]],
          available |-> a.available + (gap - 1) * max
                        - Total([k \in 1 .. gap - 1 |-> a.arr[Ahead(ind, k - 1)]]),
          ind |-> Ahead(ind, gap - 1)]

\* What an overdraft leaves in the array: it is taken from the entries one
\* after the other.
Drained(a, extra) ==
  [i \in 1 .. window |->
     LET place  == CHOOSE k \in 0 .. window - 1 : Ahead(a.ind, k) = i
         before == Total([k \in 1 .. place |-> a.arr[Ahead(a.ind, k - 1)]])
         left   == a.arr[i] - (extra - before)
     IN IF extra <= before THEN a.arr[i] ELSE IF left > 0 THEN left ELSE 0]

\* The account closed at the end of a second in which npack passed.
Settle(a) ==
  LET used == IF npack <= max THEN a.arr ELSE Drained(a, npack - max) IN
    [available |-> a.available + max - npack - used[a.ind],
     arr |-> [used EXCEPT ![a.ind] = IF npack <= max THEN max - npack ELSE 0],
     ind |-> Ahead(a.ind, 1)]

\* The overdraft exceeds what the array holds: the loop that takes it from
\* there never ends.
Overdrawn(a) == npack - max > Total(a.arr)

\* Mutant: one packet more than there is credit for.
GrantOneMore(credits, n) == n <= credits

Granted(credits, n) == n < credits

\* The rest of the call; a packet that has to wait reads the front of a
\* deque that the method never fills: any wait, none included, may come out.
Grant(a, n) ==
  /\ gap' = 0
  /\ available' = a.available /\ arr' = a.arr /\ ind' = a.ind
  /\ IF Granted(a.available, n)
     THEN npack' = n + 1 /\ Passes
     ELSE npack' = n /\ (Waits \/ PassesFree)
  /\ UNCHANGED <<mode, window, fixed, normal, limited>>

Stops(how) ==
  /\ mode' = how
  /\ UNCHANGED <<window, fixed, normal, credit, limited, recent, free>>

Account == [available |-> available, arr |-> arr, ind |-> ind]

Credit ==
  \/ /\ gap = -1 /\ window = Len(arr)
     /\ Grant([available |-> max, arr |-> [i \in 1 .. window |-> 0], ind |-> 1], 0)
  \/ /\ gap >= 0 /\ window = Len(arr) /\ ind <= window
     /\ IF gap = 0 THEN Grant(Account, npack)
        ELSE LET a == Idle(Account) IN
               IF Overdrawn(a) THEN Stops("hung") ELSE Grant(Settle(a), 0)
  \* credit_arr_ is indexed beyond its end, or not to its end; what comes of
  \* it is not followed.
  \/ /\ window # Len(arr) \/ ind > Len(arr)
     /\ Stops("unfit")

-----------------------------------------------------------------------------
(* The limit_credit method.                                                *)

\* Mutant: what leaves the window stays in the total.
ShiftKept(k) ==
  [elements |-> SubSeq(elements, k + 1, Len(elements)) \o [i \in 1 .. k |-> 0],
   total |-> total]

\* The window moves on by k elements.
Shift(k) ==
  [elements |-> SubSeq(elements, k + 1, Len(elements)) \o [i \in 1 .. k |-> 0],
   total |-> total - Total(SubSeq(elements, 1, k))]

LimitCredit ==
  LET seconds == since \div Second
      w == Shift(Min({seconds, Len(elements)}))
      last == Len(elements)
  IN
    /\ since' = IF seconds > 0 THEN 0 ELSE since
    /\ IF w.elements[last] >= max + slippage \/ w.total >= max * window
       THEN elements' = w.elements /\ total' = w.total /\ Waits
       ELSE /\ elements' = [w.elements EXCEPT ![last] = @ + 1]
            /\ total' = w.total + 1
            /\ Passes
    /\ UNCHANGED <<window, fixed, normal, credit, mode>>

-----------------------------------------------------------------------------
(* The steps.                                                              *)

Disabled ==
  /\ Passes
  /\ UNCHANGED <<window, fixed, normal, credit, limited, mode>>

\* A packet.
Check ==
  /\ mode = "ok"
  /\ calls < PerTick
  /\ calls' = calls + 1
  /\ \/ method = "disabled" /\ Disabled
     \/ method = "fixed" /\ Fixed
     \/ method = "adaptive" /\ Adaptive
     \/ method = "normal" /\ Normal
     \/ method = "credit" /\ Credit
     \/ method = "limit_credit" /\ LimitCredit
  /\ UNCHANGED <<method, max, slippage, phase, changes>>

Older(times, oldest) == [i \in DOMAIN times |-> Min({times[i] + 1, oldest})]

Tick ==
  /\ mode = "ok"
  /\ calls' = 0
  /\ phase' = (phase + 1) % Second
  /\ gap' = IF phase' = 0 /\ gap >= 0 THEN Min({gap + 1, OldGap}) ELSE gap
  /\ since' = Min({since + 1, OldSince})
  /\ fixed' = Older(fixed, OldFixed)
  /\ normal' = Older(normal, OldNormal)
  /\ recent' = [a \in DOMAIN recent |->
                  IF a = 0 \/ ~Rated THEN 0 ELSE recent[a - 1]]
  /\ free' = IF Rated THEN {a + 1 : a \in free} \cap DOMAIN recent ELSE {}
  /\ UNCHANGED <<config, available, arr, ind, npack, elements, total, mode, changes>>

\* The observers of the configuration.
Change(kind) ==
  /\ mode = "ok"
  /\ Len(changes) < Changes
  /\ changes' = Append(changes, kind)
  /\ recent' = [a \in DOMAIN recent |-> 0] /\ free' = {}
  /\ UNCHANGED <<fixed, normal, phase, gap, available, ind, npack, since, total,
                 mode, calls>>

SetMethod ==
  /\ Change("method")
  /\ method' \in Methods
  /\ UNCHANGED <<max, window, slippage, arr, elements>>

SetMax ==
  /\ Change("max")
  /\ max' \in Maxima
  /\ UNCHANGED <<method, window, slippage, arr, elements>>

\* on_credit_windows_size_replace: neither the index nor the totals follow.
SetWindow ==
  /\ Change("window")
  /\ window' \in Windows
  /\ arr' = [i \in 1 .. window' |-> 0]
  /\ elements' = [i \in 1 .. window' |-> 0]
  /\ UNCHANGED <<method, max, slippage>>

SetSlippage ==
  /\ Change("slippage")
  /\ slippage' \in Slippages
  /\ UNCHANGED <<method, max, window, arr, elements>>

-----------------------------------------------------------------------------

Init ==
  /\ method \in Methods /\ max \in Maxima /\ window \in Windows
  /\ slippage \in Slippages
  /\ fixed = << >> /\ normal = << >>
  /\ phase = 0
  /\ gap = -1 /\ available = 0 /\ ind = 1 /\ npack = 0
  /\ arr = [i \in 1 .. window |-> 0]
  /\ since = 0 /\ total = 0
  /\ elements = [i \in 1 .. window |-> 0]
  /\ mode = "ok" /\ calls = 0
  /\ changes = << >>
  /\ recent = [a \in 0 .. Span |-> 0] /\ free = {}

Next == Check \/ Tick \/ SetMethod \/ SetMax \/ SetWindow \/ SetSlippage

SafeSpec == Init /\ [][Next]_flowVars

\* Time passes, and there is always another packet.
Fairness == WF_flowVars(Tick) /\ SF_flowVars(Check)

Spec == SafeSpec /\ Fairness

-----------------------------------------------------------------------------
(* Properties.                                                             *)

\* With the configuration it was built with, no method runs into a loop that
\* does not end or indexes outside its window.  A change of max_slippage is
\* harmless, and one of max_packets_per_second leaves the windows fit.
Sound ==
  /\ mode = "hung" => \E i \in DOMAIN changes : changes[i] # "slippage"
  /\ mode = "unfit" => \E i \in DOMAIN changes : changes[i] \in {"method", "window"}

\* What the credit method grants is backed by its array: the difference is
\* the allowance of one second, or nothing once a whole window passed idle;
\* and the total of the limit_credit window is what its elements hold.
Books ==
  Unchanged /\ mode = "ok" =>
    /\ total = Total(elements)
    /\ method = "credit" /\ gap >= 0 =>
         /\ available - Total(arr) \in {0, max}
         /\ \A i \in 1 .. window : arr[i] \in 0 .. max

Passed(ages) ==
  Total([a \in 1 .. Span + 1 |-> IF a - 1 \in ages THEN recent[a - 1] ELSE 0])

\* The fixed method lets max_packets_per_second pass in a second, not counting
\* the moments when its oldest packet is exactly a second old; limit_credit
\* lets a window's worth pass in any window less one second.
RateKept ==
  Unchanged =>
    /\ method = "fixed" => Passed((0 .. Second - 1) \ free) <= max
    /\ method = "limit_credit" => Passed(0 .. (window - 1) * Second) <= max * window

\* However many packets come, one passes again and again; but a window
\* replaced while packets are in it may block limit_credit for ever, and an
\* overdraft whose limit was lowered hangs.
NotStarved ==
  []<>(recent[0] > 0)
    \/ <>(mode # "ok" \/ \E i \in DOMAIN changes : changes[i] = "window")

=============================================================================
