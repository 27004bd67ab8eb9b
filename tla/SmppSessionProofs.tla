-------------------------- MODULE SmppSessionProofs --------------------------
(***************************************************************************)
(* Theorems of SmppSession for every threshold and every bound on what a   *)
(* receive completes and what a buffer counts.                             *)
(*                                                                         *)
(* None of the properties is inductive: one read at a time needs that none *)
(* is under way while the loop runs or the session is paused; one write,   *)
(* that none is when nothing is being written; one close, that nothing is  *)
(* posted before; and a pause that does not stall, that only the sessions  *)
(* the client still has are paused.  SessionInv says so.                   *)
(***************************************************************************)
EXTENDS SmppSession, SequenceTheorems, TLAPS

\* TypeOK in three parts, for the provers.
ShapeOK ==
  /\ st \in {"open", "unbinding", "close"}
  /\ rcv \in {"receiving", "pending_pause", "paused"}
  /\ role \in {"binding", "bound", "refused", "gone"}
  /\ at \in {"idle", "loop", "down"}
  /\ reads \in Nat /\ writes \in Nat
  /\ writing \in 0 .. Backlog + 1 /\ pending \in 0 .. Backlog
  /\ inactive \in 0 .. 1 /\ enquired \in 0 .. 1
  /\ inactLeft \in {Off} \cup 0 .. InactivityEvery
  /\ enqLeft \in {Off, Aborted} \cup 0 .. EnquireEvery
  /\ posted \in Nat /\ told \in Nat

FlagsOK == resumeArmed \in BOOLEAN /\ stopped \in BOOLEAN /\ asked \in BOOLEAN

BufOK == buf \in Seq(Pdu)

\* A read is under way, or the loop runs, or the session has paused or closed.
ReadInv ==
  /\ reads \in {0, 1}
  /\ at = "loop" \/ rcv = "paused" => reads = 0
  /\ at = "loop" => rcv # "paused"
  /\ at = "idle" /\ reads = 0 /\ st # "close" => rcv = "paused"

\* A write is under way exactly while there is something being written, but
\* for a write that failed.
WriteInv ==
  /\ writes \in {0, 1}
  /\ writing = 0 => writes = 0 /\ pending = 0
  /\ st # "close" /\ writing > 0 => writes = 1

\* The close handler is posted with the close.
CloseInv ==
  /\ posted + told <= 1
  /\ st # "close" => posted + told = 0
  /\ role = "gone" => st = "close"

\* Only a bound session pauses, with the flow control's timer set.
PauseInv ==
  /\ role \in {"binding", "refused"} => rcv = "receiving"
  /\ st # "close" /\ rcv # "receiving" => resumeArmed = TRUE

SessionInv == /\ ShapeOK /\ FlagsOK /\ BufOK
              /\ ReadInv /\ WriteInv /\ CloseInv /\ PauseInv

(* The type invariant and the properties follow.                           *)
LEMMA InvSuffices == SessionInv => TypeOK /\ Exclusive /\ NothingStalls
<1> SUFFICES ASSUME SessionInv
             PROVE  TypeOK /\ Exclusive /\ NothingStalls
  OBVIOUS
<1>1. TypeOK
  BY DEF SessionInv, ShapeOK, FlagsOK, BufOK, TypeOK
<1>2. Exclusive
  BY DEF SessionInv, ShapeOK, ReadInv, WriteInv, CloseInv, Exclusive
<1>3. NothingStalls
  BY DEF SessionInv, ShapeOK, ReadInv, WriteInv, PauseInv, NothingStalls
<1> QED BY <1>1, <1>2, <1>3

-----------------------------------------------------------------------------

LEMMA SessionInit == Init => SessionInv
<1> SUFFICES ASSUME Init
             PROVE  SessionInv
  OBVIOUS
<1>1. BufOK
  BY EmptySeq DEF Init, BufOK
<1>2. inactLeft \in 0 .. InactivityEvery
  BY SessionAssumption DEF Init
<1>3. ShapeOK
  BY <1>2, SessionAssumption DEF Init, ShapeOK, Off, Aborted
<1>4. FlagsOK
  BY DEF Init, FlagsOK
<1>5. ReadInv /\ WriteInv /\ CloseInv /\ PauseInv
  BY DEF Init, ReadInv, WriteInv, CloseInv, PauseInv
<1> QED BY <1>1, <1>3, <1>4, <1>5 DEF SessionInv

(* A receive completes with a sequence of PDUs.                            *)
LEMMA ReceiveKeeps ==
  ASSUME SessionInv, NEW chunk \in Chunks, Receive(chunk)
  PROVE  SessionInv'
<1>1. chunk \in Seq(Pdu)
  <2>1. PICK n \in 0 .. Chunk : chunk \in [1 .. n -> Pdu]
    BY DEF Chunks
  <2>2. n \in Nat
    BY <2>1, SessionAssumption
  <2> QED BY <2>1, <2>2, SeqDef
<1>2. BufOK'
  BY <1>1, ConcatProperties DEF Receive, SessionInv, BufOK
<1>3. ShapeOK'
  BY DEF Receive, SessionInv, ShapeOK, ReadInv, sending, closing, owner
<1>4. FlagsOK'
  BY DEF Receive, SessionInv, FlagsOK, owner
<1>5. ReadInv' /\ WriteInv' /\ CloseInv' /\ PauseInv'
  BY DEF Receive, SessionInv, ShapeOK, ReadInv, WriteInv, CloseInv, PauseInv, sending,
         closing, owner
<1> QED BY <1>2, <1>3, <1>4, <1>5 DEF SessionInv

(* A failed read closes.                                                   *)
LEMMA ReceiveFailsKeeps == SessionInv /\ ReceiveFails => SessionInv'
<1> SUFFICES ASSUME SessionInv, ReceiveFails
             PROVE  SessionInv'
  OBVIOUS
<1>1. BufOK'
  BY DEF ReceiveFails, SessionInv, BufOK
<1>2. ShapeOK'
  BY SessionAssumption DEF ReceiveFails, Close, sending, timers, owner, SessionInv,
     ShapeOK, ReadInv, WriteInv, Off, Aborted
<1>3. FlagsOK'
  BY DEF ReceiveFails, sending, owner, SessionInv, FlagsOK
<1>4. ReadInv'
  BY DEF ReceiveFails, Close, SessionInv, ShapeOK, ReadInv, PauseInv
<1>5. WriteInv'
  BY DEF ReceiveFails, Close, sending, SessionInv, ShapeOK, WriteInv
<1>6. CloseInv' /\ PauseInv'
  BY DEF ReceiveFails, Close, owner, SessionInv, ShapeOK, ReadInv, CloseInv,
     PauseInv
<1> QED BY <1>1, <1>2, <1>3, <1>4, <1>5, <1>6 DEF SessionInv

(* The process that goes down.                                             *)
LEMMA BindThrowsKeeps == SessionInv /\ BindThrows => SessionInv'
<1> SUFFICES ASSUME SessionInv, BindThrows
             PROVE  SessionInv'
  OBVIOUS
<1>1. BufOK'
  BY DEF BindThrows, receiving, SessionInv, BufOK
<1>2. ShapeOK'
  BY SessionAssumption DEF BindThrows, receiving, sending, timers, closing, owner,
     SessionInv, ShapeOK, ReadInv, WriteInv, Off, Aborted
<1>3. FlagsOK'
  BY DEF BindThrows, sending, owner, SessionInv, FlagsOK
<1>4. ReadInv'
  BY DEF BindThrows, receiving, SessionInv, ShapeOK, ReadInv, PauseInv
<1>5. WriteInv'
  BY DEF BindThrows, sending, SessionInv, ShapeOK, WriteInv
<1>6. CloseInv' /\ PauseInv'
  BY DEF BindThrows, receiving, closing, owner, SessionInv, ShapeOK, ReadInv,
     CloseInv, PauseInv
<1> QED BY <1>1, <1>2, <1>3, <1>4, <1>5, <1>6 DEF SessionInv

(* The end of the loop starts a read, unless the session pauses.           *)
LEMMA LoopEndsKeeps == SessionInv /\ LoopEnds => SessionInv'
<1> SUFFICES ASSUME SessionInv, LoopEnds
             PROVE  SessionInv'
  OBVIOUS
<1>1. BufOK'
  BY DEF LoopEnds, receiving, SessionInv, BufOK
<1>2. ShapeOK'
  BY SessionAssumption DEF LoopEnds, receiving, sending, timers, closing, owner,
     SessionInv, ShapeOK, ReadInv, WriteInv, Off, Aborted
<1>3. FlagsOK'
  BY DEF LoopEnds, sending, owner, SessionInv, FlagsOK
<1>4. ReadInv'
  BY DEF LoopEnds, receiving, SessionInv, ShapeOK, ReadInv, PauseInv
<1>5. WriteInv'
  BY DEF LoopEnds, sending, SessionInv, ShapeOK, WriteInv
<1>6. CloseInv' /\ PauseInv'
  BY DEF LoopEnds, receiving, closing, owner, SessionInv, ShapeOK, ReadInv,
     CloseInv, PauseInv
<1> QED BY <1>1, <1>2, <1>3, <1>4, <1>5, <1>6 DEF SessionInv

(* A write that is done goes on with what is pending.                      *)
LEMMA WriteDoneKeeps == SessionInv /\ WriteDone => SessionInv'
<1> SUFFICES ASSUME SessionInv, WriteDone
             PROVE  SessionInv'
  OBVIOUS
<1>1. BufOK'
  BY DEF WriteDone, receiving, SessionInv, BufOK
<1>2. ShapeOK'
  BY SessionAssumption DEF WriteDone, receiving, timers, closing, owner, SessionInv,
     ShapeOK, ReadInv, WriteInv, Off, Aborted
<1>3. FlagsOK'
  BY DEF WriteDone, owner, SessionInv, FlagsOK
<1>4. ReadInv'
  BY DEF WriteDone, receiving, SessionInv, ShapeOK, ReadInv, PauseInv
<1>5. WriteInv'
  BY DEF WriteDone, SessionInv, ShapeOK, WriteInv
<1>6. CloseInv' /\ PauseInv'
  BY DEF WriteDone, receiving, closing, owner, SessionInv, ShapeOK, ReadInv,
     CloseInv, PauseInv
<1> QED BY <1>1, <1>2, <1>3, <1>4, <1>5, <1>6 DEF SessionInv

(* A failed write closes.                                                  *)
LEMMA WriteFailsKeeps == SessionInv /\ WriteFails => SessionInv'
<1> SUFFICES ASSUME SessionInv, WriteFails
             PROVE  SessionInv'
  OBVIOUS
<1>1. BufOK'
  BY DEF WriteFails, receiving, SessionInv, BufOK
<1>2. ShapeOK'
  BY SessionAssumption DEF WriteFails, Close, receiving, timers, owner, SessionInv,
     ShapeOK, ReadInv, WriteInv, Off, Aborted
<1>3. FlagsOK'
  BY DEF WriteFails, owner, SessionInv, FlagsOK
<1>4. ReadInv'
  BY DEF WriteFails, Close, receiving, SessionInv, ShapeOK, ReadInv, PauseInv
<1>5. WriteInv'
  BY DEF WriteFails, Close, SessionInv, ShapeOK, WriteInv
<1>6. CloseInv' /\ PauseInv'
  BY DEF WriteFails, Close, receiving, owner, SessionInv, ShapeOK, ReadInv,
     CloseInv, PauseInv
<1> QED BY <1>1, <1>2, <1>3, <1>4, <1>5, <1>6 DEF SessionInv

(* The inactivity timer.                                                   *)
LEMMA InactivityKeeps == SessionInv /\ InactivityTimer => SessionInv'
<1> SUFFICES ASSUME SessionInv, InactivityTimer
             PROVE  SessionInv'
  OBVIOUS
<1>1. BufOK'
  BY DEF InactivityTimer, receiving, SessionInv, BufOK
<1>2. ShapeOK'
  BY SessionAssumption DEF InactivityTimer, Close, receiving, sending, owner,
     SessionInv, ShapeOK, ReadInv, WriteInv, Off, Aborted
<1>3. FlagsOK'
  BY DEF InactivityTimer, sending, owner, SessionInv, FlagsOK
<1>4. ReadInv'
  BY DEF InactivityTimer, Close, receiving, SessionInv, ShapeOK, ReadInv, PauseInv
<1>5. WriteInv'
  BY DEF InactivityTimer, Close, sending, SessionInv, ShapeOK, WriteInv
<1>6. CloseInv' /\ PauseInv'
  BY DEF InactivityTimer, Close, receiving, owner, SessionInv, ShapeOK, ReadInv,
     CloseInv, PauseInv
<1> QED BY <1>1, <1>2, <1>3, <1>4, <1>5, <1>6 DEF SessionInv

(* The enquire_link timer.                                                 *)
LEMMA EnquireKeeps == SessionInv /\ EnquireTimer => SessionInv'
<1> SUFFICES ASSUME SessionInv, EnquireTimer
             PROVE  SessionInv'
  OBVIOUS
<1>1. BufOK'
  BY DEF EnquireTimer, receiving, SessionInv, BufOK
<1>2. ShapeOK'
  BY SessionAssumption DEF EnquireTimer, Close, Enquire, Write, receiving, sending,
     owner, SessionInv, ShapeOK, ReadInv, WriteInv, Off, Aborted
<1>3. FlagsOK'
  BY DEF EnquireTimer, Enquire, sending, owner, SessionInv, FlagsOK
<1>4. ReadInv'
  BY DEF EnquireTimer, Close, Write, receiving, SessionInv, ShapeOK, ReadInv,
     PauseInv
<1>5. WriteInv'
  BY DEF EnquireTimer, Close, Enquire, Write, sending, SessionInv, ShapeOK, WriteInv
<1>6. CloseInv' /\ PauseInv'
  BY DEF EnquireTimer, Close, Write, receiving, owner, SessionInv, ShapeOK, ReadInv,
     CloseInv, PauseInv
<1> QED BY <1>1, <1>2, <1>3, <1>4, <1>5, <1>6 DEF SessionInv

(* The posted close handler.                                               *)
LEMMA ClosePostedKeeps == SessionInv /\ ClosePosted => SessionInv'
<1> SUFFICES ASSUME SessionInv, ClosePosted
             PROVE  SessionInv'
  OBVIOUS
<1>1. BufOK'
  BY DEF ClosePosted, receiving, SessionInv, BufOK
<1>2. ShapeOK'
  BY SessionAssumption DEF ClosePosted, CancelEnquire, receiving, sending, owner,
     SessionInv, ShapeOK, ReadInv, WriteInv, Off, Aborted
<1>3. FlagsOK'
  BY DEF ClosePosted, sending, owner, SessionInv, FlagsOK
<1>4. ReadInv'
  BY DEF ClosePosted, receiving, SessionInv, ShapeOK, ReadInv, PauseInv
<1>5. WriteInv'
  BY DEF ClosePosted, sending, SessionInv, ShapeOK, WriteInv
<1>6. CloseInv' /\ PauseInv'
  BY DEF ClosePosted, receiving, owner, SessionInv, ShapeOK, ReadInv, CloseInv,
     PauseInv
<1> QED BY <1>1, <1>2, <1>3, <1>4, <1>5, <1>6 DEF SessionInv

(* The owner sends.                                                        *)
LEMMA OwnerSendsKeeps == SessionInv /\ OwnerSends => SessionInv'
<1> SUFFICES ASSUME SessionInv, OwnerSends
             PROVE  SessionInv'
  OBVIOUS
<1>1. BufOK'
  BY DEF OwnerSends, receiving, SessionInv, BufOK
<1>2. ShapeOK'
  BY SessionAssumption DEF OwnerSends, Write, receiving, timers, closing, owner,
     SessionInv, ShapeOK, ReadInv, WriteInv, Off, Aborted
<1>3. FlagsOK'
  BY DEF OwnerSends, owner, SessionInv, FlagsOK
<1>4. ReadInv'
  BY DEF OwnerSends, Write, receiving, SessionInv, ShapeOK, ReadInv, PauseInv
<1>5. WriteInv'
  BY DEF OwnerSends, Write, SessionInv, ShapeOK, WriteInv
<1>6. CloseInv' /\ PauseInv'
  BY DEF OwnerSends, Write, receiving, closing, owner, SessionInv, ShapeOK, ReadInv,
     CloseInv, PauseInv
<1> QED BY <1>1, <1>2, <1>3, <1>4, <1>5, <1>6 DEF SessionInv

(* The owner pauses.                                                       *)
LEMMA OwnerPausesKeeps == SessionInv /\ OwnerPauses => SessionInv'
<1> SUFFICES ASSUME SessionInv, OwnerPauses
             PROVE  SessionInv'
  OBVIOUS
<1>1. BufOK'
  BY DEF OwnerPauses, receiving, SessionInv, BufOK
<1>2. ShapeOK'
  BY SessionAssumption DEF OwnerPauses, Pause, receiving, sending, timers, closing,
     SessionInv, ShapeOK, ReadInv, WriteInv, Off, Aborted
<1>3. FlagsOK'
  BY DEF OwnerPauses, Pause, sending, SessionInv, FlagsOK
<1>4. ReadInv'
  BY DEF OwnerPauses, Pause, receiving, SessionInv, ShapeOK, ReadInv, PauseInv
<1>5. WriteInv'
  BY DEF OwnerPauses, sending, SessionInv, ShapeOK, WriteInv
<1>6. CloseInv' /\ PauseInv'
  BY DEF OwnerPauses, Pause, receiving, closing, SessionInv, ShapeOK, ReadInv,
     CloseInv, PauseInv
<1> QED BY <1>1, <1>2, <1>3, <1>4, <1>5, <1>6 DEF SessionInv

(* The flow control's timer resumes.                                       *)
LEMMA FlowTimerKeeps == SessionInv /\ FlowTimer => SessionInv'
<1> SUFFICES ASSUME SessionInv, FlowTimer
             PROVE  SessionInv'
  OBVIOUS
<1>1. BufOK'
  BY DEF FlowTimer, receiving, SessionInv, BufOK
<1>2. ShapeOK'
  BY SessionAssumption DEF FlowTimer, Resume, receiving, sending, timers, closing,
     SessionInv, ShapeOK, ReadInv, WriteInv, Off, Aborted
<1>3. FlagsOK'
  BY DEF FlowTimer, sending, SessionInv, FlagsOK
<1>4. ReadInv'
  BY DEF FlowTimer, Resume, receiving, SessionInv, ShapeOK, ReadInv, PauseInv
<1>5. WriteInv'
  BY DEF FlowTimer, sending, SessionInv, ShapeOK, WriteInv
<1>6. CloseInv' /\ PauseInv'
  BY DEF FlowTimer, Resume, receiving, closing, SessionInv, ShapeOK, ReadInv,
     CloseInv, PauseInv
<1> QED BY <1>1, <1>2, <1>3, <1>4, <1>5, <1>6 DEF SessionInv

(* unbind(true).                                                           *)
LEMMA OwnerStopsKeeps == SessionInv /\ OwnerStops => SessionInv'
<1> SUFFICES ASSUME SessionInv, OwnerStops
             PROVE  SessionInv'
  OBVIOUS
<1>1. BufOK'
  BY DEF OwnerStops, receiving, SessionInv, BufOK
<1>2. ShapeOK'
  BY SessionAssumption DEF OwnerStops, CancelEnquire, receiving, sending, closing,
     SessionInv, ShapeOK, ReadInv, WriteInv, Off, Aborted
<1>3. FlagsOK'
  BY DEF OwnerStops, sending, SessionInv, FlagsOK
<1>4. ReadInv'
  BY DEF OwnerStops, receiving, SessionInv, ShapeOK, ReadInv, PauseInv
<1>5. WriteInv'
  BY DEF OwnerStops, sending, SessionInv, ShapeOK, WriteInv
<1>6. CloseInv' /\ PauseInv'
  BY DEF OwnerStops, receiving, closing, SessionInv, ShapeOK, ReadInv, CloseInv,
     PauseInv
<1> QED BY <1>1, <1>2, <1>3, <1>4, <1>5, <1>6 DEF SessionInv

(* Time passes.                                                            *)
LEMMA TickKeeps == SessionInv /\ Tick => SessionInv'
<1> SUFFICES ASSUME SessionInv, Tick
             PROVE  SessionInv'
  OBVIOUS
<1>1. BufOK'
  BY DEF Tick, receiving, SessionInv, BufOK
<1>2. ShapeOK'
  BY SessionAssumption DEF Tick, receiving, sending, closing, owner, SessionInv,
     ShapeOK, ReadInv, WriteInv, Off, Aborted
<1>3. FlagsOK'
  BY DEF Tick, sending, owner, SessionInv, FlagsOK
<1>4. ReadInv'
  BY DEF Tick, receiving, SessionInv, ShapeOK, ReadInv, PauseInv
<1>5. WriteInv'
  BY DEF Tick, sending, SessionInv, ShapeOK, WriteInv
<1>6. CloseInv' /\ PauseInv'
  BY DEF Tick, receiving, closing, owner, SessionInv, ShapeOK, ReadInv, CloseInv,
     PauseInv
<1> QED BY <1>1, <1>2, <1>3, <1>4, <1>5, <1>6 DEF SessionInv

(* An iteration of the receive loop.                                       *)
LEMMA ConsumeKeeps == SessionInv /\ Consume => SessionInv'
<1> SUFFICES ASSUME SessionInv, Consume
             PROVE  SessionInv'
  OBVIOUS
<1>1. BufOK'
  <2>1. buf \in Seq(Pdu) /\ buf # << >> /\ buf' = Tail(buf)
    BY DEF Consume, SessionInv, BufOK
  <2> QED BY <2>1, HeadTailProperties DEF BufOK
<1>2. CASE ConsumeOther
  <2>2. ShapeOK'
    BY <1>2, SessionAssumption DEF Consume, ConsumeOther, receiving, sending,
       SessionInv, ShapeOK, ReadInv, WriteInv, Off, Aborted
  <2>3. FlagsOK'
    BY <1>2 DEF Consume, ConsumeOther, sending, SessionInv, FlagsOK
  <2>4. ReadInv'
    BY <1>2 DEF Consume, ConsumeOther, receiving, SessionInv, ShapeOK, ReadInv,
       PauseInv
  <2>5. WriteInv'
    BY <1>2 DEF Consume, ConsumeOther, sending, SessionInv, ShapeOK, WriteInv
  <2>6. CloseInv' /\ PauseInv'
    BY <1>2 DEF Consume, ConsumeOther, receiving, SessionInv, ShapeOK, ReadInv,
       CloseInv, PauseInv
  <2> QED BY <1>1, <2>2, <2>3, <2>4, <2>5, <2>6 DEF SessionInv
<1>3. CASE ConsumeCommand
  <2>2. ShapeOK'
    BY <1>3, SessionAssumption DEF Consume, ConsumeCommand, Close, Write, receiving,
       sending, SessionInv, ShapeOK, ReadInv, WriteInv, Off, Aborted
  <2>3. FlagsOK'
    BY <1>3 DEF Consume, ConsumeCommand, sending, SessionInv, FlagsOK
  <2>4. ReadInv'
    BY <1>3 DEF Consume, ConsumeCommand, Close, Write, receiving, SessionInv, ShapeOK,
       ReadInv, PauseInv
  <2>5. WriteInv'
    BY <1>3 DEF Consume, ConsumeCommand, Close, Write, sending, SessionInv, ShapeOK,
       WriteInv
  <2>6. CloseInv' /\ PauseInv'
    BY <1>3 DEF Consume, ConsumeCommand, Close, Write, receiving, SessionInv, ShapeOK,
       ReadInv, CloseInv, PauseInv
  <2> QED BY <1>1, <2>2, <2>3, <2>4, <2>5, <2>6 DEF SessionInv
<1>4. CASE ConsumeBind
  <2>2. ShapeOK'
    BY <1>4, SessionAssumption DEF Consume, ConsumeBind, Authenticate, Write,
       receiving, SessionInv, ShapeOK, ReadInv, WriteInv, Off, Aborted
  <2>3. FlagsOK'
    BY <1>4 DEF Consume, ConsumeBind, SessionInv, FlagsOK
  <2>4. ReadInv'
    BY <1>4 DEF Consume, ConsumeBind, Authenticate, Write, receiving, SessionInv,
       ShapeOK, ReadInv, PauseInv
  <2>5. WriteInv'
    BY <1>4 DEF Consume, ConsumeBind, Authenticate, Write, SessionInv, ShapeOK,
       WriteInv
  <2>6. CloseInv' /\ PauseInv'
    BY <1>4 DEF Consume, ConsumeBind, Authenticate, Write, receiving, SessionInv,
       ShapeOK, ReadInv, CloseInv, PauseInv
  <2> QED BY <1>1, <2>2, <2>3, <2>4, <2>5, <2>6 DEF SessionInv
<1>5. CASE ConsumeSubmit
  <2>2. ShapeOK'
    BY <1>5, SessionAssumption DEF Consume, ConsumeSubmit, Submit, Write, Pause,
       receiving, sending, SessionInv, ShapeOK, ReadInv, WriteInv, Off, Aborted
  <2>3. FlagsOK'
    BY <1>5 DEF Consume, ConsumeSubmit, Submit, Pause, sending, SessionInv, FlagsOK
  <2>4. ReadInv'
    BY <1>5 DEF Consume, ConsumeSubmit, Submit, Write, Pause, receiving, SessionInv,
       ShapeOK, ReadInv, PauseInv
  <2>5. WriteInv'
    BY <1>5 DEF Consume, ConsumeSubmit, Submit, Write, sending, SessionInv, ShapeOK,
       WriteInv
  <2>6. CloseInv' /\ PauseInv'
    BY <1>5 DEF Consume, ConsumeSubmit, Submit, Write, Pause, receiving, SessionInv,
       ShapeOK, ReadInv, CloseInv, PauseInv
  <2> QED BY <1>1, <2>2, <2>3, <2>4, <2>5, <2>6 DEF SessionInv
<1> QED BY <1>2, <1>3, <1>4, <1>5 DEF Consume

LEMMA SessionStep == SessionInv /\ [Next]_sessionVars => SessionInv'
<1> SUFFICES ASSUME SessionInv, [Next]_sessionVars
             PROVE  SessionInv'
  OBVIOUS
<1>1. CASE Received
  BY <1>1, ReceiveKeeps DEF Received
<1>2. CASE UNCHANGED sessionVars
  BY <1>2 DEF sessionVars, receiving, sending, timers, closing, owner, SessionInv, ShapeOK,
     FlagsOK, BufOK, ReadInv, WriteInv, CloseInv, PauseInv
<1> QED
  BY <1>1, <1>2, ConsumeKeeps, ReceiveFailsKeeps, BindThrowsKeeps, LoopEndsKeeps,
     WriteDoneKeeps, WriteFailsKeeps, InactivityKeeps, EnquireKeeps,
     ClosePostedKeeps, OwnerSendsKeeps, OwnerPausesKeeps, FlowTimerKeeps,
     OwnerStopsKeeps, TickKeeps DEF Next

LEMMA SessionInvariant == Spec => []SessionInv
<1>1. Init => SessionInv
  BY SessionInit
<1>2. SessionInv /\ [Next]_sessionVars => SessionInv'
  BY SessionStep
<1> QED BY <1>1, <1>2, PTL DEF Spec, SafeSpec

-----------------------------------------------------------------------------
(* The variables of a session keep their types (net/session.hpp).          *)
THEOREM TypeCorrect == Spec => []TypeOK
BY SessionInvariant, InvSuffices, PTL

(* One async_receive, one async_write and one close handler at a time,     *)
(* whatever pauses, resumes, writes and closes meet (do_receive, do_send,  *)
(* close).                                                                 *)
THEOREM ExclusiveAlways == Spec => []Exclusive
BY SessionInvariant, InvSuffices, PTL

(* No session that is not closed is left without a read, a resume to come, *)
(* or a write for what it has to send (do_receive, resume_receiving).      *)
THEOREM NothingStallsEver == Spec => []NothingStalls
BY SessionInvariant, InvSuffices, PTL

-----------------------------------------------------------------------------
(* AskedFirst.  Once the inactivity timer has run out since the last       *)
(* receive, the enquire_link timer of an open session runs out twice       *)
(* before it does again: AskInv bounds the time that may have passed.      *)

AskInv ==
  /\ st # "close" => inactLeft \in 0 .. InactivityEvery
  /\ role = "binding" /\ at = "loop" => inactive = 0
  /\ role = "bound" /\ st = "open" => enqLeft \in 0 .. EnquireEvery
  /\ role = "bound" /\ st = "open" /\ inactive = 1 =>
       \/ asked = TRUE
       \/ enquired = 0 /\ InactivityEvery - inactLeft + enqLeft <= EnquireEvery
       \/ enquired = 1 /\ InactivityEvery - inactLeft + enqLeft <= 2 * EnquireEvery

LEMMA AskInit == Init => AskInv
BY SessionAssumption DEF Init, AskInv

LEMMA AskStep == SessionInv /\ AskInv /\ [Next]_sessionVars => AskInv'
<1> SUFFICES ASSUME SessionInv, AskInv, [Next]_sessionVars
             PROVE  AskInv'
  OBVIOUS
<1>0. ShapeOK /\ InactivityEvery \in Nat \ {0} /\ EnquireEvery \in Nat \ {0}
  BY SessionAssumption DEF SessionInv
<1>1. CASE Received
  BY <1>0, <1>1 DEF Received, Receive, sending, closing, owner, AskInv, ShapeOK,
     Off, Aborted
<1>2. CASE ReceiveFails
  BY <1>0, <1>2 DEF ReceiveFails, Close, sending, timers, owner, AskInv, ShapeOK,
     Off, Aborted
<1>3. CASE BindThrows
  BY <1>0, <1>3 DEF BindThrows, receiving, sending, timers, closing, owner, AskInv,
     ShapeOK, Off, Aborted
<1>4. CASE LoopEnds
  BY <1>0, <1>4 DEF LoopEnds, receiving, sending, timers, closing, owner, AskInv,
     ShapeOK, Off, Aborted
<1>5. CASE WriteDone
  BY <1>0, <1>5 DEF WriteDone, receiving, timers, closing, owner, AskInv, ShapeOK,
     Off, Aborted
<1>6. CASE WriteFails
  BY <1>0, <1>6 DEF WriteFails, Close, receiving, timers, owner, AskInv, ShapeOK,
     Off, Aborted
<1>7. CASE InactivityTimer
  BY <1>0, <1>7 DEF InactivityTimer, Close, receiving, sending, owner, AskInv,
     ShapeOK, Off, Aborted
<1>8. CASE EnquireTimer
  BY <1>0, <1>8 DEF EnquireTimer, Close, Enquire, Write, receiving, sending, owner,
     AskInv, ShapeOK, Off, Aborted
<1>9. CASE ClosePosted
  BY <1>0, <1>9 DEF ClosePosted, CancelEnquire, receiving, sending, owner, AskInv,
     ShapeOK, Off, Aborted
<1>10. CASE OwnerSends
  BY <1>0, <1>10 DEF OwnerSends, Write, receiving, timers, closing, owner, AskInv,
     ShapeOK, Off, Aborted
<1>11. CASE OwnerPauses
  BY <1>0, <1>11 DEF OwnerPauses, Pause, receiving, sending, timers, closing,
     AskInv, ShapeOK, Off, Aborted
<1>12. CASE FlowTimer
  BY <1>0, <1>12 DEF FlowTimer, Resume, receiving, sending, timers, closing, AskInv,
     ShapeOK, Off, Aborted
<1>13. CASE OwnerStops
  BY <1>0, <1>13 DEF OwnerStops, CancelEnquire, receiving, sending, closing, AskInv,
     ShapeOK, Off, Aborted
<1>14. CASE Tick
  BY <1>0, <1>14 DEF Tick, receiving, sending, closing, owner, AskInv, ShapeOK, Off,
     Aborted
<1>15. CASE Consume /\ ConsumeOther
  BY <1>0, <1>15 DEF Consume, ConsumeOther, receiving, sending, AskInv, ShapeOK,
     Off, Aborted
<1>16. CASE Consume /\ ConsumeCommand
  BY <1>0, <1>16 DEF Consume, ConsumeCommand, Close, Write, receiving, sending,
     AskInv, ShapeOK, Off, Aborted
<1>17. CASE Consume /\ ConsumeBind
  BY <1>0, <1>17 DEF Consume, ConsumeBind, Authenticate, Write, receiving, AskInv,
     ShapeOK, Off, Aborted
<1>18. CASE Consume /\ ConsumeSubmit
  BY <1>0, <1>18 DEF Consume, ConsumeSubmit, Submit, Write, Pause, receiving,
     sending, AskInv, ShapeOK, Off, Aborted
<1>19. CASE UNCHANGED sessionVars
  BY <1>19 DEF sessionVars, receiving, sending, timers, closing, owner, AskInv
<1> QED
  BY <1>1, <1>2, <1>3, <1>4, <1>5, <1>6, <1>7, <1>8, <1>9, <1>10, <1>11, <1>12,
     <1>13, <1>14, <1>15, <1>16, <1>17, <1>18, <1>19 DEF Next, Consume

(* Between the second half of the inactivity timer and its end, every      *)
(* bound session has sent an enquire_link (do_set_inactivity_timer,        *)
(* do_set_enquirelink_timer), if the thresholds leave the time for two     *)
(* periods of the enquire_link timer.                                      *)
THEOREM AskedFirstAlways ==
  ASSUME 2 * EnquireEvery < InactivityEvery
  PROVE  Spec => AskedFirst
<1> DEFINE Fine == role = "bound" /\ st = "open" /\ inactLeft = 0 /\ inactLeft' = Off => asked
<1>1. SessionInv /\ AskInv /\ [Next]_sessionVars => [Fine]_sessionVars
  <2> SUFFICES ASSUME SessionInv, AskInv, Next, inactLeft = 0, inactLeft' = Off,
                      role = "bound", st = "open"
               PROVE  asked
    BY DEF sessionVars
  <2>1. InactivityEvery \in Nat \ {0} /\ EnquireEvery \in Nat \ {0} /\ ShapeOK
    BY SessionAssumption DEF SessionInv
  <2>2. inactive = 1
    BY <2>1 DEF Next, Received, Receive, Consume, ReceiveFails, BindThrows, LoopEnds, WriteDone,
       WriteFails, InactivityTimer, EnquireTimer, ClosePosted, OwnerSends, OwnerPauses,
       FlowTimer, OwnerStops, Tick, timers, ShapeOK, Off
  <2>3. asked = TRUE
    BY <2>1, <2>2 DEF AskInv
  <2> QED BY <2>3
<1>2. Spec => [](SessionInv /\ AskInv)
  BY SessionInvariant, AskInit, AskStep, PTL DEF Spec, SafeSpec
<1> QED BY <1>1, <1>2, PTL DEF Spec, SafeSpec, AskedFirst

=============================================================================
