---------------------------- MODULE ConnectionSlot ----------------------------
(***************************************************************************)
(* The selector-free owner of one connection epoch (bornera, slot.rs,      *)
(* admission.rs, control.rs, transition.rs, lifecycle.rs, state.rs,        *)
(* slot_close.rs, failure.rs, recovery.rs and drive/): it turns core       *)
(* transitions into timers, publications and close directives and drives   *)
(* the transport in bounded quanta.                                        *)
(*                                                                         *)
(* The slot is one value and every internal method maps a slot to the slot *)
(* it leaves.  The aggregate below it is the machine of ConnectionMachine: *)
(* module ConnectionCore shows that the writer holds exactly the frames of *)
(* the records that still hold one, so the writer is those records, the    *)
(* wire length of each frame and the bytes written of the front one.       *)
(*                                                                         *)
(* A method that fails sets "owner"; the public call it belongs to then    *)
(* latches the failure (Latch).  Public calls take the slot exclusively:   *)
(* they happen between quanta, and a quantum is a sequence of steps with   *)
(* its own program counter.                                                *)
(***************************************************************************)
EXTENDS ConnectionMachine, FrameDriver

CONSTANTS
  Horizon,          \* the last moment of the clock
  Options,          \* OperationOptions offered to reserve
  WireLengths,      \* lengths of the frames offered to commit
  RequestedReasons, \* reasons given to finalize
  DrainDeadlines,   \* deadlines given to begin_drain
  ConnectDeadline,  \* ConnectionSlotConfig::connect_deadline
  IoOperations,     \* IoLimits::operations, the work of one quantum
  IoChunk,          \* IoLimits::chunk_bytes
  LifecycleEvents,  \* PublicationLimits::lifecycle_events
  ReplyBytes,       \* DecoderLimits::reply_bytes
  LocalWork,        \* whether the transport has work of its own (TLS) or none (TCP)
  TransportFaults   \* breaches of the transport contract to include

ASSUME ClockAssumption ==
  /\ Horizon \in Nat
  /\ Moments = 0..Horizon
  /\ ConnectDeadline \in Moments
  /\ DrainDeadlines \subseteq Moments

ASSUME SlotAssumption ==
  /\ Options \subseteq [retained : Nat, writeRetained : Nat, class : Classes,
                        completion : Completions, deadline : Moments]
  /\ WireLengths \subseteq Nat
  /\ RequestedReasons \subseteq ExternalReasons
  /\ IoOperations \in Nat \ {0}
  /\ IoChunk \in Nat \ {0}
  /\ LifecycleEvents \in Nat \ {0}
  /\ ReplyBytes \in Nat
  /\ LocalWork \in BOOLEAN
  /\ TransportFaults \subseteq {"Pressure", "Progress", "OpenEarly", "OverRead", "OverWrite"}

VARIABLES
  slot,       \* ConnectionSlot
  transport,  \* the SlotTransport lent to every quantum (external)
  permits,    \* outstanding OperationPermits
  now,        \* the clock
  quantum,    \* the drive_quantum in progress
  wake        \* whether the host has a reason to drive the slot again

\* What the outside world has seen.
VARIABLES
  committed,  \* operations whose commit returned them
  delivered,  \* outcomes drained by the application, in order
  observed,   \* events drained by the application, in order
  broken,     \* whether the transport has broken its contract
  report      \* what recovery returned

vars == <<slot, transport, permits, now, quantum, wake,
          committed, delivered, observed, broken, report>>

\* An absent deadline is one that never elapses.
Never == Horizon + 1

TransportStates == {"Connecting", "Open", "Closing", "Closed"}
Owners == {"Running", "Core", "Readiness", "OwnerInvariant"}
Shutdowns == {"Immediate", "Pending", "Started", "Complete"}
Preferences == {"Transport", "Decode", "Read", "Write"}

NextPreference ==
  [Transport |-> "Decode", Decode |-> "Read", Read |-> "Write", Write |-> "Transport"]

CloseRequests ==
  [kind : {"None", "Core", "Abort"}, reason : CloseReasons,
   shutdown : Shutdowns, deadline : 0..Never]

NoRequest ==
  [kind |-> "None", reason |-> "None", shutdown |-> "Immediate", deadline |-> Never]
AbortRequest == [NoRequest EXCEPT !.kind = "Abort"]
CoreRequest(reason, shutdown, deadline) ==
  [kind |-> "Core", reason |-> reason, shutdown |-> shutdown, deadline |-> deadline]

NewSlot ==
  [machine |-> NewMachine, wire |-> [operation \in {} |-> 0], written |-> 0,
   decoder |-> NewDriver, decoderPending |-> FALSE, ioPreference |-> "Transport",
   transportState |-> "Connecting", drainDeadline |-> Never,
   closeRequest |-> NoRequest, owner |-> "Running", timers |-> {},
   outcomes |-> <<>>, recoveryOutcomes |-> <<>>,
   lifecycle |-> <<>>, recoveryEvents |-> <<>>, eventSequence |-> 0,
   diverged |-> FALSE]

(***************************************************************************)
(* The writer, seen through the records that hold a frame.                 *)
(***************************************************************************)
HeldPositions(m) == {i \in DOMAIN m.pending : m.pending[i].writeHeld}
HeldOperations(m) == {m.pending[i].operation : i \in HeldPositions(m)}
HasFrames(s) == HeldPositions(s.machine) # {}
FrontHeld(m) == m.pending[Min(HeldPositions(m))].operation
FrontOperation(s) == FrontHeld(s.machine)
FrontRemaining(s) == s.wire[FrontOperation(s)] - s.written

\* Only the front frame can be partly written.
WrittenAfter(s, m) ==
  IF /\ HeldPositions(m) # {}
     /\ HasFrames(s)
     /\ FrontHeld(m) = FrontOperation(s)
  THEN s.written ELSE 0

(***************************************************************************)
(* Owner failure.                                                          *)
(***************************************************************************)
Running(s) == s.owner = "Running"
Fail(s, kind) == IF Running(s) THEN [s EXCEPT !.owner = kind] ELSE s

\* Slip: a failed owner keeps whatever close was asked for.
LatchKeepsRequest(s) == IF Running(s) THEN s ELSE [s EXCEPT !.drainDeadline = Never]

\* A call that started on a running slot ends here.
Latch(s) ==
  IF Running(s) THEN s
  ELSE [s EXCEPT !.drainDeadline = Never, !.closeRequest = AbortRequest]

(***************************************************************************)
(* Publication.  An item that does not fit goes to the recovery batch and  *)
(* fails the call; one that fits nowhere is lost.                          *)
(***************************************************************************)
OutcomeBytes(outcomes) ==
  LET sum[i \in 0..Len(outcomes)] == IF i = 0 THEN 0 ELSE sum[i - 1] + outcomes[i].reply
  IN  sum[Len(outcomes)]

OutcomeFits(outcomes, outcome) ==
  /\ Len(outcomes) < MaxOperations
  /\ OutcomeBytes(outcomes) + outcome.reply <= ReplyBytes * MaxOperations

Publish(s, outcome) ==
  IF OutcomeFits(s.outcomes, outcome)
  THEN [s EXCEPT !.outcomes = Append(@, outcome)]
  ELSE Fail(IF OutcomeFits(s.recoveryOutcomes, outcome)
            THEN [s EXCEPT !.recoveryOutcomes = Append(@, outcome)] ELSE s,
            "OwnerInvariant")

\* The four lifecycle edges of one epoch fit the recovery batch.
RecoveryEvents == IF LifecycleEvents > 4 THEN LifecycleEvents ELSE 4

\* Slip: an event that does not fit is dropped and not counted.
PublishEventOrDrop(s, kind, reason) ==
  IF Len(s.lifecycle) < LifecycleEvents
  THEN [s EXCEPT !.eventSequence = @ + 1,
                 !.lifecycle = Append(@, [sequence |-> s.eventSequence + 1, kind |-> kind,
                                          reason |-> reason])]
  ELSE [s EXCEPT !.eventSequence = @ + 1]

PublishEvent(s, kind, reason) ==
  LET event == [sequence |-> s.eventSequence + 1, kind |-> kind, reason |-> reason]
      counted == [s EXCEPT !.eventSequence = event.sequence]
  IN  IF Len(s.lifecycle) < LifecycleEvents
      THEN [counted EXCEPT !.lifecycle = Append(@, event)]
      ELSE Fail(IF Len(s.recoveryEvents) < RecoveryEvents
                THEN [counted EXCEPT !.recoveryEvents = Append(@, event)] ELSE counted,
                "OwnerInvariant")

(***************************************************************************)
(* Interpreting a core transition.                                         *)
(***************************************************************************)
\* Slip: the timer of a concluded operation stays scheduled.
CancelDeadlineLazily(timers, operations) == timers

CancelDeadline(timers, operations) == {timer \in timers : timer[1] \notin operations}

\* The index is replaced entry by entry and never grows past the capacity.
ScheduleDeadline(s, timer) ==
  LET kept == CancelDeadline(s.timers, {timer[1]})
  IN  IF Cardinality(kept) >= MaxOperations
      THEN Fail([s EXCEPT !.timers = kept], "OwnerInvariant")
      ELSE [s EXCEPT !.timers = kept \cup {timer}]

FinishClose(s, reason) ==
  IF s.closeRequest # NoRequest THEN s
  ELSE LET closing == PublishEvent(s, "Closing", reason)
           graceful == s.transportState = "Open" /\ reason = "Drained"
           missing == graceful /\ s.drainDeadline = Never
           shutdown == IF graceful /\ ~missing THEN "Pending" ELSE "Immediate"
       IN  [IF missing THEN Fail(closing, "OwnerInvariant") ELSE closing EXCEPT
              !.drainDeadline = Never,
              !.transportState = "Closing",
              !.closeRequest = CoreRequest(reason, shutdown,
                                 IF shutdown = "Pending" THEN s.drainDeadline ELSE Never)]

\* A transition schedules at most one deadline.
ScheduleAll(s, schedule) ==
  IF schedule = {} THEN s ELSE ScheduleDeadline(s, CHOOSE timer \in schedule : TRUE)

\* The outcomes of a transition go out in the order of the records they belong to.
PublishAll(s, pending, outcomes) ==
  LET of(i) == {outcome \in outcomes : outcome.operation = pending[i].operation}
      after[i \in 0..Len(pending)] ==
        IF i = 0 THEN s
        ELSE IF of(i) = {} THEN after[i - 1]
        ELSE Publish(after[i - 1], CHOOSE outcome \in of(i) : TRUE)
  IN  after[Len(pending)]

Interpret(s, t) ==
  LET moved == [s EXCEPT !.machine = t.machine,
                         !.wire = [operation \in HeldOperations(t.machine) |-> s.wire[operation]],
                         !.written = WrittenAfter(s, t.machine),
                         !.timers = CancelDeadline(@, t.cancel)]
      published == PublishAll(ScheduleAll(moved, t.schedule), s.machine.pending, t.publish)
  IN  IF s.machine.phase = "Live" /\ t.machine.phase = "Closing"
      THEN FinishClose(published, t.machine.closeReason)
      ELSE published

CloseFor(s, reason) == Interpret(s, OnCloseRequested(s.machine, reason))
CloseMalformed(s) == Interpret(s, OnReplyMalformed(s.machine))

CloseDecodeError(s, error) ==
  IF error \in {"RetainedByteCapacity", "RetainedContractViolation"}
  THEN CloseFor(s, "InboundRetainedCapacity")
  ELSE CloseMalformed(s)

(***************************************************************************)
(* Closing: shutdown progress and settlement.                              *)
(***************************************************************************)
SettlementReady(request) ==
  \/ request.kind = "Abort"
  \/ request.kind = "Core" /\ request.shutdown \in {"Immediate", "Complete"}

ShuttingDown(s) ==
  s.closeRequest.kind = "Core" /\ s.closeRequest.shutdown \in {"Pending", "Started"}

SetShutdown(s, shutdown) ==
  [s EXCEPT !.closeRequest.shutdown = shutdown,
            !.closeRequest.deadline = IF shutdown = "Started" THEN @ ELSE Never]

ForceShutdown(s) == IF ShuttingDown(s) THEN SetShutdown(s, "Immediate") ELSE s

ObserveShutdownComplete(s, complete) ==
  IF s.closeRequest.shutdown = "Started" /\ complete THEN SetShutdown(s, "Complete") ELSE s

AbortTransport(s) ==
  [s EXCEPT !.transportState = "Closed", !.drainDeadline = Never, !.closeRequest = NoRequest]

ConfirmTransportClosed(s, reason) ==
  PublishEvent(Interpret([s EXCEPT !.transportState = "Closed", !.closeRequest = NoRequest],
                         OnEpochClosed(s.machine)),
               "Closed", reason)

SettleTransportClosed(s) ==
  IF s.closeRequest.kind = "Abort" THEN AbortTransport(s)
  ELSE LET confirmed == ConfirmTransportClosed(s, s.closeRequest.reason)
       IN  IF Running(confirmed) THEN confirmed ELSE AbortTransport(confirmed)

(***************************************************************************)
(* The transport (external): what a SlotTransport may report before and    *)
(* after any call that keeps its contract.  "over" is pressure above, or a *)
(* limit other than, the bound the slot was given.                         *)
(***************************************************************************)
Transports ==
  LET over == IF "Pressure" \in TransportFaults THEN BOOLEAN ELSE {FALSE}
      completes == IF LocalWork THEN BOOLEAN ELSE {TRUE}
  IN  [present : {TRUE}, open : {FALSE}, establish : BOOLEAN, work : {FALSE},
       read : {FALSE}, write : {FALSE}, complete : {~LocalWork}, over : over]
      \cup
      [present : {TRUE}, open : {TRUE}, establish : {FALSE},
       work : IF LocalWork THEN BOOLEAN ELSE {FALSE},
       read : BOOLEAN, write : BOOLEAN, complete : completes, over : over]

NoTransport ==
  [present |-> FALSE, open |-> FALSE, establish |-> FALSE, work |-> FALSE,
   read |-> FALSE, write |-> FALSE, complete |-> FALSE, over |-> FALSE]

FreshTransport == [NoTransport EXCEPT !.present = TRUE, !.complete = ~LocalWork]

\* Establishment and completion are never undone.
Evolves(u) == {v \in Transports : u.open = v.open /\ u.complete = v.complete}
Opens(u) == {v \in Transports : v.complete = u.complete}
Completes(u) == {v \in Transports : u.open = v.open /\ (u.complete => v.complete)}

(***************************************************************************)
(* The quantum.                                                            *)
(***************************************************************************)
IdleQuantum == [pc |-> "Idle", work |-> 0]
Idle == quantum.pc = "Idle" /\ ~report.recovered
Connecting(s) == s.transportState = "Connecting"

OperationDeadline(s) ==
  LET deadlines == {timer[2] : timer \in s.timers} \cup {Never}
  IN  Min(deadlines)

\* Slip: an elapsed drain deadline goes before every operation deadline.
DrainFirstAlways(s) ==
  /\ IsElapsedAt(s.drainDeadline, now)
  /\ Connecting(s) => s.drainDeadline <= ConnectDeadline

DrainFirst(s) ==
  /\ IsElapsedAt(s.drainDeadline, now)
  /\ s.drainDeadline <= OperationDeadline(s)
  /\ Connecting(s) => s.drainDeadline <= ConnectDeadline

ConnectFirst(s) ==
  /\ Connecting(s)
  /\ IsElapsedAt(ConnectDeadline, now)
  /\ ConnectDeadline <= OperationDeadline(s)

HasDueDeadline(s) ==
  \/ Connecting(s) /\ IsElapsedAt(ConnectDeadline, now)
  \/ IsElapsedAt(s.drainDeadline, now)
  \/ IsElapsedAt(OperationDeadline(s), now)

\* Slip: a graceful shutdown has no deadline of its own.
NextDeadlineSkipsShutdown(s) ==
  LET deadlines == {OperationDeadline(s), s.drainDeadline}
                     \cup (IF Connecting(s) THEN {ConnectDeadline} ELSE {})
  IN  Min(deadlines)

NextDeadline(s) ==
  LET deadlines == {OperationDeadline(s), s.drainDeadline, s.closeRequest.deadline}
                     \cup (IF Connecting(s) THEN {ConnectDeadline} ELSE {})
  IN  Min(deadlines)

\* What each attempt of drive_ready_once finds to do.
WorkFor(s, u) ==
  [Transport |-> IF Connecting(s) THEN u.open \/ u.establish ELSE u.work,
   Decode |-> s.decoderPending,
   Read |-> s.transportState = "Open" /\ u.read,
   Write |-> /\ s.transportState = "Open"
             /\ u.open
             /\ HasFrames(s)
             /\ FrontRemaining(s) = 0 \/ u.write]

Rotation(p) ==
  <<p, NextPreference[p], NextPreference[NextPreference[p]],
    NextPreference[NextPreference[NextPreference[p]]]>>

\* The attempt that progresses: the first in rotation order with work to do.
Attempt(s, u) ==
  LET order == Rotation(s.ioPreference)
      ready == {i \in DOMAIN order : WorkFor(s, u)[order[i]]}
  IN  IF ready = {} THEN "None" ELSE order[Min(ready)]

\* Slip: an empty frame counts as runnable only while the transport is writable.
HasRunnableIoNeedsWritable(s, u) ==
  \/ s.decoderPending
  \/ Connecting(s) /\ (u.open \/ u.establish)
  \/ s.transportState = "Open" /\ (u.work \/ u.read)
  \/ s.transportState = "Open" /\ u.open /\ HasFrames(s) /\ u.write

HasRunnableIo(s, u) ==
  \/ s.decoderPending
  \/ Connecting(s) /\ (u.open \/ u.establish)
  \/ s.transportState = "Open" /\ u.work
  \/ s.transportState = "Open" /\ u.read
  \/ /\ s.transportState = "Open"
     /\ u.open
     /\ HasFrames(s)
     /\ FrontRemaining(s) = 0 \/ u.write

HasRunnableShutdown(s, u) ==
  \/ s.closeRequest.kind = "Core" /\ s.closeRequest.shutdown = "Pending"
  \/ /\ s.closeRequest.kind = "Core" /\ s.closeRequest.shutdown = "Started"
     /\ IsElapsedAt(s.closeRequest.deadline, now) \/ u.complete \/ u.work

CapturePressure(s, u) ==
  IF u.over THEN Fail([s EXCEPT !.diverged = TRUE], "OwnerInvariant") ELSE s

\* Leave the quantum; "saturated" asks the host to drive again.
Return(s, saturated) ==
  /\ slot' = Latch(s)
  /\ quantum' = IdleQuantum
  /\ wake' = (saturated /\ Running(s))

\* Go on after one unit of work: at "pc", with the close, or not at all.
Continue(s, u, pc, saturated) ==
  LET work == quantum.work + 1
  IN  IF ~Running(s) THEN Return(s, FALSE)
      ELSE IF s.closeRequest # NoRequest
      THEN slot' = s /\ quantum' = [pc |-> "Shutdown", work |-> work] /\ UNCHANGED wake
      ELSE IF work = IoOperations THEN Return(s, saturated)
      ELSE slot' = s /\ quantum' = [pc |-> pc, work |-> work] /\ UNCHANGED wake

outsideVars == <<permits, now, committed, delivered, observed, report>>

DriveQuantum ==
  /\ Idle
  /\ Running(slot)
  /\ IF transport.over
     THEN Return(CapturePressure(slot, transport), FALSE)
     ELSE /\ quantum' = [pc |-> IF slot.closeRequest = NoRequest THEN "Deadlines" ELSE "Shutdown",
                         work |-> 0]
          /\ wake' = FALSE
          /\ UNCHANGED slot
  /\ UNCHANGED <<transport, broken, outsideVars>>

(***************************************************************************)
(* Deadlines (drive/deadline.rs).                                          *)
(***************************************************************************)
AfterDeadline(s, pc) ==
  /\ Continue(s, transport, pc, HasDueDeadline(s) \/ HasRunnableIo(s, transport))
  /\ UNCHANGED <<transport, broken, outsideVars>>

DrainElapses ==
  /\ quantum.pc = "Deadlines"
  /\ DrainFirst(slot)
  /\ AfterDeadline(CloseFor([slot EXCEPT !.drainDeadline = Never], "Requested"), "Io")

ConnectElapses ==
  /\ quantum.pc = "Deadlines"
  /\ ~DrainFirst(slot)
  /\ ConnectFirst(slot)
  /\ AfterDeadline(CloseFor(slot, "ConnectTimedOut"), "Io")

OperationElapses(timer) ==
  /\ quantum.pc = "Deadlines"
  /\ ~DrainFirst(slot)
  /\ ~ConnectFirst(slot)
  /\ timer[2] = OperationDeadline(slot)
  /\ IsElapsedAt(timer[2], now)
  /\ AfterDeadline(Interpret([slot EXCEPT !.timers = @ \ {timer}],
                             OnDeadlineElapsed(slot.machine, timer[1], now)),
                   "Deadlines")

DeadlinesDone ==
  /\ quantum.pc = "Deadlines"
  /\ ~DrainFirst(slot)
  /\ ~ConnectFirst(slot)
  /\ ~IsElapsedAt(OperationDeadline(slot), now)
  /\ quantum' = [quantum EXCEPT !.pc = "Io"]
  /\ UNCHANGED <<slot, transport, wake, broken, outsideVars>>

(***************************************************************************)
(* One attempt of drive_ready_once leaves slot s and transport v.          *)
(***************************************************************************)
Attempting(preference) == quantum.pc = "Io" /\ Attempt(slot, transport) = preference

\* Slip: every attempt starts from the same class again.
RotateNever(s, preference) == s

\* The class after the one that progressed goes first next time.
Rotate(s, preference) == [s EXCEPT !.ioPreference = NextPreference[preference]]

Attempted(preference, s, v, breach) ==
  /\ transport' = v
  /\ broken' = (broken \/ breach \/ v.over)
  /\ Continue(CapturePressure(Rotate(s, preference), v), v, "Io", HasRunnableIo(s, v))
  /\ UNCHANGED outsideVars

IoDone ==
  /\ Attempting("None")
  /\ Return(slot, FALSE)
  /\ UNCHANGED <<transport, broken, outsideVars>>

\* Establishment (drive_transport_once while connecting).
OpenedEarly ==
  /\ Attempting("Transport") /\ Connecting(slot) /\ transport.open
  /\ Attempted("Transport", Fail(slot, "OwnerInvariant"), transport, TRUE)

Establish(v) ==
  /\ Attempting("Transport") /\ Connecting(slot) /\ ~transport.open
  /\ v \in Opens(transport)
  /\ \/ Attempted("Transport",
                  IF v.open
                  THEN PublishEvent([slot EXCEPT !.transportState = "Open"], "TransportOpened", "None")
                  ELSE slot,
                  v, FALSE)
     \/ ~v.open /\ Attempted("Transport", CloseFor(slot, "ConnectFailed"), v, FALSE)
     \/ /\ "Progress" \in TransportFaults
        /\ Attempted("Transport", Fail(slot, "OwnerInvariant"), v, TRUE)

\* Transport-local work (drive_transport_once once open).
TransportWork(v) ==
  /\ Attempting("Transport") /\ ~Connecting(slot)
  /\ v \in Evolves(transport)
  /\ \/ Attempted("Transport", slot, v, FALSE)
     \/ Attempted("Transport", CloseFor(slot, "TransportLost"), v, FALSE)
     \/ /\ "Progress" \in TransportFaults
        /\ Attempted("Transport", Fail(slot, "OwnerInvariant"), v, TRUE)

\* The buffered bytes hold no complete frame.
DecoderDrained(s) ==
  LET drained == [s EXCEPT !.decoderPending = FALSE]
  IN  IF s.decoder.retained >= DecoderBytes
      THEN CloseFor(drained, "InboundRetainedCapacity") ELSE drained

\* drive_decoder_once: at most one frame, classified and matched.
Decoded(s, result) ==
  LET next == [s EXCEPT !.decoder = result.driver]
  IN  IF result.error # "None"
      THEN CloseDecodeError([next EXCEPT !.decoderPending = FALSE], result.error)
      ELSE IF result.frame = NoFrame THEN DecoderDrained(next)
      ELSE IF result.frame.bytes > ReplyBytes THEN CloseFor(next, "InboundRetainedCapacity")
      ELSE IF result.frame.key \notin Keys THEN CloseMalformed(next)
      ELSE Interpret(next, OnReply(next.machine, result.frame.key, result.frame.bytes))

Decode(result) ==
  /\ Attempting("Decode")
  /\ result \in NextFrame(slot.decoder)
  /\ Attempted("Decode", Decoded(slot, result), transport, FALSE)

(***************************************************************************)
(* Reads and writes (drive/application.rs).                                *)
(***************************************************************************)
ReadLength(s) ==
  IF s.decoder.retained >= DecoderBytes THEN 0
  ELSE IF DecoderBytes - s.decoder.retained < IoChunk
  THEN DecoderBytes - s.decoder.retained ELSE IoChunk

ReadWithoutRoom ==
  /\ Attempting("Read")
  /\ ReadLength(slot) = 0
  /\ Attempted("Read", CloseFor(slot, "InboundRetainedCapacity"), transport, FALSE)

ReadBytes(n, v) ==
  /\ Attempting("Read")
  /\ n \in 1..ReadLength(slot)
  /\ v \in Evolves(transport)
  /\ \E result \in Feed(slot.decoder, n) :
       LET fed == [slot EXCEPT !.decoder = result.driver]
       IN  Attempted("Read",
                     IF result.error = "None" THEN [fed EXCEPT !.decoderPending = TRUE]
                     ELSE CloseDecodeError(fed, result.error),
                     v, FALSE)

\* End of stream, an error, a would-block or a count above the buffer.
ReadNothing(v) ==
  /\ Attempting("Read")
  /\ ReadLength(slot) > 0
  /\ v \in Evolves(transport)
  /\ \/ Attempted("Read", CloseFor(slot, "TransportLost"), v, FALSE)
     \/ ~v.read /\ Attempted("Read", slot, v, FALSE)
     \/ /\ "OverRead" \in TransportFaults
        /\ Attempted("Read", Fail(slot, "OwnerInvariant"), v, TRUE)

\* ConnectionCore::advance_write for the front frame.
AdvanceFront(s, n) ==
  LET operation == FrontOperation(s)
      started == IF n > 0 /\ s.written = 0 THEN WriteStarted(s.machine, operation) ELSE s.machine
  IN  IF n < FrontRemaining(s)
      THEN [s EXCEPT !.machine = started, !.written = @ + n]
      ELSE Interpret([s EXCEPT !.machine = started], OnWriteCompleted(started, operation))

WriteEmpty ==
  /\ Attempting("Write")
  /\ FrontRemaining(slot) = 0
  /\ Attempted("Write", AdvanceFront(slot, 0), transport, FALSE)

WriteBytes(n, v) ==
  /\ Attempting("Write")
  /\ n \in 1..FrontRemaining(slot)
  /\ n <= IoChunk
  /\ v \in Evolves(transport)
  /\ Attempted("Write", AdvanceFront(slot, n), v, FALSE)

WriteNothing(v) ==
  /\ Attempting("Write")
  /\ FrontRemaining(slot) > 0
  /\ v \in Evolves(transport)
  /\ \/ Attempted("Write", CloseFor(slot, "TransportLost"), v, FALSE)
     \/ ~v.write /\ Attempted("Write", slot, v, FALSE)
     \/ /\ "OverWrite" \in TransportFaults
        /\ Attempted("Write", Fail([slot EXCEPT !.diverged = TRUE], "Core"), v, TRUE)

(***************************************************************************)
(* Bounded graceful shutdown (drive/shutdown.rs).                          *)
(***************************************************************************)
ShutdownRuns ==
  /\ quantum.pc = "Shutdown"
  /\ quantum.work < IoOperations
  /\ transport.present
  /\ ShuttingDown(slot)

ShutdownTimesOut ==
  /\ ShutdownRuns
  /\ IsElapsedAt(slot.closeRequest.deadline, now)
  /\ Continue(SetShutdown(slot, "Immediate"), transport, "Shutdown", FALSE)
  /\ UNCHANGED <<transport, broken, outsideVars>>

ShutdownCalled(s, v, breach) ==
  /\ transport' = v
  /\ broken' = (broken \/ breach \/ v.over)
  /\ Continue(CapturePressure(s, v), v, "Shutdown", FALSE)
  /\ UNCHANGED outsideVars

\* begin_shutdown, then drive_transport while work remains.
ShutdownProgresses(v) ==
  /\ ShutdownRuns
  /\ ~IsElapsedAt(slot.closeRequest.deadline, now)
  /\ \/ slot.closeRequest.shutdown = "Pending"
     \/ slot.closeRequest.shutdown = "Started" /\ ~transport.complete /\ transport.work
  /\ v \in Completes(transport)
  /\ \/ ShutdownCalled(SetShutdown(slot, IF v.complete THEN "Complete" ELSE "Started"), v, FALSE)
     \/ ShutdownCalled(SetShutdown(slot, "Immediate"), v, FALSE)
     \/ /\ "Progress" \in TransportFaults
        /\ ShutdownCalled(Fail(slot, "OwnerInvariant"), v, TRUE)

\* Nothing left for this quantum: the shutdown is over, waits for the transport
\* or for the next quantum.
ShutdownDone ==
  /\ quantum.pc = "Shutdown"
  /\ \/ ~ShutdownRuns
     \/ /\ ~IsElapsedAt(slot.closeRequest.deadline, now)
        /\ slot.closeRequest.shutdown = "Started"
        /\ transport.complete \/ ~transport.work
  /\ LET s == IF ShutdownRuns THEN ObserveShutdownComplete(slot, transport.complete) ELSE slot
     IN  Return(s, /\ quantum.work = IoOperations
                   /\ transport.present
                   /\ HasRunnableShutdown(s, transport))
  /\ UNCHANGED <<transport, broken, outsideVars>>

(***************************************************************************)
(* Calls of the application, between quanta.                               *)
(***************************************************************************)
Called(s) ==
  /\ slot' = Latch(s)
  /\ wake' = TRUE
  /\ UNCHANGED <<transport, now, quantum, broken, observed, delivered, report>>

\* Every owned operation may still publish one outcome.
OutcomesFull(s, m) == Len(s.outcomes) + m.ledger.operations > MaxOperations

\* Admission also keeps room for the outcome; a permit given back at once has
\* still used up its identity.
Reserve(options) ==
  LET machine == ReserveMachine(slot.machine, options)
      permit == NewPermit(slot.machine, options)
      full == OutcomesFull(slot, machine)
  IN  /\ Idle
      /\ Running(slot)
      /\ MachineReserves(slot.machine, now, options)
      /\ slot' = [slot EXCEPT !.machine =
                    IF full
                    THEN [machine EXCEPT !.ledger = RollbackPermit(@, permit.reservation)]
                    ELSE machine]
      /\ permits' = IF full THEN permits ELSE permits \cup {permit}
      /\ UNCHANGED <<transport, now, quantum, wake, broken, committed, observed,
                     delivered, report>>

DropPermit(permit) ==
  /\ Idle
  /\ permits' = permits \ {permit}
  /\ slot' = [slot EXCEPT !.machine.ledger = RollbackPermit(@, permit.reservation)]
  /\ UNCHANGED <<transport, now, quantum, wake, broken, committed, observed,
                 delivered, report>>

\* The frame's retained bytes are the write bytes reserved for it.
Commit(permit, wire) ==
  LET frame == [wire |-> wire, retained |-> permit.reservation.writeRetained]
      accepted == [Transition(CommitPermit(slot.machine, permit, frame)) EXCEPT
                     !.schedule = {<<permit.operation, permit.deadline>>}]
      wires == [operation \in DOMAIN slot.wire \cup {permit.operation} |->
                  IF operation = permit.operation THEN wire ELSE slot.wire[operation]]
      framed == [slot EXCEPT !.wire = wires]
  IN  /\ Idle
      /\ Running(slot)
      /\ MachineCommits(slot.machine, permit, frame)
      /\ Called(Interpret(framed, accepted))
      /\ permits' = permits \ {permit}
      /\ committed' = committed \cup {permit.operation}

Controlled(s) == Idle /\ Running(slot) /\ Called(s) /\ UNCHANGED <<permits, committed>>

OpenAdmission ==
  LET opened == Interpret(slot, OnOpenAdmission(slot.machine))
  IN  /\ slot.transportState = "Open"
      /\ opened.machine # slot.machine
      /\ Controlled(PublishEvent(opened, "AdmissionOpened", "None"))

Cancel(operation) ==
  Controlled(Interpret(slot, OnCancel(slot.machine, operation)))

\* Slip: the deadline is recorded after the transition was interpreted.
BeginDrainLate(deadline) ==
  LET t == OnBeginDrain(slot.machine)
  IN  /\ t.machine # slot.machine
      /\ Controlled([Interpret(slot, t) EXCEPT !.drainDeadline = deadline])

BeginDrain(deadline) ==
  LET t == OnBeginDrain(slot.machine)
  IN  /\ t.machine # slot.machine
      /\ Controlled(Interpret([slot EXCEPT !.drainDeadline = deadline], t))

\* Preempts a graceful shutdown and keeps the reason the close already has.
Finalize(reason) ==
  Controlled(IF ShuttingDown(slot) THEN ForceShutdown(slot) ELSE CloseFor(slot, reason))

DrainOutcomes ==
  /\ Idle
  /\ slot.outcomes # <<>>
  /\ delivered' = delivered \o slot.outcomes
  /\ slot' = [slot EXCEPT !.outcomes = <<>>]
  /\ UNCHANGED <<transport, permits, now, quantum, wake, broken, committed, observed, report>>

DrainEvents ==
  /\ Idle
  /\ slot.lifecycle # <<>>
  /\ observed' = observed \o slot.lifecycle
  /\ slot' = [slot EXCEPT !.lifecycle = <<>>]
  /\ UNCHANGED <<transport, permits, now, quantum, wake, broken, committed, delivered, report>>

(***************************************************************************)
(* The host: readiness, time, settlement and recovery.                     *)
(***************************************************************************)

\* An observation only turns flags on.
Readiness(v) ==
  /\ Idle
  /\ transport.present
  /\ v # transport
  /\ v \in IF "OpenEarly" \in TransportFaults THEN Opens(transport) ELSE
             IF slot.closeRequest.shutdown = "Started" THEN Completes(transport) ELSE Evolves(transport)
  /\ \A flag \in {"establish", "work", "read", "write"} :
       transport[flag] /\ v.open = transport.open => v[flag]
  /\ transport' = v
  /\ wake' = TRUE
  /\ broken' = (broken \/ v.over \/ (v.open /\ Connecting(slot)))
  /\ UNCHANGED <<slot, quantum, outsideVars>>

Tick ==
  /\ Idle
  /\ now < Horizon
  /\ now' = now + 1
  /\ UNCHANGED <<slot, transport, permits, quantum, wake, broken, committed, delivered,
                 observed, report>>

\* The host releases the transport once the slot is ready for it.
Settle ==
  LET s == ObserveShutdownComplete(slot, transport.complete)
  IN  /\ Idle
      /\ transport.present
      /\ SettlementReady(s.closeRequest)
      /\ slot' = SettleTransportClosed(s)
      /\ transport' = NoTransport
      /\ UNCHANGED <<quantum, wake, broken, outsideVars>>

\* Slip: only operations not yet started are handed back.
RecoverableQueued(m) ==
  Picked(m.pending, {i \in DOMAIN m.pending : m.pending[i].phase = "Queued"})

\* ConnectionCore::recover hands back every operation not yet concluded.
Recoverable(m) ==
  Picked(m.pending, {i \in DOMAIN m.pending : m.pending[i].phase # "Terminal"})

Recover ==
  LET operations == Recoverable(slot.machine)
  IN  /\ Idle
      /\ report' = [recovered |-> TRUE,
                    operations |-> [i \in DOMAIN operations |-> operations[i].operation],
                    outcomes |-> slot.outcomes \o slot.recoveryOutcomes,
                    events |-> slot.lifecycle \o slot.recoveryEvents,
                    diverged |-> slot.diverged]
      /\ slot' = [slot EXCEPT
                    !.machine.pending = <<>>,
                    !.machine.ledger = ReleaseRecords(@, slot.machine.pending),
                    !.wire = [operation \in {} |-> 0], !.written = 0,
                    !.outcomes = <<>>, !.recoveryOutcomes = <<>>,
                    !.lifecycle = <<>>, !.recoveryEvents = <<>>]
      /\ UNCHANGED <<transport, permits, now, quantum, wake, broken, committed, delivered, observed>>

NoReport ==
  [recovered |-> FALSE, operations |-> <<>>, outcomes |-> <<>>, events |-> <<>>, diverged |-> FALSE]

Init ==
  /\ slot = NewSlot
  /\ transport = FreshTransport
  /\ permits = {}
  /\ now = 0
  /\ quantum = IdleQuantum
  /\ wake = TRUE
  /\ committed = {}
  /\ delivered = <<>>
  /\ observed = <<>>
  /\ broken = FALSE
  /\ report = NoReport

QuantumStep ==
  \/ DrainElapses \/ ConnectElapses \/ DeadlinesDone
  \/ \E timer \in slot.timers : OperationElapses(timer)
  \/ OpenedEarly \/ WriteEmpty \/ ReadWithoutRoom \/ IoDone
  \/ \E v \in Transports : Establish(v) \/ TransportWork(v) \/ ReadNothing(v) \/ WriteNothing(v)
  \/ \E result \in NextFrame(slot.decoder) : Decode(result)
  \/ \E n \in 1..IoChunk, v \in Transports : ReadBytes(n, v) \/ WriteBytes(n, v)
  \/ ShutdownTimesOut \/ ShutdownDone
  \/ \E v \in Transports : ShutdownProgresses(v)

Application ==
  \/ \E options \in Options : Reserve(options)
  \/ \E permit \in permits : DropPermit(permit)
  \/ \E permit \in permits, wire \in WireLengths : Commit(permit, wire)
  \/ OpenAdmission
  \/ \E operation \in Operations : Cancel(operation)
  \/ \E deadline \in DrainDeadlines : BeginDrain(deadline)
  \/ \E reason \in RequestedReasons : Finalize(reason)
  \/ DrainOutcomes
  \/ DrainEvents

Host ==
  \/ \E v \in Transports : Readiness(v)
  \/ Tick
  \/ DriveQuantum
  \/ Settle
  \/ Recover

Next == QuantumStep \/ Application \/ Host

Spec == Init /\ [][Next]_vars

=============================================================================
