---------------------------- MODULE SlotProperties ----------------------------
(***************************************************************************)
(* What makes ConnectionSlot correct.                                      *)
(***************************************************************************)
EXTENDS ConnectionSlot

EventKinds == <<"TransportOpened", "AdmissionOpened", "Closing", "Closed">>

Events ==
  [sequence : Nat, kind : {EventKinds[i] : i \in 1..4}, reason : CloseReasons]

Wires == UNION {[operations -> WireLengths] : operations \in SUBSET Operations}

Slots ==
  [machine : Machine, wire : Wires, written : Nat,
   decoder : Driver, decoderPending : BOOLEAN, ioPreference : Preferences,
   transportState : TransportStates, drainDeadline : 0..Never, closeRequest : CloseRequests,
   owner : Owners, timers : SUBSET (Operations \X Moments),
   outcomes : Seq(Outcomes), recoveryOutcomes : Seq(Outcomes),
   lifecycle : Seq(Events), recoveryEvents : Seq(Events), eventSequence : Nat,
   diverged : BOOLEAN]

\* Every variable has its type (one type invariant for the slot).
TypeOK ==
  /\ slot \in Slots
  /\ DOMAIN slot.wire = HeldOperations(slot.machine)
  /\ transport \in Transports \cup {NoTransport}
  /\ permits \in SUBSET Permit
  /\ now \in Moments
  /\ quantum \in [pc : {"Idle", "Deadlines", "Io", "Shutdown"}, work : 0..IoOperations]
  /\ wake \in BOOLEAN
  /\ delivered \in Seq(Outcomes)
  /\ observed \in Seq(Events)

(***************************************************************************)
(* Capacity.                                                               *)
(***************************************************************************)

\* The slot never fails by itself: while the transport keeps its contract and
\* the lifecycle batch is drained in time, closing many operations at once never
\* overflows the outcome batch, tombstones never overflow the deadline index and
\* draining never misses its deadline.
FailsOnlyWhenBroken ==
  ~Running(slot) => broken \/ slot.recoveryEvents # <<>> \/ report.recovered

ObservedPositions ==
  {i \in DOMAIN slot.machine.pending : slot.machine.pending[i].phase # "Terminal"}

\* The outcome batch has room for every operation still to be concluded,
\* permits not yet committed included: what reserve checks once stays true
\* whatever the order of cancellations, drains of the batch and closes.
OutcomeRoomKept ==
  Running(slot) =>
    Len(slot.outcomes) + Cardinality(ObservedPositions) + Cardinality(permits) <= MaxOperations

(***************************************************************************)
(* Publication.                                                            *)
(***************************************************************************)
AllEvents == observed \o slot.lifecycle \o slot.recoveryEvents \o report.events

Rank(event) == CHOOSE i \in 1..4 : EventKinds[i] = event.kind

\* The application sees every lifecycle edge once and in order, without a gap
\* in the sequence numbers, also when a batch overflowed and recovery returns
\* the rest; both closing edges carry the reason the epoch was closed for,
\* whatever finalize asked for later.
EventsGapless ==
  /\ Len(AllEvents) = slot.eventSequence
  /\ \A i \in DOMAIN AllEvents :
       /\ AllEvents[i].sequence = i
       /\ \A j \in 1..(i - 1) : Rank(AllEvents[j]) < Rank(AllEvents[i])
       /\ AllEvents[i].kind \in {"Closing", "Closed"} =>
            AllEvents[i].reason = slot.machine.closeReason

Fates(operation) ==
  LET outcomes == delivered \o slot.outcomes \o slot.recoveryOutcomes \o report.outcomes
  IN  Cardinality({i \in DOMAIN outcomes : outcomes[i].operation = operation})
      + Cardinality({i \in DOMAIN report.operations : report.operations[i] = operation})
      + Cardinality({i \in ObservedPositions : slot.machine.pending[i].operation = operation})

\* An operation commit returned is in exactly one place: still in flight, in
\* one outcome, or in the recovery report; also when a failure cuts a quantum
\* or a publication short.
OneFatePerCommit == \A operation \in committed : Fates(operation) = 1

BeforeOpen == {"ConnectFailed", "ConnectTimedOut"} \ RequestedReasons
AfterOpen ==
  {"TransportLost", "DeadlineAfterPossibleSend", "InboundRetainedCapacity",
   "UnexpectedReply", "MalformedReply", "MatchKeyMismatch"} \ RequestedReasons

\* A connect failure or timeout is reported only of a transport that never
\* opened, and loss or expiry of operations only of one that did, unless it is
\* a reason that finalize was given.
CloseReasonTruthful ==
  LET opened == \E i \in DOMAIN AllEvents : AllEvents[i].kind = "TransportOpened"
  IN  /\ slot.machine.closeReason \in BeforeOpen => ~opened
      /\ slot.machine.closeReason \in AfterOpen => opened

\* Deadlines due together are served earliest first: the drain or the connect
\* deadline does not close an operation that had expired before it.
ExpiredBeforeClose ==
  [][\A timer \in slot.timers :
       slot'.machine.closeReason # slot.machine.closeReason /\ quantum.pc = "Deadlines" =>
         \/ slot'.machine.closeReason = "DeadlineAfterPossibleSend"
         \/ slot'.machine.closeReason = "ConnectTimedOut" /\ ConnectDeadline <= timer[2]
         \/ slot'.machine.closeReason = "Requested" /\ slot.drainDeadline <= timer[2]
         \/ slot'.machine.closeReason = "Drained"]_vars

(***************************************************************************)
(* Progress of a quantum.                                                  *)
(***************************************************************************)

\* What another quantum could do at once.
CouldProgress ==
  \/ /\ slot.closeRequest = NoRequest
     /\ \/ HasDueDeadline(slot)
        \/ Attempt(slot, transport) # "None"
  \/ /\ ShuttingDown(slot)
     /\ transport.present
     /\ \/ IsElapsedAt(slot.closeRequest.deadline, now)
        \/ slot.closeRequest.shutdown = "Pending"
        \/ transport.complete
        \/ transport.work

\* A quantum that reports it was not saturated leaves nothing to do: the host
\* sleeps until readiness, a call or next_deadline, so work overlooked here
\* (an empty frame, buffered bytes, a shutdown step) would wait for nobody.
NoLostWakeup ==
  [][quantum.pc # "Idle" /\ quantum'.pc = "Idle" /\ Running(slot') /\ ~wake' =>
       ~CouldProgress']_vars

\* An open connection never idles over a full decoder that awaits more bytes:
\* nothing could be read and nothing more decoded.
DecoderNeverStalls ==
  Running(slot) /\ slot.transportState = "Open" =>
    \/ slot.decoderPending
    \/ ~slot.decoder.failed /\ slot.decoder.retained < DecoderBytes

\* A settled epoch owns nothing: no record, timer, deadline or request, and a
\* transport is lent to the slot exactly until it settles.
SettledOwnsNothing ==
  /\ slot.transportState = "Closed" <=> ~transport.present
  /\ slot.transportState = "Closed" =>
       slot.drainDeadline = Never /\ slot.closeRequest = NoRequest
  /\ slot.transportState = "Closed" /\ Running(slot) =>
       /\ slot.machine.phase = "Closed"
       /\ slot.machine.pending = <<>>
       /\ slot.timers = {}
  /\ slot.closeRequest # NoRequest /\ Running(slot) <=>
       slot.transportState = "Closing" /\ Running(slot)

\* Every record in flight keeps its own deadline in the timer index, tombstones
\* included, and nothing else does.
TimersMatchRecords ==
  Running(slot) /\ ~report.recovered =>
    slot.timers = {<<slot.machine.pending[i].operation, slot.machine.pending[i].deadline>>
                     : i \in DOMAIN slot.machine.pending}

\* What is true of the slot between any two steps, of calls and quanta alike:
\* its types, one fate for every operation, room for every outcome still to
\* come, one timer for every record and none besides, a decoder that can always
\* go on, a truthful close reason, and nothing owned once the transport is
\* released.
SlotInv ==
  /\ TypeOK
  /\ OneFatePerCommit
  /\ OutcomeRoomKept
  /\ TimersMatchRecords
  /\ DecoderNeverStalls
  /\ CloseReasonTruthful
  /\ SettledOwnsNothing

(***************************************************************************)
(* The slot keeps the contract its owners are built on.                    *)
(***************************************************************************)
Abstract(s) ==
  [owner |-> IF Running(s) THEN "Running" ELSE "Failed",
   state |-> s.transportState,
   close |-> IF s.closeRequest = NoRequest THEN "None"
             ELSE IF s.closeRequest = AbortRequest THEN "Abort"
             ELSE IF SettlementReady(s.closeRequest) THEN "Ready" ELSE "Graceful",
   publications |-> s.outcomes # <<>> \/ s.lifecycle # <<>>]

Contract == INSTANCE SlotContractSpec WITH contract <- Abstract(slot)

\* Whatever fails inside a quantum or a call, the owner of the slot sees one of
\* the steps of SlotContract: a failed slot never runs again and asks for its
\* transport until it is released, a close is never withdrawn, and nothing is
\* released that was not asked for.
KeepsContract == Contract!Spec

(***************************************************************************)
(* Liveness.  A quantum is a call that runs to its end; the host drives    *)
(* when it was asked to or when next_deadline has passed, and looks for a  *)
(* slot to settle after every quantum.  The application, the clock, the    *)
(* peer and the selector owe nothing: no outcome need be drained, no       *)
(* readiness come and no recovery help.                                    *)
(***************************************************************************)
HostDrives == DriveQuantum /\ (wake \/ IsElapsedAt(NextDeadline(slot), now))

LiveNext ==
  \/ QuantumStep
  \/ HostDrives
  \/ Settle
  \/ Tick
  \/ \E v \in Transports : Readiness(v)
  \/ \E options \in Options : Reserve(options)
  \/ \E permit \in permits : DropPermit(permit)
  \/ \E permit \in permits, wire \in WireLengths : Commit(permit, wire)
  \/ OpenAdmission
  \/ \E operation \in Operations : Cancel(operation)
  \/ \E deadline \in DrainDeadlines : BeginDrain(deadline)
  \/ \E reason \in RequestedReasons : Finalize(reason)

\* Weak fairness of QuantumStep, said without its many disjuncts: a quantum
\* takes at most IoOperations units of work and always has a next step (the
\* run checks that it does not deadlock).
QuantaEnd == []<>(quantum.pc = "Idle")

LiveSpec ==
  /\ Init
  /\ [][LiveNext]_vars
  /\ QuantaEnd
  /\ WF_vars(HostDrives)
  /\ SF_vars(Settle)

Settled == slot.transportState = "Closed"

\* While time passes, a close request settles, by completion of the shutdown or
\* by its deadline, although the transport may never report work or completion;
\* and a drain ends, although operations wait for replies that never come.
CloseSettles ==
  SF_vars(Tick) =>
    /\ (slot.closeRequest # NoRequest) ~> Settled
    /\ (slot.machine.gate = "Draining") ~> Settled

\* A frame that could be written does not stay so for ever, although no deadline
\* may come to end the wait: the transport's own work, of which there may always
\* be more, takes turns with it even when a quantum has room for one operation
\* only.
WritesServed == []<>~WorkFor(slot, transport).Write

=============================================================================
