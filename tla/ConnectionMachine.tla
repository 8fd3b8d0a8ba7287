-------------------------- MODULE ConnectionMachine --------------------------
(***************************************************************************)
(* The epoch policy machine (bornera-core, connection/machine.rs, drive.rs,*)
(* cancellation.rs, deadline.rs, response.rs, close.rs, lifecycle.rs).     *)
(*                                                                         *)
(* A machine is a value and a handler maps a machine and its input to a    *)
(* transition: the machine it leaves plus the effects it emits, as         *)
(*   schedule  pairs <<operation, deadline>> of ScheduleDeadline,          *)
(*   cancel    operations of CancelDeadline,                               *)
(*   discard   removed records, in FIFO order, each emitting DiscardWrite  *)
(*             when it still holds its frame,                              *)
(*   publish   the outcomes of PublishOutcome, at most one per operation.  *)
(* CloseEpoch is the change of phase from Live to Closing.  An ignored     *)
(* input is a transition without effects that changes nothing.             *)
(*                                                                         *)
(* A machine belongs to one connection epoch, fixed when it is created.    *)
(***************************************************************************)
EXTENDS ReservationLedger, SequencesExt

CONSTANTS
  MaxIdentity,    \* u64::MAX of the operation and effect counters
  OperationSeed,  \* IdentitySeeds::operation
  EffectSeed,     \* IdentitySeeds::effect
  Moments         \* the instants calls and deadlines are drawn from

ASSUME IdentityAssumption ==
  /\ MaxIdentity \in Nat
  /\ OperationSeed \in 0..MaxIdentity
  /\ EffectSeed \in 0..MaxIdentity

ASSUME MomentsAssumption == Moments \subseteq Nat

Operations == OperationSeed..MaxIdentity
Effects == EffectSeed..MaxIdentity

Phases == {"Live", "Closing", "Closed"}
OperationPhases == {"Queued", "Writing", "AwaitingReply", "Terminal"}
Completions == {"ReplyExpected", "WriteComplete"}
Deliveries == {"NotSent", "PossiblySent"}
ExternalReasons ==
  {"Requested", "TransportLost", "ConnectFailed", "ConnectTimedOut",
   "InboundRetainedCapacity"}
CloseReasons ==
  ExternalReasons \cup {"None", "Drained", "DeadlineAfterPossibleSend",
                        "UnexpectedReply", "MalformedReply", "MatchKeyMismatch"}

Permit ==
  [operation : Operations, effect : Effects, deadline : Moments, class : Classes,
   completion : Completions, reservation : Reservation]

OperationRecord ==
  [operation : Operations, effect : Effects, deadline : Moments,
   reservation : Reservation, phase : OperationPhases, completion : Completions,
   delivery : Deliveries, writeHeld : BOOLEAN]

Machine ==
  [phase : Phases, gate : Gates, closeReason : CloseReasons,
   pending : Seq(OperationRecord), ledger : Ledger,
   nextOperation : OperationSeed..(MaxIdentity + 1),
   nextEffect : EffectSeed..(MaxIdentity + 1)]

NewMachine ==
  [phase |-> "Live", gate |-> "SessionOnly", closeReason |-> "None",
   pending |-> <<>>, ledger |-> EmptyLedger,
   nextOperation |-> OperationSeed, nextEffect |-> EffectSeed]

IsElapsedAt(deadline, now) == deadline <= now

(***************************************************************************)
(* FIFO matching (matching/ordered_verified.rs).  Operation identities are *)
(* unique, so the first position is the only one.                          *)
(***************************************************************************)
Holds(s, operation) == \E i \in DOMAIN s : s[i].operation = operation

IndexOf(s, operation) == CHOOSE i \in DOMAIN s : s[i].operation = operation

RecordOf(m, operation) == m.pending[IndexOf(m.pending, operation)]

\* The items of a sequence at the given positions, in order.
Picked(s, positions) ==
  LET kept[i \in 0..Len(s)] ==
        IF i = 0 THEN <<>>
        ELSE IF i \in positions THEN Append(kept[i - 1], s[i]) ELSE kept[i - 1]
  IN  kept[Len(s)]

SetRecord(m, operation, record) ==
  [m EXCEPT !.pending[IndexOf(m.pending, operation)] = record]

\* Remove a record and release what it holds.
RemoveRecord(m, operation) ==
  [m EXCEPT !.pending = RemoveAt(@, IndexOf(@, operation)),
            !.ledger = ReleaseOperation(@, RecordOf(m, operation))]

(***************************************************************************)
(* Admission (connection/reserve.rs, connection/commit.rs).                *)
(***************************************************************************)

\* An exhausted counter stays above MaxIdentity (Option::None in the code).
IdentityAvailable(m) == m.nextOperation <= MaxIdentity /\ m.nextEffect <= MaxIdentity

MachineReserves(m, now, options) ==
  /\ Admits(m.gate, options.class)
  /\ ~IsElapsedAt(options.deadline, now)
  /\ IdentityAvailable(m)
  /\ CanReserve(m.ledger, options.retained, options.writeRetained)

NewPermit(m, options) ==
  [operation |-> m.nextOperation, effect |-> m.nextEffect,
   deadline |-> options.deadline, class |-> options.class,
   completion |-> options.completion,
   reservation |-> [retained |-> options.retained,
                    writeRetained |-> options.writeRetained,
                    key |-> AllocatedKey(m.ledger)]]

ReserveMachine(m, options) ==
  [m EXCEPT !.ledger = ReserveLedger(@, options.retained, options.writeRetained),
            !.nextOperation = @ + 1,
            !.nextEffect = @ + 1]

\* commit_failure for a permit of this machine (a foreign one is refused too).
MachineCommits(m, permit, frame) ==
  /\ Admits(m.gate, permit.class)
  /\ frame.retained <= permit.reservation.writeRetained

\* Committing lowers the reserved write bytes to the frame's own.
CommitPermit(m, permit, frame) ==
  [m EXCEPT !.ledger = CommitLedger(@, permit.reservation, frame.retained),
            !.pending = Append(@,
              [operation |-> permit.operation, effect |-> permit.effect,
               deadline |-> permit.deadline,
               reservation |-> [permit.reservation EXCEPT !.writeRetained = frame.retained],
               phase |-> "Queued", completion |-> permit.completion,
               delivery |-> "NotSent", writeHeld |-> TRUE])]

(***************************************************************************)
(* Transitions, epoch closure and drain completion (connection/close.rs).  *)
(***************************************************************************)
OutcomeKinds ==
  {"Reply", "WriteComplete", "Cancelled", "DeadlineElapsed", "ConnectionClosed",
   "MatchKeyMismatch"}

Outcomes ==
  [operation : Operations, kind : OutcomeKinds, delivery : Deliveries, reply : Nat]

Transitions ==
  [machine : Machine, schedule : SUBSET (Operations \X Moments),
   cancel : SUBSET Operations, discard : Seq(OperationRecord),
   publish : SUBSET Outcomes]

Transition(m) ==
  [machine |-> m, schedule |-> {}, cancel |-> {}, discard |-> <<>>, publish |-> {}]

Outcome(operation, kind, delivery, reply) ==
  [operation |-> operation, kind |-> kind, delivery |-> delivery, reply |-> reply]

\* Slip: closing publishes an outcome for tombstones too.
ClosureOutcomesOfAll(records, blamed) ==
  {Outcome(records[i].operation,
           IF records[i].operation \in blamed THEN "MatchKeyMismatch" ELSE "ConnectionClosed",
           records[i].delivery, 0)
     : i \in DOMAIN records}

\* The failures of closing: the blamed operation fails with the mismatch, every
\* other observed one with the close reason; tombstones publish nothing.
ClosureOutcomes(records, blamed) ==
  {Outcome(records[i].operation,
           IF records[i].operation \in blamed THEN "MatchKeyMismatch" ELSE "ConnectionClosed",
           records[i].delivery, 0)
     : i \in {j \in DOMAIN records : records[j].phase # "Terminal"}}

CloseInto(t, reason, blamed) ==
  LET m == t.machine
  IN  IF m.phase # "Live" THEN t
      ELSE [t EXCEPT !.machine = [m EXCEPT !.gate = "Closed",
                                           !.phase = "Closing",
                                           !.closeReason = reason,
                                           !.pending = <<>>,
                                           !.ledger = ReleaseRecords(@, m.pending)],
                     !.cancel = @ \cup {m.pending[i].operation : i \in DOMAIN m.pending},
                     !.discard = @ \o m.pending,
                     !.publish = @ \cup ClosureOutcomes(m.pending, blamed)]

FinishDrain(t) ==
  IF t.machine.gate = "Draining" /\ t.machine.pending = <<>>
  THEN CloseInto(t, "Drained", {})
  ELSE t

\* Slip: removing the last operation of a drain does not end the drain.
RemoveNotSentOnly(m, operation, kind) ==
  [Transition(RemoveRecord(m, operation)) EXCEPT
     !.discard = <<RecordOf(m, operation)>>,
     !.cancel = {operation},
     !.publish = {Outcome(operation, kind, "NotSent", 0)}]

\* A record leaves the FIFO before any byte was sent: its frame is discarded,
\* its timer cancelled and one outcome published (cancellation and deadline).
RemoveNotSent(m, operation, kind) ==
  FinishDrain([Transition(RemoveRecord(m, operation)) EXCEPT
                 !.discard = <<RecordOf(m, operation)>>,
                 !.cancel = {operation},
                 !.publish = {Outcome(operation, kind, "NotSent", 0)}])

(***************************************************************************)
(* Handlers.                                                               *)
(***************************************************************************)
OnOpenAdmission(m) ==
  Transition(IF m.phase = "Live" /\ m.gate = "SessionOnly"
             THEN [m EXCEPT !.gate = "Open"] ELSE m)

\* Slip: cancelling removes an operation whose frame is half written.
OnCancelDropsStarted(m, operation) ==
  IF ~Holds(m.pending, operation) \/ RecordOf(m, operation).phase = "Terminal"
  THEN Transition(m)
  ELSE IF RecordOf(m, operation).writeHeld
       THEN RemoveNotSent(m, operation, "Cancelled")
       ELSE [Transition(SetRecord(m, operation,
                          [RecordOf(m, operation) EXCEPT !.phase = "Terminal"]))
             EXCEPT !.publish = {Outcome(operation, "Cancelled", "PossiblySent", 0)}]

\* Slip: cancelling forgets an operation that waits for its reply.
OnCancelForgetsReply(m, operation) ==
  IF ~Holds(m.pending, operation) \/ RecordOf(m, operation).phase = "Terminal"
  THEN Transition(m)
  ELSE IF RecordOf(m, operation).delivery = "NotSent" \/ ~RecordOf(m, operation).writeHeld
       THEN RemoveNotSent(m, operation, "Cancelled")
       ELSE [Transition(SetRecord(m, operation,
                          [RecordOf(m, operation) EXCEPT !.phase = "Terminal"]))
             EXCEPT !.publish = {Outcome(operation, "Cancelled", "PossiblySent", 0)}]

\* A tombstone keeps its slot, key, deadline and remaining frame bytes.
OnCancel(m, operation) ==
  IF ~Holds(m.pending, operation) \/ RecordOf(m, operation).phase = "Terminal"
  THEN Transition(m)
  ELSE IF RecordOf(m, operation).delivery = "NotSent"
       THEN RemoveNotSent(m, operation, "Cancelled")
       ELSE [Transition(SetRecord(m, operation,
                          [RecordOf(m, operation) EXCEPT !.phase = "Terminal"]))
             EXCEPT !.publish = {Outcome(operation, "Cancelled", "PossiblySent", 0)}]

\* Slip: a timer delivered early is not scheduled again.
OnDeadlineElapsedForgetsEarly(m, operation, now) ==
  IF ~Holds(m.pending, operation) \/ ~IsElapsedAt(RecordOf(m, operation).deadline, now)
  THEN Transition(m)
  ELSE IF RecordOf(m, operation).delivery = "PossiblySent"
       THEN CloseInto(Transition(m), "DeadlineAfterPossibleSend", {})
       ELSE RemoveNotSent(m, operation, "DeadlineElapsed")

\* Slip: a tombstone has its outcome, so its deadline is ignored.
OnDeadlineElapsedSparesTombstone(m, operation, now) ==
  IF ~Holds(m.pending, operation) \/ RecordOf(m, operation).phase = "Terminal"
  THEN Transition(m)
  ELSE IF ~IsElapsedAt(RecordOf(m, operation).deadline, now)
       THEN [Transition(m) EXCEPT !.schedule = {<<operation, RecordOf(m, operation).deadline>>}]
       ELSE IF RecordOf(m, operation).delivery = "PossiblySent"
            THEN CloseInto(Transition(m), "DeadlineAfterPossibleSend", {})
            ELSE RemoveNotSent(m, operation, "DeadlineElapsed")

\* An early timer restores the original absolute deadline.
OnDeadlineElapsed(m, operation, now) ==
  IF ~Holds(m.pending, operation) THEN Transition(m)
  ELSE LET record == RecordOf(m, operation)
       IN  IF ~IsElapsedAt(record.deadline, now)
           THEN [Transition(m) EXCEPT !.schedule = {<<operation, record.deadline>>}]
           ELSE IF record.delivery = "PossiblySent"
                THEN CloseInto(Transition(m), "DeadlineAfterPossibleSend", {})
                ELSE RemoveNotSent(m, operation, "DeadlineElapsed")

\* The FIFO front may own a reply once its frame left the writer.
FrontAwaitsReply(m) ==
  /\ m.pending # <<>>
  /\ m.pending[1].phase \in {"AwaitingReply", "Terminal"}
  /\ ~m.pending[1].writeHeld

\* Slip: the reply of a cancelled operation is dropped, its slot kept.
OnReplyKeepsTombstone(m, key, reply) ==
  IF m.phase # "Live" \/ (FrontAwaitsReply(m) /\ m.pending[1].phase = "Terminal")
  THEN Transition(m)
  ELSE IF ~FrontAwaitsReply(m) THEN CloseInto(Transition(m), "UnexpectedReply", {})
  ELSE LET front == m.pending[1]
       IN  FinishDrain(
             [Transition([m EXCEPT !.pending = Tail(@),
                                   !.ledger = ReleaseAll(@, front.reservation, FALSE, FALSE)])
              EXCEPT !.cancel = {front.operation},
                     !.publish = {Outcome(front.operation, "Reply", front.delivery, reply)}])

OnReply(m, key, reply) ==
  IF m.phase # "Live" THEN Transition(m)
  ELSE IF ~FrontAwaitsReply(m) THEN CloseInto(Transition(m), "UnexpectedReply", {})
  ELSE LET front == m.pending[1]
       IN  IF key # front.reservation.key
           THEN CloseInto(Transition(m), "MatchKeyMismatch", {front.operation})
           ELSE FinishDrain(
                  [Transition([m EXCEPT !.pending = Tail(@),
                                        !.ledger = ReleaseAll(@, front.reservation, FALSE, FALSE)])
                   EXCEPT !.cancel = {front.operation},
                          !.publish = IF front.phase = "Terminal" THEN {}
                                      ELSE {Outcome(front.operation, "Reply", front.delivery, reply)}])

OnReplyMalformed(m) == CloseInto(Transition(m), "MalformedReply", {})

OnBeginDrain(m) ==
  IF m.phase # "Live" \/ m.gate \in {"Closed", "Draining"} THEN Transition(m)
  ELSE FinishDrain(Transition([m EXCEPT !.gate = "Draining"]))

OnCloseRequested(m, reason) == CloseInto(Transition(m), reason, {})

OnEpochClosed(m) ==
  Transition(IF m.phase = "Closing"
             THEN [m EXCEPT !.phase = "Closed", !.gate = "Closed"] ELSE m)

\* write_started and write_completed apply only to the record they name; the
\* aggregate turns any other disposition into a poisoned owner.
StartApplies(m, operation, effect) ==
  /\ Holds(m.pending, operation)
  /\ RecordOf(m, operation).effect = effect
  /\ RecordOf(m, operation).phase = "Queued"

\* Slip: delivery weakens only when the whole frame is out.
WriteStartedKeepsDelivery(m, operation) ==
  SetRecord(m, operation, [RecordOf(m, operation) EXCEPT !.phase = "Writing"])

WriteStarted(m, operation) ==
  SetRecord(m, operation,
    [RecordOf(m, operation) EXCEPT !.delivery = "PossiblySent", !.phase = "Writing"])

\* Slip: a cancelled operation refuses the end of its own frame.
CompleteAppliesToLive(m, operation, effect) ==
  /\ Holds(m.pending, operation)
  /\ RecordOf(m, operation).effect = effect
  /\ RecordOf(m, operation).phase \in {"Queued", "Writing"}

CompleteApplies(m, operation, effect) ==
  /\ Holds(m.pending, operation)
  /\ RecordOf(m, operation).effect = effect
  /\ RecordOf(m, operation).phase \in {"Queued", "Writing", "Terminal"}
  /\ RecordOf(m, operation).writeHeld

\* Slip: the record is not told that its frame left the writer.
OnWriteCompletedKeepsHeld(m, operation) ==
  LET record == RecordOf(m, operation)
      released == [m EXCEPT !.ledger = ReleaseWrite(@, record.reservation.writeRetained)]
  IN  IF record.completion = "ReplyExpected"
      THEN Transition(SetRecord(released, operation,
             [record EXCEPT !.phase = IF @ = "Terminal" THEN @ ELSE "AwaitingReply"]))
      ELSE Transition(RemoveRecord(m, operation))

OnWriteCompleted(m, operation) ==
  LET record == RecordOf(m, operation)
      released == [m EXCEPT !.ledger = ReleaseWrite(@, record.reservation.writeRetained)]
  IN  IF record.completion = "ReplyExpected"
      THEN Transition(SetRecord(released, operation,
             [record EXCEPT !.phase = IF @ = "Terminal" THEN @ ELSE "AwaitingReply",
                            !.writeHeld = FALSE]))
      ELSE FinishDrain(
             [Transition([released EXCEPT
                            !.pending = RemoveAt(@, IndexOf(@, operation)),
                            !.ledger = ReleaseAll(@, record.reservation, FALSE, FALSE)])
              EXCEPT !.cancel = {operation},
                     !.publish = IF record.phase = "Terminal" THEN {}
                                 ELSE {Outcome(operation, "WriteComplete", record.delivery, 0)}])

=============================================================================
