---------------------------- MODULE CoreProperties ----------------------------
(***************************************************************************)
(* What makes ConnectionCore correct.                                      *)
(***************************************************************************)
EXTENDS ConnectionCore, Totals

\* Every variable has its type (one type invariant for the whole aggregate).
TypeOK ==
  /\ machine \in Machine
  /\ permits \in SUBSET Permit
  /\ writes \in Seq(QueuedWrite)
  /\ writeBudget \in Nat
  /\ journal \in Journal
  /\ poisoned \in Poisons
  /\ accepted \in Seq(Operations)
  /\ sent \in [Operations -> Nat]
  /\ completed \subseteq Nat
  /\ timers \subseteq Operations \X Moments
  /\ published \in [Operations -> Seq(Outcomes)]

(***************************************************************************)
(* Ownership and accounting.                                               *)
(***************************************************************************)

\* The owner never diverges by itself: without injected faults only a broken
\* frame or transport contract, or recovery, can poison it.  Every reconcile
\* finds the frames it discards, every write report finds its record in the
\* right phase and no checked subtraction of ledger or writer underflows.
OnlyContractPoison ==
  Faults = {} =>
    poisoned \in {"None", "WriteProgressContract", "FrameContractViolation", "Recovered"}

\* The records a permit or an accepted operation is still paying for.
Reservations ==
  {<<permit.operation, permit.reservation>> : permit \in permits}
    \cup {<<machine.pending[i].operation, machine.pending[i].reservation>>
            : i \in DOMAIN machine.pending}

\* The reservations that still pay for a frame.
WriteReservations ==
  {<<permit.operation, permit.reservation>> : permit \in permits}
    \cup {<<machine.pending[i].operation, machine.pending[i].reservation>>
            : i \in {j \in DOMAIN machine.pending : machine.pending[j].writeHeld}}

\* A closing epoch has let go of its operations; with AccountingExact, its
\* ledger counts outstanding permits only.
ClosedOwnsNothing ==
  machine.phase # "Live" /\ poisoned = "None" /\ Faults = {} => machine.pending = <<>>

\* The ledger counts exactly what permits, queued frames and accepted
\* operations (tombstones included) hold, also after recovery and whatever the
\* order in which permits are dropped; match keys in use are distinct, and what
\* is counted after the epoch closed belongs to outstanding permits.
AccountingExact ==
  LET l == machine.ledger
      keys == {r[2].key : r \in Reservations}
  IN  /\ ~l.poisoned
      /\ l.operations = Cardinality(Reservations)
      /\ l.permits = Cardinality(permits)
      /\ l.retained = Total("retained", Reservations)
      /\ l.writeFrames = Cardinality(WriteReservations)
      /\ l.writeRetained = Total("writeRetained", WriteReservations)
      /\ l.keys = keys
      /\ Cardinality(keys) = Cardinality(Reservations)
      /\ ClosedOwnsNothing

\* Whatever the machine would commit, the bounded writer has room for.
WriterNeverRefuses ==
  \A permit \in permits, frame \in Frames :
    MachineCommits(machine, permit, frame) => WriterAdmits(permit, frame)

\* Policy and writer agree although release builds skip verify_ownership: the
\* writer holds exactly the frames of the records marked write_held, in FIFO
\* order, and never refuses a frame whose permit was granted, so that commit
\* does not fail with a Writer error.
OwnershipHolds ==
  Faults = {} /\ poisoned = "None" => OwnershipAgrees /\ WriterNeverRefuses

(***************************************************************************)
(* Outcomes.                                                               *)
(***************************************************************************)

\* Operations still owed an outcome: live in the machine or, on a poisoned
\* owner, destroyed by the failed call and kept by the journal.
Unresolved ==
  {machine.pending[i].operation
     : i \in {j \in DOMAIN machine.pending : machine.pending[j].phase # "Terminal"}}
  \cup {journal.operations[i].record.operation
     : i \in {j \in DOMAIN journal.operations : journal.operations[j].record.phase # "Terminal"}}

RecoveredAt(operation) ==
  {i \in DOMAIN recovery.operations : recovery.operations[i].operation = operation}

\* Exactly one of: still owed, published once, recovered once.  Operations
\* never accepted get nothing.
ExactlyOneFate ==
  \A operation \in Operations :
    Len(published[operation]) + Cardinality(RecoveredAt(operation))
      + (IF operation \in Unresolved THEN 1 ELSE 0)
    = IF Contains(accepted, operation) THEN 1 ELSE 0

\* What the application is told of its frame is true.  NotSent is claimed if
\* and only if the transport took no byte of it, in outcomes and in recovery
\* alike; a reply or WriteComplete only when the whole frame left the writer.
DeliveryExact ==
  /\ \A operation \in Operations : \A i \in DOMAIN published[operation] :
       LET outcome == published[operation][i]
       IN  /\ outcome.delivery = "NotSent" <=> sent[operation] = 0
           /\ outcome.kind \in {"Reply", "WriteComplete"} => operation \in completed
  /\ \A i \in DOMAIN recovery.operations :
       recovery.operations[i].delivery = "NotSent"
         <=> sent[recovery.operations[i].operation] = 0

\* A healthy owner keeps one timer for every operation that holds a slot, set
\* to its original deadline, tombstones included, and no other.
DeadlinesCovered ==
  poisoned = "None" =>
    timers = {<<machine.pending[i].operation, machine.pending[i].deadline>>
                : i \in DOMAIN machine.pending}

\* A drain never idles: a draining epoch with no operation left is closing.
DrainNeverIdles ==
  machine.phase = "Live" /\ machine.gate = "Draining" /\ poisoned = "None"
    => machine.pending # <<>>

KeepsTornFrame ==
  /\ writes # <<>> /\ writes[1].written > 0
  /\ machine'.phase = "Live" /\ poisoned' = "None"
  => \/ /\ writes' # <<>>
        /\ writes'[1].effect = writes[1].effect
        /\ writes'[1].written >= writes[1].written
     \/ sent'[writes[1].operation] = writes[1].wire

\* A frame whose first bytes are on the wire is never dropped or overtaken
\* while the epoch lives: it stays in front until its last byte is taken.
TornFrameStaysInFront == [][KeepsTornFrame]_vars

\* The promise to the application: mapped through the acceptance order, the
\* bytes the transport took and the ends published or recovered, every step of
\* the aggregate is a step of OperationLifecycle.
Told(operation) ==
  IF published[operation] # <<>> THEN published[operation][1].delivery
  ELSE IF RecoveredAt(operation) # {}
  THEN recovery.operations[CHOOSE i \in RecoveredAt(operation) : TRUE].delivery
  ELSE "Nothing"

Lifecycle ==
  INSTANCE OperationLifecycle WITH
    order <- accepted,
    status <- [operation \in Operations |->
                 IF operation \in Unresolved THEN "Owed"
                 ELSE IF Contains(accepted, operation) THEN "Done" ELSE "Unknown"],
    touched <- {operation \in Operations : sent[operation] > 0},
    complete <- completed,
    told <- [operation \in Operations |-> Told(operation)]

KeepsLifecycle == Lifecycle!Spec

(***************************************************************************)
(* Recovery.                                                               *)
(***************************************************************************)

\* In their original wire order, also when the failed call had destroyed some.
RecoveredInWireOrder ==
  \A i, j \in DOMAIN recovery.operations, a, b \in DOMAIN accepted :
    /\ i < j
    /\ accepted[a] = recovery.operations[i].operation
    /\ accepted[b] = recovery.operations[j].operation
    => a < b

\* Each with its frame, unless the frame had left the writer or was lost to an
\* injected fault, and then the loss is reported.
RecoveryReturnsFrames ==
  \A i \in DOMAIN recovery.operations :
    LET operation == recovery.operations[i].operation
    IN  ~recovery.operations[i].frame /\ operation \notin completed =>
          operation \in injected /\ recovery.diverged

\* A frame of no recovered operation is an injected one or a tombstone's, and it
\* is reported.
UnmatchedReported ==
  /\ recovery.unmatched # {} => recovery.diverged
  /\ \A operation \in recovery.unmatched :
       operation \in injected \/ Len(published[operation]) = 1

\* After a call that failed half way, recovery returns the operations in wire
\* order and with their frames, and drops no frame silently.
RecoveryExact == RecoveredInWireOrder /\ RecoveryReturnsFrames /\ UnmatchedReported

(***************************************************************************)
(* Progress.  The driver keeps polling its deadline index, so the timer of *)
(* an operation is eventually delivered after it elapsed; nothing else is  *)
(* assumed: the transport may block forever, the peer may stay silent.     *)
(* This is weak fairness of TimerFires with its enabling condition         *)
(* written out, because TLC's ENABLED is slow on an action this large.     *)
(***************************************************************************)
TimerFires(operation) ==
  \E now \in Moments :
    /\ \E timer \in timers : timer[1] = operation /\ IsElapsedAt(timer[2], now)
    /\ DeadlineElapsed(operation, now)

TimerDue(operation) ==
  /\ Healthy
  /\ \E timer \in timers, now \in Moments :
       timer[1] = operation /\ IsElapsedAt(timer[2], now)

TimerFairness ==
  \A operation \in Operations :
    ([]<>~TimerDue(operation)) \/ ([]<><<TimerFires(operation)>>_vars)

\* Every accepted operation of a healthy owner ends, by its deadline at the
\* latest, and every drain ends, although cancelled operations keep their slot
\* as tombstones, even when neither transport nor peer ever makes progress.
EveryOperationEnds ==
  TimerFairness =>
    /\ \A operation \in Operations :
         operation \in Unresolved ~> operation \notin Unresolved
    /\ (machine.gate = "Draining" /\ poisoned = "None")
         ~> (machine.phase # "Live" \/ poisoned # "None")

=============================================================================
