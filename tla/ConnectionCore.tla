---------------------------- MODULE ConnectionCore ----------------------------
(***************************************************************************)
(* The sole mutation owner of one connection epoch (bornera-core,          *)
(* connection/core.rs, progress.rs, integrity.rs, journal.rs, recovery.rs  *)
(* and write/): the policy machine, the FIFO of complete outbound frames,  *)
(* the recovery journal and the poison latch.                              *)
(*                                                                         *)
(* One action per public call.  A call that fails its checks returns an    *)
(* error and changes nothing, and an input that names another epoch is     *)
(* ignored: both are stuttering steps.                                     *)
(*                                                                         *)
(* The calls interleave as the driver, the application holding permits,    *)
(* the transport and the peer issue them, in any order.                    *)
(***************************************************************************)
EXTENDS ConnectionMachine

CONSTANTS
  Options,          \* OperationOptions offered to reserve
  Frames,           \* frames offered to commit: [wire, retained]
  RequestedReasons, \* reasons given to CloseRequested
  Payloads,         \* payloads of decoded replies
  MaxReported,      \* largest byte count one advance_write reports
  Misbehaviours,    \* contract violations of frame and transport to include
  Faults,           \* ownership losses injected by fault_test.rs to include
  Builds            \* the builds to include: a debug build audits ownership

ASSUME OptionsAssumption ==
  Options \subseteq [retained : Nat, writeRetained : Nat, class : Classes,
                     completion : Completions, deadline : Moments]

ASSUME FramesAssumption == Frames \subseteq [wire : Nat, retained : Nat]

ASSUME CoreAssumption ==
  /\ RequestedReasons \subseteq ExternalReasons
  /\ Payloads \subseteq Nat
  /\ MaxReported \in Nat
  /\ Misbehaviours \subseteq {"OverReport", "LengthChanged"}
  /\ Faults \subseteq {"LoseWrite", "StrayWrite"}
  /\ Builds \in (SUBSET {"debug", "release"}) \ {{}}

VARIABLES
  machine,      \* ConnectionMachine
  permits,      \* outstanding OperationPermits
  writes,       \* WriteQueue frames, front first
  writeBudget,  \* bytes used of WriteQueue's RetainedBudget
  journal,      \* RecoveryJournal
  poisoned      \* the latched ConnectionCoreInvariant, or "None"

\* What the outside world has seen.
VARIABLES
  accepted,     \* committed operations in wire order
  sent,         \* per operation: frame bytes the transport reported taking
  completed,    \* operations whose complete frame left the writer
  timers,       \* pairs <<operation, deadline>> the driver has scheduled
  published,    \* per operation: the outcomes published
  recovery,     \* what recover returned
  injected      \* operations whose frame an injected fault removed or added

worldVars == <<accepted, sent, completed, timers, published, recovery, injected>>
vars == <<machine, permits, writes, writeBudget, journal, poisoned,
          accepted, sent, completed, timers, published, recovery, injected>>

QueuedWrite ==
  [operation : Nat, effect : Nat, wire : Nat, retained : Nat,
   written : Nat, started : BOOLEAN]

Poisons ==
  {"None", "ReservationAccounting", "WriteAccounting", "MissingWrite",
   "UnexpectedWrite", "WriteIdentityMismatch", "DiscardedWriteMismatch",
   "WritePolicyMismatch", "RecoveryJournalCapacity", "WriteProgressContract",
   "FrameContractViolation", "Recovered"}

(***************************************************************************)
(* The recovery journal: the policy records and frames a call may destroy, *)
(* kept until the call has succeeded.                                      *)
(***************************************************************************)
Journal ==
  [armed : BOOLEAN, operations : Seq([index : Nat, record : OperationRecord]),
   writes : Seq(QueuedWrite)]

EmptyJournal == [armed |-> FALSE, operations |-> <<>>, writes |-> <<>>]
ArmedJournal == [EmptyJournal EXCEPT !.armed = TRUE]

JournalEntry(i) == [index |-> i, record |-> machine.pending[i]]

WholeJournal ==
  [ArmedJournal EXCEPT !.operations = [i \in DOMAIN machine.pending |-> JournalEntry(i)]]

OperationJournal(operation) ==
  [ArmedJournal EXCEPT !.operations = <<JournalEntry(IndexOf(machine.pending, operation))>>]

\* The slots are preallocated for max_operations records.
JournalFits(j) == Len(j.operations) <= MaxOperations

(***************************************************************************)
(* The write queue.                                                        *)
(***************************************************************************)
HasEffect(frames, effect) == \E i \in DOMAIN frames : frames[i].effect = effect

\* WriteQueue::admit, its checks in order.
WriterAdmits(permit, frame) ==
  /\ ~Holds(writes, permit.operation)
  /\ ~HasEffect(writes, permit.effect)
  /\ Len(writes) # MaxWriteFrames
  /\ writeBudget + frame.retained <= MaxWriteRetained

NewWrite(permit, frame) ==
  [operation |-> permit.operation, effect |-> permit.effect, wire |-> frame.wire,
   retained |-> frame.retained, written |-> 0, started |-> FALSE]

\* One DiscardWrite of reconcile: q holds the frames left, the bytes used, the
\* frames moved to the journal and the invariant found violated.
Discard(q, record) ==
  IF q.failure # "None" \/ ~record.writeHeld THEN q
  ELSE IF ~HasEffect(q.frames, record.effect) THEN [q EXCEPT !.failure = "MissingWrite"]
  ELSE LET i == CHOOSE j \in DOMAIN q.frames : q.frames[j].effect = record.effect
           frame == q.frames[i]
       IN  IF frame.retained > q.used THEN [q EXCEPT !.failure = "WriteAccounting"]
           ELSE [frames |-> RemoveAt(q.frames, i),
                 used |-> q.used - frame.retained,
                 taken |-> Append(q.taken, frame),
                 failure |-> IF frame.operation # record.operation
                             THEN "DiscardedWriteMismatch"
                             ELSE IF Len(q.taken) = MaxWriteFrames
                             THEN "RecoveryJournalCapacity"
                             ELSE "None"]

\* ConnectionCore::reconcile over the records a transition removed.
Reconcile(records) ==
  LET after[i \in 0..Len(records)] ==
        IF i = 0
        THEN [frames |-> writes, used |-> writeBudget, taken |-> <<>>, failure |-> "None"]
        ELSE Discard(after[i - 1], records[i])
  IN  after[Len(records)]

(***************************************************************************)
(* Health and the ownership audit (connection/integrity.rs).               *)
(***************************************************************************)
HeldRecords ==
  Picked(machine.pending, {i \in DOMAIN machine.pending : machine.pending[i].writeHeld})

\* The i-th record that holds a frame and the i-th frame name each other.
SameOwner(i) ==
  /\ i \in DOMAIN HeldRecords \cap DOMAIN writes
  /\ writes[i].operation = HeldRecords[i].operation
  /\ writes[i].effect = HeldRecords[i].effect

\* ownership_merge_violation finds nothing: the writer holds exactly the
\* frames of the records that still hold one, in the same order.
OwnershipAgrees ==
  Len(HeldRecords) = Len(writes) /\ \A i \in DOMAIN writes : SameOwner(i)

\* The bytes retained by a sequence of frames.
Retained(frames) ==
  LET sum[i \in 0..Len(frames)] ==
        IF i = 0 THEN 0 ELSE sum[i - 1] + frames[i].retained
  IN  sum[Len(frames)]

\* The merge stops at the first position where records and frames disagree.
MergeViolation ==
  LET at == CHOOSE i \in 1..(Len(writes) + 1) :
              /\ \A j \in 1..(i - 1) : SameOwner(j)
              /\ ~SameOwner(i)
  IN  IF at > Len(writes) THEN "MissingWrite"
      ELSE IF at > Len(HeldRecords) THEN "UnexpectedWrite"
      ELSE IF writes[at].operation # HeldRecords[at].operation THEN "UnexpectedWrite"
      ELSE "WriteIdentityMismatch"

\* What ensure_healthy and, in debug builds, verify_ownership would latch.
Audit ==
  IF machine.ledger.poisoned THEN "ReservationAccounting"
  ELSE IF "debug" \notin Builds THEN "None"
  ELSE IF Retained(writes) # writeBudget THEN "WriteAccounting"
  ELSE IF OwnershipAgrees THEN "None"
  ELSE MergeViolation

\* With both builds included, a call that only a debug build would refuse may
\* be made as well.
Healthy ==
  /\ poisoned = "None"
  /\ IF "release" \in Builds THEN ~machine.ledger.poisoned ELSE Audit = "None"

\* Any call on an owner that fails its audit latches the violated invariant.
AuditFails ==
  /\ poisoned = "None"
  /\ Audit # "None"
  /\ poisoned' = Audit
  /\ UNCHANGED <<machine, permits, writes, writeBudget, journal, worldVars>>

\* What the driver does with the effects of a successful call.
Emit(t) ==
  /\ timers' = {timer \in timers : timer[1] \notin t.cancel} \cup t.schedule
  /\ published' = [operation \in Operations |->
       LET outcomes == {outcome \in t.publish : outcome.operation = operation}
       IN  IF outcomes = {} THEN published[operation]
           ELSE Append(published[operation], CHOOSE outcome \in outcomes : TRUE)]

\* The tail of apply and apply_reply: reconcile the writer with the machine's
\* transition; on failure the transition is lost and the journal keeps what
\* was destroyed.  "fired" is the timer whose delivery caused the call.
Settle(t, j, fired) ==
  LET q == Reconcile(t.discard)
      failure == IF q.failure # "None" THEN q.failure
                 ELSE IF t.machine.ledger.poisoned THEN "ReservationAccounting"
                 ELSE "None"
  IN  IF ~JournalFits(j)
      THEN /\ poisoned' = "RecoveryJournalCapacity"
           /\ UNCHANGED <<machine, permits, writes, writeBudget, journal, worldVars>>
      ELSE /\ machine' = t.machine
           /\ writes' = q.frames
           /\ writeBudget' = q.used
           /\ poisoned' = failure
           /\ IF failure = "None"
              THEN /\ journal' = EmptyJournal
                   /\ Emit([t EXCEPT !.cancel = @ \cup fired])
              ELSE /\ journal' = [j EXCEPT !.writes = q.taken]
                   /\ UNCHANGED <<timers, published>>
           /\ UNCHANGED <<permits, accepted, sent, completed, recovery, injected>>

(***************************************************************************)
(* Admission.                                                              *)
(***************************************************************************)
Reserve(now, options) ==
  /\ Healthy
  /\ MachineReserves(machine, now, options)
  /\ machine' = ReserveMachine(machine, options)
  /\ permits' = permits \cup {NewPermit(machine, options)}
  /\ UNCHANGED <<writes, writeBudget, journal, poisoned, worldVars>>

\* A permit dropped unused rolls back its reservation, whatever the owner's state.
DropPermit(permit) ==
  /\ permits' = permits \ {permit}
  /\ machine' = [machine EXCEPT !.ledger = RollbackPermit(@, permit.reservation)]
  /\ UNCHANGED <<writes, writeBudget, journal, poisoned, worldVars>>

\* A refused commit hands permit and frame back and changes nothing.
Commit(permit, frame) ==
  /\ Healthy
  /\ MachineCommits(machine, permit, frame)
  /\ WriterAdmits(permit, frame)
  /\ machine' = CommitPermit(machine, permit, frame)
  /\ permits' = permits \ {permit}
  /\ writes' = Append(writes, NewWrite(permit, frame))
  /\ writeBudget' = writeBudget + frame.retained
  /\ accepted' = Append(accepted, permit.operation)
  /\ timers' = timers \cup {<<permit.operation, permit.deadline>>}
  /\ UNCHANGED <<journal, poisoned, sent, completed, published, recovery, injected>>

(***************************************************************************)
(* Inputs (ConnectionCore::apply and apply_reply), each with the journal   *)
(* prepare_input_journal or prepare_reply_journal begins.                  *)
(***************************************************************************)
OpenAdmission == Healthy /\ Settle(OnOpenAdmission(machine), EmptyJournal, {})

BeginDrain == Healthy /\ Settle(OnBeginDrain(machine), EmptyJournal, {})

EpochClosed == Healthy /\ Settle(OnEpochClosed(machine), EmptyJournal, {})

LiveJournal == IF machine.phase = "Live" THEN WholeJournal ELSE EmptyJournal

CloseRequested(reason) ==
  Healthy /\ Settle(OnCloseRequested(machine, reason), LiveJournal, {})

ReplyMalformed == Healthy /\ Settle(OnReplyMalformed(machine), LiveJournal, {})

Cancel(operation) ==
  /\ Healthy
  /\ Settle(OnCancel(machine, operation),
            IF /\ Holds(machine.pending, operation)
               /\ RecordOf(machine, operation).phase # "Terminal"
            THEN OperationJournal(operation)
            ELSE EmptyJournal,
            {})

\* Delivering the timer takes it out of the driver's index.
DeadlineElapsed(operation, now) ==
  /\ Healthy
  /\ Settle(OnDeadlineElapsed(machine, operation, now),
            IF \/ ~Holds(machine.pending, operation)
               \/ ~IsElapsedAt(RecordOf(machine, operation).deadline, now)
            THEN EmptyJournal
            ELSE IF RecordOf(machine, operation).delivery = "PossiblySent"
            THEN WholeJournal
            ELSE OperationJournal(operation),
            {operation})

ApplyReply(key, reply) ==
  /\ Healthy
  /\ Settle(OnReply(machine, key, reply),
            IF machine.phase # "Live" THEN EmptyJournal
            ELSE IF FrontAwaitsReply(machine) /\ key = machine.pending[1].reservation.key
                 THEN OperationJournal(machine.pending[1].operation)
                 ELSE WholeJournal,
            {})

(***************************************************************************)
(* Transport progress (ConnectionCore::advance_write over                  *)
(* WriteQueue::advance).  The transport took n more bytes of the front     *)
(* frame; only ensure_healthy guards this call.  Reports for another       *)
(* effect, or with no frame queued, are errors that change nothing.        *)
(***************************************************************************)
FrontRemaining == writes[1].wire - writes[1].written

Progressed(n) ==
  [writes[1] EXCEPT !.written = @ + n, !.started = @ \/ n > 0]

\* The write boundary: the first byte of the frame is taken.
Crosses(n) == n > 0 /\ ~writes[1].started

CountSent(operation, n) ==
  sent' = IF operation \in Operations THEN [sent EXCEPT ![operation] = @ + n] ELSE sent

WritePending ==
  /\ poisoned = "None"
  /\ ~machine.ledger.poisoned
  /\ writes # <<>>

\* More bytes than remained: the frame counts as started, the owner is poisoned.
OverReport(n) ==
  /\ WritePending
  /\ "OverReport" \in Misbehaviours
  /\ n > FrontRemaining
  /\ writes' = [writes EXCEPT ![1].started = @ \/ n > 0]
  /\ poisoned' = "WriteProgressContract"
  /\ journal' = ArmedJournal
  /\ CountSent(writes[1].operation, n)
  /\ UNCHANGED <<machine, permits, writeBudget, accepted, completed, timers,
                 published, recovery, injected>>

PartialWrite(n) ==
  LET operation == writes[1].operation
      applies == Crosses(n) => StartApplies(machine, operation, writes[1].effect)
  IN  /\ WritePending
      /\ n < FrontRemaining
      /\ writes' = [writes EXCEPT ![1] = Progressed(n)]
      /\ machine' = IF Crosses(n) /\ applies THEN WriteStarted(machine, operation) ELSE machine
      /\ poisoned' = IF applies THEN "None" ELSE "WritePolicyMismatch"
      /\ journal' = IF applies THEN EmptyJournal ELSE ArmedJournal
      /\ CountSent(operation, n)
      /\ UNCHANGED <<permits, writeBudget, accepted, completed, timers, published,
                     recovery, injected>>

\* The last byte: the frame leaves the writer for the journal, then the machine
\* starts (if the boundary was crossed only now) and completes the operation.
\* A drain that ends here closes an empty FIFO, so there is nothing to discard.
CompleteWrite(n) ==
  LET operation == writes[1].operation
      effect == writes[1].effect
      known == Holds(machine.pending, operation)
      starts == Crosses(n) => StartApplies(machine, operation, effect)
      started == IF Crosses(n) THEN WriteStarted(machine, operation) ELSE machine
      completes == CompleteApplies(started, operation, effect)
      t == OnWriteCompleted(started, operation)
      failure == IF ~known THEN "UnexpectedWrite"
                 ELSE IF ~starts \/ ~completes THEN "WritePolicyMismatch"
                 ELSE IF t.machine.ledger.poisoned THEN "ReservationAccounting"
                 ELSE "None"
      retained == [ArmedJournal EXCEPT
                     !.writes = <<Progressed(n)>>,
                     !.operations = IF known
                                    THEN <<JournalEntry(IndexOf(machine.pending, operation))>>
                                    ELSE <<>>]
  IN  /\ WritePending
      /\ n = FrontRemaining
      /\ IF writes[1].retained > writeBudget
         THEN /\ poisoned' = "WriteAccounting"
              /\ journal' = ArmedJournal
              /\ UNCHANGED <<machine, writes, writeBudget, completed, timers, published>>
         ELSE /\ writes' = Tail(writes)
              /\ writeBudget' = writeBudget - writes[1].retained
              /\ machine' = IF ~known \/ ~starts THEN machine
                            ELSE IF ~completes THEN started
                            ELSE t.machine
              /\ completed' = completed \cup {operation}
              /\ poisoned' = failure
              /\ IF failure = "None"
                 THEN journal' = EmptyJournal /\ Emit(t)
                 ELSE journal' = retained /\ UNCHANGED <<timers, published>>
      /\ CountSent(operation, n)
      /\ UNCHANGED <<permits, accepted, recovery, injected>>

AdvanceWrite(n) == OverReport(n) \/ PartialWrite(n) \/ CompleteWrite(n)

\* front_write finds the frame's bytes changed length since it was measured.
FrontWriteViolation ==
  /\ poisoned = "None"
  /\ "LengthChanged" \in Misbehaviours
  /\ writes # <<>>
  /\ poisoned' = IF machine.ledger.poisoned THEN "ReservationAccounting"
                 ELSE "FrameContractViolation"
  /\ UNCHANGED <<machine, permits, writes, writeBudget, journal, worldVars>>

(***************************************************************************)
(* Recovery (connection/recovery.rs, recovery_item.rs): merge the current  *)
(* records with the journalled ones in their original wire positions and   *)
(* give each its exact frame back.                                         *)
(***************************************************************************)
JournalIds == {journal.operations[i].record.operation : i \in DOMAIN journal.operations}

Unjournalled ==
  Picked(machine.pending,
         {i \in DOMAIN machine.pending : machine.pending[i].operation \notin JournalIds})

OriginalLen ==
  Len(machine.pending)
    + Cardinality({operation \in JournalIds : ~Holds(machine.pending, operation)})

ClaimedBy(position) ==
  {i \in DOMAIN journal.operations : journal.operations[i].index = position}

\* Slip: records the machine still holds come first, journalled ones last.
ItemAtCurrentFirst(position) ==
  IF position <= Len(Unjournalled)
  THEN [record |-> Unjournalled[position], current |-> TRUE]
  ELSE LET record == journal.operations[position - Len(Unjournalled)].record
       IN  [record |-> record, current |-> Holds(machine.pending, record.operation)]

\* The record recovered at a wire position, and whether the machine still held
\* it: a journalled record claims its old index, the others fill the gaps.
ItemAt(position) ==
  IF ClaimedBy(position) = {}
  THEN [record |-> Unjournalled[Cardinality({p \in 1..position : ClaimedBy(p) = {}})],
        current |-> TRUE]
  ELSE LET record == journal.operations[CHOOSE i \in ClaimedBy(position) : TRUE].record
           current == Holds(machine.pending, record.operation)
       IN  [record |-> IF current THEN RecordOf(machine, record.operation) ELSE record,
            current |-> current]

RecoverableWrites == writes \o journal.writes

FramesOf(record) ==
  {i \in DOMAIN RecoverableWrites :
     /\ RecoverableWrites[i].operation = record.operation
     /\ RecoverableWrites[i].effect = record.effect}

Weaken(policy, writerStarted) ==
  IF policy = "PossiblySent" \/ writerStarted THEN "PossiblySent" ELSE "NotSent"

RecoveredOperation(record) ==
  [operation |-> record.operation,
   delivery |-> Weaken(record.delivery,
                       \E i \in FramesOf(record) : RecoverableWrites[i].started),
   frame |-> FramesOf(record) # {}]

RecoveryItems == [position \in 1..OriginalLen |-> ItemAt(position)]

\* A journalled tombstone is skipped before it can claim a frame.
Claims ==
  {p \in DOMAIN RecoveryItems :
     RecoveryItems[p].current \/ RecoveryItems[p].record.phase # "Terminal"}

UnmatchedWrites ==
  DOMAIN RecoverableWrites \ UNION {FramesOf(RecoveryItems[p].record) : p \in Claims}

\* What makes recovery report that policy and writer disagreed.
Diverged(ledger) ==
  \/ journal.armed
  \/ journal.operations # <<>>
  \/ \E p \in Claims :
       RecoveryItems[p].record.writeHeld # (FramesOf(RecoveryItems[p].record) # {})
  \/ UnmatchedWrites # {}
  \/ ledger.poisoned

\* Tombstones are not given back.
Observed ==
  Picked(RecoveryItems,
         {p \in DOMAIN RecoveryItems : RecoveryItems[p].record.phase # "Terminal"})

Recover ==
  LET ledger == ReleaseRecords(machine.ledger, machine.pending)
  IN  /\ machine' = [machine EXCEPT !.pending = <<>>, !.ledger = ledger]
      /\ writes' = <<>>
      /\ writeBudget' = 0
      /\ journal' = EmptyJournal
      /\ poisoned' = IF poisoned = "None" THEN "Recovered" ELSE poisoned
      /\ recovery' =
           [operations |-> recovery.operations \o
              [i \in DOMAIN Observed |-> RecoveredOperation(Observed[i].record)],
            unmatched |-> recovery.unmatched
              \cup {RecoverableWrites[i].operation : i \in UnmatchedWrites},
            diverged |-> recovery.diverged \/ Diverged(ledger)]
      /\ UNCHANGED <<permits, accepted, sent, completed, timers, published, injected>>

(***************************************************************************)
(* The ownership losses fault_test.rs injects, at most one per behaviour:  *)
(* a frame vanishes from the writer, or one of no operation appears.       *)
(***************************************************************************)
StrayIdentity == MaxIdentity + 1

LoseWrite(i) ==
  /\ "LoseWrite" \in Faults
  /\ poisoned = "None"
  /\ injected = {}
  /\ writes[i].retained <= writeBudget
  /\ writes' = RemoveAt(writes, i)
  /\ writeBudget' = writeBudget - writes[i].retained
  /\ injected' = {writes[i].operation}
  /\ UNCHANGED <<machine, permits, journal, poisoned, accepted, sent, completed,
                 timers, published, recovery>>

StrayWrite(frame) ==
  LET stray == [operation |-> StrayIdentity, effect |-> StrayIdentity]
  IN  /\ "StrayWrite" \in Faults
      /\ poisoned = "None"
      /\ injected = {}
      /\ WriterAdmits(stray, frame)
      /\ writes' = Append(writes, NewWrite(stray, frame))
      /\ writeBudget' = writeBudget + frame.retained
      /\ injected' = {StrayIdentity}
      /\ UNCHANGED <<machine, permits, journal, poisoned, accepted, sent, completed,
                     timers, published, recovery>>

Init ==
  /\ machine = NewMachine
  /\ permits = {}
  /\ writes = <<>>
  /\ writeBudget = 0
  /\ journal = EmptyJournal
  /\ poisoned = "None"
  /\ accepted = <<>>
  /\ sent = [operation \in Operations |-> 0]
  /\ completed = {}
  /\ timers = {}
  /\ published = [operation \in Operations |-> <<>>]
  /\ recovery = [operations |-> <<>>, unmatched |-> {}, diverged |-> FALSE]
  /\ injected = {}

Next ==
  \/ \E now \in Moments, options \in Options : Reserve(now, options)
  \/ \E permit \in permits : DropPermit(permit)
  \/ \E permit \in permits, frame \in Frames : Commit(permit, frame)
  \/ OpenAdmission
  \/ BeginDrain
  \/ EpochClosed
  \/ \E reason \in RequestedReasons : CloseRequested(reason)
  \/ ReplyMalformed
  \/ \E operation \in Operations : Cancel(operation)
  \/ \E operation \in Operations, now \in Moments : DeadlineElapsed(operation, now)
  \/ \E key \in Keys, reply \in Payloads : ApplyReply(key, reply)
  \/ \E n \in 0..MaxReported : AdvanceWrite(n)
  \/ FrontWriteViolation
  \/ AuditFails
  \/ Recover
  \/ \E i \in DOMAIN writes : LoseWrite(i)
  \/ \E frame \in Frames : StrayWrite(frame)

Spec == Init /\ [][Next]_vars

=============================================================================
