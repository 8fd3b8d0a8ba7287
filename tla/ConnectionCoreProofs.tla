------------------------ MODULE ConnectionCoreProofs ------------------------
(***************************************************************************)
(* Type correctness of the aggregate, that a drain never idles, that the   *)
(* ledger counts exactly what is held and the driver keeps exactly one     *)
(* timer per slot, for every limit, key space, identity range, workload,   *)
(* misbehaviour and injected fault; then that policy and writer own the    *)
(* same frames, the application is told the truth exactly once, and each   *)
(* reply meets its own operation, without injected faults and for every    *)
(* limit, key space, workload and transport.                               *)
(***************************************************************************)
EXTENDS CorePeer, MachineProofs

(***************************************************************************)
(* The writer.                                                             *)
(***************************************************************************)
Reconciliation ==
  [frames : Seq(QueuedWrite), used : Nat, taken : Seq(QueuedWrite), failure : Poisons]

LEMMA QueuedWriteFields ==
  ASSUME NEW w \in QueuedWrite
  PROVE  /\ w.operation \in Nat /\ w.effect \in Nat /\ w.wire \in Nat
         /\ w.retained \in Nat /\ w.written \in Nat /\ w.started \in BOOLEAN
  BY DEF QueuedWrite

LEMMA DiscardType ==
  ASSUME NEW q \in Reconciliation, NEW record
  PROVE  Discard(q, record) \in Reconciliation
<1> DEFINE i == CHOOSE j \in DOMAIN q.frames : q.frames[j].effect = record.effect
           frame == q.frames[i]
           verdict == IF frame.operation # record.operation
                      THEN "DiscardedWriteMismatch"
                      ELSE IF Len(q.taken) = MaxWriteFrames
                      THEN "RecoveryJournalCapacity"
                      ELSE "None"
           taken == [frames |-> RemoveAt(q.frames, i), used |-> q.used - frame.retained,
                     taken |-> Append(q.taken, frame), failure |-> verdict]
<1>1. /\ q.frames \in Seq(QueuedWrite) /\ q.used \in Nat /\ q.taken \in Seq(QueuedWrite)
      /\ q.failure \in Poisons
  BY DEF Reconciliation
<1>2. /\ "MissingWrite" \in Poisons /\ "WriteAccounting" \in Poisons
      /\ verdict \in Poisons
  BY DEF Poisons
<1>3. CASE q.failure # "None" \/ ~record.writeHeld
  BY <1>3 DEF Discard
<1>4. CASE ~(q.failure # "None" \/ ~record.writeHeld) /\ ~HasEffect(q.frames, record.effect)
  BY <1>2, <1>4 DEF Discard, Reconciliation
<1>5. CASE ~(q.failure # "None" \/ ~record.writeHeld) /\ HasEffect(q.frames, record.effect)
  <2>1. i \in DOMAIN q.frames
    BY <1>5 DEF HasEffect
  <2> HIDE DEF i
  <2>2. frame \in QueuedWrite /\ RemoveAt(q.frames, i) \in Seq(QueuedWrite)
    BY <1>1, <2>1, RemoveAtType
  <2>3. CASE frame.retained > q.used
    <3>1. Discard(q, record) = [q EXCEPT !.failure = "WriteAccounting"]
      BY <1>5, <2>3 DEF Discard, i
    <3> QED
      BY <1>2, <3>1 DEF Reconciliation
  <2>4. CASE ~(frame.retained > q.used)
    <3>1. Discard(q, record) = taken
      BY <1>5, <2>4 DEF Discard, i
    <3>2. q.used - frame.retained \in Nat
      <4> HIDE DEF frame
      <4> QED BY <1>1, <2>2, <2>4, QueuedWriteFields
    <3>3. Append(q.taken, frame) \in Seq(QueuedWrite)
      BY <1>1, <2>2
    <3> HIDE DEF frame, verdict
    <3>4. taken \in Reconciliation
      BY <1>2, <2>2, <3>2, <3>3 DEF Reconciliation
    <3> QED
      BY <3>1, <3>4
  <2> QED
    BY <2>3, <2>4
<1> QED
  BY <1>3, <1>4, <1>5

\* What Reconcile computes: it iterates Discard over the records.
LEMMA ReconcileIterates ==
  ASSUME NEW records, Len(records) \in Nat,
         writes \in Seq(QueuedWrite), writeBudget \in Nat
  PROVE  \E after \in [0..Len(records) -> Reconciliation] :
           /\ after[0] = [frames |-> writes, used |-> writeBudget, taken |-> <<>>,
                          failure |-> "None"]
           /\ \A i \in 1..Len(records) : after[i] = Discard(after[i - 1], records[i])
           /\ after[Len(records)] = Reconcile(records)
<1> DEFINE n == Len(records)
           Next1(q, i) == Discard(q, records[i])
           base == [frames |-> writes, used |-> writeBudget, taken |-> <<>>, failure |-> "None"]
           step == [i \in 1..n |-> [q \in Reconciliation |-> Next1(q, i)]]
<1>1. \A i \in 1..n : \A q \in Reconciliation : Next1(q, i) \in Reconciliation
  BY DiscardType
<1>2. Reconcile(records)
        = (CHOOSE g : g = [i \in 0..n |-> IF i = 0 THEN base ELSE Next1(g[i - 1], i)])[n]
  BY DEF Reconcile
<1>3. n \in Nat
  OBVIOUS
<1>4. base \in Reconciliation
  BY DEF Reconciliation, Poisons
<1> HIDE DEF n, Next1, base
<1>5. step \in Steps(Reconciliation, n)
  BY <1>1 DEF Steps
<1>6. PICK f : IsIteration(f, Reconciliation, n, base, step)
  <2> HIDE DEF step
  <2> QED BY <1>3, <1>4, <1>5, IterationExists
<1>7. f = [i \in 0..n |-> IF i = 0 THEN base ELSE Next1(f[i - 1], i)]
  <2>1. /\ f \in [0..n -> Reconciliation]
        /\ f[0] = base
        /\ \A i \in 1..n : f[i] = step[i][f[i - 1]]
    <3> HIDE DEF step
    <3> QED BY <1>6 DEF IsIteration
  <2>2. \A i \in 1..n : f[i - 1] \in Reconciliation
    BY <1>3, <2>1
  <2>3. \A i \in 1..n : f[i] = Next1(f[i - 1], i)
    BY <2>1, <2>2
  <2>4. \A i \in 0..n : f[i] = IF i = 0 THEN base ELSE Next1(f[i - 1], i)
    BY <1>3, <2>1, <2>3
  <2> HIDE DEF step
  <2> QED
    BY <2>1, <2>4
<1> DEFINE after == CHOOSE g : g = [i \in 0..n |-> IF i = 0 THEN base ELSE Next1(g[i - 1], i)]
           G == {i \in 0..n : after[i] \in Reconciliation}
<1>8. after = [i \in 0..n |-> IF i = 0 THEN base ELSE Next1(after[i - 1], i)]
  BY <1>7
<1>9. after[n] = Reconcile(records)
  BY <1>2
<1> HIDE DEF after
<1>10. 0 \in G
  BY <1>3, <1>4, <1>8
<1>11. ASSUME NEW i \in 0..(n - 1), i \in G PROVE i + 1 \in G
  <2>1. i + 1 \in 0..n /\ i + 1 \in 1..n /\ i + 1 # 0 /\ (i + 1) - 1 = i
    BY <1>3
  <2>2. after[i + 1] = Next1(after[i], i + 1)
    BY <1>8, <2>1
  <2> QED
    BY <1>1, <1>11, <2>1, <2>2
<1>12. 0..n \subseteq G
  <2> HIDE DEF G
  <2> QED
    BY <1>3, <1>10, <1>11, BoundedInduction
<1>13. after \in [0..n -> Reconciliation]
  BY <1>8, <1>12
<1>14. after[0] = base /\ \A i \in 1..n : after[i] = Next1(after[i - 1], i)
  BY <1>3, <1>8
<1> QED
  BY <1>9, <1>13, <1>14 DEF n, Next1, base

LEMMA ReconcileType ==
  ASSUME NEW records, Len(records) \in Nat,
         writes \in Seq(QueuedWrite), writeBudget \in Nat
  PROVE  Reconcile(records) \in Reconciliation
<1>1. PICK after \in [0..Len(records) -> Reconciliation] :
        after[Len(records)] = Reconcile(records)
  BY ReconcileIterates
<1> QED
  BY <1>1

(***************************************************************************)
(* The tail of every call.                                                 *)
(***************************************************************************)

\* The inductive invariant: DrainNeverIdles needs the types, because marking a
\* record keeps the FIFO non-empty only when the FIFO is a sequence.
TypedDrain == TypeOK /\ DrainNeverIdles

LEMMA DrainOfMachine ==
  DrainNeverIdles <=> (poisoned = "None" => DrainWaits(machine))
  BY DEF DrainNeverIdles, DrainWaits

LEMMA DrainOfMachineNext ==
  DrainNeverIdles' <=> (poisoned' = "None" => DrainWaits(machine'))
  BY DEF DrainNeverIdles, DrainWaits

LEMMA EmptyJournalType == EmptyJournal \in Journal /\ ArmedJournal \in Journal
<1>1. EmptyJournal \in Journal
  BY DEF EmptyJournal, Journal
<1>2. ArmedJournal \in Journal
  BY <1>1 DEF ArmedJournal, Journal
<1> QED
  BY <1>1, <1>2

LEMMA JournalEntryType ==
  ASSUME TypeOK, NEW i \in DOMAIN machine.pending
  PROVE  JournalEntry(i) \in [index : Nat, record : OperationRecord]
<1>1. machine.pending \in Seq(OperationRecord)
  BY MachineFields DEF TypeOK
<1>2. i \in Nat /\ machine.pending[i] \in OperationRecord
  BY <1>1
<1> QED
  BY <1>2 DEF JournalEntry

LEMMA JournalTypes ==
  ASSUME TypeOK
  PROVE  /\ WholeJournal \in Journal
         /\ LiveJournal \in Journal
         /\ \A operation : Holds(machine.pending, operation)
                             => OperationJournal(operation) \in Journal
<1> DEFINE Entry == [index : Nat, record : OperationRecord]
           whole == [i \in DOMAIN machine.pending |-> JournalEntry(i)]
<1>1. machine.pending \in Seq(OperationRecord)
  BY MachineFields DEF TypeOK
<1>2. \A i \in DOMAIN machine.pending : JournalEntry(i) \in Entry
  BY JournalEntryType
<1>3. whole \in Seq(Entry)
  <2> HIDE DEF Entry
  <2>1. DOMAIN machine.pending = 1..Len(machine.pending) /\ Len(machine.pending) \in Nat
    BY <1>1
  <2>2. whole \in [1..Len(machine.pending) -> Entry]
    BY <1>2, <2>1
  <2> QED
    BY <2>1, <2>2
<1>4. \A entries \in Seq(Entry) : [ArmedJournal EXCEPT !.operations = entries] \in Journal
  <2> HIDE DEF Entry
  <2> QED BY EmptyJournalType DEF Journal, Entry
<1>5. WholeJournal \in Journal
  <2> HIDE DEF Entry
  <2>1. [ArmedJournal EXCEPT !.operations = whole] \in Journal
    BY <1>3, <1>4
  <2> QED
    BY <2>1 DEF WholeJournal
<1>6. LiveJournal \in Journal
  BY <1>5, EmptyJournalType DEF LiveJournal
<1>7. ASSUME NEW operation, Holds(machine.pending, operation)
      PROVE  OperationJournal(operation) \in Journal
  <2>1. JournalEntry(IndexOf(machine.pending, operation)) \in Entry
    BY <1>2, <1>7, IndexOfType
  <2>2. <<JournalEntry(IndexOf(machine.pending, operation))>> \in Seq(Entry)
    <3> HIDE DEF Entry
    <3> QED BY <2>1
  <2> HIDE DEF Entry
  <2> QED
    BY <1>4, <2>2 DEF OperationJournal
<1> QED
  BY <1>5, <1>6, <1>7

LEMMA EmitType ==
  ASSUME TypeOK, NEW t \in Transitions, Emit(t)
  PROVE  /\ timers' \subseteq Operations \X Moments
         /\ published' \in [Operations -> Seq(Outcomes)]
<1>1. t.schedule \subseteq Operations \X Moments /\ t.publish \subseteq Outcomes
  BY TransitionFields
<1>2. timers' \subseteq Operations \X Moments
  BY <1>1 DEF Emit, TypeOK
<1>3. ASSUME NEW operation \in Operations
      PROVE  published'[operation] \in Seq(Outcomes)
  <2> DEFINE outcomes == {outcome \in t.publish : outcome.operation = operation}
             first == CHOOSE outcome \in outcomes : TRUE
  <2>1. published[operation] \in Seq(Outcomes)
    BY DEF TypeOK
  <2>2. published'[operation] = IF outcomes = {} THEN published[operation]
                                ELSE Append(published[operation], first)
    BY DEF Emit
  <2>3. outcomes # {} => first \in Outcomes
    BY <1>1
  <2> HIDE DEF outcomes, first
  <2> QED
    BY <2>1, <2>2, <2>3
<1>4. DOMAIN published' = Operations /\ published' = [o \in Operations |-> published'[o]]
  BY DEF Emit
<1> QED
  BY <1>2, <1>3, <1>4

LEMMA SettleKeeps ==
  ASSUME TypedDrain, NEW t \in Transitions, DrainWaits(t.machine), NEW j \in Journal,
         NEW fired \in SUBSET Operations, Settle(t, j, fired)
  PROVE  TypedDrain'
<1> DEFINE q == Reconcile(t.discard)
           failure == IF q.failure # "None" THEN q.failure
                      ELSE IF t.machine.ledger.poisoned THEN "ReservationAccounting"
                      ELSE "None"
           emitted == [t EXCEPT !.cancel = @ \cup fired]
<1>1. TypeOK
  BY DEF TypedDrain
<1>2. q \in Reconciliation
  <2>1. Len(t.discard) \in Nat
    BY TransitionFields
  <2> QED
    BY <1>1, <2>1, ReconcileType DEF TypeOK
<1>3. /\ q.frames \in Seq(QueuedWrite) /\ q.used \in Nat /\ q.taken \in Seq(QueuedWrite)
      /\ q.failure \in Poisons
  BY <1>2 DEF Reconciliation
<1>4. failure \in Poisons
  BY <1>3 DEF Poisons
<1>5. CASE ~JournalFits(j)
  BY <1>5, <1>1, DrainOfMachineNext
     DEF TypedDrain, Settle, TypeOK, worldVars, Poisons
<1>6. CASE JournalFits(j)
  <2>1. /\ machine' = t.machine /\ writes' = q.frames /\ writeBudget' = q.used
        /\ poisoned' = failure
        /\ \/ journal' = EmptyJournal /\ Emit(emitted)
           \/ journal' = [j EXCEPT !.writes = q.taken] /\ UNCHANGED <<timers, published>>
        /\ UNCHANGED <<permits, accepted, sent, completed>>
    BY <1>6 DEF Settle
  <2>2. machine' \in Machine /\ DrainWaits(machine')
    BY <2>1, TransitionFields
  <2>3. emitted \in Transitions
    <3>1. t.cancel \cup fired \in SUBSET Operations
      BY TransitionFields
    <3> QED
      BY <3>1 DEF Transitions
  <2> HIDE DEF q, failure, emitted
  <2>4. journal' \in Journal
    <3>1. [j EXCEPT !.writes = q.taken] \in Journal
      BY <1>3 DEF Journal
    <3> QED
      BY <2>1, <3>1, EmptyJournalType
  <2>5. /\ timers' \subseteq Operations \X Moments
        /\ published' \in [Operations -> Seq(Outcomes)]
    BY <1>1, <2>1, <2>3, EmitType DEF TypeOK
  <2>6. TypeOK'
    BY <1>1, <1>3, <1>4, <2>1, <2>2, <2>4, <2>5 DEF TypeOK
  <2> QED
    BY <2>2, <2>6, DrainOfMachineNext DEF TypedDrain
<1> QED
  BY <1>5, <1>6

(***************************************************************************)
(* One step per action.                                                    *)
(***************************************************************************)
LEMMA InputsKeep ==
  ASSUME TypedDrain, Healthy
  PROVE  /\ OpenAdmission \/ BeginDrain \/ EpochClosed \/ ReplyMalformed => TypedDrain'
         /\ \A reason \in RequestedReasons : CloseRequested(reason) => TypedDrain'
         /\ \A operation \in Operations : Cancel(operation) => TypedDrain'
         /\ \A operation \in Operations, now \in Moments :
              DeadlineElapsed(operation, now) => TypedDrain'
         /\ \A key \in Keys, reply \in Nat : ApplyReply(key, reply) => TypedDrain'
<1>1. machine \in Machine /\ DrainWaits(machine) /\ TypeOK
  BY DrainOfMachine DEF TypedDrain, TypeOK, Healthy
<1>2. {} \in SUBSET Operations
  OBVIOUS
<1>3. OpenAdmission => TypedDrain'
  BY <1>1, <1>2, EmptyJournalType, OnOpenAdmissionType, SettleKeeps DEF OpenAdmission
<1>4. BeginDrain => TypedDrain'
  BY <1>1, <1>2, EmptyJournalType, OnBeginDrainType, SettleKeeps DEF BeginDrain
<1>5. EpochClosed => TypedDrain'
  BY <1>1, <1>2, EmptyJournalType, OnEpochClosedType, SettleKeeps DEF EpochClosed
<1>6. ReplyMalformed => TypedDrain'
  BY <1>1, <1>2, JournalTypes, OnReplyMalformedType, SettleKeeps DEF ReplyMalformed
<1>7. ASSUME NEW reason \in RequestedReasons, CloseRequested(reason)
      PROVE  TypedDrain'
  <2>1. reason \in ExternalReasons
    BY CoreAssumption
  <2> QED
    BY <1>1, <1>2, <1>7, <2>1, JournalTypes, OnCloseRequestedType, SettleKeeps
       DEF CloseRequested
<1>8. ASSUME NEW operation \in Operations, Cancel(operation)
      PROVE  TypedDrain'
  <2> DEFINE j == IF /\ Holds(machine.pending, operation)
                     /\ RecordOf(machine, operation).phase # "Terminal"
                  THEN OperationJournal(operation)
                  ELSE EmptyJournal
  <2>1. j \in Journal
    BY <1>1, JournalTypes, EmptyJournalType
  <2>2. Settle(OnCancel(machine, operation), j, {})
    BY <1>8 DEF Cancel
  <2> HIDE DEF j
  <2> QED
    BY <1>1, <1>2, <2>1, <2>2, OnCancelType, SettleKeeps
<1>9. ASSUME NEW operation \in Operations, NEW now \in Moments, DeadlineElapsed(operation, now)
      PROVE  TypedDrain'
  <2> DEFINE j == IF \/ ~Holds(machine.pending, operation)
                     \/ ~IsElapsedAt(RecordOf(machine, operation).deadline, now)
                  THEN EmptyJournal
                  ELSE IF RecordOf(machine, operation).delivery = "PossiblySent"
                  THEN WholeJournal
                  ELSE OperationJournal(operation)
  <2>1. j \in Journal
    BY <1>1, JournalTypes, EmptyJournalType
  <2>2. Settle(OnDeadlineElapsed(machine, operation, now), j, {operation})
    BY <1>9 DEF DeadlineElapsed
  <2>3. {operation} \in SUBSET Operations
    OBVIOUS
  <2> HIDE DEF j
  <2> QED
    BY <1>1, <2>1, <2>2, <2>3, OnDeadlineElapsedType, SettleKeeps
<1>10. ASSUME NEW key \in Keys, NEW reply \in Nat, ApplyReply(key, reply)
       PROVE  TypedDrain'
  <2> DEFINE j == IF machine.phase # "Live" THEN EmptyJournal
                  ELSE IF FrontAwaitsReply(machine) /\ key = machine.pending[1].reservation.key
                       THEN OperationJournal(machine.pending[1].operation)
                       ELSE WholeJournal
  <2>1. FrontAwaitsReply(machine) => Holds(machine.pending, machine.pending[1].operation)
    <3>1. machine.pending # <<>> => 1 \in DOMAIN machine.pending
      BY <1>1, MachineFields
    <3> QED
      BY <3>1 DEF FrontAwaitsReply, Holds
  <2>2. j \in Journal
    BY <1>1, <2>1, JournalTypes, EmptyJournalType
  <2>3. Settle(OnReply(machine, key, reply), j, {})
    BY <1>10 DEF ApplyReply
  <2> HIDE DEF j
  <2> QED
    BY <1>1, <1>2, <2>2, <2>3, OnReplyType, SettleKeeps
<1> QED
  BY <1>3, <1>4, <1>5, <1>6, <1>7, <1>8, <1>9, <1>10

LEMMA ReserveKeeps ==
  ASSUME TypedDrain, NEW now \in Moments, NEW options \in Options, Reserve(now, options)
  PROVE  TypedDrain'
<1>1. TypeOK /\ machine \in Machine
  BY DEF TypedDrain, TypeOK
<1>2. options \in [retained : Nat, writeRetained : Nat, class : Classes,
                   completion : Completions, deadline : Moments]
  BY OptionsAssumption
<1>3. options.retained \in Nat /\ options.writeRetained \in Nat
  BY <1>2
<1>4. MachineReserves(machine, now, options)
  BY DEF Reserve
<1>5. /\ machine' \in Machine /\ machine'.pending = machine.pending
      /\ machine'.phase = machine.phase /\ machine'.gate = machine.gate
  BY <1>1, <1>3, <1>4, ReserveMachineType DEF Reserve
<1>6. permits' \in SUBSET Permit
  BY <1>1, <1>2, <1>4, NewPermitType DEF Reserve, TypeOK
<1> QED
  BY <1>1, <1>5, <1>6
     DEF Reserve, TypedDrain, TypeOK, DrainNeverIdles, worldVars

LEMMA DropPermitKeeps ==
  ASSUME TypedDrain, NEW permit \in permits, DropPermit(permit)
  PROVE  TypedDrain'
<1>1. TypeOK /\ machine \in Machine /\ permit \in Permit
  BY DEF TypedDrain, TypeOK
<1>2. permit.reservation \in Reservation
  BY <1>1 DEF Permit
<1>3. RollbackPermit(machine.ledger, permit.reservation) \in Ledger
  BY <1>1, <1>2, MachineFields, ReleaseAllType DEF RollbackPermit
<1>4. /\ machine' \in Machine /\ machine'.pending = machine.pending
      /\ machine'.phase = machine.phase /\ machine'.gate = machine.gate
  BY <1>1, <1>3 DEF DropPermit, Machine
<1>5. permits' \in SUBSET Permit
  BY <1>1 DEF DropPermit, TypeOK
<1> QED
  BY <1>1, <1>4, <1>5
     DEF DropPermit, TypedDrain, TypeOK, DrainNeverIdles, worldVars

LEMMA NewWriteType ==
  ASSUME NEW permit, permit.operation \in Nat, permit.effect \in Nat, NEW frame \in Frames
  PROVE  NewWrite(permit, frame) \in QueuedWrite
<1>1. frame.wire \in Nat /\ frame.retained \in Nat
  BY FramesAssumption
<1> QED
  BY <1>1 DEF NewWrite, QueuedWrite

LEMMA CommitKeeps ==
  ASSUME TypedDrain, NEW permit \in permits, NEW frame \in Frames, Commit(permit, frame)
  PROVE  TypedDrain'
<1>1. TypeOK /\ machine \in Machine /\ permit \in Permit
  BY DEF TypedDrain, TypeOK
<1>2. frame.retained \in Nat
  BY FramesAssumption
<1>3. /\ permit.operation \in Operations /\ permit.effect \in Effects
      /\ permit.deadline \in Moments
  BY <1>1 DEF Permit
<1>4. permit.operation \in Nat /\ permit.effect \in Nat
  BY <1>3, IdentityAssumption DEF Operations, Effects
<1>5. machine' \in Machine /\ machine'.pending # <<>>
  BY <1>1, <1>2, CommitPermitType DEF Commit
<1>6. writes' \in Seq(QueuedWrite)
  BY <1>1, <1>4, NewWriteType DEF Commit, TypeOK
<1>7. writeBudget' \in Nat /\ permits' \in SUBSET Permit
  BY <1>1, <1>2 DEF Commit, TypeOK
<1>8. accepted' \in Seq(Operations)
  BY <1>1, <1>3 DEF Commit, TypeOK
<1>9. timers' \subseteq Operations \X Moments
  BY <1>1, <1>3 DEF Commit, TypeOK
<1> QED
  BY <1>1, <1>5, <1>6, <1>7, <1>8, <1>9
     DEF Commit, TypedDrain, TypeOK, DrainNeverIdles

\* Transport progress: what the three cases share.
LEMMA ProgressTypes ==
  ASSUME TypeOK, writes # <<>>, NEW n \in 0..MaxReported
  PROVE  /\ writes[1] \in QueuedWrite
         /\ Progressed(n) \in QueuedWrite
         /\ Tail(writes) \in Seq(QueuedWrite)
         /\ \A w \in QueuedWrite : [writes EXCEPT ![1] = w] \in Seq(QueuedWrite)
         /\ \A operation : CountSent(operation, n) => sent' \in [Operations -> Nat]
<1>1. writes \in Seq(QueuedWrite) /\ sent \in [Operations -> Nat] /\ n \in Nat
  BY CoreAssumption DEF TypeOK
<1>2. writes[1] \in QueuedWrite /\ Tail(writes) \in Seq(QueuedWrite)
  BY <1>1
<1>3. Progressed(n) \in QueuedWrite
  <2> DEFINE w == writes[1]
  <2>1. w.written + n \in Nat /\ (w.started \/ n > 0) \in BOOLEAN
    BY <1>1, <1>2, QueuedWriteFields
  <2>2. Progressed(n) = [w EXCEPT !.written = w.written + n, !.started = (w.started \/ n > 0)]
    BY <1>2 DEF Progressed, QueuedWrite
  <2> HIDE DEF w
  <2> QED
    BY <1>2, <2>1, <2>2 DEF QueuedWrite, w
<1>4. \A w \in QueuedWrite : [writes EXCEPT ![1] = w] \in Seq(QueuedWrite)
  BY <1>1
<1>5. ASSUME NEW operation, CountSent(operation, n)
      PROVE  sent' \in [Operations -> Nat]
  <2>1. CASE operation \in Operations
    <3>1. sent[operation] + n \in Nat
      BY <1>1, <2>1
    <3> QED
      BY <1>1, <1>5, <2>1, <3>1 DEF CountSent
  <2>2. CASE operation \notin Operations
    BY <1>1, <1>5, <2>2 DEF CountSent
  <2> QED
    BY <2>1, <2>2
<1> QED
  BY <1>2, <1>3, <1>4, <1>5

LEMMA OverReportKeeps ==
  ASSUME TypedDrain, NEW n \in 0..MaxReported, OverReport(n)
  PROVE  TypedDrain'
<1>1. TypeOK /\ writes # <<>>
  BY DEF TypedDrain, OverReport, WritePending
<1> DEFINE w == [writes[1] EXCEPT !.started = (writes[1].started \/ n > 0)]
<1>2. writes[1] \in QueuedWrite /\ n \in Nat
  BY <1>1, ProgressTypes, CoreAssumption
<1>3. w \in QueuedWrite
  <2>1. (writes[1].started \/ n > 0) \in BOOLEAN
    BY <1>2, QueuedWriteFields
  <2> QED
    BY <1>2, <2>1 DEF QueuedWrite
<1>4. writes' = [writes EXCEPT ![1] = w]
  BY <1>1, <1>2 DEF OverReport, QueuedWrite, TypeOK
<1> HIDE DEF w
<1>5. writes' \in Seq(QueuedWrite)
  BY <1>1, <1>3, <1>4, ProgressTypes
<1>6. sent' \in [Operations -> Nat]
  BY <1>1, ProgressTypes DEF OverReport
<1>7. journal' \in Journal /\ poisoned' \in Poisons /\ poisoned' # "None"
  BY EmptyJournalType DEF OverReport, Poisons
<1>8. UNCHANGED <<machine, permits, writeBudget, accepted, completed, timers, published>>
  BY DEF OverReport
<1> QED
  BY <1>1, <1>5, <1>6, <1>7, <1>8 DEF TypedDrain, TypeOK, DrainNeverIdles

LEMMA PartialWriteKeeps ==
  ASSUME TypedDrain, NEW n \in 0..MaxReported, PartialWrite(n)
  PROVE  TypedDrain'
<1> DEFINE operation == writes[1].operation
           applies == Crosses(n) => StartApplies(machine, operation, writes[1].effect)
<1>1. TypeOK /\ writes # <<>> /\ machine \in Machine /\ poisoned = "None"
  BY DEF TypedDrain, TypeOK, PartialWrite, WritePending
<1>2. /\ writes' = [writes EXCEPT ![1] = Progressed(n)]
      /\ machine' = IF Crosses(n) /\ applies THEN WriteStarted(machine, operation) ELSE machine
      /\ poisoned' = IF applies THEN "None" ELSE "WritePolicyMismatch"
      /\ journal' = IF applies THEN EmptyJournal ELSE ArmedJournal
      /\ CountSent(operation, n)
      /\ UNCHANGED <<permits, writeBudget, accepted, completed, timers, published>>
  BY DEF PartialWrite
<1>3. Crosses(n) /\ applies => Holds(machine.pending, operation)
  BY DEF StartApplies
<1> HIDE DEF applies, operation
<1>4. machine' \in Machine
  BY <1>1, <1>2, <1>3, WriteStartedType
<1>5. DrainWaits(machine')
  BY <1>1, <1>2, <1>3, WriteStartedType, DrainOfMachine DEF TypedDrain
<1>6. writes' \in Seq(QueuedWrite) /\ sent' \in [Operations -> Nat]
  BY <1>1, <1>2, ProgressTypes
<1>7. journal' \in Journal /\ poisoned' \in Poisons
  BY <1>2, EmptyJournalType DEF Poisons
<1>8. TypeOK'
  BY <1>1, <1>2, <1>4, <1>6, <1>7 DEF TypeOK
<1> QED
  BY <1>5, <1>8, DrainOfMachineNext DEF TypedDrain

LEMMA CompleteWriteKeeps ==
  ASSUME TypedDrain, NEW n \in 0..MaxReported, CompleteWrite(n)
  PROVE  TypedDrain'
<1> DEFINE operation == writes[1].operation
           effect == writes[1].effect
           known == Holds(machine.pending, operation)
           starts == Crosses(n) => StartApplies(machine, operation, effect)
           started == IF Crosses(n) THEN WriteStarted(machine, operation) ELSE machine
           completes == CompleteApplies(started, operation, effect)
           t == OnWriteCompleted(started, operation)
           failure == IF ~known THEN "UnexpectedWrite"
                      ELSE IF ~starts \/ ~completes THEN "WritePolicyMismatch"
                      ELSE IF t.machine.ledger.poisoned THEN "ReservationAccounting"
                      ELSE "None"
           retained == [ArmedJournal EXCEPT
                          !.writes = <<Progressed(n)>>,
                          !.operations = IF known
                                         THEN <<JournalEntry(IndexOf(machine.pending, operation))>>
                                         ELSE <<>>]
<1>1. /\ TypeOK /\ writes # <<>> /\ machine \in Machine /\ poisoned = "None"
      /\ DrainWaits(machine)
  BY DrainOfMachine DEF TypedDrain, TypeOK, CompleteWrite, WritePending
<1>2. CountSent(operation, n) /\ UNCHANGED <<permits, accepted>>
  BY DEF CompleteWrite
<1>3. sent' \in [Operations -> Nat]
  BY <1>1, <1>2, ProgressTypes
<1>4. CASE writes[1].retained > writeBudget
  <2>1. /\ poisoned' = "WriteAccounting" /\ journal' = ArmedJournal
        /\ UNCHANGED <<machine, writes, writeBudget, completed, timers, published>>
    BY <1>4 DEF CompleteWrite
  <2> QED
    BY <1>1, <1>2, <1>3, <2>1, EmptyJournalType
       DEF TypedDrain, TypeOK, DrainNeverIdles, Poisons
<1>5. CASE ~(writes[1].retained > writeBudget)
  <2>1. /\ writes' = Tail(writes)
        /\ writeBudget' = writeBudget - writes[1].retained
        /\ machine' = IF ~known \/ ~starts THEN machine
                      ELSE IF ~completes THEN started
                      ELSE t.machine
        /\ completed' = completed \cup {operation}
        /\ poisoned' = failure
        /\ IF failure = "None"
           THEN journal' = EmptyJournal /\ Emit(t)
           ELSE journal' = retained /\ UNCHANGED <<timers, published>>
    BY <1>5 DEF CompleteWrite
  <2>2. writes[1] \in QueuedWrite /\ Progressed(n) \in QueuedWrite
    BY <1>1, ProgressTypes
  <2>3. /\ writes' \in Seq(QueuedWrite) /\ writeBudget' \in Nat /\ completed' \subseteq Nat
    <3>1. writes[1].retained \in Nat /\ operation \in Nat /\ writeBudget \in Nat
      BY <1>1, <2>2, QueuedWriteFields DEF TypeOK
    <3> QED
      BY <1>1, <1>5, <2>1, <3>1, ProgressTypes DEF TypeOK
  <2>4. starts /\ known => started \in Machine /\ DrainWaits(started)
    BY <1>1, WriteStartedType DEF StartApplies
  <2>5. completes => Holds(started.pending, operation)
    BY DEF CompleteApplies
  <2>6. known /\ starts /\ completes => t \in Transitions /\ DrainWaits(t.machine)
    <3> HIDE DEF known, starts, completes, started
    <3> QED BY <2>4, <2>5, OnWriteCompletedType
  <2>7. failure = "None" => known /\ starts /\ completes
    <3> HIDE DEF known, starts, completes, t
    <3> QED OBVIOUS
  <2>8. failure \in Poisons
    <3> HIDE DEF known, starts, completes, t
    <3> QED BY DEF Poisons
  <2>9. retained \in Journal
    <3> DEFINE Entry == [index : Nat, record : OperationRecord]
               entries == IF known
                          THEN <<JournalEntry(IndexOf(machine.pending, operation))>>
                          ELSE <<>>
    <3>1. entries \in Seq(Entry)
      <4>1. known => JournalEntry(IndexOf(machine.pending, operation)) \in Entry
        BY <1>1, IndexOfType, JournalEntryType
      <4> HIDE DEF Entry, known
      <4> QED
        BY <4>1
    <3>2. <<Progressed(n)>> \in Seq(QueuedWrite)
      BY <2>2
    <3> HIDE DEF entries, Entry
    <3>3. [ArmedJournal EXCEPT !.writes = <<Progressed(n)>>, !.operations = entries] \in Journal
      BY <3>1, <3>2, EmptyJournalType DEF Journal, Entry
    <3> QED
      BY <3>3 DEF entries
  <2> HIDE DEF known, starts, completes, started, t, failure, retained
  <2>10. machine' \in Machine /\ (poisoned' = "None" => DrainWaits(machine'))
    BY <1>1, <2>1, <2>4, <2>6, TransitionFields
  <2>11. journal' \in Journal
    BY <2>1, <2>9, EmptyJournalType
  <2>12. /\ timers' \subseteq Operations \X Moments
         /\ published' \in [Operations -> Seq(Outcomes)]
    BY <1>1, <2>1, <2>6, <2>7, EmitType DEF TypeOK
  <2>13. TypeOK'
    BY <1>1, <1>2, <1>3, <2>1, <2>3, <2>8, <2>10, <2>11, <2>12 DEF TypeOK
  <2> QED
    BY <2>10, <2>13, DrainOfMachineNext DEF TypedDrain
<1> QED
  BY <1>4, <1>5

LEMMA RecoverKeeps ==
  ASSUME TypedDrain, Recover
  PROVE  TypedDrain'
<1> DEFINE l == ReleaseRecords(machine.ledger, machine.pending)
<1>1. TypeOK /\ machine \in Machine
  BY DEF TypedDrain, TypeOK
<1>2. l \in Ledger
  <2>1. machine.pending \in Seq(OperationRecord) /\ machine.ledger \in Ledger
    BY <1>1, MachineFields
  <2>2. \A i \in 1..Len(machine.pending) : machine.pending[i] \in OperationRecord
    BY <2>1
  <2>3. \A i \in 1..Len(machine.pending) : /\ machine.pending[i].reservation \in Reservation
                                           /\ machine.pending[i].writeHeld \in BOOLEAN
    BY <2>2, RecordFields
  <2> QED
    BY <2>1, <2>3, ReleaseRecordsType
<1>3. /\ machine' = [machine EXCEPT !.pending = <<>>, !.ledger = l]
      /\ writes' = <<>> /\ writeBudget' = 0 /\ journal' = EmptyJournal
      /\ poisoned' = (IF poisoned = "None" THEN "Recovered" ELSE poisoned)
      /\ UNCHANGED <<permits, accepted, sent, completed, timers, published>>
  BY DEF Recover
<1> HIDE DEF l
<1>4. machine' \in Machine
  <2>1. <<>> \in Seq(OperationRecord)
    OBVIOUS
  <2> QED
    BY <1>1, <1>2, <1>3, <2>1, MachineUpdate
<1>5. poisoned' \in Poisons /\ poisoned' # "None"
  BY <1>1, <1>3 DEF TypeOK, Poisons
<1> QED
  BY <1>1, <1>3, <1>4, <1>5, EmptyJournalType DEF TypedDrain, TypeOK, DrainNeverIdles

LEMMA FaultsKeep ==
  ASSUME TypedDrain
  PROVE  /\ \A i \in DOMAIN writes : LoseWrite(i) => TypedDrain'
         /\ \A frame \in Frames : StrayWrite(frame) => TypedDrain'
<1>1. TypeOK
  BY DEF TypedDrain
<1>2. ASSUME NEW i \in DOMAIN writes, LoseWrite(i)
      PROVE  TypedDrain'
  <2>1. writes' \in Seq(QueuedWrite)
    BY <1>1, <1>2, RemoveAtType DEF LoseWrite, TypeOK
  <2>2. writes[i].retained \in Nat
    BY <1>1, QueuedWriteFields DEF TypeOK
  <2>3. writeBudget' \in Nat
    BY <1>1, <1>2, <2>2 DEF LoseWrite, TypeOK
  <2> QED
    BY <1>1, <1>2, <2>1, <2>3 DEF LoseWrite, TypedDrain, TypeOK, DrainNeverIdles
<1>3. ASSUME NEW frame \in Frames, StrayWrite(frame)
      PROVE  TypedDrain'
  <2> DEFINE stray == [operation |-> StrayIdentity, effect |-> StrayIdentity]
  <2>1. StrayIdentity \in Nat
    BY IdentityAssumption DEF StrayIdentity
  <2>2. NewWrite(stray, frame) \in QueuedWrite
    BY <2>1, NewWriteType
  <2>3. writes' \in Seq(QueuedWrite)
    BY <1>1, <1>3, <2>2 DEF StrayWrite, TypeOK
  <2>4. writeBudget' \in Nat
    BY <1>1, <1>3, FramesAssumption DEF StrayWrite, TypeOK
  <2> QED
    BY <1>1, <1>3, <2>3, <2>4 DEF StrayWrite, TypedDrain, TypeOK, DrainNeverIdles
<1> QED
  BY <1>2, <1>3

LEMMA LatchesKeep ==
  ASSUME TypedDrain
  PROVE  /\ FrontWriteViolation => TypedDrain'
         /\ AuditFails => TypedDrain'
<1>1. Audit \in Poisons
  BY DEF Audit, MergeViolation, Poisons
<1> QED
  BY <1>1 DEF FrontWriteViolation, AuditFails, TypedDrain, TypeOK, DrainNeverIdles,
              worldVars, Poisons

(***************************************************************************)
(* The theorems.                                                           *)
(***************************************************************************)
LEMMA InitTyped == Init => TypedDrain
<1> SUFFICES ASSUME Init PROVE TypedDrain
  OBVIOUS
<1>1. machine \in Machine /\ machine.gate = "SessionOnly"
  BY NewMachineType DEF Init, NewMachine
<1>2. published \in [Operations -> Seq(Outcomes)] /\ sent \in [Operations -> Nat]
  BY DEF Init
<1>3. journal \in Journal
  BY EmptyJournalType DEF Init
<1> QED
  BY <1>1, <1>2, <1>3 DEF Init, TypedDrain, TypeOK, DrainNeverIdles, Poisons

LEMMA NextTyped == TypedDrain /\ [Next]_vars => TypedDrain'
<1> SUFFICES ASSUME TypedDrain, [Next]_vars PROVE TypedDrain'
  OBVIOUS
<1>1. ASSUME NEW now \in Moments, NEW options \in Options, Reserve(now, options)
      PROVE  TypedDrain'
  BY <1>1, ReserveKeeps
<1>2. ASSUME NEW permit \in permits, DropPermit(permit)
      PROVE  TypedDrain'
  BY <1>2, DropPermitKeeps
<1>3. ASSUME NEW permit \in permits, NEW frame \in Frames, Commit(permit, frame)
      PROVE  TypedDrain'
  BY <1>3, CommitKeeps
<1>4. CASE OpenAdmission \/ BeginDrain \/ EpochClosed \/ ReplyMalformed
  <2>1. Healthy
    BY <1>4 DEF OpenAdmission, BeginDrain, EpochClosed, ReplyMalformed
  <2> QED
    BY <1>4, <2>1, InputsKeep
<1>5. ASSUME NEW reason \in RequestedReasons, CloseRequested(reason)
      PROVE  TypedDrain'
  <2>1. Healthy
    BY <1>5 DEF CloseRequested
  <2> QED
    BY <1>5, <2>1, InputsKeep
<1>6. ASSUME NEW operation \in Operations, Cancel(operation)
      PROVE  TypedDrain'
  <2>1. Healthy
    BY <1>6 DEF Cancel
  <2> QED
    BY <1>6, <2>1, InputsKeep
<1>7. ASSUME NEW operation \in Operations, NEW now \in Moments, DeadlineElapsed(operation, now)
      PROVE  TypedDrain'
  <2>1. Healthy
    BY <1>7 DEF DeadlineElapsed
  <2> QED
    BY <1>7, <2>1, InputsKeep
<1>8. ASSUME NEW key \in Keys, NEW reply \in Payloads, ApplyReply(key, reply)
      PROVE  TypedDrain'
  <2>1. Healthy
    BY <1>8 DEF ApplyReply
  <2>2. reply \in Nat
    BY CoreAssumption
  <2> QED
    BY <1>8, <2>1, <2>2, InputsKeep
<1>9. ASSUME NEW n \in 0..MaxReported, AdvanceWrite(n)
      PROVE  TypedDrain'
  BY <1>9, OverReportKeeps, PartialWriteKeeps, CompleteWriteKeeps DEF AdvanceWrite
<1>10. CASE FrontWriteViolation \/ AuditFails
  BY <1>10, LatchesKeep
<1>11. CASE Recover
  BY <1>11, RecoverKeeps
<1>12. ASSUME NEW i \in DOMAIN writes, LoseWrite(i)
       PROVE  TypedDrain'
  BY <1>12, FaultsKeep
<1>13. ASSUME NEW frame \in Frames, StrayWrite(frame)
       PROVE  TypedDrain'
  BY <1>13, FaultsKeep
<1>14. CASE UNCHANGED vars
  BY <1>14 DEF vars, TypedDrain, TypeOK, DrainNeverIdles
<1> QED
  BY <1>1, <1>2, <1>3, <1>4, <1>5, <1>6, <1>7, <1>8, <1>9, <1>10, <1>11, <1>12,
     <1>13, <1>14 DEF Next

LEMMA SpecTyped == Spec => []TypedDrain
  BY InitTyped, NextTyped, PTL DEF Spec

\* Every call, in any order, on any configuration, keeps every part of the
\* aggregate in its type: no count of ledger or writer underflows, permits and
\* records carry identities and match keys of their ranges, and the journal,
\* timers and outcomes stay well formed even on a poisoned owner.
THEOREM TypeCorrect == Spec => []TypeOK
<1>1. TypedDrain => TypeOK
  BY DEF TypedDrain
<1> QED
  BY <1>1, SpecTyped, PTL

\* A draining epoch is never left live with nothing to wait for: whichever call
\* takes the last operation out also closes the epoch.
THEOREM DrainClosesItself == Spec => []DrainNeverIdles
<1>1. TypedDrain => DrainNeverIdles
  BY DEF TypedDrain
<1> QED
  BY <1>1, SpecTyped, PTL

(***************************************************************************)
(* The aggregate.  The inductive invariant adds the identities of permits  *)
(* and records to the accounts: releasing a record takes out exactly one   *)
(* reservation only because no two records, and no record and permit,      *)
(* share an operation.                                                     *)
(***************************************************************************)
TimersKept == poisoned = "None" => timers = Timed(machine.pending)

Accounted == TypedDrain /\ Books(machine, permits) /\ TimersKept

LEMMA AccountsSettle ==
  ASSUME Accounted, Healthy, NEW t, NEW fired, Accounts(machine, permits, t, fired), NEW j,
         Settle(t, j, fired)
  PROVE  Books(machine', permits') /\ TimersKept'
<1> DEFINE q == Reconcile(t.discard)
           failure == IF q.failure # "None" THEN q.failure
                      ELSE IF t.machine.ledger.poisoned THEN "ReservationAccounting"
                      ELSE "None"
<1>1. Books(machine, permits) /\ timers = Timed(machine.pending)
  BY DEF Accounted, TimersKept, Healthy
<1>2. CASE ~JournalFits(j)
  BY <1>1, <1>2 DEF Settle, TimersKept, worldVars
<1>3. CASE JournalFits(j)
  <2>1. /\ machine' = t.machine /\ permits' = permits /\ poisoned' = failure
        /\ failure = "None" => Emit([t EXCEPT !.cancel = @ \cup fired])
    BY <1>3 DEF Settle
  <2> HIDE DEF q, failure
  <2>2. Books(machine', permits')
    BY <2>1 DEF Accounts
  <2>3. ASSUME poisoned' = "None" PROVE timers' = Timed(machine'.pending)
    <3> DEFINE e == [t EXCEPT !.cancel = @ \cup fired]
    <3>1. timers' = {x \in timers : x[1] \notin e.cancel} \cup e.schedule
      BY <2>1, <2>3 DEF Emit
    <3>2. e.cancel = t.cancel \cup fired /\ e.schedule = t.schedule
      BY DEF Accounts
    <3> HIDE DEF e
    <3> QED
      BY <1>1, <2>1, <3>1, <3>2 DEF Accounts, Reschedules
  <2> QED
    BY <2>2, <2>3 DEF TimersKept
<1> QED
  BY <1>2, <1>3

LEMMA InputsAccount ==
  ASSUME Accounted, Healthy
  PROVE  /\ OpenAdmission \/ BeginDrain \/ EpochClosed \/ ReplyMalformed
              => Books(machine', permits') /\ TimersKept'
         /\ \A reason \in RequestedReasons : CloseRequested(reason)
              => Books(machine', permits') /\ TimersKept'
         /\ \A operation \in Operations : Cancel(operation)
              => Books(machine', permits') /\ TimersKept'
         /\ \A operation \in Operations, now \in Moments : DeadlineElapsed(operation, now)
              => Books(machine', permits') /\ TimersKept'
         /\ \A key \in Keys, reply \in Payloads : ApplyReply(key, reply)
              => Books(machine', permits') /\ TimersKept'
<1>1. machine \in Machine /\ Books(machine, permits)
  BY DEF Accounted, TypedDrain, TypeOK
<1>2. OpenAdmission => Books(machine', permits') /\ TimersKept'
  BY <1>1, GateAccounts, AccountsSettle DEF OpenAdmission
<1>3. BeginDrain => Books(machine', permits') /\ TimersKept'
  BY <1>1, GateAccounts, AccountsSettle DEF BeginDrain
<1>4. EpochClosed => Books(machine', permits') /\ TimersKept'
  BY <1>1, GateAccounts, AccountsSettle DEF EpochClosed
<1>5. ReplyMalformed => Books(machine', permits') /\ TimersKept'
  <2>1. "MalformedReply" \in CloseReasons
    BY DEF CloseReasons
  <2> QED
    BY <1>1, <2>1, ClosingAccounts, AccountsSettle DEF ReplyMalformed, OnReplyMalformed
<1>6. ASSUME NEW reason \in RequestedReasons, CloseRequested(reason)
      PROVE  Books(machine', permits') /\ TimersKept'
  <2>1. reason \in CloseReasons
    BY CoreAssumption DEF CloseReasons
  <2> QED
    BY <1>1, <1>6, <2>1, ClosingAccounts, AccountsSettle DEF CloseRequested, OnCloseRequested
<1>7. ASSUME NEW operation \in Operations, Cancel(operation)
      PROVE  Books(machine', permits') /\ TimersKept'
  BY <1>1, <1>7, OnCancelAccounts, AccountsSettle DEF Cancel
<1>8. ASSUME NEW operation \in Operations, NEW now \in Moments, DeadlineElapsed(operation, now)
      PROVE  Books(machine', permits') /\ TimersKept'
  BY <1>1, <1>8, OnDeadlineElapsedAccounts, AccountsSettle DEF DeadlineElapsed
<1>9. ASSUME NEW key \in Keys, NEW reply \in Payloads, ApplyReply(key, reply)
      PROVE  Books(machine', permits') /\ TimersKept'
  <2>1. reply \in Nat
    BY CoreAssumption
  <2> QED
    BY <1>1, <1>9, <2>1, OnReplyAccounts, AccountsSettle DEF ApplyReply
<1> QED
  BY <1>2, <1>3, <1>4, <1>5, <1>6, <1>7, <1>8, <1>9

LEMMA AdmissionAccounts ==
  ASSUME Accounted
  PROVE  /\ \A now \in Moments, options \in Options : Reserve(now, options)
              => Books(machine', permits') /\ TimersKept'
         /\ \A permit \in permits : DropPermit(permit)
              => Books(machine', permits') /\ TimersKept'
         /\ \A permit \in permits, frame \in Frames : Commit(permit, frame)
              => Books(machine', permits') /\ TimersKept'
<1>1. machine \in Machine /\ Books(machine, permits) /\ TypeOK
  BY DEF Accounted, TypedDrain, TypeOK
<1>2. ASSUME NEW now \in Moments, NEW options \in Options, Reserve(now, options)
      PROVE  Books(machine', permits') /\ TimersKept'
  <2>1. options \in [retained : Nat, writeRetained : Nat, class : Classes,
                     completion : Completions, deadline : Moments]
    BY OptionsAssumption
  <2>2. options.retained \in Nat /\ options.writeRetained \in Nat
    BY <2>1
  <2>3. /\ MachineReserves(machine, now, options)
        /\ machine' = ReserveMachine(machine, options)
        /\ permits' = permits \cup {NewPermit(machine, options)}
        /\ UNCHANGED <<timers, poisoned>>
    BY <1>2 DEF Reserve, worldVars
  <2>4. machine'.pending = machine.pending
    BY <1>1, <2>2, <2>3, ReserveMachineType
  <2>5. Books(machine', permits')
    BY <1>1, <2>1, <2>3, ReservedBooks
  <2> QED
    BY <2>3, <2>4, <2>5 DEF Accounted, TimersKept
<1>3. ASSUME NEW permit \in permits, DropPermit(permit)
      PROVE  Books(machine', permits') /\ TimersKept'
  <2>1. /\ machine' = [machine EXCEPT !.ledger = RollbackPermit(machine.ledger, permit.reservation)]
        /\ permits' = permits \ {permit}
        /\ UNCHANGED <<timers, poisoned>>
    BY <1>1, <1>3 DEF DropPermit, worldVars, Machine
  <2>2. machine' \in Machine
    BY <1>3, DropPermitKeeps DEF Accounted, TypedDrain, TypeOK
  <2>3. Books(machine', permits')
    BY <1>1, <2>1, <2>2, DroppedBooks
  <2>4. machine'.pending = machine.pending
    BY <1>1, <2>1 DEF Machine
  <2> QED
    BY <2>1, <2>3, <2>4 DEF Accounted, TimersKept
<1>4. ASSUME NEW permit \in permits, NEW frame \in Frames, Commit(permit, frame)
      PROVE  Books(machine', permits') /\ TimersKept'
  <2>1. frame.retained \in Nat
    BY FramesAssumption
  <2>2. /\ MachineCommits(machine, permit, frame)
        /\ machine' = CommitPermit(machine, permit, frame)
        /\ permits' = permits \ {permit}
        /\ timers' = timers \cup {<<permit.operation, permit.deadline>>}
        /\ poisoned' = poisoned
    BY <1>4 DEF Commit
  <2>3. /\ Books(machine', permits')
        /\ Timed(machine'.pending)
             = Timed(machine.pending) \cup {<<permit.operation, permit.deadline>>}
    BY <1>1, <2>1, <2>2, CommittedBooks
  <2> QED
    BY <2>2, <2>3 DEF Accounted, TimersKept
<1> QED
  BY <1>2, <1>3, <1>4

LEMMA WritesAccount ==
  ASSUME Accounted, NEW n \in 0..MaxReported, AdvanceWrite(n)
  PROVE  Books(machine', permits') /\ TimersKept'
<1>1. machine \in Machine /\ Books(machine, permits)
  BY DEF Accounted, TypedDrain, TypeOK
<1>2. timers = Timed(machine.pending)
  BY DEF AdvanceWrite, OverReport, PartialWrite, CompleteWrite, WritePending, Accounted,
         TimersKept
<1> DEFINE operation == writes[1].operation
           effect == writes[1].effect
           started == WriteStarted(machine, operation)
<1>3. StartApplies(machine, operation, effect)
        => /\ started \in Machine /\ Books(started, permits)
           /\ Timed(started.pending) = Timed(machine.pending)
  BY <1>1, WriteStartedBooks DEF StartApplies
<1>4. CASE OverReport(n)
  BY <1>1, <1>4 DEF OverReport, TimersKept
<1>5. CASE PartialWrite(n)
  <2>1. /\ \/ machine' = machine
           \/ machine' = started /\ StartApplies(machine, operation, effect)
        /\ UNCHANGED <<permits, timers>>
    BY <1>5 DEF PartialWrite
  <2> HIDE DEF operation, effect, started
  <2>2. Books(machine', permits') /\ Timed(machine'.pending) = Timed(machine.pending)
    BY <1>1, <1>3, <2>1
  <2> QED
    BY <1>2, <2>1, <2>2 DEF TimersKept
<1>6. CASE CompleteWrite(n)
  <2> DEFINE known == Holds(machine.pending, operation)
             starts == Crosses(n) => StartApplies(machine, operation, effect)
             base == IF Crosses(n) THEN started ELSE machine
             completes == CompleteApplies(base, operation, effect)
             t == OnWriteCompleted(base, operation)
             failure == IF ~known THEN "UnexpectedWrite"
                        ELSE IF ~starts \/ ~completes THEN "WritePolicyMismatch"
                        ELSE IF t.machine.ledger.poisoned THEN "ReservationAccounting"
                        ELSE "None"
  <2>1. permits' = permits
    BY <1>6 DEF CompleteWrite
  <2>2. CASE writes[1].retained > writeBudget
    <3>1. UNCHANGED machine /\ poisoned' # "None"
      BY <1>6, <2>2 DEF CompleteWrite
    <3> QED
      BY <1>1, <2>1, <3>1 DEF TimersKept
  <2>3. CASE ~(writes[1].retained > writeBudget)
    <3>1. /\ machine' = IF ~known \/ ~starts THEN machine
                        ELSE IF ~completes THEN base
                        ELSE t.machine
          /\ poisoned' = failure
          /\ failure = "None" => Emit(t)
      BY <1>6, <2>3 DEF CompleteWrite
    <3>2. starts => /\ base \in Machine /\ Books(base, permits)
                    /\ Timed(base.pending) = Timed(machine.pending)
      BY <1>1, <1>3
    <3>3. starts /\ completes => Accounts(base, permits, t, {})
      <4>1. completes => Holds(base.pending, operation) /\ RecordOf(base, operation).writeHeld
        BY DEF CompleteApplies
      <4> HIDE DEF base, operation, completes, starts
      <4> QED
        BY <3>2, <4>1, OnWriteCompletedAccounts
    <3>4. poisoned' = "None" => known /\ starts /\ completes
      BY <3>1
    <3>5. poisoned' = "None" => Emit(t)
      BY <3>1
    <3> HIDE DEF known, starts, base, completes, t, failure
    <3>6. Books(machine', permits')
      BY <1>1, <2>1, <3>1, <3>2, <3>3 DEF Accounts
    <3>7. ASSUME poisoned' = "None" PROVE timers' = Timed(machine'.pending)
      <4>1. /\ machine' = t.machine /\ Accounts(base, permits, t, {})
            /\ timers = Timed(base.pending)
        BY <1>2, <3>1, <3>2, <3>3, <3>4, <3>7
      <4>2. timers' = {x \in timers : x[1] \notin t.cancel} \cup t.schedule
        BY <3>5, <3>7 DEF Emit
      <4>3. t.cancel \cup {} = t.cancel
        OBVIOUS
      <4> QED
        BY <4>1, <4>2, <4>3 DEF Accounts, Reschedules
    <3> QED
      BY <3>6, <3>7 DEF TimersKept
  <2> QED
    BY <2>2, <2>3
<1> QED
  BY <1>4, <1>5, <1>6 DEF AdvanceWrite

LEMMA RecoverAccounts ==
  ASSUME Accounted, Recover
  PROVE  Books(machine', permits') /\ TimersKept'
<1>1. machine \in Machine /\ Books(machine, permits)
  BY DEF Accounted, TypedDrain, TypeOK
<1>2. /\ machine' = [machine EXCEPT !.pending = <<>>,
                                    !.ledger = ReleaseRecords(machine.ledger, machine.pending)]
      /\ permits' = permits /\ poisoned' # "None"
  BY DEF Recover
<1>3. machine' \in Machine
  BY RecoverKeeps DEF Accounted, TypedDrain, TypeOK
<1>4. /\ machine'.pending = <<>>
      /\ machine'.ledger = ReleaseRecords(machine.ledger, machine.pending)
      /\ machine'.nextOperation = machine.nextOperation
      /\ machine'.nextEffect = machine.nextEffect
      /\ machine'.phase = machine.phase /\ machine'.gate = machine.gate
  BY <1>1, <1>2 DEF Machine
<1>5. Shut(machine')
  BY <1>1, <1>4 DEF Books, Shut
<1>6. Books(machine', permits)
  BY <1>1, <1>3, <1>4, <1>5, ClosedBooks
<1> QED
  BY <1>2, <1>6 DEF TimersKept

LEMMA InitAccounted == Init => Accounted
<1> SUFFICES ASSUME Init PROVE Accounted
  OBVIOUS
<1>1. TypedDrain
  BY InitTyped
<1>2. machine = NewMachine /\ permits = {} /\ timers = {}
  BY DEF Init
<1>3. Books(machine, permits)
  BY <1>2, NewBooks
<1>4. TimersKept
  BY <1>2 DEF NewMachine, TimersKept, Timed
<1> QED
  BY <1>1, <1>3, <1>4 DEF Accounted

LEMMA NextAccounted == Accounted /\ [Next]_vars => Accounted'
<1> SUFFICES ASSUME Accounted, [Next]_vars PROVE Accounted'
  OBVIOUS
<1>1. TypedDrain'
  BY NextTyped DEF Accounted
<1>2. Books(machine, permits)
  BY DEF Accounted
<1> SUFFICES Books(machine', permits') /\ TimersKept'
  BY <1>1 DEF Accounted
<1>3. ASSUME \/ \E now \in Moments, options \in Options : Reserve(now, options)
             \/ \E permit \in permits : DropPermit(permit)
             \/ \E permit \in permits, frame \in Frames : Commit(permit, frame)
      PROVE  Books(machine', permits') /\ TimersKept'
  BY <1>3, AdmissionAccounts
<1>4. ASSUME \/ OpenAdmission \/ BeginDrain \/ EpochClosed \/ ReplyMalformed
             \/ \E reason \in RequestedReasons : CloseRequested(reason)
             \/ \E operation \in Operations : Cancel(operation)
             \/ \E operation \in Operations, now \in Moments : DeadlineElapsed(operation, now)
             \/ \E key \in Keys, reply \in Payloads : ApplyReply(key, reply)
      PROVE  Books(machine', permits') /\ TimersKept'
  <2>1. Healthy
    BY <1>4 DEF OpenAdmission, BeginDrain, EpochClosed, ReplyMalformed, CloseRequested,
                Cancel, DeadlineElapsed, ApplyReply
  <2> QED
    BY <1>4, <2>1, InputsAccount
<1>5. ASSUME NEW n \in 0..MaxReported, AdvanceWrite(n)
      PROVE  Books(machine', permits') /\ TimersKept'
  BY <1>5, WritesAccount
<1>6. CASE FrontWriteViolation \/ AuditFails
  BY <1>2, <1>6 DEF FrontWriteViolation, AuditFails, TimersKept
<1>7. CASE Recover
  BY <1>7, RecoverAccounts
<1>8. ASSUME NEW i \in DOMAIN writes, LoseWrite(i)
      PROVE  Books(machine', permits') /\ TimersKept'
  BY <1>2, <1>8 DEF LoseWrite, TimersKept, Accounted
<1>9. ASSUME NEW frame \in Frames, StrayWrite(frame)
      PROVE  Books(machine', permits') /\ TimersKept'
  BY <1>2, <1>9 DEF StrayWrite, TimersKept, Accounted
<1>10. CASE UNCHANGED vars
  BY <1>2, <1>10 DEF vars, TimersKept, Accounted
<1> QED
  BY <1>3, <1>4, <1>5, <1>6, <1>7, <1>8, <1>9, <1>10 DEF Next

LEMMA SpecAccounted == Spec => []Accounted
  BY InitAccounted, NextAccounted, PTL DEF Spec

LEMMA AccountedExact == Accounted => AccountingExact
<1> SUFFICES ASSUME Accounted PROVE AccountingExact
  OBVIOUS
<1> DEFINE R == Reservations
           K == {r[2].key : r \in R}
           f == [r \in R |-> r[2].key]
<1>1. Reservations = AllHeld(machine, permits)
  BY DEF Reservations, AllHeld, Granted, Owed, HeldBy
<1>2. WriteReservations = FramesHeld(machine, permits)
  BY DEF WriteReservations, FramesHeld, Granted, OwedFrames, HeldBy
<1>3. Balanced(machine.ledger, Cardinality(permits), Reservations, WriteReservations)
  BY <1>1, <1>2, Zenon DEF Accounted, Books
<1>4. Cardinality(K) = Cardinality(R)
  <2>1. IsFiniteSet(R) /\ \A r, s \in R : r[2].key = s[2].key => r = s
    BY <1>3 DEF Balanced
  <2> HIDE DEF R
  <2>2. f \in Bijection(R, K)
    BY <2>1 DEF Bijection, Injection, Surjection, IsInjective
  <2>3. ExistsBijection(R, K)
    BY <2>2 DEF ExistsBijection
  <2> HIDE DEF K
  <2> QED
    BY <2>1, <2>3, FS_Bijection
<1>5. ClosedOwnsNothing
  BY DEF ClosedOwnsNothing, Accounted, Books, Shut
<1> QED
  BY <1>3, <1>4, <1>5 DEF AccountingExact, Balanced

\* The ledger is exact, for every limit, key space, identity range, workload,
\* misbehaviour and injected fault: after any sequence of reserve, commit, drop,
\* cancel, reply, deadline, write, close and recover it counts precisely what
\* outstanding permits and accepted operations hold, in operations, bytes, frames
\* and match keys, no checked subtraction ever fails, and keys never collide.
THEOREM AccountingIsExact == Spec => []AccountingExact
  BY SpecAccounted, AccountedExact, PTL

\* The driver's deadline index has exactly one timer for each operation that
\* holds a slot, at its original deadline, on every healthy owner: no call leaves
\* a record without a timer, an early delivery included, and none leaves one behind.
THEOREM DeadlinesAreCovered == Spec => []DeadlinesCovered
<1>1. Accounted => DeadlinesCovered
  BY DEF Accounted, TimersKept, DeadlinesCovered, Timed, TimerOf
<1> QED
  BY <1>1, SpecAccounted, PTL

\* The k records in front hold no frame; the i-th frame is of record k + i.
LEMMA HeldFrom ==
  ASSUME NEW s \in Seq(OperationRecord), NEW w \in Seq(QueuedWrite), NEW k, AlignedAt(k, s, w)
  PROVE  /\ Len(w) \in Nat /\ Len(s) \in Nat /\ k \in Nat /\ Len(s) = k + Len(w)
         /\ DOMAIN s = 1..Len(s) /\ DOMAIN w = 1..Len(w)
         /\ \A i \in DOMAIN s : s[i].writeHeld <=> i > k
         /\ \A i \in DOMAIN s : i > k <=> i - k \in DOMAIN w
         /\ \A i \in DOMAIN w : k + i \in DOMAIN s
<1>1. /\ Len(w) \in Nat /\ Len(s) \in Nat /\ k \in Nat /\ Len(s) = k + Len(w)
      /\ DOMAIN s = 1..Len(s) /\ DOMAIN w = 1..Len(w)
  BY DEF AlignedAt
<1>2. \A i \in 1..Len(s) : i > k => i - k \in 1..Len(w) /\ k + (i - k) = i
  BY <1>1
<1>3. \A i \in 1..Len(s) : ~(i > k) => i \in 1..k /\ i - k \notin 1..Len(w)
  BY <1>1
<1>4. \A i \in 1..Len(w) : k + i \in 1..Len(s)
  BY <1>1
<1>5. \A i \in 1..Len(s) : s[i].writeHeld <=> i > k
  BY <1>2, <1>3 DEF AlignedAt
<1> QED
  BY <1>1, <1>2, <1>3, <1>4, <1>5

LEMMA RemovedHeldAligned ==
  ASSUME NEW s \in Seq(OperationRecord), NEW w \in Seq(QueuedWrite), NEW k, AlignedAt(k, s, w),
         NEW i \in DOMAIN s, i > k
  PROVE  /\ i - k \in DOMAIN w /\ Matches(w[i - k], s[i])
         /\ AlignedAt(k, RemoveAt(s, i), RemoveAt(w, i - k))
<1> DEFINE d == i - k
           n == Len(w)
           r == RemoveAt(s, i)
           v == RemoveAt(w, d)
<1>1. /\ n \in Nat /\ k \in Nat /\ Len(s) = k + n
      /\ DOMAIN s = 1..(k + n) /\ DOMAIN w = 1..n /\ d \in 1..n /\ i = k + d
  BY HeldFrom
<1>2. /\ Len(r) = k + n - 1
      /\ \A j \in 1..(k + n - 1) : r[j] = IF j < i THEN s[j] ELSE s[j + 1]
  <2>1. Len(r) = Len(s) - 1
    BY RemoveAtType
  <2>2. \A j \in 1..(Len(s) - 1) : r[j] = IF j < i THEN s[j] ELSE s[j + 1]
    BY RemoveAtItems
  <2>3. Len(s) - 1 = k + n - 1
    BY <1>1
  <2> QED
    BY <2>1, <2>2, <2>3
<1>3. Len(v) = n - 1 /\ \A j \in 1..(n - 1) : v[j] = IF j < d THEN w[j] ELSE w[j + 1]
  <2>1. d \in DOMAIN w /\ Len(w) = n
    BY <1>1
  <2> HIDE DEF d, n
  <2> QED
    BY <2>1, RemoveAtItems, RemoveAtType
<1>4. /\ \A j \in 1..k : ~s[j].writeHeld
      /\ \A j \in 1..n : s[k + j].writeHeld /\ Matches(w[j], s[k + j])
      /\ \A j \in 2..n : ~w[j].started
      /\ \A j \in 1..(k + n) : RecordSound(s[j])
  BY <1>1 DEF AlignedAt
<1> HIDE DEF d, n, r, v
<1>5. \A j \in 1..k : ~r[j].writeHeld
  <2>1. \A j \in 1..k : j \in 1..(k + n - 1) /\ j < i
    BY <1>1
  <2> QED
    BY <1>2, <1>4, <2>1
<1>6. ASSUME NEW j \in 1..(n - 1) PROVE r[k + j].writeHeld /\ Matches(v[j], r[k + j])
  <2>1. /\ k + j \in 1..(k + n - 1) /\ (k + j < i <=> j < d)
        /\ j \in 1..n /\ j + 1 \in 1..n /\ (k + j) + 1 = k + (j + 1)
    BY <1>1
  <2>2. CASE j < d
    BY <1>2, <1>3, <1>4, <2>1, <2>2
  <2>3. CASE ~(j < d)
    <3>1. r[k + j] = s[k + (j + 1)] /\ v[j] = w[j + 1]
      BY <1>2, <1>3, <2>1, <2>3
    <3> QED
      BY <1>4, <2>1, <3>1
  <2> QED
    BY <2>2, <2>3
<1>7. \A j \in 2..(n - 1) : ~v[j].started
  <2>1. \A j \in 2..(n - 1) : j \in 1..(n - 1) /\ j \in 2..n /\ j + 1 \in 2..n
    BY <1>1
  <2> QED
    BY <1>3, <1>4, <2>1
<1>8. \A j \in 1..(k + n - 1) : RecordSound(r[j])
  <2>1. \A j \in 1..(k + n - 1) : j \in 1..(k + n) /\ j + 1 \in 1..(k + n)
    BY <1>1
  <2> QED
    BY <1>2, <1>4, <2>1
<1>9. AlignedAt(k, r, v)
  <2>1. Len(r) = k + Len(v)
    BY <1>1, <1>2, <1>3
  <2> QED
    BY <1>1, <1>2, <1>3, <1>5, <1>6, <1>7, <1>8, <2>1 DEF AlignedAt
<1>10. Matches(w[d], s[i])
  BY <1>1, <1>4
<1> QED
  BY <1>1, <1>9, <1>10 DEF d, r, v

LEMMA RemovedSentAligned ==
  ASSUME NEW s \in Seq(OperationRecord), NEW w \in Seq(QueuedWrite), NEW k, AlignedAt(k, s, w),
         NEW i \in DOMAIN s, ~(i > k)
  PROVE  AlignedAt(k - 1, RemoveAt(s, i), w)
<1> DEFINE n == Len(w)
           r == RemoveAt(s, i)
<1>1. /\ n \in Nat /\ k \in Nat /\ Len(s) = k + n /\ i \in 1..k /\ k - 1 \in Nat
      /\ DOMAIN s = 1..(k + n)
  BY HeldFrom
<1>2. /\ Len(r) = k + n - 1
      /\ \A j \in 1..(k + n - 1) : r[j] = IF j < i THEN s[j] ELSE s[j + 1]
  <2>1. Len(r) = Len(s) - 1
    BY RemoveAtType
  <2>2. \A j \in 1..(Len(s) - 1) : r[j] = IF j < i THEN s[j] ELSE s[j + 1]
    BY RemoveAtItems
  <2>3. Len(s) - 1 = k + n - 1
    BY <1>1
  <2> QED
    BY <2>1, <2>2, <2>3
<1>4. /\ \A j \in 1..k : ~s[j].writeHeld
      /\ \A j \in 1..n : s[k + j].writeHeld /\ Matches(w[j], s[k + j])
      /\ \A j \in 2..n : ~w[j].started
      /\ \A j \in 1..(k + n) : RecordSound(s[j])
  BY <1>1 DEF AlignedAt
<1>a. n = Len(w)
  OBVIOUS
<1> HIDE DEF n, r
<1>5. \A j \in 1..(k - 1) : ~r[j].writeHeld
  <2>1. \A j \in 1..(k - 1) : j \in 1..(k + n - 1) /\ j \in 1..k /\ j + 1 \in 1..k
    BY <1>1
  <2> QED
    BY <1>2, <1>4, <2>1
<1>6. ASSUME NEW j \in 1..n PROVE r[(k - 1) + j] = s[k + j]
  <2>1. (k - 1) + j \in 1..(k + n - 1) /\ ~((k - 1) + j < i) /\ ((k - 1) + j) + 1 = k + j
    BY <1>1
  <2> QED
    BY <1>2, <2>1
<1>7. \A j \in 1..(k + n - 1) : RecordSound(r[j])
  <2>1. \A j \in 1..(k + n - 1) : j \in 1..(k + n) /\ j + 1 \in 1..(k + n)
    BY <1>1
  <2> QED
    BY <1>2, <1>4, <2>1
<1>8. AlignedAt(k - 1, r, w)
  <2>1. Len(r) = (k - 1) + n
    BY <1>1, <1>2
  <2> QED
    BY <1>1, <1>2, <1>4, <1>5, <1>6, <1>7, <1>a, <2>1 DEF AlignedAt
<1> QED
  BY <1>8 DEF r

LEMMA AlikeMatched ==
  ASSUME NEW s \in Seq(OperationRecord), NEW w \in Seq(QueuedWrite), NEW b,
         Matched(s, w, b), NEW r, Alike(r, s)
  PROVE  Matched(r, w, b)
<1>1. PICK k \in Nat : AlignedAt(k, s, w)
  BY DEF Matched, Aligned
<1>2. /\ Len(w) \in Nat /\ Len(s) = k + Len(w) /\ DOMAIN s = 1..Len(s) /\ DOMAIN r = 1..Len(s)
      /\ Len(r) = k + Len(w)
  BY <1>1, HeldFrom DEF Alike
<1>3. \A i \in 1..k : i \in 1..Len(s)
  BY <1>2
<1>4. \A i \in 1..Len(w) : k + i \in 1..Len(s)
  BY <1>2
<1>5. AlignedAt(k, r, w)
  <2>1. \A i \in 1..k : ~r[i].writeHeld
    BY <1>1, <1>3 DEF AlignedAt, Alike
  <2>2. ASSUME NEW i \in 1..Len(w) PROVE r[k + i].writeHeld /\ Matches(w[i], r[k + i])
    <3>1. s[k + i].writeHeld /\ Matches(w[i], s[k + i])
      BY <1>1 DEF AlignedAt
    <3>2. /\ r[k + i].operation = s[k + i].operation /\ r[k + i].effect = s[k + i].effect
          /\ r[k + i].reservation = s[k + i].reservation
          /\ r[k + i].delivery = s[k + i].delivery /\ r[k + i].writeHeld = s[k + i].writeHeld
      BY <1>4 DEF Alike
    <3> QED
      BY <3>1, <3>2 DEF Matches
  <2>3. \A i \in 1..Len(r) : RecordSound(r[i])
    BY <1>1, <1>2 DEF AlignedAt, Alike
  <2> QED
    BY <1>1, <1>2, <2>1, <2>2, <2>3 DEF AlignedAt
<1>6. OwedFrames(r) = OwedFrames(s)
  <2>1. \A i \in 1..Len(s) : HeldBy(r[i]) = HeldBy(s[i]) /\ (r[i].writeHeld <=> s[i].writeHeld)
    BY DEF Alike, HeldBy
  <2> QED
    BY <1>2, <2>1 DEF OwedFrames
<1> QED
  BY <1>5, <1>6 DEF Matched, Aligned

\* The frames owed are those of the records from k + 1 on.
LEMMA OwedFramesFrom ==
  ASSUME NEW s \in Seq(OperationRecord), NEW w \in Seq(QueuedWrite), NEW k, AlignedAt(k, s, w)
  PROVE  OwedFrames(s) = {HeldBy(s[k + j]) : j \in 1..Len(w)}
<1>1. /\ Len(w) \in Nat /\ k \in Nat /\ Len(s) = k + Len(w) /\ DOMAIN s = 1..Len(s)
      /\ \A i \in DOMAIN s : s[i].writeHeld <=> i > k
  BY HeldFrom
<1>2. ASSUME NEW x \in OwedFrames(s) PROVE \E j \in 1..Len(w) : x = HeldBy(s[k + j])
  <2>1. PICK i \in DOMAIN s : x = HeldBy(s[i]) /\ i > k
    BY <1>1 DEF OwedFrames
  <2>2. i - k \in 1..Len(w) /\ k + (i - k) = i
    BY <1>1, <2>1
  <2> QED
    BY <2>1, <2>2
<1>3. ASSUME NEW j \in 1..Len(w) PROVE HeldBy(s[k + j]) \in OwedFrames(s)
  <2>1. k + j \in DOMAIN s /\ k + j > k
    BY <1>1
  <2> QED
    BY <1>1, <2>1 DEF OwedFrames
<1> QED
  BY <1>2, <1>3

\* As many frames as the writer queues.
LEMMA FramesCounted ==
  ASSUME NEW s \in Seq(OperationRecord), Distinct(s), NEW w \in Seq(QueuedWrite),
         Aligned(s, w)
  PROVE  IsFiniteSet(OwedFrames(s)) /\ Cardinality(OwedFrames(s)) = Len(w)
<1>1. PICK k \in Nat : AlignedAt(k, s, w)
  BY DEF Aligned
<1> DEFINE n == Len(w)
           f == [j \in 1..n |-> HeldBy(s[k + j])]
<1>2. /\ n \in Nat /\ DOMAIN w = 1..n /\ \A i \in DOMAIN w : k + i \in DOMAIN s
  BY <1>1, HeldFrom
<1>3. f \in [1..n -> OwedFrames(s)] /\ \A x \in OwedFrames(s) : \E j \in 1..n : f[j] = x
  BY <1>1, OwedFramesFrom
<1>4. ASSUME NEW i \in 1..n, NEW j \in 1..n, f[i] = f[j] PROVE i = j
  <2>1. s[k + i].operation = s[k + j].operation
    BY <1>4 DEF HeldBy
  <2>2. k + i = k + j
    BY <1>2, <2>1 DEF Distinct
  <2> QED
    BY <1>2, <2>2
<1>5. n = Len(w)
  OBVIOUS
<1> HIDE DEF f, n
<1> QED
  BY <1>2, <1>3, <1>4, <1>5, Enumerated

\* The records hold pairs whose bytes can be added up.
LEMMA OwedCountable ==
  ASSUME NEW s \in Seq(OperationRecord), NEW w \in Seq(QueuedWrite), Distinct(s), Aligned(s, w)
  PROVE  /\ Countable("writeRetained", OwedFrames(s)) /\ OwedFrames(s) \subseteq Pairs
         /\ Total("writeRetained", OwedFrames(s)) \in Nat
<1>1. IsFiniteSet(OwedFrames(s))
  BY FramesCounted
<1>2. OwedFrames(s) \subseteq Pairs
  <2>1. \A i \in DOMAIN s : HeldBy(s[i]) \in Pairs
    BY RecordFields DEF HeldBy, Pairs
  <2> QED
    BY <2>1 DEF OwedFrames
<1> QED
  BY <1>1, <1>2, PairsCountable, TotalType

\* Taking a record out takes out its frame's bytes.
LEMMA RemovedTotal ==
  ASSUME NEW s \in Seq(OperationRecord), NEW w \in Seq(QueuedWrite), Distinct(s), Aligned(s, w),
         NEW i \in DOMAIN s
  PROVE  /\ s[i].writeHeld =>
              /\ s[i].reservation.writeRetained <= Total("writeRetained", OwedFrames(s))
              /\ Total("writeRetained", OwedFrames(RemoveAt(s, i)))
                   = Total("writeRetained", OwedFrames(s)) - s[i].reservation.writeRetained
         /\ ~s[i].writeHeld => OwedFrames(RemoveAt(s, i)) = OwedFrames(s)
<1> DEFINE x == HeldBy(s[i])
           S == OwedFrames(s)
<1>1. Countable("writeRetained", S) /\ S \subseteq Pairs /\ Total("writeRetained", S) \in Nat
  BY OwedCountable
<1>2. OwedFrames(RemoveAt(s, i)) = S \ {x}
  BY RemovedRecord
<1>3. x \in S <=> s[i].writeHeld
  <2>1. \A j \in DOMAIN s : HeldBy(s[j]) = HeldBy(s[i]) => j = i
    BY DEF Distinct, HeldBy
  <2> QED
    BY <2>1 DEF OwedFrames
<1>4. x[2].writeRetained = s[i].reservation.writeRetained /\ s[i].reservation.writeRetained \in Nat
  BY RecordFields DEF HeldBy
<1> HIDE DEF x, S
<1>5. ASSUME x \in S
      PROVE  /\ s[i].reservation.writeRetained <= Total("writeRetained", S)
             /\ Total("writeRetained", S \ {x})
                  = Total("writeRetained", S) - s[i].reservation.writeRetained
  <2>1. /\ Total("writeRetained", S) = x[2].writeRetained + Total("writeRetained", S \ {x})
        /\ Total("writeRetained", S \ {x}) \in Nat
    BY <1>1, <1>5, BytesRemove DEF Countable
  <2> QED
    BY <1>1, <1>4, <2>1
<1> QED
  BY <1>2, <1>3, <1>5 DEF S

(***************************************************************************)
(* Policy and writer own the same frames: the owner never diverges by      *)
(* itself, and the writer never refuses a frame whose permit was granted.  *)
(***************************************************************************)

(***************************************************************************)
(* Reconciling the writer with the records a transition removed.           *)
(***************************************************************************)

\* What has been reconciled so far agrees with the records left, and the
\* journal has a slot for every frame left.
Reconciled(q, s) ==
  /\ q \in Reconciliation /\ q.failure = "None"
  /\ Matched(s, q.frames, q.used)
  /\ Len(q.taken) + Len(q.frames) <= MaxWriteFrames

LEMMA ReconciliationFields ==
  ASSUME NEW q \in Reconciliation
  PROVE  /\ q.frames \in Seq(QueuedWrite) /\ q.used \in Nat /\ q.taken \in Seq(QueuedWrite)
         /\ Len(q.taken) \in Nat /\ Len(q.frames) \in Nat
  BY DEF Reconciliation

LEMMA DiscardReconciles ==
  ASSUME NEW s \in Seq(OperationRecord), Named(s), NEW q, Reconciled(q, s), NEW i \in DOMAIN s
  PROVE  Reconciled(Discard(q, s[i]), RemoveAt(s, i))
<1> DEFINE w == q.frames
           r == s[i]
<1>1. /\ q \in Reconciliation /\ w \in Seq(QueuedWrite) /\ q.used \in Nat
      /\ q.taken \in Seq(QueuedWrite) /\ q.failure = "None"
      /\ Len(q.taken) \in Nat /\ Len(w) \in Nat
  BY ReconciliationFields DEF Reconciled
<1>2. PICK k \in Nat : AlignedAt(k, s, w)
  BY DEF Reconciled, Matched, Aligned
<1>3. Aligned(s, w) /\ Distinct(s) /\ q.used = Total("writeRetained", OwedFrames(s))
  BY DEF Reconciled, Matched, Named
<1>4. r.writeHeld <=> i > k
  BY <1>1, <1>2, HeldFrom
<1>5. CASE ~(i > k)
  <2>1. Discard(q, r) = q
    BY <1>4, <1>5 DEF Discard
  <2>2. AlignedAt(k - 1, RemoveAt(s, i), w) /\ k - 1 \in Nat
    <3>1. AlignedAt(k - 1, RemoveAt(s, i), w)
      BY <1>1, <1>2, <1>5, RemovedSentAligned
    <3> QED
      BY <3>1 DEF AlignedAt
  <2>3. OwedFrames(RemoveAt(s, i)) = OwedFrames(s)
    BY <1>1, <1>3, <1>4, <1>5, RemovedTotal
  <2>4. Matched(RemoveAt(s, i), w, q.used)
    BY <1>3, <2>2, <2>3 DEF Matched, Aligned
  <2> QED
    BY <2>1, <2>4 DEF Reconciled
<1>6. CASE i > k
  <2> DEFINE d == i - k
             frame == w[d]
             after == [frames |-> RemoveAt(w, d), used |-> q.used - frame.retained,
                       taken |-> Append(q.taken, frame), failure |-> "None"]
  <2>1. d \in DOMAIN w /\ Matches(frame, r) /\ AlignedAt(k, RemoveAt(s, i), RemoveAt(w, d))
    BY <1>1, <1>2, <1>6, RemovedHeldAligned
  <2>2. ASSUME NEW j \in DOMAIN w, w[j].effect = r.effect PROVE j = d
    <3>1. j \in 1..Len(w) /\ k + j \in DOMAIN s
      BY <1>1, <1>2, HeldFrom
    <3>2. s[k + j].effect = r.effect
      BY <1>2, <2>2, <3>1 DEF AlignedAt, Matches
    <3>3. s[k + j].operation \in Int /\ r.operation \in Int /\ Shift \in Int
      BY <3>1, RecordFields, IdentityAssumption DEF Operations, Shift
    <3>4. s[k + j].operation = r.operation
      BY <3>1, <3>2, <3>3 DEF Named
    <3>5. k + j = i
      BY <1>3, <3>1, <3>4 DEF Distinct
    <3> QED
      BY <3>1, <3>5
  <2>3. frame.effect = r.effect /\ frame.operation = r.operation
        /\ frame.retained = r.reservation.writeRetained /\ frame \in QueuedWrite
    BY <1>1, <2>1 DEF Matches
  <2>4. (CHOOSE j \in DOMAIN w : w[j].effect = r.effect) = d /\ HasEffect(w, r.effect)
    BY <2>1, <2>2, <2>3 DEF HasEffect
  <2>5. /\ frame.retained <= q.used
        /\ Total("writeRetained", OwedFrames(RemoveAt(s, i))) = q.used - frame.retained
        /\ frame.retained \in Nat
    <3>1. /\ r.reservation.writeRetained <= Total("writeRetained", OwedFrames(s))
          /\ Total("writeRetained", OwedFrames(RemoveAt(s, i)))
               = Total("writeRetained", OwedFrames(s)) - r.reservation.writeRetained
      BY <1>1, <1>3, <1>4, <1>6, RemovedTotal
    <3>2. frame.retained \in Nat
      BY <2>3, QueuedWriteFields
    <3> QED
      BY <1>3, <2>3, <3>1, <3>2
  <2>6. /\ RemoveAt(w, d) \in Seq(QueuedWrite) /\ Len(RemoveAt(w, d)) = Len(w) - 1
        /\ Len(w) > 0
    <3>1. Len(w) > 0
      BY <1>1, <2>1
    <3> HIDE DEF d
    <3> QED
      BY <1>1, <2>1, <3>1, RemoveAtType
  <2>7. Len(q.taken) # MaxWriteFrames
    <3>1. Len(q.taken) + Len(w) <= MaxWriteFrames
      BY DEF Reconciled
    <3> HIDE DEF w
    <3> QED
      BY <1>1, <2>6, <3>1, LimitsAssumption
  <2>8. Discard(q, r) = after
    <3>1. /\ ~(q.failure # "None" \/ ~r.writeHeld) /\ ~~HasEffect(w, r.effect)
          /\ ~(frame.retained > q.used)
      <4> HIDE DEF frame
      <4> QED
        BY <1>1, <1>4, <1>6, <2>4, <2>5
    <3> HIDE DEF d
    <3> QED
      BY <2>3, <2>4, <2>7, <3>1 DEF Discard
  <2> HIDE DEF d
  <2>9. after \in Reconciliation /\ after.failure = "None"
    <3>1. Append(q.taken, frame) \in Seq(QueuedWrite) /\ q.used - frame.retained \in Nat
      BY <1>1, <2>3, <2>5
    <3>2. "None" \in Poisons
      BY DEF Poisons
    <3> HIDE DEF frame
    <3> QED
      BY <2>6, <3>1, <3>2 DEF Reconciliation
  <2>10. Matched(RemoveAt(s, i), after.frames, after.used)
    BY <1>2, <2>1, <2>5 DEF Matched, Aligned
  <2>11. Len(after.taken) + Len(after.frames) <= MaxWriteFrames
    <3>1. Len(Append(q.taken, frame)) = Len(q.taken) + 1
      BY <1>1
    <3>2. Len(q.taken) + Len(w) <= MaxWriteFrames
      BY DEF Reconciled
    <3>3. /\ Len(after.taken) = Len(q.taken) + 1 /\ Len(after.frames) = Len(w) - 1
      BY <2>6, <3>1
    <3> HIDE DEF frame, after, w
    <3> QED
      BY <1>1, <3>2, <3>3, LimitsAssumption
  <2> HIDE DEF after
  <2> QED
    BY <2>8, <2>9, <2>10, <2>11 DEF Reconciled
<1> QED
  BY <1>5, <1>6

\* Before the first discard.
Unreconciled == [frames |-> writes, used |-> writeBudget, taken |-> <<>>, failure |-> "None"]

\* The writer's state a call starts from.
WriterSound(s) ==
  /\ writes \in Seq(QueuedWrite) /\ writeBudget \in Nat
  /\ Named(s) /\ Matched(s, writes, writeBudget) /\ Len(writes) <= MaxWriteFrames

LEMMA UnreconciledSound ==
  ASSUME NEW s, WriterSound(s)
  PROVE  Reconciled(Unreconciled, s)
<1>1. Unreconciled \in Reconciliation
  <2>1. <<>> \in Seq(QueuedWrite) /\ "None" \in Poisons
    BY DEF Poisons
  <2> QED
    BY <2>1 DEF Reconciliation, Unreconciled, WriterSound
<1>2. Len(Unreconciled.taken) + Len(Unreconciled.frames) <= MaxWriteFrames
  <2>1. Len(writes) \in Nat /\ Len(writes) <= MaxWriteFrames
    BY DEF WriterSound
  <2> QED
    BY <2>1 DEF Unreconciled
<1> QED
  BY <1>1, <1>2 DEF Reconciled, WriterSound, Unreconciled

LEMMA ReconcileNone ==
  ASSUME writes \in Seq(QueuedWrite), writeBudget \in Nat
  PROVE  Reconcile(<<>>) = Unreconciled
<1>1. Len(<<>>) = 0
  OBVIOUS
<1>2. PICK after \in [0..0 -> Reconciliation] :
        after[0] = Unreconciled /\ after[0] = Reconcile(<<>>)
  BY <1>1, ReconcileIterates DEF Unreconciled
<1> QED
  BY <1>2

LEMMA ReconcileOne ==
  ASSUME writes \in Seq(QueuedWrite), writeBudget \in Nat, NEW r \in OperationRecord
  PROVE  Reconcile(<<r>>) = Discard(Unreconciled, r)
<1> DEFINE one == <<r>>
<1>1. Len(one) = 1 /\ one[1] = r
  OBVIOUS
<1> HIDE DEF one
<1>2. PICK after \in [0..1 -> Reconciliation] :
        /\ after[0] = Unreconciled
        /\ \A i \in 1..1 : after[i] = Discard(after[i - 1], one[i])
        /\ after[1] = Reconcile(one)
  BY <1>1, ReconcileIterates DEF Unreconciled
<1>3. 1 \in 1..1 /\ 1 - 1 = 0
  OBVIOUS
<1>4. after[1] = Discard(after[0], one[1])
  BY <1>2, <1>3
<1>5. Reconcile(one) = Discard(Unreconciled, r)
  BY <1>1, <1>2, <1>4
<1> QED
  BY <1>5 DEF one

\* Closing discards every frame.
LEMMA ReconcileAll ==
  ASSUME NEW s \in Seq(OperationRecord), WriterSound(s)
  PROVE  Reconciled(Reconcile(s), <<>>)
<1> DEFINE n == Len(s)
<1>1. n \in Nat
  OBVIOUS
<1>2. PICK after \in [0..n -> Reconciliation] :
        /\ after[0] = Unreconciled
        /\ \A i \in 1..n : after[i] = Discard(after[i - 1], s[i])
        /\ after[n] = Reconcile(s)
  BY <1>1, ReconcileIterates DEF Unreconciled, WriterSound
<1> DEFINE G == {i \in 0..n : Named(Rest(s, i)) /\ Reconciled(after[i], Rest(s, i))}
<1>3. Rest(s, 0) = s /\ Rest(s, n) = <<>>
  BY RestEnds
<1>4. 0 \in G
  <2>1. Reconciled(after[0], s) /\ Named(s)
    BY <1>2, UnreconciledSound DEF WriterSound
  <2> QED
    BY <1>1, <1>3, <2>1
<1>5. ASSUME NEW i \in 0..(n - 1), i \in G PROVE i + 1 \in G
  <2> DEFINE a == Rest(s, i)
  <2>1. /\ a \in Seq(OperationRecord) /\ 1 \in DOMAIN a /\ a[1] = s[i + 1]
        /\ RemoveAt(a, 1) = Rest(s, i + 1)
    BY RestSteps
  <2>2. Named(a) /\ Reconciled(after[i], a)
    BY <1>5
  <2> HIDE DEF a
  <2>3. i + 1 \in 1..n /\ (i + 1) - 1 = i /\ i + 1 \in 0..n
    BY <1>1
  <2>4. after[i + 1] = Discard(after[i], a[1])
    BY <1>2, <2>1, <2>3
  <2>5. Reconciled(after[i + 1], Rest(s, i + 1))
    BY <2>1, <2>2, <2>4, DiscardReconciles
  <2>6. Named(Rest(s, i + 1))
    BY <2>1, <2>2, NamedRemoved
  <2> QED
    BY <2>3, <2>5, <2>6
<1>6. 0..n \subseteq G
  <2> HIDE DEF G
  <2> QED
    BY <1>1, <1>4, <1>5, BoundedInduction
<1>7. Reconciled(after[n], Rest(s, n))
  BY <1>1, <1>6
<1> QED
  BY <1>2, <1>3, <1>7

LEMMA DiscardsReconcile ==
  ASSUME NEW s \in Seq(OperationRecord), WriterSound(s), NEW discard, NEW r,
         Discards(s, discard, r)
  PROVE  Reconciled(Reconcile(discard), r)
<1>1. writes \in Seq(QueuedWrite) /\ writeBudget \in Nat /\ Named(s)
      /\ Reconciled(Unreconciled, s)
  BY UnreconciledSound DEF WriterSound
<1>2. CASE discard = <<>> /\ Alike(r, s)
  <2>1. Reconcile(discard) = Unreconciled
    BY <1>1, <1>2, ReconcileNone
  <2>2. Matched(r, writes, writeBudget)
    BY <1>2, AlikeMatched DEF WriterSound
  <2>3. Unreconciled.frames = writes /\ Unreconciled.used = writeBudget
    BY DEF Unreconciled
  <2> QED
    BY <1>1, <2>1, <2>2, <2>3 DEF Reconciled
<1>3. ASSUME NEW i \in DOMAIN s, r = RemoveAt(s, i), discard = <<s[i]>>
      PROVE  Reconciled(Reconcile(discard), r)
  <2>1. s[i] \in OperationRecord
    OBVIOUS
  <2>2. Reconcile(discard) = Discard(Unreconciled, s[i])
    BY <1>1, <1>3, <2>1, ReconcileOne
  <2> QED
    BY <1>1, <1>3, <2>2, DiscardReconciles
<1>4. ASSUME NEW i \in DOMAIN s, r = RemoveAt(s, i), discard = <<>>, ~s[i].writeHeld
      PROVE  Reconciled(Reconcile(discard), r)
  <2>1. Reconcile(discard) = Unreconciled
    BY <1>1, <1>4, ReconcileNone
  <2>2. Discard(Unreconciled, s[i]) = Unreconciled
    BY <1>4 DEF Discard
  <2>3. Reconciled(Discard(Unreconciled, s[i]), RemoveAt(s, i))
    BY <1>1, DiscardReconciles
  <2> QED
    BY <1>4, <2>1, <2>2, <2>3
<1>5. CASE discard = s /\ r = <<>>
  BY <1>5, ReconcileAll
<1> QED
  BY <1>2, <1>3, <1>4, <1>5 DEF Discards

(***************************************************************************)
(* Transport progress.  The front frame belongs to the first record that   *)
(* still holds one.                                                        *)
(***************************************************************************)
LEMMA FrontRecord ==
  ASSUME NEW s \in Seq(OperationRecord), Distinct(s), NEW w \in Seq(QueuedWrite),
         Aligned(s, w), w # <<>>, NEW i, i = IndexOf(s, w[1].operation)
  PROVE  /\ Holds(s, w[1].operation) /\ i \in DOMAIN s /\ s[i].operation = w[1].operation
         /\ AlignedAt(i - 1, s, w) /\ s[i].writeHeld /\ Matches(w[1], s[i])
         /\ RecordSound(s[i]) /\ 1 \in DOMAIN w /\ Len(w) \in Nat
<1>1. PICK k \in Nat : AlignedAt(k, s, w)
  BY DEF Aligned
<1>2. 1 \in DOMAIN w /\ 1 \in 1..Len(w) /\ Len(w) \in Nat
  OBVIOUS
<1>3. k + 1 \in DOMAIN s /\ k + 1 \in 1..Len(s)
  BY <1>1, <1>2, HeldFrom
<1>4. s[k + 1].writeHeld /\ Matches(w[1], s[k + 1]) /\ RecordSound(s[k + 1])
  BY <1>1, <1>2, <1>3 DEF AlignedAt
<1>5. s[k + 1].operation = w[1].operation
  BY <1>4 DEF Matches
<1>6. \A j \in DOMAIN s : s[j].operation = w[1].operation => j = k + 1
  BY <1>3, <1>5 DEF Distinct
<1>7. i = k + 1
  BY <1>3, <1>5, <1>6 DEF IndexOf
<1>8. i - 1 = k
  BY <1>7
<1> QED
  BY <1>1, <1>2, <1>3, <1>4, <1>5, <1>7, <1>8 DEF Holds

\* The front frame moves on without crossing the write boundary.
LEMMA MovedMatched ==
  ASSUME NEW s \in Seq(OperationRecord), NEW w \in Seq(QueuedWrite), NEW b, Matched(s, w, b),
         w # <<>>, NEW f \in QueuedWrite, f.operation = w[1].operation,
         f.effect = w[1].effect, f.retained = w[1].retained, f.started = w[1].started
  PROVE  Matched(s, [w EXCEPT ![1] = f], b)
<1> DEFINE v == [w EXCEPT ![1] = f]
<1>1. PICK k \in Nat : AlignedAt(k, s, w)
  BY DEF Matched, Aligned
<1>2. Len(v) = Len(w) /\ Len(w) \in Nat
  OBVIOUS
<1>3. \A j \in 1..Len(w) : /\ v[j].operation = w[j].operation /\ v[j].effect = w[j].effect
                           /\ v[j].retained = w[j].retained /\ v[j].started = w[j].started
  OBVIOUS
<1> HIDE DEF v
<1>4. \A j \in 2..Len(w) : j \in 1..Len(w)
  BY <1>2
<1>5. AlignedAt(k, s, v)
  <2>1. \A j \in 1..Len(w) : s[k + j].writeHeld /\ Matches(w[j], s[k + j])
    BY <1>1 DEF AlignedAt
  <2>2. \A j \in 1..Len(w) : Matches(v[j], s[k + j])
    BY <1>3, <2>1 DEF Matches
  <2>3. \A j \in 2..Len(w) : ~v[j].started
    BY <1>1, <1>3, <1>4 DEF AlignedAt
  <2> QED
    BY <1>1, <1>2, <2>1, <2>2, <2>3 DEF AlignedAt
<1> QED
  BY <1>5 DEF Matched, Aligned, v

\* It crosses the boundary: frame and record are marked together.
LEMMA StartedMatched ==
  ASSUME NEW s \in Seq(OperationRecord), Distinct(s), NEW w \in Seq(QueuedWrite), NEW b,
         Matched(s, w, b), w # <<>>, NEW f \in QueuedWrite, f.operation = w[1].operation,
         f.effect = w[1].effect, f.retained = w[1].retained, f.started,
         NEW i, i = IndexOf(s, w[1].operation), NEW r \in OperationRecord,
         r.operation = s[i].operation, r.effect = s[i].effect,
         r.reservation = s[i].reservation, r.deadline = s[i].deadline,
         r.writeHeld = s[i].writeHeld, r.delivery = "PossiblySent", r.phase = "Writing"
  PROVE  Matched([s EXCEPT ![i] = r], [w EXCEPT ![1] = f], b)
<1> DEFINE v == [w EXCEPT ![1] = f]
           q == [s EXCEPT ![i] = r]
           k == i - 1
<1>1. /\ i \in DOMAIN s /\ AlignedAt(k, s, w) /\ s[i].writeHeld /\ Matches(w[1], s[i])
      /\ 1 \in DOMAIN w /\ Len(w) \in Nat
  BY FrontRecord DEF Matched
<1>2. /\ k \in Nat /\ Len(s) \in Nat /\ Len(s) = k + Len(w) /\ DOMAIN s = 1..Len(s)
  BY <1>1, HeldFrom
<1>3. /\ Len(v) = Len(w) /\ v[1] = f /\ \A j \in 2..Len(w) : v[j] = w[j]
      /\ Len(q) = Len(s) /\ q[i] = r /\ \A j \in DOMAIN s : j # i => q[j] = s[j]
  BY <1>1
<1>4. i = k + 1
  BY <1>1, <1>2
<1> HIDE DEF v, q, k
<1>5. \A j \in 1..k : ~q[j].writeHeld
  <2>1. \A j \in 1..k : j \in DOMAIN s /\ j # i
    BY <1>1, <1>2, <1>4
  <2> QED
    BY <1>1, <1>3, <2>1 DEF AlignedAt
<1>6. ASSUME NEW j \in 1..Len(w) PROVE q[k + j].writeHeld /\ Matches(v[j], q[k + j])
  <2>1. CASE j = 1
    <3>1. k + j = i /\ v[j] = f /\ q[i] = r
      BY <1>3, <1>4, <2>1
    <3>2. r.writeHeld /\ Matches(f, r)
      BY <1>1 DEF Matches
    <3> QED
      BY <3>1, <3>2
  <2>2. CASE j # 1
    <3>1. j \in 2..Len(w) /\ k + j \in DOMAIN s /\ k + j # i
      BY <1>1, <1>2, <1>4, <2>2
    <3> QED
      BY <1>1, <1>3, <3>1 DEF AlignedAt
  <2> QED
    BY <2>1, <2>2
<1>7. \A j \in 2..Len(w) : ~v[j].started
  <2>1. \A j \in 2..Len(w) : ~w[j].started
    BY <1>1 DEF AlignedAt
  <2> QED
    BY <1>3, <2>1
<1>8. \A j \in 1..Len(s) : RecordSound(q[j])
  <2>1. RecordSound(r)
    BY DEF RecordSound
  <2>2. \A j \in 1..Len(s) : RecordSound(s[j])
    BY <1>1 DEF AlignedAt
  <2> QED
    BY <1>2, <1>3, <2>1, <2>2
<1>9. AlignedAt(k, q, v)
  BY <1>2, <1>3, <1>5, <1>6, <1>7, <1>8 DEF AlignedAt
<1>10. OwedFrames(q) = OwedFrames(s)
  <2>1. \A j \in DOMAIN s : HeldBy(q[j]) = HeldBy(s[j]) /\ (q[j].writeHeld <=> s[j].writeHeld)
    BY <1>1, <1>3 DEF HeldBy
  <2>2. DOMAIN q = DOMAIN s
    BY DEF q
  <2> QED
    BY <2>1, <2>2 DEF OwedFrames
<1>11. Matched(q, v, b)
  BY <1>2, <1>9, <1>10 DEF Matched, Aligned
<1> QED
  BY <1>11 DEF q, v

\* The last byte is out and the record waits for its reply.
LEMMA WaitingMatched ==
  ASSUME NEW s \in Seq(OperationRecord), Distinct(s), NEW w \in Seq(QueuedWrite), NEW b,
         Matched(s, w, b), w # <<>>,
         NEW i, i = IndexOf(s, w[1].operation), NEW r \in OperationRecord,
         r.operation = s[i].operation, r.effect = s[i].effect,
         r.reservation = s[i].reservation, r.deadline = s[i].deadline,
         ~r.writeHeld, RecordSound(r)
  PROVE  Matched([s EXCEPT ![i] = r], Tail(w), b - w[1].retained)
<1> DEFINE v == Tail(w)
           q == [s EXCEPT ![i] = r]
           k == i - 1
           n == Len(w) - 1
<1>1. /\ i \in DOMAIN s /\ AlignedAt(k, s, w) /\ s[i].writeHeld /\ Matches(w[1], s[i])
      /\ 1 \in DOMAIN w /\ Len(w) \in Nat
  BY FrontRecord DEF Matched
<1>2. /\ k \in Nat /\ Len(s) \in Nat /\ Len(s) = k + Len(w) /\ DOMAIN s = 1..Len(s)
  BY <1>1, HeldFrom
<1>3. /\ Len(v) = n /\ \A j \in 1..n : v[j] = w[j + 1]
      /\ Len(q) = Len(s) /\ q[i] = r /\ \A j \in DOMAIN s : j # i => q[j] = s[j]
  BY <1>1
<1>4. i = k + 1 /\ n \in Nat /\ Len(w) = n + 1
  BY <1>1, <1>2
<1> HIDE DEF v, q, k, n
<1>5. \A j \in 1..i : ~q[j].writeHeld
  <2>1. \A j \in 1..i : j \in DOMAIN s /\ (j # i => j \in 1..k)
    <3>1. i \in 1..Len(s)
      BY <1>1, <1>2
    <3> QED
      BY <1>2, <1>4, <3>1
  <2> QED
    BY <1>1, <1>3, <2>1 DEF AlignedAt
<1>6. ASSUME NEW j \in 1..n PROVE q[i + j].writeHeld /\ Matches(v[j], q[i + j])
  <2>1. j + 1 \in 1..Len(w) /\ i + j \in DOMAIN s /\ i + j # i /\ k + (j + 1) = i + j
    <3>1. i + j \in 1..Len(s) /\ i + j # i /\ k + (j + 1) = i + j
      BY <1>2, <1>4
    <3>2. j + 1 \in 1..Len(w)
      BY <1>4
    <3> QED
      BY <1>2, <3>1, <3>2
  <2>2. s[k + (j + 1)].writeHeld /\ Matches(w[j + 1], s[k + (j + 1)])
    BY <1>1, <2>1 DEF AlignedAt
  <2> QED
    BY <1>3, <2>1, <2>2
<1>7. \A j \in 2..n : ~v[j].started
  <2>1. \A j \in 2..n : j \in 1..n /\ j + 1 \in 2..Len(w)
    BY <1>4
  <2> QED
    BY <1>1, <1>3, <2>1 DEF AlignedAt
<1>8. \A j \in 1..Len(s) : RecordSound(q[j])
  BY <1>1, <1>2, <1>3 DEF AlignedAt
<1>9. AlignedAt(i, q, v) /\ i \in Nat
  <2>1. Len(q) = i + Len(v) /\ i \in Nat
    BY <1>2, <1>3, <1>4
  <2> QED
    BY <1>3, <1>5, <1>6, <1>7, <1>8, <2>1 DEF AlignedAt
<1>10. OwedFrames(q) = OwedFrames(s) \ {HeldBy(s[i])}
  BY <1>1, MarkedRecord DEF q
<1>11. OwedFrames(RemoveAt(s, i)) = OwedFrames(s) \ {HeldBy(s[i])}
  BY <1>1, RemovedRecord
<1>12. Total("writeRetained", OwedFrames(q)) = b - w[1].retained
  <2>1. Total("writeRetained", OwedFrames(RemoveAt(s, i)))
          = Total("writeRetained", OwedFrames(s)) - s[i].reservation.writeRetained
    BY <1>1, RemovedTotal DEF Matched
  <2>2. b = Total("writeRetained", OwedFrames(s))
        /\ w[1].retained = s[i].reservation.writeRetained
    BY <1>1 DEF Matched, Matches
  <2> QED
    BY <1>10, <1>11, <2>1, <2>2
<1>13. Matched(q, v, b - w[1].retained)
  BY <1>9, <1>12 DEF Matched, Aligned
<1> QED
  BY <1>13 DEF q, v

\* The last byte is out and the record is done.
LEMMA DoneMatched ==
  ASSUME NEW s \in Seq(OperationRecord), Distinct(s), NEW w \in Seq(QueuedWrite), NEW b,
         Matched(s, w, b), w # <<>>, NEW i, i = IndexOf(s, w[1].operation)
  PROVE  /\ Matched(RemoveAt(s, i), Tail(w), b - w[1].retained)
         /\ w[1].retained <= b /\ w[1].retained \in Nat /\ b \in Nat
<1> DEFINE k == i - 1
<1>1. /\ i \in DOMAIN s /\ AlignedAt(k, s, w) /\ s[i].writeHeld /\ Matches(w[1], s[i])
      /\ 1 \in DOMAIN w /\ Len(w) \in Nat
  BY FrontRecord DEF Matched
<1>2. k \in Nat /\ i > k /\ i - k = 1
  <2>1. k \in Nat
    BY <1>1, HeldFrom
  <2> QED
    BY <1>1, <2>1
<1>3. Tail(w) = RemoveAt(w, 1)
  BY TailRemoves
<1> HIDE DEF k
<1>4. AlignedAt(k, RemoveAt(s, i), Tail(w))
  BY <1>1, <1>2, <1>3, RemovedHeldAligned
<1>5. /\ s[i].reservation.writeRetained <= Total("writeRetained", OwedFrames(s))
      /\ Total("writeRetained", OwedFrames(RemoveAt(s, i)))
           = Total("writeRetained", OwedFrames(s)) - s[i].reservation.writeRetained
  BY <1>1, RemovedTotal DEF Matched
<1>6. b = Total("writeRetained", OwedFrames(s)) /\ w[1].retained = s[i].reservation.writeRetained
  BY <1>1 DEF Matched, Matches
<1>7. w[1].retained \in Nat /\ b \in Nat
  <2>1. w[1] \in QueuedWrite
    BY <1>1
  <2> QED
    BY <1>6, <2>1, QueuedWriteFields, OwedCountable DEF Matched
<1> QED
  BY <1>2, <1>4, <1>5, <1>6, <1>7 DEF Matched, Aligned

LEMMA AppendedMatched ==
  ASSUME NEW s \in Seq(OperationRecord), Distinct(s), NEW w \in Seq(QueuedWrite), NEW b,
         Matched(s, w, b), NEW r \in OperationRecord, ~Holds(s, r.operation),
         r.writeHeld, r.delivery = "NotSent", r.phase = "Queued",
         NEW f \in QueuedWrite, Matches(f, r)
  PROVE  Matched(Append(s, r), Append(w, f), b + f.retained)
<1> DEFINE q == Append(s, r)
           v == Append(w, f)
           n == Len(w)
<1>1. PICK k \in Nat : AlignedAt(k, s, w)
  BY DEF Matched, Aligned
<1>2. /\ n \in Nat /\ Len(s) \in Nat /\ Len(s) = k + n /\ DOMAIN s = 1..Len(s)
  BY <1>1, HeldFrom
<1>3. /\ Len(v) = n + 1 /\ v[n + 1] = f /\ \A j \in 1..n : v[j] = w[j]
      /\ Len(q) = Len(s) + 1 /\ q[Len(s) + 1] = r /\ \A j \in 1..Len(s) : q[j] = s[j]
  OBVIOUS
<1>4. ~f.started
  BY DEF Matches
<1>5. n = Len(w)
  OBVIOUS
<1> HIDE DEF q, v, n
<1>6. \A j \in 1..k : ~q[j].writeHeld
  <2>1. \A j \in 1..k : j \in 1..Len(s)
    BY <1>2
  <2> QED
    BY <1>1, <1>3, <2>1 DEF AlignedAt
<1>7. ASSUME NEW j \in 1..(n + 1) PROVE q[k + j].writeHeld /\ Matches(v[j], q[k + j])
  <2>1. CASE j = n + 1
    <3>1. k + j = Len(s) + 1
      BY <1>2, <2>1
    <3> QED
      BY <1>3, <2>1, <3>1
  <2>2. CASE j # n + 1
    <3>1. j \in 1..n /\ k + j \in 1..Len(s)
      BY <1>2, <2>2
    <3> QED
      BY <1>1, <1>3, <1>5, <3>1 DEF AlignedAt
  <2> QED
    BY <2>1, <2>2
<1>8. \A j \in 2..(n + 1) : ~v[j].started
  <2>1. \A j \in 2..(n + 1) : j = n + 1 \/ (j \in 2..n /\ j \in 1..n)
    BY <1>2
  <2> QED
    BY <1>1, <1>3, <1>4, <1>5, <2>1 DEF AlignedAt
<1>9. \A j \in 1..(Len(s) + 1) : RecordSound(q[j])
  <2>1. \A j \in 1..(Len(s) + 1) : j = Len(s) + 1 \/ j \in 1..Len(s)
    BY <1>2
  <2>2. RecordSound(r)
    BY DEF RecordSound
  <2> QED
    BY <1>1, <1>3, <2>1, <2>2 DEF AlignedAt
<1>10. AlignedAt(k, q, v)
  <2>1. Len(q) = k + Len(v)
    BY <1>2, <1>3
  <2> QED
    BY <1>1, <1>3, <1>6, <1>7, <1>8, <1>9, <2>1 DEF AlignedAt
<1>11. Total("writeRetained", OwedFrames(q)) = b + f.retained
  <2> DEFINE x == HeldBy(r)
             S == OwedFrames(s)
  <2>1. OwedFrames(q) = S \cup {x}
    BY AppendedRecord DEF q
  <2>2. x \notin S
    <3>1. \A j \in DOMAIN s : HeldBy(s[j]) # HeldBy(r)
      BY DEF Holds, HeldBy
    <3> QED
      BY <3>1 DEF OwedFrames
  <2>3. IsFiniteSet(S) /\ S \subseteq Pairs
    BY OwedCountable DEF Matched, Countable
  <2>4. x \in Pairs /\ x[2] = r.reservation
    BY RecordFields DEF HeldBy, Pairs
  <2>5. b = Total("writeRetained", S) /\ r.reservation.writeRetained = f.retained
    BY DEF Matched, Matches
  <2> HIDE DEF x, S
  <2>6. /\ IsFiniteSet(S \cup {x}) /\ S \cup {x} \subseteq Pairs /\ x \in S \cup {x}
        /\ (S \cup {x}) \ {x} = S
    BY <2>2, <2>3, <2>4, FS_AddElement
  <2>7. /\ x[2].writeRetained \in Nat /\ Total("writeRetained", S) \in Nat
        /\ Total("writeRetained", S \cup {x}) = x[2].writeRetained + Total("writeRetained", S)
    <3> DEFINE T == S \cup {x}
    <3>1. IsFiniteSet(T) /\ T \subseteq Pairs /\ x \in T /\ T \ {x} = S
      BY <2>6
    <3> HIDE DEF T
    <3>2. /\ x[2].writeRetained \in Nat /\ Total("writeRetained", T \ {x}) \in Nat
          /\ Total("writeRetained", T) = x[2].writeRetained + Total("writeRetained", T \ {x})
      BY <3>1, BytesRemove
    <3> QED
      BY <3>1, <3>2 DEF T
  <2> QED
    BY <2>1, <2>4, <2>5, <2>7
<1>12. Matched(q, v, b + f.retained)
  BY <1>1, <1>10, <1>11 DEF Matched, Aligned
<1> QED
  BY <1>12 DEF q, v

(***************************************************************************)
(* The audit.                                                              *)
(***************************************************************************)

\* What Retained computes.
LEMMA RetainedIterates ==
  ASSUME NEW w \in Seq(QueuedWrite)
  PROVE  \E sum \in [0..Len(w) -> Nat] :
           /\ sum[0] = 0
           /\ \A i \in 1..Len(w) : sum[i] = sum[i - 1] + w[i].retained
           /\ sum[Len(w)] = Retained(w)
<1> DEFINE n == Len(w)
           Next1(x, i) == x + w[i].retained
           step == [i \in 1..n |-> [x \in Nat |-> Next1(x, i)]]
<1>1. \A i \in 1..n : \A x \in Nat : Next1(x, i) \in Nat
  <2>1. \A i \in 1..n : w[i].retained \in Nat
    BY QueuedWriteFields
  <2> QED
    BY <2>1
<1>2. Retained(w) = (CHOOSE g : g = [i \in 0..n |-> IF i = 0 THEN 0 ELSE Next1(g[i - 1], i)])[n]
  BY DEF Retained
<1>3. n \in Nat
  OBVIOUS
<1> HIDE DEF n, Next1
<1>4. step \in Steps(Nat, n)
  BY <1>1 DEF Steps
<1>5. PICK f : IsIteration(f, Nat, n, 0, step)
  <2> HIDE DEF step
  <2> QED BY <1>3, <1>4, IterationExists
<1>6. /\ f \in [0..n -> Nat] /\ f[0] = 0 /\ \A i \in 1..n : f[i] = Next1(f[i - 1], i)
  <2>1. /\ f \in [0..n -> Nat] /\ f[0] = 0
        /\ \A i \in 1..n : f[i] = step[i][f[i - 1]]
    <3> HIDE DEF step
    <3> QED BY <1>5 DEF IsIteration
  <2>2. \A i \in 1..n : f[i - 1] \in Nat
    BY <1>3, <2>1
  <2> QED
    BY <2>1, <2>2
<1> DEFINE Fixed(g) == g = [i \in 0..n |-> IF i = 0 THEN 0 ELSE Next1(g[i - 1], i)]
           sum == CHOOSE g : Fixed(g)
<1>7. Fixed(f)
  BY <1>3, <1>6
<1>8. Fixed(sum)
  BY <1>7
<1>9. sum[n] = Retained(w)
  BY <1>2
<1> HIDE DEF sum, step
<1>10. sum[0] = 0 /\ \A i \in 1..n : sum[i] = Next1(sum[i - 1], i)
  BY <1>3, <1>8
<1> DEFINE G == {i \in 0..n : sum[i] \in Nat}
<1>11. 0 \in G
  BY <1>3, <1>10
<1>12. ASSUME NEW i \in 0..(n - 1), i \in G PROVE i + 1 \in G
  <2>1. i + 1 \in 0..n /\ i + 1 \in 1..n /\ (i + 1) - 1 = i
    BY <1>3
  <2>2. sum[i + 1] = Next1(sum[i], i + 1)
    BY <1>10, <2>1
  <2> QED
    BY <1>1, <1>12, <2>1, <2>2
<1>13. 0..n \subseteq G
  <2> HIDE DEF G
  <2> QED
    BY <1>3, <1>11, <1>12, BoundedInduction
<1>14. sum \in [0..n -> Nat]
  BY <1>8, <1>13
<1> QED
  BY <1>9, <1>10, <1>14 DEF n, Next1

\* The frames queued retain what the records that hold them reserved.
LEMMA RetainedTotal ==
  ASSUME NEW s \in Seq(OperationRecord), Distinct(s), NEW w \in Seq(QueuedWrite), Aligned(s, w)
  PROVE  Retained(w) = Total("writeRetained", OwedFrames(s))
<1>1. PICK k \in Nat : AlignedAt(k, s, w)
  BY DEF Aligned
<1> DEFINE n == Len(w)
           First(i) == {HeldBy(s[k + j]) : j \in 1..i}
<1>2. n \in Nat /\ DOMAIN w = 1..n /\ \A i \in DOMAIN w : k + i \in DOMAIN s
  BY <1>1, HeldFrom
<1>3. PICK sum \in [0..n -> Nat] :
        /\ sum[0] = 0
        /\ \A i \in 1..n : sum[i] = sum[i - 1] + w[i].retained
        /\ sum[n] = Retained(w)
  BY RetainedIterates
<1>4. OwedFrames(s) = First(n)
  BY <1>1, OwedFramesFrom
<1>5. \A i, j \in 1..n : HeldBy(s[k + i]) = HeldBy(s[k + j]) => i = j
  <2> SUFFICES ASSUME NEW i \in 1..n, NEW j \in 1..n, HeldBy(s[k + i]) = HeldBy(s[k + j])
               PROVE  i = j
    OBVIOUS
  <2>1. s[k + i].operation = s[k + j].operation
    BY DEF HeldBy
  <2>2. k + i = k + j
    BY <1>2, <2>1 DEF Distinct
  <2> QED
    BY <1>2, <2>2
<1>6. \A i \in 1..n : /\ HeldBy(s[k + i]) \in Pairs
                      /\ HeldBy(s[k + i])[2].writeRetained = w[i].retained
  <2> TAKE i \in 1..n
  <2>1. s[k + i] \in OperationRecord /\ Matches(w[i], s[k + i])
    BY <1>1, <1>2 DEF AlignedAt
  <2>2. HeldBy(s[k + i]) \in Pairs /\ HeldBy(s[k + i])[2] = s[k + i].reservation
    BY <2>1, RecordFields DEF HeldBy, Pairs
  <2> QED
    BY <2>1, <2>2 DEF Matches
<1> DEFINE G == {i \in 0..n : /\ IsFiniteSet(First(i)) /\ First(i) \subseteq Pairs
                              /\ sum[i] = Total("writeRetained", First(i))}
<1>7. 0 \in G
  <2>1. First(0) = {}
    OBVIOUS
  <2>2. IsFiniteSet({}) /\ {} \subseteq Pairs /\ sum[0] = Total("writeRetained", {})
    BY <1>3, FS_EmptySet, TotalEmpty
  <2>3. IsFiniteSet(First(0)) /\ First(0) \subseteq Pairs
        /\ sum[0] = Total("writeRetained", First(0))
    BY <2>1, <2>2, Zenon
  <2>4. 0 \in 0..n
    BY <1>2
  <2> HIDE DEF First, n
  <2> QED
    BY <2>3, <2>4
<1>8. ASSUME NEW i \in 0..(n - 1), i \in G PROVE i + 1 \in G
  <2> DEFINE x == HeldBy(s[k + (i + 1)])
             S == First(i)
             T == First(i + 1)
  <2>1. i + 1 \in 0..n /\ i + 1 \in 1..n /\ (i + 1) - 1 = i /\ i \in 0..n
    BY <1>2
  <2>2. T = S \cup {x}
    <3>1. \A j : j \in 1..(i + 1) <=> j \in 1..i \/ j = i + 1
      BY <2>1
    <3> QED
      BY <3>1
  <2>3. x \notin S
    <3>1. \A j \in 1..i : j \in 1..n /\ j # i + 1
      BY <1>2, <2>1
    <3> QED
      BY <1>5, <2>1, <3>1
  <2>4. x \in Pairs /\ x[2].writeRetained = w[i + 1].retained
    BY <1>6, <2>1
  <2>5. IsFiniteSet(S) /\ S \subseteq Pairs /\ sum[i] = Total("writeRetained", S)
    BY <1>8
  <2>6. sum[i + 1] = sum[i] + w[i + 1].retained /\ sum[i] \in Nat
    BY <1>3, <2>1
  <2> HIDE DEF x, S, T, First
  <2>7. IsFiniteSet(T) /\ T \subseteq Pairs /\ x \in T /\ T \ {x} = S
    BY <2>2, <2>3, <2>4, <2>5, FS_AddElement
  <2>8. /\ x[2].writeRetained \in Nat /\ Total("writeRetained", T \ {x}) \in Nat
        /\ Total("writeRetained", T) = x[2].writeRetained + Total("writeRetained", T \ {x})
    BY <2>7, BytesRemove
  <2>9. sum[i + 1] = Total("writeRetained", T)
    <3>1. Total("writeRetained", T \ {x}) = sum[i]
      BY <2>5, <2>7
    <3> QED
      BY <2>4, <2>6, <2>8, <3>1
  <2> QED
    BY <2>1, <2>7, <2>9 DEF T
<1>9. 0..n \subseteq G
  <2> HIDE DEF G
  <2> QED
    BY <1>2, <1>7, <1>8, BoundedInduction
<1>10. sum[n] = Total("writeRetained", First(n))
  <2> HIDE DEF First
  <2> QED
    BY <1>2, <1>9
<1> QED
  BY <1>3, <1>4, <1>10

\* What HeldRecords computes.
LEMMA HeldIterates ==
  ASSUME machine.pending \in Seq(OperationRecord)
  PROVE  \E held \in [0..Len(machine.pending) -> Seq(OperationRecord)] :
           /\ held[0] = <<>>
           /\ \A i \in 1..Len(machine.pending) :
                held[i] = IF machine.pending[i].writeHeld
                          THEN Append(held[i - 1], machine.pending[i]) ELSE held[i - 1]
           /\ held[Len(machine.pending)] = HeldRecords
<1> DEFINE s == machine.pending
           positions == {i \in DOMAIN s : s[i].writeHeld}
<1>1. \A i \in 1..Len(s) : i \in positions <=> s[i].writeHeld
  OBVIOUS
<1>2. HeldRecords = Picked(s, positions)
  BY DEF HeldRecords
<1>0. s \in Seq(OperationRecord)
  OBVIOUS
<1> HIDE DEF positions, s
<1>3. PICK held : Picking(held, OperationRecord, s, positions)
  BY <1>0, PickedIterates
<1>4. \A i \in 1..Len(s) : held[i] = IF s[i].writeHeld THEN Append(held[i - 1], s[i])
                                    ELSE held[i - 1]
  BY <1>1, <1>3 DEF Picking
<1> QED
  BY <1>2, <1>3, <1>4 DEF Picking, s

LEMMA HeldRecordsFrom ==
  ASSUME machine.pending \in Seq(OperationRecord), NEW w \in Seq(QueuedWrite),
         NEW k, AlignedAt(k, machine.pending, w)
  PROVE  /\ HeldRecords \in Seq(OperationRecord) /\ Len(HeldRecords) = Len(w)
         /\ \A j \in 1..Len(w) : HeldRecords[j] = machine.pending[k + j]
<1> DEFINE s == machine.pending
           n == Len(s)
<1>1. /\ n \in Nat /\ k \in Nat /\ n = k + Len(w) /\ Len(w) \in Nat /\ DOMAIN s = 1..n
      /\ \A i \in DOMAIN s : s[i].writeHeld <=> i > k
  BY HeldFrom
<1>2. PICK held \in [0..n -> Seq(OperationRecord)] :
        /\ held[0] = <<>>
        /\ \A i \in 1..n : held[i] = IF s[i].writeHeld THEN Append(held[i - 1], s[i])
                                     ELSE held[i - 1]
        /\ held[n] = HeldRecords
  BY HeldIterates
<1>3. \A i \in 1..n : s[i] \in OperationRecord
  OBVIOUS
<1> HIDE DEF s, n
<1> DEFINE Size(i) == IF i > k THEN i - k ELSE 0
           G == {i \in 0..n : /\ Len(held[i]) = Size(i)
                              /\ \A j \in 1..Size(i) : held[i][j] = s[k + j]}
<1>4. 0 \in G
  <2>1. 0 \in 0..n /\ Size(0) = 0
    BY <1>1
  <2> HIDE DEF Size
  <2>2. Len(held[0]) = 0
    BY <1>2
  <2> QED
    BY <2>1, <2>2
<1>5. ASSUME NEW i \in 0..(n - 1), i \in G PROVE i + 1 \in G
  <2>1. i + 1 \in 0..n /\ i + 1 \in 1..n /\ (i + 1) - 1 = i /\ i \in 0..n
    BY <1>1
  <2>2. Len(held[i]) = Size(i) /\ \A j \in 1..Size(i) : held[i][j] = s[k + j]
    BY <1>5
  <2>3. held[i] \in Seq(OperationRecord) /\ s[i + 1] \in OperationRecord
    BY <1>2, <1>3, <2>1
  <2>4. CASE i + 1 > k
    <3>1. held[i + 1] = Append(held[i], s[i + 1])
      BY <1>1, <1>2, <2>1, <2>4
    <3>2. Size(i + 1) = Size(i) + 1 /\ Size(i) \in Nat /\ k + (Size(i) + 1) = i + 1
      BY <1>1, <2>1, <2>4
    <3> HIDE DEF Size
    <3>3. Len(Append(held[i], s[i + 1])) = Len(held[i]) + 1
      BY <2>3
    <3>4. \A j \in 1..(Len(held[i]) + 1) :
            Append(held[i], s[i + 1])[j] = IF j = Len(held[i]) + 1 THEN s[i + 1] ELSE held[i][j]
      BY <2>3
    <3>5. ASSUME NEW j \in 1..Size(i + 1) PROVE held[i + 1][j] = s[k + j]
      <4>1. j = Size(i) + 1 \/ j \in 1..Size(i)
        BY <3>2
      <4>2. \A x \in 1..Size(i) : x # Size(i) + 1
        BY <3>2
      <4> QED
        BY <2>2, <3>1, <3>2, <3>4, <4>1, <4>2
    <3> QED
      BY <2>1, <2>2, <3>1, <3>2, <3>3, <3>5
  <2>5. CASE ~(i + 1 > k)
    <3>1. held[i + 1] = held[i]
      BY <1>1, <1>2, <2>1, <2>5
    <3>2. Size(i + 1) = Size(i)
      BY <1>1, <2>1, <2>5
    <3> HIDE DEF Size
    <3> QED
      BY <2>1, <2>2, <3>1, <3>2
  <2> QED
    BY <2>4, <2>5
<1>6. 0..n \subseteq G
  <2> HIDE DEF G
  <2> QED
    BY <1>1, <1>4, <1>5, BoundedInduction
<1>7. Size(n) = Len(w) /\ n \in 0..n
  BY <1>1
<1> HIDE DEF Size
<1>8. /\ held[n] \in Seq(OperationRecord) /\ Len(held[n]) = Len(w)
      /\ \A j \in 1..Len(w) : held[n][j] = s[k + j]
  BY <1>2, <1>6, <1>7
<1> QED
  BY <1>2, <1>8 DEF s

LEMMA AgreesWhenAligned ==
  ASSUME machine.pending \in Seq(OperationRecord), writes \in Seq(QueuedWrite),
         Aligned(machine.pending, writes)
  PROVE  OwnershipAgrees
<1>1. PICK k \in Nat : AlignedAt(k, machine.pending, writes)
  BY DEF Aligned
<1>2. /\ HeldRecords \in Seq(OperationRecord) /\ Len(HeldRecords) = Len(writes)
      /\ \A j \in 1..Len(writes) : HeldRecords[j] = machine.pending[k + j]
  BY <1>1, HeldRecordsFrom
<1>3. DOMAIN writes = 1..Len(writes) /\ DOMAIN HeldRecords = 1..Len(writes)
  BY <1>2
<1>4. ASSUME NEW j \in 1..Len(writes) PROVE SameOwner(j)
  <2>1. Matches(writes[j], machine.pending[k + j])
    BY <1>1 DEF AlignedAt
  <2> QED
    BY <1>2, <1>3, <2>1 DEF SameOwner, Matches
<1> QED
  BY <1>2, <1>3, <1>4 DEF OwnershipAgrees

(***************************************************************************)
(* The limits the ledger enforces bound the FIFO and the writer.           *)
(***************************************************************************)
LEMMA Roomy ==
  ASSUME NEW m \in Machine, NEW P, Books(m, P), NEW w \in Seq(QueuedWrite), NEW b,
         Matched(m.pending, w, b)
  PROVE  /\ m.pending \in Seq(OperationRecord) /\ Named(m.pending) /\ Sound(m)
         /\ Len(m.pending) \in Nat /\ Len(m.pending) <= MaxOperations
         /\ Len(w) \in Nat /\ Len(w) <= MaxWriteFrames
         /\ b \in Nat /\ ~m.ledger.poisoned
<1> DEFINE s == m.pending
           R == AllHeld(m, P)
           W == FramesHeld(m, P)
<1>1. s \in Seq(OperationRecord) /\ Distinct(s) /\ Aligned(s, w)
  BY MachineFields DEF Books, Identified, Matched
<1>2. Named(s)
  BY <1>1 DEF Books, Identified, Named
<1>3. Sound(m)
  <2>1. DOMAIN s = 1..Len(s)
    BY <1>1
  <2>2. \A i \in 1..Len(s) : RecordSound(s[i])
    BY <1>1 DEF Aligned, AlignedAt
  <2> QED
    BY <1>1, <2>1, <2>2 DEF Sound
<1>4. /\ IsFiniteSet(R) /\ IsFiniteSet(W) /\ Cardinality(R) \in Nat /\ Cardinality(W) \in Nat
      /\ Cardinality(R) <= MaxOperations /\ Cardinality(W) <= MaxWriteFrames
      /\ ~m.ledger.poisoned
  <2>1. Balanced(m.ledger, Cardinality(P), R, W)
    BY DEF Books
  <2> HIDE DEF R, W
  <2> QED
    BY <2>1, BalancedFinite DEF Balanced
<1>5. Owed(s) \subseteq R /\ OwedFrames(s) \subseteq W
  BY DEF AllHeld, FramesHeld
<1> HIDE DEF R, W
<1>6. Cardinality(Owed(s)) <= Cardinality(R) /\ Cardinality(OwedFrames(s)) <= Cardinality(W)
  BY <1>4, <1>5, FS_Subset
<1>7. Cardinality(Owed(s)) = Len(s) /\ Cardinality(OwedFrames(s)) = Len(w)
  BY <1>1, SlotsCounted, FramesCounted
<1>8. b \in Nat
  BY <1>1, OwedCountable DEF Matched
<1>9. Len(s) \in Nat /\ Len(w) \in Nat
  BY <1>1
<1>10. Len(s) <= MaxOperations /\ Len(w) <= MaxWriteFrames
  BY <1>4, <1>6, <1>7, <1>9, LimitsAssumption
<1> QED
  BY <1>1, <1>2, <1>3, <1>4, <1>8, <1>9, <1>10

\* A permit's reservation is paid for besides what the writer holds.
LEMMA PermitFits ==
  ASSUME NEW m \in Machine, NEW P, Books(m, P), NEW w \in Seq(QueuedWrite), NEW b,
         Matched(m.pending, w, b), NEW p \in P
  PROVE  /\ Len(w) + 1 <= MaxWriteFrames
         /\ b + p.reservation.writeRetained <= MaxWriteRetained
         /\ p.reservation.writeRetained \in Nat
<1> DEFINE s == m.pending
           W == FramesHeld(m, P)
           S == OwedFrames(s)
           x == <<p.operation, p.reservation>>
<1>1. s \in Seq(OperationRecord) /\ Distinct(s) /\ Aligned(s, w)
  BY MachineFields DEF Books, Identified, Matched
<1>2. /\ IsFiniteSet(W) /\ W \subseteq Pairs /\ Cardinality(W) \in Nat
      /\ Countable("writeRetained", W) /\ Total("writeRetained", W) \in Nat
      /\ Cardinality(W) <= MaxWriteFrames
      /\ Total("writeRetained", W) <= MaxWriteRetained
  <2>1. Balanced(m.ledger, Cardinality(P), AllHeld(m, P), W)
    BY DEF Books
  <2> HIDE DEF W
  <2> QED
    BY <2>1, BalancedFinite DEF Balanced
<1>3. x \in W /\ S \subseteq W
  BY DEF FramesHeld, Granted
<1>4. x \notin S
  <2>1. \A i \in DOMAIN m.pending : HeldBy(m.pending[i]) \notin Granted(P)
    BY RecordsApart DEF Books
  <2>2. x \in Granted(P)
    BY DEF Granted
  <2> QED
    BY <2>1, <2>2 DEF OwedFrames
<1>5. x[2] = p.reservation
  OBVIOUS
<1> DEFINE T == S \cup {x}
<1>6. T \subseteq W /\ IsFiniteSet(S) /\ S \subseteq Pairs /\ x \in Pairs /\ T \ {x} = S
  <2>1. IsFiniteSet(S)
    BY <1>2, <1>3, FS_Subset
  <2> QED
    BY <1>2, <1>3, <1>4, <2>1
<1> HIDE DEF x, W, S
<1>7. IsFiniteSet(T) /\ Cardinality(T) = Cardinality(S) + 1
  BY <1>4, <1>6, FS_AddElement
<1>8. Cardinality(T) <= Cardinality(W) /\ Cardinality(S) = Len(w) /\ Len(w) \in Nat
  <2>1. Cardinality(S) = Len(w)
    BY <1>1, FramesCounted DEF S
  <2> QED
    BY <1>1, <1>2, <1>6, <2>1, FS_Subset
<1>9. Total("writeRetained", T) <= Total("writeRetained", W)
  BY <1>2, <1>6, TotalMonotone
<1>10. /\ x[2].writeRetained \in Nat /\ Total("writeRetained", T) \in Nat
       /\ Total("writeRetained", T \ {x}) \in Nat
       /\ Total("writeRetained", T) = x[2].writeRetained + Total("writeRetained", T \ {x})
  <2>1. T \subseteq Pairs /\ x \in T
    BY <1>6
  <2> HIDE DEF T
  <2> QED
    BY <1>7, <2>1, BytesRemove
<1>11. Total("writeRetained", T \ {x}) = Total("writeRetained", S)
  BY <1>6, Zenon
<1>12. b = Total("writeRetained", S)
  BY DEF Matched, S
<1> HIDE DEF T
<1>13. Len(w) + 1 <= MaxWriteFrames
  BY <1>2, <1>7, <1>8, LimitsAssumption
<1>14. b + x[2].writeRetained <= MaxWriteRetained
  BY <1>2, <1>9, <1>10, <1>11, <1>12, LimitsAssumption
<1> QED
  BY <1>5, <1>10, <1>13, <1>14

\* A permit's identities are new to the writer.
LEMMA PermitNew ==
  ASSUME NEW m \in Machine, NEW P, Books(m, P), NEW w \in Seq(QueuedWrite), NEW b,
         Matched(m.pending, w, b), NEW p \in P
  PROVE  ~Holds(w, p.operation) /\ ~HasEffect(w, p.effect)
<1> DEFINE s == m.pending
<1>1. PICK k \in Nat : AlignedAt(k, s, w)
  BY DEF Matched, Aligned
<1>2. s \in Seq(OperationRecord)
  BY MachineFields
<1>3. DOMAIN w = 1..Len(w) /\ \A i \in DOMAIN w : k + i \in DOMAIN s
  BY <1>1, <1>2, HeldFrom
<1>4. ASSUME NEW i \in DOMAIN w
      PROVE  w[i].operation # p.operation /\ w[i].effect # p.effect
  <2> DEFINE r == s[k + i]
  <2>1. k + i \in DOMAIN s /\ w[i].operation = r.operation /\ w[i].effect = r.effect
    BY <1>1, <1>3 DEF AlignedAt, Matches
  <2>2. r.operation # p.operation
    BY <2>1 DEF Books, Identified, Holds
  <2>3. r.effect = r.operation + Shift /\ p.effect = p.operation + Shift
    BY <2>1 DEF Books, Identified
  <2>4. r.operation \in Int /\ p.operation \in Int /\ Shift \in Int
    <3>1. r \in OperationRecord /\ p \in Permit
      BY <1>2, <2>1 DEF Books, Identified
    <3>2. r.operation \in Operations /\ p.operation \in Operations
      BY <3>1, RecordFields, PermitFields
    <3> QED
      BY <3>2, IdentityAssumption DEF Operations, Shift
  <2> HIDE DEF r
  <2>5. r.effect # p.effect
    BY <2>2, <2>3, <2>4
  <2> QED
    BY <2>1, <2>2, <2>5
<1> QED
  BY <1>4 DEF Holds, HasEffect

LEMMA NeverRefuses ==
  ASSUME TypeOK, Books(machine, permits), Matched(machine.pending, writes, writeBudget)
  PROVE  WriterNeverRefuses
<1>1. machine \in Machine /\ writes \in Seq(QueuedWrite) /\ writeBudget \in Nat
  BY DEF TypeOK
<1> SUFFICES ASSUME NEW permit \in permits, NEW frame \in Frames,
                    MachineCommits(machine, permit, frame)
             PROVE  WriterAdmits(permit, frame)
  BY DEF WriterNeverRefuses
<1>2. /\ Len(writes) + 1 <= MaxWriteFrames
      /\ writeBudget + permit.reservation.writeRetained <= MaxWriteRetained
      /\ permit.reservation.writeRetained \in Nat
  BY <1>1, PermitFits
<1>3. ~Holds(writes, permit.operation) /\ ~HasEffect(writes, permit.effect)
  BY <1>1, PermitNew
<1>4. frame.retained \in Nat /\ frame.retained <= permit.reservation.writeRetained
  BY FramesAssumption DEF MachineCommits
<1>5. Len(writes) # MaxWriteFrames
  BY <1>1, <1>2, LimitsAssumption
<1>6. writeBudget + frame.retained <= MaxWriteRetained
  BY <1>1, <1>2, <1>4, LimitsAssumption
<1> QED
  BY <1>3, <1>5, <1>6 DEF WriterAdmits

(***************************************************************************)
(* The inductive invariant: the accounting's, no poison but a contract's,  *)
(* and on a healthy owner without injected faults records and frames match.*)
(***************************************************************************)
FramesMatch == Matched(machine.pending, writes, writeBudget)

Owned ==
  /\ Accounted
  /\ OnlyContractPoison
  /\ Faults = {} /\ poisoned = "None" => FramesMatch

\* A healthy owner before its next call.
InOrder == Accounted /\ poisoned = "None" /\ FramesMatch

LEMMA InOrderSound ==
  ASSUME InOrder
  PROVE  /\ TypeOK /\ machine \in Machine /\ machine.pending \in Seq(OperationRecord)
         /\ writes \in Seq(QueuedWrite) /\ writeBudget \in Nat
         /\ Books(machine, permits) /\ WriterSound(machine.pending) /\ Sound(machine)
         /\ Distinct(machine.pending) /\ DrainWaits(machine)
         /\ Len(machine.pending) \in Nat /\ Len(machine.pending) <= MaxOperations
         /\ ~machine.ledger.poisoned
<1>1. TypeOK /\ machine \in Machine /\ writes \in Seq(QueuedWrite) /\ writeBudget \in Nat
      /\ Books(machine, permits)
  BY DEF InOrder, Accounted, TypedDrain, TypeOK
<1>2. /\ machine.pending \in Seq(OperationRecord) /\ Named(machine.pending) /\ Sound(machine)
      /\ Len(machine.pending) \in Nat /\ Len(machine.pending) <= MaxOperations
      /\ Len(writes) \in Nat /\ Len(writes) <= MaxWriteFrames /\ ~machine.ledger.poisoned
  BY <1>1, Roomy DEF InOrder, FramesMatch
<1>3. WriterSound(machine.pending)
  BY <1>1, <1>2 DEF WriterSound, InOrder, FramesMatch
<1>4. DrainWaits(machine)
  BY DrainOfMachine DEF InOrder, Accounted, TypedDrain
<1> QED
  BY <1>1, <1>2, <1>3, <1>4 DEF Sound

LEMMA SettleOwns ==
  ASSUME InOrder, NEW t, t.machine \in Machine, NEW fired,
         Accounts(machine, permits, t, fired),
         Resolves(machine, t), NEW j, JournalFits(j), Settle(t, j, fired)
  PROVE  /\ poisoned' = "None" /\ FramesMatch' /\ machine' = t.machine
         /\ journal' = EmptyJournal /\ Emit([t EXCEPT !.cancel = @ \cup fired])
<1> DEFINE q == Reconcile(t.discard)
           failure == IF q.failure # "None" THEN q.failure
                      ELSE IF t.machine.ledger.poisoned THEN "ReservationAccounting"
                      ELSE "None"
<1>1. WriterSound(machine.pending) /\ machine.pending \in Seq(OperationRecord)
  BY InOrderSound
<1>2. Reconciled(q, t.machine.pending)
  BY <1>1, DiscardsReconcile DEF Resolves
<1>3. /\ q.failure = "None" /\ Matched(t.machine.pending, q.frames, q.used)
  BY <1>2 DEF Reconciled
<1>4. ~t.machine.ledger.poisoned
  BY DEF Accounts, Books, Balanced
<1>5. /\ machine' = t.machine /\ writes' = q.frames /\ writeBudget' = q.used
      /\ poisoned' = failure
      /\ failure = "None" => /\ journal' = EmptyJournal
                             /\ Emit([t EXCEPT !.cancel = @ \cup fired])
  BY DEF Settle
<1>6. failure = "None"
  BY <1>3, <1>4
<1> HIDE DEF q, failure
<1>7. FramesMatch'
  BY <1>3, <1>5 DEF FramesMatch
<1> QED
  BY <1>5, <1>6, <1>7

\* The preallocated journal holds what any call may destroy.
LEMMA JournalsFit ==
  ASSUME InOrder
  PROVE  /\ JournalFits(EmptyJournal) /\ JournalFits(WholeJournal) /\ JournalFits(LiveJournal)
         /\ \A operation : JournalFits(OperationJournal(operation))
<1>1. machine.pending \in Seq(OperationRecord) /\ Len(machine.pending) \in Nat
      /\ Len(machine.pending) <= MaxOperations
  BY InOrderSound
<1>2. EmptyJournal.operations = <<>> /\ Len(<<>>) = 0 /\ 0 <= MaxOperations
  BY LimitsAssumption DEF EmptyJournal
<1>3. JournalFits(EmptyJournal)
  BY <1>2 DEF JournalFits
<1>4. JournalFits(WholeJournal)
  <2> DEFINE whole == [i \in DOMAIN machine.pending |-> JournalEntry(i)]
  <2>1. WholeJournal.operations = whole
    BY DEF WholeJournal, ArmedJournal, EmptyJournal
  <2>2. DOMAIN whole = 1..Len(machine.pending)
    BY <1>1
  <2> HIDE DEF whole
  <2>3. Len(whole) = Len(machine.pending)
    BY <1>1, <2>2
  <2> QED
    BY <1>1, <2>1, <2>3 DEF JournalFits
<1>5. JournalFits(LiveJournal)
  BY <1>3, <1>4 DEF LiveJournal
<1>6. ASSUME NEW operation PROVE JournalFits(OperationJournal(operation))
  <2> DEFINE one == <<JournalEntry(IndexOf(machine.pending, operation))>>
  <2>1. OperationJournal(operation).operations = one
    BY DEF OperationJournal, ArmedJournal, EmptyJournal
  <2>2. Len(one) = 1 /\ 1 <= MaxOperations
    BY LimitsAssumption
  <2> QED
    BY <2>1, <2>2 DEF JournalFits
<1> QED
  BY <1>3, <1>4, <1>5, <1>6

(***************************************************************************)
(* The inputs of apply and apply_reply succeed on a healthy owner.         *)
(***************************************************************************)
Input ==
  \/ OpenAdmission \/ BeginDrain \/ EpochClosed \/ ReplyMalformed
  \/ \E reason \in RequestedReasons : CloseRequested(reason)
  \/ \E operation \in Operations : Cancel(operation)
  \/ \E operation \in Operations, now \in Moments : DeadlineElapsed(operation, now)
  \/ \E key \in Keys, reply \in Payloads : ApplyReply(key, reply)

Settled(t, fired) ==
  /\ t \in Transitions /\ Resolves(machine, t) /\ Spares(machine, t)
  /\ machine' = t.machine /\ poisoned' = "None" /\ FramesMatch'
  /\ writes' = Reconcile(t.discard).frames
  /\ journal' = EmptyJournal /\ Emit([t EXCEPT !.cancel = @ \cup fired])
  /\ UNCHANGED <<permits, accepted, sent, completed, recovery, injected>>

LEMMA SettleSettles ==
  ASSUME InOrder, NEW t \in Transitions, NEW fired, Accounts(machine, permits, t, fired),
         Resolves(machine, t), Spares(machine, t), NEW j, JournalFits(j), Settle(t, j, fired)
  PROVE  Settled(t, fired)
<1>1. t.machine \in Machine
  BY TransitionFields
<1>2. /\ poisoned' = "None" /\ FramesMatch' /\ machine' = t.machine
      /\ journal' = EmptyJournal /\ Emit([t EXCEPT !.cancel = @ \cup fired])
  BY <1>1, SettleOwns
<1>3. /\ writes' = Reconcile(t.discard).frames
      /\ UNCHANGED <<permits, accepted, sent, completed, recovery, injected>>
  BY DEF Settle
<1> QED
  BY <1>2, <1>3 DEF Settled

LEMMA InputSettles ==
  ASSUME InOrder, Input
  PROVE  \E t, fired : Settled(t, fired)
<1> DEFINE Ends == \E t, fired : Settled(t, fired)
<1> SUFFICES Ends
  OBVIOUS
<1>1. /\ machine \in Machine /\ Books(machine, permits) /\ DrainWaits(machine)
      /\ Sound(machine)
  BY InOrderSound
<1>2. ASSUME NEW t \in Transitions, NEW fired, Accounts(machine, permits, t, fired),
             Resolves(machine, t), Spares(machine, t), NEW j, JournalFits(j), Settle(t, j, fired)
      PROVE  Ends
  BY <1>2, SettleSettles
<1>3. JournalFits(EmptyJournal) /\ JournalFits(WholeJournal) /\ JournalFits(LiveJournal)
      /\ \A operation : JournalFits(OperationJournal(operation))
  BY JournalsFit
<1> HIDE DEF Ends
<1>4. CASE OpenAdmission
  <2> DEFINE t == OnOpenAdmission(machine)
  <2>1. t \in Transitions
    BY <1>1, OnOpenAdmissionType
  <2>2. Accounts(machine, permits, t, {}) /\ Resolves(machine, t)
        /\ Spares(machine, t)
    BY <1>1, GateAccounts, GateResolves, GateSpares
  <2>3. Settle(t, EmptyJournal, {})
    BY <1>4 DEF OpenAdmission
  <2> HIDE DEF t
  <2> QED
    BY <1>2, <1>3, <2>1, <2>2, <2>3
<1>5. CASE BeginDrain
  <2> DEFINE t == OnBeginDrain(machine)
  <2>1. t \in Transitions
    BY <1>1, OnBeginDrainType
  <2>2. Accounts(machine, permits, t, {}) /\ Resolves(machine, t)
        /\ Spares(machine, t)
    BY <1>1, GateAccounts, GateResolves, GateSpares
  <2>3. Settle(t, EmptyJournal, {})
    BY <1>5 DEF BeginDrain
  <2> HIDE DEF t
  <2> QED
    BY <1>2, <1>3, <2>1, <2>2, <2>3
<1>6. CASE EpochClosed
  <2> DEFINE t == OnEpochClosed(machine)
  <2>1. t \in Transitions
    BY <1>1, OnEpochClosedType
  <2>2. Accounts(machine, permits, t, {}) /\ Resolves(machine, t)
        /\ Spares(machine, t)
    BY <1>1, GateAccounts, GateResolves, GateSpares
  <2>3. Settle(t, EmptyJournal, {})
    BY <1>6 DEF EpochClosed
  <2> HIDE DEF t
  <2> QED
    BY <1>2, <1>3, <2>1, <2>2, <2>3
<1>7. CASE ReplyMalformed
  <2> DEFINE t == OnReplyMalformed(machine)
  <2>1. "MalformedReply" \in CloseReasons
    BY DEF CloseReasons
  <2>2. Accounts(machine, permits, t, {})
    BY <1>1, <2>1, ClosingAccounts DEF OnReplyMalformed
  <2>3. t \in Transitions
    BY <1>1, OnReplyMalformedType
  <2>4. Resolves(machine, t) /\ Spares(machine, t)
    BY <1>1, ClosingResolves, ClosingSpares
  <2>5. Settle(t, LiveJournal, {})
    BY <1>7 DEF ReplyMalformed
  <2> HIDE DEF t
  <2> QED
    BY <1>2, <1>3, <2>2, <2>3, <2>4, <2>5
<1>8. ASSUME NEW reason \in RequestedReasons, CloseRequested(reason)
      PROVE  Ends
  <2>1. reason \in CloseReasons /\ reason \in ExternalReasons
    BY CoreAssumption DEF CloseReasons
  <2>2. Accounts(machine, permits, OnCloseRequested(machine, reason), {})
    BY <1>1, <2>1, ClosingAccounts DEF OnCloseRequested
  <2>3. OnCloseRequested(machine, reason) \in Transitions
    BY <1>1, <2>1, OnCloseRequestedType
  <2>4. /\ Resolves(machine, OnCloseRequested(machine, reason))
        /\ Spares(machine, OnCloseRequested(machine, reason))
    BY <1>1, ClosingResolves, ClosingSpares
  <2>5. Settle(OnCloseRequested(machine, reason), LiveJournal, {})
    BY <1>8 DEF CloseRequested
  <2> QED
    BY <1>2, <1>3, <2>2, <2>3, <2>4, <2>5
<1>9. ASSUME NEW operation \in Operations, Cancel(operation)
      PROVE  Ends
  <2>1. PICK j : JournalFits(j) /\ Settle(OnCancel(machine, operation), j, {})
    BY <1>3, <1>9 DEF Cancel
  <2>2. Accounts(machine, permits, OnCancel(machine, operation), {})
    BY <1>1, OnCancelAccounts
  <2>3. OnCancel(machine, operation) \in Transitions
    BY <1>1, OnCancelType
  <2>4. /\ Resolves(machine, OnCancel(machine, operation))
        /\ Spares(machine, OnCancel(machine, operation))
    BY <1>1, OnCancelResolves, OnCancelSpares
  <2> QED
    BY <1>2, <2>1, <2>2, <2>3, <2>4
<1>10. ASSUME NEW operation \in Operations, NEW now \in Moments, DeadlineElapsed(operation, now)
       PROVE  Ends
  <2>1. PICK j : /\ JournalFits(j)
                 /\ Settle(OnDeadlineElapsed(machine, operation, now), j, {operation})
    BY <1>3, <1>10 DEF DeadlineElapsed
  <2>2. Accounts(machine, permits, OnDeadlineElapsed(machine, operation, now), {operation})
    BY <1>1, OnDeadlineElapsedAccounts
  <2>3. OnDeadlineElapsed(machine, operation, now) \in Transitions
    BY <1>1, OnDeadlineElapsedType
  <2>4. /\ Resolves(machine, OnDeadlineElapsed(machine, operation, now))
        /\ Spares(machine, OnDeadlineElapsed(machine, operation, now))
    BY <1>1, OnDeadlineElapsedResolves, OnDeadlineElapsedSpares
  <2> QED
    BY <1>2, <2>1, <2>2, <2>3, <2>4
<1>11. ASSUME NEW key \in Keys, NEW reply \in Payloads, ApplyReply(key, reply)
       PROVE  Ends
  <2>1. PICK j : JournalFits(j) /\ Settle(OnReply(machine, key, reply), j, {})
    BY <1>3, <1>11 DEF ApplyReply
  <2>2. reply \in Nat
    BY CoreAssumption
  <2>3. Accounts(machine, permits, OnReply(machine, key, reply), {})
    BY <1>1, <2>2, OnReplyAccounts
  <2>4. OnReply(machine, key, reply) \in Transitions
    BY <1>1, <2>2, OnReplyType
  <2>5. /\ Resolves(machine, OnReply(machine, key, reply))
        /\ Spares(machine, OnReply(machine, key, reply))
    BY <1>1, <2>2, OnReplyResolves, OnReplySpares
  <2> QED
    BY <1>2, <2>1, <2>3, <2>4, <2>5
<1> QED
  BY <1>4, <1>5, <1>6, <1>7, <1>8, <1>9, <1>10, <1>11 DEF Input

\* Admission: reserve and drop leave the FIFO alone, commit extends both sides.
LEMMA AdmissionOwns ==
  ASSUME InOrder
  PROVE  /\ \A now \in Moments, options \in Options : Reserve(now, options)
              => poisoned' = "None" /\ FramesMatch' /\ machine'.pending = machine.pending
         /\ \A permit \in permits : DropPermit(permit)
              => poisoned' = "None" /\ FramesMatch' /\ machine'.pending = machine.pending
         /\ \A permit \in permits, frame \in Frames : Commit(permit, frame)
              => poisoned' = "None" /\ FramesMatch'
<1>1. /\ machine \in Machine /\ writes \in Seq(QueuedWrite) /\ Books(machine, permits)
      /\ TypeOK /\ Distinct(machine.pending) /\ machine.pending \in Seq(OperationRecord)
  BY InOrderSound
<1>2. ASSUME NEW now \in Moments, NEW options \in Options, Reserve(now, options)
      PROVE  poisoned' = "None" /\ FramesMatch' /\ machine'.pending = machine.pending
  <2>1. options \in [retained : Nat, writeRetained : Nat, class : Classes,
                     completion : Completions, deadline : Moments]
    BY OptionsAssumption
  <2>2. options.retained \in Nat /\ options.writeRetained \in Nat
    BY <2>1
  <2>3. /\ MachineReserves(machine, now, options)
        /\ machine' = ReserveMachine(machine, options)
        /\ UNCHANGED <<writes, writeBudget, poisoned>>
    BY <1>2 DEF Reserve
  <2>4. machine'.pending = machine.pending
    BY <1>1, <2>2, <2>3, ReserveMachineType
  <2> QED
    BY <2>3, <2>4 DEF InOrder, FramesMatch
<1>3. ASSUME NEW permit \in permits, DropPermit(permit)
      PROVE  poisoned' = "None" /\ FramesMatch' /\ machine'.pending = machine.pending
  <2>1. /\ machine' = [machine EXCEPT !.ledger = RollbackPermit(machine.ledger, permit.reservation)]
        /\ UNCHANGED <<writes, writeBudget, poisoned>>
    BY <1>1, <1>3 DEF DropPermit, Machine
  <2>2. machine'.pending = machine.pending
    BY <1>1, <2>1 DEF Machine
  <2> QED
    BY <2>1, <2>2 DEF InOrder, FramesMatch
<1>4. ASSUME NEW permit \in permits, NEW frame \in Frames, Commit(permit, frame)
      PROVE  poisoned' = "None" /\ FramesMatch'
  <2> DEFINE f == NewWrite(permit, frame)
             r == [operation |-> permit.operation, effect |-> permit.effect,
                   deadline |-> permit.deadline,
                   reservation |-> [permit.reservation EXCEPT !.writeRetained = frame.retained],
                   phase |-> "Queued", completion |-> permit.completion,
                   delivery |-> "NotSent", writeHeld |-> TRUE]
  <2>1. frame.retained \in Nat
    BY FramesAssumption
  <2>2. permit \in Permit
    BY <1>1 DEF TypeOK
  <2>3. /\ permit.operation \in Operations /\ permit.effect \in Effects
        /\ permit.deadline \in Moments /\ permit.completion \in Completions
        /\ permit.reservation \in Reservation
    BY <2>2, PermitFields
  <2>4. permit.operation \in Nat /\ permit.effect \in Nat
    BY <2>3, IdentityAssumption DEF Operations, Effects
  <2>5. /\ [permit.reservation EXCEPT !.writeRetained = frame.retained] \in Reservation
        /\ [permit.reservation EXCEPT !.writeRetained = frame.retained].writeRetained
             = frame.retained
    BY <2>1, <2>3 DEF Reservation
  <2>6. /\ r \in OperationRecord /\ r.operation = permit.operation /\ r.writeHeld
        /\ r.delivery = "NotSent" /\ r.phase = "Queued" /\ r.effect = permit.effect
        /\ r.reservation.writeRetained = frame.retained
    BY <2>3, <2>5 DEF OperationRecord, OperationPhases, Deliveries
  <2>7. f \in QueuedWrite
    BY <2>4, NewWriteType
  <2>8. f.retained = frame.retained
    BY DEF NewWrite
  <2>9. Matches(f, r)
    <3>1. /\ f.operation = permit.operation /\ f.effect = permit.effect /\ f.started = FALSE
      BY DEF NewWrite
    <3> HIDE DEF f, r
    <3> QED
      BY <2>6, <2>8, <3>1 DEF Matches
  <2>10. ~Holds(machine.pending, r.operation)
    BY <1>1, <2>6 DEF Books, Identified
  <2>11. /\ machine' = CommitPermit(machine, permit, frame)
         /\ writes' = Append(writes, f) /\ writeBudget' = writeBudget + frame.retained
         /\ poisoned' = poisoned
    BY <1>4 DEF Commit
  <2>12. machine'.pending = Append(machine.pending, r)
    BY <1>1, <2>11 DEF CommitPermit, Machine
  <2> HIDE DEF f, r
  <2>13. Matched(Append(machine.pending, r), Append(writes, f), writeBudget + f.retained)
    BY <1>1, <2>6, <2>7, <2>9, <2>10, AppendedMatched DEF InOrder, FramesMatch
  <2> QED
    BY <2>8, <2>11, <2>12, <2>13 DEF InOrder, FramesMatch
<1> QED
  BY <1>2, <1>3, <1>4

\* The front frame before and after a report of n bytes within it.
LEMMA FrontProgresses ==
  ASSUME InOrder, writes # <<>>, NEW n \in 0..MaxReported,
         NEW base, base = IF Crosses(n) THEN WriteStarted(machine, writes[1].operation)
                          ELSE machine,
         NEW w, w = [writes EXCEPT ![1] = Progressed(n)]
  PROVE  /\ Crosses(n) => StartApplies(machine, writes[1].operation, writes[1].effect)
         /\ base \in Machine /\ Books(base, permits) /\ Matched(base.pending, w, writeBudget)
         /\ w \in Seq(QueuedWrite) /\ w # <<>> /\ w[1] = Progressed(n) /\ Tail(w) = Tail(writes)
         /\ w[1].operation = writes[1].operation /\ w[1].effect = writes[1].effect
         /\ w[1].retained = writes[1].retained
<1> DEFINE s == machine.pending
           o == writes[1].operation
           i == IndexOf(s, o)
           f == Progressed(n)
<1>1. /\ TypeOK /\ machine \in Machine /\ s \in Seq(OperationRecord)
      /\ writes \in Seq(QueuedWrite) /\ writeBudget \in Nat
      /\ Books(machine, permits) /\ Distinct(s) /\ Matched(s, writes, writeBudget)
  BY InOrderSound DEF InOrder, FramesMatch
<1>2. /\ Holds(s, o) /\ i \in DOMAIN s /\ s[i].operation = o
      /\ s[i].writeHeld /\ Matches(writes[1], s[i]) /\ RecordSound(s[i])
      /\ 1 \in DOMAIN writes /\ Len(writes) \in Nat
  BY <1>1, FrontRecord DEF Matched
<1>3. writes[1] \in QueuedWrite /\ f \in QueuedWrite
  BY <1>1, ProgressTypes
<1>4. /\ f.operation = o /\ f.effect = writes[1].effect /\ f.retained = writes[1].retained
      /\ f.started = (writes[1].started \/ n > 0)
  <2>1. /\ writes[1].started \in BOOLEAN
    BY <1>3, QueuedWriteFields
  <2> QED
    BY <1>3 DEF Progressed, QueuedWrite
<1>5. /\ w \in Seq(QueuedWrite) /\ w # <<>> /\ w[1] = f /\ Tail(w) = Tail(writes)
  <2>5. w = [writes EXCEPT ![1] = f]
    OBVIOUS
  <2> HIDE DEF f
  <2>1. w \in Seq(QueuedWrite) /\ Len(w) = Len(writes) /\ w[1] = f
    BY <1>1, <1>2, <1>3, <2>5
  <2>2. \A k \in 2..Len(writes) : w[k] = writes[k]
    <3>1. \A k \in DOMAIN writes : k # 1 => w[k] = writes[k]
      OBVIOUS
    <3>2. \A k \in 2..Len(writes) : k \in DOMAIN writes /\ k # 1
      BY <1>1
    <3> QED
      BY <3>1, <3>2
  <2>3. w # <<>>
    BY <1>1, <1>2, <2>1
  <2>4. Tail(w) = Tail(writes)
    <3>1. /\ Tail(w) \in Seq(QueuedWrite) /\ Tail(writes) \in Seq(QueuedWrite)
          /\ Len(Tail(w)) = Len(writes) - 1 /\ Len(Tail(writes)) = Len(writes) - 1
      BY <1>1, <2>1, <2>3
    <3>2. \A k \in 1..(Len(writes) - 1) : Tail(w)[k] = w[k + 1] /\ Tail(writes)[k] = writes[k + 1]
      BY <1>1, <2>1, <2>3
    <3>3. \A k \in 1..(Len(writes) - 1) : k + 1 \in 2..Len(writes)
      BY <1>2
    <3>4. \A k \in 1..(Len(writes) - 1) : Tail(w)[k] = Tail(writes)[k]
      BY <2>2, <3>2, <3>3
    <3> QED
      BY <3>1, <3>4
  <2> QED
    BY <2>1, <2>3, <2>4
<1>6. CASE Crosses(n)
  <2> DEFINE started == [s[i] EXCEPT !.delivery = "PossiblySent", !.phase = "Writing"]
  <2>1. n > 0 /\ ~writes[1].started
    BY <1>6 DEF Crosses
  <2>2. s[i].phase = "Queued" /\ s[i].effect = writes[1].effect
    <3>1. s[i].delivery # "PossiblySent" /\ s[i].effect = writes[1].effect
      BY <1>2, <2>1 DEF Matches
    <3>2. s[i] \in OperationRecord
      BY <1>1, <1>2
    <3>3. s[i].delivery = "NotSent"
      BY <3>1, <3>2, RecordFields DEF Deliveries
    <3> QED
      BY <1>2, <3>1, <3>3 DEF RecordSound
  <2>3. RecordOf(machine, o) = s[i]
    BY DEF RecordOf
  <2>4. StartApplies(machine, o, writes[1].effect)
    BY <1>2, <2>2, <2>3 DEF StartApplies
  <2>5. base \in Machine /\ Books(base, permits)
    BY <1>1, <1>2, <1>6, WriteStartedBooks
  <2>6. base.pending = [s EXCEPT ![i] = started]
    BY <1>1, <1>6, <2>3, MarkedPending DEF WriteStarted
  <2>7. /\ started \in OperationRecord /\ started.operation = s[i].operation
        /\ started.effect = s[i].effect /\ started.reservation = s[i].reservation
        /\ started.deadline = s[i].deadline /\ started.writeHeld = s[i].writeHeld
        /\ started.delivery = "PossiblySent" /\ started.phase = "Writing"
    <3> DEFINE q == s[i]
    <3>1. q \in OperationRecord
      BY <1>1, <1>2
    <3> HIDE DEF q
    <3>2. LET z == [q EXCEPT !.delivery = "PossiblySent", !.phase = "Writing"]
          IN /\ z \in OperationRecord /\ z.operation = q.operation
             /\ z.effect = q.effect /\ z.reservation = q.reservation
             /\ z.deadline = q.deadline /\ z.writeHeld = q.writeHeld
             /\ z.delivery = "PossiblySent" /\ z.phase = "Writing"
      BY <3>1 DEF OperationRecord, OperationPhases, Deliveries
    <3> QED
      BY <3>2 DEF q
  <2>8. f.started /\ w = [writes EXCEPT ![1] = f] /\ i = IndexOf(s, writes[1].operation)
    BY <1>4, <2>1
  <2> HIDE DEF started, f, i, s
  <2>9. Matched([s EXCEPT ![i] = started], [writes EXCEPT ![1] = f], writeBudget)
    BY <1>1, <1>3, <1>4, <2>7, <2>8, StartedMatched
  <2>10. Matched(base.pending, w, writeBudget)
    BY <2>6, <2>8, <2>9, Zenon
  <2> QED
    BY <1>4, <1>5, <2>4, <2>5, <2>10 DEF f
<1>7. CASE ~Crosses(n)
  <2>1. f.started = writes[1].started
    <3>1. writes[1].started \in BOOLEAN
      BY <1>3, QueuedWriteFields
    <3> QED
      BY <1>4, <1>7, <3>1 DEF Crosses
  <2>2. base = machine
    BY <1>7
  <2> HIDE DEF f, s
  <2>3. Matched(s, w, writeBudget)
    BY <1>1, <1>3, <1>4, <2>1, MovedMatched DEF f
  <2> QED
    BY <1>1, <1>4, <1>5, <1>7, <2>2, <2>3 DEF f, s
<1> QED
  BY <1>6, <1>7

LEMMA PartialOwns ==
  ASSUME InOrder, NEW n \in 0..MaxReported, PartialWrite(n)
  PROVE  /\ poisoned' = "None" /\ FramesMatch' /\ journal' = EmptyJournal
         /\ machine' = IF Crosses(n) THEN WriteStarted(machine, writes[1].operation) ELSE machine
<1> DEFINE operation == writes[1].operation
           base == IF Crosses(n) THEN WriteStarted(machine, operation) ELSE machine
           w == [writes EXCEPT ![1] = Progressed(n)]
<1>1. writes # <<>>
  BY DEF PartialWrite, WritePending
<1>2. /\ Crosses(n) => StartApplies(machine, operation, writes[1].effect)
      /\ Matched(base.pending, w, writeBudget)
  BY <1>1, FrontProgresses
<1>3. /\ machine' = base /\ writes' = w /\ writeBudget' = writeBudget
      /\ poisoned' = "None" /\ journal' = EmptyJournal
  BY <1>2 DEF PartialWrite
<1> HIDE DEF base, w
<1>4. FramesMatch'
  BY <1>2, <1>3 DEF FramesMatch
<1> QED
  BY <1>3, <1>4 DEF base

\* The call that takes the last byte of the front frame.
Completed(n, base, t) ==
  /\ base = IF Crosses(n) THEN WriteStarted(machine, writes[1].operation) ELSE machine
  /\ base \in Machine /\ Distinct(base.pending) /\ Holds(base.pending, writes[1].operation)
  /\ \A i \in DOMAIN base.pending : RecordSound(base.pending[i])
  /\ Matches(Progressed(n), RecordOf(base, writes[1].operation))
  /\ t = OnWriteCompleted(base, writes[1].operation)
  /\ machine' = t.machine /\ writes' = Tail(writes)
  /\ writeBudget' = writeBudget - writes[1].retained
  /\ completed' = completed \cup {writes[1].operation}
  /\ poisoned' = "None" /\ journal' = EmptyJournal /\ Emit(t)

LEMMA CompleteOwns ==
  ASSUME InOrder, NEW n \in 0..MaxReported, CompleteWrite(n)
  PROVE  FramesMatch' /\ \E base, t : Completed(n, base, t)
<1> DEFINE operation == writes[1].operation
           effect == writes[1].effect
           known == Holds(machine.pending, operation)
           starts == Crosses(n) => StartApplies(machine, operation, effect)
           base == IF Crosses(n) THEN WriteStarted(machine, operation) ELSE machine
           completes == CompleteApplies(base, operation, effect)
           t == OnWriteCompleted(base, operation)
           failure == IF ~known THEN "UnexpectedWrite"
                      ELSE IF ~starts \/ ~completes THEN "WritePolicyMismatch"
                      ELSE IF t.machine.ledger.poisoned THEN "ReservationAccounting"
                      ELSE "None"
           w == [writes EXCEPT ![1] = Progressed(n)]
           s == base.pending
           i == IndexOf(base.pending, operation)
<1>1. writes # <<>>
  BY DEF CompleteWrite, WritePending
<1>2. /\ starts /\ base \in Machine /\ Books(base, permits) /\ Matched(s, w, writeBudget)
      /\ w \in Seq(QueuedWrite) /\ w # <<>> /\ w[1] = Progressed(n) /\ Tail(w) = Tail(writes)
      /\ w[1].operation = operation /\ w[1].effect = effect /\ w[1].retained = writes[1].retained
  <2>1. /\ base = IF Crosses(n) THEN WriteStarted(machine, writes[1].operation) ELSE machine
        /\ w = [writes EXCEPT ![1] = Progressed(n)]
    OBVIOUS
  <2> HIDE DEF base, w
  <2> QED
    BY <1>1, <2>1, FrontProgresses
<1>3. known
  <2>1. /\ machine.pending \in Seq(OperationRecord) /\ Distinct(machine.pending)
        /\ writes \in Seq(QueuedWrite) /\ Aligned(machine.pending, writes)
    BY InOrderSound DEF InOrder, FramesMatch, Matched
  <2> QED
    BY <1>1, <2>1, FrontRecord
<1>4. s \in Seq(OperationRecord) /\ Distinct(s)
  BY <1>2, MachineFields DEF Books, Identified
<1> HIDE DEF base, w, known, starts
<1>5. /\ Holds(s, operation) /\ i \in DOMAIN s /\ s[i].operation = operation
      /\ s[i].writeHeld /\ Matches(w[1], s[i]) /\ RecordSound(s[i])
  BY <1>2, <1>4, FrontRecord DEF Matched
<1>6. /\ Tail(w) = Tail(writes)
      /\ Matched(RemoveAt(s, i), Tail(w), writeBudget - w[1].retained)
      /\ w[1].retained <= writeBudget /\ w[1].retained \in Nat /\ writeBudget \in Nat
  <2>1. i = IndexOf(s, w[1].operation)
    BY <1>2
  <2> QED
    BY <1>2, <1>4, <2>1, DoneMatched
<1>7. RecordOf(base, operation) = s[i] /\ s[i] \in OperationRecord
  BY <1>4, <1>5 DEF RecordOf
<1>8. completes
  <2>1. s[i].phase \in {"Queued", "Writing", "Terminal"}
    BY <1>5, <1>7, RecordFields DEF RecordSound, OperationPhases
  <2>2. s[i].effect = effect
    BY <1>2, <1>5 DEF Matches
  <2> QED
    BY <1>5, <1>7, <2>1, <2>2 DEF CompleteApplies
<1>9. Accounts(base, permits, t, {})
  BY <1>2, <1>5, <1>7, OnWriteCompletedAccounts
<1>10. ~t.machine.ledger.poisoned
  BY <1>9 DEF Accounts, Books, Balanced
<1>11. ~(writes[1].retained > writeBudget)
  BY <1>2, <1>6
<1>12. failure = "None"
  BY <1>2, <1>3, <1>8, <1>10
<1>13. /\ writes' = Tail(writes) /\ writeBudget' = writeBudget - writes[1].retained
       /\ machine' = IF ~known \/ ~starts THEN machine ELSE IF ~completes THEN base ELSE t.machine
       /\ completed' = completed \cup {operation}
       /\ poisoned' = failure
       /\ failure = "None" => journal' = EmptyJournal /\ Emit(t)
  BY <1>11 DEF CompleteWrite, base, known, starts
<1> HIDE DEF completes, failure
<1>14. machine' = t.machine /\ poisoned' = "None" /\ journal' = EmptyJournal /\ Emit(t)
  BY <1>2, <1>3, <1>8, <1>12, <1>13
<1>15. FramesMatch'
  <2>1. Matched(t.machine.pending, Tail(w), writeBudget - w[1].retained)
    <3>1. i = IndexOf(s, w[1].operation)
      BY <1>2
    <3>2. CASE Ended(base, t, i)
      BY <1>6, <3>2 DEF Ended
    <3>3. ASSUME NEW r, Waits(base, t, i, r)
          PROVE  Matched(t.machine.pending, Tail(w), writeBudget - w[1].retained)
      <4>1. RecordSound(r)
        <5>1. /\ r.phase = "Terminal" <=> s[i].phase = "Terminal"
              /\ r.delivery = s[i].delivery /\ ~r.writeHeld
          BY <3>3 DEF Waits
        <5> QED
          BY <1>5, <5>1 DEF RecordSound
      <4>2. /\ r \in OperationRecord /\ ~r.writeHeld
            /\ r.operation = s[i].operation /\ r.effect = s[i].effect
            /\ r.reservation = s[i].reservation /\ r.deadline = s[i].deadline
            /\ t.machine.pending = [s EXCEPT ![i] = r]
        BY <3>3 DEF Waits
      <4> HIDE DEF s, i, t
      <4>3. Matched([s EXCEPT ![i] = r], Tail(w), writeBudget - w[1].retained)
        BY <1>2, <1>4, <3>1, <4>1, <4>2, WaitingMatched
      <4> QED
        BY <4>2, <4>3
    <3>4. (\E r : Waits(base, t, i, r)) \/ Ended(base, t, i)
      BY <1>2, <1>5, OnWriteCompletedLeaves
    <3> QED
      BY <3>2, <3>3, <3>4
  <2> HIDE DEF t
  <2> QED
    BY <1>2, <1>13, <1>14, <2>1 DEF FramesMatch
<1>16. \A k \in DOMAIN s : RecordSound(s[k])
  <2>1. DOMAIN s = 1..Len(s)
    BY <1>4
  <2> QED
    BY <1>2, <2>1 DEF Matched, Aligned, AlignedAt
<1>17. Completed(n, base, t)
  <2>1. Matches(Progressed(n), RecordOf(base, operation))
    BY <1>2, <1>5, <1>7
  <2>2. base = IF Crosses(n) THEN WriteStarted(machine, operation) ELSE machine
    BY DEF base
  <2> HIDE DEF t
  <2> QED
    BY <1>2, <1>4, <1>5, <1>13, <1>14, <1>16, <2>1, <2>2 DEF Completed, t
<1> QED
  BY <1>15, <1>17

\* The audit of a debug build finds nothing.
LEMMA AuditPasses ==
  ASSUME InOrder
  PROVE  Audit = "None"
<1>1. /\ machine.pending \in Seq(OperationRecord) /\ Distinct(machine.pending)
      /\ writes \in Seq(QueuedWrite) /\ ~machine.ledger.poisoned
      /\ Aligned(machine.pending, writes)
      /\ writeBudget = Total("writeRetained", OwedFrames(machine.pending))
  BY InOrderSound DEF InOrder, FramesMatch, Matched
<1>2. Retained(writes) = writeBudget
  BY <1>1, RetainedTotal
<1>3. OwnershipAgrees
  BY <1>1, AgreesWhenAligned
<1> QED
  BY <1>1, <1>2, <1>3 DEF Audit

ContractPoisons == {"None", "WriteProgressContract", "FrameContractViolation", "Recovered"}

\* Every step from a healthy owner keeps it in order, or a contract broke, or it
\* was recovered.
LEMMA StepsOwn ==
  ASSUME Faults = {}, InOrder, [Next]_vars
  PROVE  poisoned' \in ContractPoisons /\ (poisoned' = "None" => FramesMatch')
<1> DEFINE Goal == poisoned' \in ContractPoisons /\ (poisoned' = "None" => FramesMatch')
<1> SUFFICES Goal
  OBVIOUS
<1>1. ASSUME poisoned' = "None", FramesMatch' PROVE Goal
  BY <1>1 DEF ContractPoisons
<1>2. poisoned = "None" /\ ~machine.ledger.poisoned
  BY InOrderSound DEF InOrder
<1> HIDE DEF Goal
<1>3. ASSUME \/ \E now \in Moments, options \in Options : Reserve(now, options)
             \/ \E permit \in permits : DropPermit(permit)
             \/ \E permit \in permits, frame \in Frames : Commit(permit, frame)
      PROVE  Goal
  BY <1>1, <1>3, AdmissionOwns
<1>4. CASE Input
  <2>1. PICK t, fired : Settled(t, fired)
    BY <1>4, InputSettles
  <2> QED
    BY <1>1, <2>1 DEF Settled
<1>5. ASSUME NEW n \in 0..MaxReported, AdvanceWrite(n)
      PROVE  Goal
  <2>1. CASE OverReport(n)
    BY <2>1 DEF OverReport, Goal, ContractPoisons
  <2>2. CASE PartialWrite(n)
    BY <1>1, <2>2, PartialOwns
  <2>3. CASE CompleteWrite(n)
    BY <1>1, <2>3, CompleteOwns DEF Completed
  <2> QED
    BY <1>5, <2>1, <2>2, <2>3 DEF AdvanceWrite
<1>6. CASE FrontWriteViolation
  BY <1>2, <1>6 DEF FrontWriteViolation, Goal, ContractPoisons
<1>7. CASE AuditFails
  BY <1>7, AuditPasses DEF AuditFails
<1>8. CASE Recover
  BY <1>2, <1>8 DEF Recover, Goal, ContractPoisons
<1>9. ASSUME NEW i \in DOMAIN writes, LoseWrite(i)
      PROVE  Goal
  BY <1>9 DEF LoseWrite
<1>10. ASSUME NEW frame \in Frames, StrayWrite(frame)
       PROVE  Goal
  BY <1>10 DEF StrayWrite
<1>11. CASE UNCHANGED vars
  BY <1>1, <1>11 DEF vars, InOrder, FramesMatch
<1> QED
  BY <1>3, <1>4, <1>5, <1>6, <1>7, <1>8, <1>9, <1>10, <1>11 DEF Next, Input

\* A poisoned owner stays poisoned by what poisoned it.
LEMMA PoisonStays ==
  ASSUME poisoned # "None", [Next]_vars
  PROVE  poisoned' = poisoned
<1>1. ~Healthy /\ ~WritePending
  BY DEF Healthy, WritePending
<1>2. CASE UNCHANGED vars
  BY <1>2 DEF vars
<1>3. CASE Next
  <2>1. \/ \E permit \in permits : DropPermit(permit)
        \/ Recover
    BY <1>1, <1>3 DEF Next, Reserve, Commit, OpenAdmission, BeginDrain, EpochClosed,
         CloseRequested, ReplyMalformed, Cancel, DeadlineElapsed, ApplyReply, AdvanceWrite,
         OverReport, PartialWrite, CompleteWrite, FrontWriteViolation, AuditFails, LoseWrite,
         StrayWrite
  <2> QED
    BY <2>1 DEF DropPermit, Recover
<1> QED
  BY <1>2, <1>3

LEMMA InitOwned == Init => Owned
<1> SUFFICES ASSUME Init PROVE Owned
  OBVIOUS
<1>1. /\ machine.pending = <<>> /\ writes = <<>> /\ writeBudget = 0 /\ poisoned = "None"
  BY DEF Init, NewMachine
<1> QED
  BY <1>1, InitAccounted, EmptyMatched DEF Owned, OnlyContractPoison, FramesMatch

LEMMA NextOwned == Owned /\ [Next]_vars => Owned'
<1> SUFFICES ASSUME Owned, [Next]_vars PROVE Owned'
  OBVIOUS
<1>1. Accounted'
  BY NextAccounted DEF Owned
<1> SUFFICES ASSUME Faults = {}
             PROVE  poisoned' \in ContractPoisons /\ (poisoned' = "None" => FramesMatch')
  BY <1>1 DEF Owned, OnlyContractPoison, ContractPoisons
<1>2. CASE poisoned = "None"
  <2>1. InOrder
    BY <1>2 DEF Owned, InOrder
  <2> QED
    BY <2>1, StepsOwn
<1>3. CASE poisoned # "None"
  BY <1>3, PoisonStays DEF Owned, OnlyContractPoison, ContractPoisons
<1> QED
  BY <1>2, <1>3

LEMMA SpecOwned == Spec => []Owned
  BY InitOwned, NextOwned, PTL DEF Spec

\* The owner never diverges by itself, for every limit, key space, identity range
\* and workload: unless a frame's bytes or a transport's report broke their
\* contract, or it was recovered, no call ever latches a poison.  Every reconcile
\* finds the frames it discards, every report finds its record in the phase it
\* expects, the preallocated journal is always large enough, no checked
\* subtraction fails and the audit of a debug build never trips.
THEOREM NeverDivergesByItself == Spec => []OnlyContractPoison
<1>1. Owned => OnlyContractPoison
  BY DEF Owned
<1> QED
  BY <1>1, SpecOwned, PTL

\* Policy and writer own the same frames after every call although release builds
\* never audit it: the writer holds exactly the frames of the records marked
\* write_held, in FIFO order, and it has room for every frame whose permit the
\* ledger granted, so that commit never fails with a Writer error.
THEOREM OwnershipNeverDiverges == Spec => []OwnershipHolds
<1>1. ASSUME Owned, Faults = {}, poisoned = "None"
      PROVE  OwnershipAgrees /\ WriterNeverRefuses
  <2>1. InOrder
    BY <1>1 DEF Owned, InOrder
  <2>2. /\ machine.pending \in Seq(OperationRecord) /\ writes \in Seq(QueuedWrite)
        /\ TypeOK /\ Books(machine, permits)
    BY <2>1, InOrderSound
  <2> QED
    BY <2>1, <2>2, AgreesWhenAligned, NeverRefuses DEF InOrder, FramesMatch, Matched
<1>2. Owned => OwnershipHolds
  BY <1>1 DEF OwnershipHolds
<1> QED
  BY <1>2, SpecOwned, PTL

(***************************************************************************)
(* What the application is told: every accepted operation ends exactly     *)
(* once, in an outcome or in recovery, and what it is told about its frame *)
(* is true.                                                                *)
(***************************************************************************)

(***************************************************************************)
(* The inductive invariant.  Its parts take the pieces of state they are   *)
(* about as parameters, because a write completes in two halves.           *)
(***************************************************************************)

\* Operations are accepted once, with identities already handed out.
Fresh ==
  /\ \A a \in DOMAIN accepted : accepted[a] < machine.nextOperation
  /\ \A permit \in permits : ~Contains(accepted, permit.operation)
  /\ \A a, b \in DOMAIN accepted : accepted[a] = accepted[b] => a = b

\* Only accepted operations are pending, sent or completed.
Committed ==
  /\ \A i \in DOMAIN machine.pending : Contains(accepted, machine.pending[i].operation)
  /\ \A operation \in Operations :
       ~Contains(accepted, operation) => sent[operation] = 0 /\ operation \notin completed

InWireOrder(s, order) ==
  \A i, j \in DOMAIN s, a, b \in DOMAIN order :
    i < j /\ order[a] = s[i].operation /\ order[b] = s[j].operation => a < b

\* Outcomes, recovered entries and what is still owed add up.
Counted(told, recovered, live, order) ==
  \A operation \in Operations :
    Len(told[operation])
      + Cardinality({i \in DOMAIN recovered : recovered[i].operation = operation})
      + (IF operation \in live THEN 1 ELSE 0)
    = IF Contains(order, operation) THEN 1 ELSE 0

Truthful(told, bytes, done) ==
  \A operation \in Operations : \A i \in DOMAIN told[operation] :
    /\ told[operation][i].delivery = "NotSent" <=> bytes[operation] = 0
    /\ told[operation][i].kind \in {"Reply", "WriteComplete"} => operation \in done

\* What the policy records about a frame is what the transport was given.
Known(s, bytes, done) ==
  \A i \in DOMAIN s : /\ s[i].delivery = "NotSent" <=> bytes[s[i].operation] = 0
                      /\ s[i].writeHeld <=> s[i].operation \notin done

Written(w, bytes) ==
  \A i \in DOMAIN w : w[i].written <= w[i].wire /\ bytes[w[i].operation] = w[i].written

\* An operation is told an end before its first byte.
Withdrawn(told, operation) ==
  told[operation] # <<>> /\ told[operation][1].delivery = "NotSent"

\* Every accepted operation without a frame is out or was withdrawn.
Passed(s, order, done, told) ==
  \A a \in DOMAIN order :
    order[a] \in done \/ Withdrawn(told, order[a]) \/ Holds(s, order[a])

\* What recovery would find, also on a poisoned owner.
FrameFor(record, frame) ==
  frame.operation = record.operation /\ frame.effect = record.effect

Started(record, w) ==
  record.delivery = "PossiblySent" \/ \E j \in DOMAIN w : FrameFor(record, w[j]) /\ w[j].started

Recoverable(s, w, bytes, done) ==
  /\ \A i \in DOMAIN s :
       /\ Started(s[i], w) <=> bytes[s[i].operation] # 0
       /\ s[i].operation \in done \/ \E j \in DOMAIN w : FrameFor(s[i], w[j])
  /\ \A j \in DOMAIN w : \E i \in DOMAIN s : FrameFor(s[i], w[j])

RecoveredEntry == [operation : Operations, delivery : Deliveries, frame : BOOLEAN]

Recovered ==
  /\ recovery.operations \in Seq(RecoveredEntry) /\ recovery.unmatched = {}
  /\ machine.pending # <<>> => recovery.operations = <<>>
  /\ InWireOrder(recovery.operations, accepted)
  /\ \A i \in DOMAIN recovery.operations :
       LET entry == recovery.operations[i]
       IN  /\ entry.delivery = "NotSent" <=> sent[entry.operation] = 0
           /\ entry.frame \/ entry.operation \in completed

\* On a healthy owner nothing was recovered, and policy and world agree.
HealthyFate ==
  /\ recovery.operations = <<>>
  /\ Known(machine.pending, sent, completed)
  /\ Written(writes, sent)
  /\ machine.phase = "Live" => Passed(machine.pending, accepted, completed, published)

Fate ==
  /\ journal.operations = <<>> /\ journal.writes = <<>>
  /\ Fresh /\ Committed
  /\ InWireOrder(machine.pending, accepted)
  /\ Counted(published, recovery.operations, Live(machine.pending), accepted)
  /\ Truthful(published, sent, completed)
  /\ Recoverable(machine.pending, writes, sent, completed)
  /\ Recovered
  /\ poisoned = "None" => HealthyFate

Fated == Owned /\ (Faults = {} => Fate)

(***************************************************************************)
(* What a call publishes.                                                  *)
(***************************************************************************)
LEMMA ContainsAppend ==
  ASSUME NEW T, NEW s \in Seq(T), NEW x \in T, NEW y
  PROVE  Contains(Append(s, x), y) <=> Contains(s, y) \/ y = x
<1>1. Len(Append(s, x)) = Len(s) + 1 /\ Len(s) \in Nat
  OBVIOUS
<1>2. \A i \in 1..Len(s) : Append(s, x)[i] = s[i] /\ i \in 1..(Len(s) + 1)
  OBVIOUS
<1>3. Append(s, x)[Len(s) + 1] = x /\ Len(s) + 1 \in 1..(Len(s) + 1)
  OBVIOUS
<1>4. \A i \in 1..(Len(s) + 1) : i \in 1..Len(s) \/ i = Len(s) + 1
  BY <1>1
<1> QED
  BY <1>1, <1>2, <1>3, <1>4 DEF Contains

LEMMA ContainsItem ==
  ASSUME NEW T, NEW s \in Seq(T), NEW i \in DOMAIN s
  PROVE  Contains(s, s[i])
  BY DEF Contains

\* An operation gets its one outcome as it stops being observed, or nothing
\* changes for it.
ToldNow(operation, publish, before, after) ==
  /\ operation \in before /\ operation \notin after
  /\ \E x \in publish : /\ x.operation = operation
                        /\ published'[operation] = Append(published[operation], x)

ToldNothing(operation, before, after) ==
  /\ published'[operation] = published[operation]
  /\ operation \in before <=> operation \in after

LEMMA EmitTold ==
  ASSUME NEW s, NEW r, NEW t, Emit(t), Tells(s, t.publish, r), NEW operation \in Operations
  PROVE  \/ ToldNow(operation, t.publish, Live(s), Live(r))
         \/ ToldNothing(operation, Live(s), Live(r))
<1> DEFINE outcomes == {x \in t.publish : x.operation = operation}
<1>1. published'[operation] = IF outcomes = {} THEN published[operation]
                              ELSE Append(published[operation], CHOOSE x \in outcomes : TRUE)
  BY DEF Emit
<1>2. Live(r) = Live(s) \ {x.operation : x \in t.publish}
  BY DEF Tells
<1>3. CASE outcomes = {}
  <2>1. operation \notin {x.operation : x \in t.publish}
    BY <1>3
  <2> QED
    BY <1>1, <1>2, <1>3, <2>1 DEF ToldNothing
<1>4. CASE outcomes # {}
  <2> DEFINE x == CHOOSE y \in outcomes : TRUE
  <2>1. x \in t.publish /\ x.operation = operation
    BY <1>4
  <2>2. published'[operation] = Append(published[operation], x)
    BY <1>1, <1>4
  <2> HIDE DEF x
  <2>3. operation \in Live(s)
    BY <2>1 DEF Tells, Live
  <2>4. operation \notin Live(r)
    BY <1>2, <2>1
  <2> QED
    BY <2>1, <2>2, <2>3, <2>4 DEF ToldNow
<1> QED
  BY <1>3, <1>4

\* The count of each operation's ends is kept, on an owner that was never recovered.
LEMMA EmitCounts ==
  ASSUME published \in [Operations -> Seq(Outcomes)], NEW publish \in SUBSET Outcomes,
         NEW before, NEW after, NEW order,
         \A operation \in Operations : \/ ToldNow(operation, publish, before, after)
                                       \/ ToldNothing(operation, before, after),
         Counted(published, <<>>, before, order)
  PROVE  Counted(published', <<>>, after, order)
<1> SUFFICES ASSUME NEW operation \in Operations
             PROVE  Len(published'[operation])
                      + Cardinality({i \in DOMAIN <<>> : <<>>[i].operation = operation})
                      + (IF operation \in after THEN 1 ELSE 0)
                    = IF Contains(order, operation) THEN 1 ELSE 0
  BY DEF Counted
<1> DEFINE c == Cardinality({i \in DOMAIN <<>> : <<>>[i].operation = operation})
           k == IF Contains(order, operation) THEN 1 ELSE 0
<1>1. c = 0
  <2>1. {i \in DOMAIN <<>> : <<>>[i].operation = operation} = {}
    OBVIOUS
  <2> QED
    BY <2>1, FS_EmptySet
<1>2. Len(published[operation]) + c + (IF operation \in before THEN 1 ELSE 0) = k
  BY DEF Counted
<1>3. published[operation] \in Seq(Outcomes) /\ Len(published[operation]) \in Nat
  OBVIOUS
<1> HIDE DEF c, k
<1>4. CASE ToldNow(operation, publish, before, after)
  <2>1. Len(published'[operation]) = Len(published[operation]) + 1
    BY <1>3, <1>4 DEF ToldNow
  <2>2. operation \in before /\ operation \notin after
    BY <1>4 DEF ToldNow
  <2> QED
    BY <1>1, <1>2, <1>3, <2>1, <2>2 DEF c, k
<1>5. CASE ToldNothing(operation, before, after)
  BY <1>2, <1>5 DEF ToldNothing, c, k
<1> QED
  BY <1>4, <1>5

LEMMA EmitTruthful ==
  ASSUME published \in [Operations -> Seq(Outcomes)], NEW publish \in SUBSET Outcomes,
         NEW s, NEW r, Tells(s, publish, r), NEW bytes, NEW done, Known(s, bytes, done),
         \A operation \in Operations : \/ ToldNow(operation, publish, Live(s), Live(r))
                                       \/ ToldNothing(operation, Live(s), Live(r)),
         Truthful(published, bytes, done)
  PROVE  Truthful(published', bytes, done)
<1> SUFFICES ASSUME NEW operation \in Operations, NEW i \in DOMAIN published'[operation]
             PROVE  /\ published'[operation][i].delivery = "NotSent" <=> bytes[operation] = 0
                    /\ published'[operation][i].kind \in {"Reply", "WriteComplete"}
                         => operation \in done
  BY DEF Truthful
<1> DEFINE before == published[operation]
<1>1. before \in Seq(Outcomes) /\ Len(before) \in Nat
  OBVIOUS
<1>2. CASE ToldNothing(operation, Live(s), Live(r))
  BY <1>2 DEF ToldNothing, Truthful
<1>3. CASE ToldNow(operation, publish, Live(s), Live(r))
  <2>1. PICK x \in publish : x.operation = operation /\ published'[operation] = Append(before, x)
    BY <1>3 DEF ToldNow
  <2>2. PICK j \in DOMAIN s : /\ x.operation = s[j].operation /\ x.delivery = s[j].delivery
                              /\ x.kind \in {"Reply", "WriteComplete"} => ~s[j].writeHeld
    BY <2>1 DEF Tells
  <2>3. /\ x.delivery = "NotSent" <=> bytes[operation] = 0
        /\ x.kind \in {"Reply", "WriteComplete"} => operation \in done
    BY <2>1, <2>2 DEF Known
  <2>4. CASE i \in DOMAIN before
    <3>1. published'[operation][i] = before[i]
      BY <1>1, <2>1, <2>4
    <3> QED
      BY <2>4, <3>1 DEF Truthful
  <2>5. CASE i \notin DOMAIN before
    <3>1. published'[operation][i] = x
      BY <1>1, <2>1, <2>5
    <3> QED
      BY <2>3, <3>1
  <2> QED
    BY <2>4, <2>5
<1> QED
  BY <1>2, <1>3

LEMMA StaysWithdrawn ==
  ASSUME published \in [Operations -> Seq(Outcomes)], NEW publish, NEW before, NEW after,
         NEW operation \in Operations, Withdrawn(published, operation),
         \/ ToldNow(operation, publish, before, after)
         \/ ToldNothing(operation, before, after)
  PROVE  Withdrawn(published', operation)
<1>1. published[operation] \in Seq(Outcomes) /\ published[operation] # <<>>
  BY DEF Withdrawn
<1>2. \A x : /\ Append(published[operation], x) # <<>>
             /\ Append(published[operation], x)[1] = published[operation][1]
  BY <1>1
<1> QED
  BY <1>2 DEF Withdrawn, ToldNow, ToldNothing

(***************************************************************************)
(* The wire order.                                                         *)
(***************************************************************************)
LEMMA RemovedInOrder ==
  ASSUME NEW T, NEW s \in Seq(T), NEW i \in DOMAIN s, NEW order, InWireOrder(s, order)
  PROVE  InWireOrder(RemoveAt(s, i), order)
<1> DEFINE r == RemoveAt(s, i)
           At(j) == IF j < i THEN j ELSE j + 1
<1>1. /\ DOMAIN r = 1..(Len(s) - 1)
      /\ \A j \in 1..(Len(s) - 1) : r[j] = IF j < i THEN s[j] ELSE s[j + 1]
  BY RemoveAtItems
<1>2. Len(s) \in Nat /\ DOMAIN s = 1..Len(s) /\ i \in 1..Len(s)
  OBVIOUS
<1>3. \A j \in DOMAIN r : r[j] = s[At(j)] /\ At(j) \in DOMAIN s
  BY <1>1, <1>2
<1>4. \A j, k \in DOMAIN r : j < k => At(j) < At(k)
  BY <1>1, <1>2
<1> HIDE DEF r, At
<1>5. InWireOrder(r, order)
  <2> SUFFICES ASSUME NEW j \in DOMAIN r, NEW k \in DOMAIN r, NEW a \in DOMAIN order,
                      NEW b \in DOMAIN order,
                      j < k, order[a] = r[j].operation, order[b] = r[k].operation
               PROVE  a < b
    BY DEF InWireOrder
  <2>1. At(j) < At(k) /\ order[a] = s[At(j)].operation /\ order[b] = s[At(k)].operation
    BY <1>3, <1>4
  <2> QED
    BY <1>3, <2>1 DEF InWireOrder
<1> QED
  BY <1>5 DEF r

LEMMA SameInOrder ==
  ASSUME NEW s, NEW r, DOMAIN r = DOMAIN s,
         \A i \in DOMAIN s : r[i].operation = s[i].operation,
         NEW order, InWireOrder(s, order)
  PROVE  InWireOrder(r, order)
  BY DEF InWireOrder

LEMMA AppendedInOrder ==
  ASSUME NEW s \in Seq(OperationRecord), NEW r \in OperationRecord,
         NEW order \in Seq(Operations), InWireOrder(s, order),
         \A i \in DOMAIN s : Contains(order, s[i].operation),
         ~Contains(order, r.operation)
  PROVE  InWireOrder(Append(s, r), Append(order, r.operation))
<1> DEFINE q == Append(s, r)
           o == Append(order, r.operation)
           n == Len(s)
           k == Len(order)
<1>1. n \in Nat /\ k \in Nat /\ DOMAIN s = 1..n /\ DOMAIN order = 1..k
  OBVIOUS
<1>2. DOMAIN q = 1..(n + 1) /\ q[n + 1] = r /\ \A i \in 1..n : q[i] = s[i]
  OBVIOUS
<1>3. r.operation \in Operations
  BY RecordFields
<1>4. DOMAIN o = 1..(k + 1) /\ o[k + 1] = r.operation /\ \A a \in 1..k : o[a] = order[a]
  BY <1>3
<1>5. \A a \in 1..k : order[a] # r.operation
  BY DEF Contains
<1>6. \A i \in 1..n : s[i].operation # r.operation
  BY <1>1
<1> HIDE DEF q, o, n, k
<1>7. InWireOrder(q, o)
  <2> SUFFICES ASSUME NEW i \in DOMAIN q, NEW j \in DOMAIN q, NEW a \in DOMAIN o,
                      NEW b \in DOMAIN o,
                      i < j, o[a] = q[i].operation, o[b] = q[j].operation
               PROVE  a < b
    BY DEF InWireOrder
  <2>1. i \in 1..n /\ (j \in 1..n \/ j = n + 1)
    BY <1>1, <1>2
  <2>2. q[i] = s[i] /\ o[a] # r.operation
    BY <1>2, <1>6, <2>1
  <2>3. a \in 1..k /\ o[a] = order[a]
    BY <1>1, <1>4, <2>2
  <2>4. CASE j \in 1..n
    <3>1. q[j] = s[j] /\ o[b] # r.operation
      BY <1>2, <1>6, <2>4
    <3>2. b \in 1..k /\ o[b] = order[b]
      BY <1>1, <1>4, <3>1
    <3> QED
      BY <1>1, <2>1, <2>2, <2>3, <2>4, <3>1, <3>2 DEF InWireOrder
  <2>5. CASE j = n + 1
    <3>1. o[b] = r.operation
      BY <1>2, <2>5
    <3>2. b = k + 1
      BY <1>1, <1>4, <1>5, <3>1
    <3> QED
      BY <1>1, <2>3, <3>2
  <2> QED
    BY <2>1, <2>4, <2>5
<1> QED
  BY <1>7 DEF q, o

(***************************************************************************)
(* What recovery would find.                                               *)
(***************************************************************************)

\* A frame is for one record only.
LEMMA FrameForOne ==
  ASSUME NEW s \in Seq(OperationRecord), Distinct(s), NEW w \in Seq(QueuedWrite), NEW k,
         AlignedAt(k, s, w), NEW i \in DOMAIN s, NEW j \in DOMAIN w
  PROVE  FrameFor(s[i], w[j]) <=> i = k + j
<1>1. /\ Len(w) \in Nat /\ DOMAIN w = 1..Len(w) /\ k + j \in DOMAIN s
  BY HeldFrom
<1>2. Matches(w[j], s[k + j])
  BY <1>1 DEF AlignedAt
<1> QED
  BY <1>1, <1>2 DEF FrameFor, Matches, Distinct

LEMMA KnownRecoverable ==
  ASSUME NEW s \in Seq(OperationRecord), Distinct(s), NEW w \in Seq(QueuedWrite),
         Aligned(s, w), NEW bytes, NEW done, Known(s, bytes, done)
  PROVE  Recoverable(s, w, bytes, done)
<1>1. PICK k \in Nat : AlignedAt(k, s, w)
  BY DEF Aligned
<1>2. /\ Len(w) \in Nat /\ DOMAIN w = 1..Len(w)
      /\ \A i \in DOMAIN s : s[i].writeHeld <=> i > k
      /\ \A i \in DOMAIN s : i > k <=> i - k \in DOMAIN w
      /\ \A j \in DOMAIN w : k + j \in DOMAIN s
      /\ DOMAIN s = 1..Len(s) /\ Len(s) \in Nat
  BY <1>1, HeldFrom
<1>3. \A i \in DOMAIN s, j \in DOMAIN w : FrameFor(s[i], w[j]) <=> i = k + j
  BY <1>1, FrameForOne
<1>4. \A j \in DOMAIN w : w[j].started <=> s[k + j].delivery = "PossiblySent"
  BY <1>1, <1>2 DEF AlignedAt, Matches
<1>5. ASSUME NEW i \in DOMAIN s
      PROVE  Started(s[i], w) <=> bytes[s[i].operation] # 0
  <2>1. s[i].delivery = "PossiblySent" <=> s[i].delivery # "NotSent"
    BY RecordFields DEF Deliveries
  <2>2. s[i].delivery # "NotSent" <=> bytes[s[i].operation] # 0
    BY DEF Known
  <2>3. ASSUME NEW j \in DOMAIN w, FrameFor(s[i], w[j]), w[j].started
        PROVE  s[i].delivery = "PossiblySent"
    BY <1>3, <1>4, <2>3
  <2> QED
    BY <2>1, <2>2, <2>3 DEF Started
<1>6. ASSUME NEW i \in DOMAIN s, s[i].operation \notin done
      PROVE  \E j \in DOMAIN w : FrameFor(s[i], w[j])
  <2>1. i - k \in DOMAIN w
    BY <1>2, <1>6 DEF Known
  <2>2. i = k + (i - k)
    BY <1>2
  <2> QED
    BY <1>3, <2>1, <2>2
<1>7. \A j \in DOMAIN w : \E i \in DOMAIN s : FrameFor(s[i], w[j])
  BY <1>2, <1>3
<1> QED
  BY <1>5, <1>6, <1>7 DEF Recoverable

\* An excessive report leaves frame and bytes in agreement.
LEMMA OverReportedRecoverable ==
  ASSUME NEW s \in Seq(OperationRecord), Distinct(s), NEW w \in Seq(QueuedWrite),
         Aligned(s, w), w # <<>>, NEW bytes \in [Operations -> Nat], NEW done,
         Recoverable(s, w, bytes, done), NEW n \in Nat, n > 0,
         NEW v, v = [w EXCEPT ![1].started = @ \/ n > 0],
         NEW c, c = [bytes EXCEPT ![w[1].operation] = @ + n]
  PROVE  Recoverable(s, v, c, done)
<1>1. PICK k \in Nat : AlignedAt(k, s, w)
  BY DEF Aligned
<1>2. /\ Len(w) \in Nat /\ DOMAIN w = 1..Len(w)
      /\ \A j \in DOMAIN w : k + j \in DOMAIN s
      /\ DOMAIN s = 1..Len(s) /\ Len(s) \in Nat
  BY <1>1, HeldFrom
<1>3. \A i \in DOMAIN s, j \in DOMAIN w : FrameFor(s[i], w[j]) <=> i = k + j
  BY <1>1, FrameForOne
<1>4. 1 \in DOMAIN w /\ k + 1 \in DOMAIN s /\ Matches(w[1], s[k + 1]) /\ w[1] \in QueuedWrite
  <2>1. 1 \in DOMAIN w
    OBVIOUS
  <2>2. Matches(w[1], s[k + 1])
    BY <1>1, <1>2, <2>1 DEF AlignedAt
  <2> QED
    BY <1>2, <2>1, <2>2
<1>5. w[1].operation = s[k + 1].operation /\ s[k + 1].operation \in Operations
  BY <1>4, RecordFields DEF Matches
<1>6. /\ DOMAIN v = DOMAIN w /\ \A j \in DOMAIN w : j # 1 => v[j] = w[j]
      /\ v[1].started /\ v[1].operation = w[1].operation /\ v[1].effect = w[1].effect
  BY <1>4 DEF QueuedWrite
<1>7. \A i \in DOMAIN s, j \in DOMAIN w : FrameFor(s[i], v[j]) <=> i = k + j
  BY <1>3, <1>6 DEF FrameFor
<1>8. /\ c[w[1].operation] = bytes[w[1].operation] + n
      /\ \A x \in Operations : x # w[1].operation => c[x] = bytes[x]
  BY <1>5
<1>9. c[w[1].operation] # 0
  BY <1>5, <1>8
<1>10. ASSUME NEW i \in DOMAIN s
       PROVE  Started(s[i], v) <=> c[s[i].operation] # 0
  <2>1. CASE i = k + 1
    <3>1. FrameFor(s[i], v[1])
      BY <1>4, <1>7, <2>1
    <3> QED
      BY <1>4, <1>5, <1>6, <1>9, <2>1, <3>1 DEF Started
  <2>2. CASE i # k + 1
    <3>1. s[i].operation # w[1].operation /\ s[i].operation \in Operations
      BY <1>4, <1>5, <2>2, RecordFields DEF Distinct
    <3>2. \A j \in DOMAIN w : FrameFor(s[i], v[j]) => v[j] = w[j] /\ FrameFor(s[i], w[j])
      BY <1>3, <1>6, <1>7, <2>2
    <3>3. \A j \in DOMAIN w : FrameFor(s[i], w[j]) => v[j] = w[j] /\ FrameFor(s[i], v[j])
      BY <1>3, <1>6, <1>7, <2>2
    <3>4. Started(s[i], v) <=> Started(s[i], w)
      BY <1>6, <3>2, <3>3 DEF Started
    <3>5. c[s[i].operation] = bytes[s[i].operation]
      BY <1>8, <3>1
    <3> QED
      BY <3>4, <3>5 DEF Recoverable
  <2> QED
    BY <2>1, <2>2
<1>11. \A i \in DOMAIN s : s[i].operation \in done \/ \E j \in DOMAIN v : FrameFor(s[i], v[j])
  BY <1>3, <1>6, <1>7 DEF Recoverable
<1>12. \A j \in DOMAIN v : \E i \in DOMAIN s : FrameFor(s[i], v[j])
  BY <1>2, <1>6, <1>7
<1> QED
  BY <1>10, <1>11, <1>12 DEF Recoverable

(***************************************************************************)
(* What an input leaves in the writer.                                     *)
(***************************************************************************)
Takes(t, j) ==
  /\ writes' = RemoveAt(writes, j)
  /\ \E i \in DOMAIN machine.pending :
       t.discard = <<machine.pending[i]>> /\ Matches(writes[j], machine.pending[i])

LEMMA WriterLeft ==
  ASSUME InOrder, NEW t, NEW fired, Settled(t, fired)
  PROVE  \/ writes' = writes
         \/ \E j \in DOMAIN writes : Takes(t, j)
         \/ writes' = <<>> /\ t.discard = machine.pending
<1> DEFINE s == machine.pending
           q == Unreconciled
           Left == \/ writes' = writes
                   \/ \E j \in DOMAIN writes : Takes(t, j)
                   \/ writes' = <<>> /\ t.discard = s
<1> SUFFICES Left
  OBVIOUS
<1>1. /\ s \in Seq(OperationRecord) /\ writes \in Seq(QueuedWrite) /\ writeBudget \in Nat
      /\ Named(s) /\ Aligned(s, writes)
  BY InOrderSound DEF WriterSound, Matched
<1>2. /\ writes' = Reconcile(t.discard).frames /\ FramesMatch'
      /\ machine' = t.machine /\ Discards(s, t.discard, t.machine.pending)
  BY DEF Settled, Resolves
<1>3. q.frames = writes /\ q.failure = "None"
  BY DEF Unreconciled
<1>4. CASE t.discard = <<>>
  BY <1>1, <1>2, <1>3, <1>4, ReconcileNone
<1>5. ASSUME NEW i \in DOMAIN s, t.discard = <<s[i]>>
      PROVE  Left
  <2>1. s[i] \in OperationRecord
    BY <1>1
  <2>2. writes' = Discard(q, s[i]).frames
    BY <1>1, <1>2, <1>5, <2>1, ReconcileOne
  <2>3. CASE ~s[i].writeHeld \/ ~HasEffect(writes, s[i].effect)
    BY <1>3, <2>2, <2>3 DEF Discard, Unreconciled
  <2>4. CASE s[i].writeHeld /\ HasEffect(writes, s[i].effect)
    <3> DEFINE j == CHOOSE h \in DOMAIN writes : writes[h].effect = s[i].effect
    <3>1. j \in DOMAIN writes /\ writes[j].effect = s[i].effect
      BY <2>4 DEF HasEffect
    <3>2. PICK k \in Nat : AlignedAt(k, s, writes)
      BY <1>1 DEF Aligned
    <3>3. writes' = writes \/ writes' = RemoveAt(writes, j)
      BY <1>3, <2>2, <2>4 DEF Discard, Unreconciled
    <3> HIDE DEF j
    <3>4. k + j \in DOMAIN s /\ Matches(writes[j], s[k + j])
      <4>1. /\ Len(writes) \in Nat /\ DOMAIN writes = 1..Len(writes) /\ k + j \in DOMAIN s
        BY <1>1, <3>1, <3>2, HeldFrom
      <4> QED
        BY <3>1, <3>2, <4>1 DEF AlignedAt
    <3>5. k + j = i
      <4>1. s[k + j].effect = s[i].effect
        BY <3>1, <3>4 DEF Matches
      <4>2. /\ s[k + j].effect = s[k + j].operation + Shift
            /\ s[i].effect = s[i].operation + Shift
        BY <1>1, <3>4 DEF Named
      <4>3. s[k + j].operation \in Int /\ s[i].operation \in Int /\ Shift \in Int
        <5>1. s[k + j].operation \in Operations /\ s[i].operation \in Operations
          BY <1>1, <2>1, <3>4, RecordFields
        <5> QED
          BY <5>1, IdentityAssumption DEF Operations, Shift
      <4>4. s[k + j].operation = s[i].operation
        <5>1. \A a, b, c \in Int : a + c = b + c => a = b
          OBVIOUS
        <5> QED
          BY <4>1, <4>2, <4>3, <5>1
      <4> QED
        BY <1>1, <3>4, <4>4 DEF Named, Distinct
    <3> QED
      BY <1>5, <3>1, <3>3, <3>4, <3>5 DEF Takes
  <2> QED
    BY <2>3, <2>4
<1>6. CASE t.discard = s /\ t.machine.pending = <<>>
  <2>1. PICK k \in Nat : AlignedAt(k, <<>>, writes')
    BY <1>2, <1>6 DEF FramesMatch, Matched, Aligned
  <2>2. writes' \in Seq(QueuedWrite)
    BY <1>1, <1>2, <1>6, ReconcileType DEF Reconciliation
  <2>3. Len(<<>>) = k + Len(writes') /\ Len(writes') \in Nat
    BY <2>1, <2>2 DEF AlignedAt
  <2>4. writes' = <<>>
    BY <2>2, <2>3
  <2> QED
    BY <1>6, <2>4
<1> QED
  BY <1>2, <1>4, <1>5, <1>6 DEF Discards

(***************************************************************************)
(* The inputs of apply and apply_reply.                                    *)
(***************************************************************************)

\* What a transition does to the FIFO, item by item.
LEMMA DiscardedItems ==
  ASSUME NEW s \in Seq(OperationRecord), NEW discard, NEW r, Discards(s, discard, r)
  PROVE  /\ r \in Seq(OperationRecord)
         /\ \A k \in DOMAIN r : \E i \in DOMAIN s : /\ r[k].operation = s[i].operation
                                                    /\ r[k].delivery = s[i].delivery
                                                    /\ r[k].writeHeld = s[i].writeHeld
         /\ \A i \in DOMAIN s : \/ Holds(r, s[i].operation)
                                \/ ~s[i].writeHeld
                                \/ \E k \in DOMAIN discard : discard[k] = s[i]
         /\ \A order : InWireOrder(s, order) => InWireOrder(r, order)
<1> DEFINE Goal == /\ r \in Seq(OperationRecord)
                   /\ \A k \in DOMAIN r : \E i \in DOMAIN s :
                        /\ r[k].operation = s[i].operation
                        /\ r[k].delivery = s[i].delivery
                        /\ r[k].writeHeld = s[i].writeHeld
                   /\ \A i \in DOMAIN s : \/ Holds(r, s[i].operation)
                                          \/ ~s[i].writeHeld
                                          \/ \E k \in DOMAIN discard : discard[k] = s[i]
                   /\ \A order : InWireOrder(s, order) => InWireOrder(r, order)
<1> SUFFICES Goal
  OBVIOUS
<1>1. CASE Alike(r, s)
  <2>1. /\ r \in Seq(OperationRecord) /\ DOMAIN r = DOMAIN s
        /\ \A i \in DOMAIN s : /\ r[i].operation = s[i].operation
                               /\ r[i].delivery = s[i].delivery
                               /\ r[i].writeHeld = s[i].writeHeld
    BY <1>1 DEF Alike
  <2>2. \A order : InWireOrder(s, order) => InWireOrder(r, order)
    BY <2>1, SameInOrder
  <2> QED
    BY <2>1, <2>2 DEF Holds
<1>2. ASSUME NEW i \in DOMAIN s, r = RemoveAt(s, i),
             discard = <<s[i]>> \/ ~s[i].writeHeld
      PROVE  Goal
  <2>1. /\ DOMAIN r = 1..(Len(s) - 1)
        /\ \A j \in 1..(Len(s) - 1) : r[j] = IF j < i THEN s[j] ELSE s[j + 1]
        /\ \A k \in DOMAIN s : k # i => \E j \in 1..(Len(s) - 1) : r[j] = s[k]
    BY <1>2, RemoveAtItems
  <2>2. r \in Seq(OperationRecord)
    BY <1>2, RemoveAtType
  <2>3. \A k \in DOMAIN r : \E j \in DOMAIN s : r[k] = s[j]
    <3>1. \A j \in 1..(Len(s) - 1) : j \in DOMAIN s /\ j + 1 \in DOMAIN s
      OBVIOUS
    <3> QED
      BY <2>1, <3>1
  <2>4. \A k \in DOMAIN s : k # i => Holds(r, s[k].operation)
    BY <2>1 DEF Holds
  <2>5. ~s[i].writeHeld \/ \E k \in DOMAIN discard : discard[k] = s[i]
    BY <1>2
  <2>6. \A order : InWireOrder(s, order) => InWireOrder(r, order)
    BY <1>2, RemovedInOrder
  <2> QED
    BY <2>2, <2>3, <2>4, <2>5, <2>6
<1>3. CASE discard = s /\ r = <<>>
  <2>1. \A order : InWireOrder(r, order)
    BY <1>3 DEF InWireOrder
  <2> QED
    BY <1>3, <2>1
<1> QED
  BY <1>1, <1>2, <1>3 DEF Discards

\* An operation removed before its first byte is told so.
LEMMA RemovedWithdrawn ==
  ASSUME published \in [Operations -> Seq(Outcomes)], NEW publish \in SUBSET Outcomes,
         NEW s \in Seq(OperationRecord), Distinct(s), NEW r, Tells(s, publish, r), NEW order,
         Counted(published, <<>>, Live(s), order),
         NEW i \in DOMAIN s, s[i].phase # "Terminal", s[i].delivery = "NotSent",
         ~Holds(r, s[i].operation),
         \/ ToldNow(s[i].operation, publish, Live(s), Live(r))
         \/ ToldNothing(s[i].operation, Live(s), Live(r))
  PROVE  Withdrawn(published', s[i].operation)
<1> DEFINE x == s[i].operation
<1>1. x \in Operations /\ x \in Live(s) /\ x \notin Live(r)
  <2>1. x \in Operations
    BY RecordFields
  <2>2. x \in Live(s)
    BY DEF Live
  <2>3. x \notin Live(r)
    BY DEF Live, Holds
  <2> QED
    BY <2>1, <2>2, <2>3
<1>2. ToldNow(x, publish, Live(s), Live(r))
  BY <1>1 DEF ToldNothing
<1>3. PICK y \in publish : y.operation = x /\ published'[x] = Append(published[x], y)
  BY <1>2 DEF ToldNow
<1>4. y.delivery = "NotSent"
  <2>1. PICK j \in DOMAIN s : y.operation = s[j].operation /\ y.delivery = s[j].delivery
    BY <1>3 DEF Tells
  <2>2. j = i
    BY <1>3, <2>1 DEF Distinct
  <2> QED
    BY <2>1, <2>2
<1> HIDE DEF x
<1>5. published[x] = <<>>
  <2> DEFINE c == Cardinality({k \in DOMAIN <<>> : <<>>[k].operation = x})
  <2>1. c = 0
    <3>1. {k \in DOMAIN <<>> : <<>>[k].operation = x} = {}
      OBVIOUS
    <3> QED
      BY <3>1, FS_EmptySet
  <2>2. Len(published[x]) + c + 1 = 0 \/ Len(published[x]) + c + 1 = 1
    BY <1>1 DEF Counted
  <2> HIDE DEF c
  <2>3. published[x] \in Seq(Outcomes) /\ Len(published[x]) \in Nat
    BY <1>1
  <2>4. Len(published[x]) = 0
    BY <2>1, <2>2, <2>3
  <2> QED
    BY <2>3, <2>4
<1>6. published'[x] = <<y>>
  BY <1>3, <1>5
<1> QED
  BY <1>4, <1>6 DEF Withdrawn, x

\* The parts of the invariant that only look at what a healthy call leaves alone.
LEMMA RecoveredStays ==
  ASSUME Recovered, UNCHANGED <<recovery, accepted, sent, completed>>,
         recovery.operations = <<>> \/ machine'.pending = machine.pending
  PROVE  Recovered'
  BY DEF Recovered, InWireOrder

LEMMA SettledFate ==
  ASSUME InOrder, Fate, NEW t, NEW fired, Settled(t, fired)
  PROVE  Fate'
<1> DEFINE s == machine.pending
           r == t.machine.pending
<1>1. /\ s \in Seq(OperationRecord) /\ writes \in Seq(QueuedWrite) /\ Distinct(s)
      /\ Sound(machine) /\ machine \in Machine
      /\ published \in [Operations -> Seq(Outcomes)] /\ accepted \in Seq(Operations)
      /\ poisoned = "None"
  BY InOrderSound DEF TypeOK, InOrder
<1>2. /\ t \in Transitions /\ Discards(s, t.discard, r) /\ Tells(s, t.publish, r)
      /\ Spares(machine, t) /\ machine' = t.machine /\ FramesMatch'
      /\ journal' = EmptyJournal /\ poisoned' = "None"
      /\ UNCHANGED <<permits, accepted, sent, completed, recovery, injected>>
      /\ Emit([t EXCEPT !.cancel = @ \cup fired])
  BY DEF Settled, Resolves
<1>3. HealthyFate /\ recovery.operations = <<>>
  BY <1>1 DEF Fate, HealthyFate
<1>4. t.publish \in SUBSET Outcomes /\ t.machine \in Machine
  BY <1>2, TransitionFields
<1>5. \A operation \in Operations : \/ ToldNow(operation, t.publish, Live(s), Live(r))
                                    \/ ToldNothing(operation, Live(s), Live(r))
  <2> DEFINE e == [t EXCEPT !.cancel = @ \cup fired]
  <2>1. e.publish = t.publish
    BY <1>2 DEF Transitions
  <2>2. Emit(e)
    BY <1>2
  <2> HIDE DEF e
  <2>3. Tells(s, e.publish, r)
    BY <1>2, <2>1, Zenon
  <2>4. \A operation \in Operations : \/ ToldNow(operation, e.publish, Live(s), Live(r))
                                      \/ ToldNothing(operation, Live(s), Live(r))
    BY <2>2, <2>3, EmitTold
  <2> QED
    BY <2>1, <2>4, Zenon
<1>6. /\ r \in Seq(OperationRecord)
      /\ \A k \in DOMAIN r : \E i \in DOMAIN s : /\ r[k].operation = s[i].operation
                                                 /\ r[k].delivery = s[i].delivery
                                                 /\ r[k].writeHeld = s[i].writeHeld
      /\ \A i \in DOMAIN s : \/ Holds(r, s[i].operation)
                             \/ ~s[i].writeHeld
                             \/ \E k \in DOMAIN t.discard : t.discard[k] = s[i]
      /\ InWireOrder(s, accepted) => InWireOrder(r, accepted)
  <2> HIDE DEF s, r
  <2> QED
    BY <1>1, <1>2, DiscardedItems
<1>7. journal'.operations = <<>> /\ journal'.writes = <<>>
  BY <1>2 DEF EmptyJournal
<1>8. Fresh'
  <2>1. t.machine.nextOperation = machine.nextOperation
    BY <1>2 DEF Spares
  <2> QED
    BY <1>2, <2>1 DEF Fate, Fresh, Contains
<1>9. Committed'
  <2>1. \A k \in DOMAIN r : Contains(accepted, r[k].operation)
    BY <1>6 DEF Fate, Committed
  <2> QED
    BY <1>2, <2>1 DEF Fate, Committed
<1>10. InWireOrder(r, accepted)
  BY <1>6 DEF Fate
<1>11. Counted(published, <<>>, Live(s), accepted)
  BY <1>3 DEF Fate
<1>12. Counted(published', <<>>, Live(r), accepted)
  BY <1>1, <1>4, <1>5, <1>11, EmitCounts
<1>13. Known(s, sent, completed)
  BY <1>3 DEF HealthyFate
<1>14. Truthful(published', sent, completed)
  BY <1>1, <1>2, <1>4, <1>5, <1>13, EmitTruthful DEF Fate
<1>15. Known(r, sent, completed)
  BY <1>6, <1>13 DEF Known
<1>16. Written(writes', sent)
  <2>1. Written(writes, sent)
    BY <1>3 DEF HealthyFate
  <2>2. CASE writes' = writes
    BY <2>1, <2>2
  <2>3. ASSUME NEW j \in DOMAIN writes, Takes(t, j)
        PROVE  Written(writes', sent)
    <3>1. /\ DOMAIN RemoveAt(writes, j) = 1..(Len(writes) - 1)
          /\ \A i \in 1..(Len(writes) - 1) :
               RemoveAt(writes, j)[i] = IF i < j THEN writes[i] ELSE writes[i + 1]
      BY <1>1, RemoveAtItems
    <3>2. \A i \in 1..(Len(writes) - 1) : i \in DOMAIN writes /\ i + 1 \in DOMAIN writes
      BY <1>1
    <3>3. writes' = RemoveAt(writes, j)
      BY <2>3 DEF Takes
    <3>4. \A i \in DOMAIN writes' : \E k \in DOMAIN writes : writes'[i] = writes[k]
      BY <3>1, <3>2, <3>3
    <3> QED
      BY <2>1, <3>4 DEF Written
  <2>4. CASE writes' = <<>>
    BY <2>4 DEF Written
  <2> QED
    BY <2>2, <2>3, <2>4, WriterLeft
<1>17. Recoverable(r, writes', sent, completed)
  <2>1. Distinct(r)
    <3>2. CASE Alike(r, s)
      <4>1. DOMAIN r = DOMAIN s /\ \A i \in DOMAIN s : r[i].operation = s[i].operation
        <5> HIDE DEF r, s
        <5>1. Len(r) = Len(s) /\ \A i \in 1..Len(s) : r[i].operation = s[i].operation
          BY <3>2 DEF Alike
        <5> QED
          BY <1>1, <1>6, <5>1
      <4> QED
        BY <1>1, <4>1 DEF Distinct
    <3>3. ASSUME NEW i \in DOMAIN s, r = RemoveAt(s, i) PROVE Distinct(r)
      BY <1>1, <3>3, RemovedRecord
    <3>4. CASE r = <<>>
      BY <3>4 DEF Distinct
    <3> QED
      BY <1>2, <3>2, <3>3, <3>4 DEF Discards
  <2>2. Aligned(r, writes')
    BY <1>2 DEF FramesMatch, Matched
  <2>3. writes' \in Seq(QueuedWrite)
    <3>1. \A j \in DOMAIN writes : RemoveAt(writes, j) \in Seq(QueuedWrite)
      BY <1>1, RemoveAtType
    <3>2. <<>> \in Seq(QueuedWrite)
      OBVIOUS
    <3>3. \/ writes' = writes
          \/ \E j \in DOMAIN writes : Takes(t, j)
          \/ writes' = <<>> /\ t.discard = machine.pending
      BY WriterLeft
    <3> QED
      BY <1>1, <3>1, <3>2, <3>3 DEF Takes
  <2> QED
    BY <1>6, <1>15, <2>1, <2>2, <2>3, KnownRecoverable
<1>18. ASSUME t.machine.phase = "Live"
       PROVE  Passed(r, accepted, completed, published')
  <2>1. /\ machine.phase = "Live"
        /\ \A k \in DOMAIN t.discard : t.discard[k].delivery = "NotSent"
    BY <1>2, <1>18 DEF Spares
  <2>2. Passed(s, accepted, completed, published)
    BY <1>3, <2>1 DEF HealthyFate
  <2> SUFFICES ASSUME NEW a \in DOMAIN accepted, accepted[a] \notin completed,
                      ~Holds(r, accepted[a])
               PROVE  Withdrawn(published', accepted[a])
    BY DEF Passed
  <2>3. accepted[a] \in Operations
    BY <1>1
  <2>4. CASE Withdrawn(published, accepted[a])
    BY <1>1, <1>5, <2>3, <2>4, StaysWithdrawn
  <2>5. CASE Holds(s, accepted[a])
    <3>1. PICK i \in DOMAIN s : s[i].operation = accepted[a]
      BY <2>5 DEF Holds
    <3>2. s[i].writeHeld
      BY <1>13, <3>1 DEF Known
    <3>3. s[i].delivery = "NotSent"
      BY <1>6, <2>1, <3>1, <3>2
    <3>4. s[i].phase # "Terminal"
      BY <1>1, <3>3 DEF Sound, RecordSound
    <3> QED
      BY <1>1, <1>2, <1>4, <1>5, <1>11, <2>3, <3>1, <3>3, <3>4, RemovedWithdrawn
  <2> QED
    BY <2>2, <2>4, <2>5 DEF Passed
<1>19. HealthyFate'
  BY <1>2, <1>3, <1>15, <1>16, <1>18 DEF HealthyFate
<1>20. Recovered'
  BY <1>2, <1>3, RecoveredStays DEF Fate
<1>21. Counted(published', recovery'.operations, Live(r), accepted)
  BY <1>2, <1>3, <1>12
<1> QED
  BY <1>2, <1>7, <1>8, <1>9, <1>10, <1>14, <1>17, <1>19, <1>20, <1>21 DEF Fate

(***************************************************************************)
(* Admission.                                                              *)
(***************************************************************************)
LEMMA StillFate ==
  ASSUME Fate, machine'.pending = machine.pending, machine'.phase = machine.phase,
         UNCHANGED <<writes, journal, accepted, sent, completed, published, recovery>>,
         Fresh', poisoned' = "None" => poisoned = "None"
  PROVE  Fate'
<1>1. Committed'
  BY DEF Fate, Committed
<1>2. Recovered'
  BY RecoveredStays DEF Fate
<1>3. ASSUME poisoned' = "None" PROVE HealthyFate'
  BY <1>3 DEF Fate, HealthyFate
<1> QED
  BY <1>1, <1>2, <1>3 DEF Fate

LEMMA ReserveFate ==
  ASSUME TypeOK, Fate, NEW now \in Moments, NEW options \in Options, Reserve(now, options)
  PROVE  Fate'
<1>1. /\ machine' = ReserveMachine(machine, options)
      /\ permits' = permits \cup {NewPermit(machine, options)}
      /\ UNCHANGED <<writes, journal, poisoned, accepted, sent, completed, published, recovery>>
  BY DEF Reserve, worldVars
<1>2. machine \in Machine /\ accepted \in Seq(Operations)
  BY DEF TypeOK
<1>3. /\ machine'.pending = machine.pending /\ machine'.phase = machine.phase
      /\ machine'.nextOperation = machine.nextOperation + 1
  BY <1>1, <1>2 DEF ReserveMachine, Machine
<1>4. machine.nextOperation \in Int
  BY <1>2, IdentityAssumption DEF Machine
<1>5. NewPermit(machine, options).operation = machine.nextOperation
  BY DEF NewPermit
<1>6. \A a \in DOMAIN accepted : accepted[a] \in Int /\ accepted[a] < machine.nextOperation
  <2>1. \A a \in DOMAIN accepted : accepted[a] \in Operations
    BY <1>2
  <2> QED
    BY <2>1, IdentityAssumption DEF Fate, Fresh, Operations
<1>7. ~Contains(accepted, machine.nextOperation)
  <2>1. DOMAIN accepted = 1..Len(accepted)
    BY <1>2
  <2> QED
    BY <1>4, <1>6, <2>1 DEF Contains
<1>8. Fresh'
  <2>1. \A a \in DOMAIN accepted : accepted[a] < machine'.nextOperation
    BY <1>3, <1>4, <1>6
  <2>2. \A permit \in permits' : ~Contains(accepted, permit.operation)
    BY <1>1, <1>5, <1>7 DEF Fate, Fresh
  <2> QED
    BY <1>1, <2>1, <2>2 DEF Fate, Fresh
<1> QED
  BY <1>1, <1>3, <1>8, StillFate

LEMMA DropFate ==
  ASSUME TypeOK, Fate, NEW permit \in permits, DropPermit(permit)
  PROVE  Fate'
<1>1. /\ permits' = permits \ {permit}
      /\ machine' = [machine EXCEPT !.ledger = RollbackPermit(@, permit.reservation)]
      /\ UNCHANGED <<writes, journal, poisoned, accepted, sent, completed, published, recovery>>
  BY DEF DropPermit, worldVars
<1>2. machine \in Machine
  BY DEF TypeOK
<1>3. /\ machine'.pending = machine.pending /\ machine'.phase = machine.phase
      /\ machine'.nextOperation = machine.nextOperation
  BY <1>1, <1>2 DEF Machine
<1>4. Fresh'
  BY <1>1, <1>3 DEF Fate, Fresh
<1> QED
  BY <1>1, <1>3, <1>4, StillFate

LEMMA CommitFate ==
  ASSUME InOrder, Fate, FramesMatch', NEW permit \in permits, NEW frame \in Frames,
         Commit(permit, frame), TypeOK', Distinct(machine'.pending)
  PROVE  Fate'
<1> DEFINE s == machine.pending
           r == [operation |-> permit.operation, effect |-> permit.effect,
                 deadline |-> permit.deadline,
                 reservation |-> [permit.reservation EXCEPT !.writeRetained = frame.retained],
                 phase |-> "Queued", completion |-> permit.completion,
                 delivery |-> "NotSent", writeHeld |-> TRUE]
           x == permit.operation
           w == NewWrite(permit, frame)
<1>1. /\ TypeOK /\ machine \in Machine /\ s \in Seq(OperationRecord)
      /\ writes \in Seq(QueuedWrite) /\ accepted \in Seq(Operations)
      /\ permits \in SUBSET Permit /\ poisoned = "None" /\ Identified(machine, permits)
  BY InOrderSound DEF TypeOK, InOrder, Books
<1>2. /\ machine' = CommitPermit(machine, permit, frame) /\ permits' = permits \ {permit}
      /\ writes' = Append(writes, w) /\ accepted' = Append(accepted, x)
      /\ UNCHANGED <<journal, poisoned, sent, completed, published, recovery, injected>>
  BY DEF Commit
<1>3. /\ machine'.pending = Append(s, r) /\ machine'.phase = machine.phase
      /\ machine'.nextOperation = machine.nextOperation
  BY <1>1, <1>2 DEF CommitPermit, Machine
<1>4. /\ r.operation = x /\ r.phase = "Queued" /\ r.delivery = "NotSent" /\ r.writeHeld
      /\ w.operation = x /\ w.written = 0 /\ w.wire = frame.wire
  BY DEF NewWrite
<1>5. x \in Operations /\ x < machine.nextOperation /\ ~Contains(accepted, x)
      /\ ~Holds(s, x) /\ frame.wire \in Nat /\ permit \in Permit
  BY <1>1, FramesAssumption DEF Permit, Identified, Fate, Fresh
<1>6. r \in OperationRecord /\ w \in QueuedWrite
  <2>1. machine'.pending \in Seq(OperationRecord) /\ writes' \in Seq(QueuedWrite)
    BY DEF TypeOK, Machine
  <2>2. Append(s, r)[Len(s) + 1] = r /\ Append(writes, w)[Len(writes) + 1] = w
        /\ Len(s) + 1 \in DOMAIN Append(s, r) /\ Len(writes) + 1 \in DOMAIN Append(writes, w)
    <3> HIDE DEF r, w
    <3> QED BY <1>1
  <2> HIDE DEF r, w
  <2> QED
    BY <1>2, <1>3, <2>1, <2>2
<1> HIDE DEF r, w, x
<1>7. /\ DOMAIN Append(s, r) = 1..(Len(s) + 1) /\ Append(s, r)[Len(s) + 1] = r
      /\ \A i \in 1..Len(s) : Append(s, r)[i] = s[i]
      /\ DOMAIN s = 1..Len(s) /\ Len(s) \in Nat
      /\ \A i \in 1..(Len(s) + 1) : i \in 1..Len(s) \/ i = Len(s) + 1
  BY <1>1, <1>6
<1>8. /\ DOMAIN accepted' = 1..(Len(accepted) + 1) /\ accepted'[Len(accepted) + 1] = x
      /\ \A a \in 1..Len(accepted) : accepted'[a] = accepted[a]
      /\ DOMAIN accepted = 1..Len(accepted) /\ Len(accepted) \in Nat
      /\ \A a \in 1..(Len(accepted) + 1) : a \in 1..Len(accepted) \/ a = Len(accepted) + 1
  BY <1>1, <1>2, <1>5
<1>9. \A y : Contains(accepted', y) <=> Contains(accepted, y) \/ y = x
  BY <1>1, <1>2, <1>5, ContainsAppend
<1>10. Fresh'
  <2>1. \A a \in DOMAIN accepted' : accepted'[a] < machine'.nextOperation
    BY <1>3, <1>5, <1>8 DEF Fate, Fresh
  <2>2. \A p \in permits' : p.operation # x
    BY <1>1, <1>2 DEF Identified, x
  <2>3. \A p \in permits' : ~Contains(accepted', p.operation)
    BY <1>2, <1>9, <2>2 DEF Fate, Fresh
  <2>4. \A a \in 1..Len(accepted) : accepted[a] # x
    BY <1>5 DEF Contains
  <2>5. \A a, b \in DOMAIN accepted' : accepted'[a] = accepted'[b] => a = b
    BY <1>8, <2>4 DEF Fate, Fresh
  <2> QED
    BY <2>1, <2>3, <2>5 DEF Fresh
<1>11. Committed'
  <2>1. \A i \in DOMAIN machine'.pending : Contains(accepted', machine'.pending[i].operation)
    BY <1>3, <1>4, <1>7, <1>9 DEF Fate, Committed
  <2> QED
    BY <1>2, <1>9, <2>1 DEF Fate, Committed
<1>12. InWireOrder(Append(s, r), accepted')
  <2>1. InWireOrder(Append(s, r), Append(accepted, r.operation))
    BY <1>1, <1>4, <1>5, <1>6, AppendedInOrder DEF Fate, Committed
  <2> QED
    BY <1>2, <1>4, <2>1
<1>13. Live(Append(s, r)) = Live(s) \cup {x}
  BY <1>4, <1>7 DEF Live
<1>14. x \notin Live(s)
  BY <1>5 DEF Live, Holds
<1>15. Counted(published, recovery.operations, Live(Append(s, r)), accepted')
  <2> SUFFICES ASSUME NEW y \in Operations
               PROVE  Len(published[y])
                        + Cardinality({i \in DOMAIN recovery.operations :
                                         recovery.operations[i].operation = y})
                        + (IF y \in Live(Append(s, r)) THEN 1 ELSE 0)
                      = IF Contains(accepted', y) THEN 1 ELSE 0
    BY DEF Counted
  <2> DEFINE c == Cardinality({i \in DOMAIN recovery.operations :
                                 recovery.operations[i].operation = y})
             l == Len(published[y])
  <2>1. l + c + (IF y \in Live(s) THEN 1 ELSE 0) = IF Contains(accepted, y) THEN 1 ELSE 0
    BY DEF Fate, Counted
  <2>2. c = 0 /\ l \in Nat
    <3>1. published \in [Operations -> Seq(Outcomes)] /\ recovery.operations = <<>>
      BY <1>1 DEF TypeOK, Fate, HealthyFate
    <3>2. {i \in DOMAIN recovery.operations : recovery.operations[i].operation = y} = {}
      BY <3>1
    <3> QED
      BY <3>1, <3>2, FS_EmptySet
  <2> HIDE DEF c, l
  <2>3. l + c + (IF y \in Live(Append(s, r)) THEN 1 ELSE 0)
          = IF Contains(accepted', y) THEN 1 ELSE 0
    <3>1. CASE y = x
      BY <1>5, <1>9, <1>13, <1>14, <2>1, <2>2, <3>1
    <3>2. CASE y # x
      BY <1>9, <1>13, <2>1, <3>2
    <3> QED
      BY <3>1, <3>2
  <2> QED
    BY <2>3 DEF c, l
<1>16. Known(Append(s, r), sent, completed)
  <2>1. sent[x] = 0 /\ x \notin completed
    BY <1>5 DEF Fate, Committed
  <2>2. Known(s, sent, completed)
    BY <1>1 DEF Fate, HealthyFate
  <2> QED
    BY <1>4, <1>7, <2>1, <2>2 DEF Known
<1>17. Recoverable(Append(s, r), writes', sent, completed)
  <2>1. /\ Append(s, r) \in Seq(OperationRecord) /\ writes' \in Seq(QueuedWrite)
        /\ Distinct(Append(s, r)) /\ Aligned(Append(s, r), writes')
    BY <1>1, <1>2, <1>3, <1>6 DEF FramesMatch, Matched
  <2> QED
    BY <1>16, <2>1, KnownRecoverable
<1>18. Written(writes', sent)
  <2>1. /\ DOMAIN writes' = 1..(Len(writes) + 1) /\ writes'[Len(writes) + 1] = w
        /\ \A i \in 1..Len(writes) : writes'[i] = writes[i]
        /\ DOMAIN writes = 1..Len(writes) /\ Len(writes) \in Nat
        /\ \A i \in 1..(Len(writes) + 1) : i \in 1..Len(writes) \/ i = Len(writes) + 1
    BY <1>1, <1>2, <1>6
  <2>2. sent[x] = 0
    BY <1>5 DEF Fate, Committed
  <2>3. Written(writes, sent) /\ w.written <= w.wire
    BY <1>1, <1>4, <1>5 DEF Fate, HealthyFate
  <2> QED
    BY <1>4, <2>1, <2>2, <2>3 DEF Written
<1>19. ASSUME machine.phase = "Live"
       PROVE  Passed(Append(s, r), accepted', completed, published)
  <2>1. Passed(s, accepted, completed, published)
    BY <1>1, <1>19 DEF Fate, HealthyFate
  <2>2. \A y : Holds(s, y) => Holds(Append(s, r), y)
    BY <1>7 DEF Holds
  <2>3. Holds(Append(s, r), x)
    BY <1>4, <1>7 DEF Holds
  <2> QED
    BY <1>8, <2>1, <2>2, <2>3 DEF Passed
<1>20. HealthyFate'
  BY <1>1, <1>2, <1>3, <1>16, <1>18, <1>19 DEF Fate, HealthyFate
<1>21. Recovered'
  <2>1. recovery.operations = <<>>
    BY <1>1 DEF Fate, HealthyFate
  <2> QED
    BY <1>2, <2>1 DEF Fate, Recovered, InWireOrder
<1> QED
  BY <1>2, <1>3, <1>10, <1>11, <1>12, <1>15, <1>17, <1>20, <1>21 DEF Fate

(***************************************************************************)
(* Transport progress: n more bytes of the front frame.                    *)
(***************************************************************************)
InFront == writes[1].operation
FrontAt == IndexOf(machine.pending, InFront)
Advanced(n) == IF Crosses(n) THEN WriteStarted(machine, InFront) ELSE machine
SentNow(n) == [sent EXCEPT ![InFront] = @ + n]

LEMMA FrontFacts ==
  ASSUME InOrder, Fate, writes # <<>>
  PROVE  /\ FrontAt \in DOMAIN machine.pending /\ machine.pending[FrontAt].operation = InFront
         /\ machine.pending[FrontAt].writeHeld /\ InFront \in Operations
         /\ Matches(writes[1], machine.pending[FrontAt])
         /\ RecordSound(machine.pending[FrontAt])
         /\ Contains(accepted, InFront) /\ InFront \notin completed
         /\ sent \in [Operations -> Nat] /\ sent[InFront] = writes[1].written
         /\ writes[1].written <= writes[1].wire /\ writes[1] \in QueuedWrite
         /\ \A j \in DOMAIN writes : j # 1 => writes[j].operation # InFront
         /\ \A j \in DOMAIN machine.pending : j < FrontAt => ~machine.pending[j].writeHeld
<1> DEFINE s == machine.pending
           i == FrontAt
<1>1. /\ TypeOK /\ s \in Seq(OperationRecord) /\ Distinct(s) /\ writes \in Seq(QueuedWrite)
      /\ Aligned(s, writes) /\ poisoned = "None" /\ sent \in [Operations -> Nat]
  BY InOrderSound DEF InOrder, FramesMatch, Matched, TypeOK
<1>2. i = IndexOf(s, writes[1].operation)
  BY DEF FrontAt, InFront
<1> HIDE DEF i
<1>3. /\ i \in DOMAIN s /\ s[i].operation = writes[1].operation
      /\ AlignedAt(i - 1, s, writes) /\ s[i].writeHeld /\ Matches(writes[1], s[i])
      /\ RecordSound(s[i]) /\ 1 \in DOMAIN writes
  BY <1>1, <1>2, FrontRecord
<1>4. Known(s, sent, completed) /\ Written(writes, sent) /\ Committed
  BY <1>1 DEF Fate, HealthyFate
<1>5. s[i].operation \in Operations /\ writes[1] \in QueuedWrite
  BY <1>1, <1>3, RecordFields
<1>6. ASSUME NEW j \in DOMAIN writes, j # 1
      PROVE  writes[j].operation # InFront
  <2>1. i - 1 + j \in DOMAIN s /\ i - 1 + 1 \in DOMAIN s /\ DOMAIN writes = 1..Len(writes)
        /\ Len(writes) \in Nat /\ i - 1 \in Nat
    BY <1>1, <1>3, HeldFrom
  <2>2. Matches(writes[j], s[i - 1 + j])
    BY <1>3, <2>1 DEF AlignedAt
  <2>3. i - 1 + j # i /\ i \in Int
    <3>1. i \in 1..Len(s) /\ Len(s) \in Nat
      BY <1>1, <1>3
    <3> QED
      BY <1>6, <2>1, <3>1
  <2> QED
    BY <1>1, <1>3, <2>1, <2>2, <2>3 DEF Matches, Distinct, InFront
<1>7. /\ Contains(accepted, InFront) /\ InFront \notin completed
  BY <1>3, <1>4 DEF Known, Committed, InFront
<1>8. sent[InFront] = writes[1].written /\ writes[1].written <= writes[1].wire
  BY <1>3, <1>4 DEF Written, InFront
<1>9. \A j \in DOMAIN s : j < i => ~s[j].writeHeld
  <2>1. \A j \in DOMAIN s : j < i => j \in 1..(i - 1)
    BY <1>1, <1>3
  <2> QED
    BY <1>3, <2>1 DEF AlignedAt
<1> QED
  BY <1>1, <1>3, <1>5, <1>6, <1>7, <1>8, <1>9 DEF InFront, i

\* The first half of a write: the record knows as much as the transport.
LEMMA AdvancedFate ==
  ASSUME InOrder, Fate, writes # <<>>, NEW n \in Nat,
         NEW c, c = SentNow(n), NEW b, b = Advanced(n).pending
  PROVE  /\ b \in Seq(OperationRecord) /\ DOMAIN b = DOMAIN machine.pending
         /\ \A i \in DOMAIN b : /\ b[i].operation = machine.pending[i].operation
                                /\ b[i].writeHeld = machine.pending[i].writeHeld
                                /\ i # FrontAt => b[i] = machine.pending[i]
         /\ Live(b) = Live(machine.pending) /\ Distinct(b)
         /\ Known(b, c, completed) /\ Truthful(published, c, completed)
         /\ c \in [Operations -> Nat] /\ c[InFront] = writes[1].written + n
         /\ \A x \in Operations : x # InFront => c[x] = sent[x]
<1> DEFINE s == machine.pending
           i == FrontAt
<1>1. /\ TypeOK /\ s \in Seq(OperationRecord) /\ Distinct(s) /\ machine \in Machine
      /\ poisoned = "None" /\ published \in [Operations -> Seq(Outcomes)]
  BY InOrderSound DEF InOrder, TypeOK
<1>2. /\ i \in DOMAIN s /\ s[i].operation = InFront /\ s[i].writeHeld /\ InFront \in Operations
      /\ Matches(writes[1], s[i]) /\ RecordSound(s[i])
      /\ sent \in [Operations -> Nat] /\ sent[InFront] = writes[1].written
      /\ s[i] \in OperationRecord
  BY <1>1, FrontFacts
<1>3. /\ c \in [Operations -> Nat] /\ c[InFront] = sent[InFront] + n
      /\ \A x \in Operations : x # InFront => c[x] = sent[x]
  BY <1>2 DEF SentNow
<1>4. Known(s, sent, completed) /\ Truthful(published, sent, completed)
      /\ Counted(published, <<>>, Live(s), accepted)
  BY <1>1 DEF Fate, HealthyFate
<1> DEFINE r == [s[i] EXCEPT !.delivery = "PossiblySent", !.phase = "Writing"]
<1>5. Crosses(n) => b = [s EXCEPT ![i] = r]
  <2>1. Crosses(n) => b = WriteStarted(machine, InFront).pending
    BY DEF Advanced
  <2>2. WriteStarted(machine, InFront).pending
          = [s EXCEPT ![i] = [RecordOf(machine, InFront) EXCEPT !.delivery = "PossiblySent",
                                                              !.phase = "Writing"]]
    BY <1>1, MarkedPending DEF WriteStarted, FrontAt
  <2>3. RecordOf(machine, InFront) = s[i]
    BY DEF RecordOf, FrontAt
  <2> QED
    BY <2>1, <2>2, <2>3
<1>6. /\ r \in OperationRecord /\ r.operation = InFront /\ r.writeHeld = s[i].writeHeld
      /\ r.delivery = "PossiblySent" /\ r.phase = "Writing"
  BY <1>2 DEF OperationRecord, Deliveries, OperationPhases
<1>7. ~Crosses(n) => b = s
  BY DEF Advanced
<1> HIDE DEF r, i
<1>8. /\ b \in Seq(OperationRecord) /\ DOMAIN b = DOMAIN s
      /\ \A j \in DOMAIN b : /\ b[j].operation = s[j].operation
                             /\ b[j].writeHeld = s[j].writeHeld
                             /\ j # i => b[j] = s[j]
      /\ Crosses(n) => b[i] = r
  <2>1. CASE Crosses(n)
    <3>1. DOMAIN b = DOMAIN s /\ b[i] = r /\ \A j \in DOMAIN s : j # i => b[j] = s[j]
      BY <1>2, <1>5, <2>1
    <3>2. b \in Seq(OperationRecord)
      <4>1. s \in Seq(OperationRecord) /\ i \in DOMAIN s /\ r \in OperationRecord
        BY <1>1, <1>2, <1>6
      <4> HIDE DEF s
      <4>2. [s EXCEPT ![i] = r] \in Seq(OperationRecord)
        BY <4>1
      <4> QED
        BY <1>5, <2>1, <4>2
    <3> QED
      BY <1>2, <1>6, <3>1, <3>2
  <2>2. CASE ~Crosses(n)
    BY <1>1, <1>7, <2>2
  <2> QED
    BY <2>1, <2>2
<1>9. Distinct(b)
  BY <1>1, <1>8 DEF Distinct
<1>10. Live(b) = Live(s)
  <2>1. CASE Crosses(n)
    <3>1. ~writes[1].started
      BY <2>1 DEF Crosses
    <3>2. s[i].phase # "Terminal"
      BY <1>2, <3>1 DEF Matches, RecordSound
    <3>3. s \in Seq(OperationRecord) /\ Distinct(s) /\ i \in DOMAIN s
          /\ r \in OperationRecord /\ r.operation = s[i].operation /\ r.phase # "Terminal"
      BY <1>1, <1>2, <1>6
    <3> HIDE DEF s
    <3>4. Live([s EXCEPT ![i] = r]) = Live(s)
      BY <3>2, <3>3, LiveMarked
    <3> QED
      BY <1>5, <2>1, <3>4
  <2>2. CASE ~Crosses(n)
    BY <1>7, <2>2
  <2> QED
    BY <2>1, <2>2
<1>11. b[i].delivery = "NotSent" <=> c[InFront] = 0
  <2>1. sent[InFront] \in Nat /\ (s[i].delivery = "NotSent" <=> sent[InFront] = 0)
    BY <1>2, <1>4 DEF Known
  <2>2. CASE Crosses(n)
    BY <1>3, <1>6, <1>8, <2>1, <2>2 DEF Crosses
  <2>3. CASE ~Crosses(n)
    <3>1. b[i] = s[i] /\ (n = 0 \/ writes[1].started)
      BY <1>7, <2>3 DEF Crosses
    <3>2. writes[1].started => s[i].delivery = "PossiblySent"
      BY <1>2 DEF Matches
    <3> QED
      BY <1>3, <2>1, <3>1, <3>2
  <2> QED
    BY <2>2, <2>3
<1>12. Known(b, c, completed)
  <2> SUFFICES ASSUME NEW j \in DOMAIN b
               PROVE  /\ b[j].delivery = "NotSent" <=> c[b[j].operation] = 0
                      /\ b[j].writeHeld <=> b[j].operation \notin completed
    BY DEF Known
  <2>1. b[j].writeHeld <=> b[j].operation \notin completed
    BY <1>4, <1>8 DEF Known
  <2>2. CASE j = i
    BY <1>2, <1>8, <1>11, <2>1, <2>2
  <2>3. CASE j # i
    <3>1. b[j] = s[j] /\ s[j].operation \in Operations /\ j \in DOMAIN s
      BY <1>1, <1>8, <2>3, RecordFields
    <3>2. s[j].operation # InFront
      BY <1>1, <1>2, <2>3, <3>1 DEF Distinct
    <3> QED
      BY <1>3, <1>4, <2>1, <3>1, <3>2 DEF Known
  <2> QED
    BY <2>2, <2>3
<1>13. Truthful(published, c, completed)
  <2> SUFFICES ASSUME NEW x \in Operations, NEW j \in DOMAIN published[x]
               PROVE  /\ published[x][j].delivery = "NotSent" <=> c[x] = 0
                      /\ published[x][j].kind \in {"Reply", "WriteComplete"} => x \in completed
    BY DEF Truthful
  <2>1. /\ published[x][j].delivery = "NotSent" <=> sent[x] = 0
        /\ published[x][j].kind \in {"Reply", "WriteComplete"} => x \in completed
    BY <1>4 DEF Truthful
  <2>2. CASE x # InFront
    BY <1>3, <2>1, <2>2
  <2>3. CASE x = InFront
    <3>1. s[i].phase = "Terminal"
      <4> SUFFICES ASSUME s[i].phase # "Terminal" PROVE FALSE
        OBVIOUS
      <4>1. x \in Live(s)
        BY <1>2, <2>3 DEF Live
      <4> DEFINE k == Cardinality({h \in DOMAIN <<>> : <<>>[h].operation = x})
                 l == Len(published[x])
      <4>2. k = 0
        <5>1. {h \in DOMAIN <<>> : <<>>[h].operation = x} = {}
          OBVIOUS
        <5> QED
          BY <5>1, FS_EmptySet
      <4>3. l + k + 1 = 0 \/ l + k + 1 = 1
        BY <1>4, <4>1 DEF Counted
      <4>4. l \in Nat /\ j \in 1..l
        BY <1>1
      <4> HIDE DEF k, l
      <4> QED
        BY <4>2, <4>3, <4>4
    <3>2. sent[InFront] # 0
      BY <1>2, <1>4, <3>1 DEF RecordSound, Known
    <3>3. c[InFront] # 0
      BY <1>2, <1>3, <3>2
    <3> QED
      BY <2>1, <2>3, <3>2, <3>3
  <2> QED
    BY <2>2, <2>3
<1> QED
  BY <1>2, <1>3, <1>8, <1>9, <1>10, <1>12, <1>13 DEF i

\* What every report leaves alone.
LEMMA SentCommitted ==
  ASSUME InOrder, Fate, writes # <<>>, NEW n \in Nat, CountSent(writes[1].operation, n)
  PROVE  /\ sent' = SentNow(n)
         /\ \A x \in Operations : ~Contains(accepted, x) => sent'[x] = 0 /\ x # InFront
<1>1. /\ InFront \in Operations /\ Contains(accepted, InFront) /\ sent \in [Operations -> Nat]
  BY FrontFacts
<1>2. sent' = SentNow(n)
  BY <1>1 DEF CountSent, SentNow, InFront
<1>3. \A x \in Operations : x # InFront => sent'[x] = sent[x]
  BY <1>1, <1>2 DEF SentNow
<1> QED
  BY <1>1, <1>2, <1>3 DEF Fate, Committed

LEMMA OverReportFate ==
  ASSUME InOrder, Fate, NEW n \in 0..MaxReported, OverReport(n)
  PROVE  Fate'
<1> DEFINE s == machine.pending
<1>1. /\ TypeOK /\ s \in Seq(OperationRecord) /\ Distinct(s) /\ writes \in Seq(QueuedWrite)
      /\ Aligned(s, writes) /\ poisoned = "None" /\ n \in Nat
  BY InOrderSound, CoreAssumption DEF InOrder, FramesMatch, Matched
<1>2. /\ writes # <<>> /\ n > FrontRemaining
      /\ writes' = [writes EXCEPT ![1].started = @ \/ n > 0]
      /\ poisoned' = "WriteProgressContract" /\ journal' = ArmedJournal
      /\ CountSent(writes[1].operation, n)
      /\ UNCHANGED <<machine, permits, accepted, completed, published, recovery>>
  BY DEF OverReport, WritePending
<1>3. /\ sent \in [Operations -> Nat] /\ writes[1].written <= writes[1].wire
      /\ writes[1] \in QueuedWrite
  BY <1>2, FrontFacts
<1>4. n > 0
  <2>1. writes[1].written \in Nat /\ writes[1].wire \in Nat
    BY <1>3, QueuedWriteFields
  <2> QED
    BY <1>1, <1>2, <1>3, <2>1 DEF FrontRemaining
<1>5. /\ sent' = SentNow(n)
      /\ \A x \in Operations : ~Contains(accepted, x) => sent'[x] = 0
  BY <1>1, <1>2, SentCommitted
<1>6. Truthful(published, sent', completed)
  BY <1>1, <1>2, <1>5, AdvancedFate
<1>7. Recoverable(s, writes', sent', completed)
  <2>1. sent' = [sent EXCEPT ![writes[1].operation] = @ + n]
    BY <1>5 DEF SentNow, InFront
  <2>2. Recoverable(s, writes, sent, completed)
    BY DEF Fate
  <2> HIDE DEF s
  <2> QED
    BY <1>1, <1>2, <1>3, <1>4, <2>1, <2>2, OverReportedRecoverable
<1>8. Committed'
  BY <1>2, <1>5 DEF Fate, Committed
<1>9. Fresh' /\ journal'.operations = <<>> /\ journal'.writes = <<>>
  BY <1>2 DEF Fate, Fresh, ArmedJournal, EmptyJournal
<1>10. Recovered'
  <2>1. recovery.operations = <<>>
    BY <1>1 DEF Fate, HealthyFate
  <2> QED
    BY <1>2, <2>1 DEF Fate, Recovered, InWireOrder
<1> QED
  BY <1>2, <1>6, <1>7, <1>8, <1>9, <1>10 DEF Fate

LEMMA PartialFate ==
  ASSUME InOrder, Fate, FramesMatch', TypeOK', NEW n \in 0..MaxReported, PartialWrite(n)
  PROVE  Fate'
<1> DEFINE s == machine.pending
           b == Advanced(n).pending
<1>1. /\ TypeOK /\ s \in Seq(OperationRecord) /\ writes \in Seq(QueuedWrite)
      /\ machine \in Machine /\ Books(machine, permits)
      /\ poisoned = "None" /\ n \in Nat
  BY InOrderSound, CoreAssumption DEF InOrder
<1>2. /\ writes # <<>> /\ n < FrontRemaining
      /\ writes' = [writes EXCEPT ![1] = Progressed(n)]
      /\ CountSent(writes[1].operation, n)
      /\ UNCHANGED <<permits, accepted, completed, published, recovery>>
  BY DEF PartialWrite, WritePending
<1>3. /\ poisoned' = "None" /\ journal' = EmptyJournal /\ machine' = Advanced(n)
  BY PartialOwns DEF Advanced, InFront
<1>4. /\ writes[1] \in QueuedWrite /\ writes[1].written \in Nat /\ writes[1].wire \in Nat
      /\ \A j \in DOMAIN writes : j # 1 => writes[j].operation # InFront
  BY <1>2, FrontFacts, QueuedWriteFields
<1>5. /\ sent' = SentNow(n)
      /\ \A x \in Operations : ~Contains(accepted, x) => sent'[x] = 0
  BY <1>1, <1>2, SentCommitted
<1>6. /\ b \in Seq(OperationRecord) /\ DOMAIN b = DOMAIN s
      /\ \A i \in DOMAIN b : b[i].operation = s[i].operation
      /\ Live(b) = Live(s) /\ Distinct(b)
      /\ Known(b, sent', completed) /\ Truthful(published, sent', completed)
      /\ sent' \in [Operations -> Nat] /\ sent'[InFront] = writes[1].written + n
      /\ \A x \in Operations : x # InFront => sent'[x] = sent[x]
  BY <1>1, <1>2, <1>5, AdvancedFate
<1>7. machine'.phase = machine.phase /\ machine'.nextOperation = machine.nextOperation
  BY <1>1, <1>3 DEF Advanced, WriteStarted, SetRecord, Machine
<1>8. machine'.pending = b
  BY <1>3
<1> HIDE DEF b
<1>9. Fresh' /\ journal'.operations = <<>> /\ journal'.writes = <<>>
  BY <1>2, <1>3, <1>7 DEF Fate, Fresh, EmptyJournal
<1>10. Committed'
  <2>1. \A i \in DOMAIN b : Contains(accepted, b[i].operation)
    BY <1>6 DEF Fate, Committed
  <2> QED
    BY <1>2, <1>5, <1>8, <2>1 DEF Fate, Committed
<1>11. InWireOrder(b, accepted)
  BY <1>6, SameInOrder DEF Fate
<1>12. Recoverable(b, writes', sent', completed)
  <2>1. writes' \in Seq(QueuedWrite) /\ Aligned(b, writes')
    BY <1>8 DEF TypeOK, FramesMatch, Matched
  <2> QED
    BY <1>6, <2>1, KnownRecoverable
<1>13. Written(writes', sent')
  <2>1. Written(writes, sent)
    BY <1>1 DEF Fate, HealthyFate
  <2>2. /\ DOMAIN writes' = DOMAIN writes /\ 1 \in DOMAIN writes /\ writes'[1] = Progressed(n)
        /\ \A j \in DOMAIN writes : j # 1 => writes'[j] = writes[j]
    BY <1>1, <1>2
  <2>3. /\ Progressed(n).operation = InFront /\ Progressed(n).written = writes[1].written + n
        /\ Progressed(n).wire = writes[1].wire
    BY <1>4 DEF Progressed, InFront, QueuedWrite
  <2>4. writes[1].written + n <= writes[1].wire
    BY <1>1, <1>2, <1>4 DEF FrontRemaining
  <2>5. \A j \in DOMAIN writes : writes[j].operation \in Operations
    <3>1. \A j \in DOMAIN writes : \E i \in DOMAIN s : FrameFor(s[i], writes[j])
      BY DEF Fate, Recoverable
    <3> QED
      BY <1>1, <3>1, RecordFields DEF FrameFor
  <2> SUFFICES ASSUME NEW j \in DOMAIN writes'
               PROVE  /\ writes'[j].written <= writes'[j].wire
                      /\ sent'[writes'[j].operation] = writes'[j].written
    BY DEF Written
  <2>6. CASE j = 1
    BY <1>6, <2>2, <2>3, <2>4, <2>6
  <2>7. CASE j # 1
    BY <1>4, <1>6, <2>1, <2>2, <2>5, <2>7 DEF Written
  <2> QED
    BY <2>6, <2>7
<1>14. ASSUME machine'.phase = "Live" PROVE Passed(b, accepted, completed, published)
  <2>1. Passed(s, accepted, completed, published)
    BY <1>1, <1>7, <1>14 DEF Fate, HealthyFate
  <2>2. \A x : Holds(s, x) => Holds(b, x)
    BY <1>6 DEF Holds
  <2> QED
    BY <2>1, <2>2 DEF Passed
<1>15. recovery.operations = <<>>
  BY <1>1 DEF Fate, HealthyFate
<1>16. HealthyFate'
  BY <1>2, <1>6, <1>8, <1>13, <1>14, <1>15 DEF HealthyFate
<1>17. Recovered'
  BY <1>2, <1>15 DEF Fate, Recovered, InWireOrder
<1>18. Counted(published, recovery.operations, Live(b), accepted)
  BY <1>6 DEF Fate
<1> QED
  BY <1>2, <1>6, <1>8, <1>9, <1>10, <1>11, <1>12, <1>16, <1>17, <1>18 DEF Fate

LEMMA RemovedSame ==
  ASSUME NEW T, NEW b, b \in Seq(T), NEW o, o \in Seq(T), NEW i, i \in DOMAIN b,
         DOMAIN o = DOMAIN b, \A j \in DOMAIN b : j # i => o[j] = b[j]
  PROVE  /\ RemoveAt(o, i) = RemoveAt(b, i)
         /\ DOMAIN RemoveAt(b, i) = 1..(Len(b) - 1) /\ RemoveAt(b, i) \in Seq(T)
         /\ \A j \in 1..(Len(b) - 1) : RemoveAt(b, i)[j] = IF j < i THEN b[j] ELSE b[j + 1]
         /\ \A k \in DOMAIN b : k # i => \E j \in 1..(Len(b) - 1) : RemoveAt(b, i)[j] = b[k]
<1> DEFINE u == RemoveAt(o, i)
           q == RemoveAt(b, i)
<1>1. Len(o) = Len(b) /\ Len(b) \in Nat /\ i \in 1..Len(b) /\ DOMAIN b = 1..Len(b)
  OBVIOUS
<1>2. /\ DOMAIN q = 1..(Len(b) - 1)
      /\ \A j \in 1..(Len(b) - 1) : q[j] = IF j < i THEN b[j] ELSE b[j + 1]
      /\ \A k \in DOMAIN b : k # i => \E j \in 1..(Len(b) - 1) : q[j] = b[k]
  BY RemoveAtItems
<1>3. q \in Seq(T)
  BY RemoveAtType
<1>4. i \in DOMAIN o
  OBVIOUS
<1>5. /\ DOMAIN u = 1..(Len(o) - 1)
      /\ \A j \in 1..(Len(o) - 1) : u[j] = IF j < i THEN o[j] ELSE o[j + 1]
  BY <1>4, RemoveAtItems
<1>6. u \in Seq(T)
  BY <1>4, RemoveAtType
<1> HIDE DEF u, q
<1>7. \A j \in 1..(Len(b) - 1) : u[j] = q[j]
  <2> SUFFICES ASSUME NEW j \in 1..(Len(b) - 1) PROVE u[j] = q[j]
    OBVIOUS
  <2>1. CASE j < i
    <3>1. j # i /\ j \in DOMAIN b
      BY <1>1, <2>1
    <3> QED
      BY <1>1, <1>2, <1>5, <2>1, <3>1
  <2>2. CASE ~(j < i)
    <3>1. j + 1 # i /\ j + 1 \in DOMAIN b
      BY <1>1, <2>2
    <3> QED
      BY <1>1, <1>2, <1>5, <2>2, <3>1
  <2> QED
    BY <2>1, <2>2
<1>8. u = q
  BY <1>1, <1>2, <1>3, <1>5, <1>6, <1>7
<1> QED
  BY <1>2, <1>3, <1>8 DEF u, q

\* A record of b whose frame is out, the others as they were.
FrameOut(o, b, i) ==
  /\ o \in Seq(OperationRecord) /\ DOMAIN o = DOMAIN b
  /\ o[i].operation = b[i].operation /\ o[i].phase = b[i].phase
  /\ o[i].delivery = b[i].delivery /\ ~o[i].writeHeld
  /\ \A j \in DOMAIN b : j # i => o[j] = b[j]

\* What the policy keeps, and tells, as record i of b gives up its frame.
LeavesAs(o, b, i, t) ==
  LET q == t.machine.pending
  IN  /\ Tells(o, t.publish, q) /\ Distinct(q)
      /\ Live(o) = Live(b) /\ q \in Seq(OperationRecord)
      /\ \A x \in t.publish : x.operation = b[i].operation
      /\ \A k \in DOMAIN q : \E j \in DOMAIN b :
           /\ q[k].operation = b[j].operation
           /\ q[k].delivery = b[j].delivery
           /\ q[k].writeHeld = (b[j].writeHeld /\ j # i)
      /\ \A j \in DOMAIN b : j # i => Holds(q, b[j].operation)
      /\ \A order : InWireOrder(b, order) => InWireOrder(q, order)

\* The second half of the last write: the frame is out, its record waits for a
\* reply or is gone and told.
LEMMA LeftTells ==
  ASSUME NEW m \in Machine, NEW b, b = m.pending, Distinct(b),
         NEW i \in DOMAIN b, NEW t, (\E r : Waits(m, t, i, r)) \/ Ended(m, t, i),
         NEW o, FrameOut(o, b, i)
  PROVE  LeavesAs(o, b, i, t)
<1>0. /\ o \in Seq(OperationRecord) /\ DOMAIN o = DOMAIN b
      /\ o[i].operation = b[i].operation /\ o[i].phase = b[i].phase
      /\ o[i].delivery = b[i].delivery /\ ~o[i].writeHeld
      /\ \A j \in DOMAIN b : j # i => o[j] = b[j]
  BY DEF FrameOut
<1> DEFINE q == t.machine.pending
           Goal == /\ Tells(o, t.publish, q) /\ Distinct(q) /\ q \in Seq(OperationRecord)
                   /\ \A y \in t.publish : y.operation = b[i].operation
                   /\ \A k \in DOMAIN q : \E j \in DOMAIN b :
                        /\ q[k].operation = b[j].operation
                        /\ q[k].delivery = b[j].delivery
                        /\ q[k].writeHeld = (b[j].writeHeld /\ j # i)
                   /\ \A j \in DOMAIN b : j # i => Holds(q, b[j].operation)
                   /\ \A order : InWireOrder(b, order) => InWireOrder(q, order)
<1>1. /\ b \in Seq(OperationRecord) /\ b[i] \in OperationRecord
  BY MachineFields
<1>4. Live(o) = Live(b) /\ Distinct(o)
  <2>1. o[i] \in OperationRecord
    BY <1>0
  <2>2. o = [b EXCEPT ![i] = o[i]]
    BY <1>0, <1>1
  <2>3. Live([b EXCEPT ![i] = o[i]]) = Live(b)
    BY <1>0, <1>1, <2>1, LiveMarked
  <2>4. \A j \in DOMAIN o : o[j].operation = b[j].operation
    BY <1>0
  <2>5. Distinct(o)
    BY <1>0, <2>4 DEF Distinct
  <2> QED
    BY <2>2, <2>3, <2>5
<1>5. ASSUME NEW r, Waits(m, t, i, r) PROVE Goal
  <2>1. /\ r \in OperationRecord /\ r.operation = b[i].operation
        /\ r.delivery = b[i].delivery /\ ~r.writeHeld
        /\ r.phase = "Terminal" <=> b[i].phase = "Terminal"
        /\ q = [b EXCEPT ![i] = r] /\ t.publish = {}
    BY <1>5 DEF Waits
  <2>2. [b EXCEPT ![i] = r] \in Seq(OperationRecord) /\ Live([b EXCEPT ![i] = r]) = Live(b)
    BY <1>1, <2>1, LiveMarked
  <2>3. /\ DOMAIN q = DOMAIN b /\ q[i] = r /\ \A j \in DOMAIN b : j # i => q[j] = b[j]
        /\ q \in Seq(OperationRecord) /\ Live(q) = Live(b)
    BY <1>1, <2>1, <2>2
  <2> HIDE DEF q
  <2>4. Tells(o, t.publish, q)
    BY <1>4, <2>1, <2>3 DEF Tells
  <2>5. \A j \in DOMAIN b : q[j].operation = b[j].operation /\ q[j].delivery = b[j].delivery
    BY <2>1, <2>3
  <2>6. \A j \in DOMAIN b : q[j].writeHeld = (b[j].writeHeld /\ j # i)
    <3>1. \A j \in DOMAIN b : b[j].writeHeld \in BOOLEAN
      BY <1>1, RecordFields
    <3>2. r.writeHeld = FALSE
      BY <2>1, RecordFields
    <3> QED
      BY <2>3, <3>1, <3>2
  <2>7. \A order : InWireOrder(b, order) => InWireOrder(q, order)
    BY <2>3, <2>5, SameInOrder
  <2>8. Distinct(q)
    BY <2>3, <2>5 DEF Distinct
  <2> QED
    BY <2>1, <2>3, <2>4, <2>5, <2>6, <2>7, <2>8 DEF Holds
<1>6. ASSUME Ended(m, t, i) PROVE Goal
  <2> DEFINE x == Outcome(b[i].operation, "WriteComplete", b[i].delivery, 0)
  <2>1. q = RemoveAt(b, i) /\ t.publish = IF b[i].phase = "Terminal" THEN {} ELSE {x}
    BY <1>6 DEF Ended
  <2>2. x.operation = b[i].operation /\ x.delivery = b[i].delivery
    BY DEF Outcome
  <2> HIDE DEF x, q
  <2>3. /\ DOMAIN q = 1..(Len(b) - 1) /\ q \in Seq(OperationRecord)
        /\ \A j \in 1..(Len(b) - 1) : q[j] = IF j < i THEN b[j] ELSE b[j + 1]
        /\ \A k \in DOMAIN b : k # i => \E j \in 1..(Len(b) - 1) : q[j] = b[k]
    <3>1. /\ DOMAIN RemoveAt(b, i) = 1..(Len(b) - 1) /\ RemoveAt(b, i) \in Seq(OperationRecord)
          /\ \A j \in 1..(Len(b) - 1) : RemoveAt(b, i)[j] = IF j < i THEN b[j] ELSE b[j + 1]
          /\ \A k \in DOMAIN b : k # i => \E j \in 1..(Len(b) - 1) : RemoveAt(b, i)[j] = b[k]
      <4>1. DOMAIN RemoveAt(b, i) = 1..(Len(b) - 1)
        BY <1>0, <1>1, RemovedSame
      <4>2. RemoveAt(b, i) \in Seq(OperationRecord)
        BY <1>0, <1>1, RemovedSame
      <4>3. \A j \in 1..(Len(b) - 1) : RemoveAt(b, i)[j] = IF j < i THEN b[j] ELSE b[j + 1]
        BY <1>0, <1>1, RemovedSame
      <4>4. \A k \in DOMAIN b : k # i => \E j \in 1..(Len(b) - 1) : RemoveAt(b, i)[j] = b[k]
        <5> SUFFICES ASSUME NEW k \in DOMAIN b, k # i
                     PROVE  \E j \in 1..(Len(b) - 1) : RemoveAt(b, i)[j] = b[k]
          OBVIOUS
        <5>1. k < i => k \in 1..(Len(b) - 1)
          BY <1>1
        <5>2. ~(k < i) => k - 1 \in 1..(Len(b) - 1) /\ ~(k - 1 < i) /\ (k - 1) + 1 = k
          BY <1>1
        <5> QED
          BY <4>3, <5>1, <5>2
      <4> QED
        BY <4>1, <4>2, <4>3, <4>4
    <3> QED
      BY <2>1, <3>1
  <2>4. RemoveAt(o, i) = q
    <3>1. RemoveAt(o, i) = RemoveAt(b, i)
      BY <1>0, <1>1, RemovedSame
    <3> QED
      BY <2>1, <3>1
  <2>5. Tells(o, t.publish, q)
    <3>1. o \in Seq(OperationRecord) /\ Distinct(o) /\ i \in DOMAIN o
          /\ o[i].operation = b[i].operation /\ o[i].delivery = b[i].delivery
          /\ o[i].phase = b[i].phase /\ ~o[i].writeHeld
      BY <1>0, <1>4
    <3>2. Tells(o, t.publish, RemoveAt(o, i))
      BY <2>1, <2>2, <3>1, RemovedTells
    <3> QED
      BY <2>4, <3>2
  <2>6. \A k \in DOMAIN q : \E j \in DOMAIN b : q[k] = b[j] /\ j # i
    <3>1. \A k \in 1..(Len(b) - 1) : /\ k \in DOMAIN b /\ k + 1 \in DOMAIN b
                                     /\ k < i => k # i
                                     /\ ~(k < i) => k + 1 # i
      BY <1>1
    <3> QED
      BY <2>3, <3>1
  <2>7. Distinct(q)
    BY <1>1, <2>1, RemovedRecord
  <2>8. \A order : InWireOrder(b, order) => InWireOrder(q, order)
    BY <1>1, <2>1, RemovedInOrder
  <2>9. \A j \in DOMAIN b : j # i => Holds(q, b[j].operation)
    BY <2>3 DEF Holds
  <2>10. \A j \in DOMAIN b : b[j].writeHeld \in BOOLEAN
    BY <1>1, RecordFields
  <2>11. \A k \in DOMAIN q : \E j \in DOMAIN b :
           /\ q[k].operation = b[j].operation
           /\ q[k].delivery = b[j].delivery
           /\ q[k].writeHeld = (b[j].writeHeld /\ j # i)
    BY <2>6, <2>10
  <2> QED
    BY <2>1, <2>2, <2>3, <2>5, <2>7, <2>8, <2>9, <2>11
<1>7. Goal
  BY <1>5, <1>6
<1> QED
  BY <1>4, <1>7 DEF LeavesAs

LEMMA FrameOutExists ==
  ASSUME NEW b \in Seq(OperationRecord), NEW i \in DOMAIN b
  PROVE  \E o : FrameOut(o, b, i)
<1> DEFINE e == [b[i] EXCEPT !.writeHeld = FALSE]
           o == [b EXCEPT ![i] = e]
<1>1. b[i] \in OperationRecord
  OBVIOUS
<1>2. /\ e \in OperationRecord /\ e.operation = b[i].operation /\ e.phase = b[i].phase
      /\ e.delivery = b[i].delivery /\ ~e.writeHeld
  BY <1>1 DEF OperationRecord
<1> HIDE DEF e
<1>3. o \in Seq(OperationRecord)
  BY <1>2
<1>4. DOMAIN o = DOMAIN b /\ o[i] = e /\ \A j \in DOMAIN b : j # i => o[j] = b[j]
  OBVIOUS
<1> HIDE DEF o
<1>5. FrameOut(o, b, i)
  BY <1>2, <1>3, <1>4 DEF FrameOut
<1> QED
  BY <1>5

LEMMA CompletedFate ==
  ASSUME InOrder, Fate, FramesMatch', TypeOK', NEW n \in 0..MaxReported, CompleteWrite(n)
  PROVE  /\ Fate'
         /\ Live(machine'.pending) \in {Live(machine.pending), Live(machine.pending) \ {InFront}}
<1> DEFINE s == machine.pending
           base == Advanced(n)
           b == base.pending
           i == FrontAt
           t == OnWriteCompleted(base, InFront)
           q == t.machine.pending
           done == completed \cup {InFront}
<1>1. /\ TypeOK /\ s \in Seq(OperationRecord) /\ writes \in Seq(QueuedWrite) /\ Distinct(s)
      /\ machine \in Machine /\ n \in Nat /\ poisoned = "None"
      /\ published \in [Operations -> Seq(Outcomes)] /\ accepted \in Seq(Operations)
  BY InOrderSound, CoreAssumption DEF InOrder, TypeOK
<1>2. /\ writes # <<>> /\ CountSent(writes[1].operation, n)
      /\ UNCHANGED <<permits, accepted, recovery>>
  BY DEF CompleteWrite, WritePending
<1>3. /\ base \in Machine /\ Holds(b, InFront)
      /\ machine' = t.machine /\ writes' = Tail(writes) /\ completed' = done
      /\ poisoned' = "None" /\ journal' = EmptyJournal /\ Emit(t)
  BY CompleteOwns DEF Completed, Advanced, InFront
<1>4. /\ i \in DOMAIN s /\ s[i].operation = InFront /\ s[i].writeHeld /\ InFront \in Operations
      /\ InFront \notin completed /\ Contains(accepted, InFront)
      /\ \A j \in DOMAIN writes : j # 1 => writes[j].operation # InFront
  BY <1>2, FrontFacts
<1>5. /\ sent' = SentNow(n)
      /\ \A x \in Operations : ~Contains(accepted, x) => sent'[x] = 0 /\ x # InFront
  BY <1>1, <1>2, SentCommitted
<1>6. /\ b \in Seq(OperationRecord) /\ DOMAIN b = DOMAIN s
      /\ \A j \in DOMAIN b : b[j].operation = s[j].operation
      /\ Live(b) = Live(s) /\ Distinct(b)
      /\ Known(b, sent', completed) /\ Truthful(published, sent', completed)
      /\ \A x \in Operations : x # InFront => sent'[x] = sent[x]
  BY <1>1, <1>2, <1>5, AdvancedFate
<1>7. base.phase = machine.phase /\ base.nextOperation = machine.nextOperation
  BY <1>1 DEF Advanced, WriteStarted, SetRecord, Machine
<1>8. i = IndexOf(b, InFront)
  <2>1. IndexOf(b, InFront) \in DOMAIN b /\ b[IndexOf(b, InFront)].operation = InFront
    BY <1>3, IndexOfType
  <2> QED
    BY <1>4, <1>6, <2>1 DEF Distinct
<1>9. /\ (\E r : Waits(base, t, i, r)) \/ Ended(base, t, i)
      /\ Spares(base, t)
  BY <1>3, <1>8, OnWriteCompletedLeaves
<1>10. t \in Transitions /\ t.publish \in SUBSET Outcomes
  BY <1>3, OnWriteCompletedType, TransitionFields
<1>11. i \in DOMAIN b
  BY <1>4, <1>6
<1>12. PICK o : FrameOut(o, b, i)
  BY <1>6, <1>11, FrameOutExists
<1>13. /\ Tells(o, t.publish, q) /\ Distinct(q) /\ Live(o) = Live(b)
       /\ q \in Seq(OperationRecord)
       /\ \A x \in t.publish : x.operation = b[i].operation
       /\ \A k \in DOMAIN q : \E j \in DOMAIN b :
            /\ q[k].operation = b[j].operation
            /\ q[k].delivery = b[j].delivery
            /\ q[k].writeHeld = (b[j].writeHeld /\ j # i)
       /\ \A j \in DOMAIN b : j # i => Holds(q, b[j].operation)
       /\ InWireOrder(b, accepted) => InWireOrder(q, accepted)
  <2>1. base \in Machine /\ b = base.pending /\ Distinct(b) /\ i \in DOMAIN b
    BY <1>3, <1>6, <1>11
  <2>2. (\E r : Waits(base, t, i, r)) \/ Ended(base, t, i)
    BY <1>9
  <2> HIDE DEF base, b, t, i
  <2>3. LeavesAs(o, b, i, t)
    BY <1>12, <2>1, <2>2, LeftTells
  <2> QED
    BY <2>3 DEF LeavesAs
<1> HIDE DEF base, b, i, t, q
<1>14. \A j \in DOMAIN b : j # i => b[j].operation # InFront
  BY <1>4, <1>6, <1>11 DEF Distinct
<1>15. Known(o, sent', done)
  <2> SUFFICES ASSUME NEW j \in DOMAIN b
               PROVE  /\ o[j].delivery = "NotSent" <=> sent'[o[j].operation] = 0
                      /\ o[j].writeHeld <=> o[j].operation \notin done
    BY <1>12 DEF Known, FrameOut
  <2>1. /\ b[j].delivery = "NotSent" <=> sent'[b[j].operation] = 0
        /\ b[j].writeHeld <=> b[j].operation \notin completed
    BY <1>6 DEF Known
  <2>2. CASE j = i
    BY <1>4, <1>6, <1>11, <1>12, <2>1, <2>2 DEF FrameOut
  <2>3. CASE j # i
    BY <1>12, <1>14, <2>1, <2>3 DEF FrameOut
  <2> QED
    BY <2>2, <2>3
<1>16. Known(q, sent', done)
  <2> SUFFICES ASSUME NEW k \in DOMAIN q
               PROVE  /\ q[k].delivery = "NotSent" <=> sent'[q[k].operation] = 0
                      /\ q[k].writeHeld <=> q[k].operation \notin done
    BY DEF Known
  <2>1. PICK j \in DOMAIN b : /\ q[k].operation = b[j].operation
                              /\ q[k].delivery = b[j].delivery
                              /\ q[k].writeHeld = (b[j].writeHeld /\ j # i)
    BY <1>13
  <2>2. /\ b[j].delivery = "NotSent" <=> sent'[b[j].operation] = 0
        /\ b[j].writeHeld <=> b[j].operation \notin completed
    BY <1>6 DEF Known
  <2>3. j = i => b[j].operation = InFront
    BY <1>4, <1>6
  <2> QED
    BY <1>14, <2>1, <2>2, <2>3
<1>17. \A x \in Operations : \/ ToldNow(x, t.publish, Live(o), Live(q))
                             \/ ToldNothing(x, Live(o), Live(q))
  BY <1>3, <1>13, EmitTold
<1>18. recovery.operations = <<>>
  BY <1>1 DEF Fate, HealthyFate
<1>19. Counted(published', recovery'.operations, Live(q), accepted')
  <2>1. Counted(published, <<>>, Live(o), accepted)
    BY <1>6, <1>13, <1>18 DEF Fate
  <2>2. Counted(published', <<>>, Live(q), accepted)
    BY <1>1, <1>10, <1>17, <2>1, EmitCounts
  <2> QED
    BY <1>2, <1>18, <2>2
<1>20. Truthful(published', sent', done)
  <2>1. Truthful(published, sent', done)
    BY <1>6 DEF Truthful
  <2> QED
    BY <1>1, <1>10, <1>13, <1>15, <1>17, <2>1, EmitTruthful
<1>21. machine'.pending = q
  BY <1>3 DEF q
<1>22. InWireOrder(q, accepted)
  <2>1. InWireOrder(b, accepted)
    BY <1>6, SameInOrder DEF Fate
  <2> QED
    BY <1>13, <2>1
<1>23. Fresh' /\ journal'.operations = <<>> /\ journal'.writes = <<>>
  <2>1. machine'.nextOperation = machine.nextOperation
    BY <1>3, <1>7, <1>9 DEF Spares
  <2> QED
    BY <1>2, <1>3, <2>1 DEF Fate, Fresh, EmptyJournal
<1>24. Committed'
  <2>1. \A k \in DOMAIN q : Contains(accepted, q[k].operation)
    BY <1>6, <1>13 DEF Fate, Committed
  <2> QED
    BY <1>2, <1>3, <1>5, <1>21, <2>1 DEF Fate, Committed
<1>25. Recoverable(q, writes', sent', done)
  <2>1. writes' \in Seq(QueuedWrite) /\ Aligned(q, writes')
    BY <1>21 DEF TypeOK, FramesMatch, Matched
  <2> QED
    BY <1>13, <1>16, <2>1, KnownRecoverable
<1>26. Written(writes', sent')
  <2>1. Written(writes, sent)
    BY <1>1 DEF Fate, HealthyFate
  <2>2. \A j \in DOMAIN writes' : /\ j + 1 \in DOMAIN writes /\ j + 1 # 1
                                  /\ writes'[j] = writes[j + 1]
    BY <1>1, <1>2, <1>3
  <2>3. \A j \in DOMAIN writes : writes[j].operation \in Operations
    <3>1. \A j \in DOMAIN writes : \E k \in DOMAIN s : FrameFor(s[k], writes[j])
      BY DEF Fate, Recoverable
    <3>2. \A k \in DOMAIN s : s[k].operation \in Operations
      BY <1>1, RecordFields
    <3> QED
      BY <3>1, <3>2 DEF FrameFor
  <2> QED
    BY <1>4, <1>6, <2>1, <2>2, <2>3 DEF Written
<1>27. ASSUME machine'.phase = "Live" PROVE Passed(q, accepted, done, published')
  <2>1. machine.phase = "Live"
    BY <1>3, <1>7, <1>9, <1>27 DEF Spares
  <2>2. Passed(s, accepted, completed, published)
    BY <1>1, <2>1 DEF Fate, HealthyFate
  <2> SUFFICES ASSUME NEW a \in DOMAIN accepted, accepted[a] \notin done, ~Holds(q, accepted[a])
               PROVE  Withdrawn(published', accepted[a])
    BY DEF Passed
  <2>3. accepted[a] \in Operations
    BY <1>1
  <2>4. CASE Withdrawn(published, accepted[a])
    BY <1>1, <1>17, <2>3, <2>4, StaysWithdrawn
  <2>5. ~Holds(s, accepted[a])
    <3> SUFFICES ASSUME Holds(s, accepted[a]) PROVE FALSE
      OBVIOUS
    <3>1. PICK j \in DOMAIN s : s[j].operation = accepted[a]
      BY DEF Holds
    <3>2. j # i
      BY <1>4, <3>1
    <3> QED
      BY <1>6, <1>13, <3>1, <3>2
  <2> QED
    BY <2>2, <2>4, <2>5 DEF Passed
<1>28. HealthyFate'
  BY <1>2, <1>3, <1>16, <1>18, <1>21, <1>26, <1>27 DEF HealthyFate
<1>29. Recovered'
  BY <1>2, <1>18 DEF Fate, Recovered, InWireOrder
<1>30. accepted' = accepted /\ completed' = done
  BY <1>2, <1>3
<1>31. Live(q) \in {Live(s), Live(s) \ {InFront}}
  <2>1. Live(q) = Live(s) \ {x.operation : x \in t.publish}
    BY <1>6, <1>13 DEF Tells
  <2>2. {x.operation : x \in t.publish} \in {{}, {InFront}}
    BY <1>4, <1>6, <1>11, <1>13
  <2> QED
    BY <2>1, <2>2
<1> QED
  BY <1>31, <1>19, <1>20, <1>21, <1>22, <1>23, <1>24, <1>25, <1>28, <1>29, <1>30 DEF Fate

(***************************************************************************)
(* Recovery.  Nothing was journalled, so each record that is still         *)
(* observed comes back once, in order, with the frame the writer holds.    *)
(***************************************************************************)
Owing == {i \in DOMAIN machine.pending : machine.pending[i].phase # "Terminal"}

Restored == [a \in DOMAIN Observed |-> RecoveredOperation(Observed[a].record)]

\* Entry a of what recovery returns is of record f[a].
Restores(f, entries) ==
  /\ entries \in Seq(RecoveredEntry)
  /\ f \in [DOMAIN entries -> Owing]
  /\ \A a \in DOMAIN entries :
       LET record == machine.pending[f[a]]
       IN  /\ entries[a].operation = record.operation
           /\ entries[a].delivery = "NotSent" <=> ~Started(record, writes)
           /\ entries[a].frame <=> \E j \in DOMAIN writes : FrameFor(record, writes[j])
  /\ \A a, b \in DOMAIN entries : a < b => f[a] < f[b]
  /\ \A i \in Owing : \E a \in DOMAIN entries : f[a] = i

RecoveryItem == [record : OperationRecord, current : BOOLEAN]

LEMMA ItemsAreRecords ==
  ASSUME TypeOK, journal.operations = <<>>
  PROVE  /\ DOMAIN RecoveryItems = DOMAIN machine.pending
         /\ \A p \in DOMAIN machine.pending :
              RecoveryItems[p] = [record |-> machine.pending[p], current |-> TRUE]
         /\ RecoveryItems \in Seq(RecoveryItem)
<1> DEFINE s == machine.pending
           n == Len(s)
<1>1. s \in Seq(OperationRecord) /\ n \in Nat /\ DOMAIN s = 1..n
  <2>1. s \in Seq(OperationRecord)
    BY MachineFields DEF TypeOK
  <2> QED
    BY <2>1
<1>2. JournalIds = {} /\ \A p : ClaimedBy(p) = {}
  BY DEF JournalIds, ClaimedBy
<1>3. Unjournalled = s
  <2> DEFINE positions == {i \in DOMAIN s : s[i].operation \notin JournalIds}
  <2>1. \A i \in DOMAIN s : i \in positions
    BY <1>2
  <2>2. Unjournalled = Picked(s, positions)
    BY DEF Unjournalled
  <2> HIDE DEF s, positions
  <2> QED
    BY <1>1, <2>1, <2>2, PickedAll
<1>4. OriginalLen = n
  <2>1. {operation \in JournalIds : ~Holds(s, operation)} = {}
    BY <1>2
  <2>2. Cardinality({operation \in JournalIds : ~Holds(s, operation)}) = 0
    BY <2>1, FS_EmptySet
  <2>3. OriginalLen = n + Cardinality({operation \in JournalIds : ~Holds(s, operation)})
    BY DEF OriginalLen
  <2> QED
    BY <1>1, <2>2, <2>3
<1>5. ASSUME NEW p \in 1..n
      PROVE  ItemAt(p) = [record |-> s[p], current |-> TRUE]
  <2>1. {x \in 1..p : ClaimedBy(x) = {}} = 1..p
    BY <1>2
  <2>2. Cardinality(1..p) = p
    <3>1. p \in Nat /\ p >= 1
      BY <1>1
    <3>2. Cardinality(1..p) = IF 1 > p THEN 0 ELSE p - 1 + 1
      BY <3>1, FS_Interval
    <3> QED
      BY <3>1, <3>2
  <2>3. Cardinality({x \in 1..p : ClaimedBy(x) = {}}) = p
    BY <2>1, <2>2
  <2> QED
    BY <1>2, <1>3, <2>3 DEF ItemAt
<1>6. RecoveryItems = [p \in 1..n |-> ItemAt(p)]
  BY <1>4 DEF RecoveryItems
<1> HIDE DEF s, n
<1>7. \A p \in 1..n : s[p] \in OperationRecord
  BY <1>1 DEF n
<1>8. RecoveryItems \in [1..n -> RecoveryItem]
  <2>1. \A r \in OperationRecord : [record |-> r, current |-> TRUE] \in RecoveryItem
    BY DEF RecoveryItem
  <2>2. \A p \in 1..n : ItemAt(p) \in RecoveryItem
    BY <1>5, <1>7, <2>1
  <2> QED
    BY <1>6, <2>2
<1>9. RecoveryItems \in Seq(RecoveryItem)
  BY <1>1, <1>8
<1> QED
  BY <1>1, <1>5, <1>6, <1>9 DEF s

LEMMA RestoredItems ==
  ASSUME TypeOK, journal.operations = <<>>, journal.writes = <<>>,
         \A j \in DOMAIN writes : \E i \in DOMAIN machine.pending :
           FrameFor(machine.pending[i], writes[j])
  PROVE  UnmatchedWrites = {} /\ \E f : Restores(f, Restored)
<1> DEFINE s == machine.pending
           items == RecoveryItems
           observed == {p \in DOMAIN items : items[p].record.phase # "Terminal"}
<1>1. s \in Seq(OperationRecord) /\ writes \in Seq(QueuedWrite)
  BY MachineFields DEF TypeOK
<1>2. /\ DOMAIN items = DOMAIN s /\ items \in Seq(RecoveryItem)
      /\ \A p \in DOMAIN s : items[p] = [record |-> s[p], current |-> TRUE]
  BY ItemsAreRecords
<1> HIDE DEF items
<1>3. \A p \in DOMAIN s : items[p].record = s[p] /\ items[p].current = TRUE
  <2> SUFFICES ASSUME NEW p \in DOMAIN s
               PROVE  items[p].record = s[p] /\ items[p].current = TRUE
    OBVIOUS
  <2> DEFINE r == s[p]
  <2>1. items[p] = [record |-> r, current |-> TRUE]
    BY <1>2
  <2> HIDE DEF r
  <2>2. items[p].record = r /\ items[p].current = TRUE
    BY <2>1
  <2> QED
    BY <2>2 DEF r
<1>4. RecoverableWrites = writes
  BY <1>1 DEF RecoverableWrites
<1>5. \A record : FramesOf(record) = {j \in DOMAIN writes : FrameFor(record, writes[j])}
  BY <1>4 DEF FramesOf, FrameFor
<1>6. observed = Owing
  BY <1>2, <1>3 DEF Owing
<1>7. UnmatchedWrites = {}
  <2>1. Claims = DOMAIN s
    BY <1>2, <1>3 DEF Claims, items
  <2>2. UnmatchedWrites = DOMAIN writes \ UNION {FramesOf(items[p].record) : p \in DOMAIN s}
    BY <1>4, <2>1 DEF UnmatchedWrites, items
  <2>3. \A j \in DOMAIN writes : \E p \in DOMAIN s : j \in FramesOf(items[p].record)
    BY <1>3, <1>5
  <2> QED
    BY <2>2, <2>3
<1>8. Observed = Picked(items, observed)
  BY DEF Observed, items
<1>9. /\ Observed \in Seq(RecoveryItem)
      /\ \E f : Numbers(f, Observed, items, observed, Len(items))
  <2>1. observed \in SUBSET DOMAIN items
    OBVIOUS
  <2> HIDE DEF observed
  <2> QED
    BY <1>2, <1>8, <2>1, PickedNumbers
<1>10. PICK f : Numbers(f, Observed, items, observed, Len(items))
  BY <1>9
<1> DEFINE m == Len(Observed)
<1>11. observed \cap 1..Len(items) = Owing
  BY <1>2, <1>6
<1> HIDE DEF observed
<1>12. /\ f \in [1..m -> Owing]
       /\ \A a \in 1..m : Observed[a] = items[f[a]]
       /\ \A a, b \in 1..m : a < b => f[a] < f[b]
       /\ \A i \in Owing : \E a \in 1..m : f[a] = i
  BY <1>10, <1>11 DEF Numbers
<1>13. m \in Nat /\ DOMAIN Observed = 1..m
  BY <1>9
<1> HIDE DEF m
<1>14. DOMAIN Restored = 1..m
       /\ \A a \in 1..m : Restored[a] = RecoveredOperation(Observed[a].record)
  BY <1>13 DEF Restored
<1>15. \A a \in 1..m : /\ f[a] \in DOMAIN s /\ Observed[a].record = s[f[a]]
                       /\ s[f[a]] \in OperationRecord
  BY <1>1, <1>3, <1>12 DEF Owing
<1>16. ASSUME NEW a \in 1..m
       PROVE  /\ Restored[a] \in RecoveredEntry
              /\ Restored[a].operation = s[f[a]].operation
              /\ Restored[a].delivery = "NotSent" <=> ~Started(s[f[a]], writes)
              /\ Restored[a].frame <=> \E j \in DOMAIN writes : FrameFor(s[f[a]], writes[j])
  <2> DEFINE record == s[f[a]]
             began == \E j \in FramesOf(record) : RecoverableWrites[j].started
  <2>1. Restored[a] = [operation |-> record.operation,
                       delivery |-> Weaken(record.delivery, began),
                       frame |-> FramesOf(record) # {}]
    BY <1>14, <1>15 DEF RecoveredOperation
  <2>2. record \in OperationRecord /\ record.operation \in Operations
    BY <1>15, RecordFields
  <2> HIDE DEF record
  <2>3. began <=> \E j \in DOMAIN writes : FrameFor(record, writes[j]) /\ writes[j].started
    BY <1>4, <1>5
  <2>4. FramesOf(record) # {} <=> \E j \in DOMAIN writes : FrameFor(record, writes[j])
    BY <1>5
  <2> HIDE DEF began
  <2>5. /\ Weaken(record.delivery, began) \in Deliveries
        /\ Weaken(record.delivery, began) = "NotSent" <=> ~Started(record, writes)
    BY <2>3 DEF Weaken, Deliveries, Started
  <2> QED
    <3> DEFINE held == FramesOf(record) # {}
               sure == Weaken(record.delivery, began)
    <3>1. held \in BOOLEAN
      OBVIOUS
    <3> HIDE DEF held, sure
    <3>2. Restored[a] = [operation |-> record.operation, delivery |-> sure, frame |-> held]
      BY <2>1 DEF held, sure
    <3>3. sure \in Deliveries /\ (sure = "NotSent" <=> ~Started(record, writes))
      BY <2>5 DEF sure
    <3>4. /\ Restored[a] \in RecoveredEntry /\ Restored[a].operation = record.operation
          /\ Restored[a].delivery = sure /\ Restored[a].frame = held
      BY <2>2, <3>1, <3>2, <3>3 DEF RecoveredEntry
    <3> QED
      BY <2>4, <3>3, <3>4 DEF held, record
<1>17. Restored \in Seq(RecoveredEntry)
  <2>1. Restored = [a \in 1..m |-> Restored[a]]
    BY <1>13 DEF Restored
  <2> HIDE DEF m
  <2> QED
    BY <1>13, <1>16, <2>1
<1>18. Restores(f, Restored)
  BY <1>12, <1>14, <1>16, <1>17 DEF Restores
<1> QED
  BY <1>7, <1>18

\* Each operation still owed something is in what recovery returns, once.
LEMMA RestoredOnce ==
  ASSUME machine.pending \in Seq(OperationRecord), Distinct(machine.pending),
         NEW f, NEW entries, Restores(f, entries), NEW operation
  PROVE  Cardinality({a \in DOMAIN entries : entries[a].operation = operation})
           = IF operation \in Live(machine.pending) THEN 1 ELSE 0
<1> DEFINE s == machine.pending
           found == {a \in DOMAIN entries : entries[a].operation = operation}
<1>1. /\ f \in [DOMAIN entries -> Owing] /\ entries \in Seq(RecoveredEntry)
      /\ \A a \in DOMAIN entries : entries[a].operation = s[f[a]].operation
      /\ \A a, b \in DOMAIN entries : a < b => f[a] < f[b]
      /\ \A i \in Owing : \E a \in DOMAIN entries : f[a] = i
  BY DEF Restores
<1>2. \A i \in Owing : i \in DOMAIN s /\ i \in Nat
  BY DEF Owing
<1>3. Live(s) = {s[i].operation : i \in Owing}
  BY DEF Live, Owing
<1>4. CASE operation \in Live(s)
  <2>1. PICK i \in Owing : s[i].operation = operation
    BY <1>3, <1>4
  <2>2. PICK a \in DOMAIN entries : f[a] = i
    BY <1>1, <2>1
  <2>3. \A b \in found : b = a
    <3> SUFFICES ASSUME NEW b \in DOMAIN entries, entries[b].operation = operation PROVE b = a
      OBVIOUS
    <3>1. f[b] \in DOMAIN s /\ f[a] \in DOMAIN s /\ f[a] \in Nat /\ f[b] \in Nat
      BY <1>1, <1>2
    <3>2. s[f[b]].operation = s[f[a]].operation
      BY <1>1, <2>1, <2>2
    <3>3. f[b] = f[a]
      BY <3>1, <3>2 DEF Distinct
    <3>4. a \in Nat /\ b \in Nat
      BY <1>1
    <3>5. ~(a < b) /\ ~(b < a)
      BY <1>1, <3>1, <3>3
    <3> QED
      BY <3>4, <3>5
  <2>4. a \in found
    BY <1>1, <2>1, <2>2
  <2>5. found = {a}
    BY <2>3, <2>4
  <2> QED
    BY <1>4, <2>5, FS_Singleton
<1>5. CASE operation \notin Live(s)
  <2>1. found = {}
    BY <1>1, <1>3, <1>5
  <2> QED
    BY <1>5, <2>1, FS_EmptySet
<1> QED
  BY <1>4, <1>5

LEMMA RecoverFate ==
  ASSUME TypeOK, Distinct(machine.pending), Fate, Recover
  PROVE  Fate'
<1> DEFINE s == machine.pending
<1>1. /\ s \in Seq(OperationRecord) /\ machine \in Machine
      /\ published \in [Operations -> Seq(Outcomes)]
  BY MachineFields DEF TypeOK
<1>2. /\ machine'.pending = <<>> /\ machine'.nextOperation = machine.nextOperation
      /\ writes' = <<>> /\ journal' = EmptyJournal
      /\ UNCHANGED <<permits, accepted, sent, completed, published>>
  BY <1>1 DEF Recover, Machine
<1>3. poisoned' # "None"
  BY DEF Recover
<1>4. /\ recovery'.operations = recovery.operations \o Restored
      /\ recovery'.unmatched = recovery.unmatched
                                 \cup {RecoverableWrites[i].operation : i \in UnmatchedWrites}
  BY DEF Recover, Restored
<1>5. UnmatchedWrites = {} /\ \E f : Restores(f, Restored)
  BY RestoredItems DEF Fate, Recoverable
<1>6. PICK f : Restores(f, Restored)
  BY <1>5
<1> DEFINE entries == Restored
<1>7. /\ recovery'.operations = recovery.operations \o entries /\ Restores(f, entries)
      /\ entries \in Seq(RecoveredEntry)
  BY <1>4, <1>6 DEF Restores
<1> HIDE DEF entries
<1>8. recovery'.unmatched = {} /\ recovery.operations \in Seq(RecoveredEntry)
  BY <1>4, <1>5 DEF Fate, Recovered
<1>9. Fresh' /\ journal'.operations = <<>> /\ journal'.writes = <<>>
  BY <1>2 DEF Fate, Fresh, EmptyJournal
<1>10. Committed' /\ InWireOrder(<<>>, accepted) /\ Recoverable(<<>>, <<>>, sent, completed)
  BY <1>2 DEF Fate, Committed, InWireOrder, Recoverable
<1>11. Live(<<>>) = {}
  BY DEF Live
<1>12. Recovered' /\ Counted(published, recovery'.operations, {}, accepted)
  <2>1. CASE s = <<>>
    <3>1. entries = <<>>
      <4>1. f \in [DOMAIN entries -> Owing] /\ Owing = {}
        BY <1>7, <2>1 DEF Restores, Owing
      <4> QED
        BY <1>7, <4>1
    <3>2. recovery'.operations = recovery.operations
      BY <1>7, <1>8, <3>1
    <3>3. Live(s) = {}
      BY <1>11, <2>1
    <3> QED
      BY <1>2, <1>8, <3>2, <3>3 DEF Fate, Recovered, InWireOrder
  <2>2. CASE s # <<>>
    <3>1. recovery.operations = <<>> /\ recovery'.operations = entries
      BY <1>7, <2>2 DEF Fate, Recovered
    <3>2. /\ \A a \in DOMAIN entries :
               /\ f[a] \in DOMAIN s
               /\ entries[a].operation = s[f[a]].operation
               /\ entries[a].delivery = "NotSent" <=> ~Started(s[f[a]], writes)
               /\ entries[a].frame <=> \E j \in DOMAIN writes : FrameFor(s[f[a]], writes[j])
          /\ \A a, b \in DOMAIN entries : a < b => f[a] < f[b]
      BY <1>7 DEF Restores, Owing
    <3>3. InWireOrder(entries, accepted)
      <4>1. InWireOrder(s, accepted)
        BY DEF Fate
      <4> HIDE DEF s
      <4> QED
        BY <3>2, <4>1 DEF InWireOrder
    <3>4. \A a \in DOMAIN entries :
            /\ entries[a].delivery = "NotSent" <=> sent[entries[a].operation] = 0
            /\ entries[a].frame \/ entries[a].operation \in completed
      <4>1. \A i \in DOMAIN s :
              /\ Started(s[i], writes) <=> sent[s[i].operation] # 0
              /\ s[i].operation \in completed \/ \E j \in DOMAIN writes : FrameFor(s[i], writes[j])
        BY DEF Fate, Recoverable
      <4> HIDE DEF s
      <4> QED
        BY <3>2, <4>1
    <3>5. Recovered'
      BY <1>2, <1>7, <1>8, <3>1, <3>3, <3>4 DEF Recovered, InWireOrder
    <3>6. Counted(published, entries, {}, accepted)
      <4> SUFFICES ASSUME NEW x \in Operations
                   PROVE  Len(published[x])
                            + Cardinality({a \in DOMAIN entries : entries[a].operation = x})
                            + (IF x \in {} THEN 1 ELSE 0)
                          = IF Contains(accepted, x) THEN 1 ELSE 0
        BY DEF Counted
      <4>1. Len(published[x]) + Cardinality({i \in DOMAIN <<>> : <<>>[i].operation = x})
              + (IF x \in Live(s) THEN 1 ELSE 0)
            = IF Contains(accepted, x) THEN 1 ELSE 0
        BY <3>1 DEF Fate, Counted
      <4>2. Cardinality({i \in DOMAIN <<>> : <<>>[i].operation = x}) = 0
        <5>1. {i \in DOMAIN <<>> : <<>>[i].operation = x} = {}
          OBVIOUS
        <5> QED
          BY <5>1, FS_EmptySet
      <4>3. Cardinality({a \in DOMAIN entries : entries[a].operation = x})
              = IF x \in Live(s) THEN 1 ELSE 0
        BY <1>1, <1>7, RestoredOnce
      <4>4. Len(published[x]) \in Nat
        BY <1>1
      <4> QED
        BY <4>1, <4>2, <4>3, <4>4
    <3> QED
      BY <3>1, <3>5, <3>6
  <2> QED
    BY <2>1, <2>2
<1> QED
  BY <1>2, <1>3, <1>9, <1>10, <1>11, <1>12 DEF Fate

(***************************************************************************)
(* The invariant is kept by every step.                                    *)
(***************************************************************************)
LEMMA InitFated == Init => Fated
<1> SUFFICES ASSUME Init PROVE Fated
  OBVIOUS
<1>1. /\ machine.pending = <<>> /\ writes = <<>> /\ permits = {} /\ accepted = <<>>
      /\ journal = EmptyJournal /\ completed = {}
      /\ sent = [operation \in Operations |-> 0]
      /\ published = [operation \in Operations |-> <<>>]
      /\ recovery.operations = <<>> /\ recovery.unmatched = {}
  BY DEF Init, NewMachine
<1>2. Fresh /\ Committed /\ journal.operations = <<>> /\ journal.writes = <<>>
  BY <1>1 DEF Fresh, Committed, EmptyJournal
<1>3. InWireOrder(machine.pending, accepted) /\ Recoverable(machine.pending, writes, sent, completed)
  BY <1>1 DEF InWireOrder, Recoverable
<1>4. Counted(published, recovery.operations, Live(machine.pending), accepted)
  <2> SUFFICES ASSUME NEW x \in Operations
               PROVE  Len(published[x])
                        + Cardinality({i \in DOMAIN recovery.operations :
                                         recovery.operations[i].operation = x})
                        + (IF x \in Live(machine.pending) THEN 1 ELSE 0)
                      = IF Contains(accepted, x) THEN 1 ELSE 0
    BY DEF Counted
  <2>1. {i \in DOMAIN recovery.operations : recovery.operations[i].operation = x} = {}
    BY <1>1
  <2>2. Cardinality({i \in DOMAIN recovery.operations : recovery.operations[i].operation = x}) = 0
    BY <2>1, FS_EmptySet
  <2>3. Live(machine.pending) = {} /\ ~Contains(accepted, x) /\ Len(published[x]) = 0
    BY <1>1 DEF Live, Contains
  <2> QED
    BY <2>2, <2>3
<1>5. Truthful(published, sent, completed) /\ Recovered
  BY <1>1 DEF Truthful, Recovered, InWireOrder
<1>6. HealthyFate
  BY <1>1 DEF HealthyFate, Known, Written, Passed
<1>7. Fate
  BY <1>2, <1>3, <1>4, <1>5, <1>6 DEF Fate
<1> QED
  BY <1>7, InitOwned DEF Fated

LEMMA HealthyFated ==
  ASSUME Faults = {}, InOrder, Fate, Next, Owned'
  PROVE  Fate'
<1>1. TypeOK /\ Distinct(machine.pending)
  BY InOrderSound
<1>2. TypeOK' /\ Distinct(machine'.pending)
  BY DEF Owned, Accounted, TypedDrain, Books, Identified
<1>3. ASSUME NEW now \in Moments, NEW options \in Options, Reserve(now, options) PROVE Fate'
  BY <1>1, <1>3, ReserveFate
<1>4. ASSUME NEW permit \in permits, DropPermit(permit) PROVE Fate'
  BY <1>1, <1>4, DropFate
<1>5. ASSUME NEW permit \in permits, NEW frame \in Frames, Commit(permit, frame) PROVE Fate'
  <2>1. FramesMatch'
    BY <1>5, AdmissionOwns
  <2> QED
    BY <1>2, <1>5, <2>1, CommitFate
<1>6. CASE Input
  BY <1>6, InputSettles, SettledFate
<1>7. ASSUME NEW n \in 0..MaxReported, AdvanceWrite(n) PROVE Fate'
  <2>1. CASE OverReport(n)
    BY <2>1, OverReportFate
  <2>2. CASE PartialWrite(n)
    BY <1>2, <2>2, PartialOwns, PartialFate
  <2>3. CASE CompleteWrite(n)
    BY <1>2, <2>3, CompleteOwns, CompletedFate
  <2> QED
    BY <1>7, <2>1, <2>2, <2>3 DEF AdvanceWrite
<1>8. CASE FrontWriteViolation
  <2>1. /\ UNCHANGED <<machine, permits, writes, journal, accepted, sent, completed,
                       published, recovery>>
        /\ poisoned = "None"
    BY <1>8 DEF FrontWriteViolation, worldVars
  <2>2. Fresh'
    BY <2>1 DEF Fate, Fresh
  <2> QED
    BY <2>1, <2>2, StillFate
<1>9. ~AuditFails
  BY AuditPasses DEF AuditFails
<1>10. CASE Recover
  BY <1>1, <1>10, RecoverFate
<1>11. /\ \A i \in DOMAIN writes : ~LoseWrite(i)
       /\ \A frame \in Frames : ~StrayWrite(frame)
  BY DEF LoseWrite, StrayWrite
<1> QED
  BY <1>3, <1>4, <1>5, <1>6, <1>7, <1>8, <1>9, <1>10, <1>11 DEF Next, Input

LEMMA NextFated == Fated /\ [Next]_vars => Fated'
<1> SUFFICES ASSUME Fated, [Next]_vars PROVE Fated'
  OBVIOUS
<1>1. Owned /\ Owned'
  BY NextOwned DEF Fated
<1> SUFFICES ASSUME Faults = {} PROVE Fate'
  BY <1>1 DEF Fated
<1>2. Fate
  BY DEF Fated
<1>3. TypeOK /\ Distinct(machine.pending)
  BY <1>1 DEF Owned, Accounted, TypedDrain, Books, Identified
<1>4. CASE UNCHANGED vars
  <2>1. UNCHANGED <<machine, permits, writes, journal, poisoned, accepted, sent, completed,
                    published, recovery>>
    BY <1>4 DEF vars
  <2>2. Fresh'
    BY <1>2, <2>1 DEF Fate, Fresh
  <2> QED
    BY <1>2, <2>1, <2>2, StillFate
<1>5. CASE Next /\ poisoned = "None"
  <2>1. InOrder
    BY <1>1, <1>5 DEF Owned, InOrder
  <2> QED
    BY <1>1, <1>2, <1>5, <2>1, HealthyFated
<1>6. CASE Next /\ poisoned # "None"
  <2>1. ~Healthy /\ ~WritePending
    BY <1>6 DEF Healthy, WritePending
  <2>2. \/ \E permit \in permits : DropPermit(permit)
        \/ Recover
    BY <1>6, <2>1 DEF Next, Reserve, Commit, OpenAdmission, BeginDrain, EpochClosed,
         CloseRequested, ReplyMalformed, Cancel, DeadlineElapsed, ApplyReply, AdvanceWrite,
         OverReport, PartialWrite, CompleteWrite, FrontWriteViolation, AuditFails, LoseWrite,
         StrayWrite
  <2>3. CASE Recover
    BY <1>2, <1>3, <2>3, RecoverFate
  <2> QED
    BY <1>2, <1>3, <2>2, <2>3, DropFate
<1> QED
  BY <1>4, <1>5, <1>6

LEMMA SpecFated == Spec => []Fated
  BY InitFated, NextFated, PTL DEF Spec

(***************************************************************************)
(* What follows.                                                           *)
(***************************************************************************)
LEMMA UnresolvedIsLive ==
  ASSUME journal.operations = <<>>
  PROVE  Unresolved = Live(machine.pending)
  BY DEF Unresolved, Live

LEMMA FatedOnce == Fated => (Faults = {} => ExactlyOneFate)
<1> SUFFICES ASSUME Fate PROVE ExactlyOneFate
  BY DEF Fated
<1>1. Unresolved = Live(machine.pending)
  BY UnresolvedIsLive DEF Fate
<1>2. Counted(published, recovery.operations, Live(machine.pending), accepted)
  BY DEF Fate
<1> QED
  BY <1>1, <1>2 DEF ExactlyOneFate, Counted, RecoveredAt

\* No accepted operation is lost and none ends twice, for every limit, key space,
\* workload and transport: through commits, replies, cancellations, deadlines,
\* partial and over-reported writes, drains, closes and recovery, each one is
\* owed an end, was told one, or was given back by recovery, and only one of these.
THEOREM EveryOperationEndsOnce == Spec => [](Faults = {} => ExactlyOneFate)
  BY SpecFated, FatedOnce, PTL

LEMMA FatedTruthful == Fated => (Faults = {} => DeliveryExact)
<1> SUFFICES ASSUME Fate PROVE DeliveryExact
  BY DEF Fated
<1>1. Truthful(published, sent, completed)
  BY DEF Fate
<1>2. \A i \in DOMAIN recovery.operations :
        recovery.operations[i].delivery = "NotSent" <=> sent[recovery.operations[i].operation] = 0
  BY DEF Fate, Recovered
<1> QED
  BY <1>1, <1>2 DEF DeliveryExact, Truthful

\* What the application is told about its frame is what happened to it: NotSent
\* exactly when the transport took no byte, in outcomes and in recovery, and a
\* reply or a completed write only for a frame that left whole.
THEOREM DeliveryIsTruthful == Spec => [](Faults = {} => DeliveryExact)
  BY SpecFated, FatedTruthful, PTL

LEMMA FatedRecovers == Fated => (Faults = {} => RecoveryExact)
<1> SUFFICES ASSUME Fate PROVE RecoveryExact
  BY DEF Fated
<1>1. Recovered
  BY DEF Fate
<1>2. RecoveredInWireOrder
  BY <1>1 DEF Recovered, InWireOrder, RecoveredInWireOrder
<1>3. RecoveryReturnsFrames
  BY <1>1 DEF Recovered, RecoveryReturnsFrames
<1>4. UnmatchedReported
  BY <1>1 DEF Recovered, UnmatchedReported
<1> QED
  BY <1>2, <1>3, <1>4 DEF RecoveryExact

\* Recovery, also of an owner that broke in the middle of a write, returns the
\* operations in wire order, each with its frame unless the frame is out, and
\* finds no frame that belongs to none.
THEOREM RecoveryReturnsAll == Spec => [](Faults = {} => RecoveryExact)
  BY SpecFated, FatedRecovers, PTL

(***************************************************************************)
(* A torn frame stays in front.                                            *)
(***************************************************************************)
LEMMA SettledKeepsTorn ==
  ASSUME InOrder, Fate, NEW t, NEW fired, Settled(t, fired),
         writes # <<>>, writes[1].written > 0, machine'.phase = "Live"
  PROVE  writes' # <<>> /\ writes'[1] = writes[1]
<1> DEFINE s == machine.pending
           i == FrontAt
<1>1. /\ i \in DOMAIN s /\ s[i].operation = InFront /\ Matches(writes[1], s[i])
      /\ sent[InFront] = writes[1].written /\ writes[1] \in QueuedWrite
  BY FrontFacts
<1>2. writes \in Seq(QueuedWrite) /\ s \in Seq(OperationRecord) /\ Distinct(s) /\ poisoned = "None"
  BY InOrderSound DEF InOrder
<1>3. s[i].delivery # "NotSent"
  <2>1. Known(s, sent, completed) /\ writes[1].written \in Nat
    BY <1>1, <1>2, QueuedWriteFields DEF Fate, HealthyFate
  <2> QED
    BY <1>1, <2>1 DEF Known
<1>4. \A k \in DOMAIN t.discard : t.discard[k].delivery = "NotSent"
  <2>1. machine' = t.machine /\ Spares(machine, t)
    BY DEF Settled
  <2> QED
    BY <2>1 DEF Spares
<1>5. CASE writes' = writes
  BY <1>5
<1>6. ASSUME NEW j \in DOMAIN writes, Takes(t, j) PROVE writes' # <<>> /\ writes'[1] = writes[1]
  <2>1. PICK k \in DOMAIN s : t.discard = <<s[k]>> /\ Matches(writes[j], s[k])
    BY <1>6 DEF Takes
  <2>2. s[k].delivery = "NotSent"
    BY <1>4, <2>1
  <2>3. j # 1
    <3> SUFFICES ASSUME j = 1 PROVE FALSE
      OBVIOUS
    <3>1. s[k].operation = s[i].operation
      BY <1>1, <2>1 DEF Matches
    <3> QED
      BY <1>1, <1>2, <1>3, <2>2, <3>1 DEF Distinct
  <2>4. writes' = RemoveAt(writes, j)
    BY <1>6 DEF Takes
  <2>5. /\ DOMAIN RemoveAt(writes, j) = 1..(Len(writes) - 1)
        /\ \A p \in 1..(Len(writes) - 1) :
             RemoveAt(writes, j)[p] = IF p < j THEN writes[p] ELSE writes[p + 1]
    BY <1>2, RemoveAtItems
  <2>6. 1 < j /\ 1 \in 1..(Len(writes) - 1)
    BY <1>2, <2>3
  <2>7. 1 \in DOMAIN writes' /\ writes'[1] = writes[1]
    BY <2>4, <2>5, <2>6
  <2> QED
    BY <2>7
<1>7. ~(t.discard = s)
  BY <1>1, <1>3, <1>4
<1> QED
  BY <1>5, <1>6, <1>7, WriterLeft

LEMMA HealthyKeepsTorn ==
  ASSUME Faults = {}, InOrder, Fate, Next
  PROVE  KeepsTornFrame
<1> SUFFICES ASSUME writes # <<>>, writes[1].written > 0,
                    machine'.phase = "Live", poisoned' = "None"
             PROVE  \/ /\ writes' # <<>>
                       /\ writes'[1].effect = writes[1].effect
                       /\ writes'[1].written >= writes[1].written
                    \/ sent'[writes[1].operation] = writes[1].wire
  BY DEF KeepsTornFrame
<1> DEFINE Goal == \/ /\ writes' # <<>>
                      /\ writes'[1].effect = writes[1].effect
                      /\ writes'[1].written >= writes[1].written
                   \/ sent'[writes[1].operation] = writes[1].wire
<1> SUFFICES Goal
  OBVIOUS
<1>1. /\ writes \in Seq(QueuedWrite) /\ writes[1] \in QueuedWrite
      /\ writes[1].written \in Nat /\ writes[1].wire \in Nat
  BY InOrderSound, FrontFacts, QueuedWriteFields
<1>2. ASSUME writes' # <<>>, writes'[1] = writes[1] PROVE Goal
  BY <1>1, <1>2
<1> HIDE DEF Goal
<1>3. ASSUME NEW now \in Moments, NEW options \in Options, Reserve(now, options) PROVE Goal
  BY <1>2, <1>3 DEF Reserve
<1>4. ASSUME NEW permit \in permits, DropPermit(permit) PROVE Goal
  BY <1>2, <1>4 DEF DropPermit
<1>5. ASSUME NEW permit \in permits, NEW frame \in Frames, Commit(permit, frame) PROVE Goal
  <2> DEFINE w == NewWrite(permit, frame)
  <2>1. writes' = Append(writes, w)
    BY <1>5 DEF Commit
  <2> HIDE DEF w
  <2>2. 1 \in DOMAIN writes' /\ writes'[1] = writes[1]
    BY <1>1, <2>1
  <2> QED
    BY <1>2, <2>2
<1>6. CASE Input
  <2>1. PICK t, fired : Settled(t, fired)
    BY <1>6, InputSettles
  <2> QED
    BY <1>2, <2>1, SettledKeepsTorn
<1>7. ASSUME NEW n \in 0..MaxReported, AdvanceWrite(n) PROVE Goal
  <2>1. n \in Nat
    BY CoreAssumption
  <2>2. CASE OverReport(n)
    BY <2>2 DEF OverReport
  <2>3. CASE PartialWrite(n)
    <3>1. writes' = [writes EXCEPT ![1] = Progressed(n)]
      BY <2>3 DEF PartialWrite
    <3>2. /\ Progressed(n).effect = writes[1].effect
          /\ Progressed(n).written = writes[1].written + n
      BY <1>1 DEF Progressed, QueuedWrite
    <3>3. 1 \in DOMAIN writes' /\ writes'[1] = Progressed(n)
      BY <1>1, <3>1
    <3> QED
      BY <1>1, <2>1, <3>2, <3>3 DEF Goal
  <2>4. CASE CompleteWrite(n)
    <3>1. n = writes[1].wire - writes[1].written /\ CountSent(writes[1].operation, n)
      BY <2>4 DEF CompleteWrite, FrontRemaining
    <3>2. /\ InFront \in Operations /\ sent \in [Operations -> Nat]
          /\ sent[InFront] = writes[1].written
      BY FrontFacts
    <3>3. sent'[InFront] = writes[1].written + n
      BY <3>1, <3>2 DEF CountSent, InFront
    <3> QED
      BY <1>1, <3>1, <3>3 DEF InFront, Goal
  <2> QED
    BY <1>7, <2>2, <2>3, <2>4 DEF AdvanceWrite
<1>8. ~FrontWriteViolation /\ ~Recover
  BY DEF FrontWriteViolation, Recover
<1>9. ~AuditFails
  BY AuditPasses DEF AuditFails
<1>10. /\ \A i \in DOMAIN writes : ~LoseWrite(i)
       /\ \A frame \in Frames : ~StrayWrite(frame)
  BY DEF LoseWrite, StrayWrite
<1> QED
  BY <1>3, <1>4, <1>5, <1>6, <1>7, <1>8, <1>9, <1>10 DEF Next, Input

\* The wire never carries half a frame followed by another one while the epoch
\* lives: once a byte of the front frame is taken, no cancellation, deadline,
\* reply or drain removes it or lets another pass it before its last byte.
THEOREM TornFrameIsFinished ==
  ASSUME Faults = {}
  PROVE  Spec => TornFrameStaysInFront
<1>1. Fated /\ [Next]_vars => [KeepsTornFrame]_vars
  <2> SUFFICES ASSUME Fated, Next PROVE KeepsTornFrame
    OBVIOUS
  <2>1. CASE poisoned = "None"
    <3>1. InOrder /\ Fate
      BY <2>1 DEF Fated, Owned, InOrder
    <3> QED
      BY <3>1, HealthyKeepsTorn
  <2>2. CASE poisoned # "None"
    BY <2>2, PoisonStays DEF KeepsTornFrame
  <2> QED
    BY <2>1, <2>2
<1> QED
  BY <1>1, SpecFated, PTL DEF Spec, TornFrameStaysInFront

(***************************************************************************)
(* The promise to the application: every step is a step of                 *)
(* OperationLifecycle.  What an operation shows there follows from whether *)
(* it was accepted, whether it is still owed an end and its bytes.         *)
(***************************************************************************)
Statuses ==
  [operation \in Operations |->
     IF operation \in Unresolved THEN "Owed"
     ELSE IF Contains(accepted, operation) THEN "Done" ELSE "Unknown"]
Touched == {operation \in Operations : sent[operation] > 0}
Ends == [operation \in Operations |-> Told(operation)]

Shown ==
  /\ Unresolved = Live(machine.pending)
  /\ sent \in [Operations -> Nat]
  /\ \A operation \in Operations :
       /\ operation \in Live(machine.pending) => Contains(accepted, operation)
       /\ Told(operation) = IF Contains(accepted, operation) /\ operation \notin Live(machine.pending)
                            THEN IF sent[operation] > 0 THEN "PossiblySent" ELSE "NotSent"
                            ELSE "Nothing"

LEMMA FateShown == TypeOK /\ Fate => Shown
<1> SUFFICES ASSUME TypeOK, Fate PROVE Shown
  OBVIOUS
<1>1. Unresolved = Live(machine.pending)
  BY UnresolvedIsLive DEF Fate
<1>2. sent \in [Operations -> Nat] /\ published \in [Operations -> Seq(Outcomes)]
  BY DEF TypeOK
<1> SUFFICES ASSUME NEW x \in Operations
             PROVE  /\ x \in Live(machine.pending) => Contains(accepted, x)
                    /\ Told(x) = IF Contains(accepted, x) /\ x \notin Live(machine.pending)
                                 THEN IF sent[x] > 0 THEN "PossiblySent" ELSE "NotSent"
                                 ELSE "Nothing"
  BY <1>1, <1>2 DEF Shown
<1> DEFINE L == Len(published[x])
           R == {i \in DOMAIN recovery.operations : recovery.operations[i].operation = x}
           c == Cardinality(R)
<1>3. L + c + (IF x \in Live(machine.pending) THEN 1 ELSE 0)
        = IF Contains(accepted, x) THEN 1 ELSE 0
  BY DEF Fate, Counted
<1>4. published[x] \in Seq(Outcomes) /\ L \in Nat /\ sent[x] \in Nat
  BY <1>2
<1>5. recovery.operations \in Seq(RecoveredEntry)
  BY DEF Fate, Recovered
<1>6. IsFiniteSet(R)
  <2>1. DOMAIN recovery.operations = 1..Len(recovery.operations) /\ Len(recovery.operations) \in Nat
    BY <1>5
  <2>2. IsFiniteSet(DOMAIN recovery.operations)
    BY <2>1, FS_Interval
  <2> QED
    BY <2>2, FS_Subset
<1>7. c \in Nat /\ (c = 0 <=> R = {})
  BY <1>6, FS_CardinalityType, FS_EmptySet
<1>8. RecoveredAt(x) = R
  BY DEF RecoveredAt
<1>9. Told(x) = IF published[x] # <<>> THEN published[x][1].delivery
                ELSE IF R # {} THEN recovery.operations[CHOOSE i \in R : TRUE].delivery
                ELSE "Nothing"
  BY <1>8 DEF Told
<1>10. published[x] = <<>> <=> L = 0
  BY <1>4
<1>11. ASSUME published[x] # <<>>
       PROVE  published[x][1].delivery = IF sent[x] > 0 THEN "PossiblySent" ELSE "NotSent"
  <2>1. 1 \in DOMAIN published[x] /\ published[x][1] \in Outcomes
    BY <1>4, <1>11
  <2>2. published[x][1].delivery \in {"NotSent", "PossiblySent"}
    BY <2>1 DEF Outcomes, Deliveries
  <2>3. published[x][1].delivery = "NotSent" <=> sent[x] = 0
    BY <2>1 DEF Fate, Truthful
  <2> QED
    BY <1>4, <2>2, <2>3
<1>12. ASSUME R # {}
       PROVE  recovery.operations[CHOOSE i \in R : TRUE].delivery
                = IF sent[x] > 0 THEN "PossiblySent" ELSE "NotSent"
  <2> DEFINE i == CHOOSE i \in R : TRUE
  <2>1. i \in R
    BY <1>12
  <2> HIDE DEF i
  <2>2. i \in DOMAIN recovery.operations /\ recovery.operations[i].operation = x
    BY <2>1
  <2>3. recovery.operations[i].delivery \in {"NotSent", "PossiblySent"}
    <3>1. recovery.operations[i] \in RecoveredEntry
      BY <1>5, <2>2
    <3> QED
      BY <3>1 DEF RecoveredEntry, Deliveries
  <2>4. recovery.operations[i].delivery = "NotSent" <=> sent[x] = 0
    BY <2>2 DEF Fate, Recovered
  <2>5. recovery.operations[i].delivery = IF sent[x] > 0 THEN "PossiblySent" ELSE "NotSent"
    BY <1>4, <2>3, <2>4
  <2> QED
    BY <2>5 DEF i
<1> HIDE DEF L, R, c
<1>13. CASE x \in Live(machine.pending)
  <2>1. L = 0 /\ c = 0 /\ Contains(accepted, x)
    BY <1>3, <1>4, <1>7, <1>13
  <2> QED
    BY <1>7, <1>9, <1>10, <1>13, <2>1
<1>14. CASE x \notin Live(machine.pending) /\ Contains(accepted, x)
  <2>1. L # 0 \/ c # 0
    BY <1>3, <1>4, <1>7, <1>14
  <2> QED
    BY <1>7, <1>9, <1>10, <1>11, <1>12, <1>14, <2>1
<1>15. CASE x \notin Live(machine.pending) /\ ~Contains(accepted, x)
  <2>1. L = 0 /\ c = 0
    BY <1>3, <1>4, <1>7, <1>15
  <2> QED
    BY <1>7, <1>9, <1>10, <1>15, <2>1
<1> QED
  BY <1>13, <1>14, <1>15

\* The actions of OperationLifecycle, over the mapped state.
LEMMA ShowsStutter ==
  ASSUME accepted' = accepted, Statuses' = Statuses, Touched' = Touched,
         completed' = completed, Ends' = Ends
  PROVE  UNCHANGED Lifecycle!lifecycleVars
  BY DEF Lifecycle!lifecycleVars, Statuses, Touched, Ends

LEMMA ShowsAccept ==
  ASSUME NEW x, Statuses[x] = "Unknown", accepted' = Append(accepted, x),
         Statuses' = [Statuses EXCEPT ![x] = "Owed"], Touched' = Touched,
         completed' = completed, Ends' = Ends
  PROVE  Lifecycle!Accept(x)
  BY DEF Lifecycle!Accept, Statuses, Touched, Ends

\* The operations in E end, and are told the truth.
Finishes(E) ==
  /\ \A x \in E : Statuses[x] = "Owed"
  /\ Statuses' = [x \in Operations |-> IF x \in E THEN "Done" ELSE Statuses[x]]
  /\ Ends' = [x \in Operations |->
                IF x \notin E THEN Ends[x]
                ELSE IF x \in Touched' THEN "PossiblySent" ELSE "NotSent"]

LEMMA ShowsFinish ==
  ASSUME NEW E, Finishes(E)
  PROVE  Lifecycle!Finish(E)
  BY DEF Finishes, Lifecycle!Finish, Statuses, Touched, Ends

LEMMA ShowsEnd ==
  ASSUME NEW E, E # {}, Finishes(E), accepted' = accepted, Touched' = Touched,
         completed' = completed
  PROVE  Lifecycle!End(E)
<1>1. Lifecycle!Finish(E)
  BY ShowsFinish
<1> QED
  BY <1>1 DEF Lifecycle!End, Touched

LEMMA ShowsTransmit ==
  ASSUME NEW p, NEW x, accepted[p] = x, x \notin completed, Ends[x] # "NotSent",
         \A e \in 1..(p - 1) : accepted[e] \in completed \/ Ends[accepted[e]] = "NotSent",
         Touched' \in {Touched, Touched \cup {x}},
         completed' \in {completed, completed \cup {x}},
         accepted' = accepted,
         \/ Statuses' = Statuses /\ Ends' = Ends
         \/ x \in completed' /\ Finishes({x})
  PROVE  Lifecycle!Transmit(p)
<1>1. Lifecycle!HasWire(p)
  BY DEF Lifecycle!HasWire, Ends
<1>2. CASE Statuses' = Statuses /\ Ends' = Ends
  BY <1>1, <1>2 DEF Lifecycle!Transmit, Statuses, Touched, Ends
<1>3. CASE x \in completed' /\ Finishes({x})
  BY <1>1, <1>3 DEF Finishes, Lifecycle!Transmit, Lifecycle!Finish, Statuses, Touched, Ends
<1> QED
  BY <1>2, <1>3

LEMMA ShownEnds ==
  ASSUME Shown, Shown', accepted' = accepted, NEW E \in SUBSET Operations,
         E \subseteq Live(machine.pending), Live(machine'.pending) = Live(machine.pending) \ E,
         \A x \in Operations : x \notin Live(machine.pending) /\ Contains(accepted, x)
                                 => (sent'[x] > 0 <=> sent[x] > 0)
  PROVE  Finishes(E) /\ (E = {} => Statuses' = Statuses /\ Ends' = Ends)
<1> DEFINE live == Live(machine.pending)
           left == Live(machine'.pending)
<1>1. /\ Unresolved = live /\ Unresolved' = left /\ left = live \ E /\ E \subseteq live
      /\ \A x \in live : x \in Operations => Contains(accepted, x)
  BY DEF Shown
<1>2. \A x \in Operations :
        Told(x) = IF Contains(accepted, x) /\ x \notin live
                  THEN IF sent[x] > 0 THEN "PossiblySent" ELSE "NotSent"
                  ELSE "Nothing"
  BY DEF Shown
<1>3. \A x \in Operations :
        Told(x)' = IF Contains(accepted, x) /\ x \notin left
                   THEN IF sent'[x] > 0 THEN "PossiblySent" ELSE "NotSent"
                   ELSE "Nothing"
  BY DEF Shown
<1>4. \A x \in Operations : x \notin live /\ Contains(accepted, x) => (sent'[x] > 0 <=> sent[x] > 0)
  OBVIOUS
<1> HIDE DEF live, left
<1>5. \A x \in E : Statuses[x] = "Owed"
  BY <1>1 DEF Statuses
<1>6. /\ Statuses = [x \in Operations |-> IF x \in live THEN "Owed"
                                          ELSE IF Contains(accepted, x) THEN "Done" ELSE "Unknown"]
      /\ Statuses' = [x \in Operations |-> IF x \in left THEN "Owed"
                                           ELSE IF Contains(accepted, x) THEN "Done" ELSE "Unknown"]
  BY <1>1 DEF Statuses
<1>7. Statuses' = [x \in Operations |-> IF x \in E THEN "Done" ELSE Statuses[x]]
  BY <1>1, <1>6
<1>8. Ends = [x \in Operations |-> Told(x)] /\ Ends' = [x \in Operations |-> Told(x)']
  BY DEF Ends
<1>9. \A x \in Operations : x \in Touched' <=> sent'[x] > 0
  BY DEF Touched
<1>10. Ends' = [x \in Operations |->
                  IF x \notin E THEN Ends[x]
                  ELSE IF x \in Touched' THEN "PossiblySent" ELSE "NotSent"]
  <2>1. ASSUME NEW x \in Operations
        PROVE  Told(x)' = IF x \notin E THEN Told(x)
                          ELSE IF x \in Touched' THEN "PossiblySent" ELSE "NotSent"
    <3>1. CASE x \in E
      BY <1>1, <1>3, <1>9, <3>1
    <3>2. CASE x \notin E
      BY <1>1, <1>2, <1>3, <1>4, <3>2
    <3> QED
      BY <3>1, <3>2
  <2> QED
    BY <1>8, <2>1
<1>11. ASSUME E = {} PROVE Statuses' = Statuses /\ Ends' = Ends
  BY <1>6, <1>7, <1>8, <1>10, <1>11
<1> QED
  BY <1>5, <1>7, <1>10, <1>11 DEF Finishes

\* A call that ends operations, or changes nothing the application sees.
LEMMA ShownSettles ==
  ASSUME Shown, Shown', machine \in Machine, UNCHANGED <<accepted, sent, completed>>,
         Live(machine'.pending) \subseteq Live(machine.pending)
  PROVE  Lifecycle!Next \/ UNCHANGED Lifecycle!lifecycleVars
<1>1. PICK E : E = Live(machine.pending) \ Live(machine'.pending)
  OBVIOUS
<1>2. Live(machine.pending) \subseteq Operations
  <2>1. machine.pending \in Seq(OperationRecord)
    BY MachineFields
  <2>2. \A i \in DOMAIN machine.pending : machine.pending[i].operation \in Operations
    BY <2>1, RecordFields
  <2> QED
    BY <2>2 DEF Live
<1>3. /\ E \in SUBSET Operations /\ E \subseteq Live(machine.pending)
      /\ Live(machine'.pending) = Live(machine.pending) \ E
  BY <1>1, <1>2
<1>4. Finishes(E) /\ (E = {} => Statuses' = Statuses /\ Ends' = Ends)
  BY <1>3, ShownEnds
<1>5. Touched' = Touched
  BY DEF Touched
<1>6. CASE E = {}
  BY <1>4, <1>5, <1>6, ShowsStutter
<1>7. CASE E # {}
  <2>1. Lifecycle!End(E)
    BY <1>4, <1>5, <1>7, ShowsEnd
  <2> QED
    BY <1>3, <2>1 DEF Lifecycle!Next
<1> QED
  BY <1>6, <1>7

\* The front frame's operation has the wire.
FrontHasWire(p) ==
  /\ p \in DOMAIN accepted /\ accepted[p] = InFront
  /\ \A e \in 1..(p - 1) : accepted[e] \in completed \/ Ends[accepted[e]] = "NotSent"

LEMMA FrontGoes ==
  ASSUME InOrder, Fate, Shown, writes # <<>>
  PROVE  /\ \E p : FrontHasWire(p)
         /\ InFront \in Operations /\ InFront \notin completed /\ Ends[InFront] # "NotSent"
         /\ InFront \in Live(machine.pending) \/ sent[InFront] > 0
<1> DEFINE s == machine.pending
           i == FrontAt
<1>1. /\ i \in DOMAIN s /\ s[i].operation = InFront /\ InFront \in Operations
      /\ RecordSound(s[i]) /\ s[i].writeHeld
      /\ Contains(accepted, InFront) /\ InFront \notin completed /\ sent \in [Operations -> Nat]
      /\ \A j \in DOMAIN s : j < i => ~s[j].writeHeld
  BY FrontFacts
<1>2. /\ s \in Seq(OperationRecord) /\ accepted \in Seq(Operations) /\ machine \in Machine
      /\ Books(machine, permits) /\ poisoned = "None"
      /\ published \in [Operations -> Seq(Outcomes)]
  BY InOrderSound DEF TypeOK, InOrder
<1>3. HealthyFate /\ Known(s, sent, completed) /\ InWireOrder(s, accepted) /\ Fresh
  BY <1>2 DEF Fate, HealthyFate
<1>4. Passed(s, accepted, completed, published)
  <2>1. s # <<>>
    BY <1>1
  <2>2. machine.phase = "Live"
    BY <1>2, <2>1 DEF Books, Shut
  <2> QED
    BY <1>3, <2>2 DEF HealthyFate
<1>5. InFront \in Live(s) \/ sent[InFront] > 0
  <2>1. CASE s[i].phase # "Terminal"
    BY <1>1, <2>1 DEF Live
  <2>2. CASE s[i].phase = "Terminal"
    <3>1. s[i].delivery # "NotSent"
      BY <1>1, <2>2 DEF RecordSound
    <3>2. sent[InFront] # 0 /\ sent[InFront] \in Nat
      BY <1>1, <1>3, <3>1 DEF Known
    <3> QED
      BY <3>2
  <2> QED
    BY <2>1, <2>2
<1>6. Ends[InFront] # "NotSent"
  BY <1>1, <1>5 DEF Shown, Ends
<1>7. PICK p \in 1..Len(accepted) : accepted[p] = InFront
  BY <1>1 DEF Contains
<1>8. p \in DOMAIN accepted /\ DOMAIN accepted = 1..Len(accepted) /\ Len(accepted) \in Nat
  BY <1>2, <1>7
<1> HIDE DEF s, i
<1>9. ASSUME NEW e \in 1..(p - 1), accepted[e] \notin completed
      PROVE  Ends[accepted[e]] = "NotSent"
  <2>1. e \in DOMAIN accepted /\ e < p /\ p \in Nat /\ e \in Nat /\ accepted[e] \in Operations
    BY <1>2, <1>8
  <2>2. ~Holds(s, accepted[e])
    <3> SUFFICES ASSUME Holds(s, accepted[e]) PROVE FALSE
      OBVIOUS
    <3>1. PICK k \in DOMAIN s : s[k].operation = accepted[e]
      BY DEF Holds
    <3>2. s[k].writeHeld
      BY <1>3, <1>9, <3>1 DEF Known
    <3>3. k # i
      <4> SUFFICES ASSUME k = i PROVE FALSE
        OBVIOUS
      <4>1. accepted[e] = accepted[p]
        BY <1>1, <1>7, <3>1
      <4>2. e = p
        BY <1>3, <1>8, <2>1, <4>1 DEF Fresh
      <4> QED
        BY <2>1, <4>2
    <3>4. ~(i < k)
      <4> SUFFICES ASSUME i < k PROVE FALSE
        OBVIOUS
      <4>1. p < e
        BY <1>1, <1>3, <1>7, <1>8, <2>1, <3>1 DEF InWireOrder
      <4> QED
        BY <2>1, <4>1
    <3>5. k \in Nat /\ i \in Nat
      <4>1. DOMAIN s = 1..Len(s) /\ Len(s) \in Nat
        BY <1>2
      <4> QED
        BY <1>1, <4>1
    <3>6. ~(k < i)
      BY <1>1, <3>2
    <3> QED
      BY <3>3, <3>4, <3>5, <3>6
  <2>3. Withdrawn(published, accepted[e])
    BY <1>4, <1>9, <2>1, <2>2 DEF Passed
  <2>4. Told(accepted[e]) = "NotSent"
    BY <2>3 DEF Withdrawn, Told
  <2> QED
    BY <2>1, <2>4 DEF Ends
<1>10. FrontHasWire(p)
  BY <1>7, <1>8, <1>9 DEF FrontHasWire
<1> QED
  BY <1>1, <1>5, <1>6, <1>10 DEF s

LEMMA ShownTransmits ==
  ASSUME InOrder, Fate, Shown, Shown', writes # <<>>, NEW n \in Nat,
         CountSent(writes[1].operation, n), accepted' = accepted,
         completed' \in {completed, completed \cup {InFront}},
         \/ Live(machine'.pending) = Live(machine.pending)
         \/ /\ Live(machine'.pending) = Live(machine.pending) \ {InFront}
            /\ InFront \in completed'
  PROVE  Lifecycle!Next
<1> DEFINE live == Live(machine.pending)
           left == Live(machine'.pending)
<1>1. PICK p : FrontHasWire(p)
  BY FrontGoes
<1>2. /\ InFront \in Operations /\ InFront \notin completed /\ Ends[InFront] # "NotSent"
      /\ InFront \in live \/ sent[InFront] > 0
  BY FrontGoes
<1>3. PICK x : x = InFront
  OBVIOUS
<1>4. /\ p \in DOMAIN accepted /\ accepted[p] = x /\ x \in Operations
      /\ \A e \in 1..(p - 1) : accepted[e] \in completed \/ Ends[accepted[e]] = "NotSent"
  BY <1>1, <1>2, <1>3 DEF FrontHasWire
<1>5. sent' = [sent EXCEPT ![x] = @ + n] /\ sent \in [Operations -> Nat]
  BY <1>3, <1>4 DEF CountSent, InFront, Shown
<1>6. /\ sent[x] \in Nat /\ sent'[x] = sent[x] + n
      /\ \A y \in Operations : y # x => sent'[y] = sent[y]
  BY <1>4, <1>5
<1>7. Touched' \in {Touched, Touched \cup {x}}
  <2>1. /\ \A y \in Operations : y # x => (y \in Touched' <=> y \in Touched)
        /\ x \in Touched => x \in Touched'
        /\ Touched \subseteq Operations /\ Touched' \subseteq Operations
    BY <1>6 DEF Touched
  <2>2. CASE x \in Touched'
    <3>1. Touched' = Touched \cup {x}
      BY <1>4, <2>1, <2>2
    <3> QED
      BY <3>1
  <2>3. CASE x \notin Touched'
    <3>1. \A y : y \in Touched' <=> y \in Touched
      BY <2>1, <2>3
    <3>2. Touched' = Touched
      BY <3>1
    <3> QED
      BY <3>2
  <2> QED
    BY <2>2, <2>3
<1>8. \A y \in Operations : y \notin live /\ Contains(accepted, y) => (sent'[y] > 0 <=> sent[y] > 0)
  BY <1>2, <1>3, <1>6
<1>9. \/ Statuses' = Statuses /\ Ends' = Ends
      \/ x \in completed' /\ Finishes({x})
  <2>1. CASE left = live
    <3>1. left = live \ {} /\ {} \subseteq live /\ {} \in SUBSET Operations
      BY <2>1
    <3>2. PICK E : E = {}
      OBVIOUS
    <3> QED
      BY <1>8, <3>1, <3>2, ShownEnds
  <2>2. CASE left # live
    <3>1. left = live \ {InFront} /\ InFront \in completed' /\ InFront \in live
      BY <2>2
    <3>2. PICK E : E = {x}
      OBVIOUS
    <3>3. /\ E \in SUBSET Operations /\ E \subseteq live /\ left = live \ E
      BY <1>3, <1>4, <3>1, <3>2
    <3>4. Finishes(E)
      BY <1>8, <3>3, ShownEnds
    <3> QED
      BY <1>3, <3>1, <3>2, <3>4
  <2> QED
    BY <2>1, <2>2
<1>10. Lifecycle!Transmit(p)
  BY <1>2, <1>3, <1>4, <1>7, <1>9, ShowsTransmit
<1> QED
  BY <1>4, <1>10 DEF Lifecycle!Next

LEMMA ShownCommits ==
  ASSUME InOrder, Fate, Shown, Shown', NEW permit \in permits, NEW frame \in Frames,
         Commit(permit, frame)
  PROVE  Lifecycle!Next
<1> DEFINE s == machine.pending
           live == Live(machine.pending)
           left == Live(machine'.pending)
           r == [operation |-> permit.operation, effect |-> permit.effect,
                 deadline |-> permit.deadline,
                 reservation |-> [permit.reservation EXCEPT !.writeRetained = frame.retained],
                 phase |-> "Queued", completion |-> permit.completion,
                 delivery |-> "NotSent", writeHeld |-> TRUE]
<1>1. /\ machine \in Machine /\ s \in Seq(OperationRecord) /\ permits \in SUBSET Permit
      /\ accepted \in Seq(Operations)
  BY InOrderSound DEF TypeOK
<1>2. PICK x : x = permit.operation
  OBVIOUS
<1>3. /\ machine' = CommitPermit(machine, permit, frame) /\ accepted' = Append(accepted, x)
      /\ sent' = sent /\ completed' = completed
  BY <1>2 DEF Commit
<1>4. machine'.pending = Append(s, r)
  BY <1>1, <1>3 DEF CommitPermit, Machine
<1>5. r.operation = x /\ r.phase # "Terminal"
  BY <1>2
<1>6. x \in Operations /\ ~Contains(accepted, x)
  BY <1>1, <1>2 DEF Permit, Fate, Fresh
<1> HIDE DEF r
<1>7. left = live \cup {x}
  <2> DEFINE w == Append(s, r)
             k == Len(s)
  <2>1. k \in Nat /\ DOMAIN s = 1..k /\ DOMAIN w = 1..(k + 1)
    BY <1>1
  <2>2. w[k + 1] = r /\ \A i \in 1..k : w[i] = s[i]
    BY <1>1
  <2> HIDE DEF w, k, s
  <2>3. \A i \in 1..(k + 1) : i = k + 1 \/ i \in 1..k
    BY <2>1
  <2>4. k + 1 \in 1..(k + 1) /\ \A i \in 1..k : i \in 1..(k + 1)
    BY <2>1
  <2>5. Live(w) = Live(s) \cup {r.operation}
    BY <1>5, <2>1, <2>2, <2>3, <2>4 DEF Live
  <2> QED
    BY <1>4, <1>5, <2>5 DEF w, s
<1>8. \A y \in Operations : Contains(accepted', y) <=> Contains(accepted, y) \/ y = x
  BY <1>1, <1>3, <1>6, ContainsAppend
<1>9. /\ Unresolved = live /\ Unresolved' = left
      /\ \A y \in live : y \in Operations => Contains(accepted, y)
  BY DEF Shown
<1>10. Touched' = Touched
  BY <1>3 DEF Touched
<1>11. x \notin live
  BY <1>6, <1>9
<1>12. \A y \in Operations : Told(y)' = Told(y)
  <2>1. \A y \in Operations :
          Told(y) = IF Contains(accepted, y) /\ y \notin live
                    THEN IF sent[y] > 0 THEN "PossiblySent" ELSE "NotSent"
                    ELSE "Nothing"
    BY DEF Shown
  <2>2. \A y \in Operations :
          Told(y)' = IF Contains(accepted', y) /\ y \notin left
                     THEN IF sent'[y] > 0 THEN "PossiblySent" ELSE "NotSent"
                     ELSE "Nothing"
    BY DEF Shown
  <2> HIDE DEF live, left
  <2> QED
    BY <1>3, <1>6, <1>7, <1>8, <2>1, <2>2
<1> HIDE DEF live, left
<1>13. Ends' = Ends
  BY <1>12 DEF Ends
<1>14. /\ Statuses = [y \in Operations |-> IF y \in live THEN "Owed"
                                           ELSE IF Contains(accepted, y) THEN "Done" ELSE "Unknown"]
       /\ Statuses' = [y \in Operations |-> IF y \in left THEN "Owed"
                                            ELSE IF Contains(accepted', y) THEN "Done" ELSE "Unknown"]
  BY <1>9 DEF Statuses
<1>15. Statuses[x] = "Unknown" /\ Statuses' = [Statuses EXCEPT ![x] = "Owed"]
  BY <1>6, <1>7, <1>8, <1>11, <1>14
<1>16. Lifecycle!Accept(x)
  BY <1>3, <1>10, <1>13, <1>15, ShowsAccept
<1> QED
  BY <1>6, <1>16 DEF Lifecycle!Next

LEMMA RecoverShows ==
  ASSUME machine \in Machine, Shown, Shown', Recover
  PROVE  Lifecycle!Next \/ UNCHANGED Lifecycle!lifecycleVars
<1>1. machine'.pending = <<>> /\ UNCHANGED <<accepted, sent, completed>>
  BY DEF Recover, Machine
<1>2. Live(machine'.pending) = {}
  BY <1>1 DEF Live
<1> QED
  BY <1>1, <1>2, ShownSettles

LEMMA HealthyShows ==
  ASSUME Faults = {}, InOrder, Fate, Next, Owned', Fate', Shown, Shown'
  PROVE  Lifecycle!Next \/ UNCHANGED Lifecycle!lifecycleVars
<1> DEFINE Goal == Lifecycle!Next \/ UNCHANGED Lifecycle!lifecycleVars
<1> SUFFICES Goal
  OBVIOUS
<1>1. machine \in Machine /\ TypeOK'
  BY InOrderSound DEF Owned, Accounted, TypedDrain
<1>2. ASSUME UNCHANGED <<accepted, sent, completed>>,
             Live(machine'.pending) \subseteq Live(machine.pending)
      PROVE  Goal
  BY <1>1, <1>2, ShownSettles
<1>3. ASSUME UNCHANGED <<accepted, sent, completed>>, machine'.pending = machine.pending PROVE Goal
  BY <1>2, <1>3
<1> HIDE DEF Goal
<1>4. ASSUME NEW now \in Moments, NEW options \in Options, Reserve(now, options) PROVE Goal
  BY <1>3, <1>4, AdmissionOwns DEF Reserve, worldVars
<1>5. ASSUME NEW permit \in permits, DropPermit(permit) PROVE Goal
  BY <1>3, <1>5, AdmissionOwns DEF DropPermit, worldVars
<1>6. ASSUME NEW permit \in permits, NEW frame \in Frames, Commit(permit, frame) PROVE Goal
  BY <1>6, ShownCommits DEF Goal
<1>7. CASE Input
  <2>1. PICK t, fired : Settled(t, fired)
    BY <1>7, InputSettles
  <2>2. /\ Tells(machine.pending, t.publish, t.machine.pending) /\ machine' = t.machine
        /\ UNCHANGED <<accepted, sent, completed>>
    BY <2>1 DEF Settled, Resolves
  <2>3. Live(machine'.pending) \subseteq Live(machine.pending)
    BY <2>2 DEF Tells
  <2> QED
    BY <1>2, <2>2, <2>3
<1>8. ASSUME NEW n \in 0..MaxReported, AdvanceWrite(n) PROVE Goal
  <2>1. n \in Nat
    BY CoreAssumption
  <2>2. /\ writes # <<>> /\ CountSent(writes[1].operation, n) /\ accepted' = accepted
    BY <1>8 DEF AdvanceWrite, OverReport, PartialWrite, CompleteWrite, WritePending
  <2>3. ASSUME completed' = completed, Live(machine'.pending) = Live(machine.pending) PROVE Goal
    BY <2>1, <2>2, <2>3, ShownTransmits DEF Goal
  <2>4. CASE OverReport(n)
    BY <2>3, <2>4 DEF OverReport
  <2>5. CASE PartialWrite(n)
    <3>1. machine' = Advanced(n) /\ completed' = completed
      BY <2>5, PartialOwns DEF PartialWrite, Advanced, InFront
    <3>2. Live(Advanced(n).pending) = Live(machine.pending)
      BY <2>1, <2>2, AdvancedFate
    <3> QED
      BY <2>3, <3>1, <3>2
  <2>6. CASE CompleteWrite(n)
    <3>1. FramesMatch' /\ completed' = completed \cup {InFront}
      BY <2>6, CompleteOwns DEF Completed, InFront
    <3>2. Live(machine'.pending) \in {Live(machine.pending), Live(machine.pending) \ {InFront}}
      BY <1>1, <2>6, <3>1, CompletedFate
    <3> QED
      BY <2>1, <2>2, <3>1, <3>2, ShownTransmits DEF Goal
  <2> QED
    BY <1>8, <2>4, <2>5, <2>6 DEF AdvanceWrite
<1>9. CASE FrontWriteViolation
  BY <1>3, <1>9 DEF FrontWriteViolation, worldVars
<1>10. ~AuditFails
  BY AuditPasses DEF AuditFails
<1>11. CASE Recover
  BY <1>11, <1>1, RecoverShows DEF Goal
<1>12. /\ \A i \in DOMAIN writes : ~LoseWrite(i)
       /\ \A frame \in Frames : ~StrayWrite(frame)
  BY DEF LoseWrite, StrayWrite
<1> QED
  BY <1>4, <1>5, <1>6, <1>7, <1>8, <1>9, <1>10, <1>11, <1>12 DEF Next, Input

LEMMA NextShows ==
  ASSUME Faults = {}, Fated, Fated', [Next]_vars, Shown, Shown'
  PROVE  [Lifecycle!Next]_(Lifecycle!lifecycleVars)
<1>1. machine \in Machine /\ Owned /\ Owned' /\ Fate /\ Fate'
  BY DEF Fated, Owned, Accounted, TypedDrain, TypeOK
<1>2. CASE UNCHANGED vars
  <2>1. UNCHANGED <<machine, accepted, sent, completed>>
    BY <1>2 DEF vars
  <2> QED
    BY <1>1, <2>1, ShownSettles
<1>3. CASE Next /\ poisoned = "None"
  <2>1. InOrder
    BY <1>1, <1>3 DEF Owned, InOrder
  <2> QED
    BY <1>1, <1>3, <2>1, HealthyShows
<1>4. CASE Next /\ poisoned # "None"
  <2>1. ~Healthy /\ ~WritePending
    BY <1>4 DEF Healthy, WritePending
  <2>2. \/ \E permit \in permits : DropPermit(permit)
        \/ Recover
    BY <1>4, <2>1 DEF Next, Reserve, Commit, OpenAdmission, BeginDrain, EpochClosed,
         CloseRequested, ReplyMalformed, Cancel, DeadlineElapsed, ApplyReply, AdvanceWrite,
         OverReport, PartialWrite, CompleteWrite, FrontWriteViolation, AuditFails, LoseWrite,
         StrayWrite
  <2>3. CASE Recover
    BY <1>1, <2>3, RecoverShows
  <2>4. ASSUME NEW permit \in permits, DropPermit(permit)
        PROVE  [Lifecycle!Next]_(Lifecycle!lifecycleVars)
    <3>1. /\ machine'.pending = machine.pending
          /\ UNCHANGED <<accepted, sent, completed>>
      BY <1>1, <2>4 DEF DropPermit, worldVars, Machine
    <3> QED
      BY <1>1, <3>1, ShownSettles
  <2> QED
    BY <2>2, <2>3, <2>4
<1> QED
  BY <1>2, <1>3, <1>4

LEMMA InitShows == Init => Lifecycle!Init
<1> SUFFICES ASSUME Init PROVE Lifecycle!Init
  OBVIOUS
<1>1. /\ machine.pending = <<>> /\ journal.operations = <<>> /\ accepted = <<>> /\ completed = {}
      /\ sent = [operation \in Operations |-> 0]
      /\ published = [operation \in Operations |-> <<>>] /\ recovery.operations = <<>>
  BY DEF Init, NewMachine, EmptyJournal
<1>2. Unresolved = {} /\ \A x \in Operations : ~Contains(accepted, x) /\ RecoveredAt(x) = {}
  BY <1>1 DEF Unresolved, RecoveredAt, Contains
<1>3. \A x \in Operations : Told(x) = "Nothing"
  BY <1>1, <1>2 DEF Told
<1>4. {x \in Operations : sent[x] > 0} = {}
  BY <1>1
<1> QED
  BY <1>1, <1>2, <1>3, <1>4 DEF Lifecycle!Init

\* The aggregate keeps the promise of OperationLifecycle to the application: one
\* truthful end for each accepted operation, and frames go onto the wire whole,
\* one after the other, in the order they were accepted.
THEOREM CoreImplementsLifecycle ==
  ASSUME Faults = {}
  PROVE  Spec => KeepsLifecycle
<1>1. Fated => TypeOK /\ Fate
  BY DEF Fated, Owned, Accounted, TypedDrain
<1>2. Spec => []Shown
  BY <1>1, SpecFated, FateShown, PTL
<1>3. Fated /\ Fated' /\ Shown /\ Shown' /\ [Next]_vars
        => [Lifecycle!Next]_(Lifecycle!lifecycleVars)
  BY NextShows
<1>4. Spec => Lifecycle!Init
  BY InitShows DEF Spec
<1> QED
  BY <1>2, <1>3, <1>4, SpecFated, PTL DEF Spec, KeepsLifecycle, Lifecycle!Spec

(***************************************************************************)
(* Core and peer together: the replies and requests in flight are those    *)
(* of the FIFO's front, so that each reply meets the operation whose       *)
(* request it answers.                                                     *)
(***************************************************************************)

Request == [operation : Operations, key : Keys]

Blames == {"UnexpectedReply", "MatchKeyMismatch"}

Waiting(s) == {i \in DOMAIN s : ~s[i].writeHeld}

\* InFlightMatchesFifo for a FIFO and the two streams.
Answers(s, inFlight) ==
  /\ Waiting(s) = DOMAIN inFlight
  /\ \A i \in DOMAIN inFlight : /\ s[i].operation = inFlight[i].operation
                                /\ s[i].reservation.key = inFlight[i].key

\* A record without a frame was sent and may own a reply.
Awaits(s) ==
  \A i \in Waiting(s) : /\ s[i].delivery = "PossiblySent"
                        /\ s[i].phase \in {"AwaitingReply", "Terminal"}

Addressed(told) ==
  \A operation \in Operations : \A i \in DOMAIN told[operation] :
    told[operation][i].kind = "Reply" => told[operation][i].reply = operation

Streams ==
  /\ requests \in Seq(Request) /\ replies \in Seq(Request)
  /\ machine.closeReason \notin Blames
  /\ Addressed(published)
  /\ machine.phase = "Live" => /\ Answers(machine.pending, replies \o requests)
                               /\ Awaits(machine.pending)

PeerInv == Fated /\ Streams

LEMMA StreamsMean == Streams => ReplyReachesItsOperation
  BY DEF Streams, ReplyReachesItsOperation, Addressed, Blames, Answers, Waiting,
         InFlightMatchesFifo

(***************************************************************************)
(* Transitions that leave the waiting records where they are.              *)
(***************************************************************************)
SameWaiting(s, r) ==
  /\ Waiting(r) = Waiting(s)
  /\ \A i \in Waiting(s) : /\ r[i].operation = s[i].operation
                           /\ r[i].reservation = s[i].reservation
                           /\ r[i].delivery = s[i].delivery
                           /\ r[i].phase \in {s[i].phase, "Terminal"}

LEMMA SameAnswers ==
  ASSUME NEW s, NEW r, SameWaiting(s, r), NEW inFlight
  PROVE  /\ Answers(s, inFlight) => Answers(r, inFlight)
         /\ Awaits(s) => Awaits(r)
  BY DEF SameWaiting, Answers, Awaits

LEMMA SameSelf ==
  ASSUME NEW s
  PROVE  SameWaiting(s, s)
  BY DEF SameWaiting

Leaves(m, t) ==
  /\ t.machine.closeReason \in Blames => t.machine.closeReason = m.closeReason
  /\ \A x \in t.publish : x.kind # "Reply"
  /\ t.machine.phase = "Live" => m.phase = "Live" /\ SameWaiting(m.pending, t.machine.pending)

LEMMA QuietLeaves ==
  ASSUME NEW m, NEW t, t.machine.closeReason = m.closeReason, t.publish = {},
         t.machine.phase = "Live" => m.phase = "Live" /\ t.machine.pending = m.pending
  PROVE  Leaves(m, t)
  BY SameSelf DEF Leaves

LEMMA TransitionLeaves ==
  ASSUME NEW m
  PROVE  Leaves(m, Transition(m))
<1>1. Transition(m).machine = m /\ Transition(m).publish = {}
  BY DEF Transition
<1> QED
  BY <1>1, QuietLeaves

LEMMA CloseLeaves ==
  ASSUME NEW m \in Machine, NEW reason, reason \notin Blames
  PROVE  Leaves(m, CloseInto(Transition(m), reason, {}))
<1> DEFINE t == CloseInto(Transition(m), reason, {})
<1>1. CASE m.phase # "Live"
  <2>1. t = Transition(m)
    BY <1>1 DEF CloseInto, Transition
  <2> QED
    BY <2>1, TransitionLeaves
<1>2. CASE m.phase = "Live"
  <2>1. /\ t.machine.phase = "Closing" /\ t.machine.closeReason = reason
        /\ t.publish = ClosureOutcomes(m.pending, {})
    BY <1>2 DEF CloseInto, Transition, Machine
  <2>2. \A x \in ClosureOutcomes(m.pending, {}) : x.kind # "Reply"
    BY DEF ClosureOutcomes, Outcome
  <2>3. "Closing" # "Live"
    OBVIOUS
  <2> HIDE DEF t
  <2>4. Leaves(m, t)
    BY <2>1, <2>2, <2>3 DEF Leaves
  <2> QED
    BY <2>4 DEF t
<1> QED
  BY <1>1, <1>2

LEMMA FinishLeaves ==
  ASSUME NEW m, NEW t \in Transitions, Leaves(m, t)
  PROVE  Leaves(m, FinishDrain(t))
<1>1. FinishDrain(t).publish = t.publish
  BY FinishKeeps
<1>2. CASE FinishDrain(t) = t
  BY <1>2
<1>3. CASE FinishDrain(t) # t
  <2>1. FinishDrain(t).machine.phase = "Closing" /\ FinishDrain(t).machine.closeReason = "Drained"
    BY <1>3, FinishReason
  <2>2. "Drained" \notin Blames
    BY DEF Blames
  <2> QED
    BY <1>1, <2>1, <2>2 DEF Leaves
<1> QED
  BY <1>2, <1>3

LEMMA GateLeaves ==
  ASSUME NEW m \in Machine
  PROVE  /\ Leaves(m, OnOpenAdmission(m)) /\ Leaves(m, OnBeginDrain(m))
         /\ Leaves(m, OnEpochClosed(m))
<1>1. Leaves(m, OnOpenAdmission(m))
  <2>1. /\ OnOpenAdmission(m).publish = {} /\ OnOpenAdmission(m).machine.phase = m.phase
        /\ OnOpenAdmission(m).machine.pending = m.pending
        /\ OnOpenAdmission(m).machine.closeReason = m.closeReason
    BY DEF OnOpenAdmission, Transition, Machine
  <2> QED
    BY <2>1, QuietLeaves
<1>2. Leaves(m, OnEpochClosed(m))
  <2>1. /\ OnEpochClosed(m).machine.phase = "Live" => m.phase = "Live"
        /\ OnEpochClosed(m).machine.pending = m.pending
        /\ OnEpochClosed(m).machine.closeReason = m.closeReason
    BY DEF OnEpochClosed, Transition, Machine
  <2>2. OnEpochClosed(m).publish = {}
    BY DEF OnEpochClosed, Transition
  <2> QED
    BY <2>1, <2>2, QuietLeaves
<1>3. Leaves(m, OnBeginDrain(m))
  <2>1. CASE m.phase # "Live" \/ m.gate \in {"Closed", "Draining"}
    BY <2>1, TransitionLeaves DEF OnBeginDrain
  <2>2. CASE ~(m.phase # "Live" \/ m.gate \in {"Closed", "Draining"})
    <3> DEFINE d == [m EXCEPT !.gate = "Draining"]
    <3>1. d \in Machine /\ d.phase = m.phase /\ d.pending = m.pending
          /\ d.closeReason = m.closeReason
      BY DEF Machine, Gates
    <3>2. OnBeginDrain(m) = FinishDrain(Transition(d))
      BY <2>2 DEF OnBeginDrain
    <3> HIDE DEF d
    <3>3. /\ Transition(d).machine = d /\ Transition(d).publish = {}
      BY DEF Transition
    <3>4. Transition(d) \in Transitions
      BY <3>1, TransitionType
    <3>5. Leaves(m, Transition(d))
      BY <3>1, <3>3, QuietLeaves
    <3> QED
      BY <3>2, <3>4, <3>5, FinishLeaves
  <2> QED
    BY <2>1, <2>2
<1> QED
  BY <1>1, <1>2, <1>3

\* Records without a frame are in front, and a live one was sent from.
Queues(m) ==
  /\ \E k \in Nat : \A i \in DOMAIN m.pending : m.pending[i].writeHeld <=> i > k
  /\ m.phase = "Live" => Awaits(m.pending)

LEMMA RemovedWaiting ==
  ASSUME NEW s \in Seq(OperationRecord), NEW k \in Nat,
         \A i \in DOMAIN s : s[i].writeHeld <=> i > k,
         NEW j \in DOMAIN s, s[j].writeHeld
  PROVE  SameWaiting(s, RemoveAt(s, j))
<1> DEFINE r == RemoveAt(s, j)
           n == Len(s)
<1>1. n \in Nat /\ DOMAIN s = 1..n /\ j \in 1..n /\ j > k
  OBVIOUS
<1>2. /\ DOMAIN r = 1..(n - 1)
      /\ \A i \in 1..(n - 1) : r[i] = IF i < j THEN s[i] ELSE s[i + 1]
  <2>1. s \in Seq(OperationRecord) /\ j \in DOMAIN s /\ DOMAIN s = DOMAIN s
    OBVIOUS
  <2>2. \A i \in DOMAIN s : i # j => s[i] = s[i]
    OBVIOUS
  <2> HIDE DEF r, n
  <2>3. /\ DOMAIN RemoveAt(s, j) = 1..(Len(s) - 1)
        /\ \A i \in 1..(Len(s) - 1) : RemoveAt(s, j)[i] = IF i < j THEN s[i] ELSE s[i + 1]
    BY <2>1, <2>2, RemovedSame
  <2> QED
    BY <2>3 DEF r, n
<1> HIDE DEF r, n
<1>3. \A i \in 1..(n - 1) : i \in 1..n /\ i + 1 \in 1..n
  BY <1>1
<1>4. ASSUME NEW i \in 1..(n - 1), ~r[i].writeHeld
      PROVE  i < j /\ ~s[i].writeHeld
  <2> SUFFICES ASSUME ~(i < j) PROVE FALSE
    BY <1>1, <1>2, <1>3, <1>4
  <2>1. i + 1 \in DOMAIN s /\ i + 1 > k
    BY <1>1, <1>3
  <2> QED
    BY <1>2, <1>4, <2>1
<1>5. ASSUME NEW i \in DOMAIN s, ~s[i].writeHeld
      PROVE  i < j /\ i \in 1..(n - 1) /\ r[i] = s[i]
  <2>1. i < j
    BY <1>1, <1>5
  <2>2. i \in 1..(n - 1)
    BY <1>1, <2>1
  <2> QED
    BY <1>2, <2>1, <2>2
<1>6. Waiting(r) = Waiting(s)
  BY <1>1, <1>2, <1>3, <1>4, <1>5 DEF Waiting
<1>7. \A i \in Waiting(s) : r[i] = s[i]
  BY <1>5 DEF Waiting
<1>8. SameWaiting(s, r)
  BY <1>6, <1>7 DEF SameWaiting
<1> QED
  BY <1>8 DEF r

LEMMA RemoveNotSentLeaves ==
  ASSUME NEW m \in Machine, Queues(m), NEW operation, Holds(m.pending, operation),
         RecordOf(m, operation).delivery = "NotSent",
         NEW kind \in {"Cancelled", "DeadlineElapsed"}
  PROVE  Leaves(m, RemoveNotSent(m, operation, kind))
<1> DEFINE i == IndexOf(m.pending, operation)
           r == RemoveRecord(m, operation)
           outcome == Outcome(operation, kind, "NotSent", 0)
           record == RecordOf(m, operation)
           t == [Transition(r) EXCEPT !.discard = <<record>>,
                                      !.cancel = {operation}, !.publish = {outcome}]
<1>1. /\ r \in Machine /\ operation \in Operations /\ record \in OperationRecord
      /\ i \in DOMAIN m.pending /\ record = m.pending[i] /\ m.pending \in Seq(OperationRecord)
  BY RemoveRecordType, RecordOfType, IndexOfType, MachineFields DEF RecordOf
<1>2. /\ r.phase = m.phase /\ r.closeReason = m.closeReason
      /\ r.pending = RemoveAt(m.pending, i)
  BY DEF RemoveRecord, Machine
<1>3. outcome \in Outcomes /\ outcome.kind # "Reply"
  BY <1>1, OutcomeType DEF Deliveries, OutcomeKinds, Outcome
<1>4. RemoveNotSent(m, operation, kind) = FinishDrain(t)
  BY DEF RemoveNotSent
<1> HIDE DEF r, outcome, i
<1>5. t \in Transitions /\ t.machine = r /\ t.publish = {outcome}
  <2>1. /\ <<record>> \in Seq(OperationRecord)
        /\ {operation} \in SUBSET Operations /\ {outcome} \in SUBSET Outcomes
    BY <1>1, <1>3
  <2> QED
    BY <1>1, <2>1 DEF Transition, Transitions
<1>6. m.phase = "Live" => SameWaiting(m.pending, r.pending)
  <2> SUFFICES ASSUME m.phase = "Live" PROVE SameWaiting(m.pending, r.pending)
    OBVIOUS
  <2>1. m.pending[i].writeHeld
    BY <1>1 DEF Queues, Awaits, Waiting
  <2>2. PICK k \in Nat : \A j \in DOMAIN m.pending : m.pending[j].writeHeld <=> j > k
    BY DEF Queues
  <2> QED
    BY <1>1, <1>2, <2>1, <2>2, RemovedWaiting
<1>7. Leaves(m, t)
  <2> HIDE DEF t
  <2> QED
    BY <1>2, <1>3, <1>5, <1>6 DEF Leaves
<1> QED
  BY <1>4, <1>5, <1>7, FinishLeaves

LEMMA OnCancelLeaves ==
  ASSUME NEW m \in Machine, Queues(m), NEW operation
  PROVE  Leaves(m, OnCancel(m, operation))
<1> DEFINE i == IndexOf(m.pending, operation)
           record == RecordOf(m, operation)
           tomb == [record EXCEPT !.phase = "Terminal"]
           r == SetRecord(m, operation, tomb)
           outcome == Outcome(operation, "Cancelled", "PossiblySent", 0)
           t == [Transition(r) EXCEPT !.publish = {outcome}]
<1>1. CASE ~Holds(m.pending, operation) \/ record.phase = "Terminal"
  BY <1>1, TransitionLeaves DEF OnCancel
<1>2. CASE /\ Holds(m.pending, operation) /\ record.phase # "Terminal"
           /\ record.delivery = "NotSent"
  BY <1>2, RemoveNotSentLeaves DEF OnCancel
<1>3. CASE /\ Holds(m.pending, operation) /\ record.phase # "Terminal"
           /\ record.delivery # "NotSent"
  <2>1. OnCancel(m, operation) = t
    BY <1>3 DEF OnCancel
  <2>2. r.phase = m.phase /\ r.closeReason = m.closeReason
    BY DEF SetRecord, Machine
  <2>3. r.pending = [m.pending EXCEPT ![i] = tomb]
    BY MarkedPending
  <2>4. /\ i \in DOMAIN m.pending /\ record = m.pending[i] /\ record \in OperationRecord
        /\ m.pending \in Seq(OperationRecord)
    BY <1>3, IndexOfType, RecordOfType, MachineFields DEF RecordOf
  <2>5. /\ tomb.operation = record.operation /\ tomb.reservation = record.reservation
        /\ tomb.delivery = record.delivery /\ tomb.phase = "Terminal"
        /\ tomb.writeHeld = record.writeHeld
    BY <2>4 DEF OperationRecord
  <2> HIDE DEF r, tomb, i, record
  <2>6. DOMAIN r.pending = DOMAIN m.pending
        /\ \A j \in DOMAIN m.pending : r.pending[j] = IF j = i THEN tomb ELSE m.pending[j]
    BY <2>3, <2>4
  <2>7. Waiting(r.pending) = Waiting(m.pending)
    BY <2>4, <2>5, <2>6 DEF Waiting
  <2>8. SameWaiting(m.pending, r.pending)
    BY <2>4, <2>5, <2>6, <2>7 DEF SameWaiting, Waiting
  <2>9. t.machine = r /\ t.publish = {outcome} /\ outcome.kind # "Reply"
    BY DEF Transition, Outcome
  <2>10. Leaves(m, t)
    <3> HIDE DEF t, outcome
    <3> QED
      BY <2>2, <2>8, <2>9 DEF Leaves
  <2> QED
    BY <2>1, <2>10
<1> QED
  BY <1>1, <1>2, <1>3

LEMMA OnDeadlineElapsedLeaves ==
  ASSUME NEW m \in Machine, Queues(m), NEW operation, NEW now
  PROVE  Leaves(m, OnDeadlineElapsed(m, operation, now))
<1> DEFINE record == RecordOf(m, operation)
           t == [Transition(m) EXCEPT !.schedule = {<<operation, record.deadline>>}]
<1>1. CASE ~Holds(m.pending, operation)
  BY <1>1, TransitionLeaves DEF OnDeadlineElapsed
<1>2. CASE Holds(m.pending, operation) /\ ~IsElapsedAt(record.deadline, now)
  <2>1. OnDeadlineElapsed(m, operation, now) = t
    BY <1>2 DEF OnDeadlineElapsed
  <2>2. t.machine = m /\ t.publish = {}
    BY DEF Transition
  <2> QED
    BY <2>1, <2>2, QuietLeaves
<1>3. CASE /\ Holds(m.pending, operation) /\ IsElapsedAt(record.deadline, now)
           /\ record.delivery = "PossiblySent"
  <2>1. "DeadlineAfterPossibleSend" \notin Blames
    BY DEF Blames
  <2> QED
    BY <1>3, <2>1, CloseLeaves DEF OnDeadlineElapsed
<1>4. CASE /\ Holds(m.pending, operation) /\ IsElapsedAt(record.deadline, now)
           /\ record.delivery # "PossiblySent"
  <2>1. record.delivery = "NotSent"
    BY <1>4, RecordOfType, RecordFields DEF Deliveries
  <2> QED
    BY <1>4, <2>1, RemoveNotSentLeaves DEF OnDeadlineElapsed
<1> QED
  BY <1>1, <1>2, <1>3, <1>4

(***************************************************************************)
(* What a settled call does to the streams.                                *)
(***************************************************************************)
LEMMA EmitAddressed ==
  ASSUME published \in [Operations -> Seq(Outcomes)], NEW t, Emit(t),
         \A x \in t.publish : x.kind = "Reply" => x.reply = x.operation,
         Addressed(published)
  PROVE  Addressed(published')
<1> SUFFICES ASSUME NEW operation \in Operations, NEW i \in DOMAIN published'[operation],
                    published'[operation][i].kind = "Reply"
             PROVE  published'[operation][i].reply = operation
  BY DEF Addressed
<1> DEFINE outcomes == {x \in t.publish : x.operation = operation}
<1>1. published'[operation] = IF outcomes = {} THEN published[operation]
                              ELSE Append(published[operation], CHOOSE x \in outcomes : TRUE)
  BY DEF Emit
<1>2. published[operation] \in Seq(Outcomes) /\ Len(published[operation]) \in Nat
  OBVIOUS
<1>3. CASE outcomes = {}
  BY <1>1, <1>3 DEF Addressed
<1>4. CASE outcomes # {}
  <2>1. PICK x \in outcomes : published'[operation] = Append(published[operation], x)
    BY <1>1, <1>4
  <2>2. CASE i \in DOMAIN published[operation]
    BY <1>2, <2>1, <2>2 DEF Addressed
  <2>3. CASE i = Len(published[operation]) + 1
    BY <1>2, <2>1, <2>3
  <2>4. i \in DOMAIN published[operation] \/ i = Len(published[operation]) + 1
    <3> HIDE DEF outcomes
    <3>1. DOMAIN Append(published[operation], x) = 1..(Len(published[operation]) + 1)
      BY <1>2
    <3> QED
      BY <1>2, <2>1, <3>1
  <2> QED
    BY <2>2, <2>3, <2>4
<1> QED
  BY <1>3, <1>4

LEMMA SettleTakes ==
  ASSUME NEW t, NEW j, NEW fired, Settle(t, j, fired), poisoned' = "None"
  PROVE  machine' = t.machine /\ Emit([t EXCEPT !.cancel = @ \cup fired])
  BY DEF Settle

LEMMA InputStreams ==
  ASSUME TypeOK, Streams, NEW t \in Transitions, Leaves(machine, t), NEW fired,
         machine' = t.machine, Emit([t EXCEPT !.cancel = @ \cup fired]), UNCHANGED peerVars
  PROVE  Streams'
<1> DEFINE e == [t EXCEPT !.cancel = @ \cup fired]
<1>1. published \in [Operations -> Seq(Outcomes)]
  BY DEF TypeOK
<1>2. e.publish = t.publish
  BY DEF Transitions
<1>3. Addressed(published')
  <2> HIDE DEF e
  <2>1. Emit(e)
    BY DEF e
  <2> QED
    BY <1>1, <1>2, <2>1, EmitAddressed DEF Streams, Leaves
<1>4. machine'.closeReason \notin Blames
  BY DEF Leaves, Streams
<1>5. ASSUME machine'.phase = "Live"
      PROVE  Answers(machine'.pending, replies \o requests) /\ Awaits(machine'.pending)
  <2>1. machine.phase = "Live" /\ SameWaiting(machine.pending, machine'.pending)
    BY <1>5 DEF Leaves
  <2> QED
    BY <2>1, SameAnswers DEF Streams
<1>6. requests' = requests /\ replies' = replies
  BY DEF peerVars
<1> QED
  BY <1>3, <1>4, <1>5, <1>6 DEF Streams

LEMMA InOrderQueues ==
  ASSUME InOrder, Streams
  PROVE  Queues(machine)
<1>1. machine.pending \in Seq(OperationRecord) /\ writes \in Seq(QueuedWrite)
  BY InOrderSound
<1>2. PICK k \in Nat : AlignedAt(k, machine.pending, writes)
  BY DEF InOrder, FramesMatch, Matched, Aligned
<1>3. \A i \in DOMAIN machine.pending : machine.pending[i].writeHeld <=> i > k
  BY <1>1, <1>2, HeldFrom
<1> QED
  BY <1>3 DEF Queues, Streams

\* Nothing the streams are about has changed.
LEMMA StillStreams ==
  ASSUME Streams, UNCHANGED <<peerVars, published>>, machine'.phase = machine.phase,
         machine'.closeReason = machine.closeReason,
         SameWaiting(machine.pending, machine'.pending)
  PROVE  Streams'
<1>1. requests' = requests /\ replies' = replies
  BY DEF peerVars
<1>2. machine.phase = "Live" => /\ Answers(machine'.pending, replies \o requests)
                                /\ Awaits(machine'.pending)
  BY SameAnswers DEF Streams
<1> QED
  BY <1>1, <1>2 DEF Streams

LEMMA AppendedWaiting ==
  ASSUME NEW s \in Seq(OperationRecord), NEW r \in OperationRecord, r.writeHeld
  PROVE  SameWaiting(s, Append(s, r))
<1> DEFINE v == Append(s, r)
<1>1. DOMAIN s = 1..Len(s) /\ Len(s) \in Nat /\ DOMAIN v = 1..(Len(s) + 1)
  OBVIOUS
<1>2. v[Len(s) + 1] = r /\ \A i \in 1..Len(s) : v[i] = s[i]
  OBVIOUS
<1>3. \A i \in 1..(Len(s) + 1) : i \in 1..Len(s) \/ i = Len(s) + 1
  BY <1>1
<1>4. \A i \in 1..Len(s) : i \in 1..(Len(s) + 1)
  BY <1>1
<1> HIDE DEF v
<1>5. Waiting(v) = Waiting(s)
  BY <1>1, <1>2, <1>3, <1>4 DEF Waiting
<1>6. \A i \in Waiting(s) : v[i] = s[i]
  BY <1>1, <1>2 DEF Waiting
<1>7. SameWaiting(s, v)
  BY <1>5, <1>6 DEF SameWaiting
<1> QED
  BY <1>7 DEF v

LEMMA AdmissionStreams ==
  ASSUME InOrder, Streams, UNCHANGED peerVars
  PROVE  /\ \A now \in Moments, options \in Options : Reserve(now, options) => Streams'
         /\ \A permit \in permits, frame \in Frames : Commit(permit, frame) => Streams'
<1>1. machine \in Machine /\ machine.pending \in Seq(OperationRecord)
  BY InOrderSound
<1>2. ASSUME NEW now \in Moments, NEW options \in Options, Reserve(now, options)
      PROVE  Streams'
  <2>1. /\ machine'.pending = machine.pending /\ machine'.phase = machine.phase
        /\ machine'.closeReason = machine.closeReason /\ published' = published
    BY <1>1, <1>2 DEF Reserve, ReserveMachine, Machine, worldVars
  <2> QED
    BY <2>1, SameSelf, StillStreams
<1>3. ASSUME NEW permit \in permits, NEW frame \in Frames, Commit(permit, frame)
      PROVE  Streams'
  <2> DEFINE r == [operation |-> permit.operation, effect |-> permit.effect,
                   deadline |-> permit.deadline,
                   reservation |-> [permit.reservation EXCEPT !.writeRetained = frame.retained],
                   phase |-> "Queued", completion |-> permit.completion,
                   delivery |-> "NotSent", writeHeld |-> TRUE]
  <2>1. machine' = CommitPermit(machine, permit, frame) /\ published' = published
    BY <1>3 DEF Commit
  <2>2. /\ machine'.phase = machine.phase /\ machine'.closeReason = machine.closeReason
        /\ machine'.pending = Append(machine.pending, r)
    BY <1>1, <2>1 DEF CommitPermit, Machine
  <2>3. r.writeHeld
    OBVIOUS
  <2>4. r \in OperationRecord
    <3>1. permit \in Permit
      BY InOrderSound DEF TypeOK
    <3>2. frame.retained \in Nat
      BY FramesAssumption
    <3> QED
      BY <3>1, <3>2 DEF Permit, OperationRecord, Reservation, OperationPhases, Deliveries
  <2> HIDE DEF r
  <2> QED
    BY <1>1, <2>1, <2>2, <2>3, <2>4, AppendedWaiting, StillStreams
<1> QED
  BY <1>2, <1>3

\* Dropping a permit touches the ledger only, also on a poisoned owner.
LEMMA DropStreams ==
  ASSUME TypeOK, Streams, UNCHANGED peerVars, NEW permit \in permits, DropPermit(permit)
  PROVE  Streams'
<1>1. machine \in Machine
  BY DEF TypeOK
<1>2. /\ machine'.pending = machine.pending /\ machine'.phase = machine.phase
      /\ machine'.closeReason = machine.closeReason /\ published' = published
  BY <1>1 DEF DropPermit, Machine, worldVars
<1> QED
  BY <1>2, SameSelf, StillStreams

LEMMA CallStreams ==
  ASSUME InOrder, Streams, UNCHANGED peerVars,
         \/ OpenAdmission \/ BeginDrain \/ EpochClosed
         \/ \E reason \in RequestedReasons : CloseRequested(reason)
         \/ \E operation \in Operations : Cancel(operation)
         \/ \E operation \in Operations, now \in Moments : DeadlineElapsed(operation, now)
  PROVE  Streams'
<1>1. machine \in Machine /\ TypeOK /\ DrainWaits(machine) /\ Queues(machine)
  BY InOrderSound, InOrderQueues
<1>2. poisoned' = "None"
  BY InputSettles DEF Input, Settled
<1>3. ASSUME NEW t \in Transitions, Leaves(machine, t), NEW j, NEW fired, Settle(t, j, fired)
      PROVE  Streams'
  BY <1>1, <1>2, <1>3, SettleTakes, InputStreams
<1>4. CASE OpenAdmission
  BY <1>1, <1>3, <1>4, GateLeaves, OnOpenAdmissionType DEF OpenAdmission
<1>5. CASE BeginDrain
  BY <1>1, <1>3, <1>5, GateLeaves, OnBeginDrainType DEF BeginDrain
<1>6. CASE EpochClosed
  BY <1>1, <1>3, <1>6, GateLeaves, OnEpochClosedType DEF EpochClosed
<1>7. ASSUME NEW reason \in RequestedReasons, CloseRequested(reason)
      PROVE  Streams'
  <2>1. reason \in ExternalReasons /\ reason \notin Blames
    BY CoreAssumption DEF ExternalReasons, Blames
  <2>2. OnCloseRequested(machine, reason) \in Transitions
    BY <1>1, <2>1, OnCloseRequestedType
  <2>3. Leaves(machine, OnCloseRequested(machine, reason))
    BY <1>1, <2>1, CloseLeaves DEF OnCloseRequested
  <2> QED
    BY <1>3, <1>7, <2>2, <2>3 DEF CloseRequested
<1>8. ASSUME NEW operation \in Operations, Cancel(operation)
      PROVE  Streams'
  <2>1. /\ OnCancel(machine, operation) \in Transitions
        /\ Leaves(machine, OnCancel(machine, operation))
    BY <1>1, OnCancelType, OnCancelLeaves
  <2> QED
    BY <1>3, <1>8, <2>1 DEF Cancel
<1>9. ASSUME NEW operation \in Operations, NEW now \in Moments, DeadlineElapsed(operation, now)
      PROVE  Streams'
  <2>1. /\ OnDeadlineElapsed(machine, operation, now) \in Transitions
        /\ Leaves(machine, OnDeadlineElapsed(machine, operation, now))
    BY <1>1, OnDeadlineElapsedType, OnDeadlineElapsedLeaves
  <2> QED
    BY <1>3, <1>9, <2>1 DEF DeadlineElapsed
<1> QED
  BY <1>4, <1>5, <1>6, <1>7, <1>8, <1>9

(***************************************************************************)
(* Transport progress, the peer and the replies.                           *)
(***************************************************************************)

\* The writer's front frame is of the first record that is not in flight.
LEMMA FrontIsNext ==
  ASSUME InOrder, Fate, writes # <<>>, NEW f \in Seq(Request), Answers(machine.pending, f)
  PROVE  FrontAt = Len(f) + 1
<1> DEFINE s == machine.pending
           p == Len(f) + 1
<1>1. /\ FrontAt \in DOMAIN s /\ s[FrontAt].writeHeld
      /\ \A j \in DOMAIN s : j < FrontAt => ~s[j].writeHeld
  BY FrontFacts
<1>2. DOMAIN s = 1..Len(s) /\ Len(s) \in Nat
  BY InOrderSound
<1>3. DOMAIN f = 1..Len(f) /\ Len(f) \in Nat
  OBVIOUS
<1>4. FrontAt \notin 1..Len(f)
  BY <1>1, <1>3 DEF Answers, Waiting
<1>5. FrontAt \in Nat /\ FrontAt >= p /\ p \in Nat /\ p >= 1
  BY <1>1, <1>2, <1>3, <1>4
<1>6. ~(p < FrontAt)
  <2> SUFFICES ASSUME p < FrontAt PROVE FALSE
    OBVIOUS
  <2>1. p \in DOMAIN s
    BY <1>1, <1>2, <1>5
  <2>2. p \in 1..Len(f)
    BY <1>1, <1>3, <2>1 DEF Answers, Waiting
  <2> QED
    BY <1>3, <2>2
<1> QED
  BY <1>5, <1>6

LEMMA SentAnswers ==
  ASSUME NEW s \in Seq(OperationRecord), NEW f \in Seq(Request), Answers(s, f), Awaits(s),
         NEW i \in DOMAIN s, i = Len(f) + 1,
         NEW r \in OperationRecord, ~r.writeHeld, r.delivery = "PossiblySent",
         r.phase \in {"AwaitingReply", "Terminal"},
         NEW q \in Request, q.operation = r.operation, q.key = r.reservation.key
  PROVE  Answers([s EXCEPT ![i] = r], Append(f, q)) /\ Awaits([s EXCEPT ![i] = r])
<1> DEFINE v == [s EXCEPT ![i] = r]
           g == Append(f, q)
<1>1. /\ DOMAIN s = 1..Len(s) /\ Len(s) \in Nat /\ DOMAIN f = 1..Len(f) /\ Len(f) \in Nat
      /\ DOMAIN g = 1..(Len(f) + 1)
  OBVIOUS
<1>2. DOMAIN v = DOMAIN s /\ v[i] = r /\ \A j \in DOMAIN s : j # i => v[j] = s[j]
  OBVIOUS
<1>3. g[Len(f) + 1] = q /\ \A j \in 1..Len(f) : g[j] = f[j]
  OBVIOUS
<1>4. \A j \in 1..(Len(f) + 1) : j = i \/ j \in 1..Len(f)
  BY <1>1
<1>5. \A j \in 1..Len(f) : j # i /\ j \in 1..(Len(f) + 1) /\ j \in DOMAIN s
  BY <1>1 DEF Answers, Waiting
<1>6. i \in 1..(Len(f) + 1)
  BY <1>1
<1> HIDE DEF v, g
<1>7. Waiting(v) = DOMAIN g
  <2>1. ASSUME NEW j \in Waiting(v) PROVE j \in 1..(Len(f) + 1)
    <3>1. CASE j = i
      BY <1>6, <3>1
    <3>2. CASE j # i
      BY <1>1, <1>2, <1>5, <2>1, <3>2 DEF Waiting, Answers
    <3> QED
      BY <3>1, <3>2
  <2>2. ASSUME NEW j \in 1..(Len(f) + 1) PROVE j \in Waiting(v)
    <3>1. CASE j = i
      BY <1>2, <3>1 DEF Waiting
    <3>2. CASE j \in 1..Len(f)
      BY <1>1, <1>2, <1>5, <3>2 DEF Waiting, Answers
    <3> QED
      BY <1>4, <3>1, <3>2
  <2> QED
    BY <1>1, <2>1, <2>2
<1>8. Answers(v, g)
  <2> SUFFICES ASSUME NEW j \in DOMAIN g
               PROVE  v[j].operation = g[j].operation /\ v[j].reservation.key = g[j].key
    BY <1>7 DEF Answers
  <2>1. CASE j = i
    BY <1>2, <1>3, <2>1
  <2>2. CASE j \in 1..Len(f)
    BY <1>1, <1>2, <1>3, <1>5, <2>2 DEF Answers
  <2> QED
    BY <1>1, <1>4, <2>1, <2>2
<1>9. Awaits(v)
  <2> SUFFICES ASSUME NEW j \in Waiting(v)
               PROVE  /\ v[j].delivery = "PossiblySent"
                      /\ v[j].phase \in {"AwaitingReply", "Terminal"}
    BY DEF Awaits
  <2>1. CASE j = i
    BY <1>2, <2>1
  <2>2. CASE j # i
    BY <1>2, <2>2 DEF Awaits, Waiting
  <2> QED
    BY <2>1, <2>2
<1> QED
  BY <1>8, <1>9 DEF v, g

\* The first byte changes the front record only, which holds its frame.
LEMMA StartedWaiting ==
  ASSUME InOrder, Fate, writes # <<>>, NEW n \in Nat
  PROVE  /\ SameWaiting(machine.pending, Advanced(n).pending)
         /\ Advanced(n).pending \in Seq(OperationRecord)
         /\ DOMAIN Advanced(n).pending = DOMAIN machine.pending
         /\ \A i \in DOMAIN machine.pending :
              /\ Advanced(n).pending[i].operation = machine.pending[i].operation
              /\ Advanced(n).pending[i].reservation = machine.pending[i].reservation
              /\ Advanced(n).pending[i].completion = machine.pending[i].completion
              /\ Advanced(n).pending[i].writeHeld = machine.pending[i].writeHeld
         /\ Advanced(n).phase = machine.phase /\ Advanced(n).closeReason = machine.closeReason
<1> DEFINE s == machine.pending
           b == Advanced(n).pending
           r == [RecordOf(machine, InFront) EXCEPT !.delivery = "PossiblySent", !.phase = "Writing"]
<1>1. /\ machine \in Machine /\ s \in Seq(OperationRecord) /\ FrontAt \in DOMAIN s
      /\ s[FrontAt].writeHeld /\ RecordOf(machine, InFront) = s[FrontAt]
  BY InOrderSound, FrontFacts DEF RecordOf, FrontAt
<1>2. /\ b \in Seq(OperationRecord) /\ DOMAIN b = DOMAIN s
      /\ \A i \in DOMAIN b : /\ b[i].operation = s[i].operation
                             /\ b[i].writeHeld = s[i].writeHeld
                             /\ i # FrontAt => b[i] = s[i]
  BY AdvancedFate
<1>3. /\ b[FrontAt].reservation = s[FrontAt].reservation
      /\ b[FrontAt].completion = s[FrontAt].completion
  <2>1. CASE Crosses(n)
    <3>1. b = [s EXCEPT ![FrontAt] = r]
      BY <1>1, <2>1, MarkedPending DEF Advanced, WriteStarted, FrontAt
    <3>2. r.reservation = s[FrontAt].reservation /\ r.completion = s[FrontAt].completion
      BY <1>1 DEF OperationRecord
    <3> HIDE DEF r, b
    <3> QED
      BY <1>1, <3>1, <3>2
  <2>2. CASE ~Crosses(n)
    BY <2>2 DEF Advanced
  <2> QED
    BY <2>1, <2>2
<1>4. Advanced(n).phase = machine.phase /\ Advanced(n).closeReason = machine.closeReason
  BY <1>1 DEF Advanced, WriteStarted, SetRecord, Machine
<1> HIDE DEF b, s
<1>5. \A i \in DOMAIN s : b[i].reservation = s[i].reservation /\ b[i].completion = s[i].completion
  BY <1>2, <1>3
<1>6. Waiting(b) = Waiting(s)
  BY <1>2 DEF Waiting
<1>7. \A i \in Waiting(s) : b[i] = s[i]
  BY <1>1, <1>2 DEF Waiting
<1>8. SameWaiting(s, b)
  BY <1>6, <1>7 DEF SameWaiting
<1> QED
  BY <1>2, <1>4, <1>5, <1>8 DEF b, s

LEMMA ConcatAppend ==
  ASSUME NEW T, NEW a \in Seq(T), NEW b \in Seq(T), NEW x \in T
  PROVE  a \o Append(b, x) = Append(a \o b, x) /\ a \o b \in Seq(T)
  OBVIOUS

LEMMA CompleteStreams ==
  ASSUME InOrder, Fate, Streams, NEW n \in 1..MaxReported, CompleteWrite(n),
         requests' = IF completed' # completed /\ Expects(InFront)
                     THEN Append(requests, RequestOf(InFront)) ELSE requests,
         replies' = replies
  PROVE  Streams'
<1> DEFINE s == machine.pending
           i == FrontAt
           q == RequestOf(InFront)
<1>1. n \in 0..MaxReported /\ n \in Nat /\ n > 0 /\ writes # <<>>
  BY CoreAssumption DEF CompleteWrite, WritePending
<1>2. PICK base, t : Completed(n, base, t)
  BY <1>1, CompleteOwns
<1> DEFINE b == base.pending
<1>3. base = Advanced(n) /\ base \in Machine /\ Distinct(b) /\ Holds(b, InFront)
      /\ t = OnWriteCompleted(base, InFront) /\ machine' = t.machine /\ Emit(t)
      /\ completed' = completed \cup {InFront}
  BY <1>2 DEF Completed, Advanced, InFront
<1>4. /\ i \in DOMAIN s /\ s[i].operation = InFront /\ s[i].writeHeld /\ InFront \notin completed
      /\ RecordOf(machine, InFront) = s[i] /\ InFront \in Operations
      /\ s \in Seq(OperationRecord) /\ machine \in Machine /\ writes[1] \in QueuedWrite
      /\ published \in [Operations -> Seq(Outcomes)]
  BY <1>1, FrontFacts, InOrderSound DEF RecordOf, FrontAt, TypeOK
<1>5. /\ SameWaiting(s, b) /\ b \in Seq(OperationRecord) /\ DOMAIN b = DOMAIN s
      /\ \A j \in DOMAIN s : /\ b[j].operation = s[j].operation
                             /\ b[j].reservation = s[j].reservation
                             /\ b[j].completion = s[j].completion
                             /\ b[j].writeHeld = s[j].writeHeld
      /\ base.phase = machine.phase /\ base.closeReason = machine.closeReason
  BY <1>1, <1>3, StartedWaiting
<1>6. i = IndexOf(b, InFront) /\ RecordOf(base, InFront) = b[i]
  <2>1. IndexOf(b, InFront) \in DOMAIN b /\ b[IndexOf(b, InFront)].operation = InFront
    BY <1>3, IndexOfType
  <2>2. b[i].operation = InFront
    BY <1>4, <1>5
  <2>3. i = IndexOf(b, InFront)
    BY <1>3, <1>4, <1>5, <2>1, <2>2 DEF Distinct
  <2> QED
    BY <2>3 DEF RecordOf
<1>7. b[i].delivery = "PossiblySent"
  <2>1. Matches(Progressed(n), b[i])
    BY <1>2, <1>6 DEF Completed, InFront
  <2>2. Progressed(n).started
    BY <1>1, <1>4 DEF Progressed, QueuedWrite
  <2> QED
    BY <2>1, <2>2 DEF Matches
<1>8. /\ (\E r : Waits(base, t, i, r)) \/ Ended(base, t, i)
      /\ t.machine.phase = "Live" => machine.phase = "Live"
  BY <1>3, <1>5, <1>6, OnWriteCompletedLeaves DEF Spares
<1>9. /\ s[i].completion = "ReplyExpected" => requests' = Append(requests, q)
      /\ s[i].completion # "ReplyExpected" => requests' = requests
  BY <1>3, <1>4 DEF Expects
<1>10. q \in Request /\ q.operation = InFront /\ q.key = s[i].reservation.key
  <2>1. s[i] \in OperationRecord
    BY <1>4
  <2>2. s[i].reservation.key \in Keys
    BY <2>1 DEF OperationRecord, Reservation
  <2> QED
    BY <1>4, <2>2 DEF RequestOf, Request
<1>11. requests \in Seq(Request) /\ replies \in Seq(Request)
  BY DEF Streams
<1>12. requests' \in Seq(Request) /\ replies' \in Seq(Request)
  BY <1>9, <1>10, <1>11
<1>13. machine'.closeReason \notin Blames
  BY <1>3, <1>5, <1>8 DEF Waits, Ended, Blames, Streams
<1>14. Addressed(published')
  <2> DEFINE told == Outcome(b[i].operation, "WriteComplete", b[i].delivery, 0)
  <2>1. t.publish \in {{}, {told}}
    BY <1>8 DEF Waits, Ended
  <2>2. told.kind # "Reply"
    BY DEF Outcome
  <2> HIDE DEF told
  <2>3. \A x \in t.publish : x.kind # "Reply"
    BY <2>1, <2>2
  <2> QED
    BY <1>3, <1>4, <2>3, EmitAddressed DEF Streams
<1>15. ASSUME machine'.phase = "Live"
       PROVE  Answers(machine'.pending, replies' \o requests') /\ Awaits(machine'.pending)
  <2> DEFINE f == replies \o requests
  <2>1. Answers(s, f) /\ Awaits(s)
    BY <1>3, <1>8, <1>15 DEF Streams
  <2>2. f \in Seq(Request) /\ replies \o Append(requests, q) = Append(f, q)
    BY <1>10, <1>11, ConcatAppend
  <2>3. Answers(b, f) /\ Awaits(b)
    BY <1>5, <2>1, SameAnswers
  <2> HIDE DEF f
  <2>4. i = Len(f) + 1
    BY <1>1, <2>1, <2>2, FrontIsNext
  <2>5. CASE \E r : Waits(base, t, i, r)
    <3>1. PICK r : Waits(base, t, i, r)
      BY <2>5
    <3>2. /\ r \in OperationRecord /\ ~r.writeHeld /\ r.delivery = "PossiblySent"
          /\ r.phase \in {"AwaitingReply", "Terminal"}
          /\ r.operation = q.operation /\ r.reservation.key = q.key
          /\ machine'.pending = [b EXCEPT ![i] = r] /\ s[i].completion = "ReplyExpected"
      BY <1>3, <1>4, <1>5, <1>7, <1>10, <3>1 DEF Waits
    <3>3. replies' \o requests' = Append(f, q)
      BY <1>9, <2>2, <3>2
    <3>4. i \in DOMAIN b
      BY <1>4, <1>5
    <3> HIDE DEF q, b, i
    <3>5. Answers([b EXCEPT ![i] = r], Append(f, q)) /\ Awaits([b EXCEPT ![i] = r])
      BY <1>5, <1>10, <2>2, <2>3, <2>4, <3>2, <3>4, SentAnswers
    <3> QED
      BY <3>2, <3>3, <3>5
  <2>6. CASE Ended(base, t, i)
    <3>1. machine'.pending = RemoveAt(b, i) /\ s[i].completion # "ReplyExpected"
      BY <1>3, <1>4, <1>5, <2>6 DEF Ended
    <3>2. PICK k \in Nat : \A j \in DOMAIN s : s[j].writeHeld <=> j > k
      BY InOrderQueues DEF Queues
    <3>3. /\ \A j \in DOMAIN b : b[j].writeHeld <=> j > k
          /\ i \in DOMAIN b /\ b[i].writeHeld
      BY <1>4, <1>5, <3>2
    <3>4. SameWaiting(b, RemoveAt(b, i))
      <4> HIDE DEF b, i
      <4> QED
        BY <1>5, <3>3, RemovedWaiting
    <3>5. Answers(machine'.pending, f) /\ Awaits(machine'.pending)
      BY <2>3, <3>1, <3>4, SameAnswers
    <3>6. replies' \o requests' = f
      BY <1>9, <3>1 DEF f
    <3> QED
      BY <3>5, <3>6
  <2> QED
    BY <1>8, <2>5, <2>6
<1> QED
  BY <1>12, <1>13, <1>14, <1>15 DEF Streams

LEMMA TransmitStreams ==
  ASSUME InOrder, Fate, Streams, NEW n \in 1..MaxReported, Transmit(n)
  PROVE  Streams'
<1>1. n \in 0..MaxReported /\ n \in Nat
  BY CoreAssumption
<1>2. /\ requests' = IF completed' # completed /\ Expects(InFront)
                     THEN Append(requests, RequestOf(InFront)) ELSE requests
      /\ replies' = replies
  BY DEF Transmit, InFront
<1>3. CASE OverReport(n)
  <2>1. machine' = machine /\ completed' = completed /\ published' = published
    BY <1>3 DEF OverReport
  <2> QED
    BY <1>2, <2>1, SameSelf, StillStreams DEF peerVars
<1>4. CASE PartialWrite(n)
  <2>1. completed' = completed /\ published' = published /\ writes # <<>>
    BY <1>4 DEF PartialWrite, WritePending
  <2>2. machine' = Advanced(n)
    BY <1>1, <1>4, PartialOwns DEF Advanced, InFront
  <2>3. /\ SameWaiting(machine.pending, machine'.pending) /\ machine'.phase = machine.phase
        /\ machine'.closeReason = machine.closeReason
    BY <1>1, <2>1, <2>2, StartedWaiting
  <2> QED
    BY <1>2, <2>1, <2>3, StillStreams DEF peerVars
<1>5. CASE CompleteWrite(n)
  BY <1>2, <1>5, CompleteStreams
<1> QED
  BY <1>3, <1>4, <1>5 DEF Transmit, AdvanceWrite

\* The front of the FIFO and of the streams go together.
LEMMA TailAnswers ==
  ASSUME NEW s \in Seq(OperationRecord), NEW f \in Seq(Request), f # <<>>,
         Answers(s, f), Awaits(s)
  PROVE  Answers(Tail(s), Tail(f)) /\ Awaits(Tail(s))
<1> DEFINE v == Tail(s)
           g == Tail(f)
           n == Len(s)
           k == Len(f)
<1>1. /\ DOMAIN s = 1..n /\ n \in Nat /\ DOMAIN f = 1..k /\ k \in Nat /\ k > 0
      /\ 1..k \subseteq 1..n
  BY DEF Answers, Waiting
<1>2. n > 0 /\ s # <<>>
  <2>1. 1 \in 1..n
    BY <1>1
  <2> QED
    BY <1>1, <2>1
<1>3. /\ DOMAIN v = 1..(n - 1) /\ DOMAIN g = 1..(k - 1)
      /\ \A j \in 1..(n - 1) : v[j] = s[j + 1]
  BY <1>1, <1>2
<1>4. \A h \in 1..(k - 1) : g[h] = f[h + 1]
  BY <1>1
<1>5. \A j \in 1..(n - 1) : j + 1 \in 1..n /\ (j + 1 \in 1..k <=> j \in 1..(k - 1))
  BY <1>1
<1>6. \A j \in 1..(k - 1) : j \in 1..(n - 1)
  BY <1>1, <1>2
<1> HIDE DEF v, g, n, k
<1>7. \A j \in 1..(n - 1) : j \in Waiting(v) <=> j + 1 \in Waiting(s)
  BY <1>1, <1>3, <1>5 DEF Waiting
<1>8. Waiting(s) = 1..k
  BY <1>1 DEF Answers
<1>9. Waiting(v) = 1..(k - 1)
  <2>1. Waiting(v) \subseteq 1..(n - 1)
    BY <1>3 DEF Waiting
  <2> QED
    BY <1>5, <1>6, <1>7, <1>8, <2>1
<1>10. ASSUME NEW j \in 1..(k - 1)
       PROVE  /\ v[j] = s[j + 1] /\ g[j] = f[j + 1] /\ j + 1 \in DOMAIN f
              /\ j + 1 \in Waiting(s)
  BY <1>1, <1>3, <1>4, <1>5, <1>6, <1>8
<1>11. Answers(v, g)
  BY <1>3, <1>9, <1>10 DEF Answers
<1>12. Awaits(v)
  BY <1>9, <1>10 DEF Awaits
<1> QED
  BY <1>11, <1>12 DEF v, g

LEMMA ConcatTail ==
  ASSUME NEW T, NEW a \in Seq(T), a # <<>>, NEW b \in Seq(T)
  PROVE  /\ a \o b \in Seq(T) /\ a \o b # <<>> /\ (a \o b)[1] = Head(a)
         /\ Tail(a) \o b = Tail(a \o b) /\ Tail(a) \in Seq(T) /\ Head(a) \in T
<1>1. a \o b \in Seq(T) /\ Tail(a) \in Seq(T) /\ Head(a) \in T
  OBVIOUS
<1>2. a \o b # <<>> /\ (a \o b)[1] = Head(a)
  OBVIOUS
<1>3. Tail(a) \o b = Tail(a \o b)
  OBVIOUS
<1> QED
  BY <1>1, <1>2, <1>3

LEMMA DeliverStreams ==
  ASSUME InOrder, Streams, Deliver
  PROVE  Streams'
<1> DEFINE s == machine.pending
           f == replies \o requests
           key == Head(replies).key
           reply == Head(replies).operation
           t == OnReply(machine, key, reply)
<1>1. /\ requests \in Seq(Request) /\ replies \in Seq(Request) /\ replies # <<>>
      /\ replies' = Tail(replies) /\ requests' = requests /\ ApplyReply(key, reply)
  BY DEF Streams, Deliver
<1>2. /\ f \in Seq(Request) /\ f # <<>> /\ f[1] = Head(replies)
      /\ Tail(replies) \o requests = Tail(f) /\ Tail(replies) \in Seq(Request)
      /\ Head(replies) \in Request
  <2>1. replies \in Seq(Request) /\ replies # <<>> /\ requests \in Seq(Request)
    BY <1>1
  <2>2. /\ f \in Seq(Request) /\ f # <<>> /\ f[1] = Head(replies)
        /\ Tail(replies) \o requests = Tail(f) /\ Tail(replies) \in Seq(Request)
        /\ Head(replies) \in Request
    BY ONLY <2>1, ConcatTail
  <2> QED
    BY <2>2
<1>3. key \in Keys /\ reply \in Operations /\ reply \in Payloads /\ reply \in Nat
  BY <1>2, PeerAssumption, CoreAssumption DEF Request
<1>4. /\ machine \in Machine /\ s \in Seq(OperationRecord) /\ DrainWaits(machine)
      /\ published \in [Operations -> Seq(Outcomes)]
  BY InOrderSound DEF TypeOK
<1>5. poisoned' = "None"
  <2>1. Input
    BY <1>1, <1>3 DEF Input
  <2> QED
    BY <2>1, InputSettles DEF Settled
<1>6. machine' = t.machine /\ Emit([t EXCEPT !.cancel = @ \cup {}])
  BY <1>1, <1>5, SettleTakes DEF ApplyReply
<1>7. t \in Transitions
  BY <1>3, <1>4, OnReplyType
<1>8. ASSUME \A x \in t.publish : x.kind = "Reply" => x.reply = x.operation
      PROVE  Addressed(published')
  <2> DEFINE e == [t EXCEPT !.cancel = @ \cup {}]
  <2>1. e.publish = t.publish
    BY <1>7 DEF Transitions
  <2>2. Emit(e)
    BY <1>6
  <2> HIDE DEF e, t
  <2> QED
    BY <1>4, <1>8, <2>1, <2>2, EmitAddressed DEF Streams
<1> HIDE DEF key, reply
<1>9. CASE machine.phase # "Live"
  <2>1. t.machine = machine /\ t.publish = {}
    BY <1>9 DEF OnReply, Transition
  <2> HIDE DEF t
  <2> QED
    BY <1>1, <1>2, <1>6, <1>8, <1>9, <2>1 DEF Streams
<1>10. CASE machine.phase = "Live"
  <2> DEFINE front == s[1]
             r == [machine EXCEPT !.pending = Tail(s),
                                  !.ledger = ReleaseAll(machine.ledger, front.reservation,
                                                        FALSE, FALSE)]
             told == IF front.phase = "Terminal" THEN {}
                     ELSE {Outcome(front.operation, "Reply", front.delivery, reply)}
             u == [Transition(r) EXCEPT !.cancel = {front.operation}, !.publish = told]
  <2>1. Answers(s, f) /\ Awaits(s)
    BY <1>10 DEF Streams
  <2>2. 1 \in DOMAIN f
    BY <1>2
  <2>3. /\ 1 \in Waiting(s) /\ front.operation = reply /\ front.reservation.key = key
    BY <1>2, <2>1, <2>2 DEF Answers, key, reply
  <2>4. FrontAwaitsReply(machine) /\ s # <<>> /\ front \in OperationRecord
    BY <1>4, <2>1, <2>3 DEF FrontAwaitsReply, Awaits, Waiting
  <2>5. t = FinishDrain(u)
    BY <1>4, <1>10, <2>3, <2>4 DEF OnReply, Machine
  <2>6. /\ r \in Machine /\ r.pending = Tail(s) /\ r.closeReason = machine.closeReason
    <3>1. Tail(s) \in Seq(OperationRecord)
      BY <1>4, <2>4
    <3>2. ReleaseAll(machine.ledger, front.reservation, FALSE, FALSE) \in Ledger
      BY <1>4, <2>4, MachineFields, RecordFields, ReleaseAllType
    <3>3. r \in Machine
      BY <1>4, <3>1, <3>2, MachineUpdate
    <3> QED
      BY <1>4, <3>3 DEF Machine
  <2>7. told \in SUBSET Outcomes /\ \A x \in told : x.reply = x.operation
    <3>1. /\ Outcome(front.operation, "Reply", front.delivery, reply) \in Outcomes
          /\ Outcome(front.operation, "Reply", front.delivery, reply).reply = reply
          /\ Outcome(front.operation, "Reply", front.delivery, reply).operation = front.operation
      BY <1>3, <2>4 DEF Outcome, Outcomes, OutcomeKinds, OperationRecord
    <3> QED
      BY <2>3, <3>1
  <2> HIDE DEF r, told, front
  <2>8. u \in Transitions /\ u.machine = r /\ u.publish = told
    <3>1. Transition(r) \in Transitions /\ Transition(r).machine = r
      BY <2>6, TransitionType DEF Transition
    <3>2. {front.operation} \in SUBSET Operations
      BY <1>3, <2>3
    <3> QED
      BY <2>7, <3>1, <3>2 DEF Transitions
  <2> HIDE DEF u, t
  <2>9. Addressed(published')
    BY <1>8, <2>5, <2>7, <2>8, FinishKeeps
  <2>10. machine'.closeReason \notin Blames
    <3>1. machine'.closeReason \in {machine.closeReason, "Drained"}
      BY <1>6, <2>5, <2>6, <2>8, FinishReason
    <3> QED
      BY <3>1 DEF Streams, Blames
  <2>11. machine'.pending = Tail(s)
    BY <1>6, <2>5, <2>6, <2>8, FinishKeeps
  <2>12. Answers(Tail(s), Tail(f)) /\ Awaits(Tail(s))
    BY <1>2, <1>4, <2>1, TailAnswers
  <2> QED
    BY <1>1, <1>2, <2>9, <2>10, <2>11, <2>12 DEF Streams
<1> QED
  BY <1>9, <1>10

LEMMA AnswerStreams ==
  ASSUME Streams, Answer
  PROVE  Streams'
<1>1. /\ requests \in Seq(Request) /\ replies \in Seq(Request) /\ requests # <<>>
      /\ requests' = Tail(requests) /\ replies' = Append(replies, Head(requests))
  BY DEF Streams, Answer
<1>2. /\ replies' \o requests' = replies \o requests
      /\ replies' \in Seq(Request) /\ requests' \in Seq(Request)
  BY <1>1
<1>3. machine' = machine /\ published' = published
  BY DEF Answer, vars
<1> QED
  BY <1>2, <1>3 DEF Streams

(***************************************************************************)
(* The composition.                                                        *)
(***************************************************************************)
LEMMA PeerInitStreams == PeerInit => Streams
<1> SUFFICES ASSUME PeerInit PROVE Streams
  OBVIOUS
<1>1. /\ requests = <<>> /\ replies = <<>> /\ machine.pending = <<>>
      /\ machine.closeReason = "None" /\ published = [operation \in Operations |-> <<>>]
  BY DEF PeerInit, Init, NewMachine
<1>2. Addressed(published)
  BY <1>1 DEF Addressed
<1>3. replies \o requests = <<>> /\ requests \in Seq(Request) /\ replies \in Seq(Request)
  BY <1>1
<1>4. Answers(<<>>, <<>>) /\ Awaits(<<>>)
  BY DEF Answers, Awaits, Waiting
<1> QED
  BY <1>1, <1>2, <1>3, <1>4 DEF Streams, Blames

\* A step of core and peer is a step of the core or leaves it alone.
LEMMA PeerStepsCore ==
  ASSUME Streams, [PeerNext]_allVars
  PROVE  [Next]_vars
<1>1. CASE LocalCall
  BY <1>1 DEF LocalCall, Next
<1>2. ASSUME NEW n \in 1..MaxReported, Transmit(n)
      PROVE  Next
  <2>1. n \in 0..MaxReported
    BY CoreAssumption
  <2> QED
    BY <1>2, <2>1 DEF Transmit, Next
<1>3. CASE Answer
  BY <1>3 DEF Answer
<1>4. CASE Deliver
  <2>1. Head(replies) \in Request
    BY <1>4 DEF Streams, Deliver
  <2>2. Head(replies).key \in Keys /\ Head(replies).operation \in Payloads
    BY <2>1, PeerAssumption DEF Request
  <2> QED
    BY <1>4, <2>2 DEF Deliver, Next
<1>5. CASE UNCHANGED allVars
  BY <1>5 DEF allVars, vars
<1> QED
  BY <1>1, <1>2, <1>3, <1>4, <1>5 DEF PeerNext

LEMMA PeerNextStreams ==
  ASSUME Faults = {}, Fated, Streams, [PeerNext]_allVars
  PROVE  Streams'
<1>1. TypeOK
  BY DEF Fated, Owned, Accounted, TypedDrain
<1>2. poisoned = "None" => InOrder /\ Fate
  BY DEF Fated, Owned, InOrder
<1>3. CASE LocalCall /\ UNCHANGED peerVars
  <2>1. CASE \E permit \in permits : DropPermit(permit)
    BY <1>1, <1>3, <2>1, DropStreams
  <2>2. CASE ~\E permit \in permits : DropPermit(permit)
    <3>1. poisoned = "None"
      BY <1>3, <2>2 DEF LocalCall, Reserve, Commit, OpenAdmission, BeginDrain, EpochClosed,
                        CloseRequested, Cancel, DeadlineElapsed, Healthy
    <3> QED
      BY <1>2, <1>3, <2>2, <3>1, AdmissionStreams, CallStreams DEF LocalCall
  <2> QED
    BY <2>1, <2>2
<1>4. ASSUME NEW n \in 1..MaxReported, Transmit(n)
      PROVE  Streams'
  <2>1. poisoned = "None"
    BY <1>4 DEF Transmit, AdvanceWrite, OverReport, PartialWrite, CompleteWrite, WritePending
  <2> QED
    BY <1>2, <1>4, <2>1, TransmitStreams
<1>5. CASE Answer
  BY <1>5, AnswerStreams
<1>6. CASE Deliver
  <2>1. poisoned = "None"
    BY <1>6 DEF Deliver, ApplyReply, Healthy
  <2> QED
    BY <1>2, <1>6, <2>1, DeliverStreams
<1>7. CASE UNCHANGED allVars
  <2>1. UNCHANGED <<peerVars, published>> /\ machine' = machine
    BY <1>7 DEF allVars, vars, peerVars
  <2> QED
    BY <2>1, SameSelf, StillStreams
<1> QED
  BY <1>3, <1>4, <1>5, <1>6, <1>7 DEF PeerNext

LEMMA PeerKeepsInv ==
  ASSUME Faults = {}
  PROVE  PeerSpec => []PeerInv
<1>1. PeerInit => PeerInv
  BY PeerInitStreams, InitFated DEF PeerInit, PeerInv
<1>2. PeerInv /\ [PeerNext]_allVars => PeerInv'
  BY PeerNextStreams, PeerStepsCore, NextFated DEF PeerInv
<1> QED
  BY <1>1, <1>2, PTL DEF PeerSpec

\* A reply reaches the operation whose request it answers, for every limit, key
\* space and workload: cancellations, deadlines, drains, closes and recycled
\* match keys notwithstanding, a correct peer is never blamed and the FIFO keeps
\* the place of every request in flight.
THEOREM RepliesReachTheirOperations ==
  ASSUME Faults = {}
  PROVE  PeerSpec => []ReplyReachesItsOperation
<1>1. PeerInv => ReplyReachesItsOperation
  BY StreamsMean DEF PeerInv
<1> QED
  BY <1>1, PeerKeepsInv, PTL

\* Talking to a peer that answers in order the aggregate is still the aggregate
\* of Spec, so all that is proved of it holds here too; in particular it keeps
\* the promise of OperationLifecycle.
THEOREM PeerImplementsCore ==
  ASSUME Faults = {}
  PROVE  PeerSpec => Spec /\ KeepsLifecycle
<1>1. PeerInit => Init
  BY DEF PeerInit
<1>2. PeerInv /\ [PeerNext]_allVars => [Next]_vars
  BY PeerStepsCore DEF PeerInv
<1>3. PeerSpec => Spec
  BY <1>1, <1>2, PeerKeepsInv, PTL DEF PeerSpec, Spec
<1> QED
  BY <1>3, CoreImplementsLifecycle, PTL

=============================================================================
