------------------------------ MODULE SlotProofs ------------------------------
(***************************************************************************)
(* Proofs about ConnectionSlot, for every value of its constants.          *)
(*                                                                         *)
(* The inductive invariant speaks of the slot as a value s and of the      *)
(* outside world as P (permits), C (committed), D (delivered) and O        *)
(* (observed), so that every method of the slot is one lemma about values: *)
(*   Owned    the records, the writer, the timers, the ledger and the room *)
(*            of the outcome batch agree;                                  *)
(*   Fated    what was committed is in flight or told, never both;         *)
(*   Staged   the transport, the epoch, the close request and the drain    *)
(*            deadline are at the same stage;                              *)
(*   Reading  the decoder can go on, and nothing was sent or received      *)
(*            before the transport opened;                                 *)
(*   Logged   the events told so far.                                      *)
(***************************************************************************)
EXTENDS SlotProperties, MachineProofs, SequenceTheorems

\* Of the frames held only the first can have been sent from, and then bytes of
\* it are out.
Fronted(m, written) ==
  \A i \in HeldPositions(m) :
    m.pending[i].delivery = "PossiblySent" =>
      m.pending[i].operation = FrontHeld(m) /\ written > 0

\* The outcome batch has room for what is still to be concluded.
Roomy(s, P) ==
  /\ s.recoveryOutcomes = <<>>
  /\ \A i \in DOMAIN s.outcomes : s.outcomes[i].reply <= ReplyBytes
  /\ Len(s.outcomes) + Cardinality(Live(s.machine.pending)) + Cardinality(P) <= MaxOperations

Owned(s, P) ==
  /\ s \in Slots
  /\ DOMAIN s.wire = HeldOperations(s.machine)
  /\ Books(s.machine, P) /\ Sound(s.machine) /\ DrainWaits(s.machine)
  /\ Fronted(s.machine, s.written)
  /\ s.timers = Timed(s.machine.pending)
  /\ Roomy(s, P)

TellsOf(told) == {told[i].operation : i \in DOMAIN told}

Fated(s, P, C, D) ==
  LET told == D \o s.outcomes
  IN  /\ Distinct(told)
      /\ C = TellsOf(told) \cup Live(s.machine.pending)
      /\ TellsOf(told) \cap Live(s.machine.pending) = {}
      /\ \A p \in P : p.operation \notin C
      /\ \A operation \in C : operation < s.machine.nextOperation

\* The stages of a slot in the middle of a call.
Placed(s) ==
  /\ s.transportState \in {"Connecting", "Open"} => s.machine.phase = "Live"
  /\ s.transportState = "Closing" => s.machine.phase = "Closing" /\ s.drainDeadline = Never
  /\ s.transportState = "Closed" => s.drainDeadline = Never /\ s.closeRequest = NoRequest
  /\ s.machine.phase = "Live" => s.machine.closeReason = "None"
  /\ Running(s) =>
       /\ s.transportState = "Closed" => s.machine.phase = "Closed"
       /\ s.transportState \in {"Connecting", "Open"} => s.closeRequest = NoRequest
       /\ s.transportState = "Closing" => /\ s.closeRequest.kind = "Core"
                                          /\ s.closeRequest.reason = s.machine.closeReason

\* A drain has a deadline.
DrainTimed(s) ==
  Running(s) /\ s.machine.phase = "Live" /\ s.machine.gate = "Draining" => s.drainDeadline # Never

\* ... and of one between two calls: a failed slot asks to be aborted.
Staged(s) ==
  /\ Placed(s) /\ DrainTimed(s)
  /\ ~Running(s) /\ s.transportState # "Closed" =>
       s.closeRequest = AbortRequest /\ s.drainDeadline = Never

CanRead(s) == s.decoderPending \/ (~s.decoder.failed /\ s.decoder.retained < DecoderBytes)

Reading(s) ==
  /\ s.transportState \in {"Connecting", "Open"} => CanRead(s)
  /\ Connecting(s) => /\ ~s.decoderPending
                      /\ \A i \in DOMAIN s.machine.pending : s.machine.pending[i].delivery = "NotSent"

\* The highest rank of the events told at a stage.
Stage(s) ==
  IF s.transportState = "Connecting" THEN 0
  ELSE IF s.transportState = "Open" THEN IF s.machine.gate = "SessionOnly" THEN 1 ELSE 2
  ELSE IF s.transportState = "Closing" THEN 3 ELSE 4

Opened(e) == \E i \in DOMAIN e : e[i].kind = "TransportOpened"

InSequence(e, reason) ==
  \A i \in DOMAIN e :
    /\ e[i].sequence = i
    /\ \A j \in 1..(i - 1) : Rank(e[j]) < Rank(e[i])
    /\ e[i].kind \in {"Closing", "Closed"} => e[i].reason = reason

Truthful(e, reason) ==
  /\ reason \in BeforeOpen => ~Opened(e)
  /\ reason \in AfterOpen => Opened(e)

LogOf(s, O) == O \o s.lifecycle \o s.recoveryEvents

Logged(s, O) ==
  /\ Len(LogOf(s, O)) = s.eventSequence
  /\ InSequence(LogOf(s, O), s.machine.closeReason)
  /\ \A i \in DOMAIN LogOf(s, O) : Rank(LogOf(s, O)[i]) <= Stage(s)
  /\ s.transportState = "Open" => Opened(LogOf(s, O))
  /\ Truthful(LogOf(s, O), s.machine.closeReason)
  /\ Running(s) => s.recoveryEvents = <<>>

\* What holds of a slot in the middle of a call, and between calls.
During(s, P, C, D, O) ==
  /\ Owned(s, P) /\ Fated(s, P, C, D) /\ Placed(s) /\ DrainTimed(s) /\ Reading(s) /\ Logged(s, O)
Kept(s, P, C, D, O) == During(s, P, C, D, O) /\ Staged(s)

\* What a quantum in progress relies on.
Driven ==
  /\ quantum.pc # "Idle" => Running(slot)
  /\ quantum.pc \in {"Deadlines", "Io"} =>
       slot.closeRequest = NoRequest /\ quantum.work < IoOperations
  /\ quantum.pc = "Shutdown" => slot.closeRequest # NoRequest

Outside ==
  /\ transport \in Transports \cup {NoTransport}
  /\ now \in Moments
  /\ quantum \in [pc : {"Idle", "Deadlines", "Io", "Shutdown"}, work : 0..IoOperations]
  /\ wake \in BOOLEAN
  /\ broken \in BOOLEAN
  /\ delivered \in Seq(Outcomes)
  /\ observed \in Seq(Events)
  /\ committed \subseteq Operations

SlotIInv ==
  /\ Outside
  /\ IF report.recovered
     THEN quantum.pc = "Idle" /\ SlotInv /\ EventsGapless
     ELSE /\ report = NoReport
          /\ Kept(slot, permits, committed, delivered, observed)
          /\ Driven
          /\ ~Running(slot) => broken \/ slot.recoveryEvents # <<>>
          /\ slot.transportState = "Closed" <=> ~transport.present
          /\ transport.over => broken

(***************************************************************************)
(* The slot as a record.                                                   *)
(***************************************************************************)
LEMMA SlotFields ==
  ASSUME NEW s \in Slots
  PROVE  /\ s.machine \in Machine /\ s.written \in Nat /\ s.decoder \in Driver
         /\ s.decoderPending \in BOOLEAN /\ s.ioPreference \in Preferences
         /\ s.transportState \in TransportStates /\ s.drainDeadline \in 0..Never
         /\ s.closeRequest \in CloseRequests /\ s.owner \in Owners
         /\ s.outcomes \in Seq(Outcomes) /\ s.recoveryOutcomes \in Seq(Outcomes)
         /\ s.lifecycle \in Seq(Events) /\ s.recoveryEvents \in Seq(Events)
         /\ s.eventSequence \in Nat /\ s.diverged \in BOOLEAN
         /\ s.timers \subseteq Operations \X Moments
         /\ s.wire \in Wires
  BY DEF Slots

\* The fields that interpreting a transition leaves alone.
Carries(s, r) ==
  /\ r.decoder = s.decoder /\ r.decoderPending = s.decoderPending
  /\ r.ioPreference = s.ioPreference /\ r.diverged = s.diverged
  /\ r.recoveryOutcomes = s.recoveryOutcomes

\* The fields of the lifecycle.
Stays(s, r) ==
  /\ r.transportState = s.transportState /\ r.drainDeadline = s.drainDeadline
  /\ r.closeRequest = s.closeRequest /\ r.owner = s.owner
  /\ r.lifecycle = s.lifecycle /\ r.recoveryEvents = s.recoveryEvents
  /\ r.eventSequence = s.eventSequence

\* The fields of the operations.
Holding(s, r) ==
  /\ r.machine = s.machine /\ r.wire = s.wire /\ r.written = s.written
  /\ r.timers = s.timers /\ r.outcomes = s.outcomes

\* One more event is told.
TellsMore(s, r, event) ==
  /\ r.eventSequence = s.eventSequence + 1
  /\ r.lifecycle \o r.recoveryEvents = Append(s.lifecycle, event)
  /\ r.lifecycle # <<>>

LEMMA EventsAre ==
  /\ {EventKinds[i] : i \in 1..4} = {"TransportOpened", "AdmissionOpened", "Closing", "Closed"}
  /\ \A sequence \in Nat, kind \in {"TransportOpened", "AdmissionOpened", "Closing", "Closed"},
        reason \in CloseReasons :
       [sequence |-> sequence, kind |-> kind, reason |-> reason] \in Events
<1>1. {EventKinds[i] : i \in 1..4} = {"TransportOpened", "AdmissionOpened", "Closing", "Closed"}
  <2>1. /\ EventKinds[1] = "TransportOpened" /\ EventKinds[2] = "AdmissionOpened"
        /\ EventKinds[3] = "Closing" /\ EventKinds[4] = "Closed"
    BY DEF EventKinds
  <2>2. 1..4 = {1, 2, 3, 4}
    OBVIOUS
  <2> QED
    BY <2>1, <2>2
<1> QED
  BY <1>1 DEF Events

\* The rank of an event is the place of its kind.
LEMMA RankIs ==
  ASSUME NEW e
  PROVE  /\ e.kind = "TransportOpened" => Rank(e) = 1
         /\ e.kind = "AdmissionOpened" => Rank(e) = 2
         /\ e.kind = "Closing" => Rank(e) = 3
         /\ e.kind = "Closed" => Rank(e) = 4
<1>1. /\ EventKinds[1] = "TransportOpened" /\ EventKinds[2] = "AdmissionOpened"
      /\ EventKinds[3] = "Closing" /\ EventKinds[4] = "Closed"
  BY DEF EventKinds
<1>2. 1..4 = {1, 2, 3, 4}
  OBVIOUS
<1> QED
  BY <1>1, <1>2 DEF Rank

LEMMA RankType ==
  ASSUME NEW e \in Events
  PROVE  Rank(e) \in 1..4 /\ EventKinds[Rank(e)] = e.kind
<1>1. \E i \in 1..4 : EventKinds[i] = e.kind
  BY DEF Events
<1> QED
  BY <1>1 DEF Rank

\* Publishing an event on a running slot whose recovery batch is empty: it is
\* told, in the batch or, failing the slot, in the recovery batch.
LEMMA PublishEventTells ==
  ASSUME NEW s \in Slots, Running(s), s.recoveryEvents = <<>>,
         NEW kind \in {"TransportOpened", "AdmissionOpened", "Closing", "Closed"},
         NEW reason \in CloseReasons, NEW r, r = PublishEvent(s, kind, reason),
         NEW event, event = [sequence |-> s.eventSequence + 1, kind |-> kind, reason |-> reason]
  PROVE  /\ r \in Slots /\ Carries(s, r) /\ Holding(s, r) /\ event \in Events
         /\ r.transportState = s.transportState /\ r.drainDeadline = s.drainDeadline
         /\ r.closeRequest = s.closeRequest
         /\ TellsMore(s, r, event)
         /\ Running(r) <=> r.recoveryEvents = <<>>
<1>1. /\ s.lifecycle \in Seq(Events) /\ s.eventSequence \in Nat /\ LifecycleEvents \in Nat \ {0}
  BY SlotFields, SlotAssumption
<1>2. /\ event \in Events /\ RecoveryEvents > 0
      /\ Append(s.lifecycle, event) \in Seq(Events) /\ Append(<<>>, event) \in Seq(Events)
      /\ Append(s.lifecycle, event) # <<>> /\ Append(<<>>, event) = <<event>>
      /\ s.lifecycle \o <<event>> = Append(s.lifecycle, event)
  <2>1. s.eventSequence + 1 \in Nat
    BY <1>1
  <2>2. event \in Events
    BY <2>1, EventsAre, Zenon
  <2>3. RecoveryEvents > 0
    BY <1>1 DEF RecoveryEvents
  <2> HIDE DEF Events
  <2> QED
    BY <1>1, <2>2, <2>3
<1> DEFINE counted == [s EXCEPT !.eventSequence = event.sequence]
           kept == [counted EXCEPT !.lifecycle = Append(s.lifecycle, event)]
           over == [[counted EXCEPT !.recoveryEvents = Append(<<>>, event)]
                      EXCEPT !.owner = "OwnerInvariant"]
<1>3. event.sequence = s.eventSequence + 1 /\ event.sequence \in Nat
  BY <1>1
<1>4. CASE Len(s.lifecycle) < LifecycleEvents
  <2>1. r = kept
    BY <1>1, <1>4 DEF PublishEvent, Slots
  <2>2. kept \in Slots
    BY <1>1, <1>2, <1>3 DEF Slots
  <2>3. /\ kept.lifecycle = Append(s.lifecycle, event) /\ kept.recoveryEvents = <<>>
        /\ kept.eventSequence = s.eventSequence + 1 /\ kept.owner = s.owner
        /\ Carries(s, kept) /\ Holding(s, kept)
        /\ kept.transportState = s.transportState /\ kept.drainDeadline = s.drainDeadline
        /\ kept.closeRequest = s.closeRequest
    BY <1>3 DEF Slots, Carries, Holding
  <2> HIDE DEF kept
  <2>4. Append(s.lifecycle, event) \o <<>> = Append(s.lifecycle, event)
    <3>1. \A q \in Seq(Events) : q \o <<>> = q
      OBVIOUS
    <3> QED
      BY <1>2, <3>1
  <2> QED
    BY <1>2, <2>1, <2>2, <2>3, <2>4 DEF Running, TellsMore
<1>5. CASE ~(Len(s.lifecycle) < LifecycleEvents)
  <2>1. r = over
    BY <1>1, <1>2, <1>5 DEF PublishEvent, Fail, Running, Slots
  <2>2. over \in Slots
    BY ZenonT(40), <1>1, <1>2, <1>3 DEF Slots, Owners
  <2>3. /\ over.lifecycle = s.lifecycle /\ over.recoveryEvents = <<event>>
        /\ over.eventSequence = s.eventSequence + 1 /\ over.owner = "OwnerInvariant"
        /\ Carries(s, over) /\ Holding(s, over)
        /\ over.transportState = s.transportState /\ over.drainDeadline = s.drainDeadline
        /\ over.closeRequest = s.closeRequest
    BY <1>3 DEF Slots, Carries, Holding
  <2> HIDE DEF over
  <2>4. s.lifecycle \o <<event>> = Append(s.lifecycle, event) /\ s.lifecycle # <<>>
        /\ <<event>> # <<>>
    BY <1>1, <1>2, <1>5
  <2> QED
    BY <1>2, <2>1, <2>2, <2>3, <2>4 DEF Running, TellsMore
<1> QED
  BY <1>4, <1>5

(***************************************************************************)
(* Publishing outcomes.                                                    *)
(***************************************************************************)

\* The bytes of a batch are at most the reply bytes of each of its outcomes.
LEMMA OutcomeBytesBounded ==
  ASSUME NEW q \in Seq(Outcomes), \A i \in DOMAIN q : q[i].reply <= ReplyBytes
  PROVE  OutcomeBytes(q) \in Nat /\ OutcomeBytes(q) <= ReplyBytes * Len(q)
<1> DEFINE n == Len(q)
           Next1(x, i) == x + q[i].reply
           step == [i \in 1..n |-> [x \in Nat |-> Next1(x, i)]]
<1>1. /\ n \in Nat /\ DOMAIN q = 1..n /\ ReplyBytes \in Nat
      /\ \A i \in 1..n : q[i].reply \in 0..ReplyBytes
  <2>1. n \in Nat /\ DOMAIN q = 1..n /\ ReplyBytes \in Nat
    BY SlotAssumption
  <2>2. \A i \in 1..n : q[i] \in Outcomes
    BY <2>1
  <2>3. \A x \in Outcomes : x.reply \in Nat
    BY DEF Outcomes
  <2> QED
    BY <2>1, <2>2, <2>3
<1>2. OutcomeBytes(q)
        = (CHOOSE g : g = [i \in 0..n |-> IF i = 0 THEN 0 ELSE Next1(g[i - 1], i)])[n]
  BY DEF OutcomeBytes
<1>3. \A i \in 1..n : \A x \in Nat : Next1(x, i) \in Nat /\ Next1(x, i) <= x + ReplyBytes
  BY <1>1
<1> HIDE DEF n, Next1
<1>4. step \in Steps(Nat, n)
  BY <1>3 DEF Steps
<1>5. PICK f : IsIteration(f, Nat, n, 0, step)
  <2> HIDE DEF step
  <2> QED BY <1>1, <1>4, IterationExists
<1>6. /\ f \in [0..n -> Nat] /\ f[0] = 0 /\ \A i \in 1..n : f[i] = Next1(f[i - 1], i)
  <2>1. /\ f \in [0..n -> Nat] /\ f[0] = 0
        /\ \A i \in 1..n : f[i] = step[i][f[i - 1]]
    <3> HIDE DEF step
    <3> QED BY <1>5 DEF IsIteration
  <2>2. \A i \in 1..n : f[i - 1] \in Nat
    BY <1>1, <2>1
  <2> QED
    BY <2>1, <2>2
<1> DEFINE Fixed(g) == g = [i \in 0..n |-> IF i = 0 THEN 0 ELSE Next1(g[i - 1], i)]
           sum == CHOOSE g : Fixed(g)
<1>7. Fixed(f)
  BY <1>1, <1>6
<1>8. Fixed(sum)
  BY <1>7
<1>9. sum[n] = OutcomeBytes(q)
  BY <1>2
<1> HIDE DEF sum, step
<1>10. sum[0] = 0 /\ \A i \in 1..n : sum[i] = Next1(sum[i - 1], i)
  BY <1>1, <1>8
<1> DEFINE G == {i \in 0..n : sum[i] \in Nat /\ sum[i] <= ReplyBytes * i}
<1>11. 0 \in G
  BY <1>1, <1>10
<1>12. ASSUME NEW i \in 0..(n - 1), i \in G PROVE i + 1 \in G
  <2>1. i + 1 \in 0..n /\ i + 1 \in 1..n /\ (i + 1) - 1 = i
    BY <1>1
  <2>2. sum[i + 1] = Next1(sum[i], i + 1)
    BY <1>10, <2>1
  <2>3. sum[i + 1] \in Nat /\ sum[i + 1] <= sum[i] + ReplyBytes /\ sum[i] \in Nat
        /\ sum[i] <= ReplyBytes * i
    BY <1>3, <1>12, <2>1, <2>2
  <2>4. ReplyBytes * (i + 1) = ReplyBytes * i + ReplyBytes /\ ReplyBytes * i \in Nat
    BY <1>1
  <2>5. sum[i + 1] <= ReplyBytes * (i + 1)
    BY <1>1, <2>3, <2>4
  <2> QED
    BY <2>1, <2>3, <2>5
<1>13. 0..n \subseteq G
  <2> HIDE DEF G
  <2> QED
    BY <1>1, <1>11, <1>12, BoundedInduction
<1>14. n \in G
  <2>1. n \in 0..n
    BY <1>1
  <2> HIDE DEF G
  <2> QED
    BY <1>13, <2>1
<1>15. sum[n] \in Nat /\ sum[n] <= ReplyBytes * n
  BY <1>14
<1>16. n = Len(q)
  BY DEF n
<1> QED
  BY <1>9, <1>15, <1>16

\* Below the capacity an outcome of bounded size fits.
LEMMA RoomFits ==
  ASSUME NEW q \in Seq(Outcomes), \A i \in DOMAIN q : q[i].reply <= ReplyBytes,
         Len(q) < MaxOperations, NEW x \in Outcomes, x.reply <= ReplyBytes
  PROVE  OutcomeFits(q, x)
<1>1. /\ ReplyBytes \in Nat /\ MaxOperations \in Nat /\ Len(q) \in Nat /\ x.reply \in Nat
  BY SlotAssumption, LimitsAssumption DEF Outcomes
<1>2. OutcomeBytes(q) \in Nat /\ OutcomeBytes(q) <= ReplyBytes * Len(q)
  BY OutcomeBytesBounded
<1>3. \A a, b, c \in Nat : b + 1 <= c => a * b + a <= a * c
  <2>1. ASSUME NEW a \in Nat, NEW b \in Nat, NEW d \in Nat
        PROVE  a * b + a <= a * (b + 1 + d)
    <3>1. a * (b + 1 + d) = a * b + a + a * d /\ a * d >= 0 /\ a * b \in Nat /\ a * d \in Nat
      OBVIOUS
    <3> QED
      BY <3>1
  <2>2. ASSUME NEW a \in Nat, NEW b \in Nat, NEW c \in Nat, b + 1 <= c
        PROVE  a * b + a <= a * c
    <3>1. c - b - 1 \in Nat /\ b + 1 + (c - b - 1) = c
      BY <2>2
    <3> QED
      BY <2>1, <3>1
  <2> QED
    BY <2>2
<1>4. ReplyBytes * Len(q) + ReplyBytes <= ReplyBytes * MaxOperations
  BY <1>1, <1>3
<1>5. ReplyBytes * Len(q) \in Nat /\ ReplyBytes * MaxOperations \in Nat
  BY <1>1
<1> QED
  BY <1>1, <1>2, <1>4, <1>5 DEF OutcomeFits

LEMMA PublishType ==
  ASSUME NEW s \in Slots, NEW x \in Outcomes
  PROVE  Publish(s, x) \in Slots
<1>1. s.outcomes \in Seq(Outcomes) /\ s.recoveryOutcomes \in Seq(Outcomes)
  BY SlotFields
<1>2. Append(s.outcomes, x) \in Seq(Outcomes) /\ Append(s.recoveryOutcomes, x) \in Seq(Outcomes)
  BY <1>1
<1>3. [s EXCEPT !.outcomes = Append(@, x)] \in Slots
  BY <1>2 DEF Slots
<1>4. [s EXCEPT !.recoveryOutcomes = Append(@, x)] \in Slots
  BY <1>2 DEF Slots
<1>5. ASSUME NEW r \in Slots PROVE Fail(r, "OwnerInvariant") \in Slots
  <2>1. "OwnerInvariant" \in Owners
    BY DEF Owners
  <2>2. [r EXCEPT !.owner = "OwnerInvariant"] \in Slots
    BY <2>1 DEF Slots
  <2> QED
    BY <2>2 DEF Fail
<1> QED
  BY <1>3, <1>4, <1>5 DEF Publish

\* The operations in flight are as many as their records.
LEMMA LiveCounted ==
  ASSUME NEW s \in Seq(OperationRecord), Distinct(s),
         NEW J, J = {j \in DOMAIN s : s[j].phase # "Terminal"}
  PROVE  /\ IsFiniteSet(Live(s)) /\ Cardinality(Live(s)) \in Nat
         /\ Cardinality(Live(s)) = Cardinality(J) /\ Cardinality(Live(s)) <= Len(s)
<1> DEFINE f == [j \in J |-> s[j].operation]
<1>1. Len(s) \in Nat /\ DOMAIN s = 1..Len(s) /\ J \subseteq 1..Len(s)
  OBVIOUS
<1>2. IsFiniteSet(J) /\ Cardinality(J) <= Len(s)
  <2>1. IsFiniteSet(1..Len(s)) /\ Cardinality(1..Len(s)) = Len(s)
    BY <1>1, FS_Interval
  <2> QED
    BY <1>1, <2>1, FS_Subset
<1>3. f \in [J -> Live(s)] /\ \A x \in Live(s) : \E j \in J : f[j] = x
  BY DEF Live
<1>4. \A i, j \in J : f[i] = f[j] => i = j
  BY DEF Distinct
<1> HIDE DEF f
<1>5. ExistsBijection(J, Live(s))
  <2>1. f \in Bijection(J, Live(s))
    BY <1>3, <1>4 DEF Bijection, Injection, Surjection, IsInjective
  <2> QED
    BY <2>1 DEF ExistsBijection
<1> QED
  BY <1>2, <1>5, FS_Bijection, FS_CardinalityType

\* A sequence that tells of distinct operations is as long as they are many.
LEMMA TellsCounted ==
  ASSUME NEW T, NEW q \in Seq(T), Distinct(q)
  PROVE  IsFiniteSet(TellsOf(q)) /\ Cardinality(TellsOf(q)) = Len(q)
<1> DEFINE f == [i \in 1..Len(q) |-> q[i].operation]
<1>1. Len(q) \in Nat /\ DOMAIN q = 1..Len(q)
  OBVIOUS
<1>2. f \in [1..Len(q) -> TellsOf(q)] /\ \A x \in TellsOf(q) : \E i \in 1..Len(q) : f[i] = x
  BY <1>1 DEF TellsOf
<1>3. \A i, j \in 1..Len(q) : f[i] = f[j] => i = j
  BY <1>1 DEF Distinct
<1> HIDE DEF f
<1> QED
  BY <1>1, <1>2, <1>3, Enumerated

\* The items of two joined sequences.
Joined(a, b, c) ==
  /\ Len(c) = Len(a) + Len(b) /\ Len(a) \in Nat /\ Len(b) \in Nat
  /\ DOMAIN a = 1..Len(a) /\ DOMAIN b = 1..Len(b) /\ DOMAIN c = 1..Len(c)
  /\ \A i \in 1..Len(a) : i \in DOMAIN c /\ c[i] = a[i]
  /\ \A i \in 1..Len(b) : Len(a) + i \in DOMAIN c /\ c[Len(a) + i] = b[i]
  /\ \A k \in DOMAIN c : k \in 1..Len(a) \/ \E i \in 1..Len(b) : k = Len(a) + i

LEMMA JoinedItems ==
  ASSUME NEW T, NEW a \in Seq(T), NEW b \in Seq(T), NEW c, c = a \o b
  PROVE  c \in Seq(T) /\ Joined(a, b, c)
<1>1. /\ c \in Seq(T) /\ Len(c) = Len(a) + Len(b) /\ Len(a) \in Nat /\ Len(b) \in Nat
      /\ DOMAIN a = 1..Len(a) /\ DOMAIN b = 1..Len(b) /\ DOMAIN c = 1..Len(c)
  OBVIOUS
<1>2. \A i \in 1..Len(a) : i \in DOMAIN c /\ c[i] = a[i]
  BY <1>1
<1>3. ASSUME NEW i \in 1..Len(b) PROVE Len(a) + i \in DOMAIN c /\ c[Len(a) + i] = b[i]
  BY <1>1
<1>4. ASSUME NEW k \in DOMAIN c, k \notin 1..Len(a) PROVE \E i \in 1..Len(b) : k = Len(a) + i
  <2>1. k - Len(a) \in 1..Len(b) /\ k = Len(a) + (k - Len(a))
    BY <1>1, <1>4
  <2> QED
    BY <2>1
<1> QED
  BY <1>1, <1>2, <1>3, <1>4 DEF Joined

LEMMA JoinedTells ==
  ASSUME NEW a \in Seq(Outcomes), NEW b \in Seq(Outcomes)
  PROVE  /\ TellsOf(a \o b) = TellsOf(a) \cup TellsOf(b)
         /\ Distinct(a) /\ Distinct(b) /\ TellsOf(a) \cap TellsOf(b) = {} => Distinct(a \o b)
<1> DEFINE c == a \o b
<1>0. c = a \o b
  OBVIOUS
<1> HIDE DEF c
<1>1. Joined(a, b, c)
  BY <1>0, JoinedItems
<1> USE <1>1 DEF Joined
<1>2. TellsOf(c) = TellsOf(a) \cup TellsOf(b)
  <2>1. TellsOf(c) \subseteq TellsOf(a) \cup TellsOf(b)
    <3>1. ASSUME NEW k \in DOMAIN c PROVE c[k].operation \in TellsOf(a) \cup TellsOf(b)
      BY <1>1 DEF TellsOf
    <3> QED
      BY <3>1 DEF TellsOf
  <2>2. TellsOf(a) \subseteq TellsOf(c)
    BY <1>1 DEF TellsOf
  <2>3. TellsOf(b) \subseteq TellsOf(c)
    BY <1>1 DEF TellsOf
  <2> QED
    BY <2>1, <2>2, <2>3
<1>3. ASSUME Distinct(a), Distinct(b), TellsOf(a) \cap TellsOf(b) = {}
      PROVE  Distinct(c)
  <2>1. ASSUME NEW i \in 1..Len(a), NEW j \in 1..Len(b) PROVE a[i].operation # b[j].operation
    BY <1>1, <1>3 DEF TellsOf
  <2>2. ASSUME NEW i \in DOMAIN c, NEW j \in DOMAIN c, c[i].operation = c[j].operation
        PROVE  i = j
    <3>1. CASE i \in 1..Len(a) /\ j \in 1..Len(a)
      BY <1>1, <1>3, <2>2, <3>1 DEF Distinct
    <3>2. ASSUME NEW y \in 1..Len(b), j = Len(a) + y, i \in 1..Len(a) PROVE FALSE
      BY <1>1, <2>1, <2>2, <3>2
    <3>3. ASSUME NEW x \in 1..Len(b), i = Len(a) + x, j \in 1..Len(a) PROVE FALSE
      BY <1>1, <2>1, <2>2, <3>3
    <3>4. ASSUME NEW x \in 1..Len(b), i = Len(a) + x, NEW y \in 1..Len(b), j = Len(a) + y
          PROVE  i = j
      <4>1. b[x].operation = b[y].operation
        BY <1>1, <2>2, <3>4
      <4>2. x = y
        BY <1>1, <1>3, <4>1 DEF Distinct
      <4> QED
        BY <3>4, <4>2
    <3> QED
      BY <1>1, <3>1, <3>2, <3>3, <3>4
  <2> QED
    BY <2>2 DEF Distinct
<1> QED
  BY <1>2, <1>3 DEF c

\* q holds the outcomes of the first i records, each once.
PublishedTo(q, pending, outcomes, i) ==
  /\ q \in Seq(Outcomes) /\ Distinct(q)
  /\ \A k \in DOMAIN q : /\ q[k] \in outcomes
                         /\ \E j \in 1..i : q[k].operation = pending[j].operation
  /\ \A x \in outcomes :
       (\E j \in 1..i : x.operation = pending[j].operation) => \E k \in DOMAIN q : q[k] = x

\* What PublishAll computes.
Publishing(after, s, pending, outcomes) ==
  /\ after \in [0..Len(pending) -> Slots]
  /\ after[0] = s
  /\ \A i \in 1..Len(pending) :
       \/ /\ \A x \in outcomes : x.operation # pending[i].operation
          /\ after[i] = after[i - 1]
       \/ \E x \in outcomes : /\ x.operation = pending[i].operation
                              /\ after[i] = Publish(after[i - 1], x)
  /\ after[Len(pending)] = PublishAll(s, pending, outcomes)

LEMMA PublishAllIterates ==
  ASSUME NEW s \in Slots, NEW pending \in Seq(OperationRecord), NEW outcomes \in SUBSET Outcomes
  PROVE  \E after : Publishing(after, s, pending, outcomes)
<1> DEFINE n == Len(pending)
           of(i) == {outcome \in outcomes : outcome.operation = pending[i].operation}
           Next1(y, i) == IF of(i) = {} THEN y ELSE Publish(y, CHOOSE outcome \in of(i) : TRUE)
           step == [i \in 1..n |-> [y \in Slots |-> Next1(y, i)]]
<1>1. \A i \in 1..n : \A y \in Slots :
        /\ Next1(y, i) \in Slots
        /\ \/ of(i) = {} /\ Next1(y, i) = y
           \/ \E x \in of(i) : Next1(y, i) = Publish(y, x)
  <2>1. ASSUME NEW i \in 1..n, NEW y \in Slots, of(i) = {}
        PROVE  Next1(y, i) = y
    BY <2>1
  <2>2. ASSUME NEW i \in 1..n, NEW y \in Slots, of(i) # {}
        PROVE  \E x \in of(i) : Next1(y, i) = Publish(y, x)
    <3>1. (CHOOSE outcome \in of(i) : TRUE) \in of(i)
      BY <2>2
    <3>2. Next1(y, i) = Publish(y, CHOOSE outcome \in of(i) : TRUE)
      BY <2>2
    <3> HIDE DEF of, Next1
    <3> QED
      BY <3>1, <3>2
  <2>3. \A i \in 1..n : of(i) \subseteq Outcomes
    OBVIOUS
  <2> HIDE DEF of, Next1
  <2> QED
    BY <2>1, <2>2, <2>3, PublishType
<1>2. PublishAll(s, pending, outcomes)
        = (CHOOSE g : g = [i \in 0..n |-> IF i = 0 THEN s ELSE Next1(g[i - 1], i)])[n]
  BY DEF PublishAll
<1>3. n \in Nat
  OBVIOUS
<1>a. \A i \in 1..n : (of(i) = {} <=> \A x \in outcomes : x.operation # pending[i].operation)
                      /\ \A x \in of(i) : x \in outcomes /\ x.operation = pending[i].operation
  OBVIOUS
<1> HIDE DEF n, Next1, of
<1>4. step \in Steps(Slots, n)
  BY <1>1 DEF Steps
<1>5. PICK f : IsIteration(f, Slots, n, s, step)
  <2> HIDE DEF step
  <2> QED BY <1>3, <1>4, IterationExists
<1>6. /\ f \in [0..n -> Slots] /\ f[0] = s /\ \A i \in 1..n : f[i] = Next1(f[i - 1], i)
  <2>1. /\ f \in [0..n -> Slots] /\ f[0] = s
        /\ \A i \in 1..n : f[i] = step[i][f[i - 1]]
    <3> HIDE DEF step
    <3> QED BY <1>5 DEF IsIteration
  <2>2. \A i \in 1..n : f[i - 1] \in Slots
    BY <1>3, <2>1
  <2> QED
    BY <2>1, <2>2
<1> DEFINE Fixed(g) == g = [i \in 0..n |-> IF i = 0 THEN s ELSE Next1(g[i - 1], i)]
           after == CHOOSE g : Fixed(g)
<1>7. Fixed(f)
  BY <1>3, <1>6
<1>8. Fixed(after)
  BY <1>7
<1>9. after[n] = PublishAll(s, pending, outcomes)
  BY <1>2
<1> HIDE DEF after, step
<1>10. after[0] = s /\ \A i \in 1..n : after[i] = Next1(after[i - 1], i)
  BY <1>3, <1>8
<1> DEFINE G == {i \in 0..n : after[i] \in Slots}
<1>11. 0 \in G
  BY <1>3, <1>10
<1>12. ASSUME NEW i \in 0..(n - 1), i \in G PROVE i + 1 \in G
  <2>1. i + 1 \in 0..n /\ i + 1 \in 1..n /\ (i + 1) - 1 = i
    BY <1>3
  <2>2. after[i + 1] = Next1(after[i], i + 1)
    BY <1>10, <2>1
  <2> QED
    BY <1>1, <1>12, <2>1, <2>2
<1>13. 0..n \subseteq G
  <2> HIDE DEF G
  <2> QED
    BY <1>3, <1>11, <1>12, BoundedInduction
<1>14. after \in [0..n -> Slots]
  BY <1>8, <1>13
<1>15. ASSUME NEW i \in 1..n
       PROVE  \/ /\ \A x \in outcomes : x.operation # pending[i].operation
                 /\ after[i] = after[i - 1]
              \/ \E x \in outcomes : /\ x.operation = pending[i].operation
                                     /\ after[i] = Publish(after[i - 1], x)
  <2>1. after[i - 1] \in Slots /\ after[i] = Next1(after[i - 1], i)
    BY <1>3, <1>10, <1>14
  <2> QED
    BY <1>1, <1>a, <2>1
<1> QED
  BY <1>9, <1>10, <1>14, <1>15 DEF n, Publishing

LEMMA PublishedMore ==
  ASSUME NEW pending \in Seq(OperationRecord), Distinct(pending),
         NEW outcomes \in SUBSET Outcomes, \A x, y \in outcomes : x.operation = y.operation => x = y,
         NEW i \in 1..Len(pending), NEW q, PublishedTo(q, pending, outcomes, i - 1)
  PROVE  /\ (\A x \in outcomes : x.operation # pending[i].operation)
            => PublishedTo(q, pending, outcomes, i)
         /\ \A x \in outcomes : x.operation = pending[i].operation
            => PublishedTo(Append(q, x), pending, outcomes, i)
<1>1. /\ q \in Seq(Outcomes) /\ Len(pending) \in Nat /\ DOMAIN pending = 1..Len(pending)
      /\ 1..(i - 1) \subseteq 1..i /\ \A j \in 1..i : j \in 1..(i - 1) \/ j = i
      /\ DOMAIN q = 1..Len(q) /\ Len(q) \in Nat
  BY DEF PublishedTo
<1>2. ASSUME \A x \in outcomes : x.operation # pending[i].operation
      PROVE  PublishedTo(q, pending, outcomes, i)
  BY <1>1, <1>2 DEF PublishedTo
<1>3. ASSUME NEW x \in outcomes, x.operation = pending[i].operation
      PROVE  PublishedTo(Append(q, x), pending, outcomes, i)
  <2> DEFINE r == Append(q, x)
  <2>1. /\ r \in Seq(Outcomes) /\ DOMAIN r = 1..(Len(q) + 1) /\ r[Len(q) + 1] = x
        /\ \A k \in 1..Len(q) : r[k] = q[k]
        /\ \A k \in DOMAIN r : k \in DOMAIN q \/ k = Len(q) + 1
        /\ DOMAIN q \subseteq DOMAIN r /\ Len(q) + 1 \in DOMAIN r
    BY <1>1
  <2> HIDE DEF r
  <2>2. \A k \in DOMAIN q : q[k].operation # x.operation
    <3>1. ASSUME NEW k \in DOMAIN q, NEW j \in 1..(i - 1), q[k].operation = pending[j].operation
          PROVE  q[k].operation # x.operation
      <4>1. j # i /\ j \in DOMAIN pending /\ i \in DOMAIN pending
        BY <1>1
      <4> QED
        BY <1>3, <3>1, <4>1 DEF Distinct
    <3> QED
      BY <3>1 DEF PublishedTo
  <2>3. Distinct(r)
    <3>1. Distinct(q)
      BY DEF PublishedTo
    <3> QED
      BY <1>1, <2>1, <2>2, <3>1 DEF Distinct
  <2>4. \A k \in DOMAIN r : r[k] \in outcomes /\ \E j \in 1..i : r[k].operation = pending[j].operation
    <3>1. \A k \in DOMAIN q : r[k] \in outcomes /\ \E j \in 1..i : r[k].operation = pending[j].operation
      BY <1>1, <2>1 DEF PublishedTo
    <3> QED
      BY <1>1, <1>3, <2>1, <3>1
  <2>5. ASSUME NEW y \in outcomes, NEW j \in 1..i, y.operation = pending[j].operation
        PROVE  \E k \in DOMAIN r : r[k] = y
    <3>1. CASE j = i
      BY <1>3, <2>1, <2>5, <3>1
    <3>2. CASE j # i
      <4>1. \E k \in DOMAIN q : q[k] = y
        BY <1>1, <2>5, <3>2 DEF PublishedTo
      <4> QED
        BY <1>1, <2>1, <4>1
    <3> QED
      BY <3>1, <3>2
  <2>6. PublishedTo(r, pending, outcomes, i)
    BY <2>1, <2>3, <2>4, <2>5 DEF PublishedTo
  <2> QED
    BY <2>6 DEF r
<1> QED
  BY <1>2, <1>3

LEMMA AppendOutcome ==
  ASSUME NEW a \in Seq(Outcomes), NEW b \in Seq(Outcomes), NEW x \in Outcomes
  PROVE  Append(a \o b, x) = a \o Append(b, x)
  OBVIOUS

PublishesAs(s, pending, outcomes, q) ==
  /\ PublishedTo(q, pending, outcomes, Len(pending))
  /\ PublishAll(s, pending, outcomes) = [s EXCEPT !.outcomes = s.outcomes \o q]

\* With room for every operation in flight each outcome goes to the batch.
LEMMA PublishAllTells ==
  ASSUME NEW s \in Slots, NEW pending \in Seq(OperationRecord), Distinct(pending),
         NEW outcomes \in SUBSET Outcomes,
         \A x, y \in outcomes : x.operation = y.operation => x = y,
         \A x \in outcomes : x.operation \in Live(pending) /\ x.reply <= ReplyBytes,
         \A i \in DOMAIN s.outcomes : s.outcomes[i].reply <= ReplyBytes,
         Len(s.outcomes) + Cardinality(Live(pending)) <= MaxOperations
  PROVE  \E q : PublishesAs(s, pending, outcomes, q)
<1> DEFINE n == Len(pending)
           o == s.outcomes
<1>0. PICK after : Publishing(after, s, pending, outcomes)
  BY PublishAllIterates
<1>1. /\ after \in [0..n -> Slots]
      /\ after[0] = s
      /\ \A i \in 1..n :
           \/ /\ \A x \in outcomes : x.operation # pending[i].operation
              /\ after[i] = after[i - 1]
           \/ \E x \in outcomes : /\ x.operation = pending[i].operation
                                  /\ after[i] = Publish(after[i - 1], x)
      /\ after[n] = PublishAll(s, pending, outcomes)
  BY <1>0 DEF Publishing
<1>2. /\ n \in Nat /\ o \in Seq(Outcomes) /\ Len(o) \in Nat /\ MaxOperations \in Nat
      /\ IsFiniteSet(Live(pending)) /\ Cardinality(Live(pending)) \in Nat
  <2>1. n \in Nat /\ o \in Seq(Outcomes) /\ MaxOperations \in Nat
    BY SlotFields, LimitsAssumption
  <2>2. Len(o) \in Nat
    BY <2>1
  <2> QED
    BY <2>1, <2>2, LiveCounted, Zenon
<1> DEFINE At(i, q) == /\ PublishedTo(q, pending, outcomes, i)
                       /\ after[i] = [s EXCEPT !.outcomes = o \o q]
           G == {i \in 0..n : \E q : At(i, q)}
<1> HIDE DEF n, o
<1>3. 0 \in G
  <2>1. s = [s EXCEPT !.outcomes = o \o <<>>]
    <3>1. o \o <<>> = o
      BY <1>2
    <3> QED
      BY <3>1 DEF Slots, o
  <2>2. PublishedTo(<<>>, pending, outcomes, 0)
    BY DEF PublishedTo, Distinct
  <2>3. At(0, <<>>)
    BY <1>1, <2>1, <2>2
  <2> HIDE DEF At
  <2> QED
    BY <1>2, <2>3
<1>4. ASSUME NEW i \in 0..(n - 1), i \in G PROVE i + 1 \in G
  <2>1. i + 1 \in 1..n /\ (i + 1) - 1 = i /\ i + 1 \in 0..n
    BY <1>2
  <2>2. PICK q : At(i, q)
    BY <1>4
  <2>3. PublishedTo(q, pending, outcomes, (i + 1) - 1) /\ q \in Seq(Outcomes)
    BY <2>1, <2>2 DEF PublishedTo
  <2>4. \/ \A x \in outcomes : x.operation # pending[i + 1].operation /\ after[i + 1] = after[i]
        \/ \E x \in outcomes : /\ x.operation = pending[i + 1].operation
                               /\ after[i + 1] = Publish(after[i], x)
    BY <1>1, <2>1
  <2>5. CASE (\A x \in outcomes : x.operation # pending[i + 1].operation) /\ after[i + 1] = after[i]
    <3>1. PublishedTo(q, pending, outcomes, i + 1)
      BY <2>1, <2>3, <2>5, PublishedMore DEF n
    <3>2. At(i + 1, q)
      BY <2>2, <2>5, <3>1
    <3> HIDE DEF At
    <3> QED
      BY <2>1, <3>2
  <2>6. ASSUME NEW x \in outcomes, x.operation = pending[i + 1].operation,
               after[i + 1] = Publish(after[i], x)
        PROVE  i + 1 \in G
    <3> DEFINE r == Append(q, x)
               w == after[i]
    <3>1. PublishedTo(r, pending, outcomes, i + 1)
      BY <2>1, <2>3, <2>6, PublishedMore DEF n
    <3>2. r \in Seq(Outcomes) /\ Len(r) = Len(q) + 1 /\ Len(q) \in Nat
      BY <2>3
    <3>3. Len(r) <= Cardinality(Live(pending))
      <4> HIDE DEF r
      <4>1. Distinct(r) /\ TellsOf(r) \subseteq Live(pending)
        BY <3>1 DEF PublishedTo, TellsOf
      <4>2. Cardinality(TellsOf(r)) = Len(r)
        BY <3>2, <4>1, TellsCounted
      <4>3. Cardinality(TellsOf(r)) <= Cardinality(Live(pending))
        BY <1>2, <4>1, FS_Subset
      <4> QED
        BY <4>2, <4>3
    <3>4. w = [s EXCEPT !.outcomes = o \o q] /\ w \in Slots
      BY <1>1, <1>2, <2>2
    <3>5. w.outcomes = o \o q
      BY <3>4 DEF Slots
    <3>6. /\ o \o q \in Seq(Outcomes) /\ Len(o \o q) = Len(o) + Len(q)
          /\ \A k \in DOMAIN (o \o q) : (o \o q)[k].reply <= ReplyBytes
      <4>1. /\ o \o q \in Seq(Outcomes) /\ Len(o \o q) = Len(o) + Len(q)
            /\ DOMAIN (o \o q) = 1..(Len(o) + Len(q))
            /\ \A k \in 1..Len(o) : (o \o q)[k] = o[k]
            /\ \A k \in (Len(o) + 1)..(Len(o) + Len(q)) : (o \o q)[k] = q[k - Len(o)]
        BY <1>2, <2>3
      <4>2. \A k \in 1..Len(o) : o[k].reply <= ReplyBytes
        BY <1>2 DEF o
      <4>3. \A k \in 1..Len(q) : q[k].reply <= ReplyBytes
        BY <2>3 DEF PublishedTo
      <4>4. \A k \in (Len(o) + 1)..(Len(o) + Len(q)) : k - Len(o) \in 1..Len(q)
        BY <1>2, <3>2
      <4>5. \A k \in 1..(Len(o) + Len(q)) :
              k \in 1..Len(o) \/ k \in (Len(o) + 1)..(Len(o) + Len(q))
        BY <1>2, <3>2
      <4> QED
        BY <4>1, <4>2, <4>3, <4>4, <4>5
    <3>7. OutcomeFits(w.outcomes, x)
      <4>1. Len(o \o q) < MaxOperations
        BY <1>2, <3>2, <3>3, <3>6 DEF o
      <4> QED
        BY <3>5, <3>6, <4>1, RoomFits
    <3>8. Publish(w, x) = [w EXCEPT !.outcomes = Append(o \o q, x)]
      BY <3>5, <3>7 DEF Publish
    <3>9. Append(o \o q, x) = o \o r
      <4>1. o \in Seq(Outcomes) /\ q \in Seq(Outcomes) /\ x \in Outcomes
        BY <1>2, <2>3
      <4> QED
        BY <4>1, AppendOutcome
    <3>10. Publish(w, x) = [s EXCEPT !.outcomes = o \o r]
      <4> HIDE DEF r, w
      <4> QED
        BY <3>4, <3>8, <3>9 DEF Slots
    <3>11. At(i + 1, r)
      BY <2>6, <3>1, <3>10
    <3> HIDE DEF At
    <3> QED
      BY <2>1, <3>11
  <2> QED
    BY <2>4, <2>5, <2>6, <1>1, <2>1
<1>5. 0..n \subseteq G
  <2> HIDE DEF G
  <2> QED
    BY <1>2, <1>3, <1>4, BoundedInduction
<1>6. n \in G
  <2> HIDE DEF G
  <2> QED
    BY <1>2, <1>5
<1> QED
  BY <1>1, <1>6 DEF n, o, PublishesAs

(***************************************************************************)
(* The timer index.                                                        *)
(***************************************************************************)

\* Every record and every permit takes one of the operations the ledger counts.
LEMMA OperationsCounted ==
  ASSUME NEW m \in Machine, NEW P, Books(m, P)
  PROVE  /\ Cardinality(P) \in Nat /\ Len(m.pending) \in Nat
         /\ Len(m.pending) + Cardinality(P) = m.ledger.operations
         /\ m.ledger.operations <= MaxOperations
<1> DEFINE R == Granted(P)
           S == Owed(m.pending)
           f == [p \in P |-> <<p.operation, p.reservation>>]
<1>1. /\ Identified(m, P) /\ IsFiniteSet(P) /\ Cardinality(P) \in Nat
      /\ m.pending \in Seq(OperationRecord) /\ Distinct(m.pending)
      /\ \A p, q \in P : p.operation = q.operation => p = q
  BY MachineFields, PermitsCounted DEF Books, Identified
<1>2. IsFiniteSet(S) /\ Cardinality(S) = Len(m.pending) /\ Len(m.pending) \in Nat
  BY <1>1, SlotsCounted
<1>3. IsFiniteSet(R) /\ Cardinality(R) = Cardinality(P)
  <2>1. f \in [P -> R] /\ \A x \in R : \E p \in P : f[p] = x
    BY DEF Granted
  <2>2. \A p, q \in P : f[p] = f[q] => p = q
    BY <1>1
  <2> HIDE DEF f, R
  <2>3. f \in Bijection(P, R)
    BY <2>1, <2>2 DEF Bijection, Injection, Surjection, IsInjective
  <2>4. ExistsBijection(P, R)
    BY <2>3 DEF ExistsBijection
  <2> QED
    BY <1>1, <2>4, FS_Bijection
<1>4. R \cap S = {}
  BY <1>1, RecordsApart DEF Owed
<1> HIDE DEF R, S
<1>5. Cardinality(R \cup S) = Cardinality(R) + Cardinality(S)
  <2>1. Cardinality(R \cup S) = Cardinality(R) + Cardinality(S) - Cardinality(R \cap S)
    BY <1>2, <1>3, FS_Union
  <2>2. Cardinality(R \cap S) = 0
    BY <1>4, FS_EmptySet
  <2> QED
    BY <1>1, <1>2, <1>3, <2>1, <2>2
<1>6. m.ledger.operations = Cardinality(R \cup S) /\ m.ledger.operations <= MaxOperations
  BY DEF Books, Balanced, AllHeld, R, S
<1> QED
  BY <1>1, <1>2, <1>3, <1>5, <1>6

LEMMA TimedCounted ==
  ASSUME NEW s \in Seq(OperationRecord), Distinct(s)
  PROVE  /\ IsFiniteSet(Timed(s)) /\ Cardinality(Timed(s)) = Len(s)
         /\ \A x, y \in Timed(s) : x[1] = y[1] => x = y
         /\ Timed(s) \subseteq Operations \X Moments
<1> DEFINE f == [i \in 1..Len(s) |-> TimerOf(s[i])]
<1>1. Len(s) \in Nat /\ DOMAIN s = 1..Len(s) /\ \A i \in DOMAIN s : s[i] \in OperationRecord
  OBVIOUS
<1>2. f \in [1..Len(s) -> Timed(s)] /\ \A x \in Timed(s) : \E i \in 1..Len(s) : f[i] = x
  BY <1>1 DEF Timed
<1>3. \A i, j \in 1..Len(s) : f[i] = f[j] => i = j
  BY <1>1 DEF Distinct, TimerOf
<1>4. \A x, y \in Timed(s) : x[1] = y[1] => x = y
  <2>1. \A i \in DOMAIN s : TimerOf(s[i])[1] = s[i].operation
    BY DEF TimerOf
  <2> QED
    BY <2>1 DEF Timed, Distinct
<1>5. Timed(s) \subseteq Operations \X Moments
  BY <1>1, RecordFields DEF Timed, TimerOf
<1> HIDE DEF f
<1> QED
  BY <1>1, <1>2, <1>3, <1>4, <1>5, Enumerated

LEMMA ScheduleAllExact ==
  ASSUME NEW s \in Slots, NEW m \in Machine, NEW P, Books(m, P),
         NEW schedule, schedule = {} \/ \E x : schedule = {x},
         s.timers \cup schedule = Timed(m.pending)
  PROVE  ScheduleAll(s, schedule) = [s EXCEPT !.timers = Timed(m.pending)]
<1> DEFINE all == Timed(m.pending)
<1>1. m.pending \in Seq(OperationRecord) /\ Distinct(m.pending)
  BY MachineFields DEF Books, Identified
<1>2. /\ IsFiniteSet(all) /\ Cardinality(all) = Len(m.pending)
      /\ \A x, y \in all : x[1] = y[1] => x = y
  BY <1>1, TimedCounted
<1>3. Cardinality(all) <= MaxOperations /\ Cardinality(all) \in Nat /\ MaxOperations \in Nat
  BY <1>2, OperationsCounted, LimitsAssumption
<1> HIDE DEF all
<1>4. CASE schedule = {}
  <2>1. s.timers = all
    BY <1>4 DEF all
  <2>2. ScheduleAll(s, schedule) = s
    BY <1>4 DEF ScheduleAll
  <2>3. s = [s EXCEPT !.timers = all]
    BY <2>1 DEF Slots
  <2> QED
    BY <2>2, <2>3 DEF all
<1>5. ASSUME NEW x, schedule = {x}
      PROVE  ScheduleAll(s, schedule) = [s EXCEPT !.timers = all]
  <2> DEFINE kept == CancelDeadline(s.timers, {x[1]})
  <2>1. s.timers \subseteq all /\ x \in all
    BY <1>5 DEF all
  <2>2. kept = all \ {x}
    <3>1. s.timers \cup {x} = all
      BY <1>5 DEF all
    <3> QED
      BY <1>2, <2>1, <3>1 DEF CancelDeadline
  <2>3. IsFiniteSet(kept) /\ Cardinality(kept) = Cardinality(all) - 1 /\ kept \cup {x} = all
    <3>1. IsFiniteSet(all \ {x}) /\ Cardinality(all \ {x}) = Cardinality(all) - 1
      BY <1>2, <2>1, FS_RemoveElement
    <3>2. (all \ {x}) \cup {x} = all
      BY <2>1
    <3> HIDE DEF kept
    <3> QED
      BY <2>2, <3>1, <3>2
  <2>4. (CHOOSE timer \in schedule : TRUE) = x /\ schedule # {}
    BY <1>5
  <2> HIDE DEF kept
  <2>5. ~(Cardinality(kept) >= MaxOperations)
    BY <1>3, <2>3
  <2>6. ScheduleDeadline(s, x) = [s EXCEPT !.timers = all]
    BY <2>3, <2>5 DEF ScheduleDeadline, kept
  <2>7. ScheduleAll(s, schedule) = ScheduleDeadline(s, x)
    BY <2>4 DEF ScheduleAll
  <2> QED
    BY <2>6, <2>7
<1> QED
  BY <1>4, <1>5 DEF all

(***************************************************************************)
(* Closing.                                                                *)
(***************************************************************************)
LEMMA RequestsAre ==
  /\ NoRequest \in CloseRequests /\ AbortRequest \in CloseRequests
  /\ NoRequest.kind = "None" /\ AbortRequest.kind = "Abort" /\ NoRequest # AbortRequest
  /\ Never \in 0..Never /\ Never \in Nat
<1>1. Never \in Nat
  BY ClockAssumption DEF Never
<1> QED
  BY <1>1 DEF NoRequest, AbortRequest, CloseRequests, Shutdowns, CloseReasons, ExternalReasons

LEMMA FinishCloseTells ==
  ASSUME NEW s \in Slots, Running(s), s.recoveryEvents = <<>>, s.closeRequest = NoRequest,
         NEW reason \in CloseReasons,
         s.transportState = "Open" /\ reason = "Drained" => s.drainDeadline # Never,
         NEW r, r = FinishClose(s, reason),
         NEW event, event = [sequence |-> s.eventSequence + 1, kind |-> "Closing", reason |-> reason]
  PROVE  /\ r \in Slots /\ Carries(s, r) /\ Holding(s, r) /\ event \in Events
         /\ r.transportState = "Closing" /\ r.drainDeadline = Never
         /\ r.closeRequest.kind = "Core" /\ r.closeRequest.reason = reason
         /\ r.closeRequest.shutdown \in {"Immediate", "Pending"}
         /\ r.closeRequest.shutdown = "Pending" => s.transportState = "Open" /\ reason = "Drained"
         /\ TellsMore(s, r, event)
         /\ Running(r) <=> r.recoveryEvents = <<>>
<1> DEFINE closing == PublishEvent(s, "Closing", reason)
           graceful == s.transportState = "Open" /\ reason = "Drained"
           shutdown == IF graceful THEN "Pending" ELSE "Immediate"
           request == CoreRequest(reason, shutdown,
                                  IF shutdown = "Pending" THEN s.drainDeadline ELSE Never)
<1>1. /\ closing \in Slots /\ Carries(s, closing) /\ Holding(s, closing) /\ event \in Events
      /\ TellsMore(s, closing, event)
      /\ Running(closing) <=> closing.recoveryEvents = <<>>
  <2>1. /\ closing = PublishEvent(s, "Closing", reason)
        /\ "Closing" \in {"TransportOpened", "AdmissionOpened", "Closing", "Closed"}
    OBVIOUS
  <2> HIDE DEF closing
  <2> QED
    BY <2>1, PublishEventTells
<1>2. ~(graceful /\ s.drainDeadline = Never)
  OBVIOUS
<1>3. r = [closing EXCEPT !.drainDeadline = Never, !.transportState = "Closing",
                          !.closeRequest = request]
  BY <1>2 DEF FinishClose
<1>4. /\ request \in CloseRequests /\ request.kind = "Core" /\ request.reason = reason
      /\ request.shutdown = shutdown
  BY SlotFields, RequestsAre DEF CoreRequest, CloseRequests, Shutdowns
<1> HIDE DEF closing, request
<1>5. r \in Slots
  BY ZenonT(40), <1>1, <1>3, <1>4, RequestsAre DEF Slots, TransportStates
<1>6. /\ r.transportState = "Closing" /\ r.drainDeadline = Never /\ r.closeRequest = request
      /\ Carries(closing, r) /\ Holding(closing, r) /\ r.eventSequence = closing.eventSequence
      /\ r.lifecycle = closing.lifecycle /\ r.recoveryEvents = closing.recoveryEvents
      /\ r.owner = closing.owner
  BY <1>1, <1>3 DEF Slots, Carries, Holding
<1>7. Carries(s, r) /\ Holding(s, r)
  BY <1>1, <1>6 DEF Carries, Holding
<1> QED
  BY <1>1, <1>4, <1>5, <1>6, <1>7 DEF Running, TellsMore

(***************************************************************************)
(* The writer seen through the records.                                    *)
(***************************************************************************)
LEMMA MinIs ==
  ASSUME NEW S, S \subseteq Nat
  PROVE  /\ S # {} => Min(S) \in S /\ \A y \in S : Min(S) <= y
         /\ \A k \in S : (\A y \in S : k <= y) => Min(S) = k
<1>1. S # {} => \E x \in S : \A y \in S : x <= y
  BY LeastNatural
<1>2. S # {} => Min(S) \in S /\ \A y \in S : Min(S) <= y
  BY <1>1 DEF Min
<1>3. ASSUME NEW k \in S, \A y \in S : k <= y PROVE Min(S) = k
  <2>1. Min(S) \in S /\ Min(S) <= k /\ k <= Min(S)
    BY <1>2, <1>3
  <2>2. Min(S) \in Nat /\ k \in Nat
    BY <2>1
  <2> QED
    BY <2>1, <2>2
<1> QED
  BY <1>2, <1>3

LEMMA HeldAre ==
  ASSUME NEW m \in Machine
  PROVE  /\ HeldPositions(m) \subseteq DOMAIN m.pending /\ HeldPositions(m) \subseteq Nat
         /\ HeldOperations(m) \subseteq Operations
         /\ HeldPositions(m) # {} =>
              /\ Min(HeldPositions(m)) \in HeldPositions(m)
              /\ FrontHeld(m) = m.pending[Min(HeldPositions(m))].operation
              /\ FrontHeld(m) \in HeldOperations(m)
              /\ Holds(m.pending, FrontHeld(m))
<1>1. m.pending \in Seq(OperationRecord)
  BY MachineFields
<1>2. DOMAIN m.pending \subseteq Nat /\ \A i \in DOMAIN m.pending : m.pending[i] \in OperationRecord
  BY <1>1
<1>3. HeldPositions(m) \subseteq DOMAIN m.pending /\ HeldPositions(m) \subseteq Nat
  BY <1>2 DEF HeldPositions
<1>4. HeldOperations(m) \subseteq Operations
  BY <1>2, <1>3, RecordFields DEF HeldOperations
<1>5. HeldPositions(m) # {} => Min(HeldPositions(m)) \in HeldPositions(m)
  BY <1>3, MinIs
<1> QED
  BY <1>3, <1>4, <1>5 DEF FrontHeld, HeldOperations, Holds

\* The records a machine keeps: none changes its delivery or takes a frame, and
\* the front frame stays in front for as long as it is held.
Narrows(m, r) ==
  /\ \A i \in DOMAIN r.pending : \E j \in DOMAIN m.pending :
       /\ r.pending[i].operation = m.pending[j].operation
       /\ r.pending[i].delivery = m.pending[j].delivery
       /\ r.pending[i].writeHeld => m.pending[j].writeHeld
  /\ HeldPositions(m) # {} /\ FrontHeld(m) \in HeldOperations(r) => FrontHeld(r) = FrontHeld(m)

LEMMA NarrowsEmpty ==
  ASSUME NEW m, NEW r, r.pending = <<>>
  PROVE  Narrows(m, r)
  BY DEF Narrows, HeldOperations, HeldPositions

LEMMA NarrowsSame ==
  ASSUME NEW m \in Machine, NEW r \in Machine, Distinct(m.pending),
         DOMAIN r.pending = DOMAIN m.pending,
         \A j \in DOMAIN m.pending :
           /\ r.pending[j].operation = m.pending[j].operation
           /\ r.pending[j].delivery = m.pending[j].delivery
           /\ r.pending[j].writeHeld => m.pending[j].writeHeld
  PROVE  Narrows(m, r)
<1> DEFINE k == Min(HeldPositions(m))
<1>1. HeldPositions(r) \subseteq HeldPositions(m) /\ HeldPositions(m) \subseteq Nat
  BY HeldAre DEF HeldPositions
<1>2. SUFFICES ASSUME HeldPositions(m) # {}, FrontHeld(m) \in HeldOperations(r)
               PROVE  FrontHeld(r) = FrontHeld(m)
  BY DEF Narrows
<1>3. k \in HeldPositions(m) /\ FrontHeld(m) = m.pending[k].operation
      /\ \A y \in HeldPositions(m) : k <= y
  BY <1>1, <1>2, HeldAre, MinIs
<1>4. k \in DOMAIN m.pending
  BY <1>3 DEF HeldPositions
<1> HIDE DEF k
<1>5. PICK j \in HeldPositions(r) : r.pending[j].operation = FrontHeld(m)
  BY <1>2 DEF HeldOperations
<1>6. j = k
  <2>1. j \in DOMAIN m.pending /\ m.pending[j].operation = m.pending[k].operation
    BY <1>3, <1>5 DEF HeldPositions
  <2> QED
    BY <1>4, <2>1 DEF Distinct
<1>7. Min(HeldPositions(r)) = k
  <2>1. HeldPositions(r) \subseteq Nat /\ k \in HeldPositions(r) /\ \A y \in HeldPositions(r) : k <= y
    BY <1>1, <1>3, <1>5, <1>6
  <2> QED
    BY <2>1, MinIs
<1> QED
  BY <1>3, <1>4, <1>7 DEF FrontHeld

LEMMA NarrowsRemoved ==
  ASSUME NEW m \in Machine, NEW r \in Machine, Distinct(m.pending), NEW i \in DOMAIN m.pending,
         r.pending = RemoveAt(m.pending, i)
  PROVE  Narrows(m, r)
<1> DEFINE s == m.pending
           n == Len(s)
           k == Min(HeldPositions(m))
<1>1. /\ s \in Seq(OperationRecord) /\ n \in Nat /\ DOMAIN s = 1..n /\ i \in 1..n
  BY MachineFields
<1>2. /\ DOMAIN r.pending = 1..(n - 1)
      /\ \A j \in 1..(n - 1) : r.pending[j] = IF j < i THEN s[j] ELSE s[j + 1]
  <2>1. /\ DOMAIN RemoveAt(s, i) = 1..(n - 1)
        /\ \A j \in 1..(n - 1) : RemoveAt(s, i)[j] = IF j < i THEN s[j] ELSE s[j + 1]
    <3> HIDE DEF s
    <3>1. s \in Seq(OperationRecord) /\ i \in DOMAIN s
      BY <1>1
    <3> QED
      BY <3>1, RemoveAtItems
  <2>2. r.pending = RemoveAt(s, i)
    OBVIOUS
  <2> QED
    BY <2>1, <2>2
<1>3. \A j \in 1..(n - 1) : /\ j < i => j \in 1..n /\ r.pending[j] = s[j]
                            /\ ~(j < i) => j + 1 \in 1..n /\ r.pending[j] = s[j + 1]
  BY <1>1, <1>2
<1>4. SUFFICES ASSUME HeldPositions(m) # {}, FrontHeld(m) \in HeldOperations(r)
               PROVE  FrontHeld(r) = FrontHeld(m)
  BY <1>1, <1>2, <1>3 DEF Narrows
<1>5. k \in HeldPositions(m) /\ FrontHeld(m) = s[k].operation
      /\ (\A y \in HeldPositions(m) : k <= y) /\ HeldPositions(m) \subseteq Nat
  BY <1>4, HeldAre, MinIs
<1>6. k \in 1..n /\ s[k].writeHeld
  BY <1>1, <1>5 DEF HeldPositions
<1> HIDE DEF k
<1>7. HeldPositions(r) = {j \in 1..(n - 1) : r.pending[j].writeHeld}
  BY <1>2 DEF HeldPositions
<1>8. HeldPositions(m) = {j \in 1..n : s[j].writeHeld}
  BY <1>1 DEF HeldPositions
<1>9. PICK j \in 1..(n - 1) : r.pending[j].operation = s[k].operation
  BY <1>4, <1>5, <1>7 DEF HeldOperations
<1> HIDE DEF s, n
<1>10. \A a, b \in 1..n : s[a].operation = s[b].operation => a = b
  BY <1>1 DEF Distinct, s
<1>11. CASE j < i
  <2>1. j = k
    BY <1>3, <1>6, <1>9, <1>10, <1>11
  <2>2. ASSUME NEW y \in HeldPositions(r) PROVE k <= y
    <3>1. y \in 1..(n - 1) /\ r.pending[y].writeHeld
      BY <1>7
    <3>2. CASE y < i
      BY <1>3, <1>5, <1>8, <3>1, <3>2
    <3>3. CASE ~(y < i)
      BY <1>1, <1>2, <1>11, <2>1, <3>1, <3>3
    <3> QED BY <3>2, <3>3
  <2>3. k \in HeldPositions(r)
    BY <1>3, <1>6, <1>7, <1>11, <2>1
  <2>4. HeldPositions(r) \subseteq Nat
    BY <1>7
  <2>5. Min(HeldPositions(r)) = k
    BY <2>2, <2>3, <2>4, MinIs
  <2> QED
    BY <1>5, <1>9, <2>1, <2>5 DEF FrontHeld
<1>12. CASE ~(j < i)
  <2>1. j + 1 = k
    BY <1>3, <1>6, <1>9, <1>10, <1>12
  <2>2. ASSUME NEW y \in HeldPositions(r) PROVE j <= y
    <3>1. y \in 1..(n - 1) /\ r.pending[y].writeHeld
      BY <1>7
    <3>2. CASE y < i
      <4>1. k <= y
        BY <1>3, <1>5, <1>8, <3>1, <3>2
      <4> QED
        BY <1>1, <1>12, <2>1, <3>1, <4>1
    <3>3. CASE ~(y < i)
      <4>1. y + 1 \in HeldPositions(m)
        BY <1>3, <1>8, <3>1, <3>3
      <4>2. k <= y + 1
        BY <1>5, <4>1
      <4> QED
        BY <1>1, <2>1, <3>1, <4>2
    <3> QED BY <3>2, <3>3
  <2>3. j \in HeldPositions(r)
    BY <1>3, <1>6, <1>7, <1>12, <2>1
  <2>4. HeldPositions(r) \subseteq Nat
    BY <1>7
  <2>5. Min(HeldPositions(r)) = j
    BY <2>2, <2>3, <2>4, MinIs
  <2> QED
    BY <1>5, <1>9, <2>5 DEF FrontHeld
<1> QED
  BY <1>11, <1>12

\* What the discards of a transition say of the records it leaves.
LEMMA NarrowsFrom ==
  ASSUME NEW m \in Machine, NEW r \in Machine, Sound(m), Distinct(r.pending), NEW discard,
         Discards(m.pending, discard, r.pending)
  PROVE  Narrows(m, r) /\ Sound(r)
<1>1. m.pending \in Seq(OperationRecord) /\ r.pending \in Seq(OperationRecord)
  BY MachineFields
<1>2. Distinct(m.pending) /\ \A i \in DOMAIN m.pending : RecordSound(m.pending[i])
  BY DEF Sound
<1>3. CASE Alike(r.pending, m.pending)
  <2>1. DOMAIN r.pending = DOMAIN m.pending /\ DOMAIN m.pending = 1..Len(m.pending)
    BY <1>1, <1>3 DEF Alike
  <2>2. \A i \in DOMAIN m.pending : /\ r.pending[i].operation = m.pending[i].operation
                                    /\ r.pending[i].delivery = m.pending[i].delivery
                                    /\ r.pending[i].writeHeld = m.pending[i].writeHeld
                                    /\ RecordSound(m.pending[i]) => RecordSound(r.pending[i])
    BY <1>3, <2>1 DEF Alike
  <2>3. Narrows(m, r)
    BY <1>2, <2>1, <2>2, NarrowsSame
  <2> QED
    BY <1>2, <2>1, <2>2, <2>3 DEF Sound
<1>4. ASSUME NEW i \in DOMAIN m.pending, r.pending = RemoveAt(m.pending, i)
      PROVE  Narrows(m, r) /\ Sound(r)
  <2>1. \A k \in DOMAIN r.pending : \E j \in DOMAIN m.pending : r.pending[k] = m.pending[j]
    BY <1>1, <1>2, <1>4, RemovedRecord
  <2> QED
    BY <1>2, <1>4, <2>1, NarrowsRemoved DEF Sound
<1>5. CASE r.pending = <<>>
  BY <1>5, NarrowsEmpty DEF Sound
<1> QED
  BY <1>3, <1>4, <1>5 DEF Discards

\* The written bytes belong to the front frame or there are none.
LEMMA FrontedAfter ==
  ASSUME NEW s, NEW r, s.machine \in Machine, r \in Machine, Narrows(s.machine, r),
         Fronted(s.machine, s.written)
  PROVE  Fronted(r, WrittenAfter(s, r))
<1> DEFINE m == s.machine
<1>1. SUFFICES ASSUME NEW i \in HeldPositions(r), r.pending[i].delivery = "PossiblySent"
               PROVE  r.pending[i].operation = FrontHeld(r) /\ WrittenAfter(s, r) > 0
  BY DEF Fronted
<1>2. i \in DOMAIN r.pending /\ r.pending[i].writeHeld
  BY DEF HeldPositions
<1>3. PICK j \in DOMAIN m.pending : /\ r.pending[i].operation = m.pending[j].operation
                                    /\ r.pending[i].delivery = m.pending[j].delivery
                                    /\ m.pending[j].writeHeld
  BY <1>2 DEF Narrows
<1>4. j \in HeldPositions(m)
  BY <1>3 DEF HeldPositions
<1>5. m.pending[j].operation = FrontHeld(m) /\ s.written > 0
  BY <1>1, <1>3, <1>4 DEF Fronted
<1>6. FrontHeld(m) \in HeldOperations(r)
  BY <1>3, <1>5 DEF HeldOperations
<1>7. FrontHeld(r) = FrontHeld(m)
  BY <1>4, <1>6 DEF Narrows
<1> QED
  BY <1>3, <1>4, <1>5, <1>7 DEF WrittenAfter, HasFrames, FrontOperation

(***************************************************************************)
(* What a handler of the machine does to records, timers and outcomes.     *)
(***************************************************************************)

\* The outcomes published are those of the operations that are no longer in flight.
Concludes(s, publish, r) ==
  /\ \A x \in publish : x.operation \in Live(s)
  /\ \A x, y \in publish : x.operation = y.operation => x = y
  /\ Live(r) = Live(s) \ {x.operation : x \in publish}

Handles(m, P, t, fired) ==
  /\ t \in Transitions /\ DrainWaits(t.machine)
  /\ Accounts(m, P, t, fired)
  /\ Concludes(m.pending, t.publish, t.machine.pending)
  /\ Sound(t.machine) /\ Narrows(m, t.machine)
  /\ t.machine.nextOperation = m.nextOperation
  /\ t.schedule = {} \/ \E x : t.schedule = {x}
  /\ \A x \in t.publish : x.reply <= ReplyBytes

\* ... and to the epoch: nothing, one of the given gates, or a close for one of
\* the given reasons or because a drain is over.
Course(m, r, reasons, gates) ==
  \/ /\ r.phase = m.phase /\ r.closeReason = m.closeReason
     /\ r.gate = m.gate \/ (m.phase = "Live" /\ r.gate \in gates)
  \/ /\ m.phase = "Live" /\ r.phase = "Closing"
     /\ \/ r.closeReason \in reasons
        \/ r.closeReason = "Drained" /\ (m.gate = "Draining" \/ "Draining" \in gates)

LEMMA HandlesFrom ==
  ASSUME NEW m \in Machine, Sound(m), NEW P, NEW t, t \in Transitions, DrainWaits(t.machine),
         NEW fired, Accounts(m, P, t, fired), Resolves(m, t),
         t.machine.nextOperation = m.nextOperation,
         t.schedule = {} \/ \E x : t.schedule = {x},
         \A x \in t.publish : x.reply <= ReplyBytes
  PROVE  Handles(m, P, t, fired)
<1>1. t.machine \in Machine /\ Distinct(t.machine.pending)
  BY TransitionFields DEF Accounts, Books, Identified
<1>2. Narrows(m, t.machine) /\ Sound(t.machine)
  BY <1>1, NarrowsFrom DEF Resolves
<1>3. Concludes(m.pending, t.publish, t.machine.pending)
  BY DEF Resolves, Tells, Concludes, Live
<1> QED
  BY <1>2, <1>3 DEF Handles

\* What FinishDrain adds.
LEMMA FinishCourse ==
  ASSUME NEW m, NEW t \in Transitions, NEW gates, t.machine.phase = m.phase,
         t.machine.closeReason = m.closeReason,
         t.machine.gate = m.gate \/ (m.phase = "Live" /\ t.machine.gate \in gates)
  PROVE  /\ Course(m, FinishDrain(t).machine, {}, gates)
         /\ FinishDrain(t).schedule = t.schedule
         /\ FinishDrain(t).publish = t.publish
<1>0. FinishDrain(t).publish = t.publish
  BY FinishKeeps
<1>1. CASE t.machine.gate = "Draining" /\ t.machine.pending = <<>> /\ t.machine.phase = "Live"
  <2>1. FinishDrain(t) = CloseInto(t, "Drained", {})
    BY <1>1 DEF FinishDrain
  <2>2. /\ CloseInto(t, "Drained", {}).machine.phase = "Closing"
        /\ CloseInto(t, "Drained", {}).machine.closeReason = "Drained"
        /\ CloseInto(t, "Drained", {}).schedule = t.schedule
    BY <1>1, TransitionFields DEF CloseInto, Transitions, Machine
  <2> QED
    BY <1>0, <1>1, <2>1, <2>2 DEF Course
<1>2. CASE ~(t.machine.gate = "Draining" /\ t.machine.pending = <<>> /\ t.machine.phase = "Live")
  <2>1. FinishDrain(t) = t
    BY <1>2 DEF FinishDrain, CloseInto
  <2> QED
    BY <1>0, <2>1 DEF Course
<1> QED
  BY <1>1, <1>2

LEMMA ReplyZero ==
  ASSUME NEW operation, NEW kind, NEW delivery, NEW reply
  PROVE  /\ Outcome(operation, kind, delivery, reply).reply = reply
         /\ 0 <= ReplyBytes
  BY SlotAssumption DEF Outcome

LEMMA CloseHandles ==
  ASSUME NEW m \in Machine, Sound(m), DrainWaits(m), NEW P, Books(m, P),
         NEW reason \in CloseReasons, NEW blamed
  PROVE  /\ Handles(m, P, CloseInto(Transition(m), reason, blamed), {})
         /\ Course(m, CloseInto(Transition(m), reason, blamed).machine, {reason}, {})
         /\ m.phase # "Live" => CloseInto(Transition(m), reason, blamed) = Transition(m)
         /\ m.phase = "Live" => /\ CloseInto(Transition(m), reason, blamed).machine.phase = "Closing"
                                /\ CloseInto(Transition(m), reason, blamed).machine.closeReason = reason
<1> DEFINE t == CloseInto(Transition(m), reason, blamed)
<1>1. Transition(m) \in Transitions /\ Transition(m).machine = m /\ Transition(m).schedule = {}
      /\ Transition(m).publish = {}
  BY TransitionType DEF Transition
<1>2. t \in Transitions /\ DrainWaits(t.machine)
  BY <1>1, ClosingWaits
<1>3. Accounts(m, P, t, {})
  BY ClosingAccounts
<1>4. Resolves(m, t)
  BY CloseResolves DEF Sound
<1>5. CASE m.phase = "Live"
  <2>1. /\ t.machine.phase = "Closing" /\ t.machine.closeReason = reason
        /\ t.schedule = {} /\ t.publish = ClosureOutcomes(m.pending, blamed)
        /\ t.machine.nextOperation = m.nextOperation
    BY <1>1, <1>5 DEF CloseInto, Transitions, Machine
  <2>2. \A x \in t.publish : x.reply <= ReplyBytes
    BY <2>1, ReplyZero DEF ClosureOutcomes
  <2> HIDE DEF t
  <2>3. Handles(m, P, t, {})
    BY <1>2, <1>3, <1>4, <2>1, <2>2, HandlesFrom
  <2> QED
    BY <1>5, <2>1, <2>3 DEF Course, t
<1>6. CASE m.phase # "Live"
  <2>1. t = Transition(m)
    BY <1>1, <1>6 DEF CloseInto
  <2> HIDE DEF t
  <2>2. Handles(m, P, t, {})
    BY <1>1, <1>2, <1>3, <1>4, <2>1, HandlesFrom
  <2> QED
    BY <1>1, <1>6, <2>1, <2>2 DEF Course, t
<1> QED
  BY <1>5, <1>6

LEMMA GateHandles ==
  ASSUME NEW m \in Machine, Sound(m), DrainWaits(m), NEW P, Books(m, P)
  PROVE  /\ Handles(m, P, OnOpenAdmission(m), {})
         /\ Course(m, OnOpenAdmission(m).machine, {}, {"Open"})
         /\ OnOpenAdmission(m).machine # m =>
              /\ m.phase = "Live" /\ m.gate = "SessionOnly"
              /\ OnOpenAdmission(m).machine = [m EXCEPT !.gate = "Open"]
         /\ Handles(m, P, OnBeginDrain(m), {})
         /\ Course(m, OnBeginDrain(m).machine, {}, {"Draining"})
         /\ OnBeginDrain(m).machine # m => m.phase = "Live" /\ m.gate \notin {"Closed", "Draining"}
         /\ Handles(m, P, OnEpochClosed(m), {})
<1>1. Resolves(m, OnOpenAdmission(m)) /\ Resolves(m, OnBeginDrain(m)) /\ Resolves(m, OnEpochClosed(m))
  BY GateResolves
<1>2. /\ Accounts(m, P, OnOpenAdmission(m), {}) /\ Accounts(m, P, OnBeginDrain(m), {})
      /\ Accounts(m, P, OnEpochClosed(m), {})
  BY GateAccounts
<1>3. Transition(m).machine = m /\ Transition(m).schedule = {} /\ Transition(m).publish = {}
  BY DEF Transition
<1>4. /\ Handles(m, P, OnOpenAdmission(m), {})
      /\ Course(m, OnOpenAdmission(m).machine, {}, {"Open"})
      /\ OnOpenAdmission(m).machine # m =>
           /\ m.phase = "Live" /\ m.gate = "SessionOnly"
           /\ OnOpenAdmission(m).machine = [m EXCEPT !.gate = "Open"]
  <2> DEFINE t == OnOpenAdmission(m)
  <2>1. t \in Transitions /\ DrainWaits(t.machine)
    BY OnOpenAdmissionType
  <2>2. /\ t.schedule = {} /\ t.publish = {} /\ t.machine.nextOperation = m.nextOperation
        /\ Course(m, t.machine, {}, {"Open"})
        /\ t.machine # m => /\ m.phase = "Live" /\ m.gate = "SessionOnly"
                            /\ t.machine = [m EXCEPT !.gate = "Open"]
    BY DEF OnOpenAdmission, Transition, Course, Machine
  <2> HIDE DEF t
  <2>3. Handles(m, P, t, {})
    BY <1>1, <1>2, <2>1, <2>2, HandlesFrom DEF t
  <2> QED
    BY <2>2, <2>3 DEF t
<1>5. /\ Handles(m, P, OnBeginDrain(m), {})
      /\ Course(m, OnBeginDrain(m).machine, {}, {"Draining"})
      /\ OnBeginDrain(m).machine # m => m.phase = "Live" /\ m.gate \notin {"Closed", "Draining"}
  <2> DEFINE t == OnBeginDrain(m)
             d == [m EXCEPT !.gate = "Draining"]
             u == Transition(d)
  <2>1. t \in Transitions /\ DrainWaits(t.machine)
    BY OnBeginDrainType
  <2>2. /\ d \in Machine /\ d.phase = m.phase /\ d.closeReason = m.closeReason
        /\ d.gate = "Draining" /\ d.nextOperation = m.nextOperation
    BY DEF Machine, Gates
  <2> HIDE DEF d
  <2>3. u \in Transitions /\ u.machine = d /\ u.schedule = {} /\ u.publish = {}
    BY <2>2, TransitionType DEF Transition
  <2> HIDE DEF u
  <2>4. CASE m.phase # "Live" \/ m.gate \in {"Closed", "Draining"}
    <3>1. t = Transition(m)
      BY <2>4 DEF OnBeginDrain
    <3>2. t.machine = m /\ t.schedule = {} /\ t.publish = {} /\ Course(m, t.machine, {}, {"Draining"})
      BY <1>3, <3>1 DEF Course
    <3> HIDE DEF t
    <3>3. Handles(m, P, t, {})
      BY <1>1, <1>2, <2>1, <3>2, HandlesFrom DEF t
    <3> QED
      BY <3>2, <3>3 DEF t
  <2>5. CASE ~(m.phase # "Live" \/ m.gate \in {"Closed", "Draining"})
    <3>1. t = FinishDrain(u)
      BY <2>5 DEF OnBeginDrain, u, d
    <3>2. /\ Course(m, t.machine, {}, {"Draining"}) /\ t.schedule = {} /\ t.publish = {}
      BY <2>2, <2>3, <2>5, <3>1, FinishCourse
    <3>3. t.machine.nextOperation = m.nextOperation
      BY GateSpares DEF Spares
    <3> HIDE DEF t
    <3>4. Handles(m, P, t, {})
      BY <1>1, <1>2, <2>1, <3>2, <3>3, HandlesFrom DEF t
    <3> QED
      BY <2>5, <3>2, <3>4 DEF t
  <2> QED
    BY <2>4, <2>5
<1>6. Handles(m, P, OnEpochClosed(m), {})
  <2> DEFINE t == OnEpochClosed(m)
  <2>1. t \in Transitions /\ DrainWaits(t.machine)
    BY OnEpochClosedType
  <2>2. /\ t.schedule = {} /\ t.publish = {} /\ t.machine.nextOperation = m.nextOperation
    BY DEF OnEpochClosed, Transition, Machine
  <2> HIDE DEF t
  <2> QED
    BY <1>1, <1>2, <2>1, <2>2, HandlesFrom DEF t
<1> QED
  BY <1>4, <1>5, <1>6

LEMMA RemoveNotSentCourse ==
  ASSUME NEW m \in Machine, NEW operation, NEW kind \in OutcomeKinds, Holds(m.pending, operation),
         NEW t, t = RemoveNotSent(m, operation, kind)
  PROVE  /\ Course(m, t.machine, {}, {}) /\ t.schedule = {}
         /\ \A x \in t.publish : x.reply <= ReplyBytes
<1> DEFINE record == RecordOf(m, operation)
           left == RemoveRecord(m, operation)
           outcome == Outcome(operation, kind, "NotSent", 0)
           u == [Transition(left) EXCEPT !.discard = <<record>>, !.cancel = {operation},
                                         !.publish = {outcome}]
<1>1. left \in Machine /\ record \in OperationRecord /\ operation \in Operations
  BY RemoveRecordType, RecordOfType
<1>2. outcome \in Outcomes /\ outcome.reply <= ReplyBytes
  BY <1>1, OutcomeType, ReplyZero DEF Deliveries
<1>3. t = FinishDrain(u)
  BY DEF RemoveNotSent
<1>4. left.phase = m.phase /\ left.closeReason = m.closeReason /\ left.gate = m.gate
  BY DEF RemoveRecord, Machine
<1> HIDE DEF record, left, outcome
<1>5. u \in Transitions /\ u.machine = left /\ u.schedule = {} /\ u.publish = {outcome}
  <2>1. /\ <<record>> \in Seq(OperationRecord) /\ {operation} \in SUBSET Operations
        /\ {outcome} \in SUBSET Outcomes
    BY <1>1, <1>2
  <2> QED
    BY <1>1, <2>1 DEF Transition, Transitions
<1> HIDE DEF u
<1> QED
  BY <1>2, <1>3, <1>4, <1>5, FinishCourse

LEMMA QuietCourse ==
  ASSUME NEW m, NEW reasons, NEW gates
  PROVE  /\ Course(m, Transition(m).machine, reasons, gates) /\ Transition(m).schedule = {}
         /\ Transition(m).publish = {}
  BY DEF Course, Transition

LEMMA OnCancelHandles ==
  ASSUME NEW m \in Machine, Sound(m), DrainWaits(m), NEW P, Books(m, P), NEW operation,
         NEW t, t = OnCancel(m, operation)
  PROVE  Handles(m, P, t, {}) /\ Course(m, t.machine, {}, {})
<1> DEFINE record == RecordOf(m, operation)
           tomb == [record EXCEPT !.phase = "Terminal"]
           marked == SetRecord(m, operation, tomb)
           outcome == Outcome(operation, "Cancelled", "PossiblySent", 0)
           u == [Transition(marked) EXCEPT !.publish = {outcome}]
<1>1. /\ t \in Transitions /\ DrainWaits(t.machine) /\ Accounts(m, P, t, {}) /\ Resolves(m, t)
      /\ t.machine.nextOperation = m.nextOperation
  BY OnCancelType, OnCancelAccounts, OnCancelResolves, OnCancelSpares DEF Spares
<1>2. /\ Course(m, t.machine, {}, {}) /\ t.schedule = {}
      /\ \A x \in t.publish : x.reply <= ReplyBytes
  <2>1. CASE ~Holds(m.pending, operation) \/ record.phase = "Terminal"
    BY <2>1, QuietCourse DEF OnCancel
  <2>2. CASE Holds(m.pending, operation) /\ record.phase # "Terminal" /\ record.delivery = "NotSent"
    <3>1. t = RemoveNotSent(m, operation, "Cancelled") /\ "Cancelled" \in OutcomeKinds
      BY <2>2 DEF OnCancel, OutcomeKinds
    <3> QED
      BY <2>2, <3>1, RemoveNotSentCourse
  <2>3. CASE Holds(m.pending, operation) /\ record.phase # "Terminal" /\ record.delivery # "NotSent"
    <3>1. t = u
      BY <2>3 DEF OnCancel
    <3>2. outcome.reply <= ReplyBytes
      BY ReplyZero
    <3>3. /\ marked.phase = m.phase /\ marked.gate = m.gate /\ marked.closeReason = m.closeReason
      BY DEF SetRecord, Machine
    <3> HIDE DEF marked, outcome
    <3>4. u.machine = marked /\ u.schedule = {} /\ u.publish = {outcome}
      BY DEF Transition
    <3> QED
      BY <3>1, <3>2, <3>3, <3>4 DEF Course
  <2> QED
    BY <2>1, <2>2, <2>3
<1> QED
  BY <1>1, <1>2, HandlesFrom

LEMMA OnDeadlineElapsedHandles ==
  ASSUME NEW m \in Machine, Sound(m), DrainWaits(m), NEW P, Books(m, P), NEW operation, NEW at,
         NEW t, t = OnDeadlineElapsed(m, operation, at),
         NEW reasons, \A i \in DOMAIN m.pending :
                        m.pending[i].delivery = "PossiblySent" => "DeadlineAfterPossibleSend" \in reasons
  PROVE  Handles(m, P, t, {operation}) /\ Course(m, t.machine, reasons, {})
<1> DEFINE record == RecordOf(m, operation)
           early == ~IsElapsedAt(record.deadline, at)
           u == [Transition(m) EXCEPT !.schedule = {<<operation, record.deadline>>}]
<1>1. /\ t \in Transitions /\ DrainWaits(t.machine) /\ Accounts(m, P, t, {operation}) /\ Resolves(m, t)
      /\ t.machine.nextOperation = m.nextOperation
  BY OnDeadlineElapsedType, OnDeadlineElapsedAccounts, OnDeadlineElapsedResolves,
     OnDeadlineElapsedSpares DEF Spares
<1>2. /\ Course(m, t.machine, reasons, {}) /\ (t.schedule = {} \/ \E x : t.schedule = {x})
      /\ \A x \in t.publish : x.reply <= ReplyBytes
  <2>1. CASE ~Holds(m.pending, operation)
    BY <2>1, QuietCourse DEF OnDeadlineElapsed
  <2>2. CASE Holds(m.pending, operation) /\ early
    <3>1. t = u
      BY <2>2 DEF OnDeadlineElapsed
    <3>2. u.machine = m /\ u.publish = {} /\ u.schedule = {<<operation, record.deadline>>}
      BY DEF Transition
    <3> HIDE DEF u
    <3> QED
      BY <3>1, <3>2 DEF Course
  <2>3. CASE Holds(m.pending, operation) /\ ~early /\ record.delivery = "PossiblySent"
    <3>1. t = CloseInto(Transition(m), "DeadlineAfterPossibleSend", {})
      BY <2>3 DEF OnDeadlineElapsed
    <3>2. "DeadlineAfterPossibleSend" \in reasons
      BY <2>3, HeldRecord
    <3>3. "DeadlineAfterPossibleSend" \in CloseReasons
      BY DEF CloseReasons
    <3>4. Handles(m, P, t, {}) /\ Course(m, t.machine, {"DeadlineAfterPossibleSend"}, {})
      BY <3>1, <3>3, CloseHandles
    <3> QED
      BY <3>2, <3>4 DEF Course, Handles
  <2>4. CASE Holds(m.pending, operation) /\ ~early /\ record.delivery # "PossiblySent"
    <3>1. t = RemoveNotSent(m, operation, "DeadlineElapsed") /\ "DeadlineElapsed" \in OutcomeKinds
      BY <2>4 DEF OnDeadlineElapsed, OutcomeKinds
    <3>2. /\ Course(m, t.machine, {}, {}) /\ t.schedule = {}
          /\ \A x \in t.publish : x.reply <= ReplyBytes
      BY <2>4, <3>1, RemoveNotSentCourse
    <3> QED
      BY <3>2 DEF Course
  <2> QED
    BY <2>1, <2>2, <2>3, <2>4
<1> QED
  BY <1>1, <1>2, HandlesFrom

LEMMA OnReplyHandles ==
  ASSUME NEW m \in Machine, Sound(m), DrainWaits(m), NEW P, Books(m, P), NEW key,
         NEW reply \in Nat, reply <= ReplyBytes, NEW t, t = OnReply(m, key, reply)
  PROVE  Handles(m, P, t, {}) /\ Course(m, t.machine, {"UnexpectedReply", "MatchKeyMismatch"}, {})
<1> DEFINE front == m.pending[1]
           r == [m EXCEPT !.pending = Tail(m.pending),
                          !.ledger = ReleaseAll(m.ledger, front.reservation, FALSE, FALSE)]
           told == IF front.phase = "Terminal" THEN {}
                   ELSE {Outcome(front.operation, "Reply", front.delivery, reply)}
           u == [Transition(r) EXCEPT !.cancel = {front.operation}, !.publish = told]
           reasons == {"UnexpectedReply", "MatchKeyMismatch"}
<1>1. /\ t \in Transitions /\ DrainWaits(t.machine) /\ Accounts(m, P, t, {}) /\ Resolves(m, t)
      /\ t.machine.nextOperation = m.nextOperation
  BY OnReplyType, OnReplyAccounts, OnReplyResolves, OnReplySpares DEF Spares
<1>2. "UnexpectedReply" \in CloseReasons /\ "MatchKeyMismatch" \in CloseReasons
  BY DEF CloseReasons
<1>3. /\ Course(m, t.machine, reasons, {}) /\ (t.schedule = {} \/ \E x : t.schedule = {x})
      /\ \A x \in t.publish : x.reply <= ReplyBytes
  <2>2. CASE m.phase # "Live"
    BY <2>2, QuietCourse DEF OnReply
  <2>3. CASE m.phase = "Live" /\ ~FrontAwaitsReply(m)
    <3>1. t = CloseInto(Transition(m), "UnexpectedReply", {})
      BY <2>3 DEF OnReply
    <3>2. Handles(m, P, t, {}) /\ Course(m, t.machine, {"UnexpectedReply"}, {})
      BY SMTT(30), <1>2, <3>1, CloseHandles
    <3> QED
      BY <3>2 DEF Course, Handles
  <2>4. CASE m.phase = "Live" /\ FrontAwaitsReply(m) /\ key # front.reservation.key
    <3>1. t = CloseInto(Transition(m), "MatchKeyMismatch", {front.operation})
      BY <2>4 DEF OnReply
    <3>2. Handles(m, P, t, {}) /\ Course(m, t.machine, {"MatchKeyMismatch"}, {})
      BY <1>2, <3>1, CloseHandles
    <3> QED
      BY <3>2 DEF Course, Handles
  <2>5. CASE m.phase = "Live" /\ FrontAwaitsReply(m) /\ key = front.reservation.key
    <3>1. m.pending # <<>> /\ m.pending \in Seq(OperationRecord) /\ m.ledger \in Ledger
      BY <2>5, MachineFields DEF FrontAwaitsReply
    <3>2. front \in OperationRecord /\ Tail(m.pending) \in Seq(OperationRecord)
      BY <3>1
    <3>3. ReleaseAll(m.ledger, front.reservation, FALSE, FALSE) \in Ledger
      <4> HIDE DEF front
      <4> QED BY <3>1, <3>2, RecordFields, ReleaseAllType
    <3>4. r \in Machine
      BY <3>2, <3>3, MachineUpdate
    <3>5. r.phase = m.phase /\ r.gate = m.gate /\ r.closeReason = m.closeReason
      BY DEF Machine
    <3>6. told \in SUBSET Outcomes /\ {front.operation} \in SUBSET Operations
          /\ \A x \in told : x.reply <= ReplyBytes
      <4>1. Outcome(front.operation, "Reply", front.delivery, reply) \in Outcomes
            /\ Outcome(front.operation, "Reply", front.delivery, reply).reply = reply
            /\ front.operation \in Operations
        <5> HIDE DEF front
        <5> QED BY <3>2, RecordFields, OutcomeType, ReplyZero DEF OutcomeKinds
      <4> QED
        BY <4>1
    <3>7. t = FinishDrain(u)
      BY <2>5 DEF OnReply, Machine
    <3> HIDE DEF r, told, front
    <3>8. u \in Transitions /\ u.machine = r /\ u.publish = told /\ u.schedule = {}
      <4>1. Transition(r) \in Transitions /\ Transition(r).machine = r /\ Transition(r).schedule = {}
        BY <3>4, TransitionType DEF Transition
      <4> QED
        BY <3>6, <4>1 DEF Transitions
    <3> HIDE DEF u
    <3>9. /\ Course(m, t.machine, {}, {}) /\ t.schedule = {} /\ t.publish = told
      BY <3>5, <3>7, <3>8, FinishCourse
    <3> QED
      BY <3>6, <3>9 DEF Course
  <2> QED
    BY <2>2, <2>3, <2>4, <2>5
<1> QED
  BY <1>1, <1>3, HandlesFrom

LEMMA OnWriteCompletedCourse ==
  ASSUME NEW m \in Machine, NEW operation, Holds(m.pending, operation),
         NEW t, t = OnWriteCompleted(m, operation)
  PROVE  Course(m, t.machine, {}, {}) /\ t.schedule = {}
<1> DEFINE record == RecordOf(m, operation)
           l == ReleaseWrite(m.ledger, record.reservation.writeRetained)
           released == [m EXCEPT !.ledger = l]
           waiting == [record EXCEPT !.phase = IF @ = "Terminal" THEN @ ELSE "AwaitingReply",
                                     !.writeHeld = FALSE]
           i == IndexOf(m.pending, operation)
           r == [released EXCEPT !.pending = RemoveAt(m.pending, i),
                                 !.ledger = ReleaseAll(l, record.reservation, FALSE, FALSE)]
           told == IF record.phase = "Terminal" THEN {}
                   ELSE {Outcome(operation, "WriteComplete", record.delivery, 0)}
           u == [Transition(r) EXCEPT !.cancel = {operation}, !.publish = told]
<1>1. record \in OperationRecord /\ operation \in Operations /\ i \in DOMAIN m.pending
  BY RecordOfType, HeldRecord
<1>2. l \in Ledger
  <2> HIDE DEF record
  <2> QED BY <1>1, MachineFields, RecordFields, ReleaseWriteType
<1>3. /\ released \in Machine /\ released.pending = m.pending /\ released.ledger = l
      /\ released.phase = m.phase /\ released.gate = m.gate /\ released.closeReason = m.closeReason
      /\ released = [m EXCEPT !.ledger = ReleaseWrite(@, record.reservation.writeRetained)]
  <2>1. released = [m EXCEPT !.ledger = ReleaseWrite(@, record.reservation.writeRetained)]
    BY DEF Machine
  <2> HIDE DEF l
  <2> QED BY <1>2, <2>1 DEF Machine
<1>4. CASE record.completion = "ReplyExpected"
  <2> DEFINE w == SetRecord(released, operation, waiting)
  <2>1. t = Transition(w)
    <3> HIDE DEF released, waiting, record
    <3> QED BY <1>3, <1>4 DEF OnWriteCompleted, waiting, record
  <2> HIDE DEF released, waiting
  <2>2. w.phase = m.phase /\ w.gate = m.gate /\ w.closeReason = m.closeReason
    BY <1>3 DEF SetRecord, Machine
  <2> HIDE DEF w
  <2>3. t.machine = w /\ t.schedule = {}
    BY <2>1 DEF Transition
  <2> QED
    BY <2>2, <2>3 DEF Course
<1>5. CASE record.completion # "ReplyExpected"
  <2>1. RemoveAt(m.pending, i) \in Seq(OperationRecord)
    BY <1>1, MachineFields, RemoveAtType
  <2>2. ReleaseAll(l, record.reservation, FALSE, FALSE) \in Ledger
    <3> HIDE DEF l, record
    <3> QED BY <1>1, <1>2, RecordFields, ReleaseAllType
  <2>3. r \in Machine /\ r.phase = m.phase /\ r.gate = m.gate /\ r.closeReason = m.closeReason
    <3> HIDE DEF l, record, released, i
    <3>1. r \in Machine
      BY <1>3, <2>1, <2>2, MachineUpdate
    <3> QED
      BY <1>3, <3>1 DEF Machine
  <2>4. told \in SUBSET Outcomes /\ {operation} \in SUBSET Operations
    <3> HIDE DEF record
    <3> QED BY <1>1, RecordFields, OutcomeType, SlotAssumption DEF OutcomeKinds
  <2>5. t = FinishDrain(u)
    <3>1. r = [released EXCEPT
                 !.pending = RemoveAt(@, IndexOf(@, operation)),
                 !.ledger = ReleaseAll(@, record.reservation, FALSE, FALSE)]
      BY <1>3 DEF Machine
    <3> HIDE DEF released, r, record
    <3> QED
      BY <1>3, <1>5, <3>1 DEF OnWriteCompleted, record
  <2> HIDE DEF r, told
  <2>6. u \in Transitions /\ u.machine = r /\ u.schedule = {}
    <3>1. /\ Transition(r) \in Transitions /\ Transition(r).machine = r
          /\ Transition(r).schedule = {}
      BY <2>3, TransitionType DEF Transition
    <3> QED
      BY <2>4, <3>1 DEF Transitions
  <2> HIDE DEF u
  <2> QED
    BY <2>3, <2>5, <2>6, FinishCourse
<1> QED
  BY <1>4, <1>5

LEMMA OnWriteCompletedHandles ==
  ASSUME NEW m \in Machine, Sound(m), NEW P, Books(m, P), NEW operation,
         Holds(m.pending, operation), RecordOf(m, operation).writeHeld,
         NEW t, t = OnWriteCompleted(m, operation)
  PROVE  /\ Handles(m, P, t, {}) /\ Course(m, t.machine, {}, {})
         /\ operation \notin HeldOperations(t.machine)
<1> DEFINE s == m.pending
           i == IndexOf(m.pending, operation)
           q == t.machine.pending
<1>1. /\ t \in Transitions /\ DrainWaits(t.machine) /\ Accounts(m, P, t, {})
      /\ Course(m, t.machine, {}, {}) /\ t.schedule = {} /\ t.machine \in Machine
  BY OnWriteCompletedType, OnWriteCompletedAccounts, OnWriteCompletedCourse, TransitionFields
<1>2. /\ (\E r : Waits(m, t, i, r)) \/ Ended(m, t, i)
      /\ t.machine.nextOperation = m.nextOperation
  BY OnWriteCompletedLeaves DEF Spares
<1>3. /\ i \in DOMAIN s /\ s[i] = RecordOf(m, operation) /\ s[i].operation = operation
      /\ s[i] \in OperationRecord /\ s \in Seq(OperationRecord) /\ Distinct(s)
      /\ \A j \in DOMAIN s : RecordSound(s[j])
  BY HeldRecord DEF Sound
<1> HIDE DEF i
<1>4. ASSUME NEW r, Waits(m, t, i, r)
      PROVE  /\ Concludes(s, t.publish, q) /\ Sound(t.machine) /\ Narrows(m, t.machine)
             /\ operation \notin HeldOperations(t.machine) /\ t.publish = {}
  <2>1. /\ r \in OperationRecord /\ r.operation = s[i].operation /\ r.delivery = s[i].delivery
        /\ ~r.writeHeld /\ (r.phase = "Terminal" <=> s[i].phase = "Terminal")
        /\ q = [s EXCEPT ![i] = r] /\ t.publish = {} /\ r.effect = s[i].effect
        /\ r.reservation = s[i].reservation /\ r.deadline = s[i].deadline
        /\ r.phase \in {"Terminal", "AwaitingReply"}
    BY <1>4 DEF Waits
  <2> HIDE DEF s, q
  <2>2. /\ Distinct(q) /\ DOMAIN q = DOMAIN s
    BY <1>3, <2>1, MarkedRecord
  <2>3. /\ \A j \in DOMAIN s : q[j] = IF j = i THEN r ELSE s[j]
    BY <1>3, <2>1
  <2>4. Live(q) = Live(s)
    BY <1>3, <2>1, LiveMarked
  <2>5. Concludes(s, t.publish, q)
    BY <2>1, <2>4 DEF Concludes
  <2>6. RecordSound(r)
    BY <1>3, <2>1 DEF RecordSound
  <2>7. Sound(t.machine)
    BY <1>3, <2>2, <2>3, <2>6 DEF Sound, q
  <2>8. Narrows(m, t.machine)
    BY <1>1, <1>3, <2>1, <2>2, <2>3, NarrowsSame DEF s, q
  <2>9. ASSUME NEW j \in DOMAIN q, q[j].writeHeld PROVE q[j].operation # operation
    <3>1. j \in DOMAIN s /\ j # i /\ q[j] = s[j]
      BY <2>1, <2>2, <2>3, <2>9
    <3> QED
      BY <1>3, <3>1 DEF Distinct
  <2>10. operation \notin HeldOperations(t.machine)
    BY <2>9 DEF HeldOperations, HeldPositions, q
  <2> QED
    BY <2>1, <2>5, <2>7, <2>8, <2>10
<1>5. ASSUME Ended(m, t, i)
      PROVE  /\ Concludes(s, t.publish, q) /\ Sound(t.machine) /\ Narrows(m, t.machine)
             /\ operation \notin HeldOperations(t.machine)
             /\ \A x \in t.publish : x.reply <= ReplyBytes
  <2> DEFINE x == Outcome(s[i].operation, "WriteComplete", s[i].delivery, 0)
  <2>1. q = RemoveAt(s, i) /\ t.publish = IF s[i].phase = "Terminal" THEN {} ELSE {x}
    BY <1>5 DEF Ended
  <2>2. x.operation = s[i].operation /\ x.reply <= ReplyBytes
    BY ReplyZero DEF Outcome
  <2> HIDE DEF x, s, q
  <2>3. /\ Live(q) = Live(s) \ {s[i].operation}
        /\ s[i].phase = "Terminal" => s[i].operation \notin Live(s)
    BY <1>3, <2>1, LiveRemoved
  <2>4. s[i].phase # "Terminal" => s[i].operation \in Live(s)
    BY <1>3 DEF Live
  <2>5. Concludes(s, t.publish, q)
    <3>1. CASE s[i].phase = "Terminal"
      BY <2>1, <2>3, <3>1 DEF Concludes
    <3>2. CASE s[i].phase # "Terminal"
      <4>1. {y.operation : y \in {x}} = {s[i].operation}
        BY <2>2
      <4> QED
        BY <2>1, <2>2, <2>3, <2>4, <3>2, <4>1 DEF Concludes
    <3> QED
      BY <3>1, <3>2
  <2>6. /\ Distinct(q) /\ \A k \in DOMAIN q : \E j \in DOMAIN s : q[k] = s[j]
        /\ Timed(q) = {y \in Timed(s) : y[1] # s[i].operation}
    BY <1>3, <2>1, RemovedRecord
  <2>7. Sound(t.machine)
    BY <1>3, <2>6 DEF Sound, q
  <2>8. Narrows(m, t.machine)
    BY <1>1, <1>3, <2>1, NarrowsRemoved DEF s, q
  <2>9. \A k \in DOMAIN q : q[k].operation # operation
    <3>1. ASSUME NEW k \in DOMAIN q PROVE q[k].operation # s[i].operation
      <4>1. TimerOf(q[k]) \in Timed(q) /\ TimerOf(q[k])[1] = q[k].operation
        BY DEF Timed, TimerOf
      <4> QED
        BY <2>6, <4>1
    <3> QED
      BY <1>3, <3>1
  <2>10. operation \notin HeldOperations(t.machine)
    BY <2>9 DEF HeldOperations, HeldPositions, q
  <2> QED
    BY <2>1, <2>2, <2>5, <2>7, <2>8, <2>10
<1>6. /\ Concludes(s, t.publish, q) /\ Sound(t.machine) /\ Narrows(m, t.machine)
      /\ operation \notin HeldOperations(t.machine)
      /\ \A x \in t.publish : x.reply <= ReplyBytes
  BY <1>2, <1>4, <1>5
<1> QED
  BY <1>1, <1>2, <1>6 DEF Handles

(***************************************************************************)
(* Interpreting a transition.                                              *)
(***************************************************************************)

\* The slot w that Interpret(s, t) leaves before it may announce a close: every
\* outcome of the transition, q, was told.
Ran(s, t, w, q) ==
  /\ w \in Slots /\ w.machine = t.machine /\ DOMAIN w.wire = HeldOperations(t.machine)
  /\ w.written = WrittenAfter(s, t.machine) /\ w.timers = Timed(t.machine.pending)
  /\ PublishedTo(q, s.machine.pending, t.publish, Len(s.machine.pending))
  /\ w.outcomes = s.outcomes \o q
  /\ Carries(s, w) /\ Stays(s, w)
  /\ Interpret(s, t) = IF s.machine.phase = "Live" /\ t.machine.phase = "Closing"
                       THEN FinishClose(w, t.machine.closeReason) ELSE w

LEMMA InterpretRuns ==
  ASSUME NEW s \in Slots, NEW t \in Transitions, NEW P, Books(t.machine, P),
         HeldOperations(t.machine) \subseteq DOMAIN s.wire, Distinct(s.machine.pending),
         CancelDeadline(s.timers, t.cancel) \cup t.schedule = Timed(t.machine.pending),
         t.schedule = {} \/ \E x : t.schedule = {x},
         \A x, y \in t.publish : x.operation = y.operation => x = y,
         \A x \in t.publish : x.operation \in Live(s.machine.pending) /\ x.reply <= ReplyBytes,
         \A i \in DOMAIN s.outcomes : s.outcomes[i].reply <= ReplyBytes,
         Len(s.outcomes) + Cardinality(Live(s.machine.pending)) <= MaxOperations
  PROVE  \E w, q : Ran(s, t, w, q)
<1> DEFINE r == t.machine
           wire == [operation \in HeldOperations(r) |-> s.wire[operation]]
           written == WrittenAfter(s, r)
           timers == CancelDeadline(s.timers, t.cancel)
           moved == [s EXCEPT !.machine = r, !.wire = wire, !.written = written, !.timers = timers]
           all == Timed(r.pending)
           timed == [moved EXCEPT !.timers = all]
           pending == s.machine.pending
<1>1. /\ r \in Machine /\ s.machine \in Machine /\ pending \in Seq(OperationRecord)
      /\ s.written \in Nat /\ s.outcomes \in Seq(Outcomes)
      /\ s.timers \subseteq Operations \X Moments /\ s.wire \in Wires
  BY SlotFields, MachineFields, TransitionFields
<1>2. wire \in Wires /\ DOMAIN wire = HeldOperations(r)
  <2>1. PICK operations \in SUBSET Operations : s.wire \in [operations -> WireLengths]
    BY <1>1 DEF Wires
  <2>2. HeldOperations(r) \in SUBSET Operations
    BY <1>1, HeldAre
  <2>3. wire \in [HeldOperations(r) -> WireLengths]
    BY <2>1
  <2> HIDE DEF wire
  <2> QED
    BY <2>2, <2>3 DEF Wires
<1>3. written \in Nat
  BY <1>1 DEF WrittenAfter
<1>4. timers \subseteq Operations \X Moments
  BY <1>1 DEF CancelDeadline
<1>5. all \in SUBSET (Operations \X Moments)
  <2>1. r.pending \in Seq(OperationRecord) /\ Distinct(r.pending)
    BY <1>1, MachineFields DEF Books, Identified
  <2> QED
    BY <2>1, TimedCounted
<1> HIDE DEF r, wire, written, timers, all, pending
<1>6. moved \in Slots /\ timed \in Slots
  BY <1>1, <1>2, <1>3, <1>4, <1>5 DEF Slots
<1>7. moved.timers = timers
  BY DEF Slots
<1>8. ScheduleAll(moved, t.schedule) = timed
  <2> HIDE DEF moved
  <2> QED
    BY <1>1, <1>6, <1>7, ScheduleAllExact DEF r, timers, all
<1>9. /\ timed.machine = r /\ timed.wire = wire /\ timed.written = written /\ timed.timers = all
      /\ timed.outcomes = s.outcomes /\ Carries(s, timed) /\ Stays(s, timed)
  BY DEF Slots, Carries, Stays
<1>10. Interpret(s, t)
         = LET published == PublishAll(timed, pending, t.publish)
           IN  IF s.machine.phase = "Live" /\ r.phase = "Closing"
               THEN FinishClose(published, r.closeReason) ELSE published
  <2>1. moved = [s EXCEPT !.machine = t.machine,
                          !.wire = [operation \in HeldOperations(t.machine) |-> s.wire[operation]],
                          !.written = WrittenAfter(s, t.machine),
                          !.timers = CancelDeadline(@, t.cancel)]
    BY DEF r, wire, written, timers, Slots
  <2> HIDE DEF moved, timed
  <2> QED
    BY <1>8, <2>1 DEF Interpret, r, pending
<1> HIDE DEF timed
<1>11. t.publish \in SUBSET Outcomes
  BY TransitionFields
<1>a. PICK q : PublishesAs(timed, pending, t.publish, q)
  <2>1. /\ Distinct(pending)
        /\ \A x \in t.publish : x.operation \in Live(pending) /\ x.reply <= ReplyBytes
        /\ \A i \in DOMAIN timed.outcomes : timed.outcomes[i].reply <= ReplyBytes
        /\ Len(timed.outcomes) + Cardinality(Live(pending)) <= MaxOperations
    BY <1>9 DEF pending
  <2> QED
    BY <1>1, <1>6, <1>11, <2>1, PublishAllTells
<1>12. /\ PublishedTo(q, pending, t.publish, Len(pending))
       /\ PublishAll(timed, pending, t.publish) = [timed EXCEPT !.outcomes = s.outcomes \o q]
  BY <1>9, <1>a DEF PublishesAs
<1> DEFINE w == [timed EXCEPT !.outcomes = s.outcomes \o q]
<1>13. w \in Slots
  <2>1. q \in Seq(Outcomes)
    BY <1>12 DEF PublishedTo
  <2>2. s.outcomes \o q \in Seq(Outcomes)
    BY <1>1, <2>1
  <2> QED
    BY <1>6, <2>2 DEF Slots
<1>14. /\ w.machine = r /\ w.wire = wire /\ w.written = written /\ w.timers = all
       /\ w.outcomes = s.outcomes \o q /\ Carries(timed, w) /\ Stays(timed, w)
  <2> DEFINE more == s.outcomes \o q
  <2>1. w = [timed EXCEPT !.outcomes = more]
    OBVIOUS
  <2> HIDE DEF w, more
  <2>2. /\ w.machine = timed.machine /\ w.wire = timed.wire /\ w.written = timed.written
        /\ w.timers = timed.timers /\ w.outcomes = more
    BY <1>6, <2>1 DEF Slots
  <2>3. Carries(timed, w)
    BY <1>6, <2>1 DEF Slots, Carries
  <2>4. Stays(timed, w)
    BY <1>6, <2>1 DEF Slots, Stays
  <2> QED
    BY <1>9, <2>2, <2>3, <2>4 DEF more
<1>15. Carries(s, w) /\ Stays(s, w)
  BY <1>9, <1>14 DEF Carries, Stays
<1> HIDE DEF w
<1>16. Ran(s, t, w, q)
  BY <1>2, <1>10, <1>12, <1>13, <1>14, <1>15 DEF Ran, r, pending, written, all, w
<1> QED
  BY <1>16

\* What is told of is what the transition concludes.
LEMMA PublishedOperations ==
  ASSUME NEW pending \in Seq(OperationRecord), NEW publish, NEW q,
         PublishedTo(q, pending, publish, Len(pending)),
         \A x \in publish : x.operation \in Live(pending)
  PROVE  TellsOf(q) = {x.operation : x \in publish} /\ TellsOf(q) \subseteq Live(pending)
<1>1. \A k \in DOMAIN q : q[k] \in publish
  BY DEF PublishedTo
<1>2. ASSUME NEW x \in publish PROVE \E k \in DOMAIN q : q[k] = x
  <2>1. \E j \in 1..Len(pending) : x.operation = pending[j].operation
    BY DEF Live
  <2> QED
    BY <2>1 DEF PublishedTo
<1> QED
  BY <1>1, <1>2 DEF TellsOf

\* A handler keeps the records, the writer, the timers and the outcomes in step.
LEMMA InterpretKeeps ==
  ASSUME NEW s \in Slots, NEW P, Books(s.machine, P), Sound(s.machine), Roomy(s, P),
         DOMAIN s.wire = HeldOperations(s.machine), NEW t, NEW fired, Handles(s.machine, P, t, fired),
         s.timers = {x \in Timed(s.machine.pending) : x[1] \notin fired},
         Fronted(t.machine, WrittenAfter(s, t.machine))
  PROVE  \E w, q : /\ Ran(s, t, w, q) /\ Owned(w, P)
                   /\ TellsOf(q) \subseteq Live(s.machine.pending)
                   /\ Live(t.machine.pending) = Live(s.machine.pending) \ TellsOf(q)
<1> DEFINE m == s.machine
           r == t.machine
<1>1. /\ m \in Machine /\ m.pending \in Seq(OperationRecord) /\ Distinct(m.pending)
      /\ s.outcomes \in Seq(Outcomes)
  BY SlotFields, MachineFields DEF Sound
<1>2. /\ t \in Transitions /\ r \in Machine /\ Books(r, P) /\ DrainWaits(r) /\ Sound(r)
      /\ Narrows(m, r) /\ Concludes(m.pending, t.publish, r.pending)
      /\ Reschedules(m, t, fired)
      /\ t.schedule = {} \/ \E x : t.schedule = {x}
      /\ \A x \in t.publish : x.reply <= ReplyBytes
  BY TransitionFields DEF Handles, Accounts
<1>3. HeldOperations(r) \subseteq DOMAIN s.wire
  BY <1>2 DEF Narrows, HeldOperations, HeldPositions
<1>4. CancelDeadline(s.timers, t.cancel) \cup t.schedule = Timed(r.pending)
  <2>1. CancelDeadline(s.timers, t.cancel) = {x \in Timed(m.pending) : x[1] \notin t.cancel \cup fired}
    BY DEF CancelDeadline
  <2> QED
    BY <1>2, <2>1 DEF Reschedules
<1>5. /\ Cardinality(P) \in Nat /\ Cardinality(Live(m.pending)) \in Nat /\ IsFiniteSet(Live(m.pending))
      /\ MaxOperations \in Nat /\ Len(s.outcomes) \in Nat
  <2>1. Cardinality(P) \in Nat
    BY PermitsCounted DEF Books
  <2>2. IsFiniteSet(Live(m.pending)) /\ Cardinality(Live(m.pending)) \in Nat
    BY <1>1, LiveCounted
  <2>3. MaxOperations \in Nat /\ Len(s.outcomes) \in Nat
    BY <1>1, LimitsAssumption
  <2> QED
    BY <2>1, <2>2, <2>3
<1>6. /\ Len(s.outcomes) + Cardinality(Live(m.pending)) <= MaxOperations
      /\ Len(s.outcomes) + Cardinality(Live(m.pending)) + Cardinality(P) <= MaxOperations
      /\ \A i \in DOMAIN s.outcomes : s.outcomes[i].reply <= ReplyBytes
      /\ s.recoveryOutcomes = <<>>
  BY <1>5 DEF Roomy
<1>7. PICK w, q : Ran(s, t, w, q)
  BY <1>1, <1>2, <1>3, <1>4, <1>6, InterpretRuns DEF Concludes
<1>8. /\ w \in Slots /\ w.machine = r /\ DOMAIN w.wire = HeldOperations(r)
      /\ w.written = WrittenAfter(s, r) /\ w.timers = Timed(r.pending)
      /\ PublishedTo(q, m.pending, t.publish, Len(m.pending)) /\ w.outcomes = s.outcomes \o q
      /\ w.recoveryOutcomes = <<>>
  BY <1>6, <1>7 DEF Ran, Carries
<1>9. /\ TellsOf(q) = {x.operation : x \in t.publish} /\ TellsOf(q) \subseteq Live(m.pending)
      /\ Live(r.pending) = Live(m.pending) \ TellsOf(q)
  <2>1. TellsOf(q) = {x.operation : x \in t.publish} /\ TellsOf(q) \subseteq Live(m.pending)
    BY <1>1, <1>2, <1>8, PublishedOperations DEF Concludes
  <2> QED
    BY <1>2, <2>1 DEF Concludes
<1>10. q \in Seq(Outcomes) /\ Distinct(q) /\ \A k \in DOMAIN q : q[k].reply <= ReplyBytes
  BY <1>2, <1>8 DEF PublishedTo
<1>11. Roomy(w, P)
  <2>1. /\ Len(s.outcomes \o q) = Len(s.outcomes) + Len(q) /\ Len(q) \in Nat
        /\ \A k \in DOMAIN (s.outcomes \o q) : (s.outcomes \o q)[k].reply <= ReplyBytes
    <3> DEFINE c == s.outcomes \o q
    <3>0. c = s.outcomes \o q
      OBVIOUS
    <3> HIDE DEF c
    <3>1. Joined(s.outcomes, q, c)
      BY <1>1, <1>10, <3>0, JoinedItems
    <3>2. ASSUME NEW k \in DOMAIN c PROVE c[k].reply <= ReplyBytes
      <4>1. CASE k \in 1..Len(s.outcomes)
        BY <1>6, <3>1, <4>1 DEF Joined
      <4>2. ASSUME NEW i \in 1..Len(q), k = Len(s.outcomes) + i PROVE c[k].reply <= ReplyBytes
        BY <1>10, <3>1, <4>2 DEF Joined
      <4> QED
        BY <3>1, <4>1, <4>2 DEF Joined
    <3> QED
      BY <3>0, <3>1, <3>2 DEF Joined
  <2>2. IsFiniteSet(TellsOf(q)) /\ Cardinality(TellsOf(q)) = Len(q)
    BY <1>10, TellsCounted
  <2>3. Cardinality(Live(r.pending)) = Cardinality(Live(m.pending)) - Len(q)
    <3>1. Live(m.pending) \cap TellsOf(q) = TellsOf(q)
      BY <1>9
    <3>2. Cardinality(Live(m.pending) \ TellsOf(q))
            = Cardinality(Live(m.pending)) - Cardinality(Live(m.pending) \cap TellsOf(q))
      BY <1>5, FS_Difference
    <3> QED
      BY <1>9, <2>2, <3>1, <3>2
  <2>4. Len(w.outcomes) + Cardinality(Live(w.machine.pending)) + Cardinality(P) <= MaxOperations
    <3>1. Len(w.outcomes) = Len(s.outcomes) + Len(q)
      BY <1>8, <2>1
    <3>2. Cardinality(Live(w.machine.pending)) = Cardinality(Live(m.pending)) - Len(q)
      BY <1>8, <2>3
    <3> QED
      BY <1>5, <1>6, <2>1, <3>1, <3>2
  <2>5. \A k \in DOMAIN w.outcomes : w.outcomes[k].reply <= ReplyBytes
    BY <1>8, <2>1
  <2> QED
    BY <1>8, <2>4, <2>5 DEF Roomy
<1>12. Owned(w, P)
  BY <1>2, <1>8, <1>11 DEF Owned
<1> QED
  BY <1>7, <1>9, <1>12

(***************************************************************************)
(* The events told.                                                        *)
(***************************************************************************)
LEMMA EventsJoin ==
  ASSUME NEW a \in Seq(Events), NEW b \in Seq(Events)
  PROVE  /\ a \o b \in Seq(Events)
         /\ \A c \in Seq(Events) : (a \o b) \o c = a \o (b \o c)
         /\ \A x \in Events : a \o Append(b, x) = Append(a \o b, x)
         /\ a \o <<>> = a /\ <<>> \o a = a
<1> HIDE DEF Events
<1>1. a \o b \in Seq(Events)
  OBVIOUS
<1>2. ASSUME NEW c \in Seq(Events) PROVE (a \o b) \o c = a \o (b \o c)
  OBVIOUS
<1>3. ASSUME NEW x \in Events PROVE a \o Append(b, x) = Append(a \o b, x)
  OBVIOUS
<1>4. a \o <<>> = a
  OBVIOUS
<1>5. <<>> \o a = a
  OBVIOUS
<1> QED
  BY <1>1, <1>2, <1>3, <1>4, <1>5

\* The log f is e and one more event.
Extends(e, f, event) ==
  /\ Len(f) = Len(e) + 1 /\ Len(e) \in Nat /\ DOMAIN e = 1..Len(e) /\ DOMAIN f = 1..Len(f)
  /\ f[Len(f)] = event /\ Len(f) \in DOMAIN f
  /\ \A i \in DOMAIN e : i \in DOMAIN f /\ i < Len(f) /\ f[i] = e[i]
  /\ \A i \in DOMAIN f : i \in DOMAIN e \/ i = Len(f)

LEMMA LogExtends ==
  ASSUME NEW s \in Slots, NEW r \in Slots, NEW O \in Seq(Events), s.recoveryEvents = <<>>,
         NEW event \in Events, TellsMore(s, r, event)
  PROVE  /\ LogOf(s, O) \in Seq(Events) /\ LogOf(r, O) \in Seq(Events)
         /\ Extends(LogOf(s, O), LogOf(r, O), event)
<1>1. /\ s.lifecycle \in Seq(Events) /\ r.lifecycle \in Seq(Events) /\ r.recoveryEvents \in Seq(Events)
  BY SlotFields
<1>2. r.lifecycle \o r.recoveryEvents = Append(s.lifecycle, event)
  BY DEF TellsMore
<1>3. (O \o r.lifecycle) \o r.recoveryEvents = O \o (r.lifecycle \o r.recoveryEvents)
  <2>1. \A c \in Seq(Events) : (O \o r.lifecycle) \o c = O \o (r.lifecycle \o c)
    BY <1>1, EventsJoin
  <2> QED
    BY <1>1, <2>1
<1>4. O \o Append(s.lifecycle, event) = Append(O \o s.lifecycle, event)
  BY SMTT(30), <1>1, EventsJoin
<1>5. O \o s.lifecycle \in Seq(Events) /\ (O \o s.lifecycle) \o <<>> = O \o s.lifecycle
  <2>1. O \o s.lifecycle \in Seq(Events)
    BY <1>1, EventsJoin
  <2> QED
    BY <2>1, EventsJoin
<1> DEFINE e == O \o s.lifecycle
<1>6. LogOf(s, O) = e
  BY <1>5 DEF LogOf
<1>7. LogOf(r, O) = Append(e, event)
  BY <1>2, <1>3, <1>4 DEF LogOf
<1> HIDE DEF e
<1>8. e \in Seq(Events)
  BY <1>5 DEF e
<1>9. Append(e, event) \in Seq(Events) /\ Extends(e, Append(e, event), event)
  <2> DEFINE f == Append(e, event)
  <2>1. /\ f \in Seq(Events) /\ Len(f) = Len(e) + 1 /\ Len(e) \in Nat
        /\ DOMAIN e = 1..Len(e) /\ DOMAIN f = 1..Len(f) /\ f[Len(e) + 1] = event
        /\ \A i \in 1..Len(e) : f[i] = e[i]
    BY <1>8
  <2> HIDE DEF f
  <2>2. \A i \in DOMAIN e : i \in DOMAIN f /\ i < Len(f)
    BY <2>1
  <2>3. \A i \in DOMAIN f : i \in DOMAIN e \/ i = Len(f)
    BY <2>1
  <2>4. f \in Seq(Events) /\ Extends(e, f, event)
    BY <2>1, <2>2, <2>3 DEF Extends
  <2> QED
    BY <2>4 DEF f
<1> QED
  BY <1>6, <1>7, <1>8, <1>9

Ranked(e, k, reason) ==
  /\ \A i \in DOMAIN e : Rank(e[i]) <= k
  /\ InSequence(e, reason)

IsNext(e, k, before, event, reason) ==
  /\ k \in 0..4 /\ Ranked(e, k, before) /\ k < Rank(event) /\ event.sequence = Len(e) + 1
  /\ k < 3 \/ before = reason
  /\ event.kind \in {"Closing", "Closed"} => event.reason = reason

\* An event that ranks above all that were told keeps the log in sequence.
LEMMA LogGrows ==
  ASSUME NEW e, e \in Seq(Events), NEW f, NEW event, event \in Events, Extends(e, f, event),
         NEW k, NEW before, NEW reason, IsNext(e, k, before, event, reason)
  PROVE  /\ Ranked(f, Rank(event), reason)
         /\ Opened(f) <=> Opened(e) \/ event.kind = "TransportOpened"
<1>0. /\ InSequence(e, before) /\ \A i \in DOMAIN e : Rank(e[i]) <= k
      /\ k \in 0..4 /\ k < Rank(event) /\ event.sequence = Len(e) + 1
      /\ k < 3 \/ before = reason
      /\ event.kind \in {"Closing", "Closed"} => event.reason = reason
  BY DEF Ranked, IsNext
<1>1. /\ \A i \in DOMAIN e : e[i] \in Events
      /\ Rank(event) \in 1..4 /\ \A i \in DOMAIN e : Rank(e[i]) \in 1..4
  <2>1. \A i \in DOMAIN e : e[i] \in Events
    OBVIOUS
  <2> QED
    BY <2>1, RankType
<1>2. \A i \in DOMAIN e : e[i].kind \in {"Closing", "Closed"} => e[i].reason = reason
  <2>1. ASSUME NEW i \in DOMAIN e, e[i].kind \in {"Closing", "Closed"} PROVE e[i].reason = reason
    <3>1. e[i].reason = before
      BY <1>0, <2>1 DEF InSequence
    <3>2. Rank(e[i]) >= 3
      BY <2>1, RankIs
    <3>3. before = reason
      BY <1>0, <1>1, <3>2
    <3> QED
      BY <3>1, <3>3
  <2> QED
    BY <2>1
<1>3. ASSUME NEW i \in DOMAIN f
      PROVE  /\ f[i].sequence = i /\ Rank(f[i]) <= Rank(event)
             /\ \A j \in 1..(i - 1) : Rank(f[j]) < Rank(f[i])
             /\ f[i].kind \in {"Closing", "Closed"} => f[i].reason = reason
  <2>1. CASE i \in DOMAIN e
    <3>1. f[i] = e[i] /\ i \in 1..Len(e) /\ Len(e) \in Nat /\ DOMAIN e = 1..Len(e)
      BY <2>1 DEF Extends
    <3>2. ASSUME NEW j \in 1..(i - 1) PROVE Rank(f[j]) < Rank(f[i])
      <4>1. j \in DOMAIN e
        BY <3>1
      <4>2. f[j] = e[j]
        BY <4>1 DEF Extends
      <4>3. Rank(e[j]) < Rank(e[i])
        BY <1>0, <2>1 DEF InSequence
      <4> QED
        BY <3>1, <4>2, <4>3
    <3>3. Rank(e[i]) <= Rank(event)
      BY <1>0, <1>1, <2>1
    <3>4. e[i].sequence = i
      BY <1>0, <2>1 DEF InSequence
    <3> QED
      BY <1>2, <2>1, <3>1, <3>2, <3>3, <3>4
  <2>2. CASE i = Len(f)
    <3>1. f[i] = event /\ i = Len(e) + 1 /\ Len(e) \in Nat /\ DOMAIN e = 1..Len(e)
      BY <2>2 DEF Extends
    <3>2. ASSUME NEW j \in 1..(i - 1) PROVE Rank(f[j]) < Rank(f[i])
      <4>1. j \in DOMAIN e
        BY <3>1
      <4>2. f[j] = e[j]
        BY <4>1 DEF Extends
      <4> QED
        BY <1>0, <1>1, <3>1, <4>1, <4>2
    <3> QED
      BY <1>0, <1>1, <3>1, <3>2
  <2> QED
    BY <2>1, <2>2 DEF Extends
<1>4. Opened(f) <=> Opened(e) \/ event.kind = "TransportOpened"
  BY DEF Opened, Extends
<1> QED
  BY <1>3, <1>4 DEF InSequence, Ranked

\* The slot tells the next event of its log.
Grown(s, r, O, event, reason) ==
  /\ Len(LogOf(r, O)) = r.eventSequence
  /\ InSequence(LogOf(r, O), reason)
  /\ \A i \in DOMAIN LogOf(r, O) : Rank(LogOf(r, O)[i]) <= Rank(event)
  /\ Opened(LogOf(r, O)) <=> Opened(LogOf(s, O)) \/ event.kind = "TransportOpened"

LEMMA LogTold ==
  ASSUME NEW s \in Slots, NEW O \in Seq(Events), Logged(s, O), s.recoveryEvents = <<>>,
         NEW r \in Slots, NEW event \in Events, TellsMore(s, r, event),
         event.sequence = s.eventSequence + 1, Stage(s) < Rank(event),
         NEW reason, Stage(s) < 3 \/ s.machine.closeReason = reason,
         event.kind \in {"Closing", "Closed"} => event.reason = reason
  PROVE  Grown(s, r, O, event, reason)
<1> DEFINE e == LogOf(s, O)
           f == LogOf(r, O)
           k == Stage(s)
           before == s.machine.closeReason
<1>1. /\ e \in Seq(Events) /\ f \in Seq(Events) /\ Extends(e, f, event)
  BY LogExtends
<1>2. Len(e) = s.eventSequence /\ Ranked(e, k, before) /\ k \in 0..4
  BY DEF Logged, Stage, Ranked
<1>3. Len(f) = r.eventSequence
  BY <1>1, <1>2 DEF Extends, TellsMore
<1>4. IsNext(e, k, before, event, reason)
  BY <1>2 DEF IsNext
<1> HIDE DEF e, f, k, before
<1>5. /\ Ranked(f, Rank(event), reason)
      /\ Opened(f) <=> Opened(e) \/ event.kind = "TransportOpened"
  BY <1>1, <1>4, LogGrows
<1> QED
  BY <1>3, <1>5 DEF Grown, Ranked, e, f

(***************************************************************************)
(* One fate for every operation.                                           *)
(***************************************************************************)
LEMMA OutcomesJoin ==
  ASSUME NEW a \in Seq(Outcomes), NEW b \in Seq(Outcomes)
  PROVE  /\ a \o b \in Seq(Outcomes)
         /\ \A c \in Seq(Outcomes) : (a \o b) \o c = a \o (b \o c)
         /\ a \o <<>> = a /\ <<>> \o a = a
<1> HIDE DEF Outcomes
<1>1. a \o b \in Seq(Outcomes)
  OBVIOUS
<1>2. ASSUME NEW c \in Seq(Outcomes) PROVE (a \o b) \o c = a \o (b \o c)
  OBVIOUS
<1>3. a \o <<>> = a
  OBVIOUS
<1>4. <<>> \o a = a
  OBVIOUS
<1> QED
  BY <1>1, <1>2, <1>3, <1>4

LEMMA FatedAfter ==
  ASSUME NEW s \in Slots, NEW P, NEW C, NEW D \in Seq(Outcomes), Fated(s, P, C, D),
         NEW q \in Seq(Outcomes), Distinct(q), TellsOf(q) \subseteq Live(s.machine.pending),
         NEW w, w.outcomes = s.outcomes \o q,
         Live(w.machine.pending) = Live(s.machine.pending) \ TellsOf(q),
         w.machine.nextOperation = s.machine.nextOperation
  PROVE  Fated(w, P, C, D)
<1> DEFINE told == D \o s.outcomes
<1>1. s.outcomes \in Seq(Outcomes) /\ told \in Seq(Outcomes)
  BY SlotFields, OutcomesJoin
<1>2. D \o w.outcomes = told \o q
  <2>1. \A c \in Seq(Outcomes) : (D \o s.outcomes) \o c = D \o (s.outcomes \o c)
    BY <1>1, OutcomesJoin
  <2> QED
    BY <2>1
<1>3. /\ Distinct(told) /\ C = TellsOf(told) \cup Live(s.machine.pending)
      /\ TellsOf(told) \cap Live(s.machine.pending) = {}
      /\ \A p \in P : p.operation \notin C
      /\ \A operation \in C : operation < s.machine.nextOperation
  BY DEF Fated
<1> HIDE DEF told
<1>4. TellsOf(told \o q) = TellsOf(told) \cup TellsOf(q) /\ Distinct(told \o q)
  <2>1. TellsOf(told) \cap TellsOf(q) = {}
    BY <1>3
  <2> QED
    BY <1>1, <1>3, <2>1, JoinedTells
<1>5. /\ Distinct(D \o w.outcomes) /\ TellsOf(D \o w.outcomes) = TellsOf(told) \cup TellsOf(q)
  BY <1>2, <1>4
<1>6. /\ C = TellsOf(D \o w.outcomes) \cup Live(w.machine.pending)
      /\ TellsOf(D \o w.outcomes) \cap Live(w.machine.pending) = {}
  BY <1>3, <1>5
<1> QED
  BY <1>3, <1>5, <1>6 DEF Fated

LEMMA HeldFated ==
  ASSUME NEW s, NEW r, Holding(s, r), NEW P, NEW C, NEW D, Fated(s, P, C, D)
  PROVE  Fated(r, P, C, D)
  BY DEF Holding, Fated

LEMMA HeldOwned ==
  ASSUME NEW s, NEW r \in Slots, Holding(s, r), r.recoveryOutcomes = s.recoveryOutcomes,
         NEW P, Owned(s, P)
  PROVE  Owned(r, P)
  BY DEF Holding, Owned, Roomy

(***************************************************************************)
(* What a unit of work, in the middle of a call, makes of the slot as its  *)
(* owner sees it.                                                          *)
(***************************************************************************)
Moves(s, r) ==
  /\ s.outcomes # <<>> => r.outcomes # <<>>
  /\ s.lifecycle # <<>> => r.lifecycle # <<>>
  /\ s.transportState = "Closed" => Running(r)
  /\ \/ r.transportState = s.transportState /\ r.closeRequest = s.closeRequest
     \/ /\ s.transportState = "Connecting" /\ r.transportState = "Open"
        /\ r.closeRequest = s.closeRequest /\ r.lifecycle # <<>>
     \/ /\ s.transportState \in {"Connecting", "Open"} /\ r.transportState = "Closing"
        /\ r.closeRequest.kind = "Core" /\ r.lifecycle # <<>>
        /\ \/ r.closeRequest.shutdown = "Immediate"
           \/ s.transportState = "Open" /\ r.closeRequest.shutdown = "Pending"
     \/ /\ ShuttingDown(s) /\ r.transportState = s.transportState
        /\ r.closeRequest.kind = "Core"
        /\ r.outcomes = s.outcomes /\ r.lifecycle = s.lifecycle

\* A call goes on, or failed because an event did not fit the batch.
GoesOn(r) == Running(r) \/ r.recoveryEvents # <<>>

\* The reasons that a slot at this stage may be closed for.
Closable(s, reasons) ==
  /\ reasons \subseteq CloseReasons \ {"Drained", "None"}
  /\ Connecting(s) => reasons \cap AfterOpen = {}
  /\ s.transportState = "Open" => reasons \cap BeforeOpen = {}

\* While connecting nothing was told; once open, the opening was.
LEMMA OpenedWhen ==
  ASSUME NEW s \in Slots, NEW O \in Seq(Events), Logged(s, O), NEW reasons, Closable(s, reasons),
         s.transportState \in {"Connecting", "Open"}
  PROVE  \A reason \in reasons \cup {"Drained"} : Truthful(LogOf(s, O), reason)
<1>1. LogOf(s, O) \in Seq(Events)
  <2>1. s.lifecycle \in Seq(Events) /\ s.recoveryEvents \in Seq(Events)
    BY SlotFields
  <2>2. O \o s.lifecycle \in Seq(Events)
    BY <2>1, EventsJoin
  <2> QED
    BY <2>1, <2>2, EventsJoin DEF LogOf
<1>2. "Drained" \notin AfterOpen /\ "Drained" \notin BeforeOpen
  BY DEF AfterOpen, BeforeOpen
<1>3. CASE s.transportState = "Connecting"
  <2>1. Stage(s) = 0
    BY <1>3 DEF Stage
  <2>2. ASSUME NEW i \in DOMAIN LogOf(s, O) PROVE FALSE
    <3>1. Rank(LogOf(s, O)[i]) \in 1..4
      <4>1. LogOf(s, O)[i] \in Events
        BY <1>1
      <4> QED
        BY <4>1, RankType
    <3>2. Rank(LogOf(s, O)[i]) <= 0
      BY <2>1 DEF Logged
    <3> QED
      BY <3>1, <3>2
  <2>3. ~Opened(LogOf(s, O))
    BY <2>2 DEF Opened
  <2> QED
    BY <1>2, <1>3, <2>3 DEF Truthful, Closable, Connecting
<1>4. CASE s.transportState = "Open"
  <2>1. Opened(LogOf(s, O))
    BY <1>4 DEF Logged
  <2> QED
    BY <1>2, <1>4, <2>1 DEF Truthful, Closable
<1> QED
  BY <1>3, <1>4

LEMMA LogType ==
  ASSUME NEW s \in Slots, NEW O \in Seq(Events)
  PROVE  LogOf(s, O) \in Seq(Events)
<1>1. s.lifecycle \in Seq(Events) /\ s.recoveryEvents \in Seq(Events)
  BY SlotFields
<1>2. O \o s.lifecycle \in Seq(Events)
  BY <1>1, EventsJoin
<1> QED
  BY <1>1, <1>2, EventsJoin DEF LogOf

\* The machine closed its epoch: the close is announced.
LEMMA CloseDuring ==
  ASSUME NEW P, NEW C, NEW D \in Seq(Outcomes), NEW O \in Seq(Events),
         NEW s \in Slots, Running(s), Placed(s), Logged(s, O),
         s.transportState \in {"Connecting", "Open"},
         NEW w, Owned(w, P), Fated(w, P, C, D), Stays(s, w),
         s.outcomes # <<>> => w.outcomes # <<>>,
         NEW reason, reason = w.machine.closeReason, w.machine.phase = "Closing",
         Truthful(LogOf(s, O), reason),
         s.transportState = "Open" /\ reason = "Drained" => s.drainDeadline # Never,
         NEW r, r = FinishClose(w, reason)
  PROVE  During(r, P, C, D, O) /\ Moves(s, r) /\ GoesOn(r) /\ r.closeRequest # NoRequest
<1> DEFINE event == [sequence |-> w.eventSequence + 1, kind |-> "Closing", reason |-> reason]
<1>1. /\ w \in Slots /\ w.machine \in Machine /\ reason \in CloseReasons
  BY SlotFields, MachineFields DEF Owned
<1>2. /\ Running(w) /\ w.recoveryEvents = <<>> /\ w.closeRequest = NoRequest
      /\ w.transportState = s.transportState /\ w.drainDeadline = s.drainDeadline
      /\ w.eventSequence = s.eventSequence
  BY DEF Stays, Running, Placed, Logged
<1>3. /\ r \in Slots /\ Carries(w, r) /\ Holding(w, r) /\ event \in Events
      /\ r.transportState = "Closing" /\ r.drainDeadline = Never
      /\ r.closeRequest.kind = "Core" /\ r.closeRequest.reason = reason
      /\ r.closeRequest.shutdown \in {"Immediate", "Pending"}
      /\ r.closeRequest.shutdown = "Pending" => w.transportState = "Open" /\ reason = "Drained"
      /\ TellsMore(w, r, event)
      /\ Running(r) <=> r.recoveryEvents = <<>>
  <2>1. event = [sequence |-> w.eventSequence + 1, kind |-> "Closing", reason |-> reason]
    OBVIOUS
  <2> HIDE DEF event
  <2> QED
    BY <1>1, <1>2, <2>1, FinishCloseTells
<1>4. event.sequence = s.eventSequence + 1 /\ event.kind = "Closing" /\ event.reason = reason
  BY <1>2
<1> HIDE DEF event
<1>5. Rank(event) = 3
  BY <1>4, RankIs
<1>8. Grown(s, r, O, event, reason)
  <2>1. /\ TellsMore(s, r, event) /\ s.recoveryEvents = <<>> /\ Stage(s) < 3
        /\ event.sequence = s.eventSequence + 1
    BY <1>2, <1>3, <1>4 DEF TellsMore, Stays, Stage
  <2>2. Stage(s) < Rank(event)
    BY <1>5, <2>1
  <2> QED
    BY <1>3, <1>4, <2>1, <2>2, LogTold
<1>9. r.machine = w.machine /\ r.outcomes = w.outcomes /\ r.recoveryOutcomes = w.recoveryOutcomes
      /\ r.eventSequence = s.eventSequence + 1 /\ r.lifecycle # <<>>
  BY <1>2, <1>3 DEF Holding, Carries, TellsMore
<1>10. Logged(r, O)
  <2>1. Stage(r) = 3
    BY <1>3 DEF Stage
  <2>2. Truthful(LogOf(r, O), reason)
    BY <1>4, <1>8 DEF Truthful, Grown
  <2> QED
    BY <1>3, <1>5, <1>8, <1>9, <2>1, <2>2 DEF Logged, Grown
<1>11. Owned(r, P) /\ Fated(r, P, C, D)
  BY <1>3, <1>9, HeldOwned, HeldFated
<1>12. Placed(r) /\ DrainTimed(r)
  BY <1>3, <1>9 DEF Placed, DrainTimed
<1>13. Reading(r)
  BY <1>3 DEF Reading, Connecting
<1>14. Moves(s, r)
  BY <1>2, <1>3, <1>9 DEF Moves
<1>15. r.closeRequest # NoRequest
  BY <1>3, RequestsAre
<1> QED
  BY <1>3, <1>10, <1>11, <1>12, <1>13, <1>14, <1>15 DEF During, GoesOn

\* The decoder can go on, or the handler closes the epoch.
Rests(s, t) == Reading(s) \/ (s.machine.phase = "Live" /\ t.machine.phase = "Closing")

\* A handler runs on a slot in the middle of a call.
LEMMA InterpretDuring ==
  ASSUME NEW P, NEW C, NEW D \in Seq(Outcomes), NEW O \in Seq(Events),
         NEW s \in Slots, Running(s), Placed(s), Logged(s, O), Fated(s, P, C, D), NEW t,
         Rests(s, t),
         Books(s.machine, P), Sound(s.machine), Roomy(s, P), DOMAIN s.wire = HeldOperations(s.machine),
         NEW fired, Handles(s.machine, P, t, fired),
         s.timers = {x \in Timed(s.machine.pending) : x[1] \notin fired},
         Fronted(t.machine, WrittenAfter(s, t.machine)),
         NEW reasons, NEW gates \in SUBSET {"Open", "Draining"}, Course(s.machine, t.machine, reasons, gates),
         Closable(s, reasons),
         t.machine.phase = "Live" /\ t.machine.gate = "Draining" => s.drainDeadline # Never,
         t.machine.phase = "Closing" /\ t.machine.closeReason = "Drained" /\ s.machine.phase = "Live"
           => s.drainDeadline # Never,
         NEW r, r = Interpret(s, t)
  PROVE  During(r, P, C, D, O) /\ Moves(s, r) /\ GoesOn(r)
<1> DEFINE m == s.machine
<1>1. PICK w, q : /\ Ran(s, t, w, q) /\ Owned(w, P)
                  /\ TellsOf(q) \subseteq Live(m.pending)
                  /\ Live(t.machine.pending) = Live(m.pending) \ TellsOf(q)
  BY InterpretKeeps
<1>2. /\ w \in Slots /\ w.machine = t.machine /\ q \in Seq(Outcomes) /\ Distinct(q)
      /\ w.outcomes = s.outcomes \o q /\ Carries(s, w) /\ Stays(s, w)
      /\ Interpret(s, t) = IF m.phase = "Live" /\ t.machine.phase = "Closing"
                           THEN FinishClose(w, t.machine.closeReason) ELSE w
  BY <1>1 DEF Ran, PublishedTo
<1>3. /\ t.machine.nextOperation = m.nextOperation /\ Narrows(m, t.machine)
      /\ s.outcomes \in Seq(Outcomes) /\ s.transportState \in TransportStates
  BY SlotFields DEF Handles
<1>4. Fated(w, P, C, D)
  BY <1>1, <1>2, <1>3, FatedAfter
<1>5. s.outcomes # <<>> => w.outcomes # <<>>
  <2>1. \A a, b \in Seq(Outcomes) : a # <<>> => a \o b # <<>>
    OBVIOUS
  <2> QED
    BY <1>2, <1>3, <2>1
<1>6. CASE m.phase = "Live" /\ t.machine.phase = "Closing"
  <2>1. s.transportState \in {"Connecting", "Open"}
    BY <1>3, <1>6 DEF Placed, TransportStates
  <2>2. t.machine.closeReason \in reasons \cup {"Drained"}
    BY <1>6 DEF Course
  <2>3. Truthful(LogOf(s, O), t.machine.closeReason)
    BY <2>1, <2>2, OpenedWhen
  <2>4. s.transportState = "Open" /\ t.machine.closeReason = "Drained" => s.drainDeadline # Never
    BY <1>6
  <2>5. r = FinishClose(w, t.machine.closeReason)
    BY <1>2, <1>6
  <2> QED
    BY <1>1, <1>2, <1>4, <1>5, <1>6, <2>1, <2>3, <2>4, <2>5, CloseDuring
<1>7. CASE ~(m.phase = "Live" /\ t.machine.phase = "Closing")
  <2>1. r = w
    BY <1>2, <1>7
  <2>2. /\ w.machine.phase = m.phase /\ w.machine.closeReason = m.closeReason
        /\ w.machine.gate = m.gate \/ (m.phase = "Live" /\ w.machine.gate \in gates)
    BY <1>2, <1>7 DEF Course
  <2>3. /\ w.transportState = s.transportState /\ w.drainDeadline = s.drainDeadline
        /\ w.closeRequest = s.closeRequest /\ w.owner = s.owner /\ w.lifecycle = s.lifecycle
        /\ w.recoveryEvents = s.recoveryEvents /\ w.eventSequence = s.eventSequence
        /\ w.decoder = s.decoder /\ w.decoderPending = s.decoderPending
    BY <1>2 DEF Stays, Carries
  <2>4. Placed(w) /\ DrainTimed(w)
    BY <1>2, <2>2, <2>3 DEF Placed, DrainTimed, Running
  <2>5. Reading(w)
    <3>1. Connecting(w) => \A i \in DOMAIN w.machine.pending : w.machine.pending[i].delivery = "NotSent"
      <4>1. SUFFICES ASSUME Connecting(w), NEW i \in DOMAIN w.machine.pending
                     PROVE  w.machine.pending[i].delivery = "NotSent"
        OBVIOUS
      <4>2. Reading(s) /\ Connecting(s)
        BY <1>7, <2>3, <4>1 DEF Rests, Connecting
      <4>3. Narrows(m, w.machine)
        BY <1>2, <1>3
      <4>4. PICK j \in DOMAIN m.pending : w.machine.pending[i].delivery = m.pending[j].delivery
        BY <4>1, <4>3 DEF Narrows
      <4> QED
        BY <4>2, <4>4 DEF Reading
    <3> QED
      BY <1>7, <2>3, <3>1 DEF Rests, Reading, Connecting, CanRead
  <2>6. Logged(w, O)
    <3>1. Stage(s) <= Stage(w) /\ Stage(s) \in Nat /\ Stage(w) \in Nat
      BY <2>2, <2>3 DEF Stage
    <3>2. LogOf(w, O) = LogOf(s, O)
      BY <2>3 DEF LogOf
    <3>3. LogOf(s, O) \in Seq(Events)
      BY LogType
    <3>a. \A e \in Events : Rank(e) \in Nat
      BY RankType
    <3>4. \A i \in DOMAIN LogOf(s, O) : Rank(LogOf(s, O)[i]) <= Stage(w)
      <4>1. ASSUME NEW i \in DOMAIN LogOf(s, O) PROVE Rank(LogOf(s, O)[i]) <= Stage(w)
        <5>1. Rank(LogOf(s, O)[i]) <= Stage(s)
          BY DEF Logged
        <5>2. LogOf(s, O)[i] \in Events
          BY <3>3
        <5>3. Rank(LogOf(s, O)[i]) \in Nat
          BY <3>a, <5>2
        <5> QED
          BY <3>1, <5>1, <5>3
      <4> QED
        BY <4>1
    <3> QED
      BY <2>2, <2>3, <3>2, <3>4 DEF Logged, Running
  <2>7. Moves(s, w)
    BY <1>5, <2>3 DEF Moves, Running
  <2> QED
    BY <1>1, <1>4, <2>1, <2>3, <2>4, <2>5, <2>6, <2>7 DEF During, GoesOn, Running
<1> QED
  BY <1>6, <1>7

(***************************************************************************)
(* The methods of the slot.                                                *)
(***************************************************************************)

\* What a method may rely on while the decoder is being looked at.
Ready(s, P, C, D, O) ==
  /\ s \in Slots /\ Running(s) /\ Owned(s, P) /\ Fated(s, P, C, D)
  /\ Placed(s) /\ DrainTimed(s) /\ Logged(s, O)

\* A method that started from s leaves r.
Yields(s, r, P, C, D, O) == During(r, P, C, D, O) /\ Moves(s, r) /\ GoesOn(r)

LEMMA DuringReady ==
  ASSUME NEW s, Running(s), NEW P, NEW C, NEW D, NEW O, During(s, P, C, D, O)
  PROVE  Ready(s, P, C, D, O) /\ Reading(s)
BY DEF Ready, During, Owned

LEMMA HandlerYields ==
  ASSUME NEW P, NEW C, NEW D \in Seq(Outcomes), NEW O \in Seq(Events),
         NEW s, Ready(s, P, C, D, O), NEW t, Handles(s.machine, P, t, {}),
         Rests(s, t),
         NEW reasons, Course(s.machine, t.machine, reasons, {}), Closable(s, reasons)
  PROVE  Yields(s, Interpret(s, t), P, C, D, O)
<1>1. /\ s \in Slots /\ Running(s) /\ Placed(s) /\ Logged(s, O) /\ Fated(s, P, C, D)
      /\ Books(s.machine, P) /\ Sound(s.machine) /\ Roomy(s, P) /\ DrainTimed(s)
      /\ DOMAIN s.wire = HeldOperations(s.machine) /\ Fronted(s.machine, s.written)
      /\ s.timers = {x \in Timed(s.machine.pending) : x[1] \notin {}}
  BY DEF Ready, Owned
<1>2. s.machine \in Machine /\ t.machine \in Machine /\ Narrows(s.machine, t.machine)
  BY <1>1, SlotFields DEF Handles, Transitions
<1>3. Fronted(t.machine, WrittenAfter(s, t.machine))
  BY <1>1, <1>2, FrontedAfter
<1>4. t.machine.phase = "Live" /\ t.machine.gate = "Draining" => s.drainDeadline # Never
  BY <1>1 DEF Course, DrainTimed
<1>5. t.machine.phase = "Closing" /\ t.machine.closeReason = "Drained" /\ s.machine.phase = "Live"
           => s.drainDeadline # Never
  BY <1>1 DEF Course, DrainTimed, Closable
<1> DEFINE gates == {}
           fired == {}
           r == Interpret(s, t)
<1>6. /\ gates \in SUBSET {"Open", "Draining"} /\ Course(s.machine, t.machine, reasons, gates)
      /\ Handles(s.machine, P, t, fired) /\ r = Interpret(s, t)
      /\ s.timers = {x \in Timed(s.machine.pending) : x[1] \notin fired}
  BY <1>1
<1> HIDE DEF gates, fired, r
<1>7. During(r, P, C, D, O) /\ Moves(s, r) /\ GoesOn(r)
  BY <1>1, <1>3, <1>4, <1>5, <1>6, InterpretDuring
<1> QED
  BY <1>6, <1>7 DEF Yields

\* A close request of any origin.
LEMMA CloseYields ==
  ASSUME NEW P, NEW C, NEW D \in Seq(Outcomes), NEW O \in Seq(Events),
         NEW s, Ready(s, P, C, D, O), NEW reason, Closable(s, {reason}), NEW blamed
  PROVE  /\ Yields(s, Interpret(s, CloseInto(Transition(s.machine), reason, blamed)), P, C, D, O)
         /\ s.machine.phase # "Live" =>
              CloseInto(Transition(s.machine), reason, blamed) = Transition(s.machine)
<1> DEFINE m == s.machine
           t == CloseInto(Transition(m), reason, blamed)
<1>1. /\ m \in Machine /\ Sound(m) /\ DrainWaits(m) /\ Books(m, P) /\ Placed(s)
      /\ s.transportState \in TransportStates
  BY SlotFields DEF Ready, Owned
<1>2. reason \in CloseReasons
  BY DEF Closable
<1> HIDE DEF m
<1>3. /\ Handles(m, P, t, {}) /\ Course(m, t.machine, {reason}, {})
      /\ m.phase # "Live" => t = Transition(m)
      /\ m.phase = "Live" => t.machine.phase = "Closing"
  BY <1>1, <1>2, CloseHandles
<1>4. Rests(s, t)
  BY <1>1, <1>3 DEF Rests, Reading, Placed, Connecting, TransportStates, m
<1> HIDE DEF t
<1>5. Yields(s, Interpret(s, t), P, C, D, O)
  BY <1>3, <1>4, HandlerYields DEF m
<1> QED
  BY <1>3, <1>5 DEF t, m

\* The slot differs only in what the decoder keeps.
Redecoded(s, n) ==
  /\ n \in Slots /\ Holding(s, n) /\ Stays(s, n)
  /\ n.recoveryOutcomes = s.recoveryOutcomes

LEMMA RedecodedReady ==
  ASSUME NEW P, NEW C, NEW D, NEW O, NEW s, Ready(s, P, C, D, O), NEW n, Redecoded(s, n)
  PROVE  /\ Ready(n, P, C, D, O)
         /\ \A r : Yields(n, r, P, C, D, O) => Yields(s, r, P, C, D, O)
         /\ Reading(n) => Yields(s, n, P, C, D, O)
<1>1. n \in Slots /\ Holding(s, n) /\ Stays(s, n) /\ n.recoveryOutcomes = s.recoveryOutcomes
  BY DEF Redecoded
<1>2. Owned(n, P) /\ Fated(n, P, C, D)
  BY <1>1, HeldOwned, HeldFated DEF Ready
<1>3. Running(n) /\ Placed(n) /\ DrainTimed(n)
  BY <1>1 DEF Ready, Running, Placed, DrainTimed, Stays, Holding
<1>4. LogOf(n, O) = LogOf(s, O) /\ Stage(n) = Stage(s)
  BY <1>1 DEF LogOf, Stage, Stays, Holding
<1>5. Logged(n, O)
  BY <1>1, <1>3, <1>4 DEF Logged, Ready, Running, Stays, Holding
<1>6. ASSUME NEW r, Moves(n, r) PROVE Moves(s, r)
  BY <1>1, <1>6 DEF Moves, Stays, Holding, ShuttingDown
<1>7. Moves(s, n)
  BY <1>1, <1>3 DEF Moves, Stays, Holding
<1> QED
  BY <1>1, <1>2, <1>3, <1>5, <1>6, <1>7 DEF Ready, Yields, During, GoesOn

\* The slot w is the slot s after a lifecycle edge that is not yet announced.
Edge(s, w, kind, reason) ==
  /\ w.lifecycle = s.lifecycle /\ w.recoveryEvents = s.recoveryEvents
  /\ w.eventSequence = s.eventSequence /\ w.machine.closeReason = s.machine.closeReason
  /\ kind \in {"TransportOpened", "AdmissionOpened", "Closed"} /\ reason \in CloseReasons
  /\ kind = "Closed" => reason = w.machine.closeReason
  /\ kind = "TransportOpened" => w.machine.closeReason = "None" /\ Stage(s) = 0 /\ Stage(w) \in {1, 2}
  /\ kind = "AdmissionOpened" => Stage(s) = 1 /\ Stage(w) = 2
  /\ kind = "Closed" => Stage(s) = 3 /\ Stage(w) = 4

LEMMA TellDuring ==
  ASSUME NEW P, NEW C, NEW D \in Seq(Outcomes), NEW O \in Seq(Events),
         NEW s \in Slots, Running(s), Logged(s, O),
         NEW w, Running(w), Owned(w, P), Fated(w, P, C, D), Placed(w), DrainTimed(w), Reading(w),
         NEW kind, NEW reason, Edge(s, w, kind, reason),
         NEW r, r = PublishEvent(w, kind, reason)
  PROVE  /\ During(r, P, C, D, O) /\ GoesOn(r)
         /\ r.transportState = w.transportState /\ r.closeRequest = w.closeRequest
         /\ r.outcomes = w.outcomes /\ r.lifecycle # <<>> /\ r.machine = w.machine
<1> DEFINE event == [sequence |-> w.eventSequence + 1, kind |-> kind, reason |-> reason]
<1> USE DEF Edge
<1>1. w \in Slots /\ s.recoveryEvents = <<>> /\ w.recoveryEvents = <<>>
  BY DEF Owned, Logged
<1>2. /\ event.sequence = s.eventSequence + 1 /\ event.kind = kind /\ event.reason = reason
      /\ event = [sequence |-> w.eventSequence + 1, kind |-> kind, reason |-> reason]
      /\ kind \in {"TransportOpened", "AdmissionOpened", "Closing", "Closed"}
  OBVIOUS
<1> HIDE DEF event
<1>3. /\ r \in Slots /\ Carries(w, r) /\ Holding(w, r) /\ event \in Events
      /\ r.transportState = w.transportState /\ r.drainDeadline = w.drainDeadline
      /\ r.closeRequest = w.closeRequest
      /\ TellsMore(w, r, event)
      /\ Running(r) <=> r.recoveryEvents = <<>>
  BY <1>1, <1>2, PublishEventTells
<1>4. /\ r.machine = w.machine /\ r.outcomes = w.outcomes /\ r.recoveryOutcomes = w.recoveryOutcomes
      /\ r.decoder = w.decoder /\ r.decoderPending = w.decoderPending
      /\ r.lifecycle # <<>>
  BY <1>3 DEF Carries, Holding, TellsMore
<1>5. TellsMore(s, r, event)
  BY <1>3 DEF TellsMore
<1>6. Rank(event) <= Stage(w) /\ Stage(s) < Rank(event) /\ Rank(event) \in Nat /\ Stage(w) \in Nat
  BY <1>2, RankIs
<1>7. Grown(s, r, O, event, w.machine.closeReason)
  <2>1. event.kind \in {"Closing", "Closed"} => event.reason = w.machine.closeReason
    BY <1>2
  <2> DEFINE before == w.machine.closeReason
  <2>2. /\ event.kind \in {"Closing", "Closed"} => event.reason = before
        /\ Stage(s) < 3 \/ s.machine.closeReason = before
    BY <2>1
  <2> HIDE DEF before
  <2>3. Grown(s, r, O, event, before)
    BY <1>1, <1>2, <1>3, <1>5, <1>6, <2>2, LogTold
  <2> QED
    BY <2>3 DEF before
<1>8. Stage(r) = Stage(w)
  BY <1>3, <1>4 DEF Stage
<1>9. Truthful(LogOf(r, O), r.machine.closeReason)
  <2>1. Truthful(LogOf(s, O), w.machine.closeReason)
    BY DEF Logged
  <2>2. kind = "TransportOpened" => w.machine.closeReason = "None"
    OBVIOUS
  <2> QED
    BY <1>2, <1>4, <1>7, <2>1, <2>2 DEF Truthful, Grown, BeforeOpen, AfterOpen
<1>10. r.transportState = "Open" => Opened(LogOf(r, O))
  <2>1. ASSUME r.transportState = "Open" PROVE Opened(LogOf(s, O)) \/ event.kind = "TransportOpened"
    <3>1. Stage(w) \in {1, 2}
      BY <1>3, <2>1 DEF Stage
    <3>2. kind = "AdmissionOpened" => s.transportState = "Open"
      BY DEF Stage
    <3> QED
      BY <1>2, <3>1, <3>2 DEF Logged
  <2> QED
    BY <1>7, <2>1 DEF Grown
<1>11. Logged(r, O)
  <2>1. \A i \in DOMAIN LogOf(r, O) : Rank(LogOf(r, O)[i]) \in Nat
    <3>1. LogOf(r, O) \in Seq(Events)
      BY <1>3, LogType
    <3>2. \A i \in DOMAIN LogOf(r, O) : LogOf(r, O)[i] \in Events
      BY <3>1
    <3> QED
      BY <3>2, RankType
  <2>2. \A i \in DOMAIN LogOf(r, O) : Rank(LogOf(r, O)[i]) <= Stage(r)
    BY <1>6, <1>7, <1>8, <2>1 DEF Grown
  <2> QED
    BY <1>3, <1>4, <1>7, <1>9, <1>10, <2>2 DEF Logged, Grown
<1>12. Owned(r, P) /\ Fated(r, P, C, D)
  BY <1>3, <1>4, HeldOwned, HeldFated
<1>13. Placed(r) /\ DrainTimed(r)
  BY <1>3, <1>4 DEF Placed, DrainTimed
<1>14. Reading(r)
  BY <1>3, <1>4 DEF Reading, Connecting, CanRead
<1> QED
  BY <1>3, <1>4, <1>11, <1>12, <1>13, <1>14 DEF During, GoesOn

LEMMA EstablishYields ==
  ASSUME NEW P, NEW C, NEW D \in Seq(Outcomes), NEW O \in Seq(Events),
         NEW s, Ready(s, P, C, D, O), Reading(s), Connecting(s)
  PROVE  Yields(s, PublishEvent([s EXCEPT !.transportState = "Open"], "TransportOpened", "None"),
                P, C, D, O)
<1> DEFINE w == [s EXCEPT !.transportState = "Open"]
           r == PublishEvent(w, "TransportOpened", "None")
<1>1. s \in Slots /\ Running(s) /\ Logged(s, O) /\ Owned(s, P) /\ Fated(s, P, C, D) /\ Placed(s) /\ DrainTimed(s)
  BY DEF Ready
<1>2. /\ w \in Slots /\ Holding(s, w) /\ w.recoveryOutcomes = s.recoveryOutcomes
      /\ w.transportState = "Open" /\ w.closeRequest = s.closeRequest /\ w.machine = s.machine
      /\ w.drainDeadline = s.drainDeadline /\ w.owner = s.owner
      /\ w.lifecycle = s.lifecycle /\ w.recoveryEvents = s.recoveryEvents
      /\ w.eventSequence = s.eventSequence /\ w.outcomes = s.outcomes
      /\ w.decoder = s.decoder /\ w.decoderPending = s.decoderPending
  BY <1>1 DEF Slots, Holding, TransportStates
<1> HIDE DEF w
<1>3. Owned(w, P) /\ Fated(w, P, C, D)
  BY <1>1, <1>2, HeldOwned, HeldFated
<1>4. Running(w) /\ Placed(w) /\ DrainTimed(w) /\ Reading(w)
  BY <1>1, <1>2 DEF Running, Placed, DrainTimed, Reading, Connecting, CanRead
<1>5. s.machine.closeReason = "None" /\ Stage(s) = 0 /\ Stage(w) \in {1, 2}
  BY <1>1, <1>2 DEF Placed, Stage, Connecting
<1>6. "TransportOpened" \in {"TransportOpened", "AdmissionOpened", "Closed"} /\ "None" \in CloseReasons
  BY DEF CloseReasons
<1>7. /\ During(r, P, C, D, O) /\ GoesOn(r)
      /\ r.transportState = w.transportState /\ r.closeRequest = w.closeRequest
      /\ r.outcomes = w.outcomes /\ r.lifecycle # <<>>
  <2>1. Edge(s, w, "TransportOpened", "None")
    BY <1>2, <1>5, <1>6 DEF Edge
  <2> QED
    BY SMTT(30), <1>1, <1>3, <1>4, <2>1, TellDuring
<1> HIDE DEF r
<1>8. Moves(s, r)
  BY <1>2, <1>7 DEF Moves, Connecting
<1> QED
  BY <1>7, <1>8 DEF Yields, r, w

LEMMA OpenAdmissionYields ==
  ASSUME NEW P, NEW C, NEW D \in Seq(Outcomes), NEW O \in Seq(Events),
         NEW s, Ready(s, P, C, D, O), Reading(s), s.transportState = "Open",
         Interpret(s, OnOpenAdmission(s.machine)).machine # s.machine
  PROVE  Yields(s, PublishEvent(Interpret(s, OnOpenAdmission(s.machine)), "AdmissionOpened", "None"),
                P, C, D, O)
<1> DEFINE m == s.machine
           t == OnOpenAdmission(m)
           i == Interpret(s, t)
           r == PublishEvent(i, "AdmissionOpened", "None")
<1>1. /\ s \in Slots /\ Running(s) /\ Logged(s, O) /\ Owned(s, P) /\ Fated(s, P, C, D) /\ Placed(s)
      /\ DrainTimed(s)
  BY DEF Ready
<1>2. /\ m \in Machine /\ Books(m, P) /\ Sound(m) /\ DrainWaits(m) /\ Roomy(s, P)
      /\ DOMAIN s.wire = HeldOperations(m) /\ Fronted(m, s.written)
      /\ s.timers = {x \in Timed(m.pending) : x[1] \notin {}}
  BY <1>1, SlotFields DEF Owned
<1> HIDE DEF m
<1>3. /\ Handles(m, P, t, {})
      /\ t.machine # m => m.phase = "Live" /\ m.gate = "SessionOnly" /\ t.machine = [m EXCEPT !.gate = "Open"]
  BY <1>2, GateHandles
<1> HIDE DEF t
<1>4. t.machine \in Machine /\ Narrows(m, t.machine) /\ t.machine.nextOperation = m.nextOperation
  BY <1>3 DEF Handles, Transitions
<1>5. Fronted(t.machine, WrittenAfter(s, t.machine))
  BY <1>2, <1>4, FrontedAfter DEF m
<1>6. PICK w, q : /\ Ran(s, t, w, q) /\ Owned(w, P)
                  /\ TellsOf(q) \subseteq Live(m.pending)
                  /\ Live(t.machine.pending) = Live(m.pending) \ TellsOf(q)
  <2> DEFINE fired == {}
  <2>1. Handles(m, P, t, fired) /\ s.timers = {x \in Timed(m.pending) : x[1] \notin fired}
    BY <1>2, <1>3
  <2> HIDE DEF fired
  <2> QED
    BY <1>1, <1>2, <1>5, <2>1, InterpretKeeps DEF m
<1>7. /\ w \in Slots /\ w.machine = t.machine /\ q \in Seq(Outcomes) /\ Distinct(q)
      /\ w.outcomes = s.outcomes \o q /\ Carries(s, w) /\ Stays(s, w)
      /\ i = IF m.phase = "Live" /\ t.machine.phase = "Closing"
             THEN FinishClose(w, t.machine.closeReason) ELSE w
  BY <1>6 DEF Ran, PublishedTo, m
<1>8. Fated(w, P, C, D)
  BY <1>1, <1>4, <1>6, <1>7, FatedAfter DEF m
<1>9. /\ m.phase = "Live" /\ m.gate = "SessionOnly" /\ t.machine = [m EXCEPT !.gate = "Open"] /\ i = w
  <2>1. CASE t.machine = m
    <3>1. m.phase # "Closing"
      BY <1>1 DEF Placed, m
    <3>2. i = w
      BY <1>7, <2>1, <3>1
    <3> QED
      BY <1>7, <2>1, <3>2 DEF i, t, m
  <2>2. CASE t.machine # m
    BY <1>2, <1>3, <1>7, <2>2 DEF Machine
  <2> QED
    BY <2>1, <2>2
<1>10. /\ w.transportState = "Open" /\ w.closeRequest = s.closeRequest /\ w.owner = s.owner
       /\ w.drainDeadline = s.drainDeadline /\ w.decoder = s.decoder
       /\ w.decoderPending = s.decoderPending
       /\ w.lifecycle = s.lifecycle /\ w.recoveryEvents = s.recoveryEvents
       /\ w.eventSequence = s.eventSequence
       /\ w.machine.phase = m.phase /\ w.machine.closeReason = m.closeReason /\ w.machine.gate = "Open"
  BY <1>2, <1>7, <1>9 DEF Carries, Stays, Machine
<1>11. Running(w) /\ Placed(w) /\ DrainTimed(w) /\ Reading(w)
  BY <1>1, <1>9, <1>10 DEF Running, Placed, DrainTimed, Reading, Connecting, CanRead, m
<1>12. Stage(s) = 1 /\ Stage(w) = 2
  BY <1>9, <1>10 DEF Stage, m
<1>13. "AdmissionOpened" \in {"TransportOpened", "AdmissionOpened", "Closed"} /\ "None" \in CloseReasons
  BY DEF CloseReasons
<1>14. w.machine.closeReason = s.machine.closeReason /\ r = PublishEvent(w, "AdmissionOpened", "None")
  BY <1>9, <1>10 DEF m
<1> HIDE DEF r, i
<1>15. /\ During(r, P, C, D, O) /\ GoesOn(r)
       /\ r.transportState = w.transportState /\ r.closeRequest = w.closeRequest
       /\ r.outcomes = w.outcomes /\ r.lifecycle # <<>>
  <2>1. Edge(s, w, "AdmissionOpened", "None")
    BY <1>10, <1>12, <1>13, <1>14 DEF Edge
  <2> QED
    BY <1>1, <1>6, <1>8, <1>11, <1>14, <2>1, TellDuring
<1>16. s.outcomes # <<>> => w.outcomes # <<>>
  <2>1. \A a, b \in Seq(Outcomes) : a # <<>> => a \o b # <<>>
    OBVIOUS
  <2>2. s.outcomes \in Seq(Outcomes)
    BY <1>1, SlotFields
  <2> QED
    BY <1>7, <2>1, <2>2
<1>17. Moves(s, r)
  BY <1>10, <1>15, <1>16 DEF Moves
<1> QED
  BY <1>15, <1>17 DEF Yields, r, i, t, m

LEMMA CancelYields ==
  ASSUME NEW P, NEW C, NEW D \in Seq(Outcomes), NEW O \in Seq(Events),
         NEW s, Ready(s, P, C, D, O), Reading(s), NEW operation
  PROVE  Yields(s, Interpret(s, OnCancel(s.machine, operation)), P, C, D, O)
<1> DEFINE m == s.machine
           t == OnCancel(m, operation)
           reasons == {}
<1>1. m \in Machine /\ Sound(m) /\ DrainWaits(m) /\ Books(m, P)
  BY SlotFields DEF Ready, Owned
<1> HIDE DEF m
<1>2. Handles(m, P, t, {}) /\ Course(m, t.machine, {}, {})
  BY <1>1, OnCancelHandles
<1> HIDE DEF t
<1>3. Rests(s, t) /\ Course(m, t.machine, reasons, {}) /\ Closable(s, reasons)
  BY <1>2 DEF Rests, Closable
<1> HIDE DEF reasons
<1> QED
  BY <1>2, <1>3, HandlerYields DEF m, t

\* begin_drain records its deadline before the transition is interpreted.
LEMMA BeginDrainYields ==
  ASSUME NEW P, NEW C, NEW D \in Seq(Outcomes), NEW O \in Seq(Events),
         NEW s, Ready(s, P, C, D, O), Reading(s), NEW deadline \in Moments,
         OnBeginDrain(s.machine).machine # s.machine
  PROVE  Yields(s, Interpret([s EXCEPT !.drainDeadline = deadline], OnBeginDrain(s.machine)), P, C, D, O)
<1> DEFINE m == s.machine
           t == OnBeginDrain(m)
           n == [s EXCEPT !.drainDeadline = deadline]
           r == Interpret(n, t)
<1>1. /\ s \in Slots /\ Running(s) /\ Logged(s, O) /\ Owned(s, P) /\ Fated(s, P, C, D) /\ Placed(s)
  BY DEF Ready
<1>2. /\ m \in Machine /\ Books(m, P) /\ Sound(m) /\ DrainWaits(m) /\ Roomy(s, P)
      /\ DOMAIN s.wire = HeldOperations(m) /\ Fronted(m, s.written) /\ s.timers = Timed(m.pending)
      /\ s.transportState \in TransportStates
  BY <1>1, SlotFields DEF Owned
<1>3. deadline \in 0..Never /\ deadline # Never
  BY ClockAssumption DEF Never
<1>4. /\ n \in Slots /\ Holding(s, n) /\ n.recoveryOutcomes = s.recoveryOutcomes
      /\ n.transportState = s.transportState /\ n.closeRequest = s.closeRequest
      /\ n.drainDeadline = deadline /\ n.owner = s.owner /\ n.machine = m
      /\ n.lifecycle = s.lifecycle /\ n.recoveryEvents = s.recoveryEvents
      /\ n.eventSequence = s.eventSequence /\ n.outcomes = s.outcomes
      /\ n.decoder = s.decoder /\ n.decoderPending = s.decoderPending
      /\ n.timers = s.timers /\ n.wire = s.wire /\ n.written = s.written
  BY <1>1, <1>3 DEF Slots, Holding
<1> HIDE DEF n
<1> HIDE DEF m
<1>5. /\ Handles(m, P, t, {}) /\ Course(m, t.machine, {}, {"Draining"})
      /\ t.machine # m => m.phase = "Live"
  BY <1>2, GateHandles
<1> HIDE DEF t
<1>6. m.phase = "Live" /\ s.transportState \in {"Connecting", "Open"}
  <2>1. m.phase = "Live"
    BY <1>5 DEF t, m
  <2> QED
    BY <1>1, <1>2, <2>1 DEF Placed, TransportStates, m
<1>7. Running(n) /\ Placed(n) /\ Reading(n)
  BY <1>1, <1>4, <1>6 DEF Running, Placed, Reading, Connecting, CanRead, m
<1>8. Logged(n, O)
  <2>1. LogOf(n, O) = LogOf(s, O) /\ Stage(n) = Stage(s)
    BY <1>4 DEF LogOf, Stage, m
  <2> QED
    BY <1>1, <1>4, <2>1 DEF Logged, Running, m
<1>9. Fated(n, P, C, D) /\ Owned(n, P)
  BY <1>1, <1>4, HeldFated, HeldOwned
<1>10. Fronted(t.machine, WrittenAfter(n, t.machine))
  <2>1. t.machine \in Machine /\ Narrows(m, t.machine)
    BY <1>5 DEF Handles, Transitions
  <2>2. Fronted(n.machine, n.written) /\ n.machine \in Machine /\ Narrows(n.machine, t.machine)
    BY <1>2, <1>4, <2>1
  <2> QED
    BY <2>1, <2>2, FrontedAfter
<1> DEFINE reasons == {}
           gates == {"Draining"}
           fired == {}
<1>11. /\ Closable(n, reasons) /\ Course(n.machine, t.machine, reasons, gates)
       /\ gates \in SUBSET {"Open", "Draining"} /\ Handles(n.machine, P, t, fired)
       /\ n.timers = {x \in Timed(n.machine.pending) : x[1] \notin fired}
       /\ Rests(n, t)
  BY <1>2, <1>4, <1>5, <1>7 DEF Closable, Rests
<1>12. /\ Books(n.machine, P) /\ Sound(n.machine) /\ Roomy(n, P) /\ DOMAIN n.wire = HeldOperations(n.machine)
       /\ n.drainDeadline # Never /\ r = Interpret(n, t)
  BY <1>2, <1>3, <1>4, <1>9 DEF Owned
<1> HIDE DEF reasons, gates, fired, r
<1>13. During(r, P, C, D, O) /\ Moves(n, r) /\ GoesOn(r)
  BY <1>4, <1>7, <1>8, <1>9, <1>10, <1>11, <1>12, InterpretDuring
<1>14. Moves(s, r)
  BY <1>4, <1>13 DEF Moves, ShuttingDown
<1> QED
  BY <1>13, <1>14 DEF Yields, r, n, t, m

\* The drain deadline is taken before the close is requested.
LEMMA DrainElapsesYields ==
  ASSUME NEW P, NEW C, NEW D \in Seq(Outcomes), NEW O \in Seq(Events),
         NEW s, Ready(s, P, C, D, O), s.drainDeadline # Never
  PROVE  Yields(s, CloseFor([s EXCEPT !.drainDeadline = Never], "Requested"), P, C, D, O)
<1> DEFINE m == s.machine
           t == CloseInto(Transition(m), "Requested", {})
           n == [s EXCEPT !.drainDeadline = Never]
           r == Interpret(n, t)
<1>1. /\ s \in Slots /\ Running(s) /\ Logged(s, O) /\ Owned(s, P) /\ Fated(s, P, C, D) /\ Placed(s)
  BY DEF Ready
<1>2. /\ m \in Machine /\ Books(m, P) /\ Sound(m) /\ DrainWaits(m) /\ Roomy(s, P)
      /\ DOMAIN s.wire = HeldOperations(m) /\ Fronted(m, s.written) /\ s.timers = Timed(m.pending)
      /\ s.transportState \in TransportStates
  BY <1>1, SlotFields DEF Owned
<1>3. /\ n \in Slots /\ Holding(s, n) /\ n.recoveryOutcomes = s.recoveryOutcomes
      /\ n.transportState = s.transportState /\ n.closeRequest = s.closeRequest
      /\ n.owner = s.owner /\ n.machine = m
      /\ n.lifecycle = s.lifecycle /\ n.recoveryEvents = s.recoveryEvents
      /\ n.eventSequence = s.eventSequence /\ n.outcomes = s.outcomes
      /\ n.decoder = s.decoder /\ n.decoderPending = s.decoderPending
      /\ n.timers = s.timers /\ n.wire = s.wire /\ n.written = s.written
  BY <1>1, RequestsAre DEF Slots, Holding
<1>4. m.phase = "Live" /\ s.transportState \in {"Connecting", "Open"}
  BY <1>1, <1>2 DEF Placed, TransportStates
<1>5. CloseFor(n, "Requested") = r
  BY <1>3 DEF CloseFor, OnCloseRequested
<1> HIDE DEF n, m
<1>6. /\ Handles(m, P, t, {}) /\ Course(m, t.machine, {"Requested"}, {})
      /\ m.phase = "Live" => t.machine.phase = "Closing" /\ t.machine.closeReason = "Requested"
  <2>1. "Requested" \in CloseReasons
    BY DEF CloseReasons, ExternalReasons
  <2> QED
    BY ZenonT(40), <1>2, <2>1, CloseHandles
<1> HIDE DEF t
<1>7. Running(n) /\ Placed(n)
  BY <1>1, <1>3, <1>4 DEF Running, Placed, m
<1>8. Logged(n, O)
  <2>1. LogOf(n, O) = LogOf(s, O) /\ Stage(n) = Stage(s)
    BY <1>3 DEF LogOf, Stage, m
  <2> QED
    BY <1>1, <1>3, <2>1 DEF Logged, Running, m
<1>9. Fated(n, P, C, D) /\ Owned(n, P)
  BY <1>1, <1>3, HeldFated, HeldOwned
<1>10. Fronted(t.machine, WrittenAfter(n, t.machine))
  <2>1. t.machine \in Machine /\ Narrows(m, t.machine)
    BY <1>6 DEF Handles, Transitions
  <2>2. Fronted(n.machine, n.written) /\ n.machine \in Machine /\ Narrows(n.machine, t.machine)
    BY <1>2, <1>3, <2>1
  <2> QED
    BY <2>1, <2>2, FrontedAfter
<1> DEFINE reasons == {"Requested"}
           gates == {}
           fired == {}
<1>11. /\ Closable(n, reasons) /\ Course(n.machine, t.machine, reasons, gates)
       /\ gates \in SUBSET {"Open", "Draining"} /\ Handles(n.machine, P, t, fired)
       /\ n.timers = {x \in Timed(n.machine.pending) : x[1] \notin fired}
       /\ Rests(n, t)
  BY <1>2, <1>3, <1>4, <1>6 DEF Closable, Rests, CloseReasons, ExternalReasons, AfterOpen, BeforeOpen
<1>12. /\ Books(n.machine, P) /\ Sound(n.machine) /\ Roomy(n, P) /\ DOMAIN n.wire = HeldOperations(n.machine)
       /\ t.machine.phase # "Live" /\ t.machine.closeReason # "Drained" /\ r = Interpret(n, t)
  BY <1>2, <1>3, <1>4, <1>6, <1>9 DEF Owned
<1> HIDE DEF reasons, gates, fired, r
<1>13. During(r, P, C, D, O) /\ Moves(n, r) /\ GoesOn(r)
  BY <1>3, <1>7, <1>8, <1>9, <1>10, <1>11, <1>12, InterpretDuring
<1>14. Moves(s, r)
  BY <1>3, <1>13 DEF Moves, ShuttingDown
<1> QED
  BY <1>5, <1>13, <1>14 DEF Yields, n

\* The timer leaves the index before its deadline is handled.
LEMMA OperationElapsesYields ==
  ASSUME NEW P, NEW C, NEW D \in Seq(Outcomes), NEW O \in Seq(Events),
         NEW s, Ready(s, P, C, D, O), Reading(s), NEW timer \in s.timers, NEW at
  PROVE  Yields(s, Interpret([s EXCEPT !.timers = @ \ {timer}],
                             OnDeadlineElapsed(s.machine, timer[1], at)), P, C, D, O)
<1> DEFINE m == s.machine
           operation == timer[1]
           t == OnDeadlineElapsed(m, operation, at)
           n == [s EXCEPT !.timers = @ \ {timer}]
           r == Interpret(n, t)
           reasons == IF Connecting(s) THEN {} ELSE {"DeadlineAfterPossibleSend"}
<1>1. /\ s \in Slots /\ Running(s) /\ Logged(s, O) /\ Owned(s, P) /\ Fated(s, P, C, D) /\ Placed(s)
      /\ DrainTimed(s)
  BY DEF Ready
<1>2. /\ m \in Machine /\ Books(m, P) /\ Sound(m) /\ DrainWaits(m) /\ Roomy(s, P)
      /\ DOMAIN s.wire = HeldOperations(m) /\ Fronted(m, s.written) /\ s.timers = Timed(m.pending)
      /\ s.transportState \in TransportStates /\ s.timers \subseteq Operations \X Moments
  BY <1>1, SlotFields DEF Owned
<1>3. /\ n \in Slots /\ n.recoveryOutcomes = s.recoveryOutcomes
      /\ n.transportState = s.transportState /\ n.closeRequest = s.closeRequest
      /\ n.owner = s.owner /\ n.machine = m /\ n.drainDeadline = s.drainDeadline
      /\ n.lifecycle = s.lifecycle /\ n.recoveryEvents = s.recoveryEvents
      /\ n.eventSequence = s.eventSequence /\ n.outcomes = s.outcomes
      /\ n.decoder = s.decoder /\ n.decoderPending = s.decoderPending
      /\ n.timers = s.timers \ {timer} /\ n.wire = s.wire /\ n.written = s.written
  BY <1>1, <1>2 DEF Slots
<1>4. \A i \in DOMAIN m.pending : m.pending[i].delivery = "PossiblySent" => "DeadlineAfterPossibleSend" \in reasons
  BY DEF Reading
<1>5. Closable(s, reasons)
  BY DEF Closable, AfterOpen, BeforeOpen, CloseReasons
<1> HIDE DEF n, m, operation, reasons
<1>6. Handles(m, P, t, {operation}) /\ Course(m, t.machine, reasons, {})
  BY <1>2, <1>4, OnDeadlineElapsedHandles
<1> HIDE DEF t
<1>7. Running(n) /\ Placed(n) /\ Reading(n)
  BY <1>1, <1>3 DEF Running, Placed, Reading, Connecting, CanRead, m
<1>8. Logged(n, O)
  <2>1. LogOf(n, O) = LogOf(s, O) /\ Stage(n) = Stage(s)
    BY <1>3 DEF LogOf, Stage, m
  <2> QED
    BY <1>1, <1>3, <2>1 DEF Logged, Running, m
<1>9. Fated(n, P, C, D) /\ Roomy(n, P)
  BY <1>1, <1>2, <1>3 DEF Fated, Roomy, m
<1>10. Fronted(t.machine, WrittenAfter(n, t.machine))
  <2>1. t.machine \in Machine /\ Narrows(m, t.machine)
    BY <1>6 DEF Handles, Transitions
  <2>2. Fronted(n.machine, n.written) /\ n.machine \in Machine /\ Narrows(n.machine, t.machine)
    BY <1>2, <1>3, <2>1
  <2> QED
    BY <2>1, <2>2, FrontedAfter
<1> DEFINE gates == {}
           fired == {operation}
<1>11. n.timers = {x \in Timed(n.machine.pending) : x[1] \notin fired}
  <2>1. m.pending \in Seq(OperationRecord) /\ Distinct(m.pending)
    BY <1>2, MachineFields DEF Sound
  <2>2. \A x, y \in Timed(m.pending) : x[1] = y[1] => x = y
    BY <2>1, TimedCounted
  <2> QED
    BY <1>2, <1>3, <2>2 DEF operation
<1>12. /\ Closable(n, reasons) /\ Course(n.machine, t.machine, reasons, gates)
       /\ gates \in SUBSET {"Open", "Draining"} /\ Handles(n.machine, P, t, fired)
       /\ Rests(n, t)
  BY <1>3, <1>5, <1>6, <1>7 DEF Closable, Rests, Connecting
<1>13. /\ Books(n.machine, P) /\ Sound(n.machine) /\ DOMAIN n.wire = HeldOperations(n.machine)
       /\ r = Interpret(n, t)
       /\ t.machine.phase = "Live" /\ t.machine.gate = "Draining" => n.drainDeadline # Never
       /\ t.machine.phase = "Closing" /\ t.machine.closeReason = "Drained" /\ n.machine.phase = "Live"
            => n.drainDeadline # Never
  BY <1>1, <1>2, <1>3, <1>5, <1>6 DEF DrainTimed, Course, Closable, m
<1> HIDE DEF gates, fired, r
<1>14. During(r, P, C, D, O) /\ Moves(n, r) /\ GoesOn(r)
  BY <1>3, <1>7, <1>8, <1>9, <1>10, <1>11, <1>12, <1>13, InterpretDuring
<1>15. Moves(s, r)
  BY <1>3, <1>14 DEF Moves, ShuttingDown
<1> QED
  BY <1>14, <1>15 DEF Yields, r, n, t, m, operation

(***************************************************************************)
(* Decoding.                                                               *)
(***************************************************************************)
LEMMA OpenCloses ==
  ASSUME NEW P, NEW C, NEW D \in Seq(Outcomes), NEW O \in Seq(Events),
         NEW s, Ready(s, P, C, D, O), ~Connecting(s)
  PROVE  /\ Yields(s, CloseFor(s, "TransportLost"), P, C, D, O)
         /\ Yields(s, CloseFor(s, "InboundRetainedCapacity"), P, C, D, O)
         /\ Yields(s, CloseMalformed(s), P, C, D, O)
         /\ \A error : Yields(s, CloseDecodeError(s, error), P, C, D, O)
<1>1. ASSUME NEW reason \in {"TransportLost", "InboundRetainedCapacity", "MalformedReply"}
      PROVE  Yields(s, Interpret(s, CloseInto(Transition(s.machine), reason, {})), P, C, D, O)
  <2>1. Closable(s, {reason})
    BY DEF Closable, BeforeOpen, CloseReasons, ExternalReasons
  <2> QED
    BY <2>1, CloseYields
<1>2. /\ Yields(s, CloseFor(s, "TransportLost"), P, C, D, O)
      /\ Yields(s, CloseFor(s, "InboundRetainedCapacity"), P, C, D, O)
      /\ Yields(s, CloseMalformed(s), P, C, D, O)
  BY <1>1 DEF CloseFor, OnCloseRequested, CloseMalformed, OnReplyMalformed
<1> QED
  BY <1>2 DEF CloseDecodeError

LEMMA ValidateRetainedGives ==
  ASSUME NEW d \in Driver, ~d.failed, NEW frame, NEW result, result = ValidateRetained(d, frame)
  PROVE  /\ result.driver \in Driver /\ result.frame \in {frame, NoFrame}
         /\ result.error = "None" => ~result.driver.failed
BY DEF ValidateRetained, DriverResult, Driver

LEMMA DriverGives ==
  ASSUME NEW d \in Driver, NEW n \in Nat
  PROVE  \A result \in NextFrame(d) \cup Feed(d, n) :
           /\ result.driver \in Driver
           /\ result.frame \in Replies \cup {NoFrame}
           /\ result.error = "None" => ~result.driver.failed
<1> SUFFICES ASSUME NEW result \in NextFrame(d) \cup Feed(d, n)
             PROVE  /\ result.driver \in Driver
                    /\ result.frame \in Replies \cup {NoFrame}
                    /\ result.error = "None" => ~result.driver.failed
  OBVIOUS
<1>1. CASE \E error \in {"DecoderFailed", "RetainedByteCapacity"} : result = DriverResult(d, error, NoFrame)
  BY <1>1 DEF DriverResult
<1>2. CASE result \in Malformed(d)
  <2>1. result = DriverResult([d EXCEPT !.failed = TRUE], "Decoder", NoFrame)
    BY <1>2, Zenon DEF Malformed
  <2>2. [d EXCEPT !.failed = TRUE] \in Driver
    BY DEF Driver
  <2>3. /\ result.driver = [d EXCEPT !.failed = TRUE] /\ result.error = "Decoder"
        /\ result.frame = NoFrame
    BY <2>1 DEF DriverResult
  <2> QED
    BY <2>2, <2>3
<1>3. CASE ~d.failed /\ \E r \in Nat, frame \in Replies \cup {NoFrame} :
                          result = ValidateRetained([d EXCEPT !.retained = r], frame)
  <2>1. PICK r \in Nat, frame \in Replies \cup {NoFrame} :
               result = ValidateRetained([d EXCEPT !.retained = r], frame)
    BY <1>3
  <2>2. [d EXCEPT !.retained = r] \in Driver /\ ~[d EXCEPT !.retained = r].failed
    BY <1>3 DEF Driver
  <2> QED
    BY <2>1, <2>2, ValidateRetainedGives
<1>4. ASSUME ~d.failed PROVE d.retained \in Nat /\ [d EXCEPT !.retained = d.retained] = d
  BY DEF Driver
<1>5. Misreports \subseteq Nat
  BY DecoderAssumption DEF Misreports
<1>6. CASE result \in NextFrame(d)
  <2>1. CASE ~d.failed /\ result = ValidateRetained(d, NoFrame)
    BY <1>3, <1>4, <2>1
  <2>2. CASE /\ ~d.failed
             /\ \E r \in 0..(d.retained - 1) \cup Misreports, frame \in Replies :
                  result = ValidateRetained([d EXCEPT !.retained = r], frame)
    <3>1. 0..(d.retained - 1) \cup Misreports \subseteq Nat
      BY <1>4, <1>5, <2>2
    <3> QED
      BY <1>3, <2>2, <3>1
  <2> QED
    BY <1>1, <1>2, <1>6, <2>1, <2>2 DEF NextFrame
<1>7. CASE result \in Feed(d, n)
  <2>1. CASE /\ ~d.failed
             /\ \E r \in {d.retained + n} \cup Misreports :
                  result = ValidateRetained([d EXCEPT !.retained = r], NoFrame)
    <3>1. {d.retained + n} \cup Misreports \subseteq Nat
      BY <1>4, <1>5, <2>1
    <3> QED
      BY <1>3, <2>1, <3>1
  <2> QED
    BY <1>1, <1>2, <1>7, <2>1 DEF Feed
<1> QED
  BY <1>6, <1>7

\* Only the decoder and its flag change.
LEMMA DecoderSet ==
  ASSUME NEW s \in Slots, NEW d \in Driver, NEW pending \in BOOLEAN
  PROVE  /\ Redecoded(s, [s EXCEPT !.decoder = d, !.decoderPending = pending])
         /\ Redecoded(s, [s EXCEPT !.decoder = d])
         /\ [[s EXCEPT !.decoder = d] EXCEPT !.decoderPending = pending]
              = [s EXCEPT !.decoder = d, !.decoderPending = pending]
BY DEF Redecoded, Slots, Holding, Stays

LEMMA DecodedYields ==
  ASSUME NEW P, NEW C, NEW D \in Seq(Outcomes), NEW O \in Seq(Events),
         NEW s, Ready(s, P, C, D, O), Reading(s), s.decoderPending, NEW result \in NextFrame(s.decoder)
  PROVE  Yields(s, Decoded(s, result), P, C, D, O)
<1> DEFINE next == [s EXCEPT !.decoder = result.driver]
           quiet == [s EXCEPT !.decoder = result.driver, !.decoderPending = FALSE]
<1>1. s \in Slots /\ s.decoder \in Driver /\ ~Connecting(s) /\ s.decoderPending \in BOOLEAN
  BY SlotFields DEF Ready, Reading
<1>2. /\ result.driver \in Driver /\ result.frame \in Replies \cup {NoFrame}
      /\ result.error = "None" => ~result.driver.failed
  <2>1. 0 \in Nat
    OBVIOUS
  <2> QED
    BY <1>1, <2>1, DriverGives
<1>3. /\ Redecoded(s, next) /\ Redecoded(s, quiet)
      /\ [next EXCEPT !.decoderPending = FALSE] = quiet
  BY <1>1, <1>2, DecoderSet
<1>4. /\ next.decoderPending /\ next.decoder = result.driver /\ next.transportState = s.transportState
      /\ next.machine = s.machine
      /\ quiet.decoder = result.driver /\ quiet.transportState = s.transportState
  BY <1>1 DEF Slots
<1>5. Decoded(s, result) =
        IF result.error # "None" THEN CloseDecodeError(quiet, result.error)
        ELSE IF result.frame = NoFrame
        THEN (IF result.driver.retained >= DecoderBytes
              THEN CloseFor(quiet, "InboundRetainedCapacity") ELSE quiet)
        ELSE IF result.frame.bytes > ReplyBytes THEN CloseFor(next, "InboundRetainedCapacity")
        ELSE IF result.frame.key \notin Keys THEN CloseMalformed(next)
        ELSE Interpret(next, OnReply(next.machine, result.frame.key, result.frame.bytes))
  BY <1>3, <1>4 DEF Decoded, DecoderDrained
<1> HIDE DEF next, quiet
<1>6. ~Connecting(next) /\ ~Connecting(quiet)
  BY <1>1, <1>4 DEF Connecting
<1>7. /\ Ready(next, P, C, D, O) /\ Ready(quiet, P, C, D, O)
      /\ \A r : Yields(next, r, P, C, D, O) \/ Yields(quiet, r, P, C, D, O) => Yields(s, r, P, C, D, O)
      /\ Reading(quiet) => Yields(s, quiet, P, C, D, O)
  BY <1>3, RedecodedReady
<1>8. /\ Yields(next, CloseFor(next, "InboundRetainedCapacity"), P, C, D, O)
      /\ Yields(next, CloseMalformed(next), P, C, D, O)
      /\ Yields(quiet, CloseFor(quiet, "InboundRetainedCapacity"), P, C, D, O)
      /\ \A error : Yields(quiet, CloseDecodeError(quiet, error), P, C, D, O)
  BY <1>6, <1>7, OpenCloses
<1>9. ASSUME result.error = "None", ~(result.driver.retained >= DecoderBytes) PROVE Reading(quiet)
  <2>1. result.driver.retained < DecoderBytes /\ ~result.driver.failed
    BY <1>2, <1>9, DecoderAssumption DEF Driver
  <2> QED
    BY <1>4, <1>6, <2>1 DEF Reading, CanRead
<1>10. ASSUME result.frame # NoFrame, ~(result.frame.bytes > ReplyBytes)
       PROVE  Yields(next, Interpret(next, OnReply(next.machine, result.frame.key, result.frame.bytes)),
                     P, C, D, O)
  <2> DEFINE m == next.machine
             reply == result.frame.bytes
             key == result.frame.key
             t == OnReply(m, key, reply)
             reasons == {"UnexpectedReply", "MatchKeyMismatch"}
  <2>1. reply \in Nat /\ reply <= ReplyBytes
    BY <1>2, <1>10, DecoderAssumption, SlotAssumption
  <2>2. m \in Machine /\ Sound(m) /\ DrainWaits(m) /\ Books(m, P)
    BY <1>7, SlotFields DEF Ready, Owned
  <2> HIDE DEF m, reply, key
  <2>3. Handles(m, P, t, {}) /\ Course(m, t.machine, reasons, {})
    BY <2>1, <2>2, OnReplyHandles
  <2>4. Closable(next, reasons)
    BY <1>6 DEF Closable, BeforeOpen, CloseReasons
  <2>5. Rests(next, t)
    BY <1>4, <1>6 DEF Rests, Reading, CanRead
  <2> HIDE DEF t, reasons
  <2> QED
    BY <1>7, <2>3, <2>4, <2>5, HandlerYields DEF m, t, reply, key
<1> QED
  BY <1>5, <1>7, <1>8, <1>9, <1>10

(***************************************************************************)
(* Reading and writing.                                                    *)
(***************************************************************************)
LEMMA FedYields ==
  ASSUME NEW P, NEW C, NEW D \in Seq(Outcomes), NEW O \in Seq(Events),
         NEW s, Ready(s, P, C, D, O), Reading(s), ~Connecting(s), NEW n \in Nat,
         NEW result \in Feed(s.decoder, n), NEW fed, fed = [s EXCEPT !.decoder = result.driver]
  PROVE  Yields(s, IF result.error = "None" THEN [fed EXCEPT !.decoderPending = TRUE]
                   ELSE CloseDecodeError(fed, result.error), P, C, D, O)
<1> DEFINE pending == [s EXCEPT !.decoder = result.driver, !.decoderPending = TRUE]
<1>1. s \in Slots /\ s.decoder \in Driver
  BY SlotFields DEF Ready
<1>2. result.driver \in Driver
  BY <1>1, DriverGives
<1>3. Redecoded(s, fed) /\ Redecoded(s, pending) /\ [fed EXCEPT !.decoderPending = TRUE] = pending
  BY <1>1, <1>2, DecoderSet
<1>4. /\ pending.decoderPending /\ pending.transportState = s.transportState
      /\ fed.transportState = s.transportState
  BY <1>1 DEF Slots
<1> HIDE DEF pending
<1>5. /\ Ready(fed, P, C, D, O)
      /\ \A r : Yields(fed, r, P, C, D, O) => Yields(s, r, P, C, D, O)
      /\ Reading(pending) => Yields(s, pending, P, C, D, O)
  BY <1>3, RedecodedReady
<1>6. Reading(pending) /\ ~Connecting(fed)
  BY <1>4 DEF Reading, Connecting, CanRead
<1>7. \A error : Yields(fed, CloseDecodeError(fed, error), P, C, D, O)
  BY <1>5, <1>6, OpenCloses
<1> QED
  BY <1>3, <1>5, <1>6, <1>7

\* The front frame has its first byte taken: the machine before its completion.
Starts(m, b, written, n) ==
  b = IF n > 0 /\ written = 0 THEN WriteStarted(m, FrontHeld(m)) ELSE m

Began(m, b, P) ==
  /\ b \in Machine /\ Books(b, P) /\ Sound(b) /\ DrainWaits(b)
  /\ Timed(b.pending) = Timed(m.pending) /\ Live(b.pending) = Live(m.pending)
  /\ b.phase = m.phase /\ b.gate = m.gate /\ b.closeReason = m.closeReason
  /\ b.nextOperation = m.nextOperation
  /\ HeldPositions(b) = HeldPositions(m) /\ HeldOperations(b) = HeldOperations(m)
  /\ FrontHeld(b) = FrontHeld(m)
  /\ Holds(b.pending, FrontHeld(m)) /\ RecordOf(b, FrontHeld(m)).writeHeld

LEMMA FrontBegins ==
  ASSUME NEW m \in Machine, Sound(m), DrainWaits(m), NEW P, Books(m, P), HeldPositions(m) # {},
         NEW written \in Nat, Fronted(m, written), NEW n \in Nat, NEW b, Starts(m, b, written, n)
  PROVE  /\ Began(m, b, P)
         /\ \A i \in HeldPositions(b) : b.pending[i].delivery = "PossiblySent" =>
              b.pending[i].operation = FrontHeld(m) /\ written + n > 0
<1> DEFINE operation == FrontHeld(m)
           i == IndexOf(m.pending, operation)
           k == Min(HeldPositions(m))
<1>1. /\ m.pending \in Seq(OperationRecord) /\ Distinct(m.pending)
      /\ \A j \in DOMAIN m.pending : m.pending[j] \in OperationRecord /\ RecordSound(m.pending[j])
  BY MachineFields DEF Sound
<1>2. /\ k \in HeldPositions(m) /\ k \in DOMAIN m.pending /\ operation = m.pending[k].operation
      /\ m.pending[k].writeHeld /\ Holds(m.pending, operation)
  BY HeldAre DEF HeldPositions
<1>3. i = k
  <2>1. i \in DOMAIN m.pending /\ m.pending[i].operation = operation
    BY <1>2, IndexOfType
  <2> QED
    BY <1>1, <1>2, <2>1 DEF Distinct
<1>4. RecordOf(m, operation) = m.pending[k]
  BY <1>3 DEF RecordOf
<1>5. CASE ~(n > 0 /\ written = 0)
  <2>1. b = m
    BY <1>5 DEF Starts
  <2>2. \A j \in HeldPositions(m) : m.pending[j].delivery = "PossiblySent" =>
          m.pending[j].operation = FrontHeld(m) /\ written + n > 0
    BY DEF Fronted
  <2> QED
    BY <1>2, <1>4, <2>1, <2>2 DEF Began
<1>6. CASE n > 0 /\ written = 0
  <2> DEFINE record == m.pending[k]
             started == [record EXCEPT !.delivery = "PossiblySent", !.phase = "Writing"]
  <2>1. b = WriteStarted(m, operation)
    BY <1>6 DEF Starts
  <2>2. b \in Machine /\ Books(b, P) /\ Timed(b.pending) = Timed(m.pending) /\ DrainWaits(b)
    BY <1>2, <2>1, WriteStartedBooks, WriteStartedType
  <2>3. /\ b.phase = m.phase /\ b.gate = m.gate /\ b.closeReason = m.closeReason
        /\ b.nextOperation = m.nextOperation
    BY <2>1 DEF WriteStarted, SetRecord, Machine
  <2>4. b.pending = [m.pending EXCEPT ![k] = started]
    BY <1>3, <1>4, <2>1, MarkedPending DEF WriteStarted
  <2>5. record.phase = "Queued" /\ record.delivery = "NotSent"
    <3>1. record.delivery # "PossiblySent"
      BY <1>2, <1>6 DEF Fronted
    <3> QED
      BY <1>1, <1>2, <3>1 DEF RecordSound, OperationRecord, Deliveries
  <2>6. /\ started.operation = record.operation /\ started.writeHeld = record.writeHeld
        /\ started.phase = "Writing" /\ started.delivery = "PossiblySent"
    BY <1>1, <1>2 DEF OperationRecord
  <2>7. /\ DOMAIN b.pending = DOMAIN m.pending
        /\ \A j \in DOMAIN m.pending :
             b.pending[j] = IF j = k THEN started ELSE m.pending[j]
    BY <1>1, <2>4
  <2> HIDE DEF started
  <2>8. /\ \A j \in DOMAIN m.pending :
             /\ b.pending[j].operation = m.pending[j].operation
             /\ b.pending[j].writeHeld = m.pending[j].writeHeld
             /\ b.pending[j].phase = "Terminal" <=> m.pending[j].phase = "Terminal"
             /\ b.pending[j].delivery = "PossiblySent" => m.pending[j].delivery = "PossiblySent" \/ j = k
    BY <2>5, <2>6, <2>7
  <2>9. Sound(b)
    <3>1. RecordSound(started)
      BY <2>6 DEF RecordSound
    <3>2. Distinct(b.pending)
      BY <1>1, <2>7, <2>8 DEF Distinct
    <3> QED
      BY <1>1, <2>7, <3>1, <3>2 DEF Sound
  <2>10. HeldPositions(b) = HeldPositions(m)
    BY <2>7, <2>8 DEF HeldPositions
  <2>11. HeldOperations(b) = HeldOperations(m) /\ Live(b.pending) = Live(m.pending)
    <3>1. HeldPositions(m) \subseteq DOMAIN m.pending
      BY DEF HeldPositions
    <3>2. \A j \in HeldPositions(m) : b.pending[j].operation = m.pending[j].operation
      BY <2>8, <3>1
    <3>3. HeldOperations(b) = HeldOperations(m)
      BY <2>10, <3>2 DEF HeldOperations
    <3>4. {j \in DOMAIN b.pending : b.pending[j].phase # "Terminal"}
            = {j \in DOMAIN m.pending : m.pending[j].phase # "Terminal"}
      BY <2>7, <2>8
    <3>5. Live(b.pending) = Live(m.pending)
      BY <2>8, <3>4 DEF Live
    <3> QED
      BY <3>3, <3>5
  <2>12. FrontHeld(b) = FrontHeld(m)
    BY <1>2, <2>8, <2>10 DEF FrontHeld
  <2>13. Holds(b.pending, operation) /\ RecordOf(b, operation).writeHeld
    <3>1. Holds(b.pending, operation)
      BY <1>2, <2>7, <2>8 DEF Holds
    <3>2. b.pending \in Seq(OperationRecord)
      BY <2>2, MachineFields
    <3>3. IndexOf(b.pending, operation) = k
      <4>1. /\ IndexOf(b.pending, operation) \in DOMAIN b.pending
            /\ b.pending[IndexOf(b.pending, operation)].operation = operation
        BY <3>1, <3>2, IndexOfType
      <4> QED
        BY <1>2, <2>7, <2>8, <2>9, <4>1 DEF Sound, Distinct
    <3> QED
      BY <1>2, <2>8, <3>1, <3>3 DEF RecordOf
  <2>14. ASSUME NEW j \in HeldPositions(b), b.pending[j].delivery = "PossiblySent"
         PROVE  b.pending[j].operation = FrontHeld(m) /\ written + n > 0
    <3>1. j \in HeldPositions(m) /\ j \in DOMAIN m.pending
      BY <2>10 DEF HeldPositions
    <3>2. m.pending[j].operation = FrontHeld(m)
      BY <1>2, <2>8, <2>14, <3>1 DEF Fronted
    <3> QED
      BY <1>6, <2>8, <3>1, <3>2
  <2> QED
    BY <2>2, <2>3, <2>9, <2>10, <2>11, <2>12, <2>13, <2>14 DEF Began
<1> QED
  BY <1>5, <1>6

\* Completing the front frame leaves no frame that is partly written.
LEMMA FrontLeaves ==
  ASSUME NEW b \in Machine, NEW r \in Machine, Narrows(b, r), NEW operation,
         \A i \in HeldPositions(b) : b.pending[i].delivery = "PossiblySent" =>
           b.pending[i].operation = operation,
         operation \notin HeldOperations(r)
  PROVE  \A written : Fronted(r, written)
<1> SUFFICES ASSUME NEW written, NEW i \in HeldPositions(r), r.pending[i].delivery = "PossiblySent"
             PROVE  FALSE
  BY DEF Fronted
<1>1. i \in DOMAIN r.pending /\ r.pending[i].writeHeld /\ r.pending[i].operation \in HeldOperations(r)
  BY DEF HeldPositions, HeldOperations
<1>2. PICK j \in DOMAIN b.pending : /\ r.pending[i].operation = b.pending[j].operation
                                    /\ r.pending[i].delivery = b.pending[j].delivery
                                    /\ b.pending[j].writeHeld
  BY <1>1 DEF Narrows
<1>3. j \in HeldPositions(b)
  BY <1>2 DEF HeldPositions
<1> QED
  BY <1>1, <1>2, <1>3

LEMMA AdvanceFrontYields ==
  ASSUME NEW P, NEW C, NEW D \in Seq(Outcomes), NEW O \in Seq(Events),
         NEW s, Ready(s, P, C, D, O), Reading(s), s.transportState = "Open", HasFrames(s),
         NEW n \in Nat
  PROVE  Yields(s, AdvanceFront(s, n), P, C, D, O)
<1> DEFINE m == s.machine
           operation == FrontHeld(m)
           b == IF n > 0 /\ s.written = 0 THEN WriteStarted(m, operation) ELSE m
           advanced == [s EXCEPT !.machine = b, !.written = @ + n]
           started == [s EXCEPT !.machine = b]
           t == OnWriteCompleted(b, operation)
           r == Interpret(started, t)
<1>1. /\ s \in Slots /\ Running(s) /\ Logged(s, O) /\ Owned(s, P) /\ Fated(s, P, C, D) /\ Placed(s)
      /\ DrainTimed(s)
  BY DEF Ready
<1>2. /\ m \in Machine /\ Books(m, P) /\ Sound(m) /\ DrainWaits(m) /\ Roomy(s, P)
      /\ DOMAIN s.wire = HeldOperations(m) /\ Fronted(m, s.written) /\ s.timers = Timed(m.pending)
      /\ s.written \in Nat /\ HeldPositions(m) # {}
  BY <1>1, SlotFields DEF Owned, HasFrames
<1>3. AdvanceFront(s, n) = IF n < FrontRemaining(s) THEN advanced ELSE r
  BY DEF AdvanceFront, FrontOperation
<1>4. Starts(m, b, s.written, n)
  BY DEF Starts
<1> HIDE DEF b, m
<1>5. /\ Began(m, b, P)
      /\ \A i \in HeldPositions(b) : b.pending[i].delivery = "PossiblySent" =>
              b.pending[i].operation = FrontHeld(m) /\ s.written + n > 0
  BY <1>2, <1>4, FrontBegins
<1>6. /\ b \in Machine /\ Books(b, P) /\ Sound(b) /\ DrainWaits(b)
      /\ Timed(b.pending) = Timed(m.pending) /\ Live(b.pending) = Live(m.pending)
      /\ b.phase = m.phase /\ b.gate = m.gate /\ b.closeReason = m.closeReason
      /\ b.nextOperation = m.nextOperation
      /\ HeldPositions(b) = HeldPositions(m) /\ HeldOperations(b) = HeldOperations(m)
      /\ FrontHeld(b) = FrontHeld(m)
      /\ Holds(b.pending, operation) /\ RecordOf(b, operation).writeHeld
  BY <1>5 DEF Began
<1>7. ASSUME NEW c, c \in {advanced, started}
      PROVE  /\ c \in Slots /\ c.machine = b /\ c.recoveryOutcomes = s.recoveryOutcomes
             /\ c.transportState = "Open" /\ c.closeRequest = s.closeRequest
             /\ c.owner = s.owner /\ c.drainDeadline = s.drainDeadline
             /\ c.lifecycle = s.lifecycle /\ c.recoveryEvents = s.recoveryEvents
             /\ c.eventSequence = s.eventSequence /\ c.outcomes = s.outcomes
             /\ c.decoder = s.decoder /\ c.decoderPending = s.decoderPending
             /\ c.timers = s.timers /\ c.wire = s.wire
  <2>1. s.written + n \in Nat
    BY <1>2
  <2> QED
    BY ZenonT(40), <1>1, <1>6, <1>7, <2>1 DEF Slots
<1>8. advanced.written = s.written + n
  BY <1>1 DEF Slots
<1> HIDE DEF advanced, started
<1>9. ASSUME NEW c, c \in {advanced, started}
      PROVE  /\ Running(c) /\ Placed(c) /\ DrainTimed(c) /\ Reading(c) /\ Logged(c, O)
             /\ Fated(c, P, C, D) /\ Roomy(c, P)
             /\ \A d : Moves(c, d) => Moves(s, d)
             /\ Moves(s, c)
  <2> USE <1>7, <1>9
  <2>1. Running(c) /\ Placed(c) /\ DrainTimed(c)
    BY <1>1, <1>6 DEF Running, Placed, DrainTimed, m
  <2>2. Reading(c)
    BY DEF Reading, Connecting, CanRead
  <2>3. Logged(c, O)
    <3>1. LogOf(c, O) = LogOf(s, O) /\ Stage(c) = Stage(s)
      BY ZenonT(40), <1>6 DEF LogOf, Stage, m
    <3> QED
      BY <1>1, <1>6, <2>1, <3>1 DEF Logged, Running, m
  <2>4. Fated(c, P, C, D)
    BY <1>1, <1>6 DEF Fated, m
  <2>5. Roomy(c, P)
    BY <1>2, <1>6 DEF Roomy, m
  <2>6. Moves(s, c) /\ \A d : Moves(c, d) => Moves(s, d)
    BY <1>1, <2>1 DEF Moves, ShuttingDown
  <2> QED
    BY <2>1, <2>2, <2>3, <2>4, <2>5, <2>6
<1>10. CASE n < FrontRemaining(s)
  <2>1. Fronted(b, s.written + n)
    BY <1>5, <1>6 DEF Fronted
  <2>2. Owned(advanced, P)
    BY <1>2, <1>6, <1>7, <1>8, <1>9, <2>1 DEF Owned
  <2> QED
    BY <1>3, <1>9, <1>10, <2>2 DEF Yields, During, GoesOn
<1>11. CASE ~(n < FrontRemaining(s))
  <2> HIDE DEF operation
  <2>1. /\ Handles(b, P, t, {}) /\ Course(b, t.machine, {}, {})
        /\ operation \notin HeldOperations(t.machine)
    BY <1>6, OnWriteCompletedHandles
  <2> HIDE DEF t
  <2>2. t.machine \in Machine /\ Narrows(b, t.machine)
    BY <2>1 DEF Handles, Transitions
  <2>3. \A written : Fronted(t.machine, written)
    BY <1>5, <1>6, <2>1, <2>2, FrontLeaves DEF operation
  <2> DEFINE reasons == {}
             gates == {}
             fired == {}
  <2>4. /\ Closable(started, reasons) /\ Course(started.machine, t.machine, reasons, gates)
        /\ gates \in SUBSET {"Open", "Draining"} /\ Handles(started.machine, P, t, fired)
        /\ Rests(started, t)
        /\ started.timers = {x \in Timed(started.machine.pending) : x[1] \notin fired}
    BY <1>2, <1>6, <1>7, <1>9, <2>1 DEF Closable, Rests
  <2>5. /\ Books(started.machine, P) /\ Sound(started.machine)
        /\ DOMAIN started.wire = HeldOperations(started.machine)
        /\ r = Interpret(started, t)
        /\ Fronted(t.machine, WrittenAfter(started, t.machine))
    BY <1>2, <1>6, <1>7, <2>3
  <2>6. /\ t.machine.phase = "Live" /\ t.machine.gate = "Draining" => started.drainDeadline # Never
        /\ t.machine.phase = "Closing" /\ t.machine.closeReason = "Drained"
             /\ started.machine.phase = "Live" => started.drainDeadline # Never
    BY <1>7, <1>9, <2>1 DEF Course, DrainTimed
  <2> HIDE DEF reasons, gates, fired, r
  <2>7. During(r, P, C, D, O) /\ Moves(started, r) /\ GoesOn(r)
    BY <1>7, <1>9, <2>4, <2>5, <2>6, InterpretDuring
  <2> QED
    BY <1>3, <1>9, <1>11, <2>7 DEF Yields
<1> QED
  BY <1>10, <1>11

(***************************************************************************)
(* From a method to the call it belongs to.                                *)
(***************************************************************************)
Comes(s, r, P, C, D, O) == During(r, P, C, D, O) /\ Moves(s, r)

\* Fields no invariant reads, and the owner.
Differs(r, n) ==
  /\ n \in Slots /\ Holding(r, n) /\ n.recoveryOutcomes = r.recoveryOutcomes
  /\ n.transportState = r.transportState /\ n.drainDeadline = r.drainDeadline
  /\ n.closeRequest = r.closeRequest /\ n.lifecycle = r.lifecycle
  /\ n.recoveryEvents = r.recoveryEvents /\ n.eventSequence = r.eventSequence
  /\ n.decoder = r.decoder /\ n.decoderPending = r.decoderPending

LEMMA DiffersComes ==
  ASSUME NEW P, NEW C, NEW D, NEW O, NEW s, NEW r, Comes(s, r, P, C, D, O),
         NEW n, Differs(r, n), Running(n) => Running(r), s.transportState = "Closed" => Running(n)
  PROVE  Comes(s, n, P, C, D, O)
<1> USE DEF Differs, Comes
<1>1. n.machine = r.machine /\ n.outcomes = r.outcomes
  BY DEF Holding
<1>2. Owned(n, P) /\ Fated(n, P, C, D)
  BY HeldOwned, HeldFated DEF During
<1>3. Placed(n) /\ DrainTimed(n)
  BY <1>1 DEF During, Placed, DrainTimed
<1>4. Reading(n)
  BY <1>1 DEF During, Reading, Connecting, CanRead
<1>5. Logged(n, O)
  <2>1. LogOf(n, O) = LogOf(r, O) /\ Stage(n) = Stage(r)
    BY <1>1 DEF LogOf, Stage
  <2> QED
    BY <1>1, <2>1 DEF During, Logged
<1>6. Moves(s, n)
  BY <1>1 DEF Moves
<1> QED
  BY <1>2, <1>3, <1>4, <1>5, <1>6 DEF During

LEMMA RotateComes ==
  ASSUME NEW P, NEW C, NEW D, NEW O, NEW s, NEW r, Comes(s, r, P, C, D, O), NEW p \in Preferences
  PROVE  /\ Comes(s, Rotate(r, p), P, C, D, O)
         /\ Running(Rotate(r, p)) <=> Running(r)
         /\ GoesOn(Rotate(r, p)) <=> GoesOn(r)
         /\ Rotate(r, p).transportState = r.transportState
<1> DEFINE n == Rotate(r, p)
<1>1. r \in Slots
  BY DEF Comes, During, Owned
<1>2. NextPreference[p] \in Preferences
  BY DEF Preferences, NextPreference
<1>3. Differs(r, n) /\ n.owner = r.owner
  BY <1>1, <1>2 DEF Rotate, Differs, Holding, Slots
<1> HIDE DEF n
<1>4. (Running(n) <=> Running(r)) /\ (GoesOn(n) <=> GoesOn(r)) /\ n.transportState = r.transportState
  BY <1>3 DEF Running, GoesOn, Differs
<1>5. s.transportState = "Closed" => Running(n)
  BY <1>4 DEF Comes, Moves
<1>6. Comes(s, n, P, C, D, O)
  BY <1>3, <1>4, <1>5, DiffersComes
<1> QED
  BY <1>4, <1>6 DEF n

LEMMA FailComes ==
  ASSUME NEW P, NEW C, NEW D, NEW O, NEW s, NEW r, Comes(s, r, P, C, D, O),
         s.transportState # "Closed", NEW kind \in {"Core", "OwnerInvariant"}
  PROVE  /\ Comes(s, Fail(r, kind), P, C, D, O)
         /\ Comes(s, Fail([r EXCEPT !.diverged = TRUE], kind), P, C, D, O)
<1>1. r \in Slots
  BY DEF Comes, During, Owned
<1>2. ASSUME NEW n \in {Fail(r, kind), Fail([r EXCEPT !.diverged = TRUE], kind)}
      PROVE  Comes(s, n, P, C, D, O)
  <2>1. PICK base \in {r, [r EXCEPT !.diverged = TRUE]} : n = Fail(base, kind)
    OBVIOUS
  <2>2. base \in Slots /\ Differs(r, base) /\ base.owner = r.owner
    BY ZenonT(40), <1>1 DEF Differs, Holding, Slots
  <2>3. kind \in Owners /\ kind # "Running"
    BY DEF Owners
  <2>4. /\ [base EXCEPT !.owner = kind] \in Slots /\ Differs(base, [base EXCEPT !.owner = kind])
        /\ [base EXCEPT !.owner = kind].owner = kind
    BY <2>2, <2>3 DEF Differs, Holding, Slots
  <2>5. Differs(r, n) /\ ~Running(n)
    BY <2>1, <2>2, <2>3, <2>4 DEF Differs, Fail, Running, Holding
  <2> QED
    BY <2>5, DiffersComes
<1> QED
  BY <1>2

LEMMA CaptureComes ==
  ASSUME NEW P, NEW C, NEW D, NEW O, NEW s, NEW r, Comes(s, r, P, C, D, O), NEW v,
         v.over => s.transportState # "Closed"
  PROVE  /\ Comes(s, CapturePressure(r, v), P, C, D, O)
         /\ GoesOn(r) => GoesOn(CapturePressure(r, v)) \/ v.over
<1>1. "OwnerInvariant" \in {"Core", "OwnerInvariant"}
  OBVIOUS
<1>2. v.over => Comes(s, Fail([r EXCEPT !.diverged = TRUE], "OwnerInvariant"), P, C, D, O)
  BY <1>1, FailComes
<1> QED
  BY <1>2 DEF CapturePressure

\* A call that started on a running slot leaves a slot that asks for its abort
\* as soon as it has failed.
LEMMA LatchKept ==
  ASSUME NEW P, NEW C, NEW D, NEW O, NEW s, NEW r, Comes(s, r, P, C, D, O)
  PROVE  /\ Kept(Latch(r), P, C, D, O)
         /\ Running(Latch(r)) <=> Running(r)
         /\ Latch(r).transportState = r.transportState
         /\ Latch(r).recoveryEvents = r.recoveryEvents
<1> DEFINE n == Latch(r)
<1>1. r \in Slots /\ Owned(r, P) /\ Fated(r, P, C, D) /\ Placed(r) /\ DrainTimed(r) /\ Reading(r) /\ Logged(r, O)
  BY DEF Comes, During, Owned
<1>2. CASE Running(r)
  BY <1>1, <1>2 DEF Latch, Kept, During, Staged
<1>3. CASE ~Running(r)
  <2>1. /\ n \in Slots /\ Holding(r, n) /\ n.recoveryOutcomes = r.recoveryOutcomes
        /\ n.transportState = r.transportState /\ n.drainDeadline = Never
        /\ n.closeRequest = AbortRequest /\ n.lifecycle = r.lifecycle
        /\ n.recoveryEvents = r.recoveryEvents /\ n.eventSequence = r.eventSequence
        /\ n.decoder = r.decoder /\ n.decoderPending = r.decoderPending
        /\ n.machine = r.machine /\ n.owner = r.owner
    BY <1>1, <1>3, RequestsAre DEF Latch, Slots, Holding
  <2> HIDE DEF n
  <2>2. r.transportState # "Closed"
    BY <1>3 DEF Comes, Moves
  <2>3. ~Running(n)
    BY <1>3, <2>1 DEF Running
  <2>4. Placed(n) /\ DrainTimed(n) /\ Staged(n)
    BY <1>1, <2>1, <2>2, <2>3 DEF Placed, DrainTimed, Staged
  <2>5. Owned(n, P) /\ Fated(n, P, C, D)
    BY <1>1, <2>1, HeldOwned, HeldFated
  <2>6. Reading(n)
    BY <1>1, <2>1 DEF Reading, Connecting, CanRead
  <2>7. Logged(n, O)
    <3>1. LogOf(n, O) = LogOf(r, O) /\ Stage(n) = Stage(r)
      BY <2>1 DEF LogOf, Stage
    <3> QED
      BY <1>1, <2>1, <2>3, <3>1 DEF Logged
  <2> QED
    BY <1>3, <2>1, <2>3, <2>4, <2>5, <2>6, <2>7 DEF Kept, During, n
<1> QED
  BY <1>2, <1>3

Shows(a, owner, state, close, publications) ==
  a = [owner |-> owner, state |-> state, close |-> close, publications |-> publications]

LEMMA ContractFields ==
  ASSUME NEW a, NEW owner, NEW state, NEW close, NEW publications,
         Shows(a, owner, state, close, publications), NEW o, NEW s, NEW c, NEW p
  PROVE  /\ Shows([a EXCEPT !.state = s, !.publications = p], owner, s, close, p)
         /\ Shows([a EXCEPT !.state = s, !.close = c, !.publications = p], owner, s, c, p)
         /\ Shows([a EXCEPT !.owner = o, !.close = c], o, state, c, publications)
<1> DEFINE moved == [a EXCEPT !.state = s]
           asked == [moved EXCEPT !.close = c]
           owned == [a EXCEPT !.owner = o]
<1>1. moved = [owner |-> owner, state |-> s, close |-> close, publications |-> publications]
  BY DEF Shows
<1>2. owned = [owner |-> o, state |-> state, close |-> close, publications |-> publications]
  BY DEF Shows
<1>3. /\ [a EXCEPT !.state = s, !.publications = p] = [moved EXCEPT !.publications = p]
      /\ [a EXCEPT !.state = s, !.close = c, !.publications = p] = [asked EXCEPT !.publications = p]
      /\ [a EXCEPT !.owner = o, !.close = c] = [owned EXCEPT !.close = c]
  OBVIOUS
<1> HIDE DEF moved, owned
<1>4. asked = [owner |-> owner, state |-> s, close |-> c, publications |-> publications]
  BY <1>1
<1> HIDE DEF asked
<1>5. /\ [moved EXCEPT !.publications = p] = [owner |-> owner, state |-> s, close |-> close, publications |-> p]
  BY <1>1
<1>6. [asked EXCEPT !.publications = p] = [owner |-> owner, state |-> s, close |-> c, publications |-> p]
  BY <1>4
<1>7. [owned EXCEPT !.close = c] = [owner |-> o, state |-> state, close |-> c, publications |-> publications]
  BY <1>2
<1> QED
  BY <1>3, <1>5, <1>6, <1>7 DEF Shows

\* What the owner of the slot sees of a call or of a unit of work.
LEMMA MovesContract ==
  ASSUME NEW s \in Slots, Running(s), NEW r \in Slots, Moves(s, r)
  PROVE  Abstract(Latch(r)) \in Contract!AfterWork(Abstract(s))
<1> DEFINE a == Abstract(s)
           u == [Abstract(r) EXCEPT !.owner = "Running"]
           base == Contract!Published(a) \cup Contract!Established(a) \cup Contract!Closes(a)
                     \cup Contract!Forced(a)
           close(request) == IF request = NoRequest THEN "None"
                             ELSE IF request = AbortRequest THEN "Abort"
                             ELSE IF SettlementReady(request) THEN "Ready" ELSE "Graceful"
           told(q) == q.outcomes # <<>> \/ q.lifecycle # <<>>
<1>1. a = [owner |-> "Running", state |-> s.transportState, close |-> close(s.closeRequest),
           publications |-> told(s)]
  BY DEF Abstract
<1>2. u = [owner |-> "Running", state |-> r.transportState, close |-> close(r.closeRequest),
           publications |-> told(r)]
  BY DEF Abstract
<1>3. told(s) \in BOOLEAN /\ told(r) \in BOOLEAN /\ (told(s) => told(r))
  BY DEF Moves
<1>4. /\ \A q \in CloseRequests : q.kind = "Core" => close(q) \in {"Ready", "Graceful"}
      /\ \A q \in CloseRequests : q.kind = "Core" /\ q.shutdown = "Immediate" => close(q) = "Ready"
      /\ \A q \in CloseRequests : q.kind = "Core" /\ q.shutdown \in {"Pending", "Started"} => close(q) = "Graceful"
  BY RequestsAre DEF SettlementReady
<1>5. s.closeRequest \in CloseRequests /\ r.closeRequest \in CloseRequests
  BY SlotFields
<1> DEFINE x == told(s)
           y == told(r)
           c == close(s.closeRequest)
           d == close(r.closeRequest)
<1>a. /\ a = [owner |-> "Running", state |-> s.transportState, close |-> c, publications |-> x]
      /\ u = [owner |-> "Running", state |-> r.transportState, close |-> d, publications |-> y]
      /\ r.closeRequest = s.closeRequest => d = c
  BY <1>1, <1>2
<1>b. y = x \/ y = TRUE
  BY <1>3
<1> HIDE DEF close, told, x, y, c, d, a, u
<1>6. u \in base
  <2>1. CASE r.transportState = s.transportState /\ r.closeRequest = s.closeRequest
    <3>1. u = a \/ u = [a EXCEPT !.publications = TRUE]
      <4>1. CASE y = x
        BY <1>a, <2>1, <4>1
      <4>2. CASE y = TRUE
        <5>1. u = [a EXCEPT !.publications = y]
          BY <1>a, <2>1
        <5> QED
          BY <4>2, <5>1, Zenon
      <4> QED
        BY <1>b, <4>1, <4>2
    <3> QED
      BY <3>1 DEF Contract!Published
  <2>2. CASE /\ s.transportState = "Connecting" /\ r.transportState = "Open"
             /\ r.closeRequest = s.closeRequest /\ r.lifecycle # <<>>
    <3>1. y = TRUE
      BY <2>2 DEF told, y
    <3>2. a.state = "Connecting" /\ u = [a EXCEPT !.state = "Open", !.publications = TRUE]
      <4>1. a.state = "Connecting" /\ u = [a EXCEPT !.state = "Open", !.publications = y]
        <5>1. Shows(a, "Running", s.transportState, c, x)
          BY <1>a DEF Shows
        <5>2. Shows([a EXCEPT !.state = "Open", !.publications = y], "Running", "Open", c, y)
          BY <5>1, ContractFields
        <5> QED
          BY <1>a, <2>2, <5>2 DEF Shows
      <4> QED
        BY <3>1, <4>1, Zenon
    <3> QED
      BY <3>2 DEF Contract!Established
  <2>3. CASE /\ s.transportState \in {"Connecting", "Open"} /\ r.transportState = "Closing"
             /\ r.closeRequest.kind = "Core" /\ r.lifecycle # <<>>
             /\ \/ r.closeRequest.shutdown = "Immediate"
                \/ s.transportState = "Open" /\ r.closeRequest.shutdown = "Pending"
    <3>1. y = TRUE
      BY <2>3 DEF told, y
    <3>2. u = [a EXCEPT !.state = "Closing", !.close = d, !.publications = TRUE]
      <4>1. u = [a EXCEPT !.state = "Closing", !.close = d, !.publications = y]
        <5>1. Shows(a, "Running", s.transportState, c, x)
          BY <1>a DEF Shows
        <5>2. Shows([a EXCEPT !.state = "Closing", !.close = d, !.publications = y],
                    "Running", "Closing", d, y)
          BY <5>1, ContractFields
        <5> QED
          BY <1>a, <2>3, <5>2 DEF Shows
      <4> QED
        BY <3>1, <4>1, Zenon
    <3>3. d \in {"Ready"} \cup IF a.state = "Open" THEN {"Graceful"} ELSE {}
      BY <1>a, <1>4, <1>5, <2>3 DEF d
    <3>4. a.state \in {"Connecting", "Open"}
      BY <1>a, <2>3
    <3> QED
      BY <3>2, <3>3, <3>4 DEF Contract!Closes
  <2>4. CASE /\ ShuttingDown(s) /\ r.transportState = s.transportState
             /\ r.closeRequest.kind = "Core"
             /\ r.outcomes = s.outcomes /\ r.lifecycle = s.lifecycle
    <3>1. x = y
      BY <2>4 DEF told, x, y
    <3>2. c = "Graceful" /\ d \in {"Ready", "Graceful"}
      BY <1>4, <1>5, <2>4 DEF ShuttingDown, c, d
    <3>3. u = a \/ (u = [a EXCEPT !.close = "Ready"] /\ a.close = "Graceful")
      BY <1>a, <2>4, <3>1, <3>2
    <3> QED
      BY <3>3 DEF Contract!Published, Contract!Forced
  <2> QED
    BY <2>1, <2>2, <2>3, <2>4 DEF Moves
<1>7. Contract!AfterWork(a) = Contract!OrFails(base)
  BY <1>a DEF Contract!AfterWork, Contract!Works
<1>8. CASE Running(r)
  <2>1. Abstract(Latch(r)) = u
    BY <1>8 DEF Latch, Abstract, u, Running
  <2> QED
    BY <1>6, <1>7, <2>1 DEF Contract!OrFails, a
<1>9. CASE ~Running(r)
  <2>1. u.state # "Closed"
    BY <1>a, <1>9 DEF Moves
  <2>2. Abstract(Latch(r)) = [u EXCEPT !.owner = "Failed", !.close = "Abort"]
    <3>1. /\ ~Running(Latch(r)) /\ Latch(r).transportState = r.transportState
          /\ Latch(r).closeRequest = AbortRequest
          /\ Latch(r).outcomes = r.outcomes /\ Latch(r).lifecycle = r.lifecycle
      BY <1>9 DEF Latch, Running, Slots
    <3> QED
      <4>1. Abstract(Latch(r)) = [owner |-> "Failed", state |-> r.transportState, close |-> "Abort",
                                  publications |-> r.outcomes # <<>> \/ r.lifecycle # <<>>]
        BY <3>1, RequestsAre DEF Abstract
      <4>2. Abstract(Latch(r)) = [owner |-> "Failed", state |-> r.transportState, close |-> "Abort",
                                  publications |-> y]
        BY <4>1, Zenon DEF y, told
      <4>3. Shows(u, "Running", r.transportState, d, y)
        BY <1>a DEF Shows
      <4>4. Shows([u EXCEPT !.owner = "Failed", !.close = "Abort"], "Failed", r.transportState, "Abort", y)
        BY <4>3, ContractFields
      <4> QED
        BY <4>2, <4>4 DEF Shows
  <2>3. Contract!Latched(u) = [u EXCEPT !.owner = "Failed", !.close = "Abort"]
    BY <1>a DEF Contract!Latched, Contract!Works
  <2> HIDE DEF base
  <2>4. Contract!Latched(u) \in Contract!OrFails(base)
    BY <1>6, <2>1 DEF Contract!OrFails
  <2> QED
    BY <1>7, <2>2, <2>3, <2>4 DEF a
<1> QED
  BY <1>8, <1>9

\* The shutdown of a closing slot goes a step further.
LEMMA ShutdownComes ==
  ASSUME NEW P, NEW C, NEW D, NEW O, NEW s, Running(s), During(s, P, C, D, O), ShuttingDown(s),
         NEW shutdown \in Shutdowns
  PROVE  /\ Comes(s, SetShutdown(s, shutdown), P, C, D, O)
         /\ Running(SetShutdown(s, shutdown))
         /\ SetShutdown(s, shutdown).closeRequest.kind = "Core"
         /\ SetShutdown(s, shutdown).closeRequest.shutdown = shutdown
         /\ SetShutdown(s, shutdown).closeRequest.reason = s.closeRequest.reason
<1> DEFINE n == SetShutdown(s, shutdown)
           q == s.closeRequest
           deadline == IF shutdown = "Started" THEN q.deadline ELSE Never
           p == [q EXCEPT !.shutdown = shutdown, !.deadline = deadline]
<1>1. s \in Slots /\ q \in CloseRequests /\ q.kind = "Core"
  BY SlotFields DEF During, Owned, ShuttingDown
<1>2. deadline \in 0..Never
  BY <1>1, RequestsAre DEF CloseRequests
<1>3. p \in CloseRequests /\ p.kind = "Core" /\ p.shutdown = shutdown /\ p.reason = q.reason
  BY <1>1, <1>2 DEF CloseRequests
<1>4. n = [s EXCEPT !.closeRequest = p]
  BY <1>1 DEF SetShutdown, Slots, CloseRequests
<1>5. /\ n \in Slots /\ Holding(s, n) /\ n.recoveryOutcomes = s.recoveryOutcomes
      /\ n.transportState = s.transportState /\ n.drainDeadline = s.drainDeadline
      /\ n.closeRequest = p /\ n.lifecycle = s.lifecycle
      /\ n.recoveryEvents = s.recoveryEvents /\ n.eventSequence = s.eventSequence
      /\ n.decoder = s.decoder /\ n.decoderPending = s.decoderPending
      /\ n.machine = s.machine /\ n.owner = s.owner /\ n.outcomes = s.outcomes
  <2> HIDE DEF n, p, deadline
  <2>1. n \in Slots
    BY <1>1, <1>3, <1>4 DEF Slots
  <2>2. Holding(s, n)
    BY <1>1, <1>4 DEF Slots, Holding
  <2> QED
    BY <1>1, <1>4, <2>1, <2>2 DEF Slots
<1> HIDE DEF n, p, deadline
<1>6. s.transportState = "Closing" /\ s.closeRequest.reason = s.machine.closeReason
  <2>1. q # NoRequest
    BY <1>1, RequestsAre
  <2>2. s.transportState \in TransportStates
    BY <1>1, SlotFields
  <2> QED
    BY <2>1, <2>2 DEF During, Placed, TransportStates
<1>7. Owned(n, P) /\ Fated(n, P, C, D)
  BY <1>5, HeldOwned, HeldFated DEF During
<1>8. Running(n) /\ Placed(n) /\ DrainTimed(n)
  BY <1>3, <1>5, <1>6 DEF During, Running, Placed, DrainTimed
<1>9. Reading(n)
  BY <1>5, <1>6 DEF Reading, Connecting
<1>10. Logged(n, O)
  <2>1. LogOf(n, O) = LogOf(s, O) /\ Stage(n) = Stage(s)
    BY <1>5 DEF LogOf, Stage
  <2> QED
    BY <1>5, <2>1 DEF During, Logged, Running
<1>11. Moves(s, n)
  BY <1>3, <1>5, <1>8 DEF Moves
<1> QED
  BY <1>3, <1>5, <1>7, <1>8, <1>9, <1>10, <1>11 DEF Comes, During, n

(***************************************************************************)
(* Steps.                                                                  *)
(***************************************************************************)

\* A step keeps the invariant and is a step of the contract.
Lawful == SlotIInv' /\ [Contract!Next]_(Abstract(slot))

\* What happens around the slot in a step that does not recover it.
Around ==
  /\ transport' \in Transports \cup {NoTransport} /\ transport'.present = transport.present
  /\ now' \in Moments
  /\ quantum' \in [pc : {"Idle", "Deadlines", "Io", "Shutdown"}, work : 0..IoOperations]
  /\ wake' \in BOOLEAN
  /\ broken' \in BOOLEAN /\ (broken => broken') /\ (transport'.over => broken')
  /\ delivered' \in Seq(Outcomes)
  /\ observed' \in Seq(Events)
  /\ committed' \subseteq Operations
  /\ report' = report

LEMMA SlotRuns ==
  ASSUME SlotIInv, ~report.recovered
  PROVE  /\ Kept(slot, permits, committed, delivered, observed) /\ slot \in Slots
         /\ Outside /\ report = NoReport /\ Driven
         /\ delivered \in Seq(Outcomes) /\ observed \in Seq(Events)
         /\ slot.transportState = "Closed" <=> ~transport.present
         /\ transport.over => broken
         /\ ~Running(slot) => broken \/ slot.recoveryEvents # <<>>
BY DEF SlotIInv, Outside, Kept, During, Owned

LEMMA LatchLawful ==
  ASSUME SlotIInv, ~report.recovered, Running(slot),
         NEW r, Comes(slot, r, permits', committed', delivered', observed'), slot' = Latch(r),
         GoesOn(r) \/ broken', Around, Driven'
  PROVE  Lawful
<1>1. /\ slot \in Slots /\ (slot.transportState = "Closed" <=> ~transport.present)
      /\ report = NoReport
  BY SlotRuns
<1>2. r \in Slots /\ Moves(slot, r)
  BY DEF Comes, During, Owned
<1>3. /\ Kept(slot', permits', committed', delivered', observed')
      /\ Running(slot') <=> Running(r)
      /\ slot'.transportState = r.transportState
      /\ slot'.recoveryEvents = r.recoveryEvents
  BY LatchKept
<1>4. r.transportState = "Closed" <=> slot.transportState = "Closed"
  BY <1>2 DEF Moves
<1>5. ~report'.recovered /\ report' = NoReport
  BY <1>1 DEF Around
<1>6. SlotIInv'
  <2>1. Outside'
    BY DEF Around, Outside
  <2>2. slot'.transportState = "Closed" <=> ~transport'.present
    BY <1>1, <1>3, <1>4 DEF Around
  <2>3. ~Running(slot') => broken' \/ slot'.recoveryEvents # <<>>
    BY <1>3 DEF GoesOn
  <2>4. transport'.over => broken'
    BY DEF Around
  <2> QED
    BY <1>3, <1>5, <2>1, <2>2, <2>3, <2>4 DEF SlotIInv
<1>7. Abstract(slot') \in Contract!AfterWork(Abstract(slot))
  BY <1>1, <1>2, MovesContract
<1> QED
  BY <1>6, <1>7 DEF Lawful, Contract!Next, Contract!Work

Beside ==
  /\ UNCHANGED outsideVars
  /\ transport' \in Transports \cup {NoTransport} /\ transport'.present = transport.present
  /\ broken' \in BOOLEAN /\ (broken => broken') /\ (transport'.over => broken')

\* The quantum goes on after a unit of work, or ends.
LEMMA ContinueLawful ==
  ASSUME SlotIInv, ~report.recovered, Running(slot), quantum.work < IoOperations,
         NEW r, Comes(slot, r, permits, committed, delivered, observed), GoesOn(r) \/ broken',
         NEW u, NEW pc, pc \in {"Deadlines", "Io", "Shutdown"}, NEW saturated, Continue(r, u, pc, saturated),
         pc = "Shutdown" /\ Running(r) => r.closeRequest # NoRequest, Beside
  PROVE  Lawful
<1>1. /\ Outside /\ quantum.work \in 0..IoOperations /\ IoOperations \in Nat \ {0}
  BY SlotRuns, SlotAssumption DEF Outside
<1>2. Running(r) => Latch(r) = r
  BY DEF Latch
<1>3. quantum.work + 1 \in 0..IoOperations
  BY <1>1
<1>4. /\ slot' = Latch(r) /\ wake' \in BOOLEAN
      /\ quantum' \in [pc : {"Idle", "Deadlines", "Io", "Shutdown"}, work : 0..IoOperations]
      /\ Driven'
  <2>1. CASE Return(r, FALSE) \/ Return(r, saturated)
    <3>1. slot' = Latch(r) /\ quantum' = [pc |-> "Idle", work |-> 0] /\ wake' \in BOOLEAN
      BY <2>1 DEF Return, IdleQuantum
    <3> QED
      BY <1>1, <3>1 DEF Driven
  <2>2. CASE /\ Running(r) /\ r.closeRequest # NoRequest /\ slot' = r
             /\ quantum' = [pc |-> "Shutdown", work |-> quantum.work + 1] /\ UNCHANGED wake
    BY <1>1, <1>2, <1>3, <2>2 DEF Driven, Outside
  <2>3. CASE /\ Running(r) /\ r.closeRequest = NoRequest /\ slot' = r
             /\ quantum.work + 1 # IoOperations
             /\ quantum' = [pc |-> pc, work |-> quantum.work + 1] /\ UNCHANGED wake
    <3>1. pc \in {"Deadlines", "Io"} /\ quantum'.pc = pc /\ quantum'.work = quantum.work + 1
      BY <2>3
    <3>2. quantum.work + 1 < IoOperations
      BY <1>1, <2>3
    <3>3. Driven'
      BY <2>3, <3>1, <3>2 DEF Driven
    <3> QED
      BY <1>1, <1>2, <1>3, <2>3, <3>3 DEF Outside
  <2> QED
    BY <2>1, <2>2, <2>3 DEF Continue
<1>5. Comes(slot, r, permits', committed', delivered', observed') /\ Around
  BY <1>1, <1>4 DEF Beside, Around, Outside, outsideVars
<1> QED
  BY <1>4, <1>5, LatchLawful

LEMMA QuantumRuns ==
  ASSUME SlotIInv, quantum.pc # "Idle"
  PROVE  /\ ~report.recovered /\ Running(slot)
         /\ Ready(slot, permits, committed, delivered, observed) /\ Reading(slot)
         /\ Comes(slot, slot, permits, committed, delivered, observed)
         /\ slot \in Slots /\ slot.transportState \in TransportStates
         /\ delivered \in Seq(Outcomes) /\ observed \in Seq(Events)
         /\ quantum.pc \in {"Deadlines", "Io"} =>
              /\ slot.closeRequest = NoRequest /\ quantum.work < IoOperations
         /\ now \in Moments /\ transport \in Transports \cup {NoTransport} /\ broken \in BOOLEAN
         /\ transport.over => broken
         /\ slot.transportState = "Closed" <=> ~transport.present
<1>1. ~report.recovered
  BY DEF SlotIInv
<1>2. /\ Kept(slot, permits, committed, delivered, observed) /\ slot \in Slots
      /\ Outside /\ Driven /\ (transport.over => broken)
      /\ slot.transportState = "Closed" <=> ~transport.present
  BY <1>1, SlotRuns
<1>3. Running(slot)
  BY <1>2 DEF Driven
<1>4. During(slot, permits, committed, delivered, observed)
  BY <1>2 DEF Kept
<1>5. Comes(slot, slot, permits, committed, delivered, observed)
  BY <1>3, <1>4 DEF Comes, Moves
<1> QED
  BY <1>1, <1>2, <1>3, <1>4, <1>5, DuringReady, SlotFields DEF Driven, Outside

(***************************************************************************)
(* The steps of a quantum.                                                 *)
(***************************************************************************)
LEMMA AfterDeadlineLawful ==
  ASSUME SlotIInv, quantum.pc = "Deadlines", NEW r, Yields(slot, r, permits, committed, delivered, observed),
         NEW pc \in {"Deadlines", "Io"}, AfterDeadline(r, pc)
  PROVE  Lawful
<1>1. /\ ~report.recovered /\ Running(slot) /\ quantum.work < IoOperations
      /\ transport \in Transports \cup {NoTransport} /\ broken \in BOOLEAN
      /\ transport.over => broken
  BY QuantumRuns
<1>2. Comes(slot, r, permits, committed, delivered, observed) /\ GoesOn(r)
  BY DEF Yields, Comes
<1>3. Beside
  BY <1>1 DEF AfterDeadline, Beside
<1> DEFINE saturated == HasDueDeadline(r) \/ HasRunnableIo(r, transport)
<1>4. Continue(r, transport, pc, saturated)
  BY DEF AfterDeadline
<1> HIDE DEF saturated
<1> QED
  BY <1>1, <1>2, <1>3, <1>4, ContinueLawful

LEMMA DeadlinesLawful ==
  ASSUME SlotIInv
  PROVE  /\ DrainElapses => Lawful
         /\ ConnectElapses => Lawful
         /\ \A timer \in slot.timers : OperationElapses(timer) => Lawful
         /\ DeadlinesDone => Lawful
<1>1. ASSUME DrainElapses PROVE Lawful
  <2>1. /\ Ready(slot, permits, committed, delivered, observed) /\ now \in Moments
        /\ delivered \in Seq(Outcomes) /\ observed \in Seq(Events) /\ quantum.pc = "Deadlines"
    BY <1>1, QuantumRuns DEF DrainElapses
  <2>2. slot.drainDeadline # Never
    BY <1>1, <2>1, ClockAssumption DEF DrainElapses, DrainFirst, IsElapsedAt, Never
  <2>3. Yields(slot, CloseFor([slot EXCEPT !.drainDeadline = Never], "Requested"),
               permits, committed, delivered, observed)
    BY <2>1, <2>2, DrainElapsesYields
  <2> QED
    BY <1>1, <2>1, <2>3, AfterDeadlineLawful DEF DrainElapses
<1>2. ASSUME ConnectElapses PROVE Lawful
  <2>1. /\ Ready(slot, permits, committed, delivered, observed) /\ Connecting(slot)
        /\ delivered \in Seq(Outcomes) /\ observed \in Seq(Events) /\ quantum.pc = "Deadlines"
    BY <1>2, QuantumRuns DEF ConnectElapses, ConnectFirst
  <2>2. Closable(slot, {"ConnectTimedOut"})
    BY <2>1 DEF Closable, AfterOpen, CloseReasons, ExternalReasons, Connecting
  <2>3. Yields(slot, CloseFor(slot, "ConnectTimedOut"), permits, committed, delivered, observed)
    BY <2>1, <2>2, CloseYields DEF CloseFor, OnCloseRequested
  <2> QED
    BY <1>2, <2>1, <2>3, AfterDeadlineLawful DEF ConnectElapses
<1>3. ASSUME NEW timer \in slot.timers, OperationElapses(timer) PROVE Lawful
  <2>1. /\ Ready(slot, permits, committed, delivered, observed) /\ Reading(slot)
        /\ delivered \in Seq(Outcomes) /\ observed \in Seq(Events) /\ quantum.pc = "Deadlines"
    BY <1>3, QuantumRuns DEF OperationElapses
  <2>2. Yields(slot, Interpret([slot EXCEPT !.timers = @ \ {timer}],
                               OnDeadlineElapsed(slot.machine, timer[1], now)),
               permits, committed, delivered, observed)
    BY <1>3, <2>1, OperationElapsesYields
  <2> QED
    BY <1>3, <2>1, <2>2, AfterDeadlineLawful DEF OperationElapses
<1>4. ASSUME DeadlinesDone PROVE Lawful
  <2>1. /\ ~report.recovered /\ Running(slot) /\ slot.closeRequest = NoRequest
        /\ quantum.work < IoOperations /\ quantum.pc = "Deadlines"
        /\ Comes(slot, slot, permits, committed, delivered, observed)
        /\ transport.over => broken
    BY <1>4, QuantumRuns DEF DeadlinesDone
  <2>2. Outside
    BY <2>1, SlotRuns
  <2>3. /\ quantum' \in [pc : {"Idle", "Deadlines", "Io", "Shutdown"}, work : 0..IoOperations]
        /\ quantum'.pc = "Io" /\ quantum'.work = quantum.work
    BY <1>4, <2>2 DEF DeadlinesDone, Outside
  <2>4. Around
    BY <1>4, <2>1, <2>2, <2>3 DEF DeadlinesDone, Outside, Around, outsideVars
  <2>5. Driven' /\ slot' = Latch(slot) /\ GoesOn(slot)
    BY <1>4, <2>1, <2>3 DEF DeadlinesDone, Driven, Latch, GoesOn
  <2>6. Comes(slot, slot, permits', committed', delivered', observed')
    BY <1>4, <2>1 DEF DeadlinesDone, outsideVars
  <2> QED
    BY <2>1, <2>4, <2>5, <2>6, LatchLawful
<1> QED
  BY <1>1, <1>2, <1>3, <1>4

LEMMA TransportFields ==
  /\ \A v \in Transports : v.present /\ v.over \in BOOLEAN
  /\ ~NoTransport.present /\ NoTransport.over = FALSE /\ ~NoTransport.work
  /\ \A u : Evolves(u) \subseteq Transports /\ Opens(u) \subseteq Transports /\ Completes(u) \subseteq Transports
BY DEF Transports, NoTransport, Evolves, Opens, Completes

\* Only a transport that is there is tried for what it has to do.
LEMMA AttemptHas ==
  ASSUME NEW s \in Slots, NEW u
  PROVE  /\ Attempt(s, u) = "Decode" => s.decoderPending
         /\ Attempt(s, u) = "Read" => s.transportState = "Open"
         /\ Attempt(s, u) = "Write" => s.transportState = "Open" /\ HasFrames(s)
         /\ Attempt(s, u) = "Transport" => Connecting(s) \/ u.work
<1> DEFINE order == Rotation(s.ioPreference)
           work == WorkFor(s, u)
           ready == {i \in DOMAIN order : work[order[i]]}
<1>1. DOMAIN order = 1..4
  BY DEF Rotation
<1>2. ready \subseteq Nat
  BY <1>1
<1>3. Attempt(s, u) # "None" => ready # {} /\ Attempt(s, u) = order[Min(ready)]
  BY DEF Attempt
<1> HIDE DEF order, work
<1>4. Attempt(s, u) # "None" => work[Attempt(s, u)]
  BY <1>2, <1>3, MinIs
<1>5. /\ work["Decode"] => s.decoderPending
      /\ work["Read"] => s.transportState = "Open"
      /\ work["Write"] => s.transportState = "Open" /\ HasFrames(s)
      /\ work["Transport"] => Connecting(s) \/ u.work
  BY DEF work, WorkFor
<1> QED
  BY <1>4, <1>5

LEMMA AttemptedLawful ==
  ASSUME SlotIInv, quantum.pc = "Io", NEW preference \in Preferences,
         NEW r, Comes(slot, r, permits, committed, delivered, observed),
         NEW v \in Transports \cup {NoTransport}, v.present = transport.present
  PROVE  /\ Attempted(preference, r, v, FALSE) /\ GoesOn(r) => Lawful
         /\ Attempted(preference, r, v, TRUE) => Lawful
<1> DEFINE w == Rotate(r, preference)
           n == CapturePressure(w, v)
<1>1. /\ ~report.recovered /\ Running(slot) /\ quantum.work < IoOperations /\ broken \in BOOLEAN
      /\ slot.transportState = "Closed" <=> ~transport.present
  BY QuantumRuns
<1>2. Comes(slot, w, permits, committed, delivered, observed) /\ (GoesOn(w) <=> GoesOn(r))
  BY RotateComes
<1>3. v.over \in BOOLEAN /\ (v.over => slot.transportState # "Closed")
  <2>1. v.over \in BOOLEAN
    BY TransportFields
  <2>2. v = NoTransport => ~v.over
    BY TransportFields
  <2> QED
    BY <1>1, <2>1, <2>2, TransportFields
<1> HIDE DEF w
<1>4. Comes(slot, n, permits, committed, delivered, observed) /\ (GoesOn(w) => GoesOn(n) \/ v.over)
  BY <1>2, <1>3, CaptureComes
<1> HIDE DEF n
<1>5. ASSUME NEW breach \in BOOLEAN, Attempted(preference, r, v, breach), GoesOn(r) \/ breach
      PROVE  Lawful
  <2> DEFINE saturated == HasRunnableIo(r, v)
  <2>1. /\ transport' = v /\ broken' = (broken \/ breach \/ v.over) /\ UNCHANGED outsideVars
        /\ Continue(n, v, "Io", saturated)
    BY <1>5 DEF Attempted, n, w
  <2> HIDE DEF saturated
  <2>2. Beside
    BY <1>1, <1>3, <2>1 DEF Beside
  <2>3. GoesOn(n) \/ broken'
    BY <1>2, <1>4, <1>5, <2>1
  <2> QED
    BY <1>1, <1>4, <2>1, <2>2, <2>3, ContinueLawful
<1> QED
  BY <1>5

LEMMA ReturnLawful ==
  ASSUME SlotIInv, ~report.recovered, Running(slot),
         NEW r, Comes(slot, r, permits, committed, delivered, observed), GoesOn(r) \/ broken',
         NEW saturated, Return(r, saturated), Beside
  PROVE  Lawful
<1>1. Outside /\ IoOperations \in Nat
  BY SlotRuns, SlotAssumption
<1>2. slot' = Latch(r) /\ quantum' = [pc |-> "Idle", work |-> 0] /\ wake' \in BOOLEAN
  BY DEF Return, IdleQuantum
<1>3. Driven'
  BY <1>2 DEF Driven
<1>4. Comes(slot, r, permits', committed', delivered', observed') /\ Around
  BY <1>1, <1>2 DEF Beside, Around, Outside, outsideVars
<1> QED
  BY <1>2, <1>3, <1>4, LatchLawful

LEMMA UntouchedBeside ==
  ASSUME SlotIInv, ~report.recovered, UNCHANGED <<transport, broken, outsideVars>>
  PROVE  Beside
<1>1. Outside /\ (transport.over => broken)
  BY SlotRuns
<1> QED
  BY <1>1 DEF Beside, Outside

\* What the attempts of an open transport start from.
LEMMA AttemptRuns ==
  ASSUME SlotIInv, NEW preference, Attempting(preference)
  PROVE  /\ quantum.pc = "Io"
         /\ transport.present = TRUE \/ transport.present = FALSE
         /\ ~Connecting(slot) /\ transport.work => slot.transportState = "Open"
         /\ slot.transportState \in {"Connecting", "Open"} =>
              transport.present = TRUE /\ \A v \in Transports : v.present = transport.present
<1>1. /\ quantum.pc = "Io" /\ Running(slot) /\ slot.closeRequest = NoRequest
      /\ Ready(slot, permits, committed, delivered, observed)
      /\ slot.transportState \in TransportStates /\ transport \in Transports \cup {NoTransport}
      /\ slot.transportState = "Closed" <=> ~transport.present
  BY QuantumRuns DEF Attempting
<1>2. /\ \A v \in Transports : v.present = TRUE
      /\ NoTransport.present = FALSE /\ ~NoTransport.work
  BY DEF Transports, NoTransport
<1>3. slot.transportState # "Closing"
  BY <1>1, RequestsAre DEF Ready, Placed
<1> QED
  BY <1>1, <1>2, <1>3 DEF Connecting, TransportStates

LEMMA IoDoneLawful ==
  ASSUME SlotIInv, IoDone
  PROVE  Lawful
<1>1. /\ ~report.recovered /\ Running(slot)
      /\ Comes(slot, slot, permits, committed, delivered, observed)
  BY QuantumRuns DEF IoDone, Attempting
<1>2. GoesOn(slot) /\ Beside /\ Return(slot, FALSE)
  BY <1>1, UntouchedBeside DEF IoDone, GoesOn
<1> QED
  BY <1>1, <1>2, ReturnLawful

LEMMA EstablishmentLawful ==
  ASSUME SlotIInv
  PROVE  /\ OpenedEarly => Lawful
         /\ \A v : Establish(v) => Lawful
<1>1. ASSUME Attempting("Transport"), Connecting(slot)
      PROVE  /\ quantum.pc = "Io" /\ Ready(slot, permits, committed, delivered, observed)
             /\ Reading(slot) /\ Running(slot)
             /\ Comes(slot, slot, permits, committed, delivered, observed)
             /\ Comes(slot, Fail(slot, "OwnerInvariant"), permits, committed, delivered, observed)
             /\ delivered \in Seq(Outcomes) /\ observed \in Seq(Events)
             /\ transport \in Transports \cup {NoTransport} /\ "Transport" \in Preferences
             /\ \A v \in Transports : v.present = transport.present
  <2>1. /\ Ready(slot, permits, committed, delivered, observed)
        /\ Reading(slot) /\ Running(slot)
        /\ Comes(slot, slot, permits, committed, delivered, observed)
        /\ delivered \in Seq(Outcomes) /\ observed \in Seq(Events)
        /\ transport \in Transports \cup {NoTransport}
    BY <1>1, QuantumRuns DEF Attempting
  <2>2. quantum.pc = "Io" /\ \A v \in Transports : v.present = transport.present
    BY <1>1, AttemptRuns DEF Connecting
  <2>3. "OwnerInvariant" \in {"Core", "OwnerInvariant"} /\ slot.transportState # "Closed"
    BY <1>1 DEF Connecting
  <2>4. Comes(slot, Fail(slot, "OwnerInvariant"), permits, committed, delivered, observed)
    BY <2>1, <2>3, FailComes
  <2> QED
    BY <2>1, <2>2, <2>4 DEF Preferences
<1>2. ASSUME OpenedEarly PROVE Lawful
  <2>1. Attempting("Transport") /\ Connecting(slot)
        /\ Attempted("Transport", Fail(slot, "OwnerInvariant"), transport, TRUE)
    BY <1>2 DEF OpenedEarly
  <2> QED
    BY <1>1, <2>1, AttemptedLawful
<1>3. ASSUME NEW v, Establish(v) PROVE Lawful
  <2>1. Attempting("Transport") /\ Connecting(slot) /\ v \in Transports
    BY <1>3, TransportFields DEF Establish
  <2>2. v \in Transports \cup {NoTransport} /\ v.present = transport.present
    BY <1>1, <2>1
  <2> DEFINE opened == PublishEvent([slot EXCEPT !.transportState = "Open"], "TransportOpened", "None")
             closed == CloseFor(slot, "ConnectFailed")
             failed == Fail(slot, "OwnerInvariant")
             r == IF v.open THEN opened ELSE slot
  <2>3. Closable(slot, {"ConnectFailed"})
    BY <2>1 DEF Closable, AfterOpen, CloseReasons, ExternalReasons, Connecting
  <2>4. /\ Yields(slot, opened, permits, committed, delivered, observed)
        /\ Yields(slot, closed, permits, committed, delivered, observed)
    BY <1>1, <2>1, <2>3, EstablishYields, CloseYields DEF CloseFor, OnCloseRequested
  <2>5. /\ Comes(slot, closed, permits, committed, delivered, observed) /\ GoesOn(closed)
        /\ Comes(slot, failed, permits, committed, delivered, observed)
        /\ Comes(slot, r, permits, committed, delivered, observed) /\ GoesOn(r)
    BY <1>1, <2>1, <2>4 DEF Yields, Comes, GoesOn
  <2>6. \/ Attempted("Transport", r, v, FALSE)
        \/ Attempted("Transport", closed, v, FALSE)
        \/ Attempted("Transport", failed, v, TRUE)
    BY <1>3 DEF Establish
  <2> HIDE DEF opened, closed, failed, r
  <2> QED
    BY <1>1, <2>1, <2>2, <2>5, <2>6, AttemptedLawful
<1> QED
  BY <1>2, <1>3

\* Attempts on an open transport fail, end the epoch or leave the slot alone.
LEMMA OpenAttempts ==
  ASSUME SlotIInv, NEW preference, Attempting(preference), slot.transportState = "Open"
  PROVE  /\ quantum.pc = "Io" /\ Ready(slot, permits, committed, delivered, observed)
         /\ Reading(slot) /\ ~Connecting(slot) /\ slot \in Slots
         /\ Comes(slot, slot, permits, committed, delivered, observed) /\ GoesOn(slot)
         /\ Comes(slot, Fail(slot, "OwnerInvariant"), permits, committed, delivered, observed)
         /\ Comes(slot, Fail([slot EXCEPT !.diverged = TRUE], "Core"),
                  permits, committed, delivered, observed)
         /\ Comes(slot, CloseFor(slot, "TransportLost"), permits, committed, delivered, observed)
         /\ GoesOn(CloseFor(slot, "TransportLost"))
         /\ Comes(slot, CloseFor(slot, "InboundRetainedCapacity"), permits, committed, delivered, observed)
         /\ GoesOn(CloseFor(slot, "InboundRetainedCapacity"))
         /\ delivered \in Seq(Outcomes) /\ observed \in Seq(Events)
         /\ transport \in Transports \cup {NoTransport}
         /\ \A v \in Transports : v \in Transports \cup {NoTransport} /\ v.present = transport.present
<1>1. /\ Ready(slot, permits, committed, delivered, observed) /\ slot \in Slots
      /\ Reading(slot) /\ Running(slot)
      /\ Comes(slot, slot, permits, committed, delivered, observed)
      /\ delivered \in Seq(Outcomes) /\ observed \in Seq(Events)
      /\ transport \in Transports \cup {NoTransport}
  BY QuantumRuns DEF Attempting
<1>2. quantum.pc = "Io" /\ \A v \in Transports : v.present = transport.present
  BY AttemptRuns
<1>3. slot.transportState # "Closed" /\ ~Connecting(slot)
  BY DEF Connecting
<1>4. "Core" \in {"Core", "OwnerInvariant"} /\ "OwnerInvariant" \in {"Core", "OwnerInvariant"}
  OBVIOUS
<1>5. /\ Comes(slot, Fail(slot, "OwnerInvariant"), permits, committed, delivered, observed)
      /\ Comes(slot, Fail([slot EXCEPT !.diverged = TRUE], "Core"), permits, committed, delivered, observed)
  BY <1>1, <1>3, <1>4, FailComes
<1>6. /\ Yields(slot, CloseFor(slot, "TransportLost"), permits, committed, delivered, observed)
      /\ Yields(slot, CloseFor(slot, "InboundRetainedCapacity"), permits, committed, delivered, observed)
  BY <1>1, <1>3, OpenCloses
<1>7. /\ Comes(slot, CloseFor(slot, "TransportLost"), permits, committed, delivered, observed)
      /\ GoesOn(CloseFor(slot, "TransportLost"))
      /\ Comes(slot, CloseFor(slot, "InboundRetainedCapacity"), permits, committed, delivered, observed)
      /\ GoesOn(CloseFor(slot, "InboundRetainedCapacity"))
  BY <1>6 DEF Yields, Comes
<1> QED
  BY <1>1, <1>2, <1>3, <1>5, <1>7 DEF GoesOn

LEMMA TransportWorkLawful ==
  ASSUME SlotIInv, NEW v, TransportWork(v)
  PROVE  Lawful
<1>1. Attempting("Transport") /\ ~Connecting(slot) /\ v \in Transports
  BY TransportFields DEF TransportWork
<1>2. slot.transportState = "Open"
  <2>1. slot \in Slots
    BY <1>1, QuantumRuns DEF Attempting
  <2>2. transport.work
    BY <1>1, <2>1, AttemptHas DEF Attempting
  <2> QED
    BY <1>1, <2>2, AttemptRuns
<1> DEFINE closed == CloseFor(slot, "TransportLost")
           failed == Fail(slot, "OwnerInvariant")
<1>3. /\ Comes(slot, slot, permits, committed, delivered, observed) /\ GoesOn(slot)
      /\ Comes(slot, closed, permits, committed, delivered, observed) /\ GoesOn(closed)
      /\ Comes(slot, failed, permits, committed, delivered, observed)
      /\ v \in Transports \cup {NoTransport} /\ v.present = transport.present
      /\ quantum.pc = "Io" /\ "Transport" \in Preferences
  BY <1>1, <1>2, OpenAttempts DEF Preferences
<1>4. \/ Attempted("Transport", slot, v, FALSE)
      \/ Attempted("Transport", closed, v, FALSE)
      \/ Attempted("Transport", failed, v, TRUE)
  BY DEF TransportWork
<1> HIDE DEF closed, failed
<1> QED
  BY <1>3, <1>4, AttemptedLawful

LEMMA DecodeLawful ==
  ASSUME SlotIInv, NEW result, Decode(result)
  PROVE  Lawful
<1>1. Attempting("Decode") /\ result \in NextFrame(slot.decoder) /\ "Decode" \in Preferences
  BY DEF Decode, Preferences
<1>2. /\ quantum.pc = "Io" /\ Ready(slot, permits, committed, delivered, observed) /\ Reading(slot)
      /\ slot \in Slots /\ delivered \in Seq(Outcomes) /\ observed \in Seq(Events)
      /\ transport \in Transports \cup {NoTransport}
  BY <1>1, QuantumRuns DEF Attempting
<1>3. slot.decoderPending
  BY <1>1, <1>2, AttemptHas DEF Attempting
<1> DEFINE r == Decoded(slot, result)
<1>4. Yields(slot, r, permits, committed, delivered, observed)
  BY <1>1, <1>2, <1>3, DecodedYields
<1>5. Attempted("Decode", r, transport, FALSE)
  BY DEF Decode
<1> HIDE DEF r
<1>6. Comes(slot, r, permits, committed, delivered, observed) /\ GoesOn(r)
  BY <1>4 DEF Yields, Comes
<1> QED
  BY <1>1, <1>2, <1>5, <1>6, AttemptedLawful

LEMMA ReadsLawful ==
  ASSUME SlotIInv
  PROVE  /\ ReadWithoutRoom => Lawful
         /\ \A n \in Nat : \A v : ReadBytes(n, v) => Lawful
         /\ \A v : ReadNothing(v) => Lawful
<1> DEFINE lost == CloseFor(slot, "TransportLost")
           full == CloseFor(slot, "InboundRetainedCapacity")
           failed == Fail(slot, "OwnerInvariant")
<1>1. ASSUME Attempting("Read")
      PROVE  /\ quantum.pc = "Io" /\ Ready(slot, permits, committed, delivered, observed)
             /\ Reading(slot) /\ ~Connecting(slot) /\ "Read" \in Preferences
             /\ Comes(slot, slot, permits, committed, delivered, observed) /\ GoesOn(slot)
             /\ Comes(slot, lost, permits, committed, delivered, observed) /\ GoesOn(lost)
             /\ Comes(slot, full, permits, committed, delivered, observed) /\ GoesOn(full)
             /\ Comes(slot, failed, permits, committed, delivered, observed)
             /\ delivered \in Seq(Outcomes) /\ observed \in Seq(Events)
             /\ transport \in Transports \cup {NoTransport}
             /\ \A v \in Transports : v \in Transports \cup {NoTransport} /\ v.present = transport.present
  <2>1. slot \in Slots
    BY <1>1, QuantumRuns DEF Attempting
  <2>2. slot.transportState = "Open"
    BY <1>1, <2>1, AttemptHas DEF Attempting
  <2> QED
    BY <1>1, <2>2, OpenAttempts DEF Preferences
<1>2. ASSUME ReadWithoutRoom PROVE Lawful
  <2>1. Attempting("Read") /\ Attempted("Read", full, transport, FALSE)
    BY <1>2 DEF ReadWithoutRoom
  <2> HIDE DEF full, lost, failed
  <2> QED
    BY <1>1, <2>1, AttemptedLawful
<1>3. ASSUME NEW n \in Nat, NEW v, ReadBytes(n, v) PROVE Lawful
  <2>1. Attempting("Read") /\ v \in Transports
    BY <1>3, TransportFields DEF ReadBytes
  <2>2. PICK result \in Feed(slot.decoder, n) :
          Attempted("Read", IF result.error = "None"
                            THEN [[slot EXCEPT !.decoder = result.driver] EXCEPT !.decoderPending = TRUE]
                            ELSE CloseDecodeError([slot EXCEPT !.decoder = result.driver], result.error),
                    v, FALSE)
    BY <1>3 DEF ReadBytes
  <2> DEFINE fed == [slot EXCEPT !.decoder = result.driver]
             r == IF result.error = "None" THEN [fed EXCEPT !.decoderPending = TRUE]
                  ELSE CloseDecodeError(fed, result.error)
  <2>3. Attempted("Read", r, v, FALSE)
    BY <2>2
  <2>4. fed = [slot EXCEPT !.decoder = result.driver]
    OBVIOUS
  <2> HIDE DEF fed, full, lost, failed
  <2>5. Yields(slot, r, permits, committed, delivered, observed)
    BY <1>1, <2>1, <2>2, <2>4, FedYields
  <2> HIDE DEF r
  <2>6. Comes(slot, r, permits, committed, delivered, observed) /\ GoesOn(r)
    BY <2>5 DEF Yields, Comes
  <2> QED
    BY <1>1, <2>1, <2>3, <2>6, AttemptedLawful
<1>4. ASSUME NEW v, ReadNothing(v) PROVE Lawful
  <2>1. /\ Attempting("Read") /\ v \in Transports
        /\ \/ Attempted("Read", lost, v, FALSE)
           \/ Attempted("Read", slot, v, FALSE)
           \/ Attempted("Read", failed, v, TRUE)
    BY <1>4, TransportFields DEF ReadNothing
  <2> HIDE DEF full, lost, failed
  <2> QED
    BY <1>1, <2>1, AttemptedLawful
<1> QED
  BY <1>2, <1>3, <1>4

LEMMA WritesLawful ==
  ASSUME SlotIInv
  PROVE  /\ WriteEmpty => Lawful
         /\ \A n \in Nat : \A v : WriteBytes(n, v) => Lawful
         /\ \A v : WriteNothing(v) => Lawful
<1> DEFINE lost == CloseFor(slot, "TransportLost")
           failed == Fail([slot EXCEPT !.diverged = TRUE], "Core")
<1>1. ASSUME Attempting("Write")
      PROVE  /\ quantum.pc = "Io" /\ "Write" \in Preferences
             /\ Comes(slot, slot, permits, committed, delivered, observed) /\ GoesOn(slot)
             /\ Comes(slot, lost, permits, committed, delivered, observed) /\ GoesOn(lost)
             /\ Comes(slot, failed, permits, committed, delivered, observed)
             /\ \A n \in Nat : /\ Comes(slot, AdvanceFront(slot, n), permits, committed, delivered, observed)
                               /\ GoesOn(AdvanceFront(slot, n))
             /\ transport \in Transports \cup {NoTransport}
             /\ \A v \in Transports : v \in Transports \cup {NoTransport} /\ v.present = transport.present
  <2>1. slot \in Slots
    BY <1>1, QuantumRuns DEF Attempting
  <2>2. slot.transportState = "Open" /\ HasFrames(slot)
    BY <1>1, <2>1, AttemptHas DEF Attempting
  <2>3. /\ Ready(slot, permits, committed, delivered, observed) /\ Reading(slot)
        /\ delivered \in Seq(Outcomes) /\ observed \in Seq(Events)
    BY <1>1, <2>2, OpenAttempts
  <2>4. \A n \in Nat : Yields(slot, AdvanceFront(slot, n), permits, committed, delivered, observed)
    BY <2>2, <2>3, AdvanceFrontYields
  <2>5. \A n \in Nat : /\ Comes(slot, AdvanceFront(slot, n), permits, committed, delivered, observed)
                       /\ GoesOn(AdvanceFront(slot, n))
    BY <2>4 DEF Yields, Comes
  <2> QED
    BY <1>1, <2>2, <2>5, OpenAttempts DEF Preferences
<1>2. ASSUME WriteEmpty PROVE Lawful
  <2>1. Attempting("Write") /\ Attempted("Write", AdvanceFront(slot, 0), transport, FALSE)
    BY <1>2 DEF WriteEmpty
  <2> DEFINE r == AdvanceFront(slot, 0)
  <2>2. Comes(slot, r, permits, committed, delivered, observed) /\ GoesOn(r)
    BY <1>1, <2>1
  <2> HIDE DEF lost, failed, r
  <2> QED
    BY <1>1, <2>1, <2>2, AttemptedLawful DEF r
<1>3. ASSUME NEW n \in Nat, NEW v, WriteBytes(n, v) PROVE Lawful
  <2>1. Attempting("Write") /\ v \in Transports /\ Attempted("Write", AdvanceFront(slot, n), v, FALSE)
    BY <1>3, TransportFields DEF WriteBytes
  <2> HIDE DEF lost, failed
  <2> QED
    BY <1>1, <2>1, AttemptedLawful
<1>4. ASSUME NEW v, WriteNothing(v) PROVE Lawful
  <2>1. /\ Attempting("Write") /\ v \in Transports
        /\ \/ Attempted("Write", lost, v, FALSE)
           \/ Attempted("Write", slot, v, FALSE)
           \/ Attempted("Write", failed, v, TRUE)
    BY <1>4, TransportFields DEF WriteNothing
  <2> HIDE DEF lost, failed
  <2> QED
    BY <1>1, <2>1, AttemptedLawful
<1> QED
  BY <1>2, <1>3, <1>4

LEMMA ShutdownCalledLawful ==
  ASSUME SlotIInv, ShutdownRuns, NEW v \in Transports,
         NEW r, Comes(slot, r, permits, committed, delivered, observed), r.closeRequest # NoRequest
  PROVE  /\ ShutdownCalled(r, v, FALSE) /\ GoesOn(r) => Lawful
         /\ ShutdownCalled(r, v, TRUE) => Lawful
<1> DEFINE n == CapturePressure(r, v)
<1>1. /\ ~report.recovered /\ Running(slot) /\ broken \in BOOLEAN
      /\ slot.transportState # "Closed" /\ quantum.work < IoOperations
  BY QuantumRuns DEF ShutdownRuns
<1>2. v.over \in BOOLEAN /\ v.present = transport.present
  <2>1. transport \in Transports \cup {NoTransport}
    BY QuantumRuns DEF ShutdownRuns
  <2>2. \A u \in Transports : u.present = TRUE /\ u.over \in BOOLEAN
    BY DEF Transports
  <2> QED
    BY <2>1, <2>2, TransportFields DEF ShutdownRuns
<1>3. Comes(slot, n, permits, committed, delivered, observed) /\ (GoesOn(r) => GoesOn(n) \/ v.over)
  BY <1>1, CaptureComes
<1>4. n.closeRequest # NoRequest
  <2>1. r \in Slots
    BY DEF Comes, During, Owned
  <2> QED
    BY <2>1 DEF CapturePressure, Fail, Slots
<1> HIDE DEF n
<1>5. ASSUME NEW breach \in BOOLEAN, ShutdownCalled(r, v, breach), GoesOn(r) \/ breach
      PROVE  Lawful
  <2>1. /\ transport' = v /\ broken' = (broken \/ breach \/ v.over) /\ UNCHANGED outsideVars
        /\ Continue(n, v, "Shutdown", FALSE)
    BY <1>5 DEF ShutdownCalled, n
  <2>2. Beside
    BY <1>1, <1>2, <2>1 DEF Beside
  <2>3. GoesOn(n) \/ broken'
    BY <1>2, <1>3, <1>5, <2>1
  <2> QED
    BY <1>1, <1>3, <1>4, <2>1, <2>2, <2>3, ContinueLawful
<1> QED
  BY <1>5

LEMMA ShutdownLawful ==
  ASSUME SlotIInv
  PROVE  /\ ShutdownTimesOut => Lawful
         /\ \A v : ShutdownProgresses(v) => Lawful
         /\ ShutdownDone => Lawful
<1>1. ASSUME ShutdownRuns
      PROVE  /\ ~report.recovered /\ Running(slot) /\ slot.transportState # "Closed"
             /\ slot.closeRequest # NoRequest /\ quantum.work < IoOperations
             /\ Comes(slot, slot, permits, committed, delivered, observed)
             /\ \A shutdown \in Shutdowns :
                  /\ Comes(slot, SetShutdown(slot, shutdown), permits, committed, delivered, observed)
                  /\ GoesOn(SetShutdown(slot, shutdown))
                  /\ SetShutdown(slot, shutdown).closeRequest # NoRequest
  <2>1. /\ ~report.recovered /\ Running(slot) /\ slot.transportState # "Closed"
        /\ Comes(slot, slot, permits, committed, delivered, observed)
        /\ quantum.work < IoOperations
    BY <1>1, QuantumRuns DEF ShutdownRuns
  <2>2. ShuttingDown(slot) /\ During(slot, permits, committed, delivered, observed)
    BY <1>1, <2>1 DEF ShutdownRuns, Comes
  <2>3. \A shutdown \in Shutdowns :
          /\ Comes(slot, SetShutdown(slot, shutdown), permits, committed, delivered, observed)
          /\ Running(SetShutdown(slot, shutdown))
          /\ SetShutdown(slot, shutdown).closeRequest.kind = "Core"
    BY <2>1, <2>2, ShutdownComes
  <2> QED
    BY <2>1, <2>2, <2>3, RequestsAre DEF GoesOn, ShuttingDown
<1>2. ASSUME ShutdownTimesOut PROVE Lawful
  <2> DEFINE r == SetShutdown(slot, "Immediate")
  <2>1. /\ ShutdownRuns /\ Continue(r, transport, "Shutdown", FALSE)
        /\ UNCHANGED <<transport, broken, outsideVars>>
    BY <1>2 DEF ShutdownTimesOut
  <2>2. /\ Comes(slot, r, permits, committed, delivered, observed) /\ GoesOn(r)
        /\ r.closeRequest # NoRequest
    BY <1>1, <2>1 DEF Shutdowns
  <2> HIDE DEF r
  <2>3. Beside
    BY <1>1, <2>1, UntouchedBeside
  <2> QED
    BY <1>1, <2>1, <2>2, <2>3, ContinueLawful
<1>3. ASSUME NEW v, ShutdownProgresses(v) PROVE Lawful
  <2> DEFINE forward == SetShutdown(slot, IF v.complete THEN "Complete" ELSE "Started")
             forced == SetShutdown(slot, "Immediate")
             failed == Fail(slot, "OwnerInvariant")
  <2>1. /\ ShutdownRuns /\ v \in Transports
        /\ \/ ShutdownCalled(forward, v, FALSE)
           \/ ShutdownCalled(forced, v, FALSE)
           \/ ShutdownCalled(failed, v, TRUE)
    BY <1>3, TransportFields DEF ShutdownProgresses
  <2>2. /\ Comes(slot, forced, permits, committed, delivered, observed) /\ GoesOn(forced)
        /\ forced.closeRequest # NoRequest
        /\ Comes(slot, forward, permits, committed, delivered, observed) /\ GoesOn(forward)
        /\ forward.closeRequest # NoRequest
    BY <1>1, <2>1 DEF Shutdowns
  <2>3. Comes(slot, failed, permits, committed, delivered, observed) /\ failed.closeRequest # NoRequest
    <3>1. "OwnerInvariant" \in {"Core", "OwnerInvariant"}
      OBVIOUS
    <3>2. slot \in Slots
      BY <1>1, <2>1 DEF Comes, During, Owned
    <3> QED
      BY <1>1, <2>1, <3>1, <3>2, FailComes DEF Fail, Slots
  <2> HIDE DEF forward, forced, failed
  <2> QED
    BY <2>1, <2>2, <2>3, ShutdownCalledLawful
<1>4. ASSUME ShutdownDone PROVE Lawful
  <2> DEFINE s == IF ShutdownRuns THEN ObserveShutdownComplete(slot, transport.complete) ELSE slot
             saturated == /\ quantum.work = IoOperations
                          /\ transport.present
                          /\ HasRunnableShutdown(s, transport)
  <2>1. /\ quantum.pc = "Shutdown" /\ Return(s, saturated)
        /\ UNCHANGED <<transport, broken, outsideVars>>
    BY <1>4 DEF ShutdownDone
  <2>2. /\ ~report.recovered /\ Running(slot)
        /\ Comes(slot, slot, permits, committed, delivered, observed)
    BY <2>1, QuantumRuns
  <2>3. Comes(slot, s, permits, committed, delivered, observed) /\ GoesOn(s)
    <3>1. CASE s = slot
      BY <2>2, <3>1 DEF GoesOn
    <3>2. CASE ShutdownRuns /\ s = SetShutdown(slot, "Complete")
      BY <1>1, <3>2 DEF Shutdowns
    <3> QED
      BY <3>1, <3>2 DEF ObserveShutdownComplete
  <2> HIDE DEF s, saturated
  <2>4. Beside
    BY <2>1, <2>2, UntouchedBeside
  <2> QED
    BY <2>1, <2>2, <2>3, <2>4, ReturnLawful
<1> QED
  BY <1>2, <1>3, <1>4

(***************************************************************************)
(* The calls of the application.                                           *)
(***************************************************************************)
LEMMA CallRuns ==
  ASSUME SlotIInv, Idle
  PROVE  /\ ~report.recovered /\ quantum.pc = "Idle"
         /\ During(slot, permits, committed, delivered, observed) /\ Staged(slot)
         /\ slot \in Slots /\ Outside
         /\ delivered \in Seq(Outcomes) /\ observed \in Seq(Events)
         /\ Running(slot) => /\ Ready(slot, permits, committed, delivered, observed) /\ Reading(slot)
                             /\ Comes(slot, slot, permits, committed, delivered, observed)
<1>1. ~report.recovered /\ quantum.pc = "Idle"
  BY DEF Idle
<1>2. /\ Kept(slot, permits, committed, delivered, observed) /\ slot \in Slots /\ Outside
      /\ delivered \in Seq(Outcomes) /\ observed \in Seq(Events)
  BY <1>1, SlotRuns
<1>3. During(slot, permits, committed, delivered, observed) /\ Staged(slot)
  BY <1>2 DEF Kept
<1>4. Running(slot) => Comes(slot, slot, permits, committed, delivered, observed)
  BY <1>3 DEF Comes, Moves
<1> QED
  BY <1>1, <1>2, <1>3, <1>4, DuringReady

LEMMA CalledLawful ==
  ASSUME SlotIInv, Idle, Running(slot), NEW r,
         Comes(slot, r, permits', committed', delivered, observed), GoesOn(r),
         committed' \subseteq Operations, Called(r)
  PROVE  Lawful
<1>1. ~report.recovered /\ quantum.pc = "Idle" /\ Outside /\ (transport.over => broken)
  BY CallRuns, SlotRuns
<1>2. slot' = Latch(r) /\ wake' = TRUE
      /\ UNCHANGED <<transport, now, quantum, broken, observed, delivered, report>>
  BY DEF Called
<1>3. Around /\ Driven'
  BY <1>1, <1>2 DEF Around, Outside, Driven
<1>4. Comes(slot, r, permits', committed', delivered', observed')
  BY <1>2
<1> QED
  BY <1>1, <1>2, <1>3, <1>4, LatchLawful

LEMMA ControlledLawful ==
  ASSUME SlotIInv, NEW r,
         Idle /\ Running(slot) => Yields(slot, r, permits, committed, delivered, observed),
         Controlled(r)
  PROVE  Lawful
<1>1. Idle /\ Running(slot) /\ Called(r) /\ UNCHANGED <<permits, committed>>
  BY DEF Controlled
<1>2. Comes(slot, r, permits', committed', delivered, observed) /\ GoesOn(r)
  BY <1>1 DEF Yields, Comes
<1>3. committed' \subseteq Operations
  BY <1>1, CallRuns DEF Outside
<1> QED
  BY <1>1, <1>2, <1>3, CalledLawful

LEMMA ControlsLawful ==
  ASSUME SlotIInv
  PROVE  /\ OpenAdmission => Lawful
         /\ \A operation : Cancel(operation) => Lawful
         /\ \A deadline \in DrainDeadlines : BeginDrain(deadline) => Lawful
         /\ \A reason \in RequestedReasons : Finalize(reason) => Lawful
<1>1. ASSUME OpenAdmission PROVE Lawful
  <2> DEFINE r == PublishEvent(Interpret(slot, OnOpenAdmission(slot.machine)), "AdmissionOpened", "None")
  <2>1. /\ slot.transportState = "Open"
        /\ Interpret(slot, OnOpenAdmission(slot.machine)).machine # slot.machine
        /\ Controlled(r)
    BY <1>1 DEF OpenAdmission
  <2>2. Idle /\ Running(slot) => Yields(slot, r, permits, committed, delivered, observed)
    BY <2>1, CallRuns, OpenAdmissionYields
  <2> HIDE DEF r
  <2> QED
    BY <2>1, <2>2, ControlledLawful
<1>2. ASSUME NEW operation, Cancel(operation) PROVE Lawful
  <2> DEFINE r == Interpret(slot, OnCancel(slot.machine, operation))
  <2>1. Controlled(r)
    BY <1>2 DEF Cancel
  <2>2. Idle /\ Running(slot) => Yields(slot, r, permits, committed, delivered, observed)
    BY CallRuns, CancelYields
  <2> HIDE DEF r
  <2> QED
    BY <2>1, <2>2, ControlledLawful
<1>3. ASSUME NEW deadline \in DrainDeadlines, BeginDrain(deadline) PROVE Lawful
  <2> DEFINE r == Interpret([slot EXCEPT !.drainDeadline = deadline], OnBeginDrain(slot.machine))
  <2>1. Controlled(r) /\ OnBeginDrain(slot.machine).machine # slot.machine
    BY <1>3 DEF BeginDrain
  <2>2. deadline \in Moments
    BY ClockAssumption
  <2>3. Idle /\ Running(slot) => Yields(slot, r, permits, committed, delivered, observed)
    BY <2>1, <2>2, CallRuns, BeginDrainYields
  <2> HIDE DEF r
  <2> QED
    BY <2>1, <2>3, ControlledLawful
<1>4. ASSUME NEW reason \in RequestedReasons, Finalize(reason) PROVE Lawful
  <2> DEFINE r == IF ShuttingDown(slot) THEN ForceShutdown(slot) ELSE CloseFor(slot, reason)
  <2>1. Controlled(r)
    BY <1>4 DEF Finalize
  <2>2. Closable(slot, {reason})
    BY SlotAssumption DEF Closable, AfterOpen, BeforeOpen, CloseReasons, ExternalReasons
  <2>3. ASSUME Idle, Running(slot)
        PROVE  Yields(slot, r, permits, committed, delivered, observed)
    <3>1. CASE ShuttingDown(slot)
      <4>1. r = SetShutdown(slot, "Immediate") /\ "Immediate" \in Shutdowns
        BY <3>1 DEF ForceShutdown, Shutdowns
      <4>2. During(slot, permits, committed, delivered, observed)
        BY <2>3, CallRuns
      <4>3. Comes(slot, r, permits, committed, delivered, observed) /\ Running(r)
        BY <2>3, <3>1, <4>1, <4>2, ShutdownComes
      <4> QED
        BY <4>3 DEF Yields, Comes, GoesOn
    <3>2. CASE ~ShuttingDown(slot)
      <4>1. Yields(slot, CloseFor(slot, reason), permits, committed, delivered, observed)
        BY <2>2, <2>3, CallRuns, CloseYields DEF CloseFor, OnCloseRequested
      <4> QED
        BY <3>2, <4>1
    <3> QED
      BY <3>1, <3>2
  <2> HIDE DEF r
  <2> QED
    BY <2>1, <2>3, ControlledLawful
<1> QED
  BY <1>1, <1>2, <1>3, <1>4

\* The record a commit appends.
Commits(m, p, r) ==
  /\ r \in Machine /\ Sound(r) /\ DrainWaits(r)
  /\ r.phase = m.phase /\ r.gate = m.gate /\ r.closeReason = m.closeReason
  /\ r.nextOperation = m.nextOperation
  /\ Live(r.pending) = Live(m.pending) \cup {p.operation} /\ p.operation \notin Live(m.pending)
  /\ HeldOperations(r) = HeldOperations(m) \cup {p.operation}
  /\ \A i \in DOMAIN r.pending :
       \/ r.pending[i].delivery = "NotSent"
       \/ i \in DOMAIN m.pending /\ r.pending[i] = m.pending[i]
  /\ HeldPositions(m) \subseteq HeldPositions(r)
  /\ HeldPositions(m) # {} => HeldPositions(r) # {} /\ FrontHeld(r) = FrontHeld(m)

LEMMA CommitAppends ==
  ASSUME NEW m \in Machine, Sound(m), NEW P, Books(m, P), NEW p \in P, NEW frame, frame.retained \in Nat,
         NEW r, r = CommitPermit(m, p, frame)
  PROVE  Commits(m, p, r)
<1> DEFINE k == Len(m.pending) + 1
           record == [operation |-> p.operation, effect |-> p.effect,
                      deadline |-> p.deadline,
                      reservation |-> [p.reservation EXCEPT !.writeRetained = frame.retained],
                      phase |-> "Queued", completion |-> p.completion,
                      delivery |-> "NotSent", writeHeld |-> TRUE]
<1>1. /\ Identified(m, P) /\ m.pending \in Seq(OperationRecord) /\ Distinct(m.pending) /\ p \in Permit
      /\ ~Holds(m.pending, p.operation)
  BY MachineFields DEF Books, Identified
<1>2. r \in Machine /\ r.phase = m.phase /\ r.gate = m.gate /\ r.pending # <<>>
  BY <1>1, CommitPermitType
<1>3. /\ r.pending = Append(m.pending, record) /\ r.nextOperation = m.nextOperation
      /\ r.closeReason = m.closeReason
  BY DEF CommitPermit, Machine
<1>4. /\ record.operation = p.operation /\ record.writeHeld = TRUE /\ record.phase = "Queued"
      /\ record.delivery = "NotSent"
  OBVIOUS
<1> HIDE DEF record
<1>5. /\ k \in Nat /\ DOMAIN m.pending = 1..(k - 1) /\ DOMAIN r.pending = 1..k /\ r.pending[k] = record
      /\ \A i \in 1..(k - 1) : r.pending[i] = m.pending[i]
  BY <1>1, <1>3
<1> HIDE DEF k
<1>6. \A i \in DOMAIN m.pending : m.pending[i].operation # p.operation
  BY <1>1 DEF Holds
<1>7. /\ k \in DOMAIN r.pending
      /\ \A i \in DOMAIN r.pending : i = k \/ (i \in DOMAIN m.pending /\ r.pending[i] = m.pending[i])
  <2>1. k \in 1..k
    BY <1>5 DEF k
  <2>2. \A i \in 1..k : i = k \/ i \in 1..(k - 1)
    BY <1>5
  <2> QED
    BY <1>5, <2>1, <2>2
<1>8. Sound(r)
  <2>1. Distinct(r.pending)
    <3>1. ASSUME NEW a \in DOMAIN r.pending, NEW b \in DOMAIN r.pending,
                 r.pending[a].operation = r.pending[b].operation
          PROVE  a = b
      <4>1. \A i \in DOMAIN r.pending : i # k =>
              /\ i \in DOMAIN m.pending /\ r.pending[i].operation = m.pending[i].operation
              /\ r.pending[i].operation # p.operation
        BY <1>6, <1>7
      <4>2. r.pending[k].operation = p.operation
        BY <1>4, <1>5
      <4> QED
        BY <1>1, <3>1, <4>1, <4>2 DEF Distinct
    <3> QED
      BY <3>1 DEF Distinct
  <2>2. RecordSound(record)
    BY <1>4 DEF RecordSound
  <2> QED
    BY <1>5, <1>7, <2>1, <2>2 DEF Sound
<1>9. Live(r.pending) = Live(m.pending) \cup {p.operation} /\ p.operation \notin Live(m.pending)
  <2>1. \A i \in DOMAIN m.pending : i \in DOMAIN r.pending /\ r.pending[i] = m.pending[i]
    BY <1>5
  <2>2. p.operation \notin Live(m.pending)
    BY <1>6 DEF Live
  <2>3. p.operation \in Live(r.pending)
    BY <1>4, <1>5, <1>7 DEF Live
  <2>4. Live(m.pending) \subseteq Live(r.pending)
    BY <2>1 DEF Live
  <2>5. ASSUME NEW x \in Live(r.pending) PROVE x \in Live(m.pending) \cup {p.operation}
    <3>1. PICK i \in DOMAIN r.pending : r.pending[i].phase # "Terminal" /\ x = r.pending[i].operation
      BY DEF Live
    <3> QED
      BY <1>4, <1>5, <1>7, <3>1 DEF Live
  <2> QED
    BY <2>2, <2>3, <2>4, <2>5
<1>10. HeldPositions(r) = HeldPositions(m) \cup {k}
  BY <1>4, <1>5, <1>7 DEF HeldPositions
<1>11. HeldOperations(r) = HeldOperations(m) \cup {p.operation}
  <2>1. \A i \in HeldPositions(m) : r.pending[i] = m.pending[i]
    BY <1>5 DEF HeldPositions
  <2> QED
    BY <1>4, <1>5, <1>10, <2>1 DEF HeldOperations
<1>12. HeldPositions(m) # {} => FrontHeld(r) = FrontHeld(m)
  <2> SUFFICES ASSUME HeldPositions(m) # {} PROVE FrontHeld(r) = FrontHeld(m)
    OBVIOUS
  <2> DEFINE i == Min(HeldPositions(m))
  <2>1. HeldPositions(m) \subseteq 1..(k - 1) /\ HeldPositions(m) \subseteq Nat
    BY <1>5 DEF HeldPositions
  <2>2. i \in HeldPositions(m) /\ \A y \in HeldPositions(m) : i <= y
    BY <2>1, MinIs
  <2> HIDE DEF i
  <2>3. HeldPositions(r) \subseteq Nat /\ i \in HeldPositions(r) /\ \A y \in HeldPositions(r) : i <= y
    BY <1>5, <1>10, <2>1, <2>2
  <2>4. Min(HeldPositions(r)) = i
    BY <2>3, MinIs
  <2>5. r.pending[i] = m.pending[i]
    BY <1>5, <2>1, <2>2
  <2> QED
    BY <2>4, <2>5 DEF FrontHeld, i
<1>13. DrainWaits(r)
  BY <1>2 DEF DrainWaits
<1>14. \A i \in DOMAIN r.pending :
         \/ r.pending[i].delivery = "NotSent"
         \/ i \in DOMAIN m.pending /\ r.pending[i] = m.pending[i]
  BY <1>4, <1>5, <1>7
<1> QED
  BY <1>2, <1>3, <1>8, <1>9, <1>10, <1>11, <1>12, <1>13, <1>14 DEF Commits

Frames(s, operation, wire, f) ==
  f = [s EXCEPT !.wire = [o \in DOMAIN s.wire \cup {operation} |->
                            IF o = operation THEN wire ELSE s.wire[o]]]

LEMMA FramedSlot ==
  ASSUME NEW s \in Slots, NEW operation \in Operations, NEW wire \in WireLengths,
         NEW f, Frames(s, operation, wire, f)
  PROVE  /\ f \in Slots /\ DOMAIN f.wire = DOMAIN s.wire \cup {operation}
         /\ f.machine = s.machine /\ f.written = s.written /\ f.timers = s.timers
         /\ f.outcomes = s.outcomes /\ Carries(s, f) /\ Stays(s, f)
<1> DEFINE wires == [o \in DOMAIN s.wire \cup {operation} |-> IF o = operation THEN wire ELSE s.wire[o]]
<1>1. s.wire \in Wires
  BY SlotFields
<1>2. PICK operations \in SUBSET Operations : s.wire \in [operations -> WireLengths]
  BY <1>1 DEF Wires
<1>3. wires \in [operations \cup {operation} -> WireLengths] /\ DOMAIN wires = DOMAIN s.wire \cup {operation}
  BY <1>2
<1>4. wires \in Wires
  BY <1>3 DEF Wires
<1>5. f = [s EXCEPT !.wire = wires]
  BY DEF Frames
<1> HIDE DEF wires
<1> QED
  BY <1>3, <1>4, <1>5 DEF Slots, Carries, Stays

LEMMA CommitComes ==
  ASSUME NEW P, NEW C, NEW D \in Seq(Outcomes), NEW O \in Seq(Events),
         NEW s, Ready(s, P, C, D, O), Reading(s), NEW p \in P, NEW frame, frame.retained \in Nat,
         MachineCommits(s.machine, p, frame),
         NEW f \in Slots, DOMAIN f.wire = DOMAIN s.wire \cup {p.operation},
         f.machine = s.machine, f.written = s.written, f.timers = s.timers, f.outcomes = s.outcomes,
         Carries(s, f), Stays(s, f),
         NEW t, t = [Transition(CommitPermit(s.machine, p, frame)) EXCEPT
                       !.schedule = {<<p.operation, p.deadline>>}]
  PROVE  Yields(s, Interpret(f, t), P \ {p}, C \cup {p.operation}, D, O)
<1> DEFINE m == s.machine
           r == CommitPermit(m, p, frame)
           Q == P \ {p}
           E == C \cup {p.operation}
<1>1. /\ s \in Slots /\ Running(s) /\ Owned(s, P) /\ Fated(s, P, C, D) /\ Placed(s) /\ DrainTimed(s)
      /\ Logged(s, O)
  BY DEF Ready
<1>2. /\ m \in Machine /\ Books(m, P) /\ Sound(m) /\ DrainWaits(m) /\ Fronted(m, s.written)
      /\ DOMAIN s.wire = HeldOperations(m) /\ s.timers = Timed(m.pending) /\ Roomy(s, P)
      /\ s.outcomes \in Seq(Outcomes)
  BY <1>1, SlotFields DEF Owned
<1>3. Commits(m, p, r)
  BY <1>2, CommitAppends
<1>4. Books(r, Q) /\ Timed(r.pending) = Timed(m.pending) \cup {<<p.operation, p.deadline>>}
  BY ZenonT(40), <1>2, CommittedBooks
<1>5. Identified(m, P) /\ p.operation \in Operations /\ p.deadline \in Moments
  <2>1. Identified(m, P)
    BY <1>2 DEF Books
  <2>2. p \in Permit
    BY <2>1 DEF Identified
  <2> QED
    BY <2>1, <2>2, PermitFields
<1> HIDE DEF r
<1>6. /\ t.machine = r /\ t.cancel = {} /\ t.publish = {} /\ t.schedule = {<<p.operation, p.deadline>>}
      /\ t \in Transitions
  <2> DEFINE timer == <<p.operation, p.deadline>>
  <2>1. t = [machine |-> r, schedule |-> {timer}, cancel |-> {}, discard |-> <<>>, publish |-> {}]
    BY DEF Transition, r
  <2>2. r \in Machine /\ {timer} \subseteq Operations \X Moments
    BY <1>3, <1>5 DEF Commits
  <2> HIDE DEF timer
  <2>3. t \in Transitions
    <3> DEFINE u == Transition(r)
               schedule == {timer}
    <3>1. u \in Transitions
      BY <2>2, TransitionType
    <3>2. t = [u EXCEPT !.schedule = schedule]
      BY DEF r, timer
    <3> HIDE DEF u, schedule
    <3>3. schedule \subseteq Operations \X Moments
      BY <2>2 DEF schedule
    <3> QED
      BY <3>1, <3>2, <3>3 DEF Transitions
  <2> QED
    BY <2>1, <2>3 DEF timer
<1>7. /\ m.pending \in Seq(OperationRecord) /\ Distinct(m.pending)
  BY <1>2, MachineFields DEF Sound
<1>8. /\ Cardinality(Q) = Cardinality(P) - 1 /\ Cardinality(P) \in Nat
      /\ IsFiniteSet(Live(m.pending)) /\ Cardinality(Live(m.pending)) \in Nat
      /\ MaxOperations \in Nat /\ Len(s.outcomes) \in Nat
  <2>1. Cardinality(Q) = Cardinality(P) - 1 /\ Cardinality(P) \in Nat
    BY <1>2, <1>5, OtherPermits
  <2>2. IsFiniteSet(Live(m.pending)) /\ Cardinality(Live(m.pending)) \in Nat
    BY <1>7, LiveCounted
  <2> QED
    BY <1>2, <2>1, <2>2, LimitsAssumption
<1>9. Cardinality(Live(r.pending)) = Cardinality(Live(m.pending)) + 1
  <2>1. Live(r.pending) = Live(m.pending) \cup {p.operation} /\ p.operation \notin Live(m.pending)
    BY <1>3 DEF Commits
  <2> DEFINE L == Live(m.pending)
  <2>2. IsFiniteSet(L) /\ p.operation \notin L
    BY <1>8, <2>1
  <2> HIDE DEF L
  <2>3. Cardinality(L \cup {p.operation}) = Cardinality(L) + 1
    BY <2>2, FS_AddElement
  <2> QED
    BY <2>1, <2>3 DEF L
<1>10. /\ Len(s.outcomes) + Cardinality(Live(m.pending)) <= MaxOperations
       /\ Len(s.outcomes) + Cardinality(Live(r.pending)) + Cardinality(Q) <= MaxOperations
       /\ \A i \in DOMAIN s.outcomes : s.outcomes[i].reply <= ReplyBytes
       /\ s.recoveryOutcomes = <<>>
  <2>1. /\ Len(s.outcomes) + Cardinality(Live(m.pending)) + Cardinality(P) <= MaxOperations
        /\ \A i \in DOMAIN s.outcomes : s.outcomes[i].reply <= ReplyBytes
        /\ s.recoveryOutcomes = <<>>
    BY <1>2 DEF Roomy
  <2> DEFINE a == Len(s.outcomes)
             b == Cardinality(Live(m.pending))
             c == Cardinality(P)
             d == Cardinality(Live(r.pending))
             e == Cardinality(Q)
  <2>2. /\ a \in Nat /\ b \in Nat /\ c \in Nat /\ MaxOperations \in Nat
        /\ d = b + 1 /\ e = c - 1 /\ a + b + c <= MaxOperations
    BY <1>8, <1>9, <2>1
  <2>3. a + b <= MaxOperations /\ a + d + e <= MaxOperations
    <3> HIDE DEF a, b, c, d, e
    <3> QED
      BY <2>2
  <2> QED
    BY <2>1, <2>3
<1>11. /\ Books(t.machine, Q) /\ HeldOperations(t.machine) \subseteq DOMAIN f.wire
       /\ Distinct(f.machine.pending)
       /\ CancelDeadline(f.timers, t.cancel) \cup t.schedule = Timed(t.machine.pending)
       /\ t.schedule = {} \/ \E x : t.schedule = {x}
       /\ \A x, y \in t.publish : x.operation = y.operation => x = y
       /\ \A x \in t.publish : x.operation \in Live(f.machine.pending) /\ x.reply <= ReplyBytes
       /\ \A i \in DOMAIN f.outcomes : f.outcomes[i].reply <= ReplyBytes
       /\ Len(f.outcomes) + Cardinality(Live(f.machine.pending)) <= MaxOperations
  <2>1. CancelDeadline(f.timers, t.cancel) = Timed(m.pending)
    BY <1>2, <1>6 DEF CancelDeadline
  <2> QED
    BY <1>2, <1>3, <1>4, <1>6, <1>7, <1>10, <2>1 DEF Commits
<1>12. PICK w, q : Ran(f, t, w, q)
  BY <1>6, <1>11, InterpretRuns
<1>13. w.outcomes = s.outcomes
  <2>1. q \in Seq(Outcomes) /\ \A i \in DOMAIN q : FALSE
    BY <1>6, <1>12 DEF Ran, PublishedTo
  <2>2. q = <<>>
    <3>1. Len(q) \in Nat /\ DOMAIN q = 1..Len(q)
      BY <2>1
    <3>2. Len(q) = 0
      <4>1. Len(q) # 0 => 1 \in 1..Len(q)
        BY <3>1
      <4> QED
        BY <2>1, <3>1, <4>1
    <3>3. \A a \in Seq(Outcomes) : a # <<>> => Len(a) # 0
      BY EmptySeq
    <3> QED
      BY <2>1, <3>2, <3>3
  <2>3. w.outcomes = s.outcomes \o q
    BY <1>12 DEF Ran
  <2> QED
    BY <1>2, <2>2, <2>3, OutcomesJoin
<1>14. /\ w \in Slots /\ w.machine = r /\ DOMAIN w.wire = HeldOperations(r)
       /\ w.written = WrittenAfter(f, r) /\ w.timers = Timed(r.pending)
       /\ w.recoveryOutcomes = <<>> /\ w.decoder = s.decoder /\ w.decoderPending = s.decoderPending
       /\ w.transportState = s.transportState /\ w.drainDeadline = s.drainDeadline
       /\ w.closeRequest = s.closeRequest /\ w.owner = s.owner
       /\ w.lifecycle = s.lifecycle /\ w.recoveryEvents = s.recoveryEvents
       /\ w.eventSequence = s.eventSequence
  BY <1>6, <1>10, <1>12 DEF Ran, Carries, Stays
<1>15. Interpret(f, t) = w
  <2>1. r.phase = m.phase
    BY <1>3 DEF Commits
  <2> QED
    BY <1>6, <1>12, <2>1 DEF Ran
<1>16. Fronted(r, w.written)
  <2> SUFFICES ASSUME NEW i \in HeldPositions(r), r.pending[i].delivery = "PossiblySent"
               PROVE  r.pending[i].operation = FrontHeld(r) /\ w.written > 0
    BY DEF Fronted
  <2>1. i \in DOMAIN r.pending /\ r.pending[i].writeHeld
    BY DEF HeldPositions
  <2>2. i \in DOMAIN m.pending /\ r.pending[i] = m.pending[i]
    BY <1>3, <2>1 DEF Commits
  <2>3. i \in HeldPositions(m)
    BY <2>1, <2>2 DEF HeldPositions
  <2>4. m.pending[i].operation = FrontHeld(m) /\ s.written > 0
    BY <1>2, <2>2, <2>3 DEF Fronted
  <2>5. FrontHeld(r) = FrontHeld(m) /\ HeldPositions(r) # {}
    BY <1>3, <2>3 DEF Commits
  <2>6. WrittenAfter(f, r) = s.written
    BY <2>3, <2>5 DEF WrittenAfter, HasFrames, FrontOperation
  <2> QED
    BY <1>14, <2>2, <2>4, <2>5, <2>6
<1>17. Owned(w, Q)
  <2>1. Roomy(w, Q)
    BY <1>10, <1>13, <1>14 DEF Roomy
  <2> QED
    BY <1>3, <1>4, <1>14, <1>16, <2>1 DEF Owned, Commits
<1>18. Fated(w, Q, E, D)
  <2> DEFINE told == D \o s.outcomes
  <2>1. /\ Distinct(told) /\ C = TellsOf(told) \cup Live(m.pending)
        /\ TellsOf(told) \cap Live(m.pending) = {}
        /\ \A x \in P : x.operation \notin C
        /\ \A operation \in C : operation < m.nextOperation
    BY <1>1 DEF Fated
  <2>2. /\ p.operation < m.nextOperation
        /\ \A x \in Q : x.operation # p.operation
    BY <1>5 DEF Identified
  <2>3. Live(r.pending) = Live(m.pending) \cup {p.operation} /\ r.nextOperation = m.nextOperation
    BY <1>3 DEF Commits
  <2>4. D \o w.outcomes = told
    BY <1>13
  <2> HIDE DEF told, E, Q
  <2>5. /\ Distinct(told) /\ E = TellsOf(told) \cup Live(r.pending)
        /\ TellsOf(told) \cap Live(r.pending) = {}
        /\ \A x \in Q : x.operation \notin E
        /\ \A operation \in E : operation < r.nextOperation
    BY <2>1, <2>2, <2>3 DEF E, Q
  <2> QED
    BY <1>14, <2>4, <2>5 DEF Fated
<1>19. /\ r.phase = m.phase /\ r.gate = m.gate /\ r.closeReason = m.closeReason
       /\ \A i \in DOMAIN r.pending : \/ r.pending[i].delivery = "NotSent"
                                      \/ i \in DOMAIN m.pending /\ r.pending[i] = m.pending[i]
  BY <1>3 DEF Commits
<1>20. Placed(w) /\ DrainTimed(w)
  BY <1>1, <1>14, <1>19 DEF Placed, DrainTimed, Running
<1>21. Reading(w)
  BY <1>14, <1>19 DEF Reading, Connecting, CanRead
<1>22. Logged(w, O)
  <2>1. LogOf(w, O) = LogOf(s, O) /\ Stage(w) = Stage(s)
    BY <1>14, <1>19 DEF LogOf, Stage
  <2> QED
    BY <1>1, <1>14, <1>19, <2>1 DEF Logged, Running
<1>23. Moves(s, w) /\ GoesOn(w)
  BY <1>1, <1>13, <1>14 DEF Moves, GoesOn, Running
<1> QED
  BY <1>15, <1>17, <1>18, <1>20, <1>21, <1>22, <1>23 DEF Yields, During

LEMMA CommitLawful ==
  ASSUME SlotIInv, NEW permit \in permits, NEW wire \in WireLengths, Commit(permit, wire)
  PROVE  Lawful
<1> DEFINE frame == [wire |-> wire, retained |-> permit.reservation.writeRetained]
           t == [Transition(CommitPermit(slot.machine, permit, frame)) EXCEPT
                   !.schedule = {<<permit.operation, permit.deadline>>}]
           wires == [o \in DOMAIN slot.wire \cup {permit.operation} |->
                       IF o = permit.operation THEN wire ELSE slot.wire[o]]
           f == [slot EXCEPT !.wire = wires]
           r == Interpret(f, t)
<1>1. /\ Idle /\ Running(slot) /\ MachineCommits(slot.machine, permit, frame)
      /\ Called(r) /\ permits' = permits \ {permit} /\ committed' = committed \cup {permit.operation}
  BY DEF Commit
<1>2. /\ Ready(slot, permits, committed, delivered, observed) /\ Reading(slot) /\ slot \in Slots
      /\ delivered \in Seq(Outcomes) /\ observed \in Seq(Events) /\ committed \subseteq Operations
  BY <1>1, CallRuns DEF Outside
<1>3. permit \in Permit
  BY <1>2 DEF Ready, Owned, Books, Identified
<1>4. /\ permit.operation \in Operations /\ permit.reservation.writeRetained \in Nat
      /\ frame.retained \in Nat
  BY <1>3, PermitFields
<1>5. /\ Frames(slot, permit.operation, wire, f)
      /\ t = [Transition(CommitPermit(slot.machine, permit, frame)) EXCEPT
                !.schedule = {<<permit.operation, permit.deadline>>}]
  BY DEF Frames
<1> HIDE DEF wires, f, t, frame
<1>6. /\ f \in Slots /\ DOMAIN f.wire = DOMAIN slot.wire \cup {permit.operation}
      /\ f.machine = slot.machine /\ f.written = slot.written /\ f.timers = slot.timers
      /\ f.outcomes = slot.outcomes /\ Carries(slot, f) /\ Stays(slot, f)
  BY <1>2, <1>4, <1>5, FramedSlot
<1>7. Yields(slot, r, permits \ {permit}, committed \cup {permit.operation}, delivered, observed)
  BY <1>1, <1>2, <1>4, <1>5, <1>6, CommitComes
<1> HIDE DEF r
<1>8. Comes(slot, r, permits', committed', delivered, observed) /\ GoesOn(r)
  BY <1>1, <1>7 DEF Yields, Comes
<1> QED
  BY <1>1, <1>2, <1>4, <1>8, CalledLawful

(***************************************************************************)
(* Steps that leave the transport and the close alone.                     *)
(***************************************************************************)

\* Permits come and go: the ledger and the next identity change, no record does.
Relets(m, r) ==
  /\ r \in Machine /\ r.pending = m.pending /\ r.phase = m.phase /\ r.gate = m.gate
  /\ r.closeReason = m.closeReason /\ m.nextOperation <= r.nextOperation

Relet(s, n, r, Q, C) ==
  /\ n = [s EXCEPT !.machine = r]
  /\ Relets(s.machine, r) /\ Books(r, Q)
  /\ \A p \in Q : p.operation \notin C
  /\ C \subseteq Operations
  /\ Len(s.outcomes) + Cardinality(Live(s.machine.pending)) + Cardinality(Q) <= MaxOperations

LEMMA ReletKept ==
  ASSUME NEW P, NEW C, NEW D, NEW O, NEW s, Kept(s, P, C, D, O),
         NEW n, NEW r, NEW Q, Relet(s, n, r, Q, C)
  PROVE  Kept(n, Q, C, D, O) /\ Abstract(n) = Abstract(s)
<1> DEFINE m == s.machine
<1>0. /\ n = [s EXCEPT !.machine = r]
      /\ Relets(s.machine, r) /\ Books(r, Q)
      /\ \A p \in Q : p.operation \notin C
      /\ C \subseteq Operations
      /\ Len(s.outcomes) + Cardinality(Live(s.machine.pending)) + Cardinality(Q) <= MaxOperations
  BY DEF Relet
<1>1. /\ s \in Slots /\ Owned(s, P) /\ Fated(s, P, C, D) /\ Placed(s) /\ DrainTimed(s) /\ Reading(s)
      /\ Logged(s, O) /\ Staged(s)
  BY DEF Kept, During, Owned
<1>2. /\ n \in Slots /\ n.machine = r /\ n.wire = s.wire /\ n.written = s.written
      /\ n.timers = s.timers /\ n.outcomes = s.outcomes /\ n.recoveryOutcomes = s.recoveryOutcomes
      /\ n.transportState = s.transportState /\ n.drainDeadline = s.drainDeadline
      /\ n.closeRequest = s.closeRequest /\ n.lifecycle = s.lifecycle
      /\ n.recoveryEvents = s.recoveryEvents /\ n.eventSequence = s.eventSequence
      /\ n.decoder = s.decoder /\ n.decoderPending = s.decoderPending /\ n.owner = s.owner
  BY <1>0, <1>1 DEF Slots, Relets
<1>3. /\ r.pending = m.pending /\ r.phase = m.phase /\ r.gate = m.gate /\ r.closeReason = m.closeReason
      /\ r \in Machine /\ m.nextOperation <= r.nextOperation /\ m \in Machine
  BY <1>0, <1>1, SlotFields DEF Relets
<1>4. HeldPositions(r) = HeldPositions(m) /\ HeldOperations(r) = HeldOperations(m) /\ FrontHeld(r) = FrontHeld(m)
  BY <1>3 DEF HeldPositions, HeldOperations, FrontHeld
<1> HIDE DEF m
<1>5. Owned(n, Q)
  <2>1. Sound(r) /\ DrainWaits(r)
    BY <1>1, <1>3 DEF Owned, Sound, DrainWaits, m
  <2>2. Fronted(r, s.written) /\ DOMAIN s.wire = HeldOperations(r) /\ s.timers = Timed(r.pending)
    BY <1>1, <1>3, <1>4 DEF Owned, Fronted, m
  <2>3. Roomy(n, Q)
    BY <1>0, <1>1, <1>2, <1>3 DEF Owned, Roomy, m
  <2> QED
    BY <1>0, <1>2, <2>1, <2>2, <2>3 DEF Owned
<1>6. Fated(n, Q, C, D)
  <2>1. \A operation \in C : operation < r.nextOperation
    <3>1. \A operation \in C : operation < m.nextOperation /\ operation \in Nat
      BY <1>0, <1>1, IdentityAssumption DEF Fated, m, Operations
    <3>2. m.nextOperation \in Nat /\ r.nextOperation \in Nat
      BY <1>3, MachineFields, IdentityAssumption DEF Operations
    <3> QED
      BY <1>3, <3>1, <3>2
  <2> QED
    BY <1>0, <1>1, <1>2, <1>3, <2>1 DEF Fated, m
<1>7. Placed(n) /\ DrainTimed(n) /\ Staged(n)
  BY <1>1, <1>2, <1>3 DEF Placed, DrainTimed, Staged, Running, m
<1>8. Reading(n)
  BY <1>1, <1>2, <1>3 DEF Reading, Connecting, CanRead, m
<1>9. Logged(n, O)
  <2>1. LogOf(n, O) = LogOf(s, O) /\ Stage(n) = Stage(s)
    BY <1>2, <1>3 DEF LogOf, Stage, m
  <2> QED
    BY <1>1, <1>2, <1>3, <2>1 DEF Logged, Running, m
<1>10. Abstract(n) = Abstract(s)
  BY <1>2 DEF Abstract, Running
<1> QED
  BY <1>5, <1>6, <1>7, <1>8, <1>9, <1>10 DEF Kept, During

LEMMA AsideLawful ==
  ASSUME SlotIInv, Idle, Kept(slot', permits', committed', delivered', observed'),
         slot'.owner = slot.owner, slot'.transportState = slot.transportState,
         slot'.recoveryEvents = slot.recoveryEvents,
         Around, quantum' = quantum, [Contract!Next]_(Abstract(slot))
  PROVE  Lawful
<1>1. /\ ~report.recovered /\ quantum.pc = "Idle" /\ report = NoReport
      /\ slot.transportState = "Closed" <=> ~transport.present
      /\ ~Running(slot) => broken \/ slot.recoveryEvents # <<>>
  BY CallRuns, SlotRuns
<1>2. Outside' /\ Driven'
  BY <1>1 DEF Around, Outside, Driven
<1>3. /\ slot'.transportState = "Closed" <=> ~transport'.present
      /\ ~Running(slot') => broken' \/ slot'.recoveryEvents # <<>>
      /\ transport'.over => broken'
      /\ ~report'.recovered /\ report' = NoReport
  BY <1>1 DEF Around, Running
<1> QED
  BY <1>2, <1>3 DEF SlotIInv, Lawful

LEMMA IdleAround ==
  ASSUME SlotIInv, Idle
  PROVE  /\ UNCHANGED <<transport, now, quantum, wake, broken, committed, observed, delivered, report>>
              => Around
         /\ ~report.recovered /\ Kept(slot, permits, committed, delivered, observed) /\ slot \in Slots
         /\ committed \subseteq Operations
<1>1. ~report.recovered /\ Outside /\ (transport.over => broken) /\ slot \in Slots
      /\ Kept(slot, permits, committed, delivered, observed)
  BY CallRuns, SlotRuns
<1> QED
  BY <1>1 DEF Around, Outside

LEMMA DropPermitLawful ==
  ASSUME SlotIInv, NEW permit \in permits, DropPermit(permit)
  PROVE  Lawful
<1> DEFINE m == slot.machine
           ledger == RollbackPermit(m.ledger, permit.reservation)
           r == [m EXCEPT !.ledger = ledger]
           Q == permits \ {permit}
<1>1. /\ Idle /\ permits' = Q /\ slot' = [slot EXCEPT !.machine.ledger = ledger]
      /\ UNCHANGED <<transport, now, quantum, wake, broken, committed, observed, delivered, report>>
  BY DEF DropPermit
<1>2. /\ Kept(slot, permits, committed, delivered, observed) /\ slot \in Slots /\ Around
      /\ committed \subseteq Operations
  BY <1>1, IdleAround
<1>3. m \in Machine /\ Books(m, permits) /\ Fated(slot, permits, committed, delivered) /\ Roomy(slot, permits)
      /\ slot.outcomes \in Seq(Outcomes) /\ Distinct(m.pending)
  BY <1>2, SlotFields DEF Kept, During, Owned, Sound
<1>4. Identified(m, permits) /\ permit \in Permit
  BY <1>3 DEF Books, Identified
<1>5. ledger \in Ledger
  BY <1>3, <1>4, MachineFields, PermitFields, ReleaseAllType DEF RollbackPermit
<1> HIDE DEF ledger
<1>6. r \in Machine
  BY <1>3, <1>5 DEF Machine
<1>7. Books(r, Q)
  BY <1>3, <1>6, DroppedBooks DEF ledger
<1>8. slot' = [slot EXCEPT !.machine = r]
  BY <1>1, <1>2 DEF Slots
<1>9. Relets(m, r)
  <2>1. m.nextOperation \in Nat
    BY <1>3, MachineFields, IdentityAssumption DEF Operations
  <2> QED
    BY <1>3, <1>6, <2>1 DEF Relets, Machine
<1>10. Len(slot.outcomes) + Cardinality(Live(m.pending)) + Cardinality(Q) <= MaxOperations
  <2>1. Cardinality(Q) = Cardinality(permits) - 1 /\ Cardinality(permits) \in Nat
    BY <1>3, <1>4, OtherPermits
  <2>2. Cardinality(Live(m.pending)) \in Nat
    <3>1. m.pending \in Seq(OperationRecord)
      BY <1>3, MachineFields
    <3> QED
      BY <1>3, <3>1, LiveCounted
  <2>3. MaxOperations \in Nat /\ Len(slot.outcomes) \in Nat
    BY <1>3, LimitsAssumption
  <2>4. Len(slot.outcomes) + Cardinality(Live(m.pending)) + Cardinality(permits) <= MaxOperations
    BY <1>3 DEF Roomy
  <2> HIDE DEF Q
  <2> QED
    BY <2>1, <2>2, <2>3, <2>4
<1>11. \A p \in Q : p.operation \notin committed
  BY <1>3 DEF Fated
<1> HIDE DEF r, Q
<1>12. Kept(slot', Q, committed, delivered, observed) /\ Abstract(slot') = Abstract(slot)
  <2>1. Relet(slot, slot', r, Q, committed)
    BY <1>2, <1>7, <1>8, <1>9, <1>10, <1>11 DEF Relet
  <2> QED
    BY <1>2, <2>1, ReletKept
<1>13. /\ slot'.owner = slot.owner /\ slot'.transportState = slot.transportState
       /\ slot'.recoveryEvents = slot.recoveryEvents
  BY <1>2, <1>8 DEF Slots
<1>14. Kept(slot', permits', committed', delivered', observed')
  BY <1>1, <1>12
<1> QED
  BY <1>1, <1>2, <1>12, <1>13, <1>14, AsideLawful

\* What a reservation leaves, whether the outcome batch has room for it or not.
LEMMA ReserveRelets ==
  ASSUME NEW P, NEW C, C \subseteq Operations, NEW D, NEW O, NEW s, Kept(s, P, C, D, O), NEW at,
         NEW options \in Options, MachineReserves(s.machine, at, options),
         NEW machine, machine = ReserveMachine(s.machine, options),
         NEW permit, permit = NewPermit(s.machine, options),
         NEW back, back = [machine EXCEPT !.ledger = RollbackPermit(@, permit.reservation)]
  PROVE  /\ OutcomesFull(s, machine) => Relet(s, [s EXCEPT !.machine = back], back, P, C)
         /\ ~OutcomesFull(s, machine) => Relet(s, [s EXCEPT !.machine = machine], machine, P \cup {permit}, C)
<1> DEFINE m == s.machine
           Q == P \cup {permit}
<1>1. /\ m \in Machine /\ Books(m, P) /\ Sound(m) /\ Fated(s, P, C, D) /\ Roomy(s, P)
      /\ s.outcomes \in Seq(Outcomes)
  BY SlotFields DEF Kept, During, Owned
<1>2. options \in [retained : Nat, writeRetained : Nat, class : Classes,
                   completion : Completions, deadline : Moments]
  BY SlotAssumption
<1>3. /\ machine \in Machine /\ machine.pending = m.pending /\ machine.phase = m.phase
      /\ machine.gate = m.gate
  BY <1>1, <1>2, ReserveMachineType
<1>4. /\ machine.closeReason = m.closeReason /\ machine.nextOperation = m.nextOperation + 1
  BY <1>1 DEF ReserveMachine, Machine
<1>5. permit \in Permit /\ permit.operation = m.nextOperation
  BY <1>1, <1>2, NewPermitType DEF NewPermit
<1>6. Books(machine, Q)
  BY <1>1, <1>2, ReservedBooks
<1>7. m.nextOperation \in Nat
  BY <1>1, MachineFields, IdentityAssumption DEF Operations
<1>8. /\ \A p \in P : p.operation < m.nextOperation /\ p.operation \in Nat
      /\ \A operation \in C : operation < m.nextOperation /\ operation \in Nat
      /\ \A p \in P : p.operation \notin C
  <2>1. P \subseteq Permit /\ \A p \in P : p.operation < m.nextOperation
    BY <1>1 DEF Books, Identified
  <2> QED
    BY <1>1, <2>1, PermitFields, IdentityAssumption DEF Fated, Operations
<1>9. /\ permit \notin P /\ permit.operation \notin C
  BY <1>5, <1>7, <1>8
<1>10. /\ m.pending \in Seq(OperationRecord) /\ Cardinality(Live(m.pending)) \in Nat
       /\ Cardinality(Live(m.pending)) <= Len(m.pending) /\ Len(m.pending) \in Nat
       /\ Len(s.outcomes) \in Nat /\ MaxOperations \in Nat
  <2>1. m.pending \in Seq(OperationRecord) /\ Distinct(m.pending)
    BY <1>1, MachineFields DEF Sound
  <2>2. Cardinality(Live(m.pending)) \in Nat /\ Cardinality(Live(m.pending)) <= Len(m.pending)
    BY <2>1, LiveCounted
  <2> QED
    BY <1>1, <2>1, <2>2, LimitsAssumption
<1>11. ASSUME OutcomesFull(s, machine)
       PROVE  Relet(s, [s EXCEPT !.machine = back], back, P, C)
  <2> DEFINE ledger == RollbackPermit(machine.ledger, permit.reservation)
  <2>1. ledger \in Ledger
    BY <1>3, <1>5, MachineFields, PermitFields, ReleaseAllType DEF RollbackPermit
  <2>2. back = [machine EXCEPT !.ledger = ledger]
    BY <1>3 DEF Machine
  <2> HIDE DEF ledger
  <2>3. /\ back \in Machine /\ back.pending = machine.pending /\ back.phase = machine.phase
        /\ back.gate = machine.gate /\ back.closeReason = machine.closeReason
        /\ back.nextOperation = machine.nextOperation
    BY <1>3, <2>1, <2>2 DEF Machine
  <2>4. permit \in Q /\ Q \ {permit} = P
    BY <1>9
  <2> HIDE DEF Q
  <2>5. Books(back, Q \ {permit})
    BY <1>3, <1>6, <2>2, <2>3, <2>4, DroppedBooks DEF ledger
  <2>6. Books(back, P)
    BY <2>4, <2>5
  <2>7. Relets(m, back)
    BY <1>3, <1>4, <1>7, <2>3 DEF Relets
  <2>8. Len(s.outcomes) + Cardinality(Live(m.pending)) + Cardinality(P) <= MaxOperations
    BY <1>1 DEF Roomy
  <2> QED
    BY <1>8, <2>6, <2>7, <2>8 DEF Relet
<1>12. ASSUME ~OutcomesFull(s, machine)
       PROVE  Relet(s, [s EXCEPT !.machine = machine], machine, Q, C)
  <2>1. /\ Len(machine.pending) + Cardinality(Q) = machine.ledger.operations
        /\ Cardinality(Q) \in Nat /\ machine.ledger.operations \in Nat
    <3>1. Len(machine.pending) + Cardinality(Q) = machine.ledger.operations /\ Cardinality(Q) \in Nat
      BY <1>3, <1>6, OperationsCounted
    <3> QED
      BY <1>3, <1>10, <3>1
  <2>2. Len(s.outcomes) + machine.ledger.operations <= MaxOperations
    BY <1>10, <1>12, <2>1 DEF OutcomesFull
  <2> DEFINE k == Cardinality(Q)
             live == Cardinality(Live(m.pending))
  <2>3. Len(s.outcomes) + live + k <= MaxOperations
    BY SMTT(30), <1>3, <1>10, <2>1, <2>2
  <2>4. Relets(m, machine)
    BY <1>3, <1>4, <1>7 DEF Relets
  <2>5. \A p \in Q : p.operation \notin C
    BY <1>8, <1>9
  <2> QED
    BY <1>6, <2>3, <2>4, <2>5 DEF Relet
<1> QED
  BY <1>11, <1>12

LEMMA ReserveLawful ==
  ASSUME SlotIInv, NEW options \in Options, Reserve(options)
  PROVE  Lawful
<1> DEFINE machine == ReserveMachine(slot.machine, options)
           permit == NewPermit(slot.machine, options)
           back == [machine EXCEPT !.ledger = RollbackPermit(@, permit.reservation)]
           r == IF OutcomesFull(slot, machine) THEN back ELSE machine
           Q == IF OutcomesFull(slot, machine) THEN permits ELSE permits \cup {permit}
<1>1. /\ Idle /\ MachineReserves(slot.machine, now, options)
      /\ slot' = [slot EXCEPT !.machine = r] /\ permits' = Q
      /\ UNCHANGED <<transport, now, quantum, wake, broken, committed, observed, delivered, report>>
  BY DEF Reserve
<1>2. /\ Kept(slot, permits, committed, delivered, observed) /\ slot \in Slots /\ Around
      /\ committed \subseteq Operations
  BY <1>1, IdleAround
<1>3. /\ machine = ReserveMachine(slot.machine, options)
      /\ permit = NewPermit(slot.machine, options)
      /\ back = [machine EXCEPT !.ledger = RollbackPermit(@, permit.reservation)]
  OBVIOUS
<1> HIDE DEF machine, permit, back
<1>4. /\ OutcomesFull(slot, machine) => Relet(slot, [slot EXCEPT !.machine = back], back, permits, committed)
      /\ ~OutcomesFull(slot, machine) =>
           Relet(slot, [slot EXCEPT !.machine = machine], machine, permits \cup {permit}, committed)
  BY <1>1, <1>2, <1>3, ReserveRelets
<1>5. Relet(slot, slot', r, Q, committed)
  BY <1>1, <1>4
<1> HIDE DEF r, Q
<1>6. Kept(slot', Q, committed, delivered, observed) /\ Abstract(slot') = Abstract(slot)
  BY <1>2, <1>5, ReletKept
<1>7. /\ slot'.owner = slot.owner /\ slot'.transportState = slot.transportState
      /\ slot'.recoveryEvents = slot.recoveryEvents
  BY <1>1, <1>2 DEF Slots
<1>8. Kept(slot', permits', committed', delivered', observed')
  BY <1>1, <1>6
<1> QED
  BY <1>1, <1>2, <1>6, <1>7, <1>8, AsideLawful

LEMMA DrainedContract ==
  ASSUME NEW s, NEW n, n.owner = s.owner, n.transportState = s.transportState,
         n.closeRequest = s.closeRequest,
         n.outcomes = s.outcomes \/ n.outcomes = <<>>, n.lifecycle = s.lifecycle \/ n.lifecycle = <<>>
  PROVE  Abstract(n) = Abstract(s) \/ Abstract(n) = Contract!Drained(Abstract(s))
<1> DEFINE x == s.outcomes # <<>> \/ s.lifecycle # <<>>
           y == n.outcomes # <<>> \/ n.lifecycle # <<>>
           owner == IF Running(s) THEN "Running" ELSE "Failed"
           close == IF s.closeRequest = NoRequest THEN "None"
                    ELSE IF s.closeRequest = AbortRequest THEN "Abort"
                    ELSE IF SettlementReady(s.closeRequest) THEN "Ready" ELSE "Graceful"
           a == Abstract(s)
<1>1. a = [owner |-> owner, state |-> s.transportState, close |-> close, publications |-> x]
  BY Zenon DEF Abstract
<1>2. Abstract(n) = [owner |-> owner, state |-> s.transportState, close |-> close, publications |-> y]
  <2>1. Running(n) <=> Running(s)
    BY DEF Running
  <2>2. (IF Running(n) THEN "Running" ELSE "Failed") = owner
    BY <2>1
  <2>3. Abstract(n) = [owner |-> IF Running(n) THEN "Running" ELSE "Failed",
                       state |-> n.transportState,
                       close |-> IF n.closeRequest = NoRequest THEN "None"
                                 ELSE IF n.closeRequest = AbortRequest THEN "Abort"
                                 ELSE IF SettlementReady(n.closeRequest) THEN "Ready" ELSE "Graceful",
                       publications |-> y]
    BY Zenon DEF Abstract
  <2> QED
    BY <2>2, <2>3, Zenon
<1>3. y = x \/ y = FALSE
  <2>1. y => x
    OBVIOUS
  <2>2. x \in BOOLEAN /\ y \in BOOLEAN
    OBVIOUS
  <2> HIDE DEF x, y
  <2> QED
    BY <2>1, <2>2
<1> HIDE DEF x, y, owner, close, a
<1>4. Abstract(n) = [a EXCEPT !.publications = y]
  BY <1>1, <1>2
<1>5. CASE y = x
  BY <1>1, <1>2, <1>5, Zenon DEF a
<1>6. CASE y = FALSE
  BY <1>4, <1>6, Zenon DEF Contract!Drained, a
<1> QED
  BY <1>3, <1>5, <1>6

\* What an application is told leaves the slot.
LEMMA DrainsLawful ==
  ASSUME SlotIInv
  PROVE  /\ DrainOutcomes => Lawful
         /\ DrainEvents => Lawful
<1> DEFINE P == permits
           C == committed
           D == delivered
           O == observed
<1>1. ASSUME Idle
      PROVE  /\ slot \in Slots /\ Owned(slot, P) /\ Fated(slot, P, C, D) /\ Placed(slot)
             /\ DrainTimed(slot) /\ Reading(slot) /\ Logged(slot, O) /\ Staged(slot)
             /\ slot.outcomes \in Seq(Outcomes) /\ slot.lifecycle \in Seq(Events)
             /\ slot.recoveryEvents \in Seq(Events) /\ slot.machine \in Machine
             /\ D \in Seq(Outcomes) /\ O \in Seq(Events) /\ Outside /\ (transport.over => broken)
  BY <1>1, CallRuns, IdleAround, SlotFields, SlotRuns DEF Kept, During, Owned
<1>2. ASSUME DrainOutcomes PROVE Lawful
  <2> DEFINE n == [slot EXCEPT !.outcomes = <<>>]
             F == D \o slot.outcomes
  <2>0. /\ Idle /\ slot' = n /\ delivered' = F
        /\ UNCHANGED <<transport, permits, now, quantum, wake, broken, committed, observed, report>>
    BY <1>2 DEF DrainOutcomes
  <2>1. /\ n \in Slots /\ n.machine = slot.machine /\ n.wire = slot.wire /\ n.written = slot.written
        /\ n.timers = slot.timers /\ n.outcomes = <<>> /\ n.recoveryOutcomes = slot.recoveryOutcomes
        /\ n.transportState = slot.transportState /\ n.drainDeadline = slot.drainDeadline
        /\ n.closeRequest = slot.closeRequest /\ n.lifecycle = slot.lifecycle
        /\ n.recoveryEvents = slot.recoveryEvents /\ n.eventSequence = slot.eventSequence
        /\ n.decoder = slot.decoder /\ n.decoderPending = slot.decoderPending /\ n.owner = slot.owner
    <3>1. slot \in Slots /\ <<>> \in Seq(Outcomes) /\ <<>> \in Seq(Events)
      BY <1>1, <2>0
    <3> QED
      BY <3>1 DEF Slots
  <2> HIDE DEF n
  <2>2. F \in Seq(Outcomes) /\ F \o n.outcomes = F
    BY <1>1, <2>0, <2>1, OutcomesJoin
  <2>3. Fated(n, P, C, F)
    BY <1>1, <2>0, <2>1, <2>2 DEF Fated
  <2>4. Owned(n, P)
    <3>1. Roomy(n, P)
      <4>1. /\ Len(slot.outcomes) + Cardinality(Live(slot.machine.pending)) + Cardinality(P) <= MaxOperations
            /\ slot.recoveryOutcomes = <<>> /\ Books(slot.machine, P) /\ Sound(slot.machine)
        BY <1>1, <2>0 DEF Owned, Roomy
      <4>2. Cardinality(P) \in Nat
        BY <4>1, PermitsCounted DEF Books
      <4>3. Cardinality(Live(slot.machine.pending)) \in Nat
        <5>1. slot.machine.pending \in Seq(OperationRecord) /\ Distinct(slot.machine.pending)
          BY <1>1, <2>0, <4>1, MachineFields DEF Sound
        <5> QED
          BY <5>1, LiveCounted
      <4>4. Len(n.outcomes) = 0 /\ DOMAIN n.outcomes = {} /\ Len(slot.outcomes) \in Nat /\ MaxOperations \in Nat
        BY <1>1, <2>0, <2>1, LimitsAssumption
      <4> QED
        BY <2>1, <4>1, <4>2, <4>3, <4>4 DEF Roomy
    <3> QED
      BY <1>1, <2>0, <2>1, <3>1 DEF Owned
  <2>5. Placed(n) /\ DrainTimed(n) /\ Staged(n) /\ Reading(n)
    BY <1>1, <2>0, <2>1 DEF Placed, DrainTimed, Staged, Running, Reading, Connecting, CanRead
  <2>6. Logged(n, O)
    <3>1. LogOf(n, O) = LogOf(slot, O) /\ Stage(n) = Stage(slot)
      BY <2>1 DEF LogOf, Stage
    <3> QED
      BY <1>1, <2>0, <2>1, <3>1 DEF Logged, Running
  <2>7. Kept(slot', permits', committed', delivered', observed')
    BY <2>0, <2>3, <2>4, <2>5, <2>6 DEF Kept, During
  <2>8. Abstract(n) = Abstract(slot) \/ Abstract(n) = Contract!Drained(Abstract(slot))
    BY <2>1, DrainedContract
  <2>9. [Contract!Next]_(Abstract(slot))
    BY <2>0, <2>8 DEF Contract!Next, Contract!Drain
  <2>10. Around
    BY <1>1, <2>0, <2>2 DEF Around, Outside
  <2> QED
    BY <2>0, <2>1, <2>7, <2>9, <2>10, AsideLawful
<1>3. ASSUME DrainEvents PROVE Lawful
  <2> DEFINE n == [slot EXCEPT !.lifecycle = <<>>]
             F == O \o slot.lifecycle
  <2>0. /\ Idle /\ slot' = n /\ observed' = F
        /\ UNCHANGED <<transport, permits, now, quantum, wake, broken, committed, delivered, report>>
    BY <1>3 DEF DrainEvents
  <2>1. /\ n \in Slots /\ n.machine = slot.machine /\ n.wire = slot.wire /\ n.written = slot.written
        /\ n.timers = slot.timers /\ n.outcomes = slot.outcomes /\ n.recoveryOutcomes = slot.recoveryOutcomes
        /\ n.transportState = slot.transportState /\ n.drainDeadline = slot.drainDeadline
        /\ n.closeRequest = slot.closeRequest /\ n.lifecycle = <<>>
        /\ n.recoveryEvents = slot.recoveryEvents /\ n.eventSequence = slot.eventSequence
        /\ n.decoder = slot.decoder /\ n.decoderPending = slot.decoderPending /\ n.owner = slot.owner
    <3>1. slot \in Slots /\ <<>> \in Seq(Outcomes) /\ <<>> \in Seq(Events)
      BY <1>1, <2>0
    <3> QED
      BY <3>1 DEF Slots
  <2> HIDE DEF n
  <2>2. F \in Seq(Events) /\ F \o n.lifecycle = F
    BY <1>1, <2>0, <2>1, EventsJoin
  <2>3. Holding(slot, n) /\ n.recoveryOutcomes = slot.recoveryOutcomes
    BY <2>1 DEF Holding
  <2>4. Owned(n, P) /\ Fated(n, P, C, D)
    BY <1>1, <2>0, <2>1, <2>3, HeldOwned, HeldFated
  <2>5. Placed(n) /\ DrainTimed(n) /\ Staged(n) /\ Reading(n)
    BY <1>1, <2>0, <2>1 DEF Placed, DrainTimed, Staged, Running, Reading, Connecting, CanRead
  <2>6. Logged(n, F)
    <3>1. LogOf(n, F) = LogOf(slot, O) /\ Stage(n) = Stage(slot)
      BY <2>1, <2>2 DEF LogOf, Stage
    <3> QED
      BY <1>1, <2>0, <2>1, <3>1 DEF Logged, Running
  <2>7. Kept(slot', permits', committed', delivered', observed')
    BY <2>0, <2>4, <2>5, <2>6 DEF Kept, During
  <2>8. Abstract(n) = Abstract(slot) \/ Abstract(n) = Contract!Drained(Abstract(slot))
    BY <2>1, DrainedContract
  <2>9. [Contract!Next]_(Abstract(slot))
    BY <2>0, <2>8 DEF Contract!Next, Contract!Drain
  <2>10. Around
    BY <1>1, <2>0, <2>2 DEF Around, Outside
  <2> QED
    BY <2>0, <2>1, <2>7, <2>9, <2>10, AsideLawful
<1> QED
  BY <1>2, <1>3

LEMMA HostLawful ==
  ASSUME SlotIInv
  PROVE  /\ \A v \in Transports : Readiness(v) => Lawful
         /\ Tick => Lawful
         /\ DriveQuantum => Lawful
<1>1. ASSUME Idle
      PROVE  /\ ~report.recovered /\ Outside /\ (transport.over => broken) /\ slot \in Slots
             /\ Kept(slot, permits, committed, delivered, observed)
             /\ slot.transportState = "Closed" <=> ~transport.present
  BY <1>1, CallRuns, SlotRuns
<1>2. ASSUME NEW v \in Transports, Readiness(v) PROVE Lawful
  <2>1. /\ Idle /\ transport.present /\ transport' = v /\ wake' = TRUE
        /\ broken' = (broken \/ v.over \/ (v.open /\ Connecting(slot)))
        /\ UNCHANGED <<slot, quantum, permits, now, committed, delivered, observed, report>>
    BY <1>2 DEF Readiness, outsideVars
  <2>2. v.present = transport.present
    <3>1. \A u \in Transports : u.present = TRUE
      BY DEF Transports
    <3> QED
      BY <1>1, <2>1, <3>1, TransportFields DEF Outside
  <2>3. broken' \in BOOLEAN /\ (broken => broken') /\ (v.over => broken')
    BY <1>1, <2>1 DEF Outside
  <2>4. Around
    BY <1>1, <2>1, <2>2, <2>3 DEF Outside, Around
  <2>5. Kept(slot', permits', committed', delivered', observed')
    BY <1>1, <2>1
  <2> QED
    BY <2>1, <2>4, <2>5, AsideLawful
<1>3. ASSUME Tick PROVE Lawful
  <2>1. /\ Idle /\ now < Horizon /\ now' = now + 1
        /\ UNCHANGED <<slot, transport, permits, quantum, wake, broken, committed, delivered,
                       observed, report>>
    BY <1>3 DEF Tick
  <2>2. now' \in Moments
    BY <1>1, <2>1, ClockAssumption DEF Outside
  <2>3. Around
    BY <1>1, <2>1, <2>2 DEF Outside, Around
  <2>4. Kept(slot', permits', committed', delivered', observed')
    BY <1>1, <2>1
  <2> QED
    BY <2>1, <2>3, <2>4, AsideLawful
<1>4. ASSUME DriveQuantum PROVE Lawful
  <2>1. Idle /\ Running(slot) /\ UNCHANGED <<transport, broken, outsideVars>>
    BY <1>4 DEF DriveQuantum
  <2>2. Comes(slot, slot, permits, committed, delivered, observed)
    BY <2>1, CallRuns
  <2>3. Beside
    BY <1>1, <2>1, UntouchedBeside
  <2>4. CASE transport.over
    <3> DEFINE r == CapturePressure(slot, transport)
    <3>1. Return(r, FALSE)
      BY <1>4, <2>4 DEF DriveQuantum
    <3>2. slot.transportState # "Closed" /\ broken'
      <4>1. transport \in Transports
        BY <1>1, <2>1, <2>4, TransportFields DEF Outside
      <4> QED
        BY <1>1, <2>1, <2>4, <4>1, TransportFields
    <3>3. Comes(slot, r, permits, committed, delivered, observed)
      BY <2>2, <3>2, CaptureComes
    <3> HIDE DEF r
    <3> QED
      BY <1>1, <2>1, <2>3, <3>1, <3>2, <3>3, ReturnLawful
  <2>5. CASE ~transport.over
    <3>1. /\ quantum' = [pc |-> IF slot.closeRequest = NoRequest THEN "Deadlines" ELSE "Shutdown",
                         work |-> 0]
          /\ wake' = FALSE /\ slot' = slot
      BY <1>4, <2>5 DEF DriveQuantum
    <3>2. Around
      <4>1. quantum' \in [pc : {"Idle", "Deadlines", "Io", "Shutdown"}, work : 0..IoOperations]
        BY <3>1, SlotAssumption
      <4> QED
        BY <1>1, <2>1, <2>3, <3>1, <4>1 DEF Around, Beside, Outside, outsideVars
    <3>3. Driven'
      BY <2>1, <3>1, SlotAssumption DEF Driven
    <3>4. slot' = Latch(slot) /\ GoesOn(slot)
      BY <2>1, <3>1 DEF Latch, GoesOn
    <3>5. Comes(slot, slot, permits', committed', delivered', observed')
      BY <2>1, <2>2 DEF outsideVars
    <3> QED
      BY <1>1, <2>1, <3>2, <3>3, <3>4, <3>5, LatchLawful
  <2> QED
    BY <2>4, <2>5
<1> QED
  BY <1>2, <1>3, <1>4

(***************************************************************************)
(* Settlement.                                                             *)
(***************************************************************************)
LEMMA AbortKept ==
  ASSUME NEW P, NEW C, NEW D, NEW O \in Seq(Events), NEW s, During(s, P, C, D, O), ~Running(s)
  PROVE  /\ Kept(AbortTransport(s), P, C, D, O) /\ ~Running(AbortTransport(s))
         /\ AbortTransport(s).transportState = "Closed" /\ AbortTransport(s).closeRequest = NoRequest
         /\ AbortTransport(s).recoveryEvents = s.recoveryEvents
         /\ AbortTransport(s).outcomes = s.outcomes /\ AbortTransport(s).lifecycle = s.lifecycle
<1> DEFINE n == AbortTransport(s)
<1>1. /\ s \in Slots /\ Owned(s, P) /\ Fated(s, P, C, D) /\ Placed(s) /\ Logged(s, O)
  BY DEF During, Owned
<1>2. /\ n \in Slots /\ Holding(s, n) /\ n.recoveryOutcomes = s.recoveryOutcomes
      /\ n.transportState = "Closed" /\ n.drainDeadline = Never /\ n.closeRequest = NoRequest
      /\ n.lifecycle = s.lifecycle /\ n.recoveryEvents = s.recoveryEvents
      /\ n.eventSequence = s.eventSequence /\ n.owner = s.owner /\ n.machine = s.machine
      /\ n.outcomes = s.outcomes
  BY <1>1, RequestsAre DEF AbortTransport, Slots, Holding, TransportStates
<1> HIDE DEF n
<1>3. Owned(n, P) /\ Fated(n, P, C, D)
  BY <1>1, <1>2, HeldOwned, HeldFated
<1>4. ~Running(n) /\ Placed(n) /\ DrainTimed(n) /\ Staged(n)
  BY <1>1, <1>2 DEF Running, Placed, DrainTimed, Staged
<1>5. Reading(n)
  BY <1>2 DEF Reading, Connecting
<1>6. Logged(n, O)
  <2>1. LogOf(n, O) = LogOf(s, O) /\ Stage(n) = 4 /\ LogOf(s, O) \in Seq(Events)
    BY <1>1, <1>2, LogType DEF LogOf, Stage
  <2>2. ASSUME NEW i \in DOMAIN LogOf(s, O) PROVE Rank(LogOf(s, O)[i]) <= 4
    <3>1. LogOf(s, O)[i] \in Events
      BY <2>1
    <3> QED
      BY <3>1, RankType
  <2> QED
    BY <1>1, <1>2, <1>4, <2>1, <2>2 DEF Logged
<1> QED
  BY <1>2, <1>3, <1>4, <1>5, <1>6 DEF Kept, During, n

\* The epoch ends, and the application is told.
LEMMA ConfirmDuring ==
  ASSUME NEW P, NEW C, NEW D \in Seq(Outcomes), NEW O \in Seq(Events),
         NEW s, Running(s), During(s, P, C, D, O), s.transportState = "Closing",
         NEW reason, reason = s.machine.closeReason, NEW r, r = ConfirmTransportClosed(s, reason)
  PROVE  /\ During(r, P, C, D, O) /\ GoesOn(r)
         /\ r.transportState = "Closed" /\ r.closeRequest = NoRequest /\ r.lifecycle # <<>>
<1> DEFINE m == s.machine
           t == OnEpochClosed(m)
           f == [s EXCEPT !.transportState = "Closed", !.closeRequest = NoRequest]
<1>1. /\ s \in Slots /\ Owned(s, P) /\ Fated(s, P, C, D) /\ Placed(s) /\ Logged(s, O)
  BY DEF During, Owned
<1>2. /\ m \in Machine /\ Books(m, P) /\ Sound(m) /\ DrainWaits(m) /\ Fronted(m, s.written)
      /\ DOMAIN s.wire = HeldOperations(m) /\ s.timers = Timed(m.pending) /\ Roomy(s, P)
      /\ reason \in CloseReasons /\ s.outcomes \in Seq(Outcomes)
  BY <1>1, SlotFields, MachineFields DEF Owned
<1>3. m.phase = "Closing" /\ s.drainDeadline = Never
  BY <1>1 DEF Placed
<1>4. /\ f \in Slots /\ f.machine = m /\ f.wire = s.wire /\ f.written = s.written
      /\ f.timers = s.timers /\ f.outcomes = s.outcomes /\ f.recoveryOutcomes = s.recoveryOutcomes
      /\ f.transportState = "Closed" /\ f.drainDeadline = s.drainDeadline
      /\ f.closeRequest = NoRequest /\ f.lifecycle = s.lifecycle
      /\ f.recoveryEvents = s.recoveryEvents /\ f.eventSequence = s.eventSequence
      /\ f.owner = s.owner
  BY <1>1, RequestsAre DEF Slots, TransportStates
<1>5. /\ t.machine = [m EXCEPT !.phase = "Closed", !.gate = "Closed"]
      /\ t.machine.phase = "Closed" /\ t.machine.gate = "Closed" /\ t.machine.closeReason = m.closeReason
  BY <1>2, <1>3 DEF OnEpochClosed, Transition, Machine
<1>6. Handles(m, P, t, {})
  BY <1>2, GateHandles
<1>7. r = PublishEvent(Interpret(f, t), "Closed", reason)
  BY DEF ConfirmTransportClosed
<1> HIDE DEF f, t
<1> DEFINE fired == {}
<1>8. /\ Books(f.machine, P) /\ Sound(f.machine) /\ Roomy(f, P)
      /\ DOMAIN f.wire = HeldOperations(f.machine) /\ Handles(f.machine, P, t, fired)
      /\ f.timers = {x \in Timed(f.machine.pending) : x[1] \notin fired}
  BY <1>2, <1>4, <1>6 DEF Roomy
<1> HIDE DEF fired
<1>9. Fronted(t.machine, WrittenAfter(f, t.machine))
  <2>1. t.machine \in Machine /\ Narrows(f.machine, t.machine) /\ f.machine \in Machine
        /\ Fronted(f.machine, f.written)
    BY <1>2, <1>4, <1>6 DEF Handles, Transitions
  <2> QED
    BY <2>1, FrontedAfter
<1>10. PICK w, q : /\ Ran(f, t, w, q) /\ Owned(w, P)
                   /\ TellsOf(q) \subseteq Live(f.machine.pending)
                   /\ Live(t.machine.pending) = Live(f.machine.pending) \ TellsOf(q)
  <2>1. f \in Slots
    BY <1>4
  <2> QED
    BY <2>1, <1>8, <1>9, InterpretKeeps
<1>11. /\ w.machine = t.machine /\ q \in Seq(Outcomes) /\ Distinct(q) /\ w.outcomes = s.outcomes \o q
       /\ w.transportState = "Closed" /\ w.drainDeadline = Never /\ w.closeRequest = NoRequest
       /\ w.owner = s.owner /\ w.lifecycle = s.lifecycle /\ w.recoveryEvents = s.recoveryEvents
       /\ w.eventSequence = s.eventSequence
       /\ Interpret(f, t) = w
  BY <1>3, <1>4, <1>10 DEF Ran, PublishedTo, Stays
<1>12. Fated(w, P, C, D)
  <2>1. t.machine.nextOperation = m.nextOperation
    BY <1>6 DEF Handles
  <2>2. /\ TellsOf(q) \subseteq Live(s.machine.pending)
        /\ Live(w.machine.pending) = Live(s.machine.pending) \ TellsOf(q)
        /\ w.machine.nextOperation = s.machine.nextOperation
    BY <1>4, <1>10, <1>11, <2>1
  <2> QED
    BY <1>1, <1>11, <2>2, FatedAfter
<1>13. Running(w) /\ Placed(w) /\ DrainTimed(w) /\ Reading(w)
  BY <1>5, <1>11 DEF Running, Placed, DrainTimed, Reading, Connecting
<1>14. Edge(s, w, "Closed", reason)
  <2>1. Stage(s) = 3 /\ Stage(w) = 4
    BY <1>11 DEF Stage
  <2> QED
    BY <1>2, <1>5, <1>11, <2>1 DEF Edge
<1> DEFINE kind == "Closed"
<1>15. Edge(s, w, kind, reason) /\ r = PublishEvent(w, kind, reason)
  BY <1>7, <1>11, <1>14
<1> HIDE DEF kind
<1>16. /\ During(r, P, C, D, O) /\ GoesOn(r)
       /\ r.transportState = w.transportState /\ r.closeRequest = w.closeRequest /\ r.lifecycle # <<>>
  <2>1. s \in Slots /\ Logged(s, O) /\ Owned(w, P)
    BY <1>1, <1>10
  <2> QED
    BY <2>1, <1>12, <1>13, <1>15, TellDuring
<1> QED
  BY <1>11, <1>16

LEMMA SettledContract ==
  ASSUME NEW a, NEW b, NEW c \in {"Ready", "Graceful"}, NEW x, NEW owner \in {"Running", "Failed"},
         Shows(a, "Running", "Closing", c, x), Shows(b, owner, "Closed", "None", TRUE)
  PROVE  \E s \in {a} \cup Contract!Forced(a) :
           Contract!Releasable(s) /\ b \in Contract!AfterSettlement(s)
<1> DEFINE s == IF c = "Ready" THEN a ELSE [a EXCEPT !.close = "Ready"]
<1>1. Shows(s, "Running", "Closing", "Ready", x) /\ s \in {a} \cup Contract!Forced(a)
  BY DEF Shows, Contract!Forced
<1> HIDE DEF s
<1> DEFINE closed == [s EXCEPT !.state = "Closed", !.close = "None"]
           y == TRUE
<1>2. Shows(closed, "Running", "Closed", "None", x)
  <2> DEFINE moved == [s EXCEPT !.state = "Closed"]
  <2>1. moved = [owner |-> "Running", state |-> "Closed", close |-> "Ready", publications |-> x]
    BY <1>1 DEF Shows
  <2>2. closed = [moved EXCEPT !.close = "None"]
    OBVIOUS
  <2> HIDE DEF moved
  <2> QED
    BY <2>1, <2>2 DEF Shows
<1> HIDE DEF closed, y
<1>3. /\ [closed EXCEPT !.publications = y] =
           [owner |-> "Running", state |-> "Closed", close |-> "None", publications |-> y]
      /\ [closed EXCEPT !.owner = "Failed", !.publications = y] =
           [owner |-> "Failed", state |-> "Closed", close |-> "None", publications |-> y]
  <2> DEFINE failed == [closed EXCEPT !.owner = "Failed"]
  <2>1. failed = [owner |-> "Failed", state |-> "Closed", close |-> "None", publications |-> x]
    BY <1>2 DEF Shows
  <2>2. [closed EXCEPT !.owner = "Failed", !.publications = y] = [failed EXCEPT !.publications = y]
    OBVIOUS
  <2> HIDE DEF failed
  <2> QED
    BY <1>2, <2>1, <2>2 DEF Shows
<1>4. b = [owner |-> owner, state |-> "Closed", close |-> "None", publications |-> y]
  BY Zenon DEF Shows, y
<1>5. \/ b = [closed EXCEPT !.publications = y]
      \/ b = [closed EXCEPT !.owner = "Failed", !.publications = y]
  BY <1>3, <1>4
<1>6. s.close = "Ready"
  BY <1>1 DEF Shows
<1>7. Contract!AfterSettlement(s) = {[closed EXCEPT !.publications = TRUE],
                                     [closed EXCEPT !.owner = "Failed", !.publications = TRUE]}
  BY <1>6 DEF Contract!AfterSettlement, closed
<1>8. b \in Contract!AfterSettlement(s)
  BY <1>5, <1>7, Zenon DEF y
<1> QED
  BY <1>1, <1>6, <1>8 DEF Contract!Releasable

LEMMA SettledLawful ==
  ASSUME SlotIInv, Idle, Kept(slot', permits, committed, delivered, observed),
         slot'.transportState = "Closed", ~Running(slot') => broken \/ slot'.recoveryEvents # <<>>,
         transport' = NoTransport, UNCHANGED <<quantum, wake, broken, outsideVars>>,
         Contract!Settle
  PROVE  Lawful
<1>1. ~report.recovered /\ quantum.pc = "Idle" /\ report = NoReport /\ Outside
  BY CallRuns, SlotRuns
<1>2. Outside' /\ Driven'
  BY <1>1 DEF Outside, Driven, outsideVars
<1>3. /\ ~NoTransport.present /\ NoTransport.over = FALSE
  BY TransportFields
<1>4. /\ slot'.transportState = "Closed" <=> ~transport'.present
      /\ ~Running(slot') => broken' \/ slot'.recoveryEvents # <<>>
      /\ transport'.over => broken'
      /\ ~report'.recovered /\ report' = NoReport
      /\ Kept(slot', permits', committed', delivered', observed')
  BY <1>1, <1>3 DEF outsideVars
<1> QED
  BY <1>2, <1>4 DEF SlotIInv, Lawful, Contract!Next

LEMMA SettleLawful ==
  ASSUME SlotIInv, Settle
  PROVE  Lawful
<1> DEFINE s == ObserveShutdownComplete(slot, transport.complete)
           P == permits
           C == committed
           D == delivered
           O == observed
           q == slot.closeRequest
<1>1. /\ Idle /\ SettlementReady(s.closeRequest) /\ slot' = SettleTransportClosed(s)
      /\ transport' = NoTransport /\ transport.present
      /\ UNCHANGED <<quantum, wake, broken, outsideVars>>
  BY DEF Settle
<1>2. /\ During(slot, P, C, D, O) /\ Staged(slot) /\ Placed(slot) /\ slot \in Slots
      /\ D \in Seq(Outcomes) /\ O \in Seq(Events) /\ q \in CloseRequests
      /\ slot.transportState \in TransportStates
  BY <1>1, CallRuns, SlotFields DEF During
<1>3. /\ ~Running(slot) => broken \/ slot.recoveryEvents # <<>>
      /\ slot.transportState # "Closed"
  BY <1>1, CallRuns, SlotRuns
<1>4. CASE ~Running(slot)
  <2>1. q = AbortRequest /\ s = slot
    BY <1>2, <1>3, <1>4 DEF Staged, ObserveShutdownComplete, AbortRequest, NoRequest
  <2>2. slot' = AbortTransport(slot)
    BY <1>1, <2>1, RequestsAre DEF SettleTransportClosed
  <2> DEFINE n == AbortTransport(slot)
  <2>3. /\ Kept(n, P, C, D, O) /\ ~Running(n) /\ n.transportState = "Closed"
        /\ n.closeRequest = NoRequest /\ n.recoveryEvents = slot.recoveryEvents
        /\ n.outcomes = slot.outcomes /\ n.lifecycle = slot.lifecycle
    BY <1>2, <1>4, AbortKept
  <2> HIDE DEF n
  <2>4. Contract!Settle
    <3> DEFINE x == slot.outcomes # <<>> \/ slot.lifecycle # <<>>
               a == Abstract(slot)
    <3>1. Shows(a, "Failed", slot.transportState, "Abort", x)
      BY <1>4, <2>1, RequestsAre DEF Abstract, Shows
    <3>2. Shows(Abstract(n), "Failed", "Closed", "None", x)
      BY <2>3 DEF Abstract, Shows
    <3> HIDE DEF x, a
    <3> DEFINE moved == [a EXCEPT !.state = "Closed"]
               closed == [a EXCEPT !.state = "Closed", !.close = "None"]
    <3>3. moved = [owner |-> "Failed", state |-> "Closed", close |-> "Abort", publications |-> x]
      BY <3>1 DEF Shows
    <3>4. closed = [moved EXCEPT !.close = "None"]
      OBVIOUS
    <3>5. a.close = "Abort"
      BY <3>1 DEF Shows
    <3>6. Abstract(n) = closed
      <4> HIDE DEF moved, closed
      <4> QED
        BY <3>2, <3>3, <3>4 DEF Shows
    <3>7. Contract!AfterSettlement(a) = {closed} /\ Contract!Releasable(a)
      BY <3>5 DEF Contract!AfterSettlement, Contract!Releasable
    <3>8. Abstract(slot)' = Abstract(n)
      BY <2>2 DEF n, Abstract, Running
    <3> QED
      BY <3>6, <3>7, <3>8 DEF Contract!Settle, a
  <2> QED
    BY <1>1, <1>3, <1>4, <2>2, <2>3, <2>4, SettledLawful DEF n
<1>5. CASE Running(slot)
  <2>1. /\ slot.transportState = "Closing" /\ q.kind = "Core" /\ q.reason = slot.machine.closeReason
    <3>1. s.closeRequest # NoRequest
      BY <1>1, RequestsAre DEF SettlementReady
    <3>2. slot.closeRequest # NoRequest
      <4>1. NoRequest.shutdown = "Immediate"
        BY DEF NoRequest
      <4> QED
        BY <3>1, <4>1 DEF ObserveShutdownComplete
    <3> QED
      BY <1>2, <1>3, <1>5, <3>2 DEF Placed, TransportStates
  <2>2. /\ During(s, P, C, D, O) /\ Running(s) /\ s.transportState = "Closing"
        /\ s.closeRequest.kind = "Core" /\ s.closeRequest.reason = s.machine.closeReason
    <3>1. CASE s = slot
      BY <1>2, <1>5, <2>1, <3>1
    <3>2. CASE q.shutdown = "Started" /\ s = SetShutdown(slot, "Complete")
      <4>1. ShuttingDown(slot) /\ "Complete" \in Shutdowns
        BY <2>1, <3>2 DEF ShuttingDown, Shutdowns
      <4>2. Comes(slot, s, P, C, D, O) /\ Running(s) /\ s.closeRequest.kind = "Core"
        BY <1>2, <1>5, <3>2, <4>1, ShutdownComes
      <4>3. s.transportState = "Closing"
        BY <2>1, <4>2 DEF Comes, Moves
      <4> QED
        BY <4>2, <4>3 DEF Comes, During, Placed
    <3> QED
      BY <3>1, <3>2 DEF ObserveShutdownComplete
  <2> HIDE DEF s
  <2> DEFINE reason == s.closeRequest.reason
             r == ConfirmTransportClosed(s, reason)
  <2>3. reason = s.machine.closeReason /\ r = ConfirmTransportClosed(s, reason)
    BY <2>2
  <2> HIDE DEF reason, r
  <2>4. /\ During(r, P, C, D, O) /\ GoesOn(r) /\ r.transportState = "Closed"
        /\ r.closeRequest = NoRequest /\ r.lifecycle # <<>>
    BY <1>2, <2>2, <2>3, ConfirmDuring
  <2> DEFINE n == IF Running(r) THEN r ELSE AbortTransport(r)
  <2>5. slot' = n
    BY <1>1, <2>2 DEF SettleTransportClosed, r, reason
  <2>6. /\ Kept(n, P, C, D, O) /\ n.transportState = "Closed" /\ n.closeRequest = NoRequest
        /\ n.lifecycle # <<>> /\ (Running(n) \/ n.recoveryEvents # <<>>)
    <3>1. CASE Running(r)
      <4>1. n = r
        BY <3>1
      <4> QED
        BY <2>4, <3>1, <4>1 DEF Kept, Staged, During
    <3>2. CASE ~Running(r)
      <4>1. n = AbortTransport(r)
        BY <3>2
      <4>2. r.recoveryEvents # <<>>
        BY <2>4, <3>2 DEF GoesOn
      <4> QED
        BY <1>2, <2>4, <3>2, <4>1, <4>2, AbortKept
    <3> QED
      BY <3>1, <3>2
  <2> HIDE DEF n
  <2>7. Contract!Settle
    <3> DEFINE x == slot.outcomes # <<>> \/ slot.lifecycle # <<>>
               y == n.outcomes # <<>> \/ n.lifecycle # <<>>
               a == Abstract(slot)
               b == Abstract(n)
               c == IF SettlementReady(slot.closeRequest) THEN "Ready" ELSE "Graceful"
               owner == IF Running(n) THEN "Running" ELSE "Failed"
    <3>1. Shows(a, "Running", "Closing", c, x)
      BY <1>5, <2>1, RequestsAre DEF Abstract, Shows
    <3>2. Shows(b, owner, "Closed", "None", y)
      BY <2>6 DEF Abstract, Shows
    <3>3. y = TRUE
      BY <2>6
    <3>4. c \in {"Ready", "Graceful"} /\ owner \in {"Running", "Failed"}
      OBVIOUS
    <3> HIDE DEF x, y, a, b, c, owner
    <3>5. Shows(b, owner, "Closed", "None", TRUE)
      BY <3>2, <3>3, Zenon
    <3>6. \E u \in {a} \cup Contract!Forced(a) :
            Contract!Releasable(u) /\ b \in Contract!AfterSettlement(u)
      BY <3>1, <3>4, <3>5, SettledContract
    <3>7. Abstract(slot)' = b
      BY <2>5 DEF b, Abstract, Running
    <3> QED
      BY <3>6, <3>7 DEF Contract!Settle, a
  <2> QED
    BY <1>1, <2>5, <2>6, <2>7, SettledLawful
<1> QED
  BY <1>4, <1>5

(***************************************************************************)
(* Recovery: what the invariant says of a slot, and of what it hands back. *)
(***************************************************************************)
ToldAt(told, operation) == {i \in DOMAIN told : told[i].operation = operation}
LiveAt(s, operation) ==
  {i \in {j \in DOMAIN s : s[j].phase # "Terminal"} : s[i].operation = operation}
HandedAt(handed, operation) == {i \in DOMAIN handed : handed[i] = operation}

LEMMA CountOne ==
  ASSUME NEW found, \A x, y \in found : x = y
  PROVE  Cardinality(found) = IF found = {} THEN 0 ELSE 1
<1>1. CASE found = {}
  BY <1>1, FS_EmptySet
<1>2. CASE found # {}
  <2>1. PICK x : x \in found
    BY <1>2
  <2>2. found = {x}
    BY <2>1
  <2> QED
    BY <1>2, <2>2, FS_Singleton
<1> QED
  BY <1>1, <1>2

\* Each operation still owed something is in what recovery hands back, once.
LEMMA HandedOnce ==
  ASSUME NEW s \in Seq(OperationRecord), Distinct(s), NEW positions,
         positions = {i \in DOMAIN s : s[i].phase # "Terminal"},
         NEW picked, picked = Picked(s, positions),
         NEW handed, handed = [i \in DOMAIN picked |-> picked[i].operation], NEW operation
  PROVE  Cardinality(HandedAt(handed, operation)) = IF operation \in Live(s) THEN 1 ELSE 0
<1>1. picked \in Seq(OperationRecord) /\ \E f : Numbers(f, picked, s, positions, Len(s))
  <2>1. positions \in SUBSET DOMAIN s
    OBVIOUS
  <2> QED
    BY <2>1, PickedNumbers
<1>2. PICK f : Numbers(f, picked, s, positions, Len(s))
  BY <1>1
<1> DEFINE n == Len(picked)
<1>3. n \in Nat /\ DOMAIN picked = 1..n /\ DOMAIN handed = 1..n
  BY <1>1
<1>4. /\ positions \cap 1..Len(s) = positions
      /\ \A p \in positions : p \in Nat
  OBVIOUS
<1>5. /\ f \in [1..n -> positions] /\ \A a \in 1..n : picked[a] = s[f[a]]
      /\ \A a, b \in 1..n : a < b => f[a] < f[b]
      /\ \A p \in positions : \E a \in 1..n : f[a] = p
  BY <1>2, <1>4 DEF Numbers
<1> HIDE DEF n
<1>6. \A a \in 1..n : handed[a] = s[f[a]].operation /\ f[a] \in positions
  BY <1>3, <1>5
<1> DEFINE found == {a \in 1..n : s[f[a]].operation = operation}
<1>7. HandedAt(handed, operation) = found
  BY <1>3, <1>6 DEF HandedAt
<1>8. \A a, b \in found : a = b
  <2> SUFFICES ASSUME NEW a \in found, NEW b \in found
               PROVE  a = b
    OBVIOUS
  <2>1. f[a] \in DOMAIN s /\ f[b] \in DOMAIN s /\ s[f[a]].operation = s[f[b]].operation
    BY <1>6
  <2>2. f[a] = f[b]
    BY <2>1 DEF Distinct
  <2>3. f[a] \in Nat /\ f[b] \in Nat
    BY <1>4, <1>6
  <2>4. a \in 1..n /\ b \in 1..n /\ ~(f[a] < f[b]) /\ ~(f[b] < f[a])
    BY <2>2, <2>3
  <2>5. ~(a < b) /\ ~(b < a)
    BY <1>5, <2>4
  <2> QED
    BY <1>3, <2>4, <2>5
<1>9. found # {} <=> operation \in Live(s)
  <2>1. ASSUME found # {} PROVE operation \in Live(s)
    <3>1. PICK a \in 1..n : s[f[a]].operation = operation
      BY <2>1
    <3>2. f[a] \in {j \in DOMAIN s : s[j].phase # "Terminal"}
      BY <1>6
    <3> QED
      BY <3>1, <3>2 DEF Live
  <2>2. ASSUME operation \in Live(s) PROVE found # {}
    <3>1. PICK p \in positions : s[p].operation = operation
      BY <2>2 DEF Live
    <3>2. PICK a \in 1..n : f[a] = p
      BY <1>5
    <3> QED
      BY <3>1, <3>2
  <2> QED
    BY <2>1, <2>2
<1> HIDE DEF found
<1> QED
  BY <1>7, <1>8, <1>9, CountOne

\* What was committed is told once or owed once.
LEMMA FateCounts ==
  ASSUME NEW told, Distinct(told), NEW s, Distinct(s), NEW operation,
         operation \in TellsOf(told) \cup Live(s), TellsOf(told) \cap Live(s) = {}
  PROVE  /\ Cardinality(ToldAt(told, operation)) = IF operation \in Live(s) THEN 0 ELSE 1
         /\ Cardinality(LiveAt(s, operation)) = IF operation \in Live(s) THEN 1 ELSE 0
<1>1. \A a, b \in ToldAt(told, operation) : a = b
  BY DEF ToldAt, Distinct
<1>2. \A a, b \in LiveAt(s, operation) : a = b
  BY DEF LiveAt, Distinct
<1>3. ToldAt(told, operation) # {} <=> operation \in TellsOf(told)
  BY DEF ToldAt, TellsOf
<1>4. LiveAt(s, operation) # {} <=> operation \in Live(s)
  BY DEF LiveAt, Live
<1> QED
  BY <1>1, <1>2, <1>3, <1>4, CountOne

LEMMA KeptFates ==
  ASSUME SlotIInv, ~report.recovered
  PROVE  OneFatePerCommit
<1> DEFINE told == delivered \o slot.outcomes
           s == slot.machine.pending
<1>1. /\ slot \in Slots /\ report = NoReport /\ Fated(slot, permits, committed, delivered)
      /\ Owned(slot, permits) /\ delivered \in Seq(Outcomes)
  BY SlotRuns DEF Kept, During
<1>2. /\ slot.recoveryOutcomes = <<>> /\ slot.outcomes \in Seq(Outcomes) /\ Distinct(s)
  BY <1>1, SlotFields DEF Owned, Roomy, Sound
<1>3. /\ report.outcomes = <<>> /\ report.operations = <<>>
  BY <1>1 DEF NoReport
<1>4. delivered \o slot.outcomes \o slot.recoveryOutcomes \o report.outcomes = told
  <2>1. told \in Seq(Outcomes) /\ told \o <<>> = told
    <3>1. told \in Seq(Outcomes)
      BY <1>1, <1>2, OutcomesJoin
    <3> QED
      BY <3>1, OutcomesJoin
  <2> QED
    BY <1>2, <1>3, <2>1
<1>5. Distinct(told) /\ committed = TellsOf(told) \cup Live(s) /\ TellsOf(told) \cap Live(s) = {}
  BY <1>1 DEF Fated
<1> HIDE DEF told, s
<1>6. ASSUME NEW operation \in committed PROVE Fates(operation) = 1
  <2>1. /\ Cardinality(ToldAt(told, operation)) = IF operation \in Live(s) THEN 0 ELSE 1
        /\ Cardinality(LiveAt(s, operation)) = IF operation \in Live(s) THEN 1 ELSE 0
    BY <1>2, <1>5, FateCounts
  <2>2. Cardinality({i \in DOMAIN report.operations : report.operations[i] = operation}) = 0
    <3>1. {i \in DOMAIN report.operations : report.operations[i] = operation} = {}
      BY <1>3
    <3> QED
      BY <3>1, FS_EmptySet
  <2>3. Fates(operation) = Cardinality(ToldAt(told, operation)) + 0 + Cardinality(LiveAt(s, operation))
    BY <1>4, <2>2 DEF Fates, ToldAt, LiveAt, ObservedPositions, s
  <2> QED
    BY <2>1, <2>3
<1> QED
  BY <1>6 DEF OneFatePerCommit

LEMMA KeptEvents ==
  ASSUME SlotIInv, ~report.recovered
  PROVE  AllEvents = LogOf(slot, observed) /\ EventsGapless /\ CloseReasonTruthful
<1> DEFINE e == LogOf(slot, observed)
<1>1. slot \in Slots /\ report = NoReport /\ Logged(slot, observed) /\ observed \in Seq(Events)
  BY SlotRuns DEF Kept, During
<1>2. report.events = <<>> /\ e \in Seq(Events)
  BY <1>1, LogType DEF NoReport
<1>3. AllEvents = e
  <2>1. e \o <<>> = e
    BY <1>2, EventsJoin
  <2> QED
    BY <1>2, <2>1 DEF AllEvents, LogOf
<1> HIDE DEF e
<1>4. /\ Len(e) = slot.eventSequence /\ InSequence(e, slot.machine.closeReason)
      /\ Truthful(e, slot.machine.closeReason)
  BY <1>1 DEF Logged, e
<1>5. EventsGapless
  BY <1>3, <1>4 DEF EventsGapless, InSequence
<1>6. CloseReasonTruthful
  BY <1>3, <1>4 DEF CloseReasonTruthful, Truthful, Opened
<1> QED
  BY <1>3, <1>5, <1>6 DEF e

LEMMA KeptInv ==
  ASSUME SlotIInv, ~report.recovered
  PROVE  SlotInv
<1> DEFINE m == slot.machine
           J == {j \in DOMAIN m.pending : m.pending[j].phase # "Terminal"}
<1>1. /\ slot \in Slots /\ Outside /\ Owned(slot, permits) /\ Placed(slot) /\ Reading(slot)
      /\ slot.transportState = "Closed" <=> ~transport.present
  BY SlotRuns DEF Kept, During
<1>2. /\ m \in Machine /\ slot.transportState \in TransportStates
      /\ m.pending \in Seq(OperationRecord)
  BY <1>1, SlotFields, MachineFields
<1>3. /\ Books(m, permits) /\ Sound(m) /\ Roomy(slot, permits)
      /\ DOMAIN slot.wire = HeldOperations(m) /\ slot.timers = Timed(m.pending)
  BY <1>1 DEF Owned
<1>4. TypeOK
  BY <1>1, <1>3 DEF TypeOK, Outside, Books, Identified
<1>5. OutcomeRoomKept
  <2>1. J = {j \in DOMAIN m.pending : m.pending[j].phase # "Terminal"} /\ ObservedPositions = J
    BY DEF ObservedPositions
  <2> HIDE DEF J
  <2>2. Cardinality(Live(m.pending)) = Cardinality(J)
    BY <1>2, <1>3, <2>1, LiveCounted DEF Sound
  <2>3. Len(slot.outcomes) + Cardinality(Live(m.pending)) + Cardinality(permits) <= MaxOperations
    BY <1>3 DEF Roomy
  <2> QED
    BY <2>1, <2>2, <2>3 DEF OutcomeRoomKept
<1>6. TimersMatchRecords
  BY <1>3 DEF TimersMatchRecords, Timed, TimerOf
<1>7. DecoderNeverStalls
  BY <1>1 DEF DecoderNeverStalls, Reading, CanRead
<1>8. SettledOwnsNothing
  <2>1. ASSUME slot.transportState = "Closed", Running(slot)
        PROVE  m.phase = "Closed" /\ m.pending = <<>> /\ slot.timers = {}
    <3>1. m.phase = "Closed"
      BY <1>1, <2>1 DEF Placed
    <3>2. m.pending = <<>>
      BY <1>3, <3>1 DEF Books, Shut
    <3> QED
      BY <1>3, <3>1, <3>2 DEF Timed
  <2>2. slot.closeRequest # NoRequest /\ Running(slot) <=>
          slot.transportState = "Closing" /\ Running(slot)
    BY <1>1, <1>2, RequestsAre DEF Placed, TransportStates
  <2>3. slot.transportState = "Closed" => slot.drainDeadline = Never /\ slot.closeRequest = NoRequest
    BY <1>1 DEF Placed
  <2> QED
    BY <1>1, <2>1, <2>2, <2>3 DEF SettledOwnsNothing
<1> QED
  BY <1>4, <1>5, <1>6, <1>7, <1>8, KeptFates, KeptEvents DEF SlotInv

\* The slot after recovery: nothing is held or told, the rest is as it was.
Emptied(s, r, n) ==
  /\ n \in Slots /\ n.machine = r /\ n.wire = [operation \in {} |-> 0] /\ n.outcomes = <<>>
  /\ n.recoveryOutcomes = <<>> /\ n.lifecycle = <<>> /\ n.recoveryEvents = <<>>
  /\ n.timers = s.timers /\ n.eventSequence = s.eventSequence /\ n.owner = s.owner
  /\ n.transportState = s.transportState /\ n.drainDeadline = s.drainDeadline
  /\ n.closeRequest = s.closeRequest /\ n.decoder = s.decoder
  /\ n.decoderPending = s.decoderPending

LEMMA RecoverEmpties ==
  ASSUME SlotIInv, Recover, NEW l, l = ReleaseRecords(slot.machine.ledger, slot.machine.pending),
         NEW r, r = [slot.machine EXCEPT !.pending = <<>>, !.ledger = l]
  PROVE  Emptied(slot, r, slot') /\ r.phase = slot.machine.phase /\ r.pending = <<>>
         /\ r.closeReason = slot.machine.closeReason /\ r.nextOperation = slot.machine.nextOperation
<1> DEFINE m == slot.machine
           none == [operation \in {} |-> 0]
           a == [slot EXCEPT !.machine = r]
           b == [a EXCEPT !.wire = none, !.written = 0]
<1>1. slot \in Slots /\ m \in Machine /\ m.pending \in Seq(OperationRecord) /\ m.ledger \in Ledger
  BY CallRuns, SlotFields, MachineFields DEF Recover
<1>2. l \in Ledger
  <2>1. \A i \in 1..Len(m.pending) : m.pending[i] \in OperationRecord
    BY <1>1
  <2>2. \A i \in 1..Len(m.pending) : /\ m.pending[i].reservation \in Reservation
                                     /\ m.pending[i].writeHeld \in BOOLEAN
    BY <2>1, RecordFields
  <2> QED
    BY <1>1, <2>2, ReleaseRecordsType
<1>3. /\ r \in Machine /\ r.phase = m.phase /\ r.pending = <<>> /\ r.closeReason = m.closeReason
      /\ r.nextOperation = m.nextOperation
  <2>1. <<>> \in Seq(OperationRecord)
    OBVIOUS
  <2> QED
    BY <1>1, <1>2, <2>1 DEF Machine
<1>4. none \in Wires
  <2>1. {} \in SUBSET Operations /\ none \in [{} -> WireLengths]
    OBVIOUS
  <2> QED
    BY <2>1 DEF Wires
<1>5. a \in Slots /\ a.machine = r
  BY <1>1, <1>3 DEF Slots
<1>6. a = [[slot EXCEPT !.machine.pending = <<>>] EXCEPT
             !.machine.ledger = ReleaseRecords(@, slot.machine.pending)]
  BY <1>1 DEF Slots, Machine
<1>7. slot' = [a EXCEPT !.wire = none, !.written = 0, !.outcomes = <<>>, !.recoveryOutcomes = <<>>,
                        !.lifecycle = <<>>, !.recoveryEvents = <<>>]
  BY <1>6 DEF Recover
<1>8. /\ a.timers = slot.timers /\ a.eventSequence = slot.eventSequence /\ a.owner = slot.owner
      /\ a.transportState = slot.transportState /\ a.drainDeadline = slot.drainDeadline
      /\ a.closeRequest = slot.closeRequest /\ a.decoder = slot.decoder
      /\ a.decoderPending = slot.decoderPending
  BY <1>1 DEF Slots
<1> HIDE DEF a, none
<1>9. /\ slot' \in Slots /\ slot'.machine = r /\ slot'.wire = none /\ slot'.outcomes = <<>>
      /\ slot'.recoveryOutcomes = <<>> /\ slot'.lifecycle = <<>> /\ slot'.recoveryEvents = <<>>
      /\ slot'.timers = a.timers /\ slot'.eventSequence = a.eventSequence /\ slot'.owner = a.owner
      /\ slot'.transportState = a.transportState /\ slot'.drainDeadline = a.drainDeadline
      /\ slot'.closeRequest = a.closeRequest /\ slot'.decoder = a.decoder
      /\ slot'.decoderPending = a.decoderPending
  <2>1. <<>> \in Seq(Outcomes) /\ <<>> \in Seq(Events) /\ 0 \in Nat
    OBVIOUS
  <2> QED
    BY <1>4, <1>5, <1>7, <2>1 DEF Slots
<1> QED
  BY <1>3, <1>8, <1>9 DEF Emptied, none

LEMMA RecoverLawful ==
  ASSUME SlotIInv, Recover
  PROVE  Lawful
<1> DEFINE m == slot.machine
           l == ReleaseRecords(m.ledger, m.pending)
           r == [m EXCEPT !.pending = <<>>, !.ledger = l]
           positions == {i \in DOMAIN m.pending : m.pending[i].phase # "Terminal"}
           picked == Picked(m.pending, positions)
           handed == [i \in DOMAIN picked |-> picked[i].operation]
           told == delivered \o slot.outcomes
           log == LogOf(slot, observed)
<1>1. /\ Idle
      /\ report' = [recovered |-> TRUE, operations |-> handed,
                    outcomes |-> slot.outcomes \o slot.recoveryOutcomes,
                    events |-> slot.lifecycle \o slot.recoveryEvents, diverged |-> slot.diverged]
      /\ UNCHANGED <<transport, permits, now, quantum, wake, broken, committed, delivered, observed>>
  BY DEF Recover, Recoverable
<1>2. /\ ~report.recovered /\ quantum.pc = "Idle" /\ Outside /\ SlotInv
      /\ slot \in Slots /\ Owned(slot, permits) /\ Fated(slot, permits, committed, delivered)
      /\ Logged(slot, observed) /\ delivered \in Seq(Outcomes) /\ observed \in Seq(Events)
  BY <1>1, CallRuns, KeptInv DEF During
<1>3. /\ m.pending \in Seq(OperationRecord) /\ Distinct(m.pending) /\ slot.recoveryOutcomes = <<>>
      /\ slot.outcomes \in Seq(Outcomes) /\ slot.lifecycle \in Seq(Events)
      /\ slot.recoveryEvents \in Seq(Events) /\ Books(m, permits)
  BY <1>2, SlotFields, MachineFields DEF Owned, Roomy, Sound
<1>4. /\ Emptied(slot, r, slot') /\ r.phase = m.phase /\ r.pending = <<>>
      /\ r.closeReason = m.closeReason
  <2>1. l = ReleaseRecords(slot.machine.ledger, slot.machine.pending)
        /\ r = [slot.machine EXCEPT !.pending = <<>>, !.ledger = l]
    OBVIOUS
  <2> HIDE DEF l, r, m
  <2>2. Emptied(slot, r, slot') /\ r.phase = slot.machine.phase /\ r.pending = <<>>
        /\ r.closeReason = slot.machine.closeReason
    BY <2>1, RecoverEmpties
  <2> QED
    BY <2>2 DEF m
<1>5. /\ report'.recovered /\ report'.operations = handed
      /\ report'.outcomes = slot.outcomes /\ report'.events = slot.lifecycle \o slot.recoveryEvents
  BY <1>1, <1>3, OutcomesJoin
<1> HIDE DEF l, r, handed, picked, positions
<1>6. /\ slot'.machine = r /\ slot'.outcomes = <<>> /\ slot'.recoveryOutcomes = <<>>
      /\ slot'.lifecycle = <<>> /\ slot'.recoveryEvents = <<>> /\ slot'.wire = [operation \in {} |-> 0]
      /\ slot' \in Slots /\ slot'.eventSequence = slot.eventSequence /\ slot'.timers = slot.timers
      /\ slot'.owner = slot.owner /\ slot'.transportState = slot.transportState
      /\ slot'.drainDeadline = slot.drainDeadline /\ slot'.closeRequest = slot.closeRequest
      /\ slot'.decoder = slot.decoder /\ slot'.decoderPending = slot.decoderPending
  BY <1>4 DEF Emptied
<1>7. slot'.machine.pending = <<>> /\ slot'.machine.closeReason = m.closeReason
      /\ slot'.machine.phase = m.phase
  BY <1>4, <1>6
<1>8. ObservedPositions' = {}
  BY <1>7 DEF ObservedPositions
<1>9. AllEvents' = log
  <2>1. AllEvents' = observed \o <<>> \o <<>> \o (slot.lifecycle \o slot.recoveryEvents)
    BY <1>1, <1>5, <1>6 DEF AllEvents
  <2>2. /\ observed \o <<>> = observed
        /\ (observed \o slot.lifecycle) \o slot.recoveryEvents
             = observed \o (slot.lifecycle \o slot.recoveryEvents)
    <3>1. /\ observed \in Seq(Events) /\ slot.lifecycle \in Seq(Events)
          /\ slot.recoveryEvents \in Seq(Events)
      BY <1>2, <1>3
    <3>2. observed \o <<>> = observed
      BY <3>1, EventsJoin
    <3>3. (observed \o slot.lifecycle) \o slot.recoveryEvents
             = observed \o (slot.lifecycle \o slot.recoveryEvents)
      <4>1. \A c \in Seq(Events) :
              (observed \o slot.lifecycle) \o c = observed \o (slot.lifecycle \o c)
        BY <3>1, EventsJoin, Zenon
      <4> QED
        BY <3>1, <4>1, Zenon
    <3> QED
      BY <3>2, <3>3
  <2> QED
    BY <2>1, <2>2 DEF LogOf
<1>10. /\ Len(log) = slot.eventSequence /\ InSequence(log, m.closeReason)
       /\ Truthful(log, m.closeReason)
  BY <1>2 DEF Logged
<1> HIDE DEF log
<1>11. EventsGapless'
  BY <1>6, <1>7, <1>9, <1>10 DEF EventsGapless, InSequence, Rank
<1>12. CloseReasonTruthful'
  BY <1>7, <1>9, <1>10 DEF CloseReasonTruthful, Truthful, Opened
<1>13. OneFatePerCommit'
  <2>1. delivered' \o slot'.outcomes \o slot'.recoveryOutcomes \o report'.outcomes = told
    <3>1. delivered \in Seq(Outcomes)
      BY <1>2
    <3>2. delivered \o <<>> = delivered
      BY <3>1, OutcomesJoin
    <3> QED
      BY <1>1, <1>5, <1>6, <3>2
  <2>2. Distinct(told) /\ committed = TellsOf(told) \cup Live(m.pending)
        /\ TellsOf(told) \cap Live(m.pending) = {}
    BY <1>2 DEF Fated
  <2>3. /\ positions = {i \in DOMAIN m.pending : m.pending[i].phase # "Terminal"}
        /\ picked = Picked(m.pending, positions)
        /\ handed = [i \in DOMAIN picked |-> picked[i].operation]
    BY DEF positions, picked, handed
  <2> HIDE DEF told, m
  <2>4. ASSUME NEW operation \in committed PROVE Fates(operation)' = 1
    <3>1. Cardinality(ToldAt(told, operation)) = IF operation \in Live(m.pending) THEN 0 ELSE 1
      BY <1>3, <2>2, FateCounts
    <3>2. Cardinality(HandedAt(handed, operation)) = IF operation \in Live(m.pending) THEN 1 ELSE 0
      BY <1>3, <2>3, HandedOnce
    <3>3. Cardinality({i \in ObservedPositions' : slot'.machine.pending[i].operation = operation}) = 0
      <4>1. {i \in ObservedPositions' : slot'.machine.pending[i].operation = operation} = {}
        BY <1>8
      <4> QED
        BY <4>1, FS_EmptySet
    <3>4. Fates(operation)' = Cardinality(ToldAt(told, operation)) + Cardinality(HandedAt(handed, operation)) + 0
      BY <1>5, <2>1, <3>3 DEF Fates, ToldAt, HandedAt
    <3> QED
      BY <3>1, <3>2, <3>4
  <2> QED
    BY <1>1, <2>4 DEF OneFatePerCommit
<1>14. TypeOK'
  <2>1. DOMAIN slot'.wire = HeldOperations(slot'.machine)
    BY <1>6, <1>7 DEF HeldOperations, HeldPositions
  <2> QED
    BY <1>1, <1>2, <1>6, <2>1 DEF SlotInv, TypeOK, Outside
<1>15. OutcomeRoomKept'
  <2>1. Running(slot') <=> Running(slot)
    BY <1>6 DEF Running
  <2>2. Cardinality(ObservedPositions') = 0 /\ Len(slot'.outcomes) = 0
    <3>1. Cardinality(ObservedPositions') = 0
      BY <1>8, FS_EmptySet
    <3> QED
      BY <1>6, <3>1
  <2>3. Cardinality(permits) <= MaxOperations
    <3>1. Len(slot.outcomes) + Cardinality(Live(m.pending)) + Cardinality(permits) <= MaxOperations
      BY <1>2 DEF Owned, Roomy
    <3>2. Cardinality(permits) \in Nat
      BY <1>3, PermitsCounted DEF Books
    <3>3. Cardinality(Live(m.pending)) \in Nat
      BY <1>3, LiveCounted
    <3>4. Len(slot.outcomes) \in Nat /\ MaxOperations \in Nat
      BY <1>3, LimitsAssumption
    <3> QED
      BY <3>1, <3>2, <3>3, <3>4
  <2>4. Cardinality(permits) \in Nat
    BY <1>3, PermitsCounted DEF Books
  <2> QED
    BY <1>1, <2>2, <2>3, <2>4 DEF OutcomeRoomKept
<1>16. TimersMatchRecords'
  BY <1>5 DEF TimersMatchRecords
<1>17. DecoderNeverStalls'
  BY <1>2, <1>6 DEF SlotInv, DecoderNeverStalls, Running
<1>18. SettledOwnsNothing'
  BY <1>1, <1>2, <1>6, <1>7 DEF SlotInv, SettledOwnsNothing, Running
<1>19. SlotInv'
  BY <1>12, <1>13, <1>14, <1>15, <1>16, <1>17, <1>18 DEF SlotInv
<1>20. Outside' /\ quantum'.pc = "Idle"
  BY <1>1, <1>2 DEF Outside
<1>21. [Contract!Next]_(Abstract(slot))
  <2> DEFINE n == slot'
  <2>1. Abstract(n) = Abstract(slot) \/ Abstract(n) = Contract!Drained(Abstract(slot))
    <3>1. /\ n.owner = slot.owner /\ n.transportState = slot.transportState
          /\ n.closeRequest = slot.closeRequest /\ n.outcomes = <<>> /\ n.lifecycle = <<>>
      BY <1>6
    <3> HIDE DEF n
    <3> QED
      BY <3>1, DrainedContract
  <2>2. Abstract(slot)' = Abstract(n)
    BY DEF Abstract, Running
  <2> QED
    BY <2>1, <2>2 DEF Contract!Next, Contract!Drain
<1> QED
  BY <1>5, <1>11, <1>19, <1>20, <1>21 DEF SlotIInv, Lawful

(***************************************************************************)
(* The whole specification.                                                *)
(***************************************************************************)
LEMMA NewSlotKept == Kept(NewSlot, {}, {}, <<>>, <<>>)
<1> DEFINE s == NewSlot
           none == {}
           nothing == <<>>
<1>1. /\ s.machine = NewMachine /\ s.wire = [operation \in {} |-> 0] /\ s.written = 0
      /\ s.decoder = NewDriver /\ s.decoderPending = FALSE /\ s.transportState = "Connecting"
      /\ s.drainDeadline = Never /\ s.closeRequest = NoRequest /\ s.owner = "Running"
      /\ s.timers = {} /\ s.outcomes = <<>> /\ s.recoveryOutcomes = <<>> /\ s.lifecycle = <<>>
      /\ s.recoveryEvents = <<>> /\ s.eventSequence = 0
  BY DEF NewSlot
<1>2. s \in Slots
  <2> DEFINE wire == [operation \in {} |-> 0]
  <2>1. wire \in Wires
    <3>1. {} \in SUBSET Operations /\ wire \in [{} -> WireLengths]
      OBVIOUS
    <3> QED
      BY <3>1 DEF Wires
  <2>2. NewDriver \in Driver
    BY DEF NewDriver, Driver
  <2>3. /\ <<>> \in Seq(Outcomes) /\ <<>> \in Seq(Events) /\ {} \in SUBSET (Operations \X Moments)
        /\ "Transport" \in Preferences /\ "Connecting" \in TransportStates /\ "Running" \in Owners
        /\ FALSE \in BOOLEAN /\ 0 \in Nat
    BY DEF Preferences, TransportStates, Owners
  <2> DEFINE no == FALSE
  <2>4. no \in BOOLEAN
    OBVIOUS
  <2>5. s = [machine |-> NewMachine, wire |-> wire, written |-> 0,
             decoder |-> NewDriver, decoderPending |-> no, ioPreference |-> "Transport",
             transportState |-> "Connecting", drainDeadline |-> Never,
             closeRequest |-> NoRequest, owner |-> "Running", timers |-> {},
             outcomes |-> <<>>, recoveryOutcomes |-> <<>>,
             lifecycle |-> <<>>, recoveryEvents |-> <<>>, eventSequence |-> 0, diverged |-> no]
    BY Zenon DEF NewSlot
  <2> HIDE DEF no, s, wire
  <2> QED
    BY <2>1, <2>2, <2>3, <2>4, <2>5, NewMachineType, RequestsAre DEF Slots
<1> HIDE DEF s
<1>3. /\ s.machine.pending = <<>> /\ s.machine.phase = "Live" /\ s.machine.gate = "SessionOnly"
      /\ s.machine.closeReason = "None" /\ s.machine.nextOperation = OperationSeed
  BY <1>1 DEF NewMachine
<1>4. none = {} /\ Cardinality(none) = 0 /\ nothing = <<>>
  BY FS_EmptySet
<1>5. Books(s.machine, none)
  BY <1>1, <1>4, NewBooks
<1> HIDE DEF none, nothing
<1>6. HeldPositions(s.machine) = {} /\ HeldOperations(s.machine) = {} /\ Live(s.machine.pending) = {}
      /\ Timed(s.machine.pending) = {}
  BY <1>3 DEF HeldPositions, HeldOperations, Live, Timed
<1>7. Owned(s, none)
  <2>1. Roomy(s, none)
    <3>1. Cardinality(Live(s.machine.pending)) = 0
      BY <1>4, <1>6
    <3>2. Len(s.outcomes) = 0 /\ DOMAIN s.outcomes = {} /\ MaxOperations \in Nat
      BY <1>1, LimitsAssumption
    <3> QED
      BY <1>1, <1>4, <3>1, <3>2 DEF Roomy
  <2>2. DOMAIN s.wire = HeldOperations(s.machine) /\ Sound(s.machine) /\ DrainWaits(s.machine)
        /\ Fronted(s.machine, s.written)
    BY <1>1, <1>3, <1>6 DEF Sound, Distinct, DrainWaits, Fronted
  <2> QED
    BY <1>1, <1>2, <1>5, <1>6, <2>1, <2>2 DEF Owned
<1>8. Fated(s, none, none, nothing)
  <2>1. nothing \o s.outcomes = <<>>
    BY <1>1, <1>4
  <2> QED
    BY <1>4, <1>6, <2>1 DEF Fated, Distinct, TellsOf
<1>9. Placed(s) /\ DrainTimed(s) /\ Staged(s)
  BY <1>1, <1>3 DEF Placed, DrainTimed, Staged, Running
<1>10. Reading(s)
  <2>1. ~NewDriver.failed /\ NewDriver.retained = 0
    BY DEF NewDriver
  <2> QED
    BY <1>1, <1>3, <2>1, DecoderAssumption DEF Reading, CanRead, Connecting
<1>11. Logged(s, nothing)
  <2>1. LogOf(s, nothing) = <<>>
    BY <1>1, <1>4 DEF LogOf
  <2>2. "None" \notin BeforeOpen /\ "None" \notin AfterOpen
    BY DEF BeforeOpen, AfterOpen
  <2> QED
    BY <1>1, <1>3, <2>1, <2>2 DEF Logged, InSequence, Truthful
<1> QED
  BY <1>7, <1>8, <1>9, <1>10, <1>11 DEF Kept, During, s, none, nothing

LEMMA InitInvariant == Init => SlotIInv /\ Contract!Init
<1> SUFFICES ASSUME Init PROVE SlotIInv /\ Contract!Init
  OBVIOUS
<1>1. /\ slot = NewSlot /\ transport = FreshTransport /\ permits = {} /\ now = 0
      /\ quantum = IdleQuantum /\ wake = TRUE /\ committed = {} /\ delivered = <<>>
      /\ observed = <<>> /\ broken = FALSE /\ report = NoReport
  BY DEF Init
<1>2. /\ slot.transportState = "Connecting" /\ slot.closeRequest = NoRequest /\ Running(slot)
      /\ slot.outcomes = <<>> /\ slot.lifecycle = <<>>
  BY <1>1 DEF NewSlot, Running
<1>3. FreshTransport \in Transports /\ FreshTransport.over = FALSE /\ FreshTransport.present
  <2> DEFINE here == TRUE
             no == FALSE
             done == ~LocalWork
             rest == IF "Pressure" \in TransportFaults THEN BOOLEAN ELSE {no}
  <2>1. here = TRUE /\ no = FALSE /\ no \in rest /\ no \in BOOLEAN
    OBVIOUS
  <2>2. FreshTransport = [present |-> here, open |-> no, establish |-> no, work |-> no,
                          read |-> no, write |-> no, complete |-> done, over |-> no]
    <3> DEFINE quiet == [present |-> no, open |-> no, establish |-> no, work |-> no,
                         read |-> no, write |-> no, complete |-> no, over |-> no]
               lent == [quiet EXCEPT !.present = here]
    <3>1. FreshTransport = [NoTransport EXCEPT !.present = here, !.complete = done] /\ NoTransport = quiet
      BY Zenon DEF FreshTransport, NoTransport
    <3> HIDE DEF here, no, done
    <3>2. lent = [present |-> here, open |-> no, establish |-> no, work |-> no,
                  read |-> no, write |-> no, complete |-> no, over |-> no]
      OBVIOUS
    <3>3. FreshTransport = [lent EXCEPT !.complete = done]
      BY <3>1
    <3> HIDE DEF lent, quiet
    <3> QED
      BY <3>2, <3>3
  <2>3. [present : {here}, open : {no}, establish : BOOLEAN, work : {no},
         read : {no}, write : {no}, complete : {done}, over : rest] \subseteq Transports
    BY Zenon DEF Transports
  <2> HIDE DEF here, no, done, rest
  <2>4. FreshTransport \in [present : {here}, open : {no}, establish : BOOLEAN, work : {no},
                            read : {no}, write : {no}, complete : {done}, over : rest]
    BY <2>1, <2>2
  <2>5. FreshTransport.over = no /\ FreshTransport.present = here
    BY <2>2
  <2> QED
    BY <2>1, <2>3, <2>4, <2>5
<1>4. quantum.pc = "Idle" /\ quantum \in [pc : {"Idle", "Deadlines", "Io", "Shutdown"}, work : 0..IoOperations]
  BY <1>1, SlotAssumption DEF IdleQuantum
<1>5. Outside
  <2>1. 0 \in Moments
    BY ClockAssumption
  <2>2. wake \in BOOLEAN /\ broken \in BOOLEAN
    BY <1>1, Zenon
  <2>3. delivered \in Seq(Outcomes) /\ observed \in Seq(Events) /\ committed \subseteq Operations
    BY <1>1
  <2>4. transport \in Transports \cup {NoTransport} /\ now \in Moments
    BY <1>1, <1>3, <2>1
  <2> QED
    BY <1>4, <2>2, <2>3, <2>4 DEF Outside
<1>6. Kept(slot, permits, committed, delivered, observed)
  BY <1>1, NewSlotKept
<1>7. ~report.recovered
  BY <1>1 DEF NoReport
<1>8. Driven
  BY <1>4 DEF Driven
<1>9. SlotIInv
  BY <1>1, <1>2, <1>3, <1>5, <1>6, <1>7, <1>8 DEF SlotIInv
<1>10. Contract!Init
  <2> DEFINE x == slot.outcomes # <<>> \/ slot.lifecycle # <<>>
  <2>1. x = FALSE
    BY <1>2
  <2>2. Abstract(slot) = [owner |-> "Running", state |-> "Connecting", close |-> "None",
                          publications |-> x]
    BY <1>2 DEF Abstract
  <2> HIDE DEF x
  <2>3. Abstract(slot) = [owner |-> "Running", state |-> "Connecting", close |-> "None",
                          publications |-> FALSE]
    BY <2>1, <2>2, Zenon
  <2> QED
    BY <2>3, Zenon DEF Contract!Init, Contract!NewContract
<1> QED
  BY <1>9, <1>10

LEMMA NextLawful == SlotIInv /\ [Next]_vars => Lawful
<1> SUFFICES ASSUME SlotIInv, [Next]_vars PROVE Lawful
  OBVIOUS
<1>1. CASE UNCHANGED vars
  <2>1. /\ slot' = slot /\ transport' = transport /\ permits' = permits /\ now' = now
        /\ quantum' = quantum /\ wake' = wake /\ committed' = committed /\ delivered' = delivered
        /\ observed' = observed /\ broken' = broken /\ report' = report
    BY <1>1 DEF vars
  <2>2. SlotInv => SlotInv'
    <3>1. TypeOK => TypeOK'
      BY <2>1 DEF TypeOK
    <3>2. OneFatePerCommit => OneFatePerCommit'
      <4>1. \A operation : Fates(operation)' = Fates(operation)
        BY <2>1, Zenon DEF Fates, ObservedPositions
      <4> QED
        BY <2>1, <4>1 DEF OneFatePerCommit
    <3>3. OutcomeRoomKept => OutcomeRoomKept'
      BY <2>1 DEF OutcomeRoomKept, ObservedPositions
    <3>4. /\ TimersMatchRecords => TimersMatchRecords'
          /\ DecoderNeverStalls => DecoderNeverStalls'
      BY <2>1 DEF TimersMatchRecords, DecoderNeverStalls
    <3>5. CloseReasonTruthful => CloseReasonTruthful'
      BY <2>1 DEF CloseReasonTruthful, AllEvents
    <3>6. SettledOwnsNothing => SettledOwnsNothing'
      BY <2>1 DEF SettledOwnsNothing
    <3> QED
      BY <3>1, <3>2, <3>3, <3>4, <3>5, <3>6 DEF SlotInv
  <2>3. EventsGapless => EventsGapless'
    BY <2>1 DEF EventsGapless, AllEvents
  <2>4. SlotIInv'
    BY <2>1, <2>2, <2>3 DEF SlotIInv, Outside, Driven
  <2> QED
    BY <2>1, <2>4 DEF Lawful, Abstract
<1>2. CASE QuantumStep
  <2>1. \A n \in 1..IoChunk : n \in Nat
    OBVIOUS
  <2> QED
    BY <1>2, <2>1, DeadlinesLawful, EstablishmentLawful, IoDoneLawful, TransportWorkLawful,
       DecodeLawful, ReadsLawful, WritesLawful, ShutdownLawful DEF QuantumStep
<1>3. CASE Application
  BY <1>3, ReserveLawful, DropPermitLawful, CommitLawful, ControlsLawful, DrainsLawful DEF Application
<1>4. CASE Host
  BY <1>4, HostLawful, SettleLawful, RecoverLawful DEF Host
<1> QED
  BY <1>1, <1>2, <1>3, <1>4 DEF Next

LEMMA SlotInvariant == Spec => []SlotIInv
<1>1. Init => SlotIInv
  BY InitInvariant
<1>2. SlotIInv /\ [Next]_vars => SlotIInv'
  BY NextLawful DEF Lawful
<1> QED
  BY <1>1, <1>2, PTL DEF Spec

\* What is true of the slot between any two steps: its types, one fate for every
\* operation, room for every outcome still to come, one timer for every record,
\* a decoder that can always go on, a truthful close reason, and nothing owned
\* once the transport is released.
THEOREM SlotKeepsItsPromises == Spec => []SlotInv
<1>1. SlotIInv => SlotInv
  BY KeptInv DEF SlotIInv
<1> QED
  BY <1>1, SlotInvariant, PTL

\* A slot fails only when the transport broke its contract or the application
\* left the lifecycle batch undrained: nothing the slot does by itself overflows
\* the outcome batch or the deadline index or loses the drain deadline.
THEOREM SlotFailsOnlyWhenBroken == Spec => []FailsOnlyWhenBroken
<1>1. SlotIInv => FailsOnlyWhenBroken
  BY DEF SlotIInv, FailsOnlyWhenBroken
<1> QED
  BY <1>1, SlotInvariant, PTL

\* An operation that commit returned is in flight, in one outcome or in the
\* recovery report, and in one of them only.
THEOREM SlotGivesOneFate == Spec => []OneFatePerCommit
<1>1. SlotInv => OneFatePerCommit
  BY DEF SlotInv
<1> QED
  BY <1>1, SlotKeepsItsPromises, PTL

\* The application is told every lifecycle edge once, in order and without a
\* gap, with the reason the epoch was closed for, recovery included.
THEOREM SlotTellsEveryEvent == Spec => []EventsGapless
<1>1. SlotIInv => EventsGapless
  BY KeptEvents DEF SlotIInv
<1> QED
  BY <1>1, SlotInvariant, PTL

\* Every step of the slot is one the owner of a slot relies on: ConnectionSlot
\* implements SlotContractSpec.
THEOREM SlotImplementsContract == Spec => KeepsContract
<1>1. Init => Contract!Init
  BY InitInvariant
<1>2. SlotIInv /\ [Next]_vars => [Contract!Next]_(Abstract(slot))
  BY NextLawful DEF Lawful
<1> QED
  BY <1>1, <1>2, SlotInvariant, PTL DEF Spec, KeepsContract, Contract!Spec
=============================================================================
