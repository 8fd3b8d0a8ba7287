# Bornera: a TLA+ verification project

Bornera drives multiplexed request/reply connections without blocking. An
application reserves resources, commits a complete frame, and is later told one
outcome for the operation. Bornera itself knows no protocol: it owns ordering,
bounded resources, absolute deadlines, cancellation, drains, epoch closure and
the certainty with which it can say whether a request may have reached the peer.

This project models the deterministic core (`crates/bornera-core`), the slot, set
and standalone drivers and the TCP adapter (`crates/bornera`) and the TLS adapter
and sessions (`crates/bornera-rustls`). TLC checks the models on small instances;
TLAPS proves the safety of the core, the slot, the set, the standalone driver, both
adapters and the sessions, and that core, slot and adapters implement their abstract
specifications, for every value of the constants.

## The system

| Component | State | Operations | Hard behaviour |
|---|---|---|---|
| `ReservationLedger` (core) | counters of operations, permits, retained bytes, write frames and bytes; active match keys; poison | reserve, commit, rollback, release | several releases in any order, no underflow, key recycling |
| `ActiveKeySet` (core) | open-addressing table | insert, remove, find | removal under collisions |
| `ConnectionMachine` (core) | phase, gate, close reason, FIFO of operation records | inputs and write reports | cancel, deadline, reply, drain and close in any order |
| `WriteQueue` (core) | FIFO of frames with progress, retained budget | admit, advance, discard | partial frames, over-reports |
| `ConnectionCore` (core) | machine, writer, recovery journal, poison latch | `reserve`, `commit`, `apply`, `apply_reply`, `advance_write`, `front_write`, `recover` | calls failing half way, recovery |
| `FrameDriver` (core) | decoder, retained limit | feed, next_frame | a decoder that is full, fails or misreports |
| `ConnectionSlot` | core, decoder, timers, outcome and event batches, close directive, preference of the rotation | drive quantum, control calls, settle, recover | deadlines due together, bounded batches, one budget for reading, decoding, writing and the transport's own work, graceful shutdown, failure in the middle of a call |
| `ConnectionSet` | generation-fenced entries, selector, ready queue, mailbox | connect, poll, turn, settle, retire, recover, drop | stale tokens, failing selector, half-done settlement, sleeping over work |
| ports and commands | two lanes of a mailbox | open, cancel, drain, close from other threads | late commands |
| `StandaloneConnection` | a set of one and its token | turn, poll, control calls, recover | stop decision, consuming recovery |
| TCP transport | phase, readiness, socket policy | establish, read, write, shutdown | edge-triggered readiness, a kernel that moves between two questions |
| TLS transport | phase, readiness, direction, EOF, shutdown, pending error, the rustls connection | establish, drive TLS, read, write, shutdown | truncation, output above its bound, starvation of one direction |
| TLS sessions | counters, closure, first failure, the rustls connection | ingest, drain, read, write, close_notify, finish_input | deferral of truncation, stale counters, alerts after a failure |
| `bornera-sim` | traces | replay | test harness |

Interaction: the slot calls `ConnectionCore` for every application call, timer,
byte count and reply, and executes the effects it returns (schedule or cancel a
deadline, publish an outcome, close the transport). Permits share the ledger with
the core, so dropping one changes the core's accounting at any time. The set owns
slots and their transports, polls readiness, turns mailbox commands into slot
calls, drives slots in bounded quanta and settles closed ones. A transport answers
the six questions of `transport/port.rs` and is called only when it said there is
work.

What makes each part correct:

* **Ledger**: counters equal what outstanding permits and records hold; active
  keys are distinct; a free key is found whenever there is one.
* **Machine and core**: every accepted operation has exactly one end; delivery
  certainty is true; frames go out whole and in order; a late reply never reaches
  another operation; drains end; the owner never poisons itself.
* **Recovery**: every operation that was owed an outcome comes back once, in wire
  order, with its frame, also after a call that failed half way.
* **Slot**: batches and timers never overflow or leak; each committed operation
  has one fate whatever fails; a quantum never leaves work unannounced; closes and
  drains settle although nobody helps; writes are not starved.
* **Set**: a stale token or late command never reaches a new generation; the ready
  queue and the registrations are exact whatever fails; the host never sleeps over
  work; nobody is overtaken.
* **Transports**: no edge is lost; open, end and shutdown are told truthfully; no
  direction starves the other; both are transports the slot was checked against.
* **Sessions**: what one side accepted is what the other reads; ends and counters
  are truthful; pumping owners get through.

## Modules

Names under "Models" are relative to `crates/*/src`.

| Module | Models | Remarks |
|---|---|---|
| `ReservationLedger` | `admission/ledger.rs`, `gate.rs`, `limits.rs` | a ledger is a value, each method an operator |
| `ConnectionMachine` | `connection/machine.rs`, `drive.rs`, `cancellation.rs`, `deadline.rs`, `response.rs`, `close.rs`, `lifecycle.rs`, `matching/` | each handler maps machine and input to machine and effects |
| `ConnectionCore` | `connection/core.rs`, `progress.rs`, `integrity.rs`, `journal.rs`, `recovery.rs`, `write/` | the state machine: one action per public call |
| `CoreProperties` | | properties of the core |
| `OperationLifecycle` | | abstract specification: what an epoch promises the application |
| `CorePeer` | | `ConnectionCore` composed with a peer that answers in order and two ordered streams (external) |
| `KeySet`, `KeySetSpec` | `admission/key_set.rs` | the table, and the set it implements |
| `FrameDriver` | `framing/driver.rs` | a driver is a value, a call a set of results |
| `ConnectionSlot` | `slot.rs`, `admission.rs`, `control.rs`, `transition.rs`, `lifecycle.rs`, `slot_close.rs`, `state.rs`, `failure.rs`, `recovery.rs`, `drive/` | the slot is a value; a quantum is several steps, so that the application and other threads see every point at which the code returns to its caller |
| `SlotProperties` | | properties of the slot |
| `SlotContract`, `SlotContractSpec` | | what the owner of a slot relies on, and the specification the slot implements |
| `ConnectionSet` | `set.rs`, `set_access.rs`, `set_connect.rs`, `set_drive.rs`, `set_drive/`, `set_settle.rs`, `set_failure.rs`, `set_recovery.rs`, `port.rs`, `command.rs`, `token.rs` | built from the abstract slots of `SlotContract` |
| `SetProperties` | | properties of the set |
| `StandaloneConnection` | `standalone.rs`, `standalone/`, `recovery.rs` | extends the set with the wrapper and its properties |
| `TcpSocket` | | external: a nonblocking socket and its edge-triggered registration |
| `TransportContract` | `transport/port.rs` | abstract specification: what a slot may assume of a transport |
| `TcpTransport` | `transport/tcp.rs`, `tcp_port.rs`, `socket.rs` | with its properties |
| `RustlsEngine` | | external: a rustls connection, as both adapters drive it; a `close_notify` before the handshake is over does not end the input |
| `RustlsTransport`, `TlsProperties` | `transport.rs`, `establish.rs`, `tls_io.rs`, `application.rs`, `port.rs` of bornera-rustls | the TLS adapter on `TcpSocket` and `RustlsEngine` |
| `RustlsSession` | `client_session.rs`, `client_io.rs`, `server_session.rs`, `server_io.rs` | every call as the session it leaves |
| `SessionPair`, `SessionProperties` | | a client and a server session and the two streams between them |
| `MC*` | | small instances |
| `Totals` | | sums over sets of reservations, for properties and proofs |
| `MachineProofs` | | lemmas the core and the slot share: loops as recursive functions, the ledger, keys, every handler of the machine |
| `ConnectionCoreProofs` | | theorems: types, drain, accounting and timers of the aggregate; the match of policy and writer, ends, delivery, recovery, the refinement of `OperationLifecycle`, and core and peer together |
| `SlotProofs` | | theorems: the slot and its contract |
| `TcpProofs` | | theorems: the TCP transport and its contract |
| `EngineProofs`, `TlsProofs` | | lemmas about a rustls connection; theorems: the TLS adapter and its contract |
| `SessionProofs` | | theorem: two sessions and the streams between them |
| `SetProofs` | | theorems: the set and the standalone wrapper |

The composition is layered, and each layer is checked against the contract of the
one below instead of a product of everything:

    StandaloneConnection
      ConnectionSet          is built from SlotContract
        ConnectionSlot       implements SlotContractSpec, uses a transport
                             that keeps TransportContract
          ConnectionMachine  whose aggregate ConnectionCore implements
                             OperationLifecycle
          FrameDriver
      TcpTransport, RustlsTransport  implement TransportContract

The slot uses `ConnectionMachine` directly and not `ConnectionCore`: `OwnershipHolds`
says that on a healthy owner the writer holds exactly the frames of the records
that hold one, in their order, so the writer is those records, their wire lengths
and the progress of the front frame.

How the state corresponds to the code:

* `ConnectionCore`: `machine` is `ConnectionMachine` with its ledger
  (`Rc<RefCell<..>>` shared with permits), `permits` the live `OperationPermit`s,
  `writes` and `writeBudget` the `WriteQueue`, `journal` the `RecoveryJournal`,
  `poisoned` the latch. The other variables record what the outside has seen.
* `ConnectionSlot`: `slot` is the struct with its machine, decoder, timers,
  batches and close request; `transport` the answers its transport would give;
  `quantum` the point the driving loop has reached; `permits`, `now` and the rest
  are the outside.
* `ConnectionSet`: `set` is the struct with its table, ready queue, mailbox lanes
  and selector registrations; `turn` the phase of the turn in progress; `woken`
  whether the host has a reason not to sleep; `issued` the tokens handed out. What
  a slot and its transport hide from the set are three flags of its entry
  (runnable, due, synced).
* adapters and sessions: `tcp`, `link`, `tls`, `client` and `server` are the
  structs; `socket`, `armed`, `interest` and `peer` the outside.

Abstractions:

* A frame is its wire length and retained bytes; all the core looks at is lengths.
  A TLS record is its kind, a handshake flight one record.
* A machine belongs to one epoch for ever. An input or report for another epoch is
  refused without a change, so it is a stuttering step, as is every refused call.
* `u64` identities end at `MaxIdentity`; an exhausted counter refuses further
  reservations, as `Option::None` does in the code. Byte counts are naturals: an
  overflowing `checked_add` is a refusal in the code exactly like a sum above the
  limit.
* The core has no clock: calls carry their `now`, in any order, from a small set.
  The slot's clock moves forward up to `Horizon`.
* In `ConnectionCore` timers and publication are what the slot does with the
  effects: a delivered timer leaves the index before the core sees it; scheduling
  replaces. `ConnectionSlot` models them in full.
* The keys of the ledger are a set. `KeySet` justifies that; its hash is an
  arbitrary function, which covers every collision pattern of the code's hash.
* `Faults` are the ownership losses `fault_test.rs` injects: one frame removed
  behind the core's back, or one of no operation added, so that the failing halves
  of `reconcile` and `advance_write` are reachable.
* `Misbehaviours`, `TransportFaults`, `DecoderFaults`, `SetFaults` and
  `WireFaults` are broken contracts of frames, transports and decoders, failures of
  the selector, connector and memory charge, and damage to a stream. They are
  exactly those for which the code has a branch.
* `Builds` says which builds are covered. Debug builds audit ownership on every
  call but write progress; with both builds in the set a diverged owner may or may
  not be fenced at each call, which covers either build.
* Memory pressure is whether a report fits its charge; its arithmetic is left out.
* The order in which the mailbox yields its two lanes is the mailbox's own
  (external), hence a choice.

A definition headed `Slip:` is a plausible mistake in the definition after it. The
specifications never use it; for each property one slip is known to break it.

## What the runs check

| Run | Instance | Properties |
|---|---|---|
| `core` | 3 operations at once, 4 identities, 3 keys, 2 write frames, frames of 0, 1 and 2 bytes, session and regular work with and without replies, both misbehaviours, release build | `TypeOK`, `OnlyContractPoison`, `OwnershipHolds`, `AccountingExact`, `DeliveryExact`, `DeadlinesCovered`, `DrainNeverIdles`, `TornFrameStaysInFront` |
| `core_fault` | session work, 3 write frames, lost and stray frames, over-reports, both builds | `ExactlyOneFate`, `RecoveryExact` |
| `peer` | 3 operations on 2 keys, frames of 2 bytes taken whole or torn, a peer that answers in order | `ReplyReachesItsOperation`, `KeepsLifecycle`, `TombstonesCollected`, `EveryOperationEnds` |
| `keyset` | 3 keys in 8 slots, all hash functions | `ImplementsSet` |
| `slot` | 2 identities on 1 operation slot, 3 moments, frames of 0 and 1 byte, matching and malformed replies, failing and misreporting decoders | `SlotInv`, `FailsOnlyWhenBroken`, `NoLostWakeup`, `ExpiredBeforeClose` |
| `slot_faults` | a transport with work of its own and every transport fault, room for one lifecycle event | `OneFatePerCommit`, `EventsGapless`, `KeepsContract` |
| `slot_live` | 3 moments, a transport that may always have work of its own | `CloseSettles`, `WritesServed` |
| `set` | 2 connections in 2 table slots of 2 generations, one command and one connection per turn, selector and connector failing | `ReadyExact`, `RegistrationExact`, `FailureFencesAll`, `SleepsSafely`, `CommandsFenced`, `NoOvertaking` |
| `standalone` | one connection, both lanes, all flags, selector and charge failing | `StandaloneInv`, `StandaloneStops` |
| `tcp` | 2 units of input and room, 2 writes, with and without keepalive | `TcpInv`, `KeepsTransportContract`, `TcpProgress` |
| `tls` | both protocol versions, every kind of record, 1 record in each buffer and an output bound of 1 with a writer of 2 | `TlsInv`, `KeepsTransportContract`, `TlsProgress` |
| `session` | both versions, 2 records one way and 1 the other, 2 in transit and per ingest, cuts and corruption | `SessionInv`, `SessionProgress` |

What the properties say:

* **Core.** The owner poisons itself only for a broken contract
  (`OnlyContractPoison`); policy and writer agree and the writer never refuses what
  the ledger granted (`OwnershipHolds`); the ledger equals the sum of what is held,
  and a closed epoch holds nothing (`AccountingExact`); `NotSent` if and only if no
  byte was taken, and completion only after the whole frame (`DeliveryExact`); one
  timer per held slot with its original deadline (`DeadlinesCovered`); a torn frame
  stays in front while the epoch lives. After faults an operation is exactly one
  of owed, published once, recovered once (`ExactlyOneFate`), and recovery returns
  operations in wire order with their frames and reports those nobody claims
  (`RecoveryExact`).
* **Core and peer.** A reply ends the operation it answers and no other, and a
  correct peer is never blamed; the aggregate implements `OperationLifecycle`; on a
  live connection tombstones are collected without timers, and with timers alone
  every operation and every drain ends.
* **Slot.** `SlotInv`: one timer per record, room for every outcome still to come,
  a decoder that never stalls, a truthful close reason, nothing left after
  settlement. `FailsOnlyWhenBroken`: no legal sequence of calls makes the slot
  fail, in particular not with `MissingShutdownDeadline`. `NoLostWakeup`: a quantum
  that says the host may sleep leaves no work. `ExpiredBeforeClose`: an operation
  whose deadline has passed is told so and not that its connection closed.
  `OneFatePerCommit` and `EventsGapless`: whatever fails, outcomes, recovery and
  numbered events neither lose nor double anything.
* **Set and standalone.** Stated for two connections that share the ready queue
  or follow each other in one table slot. `StandaloneInv` repeats the invariants of the
  set with both command lanes and all three flags, and adds that recovery always
  finds the connection, reports a registration left behind, and that stop means
  released.
* **Transports.** `TcpInv` and `TlsInv` conjoin the invariants named in the
  modules (no lost edge, open only when earned, truthful ends, shutdown only when
  sent); `TcpProgress` and `TlsProgress` their liveness; both adapters implement
  `TransportContract`.
* **Sessions.** `SessionInv`: a clean end is told only to an owner that has read
  everything the other owner had accepted; truncation waits for plaintext and never
  hides a close; open means the last flight left; counters equal those of rustls.

Why the bounds are enough: the FIFO logic distinguishes the front, an interior
record and the back, hence three records in flight in the core; a frame of two
bytes is the shortest that can be torn, an empty one completes without crossing the
write boundary; a key is recycled as soon as there are more identities than keys;
two moments tell an early timer from a due one, three let deadlines be due
together or apart. The slot's own logic does not compare operations with each other
(that is the machine's, checked in `core`), so one operation at a time, reused,
reaches its queues' limits and leaves one slot for a publication not yet drained. A
quantum of one operation is the hardest case for the rotation. Overtaking and shared
budgets need two connections and a turn that drives one; reuse of a table slot needs
two generations. For transports one unit of input and room makes every call block,
succeed or fill a buffer; the output bound of TLS is below what its writer takes,
so that it can be exceeded. Sessions need two records one way for a close or a cut
behind unread data. Every limit of the ledger is reached in `core`, the key space in
`peer`.

Deadlock is checked in the `core`, `core_fault`, `peer`, `keyset` and `slot_live` runs. The other systems
stop: a dropped set, a consumed connection, a settled slot, a finished transport.

Fairness:

* `TimerFairness` (in `EveryOperationEnds`): the timer of a pending operation, once
  due, is delivered while it stays due and the owner is healthy. The slot's quantum
  begins with `drive_deadlines` and `next_deadline` bounds the wait. Neither
  transport nor peer is assumed to move.
* `PeerFairness` (in `TombstonesCollected`): write progress, the peer's answers and
  reading go on. Both are hypotheses of the property, written out without `ENABLED`
  because TLC is slow on so large an action.
* `slot_live`: a quantum ends (it has a budget), a host that was told to drive or
  whose deadline passed drives (`WF`), and a settlement that is possible again and
  again happens (`SF`: the set settles after every quantum and call). Time passes
  only in the hypothesis of `CloseSettles`. The transport is not assumed to do
  anything.
* `standalone`: a turn runs to its end and a host begins one when it was woken or a
  deadline passed.
* `tcp`, `tls`: the set polls, registers the desired interest and drives a
  transport that answered that it has work (`WF`); the peer's kernel acknowledges.
  For TLS the server goes on with the handshake (`SF`: it may send other records in
  between).
* `session`: both owners pump.

### Observations

Where the code and its comments disagree, or where it is worth knowing what the
code does:

* `ConnectionEffect::DiscardWrite` is documented as removing "a frame that never
  entered transport write ownership" (`connection/effect.rs:53`); closing an epoch
  emits it for a half-written frame too (`connection/close.rs:40`).
* `OperationFailure::MatchKeyMismatch` is documented as a reply that "named another
  live operation" (`operation/outcome.rs:27`); any other key has this effect, also
  one nobody holds (`connection/response.rs:40`).
* `framing/port.rs:8` says "Callers drain `next_frame` after each accepted input
  before admitting more bytes"; the slot's rotation (`drive/slot.rs:146`) may read
  again in between. The retained bound still holds (`SlotInv`).
* A charge exceeded while the interest is registered (`set_settle.rs:123`) fails the
  slot without queueing it again; its release waits for the next turn that finds it
  a candidate, which needs some other wakeup. `SleepsSafely` is therefore about
  running connections.
* The close lane of the mailbox competes with the regular lane for the commands of
  a turn; that a close lands under a flood of cancellations depends on the mailbox.
* A server that never stops updating keys can keep the TLS output at its bound with
  the answers, so `WritesFlow` assumes it stops.
* The TLS adapter's deferral of truncation until plaintext drains is not reachable,
  because rustls wants no input while plaintext is buffered; the sessions do reach
  theirs.

## What is proved

All theorems hold for every value of the constants under the named assumptions of
the modules (limits positive or natural, a non-empty key range, seeds within the
identity range, options and frames of their types).

* `MachineProofs!AllocationComplete`: while the key space has a free key, the bounded
  search of `allocate_key` (one candidate more than there are active keys) succeeds and
  returns an inactive key of the space. The argument is a
  pigeonhole: the candidates of distinct attempts are distinct until the space
  wraps, so they cannot all be active.
* `ConnectionCoreProofs!TypeCorrect`: `Spec => []TypeOK`. Its lemmas
  show that each handler returns a well-typed transition and each ledger method a
  well-typed ledger, the release loop of closure and recovery
  included; so no counter can be negative.
* `ConnectionCoreProofs!DrainClosesItself`: `Spec => []DrainNeverIdles`. The
  invariant `TypedDrain` (types and the property) is inductive: each handler keeps
  "a live draining machine has a pending operation", because each one that removes
  a record ends in `FinishDrain`, and every other one keeps the records or leaves
  the live phase. `Settle` passes this on whether or not reconciling succeeds;
  recovery empties the machine but leaves the owner poisoned.

* `ConnectionCoreProofs!AccountingIsExact` (`Spec => []AccountingExact`) and
  `DeadlinesAreCovered` (`Spec => []DeadlinesCovered`), whatever misbehaviours and
  faults are included. The inductive invariant is
  `Accounted == TypedDrain /\ Books /\ TimersKept`. `Books` says that every byte
  count and frame count of the ledger is the sum over the reservations of permits
  and records, that operations and keys are distinct and that identities still to
  be handed out are above all that were; without the last two a sum over a set of
  reservations would not change by what the ledger subtracts. The core of the
  argument is a lemma about the release loop (closure and recovery release record
  by record): after k records the ledger is the sum over the rest.
* `ConnectionCoreProofs!NeverDivergesByItself` (`Spec => []OnlyContractPoison`) and
  `OwnershipNeverDiverges` (`Spec => []OwnershipHolds`). The inductive invariant
  `Owned` adds to `Accounted` that, without injected faults, the records that hold a
  frame and the frames match position by position in identity, bytes and phase
  (`FramesMatch`), and that effects are distinct. That the release build skips
  `verify_ownership` is therefore harmless: each reconcile finds the frame of every
  record it discards, each write report finds its record in the phase it needs, and
  the bounded writer has room for each frame whose permit was granted.
* `TcpProofs!TcpMissesNothing` (`Spec => []TcpInv`) from the inductive `TcpIInv`,
  which says in each transport state what registration, queued events and
  remembered readiness must be, and `TcpImplementsContract`: the initial state maps
  to an initial state of `TransportContract`, and each action to one of its steps
  or a stutter.
* `ConnectionCoreProofs`: without injected faults (`Faults = {}`; misbehaving frames and
  transports included), `EveryOperationEndsOnce` (`ExactlyOneFate`),
  `DeliveryIsTruthful` (`DeliveryExact`), `RecoveryReturnsAll` (`RecoveryExact`) and
  `TornFrameIsFinished` (`Spec => TornFrameStaysInFront`). The inductive invariant
  `Fated` adds `Fate` to `Owned`. Its parts and why they are needed:
  `Fresh` and `Committed` (identities handed out are below the counter, every
  pending record was accepted) make a commit's identity new, so that counts of ends
  start at zero; `Counted` says ends published, recovered and still owed add up to
  one per accepted operation; `Known` and `Written` say that on a healthy owner
  each record's delivery and each frame's progress are what the transport took, so
  an outcome copied from a record is true; `Passed` says that an accepted
  operation the policy no longer holds is out whole or was withdrawn unsent; `Recoverable` keeps what recovery needs
  from a poisoned owner, whose policy may lag behind its writer, and `InWireOrder`
  the order of what it returns. That the journal is empty between calls is part of
  it: without faults no call fails after it began to drain the policy.
  A handler publishes an outcome exactly when a record stops being observed; one
  lemma per handler about what it tells serves all five theorems.
* `ConnectionCoreProofs!CoreImplementsLifecycle` (`Spec => KeepsLifecycle`, `Faults = {}`). The
  mapped state is a function of what was accepted, what is still owed and how many
  bytes were taken (`Shown`). A write report becomes a `Transmit` of the abstract
  wire's front; for this `HasWire` says that the frame at the writer's front is the
  first accepted one that is neither out whole nor over. A close or recovery that
  ends several operations is one abstract step.
* `ConnectionCoreProofs!RepliesReachTheirOperations` (`PeerSpec => []ReplyReachesItsOperation`,
  `Faults = {}`) and `PeerImplementsCore` (`PeerSpec => Spec /\ KeepsLifecycle`). The
  inductive `PeerInv` adds `Streams` to `Fated`: the waiting records are the first
  ones of the FIFO and one each for the replies and requests in flight, and each
  was sent from. The last part is needed because a cancelled record is
  removed when nothing of it was sent, which must never happen to one whose reply
  is under way; that the waiting records come first is `FramesMatch`. Hence the frame
  that is completed next is of the record right behind those in flight, and the
  reply delivered next is of the first record. `PeerAssumption` says that a reply may
  carry any operation's identity, so a delivery is a step of the core.

* `SlotProofs`: `SlotKeepsItsPromises` (`Spec => []SlotInv`), `SlotFailsOnlyWhenBroken`
  (`FailsOnlyWhenBroken`), `SlotGivesOneFate` (`OneFatePerCommit`), `SlotTellsEveryEvent`
  (`EventsGapless`) and `SlotImplementsContract` (`Spec => KeepsContract`), for every
  limit, budget, workload and misbehaving transport or decoder. The parts of the
  inductive `SlotIInv` speak of the slot as a value and of the permits, commits,
  delivered outcomes and observed events outside it, so that each method is one lemma
  about values, also where a quantum calls several in a row. `Owned`
  makes records, writer, timers and ledger agree and keeps `Roomy`: outcomes waiting,
  records to conclude and permits outstanding together fit the outcome batch. That is
  why publishing never overflows, however many operations one close ends. `Fated` says
  that the committed operations are those told and those in flight, and no operation
  is both. `Placed` and `Staged` align the states of transport, epoch, close request and
  drain deadline, in the middle of a call and between calls: the slot's latch of
  the first close request is sound only because of them. `Reading` says the decoder
  can go on and nothing moves before the transport opened; `Logged` is the prefix of
  the event sequence already told, wherever its events are; `Driven` says what each
  stage of a quantum may rely on after the application ran in between. For each
  action one lemma shows a `Lawful` step: the invariant again, and a step of the
  contract or a stutter. After recovery nothing but the report is left, and the
  invariant is what the properties say of it.
* `TlsProofs!TlsKeepsItsPromises` (`Spec => []TlsInv`) and `TlsImplementsContract`
  (`Spec => KeepsTransportContract`). The inductive `TlsIInv` says of every part what
  the others may rely on. `EngineSound` places the handshake: which flights each end
  has answered, and that at most one is on its way in each direction, so that an open
  adapter has sent and received the last one; and it places the end: a
  `close_notify` is the last record of the input and counts only after the handshake, and the adapter's own is on its way
  out until the server has it. `LinkSound` says that what the adapter remembers is
  what rustls says until it fails, `PhaseSound` what nobody can have done before each
  phase of the establishment, `EdgeSound` that every readiness the registered interest
  covers was observed or is still to be delivered, also between the two questions of
  `complete_connect` (`CallSound`), and `EndSound` what a reported end rests on. None
  of these is inductive alone: that no edge is missed needs the phase, the phase
  needs the place of the handshake. `EngineProofs` shows that processing a batch of
  records is processing one after the other.
* `SessionProofs!SessionsKeepTheirPromises` (`Spec => []SessionInv`). The inductive
  `SessionIInv` has a part about one session whatever its peer does (`SessionSound`)
  and a part about each direction (`Flow`). The latter says that records read, held as
  plaintext, in transit and in the sender's output never exceed what was accepted,
  and, as long as the receiver takes input (`Exact`): before every `close_notify` still
  on its way that no corrupted record precedes, exactly the missing records are on
  their way; the same holds of the whole path if it was neither cut nor corrupted.
  The second part is needed for a `close_notify` that is not sent yet. The streams
  are followed as one sequence, transit and then output, so that draining does not
  change it, a cut keeps a prefix and ingesting removes a prefix; each method and
  each fault of the streams is one lemma about this sequence, used for both sides.
* `SetProofs`, for every table size, budget, mailbox and failure of the selector:
  `SetTypeCorrect`, `SetKeepsReadyExact`, `SetKeepsRegistrationExact`,
  `SetFencesFailures`, `SetSleepsSafely`, and the action properties `SetFencesCommands`
  and `SetLetsNoneOvertake`. They rest on the inductive `SetIInv`: `SlotSound` and
  `EntrySound` say of one entry which abstract slot, registration and flags go
  together, `QueueSound` that the ready queue is the queued entries without
  repetition, `FenceSound` what a failed set may still own, and `TurnSound` what each
  phase of a turn has already done. The last part is what `SleepsSafely` needs: the
  decision to sleep is taken from what earlier phases saw, so the invariant carries
  from phase to phase that every working entry with something to do was queued
  (`AllQueued`) and every command seen (`CommandsSeen`). The loops over the queue are recursive functions,
  unfolded by the lemmas at the head of the module.
* `SetProofs!StandaloneKeepsItsPromises` (`StandaloneSpec => []StandaloneInv`) adds to
  `SetIInv` that, until it is recovered, the wrapper's token names the only entry of
  the table and the registrations follow its transport, also once the selector
  failed (`SoleKept`).

Only model-checked: liveness (outside the prover's reach); the refinement of
`KeySetSpec`; of the core `ExactlyOneFate` and `RecoveryExact` after an injected fault
(`core_fault`), where a theorem would need what each fault leaves of the match between
policy and writer; and of the slot the action properties `ExpiredBeforeClose` and
`NoLostWakeup`.

## Not modelled, and the plan

Not modelled: the simulator (a harness that drives the components above),
configuration, error and snapshot values (no state changes), the blocking waiter of
the host (`waiter.rs`; that it returns is the fairness above), record processing
inside rustls, the operating system's selector, and the byte arithmetic of pressure
reports and budgets.

Left to do: `ExpiredBeforeClose` and `NoLostWakeup` of the slot and the refinement of
`KeySetSpec` as theorems, and the core's fates after injected faults.
