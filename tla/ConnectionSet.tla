---------------------------- MODULE ConnectionSet ----------------------------
(***************************************************************************)
(* Many connection epochs behind one selector (bornera, set.rs,            *)
(* set_access.rs, set_connect.rs, set_settle.rs, set_drive.rs,             *)
(* set_drive/ready.rs, set_failure.rs, set_recovery.rs, port.rs,           *)
(* command.rs, token.rs).                                                  *)
(*                                                                         *)
(* Every slot is the abstract slot of SlotContract, which ConnectionSlot   *)
(* implements.  What a slot and its transport hide from their owner is     *)
(* three flags of the entry: whether a quantum would find work, whether    *)
(* next_deadline has passed and whether the registered interest is the     *)
(* desired one.                                                            *)
(*                                                                         *)
(* The set is one value and its private methods map a set to the sets they *)
(* may leave.  Calls of the application take the set exclusively and run   *)
(* between turns; ports send from other threads at any time.               *)
(***************************************************************************)
EXTENDS SlotContract, Sequences, FiniteSets, SequencesExt

CONSTANTS
  Indices,          \* ResourceTable slots in their order, as many as max_connections
  MaxGeneration,    \* generations a table slot may go through
  MaxConnects,      \* connections tried in the life of the set
  Identities,       \* ConnectionIdentity values given to connect
  CommandCapacity,  \* capacity of each lane of the mailbox
  CommandsPerTurn,  \* ConnectionSetLimits::commands_per_turn
  ReadyPerTurn,     \* ConnectionSetLimits::ready_connections_per_turn
  CommandKinds,     \* the commands ports send
  Flags,            \* what a slot may hide from its owner: work, deadlines, interest
  SetFaults         \* failures of the selector and of transports to include

ASSUME SetAssumption ==
  /\ IsFiniteSet(Indices)
  /\ Indices = 1..Cardinality(Indices)
  /\ MaxGeneration \in Nat \ {0}
  /\ MaxConnects \in Nat \ {0}
  /\ CommandCapacity \in Nat \ {0}
  /\ CommandsPerTurn \in Nat \ {0}
  /\ ReadyPerTurn \in Nat \ {0}
  /\ CommandKinds \subseteq {"OpenAdmission", "Cancel", "BeginDrain", "Close"}
  /\ Flags \subseteq {"runnable", "due", "synced"}
  /\ SetFaults \subseteq {"Selector", "Pressure", "Connector"}

VARIABLES
  set,     \* ConnectionSet, its selector and its mailbox
  turn,    \* the turn in progress
  woken,   \* whether the host has a reason not to sleep in the selector
  issued   \* ConnectionTokens handed out

vars == <<set, turn, woken, issued>>

Resources == [index : Indices, generation : 1..MaxGeneration]
Connections == [resource : Resources, identity : Identities]
Commands == [connection : Connections, kind : CommandKinds]

Entries ==
  [identity : Identities, slot : ContractSlots, transport : BOOLEAN, queued : BOOLEAN,
   runnable : BOOLEAN, due : BOOLEAN, synced : BOOLEAN]

NoEntry == [identity |-> "None"]

NewSet ==
  [table |-> [i \in Indices |-> [generation |-> 1, entry |-> NoEntry]],
   ready |-> <<>>, control |-> <<>>, regular |-> <<>>, morePending |-> FALSE,
   owner |-> "Running", registered |-> {}, events |-> {}, saturated |-> FALSE]

(***************************************************************************)
(* The resource table (external) and the fence of a connection token.      *)
(***************************************************************************)
Live(st, i) == st.table[i].entry # NoEntry
LiveIndices(st) == {i \in Indices : Live(st, i)}
ResourceAt(st, i) == [index |-> i, generation |-> st.table[i].generation]

Occupied(st, r) == st.table[r.index].generation = r.generation /\ Live(st, r.index)
EntryAt(st, r) == st.table[r.index].entry
Put(st, r, e) == [st EXCEPT !.table[r.index].entry = e]

\* A generation that ends is never used again.
Evict(st, r) ==
  [st EXCEPT !.table[r.index] = [generation |-> r.generation + 1, entry |-> NoEntry]]

\* Slip: the token is compared by table slot and identity only.
OwnedByIdentity(st, c) ==
  Live(st, c.resource.index) /\ EntryAt(st, c.resource).identity = c.identity

Owned(st, c) == Occupied(st, c.resource) /\ EntryAt(st, c.resource).identity = c.identity

(***************************************************************************)
(* The ready queue.                                                        *)
(***************************************************************************)

\* Slip: the newest connection goes first.
EnqueueFront(st, r) ==
  IF ~Occupied(st, r) \/ EntryAt(st, r).queued THEN st
  ELSE [st EXCEPT !.table[r.index].entry.queued = TRUE, !.ready = <<r>> \o @]

Enqueue(st, r) ==
  IF ~Occupied(st, r) \/ EntryAt(st, r).queued THEN st
  ELSE [st EXCEPT !.table[r.index].entry.queued = TRUE, !.ready = Append(@, r)]

\* Slip: nothing is taken out of the queue.
LeaveQueued(st, r) == st

\* The queue without r, as a function of how much of it was looked at.
Retained(queue, r) ==
  LET kept[n \in 0..Len(queue)] ==
        IF n = 0 THEN <<>>
        ELSE IF queue[n] = r THEN kept[n - 1] ELSE Append(kept[n - 1], queue[n])
  IN  kept[Len(queue)]

Unqueue(st, r) == [st EXCEPT !.ready = Retained(@, r)]

(***************************************************************************)
(* Failure of the selector: every connection fails and stays recoverable.  *)
(***************************************************************************)
LatchedEntry(row) ==
  IF row.entry = NoEntry THEN row
  ELSE [row EXCEPT !.entry.slot = Latched(@), !.entry.queued = FALSE]

\* Slip: only the queues of the set are closed.
LatchSelectorFailureShallow(st) ==
  IF st.owner # "Running" THEN st
  ELSE [st EXCEPT !.owner = "Failed", !.control = <<>>, !.regular = <<>>, !.ready = <<>>,
                  !.table = [i \in Indices |->
                    IF @[i].entry = NoEntry THEN @[i] ELSE [@[i] EXCEPT !.entry.queued = FALSE]]]

LatchSelectorFailure(st) ==
  IF st.owner # "Running" THEN st
  ELSE [st EXCEPT !.owner = "Failed", !.control = <<>>, !.regular = <<>>, !.ready = <<>>,
                  !.table = [i \in Indices |-> LatchedEntry(@[i])]]

(***************************************************************************)
(* Selector calls (external): register, reregister and deregister may      *)
(* fail, and any of them may push a transport over its memory charge.      *)
(***************************************************************************)
SelectorAnswers == IF "Selector" \in SetFaults THEN {"Ok", "Mio"} ELSE {"Ok"}
PressureAnswers == IF "Pressure" \in SetFaults THEN {"Ok", "Owner"} ELSE {"Ok"}

May(flag, rest) == IF flag \in Flags THEN BOOLEAN ELSE {rest}

\* What an entry may look like after its slot became s.  A deadline that is due
\* may be taken; one that a call sets in the past becomes due by DeadlinePasses.
Moved(e, s) ==
  IF s.state = "Closed" \/ ~e.transport
  THEN {[e EXCEPT !.slot = s, !.runnable = FALSE, !.synced = TRUE,
                  !.due = e.due /\ ~Works(s)]}
  ELSE {[e EXCEPT !.slot = s, !.runnable = f.runnable, !.due = f.due, !.synced = f.synced]
          : f \in [runnable : May("runnable", FALSE), due : {FALSE, e.due},
                   synced : May("synced", TRUE)]}

(***************************************************************************)
(* Settlement (set_settle.rs).  A result is [entry, error, settled].       *)
(***************************************************************************)
Settlement(e, error, settled) == [entry |-> e, error |-> error, settled |-> settled]

Observed(e) == IF e.transport THEN {e.slot} \cup Forced(e.slot) ELSE {e.slot}

\* What the slot and the flags are once the transport is gone.
Released(e, s) == [e EXCEPT !.slot = s, !.transport = FALSE, !.runnable = FALSE, !.synced = TRUE,
                            !.due = @ /\ ~Works(s)]

SettleEntry(e) ==
  UNION {IF ~Releasable(s) THEN {Settlement([e EXCEPT !.slot = s], "None", FALSE)}
         ELSE {Settlement(Released(e, closed), "None", TRUE) : closed \in AfterSettlement(s)}
              \cup (IF e.transport /\ "Selector" \in SetFaults
                    THEN {Settlement([e EXCEPT !.slot = Latched(s)], "Mio", FALSE)} ELSE {})
              \cup (IF e.transport /\ "Pressure" \in SetFaults
                    THEN {Settlement(Released(e, Latched(s)), "Owner", FALSE)} ELSE {})
         : s \in Observed(e)}

\* The registration follows the transport.
WithSettled(st, r, result) ==
  [Put(st, r, result.entry) EXCEPT
     !.registered = IF result.entry.transport THEN @ ELSE @ \ {r}]

SettleConnection(st, r) ==
  {LET after == WithSettled(st, r, result)
   IN  IF result.error = "Mio" THEN LatchSelectorFailure(after)
       ELSE IF ~result.settled THEN after
       ELSE Put(Unqueue(after, r), r, [result.entry EXCEPT !.queued = FALSE])
   : result \in SettleEntry(EntryAt(st, r))}

(***************************************************************************)
(* Calls of the application.                                               *)
(***************************************************************************)
Between == turn.pc = "Idle" /\ set.owner # "Dropped"

ControlEffect(kind, s) ==
  CASE kind = "OpenAdmission" -> IF Works(s) THEN OrFails(Published(s)) ELSE {s}
    [] kind = "Commit" -> IF Works(s) THEN OrFails({s}) ELSE {s}
    [] kind = "Close" -> AfterFinalize(s)
    [] OTHER -> AfterCall(s)

\* A direct call acts on the slot, enqueues the connection and settles at once.
\* A stale token changes nothing.
Control(c, kind) ==
  /\ Between
  /\ Owned(set, c)
  /\ LET e == EntryAt(set, c.resource)
     IN  \E s \in ControlEffect(kind, e.slot) : \E moved \in Moved(e, s) :
           set' \in SettleConnection(Enqueue(Put(set, c.resource, moved), c.resource), c.resource)
  /\ woken' = TRUE
  /\ UNCHANGED <<turn, issued>>

DrainPublications(c) ==
  /\ Between
  /\ Owned(set, c)
  /\ EntryAt(set, c.resource).slot.publications
  /\ set' = Put(set, c.resource, [EntryAt(set, c.resource) EXCEPT !.slot = Drained(@)])
  /\ UNCHANGED <<turn, woken, issued>>

\* Only a clean, closed and fully drained generation is given up.
Retire(c) ==
  /\ Between
  /\ Owned(set, c)
  /\ LET e == EntryAt(set, c.resource)
     IN  Works(e.slot) /\ ~e.transport /\ e.slot.state = "Closed" /\ ~e.slot.publications
  /\ set' = Evict(Unqueue(set, c.resource), c.resource)
  /\ UNCHANGED <<turn, woken, issued>>

\* try_recover of a failed generation and abandon of any other one; a transport
\* that cannot be deregistered makes the selector untrustworthy.
Recover(c) ==
  /\ Between
  /\ Owned(set, c)
  /\ \E answer \in IF EntryAt(set, c.resource).transport THEN SelectorAnswers ELSE {"Ok"} :
       LET after == IF answer = "Ok" THEN [set EXCEPT !.registered = @ \ {c.resource}]
                    ELSE LatchSelectorFailure(set)
       IN  set' = Evict(Unqueue(after, c.resource), c.resource)
  /\ UNCHANGED <<turn, woken, issued>>

(***************************************************************************)
(* connect_with: capacity first, then the transport, then the selector.    *)
(***************************************************************************)
NewEntry(identity) ==
  [identity |-> identity, slot |-> NewContract, transport |-> TRUE, queued |-> FALSE,
   runnable |-> FALSE, due |-> FALSE, synced |-> TRUE]

Connects(st) ==
  MapThenSumSet(LAMBDA i : st.table[i].generation - 1, Indices) + Cardinality(LiveIndices(st))

Admits(i) ==
  /\ Between
  /\ set.owner = "Running"
  /\ ~Live(set, i)
  /\ Connects(set) < MaxConnects
  /\ set.table[i].generation <= MaxGeneration

Connect(i, identity) ==
  LET r == ResourceAt(set, i)
  IN  /\ Admits(i)
      /\ set' = Enqueue([Put(set, r, NewEntry(identity)) EXCEPT !.registered = @ \cup {r}], r)
      /\ issued' = issued \cup {[resource |-> r, identity |-> identity]}
      /\ woken' = TRUE
      /\ UNCHANGED turn

\* Slip: a registration that has to be undone and cannot be is ignored.
ConnectAbandonedQuietly(i) ==
  LET r == ResourceAt(set, i)
  IN  /\ Admits(i)
      /\ "Connector" \in SetFaults
      /\ \E kept \in {{}, {r}} : set' = Evict([set EXCEPT !.registered = @ \cup kept], r)
      /\ UNCHANGED <<turn, woken, issued>>

\* The connector, a limit or the registration fails, or the memory charge is
\* exceeded once registered; then the registration is undone, and when that
\* fails the whole set does.
ConnectAbandoned(i) ==
  LET r == ResourceAt(set, i)
  IN  /\ Admits(i)
      /\ "Connector" \in SetFaults
      /\ \/ set' = Evict(set, r)
         \/ /\ "Selector" \in SetFaults
            /\ set' = Evict(LatchSelectorFailure([set EXCEPT !.registered = @ \cup {r}]), r)
      /\ UNCHANGED <<turn, woken, issued>>

(***************************************************************************)
(* Ports.                                                                  *)
(***************************************************************************)

\* Cancellations have a lane of their own.
Send(c, kind) ==
  LET lane == IF kind = "Cancel" THEN "regular" ELSE "control"
  IN  /\ set.owner = "Running"
      /\ Len(set[lane]) < CommandCapacity
      /\ set' = [set EXCEPT ![lane] = Append(@, [connection |-> c, kind |-> kind])]
      /\ woken' = TRUE
      /\ UNCHANGED <<turn, issued>>

(***************************************************************************)
(* The selector (external) and time.                                       *)
(***************************************************************************)
Poll(events, saturated) ==
  /\ Between
  /\ set.owner = "Running"
  /\ events \subseteq set.registered
  /\ saturated => events # {}
  /\ set' = [set EXCEPT !.events = @ \cup events, !.saturated = saturated]
  /\ woken' = (woken \/ events # {})
  /\ UNCHANGED <<turn, issued>>

PollFails ==
  /\ Between
  /\ set.owner = "Running"
  /\ "Selector" \in SetFaults
  /\ set' = LatchSelectorFailure(set)
  /\ UNCHANGED <<turn, woken, issued>>

DeadlinePasses(i) ==
  /\ Between
  /\ "due" \in Flags
  /\ Live(set, i)
  /\ set.table[i].entry.slot.state # "Closed"
  /\ ~set.table[i].entry.due
  /\ set' = [set EXCEPT !.table[i].entry.due = TRUE]
  /\ UNCHANGED <<turn, woken, issued>>

(***************************************************************************)
(* One turn (set_drive.rs): commands, readiness, candidates, ready queue.  *)
(***************************************************************************)
Idle == [pc |-> "Idle", budget |-> 0, polled |-> FALSE]

BeginTurn ==
  /\ Between
  /\ set.owner = "Running"
  /\ turn' = [pc |-> "Commands", budget |-> CommandsPerTurn, polled |-> FALSE]
  /\ woken' = FALSE
  /\ UNCHANGED <<set, issued>>

\* A command for a generation that is gone is counted and dropped.
ApplyCommand(lane) ==
  /\ turn.pc = "Commands"
  /\ turn.budget > 0
  /\ set[lane] # <<>>
  /\ LET command == Head(set[lane])
         taken == [set EXCEPT ![lane] = Tail(@)]
         r == command.connection.resource
         e == EntryAt(set, r)
     IN  IF ~Owned(set, command.connection) THEN set' = taken
         ELSE \E s \in ControlEffect(command.kind, e.slot) : \E moved \in Moved(e, s) :
                set' = Enqueue(Put(taken, r, moved), r)
  /\ turn' = [turn EXCEPT !.budget = @ - 1]
  /\ UNCHANGED <<woken, issued>>

CommandsDone ==
  /\ turn.pc = "Commands"
  /\ turn.budget = 0 \/ set.control \o set.regular = <<>>
  /\ set' = [set EXCEPT !.morePending = set.control \o set.regular # <<>>]
  /\ turn' = [turn EXCEPT !.pc = "Ingest", !.budget = 0]
  /\ UNCHANGED <<woken, issued>>

\* An event of a generation that is gone, or has released its transport, is
\* counted and dropped.
IngestEvent(r) ==
  /\ turn.pc = "Ingest"
  /\ r \in set.events
  /\ LET taken == [set EXCEPT !.events = @ \ {r}]
         e == EntryAt(set, r)
     IN  IF ~Occupied(set, r) THEN set' = taken
         ELSE IF ~e.transport THEN set' = taken
         ELSE \E answer \in PressureAnswers :
              \E moved \in Moved(e, IF answer = "Ok" THEN e.slot ELSE Latched(e.slot)) :
                set' = Enqueue(Put(taken, r, moved), r)
  /\ UNCHANGED <<turn, woken, issued>>

\* A saturated batch is followed by one more poll that does not wait.
Repoll(events, saturated) ==
  /\ turn.pc = "Ingest"
  /\ set.events = {}
  /\ set.saturated
  /\ ~turn.polled
  /\ events \subseteq set.registered
  /\ saturated => events # {}
  /\ set' = [set EXCEPT !.events = events, !.saturated = saturated]
  /\ turn' = [turn EXCEPT !.polled = TRUE]
  /\ UNCHANGED <<woken, issued>>

RepollFails ==
  /\ turn.pc = "Ingest"
  /\ set.events = {}
  /\ set.saturated
  /\ ~turn.polled
  /\ "Selector" \in SetFaults
  /\ set' = LatchSelectorFailure(set)
  /\ turn' = Idle
  /\ UNCHANGED <<woken, issued>>

Candidate(e) == e.due \/ Releasable(e.slot) \/ (e.transport /\ e.runnable)

EnqueueCandidate(st, i) ==
  IF Live(st, i) /\ Candidate(st.table[i].entry) THEN Enqueue(st, ResourceAt(st, i)) ELSE st

\* The set after the candidates of the table were looked at, slot by slot.
WithCandidates(st) ==
  LET after[n \in 0..Cardinality(Indices)] ==
        IF n = 0 THEN st ELSE EnqueueCandidate(after[n - 1], n)
  IN  after[Cardinality(Indices)]

EnqueueCandidates ==
  /\ turn.pc = "Ingest"
  /\ set.events = {}
  /\ set.saturated => turn.polled
  /\ set' = WithCandidates(set)
  /\ turn' = [turn EXCEPT !.pc = "Drive", !.budget = ReadyPerTurn]
  /\ UNCHANGED <<woken, issued>>

\* drive_quantum on a failed slot, or without a transport, does nothing.
Driven(e) ==
  IF Works(e.slot) /\ e.transport
  THEN UNION {Moved([e EXCEPT !.queued = FALSE], s) : s \in AfterQuantum(e.slot)}
  ELSE {[e EXCEPT !.queued = FALSE]}

\* sync_interest: results [entry, error].
SyncInterest(e) ==
  IF ~e.transport \/ e.synced THEN {[entry |-> e, error |-> "None"]}
  ELSE {LET ok == a.selector = "Ok" /\ a.pressure = "Ok"
        IN  [entry |-> [e EXCEPT !.slot = IF ok THEN e.slot ELSE Latched(e.slot),
                                 !.synced = a.selector = "Ok"],
             error |-> IF a.selector = "Ok" THEN "None" ELSE a.selector]
        : a \in [selector : SelectorAnswers, pressure : PressureAnswers]}

\* Slip: a saturated quantum is not driven again.
RequeueUnsaturated(e, saturated) ==
  /\ Works(e.slot)
  /\ e.transport
  /\ Releasable(e.slot)

Requeue(e, saturated) ==
  /\ Works(e.slot)
  /\ e.transport
  /\ saturated \/ Releasable(e.slot) \/ e.runnable

\* An error ends the turn; the connections still queued stay queued.
EndedBy(error) == turn' = IF error = "None" THEN [turn EXCEPT !.budget = @ - 1] ELSE Idle

DriveReady(saturated) ==
  /\ turn.pc = "Drive"
  /\ turn.budget > 0
  /\ set.ready # <<>>
  /\ LET r == Head(set.ready)
         popped == [set EXCEPT !.ready = Tail(@)]
     IN  IF ~Occupied(set, r) THEN set' = popped /\ EndedBy("None")
         ELSE \E driven \in Driven(EntryAt(set, r)) :
              \E result \in SettleEntry(driven) :
                LET settled == WithSettled(popped, r, result)
                IN  IF result.error # "None"
                    THEN /\ set' = IF result.error = "Mio"
                                   THEN LatchSelectorFailure(settled) ELSE settled
                         /\ EndedBy(result.error)
                    ELSE \E synced \in SyncInterest(result.entry) :
                           LET after == Put(settled, r, synced.entry)
                           IN  /\ set' = IF synced.error = "Mio" THEN LatchSelectorFailure(after)
                                         ELSE IF Requeue(synced.entry, saturated)
                                         THEN Enqueue(after, r) ELSE after
                               /\ EndedBy(synced.error)
  /\ UNCHANGED issued
  /\ woken' = (woken \/ turn'.pc = "Idle")

NextIsNow(st) == st.morePending \/ st.saturated \/ st.ready # <<>>

EndTurn ==
  /\ turn.pc = "Drive"
  /\ turn.budget = 0 \/ set.ready = <<>>
  /\ turn' = Idle
  /\ woken' = (woken \/ NextIsNow(set))
  /\ UNCHANGED <<set, issued>>

\* Dropping the set closes the mailbox and deregisters what it can.
DropSet ==
  /\ Between
  /\ set' = [NewSet EXCEPT !.owner = "Dropped"]
  /\ UNCHANGED <<turn, woken, issued>>

Init ==
  /\ set = NewSet
  /\ turn = Idle
  /\ woken = FALSE
  /\ issued = {}

TurnStep ==
  \/ \E lane \in {"control", "regular"} : ApplyCommand(lane)
  \/ CommandsDone
  \/ \E r \in set.events : IngestEvent(r)
  \/ \E events \in SUBSET set.registered, saturated \in BOOLEAN : Repoll(events, saturated)
  \/ RepollFails
  \/ EnqueueCandidates
  \/ \E saturated \in BOOLEAN : DriveReady(saturated)
  \/ EndTurn

Application ==
  \/ \E i \in Indices : ConnectAbandoned(i)
  \/ \E i \in Indices, identity \in Identities : Connect(i, identity)
  \/ \E c \in issued, kind \in CommandKinds \cup {"Commit"} : Control(c, kind)
  \/ \E c \in issued : DrainPublications(c) \/ Retire(c) \/ Recover(c)
  \/ DropSet

Environment ==
  \/ \E c \in issued, kind \in CommandKinds : Send(c, kind)
  \/ \E events \in SUBSET set.registered, saturated \in BOOLEAN : Poll(events, saturated)
  \/ PollFails
  \/ \E i \in Indices : DeadlinePasses(i)

Next == TurnStep \/ BeginTurn \/ Application \/ Environment

Spec == Init /\ [][Next]_vars

=============================================================================
