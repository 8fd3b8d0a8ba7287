------------------------- MODULE StandaloneConnection -------------------------
(***************************************************************************)
(* A connection set of capacity one behind the interface of a single       *)
(* connection (bornera, standalone.rs, standalone/connect.rs and the       *)
(* standalone half of recovery.rs).  The set below it is ConnectionSet;    *)
(* the wrapper never retires its connection, refuses to turn or poll once  *)
(* it failed, and is consumed by recovery.                                 *)
(***************************************************************************)
EXTENDS SetProperties

VARIABLES
  sole,   \* the token of the connection
  next,   \* what the last turn asked of the host
  report  \* the recovery report, once the connection is consumed

standaloneVars == <<vars, sole, next, report>>

NoReport == [consumed |-> FALSE, empty |-> FALSE, diverged |-> FALSE]

Held == ~report.consumed
SoleEntry == EntryAt(set, sole.resource)

\* ensure_running: a token that lost its entry is an error as well.
EnsureRunning == Owned(set, sole) /\ Works(SoleEntry.slot)

\* connect either returns the connection or drops the set it was to live in.
StandaloneInit ==
  \E i \in Indices, identity \in Identities :
    LET r == [index |-> i, generation |-> 1]
    IN  /\ sole = [resource |-> r, identity |-> identity]
        /\ set = Enqueue([Put(NewSet, r, NewEntry(identity)) EXCEPT !.registered = {r}], r)
        /\ turn = Idle
        /\ woken = TRUE
        /\ issued = {sole}
        /\ next = "Turn"
        /\ report = NoReport

\* Every call is the call of the set with the one token.
StandaloneCall(kind) == Held /\ Control(sole, kind) /\ UNCHANGED <<sole, next, report>>

StandaloneDrain == Held /\ DrainPublications(sole) /\ UNCHANGED <<sole, next, report>>

\* A port outlives its connection, and another thread may use it at any time.
StandaloneSend(kind) == Send(sole, kind) /\ UNCHANGED <<sole, next, report>>

StandalonePoll(events, saturated) ==
  Held /\ EnsureRunning /\ Poll(events, saturated) /\ UNCHANGED <<sole, next, report>>

StandalonePollFails ==
  Held /\ EnsureRunning /\ PollFails /\ UNCHANGED <<sole, next, report>>

StandaloneTurns == Held /\ EnsureRunning /\ BeginTurn /\ UNCHANGED <<sole, next, report>>

\* Slip: stopping waits for the publications to be drained.
StopsWhenDrained(e) == Works(e.slot) /\ e.slot.state = "Closed" /\ ~e.slot.publications

Stops(e) == Works(e.slot) /\ e.slot.state = "Closed"

\* The end of a turn of the set is also the end of this one; one that failed
\* asks for nothing.
StandaloneTurnStep ==
  /\ TurnStep
  /\ next' = IF turn'.pc # "Idle" THEN next
             ELSE IF ~Works(EntryAt(set', sole.resource).slot) THEN "Error"
             ELSE IF Stops(EntryAt(set', sole.resource)) THEN "Stop" ELSE "Turn"
  /\ UNCHANGED <<sole, report>>

StandaloneDeadline ==
  \E i \in Indices : Held /\ DeadlinePasses(i) /\ UNCHANGED <<sole, next, report>>

\* Slip: the report does not say that deregistration failed.
RecoveryReportQuiet(cleanup, pressure) ==
  [consumed |-> TRUE, empty |-> FALSE, diverged |-> pressure # "Ok"]

RecoveryReport(cleanup, pressure) ==
  [consumed |-> TRUE, empty |-> FALSE, diverged |-> cleanup # "Ok" \/ pressure # "Ok"]

\* try_recover of a failed connection and abandon of any other: the set is
\* dropped with the connection, so a failed cleanup is only reported.  A token
\* without an entry yields an empty report.
StandaloneRecover ==
  /\ Held
  /\ turn.pc = "Idle"
  /\ IF ~Occupied(set, sole.resource)
     THEN /\ report' = [consumed |-> TRUE, empty |-> TRUE, diverged |-> TRUE]
          /\ UNCHANGED set
     ELSE \E cleanup \in IF SoleEntry.transport THEN SelectorAnswers ELSE {"Ok"},
             pressure \in IF SoleEntry.transport THEN PressureAnswers ELSE {"Ok"} :
            /\ report' = RecoveryReport(cleanup, pressure)
            /\ LET cleaned == [set EXCEPT !.owner = "Dropped", !.control = <<>>, !.regular = <<>>,
                              !.registered = IF cleanup = "Ok" THEN @ \ {sole.resource} ELSE @]
               IN  set' = Evict(Unqueue(cleaned, sole.resource), sole.resource)
  /\ UNCHANGED <<turn, woken, issued, sole, next>>

StandaloneNext ==
  \/ \E kind \in CommandKinds \cup {"Commit"} : StandaloneCall(kind)
  \/ \E kind \in CommandKinds : StandaloneSend(kind)
  \/ \E events \in SUBSET set.registered, saturated \in BOOLEAN : StandalonePoll(events, saturated)
  \/ StandaloneDrain \/ StandalonePollFails \/ StandaloneTurns \/ StandaloneTurnStep
  \/ StandaloneDeadline \/ StandaloneRecover

StandaloneSpec == StandaloneInit /\ [][StandaloneNext]_standaloneVars

\* The host turns when it was woken or a deadline passed; a turn runs to its end.
HostTurns == StandaloneTurns /\ (woken \/ SoleEntry.due)

StandaloneLive ==
  /\ StandaloneSpec
  /\ WF_standaloneVars(StandaloneTurnStep)
  /\ WF_standaloneVars(HostTurns)

\* The connection never loses its entry: whatever is called and fails, the
\* token of a connection not yet consumed stays valid, so recovery always
\* returns what the connection owned and never the empty report.
NeverEmptyReport == (Held => Owned(set, sole)) /\ ~report.empty

\* Once a turn asked to stop there is nothing left to drive: the transport is
\* released, not registered, and nothing will bring it back.
StopMeansReleased ==
  next = "Stop" /\ Held =>
    /\ ~SoleEntry.transport
    /\ set.registered = {}
    /\ SoleEntry.slot.close = "None" \/ ~Works(SoleEntry.slot)

\* A registration the selector would not give up is reported as divergence.
LeftoversReported == report.consumed /\ set.registered # {} => report.diverged

\* The wrapper keeps what the set below it keeps, here with every flag, fault
\* and lane of commands, and never loses the connection or what it owned.
StandaloneInv ==
  /\ TypeOK
  /\ ReadyExact
  /\ RegistrationExact
  /\ FailureFencesAll
  /\ SleepsSafely
  /\ NeverEmptyReport
  /\ StopMeansReleased
  /\ LeftoversReported

\* A connection that closed, by a call between two turns, a command of its port
\* or its peer, releases its transport and tells its host to stop, instead of
\* leaving the host asleep.
StandaloneStops ==
  /\ (Held /\ Stops(SoleEntry)) ~> (report.consumed \/ ~Works(SoleEntry.slot) \/ next = "Stop")
  /\ (Held /\ Releasable(SoleEntry.slot)) ~>
       (report.consumed \/ ~Works(SoleEntry.slot) \/ ~SoleEntry.transport)

=============================================================================
