---------------------------- MODULE SetProperties ----------------------------
(***************************************************************************)
(* What makes ConnectionSet correct.                                       *)
(***************************************************************************)
EXTENDS ConnectionSet

\* Every variable has its type, and the ready queue keeps to the capacity it was
\* allocated with (one type invariant for the set).
TypeOK ==
  /\ \A i \in Indices : /\ set.table[i].generation \in 1..(MaxGeneration + 1)
                        /\ set.table[i].entry \in Entries \cup {NoEntry}
  /\ set.ready \in Seq(Resources)
  /\ Len(set.ready) <= Cardinality(Indices)
  /\ set.control \in Seq(Commands)
  /\ set.regular \in Seq(Commands)
  /\ set.owner \in {"Running", "Failed", "Dropped"}
  /\ set.registered \subseteq Resources
  /\ set.events \subseteq Resources
  /\ turn.pc \in {"Idle", "Commands", "Ingest", "Drive"}
  /\ woken \in BOOLEAN
  /\ issued \subseteq Connections

\* The ready queue holds exactly the live connections marked as queued, each
\* once: no token of a settled, retired or recovered generation stays behind
\* to reach the next one in its place.
ReadyExact ==
  /\ \A k \in DOMAIN set.ready : Occupied(set, set.ready[k]) /\ EntryAt(set, set.ready[k]).queued
  /\ \A i \in LiveIndices(set) : set.table[i].entry.queued =>
       Cardinality({k \in DOMAIN set.ready : set.ready[k] = ResourceAt(set, i)}) = 1

\* While the set runs, the selector knows exactly the transports its entries
\* own: none is dropped while registered and none is owned unregistered,
\* whichever of the several steps of connecting, settling or recovering fails.
RegistrationExact ==
  set.owner = "Running" =>
    set.registered = {ResourceAt(set, i) : i \in {j \in LiveIndices(set) :
                                                    set.table[j].entry.transport}}

\* A failure, of the selector or of one connection, wherever it strikes: no
\* connection goes on running on a selector that is not polled any more, no
\* command waits for one, and a failed connection asks for its transport as
\* long as it has one, also after a settlement that failed half way.
FailureFencesAll ==
  /\ set.owner = "Failed" =>
       /\ \A i \in LiveIndices(set) : ~Works(set.table[i].entry.slot)
       /\ set.control = <<>> /\ set.regular = <<>>
  /\ \A i \in LiveIndices(set) :
       LET e == set.table[i].entry
       IN  /\ e.transport /\ ~Works(e.slot) => e.slot.close = "Abort"
           /\ e.slot.close # "None" \/ e.transport \/ e.slot.state = "Closed"

\* A command changes only the generation its port was made for, however late
\* it is applied and whoever lives in the table slot by then.
CommandsFenced ==
  [][turn.pc = "Commands" =>
       \A i \in Indices : set'.table[i] # set.table[i] =>
         \E lane \in {"control", "regular"} :
           /\ set'[lane] # set[lane]
           /\ set[lane] # <<>>
           /\ Head(set[lane]).connection.resource = ResourceAt(set, i)]_vars

\* The host sleeps only when every running connection waits for readiness or a
\* deadline: no work, no releasable transport, no interest the selector was not
\* told of, no queued connection and no command.
SleepsSafely ==
  turn.pc = "Idle" /\ set.owner = "Running" /\ ~woken =>
    /\ set.ready = <<>>
    /\ set.control = <<>> /\ set.regular = <<>>
    /\ \A i \in LiveIndices(set) :
         LET e == set.table[i].entry
         IN  Works(e.slot) => ~e.runnable /\ ~Releasable(e.slot) /\ e.synced

\* No connection is overtaken: as long as one waits in the ready queue, whatever
\* commands, events, deadlines and saturated quanta of others arrive, it only
\* moves forward until it is driven, after at most one quantum of each other one.
NoOvertaking ==
  [][\A k \in DOMAIN set.ready :
       (turn.pc = "Drive" => k # 1) =>
         \A j \in DOMAIN set'.ready : set'.ready[j] = set.ready[k] => j <= k]_vars

=============================================================================
