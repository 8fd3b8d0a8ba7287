----------------------------- MODULE SlotContract -----------------------------
(***************************************************************************)
(* What the owner of a connection slot relies on: an abstract slot is      *)
(* whether its owner failed, how far its transport got, what its close     *)
(* request asks of the host and whether publications wait to be drained.   *)
(* SlotContractSpec is the specification that ConnectionSlot implements;   *)
(* ConnectionSet is built from the operators below.                        *)
(***************************************************************************)
EXTENDS Naturals

ContractSlots ==
  [owner : {"Running", "Failed"},
   state : {"Connecting", "Open", "Closing", "Closed"},
   close : {"None", "Graceful", "Ready", "Abort"},
   publications : BOOLEAN]

NewContract ==
  [owner |-> "Running", state |-> "Connecting", close |-> "None", publications |-> FALSE]

Works(s) == s.owner = "Running"

\* The host may release the transport (transport_release_ready).
Releasable(s) == s.close \in {"Ready", "Abort"}

\* The first failure asks for the transport to be aborted.
Latched(s) == IF Works(s) THEN [s EXCEPT !.owner = "Failed", !.close = "Abort"] ELSE s

Published(s) == {s, [s EXCEPT !.publications = TRUE]}

Established(s) ==
  IF s.state = "Connecting" THEN {[s EXCEPT !.state = "Open", !.publications = TRUE]} ELSE {}

\* Only an open transport is shut down gracefully.
Closes(s) ==
  IF s.state \notin {"Connecting", "Open"} THEN {}
  ELSE {[s EXCEPT !.state = "Closing", !.close = c, !.publications = TRUE]
          : c \in {"Ready"} \cup IF s.state = "Open" THEN {"Graceful"} ELSE {}}

\* A graceful shutdown completes, fails, runs out of time or is preempted.
Forced(s) == IF s.close = "Graceful" THEN {[s EXCEPT !.close = "Ready"]} ELSE {}

\* A method may fail at any point before its epoch is settled.
OrFails(slots) == slots \cup {Latched(t) : t \in {u \in slots : u.state # "Closed"}}

\* A call of the application: commit, cancel, open_admission or begin_drain.
AfterCall(s) ==
  IF Works(s) THEN OrFails(Published(s) \cup Closes(s)) ELSE {s}

\* finalize leaves the epoch closed or ready to be settled.
AfterFinalize(s) ==
  IF ~Works(s) THEN {s}
  ELSE IF Closes(s) \cup Forced(s) = {} THEN {s}
  ELSE OrFails({t \in Closes(s) \cup Forced(s) : t.close = "Ready"})

\* One unit of work of a quantum.
AfterWork(s) ==
  IF Works(s) THEN OrFails(Published(s) \cup Established(s) \cup Closes(s) \cup Forced(s))
  ELSE {s}

\* A whole quantum: establish, close, finish the shutdown and fail are the four
\* edges it can take.
AfterQuantum(s) ==
  UNION {AfterWork(t) : t \in UNION {AfterWork(u) : u \in UNION {AfterWork(v) : v \in AfterWork(s)}}}

\* The host released the transport of a releasable slot.
AfterSettlement(s) ==
  LET closed == [s EXCEPT !.state = "Closed", !.close = "None"]
  IN  IF s.close = "Abort" THEN {closed}
      ELSE {[closed EXCEPT !.publications = TRUE],
            [closed EXCEPT !.owner = "Failed", !.publications = TRUE]}

Drained(s) == [s EXCEPT !.publications = FALSE]

=============================================================================
