-------------------------- MODULE ReservationLedger --------------------------
(***************************************************************************)
(* Resource accounting behind operation permits and accepted operations    *)
(* (bornera-core, admission/ledger.rs, admission/gate.rs, limits.rs).      *)
(*                                                                         *)
(* The ledger is a value: every operator takes a ledger and returns the    *)
(* ledger the Rust method leaves behind.  The set "keys" is the abstract   *)
(* contents of ActiveKeySet; module KeySet shows that the open-addressing  *)
(* table implements a set.  Byte counts are naturals: checked_add can only *)
(* overflow above the configured limit, so overflow and "above the limit"  *)
(* are the same refusal.                                                   *)
(*                                                                         *)
(* Here and in the modules above, a definition headed "Slip:" is a         *)
(* plausible mistake in the definition that follows it.  The specification *)
(* never uses it; it shows that a property notices the mistake.            *)
(***************************************************************************)
EXTENDS Integers, Sequences, FiniteSets

CONSTANTS
  MaxOperations,     \* ConnectionLimits::max_operations
  MaxRetained,       \* ConnectionLimits::max_retained_bytes
  MaxWriteFrames,    \* ConnectionLimits::max_write_frames
  MaxWriteRetained,  \* ConnectionLimits::max_write_retained_bytes
  FirstKey,          \* MatchKeySpace::first
  LastKey            \* MatchKeySpace::last

ASSUME LimitsAssumption ==
  /\ MaxOperations \in Nat \ {0}
  /\ MaxWriteFrames \in Nat \ {0}
  /\ MaxRetained \in Nat
  /\ MaxWriteRetained \in Nat

ASSUME KeySpaceAssumption ==
  /\ FirstKey \in Nat
  /\ LastKey \in Nat
  /\ FirstKey <= LastKey

Keys == FirstKey..LastKey

Gates == {"SessionOnly", "Open", "Draining", "Closed"}
Classes == {"Session", "Regular"}

\* The ordered admission gate: which class each gate lets through.
Admits(gate, class) ==
  \/ gate = "SessionOnly" /\ class = "Session"
  \/ gate = "Open"

Reservation == [retained : Nat, writeRetained : Nat, key : Keys]

Ledger ==
  [operations : Nat, permits : Nat, retained : Nat, writeFrames : Nat,
   writeRetained : Nat, keys : SUBSET Keys, nextKey : Keys, poisoned : BOOLEAN]

EmptyLedger ==
  [operations |-> 0, permits |-> 0, retained |-> 0, writeFrames |-> 0,
   writeRetained |-> 0, keys |-> {}, nextKey |-> FirstKey, poisoned |-> FALSE]

\* Slip: the successor of the last key leaves the key space.
NextKeyUnwrapped(key) == key + 1

\* MatchKeySpace::next, the wrapping successor.
NextKey(key) == IF key = LastKey THEN FirstKey ELSE key + 1

\* The candidate reached after n successors of nextKey.
Candidate(l, n) ==
  FirstKey + ((l.nextKey - FirstKey + n) % (LastKey - FirstKey + 1))

\* allocate_key inspects one candidate more than there are active keys.
Attempts(l) == 0..Cardinality(l.keys)

FreeAttempts(l) == {n \in Attempts(l) : Candidate(l, n) \notin l.keys}

\* The key allocate_key returns when some attempt is free: the first one.
AllocatedKey(l) ==
  Candidate(l, CHOOSE n \in FreeAttempts(l) : \A k \in FreeAttempts(l) : n <= k)

\* Every check of ReservationLedger::reserve, in its order.
CanReserve(l, retained, writeRetained) ==
  /\ ~l.poisoned
  /\ l.operations # MaxOperations
  /\ l.retained + retained <= MaxRetained
  /\ l.writeFrames # MaxWriteFrames
  /\ l.writeRetained + writeRetained <= MaxWriteRetained
  /\ FreeAttempts(l) # {}

ReserveLedger(l, retained, writeRetained) ==
  [l EXCEPT !.operations = @ + 1,
            !.permits = @ + 1,
            !.retained = @ + retained,
            !.writeFrames = @ + 1,
            !.writeRetained = @ + writeRetained,
            !.keys = @ \cup {AllocatedKey(l)},
            !.nextKey = NextKey(AllocatedKey(l))]

PoisonLedger(l) == [l EXCEPT !.poisoned = TRUE]

\* Slip: the bytes the frame does not need stay reserved.
CommitLedgerKeepsUnused(l, reservation, actual) ==
  IF l.permits = 0 \/ reservation.writeRetained < actual
  THEN PoisonLedger(l)
  ELSE [l EXCEPT !.permits = @ - 1]

\* ReservationLedger::commit: the permit ends, unused write bytes return.
CommitLedger(l, reservation, actual) ==
  LET unused == reservation.writeRetained - actual
  IN  IF l.permits = 0 \/ unused < 0 \/ l.writeRetained < unused
      THEN PoisonLedger(l)
      ELSE [l EXCEPT !.permits = @ - 1, !.writeRetained = @ - unused]

\* ReservationLedger::release_all: every checked_sub that would underflow, or
\* a key that is not active, latches the poison and releases nothing.
ReleaseAll(l, reservation, writeHeld, releasePermit) ==
  LET permit == IF releasePermit THEN 1 ELSE 0
      frames == IF writeHeld THEN 1 ELSE 0
      bytes  == IF writeHeld THEN reservation.writeRetained ELSE 0
  IN  IF \/ l.operations = 0
         \/ l.retained < reservation.retained
         \/ l.permits < permit
         \/ l.writeFrames < frames
         \/ l.writeRetained < bytes
         \/ reservation.key \notin l.keys
      THEN PoisonLedger(l)
      ELSE [l EXCEPT !.operations = @ - 1,
                     !.retained = @ - reservation.retained,
                     !.permits = @ - permit,
                     !.writeFrames = @ - frames,
                     !.writeRetained = @ - bytes,
                     !.keys = @ \ {reservation.key}]

RollbackPermit(l, reservation) == ReleaseAll(l, reservation, TRUE, TRUE)

ReleaseOperation(l, record) ==
  ReleaseAll(l, record.reservation, record.writeHeld, FALSE)

\* The release loop of epoch closure and of recovery, in FIFO order.
ReleaseRecords(l, records) ==
  LET after[i \in 0..Len(records)] ==
        IF i = 0 THEN l ELSE ReleaseOperation(after[i - 1], records[i])
  IN  after[Len(records)]

\* ReservationLedger::release_write: a frame left the writer.
ReleaseWrite(l, writeRetained) ==
  IF l.writeFrames = 0 \/ l.writeRetained < writeRetained
  THEN PoisonLedger(l)
  ELSE [l EXCEPT !.writeFrames = @ - 1, !.writeRetained = @ - writeRetained]

=============================================================================
