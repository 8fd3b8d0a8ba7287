---------------------------- MODULE MachineProofs ----------------------------
(***************************************************************************)
(* Facts about the reservation ledger and the policy machine: every handler*)
(* turns a well-typed machine into a well-typed transition, the ledger     *)
(* counts exactly what permits, queued frames and operations hold, and a   *)
(* transition publishes one outcome for each record that stops being       *)
(* observed, for every limit, key space and identity range.                *)
(***************************************************************************)
EXTENDS ConnectionMachine, Totals, NaturalsInduction, WellFoundedInduction, TLAPS, FiniteSetTheorems

(***************************************************************************)
(* Induction over the naturals below a bound, and iteration of a step,     *)
(* stated for sets and functions so that they can be cited.                *)
(***************************************************************************)

\* A non-empty set of naturals has a least element.
LEMMA LeastNatural ==
  ASSUME NEW T, T \subseteq Nat, T # {}
  PROVE  \E x \in T : \A y \in T : x <= y
<1> DEFINE R == OpToRel(<, Nat)
<1>1. \E x \in T : \A y \in T : ~(<<y, x>> \in R)
  BY NatLessThanWellFounded, WFMin
<1>2. ASSUME NEW x \in Nat, NEW y \in Nat, y < x
      PROVE  <<y, x>> \in R
  <2>1. <<y, x>> \in Nat \X Nat /\ <<y, x>>[1] = y /\ <<y, x>>[2] = x
    OBVIOUS
  <2>2. <<y, x>>[1] < <<y, x>>[2]
    BY <1>2, <2>1
  <2> QED
    BY <2>1, <2>2, Zenon DEF OpToRel
<1> HIDE DEF R
<1>3. PICK x \in T : \A y \in T : ~(<<y, x>> \in R)
  BY <1>1
<1>4. \A y \in T : ~(y < x)
  BY <1>2, <1>3
<1>5. \A y \in T : x <= y
  BY <1>4
<1> QED
  BY <1>5

\* A property of naturals below n, given as the set of those that have it, that
\* holds of 0 and passes from each number to the next holds of all.
LEMMA BoundedInduction ==
  ASSUME NEW n \in Nat, NEW G, 0 \in G,
         \A i \in 0..(n - 1) : i \in G => i + 1 \in G
  PROVE  0..n \subseteq G
<1> DEFINE T == {i \in 0..n : i \notin G}
<1>1. SUFFICES ASSUME T # {} PROVE FALSE
  OBVIOUS
<1>2. T \subseteq Nat
  OBVIOUS
<1>3. PICK x \in T : \A y \in T : x <= y
  <2> HIDE DEF T
  <2> QED BY <1>1, <1>2, LeastNatural
<1>4. x # 0
  OBVIOUS
<1>5. x - 1 \in 0..(n - 1) /\ x - 1 \notin T
  BY <1>3, <1>4
<1>6. x - 1 \in G
  BY <1>5
<1>7. x \in G
  BY <1>5, <1>6
<1> QED
  BY <1>7

Steps(S, n) == [1..n -> [S -> S]]

IsIteration(f, S, n, base, step) ==
  /\ f \in [0..n -> S]
  /\ f[0] = base
  /\ \A i \in 1..n : f[i] = step[i][f[i - 1]]

\* Iterating a step function n times gives a function on 0..n.
LEMMA IterationExists ==
  ASSUME NEW S, NEW n \in Nat, NEW base \in S, NEW step \in Steps(S, n)
  PROVE  \E f : IsIteration(f, S, n, base, step)
<1> USE DEF Steps
<1> DEFINE Iterates(f, k) ==
             f[0] = base /\ \A i \in 1..k : f[i] = step[i][f[i - 1]]
           G == {k \in 0..n : \E f \in [0..k -> S] : Iterates(f, k)}
<1>1. 0 \in G
  <2> DEFINE f == [i \in 0..0 |-> base]
  <2>1. f \in [0..0 -> S] /\ Iterates(f, 0)
    OBVIOUS
  <2> HIDE DEF Iterates, f
  <2> QED
    BY <2>1
<1>2. ASSUME NEW k \in 0..(n - 1), k \in G
      PROVE  k + 1 \in G
  <2>1. PICK f \in [0..k -> S] : Iterates(f, k)
    BY <1>2
  <2> DEFINE g == [i \in 0..(k + 1) |-> IF i = k + 1 THEN step[k + 1][f[k]] ELSE f[i]]
  <2>2. step[k + 1][f[k]] \in S
    <3>1. f[k] \in S /\ k + 1 \in 1..n
      OBVIOUS
    <3> QED
      BY <3>1
  <2>3. g \in [0..(k + 1) -> S]
    BY <2>2
  <2>4. g[0] = base
    BY <2>1
  <2>5. ASSUME NEW i \in 1..(k + 1)
        PROVE  g[i] = step[i][g[i - 1]]
    <3>1. CASE i = k + 1
      <4>1. g[i - 1] = f[k]
        BY <3>1
      <4> QED
        BY <3>1, <4>1
    <3>2. CASE i # k + 1
      <4>1. i \in 1..k /\ g[i] = f[i] /\ g[i - 1] = f[i - 1]
        BY <3>2
      <4> QED
        BY <2>1, <4>1
    <3> QED
      BY <3>1, <3>2
  <2>6. Iterates(g, k + 1)
    BY <2>4, <2>5
  <2>7. k + 1 \in 0..n
    OBVIOUS
  <2> HIDE DEF Iterates, g
  <2> QED
    BY <2>3, <2>6, <2>7
<1>3. n \in G
  <2> HIDE DEF G
  <2>1. 0..n \subseteq G
    BY <1>1, <1>2, BoundedInduction
  <2> QED
    BY <2>1
<1> QED
  BY <1>3 DEF IsIteration

(***************************************************************************)
(* Match keys.                                                             *)
(***************************************************************************)

\* Every candidate allocate_key inspects is a key of the key space.
LEMMA CandidateIsKey ==
  ASSUME NEW l \in Ledger, NEW n \in Nat
  PROVE  Candidate(l, n) \in Keys
<1> DEFINE size == LastKey - FirstKey + 1
           offset == l.nextKey - FirstKey + n
<1>1. size \in Nat /\ size > 0 /\ offset \in Int
  BY KeySpaceAssumption DEF Ledger, Keys
<1>2. offset % size \in 0..(size - 1)
  <2> HIDE DEF size, offset
  <2> QED BY <1>1
<1> QED
  BY <1>2, KeySpaceAssumption DEF Candidate, Keys

LEMMA ActiveKeysFinite ==
  ASSUME NEW l \in Ledger
  PROVE  IsFiniteSet(l.keys) /\ Cardinality(l.keys) \in Nat
<1>1. IsFiniteSet(Keys)
  BY KeySpaceAssumption, FS_Interval DEF Keys
<1>2. l.keys \subseteq Keys
  BY DEF Ledger
<1> QED
  BY <1>1, <1>2, FS_Subset, FS_CardinalityType

\* The key allocate_key returns lies in the key space and is not active, so a
\* reply can never match two operations.
LEMMA AllocatedKeyFresh ==
  ASSUME NEW l \in Ledger, FreeAttempts(l) # {}
  PROVE  AllocatedKey(l) \in Keys /\ AllocatedKey(l) \notin l.keys
<1>1. FreeAttempts(l) \subseteq Nat
  BY ActiveKeysFinite DEF FreeAttempts, Attempts
<1>2. \E n \in FreeAttempts(l) : \A k \in FreeAttempts(l) : n <= k
  BY <1>1, LeastNatural
<1> DEFINE first == CHOOSE n \in FreeAttempts(l) : \A k \in FreeAttempts(l) : n <= k
<1>3. first \in FreeAttempts(l)
  BY <1>2
<1>4. AllocatedKey(l) = Candidate(l, first)
  BY DEF AllocatedKey
<1> HIDE DEF first
<1>5. first \in Nat /\ Candidate(l, first) \notin l.keys
  BY <1>1, <1>3 DEF FreeAttempts
<1> QED
  BY <1>4, <1>5, CandidateIsKey

\* Looking at one candidate more than there are active keys is enough: while
\* some key is free, allocate_key finds one, of the key space and inactive.
THEOREM AllocationComplete ==
  ASSUME NEW l \in Ledger, l.keys # Keys
  PROVE  /\ FreeAttempts(l) # {}
         /\ AllocatedKey(l) \in Keys /\ AllocatedKey(l) \notin l.keys
<1> SUFFICES FreeAttempts(l) # {}
  BY AllocatedKeyFresh
<1> DEFINE used == Cardinality(l.keys)
           size == LastKey - FirstKey + 1
<1>1. IsFiniteSet(Keys) /\ Cardinality(Keys) = size /\ size \in Nat /\ size > 0
  BY KeySpaceAssumption, FS_Interval DEF Keys
<1>2. IsFiniteSet(l.keys) /\ used \in Nat
  BY ActiveKeysFinite
<1>3. used < size
  <2>1. l.keys \subseteq Keys
    BY DEF Ledger
  <2> QED
    BY <1>1, <1>2, <2>1, FS_Subset
<1>4. ASSUME NEW a \in 0..used, NEW b \in 0..used, Candidate(l, a) = Candidate(l, b)
      PROVE  a = b
  <2> DEFINE o == l.nextKey - FirstKey
  <2>1. o \in 0..(size - 1)
    BY KeySpaceAssumption DEF Ledger, Keys
  <2>2. a \in 0..(size - 1) /\ b \in 0..(size - 1)
    <3> HIDE DEF used, size
    <3> QED BY <1>1, <1>2, <1>3
  <2>3. (o + a) % size = (o + b) % size
    BY <1>1, <1>4, <2>1, KeySpaceAssumption DEF Candidate
  <2>4. \A x \in 0..(size - 1) :
          (o + x) % size = IF o + x < size THEN o + x ELSE o + x - size
    <3> HIDE DEF o, size
    <3> QED BY <1>1, <2>1
  <2>5. (IF o + a < size THEN o + a ELSE o + a - size)
          = (IF o + b < size THEN o + b ELSE o + b - size)
    <3> HIDE DEF o, size
    <3> QED BY <2>2, <2>3, <2>4
  <2> HIDE DEF o, size, used
  <2> QED
    BY <1>1, <2>1, <2>2, <2>5
<1>5. Cardinality(0..used) = used + 1 /\ IsFiniteSet(0..used)
  <2>1. used \in Int /\ ~(0 > used) /\ used - 0 + 1 = used + 1
    <3> HIDE DEF used
    <3> QED BY <1>2
  <2> HIDE DEF used
  <2>2. /\ IsFiniteSet(0..used)
        /\ Cardinality(0..used) = IF 0 > used THEN 0 ELSE used - 0 + 1
    BY <2>1, FS_Interval
  <2> QED BY <2>1, <2>2
<1>6. SUFFICES ASSUME FreeAttempts(l) = {} PROVE FALSE
  OBVIOUS
<1> DEFINE f == [n \in 0..used |-> Candidate(l, n)]
<1>7. f \in [0..used -> l.keys]
  BY <1>6 DEF FreeAttempts, Attempts
<1>8. \E a, b \in 0..used : a # b /\ f[a] = f[b]
  <2> HIDE DEF f
  <2> QED BY <1>2, <1>5, <1>7, FS_PigeonHole
<1> QED
  BY <1>4, <1>8

(***************************************************************************)
(* Every ledger operation keeps the ledger's type: no count underflows.    *)
(***************************************************************************)
LEMMA LedgerFields ==
  ASSUME NEW l \in Ledger
  PROVE  /\ l.operations \in Nat /\ l.permits \in Nat /\ l.retained \in Nat
         /\ l.writeFrames \in Nat /\ l.writeRetained \in Nat
         /\ l.keys \subseteq Keys /\ l.nextKey \in Keys /\ l.poisoned \in BOOLEAN
  BY DEF Ledger

LEMMA EmptyLedgerType == EmptyLedger \in Ledger
  BY KeySpaceAssumption DEF EmptyLedger, Ledger, Keys

LEMMA ReserveLedgerType ==
  ASSUME NEW l \in Ledger, NEW retained \in Nat, NEW writeRetained \in Nat,
         FreeAttempts(l) # {}
  PROVE  ReserveLedger(l, retained, writeRetained) \in Ledger
<1>1. AllocatedKey(l) \in Keys
  BY AllocatedKeyFresh
<1>2. NextKey(AllocatedKey(l)) \in Keys
  BY <1>1, KeySpaceAssumption DEF NextKey, Keys
<1>3. /\ l.operations + 1 \in Nat /\ l.permits + 1 \in Nat
      /\ l.retained + retained \in Nat /\ l.writeFrames + 1 \in Nat
      /\ l.writeRetained + writeRetained \in Nat
  BY LedgerFields
<1>4. l.keys \cup {AllocatedKey(l)} \subseteq Keys
  BY <1>1, LedgerFields
<1> QED
  BY <1>2, <1>3, <1>4 DEF ReserveLedger, Ledger

LEMMA PoisonLedgerType ==
  ASSUME NEW l \in Ledger
  PROVE  PoisonLedger(l) \in Ledger
  BY DEF PoisonLedger, Ledger

LEMMA CommitLedgerType ==
  ASSUME NEW l \in Ledger, NEW reservation \in Reservation, NEW actual \in Nat
  PROVE  CommitLedger(l, reservation, actual) \in Ledger
<1> DEFINE unused == reservation.writeRetained - actual
<1>1. CASE l.permits = 0 \/ unused < 0 \/ l.writeRetained < unused
  BY <1>1, PoisonLedgerType DEF CommitLedger
<1>2. CASE ~(l.permits = 0 \/ unused < 0 \/ l.writeRetained < unused)
  <2>1. unused \in Int
    BY DEF Reservation
  <2>2. l.permits - 1 \in Nat /\ l.writeRetained - unused \in Nat
    BY <1>2, <2>1, LedgerFields
  <2>3. [l EXCEPT !.permits = @ - 1, !.writeRetained = @ - unused] \in Ledger
    <3> HIDE DEF unused
    <3> QED BY <2>2 DEF Ledger
  <2> QED
    BY <1>2, <2>3 DEF CommitLedger
<1> QED
  BY <1>1, <1>2

LEMMA ReleaseAllType ==
  ASSUME NEW l \in Ledger, NEW reservation \in Reservation,
         NEW writeHeld \in BOOLEAN, NEW releasePermit \in BOOLEAN
  PROVE  ReleaseAll(l, reservation, writeHeld, releasePermit) \in Ledger
<1> DEFINE permit == IF releasePermit THEN 1 ELSE 0
           frames == IF writeHeld THEN 1 ELSE 0
           bytes  == IF writeHeld THEN reservation.writeRetained ELSE 0
           refused == \/ l.operations = 0
                      \/ l.retained < reservation.retained
                      \/ l.permits < permit
                      \/ l.writeFrames < frames
                      \/ l.writeRetained < bytes
                      \/ reservation.key \notin l.keys
           released == [l EXCEPT !.operations = @ - 1,
                                 !.retained = @ - reservation.retained,
                                 !.permits = @ - permit,
                                 !.writeFrames = @ - frames,
                                 !.writeRetained = @ - bytes,
                                 !.keys = @ \ {reservation.key}]
<1>1. ReleaseAll(l, reservation, writeHeld, releasePermit)
        = IF refused THEN PoisonLedger(l) ELSE released
  BY DEF ReleaseAll
<1>2. ASSUME ~refused PROVE released \in Ledger
  <2>1. permit \in Nat /\ frames \in Nat /\ bytes \in Nat /\ reservation.retained \in Nat
    BY DEF Reservation
  <2>2. /\ l.operations - 1 \in Nat /\ l.retained - reservation.retained \in Nat
        /\ l.permits - permit \in Nat /\ l.writeFrames - frames \in Nat
        /\ l.writeRetained - bytes \in Nat
    <3> HIDE DEF permit, frames, bytes
    <3> QED BY <1>2, <2>1, LedgerFields
  <2>3. l.keys \ {reservation.key} \subseteq Keys
    BY LedgerFields
  <2> HIDE DEF permit, frames, bytes
  <2> QED
    BY <2>2, <2>3 DEF Ledger
<1> HIDE DEF refused, released
<1> QED
  BY <1>1, <1>2, PoisonLedgerType

LEMMA ReleaseWriteType ==
  ASSUME NEW l \in Ledger, NEW writeRetained \in Nat
  PROVE  ReleaseWrite(l, writeRetained) \in Ledger
<1>1. CASE l.writeFrames = 0 \/ l.writeRetained < writeRetained
  BY <1>1, PoisonLedgerType DEF ReleaseWrite
<1>2. CASE ~(l.writeFrames = 0 \/ l.writeRetained < writeRetained)
  <2>1. l.writeFrames - 1 \in Nat /\ l.writeRetained - writeRetained \in Nat
    BY <1>2, LedgerFields
  <2> QED
    BY <1>2, <2>1 DEF ReleaseWrite, Ledger
<1> QED
  BY <1>1, <1>2

\* What ReleaseRecords computes: it iterates ReleaseOperation over the records.
LEMMA ReleaseRecordsIterates ==
  ASSUME NEW l \in Ledger, NEW records, Len(records) \in Nat,
         \A i \in 1..Len(records) : /\ records[i].reservation \in Reservation
                                    /\ records[i].writeHeld \in BOOLEAN
  PROVE  \E after \in [0..Len(records) -> Ledger] :
           /\ after[0] = l
           /\ \A i \in 1..Len(records) : after[i] = ReleaseOperation(after[i - 1], records[i])
           /\ after[Len(records)] = ReleaseRecords(l, records)
<1> DEFINE n == Len(records)
           Next1(x, i) == ReleaseOperation(x, records[i])
           step == [i \in 1..n |-> [x \in Ledger |-> Next1(x, i)]]
<1>1. \A i \in 1..n : \A x \in Ledger : Next1(x, i) \in Ledger
  BY ReleaseAllType DEF ReleaseOperation
<1>2. ReleaseRecords(l, records)
        = (CHOOSE g : g = [i \in 0..n |-> IF i = 0 THEN l ELSE Next1(g[i - 1], i)])[n]
  BY DEF ReleaseRecords
<1>3. n \in Nat
  OBVIOUS
<1> HIDE DEF n, Next1
<1>4. step \in Steps(Ledger, n)
  BY <1>1 DEF Steps
<1>5. PICK f : IsIteration(f, Ledger, n, l, step)
  <2> HIDE DEF step
  <2> QED BY <1>3, <1>4, IterationExists
<1>6. f = [i \in 0..n |-> IF i = 0 THEN l ELSE Next1(f[i - 1], i)]
  <2>1. /\ f \in [0..n -> Ledger]
        /\ f[0] = l
        /\ \A i \in 1..n : f[i] = step[i][f[i - 1]]
    <3> HIDE DEF step
    <3> QED BY <1>5 DEF IsIteration
  <2>2. \A i \in 1..n : f[i - 1] \in Ledger
    BY <1>3, <2>1
  <2>3. \A i \in 1..n : f[i] = Next1(f[i - 1], i)
    BY <2>1, <2>2
  <2> HIDE DEF step
  <2>4. ASSUME NEW i \in 0..n PROVE f[i] = IF i = 0 THEN l ELSE Next1(f[i - 1], i)
    <3>1. CASE i = 0
      BY <2>1, <3>1
    <3>2. CASE i # 0
      <4>1. i \in 1..n
        BY <1>3, <3>2
      <4> QED
        BY <2>3, <3>2, <4>1
    <3> QED
      BY <3>1, <3>2
  <2> QED
    BY <2>1, <2>4
<1> DEFINE after == CHOOSE g : g = [i \in 0..n |-> IF i = 0 THEN l ELSE Next1(g[i - 1], i)]
           G == {i \in 0..n : after[i] \in Ledger}
<1>7. after = [i \in 0..n |-> IF i = 0 THEN l ELSE Next1(after[i - 1], i)]
  BY <1>6
<1>8. after[n] = ReleaseRecords(l, records)
  BY <1>2
<1> HIDE DEF after
<1>9. 0 \in G
  BY <1>3, <1>7
<1>10. \A i \in 1..n : after[i] = Next1(after[i - 1], i)
  BY <1>3, <1>7
<1>11. ASSUME NEW i \in 0..(n - 1), i \in G PROVE i + 1 \in G
  <2>1. i + 1 \in 0..n /\ i + 1 \in 1..n /\ (i + 1) - 1 = i
    BY <1>3
  <2>2. after[i + 1] = Next1(after[i], i + 1)
    BY <1>10, <2>1
  <2> QED
    BY <1>1, <1>11, <2>1, <2>2
<1>12. 0..n \subseteq G
  <2> HIDE DEF G
  <2> QED
    BY <1>3, <1>9, <1>11, BoundedInduction
<1>13. after \in [0..n -> Ledger]
  BY <1>7, <1>12
<1>14. after[0] = l
  BY <1>3, <1>7
<1> QED
  BY <1>8, <1>10, <1>13, <1>14 DEF n, Next1

LEMMA ReleaseRecordsType ==
  ASSUME NEW l \in Ledger, NEW records, Len(records) \in Nat,
         \A i \in 1..Len(records) : /\ records[i].reservation \in Reservation
                                    /\ records[i].writeHeld \in BOOLEAN
  PROVE  ReleaseRecords(l, records) \in Ledger
<1>1. PICK after \in [0..Len(records) -> Ledger] :
        after[Len(records)] = ReleaseRecords(l, records)
  BY ReleaseRecordsIterates
<1> QED
  BY <1>1

(***************************************************************************)
(* The FIFO.                                                               *)
(***************************************************************************)
LEMMA RemoveAtType ==
  ASSUME NEW S, NEW s \in Seq(S), NEW i \in DOMAIN s
  PROVE  /\ RemoveAt(s, i) \in Seq(S)
         /\ Len(RemoveAt(s, i)) = Len(s) - 1
  BY DEF RemoveAt

LEMMA IndexOfType ==
  ASSUME NEW s, NEW operation, Holds(s, operation)
  PROVE  /\ IndexOf(s, operation) \in DOMAIN s
         /\ s[IndexOf(s, operation)].operation = operation
  BY DEF Holds, IndexOf

LEMMA MachineFields ==
  ASSUME NEW m \in Machine
  PROVE  /\ m.phase \in Phases /\ m.gate \in Gates /\ m.closeReason \in CloseReasons
         /\ m.pending \in Seq(OperationRecord) /\ m.ledger \in Ledger
         /\ m.nextOperation \in OperationSeed..(MaxIdentity + 1)
         /\ m.nextEffect \in EffectSeed..(MaxIdentity + 1)
  BY DEF Machine

LEMMA RecordOfType ==
  ASSUME NEW m \in Machine, NEW operation, Holds(m.pending, operation)
  PROVE  /\ RecordOf(m, operation) \in OperationRecord
         /\ RecordOf(m, operation).operation = operation
         /\ operation \in Operations
<1>1. RecordOf(m, operation) \in OperationRecord
  BY MachineFields, IndexOfType DEF RecordOf
<1>2. RecordOf(m, operation).operation = operation
  BY IndexOfType DEF RecordOf
<1> QED
  BY <1>1, <1>2 DEF OperationRecord

LEMMA RecordFields ==
  ASSUME NEW r \in OperationRecord
  PROVE  /\ r.operation \in Operations /\ r.effect \in Effects /\ r.deadline \in Moments
         /\ r.reservation \in Reservation /\ r.phase \in OperationPhases
         /\ r.completion \in Completions /\ r.delivery \in Deliveries
         /\ r.writeHeld \in BOOLEAN
         /\ r.reservation.retained \in Nat /\ r.reservation.writeRetained \in Nat
  BY DEF OperationRecord, Reservation

LEMMA ReleaseOperationType ==
  ASSUME NEW l \in Ledger, NEW r \in OperationRecord
  PROVE  ReleaseOperation(l, r) \in Ledger
  BY RecordFields, ReleaseAllType DEF ReleaseOperation

\* Machines that differ in FIFO and ledger only.
LEMMA MachineUpdate ==
  ASSUME NEW m \in Machine, NEW pending \in Seq(OperationRecord), NEW l \in Ledger
  PROVE  [m EXCEPT !.pending = pending, !.ledger = l] \in Machine
  BY DEF Machine

LEMMA SetRecordType ==
  ASSUME NEW m \in Machine, NEW operation, NEW r \in OperationRecord,
         Holds(m.pending, operation)
  PROVE  /\ SetRecord(m, operation, r) \in Machine
         /\ SetRecord(m, operation, r).pending # <<>>
         /\ SetRecord(m, operation, r).phase = m.phase
         /\ SetRecord(m, operation, r).gate = m.gate
<1> DEFINE i == IndexOf(m.pending, operation)
<1>1. i \in DOMAIN m.pending /\ m.pending \in Seq(OperationRecord)
  BY IndexOfType, MachineFields
<1> HIDE DEF i
<1>2. /\ [m.pending EXCEPT ![i] = r] \in Seq(OperationRecord)
      /\ [m.pending EXCEPT ![i] = r] # <<>>
  BY <1>1
<1>3. SetRecord(m, operation, r) = [m EXCEPT !.pending = [m.pending EXCEPT ![i] = r]]
  BY DEF SetRecord, i, Machine
<1> QED
  BY <1>2, <1>3 DEF Machine

LEMMA RemoveRecordType ==
  ASSUME NEW m \in Machine, NEW operation, Holds(m.pending, operation)
  PROVE  RemoveRecord(m, operation) \in Machine
<1>1. RemoveAt(m.pending, IndexOf(m.pending, operation)) \in Seq(OperationRecord)
  BY MachineFields, IndexOfType, RemoveAtType
<1>2. ReleaseOperation(m.ledger, RecordOf(m, operation)) \in Ledger
  BY MachineFields, RecordOfType, ReleaseOperationType
<1> QED
  BY <1>1, <1>2, MachineUpdate DEF RemoveRecord

(***************************************************************************)
(* Admission.                                                              *)
(***************************************************************************)
LEMMA NewMachineType == NewMachine \in Machine
<1>1. /\ OperationSeed \in OperationSeed..(MaxIdentity + 1)
      /\ EffectSeed \in EffectSeed..(MaxIdentity + 1)
  BY IdentityAssumption
<1> QED
  BY <1>1, EmptyLedgerType
     DEF NewMachine, Machine, Phases, Gates, CloseReasons, ExternalReasons

LEMMA NewPermitType ==
  ASSUME NEW m \in Machine, NEW now, NEW options, MachineReserves(m, now, options),
         options \in [retained : Nat, writeRetained : Nat, class : Classes,
                      completion : Completions, deadline : Moments]
  PROVE  NewPermit(m, options) \in Permit
<1>1. AllocatedKey(m.ledger) \in Keys
  BY MachineFields, AllocatedKeyFresh DEF MachineReserves, CanReserve
<1>2. m.nextOperation \in Operations /\ m.nextEffect \in Effects
  BY IdentityAssumption, MachineFields
     DEF MachineReserves, IdentityAvailable, Operations, Effects
<1> QED
  BY <1>1, <1>2 DEF NewPermit, Permit, Reservation

LEMMA ReserveMachineType ==
  ASSUME NEW m \in Machine, NEW now, NEW options, MachineReserves(m, now, options),
         options.retained \in Nat, options.writeRetained \in Nat
  PROVE  /\ ReserveMachine(m, options) \in Machine
         /\ ReserveMachine(m, options).pending = m.pending
         /\ ReserveMachine(m, options).phase = m.phase
         /\ ReserveMachine(m, options).gate = m.gate
<1>1. ReserveLedger(m.ledger, options.retained, options.writeRetained) \in Ledger
  BY MachineFields, ReserveLedgerType DEF MachineReserves, CanReserve
<1>2. /\ m.nextOperation + 1 \in OperationSeed..(MaxIdentity + 1)
      /\ m.nextEffect + 1 \in EffectSeed..(MaxIdentity + 1)
  BY IdentityAssumption, MachineFields DEF MachineReserves, IdentityAvailable
<1> QED
  BY <1>1, <1>2 DEF ReserveMachine, Machine

LEMMA CommitPermitType ==
  ASSUME NEW m \in Machine, NEW permit \in Permit, NEW frame, frame.retained \in Nat
  PROVE  /\ CommitPermit(m, permit, frame) \in Machine
         /\ CommitPermit(m, permit, frame).phase = m.phase
         /\ CommitPermit(m, permit, frame).gate = m.gate
         /\ CommitPermit(m, permit, frame).pending # <<>>
<1> DEFINE record ==
      [operation |-> permit.operation, effect |-> permit.effect,
       deadline |-> permit.deadline,
       reservation |-> [permit.reservation EXCEPT !.writeRetained = frame.retained],
       phase |-> "Queued", completion |-> permit.completion,
       delivery |-> "NotSent", writeHeld |-> TRUE]
<1>1. record \in OperationRecord
  BY DEF Permit, OperationRecord, Reservation, OperationPhases, Deliveries
<1>2. permit.reservation \in Reservation
  BY DEF Permit
<1>3. CommitLedger(m.ledger, permit.reservation, frame.retained) \in Ledger
  BY <1>2, MachineFields, CommitLedgerType
<1>4. CommitPermit(m, permit, frame) =
        [m EXCEPT !.ledger = CommitLedger(m.ledger, permit.reservation, frame.retained),
                  !.pending = Append(m.pending, record)]
  BY DEF CommitPermit, Machine
<1> HIDE DEF record
<1>5. Append(m.pending, record) \in Seq(OperationRecord) /\ Append(m.pending, record) # <<>>
  BY <1>1, MachineFields
<1> QED
  BY <1>3, <1>4, <1>5 DEF Machine

(***************************************************************************)
(* Closure and drain completion.                                           *)
(***************************************************************************)
LEMMA TransitionFields ==
  ASSUME NEW t \in Transitions
  PROVE  /\ t.machine \in Machine /\ t.schedule \subseteq Operations \X Moments
         /\ t.cancel \subseteq Operations /\ t.discard \in Seq(OperationRecord)
         /\ t.publish \subseteq Outcomes
  BY DEF Transitions

LEMMA TransitionType ==
  ASSUME NEW m \in Machine
  PROVE  Transition(m) \in Transitions
  BY DEF Transition, Transitions

LEMMA OutcomeType ==
  ASSUME NEW operation \in Operations, NEW kind \in OutcomeKinds,
         NEW delivery \in Deliveries, NEW reply \in Nat
  PROVE  Outcome(operation, kind, delivery, reply) \in Outcomes
  BY DEF Outcome, Outcomes

LEMMA ClosureOutcomesType ==
  ASSUME NEW records \in Seq(OperationRecord), NEW blamed
  PROVE  ClosureOutcomes(records, blamed) \subseteq Outcomes
<1>1. \A i \in DOMAIN records : records[i] \in OperationRecord
  OBVIOUS
<1>2. \A i \in DOMAIN records, kind \in OutcomeKinds :
        Outcome(records[i].operation, kind, records[i].delivery, 0) \in Outcomes
  BY <1>1, RecordFields, OutcomeType
<1>3. "MatchKeyMismatch" \in OutcomeKinds /\ "ConnectionClosed" \in OutcomeKinds
  BY DEF OutcomeKinds
<1> QED
  BY <1>2, <1>3 DEF ClosureOutcomes

\* Closing leaves a typed transition; from a live machine it leaves Live.
LEMMA CloseIntoType ==
  ASSUME NEW t \in Transitions, NEW reason \in CloseReasons, NEW blamed
  PROVE  /\ CloseInto(t, reason, blamed) \in Transitions
         /\ CloseInto(t, reason, blamed).machine.phase # "Live"
<1> DEFINE m == t.machine
           closed == [m EXCEPT !.gate = "Closed", !.phase = "Closing",
                               !.closeReason = reason, !.pending = <<>>,
                               !.ledger = ReleaseRecords(m.ledger, m.pending)]
           cancelled == {m.pending[i].operation : i \in DOMAIN m.pending}
<1>1. m \in Machine /\ m.pending \in Seq(OperationRecord) /\ m.ledger \in Ledger
  BY TransitionFields, MachineFields
<1>2. CASE m.phase # "Live"
  BY <1>2 DEF CloseInto
<1>3. CASE m.phase = "Live"
  <2>1. ReleaseRecords(m.ledger, m.pending) \in Ledger
    <3>1. Len(m.pending) \in Nat /\ \A i \in 1..Len(m.pending) : m.pending[i] \in OperationRecord
      BY <1>1
    <3>2. \A i \in 1..Len(m.pending) : /\ m.pending[i].reservation \in Reservation
                                       /\ m.pending[i].writeHeld \in BOOLEAN
      BY <3>1, RecordFields
    <3> HIDE DEF m
    <3> QED
      BY <1>1, <3>1, <3>2, ReleaseRecordsType
  <2>2. closed \in Machine /\ closed.phase = "Closing"
    <3>1. "Closed" \in Gates /\ "Closing" \in Phases /\ <<>> \in Seq(OperationRecord)
      BY DEF Gates, Phases
    <3> DEFINE l == ReleaseRecords(m.ledger, m.pending)
    <3> HIDE DEF m, l
    <3>2. /\ [m EXCEPT !.gate = "Closed", !.phase = "Closing", !.closeReason = reason,
                       !.pending = <<>>, !.ledger = l] \in Machine
          /\ [m EXCEPT !.gate = "Closed", !.phase = "Closing", !.closeReason = reason,
                       !.pending = <<>>, !.ledger = l].phase = "Closing"
      <4>1. l \in Ledger
        BY <2>1 DEF l
      <4> QED
        BY <1>1, <3>1, <4>1 DEF Machine
    <3> QED
      BY <3>2 DEF l
  <2>3. cancelled \subseteq Operations
    <3>1. \A i \in DOMAIN m.pending : m.pending[i] \in OperationRecord
      BY <1>1
    <3> HIDE DEF m
    <3> QED
      BY <3>1, RecordFields
  <2>4. ClosureOutcomes(m.pending, blamed) \subseteq Outcomes
    BY <1>1, ClosureOutcomesType
  <2>5. CloseInto(t, reason, blamed) =
          [t EXCEPT !.machine = closed, !.cancel = t.cancel \cup cancelled,
                    !.discard = t.discard \o m.pending,
                    !.publish = t.publish \cup ClosureOutcomes(m.pending, blamed)]
    BY <1>3, <1>1 DEF CloseInto, Machine, Transitions
  <2>6. /\ t.cancel \cup cancelled \in SUBSET Operations
        /\ t.discard \o m.pending \in Seq(OperationRecord)
        /\ t.publish \cup ClosureOutcomes(m.pending, blamed) \in SUBSET Outcomes
    <3> HIDE DEF m, cancelled
    <3> QED
      BY <1>1, <2>3, <2>4, TransitionFields
  <2> HIDE DEF closed, cancelled, m
  <2> QED
    BY <2>2, <2>5, <2>6 DEF Transitions
<1> QED
  BY <1>2, <1>3

LEMMA FinishDrainType ==
  ASSUME NEW t \in Transitions
  PROVE  /\ FinishDrain(t) \in Transitions
         /\ FinishDrain(t).machine.phase = "Live"
            => /\ FinishDrain(t) = t
               /\ t.machine.gate = "Draining" => t.machine.pending # <<>>
<1>1. "Drained" \in CloseReasons
  BY DEF CloseReasons
<1> QED
  BY <1>1, CloseIntoType DEF FinishDrain

(***************************************************************************)
(* Handlers.  Besides its type, each keeps a drain from idling.            *)
(***************************************************************************)

\* A live machine that drains still has an operation to wait for.
DrainWaits(m) == m.phase = "Live" /\ m.gate = "Draining" => m.pending # <<>>

LEMMA FinishDrainWaits ==
  ASSUME NEW t \in Transitions
  PROVE  FinishDrain(t) \in Transitions /\ DrainWaits(FinishDrain(t).machine)
  BY FinishDrainType DEF DrainWaits

LEMMA ClosingWaits ==
  ASSUME NEW t \in Transitions, NEW reason \in CloseReasons, NEW blamed
  PROVE  /\ CloseInto(t, reason, blamed) \in Transitions
         /\ DrainWaits(CloseInto(t, reason, blamed).machine)
  BY CloseIntoType DEF DrainWaits

LEMMA RemoveNotSentType ==
  ASSUME NEW m \in Machine, NEW operation, NEW kind \in OutcomeKinds,
         Holds(m.pending, operation)
  PROVE  /\ RemoveNotSent(m, operation, kind) \in Transitions
         /\ DrainWaits(RemoveNotSent(m, operation, kind).machine)
<1> DEFINE record == RecordOf(m, operation)
           left == RemoveRecord(m, operation)
           outcome == Outcome(operation, kind, "NotSent", 0)
           t == [Transition(left) EXCEPT !.discard = <<record>>, !.cancel = {operation},
                                         !.publish = {outcome}]
<1>1. left \in Machine /\ record \in OperationRecord /\ operation \in Operations
  BY RemoveRecordType, RecordOfType
<1>2. outcome \in Outcomes
  BY <1>1, OutcomeType DEF Deliveries
<1>3. RemoveNotSent(m, operation, kind) = FinishDrain(t)
  BY DEF RemoveNotSent
<1> HIDE DEF record, left, outcome
<1>4. t \in Transitions
  <2>1. /\ <<record>> \in Seq(OperationRecord) /\ {operation} \in SUBSET Operations
        /\ {outcome} \in SUBSET Outcomes
    BY <1>1, <1>2
  <2> QED
    BY <1>1, <2>1 DEF Transition, Transitions
<1> HIDE DEF t
<1> QED
  BY <1>3, <1>4, FinishDrainWaits

LEMMA OnOpenAdmissionType ==
  ASSUME NEW m \in Machine, DrainWaits(m)
  PROVE  /\ OnOpenAdmission(m) \in Transitions
         /\ DrainWaits(OnOpenAdmission(m).machine)
<1> DEFINE opened == IF m.phase = "Live" /\ m.gate = "SessionOnly"
                     THEN [m EXCEPT !.gate = "Open"] ELSE m
<1>1. opened \in Machine /\ DrainWaits(opened)
  BY DEF Machine, Gates, DrainWaits
<1>2. OnOpenAdmission(m) = Transition(opened)
  BY DEF OnOpenAdmission
<1> HIDE DEF opened
<1> QED
  BY <1>1, <1>2, TransitionType DEF Transition

LEMMA OnCancelType ==
  ASSUME NEW m \in Machine, DrainWaits(m), NEW operation
  PROVE  /\ OnCancel(m, operation) \in Transitions
         /\ DrainWaits(OnCancel(m, operation).machine)
<1> DEFINE record == RecordOf(m, operation)
           tomb == [record EXCEPT !.phase = "Terminal"]
           marked == SetRecord(m, operation, tomb)
           outcome == Outcome(operation, "Cancelled", "PossiblySent", 0)
           t == [Transition(marked) EXCEPT !.publish = {outcome}]
<1>1. CASE ~Holds(m.pending, operation) \/ record.phase = "Terminal"
  BY <1>1, TransitionType DEF OnCancel, Transition
<1>2. CASE Holds(m.pending, operation) /\ record.phase # "Terminal" /\ record.delivery = "NotSent"
  BY <1>2, RemoveNotSentType DEF OnCancel, OutcomeKinds
<1>3. CASE Holds(m.pending, operation) /\ record.phase # "Terminal" /\ record.delivery # "NotSent"
  <2>1. record \in OperationRecord /\ operation \in Operations
    BY <1>3, RecordOfType
  <2>2. tomb \in OperationRecord
    <3> HIDE DEF record
    <3> QED BY <2>1 DEF OperationRecord, OperationPhases
  <2>3. marked \in Machine /\ marked.pending # <<>>
    <3> HIDE DEF tomb
    <3> QED BY <1>3, <2>2, SetRecordType
  <2>4. outcome \in Outcomes
    BY <2>1, OutcomeType DEF OutcomeKinds, Deliveries
  <2>5. OnCancel(m, operation) = t
    BY <1>3 DEF OnCancel
  <2> HIDE DEF marked, outcome
  <2>6. t \in Transitions /\ t.machine = marked
    <3>1. {outcome} \in SUBSET Outcomes
      BY <2>4
    <3>2. Transition(marked) \in Transitions /\ Transition(marked).machine = marked
      BY <2>3, TransitionType DEF Transition
    <3> QED
      BY <3>1, <3>2 DEF Transitions
  <2> QED
    BY <2>3, <2>5, <2>6 DEF DrainWaits
<1> QED
  BY <1>1, <1>2, <1>3

LEMMA OnDeadlineElapsedType ==
  ASSUME NEW m \in Machine, DrainWaits(m), NEW operation, NEW now
  PROVE  /\ OnDeadlineElapsed(m, operation, now) \in Transitions
         /\ DrainWaits(OnDeadlineElapsed(m, operation, now).machine)
<1> DEFINE record == RecordOf(m, operation)
           early == ~IsElapsedAt(record.deadline, now)
           t == [Transition(m) EXCEPT !.schedule = {<<operation, record.deadline>>}]
<1>1. CASE ~Holds(m.pending, operation)
  BY <1>1, TransitionType DEF OnDeadlineElapsed, Transition
<1>2. CASE Holds(m.pending, operation) /\ early
  <2>1. record.deadline \in Moments /\ operation \in Operations
    BY <1>2, RecordOfType, RecordFields
  <2>2. {<<operation, record.deadline>>} \in SUBSET (Operations \X Moments)
    BY <2>1
  <2>3. Transition(m) \in Transitions /\ Transition(m).machine = m
    BY TransitionType DEF Transition
  <2>4. OnDeadlineElapsed(m, operation, now) = t
    BY <1>2 DEF OnDeadlineElapsed
  <2> HIDE DEF record
  <2>5. t \in Transitions /\ t.machine = m
    BY <2>2, <2>3 DEF Transitions
  <2> QED
    BY <2>4, <2>5
<1>3. CASE Holds(m.pending, operation) /\ ~early /\ record.delivery = "PossiblySent"
  <2>1. "DeadlineAfterPossibleSend" \in CloseReasons
    BY DEF CloseReasons
  <2> QED
    BY <1>3, <2>1, TransitionType, ClosingWaits DEF OnDeadlineElapsed
<1>4. CASE Holds(m.pending, operation) /\ ~early /\ record.delivery # "PossiblySent"
  BY <1>4, RemoveNotSentType DEF OnDeadlineElapsed, OutcomeKinds
<1> QED
  BY <1>1, <1>2, <1>3, <1>4

LEMMA OnReplyType ==
  ASSUME NEW m \in Machine, DrainWaits(m), NEW key, NEW reply \in Nat
  PROVE  /\ OnReply(m, key, reply) \in Transitions
         /\ DrainWaits(OnReply(m, key, reply).machine)
<1> DEFINE front == m.pending[1]
           left == [m EXCEPT !.pending = Tail(m.pending),
                             !.ledger = ReleaseAll(m.ledger, front.reservation, FALSE, FALSE)]
           told == IF front.phase = "Terminal" THEN {}
                   ELSE {Outcome(front.operation, "Reply", front.delivery, reply)}
           t == [Transition(left) EXCEPT !.cancel = {front.operation}, !.publish = told]
<1>1. /\ "UnexpectedReply" \in CloseReasons /\ "MatchKeyMismatch" \in CloseReasons
      /\ "Reply" \in OutcomeKinds
  BY DEF CloseReasons, OutcomeKinds
<1>2. CASE m.phase # "Live"
  BY <1>2, TransitionType DEF OnReply, Transition
<1>3. CASE m.phase = "Live" /\ ~FrontAwaitsReply(m)
  BY <1>1, <1>3, TransitionType, ClosingWaits DEF OnReply
<1>4. CASE m.phase = "Live" /\ FrontAwaitsReply(m) /\ key # front.reservation.key
  BY <1>1, <1>4, TransitionType, ClosingWaits DEF OnReply
<1>5. CASE m.phase = "Live" /\ FrontAwaitsReply(m) /\ key = front.reservation.key
  <2>1. m.pending # <<>> /\ m.pending \in Seq(OperationRecord)
    BY <1>5, MachineFields DEF FrontAwaitsReply
  <2>2. front \in OperationRecord /\ Tail(m.pending) \in Seq(OperationRecord)
    BY <2>1
  <2>3. ReleaseAll(m.ledger, front.reservation, FALSE, FALSE) \in Ledger
    <3> HIDE DEF front
    <3> QED BY <2>2, MachineFields, RecordFields, ReleaseAllType
  <2>4. left \in Machine
    BY <2>2, <2>3, MachineUpdate
  <2>5. told \in SUBSET Outcomes /\ {front.operation} \in SUBSET Operations
    <3> HIDE DEF front
    <3> QED BY <1>1, <2>2, RecordFields, OutcomeType
  <2>6. OnReply(m, key, reply) = FinishDrain(t)
    BY <1>5 DEF OnReply, Machine
  <2> HIDE DEF front, left, told
  <2>7. t \in Transitions
    <3>1. Transition(left) \in Transitions
      BY <2>4, TransitionType
    <3> QED
      BY <2>5, <3>1 DEF Transitions
  <2> HIDE DEF t
  <2> QED
    BY <2>6, <2>7, FinishDrainWaits
<1> QED
  BY <1>2, <1>3, <1>4, <1>5

LEMMA OnReplyMalformedType ==
  ASSUME NEW m \in Machine
  PROVE  OnReplyMalformed(m) \in Transitions /\ DrainWaits(OnReplyMalformed(m).machine)
<1>1. "MalformedReply" \in CloseReasons
  BY DEF CloseReasons
<1> QED
  BY <1>1, TransitionType, ClosingWaits DEF OnReplyMalformed

LEMMA OnCloseRequestedType ==
  ASSUME NEW m \in Machine, NEW reason \in ExternalReasons
  PROVE  /\ OnCloseRequested(m, reason) \in Transitions
         /\ DrainWaits(OnCloseRequested(m, reason).machine)
<1>1. reason \in CloseReasons
  BY DEF CloseReasons
<1> QED
  BY <1>1, TransitionType, ClosingWaits DEF OnCloseRequested

LEMMA OnBeginDrainType ==
  ASSUME NEW m \in Machine, DrainWaits(m)
  PROVE  OnBeginDrain(m) \in Transitions /\ DrainWaits(OnBeginDrain(m).machine)
<1> DEFINE draining == [m EXCEPT !.gate = "Draining"]
<1>1. draining \in Machine
  BY DEF Machine, Gates
<1>2. Transition(draining) \in Transitions
  BY <1>1, TransitionType
<1>3. Transition(m) \in Transitions /\ Transition(m).machine = m
  BY TransitionType DEF Transition
<1> HIDE DEF draining
<1> QED
  BY <1>2, <1>3, FinishDrainWaits DEF OnBeginDrain, draining

LEMMA OnEpochClosedType ==
  ASSUME NEW m \in Machine, DrainWaits(m)
  PROVE  OnEpochClosed(m) \in Transitions /\ DrainWaits(OnEpochClosed(m).machine)
<1> DEFINE closed == IF m.phase = "Closing"
                     THEN [m EXCEPT !.phase = "Closed", !.gate = "Closed"] ELSE m
<1>1. closed \in Machine /\ DrainWaits(closed)
  BY DEF Machine, Gates, Phases, DrainWaits
<1>2. OnEpochClosed(m) = Transition(closed)
  BY DEF OnEpochClosed
<1> HIDE DEF closed
<1> QED
  BY <1>1, <1>2, TransitionType DEF Transition

LEMMA WriteStartedType ==
  ASSUME NEW m \in Machine, NEW operation, Holds(m.pending, operation)
  PROVE  /\ WriteStarted(m, operation) \in Machine
         /\ DrainWaits(WriteStarted(m, operation))
         /\ WriteStarted(m, operation).pending # <<>>
<1> DEFINE record == RecordOf(m, operation)
           started == [record EXCEPT !.delivery = "PossiblySent", !.phase = "Writing"]
<1>1. record \in OperationRecord
  BY RecordOfType
<1>2. started \in OperationRecord
  <2> HIDE DEF record
  <2> QED BY <1>1 DEF OperationRecord, OperationPhases, Deliveries
<1> HIDE DEF started
<1> QED
  BY <1>2, SetRecordType DEF WriteStarted, started, DrainWaits

LEMMA OnWriteCompletedType ==
  ASSUME NEW m \in Machine, NEW operation, Holds(m.pending, operation)
  PROVE  /\ OnWriteCompleted(m, operation) \in Transitions
         /\ DrainWaits(OnWriteCompleted(m, operation).machine)
<1> DEFINE record == RecordOf(m, operation)
           l == ReleaseWrite(m.ledger, record.reservation.writeRetained)
           released == [m EXCEPT !.ledger = l]
           waiting == [record EXCEPT !.phase = IF record.phase = "Terminal" THEN "Terminal"
                                               ELSE "AwaitingReply",
                                     !.writeHeld = FALSE]
           left == [released EXCEPT
                      !.pending = RemoveAt(m.pending, IndexOf(m.pending, operation)),
                      !.ledger = ReleaseAll(l, record.reservation, FALSE, FALSE)]
           told == IF record.phase = "Terminal" THEN {}
                   ELSE {Outcome(operation, "WriteComplete", record.delivery, 0)}
           t == [Transition(left) EXCEPT !.cancel = {operation}, !.publish = told]
<1>1. record \in OperationRecord /\ operation \in Operations
  BY RecordOfType
<1>2. l \in Ledger
  <2> HIDE DEF record
  <2> QED BY <1>1, MachineFields, RecordFields, ReleaseWriteType
<1>3. released \in Machine /\ released.pending = m.pending
  <2> HIDE DEF l
  <2> QED BY <1>2 DEF Machine
<1>4. CASE record.completion = "ReplyExpected"
  <2>1. waiting \in OperationRecord
    <3> HIDE DEF record
    <3> QED BY <1>1 DEF OperationRecord, OperationPhases
  <2>2. OnWriteCompleted(m, operation) = Transition(SetRecord(released, operation, waiting))
    <3>1. waiting = [record EXCEPT !.phase = IF @ = "Terminal" THEN @ ELSE "AwaitingReply",
                                   !.writeHeld = FALSE]
      <4> HIDE DEF record
      <4> QED BY <1>1 DEF OperationRecord
    <3>2. released = [m EXCEPT !.ledger = ReleaseWrite(@, record.reservation.writeRetained)]
      BY DEF Machine
    <3> QED
      BY <1>4, <3>1, <3>2 DEF OnWriteCompleted
  <2> HIDE DEF released, waiting
  <2>3. SetRecord(released, operation, waiting) \in Machine
        /\ SetRecord(released, operation, waiting).pending # <<>>
    BY <1>3, <2>1, SetRecordType
  <2> QED
    BY <2>2, <2>3, TransitionType DEF Transition, DrainWaits
<1>5. CASE record.completion # "ReplyExpected"
  <2>1. RemoveAt(m.pending, IndexOf(m.pending, operation)) \in Seq(OperationRecord)
    BY MachineFields, IndexOfType, RemoveAtType
  <2>2. ReleaseAll(l, record.reservation, FALSE, FALSE) \in Ledger
    <3> HIDE DEF l, record
    <3> QED BY <1>1, <1>2, RecordFields, ReleaseAllType
  <2>3. left \in Machine
    <3> HIDE DEF released, l, record
    <3> QED BY <1>3, <2>1, <2>2, MachineUpdate
  <2>4. told \in SUBSET Outcomes /\ {operation} \in SUBSET Operations
    <3> HIDE DEF record
    <3> QED BY <1>1, RecordFields, OutcomeType DEF OutcomeKinds
  <2>5. OnWriteCompleted(m, operation) = FinishDrain(t)
    <3>1. released = [m EXCEPT !.ledger = ReleaseWrite(@, record.reservation.writeRetained)]
      BY DEF Machine
    <3>2. left = [released EXCEPT
                    !.pending = RemoveAt(@, IndexOf(@, operation)),
                    !.ledger = ReleaseAll(@, record.reservation, FALSE, FALSE)]
      BY <1>3 DEF Machine
    <3> QED
      BY <1>5, <3>1, <3>2 DEF OnWriteCompleted
  <2> HIDE DEF left, told
  <2>6. t \in Transitions
    <3>1. Transition(left) \in Transitions
      BY <2>3, TransitionType
    <3> QED
      BY <2>4, <3>1 DEF Transitions
  <2> HIDE DEF t
  <2> QED
    BY <2>5, <2>6, FinishDrainWaits
<1> QED
  BY <1>4, <1>5

(***************************************************************************)
(* Sums over finite sets of reservations.                                  *)
(***************************************************************************)
Pick(s) == CHOOSE x \in s : TRUE

\* The recursion Total is defined by, as a property of the function it chooses.
IsTotal(g, field, S) ==
  /\ g \in [SUBSET S -> Nat]
  /\ g[{}] = 0
  /\ \A s \in SUBSET S : s # {} => g[s] = Pick(s)[2][field] + g[s \ {Pick(s)}]

Countable(field, S) == IsFiniteSet(S) /\ \A x \in S : x[2][field] \in Nat

LEMMA SmallerSubset ==
  ASSUME NEW S, IsFiniteSet(S), NEW s \in SUBSET S, NEW x \in s
  PROVE  /\ IsFiniteSet(s) /\ Cardinality(s) \in Nat
         /\ s \ {x} \in SUBSET S /\ IsFiniteSet(s \ {x})
         /\ Cardinality(s \ {x}) = Cardinality(s) - 1
         /\ Cardinality(s) > 0
<1>1. IsFiniteSet(s)
  BY FS_Subset
<1>2. IsFiniteSet(s \ {x}) /\ Cardinality(s \ {x}) = Cardinality(s) - 1
  BY <1>1, FS_RemoveElement
<1>3. Cardinality(s) \in Nat /\ Cardinality(s \ {x}) \in Nat
  BY <1>1, <1>2, FS_CardinalityType
<1> QED
  BY <1>1, <1>2, <1>3

LEMMA TotalExists ==
  ASSUME NEW field, NEW S, Countable(field, S)
  PROVE  \E g : IsTotal(g, field, S)
<1> DEFINE n == Cardinality(S)
           Small(k) == {s \in SUBSET S : Cardinality(s) <= k}
           Sums(g, k) ==
             /\ g[{}] = 0
             /\ \A s \in Small(k) : s # {} => g[s] = Pick(s)[2][field] + g[s \ {Pick(s)}]
           G == {k \in 0..n : \E g \in [Small(k) -> Nat] : Sums(g, k)}
<1>1. n \in Nat /\ IsFiniteSet(S) /\ \A x \in S : x[2][field] \in Nat
  BY FS_CardinalityType DEF Countable
<1>2. \A s \in SUBSET S : IsFiniteSet(s) /\ Cardinality(s) \in Nat /\ Cardinality(s) <= n
  BY <1>1, FS_Subset, FS_CardinalityType
<1>3. ASSUME NEW s \in SUBSET S, s # {}
      PROVE  /\ Pick(s) \in s /\ Pick(s)[2][field] \in Nat
             /\ s \ {Pick(s)} \in SUBSET S
             /\ Cardinality(s \ {Pick(s)}) = Cardinality(s) - 1
  <2>1. Pick(s) \in s
    BY <1>3 DEF Pick
  <2> QED
    BY <1>1, <2>1, SmallerSubset
<1>4. Cardinality({}) = 0
  BY FS_EmptySet
<1> HIDE DEF n
<1>5. 0 \in G
  <2> DEFINE g == [s \in Small(0) |-> 0]
  <2>1. \A s \in Small(0) : s = {}
    <3> SUFFICES ASSUME NEW s \in Small(0), s # {} PROVE FALSE
      OBVIOUS
    <3>1. Cardinality(s \ {Pick(s)}) = Cardinality(s) - 1 /\ s \ {Pick(s)} \in SUBSET S
      BY <1>3
    <3> QED
      BY <1>2, <3>1
  <2>2. {} \in Small(0)
    BY <1>4
  <2>3. g \in [Small(0) -> Nat] /\ g[{}] = 0
    BY <2>2
  <2>4. Sums(g, 0)
    BY <2>1, <2>3
  <2> HIDE DEF Small, g, Sums
  <2> QED
    BY <1>1, <2>3, <2>4
<1>6. ASSUME NEW k \in 0..(n - 1), k \in G PROVE k + 1 \in G
  <2>1. PICK f \in [Small(k) -> Nat] : Sums(f, k)
    BY <1>6
  <2> DEFINE g == [s \in Small(k + 1) |->
                     IF s = {} THEN 0 ELSE Pick(s)[2][field] + f[s \ {Pick(s)}]]
  <2>2. ASSUME NEW s \in Small(k + 1), s # {} PROVE s \ {Pick(s)} \in Small(k)
    BY <1>1, <1>2, <1>3, <2>2
  <2>3. g \in [Small(k + 1) -> Nat]
    <3>1. ASSUME NEW s \in Small(k + 1), s # {}
          PROVE  Pick(s)[2][field] + f[s \ {Pick(s)}] \in Nat
      <4>1. f[s \ {Pick(s)}] \in Nat /\ Pick(s)[2][field] \in Nat
        BY <1>3, <2>2, <3>1
      <4> QED
        BY <4>1
    <3> HIDE DEF Small
    <3> QED
      BY <3>1
  <2>4. {} \in Small(k + 1) /\ {} \in Small(k)
    BY <1>1, <1>4
  <2>5. \A s \in Small(k) : s \in Small(k + 1) /\ g[s] = f[s]
    <3> TAKE s \in Small(k)
    <3>1. s \in Small(k + 1)
      BY <1>1, <1>2
    <3> HIDE DEF Small
    <3> QED
      BY <2>1, <3>1
  <2>6. Sums(g, k + 1)
    <3> HIDE DEF Small
    <3> QED
      BY <2>2, <2>4, <2>5
  <2>7. k + 1 \in 0..n
    BY <1>1
  <2> HIDE DEF Small, g, Sums
  <2> QED
    BY <2>3, <2>6, <2>7
<1>7. n \in G
  <2> HIDE DEF G
  <2>1. 0..n \subseteq G
    BY <1>1, <1>5, <1>6, BoundedInduction
  <2> QED
    BY <1>1, <2>1
<1>8. Small(n) = SUBSET S
  BY <1>2
<1> QED
  BY <1>7, <1>8 DEF IsTotal

\* Total is what any function that satisfies the recursion says.
LEMMA TotalIs ==
  ASSUME NEW field, NEW S, Countable(field, S), NEW g, IsTotal(g, field, S)
  PROVE  Total(field, S) = g[S]
<1> DEFINE Recurs(f) == f = [s \in SUBSET S |->
                               IF s = {} THEN 0 ELSE Pick(s)[2][field] + f[s \ {Pick(s)}]]
           iter == CHOOSE f : Recurs(f)
<1>1. Total(field, S) = iter[S]
  BY DEF Total, MapThenSumSet, MapThenFoldSet, Pick
<1>2. Recurs(g)
  BY DEF IsTotal
<1>3. Recurs(iter)
  BY <1>2
<1> DEFINE n == Cardinality(S)
           G == {k \in 0..n : \A s \in SUBSET S : Cardinality(s) = k => iter[s] = g[s]}
<1>4. n \in Nat /\ IsFiniteSet(S)
  BY FS_CardinalityType DEF Countable
<1>5. \A s \in SUBSET S : Cardinality(s) \in 0..n
  BY <1>4, FS_Subset, FS_CardinalityType
<1> HIDE DEF iter, n
<1>6. iter[{}] = 0 /\ \A s \in SUBSET S : s # {} =>
        iter[s] = Pick(s)[2][field] + iter[s \ {Pick(s)}]
  BY <1>3
<1>7. 0 \in G
  <2>1. ASSUME NEW s \in SUBSET S, Cardinality(s) = 0 PROVE s = {}
    BY <1>4, <2>1, FS_Subset, FS_EmptySet
  <2>2. iter[{}] = g[{}]
    BY <1>6 DEF IsTotal
  <2>3. 0 \in 0..n
    BY <1>4
  <2> HIDE DEF Recurs
  <2> QED
    BY <2>1, <2>2, <2>3
<1>8. ASSUME NEW k \in 0..(n - 1), k \in G PROVE k + 1 \in G
  <2>1. ASSUME NEW s \in SUBSET S, Cardinality(s) = k + 1 PROVE iter[s] = g[s]
    <3>1. s # {}
      BY <1>4, <2>1, FS_EmptySet
    <3>2. Pick(s) \in s
      BY <3>1 DEF Pick
    <3>3. s \ {Pick(s)} \in SUBSET S /\ Cardinality(s \ {Pick(s)}) = k
      <4>1. s \ {Pick(s)} \in SUBSET S /\ Cardinality(s \ {Pick(s)}) = Cardinality(s) - 1
        BY <1>4, <3>2, SmallerSubset
      <4> QED
        BY <2>1, <4>1
    <3>4. iter[s \ {Pick(s)}] = g[s \ {Pick(s)}]
      BY <1>8, <3>3
    <3> QED
      BY <1>6, <3>1, <3>4 DEF IsTotal
  <2> QED
    BY <1>4, <2>1
<1>9. S \in SUBSET S /\ Cardinality(S) \in G
  <2> HIDE DEF G
  <2>1. 0..n \subseteq G
    BY <1>4, <1>7, <1>8, BoundedInduction
  <2> QED
    BY <1>5, <2>1
<1>10. iter[S] = g[S]
  BY <1>9
<1> QED
  BY <1>1, <1>10

\* Any element may be taken out first.
LEMMA TotalTakes ==
  ASSUME NEW field, NEW S, Countable(field, S), NEW g, IsTotal(g, field, S)
  PROVE  \A s \in SUBSET S : \A x \in s : g[s] = x[2][field] + g[s \ {x}]
<1> DEFINE n == Cardinality(S)
           G == {k \in 0..n : \A s \in SUBSET S : Cardinality(s) = k =>
                   \A x \in s : g[s] = x[2][field] + g[s \ {x}]}
<1>1. n \in Nat /\ IsFiniteSet(S) /\ \A x \in S : x[2][field] \in Nat
  BY FS_CardinalityType DEF Countable
<1>2. \A s \in SUBSET S : Cardinality(s) \in 0..n
  BY <1>1, FS_Subset, FS_CardinalityType
<1> HIDE DEF n
<1>3. 0 \in G
  <2>1. ASSUME NEW s \in SUBSET S, Cardinality(s) = 0 PROVE s = {}
    BY <1>1, <2>1, FS_Subset, FS_EmptySet
  <2> QED
    BY <1>1, <2>1
<1>4. ASSUME NEW k \in 0..(n - 1), k \in G PROVE k + 1 \in G
  <2>1. ASSUME NEW s \in SUBSET S, Cardinality(s) = k + 1, NEW x \in s
        PROVE  g[s] = x[2][field] + g[s \ {x}]
    <3> DEFINE c == Pick(s)
    <3>1. c \in s /\ g[s] = c[2][field] + g[s \ {c}]
      BY DEF Pick, IsTotal
    <3> HIDE DEF c
    <3>2. CASE c = x
      BY <3>1, <3>2
    <3>3. CASE c # x
      <4>1. /\ s \ {c} \in SUBSET S /\ Cardinality(s \ {c}) = k
            /\ s \ {x} \in SUBSET S /\ Cardinality(s \ {x}) = k
        <5>1. \A y \in s : s \ {y} \in SUBSET S /\ Cardinality(s \ {y}) = Cardinality(s) - 1
          BY <1>1, SmallerSubset
        <5> QED
          BY <2>1, <3>1, <5>1
      <4>2. g[s \ {c}] = x[2][field] + g[(s \ {c}) \ {x}]
        BY <1>4, <3>3, <4>1
      <4>3. g[s \ {x}] = c[2][field] + g[(s \ {x}) \ {c}]
        BY <1>4, <3>1, <3>3, <4>1
      <4>4. (s \ {c}) \ {x} = (s \ {x}) \ {c} /\ (s \ {c}) \ {x} \in SUBSET S
        OBVIOUS
      <4>5. g[(s \ {c}) \ {x}] \in Nat /\ x[2][field] \in Nat /\ c[2][field] \in Nat
        BY <1>1, <3>1, <4>4 DEF IsTotal
      <4>6. g[s] = c[2][field] + (x[2][field] + g[(s \ {c}) \ {x}])
        BY <3>1, <4>2
      <4>7. g[s \ {x}] = c[2][field] + g[(s \ {c}) \ {x}]
        BY <4>3, <4>4
      <4> QED
        BY <4>5, <4>6, <4>7
    <3> QED
      BY <3>2, <3>3
  <2> QED
    BY <1>1, <2>1
<1>5. 0..n \subseteq G
  <2> HIDE DEF G
  <2> QED
    BY <1>1, <1>3, <1>4, BoundedInduction
<1> QED
  BY <1>2, <1>5

LEMMA TotalEmpty == ASSUME NEW field PROVE Total(field, {}) = 0
<1>1. Countable(field, {})
  BY FS_EmptySet DEF Countable
<1>2. PICK g : IsTotal(g, field, {})
  BY <1>1, TotalExists
<1> QED
  BY <1>1, <1>2, TotalIs DEF IsTotal

LEMMA TotalType ==
  ASSUME NEW field, NEW S, Countable(field, S)
  PROVE  Total(field, S) \in Nat
<1>1. PICK g : IsTotal(g, field, S)
  BY TotalExists
<1>2. g[S] \in Nat
  BY <1>1 DEF IsTotal
<1> QED
  BY <1>1, <1>2, TotalIs

LEMMA TotalRemove ==
  ASSUME NEW field, NEW S, Countable(field, S), NEW x \in S
  PROVE  /\ Countable(field, S \ {x})
         /\ Total(field, S) = x[2][field] + Total(field, S \ {x})
<1> DEFINE T == S \ {x}
<1>1. PICK g : IsTotal(g, field, S)
  BY TotalExists
<1>2. Countable(field, T)
  BY FS_RemoveElement DEF Countable
<1> DEFINE h == [s \in SUBSET T |-> g[s]]
<1>3. IsTotal(h, field, T)
  <2>1. SUBSET T \subseteq SUBSET S
    OBVIOUS
  <2>2. h \in [SUBSET T -> Nat] /\ h[{}] = 0
    BY <1>1, <2>1 DEF IsTotal
  <2>3. ASSUME NEW s \in SUBSET T, s # {}
        PROVE  h[s] = Pick(s)[2][field] + h[s \ {Pick(s)}]
    <3>1. s \ {Pick(s)} \in SUBSET T
      OBVIOUS
    <3> QED
      BY <1>1, <2>1, <2>3, <3>1 DEF IsTotal
  <2> HIDE DEF h, T
  <2> QED
    BY <2>2, <2>3 DEF IsTotal
<1>4. Total(field, T) = g[T]
  <2>1. h[T] = g[T]
    OBVIOUS
  <2> HIDE DEF h, T
  <2> QED
    BY <1>2, <1>3, <2>1, TotalIs
<1>5. Total(field, S) = g[S]
  BY <1>1, TotalIs
<1>6. g[S] = x[2][field] + g[T]
  BY <1>1, TotalTakes
<1> QED
  BY <1>2, <1>4, <1>5, <1>6

LEMMA TotalAdd ==
  ASSUME NEW field, NEW S, Countable(field, S), NEW x, x \notin S, x[2][field] \in Nat
  PROVE  /\ Countable(field, S \cup {x})
         /\ Total(field, S \cup {x}) = Total(field, S) + x[2][field]
<1>1. Countable(field, S \cup {x})
  BY FS_AddElement DEF Countable
<1>2. (S \cup {x}) \ {x} = S
  OBVIOUS
<1>3. Total(field, S \cup {x}) = x[2][field] + Total(field, S)
  BY <1>1, <1>2, TotalRemove
<1> QED
  BY <1>1, <1>3, TotalType

(***************************************************************************)
(* A ledger that counts the reservations R, of which those in W still pay  *)
(* for a frame, and k outstanding permits.                                 *)
(***************************************************************************)
Pairs == Operations \X Reservation

Balanced(l, k, R, W) ==
  /\ IsFiniteSet(R) /\ R \subseteq Pairs /\ W \subseteq R
  /\ ~l.poisoned
  /\ l.operations = Cardinality(R)
  /\ l.permits = k
  /\ l.retained = Total("retained", R)
  /\ l.writeFrames = Cardinality(W)
  /\ l.writeRetained = Total("writeRetained", W)
  /\ l.keys = {r[2].key : r \in R}
  /\ \A r, s \in R : r[2].key = s[2].key => r = s
  /\ l.operations <= MaxOperations
  /\ l.writeFrames <= MaxWriteFrames
  /\ l.writeRetained <= MaxWriteRetained

LEMMA PairFields ==
  ASSUME NEW x \in Pairs
  PROVE  /\ x = <<x[1], x[2]>> /\ x[1] \in Operations /\ x[2] \in Reservation
         /\ x[2].retained \in Nat /\ x[2].writeRetained \in Nat /\ x[2].key \in Keys
         /\ x[2]["retained"] = x[2].retained /\ x[2]["writeRetained"] = x[2].writeRetained
  BY DEF Pairs, Reservation

LEMMA PairsCountable ==
  ASSUME NEW R, IsFiniteSet(R), R \subseteq Pairs
  PROVE  /\ Countable("retained", R) /\ Countable("writeRetained", R)
         /\ Cardinality(R) \in Nat
  BY PairFields, FS_CardinalityType DEF Countable

LEMMA BalancedFinite ==
  ASSUME NEW l, NEW k, NEW R, NEW W, Balanced(l, k, R, W)
  PROVE  /\ IsFiniteSet(R) /\ IsFiniteSet(W) /\ R \subseteq Pairs /\ W \subseteq Pairs
         /\ Cardinality(R) \in Nat /\ Cardinality(W) \in Nat
         /\ Countable("retained", R) /\ Countable("writeRetained", W)
         /\ Total("retained", R) \in Nat /\ Total("writeRetained", W) \in Nat
<1>1. IsFiniteSet(R) /\ R \subseteq Pairs /\ W \subseteq R
  BY DEF Balanced
<1>2. IsFiniteSet(W) /\ W \subseteq Pairs
  BY <1>1, FS_Subset
<1>3. Countable("retained", R) /\ Cardinality(R) \in Nat
  BY <1>1, PairsCountable
<1>4. Countable("writeRetained", W) /\ Cardinality(W) \in Nat
  BY <1>2, PairsCountable
<1> QED
  BY <1>1, <1>2, <1>3, <1>4, TotalType

\* Taking a reservation out: its bytes, its frame if it still holds one, its key
\* and perhaps its permit are all there to be subtracted.
LEMMA ReleaseBalances ==
  ASSUME NEW l \in Ledger, NEW k \in Nat, NEW R, NEW W, Balanced(l, k, R, W), NEW x \in R,
         NEW writeHeld \in BOOLEAN, writeHeld <=> x \in W,
         NEW releasePermit \in BOOLEAN, releasePermit => k > 0
  PROVE  Balanced(ReleaseAll(l, x[2], writeHeld, releasePermit),
                  IF releasePermit THEN k - 1 ELSE k, R \ {x}, W \ {x})
<1> DEFINE permit == IF releasePermit THEN 1 ELSE 0
           frames == IF writeHeld THEN 1 ELSE 0
           bytes  == IF writeHeld THEN x[2].writeRetained ELSE 0
           after == ReleaseAll(l, x[2], writeHeld, releasePermit)
<1>1. /\ IsFiniteSet(R) /\ IsFiniteSet(W) /\ R \subseteq Pairs /\ W \subseteq R
      /\ Countable("retained", R) /\ Countable("writeRetained", W)
      /\ Cardinality(R) \in Nat /\ Cardinality(W) \in Nat
  BY BalancedFinite DEF Balanced
<1>2. /\ x \in Pairs /\ x[2].retained \in Nat /\ x[2].writeRetained \in Nat
      /\ x[2]["retained"] = x[2].retained /\ x[2]["writeRetained"] = x[2].writeRetained
  BY <1>1, PairFields
<1>3. /\ IsFiniteSet(R \ {x}) /\ Cardinality(R \ {x}) = Cardinality(R) - 1
      /\ Cardinality(R \ {x}) \in Nat
  BY <1>1, FS_RemoveElement, FS_CardinalityType
<1>4. /\ Total("retained", R) = x[2].retained + Total("retained", R \ {x})
      /\ Total("retained", R \ {x}) \in Nat
  BY <1>1, <1>2, TotalRemove, TotalType
<1>5. /\ Cardinality(W) = frames + Cardinality(W \ {x}) /\ Cardinality(W \ {x}) \in Nat
      /\ Total("writeRetained", W) = bytes + Total("writeRetained", W \ {x})
      /\ Total("writeRetained", W \ {x}) \in Nat
  <2>1. CASE x \in W
    <3>1. IsFiniteSet(W \ {x}) /\ Cardinality(W \ {x}) = Cardinality(W) - 1
      BY <1>1, <2>1, FS_RemoveElement
    <3>2. Cardinality(W \ {x}) \in Nat
      BY <3>1, FS_CardinalityType
    <3>3. /\ Total("writeRetained", W) = x[2].writeRetained + Total("writeRetained", W \ {x})
          /\ Total("writeRetained", W \ {x}) \in Nat
      BY <1>1, <1>2, <2>1, TotalRemove, TotalType
    <3> QED
      BY <1>1, <2>1, <3>1, <3>2, <3>3
  <2>2. CASE x \notin W
    <3>1. W \ {x} = W
      BY <2>2
    <3>2. Total("writeRetained", W) \in Nat
      BY <1>1, TotalType
    <3>3. frames = 0 /\ bytes = 0
      BY <2>2
    <3> HIDE DEF frames, bytes
    <3>4. /\ Cardinality(W \ {x}) = Cardinality(W)
          /\ Total("writeRetained", W \ {x}) = Total("writeRetained", W)
      BY <3>1, Zenon
    <3> QED
      BY <1>1, <3>2, <3>3, <3>4
  <2> QED
    BY <2>1, <2>2
<1>6. /\ l.operations = Cardinality(R) /\ l.permits = k /\ l.retained = Total("retained", R)
      /\ l.writeFrames = Cardinality(W) /\ l.writeRetained = Total("writeRetained", W)
      /\ l.keys = {r[2].key : r \in R} /\ ~l.poisoned
      /\ l.operations <= MaxOperations /\ l.writeFrames <= MaxWriteFrames
      /\ l.writeRetained <= MaxWriteRetained
      /\ \A r, s \in R : r[2].key = s[2].key => r = s
  BY DEF Balanced
<1>7. /\ permit \in Nat /\ permit <= k /\ frames \in Nat /\ bytes \in Nat
      /\ k - permit = IF releasePermit THEN k - 1 ELSE k
  BY <1>2
<1>8. ~(\/ l.operations = 0 \/ l.retained < x[2].retained \/ l.permits < permit
        \/ l.writeFrames < frames \/ l.writeRetained < bytes \/ x[2].key \notin l.keys)
  <2>1. x[2].key \in l.keys
    BY <1>6
  <2> HIDE DEF permit, frames, bytes
  <2> QED
    BY <1>1, <1>2, <1>3, <1>4, <1>5, <1>6, <1>7, <2>1
<1>9. after = [l EXCEPT !.operations = l.operations - 1, !.retained = l.retained - x[2].retained,
                        !.permits = l.permits - permit,
                        !.writeFrames = l.writeFrames - frames,
                        !.writeRetained = l.writeRetained - bytes,
                        !.keys = l.keys \ {x[2].key}]
  BY <1>8 DEF ReleaseAll, Ledger
<1> HIDE DEF permit, frames, bytes, after
<1>10. /\ after.operations = l.operations - 1 /\ after.retained = l.retained - x[2].retained
       /\ after.permits = l.permits - permit /\ after.writeFrames = l.writeFrames - frames
       /\ after.writeRetained = l.writeRetained - bytes
       /\ after.keys = l.keys \ {x[2].key} /\ after.poisoned = l.poisoned
  BY <1>9 DEF Ledger
<1>11. l.keys \ {x[2].key} = {r[2].key : r \in R \ {x}}
  BY <1>6
<1>12. /\ after.operations = Cardinality(R \ {x}) /\ after.permits = k - permit
       /\ after.retained = Total("retained", R \ {x})
       /\ after.writeFrames = Cardinality(W \ {x})
       /\ after.writeRetained = Total("writeRetained", W \ {x})
  BY <1>1, <1>2, <1>3, <1>4, <1>5, <1>6, <1>7, <1>10
<1>13. /\ after.operations <= MaxOperations /\ after.writeFrames <= MaxWriteFrames
       /\ after.writeRetained <= MaxWriteRetained
  <2>1. l.operations \in Nat /\ l.writeFrames \in Nat /\ l.writeRetained \in Nat
    BY LedgerFields
  <2> QED
    BY <1>6, <1>7, <1>10, <2>1, LimitsAssumption
<1> QED
  BY <1>1, <1>3, <1>6, <1>7, <1>10, <1>11, <1>12, <1>13 DEF Balanced, after

\* Reserving adds a reservation with a fresh key and both its byte counts.
LEMMA ReserveBalances ==
  ASSUME NEW l \in Ledger, NEW k \in Nat, NEW R, NEW W, Balanced(l, k, R, W),
         NEW retained \in Nat, NEW writeRetained \in Nat, NEW operation \in Operations,
         CanReserve(l, retained, writeRetained),
         NEW x, x = <<operation, [retained |-> retained, writeRetained |-> writeRetained,
                                  key |-> AllocatedKey(l)]>>
  PROVE  Balanced(ReserveLedger(l, retained, writeRetained), k + 1, R \cup {x}, W \cup {x})
<1> DEFINE after == ReserveLedger(l, retained, writeRetained)
<1>1. /\ IsFiniteSet(R) /\ IsFiniteSet(W) /\ R \subseteq Pairs /\ W \subseteq R
      /\ Countable("retained", R) /\ Countable("writeRetained", W)
      /\ Cardinality(R) \in Nat /\ Cardinality(W) \in Nat
  BY BalancedFinite DEF Balanced
<1>2. /\ l.operations = Cardinality(R) /\ l.permits = k /\ l.retained = Total("retained", R)
      /\ l.writeFrames = Cardinality(W) /\ l.writeRetained = Total("writeRetained", W)
      /\ l.keys = {r[2].key : r \in R} /\ ~l.poisoned
      /\ l.operations <= MaxOperations /\ l.writeFrames <= MaxWriteFrames
      /\ l.writeRetained <= MaxWriteRetained
      /\ \A r, s \in R : r[2].key = s[2].key => r = s
  BY DEF Balanced
<1>3. AllocatedKey(l) \in Keys /\ AllocatedKey(l) \notin l.keys
  BY AllocatedKeyFresh DEF CanReserve
<1>4. /\ x \in Pairs /\ x[2].key = AllocatedKey(l)
      /\ x[2]["retained"] = retained /\ x[2]["writeRetained"] = writeRetained
  BY <1>3 DEF Pairs, Reservation
<1>5. x \notin R /\ x \notin W
  BY <1>1, <1>2, <1>3, <1>4
<1>6. /\ IsFiniteSet(R \cup {x}) /\ Cardinality(R \cup {x}) = Cardinality(R) + 1
      /\ Cardinality(W \cup {x}) = Cardinality(W) + 1
  BY <1>1, <1>5, FS_AddElement
<1>7. /\ Total("retained", R \cup {x}) = Total("retained", R) + retained
      /\ Total("writeRetained", W \cup {x}) = Total("writeRetained", W) + writeRetained
  BY <1>1, <1>4, <1>5, TotalAdd
<1>8. /\ after.operations = l.operations + 1 /\ after.permits = l.permits + 1
      /\ after.retained = l.retained + retained /\ after.writeFrames = l.writeFrames + 1
      /\ after.writeRetained = l.writeRetained + writeRetained
      /\ after.keys = l.keys \cup {AllocatedKey(l)} /\ after.poisoned = l.poisoned
  BY DEF ReserveLedger, Ledger
<1>9. /\ l.operations # MaxOperations /\ l.writeFrames # MaxWriteFrames
      /\ l.writeRetained + writeRetained <= MaxWriteRetained
  BY DEF CanReserve
<1> HIDE DEF after
<1>10. /\ after.operations <= MaxOperations /\ after.writeFrames <= MaxWriteFrames
       /\ after.writeRetained <= MaxWriteRetained
  <2>1. l.operations \in Nat /\ l.writeFrames \in Nat
    BY LedgerFields
  <2> QED
    BY <1>2, <1>8, <1>9, <2>1, LimitsAssumption
<1>11. after.keys = {r[2].key : r \in R \cup {x}}
  BY <1>2, <1>4, <1>8
<1>12. \A r, s \in R \cup {x} : r[2].key = s[2].key => r = s
  BY <1>2, <1>3, <1>4
<1>13. R \cup {x} \subseteq Pairs /\ W \cup {x} \subseteq R \cup {x}
  BY <1>1, <1>4
<1>14. /\ after.operations = Cardinality(R \cup {x}) /\ after.permits = k + 1
       /\ after.retained = Total("retained", R \cup {x})
       /\ after.writeFrames = Cardinality(W \cup {x})
       /\ after.writeRetained = Total("writeRetained", W \cup {x})
       /\ ~after.poisoned
  BY <1>2, <1>6, <1>7, <1>8
<1> QED
  BY <1>6, <1>10, <1>11, <1>12, <1>13, <1>14 DEF Balanced, after

\* Committing ends a permit and lowers the write bytes to the frame's own.
LEMMA CommitBalances ==
  ASSUME NEW l \in Ledger, NEW k \in Nat, k > 0, NEW R, NEW W, Balanced(l, k, R, W),
         NEW x \in W, NEW actual \in Nat, actual <= x[2].writeRetained,
         NEW y, y = <<x[1], [x[2] EXCEPT !.writeRetained = actual]>>
  PROVE  Balanced(CommitLedger(l, x[2], actual), k - 1, (R \ {x}) \cup {y}, (W \ {x}) \cup {y})
<1> DEFINE unused == x[2].writeRetained - actual
           after == CommitLedger(l, x[2], actual)
<1>1. /\ IsFiniteSet(R) /\ IsFiniteSet(W) /\ R \subseteq Pairs /\ W \subseteq R
      /\ Countable("retained", R) /\ Countable("writeRetained", W)
      /\ Cardinality(R) \in Nat /\ Cardinality(W) \in Nat
  BY BalancedFinite DEF Balanced
<1>2. /\ l.operations = Cardinality(R) /\ l.permits = k /\ l.retained = Total("retained", R)
      /\ l.writeFrames = Cardinality(W) /\ l.writeRetained = Total("writeRetained", W)
      /\ l.keys = {r[2].key : r \in R} /\ ~l.poisoned
      /\ l.operations <= MaxOperations /\ l.writeFrames <= MaxWriteFrames
      /\ l.writeRetained <= MaxWriteRetained
      /\ \A r, s \in R : r[2].key = s[2].key => r = s
  BY DEF Balanced
<1>3. /\ x \in R /\ x \in Pairs /\ x[2].retained \in Nat /\ x[2].writeRetained \in Nat
      /\ x[2]["retained"] = x[2].retained /\ x[2]["writeRetained"] = x[2].writeRetained
      /\ x[2] \in Reservation /\ x[1] \in Operations
  BY <1>1, PairFields
<1>4. /\ y \in Pairs /\ y[2].key = x[2].key
      /\ y[2]["retained"] = x[2].retained /\ y[2]["writeRetained"] = actual
  BY <1>3 DEF Pairs, Reservation
<1>5. y \notin R \ {x} /\ y \notin W \ {x}
  BY <1>1, <1>2, <1>3, <1>4
<1>6. /\ IsFiniteSet(R \ {x}) /\ Cardinality(R \ {x}) = Cardinality(R) - 1
      /\ IsFiniteSet(W \ {x}) /\ Cardinality(W \ {x}) = Cardinality(W) - 1
  BY <1>1, <1>3, FS_RemoveElement
<1>7. /\ IsFiniteSet((R \ {x}) \cup {y})
      /\ Cardinality((R \ {x}) \cup {y}) = Cardinality(R)
      /\ Cardinality((W \ {x}) \cup {y}) = Cardinality(W)
  <2>1. /\ IsFiniteSet((R \ {x}) \cup {y})
        /\ Cardinality((R \ {x}) \cup {y}) = Cardinality(R \ {x}) + 1
        /\ Cardinality((W \ {x}) \cup {y}) = Cardinality(W \ {x}) + 1
    BY <1>5, <1>6, FS_AddElement
  <2> QED
    BY <1>1, <1>6, <2>1
<1>8. /\ Countable("retained", R \ {x}) /\ Countable("writeRetained", W \ {x})
      /\ Total("retained", R) = x[2].retained + Total("retained", R \ {x})
      /\ Total("writeRetained", W) = x[2].writeRetained + Total("writeRetained", W \ {x})
  BY <1>1, <1>3, TotalRemove
<1>9. /\ Total("retained", (R \ {x}) \cup {y}) = Total("retained", R \ {x}) + x[2].retained
      /\ Total("writeRetained", (W \ {x}) \cup {y}) = Total("writeRetained", W \ {x}) + actual
  BY <1>3, <1>4, <1>5, <1>8, TotalAdd
<1>10. Total("retained", R \ {x}) \in Nat /\ Total("writeRetained", W \ {x}) \in Nat
  BY <1>8, TotalType
<1>11. unused \in Nat /\ l.writeRetained - unused = Total("writeRetained", W \ {x}) + actual
       /\ ~(l.permits = 0 \/ unused < 0 \/ l.writeRetained < unused)
  BY <1>2, <1>3, <1>8, <1>10
<1>12. after = [l EXCEPT !.permits = l.permits - 1, !.writeRetained = l.writeRetained - unused]
  BY <1>11 DEF CommitLedger, Ledger
<1> HIDE DEF after, unused
<1>13. /\ after.operations = l.operations /\ after.permits = l.permits - 1
       /\ after.retained = l.retained /\ after.writeFrames = l.writeFrames
       /\ after.writeRetained = l.writeRetained - unused
       /\ after.keys = l.keys /\ after.poisoned = l.poisoned
  BY <1>12 DEF Ledger
<1>14. after.writeRetained <= MaxWriteRetained
  <2>1. l.writeRetained \in Nat
    BY LedgerFields
  <2> QED
    BY <1>2, <1>11, <1>13, <2>1, LimitsAssumption
<1>15. after.keys = {r[2].key : r \in (R \ {x}) \cup {y}}
  BY <1>2, <1>3, <1>4, <1>13
<1>16. \A r, s \in (R \ {x}) \cup {y} : r[2].key = s[2].key => r = s
  BY <1>2, <1>3, <1>4
<1>17. (R \ {x}) \cup {y} \subseteq Pairs /\ (W \ {x}) \cup {y} \subseteq (R \ {x}) \cup {y}
  BY <1>1, <1>4
<1>18. /\ after.operations = Cardinality((R \ {x}) \cup {y}) /\ after.permits = k - 1
       /\ after.retained = Total("retained", (R \ {x}) \cup {y})
       /\ after.writeFrames = Cardinality((W \ {x}) \cup {y})
       /\ after.writeRetained = Total("writeRetained", (W \ {x}) \cup {y})
       /\ ~after.poisoned
  BY <1>2, <1>3, <1>7, <1>8, <1>9, <1>10, <1>11, <1>13
<1>19. after.operations <= MaxOperations /\ after.writeFrames <= MaxWriteFrames
  BY <1>2, <1>13
<1> QED
  BY <1>7, <1>14, <1>15, <1>16, <1>17, <1>18, <1>19 DEF Balanced, after

\* A frame left the writer; its reservation stays for the reply.
LEMMA WrittenBalances ==
  ASSUME NEW l \in Ledger, NEW k \in Nat, NEW R, NEW W, Balanced(l, k, R, W), NEW x \in W
  PROVE  Balanced(ReleaseWrite(l, x[2].writeRetained), k, R, W \ {x})
<1> DEFINE after == ReleaseWrite(l, x[2].writeRetained)
<1>1. /\ IsFiniteSet(R) /\ IsFiniteSet(W) /\ R \subseteq Pairs /\ W \subseteq R
      /\ Countable("writeRetained", W) /\ Cardinality(W) \in Nat
  BY BalancedFinite DEF Balanced
<1>2. /\ l.operations = Cardinality(R) /\ l.permits = k /\ l.retained = Total("retained", R)
      /\ l.writeFrames = Cardinality(W) /\ l.writeRetained = Total("writeRetained", W)
      /\ l.keys = {r[2].key : r \in R} /\ ~l.poisoned
      /\ l.operations <= MaxOperations /\ l.writeFrames <= MaxWriteFrames
      /\ l.writeRetained <= MaxWriteRetained
      /\ \A r, s \in R : r[2].key = s[2].key => r = s
  BY DEF Balanced
<1>3. x[2].writeRetained \in Nat /\ x[2]["writeRetained"] = x[2].writeRetained
  BY <1>1, PairFields
<1>4. Cardinality(W \ {x}) = Cardinality(W) - 1 /\ Cardinality(W \ {x}) \in Nat
  BY <1>1, FS_RemoveElement, FS_CardinalityType
<1>5. /\ Total("writeRetained", W) = x[2].writeRetained + Total("writeRetained", W \ {x})
      /\ Total("writeRetained", W \ {x}) \in Nat
  BY <1>1, <1>3, TotalRemove, TotalType
<1>6. ~(l.writeFrames = 0 \/ l.writeRetained < x[2].writeRetained)
  BY <1>1, <1>2, <1>3, <1>4, <1>5
<1>7. after = [l EXCEPT !.writeFrames = l.writeFrames - 1,
                        !.writeRetained = l.writeRetained - x[2].writeRetained]
  BY <1>6 DEF ReleaseWrite, Ledger
<1> HIDE DEF after
<1>8. /\ after.operations = l.operations /\ after.permits = l.permits
      /\ after.retained = l.retained /\ after.writeFrames = l.writeFrames - 1
      /\ after.writeRetained = l.writeRetained - x[2].writeRetained
      /\ after.keys = l.keys /\ after.poisoned = l.poisoned
  BY <1>7 DEF Ledger
<1>9. /\ after.writeFrames = Cardinality(W \ {x})
      /\ after.writeRetained = Total("writeRetained", W \ {x})
  BY <1>1, <1>2, <1>3, <1>4, <1>5, <1>8
<1>10. after.writeFrames <= MaxWriteFrames /\ after.writeRetained <= MaxWriteRetained
  <2>1. l.writeFrames \in Nat /\ l.writeRetained \in Nat
    BY LedgerFields
  <2> QED
    BY <1>2, <1>3, <1>8, <2>1, LimitsAssumption
<1> QED
  BY <1>1, <1>2, <1>8, <1>9, <1>10 DEF Balanced, after

(***************************************************************************)
(* What permits and records hold, as functions of their set and FIFO.      *)
(***************************************************************************)
Shift == EffectSeed - OperationSeed

Granted(P) == {<<p.operation, p.reservation>> : p \in P}
HeldBy(record) == <<record.operation, record.reservation>>
TimerOf(record) == <<record.operation, record.deadline>>

Owed(s) == {HeldBy(s[i]) : i \in DOMAIN s}
OwedFrames(s) == {HeldBy(s[i]) : i \in {j \in DOMAIN s : s[j].writeHeld}}
Timed(s) == {TimerOf(s[i]) : i \in DOMAIN s}
Distinct(s) == \A i, j \in DOMAIN s : s[i].operation = s[j].operation => i = j

LEMMA RemoveAtItems ==
  ASSUME NEW S, NEW s \in Seq(S), NEW i \in DOMAIN s
  PROVE  /\ DOMAIN RemoveAt(s, i) = 1..(Len(s) - 1)
         /\ \A j \in 1..(Len(s) - 1) :
              RemoveAt(s, i)[j] = IF j < i THEN s[j] ELSE s[j + 1]
         /\ \A k \in DOMAIN s : k # i =>
              \E j \in 1..(Len(s) - 1) : RemoveAt(s, i)[j] = s[k]
<1>1. RemoveAt(s, i) \in Seq(S) /\ Len(RemoveAt(s, i)) = Len(s) - 1
  BY RemoveAtType
<1>2. DOMAIN RemoveAt(s, i) = 1..(Len(s) - 1)
  BY <1>1
<1>3. \A j \in 1..(Len(s) - 1) : RemoveAt(s, i)[j] = IF j < i THEN s[j] ELSE s[j + 1]
  <2> DEFINE a == SubSeq(s, 1, i - 1)
             b == SubSeq(s, i + 1, Len(s))
  <2>1. i \in 1..Len(s) /\ Len(s) \in Nat
    OBVIOUS
  <2>2. a \in Seq(S) /\ Len(a) = i - 1 /\ \A j \in 1..(i - 1) : a[j] = s[j]
    BY <2>1
  <2>3. b \in Seq(S) /\ Len(b) = Len(s) - i /\ \A j \in 1..(Len(s) - i) : b[j] = s[i + j]
    BY <2>1
  <2>4. RemoveAt(s, i) = a \o b
    BY DEF RemoveAt
  <2> HIDE DEF a, b
  <2>5. \A j \in 1..(Len(s) - 1) : (a \o b)[j] = IF j < i THEN a[j] ELSE b[j - (i - 1)]
    <3>1. ASSUME NEW j \in 1..(Len(a) + Len(b))
          PROVE  (a \o b)[j] = IF j <= Len(a) THEN a[j] ELSE b[j - Len(a)]
      <4>1. a \in Seq(S) /\ b \in Seq(S)
        BY <2>2, <2>3
      <4> QED
        BY <4>1
    <3>2. Len(a) + Len(b) = Len(s) - 1 /\ \A j \in Int : j <= i - 1 <=> j < i
      BY <2>1, <2>2, <2>3
    <3> QED
      BY <2>2, <3>1, <3>2
  <2>6. ASSUME NEW j \in 1..(Len(s) - 1), ~(j < i) PROVE b[j - (i - 1)] = s[j + 1]
    <3>1. j - (i - 1) \in 1..(Len(s) - i) /\ i + (j - (i - 1)) = j + 1
      BY <2>1, <2>6
    <3> QED
      BY <2>3, <3>1
  <2>7. ASSUME NEW j \in 1..(Len(s) - 1), j < i PROVE a[j] = s[j]
    BY <2>1, <2>2, <2>7
  <2> QED
    BY <2>4, <2>5, <2>6, <2>7
<1>4. ASSUME NEW k \in DOMAIN s, k # i
      PROVE  \E j \in 1..(Len(s) - 1) : RemoveAt(s, i)[j] = s[k]
  <2>1. CASE k < i
    <3>1. k \in 1..(Len(s) - 1)
      BY <2>1
    <3> QED
      BY <1>3, <2>1, <3>1
  <2>2. CASE k > i
    <3>1. k - 1 \in 1..(Len(s) - 1) /\ ~(k - 1 < i) /\ (k - 1) + 1 = k
      BY <2>2
    <3> QED
      BY <1>3, <3>1
  <2> QED
    BY <1>4, <2>1, <2>2
<1> QED
  BY <1>2, <1>3, <1>4

LEMMA TailRemoves ==
  ASSUME NEW S, NEW s \in Seq(S), s # <<>>
  PROVE  Tail(s) = RemoveAt(s, 1) /\ 1 \in DOMAIN s
<1>1. 1 \in DOMAIN s /\ Len(s) \in Nat
  OBVIOUS
<1>2. RemoveAt(s, 1) \in Seq(S) /\ Len(RemoveAt(s, 1)) = Len(s) - 1
  BY <1>1, RemoveAtType
<1>3. Tail(s) \in Seq(S) /\ Len(Tail(s)) = Len(s) - 1
      /\ \A j \in 1..(Len(s) - 1) : Tail(s)[j] = s[j + 1]
  OBVIOUS
<1>4. \A j \in 1..(Len(s) - 1) : RemoveAt(s, 1)[j] = s[j + 1]
  BY <1>1, RemoveAtItems
<1> QED
  BY <1>1, <1>2, <1>3, <1>4

\* Removing a record takes out exactly what it held.
LEMMA RemovedRecord ==
  ASSUME NEW s \in Seq(OperationRecord), Distinct(s), NEW i \in DOMAIN s
  PROVE  /\ Distinct(RemoveAt(s, i))
         /\ \A k \in DOMAIN RemoveAt(s, i) : \E j \in DOMAIN s : RemoveAt(s, i)[k] = s[j]
         /\ Owed(RemoveAt(s, i)) = Owed(s) \ {HeldBy(s[i])}
         /\ OwedFrames(RemoveAt(s, i)) = OwedFrames(s) \ {HeldBy(s[i])}
         /\ Timed(RemoveAt(s, i)) = {x \in Timed(s) : x[1] # s[i].operation}
<1> DEFINE r == RemoveAt(s, i)
           n == Len(s) - 1
<1>1. /\ DOMAIN r = 1..n
      /\ \A j \in 1..n : r[j] = IF j < i THEN s[j] ELSE s[j + 1]
      /\ \A k \in DOMAIN s : k # i => \E j \in 1..n : r[j] = s[k]
  BY RemoveAtItems
<1>2. ASSUME NEW j \in 1..n
      PROVE  \E k \in DOMAIN s : k # i /\ r[j] = s[k] /\ k = IF j < i THEN j ELSE j + 1
  <2>1. (IF j < i THEN j ELSE j + 1) \in DOMAIN s /\ (IF j < i THEN j ELSE j + 1) # i
    OBVIOUS
  <2> QED
    BY <1>1, <2>1
<1>3. \A k \in DOMAIN s : k # i => s[k].operation # s[i].operation
  BY DEF Distinct
<1>4. Distinct(r)
  <2> SUFFICES ASSUME NEW a \in 1..n, NEW b \in 1..n, r[a].operation = r[b].operation
               PROVE  a = b
    BY <1>1 DEF Distinct
  <2>1. PICK k \in DOMAIN s : r[a] = s[k] /\ k = IF a < i THEN a ELSE a + 1
    BY <1>2
  <2>2. PICK l \in DOMAIN s : r[b] = s[l] /\ l = IF b < i THEN b ELSE b + 1
    BY <1>2
  <2>3. k = l
    BY <2>1, <2>2 DEF Distinct
  <2> QED
    BY <2>1, <2>2, <2>3
<1> HIDE DEF r, n
<1>a. \A k \in DOMAIN s : k # i => HeldBy(s[k]) # HeldBy(s[i])
  BY <1>3 DEF HeldBy
<1>b. /\ \A j \in 1..n : \E k \in DOMAIN s : k # i /\ r[j] = s[k]
      /\ \A k \in DOMAIN s : k # i => \E j \in 1..n : r[j] = s[k]
      /\ DOMAIN r = 1..n
  BY <1>1, <1>2
<1>5. Owed(r) = Owed(s) \ {HeldBy(s[i])}
  BY <1>a, <1>b DEF Owed
<1>6. OwedFrames(r) = OwedFrames(s) \ {HeldBy(s[i])}
  <2>1. ASSUME NEW x \in OwedFrames(r) PROVE x \in OwedFrames(s) /\ x # HeldBy(s[i])
    <3>1. PICK j \in 1..n : x = HeldBy(r[j]) /\ r[j].writeHeld
      BY <1>b DEF OwedFrames
    <3> QED
      BY <1>a, <1>b, <3>1 DEF OwedFrames
  <2>2. ASSUME NEW x \in OwedFrames(s), x # HeldBy(s[i]) PROVE x \in OwedFrames(r)
    <3>1. PICK k \in DOMAIN s : x = HeldBy(s[k]) /\ s[k].writeHeld
      BY DEF OwedFrames
    <3> QED
      BY <1>b, <2>2, <3>1 DEF OwedFrames
  <2> QED
    BY <2>1, <2>2
<1>7. Timed(r) = {x \in Timed(s) : x[1] # s[i].operation}
  <2>1. \A k \in DOMAIN s : TimerOf(s[k])[1] = s[k].operation
    BY DEF TimerOf
  <2>2. ASSUME NEW x \in Timed(r) PROVE x \in Timed(s) /\ x[1] # s[i].operation
    BY <1>3, <1>b, <2>1 DEF Timed
  <2>3. ASSUME NEW x \in Timed(s), x[1] # s[i].operation PROVE x \in Timed(r)
    <3>1. PICK k \in DOMAIN s : x = TimerOf(s[k])
      BY DEF Timed
    <3>2. k # i
      BY <2>1, <2>3, <3>1
    <3> QED
      BY <1>b, <3>1, <3>2 DEF Timed
  <2> QED
    BY <2>2, <2>3
<1> QED
  BY <1>1, <1>2, <1>4, <1>5, <1>6, <1>7 DEF r

\* Marking a record keeps its slot, its reservation and its timer.
LEMMA MarkedRecord ==
  ASSUME NEW s \in Seq(OperationRecord), Distinct(s), NEW i \in DOMAIN s,
         NEW r \in OperationRecord, r.operation = s[i].operation,
         r.effect = s[i].effect, r.reservation = s[i].reservation,
         r.deadline = s[i].deadline, NEW q, q = [s EXCEPT ![i] = r]
  PROVE  /\ Distinct(q) /\ DOMAIN q = DOMAIN s
         /\ \A k \in DOMAIN q : q[k].operation = s[k].operation /\ q[k].effect = s[k].effect
         /\ Owed(q) = Owed(s) /\ Timed(q) = Timed(s)
         /\ r.writeHeld = s[i].writeHeld => OwedFrames(q) = OwedFrames(s)
         /\ ~r.writeHeld => OwedFrames(q) = OwedFrames(s) \ {HeldBy(s[i])}
<1>1. /\ DOMAIN q = DOMAIN s
      /\ \A k \in DOMAIN s : /\ q[k].operation = s[k].operation
                             /\ q[k].effect = s[k].effect
                             /\ q[k].reservation = s[k].reservation
                             /\ q[k].deadline = s[k].deadline
                             /\ k # i => q[k].writeHeld = s[k].writeHeld
      /\ q[i].writeHeld = r.writeHeld
  OBVIOUS
<1>2. \A k \in DOMAIN s : HeldBy(q[k]) = HeldBy(s[k]) /\ TimerOf(q[k]) = TimerOf(s[k])
  BY <1>1 DEF HeldBy, TimerOf
<1>3. Distinct(q)
  BY <1>1 DEF Distinct
<1>4. Owed(q) = Owed(s) /\ Timed(q) = Timed(s)
  BY <1>1, <1>2 DEF Owed, Timed
<1>5. ASSUME r.writeHeld = s[i].writeHeld PROVE OwedFrames(q) = OwedFrames(s)
  BY <1>1, <1>2, <1>5 DEF OwedFrames
<1>6. ASSUME ~r.writeHeld PROVE OwedFrames(q) = OwedFrames(s) \ {HeldBy(s[i])}
  <2>1. \A k \in DOMAIN s : k # i => HeldBy(s[k]) # HeldBy(s[i])
    BY DEF Distinct, HeldBy
  <2> QED
    BY <1>1, <1>2, <1>6, <2>1 DEF OwedFrames
<1> QED
  BY <1>1, <1>3, <1>4, <1>5, <1>6

LEMMA AppendedRecord ==
  ASSUME NEW s \in Seq(OperationRecord), Distinct(s), NEW r \in OperationRecord,
         ~Holds(s, r.operation), r.writeHeld
  PROVE  /\ Distinct(Append(s, r))
         /\ \A k \in DOMAIN Append(s, r) :
              Append(s, r)[k] = r \/ \E j \in DOMAIN s : Append(s, r)[k] = s[j]
         /\ Owed(Append(s, r)) = Owed(s) \cup {HeldBy(r)}
         /\ OwedFrames(Append(s, r)) = OwedFrames(s) \cup {HeldBy(r)}
         /\ Timed(Append(s, r)) = Timed(s) \cup {TimerOf(r)}
<1> DEFINE n == Len(s)
           q == Append(s, r)
<1>1. /\ n \in Nat /\ DOMAIN s = 1..n /\ DOMAIN q = 1..(n + 1)
      /\ \A k \in 1..n : q[k] = s[k]
      /\ q[n + 1] = r
  OBVIOUS
<1>2. \A k \in 1..n : s[k].operation # r.operation
  BY <1>1 DEF Holds
<1> HIDE DEF n, q
<1>3. \A k \in 1..(n + 1) : k \in 1..n \/ k = n + 1
  BY <1>1
<1>4. Distinct(q)
  BY <1>1, <1>2, <1>3 DEF Distinct
<1>5. Owed(q) = Owed(s) \cup {HeldBy(r)}
  BY <1>1, <1>3 DEF Owed
<1>6. OwedFrames(q) = OwedFrames(s) \cup {HeldBy(r)}
  BY <1>1, <1>3 DEF OwedFrames
<1>7. Timed(q) = Timed(s) \cup {TimerOf(r)}
  BY <1>1, <1>3 DEF Timed
<1> QED
  BY <1>1, <1>3, <1>4, <1>5, <1>6, <1>7 DEF q

\* Releasing every record leaves what the permits hold.
LEMMA ReleaseRecordsBalances ==
  ASSUME NEW l \in Ledger, NEW k \in Nat, NEW G, NEW s \in Seq(OperationRecord), Distinct(s),
         Balanced(l, k, G \cup Owed(s), G \cup OwedFrames(s)),
         \A i \in DOMAIN s : HeldBy(s[i]) \notin G
  PROVE  ReleaseRecords(l, s) \in Ledger /\ Balanced(ReleaseRecords(l, s), k, G, G)
<1> DEFINE n == Len(s)
           Done(i) == {HeldBy(s[j]) : j \in 1..i}
           R(i) == (G \cup Owed(s)) \ Done(i)
           W(i) == (G \cup OwedFrames(s)) \ Done(i)
<1>1. /\ n \in Nat /\ DOMAIN s = 1..n
      /\ \A i \in 1..n : s[i] \in OperationRecord
  OBVIOUS
<1>2. \A i \in 1..n : /\ s[i].reservation \in Reservation
                      /\ s[i].writeHeld \in BOOLEAN
                      /\ s[i].operation \in Operations
  BY <1>1, RecordFields
<1>3. PICK after \in [0..n -> Ledger] :
        /\ after[0] = l
        /\ \A i \in 1..n : after[i] = ReleaseOperation(after[i - 1], s[i])
        /\ after[n] = ReleaseRecords(l, s)
  BY <1>1, <1>2, ReleaseRecordsIterates
<1>4. \A i, j \in 1..n : HeldBy(s[i]) = HeldBy(s[j]) => i = j
  BY <1>1 DEF Distinct, HeldBy
<1>5. \A i \in 1..n : HeldBy(s[i])[2] = s[i].reservation
  BY DEF HeldBy
<1> DEFINE H == {i \in 0..n : Balanced(after[i], k, R(i), W(i))}
<1>6. 0 \in H
  <2>1. Done(0) = {}
    OBVIOUS
  <2>2. R(0) = G \cup Owed(s) /\ W(0) = G \cup OwedFrames(s)
    BY <2>1
  <2> HIDE DEF R, W
  <2>3. Balanced(after[0], k, R(0), W(0))
    BY <1>3, <2>2, Zenon
  <2> QED
    BY <1>1, <2>3
<1>7. ASSUME NEW i \in 0..(n - 1), i \in H PROVE i + 1 \in H
  <2> DEFINE x == HeldBy(s[i + 1])
  <2>1. i + 1 \in 0..n /\ i + 1 \in 1..n /\ (i + 1) - 1 = i /\ i \in 0..n
    BY <1>1
  <2>2. x \notin Done(i)
    <3>1. \A j \in 1..i : j \in 1..n /\ j # i + 1
      BY <1>1, <2>1
    <3> QED
      BY <1>4, <2>1, <3>1
  <2>3. x \in R(i) /\ (x \in W(i) <=> s[i + 1].writeHeld)
    <3>1. x \in Owed(s) /\ x \notin G
      BY <1>1, <2>1 DEF Owed
    <3>2. x \in OwedFrames(s) <=> s[i + 1].writeHeld
      BY <1>1, <1>4, <2>1 DEF OwedFrames
    <3> HIDE DEF x, Done
    <3> QED
      BY <2>2, <3>1, <3>2
  <2>4. Done(i + 1) = Done(i) \cup {x}
    <3>1. \A j : j \in 1..(i + 1) <=> j \in 1..i \/ j = i + 1
      BY <2>1
    <3> QED
      BY <3>1
  <2>5. R(i + 1) = R(i) \ {x} /\ W(i + 1) = W(i) \ {x}
    <3> HIDE DEF x, Done
    <3> QED BY <2>4
  <2>6. after[i] \in Ledger /\ Balanced(after[i], k, R(i), W(i))
    BY <1>3, <1>7, <2>1
  <2>7. after[i + 1] = ReleaseAll(after[i], x[2], s[i + 1].writeHeld, FALSE)
    BY <1>3, <1>5, <2>1 DEF ReleaseOperation
  <2>8. s[i + 1].writeHeld \in BOOLEAN
    BY <1>2, <2>1
  <2> HIDE DEF x, R, W, Done
  <2>9. Balanced(after[i + 1], k, R(i) \ {x}, W(i) \ {x})
    <3> DEFINE held == s[i + 1].writeHeld
    <3>1. held \in BOOLEAN /\ (held <=> x \in W(i)) /\ FALSE \in BOOLEAN
      BY <2>3, <2>8
    <3> HIDE DEF held
    <3>2. Balanced(ReleaseAll(after[i], x[2], held, FALSE), IF FALSE THEN k - 1 ELSE k,
                   R(i) \ {x}, W(i) \ {x})
      BY <2>3, <2>6, <3>1, ReleaseBalances
    <3> QED
      BY <2>7, <3>2 DEF held
  <2> QED
    BY <2>1, <2>5, <2>9
<1>8. n \in H
  <2> HIDE DEF H
  <2>1. 0..n \subseteq H
    BY <1>1, <1>6, <1>7, BoundedInduction
  <2> QED
    BY <1>1, <2>1
<1>9. R(n) = G /\ W(n) = G
  <2>1. Done(n) = Owed(s) /\ OwedFrames(s) \subseteq Owed(s)
    BY <1>1 DEF Owed, OwedFrames
  <2>2. \A x \in G : x \notin Owed(s)
    BY DEF Owed
  <2> HIDE DEF Done
  <2> QED
    BY <2>1, <2>2
<1> HIDE DEF R, W
<1>10. after[n] \in Ledger /\ Balanced(after[n], k, G, G)
  BY <1>1, <1>3, <1>8, <1>9
<1> QED
  BY <1>3, <1>10

(***************************************************************************)
(* The books of a machine with the outstanding permits P.                  *)
(***************************************************************************)

\* Identities are handed out in increasing order, operation and effect in step,
\* and each names one permit or one record.
Identified(m, P) ==
  /\ P \subseteq Permit /\ IsFiniteSet(P)
  /\ m.nextEffect = m.nextOperation + Shift
  /\ \A p \in P : /\ p.operation < m.nextOperation
                  /\ p.effect = p.operation + Shift
                  /\ ~Holds(m.pending, p.operation)
  /\ \A p, q \in P : p.operation = q.operation => p = q
  /\ \A i \in DOMAIN m.pending : /\ m.pending[i].operation < m.nextOperation
                                 /\ m.pending[i].effect = m.pending[i].operation + Shift
  /\ Distinct(m.pending)

\* An epoch that is not live admits nothing and has let go of its operations.
Shut(m) == m.phase # "Live" => m.gate = "Closed" /\ m.pending = <<>>

AllHeld(m, P) == Granted(P) \cup Owed(m.pending)
FramesHeld(m, P) == Granted(P) \cup OwedFrames(m.pending)

Books(m, P) ==
  /\ Identified(m, P) /\ Shut(m)
  /\ Balanced(m.ledger, Cardinality(P), AllHeld(m, P), FramesHeld(m, P))

\* A transition reschedules the timers of the records it keeps; the driver has
\* taken the fired ones out of its index.
Reschedules(m, t, fired) ==
  Timed(t.machine.pending)
    = {x \in Timed(m.pending) : x[1] \notin t.cancel \cup fired} \cup t.schedule

LEMMA RecordsApart ==
  ASSUME NEW m \in Machine, NEW P, Identified(m, P)
  PROVE  \A i \in DOMAIN m.pending : HeldBy(m.pending[i]) \notin Granted(P)
<1> SUFFICES ASSUME NEW i \in DOMAIN m.pending, NEW p \in P,
                    HeldBy(m.pending[i]) = <<p.operation, p.reservation>>
             PROVE  FALSE
  BY DEF Granted
<1>1. m.pending[i].operation = p.operation
  BY DEF HeldBy
<1> QED
  BY <1>1 DEF Identified, Holds

LEMMA PermitsCounted ==
  ASSUME NEW m, NEW P, Identified(m, P)
  PROVE  Cardinality(P) \in Nat
  BY FS_CardinalityType DEF Identified

\* Changing gate and phase only.
LEMMA RegatedBooks ==
  ASSUME NEW m \in Machine, NEW P, Books(m, P), NEW r \in Machine,
         r.pending = m.pending, r.ledger = m.ledger, r.nextOperation = m.nextOperation,
         r.nextEffect = m.nextEffect, Shut(r)
  PROVE  Books(r, P)
<1>1. Identified(r, P)
  BY DEF Books, Identified
<1>2. AllHeld(r, P) = AllHeld(m, P) /\ FramesHeld(r, P) = FramesHeld(m, P)
  BY DEF AllHeld, FramesHeld
<1>3. Balanced(r.ledger, Cardinality(P), AllHeld(r, P), FramesHeld(r, P))
  BY <1>2, Zenon DEF Books
<1> QED
  BY <1>1, <1>3 DEF Books

\* The books of a new machine.
LEMMA NewBooks == Books(NewMachine, {})
<1> DEFINE m == NewMachine
           P == {}
<1>1. /\ m.pending = <<>> /\ m.ledger = EmptyLedger /\ m.phase = "Live"
      /\ m.nextOperation = OperationSeed /\ m.nextEffect = EffectSeed
  BY DEF NewMachine
<1>2. P = {} /\ IsFiniteSet(P) /\ Cardinality(P) = 0
  BY FS_EmptySet
<1> HIDE DEF m, P
<1>3. Identified(m, P)
  <2>1. EffectSeed = OperationSeed + Shift
    BY IdentityAssumption DEF Shift
  <2> QED
    BY <1>1, <1>2, <2>1 DEF Identified, Distinct, Holds
<1>4. AllHeld(m, P) = {} /\ FramesHeld(m, P) = {}
  BY <1>1, <1>2 DEF AllHeld, FramesHeld, Granted, Owed, OwedFrames
<1>5. Balanced(EmptyLedger, 0, {}, {})
  <2>1. IsFiniteSet({}) /\ Cardinality({}) = 0
    BY FS_EmptySet
  <2>2. Total("retained", {}) = 0 /\ Total("writeRetained", {}) = 0
    BY TotalEmpty
  <2>3. /\ EmptyLedger.operations = 0 /\ EmptyLedger.permits = 0 /\ EmptyLedger.retained = 0
        /\ EmptyLedger.writeFrames = 0 /\ EmptyLedger.writeRetained = 0
        /\ EmptyLedger.keys = {} /\ ~EmptyLedger.poisoned
    BY DEF EmptyLedger
  <2>4. 0 <= MaxOperations /\ 0 <= MaxWriteFrames /\ 0 <= MaxWriteRetained
    BY LimitsAssumption
  <2> QED
    BY <2>1, <2>2, <2>3, <2>4 DEF Balanced
<1>6. Balanced(m.ledger, Cardinality(P), AllHeld(m, P), FramesHeld(m, P))
  BY <1>1, <1>2, <1>4, <1>5, Zenon
<1>7. Shut(m)
  BY <1>1 DEF Shut
<1> QED
  BY <1>3, <1>6, <1>7 DEF Books, m, P

LEMMA ClosedBooks ==
  ASSUME NEW m \in Machine, NEW P, Books(m, P), NEW r \in Machine,
         r.pending = <<>>, r.ledger = ReleaseRecords(m.ledger, m.pending),
         r.nextOperation = m.nextOperation, r.nextEffect = m.nextEffect, Shut(r)
  PROVE  Books(r, P)
<1>1. Identified(m, P) /\ m.ledger \in Ledger /\ m.pending \in Seq(OperationRecord)
  BY MachineFields DEF Books
<1>2. Identified(r, P)
  BY <1>1 DEF Identified, Holds, Distinct
<1>3. AllHeld(r, P) = Granted(P) /\ FramesHeld(r, P) = Granted(P)
  BY DEF AllHeld, FramesHeld, Owed, OwedFrames
<1>4. Balanced(r.ledger, Cardinality(P), Granted(P), Granted(P))
  <2>1. Cardinality(P) \in Nat /\ Distinct(m.pending)
    BY <1>1, PermitsCounted DEF Identified
  <2>2. Balanced(m.ledger, Cardinality(P), Granted(P) \cup Owed(m.pending),
                 Granted(P) \cup OwedFrames(m.pending))
    BY DEF Books, AllHeld, FramesHeld
  <2>3. \A i \in DOMAIN m.pending : HeldBy(m.pending[i]) \notin Granted(P)
    BY <1>1, RecordsApart
  <2>4. Balanced(ReleaseRecords(m.ledger, m.pending), Cardinality(P), Granted(P), Granted(P))
    BY <1>1, <2>1, <2>2, <2>3, ReleaseRecordsBalances
  <2> QED
    BY <2>4, Zenon
<1>5. Balanced(r.ledger, Cardinality(P), AllHeld(r, P), FramesHeld(r, P))
  BY <1>3, <1>4, Zenon
<1> QED
  BY <1>2, <1>5 DEF Books

\* A record leaves the FIFO and its reservation the ledger.
LEMMA RemovedBooks ==
  ASSUME NEW m \in Machine, NEW P, Books(m, P), NEW i \in DOMAIN m.pending,
         NEW r \in Machine, r.pending = RemoveAt(m.pending, i),
         r.ledger = ReleaseAll(m.ledger, m.pending[i].reservation, m.pending[i].writeHeld, FALSE),
         r.nextOperation = m.nextOperation, r.nextEffect = m.nextEffect,
         r.phase = m.phase, r.gate = m.gate
  PROVE  Books(r, P)
<1> DEFINE s == m.pending
           x == HeldBy(s[i])
<1>1. Identified(m, P) /\ m.ledger \in Ledger /\ s \in Seq(OperationRecord) /\ Distinct(s)
  BY MachineFields DEF Books, Identified
<1>2. /\ Distinct(RemoveAt(s, i))
      /\ \A k \in DOMAIN RemoveAt(s, i) : \E j \in DOMAIN s : RemoveAt(s, i)[k] = s[j]
      /\ Owed(RemoveAt(s, i)) = Owed(s) \ {x}
      /\ OwedFrames(RemoveAt(s, i)) = OwedFrames(s) \ {x}
  BY <1>1, RemovedRecord
<1>3. Identified(r, P)
  BY <1>1, <1>2 DEF Identified, Holds
<1>4. x \notin Granted(P) /\ x \in Owed(s) /\ (x \in OwedFrames(s) <=> s[i].writeHeld)
  <2>1. x \notin Granted(P)
    BY <1>1, RecordsApart
  <2>2. \A j \in DOMAIN s : HeldBy(s[j]) = HeldBy(s[i]) => j = i
    BY <1>1 DEF Distinct, HeldBy
  <2> QED
    BY <2>1, <2>2 DEF Owed, OwedFrames
<1>5. /\ AllHeld(r, P) = AllHeld(m, P) \ {x} /\ FramesHeld(r, P) = FramesHeld(m, P) \ {x}
      /\ x \in AllHeld(m, P) /\ (x \in FramesHeld(m, P) <=> s[i].writeHeld)
  <2> HIDE DEF x
  <2> QED
    BY <1>2, <1>4 DEF AllHeld, FramesHeld
<1>6. Balanced(r.ledger, Cardinality(P), AllHeld(m, P) \ {x}, FramesHeld(m, P) \ {x})
  <2>1. /\ Cardinality(P) \in Nat /\ s[i].writeHeld \in BOOLEAN
        /\ Balanced(m.ledger, Cardinality(P), AllHeld(m, P), FramesHeld(m, P))
    BY <1>1, PermitsCounted, RecordFields DEF Books
  <2> DEFINE held == s[i].writeHeld
             k == Cardinality(P)
             R == AllHeld(m, P)
             W == FramesHeld(m, P)
  <2>2. r.ledger = ReleaseAll(m.ledger, x[2], held, FALSE)
    BY DEF HeldBy
  <2>3. /\ k \in Nat /\ held \in BOOLEAN /\ Balanced(m.ledger, k, R, W)
        /\ x \in R /\ (held <=> x \in W) /\ FALSE \in BOOLEAN
    BY <1>5, <2>1
  <2> HIDE DEF held, k, R, W, x
  <2>4. Balanced(ReleaseAll(m.ledger, x[2], held, FALSE), IF FALSE THEN k - 1 ELSE k,
                 R \ {x}, W \ {x})
    BY <1>1, <2>3, ReleaseBalances
  <2> QED
    BY <2>2, <2>4 DEF k, R, W
<1>7. Balanced(r.ledger, Cardinality(P), AllHeld(r, P), FramesHeld(r, P))
  BY <1>5, <1>6, Zenon
<1>8. Shut(r)
  BY <1>1 DEF Books, Shut
<1> QED
  BY <1>3, <1>7, <1>8 DEF Books

\* A record changes its phase, its delivery or both.
LEMMA MarkedBooks ==
  ASSUME NEW m \in Machine, NEW P, Books(m, P), NEW i \in DOMAIN m.pending,
         NEW record \in OperationRecord, record.operation = m.pending[i].operation,
         record.effect = m.pending[i].effect,
         record.reservation = m.pending[i].reservation,
         record.deadline = m.pending[i].deadline,
         NEW r \in Machine, r.pending = [m.pending EXCEPT ![i] = record],
         r.nextOperation = m.nextOperation, r.nextEffect = m.nextEffect,
         r.phase = m.phase, r.gate = m.gate,
         \/ record.writeHeld = m.pending[i].writeHeld /\ r.ledger = m.ledger
         \/ /\ ~record.writeHeld /\ m.pending[i].writeHeld
            /\ r.ledger = ReleaseWrite(m.ledger, m.pending[i].reservation.writeRetained)
  PROVE  Books(r, P) /\ Timed(r.pending) = Timed(m.pending)
<1> DEFINE s == m.pending
           q == [s EXCEPT ![i] = record]
           x == HeldBy(s[i])
<1>1. /\ Identified(m, P) /\ m.ledger \in Ledger /\ s \in Seq(OperationRecord) /\ Distinct(s)
      /\ Balanced(m.ledger, Cardinality(P), AllHeld(m, P), FramesHeld(m, P))
  BY MachineFields DEF Books, Identified
<1>2. /\ Distinct(q) /\ DOMAIN q = DOMAIN s
      /\ \A k \in DOMAIN q : q[k].operation = s[k].operation /\ q[k].effect = s[k].effect
      /\ Owed(q) = Owed(s) /\ Timed(q) = Timed(s)
      /\ record.writeHeld = s[i].writeHeld => OwedFrames(q) = OwedFrames(s)
      /\ ~record.writeHeld => OwedFrames(q) = OwedFrames(s) \ {HeldBy(s[i])}
  BY <1>1, MarkedRecord
<1> HIDE DEF q
<1>3. r.pending = q
  BY DEF q
<1>4. Identified(r, P)
  BY <1>1, <1>2, <1>3 DEF Identified, Holds
<1>5. Shut(r)
  BY <1>1 DEF Books, Shut
<1>6. AllHeld(r, P) = AllHeld(m, P)
  BY <1>2, <1>3 DEF AllHeld
<1>7. CASE record.writeHeld = s[i].writeHeld /\ r.ledger = m.ledger
  <2>1. FramesHeld(r, P) = FramesHeld(m, P)
    BY <1>2, <1>3, <1>7 DEF FramesHeld
  <2>2. Balanced(r.ledger, Cardinality(P), AllHeld(r, P), FramesHeld(r, P))
    BY <1>1, <1>6, <1>7, <2>1, Zenon
  <2> QED
    BY <1>2, <1>3, <1>4, <1>5, <2>2 DEF Books
<1>8. CASE /\ ~record.writeHeld /\ s[i].writeHeld
           /\ r.ledger = ReleaseWrite(m.ledger, s[i].reservation.writeRetained)
  <2>1. x \notin Granted(P) /\ x \in OwedFrames(s)
    BY <1>1, <1>8, RecordsApart DEF OwedFrames
  <2>2. FramesHeld(r, P) = FramesHeld(m, P) \ {x} /\ x \in FramesHeld(m, P)
    <3> HIDE DEF x
    <3> QED
      BY <1>2, <1>3, <1>8, <2>1 DEF FramesHeld, x
  <2>3. r.ledger = ReleaseWrite(m.ledger, x[2].writeRetained)
    BY <1>8 DEF HeldBy
  <2>4. Cardinality(P) \in Nat
    BY <1>1, PermitsCounted
  <2> HIDE DEF x
  <2>5. Balanced(ReleaseWrite(m.ledger, x[2].writeRetained), Cardinality(P), AllHeld(m, P),
                 FramesHeld(m, P) \ {x})
    BY <1>1, <2>2, <2>4, WrittenBalances
  <2>6. Balanced(r.ledger, Cardinality(P), AllHeld(r, P), FramesHeld(r, P))
    BY <1>6, <2>2, <2>3, <2>5, Zenon
  <2> QED
    BY <1>2, <1>3, <1>4, <1>5, <2>6 DEF Books
<1> QED
  BY <1>7, <1>8

\* A frame that needs no reply leaves the writer and takes its record along.
LEMMA CompletedBooks ==
  ASSUME NEW m \in Machine, NEW P, Books(m, P), NEW i \in DOMAIN m.pending,
         m.pending[i].writeHeld, NEW r \in Machine, r.pending = RemoveAt(m.pending, i),
         r.ledger = ReleaseAll(ReleaseWrite(m.ledger, m.pending[i].reservation.writeRetained),
                               m.pending[i].reservation, FALSE, FALSE),
         r.nextOperation = m.nextOperation, r.nextEffect = m.nextEffect,
         r.phase = m.phase, r.gate = m.gate
  PROVE  Books(r, P)
<1> DEFINE s == m.pending
           x == HeldBy(s[i])
           k == Cardinality(P)
           R == AllHeld(m, P)
           W == FramesHeld(m, P)
           l == ReleaseWrite(m.ledger, x[2].writeRetained)
<1>1. /\ Identified(m, P) /\ m.ledger \in Ledger /\ s \in Seq(OperationRecord) /\ Distinct(s)
      /\ Balanced(m.ledger, k, R, W) /\ k \in Nat
  BY MachineFields, PermitsCounted DEF Books, Identified
<1>2. /\ Distinct(RemoveAt(s, i))
      /\ \A j \in DOMAIN RemoveAt(s, i) : \E a \in DOMAIN s : RemoveAt(s, i)[j] = s[a]
      /\ Owed(RemoveAt(s, i)) = Owed(s) \ {x}
      /\ OwedFrames(RemoveAt(s, i)) = OwedFrames(s) \ {x}
  BY <1>1, RemovedRecord
<1>3. Identified(r, P)
  BY <1>1, <1>2 DEF Identified, Holds
<1>4. x \notin Granted(P) /\ x \in Owed(s) /\ x \in OwedFrames(s)
  BY <1>1, RecordsApart DEF Owed, OwedFrames
<1>5. /\ AllHeld(r, P) = R \ {x} /\ FramesHeld(r, P) = W \ {x}
      /\ x \in R /\ x \in W
  <2> HIDE DEF x
  <2> QED
    BY <1>2, <1>4 DEF AllHeld, FramesHeld
<1>6. x[2] = s[i].reservation /\ x[2].writeRetained \in Nat
  BY <1>1, RecordFields DEF HeldBy
<1>7. r.ledger = ReleaseAll(l, x[2], FALSE, FALSE)
  BY <1>6
<1> HIDE DEF x, k, R, W
<1>8. l \in Ledger /\ Balanced(l, k, R, W \ {x})
  BY <1>1, <1>5, <1>6, WrittenBalances, ReleaseWriteType
<1> HIDE DEF l
<1>9. Balanced(ReleaseAll(l, x[2], FALSE, FALSE), IF FALSE THEN k - 1 ELSE k,
               R \ {x}, (W \ {x}) \ {x})
  <2>1. FALSE \in BOOLEAN /\ (FALSE <=> x \in W \ {x}) /\ (FALSE => k > 0)
    OBVIOUS
  <2> QED
    BY <1>1, <1>5, <1>8, <2>1, ReleaseBalances
<1>10. (W \ {x}) \ {x} = W \ {x}
  OBVIOUS
<1>11. Balanced(r.ledger, k, AllHeld(r, P), FramesHeld(r, P))
  BY <1>5, <1>7, <1>9, <1>10, Zenon
<1>12. Shut(r)
  BY <1>1 DEF Books, Shut
<1> QED
  BY <1>3, <1>11, <1>12 DEF Books, k

(***************************************************************************)
(* Admission keeps the books.                                              *)
(***************************************************************************)
LEMMA PermitFields ==
  ASSUME NEW p \in Permit
  PROVE  /\ p.operation \in Operations /\ p.effect \in Effects /\ p.deadline \in Moments
         /\ p.completion \in Completions /\ p.reservation \in Reservation
         /\ p.operation \in Nat /\ p.reservation.writeRetained \in Nat
  BY IdentityAssumption DEF Permit, Operations, Reservation

LEMMA ReservedBooks ==
  ASSUME NEW m \in Machine, NEW P, Books(m, P), NEW now, NEW options,
         MachineReserves(m, now, options),
         options \in [retained : Nat, writeRetained : Nat, class : Classes,
                      completion : Completions, deadline : Moments]
  PROVE  Books(ReserveMachine(m, options), P \cup {NewPermit(m, options)})
<1> DEFINE r == ReserveMachine(m, options)
           p == NewPermit(m, options)
           Q == P \cup {p}
           k == Cardinality(P)
           x == <<p.operation, p.reservation>>
<1>1. options.retained \in Nat /\ options.writeRetained \in Nat
  OBVIOUS
<1>2. /\ Identified(m, P) /\ m.ledger \in Ledger /\ m.pending \in Seq(OperationRecord)
      /\ Balanced(m.ledger, k, AllHeld(m, P), FramesHeld(m, P)) /\ k \in Nat
      /\ CanReserve(m.ledger, options.retained, options.writeRetained)
  BY MachineFields, PermitsCounted DEF Books, MachineReserves
<1>3. r \in Machine /\ r.pending = m.pending /\ r.phase = m.phase /\ r.gate = m.gate
  BY <1>1, ReserveMachineType
<1>4. /\ r.ledger = ReserveLedger(m.ledger, options.retained, options.writeRetained)
      /\ r.nextOperation = m.nextOperation + 1 /\ r.nextEffect = m.nextEffect + 1
  BY DEF ReserveMachine, Machine
<1>5. p \in Permit
  BY NewPermitType
<1>6. /\ p.operation = m.nextOperation /\ p.effect = m.nextEffect
      /\ p.reservation = [retained |-> options.retained,
                          writeRetained |-> options.writeRetained,
                          key |-> AllocatedKey(m.ledger)]
  BY DEF NewPermit
<1>7. m.nextOperation \in Int /\ m.nextEffect \in Int /\ Shift \in Int
  BY MachineFields, IdentityAssumption DEF Shift
<1>8. \A q \in P : q.operation \in Int /\ q.operation < m.nextOperation
  BY <1>2, PermitFields DEF Identified
<1>9. \A i \in DOMAIN m.pending : m.pending[i].operation \in Int
  BY <1>2, RecordFields, IdentityAssumption DEF Operations
<1> HIDE DEF r, p
<1>10. Identified(r, Q)
  <2>1. Q \subseteq Permit /\ IsFiniteSet(Q)
    BY <1>2, <1>5, FS_AddElement DEF Identified
  <2>2. r.nextEffect = r.nextOperation + Shift
    BY <1>2, <1>4, <1>7 DEF Identified
  <2>3. ~Holds(r.pending, p.operation)
    BY <1>2, <1>3, <1>6, <1>7, <1>9 DEF Identified, Holds
  <2>4. \A q \in Q : /\ q.operation < r.nextOperation
                     /\ q.effect = q.operation + Shift
                     /\ ~Holds(r.pending, q.operation)
    BY <1>2, <1>3, <1>4, <1>6, <1>7, <1>8, <2>3 DEF Identified
  <2>5. \A a, b \in Q : a.operation = b.operation => a = b
    BY <1>2, <1>6, <1>7, <1>8 DEF Identified
  <2>6. \A i \in DOMAIN r.pending :
          /\ r.pending[i].operation < r.nextOperation
          /\ r.pending[i].effect = r.pending[i].operation + Shift
    <3>1. ASSUME NEW i \in DOMAIN m.pending
          PROVE  /\ m.pending[i].operation < r.nextOperation
                 /\ m.pending[i].effect = m.pending[i].operation + Shift
      <4>1. /\ m.pending[i].operation < m.nextOperation
            /\ m.pending[i].effect = m.pending[i].operation + Shift
        BY <1>2 DEF Identified
      <4>2. m.pending[i].operation \in Int
        BY <1>9
      <4> QED
        BY <1>4, <1>7, <4>1, <4>2
    <3> QED
      BY <1>3, <3>1
  <2> QED
    BY <1>2, <1>3, <2>1, <2>2, <2>4, <2>5, <2>6 DEF Identified
<1>11. Shut(r)
  BY <1>3 DEF Books, Shut
<1>12. Cardinality(Q) = k + 1
  <2>1. p \notin P
    BY <1>6, <1>7, <1>8
  <2> QED
    BY <1>2, <2>1, FS_AddElement DEF Identified
<1>13. AllHeld(r, Q) = AllHeld(m, P) \cup {x} /\ FramesHeld(r, Q) = FramesHeld(m, P) \cup {x}
  BY <1>3 DEF AllHeld, FramesHeld, Granted
<1>14. Balanced(r.ledger, k + 1, AllHeld(m, P) \cup {x}, FramesHeld(m, P) \cup {x})
  <2>1. p.operation \in Operations
    BY <1>5, PermitFields
  <2>2. x = <<p.operation, [retained |-> options.retained,
                            writeRetained |-> options.writeRetained,
                            key |-> AllocatedKey(m.ledger)]>>
    BY <1>6
  <2> DEFINE R == AllHeld(m, P)
             W == FramesHeld(m, P)
  <2>3. Balanced(m.ledger, k, R, W)
    BY DEF Books
  <2> HIDE DEF x, k, R, W
  <2>4. Balanced(ReserveLedger(m.ledger, options.retained, options.writeRetained), k + 1,
                 R \cup {x}, W \cup {x})
    BY <1>1, <1>2, <2>1, <2>2, <2>3, ReserveBalances
  <2> QED
    BY <1>4, <2>4, Zenon DEF R, W
<1>15. Balanced(r.ledger, Cardinality(Q), AllHeld(r, Q), FramesHeld(r, Q))
  <2> HIDE DEF Q, k, x
  <2> QED
    BY <1>12, <1>13, <1>14, Zenon
<1> QED
  BY <1>10, <1>11, <1>15 DEF Books, r, p

\* Giving up one permit of several leaves the others.
LEMMA OtherPermits ==
  ASSUME NEW m \in Machine, NEW P, Identified(m, P), NEW p \in P
  PROVE  /\ Granted(P \ {p}) = Granted(P) \ {<<p.operation, p.reservation>>}
         /\ <<p.operation, p.reservation>> \in Granted(P)
         /\ <<p.operation, p.reservation>> \notin Owed(m.pending)
         /\ <<p.operation, p.reservation>> \notin OwedFrames(m.pending)
         /\ IsFiniteSet(P \ {p}) /\ Cardinality(P \ {p}) = Cardinality(P) - 1
         /\ Cardinality(P) \in Nat /\ Cardinality(P) > 0
<1> DEFINE x == <<p.operation, p.reservation>>
<1>1. /\ IsFiniteSet(P) /\ \A a, b \in P : a.operation = b.operation => a = b
      /\ ~Holds(m.pending, p.operation)
  BY DEF Identified
<1>2. Granted(P \ {p}) = Granted(P) \ {x} /\ x \in Granted(P)
  BY <1>1 DEF Granted
<1>3. x \notin Owed(m.pending) /\ x \notin OwedFrames(m.pending)
  <2>1. \A i \in DOMAIN m.pending : HeldBy(m.pending[i]) # x
    BY <1>1 DEF HeldBy, Holds
  <2> QED
    BY <2>1 DEF Owed, OwedFrames
<1>4. IsFiniteSet(P \ {p}) /\ Cardinality(P \ {p}) = Cardinality(P) - 1
  BY <1>1, FS_RemoveElement
<1>5. Cardinality(P) \in Nat /\ Cardinality(P \ {p}) \in Nat
  BY <1>1, <1>4, FS_CardinalityType
<1>6. Cardinality(P) > 0
  BY <1>4, <1>5
<1> QED
  BY <1>2, <1>3, <1>4, <1>5, <1>6

LEMMA DroppedBooks ==
  ASSUME NEW m \in Machine, NEW P, Books(m, P), NEW p \in P, NEW r \in Machine,
         r = [m EXCEPT !.ledger = RollbackPermit(m.ledger, p.reservation)]
  PROVE  Books(r, P \ {p})
<1> DEFINE Q == P \ {p}
           k == Cardinality(P)
           x == <<p.operation, p.reservation>>
<1>1. /\ Identified(m, P) /\ m.ledger \in Ledger
      /\ Balanced(m.ledger, k, AllHeld(m, P), FramesHeld(m, P))
  BY MachineFields DEF Books
<1>2. /\ r.ledger = RollbackPermit(m.ledger, p.reservation)
      /\ r.pending = m.pending /\ r.phase = m.phase /\ r.gate = m.gate
      /\ r.nextOperation = m.nextOperation /\ r.nextEffect = m.nextEffect
  BY DEF Machine
<1>3. /\ Granted(Q) = Granted(P) \ {x}
      /\ x \in Granted(P) /\ x \notin Owed(m.pending) /\ x \notin OwedFrames(m.pending)
      /\ IsFiniteSet(Q) /\ Cardinality(Q) = k - 1 /\ k \in Nat /\ k > 0
  BY <1>1, OtherPermits
<1>4. Identified(r, Q)
  BY <1>1, <1>2, <1>3 DEF Identified
<1>5. Shut(r)
  BY <1>2 DEF Books, Shut
<1>6. x[2] = p.reservation
  OBVIOUS
<1> HIDE DEF x, k, Q
<1>7. /\ AllHeld(r, Q) = AllHeld(m, P) \ {x} /\ FramesHeld(r, Q) = FramesHeld(m, P) \ {x}
      /\ x \in AllHeld(m, P) /\ x \in FramesHeld(m, P)
  BY <1>2, <1>3 DEF AllHeld, FramesHeld
<1>8. Balanced(ReleaseAll(m.ledger, x[2], TRUE, TRUE), IF TRUE THEN k - 1 ELSE k,
               AllHeld(m, P) \ {x}, FramesHeld(m, P) \ {x})
  <2>1. TRUE \in BOOLEAN /\ (TRUE <=> x \in FramesHeld(m, P)) /\ (TRUE => k > 0)
    BY <1>3, <1>7
  <2> QED
    BY <1>1, <1>3, <1>7, <2>1, ReleaseBalances
<1>9. Balanced(r.ledger, Cardinality(Q), AllHeld(r, Q), FramesHeld(r, Q))
  BY <1>2, <1>3, <1>6, <1>7, <1>8, Zenon DEF RollbackPermit
<1> QED
  BY <1>4, <1>5, <1>9 DEF Books, Q

LEMMA CommittedBooks ==
  ASSUME NEW m \in Machine, NEW P, Books(m, P), NEW p \in P, NEW frame,
         frame.retained \in Nat, MachineCommits(m, p, frame)
  PROVE  /\ Books(CommitPermit(m, p, frame), P \ {p})
         /\ Timed(CommitPermit(m, p, frame).pending)
              = Timed(m.pending) \cup {<<p.operation, p.deadline>>}
<1> DEFINE r == CommitPermit(m, p, frame)
           Q == P \ {p}
           k == Cardinality(P)
           x == <<p.operation, p.reservation>>
           y == <<p.operation, [p.reservation EXCEPT !.writeRetained = frame.retained]>>
           record == [operation |-> p.operation, effect |-> p.effect,
                      deadline |-> p.deadline,
                      reservation |-> [p.reservation EXCEPT !.writeRetained = frame.retained],
                      phase |-> "Queued", completion |-> p.completion,
                      delivery |-> "NotSent", writeHeld |-> TRUE]
<1>1. /\ Identified(m, P) /\ m.ledger \in Ledger /\ m.pending \in Seq(OperationRecord)
      /\ Balanced(m.ledger, k, AllHeld(m, P), FramesHeld(m, P)) /\ Distinct(m.pending)
      /\ p \in Permit
  BY MachineFields DEF Books, Identified
<1>2. r \in Machine /\ r.phase = m.phase /\ r.gate = m.gate
  BY <1>1, CommitPermitType
<1>3. /\ r.ledger = CommitLedger(m.ledger, p.reservation, frame.retained)
      /\ r.pending = Append(m.pending, record)
      /\ r.nextOperation = m.nextOperation /\ r.nextEffect = m.nextEffect
  BY DEF CommitPermit, Machine
<1>4. record \in OperationRecord
  BY <1>1 DEF Permit, OperationRecord, Reservation, OperationPhases, Deliveries
<1>5. /\ record.operation = p.operation /\ record.effect = p.effect /\ record.writeHeld
      /\ HeldBy(record) = y /\ TimerOf(record) = <<p.operation, p.deadline>>
  BY DEF HeldBy, TimerOf
<1>6. /\ Granted(Q) = Granted(P) \ {x}
      /\ x \in Granted(P) /\ x \notin Owed(m.pending) /\ x \notin OwedFrames(m.pending)
      /\ IsFiniteSet(Q) /\ Cardinality(Q) = k - 1 /\ k \in Nat /\ k > 0
  <2> HIDE DEF y, record, r
  <2> QED
    BY <1>1, OtherPermits
<1> HIDE DEF r, record
<1>7. /\ Distinct(r.pending)
      /\ \A j \in DOMAIN r.pending :
           r.pending[j] = record \/ \E i \in DOMAIN m.pending : r.pending[j] = m.pending[i]
      /\ Owed(r.pending) = Owed(m.pending) \cup {y}
      /\ OwedFrames(r.pending) = OwedFrames(m.pending) \cup {y}
      /\ Timed(r.pending) = Timed(m.pending) \cup {<<p.operation, p.deadline>>}
  <2>1. ~Holds(m.pending, record.operation)
    BY <1>1, <1>5 DEF Identified
  <2> DEFINE q == Append(m.pending, record)
  <2> HIDE DEF y
  <2>2. /\ Distinct(q)
        /\ \A j \in DOMAIN q : q[j] = record \/ \E i \in DOMAIN m.pending : q[j] = m.pending[i]
        /\ Owed(q) = Owed(m.pending) \cup {HeldBy(record)}
        /\ OwedFrames(q) = OwedFrames(m.pending) \cup {HeldBy(record)}
        /\ Timed(q) = Timed(m.pending) \cup {TimerOf(record)}
    <3>1. /\ m.pending \in Seq(OperationRecord) /\ Distinct(m.pending)
          /\ record \in OperationRecord /\ record.writeHeld
      BY <1>1, <1>4, <1>5
    <3> QED
      BY <2>1, <3>1, AppendedRecord
  <2>3. q = r.pending
    BY <1>3
  <2> HIDE DEF q
  <2> QED
    BY <1>5, <2>2, <2>3
<1>8. Identified(r, Q)
  <2>1. ASSUME NEW q \in Q, NEW j \in DOMAIN r.pending, r.pending[j].operation = q.operation
        PROVE  FALSE
    <3>1. q \in P /\ q # p /\ q.operation # p.operation
      BY <1>1 DEF Identified
    <3>2. \A i \in DOMAIN m.pending : m.pending[i].operation # q.operation
      BY <1>1, <3>1 DEF Identified, Holds
    <3>3. r.pending[j] # record
      BY <1>5, <2>1, <3>1
    <3> QED
      BY <1>7, <2>1, <3>2, <3>3
  <2>3. \A q \in Q : ~Holds(r.pending, q.operation)
    BY <2>1 DEF Holds
  <2>2. \A j \in DOMAIN r.pending : /\ r.pending[j].operation < r.nextOperation
                                    /\ r.pending[j].effect = r.pending[j].operation + Shift
    BY <1>1, <1>3, <1>5, <1>7 DEF Identified
  <2> QED
    BY <1>1, <1>3, <1>6, <1>7, <2>2, <2>3 DEF Identified
<1>9. Shut(r)
  <2>1. m.gate # "Closed"
    BY DEF MachineCommits, Admits
  <2> QED
    BY <1>2, <2>1 DEF Books, Shut
<1>10. /\ x \in Pairs /\ x[1] = p.operation /\ x[2] = p.reservation
       /\ y = <<x[1], [x[2] EXCEPT !.writeRetained = frame.retained]>>
       /\ frame.retained <= x[2].writeRetained
  BY <1>1, PermitFields DEF Pairs, MachineCommits
<1> HIDE DEF x, y, k, Q
<1>11. /\ AllHeld(r, Q) = (AllHeld(m, P) \ {x}) \cup {y}
       /\ FramesHeld(r, Q) = (FramesHeld(m, P) \ {x}) \cup {y}
       /\ x \in FramesHeld(m, P)
  BY <1>6, <1>7 DEF AllHeld, FramesHeld
<1>12. Balanced(CommitLedger(m.ledger, x[2], frame.retained), k - 1,
                (AllHeld(m, P) \ {x}) \cup {y}, (FramesHeld(m, P) \ {x}) \cup {y})
  <2> DEFINE R == AllHeld(m, P)
             W == FramesHeld(m, P)
             actual == frame.retained
  <2>1. /\ m.ledger \in Ledger /\ k \in Nat /\ k > 0 /\ Balanced(m.ledger, k, R, W)
        /\ x \in W /\ actual \in Nat /\ actual <= x[2].writeRetained
        /\ y = <<x[1], [x[2] EXCEPT !.writeRetained = actual]>>
    BY <1>1, <1>6, <1>10, <1>11
  <2> HIDE DEF R, W, actual
  <2>2. Balanced(CommitLedger(m.ledger, x[2], actual), k - 1, (R \ {x}) \cup {y},
                 (W \ {x}) \cup {y})
    BY <2>1, CommitBalances
  <2> QED
    BY <2>2 DEF R, W, actual
<1>13. Balanced(r.ledger, Cardinality(Q), AllHeld(r, Q), FramesHeld(r, Q))
  BY <1>3, <1>6, <1>10, <1>11, <1>12, Zenon
<1> QED
  BY <1>7, <1>8, <1>9, <1>13 DEF Books, r, Q

(***************************************************************************)
(* Every handler keeps the books and reschedules the timers.               *)
(***************************************************************************)
Accounts(m, P, t, fired) == Books(t.machine, P) /\ Reschedules(m, t, fired)

LEMMA QuietAccounts ==
  ASSUME NEW m \in Machine, NEW P, NEW r \in Machine, Books(r, P),
         Timed(r.pending) = Timed(m.pending)
  PROVE  Accounts(m, P, Transition(r), {})
<1>1. /\ Transition(r).machine = r /\ Transition(r).cancel = {}
      /\ Transition(r).schedule = {}
  BY DEF Transition
<1> QED
  BY <1>1 DEF Accounts, Reschedules

LEMMA TimersInside ==
  ASSUME NEW m \in Machine
  PROVE  \A x \in Timed(m.pending) :
           x[1] \in {m.pending[i].operation : i \in DOMAIN m.pending}
  BY DEF Timed, TimerOf

LEMMA CloseAccounts ==
  ASSUME NEW m \in Machine, NEW P, NEW t \in Transitions, NEW fired, Accounts(m, P, t, fired),
         t.schedule = {}, NEW reason \in CloseReasons, NEW blamed
  PROVE  Accounts(m, P, CloseInto(t, reason, blamed), fired)
<1> DEFINE w == t.machine
           c == CloseInto(t, reason, blamed)
<1>1. CASE w.phase # "Live"
  <2>1. c = t
    BY <1>1 DEF CloseInto
  <2> QED
    BY <2>1
<1>2. CASE w.phase = "Live"
  <2>1. w \in Machine /\ c \in Transitions /\ c.machine \in Machine
    BY CloseIntoType, TransitionFields
  <2>2. /\ c.machine = [w EXCEPT !.gate = "Closed", !.phase = "Closing",
                                 !.closeReason = reason, !.pending = <<>>,
                                 !.ledger = ReleaseRecords(w.ledger, w.pending)]
        /\ c.cancel = t.cancel \cup {w.pending[i].operation : i \in DOMAIN w.pending}
        /\ c.schedule = t.schedule
    BY <1>2, <2>1 DEF CloseInto, Machine, Transitions
  <2>3. /\ c.machine.gate = "Closed" /\ c.machine.pending = <<>>
        /\ c.machine.ledger = ReleaseRecords(w.ledger, w.pending)
        /\ c.machine.nextOperation = w.nextOperation
        /\ c.machine.nextEffect = w.nextEffect
    BY <2>1, <2>2 DEF Machine
  <2> HIDE DEF w, c
  <2>4. Books(c.machine, P)
    BY <2>1, <2>3, ClosedBooks DEF Accounts, Shut, w
  <2>5. Timed(c.machine.pending) = {}
    BY <2>3 DEF Timed
  <2>6. \A x \in Timed(m.pending) : x[1] \in c.cancel \cup fired
    <3>1. \A x \in Timed(m.pending) : x[1] \notin t.cancel \cup fired => x \in Timed(w.pending)
      BY DEF Accounts, Reschedules, w
    <3>2. \A x \in Timed(w.pending) : x[1] \in c.cancel
      BY <2>1, <2>2, TimersInside
    <3>3. t.cancel \subseteq c.cancel
      BY <2>2
    <3> QED
      BY <3>1, <3>2, <3>3
  <2>7. Reschedules(m, c, fired)
    BY <2>2, <2>5, <2>6 DEF Reschedules
  <2> QED
    BY <2>4, <2>7 DEF Accounts, c
<1> QED
  BY <1>1, <1>2

LEMMA FinishAccounts ==
  ASSUME NEW m \in Machine, NEW P, NEW t \in Transitions, NEW fired, Accounts(m, P, t, fired),
         t.schedule = {}
  PROVE  Accounts(m, P, FinishDrain(t), fired)
<1>1. "Drained" \in CloseReasons
  BY DEF CloseReasons
<1> QED
  BY <1>1, CloseAccounts DEF FinishDrain

\* A closing input.
LEMMA ClosingAccounts ==
  ASSUME NEW m \in Machine, NEW P, Books(m, P), NEW reason \in CloseReasons, NEW blamed
  PROVE  Accounts(m, P, CloseInto(Transition(m), reason, blamed), {})
<1>1. Transition(m) \in Transitions /\ Transition(m).schedule = {}
  BY TransitionType DEF Transition
<1>2. Accounts(m, P, Transition(m), {})
  BY QuietAccounts
<1> QED
  BY <1>1, <1>2, CloseAccounts

LEMMA HeldRecord ==
  ASSUME NEW m \in Machine, NEW operation, Holds(m.pending, operation),
         NEW i, i = IndexOf(m.pending, operation)
  PROVE  /\ i \in DOMAIN m.pending /\ m.pending[i] = RecordOf(m, operation)
         /\ m.pending[i].operation = operation /\ m.pending[i] \in OperationRecord
         /\ m.pending \in Seq(OperationRecord)
  BY IndexOfType, RecordOfType, MachineFields DEF RecordOf

LEMMA RemovalAccounts ==
  ASSUME NEW m \in Machine, NEW P, Books(m, P), NEW i \in DOMAIN m.pending,
         NEW r \in Machine, Books(r, P), r.pending = RemoveAt(m.pending, i),
         NEW t \in Transitions, t.machine = r, t.cancel = {m.pending[i].operation},
         t.schedule = {}, NEW fired \in SUBSET {m.pending[i].operation}
  PROVE  Accounts(m, P, FinishDrain(t), fired)
<1>1. m.pending \in Seq(OperationRecord) /\ Distinct(m.pending)
  BY MachineFields DEF Books, Identified
<1>2. Timed(r.pending) = {x \in Timed(m.pending) : x[1] # m.pending[i].operation}
  BY <1>1, RemovedRecord
<1>3. t.cancel \cup fired = {m.pending[i].operation}
  OBVIOUS
<1>4. Reschedules(m, t, fired)
  BY <1>2, <1>3 DEF Reschedules
<1> QED
  BY <1>4, FinishAccounts DEF Accounts

LEMMA RemoveNotSentAccounts ==
  ASSUME NEW m \in Machine, NEW P, Books(m, P), NEW operation, Holds(m.pending, operation),
         NEW kind \in OutcomeKinds, NEW fired \in SUBSET {operation}
  PROVE  Accounts(m, P, RemoveNotSent(m, operation, kind), fired)
<1> DEFINE i == IndexOf(m.pending, operation)
           r == RemoveRecord(m, operation)
           outcome == Outcome(operation, kind, "NotSent", 0)
           t == [Transition(r) EXCEPT !.discard = <<RecordOf(m, operation)>>,
                                      !.cancel = {operation}, !.publish = {outcome}]
<1>1. /\ i \in DOMAIN m.pending /\ m.pending[i] = RecordOf(m, operation)
      /\ m.pending[i].operation = operation /\ m.pending[i] \in OperationRecord
  BY HeldRecord
<1>2. r \in Machine /\ operation \in Operations /\ RecordOf(m, operation) \in OperationRecord
  BY RemoveRecordType, RecordOfType
<1>3. /\ r.pending = RemoveAt(m.pending, i)
      /\ r.ledger = ReleaseAll(m.ledger, m.pending[i].reservation, m.pending[i].writeHeld, FALSE)
      /\ r.nextOperation = m.nextOperation /\ r.nextEffect = m.nextEffect
      /\ r.phase = m.phase /\ r.gate = m.gate
  BY <1>1 DEF RemoveRecord, ReleaseOperation, Machine
<1>4. outcome \in Outcomes
  BY <1>2, OutcomeType DEF Deliveries
<1>5. RemoveNotSent(m, operation, kind) = FinishDrain(t)
  BY DEF RemoveNotSent
<1> HIDE DEF i, r, outcome
<1>6. Books(r, P)
  BY <1>1, <1>2, <1>3, RemovedBooks
<1>7. t \in Transitions /\ t.machine = r /\ t.cancel = {operation} /\ t.schedule = {}
  <2>1. /\ <<RecordOf(m, operation)>> \in Seq(OperationRecord)
        /\ {operation} \in SUBSET Operations /\ {outcome} \in SUBSET Outcomes
    BY <1>2, <1>4
  <2> QED
    BY <1>2, <2>1 DEF Transition, Transitions
<1> HIDE DEF t
<1> QED
  BY <1>1, <1>2, <1>3, <1>5, <1>6, <1>7, RemovalAccounts

LEMMA GateAccounts ==
  ASSUME NEW m \in Machine, NEW P, Books(m, P)
  PROVE  /\ Accounts(m, P, OnOpenAdmission(m), {})
         /\ Accounts(m, P, OnBeginDrain(m), {})
         /\ Accounts(m, P, OnEpochClosed(m), {})
<1>1. Accounts(m, P, Transition(m), {})
  BY QuietAccounts
<1>2. Accounts(m, P, OnOpenAdmission(m), {})
  <2> DEFINE r == [m EXCEPT !.gate = "Open"]
  <2>1. CASE m.phase = "Live" /\ m.gate = "SessionOnly"
    <3>1. /\ r \in Machine /\ r.pending = m.pending /\ r.ledger = m.ledger
          /\ r.nextOperation = m.nextOperation /\ r.nextEffect = m.nextEffect
          /\ r.phase = "Live"
      BY <2>1 DEF Machine, Gates
    <3>2. OnOpenAdmission(m) = Transition(r)
      BY <2>1 DEF OnOpenAdmission
    <3> HIDE DEF r
    <3>3. Books(r, P)
      BY <3>1, RegatedBooks DEF Shut
    <3> QED
      BY <3>1, <3>2, <3>3, QuietAccounts
  <2>2. CASE ~(m.phase = "Live" /\ m.gate = "SessionOnly")
    BY <1>1, <2>2 DEF OnOpenAdmission
  <2> QED
    BY <2>1, <2>2
<1>3. Accounts(m, P, OnBeginDrain(m), {})
  <2> DEFINE r == [m EXCEPT !.gate = "Draining"]
  <2>1. CASE m.phase # "Live" \/ m.gate \in {"Closed", "Draining"}
    BY <1>1, <2>1 DEF OnBeginDrain
  <2>2. CASE ~(m.phase # "Live" \/ m.gate \in {"Closed", "Draining"})
    <3>1. /\ r \in Machine /\ r.pending = m.pending /\ r.ledger = m.ledger
          /\ r.nextOperation = m.nextOperation /\ r.nextEffect = m.nextEffect
          /\ r.phase = "Live"
      BY <2>2 DEF Machine, Gates
    <3>2. OnBeginDrain(m) = FinishDrain(Transition(r))
      BY <2>2 DEF OnBeginDrain
    <3> HIDE DEF r
    <3>3. Books(r, P)
      BY <3>1, RegatedBooks DEF Shut
    <3>4. Accounts(m, P, Transition(r), {})
      BY <3>1, <3>3, QuietAccounts
    <3>5. Transition(r) \in Transitions /\ Transition(r).schedule = {}
      BY <3>1, TransitionType DEF Transition
    <3> QED
      BY <3>2, <3>4, <3>5, FinishAccounts
  <2> QED
    BY <2>1, <2>2
<1>4. Accounts(m, P, OnEpochClosed(m), {})
  <2> DEFINE r == [m EXCEPT !.phase = "Closed", !.gate = "Closed"]
  <2>1. CASE m.phase = "Closing"
    <3>1. /\ r \in Machine /\ r.pending = m.pending /\ r.ledger = m.ledger
          /\ r.nextOperation = m.nextOperation /\ r.nextEffect = m.nextEffect
          /\ r.gate = "Closed"
      BY <2>1 DEF Machine, Gates, Phases
    <3>2. OnEpochClosed(m) = Transition(r)
      BY <2>1 DEF OnEpochClosed
    <3> HIDE DEF r
    <3>3. Books(r, P)
      BY <2>1, <3>1, RegatedBooks DEF Books, Shut
    <3> QED
      BY <3>1, <3>2, <3>3, QuietAccounts
  <2>2. CASE m.phase # "Closing"
    BY <1>1, <2>2 DEF OnEpochClosed
  <2> QED
    BY <2>1, <2>2
<1> QED
  BY <1>2, <1>3, <1>4

LEMMA MarkingBooks ==
  ASSUME NEW m \in Machine, NEW P, Books(m, P), NEW operation, Holds(m.pending, operation),
         NEW record \in OperationRecord, record.operation = operation,
         record.effect = RecordOf(m, operation).effect,
         record.reservation = RecordOf(m, operation).reservation,
         record.deadline = RecordOf(m, operation).deadline,
         record.writeHeld = RecordOf(m, operation).writeHeld
  PROVE  /\ SetRecord(m, operation, record) \in Machine
         /\ Books(SetRecord(m, operation, record), P)
         /\ Timed(SetRecord(m, operation, record).pending) = Timed(m.pending)
<1> DEFINE i == IndexOf(m.pending, operation)
           r == SetRecord(m, operation, record)
<1>1. /\ i \in DOMAIN m.pending /\ m.pending[i] = RecordOf(m, operation)
      /\ m.pending[i].operation = operation
  BY HeldRecord
<1>2. r \in Machine /\ r.phase = m.phase /\ r.gate = m.gate
  BY SetRecordType
<1>3. /\ r.pending = [m.pending EXCEPT ![i] = record] /\ r.ledger = m.ledger
      /\ r.nextOperation = m.nextOperation /\ r.nextEffect = m.nextEffect
  BY DEF SetRecord, Machine
<1> HIDE DEF i, r
<1> QED
  BY <1>1, <1>2, <1>3, MarkedBooks DEF r

LEMMA OnCancelAccounts ==
  ASSUME NEW m \in Machine, NEW P, Books(m, P), NEW operation
  PROVE  Accounts(m, P, OnCancel(m, operation), {})
<1> DEFINE record == RecordOf(m, operation)
           tomb == [record EXCEPT !.phase = "Terminal"]
           marked == SetRecord(m, operation, tomb)
           outcome == Outcome(operation, "Cancelled", "PossiblySent", 0)
           t == [Transition(marked) EXCEPT !.publish = {outcome}]
<1>1. CASE ~Holds(m.pending, operation) \/ record.phase = "Terminal"
  BY <1>1, QuietAccounts DEF OnCancel
<1>2. CASE Holds(m.pending, operation) /\ record.phase # "Terminal" /\ record.delivery = "NotSent"
  <2>1. "Cancelled" \in OutcomeKinds /\ {} \in SUBSET {operation}
    BY DEF OutcomeKinds
  <2>2. OnCancel(m, operation) = RemoveNotSent(m, operation, "Cancelled")
    BY <1>2 DEF OnCancel
  <2> QED
    BY <1>2, <2>1, <2>2, RemoveNotSentAccounts
<1>3. CASE Holds(m.pending, operation) /\ record.phase # "Terminal" /\ record.delivery # "NotSent"
  <2>1. record \in OperationRecord /\ record.operation = operation
    BY <1>3, RecordOfType
  <2>2. /\ tomb \in OperationRecord /\ tomb.operation = operation
        /\ tomb.effect = record.effect /\ tomb.reservation = record.reservation
        /\ tomb.deadline = record.deadline /\ tomb.writeHeld = record.writeHeld
    <3> HIDE DEF record
    <3> QED BY <2>1 DEF OperationRecord, OperationPhases
  <2>3. OnCancel(m, operation) = t
    BY <1>3 DEF OnCancel
  <2> HIDE DEF tomb
  <2>4. /\ marked \in Machine /\ Books(marked, P) /\ Timed(marked.pending) = Timed(m.pending)
    BY <1>3, <2>2, MarkingBooks
  <2> HIDE DEF marked, outcome
  <2>5. t.machine = marked /\ t.cancel = {} /\ t.schedule = {}
    BY DEF Transition
  <2> HIDE DEF t
  <2> QED
    BY <2>3, <2>4, <2>5 DEF Accounts, Reschedules
<1> QED
  BY <1>1, <1>2, <1>3

\* Delivering a timer takes it out of the index: an early one is put back.
LEMMA OnDeadlineElapsedAccounts ==
  ASSUME NEW m \in Machine, NEW P, Books(m, P), NEW operation, NEW now
  PROVE  Accounts(m, P, OnDeadlineElapsed(m, operation, now), {operation})
<1> DEFINE record == RecordOf(m, operation)
           i == IndexOf(m.pending, operation)
           early == ~IsElapsedAt(record.deadline, now)
           t == [Transition(m) EXCEPT !.schedule = {<<operation, record.deadline>>}]
<1>1. CASE ~Holds(m.pending, operation)
  <2>1. \A x \in Timed(m.pending) : x[1] # operation
    BY <1>1 DEF Timed, TimerOf, Holds
  <2>2. /\ OnDeadlineElapsed(m, operation, now) = Transition(m)
        /\ Transition(m).machine = m /\ Transition(m).cancel = {}
        /\ Transition(m).schedule = {}
    BY <1>1 DEF OnDeadlineElapsed, Transition
  <2> QED
    BY <2>1, <2>2 DEF Accounts, Reschedules
<1>2. CASE Holds(m.pending, operation) /\ early
  <2>1. /\ i \in DOMAIN m.pending /\ m.pending[i] = record
        /\ m.pending[i].operation = operation
    BY <1>2, HeldRecord
  <2>2. OnDeadlineElapsed(m, operation, now) = t
    BY <1>2 DEF OnDeadlineElapsed
  <2>3. t.machine = m /\ t.cancel = {} /\ t.schedule = {<<operation, record.deadline>>}
    BY DEF Transition
  <2> HIDE DEF t, i
  <2>4. <<operation, record.deadline>> \in Timed(m.pending)
    BY <2>1 DEF Timed, TimerOf
  <2>5. \A x \in Timed(m.pending) : x[1] = operation => x = <<operation, record.deadline>>
    <3> SUFFICES ASSUME NEW k \in DOMAIN m.pending, TimerOf(m.pending[k])[1] = operation
                 PROVE  TimerOf(m.pending[k]) = <<operation, record.deadline>>
      BY DEF Timed
    <3>1. m.pending[k].operation = operation
      BY DEF TimerOf
    <3>2. k = i
      BY <2>1, <3>1 DEF Books, Identified, Distinct
    <3> QED
      BY <2>1, <3>2 DEF TimerOf
  <2>6. Timed(m.pending) = {x \in Timed(m.pending) : x[1] \notin {} \cup {operation}}
                             \cup {<<operation, record.deadline>>}
    BY <2>4, <2>5
  <2>7. Reschedules(m, t, {operation})
    BY <2>3, <2>6 DEF Reschedules
  <2> QED
    BY <2>2, <2>3, <2>7 DEF Accounts
<1>3. CASE Holds(m.pending, operation) /\ ~early /\ record.delivery = "PossiblySent"
  <2> DEFINE c == CloseInto(Transition(m), "DeadlineAfterPossibleSend", {})
  <2>1. "DeadlineAfterPossibleSend" \in CloseReasons
    BY DEF CloseReasons
  <2>2. OnDeadlineElapsed(m, operation, now) = c
    BY <1>3 DEF OnDeadlineElapsed
  <2>3. Transition(m) \in Transitions /\ Transition(m).schedule = {}
        /\ Transition(m).machine = m /\ Transition(m).cancel = {}
    BY TransitionType DEF Transition
  <2>4. Accounts(m, P, c, {})
    BY <2>1, ClosingAccounts
  <2>5. m.phase = "Live"
    BY <1>3 DEF Books, Shut, Holds
  <2>6. c.machine.pending = <<>> /\ c.schedule = {}
    <3>1. c.machine = [m EXCEPT !.gate = "Closed", !.phase = "Closing",
                                !.closeReason = "DeadlineAfterPossibleSend", !.pending = <<>>,
                                !.ledger = ReleaseRecords(m.ledger, m.pending)]
          /\ c.schedule = {}
      BY <2>3, <2>5 DEF CloseInto, Machine, Transitions
    <3> QED
      BY <3>1 DEF Machine
  <2> HIDE DEF c
  <2>7. Timed(c.machine.pending) = {}
    BY <2>6 DEF Timed
  <2>8. Reschedules(m, c, {operation})
    BY <2>4, <2>6, <2>7 DEF Accounts, Reschedules
  <2> QED
    BY <2>2, <2>4, <2>8 DEF Accounts
<1>4. CASE Holds(m.pending, operation) /\ ~early /\ record.delivery # "PossiblySent"
  <2>1. "DeadlineElapsed" \in OutcomeKinds /\ {operation} \in SUBSET {operation}
    BY DEF OutcomeKinds
  <2>2. OnDeadlineElapsed(m, operation, now) = RemoveNotSent(m, operation, "DeadlineElapsed")
    BY <1>4 DEF OnDeadlineElapsed
  <2> QED
    BY <1>4, <2>1, <2>2, RemoveNotSentAccounts
<1> QED
  BY <1>1, <1>2, <1>3, <1>4

LEMMA OnReplyAccounts ==
  ASSUME NEW m \in Machine, NEW P, Books(m, P), NEW key, NEW reply \in Nat
  PROVE  Accounts(m, P, OnReply(m, key, reply), {})
<1> DEFINE front == m.pending[1]
           r == [m EXCEPT !.pending = Tail(m.pending),
                          !.ledger = ReleaseAll(m.ledger, front.reservation, FALSE, FALSE)]
           told == IF front.phase = "Terminal" THEN {}
                   ELSE {Outcome(front.operation, "Reply", front.delivery, reply)}
           t == [Transition(r) EXCEPT !.cancel = {front.operation}, !.publish = told]
<1>1. /\ "UnexpectedReply" \in CloseReasons /\ "MatchKeyMismatch" \in CloseReasons
      /\ "Reply" \in OutcomeKinds
  BY DEF CloseReasons, OutcomeKinds
<1>2. CASE m.phase # "Live"
  BY <1>2, QuietAccounts DEF OnReply
<1>3. CASE m.phase = "Live" /\ ~FrontAwaitsReply(m)
  BY <1>1, <1>3, ClosingAccounts DEF OnReply
<1>4. CASE m.phase = "Live" /\ FrontAwaitsReply(m) /\ key # front.reservation.key
  BY <1>1, <1>4, ClosingAccounts DEF OnReply
<1>5. CASE m.phase = "Live" /\ FrontAwaitsReply(m) /\ key = front.reservation.key
  <2>1. /\ m.pending # <<>> /\ m.pending \in Seq(OperationRecord) /\ m.ledger \in Ledger
        /\ ~front.writeHeld
    BY <1>5, MachineFields DEF FrontAwaitsReply
  <2>2. /\ front \in OperationRecord /\ Tail(m.pending) = RemoveAt(m.pending, 1)
        /\ 1 \in DOMAIN m.pending /\ Tail(m.pending) \in Seq(OperationRecord)
    <3>1. Tail(m.pending) = RemoveAt(m.pending, 1) /\ 1 \in DOMAIN m.pending
      BY <2>1, TailRemoves
    <3>2. front \in OperationRecord /\ Tail(m.pending) \in Seq(OperationRecord)
      BY <2>1
    <3> QED
      BY <3>1, <3>2
  <2>3. front.writeHeld = FALSE /\ front.reservation \in Reservation
    <3> HIDE DEF front
    <3> QED BY <2>1, <2>2, RecordFields
  <2>4. ReleaseAll(m.ledger, front.reservation, FALSE, FALSE) \in Ledger
    <3> HIDE DEF front
    <3> QED BY <2>1, <2>3, ReleaseAllType
  <2>5. /\ r \in Machine /\ r.pending = RemoveAt(m.pending, 1)
        /\ r.ledger = ReleaseAll(m.ledger, front.reservation, front.writeHeld, FALSE)
        /\ r.nextOperation = m.nextOperation /\ r.nextEffect = m.nextEffect
        /\ r.phase = m.phase /\ r.gate = m.gate
    <3>1. r \in Machine
      BY <2>2, <2>4, MachineUpdate
    <3>2. /\ r.pending = Tail(m.pending)
          /\ r.ledger = ReleaseAll(m.ledger, front.reservation, FALSE, FALSE)
          /\ r.nextOperation = m.nextOperation /\ r.nextEffect = m.nextEffect
          /\ r.phase = m.phase /\ r.gate = m.gate
      <4> HIDE DEF front
      <4> QED BY DEF Machine
    <3> HIDE DEF r
    <3> QED
      BY <2>2, <2>3, <3>1, <3>2
  <2>6. told \in SUBSET Outcomes /\ {front.operation} \in SUBSET Operations
    <3> HIDE DEF front
    <3> QED BY <1>1, <2>2, RecordFields, OutcomeType
  <2>7. OnReply(m, key, reply) = FinishDrain(t)
    BY <1>5 DEF OnReply, Machine
  <2> HIDE DEF r, told
  <2>8. Books(r, P)
    BY <2>2, <2>5, RemovedBooks
  <2>9. t \in Transitions /\ t.machine = r /\ t.cancel = {front.operation} /\ t.schedule = {}
    <3> HIDE DEF front
    <3>1. /\ Transition(r) \in Transitions /\ Transition(r).machine = r
          /\ Transition(r).schedule = {}
      BY <2>5, TransitionType DEF Transition
    <3> QED
      BY <2>6, <3>1 DEF Transitions
  <2>10. {} \in SUBSET {m.pending[1].operation}
    OBVIOUS
  <2> HIDE DEF t
  <2> QED
    BY <2>2, <2>5, <2>7, <2>8, <2>9, <2>10, RemovalAccounts
<1> QED
  BY <1>2, <1>3, <1>4, <1>5

LEMMA WriteStartedBooks ==
  ASSUME NEW m \in Machine, NEW P, Books(m, P), NEW operation, Holds(m.pending, operation)
  PROVE  /\ WriteStarted(m, operation) \in Machine
         /\ Books(WriteStarted(m, operation), P)
         /\ Timed(WriteStarted(m, operation).pending) = Timed(m.pending)
<1> DEFINE record == RecordOf(m, operation)
           started == [record EXCEPT !.delivery = "PossiblySent", !.phase = "Writing"]
<1>1. record \in OperationRecord /\ record.operation = operation
  BY RecordOfType
<1>2. /\ started \in OperationRecord /\ started.operation = operation
      /\ started.effect = record.effect /\ started.reservation = record.reservation
      /\ started.deadline = record.deadline /\ started.writeHeld = record.writeHeld
  <2> HIDE DEF record
  <2> QED BY <1>1 DEF OperationRecord, OperationPhases, Deliveries
<1> HIDE DEF started
<1> QED
  BY <1>2, MarkingBooks DEF WriteStarted, started

LEMMA OnWriteCompletedAccounts ==
  ASSUME NEW m \in Machine, NEW P, Books(m, P), NEW operation, Holds(m.pending, operation),
         RecordOf(m, operation).writeHeld
  PROVE  Accounts(m, P, OnWriteCompleted(m, operation), {})
<1> DEFINE record == RecordOf(m, operation)
           i == IndexOf(m.pending, operation)
           l == ReleaseWrite(m.ledger, record.reservation.writeRetained)
           released == [m EXCEPT !.ledger = l]
           waiting == [record EXCEPT !.phase = IF record.phase = "Terminal" THEN "Terminal"
                                               ELSE "AwaitingReply",
                                     !.writeHeld = FALSE]
           r == [released EXCEPT !.pending = RemoveAt(m.pending, i),
                                 !.ledger = ReleaseAll(l, record.reservation, FALSE, FALSE)]
           told == IF record.phase = "Terminal" THEN {}
                   ELSE {Outcome(operation, "WriteComplete", record.delivery, 0)}
           t == [Transition(r) EXCEPT !.cancel = {operation}, !.publish = told]
<1>1. /\ record \in OperationRecord /\ operation \in Operations
      /\ i \in DOMAIN m.pending /\ m.pending[i] = record /\ record.operation = operation
  BY RecordOfType, HeldRecord
<1>2. l \in Ledger
  <2> HIDE DEF record
  <2> QED BY <1>1, MachineFields, RecordFields, ReleaseWriteType
<1>3. /\ released \in Machine /\ released.pending = m.pending
      /\ released.phase = m.phase /\ released.gate = m.gate /\ released.ledger = l
      /\ released.nextOperation = m.nextOperation /\ released.nextEffect = m.nextEffect
  <2> HIDE DEF l
  <2> QED BY <1>2 DEF Machine
<1>4. CASE record.completion = "ReplyExpected"
  <2> DEFINE w == SetRecord(released, operation, waiting)
  <2>1. /\ waiting \in OperationRecord /\ waiting.operation = record.operation
        /\ waiting.effect = record.effect /\ waiting.reservation = record.reservation
        /\ waiting.deadline = record.deadline /\ ~waiting.writeHeld
    <3> HIDE DEF record
    <3> QED BY <1>1 DEF OperationRecord, OperationPhases
  <2>2. OnWriteCompleted(m, operation) = Transition(w)
    <3>1. waiting = [record EXCEPT !.phase = IF @ = "Terminal" THEN @ ELSE "AwaitingReply",
                                   !.writeHeld = FALSE]
      <4> HIDE DEF record
      <4> QED BY <1>1 DEF OperationRecord
    <3>2. released = [m EXCEPT !.ledger = ReleaseWrite(@, record.reservation.writeRetained)]
      BY DEF Machine
    <3> QED
      BY <1>4, <3>1, <3>2 DEF OnWriteCompleted
  <2> HIDE DEF released, waiting
  <2>3. w \in Machine /\ w.phase = released.phase /\ w.gate = released.gate
    BY <1>3, <2>1, SetRecordType
  <2>4. /\ w.pending = [m.pending EXCEPT ![i] = waiting] /\ w.ledger = l
        /\ w.nextOperation = m.nextOperation /\ w.nextEffect = m.nextEffect
    <3> HIDE DEF l
    <3> QED BY <1>3 DEF SetRecord, Machine
  <2> HIDE DEF w, i, record
  <2>5. Books(w, P) /\ Timed(w.pending) = Timed(m.pending)
    <3>1. m.pending[i].writeHeld
      BY <1>1 DEF record
    <3> QED
      BY <1>1, <1>3, <2>1, <2>3, <2>4, <3>1, MarkedBooks
  <2> QED
    BY <2>2, <2>3, <2>5, QuietAccounts
<1>5. CASE record.completion # "ReplyExpected"
  <2>1. RemoveAt(m.pending, i) \in Seq(OperationRecord)
    BY MachineFields, IndexOfType, RemoveAtType
  <2>2. ReleaseAll(l, record.reservation, FALSE, FALSE) \in Ledger
    <3> HIDE DEF l, record
    <3> QED BY <1>1, <1>2, RecordFields, ReleaseAllType
  <2>3. /\ r \in Machine /\ r.pending = RemoveAt(m.pending, i)
        /\ r.ledger = ReleaseAll(l, record.reservation, FALSE, FALSE)
        /\ r.nextOperation = m.nextOperation /\ r.nextEffect = m.nextEffect
        /\ r.phase = m.phase /\ r.gate = m.gate
    <3> HIDE DEF l, record, released, i
    <3>1. r \in Machine
      BY <1>3, <2>1, <2>2, MachineUpdate
    <3> QED
      BY <1>3, <3>1 DEF Machine
  <2>4. told \in SUBSET Outcomes /\ {operation} \in SUBSET Operations
    <3> HIDE DEF record
    <3> QED BY <1>1, RecordFields, OutcomeType DEF OutcomeKinds
  <2>5. OnWriteCompleted(m, operation) = FinishDrain(t)
    <3>1. released = [m EXCEPT !.ledger = ReleaseWrite(@, record.reservation.writeRetained)]
      BY DEF Machine
    <3>2. r = [released EXCEPT
                 !.pending = RemoveAt(@, IndexOf(@, operation)),
                 !.ledger = ReleaseAll(@, record.reservation, FALSE, FALSE)]
      BY <1>3 DEF Machine
    <3> QED
      BY <1>5, <3>1, <3>2 DEF OnWriteCompleted
  <2> HIDE DEF r, told, i
  <2>6. Books(r, P)
    <3>1. /\ m.pending[i].writeHeld
          /\ r.ledger = ReleaseAll(ReleaseWrite(m.ledger, m.pending[i].reservation.writeRetained),
                                   m.pending[i].reservation, FALSE, FALSE)
      BY <1>1, <2>3
    <3> QED
      BY <1>1, <2>3, <3>1, CompletedBooks
  <2>7. t \in Transitions /\ t.machine = r /\ t.cancel = {operation} /\ t.schedule = {}
    <3>1. /\ Transition(r) \in Transitions /\ Transition(r).machine = r
          /\ Transition(r).schedule = {}
      BY <2>3, TransitionType DEF Transition
    <3> QED
      BY <2>4, <3>1 DEF Transitions
  <2>8. {} \in SUBSET {operation}
    OBVIOUS
  <2> HIDE DEF t, record
  <2> QED
    BY <1>1, <2>3, <2>5, <2>6, <2>7, <2>8, RemovalAccounts
<1> QED
  BY <1>4, <1>5

(***************************************************************************)
(* More about sums and counts.                                             *)
(***************************************************************************)
LEMMA TotalMonotone ==
  ASSUME NEW field, NEW S, Countable(field, S), NEW T \in SUBSET S
  PROVE  Countable(field, T) /\ Total(field, T) <= Total(field, S)
<1> DEFINE Fits(D) == Countable(field, S \ D) /\ Total(field, S \ D) <= Total(field, S)
           G == {n \in 0..Cardinality(S) : \A D \in SUBSET S : Cardinality(D) = n => Fits(D)}
<1>1. IsFiniteSet(S) /\ Cardinality(S) \in Nat
  BY FS_CardinalityType DEF Countable
<1>2. 0 \in G
  <2>1. ASSUME NEW D \in SUBSET S, Cardinality(D) = 0 PROVE Fits(D)
    <3>1. IsFiniteSet(D)
      BY <1>1, FS_Subset
    <3>2. D = {}
      BY <2>1, <3>1, FS_EmptySet
    <3>3. S \ D = S /\ Total(field, S) \in Nat
      BY <3>2, TotalType
    <3>4. Total(field, S) <= Total(field, S)
      BY <3>3
    <3> QED
      BY <3>3, <3>4
  <2> HIDE DEF Fits
  <2> QED
    BY <1>1, <2>1
<1>3. ASSUME NEW n \in 0..(Cardinality(S) - 1), n \in G PROVE n + 1 \in G
  <2>1. ASSUME NEW D \in SUBSET S, Cardinality(D) = n + 1 PROVE Fits(D)
    <3>1. IsFiniteSet(D) /\ D # {}
      BY <1>1, <2>1, FS_Subset, FS_EmptySet
    <3>2. PICK x \in D : TRUE
      BY <3>1
    <3> DEFINE E == D \ {x}
    <3>3. E \in SUBSET S /\ Cardinality(E) = n
      <4>1. E \in SUBSET S /\ Cardinality(E) = Cardinality(D) - 1
        BY <1>1, <3>2, SmallerSubset
      <4> QED
        BY <2>1, <4>1
    <3>4. Fits(E)
      BY <1>3, <3>3
    <3>5. x \in S \ E /\ (S \ E) \ {x} = S \ D
      BY <3>2
    <3> DEFINE A == S \ E
               B == S \ D
    <3>8. Countable(field, A) /\ x \in A /\ A \ {x} = B
      BY <3>4, <3>5
    <3> HIDE DEF E, A, B
    <3>9. Countable(field, A \ {x}) /\ Total(field, A) = x[2][field] + Total(field, A \ {x})
      BY <3>8, TotalRemove
    <3>6. /\ Countable(field, S \ D)
          /\ Total(field, S \ E) = x[2][field] + Total(field, S \ D)
      BY <3>8, <3>9, Zenon DEF A, B
    <3>7. x[2][field] \in Nat /\ Total(field, S \ D) \in Nat /\ Total(field, S) \in Nat
      BY <3>6, TotalType DEF Countable
    <3> QED
      BY <3>4, <3>6, <3>7
  <2>2. n + 1 \in 0..Cardinality(S)
    BY <1>1
  <2> HIDE DEF Fits
  <2> QED
    BY <2>1, <2>2
<1>4. 0..Cardinality(S) \subseteq G
  <2> HIDE DEF G
  <2> QED
    BY <1>1, <1>2, <1>3, BoundedInduction
<1> DEFINE D == S \ T
<1>5. D \in SUBSET S /\ S \ D = T
  OBVIOUS
<1>6. Cardinality(D) \in 0..Cardinality(S)
  BY <1>1, <1>5, FS_Subset, FS_CardinalityType
<1>7. Fits(D)
  <2> HIDE DEF Fits, D
  <2> QED
    BY <1>4, <1>5, <1>6
<1> QED
  BY <1>5, <1>7

\* A set that a one-to-one function on 1..n enumerates has n elements.
LEMMA Enumerated ==
  ASSUME NEW n \in Nat, NEW S, NEW f \in [1..n -> S],
         \A i, j \in 1..n : f[i] = f[j] => i = j,
         \A x \in S : \E i \in 1..n : f[i] = x
  PROVE  IsFiniteSet(S) /\ Cardinality(S) = n
<1>1. f \in Bijection(1..n, S)
  BY DEF Bijection, Injection, Surjection, IsInjective
<1>2. ExistsBijection(1..n, S)
  BY <1>1 DEF ExistsBijection
<1> QED
  BY <1>2, FS_CountingElements, FS_NatBijection

LEMMA SlotsCounted ==
  ASSUME NEW s \in Seq(OperationRecord), Distinct(s)
  PROVE  IsFiniteSet(Owed(s)) /\ Cardinality(Owed(s)) = Len(s)
<1> DEFINE f == [i \in 1..Len(s) |-> HeldBy(s[i])]
<1>1. Len(s) \in Nat /\ DOMAIN s = 1..Len(s)
  OBVIOUS
<1>2. f \in [1..Len(s) -> Owed(s)] /\ \A x \in Owed(s) : \E i \in 1..Len(s) : f[i] = x
  BY <1>1 DEF Owed
<1>3. \A i, j \in 1..Len(s) : f[i] = f[j] => i = j
  BY <1>1 DEF Distinct, HeldBy
<1> HIDE DEF f
<1> QED
  BY <1>1, <1>2, <1>3, Enumerated

(***************************************************************************)
(* Alignment: k records at the front of the FIFO have sent their frames,   *)
(* and the others hold the writer's frames, one each and in order.         *)
(***************************************************************************)
Matches(frame, record) ==
  /\ frame.operation = record.operation /\ frame.effect = record.effect
  /\ frame.retained = record.reservation.writeRetained
  /\ frame.started <=> record.delivery = "PossiblySent"

\* A record that holds its untouched frame is queued; one that waits for its
\* reply holds none; a tombstone has been sent from.
RecordSound(record) ==
  /\ record.delivery = "NotSent" /\ record.writeHeld => record.phase = "Queued"
  /\ record.phase = "AwaitingReply" => ~record.writeHeld
  /\ record.phase = "Terminal" => record.delivery = "PossiblySent"

AlignedAt(k, s, w) ==
  /\ k \in Nat /\ Len(s) = k + Len(w)
  /\ \A i \in 1..k : ~s[i].writeHeld
  /\ \A i \in 1..Len(w) : s[k + i].writeHeld /\ Matches(w[i], s[k + i])
  /\ \A i \in 2..Len(w) : ~w[i].started
  /\ \A i \in 1..Len(s) : RecordSound(s[i])

Aligned(s, w) == \E k \in Nat : AlignedAt(k, s, w)

\* Alignment, and the writer's budget is what the frames retain.
Matched(s, w, b) == Aligned(s, w) /\ b = Total("writeRetained", OwedFrames(s))

\* Each record names one operation and one effect.
Named(s) ==
  Distinct(s) /\ \A i \in DOMAIN s : s[i].effect = s[i].operation + Shift

\* Records whose marks the writer does not see.
Alike(r, s) ==
  /\ r \in Seq(OperationRecord) /\ Len(r) = Len(s)
  /\ \A i \in 1..Len(s) : /\ r[i].operation = s[i].operation
                          /\ r[i].effect = s[i].effect
                          /\ r[i].reservation = s[i].reservation
                          /\ r[i].delivery = s[i].delivery
                          /\ r[i].writeHeld = s[i].writeHeld
                          /\ RecordSound(s[i]) => RecordSound(r[i])

LEMMA EmptyMatched == Matched(<<>>, <<>>, 0)
<1>1. AlignedAt(0, <<>>, <<>>)
  BY DEF AlignedAt
<1>2. OwedFrames(<<>>) = {}
  BY DEF OwedFrames
<1> QED
  BY <1>1, <1>2, TotalEmpty DEF Matched, Aligned

LEMMA BytesRemove ==
  ASSUME NEW S, IsFiniteSet(S), S \subseteq Pairs, NEW x \in S
  PROVE  /\ Countable("writeRetained", S \ {x}) /\ x[2].writeRetained \in Nat
         /\ Total("writeRetained", S) \in Nat /\ Total("writeRetained", S \ {x}) \in Nat
         /\ Total("writeRetained", S) = x[2].writeRetained + Total("writeRetained", S \ {x})
<1>1. Countable("writeRetained", S) /\ x[2].writeRetained \in Nat
  BY PairsCountable, PairFields
<1>2. /\ Countable("writeRetained", S \ {x})
      /\ Total("writeRetained", S) = x[2].writeRetained + Total("writeRetained", S \ {x})
  BY <1>1, TotalRemove
<1> QED
  BY <1>1, <1>2, TotalType

LEMMA NamedRemoved ==
  ASSUME NEW s \in Seq(OperationRecord), Named(s), NEW i \in DOMAIN s
  PROVE  Named(RemoveAt(s, i)) /\ RemoveAt(s, i) \in Seq(OperationRecord)
<1>1. Distinct(s)
  BY DEF Named
<1>2. /\ Distinct(RemoveAt(s, i))
      /\ \A k \in DOMAIN RemoveAt(s, i) : \E j \in DOMAIN s : RemoveAt(s, i)[k] = s[j]
  BY <1>1, RemovedRecord
<1>3. RemoveAt(s, i) \in Seq(OperationRecord)
  BY RemoveAtType
<1> QED
  BY <1>2, <1>3 DEF Named

Rest(s, i) == SubSeq(s, i + 1, Len(s))

LEMMA RestSteps ==
  ASSUME NEW s \in Seq(OperationRecord), NEW i \in 0..(Len(s) - 1)
  PROVE  /\ Rest(s, i) \in Seq(OperationRecord) /\ 1 \in DOMAIN Rest(s, i)
         /\ Rest(s, i)[1] = s[i + 1] /\ RemoveAt(Rest(s, i), 1) = Rest(s, i + 1)
<1> DEFINE n == Len(s)
           a == Rest(s, i)
           b == Rest(s, i + 1)
<1>1. n \in Nat /\ i \in Nat /\ i < n
  OBVIOUS
<1>2. a \in Seq(OperationRecord) /\ Len(a) = n - i /\ \A j \in 1..(n - i) : a[j] = s[i + j]
  BY <1>1 DEF Rest
<1>3. /\ b \in Seq(OperationRecord) /\ Len(b) = n - (i + 1)
      /\ \A j \in 1..(n - (i + 1)) : b[j] = s[(i + 1) + j]
  BY <1>1 DEF Rest
<1> HIDE DEF a, b, n
<1>4. 1 \in DOMAIN a /\ 1 \in 1..(n - i)
  BY <1>1, <1>2
<1>5. /\ RemoveAt(a, 1) \in Seq(OperationRecord) /\ Len(RemoveAt(a, 1)) = n - (i + 1)
      /\ \A j \in 1..(n - (i + 1)) : RemoveAt(a, 1)[j] = a[j + 1]
  <2>1. Len(a) - 1 = n - (i + 1)
    BY <1>1, <1>2
  <2>2. \A j \in 1..(Len(a) - 1) : RemoveAt(a, 1)[j] = IF j < 1 THEN a[j] ELSE a[j + 1]
    BY <1>2, <1>4, RemoveAtItems
  <2>3. RemoveAt(a, 1) \in Seq(OperationRecord) /\ Len(RemoveAt(a, 1)) = Len(a) - 1
    BY <1>2, <1>4, RemoveAtType
  <2>4. \A j \in 1..(n - (i + 1)) : ~(j < 1)
    BY <1>1
  <2> QED
    BY <2>1, <2>2, <2>3, <2>4
<1>6. \A j \in 1..(n - (i + 1)) : RemoveAt(a, 1)[j] = b[j]
  <2> TAKE j \in 1..(n - (i + 1))
  <2>1. j + 1 \in 1..(n - i) /\ i + (j + 1) = (i + 1) + j
    BY <1>1
  <2> QED
    BY <1>2, <1>3, <1>5, <2>1
<1>7. RemoveAt(a, 1) = b
  BY <1>3, <1>5, <1>6
<1> QED
  BY <1>2, <1>4, <1>7 DEF a, b

LEMMA RestEnds ==
  ASSUME NEW s \in Seq(OperationRecord)
  PROVE  Rest(s, 0) = s /\ Rest(s, Len(s)) = <<>>
<1>1. Len(s) \in Nat
  OBVIOUS
<1>2. /\ SubSeq(s, 1, Len(s)) \in Seq(OperationRecord)
      /\ Len(SubSeq(s, 1, Len(s))) = Len(s)
      /\ \A j \in 1..Len(s) : SubSeq(s, 1, Len(s))[j] = s[j]
  OBVIOUS
<1>3. SubSeq(s, 1, Len(s)) = s
  BY <1>2
<1>4. SubSeq(s, Len(s) + 1, Len(s)) = <<>>
  BY <1>1
<1>5. 0 + 1 = 1
  OBVIOUS
<1> QED
  BY <1>3, <1>4, <1>5 DEF Rest

(***************************************************************************)
(* What a transition removes from the FIFO it also discards: nothing, one  *)
(* record, a record whose frame is gone, or everything.                    *)
(***************************************************************************)
Discards(s, discard, r) ==
  \/ discard = <<>> /\ Alike(r, s)
  \/ \E i \in DOMAIN s : /\ r = RemoveAt(s, i)
                         /\ discard = <<s[i]>> \/ (discard = <<>> /\ ~s[i].writeHeld)
  \/ discard = s /\ r = <<>>

(***************************************************************************)
(* What a transition publishes: one outcome, with the delivery it has      *)
(* reached, for each record that stops being observed, and no other.       *)
(***************************************************************************)
Live(s) == {s[i].operation : i \in {j \in DOMAIN s : s[j].phase # "Terminal"}}

Tells(s, publish, r) ==
  /\ \A x \in publish : \E i \in DOMAIN s :
       /\ s[i].phase # "Terminal"
       /\ x.operation = s[i].operation /\ x.delivery = s[i].delivery
       /\ x.kind \in {"Reply", "WriteComplete"} => ~s[i].writeHeld
  /\ \A x, y \in publish : x.operation = y.operation => x = y
  /\ Live(r) = Live(s) \ {x.operation : x \in publish}

Resolves(m, t) ==
  /\ Discards(m.pending, t.discard, t.machine.pending)
  /\ Tells(m.pending, t.publish, t.machine.pending)

Sound(m) ==
  /\ Distinct(m.pending)
  /\ \A i \in DOMAIN m.pending : RecordSound(m.pending[i])

LEMMA AlikeSelf ==
  ASSUME NEW s \in Seq(OperationRecord)
  PROVE  Alike(s, s)
  BY DEF Alike

LEMMA QuietResolves ==
  ASSUME NEW m \in Machine, NEW t, t.machine.pending = m.pending, t.discard = <<>>,
         t.publish = {}
  PROVE  Resolves(m, t)
<1>1. Alike(m.pending, m.pending)
  BY MachineFields, AlikeSelf
<1>2. Tells(m.pending, {}, m.pending)
  BY DEF Tells
<1> QED
  BY <1>1, <1>2 DEF Resolves, Discards

\* A drain that ends closes an empty FIFO.
LEMMA FinishKeeps ==
  ASSUME NEW t \in Transitions
  PROVE  /\ FinishDrain(t).discard = t.discard /\ FinishDrain(t).publish = t.publish
         /\ FinishDrain(t).machine.pending = t.machine.pending
<1>1. t.machine \in Machine /\ t.discard \in Seq(OperationRecord)
  BY TransitionFields
<1>2. t.discard \o <<>> = t.discard
  BY <1>1
<1>3. CASE t.machine.gate = "Draining" /\ t.machine.pending = <<>> /\ t.machine.phase = "Live"
  <2>1. FinishDrain(t) = CloseInto(t, "Drained", {})
    BY <1>3 DEF FinishDrain
  <2>2. /\ CloseInto(t, "Drained", {}).discard = t.discard \o <<>>
        /\ CloseInto(t, "Drained", {}).machine.pending = <<>>
        /\ CloseInto(t, "Drained", {}).publish = t.publish \cup ClosureOutcomes(<<>>, {})
    BY <1>1, <1>3 DEF CloseInto, Transitions, Machine
  <2>3. ClosureOutcomes(<<>>, {}) = {}
    BY DEF ClosureOutcomes
  <2> QED
    BY <1>2, <1>3, <2>1, <2>2, <2>3
<1>4. CASE ~(t.machine.gate = "Draining" /\ t.machine.pending = <<>> /\ t.machine.phase = "Live")
  <2>1. FinishDrain(t) = t
    BY <1>4 DEF FinishDrain, CloseInto
  <2> QED
    BY <2>1
<1> QED
  BY <1>3, <1>4

LEMMA FinishReason ==
  ASSUME NEW t \in Transitions
  PROVE  \/ FinishDrain(t) = t
         \/ /\ FinishDrain(t).machine.phase = "Closing"
            /\ FinishDrain(t).machine.closeReason = "Drained"
<1> DEFINE closed == CloseInto(t, "Drained", {}).machine
<1>1. t.machine \in Machine
  BY TransitionFields
<1>2. CASE t.machine.phase = "Live"
  <2>1. closed = [t.machine EXCEPT !.gate = "Closed", !.phase = "Closing",
                                   !.closeReason = "Drained", !.pending = <<>>,
                                   !.ledger = ReleaseRecords(@, t.machine.pending)]
    BY <1>2 DEF CloseInto, Transitions
  <2>2. closed.phase = "Closing" /\ closed.closeReason = "Drained"
    BY <1>1, <2>1 DEF Machine
  <2>3. FinishDrain(t) = t \/ FinishDrain(t).machine = closed
    BY DEF FinishDrain
  <2> HIDE DEF closed
  <2> QED
    BY <2>2, <2>3
<1>3. CASE t.machine.phase # "Live"
  BY <1>3 DEF FinishDrain, CloseInto
<1> QED
  BY <1>2, <1>3

LEMMA FinishResolves ==
  ASSUME NEW m, NEW t \in Transitions, Resolves(m, t)
  PROVE  Resolves(m, FinishDrain(t))
  BY FinishKeeps DEF Resolves

LEMMA ClosureTells ==
  ASSUME NEW s \in Seq(OperationRecord), Distinct(s), NEW blamed
  PROVE  Tells(s, ClosureOutcomes(s, blamed), <<>>)
<1> DEFINE live == {j \in DOMAIN s : s[j].phase # "Terminal"}
           kind(i) == IF s[i].operation \in blamed THEN "MatchKeyMismatch" ELSE "ConnectionClosed"
           told(i) == Outcome(s[i].operation, kind(i), s[i].delivery, 0)
<1>1. ClosureOutcomes(s, blamed) = {told(i) : i \in live}
  BY DEF ClosureOutcomes
<1>2. \A i \in live : /\ told(i).operation = s[i].operation /\ told(i).delivery = s[i].delivery
                      /\ told(i).kind \notin {"Reply", "WriteComplete"}
                      /\ i \in DOMAIN s /\ s[i].phase # "Terminal"
  BY DEF Outcome
<1>3. \A i, j \in live : s[i].operation = s[j].operation => i = j
  BY DEF Distinct
<1>4. Live(s) = {s[i].operation : i \in live} /\ Live(<<>>) = {}
  BY DEF Live
<1> HIDE DEF live, told
<1>5. \A x \in ClosureOutcomes(s, blamed) : \E i \in live : x = told(i)
  BY <1>1
<1>6. \A x, y \in ClosureOutcomes(s, blamed) : x.operation = y.operation => x = y
  BY <1>2, <1>3, <1>5
<1>7. \A o \in Live(s) : \E x \in ClosureOutcomes(s, blamed) : x.operation = o
  BY <1>1, <1>2, <1>4
<1>8. \A x \in ClosureOutcomes(s, blamed) : \E i \in DOMAIN s :
       /\ s[i].phase # "Terminal"
       /\ x.operation = s[i].operation /\ x.delivery = s[i].delivery
       /\ x.kind \in {"Reply", "WriteComplete"} => ~s[i].writeHeld
  BY <1>2, <1>5
<1>9. Live(<<>>) = Live(s) \ {x.operation : x \in ClosureOutcomes(s, blamed)}
  BY <1>4, <1>7
<1> QED
  BY <1>6, <1>8, <1>9 DEF Tells

LEMMA CloseResolves ==
  ASSUME NEW m \in Machine, Distinct(m.pending), NEW reason, NEW blamed
  PROVE  Resolves(m, CloseInto(Transition(m), reason, blamed))
<1> DEFINE t == CloseInto(Transition(m), reason, blamed)
<1>1. m.pending \in Seq(OperationRecord)
  BY MachineFields
<1>2. CASE m.phase # "Live"
  <2>1. t = Transition(m)
    BY <1>2 DEF CloseInto, Transition
  <2>a. /\ Transition(m).machine.pending = m.pending /\ Transition(m).discard = <<>>
        /\ Transition(m).publish = {}
    BY DEF Transition
  <2> HIDE DEF t
  <2>2. t.machine.pending = m.pending /\ t.discard = <<>> /\ t.publish = {}
    BY <2>1, <2>a
  <2>3. Resolves(m, t)
    BY <2>2, QuietResolves
  <2> QED
    BY <2>3 DEF t
<1>3. CASE m.phase = "Live"
  <2>1. /\ t.discard = <<>> \o m.pending /\ t.machine.pending = <<>>
        /\ t.publish = {} \cup ClosureOutcomes(m.pending, blamed)
    BY <1>3 DEF CloseInto, Transition, Machine
  <2>2. <<>> \o m.pending = m.pending
    BY <1>1
  <2> HIDE DEF t
  <2>3. t.discard = m.pending /\ t.publish = ClosureOutcomes(m.pending, blamed)
    BY <2>1, <2>2
  <2>4. Tells(m.pending, t.publish, <<>>)
    BY <1>1, <2>3, ClosureTells
  <2>5. Resolves(m, t)
    BY <2>1, <2>3, <2>4 DEF Resolves, Discards
  <2> QED
    BY <2>5 DEF t
<1> QED
  BY <1>2, <1>3

LEMMA LiveRemoved ==
  ASSUME NEW s \in Seq(OperationRecord), Distinct(s), NEW i \in DOMAIN s
  PROVE  /\ Live(RemoveAt(s, i)) = Live(s) \ {s[i].operation}
         /\ s[i].phase = "Terminal" => s[i].operation \notin Live(s)
<1> DEFINE r == RemoveAt(s, i)
           n == Len(s) - 1
<1>1. /\ DOMAIN r = 1..n
      /\ \A j \in 1..n : r[j] = IF j < i THEN s[j] ELSE s[j + 1]
      /\ \A k \in DOMAIN s : k # i => \E j \in 1..n : r[j] = s[k]
  BY RemoveAtItems
<1>2. ASSUME NEW j \in 1..n PROVE \E k \in DOMAIN s : k # i /\ r[j] = s[k]
  <2>1. (IF j < i THEN j ELSE j + 1) \in DOMAIN s /\ (IF j < i THEN j ELSE j + 1) # i
    OBVIOUS
  <2> QED
    BY <1>1, <2>1
<1>3. \A k \in DOMAIN s : k # i => s[k].operation # s[i].operation
  BY DEF Distinct
<1> HIDE DEF r, n
<1>4. ASSUME NEW o \in Live(r) PROVE o \in Live(s) /\ o # s[i].operation
  <2>1. PICK j \in 1..n : o = r[j].operation /\ r[j].phase # "Terminal"
    BY <1>1 DEF Live
  <2> QED
    BY <1>2, <1>3, <2>1 DEF Live
<1>5. ASSUME NEW o \in Live(s), o # s[i].operation PROVE o \in Live(r)
  <2>1. PICK k \in DOMAIN s : o = s[k].operation /\ s[k].phase # "Terminal"
    BY DEF Live
  <2> QED
    BY <1>1, <1>5, <2>1 DEF Live
<1>6. ASSUME s[i].phase = "Terminal", s[i].operation \in Live(s) PROVE FALSE
  <2>1. PICK k \in DOMAIN s : s[i].operation = s[k].operation /\ s[k].phase # "Terminal"
    BY <1>6 DEF Live
  <2> QED
    BY <1>3, <1>6, <2>1
<1> QED
  BY <1>4, <1>5, <1>6 DEF r

LEMMA RemovedTells ==
  ASSUME NEW s \in Seq(OperationRecord), Distinct(s), NEW i \in DOMAIN s, NEW told,
         \/ told = {} /\ s[i].phase = "Terminal"
         \/ \E x : /\ told = {x} /\ s[i].phase # "Terminal"
                   /\ x.operation = s[i].operation /\ x.delivery = s[i].delivery
                   /\ x.kind \in {"Reply", "WriteComplete"} => ~s[i].writeHeld
  PROVE  Tells(s, told, RemoveAt(s, i))
<1>1. /\ Live(RemoveAt(s, i)) = Live(s) \ {s[i].operation}
      /\ s[i].phase = "Terminal" => s[i].operation \notin Live(s)
  BY LiveRemoved
<1>2. CASE told = {} /\ s[i].phase = "Terminal"
  <2>1. Live(RemoveAt(s, i)) = Live(s) \ {x.operation : x \in told}
    BY <1>1, <1>2
  <2> QED
    BY <1>2, <2>1 DEF Tells
<1>3. ASSUME NEW x, told = {x}, s[i].phase # "Terminal",
             x.operation = s[i].operation, x.delivery = s[i].delivery,
             x.kind \in {"Reply", "WriteComplete"} => ~s[i].writeHeld
      PROVE  Tells(s, told, RemoveAt(s, i))
  <2>1. {y.operation : y \in told} = {s[i].operation}
    BY <1>3
  <2>2. Live(RemoveAt(s, i)) = Live(s) \ {y.operation : y \in told}
    BY <1>1, <2>1
  <2> QED
    BY <1>3, <2>2 DEF Tells
<1> QED
  BY <1>2, <1>3

LEMMA RemoveNotSentResolves ==
  ASSUME NEW m \in Machine, Sound(m), NEW operation, Holds(m.pending, operation),
         RecordOf(m, operation).delivery = "NotSent",
         NEW kind \in {"Cancelled", "DeadlineElapsed"}
  PROVE  Resolves(m, RemoveNotSent(m, operation, kind))
<1> DEFINE i == IndexOf(m.pending, operation)
           r == RemoveRecord(m, operation)
           outcome == Outcome(operation, kind, "NotSent", 0)
           t == [Transition(r) EXCEPT !.discard = <<RecordOf(m, operation)>>,
                                      !.cancel = {operation}, !.publish = {outcome}]
<1>1. /\ i \in DOMAIN m.pending /\ m.pending[i] = RecordOf(m, operation)
      /\ m.pending[i].operation = operation /\ m.pending[i] \in OperationRecord
      /\ m.pending \in Seq(OperationRecord)
  BY HeldRecord
<1>2. r \in Machine /\ operation \in Operations /\ RecordOf(m, operation) \in OperationRecord
  BY RemoveRecordType, RecordOfType
<1>3. r.pending = RemoveAt(m.pending, i)
  BY DEF RemoveRecord, Machine
<1>4. /\ outcome \in Outcomes /\ outcome.operation = operation /\ outcome.delivery = "NotSent"
      /\ outcome.kind = kind
  BY <1>2, OutcomeType DEF Deliveries, OutcomeKinds, Outcome
<1>5. RemoveNotSent(m, operation, kind) = FinishDrain(t)
  BY DEF RemoveNotSent
<1>6. m.pending[i].phase # "Terminal"
  BY <1>1 DEF Sound, RecordSound
<1> HIDE DEF i, r, outcome
<1>7. /\ t \in Transitions /\ t.machine = r /\ t.publish = {outcome}
      /\ t.discard = <<m.pending[i]>>
  <2>1. /\ <<RecordOf(m, operation)>> \in Seq(OperationRecord)
        /\ {operation} \in SUBSET Operations /\ {outcome} \in SUBSET Outcomes
    BY <1>2, <1>4
  <2> QED
    BY <1>1, <1>2, <2>1 DEF Transition, Transitions
<1> HIDE DEF t
<1>8. Discards(m.pending, t.discard, t.machine.pending)
  BY <1>1, <1>3, <1>7 DEF Discards
<1>9. Tells(m.pending, t.publish, t.machine.pending)
  <2>1. /\ Distinct(m.pending) /\ outcome.operation = m.pending[i].operation
        /\ outcome.delivery = m.pending[i].delivery
        /\ outcome.kind \notin {"Reply", "WriteComplete"}
    BY <1>1, <1>4 DEF Sound
  <2>2. Tells(m.pending, {outcome}, RemoveAt(m.pending, i))
    BY <1>1, <1>6, <2>1, RemovedTells
  <2> QED
    BY <1>3, <1>7, <2>2
<1>10. Resolves(m, t)
  BY <1>8, <1>9 DEF Resolves
<1> QED
  BY <1>5, <1>7, <1>10, FinishResolves

LEMMA GateResolves ==
  ASSUME NEW m \in Machine
  PROVE  Resolves(m, OnOpenAdmission(m)) /\ Resolves(m, OnBeginDrain(m))
         /\ Resolves(m, OnEpochClosed(m))
<1>1. ASSUME NEW r \in Machine, r.pending = m.pending
      PROVE  Resolves(m, Transition(r)) /\ Resolves(m, FinishDrain(Transition(r)))
  <2>1. /\ Transition(r).machine.pending = m.pending /\ Transition(r).discard = <<>>
        /\ Transition(r).publish = {} /\ Transition(r) \in Transitions
    BY <1>1, TransitionType DEF Transition
  <2>2. Resolves(m, Transition(r))
    BY <2>1, QuietResolves
  <2> QED
    BY <2>1, <2>2, FinishResolves
<1> DEFINE opened == IF m.phase = "Live" /\ m.gate = "SessionOnly"
                     THEN [m EXCEPT !.gate = "Open"] ELSE m
           drained == [m EXCEPT !.gate = "Draining"]
           closed == IF m.phase = "Closing"
                     THEN [m EXCEPT !.phase = "Closed", !.gate = "Closed"] ELSE m
<1>2. /\ opened \in Machine /\ opened.pending = m.pending
      /\ drained \in Machine /\ drained.pending = m.pending
      /\ closed \in Machine /\ closed.pending = m.pending
  BY DEF Machine, Gates, Phases
<1>3. /\ OnOpenAdmission(m) = Transition(opened)
      /\ OnEpochClosed(m) = Transition(closed)
      /\ OnBeginDrain(m) = IF m.phase # "Live" \/ m.gate \in {"Closed", "Draining"}
                           THEN Transition(m) ELSE FinishDrain(Transition(drained))
  BY DEF OnOpenAdmission, OnEpochClosed, OnBeginDrain
<1> HIDE DEF opened, drained, closed
<1> QED
  BY <1>1, <1>2, <1>3

LEMMA LiveMarked ==
  ASSUME NEW s \in Seq(OperationRecord), Distinct(s), NEW i \in DOMAIN s,
         NEW r \in OperationRecord, r.operation = s[i].operation
  PROVE  /\ r.phase = "Terminal" => Live([s EXCEPT ![i] = r]) = Live(s) \ {r.operation}
         /\ (r.phase = "Terminal" <=> s[i].phase = "Terminal")
              => Live([s EXCEPT ![i] = r]) = Live(s)
<1> DEFINE q == [s EXCEPT ![i] = r]
<1>1. DOMAIN q = DOMAIN s /\ q[i] = r /\ \A k \in DOMAIN s : k # i => q[k] = s[k]
  OBVIOUS
<1>2. \A k \in DOMAIN s : k # i => s[k].operation # r.operation
  BY DEF Distinct
<1> HIDE DEF q
<1>3. ASSUME r.phase = "Terminal" PROVE Live(q) = Live(s) \ {r.operation}
  <2>1. ASSUME NEW o \in Live(q) PROVE o \in Live(s) /\ o # r.operation
    BY <1>1, <1>2, <1>3 DEF Live
  <2>2. ASSUME NEW o \in Live(s), o # r.operation PROVE o \in Live(q)
    BY <1>1, <2>2 DEF Live
  <2> QED
    BY <2>1, <2>2
<1>4. ASSUME r.phase = "Terminal" <=> s[i].phase = "Terminal" PROVE Live(q) = Live(s)
  <2>1. \A k \in DOMAIN s : /\ q[k].operation = s[k].operation
                            /\ q[k].phase = "Terminal" <=> s[k].phase = "Terminal"
    BY <1>1, <1>4
  <2> QED
    BY <1>1, <2>1 DEF Live
<1> QED
  BY <1>3, <1>4 DEF q

LEMMA MarkedPending ==
  ASSUME NEW m \in Machine, NEW operation, NEW record
  PROVE  SetRecord(m, operation, record).pending
           = [m.pending EXCEPT ![IndexOf(m.pending, operation)] = record]
  BY DEF SetRecord, Machine

LEMMA OnCancelResolves ==
  ASSUME NEW m \in Machine, Sound(m), NEW operation
  PROVE  Resolves(m, OnCancel(m, operation))
<1> DEFINE record == RecordOf(m, operation)
           s == m.pending
           i == IndexOf(m.pending, operation)
           tomb == [record EXCEPT !.phase = "Terminal"]
           marked == SetRecord(m, operation, tomb)
           outcome == Outcome(operation, "Cancelled", "PossiblySent", 0)
           t == [Transition(marked) EXCEPT !.publish = {outcome}]
<1>1. CASE ~Holds(m.pending, operation) \/ record.phase = "Terminal"
  <2>1. OnCancel(m, operation) = Transition(m)
    BY <1>1 DEF OnCancel
  <2>2. /\ Transition(m).machine.pending = m.pending /\ Transition(m).discard = <<>>
        /\ Transition(m).publish = {}
    BY DEF Transition
  <2> QED
    BY <2>1, <2>2, QuietResolves
<1>2. CASE Holds(m.pending, operation) /\ record.phase # "Terminal" /\ record.delivery = "NotSent"
  <2>1. OnCancel(m, operation) = RemoveNotSent(m, operation, "Cancelled")
    BY <1>2 DEF OnCancel
  <2> QED
    BY <1>2, <2>1, RemoveNotSentResolves
<1>3. CASE Holds(m.pending, operation) /\ record.phase # "Terminal" /\ record.delivery # "NotSent"
  <2>1. /\ i \in DOMAIN s /\ s[i] = record /\ record.operation = operation
        /\ record \in OperationRecord /\ s \in Seq(OperationRecord)
    BY <1>3, HeldRecord
  <2>2. record.delivery = "PossiblySent"
    <3> HIDE DEF record
    <3> QED
      BY <1>3, <2>1, RecordFields DEF Deliveries
  <2>3. /\ tomb \in OperationRecord /\ tomb.operation = operation
        /\ tomb.effect = record.effect /\ tomb.reservation = record.reservation
        /\ tomb.delivery = record.delivery /\ tomb.writeHeld = record.writeHeld
        /\ tomb.phase = "Terminal"
    <3> HIDE DEF record
    <3> QED BY <2>1 DEF OperationRecord, OperationPhases
  <2>4. OnCancel(m, operation) = t
    BY <1>3 DEF OnCancel
  <2>5. /\ outcome.operation = operation /\ outcome.delivery = "PossiblySent"
        /\ outcome.kind = "Cancelled"
    BY DEF Outcome
  <2>6. marked.pending = [s EXCEPT ![i] = tomb]
    BY MarkedPending
  <2> HIDE DEF tomb, marked, outcome
  <2>7. t.machine = marked /\ t.discard = <<>> /\ t.publish = {outcome}
    BY DEF Transition
  <2>8. RecordSound(tomb)
    BY <2>2, <2>3 DEF RecordSound
  <2> HIDE DEF record, i, s, t
  <2>9. Alike([s EXCEPT ![i] = tomb], s)
    BY <2>1, <2>3, <2>8 DEF Alike
  <2>10. Distinct(s)
    BY DEF Sound, s
  <2>11. Live([s EXCEPT ![i] = tomb]) = Live(s) \ {operation}
    BY <2>1, <2>3, <2>10, LiveMarked
  <2>12. Tells(s, {outcome}, [s EXCEPT ![i] = tomb])
    <3>1. {x.operation : x \in {outcome}} = {operation}
      BY <2>5
    <3>2. \A x \in {outcome} : \E j \in DOMAIN s :
            /\ s[j].phase # "Terminal"
            /\ x.operation = s[j].operation /\ x.delivery = s[j].delivery
            /\ x.kind \in {"Reply", "WriteComplete"} => ~s[j].writeHeld
      BY <1>3, <2>1, <2>2, <2>5
    <3> QED
      BY <2>11, <3>1, <3>2 DEF Tells
  <2> QED
    BY <2>4, <2>6, <2>7, <2>9, <2>12 DEF Resolves, Discards, s
<1> QED
  BY <1>1, <1>2, <1>3

LEMMA OnDeadlineElapsedResolves ==
  ASSUME NEW m \in Machine, Sound(m), NEW operation, NEW now
  PROVE  Resolves(m, OnDeadlineElapsed(m, operation, now))
<1> DEFINE record == RecordOf(m, operation)
           early == ~IsElapsedAt(record.deadline, now)
           t == [Transition(m) EXCEPT !.schedule = {<<operation, record.deadline>>}]
<1>1. CASE ~Holds(m.pending, operation)
  <2>1. OnDeadlineElapsed(m, operation, now) = Transition(m)
    BY <1>1 DEF OnDeadlineElapsed
  <2>2. /\ Transition(m).machine.pending = m.pending /\ Transition(m).discard = <<>>
        /\ Transition(m).publish = {}
    BY DEF Transition
  <2> QED
    BY <2>1, <2>2, QuietResolves
<1>2. CASE Holds(m.pending, operation) /\ early
  <2>1. OnDeadlineElapsed(m, operation, now) = t
    BY <1>2 DEF OnDeadlineElapsed
  <2>2. t.machine.pending = m.pending /\ t.discard = <<>> /\ t.publish = {}
    BY DEF Transition
  <2> HIDE DEF t
  <2> QED
    BY <2>1, <2>2, QuietResolves
<1>3. CASE Holds(m.pending, operation) /\ ~early /\ record.delivery = "PossiblySent"
  <2>1. OnDeadlineElapsed(m, operation, now)
          = CloseInto(Transition(m), "DeadlineAfterPossibleSend", {})
    BY <1>3 DEF OnDeadlineElapsed
  <2>2. Distinct(m.pending)
    BY DEF Sound
  <2> QED
    BY <2>1, <2>2, CloseResolves
<1>4. CASE Holds(m.pending, operation) /\ ~early /\ record.delivery # "PossiblySent"
  <2>1. record.delivery = "NotSent"
    <3>1. record \in OperationRecord
      BY <1>4, RecordOfType
    <3> HIDE DEF record
    <3> QED
      BY <1>4, <3>1, RecordFields DEF Deliveries
  <2>2. OnDeadlineElapsed(m, operation, now) = RemoveNotSent(m, operation, "DeadlineElapsed")
    BY <1>4 DEF OnDeadlineElapsed
  <2> QED
    BY <1>4, <2>1, <2>2, RemoveNotSentResolves
<1> QED
  BY <1>1, <1>2, <1>3, <1>4

LEMMA OnReplyResolves ==
  ASSUME NEW m \in Machine, Sound(m), NEW key, NEW reply \in Nat
  PROVE  Resolves(m, OnReply(m, key, reply))
<1> DEFINE front == m.pending[1]
           r == [m EXCEPT !.pending = Tail(m.pending),
                          !.ledger = ReleaseAll(m.ledger, front.reservation, FALSE, FALSE)]
           told == IF front.phase = "Terminal" THEN {}
                   ELSE {Outcome(front.operation, "Reply", front.delivery, reply)}
           t == [Transition(r) EXCEPT !.cancel = {front.operation}, !.publish = told]
<1>1. Distinct(m.pending)
  BY DEF Sound
<1>2. CASE m.phase # "Live"
  <2>1. OnReply(m, key, reply) = Transition(m)
    BY <1>2 DEF OnReply
  <2>2. /\ Transition(m).machine.pending = m.pending /\ Transition(m).discard = <<>>
        /\ Transition(m).publish = {}
    BY DEF Transition
  <2> QED
    BY <2>1, <2>2, QuietResolves
<1>3. CASE m.phase = "Live" /\ ~FrontAwaitsReply(m)
  BY <1>1, <1>3, CloseResolves DEF OnReply
<1>4. CASE m.phase = "Live" /\ FrontAwaitsReply(m) /\ key # front.reservation.key
  BY <1>1, <1>4, CloseResolves DEF OnReply
<1>5. CASE m.phase = "Live" /\ FrontAwaitsReply(m) /\ key = front.reservation.key
  <2>1. /\ m.pending # <<>> /\ m.pending \in Seq(OperationRecord) /\ m.ledger \in Ledger
        /\ ~front.writeHeld
    BY <1>5, MachineFields DEF FrontAwaitsReply
  <2>2. /\ front \in OperationRecord /\ Tail(m.pending) = RemoveAt(m.pending, 1)
        /\ 1 \in DOMAIN m.pending /\ Tail(m.pending) \in Seq(OperationRecord)
    <3>1. Tail(m.pending) = RemoveAt(m.pending, 1) /\ 1 \in DOMAIN m.pending
      BY <2>1, TailRemoves
    <3>2. front \in OperationRecord /\ Tail(m.pending) \in Seq(OperationRecord)
      BY <2>1
    <3> QED
      BY <3>1, <3>2
  <2>3. ReleaseAll(m.ledger, front.reservation, FALSE, FALSE) \in Ledger
    <3> HIDE DEF front
    <3> QED BY <2>1, <2>2, RecordFields, ReleaseAllType
  <2>4. r \in Machine /\ r.pending = RemoveAt(m.pending, 1)
    <3>1. r \in Machine
      BY <2>2, <2>3, MachineUpdate
    <3>2. r.pending = Tail(m.pending)
      <4> HIDE DEF front
      <4> QED BY DEF Machine
    <3> HIDE DEF r
    <3> QED
      BY <2>2, <3>1, <3>2
  <2>5. told \in SUBSET Outcomes /\ {front.operation} \in SUBSET Operations
    <3> HIDE DEF front
    <3> QED BY <2>2, RecordFields, OutcomeType DEF OutcomeKinds
  <2>6. OnReply(m, key, reply) = FinishDrain(t)
    BY <1>5 DEF OnReply, Machine
  <2>7. Tells(m.pending, told, RemoveAt(m.pending, 1))
    <3> DEFINE x == Outcome(front.operation, "Reply", front.delivery, reply)
    <3>1. x.operation = front.operation /\ x.delivery = front.delivery
      BY DEF Outcome
    <3>2. told = IF front.phase = "Terminal" THEN {} ELSE {x}
      OBVIOUS
    <3> HIDE DEF x, told
    <3> QED
      BY <1>1, <2>1, <2>2, <3>1, <3>2, RemovedTells
  <2> HIDE DEF r, told
  <2>8. t \in Transitions /\ t.machine = r /\ t.publish = told /\ t.discard = <<>>
    <3> HIDE DEF front
    <3>1. /\ Transition(r) \in Transitions /\ Transition(r).machine = r
          /\ Transition(r).discard = <<>>
      BY <2>4, TransitionType DEF Transition
    <3> QED
      BY <2>5, <3>1 DEF Transitions
  <2> HIDE DEF t
  <2>9. Resolves(m, t)
    BY <2>1, <2>2, <2>4, <2>7, <2>8 DEF Resolves, Discards
  <2> QED
    BY <2>6, <2>8, <2>9, FinishResolves
<1> QED
  BY <1>2, <1>3, <1>4, <1>5

LEMMA ClosingResolves ==
  ASSUME NEW m \in Machine, Sound(m), NEW reason
  PROVE  Resolves(m, OnCloseRequested(m, reason)) /\ Resolves(m, OnReplyMalformed(m))
  BY CloseResolves DEF OnCloseRequested, OnReplyMalformed, Sound

\* What Picked computes.
Picking(kept, T, s, positions) ==
  /\ kept \in [0..Len(s) -> Seq(T)]
  /\ kept[0] = <<>>
  /\ \A i \in 1..Len(s) :
       kept[i] = IF i \in positions THEN Append(kept[i - 1], s[i]) ELSE kept[i - 1]
  /\ kept[Len(s)] = Picked(s, positions)

LEMMA PickedIterates ==
  ASSUME NEW T, NEW s \in Seq(T), NEW positions
  PROVE  \E kept : Picking(kept, T, s, positions)
<1> DEFINE n == Len(s)
           S == Seq(T)
           Next1(x, i) == IF i \in positions THEN Append(x, s[i]) ELSE x
           step == [i \in 1..n |-> [x \in S |-> Next1(x, i)]]
<1>1. \A i \in 1..n : \A x \in S : Next1(x, i) \in S
  OBVIOUS
<1>2. Picked(s, positions)
        = (CHOOSE g : g = [i \in 0..n |-> IF i = 0 THEN <<>> ELSE Next1(g[i - 1], i)])[n]
  BY DEF Picked
<1>3. n \in Nat /\ <<>> \in S
  OBVIOUS
<1> HIDE DEF n, Next1, S
<1>4. step \in Steps(S, n)
  BY <1>1 DEF Steps
<1>5. PICK f : IsIteration(f, S, n, <<>>, step)
  <2> HIDE DEF step
  <2> QED BY <1>3, <1>4, IterationExists
<1>6. /\ f \in [0..n -> S] /\ f[0] = <<>> /\ \A i \in 1..n : f[i] = Next1(f[i - 1], i)
  <2>1. /\ f \in [0..n -> S] /\ f[0] = <<>>
        /\ \A i \in 1..n : f[i] = step[i][f[i - 1]]
    <3> HIDE DEF step
    <3> QED BY <1>5 DEF IsIteration
  <2>2. \A i \in 1..n : f[i - 1] \in S
    BY <1>3, <2>1
  <2> QED
    BY <2>1, <2>2
<1> DEFINE Fixed(g) == g = [i \in 0..n |-> IF i = 0 THEN <<>> ELSE Next1(g[i - 1], i)]
           kept == CHOOSE g : Fixed(g)
<1>7. Fixed(f)
  BY <1>3, <1>6
<1>8. Fixed(kept)
  BY <1>7
<1>9. kept[n] = Picked(s, positions)
  BY <1>2
<1> HIDE DEF kept, step
<1>10. kept[0] = <<>> /\ \A i \in 1..n : kept[i] = Next1(kept[i - 1], i)
  BY <1>3, <1>8
<1> DEFINE G == {i \in 0..n : kept[i] \in S}
<1>11. 0 \in G
  BY <1>3, <1>10
<1>12. ASSUME NEW i \in 0..(n - 1), i \in G PROVE i + 1 \in G
  <2>1. i + 1 \in 0..n /\ i + 1 \in 1..n /\ (i + 1) - 1 = i
    BY <1>3
  <2>2. kept[i + 1] = Next1(kept[i], i + 1)
    BY <1>10, <2>1
  <2> QED
    BY <1>1, <1>12, <2>1, <2>2
<1>13. 0..n \subseteq G
  <2> HIDE DEF G
  <2> QED
    BY <1>3, <1>11, <1>12, BoundedInduction
<1>14. kept \in [0..n -> S]
  BY <1>8, <1>13
<1> QED
  BY <1>9, <1>10, <1>14 DEF Picking, n, Next1, S

(***************************************************************************)
(* No input takes back an identity, and while the epoch lives none         *)
(* discards a frame of which bytes may have been sent.                     *)
(***************************************************************************)
Spares(m, t) ==
  /\ t.machine.nextOperation = m.nextOperation
  /\ t.machine.phase = "Live" =>
       m.phase = "Live" /\ \A i \in DOMAIN t.discard : t.discard[i].delivery = "NotSent"

LEMMA QuietSpares ==
  ASSUME NEW m, NEW t, t.discard = <<>>, t.machine.nextOperation = m.nextOperation,
         t.machine.phase = "Live" => m.phase = "Live"
  PROVE  Spares(m, t)
  BY DEF Spares

LEMMA CloseSpares ==
  ASSUME NEW m \in Machine, NEW reason, NEW blamed
  PROVE  Spares(m, CloseInto(Transition(m), reason, blamed))
<1> DEFINE t == CloseInto(Transition(m), reason, blamed)
<1>1. Transition(m).machine = m /\ Transition(m).discard = <<>>
  BY DEF Transition
<1>2. CASE m.phase = "Live"
  <2>1. t.machine.phase = "Closing" /\ t.machine.nextOperation = m.nextOperation
    BY <1>1, <1>2 DEF CloseInto, Transition, Machine
  <2> QED
    BY <2>1 DEF Spares
<1>3. CASE m.phase # "Live"
  <2>1. t = Transition(m)
    BY <1>1, <1>3 DEF CloseInto
  <2> QED
    BY <1>1, <2>1, QuietSpares
<1> QED
  BY <1>2, <1>3

LEMMA FinishSpares ==
  ASSUME NEW m, NEW t \in Transitions, Spares(m, t)
  PROVE  Spares(m, FinishDrain(t))
<1>1. FinishDrain(t).discard = t.discard
  BY FinishKeeps
<1>3. FinishDrain(t).machine.nextOperation = t.machine.nextOperation
  <2>1. t.machine \in Machine
    BY TransitionFields
  <2> QED
    BY <2>1 DEF FinishDrain, CloseInto, Transitions, Machine
<1>2. ASSUME FinishDrain(t).machine.phase = "Live" PROVE t.machine.phase = "Live"
  <2> SUFFICES ASSUME t.machine.phase # "Live" PROVE FALSE
    OBVIOUS
  <2>1. FinishDrain(t) = t
    BY DEF FinishDrain, CloseInto
  <2> QED
    BY <1>2, <2>1
<1> QED
  BY <1>1, <1>2, <1>3 DEF Spares

LEMMA RemoveNotSentSpares ==
  ASSUME NEW m \in Machine, NEW operation, Holds(m.pending, operation),
         RecordOf(m, operation).delivery = "NotSent",
         NEW kind \in {"Cancelled", "DeadlineElapsed"}
  PROVE  Spares(m, RemoveNotSent(m, operation, kind))
<1> DEFINE r == RemoveRecord(m, operation)
           outcome == Outcome(operation, kind, "NotSent", 0)
           record == RecordOf(m, operation)
           t == [Transition(r) EXCEPT !.discard = <<record>>,
                                      !.cancel = {operation}, !.publish = {outcome}]
<1>1. r \in Machine /\ operation \in Operations /\ record \in OperationRecord
  BY RemoveRecordType, RecordOfType
<1>2. r.phase = m.phase /\ r.nextOperation = m.nextOperation
  BY DEF RemoveRecord, Machine
<1>3. outcome \in Outcomes
  BY <1>1, OutcomeType DEF Deliveries, OutcomeKinds
<1>4. RemoveNotSent(m, operation, kind) = FinishDrain(t)
  BY DEF RemoveNotSent
<1> HIDE DEF r, outcome
<1>5. t \in Transitions /\ t.machine = r /\ t.discard = <<record>>
  <2>1. /\ <<record>> \in Seq(OperationRecord)
        /\ {operation} \in SUBSET Operations /\ {outcome} \in SUBSET Outcomes
    BY <1>1, <1>3
  <2> QED
    BY <1>1, <2>1 DEF Transition, Transitions
<1>6. Spares(m, t)
  <2> HIDE DEF t
  <2> QED
    BY <1>2, <1>5 DEF Spares
<1> QED
  BY <1>4, <1>5, <1>6, FinishSpares

LEMMA TransitionSpares ==
  ASSUME NEW m
  PROVE  Spares(m, Transition(m))
  BY QuietSpares DEF Transition

LEMMA GateSpares ==
  ASSUME NEW m \in Machine
  PROVE  Spares(m, OnOpenAdmission(m)) /\ Spares(m, OnBeginDrain(m))
         /\ Spares(m, OnEpochClosed(m))
<1>1. Spares(m, OnOpenAdmission(m))
  <2> DEFINE r == IF m.phase = "Live" /\ m.gate = "SessionOnly"
                  THEN [m EXCEPT !.gate = "Open"] ELSE m
  <2>1. r.phase = m.phase /\ r.nextOperation = m.nextOperation
    BY DEF Machine
  <2>2. OnOpenAdmission(m) = Transition(r)
    BY DEF OnOpenAdmission
  <2> HIDE DEF r
  <2> QED
    BY <2>1, <2>2, QuietSpares DEF Transition
<1>2. Spares(m, OnBeginDrain(m))
  <2> DEFINE r == [m EXCEPT !.gate = "Draining"]
  <2>1. r \in Machine /\ r.phase = m.phase /\ r.nextOperation = m.nextOperation
    BY DEF Machine, Gates
  <2>2. OnBeginDrain(m) = Transition(m) \/ OnBeginDrain(m) = FinishDrain(Transition(r))
    BY DEF OnBeginDrain
  <2> HIDE DEF r
  <2>3. Transition(r) \in Transitions /\ Spares(m, Transition(r))
    BY <2>1, TransitionType, QuietSpares DEF Transition
  <2> QED
    BY <2>2, <2>3, TransitionSpares, FinishSpares
<1>3. Spares(m, OnEpochClosed(m))
  <2> DEFINE r == IF m.phase = "Closing"
                  THEN [m EXCEPT !.phase = "Closed", !.gate = "Closed"] ELSE m
  <2>1. (r.phase = "Live" => m.phase = "Live") /\ r.nextOperation = m.nextOperation
    BY DEF Machine
  <2>2. OnEpochClosed(m) = Transition(r)
    BY DEF OnEpochClosed
  <2> HIDE DEF r
  <2> QED
    BY <2>1, <2>2, QuietSpares DEF Transition
<1> QED
  BY <1>1, <1>2, <1>3

LEMMA OnCancelSpares ==
  ASSUME NEW m \in Machine, NEW operation
  PROVE  Spares(m, OnCancel(m, operation))
<1> DEFINE record == RecordOf(m, operation)
           r == SetRecord(m, operation, [record EXCEPT !.phase = "Terminal"])
           t == [Transition(r) EXCEPT
                   !.publish = {Outcome(operation, "Cancelled", "PossiblySent", 0)}]
<1>1. CASE ~Holds(m.pending, operation) \/ record.phase = "Terminal"
  BY <1>1, TransitionSpares DEF OnCancel
<1>2. CASE /\ Holds(m.pending, operation) /\ record.phase # "Terminal"
           /\ record.delivery = "NotSent"
  BY <1>2, RemoveNotSentSpares DEF OnCancel
<1>3. CASE /\ Holds(m.pending, operation) /\ record.phase # "Terminal"
           /\ record.delivery # "NotSent"
  <2>1. OnCancel(m, operation) = t
    BY <1>3 DEF OnCancel
  <2>2. r.phase = m.phase /\ r.nextOperation = m.nextOperation
    BY DEF SetRecord, Machine
  <2> HIDE DEF r
  <2>3. t.machine = r /\ t.discard = <<>>
    BY DEF Transition
  <2> QED
    BY <2>1, <2>2, <2>3, QuietSpares
<1> QED
  BY <1>1, <1>2, <1>3

LEMMA OnDeadlineElapsedSpares ==
  ASSUME NEW m \in Machine, NEW operation, NEW now
  PROVE  Spares(m, OnDeadlineElapsed(m, operation, now))
<1> DEFINE record == RecordOf(m, operation)
           t == [Transition(m) EXCEPT !.schedule = {<<operation, record.deadline>>}]
<1>1. CASE ~Holds(m.pending, operation)
  BY <1>1, TransitionSpares DEF OnDeadlineElapsed
<1>2. CASE Holds(m.pending, operation) /\ ~IsElapsedAt(record.deadline, now)
  <2>1. OnDeadlineElapsed(m, operation, now) = t
    BY <1>2 DEF OnDeadlineElapsed
  <2>2. t.machine = m /\ t.discard = <<>>
    BY DEF Transition
  <2> QED
    BY <2>1, <2>2, QuietSpares
<1>3. CASE /\ Holds(m.pending, operation) /\ IsElapsedAt(record.deadline, now)
           /\ record.delivery = "PossiblySent"
  BY <1>3, CloseSpares DEF OnDeadlineElapsed
<1>4. CASE /\ Holds(m.pending, operation) /\ IsElapsedAt(record.deadline, now)
           /\ record.delivery # "PossiblySent"
  <2>1. record.delivery = "NotSent"
    BY <1>4, RecordOfType, RecordFields DEF Deliveries
  <2> QED
    BY <1>4, <2>1, RemoveNotSentSpares DEF OnDeadlineElapsed
<1> QED
  BY <1>1, <1>2, <1>3, <1>4

LEMMA OnReplySpares ==
  ASSUME NEW m \in Machine, NEW key, NEW reply \in Nat
  PROVE  Spares(m, OnReply(m, key, reply))
<1> DEFINE front == m.pending[1]
           r == [m EXCEPT !.pending = Tail(m.pending),
                          !.ledger = ReleaseAll(m.ledger, front.reservation, FALSE, FALSE)]
           told == IF front.phase = "Terminal" THEN {}
                   ELSE {Outcome(front.operation, "Reply", front.delivery, reply)}
           t == [Transition(r) EXCEPT !.cancel = {front.operation}, !.publish = told]
<1>1. CASE m.phase # "Live"
  BY <1>1, TransitionSpares DEF OnReply
<1>2. CASE m.phase = "Live" /\ ~FrontAwaitsReply(m)
  BY <1>2, CloseSpares DEF OnReply
<1>3. CASE m.phase = "Live" /\ FrontAwaitsReply(m) /\ key # front.reservation.key
  BY <1>3, CloseSpares DEF OnReply
<1>4. CASE m.phase = "Live" /\ FrontAwaitsReply(m) /\ key = front.reservation.key
  <2>1. OnReply(m, key, reply) = FinishDrain(t)
    BY <1>4 DEF OnReply, Machine
  <2>2. r.nextOperation = m.nextOperation
    BY DEF Machine
  <2> HIDE DEF told
  <2>3. t.machine = r /\ t.discard = <<>>
    BY DEF Transition
  <2>4. CASE t.machine.phase = "Live" /\ t.machine.gate = "Draining" /\ t.machine.pending = <<>>
    <3>1. /\ FinishDrain(t).machine.phase = "Closing"
          /\ FinishDrain(t).machine.nextOperation = r.nextOperation
      BY <2>3, <2>4 DEF FinishDrain, CloseInto, Transition, Machine
    <3> HIDE DEF t, r
    <3> QED
      BY <2>1, <2>2, <3>1 DEF Spares
  <2>5. CASE ~(/\ t.machine.phase = "Live" /\ t.machine.gate = "Draining"
               /\ t.machine.pending = <<>>)
    <3> HIDE DEF t, r
    <3>1. FinishDrain(t) = t
      BY <2>5 DEF FinishDrain, CloseInto
    <3> QED
      BY <1>4, <2>1, <2>2, <2>3, <3>1 DEF Spares
  <2> QED
    BY <2>4, <2>5
<1> QED
  BY <1>1, <1>2, <1>3, <1>4

LEMMA ClosingSpares ==
  ASSUME NEW m \in Machine, NEW reason
  PROVE  Spares(m, OnCloseRequested(m, reason)) /\ Spares(m, OnReplyMalformed(m))
  BY CloseSpares DEF OnCloseRequested, OnReplyMalformed

\* What the end of a frame leaves of its record: it waits for its reply, or it
\* is gone and its completion is told.
Waits(m, t, i, r) ==
  /\ r \in OperationRecord
  /\ r.operation = m.pending[i].operation /\ r.effect = m.pending[i].effect
  /\ r.reservation = m.pending[i].reservation /\ r.deadline = m.pending[i].deadline
  /\ r.delivery = m.pending[i].delivery /\ ~r.writeHeld
  /\ r.phase = IF m.pending[i].phase = "Terminal" THEN "Terminal" ELSE "AwaitingReply"
  /\ t.machine.pending = [m.pending EXCEPT ![i] = r] /\ t.publish = {}
  /\ t.machine.closeReason = m.closeReason
  /\ m.pending[i].completion = "ReplyExpected"

Ended(m, t, i) ==
  /\ t.machine.pending = RemoveAt(m.pending, i)
  /\ t.publish = IF m.pending[i].phase = "Terminal" THEN {}
                 ELSE {Outcome(m.pending[i].operation, "WriteComplete", m.pending[i].delivery, 0)}
  /\ t.machine.closeReason \in {m.closeReason, "Drained"}
  /\ m.pending[i].completion # "ReplyExpected"

LEMMA OnWriteCompletedLeaves ==
  ASSUME NEW m \in Machine, NEW operation, Holds(m.pending, operation),
         NEW i, i = IndexOf(m.pending, operation)
  PROVE  /\ \/ \E r : Waits(m, OnWriteCompleted(m, operation), i, r)
            \/ Ended(m, OnWriteCompleted(m, operation), i)
         /\ Spares(m, OnWriteCompleted(m, operation))
<1> DEFINE record == m.pending[i]
           l == ReleaseWrite(m.ledger, record.reservation.writeRetained)
           released == [m EXCEPT !.ledger = l]
           waiting == [record EXCEPT !.phase = IF record.phase = "Terminal" THEN "Terminal"
                                               ELSE "AwaitingReply",
                                     !.writeHeld = FALSE]
           r == [released EXCEPT !.pending = RemoveAt(m.pending, i),
                                 !.ledger = ReleaseAll(l, record.reservation, FALSE, FALSE)]
           told == IF record.phase = "Terminal" THEN {}
                   ELSE {Outcome(operation, "WriteComplete", record.delivery, 0)}
           t == [Transition(r) EXCEPT !.cancel = {operation}, !.publish = told]
<1>1. /\ record \in OperationRecord /\ operation \in Operations
      /\ i \in DOMAIN m.pending /\ RecordOf(m, operation) = record /\ record.operation = operation
  BY RecordOfType, HeldRecord
<1>2. l \in Ledger
  <2> HIDE DEF record
  <2> QED BY <1>1, MachineFields, RecordFields, ReleaseWriteType
<1>3. /\ released \in Machine /\ released.pending = m.pending
      /\ released.phase = m.phase /\ released.nextOperation = m.nextOperation
      /\ released.closeReason = m.closeReason
      /\ released = [m EXCEPT !.ledger = ReleaseWrite(@, record.reservation.writeRetained)]
  <2>1. /\ released \in Machine /\ released.pending = m.pending
        /\ released.phase = m.phase /\ released.nextOperation = m.nextOperation
        /\ released.closeReason = m.closeReason
    <3> HIDE DEF l
    <3> QED BY <1>2 DEF Machine
  <2> QED
    BY <2>1 DEF Machine
<1>4. CASE record.completion = "ReplyExpected"
  <2> DEFINE w == SetRecord(released, operation, waiting)
  <2>1. /\ waiting \in OperationRecord /\ waiting.operation = record.operation
        /\ waiting.effect = record.effect /\ waiting.reservation = record.reservation
        /\ waiting.deadline = record.deadline /\ ~waiting.writeHeld
        /\ waiting.delivery = record.delivery
        /\ waiting.phase = IF record.phase = "Terminal" THEN "Terminal" ELSE "AwaitingReply"
    <3> HIDE DEF record
    <3> QED BY <1>1 DEF OperationRecord, OperationPhases
  <2>2. OnWriteCompleted(m, operation) = Transition(w)
    <3>1. waiting = [record EXCEPT !.phase = IF @ = "Terminal" THEN @ ELSE "AwaitingReply",
                                   !.writeHeld = FALSE]
      <4> HIDE DEF record
      <4> QED BY <1>1 DEF OperationRecord
    <3> HIDE DEF released, waiting, record
    <3> QED
      BY <1>1, <1>3, <1>4, <3>1 DEF OnWriteCompleted
  <2> HIDE DEF released, waiting
  <2>3. /\ w.pending = [m.pending EXCEPT ![i] = waiting]
        /\ w.phase = m.phase /\ w.nextOperation = m.nextOperation
        /\ w.closeReason = m.closeReason
    BY <1>3 DEF SetRecord, Machine
  <2>4. /\ Transition(w).machine = w /\ Transition(w).publish = {}
        /\ Transition(w).discard = <<>>
    BY DEF Transition
  <2> HIDE DEF w
  <2>5. Waits(m, OnWriteCompleted(m, operation), i, waiting)
    BY <1>4, <2>1, <2>2, <2>3, <2>4 DEF Waits
  <2>6. Spares(m, Transition(w))
    BY <2>3, <2>4, QuietSpares
  <2> QED
    BY <2>2, <2>5, <2>6
<1>5. CASE record.completion # "ReplyExpected"
  <2>1. RemoveAt(m.pending, i) \in Seq(OperationRecord)
    BY MachineFields, IndexOfType, RemoveAtType
  <2>2. ReleaseAll(l, record.reservation, FALSE, FALSE) \in Ledger
    <3> HIDE DEF l, record
    <3> QED BY <1>1, <1>2, RecordFields, ReleaseAllType
  <2>3. /\ r \in Machine /\ r.pending = RemoveAt(m.pending, i)
        /\ r.phase = m.phase /\ r.nextOperation = m.nextOperation
        /\ r.closeReason = m.closeReason
    <3> HIDE DEF l, record, released
    <3>1. r \in Machine
      BY <1>3, <2>1, <2>2, MachineUpdate
    <3> QED
      BY <1>3, <3>1 DEF Machine
  <2>4. told \in SUBSET Outcomes /\ {operation} \in SUBSET Operations
    <3> HIDE DEF record
    <3> QED BY <1>1, RecordFields, OutcomeType DEF OutcomeKinds
  <2>5. OnWriteCompleted(m, operation) = FinishDrain(t)
    <3>1. r = [released EXCEPT
                 !.pending = RemoveAt(@, IndexOf(@, operation)),
                 !.ledger = ReleaseAll(@, record.reservation, FALSE, FALSE)]
      BY <1>3 DEF Machine
    <3> HIDE DEF released, r, record
    <3> QED
      BY <1>1, <1>3, <1>5, <3>1 DEF OnWriteCompleted
  <2> HIDE DEF r, told
  <2>6. t \in Transitions /\ t.machine = r /\ t.publish = told /\ t.discard = <<>>
    <3>1. /\ Transition(r) \in Transitions /\ Transition(r).machine = r
          /\ Transition(r).discard = <<>>
      BY <2>3, TransitionType DEF Transition
    <3> QED
      BY <2>4, <3>1 DEF Transitions
  <2> HIDE DEF t
  <2>7. /\ OnWriteCompleted(m, operation).machine.pending = RemoveAt(m.pending, i)
        /\ OnWriteCompleted(m, operation).publish = told
        /\ OnWriteCompleted(m, operation).machine.closeReason \in {m.closeReason, "Drained"}
    BY <2>3, <2>5, <2>6, FinishKeeps, FinishReason
  <2>8. Ended(m, OnWriteCompleted(m, operation), i)
    BY <1>1, <1>5, <2>7 DEF Ended, told
  <2>9. Spares(m, t)
    BY <2>3, <2>6, QuietSpares
  <2> QED
    BY <2>5, <2>6, <2>8, <2>9, FinishSpares
<1> QED
  BY <1>4, <1>5

(***************************************************************************)
(* The items picked from a sequence: an order-preserving enumeration of    *)
(* the positions.                                                          *)
(***************************************************************************)

\* f numbers the positions up to i that were picked, in order.
Numbers(f, picked, s, positions, i) ==
  /\ f \in [1..Len(picked) -> positions \cap 1..i]
  /\ \A a \in 1..Len(picked) : picked[a] = s[f[a]]
  /\ \A a, b \in 1..Len(picked) : a < b => f[a] < f[b]
  /\ \A p \in positions \cap 1..i : \E a \in 1..Len(picked) : f[a] = p

LEMMA PickedNumbers ==
  ASSUME NEW T, NEW s \in Seq(T), NEW positions \in SUBSET DOMAIN s
  PROVE  /\ Picked(s, positions) \in Seq(T)
         /\ \E f : Numbers(f, Picked(s, positions), s, positions, Len(s))
<1> DEFINE n == Len(s)
<1>1. n \in Nat /\ DOMAIN s = 1..n
  OBVIOUS
<1>0. PICK kept : Picking(kept, T, s, positions)
  BY PickedIterates
<1>2. /\ kept \in [0..n -> Seq(T)] /\ kept[0] = <<>>
      /\ \A i \in 1..n : kept[i] = IF i \in positions THEN Append(kept[i - 1], s[i])
                                   ELSE kept[i - 1]
      /\ kept[n] = Picked(s, positions)
  BY <1>0 DEF Picking
<1> HIDE DEF n
<1> DEFINE G == {i \in 0..n : \E f : Numbers(f, kept[i], s, positions, i)}
<1>3. 0 \in G
  <2> DEFINE f == [a \in 1..0 |-> a]
  <2>1. Len(kept[0]) = 0 /\ 1..0 = {} /\ positions \cap 1..0 = {}
    BY <1>2
  <2>2. f \in [1..0 -> positions \cap 1..0]
    BY <2>1
  <2>3. Numbers(f, kept[0], s, positions, 0)
    <3> HIDE DEF f
    <3> QED
      BY <2>1, <2>2 DEF Numbers
  <2>4. 0 \in 0..n
    BY <1>1
  <2> QED
    BY <2>3, <2>4
<1>4. ASSUME NEW i \in 0..(n - 1), i \in G PROVE i + 1 \in G
  <2> DEFINE p == i + 1
             x == kept[i]
             y == kept[p]
             m == Len(x)
  <2>1. p \in 0..n /\ p \in 1..n /\ p - 1 = i /\ i \in Nat /\ i \in 0..n
    BY <1>1
  <2>2. PICK f : Numbers(f, x, s, positions, i)
    BY <1>4
  <2>3. x \in Seq(T) /\ m \in Nat
    BY <1>2, <2>1
  <2>4. y = IF p \in positions THEN Append(x, s[p]) ELSE x
    BY <1>2, <2>1
  <2>5. CASE p \notin positions
    <3>1. positions \cap 1..p = positions \cap 1..i
      BY <2>1, <2>5
    <3>2. Numbers(f, y, s, positions, p)
      BY <2>2, <2>4, <2>5, <3>1 DEF Numbers
    <3> QED
      BY <2>1, <3>2
  <2>6. CASE p \in positions
    <3> DEFINE g == [a \in 1..(m + 1) |-> IF a = m + 1 THEN p ELSE f[a]]
    <3>1. positions \cap 1..p = (positions \cap 1..i) \cup {p} /\ p \notin 1..i
      BY <2>1, <2>6
    <3>2. Len(y) = m + 1 /\ y[m + 1] = s[p] /\ \A a \in 1..m : y[a] = x[a]
      BY <2>3, <2>4, <2>6, <1>1, <2>1
    <3>3. \A a \in 1..(m + 1) : a # m + 1 => a \in 1..m
      BY <2>3
    <3>4. \A a \in 1..m : a \in 1..(m + 1) /\ a # m + 1
      BY <2>3
    <3>5. m + 1 \in 1..(m + 1)
      BY <2>3
    <3>6. g[m + 1] = p /\ \A a \in 1..m : g[a] = f[a]
      BY <3>4, <3>5
    <3>7. /\ f \in [1..m -> positions \cap 1..i] /\ \A a \in 1..m : x[a] = s[f[a]]
          /\ \A a, b \in 1..m : a < b => f[a] < f[b]
          /\ \A q \in positions \cap 1..i : \E a \in 1..m : f[a] = q
      BY <2>2 DEF Numbers
    <3> HIDE DEF p, x, y, m
    <3>8. g \in [1..(m + 1) -> positions \cap 1..p]
      BY <3>1, <3>3, <3>7
    <3> HIDE DEF g
    <3>9. \A a \in 1..(m + 1) : y[a] = s[g[a]]
      BY <3>2, <3>3, <3>6, <3>7
    <3>10. \A a, b \in 1..(m + 1) : a < b => g[a] < g[b]
      <4> SUFFICES ASSUME NEW a \in 1..(m + 1), NEW b \in 1..(m + 1), a < b PROVE g[a] < g[b]
        OBVIOUS
      <4>1. a \in 1..m /\ (b = m + 1 \/ b \in 1..m)
        BY <2>3 DEF m
      <4>2. CASE b = m + 1
        <5>1. f[a] \in 1..i
          BY <3>7, <4>1
        <5> QED
          BY <2>1, <3>6, <4>1, <4>2, <5>1 DEF p
      <4>3. CASE b \in 1..m
        BY <3>6, <3>7, <4>1, <4>3
      <4> QED
        BY <4>1, <4>2, <4>3
    <3>11. \A q \in positions \cap 1..p : \E a \in 1..(m + 1) : g[a] = q
      <4> SUFFICES ASSUME NEW q \in positions \cap 1..p PROVE \E a \in 1..(m + 1) : g[a] = q
        OBVIOUS
      <4>1. CASE q = p
        BY <3>5, <3>6, <4>1
      <4>2. CASE q \in positions \cap 1..i
        BY <3>4, <3>6, <3>7, <4>2
      <4> QED
        BY <3>1, <4>1, <4>2
    <3>12. Numbers(g, y, s, positions, p)
      BY <3>2, <3>8, <3>9, <3>10, <3>11 DEF Numbers
    <3> QED
      BY <2>1, <3>12 DEF p, y
  <2> QED
    BY <2>5, <2>6
<1>5. 0..n \subseteq G
  <2> HIDE DEF G
  <2> QED
    BY <1>1, <1>3, <1>4, BoundedInduction
<1>6. n \in 0..n
  BY <1>1
<1>7. \E f : Numbers(f, kept[n], s, positions, n)
  BY <1>5, <1>6
<1> QED
  BY <1>2, <1>6, <1>7 DEF n

\* Picking every position copies the sequence.
LEMMA PickedAll ==
  ASSUME NEW T, NEW s \in Seq(T), NEW positions, \A i \in DOMAIN s : i \in positions
  PROVE  Picked(s, positions) = s
<1> DEFINE n == Len(s)
<1>1. n \in Nat /\ DOMAIN s = 1..n
  OBVIOUS
<1>0. PICK kept : Picking(kept, T, s, positions)
  BY PickedIterates
<1>2. /\ kept \in [0..n -> Seq(T)] /\ kept[0] = <<>>
      /\ \A i \in 1..n : kept[i] = IF i \in positions THEN Append(kept[i - 1], s[i])
                                   ELSE kept[i - 1]
      /\ kept[n] = Picked(s, positions)
  BY <1>0 DEF Picking
<1> DEFINE G == {i \in 0..n : Len(kept[i]) = i /\ \A a \in 1..i : kept[i][a] = s[a]}
<1> HIDE DEF n
<1>3. 0 \in G
  <2>1. 0 \in 0..n /\ Len(kept[0]) = 0 /\ 1..0 = {}
    BY <1>1, <1>2
  <2> QED
    BY <2>1
<1>4. ASSUME NEW i \in 0..(n - 1), i \in G PROVE i + 1 \in G
  <2>1. i + 1 \in 0..n /\ i + 1 \in 1..n /\ (i + 1) - 1 = i /\ i \in Nat /\ i \in 0..n
    BY <1>1
  <2>2. kept[i + 1] = Append(kept[i], s[i + 1]) /\ kept[i] \in Seq(T) /\ s[i + 1] \in T
    <3>1. i + 1 \in DOMAIN s /\ s[i + 1] \in T
      BY <1>1, <2>1 DEF n
    <3> QED
      BY <1>2, <2>1, <3>1
  <2>3. Len(kept[i]) = i /\ \A a \in 1..i : kept[i][a] = s[a]
    BY <1>4
  <2>4. Len(kept[i + 1]) = i + 1 /\ kept[i + 1][i + 1] = s[i + 1]
        /\ \A a \in 1..i : kept[i + 1][a] = kept[i][a]
    BY <2>1, <2>2, <2>3
  <2>5. \A a \in 1..(i + 1) : a = i + 1 \/ a \in 1..i
    BY <2>1
  <2>6. \A a \in 1..(i + 1) : kept[i + 1][a] = s[a]
    BY <2>3, <2>4, <2>5
  <2> QED
    BY <2>1, <2>4, <2>6
<1>5. 0..n \subseteq G
  <2> HIDE DEF G
  <2> QED
    BY <1>1, <1>3, <1>4, BoundedInduction
<1>6. n \in 0..n
  BY <1>1
<1>7. kept[n] \in Seq(T) /\ Len(kept[n]) = n /\ \A a \in 1..n : kept[n][a] = s[a]
  BY <1>2, <1>5, <1>6
<1>8. kept[n] = s
  BY <1>1, <1>7 DEF n
<1> QED
  BY <1>2, <1>8

=============================================================================
