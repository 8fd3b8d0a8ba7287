------------------------------ MODULE SetProofs ------------------------------
(***************************************************************************)
(* The connection set keeps its ready queue, its registrations and its     *)
(* failures exact, hands a command only to the generation it was meant     *)
(* for, lets no connection overtake another and sleeps only when nothing   *)
(* is left to do; and the standalone connection above it never loses what  *)
(* it owns.  For every number of table slots, generations, commands and    *)
(* budgets, and for every fault of the selector and of the transports.     *)
(***************************************************************************)
EXTENDS StandaloneConnection, NaturalsInduction, WellFoundedInduction, TLAPS, FiniteSetTheorems, SequenceTheorems

(***************************************************************************)
(* Induction over the naturals below a bound, and iteration of a step,     *)
(* stated for sets and functions so that they can be cited.                *)
(***************************************************************************)

\* A non-empty set of naturals has a least element.
LEMMA LeastNatural ==
  ASSUME NEW T, T \subseteq Nat, T # {}
  PROVE  \E x \in T : \A y \in T : x <= y
<1> DEFINE R == OpToRel(<, Nat)
<1>1. \E x \in T : \A y \in T : ~(<<y, x>> \in R)
  BY NatLessThanWellFounded, WFMin
<1>2. ASSUME NEW x \in Nat, NEW y \in Nat, y < x
      PROVE  <<y, x>> \in R
  <2>1. <<y, x>> \in Nat \X Nat /\ <<y, x>>[1] = y /\ <<y, x>>[2] = x
    OBVIOUS
  <2>2. <<y, x>>[1] < <<y, x>>[2]
    BY <1>2, <2>1
  <2> QED
    BY <2>1, <2>2, Zenon DEF OpToRel
<1> HIDE DEF R
<1>3. PICK x \in T : \A y \in T : ~(<<y, x>> \in R)
  BY <1>1
<1>4. \A y \in T : ~(y < x)
  BY <1>2, <1>3
<1>5. \A y \in T : x <= y
  BY <1>4
<1> QED
  BY <1>5

\* A property of naturals below n, given as the set of those that have it, that
\* holds of 0 and passes from each number to the next holds of all.
LEMMA BoundedInduction ==
  ASSUME NEW n \in Nat, NEW G, 0 \in G,
         \A i \in 0..(n - 1) : i \in G => i + 1 \in G
  PROVE  0..n \subseteq G
<1> DEFINE T == {i \in 0..n : i \notin G}
<1>1. SUFFICES ASSUME T # {} PROVE FALSE
  OBVIOUS
<1>2. T \subseteq Nat
  OBVIOUS
<1>3. PICK x \in T : \A y \in T : x <= y
  <2> HIDE DEF T
  <2> QED BY <1>1, <1>2, LeastNatural
<1>4. x # 0
  OBVIOUS
<1>5. x - 1 \in 0..(n - 1) /\ x - 1 \notin T
  BY <1>3, <1>4
<1>6. x - 1 \in G
  BY <1>5
<1>7. x \in G
  BY <1>5, <1>6
<1> QED
  BY <1>7

Steps(S, n) == [1..n -> [S -> S]]

IsIteration(f, S, n, base, step) ==
  /\ f \in [0..n -> S]
  /\ f[0] = base
  /\ \A i \in 1..n : f[i] = step[i][f[i - 1]]

\* Iterating a step function n times gives a function on 0..n.
LEMMA IterationExists ==
  ASSUME NEW S, NEW n \in Nat, NEW base \in S, NEW step \in Steps(S, n)
  PROVE  \E f : IsIteration(f, S, n, base, step)
<1> USE DEF Steps
<1> DEFINE Iterates(f, k) ==
             f[0] = base /\ \A i \in 1..k : f[i] = step[i][f[i - 1]]
           G == {k \in 0..n : \E f \in [0..k -> S] : Iterates(f, k)}
<1>1. 0 \in G
  <2> DEFINE f == [i \in 0..0 |-> base]
  <2>1. f \in [0..0 -> S] /\ Iterates(f, 0)
    OBVIOUS
  <2> HIDE DEF Iterates, f
  <2> QED
    BY <2>1
<1>2. ASSUME NEW k \in 0..(n - 1), k \in G
      PROVE  k + 1 \in G
  <2>1. PICK f \in [0..k -> S] : Iterates(f, k)
    BY <1>2
  <2> DEFINE g == [i \in 0..(k + 1) |-> IF i = k + 1 THEN step[k + 1][f[k]] ELSE f[i]]
  <2>2. step[k + 1][f[k]] \in S
    <3>1. f[k] \in S /\ k + 1 \in 1..n
      OBVIOUS
    <3> QED
      BY <3>1
  <2>3. g \in [0..(k + 1) -> S]
    BY <2>2
  <2>4. g[0] = base
    BY <2>1
  <2>5. ASSUME NEW i \in 1..(k + 1)
        PROVE  g[i] = step[i][g[i - 1]]
    <3>1. CASE i = k + 1
      <4>1. g[i - 1] = f[k]
        BY <3>1
      <4> QED
        BY <3>1, <4>1
    <3>2. CASE i # k + 1
      <4>1. i \in 1..k /\ g[i] = f[i] /\ g[i - 1] = f[i - 1]
        BY <3>2
      <4> QED
        BY <2>1, <4>1
    <3> QED
      BY <3>1, <3>2
  <2>6. Iterates(g, k + 1)
    BY <2>4, <2>5
  <2>7. k + 1 \in 0..n
    OBVIOUS
  <2> HIDE DEF Iterates, g
  <2> QED
    BY <2>3, <2>6, <2>7
<1>3. n \in G
  <2> HIDE DEF G
  <2>1. 0..n \subseteq G
    BY <1>1, <1>2, BoundedInduction
  <2> QED
    BY <2>1
<1> QED
  BY <1>3 DEF IsIteration

Rows ==
  {row \in [generation : 1..(MaxGeneration + 1), entry : Entries \cup {NoEntry}] :
     row.entry # NoEntry => row.generation <= MaxGeneration}

Sets ==
  [table : [Indices -> Rows], ready : Seq(Resources), control : Seq(Commands),
   regular : Seq(Commands), morePending : BOOLEAN, owner : {"Running", "Failed", "Dropped"},
   registered : SUBSET Resources, events : SUBSET Resources, saturated : BOOLEAN]

Turns ==
  [pc : {"Idle", "Commands", "Ingest", "Drive"}, budget : Nat, polled : BOOLEAN]

(***************************************************************************)
(* The inductive invariant, as statements about one value of the set.      *)
(***************************************************************************)

\* A slot with a transport has not settled; one without has, or it failed and
\* only waits to be recovered.  A failed slot with a transport asks for it.
SlotSound(s, transport) ==
  /\ s \in ContractSlots
  /\ transport => s.state # "Closed" /\ (Works(s) \/ s.close = "Abort")
  /\ ~transport =>
       \/ s.state = "Closed" /\ s.close = "None"
       \/ ~Works(s) /\ s.close = "Abort"

\* What a transport would find to do goes with it.
EntrySound(e) ==
  /\ e \in Entries
  /\ SlotSound(e.slot, e.transport)
  /\ ~e.transport => ~e.runnable /\ e.synced

NoRepeats(queue) == \A j, k \in DOMAIN queue : queue[j] = queue[k] => j = k

\* The ready queue and the marks of the entries are the same set, without
\* repetition.
QueueSound(table, ready) ==
  /\ NoRepeats(ready)
  /\ \A k \in DOMAIN ready :
       LET row == table[ready[k].index]
       IN  row.generation = ready[k].generation /\ row.entry # NoEntry /\ row.entry.queued
  /\ \A i \in Indices : table[i].entry # NoEntry /\ table[i].entry.queued =>
       \E k \in DOMAIN ready : ready[k] = [index |-> i, generation |-> table[i].generation]

\* The transports of the entries, by the resource they are registered under.
Transports(table) ==
  {[index |-> i, generation |-> table[i].generation]
     : i \in {j \in Indices : table[j].entry # NoEntry /\ table[j].entry.transport}}

\* A failed set has no connection that works and no command that waits; a working
\* connection whose interest the selector was not told of is queued.
FenceSound(st) ==
  /\ st.owner = "Running" => st.registered = Transports(st.table)
  /\ st.owner # "Running" =>
       /\ \A i \in LiveIndices(st) : ~Works(st.table[i].entry.slot)
       /\ st.control = <<>> /\ st.regular = <<>>
  /\ \A i \in LiveIndices(st) :
       Works(st.table[i].entry.slot) /\ ~st.table[i].entry.synced => st.table[i].entry.queued

SetSound(st) ==
  /\ st \in Sets
  /\ \A i \in LiveIndices(st) : EntrySound(st.table[i].entry)
  /\ QueueSound(st.table, st.ready)
  /\ FenceSound(st)

\* Every working connection with something to do is queued.
AllQueued(st) ==
  \A i \in LiveIndices(st) :
    LET e == st.table[i].entry
    IN  Works(e.slot) /\ (e.runnable \/ Releasable(e.slot)) => e.queued

\* A command that waits will be seen: the host was woken or the turn knows of it.
CommandsSeen(st) == st.control # <<>> \/ st.regular # <<>> => woken \/ st.morePending

\* What the phases of a turn have established.
TurnSound ==
  /\ turn \in Turns
  /\ woken \in BOOLEAN
  /\ issued \subseteq Connections
  /\ turn.pc # "Idle" => set.owner = "Running"
  /\ turn.pc \in {"Ingest", "Drive"} => CommandsSeen(set)
  /\ turn.pc = "Drive" => AllQueued(set)
  /\ turn.pc = "Idle" /\ set.owner = "Running" /\ ~woken =>
       /\ AllQueued(set)
       /\ set.ready = <<>> /\ set.control = <<>> /\ set.regular = <<>>

SetIInv == SetSound(set) /\ TurnSound

LEMMA NoEntryIsNone == NoEntry \notin Entries
<1>1. "slot" \notin DOMAIN NoEntry
  BY DEF NoEntry
<1>2. \A e \in Entries : "slot" \in DOMAIN e
  BY DEF Entries
<1> QED
  BY <1>1, <1>2

\* The parts of a set.
LEMMA SetFields ==
  ASSUME NEW st \in Sets
  PROVE  /\ st.table \in [Indices -> Rows] /\ st.ready \in Seq(Resources)
         /\ st.control \in Seq(Commands) /\ st.regular \in Seq(Commands)
         /\ st.morePending \in BOOLEAN /\ st.owner \in {"Running", "Failed", "Dropped"}
         /\ st.registered \subseteq Resources /\ st.events \subseteq Resources
         /\ st.saturated \in BOOLEAN
         /\ \A i \in Indices :
              /\ st.table[i].generation \in 1..(MaxGeneration + 1)
              /\ st.table[i].entry \in Entries \cup {NoEntry}
              /\ Live(st, i) =>
                   /\ st.table[i].generation \in 1..MaxGeneration
                   /\ ResourceAt(st, i) \in Resources
                   /\ st.table[i].entry \in Entries
<1>1. /\ st.table \in [Indices -> Rows] /\ st.ready \in Seq(Resources)
      /\ st.control \in Seq(Commands) /\ st.regular \in Seq(Commands)
      /\ st.morePending \in BOOLEAN /\ st.owner \in {"Running", "Failed", "Dropped"}
      /\ st.registered \subseteq Resources /\ st.events \subseteq Resources
      /\ st.saturated \in BOOLEAN
  BY DEF Sets
<1>2. ASSUME NEW i \in Indices
      PROVE  /\ st.table[i].generation \in 1..(MaxGeneration + 1)
             /\ st.table[i].entry \in Entries \cup {NoEntry}
             /\ Live(st, i) =>
                  /\ st.table[i].generation \in 1..MaxGeneration
                  /\ ResourceAt(st, i) \in Resources
                  /\ st.table[i].entry \in Entries
  <2>1. st.table[i] \in Rows
    BY <1>1
  <2>2. /\ st.table[i].generation \in 1..(MaxGeneration + 1)
        /\ st.table[i].entry \in Entries \cup {NoEntry}
        /\ Live(st, i) => st.table[i].generation <= MaxGeneration
    BY <2>1 DEF Rows, Live
  <2>3. Live(st, i) => st.table[i].generation \in 1..MaxGeneration
    BY <2>2, SetAssumption
  <2> QED
    BY <2>2, <2>3 DEF Live, ResourceAt, Resources
<1> QED
  BY <1>1, <1>2

\* The same queue, told by the resources of the table.
LEMMA QueueMembers ==
  ASSUME NEW st \in Sets, QueueSound(st.table, st.ready)
  PROVE  /\ \A k \in DOMAIN st.ready :
              /\ st.ready[k] \in Resources /\ st.ready[k].index \in Indices
              /\ Occupied(st, st.ready[k]) /\ EntryAt(st, st.ready[k]).queued
              /\ st.ready[k] = ResourceAt(st, st.ready[k].index)
         /\ \A i \in LiveIndices(st) : st.table[i].entry.queued =>
              \E k \in DOMAIN st.ready : st.ready[k] = ResourceAt(st, i)
         /\ DOMAIN st.ready = 1..Len(st.ready) /\ Len(st.ready) \in Nat
<1>1. /\ DOMAIN st.ready = 1..Len(st.ready) /\ Len(st.ready) \in Nat
      /\ \A k \in DOMAIN st.ready : st.ready[k] \in Resources
  BY SetFields
<1>2. ASSUME NEW k \in DOMAIN st.ready
      PROVE  /\ st.ready[k] \in Resources /\ st.ready[k].index \in Indices
             /\ Occupied(st, st.ready[k]) /\ EntryAt(st, st.ready[k]).queued
             /\ st.ready[k] = ResourceAt(st, st.ready[k].index)
  <2>1. st.ready[k] \in Resources /\ st.ready[k].index \in Indices
    BY <1>1 DEF Resources
  <2>2. Occupied(st, st.ready[k]) /\ EntryAt(st, st.ready[k]).queued
    BY DEF QueueSound, Occupied, EntryAt, Live
  <2>3. st.ready[k] = ResourceAt(st, st.ready[k].index)
    BY <2>1, <2>2 DEF Occupied, ResourceAt, Resources
  <2> QED
    BY <2>1, <2>2, <2>3
<1>3. \A i \in LiveIndices(st) : st.table[i].entry.queued =>
        \E k \in DOMAIN st.ready : st.ready[k] = ResourceAt(st, i)
  BY DEF QueueSound, LiveIndices, Live, ResourceAt
<1> QED
  BY <1>1, <1>2, <1>3

LEMMA SetReadyExact == SetIInv => ReadyExact
<1> SUFFICES ASSUME SetIInv PROVE ReadyExact
  OBVIOUS
<1>1. set \in Sets /\ QueueSound(set.table, set.ready)
  BY DEF SetIInv, SetSound
<1>2. ASSUME NEW i \in LiveIndices(set), set.table[i].entry.queued
      PROVE  Cardinality({k \in DOMAIN set.ready : set.ready[k] = ResourceAt(set, i)}) = 1
  <2>1. PICK k \in DOMAIN set.ready : set.ready[k] = ResourceAt(set, i)
    BY <1>1, <1>2, QueueMembers
  <2>2. {j \in DOMAIN set.ready : set.ready[j] = ResourceAt(set, i)} = {k}
    BY <1>1, <2>1 DEF QueueSound, NoRepeats
  <2> QED
    BY <2>2, FS_Singleton
<1> QED
  BY <1>1, <1>2, QueueMembers DEF ReadyExact

\* As many tokens as table slots fit the queue.
LEMMA QueueFits ==
  ASSUME NEW st \in Sets, QueueSound(st.table, st.ready)
  PROVE  Len(st.ready) <= Cardinality(Indices)
<1> DEFINE n == Len(st.ready)
           f == [k \in 1..n |-> st.ready[k].index]
<1>1. /\ n \in Nat /\ DOMAIN st.ready = 1..n
      /\ \A k \in 1..n : /\ st.ready[k].index \in Indices
                         /\ st.ready[k] = ResourceAt(st, st.ready[k].index)
  BY QueueMembers
<1> HIDE DEF n
<1>2. f \in [1..n -> Indices]
  BY <1>1
<1>3. \A j, k \in 1..n : f[j] = f[k] => j = k
  BY <1>1 DEF QueueSound, NoRepeats
<1>4. f \in Injection(1..n, Indices)
  <2> HIDE DEF f
  <2> QED
    BY <1>2, <1>3 DEF Injection, IsInjective
<1>5. Cardinality(1..n) <= Cardinality(Indices)
  <2> HIDE DEF f
  <2> QED
    BY <1>4, SetAssumption, FS_Injection
<1>6. Cardinality(1..n) = n
  BY <1>1, FS_Interval
<1> QED
  BY <1>5, <1>6 DEF n

LEMMA SetTyped == SetIInv => TypeOK
<1> SUFFICES ASSUME SetIInv PROVE TypeOK
  OBVIOUS
<1>1. set \in Sets /\ QueueSound(set.table, set.ready)
  BY DEF SetIInv, SetSound
<1>2. turn.pc \in {"Idle", "Commands", "Ingest", "Drive"} /\ woken \in BOOLEAN
      /\ issued \subseteq Connections
  BY DEF SetIInv, TurnSound, Turns
<1>3. Len(set.ready) <= Cardinality(Indices)
  BY <1>1, QueueFits
<1> QED
  BY <1>1, <1>2, <1>3, SetFields DEF TypeOK

LEMMA SetRegistrationExact == SetIInv => RegistrationExact
  BY DEF SetIInv, SetSound, FenceSound, RegistrationExact, Transports, LiveIndices, Live, ResourceAt

LEMMA SetFailureFences == SetIInv => FailureFencesAll
<1> SUFFICES ASSUME SetIInv PROVE FailureFencesAll
  OBVIOUS
<1>1. set.owner = "Failed" =>
        /\ \A i \in LiveIndices(set) : ~Works(set.table[i].entry.slot)
        /\ set.control = <<>> /\ set.regular = <<>>
  BY DEF SetIInv, SetSound, FenceSound
<1>2. ASSUME NEW i \in LiveIndices(set)
      PROVE  LET e == set.table[i].entry
             IN  /\ e.transport /\ ~Works(e.slot) => e.slot.close = "Abort"
                 /\ e.slot.close # "None" \/ e.transport \/ e.slot.state = "Closed"
  BY DEF SetIInv, SetSound, EntrySound, SlotSound
<1> QED
  BY <1>1, <1>2 DEF FailureFencesAll

LEMMA SetSleeps == SetIInv => SleepsSafely
<1> SUFFICES ASSUME SetIInv, turn.pc = "Idle", set.owner = "Running", ~woken
             PROVE  /\ set.ready = <<>>
                    /\ set.control = <<>> /\ set.regular = <<>>
                    /\ \A i \in LiveIndices(set) :
                         LET e == set.table[i].entry
                         IN  Works(e.slot) => ~e.runnable /\ ~Releasable(e.slot) /\ e.synced
  BY DEF SleepsSafely
<1>1. /\ AllQueued(set) /\ set.ready = <<>> /\ set.control = <<>> /\ set.regular = <<>>
      /\ set \in Sets /\ QueueSound(set.table, set.ready) /\ FenceSound(set)
  BY DEF SetIInv, TurnSound, SetSound
<1>2. \A i \in LiveIndices(set) : ~set.table[i].entry.queued
  BY <1>1, QueueMembers
<1> QED
  BY <1>1, <1>2 DEF AllQueued, FenceSound

(***************************************************************************)
(* What the methods of a slot may leave.                                   *)
(***************************************************************************)

\* t is what a method may make of s while its transport stays where it is.
SlotLeaves(s, transport, t) == SlotSound(t, transport) /\ (Works(t) => Works(s))

LEMMA LatchedLeaves ==
  ASSUME NEW s, NEW transport \in BOOLEAN, SlotSound(s, transport)
  PROVE  /\ SlotLeaves(s, transport, Latched(s)) /\ ~Works(Latched(s))
         /\ Releasable(s) /\ transport => Latched(s).close = "Abort"
<1>1. CASE Works(s)
  <2>1. /\ Latched(s) = [s EXCEPT !.owner = "Failed", !.close = "Abort"]
        /\ s \in ContractSlots
    BY <1>1 DEF Latched, SlotSound
  <2>2. /\ Latched(s) \in ContractSlots /\ Latched(s).owner = "Failed"
        /\ Latched(s).close = "Abort" /\ Latched(s).state = s.state
    BY <2>1 DEF ContractSlots
  <2> QED
    BY <1>1, <2>2 DEF SlotLeaves, SlotSound, Works
<1>2. CASE ~Works(s)
  BY <1>2 DEF Latched, SlotLeaves, SlotSound
<1> QED
  BY <1>1, <1>2

LEMMA OrFailsLeaves ==
  ASSUME NEW s, NEW transport \in BOOLEAN, NEW slots, NEW t \in OrFails(slots),
         \A u \in slots : SlotLeaves(s, transport, u)
  PROVE  SlotLeaves(s, transport, t)
<1>1. CASE t \in slots
  BY <1>1
<1>2. CASE t \notin slots
  <2>1. PICK u \in slots : t = Latched(u)
    BY <1>2 DEF OrFails
  <2>2. SlotSound(u, transport) /\ (Works(u) => Works(s))
    BY DEF SlotLeaves
  <2> QED
    BY <2>1, <2>2, LatchedLeaves DEF SlotLeaves
<1> QED
  BY <1>1, <1>2

LEMMA StepsLeave ==
  ASSUME NEW s, NEW transport \in BOOLEAN, SlotSound(s, transport), Works(s)
  PROVE  /\ \A t \in Published(s) : SlotLeaves(s, transport, t)
         /\ \A t \in Closes(s) : SlotLeaves(s, transport, t)
         /\ \A t \in Forced(s) : SlotLeaves(s, transport, t)
         /\ \A t \in Established(s) : SlotLeaves(s, transport, t)
         /\ ~transport => Closes(s) = {} /\ Forced(s) = {} /\ Established(s) = {}
<1>1. s \in ContractSlots /\ s.owner = "Running"
  BY DEF SlotSound, Works
<1>2. ~transport => s.state = "Closed" /\ s.close = "None"
  BY DEF SlotSound
<1>3. ASSUME NEW t \in Published(s) PROVE SlotLeaves(s, transport, t)
  <2>1. /\ t \in ContractSlots /\ t.owner = s.owner /\ t.state = s.state /\ t.close = s.close
    BY <1>1 DEF Published, ContractSlots
  <2> QED
    BY <2>1 DEF SlotLeaves, SlotSound, Works
<1>4. ~transport => Closes(s) = {} /\ Forced(s) = {} /\ Established(s) = {}
  BY <1>2 DEF Closes, Forced, Established
<1>5. ASSUME NEW t \in Closes(s) PROVE SlotLeaves(s, transport, t)
  <2>1. PICK c \in {"Ready", "Graceful"} :
          t = [s EXCEPT !.state = "Closing", !.close = c, !.publications = TRUE]
    BY DEF Closes
  <2>2. t \in ContractSlots /\ t.owner = "Running" /\ t.state = "Closing"
    BY <1>1, <2>1 DEF ContractSlots
  <2>3. transport
    BY <1>4, <1>5
  <2> QED
    BY <1>1, <2>2, <2>3 DEF SlotLeaves, SlotSound, Works
<1>6. ASSUME NEW t \in Forced(s) PROVE SlotLeaves(s, transport, t)
  <2>1. t = [s EXCEPT !.close = "Ready"] /\ transport
    BY <1>4, <1>6 DEF Forced
  <2>2. t \in ContractSlots /\ t.owner = "Running" /\ t.state = s.state
    BY <1>1, <2>1 DEF ContractSlots
  <2> QED
    BY <1>1, <2>1, <2>2 DEF SlotLeaves, SlotSound, Works
<1>7. ASSUME NEW t \in Established(s) PROVE SlotLeaves(s, transport, t)
  <2>1. t = [s EXCEPT !.state = "Open", !.publications = TRUE] /\ transport
    BY <1>4, <1>7 DEF Established
  <2>2. t \in ContractSlots /\ t.owner = "Running" /\ t.state = "Open"
    BY <1>1, <2>1 DEF ContractSlots
  <2> QED
    BY <1>1, <2>1, <2>2 DEF SlotLeaves, SlotSound, Works
<1> QED
  BY <1>3, <1>4, <1>5, <1>6, <1>7

LEMMA ControlLeaves ==
  ASSUME NEW s, NEW transport \in BOOLEAN, SlotSound(s, transport), NEW kind,
         NEW t \in ControlEffect(kind, s)
  PROVE  SlotLeaves(s, transport, t)
<1>1. SlotLeaves(s, transport, s)
  BY DEF SlotLeaves
<1>2. CASE ~Works(s)
  <2>1. t = s
    BY <1>2 DEF ControlEffect, AfterFinalize, AfterCall
  <2> QED
    BY <1>1, <2>1
<1>3. CASE Works(s)
  <2>1. /\ \A u \in Published(s) : SlotLeaves(s, transport, u)
        /\ \A u \in Closes(s) : SlotLeaves(s, transport, u)
        /\ \A u \in Forced(s) : SlotLeaves(s, transport, u)
    BY <1>3, StepsLeave
  <2>2. CASE kind = "OpenAdmission"
    <3>1. t \in OrFails(Published(s))
      BY <1>3, <2>2 DEF ControlEffect
    <3> QED
      BY <2>1, <3>1, OrFailsLeaves
  <2>3. CASE kind = "Commit"
    <3>1. t \in OrFails({s}) /\ \A u \in {s} : SlotLeaves(s, transport, u)
      BY <1>1, <1>3, <2>3 DEF ControlEffect
    <3> QED
      BY <3>1, OrFailsLeaves
  <2>4. CASE kind = "Close"
    <3> DEFINE ends == {u \in Closes(s) \cup Forced(s) : u.close = "Ready"}
    <3>1. t = s \/ t \in OrFails(ends)
      BY <1>3, <2>4 DEF ControlEffect, AfterFinalize
    <3>2. \A u \in ends : SlotLeaves(s, transport, u)
      BY <2>1
    <3> HIDE DEF ends
    <3> QED
      BY <1>1, <3>1, <3>2, OrFailsLeaves
  <2>5. CASE kind \notin {"OpenAdmission", "Commit", "Close"}
    <3> DEFINE ends == Published(s) \cup Closes(s)
    <3>1. t \in OrFails(ends)
      BY <1>3, <2>5 DEF ControlEffect, AfterCall
    <3>2. \A u \in ends : SlotLeaves(s, transport, u)
      BY <2>1
    <3> HIDE DEF ends
    <3> QED
      BY <3>1, <3>2, OrFailsLeaves
  <2> QED
    BY <2>2, <2>3, <2>4, <2>5
<1> QED
  BY <1>2, <1>3

LEMMA WorkLeaves ==
  ASSUME NEW s, NEW transport \in BOOLEAN, SlotSound(s, transport), NEW t \in AfterWork(s)
  PROVE  SlotLeaves(s, transport, t)
<1>1. CASE ~Works(s)
  BY <1>1 DEF AfterWork, SlotLeaves
<1>2. CASE Works(s)
  <2> DEFINE ends == Published(s) \cup Established(s) \cup Closes(s) \cup Forced(s)
  <2>1. t \in OrFails(ends)
    BY <1>2 DEF AfterWork
  <2>2. \A u \in ends : SlotLeaves(s, transport, u)
    BY <1>2, StepsLeave
  <2> HIDE DEF ends
  <2> QED
    BY <2>1, <2>2, OrFailsLeaves
<1> QED
  BY <1>1, <1>2

LEMMA QuantumLeaves ==
  ASSUME NEW s, NEW transport \in BOOLEAN, SlotSound(s, transport), NEW t \in AfterQuantum(s)
  PROVE  SlotLeaves(s, transport, t)
<1>1. PICK u : t \in AfterWork(u) /\ \E v : u \in AfterWork(v) /\ \E w : v \in AfterWork(w) /\ w \in AfterWork(s)
  BY DEF AfterQuantum
<1>2. PICK v : u \in AfterWork(v) /\ \E w : v \in AfterWork(w) /\ w \in AfterWork(s)
  BY <1>1
<1>3. PICK w : v \in AfterWork(w) /\ w \in AfterWork(s)
  BY <1>2
<1>4. SlotLeaves(s, transport, w)
  BY <1>3, WorkLeaves
<1>5. SlotLeaves(s, transport, v)
  BY <1>3, <1>4, WorkLeaves DEF SlotLeaves
<1>6. SlotLeaves(s, transport, u)
  BY <1>2, <1>5, WorkLeaves DEF SlotLeaves
<1> QED
  BY <1>1, <1>6, WorkLeaves DEF SlotLeaves

(***************************************************************************)
(* What becomes of an entry.                                               *)
(***************************************************************************)

\* m is what may become of e: the same connection, and no slot comes back to work.
EntryLeaves(e, m) ==
  /\ EntrySound(m)
  /\ m.identity = e.identity
  /\ m.transport => e.transport
  /\ Works(m.slot) => Works(e.slot)

\* The entry after a change of its slot and flags.
LEMMA EntryAfter ==
  ASSUME NEW e \in Entries, NEW s \in ContractSlots,
         NEW runnable \in BOOLEAN, NEW due \in BOOLEAN, NEW synced \in BOOLEAN
  PROVE  LET m == [e EXCEPT !.slot = s, !.runnable = runnable, !.due = due, !.synced = synced]
         IN  /\ m \in Entries /\ m.slot = s /\ m.runnable = runnable /\ m.synced = synced
             /\ m.identity = e.identity /\ m.transport = e.transport /\ m.queued = e.queued
  BY DEF Entries

LEMMA EntryFields ==
  ASSUME NEW e \in Entries
  PROVE  /\ e.slot \in ContractSlots /\ e.transport \in BOOLEAN /\ e.queued \in BOOLEAN
         /\ e.runnable \in BOOLEAN /\ e.due \in BOOLEAN /\ e.synced \in BOOLEAN
         /\ e.identity \in Identities
  BY DEF Entries

LEMMA MovedLeaves ==
  ASSUME NEW e, EntrySound(e), NEW s, SlotLeaves(e.slot, e.transport, s), NEW m \in Moved(e, s)
  PROVE  /\ EntryLeaves(e, m) /\ m.slot = s
         /\ m.transport = e.transport /\ m.queued = e.queued
<1> DEFINE ended == s.state = "Closed" \/ ~e.transport
           only == [e EXCEPT !.slot = s, !.runnable = FALSE, !.synced = TRUE,
                             !.due = e.due /\ ~Works(s)]
           flags == [runnable : May("runnable", FALSE), due : {FALSE, e.due},
                     synced : May("synced", TRUE)]
           any(f) == [e EXCEPT !.slot = s, !.runnable = f.runnable, !.due = f.due,
                               !.synced = f.synced]
<1>1. /\ e \in Entries /\ s \in ContractSlots /\ SlotSound(s, e.transport)
      /\ Works(s) => Works(e.slot)
  BY DEF EntrySound, SlotLeaves, SlotSound
<1>2. e.due \in BOOLEAN /\ (e.due /\ ~Works(s)) \in BOOLEAN /\ e.transport \in BOOLEAN
  BY <1>1, EntryFields
<1>3. m \in IF ended THEN {only}
            ELSE {any(f) : f \in flags}
  BY Zenon DEF Moved
<1>4. CASE ended
  <2>1. m = only
    <3> HIDE DEF only, ended, any
    <3> QED
      BY <1>3, <1>4
  <2>2. /\ m \in Entries /\ m.slot = s /\ m.runnable = FALSE /\ m.synced = TRUE
        /\ m.identity = e.identity /\ m.transport = e.transport /\ m.queued = e.queued
    BY <1>1, <1>2, <2>1 DEF Entries
  <2> QED
    BY <1>1, <2>2 DEF EntryLeaves, EntrySound
<1>5. CASE ~ended
  <2>1. PICK f \in flags : m = any(f)
    <3> HIDE DEF only, ended, any, flags
    <3> QED
      BY <1>3, <1>5
  <2>2. f.runnable \in BOOLEAN /\ f.due \in BOOLEAN /\ f.synced \in BOOLEAN
    BY <1>2 DEF May
  <2>3. /\ m \in Entries /\ m.slot = s
        /\ m.identity = e.identity /\ m.transport = e.transport /\ m.queued = e.queued
    BY <1>1, <2>1, <2>2 DEF Entries
  <2> QED
    BY <1>1, <1>5, <2>3 DEF EntryLeaves, EntrySound
<1> QED
  BY <1>4, <1>5

LEMMA ReleasedFields ==
  ASSUME NEW e \in Entries, NEW s \in ContractSlots
  PROVE  /\ Released(e, s) \in Entries /\ Released(e, s).slot = s
         /\ Released(e, s).transport = FALSE /\ Released(e, s).runnable = FALSE
         /\ Released(e, s).synced = TRUE
         /\ Released(e, s).identity = e.identity /\ Released(e, s).queued = e.queued
<1>1. (e.due /\ ~Works(s)) \in BOOLEAN
  BY EntryFields
<1>2. Released(e, s) = [e EXCEPT !.slot = s, !.transport = FALSE, !.runnable = FALSE,
                                 !.synced = TRUE, !.due = e.due /\ ~Works(s)]
  BY DEF Released, Entries
<1> QED
  BY <1>1, <1>2 DEF Entries

\* A settlement releases the transport of a slot that asks for it, or leaves the
\* entry with a slot that does not ask for it any more, or fails.
LEMMA SettleLeaves ==
  ASSUME NEW e, EntrySound(e), NEW result \in SettleEntry(e)
  PROVE  /\ EntryLeaves(e, result.entry) /\ result.entry.queued = e.queued
         /\ result.error \in {"None", "Mio", "Owner"} /\ result.settled \in BOOLEAN
         /\ result.error # "None" => ~Works(result.entry.slot) /\ ~result.settled
         /\ result.error = "None" => ~Releasable(result.entry.slot)
         /\ result.settled => ~result.entry.transport
         /\ result.error = "Mio" => "Selector" \in SetFaults
         /\ result.entry.synced = e.synced \/ result.entry.synced
<1>1. /\ e \in Entries /\ SlotSound(e.slot, e.transport) /\ e.transport \in BOOLEAN
      /\ e.slot \in ContractSlots
  BY EntryFields DEF EntrySound
<1>2. PICK s \in Observed(e) :
        result \in IF ~Releasable(s) THEN {Settlement([e EXCEPT !.slot = s], "None", FALSE)}
                   ELSE {Settlement(Released(e, closed), "None", TRUE) : closed \in AfterSettlement(s)}
                        \cup (IF e.transport /\ "Selector" \in SetFaults
                              THEN {Settlement([e EXCEPT !.slot = Latched(s)], "Mio", FALSE)} ELSE {})
                        \cup (IF e.transport /\ "Pressure" \in SetFaults
                              THEN {Settlement(Released(e, Latched(s)), "Owner", FALSE)} ELSE {})
  BY DEF SettleEntry
<1>3. SlotLeaves(e.slot, e.transport, s)
  <2>1. CASE s = e.slot
    BY <1>1, <2>1 DEF SlotLeaves
  <2>2. CASE s # e.slot
    <3>1. e.transport /\ s \in Forced(e.slot)
      BY <2>2 DEF Observed
    <3>2. CASE Works(e.slot)
      BY <1>1, <3>1, <3>2, StepsLeave
    <3>3. CASE ~Works(e.slot)
      BY <1>1, <3>1, <3>3 DEF SlotSound, Forced
    <3> QED
      BY <3>2, <3>3
  <2> QED
    BY <2>1, <2>2
<1>4. s \in ContractSlots /\ SlotSound(s, e.transport) /\ (Works(s) => Works(e.slot))
  BY <1>3 DEF SlotLeaves, SlotSound
<1>5. ASSUME NEW t \in ContractSlots
      PROVE  /\ [e EXCEPT !.slot = t] \in Entries /\ [e EXCEPT !.slot = t].slot = t
             /\ [e EXCEPT !.slot = t].identity = e.identity
             /\ [e EXCEPT !.slot = t].transport = e.transport
             /\ [e EXCEPT !.slot = t].queued = e.queued
             /\ [e EXCEPT !.slot = t].runnable = e.runnable
             /\ [e EXCEPT !.slot = t].synced = e.synced
  BY <1>1 DEF Entries
<1>6. ASSUME ~Releasable(s), result = Settlement([e EXCEPT !.slot = s], "None", FALSE)
      PROVE  /\ EntryLeaves(e, result.entry) /\ result.entry.queued = e.queued
             /\ result.error = "None" /\ result.settled = FALSE
             /\ ~Releasable(result.entry.slot) /\ result.entry.synced = e.synced
  <2>1. result.entry = [e EXCEPT !.slot = s] /\ result.error = "None" /\ result.settled = FALSE
    BY <1>6 DEF Settlement
  <2>2. /\ result.entry \in Entries /\ result.entry.slot = s
        /\ result.entry.identity = e.identity /\ result.entry.transport = e.transport
        /\ result.entry.queued = e.queued /\ result.entry.runnable = e.runnable
        /\ result.entry.synced = e.synced
    BY <1>4, <1>5, <2>1
  <2> QED
    BY <1>4, <1>6, <2>1, <2>2 DEF EntryLeaves, EntrySound
<1>7. ASSUME NEW closed \in AfterSettlement(s), Releasable(s),
             result = Settlement(Released(e, closed), "None", TRUE)
      PROVE  /\ EntryLeaves(e, result.entry) /\ result.entry.queued = e.queued
             /\ result.error = "None" /\ result.settled = TRUE
             /\ ~Releasable(result.entry.slot) /\ ~result.entry.transport
             /\ result.entry.synced
  <2>1. /\ closed \in ContractSlots /\ closed.state = "Closed" /\ closed.close = "None"
        /\ closed.owner = "Running" => s.owner = "Running"
    <3>1. CASE s.close = "Abort"
      <4>1. closed = [s EXCEPT !.state = "Closed", !.close = "None"]
        BY <3>1 DEF AfterSettlement
      <4> QED
        BY <1>4, <4>1 DEF ContractSlots
    <3>2. CASE s.close # "Abort"
      <4>1. s.close = "Ready"
        BY <1>7, <3>2 DEF Releasable
      <4>2. s.owner = "Running"
        BY <1>4, <4>1 DEF SlotSound, Works
      <4>3. PICK owner \in {"Running", "Failed"} :
              closed = [s EXCEPT !.state = "Closed", !.close = "None",
                                 !.owner = owner, !.publications = TRUE]
        <5>1. \/ closed = [[s EXCEPT !.state = "Closed", !.close = "None"]
                             EXCEPT !.publications = TRUE]
              \/ closed = [[s EXCEPT !.state = "Closed", !.close = "None"]
                             EXCEPT !.owner = "Failed", !.publications = TRUE]
          BY <3>2 DEF AfterSettlement
        <5>2. CASE closed = [[s EXCEPT !.state = "Closed", !.close = "None"]
                               EXCEPT !.publications = TRUE]
          <6>1. closed = [s EXCEPT !.state = "Closed", !.close = "None",
                                   !.owner = "Running", !.publications = TRUE]
            BY <1>4, <4>2, <5>2 DEF ContractSlots
          <6> QED
            BY <6>1
        <5>3. CASE closed = [[s EXCEPT !.state = "Closed", !.close = "None"]
                               EXCEPT !.owner = "Failed", !.publications = TRUE]
          <6>1. closed = [s EXCEPT !.state = "Closed", !.close = "None",
                                   !.owner = "Failed", !.publications = TRUE]
            BY <1>4, <5>3 DEF ContractSlots
          <6> QED
            BY <6>1
        <5> QED
          BY <5>1, <5>2, <5>3
      <4> QED
        BY <1>4, <4>2, <4>3 DEF ContractSlots
    <3> QED
      BY <3>1, <3>2
  <2>2. /\ result.entry = Released(e, closed) /\ result.error = "None" /\ result.settled = TRUE
    BY <1>7 DEF Settlement
  <2>3. /\ result.entry \in Entries /\ result.entry.slot = closed
        /\ result.entry.transport = FALSE /\ result.entry.runnable = FALSE
        /\ result.entry.synced = TRUE
        /\ result.entry.identity = e.identity /\ result.entry.queued = e.queued
    <3> DEFINE m == Released(e, closed)
    <3>1. /\ m \in Entries /\ m.slot = closed /\ m.transport = FALSE /\ m.runnable = FALSE
          /\ m.synced = TRUE /\ m.identity = e.identity /\ m.queued = e.queued
      BY <1>1, <2>1, ReleasedFields, Zenon
    <3>2. result.entry = m
      BY <2>2
    <3> HIDE DEF m
    <3> QED
      BY <3>1, <3>2
  <2>4. ~Releasable(closed) /\ SlotSound(closed, FALSE)
    BY <2>1 DEF Releasable, SlotSound
  <2> QED
    BY <1>4, <2>1, <2>2, <2>3, <2>4 DEF EntryLeaves, EntrySound, Works
<1>8. /\ SlotLeaves(s, e.transport, Latched(s)) /\ ~Works(Latched(s))
      /\ Latched(s) \in ContractSlots /\ SlotSound(Latched(s), e.transport)
      /\ Releasable(s) /\ e.transport => Latched(s).close = "Abort"
  BY <1>1, <1>4, LatchedLeaves DEF SlotLeaves, SlotSound
<1>9. ASSUME e.transport, Releasable(s),
             result = Settlement([e EXCEPT !.slot = Latched(s)], "Mio", FALSE)
      PROVE  /\ EntryLeaves(e, result.entry) /\ result.entry.queued = e.queued
             /\ result.error = "Mio" /\ result.settled = FALSE
             /\ ~Works(result.entry.slot) /\ result.entry.synced = e.synced
  <2>1. result.entry = [e EXCEPT !.slot = Latched(s)] /\ result.error = "Mio" /\ result.settled = FALSE
    BY <1>9 DEF Settlement
  <2>2. /\ result.entry \in Entries /\ result.entry.slot = Latched(s)
        /\ result.entry.identity = e.identity /\ result.entry.transport = e.transport
        /\ result.entry.queued = e.queued /\ result.entry.runnable = e.runnable
        /\ result.entry.synced = e.synced
    BY <1>5, <1>8, <2>1
  <2> QED
    BY <1>8, <1>9, <2>1, <2>2 DEF EntryLeaves, EntrySound
<1>10. ASSUME e.transport, Releasable(s),
              result = Settlement(Released(e, Latched(s)), "Owner", FALSE)
       PROVE  /\ EntryLeaves(e, result.entry) /\ result.entry.queued = e.queued
              /\ result.error = "Owner" /\ result.settled = FALSE
              /\ ~Works(result.entry.slot) /\ result.entry.synced
  <2>1. /\ result.entry = Released(e, Latched(s)) /\ result.error = "Owner" /\ result.settled = FALSE
    BY <1>10 DEF Settlement
  <2>2. /\ result.entry \in Entries /\ result.entry.slot = Latched(s)
        /\ result.entry.transport = FALSE /\ result.entry.runnable = FALSE
        /\ result.entry.synced = TRUE
        /\ result.entry.identity = e.identity /\ result.entry.queued = e.queued
    <3> DEFINE m == Released(e, Latched(s))
    <3>1. /\ m \in Entries /\ m.slot = Latched(s) /\ m.transport = FALSE /\ m.runnable = FALSE
          /\ m.synced = TRUE /\ m.identity = e.identity /\ m.queued = e.queued
      BY <1>1, <1>8, ReleasedFields, Zenon
    <3>2. result.entry = m
      BY <2>1
    <3> HIDE DEF m
    <3> QED
      BY <3>1, <3>2
  <2>3. SlotSound(Latched(s), FALSE)
    BY <1>8, <1>10 DEF SlotSound
  <2> QED
    BY <1>8, <2>1, <2>2, <2>3 DEF EntryLeaves, EntrySound
<1>11. CASE ~Releasable(s)
  BY <1>2, <1>6, <1>11
<1>12. CASE Releasable(s)
  <2>1. \/ \E closed \in AfterSettlement(s) : result = Settlement(Released(e, closed), "None", TRUE)
        \/ /\ e.transport /\ "Selector" \in SetFaults
           /\ result = Settlement([e EXCEPT !.slot = Latched(s)], "Mio", FALSE)
        \/ e.transport /\ result = Settlement(Released(e, Latched(s)), "Owner", FALSE)
    BY <1>2, <1>12
  <2> QED
    BY <1>7, <1>9, <1>10, <1>12, <2>1
<1> QED
  BY <1>11, <1>12

\* A quantum leaves the connection off the queue.
LEMMA DrivenLeaves ==
  ASSUME NEW e, EntrySound(e), NEW m \in Driven(e)
  PROVE  EntryLeaves(e, m) /\ m.transport = e.transport /\ m.queued = FALSE
<1> DEFINE off == [e EXCEPT !.queued = FALSE]
<1>1. e \in Entries /\ e.transport \in BOOLEAN /\ SlotSound(e.slot, e.transport)
  BY EntryFields DEF EntrySound
<1>2. /\ off \in Entries /\ off.queued = FALSE /\ off.slot = e.slot /\ off.transport = e.transport
      /\ off.identity = e.identity /\ off.runnable = e.runnable /\ off.synced = e.synced
  BY <1>1 DEF Entries
<1>3. EntrySound(off)
  BY <1>2 DEF EntrySound
<1>4. m = off \/ \E s \in AfterQuantum(e.slot) : m \in Moved(off, s)
  BY DEF Driven
<1> HIDE DEF off
<1>5. CASE m = off
  BY <1>2, <1>3, <1>5 DEF EntryLeaves
<1>6. CASE \E s \in AfterQuantum(e.slot) : m \in Moved(off, s)
  <2>1. PICK s \in AfterQuantum(e.slot) : m \in Moved(off, s)
    BY <1>6
  <2>2. SlotLeaves(off.slot, off.transport, s)
    BY <1>1, <1>2, QuantumLeaves
  <2>3. /\ EntryLeaves(off, m) /\ m.transport = off.transport /\ m.queued = off.queued
    BY <1>3, <2>1, <2>2, MovedLeaves
  <2> QED
    BY <1>2, <2>3 DEF EntryLeaves
<1> QED
  BY <1>4, <1>5, <1>6

\* Without an error the selector knows the interest of the connection.
LEMMA SyncLeaves ==
  ASSUME NEW e, EntrySound(e), NEW result \in SyncInterest(e)
  PROVE  /\ EntryLeaves(e, result.entry)
         /\ result.entry.transport = e.transport /\ result.entry.queued = e.queued
         /\ result.error \in {"None", "Mio"}
         /\ result.error = "Mio" => ~Works(result.entry.slot) /\ "Selector" \in SetFaults
         /\ result.error = "None" => result.entry.synced
<1>1. /\ e \in Entries /\ e.transport \in BOOLEAN /\ SlotSound(e.slot, e.transport)
      /\ e.synced \in BOOLEAN /\ e.slot \in ContractSlots
  BY EntryFields DEF EntrySound
<1>2. CASE ~e.transport \/ e.synced
  <2>1. result = [entry |-> e, error |-> "None"]
    BY <1>2 DEF SyncInterest
  <2>2. result.entry = e /\ result.error = "None" /\ e.synced
    BY <1>1, <1>2, <2>1 DEF EntrySound
  <2> QED
    BY <2>2 DEF EntryLeaves
<1>3. CASE ~(~e.transport \/ e.synced)
  <2>1. PICK a \in [selector : SelectorAnswers, pressure : PressureAnswers] :
          result = LET ok == a.selector = "Ok" /\ a.pressure = "Ok"
                   IN  [entry |-> [e EXCEPT !.slot = IF ok THEN e.slot ELSE Latched(e.slot),
                                            !.synced = a.selector = "Ok"],
                        error |-> IF a.selector = "Ok" THEN "None" ELSE a.selector]
    BY <1>3 DEF SyncInterest
  <2>2. a.selector \in {"Ok", "Mio"} /\ (a.selector = "Mio" => "Selector" \in SetFaults)
    BY DEF SelectorAnswers
  <2> DEFINE t == IF a.selector = "Ok" /\ a.pressure = "Ok" THEN e.slot ELSE Latched(e.slot)
             synced == a.selector = "Ok"
  <2>3. /\ SlotLeaves(e.slot, e.transport, t) /\ t \in ContractSlots /\ synced \in BOOLEAN
        /\ ~synced => ~Works(t)
    BY <1>1, LatchedLeaves DEF SlotLeaves, SlotSound
  <2>4. /\ result.entry = [e EXCEPT !.slot = t, !.synced = synced]
        /\ result.error = IF a.selector = "Ok" THEN "None" ELSE a.selector
    BY <2>1
  <2>5. synced <=> a.selector = "Ok"
    OBVIOUS
  <2> HIDE DEF t, synced
  <2>6. /\ result.entry \in Entries /\ result.entry.slot = t /\ result.entry.synced = synced
        /\ result.entry.identity = e.identity /\ result.entry.transport = e.transport
        /\ result.entry.queued = e.queued /\ result.entry.runnable = e.runnable
    BY <1>1, <2>3, <2>4 DEF Entries
  <2>7. EntryLeaves(e, result.entry)
    BY <1>3, <2>3, <2>6 DEF EntryLeaves, EntrySound, SlotLeaves
  <2> QED
    BY <2>2, <2>3, <2>4, <2>5, <2>6, <2>7
<1> QED
  BY <1>2, <1>3

(***************************************************************************)
(* What the methods of the set change.                                     *)
(***************************************************************************)

\* Everything but the table, the ready queue, the owner and the registrations.
Untouched(st, nt) ==
  /\ nt.control = st.control /\ nt.regular = st.regular /\ nt.morePending = st.morePending
  /\ nt.events = st.events /\ nt.saturated = st.saturated

OnlyRow(st, nt, i) == \A j \in Indices : j # i => nt.table[j] = st.table[j]

LEMMA RowFields ==
  ASSUME NEW g \in 1..(MaxGeneration + 1), NEW e \in Entries \cup {NoEntry},
         e # NoEntry => g <= MaxGeneration
  PROVE  [generation |-> g, entry |-> e] \in Rows
  BY DEF Rows

LEMMA PutFields ==
  ASSUME NEW st \in Sets, NEW r, r.index \in Indices, NEW e \in Entries,
         st.table[r.index].generation \in 1..MaxGeneration
  PROVE  /\ Put(st, r, e) \in Sets /\ Untouched(st, Put(st, r, e))
         /\ OnlyRow(st, Put(st, r, e), r.index)
         /\ Put(st, r, e).table[r.index].generation = st.table[r.index].generation
         /\ Put(st, r, e).table[r.index].entry = e
         /\ Put(st, r, e).ready = st.ready /\ Put(st, r, e).owner = st.owner
         /\ Put(st, r, e).registered = st.registered
<1> DEFINE i == r.index
           row == [generation |-> st.table[i].generation, entry |-> e]
<1>1. /\ i \in Indices /\ st.table \in [Indices -> Rows]
      /\ st.table[i].generation \in 1..MaxGeneration
  BY SetFields
<1>2. row \in Rows
  BY <1>1, SetAssumption, RowFields
<1>3. [st.table[i] EXCEPT !.entry = e] = row
  BY <1>1 DEF Rows
<1>4. Put(st, r, e) = [st EXCEPT !.table = [st.table EXCEPT ![i] = row]]
  BY <1>1, <1>3 DEF Put, Sets
<1>5. row.generation = st.table[i].generation /\ row.entry = e
  OBVIOUS
<1> HIDE DEF row, i
<1>6. [st.table EXCEPT ![i] = row] \in [Indices -> Rows]
  BY <1>1, <1>2
<1> QED
  BY <1>1, <1>4, <1>5, <1>6 DEF Sets, Untouched, OnlyRow, i
LEMMA EnqueueFields ==
  ASSUME NEW st \in Sets, NEW r \in Resources, Occupied(st, r), ~EntryAt(st, r).queued
  PROVE  /\ Enqueue(st, r) \in Sets /\ Untouched(st, Enqueue(st, r))
         /\ OnlyRow(st, Enqueue(st, r), r.index)
         /\ Enqueue(st, r).table[r.index].generation = st.table[r.index].generation
         /\ Enqueue(st, r).table[r.index].entry = [EntryAt(st, r) EXCEPT !.queued = TRUE]
         /\ Enqueue(st, r).ready = Append(st.ready, r) /\ Enqueue(st, r).owner = st.owner
         /\ Enqueue(st, r).registered = st.registered
<1> DEFINE i == r.index
           e == st.table[i].entry
           m == [e EXCEPT !.queued = TRUE]
           row == [generation |-> st.table[i].generation, entry |-> m]
<1>1. i \in Indices /\ Live(st, i)
  BY DEF Occupied, Resources
<1>2. /\ st.table \in [Indices -> Rows] /\ st.ready \in Seq(Resources)
      /\ st.table[i].generation \in 1..MaxGeneration /\ e \in Entries
  BY <1>1, SetFields
<1>3. m \in Entries
  BY <1>2 DEF Entries
<1>4. row \in Rows
  <2> HIDE DEF m, e, i
  <2>1. st.table[i].generation \in 1..(MaxGeneration + 1) /\ st.table[i].generation <= MaxGeneration
    BY <1>2, SetAssumption
  <2> QED
    BY <1>3, <2>1, RowFields
<1>5. [st.table[i] EXCEPT !.entry.queued = TRUE] = row
  <2>1. st.table[i] \in Rows
    BY <1>1, <1>2
  <2>2. [st.table[i] EXCEPT !.entry.queued = TRUE] = [st.table[i] EXCEPT !.entry = m]
    BY <2>1 DEF Rows
  <2> HIDE DEF m, i
  <2> QED
    BY <2>1, <2>2 DEF Rows
<1>6. Enqueue(st, r) = [st EXCEPT !.table[r.index].entry.queued = TRUE, !.ready = Append(@, r)]
  BY DEF Enqueue
<1>7. Enqueue(st, r) = [st EXCEPT !.table = [st.table EXCEPT ![i] = row],
                                  !.ready = Append(st.ready, r)]
  BY <1>1, <1>2, <1>5, <1>6 DEF Sets
<1>8. row.generation = st.table[i].generation /\ row.entry = [EntryAt(st, r) EXCEPT !.queued = TRUE]
  BY DEF EntryAt
<1> HIDE DEF row, m, e, i
<1>9. [st.table EXCEPT ![i] = row] \in [Indices -> Rows]
  BY <1>2, <1>4
<1>10. Append(st.ready, r) \in Seq(Resources)
  BY <1>2
<1>11. /\ Enqueue(st, r) \in Sets /\ Untouched(st, Enqueue(st, r))
       /\ Enqueue(st, r).ready = Append(st.ready, r) /\ Enqueue(st, r).owner = st.owner
       /\ Enqueue(st, r).registered = st.registered
       /\ Enqueue(st, r).table = [st.table EXCEPT ![i] = row]
  BY <1>7, <1>9, <1>10 DEF Sets, Untouched
<1> QED
  BY <1>1, <1>2, <1>8, <1>11 DEF OnlyRow, i

LEMMA EvictFields ==
  ASSUME NEW st \in Sets, NEW r \in Resources
  PROVE  /\ Evict(st, r) \in Sets /\ Untouched(st, Evict(st, r))
         /\ OnlyRow(st, Evict(st, r), r.index) /\ ~Live(Evict(st, r), r.index)
         /\ Evict(st, r).ready = st.ready /\ Evict(st, r).owner = st.owner
         /\ Evict(st, r).registered = st.registered
<1> DEFINE i == r.index
           row == [generation |-> r.generation + 1, entry |-> NoEntry]
<1>1. i \in Indices /\ r.generation \in 1..MaxGeneration
  BY DEF Resources
<1>2. r.generation + 1 \in 1..(MaxGeneration + 1)
  BY <1>1, SetAssumption
<1>3. row \in Rows /\ row.entry = NoEntry
  BY <1>2, RowFields
<1>4. Evict(st, r) = [st EXCEPT !.table = [st.table EXCEPT ![i] = row]]
  BY <1>1 DEF Evict, Sets
<1> HIDE DEF row, i
<1>5. st.table \in [Indices -> Rows] /\ [st.table EXCEPT ![i] = row] \in [Indices -> Rows]
  BY <1>3, SetFields
<1> QED
  BY <1>1, <1>3, <1>4, <1>5 DEF Sets, Untouched, OnlyRow, Live, i

LEMMA LatchFields ==
  ASSUME NEW st \in Sets, st.owner = "Running",
         \A i \in LiveIndices(st) : EntrySound(st.table[i].entry)
  PROVE  LET nt == LatchSelectorFailure(st)
         IN  /\ nt \in Sets /\ nt.owner = "Failed" /\ nt.registered = st.registered
             /\ nt.control = <<>> /\ nt.regular = <<>> /\ nt.ready = <<>>
             /\ \A i \in Indices :
                  /\ nt.table[i].generation = st.table[i].generation
                  /\ Live(nt, i) <=> Live(st, i)
                  /\ Live(st, i) =>
                       LET e == st.table[i].entry
                           m == nt.table[i].entry
                       IN  /\ m.slot = Latched(e.slot) /\ ~m.queued
                           /\ EntryLeaves(e, m) /\ m.transport = e.transport
<1> DEFINE nt == LatchSelectorFailure(st)
           table == [i \in Indices |-> LatchedEntry(st.table[i])]
<1>1. nt = [st EXCEPT !.owner = "Failed", !.control = <<>>, !.regular = <<>>, !.ready = <<>>,
                      !.table = table]
  BY DEF LatchSelectorFailure, Sets
<1>2. ASSUME NEW i \in Indices
      PROVE  /\ LatchedEntry(st.table[i]) \in Rows
             /\ LatchedEntry(st.table[i]).generation = st.table[i].generation
             /\ LatchedEntry(st.table[i]).entry # NoEntry <=> Live(st, i)
             /\ Live(st, i) =>
                  LET e == st.table[i].entry
                      m == LatchedEntry(st.table[i]).entry
                  IN  /\ m.slot = Latched(e.slot) /\ ~m.queued
                      /\ EntryLeaves(e, m) /\ m.transport = e.transport
  <2> DEFINE row == st.table[i]
             e == row.entry
  <2>1. row \in Rows
    BY SetFields
  <2>2. CASE ~Live(st, i)
    BY <2>1, <2>2 DEF LatchedEntry, Live
  <2>3. CASE Live(st, i)
    <3> DEFINE m == [e EXCEPT !.slot = Latched(e.slot), !.queued = FALSE]
    <3>1. e \in Entries /\ EntrySound(e) /\ e # NoEntry /\ row.generation \in 1..MaxGeneration
      BY <2>3, SetFields DEF LiveIndices, Live
    <3>2. SlotLeaves(e.slot, e.transport, Latched(e.slot)) /\ Latched(e.slot) \in ContractSlots
          /\ ~Works(Latched(e.slot))
      BY <3>1, EntryFields, LatchedLeaves DEF EntrySound, SlotLeaves, SlotSound
    <3>3. LatchedEntry(row) = [generation |-> row.generation, entry |-> m]
      BY <2>1, <3>1 DEF LatchedEntry, Rows, Entries
    <3>4. /\ m \in Entries /\ m.slot = Latched(e.slot) /\ m.queued = FALSE
          /\ m.transport = e.transport /\ m.identity = e.identity
          /\ m.runnable = e.runnable /\ m.synced = e.synced
      BY <3>1, <3>2 DEF Entries
    <3> HIDE DEF m, row, e
    <3>5. EntryLeaves(e, m)
      BY <3>1, <3>2, <3>4 DEF EntryLeaves, EntrySound, SlotLeaves
    <3>6. m # NoEntry
      BY <3>4, NoEntryIsNone
    <3>7. [generation |-> row.generation, entry |-> m] \in Rows
      BY <3>1, <3>4, SetAssumption, RowFields
    <3> QED
      BY <2>3, <3>3, <3>4, <3>5, <3>6, <3>7 DEF row, e
  <2> QED
    BY <2>2, <2>3
<1>3. table \in [Indices -> Rows]
  BY <1>2
<1>4. /\ nt.owner = "Failed" /\ nt.control = <<>> /\ nt.regular = <<>> /\ nt.ready = <<>>
      /\ nt.registered = st.registered /\ nt.table = table
  <2> HIDE DEF table, nt
  <2> QED
    BY <1>1 DEF Sets
<1>5. nt \in Sets
  <2> HIDE DEF table, nt
  <2>1. <<>> \in Seq(Commands) /\ <<>> \in Seq(Resources)
    OBVIOUS
  <2> QED
    BY <1>1, <1>3, <2>1 DEF Sets
<1>6. \A i \in Indices : nt.table[i] = LatchedEntry(st.table[i])
  BY <1>4
<1> HIDE DEF nt, table
<1> QED
  BY <1>2, <1>4, <1>5, <1>6, Zenon DEF Live, nt
(***************************************************************************)
(* The queue without one connection.                                       *)
(***************************************************************************)
\* Retained is an iteration over the queue.
LEMMA RetainedIterates ==
  ASSUME NEW queue \in Seq(Resources), NEW r
  PROVE  \E kept \in [0..Len(queue) -> Seq(Resources)] :
           /\ kept[0] = <<>>
           /\ \A i \in 1..Len(queue) :
                kept[i] = IF queue[i] = r THEN kept[i - 1] ELSE Append(kept[i - 1], queue[i])
           /\ kept[Len(queue)] = Retained(queue, r)
<1> DEFINE n == Len(queue)
           Next1(x, i) == IF queue[i] = r THEN x ELSE Append(x, queue[i])
           step == [i \in 1..n |-> [x \in Seq(Resources) |-> Next1(x, i)]]
<1>1. \A i \in 1..n : \A x \in Seq(Resources) : Next1(x, i) \in Seq(Resources)
  <2>1. \A i \in 1..n : queue[i] \in Resources
    OBVIOUS
  <2> QED
    BY <2>1
<1>2. Retained(queue, r)
        = (CHOOSE g : g = [i \in 0..n |-> IF i = 0 THEN <<>> ELSE Next1(g[i - 1], i)])[n]
  BY DEF Retained
<1>3. n \in Nat /\ <<>> \in Seq(Resources)
  OBVIOUS
<1> HIDE DEF n, Next1
<1>4. step \in Steps(Seq(Resources), n)
  BY <1>1 DEF Steps
<1>5. PICK f : IsIteration(f, Seq(Resources), n, <<>>, step)
  <2> HIDE DEF step
  <2> QED BY <1>3, <1>4, IterationExists
<1>6. /\ f \in [0..n -> Seq(Resources)] /\ f[0] = <<>>
      /\ \A i \in 1..n : f[i] = Next1(f[i - 1], i)
  <2>1. /\ f \in [0..n -> Seq(Resources)] /\ f[0] = <<>>
        /\ \A i \in 1..n : f[i] = step[i][f[i - 1]]
    <3> HIDE DEF step
    <3> QED BY <1>5 DEF IsIteration
  <2>2. \A i \in 1..n : f[i - 1] \in Seq(Resources)
    BY <1>3, <2>1
  <2> QED
    BY <2>1, <2>2
<1> DEFINE Fixed(g) == g = [i \in 0..n |-> IF i = 0 THEN <<>> ELSE Next1(g[i - 1], i)]
           kept == CHOOSE g : Fixed(g)
<1>7. Fixed(f)
  BY <1>3, <1>6
<1>8. Fixed(kept)
  BY <1>7
<1>9. kept[n] = Retained(queue, r)
  BY <1>2
<1> HIDE DEF kept, step
<1>10. kept[0] = <<>> /\ \A i \in 1..n : kept[i] = Next1(kept[i - 1], i)
  BY <1>3, <1>8
<1> DEFINE G == {i \in 0..n : kept[i] \in Seq(Resources)}
<1>11. 0 \in G
  <2>1. 0 \in 0..n
    BY <1>3
  <2>2. kept[0] \in Seq(Resources)
    BY <1>3, <1>10, Zenon
  <2> QED
    BY <2>1, <2>2, Zenon
<1>12. ASSUME NEW i \in 0..(n - 1), i \in G PROVE i + 1 \in G
  <2>1. i + 1 \in 0..n /\ i + 1 \in 1..n /\ (i + 1) - 1 = i
    BY <1>3
  <2>2. kept[i + 1] = Next1(kept[i], i + 1)
    BY <1>10, <2>1
  <2> QED
    BY <1>1, <1>12, <2>1, <2>2
<1>13. 0..n \subseteq G
  <2> HIDE DEF G
  <2> QED
    BY <1>3, <1>11, <1>12, BoundedInduction
<1>14. kept \in [0..n -> Seq(Resources)]
  BY <1>8, <1>13
<1> QED
  BY <1>9, <1>10, <1>14 DEF n, Next1

\* kept is queue up to m without r: nothing else is lost, nothing is repeated
\* and nothing moves back.
KeepsUpTo(queue, r, m, kept) ==
  /\ NoRepeats(kept)
  /\ \A j \in DOMAIN kept : \E k \in 1..m : j <= k /\ kept[j] = queue[k] /\ queue[k] # r
  /\ \A k \in 1..m : queue[k] # r => \E j \in DOMAIN kept : kept[j] = queue[k]

LEMMA RetainedKeeps ==
  ASSUME NEW queue \in Seq(Resources), NEW r, NoRepeats(queue)
  PROVE  /\ Retained(queue, r) \in Seq(Resources)
         /\ KeepsUpTo(queue, r, Len(queue), Retained(queue, r))
<1> DEFINE n == Len(queue)
<1>1. PICK kept \in [0..n -> Seq(Resources)] :
        /\ kept[0] = <<>>
        /\ \A i \in 1..n : kept[i] = IF queue[i] = r THEN kept[i - 1] ELSE Append(kept[i - 1], queue[i])
        /\ kept[n] = Retained(queue, r)
  BY RetainedIterates
<1> DEFINE G == {i \in 0..n : KeepsUpTo(queue, r, i, kept[i])}
<1>2. n \in Nat /\ DOMAIN queue = 1..n
  OBVIOUS
<1> HIDE DEF n
<1>3. 0 \in G
  <2>1. 0 \in 0..n /\ DOMAIN kept[0] = {} /\ 1..0 = {}
    BY <1>1, <1>2
  <2> QED
    BY <2>1 DEF KeepsUpTo, NoRepeats
<1>4. ASSUME NEW i \in 0..(n - 1), i \in G PROVE i + 1 \in G
  <2> DEFINE old == kept[i]
             new == kept[i + 1]
             x == queue[i + 1]
  <2>1. i \in Nat /\ i + 1 \in 0..n /\ i + 1 \in 1..n /\ (i + 1) - 1 = i /\ i \in 0..n
    BY <1>2
  <2>2. KeepsUpTo(queue, r, i, old)
    BY <1>4
  <2>3. new = IF x = r THEN old ELSE Append(old, x)
    BY <1>1, <2>1
  <2>4. old \in Seq(Resources) /\ 1..i \subseteq 1..(i + 1)
    BY <1>1, <2>1
  <2>5. \A k \in 1..(i + 1) : k \in 1..i \/ k = i + 1
    BY <2>1
  <2>6. 1..(i + 1) \subseteq DOMAIN queue
    BY <1>2, <2>1
  <2> HIDE DEF old, new, x
  <2>7. CASE x = r
    <3>1. new = old
      BY <2>3, <2>7
    <3>2. \A j \in DOMAIN old : \E k \in 1..(i + 1) : j <= k /\ old[j] = queue[k] /\ queue[k] # r
      BY <2>2, <2>4 DEF KeepsUpTo
    <3>3. \A k \in 1..(i + 1) : queue[k] # r => \E j \in DOMAIN old : old[j] = queue[k]
      BY <2>2, <2>5, <2>7 DEF KeepsUpTo, x
    <3>4. KeepsUpTo(queue, r, i + 1, new)
      BY <2>2, <3>1, <3>2, <3>3 DEF KeepsUpTo
    <3> QED
      BY <2>1, <3>4 DEF new
  <2>8. CASE x # r
    <3>1. /\ new = Append(old, x) /\ Len(old) \in Nat /\ DOMAIN old = 1..Len(old)
          /\ DOMAIN new = 1..(Len(old) + 1) /\ new[Len(old) + 1] = x
          /\ \A j \in 1..Len(old) : new[j] = old[j]
      BY <2>3, <2>4, <2>8
    <3>2. \A j \in DOMAIN old : old[j] # x
      <4>1. SUFFICES ASSUME NEW j \in DOMAIN old, old[j] = x PROVE FALSE
        OBVIOUS
      <4>2. PICK k \in 1..i : old[j] = queue[k]
        BY <2>2 DEF KeepsUpTo
      <4>3. k \in DOMAIN queue /\ i + 1 \in DOMAIN queue /\ k # i + 1
        BY <2>1, <2>4, <2>6
      <4> QED
        BY <4>1, <4>2, <4>3 DEF NoRepeats, x
    <3>3. NoRepeats(new)
      BY <2>2, <3>1, <3>2 DEF KeepsUpTo, NoRepeats
    <3>4. Len(old) <= i
      <4>1. CASE Len(old) = 0
        BY <4>1, <2>1
      <4>2. CASE Len(old) # 0
        <5>1. Len(old) \in DOMAIN old
          BY <3>1, <4>2
        <5>2. PICK k \in 1..i : Len(old) <= k
          BY <2>2, <5>1 DEF KeepsUpTo
        <5> QED
          BY <3>1, <2>1, <5>2
      <4> QED
        BY <4>1, <4>2
    <3>5. ASSUME NEW j \in DOMAIN new
          PROVE  \E k \in 1..(i + 1) : j <= k /\ new[j] = queue[k] /\ queue[k] # r
      <4>1. CASE j \in DOMAIN old
        BY <2>2, <2>4, <3>1, <4>1 DEF KeepsUpTo
      <4>2. CASE j \notin DOMAIN old
        <5>1. j = Len(old) + 1 /\ j <= i + 1 /\ i + 1 \in 1..(i + 1)
          BY <2>1, <3>1, <3>4, <4>2
        <5> QED
          BY <2>8, <3>1, <5>1 DEF x
      <4> QED
        BY <4>1, <4>2
    <3>6. ASSUME NEW k \in 1..(i + 1), queue[k] # r
          PROVE  \E j \in DOMAIN new : new[j] = queue[k]
      <4>1. CASE k \in 1..i
        <5>1. PICK j \in DOMAIN old : old[j] = queue[k]
          BY <2>2, <3>6, <4>1 DEF KeepsUpTo
        <5>2. j \in DOMAIN new /\ new[j] = old[j]
          BY <3>1
        <5> QED
          BY <5>1, <5>2
      <4>2. CASE k = i + 1
        <5>1. Len(old) + 1 \in DOMAIN new
          BY <3>1
        <5> QED
          BY <3>1, <4>2, <5>1 DEF x
      <4> QED
        BY <2>5, <4>1, <4>2
    <3>7. KeepsUpTo(queue, r, i + 1, new)
      BY <3>3, <3>5, <3>6 DEF KeepsUpTo
    <3> QED
      BY <2>1, <3>7 DEF new
  <2> QED
    BY <2>7, <2>8
<1>5. 0..n \subseteq G
  <2> HIDE DEF G
  <2> QED
    BY <1>2, <1>3, <1>4, BoundedInduction
<1>6. n \in 0..n
  BY <1>2
<1> QED
  BY <1>1, <1>5, <1>6 DEF n

(***************************************************************************)
(* A method that changes one row of the table.                             *)
(***************************************************************************)

\* The mark of the row and the queue stay.
LEMMA QueueKept ==
  ASSUME NEW st \in Sets, NEW nt \in Sets, QueueSound(st.table, st.ready), NEW i \in Indices,
         OnlyRow(st, nt, i), nt.ready = st.ready, Live(st, i), Live(nt, i),
         nt.table[i].generation = st.table[i].generation,
         nt.table[i].entry.queued = st.table[i].entry.queued
  PROVE  QueueSound(nt.table, nt.ready)
<1>1. \A j \in Indices :
        /\ nt.table[j].generation = st.table[j].generation
        /\ nt.table[j].entry # NoEntry <=> st.table[j].entry # NoEntry
        /\ nt.table[j].entry.queued = st.table[j].entry.queued
  BY DEF OnlyRow, Live
<1>2. \A k \in DOMAIN st.ready : st.ready[k].index \in Indices
  BY QueueMembers
<1>3. NoRepeats(nt.ready)
  BY DEF QueueSound
<1>4. ASSUME NEW k \in DOMAIN nt.ready
      PROVE  /\ nt.table[nt.ready[k].index].generation = nt.ready[k].generation
             /\ nt.table[nt.ready[k].index].entry # NoEntry
             /\ nt.table[nt.ready[k].index].entry.queued
  <2>1. /\ st.table[st.ready[k].index].generation = st.ready[k].generation
        /\ st.table[st.ready[k].index].entry # NoEntry
        /\ st.table[st.ready[k].index].entry.queued
    BY DEF QueueSound
  <2> QED
    BY <1>1, <1>2, <2>1
<1>5. ASSUME NEW j \in Indices, nt.table[j].entry # NoEntry, nt.table[j].entry.queued
      PROVE  \E k \in DOMAIN nt.ready :
               nt.ready[k] = [index |-> j, generation |-> nt.table[j].generation]
  <2>1. st.table[j].entry # NoEntry /\ st.table[j].entry.queued
    BY <1>1, <1>5
  <2>2. PICK k \in DOMAIN st.ready :
          st.ready[k] = [index |-> j, generation |-> st.table[j].generation]
    BY <2>1 DEF QueueSound
  <2> QED
    BY <1>1, <2>2
<1> QED
  BY <1>3, <1>4, <1>5 DEF QueueSound

\* A row that was not marked is, and its connection is last in the queue.
LEMMA QueueJoined ==
  ASSUME NEW st \in Sets, NEW nt \in Sets, QueueSound(st.table, st.ready), NEW i \in Indices,
         OnlyRow(st, nt, i), ~(Live(st, i) /\ st.table[i].entry.queued),
         Live(nt, i), nt.table[i].entry.queued, ResourceAt(nt, i) \in Resources,
         nt.ready = Append(st.ready, ResourceAt(nt, i))
  PROVE  /\ QueueSound(nt.table, nt.ready)
         /\ \A k \in DOMAIN st.ready : k \in DOMAIN nt.ready /\ nt.ready[k] = st.ready[k]
<1> DEFINE n == Len(st.ready)
           r == ResourceAt(nt, i)
<1>1. /\ n \in Nat /\ DOMAIN st.ready = 1..n
      /\ \A k \in 1..n : /\ st.ready[k].index \in Indices
                         /\ st.ready[k] = ResourceAt(st, st.ready[k].index)
                         /\ Live(st, st.ready[k].index)
                         /\ st.table[st.ready[k].index].entry.queued
  <2>1. /\ n \in Nat /\ DOMAIN st.ready = 1..n
        /\ \A k \in 1..n : /\ st.ready[k].index \in Indices
                           /\ st.ready[k] = ResourceAt(st, st.ready[k].index)
                           /\ Occupied(st, st.ready[k]) /\ EntryAt(st, st.ready[k]).queued
    BY QueueMembers
  <2> HIDE DEF n
  <2> QED
    BY <2>1 DEF Occupied, EntryAt
<1>2. \A k \in 1..n : st.ready[k].index # i
  BY <1>1
<1>3. st.ready \in Seq(Resources)
  BY SetFields
<1>4. /\ DOMAIN nt.ready = 1..(n + 1) /\ nt.ready[n + 1] = r
      /\ \A k \in 1..n : nt.ready[k] = st.ready[k]
  BY <1>3
<1>5. r.index = i /\ r = [index |-> i, generation |-> nt.table[i].generation]
      /\ r.generation = nt.table[i].generation
  BY DEF ResourceAt
<1> HIDE DEF n, r
<1>6. NoRepeats(nt.ready)
  <2>1. SUFFICES ASSUME NEW j \in 1..(n + 1), NEW k \in 1..(n + 1), nt.ready[j] = nt.ready[k]
                 PROVE  j = k
    BY <1>4 DEF NoRepeats
  <2>2. (j \in 1..n \/ j = n + 1) /\ (k \in 1..n \/ k = n + 1)
    BY <1>1
  <2>3. CASE j \in 1..n /\ k \in 1..n
    <3>1. st.ready[j] = st.ready[k]
      BY <1>4, <2>1, <2>3
    <3> QED
      BY <1>1, <2>3, <3>1 DEF QueueSound, NoRepeats
  <2>4. CASE j \in 1..n /\ k = n + 1
    <3>1. st.ready[j].index = i
      BY <1>4, <1>5, <2>1, <2>4
    <3> QED
      BY <1>2, <2>4, <3>1
  <2>5. CASE j = n + 1 /\ k \in 1..n
    <3>1. st.ready[k].index = i
      BY <1>4, <1>5, <2>1, <2>5
    <3> QED
      BY <1>2, <2>5, <3>1
  <2> QED
    BY <2>2, <2>3, <2>4, <2>5
<1>7. ASSUME NEW k \in DOMAIN nt.ready
      PROVE  /\ nt.table[nt.ready[k].index].generation = nt.ready[k].generation
             /\ nt.table[nt.ready[k].index].entry # NoEntry
             /\ nt.table[nt.ready[k].index].entry.queued
  <2>1. CASE k = n + 1
    BY <1>4, <1>5, <2>1 DEF Live
  <2>2. CASE k # n + 1
    <3>1. k \in 1..n /\ nt.ready[k] = st.ready[k]
      BY <1>1, <1>4, <2>2
    <3>2. nt.table[nt.ready[k].index] = st.table[st.ready[k].index]
      BY <1>1, <1>2, <3>1 DEF OnlyRow
    <3>3. /\ st.table[st.ready[k].index].generation = st.ready[k].generation
          /\ st.table[st.ready[k].index].entry # NoEntry
          /\ st.table[st.ready[k].index].entry.queued
      BY <1>1, <3>1 DEF QueueSound
    <3> QED
      BY <3>1, <3>2, <3>3
  <2> QED
    BY <2>1, <2>2
<1>8. ASSUME NEW j \in Indices, nt.table[j].entry # NoEntry, nt.table[j].entry.queued
      PROVE  \E k \in DOMAIN nt.ready :
               nt.ready[k] = [index |-> j, generation |-> nt.table[j].generation]
  <2>1. CASE j = i
    <3>1. n + 1 \in DOMAIN nt.ready
      BY <1>1, <1>4
    <3> QED
      BY <1>4, <1>5, <2>1, <3>1
  <2>2. CASE j # i
    <3>1. nt.table[j] = st.table[j]
      BY <2>2 DEF OnlyRow
    <3>2. PICK k \in DOMAIN st.ready :
            st.ready[k] = [index |-> j, generation |-> st.table[j].generation]
      BY <1>8, <3>1 DEF QueueSound
    <3>3. k \in DOMAIN nt.ready /\ nt.ready[k] = st.ready[k]
      BY <1>1, <1>4
    <3> QED
      BY <3>1, <3>2, <3>3
  <2> QED
    BY <2>1, <2>2
<1>9. \A k \in DOMAIN st.ready : k \in DOMAIN nt.ready /\ nt.ready[k] = st.ready[k]
  BY <1>1, <1>4
<1>10. QueueSound(nt.table, nt.ready)
  BY <1>6, <1>7, <1>8 DEF QueueSound
<1> QED
  BY <1>9, <1>10

\* The connection of the row leaves the queue.
LEMMA QueueLeft ==
  ASSUME NEW st \in Sets, NEW nt \in Sets, QueueSound(st.table, st.ready), NEW i \in Indices,
         OnlyRow(st, nt, i), ~(Live(nt, i) /\ nt.table[i].entry.queued),
         NoRepeats(nt.ready),
         \A j \in DOMAIN nt.ready :
           \E k \in DOMAIN st.ready : nt.ready[j] = st.ready[k] /\ st.ready[k].index # i,
         \A k \in DOMAIN st.ready : st.ready[k].index # i =>
           \E j \in DOMAIN nt.ready : nt.ready[j] = st.ready[k]
  PROVE  QueueSound(nt.table, nt.ready)
<1>1. ASSUME NEW j \in DOMAIN nt.ready
      PROVE  /\ nt.table[nt.ready[j].index].generation = nt.ready[j].generation
             /\ nt.table[nt.ready[j].index].entry # NoEntry
             /\ nt.table[nt.ready[j].index].entry.queued
  <2>1. PICK k \in DOMAIN st.ready : nt.ready[j] = st.ready[k] /\ st.ready[k].index # i
    OBVIOUS
  <2>2. st.ready[k].index \in Indices
    BY QueueMembers
  <2>3. nt.table[nt.ready[j].index] = st.table[st.ready[k].index]
    BY <2>1, <2>2 DEF OnlyRow
  <2>4. /\ st.table[st.ready[k].index].generation = st.ready[k].generation
        /\ st.table[st.ready[k].index].entry # NoEntry
        /\ st.table[st.ready[k].index].entry.queued
    BY <2>1 DEF QueueSound
  <2> QED
    BY <2>1, <2>3, <2>4
<1>2. ASSUME NEW j \in Indices, nt.table[j].entry # NoEntry, nt.table[j].entry.queued
      PROVE  \E k \in DOMAIN nt.ready :
               nt.ready[k] = [index |-> j, generation |-> nt.table[j].generation]
  <2>1. j # i
    BY <1>2 DEF Live
  <2>2. nt.table[j] = st.table[j]
    BY <2>1 DEF OnlyRow
  <2>3. PICK k \in DOMAIN st.ready :
          st.ready[k] = [index |-> j, generation |-> st.table[j].generation]
    <3>1. st.table[j].entry # NoEntry /\ st.table[j].entry.queued
      BY <1>2, <2>2
    <3> QED
      BY <3>1 DEF QueueSound
  <2>4. st.ready[k].index = j
    BY <2>3
  <2> QED
    BY <2>1, <2>2, <2>3, <2>4
<1> QED
  BY <1>1, <1>2 DEF QueueSound

\* The transports of the other rows stay.
LEMMA TransportsAt ==
  ASSUME NEW st \in Sets, NEW nt \in Sets, NEW i \in Indices, OnlyRow(st, nt, i)
  PROVE  /\ Live(nt, i) /\ nt.table[i].entry.transport =>
              Transports(nt.table) = {r \in Transports(st.table) : r.index # i} \cup {ResourceAt(nt, i)}
         /\ ~(Live(nt, i) /\ nt.table[i].entry.transport) =>
              Transports(nt.table) = {r \in Transports(st.table) : r.index # i}
<1>1. \A r : r \in Transports(nt.table) <=>
        \E j \in Indices : /\ nt.table[j].entry # NoEntry /\ nt.table[j].entry.transport
                           /\ r = [index |-> j, generation |-> nt.table[j].generation]
  BY DEF Transports
<1>2. \A r : r \in Transports(st.table) <=>
        \E j \in Indices : /\ st.table[j].entry # NoEntry /\ st.table[j].entry.transport
                           /\ r = [index |-> j, generation |-> st.table[j].generation]
  BY DEF Transports
<1>3. \A j \in Indices : j # i => nt.table[j] = st.table[j]
  BY DEF OnlyRow
<1>4. \A j, g : [index |-> j, generation |-> g].index = j
  OBVIOUS
<1>5. ASSUME NEW r, r.index # i
      PROVE  r \in Transports(nt.table) <=> r \in Transports(st.table)
  BY <1>1, <1>2, <1>3, <1>4, <1>5
<1>6. ASSUME NEW r \in Transports(nt.table), r.index = i
      PROVE  Live(nt, i) /\ nt.table[i].entry.transport /\ r = ResourceAt(nt, i)
  BY <1>1, <1>4, <1>6 DEF Live, ResourceAt
<1>7. Live(nt, i) /\ nt.table[i].entry.transport =>
        ResourceAt(nt, i) \in Transports(nt.table) /\ ResourceAt(nt, i).index = i
  BY <1>1, <1>4 DEF Live, ResourceAt
<1> QED
  BY <1>5, <1>6, <1>7

\* What is left to show of a method that changes one row.
LEMMA OneRow ==
  ASSUME NEW st, NEW nt \in Sets, SetSound(st), NEW i \in Indices, OnlyRow(st, nt, i),
         nt.owner = st.owner,
         Live(nt, i) => /\ EntrySound(nt.table[i].entry)
                        /\ Works(nt.table[i].entry.slot) =>
                             /\ st.owner = "Running"
                             /\ nt.table[i].entry.synced \/ nt.table[i].entry.queued,
         QueueSound(nt.table, nt.ready),
         st.owner = "Running" => nt.registered = Transports(nt.table),
         st.owner # "Running" => nt.control = <<>> /\ nt.regular = <<>>
  PROVE  SetSound(nt)
<1>1. \A j \in LiveIndices(nt) : j # i => j \in LiveIndices(st) /\ nt.table[j] = st.table[j]
  BY DEF LiveIndices, Live, OnlyRow
<1>2. /\ \A j \in LiveIndices(st) : EntrySound(st.table[j].entry)
      /\ st.owner # "Running" => \A j \in LiveIndices(st) : ~Works(st.table[j].entry.slot)
      /\ \A j \in LiveIndices(st) :
           Works(st.table[j].entry.slot) /\ ~st.table[j].entry.synced => st.table[j].entry.queued
  BY DEF SetSound, FenceSound
<1>3. i \in LiveIndices(nt) => Live(nt, i)
  BY DEF LiveIndices
<1>4. ASSUME NEW j \in LiveIndices(nt)
      PROVE  /\ EntrySound(nt.table[j].entry)
             /\ st.owner # "Running" => ~Works(nt.table[j].entry.slot)
             /\ Works(nt.table[j].entry.slot) /\ ~nt.table[j].entry.synced => nt.table[j].entry.queued
  BY <1>1, <1>2, <1>3
<1> QED
  BY <1>4 DEF SetSound, FenceSound
(***************************************************************************)
(* The connections a method leaves: the same ones, none gets a transport   *)
(* back, and the registrations still follow the transports.                *)
(***************************************************************************)
Carries(st, nt) ==
  /\ \A i \in Indices :
       /\ nt.table[i].generation = st.table[i].generation
       /\ Live(nt, i) <=> Live(st, i)
       /\ Live(st, i) =>
            /\ nt.table[i].entry.identity = st.table[i].entry.identity
            /\ nt.table[i].entry.transport => st.table[i].entry.transport
  /\ st.registered = Transports(st.table) => nt.registered = Transports(nt.table)
  /\ nt.owner = "Dropped" <=> st.owner = "Dropped"

LEMMA CarriesOn ==
  ASSUME NEW st, NEW mt, NEW nt, Carries(st, mt), Carries(mt, nt)
  PROVE  Carries(st, nt)
  BY DEF Carries

LEMMA CarriesSelf == \A st : Carries(st, st)
  BY DEF Carries

\* The connection a token stands for.
LEMMA OccupiedFields ==
  ASSUME NEW st, SetSound(st), NEW r \in Resources, Occupied(st, r)
  PROVE  /\ st \in Sets /\ r.index \in Indices /\ Live(st, r.index)
         /\ r = ResourceAt(st, r.index) /\ r.generation = st.table[r.index].generation
         /\ st.table[r.index].generation \in 1..MaxGeneration
         /\ EntryAt(st, r) = st.table[r.index].entry
         /\ EntrySound(EntryAt(st, r)) /\ EntryAt(st, r) \in Entries
         /\ QueueSound(st.table, st.ready)
         /\ Works(EntryAt(st, r).slot) =>
              /\ st.owner = "Running"
              /\ EntryAt(st, r).synced \/ EntryAt(st, r).queued
<1>1. st \in Sets /\ r.index \in Indices /\ Live(st, r.index) /\ QueueSound(st.table, st.ready)
  BY DEF SetSound, Resources, Occupied
<1>2. r.index \in LiveIndices(st) /\ r.generation = st.table[r.index].generation
  BY <1>1 DEF LiveIndices, Occupied
<1>3. r = ResourceAt(st, r.index)
  BY <1>2 DEF ResourceAt, Resources
<1> QED
  BY <1>1, <1>2, <1>3, SetFields DEF SetSound, FenceSound, EntryAt

LEMMA RowTransports ==
  ASSUME NEW st \in Sets, NEW nt \in Sets, NEW i \in Indices, OnlyRow(st, nt, i),
         Live(st, i), Live(nt, i), nt.table[i].generation = st.table[i].generation,
         st.registered = Transports(st.table),
         \/ /\ nt.table[i].entry.transport = st.table[i].entry.transport
            /\ nt.registered = st.registered
         \/ /\ ~nt.table[i].entry.transport
            /\ nt.registered = st.registered \ {ResourceAt(st, i)}
  PROVE  nt.registered = Transports(nt.table)
<1>1. ResourceAt(nt, i) = ResourceAt(st, i) /\ ResourceAt(st, i).index = i
  BY DEF ResourceAt
<1>2. ASSUME NEW r \in Transports(st.table), r.index = i
      PROVE  st.table[i].entry.transport /\ r = ResourceAt(st, i)
  BY <1>2 DEF Transports, ResourceAt
<1>3. st.table[i].entry.transport => ResourceAt(st, i) \in Transports(st.table)
  BY DEF Transports, ResourceAt, Live
<1>4. CASE nt.table[i].entry.transport
  <2>1. Transports(nt.table) = {r \in Transports(st.table) : r.index # i} \cup {ResourceAt(st, i)}
    BY <1>1, <1>4, TransportsAt
  <2> QED
    BY <1>1, <1>2, <1>3, <1>4, <2>1
<1>5. CASE ~nt.table[i].entry.transport
  <2>1. Transports(nt.table) = {r \in Transports(st.table) : r.index # i}
    BY <1>5, TransportsAt
  <2> QED
    BY <1>1, <1>2, <1>5, <2>1
<1> QED
  BY <1>4, <1>5

\* A method that changes the entry of one connection.
LEMMA EntryChanged ==
  ASSUME NEW st, NEW nt \in Sets, SetSound(st), NEW r \in Resources, Occupied(st, r),
         OnlyRow(st, nt, r.index), nt.owner = st.owner, NEW m,
         nt.table[r.index].generation = st.table[r.index].generation,
         nt.table[r.index].entry = m, EntryLeaves(EntryAt(st, r), m),
         Works(m.slot) => m.synced \/ m.queued,
         \/ m.transport = EntryAt(st, r).transport /\ nt.registered = st.registered
         \/ ~m.transport /\ nt.registered = st.registered \ {r},
         QueueSound(nt.table, nt.ready),
         st.owner # "Running" => nt.control = <<>> /\ nt.regular = <<>>
  PROVE  SetSound(nt) /\ Carries(st, nt)
<1> DEFINE i == r.index
           e == st.table[i].entry
<1>1. /\ st \in Sets /\ i \in Indices /\ Live(st, i) /\ r = ResourceAt(st, i)
      /\ EntryAt(st, r) = e /\ (Works(e.slot) => st.owner = "Running")
  BY OccupiedFields
<1>2. /\ EntrySound(m) /\ m.identity = e.identity /\ (m.transport => e.transport)
      /\ Works(m.slot) => Works(e.slot)
  BY <1>1 DEF EntryLeaves
<1>3. m # NoEntry
  BY <1>2, NoEntryIsNone DEF EntrySound
<1>4. Live(nt, i)
  BY <1>3 DEF Live
<1>5. st.registered = Transports(st.table) => nt.registered = Transports(nt.table)
  BY <1>1, <1>4, RowTransports
<1>6. st.owner = "Running" => st.registered = Transports(st.table)
  BY DEF SetSound, FenceSound
<1>7. SetSound(nt)
  BY <1>1, <1>2, <1>4, <1>5, <1>6, OneRow
<1>8. \A j \in Indices : j # i =>
        /\ nt.table[j].generation = st.table[j].generation
        /\ Live(nt, j) <=> Live(st, j)
        /\ nt.table[j].entry = st.table[j].entry
  BY DEF OnlyRow, Live
<1>9. Carries(st, nt)
  BY <1>1, <1>2, <1>4, <1>5, <1>8 DEF Carries
<1> QED
  BY <1>7, <1>9

\* A method that leaves the connections, their queue and the selector alone.
LEMMA RestChanged ==
  ASSUME NEW st, NEW nt \in Sets, SetSound(st), nt.table = st.table, nt.ready = st.ready,
         nt.owner = st.owner, nt.registered = st.registered,
         st.owner # "Running" => nt.control = <<>> /\ nt.regular = <<>>
  PROVE  SetSound(nt) /\ Carries(st, nt)
  BY DEF SetSound, FenceSound, LiveIndices, Live, Carries

LEMMA PutSound ==
  ASSUME NEW st, SetSound(st), NEW r \in Resources, Occupied(st, r), NEW m,
         EntryLeaves(EntryAt(st, r), m), m.transport = EntryAt(st, r).transport,
         m.queued = EntryAt(st, r).queued, Works(m.slot) => m.synced \/ m.queued
  PROVE  SetSound(Put(st, r, m)) /\ Carries(st, Put(st, r, m))
<1> DEFINE nt == Put(st, r, m)
<1>1. /\ st \in Sets /\ r.index \in Indices /\ Live(st, r.index)
      /\ st.table[r.index].generation \in 1..MaxGeneration
      /\ EntryAt(st, r) = st.table[r.index].entry /\ QueueSound(st.table, st.ready)
  BY OccupiedFields
<1>2. m \in Entries /\ m # NoEntry
  BY NoEntryIsNone DEF EntryLeaves, EntrySound
<1>3. /\ nt \in Sets /\ Untouched(st, nt) /\ OnlyRow(st, nt, r.index)
      /\ nt.table[r.index].generation = st.table[r.index].generation
      /\ nt.table[r.index].entry = m
      /\ nt.ready = st.ready /\ nt.owner = st.owner /\ nt.registered = st.registered
  BY <1>1, <1>2, PutFields
<1> HIDE DEF nt
<1>4. QueueSound(nt.table, nt.ready)
  BY <1>1, <1>2, <1>3, QueueKept DEF Live
<1>5. st.owner # "Running" => nt.control = <<>> /\ nt.regular = <<>>
  BY <1>3 DEF SetSound, FenceSound, Untouched
<1>6. SetSound(nt) /\ Carries(st, nt)
  BY <1>3, <1>4, <1>5, EntryChanged
<1> QED
  BY <1>6 DEF nt
\* The queue is the same or longer: every connection keeps its position.
Extends(queue, longer) ==
  \A k \in DOMAIN queue : k \in DOMAIN longer /\ longer[k] = queue[k]

\* The connection at r changed to mt and was then enqueued.
LEMMA EnqueueAfter ==
  ASSUME NEW st, SetSound(st), NEW r \in Resources, Occupied(st, r),
         NEW mt \in Sets, Untouched(st, mt), OnlyRow(st, mt, r.index),
         mt.table[r.index].generation = st.table[r.index].generation,
         mt.ready = st.ready, mt.owner = st.owner, mt.registered = st.registered,
         NEW m, mt.table[r.index].entry = m, EntryLeaves(EntryAt(st, r), m),
         m.transport = EntryAt(st, r).transport, m.queued = EntryAt(st, r).queued
  PROVE  LET nt == Enqueue(mt, r)
         IN  /\ SetSound(nt) /\ Carries(st, nt) /\ Untouched(st, nt) /\ nt.owner = st.owner
             /\ OnlyRow(st, nt, r.index) /\ Occupied(nt, r) /\ EntryAt(nt, r).queued
             /\ Extends(st.ready, nt.ready)
<1> DEFINE nt == Enqueue(mt, r)
           i == r.index
<1>1. /\ st \in Sets /\ i \in Indices /\ Live(st, i) /\ r = ResourceAt(st, i)
      /\ r.generation = st.table[i].generation
      /\ EntryAt(st, r) = st.table[i].entry /\ QueueSound(st.table, st.ready)
  BY OccupiedFields
<1>2. m \in Entries /\ m # NoEntry /\ m.queued \in BOOLEAN
  BY NoEntryIsNone, EntryFields DEF EntryLeaves, EntrySound
<1>3. Live(mt, i) /\ Occupied(mt, r) /\ EntryAt(mt, r) = m
  BY <1>1, <1>2 DEF Live, Occupied, EntryAt
<1>4. st.owner # "Running" => st.control = <<>> /\ st.regular = <<>>
  BY DEF SetSound, FenceSound
<1>5. CASE m.queued
  <2>1. nt = mt
    BY <1>3, <1>5 DEF Enqueue
  <2>2. QueueSound(mt.table, mt.ready)
    BY <1>1, <1>3, QueueKept
  <2>3. SetSound(mt) /\ Carries(st, mt)
    BY <1>4, <1>5, <2>2, EntryChanged DEF Untouched
  <2> QED
    BY <1>3, <1>5, <2>1, <2>3 DEF Extends
<1>6. CASE ~m.queued
  <2> DEFINE q == [m EXCEPT !.queued = TRUE]
  <2>1. /\ nt \in Sets /\ Untouched(mt, nt) /\ OnlyRow(mt, nt, i)
        /\ nt.table[i].generation = mt.table[i].generation
        /\ nt.table[i].entry = q
        /\ nt.ready = Append(mt.ready, r) /\ nt.owner = mt.owner
        /\ nt.registered = mt.registered
    BY <1>3, <1>6, EnqueueFields
  <2>2. /\ q \in Entries /\ q.queued = TRUE /\ q.slot = m.slot /\ q.transport = m.transport
        /\ q.identity = m.identity /\ q.runnable = m.runnable /\ q.synced = m.synced
    BY <1>2 DEF Entries
  <2> HIDE DEF q, nt
  <2>3. EntryLeaves(EntryAt(st, r), q)
    BY <2>2 DEF EntryLeaves, EntrySound
  <2>4. q # NoEntry
    BY <2>2, NoEntryIsNone
  <2>5. /\ Live(nt, i) /\ ResourceAt(nt, i) = r /\ Untouched(st, nt) /\ OnlyRow(st, nt, i)
        /\ Occupied(nt, r) /\ EntryAt(nt, r) = q
    BY <1>1, <2>1, <2>4 DEF Live, ResourceAt, Untouched, OnlyRow, Occupied, EntryAt
  <2>6. nt.ready = Append(st.ready, ResourceAt(nt, i)) /\ ResourceAt(nt, i) \in Resources
    BY <2>1, <2>5
  <2>7. ~(Live(st, i) /\ st.table[i].entry.queued) /\ nt.table[i].entry.queued
    BY <1>1, <1>6, <2>1, <2>2
  <2>8. QueueSound(nt.table, nt.ready) /\ Extends(st.ready, nt.ready)
    BY <1>1, <2>1, <2>5, <2>6, <2>7, QueueJoined DEF Extends
  <2>9. SetSound(nt) /\ Carries(st, nt)
    <3>1. st.owner # "Running" => nt.control = <<>> /\ nt.regular = <<>>
      BY <1>4, <2>5 DEF Untouched
    <3>2. /\ nt.owner = st.owner /\ nt.table[i].generation = st.table[i].generation
          /\ nt.table[i].entry = q /\ (Works(q.slot) => q.synced \/ q.queued)
          /\ q.transport = EntryAt(st, r).transport /\ nt.registered = st.registered
      BY <1>1, <2>1, <2>2
    <3> QED
      BY <1>1, <2>1, <2>3, <2>5, <2>8, <3>1, <3>2, EntryChanged
  <2> QED
    BY <2>1, <2>2, <2>5, <2>8, <2>9 DEF nt
<1> QED
  BY <1>2, <1>5, <1>6

LEMMA EnqueuePut ==
  ASSUME NEW st, SetSound(st), NEW r \in Resources, Occupied(st, r), NEW m,
         EntryLeaves(EntryAt(st, r), m), m.transport = EntryAt(st, r).transport,
         m.queued = EntryAt(st, r).queued
  PROVE  LET nt == Enqueue(Put(st, r, m), r)
         IN  /\ SetSound(nt) /\ Carries(st, nt) /\ Untouched(st, nt) /\ nt.owner = st.owner
             /\ OnlyRow(st, nt, r.index) /\ Occupied(nt, r) /\ EntryAt(nt, r).queued
             /\ Extends(st.ready, nt.ready)
<1> DEFINE mt == Put(st, r, m)
<1>1. /\ st \in Sets /\ r.index \in Indices /\ st.table[r.index].generation \in 1..MaxGeneration
  BY OccupiedFields
<1>2. m \in Entries
  BY DEF EntryLeaves, EntrySound
<1>3. /\ mt \in Sets /\ Untouched(st, mt) /\ OnlyRow(st, mt, r.index)
      /\ mt.table[r.index].generation = st.table[r.index].generation
      /\ mt.table[r.index].entry = m
      /\ mt.ready = st.ready /\ mt.owner = st.owner /\ mt.registered = st.registered
  BY <1>1, <1>2, PutFields
<1> HIDE DEF mt
<1>4. LET nt == Enqueue(mt, r)
      IN  /\ SetSound(nt) /\ Carries(st, nt) /\ Untouched(st, nt) /\ nt.owner = st.owner
          /\ OnlyRow(st, nt, r.index) /\ Occupied(nt, r) /\ EntryAt(nt, r).queued
          /\ Extends(st.ready, nt.ready)
  BY <1>3, EnqueueAfter
<1> QED
  BY <1>4 DEF mt

LEMMA EnqueueSound ==
  ASSUME NEW st, SetSound(st), NEW r \in Resources
  PROVE  LET nt == Enqueue(st, r)
         IN  /\ SetSound(nt) /\ Carries(st, nt) /\ Untouched(st, nt) /\ nt.owner = st.owner
             /\ OnlyRow(st, nt, r.index) /\ Extends(st.ready, nt.ready)
             /\ Occupied(st, r) => EntryAt(nt, r).queued
<1>1. CASE ~Occupied(st, r)
  <2>1. Enqueue(st, r) = st
    BY <1>1 DEF Enqueue
  <2> QED
    BY <1>1, <2>1, CarriesSelf DEF Untouched, OnlyRow, Extends
<1>2. CASE Occupied(st, r)
  <2>1. /\ st \in Sets /\ EntrySound(EntryAt(st, r)) /\ EntryAt(st, r) = st.table[r.index].entry
    BY <1>2, OccupiedFields
  <2>2. /\ Untouched(st, st) /\ OnlyRow(st, st, r.index)
        /\ EntryLeaves(EntryAt(st, r), EntryAt(st, r))
    BY <2>1 DEF Untouched, OnlyRow, EntryLeaves
  <2>3. LET nt == Enqueue(st, r)
        IN  /\ SetSound(nt) /\ Carries(st, nt) /\ Untouched(st, nt) /\ nt.owner = st.owner
            /\ OnlyRow(st, nt, r.index) /\ Occupied(nt, r) /\ EntryAt(nt, r).queued
            /\ Extends(st.ready, nt.ready)
    BY <1>2, <2>1, <2>2, EnqueueAfter
  <2> QED
    BY <2>3
<1> QED
  BY <1>1, <1>2

\* A failed selector: nothing works, nothing is queued and nothing waits.
LEMMA LatchFails ==
  ASSUME NEW st \in Sets, st.owner = "Running",
         \A i \in LiveIndices(st) : EntrySound(st.table[i].entry)
  PROVE  LET nt == LatchSelectorFailure(st)
         IN  /\ SetSound(nt) /\ nt.owner = "Failed" /\ nt.ready = <<>>
             /\ st.registered = Transports(st.table) => Carries(st, nt)
             /\ \A i \in Indices : /\ Live(nt, i) <=> Live(st, i)
                                   /\ nt.table[i].generation = st.table[i].generation
<1> DEFINE nt == LatchSelectorFailure(st)
<1>1. /\ nt \in Sets /\ nt.owner = "Failed" /\ nt.registered = st.registered
      /\ nt.control = <<>> /\ nt.regular = <<>> /\ nt.ready = <<>>
      /\ \A i \in Indices :
           /\ nt.table[i].generation = st.table[i].generation
           /\ Live(nt, i) <=> Live(st, i)
           /\ Live(st, i) =>
                LET e == st.table[i].entry
                    m == nt.table[i].entry
                IN  /\ m.slot = Latched(e.slot) /\ ~m.queued
                    /\ EntryLeaves(e, m) /\ m.transport = e.transport
  BY LatchFields
<1> HIDE DEF nt
<1>2. \A i \in LiveIndices(nt) :
        /\ EntrySound(nt.table[i].entry) /\ ~nt.table[i].entry.queued
        /\ ~Works(nt.table[i].entry.slot)
  <2>1. \A i \in LiveIndices(st) : ~Works(Latched(st.table[i].entry.slot))
    BY EntryFields, LatchedLeaves DEF EntrySound
  <2> QED
    BY <1>1, <2>1 DEF LiveIndices, EntryLeaves
<1>3. DOMAIN nt.ready = {}
  BY <1>1
<1>4. QueueSound(nt.table, nt.ready)
  BY <1>2, <1>3 DEF QueueSound, NoRepeats, LiveIndices, Live
<1>5. SetSound(nt)
  BY <1>1, <1>2, <1>4 DEF SetSound, FenceSound
<1>6. Transports(nt.table) = Transports(st.table)
  BY <1>1 DEF Transports, Live
<1>7. st.registered = Transports(st.table) => Carries(st, nt)
  BY <1>1, <1>6 DEF Carries, EntryLeaves
<1> QED
  BY <1>1, <1>5, <1>7 DEF nt

LEMMA LatchSound ==
  ASSUME NEW st, SetSound(st)
  PROVE  LET nt == LatchSelectorFailure(st)
         IN  /\ SetSound(nt) /\ Carries(st, nt)
             /\ nt.owner # "Running"
             /\ nt.ready = <<>> \/ nt = st
<1> DEFINE nt == LatchSelectorFailure(st)
<1>1. CASE st.owner # "Running"
  <2>1. nt = st
    BY <1>1 DEF LatchSelectorFailure
  <2> QED
    BY <1>1, <2>1, CarriesSelf
<1>2. CASE st.owner = "Running"
  <2>1. /\ st \in Sets /\ \A i \in LiveIndices(st) : EntrySound(st.table[i].entry)
        /\ st.registered = Transports(st.table)
    BY <1>2 DEF SetSound, FenceSound
  <2> QED
    BY <1>2, <2>1, LatchFails
<1> QED
  BY <1>1, <1>2

\* No connection moves back.
Order(queue, after) ==
  \A k \in DOMAIN queue : \A j \in DOMAIN after : after[j] = queue[k] => j <= k

LEMMA UnqueueFields ==
  ASSUME NEW st \in Sets, NEW r, NoRepeats(st.ready)
  PROVE  /\ Unqueue(st, r) \in Sets /\ Untouched(st, Unqueue(st, r))
         /\ Unqueue(st, r).table = st.table /\ Unqueue(st, r).owner = st.owner
         /\ Unqueue(st, r).registered = st.registered
         /\ Unqueue(st, r).ready = Retained(st.ready, r)
<1> DEFINE kept == Retained(st.ready, r)
<1>1. kept \in Seq(Resources)
  BY SetFields, RetainedKeeps
<1>2. Unqueue(st, r) = [st EXCEPT !.ready = kept]
  BY DEF Unqueue
<1> HIDE DEF kept
<1>3. /\ Unqueue(st, r) \in Sets /\ Untouched(st, Unqueue(st, r))
      /\ Unqueue(st, r).table = st.table /\ Unqueue(st, r).owner = st.owner
      /\ Unqueue(st, r).registered = st.registered
      /\ Unqueue(st, r).ready = kept
  BY <1>1, <1>2 DEF Sets, Untouched
<1> QED
  BY <1>3 DEF kept

\* The connection of a row that is not marked any more was taken out of the queue.
LEMMA QueueWithout ==
  ASSUME NEW st, SetSound(st), NEW r \in Resources, Occupied(st, r),
         NEW nt \in Sets, OnlyRow(st, nt, r.index),
         ~(Live(nt, r.index) /\ nt.table[r.index].entry.queued),
         nt.ready = Retained(st.ready, r)
  PROVE  QueueSound(nt.table, nt.ready) /\ Order(st.ready, nt.ready)
<1> DEFINE i == r.index
<1>1. /\ st \in Sets /\ i \in Indices /\ r = ResourceAt(st, i) /\ QueueSound(st.table, st.ready)
      /\ st.ready \in Seq(Resources)
  BY OccupiedFields, SetFields
<1>2. \A k \in DOMAIN st.ready :
        /\ st.ready[k] = ResourceAt(st, st.ready[k].index)
        /\ st.ready[k] = r <=> st.ready[k].index = i
  BY <1>1, QueueMembers
<1>3. NoRepeats(st.ready)
  BY <1>1 DEF QueueSound
<1>4. KeepsUpTo(st.ready, r, Len(st.ready), nt.ready) /\ DOMAIN st.ready = 1..Len(st.ready)
      /\ Len(st.ready) \in Nat
  BY <1>1, <1>3, RetainedKeeps
<1>5. nt.ready \in Seq(Resources) /\ DOMAIN nt.ready = 1..Len(nt.ready) /\ Len(nt.ready) \in Nat
  BY SetFields
<1>6. /\ NoRepeats(nt.ready)
      /\ \A j \in DOMAIN nt.ready :
           \E k \in DOMAIN st.ready : nt.ready[j] = st.ready[k] /\ st.ready[k].index # i
      /\ \A k \in DOMAIN st.ready : st.ready[k].index # i =>
           \E j \in DOMAIN nt.ready : nt.ready[j] = st.ready[k]
  BY <1>2, <1>4 DEF KeepsUpTo
<1>7. QueueSound(nt.table, nt.ready)
  BY <1>1, <1>6, QueueLeft
<1>8. Order(st.ready, nt.ready)
  <2>1. SUFFICES ASSUME NEW k \in DOMAIN st.ready, NEW j \in DOMAIN nt.ready,
                        nt.ready[j] = st.ready[k]
                 PROVE  j <= k
    BY DEF Order
  <2>2. PICK l \in DOMAIN st.ready : j <= l /\ nt.ready[j] = st.ready[l]
    BY <1>4 DEF KeepsUpTo
  <2> QED
    BY <1>3, <2>1, <2>2 DEF NoRepeats
<1> QED
  BY <1>7, <1>8

LEMMA SettledFields ==
  ASSUME NEW st \in Sets, NEW r, r.index \in Indices, NEW result, result.entry \in Entries,
         st.table[r.index].generation \in 1..MaxGeneration
  PROVE  LET nt == WithSettled(st, r, result)
         IN  /\ nt \in Sets /\ Untouched(st, nt) /\ OnlyRow(st, nt, r.index)
             /\ nt.table[r.index].generation = st.table[r.index].generation
             /\ nt.table[r.index].entry = result.entry
             /\ nt.ready = st.ready /\ nt.owner = st.owner
             /\ result.entry.transport => nt.registered = st.registered
             /\ ~result.entry.transport => nt.registered = st.registered \ {r}
<1> DEFINE mt == Put(st, r, result.entry)
           left == IF result.entry.transport THEN mt.registered ELSE mt.registered \ {r}
<1>1. /\ mt \in Sets /\ Untouched(st, mt) /\ OnlyRow(st, mt, r.index)
      /\ mt.table[r.index].generation = st.table[r.index].generation
      /\ mt.table[r.index].entry = result.entry
      /\ mt.ready = st.ready /\ mt.owner = st.owner /\ mt.registered = st.registered
  BY PutFields
<1>2. WithSettled(st, r, result) = [mt EXCEPT !.registered = left]
  BY <1>1 DEF WithSettled, Sets
<1> HIDE DEF mt
<1>3. /\ left \subseteq Resources /\ (result.entry.transport => left = st.registered)
      /\ ~result.entry.transport => left = st.registered \ {r}
  BY <1>1, SetFields
<1> HIDE DEF left
<1> DEFINE nt == [mt EXCEPT !.registered = left]
<1>4. /\ nt \in Sets /\ nt.registered = left /\ nt.table = mt.table /\ nt.ready = mt.ready
      /\ nt.owner = mt.owner /\ Untouched(mt, nt)
  BY <1>1, <1>3 DEF Sets, Untouched
<1> HIDE DEF nt
<1>5. Untouched(st, nt) /\ OnlyRow(st, nt, r.index)
  BY <1>1, <1>4 DEF Untouched, OnlyRow
<1>6. WithSettled(st, r, result) = nt
  BY <1>2 DEF nt
<1> QED
  BY <1>1, <1>3, <1>4, <1>5, <1>6

LEMMA SettledSound ==
  ASSUME NEW st, SetSound(st), NEW r \in Resources, Occupied(st, r), NEW result,
         EntryLeaves(EntryAt(st, r), result.entry),
         result.entry.queued = EntryAt(st, r).queued,
         result.entry.synced = EntryAt(st, r).synced \/ result.entry.synced
  PROVE  LET nt == WithSettled(st, r, result)
         IN  /\ SetSound(nt) /\ Carries(st, nt) /\ Untouched(st, nt) /\ nt.owner = st.owner
             /\ OnlyRow(st, nt, r.index) /\ nt.ready = st.ready
             /\ Occupied(nt, r) /\ EntryAt(nt, r) = result.entry
<1> DEFINE nt == WithSettled(st, r, result)
           m == result.entry
           e == EntryAt(st, r)
<1>1. /\ st \in Sets /\ r.index \in Indices /\ Live(st, r.index)
      /\ st.table[r.index].generation \in 1..MaxGeneration
      /\ r.generation = st.table[r.index].generation
      /\ e = st.table[r.index].entry /\ QueueSound(st.table, st.ready)
      /\ Works(e.slot) => e.synced \/ e.queued
  BY OccupiedFields
<1>2. m \in Entries /\ m # NoEntry /\ (m.transport => e.transport) /\ (Works(m.slot) => Works(e.slot))
      /\ m.transport \in BOOLEAN
  BY NoEntryIsNone, EntryFields DEF EntryLeaves, EntrySound
<1>3. /\ nt \in Sets /\ Untouched(st, nt) /\ OnlyRow(st, nt, r.index)
      /\ nt.table[r.index].generation = st.table[r.index].generation
      /\ nt.table[r.index].entry = m
      /\ nt.ready = st.ready /\ nt.owner = st.owner
      /\ m.transport => nt.registered = st.registered
      /\ ~m.transport => nt.registered = st.registered \ {r}
  <2>1. /\ st \in Sets /\ r.index \in Indices /\ result.entry \in Entries
        /\ st.table[r.index].generation \in 1..MaxGeneration
    BY <1>1, <1>2
  <2> QED
    BY <2>1, SettledFields
<1> HIDE DEF nt
<1>4. QueueSound(nt.table, nt.ready) /\ Live(nt, r.index)
  BY <1>1, <1>2, <1>3, QueueKept DEF Live
<1>5. st.owner # "Running" => nt.control = <<>> /\ nt.regular = <<>>
  BY <1>3 DEF SetSound, FenceSound, Untouched
<1>6. \/ m.transport = e.transport /\ nt.registered = st.registered
      \/ ~m.transport /\ nt.registered = st.registered \ {r}
  <2>1. e.transport \in BOOLEAN
    BY OccupiedFields, EntryFields
  <2> QED
    BY <1>2, <1>3, <2>1
<1>7. Works(m.slot) => m.synced \/ m.queued
  BY <1>1, <1>2
<1>8. EntryLeaves(EntryAt(st, r), m)
  OBVIOUS
<1> HIDE DEF m, e
<1>9. SetSound(nt) /\ Carries(st, nt)
  BY <1>3, <1>4, <1>5, <1>6, <1>7, <1>8, EntryChanged DEF e
<1>10. Occupied(nt, r) /\ EntryAt(nt, r) = m
  BY <1>1, <1>3, <1>4 DEF Occupied, EntryAt
<1> QED
  BY <1>3, <1>9, <1>10 DEF nt, m
\* A connection that is settled leaves the queue.
LEMMA UnqueuePut ==
  ASSUME NEW st, SetSound(st), NEW r \in Resources, Occupied(st, r), NEW m,
         m = [EntryAt(st, r) EXCEPT !.queued = FALSE], m.synced
  PROVE  LET nt == Put(Unqueue(st, r), r, m)
         IN  SetSound(nt) /\ Carries(st, nt) /\ Order(st.ready, nt.ready)
<1> DEFINE mt == Unqueue(st, r)
           nt == Put(mt, r, m)
           e == EntryAt(st, r)
<1>1. /\ st \in Sets /\ r.index \in Indices /\ Live(st, r.index)
      /\ st.table[r.index].generation \in 1..MaxGeneration
      /\ e \in Entries /\ EntrySound(e) /\ QueueSound(st.table, st.ready)
  BY OccupiedFields
<1>2. /\ m \in Entries /\ m.queued = FALSE /\ m.slot = e.slot /\ m.transport = e.transport
      /\ m.identity = e.identity /\ m.runnable = e.runnable /\ m.synced = e.synced
  BY <1>1 DEF Entries
<1> HIDE DEF e
<1>3. EntryLeaves(EntryAt(st, r), m)
  BY <1>1, <1>2 DEF EntryLeaves, EntrySound, e
<1>4. /\ mt \in Sets /\ Untouched(st, mt) /\ mt.table = st.table /\ mt.owner = st.owner
      /\ mt.registered = st.registered /\ mt.ready = Retained(st.ready, r)
  BY <1>1, UnqueueFields DEF QueueSound
<1> HIDE DEF mt
<1>5. /\ nt \in Sets /\ Untouched(mt, nt) /\ OnlyRow(mt, nt, r.index)
      /\ nt.table[r.index].generation = mt.table[r.index].generation
      /\ nt.table[r.index].entry = m
      /\ nt.ready = mt.ready /\ nt.owner = mt.owner /\ nt.registered = mt.registered
  BY <1>1, <1>2, <1>4, PutFields
<1> HIDE DEF nt
<1>6. OnlyRow(st, nt, r.index) /\ ~(Live(nt, r.index) /\ nt.table[r.index].entry.queued)
  BY <1>2, <1>4, <1>5 DEF OnlyRow
<1>7. QueueSound(nt.table, nt.ready) /\ Order(st.ready, nt.ready)
  BY <1>4, <1>5, <1>6, QueueWithout
<1>8. st.owner # "Running" => nt.control = <<>> /\ nt.regular = <<>>
  BY <1>4, <1>5 DEF SetSound, FenceSound, Untouched
<1>9. SetSound(nt) /\ Carries(st, nt)
  BY <1>2, <1>3, <1>4, <1>5, <1>6, <1>7, <1>8, EntryChanged DEF e
<1> QED
  BY <1>7, <1>9 DEF nt, mt

LEMMA SettleSound ==
  ASSUME NEW st, SetSound(st), NEW r \in Resources, Occupied(st, r),
         NEW nt \in SettleConnection(st, r)
  PROVE  SetSound(nt) /\ Carries(st, nt) /\ Order(st.ready, nt.ready)
<1> DEFINE e == EntryAt(st, r)
<1>1. PICK result \in SettleEntry(e) :
        nt = LET after == WithSettled(st, r, result)
             IN  IF result.error = "Mio" THEN LatchSelectorFailure(after)
                 ELSE IF ~result.settled THEN after
                 ELSE Put(Unqueue(after, r), r, [result.entry EXCEPT !.queued = FALSE])
  BY DEF SettleConnection
<1> DEFINE after == WithSettled(st, r, result)
<1>2. EntrySound(e) /\ st.ready \in Seq(Resources) /\ NoRepeats(st.ready)
  BY OccupiedFields, SetFields DEF QueueSound
<1>3. /\ EntryLeaves(e, result.entry) /\ result.entry.queued = e.queued
      /\ result.settled \in BOOLEAN
      /\ result.settled => ~result.entry.transport
      /\ result.entry.synced = e.synced \/ result.entry.synced
  BY <1>2, SettleLeaves
<1>4. /\ SetSound(after) /\ Carries(st, after)
      /\ after.ready = st.ready
      /\ Occupied(after, r) /\ EntryAt(after, r) = result.entry
  BY <1>3, SettledSound
<1>5. Order(st.ready, st.ready)
  <2>1. DOMAIN st.ready \subseteq Nat
    BY <1>2
  <2> QED
    BY <1>2, <2>1 DEF Order, NoRepeats
<1> HIDE DEF after
<1>6. CASE result.error = "Mio"
  <2>1. nt = LatchSelectorFailure(after)
    BY <1>1, <1>6 DEF after
  <2>2. SetSound(nt) /\ Carries(after, nt) /\ (nt.ready = <<>> \/ nt = after)
    BY <1>4, <2>1, LatchSound
  <2>3. Order(st.ready, nt.ready)
    <3>1. CASE nt = after
      BY <1>4, <1>5, <3>1
    <3>2. CASE nt.ready = <<>>
      BY <3>2 DEF Order
    <3> QED
      BY <2>2, <3>1, <3>2
  <2> QED
    BY <1>4, <2>2, <2>3, CarriesOn
<1>7. CASE result.error # "Mio" /\ ~result.settled
  <2>1. nt = after
    BY <1>1, <1>7 DEF after
  <2> QED
    BY <1>4, <1>5, <2>1
<1>8. CASE result.error # "Mio" /\ result.settled
  <2> DEFINE m == [result.entry EXCEPT !.queued = FALSE]
  <2>1. nt = Put(Unqueue(after, r), r, m)
    BY <1>1, <1>8 DEF after
  <2>2. m = [EntryAt(after, r) EXCEPT !.queued = FALSE] /\ m.synced
    BY <1>3, <1>4, <1>8 DEF EntryLeaves, EntrySound, Entries
  <2> HIDE DEF m
  <2>3. SetSound(nt) /\ Carries(after, nt) /\ Order(after.ready, nt.ready)
    BY <1>4, <2>1, <2>2, UnqueuePut
  <2> QED
    BY <1>4, <2>3, CarriesOn
<1> QED
  BY <1>3, <1>6, <1>7, <1>8

\* A connection that is given up leaves the table and the queue.
LEMMA EvictAfter ==
  ASSUME NEW st, SetSound(st), NEW r \in Resources, Occupied(st, r),
         NEW mt \in Sets, mt.table = st.table, mt.ready = st.ready, mt.owner = st.owner,
         mt.control = st.control, mt.regular = st.regular,
         st.owner = "Running" => mt.registered = st.registered \ {r}
  PROVE  LET nt == Evict(Unqueue(mt, r), r)
         IN  SetSound(nt) /\ Order(st.ready, nt.ready) /\ OnlyRow(st, nt, r.index)
             /\ ~Live(nt, r.index) /\ Untouched(mt, nt) /\ nt.owner = st.owner
<1> DEFINE ut == Unqueue(mt, r)
           nt == Evict(ut, r)
           i == r.index
<1>1. /\ st \in Sets /\ i \in Indices /\ Live(st, i) /\ r = ResourceAt(st, i)
      /\ QueueSound(st.table, st.ready)
  BY OccupiedFields
<1>2. /\ ut \in Sets /\ Untouched(mt, ut) /\ ut.table = mt.table /\ ut.owner = mt.owner
      /\ ut.registered = mt.registered /\ ut.ready = Retained(mt.ready, r)
  BY <1>1, UnqueueFields DEF QueueSound
<1> HIDE DEF ut
<1>3. /\ nt \in Sets /\ Untouched(ut, nt)
      /\ OnlyRow(ut, nt, r.index) /\ ~Live(nt, r.index)
      /\ nt.ready = ut.ready /\ nt.owner = ut.owner
      /\ nt.registered = ut.registered
  BY <1>2, EvictFields
<1> HIDE DEF nt
<1>4. OnlyRow(st, nt, i) /\ Untouched(mt, nt)
  BY <1>2, <1>3 DEF OnlyRow, Untouched
<1>5. QueueSound(nt.table, nt.ready) /\ Order(st.ready, nt.ready)
  BY <1>2, <1>3, <1>4, QueueWithout
<1>6. st.owner = "Running" => nt.registered = Transports(nt.table)
  <2>1. SUFFICES ASSUME st.owner = "Running" PROVE nt.registered = Transports(nt.table)
    OBVIOUS
  <2>2. st.registered = Transports(st.table) /\ nt.registered = st.registered \ {r}
    BY <1>2, <1>3, <2>1 DEF SetSound, FenceSound
  <2>3. Transports(nt.table) = {x \in Transports(st.table) : x.index # i}
    BY <1>1, <1>3, <1>4, TransportsAt
  <2>4. \A x \in Transports(st.table) : x.index = i <=> x = r
    BY <1>1 DEF Transports, ResourceAt
  <2> HIDE DEF i
  <2> QED
    BY <2>2, <2>3, <2>4
<1>7. st.owner # "Running" => nt.control = <<>> /\ nt.regular = <<>>
  BY <1>2, <1>3 DEF SetSound, FenceSound, Untouched
<1>8. SetSound(nt)
  BY <1>1, <1>2, <1>3, <1>4, <1>5, <1>6, <1>7, OneRow
<1> QED
  BY <1>2, <1>3, <1>4, <1>5, <1>8 DEF nt, ut
(***************************************************************************)
(* The candidates of a turn.                                               *)
(***************************************************************************)
LEMMA CandidateSound ==
  ASSUME NEW st, SetSound(st), NEW i \in Indices
  PROVE  LET nt == EnqueueCandidate(st, i)
         IN  /\ SetSound(nt) /\ Carries(st, nt) /\ Untouched(st, nt) /\ nt.owner = st.owner
             /\ OnlyRow(st, nt, i) /\ Extends(st.ready, nt.ready)
             /\ Live(nt, i) /\ Candidate(nt.table[i].entry) => nt.table[i].entry.queued
<1> DEFINE nt == EnqueueCandidate(st, i)
           r == ResourceAt(st, i)
<1>1. CASE Live(st, i) /\ Candidate(st.table[i].entry)
  <2>1. nt = Enqueue(st, r)
    BY <1>1 DEF EnqueueCandidate
  <2>2. r \in Resources
    BY <1>1, SetFields DEF SetSound
  <2>3. r.index = i /\ Occupied(st, r)
    BY <1>1 DEF ResourceAt, Occupied
  <2> HIDE DEF r
  <2>4. /\ SetSound(nt) /\ Carries(st, nt) /\ Untouched(st, nt) /\ nt.owner = st.owner
        /\ OnlyRow(st, nt, r.index) /\ Extends(st.ready, nt.ready)
        /\ EntryAt(nt, r).queued
    BY <2>1, <2>2, <2>3, EnqueueSound
  <2> QED
    BY <2>3, <2>4 DEF EntryAt
<1>2. CASE ~(Live(st, i) /\ Candidate(st.table[i].entry))
  <2>1. nt = st
    BY <1>2 DEF EnqueueCandidate
  <2> QED
    BY <1>2, <2>1, CarriesSelf DEF Untouched, OnlyRow, Extends
<1> QED
  BY <1>1, <1>2

LEMMA CandidatesIterate ==
  ASSUME NEW st, SetSound(st)
  PROVE  \E after \in [0..Cardinality(Indices) -> {x \in Sets : SetSound(x)}] :
           /\ after[0] = st
           /\ \A i \in 1..Cardinality(Indices) : after[i] = EnqueueCandidate(after[i - 1], i)
           /\ after[Cardinality(Indices)] = WithCandidates(st)
<1> DEFINE n == Cardinality(Indices)
           S == {x \in Sets : SetSound(x)}
           step == [i \in 1..n |-> [x \in S |-> EnqueueCandidate(x, i)]]
<1>1. \A i \in 1..n : \A x \in S : EnqueueCandidate(x, i) \in S
  BY SetAssumption, CandidateSound DEF SetSound
<1>2. WithCandidates(st)
        = (CHOOSE g : g = [i \in 0..n |-> IF i = 0 THEN st ELSE EnqueueCandidate(g[i - 1], i)])[n]
  BY DEF WithCandidates
<1>3. n \in Nat /\ st \in S
  BY SetAssumption, FS_CardinalityType DEF SetSound
<1> HIDE DEF n, S
<1>4. step \in Steps(S, n)
  BY <1>1 DEF Steps
<1>5. PICK f : IsIteration(f, S, n, st, step)
  <2> HIDE DEF step
  <2> QED BY <1>3, <1>4, IterationExists
<1>6. f \in [0..n -> S] /\ f[0] = st /\ \A i \in 1..n : f[i] = EnqueueCandidate(f[i - 1], i)
  <2>1. /\ f \in [0..n -> S] /\ f[0] = st /\ \A i \in 1..n : f[i] = step[i][f[i - 1]]
    <3> HIDE DEF step
    <3> QED BY <1>5 DEF IsIteration
  <2>2. \A i \in 1..n : f[i - 1] \in S
    BY <1>3, <2>1
  <2> QED
    BY <2>1, <2>2
<1> DEFINE Fixed(g) == g = [i \in 0..n |-> IF i = 0 THEN st ELSE EnqueueCandidate(g[i - 1], i)]
           after == CHOOSE g : Fixed(g)
<1>7. Fixed(f)
  BY <1>3, <1>6
<1>8. Fixed(after)
  BY <1>7
<1>9. after[n] = WithCandidates(st)
  BY <1>2
<1> HIDE DEF after, step
<1>10. after[0] = st /\ \A i \in 1..n : after[i] = EnqueueCandidate(after[i - 1], i)
  BY <1>3, <1>8
<1> DEFINE G == {i \in 0..n : after[i] \in S}
<1>11. 0 \in G
  BY <1>3, <1>10
<1>12. ASSUME NEW i \in 0..(n - 1), i \in G PROVE i + 1 \in G
  <2>1. i + 1 \in 0..n /\ i + 1 \in 1..n /\ (i + 1) - 1 = i
    BY <1>3
  <2>2. after[i + 1] = EnqueueCandidate(after[i], i + 1)
    BY <1>10, <2>1
  <2> QED
    BY <1>1, <1>12, <2>1, <2>2
<1>13. 0..n \subseteq G
  <2> HIDE DEF G
  <2> QED
    BY <1>3, <1>11, <1>12, BoundedInduction
<1>14. after \in [0..n -> S]
  BY <1>8, <1>13
<1> QED
  BY <1>9, <1>10, <1>14 DEF n, S

\* After the candidates were looked at, every connection with something to do is
\* queued, behind those that already were.
LEMMA CandidatesSound ==
  ASSUME NEW st, SetSound(st)
  PROVE  LET nt == WithCandidates(st)
         IN  /\ SetSound(nt) /\ Carries(st, nt) /\ Untouched(st, nt) /\ nt.owner = st.owner
             /\ Extends(st.ready, nt.ready) /\ AllQueued(nt)
<1> DEFINE n == Cardinality(Indices)
           Seen(x, k) ==
             /\ Carries(st, x) /\ Untouched(st, x) /\ x.owner = st.owner
             /\ Extends(st.ready, x.ready)
             /\ \A j \in 1..k : Live(x, j) /\ Candidate(x.table[j].entry) => x.table[j].entry.queued
<1>1. PICK after \in [0..n -> {x \in Sets : SetSound(x)}] :
        /\ after[0] = st
        /\ \A i \in 1..n : after[i] = EnqueueCandidate(after[i - 1], i)
        /\ after[n] = WithCandidates(st)
  BY CandidatesIterate
<1>2. n \in Nat /\ Indices = 1..n
  BY SetAssumption, FS_CardinalityType
<1> HIDE DEF n
<1> DEFINE G == {k \in 0..n : Seen(after[k], k)}
<1>3. 0 \in G
  <2>1. 0 \in 0..n /\ 1..0 = {}
    BY <1>2
  <2>2. Carries(st, st) /\ Untouched(st, st) /\ Extends(st.ready, st.ready)
    BY CarriesSelf DEF Untouched, Extends
  <2> QED
    BY <1>1, <2>1, <2>2
<1>4. ASSUME NEW k \in 0..(n - 1), k \in G PROVE k + 1 \in G
  <2> DEFINE old == after[k]
             new == after[k + 1]
  <2>1. k + 1 \in 0..n /\ k + 1 \in 1..n /\ (k + 1) - 1 = k /\ k \in 0..n
    BY <1>2
  <2>2. new = EnqueueCandidate(old, k + 1) /\ SetSound(old) /\ Seen(old, k)
    BY <1>1, <1>4, <2>1
  <2> HIDE DEF old, new
  <2>3. /\ Carries(old, new) /\ Untouched(old, new) /\ new.owner = old.owner
        /\ OnlyRow(old, new, k + 1) /\ Extends(old.ready, new.ready)
        /\ Live(new, k + 1) /\ Candidate(new.table[k + 1].entry) => new.table[k + 1].entry.queued
    BY <1>2, <2>1, <2>2, CandidateSound
  <2>4. Carries(st, new)
    BY <2>2, <2>3, CarriesOn
  <2>5. Untouched(st, new) /\ new.owner = st.owner /\ Extends(st.ready, new.ready)
    BY <2>2, <2>3 DEF Untouched, Extends
  <2>6. ASSUME NEW j \in 1..(k + 1), Live(new, j), Candidate(new.table[j].entry)
        PROVE  new.table[j].entry.queued
    <3>1. CASE j = k + 1
      BY <2>3, <2>6, <3>1
    <3>2. CASE j # k + 1
      <4>1. j \in 1..k /\ j \in Indices
        BY <1>2, <2>1, <3>2
      <4>2. new.table[j] = old.table[j]
        BY <2>3, <3>2, <4>1 DEF OnlyRow
      <4>3. Live(old, j) /\ Candidate(old.table[j].entry)
        BY <2>6, <4>2 DEF Live
      <4> QED
        BY <2>2, <4>1, <4>2, <4>3
    <3> QED
      BY <3>1, <3>2
  <2>7. Seen(new, k + 1)
    BY <2>4, <2>5, <2>6
  <2> QED
    BY <2>1, <2>7 DEF new
<1>5. 0..n \subseteq G
  <2> HIDE DEF G
  <2> QED
    BY <1>2, <1>3, <1>4, BoundedInduction
<1>6. n \in 0..n
  BY <1>2
<1> DEFINE nt == WithCandidates(st)
<1>7. SetSound(nt) /\ Seen(nt, n)
  <2>1. after[n] = nt /\ n \in G /\ after[n] \in {x \in Sets : SetSound(x)}
    BY <1>1, <1>5, <1>6
  <2> QED
    BY <2>1
<1> HIDE DEF nt
<1>8. AllQueued(nt)
  <2>1. SUFFICES ASSUME NEW i \in LiveIndices(nt), Works(nt.table[i].entry.slot),
                        nt.table[i].entry.runnable \/ Releasable(nt.table[i].entry.slot)
                 PROVE  nt.table[i].entry.queued
    BY DEF AllQueued
  <2>2. i \in 1..n /\ Live(nt, i) /\ EntrySound(nt.table[i].entry)
    BY <1>2, <1>7 DEF LiveIndices, SetSound
  <2>3. Candidate(nt.table[i].entry)
    BY <2>1, <2>2 DEF Candidate, EntrySound
  <2> QED
    BY <1>7, <2>2, <2>3
<1> QED
  BY <1>7, <1>8 DEF nt
(***************************************************************************)
(* The steps of the set.                                                   *)
(***************************************************************************)

\* What a step may not do to the ready queue and to the table.
InOrder ==
  \A k \in DOMAIN set.ready :
    (turn.pc = "Drive" => k # 1) =>
      \A j \in DOMAIN set'.ready : set'.ready[j] = set.ready[k] => j <= k

Fenced ==
  turn.pc = "Commands" =>
    \A i \in Indices : set'.table[i] # set.table[i] =>
      \E lane \in {"control", "regular"} :
        /\ set'[lane] # set[lane]
        /\ set[lane] # <<>>
        /\ Head(set[lane]).connection.resource = ResourceAt(set, i)

LEMMA Invariant ==
  ASSUME SetIInv
  PROVE  /\ SetSound(set) /\ set \in Sets /\ QueueSound(set.table, set.ready)
         /\ set.ready \in Seq(Resources) /\ NoRepeats(set.ready)
         /\ turn \in Turns /\ woken \in BOOLEAN /\ issued \subseteq Connections
  BY SetFields DEF SetIInv, SetSound, TurnSound, QueueSound

LEMMA OrderSelf ==
  ASSUME NEW queue \in Seq(Resources), NoRepeats(queue)
  PROVE  Order(queue, queue)
<1>1. DOMAIN queue \subseteq Nat
  OBVIOUS
<1> QED
  BY <1>1 DEF Order, NoRepeats

LEMMA ExtendsOrder ==
  ASSUME NEW queue, NEW longer \in Seq(Resources), NoRepeats(longer), Extends(queue, longer)
  PROVE  Order(queue, longer)
<1>1. DOMAIN longer \subseteq Nat
  OBVIOUS
<1> QED
  BY <1>1 DEF Order, Extends, NoRepeats

LEMMA ExtendsThenOrder ==
  ASSUME NEW queue, NEW longer, NEW after, Extends(queue, longer), Order(longer, after)
  PROVE  Order(queue, after)
  BY DEF Extends, Order

LEMMA OrderKept ==
  ASSUME Order(set.ready, set'.ready)
  PROVE  InOrder
  BY DEF Order, InOrder

LEMMA SoundQueue ==
  ASSUME NEW st, SetSound(st)
  PROVE  st \in Sets /\ st.ready \in Seq(Resources) /\ NoRepeats(st.ready)
  BY SetFields DEF SetSound, QueueSound

\* The token of a connection, while it is owned.
LEMMA OwnedFields ==
  ASSUME SetIInv, NEW c \in Connections, Owned(set, c)
  PROVE  /\ c.resource \in Resources /\ Occupied(set, c.resource)
         /\ EntrySound(EntryAt(set, c.resource)) /\ c.resource.index \in Indices
<1>1. c.resource \in Resources /\ Occupied(set, c.resource) /\ SetSound(set)
  BY DEF Connections, Owned, SetIInv
<1> QED
  BY <1>1, OccupiedFields

LEMMA ControlKeeps ==
  ASSUME SetIInv, NEW c \in Connections, NEW kind, Control(c, kind)
  PROVE  SetIInv' /\ InOrder /\ Fenced /\ Carries(set, set')
<1> DEFINE r == c.resource
           e == EntryAt(set, r)
<1>1. /\ Owned(set, c) /\ turn.pc = "Idle" /\ woken' = TRUE /\ turn' = turn /\ issued' = issued
  BY DEF Control, Between
<1>0. PICK s \in ControlEffect(kind, e.slot) :
        \E m \in Moved(e, s) : set' \in SettleConnection(Enqueue(Put(set, r, m), r), r)
  BY DEF Control
<1>2. PICK m \in Moved(e, s) : set' \in SettleConnection(Enqueue(Put(set, r, m), r), r)
  BY <1>0
<1>3. r \in Resources /\ Occupied(set, r) /\ EntrySound(e) /\ SetSound(set) /\ set.ready \in Seq(Resources)
  BY <1>1, OwnedFields, Invariant
<1> HIDE DEF e, r
<1>4. e.transport \in BOOLEAN /\ SlotSound(e.slot, e.transport)
  BY <1>3, EntryFields DEF EntrySound
<1>5. SlotLeaves(e.slot, e.transport, s)
  BY <1>4, ControlLeaves
<1>6. EntryLeaves(e, m) /\ m.transport = e.transport /\ m.queued = e.queued
  BY <1>3, <1>5, MovedLeaves
<1> DEFINE mt == Enqueue(Put(set, r, m), r)
<1>7. SetSound(mt) /\ Carries(set, mt) /\ Occupied(mt, r) /\ Extends(set.ready, mt.ready)
  BY <1>3, <1>6, EnqueuePut DEF e
<1> HIDE DEF mt
<1>8. SetSound(set') /\ Carries(mt, set') /\ Order(mt.ready, set'.ready)
  BY <1>2, <1>3, <1>7, SettleSound DEF mt
<1>9. Carries(set, set')
  BY <1>7, <1>8, CarriesOn
<1>10. InOrder
  BY <1>7, <1>8, ExtendsThenOrder, OrderKept
<1>11. TurnSound'
  BY <1>1 DEF SetIInv, TurnSound
<1> QED
  BY <1>1, <1>8, <1>9, <1>10, <1>11 DEF SetIInv, Fenced
\* A call that gives the host no new reason to be awake.
LEMMA IdleKept ==
  ASSUME SetIInv, turn.pc = "Idle", turn' = turn, woken' = woken, issued' = issued,
         SetSound(set'),
         set'.owner = "Running" =>
           /\ set.owner = "Running"
           /\ AllQueued(set) => AllQueued(set')
           /\ set.ready = <<>> => set'.ready = <<>>
           /\ set'.control = set.control /\ set'.regular = set.regular
  PROVE  SetIInv' /\ Fenced
<1>1. TurnSound'
  BY DEF SetIInv, TurnSound
<1> QED
  BY <1>1 DEF SetIInv, Fenced

LEMMA AllQueuedAt ==
  ASSUME NEW st, NEW nt, AllQueued(st), NEW i, OnlyRow(st, nt, i),
         Live(nt, i) => LET e == nt.table[i].entry
                        IN  Works(e.slot) /\ (e.runnable \/ Releasable(e.slot)) => e.queued
  PROVE  AllQueued(nt)
  BY DEF AllQueued, OnlyRow, LiveIndices, Live

LEMMA DrainKeeps ==
  ASSUME SetIInv, NEW c \in Connections, DrainPublications(c)
  PROVE  SetIInv' /\ InOrder /\ Fenced /\ Carries(set, set')
<1> DEFINE r == c.resource
           e == EntryAt(set, r)
           t == Drained(e.slot)
           m == [e EXCEPT !.slot = t]
<1>1. /\ Owned(set, c) /\ turn.pc = "Idle" /\ woken' = woken /\ turn' = turn /\ issued' = issued
  BY DEF DrainPublications, Between
<1>2. set' = Put(set, r, [e EXCEPT !.slot = Drained(@)])
  BY DEF DrainPublications
<1>3. /\ r \in Resources /\ Occupied(set, r) /\ EntrySound(e) /\ SetSound(set)
      /\ set.ready \in Seq(Resources) /\ NoRepeats(set.ready) /\ set \in Sets
      /\ e \in Entries /\ e = set.table[r.index].entry /\ r.index \in Indices
      /\ set.table[r.index].generation \in 1..MaxGeneration
      /\ Works(e.slot) => e.synced \/ e.queued
  BY <1>1, OwnedFields, Invariant, OccupiedFields
<1>4. [e EXCEPT !.slot = Drained(@)] = m
  BY <1>3 DEF Entries
<1> HIDE DEF e, r
<1>5. /\ e.slot \in ContractSlots /\ t \in ContractSlots /\ t.owner = e.slot.owner
      /\ t.state = e.slot.state /\ t.close = e.slot.close
  <2>1. e.slot \in ContractSlots
    BY <1>3, EntryFields
  <2> DEFINE slot == e.slot
  <2>2. t = [slot EXCEPT !.publications = FALSE]
    BY DEF Drained
  <2> HIDE DEF t
  <2>3. /\ t \in ContractSlots /\ t.owner = slot.owner /\ t.state = slot.state
        /\ t.close = slot.close
    <3> HIDE DEF slot
    <3>1. slot \in ContractSlots
      BY <2>1 DEF slot
    <3> QED
      BY <2>2, <3>1 DEF ContractSlots
  <2> QED
    BY <2>1, <2>3
<1> HIDE DEF t
<1>6. /\ m \in Entries /\ m.slot = t /\ m.identity = e.identity /\ m.transport = e.transport
      /\ m.queued = e.queued /\ m.runnable = e.runnable /\ m.synced = e.synced
  BY <1>3, <1>5 DEF Entries
<1>7. set' = Put(set, r, m)
  BY <1>2, <1>4
<1> HIDE DEF m
<1>8. EntryLeaves(e, m) /\ (Works(m.slot) => m.synced \/ m.queued)
  BY <1>3, <1>5, <1>6 DEF EntryLeaves, EntrySound, SlotSound, Works
<1>9. SetSound(set') /\ Carries(set, set')
  BY <1>3, <1>6, <1>7, <1>8, PutSound DEF e
<1>10. /\ Untouched(set, set') /\ OnlyRow(set, set', r.index)
       /\ set'.table[r.index].entry = m /\ set'.ready = set.ready /\ set'.owner = set.owner
  <2>1. /\ set \in Sets /\ r.index \in Indices /\ m \in Entries
        /\ set.table[r.index].generation \in 1..MaxGeneration
    BY <1>3, <1>6
  <2>2. /\ Untouched(set, Put(set, r, m)) /\ OnlyRow(set, Put(set, r, m), r.index)
        /\ Put(set, r, m).table[r.index].entry = m /\ Put(set, r, m).ready = set.ready
        /\ Put(set, r, m).owner = set.owner
    BY <2>1, PutFields
  <2> QED
    BY <1>7, <2>2
<1>11. AllQueued(set) => AllQueued(set')
  <2>1. SUFFICES ASSUME AllQueued(set) PROVE AllQueued(set')
    OBVIOUS
  <2>2. Works(e.slot) /\ (e.runnable \/ Releasable(e.slot)) => e.queued
    BY <1>3, <2>1 DEF AllQueued, LiveIndices, Occupied
  <2>3. Works(m.slot) /\ (m.runnable \/ Releasable(m.slot)) => m.queued
    BY <1>5, <1>6, <2>2 DEF Works, Releasable
  <2> QED
    BY <1>10, <2>1, <2>3, AllQueuedAt
<1>12. SetIInv' /\ Fenced
  BY <1>1, <1>9, <1>10, <1>11, IdleKept DEF Untouched
<1>13. InOrder
  BY <1>3, <1>10, OrderSelf, OrderKept
<1> QED
  BY <1>9, <1>12, <1>13

LEMMA RetainedEmpty ==
  ASSUME NEW r
  PROVE  Retained(<<>>, r) = <<>>
<1> DEFINE empty == <<>>
           kept == Retained(empty, r)
<1>1. empty \in Seq(Resources) /\ NoRepeats(empty) /\ Len(empty) = 0
  BY DEF NoRepeats
<1> HIDE DEF empty
<1>2. kept \in Seq(Resources) /\ KeepsUpTo(empty, r, 0, kept)
  BY <1>1, RetainedKeeps
<1> HIDE DEF kept
<1>3. DOMAIN kept = {}
  <2>1. 1..0 = {}
    OBVIOUS
  <2> QED
    BY <1>2, <2>1 DEF KeepsUpTo
<1>4. kept = <<>>
  BY <1>2, <1>3
<1> QED
  BY <1>4 DEF kept, empty

\* Giving up a connection, in a set that lost it but for the queue and the table.
LEMMA EvictKeeps ==
  ASSUME SetIInv, NEW r \in Resources, NEW st, SetSound(st), Occupied(st, r),
         NEW mt \in Sets, mt.table = st.table, mt.ready = st.ready, mt.owner = st.owner,
         mt.control = st.control, mt.regular = st.regular,
         st.owner = "Running" => st = set /\ mt.registered = st.registered \ {r},
         Order(set.ready, st.ready), st.ready = <<>> \/ st = set,
         turn.pc = "Idle", turn' = turn, woken' = woken, issued' = issued,
         set' = Evict(Unqueue(mt, r), r)
  PROVE  SetIInv' /\ InOrder /\ Fenced
<1>1. /\ SetSound(set') /\ Order(st.ready, set'.ready) /\ OnlyRow(st, set', r.index)
      /\ ~Live(set', r.index) /\ Untouched(mt, set') /\ set'.owner = st.owner
  BY EvictAfter
<1>2. set'.ready = Retained(st.ready, r)
  <2> DEFINE ut == Unqueue(mt, r)
  <2>1. ut \in Sets /\ ut.ready = Retained(mt.ready, r)
    BY SoundQueue, UnqueueFields
  <2> HIDE DEF ut
  <2>2. Evict(ut, r).ready = ut.ready
    BY <2>1, EvictFields
  <2> QED
    BY <2>1, <2>2 DEF ut
<1>3. set'.owner = "Running" /\ AllQueued(set) => AllQueued(set')
  BY <1>1, AllQueuedAt
<1>4. set'.owner = "Running" /\ set.ready = <<>> => set'.ready = <<>>
  BY <1>1, <1>2, RetainedEmpty
<1>5. SetIInv' /\ Fenced
  BY <1>1, <1>3, <1>4, IdleKept DEF Untouched
<1>6. Order(set.ready, set'.ready)
  <2>1. CASE st = set
    BY <1>1, <2>1
  <2>2. CASE st.ready = <<>>
    <3>1. set'.ready = <<>>
      BY <1>2, <2>2, RetainedEmpty
    <3> QED
      BY <3>1 DEF Order
  <2> QED
    BY <2>1, <2>2
<1> QED
  BY <1>5, <1>6, OrderKept

LEMMA RetireKeeps ==
  ASSUME SetIInv, NEW c \in Connections, Retire(c)
  PROVE  SetIInv' /\ InOrder /\ Fenced
<1> DEFINE r == c.resource
<1>1. /\ Owned(set, c) /\ turn.pc = "Idle" /\ woken' = woken /\ turn' = turn /\ issued' = issued
      /\ ~EntryAt(set, r).transport /\ set' = Evict(Unqueue(set, r), r)
  BY DEF Retire, Between
<1>2. r \in Resources /\ Occupied(set, r) /\ SetSound(set) /\ set \in Sets
      /\ set.ready \in Seq(Resources) /\ NoRepeats(set.ready)
      /\ r = ResourceAt(set, r.index) /\ EntryAt(set, r) = set.table[r.index].entry
  BY <1>1, OwnedFields, Invariant, OccupiedFields
<1> HIDE DEF r
<1>3. set.owner = "Running" => set.registered = set.registered \ {r}
  <2>1. r \notin Transports(set.table)
    BY <1>1, <1>2 DEF Transports, ResourceAt
  <2> QED
    BY <2>1 DEF SetIInv, SetSound, FenceSound
<1>4. Order(set.ready, set.ready)
  BY <1>2, OrderSelf
<1> QED
  BY <1>1, <1>2, <1>3, <1>4, EvictKeeps

LEMMA RecoverKeeps ==
  ASSUME SetIInv, NEW c \in Connections, Recover(c)
  PROVE  SetIInv' /\ InOrder /\ Fenced
<1> DEFINE r == c.resource
           freed == [set EXCEPT !.registered = @ \ {r}]
           failed == LatchSelectorFailure(set)
<1>1. /\ Owned(set, c) /\ turn.pc = "Idle" /\ woken' = woken /\ turn' = turn /\ issued' = issued
      /\ \/ set' = Evict(Unqueue(freed, r), r)
         \/ set' = Evict(Unqueue(failed, r), r)
  BY DEF Recover, Between
<1>2. r \in Resources /\ Occupied(set, r) /\ SetSound(set) /\ set \in Sets
      /\ set.ready \in Seq(Resources) /\ NoRepeats(set.ready) /\ r.index \in Indices
  BY <1>1, OwnedFields, Invariant
<1>3. CASE set' = Evict(Unqueue(freed, r), r)
  <2>1. /\ freed \in Sets /\ freed.table = set.table /\ freed.ready = set.ready
        /\ freed.owner = set.owner /\ freed.control = set.control /\ freed.regular = set.regular
        /\ freed.registered = set.registered \ {r}
    BY <1>2 DEF Sets
  <2>2. Order(set.ready, set.ready)
    BY <1>2, OrderSelf
  <2> HIDE DEF freed, r
  <2> QED
    BY <1>1, <1>2, <1>3, <2>1, <2>2, EvictKeeps
<1>4. CASE set' = Evict(Unqueue(failed, r), r)
  <2>1. SetSound(failed) /\ Carries(set, failed) /\ failed.owner # "Running"
        /\ (failed.ready = <<>> \/ failed = set)
    BY <1>2, LatchSound
  <2> HIDE DEF failed, r
  <2>2. Occupied(failed, r) /\ failed \in Sets
    BY <1>2, <2>1 DEF Carries, Occupied, SetSound
  <2>3. Order(set.ready, failed.ready)
    <3>1. CASE failed = set
      BY <1>2, <3>1, OrderSelf
    <3>2. CASE failed.ready = <<>>
      BY <3>2 DEF Order
    <3> QED
      BY <2>1, <3>1, <3>2
  <2> QED
    BY <1>1, <1>2, <1>4, <2>1, <2>2, <2>3, EvictKeeps
<1> QED
  BY <1>1, <1>3, <1>4
LEMMA NewEntrySound ==
  ASSUME NEW identity \in Identities
  PROVE  /\ EntrySound(NewEntry(identity)) /\ ~NewEntry(identity).queued
         /\ NewEntry(identity).transport /\ NewEntry(identity).synced
         /\ NewEntry(identity).identity = identity
<1>1. NewContract \in ContractSlots /\ SlotSound(NewContract, TRUE)
  BY DEF NewContract, ContractSlots, SlotSound, Works
<1> QED
  BY <1>1 DEF NewEntry, Entries, EntrySound

\* A new connection in a free row is registered and queued.
LEMMA ConnectAt ==
  ASSUME NEW st, SetSound(st), st.owner = "Running", NEW i \in Indices, ~Live(st, i),
         st.table[i].generation <= MaxGeneration, NEW identity \in Identities
  PROVE  LET r == ResourceAt(st, i)
             nt == Enqueue([Put(st, r, NewEntry(identity)) EXCEPT !.registered = @ \cup {r}], r)
         IN  /\ r \in Resources /\ SetSound(nt) /\ Extends(st.ready, nt.ready)
             /\ OnlyRow(st, nt, i) /\ Live(nt, i) /\ nt.owner = "Running"
             /\ nt.table[i].generation = st.table[i].generation
             /\ nt.table[i].entry.identity = identity
<1> DEFINE r == ResourceAt(st, i)
           m == NewEntry(identity)
           q == [m EXCEPT !.queued = TRUE]
           pt == Put(st, r, m)
           mt == [pt EXCEPT !.registered = @ \cup {r}]
           nt == Enqueue(mt, r)
<1>1. /\ st \in Sets /\ QueueSound(st.table, st.ready) /\ st.registered = Transports(st.table)
  BY DEF SetSound, FenceSound
<1>2. st.table[i].generation \in 1..MaxGeneration /\ r.index = i
  <2>1. st.table[i].generation \in 1..(MaxGeneration + 1)
    BY <1>1, SetFields
  <2> QED
    BY <2>1, SetAssumption DEF ResourceAt
<1>3. r \in Resources /\ r.generation = st.table[i].generation
  BY <1>2 DEF ResourceAt, Resources
<1>4. EntrySound(m) /\ m \in Entries /\ ~m.queued /\ m.transport /\ m.synced /\ m.identity = identity
  BY NewEntrySound DEF EntrySound
<1>5. /\ q \in Entries /\ q.queued = TRUE /\ q.slot = m.slot /\ q.transport = m.transport
      /\ q.identity = m.identity /\ q.runnable = m.runnable /\ q.synced = m.synced
  <2> HIDE DEF m
  <2> QED
    BY <1>4 DEF Entries
<1> HIDE DEF m
<1>6. EntrySound(q) /\ q # NoEntry /\ m # NoEntry
  <2> HIDE DEF q
  <2> QED
    BY <1>4, <1>5, NoEntryIsNone DEF EntrySound
<1> HIDE DEF r
<1>7. /\ pt \in Sets /\ Untouched(st, pt) /\ OnlyRow(st, pt, r.index)
      /\ pt.table[r.index].generation = st.table[r.index].generation
      /\ pt.table[r.index].entry = m
      /\ pt.ready = st.ready /\ pt.owner = st.owner /\ pt.registered = st.registered
  BY <1>1, <1>2, <1>4, PutFields
<1> HIDE DEF pt
<1>8. /\ mt \in Sets /\ Untouched(pt, mt) /\ mt.table = pt.table /\ mt.ready = pt.ready
      /\ mt.owner = pt.owner /\ mt.registered = pt.registered \cup {r}
  BY <1>3, <1>7 DEF Sets, Untouched
<1> HIDE DEF mt
<1>9. Occupied(mt, r) /\ EntryAt(mt, r) = m
  BY <1>2, <1>3, <1>6, <1>7, <1>8 DEF Occupied, Live, EntryAt
<1>10. /\ nt \in Sets /\ Untouched(mt, nt) /\ OnlyRow(mt, nt, r.index)
       /\ nt.table[r.index].generation = mt.table[r.index].generation
       /\ nt.table[r.index].entry = q
       /\ nt.ready = Append(mt.ready, r) /\ nt.owner = mt.owner
       /\ nt.registered = mt.registered
  BY <1>3, <1>4, <1>8, <1>9, EnqueueFields
<1> HIDE DEF nt, q
<1>11. /\ OnlyRow(st, nt, i) /\ Live(nt, i) /\ ResourceAt(nt, i) = r /\ nt.owner = "Running"
       /\ nt.table[i].generation = st.table[i].generation /\ nt.table[i].entry = q
       /\ nt.ready = Append(st.ready, ResourceAt(nt, i))
       /\ nt.registered = st.registered \cup {r}
  BY <1>2, <1>3, <1>6, <1>7, <1>8, <1>10 DEF OnlyRow, Live, ResourceAt, Resources
<1>12. QueueSound(nt.table, nt.ready) /\ Extends(st.ready, nt.ready)
  BY <1>1, <1>3, <1>5, <1>10, <1>11, QueueJoined DEF Extends
<1>13. nt.registered = Transports(nt.table)
  <2>1. Transports(nt.table) = {x \in Transports(st.table) : x.index # i} \cup {r}
    <3>1. Live(nt, i) /\ nt.table[i].entry.transport /\ nt \in Sets
      BY <1>4, <1>5, <1>10, <1>11
    <3>2. Transports(nt.table)
            = {x \in Transports(st.table) : x.index # i} \cup {ResourceAt(nt, i)}
      BY <1>1, <1>11, <3>1, TransportsAt
    <3> QED
      BY <1>11, <3>2
  <2>2. \A x \in Transports(st.table) : x.index # i
    BY DEF Transports, Live
  <2> QED
    BY <1>1, <1>11, <2>1, <2>2
<1>14. SetSound(nt)
  BY <1>5, <1>6, <1>10, <1>11, <1>12, <1>13, OneRow
<1> QED
  BY <1>3, <1>4, <1>5, <1>11, <1>12, <1>14 DEF nt, mt, pt, r, m

LEMMA ConnectKeeps ==
  ASSUME SetIInv, NEW i \in Indices, NEW identity \in Identities, Connect(i, identity)
  PROVE  SetIInv' /\ InOrder /\ Fenced
<1> DEFINE r == ResourceAt(set, i)
           nt == Enqueue([Put(set, r, NewEntry(identity)) EXCEPT !.registered = @ \cup {r}], r)
<1>1. /\ turn.pc = "Idle" /\ set.owner = "Running" /\ ~Live(set, i)
      /\ set.table[i].generation <= MaxGeneration
      /\ set' = nt /\ issued' = issued \cup {[resource |-> r, identity |-> identity]}
      /\ woken' = TRUE /\ turn' = turn
  BY DEF Connect, Admits, Between
<1>2. SetSound(set) /\ issued \subseteq Connections
  BY Invariant
<1>3. r \in Resources /\ SetSound(nt) /\ Extends(set.ready, nt.ready)
  BY <1>1, <1>2, ConnectAt
<1> HIDE DEF nt, r
<1>4. Order(set.ready, set'.ready)
  BY <1>1, <1>3, SoundQueue, ExtendsOrder
<1>5. issued' \subseteq Connections
  BY <1>1, <1>2, <1>3 DEF Connections
<1>6. TurnSound'
  BY <1>1, <1>5 DEF SetIInv, TurnSound
<1> QED
  BY <1>1, <1>3, <1>4, <1>6, OrderKept DEF SetIInv, Fenced

\* A row that is free stays free when its generation is given up.
LEMMA EvictFree ==
  ASSUME NEW st, SetSound(st), NEW i \in Indices, ~Live(st, i), NEW r \in Resources, r.index = i
  PROVE  LET nt == Evict(st, r)
         IN  /\ SetSound(nt) /\ OnlyRow(st, nt, i) /\ ~Live(nt, i) /\ nt.ready = st.ready
             /\ nt.owner = st.owner /\ Untouched(st, nt)
<1> DEFINE nt == Evict(st, r)
<1>1. st \in Sets /\ QueueSound(st.table, st.ready)
  BY DEF SetSound
<1>2. /\ nt \in Sets /\ Untouched(st, nt) /\ OnlyRow(st, nt, i) /\ ~Live(nt, i)
      /\ nt.ready = st.ready /\ nt.owner = st.owner /\ nt.registered = st.registered
  BY <1>1, EvictFields
<1> HIDE DEF nt
<1>3. \A k \in DOMAIN st.ready : st.ready[k].index # i
  BY <1>1, QueueMembers DEF Occupied
<1>4. QueueSound(nt.table, nt.ready)
  <2>1. NoRepeats(nt.ready)
    BY <1>1, <1>2 DEF QueueSound
  <2>2. /\ \A j \in DOMAIN nt.ready :
             \E k \in DOMAIN st.ready : nt.ready[j] = st.ready[k] /\ st.ready[k].index # i
        /\ \A k \in DOMAIN st.ready : st.ready[k].index # i =>
             \E j \in DOMAIN nt.ready : nt.ready[j] = st.ready[k]
    BY <1>2, <1>3
  <2> QED
    BY <1>1, <1>2, <2>1, <2>2, QueueLeft
<1>5. Transports(nt.table) = Transports(st.table)
  <2>1. Transports(nt.table) = {x \in Transports(st.table) : x.index # i}
    BY <1>1, <1>2, TransportsAt
  <2>2. \A x \in Transports(st.table) : x.index # i
    BY DEF Transports, Live
  <2> QED
    BY <2>1, <2>2
<1>6. st.owner # "Running" => nt.control = <<>> /\ nt.regular = <<>>
  BY <1>2 DEF SetSound, FenceSound, Untouched
<1>7. st.owner = "Running" => nt.registered = Transports(nt.table)
  BY <1>2, <1>5 DEF SetSound, FenceSound
<1>8. SetSound(nt)
  BY <1>2, <1>4, <1>6, <1>7, OneRow
<1> QED
  BY <1>2, <1>8 DEF nt

LEMMA ConnectAbandonedKeeps ==
  ASSUME SetIInv, NEW i \in Indices, ConnectAbandoned(i)
  PROVE  SetIInv' /\ InOrder /\ Fenced
<1> DEFINE r == ResourceAt(set, i)
           mt == [set EXCEPT !.registered = @ \cup {r}]
           failed == LatchSelectorFailure(mt)
<1>1. /\ turn.pc = "Idle" /\ set.owner = "Running" /\ ~Live(set, i)
      /\ set.table[i].generation <= MaxGeneration
      /\ woken' = woken /\ turn' = turn /\ issued' = issued
      /\ set' = Evict(set, r) \/ set' = Evict(failed, r)
  BY DEF ConnectAbandoned, Admits, Between
<1>2. /\ SetSound(set) /\ set \in Sets /\ set.ready \in Seq(Resources) /\ NoRepeats(set.ready)
  BY Invariant
<1>3. set.table[i].generation \in 1..MaxGeneration /\ r.index = i
  BY <1>1, <1>2, SetFields, SetAssumption DEF ResourceAt
<1>4. r \in Resources
  BY <1>3 DEF ResourceAt, Resources
<1> HIDE DEF r
<1>5. CASE set' = Evict(set, r)
  <2>1. /\ SetSound(set') /\ OnlyRow(set, set', i) /\ ~Live(set', i) /\ set'.ready = set.ready
        /\ set'.owner = set.owner /\ Untouched(set, set')
    BY <1>1, <1>2, <1>3, <1>4, <1>5, EvictFree
  <2>2. AllQueued(set) => AllQueued(set')
    BY <2>1, AllQueuedAt
  <2>3. SetIInv' /\ Fenced
    BY <1>1, <2>1, <2>2, IdleKept DEF Untouched
  <2>4. InOrder
    BY <1>2, <2>1, OrderSelf, OrderKept
  <2> QED
    BY <2>3, <2>4
<1>6. CASE set' = Evict(failed, r)
  <2>1. mt \in Sets /\ mt.table = set.table /\ mt.owner = set.owner
    BY <1>2, <1>4 DEF Sets
  <2> HIDE DEF mt
  <2>2. \A j \in LiveIndices(mt) : EntrySound(mt.table[j].entry)
    BY <1>2, <2>1 DEF SetSound, LiveIndices, Live
  <2>3. /\ SetSound(failed) /\ failed.owner = "Failed" /\ failed.ready = <<>>
        /\ ~Live(failed, i)
    BY <1>1, <2>1, <2>2, LatchFails DEF Live
  <2> HIDE DEF failed
  <2>4. /\ SetSound(set') /\ set'.ready = <<>> /\ set'.owner = "Failed"
    BY <1>3, <1>4, <1>6, <2>3, EvictFree
  <2>5. SetIInv' /\ Fenced
    BY <1>1, <2>4, IdleKept
  <2>6. Order(set.ready, set'.ready)
    BY <2>4 DEF Order
  <2> QED
    BY <2>5, <2>6, OrderKept
<1> QED
  BY <1>1, <1>5, <1>6

\* A lane of the mailbox changed.
WithLane(st, lane, q) == [st EXCEPT ![lane] = q]

LEMMA LaneFields ==
  ASSUME NEW st \in Sets, NEW lane \in {"control", "regular"}, NEW q \in Seq(Commands),
         NEW nt, nt = WithLane(st, lane, q)
  PROVE  /\ nt \in Sets /\ nt.table = st.table /\ nt.ready = st.ready /\ nt.owner = st.owner
         /\ nt.registered = st.registered /\ nt.morePending = st.morePending /\ nt[lane] = q
<1>1. CASE lane = "control"
  <2>1. nt = [st EXCEPT !.control = q]
    BY <1>1 DEF WithLane
  <2> QED
    BY <1>1, <2>1 DEF Sets
<1>2. CASE lane = "regular"
  <2>1. nt = [st EXCEPT !.regular = q]
    BY <1>2 DEF WithLane
  <2> QED
    BY <1>2, <2>1 DEF Sets
<1> QED
  BY <1>1, <1>2

LEMMA AllQueuedSame ==
  ASSUME NEW st, NEW nt, nt.table = st.table
  PROVE  AllQueued(st) => AllQueued(nt)
  BY DEF AllQueued, LiveIndices, Live

LEMMA SendKeeps ==
  ASSUME SetIInv, NEW c \in Connections, NEW kind \in CommandKinds, Send(c, kind)
  PROVE  SetIInv' /\ InOrder /\ Fenced /\ Carries(set, set')
<1> DEFINE lane == IF kind = "Cancel" THEN "regular" ELSE "control"
           command == [connection |-> c, kind |-> kind]
           q == Append(set[lane], command)
<1>1. /\ set.owner = "Running" /\ set' = [set EXCEPT ![lane] = Append(@, command)]
      /\ woken' = TRUE /\ turn' = turn /\ issued' = issued
  BY DEF Send
<1>2. /\ SetSound(set) /\ set \in Sets /\ set.ready \in Seq(Resources) /\ NoRepeats(set.ready)
      /\ turn \in Turns
  BY Invariant
<1>3. lane \in {"control", "regular"} /\ command \in Commands
  BY DEF Commands
<1> HIDE DEF lane, command
<1>4. set[lane] \in Seq(Commands)
  BY <1>2, <1>3, SetFields
<1>5. q \in Seq(Commands)
  BY <1>3, <1>4
<1>6. set' = WithLane(set, lane, q)
  BY <1>1, <1>2, <1>3 DEF Sets, WithLane
<1> HIDE DEF q
<1>7. /\ set' \in Sets /\ set'.table = set.table /\ set'.ready = set.ready
      /\ set'.owner = set.owner /\ set'.registered = set.registered
  BY <1>2, <1>3, <1>5, <1>6, LaneFields
<1>8. SetSound(set') /\ Carries(set, set')
  BY <1>1, <1>2, <1>7, RestChanged
<1>9. InOrder
  BY <1>2, <1>7, OrderSelf, OrderKept
<1>10. AllQueued(set) => AllQueued(set')
  BY <1>7, AllQueuedSame
<1>11. TurnSound'
  BY <1>1, <1>7, <1>10 DEF SetIInv, TurnSound, CommandsSeen
<1> QED
  BY <1>7, <1>8, <1>9, <1>11 DEF SetIInv, Fenced

LEMMA PollKeeps ==
  ASSUME SetIInv, NEW events, NEW saturated \in BOOLEAN, Poll(events, saturated)
  PROVE  SetIInv' /\ InOrder /\ Fenced /\ Carries(set, set')
<1>1. /\ turn.pc = "Idle" /\ set.owner = "Running" /\ events \subseteq set.registered
      /\ set' = [set EXCEPT !.events = @ \cup events, !.saturated = saturated]
      /\ woken' = (woken \/ events # {}) /\ turn' = turn /\ issued' = issued
  BY DEF Poll, Between
<1>2. /\ SetSound(set) /\ set \in Sets /\ set.ready \in Seq(Resources) /\ NoRepeats(set.ready)
  BY Invariant
<1>3. /\ set' \in Sets /\ set'.table = set.table /\ set'.ready = set.ready
      /\ set'.owner = set.owner /\ set'.registered = set.registered
      /\ set'.control = set.control /\ set'.regular = set.regular
  <2>1. set.events \cup events \subseteq Resources
    BY <1>1, <1>2, SetFields
  <2> QED
    BY <1>1, <1>2, <2>1 DEF Sets
<1>4. SetSound(set') /\ Carries(set, set')
  BY <1>1, <1>2, <1>3, RestChanged
<1>5. InOrder
  BY <1>2, <1>3, OrderSelf, OrderKept
<1>6. AllQueued(set) => AllQueued(set')
  BY <1>3, AllQueuedSame
<1>7. woken' \in BOOLEAN /\ (~woken' => ~woken)
  BY <1>1
<1>8. TurnSound'
  BY <1>1, <1>3, <1>6, <1>7 DEF SetIInv, TurnSound
<1> QED
  BY <1>1, <1>4, <1>5, <1>8 DEF SetIInv, Fenced

LEMMA FailOrder ==
  ASSUME SetIInv, set' = LatchSelectorFailure(set)
  PROVE  SetSound(set') /\ Carries(set, set') /\ Order(set.ready, set'.ready)
         /\ set'.owner # "Running"
<1>1. SetSound(set) /\ set.ready \in Seq(Resources) /\ NoRepeats(set.ready)
  BY Invariant
<1>2. /\ SetSound(set') /\ Carries(set, set') /\ set'.owner # "Running"
      /\ set'.ready = <<>> \/ set' = set
  BY <1>1, LatchSound
<1>3. CASE set' = set
  BY <1>1, <1>2, <1>3, OrderSelf
<1>4. CASE set'.ready = <<>>
  BY <1>2, <1>4 DEF Order
<1> QED
  BY <1>2, <1>3, <1>4

LEMMA PollFailsKeeps ==
  ASSUME SetIInv, PollFails
  PROVE  SetIInv' /\ InOrder /\ Fenced /\ Carries(set, set')
<1>1. /\ turn.pc = "Idle" /\ set' = LatchSelectorFailure(set)
      /\ woken' = woken /\ turn' = turn /\ issued' = issued
  BY DEF PollFails, Between
<1>2. SetSound(set') /\ Carries(set, set') /\ Order(set.ready, set'.ready) /\ set'.owner # "Running"
  BY <1>1, FailOrder
<1>3. SetIInv' /\ Fenced
  BY <1>1, <1>2, IdleKept
<1> QED
  BY <1>2, <1>3, OrderKept

LEMMA DeadlineKeeps ==
  ASSUME SetIInv, NEW i \in Indices, DeadlinePasses(i)
  PROVE  SetIInv' /\ InOrder /\ Fenced /\ Carries(set, set')
<1> DEFINE r == ResourceAt(set, i)
           e == set.table[i].entry
           m == [e EXCEPT !.due = TRUE]
<1>1. /\ turn.pc = "Idle" /\ Live(set, i) /\ woken' = woken /\ turn' = turn /\ issued' = issued
      /\ set' = [set EXCEPT !.table[i].entry.due = TRUE]
  BY DEF DeadlinePasses, Between
<1>2. /\ SetSound(set) /\ set \in Sets /\ set.ready \in Seq(Resources) /\ NoRepeats(set.ready)
      /\ set.table \in [Indices -> Rows] /\ e \in Entries
  BY <1>1, Invariant, SetFields
<1>3. /\ r \in Resources /\ r.index = i /\ Occupied(set, r)
  BY <1>1, <1>2, SetFields DEF ResourceAt, Occupied
<1>4. set' = Put(set, r, m)
  <2>1. [set.table[i] EXCEPT !.entry.due = TRUE] = [set.table[i] EXCEPT !.entry = m]
    BY <1>2 DEF Rows
  <2> HIDE DEF m, r
  <2>2. Put(set, r, m) = [set EXCEPT !.table[i].entry = m]
    BY <1>3 DEF Put
  <2> QED
    BY <1>1, <1>2, <2>1, <2>2 DEF Sets
<1>5. /\ m \in Entries /\ m.slot = e.slot /\ m.identity = e.identity /\ m.transport = e.transport
      /\ m.queued = e.queued /\ m.runnable = e.runnable /\ m.synced = e.synced
  BY <1>2 DEF Entries
<1> HIDE DEF m, r
<1>6. /\ EntryAt(set, r) = e /\ EntrySound(e) /\ (Works(e.slot) => e.synced \/ e.queued)
      /\ set.table[r.index].generation \in 1..MaxGeneration
  BY <1>2, <1>3, OccupiedFields
<1> HIDE DEF e
<1>7. EntryLeaves(e, m) /\ (Works(m.slot) => m.synced \/ m.queued)
  BY <1>5, <1>6 DEF EntryLeaves, EntrySound
<1>8. SetSound(set') /\ Carries(set, set')
  BY <1>2, <1>3, <1>4, <1>5, <1>6, <1>7, PutSound
<1>9. /\ Untouched(set, set') /\ OnlyRow(set, set', i)
      /\ set'.table[i].entry = m /\ set'.ready = set.ready /\ set'.owner = set.owner
  BY <1>2, <1>3, <1>4, <1>5, <1>6, PutFields
<1>10. AllQueued(set) => AllQueued(set')
  <2>1. SUFFICES ASSUME AllQueued(set) PROVE AllQueued(set')
    OBVIOUS
  <2>2. Works(e.slot) /\ (e.runnable \/ Releasable(e.slot)) => e.queued
    BY <1>1, <2>1 DEF AllQueued, LiveIndices, e
  <2> QED
    BY <1>5, <1>9, <2>1, <2>2, AllQueuedAt
<1>11. SetIInv' /\ Fenced
  BY <1>1, <1>8, <1>9, <1>10, IdleKept DEF Untouched
<1>12. InOrder
  BY <1>2, <1>9, OrderSelf, OrderKept
<1> QED
  BY <1>8, <1>11, <1>12

LEMMA BeginTurnKeeps ==
  ASSUME SetIInv, BeginTurn
  PROVE  SetIInv' /\ InOrder /\ Fenced /\ Carries(set, set')
<1>1. /\ set.owner = "Running" /\ set' = set /\ issued' = issued /\ woken' = FALSE
      /\ turn' = [pc |-> "Commands", budget |-> CommandsPerTurn, polled |-> FALSE]
      /\ turn.pc = "Idle"
  BY DEF BeginTurn, Between
<1>2. set.ready \in Seq(Resources) /\ NoRepeats(set.ready)
  BY Invariant
<1>3. turn' \in Turns /\ turn'.pc = "Commands"
  BY <1>1, SetAssumption DEF Turns
<1>4. TurnSound'
  BY <1>1, <1>3 DEF SetIInv, TurnSound
<1>5. InOrder
  BY <1>1, <1>2, OrderSelf, OrderKept
<1> QED
  BY <1>1, <1>4, <1>5, CarriesSelf DEF SetIInv, Fenced

\* A set without connections.
LEMMA EmptySound ==
  ASSUME NEW owner \in {"Running", "Failed", "Dropped"}
  PROVE  LET nt == [NewSet EXCEPT !.owner = owner]
         IN  /\ SetSound(nt) /\ nt.owner = owner /\ nt.ready = <<>> /\ AllQueued(nt)
             /\ nt.control = <<>> /\ nt.regular = <<>>
             /\ \A i \in Indices : ~Live(nt, i) /\ nt.table[i].generation = 1
<1> DEFINE nt == [NewSet EXCEPT !.owner = owner]
           row == [generation |-> 1, entry |-> NoEntry]
<1>1. row \in Rows /\ row.entry = NoEntry /\ row.generation = 1
  BY SetAssumption, RowFields
<1> HIDE DEF row
<1>2. /\ nt.table = [i \in Indices |-> row] /\ nt.ready = <<>> /\ nt.control = <<>>
      /\ nt.regular = <<>> /\ nt.owner = owner /\ nt.registered = {}
  BY DEF NewSet, row
<1>3. nt \in Sets
  <2>1. <<>> \in Seq(Resources) /\ <<>> \in Seq(Commands) /\ [i \in Indices |-> row] \in [Indices -> Rows]
    BY <1>1
  <2> QED
    BY <2>1 DEF NewSet, Sets, row
<1> HIDE DEF nt
<1>4. \A i \in Indices : ~Live(nt, i) /\ nt.table[i].generation = 1 /\ nt.table[i].entry = NoEntry
  BY <1>1, <1>2 DEF Live
<1>5. Transports(nt.table) = {} /\ LiveIndices(nt) = {} /\ DOMAIN nt.ready = {}
  BY <1>2, <1>4 DEF Transports, LiveIndices
<1>6. QueueSound(nt.table, nt.ready)
  BY <1>4, <1>5 DEF QueueSound, NoRepeats
<1>7. SetSound(nt)
  BY <1>2, <1>3, <1>5, <1>6 DEF SetSound, FenceSound
<1>8. AllQueued(nt)
  BY <1>5 DEF AllQueued
<1> QED
  BY <1>2, <1>4, <1>7, <1>8 DEF nt

LEMMA DropKeeps ==
  ASSUME SetIInv, DropSet
  PROVE  SetIInv' /\ InOrder /\ Fenced
<1>1. /\ turn.pc = "Idle" /\ set' = [NewSet EXCEPT !.owner = "Dropped"]
      /\ woken' = woken /\ turn' = turn /\ issued' = issued
  BY DEF DropSet, Between
<1>2. SetSound(set') /\ set'.owner = "Dropped" /\ set'.ready = <<>>
  BY <1>1, EmptySound
<1>3. SetIInv' /\ Fenced
  BY <1>1, <1>2, IdleKept
<1>4. Order(set.ready, set'.ready)
  BY <1>2 DEF Order
<1> QED
  BY <1>3, <1>4, OrderKept

LEMMA SetInit == Init => SetIInv
<1> SUFFICES ASSUME Init PROVE SetIInv
  OBVIOUS
<1>1. set = NewSet /\ turn = Idle /\ woken = FALSE /\ issued = {}
  BY DEF Init
<1>2. NewSet = [NewSet EXCEPT !.owner = "Running"]
  <2>1. NewSet.owner = "Running"
    BY DEF NewSet
  <2>2. NewSet = [f \in DOMAIN NewSet |-> NewSet[f]]
    BY DEF NewSet
  <2> QED
    BY <2>1, <2>2
<1>3. /\ SetSound(set) /\ set.ready = <<>> /\ AllQueued(set)
      /\ set.control = <<>> /\ set.regular = <<>>
  BY <1>1, <1>2, EmptySound
<1>4. turn \in Turns /\ turn.pc = "Idle"
  BY <1>1 DEF Idle, Turns
<1> QED
  BY <1>1, <1>3, <1>4 DEF SetIInv, TurnSound
(***************************************************************************)
(* The steps of a turn.                                                    *)
(***************************************************************************)
LEMMA TurnFields ==
  ASSUME SetIInv, turn.pc # "Idle"
  PROVE  set.owner = "Running" /\ turn.pc \in {"Commands", "Ingest", "Drive"}
         /\ turn.budget \in Nat /\ turn.polled \in BOOLEAN
  BY DEF SetIInv, TurnSound, Turns

LEMMA ApplyCommandKeeps ==
  ASSUME SetIInv, NEW lane \in {"control", "regular"}, ApplyCommand(lane)
  PROVE  SetIInv' /\ InOrder /\ Fenced /\ Carries(set, set')
<1> DEFINE command == Head(set[lane])
           q == Tail(set[lane])
           taken == [set EXCEPT ![lane] = Tail(@)]
           r == command.connection.resource
           e == EntryAt(set, r)
<1>1. /\ turn.pc = "Commands" /\ turn.budget > 0 /\ set[lane] # <<>>
      /\ turn' = [turn EXCEPT !.budget = @ - 1] /\ woken' = woken /\ issued' = issued
  BY DEF ApplyCommand
<1>2. /\ SetSound(set) /\ set \in Sets /\ set.ready \in Seq(Resources) /\ NoRepeats(set.ready)
      /\ turn \in Turns /\ set.owner = "Running" /\ turn.budget \in Nat
  BY <1>1, Invariant, TurnFields
<1>3. set[lane] \in Seq(Commands)
  BY <1>2, SetFields
<1>4. /\ q \in Seq(Commands) /\ q # set[lane] /\ command \in Commands
  <2>1. Len(set[lane]) \in Nat /\ Len(set[lane]) > 0 /\ Len(q) = Len(set[lane]) - 1
    BY <1>1, <1>3
  <2>2. q # set[lane]
    <3> HIDE DEF q
    <3> QED
      BY <2>1
  <2>3. q \in Seq(Commands) /\ command \in Commands
    BY <1>1, <1>3
  <2> QED
    BY <2>2, <2>3
<1>5. taken = WithLane(set, lane, q)
  BY <1>2 DEF Sets, WithLane
<1> HIDE DEF taken, q
<1>6. /\ taken \in Sets /\ taken.table = set.table /\ taken.ready = set.ready
      /\ taken.owner = set.owner /\ taken.registered = set.registered
      /\ taken.morePending = set.morePending /\ taken[lane] = q
  BY <1>2, <1>4, <1>5, LaneFields
<1>7. SetSound(taken) /\ Carries(set, taken)
  BY <1>2, <1>6, RestChanged
<1>8. turn' \in Turns /\ turn'.pc = "Commands"
  <2>1. turn.budget - 1 \in Nat
    BY <1>1, <1>2
  <2> QED
    BY <1>1, <1>2, <2>1 DEF Turns
<1>9. set'.owner = "Running" => TurnSound'
  BY <1>1, <1>2, <1>8 DEF SetIInv, TurnSound
<1>10. CASE ~Owned(set, command.connection)
  <2>1. set' = taken
    BY <1>10 DEF ApplyCommand, taken
  <2>2. InOrder
    BY <1>2, <1>6, <2>1, OrderSelf, OrderKept
  <2> QED
    BY <1>2, <1>6, <1>7, <1>9, <2>1, <2>2 DEF SetIInv, Fenced
<1>11. CASE Owned(set, command.connection)
  <2>0. PICK s \in ControlEffect(command.kind, e.slot) :
          \E m \in Moved(e, s) : set' = Enqueue(Put(taken, r, m), r)
    BY <1>11 DEF ApplyCommand, taken
  <2>1. PICK m \in Moved(e, s) : set' = Enqueue(Put(taken, r, m), r)
    BY <2>0
  <2>2. command.connection \in Connections
    BY <1>4 DEF Commands
  <2>3. /\ r \in Resources /\ Occupied(set, r) /\ EntrySound(e)
    BY <1>11, <2>2, OwnedFields
  <2>4. r = ResourceAt(set, r.index) /\ r.index \in Indices
    BY <1>2, <2>3, OccupiedFields
  <2> HIDE DEF r, e, command
  <2>5. e.transport \in BOOLEAN /\ SlotSound(e.slot, e.transport)
    BY <2>3, EntryFields DEF EntrySound
  <2>6. SlotLeaves(e.slot, e.transport, s)
    BY <2>5, ControlLeaves
  <2>7. EntryLeaves(e, m) /\ m.transport = e.transport /\ m.queued = e.queued
    BY <2>3, <2>6, MovedLeaves
  <2>8. Occupied(taken, r) /\ EntryAt(taken, r) = e
    BY <1>6, <2>3 DEF Occupied, Live, EntryAt, e
  <2>9. /\ SetSound(set') /\ Carries(taken, set') /\ Untouched(taken, set')
        /\ set'.owner = taken.owner /\ OnlyRow(taken, set', r.index)
        /\ Extends(taken.ready, set'.ready)
    BY <1>7, <2>1, <2>3, <2>7, <2>8, EnqueuePut
  <2>10. Carries(set, set')
    BY <1>7, <2>9, CarriesOn
  <2>11. InOrder
    <3>1. set'.ready \in Seq(Resources) /\ NoRepeats(set'.ready)
      BY <2>9, SoundQueue
    <3> QED
      BY <1>6, <2>9, <3>1, ExtendsOrder, OrderKept
  <2>12. set'[lane] = q
    BY <1>6, <2>9 DEF Untouched
  <2>13. Fenced
    <3>1. SUFFICES ASSUME NEW i \in Indices, set'.table[i] # set.table[i]
                   PROVE  /\ set'[lane] # set[lane] /\ set[lane] # <<>>
                          /\ Head(set[lane]).connection.resource = ResourceAt(set, i)
      BY DEF Fenced
    <3>2. i = r.index
      BY <1>6, <2>9, <3>1 DEF OnlyRow
    <3> QED
      BY <1>1, <1>4, <2>4, <2>12, <3>2 DEF r, command
  <2> QED
    BY <1>2, <1>6, <1>9, <2>9, <2>10, <2>11, <2>13 DEF SetIInv
<1> QED
  BY <1>10, <1>11

LEMMA CommandsDoneKeeps ==
  ASSUME SetIInv, CommandsDone
  PROVE  SetIInv' /\ InOrder /\ Fenced /\ Carries(set, set')
<1> DEFINE more == set.control \o set.regular # <<>>
<1>1. /\ turn.pc = "Commands" /\ woken' = woken /\ issued' = issued
      /\ set' = [set EXCEPT !.morePending = more]
      /\ turn' = [turn EXCEPT !.pc = "Ingest", !.budget = 0]
  BY DEF CommandsDone
<1>2. /\ SetSound(set) /\ set \in Sets /\ set.ready \in Seq(Resources) /\ NoRepeats(set.ready)
      /\ turn \in Turns /\ set.owner = "Running"
  BY <1>1, Invariant, TurnFields
<1>3. more \in BOOLEAN /\ (set.control # <<>> \/ set.regular # <<>> => more)
  <2>1. set.control \in Seq(Commands) /\ set.regular \in Seq(Commands)
    BY <1>2, SetFields
  <2>2. Len(set.control \o set.regular) = Len(set.control) + Len(set.regular)
        /\ Len(set.control) \in Nat /\ Len(set.regular) \in Nat
    BY <2>1
  <2>3. set.control # <<>> => Len(set.control) > 0
    BY <2>1
  <2>4. set.regular # <<>> => Len(set.regular) > 0
    BY <2>1
  <2>5. Len(<<>>) = 0
    OBVIOUS
  <2> QED
    BY <2>2, <2>3, <2>4, <2>5
<1> HIDE DEF more
<1>4. /\ set' \in Sets /\ set'.table = set.table /\ set'.ready = set.ready
      /\ set'.owner = set.owner /\ set'.registered = set.registered
      /\ set'.control = set.control /\ set'.regular = set.regular /\ set'.morePending = more
  BY <1>1, <1>2, <1>3 DEF Sets
<1>5. SetSound(set') /\ Carries(set, set')
  BY <1>2, <1>4, RestChanged
<1>6. turn' \in Turns /\ turn'.pc = "Ingest"
  BY <1>1, <1>2 DEF Turns
<1>7. TurnSound'
  BY <1>1, <1>2, <1>3, <1>4, <1>6 DEF SetIInv, TurnSound, CommandsSeen
<1>8. InOrder
  BY <1>2, <1>4, OrderSelf, OrderKept
<1> QED
  BY <1>4, <1>5, <1>7, <1>8 DEF SetIInv, Fenced

LEMMA IngestKeeps ==
  ASSUME SetIInv, NEW r, IngestEvent(r)
  PROVE  SetIInv' /\ InOrder /\ Fenced /\ Carries(set, set')
<1> DEFINE taken == [set EXCEPT !.events = @ \ {r}]
           e == EntryAt(set, r)
<1>1. /\ turn.pc = "Ingest" /\ r \in set.events
      /\ turn' = turn /\ woken' = woken /\ issued' = issued
  BY DEF IngestEvent
<1>2. /\ SetSound(set) /\ set \in Sets /\ set.ready \in Seq(Resources) /\ NoRepeats(set.ready)
      /\ set.owner = "Running" /\ CommandsSeen(set)
  BY <1>1, Invariant, TurnFields DEF SetIInv, TurnSound
<1>3. r \in Resources
  BY <1>1, <1>2, SetFields
<1>4. /\ taken \in Sets /\ taken.table = set.table /\ taken.ready = set.ready
      /\ taken.owner = set.owner /\ taken.registered = set.registered
      /\ taken.control = set.control /\ taken.regular = set.regular
      /\ taken.morePending = set.morePending
  BY <1>2 DEF Sets
<1>5. \/ set' = taken
      \/ /\ Occupied(set, r)
         /\ \E s \in {e.slot, Latched(e.slot)} : \E m \in Moved(e, s) :
              set' = Enqueue(Put(taken, r, m), r)
  BY DEF IngestEvent
<1> HIDE DEF taken
<1>6. SetSound(taken) /\ Carries(set, taken)
  BY <1>2, <1>4, RestChanged
<1>7. /\ set'.owner = "Running" /\ set'.control = set.control /\ set'.regular = set.regular
      /\ set'.morePending = set.morePending
      => TurnSound'
  BY <1>1, <1>2 DEF SetIInv, TurnSound, CommandsSeen
<1>8. CASE set' = taken
  <2>1. InOrder
    BY <1>2, <1>4, <1>8, OrderSelf, OrderKept
  <2> QED
    BY <1>1, <1>2, <1>4, <1>6, <1>7, <1>8, <2>1 DEF SetIInv, Fenced
<1>9. CASE /\ Occupied(set, r)
           /\ \E s \in {e.slot, Latched(e.slot)} : \E m \in Moved(e, s) :
                set' = Enqueue(Put(taken, r, m), r)
  <2>1. PICK s \in {e.slot, Latched(e.slot)} :
          \E m \in Moved(e, s) : set' = Enqueue(Put(taken, r, m), r)
    BY <1>9
  <2>2. PICK m \in Moved(e, s) : set' = Enqueue(Put(taken, r, m), r)
    BY <2>1
  <2>3. EntrySound(e) /\ Occupied(taken, r) /\ EntryAt(taken, r) = e
    BY <1>2, <1>3, <1>4, <1>9, OccupiedFields DEF Occupied, Live, EntryAt
  <2> HIDE DEF e
  <2>4. e.transport \in BOOLEAN /\ SlotSound(e.slot, e.transport)
    BY <2>3, EntryFields DEF EntrySound
  <2>5. SlotLeaves(e.slot, e.transport, s)
    BY <2>4, LatchedLeaves DEF SlotLeaves
  <2>6. EntryLeaves(e, m) /\ m.transport = e.transport /\ m.queued = e.queued
    BY <2>3, <2>5, MovedLeaves
  <2>7. /\ SetSound(set') /\ Carries(taken, set') /\ Untouched(taken, set')
        /\ set'.owner = taken.owner /\ Extends(taken.ready, set'.ready)
    BY <1>3, <1>6, <2>2, <2>3, <2>6, EnqueuePut
  <2>8. Carries(set, set')
    BY <1>6, <2>7, CarriesOn
  <2>9. InOrder
    <3>1. set'.ready \in Seq(Resources) /\ NoRepeats(set'.ready)
      BY <2>7, SoundQueue
    <3> QED
      BY <1>4, <2>7, <3>1, ExtendsOrder, OrderKept
  <2> QED
    BY <1>1, <1>2, <1>4, <1>7, <2>7, <2>8, <2>9 DEF SetIInv, Fenced, Untouched
<1> QED
  BY <1>5, <1>8, <1>9

LEMMA RepollKeeps ==
  ASSUME SetIInv, NEW events, NEW saturated \in BOOLEAN, Repoll(events, saturated)
  PROVE  SetIInv' /\ InOrder /\ Fenced /\ Carries(set, set')
<1>1. /\ turn.pc = "Ingest" /\ events \subseteq set.registered
      /\ set' = [set EXCEPT !.events = events, !.saturated = saturated]
      /\ turn' = [turn EXCEPT !.polled = TRUE] /\ woken' = woken /\ issued' = issued
  BY DEF Repoll
<1>2. /\ SetSound(set) /\ set \in Sets /\ set.ready \in Seq(Resources) /\ NoRepeats(set.ready)
      /\ turn \in Turns /\ set.owner = "Running" /\ CommandsSeen(set)
  BY <1>1, Invariant, TurnFields DEF SetIInv, TurnSound
<1>3. /\ set' \in Sets /\ set'.table = set.table /\ set'.ready = set.ready
      /\ set'.owner = set.owner /\ set'.registered = set.registered
      /\ set'.control = set.control /\ set'.regular = set.regular
      /\ set'.morePending = set.morePending
  <2>1. events \subseteq Resources
    BY <1>1, <1>2, SetFields
  <2> QED
    BY <1>1, <1>2, <2>1 DEF Sets
<1>4. SetSound(set') /\ Carries(set, set')
  BY <1>2, <1>3, RestChanged
<1>5. turn' \in Turns /\ turn'.pc = "Ingest"
  BY <1>1, <1>2 DEF Turns
<1>6. TurnSound'
  BY <1>1, <1>2, <1>3, <1>5 DEF SetIInv, TurnSound, CommandsSeen
<1>7. InOrder
  BY <1>2, <1>3, OrderSelf, OrderKept
<1> QED
  BY <1>1, <1>4, <1>6, <1>7 DEF SetIInv, Fenced

LEMMA IdleTyped == Idle \in Turns /\ Idle.pc = "Idle"
  BY DEF Idle, Turns

LEMMA RepollFailsKeeps ==
  ASSUME SetIInv, RepollFails
  PROVE  SetIInv' /\ InOrder /\ Fenced /\ Carries(set, set')
<1>1. /\ turn.pc = "Ingest" /\ set' = LatchSelectorFailure(set)
      /\ turn' = Idle /\ woken' = woken /\ issued' = issued
  BY DEF RepollFails
<1>2. SetSound(set') /\ Carries(set, set') /\ Order(set.ready, set'.ready) /\ set'.owner # "Running"
  BY <1>1, FailOrder
<1>3. TurnSound'
  BY <1>1, <1>2, IdleTyped DEF SetIInv, TurnSound
<1> QED
  BY <1>1, <1>2, <1>3, OrderKept DEF SetIInv, Fenced

LEMMA CandidatesKeep ==
  ASSUME SetIInv, EnqueueCandidates
  PROVE  SetIInv' /\ InOrder /\ Fenced /\ Carries(set, set')
<1>1. /\ turn.pc = "Ingest" /\ set' = WithCandidates(set)
      /\ turn' = [turn EXCEPT !.pc = "Drive", !.budget = ReadyPerTurn]
      /\ woken' = woken /\ issued' = issued
  BY DEF EnqueueCandidates
<1>2. /\ SetSound(set) /\ set \in Sets /\ turn \in Turns /\ set.owner = "Running"
      /\ CommandsSeen(set)
  BY <1>1, Invariant, TurnFields DEF SetIInv, TurnSound
<1>3. /\ SetSound(set') /\ Carries(set, set') /\ Untouched(set, set') /\ set'.owner = set.owner
      /\ Extends(set.ready, set'.ready) /\ AllQueued(set')
  BY <1>1, <1>2, CandidatesSound
<1>4. turn' \in Turns /\ turn'.pc = "Drive"
  BY <1>1, <1>2, SetAssumption DEF Turns
<1>5. TurnSound'
  BY <1>1, <1>2, <1>3, <1>4 DEF SetIInv, TurnSound, CommandsSeen, Untouched
<1>6. InOrder
  <2>1. set'.ready \in Seq(Resources) /\ NoRepeats(set'.ready)
    BY <1>3, SoundQueue
  <2> QED
    BY <1>3, <2>1, ExtendsOrder, OrderKept
<1> QED
  BY <1>1, <1>3, <1>5, <1>6 DEF SetIInv, Fenced

LEMMA EndTurnKeeps ==
  ASSUME SetIInv, EndTurn
  PROVE  SetIInv' /\ InOrder /\ Fenced /\ Carries(set, set')
<1>1. /\ turn.pc = "Drive" /\ set' = set /\ turn' = Idle /\ issued' = issued
      /\ woken' = (woken \/ NextIsNow(set))
  BY DEF EndTurn
<1>2. /\ set.ready \in Seq(Resources) /\ NoRepeats(set.ready) /\ AllQueued(set)
      /\ CommandsSeen(set) /\ woken \in BOOLEAN
  BY <1>1, Invariant DEF SetIInv, TurnSound
<1>3. woken' \in BOOLEAN /\ (~woken' => ~woken /\ ~set.morePending /\ set.ready = <<>>)
  BY <1>1, <1>2 DEF NextIsNow
<1>4. TurnSound'
  BY <1>1, <1>2, <1>3, IdleTyped DEF SetIInv, TurnSound, CommandsSeen
<1>5. InOrder
  BY <1>1, <1>2, OrderSelf, OrderKept
<1> QED
  BY <1>1, <1>4, <1>5, CarriesSelf DEF SetIInv, Fenced
\* A connection taken from the head of the queue: the others move forward.
LEMMA TailOrder ==
  ASSUME NEW queue \in Seq(Resources), queue # <<>>, NoRepeats(queue),
         NEW after \in Seq(Resources), NoRepeats(after), Extends(Tail(queue), after),
         NEW k \in DOMAIN queue, k # 1, NEW j \in DOMAIN after, after[j] = queue[k]
  PROVE  j <= k
<1>1. /\ k \in 1..Len(queue) /\ Len(queue) \in Nat /\ k - 1 \in 1..(Len(queue) - 1)
  OBVIOUS
<1>2. k - 1 \in DOMAIN Tail(queue) /\ Tail(queue)[k - 1] = queue[k]
  BY <1>1
<1>3. k - 1 \in DOMAIN after /\ after[k - 1] = queue[k]
  BY <1>2 DEF Extends
<1>4. j = k - 1
  BY <1>3 DEF NoRepeats
<1> QED
  BY <1>1, <1>4

\* The head of the queue and what is left of it.
LEMMA HeadFields ==
  ASSUME NEW st, SetSound(st), st.ready # <<>>
  PROVE  /\ Head(st.ready) \in Resources /\ Occupied(st, Head(st.ready))
         /\ Tail(st.ready) \in Seq(Resources) /\ NoRepeats(Tail(st.ready))
         /\ \A j \in DOMAIN Tail(st.ready) :
              \E k \in DOMAIN st.ready :
                Tail(st.ready)[j] = st.ready[k] /\ st.ready[k].index # Head(st.ready).index
         /\ \A k \in DOMAIN st.ready : st.ready[k].index # Head(st.ready).index =>
              \E j \in DOMAIN Tail(st.ready) : Tail(st.ready)[j] = st.ready[k]
<1> DEFINE queue == st.ready
           n == Len(queue)
<1>1. /\ st \in Sets /\ QueueSound(st.table, queue) /\ queue \in Seq(Resources) /\ NoRepeats(queue)
  BY SoundQueue DEF SetSound
<1>2. /\ n \in Nat /\ n >= 1 /\ DOMAIN queue = 1..n /\ Head(queue) = queue[1]
      /\ Tail(queue) \in Seq(Resources) /\ DOMAIN Tail(queue) = 1..(n - 1)
      /\ \A j \in 1..(n - 1) : Tail(queue)[j] = queue[j + 1]
  BY <1>1
<1>3. \A k \in DOMAIN queue : /\ queue[k] \in Resources /\ Occupied(st, queue[k])
                              /\ queue[k] = ResourceAt(st, queue[k].index)
  BY <1>1, QueueMembers
<1> HIDE DEF n, queue
<1>4. \A k \in 1..n : k # 1 => queue[k].index # queue[1].index
  <2>1. SUFFICES ASSUME NEW k \in 1..n, k # 1, queue[k].index = queue[1].index PROVE FALSE
    OBVIOUS
  <2>2. 1 \in DOMAIN queue /\ k \in DOMAIN queue
    BY <1>2
  <2>3. queue[k] = queue[1]
    BY <1>3, <2>1, <2>2
  <2> QED
    BY <1>1, <2>1, <2>2, <2>3 DEF NoRepeats
<1>5. \A j \in 1..(n - 1) : j + 1 \in 1..n /\ j + 1 # 1
  BY <1>2
<1>6. \A k \in 1..n : k # 1 => k - 1 \in 1..(n - 1) /\ (k - 1) + 1 = k
  BY <1>2
<1>7. NoRepeats(Tail(queue))
  <2>1. SUFFICES ASSUME NEW j \in 1..(n - 1), NEW k \in 1..(n - 1),
                        Tail(queue)[j] = Tail(queue)[k]
                 PROVE  j = k
    BY <1>2 DEF NoRepeats
  <2>2. queue[j + 1] = queue[k + 1] /\ j + 1 \in DOMAIN queue /\ k + 1 \in DOMAIN queue
    BY <1>2, <1>5, <2>1
  <2>3. j + 1 = k + 1
    BY <1>1, <2>2 DEF NoRepeats
  <2> QED
    BY <1>2, <2>3
<1>8. ASSUME NEW j \in DOMAIN Tail(queue)
      PROVE  \E k \in DOMAIN queue :
               Tail(queue)[j] = queue[k] /\ queue[k].index # Head(queue).index
  <2>1. j + 1 \in 1..n /\ j + 1 # 1 /\ Tail(queue)[j] = queue[j + 1]
    BY <1>2, <1>5
  <2> QED
    BY <1>2, <1>4, <2>1
<1>9. ASSUME NEW k \in DOMAIN queue, queue[k].index # Head(queue).index
      PROVE  \E j \in DOMAIN Tail(queue) : Tail(queue)[j] = queue[k]
  <2>1. k \in 1..n /\ k # 1
    BY <1>2, <1>9
  <2>2. k - 1 \in 1..(n - 1) /\ (k - 1) + 1 = k
    BY <1>6, <2>1
  <2>3. Tail(queue)[k - 1] = queue[k]
    BY <1>2, <2>2
  <2> QED
    BY <1>2, <2>2, <2>3
<1>10. 1 \in DOMAIN queue
  BY <1>2
<1> QED
  BY <1>2, <1>3, <1>7, <1>8, <1>9, <1>10 DEF queue

\* The connection at the head was driven: nothing that works is left behind
\* with an interest the selector was not told of.
LEMMA DrivenSound ==
  ASSUME NEW st, SetSound(st), st.ready # <<>>, NEW r, r = Head(st.ready),
         NEW nt \in Sets, Untouched(st, nt), OnlyRow(st, nt, r.index), nt.owner = st.owner,
         nt.table[r.index].generation = st.table[r.index].generation,
         nt.ready = Tail(st.ready), NEW m, nt.table[r.index].entry = m,
         EntryLeaves(EntryAt(st, r), m), m.queued = FALSE, Works(m.slot) => m.synced,
         m.transport => nt.registered = st.registered,
         ~m.transport => nt.registered = st.registered \ {r}
  PROVE  SetSound(nt) /\ Carries(st, nt)
<1>1. /\ r \in Resources /\ Occupied(st, r) /\ NoRepeats(nt.ready)
      /\ \A j \in DOMAIN nt.ready :
           \E k \in DOMAIN st.ready : nt.ready[j] = st.ready[k] /\ st.ready[k].index # r.index
      /\ \A k \in DOMAIN st.ready : st.ready[k].index # r.index =>
           \E j \in DOMAIN nt.ready : nt.ready[j] = st.ready[k]
  BY HeadFields
<1>2. st \in Sets /\ QueueSound(st.table, st.ready) /\ r.index \in Indices
      /\ EntryAt(st, r) \in Entries
  BY <1>1, OccupiedFields
<1>3. ~(Live(nt, r.index) /\ nt.table[r.index].entry.queued)
  OBVIOUS
<1>4. QueueSound(nt.table, nt.ready)
  BY <1>1, <1>2, <1>3, QueueLeft
<1>5. st.owner # "Running" => nt.control = <<>> /\ nt.regular = <<>>
  BY DEF SetSound, FenceSound, Untouched
<1>6. \/ m.transport = EntryAt(st, r).transport /\ nt.registered = st.registered
      \/ ~m.transport /\ nt.registered = st.registered \ {r}
  <2>1. EntryAt(st, r).transport \in BOOLEAN /\ m.transport \in BOOLEAN
    BY <1>2, EntryFields DEF EntryLeaves, EntrySound
  <2> QED
    BY <2>1 DEF EntryLeaves
<1> QED
  BY <1>1, <1>4, <1>5, <1>6, EntryChanged
LEMMA TailInOrder ==
  ASSUME SetIInv, turn.pc = "Drive", set.ready # <<>>, SetSound(set'),
         Extends(Tail(set.ready), set'.ready) \/ set'.ready = <<>>
  PROVE  InOrder
<1>1. /\ set.ready \in Seq(Resources) /\ NoRepeats(set.ready)
      /\ set'.ready \in Seq(Resources) /\ NoRepeats(set'.ready)
  BY Invariant, SoundQueue
<1>2. SUFFICES ASSUME NEW k \in DOMAIN set.ready, k # 1,
                      NEW j \in DOMAIN set'.ready, set'.ready[j] = set.ready[k]
               PROVE  j <= k
  BY DEF InOrder
<1>3. CASE Extends(Tail(set.ready), set'.ready)
  BY <1>1, <1>2, <1>3, TailOrder
<1>4. CASE set'.ready = <<>>
  BY <1>2, <1>4
<1> QED
  BY <1>3, <1>4

\* An error ends the turn and wakes the host.
LEMMA DriveFails ==
  ASSUME SetIInv, turn.pc = "Drive", set.ready # <<>>, turn' = Idle, issued' = issued,
         woken' = (woken \/ turn'.pc = "Idle"),
         NEW st, SetSound(st), Carries(set, st), st.ready = Tail(set.ready),
         set' = st \/ set' = LatchSelectorFailure(st)
  PROVE  SetIInv' /\ InOrder /\ Fenced /\ Carries(set, set')
<1>1. SetSound(set') /\ Carries(set, set') /\ (set'.ready = st.ready \/ set'.ready = <<>>)
  <2>1. CASE set' = st
    BY <2>1
  <2>2. CASE set' = LatchSelectorFailure(st)
    <3>1. SetSound(set') /\ Carries(st, set') /\ (set'.ready = <<>> \/ set' = st)
      BY <2>2, LatchSound
    <3> QED
      BY <3>1, CarriesOn
  <2> QED
    BY <2>1, <2>2
<1>2. Extends(st.ready, st.ready)
  BY DEF Extends
<1>3. InOrder
  BY <1>1, <1>2, TailInOrder
<1>4. woken' = TRUE
  BY IdleTyped
<1>5. TurnSound'
  BY <1>4, IdleTyped DEF SetIInv, TurnSound
<1> QED
  BY <1>1, <1>3, <1>5 DEF SetIInv, Fenced

LEMMA DriveKeeps ==
  ASSUME SetIInv, NEW saturated \in BOOLEAN, DriveReady(saturated)
  PROVE  SetIInv' /\ InOrder /\ Fenced /\ Carries(set, set')
<1> DEFINE r == Head(set.ready)
           popped == [set EXCEPT !.ready = Tail(@)]
           e == EntryAt(set, r)
<1>1. /\ turn.pc = "Drive" /\ turn.budget > 0 /\ set.ready # <<>> /\ issued' = issued
      /\ woken' = (woken \/ turn'.pc = "Idle")
  BY DEF DriveReady
<1>2. /\ SetSound(set) /\ set \in Sets /\ turn \in Turns /\ turn.budget \in Nat
      /\ set.owner = "Running" /\ AllQueued(set) /\ CommandsSeen(set) /\ woken \in BOOLEAN
  BY <1>1, Invariant, TurnFields DEF SetIInv, TurnSound
<1>3. r \in Resources /\ Occupied(set, r) /\ Tail(set.ready) \in Seq(Resources)
  BY <1>1, <1>2, HeadFields
<1>4. /\ EntrySound(e) /\ r.index \in Indices /\ e = set.table[r.index].entry
      /\ set.table[r.index].generation \in 1..MaxGeneration
  BY <1>2, <1>3, OccupiedFields
<1>5. /\ popped \in Sets /\ popped.table = set.table /\ popped.ready = Tail(set.ready)
      /\ popped.owner = set.owner /\ popped.registered = set.registered
      /\ Untouched(set, popped)
  BY <1>2, <1>3 DEF Sets, Untouched
<1>6. PICK driven \in Driven(e) : \E result \in SettleEntry(driven) :
        LET settled == WithSettled(popped, r, result)
        IN  IF result.error # "None"
            THEN /\ set' = IF result.error = "Mio"
                           THEN LatchSelectorFailure(settled) ELSE settled
                 /\ EndedBy(result.error)
            ELSE \E synced \in SyncInterest(result.entry) :
                   LET after == Put(settled, r, synced.entry)
                   IN  /\ set' = IF synced.error = "Mio" THEN LatchSelectorFailure(after)
                                 ELSE IF Requeue(synced.entry, saturated)
                                 THEN Enqueue(after, r) ELSE after
                       /\ EndedBy(synced.error)
  BY <1>3 DEF DriveReady
<1>7. PICK result \in SettleEntry(driven) :
        LET settled == WithSettled(popped, r, result)
        IN  IF result.error # "None"
            THEN /\ set' = IF result.error = "Mio"
                           THEN LatchSelectorFailure(settled) ELSE settled
                 /\ EndedBy(result.error)
            ELSE \E synced \in SyncInterest(result.entry) :
                   LET after == Put(settled, r, synced.entry)
                   IN  /\ set' = IF synced.error = "Mio" THEN LatchSelectorFailure(after)
                                 ELSE IF Requeue(synced.entry, saturated)
                                 THEN Enqueue(after, r) ELSE after
                       /\ EndedBy(synced.error)
  BY <1>6
<1> DEFINE settled == WithSettled(popped, r, result)
<1>8. /\ result.error # "None" =>
           /\ set' = settled \/ set' = LatchSelectorFailure(settled)
           /\ EndedBy(result.error)
      /\ result.error = "None" =>
           \E synced \in SyncInterest(result.entry) :
             LET after == Put(settled, r, synced.entry)
             IN  /\ set' = IF synced.error = "Mio" THEN LatchSelectorFailure(after)
                           ELSE IF Requeue(synced.entry, saturated)
                           THEN Enqueue(after, r) ELSE after
                 /\ EndedBy(synced.error)
  BY <1>7
<1> HIDE DEF popped, r, e
<1>9. EntryLeaves(e, driven) /\ driven.queued = FALSE
  BY <1>4, DrivenLeaves
<1> DEFINE x == result.entry
<1>10. /\ EntryLeaves(e, x) /\ x.queued = FALSE /\ EntrySound(x) /\ x \in Entries
       /\ result.error # "None" => ~Works(x.slot)
       /\ result.error = "None" => ~Releasable(x.slot)
  BY <1>9, SettleLeaves DEF EntryLeaves, EntrySound
<1>11. /\ settled \in Sets /\ Untouched(popped, settled) /\ OnlyRow(popped, settled, r.index)
       /\ settled.table[r.index].generation = set.table[r.index].generation
       /\ settled.table[r.index].entry = x
       /\ settled.ready = popped.ready /\ settled.owner = set.owner
       /\ x.transport => settled.registered = set.registered
       /\ ~x.transport => settled.registered = set.registered \ {r}
  BY <1>4, <1>5, <1>10, SettledFields
<1> HIDE DEF settled
<1>12. Untouched(set, settled) /\ OnlyRow(set, settled, r.index) /\ settled.ready = Tail(set.ready)
  BY <1>5, <1>11 DEF Untouched, OnlyRow
<1>13. CASE result.error # "None"
  <2>1. SetSound(settled) /\ Carries(set, settled)
    BY <1>1, <1>2, <1>10, <1>11, <1>12, <1>13, DrivenSound DEF r, e
  <2>2. turn' = Idle
    BY <1>8, <1>13 DEF EndedBy
  <2> QED
    BY <1>1, <1>8, <1>12, <1>13, <2>1, <2>2, DriveFails
<1>14. CASE result.error = "None"
  <2>1. PICK synced \in SyncInterest(x) :
          /\ set' = IF synced.error = "Mio" THEN LatchSelectorFailure(Put(settled, r, synced.entry))
                    ELSE IF Requeue(synced.entry, saturated)
                    THEN Enqueue(Put(settled, r, synced.entry), r)
                    ELSE Put(settled, r, synced.entry)
          /\ EndedBy(synced.error)
    BY <1>8, <1>14
  <2> DEFINE m == synced.entry
             after == Put(settled, r, m)
  <2>2. /\ EntryLeaves(x, m) /\ m.transport = x.transport /\ m.queued = x.queued
        /\ synced.error \in {"None", "Mio"}
        /\ synced.error = "Mio" => ~Works(m.slot)
        /\ synced.error = "None" => m.synced
    BY <1>10, SyncLeaves
  <2>3. EntryLeaves(e, m) /\ m.queued = FALSE /\ m \in Entries /\ EntrySound(m) /\ (Works(m.slot) => m.synced)
    BY <1>10, <2>2 DEF EntryLeaves, EntrySound
  <2> HIDE DEF x, m
  <2>4. /\ after \in Sets /\ Untouched(settled, after) /\ OnlyRow(settled, after, r.index)
        /\ after.table[r.index].generation = settled.table[r.index].generation
        /\ after.table[r.index].entry = m
        /\ after.ready = settled.ready /\ after.owner = settled.owner
        /\ after.registered = settled.registered
    BY <1>4, <1>11, <2>3, PutFields
  <2>5. /\ \/ synced.error = "Mio" /\ set' = LatchSelectorFailure(after)
           \/ synced.error # "Mio" /\ Requeue(m, saturated) /\ set' = Enqueue(after, r)
           \/ synced.error # "Mio" /\ ~Requeue(m, saturated) /\ set' = after
        /\ EndedBy(synced.error)
    BY <2>1 DEF m
  <2> HIDE DEF after
  <2>6. /\ Untouched(set, after) /\ OnlyRow(set, after, r.index) /\ after.ready = Tail(set.ready)
        /\ after.owner = set.owner
        /\ after.table[r.index].generation = set.table[r.index].generation
        /\ m.transport => after.registered = set.registered
        /\ ~m.transport => after.registered = set.registered \ {r}
    BY <1>11, <1>12, <2>2, <2>4 DEF Untouched, OnlyRow
  <2>7. SetSound(after) /\ Carries(set, after)
    BY <1>1, <1>2, <2>3, <2>4, <2>6, DrivenSound DEF r, e
  <2>8. CASE synced.error = "Mio"
    <3>1. turn' = Idle
      BY <2>5, <2>8 DEF EndedBy
    <3> QED
      BY <1>1, <2>5, <2>6, <2>7, <2>8, <3>1, DriveFails
  <2>9. CASE synced.error = "None"
    <3>1. turn' = [turn EXCEPT !.budget = @ - 1]
      BY <2>5, <2>9 DEF EndedBy
    <3>2. turn.budget - 1 \in Nat
      BY <1>1, <1>2
    <3>3. turn' \in Turns /\ turn'.pc = "Drive"
      BY <1>1, <1>2, <3>1, <3>2 DEF Turns
    <3>4. \/ Requeue(m, saturated) /\ set' = Enqueue(after, r)
          \/ ~Requeue(m, saturated) /\ set' = after
      BY <2>5, <2>9
    <3>5. Requeue(m, saturated) \/ ~(Works(m.slot) /\ (m.runnable \/ Releasable(m.slot)))
      BY <2>3 DEF Requeue, EntrySound, SlotSound, Releasable
    <3>6. Occupied(after, r)
      BY <1>3, <2>3, <2>4, <2>6, NoEntryIsNone DEF Occupied, Live
    <3>7. /\ SetSound(set') /\ Carries(after, set') /\ Untouched(after, set')
          /\ set'.owner = after.owner /\ OnlyRow(after, set', r.index)
          /\ Extends(after.ready, set'.ready)
          /\ Requeue(m, saturated) => set'.table[r.index].entry.queued
      <4>1. CASE Requeue(m, saturated)
        BY <1>3, <2>7, <3>4, <3>6, <4>1, EnqueueSound DEF EntryAt
      <4>2. CASE ~Requeue(m, saturated)
        BY <2>7, <3>4, <4>2, CarriesSelf DEF Untouched, OnlyRow, Extends
      <4> QED
        BY <4>1, <4>2
    <3>8. Carries(set, set')
      BY <2>7, <3>7, CarriesOn
    <3>9. OnlyRow(set, set', r.index) /\ Untouched(set, set')
      BY <2>6, <3>7 DEF OnlyRow, Untouched
    <3>10. AllQueued(set')
      <4>1. ~Requeue(m, saturated) => set'.table[r.index].entry = m
        BY <2>4, <3>4
      <4>2. Live(set', r.index) =>
              LET y == set'.table[r.index].entry
              IN  Works(y.slot) /\ (y.runnable \/ Releasable(y.slot)) => y.queued
        BY <3>5, <3>7, <4>1
      <4> QED
        BY <1>2, <3>9, <4>2, AllQueuedAt
    <3>11. InOrder
      BY <1>1, <2>6, <3>7, TailInOrder
    <3>12. woken' = woken
      BY <1>1, <1>2, <3>3
    <3>13. TurnSound'
      BY <1>1, <1>2, <2>6, <3>3, <3>7, <3>9, <3>10, <3>12
      DEF SetIInv, TurnSound, CommandsSeen, Untouched
    <3> QED
      BY <1>1, <3>7, <3>8, <3>11, <3>13 DEF SetIInv, Fenced
  <2> QED
    BY <2>2, <2>8, <2>9
<1> QED
  BY <1>13, <1>14
(***************************************************************************)
(* Every step, and what follows for every behaviour.                       *)
(***************************************************************************)
LEMMA TurnStepKeeps ==
  ASSUME SetIInv, TurnStep
  PROVE  SetIInv' /\ InOrder /\ Fenced /\ Carries(set, set')
<1>1. CASE \E lane \in {"control", "regular"} : ApplyCommand(lane)
  BY <1>1, ApplyCommandKeeps
<1>2. CASE CommandsDone
  BY <1>2, CommandsDoneKeeps
<1>3. CASE \E r \in set.events : IngestEvent(r)
  BY <1>3, IngestKeeps
<1>4. CASE \E events \in SUBSET set.registered, saturated \in BOOLEAN : Repoll(events, saturated)
  BY <1>4, RepollKeeps
<1>5. CASE RepollFails
  BY <1>5, RepollFailsKeeps
<1>6. CASE EnqueueCandidates
  BY <1>6, CandidatesKeep
<1>7. CASE \E saturated \in BOOLEAN : DriveReady(saturated)
  BY <1>7, DriveKeeps
<1>8. CASE EndTurn
  BY <1>8, EndTurnKeeps
<1> QED
  BY <1>1, <1>2, <1>3, <1>4, <1>5, <1>6, <1>7, <1>8 DEF TurnStep

LEMMA StutterKeeps ==
  ASSUME SetIInv, UNCHANGED vars
  PROVE  SetIInv' /\ InOrder /\ Fenced /\ Carries(set, set')
<1>1. set' = set /\ turn' = turn /\ woken' = woken /\ issued' = issued
  BY DEF vars
<1>2. set.ready \in Seq(Resources) /\ NoRepeats(set.ready)
  BY Invariant
<1>3. InOrder
  BY <1>1, <1>2, OrderSelf, OrderKept
<1>4. TurnSound'
  BY <1>1 DEF SetIInv, TurnSound, CommandsSeen
<1> QED
  BY <1>1, <1>3, <1>4, CarriesSelf DEF SetIInv, Fenced

LEMMA SetStep ==
  ASSUME SetIInv, [Next]_vars
  PROVE  SetIInv' /\ InOrder /\ Fenced
<1>0. issued \subseteq Connections
  BY Invariant
<1>1. CASE TurnStep
  BY <1>1, TurnStepKeeps
<1>2. CASE BeginTurn
  BY <1>2, BeginTurnKeeps
<1>3. CASE Application
  <2>1. CASE \E i \in Indices : ConnectAbandoned(i)
    BY <2>1, ConnectAbandonedKeeps
  <2>2. CASE \E i \in Indices, identity \in Identities : Connect(i, identity)
    BY <2>2, ConnectKeeps
  <2>3. CASE \E c \in issued, kind \in CommandKinds \cup {"Commit"} : Control(c, kind)
    BY <1>0, <2>3, ControlKeeps
  <2>4. CASE \E c \in issued : DrainPublications(c)
    BY <1>0, <2>4, DrainKeeps
  <2>5. CASE \E c \in issued : Retire(c)
    BY <1>0, <2>5, RetireKeeps
  <2>6. CASE \E c \in issued : Recover(c)
    BY <1>0, <2>6, RecoverKeeps
  <2>7. CASE DropSet
    BY <2>7, DropKeeps
  <2> QED
    BY <1>3, <2>1, <2>2, <2>3, <2>4, <2>5, <2>6, <2>7 DEF Application
<1>4. CASE Environment
  <2>1. CASE \E c \in issued, kind \in CommandKinds : Send(c, kind)
    BY <1>0, <2>1, SendKeeps
  <2>2. CASE \E events \in SUBSET set.registered, saturated \in BOOLEAN : Poll(events, saturated)
    BY <2>2, PollKeeps
  <2>3. CASE PollFails
    BY <2>3, PollFailsKeeps
  <2>4. CASE \E i \in Indices : DeadlinePasses(i)
    BY <2>4, DeadlineKeeps
  <2> QED
    BY <1>4, <2>1, <2>2, <2>3, <2>4 DEF Environment
<1>5. CASE UNCHANGED vars
  BY <1>5, StutterKeeps
<1> QED
  BY <1>1, <1>2, <1>3, <1>4, <1>5 DEF Next

\* The inductive invariant of the set.
LEMMA SetAlways == Spec => []SetIInv
<1>1. SetIInv /\ [Next]_vars => SetIInv'
  BY SetStep
<1> QED
  BY <1>1, SetInit, PTL DEF Spec

\* The type invariant of the set, with the ready queue within the capacity it was
\* allocated with.
THEOREM SetTypeCorrect == Spec => []TypeOK
  BY SetAlways, SetTyped, PTL

\* However settlements, retirements, recoveries and failures interleave with
\* enqueueing, the ready queue is exactly the live connections marked as queued,
\* each once.
THEOREM SetKeepsReadyExact == Spec => []ReadyExact
  BY SetAlways, SetReadyExact, PTL

\* Whichever step of connecting, settling or recovering fails, a running set has
\* registered exactly the transports its entries own.
THEOREM SetKeepsRegistrationExact == Spec => []RegistrationExact
  BY SetAlways, SetRegistrationExact, PTL

\* Wherever the selector or a connection fails, nothing goes on running on the
\* failed selector and every failed connection asks for its transport.
THEOREM SetFencesFailures == Spec => []FailureFencesAll
  BY SetAlways, SetFailureFences, PTL

\* The host never sleeps on work, on a releasable transport, on an interest the
\* selector was not told of, or on a command.
THEOREM SetSleepsSafely == Spec => []SleepsSafely
  BY SetAlways, SetSleeps, PTL

\* A command changes only the generation its port was made for.
THEOREM SetFencesCommands == Spec => CommandsFenced
<1>1. SetIInv /\ [Next]_vars => [Fenced]_vars
  BY SetStep
<1> QED
  BY <1>1, SetAlways, PTL DEF Spec, CommandsFenced, Fenced

\* A connection that waits in the ready queue only moves forward.
THEOREM SetLetsNoneOvertake == Spec => NoOvertaking
<1>1. SetIInv /\ [Next]_vars => [InOrder]_vars
  BY SetStep
<1> QED
  BY <1>1, SetAlways, PTL DEF Spec, NoOvertaking, InOrder
(***************************************************************************)
(* The standalone connection.                                              *)
(***************************************************************************)
Reports == [consumed : BOOLEAN, empty : BOOLEAN, diverged : BOOLEAN]

\* The one connection of the set is the one of the token, and the registrations
\* follow its transport also once the selector failed.
SoleKept ==
  /\ Owned(set, sole)
  /\ LiveIndices(set) = {sole.resource.index}
  /\ set.registered = Transports(set.table)

StandaloneIInv ==
  /\ SetIInv
  /\ sole \in Connections
  /\ report \in Reports
  /\ ~report.empty
  /\ report.consumed <=> set.owner = "Dropped"
  /\ report.consumed => turn.pc = "Idle" /\ (set.registered # {} => report.diverged)
  /\ Held => SoleKept
  /\ Held /\ next = "Stop" => ~SoleEntry.transport

LEMMA StandaloneImplies == StandaloneIInv => StandaloneInv
<1> SUFFICES ASSUME StandaloneIInv PROVE StandaloneInv
  OBVIOUS
<1>1. SetIInv
  BY DEF StandaloneIInv
<1>2. TypeOK /\ ReadyExact /\ RegistrationExact /\ FailureFencesAll /\ SleepsSafely
  BY <1>1, SetTyped, SetReadyExact, SetRegistrationExact, SetFailureFences, SetSleeps
<1>3. NeverEmptyReport /\ LeftoversReported
  BY DEF StandaloneIInv, SoleKept, NeverEmptyReport, LeftoversReported
<1>4. StopMeansReleased
  <2>1. SUFFICES ASSUME next = "Stop", Held
                 PROVE  /\ ~SoleEntry.transport
                        /\ set.registered = {}
                        /\ SoleEntry.slot.close = "None" \/ ~Works(SoleEntry.slot)
    BY DEF StopMeansReleased
  <2>2. /\ ~SoleEntry.transport /\ Owned(set, sole) /\ sole \in Connections
        /\ LiveIndices(set) = {sole.resource.index} /\ set.registered = Transports(set.table)
    BY <2>1 DEF StandaloneIInv, SoleKept
  <2>3. EntrySound(SoleEntry) /\ SoleEntry = set.table[sole.resource.index].entry
    BY <1>1, <2>2, OwnedFields DEF SoleEntry, EntryAt
  <2>4. Transports(set.table) = {}
    BY <2>2, <2>3 DEF Transports, LiveIndices, Live
  <2>5. SoleEntry.slot.close = "None" \/ ~Works(SoleEntry.slot)
    BY <2>2, <2>3 DEF EntrySound, SlotSound
  <2> QED
    BY <2>2, <2>4, <2>5
<1> QED
  BY <1>2, <1>3, <1>4 DEF StandaloneInv

LEMMA StandaloneStarts == StandaloneInit => StandaloneIInv
<1> SUFFICES ASSUME StandaloneInit PROVE StandaloneIInv
  OBVIOUS
<1>1. PICK i \in Indices, identity \in Identities :
        LET r == [index |-> i, generation |-> 1]
        IN  /\ sole = [resource |-> r, identity |-> identity]
            /\ set = Enqueue([Put(NewSet, r, NewEntry(identity)) EXCEPT !.registered = {r}], r)
            /\ turn = Idle /\ woken = TRUE /\ issued = {sole} /\ next = "Turn" /\ report = NoReport
  BY DEF StandaloneInit
<1> DEFINE r == [index |-> i, generation |-> 1]
           pt == Put(NewSet, r, NewEntry(identity))
<1>2. NewSet = [NewSet EXCEPT !.owner = "Running"]
  <2>1. NewSet.owner = "Running"
    BY DEF NewSet
  <2>2. NewSet = [f \in DOMAIN NewSet |-> NewSet[f]]
    BY DEF NewSet
  <2> QED
    BY <2>1, <2>2
<1>3. /\ SetSound(NewSet) /\ NewSet.owner = "Running"
      /\ \A j \in Indices : ~Live(NewSet, j) /\ NewSet.table[j].generation = 1
  BY <1>2, EmptySound
<1>4. NewSet \in Sets /\ NewSet.registered = {} /\ r = ResourceAt(NewSet, i)
      /\ r.index = i /\ r.generation = 1
  BY <1>3 DEF SetSound, NewSet, ResourceAt
<1>5. NewEntry(identity) \in Entries
  BY NewEntrySound DEF EntrySound
<1> HIDE DEF r
<1>6. 1 \in 1..MaxGeneration /\ 1 <= MaxGeneration
  BY SetAssumption
<1>7. pt \in Sets /\ pt.registered = {}
  BY <1>3, <1>4, <1>5, <1>6, PutFields
<1> DEFINE q == [pt EXCEPT !.registered = @ \cup {r}]
<1>8. [pt EXCEPT !.registered = {r}] = q
  <2> HIDE DEF pt
  <2>1. pt.registered \cup {r} = {r}
    BY <1>7
  <2> QED
    BY <1>7, <2>1 DEF Sets
<1>9. set = Enqueue(q, r)
  BY <1>1, <1>8 DEF r
<1>10. /\ r \in Resources /\ SetSound(set)
       /\ OnlyRow(NewSet, set, i) /\ Live(set, i) /\ set.owner = "Running"
       /\ set.table[i].generation = 1
       /\ set.table[i].entry.identity = identity
  BY <1>3, <1>4, <1>6, <1>9, ConnectAt
<1> HIDE DEF q, pt
<1>11. /\ sole = [resource |-> r, identity |-> identity] /\ turn = Idle /\ woken = TRUE
       /\ issued = {sole} /\ next = "Turn" /\ report = NoReport
  BY <1>1 DEF r
<1>12. sole \in Connections /\ sole.resource = r /\ sole.identity = identity
  BY <1>10, <1>11 DEF Connections
<1>13. Owned(set, sole)
  BY <1>4, <1>10, <1>12 DEF Owned, Occupied, EntryAt
<1>14. LiveIndices(set) = {sole.resource.index}
  BY <1>3, <1>4, <1>10, <1>12 DEF LiveIndices, OnlyRow, Live
<1>15. set.registered = Transports(set.table)
  BY <1>10 DEF SetSound, FenceSound
<1>16. TurnSound
  BY <1>11, <1>12, IdleTyped DEF TurnSound
<1>17. report \in Reports /\ ~report.empty /\ ~report.consumed
  BY <1>11 DEF NoReport, Reports
<1> QED
  BY <1>10, <1>11, <1>12, <1>13, <1>14, <1>15, <1>16, <1>17
  DEF StandaloneIInv, SetIInv, SoleKept, Held

\* A step of the set that keeps its connections keeps the one of the wrapper.
LEMMA SoleCarried ==
  ASSUME StandaloneIInv, Held, SetIInv', Carries(set, set'), sole' = sole, report' = report,
         next' = next \/ (next' = "Stop" => ~SoleEntry'.transport)
  PROVE  StandaloneIInv'
<1> DEFINE i == sole.resource.index
<1>1. /\ sole \in Connections /\ SoleKept /\ SetIInv /\ report \in Reports /\ ~report.empty
      /\ ~report.consumed /\ set.owner # "Dropped"
  BY DEF StandaloneIInv, Held
<1>2. /\ i \in Indices /\ Live(set, i) /\ sole.resource.generation = set.table[i].generation
      /\ set.table[i].entry.identity = sole.identity
  BY <1>1, OwnedFields DEF SoleKept, Owned, Occupied, EntryAt
<1>3. /\ Live(set', i) /\ set'.table[i].generation = set.table[i].generation
      /\ set'.table[i].entry.identity = sole.identity
      /\ set'.table[i].entry.transport => set.table[i].entry.transport
      /\ LiveIndices(set') = LiveIndices(set) /\ set'.owner # "Dropped"
      /\ set'.registered = Transports(set'.table)
  BY <1>1, <1>2 DEF Carries, LiveIndices, SoleKept
<1>4. SoleKept'
  BY <1>1, <1>2, <1>3 DEF SoleKept, Owned, Occupied, EntryAt
<1>5. Held' /\ next' = "Stop" => ~SoleEntry'.transport
  <2>1. CASE next' = next
    BY <1>3, <2>1 DEF StandaloneIInv, SoleEntry, EntryAt
  <2>2. CASE next' = "Stop" => ~SoleEntry'.transport
    BY <2>2
  <2> QED
    BY <2>1, <2>2
<1> QED
  BY <1>1, <1>3, <1>4, <1>5 DEF StandaloneIInv

LEMMA StandaloneTurnStepKeeps ==
  ASSUME StandaloneIInv, StandaloneTurnStep
  PROVE  StandaloneIInv'
<1>1. /\ TurnStep /\ sole' = sole /\ report' = report
      /\ next' = IF turn'.pc # "Idle" THEN next
                 ELSE IF ~Works(EntryAt(set', sole.resource).slot) THEN "Error"
                 ELSE IF Stops(EntryAt(set', sole.resource)) THEN "Stop" ELSE "Turn"
  BY DEF StandaloneTurnStep
<1>2. turn.pc # "Idle"
  BY <1>1 DEF TurnStep, ApplyCommand, CommandsDone, IngestEvent, Repoll, RepollFails,
              EnqueueCandidates, DriveReady, EndTurn
<1>3. SetIInv /\ Held
  BY <1>2 DEF StandaloneIInv, Held
<1>4. SetIInv' /\ Carries(set, set')
  BY <1>1, <1>3, TurnStepKeeps
<1>5. SoleEntry' = EntryAt(set', sole.resource)
  BY <1>1 DEF SoleEntry, EntryAt
<1>6. next' = next \/ (next' = "Stop" => ~SoleEntry'.transport)
  <2>1. SUFFICES ASSUME next' = "Stop", next' # next PROVE ~SoleEntry'.transport
    OBVIOUS
  <2>2. Stops(SoleEntry')
    BY <1>1, <1>5, <2>1
  <2>3. sole \in Connections /\ Owned(set, sole)
    BY <1>3 DEF StandaloneIInv, SoleKept
  <2>4. sole.resource.index \in Indices /\ Live(set, sole.resource.index)
    BY <1>3, <2>3, OwnedFields DEF Occupied
  <2>5. sole.resource.index \in LiveIndices(set')
    BY <1>4, <2>4 DEF Carries, LiveIndices
  <2>6. EntrySound(SoleEntry')
    BY <1>4, <1>5, <2>5 DEF SetIInv, SetSound, EntryAt
  <2> QED
    BY <2>2, <2>6 DEF Stops, EntrySound, SlotSound
<1> QED
  BY <1>1, <1>3, <1>4, <1>6, SoleCarried

LEMMA StandaloneRecoverKeeps ==
  ASSUME StandaloneIInv, StandaloneRecover
  PROVE  StandaloneIInv'
<1> DEFINE r == sole.resource
<1>1. /\ Held /\ turn.pc = "Idle" /\ turn' = turn /\ woken' = woken /\ issued' = issued
      /\ sole' = sole /\ next' = next
  BY DEF StandaloneRecover
<1>2. /\ SetIInv /\ sole \in Connections /\ Owned(set, sole) /\ LiveIndices(set) = {r.index}
      /\ set.registered = Transports(set.table)
  BY <1>1 DEF StandaloneIInv, SoleKept
<1>3. /\ r \in Resources /\ Occupied(set, r) /\ SetSound(set) /\ set \in Sets
      /\ QueueSound(set.table, set.ready) /\ r = ResourceAt(set, r.index) /\ r.index \in Indices
  BY <1>2, OwnedFields, OccupiedFields DEF SetIInv
<1>4. PICK cleanup, pressure :
        /\ report' = RecoveryReport(cleanup, pressure)
        /\ LET cleaned == [set EXCEPT !.owner = "Dropped", !.control = <<>>, !.regular = <<>>,
                          !.registered = IF cleanup = "Ok" THEN @ \ {sole.resource} ELSE @]
           IN  set' = Evict(Unqueue(cleaned, sole.resource), sole.resource)
  BY <1>3 DEF StandaloneRecover
<1> DEFINE left == IF cleanup = "Ok" THEN set.registered \ {r} ELSE set.registered
           mt == [set EXCEPT !.owner = "Dropped", !.control = <<>>, !.regular = <<>>,
                             !.registered = left]
           ut == Unqueue(mt, r)
<1>5. set' = Evict(ut, r)
  BY <1>3, <1>4 DEF Sets
<1>6. /\ left \subseteq Resources /\ (cleanup = "Ok" => left = {})
  <2>1. \A x \in Transports(set.table) : x = r
    BY <1>2, <1>3 DEF Transports, LiveIndices, Live, ResourceAt
  <2> QED
    BY <1>2, <1>3, <2>1, SetFields
<1> HIDE DEF left, r
<1>7. /\ mt \in Sets /\ mt.table = set.table /\ mt.ready = set.ready /\ mt.owner = "Dropped"
      /\ mt.control = <<>> /\ mt.regular = <<>> /\ mt.registered = left
  <2>1. <<>> \in Seq(Commands)
    OBVIOUS
  <2> QED
    BY <1>3, <1>6, <2>1 DEF Sets
<1> HIDE DEF mt
<1>8. /\ ut \in Sets /\ Untouched(mt, ut) /\ ut.table = mt.table /\ ut.owner = mt.owner
      /\ ut.registered = mt.registered /\ ut.ready = Retained(mt.ready, r)
  BY <1>3, <1>7, UnqueueFields DEF QueueSound
<1> HIDE DEF ut
<1>9. /\ set' \in Sets /\ Untouched(ut, set') /\ OnlyRow(ut, set', r.index) /\ ~Live(set', r.index)
      /\ set'.ready = ut.ready /\ set'.owner = ut.owner /\ set'.registered = ut.registered
  BY <1>3, <1>5, <1>8, EvictFields
<1>10. /\ OnlyRow(set, set', r.index) /\ set'.owner = "Dropped" /\ set'.registered = left
       /\ set'.control = <<>> /\ set'.regular = <<>> /\ set'.ready = Retained(set.ready, r)
  BY <1>7, <1>8, <1>9 DEF OnlyRow, Untouched
<1>11. QueueSound(set'.table, set'.ready)
  BY <1>3, <1>9, <1>10, QueueWithout
<1>12. LiveIndices(set') = {}
  BY <1>2, <1>9, <1>10 DEF LiveIndices, Live, OnlyRow
<1>13. SetSound(set')
  BY <1>9, <1>10, <1>11, <1>12 DEF SetSound, FenceSound
<1>14. TurnSound'
  BY <1>1, <1>2, <1>10 DEF SetIInv, TurnSound
<1>15. /\ report' \in Reports /\ report'.consumed /\ ~report'.empty
       /\ cleanup # "Ok" => report'.diverged
  BY <1>4 DEF RecoveryReport, Reports
<1>16. set'.registered # {} => report'.diverged
  BY <1>6, <1>10, <1>15
<1> QED
  BY <1>1, <1>2, <1>10, <1>13, <1>14, <1>15, <1>16 DEF StandaloneIInv, SetIInv, Held

LEMMA StandaloneStep ==
  ASSUME StandaloneIInv, [StandaloneNext]_standaloneVars
  PROVE  StandaloneIInv'
<1>0. SetIInv /\ sole \in Connections /\ (set.owner # "Dropped" => Held)
  BY DEF StandaloneIInv, Held
<1>1. CASE \E kind \in CommandKinds \cup {"Commit"} : StandaloneCall(kind)
  <2>1. PICK kind : StandaloneCall(kind)
    BY <1>1
  <2>2. Held /\ Control(sole, kind) /\ sole' = sole /\ next' = next /\ report' = report
    BY <2>1 DEF StandaloneCall
  <2> QED
    BY <1>0, <2>2, ControlKeeps, SoleCarried
<1>2. CASE \E kind \in CommandKinds : StandaloneSend(kind)
  <2>1. PICK kind \in CommandKinds : StandaloneSend(kind)
    BY <1>2
  <2>2. Send(sole, kind) /\ sole' = sole /\ next' = next /\ report' = report
        /\ set.owner = "Running"
    BY <2>1 DEF StandaloneSend, Send
  <2> QED
    BY <1>0, <2>2, SendKeeps, SoleCarried
<1>3. CASE \E events \in SUBSET set.registered, saturated \in BOOLEAN :
             StandalonePoll(events, saturated)
  <2>1. PICK events \in SUBSET set.registered, saturated \in BOOLEAN : StandalonePoll(events, saturated)
    BY <1>3
  <2>2. Held /\ Poll(events, saturated) /\ sole' = sole /\ next' = next /\ report' = report
    BY <2>1 DEF StandalonePoll
  <2> QED
    BY <1>0, <2>2, PollKeeps, SoleCarried
<1>4. CASE StandaloneDrain
  <2>1. Held /\ DrainPublications(sole) /\ sole' = sole /\ next' = next /\ report' = report
    BY <1>4 DEF StandaloneDrain
  <2> QED
    BY <1>0, <2>1, DrainKeeps, SoleCarried
<1>5. CASE StandalonePollFails
  <2>1. Held /\ PollFails /\ sole' = sole /\ next' = next /\ report' = report
    BY <1>5 DEF StandalonePollFails
  <2> QED
    BY <1>0, <2>1, PollFailsKeeps, SoleCarried
<1>6. CASE StandaloneTurns
  <2>1. Held /\ BeginTurn /\ sole' = sole /\ next' = next /\ report' = report
    BY <1>6 DEF StandaloneTurns
  <2> QED
    BY <1>0, <2>1, BeginTurnKeeps, SoleCarried
<1>7. CASE StandaloneTurnStep
  BY <1>7, StandaloneTurnStepKeeps
<1>8. CASE StandaloneDeadline
  <2>1. PICK i \in Indices : Held /\ DeadlinePasses(i) /\ sole' = sole /\ next' = next /\ report' = report
    BY <1>8 DEF StandaloneDeadline
  <2> QED
    BY <1>0, <2>1, DeadlineKeeps, SoleCarried
<1>9. CASE StandaloneRecover
  BY <1>9, StandaloneRecoverKeeps
<1>10. CASE UNCHANGED standaloneVars
  <2>1. /\ set' = set /\ turn' = turn /\ woken' = woken /\ issued' = issued
        /\ sole' = sole /\ next' = next /\ report' = report
    BY <1>10 DEF standaloneVars, vars
  <2>2. SetIInv'
    BY <1>0, <2>1, StutterKeeps DEF vars
  <2> QED
    BY <2>1, <2>2 DEF StandaloneIInv, SoleKept, Held, SoleEntry
<1> QED
  BY <1>1, <1>2, <1>3, <1>4, <1>5, <1>6, <1>7, <1>8, <1>9, <1>10 DEF StandaloneNext

\* The standalone connection keeps what the set below it keeps, never loses the
\* entry of its token, asks its host to stop only once the transport is released
\* and not registered, and reports every registration the selector would not give
\* up: for every configuration, and whatever fails.
THEOREM StandaloneKeepsItsPromises == StandaloneSpec => []StandaloneInv
<1>1. StandaloneIInv /\ [StandaloneNext]_standaloneVars => StandaloneIInv'
  BY StandaloneStep
<1>2. StandaloneSpec => []StandaloneIInv
  BY <1>1, StandaloneStarts, PTL DEF StandaloneSpec
<1> QED
  BY <1>2, StandaloneImplies, PTL
=============================================================================
