-------------------------------- MODULE KeySet --------------------------------
(***************************************************************************)
(* ActiveKeySet (bornera-core, admission/key_set.rs): an open-addressing   *)
(* table with linear probing.  Removing a key empties its slot and         *)
(* re-inserts every key of the probe run behind it.                        *)
(*                                                                         *)
(* The home slot of a key is key * 0x9e3779b1 mod 2^32 mod capacity.  Here *)
(* it is an arbitrary function chosen once: the table must work for every  *)
(* pattern of collisions, and small keys would show few of them.           *)
(***************************************************************************)
EXTENDS Integers, FiniteSets, FiniteSetsExt

CONSTANTS
  KeyDomain,  \* match keys
  MaxKeys,    \* ActiveKeySet::new(max_keys), the ledger's max_operations
  None        \* an empty slot

ASSUME KeySetAssumption ==
  /\ MaxKeys \in Nat \ {0}
  /\ None \notin KeyDomain

\* new: twice the number of keys, rounded up to a power of two.
Capacity == Min({size \in {2^n : n \in 0..(MaxKeys + 1)} : size >= 2 * MaxKeys})

VARIABLES
  home,   \* the hash, fixed
  slots,  \* the table
  len,    \* the maintained number of keys
  answer  \* the last call and what it returned

vars == <<home, slots, len, answer>>

Indexes == 0..(Capacity - 1)

\* The slot inspected by probe n of a key.
Probe(key, n) == (home[key] + n) % Capacity

\* The probes at which insert and find stop: the key itself or an empty slot.
Stops(table, key) == {n \in Indexes : table[Probe(key, n)] \in {key, None}}

StopSlot(table, key) == Probe(key, Min(Stops(table, key)))

Found(table, key) ==
  Stops(table, key) # {} /\ table[StopSlot(table, key)] = key

CanInsert(table, key) ==
  Stops(table, key) # {} /\ table[StopSlot(table, key)] = None

Insert(key) ==
  /\ answer' = <<"insert", key, CanInsert(slots, key)>>
  /\ slots' = IF CanInsert(slots, key)
              THEN [slots EXCEPT ![StopSlot(slots, key)] = key] ELSE slots
  /\ len' = IF CanInsert(slots, key) THEN len + 1 ELSE len
  /\ UNCHANGED home

\* One turn of remove's loop: take the key under the cursor and insert it again.
\* An empty slot, or a refused insert, ends the loop.
Reinsert(run) ==
  LET displaced == run.table[run.cursor]
      taken == [run.table EXCEPT ![run.cursor] = None]
  IN  IF displaced = None \/ ~run.ok THEN run
      ELSE IF CanInsert(taken, displaced)
      THEN [run EXCEPT !.table = [taken EXCEPT ![StopSlot(taken, displaced)] = displaced],
                       !.cursor = (@ + 1) % Capacity]
      ELSE [run EXCEPT !.table = taken, !.len = @ - 1, !.ok = FALSE]

\* Slip: the slot is emptied and the run behind it is left broken.
CompactNothing(table, index, count) == [table |-> table, len |-> count, ok |-> TRUE]

\* The loop cannot turn more often than there are slots: one stays empty.
Compact(table, index, count) ==
  LET after[n \in 0..Capacity] ==
        IF n = 0
        THEN [table |-> table, cursor |-> (index + 1) % Capacity, len |-> count, ok |-> TRUE]
        ELSE Reinsert(after[n - 1])
  IN  after[Capacity]

Remove(key) ==
  LET index == StopSlot(slots, key)
      run == Compact([slots EXCEPT ![index] = None], index, len - 1)
  IN  /\ IF Found(slots, key)
         THEN slots' = run.table /\ len' = run.len /\ answer' = <<"remove", key, run.ok>>
         ELSE UNCHANGED <<slots, len>> /\ answer' = <<"remove", key, FALSE>>
      /\ UNCHANGED home

Contains(key) ==
  answer' = <<"contains", key, Found(slots, key)>> /\ UNCHANGED <<home, slots, len>>

Init ==
  /\ home \in [KeyDomain -> Indexes]
  /\ slots = [index \in Indexes |-> None]
  /\ len = 0
  /\ answer = <<"new">>

\* The ledger inserts only while operations # max_operations.
Next ==
  \E key \in KeyDomain :
    \/ len < MaxKeys /\ Insert(key)
    \/ Remove(key)
    \/ Contains(key)

Spec == Init /\ [][Next]_vars

(***************************************************************************)
(* Properties.                                                             *)
(***************************************************************************)
Contents == {slots[index] : index \in Indexes} \ {None}

\* The table implements a set whatever keys collide and in whatever order they
\* come and go: every insert, remove and lookup answers as the set would, and no
\* removal hides a key that was pushed past the slot it empties.
Abstract == INSTANCE KeySetSpec WITH keys <- Contents
ImplementsSet == Abstract!Spec

=============================================================================
