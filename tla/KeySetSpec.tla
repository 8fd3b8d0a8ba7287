------------------------------ MODULE KeySetSpec ------------------------------
(***************************************************************************)
(* What ReservationLedger expects of its active match keys: a set, and     *)
(* calls that say whether they changed it.                                 *)
(***************************************************************************)
CONSTANT KeyDomain

VARIABLES
  keys,   \* the active keys
  answer  \* the last call and what it returned

Init == keys = {} /\ answer = <<"new">>

Insert(key) ==
  keys' = keys \cup {key} /\ answer' = <<"insert", key, key \notin keys>>

Remove(key) ==
  keys' = keys \ {key} /\ answer' = <<"remove", key, key \in keys>>

Contains(key) ==
  UNCHANGED keys /\ answer' = <<"contains", key, key \in keys>>

Next == \E key \in KeyDomain : Insert(key) \/ Remove(key) \/ Contains(key)

Spec == Init /\ [][Next]_<<keys, answer>>

=============================================================================
