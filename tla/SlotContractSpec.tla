--------------------------- MODULE SlotContractSpec ---------------------------
(***************************************************************************)
(* One abstract slot.  ConnectionSlot implements this specification.       *)
(***************************************************************************)
EXTENDS SlotContract

VARIABLE contract

Init == contract = NewContract

Work == contract' \in AfterCall(contract) \cup AfterFinalize(contract) \cup AfterWork(contract)

\* Settlement observes a completed shutdown first.
Settle ==
  \E s \in {contract} \cup Forced(contract) :
    Releasable(s) /\ contract' \in AfterSettlement(s)

Drain == contract' = Drained(contract)

Next == Work \/ Settle \/ Drain

Spec == Init /\ [][Next]_contract

=============================================================================
