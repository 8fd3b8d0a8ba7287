-------------------------- MODULE OperationLifecycle --------------------------
(***************************************************************************)
(* What one connection epoch promises the application that commits         *)
(* operations to it (docs/architecture.md, ConnectionCore): an accepted    *)
(* operation is told exactly one end, the end says truthfully whether the  *)
(* peer may have seen the request, and frames go onto the wire whole, one  *)
(* after the other, in the order they were accepted.                       *)
(***************************************************************************)
EXTENDS Naturals, Sequences

CONSTANT Operations

VARIABLES
  order,     \* accepted operations
  status,    \* "Unknown", "Owed" or "Done"
  touched,   \* operations with a byte on the wire
  complete,  \* operations with their whole frame on the wire
  told       \* "Nothing", "NotSent" or "PossiblySent"

lifecycleVars == <<order, status, touched, complete, told>>

Init ==
  /\ order = <<>>
  /\ status = [operation \in Operations |-> "Unknown"]
  /\ touched = {}
  /\ complete = {}
  /\ told = [operation \in Operations |-> "Nothing"]

Accept(operation) ==
  /\ status[operation] = "Unknown"
  /\ order' = Append(order, operation)
  /\ status' = [status EXCEPT ![operation] = "Owed"]
  /\ UNCHANGED <<touched, complete, told>>

\* The end told is the truth at that moment.
Finish(ended) ==
  /\ \A operation \in ended : status[operation] = "Owed"
  /\ status' = [operation \in Operations |->
                  IF operation \in ended THEN "Done" ELSE status[operation]]
  /\ told' = [operation \in Operations |->
                IF operation \notin ended THEN told[operation]
                ELSE IF operation \in touched' THEN "PossiblySent" ELSE "NotSent"]

\* Cancellation, deadline, reply, closure or recovery ends some operations.
End(ended) ==
  /\ ended # {}
  /\ UNCHANGED <<order, touched, complete>>
  /\ Finish(ended)

\* The operation at this position may use the wire: it was not withdrawn, and
\* every earlier one is either wholly out or was withdrawn unsent.
HasWire(position) ==
  /\ order[position] \notin complete
  /\ told[order[position]] # "NotSent"
  /\ \A earlier \in 1..(position - 1) :
       order[earlier] \in complete \/ told[order[earlier]] = "NotSent"

\* Bytes are taken; the last one may end an operation that expects no reply.
Transmit(position) ==
  LET operation == order[position]
  IN  /\ HasWire(position)
      /\ touched' \in {touched, touched \cup {operation}}
      /\ complete' \in {complete, complete \cup {operation}}
      /\ UNCHANGED order
      /\ \/ UNCHANGED <<status, told>>
         \/ operation \in complete' /\ Finish({operation})

Next ==
  \/ \E operation \in Operations : Accept(operation)
  \/ \E ended \in SUBSET Operations : End(ended)
  \/ \E position \in DOMAIN order : Transmit(position)

Spec == Init /\ [][Next]_lifecycleVars

=============================================================================
