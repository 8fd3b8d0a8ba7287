-------------------------- MODULE TransportContract --------------------------
(***************************************************************************)
(* What a slot may assume of a SlotTransport (transport/port.rs): the six  *)
(* questions it asks of one and what every call may do to the answers.     *)
(* ConnectionSlot is checked against transports of this kind; TcpTransport *)
(* and RustlsTransport are shown to be such transports.                    *)
(***************************************************************************)

VARIABLES
  view,      \* the answers a slot would get now
  shutting,  \* whether begin_shutdown was called
  answer     \* what the last call answered

vars == <<view, shutting, answer>>

\* Local work is asked about only once the transport is open.
Views ==
  [open : {FALSE}, establish : BOOLEAN, work : {FALSE}, read : {FALSE},
   write : {FALSE}, complete : BOOLEAN]
  \cup
  [open : {TRUE}, establish : {FALSE}, work : BOOLEAN, read : BOOLEAN,
   write : BOOLEAN, complete : BOOLEAN]

Failures == {"Failed", "Truncated"}
Ended == answer \in Failures \cup {"Eof"} \/ (shutting /\ view.complete)

Init ==
  /\ view \in {v \in Views : ~v.open /\ ~v.establish}
  /\ shutting = FALSE
  /\ answer = "None"

Moves(after) ==
  /\ view' \in Views
  /\ view.open => view'.open
  /\ answer' \in after
  /\ UNCHANGED shutting

\* An observation only turns answers on.
Observe ==
  /\ Moves({answer})
  /\ \A question \in DOMAIN view : view[question] => view'[question]
  /\ view'.open = view.open
  /\ view'.complete = view.complete

\* Establishment never answers that it did nothing.
Establish ==
  /\ ~Ended /\ view.establish
  /\ Moves({"Progress"} \cup Failures)
  /\ view'.complete = view.complete
  /\ answer' \in Failures => ~view'.open

\* Local work, alone or as part of a shutdown, never answers that it did nothing.
Work ==
  /\ ~Ended /\ view.work
  /\ Moves({"Progress"} \cup Failures)
  /\ (view.complete => view'.complete)
  /\ (~shutting => view'.complete = view.complete)

\* A would-block leaves the question off.
Read ==
  /\ ~Ended /\ ~shutting /\ view.read
  /\ Moves({"Bytes", "WouldBlock", "Eof"} \cup Failures)
  /\ view'.complete = view.complete
  /\ answer' = "WouldBlock" => ~view'.read

Write ==
  /\ ~Ended /\ ~shutting /\ view.write
  /\ Moves({"Bytes", "WouldBlock"} \cup Failures)
  /\ view'.complete = view.complete
  /\ answer' = "WouldBlock" => ~view'.write

BeginShutdown ==
  /\ ~Ended /\ ~shutting /\ view.open
  /\ view' \in Views
  /\ view'.open
  /\ view.complete => view'.complete
  /\ shutting' = TRUE
  /\ answer' \in {"Progress"} \cup Failures

Next == Observe \/ Establish \/ Work \/ Read \/ Write \/ BeginShutdown

Spec == Init /\ [][Next]_vars

=============================================================================
