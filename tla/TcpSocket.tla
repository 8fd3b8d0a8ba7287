------------------------------ MODULE TcpSocket ------------------------------
(***************************************************************************)
(* External: a nonblocking TCP socket and its registration with an         *)
(* edge-triggered selector (mio), as tcp.rs, tcp_port.rs and bornera-rustls *)
(* use them.  The kernel moves at any moment, also between two calls the   *)
(* adapter makes on the socket; an edge is raised when something new       *)
(* happens and is gone once a poll has reported it.                        *)
(*                                                                         *)
(* What is received is a sequence of units (a read's worth of bytes for    *)
(* TCP, a record for TLS); the send buffer is its free room in such units. *)
(***************************************************************************)
EXTENDS Integers, Sequences, SequencesExt

CONSTANTS
  MaxInput,  \* units that fit the receive buffer
  MaxRoom    \* units that fit the send buffer

ASSUME SocketAssumption == MaxInput \in Nat \ {0} /\ MaxRoom \in Nat \ {0}

VARIABLES
  socket,    \* the kernel's view of the connection
  interest,  \* the interest registered with the selector
  armed      \* the edges no poll has reported yet

socketVars == <<socket, interest, armed>>

\* calandria::Readiness and calandria::Interest.
Flags == {"Readable", "Writable", "ReadClosed", "WriteClosed", "Error"}
Directions == {"Read", "Write"}

ReadFlags == {"Readable", "ReadClosed", "Error"}
WriteFlags == {"Writable", "WriteClosed", "Error"}
ConnectFlags == {"Writable", "Error", "ReadClosed", "WriteClosed"}

NewSocket ==
  [connect |-> "Pending", error |-> FALSE, fin |-> FALSE, reset |-> FALSE,
   input |-> <<>>, room |-> 0]

Broken == socket.connect = "Refused" \/ socket.reset

\* A broken socket reports at least these, whatever the interest.
BrokenFlags == {"ReadClosed", "WriteClosed", "Error"}

Watched(directions) ==
  (IF "Read" \in directions THEN {"Readable", "ReadClosed"} ELSE {})
    \cup (IF "Write" \in directions THEN {"Writable", "WriteClosed"} ELSE {})

Levels ==
  IF Broken THEN BrokenFlags
  ELSE IF socket.connect = "Pending" THEN {}
  ELSE (IF socket.input # <<>> \/ socket.fin THEN {"Readable"} ELSE {})
         \cup (IF socket.fin THEN {"ReadClosed"} ELSE {})
         \cup (IF socket.room > 0 THEN {"Writable"} ELSE {})

Visible(directions) == IF Broken THEN Levels ELSE Levels \cap Watched(directions)

\* What one poll may report: the armed edges (kqueue) or every level (epoll).
Polled ==
  {armed \cap Visible(interest), Visible(interest)}
    \cup (IF Broken THEN {Flags} ELSE {})

Reregister(directions) ==
  /\ interest' = directions
  /\ armed' = Visible(directions)
  /\ UNCHANGED socket

Raise(flags) == armed' = armed \cup (flags \cap Watched(interest))

Connects ==
  /\ socket.connect = "Pending"
  /\ socket' = [socket EXCEPT !.connect = "Up", !.room = MaxRoom]
  /\ Raise({"Writable"})
  /\ UNCHANGED interest

Breaks ==
  /\ \/ /\ socket.connect = "Pending"
        /\ socket' = [socket EXCEPT !.connect = "Refused", !.error = TRUE]
     \/ /\ socket.connect = "Up" /\ ~socket.reset
        /\ socket' = [socket EXCEPT !.reset = TRUE, !.error = TRUE]
  /\ armed' = armed \cup BrokenFlags
  /\ UNCHANGED interest

PeerSends(unit) ==
  /\ socket.connect = "Up" /\ ~socket.fin /\ ~socket.reset
  /\ Len(socket.input) < MaxInput
  /\ socket' = [socket EXCEPT !.input = Append(@, unit)]
  /\ Raise({"Readable"})
  /\ UNCHANGED interest

PeerCloses ==
  /\ socket.connect = "Up" /\ ~socket.fin /\ ~socket.reset
  /\ socket' = [socket EXCEPT !.fin = TRUE]
  /\ Raise({"Readable", "ReadClosed"})
  /\ UNCHANGED interest

\* The peer acknowledges: a full send buffer has room again.
PeerReads ==
  /\ socket.connect = "Up" /\ ~socket.reset
  /\ socket.room < MaxRoom
  /\ socket' = [socket EXCEPT !.room = @ + 1]
  /\ IF socket.room = 0 THEN Raise({"Writable"}) ELSE UNCHANGED armed
  /\ UNCHANGED interest

\* What read(2) and write(2) may answer.
ReadAnswers ==
  IF socket.reset THEN {"Failed"} \cup (IF socket.input # <<>> THEN {"Bytes"} ELSE {})
  ELSE IF socket.input # <<>> THEN {"Bytes"}
  ELSE IF socket.fin THEN {"Eof"} ELSE {"WouldBlock"}

WriteAnswers ==
  IF socket.reset THEN {"Failed"}
  ELSE IF socket.room > 0 THEN {"Bytes"} ELSE {"WouldBlock"}

Consume(count) == [socket EXCEPT !.input = SubSeq(@, count + 1, Len(@))]
Fill(count) == [socket EXCEPT !.room = @ - count]

SocketTypeOK ==
  /\ socket.connect \in {"Pending", "Up", "Refused"}
  /\ {socket.error, socket.fin, socket.reset} \subseteq BOOLEAN
  /\ Len(socket.input) <= MaxInput
  /\ socket.room \in 0..MaxRoom
  /\ interest \subseteq Directions
  /\ armed \subseteq Flags

=============================================================================
