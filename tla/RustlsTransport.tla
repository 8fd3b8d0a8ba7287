--------------------------- MODULE RustlsTransport ---------------------------
(***************************************************************************)
(* The TLS client adapter (bornera-rustls, transport.rs, establish.rs,     *)
(* tls_io.rs, application.rs and port.rs): a rustls connection (module     *)
(* RustlsEngine) driven over a nonblocking socket (module TcpSocket), one  *)
(* raw read or write per call.  The slot is reduced to the writes it holds *)
(* and its set to the interest it registers.                               *)
(*                                                                         *)
(* The server at the other end answers a flight only after it was written, *)
(* may send application data before it has the client's last flight, and   *)
(* may go away with or without a close_notify.                             *)
(***************************************************************************)
EXTENDS TcpSocket, RustlsEngine

CONSTANTS
  Versions,    \* protocol versions to negotiate: a subset of {12, 13}
  Keepalives,  \* the keepalive policies: BOOLEAN, or one of them
  MaxWrites,   \* writes the slot may hold
  RawUnits,    \* TransportBudget: records one raw read or write moves
  PeerRecords  \* what the server may send besides its flights

ASSUME TlsAssumption ==
  /\ Versions \subseteq {12, 13}
  /\ Keepalives \subseteq BOOLEAN
  /\ MaxWrites \in Nat
  /\ RawUnits \in Nat \ {0}
  /\ PeerRecords \subseteq {"Data", "Ticket", "KeyUpdate", "CloseNotify", "Bad"}

VARIABLES
  link,       \* RustlsTransport without its stream and its rustls connection
  tls,        \* the rustls connection
  keepalive,  \* whether the socket policy asks for keepalive
  calling,    \* "Idle", or "PeerAddr" in the middle of complete_connect
  writes,     \* writes the slot holds
  answer,     \* what the last call answered
  peer        \* the server: flights it sent and got, and the closes of both sides

adapterVars == <<link, tls, keepalive, calling, writes, answer, peer>>
vars == <<socketVars, adapterVars>>

Phases == {"Connecting", "NoDelay", "Keepalive", "Handshaking", "Open"}
Eofs == {"Live", "Clean", "Truncated"}
Failures == {"Failed", "Truncated"}

NewLink ==
  [phase |-> "Connecting", readiness |-> {}, preference |-> "Write", plaintextBytes |-> 0,
   eof |-> "Live", shutdown |-> "NotStarted", pendingError |-> FALSE]

(***************************************************************************)
(* The adapter's own functions.                                            *)
(***************************************************************************)
Observe(l, readiness) == [l EXCEPT !.readiness = @ \cup readiness]

ValidateState(t) == Len(t.sendable) <= MaxEgress /\ t.plaintext <= MaxPlaintext
Refreshes(t) == ~t.failed /\ ValidateState(t)

RefreshState(l, t) ==
  [l EXCEPT !.plaintextBytes = t.plaintext, !.eof = IF t.closed THEN "Clean" ELSE @]

CanConnect(l) == l.readiness \cap ConnectFlags # {}
ClearConnect(l) == [l EXCEPT !.readiness = @ \ ConnectFlags]
CanRawWrite(l) == l.readiness \cap WriteFlags # {}
ClearRawRead(l) == [l EXCEPT !.readiness = @ \ ReadFlags]
ClearRawWrite(l) == [l EXCEPT !.readiness = @ \ WriteFlags]

CanTlsRead(l, t) == l.eof = "Live" /\ WantsRead(t) /\ l.readiness \cap ReadFlags # {}
CanTlsWrite(l, t) == WantsWrite(t) /\ l.readiness \cap WriteFlags # {}

TruncatedDrained(l) == l.eof = "Truncated" /\ l.plaintextBytes = 0

\* Slip: raw readiness counts even when rustls wants no input.
CanTlsProgressRaw(l, t) ==
  \/ TruncatedDrained(l)
  \/ l.pendingError
  \/ l.readiness \cap ReadFlags # {}
  \/ CanTlsWrite(l, t)

CanTlsProgress(l, t) ==
  TruncatedDrained(l) \/ l.pendingError \/ CanTlsRead(l, t) \/ CanTlsWrite(l, t)

CanReadPlaintext(l) == l.plaintextBytes # 0 \/ l.eof = "Clean"
CanAcceptPlaintext(l, t) == ~WantsWrite(t) /\ CanRawWrite(l)

IsOpen(l) == l.phase = "Open"
Started(l) == l.shutdown = "Started"
CanRead(l) == IsOpen(l) /\ CanReadPlaintext(l)
CanWrite(l, t) == IsOpen(l) /\ ~Started(l) /\ CanAcceptPlaintext(l, t)

CanEstablish(l, t) ==
  CASE l.phase = "Connecting" -> CanConnect(l)
    [] l.phase \in {"NoDelay", "Keepalive"} -> TRUE
    [] l.phase = "Handshaking" -> CanTlsProgress(l, t)
    [] OTHER -> FALSE

HasTransportWork(l, t) == IF Started(l) THEN CanTlsWrite(l, t) ELSE CanTlsProgress(l, t)

IsShutdownComplete(l, t) == Started(l) /\ ~WantsWrite(t)

DesiredInterest(l, t, hasWrites) ==
  LET read == ~Started(l) /\ l.eof = "Live" /\ WantsRead(t)
      write == WantsWrite(t) \/ (IsOpen(l) /\ ~Started(l) /\ hasWrites)
  IN  IF l.phase \in {"Connecting", "NoDelay", "Keepalive"} \/ (read /\ write) THEN Directions
      ELSE IF write THEN {"Write"} ELSE {"Read"}

Ended == answer \in Failures \cup {"Eof"} \/ IsShutdownComplete(link, tls)
Idle == calling = "Idle" /\ ~Ended

\* The end of drive_establishment: open once the last flight is out.
Established(l, t) ==
  IF l.phase = "Handshaking" /\ ~IsHandshaking(t) /\ ~WantsWrite(t)
  THEN [l EXCEPT !.phase = "Open"] ELSE l

(***************************************************************************)
(* TCP establishment and socket policy (establish.rs).                     *)
(***************************************************************************)
Establishing(phase) == Idle /\ link.phase = phase /\ CanEstablish(link, tls)

Fails(failure) ==
  /\ answer' = failure
  /\ UNCHANGED <<socketVars, link, tls, keepalive, calling, writes, peer>>

TakeError ==
  /\ Establishing("Connecting")
  /\ IF socket.error THEN Fails("Failed")
     ELSE /\ calling' = "PeerAddr"
          /\ UNCHANGED <<socketVars, link, tls, keepalive, writes, answer, peer>>

\* Connected, or not connected; a socket that broke since the first question may
\* also answer with another error.
PeerAddr ==
  /\ calling = "PeerAddr"
  /\ calling' = "Idle"
  /\ \/ /\ link' = IF socket.connect = "Up" /\ ~socket.reset
                   THEN [link EXCEPT !.phase = "NoDelay", !.readiness = @ \ {"Error"}]
                   ELSE ClearConnect(link)
        /\ answer' = "Progress"
     \/ Broken /\ answer' = "Failed" /\ UNCHANGED link
  /\ UNCHANGED <<socketVars, tls, keepalive, writes, peer>>

Applies(phase) ==
  \/ /\ link' = Established([link EXCEPT !.phase = phase], tls)
     /\ answer' = "Progress"
     /\ UNCHANGED <<socketVars, tls, keepalive, calling, writes, peer>>
  \/ Broken /\ Fails("Failed")

ApplyNoDelay ==
  Establishing("NoDelay") /\ Applies(IF keepalive THEN "Keepalive" ELSE "Handshaking")

ApplyKeepalive == Establishing("Keepalive") /\ Applies("Handshaking")

(***************************************************************************)
(* One raw TLS operation (tls_io.rs), during the handshake or once open.   *)
(***************************************************************************)
Driving ==
  /\ Idle
  /\ \/ link.phase = "Handshaking" /\ CanEstablish(link, tls)
     \/ IsOpen(link) /\ ~Started(link) /\ HasTransportWork(link, tls)

\* A call that returns without touching the socket.
DriveStops ==
  /\ Driving
  /\ \/ link.pendingError
     \/ TruncatedDrained(link)
     \/ ~CanTlsRead(link, tls) /\ ~CanTlsWrite(link, tls)
  /\ Fails(IF link.pendingError THEN "Failed"
           ELSE IF TruncatedDrained(link) THEN "Truncated" ELSE "Idle")

\* Which way drive_tls_once goes.
Goes(direction) ==
  /\ Driving
  /\ ~link.pendingError
  /\ ~TruncatedDrained(link)
  /\ CASE direction = "Read" ->
            CanTlsRead(link, tls) /\ (link.preference = "Read" \/ ~CanTlsWrite(link, tls))
       [] direction = "Write" ->
            CanTlsWrite(link, tls) /\ (link.preference = "Write" \/ ~CanTlsRead(link, tls))

AfterRead(l) == [l EXCEPT !.preference = "Write"]

AfterWrite(l) == [l EXCEPT !.preference = "Read"]

\* A call that moved what it could: the state of rustls decides its answer.
Moved(l, t, s, heard) ==
  /\ answer' = IF Refreshes(t) THEN "Progress" ELSE "Failed"
  /\ link' = IF Refreshes(t) THEN Established(RefreshState(l, t), t) ELSE link
  /\ tls' = t
  /\ socket' = s
  /\ peer' = heard
  /\ UNCHANGED <<interest, armed, keepalive, calling, writes>>

\* What the server learns from the first records written.
Hears(count) ==
  LET records == {tls.sendable[i] : i \in 1..count}
      flights == Cardinality({i \in 1..count : tls.sendable[i] = "Flight"})
  IN  [peer EXCEPT !.heard = @ + flights, !.bye = @ \/ "CloseNotify" \in records]

Blocked(l) ==
  /\ answer' = "Progress"
  /\ link' = Established(l, tls)
  /\ UNCHANGED <<socketVars, tls, keepalive, calling, writes, peer>>

DriveTlsWrite ==
  \/ /\ "Bytes" \in WriteAnswers
     /\ \E count \in 1..RawUnits :
          /\ count <= Len(tls.sendable) /\ count <= socket.room
          /\ Moved(AfterWrite(link), WriteTls(tls, count), Fill(count), Hears(count))
  \/ "WouldBlock" \in WriteAnswers /\ Blocked(ClearRawWrite(link))
  \/ "Failed" \in WriteAnswers /\ Fails("Failed")

DriveWrite == Goes("Write") /\ DriveTlsWrite

ReadBytes(count) ==
  Moved(AfterRead(link), Process(tls, SubSeq(socket.input, 1, count)), Consume(count), peer)

\* Slip: any end of the raw stream is a clean one.
EofSeenClean(l) == [ClearRawRead(l) EXCEPT !.eof = "Clean"]

EofSeen(l) ==
  [ClearRawRead(l) EXCEPT !.eof = IF l.eof = "Clean" THEN "Clean" ELSE "Truncated"]

DriveRead ==
  /\ Goes("Read")
  /\ \/ /\ "Bytes" \in ReadAnswers
        /\ \E count \in 1..RawUnits : count <= Len(socket.input) /\ ReadBytes(count)
     \/ /\ "Eof" \in ReadAnswers
        /\ tls' = ReadEof(tls)
        /\ IF TruncatedDrained(EofSeen(link))
           THEN link' = EofSeen(link) /\ answer' = "Truncated"
           ELSE link' = Established(EofSeen(link), tls) /\ answer' = "Progress"
        /\ UNCHANGED <<socketVars, keepalive, calling, writes, peer>>
     \/ "WouldBlock" \in ReadAnswers /\ Blocked(ClearRawRead(link))
     \/ "Failed" \in ReadAnswers /\ Fails("Failed")

(***************************************************************************)
(* Application bytes (application.rs); the slot clears the readiness of a  *)
(* call that would block.                                                  *)
(***************************************************************************)
Read ==
  LET result == ReaderAnswer(tls)
  IN  /\ Idle /\ CanRead(link) /\ ~Started(link)
      /\ answer' = IF result = "UnexpectedEof" THEN "Failed" ELSE result
      /\ tls' = IF result = "Bytes" THEN ReadPlaintext(tls) ELSE tls
      /\ link' = CASE result = "Bytes" /\ link.plaintextBytes > 0 ->
                        [link EXCEPT !.plaintextBytes = @ - 1]
                   [] result = "WouldBlock" -> ClearRawRead(link)
                   [] OTHER -> link
      /\ UNCHANGED <<socketVars, keepalive, calling, writes, peer>>

\* Slip: a failure after the bytes were taken is forgotten.
RecordPendingErrorNever(l, t) == IF Refreshes(t) THEN RefreshState(l, t) ELSE l

\* The bytes are taken, so a failure has to wait for the next call.
RecordPendingError(l, t) ==
  IF Refreshes(t) THEN RefreshState(l, t) ELSE [l EXCEPT !.pendingError = TRUE]

Write(count) ==
  LET t == Accept(tls, count)
  IN  /\ Idle /\ CanWrite(link, tls) /\ writes > 0
      /\ count <= WriterRoom(tls)
      /\ answer' = "Bytes"
      /\ writes' = writes - 1
      /\ tls' = t
      /\ link' = RecordPendingError(link, t)
      /\ UNCHANGED <<socketVars, keepalive, calling, peer>>

BeginShutdown ==
  LET t == SendCloseNotify(tls)
  IN  /\ Idle /\ IsOpen(link) /\ ~Started(link) /\ writes = 0
      /\ tls' = t
      /\ link' = [IF Refreshes(t) THEN RefreshState(link, t) ELSE link EXCEPT
                    !.shutdown = "Started"]
      /\ answer' = IF Refreshes(t) THEN "Progress" ELSE "Failed"
      /\ UNCHANGED <<socketVars, keepalive, calling, writes, peer>>

ShutdownWork == Idle /\ Started(link) /\ HasTransportWork(link, tls) /\ DriveTlsWrite

(***************************************************************************)
(* The slot and the set around the adapter, and the server.                *)
(***************************************************************************)
SlotHoldsWrite ==
  /\ Idle /\ ~Started(link) /\ writes < MaxWrites
  /\ writes' = writes + 1
  /\ UNCHANGED <<socketVars, link, tls, keepalive, calling, answer, peer>>

SyncInterest ==
  /\ Idle
  /\ interest # DesiredInterest(link, tls, writes > 0)
  /\ Reregister(DesiredInterest(link, tls, writes > 0))
  /\ UNCHANGED adapterVars

Poll(readiness) ==
  /\ Idle /\ armed # {}
  /\ readiness \in Polled
  /\ armed' = {}
  /\ link' = Observe(link, readiness)
  /\ UNCHANGED <<socket, interest, tls, keepalive, calling, writes, answer, peer>>

PeerFlight ==
  /\ peer.sent < peer.heard /\ peer.sent < peer.flights /\ ~peer.closed
  /\ PeerSends("Flight")
  /\ peer' = [peer EXCEPT !.sent = @ + 1]
  /\ UNCHANGED <<link, tls, keepalive, calling, writes, answer>>

PeerRecord(record) ==
  /\ ~peer.closed
  /\ record \in {"Data", "KeyUpdate"} => peer.sent = peer.flights
  /\ PeerSends(record)
  /\ peer' = [peer EXCEPT !.closed = record = "CloseNotify"]
  /\ UNCHANGED <<link, tls, keepalive, calling, writes, answer>>

Kernel ==
  /\ Connects \/ Breaks \/ PeerCloses \/ PeerReads
  /\ UNCHANGED adapterVars

Init ==
  \E version \in Versions :
    /\ tls = NewEngine(ClientScript(version), <<"Flight">>)
    /\ peer = [flights |-> Len(ClientScript(version)), sent |-> 0, heard |-> 0,
               closed |-> FALSE, bye |-> FALSE]
    /\ socket = NewSocket
    /\ link = NewLink
    /\ interest = DesiredInterest(link, tls, FALSE)
    /\ armed = {}
    /\ keepalive \in Keepalives
    /\ calling = "Idle"
    /\ writes = 0
    /\ answer = "None"

Establish == TakeError \/ PeerAddr \/ ApplyNoDelay \/ ApplyKeepalive
DriveTls == DriveStops \/ DriveRead \/ DriveWrite

Next ==
  \/ Establish
  \/ DriveTls
  \/ Read
  \/ \E count \in 1..WriteRecords : Write(count)
  \/ BeginShutdown
  \/ ShutdownWork
  \/ SlotHoldsWrite
  \/ SyncInterest
  \/ \E readiness \in Polled : Poll(readiness)
  \/ PeerFlight
  \/ \E record \in PeerRecords : PeerRecord(record)
  \/ Kernel

Spec == Init /\ [][Next]_vars

=============================================================================
