---------------------------- MODULE TlsProperties ----------------------------
(***************************************************************************)
(* What the TLS adapter has to keep true (bornera-rustls, and the contract *)
(* of transport/port.rs).                                                  *)
(***************************************************************************)
EXTENDS RustlsTransport

\* Every variable keeps the shape the adapter gives it.
TypeOK ==
  /\ SocketTypeOK
  /\ EngineTypeOK(tls)
  /\ link \in [phase : Phases, readiness : SUBSET Flags, preference : Directions,
               plaintextBytes : 0..(MaxPlaintext + RawUnits), eof : Eofs,
               shutdown : {"NotStarted", "Started"}, pendingError : BOOLEAN]
  /\ calling \in {"Idle", "PeerAddr"}
  /\ writes \in 0..MaxWrites
  /\ answer \in Failures \cup {"None", "Progress", "Bytes", "WouldBlock", "Eof", "Idle"}

\* A clean end is reported only after the server's close_notify and everything it
\* sent before it; an end without one is reported as a truncation and as nothing
\* else, and only when no authenticated byte is left to read (transport/port.rs on
\* "an unauthenticated raw EOF").
EndTruthful ==
  /\ answer = "Eof" => peer.closed /\ tls.closed /\ tls.plaintext = 0
  /\ answer = "Truncated" =>
       socket.fin /\ socket.input = <<>> /\ ~tls.closed /\ tls.plaintext = 0
  /\ tls.eof /\ Ended /\ ~socket.reset /\ ~Started(link) /\ ~link.pendingError =>
       answer = "Truncated"

\* The transport is open only when both sides have every flight of the handshake:
\* the last one has left rustls for the socket (drive_establishment).
OpenAfterHandshake ==
  IsOpen(link) => ~IsHandshaking(tls) /\ peer.heard = 2 /\ peer.sent = peer.flights

\* A completed shutdown has handed everything accepted and the close_notify to
\* the socket.
ShutdownMeansSent ==
  IsShutdownComplete(link, tls) /\ answer \notin Failures =>
    peer.bye /\ tls.sendable = <<>> /\ ~link.pendingError

\* What the slot asks the adapter, and what it registers.
Runnable ==
  \/ CanEstablish(link, tls)
  \/ IsOpen(link) /\ HasTransportWork(link, tls)
  \/ CanRead(link)
  \/ writes > 0 /\ CanWrite(link, tls)

\* An adapter with nothing to run and no edge on its way waits for the server
\* only: it holds back neither a record it could write, nor input it could take,
\* nor a broken socket.
NoLostEdge ==
  /\ ~Ended /\ calling = "Idle"
  /\ interest = DesiredInterest(link, tls, writes > 0)
  /\ ~Runnable /\ armed = {}
  => /\ ~Broken
     /\ WantsWrite(tls) \/ (IsOpen(link) /\ writes > 0) => socket.room = 0
     /\ ~WantsWrite(tls) => socket.input = <<>> /\ ~socket.fin

\* What the adapter keeps at every moment: it tells the truth about the end, opens
\* and completes only what was really sent, and misses nothing it has to do.
TlsInv ==
  /\ TypeOK
  /\ EndTruthful
  /\ OpenAfterHandshake
  /\ ShutdownMeansSent
  /\ NoLostEdge

\* What the slot sees of the adapter is a transport that keeps the contract of
\* transport/port.rs: a call made because there was work never answers that it
\* did nothing, and a completed shutdown stays complete.
View ==
  [open |-> IsOpen(link), establish |-> CanEstablish(link, tls),
   work |-> IsOpen(link) /\ HasTransportWork(link, tls),
   read |-> CanRead(link), write |-> CanWrite(link, tls),
   complete |-> IsShutdownComplete(link, tls)]

Contract == INSTANCE TransportContract WITH view <- View, shutting <- Started(link)
KeepsTransportContract == Contract!Spec

\* Weak fairness of what the host drives (the set polls, registers interest and
\* drives a slot that has work; the slot rotates between its kinds of work), and
\* of a server that acknowledges and, whatever else it sends, goes on with the
\* handshake.
LiveSpec ==
  /\ Spec
  /\ WF_vars(Establish)
  /\ WF_vars(DriveTls)
  /\ WF_vars(Read)
  /\ WF_vars(\E count \in 1..WriteRecords : Write(count))
  /\ WF_vars(ShutdownWork)
  /\ WF_vars(SyncInterest)
  /\ WF_vars(\E readiness \in Polled : Poll(readiness))
  /\ SF_vars(PeerFlight)
  /\ WF_vars(PeerReads /\ UNCHANGED adapterVars)

\* Once the kernel knows how the connect ended, the adapter opens or fails.
HandshakeResolves == socket.connect # "Pending" ~> IsOpen(link) \/ Ended

\* A server that closed or reset its side is noticed, however much there is to
\* write.
CloseNoticed == socket.fin \/ socket.reset ~> Ended

\* A slot that holds all the writes it may hold gets rid of one, however much
\* there is to read; only a server that never stops updating keys can keep the
\* output at its bound with the answers it makes the adapter give.
WritesFlow ==
  <>[]("KeyUpdate" \notin Range(socket.input)) =>
    (IsOpen(link) /\ writes = MaxWrites ~> writes < MaxWrites \/ Ended)

\* A shutdown that started completes or fails.
ShutdownEnds == Started(link) ~> Ended

\* Output above the configured bound, found after a write was already accepted,
\* ends the transport although the write itself could not report it.
PendingErrorSurfaces == Len(tls.sendable) > MaxEgress ~> Ended

\* The adapter gets on in every phase: the handshake ends, a close is noticed,
\* writes leave, a shutdown ends and a deferred error surfaces.
TlsProgress ==
  /\ HandshakeResolves
  /\ CloseNoticed
  /\ WritesFlow
  /\ ShutdownEnds
  /\ PendingErrorSurfaces

=============================================================================
