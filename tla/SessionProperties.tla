-------------------------- MODULE SessionProperties --------------------------
(***************************************************************************)
(* What the two sessions have to keep true, alone and together.            *)
(***************************************************************************)
EXTENDS SessionPair

Sessions == {client, server}

\* Every variable keeps the shape the sessions give it.
TypeOK ==
  /\ \A s \in Sessions : SessionTypeOK(s)
  /\ Len(toServer) <= MaxWire /\ Len(toClient) <= MaxWire
  /\ cut \subseteq {"Client", "Server"}
  /\ clientLog \in [accepted : 0..ClientRecords, read : 0..ServerRecords, clean : BOOLEAN]
  /\ serverLog \in [accepted : 0..ServerRecords, read : 0..ClientRecords, clean : BOOLEAN]

\* An owner is told that the stream ended cleanly only when it has read every
\* record its peer's owner ever had accepted, whatever was cut or corrupted, and
\* it never reads more than that (read_plaintext, finish_input,
\* send_close_notify).
StreamExact ==
  /\ serverLog.read <= clientLog.accepted
  /\ clientLog.read <= serverLog.accepted
  /\ serverLog.clean => serverLog.read = clientLog.accepted
  /\ clientLog.clean => clientLog.read = serverLog.accepted

\* Truncation is reported only when every authenticated record was handed out,
\* and never for a stream that its peer closed ("deferring truncation until
\* authenticated plaintext drains").
TruncationDeferred ==
  \A s \in Sessions : s.failure = "Truncated" => s.tls.plaintext = 0 /\ ~s.tls.closed

\* A session is open only when its own last flight has left rustls (status is_open:
\* "handshake completion and required egress").
OpenAfterEgress ==
  \A s \in Sessions :
    s.opened => ~IsHandshaking(s.tls) /\ "Flight" \notin {s.tls.sendable[i] : i \in DOMAIN s.tls.sendable}

\* As long as a session has not failed, the counters its owner plans with are
\* those of rustls, and an open session whose owner waits for nothing has nothing
\* left to give.
StatusExact ==
  \A s \in Sessions : s.failure = "None" =>
    /\ s.egressBytes = Len(s.tls.sendable)
    /\ s.plaintextBytes = s.tls.plaintext
    /\ (s.peerClosure = "Clean" <=> s.tls.closed)
    /\ ~Status(s).wantsRead /\ ~Status(s).wantsWrite /\ Status(s).plaintext = 0 =>
         s.peerClosure # "Open"

\* What the sessions and their owners may rely on at every moment.
SessionInv ==
  /\ TypeOK
  /\ StreamExact
  /\ TruncationDeferred
  /\ OpenAfterEgress
  /\ StatusExact

\* Both owners pump: they drain what is to be sent, ingest what arrived, read what
\* is readable, report the end of a cut stream and drop the input of a session
\* that takes no more.
LiveSpec ==
  /\ Spec
  /\ WF_vars(\E count \in 1..IngressLimit : ClientIngest(count))
  /\ WF_vars(\E count \in 1..IngressLimit : ServerIngest(count))
  /\ WF_vars(\E count \in 1..MaxWire : ClientDrain(count))
  /\ WF_vars(\E count \in 1..MaxWire : ServerDrain(count))
  /\ WF_vars(ClientRead)
  /\ WF_vars(ServerRead)
  /\ WF_vars(ClientFinish)
  /\ WF_vars(ServerFinish)
  /\ WF_vars(Discard)

Failed == \E s \in Sessions : s.failure # "None"

\* Pumping alone opens both sessions or fails one of them.
HandshakeCompletes == <>((client.opened /\ server.opened) \/ Failed)

\* A close_notify reaches the other owner, or something failed on the way.
CloseDelivered ==
  /\ client.closeNotifySent ~> serverLog.clean \/ Failed
  /\ server.closeNotifySent ~> clientLog.clean \/ Failed

\* A session that failed still gets rid of its output: the alert that explains
\* the failure leaves.
AlertLeaves ==
  /\ client.failure # "None" ~> client.tls.sendable = <<>>
  /\ server.failure # "None" ~> server.tls.sendable = <<>>

\* Two owners that pump get through: the handshake ends, a close arrives and the
\* output of a failed session leaves.
SessionProgress == HandshakeCompletes /\ CloseDelivered /\ AlertLeaves

=============================================================================
