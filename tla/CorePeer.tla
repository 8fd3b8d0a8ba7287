------------------------------- MODULE CorePeer -------------------------------
(***************************************************************************)
(* ConnectionCore composed with the other end of the connection: a peer    *)
(* that answers every complete request that expects a reply, once and in   *)
(* order, with the match key encoded in the request (docs/architecture.md, *)
(* "ordered verified" matching).  The two streams between them keep order  *)
(* and lose nothing while the connection lives.                            *)
(*                                                                         *)
(* The core sees arbitrary cancellations, deadlines, drains and closes in  *)
(* between, so replies meet tombstones and recycled match keys.            *)
(***************************************************************************)
EXTENDS CoreProperties

\* A reply carries the identity of the operation whose request it answers.
ASSUME PeerAssumption == Operations \subseteq Payloads

VARIABLES
  requests,  \* complete requests on their way to the peer: [operation, key]
  replies    \* replies on their way back: [operation, key]

peerVars == <<requests, replies>>
allVars == <<vars, requests, replies>>

PeerInit == Init /\ requests = <<>> /\ replies = <<>>

\* The peer decodes the key the application encoded from its permit.
RequestOf(operation) ==
  [operation |-> operation, key |-> RecordOf(machine, operation).reservation.key]

Expects(operation) == RecordOf(machine, operation).completion = "ReplyExpected"

\* Transport progress on the front frame; its last byte hands it to the peer.
Transmit(n) ==
  /\ AdvanceWrite(n)
  /\ requests' = IF completed' # completed /\ Expects(writes[1].operation)
                 THEN Append(requests, RequestOf(writes[1].operation)) ELSE requests
  /\ UNCHANGED replies

Answer ==
  /\ requests # <<>>
  /\ requests' = Tail(requests)
  /\ replies' = Append(replies, Head(requests))
  /\ UNCHANGED vars

Deliver ==
  /\ replies # <<>>
  /\ ApplyReply(Head(replies).key, Head(replies).operation)
  /\ replies' = Tail(replies)
  /\ UNCHANGED requests

\* Calls of the application and the driver that do not touch the streams.
LocalCall ==
  \/ \E now \in Moments, options \in Options : Reserve(now, options)
  \/ \E permit \in permits : DropPermit(permit)
  \/ \E permit \in permits, frame \in Frames : Commit(permit, frame)
  \/ OpenAdmission
  \/ BeginDrain
  \/ EpochClosed
  \/ \E reason \in RequestedReasons : CloseRequested(reason)
  \/ \E operation \in Operations : Cancel(operation)
  \/ \E operation \in Operations, now \in Moments : DeadlineElapsed(operation, now)

PeerNext ==
  \/ LocalCall /\ UNCHANGED peerVars
  \/ \E n \in 1..MaxReported : Transmit(n)
  \/ Answer
  \/ Deliver

PeerSpec == PeerInit /\ [][PeerNext]_allVars

(***************************************************************************)
(* Properties.                                                             *)
(***************************************************************************)

\* The records that wait for a reply are in front of the others, and are exactly
\* the requests and replies in flight, in the same order: a cancelled operation
\* keeps its place.
InFlightMatchesFifo ==
  LET inFlight == replies \o requests
  IN  /\ {i \in DOMAIN machine.pending : ~machine.pending[i].writeHeld} = DOMAIN inFlight
      /\ \A i \in DOMAIN inFlight :
           /\ machine.pending[i].operation = inFlight[i].operation
           /\ machine.pending[i].reservation.key = inFlight[i].key

\* Whatever is cancelled, expired or recycled meanwhile, a correct peer is never
\* blamed for its replies, and a reply is published to the operation whose
\* request it answers, although its match key may have served others before;
\* while the epoch lives, cancelled operations keep their place in the FIFO.
ReplyReachesItsOperation ==
  /\ machine.closeReason \notin {"UnexpectedReply", "MatchKeyMismatch"}
  /\ \A operation \in Operations : \A i \in DOMAIN published[operation] :
       published[operation][i].kind = "Reply" => published[operation][i].reply = operation
  /\ machine.phase = "Live" => InFlightMatchesFifo

\* A live connection: the transport goes on taking bytes, the peer goes on
\* answering, and the driver goes on reading replies.  Weak fairness of the three
\* actions with their enabling conditions written out, as in TimerFairness.
PeerFairness ==
  /\ ([]<>~WritePending) \/ ([]<><<\E n \in 1..MaxReported : Transmit(n)>>_allVars)
  /\ ([]<>(requests = <<>>)) \/ ([]<><<Answer>>_allVars)
  /\ ([]<>(replies = <<>> \/ ~Healthy)) \/ ([]<><<Deliver>>_allVars)

\* On a live connection every tombstone is collected: the slot, key and timer of
\* a cancelled operation return once its reply has been delivered, without the
\* help of a timer.
TombstonesCollected ==
  PeerFairness =>
    \A operation \in Operations :
      (\E i \in DOMAIN machine.pending :
         machine.pending[i].operation = operation /\ machine.pending[i].phase = "Terminal")
      ~> ~Holds(machine.pending, operation)

=============================================================================
