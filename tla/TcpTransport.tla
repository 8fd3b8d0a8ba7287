----------------------------- MODULE TcpTransport -----------------------------
(***************************************************************************)
(* The native TCP adapter (bornera, transport/tcp.rs and tcp_port.rs): the *)
(* nonblocking connect, the socket policy and the readiness it has         *)
(* observed, over the socket of module TcpSocket.  The slot that calls it  *)
(* is reduced to the writes it holds, and its set to the interest it       *)
(* registers; both are modelled in full by ConnectionSlot and              *)
(* ConnectionSet.                                                          *)
(*                                                                         *)
(* complete_connect asks the socket twice, so the kernel can move between  *)
(* the two questions: it is two steps.                                     *)
(***************************************************************************)
EXTENDS TcpSocket

CONSTANTS
  Keepalives,  \* the keepalive policies: BOOLEAN, or one of them
  MaxWrites    \* writes the slot may hold

ASSUME TcpAssumption == Keepalives \subseteq BOOLEAN /\ MaxWrites \in Nat

VARIABLES
  tcp,        \* TcpTransport
  keepalive,  \* whether the socket policy asks for keepalive
  calling,    \* "Idle", or "PeerAddr" in the middle of complete_connect
  applied,    \* the parts of the socket policy applied so far
  writes,     \* writes the slot holds
  shutting,   \* whether the slot began a graceful shutdown
  answer      \* what the last call answered

adapterVars == <<tcp, keepalive, calling, applied, writes, shutting, answer>>
vars == <<socketVars, adapterVars>>

Phases == {"Connecting", "NoDelay", "Keepalive", "Open"}

(***************************************************************************)
(* The adapter's own functions.                                            *)
(***************************************************************************)
NewTcp == [phase |-> "Connecting", readiness |-> {}]

\* Slip: an observation replaces the earlier one.
ObserveReplaces(t, readiness) == [t EXCEPT !.readiness = readiness]

Observe(t, readiness) == [t EXCEPT !.readiness = @ \cup readiness]

IsOpen(t) == t.phase = "Open"

CanEstablish(t) ==
  CASE t.phase = "Connecting" -> t.readiness \cap ConnectFlags # {}
    [] t.phase = "Open" -> FALSE
    [] OTHER -> TRUE

CanRead(t) == IsOpen(t) /\ t.readiness \cap ReadFlags # {}
CanWrite(t) == IsOpen(t) /\ t.readiness \cap WriteFlags # {}

\* Slip: a read that would block leaves the observation in place.
ClearReadNever(t) == t

ClearRead(t) == [t EXCEPT !.readiness = @ \ ReadFlags]

ClearWrite(t) == [t EXCEPT !.readiness = @ \ WriteFlags]
ClearConnect(t) == [t EXCEPT !.readiness = @ \ ConnectFlags]

DesiredInterest(t, hasWrites) ==
  IF t.phase = "Connecting" \/ hasWrites THEN Directions ELSE {"Read"}

\* There is no close signal of its own to send.
IsShutdownComplete == TRUE

Ended == answer \in {"Failed", "Eof"} \/ (shutting /\ IsShutdownComplete)
Idle == calling = "Idle" /\ ~Ended

(***************************************************************************)
(* Establishment.                                                          *)
(***************************************************************************)
Establishing(phase) == Idle /\ CanEstablish(tcp) /\ tcp.phase = phase

\* Slip: the pending error of the socket is not asked for.
TakeErrorNever ==
  /\ Establishing("Connecting")
  /\ calling' = "PeerAddr"
  /\ UNCHANGED <<socketVars, tcp, keepalive, applied, writes, shutting, answer>>

TakeError ==
  /\ Establishing("Connecting")
  /\ IF socket.error
     THEN answer' = "Failed" /\ UNCHANGED calling
     ELSE calling' = "PeerAddr" /\ UNCHANGED answer
  /\ UNCHANGED <<socketVars, tcp, keepalive, applied, writes, shutting>>

\* Connected, or not connected: not yet, or no longer since the last question.
\* A socket that broke since then may also answer with another error.
PeerAddr ==
  /\ calling = "PeerAddr"
  /\ calling' = "Idle"
  /\ \/ /\ tcp' = IF socket.connect = "Up" /\ ~socket.reset
                  THEN [phase |-> "NoDelay", readiness |-> tcp.readiness \ {"Error"}]
                  ELSE ClearConnect(tcp)
        /\ answer' = "Progress"
     \/ Broken /\ answer' = "Failed" /\ UNCHANGED tcp
  /\ UNCHANGED <<socketVars, keepalive, applied, writes, shutting>>

AfterNoDelay == IF keepalive THEN "Keepalive" ELSE "Open"

\* Setting an option can fail on a socket that is gone.
Applies(part, phase) ==
  \/ /\ tcp' = [tcp EXCEPT !.phase = phase]
     /\ applied' = applied \cup part
     /\ answer' = "Progress"
     /\ UNCHANGED <<socketVars, keepalive, calling, writes, shutting>>
  \/ /\ Broken
     /\ answer' = "Failed"
     /\ UNCHANGED <<socketVars, tcp, keepalive, calling, applied, writes, shutting>>

ApplyNoDelay == Establishing("NoDelay") /\ Applies({"NoDelay"}, AfterNoDelay)

ApplyKeepalive ==
  /\ Establishing("Keepalive")
  /\ Applies(IF keepalive THEN {"Keepalive"} ELSE {}, "Open")

Establish == TakeError \/ PeerAddr \/ ApplyNoDelay \/ ApplyKeepalive

(***************************************************************************)
(* Application bytes: the socket's own read and write; the slot clears the *)
(* readiness of a call that would block.                                   *)
(***************************************************************************)
Read(result) ==
  /\ Idle /\ CanRead(tcp)
  /\ result \in ReadAnswers
  /\ answer' = result
  /\ socket' = IF result = "Bytes" THEN Consume(1) ELSE socket
  /\ tcp' = IF result = "WouldBlock" THEN ClearRead(tcp) ELSE tcp
  /\ UNCHANGED <<interest, armed, keepalive, calling, applied, writes, shutting>>

Write(result) ==
  /\ Idle /\ CanWrite(tcp) /\ writes > 0
  /\ result \in WriteAnswers
  /\ answer' = result
  /\ socket' = IF result = "Bytes" THEN Fill(1) ELSE socket
  /\ writes' = IF result = "Bytes" THEN writes - 1 ELSE writes
  /\ tcp' = IF result = "WouldBlock" THEN ClearWrite(tcp) ELSE tcp
  /\ UNCHANGED <<interest, armed, keepalive, calling, applied, shutting>>

BeginShutdown ==
  /\ Idle /\ IsOpen(tcp) /\ writes = 0
  /\ shutting' = TRUE
  /\ answer' = "Progress"
  /\ UNCHANGED <<socketVars, tcp, keepalive, calling, applied, writes>>

(***************************************************************************)
(* The slot and the set around the adapter.                                *)
(***************************************************************************)
SlotHoldsWrite ==
  /\ Idle /\ writes < MaxWrites
  /\ writes' = writes + 1
  /\ UNCHANGED <<socketVars, tcp, keepalive, calling, applied, shutting, answer>>

SyncInterest ==
  /\ Idle
  /\ interest # DesiredInterest(tcp, writes > 0)
  /\ Reregister(DesiredInterest(tcp, writes > 0))
  /\ UNCHANGED adapterVars

Poll(readiness) ==
  /\ Idle /\ armed # {}
  /\ readiness \in Polled
  /\ armed' = {}
  /\ tcp' = Observe(tcp, readiness)
  /\ UNCHANGED <<socket, interest, keepalive, calling, applied, writes, shutting, answer>>

Kernel ==
  /\ Connects \/ Breaks \/ PeerSends("Data") \/ PeerCloses \/ PeerReads
  /\ UNCHANGED adapterVars

Init ==
  /\ socket = NewSocket
  /\ interest = DesiredInterest(NewTcp, FALSE)
  /\ armed = {}
  /\ tcp = NewTcp
  /\ keepalive \in Keepalives
  /\ calling = "Idle"
  /\ applied = {}
  /\ writes = 0
  /\ shutting = FALSE
  /\ answer = "None"

Next ==
  \/ Establish
  \/ \E result \in ReadAnswers : Read(result)
  \/ \E result \in WriteAnswers : Write(result)
  \/ BeginShutdown
  \/ SlotHoldsWrite
  \/ SyncInterest
  \/ \E readiness \in Polled : Poll(readiness)
  \/ Kernel

Spec == Init /\ [][Next]_vars

(***************************************************************************)
(* Properties.                                                             *)
(***************************************************************************)

\* Every variable keeps the shape the adapter gives it.
TypeOK ==
  /\ SocketTypeOK
  /\ tcp \in [phase : Phases, readiness : SUBSET Flags]
  /\ calling \in {"Idle", "PeerAddr"}
  /\ applied \subseteq {"NoDelay", "Keepalive"}
  /\ writes \in 0..MaxWrites
  /\ shutting \in BOOLEAN
  /\ answer \in {"None", "Progress", "Bytes", "WouldBlock", "Eof", "Failed"}

\* No edge is lost: with the interest in place, whatever the kernel has to tell
\* the adapter is in its readiness or in an edge the next poll reports, although
\* the readiness of a class is dropped in three places and the kernel moves
\* between the two questions of complete_connect.
NoLostEdge ==
  ~Ended /\ interest = DesiredInterest(tcp, writes > 0) =>
    /\ tcp.phase = "Connecting" /\ socket.connect # "Pending" =>
         CanEstablish(tcp) \/ armed \cap ConnectFlags # {}
    /\ IsOpen(tcp) /\ (socket.input # <<>> \/ socket.fin \/ socket.reset) =>
         CanRead(tcp) \/ armed \cap ReadFlags # {}
    /\ IsOpen(tcp) /\ writes > 0 /\ socket.room > 0 =>
         CanWrite(tcp) \/ armed \cap WriteFlags # {}

\* The transport is open only on a socket that connected and that has the exact
\* policy it was given ("accepted the exact supplied socket policy").
OpenIsEarned ==
  IsOpen(tcp) =>
    /\ socket.connect = "Up"
    /\ applied = {"NoDelay"} \cup (IF keepalive THEN {"Keepalive"} ELSE {})

\* What the adapter keeps at every moment: it misses nothing the kernel has to
\* tell, and opens only what really connected.
TcpInv ==
  /\ TypeOK
  /\ NoLostEdge
  /\ OpenIsEarned

\* What the slot sees of the adapter is a transport that keeps the contract of
\* transport/port.rs, the one ConnectionSlot is checked against.
View ==
  [open |-> IsOpen(tcp), establish |-> CanEstablish(tcp), work |-> FALSE,
   read |-> CanRead(tcp), write |-> CanWrite(tcp), complete |-> IsShutdownComplete]

Contract == INSTANCE TransportContract WITH view <- View
KeepsTransportContract == Contract!Spec

\* Weak fairness of what the host drives: the set polls, registers interest and
\* drives a slot that has work; a peer that is not gone acknowledges.
LiveSpec ==
  /\ Spec
  /\ WF_vars(Establish)
  /\ WF_vars(\E result \in ReadAnswers : Read(result))
  /\ WF_vars(\E result \in WriteAnswers : Write(result))
  /\ WF_vars(SyncInterest)
  /\ WF_vars(\E readiness \in Polled : Poll(readiness))
  /\ WF_vars(PeerReads /\ UNCHANGED adapterVars)

\* Once the kernel knows how the connect ended, the adapter opens or fails.
ConnectResolves == socket.connect # "Pending" ~> IsOpen(tcp) \/ Ended

\* A peer that closed or reset its side is noticed.
CloseNoticed == socket.fin \/ socket.reset ~> Ended

\* A slot that holds all the writes it may hold gets rid of one.
WritesFlow == IsOpen(tcp) /\ writes = MaxWrites ~> writes < MaxWrites \/ Ended

\* Whatever the kernel does and in whatever order it tells, the adapter gets on:
\* it opens or fails, notices a close and writes.
TcpProgress == ConnectResolves /\ CloseNoticed /\ WritesFlow

=============================================================================
