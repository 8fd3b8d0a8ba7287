------------------------------ MODULE TcpProofs ------------------------------
(***************************************************************************)
(* The TCP adapter misses no edge, opens only what really connected and    *)
(* keeps the transport contract, for every buffer size, policy and number  *)
(* of writes, and for every order in which kernel, selector and slot move. *)
(***************************************************************************)
EXTENDS TcpTransport, TLAPS

Sockets ==
  [connect : {"Pending", "Up", "Refused"}, error : BOOLEAN, fin : BOOLEAN,
   reset : BOOLEAN, input : Seq({"Data"}), room : 0..MaxRoom]

(***************************************************************************)
(* The inductive invariant.                                                *)
(***************************************************************************)

\* The shape of every variable.
Shape ==
  /\ socket \in Sockets
  /\ Len(socket.input) <= MaxInput
  /\ interest \in {Directions, {"Read"}}
  /\ armed \subseteq Flags
  /\ tcp \in [phase : Phases, readiness : SUBSET Flags]
  /\ keepalive \in BOOLEAN
  /\ calling \in {"Idle", "PeerAddr"}
  /\ applied \subseteq {"NoDelay", "Keepalive"}
  /\ writes \in 0..MaxWrites
  /\ shutting \in BOOLEAN
  /\ answer \in {"None", "Progress", "Bytes", "WouldBlock", "Eof", "Failed"}

\* What the kernel's view can be: the pending error tells a broken socket, and
\* nothing moves on one that is not connected.
SocketSound ==
  /\ socket.error <=> Broken
  /\ socket.connect # "Up" => socket.input = <<>> /\ ~socket.fin /\ ~socket.reset

\* How far establishment got, and which part of the policy is in place by then.
PhaseSound ==
  /\ tcp.phase = "Connecting" =>
       /\ interest = Directions
       /\ applied = {}
       /\ socket.connect = "Up" => socket.room > 0
  /\ tcp.phase # "Connecting" => socket.connect = "Up"
  /\ tcp.phase = "NoDelay" => applied = {}
  /\ tcp.phase = "Keepalive" => keepalive /\ applied = {"NoDelay"}
  /\ tcp.phase = "Open" =>
       applied = {"NoDelay"} \cup (IF keepalive THEN {"Keepalive"} ELSE {})

\* Between the two questions of complete_connect the edge that started it is
\* still observed, and a socket that broke since then has armed its edges.
CallSound ==
  calling = "PeerAddr" =>
    /\ ~Ended
    /\ tcp.phase = "Connecting"
    /\ CanEstablish(tcp)
    /\ Broken => BrokenFlags \subseteq armed

\* Every level has its edge, observed or still armed.
EdgeSound ==
  /\ "Error" \in tcp.readiness => Broken
  /\ Broken => BrokenFlags \subseteq armed \/ BrokenFlags \subseteq tcp.readiness
  /\ ~Broken /\ (socket.input # <<>> \/ socket.fin) =>
       "Readable" \in armed \/ tcp.readiness \cap ReadFlags # {}
  /\ ~Broken /\ "Write" \in interest /\ socket.room > 0 /\ socket.connect = "Up" =>
       "Writable" \in armed \/ tcp.readiness \cap WriteFlags # {}

TcpIInv ==
  /\ Shape
  /\ SocketSound
  /\ PhaseSound
  /\ CallSound
  /\ EdgeSound

LEMMA TcpIInvImplies == TcpIInv => TcpInv
<1> SUFFICES ASSUME TcpIInv PROVE TcpInv
  OBVIOUS
<1>1. TypeOK
  BY DEF TcpIInv, Shape, Sockets, TypeOK, SocketTypeOK, Directions
<1>2. OpenIsEarned
  BY DEF TcpIInv, PhaseSound, OpenIsEarned, IsOpen
<1>3. NoLostEdge
  <2> SUFFICES ASSUME interest = DesiredInterest(tcp, writes > 0)
               PROVE  /\ tcp.phase = "Connecting" /\ socket.connect # "Pending" =>
                           CanEstablish(tcp) \/ armed \cap ConnectFlags # {}
                      /\ IsOpen(tcp) /\ (socket.input # <<>> \/ socket.fin \/ socket.reset) =>
                           CanRead(tcp) \/ armed \cap ReadFlags # {}
                      /\ IsOpen(tcp) /\ writes > 0 /\ socket.room > 0 =>
                           CanWrite(tcp) \/ armed \cap WriteFlags # {}
    BY DEF NoLostEdge
  <2>1. CASE Broken
    <3>1. \/ BrokenFlags \subseteq armed
          \/ BrokenFlags \subseteq tcp.readiness
      BY <2>1 DEF TcpIInv, EdgeSound
    <3> QED
      BY <3>1 DEF BrokenFlags, CanEstablish, CanRead, CanWrite, ConnectFlags, ReadFlags, WriteFlags
  <2>2. CASE ~Broken
    <3>1. tcp.phase = "Connecting" /\ socket.connect # "Pending" =>
            CanEstablish(tcp) \/ armed \cap ConnectFlags # {}
      BY <2>2 DEF TcpIInv, Shape, Sockets, PhaseSound, EdgeSound, Broken, CanEstablish,
                  ConnectFlags, WriteFlags, Directions
    <3>2. IsOpen(tcp) /\ (socket.input # <<>> \/ socket.fin \/ socket.reset) =>
            CanRead(tcp) \/ armed \cap ReadFlags # {}
      BY <2>2 DEF TcpIInv, EdgeSound, Broken, CanRead, ReadFlags
    <3>3. IsOpen(tcp) /\ writes > 0 /\ socket.room > 0 =>
            CanWrite(tcp) \/ armed \cap WriteFlags # {}
      BY <2>2 DEF TcpIInv, PhaseSound, EdgeSound, Broken, CanWrite, WriteFlags, IsOpen,
                  DesiredInterest, Directions
    <3> QED
      BY <3>1, <3>2, <3>3
  <2> QED
    BY <2>1, <2>2
<1> QED
  BY <1>1, <1>2, <1>3 DEF TcpInv

LEMMA TcpInit == Init => TcpIInv
<1> SUFFICES ASSUME Init PROVE TcpIInv
  OBVIOUS
<1>1. Shape
  <2>1. socket \in Sockets /\ Len(socket.input) <= MaxInput
    BY SocketAssumption DEF Init, NewSocket, Sockets
  <2>2. interest \in {Directions, {"Read"}} /\ keepalive \in BOOLEAN
    BY TcpAssumption DEF Init, NewTcp, DesiredInterest, Directions
  <2>3. tcp \in [phase : Phases, readiness : SUBSET Flags]
    BY DEF Init, NewTcp, Phases
  <2>4. /\ armed \subseteq Flags /\ calling \in {"Idle", "PeerAddr"}
        /\ applied \subseteq {"NoDelay", "Keepalive"} /\ shutting \in BOOLEAN
        /\ answer \in {"None", "Progress", "Bytes", "WouldBlock", "Eof", "Failed"}
    BY DEF Init
  <2>5. writes \in 0..MaxWrites
    BY TcpAssumption DEF Init
  <2> QED
    BY <2>1, <2>2, <2>3, <2>4, <2>5 DEF Shape
<1>2. SocketSound /\ PhaseSound /\ CallSound /\ EdgeSound
  BY DEF Init, NewSocket, NewTcp, Broken, SocketSound, PhaseSound, CallSound, EdgeSound,
         DesiredInterest, Directions
<1> QED
  BY <1>1, <1>2 DEF TcpIInv

(***************************************************************************)
(* One step per action.                                                    *)
(***************************************************************************)
\* A kernel step leaves the adapter alone.
LEMMA AdapterStays ==
  ASSUME UNCHANGED adapterVars
  PROVE  /\ tcp' = tcp /\ keepalive' = keepalive /\ calling' = calling /\ applied' = applied
         /\ writes' = writes /\ shutting' = shutting /\ answer' = answer
         /\ Ended' <=> Ended
         /\ CanEstablish(tcp)' <=> CanEstablish(tcp)
  BY DEF adapterVars, Ended, CanEstablish

\* The kernel's view after each of its steps.
LEMMA SocketAfter ==
  ASSUME NEW s \in Sockets
  PROVE  /\ [s EXCEPT !.connect = "Up", !.room = MaxRoom] \in Sockets
         /\ [s EXCEPT !.connect = "Refused", !.error = TRUE] \in Sockets
         /\ [s EXCEPT !.reset = TRUE, !.error = TRUE] \in Sockets
         /\ [s EXCEPT !.fin = TRUE] \in Sockets
         /\ \A room \in 0..MaxRoom : [s EXCEPT !.room = room] \in Sockets
         /\ \A input \in Seq({"Data"}) : [s EXCEPT !.input = input] \in Sockets
<1>1. MaxRoom \in 0..MaxRoom
  BY SocketAssumption
<1>2. /\ [s EXCEPT !.connect = "Up", !.room = MaxRoom] \in Sockets
      /\ [s EXCEPT !.connect = "Refused", !.error = TRUE] \in Sockets
  BY <1>1 DEF Sockets
<1>3. /\ [s EXCEPT !.reset = TRUE, !.error = TRUE] \in Sockets
      /\ [s EXCEPT !.fin = TRUE] \in Sockets
  BY DEF Sockets
<1>4. ASSUME NEW room \in 0..MaxRoom PROVE [s EXCEPT !.room = room] \in Sockets
  BY DEF Sockets
<1>5. ASSUME NEW input \in Seq({"Data"}) PROVE [s EXCEPT !.input = input] \in Sockets
  BY DEF Sockets
<1> QED
  BY <1>2, <1>3, <1>4, <1>5

LEMMA KernelKeeps == TcpIInv /\ Kernel => TcpIInv'
<1> SUFFICES ASSUME TcpIInv, Kernel PROVE TcpIInv'
  OBVIOUS
<1> USE SocketAssumption, TcpAssumption DEF TcpIInv
<1>1. UNCHANGED adapterVars
  BY DEF Kernel
<1>2. /\ socket \in Sockets /\ Shape /\ SocketSound /\ PhaseSound /\ CallSound /\ EdgeSound
      /\ socket.input \in Seq({"Data"})
      /\ Len(socket.input) <= MaxInput
      /\ socket.room \in 0..MaxRoom
  BY DEF Shape, Sockets
<1>8. ASSUME socket' \in Sockets, Len(socket'.input) <= MaxInput, interest' = interest,
             armed' \subseteq Flags
      PROVE  Shape'
  BY <1>1, <1>2, <1>8, AdapterStays DEF Shape
<1>3. CASE Connects
  <2>1. socket' \in Sockets /\ Len(socket'.input) <= MaxInput
    BY <1>2, <1>3, SocketAfter DEF Connects, Sockets
  <2>2. /\ socket'.connect = "Up"
        /\ socket'.error = socket.error
        /\ socket'.fin = socket.fin
        /\ socket'.reset = socket.reset
        /\ socket'.input = socket.input
        /\ socket'.room = MaxRoom
    BY <1>2, <1>3 DEF Connects, Sockets
  <2>3. interest' = interest /\ armed' = armed \cup ({"Writable"} \cap Watched(interest))
    BY <1>3 DEF Connects, Raise
  <2>4. Shape'
    BY <1>2, <1>8, <2>1, <2>3 DEF Shape, Watched, BrokenFlags, Flags
  <2>5. SocketSound'
    BY <1>2, <1>3, <2>2 DEF Connects, SocketSound, Broken
  <2>6. PhaseSound' /\ CallSound'
    BY <1>1, <1>2, <1>3, <2>2, <2>3, AdapterStays DEF Connects, PhaseSound,
       CallSound, Broken
  <2>7. EdgeSound'
    BY <1>1, <1>2, <1>3, <2>2, <2>3, AdapterStays
       DEF Connects, Shape, SocketSound, EdgeSound, Broken, Watched, Directions
  <2> QED
    BY <2>4, <2>5, <2>6, <2>7
<1>4. CASE Breaks
  <2>1. /\ socket' \in Sockets /\ Broken' /\ socket'.error
        /\ socket'.connect # "Pending" /\ ~Broken
        /\ (socket.connect # "Up" => socket'.connect # "Up" /\ ~socket'.reset)
        /\ (socket.connect = "Up" => socket'.connect = "Up")
        /\ socket'.fin = socket.fin /\ socket'.input = socket.input /\ socket'.room = socket.room
    <3>1. CASE socket' = [socket EXCEPT !.connect = "Refused", !.error = TRUE]
               /\ socket.connect = "Pending"
      <4>1. socket' \in Sockets
        BY <1>2, <3>1, SocketAfter
      <4>2. ~socket.reset
        BY <1>2, <3>1 DEF SocketSound
      <4> QED
        BY <1>2, <3>1, <4>1, <4>2 DEF Sockets, Broken
    <3>2. CASE socket' = [socket EXCEPT !.reset = TRUE, !.error = TRUE]
               /\ socket.connect = "Up" /\ ~socket.reset
      <4>1. socket' \in Sockets
        BY <1>2, <3>2, SocketAfter
      <4> QED
        BY <1>2, <3>2, <4>1 DEF Sockets, Broken
    <3> QED
      BY <1>4, <3>1, <3>2 DEF Breaks
  <2>2. interest' = interest /\ armed' = armed \cup BrokenFlags
    BY <1>4 DEF Breaks
  <2>3. Shape'
    BY <1>2, <1>8, <2>1, <2>2 DEF Shape, BrokenFlags, Flags
  <2>4. SocketSound'
    BY <1>2, <2>1 DEF SocketSound
  <2>5. PhaseSound' /\ CallSound'
    BY <1>1, <1>2, <2>1, <2>2, AdapterStays DEF PhaseSound, CallSound
  <2>6. EdgeSound'
    BY <1>1, <1>2, <2>1, <2>2, AdapterStays DEF EdgeSound
  <2> QED
    BY <2>3, <2>4, <2>5, <2>6
<1>5. CASE PeerSends("Data")
  <2>1. socket' \in Sockets /\ Len(socket'.input) <= MaxInput
    <3>1. Append(socket.input, "Data") \in Seq({"Data"})
      BY <1>2
    <3>2. socket' = [socket EXCEPT !.input = Append(socket.input, "Data")]
      BY <1>2, <1>5 DEF PeerSends, Sockets
    <3>3. Len(Append(socket.input, "Data")) <= MaxInput
      BY <1>2, <1>5 DEF PeerSends
    <3> QED
      BY <1>2, <3>1, <3>2, <3>3, SocketAfter DEF Sockets
  <2>2. /\ socket'.connect = socket.connect
        /\ socket'.error = socket.error
        /\ socket'.fin = socket.fin
        /\ socket'.reset = socket.reset
        /\ socket'.input = Append(socket.input, "Data")
        /\ socket'.room = socket.room
    BY <1>2, <1>5 DEF PeerSends, Sockets
  <2>3. interest' = interest /\ armed' = armed \cup ({"Readable"} \cap Watched(interest))
    BY <1>5 DEF PeerSends, Raise
  <2>4. Shape'
    BY <1>2, <1>8, <2>1, <2>3 DEF Shape, Watched, BrokenFlags, Flags
  <2>5. SocketSound'
    BY <1>2, <1>5, <2>2 DEF PeerSends, SocketSound, Broken
  <2>6. PhaseSound' /\ CallSound'
    BY <1>1, <1>2, <1>5, <2>2, <2>3, AdapterStays DEF PeerSends, PhaseSound,
       CallSound, Broken
  <2>7. EdgeSound'
    BY <1>1, <1>2, <1>5, <2>2, <2>3, AdapterStays
       DEF PeerSends, Shape, SocketSound, EdgeSound, Broken, Watched, Directions
  <2> QED
    BY <2>4, <2>5, <2>6, <2>7
<1>6. CASE PeerCloses
  <2>1. socket' \in Sockets /\ Len(socket'.input) <= MaxInput
    BY <1>2, <1>6, SocketAfter DEF PeerCloses, Sockets
  <2>2. /\ socket'.connect = socket.connect
        /\ socket'.error = socket.error
        /\ socket'.fin = TRUE
        /\ socket'.reset = socket.reset
        /\ socket'.input = socket.input
        /\ socket'.room = socket.room
    BY <1>2, <1>6 DEF PeerCloses, Sockets
  <2>3. interest' = interest /\ armed' = armed \cup ({"Readable", "ReadClosed"} \cap Watched(interest))
    BY <1>6 DEF PeerCloses, Raise
  <2>4. Shape'
    BY <1>2, <1>8, <2>1, <2>3 DEF Shape, Watched, BrokenFlags, Flags
  <2>5. SocketSound'
    BY <1>2, <1>6, <2>2 DEF PeerCloses, SocketSound, Broken
  <2>6. PhaseSound' /\ CallSound'
    BY <1>1, <1>2, <1>6, <2>2, <2>3, AdapterStays DEF PeerCloses, PhaseSound,
       CallSound, Broken
  <2>7. EdgeSound'
    BY <1>1, <1>2, <1>6, <2>2, <2>3, AdapterStays
       DEF PeerCloses, Shape, SocketSound, EdgeSound, Broken, Watched, Directions
  <2> QED
    BY <2>4, <2>5, <2>6, <2>7
<1>7. CASE PeerReads
  <2>1. socket' \in Sockets /\ Len(socket'.input) <= MaxInput
    <3>1. socket.room + 1 \in 0..MaxRoom
      BY <1>2, <1>7 DEF PeerReads
    <3>2. socket' = [socket EXCEPT !.room = socket.room + 1]
      BY <1>2, <1>7 DEF PeerReads, Sockets
    <3> QED
      BY <1>2, <3>1, <3>2, SocketAfter DEF Sockets
  <2>2. /\ socket'.connect = socket.connect
        /\ socket'.error = socket.error
        /\ socket'.fin = socket.fin
        /\ socket'.reset = socket.reset
        /\ socket'.input = socket.input
        /\ socket'.room = socket.room + 1
    BY <1>2, <1>7 DEF PeerReads, Sockets
  <2>3. interest' = interest /\ armed' = armed \cup (IF socket.room = 0 THEN {"Writable"} \cap Watched(interest) ELSE {})
    BY <1>7 DEF PeerReads, Raise
  <2>4. Shape'
    BY <1>2, <1>8, <2>1, <2>3 DEF Shape, Watched, BrokenFlags, Flags
  <2>5. SocketSound'
    BY <1>2, <1>7, <2>2 DEF PeerReads, SocketSound, Broken
  <2>6. PhaseSound' /\ CallSound'
    BY <1>1, <1>2, <1>7, <2>2, <2>3, AdapterStays DEF PeerReads, PhaseSound,
       CallSound, Broken
  <2>7. EdgeSound'
    BY <1>1, <1>2, <1>7, <2>2, <2>3, AdapterStays
       DEF PeerReads, Shape, SocketSound, EdgeSound, Broken, Watched, Directions
  <2> QED
    BY <2>4, <2>5, <2>6, <2>7
<1> QED
  BY <1>3, <1>4, <1>5, <1>6, <1>7 DEF Kernel

\* A step of the adapter that leaves socket and registration alone keeps what is
\* said about the socket alone.
LEMMA SocketStays ==
  ASSUME UNCHANGED socketVars
  PROVE  /\ socket' = socket /\ interest' = interest /\ armed' = armed
         /\ Broken' <=> Broken
         /\ SocketSound' <=> SocketSound
  BY DEF socketVars, Broken, SocketSound

LEMMA TakeErrorKeeps == TcpIInv /\ TakeError => TcpIInv'
<1> SUFFICES ASSUME TcpIInv, TakeError PROVE TcpIInv'
  OBVIOUS
<1> USE DEF TcpIInv
<1>1. /\ UNCHANGED socketVars
      /\ tcp' = tcp /\ keepalive' = keepalive /\ applied' = applied
      /\ writes' = writes /\ shutting' = shutting
      /\ IF socket.error THEN answer' = "Failed" /\ calling' = calling
                         ELSE calling' = "PeerAddr" /\ answer' = answer
      /\ Idle /\ CanEstablish(tcp) /\ tcp.phase = "Connecting"
  BY DEF TakeError, Establishing
<1>2. Shape'
  BY <1>1, SocketStays DEF Shape
<1>3. SocketSound' /\ PhaseSound' /\ EdgeSound'
  BY <1>1, SocketStays DEF PhaseSound, EdgeSound
<1>4. CallSound'
  BY <1>1, SocketStays DEF CallSound, SocketSound, Idle, Ended, CanEstablish
<1> QED
  BY <1>2, <1>3, <1>4

LEMMA PeerAddrKeeps == TcpIInv /\ PeerAddr => TcpIInv'
<1> SUFFICES ASSUME TcpIInv, PeerAddr PROVE TcpIInv'
  OBVIOUS
<1> USE DEF TcpIInv
<1>1. /\ UNCHANGED socketVars
      /\ keepalive' = keepalive /\ applied' = applied
      /\ writes' = writes /\ shutting' = shutting
      /\ calling = "PeerAddr" /\ calling' = "Idle"
      /\ \/ /\ tcp' = IF socket.connect = "Up" /\ ~socket.reset
                      THEN [phase |-> "NoDelay", readiness |-> tcp.readiness \ {"Error"}]
                      ELSE ClearConnect(tcp)
            /\ answer' = "Progress"
         \/ answer' = "Failed" /\ tcp' = tcp
  BY DEF PeerAddr
<1>2. /\ Shape /\ SocketSound /\ PhaseSound /\ CallSound /\ EdgeSound
      /\ tcp.phase = "Connecting" /\ socket \in Sockets
      /\ tcp \in [phase : Phases, readiness : SUBSET Flags]
  BY <1>1 DEF CallSound, Shape
<1>3. CallSound' /\ SocketSound'
  BY <1>1, SocketStays DEF CallSound
<1>4. CASE socket.connect = "Up" /\ ~socket.reset /\ answer' = "Progress"
  <2>1. /\ tcp' \in [phase : Phases, readiness : SUBSET Flags]
        /\ tcp'.phase = "NoDelay" /\ tcp'.readiness = tcp.readiness \ {"Error"}
    BY <1>1, <1>2, <1>4 DEF Phases
  <2>2. ~Broken /\ tcp'.readiness = tcp.readiness
    BY <1>2, <1>4, <2>1 DEF Broken, EdgeSound
  <2>3. Shape'
    BY <1>1, <1>2, <2>1, SocketStays DEF Shape
  <2>4. PhaseSound'
    BY <1>1, <1>2, <1>4, <2>1, SocketStays DEF PhaseSound
  <2>5. EdgeSound'
    BY <1>1, <1>2, <2>2, SocketStays DEF EdgeSound
  <2> QED
    BY <1>3, <2>3, <2>4, <2>5
<1>5. CASE ~(socket.connect = "Up" /\ ~socket.reset) /\ answer' = "Progress"
  <2>1. /\ tcp' \in [phase : Phases, readiness : SUBSET Flags]
        /\ tcp'.phase = tcp.phase /\ tcp'.readiness = tcp.readiness \ ConnectFlags
    BY <1>1, <1>2, <1>5 DEF ClearConnect
  <2>2. Broken \/ socket.connect = "Pending"
    BY <1>2, <1>5 DEF Broken, Sockets
  <2>3. Shape'
    BY <1>1, <1>2, <2>1, SocketStays DEF Shape
  <2>4. PhaseSound'
    BY <1>1, <1>2, <2>1, SocketStays DEF PhaseSound
  <2>5. EdgeSound'
    BY <1>1, <1>2, <2>1, <2>2, SocketStays DEF EdgeSound, CallSound, SocketSound, ConnectFlags
  <2> QED
    BY <1>3, <2>3, <2>4, <2>5
<1>6. CASE answer' = "Failed" /\ tcp' = tcp
  <2>1. Shape'
    BY <1>1, <1>2, <1>6, SocketStays DEF Shape
  <2>2. PhaseSound' /\ EdgeSound'
    BY <1>1, <1>2, <1>6, SocketStays DEF PhaseSound, EdgeSound
  <2> QED
    BY <1>3, <2>1, <2>2
<1> QED
  BY <1>1, <1>4, <1>5, <1>6

\* A part of the policy takes the adapter from one phase to the next.
LEMMA AppliesKeeps ==
  TcpIInv /\ (ApplyNoDelay \/ ApplyKeepalive) => TcpIInv'
<1> SUFFICES ASSUME TcpIInv, ApplyNoDelay \/ ApplyKeepalive PROVE TcpIInv'
  OBVIOUS
<1> USE DEF TcpIInv
<1>1. PICK part \in SUBSET {"NoDelay", "Keepalive"}, phase \in Phases :
        /\ Idle /\ Applies(part, phase)
        /\ \/ tcp.phase = "NoDelay" /\ part = {"NoDelay"} /\ phase = AfterNoDelay
           \/ /\ tcp.phase = "Keepalive" /\ phase = "Open"
              /\ part = IF keepalive THEN {"Keepalive"} ELSE {}
  <2>1. CASE ApplyNoDelay
    BY <2>1 DEF ApplyNoDelay, Establishing, AfterNoDelay, Phases
  <2>2. CASE ApplyKeepalive
    BY <2>2 DEF ApplyKeepalive, Establishing, Phases
  <2> QED
    BY <2>1, <2>2
<1>2. /\ UNCHANGED socketVars
      /\ keepalive' = keepalive /\ calling' = calling
      /\ writes' = writes /\ shutting' = shutting /\ calling = "Idle"
  BY <1>1 DEF Applies, Idle
<1>3. tcp \in [phase : Phases, readiness : SUBSET Flags]
  BY DEF Shape
<1>4. CallSound' /\ SocketSound'
  BY <1>2, SocketStays DEF CallSound
<1>5. CASE /\ tcp' = [tcp EXCEPT !.phase = phase] /\ applied' = applied \cup part
           /\ answer' = "Progress"
  <2>1. /\ tcp' \in [phase : Phases, readiness : SUBSET Flags]
        /\ tcp'.phase = phase /\ tcp'.readiness = tcp.readiness
    BY <1>3, <1>5
  <2>2. Shape'
    BY <1>2, <1>5, <2>1, SocketStays DEF Shape
  <2>3. PhaseSound'
    BY <1>1, <1>2, <1>5, <2>1, SocketStays DEF PhaseSound, AfterNoDelay
  <2>4. EdgeSound'
    BY <1>2, <2>1, SocketStays DEF EdgeSound
  <2> QED
    BY <1>4, <2>2, <2>3, <2>4
<1>6. CASE tcp' = tcp /\ applied' = applied /\ answer' = "Failed"
  <2>1. Shape'
    BY <1>2, <1>6, SocketStays DEF Shape
  <2>2. PhaseSound' /\ EdgeSound'
    BY <1>2, <1>6, SocketStays DEF PhaseSound, EdgeSound
  <2> QED
    BY <1>4, <2>1, <2>2
<1> QED
  BY <1>1, <1>5, <1>6 DEF Applies

LEMMA ReadKeeps == ASSUME NEW result PROVE TcpIInv /\ Read(result) => TcpIInv'
<1> SUFFICES ASSUME TcpIInv, Read(result) PROVE TcpIInv'
  OBVIOUS
<1> USE DEF TcpIInv
<1>1. /\ interest' = interest /\ armed' = armed /\ keepalive' = keepalive
      /\ calling' = calling /\ applied' = applied /\ writes' = writes
      /\ shutting' = shutting /\ calling = "Idle" /\ tcp.phase = "Open"
      /\ answer' = result /\ result \in ReadAnswers
  BY DEF Read, Idle, CanRead, IsOpen
<1>2. /\ socket \in Sockets /\ Len(socket.input) <= MaxInput
      /\ tcp \in [phase : Phases, readiness : SUBSET Flags]
      /\ socket.connect = "Up"
      /\ socket.input \in Seq({"Data"})
  BY <1>1 DEF Shape, PhaseSound, Sockets
<1>3. CallSound'
  BY <1>1 DEF CallSound
<1>4. result \in {"Bytes", "WouldBlock", "Eof", "Failed"}
  BY <1>1 DEF ReadAnswers
<1>5. CASE result = "Bytes"
  <2> DEFINE rest == SubSeq(socket.input, 2, Len(socket.input))
  <2>1. socket.input # <<>>
    BY <1>1, <1>5 DEF ReadAnswers
  <2>2. rest \in Seq({"Data"}) /\ Len(rest) <= MaxInput
    BY <1>2, <2>1, SocketAssumption
  <2>3. socket' = [socket EXCEPT !.input = rest]
    BY <1>2, <1>5 DEF Read, Consume, Sockets
  <2> HIDE DEF rest
  <2>4. /\ socket' \in Sockets /\ socket'.input = rest
        /\ socket'.connect = socket.connect /\ socket'.error = socket.error
        /\ socket'.fin = socket.fin /\ socket'.reset = socket.reset
        /\ socket'.room = socket.room
    <3>1. socket' \in Sockets
      BY <1>2, <2>2, <2>3, SocketAfter
    <3> QED
      BY <1>2, <2>3, <3>1 DEF Sockets
  <2>5. tcp' = tcp
    BY <1>5 DEF Read
  <2>6. Broken' <=> Broken
    BY <2>4 DEF Broken
  <2>7. Shape'
    BY <1>1, <1>4, <2>2, <2>4, <2>5 DEF Shape
  <2>8. SocketSound' /\ PhaseSound'
    BY <1>1, <1>2, <2>4, <2>5, <2>6 DEF SocketSound, PhaseSound
  <2>9. EdgeSound'
    BY <1>1, <1>2, <2>1, <2>4, <2>5, <2>6 DEF EdgeSound
  <2> QED
    BY <1>3, <2>7, <2>8, <2>9
<1>6. CASE result = "WouldBlock"
  <2>1. /\ UNCHANGED socketVars /\ ~Broken /\ socket.input = <<>> /\ ~socket.fin
    BY <1>1, <1>2, <1>6 DEF Read, ReadAnswers, Broken, socketVars
  <2>2. /\ tcp' \in [phase : Phases, readiness : SUBSET Flags]
        /\ tcp'.phase = tcp.phase /\ tcp'.readiness = tcp.readiness \ ReadFlags
    BY <1>2, <1>6 DEF Read, ClearRead
  <2>3. Shape'
    BY <1>1, <1>4, <2>1, <2>2, SocketStays DEF Shape
  <2>4. SocketSound' /\ PhaseSound'
    BY <1>1, <2>1, <2>2, SocketStays DEF PhaseSound
  <2>5. EdgeSound'
    BY <1>1, <2>1, <2>2, SocketStays DEF EdgeSound, ReadFlags, WriteFlags
  <2> QED
    BY <1>3, <2>3, <2>4, <2>5
<1>7. CASE result \in {"Eof", "Failed"}
  <2>1. UNCHANGED socketVars /\ tcp' = tcp
    BY <1>1, <1>7 DEF Read, socketVars
  <2>2. Shape'
    BY <1>1, <1>4, <2>1, SocketStays DEF Shape
  <2>3. SocketSound' /\ PhaseSound' /\ EdgeSound'
    BY <1>1, <2>1, SocketStays DEF PhaseSound, EdgeSound
  <2> QED
    BY <1>3, <2>2, <2>3
<1> QED
  BY <1>4, <1>5, <1>6, <1>7

LEMMA WriteKeeps == ASSUME NEW result PROVE TcpIInv /\ Write(result) => TcpIInv'
<1> SUFFICES ASSUME TcpIInv, Write(result) PROVE TcpIInv'
  OBVIOUS
<1> USE DEF TcpIInv
<1>1. /\ interest' = interest /\ armed' = armed /\ keepalive' = keepalive
      /\ calling' = calling /\ applied' = applied
      /\ shutting' = shutting /\ calling = "Idle" /\ tcp.phase = "Open"
      /\ answer' = result /\ result \in WriteAnswers /\ writes > 0
      /\ tcp.readiness \cap WriteFlags # {}
  BY DEF Write, Idle, CanWrite, IsOpen
<1>2. /\ socket \in Sockets /\ Len(socket.input) <= MaxInput
      /\ tcp \in [phase : Phases, readiness : SUBSET Flags]
      /\ socket.connect = "Up"
      /\ socket.room \in 0..MaxRoom
      /\ writes \in 0..MaxWrites
  BY <1>1 DEF Shape, PhaseSound, Sockets
<1>3. CallSound'
  BY <1>1 DEF CallSound
<1>4. result \in {"Bytes", "WouldBlock", "Failed"}
  BY <1>1 DEF WriteAnswers
<1>5. writes' \in 0..MaxWrites
  BY <1>1, <1>2, TcpAssumption DEF Write
<1>6. CASE result = "Bytes"
  <2>1. socket.room > 0
    BY <1>1, <1>6 DEF WriteAnswers
  <2>2. socket.room - 1 \in 0..MaxRoom
    BY <1>2, <2>1, SocketAssumption
  <2>3. socket' = [socket EXCEPT !.room = socket.room - 1]
    BY <1>2, <1>6 DEF Write, Fill, Sockets
  <2>4. /\ socket' \in Sockets /\ socket'.input = socket.input
        /\ socket'.connect = socket.connect /\ socket'.error = socket.error
        /\ socket'.fin = socket.fin /\ socket'.reset = socket.reset
    <3>1. socket' \in Sockets
      BY <1>2, <2>2, <2>3, SocketAfter
    <3> QED
      BY <1>2, <2>3, <3>1 DEF Sockets
  <2>5. tcp' = tcp
    BY <1>6 DEF Write
  <2>6. Broken' <=> Broken
    BY <2>4 DEF Broken
  <2>7. Shape'
    BY <1>1, <1>2, <1>4, <1>5, <2>4, <2>5 DEF Shape
  <2>8. SocketSound' /\ PhaseSound'
    BY <1>1, <1>2, <2>4, <2>5, <2>6 DEF SocketSound, PhaseSound
  <2>9. EdgeSound'
    BY <1>1, <2>4, <2>5, <2>6 DEF EdgeSound
  <2> QED
    BY <1>3, <2>7, <2>8, <2>9
<1>7. CASE result = "WouldBlock"
  <2>1. /\ UNCHANGED socketVars /\ ~Broken /\ ~(socket.room > 0)
    BY <1>1, <1>2, <1>7 DEF Write, WriteAnswers, Broken, socketVars
  <2>2. /\ tcp' \in [phase : Phases, readiness : SUBSET Flags]
        /\ tcp'.phase = tcp.phase /\ tcp'.readiness = tcp.readiness \ WriteFlags
    BY <1>2, <1>7 DEF Write, ClearWrite
  <2>3. Shape'
    BY <1>1, <1>4, <1>5, <2>1, <2>2, SocketStays DEF Shape
  <2>4. SocketSound' /\ PhaseSound'
    BY <1>1, <2>1, <2>2, SocketStays DEF PhaseSound
  <2>5. EdgeSound'
    BY <1>1, <2>1, <2>2, SocketStays DEF EdgeSound, ReadFlags, WriteFlags
  <2> QED
    BY <1>3, <2>3, <2>4, <2>5
<1>8. CASE result = "Failed"
  <2>1. UNCHANGED socketVars /\ tcp' = tcp
    BY <1>1, <1>8 DEF Write, socketVars
  <2>2. Shape'
    BY <1>1, <1>4, <1>5, <2>1, SocketStays DEF Shape
  <2>3. SocketSound' /\ PhaseSound' /\ EdgeSound'
    BY <1>1, <2>1, SocketStays DEF PhaseSound, EdgeSound
  <2> QED
    BY <1>3, <2>2, <2>3
<1> QED
  BY <1>4, <1>6, <1>7, <1>8

\* The slot's own steps touch neither the socket nor what was observed of it.
LEMMA SlotKeeps ==
  TcpIInv /\ (BeginShutdown \/ SlotHoldsWrite \/ UNCHANGED vars) => TcpIInv'
<1> SUFFICES ASSUME TcpIInv, BeginShutdown \/ SlotHoldsWrite \/ UNCHANGED vars PROVE TcpIInv'
  OBVIOUS
<1> USE DEF TcpIInv
<1>1. /\ UNCHANGED socketVars
      /\ tcp' = tcp /\ keepalive' = keepalive /\ calling' = calling /\ applied' = applied
  BY DEF BeginShutdown, SlotHoldsWrite, vars, adapterVars
<1>2. writes' \in 0..MaxWrites
  BY TcpAssumption DEF BeginShutdown, SlotHoldsWrite, vars, adapterVars, Shape
<1>3. /\ shutting' \in BOOLEAN
      /\ answer' \in {"None", "Progress", "Bytes", "WouldBlock", "Eof", "Failed"}
  BY DEF BeginShutdown, SlotHoldsWrite, vars, adapterVars, Shape
<1>4. Shape'
  BY <1>1, <1>2, <1>3, SocketStays DEF Shape
<1>5. SocketSound' /\ PhaseSound' /\ EdgeSound'
  BY <1>1, SocketStays DEF PhaseSound, EdgeSound
<1>6. CallSound'
  <2>1. CASE BeginShutdown \/ SlotHoldsWrite
    BY <1>1, <2>1 DEF BeginShutdown, SlotHoldsWrite, Idle, CallSound
  <2>2. CASE UNCHANGED vars
    BY <1>1, <2>2, SocketStays DEF vars, adapterVars, CallSound, Ended, CanEstablish
  <2> QED
    BY <2>1, <2>2
<1> QED
  BY <1>4, <1>5, <1>6

LEMMA SyncInterestKeeps == TcpIInv /\ SyncInterest => TcpIInv'
<1> SUFFICES ASSUME TcpIInv, SyncInterest PROVE TcpIInv'
  OBVIOUS
<1> USE DEF TcpIInv
<1> DEFINE desired == DesiredInterest(tcp, writes > 0)
<1>1. /\ UNCHANGED adapterVars /\ socket' = socket /\ calling = "Idle"
      /\ interest' = desired /\ armed' = Visible(desired)
  BY DEF SyncInterest, Reregister, Idle
<1>2. /\ desired \in {Directions, {"Read"}}
      /\ tcp.phase = "Connecting" => desired = Directions
      /\ "Read" \in desired
  BY DEF DesiredInterest, Directions
<1> HIDE DEF desired
<1>3. (Broken' <=> Broken) /\ (SocketSound' <=> SocketSound)
  BY <1>1 DEF Broken, SocketSound
<1>4. Visible(desired) \subseteq Flags
  BY DEF Visible, Levels, BrokenFlags, Flags
<1>5. Shape'
  BY <1>1, <1>2, <1>4, AdapterStays DEF Shape
<1>6. PhaseSound' /\ CallSound'
  BY <1>1, <1>2, <1>3, AdapterStays DEF PhaseSound, CallSound
<1>7. EdgeSound'
  <2>1. Broken => BrokenFlags \subseteq Visible(desired)
    BY DEF Visible, Levels
  <2>2. ~Broken /\ (socket.input # <<>> \/ socket.fin) => "Readable" \in Visible(desired)
    BY <1>2 DEF Visible, Levels, Watched, SocketSound
  <2>3. ~Broken /\ "Write" \in desired /\ socket.room > 0 /\ socket.connect = "Up" =>
          "Writable" \in Visible(desired)
    BY DEF Visible, Levels, Watched
  <2> QED
    BY <1>1, <1>3, <2>1, <2>2, <2>3, AdapterStays DEF EdgeSound
<1> QED
  BY <1>3, <1>5, <1>6, <1>7

LEMMA PollKeeps == ASSUME NEW readiness PROVE TcpIInv /\ Poll(readiness) => TcpIInv'
<1> SUFFICES ASSUME TcpIInv, Poll(readiness) PROVE TcpIInv'
  OBVIOUS
<1> USE DEF TcpIInv
<1>1. /\ socket' = socket /\ interest' = interest /\ armed' = {} /\ calling = "Idle"
      /\ keepalive' = keepalive /\ calling' = calling /\ applied' = applied
      /\ writes' = writes /\ shutting' = shutting /\ answer' = answer
      /\ readiness \in Polled
  BY DEF Poll, Idle
<1>2. (Broken' <=> Broken) /\ (SocketSound' <=> SocketSound)
  BY <1>1 DEF Broken, SocketSound
<1>3. /\ readiness \subseteq Flags
      /\ armed \cap Visible(interest) \subseteq readiness
      /\ "Error" \in readiness => Broken
  <2>1. Visible(interest) \subseteq Flags /\ ("Error" \in Visible(interest) => Broken)
    BY DEF Visible, Levels, BrokenFlags, Flags
  <2> QED
    BY <1>1, <2>1 DEF Polled
<1>4. tcp \in [phase : Phases, readiness : SUBSET Flags]
  BY DEF Shape
<1>5. /\ tcp' \in [phase : Phases, readiness : SUBSET Flags]
      /\ tcp'.phase = tcp.phase /\ tcp'.readiness = tcp.readiness \cup readiness
  BY <1>3, <1>4 DEF Poll, Observe
<1>6. Shape'
  BY <1>1, <1>5 DEF Shape
<1>7. PhaseSound' /\ CallSound'
  BY <1>1, <1>5 DEF PhaseSound, CallSound
<1>8. EdgeSound'
  <2>1. Broken => BrokenFlags \subseteq Visible(interest)
    BY DEF Visible, Levels
  <2>2. ~Broken /\ (socket.input # <<>> \/ socket.fin) => "Readable" \in Visible(interest)
    BY DEF Visible, Levels, Watched, SocketSound, Shape, Directions
  <2>3. ~Broken /\ "Write" \in interest /\ socket.room > 0 /\ socket.connect = "Up" =>
          "Writable" \in Visible(interest)
    BY DEF Visible, Levels, Watched
  <2> QED
    BY <1>1, <1>2, <1>3, <1>5, <2>1, <2>2, <2>3 DEF EdgeSound, ReadFlags, WriteFlags
<1> QED
  BY <1>2, <1>6, <1>7, <1>8

LEMMA TcpStep == TcpIInv /\ [Next]_vars => TcpIInv'
  BY TakeErrorKeeps, PeerAddrKeeps, AppliesKeeps, ReadKeeps, WriteKeeps, SlotKeeps,
     SyncInterestKeeps, PollKeeps, KernelKeeps
  DEF Next, Establish

\* Whatever the kernel has to tell the adapter is in the readiness it keeps or in
\* an edge the next poll reports, and the adapter is open only on a socket that
\* connected and took the exact policy (tcp.rs, complete_connect and the clear_*
\* calls), for every buffer size, policy and number of writes.
THEOREM TcpMissesNothing == Spec => []TcpInv
<1>1. Spec => []TcpIInv
  BY TcpInit, TcpStep, PTL DEF Spec
<1> QED
  BY <1>1, TcpIInvImplies, PTL

(***************************************************************************)
(* The adapter is a transport of the kind the slot assumes: every step is a *)
(* call of the contract, or invisible to the slot.                          *)
(***************************************************************************)

LEMMA ViewTyped ==
  /\ TcpIInv => View \in Contract!Views
  /\ TcpIInv' => View' \in Contract!Views
  BY DEF TcpIInv, Shape, View, IsOpen, CanEstablish, CanRead, CanWrite, IsShutdownComplete,
         Contract!Views

LEMMA ViewEnds == Contract!Ended <=> answer = "Truncated" \/ Ended
  BY DEF Contract!Ended, Contract!Failures, View, Ended

LEMMA ContractInit == Init => Contract!Init
<1> SUFFICES ASSUME Init PROVE Contract!Init
  OBVIOUS
<1>1. View \in Contract!Views
  BY TcpInit, ViewTyped
<1>2. ~View.open /\ ~View.establish /\ shutting = FALSE /\ answer = "None"
  BY DEF Init, NewTcp, View, IsOpen, CanEstablish
<1> QED
  BY <1>1, <1>2 DEF Contract!Init

LEMMA ContractStep == TcpIInv /\ [Next]_vars => [Contract!Next]_Contract!vars
<1> SUFFICES ASSUME TcpIInv, [Next]_vars PROVE [Contract!Next]_Contract!vars
  OBVIOUS
<1>1. TcpIInv'
  BY TcpStep
<1>2. View \in Contract!Views /\ View' \in Contract!Views
  BY <1>1, ViewTyped
<1>3. /\ View.open = IsOpen(tcp) /\ View'.open = IsOpen(tcp)'
      /\ View.establish = CanEstablish(tcp) /\ View'.establish = CanEstablish(tcp)'
      /\ View.work = FALSE /\ View'.work = FALSE
      /\ View.read = CanRead(tcp) /\ View'.read = CanRead(tcp)'
      /\ View.write = CanWrite(tcp) /\ View'.write = CanWrite(tcp)'
      /\ View.complete = TRUE /\ View'.complete = TRUE
      /\ DOMAIN View = {"open", "establish", "work", "read", "write", "complete"}
  BY DEF View, IsShutdownComplete
<1>4. ASSUME tcp' = tcp PROVE View' = View
  BY <1>4 DEF View, IsOpen, CanEstablish, CanRead, CanWrite
<1>5. answer # "Truncated"
  BY DEF TcpIInv, Shape
<1>6. ASSUME tcp' = tcp, shutting' = shutting, answer' = answer PROVE UNCHANGED Contract!vars
  BY <1>4, <1>6 DEF Contract!vars
<1>7. ASSUME Idle PROVE ~Contract!Ended /\ ~shutting
  BY <1>5, <1>7, ViewEnds DEF Idle, Ended, IsShutdownComplete
<1>8. CASE TakeError
  <2>1. CASE socket.error
    <3>1. /\ Idle /\ CanEstablish(tcp) /\ tcp.phase = "Connecting" /\ tcp' = tcp
          /\ shutting' = shutting /\ answer' = "Failed"
      BY <1>8, <2>1 DEF TakeError, Establishing
    <3>2. Contract!Establish
      BY <1>2, <1>3, <1>4, <1>7, <3>1
         DEF Contract!Establish, Contract!Moves, Contract!Failures, IsOpen
    <3> QED
      BY <3>2 DEF Contract!Next
  <2>2. CASE ~socket.error
    BY <1>6, <1>8, <2>2 DEF TakeError
  <2> QED
    BY <2>1, <2>2
<1>9. CASE PeerAddr
  <2>1. /\ ~Ended /\ tcp.phase = "Connecting" /\ CanEstablish(tcp)
        /\ shutting' = shutting
        /\ answer' = "Progress" \/ (answer' = "Failed" /\ tcp' = tcp)
    BY <1>9 DEF PeerAddr, TcpIInv, CallSound
  <2>2. Contract!Establish
    BY <1>2, <1>3, <1>4, <1>5, <2>1, ViewEnds
       DEF Contract!Establish, Contract!Moves, Contract!Failures, IsOpen
  <2> QED
    BY <2>2 DEF Contract!Next
<1>10. CASE ApplyNoDelay \/ ApplyKeepalive
  <2>1. /\ Idle /\ CanEstablish(tcp) /\ tcp.phase # "Open"
        /\ shutting' = shutting
        /\ answer' = "Progress" \/ (answer' = "Failed" /\ tcp' = tcp)
    BY <1>10 DEF ApplyNoDelay, ApplyKeepalive, Applies, Establishing
  <2>2. Contract!Establish
    BY <1>2, <1>3, <1>4, <1>7, <2>1
       DEF Contract!Establish, Contract!Moves, Contract!Failures, IsOpen
  <2> QED
    BY <2>2 DEF Contract!Next
<1>11. ASSUME NEW result, Read(result) PROVE Contract!Next
  <2>1. /\ Idle /\ CanRead(tcp) /\ shutting' = shutting /\ answer' = result
        /\ result \in {"Bytes", "WouldBlock", "Eof", "Failed"}
        /\ tcp' = IF result = "WouldBlock" THEN ClearRead(tcp) ELSE tcp
    BY <1>11 DEF Read, ReadAnswers
  <2>2. /\ tcp'.phase = tcp.phase
        /\ result = "WouldBlock" => tcp'.readiness \cap ReadFlags = {}
    BY <2>1 DEF TcpIInv, Shape, ClearRead
  <2>3. Contract!Read
    BY <1>2, <1>3, <1>7, <2>1, <2>2
       DEF Contract!Read, Contract!Moves, Contract!Failures, IsOpen, CanRead
  <2> QED
    BY <2>3 DEF Contract!Next
<1>12. ASSUME NEW result, Write(result) PROVE Contract!Next
  <2>1. /\ Idle /\ CanWrite(tcp) /\ shutting' = shutting /\ answer' = result
        /\ result \in {"Bytes", "WouldBlock", "Failed"}
        /\ tcp' = IF result = "WouldBlock" THEN ClearWrite(tcp) ELSE tcp
    BY <1>12 DEF Write, WriteAnswers
  <2>2. /\ tcp'.phase = tcp.phase
        /\ result = "WouldBlock" => tcp'.readiness \cap WriteFlags = {}
    BY <2>1 DEF TcpIInv, Shape, ClearWrite
  <2>3. Contract!Write
    BY <1>2, <1>3, <1>7, <2>1, <2>2
       DEF Contract!Write, Contract!Moves, Contract!Failures, IsOpen, CanWrite
  <2> QED
    BY <2>3 DEF Contract!Next
<1>13. CASE BeginShutdown
  <2>1. Idle /\ IsOpen(tcp) /\ tcp' = tcp /\ shutting' = TRUE /\ answer' = "Progress"
    BY <1>13 DEF BeginShutdown
  <2>2. Contract!BeginShutdown
    BY <1>2, <1>3, <1>4, <1>7, <2>1 DEF Contract!BeginShutdown
  <2> QED
    BY <2>2 DEF Contract!Next
<1>14. CASE SlotHoldsWrite \/ SyncInterest \/ Kernel \/ UNCHANGED vars
  BY <1>6, <1>14 DEF SlotHoldsWrite, SyncInterest, Kernel, vars, adapterVars
<1>15. ASSUME NEW readiness, Poll(readiness) PROVE Contract!Next
  <2>1. tcp' = Observe(tcp, readiness) /\ shutting' = shutting /\ answer' = answer
    BY <1>15 DEF Poll
  <2>2. tcp'.phase = tcp.phase /\ tcp.readiness \subseteq tcp'.readiness
    BY <2>1 DEF TcpIInv, Shape, Observe
  <2>3. /\ IsOpen(tcp)' = IsOpen(tcp)
        /\ CanEstablish(tcp) => CanEstablish(tcp)'
        /\ CanRead(tcp) => CanRead(tcp)'
        /\ CanWrite(tcp) => CanWrite(tcp)'
    BY <2>2 DEF IsOpen, CanEstablish, CanRead, CanWrite
  <2>4. Contract!Observe
    BY <1>2, <1>3, <2>1, <2>3 DEF Contract!Observe, Contract!Moves
  <2> QED
    BY <2>4 DEF Contract!Next
<1> QED
  BY <1>8, <1>9, <1>10, <1>11, <1>12, <1>13, <1>14, <1>15 DEF Next, Establish

\* What the slot sees of the TCP adapter (tcp_port.rs) is a transport that keeps
\* the contract of transport/port.rs: nothing turns on by itself, establishment
\* never answers that it did nothing, a would-block leaves the question off.
THEOREM TcpImplementsContract == Spec => KeepsTransportContract
<1>1. Spec => []TcpIInv
  BY TcpInit, TcpStep, PTL DEF Spec
<1> QED
  BY <1>1, ContractInit, ContractStep, PTL DEF Spec, KeepsTransportContract, Contract!Spec

=============================================================================
