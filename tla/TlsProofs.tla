------------------------------ MODULE TlsProofs ------------------------------
(***************************************************************************)
(* The TLS adapter tells the truth about the end of the stream, opens only *)
(* after the handshake, completes a shutdown only when everything is sent, *)
(* misses no edge and keeps the transport contract, for every buffer size, *)
(* limit, policy and version, and for every order in which the server, the *)
(* kernel, the selector and the slot move.                                 *)
(***************************************************************************)
EXTENDS TlsProperties, EngineProofs

Sockets ==
  [connect : {"Pending", "Up", "Refused"}, error : BOOLEAN, fin : BOOLEAN,
   reset : BOOLEAN, input : Seq(Records), room : 0..MaxRoom]

Links ==
  [phase : Phases, readiness : SUBSET Flags, preference : Directions,
   plaintextBytes : 0..MaxPlaintext, eof : Eofs,
   shutdown : {"NotStarted", "Started"}, pendingError : BOOLEAN]

Peers ==
  [flights : {1, 2}, sent : 0..2, heard : 0..2, closed : BOOLEAN, bye : BOOLEAN]

(***************************************************************************)
(* The inductive invariant.                                                *)
(***************************************************************************)

\* The shape of every variable.
Shape ==
  /\ socket \in Sockets
  /\ Len(socket.input) <= MaxInput
  /\ interest \in {Directions, {"Read"}, {"Write"}}
  /\ armed \subseteq Flags
  /\ link \in Links
  /\ tls \in Engines
  /\ keepalive \in BOOLEAN
  /\ calling \in {"Idle", "PeerAddr"}
  /\ writes \in 0..MaxWrites
  /\ answer \in Failures \cup {"None", "Progress", "Bytes", "WouldBlock", "Eof", "Idle"}
  /\ peer \in Peers

\* What the kernel's view can be: the pending error tells a broken socket, and
\* nothing moves on one that is not connected.
SocketSound ==
  /\ socket.error <=> Broken
  /\ socket.connect # "Up" =>
       socket.input = <<>> /\ ~socket.fin /\ ~socket.reset /\ socket.room = 0

\* At most one handshake flight is on its way in each direction.
Flights(s, n) ==
  \/ n = 0 /\ \A i \in DOMAIN s : s[i] # "Flight"
  \/ n = 1 /\ \E i \in DOMAIN s : s[i] = "Flight" /\ \A j \in DOMAIN s : s[j] = "Flight" => j = i

\* What is left of the script when "answered" of the server's flights came in.
Script(flights, answered) ==
  IF answered = flights THEN <<>>
  ELSE IF answered = 1 THEN << <<>> >>
  ELSE ClientScript(IF flights = 1 THEN 13 ELSE 12)

\* How far the handshake got, seen from both ends and from what is on its way:
\* rustls queued its first flight and one more with its first answer, the server
\* answers only flights it has.
HandshakeAt(t, input, p, answered) ==
  /\ t.script = Script(p.flights, answered)
  /\ answered <= p.sent /\ p.sent <= p.heard /\ p.sent <= p.flights
  /\ Flights(input, p.sent - answered)
  /\ Flights(t.sendable, (IF answered = 0 THEN 1 ELSE 2) - p.heard)

\* What holds of rustls and of the input it has yet to read, whatever records
\* the server sends: a close_notify is the last of them, and the shutdown's own
\* close_notify is on its way out until the server has it.
Received(t, input, p) ==
  /\ \A i \in DOMAIN input : input[i] = "CloseNotify" => p.closed /\ i = Len(input)
  /\ t.closed => p.closed /\ input = <<>>
  /\ IsHandshaking(t) => t.plaintext = 0 /\ ~t.closed
  /\ t.sentClose => p.bye \/ \E i \in DOMAIN t.sendable : t.sendable[i] = "CloseNotify"
  /\ ~t.failed => \E answered \in 0..p.flights : HandshakeAt(t, input, p, answered)

EngineSound == tls.failed \/ Received(tls, socket.input, peer)

\* What the adapter keeps of rustls is what rustls says, until it fails.
LinkSound ==
  /\ answer # "Failed" =>
       /\ ~tls.failed
       /\ link.plaintextBytes = tls.plaintext
       /\ link.eof = "Clean" <=> tls.closed
       /\ link.pendingError => Len(tls.sendable) > MaxEgress /\ ~Started(link)
  /\ Started(link) <=> tls.sentClose

\* How far establishment got, and what nobody can have done by then.
PhaseSound ==
  /\ link.phase \in {"Connecting", "NoDelay", "Keepalive"} =>
       /\ interest = Directions
       /\ socket.connect = "Up" => socket.room > 0
       /\ WantsWrite(tls) /\ IsHandshaking(tls)
       /\ link.eof = "Live"
  /\ link.phase # "Connecting" => socket.connect = "Up"
  /\ link.phase = "Handshaking" /\ answer # "Failed" => IsHandshaking(tls) \/ WantsWrite(tls)
  /\ ~IsOpen(link) => ~Started(link) /\ ~link.pendingError
  /\ IsOpen(link) => ~IsHandshaking(tls) /\ peer.heard = 2 /\ peer.sent = peer.flights

\* Between the two questions of complete_connect the edge that started it is
\* still observed, and a socket that broke since then has armed its edges.
CallSound ==
  calling = "PeerAddr" =>
    /\ ~Ended
    /\ link.phase = "Connecting"
    /\ CanConnect(link)
    /\ Broken => BrokenFlags \subseteq armed

\* Every level the registered interest covers has its edge, observed or armed.
EdgeSound ==
  /\ "Error" \in link.readiness => Broken
  /\ ~Ended /\ Broken => BrokenFlags \subseteq armed \/ BrokenFlags \subseteq link.readiness
  /\ ~Ended /\ ~Broken /\ "Read" \in interest /\ (socket.input # <<>> \/ socket.fin) =>
       "Readable" \in armed \/ link.readiness \cap ReadFlags # {}
  /\ ~Ended /\ ~Broken /\ "Write" \in interest /\ socket.room > 0 =>
       "Writable" \in armed \/ link.readiness \cap WriteFlags # {}

\* What the ends that were reported rest on.
EndSound ==
  /\ answer = "Eof" => peer.closed /\ tls.closed /\ tls.plaintext = 0
  /\ answer = "Truncated" =>
       socket.fin /\ socket.input = <<>> /\ ~tls.closed /\ tls.plaintext = 0
  /\ tls.eof \/ link.eof = "Truncated" => answer = "Truncated"

TlsIInv ==
  /\ Shape
  /\ SocketSound
  /\ EngineSound
  /\ LinkSound
  /\ PhaseSound
  /\ CallSound
  /\ EdgeSound
  /\ EndSound

LEMMA TlsIInvImplies == TlsIInv => TlsInv
<1> SUFFICES ASSUME TlsIInv PROVE TlsInv
  OBVIOUS
<1> USE DEF TlsIInv
<1>1. TypeOK
  <2>1. SocketTypeOK
    BY DEF Shape, Sockets, SocketTypeOK, Directions
  <2>2. EngineTypeOK(tls)
    BY DEF Shape, Engines, EngineTypeOK
  <2>3. link \in [phase : Phases, readiness : SUBSET Flags, preference : Directions,
                  plaintextBytes : 0..(MaxPlaintext + RawUnits), eof : Eofs,
                  shutdown : {"NotStarted", "Started"}, pendingError : BOOLEAN]
    BY TlsAssumption, EngineAssumption DEF Shape, Links
  <2> QED
    BY <2>1, <2>2, <2>3 DEF Shape, TypeOK
<1>2. EndTruthful
  BY DEF EndSound, EndTruthful
<1>3. OpenAfterHandshake
  BY DEF PhaseSound, OpenAfterHandshake
<1>4. ShutdownMeansSent
  <2> SUFFICES ASSUME Started(link), ~WantsWrite(tls), answer \notin Failures
               PROVE  peer.bye /\ tls.sendable = <<>> /\ ~link.pendingError
    BY DEF ShutdownMeansSent, IsShutdownComplete
  <2>1. answer # "Failed" /\ ~tls.failed
    BY DEF Failures, LinkSound
  <2>2. tls.sendable = <<>> /\ tls.sentClose /\ ~link.pendingError
    BY <2>1 DEF LinkSound, WantsWrite
  <2>3. Received(tls, socket.input, peer)
    BY <2>1 DEF EngineSound
  <2> QED
    BY <2>2, <2>3 DEF Received
<1>5. NoLostEdge
  <2> SUFFICES ASSUME ~Ended, calling = "Idle",
                      interest = DesiredInterest(link, tls, writes > 0),
                      ~Runnable, armed = {}
               PROVE  /\ ~Broken
                      /\ WantsWrite(tls) \/ (IsOpen(link) /\ writes > 0) => socket.room = 0
                      /\ ~WantsWrite(tls) => socket.input = <<>> /\ ~socket.fin
    BY DEF NoLostEdge
  <2>1. /\ answer # "Failed" /\ answer # "Truncated"
        /\ Started(link) => WantsWrite(tls)
    BY DEF Ended, Failures, IsShutdownComplete
  <2>2. /\ ~tls.failed /\ link.plaintextBytes = tls.plaintext
        /\ link.eof = "Clean" <=> tls.closed
        /\ link.eof \in {"Live", "Clean"}
        /\ link.phase \in Phases
        /\ IsHandshaking(tls) => tls.plaintext = 0 /\ ~tls.closed
        /\ socket.room \in 0..MaxRoom
    BY <2>1 DEF LinkSound, EndSound, Shape, Links, Eofs, EngineSound, Received, Sockets
  <2>3. /\ ~CanEstablish(link, tls)
        /\ ~(IsOpen(link) /\ HasTransportWork(link, tls))
        /\ ~CanRead(link)
        /\ ~(writes > 0 /\ CanWrite(link, tls))
    BY DEF Runnable
  <2>4. link.phase \in {"Connecting", "Handshaking", "Open"}
    BY <2>2, <2>3 DEF Phases, CanEstablish
  <2>5. Broken => BrokenFlags \subseteq link.readiness
    BY DEF EdgeSound, BrokenFlags
  <2>6. ~Broken /\ "Read" \in interest /\ (socket.input # <<>> \/ socket.fin) =>
          link.readiness \cap ReadFlags # {}
    BY DEF EdgeSound
  <2>7. ~Broken /\ "Write" \in interest /\ socket.room > 0 =>
          link.readiness \cap WriteFlags # {}
    BY DEF EdgeSound
  <2>8. CASE link.phase = "Connecting"
    <3>1. ~CanConnect(link) /\ WantsWrite(tls) /\ "Write" \in interest
      BY <2>3, <2>8 DEF CanEstablish, PhaseSound, Directions
    <3>2. ~Broken
      BY <2>5, <3>1 DEF CanConnect, ConnectFlags, BrokenFlags
    <3>3. ~(socket.room > 0)
      BY <2>7, <3>1, <3>2 DEF CanConnect, ConnectFlags, WriteFlags
    <3> QED
      BY <2>2, <3>1, <3>2, <3>3, SocketAssumption
  <2>9. CASE link.phase # "Connecting"
    <3>1. ~CanTlsWrite(link, tls) /\ (~Started(link) => ~CanTlsRead(link, tls))
      <4>1. CASE link.phase = "Handshaking"
        BY <2>3, <4>1 DEF CanEstablish, CanTlsProgress
      <4>2. CASE link.phase = "Open"
        BY <2>3, <4>2 DEF HasTransportWork, CanTlsProgress, IsOpen
      <4> QED
        BY <2>4, <2>9, <4>1, <4>2
    <3>2. ~WantsWrite(tls) => ~Started(link) /\ link.eof = "Live" /\ WantsRead(tls)
      <4> SUFFICES ASSUME ~WantsWrite(tls)
                   PROVE  ~Started(link) /\ link.eof = "Live" /\ WantsRead(tls)
        OBVIOUS
      <4>1. CASE link.phase = "Handshaking"
        <5>1. IsHandshaking(tls)
          BY <2>1, <4>1 DEF PhaseSound
        <5>2. link.eof = "Live"
          BY <2>2, <5>1
        <5> QED
          BY <2>1, <2>2, <5>1, <5>2 DEF WantsRead
      <4>2. CASE link.phase = "Open"
        <5>1. ~IsHandshaking(tls)
          BY <4>2 DEF PhaseSound, IsOpen
        <5>2. link.plaintextBytes = 0 /\ link.eof # "Clean"
          BY <2>3, <4>2 DEF CanRead, CanReadPlaintext, IsOpen
        <5> QED
          BY <2>1, <2>2, <5>1, <5>2 DEF WantsRead
      <4> QED
        BY <2>4, <2>9, <4>1, <4>2
    <3>3. /\ ~WantsWrite(tls) => "Read" \in interest
          /\ WantsWrite(tls) \/ (IsOpen(link) /\ writes > 0) => "Write" \in interest
      BY <2>1, <2>4, <2>9, <3>2 DEF DesiredInterest, Directions
    <3>4. ~Broken
      BY <2>5, <3>1, <3>2 DEF CanTlsWrite, CanTlsRead, BrokenFlags, WriteFlags, ReadFlags
    <3>5. ~WantsWrite(tls) => socket.input = <<>> /\ ~socket.fin
      BY <2>6, <3>1, <3>2, <3>3, <3>4 DEF CanTlsRead
    <3>6. WantsWrite(tls) \/ (IsOpen(link) /\ writes > 0) => ~(socket.room > 0)
      <4> SUFFICES ASSUME WantsWrite(tls) \/ (IsOpen(link) /\ writes > 0), socket.room > 0
                   PROVE  FALSE
        OBVIOUS
      <4>1. link.readiness \cap WriteFlags # {}
        BY <2>7, <3>3, <3>4
      <4>2. CASE WantsWrite(tls)
        BY <3>1, <4>1, <4>2 DEF CanTlsWrite
      <4>3. CASE ~WantsWrite(tls)
        BY <2>3, <3>2, <4>1, <4>3 DEF CanWrite, CanAcceptPlaintext, CanRawWrite
      <4> QED
        BY <4>2, <4>3
    <3> QED
      BY <2>2, <3>4, <3>5, <3>6, SocketAssumption
  <2> QED
    BY <2>8, <2>9
<1> QED
  BY <1>1, <1>2, <1>3, <1>4, <1>5 DEF TlsInv

LEMMA TlsInit == Init => TlsIInv
<1> SUFFICES ASSUME Init PROVE TlsIInv
  OBVIOUS
<1>1. PICK version \in Versions :
        /\ tls = NewEngine(ClientScript(version), <<"Flight">>)
        /\ peer = [flights |-> Len(ClientScript(version)), sent |-> 0, heard |-> 0,
                   closed |-> FALSE, bye |-> FALSE]
        /\ socket = NewSocket
        /\ link = NewLink
        /\ interest = DesiredInterest(link, tls, FALSE)
        /\ armed = {}
        /\ keepalive \in Keepalives
        /\ calling = "Idle"
        /\ writes = 0
        /\ answer = "None"
  BY DEF Init
<1>2. version \in {12, 13}
  BY TlsAssumption
<1> DEFINE flights == IF version = 13 THEN 1 ELSE 2
<1>3. /\ ClientScript(version) \in Seq(Seq(Records))
      /\ ClientScript(version) # <<>>
      /\ Len(ClientScript(version)) = flights
      /\ ClientScript(version) = Script(flights, 0)
  <2>1. CASE version = 13
    BY <2>1 DEF ClientScript, Script, Records
  <2>2. CASE version = 12
    BY <2>2 DEF ClientScript, Script, Records
  <2> QED
    BY <1>2, <2>1, <2>2
<1>4. /\ tls.script = ClientScript(version) /\ tls.sendable = <<"Flight">>
      /\ tls.plaintext = 0 /\ ~tls.closed /\ ~tls.eof /\ ~tls.sentClose /\ ~tls.failed
  BY <1>1 DEF NewEngine
<1>5. /\ socket.connect = "Pending" /\ ~socket.error /\ ~socket.fin /\ ~socket.reset
      /\ socket.input = <<>> /\ socket.room = 0 /\ ~Broken
  BY <1>1 DEF NewSocket, Broken
<1>6. /\ link.phase = "Connecting" /\ link.readiness = {} /\ link.plaintextBytes = 0
      /\ link.eof = "Live" /\ link.shutdown = "NotStarted" /\ ~link.pendingError
  BY <1>1 DEF NewLink
<1>7. /\ peer.flights = flights /\ peer.sent = 0 /\ peer.heard = 0 /\ ~peer.closed /\ ~peer.bye
  BY <1>1, <1>3
<1>8. interest = Directions
  BY <1>1, <1>6 DEF DesiredInterest
<1>9. Shape
  <2>1. socket \in Sockets /\ Len(socket.input) <= MaxInput
    BY <1>1, SocketAssumption DEF NewSocket, Sockets
  <2>2. link \in Links
    BY <1>1, EngineAssumption DEF NewLink, Links, Phases, Eofs, Directions
  <2>3. tls \in Engines
    <3>1. <<"Flight">> \in Seq(Records)
      BY DEF Records
    <3> QED
      BY <1>1, <1>3, <3>1 DEF NewEngine, Engines
  <2>4. peer \in Peers
    BY <1>1, <1>3 DEF Peers
  <2>5. keepalive \in BOOLEAN /\ writes \in 0..MaxWrites
    BY <1>1, TlsAssumption
  <2> QED
    BY <1>1, <1>8, <2>1, <2>2, <2>3, <2>4, <2>5 DEF Shape
<1>10. EngineSound
  <2>1. Flights(socket.input, 0) /\ Flights(tls.sendable, 1)
    BY <1>4, <1>5 DEF Flights
  <2>2. HandshakeAt(tls, socket.input, peer, 0)
    BY <1>3, <1>4, <1>7, <2>1 DEF HandshakeAt
  <2>3. 0 \in 0..peer.flights
    BY <1>7
  <2> QED
    BY <1>4, <1>5, <2>2, <2>3 DEF EngineSound, Received
<1>11. SocketSound /\ CallSound /\ EdgeSound /\ EndSound
  <2>1. SocketSound
    BY <1>5 DEF SocketSound
  <2>2. CallSound
    BY <1>1 DEF CallSound
  <2>4. EdgeSound
    BY <1>5, <1>6 DEF EdgeSound
  <2>3. EndSound
    BY <1>1, <1>4, <1>6 DEF EndSound
  <2> QED
    BY <2>1, <2>2, <2>3, <2>4
<1>12. ~Started(link) /\ ~IsOpen(link) /\ WantsWrite(tls) /\ IsHandshaking(tls)
  BY <1>3, <1>4, <1>6 DEF Started, IsOpen, WantsWrite, IsHandshaking
<1>13. LinkSound
  BY <1>4, <1>6, <1>12 DEF LinkSound
<1>14. PhaseSound
  BY <1>5, <1>6, <1>8, <1>12 DEF PhaseSound
<1> QED
  BY <1>9, <1>10, <1>11, <1>13, <1>14 DEF TlsIInv

(***************************************************************************)
(* Flights on their way.                                                   *)
(***************************************************************************)
LEMMA FlightsQueue ==
  ASSUME NEW s \in Seq(Records), NEW r \in Seq(Records), NEW n \in {0, 1}, Flights(s, n)
  PROVE  /\ (\A j \in DOMAIN r : r[j] # "Flight") => Flights(s \o r, n)
         /\ n = 0 /\ r = <<"Flight">> => Flights(s \o r, 1)
<1>1. /\ Len(s \o r) = Len(s) + Len(r) /\ DOMAIN (s \o r) = 1..(Len(s) + Len(r))
      /\ \A i \in 1..Len(s) : (s \o r)[i] = s[i]
      /\ \A i \in (Len(s) + 1)..(Len(s) + Len(r)) : (s \o r)[i] = r[i - Len(s)]
      /\ Len(s) \in Nat /\ Len(r) \in Nat /\ DOMAIN s = 1..Len(s) /\ DOMAIN r = 1..Len(r)
  OBVIOUS
<1> DEFINE q == s \o r
<1> HIDE DEF q
<1>2. /\ DOMAIN q = 1..(Len(s) + Len(r))
      /\ \A i \in 1..Len(s) : q[i] = s[i]
      /\ \A i \in (Len(s) + 1)..(Len(s) + Len(r)) : i - Len(s) \in DOMAIN r /\ q[i] = r[i - Len(s)]
  BY <1>1 DEF q
<1>3. ASSUME \A j \in DOMAIN r : r[j] # "Flight" PROVE Flights(q, n)
  <2>1. \A i \in DOMAIN q : q[i] = "Flight" => i \in DOMAIN s /\ s[i] = "Flight"
    <3>1. ASSUME NEW i \in DOMAIN q, q[i] = "Flight" PROVE i \in 1..Len(s) /\ s[i] = "Flight"
      <4>1. i \in 1..Len(s) \/ i \in (Len(s) + 1)..(Len(s) + Len(r))
        BY <1>1, <1>2
      <4> QED
        BY <1>2, <1>3, <3>1, <4>1
    <3> QED
      BY <1>1, <3>1
  <2>2. CASE n = 0
    BY <2>1, <2>2 DEF Flights
  <2>3. CASE n = 1
    <3>1. PICK i \in DOMAIN s : s[i] = "Flight" /\ \A j \in DOMAIN s : s[j] = "Flight" => j = i
      BY <2>3 DEF Flights
    <3>2. i \in DOMAIN q /\ q[i] = "Flight"
      BY <1>1, <1>2, <3>1
    <3>3. \A j \in DOMAIN q : q[j] = "Flight" => j = i
      BY <2>1, <3>1
    <3> QED
      BY <2>3, <3>2, <3>3 DEF Flights
  <2> QED
    BY <2>2, <2>3
<1>4. ASSUME n = 0, r = <<"Flight">> PROVE Flights(q, 1)
  <2> DEFINE i == Len(s) + 1
  <2>1. Len(r) = 1 /\ r[1] = "Flight"
    BY <1>4
  <2>2. i \in DOMAIN q /\ q[i] = "Flight"
    BY <1>1, <1>2, <2>1
  <2>3. \A j \in DOMAIN q : q[j] = "Flight" => j = i
    BY <1>1, <1>2, <1>4, <2>1 DEF Flights
  <2> QED
    BY <2>2, <2>3 DEF Flights
<1> QED
  BY <1>3, <1>4 DEF q

LEMMA FlightsAppend ==
  ASSUME NEW s \in Seq(Records), NEW r \in Records, NEW n \in {0, 1}, Flights(s, n)
  PROVE  /\ r # "Flight" => Flights(Append(s, r), n)
         /\ n = 0 /\ r = "Flight" => Flights(Append(s, r), 1)
<1>1. /\ Append(s, r) = s \o <<r>> /\ <<r>> \in Seq(Records)
      /\ DOMAIN <<r>> = {1} /\ <<r>>[1] = r
  OBVIOUS
<1>2. /\ (\A j \in DOMAIN <<r>> : <<r>>[j] # "Flight") => Flights(s \o <<r>>, n)
      /\ n = 0 /\ <<r>> = <<"Flight">> => Flights(s \o <<r>>, 1)
  BY <1>1, FlightsQueue
<1> QED
  BY <1>1, <1>2

\* What is left when the first records are gone.
LEMMA FlightsLeft ==
  ASSUME NEW s \in Seq(Records), NEW count \in 1..Len(s), NEW n \in {0, 1}, Flights(s, n)
  PROVE  LET gone == Cardinality({i \in 1..count : s[i] = "Flight"})
             left == SubSeq(s, count + 1, Len(s))
         IN  /\ gone \in {0, 1} /\ gone <= n
             /\ Flights(left, n - gone)
             /\ gone = 1 <=> \E i \in 1..count : s[i] = "Flight"
<1> DEFINE S == {i \in 1..count : s[i] = "Flight"}
           gone == Cardinality(S)
           left == SubSeq(s, count + 1, Len(s))
<1>1. /\ Len(left) = Len(s) - count /\ DOMAIN left = 1..(Len(s) - count)
      /\ \A i \in DOMAIN left : left[i] = s[i + count] /\ i + count \in DOMAIN s
      /\ Len(s) \in Nat /\ DOMAIN s = 1..Len(s) /\ count \in 1..Len(s)
  OBVIOUS
<1> HIDE DEF left
<1>2. CASE S = {}
  <2>1. gone = 0
    BY <1>2, FS_EmptySet
  <2>2. \A i \in 1..count : s[i] # "Flight"
    BY <1>2
  <2>3. CASE n = 0
    <3>1. \A i \in DOMAIN left : left[i] # "Flight"
      BY <1>1, <2>3 DEF Flights
    <3> QED
      BY <2>1, <2>2, <2>3, <3>1 DEF Flights, left
  <2>4. CASE n = 1
    <3>1. PICK i \in DOMAIN s : s[i] = "Flight" /\ \A j \in DOMAIN s : s[j] = "Flight" => j = i
      BY <2>4 DEF Flights
    <3>2. i - count \in DOMAIN left /\ left[i - count] = "Flight"
      BY <1>1, <2>2, <3>1
    <3>3. \A j \in DOMAIN left : left[j] = "Flight" => j = i - count
      BY <1>1, <3>1
    <3>4. Flights(left, 1)
      BY <3>2, <3>3 DEF Flights
    <3> QED
      BY <2>1, <2>2, <2>4, <3>4 DEF left
  <2> QED
    BY <2>3, <2>4
<1>3. CASE S # {}
  <2>1. PICK i \in 1..count : s[i] = "Flight"
    BY <1>3
  <2>2. n = 1 /\ \A j \in DOMAIN s : s[j] = "Flight" => j = i
    BY <1>1, <2>1 DEF Flights
  <2>3. S = {i}
    BY <1>1, <2>1, <2>2
  <2>4. gone = 1
    BY <2>3, FS_Singleton
  <2>5. \A j \in DOMAIN left : left[j] # "Flight"
    BY <1>1, <2>1, <2>2
  <2>6. Flights(left, 0)
    BY <2>5 DEF Flights
  <2> QED
    BY <2>1, <2>2, <2>4, <2>6 DEF left
<1> QED
  BY <1>2, <1>3

\* The same, one record at a time.
LEMMA FlightsTail ==
  ASSUME NEW s \in Seq(Records), s # <<>>, NEW n \in {0, 1}, Flights(s, n)
  PROVE  /\ Head(s) # "Flight" => Flights(Tail(s), n)
         /\ Head(s) = "Flight" => n = 1 /\ Flights(Tail(s), 0)
<1>1. /\ 1 \in 1..Len(s) /\ Head(s) = s[1] /\ Tail(s) = SubSeq(s, 1 + 1, Len(s))
  OBVIOUS
<1> DEFINE gone == Cardinality({i \in 1..1 : s[i] = "Flight"})
<1>2. /\ gone \in {0, 1} /\ gone <= n
      /\ Flights(Tail(s), n - gone)
      /\ gone = 1 <=> \E i \in 1..1 : s[i] = "Flight"
  BY <1>1, FlightsLeft
<1> HIDE DEF gone
<1>3. gone = 1 <=> Head(s) = "Flight"
  BY <1>1, <1>2
<1> QED
  BY <1>2, <1>3

LEMMA ScriptFacts ==
  ASSUME NEW flights \in {1, 2}, NEW answered \in 0..flights
  PROVE  /\ Script(flights, answered) = <<>> <=> answered = flights
         /\ answered < flights =>
              /\ answered + 1 \in 0..flights
              /\ Tail(Script(flights, answered)) = Script(flights, answered + 1)
              /\ Head(Script(flights, answered)) = IF answered = 0 THEN <<"Flight">> ELSE <<>>
<1>1. CASE answered = flights
  BY <1>1 DEF Script
<1>2. CASE answered = 0 /\ flights = 1
  BY <1>2 DEF Script, ClientScript
<1>3. CASE answered = 0 /\ flights = 2
  BY <1>3 DEF Script, ClientScript
<1>4. CASE answered = 1 /\ flights = 2
  BY <1>4 DEF Script
<1> QED
  BY <1>1, <1>2, <1>3, <1>4

(***************************************************************************)
(* What a record read from the socket does.                                *)
(***************************************************************************)
LEMMA RecordReceived ==
  ASSUME NEW t \in Engines, NEW input \in Seq(Records), input # <<>>, NEW p \in Peers,
         t.failed \/ Received(t, input, p)
  PROVE  LET u == ProcessRecord(t, Head(input))
         IN  u.failed \/ Received(u, Tail(input), p)
<1> DEFINE r == Head(input)
           u == ProcessRecord(t, r)
           rest == Tail(input)
<1> SUFFICES ASSUME ~u.failed PROVE Received(u, rest, p)
  OBVIOUS
<1>1. r \in Records /\ rest \in Seq(Records) /\ Len(rest) = Len(input) - 1
  OBVIOUS
<1>2. /\ u \in Engines /\ u.eof = t.eof /\ u.sentClose = t.sentClose
      /\ Ignores(t, r, u) \/ Acts(t, r, u) \/ Rejects(t, r, u)
  BY <1>1, RecordEffect
<1>3. /\ \A i \in DOMAIN rest : rest[i] = input[i + 1] /\ i + 1 \in DOMAIN input
      /\ 1 \in DOMAIN input /\ r = input[1] /\ Len(input) \in Nat
  OBVIOUS
<1> HIDE DEF r, u, rest
<1>4. ~t.failed /\ ~Rejects(t, r, u)
  BY <1>2 DEF Ignores, Acts, Rejects
<1>5. Received(t, input, p)
  BY <1>4
<1>6. ~t.closed
  BY <1>5 DEF Received
<1>7. \A i \in DOMAIN rest : rest[i] = "CloseNotify" => p.closed /\ i = Len(rest)
  BY <1>1, <1>3, <1>5 DEF Received
<1>8. r = "CloseNotify" => p.closed /\ rest = <<>>
  <2> SUFFICES ASSUME r = "CloseNotify" PROVE p.closed /\ rest = <<>>
    OBVIOUS
  <2>1. p.closed /\ Len(input) = 1
    BY <1>3, <1>5 DEF Received
  <2> QED
    BY <1>1, <2>1
<1>9. PICK answered \in 0..p.flights : HandshakeAt(t, input, p, answered)
  BY <1>4, <1>5 DEF Received
<1>10. /\ p.flights \in {1, 2} /\ p.sent \in 0..2 /\ p.heard \in 0..2
       /\ t.sendable \in Seq(Records)
  BY DEF Peers, Engines
<1> DEFINE coming == p.sent - answered
           going == (IF answered = 0 THEN 1 ELSE 2) - p.heard
<1>11. /\ t.script = Script(p.flights, answered)
       /\ answered <= p.sent /\ p.sent <= p.heard /\ p.sent <= p.flights
       /\ Flights(input, coming) /\ Flights(t.sendable, going)
  BY <1>9 DEF HandshakeAt
<1>12. coming \in {0, 1} /\ going \in {0, 1}
  BY <1>10, <1>11 DEF Flights
<1>13. IsHandshaking(t) <=> answered < p.flights
  BY <1>10, <1>11, ScriptFacts DEF IsHandshaking
<1>14. /\ r # "Flight" => Flights(rest, coming)
       /\ r = "Flight" => coming = 1 /\ Flights(rest, 0)
  BY <1>11, <1>12, FlightsTail DEF r, rest
<1> HIDE DEF coming, going
<1>15. CASE r # "Flight"
  <2>1. /\ u.script = t.script
        /\ u.closed => r = "CloseNotify" /\ ~IsHandshaking(t)
        /\ u.plaintext = t.plaintext \/ ~IsHandshaking(t)
        /\ u.sendable = t.sendable \/ u.sendable = t.sendable \o <<"KeyUpdate">>
    BY <1>2, <1>4, <1>6, <1>15 DEF Ignores, Acts
  <2>2. /\ <<"KeyUpdate">> \in Seq(Records)
        /\ \A j \in DOMAIN <<"KeyUpdate">> : <<"KeyUpdate">>[j] # "Flight"
    BY DEF Records
  <2>3. Flights(u.sendable, going)
    BY <1>10, <1>11, <1>12, <2>1, <2>2, FlightsQueue
  <2>4. (\E i \in DOMAIN t.sendable : t.sendable[i] = "CloseNotify") =>
          \E i \in DOMAIN u.sendable : u.sendable[i] = "CloseNotify"
    <3>1. CASE u.sendable = t.sendable
      BY <3>1
    <3>2. CASE u.sendable = t.sendable \o <<"KeyUpdate">>
      <4>1. \A i \in DOMAIN t.sendable : /\ i \in DOMAIN (t.sendable \o <<"KeyUpdate">>)
                                         /\ (t.sendable \o <<"KeyUpdate">>)[i] = t.sendable[i]
        BY <1>10, <2>2
      <4> QED
        BY <3>2, <4>1
    <3> QED
      BY <2>1, <3>1, <3>2
  <2>5. HandshakeAt(u, rest, p, answered)
    BY <1>11, <1>14, <1>15, <2>1, <2>3 DEF HandshakeAt, coming, going
  <2>6. u.sentClose => p.bye \/ \E i \in DOMAIN u.sendable : u.sendable[i] = "CloseNotify"
    BY <1>2, <1>5, <2>4 DEF Received
  <2>7. IsHandshaking(u) => u.plaintext = 0 /\ ~u.closed
    BY <1>5, <2>1 DEF Received, IsHandshaking
  <2>8. u.closed => p.closed /\ rest = <<>>
    BY <1>8, <2>1
  <2> QED
    BY <1>7, <2>5, <2>6, <2>7, <2>8 DEF Received
<1>16. CASE r = "Flight"
  <2>1. answered < p.flights /\ coming = 1 /\ Flights(rest, 0)
    BY <1>10, <1>11, <1>14, <1>16 DEF coming
  <2>2. /\ u.script = Tail(t.script) /\ u.sendable = t.sendable \o Head(t.script)
        /\ u.plaintext = t.plaintext /\ ~u.closed
    BY <1>2, <1>4, <1>6, <1>16 DEF Ignores, Acts
  <2>3. /\ answered + 1 \in 0..p.flights
        /\ u.script = Script(p.flights, answered + 1)
        /\ u.sendable = t.sendable \o (IF answered = 0 THEN <<"Flight">> ELSE <<>>)
    <3>1. /\ answered + 1 \in 0..p.flights
          /\ Tail(Script(p.flights, answered)) = Script(p.flights, answered + 1)
          /\ Head(Script(p.flights, answered)) = IF answered = 0 THEN <<"Flight">> ELSE <<>>
      BY <1>10, <2>1, ScriptFacts
    <3> QED
      BY <1>11, <2>2, <3>1
  <2>4. Flights(u.sendable, 2 - p.heard)
    <3>1. CASE answered = 0
      <4>1. going = 0 /\ p.heard = 1
        BY <1>10, <1>11, <1>12, <2>1, <3>1 DEF coming, going
      <4>2. u.sendable = t.sendable \o <<"Flight">> /\ <<"Flight">> \in Seq(Records)
        BY <2>3, <3>1 DEF Records
      <4>3. Flights(u.sendable, 1)
        BY <1>10, <1>11, <4>1, <4>2, FlightsQueue
      <4> QED
        BY <4>1, <4>3
    <3>2. CASE answered # 0
      <4>1. u.sendable = t.sendable
        BY <1>10, <2>3, <3>2
      <4> QED
        BY <1>11, <3>2, <4>1 DEF going
    <3> QED
      BY <3>1, <3>2
  <2>5. (\E i \in DOMAIN t.sendable : t.sendable[i] = "CloseNotify") =>
          \E i \in DOMAIN u.sendable : u.sendable[i] = "CloseNotify"
    <3> DEFINE h == IF answered = 0 THEN <<"Flight">> ELSE <<>>
    <3>1. h \in Seq(Records)
      <4>1. <<"Flight">> \in Seq(Records) /\ <<>> \in Seq(Records)
        BY DEF Records
      <4> QED
        BY <4>1
    <3>2. u.sendable = t.sendable \o h
      BY <2>3
    <3> HIDE DEF h
    <3>3. \A i \in DOMAIN t.sendable : /\ i \in DOMAIN (t.sendable \o h)
                                       /\ (t.sendable \o h)[i] = t.sendable[i]
      BY <1>10, <3>1
    <3> QED
      BY <3>2, <3>3
  <2>6. HandshakeAt(u, rest, p, answered + 1)
    <3>1. p.sent - (answered + 1) = 0 /\ answered + 1 <= p.sent /\ answered + 1 # 0
      BY <1>10, <1>11, <2>1 DEF coming
    <3> QED
      BY <1>11, <2>1, <2>3, <2>4, <3>1 DEF HandshakeAt
  <2>7. u.sentClose => p.bye \/ \E i \in DOMAIN u.sendable : u.sendable[i] = "CloseNotify"
    BY <1>2, <1>5, <2>5 DEF Received
  <2>8. u.plaintext = 0
    BY <1>5, <1>13, <2>1, <2>2 DEF Received
  <2> QED
    BY <1>7, <2>2, <2>3, <2>6, <2>7, <2>8 DEF Received
<1> QED
  BY <1>15, <1>16

\* What one read_tls takes from the socket does no more than its records.
LEMMA ReadReceived ==
  ASSUME NEW t \in Engines, NEW input \in Seq(Records), NEW p \in Peers,
         NEW count \in 1..Len(input), t.failed \/ Received(t, input, p)
  PROVE  LET u == Process(t, SubSeq(input, 1, count))
             rest == SubSeq(input, count + 1, Len(input))
         IN  /\ u \in Engines
             /\ rest \in Seq(Records) /\ Len(rest) <= Len(input)
             /\ u.failed \/ Received(u, rest, p)
             /\ u.eof = t.eof /\ u.sentClose = t.sentClose
             /\ ~IsHandshaking(t) => ~IsHandshaking(u)
<1> DEFINE records == SubSeq(input, 1, count)
           Left(n) == SubSeq(input, n + 1, Len(input))
<1>1. /\ records \in Seq(Records) /\ Len(records) = count /\ count \in Nat
      /\ \A i \in 1..count : records[i] = input[i]
  OBVIOUS
<1>2. PICK after \in [0..count -> Engines] :
        /\ after[0] = t
        /\ \A i \in 1..count : after[i] = ProcessRecord(after[i - 1], records[i])
        /\ after[count] = Process(t, records)
  <2> HIDE DEF records
  <2> QED
    BY <1>1, ProcessIterates
<1> HIDE DEF records
<1> DEFINE Good(n) == /\ after[n].failed \/ Received(after[n], Left(n), p)
                      /\ after[n].eof = t.eof /\ after[n].sentClose = t.sentClose
                      /\ ~IsHandshaking(t) => ~IsHandshaking(after[n])
           G == {n \in 0..count : Good(n)}
<1>3. 0 \in G
  <2>1. Left(0) = input /\ 0 \in 0..count
    BY <1>1
  <2>2. after[0] = t
    BY <1>2
  <2> HIDE DEF Left
  <2>3. Good(0)
    BY <2>1, <2>2
  <2> QED
    BY <2>1, <2>3
<1>4. ASSUME NEW n \in 0..(count - 1), n \in G PROVE n + 1 \in G
  <2>1. /\ n + 1 \in 1..count /\ n + 1 \in 0..count /\ n \in 0..count
        /\ (n + 1) - 1 = n
        /\ Left(n) \in Seq(Records) /\ Left(n) # <<>>
        /\ Head(Left(n)) = input[n + 1] /\ Tail(Left(n)) = Left(n + 1)
    <3>1. /\ n + 1 \in 1..count /\ n + 1 \in 0..count /\ n \in 0..count
          /\ (n + 1) - 1 = n /\ n + 1 \in 1..Len(input)
      BY <1>1
    <3>2. /\ Left(n) \in Seq(Records) /\ Len(Left(n)) = Len(input) - n /\ Left(n) # <<>>
          /\ Left(n)[1] = input[n + 1] /\ Head(Left(n)) = Left(n)[1]
      BY <3>1
    <3>3. Tail(Left(n)) = Left(n + 1)
      <4> DEFINE a == Tail(Left(n))
                 b == Left(n + 1)
      <4>1. /\ Len(a) = Len(b) /\ a \in Seq(Records) /\ b \in Seq(Records)
            /\ \A i \in 1..Len(a) : a[i] = b[i]
        <5>1. a \in Seq(Records) /\ Len(a) = Len(input) - (n + 1)
          BY <3>1, <3>2
        <5>2. b \in Seq(Records) /\ Len(b) = Len(input) - (n + 1)
          BY <3>1
        <5>3. ASSUME NEW i \in 1..Len(a) PROVE a[i] = b[i]
          <6>1. i \in Nat /\ i + 1 \in 1..Len(Left(n)) /\ i \in 1..Len(b)
            <7>1. n \in Nat /\ Len(input) \in Nat /\ Len(Left(n)) = Len(input) - n
              BY <1>1, <3>2
            <7> HIDE DEF a, b, Left
            <7> QED
              BY <5>1, <5>2, <7>1
          <6>2. a[i] = Left(n)[i + 1]
            BY <3>2, <6>1
          <6>3. b[i] = input[n + 1 + i]
            BY <3>1, <5>2, <6>1
          <6>4. Left(n)[i + 1] = input[n + 1 + i]
            BY <3>1, <6>1
          <6> QED
            BY <6>2, <6>3, <6>4
        <5> QED
          BY <5>1, <5>2, <5>3
      <4> HIDE DEF a, b
      <4>2. a = b
        BY <4>1, SeqEqual
      <4> QED
        BY <4>2 DEF a, b
    <3> QED
      BY <3>1, <3>2, <3>3
  <2> DEFINE v == after[n]
             in == Left(n)
             next == Left(n + 1)
             u == after[n + 1]
  <2>2. /\ v \in Engines
        /\ u = ProcessRecord(v, Head(in))
    BY <1>1, <1>2, <2>1
  <2>3. in \in Seq(Records) /\ in # <<>> /\ Tail(in) = next /\ Head(in) \in Records
    BY <2>1
  <2>4. /\ v.failed \/ Received(v, in, p)
        /\ v.eof = t.eof /\ v.sentClose = t.sentClose
        /\ ~IsHandshaking(t) => ~IsHandshaking(v)
    BY <1>4
  <2> HIDE DEF v, in, next, u
  <2>5. u.failed \/ Received(u, next, p)
    BY <2>2, <2>3, <2>4, RecordReceived
  <2>6. /\ u \in Engines /\ u.eof = v.eof /\ u.sentClose = v.sentClose
        /\ Ignores(v, Head(in), u) \/ Acts(v, Head(in), u) \/ Rejects(v, Head(in), u)
    BY <2>2, <2>3, RecordEffect
  <2>7. ~IsHandshaking(v) => ~IsHandshaking(u)
    BY <2>6 DEF Ignores, Acts, Rejects, IsHandshaking
  <2>8. Good(n + 1)
    BY <2>4, <2>5, <2>6, <2>7 DEF u, next
  <2> QED
    BY <2>1, <2>8
<1>5. Good(count)
  <2>1. 0..count \subseteq G
    <3> HIDE DEF G
    <3> QED
      BY <1>1, <1>3, <1>4, BoundedInduction
  <2> QED
    BY <1>1, <2>1
<1>6. after[count] \in Engines
  BY <1>1, <1>2
<1>7. Left(count) \in Seq(Records) /\ Len(Left(count)) <= Len(input)
  OBVIOUS
<1> HIDE DEF Left
<1>8. /\ after[count] \in Engines
      /\ Left(count) \in Seq(Records) /\ Len(Left(count)) <= Len(input)
      /\ after[count].failed \/ Received(after[count], Left(count), p)
      /\ after[count].eof = t.eof /\ after[count].sentClose = t.sentClose
      /\ ~IsHandshaking(t) => ~IsHandshaking(after[count])
  BY <1>5, <1>6, <1>7
<1> QED
  BY <1>2, <1>8 DEF records, Left

(***************************************************************************)
(* The kernel and the server.                                              *)
(***************************************************************************)

\* The kernel's view after each of its steps.
LEMMA SocketAfter ==
  ASSUME NEW s \in Sockets
  PROVE  /\ [s EXCEPT !.connect = "Up", !.room = MaxRoom] \in Sockets
         /\ [s EXCEPT !.connect = "Refused", !.error = TRUE] \in Sockets
         /\ [s EXCEPT !.reset = TRUE, !.error = TRUE] \in Sockets
         /\ [s EXCEPT !.fin = TRUE] \in Sockets
         /\ \A room \in 0..MaxRoom : [s EXCEPT !.room = room] \in Sockets
         /\ \A input \in Seq(Records) : [s EXCEPT !.input = input] \in Sockets
<1>1. MaxRoom \in 0..MaxRoom
  BY SocketAssumption
<1>2. /\ [s EXCEPT !.connect = "Up", !.room = MaxRoom] \in Sockets
      /\ [s EXCEPT !.connect = "Refused", !.error = TRUE] \in Sockets
  BY <1>1 DEF Sockets
<1>3. /\ [s EXCEPT !.reset = TRUE, !.error = TRUE] \in Sockets
      /\ [s EXCEPT !.fin = TRUE] \in Sockets
  BY DEF Sockets
<1>4. ASSUME NEW room \in 0..MaxRoom PROVE [s EXCEPT !.room = room] \in Sockets
  BY DEF Sockets
<1>5. ASSUME NEW input \in Seq(Records) PROVE [s EXCEPT !.input = input] \in Sockets
  BY DEF Sockets
<1> QED
  BY <1>2, <1>3, <1>4, <1>5

\* Who leaves the adapter alone, takes nothing back and arms an edge for
\* whatever is new keeps the invariant.
LEMMA EnvironmentKeeps ==
  ASSUME TlsIInv,
         link' = link, tls' = tls, keepalive' = keepalive, calling' = calling,
         writes' = writes, answer' = answer, interest' = interest,
         socket' \in Sockets, Len(socket'.input) <= MaxInput,
         armed' \subseteq Flags, armed \subseteq armed', peer' \in Peers,
         SocketSound', EngineSound',
         socket.connect = "Up" => socket'.connect = "Up",
         socket'.connect = "Up" /\ (socket.connect = "Up" => socket.room > 0) => socket'.room > 0,
         socket.fin => socket'.fin /\ socket'.input = socket.input,
         peer.closed => peer'.closed,
         peer'.heard = peer.heard, peer'.flights = peer.flights,
         peer.sent = peer.flights => peer'.sent = peer.sent,
         Broken => Broken',
         Broken' => Broken \/ BrokenFlags \subseteq armed',
         ~Broken' /\ "Read" \in interest /\ (socket'.input # <<>> \/ socket'.fin) =>
           socket.input # <<>> \/ socket.fin \/ "Readable" \in armed',
         ~Broken' /\ "Write" \in interest /\ socket'.room > 0 =>
           socket.room > 0 \/ "Writable" \in armed'
  PROVE  TlsIInv'
<1>1. /\ Shape /\ SocketSound /\ EngineSound /\ LinkSound /\ PhaseSound
      /\ CallSound /\ EdgeSound /\ EndSound
  BY DEF TlsIInv
<1>2. Shape'
  BY <1>1 DEF Shape
<1>3. LinkSound'
  BY <1>1 DEF LinkSound, Started
<1>4. PhaseSound'
  BY <1>1 DEF PhaseSound, IsOpen, Started, WantsWrite, IsHandshaking
<1>5. Ended' <=> Ended
  BY DEF Ended, IsShutdownComplete, Started, WantsWrite
<1>6. CallSound'
  BY <1>1, <1>5 DEF CallSound, CanConnect
<1>7. EdgeSound'
  BY <1>1, <1>5 DEF EdgeSound
<1>8. EndSound'
  BY <1>1 DEF EndSound
<1> QED
  BY <1>2, <1>3, <1>4, <1>6, <1>7, <1>8 DEF TlsIInv

LEMMA KernelKeeps == TlsIInv /\ Kernel => TlsIInv'
<1> SUFFICES ASSUME TlsIInv, Kernel PROVE TlsIInv'
  OBVIOUS
<1> USE SocketAssumption
<1>1. /\ link' = link /\ tls' = tls /\ keepalive' = keepalive /\ calling' = calling
      /\ writes' = writes /\ answer' = answer /\ peer' = peer
  BY DEF Kernel, adapterVars
<1>2. /\ socket \in Sockets /\ Shape /\ SocketSound /\ EngineSound
      /\ socket.input \in Seq(Records)
      /\ Len(socket.input) <= MaxInput
      /\ socket.room \in 0..MaxRoom
      /\ armed \subseteq Flags /\ peer' \in Peers
  BY <1>1 DEF TlsIInv, Shape, Sockets
<1>3. CASE Connects
  <2>1. socket' \in Sockets
    BY <1>2, <1>3, SocketAfter DEF Connects
  <2>2. /\ socket'.connect = "Up" /\ socket'.error = socket.error
        /\ socket'.fin = socket.fin /\ socket'.reset = socket.reset
        /\ socket'.input = socket.input /\ socket'.room = MaxRoom
        /\ socket.connect = "Pending"
    BY <1>2, <1>3 DEF Connects, Sockets
  <2>3. interest' = interest /\ armed' = armed \cup ({"Writable"} \cap Watched(interest))
    BY <1>3 DEF Connects, Raise
  <2>4. SocketSound' /\ ~Broken' /\ ~Broken
    BY <1>2, <2>2 DEF SocketSound, Broken
  <2>5. EngineSound'
    BY <1>1, <1>2, <2>2 DEF EngineSound
  <2>6. "Write" \in interest => "Writable" \in armed'
    BY <2>3 DEF Watched
  <2>7. armed' \subseteq Flags
    BY <1>2, <2>3 DEF Flags
  <2> QED
    BY <1>1, <1>2, <2>1, <2>2, <2>3, <2>4, <2>5, <2>6, <2>7, EnvironmentKeeps
<1>4. CASE Breaks
  <2>1. /\ socket' \in Sockets /\ Broken' /\ socket'.error
        /\ ~Broken
        /\ (socket.connect # "Up" => socket'.connect # "Up" /\ ~socket'.reset)
        /\ (socket.connect = "Up" => socket'.connect = "Up")
        /\ socket'.fin = socket.fin /\ socket'.input = socket.input /\ socket'.room = socket.room
    <3>1. CASE socket' = [socket EXCEPT !.connect = "Refused", !.error = TRUE]
               /\ socket.connect = "Pending"
      <4>1. socket' \in Sockets
        BY <1>2, <3>1, SocketAfter
      <4>2. ~socket.reset
        BY <1>2, <3>1 DEF SocketSound
      <4> QED
        BY <1>2, <3>1, <4>1, <4>2 DEF Sockets, Broken
    <3>2. CASE socket' = [socket EXCEPT !.reset = TRUE, !.error = TRUE]
               /\ socket.connect = "Up" /\ ~socket.reset
      <4>1. socket' \in Sockets
        BY <1>2, <3>2, SocketAfter
      <4> QED
        BY <1>2, <3>2, <4>1 DEF Sockets, Broken
    <3> QED
      BY <1>4, <3>1, <3>2 DEF Breaks
  <2>2. interest' = interest /\ armed' = armed \cup BrokenFlags /\ armed' \subseteq Flags
    BY <1>2, <1>4 DEF Breaks, BrokenFlags, Flags
  <2>3. SocketSound'
    BY <1>2, <2>1 DEF SocketSound
  <2>4. EngineSound'
    BY <1>1, <1>2, <2>1 DEF EngineSound
  <2>5. socket'.connect = "Up" => socket.connect = "Up"
    BY <2>1
  <2> QED
    BY <1>1, <1>2, <2>1, <2>2, <2>3, <2>4, <2>5, EnvironmentKeeps
<1>5. CASE PeerCloses
  <2>1. socket' \in Sockets
    BY <1>2, <1>5, SocketAfter DEF PeerCloses
  <2>2. /\ socket'.connect = socket.connect /\ socket'.error = socket.error
        /\ socket'.fin = TRUE /\ socket'.reset = socket.reset
        /\ socket'.input = socket.input /\ socket'.room = socket.room
        /\ socket.connect = "Up" /\ ~socket.fin
    BY <1>2, <1>5 DEF PeerCloses, Sockets
  <2>3. /\ interest' = interest
        /\ armed' = armed \cup ({"Readable", "ReadClosed"} \cap Watched(interest))
    BY <1>5 DEF PeerCloses, Raise
  <2>4. SocketSound' /\ (Broken' <=> Broken)
    BY <1>2, <2>2 DEF SocketSound, Broken
  <2>5. EngineSound'
    BY <1>1, <1>2, <2>2 DEF EngineSound
  <2>6. "Read" \in interest => "Readable" \in armed'
    BY <2>3 DEF Watched
  <2>7. armed' \subseteq Flags
    BY <1>2, <2>3 DEF Flags
  <2> QED
    BY <1>1, <1>2, <2>1, <2>2, <2>3, <2>4, <2>5, <2>6, <2>7, EnvironmentKeeps
<1>6. CASE PeerReads
  <2>1. socket' \in Sockets
    <3>1. socket.room + 1 \in 0..MaxRoom
      BY <1>2, <1>6 DEF PeerReads
    <3>2. socket' = [socket EXCEPT !.room = socket.room + 1]
      BY <1>2, <1>6 DEF PeerReads, Sockets
    <3> QED
      BY <1>2, <3>1, <3>2, SocketAfter
  <2>2. /\ socket'.connect = socket.connect /\ socket'.error = socket.error
        /\ socket'.fin = socket.fin /\ socket'.reset = socket.reset
        /\ socket'.input = socket.input /\ socket'.room = socket.room + 1
        /\ socket.connect = "Up"
    BY <1>2, <1>6 DEF PeerReads, Sockets
  <2>3. /\ interest' = interest
        /\ armed' = armed \cup (IF socket.room = 0 THEN {"Writable"} \cap Watched(interest) ELSE {})
    BY <1>6 DEF PeerReads, Raise
  <2>4. SocketSound' /\ (Broken' <=> Broken)
    BY <1>2, <2>2 DEF SocketSound, Broken
  <2>5. EngineSound'
    BY <1>1, <1>2, <2>2 DEF EngineSound
  <2>6. "Write" \in interest => socket.room > 0 \/ "Writable" \in armed'
    BY <1>2, <2>3 DEF Watched
  <2>7. armed' \subseteq Flags
    BY <1>2, <2>3 DEF Flags
  <2>8. socket'.room > 0
    BY <1>2, <2>2
  <2> QED
    BY <1>1, <1>2, <2>1, <2>2, <2>3, <2>4, <2>5, <2>6, <2>7, <2>8, EnvironmentKeeps
<1> QED
  BY <1>3, <1>4, <1>5, <1>6 DEF Kernel

\* A record on its way adds nothing rustls has seen.
LEMMA SendReceived ==
  ASSUME NEW t \in Engines, NEW input \in Seq(Records), NEW p \in Peers, NEW q \in Peers,
         NEW record \in Records, Received(t, input, p), ~p.closed,
         q.flights = p.flights, q.heard = p.heard, q.bye = p.bye,
         q.closed <=> record = "CloseNotify",
         \/ record # "Flight" /\ q.sent = p.sent
         \/ record = "Flight" /\ p.sent < p.heard /\ p.sent < p.flights /\ q.sent = p.sent + 1
  PROVE  Received(t, Append(input, record), q)
<1> DEFINE more == Append(input, record)
<1>1. /\ Len(more) = Len(input) + 1 /\ DOMAIN more = 1..(Len(input) + 1)
      /\ \A i \in DOMAIN input : i \in 1..Len(input) /\ more[i] = input[i]
      /\ more[Len(input) + 1] = record
      /\ DOMAIN input = 1..Len(input) /\ Len(input) \in Nat
  OBVIOUS
<1>2. \A i \in DOMAIN input : input[i] # "CloseNotify"
  BY DEF Received
<1>3. \A i \in DOMAIN more : more[i] = "CloseNotify" => q.closed /\ i = Len(more)
  <2> HIDE DEF more
  <2> QED
    BY <1>1, <1>2
<1>4. ~t.closed
  BY DEF Received
<1>5. ASSUME ~t.failed PROVE \E answered \in 0..q.flights : HandshakeAt(t, more, q, answered)
  <2>1. PICK answered \in 0..p.flights : HandshakeAt(t, input, p, answered)
    BY <1>5 DEF Received
  <2>2. /\ p.flights \in {1, 2} /\ p.sent \in 0..2 /\ p.heard \in 0..2 /\ q.sent \in 0..2
        /\ answered \in 0..2
    BY DEF Peers
  <2> DEFINE coming == p.sent - answered
             going == (IF answered = 0 THEN 1 ELSE 2) - p.heard
  <2>3. /\ t.script = Script(p.flights, answered)
        /\ answered <= p.sent /\ p.sent <= p.heard /\ p.sent <= p.flights
        /\ Flights(input, coming) /\ Flights(t.sendable, going)
    BY <2>1 DEF HandshakeAt
  <2>4. coming \in {0, 1} /\ going \in {0, 1}
    BY <2>2, <2>3 DEF Flights
  <2>5. record = "Flight" => coming = 0
    BY <2>2, <2>3, <2>4
  <2>6. Flights(more, q.sent - answered)
    <3>1. CASE record # "Flight"
      <4>1. q.sent - answered = coming
        BY <3>1
      <4> HIDE DEF coming
      <4> QED
        BY <2>3, <2>4, <3>1, <4>1, FlightsAppend
    <3>2. CASE record = "Flight"
      <4>1. q.sent - answered = 1 /\ Flights(input, 0)
        BY <2>2, <2>3, <2>5, <3>2
      <4> QED
        BY <3>2, <4>1, FlightsAppend
    <3> QED
      BY <3>1, <3>2
  <2>7. answered <= q.sent /\ q.sent <= q.heard /\ q.sent <= q.flights
    BY <2>2, <2>3
  <2> HIDE DEF more
  <2>8. HandshakeAt(t, more, q, answered)
    BY <2>3, <2>6, <2>7 DEF HandshakeAt
  <2> QED
    BY <2>8
<1> HIDE DEF more
<1>6. Received(t, more, q)
  BY <1>3, <1>4, <1>5 DEF Received
<1> QED
  BY <1>6 DEF more

\* What the server does when it sends one.
LEMMA ServerSends ==
  ASSUME TlsIInv, NEW record \in Records, PeerSends(record), ~peer.closed,
         link' = link, tls' = tls, keepalive' = keepalive, calling' = calling,
         writes' = writes, answer' = answer, peer' \in Peers,
         peer'.flights = peer.flights, peer'.heard = peer.heard, peer'.bye = peer.bye,
         peer'.closed <=> record = "CloseNotify",
         \/ record # "Flight" /\ peer'.sent = peer.sent
         \/ /\ record = "Flight" /\ peer.sent < peer.heard /\ peer.sent < peer.flights
            /\ peer'.sent = peer.sent + 1
  PROVE  TlsIInv'
<1>1. /\ socket \in Sockets /\ Shape /\ SocketSound /\ EngineSound
      /\ socket.input \in Seq(Records)
      /\ Len(socket.input) <= MaxInput
      /\ armed \subseteq Flags /\ tls \in Engines /\ peer \in Peers
  BY DEF TlsIInv, Shape, Sockets
<1>2. socket' \in Sockets /\ Len(socket'.input) <= MaxInput
  <2>1. Append(socket.input, record) \in Seq(Records)
    BY <1>1
  <2>2. socket' = [socket EXCEPT !.input = Append(socket.input, record)]
    BY <1>1 DEF PeerSends, Sockets
  <2>3. Len(Append(socket.input, record)) <= MaxInput
    BY <1>1, SocketAssumption DEF PeerSends
  <2> QED
    BY <1>1, <2>1, <2>2, <2>3, SocketAfter DEF Sockets
<1>3. /\ socket'.connect = socket.connect /\ socket'.error = socket.error
      /\ socket'.fin = socket.fin /\ socket'.reset = socket.reset
      /\ socket'.input = Append(socket.input, record) /\ socket'.room = socket.room
      /\ socket.connect = "Up" /\ ~socket.fin
  BY <1>1 DEF PeerSends, Sockets
<1>4. interest' = interest /\ armed' = armed \cup ({"Readable"} \cap Watched(interest))
  BY DEF PeerSends, Raise
<1>5. SocketSound' /\ (Broken' <=> Broken)
  BY <1>1, <1>3 DEF SocketSound, Broken
<1>6. EngineSound'
  BY <1>1, <1>3, SendReceived DEF EngineSound
<1>7. "Read" \in interest => "Readable" \in armed'
  BY <1>4 DEF Watched
<1>8. armed' \subseteq Flags
  BY <1>1, <1>4 DEF Flags
<1>9. peer.sent = peer.flights => peer'.sent = peer.sent
  BY <1>1 DEF Peers
<1>10. socket.connect = "Up" => socket'.connect = "Up"
  BY <1>3
<1>11. socket'.connect = "Up" /\ (socket.connect = "Up" => socket.room > 0) => socket'.room > 0
  BY <1>3
<1> QED
  BY <1>1, <1>2, <1>3, <1>4, <1>5, <1>6, <1>7, <1>8, <1>9, <1>10, <1>11, EnvironmentKeeps

LEMMA ServerKeeps ==
  TlsIInv /\ (PeerFlight \/ \E record \in PeerRecords : PeerRecord(record)) => TlsIInv'
<1> SUFFICES ASSUME TlsIInv, PeerFlight \/ \E record \in PeerRecords : PeerRecord(record)
             PROVE  TlsIInv'
  OBVIOUS
<1>1. /\ link' = link /\ tls' = tls /\ keepalive' = keepalive /\ calling' = calling
      /\ writes' = writes /\ answer' = answer
  BY DEF PeerFlight, PeerRecord
<1>2. peer \in Peers
  BY DEF TlsIInv, Shape
<1>3. CASE PeerFlight
  <2>1. /\ peer.sent < peer.heard /\ peer.sent < peer.flights /\ ~peer.closed
        /\ PeerSends("Flight")
        /\ peer' = [peer EXCEPT !.sent = peer.sent + 1]
    BY <1>2, <1>3 DEF PeerFlight, Peers
  <2>2. peer.sent + 1 \in 0..2
    BY <1>2, <2>1 DEF Peers
  <2>3. /\ peer' \in Peers /\ peer'.flights = peer.flights /\ peer'.heard = peer.heard
        /\ peer'.bye = peer.bye /\ peer'.closed = peer.closed /\ peer'.sent = peer.sent + 1
    BY <1>2, <2>1, <2>2 DEF Peers
  <2>4. "Flight" \in Records
    BY DEF Records
  <2> QED
    BY <1>1, <2>1, <2>3, <2>4, ServerSends
<1>4. ASSUME NEW record \in PeerRecords, PeerRecord(record) PROVE TlsIInv'
  <2>1. /\ ~peer.closed /\ PeerSends(record)
        /\ peer' = [peer EXCEPT !.closed = (record = "CloseNotify")]
    BY <1>4 DEF PeerRecord
  <2>2. record \in Records /\ record # "Flight"
    BY TlsAssumption DEF Records
  <2>3. /\ peer' \in Peers /\ peer'.flights = peer.flights /\ peer'.heard = peer.heard
        /\ peer'.bye = peer.bye /\ peer'.closed = (record = "CloseNotify")
        /\ peer'.sent = peer.sent
    <3> DEFINE closes == record = "CloseNotify"
    <3>1. closes \in BOOLEAN /\ peer' = [peer EXCEPT !.closed = closes]
      BY <2>1
    <3> HIDE DEF closes
    <3>2. /\ peer' \in Peers /\ peer'.flights = peer.flights /\ peer'.heard = peer.heard
          /\ peer'.bye = peer.bye /\ peer'.closed = closes
          /\ peer'.sent = peer.sent
      BY <1>2, <3>1 DEF Peers
    <3> QED
      BY <3>2 DEF closes
  <2> QED
    BY <1>1, <2>1, <2>2, <2>3, ServerSends
<1> QED
  BY <1>3, <1>4

(***************************************************************************)
(* The adapter, the slot and the selector.                                 *)
(***************************************************************************)

\* What the adapter may rely on when a call begins.
LEMMA IdleFacts ==
  ASSUME TlsIInv, Idle
  PROVE  /\ calling = "Idle" /\ ~Ended
         /\ answer # "Failed" /\ answer # "Truncated" /\ answer # "Eof"
         /\ ~tls.failed /\ ~tls.eof
         /\ link.plaintextBytes = tls.plaintext
         /\ link.eof = "Clean" <=> tls.closed
         /\ link.eof \in {"Live", "Clean"}
         /\ link.pendingError => Len(tls.sendable) > MaxEgress /\ ~Started(link)
         /\ Started(link) <=> tls.sentClose
         /\ Started(link) => WantsWrite(tls)
         /\ Received(tls, socket.input, peer)
         /\ link \in Links /\ tls \in Engines /\ socket \in Sockets /\ peer \in Peers
<1>1. /\ calling = "Idle" /\ ~Ended
      /\ answer # "Failed" /\ answer # "Truncated" /\ answer # "Eof"
      /\ Started(link) => WantsWrite(tls)
  BY DEF Idle, Ended, Failures, IsShutdownComplete
<1>2. /\ ~tls.failed
      /\ link.plaintextBytes = tls.plaintext
      /\ link.eof = "Clean" <=> tls.closed
      /\ link.pendingError => Len(tls.sendable) > MaxEgress /\ ~Started(link)
      /\ Started(link) <=> tls.sentClose
  BY <1>1 DEF TlsIInv, LinkSound
<1>3. ~tls.eof /\ link.eof # "Truncated"
  BY <1>1 DEF TlsIInv, EndSound
<1>4. Received(tls, socket.input, peer)
  BY <1>2 DEF TlsIInv, EngineSound
<1>5. link \in Links /\ tls \in Engines /\ socket \in Sockets /\ peer \in Peers
  BY DEF TlsIInv, Shape
<1>6. link.eof \in {"Live", "Clean"}
  BY <1>3, <1>5 DEF Links, Eofs
<1> QED
  BY <1>1, <1>2, <1>3, <1>4, <1>5, <1>6

\* A step that leaves socket and registration alone keeps what is said about them.
LEMMA SocketStays ==
  ASSUME UNCHANGED socketVars
  PROVE  /\ socket' = socket /\ interest' = interest /\ armed' = armed
         /\ Broken' <=> Broken
         /\ SocketSound' <=> SocketSound
  BY DEF socketVars, Broken, SocketSound

LEMMA FailsKeeps == TlsIInv /\ Idle /\ Fails("Failed") => TlsIInv'
<1> SUFFICES ASSUME TlsIInv, Idle, Fails("Failed") PROVE TlsIInv'
  OBVIOUS
<1>1. /\ UNCHANGED socketVars
      /\ link' = link /\ tls' = tls /\ keepalive' = keepalive /\ calling' = calling
      /\ writes' = writes /\ peer' = peer /\ answer' = "Failed"
  BY DEF Fails
<1>2. /\ socket' = socket /\ interest' = interest /\ armed' = armed
      /\ Broken' <=> Broken
      /\ SocketSound' <=> SocketSound
  BY <1>1, SocketStays
<1>3. Shape' /\ SocketSound' /\ EngineSound'
  BY <1>1, <1>2 DEF TlsIInv, Shape, EngineSound, Failures
<1>4. LinkSound'
  BY <1>1 DEF TlsIInv, LinkSound, Started
<1>5. PhaseSound'
  BY <1>1, <1>2 DEF TlsIInv, PhaseSound, IsOpen, Started, WantsWrite, IsHandshaking
<1>6. Ended' /\ CallSound'
  BY <1>1, IdleFacts DEF Ended, Failures, CallSound
<1>7. EdgeSound'
  BY <1>1, <1>2, <1>6 DEF TlsIInv, EdgeSound
<1>8. EndSound'
  BY <1>1, IdleFacts DEF EndSound
<1> QED
  BY <1>3, <1>4, <1>5, <1>6, <1>7, <1>8 DEF TlsIInv

LEMMA TakeErrorKeeps == TlsIInv /\ TakeError => TlsIInv'
<1> SUFFICES ASSUME TlsIInv, TakeError PROVE TlsIInv'
  OBVIOUS
<1>1. Idle /\ link.phase = "Connecting" /\ CanConnect(link)
  BY DEF TakeError, Establishing, CanEstablish
<1>2. CASE socket.error
  BY <1>1, <1>2, FailsKeeps DEF TakeError
<1>3. CASE ~socket.error
  <2>1. /\ UNCHANGED socketVars
        /\ link' = link /\ tls' = tls /\ keepalive' = keepalive /\ calling' = "PeerAddr"
        /\ writes' = writes /\ peer' = peer /\ answer' = answer
    BY <1>3 DEF TakeError
  <2>2. /\ socket' = socket /\ interest' = interest /\ armed' = armed
        /\ Broken' <=> Broken
        /\ SocketSound' <=> SocketSound
    BY <2>1, SocketStays
  <2>3. Shape' /\ SocketSound' /\ EngineSound'
    BY <2>1, <2>2 DEF TlsIInv, Shape, EngineSound
  <2>4. LinkSound'
    BY <2>1 DEF TlsIInv, LinkSound, Started
  <2>5. PhaseSound'
    BY <2>1, <2>2 DEF TlsIInv, PhaseSound, IsOpen, Started, WantsWrite, IsHandshaking
  <2>6. (Ended' <=> Ended) /\ ~Ended
    BY <1>1, <2>1, IdleFacts DEF Ended, IsShutdownComplete, Started, WantsWrite
  <2>7. ~Broken
    BY <1>3 DEF TlsIInv, SocketSound
  <2>8. CallSound'
    BY <1>1, <2>1, <2>2, <2>6, <2>7 DEF CallSound, CanConnect
  <2>9. EdgeSound' /\ EndSound'
    BY <2>1, <2>2, <2>6 DEF TlsIInv, EdgeSound, EndSound
  <2> QED
    BY <2>3, <2>4, <2>5, <2>8, <2>9 DEF TlsIInv
<1> QED
  BY <1>2, <1>3

LEMMA PeerAddrKeeps == TlsIInv /\ PeerAddr => TlsIInv'
<1> SUFFICES ASSUME TlsIInv, PeerAddr PROVE TlsIInv'
  OBVIOUS
<1>1. /\ UNCHANGED socketVars
      /\ tls' = tls /\ keepalive' = keepalive
      /\ writes' = writes /\ peer' = peer
      /\ calling = "PeerAddr" /\ calling' = "Idle"
      /\ answer' = "Progress" \/ (answer' = "Failed" /\ link' = link)
  BY DEF PeerAddr
<1>2. /\ Shape /\ SocketSound /\ EngineSound /\ LinkSound /\ PhaseSound /\ EdgeSound /\ EndSound
      /\ ~Ended /\ link.phase = "Connecting" /\ socket \in Sockets /\ link \in Links
      /\ Broken => BrokenFlags \subseteq armed
  BY <1>1 DEF TlsIInv, CallSound, Shape
<1>3. /\ socket' = socket /\ interest' = interest /\ armed' = armed
      /\ Broken' <=> Broken
      /\ SocketSound' <=> SocketSound
  BY <1>1, SocketStays
<1>4. CallSound' /\ EngineSound' /\ answer # "Failed" /\ answer # "Truncated"
  BY <1>1, <1>2, <1>3 DEF CallSound, EngineSound, Ended, Failures
<1>5. CASE answer' = "Failed" /\ link' = link
  <2>1. Shape' /\ LinkSound'
    BY <1>1, <1>2, <1>3, <1>5 DEF Shape, Failures, LinkSound, Started
  <2>2. PhaseSound'
    BY <1>1, <1>2, <1>3, <1>5 DEF PhaseSound, IsOpen, Started, WantsWrite, IsHandshaking
  <2>3. EdgeSound' /\ EndSound'
    BY <1>1, <1>2, <1>3, <1>4, <1>5 DEF EdgeSound, EndSound
  <2> QED
    BY <1>2, <1>3, <1>4, <2>1, <2>2, <2>3 DEF TlsIInv
<1>6. CASE answer' = "Progress"
  <2>1. /\ \/ link'.phase = "Connecting" /\ (Broken \/ socket.connect = "Pending")
           \/ link'.phase = "NoDelay" /\ socket.connect = "Up" /\ link'.readiness = link.readiness
        /\ link' \in Links
        /\ link'.readiness \subseteq link.readiness
        /\ link'.plaintextBytes = link.plaintextBytes /\ link'.eof = link.eof
        /\ link'.shutdown = link.shutdown /\ link'.pendingError = link.pendingError
    <3>1. CASE socket.connect = "Up" /\ ~socket.reset
      <4>1. link' = [link EXCEPT !.phase = "NoDelay", !.readiness = link.readiness \ {"Error"}]
        BY <1>2, <1>6, <3>1 DEF PeerAddr, Links
      <4>2. /\ link' \in Links
            /\ link'.phase = "NoDelay" /\ link'.readiness = link.readiness \ {"Error"}
            /\ link'.plaintextBytes = link.plaintextBytes /\ link'.eof = link.eof
            /\ link'.shutdown = link.shutdown /\ link'.pendingError = link.pendingError
        BY <1>2, <4>1 DEF Links, Phases
      <4>3. "Error" \notin link.readiness
        BY <1>2, <3>1 DEF EdgeSound, Broken
      <4> QED
        BY <3>1, <4>2, <4>3
    <3>2. CASE ~(socket.connect = "Up" /\ ~socket.reset)
      <4>1. link' = [link EXCEPT !.readiness = link.readiness \ ConnectFlags]
        BY <1>2, <1>6, <3>2 DEF PeerAddr, ClearConnect, Links
      <4>2. /\ link' \in Links
            /\ link'.phase = link.phase /\ link'.readiness = link.readiness \ ConnectFlags
            /\ link'.plaintextBytes = link.plaintextBytes /\ link'.eof = link.eof
            /\ link'.shutdown = link.shutdown /\ link'.pendingError = link.pendingError
        BY <1>2, <4>1 DEF Links
      <4>3. Broken \/ socket.connect = "Pending"
        BY <1>2, <3>2 DEF Broken, Sockets
      <4> QED
        BY <1>2, <4>2, <4>3
    <3> QED
      BY <3>1, <3>2
  <2>2. Shape'
    BY <1>1, <1>2, <1>3, <1>6, <2>1 DEF Shape
  <2>3. LinkSound'
    BY <1>1, <1>2, <1>4, <1>6, <2>1 DEF LinkSound, Started
  <2>4. PhaseSound'
    BY <1>1, <1>2, <1>3, <2>1 DEF PhaseSound, IsOpen, Started, WantsWrite, IsHandshaking
  <2>5. EdgeSound'
    <3>1. CASE link'.phase = "Connecting" /\ (Broken \/ socket.connect = "Pending")
      <4>1. socket.connect = "Pending" => socket.input = <<>> /\ ~socket.fin /\ socket.room = 0
        BY <1>2 DEF SocketSound
      <4>2. "Error" \in link'.readiness => Broken'
        BY <1>2, <1>3, <2>1 DEF EdgeSound
      <4>3. Broken' => BrokenFlags \subseteq armed'
        BY <1>2, <1>3
      <4>4. ~Broken' => socket'.input = <<>> /\ ~socket'.fin /\ socket'.room = 0
        BY <1>3, <3>1, <4>1
      <4> QED
        BY <4>2, <4>3, <4>4 DEF EdgeSound
    <3>2. CASE link'.readiness = link.readiness
      BY <1>2, <1>3, <3>2 DEF EdgeSound
    <3> QED
      BY <2>1, <3>1, <3>2
  <2>6. EndSound'
    BY <1>1, <1>2, <1>4, <1>6, <2>1 DEF EndSound
  <2> QED
    BY <1>2, <1>3, <1>4, <2>2, <2>3, <2>4, <2>5, <2>6 DEF TlsIInv
<1> QED
  BY <1>1, <1>5, <1>6

LEMMA AppliesKeeps == TlsIInv /\ (ApplyNoDelay \/ ApplyKeepalive) => TlsIInv'
<1> SUFFICES ASSUME TlsIInv, ApplyNoDelay \/ ApplyKeepalive PROVE TlsIInv'
  OBVIOUS
<1>1. PICK phase \in {"Keepalive", "Handshaking"} :
        Idle /\ Applies(phase) /\ link.phase \in {"NoDelay", "Keepalive"}
  BY DEF ApplyNoDelay, ApplyKeepalive, Establishing
<1>2. CASE Fails("Failed")
  BY <1>1, <1>2, FailsKeeps
<1>3. CASE ~Fails("Failed")
  <2>1. /\ link' = Established([link EXCEPT !.phase = phase], tls)
        /\ UNCHANGED socketVars
        /\ tls' = tls /\ keepalive' = keepalive /\ calling' = calling
        /\ writes' = writes /\ peer' = peer /\ answer' = "Progress"
    BY <1>1, <1>3 DEF Applies
  <2>2. /\ Shape /\ SocketSound /\ EngineSound /\ LinkSound /\ PhaseSound /\ EdgeSound /\ EndSound
        /\ link \in Links
    BY DEF TlsIInv, Shape
  <2>3. /\ socket' = socket /\ interest' = interest /\ armed' = armed
        /\ Broken' <=> Broken
        /\ SocketSound' <=> SocketSound
    BY <2>1, SocketStays
  <2>4. IsHandshaking(tls) /\ WantsWrite(tls) /\ ~Started(link) /\ ~link.pendingError
    BY <1>1, <2>2 DEF PhaseSound, IsOpen
  <2>5. link' = [link EXCEPT !.phase = phase]
    BY <2>1, <2>4 DEF Established
  <2>6. /\ link' \in Links /\ link'.phase = phase
        /\ link'.readiness = link.readiness
        /\ link'.plaintextBytes = link.plaintextBytes /\ link'.eof = link.eof
        /\ link'.shutdown = link.shutdown /\ link'.pendingError = link.pendingError
    BY <1>1, <2>2, <2>5 DEF Links, Phases
  <2>7. Shape' /\ EngineSound' /\ CallSound'
    BY <1>1, <2>1, <2>2, <2>3, <2>6 DEF Shape, EngineSound, CallSound, Idle
  <2>8. answer # "Failed" /\ answer # "Truncated" /\ ~Ended
    BY <1>1, IdleFacts
  <2>9. LinkSound' /\ EndSound'
    BY <2>1, <2>2, <2>6, <2>8 DEF LinkSound, EndSound, Started
  <2>10. PhaseSound'
    BY <1>1, <2>1, <2>2, <2>3, <2>4, <2>6
       DEF PhaseSound, IsOpen, Started, WantsWrite, IsHandshaking
  <2>11. EdgeSound'
    BY <2>2, <2>3, <2>6, <2>8 DEF EdgeSound
  <2> QED
    BY <2>2, <2>3, <2>7, <2>9, <2>10, <2>11 DEF TlsIInv
<1> QED
  BY <1>2, <1>3

LEMMA SlotHoldsWriteKeeps == TlsIInv /\ (SlotHoldsWrite \/ UNCHANGED vars) => TlsIInv'
<1> SUFFICES ASSUME TlsIInv, SlotHoldsWrite \/ UNCHANGED vars PROVE TlsIInv'
  OBVIOUS
<1>1. /\ UNCHANGED socketVars
      /\ link' = link /\ tls' = tls /\ keepalive' = keepalive /\ calling' = calling
      /\ answer' = answer /\ peer' = peer
  BY DEF SlotHoldsWrite, vars, adapterVars
<1>2. writes' \in 0..MaxWrites
  BY TlsAssumption DEF SlotHoldsWrite, vars, adapterVars, TlsIInv, Shape
<1>3. /\ socket' = socket /\ interest' = interest /\ armed' = armed
      /\ Broken' <=> Broken
      /\ SocketSound' <=> SocketSound
  BY <1>1, SocketStays
<1>4. Shape' /\ SocketSound' /\ EngineSound'
  BY <1>1, <1>2, <1>3 DEF TlsIInv, Shape, EngineSound
<1>5. LinkSound' /\ EndSound'
  BY <1>1, <1>3 DEF TlsIInv, LinkSound, EndSound, Started
<1>6. PhaseSound'
  BY <1>1, <1>3 DEF TlsIInv, PhaseSound, IsOpen, Started, WantsWrite, IsHandshaking
<1>7. Ended' <=> Ended
  BY <1>1 DEF Ended, IsShutdownComplete, Started, WantsWrite
<1>8. CallSound' /\ EdgeSound'
  BY <1>1, <1>3, <1>7 DEF TlsIInv, CallSound, EdgeSound, CanConnect
<1> QED
  BY <1>4, <1>5, <1>6, <1>8 DEF TlsIInv

LEMMA SyncInterestKeeps == TlsIInv /\ SyncInterest => TlsIInv'
<1> SUFFICES ASSUME TlsIInv, SyncInterest PROVE TlsIInv'
  OBVIOUS
<1> DEFINE desired == DesiredInterest(link, tls, writes > 0)
<1>1. /\ link' = link /\ tls' = tls /\ keepalive' = keepalive /\ calling' = calling
      /\ writes' = writes /\ answer' = answer /\ peer' = peer
      /\ socket' = socket /\ interest' = desired /\ armed' = Visible(desired)
      /\ Idle
  BY DEF SyncInterest, Reregister, adapterVars
<1>2. /\ desired \in {Directions, {"Read"}, {"Write"}}
      /\ link.phase \in {"Connecting", "NoDelay", "Keepalive"} => desired = Directions
  BY DEF DesiredInterest
<1> HIDE DEF desired
<1>3. (Broken' <=> Broken) /\ (SocketSound' <=> SocketSound)
  BY <1>1 DEF Broken, SocketSound
<1>4. Visible(desired) \subseteq Flags
  BY DEF Visible, Levels, BrokenFlags, Flags
<1>5. Shape' /\ SocketSound' /\ EngineSound'
  BY <1>1, <1>2, <1>3, <1>4 DEF TlsIInv, Shape, EngineSound
<1>6. LinkSound' /\ EndSound'
  BY <1>1 DEF TlsIInv, LinkSound, EndSound, Started
<1>7. PhaseSound'
  BY <1>1, <1>2 DEF TlsIInv, PhaseSound, IsOpen, Started, WantsWrite, IsHandshaking
<1>8. CallSound'
  BY <1>1, IdleFacts DEF CallSound
<1>9. EdgeSound'
  <2>1. Broken => BrokenFlags \subseteq Visible(desired)
    BY DEF Visible, Levels
  <2>2. ~Broken /\ "Read" \in desired /\ (socket.input # <<>> \/ socket.fin) =>
          "Readable" \in Visible(desired)
    BY DEF Visible, Levels, Watched, TlsIInv, SocketSound
  <2>3. ~Broken /\ "Write" \in desired /\ socket.room > 0 => "Writable" \in Visible(desired)
    BY SocketAssumption DEF Visible, Levels, Watched, TlsIInv, SocketSound
  <2>4. "Error" \in link.readiness => Broken
    BY DEF TlsIInv, EdgeSound
  <2> QED
    BY <1>1, <1>3, <2>1, <2>2, <2>3, <2>4 DEF EdgeSound
<1> QED
  BY <1>5, <1>6, <1>7, <1>8, <1>9 DEF TlsIInv

LEMMA PollKeeps == ASSUME NEW readiness PROVE TlsIInv /\ Poll(readiness) => TlsIInv'
<1> SUFFICES ASSUME TlsIInv, Poll(readiness) PROVE TlsIInv'
  OBVIOUS
<1>1. /\ socket' = socket /\ interest' = interest /\ armed' = {} /\ Idle
      /\ tls' = tls /\ keepalive' = keepalive /\ calling' = calling
      /\ writes' = writes /\ answer' = answer /\ peer' = peer
      /\ readiness \in Polled
  BY DEF Poll
<1>2. (Broken' <=> Broken) /\ (SocketSound' <=> SocketSound)
  BY <1>1 DEF Broken, SocketSound
<1>3. /\ readiness \subseteq Flags
      /\ armed \cap Visible(interest) \subseteq readiness
      /\ "Error" \in readiness => Broken
  <2>1. Visible(interest) \subseteq Flags /\ ("Error" \in Visible(interest) => Broken)
    BY DEF Visible, Levels, BrokenFlags, Flags
  <2> QED
    BY <1>1, <2>1 DEF Polled
<1>4. link \in Links
  BY DEF TlsIInv, Shape
<1>5. /\ link' \in Links /\ link'.phase = link.phase
      /\ link'.readiness = link.readiness \cup readiness
      /\ link'.plaintextBytes = link.plaintextBytes /\ link'.eof = link.eof
      /\ link'.shutdown = link.shutdown /\ link'.pendingError = link.pendingError
  <2>1. link' = [link EXCEPT !.readiness = link.readiness \cup readiness]
    BY <1>4 DEF Poll, Observe, Links
  <2> QED
    BY <1>3, <1>4, <2>1 DEF Links
<1>6. Shape' /\ SocketSound' /\ EngineSound'
  BY <1>1, <1>2, <1>5 DEF TlsIInv, Shape, EngineSound
<1>7. LinkSound' /\ EndSound'
  BY <1>1, <1>5 DEF TlsIInv, LinkSound, EndSound, Started
<1>8. PhaseSound'
  BY <1>1, <1>5 DEF TlsIInv, PhaseSound, IsOpen, Started, WantsWrite, IsHandshaking
<1>9. CallSound' /\ ~Ended
  BY <1>1, IdleFacts DEF CallSound
<1>10. EdgeSound'
  <2>1. Broken => BrokenFlags \subseteq Visible(interest)
    BY DEF Visible, Levels
  <2>2. ~Broken /\ "Read" \in interest /\ (socket.input # <<>> \/ socket.fin) =>
          "Readable" \in Visible(interest)
    BY DEF Visible, Levels, Watched, TlsIInv, SocketSound
  <2>3. ~Broken /\ "Write" \in interest /\ socket.room > 0 => "Writable" \in Visible(interest)
    BY SocketAssumption DEF Visible, Levels, Watched, TlsIInv, SocketSound
  <2>4. EdgeSound
    BY DEF TlsIInv
  <2> QED
    BY <1>1, <1>2, <1>3, <1>5, <1>9, <2>1, <2>2, <2>3, <2>4 DEF EdgeSound, ReadFlags, WriteFlags
<1> QED
  BY <1>6, <1>7, <1>8, <1>9, <1>10 DEF TlsIInv

(***************************************************************************)
(* One raw operation.                                                      *)
(***************************************************************************)
LEMMA EstablishedFields ==
  ASSUME NEW l \in Links, NEW t \in Engines
  PROVE  /\ Established(l, t) \in Links
         /\ Established(l, t).phase =
              IF l.phase = "Handshaking" /\ ~IsHandshaking(t) /\ ~WantsWrite(t)
              THEN "Open" ELSE l.phase
         /\ Established(l, t).readiness = l.readiness
         /\ Established(l, t).plaintextBytes = l.plaintextBytes
         /\ Established(l, t).eof = l.eof
         /\ Established(l, t).shutdown = l.shutdown
         /\ Established(l, t).pendingError = l.pendingError
<1>1. CASE l.phase = "Handshaking" /\ ~IsHandshaking(t) /\ ~WantsWrite(t)
  <2>1. Established(l, t) = [l EXCEPT !.phase = "Open"]
    BY <1>1 DEF Established
  <2> QED
    BY <1>1, <2>1 DEF Links, Phases
<1>2. CASE ~(l.phase = "Handshaking" /\ ~IsHandshaking(t) /\ ~WantsWrite(t))
  BY <1>2 DEF Established
<1> QED
  BY <1>1, <1>2

LEMMA RefreshFields ==
  ASSUME NEW l \in Links, NEW t \in Engines, Refreshes(t)
  PROVE  /\ RefreshState(l, t) \in Links
         /\ RefreshState(l, t).phase = l.phase
         /\ RefreshState(l, t).readiness = l.readiness
         /\ RefreshState(l, t).plaintextBytes = t.plaintext
         /\ RefreshState(l, t).eof = IF t.closed THEN "Clean" ELSE l.eof
         /\ RefreshState(l, t).shutdown = l.shutdown
         /\ RefreshState(l, t).pendingError = l.pendingError
<1> DEFINE eof == IF t.closed THEN "Clean" ELSE l.eof
<1>1. t.plaintext \in 0..MaxPlaintext /\ eof \in Eofs
  BY EngineAssumption DEF Engines, Refreshes, ValidateState, Eofs, Links
<1>2. RefreshState(l, t) = [l EXCEPT !.plaintextBytes = t.plaintext, !.eof = eof]
  BY DEF RefreshState, Links
<1> HIDE DEF eof
<1>3. /\ RefreshState(l, t) \in Links
      /\ RefreshState(l, t).phase = l.phase
      /\ RefreshState(l, t).readiness = l.readiness
      /\ RefreshState(l, t).plaintextBytes = t.plaintext
      /\ RefreshState(l, t).eof = eof
      /\ RefreshState(l, t).shutdown = l.shutdown
      /\ RefreshState(l, t).pendingError = l.pendingError
  BY <1>1, <1>2 DEF Links
<1> QED
  BY <1>3 DEF eof

\* An adapter whose rustls has neither a flight to expect nor one to send is
\* through with the handshake, and so is the server.
LEMMA HandshakeOver ==
  ASSUME NEW t \in Engines, NEW input, NEW p \in Peers, Received(t, input, p),
         ~t.failed, ~IsHandshaking(t), ~WantsWrite(t)
  PROVE  p.heard = 2 /\ p.sent = p.flights
<1>1. PICK answered \in 0..p.flights : HandshakeAt(t, input, p, answered)
  BY DEF Received
<1>2. p.flights \in {1, 2} /\ p.heard \in 0..2 /\ p.sent \in 0..2
  BY DEF Peers
<1>3. answered = p.flights
  BY <1>1, <1>2, ScriptFacts DEF HandshakeAt, IsHandshaking
<1>4. 2 - p.heard = 0
  BY <1>1, <1>2, <1>3 DEF HandshakeAt, Flights, WantsWrite
<1> QED
  BY <1>1, <1>2, <1>3, <1>4 DEF HandshakeAt

\* A call that moved records: what was moved is on the other side, and the
\* adapter takes over what rustls says, or fails.
LEMMA MovedKeeps ==
  ASSUME TlsIInv, Idle, link.phase \in {"Handshaking", "Open"}, ~link.pendingError,
         NEW l \in Links, NEW t \in Engines, NEW s \in Sockets, NEW q \in Peers,
         Moved(l, t, s, q),
         l.phase = link.phase, l.readiness = link.readiness, l.eof = link.eof,
         l.shutdown = link.shutdown, l.pendingError = link.pendingError,
         Len(s.input) <= MaxInput,
         s.connect = socket.connect, s.error = socket.error, s.fin = socket.fin,
         s.reset = socket.reset, s.room > 0 => socket.room > 0,
         s.input # <<>> => socket.input # <<>>,
         t.failed \/ Received(t, s.input, q),
         t.eof = tls.eof, t.sentClose = tls.sentClose, tls.closed => t.closed,
         ~IsHandshaking(tls) => ~IsHandshaking(t),
         q.flights = peer.flights, q.sent = peer.sent, q.closed = peer.closed,
         IsOpen(link) => q.heard = peer.heard
  PROVE  TlsIInv'
<1>1. /\ answer' = IF Refreshes(t) THEN "Progress" ELSE "Failed"
      /\ link' = IF Refreshes(t) THEN Established(RefreshState(l, t), t) ELSE link
      /\ tls' = t /\ socket' = s /\ peer' = q
      /\ interest' = interest /\ armed' = armed /\ keepalive' = keepalive
      /\ calling' = calling /\ writes' = writes
  BY DEF Moved
<1>2. /\ Shape /\ SocketSound /\ LinkSound /\ PhaseSound /\ EdgeSound
      /\ calling = "Idle" /\ ~Ended /\ link.eof \in {"Live", "Clean"} /\ ~tls.eof
      /\ link.eof = "Clean" <=> tls.closed
      /\ Started(link) <=> tls.sentClose
      /\ link \in Links
  BY IdleFacts DEF TlsIInv
<1>3. (Broken' <=> Broken) /\ SocketSound'
  <2>1. Broken' <=> Broken
    BY <1>1 DEF Broken
  <2>2. socket.connect # "Up" => s.room = 0 /\ s.input = <<>>
    <3>1. socket.connect # "Up" => socket.room = 0 /\ socket.input = <<>>
      BY <1>2 DEF SocketSound
    <3> QED
      BY <3>1, SocketAssumption DEF Sockets
  <2> QED
    BY <1>1, <1>2, <2>1, <2>2 DEF SocketSound
<1>4. EngineSound'
  BY <1>1 DEF EngineSound
<1> DEFINE refreshed == RefreshState(l, t)
           established == Established(refreshed, t)
<1>11. ASSUME Refreshes(t)
       PROVE  /\ refreshed \in Links
              /\ refreshed.phase = l.phase /\ refreshed.readiness = l.readiness
              /\ refreshed.plaintextBytes = t.plaintext
              /\ refreshed.eof = IF t.closed THEN "Clean" ELSE l.eof
              /\ refreshed.shutdown = l.shutdown /\ refreshed.pendingError = l.pendingError
  BY <1>11, RefreshFields, Zenon
<1>12. ASSUME Refreshes(t)
       PROVE  /\ link' \in Links
              /\ link'.phase = IF l.phase = "Handshaking" /\ ~IsHandshaking(t) /\ ~WantsWrite(t)
                               THEN "Open" ELSE l.phase
              /\ link'.readiness = l.readiness /\ link'.plaintextBytes = t.plaintext
              /\ link'.eof = IF t.closed THEN "Clean" ELSE l.eof
              /\ link'.shutdown = l.shutdown /\ link'.pendingError = l.pendingError
  <2>1. link' = established
    BY <1>1, <1>12
  <2> HIDE DEF refreshed
  <2>2. /\ established \in Links
        /\ established.phase =
             IF refreshed.phase = "Handshaking" /\ ~IsHandshaking(t) /\ ~WantsWrite(t)
             THEN "Open" ELSE refreshed.phase
        /\ established.readiness = refreshed.readiness
        /\ established.plaintextBytes = refreshed.plaintextBytes
        /\ established.eof = refreshed.eof
        /\ established.shutdown = refreshed.shutdown
        /\ established.pendingError = refreshed.pendingError
    BY <1>11, <1>12, EstablishedFields, Zenon
  <2> HIDE DEF established
  <2> QED
    BY <1>11, <1>12, <2>1, <2>2
<1> HIDE DEF refreshed, established
<1>5. link'.readiness = link.readiness /\ link'.shutdown = link.shutdown /\ link' \in Links
  <2>1. CASE Refreshes(t)
    BY <1>12, <2>1
  <2>2. CASE ~Refreshes(t)
    BY <1>1, <1>2, <2>2
  <2> QED
    BY <2>1, <2>2
<1>6. Shape'
  BY <1>1, <1>2, <1>5 DEF Shape, Failures
<1>7. CallSound'
  BY <1>1, <1>2 DEF CallSound
<1>8. EdgeSound'
  BY <1>1, <1>2, <1>3, <1>5 DEF EdgeSound
<1>9. CASE Refreshes(t)
  <2>1. /\ link'.phase = IF l.phase = "Handshaking" /\ ~IsHandshaking(t) /\ ~WantsWrite(t)
                         THEN "Open" ELSE l.phase
        /\ link'.plaintextBytes = t.plaintext
        /\ link'.eof = IF t.closed THEN "Clean" ELSE l.eof
        /\ link'.pendingError = l.pendingError
        /\ answer' = "Progress"
    BY <1>1, <1>9, <1>12
  <2>2. ~t.failed /\ Received(t, s.input, q)
    BY <1>9 DEF Refreshes
  <2>3. LinkSound'
    BY <1>1, <1>2, <1>5, <2>1, <2>2 DEF LinkSound, Started
  <2>4. IsOpen(link)' => ~IsHandshaking(t) /\ q.heard = 2 /\ q.sent = q.flights
    <3>1. CASE l.phase = "Handshaking" /\ ~IsHandshaking(t) /\ ~WantsWrite(t)
      BY <2>2, <3>1, HandshakeOver
    <3>2. CASE ~(l.phase = "Handshaking" /\ ~IsHandshaking(t) /\ ~WantsWrite(t))
      BY <1>2, <2>1, <3>2 DEF PhaseSound, IsOpen
    <3> QED
      BY <3>1, <3>2
  <2>5. link'.phase \in {"Handshaking", "Open"}
    BY <2>1
  <2>6. PhaseSound'
    <3>1. socket'.connect = "Up"
      BY <1>1, <1>2 DEF PhaseSound
    <3>2. link'.phase = "Handshaking" => IsHandshaking(t) \/ WantsWrite(t)
      BY <2>1
    <3>3. ~IsOpen(link)' => ~Started(link)' /\ ~link'.pendingError
      BY <1>2, <1>5, <2>1 DEF PhaseSound, IsOpen, Started
    <3> QED
      BY <1>1, <2>4, <2>5, <3>1, <3>2, <3>3 DEF PhaseSound, IsHandshaking, WantsWrite
  <2>7. EndSound'
    BY <1>1, <1>2, <2>1 DEF EndSound
  <2> QED
    BY <1>3, <1>4, <1>6, <1>7, <1>8, <2>3, <2>6, <2>7 DEF TlsIInv
<1>10. CASE ~Refreshes(t)
  <2>1. link' = link /\ answer' = "Failed"
    BY <1>1, <1>10
  <2>2. LinkSound'
    BY <1>1, <1>2, <2>1 DEF LinkSound, Started
  <2>3. PhaseSound'
    BY <1>1, <1>2, <2>1 DEF PhaseSound, IsOpen, IsHandshaking, Started
  <2>4. EndSound'
    BY <1>1, <1>2, <2>1 DEF EndSound
  <2> QED
    BY <1>3, <1>4, <1>6, <1>7, <1>8, <2>2, <2>3, <2>4 DEF TlsIInv
<1> QED
  BY <1>9, <1>10

\* What the server has once the first records are written.
LEMMA WriteReceived ==
  ASSUME NEW t \in Engines, NEW input, NEW p \in Peers, NEW count \in 1..Len(t.sendable),
         NEW q \in Peers, Received(t, input, p), ~t.failed,
         q.flights = p.flights, q.sent = p.sent, q.closed = p.closed,
         q.heard = p.heard + Cardinality({i \in 1..count : t.sendable[i] = "Flight"}),
         q.bye <=> p.bye \/ \E i \in 1..count : t.sendable[i] = "CloseNotify"
  PROVE  /\ Received(WriteTls(t, count), input, q)
         /\ WriteTls(t, count) \in Engines
         /\ ~IsHandshaking(t) /\ p.heard = 2 => q.heard = p.heard
<1> DEFINE s == t.sendable
           left == SubSeq(s, count + 1, Len(s))
           gone == Cardinality({i \in 1..count : s[i] = "Flight"})
           u == WriteTls(t, count)
<1>1. s \in Seq(Records) /\ count \in 1..Len(s)
  BY DEF Engines
<1>2. left \in Seq(Records) /\ u = [t EXCEPT !.sendable = left]
  BY <1>1 DEF WriteTls, Engines
<1>3. /\ DOMAIN left = 1..(Len(s) - count) /\ DOMAIN s = 1..Len(s) /\ Len(s) \in Nat
      /\ \A i \in DOMAIN left : left[i] = s[i + count]
  BY <1>1
<1> HIDE DEF left
<1>4. /\ u \in Engines /\ u.sendable = left /\ u.script = t.script
      /\ u.plaintext = t.plaintext /\ u.closed = t.closed /\ u.eof = t.eof
      /\ u.sentClose = t.sentClose /\ u.failed = t.failed
  BY <1>2 DEF Engines
<1>5. PICK answered \in 0..p.flights : HandshakeAt(t, input, p, answered)
  BY DEF Received
<1>6. /\ p.flights \in {1, 2} /\ p.sent \in 0..2 /\ p.heard \in 0..2 /\ q.heard \in 0..2
      /\ answered \in 0..2
  BY DEF Peers
<1> DEFINE going == (IF answered = 0 THEN 1 ELSE 2) - p.heard
<1>7. /\ t.script = Script(p.flights, answered)
      /\ answered <= p.sent /\ p.sent <= p.heard /\ p.sent <= p.flights
      /\ Flights(input, p.sent - answered) /\ Flights(s, going)
  BY <1>5 DEF HandshakeAt
<1>8. going \in {0, 1}
  BY <1>6, <1>7 DEF Flights
<1>9. /\ gone \in {0, 1} /\ gone <= going /\ Flights(left, going - gone)
  <2> HIDE DEF going, s
  <2> QED
    BY <1>1, <1>7, <1>8, FlightsLeft DEF left
<1> HIDE DEF gone, s, u
<1>10. q.heard = p.heard + gone
  BY DEF gone, s
<1>11. (IF answered = 0 THEN 1 ELSE 2) - q.heard = going - gone
  BY <1>6, <1>9, <1>10
<1>12. HandshakeAt(u, input, q, answered)
  <2>1. p.sent <= q.heard
    BY <1>6, <1>7, <1>9, <1>10
  <2> HIDE DEF going
  <2> QED
    BY <1>4, <1>7, <1>9, <1>11, <2>1 DEF HandshakeAt
<1>13. u.sentClose => q.bye \/ \E i \in DOMAIN u.sendable : u.sendable[i] = "CloseNotify"
  <2> SUFFICES ASSUME u.sentClose, ~q.bye
               PROVE  \E i \in DOMAIN u.sendable : u.sendable[i] = "CloseNotify"
    OBVIOUS
  <2>1. PICK i \in DOMAIN s : s[i] = "CloseNotify"
    BY <1>4 DEF Received, s
  <2>2. i \notin 1..count
    BY <2>1 DEF s
  <2>3. i - count \in DOMAIN left /\ left[i - count] = "CloseNotify"
    BY <1>1, <1>3, <2>1, <2>2
  <2> QED
    BY <1>4, <2>3
<1>14. Received(u, input, q)
  BY <1>4, <1>12, <1>13 DEF Received, IsHandshaking
<1>15. ~IsHandshaking(t) /\ p.heard = 2 => q.heard = p.heard
  BY <1>6, <1>9, <1>10
<1> QED
  BY <1>4, <1>14, <1>15 DEF u

\* A call that found the socket with nothing to give clears what it had observed.
LEMMA BlockedKeeps ==
  ASSUME TlsIInv, Idle, link.phase \in {"Handshaking", "Open"}, ~Broken,
         NEW cleared,
         \/ cleared = WriteFlags /\ ~(socket.room > 0)
         \/ cleared = ReadFlags /\ socket.input = <<>> /\ ~socket.fin,
         Blocked([link EXCEPT !.readiness = link.readiness \ cleared])
  PROVE  TlsIInv'
<1> DEFINE l == [link EXCEPT !.readiness = link.readiness \ cleared]
<1>1. /\ Shape /\ SocketSound /\ EngineSound /\ LinkSound /\ PhaseSound /\ EdgeSound
      /\ calling = "Idle" /\ ~Ended /\ link.eof \in {"Live", "Clean"} /\ ~tls.eof
      /\ answer # "Failed" /\ link \in Links /\ tls \in Engines
  BY IdleFacts DEF TlsIInv
<1>2. /\ l \in Links /\ l.phase = link.phase /\ l.readiness = link.readiness \ cleared
      /\ l.plaintextBytes = link.plaintextBytes /\ l.eof = link.eof
      /\ l.shutdown = link.shutdown /\ l.pendingError = link.pendingError
  BY <1>1 DEF Links
<1>3. /\ answer' = "Progress" /\ link' = Established(l, tls)
      /\ UNCHANGED socketVars
      /\ tls' = tls /\ keepalive' = keepalive /\ calling' = calling
      /\ writes' = writes /\ peer' = peer
  BY DEF Blocked
<1> HIDE DEF l
<1>4. link.phase = "Handshaking" => IsHandshaking(tls) \/ WantsWrite(tls)
  BY <1>1 DEF PhaseSound
<1>5. link' = l
  BY <1>2, <1>3, <1>4 DEF Established
<1>6. /\ socket' = socket /\ interest' = interest /\ armed' = armed
      /\ Broken' <=> Broken
      /\ SocketSound' <=> SocketSound
  BY <1>3, SocketStays
<1>7. Shape' /\ EngineSound' /\ CallSound'
  BY <1>1, <1>2, <1>3, <1>5, <1>6 DEF Shape, EngineSound, CallSound
<1>8. LinkSound' /\ EndSound'
  BY <1>1, <1>2, <1>3, <1>5 DEF LinkSound, EndSound, Started
<1>9. PhaseSound'
  BY <1>1, <1>2, <1>3, <1>5, <1>6
     DEF PhaseSound, IsOpen, Started, WantsWrite, IsHandshaking
<1>10. EdgeSound'
  <2>1. "Error" \notin link.readiness
    BY <1>1 DEF EdgeSound
  <2>2. CASE cleared = WriteFlags /\ ~(socket.room > 0)
    BY <1>1, <1>2, <1>5, <1>6, <2>1, <2>2 DEF EdgeSound, WriteFlags, ReadFlags
  <2>3. CASE cleared = ReadFlags /\ socket.input = <<>> /\ ~socket.fin
    BY <1>1, <1>2, <1>5, <1>6, <2>1, <2>3 DEF EdgeSound, WriteFlags, ReadFlags
  <2> QED
    BY <2>2, <2>3
<1> QED
  BY <1>1, <1>6, <1>7, <1>8, <1>9, <1>10 DEF TlsIInv

\* What the server learns is what Received has it learn.
LEMMA HearsFacts ==
  ASSUME TlsIInv, Idle, NEW count \in 1..Len(tls.sendable)
  PROVE  /\ Hears(count) \in Peers
         /\ Hears(count).flights = peer.flights /\ Hears(count).sent = peer.sent
         /\ Hears(count).closed = peer.closed
         /\ Hears(count).heard
              = peer.heard + Cardinality({i \in 1..count : tls.sendable[i] = "Flight"})
         /\ Hears(count).bye <=> peer.bye \/ \E i \in 1..count : tls.sendable[i] = "CloseNotify"
<1> DEFINE gone == Cardinality({i \in 1..count : tls.sendable[i] = "Flight"})
           bye == peer.bye \/ "CloseNotify" \in {tls.sendable[i] : i \in 1..count}
<1>1. /\ peer \in Peers /\ tls \in Engines /\ Received(tls, socket.input, peer) /\ ~tls.failed
  BY IdleFacts
<1>2. PICK answered \in 0..peer.flights : HandshakeAt(tls, socket.input, peer, answered)
  BY <1>1 DEF Received
<1>3. peer.heard \in 0..2 /\ answered \in 0..2 /\ peer.bye \in BOOLEAN
  BY <1>1 DEF Peers
<1> DEFINE going == (IF answered = 0 THEN 1 ELSE 2) - peer.heard
<1>4. Flights(tls.sendable, going) /\ going \in {0, 1}
  BY <1>2, <1>3 DEF HandshakeAt, Flights
<1>5. gone \in {0, 1} /\ gone <= going
  <2> HIDE DEF going
  <2>1. tls.sendable \in Seq(Records)
    BY <1>1 DEF Engines
  <2> QED
    BY <1>4, <2>1, FlightsLeft
<1> HIDE DEF gone
<1>6. peer.heard + gone \in 0..2
  BY <1>3, <1>4, <1>5
<1>7. Hears(count) = [peer EXCEPT !.heard = peer.heard + gone, !.bye = bye]
  BY <1>1 DEF Hears, gone, Peers
<1>8. bye \in BOOLEAN /\ (bye <=> peer.bye \/ \E i \in 1..count : tls.sendable[i] = "CloseNotify")
  BY <1>3
<1> HIDE DEF bye
<1>9. /\ Hears(count) \in Peers
      /\ Hears(count).flights = peer.flights /\ Hears(count).sent = peer.sent
      /\ Hears(count).closed = peer.closed
      /\ Hears(count).heard = peer.heard + gone
      /\ Hears(count).bye = bye
  BY <1>1, <1>6, <1>7, <1>8 DEF Peers
<1> QED
  BY <1>8, <1>9 DEF gone

LEMMA DriveTlsWriteKeeps ==
  ASSUME TlsIInv, Idle, link.phase \in {"Handshaking", "Open"}, ~link.pendingError,
         CanTlsWrite(link, tls), DriveTlsWrite
  PROVE  TlsIInv'
<1>1. /\ link \in Links /\ tls \in Engines /\ socket \in Sockets /\ peer \in Peers
      /\ Received(tls, socket.input, peer) /\ ~tls.failed
      /\ SocketSound /\ PhaseSound /\ Len(socket.input) <= MaxInput
      /\ socket.connect = "Up"
  BY IdleFacts DEF TlsIInv, Shape, PhaseSound
<1>2. ASSUME "Bytes" \in WriteAnswers, NEW count \in 1..RawUnits,
             count <= Len(tls.sendable), count <= socket.room,
             Moved(AfterWrite(link), WriteTls(tls, count), Fill(count), Hears(count))
      PROVE  TlsIInv'
  <2>1. count \in 1..Len(tls.sendable) /\ count \in 1..socket.room /\ socket.room \in 0..MaxRoom
    BY <1>1, <1>2, TlsAssumption, SocketAssumption DEF Engines, Sockets
  <2> DEFINE l == AfterWrite(link)
             s == Fill(count)
             t == WriteTls(tls, count)
             q == Hears(count)
  <2>2. /\ l \in Links /\ l.phase = link.phase /\ l.readiness = link.readiness
        /\ l.eof = link.eof /\ l.shutdown = link.shutdown /\ l.pendingError = link.pendingError
    BY <1>1 DEF AfterWrite, Links, Directions
  <2>3. /\ s \in Sockets /\ s.connect = socket.connect /\ s.error = socket.error
        /\ s.fin = socket.fin /\ s.reset = socket.reset /\ s.input = socket.input
        /\ socket.room > 0
    <3>1. socket.room - count \in 0..MaxRoom /\ socket.room > 0
      BY <2>1, SocketAssumption
    <3>2. s = [socket EXCEPT !.room = socket.room - count]
      BY <1>1 DEF Fill, Sockets
    <3> HIDE DEF s
    <3>3. s \in Sockets
      BY <1>1, <3>1, <3>2, SocketAfter
    <3> QED
      BY <1>1, <3>1, <3>2, <3>3 DEF Sockets
  <2>4. /\ q \in Peers /\ q.flights = peer.flights /\ q.sent = peer.sent /\ q.closed = peer.closed
        /\ q.heard = peer.heard + Cardinality({i \in 1..count : tls.sendable[i] = "Flight"})
        /\ q.bye <=> peer.bye \/ \E i \in 1..count : tls.sendable[i] = "CloseNotify"
    BY <2>1, HearsFacts
  <2> HIDE DEF l, s, q
  <2>5. /\ Received(t, socket.input, q) /\ t \in Engines
        /\ ~IsHandshaking(tls) /\ peer.heard = 2 => q.heard = peer.heard
    BY <1>1, <2>1, <2>4, WriteReceived
  <2>6. /\ t.eof = tls.eof /\ t.sentClose = tls.sentClose /\ t.closed = tls.closed
        /\ t.script = tls.script
    BY <1>1 DEF WriteTls, Engines
  <2>7. Moved(l, t, s, q)
    BY <1>2 DEF l, s, q
  <2> HIDE DEF t
  <2>8. IsOpen(link) => q.heard = peer.heard
    BY <1>1, <2>5 DEF PhaseSound
  <2>9. ~IsHandshaking(tls) => ~IsHandshaking(t)
    BY <2>6 DEF IsHandshaking
  <2> QED
    BY <1>1, <2>2, <2>3, <2>4, <2>5, <2>6, <2>7, <2>8, <2>9, MovedKeeps
<1>3. ASSUME "WouldBlock" \in WriteAnswers, Blocked(ClearRawWrite(link)) PROVE TlsIInv'
  <2>1. ~Broken /\ ~(socket.room > 0)
    BY <1>1, <1>3 DEF WriteAnswers, Broken
  <2>2. ClearRawWrite(link) = [link EXCEPT !.readiness = link.readiness \ WriteFlags]
    BY <1>1 DEF ClearRawWrite, Links
  <2>3. Blocked([link EXCEPT !.readiness = link.readiness \ WriteFlags])
    BY <1>3, <2>2
  <2> QED
    BY <2>1, <2>3, BlockedKeeps
<1> QED
  BY <1>2, <1>3, FailsKeeps DEF DriveTlsWrite

LEMMA DrivingFacts ==
  ASSUME TlsIInv, Driving
  PROVE  /\ Idle /\ link.phase \in {"Handshaking", "Open"} /\ CanTlsProgress(link, tls)
         /\ ~TruncatedDrained(link)
<1>1. Idle
  BY DEF Driving
<1>2. link.phase \in {"Handshaking", "Open"} /\ CanTlsProgress(link, tls)
  BY DEF Driving, CanEstablish, IsOpen, HasTransportWork
<1>3. ~TruncatedDrained(link)
  BY <1>1, IdleFacts DEF TruncatedDrained
<1> QED
  BY <1>1, <1>2, <1>3

\* A call that returns without touching the socket has an error to report.
LEMMA DriveStopsFails == TlsIInv /\ DriveStops => Idle /\ link.pendingError /\ Fails("Failed")
<1> SUFFICES ASSUME TlsIInv, DriveStops PROVE Idle /\ link.pendingError /\ Fails("Failed")
  OBVIOUS
<1>1. /\ Idle /\ CanTlsProgress(link, tls) /\ ~TruncatedDrained(link)
  BY DrivingFacts DEF DriveStops
<1>2. link.pendingError
  BY <1>1 DEF DriveStops, CanTlsProgress
<1> QED
  BY <1>1, <1>2 DEF DriveStops

LEMMA DriveReadKeeps == TlsIInv /\ DriveRead => TlsIInv'
<1> SUFFICES ASSUME TlsIInv, DriveRead PROVE TlsIInv'
  OBVIOUS
<1>1. /\ Idle /\ link.phase \in {"Handshaking", "Open"} /\ ~link.pendingError
      /\ CanTlsRead(link, tls)
  BY DrivingFacts DEF DriveRead, Goes
<1>2. /\ link \in Links /\ tls \in Engines /\ socket \in Sockets /\ peer \in Peers
      /\ Received(tls, socket.input, peer) /\ ~tls.failed /\ ~tls.eof
      /\ link.plaintextBytes = tls.plaintext
      /\ SocketSound /\ PhaseSound /\ EdgeSound /\ Shape
      /\ socket.input \in Seq(Records) /\ Len(socket.input) <= MaxInput
      /\ socket.connect = "Up" /\ link.eof = "Live" /\ ~tls.closed /\ tls.plaintext = 0
      /\ calling = "Idle" /\ answer # "Failed"
      /\ Started(link) <=> tls.sentClose
  BY <1>1, IdleFacts DEF TlsIInv, Shape, PhaseSound, Sockets, CanTlsRead, WantsRead
<1>3. ASSUME "Bytes" \in ReadAnswers, NEW count \in 1..RawUnits, count <= Len(socket.input),
             ReadBytes(count)
      PROVE  TlsIInv'
  <2>1. count \in 1..Len(socket.input)
    BY <1>2, <1>3, TlsAssumption
  <2> DEFINE l == AfterRead(link)
             rest == SubSeq(socket.input, count + 1, Len(socket.input))
             s == Consume(count)
             t == Process(tls, SubSeq(socket.input, 1, count))
  <2>2. /\ l \in Links /\ l.phase = link.phase /\ l.readiness = link.readiness
        /\ l.eof = link.eof /\ l.shutdown = link.shutdown /\ l.pendingError = link.pendingError
    BY <1>2 DEF AfterRead, Links, Directions
  <2>3. /\ t \in Engines /\ rest \in Seq(Records) /\ Len(rest) <= Len(socket.input)
        /\ t.failed \/ Received(t, rest, peer)
        /\ t.eof = tls.eof /\ t.sentClose = tls.sentClose
        /\ ~IsHandshaking(tls) => ~IsHandshaking(t)
    BY <1>2, <2>1, ReadReceived
  <2>4. s = [socket EXCEPT !.input = rest]
    BY <1>2 DEF Consume, Sockets
  <2>5. Moved(l, t, s, peer)
    BY <1>3 DEF ReadBytes
  <2> HIDE DEF l, rest, s, t
  <2>6. /\ s \in Sockets /\ s.connect = socket.connect /\ s.error = socket.error
        /\ s.fin = socket.fin /\ s.reset = socket.reset /\ s.input = rest
        /\ s.room = socket.room
    <3>1. s \in Sockets
      BY <1>2, <2>3, <2>4, SocketAfter
    <3> QED
      BY <1>2, <2>4, <3>1 DEF Sockets
  <2>7. socket.input # <<>> /\ Len(rest) <= MaxInput
    BY <1>2, <2>1, <2>3, SocketAssumption
  <2> QED
    BY <1>1, <1>2, <2>2, <2>3, <2>5, <2>6, <2>7, MovedKeeps
<1>4. ASSUME "Eof" \in ReadAnswers, tls' = ReadEof(tls),
             IF TruncatedDrained(EofSeen(link))
             THEN link' = EofSeen(link) /\ answer' = "Truncated"
             ELSE link' = Established(EofSeen(link), tls) /\ answer' = "Progress",
             UNCHANGED <<socketVars, keepalive, calling, writes, peer>>
      PROVE  TlsIInv'
  <2>1. socket.input = <<>> /\ socket.fin /\ ~socket.reset
    BY <1>4 DEF ReadAnswers
  <2> DEFINE l == EofSeen(link)
  <2>2. /\ l \in Links /\ l.phase = link.phase /\ l.readiness = link.readiness \ ReadFlags
        /\ l.eof = "Truncated" /\ l.shutdown = link.shutdown
        /\ l.pendingError = link.pendingError /\ l.plaintextBytes = link.plaintextBytes
    <3>1. l = [link EXCEPT !.readiness = link.readiness \ ReadFlags, !.eof = "Truncated"]
      BY <1>2 DEF EofSeen, ClearRawRead, Links
    <3> HIDE DEF l
    <3> QED
      BY <1>2, <3>1 DEF Links, Eofs
  <2>3. link' = l /\ answer' = "Truncated"
    BY <1>2, <1>4, <2>2 DEF TruncatedDrained
  <2> HIDE DEF l
  <2>4. /\ tls' \in Engines /\ tls'.script = tls.script /\ tls'.sendable = tls.sendable
        /\ tls'.plaintext = tls.plaintext /\ tls'.closed = tls.closed
        /\ tls'.sentClose = tls.sentClose /\ tls'.failed = tls.failed
    BY <1>2, <1>4 DEF ReadEof, Engines
  <2>5. /\ socket' = socket /\ interest' = interest /\ armed' = armed
        /\ Broken' <=> Broken
        /\ SocketSound' <=> SocketSound
    BY <1>4, SocketStays
  <2>6. keepalive' = keepalive /\ calling' = calling /\ writes' = writes /\ peer' = peer
    BY <1>4
  <2>7. Shape' /\ CallSound'
    BY <1>2, <2>2, <2>3, <2>4, <2>5, <2>6 DEF Shape, CallSound, Failures
  <2>8. EngineSound'
    <3>1. Received(tls', socket.input, peer)
      BY <1>2, <2>4 DEF Received, HandshakeAt, IsHandshaking
    <3> QED
      BY <2>5, <2>6, <3>1 DEF EngineSound
  <2>9. LinkSound'
    BY <1>1, <1>2, <2>2, <2>3, <2>4 DEF LinkSound, Started
  <2>10. PhaseSound'
    BY <1>1, <1>2, <2>2, <2>3, <2>4, <2>5, <2>6
       DEF PhaseSound, IsOpen, Started, WantsWrite, IsHandshaking
  <2>11. EdgeSound'
    BY <1>2, <2>2, <2>3, <2>5 DEF EdgeSound, Ended, Failures
  <2>12. EndSound'
    BY <1>2, <2>1, <2>2, <2>3, <2>4, <2>5 DEF EndSound
  <2> QED
    BY <1>2, <2>5, <2>7, <2>8, <2>9, <2>10, <2>11, <2>12 DEF TlsIInv
<1>5. ASSUME "WouldBlock" \in ReadAnswers, Blocked(ClearRawRead(link)) PROVE TlsIInv'
  <2>1. ~Broken /\ socket.input = <<>> /\ ~socket.fin
    BY <1>2, <1>5 DEF ReadAnswers, Broken
  <2>2. ClearRawRead(link) = [link EXCEPT !.readiness = link.readiness \ ReadFlags]
    BY <1>2 DEF ClearRawRead, Links
  <2>3. Blocked([link EXCEPT !.readiness = link.readiness \ ReadFlags])
    BY <1>5, <2>2
  <2> QED
    BY <1>1, <2>1, <2>3, BlockedKeeps
<1> QED
  BY <1>1, <1>3, <1>4, <1>5, FailsKeeps DEF DriveRead

\* Records queued behind what is on its way, none of them a flight.
LEMMA QueueReceived ==
  ASSUME NEW t \in Engines, NEW u \in Engines, NEW input, NEW p \in Peers,
         Received(t, input, p), ~t.failed,
         NEW r \in Seq(Records), \A j \in DOMAIN r : r[j] # "Flight",
         u.sendable = t.sendable \o r, u.script = t.script, u.closed = t.closed,
         u.plaintext = t.plaintext,
         u.sentClose => t.sentClose \/ \E j \in DOMAIN r : r[j] = "CloseNotify"
  PROVE  Received(u, input, p)
<1>1. PICK answered \in 0..p.flights : HandshakeAt(t, input, p, answered)
  BY DEF Received
<1> DEFINE s == t.sendable
           going == (IF answered = 0 THEN 1 ELSE 2) - p.heard
<1>2. p.heard \in 0..2 /\ s \in Seq(Records)
  BY DEF Peers, Engines
<1>3. Flights(s, going) /\ going \in {0, 1}
  BY <1>1, <1>2 DEF HandshakeAt, Flights
<1>4. Flights(s \o r, going)
  <2> HIDE DEF going, s
  <2> QED
    BY <1>2, <1>3, FlightsQueue
<1>5. HandshakeAt(u, input, p, answered)
  BY <1>1, <1>4 DEF HandshakeAt
<1>6. /\ \A i \in DOMAIN s : i \in DOMAIN (s \o r) /\ (s \o r)[i] = s[i]
      /\ \A j \in DOMAIN r : Len(s) + j \in DOMAIN (s \o r) /\ (s \o r)[Len(s) + j] = r[j]
  <2> HIDE DEF s
  <2> QED
    BY <1>2
<1>7. u.sentClose => p.bye \/ \E i \in DOMAIN u.sendable : u.sendable[i] = "CloseNotify"
  <2> SUFFICES ASSUME u.sentClose, ~p.bye
               PROVE  \E i \in DOMAIN (s \o r) : (s \o r)[i] = "CloseNotify"
    OBVIOUS
  <2>1. CASE t.sentClose
    <3>1. PICK i \in DOMAIN s : s[i] = "CloseNotify"
      BY <2>1 DEF Received
    <3> QED
      BY <1>6, <3>1
  <2>2. CASE \E j \in DOMAIN r : r[j] = "CloseNotify"
    BY <1>6, <2>2
  <2> QED
    BY <2>1, <2>2
<1> HIDE DEF s, going
<1> QED
  BY <1>5, <1>7 DEF Received, IsHandshaking

\* A call of the open adapter that leaves the socket alone.
LEMMA ApplicationKeeps ==
  ASSUME TlsIInv, Idle, IsOpen(link),
         UNCHANGED <<socketVars, keepalive, calling, peer>>,
         writes' \in 0..MaxWrites, answer' \in {"Bytes", "Eof", "Progress", "Failed"},
         link' \in Links, link'.phase = "Open", link'.readiness = link.readiness,
         link'.eof = link.eof,
         tls' \in Engines, tls'.script = tls.script, tls'.closed = tls.closed,
         tls'.eof = tls.eof, tls'.failed = tls.failed,
         Received(tls', socket.input, peer),
         answer' # "Failed" =>
           /\ link'.plaintextBytes = tls'.plaintext
           /\ link'.pendingError => Len(tls'.sendable) > MaxEgress /\ ~Started(link'),
         Started(link') <=> tls'.sentClose,
         answer' = "Eof" => tls.closed /\ tls'.plaintext = 0
  PROVE  TlsIInv'
<1>1. /\ Shape /\ SocketSound /\ LinkSound /\ PhaseSound /\ EdgeSound
      /\ calling = "Idle" /\ ~Ended /\ link.eof \in {"Live", "Clean"} /\ ~tls.eof /\ ~tls.failed
      /\ link.eof = "Clean" <=> tls.closed
  BY IdleFacts DEF TlsIInv
<1>2. /\ socket' = socket /\ interest' = interest /\ armed' = armed
      /\ Broken' <=> Broken
      /\ SocketSound' <=> SocketSound
  BY SocketStays
<1>3. keepalive' = keepalive /\ calling' = calling /\ peer' = peer
  OBVIOUS
<1>4. Shape'
  BY <1>1, <1>2, <1>3 DEF Shape, Failures
<1>5. EngineSound' /\ CallSound'
  BY <1>1, <1>2, <1>3 DEF EngineSound, CallSound
<1>6. LinkSound'
  BY <1>1 DEF LinkSound, Started
<1>7. PhaseSound'
  BY <1>1, <1>2, <1>3 DEF PhaseSound, IsOpen, IsHandshaking
<1>8. EdgeSound'
  BY <1>1, <1>2 DEF EdgeSound
<1>9. EndSound'
  BY <1>1, <1>3 DEF EndSound, Received
<1> QED
  BY <1>1, <1>2, <1>4, <1>5, <1>6, <1>7, <1>8, <1>9 DEF TlsIInv

\* A read made because there is plaintext, or the clean end, gives one of them.
LEMMA ReadFacts ==
  ASSUME TlsIInv, Read
  PROVE  /\ answer' \in {"Bytes", "Eof"} /\ TlsIInv'
         /\ link'.phase = link.phase /\ link'.shutdown = link.shutdown
         /\ tls'.sendable = tls.sendable
<1>1. /\ Idle /\ IsOpen(link) /\ ~Started(link)
      /\ link.plaintextBytes # 0 \/ link.eof = "Clean"
      /\ UNCHANGED <<socketVars, keepalive, calling, writes, peer>>
  BY DEF Read, CanRead, CanReadPlaintext
<1>2. /\ link.plaintextBytes = tls.plaintext /\ (link.eof = "Clean" <=> tls.closed)
      /\ Received(tls, socket.input, peer) /\ ~tls.failed
      /\ link \in Links /\ tls \in Engines /\ ~tls.sentClose
      /\ link.pendingError => Len(tls.sendable) > MaxEgress
      /\ writes \in 0..MaxWrites /\ ~IsHandshaking(tls)
  BY <1>1, IdleFacts DEF TlsIInv, Shape, PhaseSound
<1>3. CASE tls.plaintext > 0
  <2>1. /\ answer' = "Bytes" /\ tls' = [tls EXCEPT !.plaintext = tls.plaintext - 1]
        /\ link' = [link EXCEPT !.plaintextBytes = link.plaintextBytes - 1]
    BY <1>2, <1>3 DEF Read, ReaderAnswer, ReadPlaintext, Engines, Links
  <2>2. tls.plaintext - 1 \in 0..MaxPlaintext /\ tls.plaintext - 1 \in Nat
    BY <1>2, <1>3, EngineAssumption DEF Links
  <2>3. /\ tls' \in Engines /\ tls'.script = tls.script /\ tls'.sendable = tls.sendable
        /\ tls'.closed = tls.closed /\ tls'.eof = tls.eof /\ tls'.failed = tls.failed
        /\ tls'.sentClose = tls.sentClose /\ tls'.plaintext = tls.plaintext - 1
    BY <1>2, <2>1, <2>2 DEF Engines
  <2>4. /\ link' \in Links /\ link'.phase = link.phase /\ link'.readiness = link.readiness
        /\ link'.eof = link.eof /\ link'.shutdown = link.shutdown
        /\ link'.pendingError = link.pendingError
        /\ link'.plaintextBytes = tls.plaintext - 1
    BY <1>2, <2>1, <2>2 DEF Links
  <2>5. Received(tls', socket.input, peer)
    BY <1>2, <2>3 DEF Received, HandshakeAt, IsHandshaking
  <2>6. TlsIInv'
    BY <1>1, <1>2, <2>1, <2>3, <2>4, <2>5, ApplicationKeeps DEF Started, IsOpen
  <2> QED
    BY <2>1, <2>3, <2>4, <2>6
<1>4. CASE ~(tls.plaintext > 0)
  <2>1. tls.plaintext = 0 /\ tls.closed
    BY <1>1, <1>2, <1>4 DEF Engines
  <2>2. answer' = "Eof" /\ tls' = tls /\ link' = link
    BY <1>4, <2>1 DEF Read, ReaderAnswer
  <2>3. TlsIInv'
    BY <1>1, <1>2, <2>1, <2>2, ApplicationKeeps DEF Started, IsOpen
  <2> QED
    BY <2>2, <2>3
<1> QED
  BY <1>3, <1>4

\* Bytes that were accepted are queued whatever the bounds say: output above them
\* is an error for the next call.
LEMMA WriteFacts ==
  ASSUME TlsIInv, NEW count \in 1..WriteRecords, Write(count)
  PROVE  /\ TlsIInv' /\ answer' = "Bytes"
         /\ link'.phase = link.phase /\ link'.shutdown = link.shutdown
<1> DEFINE data == [i \in 1..count |-> "Data"]
           t == Accept(tls, count)
<1>1. /\ Idle /\ IsOpen(link) /\ ~Started(link) /\ ~WantsWrite(tls)
      /\ writes > 0 /\ writes' = writes - 1 /\ answer' = "Bytes"
      /\ tls' = t /\ link' = RecordPendingError(link, t)
      /\ UNCHANGED <<socketVars, keepalive, calling, peer>>
  BY DEF Write, CanWrite, CanAcceptPlaintext
<1>2. /\ link.plaintextBytes = tls.plaintext /\ (link.eof = "Clean" <=> tls.closed)
      /\ Received(tls, socket.input, peer) /\ ~tls.failed
      /\ link \in Links /\ tls \in Engines /\ peer \in Peers /\ ~tls.sentClose
      /\ link.pendingError => Len(tls.sendable) > MaxEgress
      /\ writes \in 0..MaxWrites /\ ~IsHandshaking(tls)
  BY <1>1, IdleFacts DEF TlsIInv, Shape, PhaseSound
<1>3. data \in Seq(Records) /\ \A j \in DOMAIN data : data[j] = "Data"
  BY DEF Records
<1> HIDE DEF data
<1>4. /\ t = [tls EXCEPT !.sendable = tls.sendable \o data]
      /\ tls.sendable \in Seq(Records) /\ tls.sendable \o data \in Seq(Records)
  BY <1>2, <1>3 DEF Accept, Queue, Engines, data
<1> HIDE DEF t
<1>5. /\ t \in Engines /\ t.script = tls.script /\ t.sendable = tls.sendable \o data
      /\ t.closed = tls.closed /\ t.eof = tls.eof /\ t.failed = tls.failed
      /\ t.sentClose = tls.sentClose /\ t.plaintext = tls.plaintext
  BY <1>2, <1>4 DEF Engines
<1>6. Received(t, socket.input, peer)
  BY <1>2, <1>3, <1>5, QueueReceived
<1>7. Len(t.sendable) \in Nat /\ ~link.pendingError
  <2>1. tls.sendable = <<>>
    BY <1>1 DEF WantsWrite
  <2> QED
    BY <1>2, <1>4, <1>5, <2>1, EngineAssumption
<1>8. /\ link' \in Links /\ link'.phase = link.phase /\ link'.readiness = link.readiness
      /\ link'.eof = link.eof /\ link'.shutdown = link.shutdown
      /\ link'.plaintextBytes = tls.plaintext
      /\ link'.pendingError => Len(t.sendable) > MaxEgress
  <2>1. CASE Refreshes(t)
    <3>1. link' = RefreshState(link, t)
      BY <1>1, <2>1 DEF RecordPendingError
    <3>2. /\ RefreshState(link, t) \in Links
          /\ RefreshState(link, t).phase = link.phase
          /\ RefreshState(link, t).readiness = link.readiness
          /\ RefreshState(link, t).plaintextBytes = t.plaintext
          /\ RefreshState(link, t).eof = IF t.closed THEN "Clean" ELSE link.eof
          /\ RefreshState(link, t).shutdown = link.shutdown
          /\ RefreshState(link, t).pendingError = link.pendingError
      BY <1>2, <1>5, <2>1, RefreshFields, Zenon
    <3> QED
      BY <1>2, <1>5, <1>7, <3>1, <3>2
  <2>2. CASE ~Refreshes(t)
    <3>1. link' = [link EXCEPT !.pendingError = TRUE]
      BY <1>1, <2>2 DEF RecordPendingError
    <3>2. t.plaintext <= MaxPlaintext
      BY <1>2, <1>5, EngineAssumption DEF Links
    <3>3. Len(t.sendable) > MaxEgress
      BY <1>2, <1>5, <1>7, <2>2, <3>2, EngineAssumption DEF Refreshes, ValidateState
    <3> QED
      BY <1>2, <3>1, <3>3 DEF Links
  <2> QED
    BY <2>1, <2>2
<1>9. writes' \in 0..MaxWrites
  BY <1>1, <1>2, TlsAssumption
<1>10. TlsIInv'
  BY <1>1, <1>2, <1>5, <1>6, <1>8, <1>9, ApplicationKeeps DEF Started, IsOpen
<1> QED
  BY <1>1, <1>8, <1>10

\* The close_notify goes behind everything that was accepted.
LEMMA BeginShutdownFacts ==
  ASSUME TlsIInv, BeginShutdown
  PROVE  /\ TlsIInv' /\ answer' \in {"Progress", "Failed"}
         /\ IsOpen(link) /\ IsOpen(link)' /\ Started(link)'
<1> DEFINE t == SendCloseNotify(tls)
           bye == <<"CloseNotify">>
           base == IF Refreshes(t) THEN RefreshState(link, t) ELSE link
<1>1. /\ Idle /\ IsOpen(link) /\ ~Started(link)
      /\ tls' = t /\ link' = [base EXCEPT !.shutdown = "Started"]
      /\ answer' = IF Refreshes(t) THEN "Progress" ELSE "Failed"
      /\ UNCHANGED <<socketVars, keepalive, calling, writes, peer>>
  BY DEF BeginShutdown
<1>2. /\ link.plaintextBytes = tls.plaintext /\ (link.eof = "Clean" <=> tls.closed)
      /\ Received(tls, socket.input, peer) /\ ~tls.failed
      /\ link \in Links /\ tls \in Engines /\ peer \in Peers /\ ~tls.sentClose
      /\ link.pendingError => Len(tls.sendable) > MaxEgress
      /\ writes \in 0..MaxWrites /\ ~IsHandshaking(tls)
  BY <1>1, IdleFacts DEF TlsIInv, Shape, PhaseSound
<1>3. /\ bye \in Seq(Records) /\ DOMAIN bye = {1} /\ bye[1] = "CloseNotify"
  BY DEF Records
<1> HIDE DEF bye
<1>4. /\ t = [tls EXCEPT !.sentClose = TRUE, !.sendable = tls.sendable \o bye]
      /\ tls.sendable \in Seq(Records) /\ tls.sendable \o bye \in Seq(Records)
      /\ Len(tls.sendable \o bye) = Len(tls.sendable) + Len(bye)
      /\ Len(bye) = 1 /\ Len(tls.sendable) \in Nat
  BY <1>2, <1>3 DEF SendCloseNotify, Queue, Engines, bye
<1> HIDE DEF t
<1>5. /\ t \in Engines /\ t.script = tls.script /\ t.sendable = tls.sendable \o bye
      /\ t.closed = tls.closed /\ t.eof = tls.eof /\ t.failed = tls.failed
      /\ t.sentClose /\ t.plaintext = tls.plaintext
  BY <1>2, <1>4 DEF Engines
<1>6. Received(t, socket.input, peer)
  BY <1>2, <1>3, <1>5, QueueReceived
<1>7. Refreshes(t) => ~link.pendingError
  BY <1>2, <1>4, <1>5, EngineAssumption DEF Refreshes, ValidateState
<1>8. /\ base \in Links /\ base.phase = link.phase /\ base.readiness = link.readiness
      /\ base.eof = link.eof /\ base.pendingError = link.pendingError
      /\ base.plaintextBytes = tls.plaintext
  <2>1. CASE Refreshes(t)
    <3>1. base = RefreshState(link, t)
      BY <2>1
    <3> HIDE DEF base
    <3>2. /\ RefreshState(link, t) \in Links
          /\ RefreshState(link, t).phase = link.phase
          /\ RefreshState(link, t).readiness = link.readiness
          /\ RefreshState(link, t).plaintextBytes = t.plaintext
          /\ RefreshState(link, t).eof = IF t.closed THEN "Clean" ELSE link.eof
          /\ RefreshState(link, t).shutdown = link.shutdown
          /\ RefreshState(link, t).pendingError = link.pendingError
      BY <1>2, <1>5, <2>1, RefreshFields, Zenon
    <3> QED
      BY <1>2, <1>5, <3>1, <3>2
  <2>2. CASE ~Refreshes(t)
    BY <1>2, <2>2
  <2> QED
    BY <2>1, <2>2
<1>9. /\ link' \in Links /\ link'.phase = link.phase /\ link'.readiness = link.readiness
      /\ link'.eof = link.eof /\ link'.shutdown = "Started"
      /\ link'.pendingError = link.pendingError /\ link'.plaintextBytes = tls.plaintext
  <2> HIDE DEF base
  <2> QED
    BY <1>1, <1>8 DEF Links
<1>10. TlsIInv'
  BY <1>1, <1>2, <1>5, <1>6, <1>7, <1>9, ApplicationKeeps DEF Started, IsOpen
<1> QED
  BY <1>1, <1>9, <1>10 DEF Started, IsOpen

LEMMA ShutdownWorkFacts ==
  ASSUME TlsIInv, ShutdownWork
  PROVE  /\ Idle /\ IsOpen(link) /\ ~link.pendingError /\ CanTlsWrite(link, tls) /\ TlsIInv'
<1>1. Idle /\ Started(link) /\ CanTlsWrite(link, tls) /\ DriveTlsWrite
  BY DEF ShutdownWork, HasTransportWork
<1>2. ~link.pendingError /\ IsOpen(link)
  BY <1>1, IdleFacts DEF TlsIInv, PhaseSound
<1> QED
  BY <1>1, <1>2, DriveTlsWriteKeeps DEF IsOpen

LEMMA DriveTlsKeeps == TlsIInv /\ DriveTls => TlsIInv'
<1> SUFFICES ASSUME TlsIInv, DriveTls PROVE TlsIInv'
  OBVIOUS
<1>1. CASE DriveStops
  BY <1>1, DriveStopsFails, FailsKeeps
<1>2. CASE DriveWrite
  <2>1. Driving /\ ~link.pendingError /\ CanTlsWrite(link, tls) /\ DriveTlsWrite
    BY <1>2 DEF DriveWrite, Goes
  <2> QED
    BY <2>1, DrivingFacts, DriveTlsWriteKeeps
<1> QED
  BY <1>1, <1>2, DriveReadKeeps DEF DriveTls

LEMMA TlsStep == TlsIInv /\ [Next]_vars => TlsIInv'
  BY TakeErrorKeeps, PeerAddrKeeps, AppliesKeeps, DriveTlsKeeps, ReadFacts, WriteFacts,
     BeginShutdownFacts, ShutdownWorkFacts, SlotHoldsWriteKeeps, SyncInterestKeeps, PollKeeps,
     ServerKeeps, KernelKeeps
  DEF Next, Establish

\* The adapter reports a clean end only after the server's close_notify and all
\* it sent before, opens only when both sides have the whole handshake, completes
\* a shutdown only when all it accepted has left, and never waits for an edge that
\* is already gone (establish.rs, tls_io.rs, application.rs, port.rs), for every
\* buffer size, limit, version and policy.
THEOREM TlsKeepsItsPromises == Spec => []TlsInv
<1>1. Spec => []TlsIInv
  BY TlsInit, TlsStep, PTL DEF Spec
<1> QED
  BY <1>1, TlsIInvImplies, PTL

(***************************************************************************)
(* The adapter is a transport of the kind the slot assumes: every step is a *)
(* call of the contract, or invisible to the slot.                          *)
(***************************************************************************)

\* What a raw operation may tell the slot: it opens the transport or leaves it,
\* and a failure opens nothing.
Tells ==
  /\ link'.shutdown = link.shutdown
  /\ answer' \in {"Progress", "Failed", "Truncated"}
  /\ IsOpen(link) => IsOpen(link')
  /\ answer' # "Progress" => link'.phase = link.phase

LEMMA EstablishedTells ==
  ASSUME NEW l \in Links, NEW t, l.phase = link.phase, l.shutdown = link.shutdown,
         link' = Established(l, t), answer' = "Progress"
  PROVE  Tells
  BY DEF Established, Tells, IsOpen, Links

LEMMA MovedTells ==
  ASSUME NEW l \in Links, NEW t \in Engines, NEW s, NEW q, Moved(l, t, s, q),
         l.phase = link.phase, l.shutdown = link.shutdown
  PROVE  Tells
<1> DEFINE refreshed == RefreshState(l, t)
<1>1. CASE Refreshes(t)
  <2>1. answer' = "Progress" /\ link' = Established(refreshed, t)
    BY <1>1 DEF Moved
  <2>2. refreshed \in Links /\ refreshed.phase = l.phase /\ refreshed.shutdown = l.shutdown
    BY <1>1, RefreshFields, Zenon
  <2> HIDE DEF refreshed
  <2> QED
    BY <2>1, <2>2, EstablishedTells
<1>2. CASE ~Refreshes(t)
  BY <1>2 DEF Moved, Tells
<1> QED
  BY <1>1, <1>2

LEMMA DriveTlsWriteTells == TlsIInv /\ Idle /\ DriveTlsWrite => Tells
<1> SUFFICES ASSUME TlsIInv, Idle, DriveTlsWrite PROVE Tells
  OBVIOUS
<1>1. link \in Links /\ tls \in Engines
  BY IdleFacts
<1>2. ASSUME NEW count \in 1..RawUnits, count <= Len(tls.sendable),
             Moved(AfterWrite(link), WriteTls(tls, count), Fill(count), Hears(count))
      PROVE  Tells
  <2> DEFINE l == AfterWrite(link)
             t == WriteTls(tls, count)
  <2>1. l \in Links /\ l.phase = link.phase /\ l.shutdown = link.shutdown
    BY <1>1 DEF AfterWrite, Links, Directions
  <2>2. t \in Engines
    <3>1. SubSeq(tls.sendable, count + 1, Len(tls.sendable)) \in Seq(Records)
      BY <1>1, <1>2, TlsAssumption DEF Engines
    <3> QED
      BY <1>1, <3>1 DEF WriteTls, Engines
  <2> HIDE DEF l, t
  <2> QED
    BY <1>2, <2>1, <2>2, MovedTells DEF l, t
<1>3. ASSUME Blocked(ClearRawWrite(link)) PROVE Tells
  <2>1. /\ ClearRawWrite(link) \in Links /\ ClearRawWrite(link).phase = link.phase
        /\ ClearRawWrite(link).shutdown = link.shutdown
    BY <1>1 DEF ClearRawWrite, Links
  <2> QED
    BY <1>3, <2>1, EstablishedTells DEF Blocked
<1>4. ASSUME Fails("Failed") PROVE Tells
  BY <1>4 DEF Fails, Tells
<1> QED
  BY <1>2, <1>3, <1>4 DEF DriveTlsWrite

LEMMA DriveTlsTells == TlsIInv /\ DriveTls => Tells
<1> SUFFICES ASSUME TlsIInv, DriveTls PROVE Tells
  OBVIOUS
<1>1. CASE DriveStops
  BY <1>1, DriveStopsFails DEF Fails, Tells
<1>2. CASE DriveWrite
  BY <1>2, DriveTlsWriteTells DEF DriveWrite, Goes, Driving
<1>3. CASE DriveRead
  <2>1. /\ link \in Links /\ tls \in Engines /\ peer \in Peers
        /\ socket.input \in Seq(Records) /\ Received(tls, socket.input, peer)
    BY <1>3, IdleFacts DEF DriveRead, Goes, Driving, Sockets
  <2>2. ASSUME NEW count \in 1..RawUnits, count <= Len(socket.input), ReadBytes(count)
        PROVE  Tells
    <3> DEFINE l == AfterRead(link)
               t == Process(tls, SubSeq(socket.input, 1, count))
    <3>1. l \in Links /\ l.phase = link.phase /\ l.shutdown = link.shutdown
      BY <2>1 DEF AfterRead, Links, Directions
    <3>2. t \in Engines
      <4>1. count \in 1..Len(socket.input)
        BY <2>1, <2>2, TlsAssumption
      <4> QED
        BY <2>1, <4>1, ReadReceived
    <3>3. Moved(l, t, Consume(count), peer)
      BY <2>2 DEF ReadBytes
    <3> HIDE DEF l, t
    <3> QED
      BY <3>1, <3>2, <3>3, MovedTells
  <2>3. ASSUME IF TruncatedDrained(EofSeen(link))
               THEN link' = EofSeen(link) /\ answer' = "Truncated"
               ELSE link' = Established(EofSeen(link), tls) /\ answer' = "Progress"
        PROVE  Tells
    <3> DEFINE l == EofSeen(link)
    <3>1. l \in Links /\ l.phase = link.phase /\ l.shutdown = link.shutdown
      BY <2>1 DEF EofSeen, ClearRawRead, Links, Eofs
    <3>2. CASE TruncatedDrained(l)
      BY <2>3, <3>1, <3>2 DEF Tells, IsOpen
    <3>3. CASE ~TruncatedDrained(l)
      <4>1. link' = Established(l, tls) /\ answer' = "Progress"
        BY <2>3, <3>3
      <4> HIDE DEF l
      <4> QED
        BY <3>1, <4>1, EstablishedTells
    <3> QED
      BY <3>2, <3>3
  <2>4. ASSUME Blocked(ClearRawRead(link)) PROVE Tells
    <3>1. /\ ClearRawRead(link) \in Links /\ ClearRawRead(link).phase = link.phase
          /\ ClearRawRead(link).shutdown = link.shutdown
      BY <2>1 DEF ClearRawRead, Links
    <3> QED
      BY <2>4, <3>1, EstablishedTells DEF Blocked
  <2>5. ASSUME Fails("Failed") PROVE Tells
    BY <2>5 DEF Fails, Tells
  <2> QED
    BY <1>3, <2>2, <2>3, <2>4, <2>5 DEF DriveRead
<1> QED
  BY <1>1, <1>2, <1>3 DEF DriveTls

LEMMA ViewTyped ==
  /\ TlsIInv => View \in Contract!Views
  /\ TlsIInv' => View' \in Contract!Views
<1>1. ASSUME NEW l \in Links, NEW t
      PROVE  [open |-> IsOpen(l), establish |-> CanEstablish(l, t),
              work |-> IsOpen(l) /\ HasTransportWork(l, t),
              read |-> CanRead(l), write |-> CanWrite(l, t),
              complete |-> IsShutdownComplete(l, t)] \in Contract!Views
  <2>1. l.phase \in Phases /\ l.pendingError \in BOOLEAN
    BY DEF Links
  <2>2. CanTlsProgress(l, t) \in BOOLEAN /\ CanTlsWrite(l, t) \in BOOLEAN
    BY <2>1 DEF CanTlsProgress, CanTlsWrite
  <2>3. /\ CanEstablish(l, t) \in BOOLEAN /\ HasTransportWork(l, t) \in BOOLEAN
        /\ IsOpen(l) \in BOOLEAN /\ (IsOpen(l) => CanEstablish(l, t) = FALSE)
    BY <2>1, <2>2 DEF CanEstablish, HasTransportWork, CanConnect, IsOpen, Phases
  <2>4. /\ CanRead(l) \in BOOLEAN /\ CanWrite(l, t) \in BOOLEAN
        /\ IsShutdownComplete(l, t) \in BOOLEAN
        /\ ~IsOpen(l) => CanRead(l) = FALSE /\ CanWrite(l, t) = FALSE
    BY DEF CanRead, CanWrite, IsShutdownComplete
  <2>5. CASE IsOpen(l)
    BY <2>3, <2>4, <2>5 DEF Contract!Views
  <2>6. CASE ~IsOpen(l)
    BY <2>3, <2>4, <2>6 DEF Contract!Views
  <2> QED
    BY <2>5, <2>6
<1>2. TlsIInv => link \in Links
  BY DEF TlsIInv, Shape
<1>3. TlsIInv' => link' \in Links
  BY DEF TlsIInv, Shape
<1>4. TlsIInv => View \in Contract!Views
  BY <1>1, <1>2 DEF View
<1>5. ASSUME TlsIInv' PROVE View' \in Contract!Views
  <2>1. View' = [open |-> IsOpen(link'), establish |-> CanEstablish(link', tls'),
                 work |-> IsOpen(link') /\ HasTransportWork(link', tls'),
                 read |-> CanRead(link'), write |-> CanWrite(link', tls'),
                 complete |-> IsShutdownComplete(link', tls')]
    BY DEF View
  <2> QED
    BY <1>1, <1>3, <1>5, <2>1
<1> QED
  BY <1>4, <1>5

LEMMA ViewEnds == Contract!Ended <=> Ended
  BY DEF Contract!Ended, Contract!Failures, View, Ended, Failures, IsShutdownComplete

LEMMA ContractInit == Init => Contract!Init
<1> SUFFICES ASSUME Init PROVE Contract!Init
  OBVIOUS
<1>1. View \in Contract!Views
  BY TlsInit, ViewTyped
<1>2. link = NewLink /\ answer = "None"
  BY DEF Init
<1>3. ~View.open /\ ~View.establish /\ Started(link) = FALSE
  BY <1>2 DEF NewLink, View, IsOpen, CanEstablish, CanConnect, Started
<1> QED
  BY <1>1, <1>2, <1>3 DEF Contract!Init

LEMMA ContractStep == TlsIInv /\ [Next]_vars => [Contract!Next]_Contract!vars
<1> SUFFICES ASSUME TlsIInv, [Next]_vars PROVE [Contract!Next]_Contract!vars
  OBVIOUS
<1>1. TlsIInv' /\ link \in Links /\ link' \in Links
  <2>1. TlsIInv'
    BY TlsStep
  <2> QED
    BY <2>1 DEF TlsIInv, Shape
<1>2. View \in Contract!Views /\ View' \in Contract!Views
  BY <1>1, ViewTyped
<1>3. /\ View.open = IsOpen(link) /\ View'.open = IsOpen(link')
      /\ View.establish = CanEstablish(link, tls)
      /\ View'.establish = CanEstablish(link', tls')
      /\ View.work = (IsOpen(link) /\ HasTransportWork(link, tls))
      /\ View'.work = (IsOpen(link') /\ HasTransportWork(link', tls'))
      /\ View.read = CanRead(link) /\ View'.read = CanRead(link')
      /\ View.write = CanWrite(link, tls) /\ View'.write = CanWrite(link', tls')
      /\ View.complete = IsShutdownComplete(link, tls)
      /\ View'.complete = IsShutdownComplete(link', tls')
      /\ DOMAIN View = {"open", "establish", "work", "read", "write", "complete"}
  BY DEF View
<1>4. ASSUME Idle PROVE ~Contract!Ended /\ View.complete = FALSE
  BY <1>3, <1>4, ViewEnds DEF Idle, Ended, IsShutdownComplete
<1>5. ASSUME link'.shutdown = link.shutdown
      PROVE  /\ Started(link)' = Started(link)
             /\ ~Started(link) => View.complete = FALSE /\ View'.complete = FALSE
  BY <1>3, <1>5 DEF Started, IsShutdownComplete
<1>6. ASSUME link' = link, tls' = tls, answer' = answer PROVE UNCHANGED Contract!vars
  BY <1>6 DEF Contract!vars, View, Started, IsOpen, CanEstablish, CanRead, CanWrite,
              IsShutdownComplete, HasTransportWork
<1>7. ASSUME ~Ended, ~IsOpen(link), CanEstablish(link, tls), Tells PROVE Contract!Establish
  <2>1. ~Started(link)
    BY <1>7 DEF TlsIInv, PhaseSound
  <2>2. /\ link'.shutdown = link.shutdown /\ answer' \in {"Progress", "Failed", "Truncated"}
        /\ answer' # "Progress" => link'.phase = link.phase
    BY <1>7 DEF Tells
  <2>3. ~Contract!Ended
    BY <1>7, ViewEnds
  <2> QED
    BY <1>2, <1>3, <1>5, <1>7, <2>1, <2>2, <2>3
       DEF Contract!Establish, Contract!Moves, Contract!Failures, IsOpen
<1>8. ASSUME Idle, IsOpen(link), HasTransportWork(link, tls), Tells PROVE Contract!Work
  <2>1. /\ link'.shutdown = link.shutdown /\ answer' \in {"Progress", "Failed", "Truncated"}
        /\ IsOpen(link')
    BY <1>8 DEF Tells
  <2> QED
    BY <1>2, <1>3, <1>4, <1>5, <1>8, <2>1
       DEF Contract!Work, Contract!Moves, Contract!Failures
<1>9. CASE TakeError
  <2>1. CASE socket.error
    <3>1. /\ ~Ended /\ CanEstablish(link, tls) /\ link.phase = "Connecting" /\ Tells
      BY <1>9, <2>1 DEF TakeError, Establishing, Fails, Idle, Tells
    <3> QED
      BY <1>7, <3>1 DEF Contract!Next, IsOpen
  <2>2. CASE ~socket.error
    BY <1>6, <1>9, <2>2 DEF TakeError
  <2> QED
    BY <2>1, <2>2
<1>10. CASE PeerAddr
  <2>1. /\ ~Ended /\ link.phase = "Connecting" /\ CanConnect(link)
    BY <1>10 DEF PeerAddr, TlsIInv, CallSound
  <2>2. /\ link'.shutdown = link.shutdown
        /\ answer' = "Progress" \/ (answer' = "Failed" /\ link' = link)
    BY <1>1, <1>10 DEF PeerAddr, ClearConnect, Links
  <2> QED
    BY <1>7, <2>1, <2>2 DEF Contract!Next, IsOpen, CanEstablish, Tells
<1>11. CASE ApplyNoDelay \/ ApplyKeepalive
  <2>1. PICK phase \in {"Keepalive", "Handshaking"} :
          /\ Idle /\ CanEstablish(link, tls) /\ link.phase \in {"NoDelay", "Keepalive"}
          /\ Applies(phase)
    BY <1>11 DEF ApplyNoDelay, ApplyKeepalive, Establishing
  <2> DEFINE l == [link EXCEPT !.phase = phase]
  <2>2. /\ link'.shutdown = link.shutdown
        /\ answer' = "Progress" \/ (answer' = "Failed" /\ link' = link)
    <3>1. l.shutdown = link.shutdown /\ [l EXCEPT !.phase = "Open"].shutdown = link.shutdown
      BY <1>1 DEF Links
    <3>2. \/ link' = Established(l, tls) /\ answer' = "Progress"
          \/ link' = link /\ answer' = "Failed"
      BY <2>1 DEF Applies, Fails
    <3>3. Established(l, tls) \in {l, [l EXCEPT !.phase = "Open"]}
      BY DEF Established
    <3> HIDE DEF l
    <3> QED
      BY <3>1, <3>2, <3>3
  <2> QED
    BY <1>7, <2>1, <2>2 DEF Contract!Next, IsOpen, Tells, Idle
<1>12. CASE DriveTls
  <2>1. Driving
    BY <1>12 DEF DriveTls, DriveStops, DriveRead, DriveWrite, Goes
  <2>2. Tells
    BY <1>12, DriveTlsTells
  <2>3. CASE link.phase = "Handshaking" /\ CanEstablish(link, tls)
    BY <1>7, <2>1, <2>2, <2>3 DEF Contract!Next, Driving, Idle, IsOpen
  <2>4. CASE IsOpen(link) /\ HasTransportWork(link, tls)
    BY <1>8, <2>1, <2>2, <2>4 DEF Contract!Next, Driving
  <2> QED
    BY <2>1, <2>3, <2>4 DEF Driving
<1>13. CASE Read
  <2>1. Idle /\ CanRead(link) /\ ~Started(link) /\ IsOpen(link)
    BY <1>13 DEF Read, CanRead
  <2>2. answer' \in {"Bytes", "Eof"} /\ link'.phase = link.phase /\ link'.shutdown = link.shutdown
    BY <1>13, ReadFacts
  <2>3. Contract!Read
    BY <1>2, <1>3, <1>4, <1>5, <2>1, <2>2
       DEF Contract!Read, Contract!Moves, Contract!Failures, IsOpen
  <2> QED
    BY <2>3 DEF Contract!Next
<1>14. ASSUME NEW count \in 1..WriteRecords, Write(count) PROVE Contract!Next
  <2>1. Idle /\ CanWrite(link, tls) /\ ~Started(link) /\ IsOpen(link)
    BY <1>14 DEF Write, CanWrite
  <2>2. answer' = "Bytes" /\ link'.phase = link.phase /\ link'.shutdown = link.shutdown
    BY <1>14, WriteFacts
  <2>3. Contract!Write
    BY <1>2, <1>3, <1>4, <1>5, <2>1, <2>2
       DEF Contract!Write, Contract!Moves, Contract!Failures, IsOpen
  <2> QED
    BY <2>3 DEF Contract!Next
<1>15. CASE BeginShutdown
  <2>1. /\ Idle /\ IsOpen(link) /\ ~Started(link) /\ IsOpen(link') /\ Started(link)'
        /\ answer' \in {"Progress", "Failed"}
    BY <1>15, BeginShutdownFacts DEF BeginShutdown, IsOpen
  <2>2. Contract!BeginShutdown
    BY <1>2, <1>3, <1>4, <2>1
       DEF Contract!BeginShutdown, Contract!Failures, Started
  <2> QED
    BY <2>2 DEF Contract!Next
<1>16. CASE ShutdownWork
  <2>1. Idle /\ IsOpen(link) /\ HasTransportWork(link, tls) /\ DriveTlsWrite
    BY <1>16, ShutdownWorkFacts DEF ShutdownWork
  <2> QED
    BY <1>8, <2>1, DriveTlsWriteTells DEF Contract!Next
<1>17. ASSUME \/ SlotHoldsWrite \/ SyncInterest \/ PeerFlight
              \/ \E record \in PeerRecords : PeerRecord(record)
              \/ Kernel \/ UNCHANGED vars
       PROVE  UNCHANGED Contract!vars
  BY <1>6, <1>17
     DEF SlotHoldsWrite, SyncInterest, PeerFlight, PeerRecord, Kernel, vars, adapterVars
<1>18. ASSUME NEW readiness, Poll(readiness) PROVE Contract!Next
  <2>1. link' = Observe(link, readiness) /\ tls' = tls /\ answer' = answer /\ Idle
    BY <1>18 DEF Poll
  <2>2. /\ link'.phase = link.phase /\ link'.shutdown = link.shutdown
        /\ link'.plaintextBytes = link.plaintextBytes /\ link'.eof = link.eof
        /\ link'.pendingError = link.pendingError
        /\ link.readiness \subseteq link'.readiness
    BY <1>1, <2>1 DEF Links, Observe
  <2>3. /\ CanTlsWrite(link, tls) => CanTlsWrite(link', tls')
        /\ CanTlsProgress(link, tls) => CanTlsProgress(link', tls')
        /\ Started(link') <=> Started(link)
    BY <2>1, <2>2 DEF CanTlsProgress, CanTlsRead, CanTlsWrite, TruncatedDrained, Started
  <2>4. /\ IsOpen(link') <=> IsOpen(link)
        /\ CanRead(link) => CanRead(link')
        /\ CanWrite(link, tls) => CanWrite(link', tls')
        /\ IsShutdownComplete(link', tls') <=> IsShutdownComplete(link, tls)
    BY <2>1, <2>2, <2>3
       DEF IsOpen, CanRead, CanReadPlaintext, CanWrite, CanAcceptPlaintext, CanRawWrite,
           IsShutdownComplete
  <2>5. HasTransportWork(link, tls) => HasTransportWork(link', tls')
    BY <2>3 DEF HasTransportWork
  <2>6. CanEstablish(link, tls) => CanEstablish(link', tls')
    <3>1. CanConnect(link) => CanConnect(link')
      BY <2>2 DEF CanConnect
    <3> QED
      BY <1>1, <2>2, <2>3, <3>1 DEF CanEstablish
  <2>7. View'.open = View.open /\ View'.complete = View.complete
    BY <1>2, <1>3, <2>4 DEF Contract!Views
  <2>8. \A question \in DOMAIN View : View[question] => View'[question]
    BY <1>3, <2>4, <2>5, <2>6
  <2>9. Contract!Observe
    BY <1>2, <1>5, <2>1, <2>2, <2>7, <2>8 DEF Contract!Observe, Contract!Moves
  <2> QED
    BY <2>9 DEF Contract!Next
<1> QED
  BY <1>9, <1>10, <1>11, <1>12, <1>13, <1>14, <1>15, <1>16, <1>17, <1>18
  DEF Next, Establish

\* What the slot sees of the TLS adapter (port.rs) is a transport that keeps the
\* contract of transport/port.rs: establishment and local work never answer that
\* they did nothing, a poll only turns answers on, an open transport stays open
\* and a completed shutdown stays complete.
THEOREM TlsImplementsContract == Spec => KeepsTransportContract
<1>1. Spec => []TlsIInv
  BY TlsInit, TlsStep, PTL DEF Spec
<1> QED
  BY <1>1, ContractInit, ContractStep, PTL DEF Spec, KeepsTransportContract, Contract!Spec

=============================================================================
