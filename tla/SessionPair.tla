----------------------------- MODULE SessionPair -----------------------------
(***************************************************************************)
(* A client session and a server session, each pumped by its owner, over   *)
(* two ordered byte streams that may be corrupted or cut short.  An owner  *)
(* reports the end of its input once the stream is cut and it has ingested *)
(* everything that came through.                                           *)
(***************************************************************************)
EXTENDS RustlsSession

CONSTANTS
  Versions,      \* protocol versions to negotiate: a subset of {12, 13}
  MaxWire,       \* records in transit one way
  ClientRecords, \* records the owner of the client writes at most
  ServerRecords, \* records the owner of the server writes at most
  WireFaults     \* what may happen to a stream: a subset of {"Cut", "Corrupt"}

ASSUME PairAssumption ==
  /\ Versions \subseteq {12, 13}
  /\ MaxWire \in Nat \ {0}
  /\ ClientRecords \in Nat
  /\ ServerRecords \in Nat
  /\ WireFaults \subseteq {"Cut", "Corrupt"}

VARIABLES
  client, server,      \* the sessions
  toServer, toClient,  \* the records in transit each way
  cut,                 \* the sides whose input was cut short
  clientLog, serverLog \* what each owner wrote, read and was told

vars == <<client, server, toServer, toClient, cut, clientLog, serverLog>>

\* What an owner knows: records accepted from it, records handed to it, and
\* whether it was told that the stream ended cleanly.
NewLog == [accepted |-> 0, read |-> 0, clean |-> FALSE]

NewClient(version) == NewSession(NewEngine(ClientScript(version), <<"Flight">>))
NewServer(version) == NewSession(NewEngine(ServerScript(version), <<>>))

AfterRead(s, log) ==
  CASE PlaintextAnswer(s) = "Bytes" -> [log EXCEPT !.read = @ + 1]
    [] PlaintextAnswer(s) = "Eof" -> [log EXCEPT !.clean = TRUE]
    [] OTHER -> log

\* What is drained into a stream after it was cut is lost.
Carried(side, wire, records) == IF side \in cut THEN wire ELSE wire \o records

First(wire, count) == SubSeq(wire, 1, count)
Rest(wire, count) == SubSeq(wire, count + 1, Len(wire))

(***************************************************************************)
(* The client's owner.                                                     *)
(***************************************************************************)
ClientOnly == UNCHANGED <<server, toServer, toClient, cut, serverLog>>

ClientIngest(count) ==
  /\ MayIngest(client) /\ count <= Len(toClient)
  /\ client' = IngestTls(client, First(toClient, count))
  /\ toClient' = Rest(toClient, count)
  /\ UNCHANGED <<server, toServer, cut, clientLog, serverLog>>

ClientRead ==
  /\ EnsureProgressing(client)
  /\ client' = ReadSession(client)
  /\ clientLog' = AfterRead(client, clientLog)
  /\ ClientOnly

ClientWrite(count) ==
  /\ MayWrite(client) /\ count <= WriterRoom(client.tls)
  /\ clientLog.accepted + count <= ClientRecords
  /\ client' = WriteSession(client, count)
  /\ clientLog' = [clientLog EXCEPT !.accepted = @ + count]
  /\ ClientOnly

ClientDrain(count) ==
  /\ MayDrain(client) /\ count <= Len(client.tls.sendable)
  /\ Len(toServer) + count <= MaxWire
  /\ toServer' = Carried("Server", toServer, First(client.tls.sendable, count))
  /\ client' = DrainTls(client, count)
  /\ UNCHANGED <<server, toClient, cut, clientLog, serverLog>>

ClientFinish ==
  /\ EnsureProgressing(client) /\ "Client" \in cut /\ toClient = <<>>
  /\ client' = FinishInput(client)
  /\ UNCHANGED clientLog
  /\ ClientOnly

ClientClose ==
  /\ MayClose(client)
  /\ client' = CloseSession(client)
  /\ UNCHANGED clientLog
  /\ ClientOnly

(***************************************************************************)
(* The server's owner.                                                     *)
(***************************************************************************)
ServerOnly == UNCHANGED <<client, toServer, toClient, cut, clientLog>>

ServerIngest(count) ==
  /\ MayIngest(server) /\ count <= Len(toServer)
  /\ server' = IngestTls(server, First(toServer, count))
  /\ toServer' = Rest(toServer, count)
  /\ UNCHANGED <<client, toClient, cut, clientLog, serverLog>>

ServerRead ==
  /\ EnsureProgressing(server)
  /\ server' = ReadSession(server)
  /\ serverLog' = AfterRead(server, serverLog)
  /\ ServerOnly

ServerWrite(count) ==
  /\ MayWrite(server) /\ count <= WriterRoom(server.tls)
  /\ serverLog.accepted + count <= ServerRecords
  /\ server' = WriteSession(server, count)
  /\ serverLog' = [serverLog EXCEPT !.accepted = @ + count]
  /\ ServerOnly

ServerDrain(count) ==
  /\ MayDrain(server) /\ count <= Len(server.tls.sendable)
  /\ Len(toClient) + count <= MaxWire
  /\ toClient' = Carried("Client", toClient, First(server.tls.sendable, count))
  /\ server' = DrainTls(server, count)
  /\ UNCHANGED <<client, toServer, cut, clientLog, serverLog>>

ServerFinish ==
  /\ EnsureProgressing(server) /\ "Server" \in cut /\ toServer = <<>>
  /\ server' = FinishInput(server)
  /\ UNCHANGED serverLog
  /\ ServerOnly

ServerClose ==
  /\ MayClose(server)
  /\ server' = CloseSession(server)
  /\ UNCHANGED serverLog
  /\ ServerOnly

(***************************************************************************)
(* The streams.                                                            *)
(***************************************************************************)
Cut(side) ==
  /\ "Cut" \in WireFaults
  /\ side \notin cut
  /\ cut' = cut \cup {side}
  /\ UNCHANGED <<client, server, toServer, toClient, clientLog, serverLog>>

\* The last record in transit of a stream that was cut is lost.
Lose ==
  /\ \/ /\ "Server" \in cut /\ toServer # <<>>
        /\ toServer' = Front(toServer) /\ UNCHANGED toClient
     \/ /\ "Client" \in cut /\ toClient # <<>>
        /\ toClient' = Front(toClient) /\ UNCHANGED toServer
  /\ UNCHANGED <<client, server, cut, clientLog, serverLog>>

\* The owner of a session that takes no more input drops it.
Discard ==
  /\ \/ ~MayIngest(server) /\ toServer # <<>> /\ toServer' = <<>> /\ UNCHANGED toClient
     \/ ~MayIngest(client) /\ toClient # <<>> /\ toClient' = <<>> /\ UNCHANGED toServer
  /\ UNCHANGED <<client, server, cut, clientLog, serverLog>>

Corrupt ==
  /\ "Corrupt" \in WireFaults
  /\ \/ \E i \in DOMAIN toServer :
          toServer[i] # "Bad" /\ toServer' = [toServer EXCEPT ![i] = "Bad"]
          /\ UNCHANGED toClient
     \/ \E i \in DOMAIN toClient :
          toClient[i] # "Bad" /\ toClient' = [toClient EXCEPT ![i] = "Bad"]
          /\ UNCHANGED toServer
  /\ UNCHANGED <<client, server, cut, clientLog, serverLog>>

Init ==
  /\ \E version \in Versions : client = NewClient(version) /\ server = NewServer(version)
  /\ toServer = <<>>
  /\ toClient = <<>>
  /\ cut = {}
  /\ clientLog = NewLog
  /\ serverLog = NewLog

Next ==
  \/ \E count \in 1..IngressLimit : ClientIngest(count) \/ ServerIngest(count)
  \/ \E count \in 1..MaxWire : ClientDrain(count) \/ ServerDrain(count)
  \/ \E count \in 1..WriteRecords : ClientWrite(count) \/ ServerWrite(count)
  \/ ClientRead \/ ServerRead
  \/ ClientFinish \/ ServerFinish
  \/ ClientClose \/ ServerClose
  \/ \E side \in {"Client", "Server"} : Cut(side)
  \/ Lose
  \/ Discard
  \/ Corrupt

Spec == Init /\ [][Next]_vars

=============================================================================
