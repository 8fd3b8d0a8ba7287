---------------------------- MODULE RustlsSession ----------------------------
(***************************************************************************)
(* A socket-free TLS session (bornera-rustls, client_session.rs and        *)
(* client_io.rs; server_session.rs and server_io.rs are the same code over *)
(* a rustls server): every method as the session it leaves.  A method that *)
(* rejects its call in the state it finds leaves the session as it is.     *)
(***************************************************************************)
EXTENDS RustlsEngine

CONSTANT IngressLimit  \* records one ingest_tls call takes at most

ASSUME IngressAssumption == IngressLimit \in Nat \ {0}

Closures == {"Open", "Clean", "Truncated"}
Diagnostics == {"None", "Protocol", "Capacity", "Truncated"}

NewSession(engine) ==
  [tls |-> engine, plaintextBytes |-> 0, egressBytes |-> Len(engine.sendable),
   peerClosure |-> "Open", opened |-> FALSE, closeNotifySent |-> FALSE, failure |-> "None"]

EnsureProgressing(s) == s.failure = "None"

Latch(s, diagnostic) == IF s.failure = "None" THEN [s EXCEPT !.failure = diagnostic] ELSE s

\* process_new_packets, validated; every caller latches what it reports.
Refresh(s) ==
  IF s.tls.failed THEN Latch(s, "Protocol")
  ELSE IF Len(s.tls.sendable) > MaxEgress \/ s.tls.plaintext > MaxPlaintext
  THEN Latch(s, "Capacity")
  ELSE [s EXCEPT !.plaintextBytes = s.tls.plaintext,
                 !.egressBytes = Len(s.tls.sendable),
                 !.peerClosure = IF s.tls.closed THEN "Clean" ELSE @,
                 !.opened = @ \/ (~IsHandshaking(s.tls) /\ ~WantsWrite(s.tls))]

\* The part of RustlsClientStatus an owner waits on.
Status(s) ==
  [open |-> s.opened /\ ~s.closeNotifySent /\ s.failure = "None",
   wantsRead |-> WantsRead(s.tls) /\ s.peerClosure = "Open" /\ s.failure = "None",
   wantsWrite |-> WantsWrite(s.tls),
   plaintext |-> s.plaintextBytes]

MayIngest(s) == EnsureProgressing(s) /\ s.peerClosure = "Open"

IngestTls(s, records) == Refresh([s EXCEPT !.tls = Process(@, records)])

\* What read_plaintext finds: plaintext, a clean end, a truncated end, or nothing.
PlaintextAnswer(s) ==
  IF s.peerClosure = "Truncated" /\ s.plaintextBytes = 0 THEN "UnexpectedEof"
  ELSE ReaderAnswer(s.tls)

ReadSession(s) ==
  CASE PlaintextAnswer(s) = "Bytes" ->
         [s EXCEPT !.tls = ReadPlaintext(@),
                   !.plaintextBytes = IF @ > 0 THEN @ - 1 ELSE 0]
    [] PlaintextAnswer(s) = "UnexpectedEof" ->
         Latch([s EXCEPT !.peerClosure = "Truncated"], "Truncated")
    [] OTHER -> s

MayWrite(s) == EnsureProgressing(s) /\ s.opened /\ ~s.closeNotifySent

WriteSession(s, count) == Refresh([s EXCEPT !.tls = Accept(@, count)])

\* Output can be drained after a failure too, then without asking rustls again.
DrainTls(s, count) ==
  LET drained == [s EXCEPT !.tls = WriteTls(@, count)]
  IN  IF s.failure = "None" THEN Refresh(drained)
      ELSE [drained EXCEPT !.egressBytes = IF @ > count THEN @ - count ELSE 0]

\* Slip: a failed session keeps its output.
MayDrainProgressing(s) == EnsureProgressing(s) /\ WantsWrite(s.tls)

MayDrain(s) == WantsWrite(s.tls)

\* Slip: truncation is reported although plaintext is left.
FinishInputAtOnce(s) ==
  IF s.peerClosure = "Clean" THEN s
  ELSE Latch([s EXCEPT !.tls = ReadEof(@), !.peerClosure = "Truncated"], "Truncated")

\* Raw end of input; truncation waits for the plaintext that is left.
FinishInput(s) ==
  LET seen == IF s.peerClosure = "Open"
              THEN Refresh([s EXCEPT !.tls = ReadEof(@)]) ELSE s
      ended == IF seen.failure = "None" /\ seen.peerClosure # "Clean"
               THEN [seen EXCEPT !.peerClosure = "Truncated"] ELSE seen
  IN  IF s.peerClosure = "Clean" THEN s
      ELSE IF ended.plaintextBytes = 0 THEN Latch(ended, "Truncated") ELSE ended

MayClose(s) == EnsureProgressing(s) /\ s.opened /\ ~s.closeNotifySent

CloseSession(s) ==
  Refresh([s EXCEPT !.tls = SendCloseNotify(@), !.closeNotifySent = TRUE])

SessionTypeOK(s) ==
  /\ EngineTypeOK(s.tls)
  /\ s.plaintextBytes \in 0..MaxPlaintext
  /\ s.egressBytes \in 0..MaxEgress
  /\ s.peerClosure \in Closures
  /\ {s.opened, s.closeNotifySent} \subseteq BOOLEAN
  /\ s.failure \in Diagnostics

=============================================================================
