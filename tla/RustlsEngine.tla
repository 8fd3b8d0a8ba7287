----------------------------- MODULE RustlsEngine -----------------------------
(***************************************************************************)
(* External: a rustls connection, as bornera-rustls drives it through      *)
(* read_tls, process_new_packets, write_tls, reader, writer and            *)
(* send_close_notify.  What travels is a sequence of records; a record     *)
(* stands for its kind and a handshake flight for all of its messages.     *)
(*                                                                         *)
(* "script" holds, for every flight still expected from the peer, the      *)
(* records that answer it: the handshake is over when it is empty.         *)
(***************************************************************************)
EXTENDS Integers, Sequences, SequencesExt

CONSTANTS
  MaxEgress,     \* RustlsTransportLimits::max_tls_egress_bytes
  MaxPlaintext,  \* RustlsTransportLimits::max_plaintext_bytes
  WriteBuffer,   \* RustlsTransportLimits::application_write_buffer_bytes
  WriteRecords   \* records one accepted application write may become

ASSUME EngineAssumption ==
  {MaxEgress, MaxPlaintext, WriteBuffer, WriteRecords} \subseteq Nat \ {0}

\* "Ticket" is any record without an effect, or a part of a record.
Records == {"Flight", "Data", "Ticket", "KeyUpdate", "CloseNotify", "Bad", "Alert"}

ClientScript(version) ==
  IF version = 13 THEN << <<"Flight">> >> ELSE << <<"Flight">>, <<>> >>
ServerScript(version) ==
  IF version = 13 THEN << <<"Flight">>, <<"Ticket">> >> ELSE << <<"Flight">>, <<"Flight">> >>

NewEngine(script, sendable) ==
  [script |-> script, sendable |-> sendable, plaintext |-> 0,
   closed |-> FALSE, eof |-> FALSE, sentClose |-> FALSE, failed |-> FALSE]

IsHandshaking(t) == t.script # <<>>
WantsWrite(t) == t.sendable # <<>>
WantsRead(t) ==
  t.plaintext = 0 /\ ~t.closed /\ (~IsHandshaking(t) \/ ~WantsWrite(t))

Queue(t, records) == [t EXCEPT !.sendable = @ \o records]

\* A close_notify ends the input only once the handshake is over: an alert that
\* is not authenticated is refused like any other record out of place, or, like a
\* "Ticket", has no effect.
ProcessRecord(t, record) ==
  IF t.closed \/ t.failed THEN t
  ELSE CASE record = "Ticket" -> t
         [] record = "CloseNotify" /\ ~IsHandshaking(t) -> [t EXCEPT !.closed = TRUE]
         [] record = "Flight" /\ IsHandshaking(t) ->
              Queue([t EXCEPT !.script = Tail(@)], Head(t.script))
         [] record = "Data" /\ ~IsHandshaking(t) -> [t EXCEPT !.plaintext = @ + 1]
         [] record = "KeyUpdate" /\ ~IsHandshaking(t) -> Queue(t, <<"KeyUpdate">>)
         [] record = "Alert" -> [t EXCEPT !.failed = TRUE]
         [] OTHER -> Queue([t EXCEPT !.failed = TRUE], <<"Alert">>)

\* read_tls of these records, then process_new_packets.
Process(t, records) ==
  LET after[n \in 0..Len(records)] ==
        IF n = 0 THEN t ELSE ProcessRecord(after[n - 1], records[n])
  IN  after[Len(records)]

ReadEof(t) == [t EXCEPT !.eof = TRUE]
WriteTls(t, count) == [t EXCEPT !.sendable = SubSeq(@, count + 1, Len(@))]

\* What reader().read answers.
ReaderAnswer(t) ==
  IF t.plaintext > 0 THEN "Bytes"
  ELSE IF t.closed THEN "Eof"
  ELSE IF t.eof THEN "UnexpectedEof" ELSE "WouldBlock"

ReadPlaintext(t) == [t EXCEPT !.plaintext = @ - 1]

\* How many records writer().write may add: what the buffer limit leaves.
WriterRoom(t) == IF Len(t.sendable) < WriteBuffer THEN WriteBuffer - Len(t.sendable) ELSE 0
Accept(t, count) == Queue(t, [i \in 1..count |-> "Data"])

SendCloseNotify(t) ==
  IF t.sentClose THEN t ELSE Queue([t EXCEPT !.sentClose = TRUE], <<"CloseNotify">>)

EngineTypeOK(t) ==
  /\ t.script \in Seq(Seq(Records))
  /\ t.sendable \in Seq(Records)
  /\ t.plaintext \in Nat
  /\ {t.closed, t.eof, t.sentClose, t.failed} \subseteq BOOLEAN

=============================================================================
