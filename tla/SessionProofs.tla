---------------------------- MODULE SessionProofs ----------------------------
(***************************************************************************)
(* Two sessions that talk to each other hand over exactly what was         *)
(* accepted, tell a clean end from a truncated one, open only when their   *)
(* handshake has left and keep their counters exact, for every limit and   *)
(* every length of the streams, and for every cut, loss and corruption.    *)
(***************************************************************************)
EXTENDS SessionProperties, EngineProofs

(***************************************************************************)
(* Counting the application records at the front of a stream.              *)
(***************************************************************************)

\* The application records among the first n.
DataTo(q, n) == Cardinality({i \in 1..n : q[i] = "Data"})

\* None of the first n records is corrupted.
WholeTo(q, n) == \A i \in 1..n : q[i] # "Bad"

LEMMA DataToType ==
  ASSUME NEW q, NEW n \in Nat
  PROVE  /\ IsFiniteSet({i \in 1..n : q[i] = "Data"})
         /\ DataTo(q, n) \in Nat
<1> DEFINE S == {i \in 1..n : q[i] = "Data"}
<1>1. IsFiniteSet(1..n)
  BY FS_Interval
<1>2. S \in SUBSET (1..n)
  OBVIOUS
<1>3. IsFiniteSet(S)
  <2> HIDE DEF S
  <2> QED BY <1>1, <1>2, FS_Subset
<1>4. Cardinality(S) \in Nat
  <2> HIDE DEF S
  <2> QED BY <1>3, FS_CardinalityType
<1> QED
  BY <1>3, <1>4 DEF DataTo

\* Streams that agree on the first n records agree on their number of data.
LEMMA DataToSame ==
  ASSUME NEW q, NEW p, NEW n \in Nat, \A i \in 1..n : q[i] = p[i]
  PROVE  DataTo(q, n) = DataTo(p, n)
<1>1. {i \in 1..n : q[i] = "Data"} = {i \in 1..n : p[i] = "Data"}
  OBVIOUS
<1> QED
  BY <1>1 DEF DataTo

LEMMA DataToNone ==
  ASSUME NEW q, NEW n \in Nat, \A i \in 1..n : q[i] # "Data"
  PROVE  DataTo(q, n) = 0
<1>1. {i \in 1..n : q[i] = "Data"} = {}
  OBVIOUS
<1> QED
  BY <1>1, FS_EmptySet DEF DataTo

LEMMA DataToAll ==
  ASSUME NEW q, NEW n \in Nat, \A i \in 1..n : q[i] = "Data"
  PROVE  DataTo(q, n) = n
<1>1. {i \in 1..n : q[i] = "Data"} = 1..n
  OBVIOUS
<1>2. Cardinality(1..n) = n
  BY FS_Interval
<1> QED
  BY <1>1, <1>2 DEF DataTo

\* A stream some of whose records were corrupted has no more data.
LEMMA DataToFewer ==
  ASSUME NEW q, NEW p, NEW n \in Nat, \A i \in 1..n : q[i] = "Data" => p[i] = "Data"
  PROVE  DataTo(q, n) <= DataTo(p, n)
<1> DEFINE S == {i \in 1..n : q[i] = "Data"}
           T == {i \in 1..n : p[i] = "Data"}
<1>1. S \in SUBSET T
  OBVIOUS
<1>2. IsFiniteSet(T)
  BY DataToType
<1>3. Cardinality(S) <= Cardinality(T)
  <2> HIDE DEF S, T
  <2> QED BY <1>1, <1>2, FS_Subset
<1> QED
  BY <1>3 DEF DataTo

LEMMA DataToNext ==
  ASSUME NEW q, NEW n \in Nat
  PROVE  DataTo(q, n + 1) = IF q[n + 1] = "Data" THEN DataTo(q, n) + 1 ELSE DataTo(q, n)
<1> DEFINE S == {i \in 1..n : q[i] = "Data"}
           T == {i \in 1..(n + 1) : q[i] = "Data"}
<1>1. IsFiniteSet(S)
  BY DataToType
<1>2. CASE q[n + 1] = "Data"
  <2>1. T = S \cup {n + 1} /\ n + 1 \notin S
    BY <1>2
  <2>2. Cardinality(T) = Cardinality(S) + 1
    <3> HIDE DEF S, T
    <3> QED BY <1>1, <2>1, FS_AddElement
  <2> QED
    BY <1>2, <2>2 DEF DataTo
<1>3. CASE q[n + 1] # "Data"
  <2>1. T = S
    BY <1>3
  <2> QED
    BY <1>3, <2>1 DEF DataTo
<1> QED
  BY <1>2, <1>3

\* The first n records of p are those of q behind its first m.
Adjoins(q, m, p, n) == \A i \in 1..n : p[i] = q[m + i]

\* The data of two adjoining parts of a stream add up.
LEMMA DataToSum ==
  ASSUME NEW q, NEW p, NEW m \in Nat, NEW n \in Nat, Adjoins(q, m, p, n)
  PROVE  DataTo(q, m + n) = DataTo(q, m) + DataTo(p, n)
<1> DEFINE G == {i \in 0..n : DataTo(q, m + i) = DataTo(q, m) + DataTo(p, i)}
<1>1. 0 \in G
  <2>1. DataTo(p, 0) = 0
    BY DataToNone
  <2>2. DataTo(q, m) \in Nat
    BY DataToType
  <2>3. m + 0 = m /\ 0 \in 0..n
    OBVIOUS
  <2> QED
    BY <2>1, <2>2, <2>3
<1>2. ASSUME NEW i \in 0..(n - 1), i \in G
      PROVE  i + 1 \in G
  <2>1. i \in Nat /\ i + 1 \in 1..n /\ i + 1 \in 0..n /\ m + i \in Nat
    OBVIOUS
  <2>2. p[i + 1] = q[m + (i + 1)] /\ m + (i + 1) = (m + i) + 1
    BY <2>1 DEF Adjoins
  <2>3. DataTo(q, m + i) = DataTo(q, m) + DataTo(p, i)
    BY <1>2
  <2>4. DataTo(p, i + 1) = IF p[i + 1] = "Data" THEN DataTo(p, i) + 1 ELSE DataTo(p, i)
    BY <2>1, DataToNext
  <2>5. DataTo(q, (m + i) + 1)
          = IF q[(m + i) + 1] = "Data" THEN DataTo(q, m + i) + 1 ELSE DataTo(q, m + i)
    BY <2>1, DataToNext
  <2>6. DataTo(q, m) \in Nat /\ DataTo(p, i) \in Nat
    BY <2>1, DataToType
  <2>7. DataTo(q, m + (i + 1)) = DataTo(q, m) + DataTo(p, i + 1)
    BY <2>2, <2>3, <2>4, <2>5, <2>6
  <2> QED
    BY <2>1, <2>7
<1>3. 0..n \subseteq G
  <2> HIDE DEF G
  <2> QED BY <1>1, <1>2, BoundedInduction
<1> QED
  BY <1>3

(***************************************************************************)
(* What rustls does with the records of one call.                          *)
(***************************************************************************)

\* The records a session sends by itself: none of them is data, an end of the
\* stream or corrupted.
Quiet == {"Flight", "Ticket", "KeyUpdate", "Alert"}

QuietScripts == Seq(Seq({"Flight", "Ticket"}))

\* b is a followed by records that a session sends by itself.
Grows(a, b) ==
  /\ Len(a) <= Len(b)
  /\ \A i \in 1..Len(a) : b[i] = a[i]
  /\ \A i \in (Len(a) + 1)..Len(b) : b[i] \in Quiet

\* b is a followed by records other than handshake flights.
NoFlights(a, b) == \A i \in (Len(a) + 1)..Len(b) : b[i] # "Flight"

LEMMA GrowsSelf ==
  ASSUME NEW a \in Seq(Records)
  PROVE  Grows(a, a) /\ NoFlights(a, a)
  BY DEF Grows, NoFlights

LEMMA GrowsBy ==
  ASSUME NEW a \in Seq(Records), NEW x \in Seq(Records), NEW b, b = a \o x
  PROVE  /\ Len(b) = Len(a) + Len(x) /\ b \in Seq(Records)
         /\ \A i \in 1..Len(a) : b[i] = a[i]
         /\ \A i \in (Len(a) + 1)..Len(b) : b[i] = x[i - Len(a)] /\ i - Len(a) \in 1..Len(x)
         /\ (\A i \in 1..Len(x) : x[i] \in Quiet) => Grows(a, b)
         /\ (\A i \in 1..Len(x) : x[i] # "Flight") => NoFlights(a, b)
<1>1. Len(b) = Len(a) + Len(x) /\ b \in Seq(Records) /\ Len(a) \in Nat /\ Len(x) \in Nat
  OBVIOUS
<1>2. \A i \in 1..Len(a) : b[i] = a[i]
  OBVIOUS
<1>3. \A i \in (Len(a) + 1)..Len(b) : b[i] = x[i - Len(a)] /\ i - Len(a) \in 1..Len(x)
  BY <1>1
<1> QED
  BY <1>1, <1>2, <1>3 DEF Grows, NoFlights

LEMMA GrowsOn ==
  ASSUME NEW a \in Seq(Records), NEW b \in Seq(Records), NEW c \in Seq(Records),
         Grows(a, b), Grows(b, c)
  PROVE  /\ Grows(a, c)
         /\ NoFlights(a, b) /\ NoFlights(b, c) => NoFlights(a, c)
<1>1. Len(a) \in Nat /\ Len(b) \in Nat /\ Len(c) \in Nat
  OBVIOUS
<1>2. Len(a) <= Len(b) /\ Len(b) <= Len(c)
  BY DEF Grows
<1>3. \A i \in 1..Len(a) : i \in 1..Len(b) /\ c[i] = a[i]
  BY <1>1, <1>2 DEF Grows
<1>4. \A i \in (Len(a) + 1)..Len(c) :
        \/ i \in (Len(a) + 1)..Len(b) /\ i \in 1..Len(b) /\ c[i] = b[i]
        \/ i \in (Len(b) + 1)..Len(c)
  BY <1>1, <1>2 DEF Grows
<1>5. \A i \in (Len(a) + 1)..Len(c) : c[i] \in Quiet
  BY <1>4 DEF Grows
<1>6. NoFlights(a, b) /\ NoFlights(b, c) => NoFlights(a, c)
  BY <1>4 DEF NoFlights
<1> QED
  BY <1>1, <1>2, <1>3, <1>5, <1>6 DEF Grows

\* A connection t is u after it was given the first n records: whatever was not
\* ignored was counted, and it closed only at an end of the stream before which
\* everything was whole.
Took(t, u, q, n) ==
  /\ u.script \in QuietScripts
  /\ Grows(t.sendable, u.sendable)
  /\ t.script = <<>> => u.script = <<>> /\ NoFlights(t.sendable, u.sendable)
  /\ u.plaintext <= t.plaintext + DataTo(q, n)
  /\ ~u.closed /\ ~u.failed => WholeTo(q, n) /\ u.plaintext = t.plaintext + DataTo(q, n)
  /\ u.closed => \E c \in 1..n : /\ q[c] = "CloseNotify" /\ WholeTo(q, c - 1)
                                 /\ u.plaintext = t.plaintext + DataTo(q, c - 1)

LEMMA TookRecord ==
  ASSUME NEW t \in Engines, NEW u \in Engines, NEW q, NEW n \in Nat, Took(t, u, q, n),
         q[n + 1] \in Records
  PROVE  /\ ProcessRecord(u, q[n + 1]) \in Engines
         /\ Took(t, ProcessRecord(u, q[n + 1]), q, n + 1)
<1> DEFINE r == q[n + 1]
           v == ProcessRecord(u, r)
           d == DataTo(q, n)
           e == DataTo(q, n + 1)
<1>1. /\ v \in Engines /\ v.eof = u.eof /\ v.sentClose = u.sentClose
      /\ Ignores(u, r, v) \/ Acts(u, r, v) \/ Rejects(u, r, v)
  BY RecordEffect
<1>2. d \in Nat /\ e = IF r = "Data" THEN d + 1 ELSE d
  BY DataToType, DataToNext
<1>3. /\ t.plaintext \in Nat /\ u.plaintext \in Nat /\ t.sendable \in Seq(Records)
      /\ u.sendable \in Seq(Records) /\ v.sendable \in Seq(Records)
      /\ u.closed \in BOOLEAN /\ u.failed \in BOOLEAN /\ v.closed \in BOOLEAN /\ v.failed \in BOOLEAN
  BY <1>1 DEF Engines
<1>4. WholeTo(q, n) /\ r # "Bad" => WholeTo(q, n + 1)
  <2>1. \A i \in 1..(n + 1) : i \in 1..n \/ i = n + 1
    OBVIOUS
  <2> QED
    BY <2>1 DEF WholeTo
<1>5. /\ u.script \in QuietScripts /\ Grows(t.sendable, u.sendable)
      /\ t.script = <<>> => u.script = <<>> /\ NoFlights(t.sendable, u.sendable)
      /\ u.plaintext <= t.plaintext + d
      /\ ~u.closed /\ ~u.failed => WholeTo(q, n) /\ u.plaintext = t.plaintext + d
  BY DEF Took
<1>6. u.closed => \E c \in 1..(n + 1) : /\ q[c] = "CloseNotify" /\ WholeTo(q, c - 1)
                                        /\ u.plaintext = t.plaintext + DataTo(q, c - 1)
  <2>1. \A c \in 1..n : c \in 1..(n + 1)
    OBVIOUS
  <2> QED
    BY <2>1 DEF Took
<1> HIDE DEF d, e, v
<1>7. /\ v.script \in QuietScripts /\ Grows(t.sendable, v.sendable)
      /\ t.script = <<>> => v.script = <<>> /\ NoFlights(t.sendable, v.sendable)
  <2>1. SUFFICES /\ v.script \in QuietScripts /\ Grows(u.sendable, v.sendable)
                 /\ u.script = <<>> => v.script = <<>> /\ NoFlights(u.sendable, v.sendable)
    BY <1>3, <1>5, GrowsOn
  <2>2. CASE v.script = u.script /\ v.sendable = u.sendable
    BY <1>3, <1>5, <2>2, GrowsSelf
  <2>3. CASE \E x \in {"Alert", "KeyUpdate"} :
               v.script = u.script /\ v.sendable = u.sendable \o <<x>>
    <3>1. PICK x \in {"Alert", "KeyUpdate"} :
            v.script = u.script /\ v.sendable = u.sendable \o <<x>>
      BY <2>3
    <3>2. /\ <<x>> \in Seq(Records) /\ Len(<<x>>) = 1
          /\ \A i \in 1..Len(<<x>>) : <<x>>[i] \in Quiet /\ <<x>>[i] # "Flight"
      BY DEF Records, Quiet
    <3> QED
      BY <1>3, <1>5, <3>1, <3>2, GrowsBy
  <2>4. CASE /\ r = "Flight" /\ IsHandshaking(u)
             /\ v.script = Tail(u.script) /\ v.sendable = u.sendable \o Head(u.script)
    <3> DEFINE x == Head(u.script)
    <3>1. u.script # <<>>
      BY <2>4 DEF IsHandshaking
    <3>2. Tail(u.script) \in QuietScripts /\ x \in Seq({"Flight", "Ticket"})
      BY <1>5, <3>1 DEF QuietScripts
    <3>3. v.sendable = u.sendable \o x
      BY <2>4
    <3> HIDE DEF x
    <3>4. /\ \A i \in 1..Len(x) : x[i] \in {"Flight", "Ticket"}
      BY <3>2
    <3>5. \A i \in 1..Len(x) : x[i] \in Quiet /\ x[i] \in Records
      BY <3>4 DEF Quiet, Records
    <3>6. x \in Seq(Records)
      BY <3>2, <3>5
    <3> QED
      BY <1>3, <2>4, <3>1, <3>2, <3>3, <3>5, <3>6, GrowsBy
  <2> QED
    BY <1>1, <2>2, <2>3, <2>4 DEF Ignores, Acts, Rejects
<1>8. v.plaintext <= t.plaintext + e
  <2>1. v.plaintext = u.plaintext \/ (r = "Data" /\ v.plaintext = u.plaintext + 1)
    BY <1>1 DEF Ignores, Acts, Rejects
  <2>2. e = d \/ e = d + 1
    BY <1>2
  <2>3. r = "Data" => e = d + 1
    BY <1>2
  <2> HIDE DEF r
  <2> QED
    BY <1>2, <1>3, <1>5, <2>1, <2>2, <2>3
<1>9. ~v.closed /\ ~v.failed => WholeTo(q, n + 1) /\ v.plaintext = t.plaintext + e
  <2>1. SUFFICES ASSUME ~v.closed, ~v.failed
                 PROVE  WholeTo(q, n + 1) /\ v.plaintext = t.plaintext + e
    OBVIOUS
  <2>2. ~u.closed /\ ~u.failed /\ r # "Bad"
    BY <1>1, <2>1 DEF Ignores, Acts, Rejects
  <2>3. v.plaintext = IF r = "Data" THEN u.plaintext + 1 ELSE u.plaintext
    BY <1>1, <2>1, <2>2 DEF Ignores, Acts, Rejects
  <2> QED
    BY <1>2, <1>3, <1>4, <1>5, <2>2, <2>3
<1>10. v.closed => \E c \in 1..(n + 1) : /\ q[c] = "CloseNotify" /\ WholeTo(q, c - 1)
                                         /\ v.plaintext = t.plaintext + DataTo(q, c - 1)
  <2>1. SUFFICES ASSUME v.closed
                 PROVE  \E c \in 1..(n + 1) : /\ q[c] = "CloseNotify" /\ WholeTo(q, c - 1)
                                              /\ v.plaintext = t.plaintext + DataTo(q, c - 1)
    OBVIOUS
  <2>2. CASE v = u
    BY <1>6, <2>1, <2>2
  <2>3. CASE v # u
    <3>1. /\ ~u.closed /\ ~u.failed /\ r = "CloseNotify" /\ v.plaintext = u.plaintext
      BY <1>1, <2>1, <2>3 DEF Ignores, Acts, Rejects
    <3>2. (n + 1) - 1 = n /\ n + 1 \in 1..(n + 1)
      OBVIOUS
    <3>3. WholeTo(q, n) /\ v.plaintext = t.plaintext + DataTo(q, n)
      BY <1>5, <3>1 DEF d
    <3> QED
      BY <3>1, <3>2, <3>3
  <2> QED
    BY <2>2, <2>3
<1>11. Took(t, v, q, n + 1)
  BY <1>7, <1>8, <1>9, <1>10 DEF Took, e
<1> QED
  BY <1>1, <1>11 DEF v

\* What process_new_packets makes of the records it was given.
LEMMA ProcessTakes ==
  ASSUME NEW t \in Engines, NEW q \in Seq(Records), t.script \in QuietScripts, ~t.closed, ~t.failed
  PROVE  /\ Process(t, q) \in Engines
         /\ Took(t, Process(t, q), q, Len(q))
<1> DEFINE n == Len(q)
<1>1. PICK after \in [0..n -> Engines] :
        /\ after[0] = t
        /\ \A i \in 1..n : after[i] = ProcessRecord(after[i - 1], q[i])
        /\ after[n] = Process(t, q)
  BY ProcessIterates
<1>2. n \in Nat /\ \A i \in 1..n : q[i] \in Records
  OBVIOUS
<1> HIDE DEF n
<1> DEFINE G == {i \in 0..n : Took(t, after[i], q, i)}
<1>3. 0 \in G
  <2>1. DataTo(q, 0) = 0 /\ WholeTo(q, 0)
    <3>1. \A i \in 1..0 : FALSE
      OBVIOUS
    <3> QED
      BY <3>1, DataToNone DEF WholeTo
  <2>2. t.sendable \in Seq(Records) /\ t.plaintext \in Nat
    BY DEF Engines
  <2>3. Took(t, t, q, 0)
    BY <2>1, <2>2, GrowsSelf DEF Took
  <2> QED
    BY <1>1, <1>2, <2>3
<1>4. ASSUME NEW i \in 0..(n - 1), i \in G PROVE i + 1 \in G
  <2>1. i \in Nat /\ i \in 0..n /\ i + 1 \in 0..n /\ i + 1 \in 1..n /\ (i + 1) - 1 = i
    BY <1>2
  <2>2. after[i] \in Engines /\ Took(t, after[i], q, i)
    BY <1>1, <1>4, <2>1
  <2>3. after[i + 1] = ProcessRecord(after[i], q[i + 1])
    BY <1>1, <2>1
  <2>4. Took(t, after[i + 1], q, i + 1)
    BY <1>2, <2>1, <2>2, <2>3, TookRecord
  <2> QED
    BY <2>1, <2>4
<1>5. 0..n \subseteq G
  <2> HIDE DEF G
  <2> QED BY <1>2, <1>3, <1>4, BoundedInduction
<1>6. n \in 0..n
  BY <1>2
<1>7. Took(t, after[n], q, n) /\ after[n] \in Engines
  BY <1>1, <1>5, <1>6
<1> QED
  BY <1>1, <1>7 DEF n

(***************************************************************************)
(* One session.                                                            *)
(***************************************************************************)
SessionRecords ==
  [tls : Engines, plaintextBytes : 0..MaxPlaintext, egressBytes : 0..MaxEgress,
   peerClosure : Closures, opened : BOOLEAN, closeNotifySent : BOOLEAN, failure : Diagnostics]

\* What holds of a session whatever its peer does.
SessionSound(s) ==
  /\ s \in SessionRecords
  /\ s.tls.script \in QuietScripts
  /\ s.failure = "Truncated" => s.tls.plaintext = 0 /\ ~s.tls.closed
  /\ s.opened => s.tls.script = <<>> /\ \A i \in DOMAIN s.tls.sendable : s.tls.sendable[i] # "Flight"
  /\ s.failure = "None" =>
       /\ s.egressBytes = Len(s.tls.sendable)
       /\ s.plaintextBytes = s.tls.plaintext
       /\ s.peerClosure = "Clean" <=> s.tls.closed
       /\ ~s.tls.failed

LEMMA SessionFields ==
  ASSUME NEW s, SessionSound(s)
  PROVE  /\ s.tls \in Engines /\ s.tls.sendable \in Seq(Records) /\ s.tls.plaintext \in Nat
         /\ s.tls.script \in QuietScripts /\ s.tls.closed \in BOOLEAN /\ s.tls.failed \in BOOLEAN
         /\ s.closeNotifySent \in BOOLEAN /\ s.failure \in Diagnostics /\ s.peerClosure \in Closures
         /\ MayIngest(s) => ~s.tls.closed /\ ~s.tls.failed
<1>1. s \in SessionRecords /\ s.tls.script \in QuietScripts
  BY DEF SessionSound
<1>2. /\ s.tls \in Engines /\ s.closeNotifySent \in BOOLEAN /\ s.failure \in Diagnostics
      /\ s.peerClosure \in Closures
  BY <1>1 DEF SessionRecords
<1>3. /\ s.tls.sendable \in Seq(Records) /\ s.tls.plaintext \in Nat
      /\ s.tls.closed \in BOOLEAN /\ s.tls.failed \in BOOLEAN
  BY <1>2 DEF Engines
<1>4. MayIngest(s) => ~s.tls.closed /\ ~s.tls.failed
  BY DEF SessionSound, MayIngest, EnsureProgressing
<1> QED
  BY <1>1, <1>2, <1>3, <1>4

\* The latch changes the failure of a session alone.
LEMMA LatchEffect ==
  ASSUME NEW s \in SessionRecords, NEW d \in Diagnostics, s.failure = "None"
  PROVE  /\ Latch(s, d) \in SessionRecords /\ Latch(s, d).tls = s.tls
         /\ Latch(s, d).plaintextBytes = s.plaintextBytes
         /\ Latch(s, d).egressBytes = s.egressBytes /\ Latch(s, d).peerClosure = s.peerClosure
         /\ Latch(s, d).opened = s.opened /\ Latch(s, d).closeNotifySent = s.closeNotifySent
         /\ Latch(s, d).failure = d
  BY DEF Latch, SessionRecords

LEMMA RefreshEffect ==
  ASSUME NEW s \in SessionRecords, s.failure = "None"
  PROVE  LET u == Refresh(s)
         IN  /\ u \in SessionRecords /\ u.tls = s.tls /\ u.closeNotifySent = s.closeNotifySent
             /\ u.failure \in {"None", "Protocol", "Capacity"}
             /\ u.opened => s.opened \/ (s.tls.script = <<>> /\ s.tls.sendable = <<>>)
             /\ u.failure # "None" => u.peerClosure = s.peerClosure
             /\ u.failure = "None" =>
                  /\ u.egressBytes = Len(s.tls.sendable) /\ u.plaintextBytes = s.tls.plaintext
                  /\ u.peerClosure = IF s.tls.closed THEN "Clean" ELSE s.peerClosure
                  /\ ~s.tls.failed
<1> DEFINE u == Refresh(s)
<1>1. {"Protocol", "Capacity"} \subseteq Diagnostics
  BY DEF Diagnostics
<1>2. CASE s.tls.failed
  <2>1. u = Latch(s, "Protocol")
    BY <1>2 DEF Refresh
  <2> QED
    BY <1>1, <2>1, LatchEffect
<1>3. CASE ~s.tls.failed /\ (Len(s.tls.sendable) > MaxEgress \/ s.tls.plaintext > MaxPlaintext)
  <2>1. u = Latch(s, "Capacity")
    BY <1>3 DEF Refresh
  <2> QED
    BY <1>1, <2>1, LatchEffect
<1>4. CASE ~s.tls.failed /\ ~(Len(s.tls.sendable) > MaxEgress \/ s.tls.plaintext > MaxPlaintext)
  <2> DEFINE p == s.tls.plaintext
             l == Len(s.tls.sendable)
             c == IF s.tls.closed THEN "Clean" ELSE s.peerClosure
             o == s.opened \/ (~IsHandshaking(s.tls) /\ ~WantsWrite(s.tls))
  <2>1. u = [s EXCEPT !.plaintextBytes = p, !.egressBytes = l, !.peerClosure = c, !.opened = o]
    BY <1>4 DEF Refresh, SessionRecords
  <2>2. s.tls \in Engines /\ s.peerClosure \in Closures /\ s.opened \in BOOLEAN
    BY DEF SessionRecords
  <2>3. p \in Nat /\ l \in Nat
    BY <2>2 DEF Engines
  <2>4. p \in 0..MaxPlaintext /\ l \in 0..MaxEgress
    BY <1>4, <2>3, EngineAssumption
  <2>5. c \in Closures
    BY <2>2 DEF Closures
  <2>6. o \in BOOLEAN /\ (o => s.opened \/ (s.tls.script = <<>> /\ s.tls.sendable = <<>>))
    BY <2>2 DEF IsHandshaking, WantsWrite
  <2> HIDE DEF p, l, c, o, u
  <2>7. /\ u \in SessionRecords /\ u.tls = s.tls /\ u.closeNotifySent = s.closeNotifySent
        /\ u.failure = "None" /\ u.opened = o /\ u.egressBytes = l /\ u.plaintextBytes = p
        /\ u.peerClosure = c
    BY <2>1, <2>4, <2>5, <2>6 DEF SessionRecords
  <2> QED
    BY <1>4, <2>6, <2>7 DEF p, l, c, u
<1> QED
  BY <1>2, <1>3, <1>4

\* The session with another rustls connection and another mark of its end.
WithTls(s, t, b) == [s EXCEPT !.tls = t, !.closeNotifySent = b]

\* A method that changes the rustls connection and then asks it again.
LEMMA Refreshed ==
  ASSUME NEW s, SessionSound(s), s.failure = "None", NEW t \in Engines, NEW b \in BOOLEAN,
         NEW w, w = WithTls(s, t, b),
         t.script \in QuietScripts, s.tls.closed => t.closed,
         s.tls.script = <<>> => t.script = <<>> /\ NoFlights(s.tls.sendable, t.sendable),
         \A i \in 1..Len(t.sendable) : i <= Len(s.tls.sendable) =>
           \E j \in 1..Len(s.tls.sendable) : t.sendable[i] = s.tls.sendable[j]
  PROVE  /\ SessionSound(Refresh(w)) /\ Refresh(w).tls = t /\ Refresh(w).closeNotifySent = b
         /\ MayIngest(Refresh(w)) => MayIngest(s) /\ ~t.closed /\ ~t.failed
         /\ Refresh(w).failure # "Truncated"
<1> DEFINE u == Refresh(w)
<1>1. s \in SessionRecords /\ s.tls \in Engines
  BY SessionFields DEF SessionSound
<1>2. /\ w \in SessionRecords /\ w.failure = "None" /\ w.tls = t /\ w.closeNotifySent = b
      /\ w.opened = s.opened /\ w.peerClosure = s.peerClosure
  BY <1>1 DEF SessionRecords, WithTls
<1>3. /\ u \in SessionRecords /\ u.tls = t /\ u.closeNotifySent = b
      /\ u.failure \in {"None", "Protocol", "Capacity"}
      /\ u.opened => s.opened \/ (t.script = <<>> /\ t.sendable = <<>>)
      /\ u.failure # "None" => u.peerClosure = s.peerClosure
      /\ u.failure = "None" =>
           /\ u.egressBytes = Len(t.sendable) /\ u.plaintextBytes = t.plaintext
           /\ u.peerClosure = IF t.closed THEN "Clean" ELSE s.peerClosure
           /\ ~t.failed
  BY <1>2, RefreshEffect
<1> HIDE DEF u
<1>4. u.opened => t.script = <<>> /\ \A i \in DOMAIN t.sendable : t.sendable[i] # "Flight"
  <2>1. CASE t.script = <<>> /\ t.sendable = <<>>
    BY <2>1
  <2>2. CASE s.opened
    <3>1. /\ s.tls.script = <<>>
          /\ \A j \in DOMAIN s.tls.sendable : s.tls.sendable[j] # "Flight"
      BY <2>2 DEF SessionSound
    <3>2. t.script = <<>> /\ NoFlights(s.tls.sendable, t.sendable)
      BY <3>1
    <3>3. ASSUME NEW i \in DOMAIN t.sendable PROVE t.sendable[i] # "Flight"
      <4>1. /\ t.sendable \in Seq(Records) /\ s.tls.sendable \in Seq(Records)
        BY <1>1 DEF Engines
      <4>2. /\ i \in 1..Len(t.sendable) /\ Len(s.tls.sendable) \in Nat /\ Len(t.sendable) \in Nat
            /\ DOMAIN s.tls.sendable = 1..Len(s.tls.sendable)
        BY <4>1
      <4>3. CASE i <= Len(s.tls.sendable)
        <5>1. PICK j \in 1..Len(s.tls.sendable) : t.sendable[i] = s.tls.sendable[j]
          BY <4>2, <4>3
        <5> QED
          BY <3>1, <4>2, <5>1
      <4>4. CASE i > Len(s.tls.sendable)
        <5>1. i \in (Len(s.tls.sendable) + 1)..Len(t.sendable)
          BY <4>2, <4>4
        <5> QED
          BY <3>2, <5>1 DEF NoFlights
      <4> QED
        BY <4>2, <4>3, <4>4
    <3> QED
      BY <3>2, <3>3
  <2> QED
    BY <1>3, <2>1, <2>2
<1>5. u.failure = "None" => (u.peerClosure = "Clean" <=> t.closed)
  BY <1>3 DEF SessionSound
<1>6. u.failure # "Truncated"
  BY <1>3
<1>7. SessionSound(u)
  BY <1>3, <1>4, <1>5, <1>6 DEF SessionSound
<1>8. MayIngest(u) => MayIngest(s) /\ ~t.closed /\ ~t.failed
  BY <1>3 DEF MayIngest, EnsureProgressing
<1> QED
  BY <1>3, <1>6, <1>7, <1>8 DEF u

(***************************************************************************)
(* The methods of a session: each keeps it sound, and says what the        *)
(* streams see of it.                                                      *)
(***************************************************************************)

\* As a receiver the session is what it was, or it takes no more.
Hears(s, u) ==
  /\ u.tls.plaintext = s.tls.plaintext /\ u.tls.closed = s.tls.closed
  /\ u.failure = "None" => s.failure = "None"
  /\ MayIngest(u) => MayIngest(s)

\* As a sender the session is what it was.
Says(s, u) == u.tls.sendable = s.tls.sendable /\ u.closeNotifySent = s.closeNotifySent

LEMMA IngestSound ==
  ASSUME NEW s, SessionSound(s), MayIngest(s), NEW q \in Seq(Records)
  PROVE  LET u == IngestTls(s, q)
         IN  /\ SessionSound(u) /\ u.closeNotifySent = s.closeNotifySent
             /\ Took(s.tls, u.tls, q, Len(q))
             /\ MayIngest(u) => ~u.tls.closed /\ ~u.tls.failed
<1> DEFINE t == Process(s.tls, q)
           w == [s EXCEPT !.tls = t]
           b == s.closeNotifySent
<1>1. /\ s \in SessionRecords /\ s.tls \in Engines /\ s.tls.script \in QuietScripts
      /\ ~s.tls.closed /\ ~s.tls.failed /\ b \in BOOLEAN /\ s.failure = "None"
  BY SessionFields DEF SessionSound, MayIngest, EnsureProgressing
<1>2. t \in Engines /\ Took(s.tls, t, q, Len(q))
  BY <1>1, ProcessTakes
<1>3. IngestTls(s, q) = Refresh(w)
  BY <1>1 DEF IngestTls, SessionRecords
<1> HIDE DEF t
<1>4. w = WithTls(s, t, b)
  BY <1>1 DEF SessionRecords, WithTls
<1>5. /\ t.script \in QuietScripts /\ Grows(s.tls.sendable, t.sendable)
      /\ s.tls.script = <<>> => t.script = <<>> /\ NoFlights(s.tls.sendable, t.sendable)
  BY <1>2 DEF Took
<1>6. \A i \in 1..Len(t.sendable) : i <= Len(s.tls.sendable) =>
        \E j \in 1..Len(s.tls.sendable) : t.sendable[i] = s.tls.sendable[j]
  <2>1. s.tls.sendable \in Seq(Records) /\ t.sendable \in Seq(Records)
    BY <1>1, <1>2 DEF Engines
  <2>2. Len(s.tls.sendable) \in Nat
    BY <2>1
  <2> QED
    BY <1>5, <2>2 DEF Grows
<1> HIDE DEF w, b
<1>7. /\ SessionSound(Refresh(w)) /\ Refresh(w).tls = t /\ Refresh(w).closeNotifySent = b
      /\ MayIngest(Refresh(w)) => ~t.closed /\ ~t.failed
  BY <1>1, <1>2, <1>4, <1>5, <1>6, Refreshed
<1> QED
  BY <1>2, <1>3, <1>7 DEF b

\* The stream b is a followed by x.
Joined(a, x, b) == b = a \o x

FlightFree(x) == \A i \in 1..Len(x) : x[i] # "Flight"

LEMMA JoinedQuietly ==
  ASSUME NEW a \in Seq(Records), NEW x \in Seq(Records), NEW d, Joined(a, x, d),
         FlightFree(x)
  PROVE  /\ \A i \in 1..Len(d) : i <= Len(a) => \E j \in 1..Len(a) : d[i] = a[j]
         /\ NoFlights(a, d)
<1>1. d = a \o x
  BY DEF Joined
<1>2. Len(d) = Len(a) + Len(x) /\ Len(a) \in Nat /\ Len(x) \in Nat
  BY <1>1
<1>3. \A i \in 1..Len(a) : d[i] = a[i]
  BY <1>1
<1>4. \A i \in (Len(a) + 1)..Len(d) : d[i] = x[i - Len(a)] /\ i - Len(a) \in 1..Len(x)
  BY <1>1, <1>2
<1>5. NoFlights(a, d)
  BY <1>4 DEF NoFlights, FlightFree
<1> QED
  BY <1>2, <1>3, <1>5

\* The connection t is the one of s after x was queued.
Queues(s, x, t) ==
  /\ x \in Seq(Records) /\ FlightFree(x) /\ t \in Engines
  /\ Joined(s.tls.sendable, x, t.sendable)
  /\ t.script = s.tls.script /\ t.plaintext = s.tls.plaintext /\ t.closed = s.tls.closed

\* A method that queues records, or none, and then asks rustls again.
LEMMA QueuedSound ==
  ASSUME NEW s, SessionSound(s), s.failure = "None", NEW t, NEW b \in BOOLEAN, NEW x,
         Queues(s, x, t), NEW u, u = Refresh(WithTls(s, t, b))
  PROVE  SessionSound(u) /\ u.closeNotifySent = b /\ Hears(s, u) /\ u.tls = t
<1>1. /\ s.tls.sendable \in Seq(Records) /\ s.tls.script \in QuietScripts
      /\ x \in Seq(Records) /\ FlightFree(x) /\ t \in Engines
      /\ Joined(s.tls.sendable, x, t.sendable)
      /\ t.script = s.tls.script /\ t.plaintext = s.tls.plaintext /\ t.closed = s.tls.closed
  BY SessionFields DEF Queues
<1>2. /\ NoFlights(s.tls.sendable, t.sendable)
      /\ \A i \in 1..Len(t.sendable) : i <= Len(s.tls.sendable) =>
           \E j \in 1..Len(s.tls.sendable) : t.sendable[i] = s.tls.sendable[j]
  BY <1>1, JoinedQuietly
<1>3. /\ SessionSound(u) /\ u.tls = t /\ u.closeNotifySent = b
      /\ MayIngest(u) => MayIngest(s)
  BY <1>1, <1>2, Refreshed
<1> QED
  BY <1>1, <1>3 DEF Hears

LEMMA WriteSound ==
  ASSUME NEW s, SessionSound(s), MayWrite(s), NEW count \in Nat
  PROVE  LET u == WriteSession(s, count)
         IN  /\ SessionSound(u) /\ u.closeNotifySent = s.closeNotifySent /\ Hears(s, u)
             /\ u.tls.sendable = s.tls.sendable \o [i \in 1..count |-> "Data"]
<1> DEFINE x == [i \in 1..count |-> "Data"]
           t == Queue(s.tls, x)
           b == s.closeNotifySent
           w == [s EXCEPT !.tls = t]
<1>1. /\ s \in SessionRecords /\ s.tls \in Engines /\ s.failure = "None" /\ b \in BOOLEAN
  BY SessionFields DEF SessionSound, MayWrite, EnsureProgressing
<1>2. /\ x \in Seq(Records) /\ Len(x) = count
      /\ FlightFree(x)
  BY DEF Records, FlightFree
<1>3. WriteSession(s, count) = Refresh(w)
  BY <1>1 DEF WriteSession, Accept, SessionRecords
<1> HIDE DEF x
<1>4. /\ t \in Engines /\ t.sendable = s.tls.sendable \o x /\ t.script = s.tls.script
      /\ t.plaintext = s.tls.plaintext /\ t.closed = s.tls.closed
  BY <1>1, <1>2, QueueEffect
<1> HIDE DEF t
<1>5. WriteSession(s, count) = Refresh(WithTls(s, t, b))
  BY <1>1, <1>3 DEF SessionRecords, WithTls
<1> DEFINE u == WriteSession(s, count)
<1> HIDE DEF b, u
<1>6. SessionSound(u) /\ u.closeNotifySent = b /\ Hears(s, u) /\ u.tls = t
  <2>1. Queues(s, x, t)
    BY <1>2, <1>4 DEF Queues, Joined
  <2>2. u = Refresh(WithTls(s, t, b))
    BY <1>5 DEF u
  <2> QED
    BY <1>1, <2>1, <2>2, QueuedSound
<1> QED
  BY <1>4, <1>6 DEF b, x, u

LEMMA CloseSound ==
  ASSUME NEW s, SessionSound(s), MayClose(s)
  PROVE  LET u == CloseSession(s)
         IN  /\ SessionSound(u) /\ u.closeNotifySent = TRUE /\ Hears(s, u)
             /\ \/ u.tls.sendable = s.tls.sendable
                \/ u.tls.sendable = s.tls.sendable \o <<"CloseNotify">>
<1> DEFINE t == SendCloseNotify(s.tls)
           u == CloseSession(s)
           b == TRUE
<1>1. /\ s \in SessionRecords /\ s.tls \in Engines /\ s.failure = "None"
      /\ s.tls.sendable \in Seq(Records)
  BY SessionFields DEF SessionSound, MayClose, EnsureProgressing
<1>2. u = Refresh(WithTls(s, t, b))
  BY <1>1 DEF CloseSession, SessionRecords, WithTls
<1>5. b \in BOOLEAN
  OBVIOUS
<1> HIDE DEF b
<1>3. CASE s.tls.sentClose
  <2>1. t = s.tls /\ <<>> \in Seq(Records) /\ t.sendable = s.tls.sendable \o <<>>
    BY <1>1, <1>3 DEF SendCloseNotify
  <2>2. FlightFree(<<>>)
    BY DEF FlightFree
  <2> HIDE DEF t, u
  <2>3. SessionSound(u) /\ u.closeNotifySent = b /\ Hears(s, u) /\ u.tls = t
    <3>1. Queues(s, <<>>, t)
      BY <1>1, <2>1, <2>2 DEF Queues, Joined
    <3> QED
      BY <1>1, <1>2, <1>5, <3>1, QueuedSound
  <2> QED
    BY <2>1, <2>3 DEF u, b
<1>4. CASE ~s.tls.sentClose
  <2> DEFINE x == <<"CloseNotify">>
             v == [s.tls EXCEPT !.sentClose = TRUE]
  <2>1. x \in Seq(Records) /\ Len(x) = 1 /\ FlightFree(x)
    BY DEF Records, FlightFree
  <2>2. t = Queue(v, x)
    BY <1>4 DEF SendCloseNotify
  <2>3. /\ v \in Engines /\ v.sendable = s.tls.sendable /\ v.script = s.tls.script
        /\ v.plaintext = s.tls.plaintext /\ v.closed = s.tls.closed
    BY <1>1 DEF Engines
  <2> HIDE DEF v, t, x, u
  <2>4. /\ t \in Engines /\ t.sendable = v.sendable \o x /\ t.script = v.script
        /\ t.plaintext = v.plaintext /\ t.closed = v.closed
    BY <2>1, <2>2, <2>3, QueueEffect
  <2>5. SessionSound(u) /\ u.closeNotifySent = b /\ Hears(s, u) /\ u.tls = t
    <3>1. Queues(s, x, t)
      BY <2>1, <2>3, <2>4 DEF Queues, Joined
    <3> QED
      BY <1>1, <1>2, <1>5, <3>1, QueuedSound
  <2> QED
    BY <2>3, <2>4, <2>5 DEF x, u, b
<1> QED
  BY <1>3, <1>4

\* The records of a stream behind the first n.
LEMMA RestFields ==
  ASSUME NEW q \in Seq(Records), NEW n \in Nat, n <= Len(q)
  PROVE  /\ Rest(q, n) \in Seq(Records) /\ Len(Rest(q, n)) = Len(q) - n /\ Len(q) \in Nat
         /\ \A i \in 1..Len(Rest(q, n)) : Rest(q, n)[i] = q[i + n] /\ i + n \in 1..Len(q)
<1> DEFINE p == SubSeq(q, n + 1, Len(q))
<1>1. Len(q) \in Nat /\ \A i \in (n + 1)..Len(q) : q[i] \in Records
  OBVIOUS
<1>2. p \in Seq(Records)
  BY <1>1
<1>3. Len(p) = Len(q) - n
  BY <1>1
<1>4. \A i \in 1..Len(p) : i + n \in 1..Len(q)
  BY <1>1, <1>3
<1>5. \A i \in 1..Len(p) : p[i] = q[i + n]
  BY <1>1, <1>3, SubSeqProperties
<1> QED
  BY <1>1, <1>2, <1>3, <1>4, <1>5 DEF Rest

LEMMA DrainSound ==
  ASSUME NEW s, SessionSound(s), NEW count \in Nat, count <= Len(s.tls.sendable)
  PROVE  LET u == DrainTls(s, count)
         IN  /\ SessionSound(u) /\ u.closeNotifySent = s.closeNotifySent /\ Hears(s, u)
             /\ u.tls.sendable = Rest(s.tls.sendable, count)
<1> DEFINE q == s.tls.sendable
           p == Rest(q, count)
           t == WriteTls(s.tls, count)
           b == s.closeNotifySent
           w == [s EXCEPT !.tls = t]
           u == DrainTls(s, count)
<1>1. /\ s \in SessionRecords /\ s.tls \in Engines /\ q \in Seq(Records) /\ b \in BOOLEAN
      /\ s.tls.script \in QuietScripts
  BY SessionFields DEF SessionSound
<1>2. /\ p \in Seq(Records) /\ Len(p) = Len(q) - count /\ Len(q) \in Nat
      /\ \A i \in 1..Len(p) : p[i] = q[i + count] /\ i + count \in 1..Len(q)
  BY <1>1, RestFields
<1>3. t = [s.tls EXCEPT !.sendable = p]
  BY <1>1 DEF WriteTls, Rest, Engines
<1> HIDE DEF p
<1>4. /\ t \in Engines /\ t.sendable = p /\ t.script = s.tls.script
      /\ t.plaintext = s.tls.plaintext /\ t.closed = s.tls.closed /\ t.failed = s.tls.failed
  <2> HIDE DEF t
  <2> QED
    BY <1>1, <1>2, <1>3 DEF Engines
<1>5. CASE s.failure = "None"
  <2>1. u = Refresh(WithTls(s, t, b))
    BY <1>1, <1>5 DEF DrainTls, WithTls, SessionRecords
  <2> HIDE DEF t, u, b
  <2>2. NoFlights(q, t.sendable)
    <3>1. \A i \in (Len(q) + 1)..Len(p) : FALSE
      BY <1>2
    <3> QED
      BY <1>4, <3>1 DEF NoFlights
  <2>3. \A i \in 1..Len(t.sendable) : i <= Len(q) => \E j \in 1..Len(q) : t.sendable[i] = q[j]
    BY <1>2, <1>4
  <2>4. /\ SessionSound(u) /\ u.tls = t /\ u.closeNotifySent = b
        /\ MayIngest(u) => MayIngest(s)
    BY <1>1, <1>4, <1>5, <2>1, <2>2, <2>3, Refreshed
  <2> QED
    BY <1>4, <1>5, <2>4 DEF Hears, u, b, p
<1>6. CASE s.failure # "None"
  <2> DEFINE e == IF s.egressBytes > count THEN s.egressBytes - count ELSE 0
  <2>1. u = [s EXCEPT !.tls = t, !.egressBytes = e]
    BY <1>1, <1>6 DEF DrainTls, SessionRecords
  <2>2. s.egressBytes \in 0..MaxEgress /\ MaxEgress \in Nat
    BY <1>1, EngineAssumption DEF SessionRecords
  <2>3. e \in 0..MaxEgress
    BY <2>2
  <2> HIDE DEF t, u, e
  <2>4. /\ u \in SessionRecords /\ u.tls = t /\ u.closeNotifySent = b /\ u.failure = s.failure
        /\ u.opened = s.opened /\ u.peerClosure = s.peerClosure
    BY <1>1, <1>4, <2>1, <2>3 DEF SessionRecords
  <2>5. ASSUME u.opened
        PROVE  t.script = <<>> /\ \A i \in DOMAIN t.sendable : t.sendable[i] # "Flight"
    <3>1. s.tls.script = <<>> /\ \A j \in DOMAIN q : q[j] # "Flight"
      BY <2>4, <2>5 DEF SessionSound
    <3>2. DOMAIN q = 1..Len(q) /\ DOMAIN p = 1..Len(p)
      BY <1>1, <1>2
    <3> QED
      BY <1>2, <1>4, <3>1, <3>2
  <2>6. SessionSound(u)
    BY <1>1, <1>4, <1>6, <2>4, <2>5 DEF SessionSound
  <2>7. Hears(s, u)
    BY <1>4, <2>4 DEF Hears, MayIngest, EnsureProgressing
  <2> QED
    BY <1>4, <2>4, <2>6, <2>7 DEF u, p
<1> QED
  BY <1>5, <1>6

LEMMA ReadSound ==
  ASSUME NEW s, SessionSound(s), EnsureProgressing(s)
  PROVE  LET u == ReadSession(s)
         IN  /\ SessionSound(u) /\ Says(s, u)
             /\ PlaintextAnswer(s) = "Bytes" =>
                  /\ s.tls.plaintext > 0 /\ u.tls.plaintext = s.tls.plaintext - 1
                  /\ u.tls.closed = s.tls.closed /\ u.failure = s.failure
                  /\ MayIngest(u) => MayIngest(s)
             /\ PlaintextAnswer(s) # "Bytes" => Hears(s, u)
             /\ PlaintextAnswer(s) = "Eof" => s.tls.closed /\ s.tls.plaintext = 0
<1> DEFINE u == ReadSession(s)
           answer == PlaintextAnswer(s)
<1>1. /\ s \in SessionRecords /\ s.tls \in Engines /\ s.failure = "None"
      /\ s.tls.plaintext \in Nat /\ s.tls.script \in QuietScripts
      /\ s.plaintextBytes = s.tls.plaintext /\ s.tls.closed \in BOOLEAN
      /\ s.peerClosure = "Clean" <=> s.tls.closed
      /\ ~s.tls.failed /\ s.egressBytes = Len(s.tls.sendable)
      /\ s.opened => s.tls.script = <<>> /\ \A i \in DOMAIN s.tls.sendable : s.tls.sendable[i] # "Flight"
  BY SessionFields DEF SessionSound, EnsureProgressing
<1>2. CASE answer = "Bytes"
  <2> DEFINE n == s.tls.plaintext - 1
             t == [s.tls EXCEPT !.plaintext = n]
  <2>1. s.tls.plaintext > 0
    BY <1>1, <1>2 DEF PlaintextAnswer, ReaderAnswer
  <2>2. n \in Nat /\ n <= s.tls.plaintext
    BY <1>1, <2>1
  <2>3. u = [s EXCEPT !.tls = t, !.plaintextBytes = n]
    BY <1>1, <1>2, <2>1 DEF ReadSession, ReadPlaintext, SessionRecords, Engines
  <2>4. s.plaintextBytes \in 0..MaxPlaintext /\ MaxPlaintext \in Nat
    BY <1>1, EngineAssumption DEF SessionRecords
  <2>5. n \in 0..MaxPlaintext
    BY <1>1, <2>2, <2>4
  <2> HIDE DEF n
  <2>6. /\ t \in Engines /\ t.plaintext = n /\ t.sendable = s.tls.sendable
        /\ t.script = s.tls.script /\ t.closed = s.tls.closed /\ t.failed = s.tls.failed
    BY <1>1, <2>2 DEF Engines
  <2> HIDE DEF t, u
  <2>7. /\ u \in SessionRecords /\ u.tls = t /\ u.plaintextBytes = n
        /\ u.egressBytes = s.egressBytes /\ u.peerClosure = s.peerClosure
        /\ u.opened = s.opened /\ u.closeNotifySent = s.closeNotifySent /\ u.failure = s.failure
    BY <1>1, <2>3, <2>5, <2>6 DEF SessionRecords
  <2>8. SessionSound(u)
    BY <1>1, <2>6, <2>7 DEF SessionSound
  <2>9. MayIngest(u) => MayIngest(s)
    BY <2>7 DEF MayIngest, EnsureProgressing
  <2>10. Says(s, u)
    BY <2>6, <2>7 DEF Says
  <2> QED
    BY <1>2, <2>1, <2>6, <2>7, <2>8, <2>9, <2>10 DEF u, n
<1>3. CASE answer = "UnexpectedEof"
  <2> DEFINE w == [s EXCEPT !.peerClosure = "Truncated"]
  <2>1. s.tls.plaintext = 0 /\ ~s.tls.closed
    BY <1>1, <1>3 DEF PlaintextAnswer, ReaderAnswer
  <2>2. u = Latch(w, "Truncated")
    BY <1>3 DEF ReadSession
  <2>3. /\ w \in SessionRecords /\ w.tls = s.tls /\ w.failure = "None"
        /\ w.closeNotifySent = s.closeNotifySent /\ w.opened = s.opened
    BY <1>1 DEF SessionRecords, Closures
  <2>4. "Truncated" \in Diagnostics
    BY DEF Diagnostics
  <2> HIDE DEF w, u
  <2>5. /\ u \in SessionRecords /\ u.tls = s.tls /\ u.failure = "Truncated"
        /\ u.closeNotifySent = s.closeNotifySent /\ u.opened = s.opened
    BY <2>2, <2>3, <2>4, LatchEffect
  <2>6. SessionSound(u) /\ Says(s, u) /\ Hears(s, u)
    BY <1>1, <2>1, <2>5 DEF SessionSound, Says, Hears, MayIngest, EnsureProgressing
  <2> QED
    BY <1>3, <2>6 DEF u
<1>4. CASE answer \notin {"Bytes", "UnexpectedEof"}
  <2>1. u = s
    BY <1>4 DEF ReadSession
  <2>2. Says(s, u) /\ Hears(s, u)
    BY <2>1 DEF Says, Hears
  <2>3. answer = "Eof" => s.tls.closed /\ s.tls.plaintext = 0
    BY <1>1 DEF PlaintextAnswer, ReaderAnswer
  <2> QED
    BY <1>4, <2>1, <2>2, <2>3
<1> QED
  BY <1>2, <1>3, <1>4

LEMMA FinishSound ==
  ASSUME NEW s, SessionSound(s), EnsureProgressing(s)
  PROVE  SessionSound(FinishInput(s)) /\ Says(s, FinishInput(s)) /\ Hears(s, FinishInput(s))
<1> DEFINE t == ReadEof(s.tls)
           b == s.closeNotifySent
           seen == IF s.peerClosure = "Open" THEN Refresh([s EXCEPT !.tls = ReadEof(@)]) ELSE s
           ended == IF seen.failure = "None" /\ seen.peerClosure # "Clean"
                    THEN [seen EXCEPT !.peerClosure = "Truncated"] ELSE seen
           u == FinishInput(s)
<1>1. /\ s \in SessionRecords /\ s.tls \in Engines /\ s.failure = "None" /\ b \in BOOLEAN
      /\ s.tls.sendable \in Seq(Records) /\ s.tls.script \in QuietScripts
  BY SessionFields DEF SessionSound, EnsureProgressing
<1>2. CASE s.peerClosure = "Clean"
  <2>1. u = s
    BY <1>2 DEF FinishInput
  <2> QED
    BY <2>1 DEF Says, Hears
<1>3. CASE s.peerClosure # "Clean"
  <2>1. ~s.tls.closed
    BY <1>1, <1>3 DEF SessionSound
  <2>2. SessionSound(seen) /\ Says(s, seen) /\ Hears(s, seen) /\ seen.failure # "Truncated"
    <3>1. CASE s.peerClosure # "Open"
      <4>1. seen = s
        BY <3>1
      <4> QED
        BY <1>1, <4>1 DEF Says, Hears
    <3>2. CASE s.peerClosure = "Open"
      <4>1. seen = Refresh(WithTls(s, t, b))
        BY <1>1, <3>2 DEF WithTls, SessionRecords
      <4>2. /\ t \in Engines /\ t.sendable = s.tls.sendable /\ t.script = s.tls.script
            /\ t.plaintext = s.tls.plaintext /\ t.closed = s.tls.closed
        BY <1>1 DEF ReadEof, Engines
      <4> HIDE DEF t, b, seen
      <4>3. NoFlights(s.tls.sendable, t.sendable)
        BY <1>1, <4>2, GrowsSelf
      <4>4. \A i \in 1..Len(t.sendable) : i <= Len(s.tls.sendable) =>
              \E j \in 1..Len(s.tls.sendable) : t.sendable[i] = s.tls.sendable[j]
        BY <4>2
      <4>5. /\ SessionSound(seen) /\ seen.tls = t /\ seen.closeNotifySent = b
            /\ MayIngest(seen) => MayIngest(s)
            /\ seen.failure # "Truncated"
        BY <1>1, <4>1, <4>2, <4>3, <4>4, Refreshed
      <4> QED
        BY <1>1, <4>2, <4>5 DEF Says, Hears, b
    <3> QED
      BY <3>1, <3>2
  <2>3. u = IF ended.plaintextBytes = 0 THEN Latch(ended, "Truncated") ELSE ended
    BY <1>3 DEF FinishInput
  <2> HIDE DEF seen
  <2>4. /\ seen \in SessionRecords /\ seen.tls \in Engines
        /\ seen.failure = "None" =>
             /\ seen.peerClosure # "Clean" /\ seen.plaintextBytes = seen.tls.plaintext
             /\ seen.egressBytes = Len(seen.tls.sendable) /\ ~seen.tls.failed
        /\ ~seen.tls.closed
    BY <2>1, <2>2, SessionFields DEF SessionSound, Hears
  <2>5. CASE seen.failure # "None"
    <3>1. u = seen
      BY <2>3, <2>5 DEF Latch
    <3> QED
      BY <2>2, <3>1
  <2>6. CASE seen.failure = "None"
    <3>1. ended = [seen EXCEPT !.peerClosure = "Truncated"]
      BY <2>4, <2>6
    <3> HIDE DEF ended
    <3>2. /\ ended \in SessionRecords /\ ended.tls = seen.tls /\ ended.failure = "None"
          /\ ended.closeNotifySent = seen.closeNotifySent /\ ended.opened = seen.opened
          /\ ended.peerClosure = "Truncated" /\ ended.plaintextBytes = seen.plaintextBytes
          /\ ended.egressBytes = seen.egressBytes
      BY <2>4, <2>6, <3>1 DEF SessionRecords, Closures
    <3>3. "Truncated" \in Diagnostics
      BY DEF Diagnostics
    <3> HIDE DEF u
    <3>4. /\ u \in SessionRecords /\ u.tls = seen.tls
          /\ u.closeNotifySent = seen.closeNotifySent /\ u.opened = seen.opened
          /\ u.peerClosure = "Truncated" /\ u.plaintextBytes = seen.plaintextBytes
          /\ u.egressBytes = seen.egressBytes
          /\ u.failure = "None" \/ (u.failure = "Truncated" /\ seen.plaintextBytes = 0)
      <4>1. CASE ended.plaintextBytes = 0
        <5>1. u = Latch(ended, "Truncated")
          BY <2>3, <4>1
        <5> QED
          BY <3>2, <3>3, <4>1, <5>1, LatchEffect
      <4>2. CASE ended.plaintextBytes # 0
        <5>1. u = ended
          BY <2>3, <4>2
        <5> QED
          BY <3>2, <5>1
      <4> QED
        BY <4>1, <4>2
    <3>5. SessionSound(u)
      BY <2>2, <2>4, <2>6, <3>4 DEF SessionSound
    <3>6. Says(s, u)
      BY <2>2, <3>4 DEF Says
    <3>7. Hears(s, u)
      BY <1>1, <2>2, <3>4 DEF Hears, MayIngest
    <3> QED
      BY <3>5, <3>6, <3>7 DEF u
  <2> QED
    BY <2>5, <2>6
<1> QED
  BY <1>2, <1>3

(***************************************************************************)
(* One direction of the conversation.                                      *)
(***************************************************************************)

\* What is still on its way to a receiver that accounts for sum records of the
\* accepted ones: if nothing was lost or corrupted, all the others; and before
\* an end of the stream that can be reached, all the others too.
Exact(path, lost, sum, accepted) ==
  /\ ~lost /\ WholeTo(path, Len(path)) => sum + DataTo(path, Len(path)) = accepted
  /\ \A i \in 1..Len(path) : path[i] = "CloseNotify" /\ WholeTo(path, i - 1) =>
       sum + DataTo(path, i - 1) = accepted

Path(sendable, wire, lost) == IF lost THEN wire ELSE wire \o sendable

\* Nothing is handed out that was not accepted; only the sender's close_notify
\* ends the stream; and the receiver that took it has everything.
Flow(sender, wire, lost, receiver, accepted, log) ==
  /\ log.read + receiver.tls.plaintext + DataTo(wire, Len(wire))
       + DataTo(sender.tls.sendable, Len(sender.tls.sendable)) <= accepted
  /\ \A i \in 1..Len(wire) : wire[i] = "CloseNotify" => sender.closeNotifySent
  /\ \A i \in 1..Len(sender.tls.sendable) :
       sender.tls.sendable[i] = "CloseNotify" => sender.closeNotifySent
  /\ receiver.tls.closed => sender.closeNotifySent
  /\ receiver.tls.closed /\ receiver.failure = "None" =>
       log.read + receiver.tls.plaintext = accepted
  /\ log.clean => sender.closeNotifySent /\ log.read = accepted
  /\ MayIngest(receiver) =>
       Exact(Path(sender.tls.sendable, wire, lost), lost, log.read + receiver.tls.plaintext, accepted)

LEMMA PathFields ==
  ASSUME NEW a \in Seq(Records), NEW w \in Seq(Records), NEW lost \in BOOLEAN
  PROVE  /\ Path(a, w, lost) \in Seq(Records)
         /\ lost => Path(a, w, lost) = w
         /\ ~lost => Path(a, w, lost) = w \o a
         /\ Len(w) <= Len(Path(a, w, lost)) /\ Len(w) \in Nat /\ Len(Path(a, w, lost)) \in Nat
         /\ \A i \in 1..Len(w) : Path(a, w, lost)[i] = w[i]
<1>1. CASE lost
  <2>1. Path(a, w, lost) = w
    BY <1>1 DEF Path
  <2>2. Len(w) \in Nat /\ Len(w) <= Len(w)
    OBVIOUS
  <2> QED
    BY <1>1, <2>1, <2>2
<1>2. CASE ~lost
  <2> DEFINE p == w \o a
  <2>1. Path(a, w, lost) = p
    BY <1>2 DEF Path
  <2>2. /\ p \in Seq(Records) /\ Len(p) = Len(w) + Len(a) /\ Len(w) \in Nat /\ Len(a) \in Nat
        /\ \A i \in 1..Len(w) : p[i] = w[i]
    OBVIOUS
  <2>3. Len(w) <= Len(p) /\ Len(p) \in Nat
    <3> HIDE DEF p
    <3> QED BY <2>2
  <2> QED
    BY <1>2, <2>1, <2>2, <2>3
<1> QED
  BY <1>1, <1>2

\* Two parts of a stream, counted.
LEMMA JoinedCount ==
  ASSUME NEW a \in Seq(Records), NEW x \in Seq(Records), NEW b, Joined(a, x, b)
  PROVE  /\ b \in Seq(Records) /\ Len(b) = Len(a) + Len(x) /\ Len(a) \in Nat /\ Len(x) \in Nat
         /\ \A i \in 1..Len(a) : b[i] = a[i]
         /\ \A i \in 1..Len(x) : x[i] = b[Len(a) + i]
         /\ DataTo(b, Len(b)) = DataTo(a, Len(a)) + DataTo(x, Len(x))
<1>1. b = a \o x
  BY DEF Joined
<1>2. b \in Seq(Records) /\ Len(b) = Len(a) + Len(x) /\ Len(a) \in Nat /\ Len(x) \in Nat
  BY <1>1
<1>3. \A i \in 1..Len(a) : b[i] = a[i]
  BY <1>1
<1>4. \A i \in 1..Len(x) : x[i] = b[Len(a) + i]
  BY <1>1, <1>2
<1>5. DataTo(b, Len(a) + Len(x)) = DataTo(b, Len(a)) + DataTo(x, Len(x))
  <2>1. Adjoins(b, Len(a), x, Len(x))
    BY <1>4 DEF Adjoins
  <2> QED
    BY <1>2, <2>1, DataToSum
<1>6. DataTo(b, Len(a)) = DataTo(a, Len(a))
  BY <1>2, <1>3, DataToSame
<1> QED
  BY <1>2, <1>3, <1>4, <1>5, <1>6

Adds(a, x, b) ==
  /\ Len(b) = Len(a) + Len(x) /\ Len(a) \in Nat
  /\ \A i \in 1..Len(a) : b[i] = a[i]
  /\ \A i \in 1..Len(x) : x[i] = b[Len(a) + i]
  /\ DataTo(b, Len(b)) = DataTo(a, Len(a)) + DataTo(x, Len(x))

LEMMA JoinedAdds ==
  ASSUME NEW a \in Seq(Records), NEW x \in Seq(Records), NEW b, Joined(a, x, b)
  PROVE  Adds(a, x, b)
  BY JoinedCount DEF Adds

LEMMA JoinedType ==
  ASSUME NEW a \in Seq(Records), NEW x \in Seq(Records), NEW b, Joined(a, x, b)
  PROVE  b \in Seq(Records)
  BY DEF Joined

\* q starts with p.
Starts(p, q) ==
  /\ p \in Seq(Records) /\ q \in Seq(Records) /\ Len(p) <= Len(q)
  /\ \A i \in 1..Len(p) : q[i] = p[i]

LEMMA StartsSame ==
  ASSUME NEW p, NEW q, Starts(p, q), NEW n \in 0..Len(p)
  PROVE  DataTo(q, n) = DataTo(p, n) /\ (WholeTo(q, n) <=> WholeTo(p, n))
<1>1. n \in Nat /\ \A i \in 1..n : i \in 1..Len(p)
  BY DEF Starts
<1>2. \A i \in 1..n : q[i] = p[i]
  BY <1>1 DEF Starts
<1> QED
  BY <1>1, <1>2, DataToSame DEF WholeTo

LEMMA StartsSum ==
  ASSUME NEW p, NEW q, Starts(p, q), NEW n \in Nat, NEW d \in Nat, Len(q) = Len(p) + n,
         NEW x, Adjoins(q, Len(p), x, n), DataTo(x, n) = d
  PROVE  DataTo(q, Len(q)) = DataTo(p, Len(p)) + d
<1>1. Len(p) \in Nat
  BY DEF Starts
<1>2. DataTo(q, Len(p) + n) = DataTo(q, Len(p)) + DataTo(x, n)
  BY <1>1, DataToSum
<1>3. Len(p) \in 0..Len(p)
  BY <1>1
<1>4. DataTo(q, Len(p)) = DataTo(p, Len(p))
  BY <1>3, StartsSame
<1> QED
  BY <1>2, <1>4

\* The stream was cut: what is left of it is a prefix.
LEMMA ExactPrefix ==
  ASSUME NEW p, NEW q, Starts(p, q), NEW lost, NEW sum, NEW n, Exact(q, lost, sum, n)
  PROVE  Exact(p, TRUE, sum, n)
<1>1. Len(p) \in Nat /\ Len(q) \in Nat /\ Len(p) <= Len(q)
  BY DEF Starts
<1>2. ASSUME NEW i \in 1..Len(p), p[i] = "CloseNotify", WholeTo(p, i - 1)
      PROVE  sum + DataTo(p, i - 1) = n
  <2>1. i \in 1..Len(q) /\ i - 1 \in 0..Len(p)
    BY <1>1
  <2>2. q[i] = "CloseNotify" /\ WholeTo(q, i - 1) /\ DataTo(q, i - 1) = DataTo(p, i - 1)
    BY <1>2, <2>1, StartsSame DEF Starts
  <2> QED
    BY <2>1, <2>2 DEF Exact
<1> QED
  BY <1>2 DEF Exact

\* The sender added records that no owner wrote.
LEMMA ExactGrows ==
  ASSUME NEW p, NEW q, Starts(p, q), NEW lost, NEW sum \in Nat, NEW n \in Nat,
         Exact(p, lost, sum, n), \A i \in (Len(p) + 1)..Len(q) : q[i] \in Quiet
  PROVE  Exact(q, lost, sum, n)
<1>1. Len(p) \in Nat /\ Len(q) \in Nat /\ Len(p) <= Len(q)
  BY DEF Starts
<1>2. ASSUME NEW i \in 1..Len(q), q[i] = "CloseNotify", WholeTo(q, i - 1)
      PROVE  sum + DataTo(q, i - 1) = n
  <2>1. i \in 1..Len(p)
    <3>1. CASE i \in (Len(p) + 1)..Len(q)
      BY <1>2, <3>1 DEF Quiet
    <3> QED
      BY <1>1, <3>1
  <2>2. i - 1 \in 0..Len(p)
    BY <1>1, <2>1
  <2>3. p[i] = "CloseNotify" /\ WholeTo(p, i - 1) /\ DataTo(q, i - 1) = DataTo(p, i - 1)
    BY <1>2, <2>1, <2>2, StartsSame DEF Starts
  <2> QED
    BY <2>1, <2>3 DEF Exact
<1>3. ASSUME ~lost, WholeTo(q, Len(q))
      PROVE  sum + DataTo(q, Len(q)) = n
  <2>1. WholeTo(p, Len(p))
    <3>1. \A i \in 1..Len(p) : i \in 1..Len(q)
      BY <1>1
    <3> QED
      BY <1>3, <3>1 DEF WholeTo, Starts
  <2>2. sum + DataTo(p, Len(p)) = n
    BY <1>3, <2>1 DEF Exact
  <2> DEFINE k == Len(q) - Len(p)
             x == [i \in 1..k |-> q[Len(p) + i]]
  <2>3. k \in Nat /\ Len(q) = Len(p) + k
    BY <1>1
  <2>4. \A i \in 1..k : x[i] = q[Len(p) + i] /\ Len(p) + i \in (Len(p) + 1)..Len(q)
    BY <1>1, <2>3
  <2>5. \A i \in 1..k : x[i] # "Data"
    BY <2>4 DEF Quiet
  <2> HIDE DEF x, k
  <2>6. DataTo(x, k) = 0
    BY <2>3, <2>5, DataToNone
  <2>7. DataTo(q, Len(q)) = DataTo(p, Len(p)) + DataTo(x, k)
    <3>1. Adjoins(q, Len(p), x, k)
      BY <2>4 DEF Adjoins
    <3>2. DataTo(x, k) \in Nat
      BY <2>3, DataToType
    <3> QED
      BY <2>3, <3>1, <3>2, StartsSum
  <2>8. DataTo(p, Len(p)) \in Nat
    BY <1>1, DataToType
  <2> QED
    BY <2>2, <2>6, <2>7, <2>8
<1> QED
  BY <1>2, <1>3 DEF Exact

\* The owner wrote before it closed its side.
LEMMA ExactWrites ==
  ASSUME NEW p, NEW q, Starts(p, q), NEW lost \in BOOLEAN, NEW sum \in Nat, NEW n \in Nat,
         NEW k \in Nat, Exact(p, lost, sum, n), \A i \in 1..Len(p) : p[i] # "CloseNotify",
         Len(q) = IF lost THEN Len(p) ELSE Len(p) + k,
         \A i \in (Len(p) + 1)..Len(q) : q[i] = "Data"
  PROVE  Exact(q, lost, sum, n + k)
<1>1. Len(p) \in Nat /\ Len(q) \in Nat /\ Len(p) <= Len(q)
  BY DEF Starts
<1>2. ASSUME NEW i \in 1..Len(q) PROVE q[i] # "CloseNotify"
  <2>1. CASE i \in 1..Len(p)
    BY <2>1 DEF Starts
  <2>2. CASE i \in (Len(p) + 1)..Len(q)
    BY <2>2
  <2> QED
    BY <1>1, <2>1, <2>2
<1>3. ASSUME ~lost, WholeTo(q, Len(q))
      PROVE  sum + DataTo(q, Len(q)) = n + k
  <2>1. WholeTo(p, Len(p))
    <3>1. \A i \in 1..Len(p) : i \in 1..Len(q)
      BY <1>1
    <3> QED
      BY <1>3, <3>1 DEF WholeTo, Starts
  <2>2. sum + DataTo(p, Len(p)) = n
    BY <1>3, <2>1 DEF Exact
  <2> DEFINE x == [i \in 1..k |-> q[Len(p) + i]]
  <2>3. Len(q) = Len(p) + k
    BY <1>3
  <2>4. \A i \in 1..k : x[i] = q[Len(p) + i] /\ Len(p) + i \in (Len(p) + 1)..Len(q)
    BY <1>1, <2>3
  <2>5. \A i \in 1..k : x[i] = "Data"
    BY <2>4
  <2> HIDE DEF x
  <2>6. DataTo(x, k) = k
    BY <2>5, DataToAll
  <2>7. DataTo(q, Len(q)) = DataTo(p, Len(p)) + k
    <3>1. Adjoins(q, Len(p), x, k)
      BY <2>4 DEF Adjoins
    <3> QED
      BY <2>3, <2>6, <3>1, StartsSum
  <2>8. DataTo(p, Len(p)) \in Nat
    BY <1>1, DataToType
  <2> QED
    BY <2>2, <2>7, <2>8
<1> QED
  BY <1>2, <1>3 DEF Exact

\* The owner closed its side.
LEMMA ExactCloses ==
  ASSUME NEW p, NEW q, Starts(p, q), NEW sum \in Nat, NEW n \in Nat,
         Exact(p, FALSE, sum, n), Len(q) = Len(p) + 1, q[Len(p) + 1] = "CloseNotify"
  PROVE  Exact(q, FALSE, sum, n)
<1>1. Len(p) \in Nat /\ Len(q) \in Nat
  BY DEF Starts
<1>2. ASSUME NEW i \in 1..Len(q), q[i] = "CloseNotify", WholeTo(q, i - 1)
      PROVE  sum + DataTo(q, i - 1) = n
  <2>1. i - 1 \in 0..Len(p) /\ (i \in 1..Len(p) \/ i - 1 = Len(p))
    BY <1>1
  <2>2. WholeTo(p, i - 1) /\ DataTo(q, i - 1) = DataTo(p, i - 1)
    BY <1>2, <2>1, StartsSame
  <2>3. CASE i \in 1..Len(p)
    <3>1. p[i] = "CloseNotify"
      BY <1>2, <2>3 DEF Starts
    <3> QED
      BY <2>2, <2>3, <3>1 DEF Exact
  <2>4. CASE i - 1 = Len(p)
    BY <2>2, <2>4 DEF Exact
  <2> QED
    BY <2>1, <2>3, <2>4
<1>3. ASSUME WholeTo(q, Len(q))
      PROVE  sum + DataTo(q, Len(q)) = n
  <2>1. Len(p) + 1 \in 1..Len(q) /\ Len(q) - 1 = Len(p)
    BY <1>1
  <2>2. WholeTo(q, Len(p))
    <3>1. \A i \in 1..Len(p) : i \in 1..Len(q)
      BY <1>1
    <3> QED
      BY <1>3, <3>1 DEF WholeTo
  <2>3. (Len(p) + 1) - 1 = Len(p)
    BY <1>1
  <2>4. sum + DataTo(q, Len(p)) = n
    BY <1>2, <2>1, <2>2, <2>3
  <2>5. DataTo(q, Len(p) + 1) = DataTo(q, Len(p))
    BY <1>1, DataToNext
  <2> QED
    BY <2>4, <2>5
<1> QED
  BY <1>2, <1>3 DEF Exact

\* The receiver took the first k records, all whole, and counts their data.
LEMMA ExactTakes ==
  ASSUME NEW p \in Seq(Records), NEW q \in Seq(Records), NEW k \in Nat,
         Len(p) = k + Len(q), Adjoins(p, k, q, Len(q)), WholeTo(p, k),
         NEW lost, NEW sum \in Nat, NEW n \in Nat, Exact(p, lost, sum, n)
  PROVE  Exact(q, lost, sum + DataTo(p, k), n)
<1>1. Len(p) \in Nat /\ Len(q) \in Nat
  OBVIOUS
<1>2. DataTo(p, k) \in Nat
  BY DataToType
<1>3. ASSUME NEW j \in 0..Len(q), WholeTo(q, j)
      PROVE  /\ WholeTo(p, k + j) /\ DataTo(q, j) \in Nat
             /\ (sum + DataTo(p, k)) + DataTo(q, j) = sum + DataTo(p, k + j)
  <2>1. j \in Nat /\ Adjoins(p, k, q, j) /\ \A i \in 1..j : i \in 1..Len(q)
    BY <1>1 DEF Adjoins
  <2>2. DataTo(p, k + j) = DataTo(p, k) + DataTo(q, j)
    BY <2>1, DataToSum
  <2>3. DataTo(q, j) \in Nat
    BY <2>1, DataToType
  <2>4. ASSUME NEW i \in 1..(k + j) PROVE p[i] # "Bad"
    <3>1. CASE i \in 1..k
      BY <3>1 DEF WholeTo
    <3>2. CASE i \notin 1..k
      <4>1. i - k \in 1..j /\ k + (i - k) = i
        BY <2>1, <3>2
      <4>2. q[i - k] = p[k + (i - k)] /\ q[i - k] # "Bad"
        BY <1>3, <2>1, <4>1 DEF Adjoins, WholeTo
      <4> QED
        BY <4>1, <4>2
    <3> QED
      BY <3>1, <3>2
  <2> QED
    BY <1>2, <2>2, <2>3, <2>4 DEF WholeTo
<1>4. ASSUME NEW i \in 1..Len(q), q[i] = "CloseNotify", WholeTo(q, i - 1)
      PROVE  (sum + DataTo(p, k)) + DataTo(q, i - 1) = n
  <2>1. i - 1 \in 0..Len(q) /\ k + i \in 1..Len(p) /\ (k + i) - 1 = k + (i - 1)
    BY <1>1
  <2>2. p[k + i] = "CloseNotify"
    BY <1>4 DEF Adjoins
  <2>3. /\ WholeTo(p, k + (i - 1))
        /\ (sum + DataTo(p, k)) + DataTo(q, i - 1) = sum + DataTo(p, k + (i - 1))
    BY <1>3, <1>4, <2>1
  <2>4. sum + DataTo(p, (k + i) - 1) = n
    BY <2>1, <2>2, <2>3 DEF Exact
  <2> QED
    BY <2>1, <2>3, <2>4
<1>5. ASSUME ~lost, WholeTo(q, Len(q))
      PROVE  (sum + DataTo(p, k)) + DataTo(q, Len(q)) = n
  <2>1. Len(q) \in 0..Len(q)
    BY <1>1
  <2>2. /\ WholeTo(p, Len(p))
        /\ (sum + DataTo(p, k)) + DataTo(q, Len(q)) = sum + DataTo(p, Len(p))
    BY <1>3, <1>5, <2>1
  <2> QED
    BY <1>5, <2>2 DEF Exact
<1> QED
  BY <1>4, <1>5 DEF Exact

\* A record was corrupted on its way.
LEMMA ExactSpoils ==
  ASSUME NEW p \in Seq(Records), NEW q \in Seq(Records), Len(q) = Len(p), NEW k \in 1..Len(p),
         q[k] = "Bad", \A i \in 1..Len(p) : i # k => q[i] = p[i],
         NEW lost, NEW sum, NEW n, Exact(p, lost, sum, n)
  PROVE  Exact(q, lost, sum, n)
<1>1. Len(p) \in Nat
  OBVIOUS
<1>2. ~WholeTo(q, Len(q))
  BY DEF WholeTo
<1>3. ASSUME NEW i \in 1..Len(q), q[i] = "CloseNotify", WholeTo(q, i - 1)
      PROVE  sum + DataTo(q, i - 1) = n
  <2>1. i # k /\ p[i] = "CloseNotify" /\ i - 1 \in Nat
    BY <1>1, <1>3
  <2>2. k \notin 1..(i - 1)
    BY <1>3 DEF WholeTo
  <2>3. \A j \in 1..(i - 1) : j # k /\ j \in 1..Len(p) /\ q[j] = p[j]
    BY <1>1, <2>1, <2>2
  <2>4. WholeTo(p, i - 1) /\ DataTo(q, i - 1) = DataTo(p, i - 1)
    <3>1. DataTo(q, i - 1) = DataTo(p, i - 1)
      BY <2>1, <2>3, DataToSame
    <3> QED
      BY <1>3, <2>3, <3>1 DEF WholeTo
  <2> QED
    BY <2>1, <2>4 DEF Exact
<1> QED
  BY <1>2, <1>3 DEF Exact

\* The path q is p and then what b has more than a.
Longer(p, q, a, b, w, lost) ==
  /\ Starts(p, q)
  /\ Len(q) = IF lost THEN Len(p) ELSE Len(p) + (Len(b) - Len(a))
  /\ \A i \in (Len(p) + 1)..Len(q) :
       ~lost /\ i - Len(w) \in (Len(a) + 1)..Len(b) /\ q[i] = b[i - Len(w)]

\* What was added to the output was added to the path.
LEMMA PathStarts ==
  ASSUME NEW a, NEW b, Starts(a, b), NEW w \in Seq(Records), NEW lost \in BOOLEAN,
         NEW p, p = Path(a, w, lost), NEW q, q = Path(b, w, lost)
  PROVE  Longer(p, q, a, b, w, lost)
<1>1. /\ a \in Seq(Records) /\ b \in Seq(Records) /\ Len(a) <= Len(b)
      /\ \A i \in 1..Len(a) : b[i] = a[i]
  BY DEF Starts
<1>2. Len(a) \in Nat /\ Len(b) \in Nat /\ Len(w) \in Nat
  BY <1>1
<1>3. CASE lost
  <2>1. p = w /\ q = w
    BY <1>3 DEF Path
  <2>2. Starts(p, q) /\ \A i \in (Len(p) + 1)..Len(q) : FALSE
    BY <1>2, <2>1 DEF Starts
  <2> QED
    BY <1>3, <2>1, <2>2 DEF Longer
<1>4. CASE ~lost
  <2>1. Joined(w, a, p) /\ Joined(w, b, q)
    BY <1>4 DEF Path, Joined
  <2>2. /\ p \in Seq(Records) /\ Len(p) = Len(w) + Len(a)
        /\ \A i \in 1..Len(w) : p[i] = w[i]
        /\ \A i \in 1..Len(a) : a[i] = p[Len(w) + i]
    BY <1>1, <2>1, JoinedCount
  <2>3. /\ q \in Seq(Records) /\ Len(q) = Len(w) + Len(b)
        /\ \A i \in 1..Len(w) : q[i] = w[i]
        /\ \A i \in 1..Len(b) : b[i] = q[Len(w) + i]
    BY <1>1, <2>1, JoinedCount
  <2>4. ASSUME NEW i \in 1..Len(p) PROVE q[i] = p[i]
    <3>1. CASE i \in 1..Len(w)
      BY <2>2, <2>3, <3>1
    <3>2. CASE i \notin 1..Len(w)
      <4>1. i - Len(w) \in 1..Len(a) /\ i - Len(w) \in 1..Len(b) /\ Len(w) + (i - Len(w)) = i
        BY <1>1, <1>2, <2>2, <3>2
      <4> DEFINE j == i - Len(w)
      <4>2. j \in 1..Len(a) /\ j \in 1..Len(b) /\ Len(w) + j = i
        BY <4>1
      <4> HIDE DEF j
      <4>3. a[j] = p[i] /\ b[j] = q[i] /\ b[j] = a[j]
        BY <1>1, <2>2, <2>3, <4>2
      <4> QED
        BY <4>3
    <3> QED
      BY <3>1, <3>2
  <2>5. ASSUME NEW i \in (Len(p) + 1)..Len(q)
        PROVE  i - Len(w) \in (Len(a) + 1)..Len(b) /\ q[i] = b[i - Len(w)]
    <3>1. /\ i - Len(w) \in (Len(a) + 1)..Len(b) /\ i - Len(w) \in 1..Len(b)
          /\ Len(w) + (i - Len(w)) = i
      BY <1>1, <1>2, <2>2, <2>3
    <3> QED
      BY <2>3, <3>1
  <2>6. Len(p) <= Len(q) /\ Len(q) = Len(p) + (Len(b) - Len(a))
    BY <1>1, <1>2, <2>2, <2>3
  <2>7. Starts(p, q)
    BY <2>2, <2>3, <2>4, <2>6 DEF Starts
  <2> QED
    BY <1>4, <2>5, <2>6, <2>7 DEF Longer
<1> QED
  BY <1>3, <1>4

LEMMA GrowsCount ==
  ASSUME NEW a \in Seq(Records), NEW b \in Seq(Records), Grows(a, b)
  PROVE  /\ Starts(a, b) /\ DataTo(b, Len(b)) = DataTo(a, Len(a))
         /\ \A i \in 1..Len(b) : b[i] = "CloseNotify" => i \in 1..Len(a) /\ a[i] = "CloseNotify"
<1> DEFINE k == Len(b) - Len(a)
           x == [i \in 1..k |-> b[Len(a) + i]]
<1>1. Starts(a, b)
  BY DEF Starts, Grows
<1>2. Len(a) \in Nat /\ Len(b) \in Nat /\ Len(a) <= Len(b)
  BY DEF Grows
<1>3. k \in Nat /\ Len(b) = Len(a) + k
  BY <1>2
<1>4. \A i \in 1..k : x[i] = b[Len(a) + i] /\ Len(a) + i \in (Len(a) + 1)..Len(b)
  BY <1>2, <1>3
<1> HIDE DEF k, x
<1>5. \A i \in 1..k : x[i] # "Data"
  BY <1>4 DEF Grows, Quiet
<1>6. DataTo(x, k) = 0 /\ DataTo(x, k) \in Nat
  BY <1>3, <1>5, DataToNone, DataToType
<1>7. Adjoins(b, Len(a), x, k)
  BY <1>4 DEF Adjoins
<1>8. DataTo(b, Len(b)) = DataTo(a, Len(a)) + DataTo(x, k)
  BY <1>1, <1>3, <1>6, <1>7, StartsSum
<1>9. DataTo(a, Len(a)) \in Nat
  BY <1>2, DataToType
<1>10. ASSUME NEW i \in 1..Len(b), b[i] = "CloseNotify"
       PROVE  i \in 1..Len(a) /\ a[i] = "CloseNotify"
  <2>1. CASE i \in (Len(a) + 1)..Len(b)
    BY <1>10, <2>1 DEF Grows, Quiet
  <2>2. CASE i \in 1..Len(a)
    BY <1>10, <2>2 DEF Grows
  <2> QED
    BY <1>2, <2>1, <2>2
<1> QED
  BY <1>1, <1>6, <1>8, <1>9, <1>10

\* The parties of one direction and what they keep of it.
Parties(sender, wire, lost, receiver, accepted, log) ==
  /\ SessionSound(sender) /\ SessionSound(receiver) /\ wire \in Seq(Records)
  /\ lost \in BOOLEAN /\ accepted \in Nat /\ log.read \in Nat /\ log.clean \in BOOLEAN

LEMMA PartyFields ==
  ASSUME NEW S, NEW W, NEW L, NEW R, NEW A, NEW G, Parties(S, W, L, R, A, G)
  PROVE  /\ S.tls.sendable \in Seq(Records) /\ W \in Seq(Records) /\ L \in BOOLEAN /\ A \in Nat
         /\ G.read \in Nat /\ G.clean \in BOOLEAN /\ R.tls.plaintext \in Nat
         /\ DataTo(W, Len(W)) \in Nat
         /\ DataTo(S.tls.sendable, Len(S.tls.sendable)) \in Nat
         /\ G.read + R.tls.plaintext \in Nat
         /\ Path(S.tls.sendable, W, L) \in Seq(Records)
<1>1. /\ S.tls.sendable \in Seq(Records) /\ W \in Seq(Records) /\ L \in BOOLEAN /\ A \in Nat
      /\ G.read \in Nat /\ G.clean \in BOOLEAN /\ R.tls.plaintext \in Nat
  BY SessionFields DEF Parties
<1>2. Len(W) \in Nat /\ Len(S.tls.sendable) \in Nat /\ G.read + R.tls.plaintext \in Nat
  BY <1>1
<1>3. DataTo(W, Len(W)) \in Nat /\ DataTo(S.tls.sendable, Len(S.tls.sendable)) \in Nat
  BY <1>2, DataToType
<1>4. Path(S.tls.sendable, W, L) \in Seq(Records)
  BY <1>1, PathFields
<1> QED
  BY <1>1, <1>2, <1>3, <1>4

\* The sender added records of its own, the receiver did something else.
LEMMA FlowGrows ==
  ASSUME NEW S, NEW W, NEW L, NEW R, NEW A, NEW G, Parties(S, W, L, R, A, G),
         Flow(S, W, L, R, A, G), NEW T, SessionSound(T),
         Grows(S.tls.sendable, T.tls.sendable), T.closeNotifySent = S.closeNotifySent
  PROVE  Flow(T, W, L, R, A, G)
<1> DEFINE a == S.tls.sendable
           b == T.tls.sendable
           p == Path(a, W, L)
           q == Path(b, W, L)
           sum == G.read + R.tls.plaintext
<1>1. /\ a \in Seq(Records) /\ b \in Seq(Records) /\ W \in Seq(Records) /\ L \in BOOLEAN
      /\ A \in Nat /\ sum \in Nat
  BY PartyFields, SessionFields
<1>2. /\ Starts(a, b) /\ DataTo(b, Len(b)) = DataTo(a, Len(a))
      /\ \A i \in 1..Len(b) : b[i] = "CloseNotify" => i \in 1..Len(a) /\ a[i] = "CloseNotify"
  BY <1>1, GrowsCount
<1>3. ASSUME MayIngest(R) PROVE Exact(q, L, sum, A)
  <2>1. Exact(p, L, sum, A)
    BY <1>3 DEF Flow
  <2>2. /\ Starts(p, q)
        /\ \A i \in (Len(p) + 1)..Len(q) : i - Len(W) \in (Len(a) + 1)..Len(b) /\ q[i] = b[i - Len(W)]
    <3>1. p = Path(a, W, L) /\ q = Path(b, W, L)
      OBVIOUS
    <3> HIDE DEF a, b, p, q
    <3>2. Longer(p, q, a, b, W, L)
      BY <1>1, <1>2, <3>1, PathStarts
    <3> QED
      BY <3>2 DEF Longer
  <2> HIDE DEF p, q, sum
  <2>3. \A i \in (Len(p) + 1)..Len(q) : q[i] \in Quiet
    BY <2>2 DEF Grows
  <2> QED
    BY <1>1, <2>1, <2>2, <2>3, ExactGrows
<1>4. \A i \in 1..Len(b) : b[i] = "CloseNotify" => T.closeNotifySent
  BY <1>2 DEF Flow
<1> HIDE DEF p, q
<1> QED
  BY <1>2, <1>3, <1>4 DEF Flow, q

\* The receiver did something else than reading or ingesting.
LEMMA FlowHears ==
  ASSUME NEW S, NEW W, NEW L, NEW R, NEW A, NEW G, Flow(S, W, L, R, A, G), NEW Q, Hears(R, Q)
  PROVE  Flow(S, W, L, Q, A, G)
  BY DEF Flow, Hears

\* The sender's owner wrote.
LEMMA FlowWrites ==
  ASSUME NEW S, NEW W, NEW L, NEW R, NEW A, NEW G, Parties(S, W, L, R, A, G),
         Flow(S, W, L, R, A, G), NEW T, SessionSound(T), NEW k \in Nat,
         T.tls.sendable = S.tls.sendable \o [i \in 1..k |-> "Data"],
         ~S.closeNotifySent, T.closeNotifySent = S.closeNotifySent
  PROVE  Flow(T, W, L, R, A + k, G)
<1> DEFINE a == S.tls.sendable
           b == T.tls.sendable
           x == [i \in 1..k |-> "Data"]
           p == Path(a, W, L)
           q == Path(b, W, L)
           sum == G.read + R.tls.plaintext
<1>1. /\ a \in Seq(Records) /\ b \in Seq(Records) /\ W \in Seq(Records) /\ L \in BOOLEAN
      /\ A \in Nat /\ sum \in Nat /\ DataTo(W, Len(W)) \in Nat /\ DataTo(a, Len(a)) \in Nat
      /\ p \in Seq(Records) /\ G.read \in Nat /\ R.tls.plaintext \in Nat
  BY PartyFields, SessionFields
<1>2. /\ x \in Seq(Records) /\ Len(x) = k /\ \A i \in 1..k : x[i] = "Data"
  BY DEF Records
<1>3. Joined(a, x, b)
  BY DEF Joined
<1> HIDE DEF a, b, x, p, q, sum
<1>4. /\ Len(b) = Len(a) + k /\ Len(a) \in Nat
      /\ \A i \in 1..Len(a) : b[i] = a[i]
      /\ \A i \in 1..k : x[i] = b[Len(a) + i]
      /\ DataTo(b, Len(b)) = DataTo(a, Len(a)) + DataTo(x, k)
  <2>1. Adds(a, x, b)
    BY <1>1, <1>2, <1>3, JoinedAdds
  <2> QED
    BY <1>2, <2>1 DEF Adds
<1>5. DataTo(x, k) = k
  BY <1>2, DataToAll
<1>6. Starts(a, b)
  BY <1>1, <1>4 DEF Starts
<1>7. \A i \in (Len(a) + 1)..Len(b) : b[i] = "Data"
  <2>1. \A i \in (Len(a) + 1)..Len(b) : i - Len(a) \in 1..k /\ Len(a) + (i - Len(a)) = i
    BY <1>4
  <2> QED
    BY <1>2, <1>4, <2>1
<1>8. (\A i \in 1..Len(W) : W[i] # "CloseNotify") /\ (\A i \in 1..Len(a) : a[i] # "CloseNotify")
  BY DEF Flow, a
<1>9. \A i \in 1..Len(b) : b[i] # "CloseNotify"
  <2>1. \A i \in 1..Len(b) : i \in 1..Len(a) \/ i \in (Len(a) + 1)..Len(b)
    BY <1>4
  <2> QED
    BY <1>4, <1>7, <1>8, <2>1
<1>10. ASSUME MayIngest(R) PROVE Exact(q, L, sum, A + k)
  <2>1. Exact(p, L, sum, A)
    BY <1>10 DEF Flow, p, sum, a
  <2>2. Longer(p, q, a, b, W, L)
    BY <1>1, <1>6, PathStarts DEF p, q
  <2>3. Starts(p, q) /\ Len(q) = IF L THEN Len(p) ELSE Len(p) + k
    BY <1>4, <2>2 DEF Longer
  <2>4. \A i \in (Len(p) + 1)..Len(q) : q[i] = "Data"
    BY <1>7, <2>2 DEF Longer
  <2>5. \A i \in 1..Len(p) : p[i] # "CloseNotify"
    <3>1. CASE L
      BY <1>8, <3>1 DEF p, Path
    <3>2. CASE ~L
      <4>1. Joined(W, a, p)
        BY <3>2 DEF p, Path, Joined
      <4>2. /\ Len(p) = Len(W) + Len(a) /\ Len(W) \in Nat
            /\ \A i \in 1..Len(W) : p[i] = W[i]
            /\ \A i \in 1..Len(a) : a[i] = p[Len(W) + i]
        BY <1>1, <4>1, JoinedCount
      <4>3. ASSUME NEW i \in 1..Len(p) PROVE p[i] # "CloseNotify"
        <5>1. CASE i \in 1..Len(W)
          BY <1>8, <4>2, <5>1
        <5>2. CASE i \notin 1..Len(W)
          <6>1. i - Len(W) \in 1..Len(a) /\ Len(W) + (i - Len(W)) = i
            BY <1>4, <4>2, <5>2
          <6> QED
            BY <1>8, <4>2, <6>1
        <5> QED
          BY <5>1, <5>2
      <4> QED
        BY <4>3
    <3> QED
      BY <3>1, <3>2
  <2> QED
    BY <1>1, <2>1, <2>3, <2>4, <2>5, ExactWrites
<1>11. G.read + R.tls.plaintext + DataTo(W, Len(W)) + DataTo(b, Len(b)) <= A + k
  <2> DEFINE w == DataTo(W, Len(W))
             d == DataTo(a, Len(a))
             e == DataTo(b, Len(b))
             g == G.read
             r == R.tls.plaintext
  <2>1. g + r + w + d <= A
    BY DEF Flow, a
  <2>2. g \in Nat /\ r \in Nat /\ w \in Nat /\ d \in Nat /\ A \in Nat /\ e = d + k
    BY <1>1, <1>4, <1>5
  <2> HIDE DEF g, r, w, d, e
  <2>3. g + r + w + e <= A + k
    BY <2>1, <2>2
  <2> QED
    BY <2>3 DEF g, r, w, e
<1>12. ~R.tls.closed /\ ~G.clean
  BY DEF Flow
<1> QED
  BY <1>8, <1>9, <1>10, <1>11, <1>12 DEF Flow, b, q, sum

\* The sender's owner closed its side.
LEMMA FlowCloses ==
  ASSUME NEW S, NEW W, NEW L, NEW R, NEW A, NEW G, Parties(S, W, L, R, A, G),
         Flow(S, W, L, R, A, G), NEW T, SessionSound(T), T.closeNotifySent = TRUE,
         \/ T.tls.sendable = S.tls.sendable
         \/ T.tls.sendable = S.tls.sendable \o <<"CloseNotify">>
  PROVE  Flow(T, W, L, R, A, G)
<1> DEFINE a == S.tls.sendable
           b == T.tls.sendable
           p == Path(a, W, L)
           q == Path(b, W, L)
           sum == G.read + R.tls.plaintext
           x == <<"CloseNotify">>
<1>1. /\ a \in Seq(Records) /\ b \in Seq(Records) /\ W \in Seq(Records) /\ L \in BOOLEAN
      /\ A \in Nat /\ sum \in Nat /\ DataTo(a, Len(a)) \in Nat
  BY PartyFields, SessionFields
<1>2. x \in Seq(Records) /\ Len(x) = 1 /\ x[1] = "CloseNotify"
  BY DEF Records
<1>3. b = a \/ Joined(a, x, b)
  BY DEF Joined
<1> HIDE DEF a, b, x, p, q, sum
<1>4. CASE b = a
  <2>1. T.tls.sendable = S.tls.sendable
    BY <1>4 DEF a, b
  <2> QED
    BY <2>1 DEF Flow
<1>5. CASE Joined(a, x, b)
  <2>1. /\ Len(b) = Len(a) + 1 /\ Len(a) \in Nat
        /\ \A i \in 1..Len(a) : b[i] = a[i]
        /\ \A i \in 1..1 : x[i] = b[Len(a) + i]
        /\ DataTo(b, Len(b)) = DataTo(a, Len(a)) + DataTo(x, 1)
    <3>1. Adds(a, x, b)
      BY <1>1, <1>2, <1>5, JoinedAdds
    <3> QED
      BY <1>2, <3>1 DEF Adds
  <2>2. DataTo(x, 1) = 0
    <3>1. \A i \in 1..1 : x[i] # "Data"
      BY <1>2
    <3> QED
      BY <3>1, DataToNone
  <2>3. Starts(a, b) /\ b[Len(a) + 1] = "CloseNotify"
    BY <1>1, <1>2, <2>1 DEF Starts
  <2>4. ASSUME MayIngest(R) PROVE Exact(q, L, sum, A)
    <3>1. Exact(p, L, sum, A)
      BY <2>4 DEF Flow, p, sum, a
    <3>2. Longer(p, q, a, b, W, L)
      BY <1>1, <2>3, PathStarts DEF p, q
    <3>3. CASE L
      <4>1. q = p
        BY <3>3 DEF p, q, Path
      <4> QED
        BY <3>1, <4>1
    <3>4. CASE ~L
      <4>1. Starts(p, q) /\ Len(q) = Len(p) + 1 /\ L = FALSE
        BY <1>1, <2>1, <3>2, <3>4 DEF Longer
      <4>2. q[Len(p) + 1] = "CloseNotify"
        <5>1. Joined(W, b, q) /\ Joined(W, a, p)
          BY <3>4 DEF p, q, Path, Joined
        <5>2. Len(p) = Len(W) + Len(a) /\ Len(W) \in Nat
          BY <1>1, <5>1, JoinedCount
        <5>3. \A i \in 1..Len(b) : b[i] = q[Len(W) + i]
          BY <1>1, <5>1, JoinedCount
        <5>4. Len(a) + 1 \in 1..Len(b) /\ Len(W) + (Len(a) + 1) = Len(p) + 1
          BY <2>1, <5>2
        <5> QED
          BY <2>3, <5>3, <5>4
      <4>3. Exact(p, FALSE, sum, A)
        BY <3>1, <4>1
      <4> QED
        BY <1>1, <4>1, <4>2, <4>3, ExactCloses
    <3> QED
      BY <3>3, <3>4
  <2>5. DataTo(b, Len(b)) = DataTo(a, Len(a))
    BY <1>1, <1>2, <2>1, <2>2
  <2> QED
    BY <2>4, <2>5 DEF Flow, a, b, q, sum
<1> QED
  BY <1>3, <1>4, <1>5

\* The first n records of a stream.
LEMMA FirstFields ==
  ASSUME NEW q \in Seq(Records), NEW n \in Nat, n <= Len(q)
  PROVE  /\ First(q, n) \in Seq(Records) /\ Len(First(q, n)) = n
         /\ \A i \in 1..n : First(q, n)[i] = q[i] /\ i \in 1..Len(q)
         /\ DataTo(First(q, n), n) = DataTo(q, n)
         /\ DataTo(q, Len(q)) = DataTo(q, n) + DataTo(Rest(q, n), Len(Rest(q, n)))
         /\ DataTo(q, n) \in Nat /\ DataTo(Rest(q, n), Len(Rest(q, n))) \in Nat
<1> DEFINE p == SubSeq(q, 1, n)
           r == Rest(q, n)
<1>1. Len(q) \in Nat /\ \A i \in 1..n : i \in 1..Len(q) /\ q[i] \in Records
  OBVIOUS
<1>2. p \in Seq(Records)
  BY <1>1
<1>3. Len(p) = n
  BY <1>1
<1>4. \A i \in 1..n : p[i] = q[i]
  BY <1>1, <1>3
<1>5. DataTo(p, n) = DataTo(q, n)
  <2> HIDE DEF p
  <2> QED BY <1>4, DataToSame
<1>6. /\ Len(r) = Len(q) - n /\ r \in Seq(Records)
      /\ \A i \in 1..Len(r) : r[i] = q[i + n]
  BY RestFields
<1> HIDE DEF r
<1>7. Adjoins(q, n, r, Len(r)) /\ n + Len(r) = Len(q) /\ Len(r) \in Nat
  <2>1. \A i \in 1..Len(r) : i + n = n + i
    BY <1>6
  <2> QED
    BY <1>1, <1>6, <2>1 DEF Adjoins
<1>8. DataTo(q, n + Len(r)) = DataTo(q, n) + DataTo(r, Len(r))
  BY <1>7, DataToSum
<1>9. DataTo(q, n) \in Nat /\ DataTo(r, Len(r)) \in Nat
  BY <1>7, DataToType
<1> QED
  BY <1>1, <1>2, <1>3, <1>4, <1>5, <1>7, <1>8, <1>9 DEF First, r

\* The path q is p without the first k records of the wire.
Shorter(p, q, w, k) ==
  /\ p \in Seq(Records) /\ q \in Seq(Records)
  /\ Len(p) = k + Len(q) /\ Adjoins(p, k, q, Len(q))
  /\ \A i \in 1..k : p[i] = w[i]

\* The receiver took the first k records of the wire: the path lost them.
LEMMA PathTakes ==
  ASSUME NEW a \in Seq(Records), NEW w \in Seq(Records), NEW k \in Nat, k <= Len(w),
         NEW lost \in BOOLEAN, NEW p, p = Path(a, w, lost), NEW q, q = Path(a, Rest(w, k), lost)
  PROVE  Shorter(p, q, w, k)
<1> USE DEF Shorter
<1> DEFINE v == Rest(w, k)
<1>1. /\ v \in Seq(Records) /\ Len(v) = Len(w) - k /\ Len(w) \in Nat
      /\ \A i \in 1..Len(v) : v[i] = w[i + k] /\ i + k \in 1..Len(w)
  BY RestFields
<1> HIDE DEF v
<1>2. q = Path(a, v, lost)
  BY DEF v
<1>3. Len(v) \in Nat /\ \A i \in 1..k : i \in 1..Len(w)
  BY <1>1
<1>4. CASE lost
  <2>1. p = w /\ q = v
    BY <1>2, <1>4 DEF Path
  <2>2. \A i \in 1..Len(v) : i + k = k + i
    BY <1>3
  <2> QED
    BY <1>1, <1>3, <2>1, <2>2 DEF Adjoins
<1>5. CASE ~lost
  <2>1. Joined(w, a, p) /\ Joined(v, a, q)
    BY <1>2, <1>5 DEF Path, Joined
  <2>2. /\ p \in Seq(Records) /\ Len(p) = Len(w) + Len(a) /\ Len(a) \in Nat
        /\ \A i \in 1..Len(w) : p[i] = w[i]
        /\ \A i \in 1..Len(a) : a[i] = p[Len(w) + i]
    BY <2>1, JoinedCount
  <2>3. /\ q \in Seq(Records) /\ Len(q) = Len(v) + Len(a)
        /\ \A i \in 1..Len(v) : q[i] = v[i]
        /\ \A i \in 1..Len(a) : a[i] = q[Len(v) + i]
    <3>1. Adds(v, a, q)
      BY <1>1, <2>1, JoinedAdds
    <3>2. q \in Seq(Records)
      BY <1>1, <2>1 DEF Joined
    <3> QED
      BY <3>1, <3>2 DEF Adds
  <2>4. ASSUME NEW i \in 1..Len(q) PROVE q[i] = p[k + i]
    <3>1. CASE i \in 1..Len(v)
      <4>1. k + i = i + k /\ k + i \in 1..Len(w)
        BY <1>1, <3>1
      <4>2. q[i] = v[i]
        BY <2>3, <3>1
      <4>3. v[i] = w[k + i]
        BY <1>1, <3>1, <4>1
      <4>4. p[k + i] = w[k + i]
        BY <2>2, <4>1
      <4> QED
        BY <4>2, <4>3, <4>4
    <3>2. CASE i \notin 1..Len(v)
      <4>1. i - Len(v) \in 1..Len(a) /\ Len(v) + (i - Len(v)) = i /\ Len(w) + (i - Len(v)) = k + i
        BY <1>1, <1>3, <2>2, <2>3, <3>2
      <4>2. a[i - Len(v)] = p[Len(w) + (i - Len(v))]
        BY <2>2, <4>1
      <4>3. a[i - Len(v)] = q[Len(v) + (i - Len(v))]
        BY <2>3, <4>1
      <4> QED
        BY <4>1, <4>2, <4>3
    <3> QED
      BY <3>1, <3>2
  <2>5. Len(p) = k + Len(q)
    BY <1>1, <1>3, <2>2, <2>3
  <2> QED
    BY <1>3, <2>2, <2>3, <2>4, <2>5 DEF Adjoins
<1> QED
  BY <1>4, <1>5

\* The receiver ingested.
LEMMA FlowIngests ==
  ASSUME NEW S, NEW W, NEW L, NEW R, NEW A, NEW G, Parties(S, W, L, R, A, G),
         Flow(S, W, L, R, A, G), MayIngest(R), NEW k \in Nat, k <= Len(W),
         NEW Q, SessionSound(Q), Took(R.tls, Q.tls, First(W, k), k),
         MayIngest(Q) => ~Q.tls.closed /\ ~Q.tls.failed
  PROVE  Flow(S, Rest(W, k), L, Q, A, G)
<1> DEFINE a == S.tls.sendable
           V == Rest(W, k)
           f == First(W, k)
           p == Path(a, W, L)
           q == Path(a, V, L)
           sum == G.read + R.tls.plaintext
           new == G.read + Q.tls.plaintext
<1>1. /\ a \in Seq(Records) /\ W \in Seq(Records) /\ L \in BOOLEAN /\ A \in Nat
      /\ G.read \in Nat /\ R.tls.plaintext \in Nat /\ Q.tls.plaintext \in Nat
      /\ sum \in Nat /\ DataTo(a, Len(a)) \in Nat
  BY PartyFields, SessionFields
<1>2. /\ V \in Seq(Records) /\ Len(V) = Len(W) - k /\ Len(W) \in Nat
      /\ \A i \in 1..Len(V) : V[i] = W[i + k] /\ i + k \in 1..Len(W)
  BY <1>1, RestFields
<1>3. /\ \A i \in 1..k : f[i] = W[i] /\ i \in 1..Len(W)
      /\ DataTo(f, k) = DataTo(W, k)
      /\ DataTo(W, Len(W)) = DataTo(W, k) + DataTo(V, Len(V))
      /\ DataTo(W, k) \in Nat /\ DataTo(V, Len(V)) \in Nat
  BY <1>1, FirstFields
<1>4. /\ p \in Seq(Records) /\ q \in Seq(Records)
      /\ Len(p) = k + Len(q) /\ Adjoins(p, k, q, Len(q))
      /\ \A i \in 1..k : p[i] = W[i]
  <2>1. p = Path(a, W, L) /\ q = Path(a, Rest(W, k), L)
    OBVIOUS
  <2> HIDE DEF a, p, q, V, f, sum, new
  <2>2. Shorter(p, q, W, k)
    BY <1>1, <2>1, PathTakes
  <2> QED
    BY <2>2 DEF Shorter
<1>5. Exact(p, L, sum, A)
  BY DEF Flow
<1> HIDE DEF V, f, p, q
<1>6. /\ Q.tls.plaintext <= R.tls.plaintext + DataTo(W, k)
      /\ ~Q.tls.closed /\ ~Q.tls.failed =>
           WholeTo(f, k) /\ Q.tls.plaintext = R.tls.plaintext + DataTo(W, k)
      /\ Q.tls.closed => \E c \in 1..k : /\ f[c] = "CloseNotify" /\ WholeTo(f, c - 1)
                                         /\ Q.tls.plaintext = R.tls.plaintext + DataTo(f, c - 1)
  BY <1>3 DEF Took, f
<1>7. new + DataTo(V, Len(V)) + DataTo(a, Len(a)) <= A
  <2>1. sum + DataTo(W, Len(W)) + DataTo(a, Len(a)) <= A
    BY DEF Flow
  <2> DEFINE d == DataTo(W, k)
             v == DataTo(V, Len(V))
             w == DataTo(W, Len(W))
             e == DataTo(a, Len(a))
             g == G.read
             r == R.tls.plaintext
             u == Q.tls.plaintext
  <2>2. d \in Nat /\ v \in Nat /\ e \in Nat /\ g \in Nat /\ r \in Nat /\ u \in Nat
    BY <1>1, <1>3
  <2>3. w = d + v
    BY <1>3
  <2>4. u <= r + d
    BY <1>6
  <2>5. g + r + w + e <= A
    BY <2>1
  <2> HIDE DEF d, v, w, e, g, r, u
  <2>6. g + u + v + e <= A
    BY <1>1, <2>2, <2>3, <2>4, <2>5
  <2> QED
    BY <2>6 DEF v, e, g, u
<1>8. \A i \in 1..Len(V) : V[i] = "CloseNotify" => S.closeNotifySent
  BY <1>2 DEF Flow
<1>9. ASSUME Q.tls.closed PROVE S.closeNotifySent /\ new = A
  <2>1. PICK c \in 1..k : /\ f[c] = "CloseNotify" /\ WholeTo(f, c - 1)
                          /\ Q.tls.plaintext = R.tls.plaintext + DataTo(f, c - 1)
    BY <1>6, <1>9
  <2>2. c - 1 \in Nat /\ \A i \in 1..(c - 1) : i \in 1..k
    OBVIOUS
  <2>3. W[c] = "CloseNotify" /\ c \in 1..Len(W) /\ p[c] = "CloseNotify"
    BY <1>3, <1>4, <2>1
  <2>4. \A i \in 1..(c - 1) : f[i] = p[i]
    BY <1>3, <1>4, <2>2
  <2>5. DataTo(f, c - 1) = DataTo(p, c - 1) /\ WholeTo(p, c - 1) /\ DataTo(f, c - 1) \in Nat
    <3>1. DataTo(f, c - 1) = DataTo(p, c - 1)
      BY <2>2, <2>4, DataToSame
    <3>2. DataTo(f, c - 1) \in Nat
      BY <2>2, DataToType
    <3> QED
      BY <2>1, <2>4, <3>1, <3>2 DEF WholeTo
  <2>6. c \in 1..Len(p)
    <3>1. Len(q) \in Nat
      BY <1>4
    <3> QED
      BY <1>4, <3>1
  <2>7. sum + DataTo(p, c - 1) = A
    BY <1>5, <2>3, <2>5, <2>6 DEF Exact
  <2>8. S.closeNotifySent
    BY <2>3 DEF Flow
  <2> DEFINE d == DataTo(f, c - 1)
             g == G.read
             r == R.tls.plaintext
  <2>9. /\ d \in Nat /\ g \in Nat /\ r \in Nat /\ g + r + d = A /\ Q.tls.plaintext = r + d
    BY <1>1, <2>1, <2>5, <2>7
  <2>10. g + (r + d) = A
    <3> HIDE DEF d, g, r
    <3> QED
      BY <2>9
  <2> QED
    BY <2>8, <2>9, <2>10
<1>10. ASSUME MayIngest(Q) PROVE Exact(q, L, new, A)
  <2>1. WholeTo(f, k) /\ Q.tls.plaintext = R.tls.plaintext + DataTo(W, k)
    BY <1>6, <1>10
  <2>2. \A i \in 1..k : f[i] = p[i]
    BY <1>3, <1>4
  <2>3. WholeTo(p, k)
    BY <2>1, <2>2 DEF WholeTo
  <2>4. DataTo(f, k) = DataTo(p, k)
    BY <2>2, DataToSame
  <2>5. new = sum + DataTo(p, k)
    <3>1. DataTo(p, k) = DataTo(W, k)
      BY <1>3, <2>4
    <3>2. G.read + (R.tls.plaintext + DataTo(W, k)) = (G.read + R.tls.plaintext) + DataTo(W, k)
      <4> DEFINE g == G.read
                 r == R.tls.plaintext
                 d == DataTo(W, k)
      <4>1. g \in Nat /\ r \in Nat /\ d \in Nat
        BY <1>1, <1>3
      <4> HIDE DEF g, r, d
      <4>2. g + (r + d) = (g + r) + d
        BY <4>1
      <4> QED
        BY <4>2 DEF g, r, d
    <3> QED
      BY <2>1, <3>1, <3>2
  <2> HIDE DEF sum, new
  <2>6. Exact(q, L, sum + DataTo(p, k), A)
    BY <1>1, <1>4, <1>5, <2>3, ExactTakes
  <2> QED
    BY <2>5, <2>6
<1>11. G.clean => S.closeNotifySent /\ G.read = A
  BY DEF Flow
<1>12. \A i \in 1..Len(a) : a[i] = "CloseNotify" => S.closeNotifySent
  BY DEF Flow
<1> QED
  BY <1>7, <1>8, <1>9, <1>10, <1>11, <1>12 DEF Flow, V, q

\* The receiver's owner read.
LEMMA FlowReads ==
  ASSUME NEW S, NEW W, NEW L, NEW R, NEW A, NEW G, Parties(S, W, L, R, A, G),
         Flow(S, W, L, R, A, G), EnsureProgressing(R), G \in [accepted : Nat, read : Nat, clean : BOOLEAN]
  PROVE  Flow(S, W, L, ReadSession(R), A, AfterRead(R, G))
<1> DEFINE Q == ReadSession(R)
           H == AfterRead(R, G)
<1>1. /\ SessionSound(R) /\ G.read \in Nat /\ R.tls.plaintext \in Nat
      /\ Q.tls.plaintext \in Nat \/ Q.tls = R.tls
  <2>1. SessionSound(R) /\ SessionSound(Q)
    BY ReadSound DEF Parties
  <2> QED
    BY <2>1, PartyFields, SessionFields
<1>2. /\ SessionSound(Q)
      /\ PlaintextAnswer(R) = "Bytes" =>
           /\ R.tls.plaintext > 0 /\ Q.tls.plaintext = R.tls.plaintext - 1
           /\ Q.tls.closed = R.tls.closed /\ Q.failure = R.failure
           /\ MayIngest(Q) => MayIngest(R)
      /\ PlaintextAnswer(R) # "Bytes" => Hears(R, Q)
      /\ PlaintextAnswer(R) = "Eof" => R.tls.closed /\ R.tls.plaintext = 0
  BY <1>1, ReadSound
<1> HIDE DEF Q
<1>3. CASE PlaintextAnswer(R) = "Bytes"
  <2>1. H = [G EXCEPT !.read = G.read + 1]
    BY <1>3 DEF AfterRead
  <2>2. H.read = G.read + 1 /\ H.clean = G.clean
    BY <2>1
  <2>3. H.read + Q.tls.plaintext = G.read + R.tls.plaintext
    BY <1>1, <1>2, <1>3, <2>2
  <2>4. ~G.clean
    <3>1. G.clean => S.closeNotifySent /\ G.read = A
      BY DEF Flow
    <3>2. /\ G.read + R.tls.plaintext + DataTo(W, Len(W))
               + DataTo(S.tls.sendable, Len(S.tls.sendable)) <= A
      BY DEF Flow
    <3>3. /\ DataTo(W, Len(W)) \in Nat /\ DataTo(S.tls.sendable, Len(S.tls.sendable)) \in Nat
          /\ A \in Nat
      BY PartyFields
    <3>4. R.tls.plaintext > 0
      BY <1>2, <1>3
    <3> QED
      BY <1>1, <3>1, <3>2, <3>3, <3>4
  <2> HIDE DEF H
  <2> QED
    BY <1>2, <1>3, <2>2, <2>3, <2>4 DEF Flow, Q, H
<1>4. CASE PlaintextAnswer(R) = "Eof"
  <2>1. H = [G EXCEPT !.clean = TRUE]
    BY <1>4 DEF AfterRead
  <2>2. H.read = G.read /\ H.clean = TRUE
    BY <2>1
  <2>3. Flow(S, W, L, Q, A, G)
    BY <1>2, <1>4, FlowHears
  <2>4. S.closeNotifySent /\ G.read = A
    BY <1>1, <1>2, <1>4 DEF Flow, EnsureProgressing
  <2> HIDE DEF H
  <2> QED
    BY <2>2, <2>3, <2>4 DEF Flow, Q, H
<1>5. CASE PlaintextAnswer(R) \notin {"Bytes", "Eof"}
  <2>1. H = G
    BY <1>5 DEF AfterRead
  <2> QED
    BY <1>2, <1>5, <2>1, FlowHears DEF Q
<1> QED
  BY <1>3, <1>4, <1>5

\* What is drained enters the wire, unless the wire was cut.
Enters(v, w, lost, f) == v = IF lost THEN w ELSE w \o f

\* The sender's owner drained.
LEMMA FlowDrains ==
  ASSUME NEW S, NEW W, NEW L, NEW R, NEW A, NEW G, Parties(S, W, L, R, A, G),
         Flow(S, W, L, R, A, G), NEW k \in Nat, k <= Len(S.tls.sendable),
         NEW T, SessionSound(T), T.tls.sendable = Rest(S.tls.sendable, k),
         T.closeNotifySent = S.closeNotifySent,
         NEW V, Enters(V, W, L, First(S.tls.sendable, k))
  PROVE  V \in Seq(Records) /\ Flow(T, V, L, R, A, G)
<1> DEFINE a == S.tls.sendable
           b == T.tls.sendable
           f == First(a, k)
           wl == DataTo(W, Len(W))
           vl == DataTo(V, Len(V))
           al == DataTo(a, Len(a))
           bl == DataTo(b, Len(b))
           sum == G.read + R.tls.plaintext
<1>1. /\ a \in Seq(Records) /\ W \in Seq(Records) /\ L \in BOOLEAN
      /\ A \in Nat /\ sum \in Nat /\ wl \in Nat /\ al \in Nat
      /\ sum + wl + al <= A
  BY PartyFields DEF Flow
<1>2. b = Rest(a, k) /\ k <= Len(a)
  OBVIOUS
<1> HIDE DEF a, b
<1>3. /\ b \in Seq(Records) /\ Len(b) = Len(a) - k /\ Len(a) \in Nat
      /\ \A i \in 1..Len(b) : b[i] = a[i + k] /\ i + k \in 1..Len(a)
  BY <1>1, <1>2, RestFields
<1>4. /\ f \in Seq(Records) /\ Len(f) = k
      /\ \A i \in 1..k : f[i] = a[i] /\ i \in 1..Len(a)
      /\ DataTo(f, k) = DataTo(a, k)
      /\ al = DataTo(a, k) + bl
      /\ DataTo(a, k) \in Nat /\ bl \in Nat
  BY <1>1, <1>2, FirstFields
<1> HIDE DEF f
<1>5. \A i \in 1..Len(a) : a[i] = "CloseNotify" => S.closeNotifySent
  BY DEF Flow, a
<1>6. \A i \in 1..Len(b) : b[i] = "CloseNotify" => T.closeNotifySent
  BY <1>3, <1>5
<1>7. CASE L
  <2>1. V = W
    BY <1>7 DEF Enters
  <2>2. sum + wl + bl <= A
    <3> HIDE DEF wl, al, bl, sum
    <3> QED BY <1>1, <1>4
  <2>3. Path(b, V, L) = Path(a, W, L)
    BY <1>7, <2>1 DEF Path
  <2> QED
    BY <1>1, <1>6, <2>1, <2>2, <2>3 DEF Flow, a, b
<1>8. CASE ~L
  <2>1. Joined(W, f, V)
    BY <1>8 DEF Joined, Enters, f, a
  <2>2. Adds(W, f, V) /\ V \in Seq(Records)
    <3>1. Adds(W, f, V)
      BY <1>1, <1>4, <2>1, JoinedAdds
    <3>2. V \in Seq(Records)
      BY <1>1, <1>4, <2>1, JoinedType
    <3> QED
      BY <3>1, <3>2
  <2>3. /\ Len(V) = Len(W) + k /\ Len(W) \in Nat
        /\ \A i \in 1..Len(W) : V[i] = W[i]
        /\ \A i \in 1..k : f[i] = V[Len(W) + i]
        /\ vl = wl + DataTo(a, k)
    BY <1>4, <2>2 DEF Adds
  <2>4. sum + vl + bl <= A
    <3> DEFINE d == DataTo(a, k)
    <3>1. d \in Nat /\ al = d + bl /\ bl \in Nat /\ vl = wl + d
      BY <1>4, <2>3
    <3> HIDE DEF wl, al, bl, vl, sum, d
    <3> QED BY <1>1, <3>1
  <2>5. ASSUME NEW i \in 1..Len(V), V[i] = "CloseNotify" PROVE S.closeNotifySent
    <3>1. CASE i \in 1..Len(W)
      BY <2>3, <2>5, <3>1 DEF Flow
    <3>2. CASE i \notin 1..Len(W)
      <4>1. i - Len(W) \in 1..k /\ Len(W) + (i - Len(W)) = i
        BY <2>3, <3>2
      <4>2. a[i - Len(W)] = "CloseNotify" /\ i - Len(W) \in 1..Len(a)
        BY <1>4, <2>3, <2>5, <4>1
      <4> QED
        BY <1>5, <4>2
    <3> QED
      BY <3>1, <3>2
  <2>6. Path(b, V, L) = Path(a, W, L)
    <3> DEFINE p == Path(a, W, L)
               q == Path(b, V, L)
    <3>1. Joined(W, a, p) /\ Joined(V, b, q)
      BY <1>8 DEF Path, Joined
    <3> HIDE DEF p, q
    <3>2. Adds(W, a, p) /\ Adds(V, b, q) /\ p \in Seq(Records) /\ q \in Seq(Records)
      <4>1. Adds(W, a, p) /\ Adds(V, b, q)
        BY <1>1, <1>3, <2>2, <3>1, JoinedAdds
      <4>2. p \in Seq(Records) /\ q \in Seq(Records)
        BY <1>1, <1>3, <2>2, <3>1 DEF Joined
      <4> QED
        BY <4>1, <4>2
    <3>3. /\ Len(p) = Len(W) + Len(a)
          /\ \A i \in 1..Len(W) : p[i] = W[i]
          /\ \A i \in 1..Len(a) : a[i] = p[Len(W) + i]
      BY <3>2 DEF Adds
    <3>4. /\ Len(q) = Len(V) + Len(b)
          /\ \A i \in 1..Len(V) : q[i] = V[i]
          /\ \A i \in 1..Len(b) : b[i] = q[Len(V) + i]
      BY <3>2 DEF Adds
    <3>5. Len(p) = Len(q)
      BY <1>3, <2>3, <3>3, <3>4
    <3>6. ASSUME NEW i \in 1..Len(p) PROVE p[i] = q[i]
      <4>1. CASE i \in 1..Len(W)
        <5>1. i \in 1..Len(V)
          BY <2>3, <4>1
        <5> QED
          BY <2>3, <3>3, <3>4, <4>1, <5>1
      <4>2. CASE i \in (Len(W) + 1)..Len(V)
        <5>1. /\ i - Len(W) \in 1..k /\ Len(W) + (i - Len(W)) = i /\ i \in 1..Len(V)
              /\ i - Len(W) \in 1..Len(a)
          BY <1>2, <1>3, <2>3, <4>2
        <5>2. p[i] = a[i - Len(W)]
          BY <3>3, <5>1
        <5>3. q[i] = V[i] /\ V[i] = f[i - Len(W)]
          BY <2>3, <3>4, <5>1
        <5>4. f[i - Len(W)] = a[i - Len(W)]
          BY <1>4, <5>1
        <5> QED
          BY <5>2, <5>3, <5>4
      <4>3. CASE i \in (Len(V) + 1)..Len(p)
        <5>1. /\ i - Len(V) \in 1..Len(b) /\ Len(V) + (i - Len(V)) = i
              /\ (i - Len(V)) + k = i - Len(W)
              /\ i - Len(W) \in 1..Len(a) /\ Len(W) + (i - Len(W)) = i
          <6> DEFINE n == Len(W)
                     m == Len(a)
          <6>1. n \in Nat /\ m \in Nat /\ k <= m /\ Len(V) = n + k /\ Len(b) = m - k
            BY <1>2, <1>3, <2>3
          <6>2. i \in (n + k + 1)..(n + m)
            BY <2>3, <3>3, <4>3
          <6> HIDE DEF n, m
          <6>3. /\ i - (n + k) \in 1..(m - k) /\ (n + k) + (i - (n + k)) = i
                /\ (i - (n + k)) + k = i - n
                /\ i - n \in 1..m /\ n + (i - n) = i
            BY <6>1, <6>2
          <6> QED
            BY <6>1, <6>3 DEF n, m
        <5>2. b[i - Len(V)] = a[i - Len(W)]
          BY <1>3, <5>1
        <5> QED
          BY <3>3, <3>4, <5>1, <5>2
      <4> QED
        BY <1>2, <1>3, <2>3, <3>3, <4>1, <4>2, <4>3
    <3>7. p = q
      BY <3>2, <3>5, <3>6, SeqEqual
    <3> QED
      BY <3>7 DEF p, q
  <2> QED
    BY <1>6, <2>2, <2>4, <2>5, <2>6 DEF Flow, a, b
<1> QED
  BY <1>1, <1>7, <1>8

\* The stream was cut: what the sender has is not on its way any more.
LEMMA FlowCut ==
  ASSUME NEW S, NEW W, NEW L, NEW R, NEW A, NEW G, Parties(S, W, L, R, A, G),
         Flow(S, W, L, R, A, G), NEW M, M = TRUE
  PROVE  Flow(S, W, M, R, A, G)
<1> DEFINE a == S.tls.sendable
           p == Path(a, W, M)
           q == Path(a, W, L)
           sum == G.read + R.tls.plaintext
<1>1. a \in Seq(Records) /\ W \in Seq(Records) /\ L \in BOOLEAN
  BY PartyFields
<1>2. p = W
  BY DEF Path
<1>3. /\ q \in Seq(Records) /\ Len(W) <= Len(q) /\ \A i \in 1..Len(W) : q[i] = W[i]
  BY <1>1, PathFields
<1> HIDE DEF a, p, q, sum
<1>4. Starts(p, q)
  BY <1>1, <1>2, <1>3 DEF Starts
<1>5. ASSUME MayIngest(R) PROVE Exact(p, M, sum, A)
  <2>1. Exact(q, L, sum, A)
    BY <1>5 DEF Flow, q, a, sum
  <2>2. Exact(p, TRUE, sum, A)
    BY <1>4, <2>1, ExactPrefix
  <2> QED
    BY <2>2
<1> QED
  BY <1>5 DEF Flow, p, a, sum

\* The last record of a stream that was cut is lost.
LEMMA FlowLoses ==
  ASSUME NEW S, NEW W, NEW L, NEW R, NEW A, NEW G, Parties(S, W, L, R, A, G),
         Flow(S, W, L, R, A, G), L, W # <<>>, NEW V, V = Front(W)
  PROVE  V \in Seq(Records) /\ Len(V) <= Len(W) /\ Flow(S, V, L, R, A, G)
<1> DEFINE n == Len(W) - 1
           wl == DataTo(W, Len(W))
           vl == DataTo(V, Len(V))
           al == DataTo(S.tls.sendable, Len(S.tls.sendable))
           rest == DataTo(Rest(W, n), Len(Rest(W, n)))
           sum == G.read + R.tls.plaintext
<1>1. /\ W \in Seq(Records) /\ L \in BOOLEAN /\ A \in Nat /\ sum \in Nat /\ wl \in Nat /\ al \in Nat
      /\ sum + wl + al <= A
  BY PartyFields DEF Flow
<1>2. Len(W) \in Nat /\ n \in Nat /\ n <= Len(W)
  BY <1>1
<1>3. V = First(W, n)
  BY DEF Front, First
<1> HIDE DEF n
<1>4. /\ V \in Seq(Records) /\ Len(V) = n
      /\ \A i \in 1..n : V[i] = W[i] /\ i \in 1..Len(W)
      /\ DataTo(V, n) = DataTo(W, n) /\ wl = DataTo(W, n) + rest
      /\ DataTo(W, n) \in Nat /\ rest \in Nat
  <2> DEFINE f == First(W, n)
  <2>1. /\ f \in Seq(Records) /\ Len(f) = n
        /\ \A i \in 1..n : f[i] = W[i] /\ i \in 1..Len(W)
        /\ DataTo(f, n) = DataTo(W, n) /\ wl = DataTo(W, n) + rest
        /\ DataTo(W, n) \in Nat /\ rest \in Nat
    BY <1>1, <1>2, FirstFields
  <2>2. V = f
    BY <1>3
  <2> HIDE DEF f
  <2> QED BY <2>1, <2>2
<1>5. sum + vl + al <= A
  <2>1. vl \in Nat /\ wl = vl + rest /\ rest \in Nat
    BY <1>4
  <2> HIDE DEF wl, vl, al, rest, sum
  <2> QED BY <1>1, <2>1
<1>6. Starts(V, W)
  BY <1>1, <1>2, <1>4 DEF Starts
<1>7. ASSUME MayIngest(R) PROVE Exact(Path(S.tls.sendable, V, L), L, sum, A)
  <2>1. Path(S.tls.sendable, W, L) = W /\ Path(S.tls.sendable, V, L) = V /\ L = TRUE
    BY DEF Path
  <2>2. Exact(W, L, sum, A)
    BY <1>7, <2>1 DEF Flow
  <2> HIDE DEF sum
  <2>3. Exact(V, TRUE, sum, A)
    BY <1>6, <2>2, ExactPrefix
  <2> QED
    BY <2>1, <2>3
<1>8. \A i \in 1..Len(V) : V[i] = "CloseNotify" => S.closeNotifySent
  BY <1>4 DEF Flow
<1> QED
  BY <1>2, <1>4, <1>5, <1>7, <1>8 DEF Flow

\* The input of a receiver that takes no more is dropped.
LEMMA FlowDiscards ==
  ASSUME NEW S, NEW W, NEW L, NEW R, NEW A, NEW G, Parties(S, W, L, R, A, G),
         Flow(S, W, L, R, A, G), ~MayIngest(R), NEW V, V = <<>>
  PROVE  V \in Seq(Records) /\ Len(V) = 0 /\ Flow(S, V, L, R, A, G)
<1> DEFINE wl == DataTo(W, Len(W))
           vl == DataTo(V, Len(V))
           al == DataTo(S.tls.sendable, Len(S.tls.sendable))
           sum == G.read + R.tls.plaintext
<1>1. /\ A \in Nat /\ sum \in Nat /\ wl \in Nat /\ al \in Nat
      /\ sum + wl + al <= A
  BY PartyFields DEF Flow
<1>2. V \in Seq(Records) /\ Len(V) = 0 /\ \A i \in 1..Len(V) : FALSE
  OBVIOUS
<1>3. vl = 0
  <2>1. Len(V) \in Nat /\ \A i \in 1..Len(V) : V[i] # "Data"
    BY <1>2
  <2> QED
    BY <2>1, DataToNone
<1>4. sum + vl + al <= A
  <2> HIDE DEF wl, vl, al, sum
  <2> QED BY <1>1, <1>3
<1> QED
  BY <1>2, <1>4 DEF Flow

\* A record in transit is corrupted.
LEMMA FlowSpoils ==
  ASSUME NEW S, NEW W, NEW L, NEW R, NEW A, NEW G, Parties(S, W, L, R, A, G),
         Flow(S, W, L, R, A, G), NEW k \in DOMAIN W, NEW V, V = [W EXCEPT ![k] = "Bad"]
  PROVE  V \in Seq(Records) /\ Len(V) = Len(W) /\ Flow(S, V, L, R, A, G)
<1> DEFINE a == S.tls.sendable
           wl == DataTo(W, Len(W))
           vl == DataTo(V, Len(V))
           al == DataTo(a, Len(a))
           p == Path(a, W, L)
           q == Path(a, V, L)
           sum == G.read + R.tls.plaintext
<1>1. /\ a \in Seq(Records) /\ W \in Seq(Records) /\ L \in BOOLEAN /\ A \in Nat
      /\ sum \in Nat /\ wl \in Nat /\ al \in Nat /\ sum + wl + al <= A
  BY PartyFields DEF Flow
<1>2. /\ V \in Seq(Records) /\ Len(V) = Len(W) /\ Len(W) \in Nat /\ k \in 1..Len(W)
      /\ V[k] = "Bad" /\ \A i \in 1..Len(W) : i # k => V[i] = W[i]
  BY <1>1 DEF Records
<1>3. vl <= wl /\ vl \in Nat
  <2>1. \A i \in 1..Len(V) : V[i] = "Data" => W[i] = "Data"
    BY <1>2
  <2>2. Len(V) \in Nat
    BY <1>2
  <2>3. DataTo(V, Len(V)) <= DataTo(W, Len(V)) /\ DataTo(V, Len(V)) \in Nat
    BY <2>1, <2>2, DataToFewer, DataToType
  <2> QED
    BY <1>2, <2>3
<1>4. sum + vl + al <= A
  <2> HIDE DEF wl, vl, al, sum
  <2> QED BY <1>1, <1>3
<1>5. \A i \in 1..Len(V) : V[i] = "CloseNotify" => S.closeNotifySent
  BY <1>2 DEF Flow
<1>6. ASSUME MayIngest(R) PROVE Exact(q, L, sum, A)
  <2>1. Exact(p, L, sum, A)
    BY <1>6 DEF Flow
  <2> HIDE DEF a, p, q, sum
  <2>2. /\ p \in Seq(Records) /\ q \in Seq(Records) /\ Len(q) = Len(p) /\ k \in 1..Len(p)
        /\ q[k] = "Bad" /\ \A i \in 1..Len(p) : i # k => q[i] = p[i]
    <3>1. CASE L
      <4>1. p = W /\ q = V
        BY <3>1 DEF p, q, Path
      <4> QED
        BY <1>1, <1>2, <4>1
    <3>2. CASE ~L
      <4>1. Joined(W, a, p) /\ Joined(V, a, q)
        BY <3>2 DEF p, q, Path, Joined
      <4>2. /\ p \in Seq(Records) /\ Len(p) = Len(W) + Len(a) /\ Len(a) \in Nat
            /\ \A i \in 1..Len(W) : p[i] = W[i]
            /\ \A i \in 1..Len(a) : a[i] = p[Len(W) + i]
        BY <1>1, <4>1, JoinedCount
      <4>3. /\ q \in Seq(Records) /\ Len(q) = Len(V) + Len(a)
            /\ \A i \in 1..Len(V) : q[i] = V[i]
            /\ \A i \in 1..Len(a) : a[i] = q[Len(V) + i]
        <5>1. Adds(V, a, q)
          BY <1>1, <1>2, <4>1, JoinedAdds
        <5>2. q \in Seq(Records)
          BY <1>1, <1>2, <4>1, JoinedType
        <5> QED
          BY <5>1, <5>2 DEF Adds
      <4>4. Len(q) = Len(p) /\ k \in 1..Len(p) /\ Len(p) \in Nat
        BY <1>2, <4>2, <4>3
      <4>5. q[k] = "Bad"
        BY <1>2, <4>3
      <4>6. ASSUME NEW i \in 1..Len(p), i # k PROVE q[i] = p[i]
        <5>1. CASE i \in 1..Len(W)
          <6>1. V[i] = W[i] /\ i \in 1..Len(V)
            BY <1>2, <4>6, <5>1
          <6> QED
            BY <4>2, <4>3, <5>1, <6>1
        <5>2. CASE i \notin 1..Len(W)
          <6>1. i - Len(W) \in 1..Len(a) /\ Len(W) + (i - Len(W)) = i
            BY <1>2, <4>2, <5>2
          <6>2. p[i] = a[i - Len(W)]
            BY <4>2, <6>1
          <6>3. q[i] = a[i - Len(W)]
            BY <1>2, <4>3, <6>1
          <6> QED
            BY <6>2, <6>3
        <5> QED
          BY <5>1, <5>2
      <4> QED
        BY <4>2, <4>3, <4>4, <4>5, <4>6
    <3> QED
      BY <1>1, <3>1, <3>2
  <2> QED
    BY <2>1, <2>2, ExactSpoils
<1> QED
  BY <1>2, <1>4, <1>5, <1>6 DEF Flow

(***************************************************************************)
(* The inductive invariant: both sessions are sound and both directions of *)
(* the conversation account for every accepted record.                     *)
(***************************************************************************)
Logs == [accepted : Nat, read : Nat, clean : BOOLEAN]

\* The conversation seen by one owner: s is its session, p its peer's, o and i
\* are the streams out and in, lo and li say whether these were cut, and sl and
\* pl are the logs of the two owners.
Talk(s, p, o, i, lo, li, sl, pl) ==
  /\ SessionSound(s) /\ SessionSound(p) /\ o \in Seq(Records) /\ i \in Seq(Records)
  /\ lo \in BOOLEAN /\ li \in BOOLEAN /\ sl \in Logs /\ pl \in Logs
  /\ Flow(s, o, lo, p, sl.accepted, pl)
  /\ Flow(p, i, li, s, pl.accepted, sl)

Up == "Server" \in cut

Down == "Client" \in cut

WithinBounds ==
  /\ Len(toServer) <= MaxWire /\ Len(toClient) <= MaxWire
  /\ cut \subseteq {"Client", "Server"}
  /\ clientLog.accepted <= ClientRecords /\ serverLog.accepted <= ServerRecords

SessionIInv ==
  /\ Talk(client, server, toServer, toClient, Up, Down, clientLog, serverLog)
  /\ WithinBounds

\* What a new session has to send.
Openings == {<<>>, <<"Flight">>}

LEMMA OpeningFields ==
  ASSUME NEW a \in Openings
  PROVE  a \in Seq(Records) /\ Len(a) \in 0..1 /\ \A i \in 1..Len(a) : a[i] = "Flight"
<1>1. CASE a = <<>>
  BY <1>1
<1>2. CASE a = <<"Flight">>
  BY <1>2 DEF Records
<1> QED
  BY <1>1, <1>2 DEF Openings

\* A new session is sound and has nothing on its way.
LEMMA NewSound ==
  ASSUME NEW script \in QuietScripts, NEW sendable \in Openings,
         NEW s, s = NewSession(NewEngine(script, sendable))
  PROVE  /\ SessionSound(s) /\ s.tls.plaintext = 0 /\ ~s.tls.closed
         /\ s.tls.sendable = sendable
<1> DEFINE t == NewEngine(script, sendable)
<1>1. MaxEgress \in Nat \ {0} /\ MaxPlaintext \in Nat \ {0}
  BY EngineAssumption
<1>2. sendable \in Seq(Records) /\ Len(sendable) \in 0..1
  BY OpeningFields
<1>3. Len(sendable) \in 0..MaxEgress /\ 0 \in 0..MaxPlaintext
  BY <1>1, <1>2
<1>4. script \in Seq(Seq(Records))
  BY DEF QuietScripts, Records
<1>5. /\ t \in Engines /\ t.script = script /\ t.sendable = sendable /\ t.plaintext = 0
      /\ t.closed = FALSE /\ t.failed = FALSE
  BY <1>2, <1>4 DEF NewEngine, Engines
<1> HIDE DEF t
<1>6. /\ s = [tls |-> t, plaintextBytes |-> 0, egressBytes |-> Len(t.sendable),
              peerClosure |-> "Open", opened |-> FALSE, closeNotifySent |-> FALSE, failure |-> "None"]
  BY DEF NewSession, t
<1>7. s \in SessionRecords
  BY <1>3, <1>5, <1>6 DEF SessionRecords, Closures, Diagnostics
<1>8. /\ s.tls = t /\ s.plaintextBytes = 0 /\ s.egressBytes = Len(t.sendable)
      /\ s.peerClosure = "Open" /\ s.opened = FALSE /\ s.failure = "None"
  BY <1>6
<1> QED
  BY <1>5, <1>7, <1>8 DEF SessionSound

\* An empty stream between two new sessions accounts for nothing.
LEMMA NewFlow ==
  ASSUME NEW S, SessionSound(S), S.tls.sendable \in Openings,
         NEW R, R.tls.plaintext = 0, ~R.tls.closed,
         NEW W, W = <<>>, NEW L, L = FALSE, NEW G, G = NewLog, NEW A, A = 0
  PROVE  Flow(S, W, L, R, A, G)
<1> DEFINE a == S.tls.sendable
           p == Path(a, W, L)
           sum == G.read + R.tls.plaintext
<1>1. G.read = 0 /\ G.clean = FALSE /\ sum = 0
  BY DEF NewLog
<1>2. /\ a \in Seq(Records) /\ Len(a) \in Nat /\ \A i \in 1..Len(a) : a[i] = "Flight"
      /\ W \in Seq(Records) /\ Len(W) = 0
  <2>1. a \in Seq(Records) /\ Len(a) \in 0..1 /\ \A i \in 1..Len(a) : a[i] = "Flight"
    BY OpeningFields
  <2> QED
    BY <2>1
<1>3. p = a
  <2>1. p = W \o a
    BY DEF Path
  <2>2. W \o a = a
    <3> HIDE DEF a
    <3> QED BY <1>2
  <2> QED
    BY <2>1, <2>2
<1>4. DataTo(a, Len(a)) = 0
  <2>1. \A i \in 1..Len(a) : a[i] # "Data"
    BY <1>2
  <2> QED
    BY <1>2, <2>1, DataToNone
<1>5. DataTo(W, Len(W)) = 0
  <2>1. Len(W) \in Nat /\ \A i \in 1..Len(W) : W[i] # "Data"
    BY <1>2
  <2> QED
    BY <2>1, DataToNone
<1>6. Exact(a, L, sum, A)
  <2>1. sum + DataTo(a, Len(a)) = A
    BY <1>1, <1>4
  <2>2. \A i \in 1..Len(a) : a[i] # "CloseNotify"
    BY <1>2
  <2> QED
    BY <2>1, <2>2 DEF Exact
<1>7. G.read + R.tls.plaintext + DataTo(W, Len(W)) + DataTo(a, Len(a)) <= A
  BY <1>1, <1>4, <1>5
<1>8. \A i \in 1..Len(W) : FALSE
  BY <1>2
<1>9. \A i \in 1..Len(a) : a[i] # "CloseNotify"
  BY <1>2
<1> HIDE DEF a, p, sum
<1> QED
  BY <1>1, <1>3, <1>6, <1>7, <1>8, <1>9 DEF Flow, a, p, sum

LEMMA SessionInit == Init => SessionIInv
<1> SUFFICES ASSUME Init PROVE SessionIInv
  OBVIOUS
<1>1. PICK version \in Versions : client = NewClient(version) /\ server = NewServer(version)
  BY DEF Init
<1>2. ClientScript(version) \in QuietScripts /\ ServerScript(version) \in QuietScripts
  <2> DEFINE E == Seq({"Flight", "Ticket"})
             flight == <<"Flight">>
             ticket == <<"Ticket">>
             none == <<>>
  <2>1. flight \in E /\ ticket \in E /\ none \in E
    OBVIOUS
  <2>2. /\ ClientScript(version) \in {<<flight>>, <<flight, none>>}
        /\ ServerScript(version) \in {<<flight, ticket>>, <<flight, flight>>}
    BY DEF ClientScript, ServerScript
  <2>3. QuietScripts = Seq(E)
    BY DEF QuietScripts
  <2> HIDE DEF E, flight, ticket, none
  <2>4. /\ <<flight>> \in Seq(E) /\ <<flight, none>> \in Seq(E)
        /\ <<flight, ticket>> \in Seq(E) /\ <<flight, flight>> \in Seq(E)
    BY <2>1
  <2>5. ClientScript(version) \in Seq(E)
    BY <2>2, <2>4
  <2>6. ServerScript(version) \in Seq(E)
    BY <2>2, <2>4
  <2> QED
    BY <2>3, <2>5, <2>6
<1> DEFINE opening == <<"Flight">>
           none == <<>>
<1>3. opening \in Openings /\ none \in Openings
  BY DEF Openings
<1>4. /\ client = NewSession(NewEngine(ClientScript(version), opening))
      /\ server = NewSession(NewEngine(ServerScript(version), none))
  BY <1>1 DEF NewClient, NewServer
<1> HIDE DEF opening, none
<1>5. /\ SessionSound(client) /\ client.tls.plaintext = 0 /\ ~client.tls.closed
      /\ client.tls.sendable \in Openings
  <2> DEFINE script == ClientScript(version)
  <2>1. script \in QuietScripts /\ client = NewSession(NewEngine(script, opening))
    BY <1>2, <1>4
  <2> HIDE DEF script
  <2>2. /\ SessionSound(client) /\ client.tls.plaintext = 0 /\ ~client.tls.closed
        /\ client.tls.sendable = opening
    BY <1>3, <2>1, NewSound
  <2> QED
    BY <1>3, <2>2
<1>6. /\ SessionSound(server) /\ server.tls.plaintext = 0 /\ ~server.tls.closed
      /\ server.tls.sendable \in Openings
  <2> DEFINE script == ServerScript(version)
  <2>1. script \in QuietScripts /\ server = NewSession(NewEngine(script, none))
    BY <1>2, <1>4
  <2> HIDE DEF script
  <2>2. /\ SessionSound(server) /\ server.tls.plaintext = 0 /\ ~server.tls.closed
        /\ server.tls.sendable = none
    BY <1>3, <2>1, NewSound
  <2> QED
    BY <1>3, <2>2
<1>7. /\ toServer = <<>> /\ toClient = <<>> /\ cut = {} /\ clientLog = NewLog /\ serverLog = NewLog
  BY DEF Init
<1>8. MaxWire \in Nat /\ ClientRecords \in Nat /\ ServerRecords \in Nat
  BY PairAssumption
<1>9. NewLog \in Logs /\ NewLog.accepted = 0
  BY DEF NewLog, Logs
<1>10. WithinBounds
  <2>1. Len(toServer) = 0 /\ Len(toClient) = 0
    BY <1>7
  <2> QED
    BY <1>7, <1>8, <1>9, <2>1 DEF WithinBounds
<1>11. Up = FALSE /\ Down = FALSE
  BY <1>7 DEF Up, Down
<1>12. clientLog.accepted = 0 /\ serverLog.accepted = 0
  BY <1>7, <1>9
<1>13. Flow(client, toServer, Up, server, clientLog.accepted, serverLog)
  BY <1>5, <1>6, <1>7, <1>11, <1>12, NewFlow
<1>14. Flow(server, toClient, Down, client, serverLog.accepted, clientLog)
  BY <1>5, <1>6, <1>7, <1>11, <1>12, NewFlow
<1>15. toServer \in Seq(Records) /\ toClient \in Seq(Records)
  BY <1>7
<1>16. Talk(client, server, toServer, toClient, Up, Down, clientLog, serverLog)
  BY <1>5, <1>6, <1>7, <1>9, <1>11, <1>13, <1>14, <1>15 DEF Talk
<1> QED
  BY <1>10, <1>16 DEF SessionIInv

(***************************************************************************)
(* The steps of one owner, whichever of the two it is.                     *)
(***************************************************************************)
LEMMA TalkParties ==
  ASSUME NEW s, NEW p, NEW o, NEW i, NEW lo, NEW li, NEW sl, NEW pl,
         Talk(s, p, o, i, lo, li, sl, pl)
  PROVE  /\ Parties(s, o, lo, p, sl.accepted, pl) /\ Parties(p, i, li, s, pl.accepted, sl)
         /\ Flow(s, o, lo, p, sl.accepted, pl) /\ Flow(p, i, li, s, pl.accepted, sl)
         /\ SessionSound(s) /\ SessionSound(p) /\ i \in Seq(Records) /\ o \in Seq(Records)
         /\ lo \in BOOLEAN /\ li \in BOOLEAN /\ sl \in Logs /\ pl \in Logs
         /\ sl.accepted \in Nat /\ pl.accepted \in Nat
<1>1. /\ sl.accepted \in Nat /\ sl.read \in Nat /\ sl.clean \in BOOLEAN
      /\ pl.accepted \in Nat /\ pl.read \in Nat /\ pl.clean \in BOOLEAN
  BY DEF Talk, Logs
<1> QED
  BY <1>1 DEF Talk, Parties

\* Each side of the conversation may be looked at first.
LEMMA TalkBack ==
  ASSUME NEW s, NEW p, NEW o, NEW i, NEW lo, NEW li, NEW sl, NEW pl,
         Talk(s, p, o, i, lo, li, sl, pl)
  PROVE  Talk(p, s, i, o, li, lo, pl, sl)
  BY DEF Talk

LEMMA TalkIngests ==
  ASSUME NEW s, NEW p, NEW o, NEW i, NEW lo, NEW li, NEW sl, NEW pl,
         Talk(s, p, o, i, lo, li, sl, pl), MayIngest(s), NEW k \in Nat, k <= Len(i),
         NEW u, u = IngestTls(s, First(i, k)), NEW j, j = Rest(i, k)
  PROVE  Talk(u, p, o, j, lo, li, sl, pl) /\ Len(j) <= Len(i)
<1> DEFINE f == First(i, k)
           r == Rest(i, k)
<1>1. /\ Parties(s, o, lo, p, sl.accepted, pl) /\ Parties(p, i, li, s, pl.accepted, sl)
      /\ Flow(s, o, lo, p, sl.accepted, pl) /\ Flow(p, i, li, s, pl.accepted, sl)
      /\ SessionSound(s) /\ i \in Seq(Records)
  BY TalkParties
<1>2. f \in Seq(Records) /\ Len(f) = k
  BY <1>1, FirstFields
<1>3. r \in Seq(Records) /\ Len(r) = Len(i) - k /\ Len(i) \in Nat
  BY <1>1, RestFields
<1> HIDE DEF f
<1>4. /\ SessionSound(u) /\ u.closeNotifySent = s.closeNotifySent /\ Took(s.tls, u.tls, f, k)
      /\ MayIngest(u) => ~u.tls.closed /\ ~u.tls.failed
  <2>1. u = IngestTls(s, f)
    BY DEF f
  <2> QED
    BY <1>1, <1>2, <2>1, IngestSound
<1>5. Grows(s.tls.sendable, u.tls.sendable)
  BY <1>4 DEF Took
<1>6. Flow(u, o, lo, p, sl.accepted, pl)
  BY <1>1, <1>4, <1>5, FlowGrows
<1>7. Flow(p, r, li, u, pl.accepted, sl)
  <2>1. Took(s.tls, u.tls, First(i, k), k)
    BY <1>4 DEF f
  <2> QED
    BY <1>1, <1>4, <2>1, FlowIngests
<1>8. j = r
  OBVIOUS
<1> HIDE DEF r
<1>9. Talk(u, p, o, j, lo, li, sl, pl)
  BY <1>3, <1>4, <1>6, <1>7, <1>8 DEF Talk
<1>10. Len(j) <= Len(i)
  BY <1>3, <1>8
<1> QED
  BY <1>9, <1>10

LEMMA TalkReads ==
  ASSUME NEW s, NEW p, NEW o, NEW i, NEW lo, NEW li, NEW sl, NEW pl,
         Talk(s, p, o, i, lo, li, sl, pl), EnsureProgressing(s),
         NEW u, u = ReadSession(s), NEW g, g = AfterRead(s, sl)
  PROVE  Talk(u, p, o, i, lo, li, g, pl) /\ g.accepted = sl.accepted
<1>1. /\ Parties(s, o, lo, p, sl.accepted, pl) /\ Parties(p, i, li, s, pl.accepted, sl)
      /\ Flow(s, o, lo, p, sl.accepted, pl) /\ Flow(p, i, li, s, pl.accepted, sl)
      /\ SessionSound(s) /\ sl \in Logs
  BY TalkParties
<1>2. SessionSound(u) /\ Says(s, u)
  BY <1>1, ReadSound
<1>3. g \in Logs /\ g.accepted = sl.accepted
  <2>1. CASE PlaintextAnswer(s) = "Bytes"
    <3>1. g = [sl EXCEPT !.read = @ + 1]
      BY <2>1 DEF AfterRead
    <3> QED
      BY <1>1, <3>1 DEF Logs
  <2>2. CASE PlaintextAnswer(s) = "Eof"
    <3>1. g = [sl EXCEPT !.clean = TRUE]
      BY <2>2 DEF AfterRead
    <3> QED
      BY <1>1, <3>1 DEF Logs
  <2>3. CASE PlaintextAnswer(s) \notin {"Bytes", "Eof"}
    <3>1. g = sl
      BY <2>3 DEF AfterRead
    <3> QED
      BY <1>1, <3>1
  <2> QED
    BY <2>1, <2>2, <2>3
<1>4. Flow(p, i, li, u, pl.accepted, g)
  BY <1>1, FlowReads DEF Logs
<1>5. u.tls.sendable \in Seq(Records)
  BY <1>2, SessionFields
<1>6. Grows(s.tls.sendable, u.tls.sendable) /\ u.closeNotifySent = s.closeNotifySent
  BY <1>2, <1>5, GrowsSelf DEF Says
<1>7. Flow(u, o, lo, p, sl.accepted, pl)
  BY <1>1, <1>2, <1>6, FlowGrows
<1> QED
  BY <1>2, <1>3, <1>4, <1>7 DEF Talk

LEMMA TalkFinishes ==
  ASSUME NEW s, NEW p, NEW o, NEW i, NEW lo, NEW li, NEW sl, NEW pl,
         Talk(s, p, o, i, lo, li, sl, pl), EnsureProgressing(s), NEW u, u = FinishInput(s)
  PROVE  Talk(u, p, o, i, lo, li, sl, pl)
<1>1. /\ Parties(s, o, lo, p, sl.accepted, pl)
      /\ Flow(s, o, lo, p, sl.accepted, pl) /\ Flow(p, i, li, s, pl.accepted, sl)
      /\ SessionSound(s)
  BY TalkParties
<1>2. SessionSound(u) /\ Says(s, u) /\ Hears(s, u)
  BY <1>1, FinishSound
<1>3. u.tls.sendable \in Seq(Records)
  BY <1>2, SessionFields
<1>4. Grows(s.tls.sendable, u.tls.sendable) /\ u.closeNotifySent = s.closeNotifySent
  BY <1>2, <1>3, GrowsSelf DEF Says
<1>5. Flow(u, o, lo, p, sl.accepted, pl)
  BY <1>1, <1>2, <1>4, FlowGrows
<1>6. Flow(p, i, li, u, pl.accepted, sl)
  BY <1>1, <1>2, FlowHears
<1> QED
  BY <1>2, <1>5, <1>6 DEF Talk

LEMMA TalkCloses ==
  ASSUME NEW s, NEW p, NEW o, NEW i, NEW lo, NEW li, NEW sl, NEW pl,
         Talk(s, p, o, i, lo, li, sl, pl), MayClose(s), NEW u, u = CloseSession(s)
  PROVE  Talk(u, p, o, i, lo, li, sl, pl)
<1>1. /\ Parties(s, o, lo, p, sl.accepted, pl)
      /\ Flow(s, o, lo, p, sl.accepted, pl) /\ Flow(p, i, li, s, pl.accepted, sl)
      /\ SessionSound(s)
  BY TalkParties
<1>2. /\ SessionSound(u) /\ u.closeNotifySent = TRUE /\ Hears(s, u)
      /\ \/ u.tls.sendable = s.tls.sendable
         \/ u.tls.sendable = s.tls.sendable \o <<"CloseNotify">>
  BY <1>1, CloseSound
<1>3. Flow(u, o, lo, p, sl.accepted, pl)
  BY <1>1, <1>2, FlowCloses
<1>4. Flow(p, i, li, u, pl.accepted, sl)
  BY <1>1, <1>2, FlowHears
<1> QED
  BY <1>2, <1>3, <1>4 DEF Talk

LEMMA TalkWrites ==
  ASSUME NEW s, NEW p, NEW o, NEW i, NEW lo, NEW li, NEW sl, NEW pl,
         Talk(s, p, o, i, lo, li, sl, pl), MayWrite(s), NEW k \in Nat,
         NEW u, u = WriteSession(s, k), NEW g, g = [sl EXCEPT !.accepted = @ + k]
  PROVE  Talk(u, p, o, i, lo, li, g, pl) /\ g.accepted = sl.accepted + k
<1>1. /\ Parties(s, o, lo, p, sl.accepted, pl)
      /\ Flow(s, o, lo, p, sl.accepted, pl) /\ Flow(p, i, li, s, pl.accepted, sl)
      /\ SessionSound(s) /\ sl \in Logs /\ sl.accepted \in Nat
  BY TalkParties
<1>2. /\ SessionSound(u) /\ u.closeNotifySent = s.closeNotifySent /\ Hears(s, u)
      /\ u.tls.sendable = s.tls.sendable \o [n \in 1..k |-> "Data"]
  BY <1>1, WriteSound
<1>3. /\ g \in Logs /\ g.accepted = sl.accepted + k /\ g.read = sl.read /\ g.clean = sl.clean
  BY <1>1 DEF Logs
<1>4. ~s.closeNotifySent
  BY DEF MayWrite
<1>5. Flow(u, o, lo, p, sl.accepted + k, pl)
  BY <1>1, <1>2, <1>4, FlowWrites
<1>6. Flow(p, i, li, u, pl.accepted, sl)
  BY <1>1, <1>2, FlowHears
<1>7. Flow(p, i, li, u, pl.accepted, g)
  BY <1>3, <1>6 DEF Flow
<1> QED
  BY <1>2, <1>3, <1>5, <1>7 DEF Talk

LEMMA TalkDrains ==
  ASSUME NEW s, NEW p, NEW o, NEW i, NEW lo, NEW li, NEW sl, NEW pl,
         Talk(s, p, o, i, lo, li, sl, pl), NEW k \in Nat, k <= Len(s.tls.sendable),
         NEW u, u = DrainTls(s, k), NEW w, Enters(w, o, lo, First(s.tls.sendable, k))
  PROVE  Talk(u, p, w, i, lo, li, sl, pl) /\ Len(w) <= Len(o) + k
<1>1. /\ Parties(s, o, lo, p, sl.accepted, pl)
      /\ Flow(s, o, lo, p, sl.accepted, pl) /\ Flow(p, i, li, s, pl.accepted, sl)
      /\ SessionSound(s) /\ o \in Seq(Records)
  BY TalkParties
<1>2. /\ SessionSound(u) /\ u.closeNotifySent = s.closeNotifySent /\ Hears(s, u)
      /\ u.tls.sendable = Rest(s.tls.sendable, k)
  BY <1>1, DrainSound
<1>3. w \in Seq(Records) /\ Flow(u, w, lo, p, sl.accepted, pl)
  <2> DEFINE A == sl.accepted
  <2>1. /\ Parties(s, o, lo, p, A, pl) /\ Flow(s, o, lo, p, A, pl)
        /\ k \in Nat /\ k <= Len(s.tls.sendable) /\ SessionSound(u)
        /\ u.tls.sendable = Rest(s.tls.sendable, k) /\ u.closeNotifySent = s.closeNotifySent
        /\ Enters(w, o, lo, First(s.tls.sendable, k))
    BY <1>1, <1>2
  <2> HIDE DEF A
  <2>2. w \in Seq(Records) /\ Flow(u, w, lo, p, A, pl)
    BY <2>1, FlowDrains
  <2> QED
    BY <2>2 DEF A
<1>4. Flow(p, i, li, u, pl.accepted, sl)
  BY <1>1, <1>2, FlowHears
<1>5. Len(w) <= Len(o) + k
  <2> DEFINE f == First(s.tls.sendable, k)
  <2>1. f \in Seq(Records) /\ Len(f) = k
    BY <1>1, FirstFields, SessionFields
  <2>2. w = IF lo THEN o ELSE o \o f
    BY DEF Enters
  <2> HIDE DEF f
  <2>3. Len(o) \in Nat /\ Len(o \o f) = Len(o) + k
    BY <1>1, <2>1
  <2> QED
    BY <2>2, <2>3
<1> QED
  BY <1>2, <1>3, <1>4, <1>5 DEF Talk

(***************************************************************************)
(* The streams.                                                            *)
(***************************************************************************)
LEMMA TalkCut ==
  ASSUME NEW s, NEW p, NEW o, NEW i, NEW lo, NEW li, NEW sl, NEW pl,
         Talk(s, p, o, i, lo, li, sl, pl), NEW m, m = TRUE
  PROVE  Talk(s, p, o, i, m, li, sl, pl)
<1>1. /\ Parties(s, o, lo, p, sl.accepted, pl) /\ Flow(s, o, lo, p, sl.accepted, pl)
  BY TalkParties
<1>2. Flow(s, o, m, p, sl.accepted, pl)
  BY <1>1, FlowCut
<1> QED
  BY <1>2 DEF Talk

LEMMA TalkLoses ==
  ASSUME NEW s, NEW p, NEW o, NEW i, NEW lo, NEW li, NEW sl, NEW pl,
         Talk(s, p, o, i, lo, li, sl, pl), lo, o # <<>>, NEW w, w = Front(o)
  PROVE  Talk(s, p, w, i, lo, li, sl, pl) /\ Len(w) <= Len(o)
<1>1. /\ Parties(s, o, lo, p, sl.accepted, pl) /\ Flow(s, o, lo, p, sl.accepted, pl)
  BY TalkParties
<1>2. w \in Seq(Records) /\ Len(w) <= Len(o) /\ Flow(s, w, lo, p, sl.accepted, pl)
  BY <1>1, FlowLoses
<1> QED
  BY <1>2 DEF Talk

LEMMA TalkDiscards ==
  ASSUME NEW s, NEW p, NEW o, NEW i, NEW lo, NEW li, NEW sl, NEW pl,
         Talk(s, p, o, i, lo, li, sl, pl), ~MayIngest(p), NEW w, w = <<>>
  PROVE  Talk(s, p, w, i, lo, li, sl, pl) /\ Len(w) = 0
<1>1. /\ Parties(s, o, lo, p, sl.accepted, pl) /\ Flow(s, o, lo, p, sl.accepted, pl)
  BY TalkParties
<1>2. w \in Seq(Records) /\ Len(w) = 0 /\ Flow(s, w, lo, p, sl.accepted, pl)
  BY <1>1, FlowDiscards
<1> QED
  BY <1>2 DEF Talk

\* The record at k was corrupted.
Spoiled(w, o, k) == w = [o EXCEPT ![k] = "Bad"]

LEMMA TalkSpoils ==
  ASSUME NEW s, NEW p, NEW o, NEW i, NEW lo, NEW li, NEW sl, NEW pl,
         Talk(s, p, o, i, lo, li, sl, pl), NEW k \in DOMAIN o,
         NEW w, Spoiled(w, o, k)
  PROVE  Talk(s, p, w, i, lo, li, sl, pl) /\ Len(w) = Len(o)
<1>1. /\ Parties(s, o, lo, p, sl.accepted, pl) /\ Flow(s, o, lo, p, sl.accepted, pl)
  BY TalkParties
<1>2. w \in Seq(Records) /\ Len(w) = Len(o) /\ Flow(s, w, lo, p, sl.accepted, pl)
  BY <1>1, FlowSpoils DEF Spoiled
<1> QED
  BY <1>2 DEF Talk

(***************************************************************************)
(* Every step of either owner and of the streams keeps the invariant.      *)
(***************************************************************************)
LEMMA BothSides ==
  ASSUME SessionIInv
  PROVE  /\ Talk(client, server, toServer, toClient, Up, Down, clientLog, serverLog)
         /\ Talk(server, client, toClient, toServer, Down, Up, serverLog, clientLog)
         /\ WithinBounds
<1>1. Talk(client, server, toServer, toClient, Up, Down, clientLog, serverLog) /\ WithinBounds
  BY DEF SessionIInv
<1> QED
  BY <1>1, TalkBack

LEMMA Lengths ==
  ASSUME SessionIInv
  PROVE  /\ Len(toServer) \in Nat /\ Len(toClient) \in Nat /\ MaxWire \in Nat
         /\ clientLog.accepted \in Nat /\ serverLog.accepted \in Nat
         /\ ClientRecords \in Nat /\ ServerRecords \in Nat
<1>1. /\ toServer \in Seq(Records) /\ toClient \in Seq(Records)
      /\ clientLog.accepted \in Nat /\ serverLog.accepted \in Nat
  BY BothSides, TalkParties
<1> QED
  BY <1>1, PairAssumption

LEMMA ClientIngestKeeps ==
  ASSUME SessionIInv, NEW count \in 1..IngressLimit, ClientIngest(count)
  PROVE  SessionIInv'
<1>1. Talk(client, server, toServer, toClient, Up, Down, clientLog, serverLog) /\ WithinBounds
  BY BothSides
<1>2. /\ MayIngest(client) /\ count \in Nat /\ count <= Len(toClient)
      /\ client' = IngestTls(client, First(toClient, count)) /\ toClient' = Rest(toClient, count)
  BY IngressAssumption DEF ClientIngest
<1>3. Talk(client', server, toServer, toClient', Up, Down, clientLog, serverLog) /\ Len(toClient') <= Len(toClient)
  BY <1>1, <1>2, TalkIngests
<1>4. Len(toClient') <= MaxWire
  <2>1. toClient' \in Seq(Records)
    BY <1>3, TalkParties
  <2>2. Len(toClient') \in Nat
    BY <2>1
  <2> QED
    BY <1>1, <1>3, <2>2, Lengths DEF WithinBounds
<1>5. Talk(client', server, toServer, toClient', Up, Down, clientLog, serverLog)
  BY <1>3
<1>6. /\ server' = server /\ toServer' = toServer /\ cut' = cut /\ clientLog' = clientLog /\ serverLog' = serverLog
      /\ Up' = Up /\ Down' = Down
  BY DEF ClientIngest, Up, Down
<1>7. Talk(client', server', toServer', toClient', Up', Down', clientLog', serverLog')
  BY <1>5, <1>6
<1>8. WithinBounds'
  BY <1>1, <1>6, <1>4 DEF WithinBounds
<1> QED
  BY <1>7, <1>8 DEF SessionIInv

LEMMA ClientReadKeeps ==
  ASSUME SessionIInv, ClientRead
  PROVE  SessionIInv'
<1>1. Talk(client, server, toServer, toClient, Up, Down, clientLog, serverLog) /\ WithinBounds
  BY BothSides
<1>2. /\ EnsureProgressing(client) /\ client' = ReadSession(client) /\ clientLog' = AfterRead(client, clientLog)
  BY DEF ClientRead
<1>3. /\ clientLog'.accepted = clientLog.accepted
      /\ Talk(client', server, toServer, toClient, Up, Down, clientLog', serverLog)
  BY <1>1, <1>2, TalkReads
<1>4. /\ server' = server /\ toServer' = toServer /\ toClient' = toClient /\ cut' = cut /\ serverLog' = serverLog
      /\ Up' = Up /\ Down' = Down
  BY DEF ClientRead, ClientOnly, Up, Down
<1>5. Talk(client', server', toServer', toClient', Up', Down', clientLog', serverLog')
  BY <1>3, <1>4
<1>6. WithinBounds'
  BY <1>1, <1>4, <1>3 DEF WithinBounds
<1> QED
  BY <1>5, <1>6 DEF SessionIInv

LEMMA ClientWriteKeeps ==
  ASSUME SessionIInv, NEW count \in 1..WriteRecords, ClientWrite(count)
  PROVE  SessionIInv'
<1>1. Talk(client, server, toServer, toClient, Up, Down, clientLog, serverLog) /\ WithinBounds
  BY BothSides
<1>2. /\ MayWrite(client) /\ count \in Nat /\ clientLog.accepted + count <= ClientRecords
      /\ client' = WriteSession(client, count) /\ clientLog' = [clientLog EXCEPT !.accepted = @ + count]
  BY EngineAssumption DEF ClientWrite
<1>3. /\ clientLog'.accepted = clientLog.accepted + count
      /\ Talk(client', server, toServer, toClient, Up, Down, clientLog', serverLog)
  BY <1>1, <1>2, TalkWrites
<1>4. /\ server' = server /\ toServer' = toServer /\ toClient' = toClient /\ cut' = cut /\ serverLog' = serverLog
      /\ Up' = Up /\ Down' = Down
  BY DEF ClientWrite, ClientOnly, Up, Down
<1>5. Talk(client', server', toServer', toClient', Up', Down', clientLog', serverLog')
  BY <1>3, <1>4
<1>6. WithinBounds'
  BY <1>1, <1>4, <1>2, <1>3 DEF WithinBounds
<1> QED
  BY <1>5, <1>6 DEF SessionIInv

LEMMA ClientDrainKeeps ==
  ASSUME SessionIInv, NEW count \in 1..MaxWire, ClientDrain(count)
  PROVE  SessionIInv'
<1>1. Talk(client, server, toServer, toClient, Up, Down, clientLog, serverLog) /\ WithinBounds
  BY BothSides
<1>2. /\ count \in Nat /\ count <= Len(client.tls.sendable) /\ Len(toServer) + count <= MaxWire
      /\ client' = DrainTls(client, count)
      /\ Enters(toServer', toServer, Up, First(client.tls.sendable, count))
  BY PairAssumption DEF ClientDrain, Carried, Enters, Up
<1>3. Talk(client', server, toServer', toClient, Up, Down, clientLog, serverLog) /\ Len(toServer') <= Len(toServer) + count
  BY <1>1, <1>2, TalkDrains
<1>4. Len(toServer') <= MaxWire
  <2>1. toServer' \in Seq(Records)
    BY <1>3, TalkParties
  <2>2. Len(toServer') \in Nat
    BY <2>1
  <2> QED
    BY <1>2, <1>3, <2>2, Lengths
<1>5. Talk(client', server, toServer', toClient, Up, Down, clientLog, serverLog)
  BY <1>3
<1>6. /\ server' = server /\ toClient' = toClient /\ cut' = cut /\ clientLog' = clientLog /\ serverLog' = serverLog
      /\ Up' = Up /\ Down' = Down
  BY DEF ClientDrain, Up, Down
<1>7. Talk(client', server', toServer', toClient', Up', Down', clientLog', serverLog')
  BY <1>5, <1>6
<1>8. WithinBounds'
  BY <1>1, <1>6, <1>4 DEF WithinBounds
<1> QED
  BY <1>7, <1>8 DEF SessionIInv

LEMMA ClientFinishKeeps ==
  ASSUME SessionIInv, ClientFinish
  PROVE  SessionIInv'
<1>1. Talk(client, server, toServer, toClient, Up, Down, clientLog, serverLog) /\ WithinBounds
  BY BothSides
<1>2. /\ EnsureProgressing(client) /\ client' = FinishInput(client)
  BY DEF ClientFinish
<1>3. Talk(client', server, toServer, toClient, Up, Down, clientLog, serverLog)
  BY <1>1, <1>2, TalkFinishes
<1>4. /\ server' = server /\ toServer' = toServer /\ toClient' = toClient /\ cut' = cut /\ clientLog' = clientLog /\ serverLog' = serverLog
      /\ Up' = Up /\ Down' = Down
  BY DEF ClientFinish, ClientOnly, Up, Down
<1>5. Talk(client', server', toServer', toClient', Up', Down', clientLog', serverLog')
  BY <1>3, <1>4
<1>6. WithinBounds'
  BY <1>1, <1>4 DEF WithinBounds
<1> QED
  BY <1>5, <1>6 DEF SessionIInv

LEMMA ClientCloseKeeps ==
  ASSUME SessionIInv, ClientClose
  PROVE  SessionIInv'
<1>1. Talk(client, server, toServer, toClient, Up, Down, clientLog, serverLog) /\ WithinBounds
  BY BothSides
<1>2. /\ MayClose(client) /\ client' = CloseSession(client)
  BY DEF ClientClose
<1>3. Talk(client', server, toServer, toClient, Up, Down, clientLog, serverLog)
  BY <1>1, <1>2, TalkCloses
<1>4. /\ server' = server /\ toServer' = toServer /\ toClient' = toClient /\ cut' = cut /\ clientLog' = clientLog /\ serverLog' = serverLog
      /\ Up' = Up /\ Down' = Down
  BY DEF ClientClose, ClientOnly, Up, Down
<1>5. Talk(client', server', toServer', toClient', Up', Down', clientLog', serverLog')
  BY <1>3, <1>4
<1>6. WithinBounds'
  BY <1>1, <1>4 DEF WithinBounds
<1> QED
  BY <1>5, <1>6 DEF SessionIInv

LEMMA ServerIngestKeeps ==
  ASSUME SessionIInv, NEW count \in 1..IngressLimit, ServerIngest(count)
  PROVE  SessionIInv'
<1>1. Talk(server, client, toClient, toServer, Down, Up, serverLog, clientLog) /\ WithinBounds
  BY BothSides
<1>2. /\ MayIngest(server) /\ count \in Nat /\ count <= Len(toServer)
      /\ server' = IngestTls(server, First(toServer, count)) /\ toServer' = Rest(toServer, count)
  BY IngressAssumption DEF ServerIngest
<1>3. Talk(server', client, toClient, toServer', Down, Up, serverLog, clientLog) /\ Len(toServer') <= Len(toServer)
  BY <1>1, <1>2, TalkIngests
<1>4. Len(toServer') <= MaxWire
  <2>1. toServer' \in Seq(Records)
    BY <1>3, TalkParties
  <2>2. Len(toServer') \in Nat
    BY <2>1
  <2> QED
    BY <1>1, <1>3, <2>2, Lengths DEF WithinBounds
<1>5. Talk(server', client, toClient, toServer', Down, Up, serverLog, clientLog)
  BY <1>3
<1>6. Talk(client, server', toServer', toClient, Up, Down, clientLog, serverLog)
  BY <1>5, TalkBack
<1>7. /\ client' = client /\ toClient' = toClient /\ cut' = cut /\ clientLog' = clientLog /\ serverLog' = serverLog
      /\ Up' = Up /\ Down' = Down
  BY DEF ServerIngest, Up, Down
<1>8. Talk(client', server', toServer', toClient', Up', Down', clientLog', serverLog')
  BY <1>6, <1>7
<1>9. WithinBounds'
  BY <1>1, <1>7, <1>4 DEF WithinBounds
<1> QED
  BY <1>8, <1>9 DEF SessionIInv

LEMMA ServerReadKeeps ==
  ASSUME SessionIInv, ServerRead
  PROVE  SessionIInv'
<1>1. Talk(server, client, toClient, toServer, Down, Up, serverLog, clientLog) /\ WithinBounds
  BY BothSides
<1>2. /\ EnsureProgressing(server) /\ server' = ReadSession(server) /\ serverLog' = AfterRead(server, serverLog)
  BY DEF ServerRead
<1>3. /\ serverLog'.accepted = serverLog.accepted
      /\ Talk(server', client, toClient, toServer, Down, Up, serverLog', clientLog)
  BY <1>1, <1>2, TalkReads
<1>4. Talk(client, server', toServer, toClient, Up, Down, clientLog, serverLog')
  BY <1>3, TalkBack
<1>5. /\ client' = client /\ toServer' = toServer /\ toClient' = toClient /\ cut' = cut /\ clientLog' = clientLog
      /\ Up' = Up /\ Down' = Down
  BY DEF ServerRead, ServerOnly, Up, Down
<1>6. Talk(client', server', toServer', toClient', Up', Down', clientLog', serverLog')
  BY <1>4, <1>5
<1>7. WithinBounds'
  BY <1>1, <1>5, <1>3 DEF WithinBounds
<1> QED
  BY <1>6, <1>7 DEF SessionIInv

LEMMA ServerWriteKeeps ==
  ASSUME SessionIInv, NEW count \in 1..WriteRecords, ServerWrite(count)
  PROVE  SessionIInv'
<1>1. Talk(server, client, toClient, toServer, Down, Up, serverLog, clientLog) /\ WithinBounds
  BY BothSides
<1>2. /\ MayWrite(server) /\ count \in Nat /\ serverLog.accepted + count <= ServerRecords
      /\ server' = WriteSession(server, count) /\ serverLog' = [serverLog EXCEPT !.accepted = @ + count]
  BY EngineAssumption DEF ServerWrite
<1>3. /\ serverLog'.accepted = serverLog.accepted + count
      /\ Talk(server', client, toClient, toServer, Down, Up, serverLog', clientLog)
  BY <1>1, <1>2, TalkWrites
<1>4. Talk(client, server', toServer, toClient, Up, Down, clientLog, serverLog')
  BY <1>3, TalkBack
<1>5. /\ client' = client /\ toServer' = toServer /\ toClient' = toClient /\ cut' = cut /\ clientLog' = clientLog
      /\ Up' = Up /\ Down' = Down
  BY DEF ServerWrite, ServerOnly, Up, Down
<1>6. Talk(client', server', toServer', toClient', Up', Down', clientLog', serverLog')
  BY <1>4, <1>5
<1>7. WithinBounds'
  BY <1>1, <1>5, <1>2, <1>3 DEF WithinBounds
<1> QED
  BY <1>6, <1>7 DEF SessionIInv

LEMMA ServerDrainKeeps ==
  ASSUME SessionIInv, NEW count \in 1..MaxWire, ServerDrain(count)
  PROVE  SessionIInv'
<1>1. Talk(server, client, toClient, toServer, Down, Up, serverLog, clientLog) /\ WithinBounds
  BY BothSides
<1>2. /\ count \in Nat /\ count <= Len(server.tls.sendable) /\ Len(toClient) + count <= MaxWire
      /\ server' = DrainTls(server, count)
      /\ Enters(toClient', toClient, Down, First(server.tls.sendable, count))
  BY PairAssumption DEF ServerDrain, Carried, Enters, Down
<1>3. Talk(server', client, toClient', toServer, Down, Up, serverLog, clientLog) /\ Len(toClient') <= Len(toClient) + count
  BY <1>1, <1>2, TalkDrains
<1>4. Len(toClient') <= MaxWire
  <2>1. toClient' \in Seq(Records)
    BY <1>3, TalkParties
  <2>2. Len(toClient') \in Nat
    BY <2>1
  <2> QED
    BY <1>2, <1>3, <2>2, Lengths
<1>5. Talk(server', client, toClient', toServer, Down, Up, serverLog, clientLog)
  BY <1>3
<1>6. Talk(client, server', toServer, toClient', Up, Down, clientLog, serverLog)
  BY <1>5, TalkBack
<1>7. /\ client' = client /\ toServer' = toServer /\ cut' = cut /\ clientLog' = clientLog /\ serverLog' = serverLog
      /\ Up' = Up /\ Down' = Down
  BY DEF ServerDrain, Up, Down
<1>8. Talk(client', server', toServer', toClient', Up', Down', clientLog', serverLog')
  BY <1>6, <1>7
<1>9. WithinBounds'
  BY <1>1, <1>7, <1>4 DEF WithinBounds
<1> QED
  BY <1>8, <1>9 DEF SessionIInv

LEMMA ServerFinishKeeps ==
  ASSUME SessionIInv, ServerFinish
  PROVE  SessionIInv'
<1>1. Talk(server, client, toClient, toServer, Down, Up, serverLog, clientLog) /\ WithinBounds
  BY BothSides
<1>2. /\ EnsureProgressing(server) /\ server' = FinishInput(server)
  BY DEF ServerFinish
<1>3. Talk(server', client, toClient, toServer, Down, Up, serverLog, clientLog)
  BY <1>1, <1>2, TalkFinishes
<1>4. Talk(client, server', toServer, toClient, Up, Down, clientLog, serverLog)
  BY <1>3, TalkBack
<1>5. /\ client' = client /\ toServer' = toServer /\ toClient' = toClient /\ cut' = cut /\ clientLog' = clientLog /\ serverLog' = serverLog
      /\ Up' = Up /\ Down' = Down
  BY DEF ServerFinish, ServerOnly, Up, Down
<1>6. Talk(client', server', toServer', toClient', Up', Down', clientLog', serverLog')
  BY <1>4, <1>5
<1>7. WithinBounds'
  BY <1>1, <1>5 DEF WithinBounds
<1> QED
  BY <1>6, <1>7 DEF SessionIInv

LEMMA ServerCloseKeeps ==
  ASSUME SessionIInv, ServerClose
  PROVE  SessionIInv'
<1>1. Talk(server, client, toClient, toServer, Down, Up, serverLog, clientLog) /\ WithinBounds
  BY BothSides
<1>2. /\ MayClose(server) /\ server' = CloseSession(server)
  BY DEF ServerClose
<1>3. Talk(server', client, toClient, toServer, Down, Up, serverLog, clientLog)
  BY <1>1, <1>2, TalkCloses
<1>4. Talk(client, server', toServer, toClient, Up, Down, clientLog, serverLog)
  BY <1>3, TalkBack
<1>5. /\ client' = client /\ toServer' = toServer /\ toClient' = toClient /\ cut' = cut /\ clientLog' = clientLog /\ serverLog' = serverLog
      /\ Up' = Up /\ Down' = Down
  BY DEF ServerClose, ServerOnly, Up, Down
<1>6. Talk(client', server', toServer', toClient', Up', Down', clientLog', serverLog')
  BY <1>4, <1>5
<1>7. WithinBounds'
  BY <1>1, <1>5 DEF WithinBounds
<1> QED
  BY <1>6, <1>7 DEF SessionIInv

LEMMA CutKeeps ==
  ASSUME SessionIInv, NEW side \in {"Client", "Server"}, Cut(side)
  PROVE  SessionIInv'
<1>1. /\ Talk(client, server, toServer, toClient, Up, Down, clientLog, serverLog)
      /\ Talk(server, client, toClient, toServer, Down, Up, serverLog, clientLog)
      /\ WithinBounds
  BY BothSides
<1>2. /\ client' = client /\ server' = server /\ toServer' = toServer /\ toClient' = toClient
      /\ clientLog' = clientLog /\ serverLog' = serverLog /\ cut' = cut \cup {side}
  BY DEF Cut
<1>3. WithinBounds'
  BY <1>1, <1>2 DEF WithinBounds
<1>4. CASE side = "Server"
  <2>1. Up' = TRUE /\ Down' = Down
    BY <1>2, <1>4 DEF Up, Down
  <2>2. Talk(client, server, toServer, toClient, Up', Down, clientLog, serverLog)
    BY <1>1, <2>1, TalkCut
  <2> QED
    BY <1>2, <1>3, <2>1, <2>2 DEF SessionIInv
<1>5. CASE side = "Client"
  <2>1. Down' = TRUE /\ Up' = Up
    BY <1>2, <1>5 DEF Up, Down
  <2>2. Talk(server, client, toClient, toServer, Down', Up, serverLog, clientLog)
    BY <1>1, <2>1, TalkCut
  <2>3. Talk(client, server, toServer, toClient, Up, Down', clientLog, serverLog)
    BY <2>2, TalkBack
  <2> QED
    BY <1>2, <1>3, <2>1, <2>3 DEF SessionIInv
<1> QED
  BY <1>4, <1>5

\* A step that changes the stream to the server alone.
LEMMA UpstreamKeeps ==
  ASSUME SessionIInv,
         UNCHANGED <<client, server, toClient, cut, clientLog, serverLog>>,
         Talk(client, server, toServer', toClient, Up, Down, clientLog, serverLog),
         Len(toServer') <= Len(toServer)
  PROVE  SessionIInv'
<1>1. Up' = Up /\ Down' = Down
  BY DEF Up, Down
<1>2. toServer' \in Seq(Records)
  BY TalkParties
<1>3. Len(toServer') \in Nat
  BY <1>2
<1>4. Len(toServer') <= MaxWire
  BY <1>3, BothSides, Lengths DEF WithinBounds
<1>5. WithinBounds'
  BY <1>4, BothSides DEF WithinBounds
<1> QED
  BY <1>1, <1>5 DEF SessionIInv

\* A step that changes the stream to the client alone.
LEMMA DownstreamKeeps ==
  ASSUME SessionIInv,
         UNCHANGED <<client, server, toServer, cut, clientLog, serverLog>>,
         Talk(server, client, toClient', toServer, Down, Up, serverLog, clientLog),
         Len(toClient') <= Len(toClient)
  PROVE  SessionIInv'
<1>1. Up' = Up /\ Down' = Down
  BY DEF Up, Down
<1>2. toClient' \in Seq(Records)
  BY TalkParties
<1>3. Len(toClient') \in Nat
  BY <1>2
<1>4. Len(toClient') <= MaxWire
  BY <1>3, BothSides, Lengths DEF WithinBounds
<1>5. WithinBounds'
  BY <1>4, BothSides DEF WithinBounds
<1>6. Talk(client, server, toServer, toClient', Up, Down, clientLog, serverLog)
  BY TalkBack
<1> QED
  BY <1>1, <1>5, <1>6 DEF SessionIInv

LEMMA LoseKeeps ==
  ASSUME SessionIInv, Lose
  PROVE  SessionIInv'
<1>1. /\ Talk(client, server, toServer, toClient, Up, Down, clientLog, serverLog)
      /\ Talk(server, client, toClient, toServer, Down, Up, serverLog, clientLog)
  BY BothSides
<1>2. UNCHANGED <<client, server, cut, clientLog, serverLog>>
  BY DEF Lose
<1>3. CASE Up /\ toServer # <<>> /\ toServer' = Front(toServer) /\ UNCHANGED toClient
  <2>1. /\ Talk(client, server, toServer', toClient, Up, Down, clientLog, serverLog)
        /\ Len(toServer') <= Len(toServer)
    BY <1>1, <1>3, TalkLoses
  <2> QED
    BY <1>2, <1>3, <2>1, UpstreamKeeps
<1>4. CASE Down /\ toClient # <<>> /\ toClient' = Front(toClient) /\ UNCHANGED toServer
  <2>1. /\ Talk(server, client, toClient', toServer, Down, Up, serverLog, clientLog)
        /\ Len(toClient') <= Len(toClient)
    BY <1>1, <1>4, TalkLoses
  <2> QED
    BY <1>2, <1>4, <2>1, DownstreamKeeps
<1> QED
  BY <1>3, <1>4 DEF Lose, Up, Down

LEMMA DiscardKeeps ==
  ASSUME SessionIInv, Discard
  PROVE  SessionIInv'
<1>1. /\ Talk(client, server, toServer, toClient, Up, Down, clientLog, serverLog)
      /\ Talk(server, client, toClient, toServer, Down, Up, serverLog, clientLog)
  BY BothSides
<1>2. UNCHANGED <<client, server, cut, clientLog, serverLog>>
  BY DEF Discard
<1>3. CASE ~MayIngest(server) /\ toServer' = <<>> /\ UNCHANGED toClient
  <2>1. /\ Talk(client, server, toServer', toClient, Up, Down, clientLog, serverLog)
        /\ Len(toServer') = 0
    BY <1>1, <1>3, TalkDiscards
  <2>2. Len(toServer') <= Len(toServer)
    BY <2>1, Lengths
  <2> QED
    BY <1>2, <1>3, <2>1, <2>2, UpstreamKeeps
<1>4. CASE ~MayIngest(client) /\ toClient' = <<>> /\ UNCHANGED toServer
  <2>1. /\ Talk(server, client, toClient', toServer, Down, Up, serverLog, clientLog)
        /\ Len(toClient') = 0
    BY <1>1, <1>4, TalkDiscards
  <2>2. Len(toClient') <= Len(toClient)
    BY <2>1, Lengths
  <2> QED
    BY <1>2, <1>4, <2>1, <2>2, DownstreamKeeps
<1> QED
  BY <1>3, <1>4 DEF Discard

LEMMA CorruptKeeps ==
  ASSUME SessionIInv, Corrupt
  PROVE  SessionIInv'
<1>1. /\ Talk(client, server, toServer, toClient, Up, Down, clientLog, serverLog)
      /\ Talk(server, client, toClient, toServer, Down, Up, serverLog, clientLog)
  BY BothSides
<1>2. UNCHANGED <<client, server, cut, clientLog, serverLog>>
  BY DEF Corrupt
<1>3. ASSUME NEW i \in DOMAIN toServer, toServer' = [toServer EXCEPT ![i] = "Bad"], UNCHANGED toClient
      PROVE  SessionIInv'
  <2>1. /\ Talk(client, server, toServer', toClient, Up, Down, clientLog, serverLog)
        /\ Len(toServer') = Len(toServer)
    <3>1. Spoiled(toServer', toServer, i)
      BY <1>3 DEF Spoiled
    <3> QED
      BY <1>1, <3>1, TalkSpoils
  <2>2. Len(toServer') <= Len(toServer)
    BY <2>1, Lengths
  <2> QED
    BY <1>2, <1>3, <2>1, <2>2, UpstreamKeeps
<1>4. ASSUME NEW i \in DOMAIN toClient, toClient' = [toClient EXCEPT ![i] = "Bad"], UNCHANGED toServer
      PROVE  SessionIInv'
  <2>1. /\ Talk(server, client, toClient', toServer, Down, Up, serverLog, clientLog)
        /\ Len(toClient') = Len(toClient)
    <3>1. Spoiled(toClient', toClient, i)
      BY <1>4 DEF Spoiled
    <3> QED
      BY <1>1, <3>1, TalkSpoils
  <2>2. Len(toClient') <= Len(toClient)
    BY <2>1, Lengths
  <2> QED
    BY <1>2, <1>4, <2>1, <2>2, DownstreamKeeps
<1> QED
  BY <1>3, <1>4 DEF Corrupt

LEMMA SessionStep == SessionIInv /\ [Next]_vars => SessionIInv'
<1> SUFFICES ASSUME SessionIInv, [Next]_vars PROVE SessionIInv'
  OBVIOUS
<1>1. CASE \E count \in 1..IngressLimit : ClientIngest(count) \/ ServerIngest(count)
  BY <1>1, ClientIngestKeeps, ServerIngestKeeps
<1>2. CASE \E count \in 1..MaxWire : ClientDrain(count) \/ ServerDrain(count)
  BY <1>2, ClientDrainKeeps, ServerDrainKeeps
<1>3. CASE \E count \in 1..WriteRecords : ClientWrite(count) \/ ServerWrite(count)
  BY <1>3, ClientWriteKeeps, ServerWriteKeeps
<1>4. CASE ClientRead \/ ServerRead
  BY <1>4, ClientReadKeeps, ServerReadKeeps
<1>5. CASE ClientFinish \/ ServerFinish
  BY <1>5, ClientFinishKeeps, ServerFinishKeeps
<1>6. CASE ClientClose \/ ServerClose
  BY <1>6, ClientCloseKeeps, ServerCloseKeeps
<1>7. CASE \E side \in {"Client", "Server"} : Cut(side)
  BY <1>7, CutKeeps
<1>8. CASE Lose \/ Discard \/ Corrupt
  BY <1>8, LoseKeeps, DiscardKeeps, CorruptKeeps
<1>9. CASE UNCHANGED vars
  <2>1. /\ client' = client /\ server' = server /\ toServer' = toServer /\ toClient' = toClient
        /\ cut' = cut /\ clientLog' = clientLog /\ serverLog' = serverLog
    BY <1>9 DEF vars
  <2>2. Up' = Up /\ Down' = Down
    BY <2>1 DEF Up, Down
  <2> QED
    BY <2>1, <2>2 DEF SessionIInv, WithinBounds
<1> QED
  BY <1>1, <1>2, <1>3, <1>4, <1>5, <1>6, <1>7, <1>8, <1>9 DEF Next

(***************************************************************************)
(* What the invariant says to the owners.                                  *)
(***************************************************************************)
LEMMA SoundTyped ==
  ASSUME NEW s, SessionSound(s)
  PROVE  SessionTypeOK(s)
<1>1. s \in SessionRecords /\ s.tls \in Engines
  BY SessionFields DEF SessionSound
<1>2. EngineTypeOK(s.tls)
  BY <1>1 DEF Engines, EngineTypeOK
<1>3. /\ s.plaintextBytes \in 0..MaxPlaintext /\ s.egressBytes \in 0..MaxEgress
      /\ s.peerClosure \in Closures /\ s.failure \in Diagnostics
      /\ s.opened \in BOOLEAN /\ s.closeNotifySent \in BOOLEAN
  BY <1>1 DEF SessionRecords
<1> QED
  BY <1>2, <1>3 DEF SessionTypeOK

\* A session that waits for nothing has nothing left to give.
LEMMA SoundExact ==
  ASSUME NEW s, SessionSound(s), s.failure = "None"
  PROVE  /\ s.egressBytes = Len(s.tls.sendable)
         /\ s.plaintextBytes = s.tls.plaintext
         /\ (s.peerClosure = "Clean" <=> s.tls.closed)
         /\ ~Status(s).wantsRead /\ ~Status(s).wantsWrite /\ Status(s).plaintext = 0 =>
              s.peerClosure # "Open"
<1>1. /\ s.egressBytes = Len(s.tls.sendable) /\ s.plaintextBytes = s.tls.plaintext
      /\ s.peerClosure = "Clean" <=> s.tls.closed
  BY DEF SessionSound
<1>2. /\ Status(s).wantsRead = (WantsRead(s.tls) /\ s.peerClosure = "Open" /\ s.failure = "None")
      /\ Status(s).wantsWrite = WantsWrite(s.tls)
      /\ Status(s).plaintext = s.plaintextBytes
  BY DEF Status
<1>3. ASSUME ~Status(s).wantsRead, ~Status(s).wantsWrite, Status(s).plaintext = 0
      PROVE  s.peerClosure # "Open"
  <2>1. ~WantsWrite(s.tls) /\ s.tls.plaintext = 0
    BY <1>1, <1>2, <1>3
  <2>2. s.peerClosure = "Open" => ~WantsRead(s.tls)
    BY <1>2, <1>3
  <2>3. s.peerClosure = "Open" => ~s.tls.closed
    BY <1>1
  <2> QED
    BY <2>1, <2>2, <2>3 DEF WantsRead
<1> QED
  BY <1>1, <1>3

\* The receiver's log never exceeds what was accepted and is exact at the end.
LEMMA FlowReadsWithin ==
  ASSUME NEW S, NEW W, NEW L, NEW R, NEW A, NEW G, Parties(S, W, L, R, A, G),
         Flow(S, W, L, R, A, G)
  PROVE  G.read <= A /\ (G.clean => G.read = A)
<1> DEFINE g == G.read
           r == R.tls.plaintext
           w == DataTo(W, Len(W))
           a == DataTo(S.tls.sendable, Len(S.tls.sendable))
<1>1. g \in Nat /\ r \in Nat /\ w \in Nat /\ a \in Nat /\ A \in Nat
  BY PartyFields
<1>2. g + r + w + a <= A /\ (G.clean => g = A)
  BY DEF Flow
<1>3. g <= A
  <2> HIDE DEF g, r, w, a
  <2> QED BY <1>1, <1>2
<1> QED
  BY <1>2, <1>3

LEMMA SessionSays == SessionIInv => SessionInv
<1> SUFFICES ASSUME SessionIInv PROVE SessionInv
  OBVIOUS
<1>1. /\ Talk(client, server, toServer, toClient, Up, Down, clientLog, serverLog)
      /\ WithinBounds
  BY BothSides
<1>2. /\ Parties(client, toServer, Up, server, clientLog.accepted, serverLog)
      /\ Parties(server, toClient, Down, client, serverLog.accepted, clientLog)
      /\ Flow(client, toServer, Up, server, clientLog.accepted, serverLog)
      /\ Flow(server, toClient, Down, client, serverLog.accepted, clientLog)
      /\ SessionSound(client) /\ SessionSound(server)
      /\ clientLog \in Logs /\ serverLog \in Logs
  BY <1>1, TalkParties
<1>3. ASSUME NEW s \in Sessions PROVE SessionSound(s)
  BY <1>2 DEF Sessions
<1>4. StreamExact
  BY <1>2, FlowReadsWithin DEF StreamExact
<1>5. TypeOK
  <2>1. /\ clientLog.accepted \in Nat /\ clientLog.read \in Nat
        /\ serverLog.accepted \in Nat /\ serverLog.read \in Nat
    BY <1>2 DEF Logs
  <2>2. /\ clientLog.accepted \in 0..ClientRecords /\ clientLog.read \in 0..ServerRecords
        /\ serverLog.accepted \in 0..ServerRecords /\ serverLog.read \in 0..ClientRecords
    BY <1>1, <1>4, <2>1, Lengths DEF WithinBounds, StreamExact
  <2>3. /\ clientLog \in [accepted : 0..ClientRecords, read : 0..ServerRecords, clean : BOOLEAN]
        /\ serverLog \in [accepted : 0..ServerRecords, read : 0..ClientRecords, clean : BOOLEAN]
    BY <1>2, <2>2 DEF Logs
  <2>4. \A s \in Sessions : SessionTypeOK(s)
    BY <1>3, SoundTyped
  <2> QED
    BY <1>1, <2>3, <2>4 DEF TypeOK, WithinBounds
<1>6. TruncationDeferred
  BY <1>3 DEF TruncationDeferred, SessionSound
<1>7. OpenAfterEgress
  <2>1. ASSUME NEW s \in Sessions, s.opened
        PROVE  ~IsHandshaking(s.tls)
               /\ "Flight" \notin {s.tls.sendable[i] : i \in DOMAIN s.tls.sendable}
    <3>1. s.tls.script = <<>> /\ \A i \in DOMAIN s.tls.sendable : s.tls.sendable[i] # "Flight"
      BY <1>3, <2>1 DEF SessionSound
    <3> QED
      BY <3>1 DEF IsHandshaking
  <2> QED
    BY <2>1 DEF OpenAfterEgress
<1>8. StatusExact
  BY <1>3, SoundExact DEF StatusExact
<1> QED
  BY <1>4, <1>5, <1>6, <1>7, <1>8 DEF SessionInv

\* Two sessions over streams that are cut, lose records or are corrupted at any
\* moment keep SessionInv: an owner reads no more than its peer had accepted and
\* is told of a clean end only when it has read all of it, truncation waits for
\* the plaintext that was authenticated, a session opens only when its handshake
\* has left, and the counters an owner plans with are those of rustls
\* (client_session.rs, client_io.rs, server_session.rs, server_io.rs).
THEOREM SessionsKeepTheirPromises == Spec => []SessionInv
<1>1. Init => SessionIInv
  BY SessionInit
<1>2. SessionIInv /\ [Next]_vars => SessionIInv'
  BY SessionStep
<1>3. SessionIInv => SessionInv
  BY SessionSays
<1> QED
  BY <1>1, <1>2, <1>3, PTL DEF Spec

=============================================================================
