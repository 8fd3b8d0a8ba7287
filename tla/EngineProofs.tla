---------------------------- MODULE EngineProofs ----------------------------
(***************************************************************************)
(* What a rustls connection does with the records it is given, in the form *)
(* the proofs about its two adapters need it.                              *)
(***************************************************************************)
EXTENDS RustlsEngine, NaturalsInduction, WellFoundedInduction, TLAPS, FiniteSetTheorems, SequenceTheorems

(***************************************************************************)
(* Induction over the naturals below a bound, and iteration of a step,     *)
(* stated for sets and functions so that they can be cited.                *)
(***************************************************************************)

\* A non-empty set of naturals has a least element.
LEMMA LeastNatural ==
  ASSUME NEW T, T \subseteq Nat, T # {}
  PROVE  \E x \in T : \A y \in T : x <= y
<1> DEFINE R == OpToRel(<, Nat)
<1>1. \E x \in T : \A y \in T : ~(<<y, x>> \in R)
  BY NatLessThanWellFounded, WFMin
<1>2. ASSUME NEW x \in Nat, NEW y \in Nat, y < x
      PROVE  <<y, x>> \in R
  <2>1. <<y, x>> \in Nat \X Nat /\ <<y, x>>[1] = y /\ <<y, x>>[2] = x
    OBVIOUS
  <2>2. <<y, x>>[1] < <<y, x>>[2]
    BY <1>2, <2>1
  <2> QED
    BY <2>1, <2>2, Zenon DEF OpToRel
<1> HIDE DEF R
<1>3. PICK x \in T : \A y \in T : ~(<<y, x>> \in R)
  BY <1>1
<1>4. \A y \in T : ~(y < x)
  BY <1>2, <1>3
<1>5. \A y \in T : x <= y
  BY <1>4
<1> QED
  BY <1>5

\* A property of naturals below n, given as the set of those that have it, that
\* holds of 0 and passes from each number to the next holds of all.
LEMMA BoundedInduction ==
  ASSUME NEW n \in Nat, NEW G, 0 \in G,
         \A i \in 0..(n - 1) : i \in G => i + 1 \in G
  PROVE  0..n \subseteq G
<1> DEFINE T == {i \in 0..n : i \notin G}
<1>1. SUFFICES ASSUME T # {} PROVE FALSE
  OBVIOUS
<1>2. T \subseteq Nat
  OBVIOUS
<1>3. PICK x \in T : \A y \in T : x <= y
  <2> HIDE DEF T
  <2> QED BY <1>1, <1>2, LeastNatural
<1>4. x # 0
  OBVIOUS
<1>5. x - 1 \in 0..(n - 1) /\ x - 1 \notin T
  BY <1>3, <1>4
<1>6. x - 1 \in G
  BY <1>5
<1>7. x \in G
  BY <1>5, <1>6
<1> QED
  BY <1>7

Steps(S, n) == [1..n -> [S -> S]]

IsIteration(f, S, n, base, step) ==
  /\ f \in [0..n -> S]
  /\ f[0] = base
  /\ \A i \in 1..n : f[i] = step[i][f[i - 1]]

\* Iterating a step function n times gives a function on 0..n.
LEMMA IterationExists ==
  ASSUME NEW S, NEW n \in Nat, NEW base \in S, NEW step \in Steps(S, n)
  PROVE  \E f : IsIteration(f, S, n, base, step)
<1> USE DEF Steps
<1> DEFINE Iterates(f, k) ==
             f[0] = base /\ \A i \in 1..k : f[i] = step[i][f[i - 1]]
           G == {k \in 0..n : \E f \in [0..k -> S] : Iterates(f, k)}
<1>1. 0 \in G
  <2> DEFINE f == [i \in 0..0 |-> base]
  <2>1. f \in [0..0 -> S] /\ Iterates(f, 0)
    OBVIOUS
  <2> HIDE DEF Iterates, f
  <2> QED
    BY <2>1
<1>2. ASSUME NEW k \in 0..(n - 1), k \in G
      PROVE  k + 1 \in G
  <2>1. PICK f \in [0..k -> S] : Iterates(f, k)
    BY <1>2
  <2> DEFINE g == [i \in 0..(k + 1) |-> IF i = k + 1 THEN step[k + 1][f[k]] ELSE f[i]]
  <2>2. step[k + 1][f[k]] \in S
    <3>1. f[k] \in S /\ k + 1 \in 1..n
      OBVIOUS
    <3> QED
      BY <3>1
  <2>3. g \in [0..(k + 1) -> S]
    BY <2>2
  <2>4. g[0] = base
    BY <2>1
  <2>5. ASSUME NEW i \in 1..(k + 1)
        PROVE  g[i] = step[i][g[i - 1]]
    <3>1. CASE i = k + 1
      <4>1. g[i - 1] = f[k]
        BY <3>1
      <4> QED
        BY <3>1, <4>1
    <3>2. CASE i # k + 1
      <4>1. i \in 1..k /\ g[i] = f[i] /\ g[i - 1] = f[i - 1]
        BY <3>2
      <4> QED
        BY <2>1, <4>1
    <3> QED
      BY <3>1, <3>2
  <2>6. Iterates(g, k + 1)
    BY <2>4, <2>5
  <2>7. k + 1 \in 0..n
    OBVIOUS
  <2> HIDE DEF Iterates, g
  <2> QED
    BY <2>3, <2>6, <2>7
<1>3. n \in G
  <2> HIDE DEF G
  <2>1. 0..n \subseteq G
    BY <1>1, <1>2, BoundedInduction
  <2> QED
    BY <2>1
<1> QED
  BY <1>3 DEF IsIteration

Engines ==
  [script : Seq(Seq(Records)), sendable : Seq(Records), plaintext : Nat,
   closed : BOOLEAN, eof : BOOLEAN, sentClose : BOOLEAN, failed : BOOLEAN]

\* The connection after a change of each of its parts.
LEMMA EngineAfter ==
  ASSUME NEW t \in Engines
  PROVE  /\ \A s \in Seq(Records) :
              /\ [t EXCEPT !.sendable = s] \in Engines
              /\ [t EXCEPT !.sendable = s].sendable = s
              /\ [t EXCEPT !.sendable = s].script = t.script
              /\ [t EXCEPT !.sendable = s].plaintext = t.plaintext
              /\ [t EXCEPT !.sendable = s].closed = t.closed
              /\ [t EXCEPT !.sendable = s].eof = t.eof
              /\ [t EXCEPT !.sendable = s].sentClose = t.sentClose
              /\ [t EXCEPT !.sendable = s].failed = t.failed
         /\ \A n \in Nat : [t EXCEPT !.plaintext = n] \in Engines
         /\ \A s \in Seq(Seq(Records)) : [t EXCEPT !.script = s] \in Engines
         /\ [t EXCEPT !.closed = TRUE] \in Engines
         /\ [t EXCEPT !.eof = TRUE] \in Engines
         /\ [t EXCEPT !.sentClose = TRUE] \in Engines
         /\ [t EXCEPT !.failed = TRUE] \in Engines
<1>1. ASSUME NEW s \in Seq(Records)
      PROVE  /\ [t EXCEPT !.sendable = s] \in Engines
             /\ [t EXCEPT !.sendable = s].sendable = s
             /\ [t EXCEPT !.sendable = s].script = t.script
             /\ [t EXCEPT !.sendable = s].plaintext = t.plaintext
             /\ [t EXCEPT !.sendable = s].closed = t.closed
             /\ [t EXCEPT !.sendable = s].eof = t.eof
             /\ [t EXCEPT !.sendable = s].sentClose = t.sentClose
             /\ [t EXCEPT !.sendable = s].failed = t.failed
  BY DEF Engines
<1>2. \A n \in Nat : [t EXCEPT !.plaintext = n] \in Engines
  BY DEF Engines
<1>3. \A s \in Seq(Seq(Records)) : [t EXCEPT !.script = s] \in Engines
  BY DEF Engines
<1>4. [t EXCEPT !.closed = TRUE] \in Engines /\ [t EXCEPT !.eof = TRUE] \in Engines
  BY DEF Engines
<1>5. [t EXCEPT !.sentClose = TRUE] \in Engines /\ [t EXCEPT !.failed = TRUE] \in Engines
  BY DEF Engines
<1> QED
  BY <1>1, <1>2, <1>3, <1>4, <1>5

\* Queued records follow what is already there.
LEMMA QueueEffect ==
  ASSUME NEW t \in Engines, NEW records \in Seq(Records)
  PROVE  /\ Queue(t, records) \in Engines
         /\ Queue(t, records).sendable = t.sendable \o records
         /\ Queue(t, records).script = t.script
         /\ Queue(t, records).plaintext = t.plaintext
         /\ Queue(t, records).closed = t.closed
         /\ Queue(t, records).eof = t.eof
         /\ Queue(t, records).sentClose = t.sentClose
         /\ Queue(t, records).failed = t.failed
<1>1. t.sendable \o records \in Seq(Records)
  BY DEF Engines
<1> DEFINE s == t.sendable \o records
<1>2. Queue(t, records) = [t EXCEPT !.sendable = s]
  BY DEF Queue, Engines
<1> HIDE DEF s
<1>3. s \in Seq(Records)
  BY <1>1 DEF s
<1>4. /\ Queue(t, records) \in Engines
      /\ Queue(t, records).sendable = s
      /\ Queue(t, records).script = t.script
      /\ Queue(t, records).plaintext = t.plaintext
      /\ Queue(t, records).closed = t.closed
      /\ Queue(t, records).eof = t.eof
      /\ Queue(t, records).sentClose = t.sentClose
      /\ Queue(t, records).failed = t.failed
  BY <1>2, <1>3 DEF Engines
<1> QED
  BY <1>4 DEF s

\* What one record can do, as a relation between the connection before and after.
Ignores(t, r, u) == u = t /\ (t.closed \/ t.failed \/ r = "Ticket")

Acts(t, r, u) ==
  /\ ~t.closed /\ ~t.failed /\ u.failed = FALSE
  /\ \/ /\ r = "CloseNotify" /\ ~IsHandshaking(t)
        /\ u.closed = TRUE
        /\ u.script = t.script /\ u.sendable = t.sendable /\ u.plaintext = t.plaintext
     \/ /\ r = "Flight" /\ IsHandshaking(t)
        /\ u.script = Tail(t.script) /\ u.sendable = t.sendable \o Head(t.script)
        /\ u.plaintext = t.plaintext /\ u.closed = t.closed
     \/ /\ r = "Data" /\ ~IsHandshaking(t)
        /\ u.plaintext = t.plaintext + 1
        /\ u.script = t.script /\ u.sendable = t.sendable /\ u.closed = t.closed
     \/ /\ r = "KeyUpdate" /\ ~IsHandshaking(t)
        /\ u.sendable = t.sendable \o <<"KeyUpdate">>
        /\ u.script = t.script /\ u.plaintext = t.plaintext /\ u.closed = t.closed

Rejects(t, r, u) ==
  /\ ~t.closed /\ ~t.failed /\ u.failed = TRUE
  /\ r # "Ticket" /\ (r = "CloseNotify" => IsHandshaking(t))
  /\ u.sendable \in {t.sendable, t.sendable \o <<"Alert">>}
  /\ u.script = t.script /\ u.plaintext = t.plaintext /\ u.closed = t.closed

LEMMA RecordEffect ==
  ASSUME NEW t \in Engines, NEW r \in Records
  PROVE  LET u == ProcessRecord(t, r)
         IN  /\ u \in Engines
             /\ u.eof = t.eof /\ u.sentClose = t.sentClose
             /\ Ignores(t, r, u) \/ Acts(t, r, u) \/ Rejects(t, r, u)
<1> DEFINE u == ProcessRecord(t, r)
<1> SUFFICES /\ u \in Engines /\ u.eof = t.eof /\ u.sentClose = t.sentClose
             /\ Ignores(t, r, u) \/ Acts(t, r, u) \/ Rejects(t, r, u)
  OBVIOUS
<1>1. CASE t.closed \/ t.failed \/ r = "Ticket"
  <2>1. u = t
    BY <1>1 DEF ProcessRecord
  <2> QED
    BY <1>1, <2>1 DEF Ignores
<1>2. CASE ~t.closed /\ ~t.failed /\ r = "CloseNotify" /\ ~IsHandshaking(t)
  <2>1. u = [t EXCEPT !.closed = TRUE]
    BY <1>2 DEF ProcessRecord
  <2>2. u \in Engines
    BY <2>1, EngineAfter
  <2>3. /\ u.script = t.script /\ u.sendable = t.sendable /\ u.plaintext = t.plaintext
        /\ u.closed = TRUE /\ u.eof = t.eof /\ u.sentClose = t.sentClose /\ u.failed = t.failed
    BY <2>1 DEF Engines
  <2>4. t.failed = FALSE
    BY <1>2 DEF Engines
  <2> HIDE DEF u
  <2> QED
    BY <1>2, <2>2, <2>3, <2>4 DEF Acts
<1>3. CASE ~t.closed /\ ~t.failed /\ r = "Flight" /\ IsHandshaking(t)
  <2> DEFINE v == [t EXCEPT !.script = Tail(t.script)]
  <2>1. u = Queue(v, Head(t.script))
    BY <1>3 DEF ProcessRecord, Engines
  <2>2. Tail(t.script) \in Seq(Seq(Records)) /\ Head(t.script) \in Seq(Records)
    BY <1>3 DEF Engines, IsHandshaking
  <2>3. v \in Engines
    BY <2>2, EngineAfter
  <2>4. /\ v.script = Tail(t.script) /\ v.sendable = t.sendable /\ v.plaintext = t.plaintext
        /\ v.closed = t.closed /\ v.eof = t.eof /\ v.sentClose = t.sentClose
        /\ v.failed = FALSE
    BY <1>3 DEF Engines
  <2> HIDE DEF v
  <2>5. /\ u \in Engines
        /\ u.sendable = v.sendable \o Head(t.script)
        /\ u.script = v.script /\ u.plaintext = v.plaintext /\ u.closed = v.closed
        /\ u.eof = v.eof /\ u.sentClose = v.sentClose /\ u.failed = v.failed
    <3> HIDE DEF u
    <3> QED
      BY <2>1, <2>2, <2>3, QueueEffect, Zenon
  <2> HIDE DEF u
  <2> QED
    BY <1>3, <2>4, <2>5 DEF Acts
<1>4. CASE ~t.closed /\ ~t.failed /\ r = "Data" /\ ~IsHandshaking(t)
  <2>1. u = [t EXCEPT !.plaintext = t.plaintext + 1]
    BY <1>4 DEF ProcessRecord, Engines
  <2>2. t.plaintext + 1 \in Nat
    BY DEF Engines
  <2>3. u \in Engines
    <3> HIDE DEF u
    <3> QED
      BY <2>1, <2>2 DEF Engines
  <2>4. /\ u.script = t.script /\ u.sendable = t.sendable /\ u.plaintext = t.plaintext + 1
        /\ u.closed = t.closed /\ u.eof = t.eof /\ u.sentClose = t.sentClose
        /\ u.failed = FALSE
    BY <1>4, <2>1 DEF Engines
  <2> HIDE DEF u
  <2> QED
    BY <1>4, <2>3, <2>4 DEF Acts
<1>5. CASE ~t.closed /\ ~t.failed /\ r = "KeyUpdate" /\ ~IsHandshaking(t)
  <2>1. u = Queue(t, <<"KeyUpdate">>)
    BY <1>5 DEF ProcessRecord
  <2>2. <<"KeyUpdate">> \in Seq(Records)
    BY DEF Records
  <2>3. /\ u \in Engines
        /\ u.sendable = t.sendable \o <<"KeyUpdate">>
        /\ u.script = t.script /\ u.plaintext = t.plaintext /\ u.closed = t.closed
        /\ u.eof = t.eof /\ u.sentClose = t.sentClose /\ u.failed = t.failed
    <3> HIDE DEF u
    <3> QED
      BY <2>1, <2>2, QueueEffect, Zenon
  <2>4. t.failed = FALSE
    BY <1>5 DEF Engines
  <2> HIDE DEF u
  <2> QED
    BY <1>5, <2>3, <2>4 DEF Acts
<1>6. CASE ~t.closed /\ ~t.failed /\ r = "Alert"
  <2>1. u = [t EXCEPT !.failed = TRUE]
    BY <1>6 DEF ProcessRecord
  <2>2. u \in Engines
    BY <2>1, EngineAfter
  <2>3. /\ u.script = t.script /\ u.sendable = t.sendable /\ u.plaintext = t.plaintext
        /\ u.closed = t.closed /\ u.eof = t.eof /\ u.sentClose = t.sentClose
        /\ u.failed = TRUE
    BY <2>1 DEF Engines
  <2> HIDE DEF u
  <2> QED
    BY <1>6, <2>2, <2>3 DEF Rejects
<1>7. CASE /\ ~t.closed /\ ~t.failed
           /\ r \notin {"Ticket", "Alert"}
           /\ ~(r = "CloseNotify" /\ ~IsHandshaking(t))
           /\ ~(r = "Flight" /\ IsHandshaking(t))
           /\ ~(r = "Data" /\ ~IsHandshaking(t))
           /\ ~(r = "KeyUpdate" /\ ~IsHandshaking(t))
  <2> DEFINE v == [t EXCEPT !.failed = TRUE]
  <2>1. u = Queue(v, <<"Alert">>)
    BY <1>7 DEF ProcessRecord
  <2>2. <<"Alert">> \in Seq(Records)
    BY DEF Records
  <2>3. v \in Engines
    BY EngineAfter
  <2>4. /\ v.script = t.script /\ v.sendable = t.sendable /\ v.plaintext = t.plaintext
        /\ v.closed = t.closed /\ v.eof = t.eof /\ v.sentClose = t.sentClose
        /\ v.failed = TRUE
    BY DEF Engines
  <2> HIDE DEF v
  <2>5. /\ u \in Engines
        /\ u.sendable = v.sendable \o <<"Alert">>
        /\ u.script = v.script /\ u.plaintext = v.plaintext /\ u.closed = v.closed
        /\ u.eof = v.eof /\ u.sentClose = v.sentClose /\ u.failed = v.failed
    <3> HIDE DEF u
    <3> QED
      BY <2>1, <2>2, <2>3, QueueEffect, Zenon
  <2> HIDE DEF u
  <2> QED
    BY <1>7, <2>4, <2>5 DEF Rejects
<1> QED
  BY <1>1, <1>2, <1>3, <1>4, <1>5, <1>6, <1>7

\* Process is the iteration of ProcessRecord over the records.
LEMMA ProcessIterates ==
  ASSUME NEW t \in Engines, NEW records \in Seq(Records)
  PROVE  \E after \in [0..Len(records) -> Engines] :
           /\ after[0] = t
           /\ \A i \in 1..Len(records) : after[i] = ProcessRecord(after[i - 1], records[i])
           /\ after[Len(records)] = Process(t, records)
<1> DEFINE n == Len(records)
           Next1(x, i) == ProcessRecord(x, records[i])
           step == [i \in 1..n |-> [x \in Engines |-> Next1(x, i)]]
<1>1. \A i \in 1..n : \A x \in Engines : Next1(x, i) \in Engines
  BY RecordEffect
<1>2. Process(t, records)
        = (CHOOSE g : g = [i \in 0..n |-> IF i = 0 THEN t ELSE Next1(g[i - 1], i)])[n]
  BY DEF Process
<1>3. n \in Nat
  OBVIOUS
<1> HIDE DEF n, Next1
<1>4. step \in Steps(Engines, n)
  BY <1>1 DEF Steps
<1>5. PICK f : IsIteration(f, Engines, n, t, step)
  <2> HIDE DEF step
  <2> QED BY <1>3, <1>4, IterationExists
<1>6. f = [i \in 0..n |-> IF i = 0 THEN t ELSE Next1(f[i - 1], i)]
  <2>1. /\ f \in [0..n -> Engines]
        /\ f[0] = t
        /\ \A i \in 1..n : f[i] = step[i][f[i - 1]]
    <3> HIDE DEF step
    <3> QED BY <1>5 DEF IsIteration
  <2>2. \A i \in 1..n : f[i - 1] \in Engines
    BY <1>3, <2>1
  <2>3. \A i \in 1..n : f[i] = Next1(f[i - 1], i)
    BY <2>1, <2>2
  <2>4. \A i \in 0..n : f[i] = IF i = 0 THEN t ELSE Next1(f[i - 1], i)
    BY <1>3, <2>1, <2>3
  <2> HIDE DEF step
  <2> QED
    BY <2>1, <2>4
<1> DEFINE after == CHOOSE g : g = [i \in 0..n |-> IF i = 0 THEN t ELSE Next1(g[i - 1], i)]
           G == {i \in 0..n : after[i] \in Engines}
<1>7. after = [i \in 0..n |-> IF i = 0 THEN t ELSE Next1(after[i - 1], i)]
  BY <1>6
<1>8. after[n] = Process(t, records)
  BY <1>2
<1> HIDE DEF after
<1>9. 0 \in G
  BY <1>3, <1>7
<1>10. \A i \in 1..n : after[i] = Next1(after[i - 1], i)
  BY <1>3, <1>7
<1>11. ASSUME NEW i \in 0..(n - 1), i \in G PROVE i + 1 \in G
  <2>1. i + 1 \in 0..n /\ i + 1 \in 1..n /\ (i + 1) - 1 = i
    BY <1>3
  <2>2. after[i + 1] = Next1(after[i], i + 1)
    BY <1>10, <2>1
  <2> QED
    BY <1>1, <1>11, <2>1, <2>2
<1>12. 0..n \subseteq G
  <2> HIDE DEF G
  <2> QED
    BY <1>3, <1>9, <1>11, BoundedInduction
<1>13. after \in [0..n -> Engines]
  BY <1>7, <1>12
<1>14. after[0] = t
  BY <1>3, <1>7
<1> QED
  BY <1>8, <1>10, <1>13, <1>14 DEF n, Next1

=============================================================================
