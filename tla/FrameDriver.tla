----------------------------- MODULE FrameDriver -----------------------------
(***************************************************************************)
(* The bounded driver around a protocol's incremental decoder              *)
(* (bornera-core, framing/driver.rs).                                      *)
(*                                                                         *)
(* A driver is a value.  The decoder itself is protocol code: what it      *)
(* keeps, what it extracts and when it fails is a choice, so a call has a  *)
(* set of results [driver, error, frame].                                  *)
(***************************************************************************)
EXTENDS Integers

CONSTANTS
  DecoderBytes,   \* DecoderLimits::buffered_bytes
  Replies,        \* frames a decoder may extract: [key, bytes]
  DecoderFaults   \* decoder misbehaviours to include

ASSUME DecoderAssumption ==
  /\ DecoderBytes \in Nat \ {0}
  /\ DecoderFaults \subseteq {"Error", "Retained"}
  /\ Replies \subseteq [key : Int, bytes : Nat]

NoFrame == [key |-> -1, bytes |-> 0]

Driver == [retained : Nat, failed : BOOLEAN]
NewDriver == [retained |-> 0, failed |-> FALSE]

DriverResult(driver, error, frame) ==
  [driver |-> driver, error |-> error, frame |-> frame]

Malformed(d) ==
  IF "Error" \in DecoderFaults
  THEN {DriverResult([d EXCEPT !.failed = TRUE], "Decoder", NoFrame)} ELSE {}

\* What the decoder reports retaining instead of the bytes it should: as much as
\* it may, or more.
Misreports == IF "Retained" \in DecoderFaults THEN {DecoderBytes, DecoderBytes + 1} ELSE {}

\* The decoder is asked again what it retains after every call.
ValidateRetained(d, frame) ==
  IF d.retained > DecoderBytes
  THEN DriverResult([d EXCEPT !.failed = TRUE], "RetainedContractViolation", NoFrame)
  ELSE DriverResult(d, "None", frame)

\* A chunk that does not fit is refused whole and stays with the caller.
Feed(d, incoming) ==
  IF d.failed THEN {DriverResult(d, "DecoderFailed", NoFrame)}
  ELSE IF d.retained + incoming > DecoderBytes
  THEN {DriverResult(d, "RetainedByteCapacity", NoFrame)}
  ELSE Malformed(d)
         \cup {ValidateRetained([d EXCEPT !.retained = r], NoFrame)
                 : r \in {d.retained + incoming} \cup Misreports}

\* Extracting a frame frees at least one retained byte; an incomplete frame
\* keeps what was buffered.
NextFrame(d) ==
  IF d.failed THEN {DriverResult(d, "DecoderFailed", NoFrame)}
  ELSE Malformed(d)
         \cup {ValidateRetained(d, NoFrame)}
         \cup {ValidateRetained([d EXCEPT !.retained = r], frame)
                 : r \in 0..(d.retained - 1) \cup Misreports, frame \in Replies}

=============================================================================
