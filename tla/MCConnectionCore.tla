--------------------------- MODULE MCConnectionCore ---------------------------
(***************************************************************************)
(* Small instances of ConnectionCore.                                      *)
(***************************************************************************)
EXTENDS CoreProperties

Opt(class, completion, bytes, deadline) ==
  [class |-> class, completion |-> completion, retained |-> bytes,
   writeRetained |-> bytes, deadline |-> deadline]

\* Session and regular requests, with and without a reply.
MCOptions ==
  {Opt("Session", "ReplyExpected", 2, 1),
   Opt("Regular", "ReplyExpected", 1, 1),
   Opt("Regular", "WriteComplete", 2, 1)}

\* An empty frame, a one-byte frame and a two-byte one.
MCFrames ==
  {[wire |-> 0, retained |-> 1], [wire |-> 1, retained |-> 1],
   [wire |-> 2, retained |-> 2]}

\* Session work only, for runs that need more operations in flight.
SessionOptions ==
  {Opt("Session", "ReplyExpected", 1, 1), Opt("Session", "WriteComplete", 1, 1)}

SessionFrames == {[wire |-> 2, retained |-> 1]}

=============================================================================
