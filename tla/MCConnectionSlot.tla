--------------------------- MODULE MCConnectionSlot ---------------------------
(***************************************************************************)
(* Small instances of ConnectionSlot.  A decoder may emit a reply with the *)
(* only key in use (0) or with one that the protocol cannot classify (-2). *)
(***************************************************************************)
EXTENDS SlotProperties

Opt(class, completion, deadline) ==
  [class |-> class, completion |-> completion, retained |-> 1,
   writeRetained |-> 1, deadline |-> deadline]

SlotOptions == {Opt("Session", "ReplyExpected", 1)}
SlotReplies == {[key |-> 0, bytes |-> 1], [key |-> -2, bytes |-> 0]}

LiveReplies == {[key |-> 0, bytes |-> 1]}

=============================================================================
