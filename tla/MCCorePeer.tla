------------------------------ MODULE MCCorePeer ------------------------------
(***************************************************************************)
(* Small instances of CorePeer: session requests with and without a reply, *)
(* frames of two bytes, taken whole or torn, fewer keys than operations.   *)
(***************************************************************************)
EXTENDS CorePeer

PeerOptions ==
  {[class |-> "Session", completion |-> completion, retained |-> 1,
    writeRetained |-> 1, deadline |-> 1] : completion \in Completions}

PeerFrames == {[wire |-> 2, retained |-> 1]}

=============================================================================
