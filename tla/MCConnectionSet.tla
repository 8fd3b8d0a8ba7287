--------------------------- MODULE MCConnectionSet ---------------------------
(***************************************************************************)
(* Small instances of ConnectionSet.  The identities are strings so that   *)
(* an empty table slot can be told from them.                              *)
(***************************************************************************)
EXTENDS SetProperties

OneIdentity == {"epoch"}

=============================================================================
