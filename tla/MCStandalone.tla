----------------------------- MODULE MCStandalone -----------------------------
(***************************************************************************)
(* Small instances of StandaloneConnection.                                *)
(***************************************************************************)
EXTENDS StandaloneConnection

OneIdentity == {"epoch"}

=============================================================================
