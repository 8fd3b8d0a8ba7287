-------------------------- MODULE MCRustlsTransport --------------------------
(***************************************************************************)
(* Model checking of the TLS adapter.  The system stops once the transport *)
(* has ended and the kernel has nothing left to do.                        *)
(***************************************************************************)
EXTENDS TlsProperties

BothVersions == {12, 13}
WithKeepalive == {TRUE}
AllRecords == {"Data", "Ticket", "KeyUpdate", "CloseNotify", "Bad"}

=============================================================================
