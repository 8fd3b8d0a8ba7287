---------------------------- MODULE MCTcpTransport ----------------------------
(***************************************************************************)
(* Model checking of the TCP adapter.  The system stops once the transport *)
(* has ended and the kernel has nothing left to do.                        *)
(***************************************************************************)
EXTENDS TcpTransport

BothPolicies == BOOLEAN

=============================================================================
