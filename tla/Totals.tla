-------------------------------- MODULE Totals --------------------------------
(***************************************************************************)
(* What reservations, given with the operations that hold them, add up to. *)
(***************************************************************************)
EXTENDS FiniteSetsExt

\* The sum of one byte count over pairs <<operation, reservation>>.
Total(field, reservations) == MapThenSumSet(LAMBDA r : r[2][field], reservations)

=============================================================================
