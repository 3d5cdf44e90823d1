------------------------------- MODULE MCProbe -------------------------------
(* Values for the constants of ProbeFirmware that a .cfg cannot write. *)
EXTENDS ProbeFirmware

\* A plain request, zero, one above the limit and a negative number, which
\* the cast to uint32_t turns into a large one.
MCSecondsArgs == {0, 2, -1}
=============================================================================
