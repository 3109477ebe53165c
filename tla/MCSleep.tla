------------------------------ MODULE MCSleep ------------------------------
(* Values for the configuration of Sleep. *)
EXTENDS Sleep

\* None, half a slice, and one, two, three and four of them.
SleepDurations == {0, 1, 2, 4, 6, 8}
=============================================================================
