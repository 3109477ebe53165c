------------------------------ MODULE MCClock ------------------------------
(* Values for the configurations of Clock. *)
EXTENDS Clock

\* A register of zeroes and one of ones.
NoiseValues == {0, 255}
=============================================================================
