-------------------------- MODULE MCLiveInversions --------------------------
(* LiveInversions with the lines of MCEventParser. *)
EXTENDS LiveInversions, MCEventParser
=============================================================================
