--------------------------- MODULE MCPassDClient ---------------------------
(* Instances of PassDClient and SteadyActivity for TLC.                      *)
EXTENDS SteadyActivity

=============================================================================
