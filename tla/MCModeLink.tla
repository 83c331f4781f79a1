----------------------------- MODULE MCModeLink -----------------------------
(* The flight modes for model checking ModeLink. *)
EXTENDS ModeLink

CONSTANTS LOITER, GUIDED, BRAKE

MCModes == {LOITER, GUIDED, BRAKE}
==============================================================================
