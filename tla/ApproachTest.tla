----------------------------- MODULE ApproachTest -----------------------------
(***************************************************************************)
(* ApproachTestController: a slow approach that any one of several          *)
(* conditions ends for good, until the operator starts it again.            *)
(***************************************************************************)

ApproachState == {"IDLE", "APPROACHING", "STOPPED_AT_BOUNDARY", "ABORTED"}

\* range is the distance estimate: "near" is at or within min_boundary_m, or a
\* contact; "far" is beyond it; "none" is no estimate.
ApproachInputs ==
    [tracked : BOOLEAN, comms : BOOLEAN, sticks : BOOLEAN, fence : BOOLEAN,
     range : {"near", "far", "none"}]

MustAbort(in) == ~in.tracked \/ ~in.comms \/ in.sticks \/ in.fence

ApproachForgives(a, in) ==
    IF a = "APPROACHING" /\ in.range = "near" THEN "STOPPED_AT_BOUNDARY" ELSE a

\* update(): the state afterwards ...
ApproachAfter(a, in) ==
    IF a # "APPROACHING" THEN a
    ELSE IF MustAbort(in) THEN "ABORTED"
    ELSE CASE in.range = "near" -> "STOPPED_AT_BOUNDARY"
           [] in.range = "none" -> "ABORTED"
           [] in.range = "far" -> "APPROACHING"

\* ... and its command: forward, an explicit stop at the boundary, or none.
ApproachCommand(a, in) ==
    IF a # "APPROACHING" THEN "none"
    ELSE CASE ApproachAfter(a, in) = "APPROACHING" -> "move"
           [] ApproachAfter(a, in) = "STOPPED_AT_BOUNDARY" -> "zero"
           [] ApproachAfter(a, in) = "ABORTED" -> "none"
==============================================================================
