-------------------------- MODULE SafetySupervisor --------------------------
(***************************************************************************)
(* SafetySupervisor.evaluate: the one gate every guidance command passes.   *)
(* It keeps no state that its answer depends on, so it is an operator on    *)
(* the conditions of the moment.  The order of its returns decides only     *)
(* which reason the app is shown; any one of them withholds guidance.       *)
(***************************************************************************)
EXTENDS Naturals

\* The modes an operator can command, and the two states only the program
\* enters: the target-loss search, and SAFE.
Commanded ==
    {"IDLE", "TRACKING", "FOLLOWING", "ORBITING", "APPROACHING", "GRID_SEARCH"}

SupervisorState == Commanded \cup {"SEARCHING", "SAFE"}

\* MODES_REQUIRING_GUIDED: everything but the vision-only modes.
GuidedModes == Commanded \ {"IDLE", "TRACKING"}

\* The modes that steer on the selected target.
TargetModes == {"FOLLOWING", "ORBITING", "APPROACHING"}

TrackingState == {"IDLE", "TRACKING", "REACQUIRE", "TARGET_LOST"}

Conditions ==
    [stale : BOOLEAN, sticks : BOOLEAN, fence : BOOLEAN, critical : BOOLEAN,
     obstacle : BOOLEAN, comms : BOOLEAN, guided : BOOLEAN,
     tracking : TrackingState, want : SupervisorState]

WithheldDeaf(in) ==
    in.stale \/ in.sticks \/ in.critical \/ in.obstacle \/ ~in.guided

\* Approach-Test makes its own, sticky, abort of a fence breach.
Withheld(in) ==
    \/ in.stale
    \/ in.sticks
    \/ in.fence /\ in.want # "APPROACHING"
    \/ in.critical
    \/ in.obstacle
    \/ ~in.comms
    \/ ~in.guided
    \/ in.tracking = "TARGET_LOST" /\ in.want \in TargetModes

Decision(in) == IF Withheld(in) THEN "SAFE" ELSE in.want

GuidanceAllowed(in) == Decision(in) \in GuidedModes \cup {"SEARCHING"}
==============================================================================
