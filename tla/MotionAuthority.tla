--------------------------- MODULE MotionAuthority ---------------------------
(***************************************************************************)
(* Who may move the aircraft, without cameras, trackers and timers.  Two     *)
(* keys must be turned: the operator's mandate, a mode commanded in the app, *)
(* and the flight controller's grant, GUIDED with the pilot off the sticks.  *)
(* The program loses a mandate in many ways and never acquires one by        *)
(* itself.  Only what was begun under a mandate, a target-loss search or a   *)
(* takeoff, can outlive it, and STOP ends these too.                         *)
(* Companion implements this (Authority in CompanionProperties).             *)
(***************************************************************************)
CONSTANTS
    Mandates,       \* the modes an operator can command
    Steering,       \* those of them that move the aircraft
    Searchable      \* those of them that may search for a lost target

VARIABLES
    mandate,        \* the mode that was commanded, or IDLE
    searching,      \* a target-loss search, or its question, is under way
    climbing,       \* an auto-takeoff is under way
    granted,        \* the flight controller and the pilot let the program fly
    flown           \* what the latest step sent: a stop, a motion in the name of
                    \* a state, or nothing; and whether it sent the takeoff

authorityVars == <<mandate, searching, climbing, granted, flown>>

Nothing == [setpoint |-> "none", takeoff |-> FALSE]

AuthorityInit ==
    mandate = "IDLE" /\ ~searching /\ ~climbing /\ ~granted /\ flown = Nothing

\* The operator commands mode m, or asks for what is refused and leaves IDLE.
\* A takeoff comes with a change of mode, and a further change ends it.
Command(m) ==
    /\ mandate' \in {m, "IDLE"}
    /\ searching' => searching /\ m \in Searchable
    /\ climbing' => IF mandate' = mandate THEN climbing ELSE mandate' \in Steering
    /\ flown' = Nothing
    /\ UNCHANGED granted

\* STOP.
Stop ==
    /\ mandate' = "IDLE" /\ ~searching' /\ ~climbing'
    /\ flown' = Nothing
    /\ UNCHANGED granted

\* The operator's answer to the question of a search.
Answer ==
    /\ searching
    /\ mandate' = "IDLE" /\ ~searching'
    /\ flown' = Nothing
    /\ UNCHANGED <<climbing, granted>>

\* In whose name this step may move the aircraft: the mandate's, which it then
\* keeps, or a search's.
Entitled(by) ==
    \/ by = mandate /\ mandate' = mandate /\ by \in Steering
    \/ by = "SEARCHING" /\ searching' /\ (searching \/ mandate \in Searchable)

\* A frame.
Fly ==
    /\ mandate' \in {mandate, "IDLE"}
    /\ searching' => searching \/ mandate \in Searchable
    /\ climbing' => climbing /\ flown'.setpoint = "none"
    /\ flown'.takeoff => climbing /\ flown'.setpoint = "none"
    /\ flown'.setpoint \notin {"none", "zero"} => granted /\ Entitled(flown'.setpoint)
    /\ UNCHANGED granted

\* The world and the pilot.
Quiet ==
    /\ flown' = Nothing
    /\ UNCHANGED <<mandate, searching, climbing>>

AuthorityNext == (\E m \in Mandates : Command(m)) \/ Stop \/ Answer \/ Fly \/ Quiet

AuthoritySpec == AuthorityInit /\ [][AuthorityNext]_authorityVars
==============================================================================
