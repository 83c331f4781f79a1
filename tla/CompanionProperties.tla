------------------------- MODULE CompanionProperties -------------------------
(***************************************************************************)
(* What CompanionApp promises: about the motions it commands, about the     *)
(* flight modes it asks for, and that nothing it starts goes on forever.    *)
(* pi.out is what the latest step sent.                                     *)
(***************************************************************************)
EXTENDS Companion

Moves == pi.out.setpoint = "move"

AskedFor(m, reasons) == \E why \in reasons : <<m, why>> \in pi.out.asked

-----------------------------------------------------------------------------
(* Motions. *)

\* Whatever the stages of the frame decided, a motion reaches the flight
\* controller only in GUIDED, with the pilot off the sticks, the app and every
\* subsystem alive, no fence breach, battery enough, and off the ground
\* (process_frame's dispatch, evaluate, and the aborts of Approach-Test).
MotionIsGated ==
    Moves =>
        /\ Guided /\ ~world.sticks /\ ~world.stale /\ world.comms
        /\ ~world.fence /\ ~Critical /\ ~world.ground

\* Follow, Orbit and Approach-Test move only towards a target seen less than
\* target_hold_after_unseen_s ago and never towards a box whose identity was
\* given up (target_fresh, through selection, tracking, loss and rematch).
SteersOnlyOnASeenTarget ==
    Moves /\ pi.out.by \in TargetModes =>
        HasTarget(pi.track) /\ pi.track.unseen < HoldAfter /\ ~pi.dropped

\* When the motions cease, the aircraft is not left flying the last one: the
\* first frame that can write sends a stop, unless it belongs to a takeoff,
\* which the stop would cancel (_enforce_stop_after_guidance).
NoCoasting ==
    pi.out.frame /\ hist.coasting => Moves \/ ~pi.out.written \/ pi.out.holding

\* After STOP nothing that was under way (a selection, a search, a takeoff, an
\* approach, a sweep) makes the Pi move the aircraft or take off before the
\* operator commands a mode again (_on_abort).
StopIsFinal == hist.stopped => ~Moves /\ ~pi.out.takeoff

\* No setpoint, not even a stop, is sent during the climb: any would cancel the
\* takeoff (auto_takeoff_holding).
ClimbIsUndisturbed ==
    pi.out.frame /\ pi.takeoff.phase = "CLIMBING" => pi.out.setpoint = "none"

\* Once Approach-Test has moved the aircraft and has then itself seen one of the
\* conditions that must abort it, it does not go on when the condition clears
\* (ApproachTestController; wiki/Guidance-Modes.md).  It sees them only on frames
\* on which the supervisor and the land detector leave it in charge.
SeenAbortIsSticky ==
    hist.breached = "seen" => ~(Moves /\ pi.out.by = "APPROACHING")

\* A sweep is flown only by the plan made when its mode was entered: one left
\* over from before a STOP, a failsafe or another mode is never taken up again
\* (the resets in _on_mode_command and _on_abort; _update_failsafe_rtl has none).
SweepIsCurrent == Moves /\ pi.out.by = "GRID_SEARCH" => hist.planned

\* What all that is for: the program moves the aircraft only in the name of the
\* mode the operator commanded, or of a search begun under one; it loses that
\* mandate in many ways and never takes one up by itself, and sends nothing into a
\* takeoff.  requested and the controllers implement MotionAuthority.
Authority == INSTANCE MotionAuthority WITH
    Mandates <- Commanded, Steering <- GuidedModes, Searchable <- {"FOLLOWING", "ORBITING"},
    mandate <- pi.requested,
    searching <- RecoveryActive(pi.recovery),
    climbing <- TakeoffActive(pi.takeoff),
    granted <- (Guided /\ ~world.sticks),
    flown <- [setpoint |-> IF Moves THEN pi.out.by ELSE pi.out.setpoint,
              takeoff |-> pi.out.takeoff]

ActsOnAMandate == Authority!AuthoritySpec

-----------------------------------------------------------------------------
(* Flight modes. *)

\* A flight mode is requested on the Pi's own account only while the pilot is
\* off the sticks, and RTL only while the Pi is the one flying the aircraft
\* (the six call sites of set_mode and check_pending_mode).
NeverFightsThePilot ==
    /\ (\E m \in Modes : AskedFor(m, {"retry", "command", "stop", "recovery", "failsafe"}))
           => ~world.sticks
    /\ AskedFor("RTL", {"recovery", "failsafe"}) => PiInControl

\* STOP is not followed by a GUIDED the operator did not ask for
\* (wiki/Guidance-Modes.md: "never re-engages GUIDED after STOP on its own").
NeverGuidedAfterStop == hist.stopped => ~AskedFor("GUIDED", {"retry", "command"})

\* LAND is commanded only in answer to a question that was put to the operator
\* and that nothing has settled since: the target found, STOP, another mode
\* (_on_land_confirmation_response).
LandOnlyWhenAsked == AskedFor("LAND", {"land"}) => hist.asked

\* The failsafe asks for RTL at most once while its cause lasts, however often
\* the pilot changes the mode meanwhile (_failsafe_rtl_latched).
FailsafeOncePerEpisode == hist.fired <= 1

-----------------------------------------------------------------------------
(* What must end, and what must happen. *)

\* A search ends: found, RTL, or the question (search_timeout_s).
SearchEnds == pi.recovery.phase = "SEARCHING" ~> pi.recovery.phase # "SEARCHING"

\* The operator asks for a takeoff in another mode: its time begins anew.
StartsTakeoff == pi'.takeoff = TakeoffStarted /\ pi'.requested # pi.requested

\* An auto-takeoff ends: height reached, refused or timed out (timeout_s), unless
\* the operator keeps starting others.
TakeoffEnds ==
    <>[][~StartsTakeoff]_vars => (TakeoffActive(pi.takeoff) ~> ~TakeoffActive(pi.takeoff))

\* A target that is not seen is found again or declared lost, also when the
\* detector stops giving results (reacquire_timeout_s, detection_carry_max_s).
ReacquireEnds == pi.track.phase = "REACQUIRE" ~> pi.track.phase # "REACQUIRE"

\* An aircraft left in GUIDED without an operator is called home
\* (_update_failsafe_rtl).
LostAircraftCalledHome ==
    <>[](~world.comms /\ PiInControl /\ ~world.sticks) => <>[](hist.fired > 0)
==============================================================================
