------------------------------ MODULE Companion ------------------------------
(***************************************************************************)
(* CompanionApp: the commands of the operator's app, and process_frame, the *)
(* perception - tracking - guidance - safety cycle run once per camera      *)
(* frame, between a flight controller, a pilot and a link that the Pi does  *)
(* not control.                                                            *)
(*                                                                         *)
(* The program is one asyncio loop: a command handler, and (outside Teach   *)
(* mode, which is not in this module) a frame, run to their end without     *)
(* another one in between, so each is one action.  A frame is the           *)
(* composition of its stages, operators from the Pi's state to the Pi's     *)
(* state in the order of the code.  Time passes between frames.             *)
(***************************************************************************)
EXTENDS ModeRequest, SafetySupervisor, TrackingLifecycle, TargetRecovery,
        AutoTakeoff, ApproachTest

CONSTANTS
    HoldAfter,      \* target_hold_after_unseen_s
    CarryMax,       \* detection_carry_max_s
    SwapFrames,     \* track_swap_frames
    DropFrames,     \* track_drop_frames
    RtlAfter,       \* comms_loss_rtl_s
    StopRepeats,    \* STOP_SETPOINT_REPEATS
    Scenarios       \* what may happen in a behaviour, by the scenario's name

\* What one frame finds.  dt is the time since the last one.  sight is what
\* the detector and the tracker make of it: no AI result at all, a miss, or a
\* match that looks like the remembered subject, like another one, or cannot be
\* compared.  better: another detection looks like the subject.  pick: the
\* pending selection hits a detection.  learns: its look can be remembered.
\* steer: what the controller computes.  written: the link takes writes.
Observation ==
    [dt : {0, 1}, sight : {"none", "miss", "self", "other", "unsure"},
     better : BOOLEAN, pick : BOOLEAN, learns : BOOLEAN, obstacle : BOOLEAN,
     range : {"near", "far", "none"}, steer : {"move", "zero", "none", "done"},
     tooFar : BOOLEAN, written : BOOLEAN]

\* A detection, to be picked or matched, needs a result to be in, and a box that
\* was just picked is matched at once.
Possible(o) ==
    /\ o.sight = "none" => ~o.pick /\ ~o.better
    /\ o.pick => o.sight # "miss"

\* A scenario names what varies in a behaviour, and holds the rest still: the
\* modes the operator commands, the values of auto_takeoff those commands carry,
\* the flight modes picked from the app's list, the parts of the world that
\* change, whether the aircraft is in the air at the start, what the clock counts
\* modulo (1 leaves it out), and what a frame may find.
IsScenario(s) ==
    /\ s.modes \subseteq Commanded
    /\ s.auto \subseteq BOOLEAN
    /\ s.dock \subseteq Modes
    /\ s.faults \subseteq {"armed", "ground", "height", "sticks", "comms", "stale",
                           "battery", "fence", "gps", "switch"}
    /\ s.airborne \in BOOLEAN
    /\ s.clock \in {1, 2}
    /\ \A o \in s.finds : o \in Observation /\ Possible(o)

ASSUME CompanionAssumption ==
    /\ {"GUIDED", "LOITER", "BRAKE", "RTL", "LAND"} \subseteq Modes
    /\ {HoldAfter, CarryMax, SwapFrames, DropFrames, RtlAfter, StopRepeats} \subseteq Nat \ {0}
    /\ HoldAfter <= ReacquireAfter
    /\ \A name \in DOMAIN Scenarios : IsScenario(Scenarios[name])

VARIABLES
    scenario,   \* the scenario of this behaviour
    pi,         \* the state of CompanionApp and of the controllers it owns
    world,      \* what telemetry, sticks and link report
    uplink,     \* the SET_MODE on its way to the flight controller, or NoMode
    tick,       \* the clock: it moves with every frame that comes later
    hist        \* what happened so far, for the properties

vars == <<scenario, pi, world, uplink, tick, hist>>

Given == Scenarios[scenario]

\* Why a flight mode is requested.
Why == {"retry", "command", "stop", "handback", "recovery", "failsafe", "land", "dock"}

\* What the latest step sent.  want is effective_requested_state, by the
\* supervisor state whose command the setpoint is.
Output ==
    [frame : BOOLEAN, asked : SUBSET (Modes \X Why), last : Report,
     setpoint : {"none", "zero", "move"}, by : SupervisorState \cup {"STOP"},
     want : SupervisorState, takeoff : BOOLEAN, holding : BOOLEAN,
     question : BOOLEAN, written : BOOLEAN]

Silent ==
    [frame |-> FALSE, asked |-> {}, last |-> NoMode, setpoint |-> "none", by |-> "IDLE",
     want |-> "IDLE", takeoff |-> FALSE, holding |-> FALSE, question |-> FALSE,
     written |-> FALSE]

Pi ==
    [requested : Commanded, track : Track, mismatch : 0 .. DropFrames, dropped : BOOLEAN,
     signature : BOOLEAN, selection : BOOLEAN, carried : 0 .. CarryMax + 1,
     recovery : Recovery, takeoff : Takeoff, approach : ApproachState,
     grid : {"IDLE", "SEARCHING", "FINISHED"}, lostFor : 0 .. RtlAfter + 1,
     latched : BOOLEAN, handed : BOOLEAN, stops : 0 .. StopRepeats,
     mode : Request \cup {NoRequest}, out : Output]

World ==
    [mode : Modes, armed : BOOLEAN, ground : BOOLEAN, high : BOOLEAN, sticks : BOOLEAN,
     comms : BOOLEAN, stale : BOOLEAN, battery : {"good", "low", "critical"},
     fence : BOOLEAN, gps : BOOLEAN]

TypeOK ==
    /\ scenario \in DOMAIN Scenarios
    /\ pi \in Pi
    /\ world \in World
    /\ uplink \in Report
    /\ tick \in {0, 1}
    /\ hist \in [stopped : BOOLEAN, coasting : BOOLEAN, asked : BOOLEAN, fired : 0 .. 2,
                 approached : BOOLEAN, breached : {"no", "masked", "seen"}, planned : BOOLEAN]

Init ==
    /\ scenario \in DOMAIN Scenarios
    /\ pi = [requested |-> "IDLE", track |-> NoTrack, mismatch |-> 0, dropped |-> FALSE,
             signature |-> FALSE, selection |-> FALSE, carried |-> CarryMax + 1,
             recovery |-> NoRecovery, takeoff |-> NoTakeoff, approach |-> "IDLE",
             grid |-> "IDLE", lostFor |-> 0, latched |-> FALSE, handed |-> FALSE,
             stops |-> 0, mode |-> NoRequest, out |-> Silent]
    /\ world = [mode |-> "LOITER", armed |-> Given.airborne, ground |-> ~Given.airborne,
                high |-> FALSE, sticks |-> FALSE, comms |-> TRUE, stale |-> FALSE,
                battery |-> "good", fence |-> FALSE, gps |-> TRUE]
    /\ uplink = NoMode
    /\ tick = 0
    /\ hist = [stopped |-> FALSE, coasting |-> FALSE, asked |-> FALSE, fired |-> 0,
               approached |-> FALSE, breached |-> "no", planned |-> FALSE]

Guided == world.mode = "GUIDED"

\* "This Pi is the one holding the aircraft."
PiInControl == world.armed /\ Guided

Critical == world.battery = "critical"

-----------------------------------------------------------------------------
(* The stages of a frame: operators on the Pi's state c and an observation o. *)

\* set_mode: one packet, and the request to watch.
Asking(out, m, why) == [out EXCEPT !.asked = @ \cup {<<m, why>>}, !.last = m]

AskMode(c, m, why) ==
    [c EXCEPT !.mode = Fresh(m, world.mode), !.out = Asking(@, m, why)]

AlwaysRetry == TRUE

\* allow_retry: not while the pilot has the sticks.
AllowRetry == ~world.sticks

\* check_pending_mode, the first thing a frame does.
ResolveMode(c, o) ==
    LET p == IF o.dt = 0 THEN c.mode ELSE Older(c.mode)
    IN  [c EXCEPT !.mode = Checked(p, world.mode, AllowRetry),
                  !.out = IF Resent(p, world.mode, AllowRetry)
                          THEN Asking(@, p.mode, "retry") ELSE @]

\* _detections_for: results are carried over for a while, then the frame counts
\* as one that sees nothing.
Carried(age, o) ==
    IF o.sight # "none" THEN 0
    ELSE IF age + o.dt > CarryMax THEN CarryMax + 1 ELSE age + o.dt

\* The time since the last frame, and what the frame brings.
Perceive(c, o) ==
    [c EXCEPT !.carried = Carried(@, o),
              !.track = Passing(@, o.dt),
              !.recovery = Searching(@, o.dt)]

\* detections_fresh
Informed(c, o) == o.sight # "none" \/ c.carried > CarryMax

\* start() on a detection of this frame, and learn() its look.
Relock(c, o) == [c EXCEPT !.track = Started, !.signature = @ \/ o.learns]

\* The operator's pending selection takes effect on a frame with a real result.
Select(c, o) ==
    IF ~(c.selection /\ Informed(c, o)) THEN c
    ELSE IF o.pick THEN [Relock(c, o) EXCEPT !.mismatch = 0, !.selection = FALSE]
    ELSE [c EXCEPT !.selection = FALSE]

TrackTarget(c, o) ==
    [c EXCEPT !.track = IF Informed(c, o)
                        THEN Updated(@, o.sight \in {"self", "other", "unsure"})
                        ELSE Coasted(@)]

\* A lost target is found again by its look.
Rematch(c, o) ==
    IF c.track.phase = "TARGET_LOST" /\ c.signature /\ Informed(c, o) /\ o.better
    THEN Relock(c, o) ELSE c

\* _verify_tracked_identity: a box that keeps looking wrong is swapped for one
\* that looks right, or given up.
Verify(c, o) ==
    LET wrong == c.mismatch + 1
    IN  CASE o.sight = "self" -> [c EXCEPT !.mismatch = 0]
          [] o.sight = "other" /\ wrong >= SwapFrames /\ o.better ->
                [Relock(c, o) EXCEPT !.mismatch = 0]
          [] o.sight = "other" /\ wrong >= DropFrames /\ ~(wrong >= SwapFrames /\ o.better) ->
                [c EXCEPT !.mismatch = 0, !.track = Dropped(@), !.dropped = TRUE]
          [] o.sight = "other" /\ wrong < DropFrames /\ ~(wrong >= SwapFrames /\ o.better) ->
                [c EXCEPT !.mismatch = wrong]
          [] OTHER -> c

Identify(c, o) ==
    LET tracking == c.track.phase = "TRACKING"
        d == IF tracking THEN [c EXCEPT !.dropped = FALSE] ELSE c
    IN  IF ~(tracking /\ c.signature) THEN [d EXCEPT !.mismatch = 0]
        ELSE IF Informed(c, o) THEN Verify(d, o) ELSE d

\* Stick override while in GUIDED: ask for LOITER once, so that the sticks work.
HandBack(c) ==
    LET now == world.sticks /\ Guided
        d == IF now /\ ~c.handed THEN AskMode(c, "LOITER", "handback") ELSE c
    IN  [d EXCEPT !.handed = now]

\* Target-loss recovery: start it, advance it, act on what it says.
Recover(c, o) ==
    LET lost == c.track.phase = "TARGET_LOST" /\ c.requested \in {"FOLLOWING", "ORBITING"}
        r == IF lost THEN SearchStarted(c.recovery) ELSE c.recovery
        result == RecoveryResult(r, c.track.phase = "TRACKING", Critical /\ o.tooFar)
        d == [c EXCEPT !.recovery = RecoveryAfter(r, result)]
    IN  CASE result \in {"IDLE", "FOUND"} -> [d EXCEPT !.out.want = c.requested]
          [] result = "SEARCHING" -> [d EXCEPT !.out.want = "SEARCHING"]
          [] result = "AWAITING" -> [d EXCEPT !.out.want = "IDLE"]
          [] result = "ASK_LAND" -> [d EXCEPT !.out.want = "IDLE", !.out.question = TRUE]
          [] result = "RTL" ->
                LET e == [d EXCEPT !.requested = "IDLE", !.out.want = "IDLE"]
                IN  IF ~world.sticks /\ PiInControl THEN AskMode(e, "RTL", "recovery") ELSE e

\* _takeoff_refusal_reason
TakeoffRefused == ~world.gps \/ world.battery # "good"

\* Auto-takeoff sequencing.
Climb(c, o) ==
    LET action == TakeoffAction(c.takeoff, o.dt, world.armed, Guided, world.high)
        t == TakeoffAfter(c.takeoff, o.dt, action)
        toIdle == [c EXCEPT !.takeoff = NoTakeoff, !.requested = "IDLE", !.out.want = "IDLE"]
    IN  CASE action = "send_takeoff" /\ TakeoffRefused -> toIdle
          [] action = "send_takeoff" /\ ~TakeoffRefused ->
                [c EXCEPT !.takeoff = IF o.written THEN t ELSE TakeoffRetried(t),
                          !.out.takeoff = o.written, !.out.holding = TRUE]
          [] action = "hold" -> [c EXCEPT !.takeoff = t, !.out.holding = TRUE]
          [] action = "timed_out" -> toIdle
          [] action \in {"ready", "none"} -> [c EXCEPT !.takeoff = t]

LostSinceThisFrame(c, o) == IF world.comms THEN 0 ELSE 1

\* _comms_lost_since.  0 while the app is there, else one more than the ticks
\* since a frame first missed it.
LostFor(c, o) ==
    IF world.comms THEN 0
    ELSE IF c.lostFor = 0 THEN 1
    ELSE IF c.lostFor + o.dt > RtlAfter THEN RtlAfter + 1 ELSE c.lostFor + o.dt

NeverLatched(c) == FALSE

\* Once per episode.
Latched(c) == c.latched

\* _update_failsafe_rtl
Failsafe(c, o) ==
    LET d == [c EXCEPT !.lostFor = LostFor(c, o)]
    IN  IF d.lostFor <= RtlAfter /\ ~Critical THEN [d EXCEPT !.latched = FALSE]
        ELSE IF Latched(d) \/ ~PiInControl \/ world.sticks THEN d
        ELSE [AskMode(d, "RTL", "failsafe") EXCEPT
                 !.latched = TRUE, !.requested = "IDLE", !.takeoff = NoTakeoff]

ConditionsOf(c, o) ==
    [stale |-> world.stale, sticks |-> world.sticks, fence |-> world.fence,
     critical |-> Critical, obstacle |-> o.obstacle, comms |-> world.comms,
     guided |-> Guided, tracking |-> c.track.phase, want |-> c.out.want]

SeenAtAll(c) == HasTarget(c.track)

\* target_seen_recently
SeenRecently(c) == HasTarget(c.track) /\ c.track.unseen < HoldAfter

ApproachInput(c, o) ==
    [tracked |-> c.track.phase = "TRACKING" /\ SeenRecently(c), comms |-> world.comms,
     sticks |-> world.sticks, fence |-> world.fence, range |-> o.range]

\* GridSearchController.compute with a fresh position and a good fix: a command,
\* none without a heading, or the last waypoint reached.
GridRuns(c) == c.grid = "SEARCHING" /\ world.gps

GridAfter(c, o) == IF GridRuns(c) /\ o.steer = "done" THEN "FINISHED" ELSE c.grid

\* The guidance dispatch: the controller of the decided state computes the
\* command (none, a hold, a motion) ...
CommandOf(c, o, s) ==
    CASE s = "SEARCHING" -> "move"
      [] s \in {"FOLLOWING", "ORBITING"} ->
            IF ~HasTarget(c.track) THEN "none"
            ELSE IF SeenRecently(c) /\ ~c.dropped /\ o.steer = "move" THEN "move" ELSE "zero"
      [] s = "APPROACHING" -> ApproachCommand(c.approach, ApproachInput(c, o))
      [] s = "GRID_SEARCH" ->
            IF GridRuns(c) /\ o.steer \in {"move", "zero"} THEN o.steer ELSE "none"
      [] OTHER -> "none"

\* ... unless an auto-takeoff or the ground holds it back.
Dispatch(c, o) ==
    LET s == Decision(ConditionsOf(c, o))
        allowed == GuidanceAllowed(ConditionsOf(c, o))
        runs == ~c.out.holding /\ ~(allowed /\ world.ground)
        grid == IF runs /\ s = "GRID_SEARCH" THEN GridAfter(c, o) ELSE c.grid
        command == IF runs /\ allowed THEN CommandOf(c, o, s) ELSE "none"
    IN  [c EXCEPT
            !.approach = IF runs /\ s = "APPROACHING"
                         THEN ApproachAfter(@, ApproachInput(c, o)) ELSE @,
            !.grid = grid,
            !.requested = IF runs /\ s = "GRID_SEARCH" /\ grid = "FINISHED" THEN "IDLE" ELSE @,
            !.out.setpoint = IF o.written THEN command ELSE "none",
            !.out.by = s]

NoStop(c, o) == c

NotDeferred(c) == FALSE

\* A setpoint, also a stop, would cancel a takeoff.
Deferred(c) == c.out.holding

\* _enforce_stop_after_guidance: after a motion, a frame that sends nothing
\* sends a stop, several times.
EnforceStop(c, o) ==
    IF c.out.setpoint # "none"
    THEN [c EXCEPT !.stops = IF c.out.setpoint = "move" THEN StopRepeats ELSE 0]
    ELSE IF c.stops = 0 \/ Deferred(c) THEN c
    ELSE IF ~Guided THEN [c EXCEPT !.stops = 0]
    ELSE IF o.written
         THEN [c EXCEPT !.stops = @ - 1, !.out.setpoint = "zero", !.out.by = "STOP"]
         ELSE c

\* process_frame
Processed(o) ==
    LET c0 == [pi EXCEPT !.out = [Silent EXCEPT !.frame = TRUE, !.written = o.written]]
        c1 == Select(Perceive(ResolveMode(c0, o), o), o)
        c2 == Identify(Rematch(TrackTarget(c1, o), o), o)
        c3 == Climb(Recover(HandBack(c2), o), o)
    IN  EnforceStop(Dispatch(Failsafe(c3, o), o), o)

-----------------------------------------------------------------------------
(* What the properties remember. *)

\* The flight controller keeps flying the last setpoint until it gets another.
CoastingAfter(c) ==
    CASE c.out.setpoint = "move" -> TRUE
      [] c.out.setpoint = "zero" -> FALSE
      [] c.out.setpoint = "none" -> hist.coasting

FailsafeFired(c) == <<"RTL", "failsafe">> \in c.out.asked

AfterFrame(c, o) ==
    [hist EXCEPT
        !.coasting = CoastingAfter(c),
        !.asked = c.out.question \/ (@ /\ c.track.phase # "TRACKING"),
        !.fired = IF c.lostFor <= RtlAfter /\ ~Critical THEN 0
                  ELSE IF FailsafeFired(c) /\ @ < 2 THEN @ + 1 ELSE @,
        !.approached = @ \/ (c.out.setpoint = "move" /\ c.out.by = "APPROACHING"),
        !.breached = IF ~(hist.approached /\ MustAbort(ApproachInput(c, o))) THEN @
                     ELSE IF c.out.by = "APPROACHING" /\ ~world.ground THEN "seen"
                     ELSE IF @ = "no" THEN "masked" ELSE @,
        !.planned = @ /\ c.requested = "GRID_SEARCH"]

Tick(o) == tick' = (tick + o.dt) % Given.clock

-----------------------------------------------------------------------------
(* Actions: the operator's app. *)

\* What a step of the Pi puts on the link to the flight controller.
Transmit == uplink' = IF pi'.out.last = NoMode THEN uplink ELSE pi'.out.last

\* A command arrives over a link that it thereby shows to be alive.
FromApp == world.comms

EnteringWhenIdle(m) == m = "GRID_SEARCH" /\ pi.grid = "IDLE"

\* Freshly entering Grid Search, not resending its parameters.
Entering(m) == m = "GRID_SEARCH" /\ pi.requested # "GRID_SEARCH"

\* _on_mode_command.  planned: the area of a grid search is given and valid.
ModeCommand(m, auto, planned) ==
    LET entering == Entering(m)
        mode == IF entering /\ ~(planned /\ world.gps) THEN "IDLE" ELSE m
        c == [pi EXCEPT
                !.out = Silent,
                !.recovery = IF m \in {"FOLLOWING", "ORBITING"} THEN @ ELSE NoRecovery,
                !.grid = IF entering /\ mode = "GRID_SEARCH" THEN "SEARCHING"
                         ELSE IF entering \/ m # "GRID_SEARCH" THEN "IDLE" ELSE @,
                !.takeoff = IF mode = pi.requested THEN @
                            ELSE IF auto /\ mode \in GuidedModes THEN TakeoffStarted
                            ELSE NoTakeoff,
                !.requested = mode,
                !.approach = IF mode = "APPROACHING" THEN "APPROACHING" ELSE "IDLE"]
    IN  /\ FromApp
        /\ pi' = IF mode \in GuidedModes /\ ~world.sticks /\ ~Guided
                 THEN AskMode(c, "GUIDED", "command") ELSE c
        /\ Transmit
        /\ hist' = [hist EXCEPT !.stopped = FALSE, !.approached = FALSE,
                                !.breached = "no",
                                !.asked = @ /\ m \in {"FOLLOWING", "ORBITING"},
                                !.planned = (@ \/ entering) /\ mode = "GRID_SEARCH"]
        /\ UNCHANGED <<world, tick>>

StoppedInName(c) == [c EXCEPT !.requested = "IDLE"]

\* What STOP ends: everything that is under way.
Stopped(c) ==
    [c EXCEPT !.requested = "IDLE", !.approach = "IDLE", !.grid = "IDLE",
              !.takeoff = NoTakeoff, !.mismatch = 0, !.dropped = FALSE, !.track = NoTrack,
              !.signature = FALSE, !.recovery = NoRecovery, !.selection = FALSE]

\* _on_abort, the app's STOP.
Abort ==
    LET c == [Stopped(pi) EXCEPT !.out = Silent]
    IN  /\ FromApp
        /\ pi' = IF world.sticks THEN c ELSE AskMode(c, "BRAKE", "stop")
        /\ Transmit
        /\ hist' = [hist EXCEPT !.stopped = TRUE, !.asked = FALSE, !.planned = FALSE]
        /\ UNCHANGED <<world, tick>>

\* _on_target_selected
SelectTarget ==
    /\ FromApp
    /\ pi' = [pi EXCEPT !.selection = TRUE, !.out = Silent]
    /\ UNCHANGED <<world, uplink, tick, hist>>

\* _on_set_flight_mode: the flight-mode list of the app.
SetFlightMode(m) ==
    /\ FromApp
    /\ pi' = AskMode([pi EXCEPT !.out = Silent], m, "dock")
    /\ Transmit
    /\ UNCHANGED <<world, tick, hist>>

AnyTime == TRUE

\* awaiting_land_confirmation
QuestionOpen == pi.recovery.phase = "AWAITING"

\* _on_land_confirmation_response.  A stray answer changes nothing.
AnswerLand(approved) ==
    LET c == [pi EXCEPT !.out = Silent, !.recovery = Confirming(@), !.requested = "IDLE"]
    IN  /\ FromApp
        /\ QuestionOpen
        /\ pi' = IF approved THEN AskMode(c, "LAND", "land") ELSE c
        /\ Transmit
        /\ hist' = [hist EXCEPT !.asked = @ /\ approved, !.planned = FALSE]
        /\ UNCHANGED <<world, tick>>

Frame(o) ==
    /\ pi' = Processed(o)
    /\ Transmit
    /\ Tick(o)
    /\ hist' = AfterFrame(pi', o)
    /\ UNCHANGED world

-----------------------------------------------------------------------------
(* The flight controller, the pilot, the aircraft and the links. *)

\* The flight controller leaves GUIDED or is disarmed: nothing is left to fly.
WorldEffect(w) ==
    [hist EXCEPT !.coasting = @ /\ w.mode = "GUIDED" /\ w.armed]

Become(w) ==
    /\ world' = w
    /\ w # world
    /\ pi' = [pi EXCEPT !.out = Silent]
    /\ hist' = WorldEffect(w)
    /\ UNCHANGED tick

\* The SET_MODE on its way is accepted ...
FcAccept ==
    /\ uplink # NoMode
    /\ uplink' = NoMode
    /\ world' = [world EXCEPT !.mode = uplink]
    /\ pi' = [pi EXCEPT !.out = Silent]
    /\ hist' = WorldEffect(world')
    /\ UNCHANGED tick

\* ... or lost, or refused.
FcIgnore ==
    /\ uplink # NoMode
    /\ uplink' = NoMode
    /\ pi' = [pi EXCEPT !.out = Silent]
    /\ UNCHANGED <<world, tick, hist>>

\* The pilot's mode switch.
PilotSwitch ==
    /\ "switch" \in Given.faults
    /\ \E m \in {"LOITER", "GUIDED"} : Become([world EXCEPT !.mode = m])
    /\ UNCHANGED uplink

MoveSticks ==
    /\ "sticks" \in Given.faults
    /\ Become([world EXCEPT !.sticks = ~@])
    /\ UNCHANGED uplink

\* The aircraft is armed and disarmed on the ground.
ArmOrDisarm ==
    /\ "armed" \in Given.faults
    /\ world.ground
    /\ Become([world EXCEPT !.armed = ~@])
    /\ UNCHANGED uplink

\* It leaves the ground and lands ...
LiftOffOrLand ==
    /\ "ground" \in Given.faults
    /\ world.armed /\ ~world.high
    /\ Become([world EXCEPT !.ground = ~@])
    /\ UNCHANGED uplink

\* ... and gains and loses the height of the takeoff.
ClimbOrDescend ==
    /\ "height" \in Given.faults
    /\ world.armed /\ ~world.ground
    /\ Become([world EXCEPT !.high = ~@])
    /\ UNCHANGED uplink

CommsChange ==
    /\ "comms" \in Given.faults
    /\ Become([world EXCEPT !.comms = ~@])
    /\ UNCHANGED uplink

\* A subsystem of HeartbeatWatchdog goes stale, or is heard again.
HeartbeatChange ==
    /\ "stale" \in Given.faults
    /\ Become([world EXCEPT !.stale = ~@])
    /\ UNCHANGED uplink

BatteryDrains ==
    /\ "battery" \in Given.faults
    /\ \E b \in {"low", "critical"} :
           /\ world.battery = "good" \/ b = "critical"
           /\ Become([world EXCEPT !.battery = b])
    /\ UNCHANGED uplink

FenceChange ==
    /\ "fence" \in Given.faults
    /\ Become([world EXCEPT !.fence = ~@])
    /\ UNCHANGED uplink

GpsChange ==
    /\ "gps" \in Given.faults
    /\ Become([world EXCEPT !.gps = ~@])
    /\ UNCHANGED uplink

Operator ==
    \/ \E m \in Given.modes : \E auto \in Given.auto :
           \E planned \in (IF m = "GRID_SEARCH" THEN BOOLEAN ELSE {TRUE}) :
               ModeCommand(m, auto, planned)
    \/ Abort \/ SelectTarget
    \/ \E m \in Given.dock : SetFlightMode(m)
    \/ \E approved \in BOOLEAN : AnswerLand(approved)

Environment ==
    \/ FcAccept \/ FcIgnore \/ PilotSwitch \/ MoveSticks \/ ArmOrDisarm
    \/ LiftOffOrLand \/ ClimbOrDescend \/ CommsChange \/ HeartbeatChange \/ BatteryDrains
    \/ FenceChange \/ GpsChange

Next ==
    /\ Operator \/ Environment \/ \E o \in Given.finds : Frame(o)
    /\ UNCHANGED scenario

Spec == Init /\ [][Next]_vars

\* Frames keep coming, and time passes between them (in a scenario whose clock is 2).  A
\* frame is always possible, so this is their weak fairness.
FairSpec == Spec /\ []<><<tick' # tick>>_vars
==============================================================================
