--------------------------- MODULE VelocityLimits ---------------------------
(***************************************************************************)
(* The velocity a guidance controller asks for: FollowController and        *)
(* OrbitController, whose errors go through PIDs, a speed cap the operator   *)
(* moves, an acceleration limiter and the altitude limits, and              *)
(* GridSearchController, which limits less; with what process_frame does to *)
(* them around the call: a reset when a controller does not run, the time    *)
(* step after a stalled camera, the slower cap of Teach mode.               *)
(*                                                                         *)
(* What a PID answers is any value within its output limit.  Speeds are      *)
(* whole units; NED, so that a positive vz descends.  The turn rate is left  *)
(* out: nothing but its PID's own limit bounds it.                          *)
(***************************************************************************)
EXTENDS Integers

CONSTANTS
    Kinds,          \* the controllers looked at
    SpeedCeiling,   \* max_speed_mps of the configuration
    MinSpeed,       \* min_speed_mps, the slider's floor
    MaxReverse,     \* max_reverse_speed_mps
    SearchSpeed,    \* search_speed_mps and max_speed_mps of the grid search
    TeachSpeed,     \* custom_max_speed_mps
    Accel,          \* max_accel_mps2, per tick of the clock
    MaxControlDt,   \* MAX_CONTROL_DT_S, in ticks
    Altitudes,      \* the altitudes telemetry may report
    NoAltitude,     \* fresh_alt_m() of old or missing telemetry
    Floor,          \* min_altitude_m
    Ceiling,        \* max_altitude_m
    SliderSpeeds    \* what a mode command may carry as a maximal speed

ASSUME VelocityAssumption ==
    /\ Kinds \subseteq {"FOLLOWING", "ORBITING", "GRID_SEARCH"}
    /\ SpeedCeiling \in Nat /\ MinSpeed \in 0 .. SpeedCeiling
    /\ {MaxReverse, SearchSpeed, TeachSpeed, Accel, MaxControlDt} \subseteq Nat
    /\ Altitudes \subseteq Int /\ NoAltitude \notin Int
    /\ Floor \in Int /\ Ceiling \in Int
    /\ SliderSpeeds \subseteq Int

VARIABLES
    kind,       \* the controller of this behaviour
    cap,        \* limits["max_speed_mps"], as set_max_speed() left it
    limiter,    \* the value of the acceleration limiter of each axis
    teaching,   \* a taught object is followed (_custom_object)
    command,    \* the velocity last asked for
    frame,      \* the latest frame: did the controller run, with which step,
                \* altitude and cap
    relaxed     \* was a limit raised since the controller last ran?

vars == <<kind, cap, limiter, teaching, command, frame, relaxed>>

Axes == {"vx", "vy", "vz"}

Velocity == [Axes -> Int]

Still == [a \in Axes |-> 0]

TypeOK ==
    /\ kind \in Kinds
    /\ cap \in MinSpeed .. SpeedCeiling
    /\ limiter \in Velocity
    /\ teaching \in BOOLEAN
    /\ command \in Velocity
    /\ frame \in [ran : BOOLEAN, dt : Nat, altitude : Altitudes \cup {NoAltitude},
                  cap : MinSpeed .. SpeedCeiling]
    /\ relaxed \in BOOLEAN

Init ==
    /\ kind \in Kinds
    /\ cap = SpeedCeiling
    /\ limiter = Still
    /\ teaching \in BOOLEAN
    /\ command = Still
    /\ frame = [ran |-> FALSE, dt |-> 0, altitude |-> NoAltitude, cap |-> cap]
    /\ relaxed = FALSE

-----------------------------------------------------------------------------
(* limits.py *)

Clamp(x, low, high) == IF x < low THEN low ELSE IF x > high THEN high ELSE x

Within(x, bound) == Clamp(x, -bound, bound)

Lesser(x, y) == IF x < y THEN x ELSE y

Slewed(value, target, step) == value + Within(target - value, step)

\* apply_altitude_limits
AltitudeLimited(vz, altitude) ==
    IF \/ altitude = NoAltitude
       \/ altitude <= Floor /\ vz > 0
       \/ altitude >= Ceiling /\ vz < 0
    THEN 0 ELSE vz

-----------------------------------------------------------------------------
(* The controllers. *)

WholeRange(x, speed) == Within(x, speed)

\* _clamp_vx: backwards, where the camera does not look, it goes slower.
ClampedVx(x, speed) == Clamp(x, -Lesser(speed, MaxReverse), speed)

JustLimited(vz, altitude, speed) == Within(vz, speed)

\* The last clamp of vz: slewing must not carry it where the limit refused it.
FinalVz(vz, altitude, speed) == AltitudeLimited(Within(vz, speed), altitude)

\* What the limiters hold after compute(), from what they held before: the
\* vertical one is overridden with the final value, the others are not.
SlewedAll(held, wish, step, altitude) ==
    [vx |-> Slewed(held["vx"], ClampedVx(wish["vx"], cap), step),
     vy |-> Slewed(held["vy"], wish["vy"], step),
     vz |-> Slewed(held["vz"], AltitudeLimited(wish["vz"], altitude), step)]

Phantom(slewed, altitude) == slewed

Overridden(slewed, altitude) ==
    [slewed EXCEPT !["vz"] = FinalVz(@, altitude, cap)]

\* What compute() of Follow and Orbit returns for them.
Capped(slewed, altitude) ==
    [vx |-> ClampedVx(slewed["vx"], cap),
     vy |-> Within(slewed["vy"], cap),
     vz |-> FinalVz(slewed["vz"], altitude, cap)]

\* What the PIDs, and the strafe of Orbit, may ask for.
Wishes ==
    IF kind = "GRID_SEARCH"
    THEN [vx : {0, SearchSpeed}, vy : {0}, vz : -SearchSpeed .. SearchSpeed]
    ELSE [vx : -cap .. cap, vy : IF kind = "ORBITING" THEN 0 .. cap ELSE {0},
          vz : -cap .. cap]

\* compute() of the grid search: only vx is slewed, and it has its own cap.
GridSlewed(held, wish, step) ==
    [vx |-> Slewed(held["vx"], wish["vx"], step), vy |-> 0, vz |-> 0]

GridCommand(slewed, wish, altitude) ==
    [slewed EXCEPT !["vz"] = AltitudeLimited(wish["vz"], altitude)]

-----------------------------------------------------------------------------
(* process_frame *)

\* _custom_object: nothing confirms that a taught object is still the object.
ForTeaching(v) == IF teaching THEN [a \in Axes |-> Within(v[a], TeachSpeed)] ELSE v

\* After a stall no time has passed for the controllers.
ControlDt(dt) == IF dt > MaxControlDt THEN 0 ELSE dt

\* Follow and Orbit start again from a standstill after a stall.
Held(dt) == IF dt > MaxControlDt /\ kind # "GRID_SEARCH" THEN Still ELSE limiter

\* The controller runs in this frame.
Run(dt, altitude, wish) ==
    LET step == Accel * ControlDt(dt)
        slewed == IF kind = "GRID_SEARCH" THEN GridSlewed(Held(dt), wish, step)
                  ELSE SlewedAll(Held(dt), wish, step, altitude)
    IN  /\ ControlDt(dt) = 0 => wish["vx"] = 0 /\ wish["vz"] = 0     \* Pid.step
        /\ limiter' = IF kind = "GRID_SEARCH" THEN slewed ELSE Overridden(slewed, altitude)
        /\ command' = ForTeaching(IF kind = "GRID_SEARCH"
                                  THEN GridCommand(slewed, wish, altitude)
                                  ELSE Capped(slewed, altitude))
        /\ frame' = [ran |-> TRUE, dt |-> dt, altitude |-> altitude, cap |-> cap]
        /\ relaxed' = FALSE
        /\ UNCHANGED <<kind, cap, teaching>>

\* A controller that did not run starts again from a standstill: Follow and Orbit.
AfterHold == IF kind = "GRID_SEARCH" THEN limiter ELSE Still

\* Another frame: a hold or a stop is sent, or nothing (out of GUIDED).
Withheld(dt) ==
    /\ limiter' = AfterHold
    /\ command' \in {Still, command}
    /\ frame' = [frame EXCEPT !.ran = FALSE, !.dt = dt]
    /\ UNCHANGED <<kind, cap, teaching, relaxed>>

-----------------------------------------------------------------------------
(* The operator. *)

\* set_max_speed
SliderCap(speed) ==
    IF speed > SpeedCeiling THEN SpeedCeiling
    ELSE IF speed < MinSpeed THEN MinSpeed ELSE speed

SetMaxSpeed(speed) ==
    /\ kind # "GRID_SEARCH"
    /\ cap' = SliderCap(speed)
    /\ relaxed' = (relaxed \/ cap' > cap)
    /\ UNCHANGED <<kind, limiter, teaching, command, frame>>

\* The controller's mode is freshly entered (_on_mode_command; start()).
Enter ==
    /\ limiter' = Still
    /\ UNCHANGED <<kind, cap, teaching, command, frame, relaxed>>

\* An object is taught, or given up for another target.
TeachOrSelect ==
    /\ teaching' = ~teaching
    /\ relaxed' = (relaxed \/ teaching)
    /\ UNCHANGED <<kind, cap, limiter, command, frame>>

Next ==
    \/ \E dt \in 0 .. MaxControlDt + 1 :
           \/ Withheld(dt)
           \/ \E altitude \in Altitudes \cup {NoAltitude} :
                  \E wish \in Wishes : Run(dt, altitude, wish)
    \/ \E speed \in SliderSpeeds : SetMaxSpeed(speed)
    \/ Enter \/ TeachOrSelect

Spec == Init /\ [][Next]_vars

-----------------------------------------------------------------------------
(* Properties. *)

Magnitude(x) == IF x < 0 THEN -x ELSE x

\* Wherever the acceleration limiter comes from, with whatever it held when the
\* cap was lowered, the velocity of Follow and Orbit is within the cap in force,
\* and backwards within the lower one (the re-clamp in compute()).
WithinTheCap ==
    frame.ran /\ kind # "GRID_SEARCH" =>
        /\ \A a \in Axes : Magnitude(command[a]) <= frame.cap
        /\ -command["vx"] <= MaxReverse

\* No controller descends at or below the floor or climbs at or above the
\* ceiling, nor either way when the altitude is not known, also not with a speed
\* that the limiter still holds from higher up (the second apply_altitude_limits).
NeverThroughTheLimits ==
    frame.ran =>
        /\ command["vz"] > 0 => frame.altitude # NoAltitude /\ frame.altitude > Floor
        /\ command["vz"] < 0 => frame.altitude # NoAltitude /\ frame.altitude < Ceiling

\* The axes a controller slews.
SlewedAxes == IF kind = "GRID_SEARCH" THEN {"vx"} ELSE Axes

Faster(a) == Magnitude(command'[a]) > Magnitude(command[a]) + Accel * ControlDt(frame'.dt)

\* A velocity that was refused (by the altitude, the cap, Teach mode or a hold)
\* does not come back at once: unless a limit was raised, no axis gains speed
\* faster than max_accel_mps2 (SlewLimiter.override; process_frame's resets).  A
\* grid search is asked only about frames that follow one another.
SpeedsUpGradually ==
    [][frame'.ran /\ ~relaxed /\ (kind = "GRID_SEARCH" => frame.ran) =>
          \A a \in SlewedAxes : ~Faster(a)]_vars
=============================================================================
