------------------------ MODULE VelocityLimits_proofs ------------------------
(***************************************************************************)
(* The limits of VelocityLimits hold for every configuration: any caps,      *)
(* acceleration, altitudes and slider.  The two invariants follow from the   *)
(* last clamp of a frame.  That no axis gains speed faster than the limiter  *)
(* allows needs NoPhantom: what a limiter holds, seen through the limits in   *)
(* force, is never faster than what was last commanded.                      *)
(***************************************************************************)
EXTENDS VelocityLimits, TLAPS

LEMMA ClampTyped ==
    ASSUME NEW x \in Int, NEW low \in Int, NEW high \in Int
    PROVE  Clamp(x, low, high) \in Int
BY DEF Clamp

LEMMA WithinTyped ==
    ASSUME NEW x \in Int, NEW bound \in Nat
    PROVE  /\ Within(x, bound) \in Int
           /\ Magnitude(Within(x, bound)) <= bound
BY DEF Within, Clamp, Magnitude

LEMMA ClampedVxTyped ==
    ASSUME NEW x \in Int, NEW speed \in Nat
    PROVE  /\ ClampedVx(x, speed) \in Int
           /\ Magnitude(ClampedVx(x, speed)) <= speed
           /\ -ClampedVx(x, speed) <= MaxReverse
BY VelocityAssumption DEF ClampedVx, Clamp, Lesser, Magnitude

LEMMA AltitudeLimitedTyped ==
    ASSUME NEW vz \in Int, NEW altitude
    PROVE  AltitudeLimited(vz, altitude) \in {0, vz}
BY DEF AltitudeLimited

LEMMA FinalVzTyped ==
    ASSUME NEW x \in Int, NEW altitude, NEW speed \in Nat
    PROVE  /\ FinalVz(x, altitude, speed) \in Int
           /\ Magnitude(FinalVz(x, altitude, speed)) <= speed
           /\ FinalVz(x, altitude, speed) \in {0, Within(x, speed)}
<1>1. FinalVz(x, altitude, speed) \in {0, Within(x, speed)}
    BY WithinTyped, AltitudeLimitedTyped DEF FinalVz
<1>2. Magnitude(0) <= speed
    BY DEF Magnitude
<1> QED  BY <1>1, <1>2, WithinTyped

\* A limiter moves by no more than the step.
LEMMA SlewedTyped ==
    ASSUME NEW value \in Int, NEW target \in Int, NEW step \in Nat
    PROVE  /\ Slewed(value, target, step) \in Int
           /\ Slewed(value, target, step) - value <= step
           /\ value - Slewed(value, target, step) <= step
BY DEF Slewed, Within, Clamp

-----------------------------------------------------------------------------
(* Types. *)

\* The set that TypeOK gives to velocities, by its three axes.
LEMMA VelocityIs ==
    ASSUME NEW x \in Int, NEW y \in Int, NEW z \in Int
    PROVE  /\ [vx |-> x, vy |-> y, vz |-> z] \in Velocity
           /\ [vx |-> x, vy |-> y, vz |-> z]["vx"] = x
           /\ [vx |-> x, vy |-> y, vz |-> z]["vy"] = y
           /\ [vx |-> x, vy |-> y, vz |-> z]["vz"] = z
BY DEF Velocity, Axes

LEMMA StillIs ==
    Still \in Velocity /\ Still["vx"] = 0 /\ Still["vy"] = 0 /\ Still["vz"] = 0
BY DEF Still, Velocity, Axes

LEMMA StepTyped ==
    ASSUME NEW dt \in Nat
    PROVE  Accel * ControlDt(dt) \in Nat
<1>1. ControlDt(dt) \in Nat
    BY DEF ControlDt
<1>2. Accel \in Nat
    BY VelocityAssumption
<1> QED  BY <1>1, <1>2

LEMMA WishTyped ==
    ASSUME TypeOK, NEW wish \in Wishes
    PROVE  wish["vx"] \in Int /\ wish["vy"] \in Int /\ wish["vz"] \in Int
<1>1. cap \in Int /\ SearchSpeed \in Int
    BY VelocityAssumption DEF TypeOK
<1>2. CASE kind = "GRID_SEARCH"
    BY <1>1, <1>2 DEF Wishes
<1>3. CASE kind # "GRID_SEARCH"
    BY <1>1, <1>3 DEF Wishes
<1> QED  BY <1>2, <1>3

\* What a run leaves in the limiters and asks for, axis by axis.
LEMMA TargetRun ==
    ASSUME TypeOK, NEW held \in Velocity, NEW wish \in Wishes, NEW step \in Nat,
           NEW altitude
    PROVE  LET slewed == SlewedAll(held, wish, step, altitude)
           IN  /\ slewed \in Velocity
               /\ \A a \in Axes : slewed[a] - held[a] <= step /\ held[a] - slewed[a] <= step
<1> DEFINE x == Slewed(held["vx"], ClampedVx(wish["vx"], cap), step)
           y == Slewed(held["vy"], wish["vy"], step)
           z == Slewed(held["vz"], AltitudeLimited(wish["vz"], altitude), step)
<1>1. held["vx"] \in Int /\ held["vy"] \in Int /\ held["vz"] \in Int
    BY DEF Velocity, Axes
<1>2. wish["vx"] \in Int /\ wish["vy"] \in Int /\ wish["vz"] \in Int /\ cap \in Nat
    BY WishTyped, VelocityAssumption DEF TypeOK
<1>3. ClampedVx(wish["vx"], cap) \in Int /\ AltitudeLimited(wish["vz"], altitude) \in Int
    BY <1>2, ClampedVxTyped, AltitudeLimitedTyped
<1>4. /\ x \in Int /\ x - held["vx"] <= step /\ held["vx"] - x <= step
      /\ y \in Int /\ y - held["vy"] <= step /\ held["vy"] - y <= step
      /\ z \in Int /\ z - held["vz"] <= step /\ held["vz"] - z <= step
    BY <1>1, <1>2, <1>3, SlewedTyped
<1>5. SlewedAll(held, wish, step, altitude) = [vx |-> x, vy |-> y, vz |-> z]
    BY DEF SlewedAll
<1> HIDE DEF x, y, z
<1> QED  BY <1>4, <1>5, VelocityIs DEF Axes

LEMMA OverriddenIs ==
    ASSUME TypeOK, NEW slewed \in Velocity, NEW altitude
    PROVE  /\ Overridden(slewed, altitude) \in Velocity
           /\ Overridden(slewed, altitude)["vx"] = slewed["vx"]
           /\ Overridden(slewed, altitude)["vy"] = slewed["vy"]
           /\ Overridden(slewed, altitude)["vz"] = FinalVz(slewed["vz"], altitude, cap)
<1>1. slewed["vz"] \in Int /\ cap \in Nat
    BY VelocityAssumption DEF Velocity, Axes, TypeOK
<1>2. FinalVz(slewed["vz"], altitude, cap) \in Int
    BY <1>1, FinalVzTyped
<1> QED  BY <1>2 DEF Overridden, Velocity, Axes

LEMMA CappedIs ==
    ASSUME TypeOK, NEW slewed \in Velocity, NEW altitude
    PROVE  /\ Capped(slewed, altitude) \in Velocity
           /\ Capped(slewed, altitude)["vx"] = ClampedVx(slewed["vx"], cap)
           /\ Capped(slewed, altitude)["vy"] = Within(slewed["vy"], cap)
           /\ Capped(slewed, altitude)["vz"] = FinalVz(slewed["vz"], altitude, cap)
<1>1. slewed["vx"] \in Int /\ slewed["vy"] \in Int /\ slewed["vz"] \in Int /\ cap \in Nat
    BY VelocityAssumption DEF Velocity, Axes, TypeOK
<1>2. /\ ClampedVx(slewed["vx"], cap) \in Int /\ Within(slewed["vy"], cap) \in Int
      /\ FinalVz(slewed["vz"], altitude, cap) \in Int
    BY <1>1, ClampedVxTyped, WithinTyped, FinalVzTyped
<1> QED  BY <1>2, VelocityIs DEF Capped

LEMMA GridRun ==
    ASSUME TypeOK, NEW held \in Velocity, NEW wish \in Wishes, NEW step \in Nat,
           NEW altitude
    PROVE  LET slewed == GridSlewed(held, wish, step)
               asked == GridCommand(slewed, wish, altitude)
           IN  /\ slewed \in Velocity
               /\ slewed["vx"] - held["vx"] <= step /\ held["vx"] - slewed["vx"] <= step
               /\ asked \in Velocity
               /\ asked["vx"] = slewed["vx"]
               /\ asked["vz"] = AltitudeLimited(wish["vz"], altitude)
<1> DEFINE x == Slewed(held["vx"], wish["vx"], step)
<1>1. held["vx"] \in Int /\ wish["vx"] \in Int /\ wish["vz"] \in Int
    BY WishTyped DEF Velocity, Axes
<1>2. x \in Int /\ x - held["vx"] <= step /\ held["vx"] - x <= step
    BY <1>1, SlewedTyped
<1>3. GridSlewed(held, wish, step) = [vx |-> x, vy |-> 0, vz |-> 0]
    BY DEF GridSlewed
<1>4. AltitudeLimited(wish["vz"], altitude) \in Int
    BY <1>1, AltitudeLimitedTyped
<1> HIDE DEF x
<1> QED  BY <1>2, <1>3, <1>4, VelocityIs DEF GridCommand, Velocity, Axes

LEMMA ForTeachingIs ==
    ASSUME TypeOK, NEW v \in Velocity
    PROVE  /\ ForTeaching(v) \in Velocity
           /\ \A a \in Axes : ForTeaching(v)[a] = IF teaching THEN Within(v[a], TeachSpeed) ELSE v[a]
<1>1. \A a \in Axes : v[a] \in Int /\ Within(v[a], TeachSpeed) \in Int
    BY WithinTyped, VelocityAssumption DEF Velocity
<1> QED  BY <1>1 DEF ForTeaching, Velocity

LEMMA HeldTyped ==
    ASSUME TypeOK, NEW dt \in Nat
    PROVE  Held(dt) \in Velocity
BY StillIs DEF Held, TypeOK

LEMMA CapTyped == ASSUME TypeOK PROVE cap \in Nat
BY VelocityAssumption DEF TypeOK

LEMMA RunTyped ==
    ASSUME TypeOK, NEW dt \in Nat, NEW altitude \in Altitudes \cup {NoAltitude},
           NEW wish \in Wishes, Run(dt, altitude, wish)
    PROVE  TypeOK'
<1> DEFINE step == Accel * ControlDt(dt)
<1>1. step \in Nat /\ Held(dt) \in Velocity
    BY StepTyped, HeldTyped
<1> HIDE DEF step
<1>2. limiter' \in Velocity /\ command' \in Velocity
    <2>1. CASE kind = "GRID_SEARCH"
        <3> DEFINE slewed == GridSlewed(Held(dt), wish, step)
        <3>1. slewed \in Velocity /\ GridCommand(slewed, wish, altitude) \in Velocity
            BY <1>1, GridRun
        <3>2. limiter' = slewed /\ command' = ForTeaching(GridCommand(slewed, wish, altitude))
            BY <2>1 DEF Run, step
        <3> QED  BY <3>1, <3>2, ForTeachingIs
    <2>2. CASE kind # "GRID_SEARCH"
        <3> DEFINE slewed == SlewedAll(Held(dt), wish, step, altitude)
        <3>1. slewed \in Velocity
            BY <1>1, TargetRun
        <3>2. limiter' = Overridden(slewed, altitude) /\ command' = ForTeaching(Capped(slewed, altitude))
            BY <2>2 DEF Run, step
        <3> HIDE DEF slewed
        <3> QED  BY <3>1, <3>2, ForTeachingIs, OverriddenIs, CappedIs
    <2> QED  BY <2>1, <2>2
<1> QED  BY <1>2 DEF Run, TypeOK

\* Every state is of its type, for any configuration.
THEOREM TypeCorrect == Spec => []TypeOK
<1>1. Init => TypeOK
    <2> SUFFICES ASSUME Init PROVE TypeOK
        OBVIOUS
    <2>1. cap \in MinSpeed .. SpeedCeiling
        BY VelocityAssumption DEF Init
    <2>2. limiter \in Velocity /\ command \in Velocity
        BY StillIs DEF Init
    <2>3. frame \in [ran : BOOLEAN, dt : Nat, altitude : Altitudes \cup {NoAltitude},
                     cap : MinSpeed .. SpeedCeiling]
        BY <2>1 DEF Init
    <2> QED  BY <2>1, <2>2, <2>3 DEF Init, TypeOK
<1>2. TypeOK /\ [Next]_vars => TypeOK'
    <2> SUFFICES ASSUME TypeOK, [Next]_vars PROVE TypeOK'
        OBVIOUS
    <2>1. ASSUME NEW dt \in 0 .. MaxControlDt + 1, Withheld(dt) PROVE TypeOK'
        <3>1. dt \in Nat
            BY VelocityAssumption
        <3>2. limiter' \in Velocity /\ command' \in Velocity
            BY <2>1, StillIs DEF Withheld, AfterHold, TypeOK
        <3>3. frame' \in [ran : BOOLEAN, dt : Nat, altitude : Altitudes \cup {NoAltitude},
                          cap : MinSpeed .. SpeedCeiling]
            BY <2>1, <3>1 DEF Withheld, TypeOK
        <3> QED  BY <2>1, <3>2, <3>3 DEF Withheld, TypeOK
    <2>2. ASSUME NEW dt \in 0 .. MaxControlDt + 1, NEW altitude \in Altitudes \cup {NoAltitude},
                 NEW wish \in Wishes, Run(dt, altitude, wish)
          PROVE  TypeOK'
        BY <2>2, RunTyped, VelocityAssumption
    <2>3. ASSUME NEW speed \in SliderSpeeds, SetMaxSpeed(speed) PROVE TypeOK'
        BY <2>3, VelocityAssumption DEF SetMaxSpeed, SliderCap, TypeOK
    <2>4. CASE Enter
        BY <2>4, StillIs DEF Enter, TypeOK
    <2>5. CASE TeachOrSelect
        BY <2>5 DEF TeachOrSelect, TypeOK
    <2>6. CASE UNCHANGED vars
        BY <2>6 DEF vars, TypeOK
    <2> QED  BY <2>1, <2>2, <2>3, <2>4, <2>5, <2>6 DEF Next
<1> QED  BY <1>1, <1>2, PTL DEF Spec

-----------------------------------------------------------------------------
(* The two limits of a frame. *)

Limited == WithinTheCap /\ NeverThroughTheLimits

\* A velocity within the limits stays within them when Teach mode slows it down.
LEMMA SlowedIsLimited ==
    ASSUME NEW x \in Int, NEW bound \in Nat
    PROVE  /\ Magnitude(Within(x, bound)) <= Magnitude(x)
           /\ -Within(x, bound) <= Magnitude(x)
           /\ Within(x, bound) > 0 => x > 0
           /\ Within(x, bound) < 0 => x < 0
           /\ \A y \in Nat : -x <= y => -Within(x, bound) <= y
BY DEF Within, Clamp, Magnitude

LEMMA AltitudeRespected ==
    ASSUME NEW vz \in Int, NEW altitude \in Altitudes \cup {NoAltitude}
    PROVE  /\ AltitudeLimited(vz, altitude) > 0 => altitude # NoAltitude /\ altitude > Floor
           /\ AltitudeLimited(vz, altitude) < 0 => altitude # NoAltitude /\ altitude < Ceiling
<1>1. CASE altitude = NoAltitude
    BY <1>1 DEF AltitudeLimited
<1>2. CASE altitude # NoAltitude
    <2>1. altitude \in Int /\ Floor \in Int /\ Ceiling \in Int
        BY <1>2, VelocityAssumption
    <2> QED  BY <1>2, <2>1 DEF AltitudeLimited
<1> QED  BY <1>1, <1>2

LEMMA RunLimited ==
    ASSUME TypeOK, NEW dt \in Nat, NEW altitude \in Altitudes \cup {NoAltitude},
           NEW wish \in Wishes, Run(dt, altitude, wish)
    PROVE  Limited'
<1> DEFINE step == Accel * ControlDt(dt)
<1>1. step \in Nat /\ Held(dt) \in Velocity /\ cap \in Nat /\ TeachSpeed \in Nat /\ MaxReverse \in Nat
    BY StepTyped, HeldTyped, CapTyped, VelocityAssumption
<1> HIDE DEF step
<1>2. frame'.altitude = altitude /\ frame'.cap = cap /\ kind' = kind
    BY DEF Run
\* It is enough that the velocity is within the limits before Teach mode.
<1>3. ASSUME NEW v \in Velocity, command' = ForTeaching(v),
             v["vz"] > 0 => altitude # NoAltitude /\ altitude > Floor,
             v["vz"] < 0 => altitude # NoAltitude /\ altitude < Ceiling
      PROVE  NeverThroughTheLimits'
    <2>1. v["vz"] \in Int
        BY DEF Velocity, Axes
    <2>2. command'["vz"] = IF teaching THEN Within(v["vz"], TeachSpeed) ELSE v["vz"]
        BY <1>3, ForTeachingIs DEF Axes
    <2>3. /\ command'["vz"] > 0 => v["vz"] > 0
          /\ command'["vz"] < 0 => v["vz"] < 0
        BY <1>1, <2>1, <2>2, SlowedIsLimited
    <2> QED  BY <1>2, <1>3, <2>3 DEF NeverThroughTheLimits
<1>4. CASE kind = "GRID_SEARCH"
    <2> DEFINE slewed == GridSlewed(Held(dt), wish, step)
               asked == GridCommand(slewed, wish, altitude)
    <2>1. asked \in Velocity /\ asked["vz"] = AltitudeLimited(wish["vz"], altitude)
        BY <1>1, GridRun
    <2>2. command' = ForTeaching(asked)
        BY <1>4 DEF Run, step
    <2>3. wish["vz"] \in Int
        BY WishTyped
    <2> HIDE DEF asked
    <2>4. NeverThroughTheLimits'
        BY <1>3, <2>1, <2>2, <2>3, AltitudeRespected
    <2> QED  BY <1>2, <1>4, <2>4 DEF Limited, WithinTheCap
<1>5. CASE kind # "GRID_SEARCH"
    <2> DEFINE slewed == SlewedAll(Held(dt), wish, step, altitude)
               asked == Capped(slewed, altitude)
    <2>1. slewed \in Velocity
        BY <1>1, TargetRun
    <2>2. command' = ForTeaching(asked)
        BY <1>5 DEF Run, step
    <2> HIDE DEF slewed
    <2>3. slewed["vx"] \in Int /\ slewed["vy"] \in Int /\ slewed["vz"] \in Int
        BY <2>1 DEF Velocity, Axes
    <2>4. /\ asked \in Velocity
          /\ asked["vx"] = ClampedVx(slewed["vx"], cap)
          /\ asked["vy"] = Within(slewed["vy"], cap)
          /\ asked["vz"] = FinalVz(slewed["vz"], altitude, cap)
        BY <2>1, CappedIs
    <2> HIDE DEF asked
    <2>5. NeverThroughTheLimits'
        <3>1. Within(slewed["vz"], cap) \in Int
            BY <1>1, <2>3, WithinTyped
        <3>2. asked["vz"] = AltitudeLimited(Within(slewed["vz"], cap), altitude)
            BY <2>4 DEF FinalVz
        <3> QED  BY <1>3, <2>2, <2>4, <3>1, <3>2, AltitudeRespected
    <2>6. \A a \in Axes : asked[a] \in Int /\ Magnitude(asked[a]) <= cap
        <3>1. asked["vx"] \in Int /\ Magnitude(asked["vx"]) <= cap
            BY <1>1, <2>3, <2>4, ClampedVxTyped
        <3>2. asked["vy"] \in Int /\ Magnitude(asked["vy"]) <= cap
            BY <1>1, <2>3, <2>4, WithinTyped
        <3>3. asked["vz"] \in Int /\ Magnitude(asked["vz"]) <= cap
            BY <1>1, <2>3, <2>4, FinalVzTyped
        <3> QED  BY <3>1, <3>2, <3>3 DEF Axes
    <2>7. -asked["vx"] <= MaxReverse
        BY <1>1, <2>3, <2>4, ClampedVxTyped
    <2>8. \A a \in Axes : command'[a] = IF teaching THEN Within(asked[a], TeachSpeed) ELSE asked[a]
        BY <2>2, <2>4, ForTeachingIs
    <2>9. \A a \in Axes : Magnitude(command'[a]) <= cap
        <3> SUFFICES ASSUME NEW a \in Axes PROVE Magnitude(command'[a]) <= cap
            OBVIOUS
        <3>1. Within(asked[a], TeachSpeed) \in Int
            BY <1>1, <2>6, WithinTyped
        <3>2. Magnitude(Within(asked[a], TeachSpeed)) <= Magnitude(asked[a])
            BY <1>1, <2>6, SlowedIsLimited
        <3>3. Magnitude(asked[a]) \in Int /\ Magnitude(Within(asked[a], TeachSpeed)) \in Int
            BY <2>6, <3>1 DEF Magnitude
        <3> QED  BY <1>1, <2>6, <2>8, <3>2, <3>3
    <2>10. -command'["vx"] <= MaxReverse
        BY <1>1, <2>6, <2>7, <2>8, SlowedIsLimited DEF Axes
    <2> QED  BY <1>2, <2>5, <2>9, <2>10 DEF Limited, WithinTheCap
<1> QED  BY <1>4, <1>5

LEMMA LimitedKept == TypeOK /\ Limited /\ [Next]_vars => Limited'
<1> SUFFICES ASSUME TypeOK, Limited, [Next]_vars PROVE Limited'
    OBVIOUS
<1>1. ASSUME NEW dt \in 0 .. MaxControlDt + 1, Withheld(dt) PROVE Limited'
    <2>1. ~frame'.ran
        BY <1>1 DEF Withheld, TypeOK
    <2> QED  BY <2>1 DEF Limited, WithinTheCap, NeverThroughTheLimits
<1>2. ASSUME NEW dt \in 0 .. MaxControlDt + 1, NEW altitude \in Altitudes \cup {NoAltitude},
             NEW wish \in Wishes, Run(dt, altitude, wish)
      PROVE  Limited'
    BY <1>2, RunLimited, VelocityAssumption
<1>3. ASSUME UNCHANGED <<kind, command, frame>> PROVE Limited'
    BY <1>3 DEF Limited, WithinTheCap, NeverThroughTheLimits
<1>4. ASSUME NEW speed \in SliderSpeeds, SetMaxSpeed(speed) PROVE Limited'
    BY <1>3, <1>4 DEF SetMaxSpeed
<1>5. CASE Enter
    BY <1>3, <1>5 DEF Enter
<1>6. CASE TeachOrSelect
    BY <1>3, <1>6 DEF TeachOrSelect
<1>7. CASE UNCHANGED vars
    BY <1>3, <1>7 DEF vars
<1> QED  BY <1>1, <1>2, <1>4, <1>5, <1>6, <1>7 DEF Next

LEMMA LimitedInitially == Init => Limited
BY DEF Init, Limited, WithinTheCap, NeverThroughTheLimits

\* The velocity of Follow and Orbit is within the cap in force, and backwards
\* within the lower one, for every configuration and every use of the slider.
THEOREM CapHolds == Spec => []WithinTheCap
<1>1. Limited => WithinTheCap
    BY DEF Limited
<1> QED  BY <1>1, LimitedInitially, LimitedKept, TypeCorrect, PTL DEF Spec

\* No controller ever descends at or below its floor, climbs at or above its
\* ceiling, or moves vertically without knowing its altitude.
THEOREM AltitudeHolds == Spec => []NeverThroughTheLimits
<1>1. Limited => NeverThroughTheLimits
    BY DEF Limited
<1> QED  BY <1>1, LimitedInitially, LimitedKept, TypeCorrect, PTL DEF Spec

-----------------------------------------------------------------------------
(* Nothing that was refused comes back at once. *)

Close(x, y, step) == x - y <= step /\ y - x <= step

\* What a limiter at x makes of an axis, under the limits in force.
Shown(x, a, speed, slow) ==
    LET v == IF kind = "GRID_SEARCH" THEN x
             ELSE IF a = "vx" THEN ClampedVx(x, speed) ELSE Within(x, speed)
    IN  IF slow THEN Within(v, TeachSpeed) ELSE v

\* The strengthening of SpeedsUpGradually: no limiter holds more than was
\* commanded, unless a limit was raised.
NoPhantom ==
    ~relaxed /\ (kind = "GRID_SEARCH" => frame.ran) =>
        \A a \in SlewedAxes :
            Magnitude(Shown(limiter[a], a, cap, teaching)) <= Magnitude(command[a])

LEMMA MagnitudeTyped == ASSUME NEW x \in Int PROVE Magnitude(x) \in Nat
BY DEF Magnitude

LEMMA CloseMagnitude ==
    ASSUME NEW x \in Int, NEW y \in Int, NEW step \in Nat, Close(x, y, step)
    PROVE  Magnitude(x) <= Magnitude(y) + step
BY DEF Close, Magnitude

LEMMA WithinIsClose ==
    ASSUME NEW x \in Int, NEW y \in Int, NEW step \in Nat, NEW bound \in Nat,
           Close(x, y, step)
    PROVE  Close(Within(x, bound), Within(y, bound), step)
BY DEF Close, Within, Clamp

LEMMA ClampedVxIsClose ==
    ASSUME NEW x \in Int, NEW y \in Int, NEW step \in Nat, NEW speed \in Nat,
           Close(x, y, step)
    PROVE  Close(ClampedVx(x, speed), ClampedVx(y, speed), step)
BY VelocityAssumption DEF Close, ClampedVx, Clamp, Lesser

LEMMA WithinIsMonotone ==
    ASSUME NEW x \in Int, NEW y \in Int, NEW bound \in Nat, Magnitude(x) <= Magnitude(y)
    PROVE  Magnitude(Within(x, bound)) <= Magnitude(Within(y, bound))
BY DEF Within, Clamp, Magnitude

LEMMA LowerCap ==
    ASSUME NEW x \in Int, NEW high \in Nat, NEW low \in Nat, low <= high
    PROVE  /\ Magnitude(Within(x, low)) <= Magnitude(Within(x, high))
           /\ Magnitude(ClampedVx(x, low)) <= Magnitude(ClampedVx(x, high))
BY VelocityAssumption DEF Within, ClampedVx, Clamp, Lesser, Magnitude

LEMMA ShownTyped ==
    ASSUME NEW x \in Int, NEW a \in Axes, NEW speed \in Nat, NEW slow \in BOOLEAN
    PROVE  Shown(x, a, speed, slow) \in Int
<1> DEFINE v == IF kind = "GRID_SEARCH" THEN x
                ELSE IF a = "vx" THEN ClampedVx(x, speed) ELSE Within(x, speed)
<1>1. v \in Int
    BY ClampedVxTyped, WithinTyped
<1> HIDE DEF v
<1>2. TeachSpeed \in Nat
    BY VelocityAssumption
<1>3. Within(v, TeachSpeed) \in Int
    BY <1>1, <1>2, WithinTyped
<1>4. Shown(x, a, speed, slow) = IF slow THEN Within(v, TeachSpeed) ELSE v
    BY DEF Shown, v
<1> QED  BY <1>1, <1>3, <1>4

LEMMA ShownIsClose ==
    ASSUME NEW x \in Int, NEW y \in Int, NEW step \in Nat, NEW a \in Axes,
           NEW speed \in Nat, NEW slow \in BOOLEAN, Close(x, y, step)
    PROVE  Magnitude(Shown(x, a, speed, slow)) <= Magnitude(Shown(y, a, speed, slow)) + step
<1> DEFINE v(z) == IF kind = "GRID_SEARCH" THEN z
                   ELSE IF a = "vx" THEN ClampedVx(z, speed) ELSE Within(z, speed)
<1>1. \A z \in Int : v(z) \in Int
    BY ClampedVxTyped, WithinTyped
<1>2. Close(v(x), v(y), step)
    BY WithinIsClose, ClampedVxIsClose
<1>3. \A z \in Int : Shown(z, a, speed, slow) = IF slow THEN Within(v(z), TeachSpeed) ELSE v(z)
    BY DEF Shown
<1> HIDE DEF v
<1>4. TeachSpeed \in Nat
    BY VelocityAssumption
<1>5. Close(Within(v(x), TeachSpeed), Within(v(y), TeachSpeed), step)
    BY <1>1, <1>2, <1>4, WithinIsClose
<1>6. Close(Shown(x, a, speed, slow), Shown(y, a, speed, slow), step)
    BY <1>2, <1>3, <1>5
<1> QED  BY <1>6, ShownTyped, CloseMagnitude

LEMMA RestIsRest ==
    ASSUME NEW speed \in Nat
    PROVE  ClampedVx(0, speed) = 0 /\ Within(0, speed) = 0 /\ Within(0, TeachSpeed) = 0
<1>1. TeachSpeed \in Nat /\ MaxReverse \in Nat
    BY VelocityAssumption
<1> QED  BY <1>1 DEF ClampedVx, Within, Clamp, Lesser

LEMMA ShownAtRest ==
    ASSUME NEW a \in Axes, NEW speed \in Nat, NEW slow \in BOOLEAN
    PROVE  Magnitude(Shown(0, a, speed, slow)) = 0
BY RestIsRest DEF Shown, Magnitude

\* What a run asks for is what its limiters show, or less.
LEMMA RunShows ==
    ASSUME TypeOK, NEW dt \in Nat, NEW altitude \in Altitudes \cup {NoAltitude},
           NEW wish \in Wishes, Run(dt, altitude, wish), NEW a \in SlewedAxes
    PROVE  /\ Magnitude(command'[a])
                  <= Magnitude(Shown(Held(dt)[a], a, cap, teaching)) + Accel * ControlDt(dt)
           /\ Magnitude(Shown(limiter'[a], a, cap, teaching)) <= Magnitude(command'[a])
<1> DEFINE step == Accel * ControlDt(dt)
<1>1. /\ step \in Nat /\ Held(dt) \in Velocity /\ cap \in Nat /\ TeachSpeed \in Nat
      /\ teaching \in BOOLEAN
    BY StepTyped, HeldTyped, CapTyped, VelocityAssumption DEF TypeOK
<1> HIDE DEF step
<1>2. a \in Axes /\ Held(dt)[a] \in Int
    BY <1>1 DEF SlewedAxes, Axes, Velocity
<1>3. CASE kind = "GRID_SEARCH"
    <2> DEFINE slewed == GridSlewed(Held(dt), wish, step)
               asked == GridCommand(slewed, wish, altitude)
    <2>1. /\ slewed \in Velocity /\ asked \in Velocity /\ asked["vx"] = slewed["vx"]
          /\ slewed["vx"] - Held(dt)["vx"] <= step /\ Held(dt)["vx"] - slewed["vx"] <= step
        BY <1>1, GridRun
    <2>2. limiter' = slewed /\ command' = ForTeaching(asked)
        BY <1>3 DEF Run, step
    <2> HIDE DEF slewed, asked
    <2>3. a = "vx"
        BY <1>3 DEF SlewedAxes
    <2>4. command'[a] = Shown(slewed[a], a, cap, teaching)
        BY <1>2, <1>3, <2>1, <2>2, <2>3, ForTeachingIs DEF Shown
    <2>5. slewed[a] \in Int /\ Close(slewed[a], Held(dt)[a], step)
        BY <1>2, <2>1, <2>3 DEF Close, Velocity
    <2>6. Magnitude(command'[a]) <= Magnitude(Shown(Held(dt)[a], a, cap, teaching)) + step
        BY <1>1, <1>2, <2>4, <2>5, ShownIsClose
    <2>7. Shown(limiter'[a], a, cap, teaching) = command'[a]
        BY <2>2, <2>4
    <2>8. Magnitude(command'[a]) \in Nat
        BY <1>1, <1>2, <2>4, <2>5, ShownTyped, MagnitudeTyped
    <2> QED  BY <2>6, <2>7, <2>8 DEF step
<1>4. CASE kind # "GRID_SEARCH"
    <2> DEFINE slewed == SlewedAll(Held(dt), wish, step, altitude)
               asked == Capped(slewed, altitude)
               kept == Overridden(slewed, altitude)
    <2>1. /\ slewed \in Velocity
          /\ \A b \in Axes : slewed[b] - Held(dt)[b] <= step /\ Held(dt)[b] - slewed[b] <= step
        BY <1>1, TargetRun
    <2>2. limiter' = kept /\ command' = ForTeaching(asked)
        BY <1>4 DEF Run, step
    <2> HIDE DEF slewed
    <2>3. /\ asked \in Velocity
          /\ asked["vx"] = ClampedVx(slewed["vx"], cap)
          /\ asked["vy"] = Within(slewed["vy"], cap)
          /\ asked["vz"] = FinalVz(slewed["vz"], altitude, cap)
        BY <2>1, CappedIs
    <2>4. /\ kept \in Velocity
          /\ kept["vx"] = slewed["vx"] /\ kept["vy"] = slewed["vy"]
          /\ kept["vz"] = FinalVz(slewed["vz"], altitude, cap)
        BY <2>1, OverriddenIs
    <2> HIDE DEF asked, kept
    <2>5. slewed[a] \in Int /\ Close(slewed[a], Held(dt)[a], step)
        BY <1>2, <2>1 DEF Close, Velocity
    <2>6. command'[a] = IF teaching THEN Within(asked[a], TeachSpeed) ELSE asked[a]
        BY <1>2, <2>2, <2>3, ForTeachingIs
    <2> DEFINE seen == Shown(slewed[a], a, cap, teaching)
    <2>7. seen \in Int /\ Magnitude(seen) \in Nat
        BY <1>1, <1>2, <2>5, ShownTyped, MagnitudeTyped
    <2>8. Magnitude(seen) <= Magnitude(Shown(Held(dt)[a], a, cap, teaching)) + step
        BY <1>1, <1>2, <2>5, ShownIsClose
    <2>9. Magnitude(Shown(Held(dt)[a], a, cap, teaching)) \in Nat
        BY <1>1, <1>2, ShownTyped, MagnitudeTyped
    <2>10. CASE a # "vz"
        <3>1. command'[a] = seen /\ Shown(limiter'[a], a, cap, teaching) = seen
            BY <1>2, <1>4, <2>2, <2>3, <2>4, <2>6, <2>10 DEF Shown, Axes
        <3> QED  BY <2>7, <2>8, <3>1 DEF step
    <2>11. CASE a = "vz"
        <3> DEFINE final == FinalVz(slewed["vz"], altitude, cap)
        <3>1. /\ final \in Int /\ Magnitude(final) <= cap
              /\ final \in {0, Within(slewed["vz"], cap)}
            BY <1>1, <2>5, <2>11, FinalVzTyped
        <3> HIDE DEF final
        <3>2. Within(final, cap) = final
            BY <1>1, <3>1 DEF Within, Clamp, Magnitude
        <3>3. Shown(limiter'[a], a, cap, teaching) = command'[a]
            <4>1. asked[a] = final /\ limiter'[a] = final
                BY <2>2, <2>3, <2>4, <2>11 DEF final
            <4> QED  BY <1>4, <2>6, <2>11, <3>2, <4>1 DEF Shown
        <3>4. command'[a] \in {0, seen}
            <4>1. asked[a] \in {0, Within(slewed[a], cap)}
                BY <2>3, <2>11, <3>1 DEF final
            <4>2. Within(0, TeachSpeed) = 0
                BY <1>1 DEF Within, Clamp
            <4> QED  BY <1>4, <2>6, <2>11, <4>1, <4>2 DEF Shown
        <3>5. Magnitude(0) = 0
            BY DEF Magnitude
        <3>6. Magnitude(command'[a]) \in Nat /\ Magnitude(command'[a]) <= Magnitude(seen)
            BY <2>7, <3>4, <3>5
        <3> HIDE DEF seen
        <3> QED  BY <1>1, <2>7, <2>8, <2>9, <3>3, <3>6 DEF step
    <2> QED  BY <2>10, <2>11
<1> QED  BY <1>3, <1>4

LEMMA NoPhantomInitially == Init => NoPhantom
<1> SUFFICES ASSUME Init, NEW a \in SlewedAxes
             PROVE  Magnitude(Shown(limiter[a], a, cap, teaching)) <= Magnitude(command[a])
    BY DEF NoPhantom
<1>1. a \in Axes /\ cap \in Nat /\ teaching \in BOOLEAN
    BY VelocityAssumption DEF Init, SlewedAxes, Axes
<1>2. limiter[a] = 0 /\ command[a] = 0
    BY <1>1 DEF Init, Still
<1> QED  BY <1>1, <1>2, ShownAtRest DEF Magnitude

\* Limiters at rest show nothing.
LEMMA RestIsNoPhantom ==
    ASSUME TypeOK', limiter' = Still
    PROVE  NoPhantom'
<1> SUFFICES ASSUME NEW a \in SlewedAxes'
             PROVE  (Magnitude(Shown(limiter[a], a, cap, teaching)) <= Magnitude(command[a]))'
    BY DEF NoPhantom
<1>1. a \in Axes /\ limiter'[a] = 0 /\ command'[a] \in Int
    BY DEF SlewedAxes, Axes, Still, TypeOK, Velocity
<1>2. cap' \in Nat
    BY VelocityAssumption DEF TypeOK
<1>3. (Magnitude(Shown(0, a, cap, teaching)) = 0)'
    <2>1. ClampedVx(0, cap') = 0 /\ Within(0, cap') = 0 /\ Within(0, TeachSpeed) = 0
        BY <1>2, RestIsRest
    <2>2. Shown(0, a, cap, teaching)' = 0
        BY <2>1, Zenon DEF Shown
    <2>3. Magnitude(0) = 0
        BY DEF Magnitude
    <2> QED  BY <2>2, <2>3 DEF Magnitude
<1> QED  BY <1>1, <1>3, MagnitudeTyped

LEMMA NoPhantomKept == TypeOK /\ TypeOK' /\ NoPhantom /\ [Next]_vars => NoPhantom'
<1> SUFFICES ASSUME TypeOK, TypeOK', NoPhantom, [Next]_vars PROVE NoPhantom'
    OBVIOUS
<1>0. /\ cap \in Nat /\ cap' \in Nat /\ TeachSpeed \in Nat
      /\ limiter \in Velocity /\ command \in Velocity
    BY VelocityAssumption DEF TypeOK
<1>1. ASSUME NEW dt \in 0 .. MaxControlDt + 1, Withheld(dt) PROVE NoPhantom'
    <2>1. CASE kind = "GRID_SEARCH"
        <3>1. kind' = "GRID_SEARCH" /\ ~frame'.ran
            BY <1>1, <2>1 DEF Withheld, TypeOK
        <3> QED  BY <3>1 DEF NoPhantom
    <2>2. CASE kind # "GRID_SEARCH"
        BY <1>1, <2>2, RestIsNoPhantom DEF Withheld, AfterHold
    <2> QED  BY <2>1, <2>2
<1>2. ASSUME NEW dt \in 0 .. MaxControlDt + 1, NEW altitude \in Altitudes \cup {NoAltitude},
             NEW wish \in Wishes, Run(dt, altitude, wish)
      PROVE  NoPhantom'
    <2>1. kind' = kind /\ cap' = cap /\ teaching' = teaching /\ dt \in Nat
        BY <1>2, VelocityAssumption DEF Run
    <2>2. \A a \in SlewedAxes : Magnitude(Shown(limiter'[a], a, cap, teaching)) <= Magnitude(command'[a])
        BY <1>2, <2>1, RunShows
    <2> QED  BY <2>1, <2>2 DEF NoPhantom, SlewedAxes, Shown
<1>3. ASSUME NEW speed \in SliderSpeeds, SetMaxSpeed(speed) PROVE NoPhantom'
    <2> SUFFICES ASSUME ~relaxed', NEW a \in SlewedAxes
                 PROVE  Magnitude(Shown(limiter[a], a, cap', teaching)) <= Magnitude(command[a])
        BY <1>3 DEF SetMaxSpeed, NoPhantom, SlewedAxes, Shown
    <2>1. kind # "GRID_SEARCH" /\ ~relaxed /\ cap' <= cap
        <3>1. kind # "GRID_SEARCH" /\ ~relaxed /\ ~(cap' > cap)
            BY <1>3, Zenon DEF SetMaxSpeed
        <3> QED  BY <1>0, <3>1
    <2>2. Magnitude(Shown(limiter[a], a, cap, teaching)) <= Magnitude(command[a])
        BY <2>1 DEF NoPhantom
    <2>3. a \in Axes /\ limiter[a] \in Int /\ command[a] \in Int /\ teaching \in BOOLEAN
        BY <1>0 DEF SlewedAxes, Axes, Velocity, TypeOK
    <2> DEFINE low == IF a = "vx" THEN ClampedVx(limiter[a], cap') ELSE Within(limiter[a], cap')
               high == IF a = "vx" THEN ClampedVx(limiter[a], cap) ELSE Within(limiter[a], cap)
    <2>4. low \in Int /\ high \in Int /\ Magnitude(low) <= Magnitude(high)
        BY <1>0, <2>1, <2>3, LowerCap, WithinTyped, ClampedVxTyped
    <2>5. /\ Shown(limiter[a], a, cap', teaching) = IF teaching THEN Within(low, TeachSpeed) ELSE low
          /\ Shown(limiter[a], a, cap, teaching) = IF teaching THEN Within(high, TeachSpeed) ELSE high
        BY <2>1 DEF Shown
    <2> HIDE DEF low, high
    <2>6. Magnitude(Within(low, TeachSpeed)) <= Magnitude(Within(high, TeachSpeed))
        BY <1>0, <2>4, WithinIsMonotone
    <2>7. Magnitude(Shown(limiter[a], a, cap', teaching)) <= Magnitude(Shown(limiter[a], a, cap, teaching))
        BY <2>4, <2>5, <2>6
    <2>8. /\ Magnitude(Shown(limiter[a], a, cap', teaching)) \in Nat
          /\ Magnitude(Shown(limiter[a], a, cap, teaching)) \in Nat
          /\ Magnitude(command[a]) \in Nat
        BY <1>0, <2>3, ShownTyped, MagnitudeTyped
    <2> QED  BY <2>2, <2>7, <2>8
<1>4. CASE Enter
    BY <1>4, RestIsNoPhantom DEF Enter
<1>5. CASE TeachOrSelect
    <2> SUFFICES ASSUME ~relaxed', kind = "GRID_SEARCH" => frame.ran, NEW a \in SlewedAxes
                 PROVE  Magnitude(Shown(limiter[a], a, cap, teaching')) <= Magnitude(command[a])
        BY <1>5 DEF TeachOrSelect, NoPhantom, SlewedAxes, Shown
    <2>1. ~relaxed /\ teaching = FALSE /\ teaching' = TRUE
        BY <1>5 DEF TeachOrSelect, TypeOK
    <2>2. Magnitude(Shown(limiter[a], a, cap, FALSE)) <= Magnitude(command[a])
        BY <2>1 DEF NoPhantom
    <2>3. a \in Axes /\ limiter[a] \in Int /\ command[a] \in Int
        BY <1>0 DEF SlewedAxes, Axes, Velocity
    <2> DEFINE v == Shown(limiter[a], a, cap, FALSE)
    <2>4. v \in Int
        BY <1>0, <2>3, ShownTyped
    <2>5. Shown(limiter[a], a, cap, TRUE) = Within(v, TeachSpeed)
        BY DEF Shown
    <2> HIDE DEF v
    <2>6. Magnitude(Within(v, TeachSpeed)) <= Magnitude(v)
        BY <1>0, <2>4, SlowedIsLimited
    <2>7. Magnitude(Within(v, TeachSpeed)) \in Nat /\ Magnitude(v) \in Nat /\ Magnitude(command[a]) \in Nat
        BY <1>0, <2>3, <2>4, WithinTyped, MagnitudeTyped
    <2>8. Magnitude(v) <= Magnitude(command[a])
        BY <2>2 DEF v
    <2>9. Shown(limiter[a], a, cap, teaching') = Within(v, TeachSpeed)
        BY <2>1, <2>5, Zenon
    <2> QED  BY <2>6, <2>7, <2>8, <2>9
<1>6. CASE UNCHANGED vars
    BY <1>6 DEF vars, NoPhantom, SlewedAxes, Shown
<1> QED  BY <1>1, <1>2, <1>3, <1>4, <1>5, <1>6 DEF Next

\* One step, from a state in which no limiter holds a phantom.
LEMMA GradualStep ==
    ASSUME TypeOK, TypeOK', NoPhantom, [Next]_vars,
           frame'.ran, ~relaxed, kind = "GRID_SEARCH" => frame.ran, NEW a \in SlewedAxes
    PROVE  ~Faster(a)
<1>1. a \in Axes /\ command[a] \in Int /\ command'[a] \in Int /\ cap \in Nat /\ teaching \in BOOLEAN
    BY VelocityAssumption DEF SlewedAxes, Axes, TypeOK, Velocity
<1>2. Magnitude(command[a]) \in Nat /\ Magnitude(command'[a]) \in Nat
    BY <1>1, MagnitudeTyped
<1> DEFINE step == Accel * ControlDt(frame'.dt)
<1>3. step \in Nat
    BY StepTyped DEF TypeOK
<1> HIDE DEF step
<1>4. ASSUME command' = command PROVE ~Faster(a)
    BY <1>2, <1>3, <1>4 DEF Faster, step
<1>5. ASSUME NEW dt \in 0 .. MaxControlDt + 1, NEW altitude \in Altitudes \cup {NoAltitude},
             NEW wish \in Wishes, Run(dt, altitude, wish)
      PROVE  ~Faster(a)
    <2>1. dt \in Nat /\ frame'.dt = dt /\ Held(dt) \in Velocity
        BY <1>5, HeldTyped, VelocityAssumption DEF Run
    <2>2. Magnitude(command'[a]) <= Magnitude(Shown(Held(dt)[a], a, cap, teaching)) + step
        BY <1>5, <2>1, RunShows DEF step
    <2>3. Held(dt)[a] \in Int
        BY <1>1, <2>1 DEF Velocity
    <2>4. Magnitude(Shown(Held(dt)[a], a, cap, teaching)) \in Nat
        BY <1>1, <2>3, ShownTyped, MagnitudeTyped
    <2>5. Magnitude(Shown(Held(dt)[a], a, cap, teaching)) <= Magnitude(command[a])
        <3>1. CASE Held(dt) = limiter
            BY <3>1 DEF NoPhantom
        <3>2. CASE Held(dt) = Still
            <4>1. Still[a] = 0
                BY <1>1 DEF Still
            <4> QED  BY <1>1, <1>2, <3>2, <4>1, ShownAtRest
        <3> QED  BY <3>1, <3>2 DEF Held
    <2> QED  BY <1>2, <1>3, <2>2, <2>4, <2>5 DEF Faster, step
<1>6. ASSUME NEW dt \in 0 .. MaxControlDt + 1, Withheld(dt) PROVE FALSE
    BY <1>6 DEF Withheld, TypeOK
<1>7. ASSUME NEW speed \in SliderSpeeds, SetMaxSpeed(speed) PROVE ~Faster(a)
    BY <1>4, <1>7 DEF SetMaxSpeed
<1>8. CASE Enter
    BY <1>4, <1>8 DEF Enter
<1>9. CASE TeachOrSelect
    BY <1>4, <1>9 DEF TeachOrSelect
<1>10. CASE UNCHANGED vars
    BY <1>4, <1>10 DEF vars
<1> QED  BY <1>5, <1>6, <1>7, <1>8, <1>9, <1>10 DEF Next

\* Unless a limit is raised, no slewed axis ever gains speed faster than the
\* configured acceleration, whatever was refused, capped, held or stalled before.
THEOREM SpeedGrowsGradually == Spec => SpeedsUpGradually
<1>1. TypeOK /\ TypeOK' /\ NoPhantom /\ [Next]_vars
          => (frame'.ran /\ ~relaxed /\ (kind = "GRID_SEARCH" => frame.ran)
                  => \A a \in SlewedAxes : ~Faster(a))
    BY GradualStep
<1>2. Spec => []NoPhantom
    BY NoPhantomInitially, NoPhantomKept, TypeCorrect, PTL DEF Spec
<1> QED  BY <1>1, <1>2, TypeCorrect, PTL DEF Spec, SpeedsUpGradually
=============================================================================
