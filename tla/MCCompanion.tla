----------------------------- MODULE MCCompanion -----------------------------
(***************************************************************************)
(* Scenarios of Companion for model checking.  Each looks at one feature:   *)
(* it varies what matters to that feature and holds the rest still, so the  *)
(* runs stay small; every run checks its properties in all of its           *)
(* scenarios.                                                              *)
(***************************************************************************)
EXTENDS CompanionProperties, TLC

MCModes == {"GUIDED", "LOITER", "BRAKE", "RTL", "LAND"}

\* A frame in which everything goes well.
Fine ==
    [dt |-> 1, sight |-> "self", better |-> FALSE, pick |-> TRUE, learns |-> TRUE,
     obstacle |-> FALSE, range |-> "far", steer |-> "move", tooFar |-> FALSE,
     written |-> TRUE]

Those(S) == {o \in S : Possible(o)}

\* Frames with the target in view, picked if a selection is pending, or not.
InViewOrNot == {Fine, [Fine EXCEPT !.sight = "miss", !.pick = FALSE]}

AtOnce(S) == {[o EXCEPT !.dt = 0] : o \in S}

Unwritten(S) == {[o EXCEPT !.written = FALSE] : o \in S}

FollowOnly ==
    [modes |-> {"IDLE", "FOLLOWING"}, auto |-> {FALSE}, dock |-> {}, faults |-> {},
     airborne |-> TRUE, clock |-> 1, finds |-> InViewOrNot]

\* Sightings of every kind, a selection that hits or not, identities to swap,
\* failing writes, a link to the app that comes and goes.
Follow ==
    [FollowOnly EXCEPT
        !.faults = {"comms"},
        !.finds = Those({[Fine EXCEPT !.sight = s, !.better = b, !.pick = p] :
                            s \in {"none", "miss", "self", "other"}, b, p \in BOOLEAN})
                  \cup Unwritten(AtOnce({[Fine EXCEPT !.pick = FALSE]}))
                  \cup Unwritten({[Fine EXCEPT !.sight = "none", !.pick = FALSE]})]

\* What may withhold guidance of Follow; the link, the battery and the ground vary
\* in other scenarios.
Gate ==
    [FollowOnly EXCEPT
        !.faults = {"sticks", "fence"},
        !.finds = InViewOrNot \cup {[Fine EXCEPT !.obstacle = TRUE]}]

\* A STOP in the middle of a selection, a search, a takeoff.
Stop ==
    [FollowOnly EXCEPT
        !.auto = BOOLEAN, !.faults = {"sticks", "height"},
        !.finds = InViewOrNot \cup Unwritten(InViewOrNot)]

\* The target lost and found; RTL or the question whether to land.
Search ==
    [FollowOnly EXCEPT
        !.faults = {"sticks"},
        !.finds = @ \cup {[o EXCEPT !.tooFar = TRUE] : o \in @} \cup AtOnce(@)]

\* Arm & Follow from the ground.
ArmAndFollow ==
    [FollowOnly EXCEPT
        !.auto = BOOLEAN, !.faults = {"armed", "ground", "height", "battery"},
        !.airborne = FALSE, !.finds = InViewOrNot \cup Unwritten(InViewOrNot)]

\* The failsafe does not look at the target, so there is none.
CommsLost ==
    [FollowOnly EXCEPT
        !.faults = {"comms", "battery", "switch"},
        !.finds = {[Fine EXCEPT !.dt = d, !.sight = "miss", !.pick = FALSE] : d \in {0, 1}}]

\* Approach-Test at every distance, with what interrupts it.
Approach ==
    [FollowOnly EXCEPT
        !.modes = {"IDLE", "APPROACHING"}, !.faults = {"fence"},
        !.finds = Those({[Fine EXCEPT !.sight = s, !.pick = s = "self", !.range = r] :
                            s \in {"none", "miss", "self"}, r \in {"near", "far", "none"}})]

ApproachWithSticks == [Approach EXCEPT !.faults = {"fence", "sticks"}]

\* Grid search: every outcome of a leg, good and bad positions.
Sweep ==
    [FollowOnly EXCEPT
        !.modes = {"IDLE", "GRID_SEARCH"}, !.dock = {"LOITER"},
        !.faults = {"comms", "stale", "gps"},
        !.finds = {[Fine EXCEPT !.sight = "miss", !.pick = FALSE, !.steer = v,
                                !.written = w] :
                       v \in {"move", "zero", "none", "done"}, w \in BOOLEAN}]

SafetyScenarios ==
    "follow" :> Follow @@ "gate" :> Gate @@ "stop" :> Stop @@ "search" :> Search
    @@ "takeoff" :> ArmAndFollow @@ "failsafe" :> CommsLost
    @@ "approach" :> ApproachWithSticks @@ "sweep" :> Sweep

\* What must end is checked with a clock, which doubles the states, so with other
\* and fewer changes of the world.
Clocked(s, faults) == [s EXCEPT !.clock = 2, !.faults = faults]

\* The operator may change between two modes that search and take off.
OrOrbit(s) == [s EXCEPT !.modes = @ \cup {"ORBITING"}]

ClockedScenarios ==
    "search ends" :> OrOrbit(Clocked(Search, {"battery"}))
    @@ "takeoff ends" :> OrOrbit(Clocked(ArmAndFollow, {"armed", "height"}))
    @@ "called home" :> Clocked(CommsLost, {"comms", "sticks", "switch"})

AllScenarios == SafetyScenarios @@ ClockedScenarios

StickScenarios == "stop" :> Stop
=============================================================================
