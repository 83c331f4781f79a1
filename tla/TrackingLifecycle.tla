-------------------------- MODULE TrackingLifecycle --------------------------
(***************************************************************************)
(* TrackingStateMachine over one of the detector-based trackers, as         *)
(* operators on its state.  Times are ages: unseen is the time since        *)
(* last_seen_ts, lost the time since _lost_since_ts.  locked says that the  *)
(* tracker still holds a target to match (its reset() forgets it).          *)
(***************************************************************************)
EXTENDS Naturals

CONSTANT ReacquireAfter         \* reacquire_timeout_s

ASSUME ReacquireAssumption == ReacquireAfter \in Nat \ {0}

Track ==
    [phase : {"IDLE", "TRACKING", "REACQUIRE", "TARGET_LOST"}, locked : BOOLEAN,
     unseen : 0 .. ReacquireAfter, lost : 0 .. ReacquireAfter]

NoTrack == [phase |-> "IDLE", locked |-> FALSE, unseen |-> 0, lost |-> 0]

HasTarget(t) == t.phase \in {"TRACKING", "REACQUIRE"}

Later(age, dt) == IF age + dt > ReacquireAfter THEN ReacquireAfter ELSE age + dt

\* Time passes between two frames.
Passing(t, dt) ==
    [t EXCEPT !.unseen = IF HasTarget(t) THEN Later(@, dt) ELSE 0,
              !.lost = IF t.phase = "REACQUIRE" THEN Later(@, dt) ELSE 0]

\* start(): the tracker is initialised on a detection of this frame.
Started == [phase |-> "TRACKING", locked |-> TRUE, unseen |-> 0, lost |-> 0]

NeverExpired(t) == t

\* _check_reacquire_timeout.  The tracker keeps its lock.
Expired(t) ==
    IF t.phase = "REACQUIRE" /\ t.lost >= ReacquireAfter
    THEN [t EXCEPT !.phase = "TARGET_LOST", !.unseen = 0, !.lost = 0]
    ELSE t

\* update(): the tracker matched, or missed.  The REACQUIRE time of a miss
\* counts from the last sighting.
Updated(t, matched) ==
    IF t.phase = "IDLE" THEN t
    ELSE IF matched /\ t.locked THEN Started
    ELSE IF t.phase = "TRACKING" THEN [t EXCEPT !.phase = "REACQUIRE", !.lost = t.unseen]
    ELSE Expired(t)

\* coast(): a frame without an AI result.
Coasted(t) == Expired(t)

\* drop_identity(): the box is judged to be the wrong subject.
Dropped(t) ==
    IF t.phase = "TRACKING"
    THEN [t EXCEPT !.phase = "REACQUIRE", !.locked = FALSE, !.lost = 0]
    ELSE t
==============================================================================
