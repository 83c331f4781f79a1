------------------------------ MODULE TeachMode ------------------------------
(***************************************************************************)
(* Whom the drone tracks, and the worker thread a frame waits for.          *)
(* The operator selects a detected subject, or teaches one that the         *)
(* detector has no class for: a box is drawn, and an OpenCV tracker follows *)
(* its pixels.  That tracker is slow, so process_frame hands                *)
(* state_machine.update to a worker thread and awaits it; the handlers of   *)
(* the app's commands run meanwhile.  The worker reads and writes one       *)
(* attribute a step; a handler is a step of the event loop, so a write of   *)
(* the worker between two writes of one stop() is left out.  What is        *)
(* modelled of the frame is what depends on the target; the gates of        *)
(* guidance are Companion's subject.                                        *)
(*                                                                         *)
(* pi is the state of the program, frame that of the frame being processed, *)
(* hist what the properties remember.  Operators take pi as p and give back *)
(* what the code makes of it.                                               *)
(***************************************************************************)
EXTENDS TrackingLifecycle, FiniteSets

CONSTANTS
    Detected,       \* subjects of one class the detector can find
    Taught,         \* names of objects that can be taught
    Nobody,
    HoldAfter,      \* target_hold_after_unseen_s
    SwapFrames,     \* track_swap_frames
    DropFrames,     \* track_drop_frames
    MaxObjects      \* MAX_OBJECTS

ASSUME TeachAssumption ==
    /\ Nobody \notin Detected \cup Taught
    /\ Detected \cap Taught = {}
    /\ {HoldAfter, SwapFrames, DropFrames, MaxObjects} \subseteq Nat \ {0}
    /\ HoldAfter <= ReacquireAfter /\ SwapFrames <= DropFrames

Subject == Detected \cup Taught

VARIABLES pi, frame, hist

vars == <<pi, frame, hist>>

TypeOK ==
    /\ pi \in [track : Track, who : Subject \cup {Nobody},
               tracker : {"detector", "visual"}, visual : BOOLEAN,
               look : Subject \cup {Nobody}, mismatch : 0 .. DropFrames - 1,
               dropped : BOOLEAN, custom : Taught \cup {Nobody},
               pending : Taught \cup {Nobody}, pick : Detected \cup {Nobody},
               mode : {"idle", "follow"}, objects : SUBSET Taught,
               kept : Taught \cup {Nobody}, aim : Subject \cup {Nobody}]
    /\ frame \in [at : {"loop", "begun", "looking", "matched", "held", "missed", "losing",
                        "lost", "timing", "expiring", "done", "back"},
                  who : Subject \cup {Nobody},
                  phase : {"IDLE", "TRACKING", "REACQUIRE", "TARGET_LOST"}]
    /\ hist \in [chosen : Subject \cup {Nobody}, learnt : BOOLEAN,
                 wrong : 0 .. DropFrames, stopped : BOOLEAN, halted : BOOLEAN]

AtLoop == [at |-> "loop", who |-> Nobody, phase |-> "IDLE"]

Init ==
    /\ pi = [track |-> NoTrack, who |-> Nobody, tracker |-> "detector",
             visual |-> FALSE, look |-> Nobody, mismatch |-> 0, dropped |-> FALSE,
             custom |-> Nobody, pending |-> Nobody, pick |-> Nobody, mode |-> "idle",
             objects |-> {}, kept |-> Nobody, aim |-> Nobody]
    /\ frame = AtLoop
    /\ hist = [chosen |-> Nobody, learnt |-> FALSE, wrong |-> 0, stopped |-> FALSE,
               halted |-> FALSE]

\* What a frame may find.  fresh: it carries an AI result; shown: the subjects
\* detected; match: whom a tracker with a lock takes for its target; sees: there
\* is a picture, and the boxes lie in it, so that a look can be learnt and
\* compared; later: time has passed since the frame before.
Observation ==
    {o \in [fresh : BOOLEAN, shown : SUBSET Detected, match : Detected \cup {Nobody},
            sees : BOOLEAN, later : 0 .. 1] :
        /\ o.match \in o.shown \cup {Nobody}
        /\ ~o.fresh => o.shown = {}}

-----------------------------------------------------------------------------
(* The tracker and what is remembered of the target. *)

TaughtNoMore(p) == [p EXCEPT !.custom = Nobody]

\* _end_teaching: back to the detector's tracker.
TeachingEnded(p) ==
    IF p.custom = Nobody THEN p
    ELSE [p EXCEPT !.custom = Nobody, !.tracker = "detector", !.visual = FALSE]

\* state_machine.stop(): the tracker in use forgets its target.
Stopped(p) ==
    [p EXCEPT !.track = [NoTrack EXCEPT !.locked = p.tracker = "visual" /\ p.track.locked],
              !.visual = @ /\ p.tracker # "visual",
              !.who = Nobody]

\* state_machine.start() on a detection.
StartedOn(p, s) == [p EXCEPT !.track = Started, !.who = s]

\* appearance.learn() keeps what it knew when there is nothing to learn from.
Learnt(p, sees) == IF sees THEN [p EXCEPT !.look = p.who] ELSE p

\* find_match: of the detections, the one that looks like the remembered one.
Recognised(p, o) == p.look \in o.shown /\ o.sees

-----------------------------------------------------------------------------
(* Teaching and selecting, at the beginning of a frame. *)

HasRoom(p) == p.pending \in p.objects \/ Cardinality(p.objects) < MaxObjects

\* The drawn box is taken by the visual tracker.
TeachingStarted(p) ==
    LET q == Stopped(TeachingEnded([p EXCEPT !.pick = Nobody]))
    IN  [q EXCEPT !.track = [Started EXCEPT !.locked = q.track.locked],
                  !.who = p.pending, !.tracker = "visual", !.visual = TRUE,
                  !.look = p.pending, !.custom = p.pending,
                  !.mismatch = 0, !.dropped = FALSE, !.pending = Nobody,
                  !.objects = @ \cup {p.pending}]

\* The visual tracker refuses the box (TeachError): the object is registered
\* all the same, and whatever was tracked is not any more.
TeachingRefused(p) ==
    LET q == Stopped(TeachingEnded([p EXCEPT !.pick = Nobody]))
    IN  [q EXCEPT !.pending = Nobody, !.objects = @ \cup {p.pending}]

\* _start_teaching.
StartTeaching(p, taken) ==
    CASE p.pending = Nobody -> p
      [] p.pending # Nobody /\ ~HasRoom(p) -> [p EXCEPT !.pending = Nobody]
      [] p.pending # Nobody /\ HasRoom(p) ->
            IF taken THEN TeachingStarted(p) ELSE TeachingRefused(p)

\* A selection waits for a frame with an AI result; one that hits nothing is
\* forgotten.
Select(p, o) ==
    IF p.pick = Nobody \/ ~o.fresh THEN p
    ELSE IF p.pick \in o.shown
    THEN [Learnt(StartedOn(TeachingEnded(p), p.pick), o.sees)
             EXCEPT !.mismatch = 0, !.pick = Nobody]
    ELSE [p EXCEPT !.pick = Nobody]

-----------------------------------------------------------------------------
(* The rest of a frame, from the answer of state_machine.update on. *)

\* The detector's tracker has looked, or there was nothing to look at.
TrackDetected(p, o) ==
    LET t == IF o.fresh THEN Updated(p.track, o.match # Nobody) ELSE Coasted(p.track)
    IN  [p EXCEPT !.track = t,
                  !.who = IF ~HasTarget(t) THEN Nobody
                          ELSE IF o.fresh /\ t = Started /\ o.match # Nobody THEN o.match
                          ELSE @]

\* A target given up is looked for by its remembered look.
Rematch(p, phase, o) ==
    IF phase = "TARGET_LOST" /\ o.fresh /\ Recognised(p, o)
    THEN Learnt(StartedOn(p, p.look), o.sees) ELSE p

\* _verify_tracked_identity; limit is track_drop_frames.
Verified(p, o, limit) ==
    LET wrong == p.mismatch + 1
        swap == wrong >= SwapFrames /\ Recognised(p, o) /\ p.look # p.who
    IN  CASE ~o.sees -> p
          [] o.sees /\ p.who = p.look -> [p EXCEPT !.mismatch = 0]
          [] o.sees /\ p.who # p.look /\ swap ->
                [Learnt(StartedOn(p, p.look), o.sees) EXCEPT !.mismatch = 0]
          [] o.sees /\ p.who # p.look /\ ~swap /\ wrong >= limit ->
                [p EXCEPT !.mismatch = 0, !.dropped = TRUE, !.track = Dropped(@),
                          !.visual = @ /\ p.tracker # "visual"]
          [] OTHER -> [p EXCEPT !.mismatch = wrong]

VerifyForgetful(p, o) ==
    IF o.sees THEN Verified(p, o, DropFrames) ELSE [p EXCEPT !.mismatch = 0]

Verify(p, o) == Verified(p, o, DropFrames)

\* looked: the tracker had new information in this frame.
Identify(p, phase, o, looked) ==
    LET q == IF phase = "TRACKING" THEN [p EXCEPT !.dropped = FALSE] ELSE p
    IN  IF ~(phase = "TRACKING" /\ p.look # Nobody) THEN [q EXCEPT !.mismatch = 0]
        ELSE IF looked THEN Verify(q, o) ELSE q

SampleOfAnyone(p, o) == p.custom # Nobody /\ p.who # Nobody /\ o.sees

SampleKept(p, o) ==
    p.custom # Nobody /\ p.who # Nobody /\ o.sees /\ p.who = p.look

\* dataset.maybe_save; its other gates (the time since the last sample, how
\* many there are) can hold one back at any time, and are left out.
Sample(p, phase, o) ==
    IF phase = "TRACKING" /\ SampleKept(p, o) THEN [p EXCEPT !.kept = p.custom] ELSE p

\* Follow steers on a box that was seen recently, and that was not judged wrong.
Aim(p, phase) ==
    IF /\ p.mode = "follow" /\ p.who # Nobody
       /\ p.track.unseen < HoldAfter /\ ~p.dropped
       /\ phase \in {"TRACKING", "REACQUIRE"}
    THEN p.who ELSE Nobody

\* The stages after the update; phase is the local tracking_state, which these
\* stages change together with the state machine.
Rest(p, phase, o, looked) ==
    LET r == Rematch(p, phase, o)
        phase1 == IF r = p THEN phase ELSE "TRACKING"
        v == Identify(r, phase1, o, looked)
        phase2 == IF v.track = r.track THEN phase1 ELSE v.track.phase
        s == Sample(v, phase2, o)
    IN  [s EXCEPT !.aim = Aim(s, phase2)]
-----------------------------------------------------------------------------
(* What the properties remember. *)

\* A frame may serve a request to teach and then a selection.
ChosenAt(h, p, o, taken) ==
    LET h1 == IF p.pending = Nobody \/ ~HasRoom(p) THEN h
              ELSE [h EXCEPT !.chosen = IF taken THEN p.pending ELSE Nobody,
                             !.learnt = taken, !.wrong = 0,
                             !.stopped = h.stopped /\ ~taken]
        pick == StartTeaching(p, taken).pick
    IN  IF o.fresh /\ pick \in o.shown
        THEN [h1 EXCEPT !.chosen = pick, !.learnt = o.sees, !.wrong = 0,
                        !.stopped = FALSE]
        ELSE h1

\* Frames in a row in which the box could be judged and was somebody else's.
Judged(h, p, o, looked) ==
    [h EXCEPT !.wrong =
        IF p.track.phase # "TRACKING" \/ p.who = h.chosen THEN 0
        ELSE IF o.sees /\ looked /\ @ < DropFrames THEN @ + 1 ELSE @]

-----------------------------------------------------------------------------
(* A frame: in one go, or around the worker thread. *)

BeginFrame(o, taken) ==
    /\ frame.at = "loop"
    /\ LET p == [pi EXCEPT !.track = Passing(@, o.later), !.aim = Nobody,
                             !.kept = Nobody]
           q == Select(StartTeaching(p, taken), o)
           t == TrackDetected(q, o)
           r == Rest(t, t.track.phase, o, o.fresh)
           h == ChosenAt(hist, p, o, taken)
       IN  /\ StartTeaching(p, taken).pick \in o.shown => o.match = q.who  \* its own box
           /\ IF q.custom # Nobody
              THEN pi' = q /\ hist' = h /\ frame' = [frame EXCEPT !.at = "begun"]
              ELSE pi' = r /\ hist' = Judged(h, r, o, o.fresh) /\ UNCHANGED frame

\* The worker asks the tracker; one that was reset has nothing to look for.
WorkerEnters ==
    /\ frame.at = "begun"
    /\ frame' = IF pi.track.phase = "IDLE" THEN [frame EXCEPT !.at = "back"]
                ELSE [frame EXCEPT !.at = IF pi.visual THEN "looking" ELSE "missed"]
    /\ UNCHANGED <<pi, hist>>

\* VisualTracker.update: a box, which may have drifted to somebody else, or
\* none.  A tracker that was reset meanwhile misses or raises, and then the
\* frame is skipped.
WorkerLooks ==
    /\ frame.at = "looking"
    /\ \/ frame' = [frame EXCEPT !.at = "missed"]
       \/ /\ pi.visual
          /\ \E s \in {pi.custom} \cup Detected :
                 frame' = [frame EXCEPT !.at = "matched", !.who = s]
       \/ ~pi.visual /\ frame' = AtLoop
    /\ UNCHANGED <<pi, hist>>

\* The worker writes the target ...
WorkerHoldsTarget ==
    /\ frame.at = "matched"
    /\ pi' = [pi EXCEPT !.who = frame.who, !.track.unseen = 0]
    /\ frame' = [frame EXCEPT !.at = "held"]
    /\ UNCHANGED hist

\* ... and the state, whatever they have become since.  That it is not lost is
\* written next, which undoes nothing that STOP may write in between.
WorkerHoldsState ==
    /\ frame.at = "held"
    /\ pi' = [pi EXCEPT !.track.phase = "TRACKING", !.track.lost = 0]
    /\ frame' = [frame EXCEPT !.at = "done"]
    /\ UNCHANGED hist

\* No match: what follows depends on the state read here.
WorkerMisses ==
    /\ frame.at = "missed"
    /\ frame' = [frame EXCEPT !.at = CASE pi.track.phase = "TRACKING" -> "losing"
                                       [] pi.track.phase = "REACQUIRE" -> "timing"
                                       [] OTHER -> "done"]
    /\ UNCHANGED <<pi, hist>>

WorkerLosesTarget ==
    /\ frame.at = "losing"
    /\ pi' = [pi EXCEPT !.track.phase = "REACQUIRE"]
    /\ frame' = [frame EXCEPT !.at = "lost"]
    /\ UNCHANGED hist

\* Since the last sighting, or since now when STOP has taken the target.
WorkerDatesTheLoss ==
    /\ frame.at = "lost"
    /\ pi' = [pi EXCEPT !.track.lost = pi.track.unseen]
    /\ frame' = [frame EXCEPT !.at = "done"]
    /\ UNCHANGED hist

\* _check_reacquire_timeout: after a STOP its assertion fails, and the frame is
\* skipped ...
WorkerTimes ==
    /\ frame.at = "timing"
    /\ frame' = IF pi.track.phase = "IDLE" THEN AtLoop
                ELSE [frame EXCEPT !.at = IF pi.track.lost >= ReacquireAfter
                                          THEN "expiring" ELSE "done"]
    /\ UNCHANGED <<pi, hist>>

\* ... or the target is given up, also if STOP has come since the test.
WorkerGivesUp ==
    /\ frame.at = "expiring"
    /\ pi' = [pi EXCEPT !.track.phase = "TARGET_LOST", !.track.unseen = 0,
                        !.track.lost = 0, !.who = Nobody]
    /\ frame' = [frame EXCEPT !.at = "done"]
    /\ UNCHANGED hist

\* The state is read once more, for the answer.
WorkerAnswers ==
    /\ frame.at = "done"
    /\ frame' = [frame EXCEPT !.at = "back", !.phase = pi.track.phase]
    /\ UNCHANGED <<pi, hist>>

\* The frame goes on.  A taught target that is lost ends the teaching; if
\* there is no teaching any more, naming it raises and the frame is skipped.
ResumeFrame(o) ==
    /\ frame.at = "back"
    /\ frame' = AtLoop
    /\ IF frame.phase = "TARGET_LOST" /\ pi.custom = Nobody
       THEN UNCHANGED <<pi, hist>>
       ELSE LET p == IF frame.phase = "TARGET_LOST" THEN TeachingEnded(pi) ELSE pi
                r == Rest(p, frame.phase, o, TRUE)
            IN  pi' = r /\ hist' = Judged(hist, r, o, TRUE)

-----------------------------------------------------------------------------
(* The operator, at any moment. *)

TargetForgotten(p) ==
    [TeachingEnded(Stopped(p)) EXCEPT
        !.pending = Nobody, !.pick = Nobody, !.look = Nobody, !.mismatch = 0,
        !.dropped = FALSE]

Forgotten(p) == [TargetForgotten(p) EXCEPT !.mode = "idle"]

\* _on_abort.
Abort ==
    /\ pi' = Forgotten([pi EXCEPT !.aim = Nobody, !.kept = Nobody])
    /\ hist' = [hist EXCEPT !.chosen = Nobody, !.learnt = FALSE, !.wrong = 0,
                            !.stopped = TRUE, !.halted = TRUE]
    /\ UNCHANGED frame

SelectTarget(s) == pi' = [pi EXCEPT !.pick = s] /\ UNCHANGED <<frame, hist>>

TeachObject(n) == pi' = [pi EXCEPT !.pending = n] /\ UNCHANGED <<frame, hist>>

ModeCommand(m) ==
    /\ pi' = [pi EXCEPT !.mode = m]
    /\ hist' = [hist EXCEPT !.halted = FALSE]
    /\ UNCHANGED frame

\* Does the visual tracker take the box, if there is one to take?
Takes == IF pi.pending = Nobody THEN {TRUE} ELSE BOOLEAN

Worker ==
    \/ WorkerEnters \/ WorkerLooks
    \/ WorkerHoldsTarget \/ WorkerHoldsState
    \/ WorkerMisses \/ WorkerLosesTarget \/ WorkerDatesTheLoss
    \/ WorkerTimes \/ WorkerGivesUp \/ WorkerAnswers

Next ==
    \/ \E o \in Observation : (\E taken \in Takes : BeginFrame(o, taken)) \/ ResumeFrame(o)
    \/ Worker
    \/ Abort
    \/ \E s \in Detected : SelectTarget(s)
    \/ \E n \in Taught : TeachObject(n)
    \/ \E m \in {"idle", "follow"} : ModeCommand(m)

Spec == Init /\ [][Next]_vars

-----------------------------------------------------------------------------
(* Properties. *)

\* STOP forgets the target: between two frames there is none until the
\* operator chooses again (_on_abort, "the selected target should be forgotten
\* too").
StopForgetsTheTarget ==
    frame.at = "loop" /\ hist.stopped => pi.who = Nobody /\ pi.track.phase = "IDLE"

\* After STOP nothing is steered on until the operator commands a mode, also in
\* the frame that was waiting for the worker when STOP came.
StopHaltsTheFrame == hist.halted => pi.aim = Nobody

\* Teaching is whole or not at all, whatever overtakes it: the visual tracker
\* is in use exactly while an object is taught, that object is registered, its
\* look is the one remembered, so that drifting can be noticed, and the
\* detector's tracker holds nobody it could go back to.
TeachingIsWhole ==
    /\ (pi.tracker = "visual") = (pi.custom # Nobody)
    /\ pi.visual => pi.tracker = "visual"
    /\ pi.custom # Nobody =>
           pi.look = pi.custom /\ pi.custom \in pi.objects /\ ~pi.track.locked

\* If the look of the chosen target was learnt when it was chosen, a tracker
\* that has gone over to somebody else is corrected or given up before it was
\* seen to be wrong DropFrames times in a row (_verify_tracked_identity), for
\* selected and for taught targets.
StrangersAreGivenUp == hist.learnt => hist.wrong < DropFrames

\* No more objects than the registry takes (register).
RegistryIsBounded == Cardinality(pi.objects) <= MaxObjects

\* A sample is kept only of the object being taught, and only while it is the
\* one in the box (maybe_save, across an await in which teaching may end).
SamplesAreTheObject ==
    [][pi'.kept \notin {Nobody, pi.kept} =>
           pi'.kept = pi.custom /\ pi'.custom = pi.custom /\ pi'.who = pi.custom]_vars
==============================================================================
