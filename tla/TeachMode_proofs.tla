--------------------------- MODULE TeachMode_proofs ---------------------------
(***************************************************************************)
(* For any subjects, names, counts and times: the types of TeachMode, that   *)
(* teaching is whole or not at all whatever overtakes the worker thread, that *)
(* nothing is steered on after STOP, and that the registry keeps to its      *)
(* limit.                                                                   *)
(*                                                                         *)
(* The stages of a frame are operators on the state of the program, so the    *)
(* proof has a lemma for each: it keeps Fine, and it leaves the mode alone.   *)
(***************************************************************************)
EXTENDS TeachMode, FiniteSetTheorems, TLAPS

Subjects == Subject \cup {Nobody}

Pis ==
    [track : Track, who : Subjects,
     tracker : {"detector", "visual"}, visual : BOOLEAN,
     look : Subjects, mismatch : 0 .. DropFrames - 1,
     dropped : BOOLEAN, custom : Taught \cup {Nobody},
     pending : Taught \cup {Nobody}, pick : Detected \cup {Nobody},
     mode : {"idle", "follow"}, objects : SUBSET Taught,
     kept : Taught \cup {Nobody}, aim : Subjects]

Frames ==
    [at : {"loop", "begun", "looking", "matched", "held", "missed", "losing", "lost",
            "timing", "expiring", "done", "back"},
     who : Subjects, phase : {"IDLE", "TRACKING", "REACQUIRE", "TARGET_LOST"}]

Hists ==
    [chosen : Subjects, learnt : BOOLEAN, wrong : 0 .. DropFrames, stopped : BOOLEAN,
     halted : BOOLEAN]

\* TeachingIsWhole of the state p.
WholeIn(p) ==
    /\ p.tracker = "visual" <=> p.custom # Nobody
    /\ p.visual => p.tracker = "visual"
    /\ p.custom # Nobody =>
           p.look = p.custom /\ p.custom \in p.objects /\ ~p.track.locked

Fine(p) ==
    /\ p \in Pis /\ WholeIn(p)
    /\ IsFiniteSet(p.objects) /\ Cardinality(p.objects) <= MaxObjects

\* What most stages leave alone.
Keeps(p, q) ==
    q.mode = p.mode /\ q.aim = p.aim /\ q.objects = p.objects /\ q.kept = p.kept

\* After STOP no mode is commanded, so nothing is steered on.
HaltedIsIdle == hist.halted => pi.mode = "idle" /\ pi.aim = Nobody

-----------------------------------------------------------------------------
(* Types of the parts. *)

LEMMA ConstantsTyped ==
    /\ ReacquireAfter \in Nat \ {0} /\ HoldAfter \in Nat \ {0} /\ SwapFrames \in Nat \ {0}
    /\ DropFrames \in Nat \ {0} /\ MaxObjects \in Nat \ {0}
    /\ 0 \in 0 .. DropFrames - 1 /\ 0 \in 0 .. DropFrames /\ 0 \in 0 .. ReacquireAfter
BY TeachAssumption, ReacquireAssumption

LEMMA Typed ==
    /\ TypeOK <=> pi \in Pis /\ frame \in Frames /\ hist \in Hists
    /\ TypeOK' <=> pi' \in Pis /\ frame' \in Frames /\ hist' \in Hists
BY DEF TypeOK, Pis, Frames, Hists, Subjects

LEMMA TrackTypes ==
    ASSUME NEW t \in Track
    PROVE  /\ NoTrack \in Track /\ Started \in Track
           /\ \A b \in BOOLEAN : [NoTrack EXCEPT !.locked = b] \in Track
           /\ \A b \in BOOLEAN : [Started EXCEPT !.locked = b] \in Track
           /\ \A dt \in 0 .. 1 : Passing(t, dt) \in Track /\ (Passing(t, dt).locked <=> t.locked)
           /\ Expired(t) \in Track /\ (Expired(t).locked <=> t.locked)
           /\ \A m \in BOOLEAN :
                 Updated(t, m) \in Track /\ (Updated(t, m).locked => t.locked)
           /\ Dropped(t) \in Track /\ (Dropped(t).locked => t.locked)
<1>1. /\ t.phase \in {"IDLE", "TRACKING", "REACQUIRE", "TARGET_LOST"} /\ t.locked \in BOOLEAN
      /\ t.unseen \in 0 .. ReacquireAfter /\ t.lost \in 0 .. ReacquireAfter
    BY DEF Track
<1>2. /\ NoTrack \in Track /\ Started \in Track
      /\ \A b \in BOOLEAN : [NoTrack EXCEPT !.locked = b] \in Track
      /\ \A b \in BOOLEAN : [Started EXCEPT !.locked = b] \in Track
    BY ConstantsTyped DEF NoTrack, Started, Track
<1>3. \A age \in 0 .. ReacquireAfter, dt \in 0 .. 1 : Later(age, dt) \in 0 .. ReacquireAfter
    BY ConstantsTyped DEF Later
<1>4. ASSUME NEW dt \in 0 .. 1
      PROVE  Passing(t, dt) \in Track /\ (Passing(t, dt).locked <=> t.locked)
    BY <1>1, <1>3, ConstantsTyped DEF Passing, Track
<1>5. Expired(t) \in Track /\ (Expired(t).locked <=> t.locked)
    BY <1>1, ConstantsTyped DEF Expired, Track
<1>6. ASSUME NEW m \in BOOLEAN
      PROVE  Updated(t, m) \in Track /\ (Updated(t, m).locked => t.locked)
    BY <1>1, <1>2, <1>5 DEF Updated, Track
<1>7. Dropped(t) \in Track /\ (Dropped(t).locked => t.locked)
    BY <1>1, ConstantsTyped DEF Dropped, Track
<1> QED  BY <1>2, <1>4, <1>5, <1>6, <1>7

-----------------------------------------------------------------------------
(* The tracker and what is remembered of the target. *)

LEMMA EndedStage ==
    ASSUME NEW p, Fine(p)
    PROVE  LET q == TeachingEnded(p)
           IN  /\ Fine(q) /\ Keeps(p, q)
               /\ q.custom = Nobody /\ q.tracker = "detector" /\ q.visual = FALSE
               /\ q.pending = p.pending /\ q.pick = p.pick /\ q.track = p.track
<1>1. CASE p.custom = Nobody
    BY <1>1 DEF TeachingEnded, Fine, Keeps, WholeIn, Pis
<1>2. CASE p.custom # Nobody
    BY <1>2 DEF TeachingEnded, Fine, Keeps, WholeIn, Pis
<1> QED  BY <1>1, <1>2

LEMMA StoppedStage ==
    ASSUME NEW p, Fine(p)
    PROVE  LET q == Stopped(p)
           IN  /\ Fine(q) /\ Keeps(p, q)
               /\ q.custom = p.custom /\ q.tracker = p.tracker
               /\ q.pending = p.pending /\ q.pick = p.pick
               /\ (p.tracker # "visual" => ~q.track.locked)
               /\ q.track.phase = "IDLE" /\ q.who = Nobody
<1> DEFINE b == p.tracker = "visual" /\ p.track.locked
           v == p.visual /\ p.tracker # "visual"
<1>1. b \in BOOLEAN /\ v \in BOOLEAN
    BY Zenon
<1>2. Stopped(p) = [p EXCEPT !.track = [NoTrack EXCEPT !.locked = b], !.visual = v,
                             !.who = Nobody]
    BY DEF Stopped, Fine, Pis
<1>3. b => p.track.locked /\ p.tracker = "visual"
    OBVIOUS
<1>4. v => p.visual
    OBVIOUS
<1>5. [NoTrack EXCEPT !.locked = b] \in Track
    BY <1>1, ConstantsTyped DEF NoTrack, Track
<1>6. /\ ([NoTrack EXCEPT !.locked = b].locked <=> b)
      /\ [NoTrack EXCEPT !.locked = b].phase = "IDLE"
    BY DEF NoTrack
<1> HIDE DEF b, v
<1> QED  BY <1>1, <1>2, <1>3, <1>4, <1>5, <1>6 DEF Fine, Keeps, WholeIn, Pis, Subjects

\* A target of the detector's tracker.
LEMMA StartedOnStage ==
    ASSUME NEW p, Fine(p), p.custom = Nobody, NEW s \in Subject
    PROVE  LET q == StartedOn(p, s)
           IN  Fine(q) /\ Keeps(p, q) /\ q.custom = Nobody /\ q.pick = p.pick /\ q.who = s
<1>1. Started \in Track
    BY ConstantsTyped DEF Started, Track
<1> QED  BY <1>1 DEF StartedOn, Fine, Keeps, WholeIn, Pis, Subjects

LEMMA LearntStage ==
    ASSUME NEW p, Fine(p), p.custom = Nobody, NEW sees \in BOOLEAN
    PROVE  LET q == Learnt(p, sees)
           IN  Fine(q) /\ Keeps(p, q) /\ q.custom = Nobody /\ q.pick = p.pick
BY DEF Learnt, Fine, Keeps, WholeIn, Pis

LEMMA ObservationIs ==
    ASSUME NEW o \in Observation
    PROVE  /\ o.fresh \in BOOLEAN /\ o.shown \subseteq Detected /\ o.sees \in BOOLEAN
           /\ o.match \in Detected \cup {Nobody} /\ o.later \in 0 .. 1
BY DEF Observation

\* Only a subject that the detector can find is recognised: never a taught one.
LEMMA RecognisedIs ==
    ASSUME NEW p, Fine(p), NEW o \in Observation, Recognised(p, o)
    PROVE  p.custom = Nobody /\ p.look \in Subject
BY ObservationIs, TeachAssumption DEF Recognised, Fine, WholeIn, Pis, Subject

\* The remembered look is found: the tracker is started on it.
LEMMA RelockedStage ==
    ASSUME NEW p, Fine(p), NEW o \in Observation, Recognised(p, o)
    PROVE  LET q == Learnt(StartedOn(p, p.look), o.sees)
           IN  Fine(q) /\ Keeps(p, q) /\ q.custom = p.custom
<1>1. p.custom = Nobody /\ p.look \in Subject /\ o.sees \in BOOLEAN
    BY RecognisedIs, ObservationIs
<1>2. /\ Fine(StartedOn(p, p.look)) /\ Keeps(p, StartedOn(p, p.look))
      /\ StartedOn(p, p.look).custom = Nobody
    BY <1>1, StartedOnStage
<1> QED  BY <1>1, <1>2, LearntStage DEF Keeps

-----------------------------------------------------------------------------
(* Teaching and selecting. *)

\* One more name, if there is room or it is known.
LEMMA Registered ==
    ASSUME NEW p, Fine(p), p.pending # Nobody, HasRoom(p)
    PROVE  LET all == p.objects \cup {p.pending}
           IN  /\ all \in SUBSET Taught /\ p.pending \in Taught
               /\ IsFiniteSet(all) /\ Cardinality(all) <= MaxObjects
<1>1. p.pending \in Taught /\ p.objects \in SUBSET Taught /\ IsFiniteSet(p.objects)
    BY DEF Fine, Pis
<1>2. Cardinality(p.objects) \in Nat /\ Cardinality(p.objects) <= MaxObjects
    BY <1>1, FS_CardinalityType DEF Fine
<1>3. IsFiniteSet(p.objects \cup {p.pending})
    BY <1>1, FS_AddElement
<1>4. CASE p.pending \in p.objects
    <2>1. p.objects \cup {p.pending} = p.objects
        BY <1>4
    <2> QED  BY <1>1, <1>2, <1>3, <2>1
<1>5. CASE p.pending \notin p.objects
    <2>1. Cardinality(p.objects \cup {p.pending}) = Cardinality(p.objects) + 1
        BY <1>1, <1>5, FS_AddElement
    <2>2. Cardinality(p.objects) < MaxObjects
        BY <1>5 DEF HasRoom
    <2> QED  BY <1>1, <1>2, <1>3, <2>1, <2>2, ConstantsTyped
<1> QED  BY <1>4, <1>5

LEMMA TeachStage ==
    ASSUME NEW p, Fine(p), NEW taken \in BOOLEAN
    PROVE  LET q == StartTeaching(p, taken)
           IN  Fine(q) /\ q.mode = p.mode /\ q.aim = p.aim /\ q.kept = p.kept
<1>1. CASE p.pending = Nobody
    BY <1>1 DEF StartTeaching
<1>2. CASE p.pending # Nobody /\ ~HasRoom(p)
    <2>1. StartTeaching(p, taken) = [p EXCEPT !.pending = Nobody]
        BY <1>2 DEF StartTeaching
    <2> QED  BY <2>1 DEF Fine, WholeIn, Pis
<1>3. CASE p.pending # Nobody /\ HasRoom(p)
    <2> DEFINE p1 == [p EXCEPT !.pick = Nobody]
               q == Stopped(TeachingEnded(p1))
    <2>1. Fine(p1) /\ Keeps(p, p1) /\ p1.pending = p.pending
        BY DEF Fine, WholeIn, Pis, Keeps
    <2>2. /\ Fine(TeachingEnded(p1)) /\ Keeps(p1, TeachingEnded(p1))
          /\ TeachingEnded(p1).custom = Nobody /\ TeachingEnded(p1).tracker = "detector"
          /\ TeachingEnded(p1).pending = p1.pending
        BY <2>1, EndedStage
    <2> HIDE DEF p1
    <2>3. /\ Fine(q) /\ Keeps(TeachingEnded(p1), q) /\ q.custom = Nobody
          /\ q.tracker = "detector" /\ ~q.track.locked
        BY <2>2, StoppedStage
    <2>4. q.mode = p.mode /\ q.aim = p.aim /\ q.objects = p.objects /\ q.kept = p.kept
        BY <2>1, <2>2, <2>3 DEF Keeps
    <2> DEFINE all == p.objects \cup {p.pending}
               name == p.pending
    <2>5. /\ all \in SUBSET Taught /\ name \in Taught /\ name \in all /\ name # Nobody
          /\ IsFiniteSet(all) /\ Cardinality(all) <= MaxObjects
        BY <1>3, Registered
    <2>6. CASE taken
        <3>1. StartTeaching(p, taken) =
                 [q EXCEPT !.track = [Started EXCEPT !.locked = q.track.locked],
                           !.who = name, !.tracker = "visual", !.visual = TRUE,
                           !.look = name, !.custom = name,
                           !.mismatch = 0, !.dropped = FALSE, !.pending = Nobody,
                           !.objects = all]
            BY <1>3, <2>3, <2>4, <2>6 DEF StartTeaching, TeachingStarted, p1, Fine, Pis
        <3>2. /\ [Started EXCEPT !.locked = q.track.locked] \in Track
              /\ ~[Started EXCEPT !.locked = q.track.locked].locked
            <4>1. q.track.locked \in BOOLEAN
                BY <2>3 DEF Fine, Pis, Track
            <4> QED  BY <2>3, <4>1, ConstantsTyped DEF Started, Track
        <3>3. 0 \in 0 .. DropFrames - 1 /\ name \in Subjects
            BY <2>5, ConstantsTyped DEF Subjects, Subject
        <3> DEFINE e == StartTeaching(p, taken)
        <3> HIDE DEF q, all, name
        <3>4. /\ e.track = [Started EXCEPT !.locked = q.track.locked]
              /\ e.tracker = "visual" /\ e.look = name /\ e.custom = name /\ e.objects = all
              /\ e.mode = q.mode /\ e.aim = q.aim /\ e.kept = q.kept
            BY <2>3, <3>1 DEF Fine, Pis
        <3>5. e \in Pis
            <4> DEFINE e1 == [q EXCEPT !.track = [Started EXCEPT !.locked = q.track.locked],
                                       !.who = name, !.tracker = "visual", !.visual = TRUE,
                                       !.look = name, !.custom = name]
            <4>1. e1 \in Pis
                BY <2>3, <2>5, <3>2, <3>3 DEF Fine, Pis
            <4>2. e = [e1 EXCEPT !.mismatch = 0, !.dropped = FALSE, !.pending = Nobody,
                                 !.objects = all]
                BY <3>1
            <4> HIDE DEF e1, e
            <4> QED  BY <2>5, <3>3, <4>1, <4>2 DEF Pis
        <3> HIDE DEF e
        <3>6. Fine(e) /\ e.mode = p.mode /\ e.aim = p.aim /\ e.kept = p.kept
            BY <2>4, <2>5, <3>2, <3>4, <3>5 DEF Fine, WholeIn
        <3> QED  BY <3>6 DEF e
    <2>7. CASE ~taken
        <3>1. StartTeaching(p, taken) = [q EXCEPT !.pending = Nobody, !.objects = all]
            BY <1>3, <2>3, <2>4, <2>7 DEF StartTeaching, TeachingRefused, p1, Fine, Pis
        <3> HIDE DEF q, all, name
        <3> QED  BY <2>3, <2>4, <2>5, <3>1 DEF Fine, WholeIn, Pis
    <2> QED  BY <2>6, <2>7
<1> QED  BY <1>1, <1>2, <1>3

LEMMA SelectStage ==
    ASSUME NEW p, Fine(p), NEW o \in Observation
    PROVE  Fine(Select(p, o)) /\ Keeps(p, Select(p, o))
<1>1. CASE p.pick = Nobody \/ ~o.fresh
    BY <1>1 DEF Select, Keeps
<1>2. CASE p.pick # Nobody /\ o.fresh /\ p.pick \in o.shown
    <2> DEFINE q == TeachingEnded(p)
               r == StartedOn(q, p.pick)
               l == Learnt(r, o.sees)
    <2>1. Fine(q) /\ Keeps(p, q) /\ q.custom = Nobody
        BY EndedStage
    <2>2. p.pick \in Subject /\ o.sees \in BOOLEAN
        BY <1>2, ObservationIs DEF Subject
    <2>3. Fine(r) /\ Keeps(q, r) /\ r.custom = Nobody
        BY <2>1, <2>2, StartedOnStage
    <2>4. Fine(l) /\ Keeps(r, l)
        BY <2>2, <2>3, LearntStage
    <2>5. Select(p, o) = [l EXCEPT !.mismatch = 0, !.pick = Nobody]
        BY <1>2 DEF Select
    <2> HIDE DEF l
    <2>6. Fine(Select(p, o)) /\ Keeps(l, Select(p, o))
        BY <2>4, <2>5, ConstantsTyped DEF Fine, WholeIn, Pis, Keeps
    <2> QED  BY <2>1, <2>3, <2>4, <2>6 DEF Keeps
<1>3. CASE p.pick # Nobody /\ o.fresh /\ p.pick \notin o.shown
    <2>1. Select(p, o) = [p EXCEPT !.pick = Nobody]
        BY <1>3 DEF Select
    <2> QED  BY <2>1 DEF Fine, WholeIn, Pis, Keeps
<1> QED  BY <1>1, <1>2, <1>3

-----------------------------------------------------------------------------
(* The rest of a frame. *)

LEMMA DetectedStage ==
    ASSUME NEW p, Fine(p), p.custom = Nobody, NEW o \in Observation
    PROVE  LET q == TrackDetected(p, o)
           IN  Fine(q) /\ Keeps(p, q) /\ q.custom = Nobody
<1> DEFINE t == IF o.fresh THEN Updated(p.track, o.match # Nobody) ELSE Coasted(p.track)
           w == IF ~HasTarget(t) THEN Nobody
                ELSE IF o.fresh /\ t = Started /\ o.match # Nobody THEN o.match ELSE p.who
<1>1. p.track \in Track /\ p.who \in Subjects
    BY DEF Fine, Pis
<1>2. (o.match # Nobody) \in BOOLEAN
    BY Zenon
<1>3. t \in Track
    BY <1>1, <1>2, TrackTypes DEF Coasted
<1>4. w \in Subjects
    BY <1>1, ObservationIs DEF Subjects, Subject
<1>5. TrackDetected(p, o) = [p EXCEPT !.track = t, !.who = w]
    BY DEF TrackDetected, Fine, Pis
<1> HIDE DEF t, w
<1> QED  BY <1>3, <1>4, <1>5 DEF Fine, WholeIn, Pis, Keeps

LEMMA RematchStage ==
    ASSUME NEW p, Fine(p), NEW phase, NEW o \in Observation
    PROVE  LET q == Rematch(p, phase, o) IN Fine(q) /\ Keeps(p, q) /\ q.custom = p.custom
<1>1. Keeps(p, p)
    BY DEF Keeps
<1> QED  BY <1>1, RelockedStage DEF Rematch

LEMMA VerifyStage ==
    ASSUME NEW p, Fine(p), NEW o \in Observation
    PROVE  LET q == Verify(p, o) IN Fine(q) /\ Keeps(p, q) /\ q.custom = p.custom
<1> DEFINE wrong == p.mismatch + 1
           swap == wrong >= SwapFrames /\ Recognised(p, o) /\ p.look # p.who
<1>0. p.mismatch \in 0 .. DropFrames - 1 /\ p.mismatch \in Nat
    BY DEF Fine, Pis
<1>1. CASE ~o.sees
    BY <1>1 DEF Verify, Verified, Keeps
<1>2. CASE o.sees /\ p.who = p.look
    <2>1. Verify(p, o) = [p EXCEPT !.mismatch = 0]
        BY <1>2 DEF Verify, Verified
    <2> QED  BY <2>1, ConstantsTyped DEF Fine, WholeIn, Pis, Keeps
<1>3. CASE o.sees /\ p.who # p.look /\ swap
    <2> DEFINE l == Learnt(StartedOn(p, p.look), o.sees)
    <2>1. Verify(p, o) = [l EXCEPT !.mismatch = 0]
        BY <1>3 DEF Verify, Verified
    <2>2. Fine(l) /\ Keeps(p, l) /\ l.custom = p.custom
        BY <1>3, RelockedStage
    <2> HIDE DEF l
    <2> QED  BY <2>1, <2>2, ConstantsTyped DEF Fine, WholeIn, Pis, Keeps
<1>4. CASE o.sees /\ p.who # p.look /\ ~swap /\ wrong >= DropFrames
    <2> DEFINE v == p.visual /\ p.tracker # "visual"
               t == Dropped(p.track)
    <2>1. Verify(p, o) = [p EXCEPT !.mismatch = 0, !.dropped = TRUE, !.track = t, !.visual = v]
        BY <1>4 DEF Verify, Verified, Fine, Pis
    <2>2. v \in BOOLEAN
        BY Zenon
    <2>3. v => p.visual
        OBVIOUS
    <2>4. t \in Track /\ (t.locked => p.track.locked)
        BY TrackTypes DEF Fine, Pis
    <2> HIDE DEF v, t
    <2>5. Verify(p, o) \in Pis
        BY <2>1, <2>2, <2>4, ConstantsTyped DEF Fine, Pis
    <2>6. /\ Verify(p, o).tracker = p.tracker /\ Verify(p, o).custom = p.custom
          /\ Verify(p, o).look = p.look /\ Verify(p, o).objects = p.objects
          /\ Verify(p, o).mode = p.mode /\ Verify(p, o).aim = p.aim
          /\ Verify(p, o).kept = p.kept /\ Verify(p, o).track = t /\ Verify(p, o).visual = v
        BY <2>1 DEF Fine, Pis
    <2> QED  BY <2>3, <2>4, <2>5, <2>6 DEF Fine, WholeIn, Keeps
<1>5. CASE o.sees /\ p.who # p.look /\ ~swap /\ ~(wrong >= DropFrames)
    <2>1. Verify(p, o) = [p EXCEPT !.mismatch = wrong]
        BY <1>5 DEF Verify, Verified
    <2>2. wrong \in 0 .. DropFrames - 1
        BY <1>0, <1>5, ConstantsTyped
    <2> HIDE DEF wrong
    <2> QED  BY <2>1, <2>2 DEF Fine, WholeIn, Pis, Keeps
<1> QED  BY <1>1, <1>2, <1>3, <1>4, <1>5

LEMMA IdentifyStage ==
    ASSUME NEW p, Fine(p), NEW phase, NEW o \in Observation, NEW looked
    PROVE  LET q == Identify(p, phase, o, looked)
           IN  Fine(q) /\ Keeps(p, q) /\ q.custom = p.custom
<1> DEFINE q == IF phase = "TRACKING" THEN [p EXCEPT !.dropped = FALSE] ELSE p
<1>1. Fine(q) /\ Keeps(p, q) /\ q.custom = p.custom
    BY DEF Fine, WholeIn, Pis, Keeps
<1>2. /\ Fine([q EXCEPT !.mismatch = 0]) /\ Keeps(q, [q EXCEPT !.mismatch = 0])
      /\ [q EXCEPT !.mismatch = 0].custom = q.custom
    <2> HIDE DEF q
    <2> QED  BY <1>1, ConstantsTyped DEF Fine, WholeIn, Pis, Keeps
<1>3. Fine(Verify(q, o)) /\ Keeps(q, Verify(q, o)) /\ Verify(q, o).custom = q.custom
    BY <1>1, VerifyStage
<1>4. Identify(p, phase, o, looked) \in {[q EXCEPT !.mismatch = 0], Verify(q, o), q}
    BY DEF Identify
<1> HIDE DEF q
<1> QED  BY <1>1, <1>2, <1>3, <1>4 DEF Keeps

LEMMA SampleStage ==
    ASSUME NEW p, Fine(p), NEW phase, NEW o
    PROVE  LET q == Sample(p, phase, o)
           IN  /\ Fine(q) /\ q.mode = p.mode /\ q.custom = p.custom
               /\ q.kept # p.kept => q.kept = p.custom /\ q.custom # Nobody /\ q.who = q.custom
BY DEF Sample, SampleKept, Fine, WholeIn, Pis

LEMMA RestStage ==
    ASSUME NEW p, Fine(p), NEW phase, NEW o \in Observation, NEW looked
    PROVE  LET q == Rest(p, phase, o, looked)
           IN  /\ Fine(q) /\ q.mode = p.mode /\ q.custom = p.custom
               /\ p.mode = "idle" => q.aim = Nobody
               /\ q.kept # p.kept => q.kept = p.custom /\ q.custom # Nobody /\ q.who = q.custom
<1> DEFINE r == Rematch(p, phase, o)
           phase1 == IF r = p THEN phase ELSE "TRACKING"
           v == Identify(r, phase1, o, looked)
           phase2 == IF v.track = r.track THEN phase1 ELSE v.track.phase
           s == Sample(v, phase2, o)
<1>1. Fine(r) /\ Keeps(p, r) /\ r.custom = p.custom
    BY RematchStage
<1>2. Fine(v) /\ Keeps(r, v) /\ v.custom = r.custom
    BY <1>1, IdentifyStage
<1>3. /\ Fine(s) /\ s.mode = v.mode /\ s.custom = v.custom
      /\ s.kept # v.kept => s.kept = v.custom /\ s.custom # Nobody /\ s.who = s.custom
    BY <1>2, SampleStage
<1>4. Rest(p, phase, o, looked) = [s EXCEPT !.aim = Aim(s, phase2)]
    BY DEF Rest
<1>5. Aim(s, phase2) \in Subjects /\ (s.mode = "idle" => Aim(s, phase2) = Nobody)
    BY <1>3 DEF Aim, Fine, Pis, Subjects
<1>6. /\ s.mode = p.mode /\ s.custom = p.custom
      /\ s.kept # p.kept => s.kept = p.custom /\ s.custom # Nobody /\ s.who = s.custom
    BY <1>1, <1>2, <1>3 DEF Keeps
<1> HIDE DEF s, phase2
<1> QED  BY <1>3, <1>4, <1>5, <1>6 DEF Fine, WholeIn, Pis, Keeps

-----------------------------------------------------------------------------
(* What the properties remember. *)

LEMMA ChosenTyped ==
    ASSUME NEW h \in Hists, NEW p \in Pis, NEW o \in Observation, NEW taken \in BOOLEAN
    PROVE  ChosenAt(h, p, o, taken) \in Hists /\ ChosenAt(h, p, o, taken).halted = h.halted
<1> DEFINE c == IF taken THEN p.pending ELSE Nobody
           b == h.stopped /\ ~taken
           h1 == IF p.pending = Nobody \/ ~HasRoom(p) THEN h
                 ELSE [h EXCEPT !.chosen = c, !.learnt = taken, !.wrong = 0, !.stopped = b]
           pick == StartTeaching(p, taken).pick
<1>1. c \in Subjects
    BY DEF Pis, Subjects, Subject
<1>2. b \in BOOLEAN
    BY Zenon
<1>3. h1 \in Hists /\ h1.halted = h.halted
    <2> HIDE DEF b, c
    <2> QED  BY <1>1, <1>2, ConstantsTyped DEF Hists
<1>4. CASE o.fresh /\ pick \in o.shown
    <2>1. ChosenAt(h, p, o, taken) = [h1 EXCEPT !.chosen = pick, !.learnt = o.sees, !.wrong = 0,
                                                !.stopped = FALSE]
        BY <1>4 DEF ChosenAt
    <2>2. pick \in Subjects /\ o.sees \in BOOLEAN
        BY <1>4, ObservationIs DEF Subjects, Subject
    <2> HIDE DEF pick, h1
    <2> QED  BY <1>3, <2>1, <2>2, ConstantsTyped DEF Hists
<1>5. CASE ~(o.fresh /\ pick \in o.shown)
    <2>1. ChosenAt(h, p, o, taken) = h1
        BY <1>5 DEF ChosenAt
    <2> QED  BY <1>3, <2>1
<1> QED  BY <1>4, <1>5

LEMMA JudgedTyped ==
    ASSUME NEW h \in Hists, NEW p, NEW o, NEW looked
    PROVE  Judged(h, p, o, looked) \in Hists /\ Judged(h, p, o, looked).halted = h.halted
<1> DEFINE w == IF p.track.phase # "TRACKING" \/ p.who = h.chosen THEN 0
                ELSE IF o.sees /\ looked /\ h.wrong < DropFrames THEN h.wrong + 1 ELSE h.wrong
<1>1. h.wrong \in 0 .. DropFrames
    BY DEF Hists
<1>2. w \in 0 .. DropFrames
    BY <1>1, ConstantsTyped
<1>3. Judged(h, p, o, looked) = [h EXCEPT !.wrong = w]
    BY DEF Judged
<1> HIDE DEF w
<1> QED  BY <1>2, <1>3 DEF Hists

-----------------------------------------------------------------------------
(* Every step. *)

TInv == TypeOK /\ Fine(pi) /\ HaltedIsIdle

\* It is enough that a step leads to a state that is fine.
LEMMA ByFine ==
    ASSUME Fine(pi'), frame' \in Frames, hist' \in Hists, HaltedIsIdle'
    PROVE  TInv'
BY Typed DEF Fine, TInv

LEMMA FrameStep ==
    ASSUME TInv, NEW o \in Observation, NEW taken \in BOOLEAN, BeginFrame(o, taken)
    PROVE  TInv'
<1> DEFINE p == [pi EXCEPT !.track = Passing(@, o.later), !.aim = Nobody, !.kept = Nobody]
           s == StartTeaching(p, taken)
           q == Select(s, o)
           t == TrackDetected(q, o)
           r == Rest(t, t.track.phase, o, o.fresh)
           h == ChosenAt(hist, p, o, taken)
<1>1. Fine(pi) /\ frame \in Frames /\ hist \in Hists /\ HaltedIsIdle
    BY Typed DEF TInv
<1>2. Passing(pi.track, o.later) \in Track /\ (Passing(pi.track, o.later).locked <=> pi.track.locked)
    BY <1>1, TrackTypes, ObservationIs DEF Fine, Pis
<1>3. Fine(p) /\ p.mode = pi.mode /\ p.aim = Nobody
    BY <1>1, <1>2 DEF Fine, WholeIn, Pis, Subjects
<1>4. Fine(s) /\ s.mode = pi.mode /\ s.aim = Nobody
    <2> HIDE DEF p
    <2> QED  BY <1>3, TeachStage
<1>5. Fine(q) /\ q.mode = pi.mode /\ q.aim = Nobody
    <2> HIDE DEF s
    <2> QED  BY <1>4, SelectStage DEF Keeps
<1>6. h \in Hists /\ h.halted = hist.halted
    <2> HIDE DEF p
    <2> QED  BY <1>1, <1>3, ChosenTyped DEF Fine
<1>7. CASE q.custom # Nobody
    <2>1. pi' = q /\ hist' = h /\ frame' = [frame EXCEPT !.at = "begun"]
        BY <1>7 DEF BeginFrame
    <2>2. frame' \in Frames
        BY <1>1, <2>1 DEF Frames
    <2>3. HaltedIsIdle'
        BY <1>1, <1>5, <1>6, <2>1 DEF HaltedIsIdle
    <2> QED  BY <1>5, <1>6, <2>1, <2>2, <2>3, ByFine
<1>8. CASE q.custom = Nobody
    <2>1. pi' = r /\ hist' = Judged(h, r, o, o.fresh) /\ frame' = frame
        BY <1>8 DEF BeginFrame
    <2>2. Fine(t) /\ t.mode = pi.mode
        <3> HIDE DEF q
        <3> QED  BY <1>5, <1>8, DetectedStage DEF Keeps
    <2>3. Fine(r) /\ r.mode = pi.mode /\ (pi.mode = "idle" => r.aim = Nobody)
        <3> HIDE DEF t
        <3> QED  BY <2>2, RestStage
    <2>4. hist' \in Hists /\ hist'.halted = hist.halted
        <3> HIDE DEF h, r
        <3> QED  BY <1>6, <2>1, JudgedTyped
    <2>5. HaltedIsIdle'
        BY <1>1, <2>1, <2>3, <2>4 DEF HaltedIsIdle
    <2> HIDE DEF r
    <2> QED  BY <1>1, <2>1, <2>3, <2>4, <2>5, ByFine
<1> QED  BY <1>7, <1>8

LEMMA ResumeStep ==
    ASSUME TInv, NEW o \in Observation, ResumeFrame(o)
    PROVE  TInv'
<1>1. Fine(pi) /\ frame \in Frames /\ hist \in Hists /\ HaltedIsIdle
    BY Typed DEF TInv
<1>2. frame' \in Frames
    BY DEF ResumeFrame, AtLoop, Frames, Subjects
<1>3. CASE UNCHANGED <<pi, hist>>
    BY <1>1, <1>2, <1>3, ByFine DEF HaltedIsIdle
<1>4. CASE ~UNCHANGED <<pi, hist>>
    <2> DEFINE p == IF frame.phase = "TARGET_LOST" THEN TeachingEnded(pi) ELSE pi
               r == Rest(p, frame.phase, o, TRUE)
    <2>1. pi' = r /\ hist' = Judged(hist, r, o, TRUE)
        BY <1>4 DEF ResumeFrame
    <2>2. Fine(p) /\ p.mode = pi.mode
        BY <1>1, EndedStage DEF Keeps
    <2>3. Fine(r) /\ r.mode = pi.mode /\ (pi.mode = "idle" => r.aim = Nobody)
        <3>1. \A looked :
                  LET q == Rest(p, frame.phase, o, looked)
                  IN  Fine(q) /\ q.mode = p.mode /\ (p.mode = "idle" => q.aim = Nobody)
            <4> HIDE DEF p
            <4> QED  BY <2>2, RestStage
        <3> HIDE DEF p
        <3> QED  BY <2>2, <3>1, Zenon
    <2>4. hist' \in Hists /\ hist'.halted = hist.halted
        <3> HIDE DEF r
        <3> QED  BY <1>1, <2>1, JudgedTyped
    <2>5. HaltedIsIdle'
        BY <1>1, <2>1, <2>3, <2>4 DEF HaltedIsIdle
    <2> HIDE DEF r
    <2> QED  BY <1>2, <2>1, <2>3, <2>4, <2>5, ByFine
<1> QED  BY <1>3, <1>4

\* What the worker does, by its names; it may reach the track and the target.
WorkerWaits == WorkerMisses \/ WorkerTimes \/ WorkerAnswers

WorkerWrites == WorkerHoldsState \/ WorkerLosesTarget \/ WorkerDatesTheLoss

LEMMA WorkerIs ==
    ASSUME Worker
    PROVE  /\ \/ WorkerEnters \/ WorkerLooks \/ WorkerHoldsTarget \/ WorkerWaits
              \/ WorkerWrites \/ WorkerGivesUp
           /\ hist' = hist
BY DEF Worker, WorkerWaits, WorkerWrites, WorkerEnters, WorkerLooks, WorkerHoldsTarget,
    WorkerHoldsState, WorkerMisses, WorkerLosesTarget, WorkerDatesTheLoss, WorkerTimes,
    WorkerGivesUp, WorkerAnswers

\* A step that writes nothing of the program.
LEMMA WaitsIs ==
    ASSUME Fine(pi), frame \in Frames, WorkerWaits
    PROVE  /\ pi' = pi /\ frame' \in Frames
           /\ frame'.at \in {"losing", "timing", "expiring", "done", "back"} \/ frame' = AtLoop
           /\ frame'.at = "back" => frame'.phase = pi.track.phase
<1>0. pi.track.phase \in {"IDLE", "TRACKING", "REACQUIRE", "TARGET_LOST"}
    BY DEF Fine, Pis, Track
<1>1. AtLoop \in Frames /\ AtLoop.at = "loop"
    BY DEF AtLoop, Frames, Subjects
<1>2. CASE WorkerMisses
    <2>1. PICK a \in {"losing", "timing", "done"} : frame' = [frame EXCEPT !.at = a]
        BY <1>2 DEF WorkerMisses
    <2> QED  BY <1>2, <2>1 DEF WorkerMisses, Frames
<1>3. CASE WorkerTimes
    <2>1. CASE frame' = AtLoop
        BY <1>1, <1>3, <2>1 DEF WorkerTimes
    <2>2. CASE frame' # AtLoop
        <3>1. PICK a \in {"expiring", "done"} : frame' = [frame EXCEPT !.at = a]
            BY <1>3, <2>2 DEF WorkerTimes
        <3> QED  BY <1>3, <3>1 DEF WorkerTimes, Frames
    <2> QED  BY <2>1, <2>2
<1>4. CASE WorkerAnswers
    BY <1>0, <1>4 DEF WorkerAnswers, Frames
<1> QED  BY <1>2, <1>3, <1>4 DEF WorkerWaits

\* A step that writes the state of the track, or the time of its loss.
LEMMA WritesIs ==
    ASSUME Fine(pi), frame \in Frames, WorkerWrites
    PROVE  /\ frame' \in Frames /\ frame'.at \in {"done", "lost"}
           /\ \E t \in Track : pi' = [pi EXCEPT !.track = t] /\ t.locked = pi.track.locked
<1>0. pi.track \in Track /\ pi.track.unseen \in 0 .. ReacquireAfter
    BY DEF Fine, Pis, Track
<1> DEFINE held == [pi.track EXCEPT !.phase = "TRACKING", !.lost = 0]
           losing == [pi.track EXCEPT !.phase = "REACQUIRE"]
           dated == [pi.track EXCEPT !.lost = pi.track.unseen]
<1>1. /\ held \in Track /\ held.locked = pi.track.locked
      /\ losing \in Track /\ losing.locked = pi.track.locked
      /\ dated \in Track /\ dated.locked = pi.track.locked
    BY <1>0, ConstantsTyped DEF Track
<1>2. CASE WorkerHoldsState
    <2>1. pi' = [pi EXCEPT !.track = held]
        BY <1>2 DEF WorkerHoldsState, Fine, Pis
    <2>2. frame' \in Frames /\ frame'.at = "done"
        BY <1>2 DEF WorkerHoldsState, Frames
    <2> HIDE DEF held
    <2> QED  BY <1>1, <2>1, <2>2
<1>3. CASE WorkerLosesTarget
    <2>1. pi' = [pi EXCEPT !.track = losing]
        BY <1>3 DEF WorkerLosesTarget, Fine, Pis
    <2>2. frame' \in Frames /\ frame'.at = "lost"
        BY <1>3 DEF WorkerLosesTarget, Frames
    <2> HIDE DEF losing
    <2> QED  BY <1>1, <2>1, <2>2
<1>4. CASE WorkerDatesTheLoss
    <2>1. pi' = [pi EXCEPT !.track = dated]
        BY <1>4 DEF WorkerDatesTheLoss, Fine, Pis
    <2>2. frame' \in Frames /\ frame'.at = "done"
        BY <1>4 DEF WorkerDatesTheLoss, Frames
    <2> HIDE DEF dated
    <2> QED  BY <1>1, <2>1, <2>2
<1> QED  BY <1>2, <1>3, <1>4 DEF WorkerWrites

\* A step that gives the target up.
LEMMA GivesUpIs ==
    ASSUME Fine(pi), frame \in Frames, WorkerGivesUp
    PROVE  /\ frame' \in Frames /\ frame'.at = "done"
           /\ \E t \in Track : /\ pi' = [pi EXCEPT !.track = t, !.who = Nobody]
                              /\ t.locked = pi.track.locked
<1> DEFINE gone == [pi.track EXCEPT !.phase = "TARGET_LOST", !.unseen = 0, !.lost = 0]
<1>1. gone \in Track /\ gone.locked = pi.track.locked
    BY ConstantsTyped DEF Fine, Pis, Track
<1>2. pi' = [pi EXCEPT !.track = gone, !.who = Nobody]
    BY DEF WorkerGivesUp, Fine, Pis
<1>3. frame' \in Frames /\ frame'.at = "done"
    BY DEF WorkerGivesUp, Frames
<1> HIDE DEF gone
<1> QED  BY <1>1, <1>2, <1>3

LEMMA WorkerStep ==
    ASSUME TInv, Worker
    PROVE  TInv'
<1>1. Fine(pi) /\ frame \in Frames /\ hist \in Hists /\ HaltedIsIdle /\ hist' = hist
    BY Typed, WorkerIs DEF TInv
<1>2. pi.track \in Track
    BY <1>1 DEF Fine, Pis
<1>3. CASE WorkerEnters
    <2>1. frame' \in Frames
        BY <1>1, <1>3 DEF WorkerEnters, Frames
    <2> QED  BY <1>1, <1>3, <2>1, ByFine DEF WorkerEnters, HaltedIsIdle
<1>4. CASE WorkerLooks
    <2>1. {pi.custom} \cup Detected \subseteq Subjects
        BY <1>1 DEF Fine, Pis, Subjects, Subject
    <2>2. frame' \in Frames
        <3>1. CASE \E s \in {pi.custom} \cup Detected :
                      frame' = [frame EXCEPT !.at = "matched", !.who = s]
            <4>1. PICK s \in Subjects : frame' = [frame EXCEPT !.at = "matched", !.who = s]
                BY <2>1, <3>1
            <4> QED  BY <1>1, <4>1 DEF Frames
        <3>2. CASE frame' = [frame EXCEPT !.at = "missed"]
            BY <1>1, <3>2 DEF Frames
        <3>3. CASE frame' = AtLoop
            BY <3>3 DEF AtLoop, Frames, Subjects
        <3> QED  BY <1>4, <3>1, <3>2, <3>3 DEF WorkerLooks
    <2> QED  BY <1>1, <1>4, <2>2, ByFine DEF WorkerLooks, HaltedIsIdle
<1>5. CASE WorkerHoldsTarget
    <2>1. frame' \in Frames /\ frame.who \in Subjects
        BY <1>1, <1>5 DEF WorkerHoldsTarget, Frames
    <2>2. pi' = [pi EXCEPT !.who = frame.who, !.track = [pi.track EXCEPT !.unseen = 0]]
        BY <1>1, <1>5 DEF WorkerHoldsTarget, Fine, Pis
    <2>3. /\ [pi.track EXCEPT !.unseen = 0] \in Track
          /\ [pi.track EXCEPT !.unseen = 0].locked = pi.track.locked
        BY <1>2, ConstantsTyped DEF Track
    <2>4. Fine(pi') /\ Keeps(pi, pi')
        BY <1>1, <2>1, <2>2, <2>3 DEF Fine, WholeIn, Pis, Keeps
    <2> QED  BY <1>1, <2>1, <2>4, ByFine DEF HaltedIsIdle, Keeps
<1>6. CASE WorkerWaits
    <2>1. pi' = pi /\ frame' \in Frames
        BY <1>1, <1>6, WaitsIs
    <2> QED  BY <1>1, <2>1, ByFine DEF HaltedIsIdle
<1>7. CASE WorkerWrites
    <2>1. frame' \in Frames
        BY <1>1, <1>7, WritesIs
    <2>2. PICK t \in Track : pi' = [pi EXCEPT !.track = t] /\ t.locked = pi.track.locked
        BY <1>1, <1>7, WritesIs
    <2>3. Fine(pi') /\ Keeps(pi, pi')
        BY <1>1, <2>2 DEF Fine, WholeIn, Pis, Keeps
    <2> QED  BY <1>1, <2>1, <2>3, ByFine DEF HaltedIsIdle, Keeps
<1>8. CASE WorkerGivesUp
    <2>1. frame' \in Frames
        BY <1>1, <1>8, GivesUpIs
    <2>2. PICK t \in Track : /\ pi' = [pi EXCEPT !.track = t, !.who = Nobody]
                             /\ t.locked = pi.track.locked
        BY <1>1, <1>8, GivesUpIs
    <2>3. Fine(pi') /\ Keeps(pi, pi')
        BY <1>1, <2>2 DEF Fine, WholeIn, Pis, Keeps, Subjects
    <2> QED  BY <1>1, <2>1, <2>3, ByFine DEF HaltedIsIdle, Keeps
<1> QED  BY <1>3, <1>4, <1>5, <1>6, <1>7, <1>8, WorkerIs

LEMMA AbortStep ==
    ASSUME TInv, Abort
    PROVE  TInv'
<1> DEFINE p == [pi EXCEPT !.aim = Nobody, !.kept = Nobody]
           s == Stopped(p)
           e == TeachingEnded(s)
<1>1. Fine(pi) /\ frame \in Frames /\ hist \in Hists
    BY Typed DEF TInv
<1>2. Fine(p) /\ p.aim = Nobody
    BY <1>1 DEF Fine, WholeIn, Pis, Subjects
<1>3. Fine(s) /\ s.aim = Nobody
    <2> HIDE DEF p
    <2> QED  BY <1>2, StoppedStage DEF Keeps
<1>4. Fine(e) /\ e.aim = Nobody /\ e.custom = Nobody
    <2> HIDE DEF s
    <2> QED  BY <1>3, EndedStage DEF Keeps
<1>5. pi' = [[e EXCEPT !.pending = Nobody, !.pick = Nobody, !.look = Nobody, !.mismatch = 0,
                       !.dropped = FALSE] EXCEPT !.mode = "idle"]
    BY DEF Abort, Forgotten, TargetForgotten
<1>6. Fine(pi') /\ pi'.aim = Nobody /\ pi'.mode = "idle"
    <2> HIDE DEF e
    <2> QED  BY <1>4, <1>5, ConstantsTyped DEF Fine, WholeIn, Pis, Subjects
<1>7. hist' \in Hists /\ frame' \in Frames
    BY <1>1, ConstantsTyped DEF Abort, Hists, Subjects
<1> QED  BY <1>6, <1>7, ByFine DEF HaltedIsIdle

LEMMA CommandStep ==
    ASSUME TInv,
           \/ \E s \in Detected : SelectTarget(s)
           \/ \E n \in Taught : TeachObject(n)
           \/ \E m \in {"idle", "follow"} : ModeCommand(m)
    PROVE  TInv'
<1>1. Fine(pi) /\ frame \in Frames /\ hist \in Hists /\ HaltedIsIdle
    BY Typed DEF TInv
<1>2. ASSUME NEW s \in Detected, SelectTarget(s) PROVE TInv'
    <2>1. Fine(pi') /\ Keeps(pi, pi')
        BY <1>1, <1>2 DEF SelectTarget, Fine, WholeIn, Pis, Keeps
    <2> QED  BY <1>1, <1>2, <2>1, ByFine DEF SelectTarget, HaltedIsIdle, Keeps
<1>3. ASSUME NEW n \in Taught, TeachObject(n) PROVE TInv'
    <2>1. Fine(pi') /\ Keeps(pi, pi')
        BY <1>1, <1>3 DEF TeachObject, Fine, WholeIn, Pis, Keeps
    <2> QED  BY <1>1, <1>3, <2>1, ByFine DEF TeachObject, HaltedIsIdle, Keeps
<1>4. ASSUME NEW m \in {"idle", "follow"}, ModeCommand(m) PROVE TInv'
    <2>1. Fine(pi')
        BY <1>1, <1>4 DEF ModeCommand, Fine, WholeIn, Pis
    <2>2. hist' \in Hists /\ ~hist'.halted
        BY <1>1, <1>4 DEF ModeCommand, Hists
    <2> QED  BY <1>1, <1>4, <2>1, <2>2, ByFine DEF ModeCommand, HaltedIsIdle
<1> QED  BY <1>2, <1>3, <1>4

\* The inductive invariant: what the theorems below are read off from.
THEOREM Invariant == Spec => []TInv
<1>1. Init => TInv
    <2> SUFFICES ASSUME Init PROVE TInv
        OBVIOUS
    <2>1. NoTrack \in Track /\ NoTrack.locked = FALSE
        BY ConstantsTyped DEF NoTrack, Track
    <2>2. pi \in Pis /\ WholeIn(pi)
        BY <2>1, ConstantsTyped DEF Init, Pis, Subjects, WholeIn
    <2>3. IsFiniteSet(pi.objects) /\ Cardinality(pi.objects) <= MaxObjects
        BY FS_EmptySet, ConstantsTyped DEF Init
    <2>4. frame \in Frames /\ hist \in Hists /\ HaltedIsIdle
        BY ConstantsTyped DEF Init, AtLoop, Frames, Hists, Subjects, HaltedIsIdle
    <2> QED  BY <2>2, <2>3, <2>4, Typed DEF TInv, Fine
<1>2. TInv /\ [Next]_vars => TInv'
    <2> SUFFICES ASSUME TInv, [Next]_vars PROVE TInv'
        OBVIOUS
    <2>1. ASSUME NEW o \in Observation, NEW taken \in Takes, BeginFrame(o, taken) PROVE TInv'
        <3>1. taken \in BOOLEAN
            BY DEF Takes
        <3> QED  BY <2>1, <3>1, FrameStep
    <2>2. CASE UNCHANGED vars
        BY <2>2, Typed DEF vars, TInv, Fine, HaltedIsIdle
    <2> QED
        BY <2>1, <2>2, ResumeStep, WorkerStep, AbortStep, CommandStep DEF Next
<1> QED  BY <1>1, <1>2, PTL DEF Spec

\* The program's state, the frame and its phases are of their types, whatever
\* overtakes the worker thread.
THEOREM TypeCorrect == Spec => []TypeOK
<1>1. TInv => TypeOK
    BY DEF TInv
<1> QED  BY <1>1, Invariant, PTL

\* Teaching is whole or not at all, with any subjects and names, whatever commands
\* come while the worker looks.
THEOREM WholeHolds == Spec => []TeachingIsWhole
<1>1. TInv => TeachingIsWhole
    BY DEF TInv, Fine, WholeIn, Pis, TeachingIsWhole
<1> QED  BY <1>1, Invariant, PTL

\* After STOP nothing is steered on until a mode is commanded.
THEOREM StopHolds == Spec => []StopHaltsTheFrame
<1>1. TInv => StopHaltsTheFrame
    BY DEF TInv, HaltedIsIdle, StopHaltsTheFrame
<1> QED  BY <1>1, Invariant, PTL

\* The registry never holds more than its limit, also when a box is refused after
\* its name was registered.
THEOREM RegistryHolds == Spec => []RegistryIsBounded
<1>1. TInv => RegistryIsBounded
    BY DEF TInv, Fine, RegistryIsBounded
<1> QED  BY <1>1, Invariant, PTL

-----------------------------------------------------------------------------
(* Samples. *)

\* What a step keeps as a sample: of nothing, or of the object that is taught, which
\* the step leaves taught and in the box.
SampledRight ==
    pi'.kept \notin {Nobody, pi.kept} =>
        pi'.kept = pi.custom /\ pi'.custom = pi.custom /\ pi'.who = pi.custom

\* A frame begins without a sample; one that goes on to its end in one go has no
\* object taught to keep one of.
LEMMA BeginSamples ==
    ASSUME TInv, NEW o \in Observation, NEW taken \in BOOLEAN, BeginFrame(o, taken)
    PROVE  pi'.kept = Nobody
<1> DEFINE p == [pi EXCEPT !.track = Passing(@, o.later), !.aim = Nobody, !.kept = Nobody]
           s == StartTeaching(p, taken)
           q == Select(s, o)
           t == TrackDetected(q, o)
           r == Rest(t, t.track.phase, o, o.fresh)
<1>1. Fine(pi)
    BY DEF TInv
<1>2. Passing(pi.track, o.later) \in Track /\ (Passing(pi.track, o.later).locked <=> pi.track.locked)
    BY <1>1, TrackTypes, ObservationIs DEF Fine, Pis
<1>3. Fine(p) /\ p.kept = Nobody
    BY <1>1, <1>2 DEF Fine, WholeIn, Pis, Subjects
<1>4. Fine(s) /\ s.kept = Nobody
    <2> HIDE DEF p
    <2> QED  BY <1>3, TeachStage
<1>5. Fine(q) /\ q.kept = Nobody
    <2> HIDE DEF s
    <2> QED  BY <1>4, SelectStage DEF Keeps
<1>6. CASE q.custom # Nobody
    BY <1>5, <1>6 DEF BeginFrame
<1>7. CASE q.custom = Nobody
    <2>1. pi' = r
        BY <1>7 DEF BeginFrame
    <2>2. Fine(t) /\ t.custom = Nobody /\ t.kept = Nobody
        <3> HIDE DEF q
        <3> QED  BY <1>5, <1>7, DetectedStage DEF Keeps
    <2>3. r.kept = Nobody
        <3> HIDE DEF t
        <3> QED  BY <2>2, RestStage
    <2> QED  BY <2>1, <2>3
<1> QED  BY <1>6, <1>7

\* A frame that comes back from the worker keeps what is in the box, if that is the
\* object taught.
LEMMA ResumeSamples ==
    ASSUME TInv, NEW o \in Observation, ResumeFrame(o)
    PROVE  SampledRight
<1> DEFINE p == IF frame.phase = "TARGET_LOST" THEN TeachingEnded(pi) ELSE pi
           r == Rest(p, frame.phase, o, TRUE)
<1>1. CASE UNCHANGED <<pi, hist>>
    BY <1>1 DEF SampledRight
<1>2. CASE pi' = r
    <2>1. Fine(p) /\ p.kept = pi.kept /\ p.custom \in {pi.custom, Nobody}
        BY EndedStage DEF TInv, Keeps
    <2>2. /\ r.custom = p.custom
          /\ r.kept # p.kept => r.kept = p.custom /\ r.custom # Nobody /\ r.who = r.custom
        <3>1. \A looked :
                  LET q == Rest(p, frame.phase, o, looked)
                  IN  /\ q.custom = p.custom
                      /\ q.kept # p.kept =>
                             q.kept = p.custom /\ q.custom # Nobody /\ q.who = q.custom
            <4> HIDE DEF p
            <4> QED  BY <2>1, RestStage
        <3> HIDE DEF p
        <3> QED  BY <3>1, Zenon
    <2> HIDE DEF p, r
    <2> QED  BY <1>2, <2>1, <2>2 DEF SampledRight
<1> QED  BY <1>1, <1>2 DEF ResumeFrame

\* Nothing else keeps a sample.
LEMMA OtherSamples ==
    ASSUME TInv, Worker \/ (\E s \in Detected : SelectTarget(s))
                        \/ (\E n \in Taught : TeachObject(n))
                        \/ (\E m \in {"idle", "follow"} : ModeCommand(m))
    PROVE  pi'.kept = pi.kept
BY DEF TInv, Fine, Pis, Worker, WorkerEnters, WorkerLooks, WorkerHoldsTarget, WorkerHoldsState,
       WorkerMisses, WorkerLosesTarget, WorkerDatesTheLoss, WorkerTimes, WorkerGivesUp,
       WorkerAnswers, SelectTarget, TeachObject, ModeCommand

LEMMA AbortSamples ==
    ASSUME TInv, Abort
    PROVE  pi'.kept = Nobody
<1> DEFINE p == [pi EXCEPT !.aim = Nobody, !.kept = Nobody]
           s == Stopped(p)
           e == TeachingEnded(s)
<1>1. Fine(p) /\ p.kept = Nobody
    BY DEF TInv, Fine, WholeIn, Pis, Subjects
<1>2. Fine(s) /\ s.kept = Nobody
    <2> HIDE DEF p
    <2> QED  BY <1>1, StoppedStage DEF Keeps
<1>3. Fine(e) /\ e.kept = Nobody
    <2> HIDE DEF s
    <2> QED  BY <1>2, EndedStage DEF Keeps
<1>4. pi' = [[e EXCEPT !.pending = Nobody, !.pick = Nobody, !.look = Nobody, !.mismatch = 0,
                       !.dropped = FALSE] EXCEPT !.mode = "idle"]
    BY DEF Abort, Forgotten, TargetForgotten
<1> HIDE DEF e
<1> QED  BY <1>3, <1>4 DEF Fine, Pis

\* A sample is kept only of the object being taught, and only while it is the one in
\* the box, whatever comes while the worker looks.
THEOREM SamplesHold == Spec => SamplesAreTheObject
<1>1. TInv /\ [Next]_vars => [SampledRight]_vars
    <2> SUFFICES ASSUME TInv, Next PROVE SampledRight
        OBVIOUS
    <2>1. ASSUME NEW o \in Observation, NEW taken \in Takes, BeginFrame(o, taken)
          PROVE  SampledRight
        <3>1. taken \in BOOLEAN
            BY DEF Takes
        <3> QED  BY <2>1, <3>1, BeginSamples DEF SampledRight
    <2>2. ASSUME pi'.kept \in {Nobody, pi.kept}
          PROVE  SampledRight
        BY <2>2 DEF SampledRight
    <2> QED  BY <2>1, <2>2, ResumeSamples, OtherSamples, AbortSamples DEF Next
<1> QED  BY <1>1, Invariant, PTL DEF Spec, SamplesAreTheObject, SampledRight

-----------------------------------------------------------------------------
(* Strangers.  The program does not know whom the operator chose; it knows a   *)
(* look, and a count of frames in which the box did not have it.               *)

\* What the program's state p knows of the target of history h: if its look was
\* learnt, it is the look remembered, and every frame that could have shown a
\* stranger in the box has been counted.
Hunted(h, p) ==
    h.learnt => h.chosen # Nobody /\ p.look = h.chosen /\ h.wrong <= p.mismatch

\* A frame that waits for the worker goes on with the phase the worker left, unless
\* STOP has made that phase stale, and then nobody is hunted.
Pursuit ==
    /\ Hunted(hist, pi)
    /\ frame.at \in {"loop", "begun"} => frame.phase = "IDLE"
    /\ hist.learnt /\ frame.at = "back" => frame.phase = pi.track.phase

\* Whatever the operator chooses at the beginning of a frame, its look is the one
\* remembered from then on, or it is not learnt at all.
LEMMA ChosenHunt ==
    ASSUME NEW h \in Hists, NEW p, Fine(p), Hunted(h, p),
           NEW o \in Observation, NEW taken \in BOOLEAN
    PROVE  Hunted(ChosenAt(h, p, o, taken), Select(StartTeaching(p, taken), o))
<1> DEFINE s == StartTeaching(p, taken)
           c == IF taken THEN p.pending ELSE Nobody
           b == h.stopped /\ ~taken
           h1 == IF p.pending = Nobody \/ ~HasRoom(p) THEN h
                 ELSE [h EXCEPT !.chosen = c, !.learnt = taken, !.wrong = 0, !.stopped = b]
           k == Select(s, o)
           g == ChosenAt(h, p, o, taken)
<1>1. Fine(s)
    BY TeachStage
<1>2. Hunted(h1, s)
    <2>1. CASE p.pending = Nobody
        BY <2>1 DEF StartTeaching
    <2>2. CASE p.pending # Nobody /\ ~HasRoom(p)
        <3>1. s = [p EXCEPT !.pending = Nobody] /\ h1 = h
            BY <2>2 DEF StartTeaching
        <3> HIDE DEF s, h1
        <3> QED  BY <3>1 DEF Hunted, Fine, Pis
    <2>3. CASE p.pending # Nobody /\ HasRoom(p)
        <3>1. h1 = [h EXCEPT !.chosen = c, !.learnt = taken, !.wrong = 0, !.stopped = b]
            BY <2>3
        <3>2. h1.learnt = taken /\ h1.chosen = c /\ h1.wrong = 0
            <4> HIDE DEF c, b, h1
            <4> QED  BY <3>1 DEF Hists
        <3>3. taken => s.look = p.pending /\ s.mismatch = 0
            <4>1. ASSUME taken PROVE s = TeachingStarted(p)
                BY <2>3, <4>1 DEF StartTeaching
            <4> DEFINE q == Stopped(TeachingEnded([p EXCEPT !.pick = Nobody]))
            <4>2. Fine([p EXCEPT !.pick = Nobody])
                BY DEF Fine, WholeIn, Pis
            <4>3. Fine(q)
                BY <4>2, EndedStage, StoppedStage
            <4>4. TeachingStarted(p) =
                     [q EXCEPT !.track = [Started EXCEPT !.locked = q.track.locked],
                               !.who = p.pending, !.tracker = "visual", !.visual = TRUE,
                               !.look = p.pending, !.custom = p.pending,
                               !.mismatch = 0, !.dropped = FALSE, !.pending = Nobody,
                               !.objects = q.objects \cup {p.pending}]
                BY <4>3 DEF TeachingStarted, Fine, Pis
            <4> HIDE DEF q
            <4>5. TeachingStarted(p).look = p.pending /\ TeachingStarted(p).mismatch = 0
                BY <4>3, <4>4 DEF Fine, Pis
            <4> QED  BY <4>1, <4>5
        <3> HIDE DEF s, h1
        <3> QED  BY <2>3, <3>2, <3>3 DEF Hunted
    <2> QED  BY <2>1, <2>2, <2>3
<1>3. Nobody \notin o.shown /\ o.sees \in BOOLEAN
    BY ObservationIs, TeachAssumption
<1>4. ASSUME o.fresh /\ s.pick \in o.shown PROVE Hunted(g, k)
    <2>1. g = [h1 EXCEPT !.chosen = s.pick, !.learnt = o.sees, !.wrong = 0, !.stopped = FALSE]
        BY <1>4 DEF ChosenAt
    <2>2. h1 \in Hists
        <3>1. c \in Subjects
            BY DEF Fine, Pis, Subjects, Subject
        <3>2. b \in BOOLEAN
            BY Zenon
        <3> HIDE DEF c, b
        <3> QED  BY <3>1, <3>2, ConstantsTyped DEF Hists
    <2>3. g.chosen = s.pick /\ g.learnt = o.sees /\ g.wrong = 0
        <3> HIDE DEF g, h1
        <3> QED  BY <2>1, <2>2 DEF Hists
    <2>4. o.sees => k.look = s.pick /\ k.mismatch = 0
        <3> DEFINE e == TeachingEnded(s)
                   t == StartedOn(e, s.pick)
                   l == Learnt(t, o.sees)
        <3>1. k = [l EXCEPT !.mismatch = 0, !.pick = Nobody]
            BY <1>3, <1>4 DEF Select
        <3>2. Fine(e) /\ e.custom = Nobody
            BY <1>1, EndedStage
        <3>3. Fine(t) /\ t.custom = Nobody /\ t.who = s.pick
            <4>1. s.pick \in Subject
                BY <1>4, ObservationIs DEF Subject
            <4> HIDE DEF s, e
            <4> QED  BY <3>2, <4>1, StartedOnStage
        <3>4. Fine(l) /\ (o.sees => l.look = s.pick)
            <4>1. Fine(l)
                <5> HIDE DEF t
                <5> QED  BY <1>3, <3>3, LearntStage
            <4>2. o.sees => l.look = t.who
                <5> HIDE DEF t
                <5> QED  BY <3>3 DEF Learnt, Fine, Pis
            <4> QED  BY <3>3, <4>1, <4>2
        <3> HIDE DEF l, k, s
        <3> QED  BY <3>1, <3>4 DEF Fine, Pis
    <2> HIDE DEF g, k, s
    <2> QED  BY <1>3, <1>4, <2>3, <2>4 DEF Hunted
<1>5. ASSUME ~(o.fresh /\ s.pick \in o.shown) PROVE Hunted(g, k)
    <2>1. g = h1
        BY <1>5 DEF ChosenAt
    <2>2. k = s \/ k = [s EXCEPT !.pick = Nobody]
        BY <1>5 DEF Select
    <2> HIDE DEF g, k, s, h1
    <2> QED  BY <1>1, <1>2, <2>1, <2>2 DEF Hunted, Fine, Pis
<1> QED  BY <1>4, <1>5

\* The detector's tracker changes neither look nor count.
LEMMA DetectedHunt ==
    ASSUME NEW h, NEW p, Fine(p), Hunted(h, p), NEW o
    PROVE  Hunted(h, TrackDetected(p, o))
BY DEF TrackDetected, Hunted, Fine, Pis

\* What the rest of a frame makes of the look, the box and the count, when the phase
\* it goes by is the state's own: the look stays, and a box with another look is
\* counted if it could be judged.
LEMMA RestJudges ==
    ASSUME NEW p, Fine(p), p.look # Nobody, NEW o \in Observation, NEW looked \in BOOLEAN
    PROVE  LET r == Rest(p, p.track.phase, o, looked)
           IN  /\ r.look = p.look /\ r.mismatch \in Nat
               /\ \/ r.track.phase # "TRACKING"
                  \/ r.who = p.look
                  \/ r.mismatch = p.mismatch /\ ~(o.sees /\ looked)
                  \/ r.mismatch = p.mismatch + 1
<1> DEFINE phase == p.track.phase
           m == Rematch(p, phase, o)
           phase1 == IF m = p THEN phase ELSE "TRACKING"
           v == Identify(m, phase1, o, looked)
           phase2 == IF v.track = m.track THEN phase1 ELSE v.track.phase
           s == Sample(v, phase2, o)
           Good(r) ==
               /\ r.look = p.look
               /\ \/ r.track.phase # "TRACKING"
                  \/ r.who = p.look
                  \/ r.mismatch = p.mismatch /\ ~(o.sees /\ looked)
                  \/ r.mismatch = p.mismatch + 1
<1>1. p.mismatch \in 0 .. DropFrames - 1 /\ p.track \in Track
    BY DEF Fine, Pis
<1>2. Good(v) /\ Fine(v)
    <2>1. CASE m = p
        <3> DEFINE d == IF phase = "TRACKING" THEN [p EXCEPT !.dropped = FALSE] ELSE p
        <3>1. /\ Fine(d) /\ d.look = p.look /\ d.who = p.who /\ d.mismatch = p.mismatch
              /\ d.track = p.track
            BY DEF Fine, WholeIn, Pis
        <3>2. CASE phase # "TRACKING"
            <4>1. v = [p EXCEPT !.mismatch = 0]
                BY <2>1, <3>2 DEF Identify
            <4> HIDE DEF v, m
            <4> QED  BY <3>2, <4>1, ConstantsTyped DEF Fine, WholeIn, Pis
        <3>3. CASE phase = "TRACKING" /\ ~looked
            <4>1. v = d
                BY <2>1, <3>3 DEF Identify
            <4> HIDE DEF d, v, m
            <4> QED  BY <3>1, <3>3, <4>1
        <3>4. CASE phase = "TRACKING" /\ looked
            <4>1. v = Verify(d, o)
                BY <2>1, <3>4 DEF Identify
            <4> HIDE DEF d, v, m
            <4>2. Fine(v)
                BY <3>1, <4>1, VerifyStage
            <4>3. CASE ~o.sees
                BY <3>1, <4>1, <4>3 DEF Verify, Verified, Fine, Pis
            <4>4. CASE o.sees /\ d.who = d.look
                <5>1. v = [d EXCEPT !.mismatch = 0]
                    BY <4>1, <4>4 DEF Verify, Verified
                <5>2. v.who = d.who /\ v.look = d.look
                    BY <3>1, <5>1 DEF Fine, Pis
                <5> QED  BY <3>1, <4>2, <4>4, <5>2
            <4> DEFINE wrong == d.mismatch + 1
                       swap == wrong >= SwapFrames /\ Recognised(d, o) /\ d.look # d.who
            <4>5. CASE o.sees /\ d.who # d.look /\ swap
                <5>1. v = [Learnt(StartedOn(d, d.look), o.sees) EXCEPT !.mismatch = 0]
                    BY <4>1, <4>5 DEF Verify, Verified
                <5>2. StartedOn(d, d.look) = [d EXCEPT !.track = Started, !.who = d.look]
                    BY DEF StartedOn
                <5> QED  BY <3>1, <4>2, <4>5, <5>1, <5>2 DEF Learnt, Fine, Pis
            <4>6. CASE o.sees /\ d.who # d.look /\ ~swap /\ wrong >= DropFrames
                <5>1. v = [d EXCEPT !.mismatch = 0, !.dropped = TRUE, !.track = Dropped(@),
                                    !.visual = @ /\ d.tracker # "visual"]
                    BY <4>1, <4>6 DEF Verify, Verified
                <5>2. Dropped(d.track).phase # "TRACKING"
                    BY <1>1, <3>1 DEF Dropped, Track
                <5>3. v.look = d.look /\ v.track = Dropped(d.track)
                    BY <3>1, <5>1 DEF Fine, Pis
                <5> QED  BY <3>1, <4>2, <5>2, <5>3
            <4>7. CASE o.sees /\ d.who # d.look /\ ~swap /\ ~(wrong >= DropFrames)
                <5>1. v = [d EXCEPT !.mismatch = wrong]
                    BY <4>1, <4>7 DEF Verify, Verified
                <5> QED  BY <3>1, <4>2, <5>1 DEF Fine, Pis
            <4> QED  BY <4>3, <4>4, <4>5, <4>6, <4>7
        <3> QED  BY <3>2, <3>3, <3>4
    <2>2. CASE m # p
        <3>1. m = Learnt(StartedOn(p, p.look), o.sees) /\ Recognised(p, o)
            BY <2>2 DEF Rematch
        <3>2. Fine(m) /\ m.look = p.look /\ m.who = p.look
            <4>1. StartedOn(p, p.look) = [p EXCEPT !.track = Started, !.who = p.look]
                BY DEF StartedOn
            <4>2. StartedOn(p, p.look).who = p.look /\ StartedOn(p, p.look).look = p.look
                BY <4>1 DEF Fine, Pis
            <4>3. Fine(m)
                BY <3>1, RelockedStage
            <4>4. m.who = p.look /\ m.look = p.look
                <5>1. \/ m = StartedOn(p, p.look)
                      \/ m = [StartedOn(p, p.look) EXCEPT !.look = p.look]
                    BY <3>1, <4>2 DEF Learnt
                <5> DEFINE q == StartedOn(p, p.look)
                           fields == DOMAIN p
                <5>2. q = [f \in fields |-> q[f]] /\ "look" \in fields /\ "who" \in fields
                    BY <4>1 DEF Fine, Pis
                <5>3. q.who = p.look /\ q.look = p.look
                    BY <4>2
                <5>4. m = q \/ m = [q EXCEPT !.look = p.look]
                    BY <5>1
                <5> HIDE DEF m, q, v, s, phase, phase1, phase2, fields
                <5>5. CASE m = q
                    BY <5>3, <5>5
                <5>6. CASE m = [q EXCEPT !.look = p.look]
                    BY <5>2, <5>3, <5>6
                <5> QED  BY <5>4, <5>5, <5>6
            <4> HIDE DEF m
            <4> QED  BY <4>3, <4>4
        <3> DEFINE d == [m EXCEPT !.dropped = FALSE]
        <3>3. Fine(d) /\ d.look = p.look /\ d.who = p.look
            <4> HIDE DEF m
            <4> QED  BY <3>2 DEF Fine, WholeIn, Pis
        <3>4. v = Verify(d, o) \/ v = d
            <4>1. v = Identify(m, "TRACKING", o, looked)
                BY <2>2
            <4> HIDE DEF m, v
            <4> QED  BY <3>2, <4>1 DEF Identify
        <3> HIDE DEF d, v, m
        <3>5. /\ Verify(d, o).look = p.look /\ Verify(d, o).who = p.look
              /\ Fine(Verify(d, o))
            <4>1. Verify(d, o) = d \/ Verify(d, o) = [d EXCEPT !.mismatch = 0]
                BY <3>3 DEF Verify, Verified
            <4> QED  BY <3>3, <4>1, VerifyStage DEF Fine, Pis
        <3> QED  BY <3>3, <3>4, <3>5
    <2> QED  BY <2>1, <2>2
<1>3. /\ Fine(s) /\ s.look = v.look /\ s.who = v.who /\ s.track = v.track
      /\ s.mismatch = v.mismatch
    <2> HIDE DEF v, phase2
    <2> QED  BY <1>2, SampleStage DEF Sample, Fine, Pis
<1>4. Rest(p, phase, o, looked) = [s EXCEPT !.aim = Aim(s, phase2)]
    BY DEF Rest
<1> DEFINE r == Rest(p, phase, o, looked)
<1>5. /\ r.look = s.look /\ r.who = s.who /\ r.track = s.track
      /\ r.mismatch = s.mismatch /\ r.mismatch \in Nat
    <2> HIDE DEF s, phase2, r
    <2> QED  BY <1>3, <1>4, ConstantsTyped DEF Fine, Pis, r
<1> HIDE DEF r, s, v
<1> QED  BY <1>2, <1>3, <1>5 DEF r

\* So the count of the program is never behind that of the history.
LEMMA RestHunt ==
    ASSUME NEW h \in Hists, NEW p, Fine(p), Hunted(h, p), NEW phase,
           h.learnt => phase = p.track.phase, NEW o \in Observation, NEW looked \in BOOLEAN
    PROVE  LET r == Rest(p, phase, o, looked) IN Hunted(Judged(h, r, o, looked), r)
<1> DEFINE r == Rest(p, phase, o, looked)
           j == Judged(h, r, o, looked)
           w == IF r.track.phase # "TRACKING" \/ r.who = h.chosen THEN 0
                ELSE IF o.sees /\ looked /\ h.wrong < DropFrames THEN h.wrong + 1 ELSE h.wrong
<1>1. j = [h EXCEPT !.wrong = w]
    BY DEF Judged
<1>2. j.learnt = h.learnt /\ j.chosen = h.chosen /\ j.wrong = w
    <2> HIDE DEF w, j
    <2> QED  BY <1>1 DEF Hists
<1>3. CASE h.learnt
    <2>1. p.look # Nobody /\ p.look = h.chosen /\ h.wrong <= p.mismatch /\ phase = p.track.phase
        BY <1>3 DEF Hunted
    <2>2. /\ r.look = p.look /\ r.mismatch \in Nat
          /\ \/ r.track.phase # "TRACKING"
             \/ r.who = p.look
             \/ r.mismatch = p.mismatch /\ ~(o.sees /\ looked)
             \/ r.mismatch = p.mismatch + 1
        <3>1. r = Rest(p, p.track.phase, o, looked)
            BY <2>1
        <3> HIDE DEF r
        <3> QED  BY <2>1, <3>1, RestJudges
    <2> HIDE DEF r
    <2>3. h.wrong \in Nat /\ p.mismatch \in Nat
        BY ConstantsTyped DEF Hists, Fine, Pis
    <2>4. w <= r.mismatch
        BY <2>1, <2>2, <2>3
    <2> HIDE DEF w, j
    <2> QED  BY <1>2, <2>1, <2>2, <2>4 DEF Hunted, r, j
<1>4. CASE ~h.learnt
    <2> HIDE DEF r, w, j
    <2> QED  BY <1>2, <1>4 DEF Hunted, r, j
<1> QED  BY <1>3, <1>4

\* A frame begins: it ends in one go, or waits for the worker.
LEMMA BeginPursuit ==
    ASSUME TInv, Pursuit, NEW o \in Observation, NEW taken \in BOOLEAN, BeginFrame(o, taken)
    PROVE  Pursuit'
<1> DEFINE p == [pi EXCEPT !.track = Passing(@, o.later), !.aim = Nobody, !.kept = Nobody]
           q == Select(StartTeaching(p, taken), o)
           t == TrackDetected(q, o)
           r == Rest(t, t.track.phase, o, o.fresh)
           h == ChosenAt(hist, p, o, taken)
<1>1. Fine(pi) /\ frame \in Frames /\ hist \in Hists /\ frame.at = "loop" /\ frame.phase = "IDLE"
    BY Typed DEF TInv, Pursuit, BeginFrame
<1>2. Passing(pi.track, o.later) \in Track /\ (Passing(pi.track, o.later).locked <=> pi.track.locked)
    BY <1>1, TrackTypes, ObservationIs DEF Fine, Pis
<1>3. Fine(p) /\ Hunted(hist, p)
    <2>1. Fine(p) /\ p.look = pi.look /\ p.mismatch = pi.mismatch
        BY <1>1, <1>2 DEF Fine, WholeIn, Pis, Subjects
    <2> HIDE DEF p
    <2> QED  BY <2>1 DEF Pursuit, Hunted
<1>4. Hunted(h, q) /\ h \in Hists /\ Fine(q)
    <2> HIDE DEF p
    <2>1. p \in Pis
        BY <1>3 DEF Fine
    <2> QED  BY <1>1, <1>3, <2>1, ChosenHunt, ChosenTyped, TeachStage, SelectStage
<1>5. CASE q.custom # Nobody
    <2>1. pi' = q /\ hist' = h /\ frame' = [frame EXCEPT !.at = "begun"]
        BY <1>5 DEF BeginFrame
    <2>2. frame'.at = "begun" /\ frame'.phase = "IDLE"
        BY <1>1, <2>1 DEF Frames
    <2> HIDE DEF q, h
    <2> QED  BY <1>4, <2>1, <2>2 DEF Pursuit, Hunted
<1>6. CASE q.custom = Nobody
    <2>1. pi' = r /\ hist' = Judged(h, r, o, o.fresh) /\ frame' = frame
        BY <1>6 DEF BeginFrame
    <2>2. Fine(t) /\ Hunted(h, t)
        <3> HIDE DEF q, h
        <3> QED  BY <1>4, <1>6, DetectedStage, DetectedHunt
    <2>3. Hunted(Judged(h, r, o, o.fresh), r)
        <3>1. o.fresh \in BOOLEAN
            BY ObservationIs
        <3> HIDE DEF t, h
        <3> QED  BY <1>4, <2>2, <3>1, RestHunt
    <2> HIDE DEF r, h
    <2> QED  BY <1>1, <2>1, <2>3 DEF Pursuit, Hunted
<1> QED  BY <1>5, <1>6

\* It goes on.
LEMMA ResumePursuit ==
    ASSUME TInv, Pursuit, NEW o \in Observation, ResumeFrame(o)
    PROVE  Pursuit'
<1> DEFINE p == IF frame.phase = "TARGET_LOST" THEN TeachingEnded(pi) ELSE pi
           r == Rest(p, frame.phase, o, TRUE)
<1>1. Fine(pi) /\ hist \in Hists /\ Hunted(hist, pi)
    BY Typed DEF TInv, Pursuit
<1>2. frame'.at = "loop" /\ frame'.phase = "IDLE"
    BY DEF ResumeFrame, AtLoop
<1>3. CASE UNCHANGED <<pi, hist>>
    BY <1>1, <1>2, <1>3 DEF Pursuit, Hunted
<1>4. CASE pi' = r /\ hist' = Judged(hist, r, o, TRUE)
    <2>1. Fine(p) /\ p.track = pi.track /\ p.look = pi.look /\ p.mismatch = pi.mismatch
        BY <1>1, EndedStage DEF TeachingEnded, Fine, Pis
    <2>2. hist.learnt => frame.phase = p.track.phase
        BY <2>1 DEF Pursuit, ResumeFrame
    <2>3. Hunted(hist, p)
        BY <1>1, <2>1 DEF Hunted
    <2>4. Hunted(Judged(hist, r, o, TRUE), r)
        <3> HIDE DEF p
        <3> QED  BY <1>1, <2>1, <2>2, <2>3, RestHunt
    <2> HIDE DEF r
    <2> QED  BY <1>2, <1>4, <2>4 DEF Pursuit, Hunted
<1> QED  BY <1>3, <1>4 DEF ResumeFrame

\* The worker neither learns nor counts, and leaves the phase it reports.
LEMMA WorkerPursuit ==
    ASSUME TInv, Pursuit, Worker
    PROVE  Pursuit'
<1>1. Fine(pi) /\ frame \in Frames /\ hist' = hist
    BY Typed, WorkerIs DEF TInv
<1>2. /\ pi'.look = pi.look /\ pi'.mismatch = pi.mismatch
      /\ \/ frame' = AtLoop
         \/ frame'.at \notin {"loop", "begun", "back"}
         \/ frame'.at = "back" /\ (frame'.phase = pi'.track.phase)
    <2>1. CASE WorkerEnters
        <3>1. pi' = pi /\ frame.phase = "IDLE"
            BY <2>1 DEF WorkerEnters, Pursuit
        <3>2. CASE pi.track.phase = "IDLE"
            BY <1>1, <2>1, <3>1, <3>2 DEF WorkerEnters, Frames
        <3>3. CASE pi.track.phase # "IDLE"
            <4>1. PICK a \in {"looking", "missed"} : frame' = [frame EXCEPT !.at = a]
                BY <2>1, <3>3 DEF WorkerEnters
            <4> QED  BY <1>1, <3>1, <4>1 DEF Frames
        <3> QED  BY <3>2, <3>3
    <2>2. CASE WorkerLooks
        <3>1. \A s : [frame EXCEPT !.at = "matched", !.who = s].at = "matched"
            BY <1>1 DEF Frames
        <3>2. [frame EXCEPT !.at = "missed"].at = "missed"
            BY <1>1 DEF Frames
        <3> QED  BY <2>2, <3>1, <3>2 DEF WorkerLooks
    <2>3. CASE WorkerHoldsTarget
        BY <1>1, <2>3 DEF WorkerHoldsTarget, Fine, Pis, Frames
    <2>4. CASE WorkerWaits
        BY <1>1, <2>4, WaitsIs
    <2>5. CASE WorkerWrites
        BY <1>1, <2>5, WritesIs DEF Fine, Pis
    <2>6. CASE WorkerGivesUp
        BY <1>1, <2>6, GivesUpIs DEF Fine, Pis
    <2> QED  BY <2>1, <2>2, <2>3, <2>4, <2>5, <2>6, WorkerIs
<1>3. Hunted(hist, pi)'
    BY <1>1, <1>2 DEF Pursuit, Hunted
<1> QED  BY <1>1, <1>2, <1>3 DEF Pursuit, AtLoop

\* The operator's commands: STOP ends the hunt, the others do not touch it.
LEMMA OperatorPursuit ==
    ASSUME TInv, Pursuit,
           \/ Abort
           \/ \E s \in Detected : SelectTarget(s)
           \/ \E n \in Taught : TeachObject(n)
           \/ \E m \in {"idle", "follow"} : ModeCommand(m)
    PROVE  Pursuit'
<1>1. Fine(pi) /\ hist \in Hists
    BY Typed DEF TInv
<1>2. CASE Abort
    <2>1. ~hist'.learnt /\ frame' = frame
        BY <1>1, <1>2 DEF Abort, Hists
    <2> QED  BY <2>1 DEF Pursuit, Hunted
<1>3. CASE ~Abort
    <2>1. /\ pi'.look = pi.look /\ pi'.mismatch = pi.mismatch /\ pi'.track = pi.track
          /\ frame' = frame
        BY <1>1, <1>3 DEF SelectTarget, TeachObject, ModeCommand, Fine, Pis
    <2>2. /\ hist'.learnt = hist.learnt /\ hist'.chosen = hist.chosen
          /\ hist'.wrong = hist.wrong
        BY <1>1, <1>3 DEF SelectTarget, TeachObject, ModeCommand, Hists
    <2> QED  BY <2>1, <2>2 DEF Pursuit, Hunted
<1> QED  BY <1>2, <1>3

\* If the look of the chosen target was learnt when it was chosen, a tracker that has
\* gone over to somebody else is corrected or given up before it was seen to be wrong
\* DropFrames times in a row, however often STOP, selections and the worker overtake
\* the frames.
THEOREM StrangersHold == Spec => []StrangersAreGivenUp
<1>1. Init => Pursuit
    BY DEF Init, AtLoop, Pursuit, Hunted
<1>2. TInv /\ Pursuit /\ [Next]_vars => Pursuit'
    <2> SUFFICES ASSUME TInv, Pursuit, [Next]_vars PROVE Pursuit'
        OBVIOUS
    <2>1. ASSUME NEW o \in Observation, NEW taken \in Takes, BeginFrame(o, taken)
          PROVE  Pursuit'
        <3>1. taken \in BOOLEAN
            BY DEF Takes
        <3> QED  BY <2>1, <3>1, BeginPursuit
    <2>2. CASE UNCHANGED vars
        BY <2>2 DEF vars, Pursuit, Hunted
    <2> QED
        BY <2>1, <2>2, ResumePursuit, WorkerPursuit, OperatorPursuit DEF Next
<1>3. TInv /\ Pursuit => StrangersAreGivenUp
    <2> SUFFICES ASSUME TInv, Pursuit, hist.learnt PROVE hist.wrong < DropFrames
        BY DEF StrangersAreGivenUp
    <2>1. hist.wrong <= pi.mismatch /\ pi.mismatch \in 0 .. DropFrames - 1
          /\ hist.wrong \in 0 .. DropFrames
        BY Typed DEF TInv, Pursuit, Hunted, Pis, Hists
    <2> QED  BY <2>1, ConstantsTyped
<1> QED  BY <1>1, <1>2, <1>3, Invariant, PTL DEF Spec
==============================================================================
