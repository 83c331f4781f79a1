--------------------------- MODULE Companion_proofs ---------------------------
(***************************************************************************)
(* What the Companion runs check in a few scenarios, proved for every value *)
(* of the constants: any set of scenarios, any timeouts, any bounds.        *)
(*                                                                         *)
(* A frame is a composition of stages, so its proof is one: a lemma for     *)
(* each stage says that it keeps the types and what it leaves alone         *)
(* (SameCourse), and the lemmas are chained in the order of process_frame.  *)
(***************************************************************************)
EXTENDS CompanionProperties, TLAPS

USE DEF Report

\* The flight modes a frame may ask for, each for its reason.
JustifiedOne(m, why) ==
    /\ why # "land"
    /\ why \in {"retry", "command", "stop", "recovery", "failsafe"} => ~world.sticks
    /\ m = "RTL" /\ why \in {"recovery", "failsafe"} => PiInControl

Justified(asked) == \A a \in asked : JustifiedOne(a[1], a[2])

\* What the stages that only look and ask leave as it is.
SameCourse(c, d) ==
    /\ d.requested = c.requested /\ d.takeoff = c.takeoff /\ d.stops = c.stops
    /\ d.approach = c.approach /\ d.grid = c.grid
    /\ d.lostFor = c.lostFor /\ d.latched = c.latched
    /\ d.out.frame = c.out.frame /\ d.out.written = c.out.written
    /\ d.out.setpoint = c.out.setpoint /\ d.out.by = c.out.by /\ d.out.want = c.out.want
    /\ d.out.takeoff = c.out.takeoff /\ d.out.holding = c.out.holding
    /\ d.out.question = c.out.question
    /\ Justified(c.out.asked) => Justified(d.out.asked)

\* What the stages that act leave as it is: who is seen, and what is sent.
SameSight(c, d) ==
    /\ d.track = c.track /\ d.dropped = c.dropped /\ d.stops = c.stops
    /\ d.out.frame = c.out.frame /\ d.out.written = c.out.written
    /\ Justified(c.out.asked) => Justified(d.out.asked)

\* The failsafe has not asked for its RTL.
Unfired(c) == <<"RTL", "failsafe">> \notin c.out.asked

\* What every stage before the dispatch leaves as it is, the failsafe's counters
\* and request apart.
SameControl(c, d) == d.approach = c.approach /\ d.grid = c.grid

\* What every stage but the failsafe leaves as it is.
SameFailsafe(c, d) ==
    /\ d.lostFor = c.lostFor /\ d.latched = c.latched
    /\ Unfired(c) => Unfired(d)

-----------------------------------------------------------------------------
(* The operators the stages are made of. *)

\* One more request of a flight mode is a legal output, and disturbs nothing else.
LEMMA AskingType ==
    ASSUME NEW out \in Output, NEW m \in Modes, NEW why \in Why
    PROVE  /\ Asking(out, m, why) \in Output
           /\ Asking(out, m, why).asked = out.asked \cup {<<m, why>>}
<1>1. out.asked \in SUBSET (Modes \X Why)
    BY DEF Output
<1>2. <<m, why>> \in Modes \X Why
    OBVIOUS
<1>3. out.asked \cup {<<m, why>>} \in SUBSET (Modes \X Why)
    BY <1>1, <1>2
<1> QED BY <1>3 DEF Asking, Output

\* A request of a flight mode on the Pi's own account keeps its course.
LEMMA AskModeType ==
    ASSUME world \in World, NEW c \in Pi, NEW m \in Modes, NEW why \in Why
    PROVE  /\ AskMode(c, m, why) \in Pi
           /\ AskMode(c, m, why).out.asked = c.out.asked \cup {<<m, why>>}
           /\ JustifiedOne(m, why) => SameCourse(c, AskMode(c, m, why))
           /\ AskMode(c, m, why).track = c.track
           /\ AskMode(c, m, why).dropped = c.dropped
           /\ AskMode(c, m, why).recovery = c.recovery
<1>1. Fresh(m, world.mode) \in Request
    BY RequestAssumption DEF Fresh, Request, World
<1>2. c.out \in Output
    BY DEF Pi
<1>3. Asking(c.out, m, why) \in Output
    BY <1>2, AskingType
<1>4. AskMode(c, m, why) \in Pi
    BY <1>1, <1>3 DEF AskMode, Pi
<1>5. AskMode(c, m, why).out = Asking(c.out, m, why)
    BY DEF AskMode, Pi
<1>6. AskMode(c, m, why).out.asked = c.out.asked \cup {<<m, why>>}
    BY <1>2, <1>5, AskingType
<1>7. ASSUME JustifiedOne(m, why), Justified(c.out.asked)
      PROVE  Justified(c.out.asked \cup {<<m, why>>})
    BY <1>7 DEF Justified
<1>8. JustifiedOne(m, why) => SameCourse(c, AskMode(c, m, why))
    <2>1. /\ AskMode(c, m, why).out.frame = c.out.frame
          /\ AskMode(c, m, why).out.written = c.out.written
          /\ AskMode(c, m, why).out.setpoint = c.out.setpoint
          /\ AskMode(c, m, why).out.by = c.out.by
          /\ AskMode(c, m, why).out.want = c.out.want
          /\ AskMode(c, m, why).out.takeoff = c.out.takeoff
          /\ AskMode(c, m, why).out.holding = c.out.holding
          /\ AskMode(c, m, why).out.question = c.out.question
        BY <1>2, <1>5 DEF Output, Asking
    <2> QED BY <1>6, <1>7, <2>1 DEF AskMode, Pi, SameCourse
<1> QED BY <1>4, <1>6, <1>8 DEF AskMode, Pi

\* Checking a pending request leaves a request or none.
LEMMA FreshRequest ==
    ASSUME NEW p \in Request \cup {NoRequest}, NEW current \in Modes, NEW ok \in BOOLEAN
    PROVE  /\ Checked(p, current, ok) \in Request \cup {NoRequest}
           /\ Resent(p, current, ok) => p.mode \in Modes
<1>1. CASE p = NoRequest
    BY <1>1 DEF NoRequest, Checked, Confirmed, Superseded, Exhausted, Resent, Overdue, Pending
<1>2. CASE p \in Request
    <2>1. Resent(p, current, ok) => Again(p) \in Request
        BY <1>2, RequestAssumption DEF Request, Resent, Again
    <2> QED BY <1>2, <2>1 DEF Checked, Request
<1> QED BY <1>1, <1>2

\* So does time passing.
LEMMA OlderRequest ==
    ASSUME NEW p \in Request \cup {NoRequest}
    PROVE  Older(p) \in Request \cup {NoRequest}
<1>1. CASE p = NoRequest
    BY <1>1 DEF NoRequest, Older, Pending
<1>2. CASE p \in Request
    BY <1>2, RequestAssumption DEF Request, Older
<1> QED BY <1>1, <1>2

\* Time passing and every event of the tracker lead from track to track.
LEMMA TrackTypes ==
    ASSUME NEW t \in Track, NEW dt \in {0, 1}, NEW matched \in BOOLEAN
    PROVE  /\ Passing(t, dt) \in Track /\ Started \in Track /\ NoTrack \in Track
           /\ Updated(t, matched) \in Track /\ Coasted(t) \in Track /\ Dropped(t) \in Track
<1>1. Passing(t, dt) \in Track
    <2>1. \A age \in 0 .. ReacquireAfter : Later(age, dt) \in 0 .. ReacquireAfter
        BY ReacquireAssumption DEF Later
    <2>2. 0 \in 0 .. ReacquireAfter
        BY ReacquireAssumption
    <2> QED BY <2>1, <2>2 DEF Track, Passing
<1>2. Started \in Track /\ NoTrack \in Track
    BY ReacquireAssumption DEF Track, Started, NoTrack
<1>3. Expired(t) \in Track
    <2>1. 0 \in 0 .. ReacquireAfter
        BY ReacquireAssumption
    <2> QED BY <2>1 DEF Track, Expired
<1>4. Updated(t, matched) \in Track
    BY <1>2, <1>3 DEF Track, Updated
<1>5. Dropped(t) \in Track
    <2>1. 0 \in 0 .. ReacquireAfter
        BY ReacquireAssumption
    <2> QED BY <2>1 DEF Track, Dropped
<1> QED BY <1>1, <1>2, <1>3, <1>4, <1>5 DEF Coasted

\* Every event of the search leads from recovery to recovery.
LEMMA RecoveryTypes ==
    ASSUME NEW r \in Recovery, NEW dt \in {0, 1}, NEW found \in BOOLEAN, NEW land \in BOOLEAN
    PROVE  /\ NoRecovery \in Recovery /\ SearchStarted(r) \in Recovery
           /\ Searching(r, dt) \in Recovery /\ Confirming(r) \in Recovery
           /\ RecoveryAfter(r, RecoveryResult(r, found, land)) \in Recovery
           /\ RecoveryResult(r, found, land)
                \in {"IDLE", "FOUND", "AWAITING", "SEARCHING", "ASK_LAND", "RTL"}
<1>1. /\ NoRecovery \in Recovery /\ SearchStarted(r) \in Recovery
      /\ Searching(r, dt) \in Recovery /\ Confirming(r) \in Recovery
    BY SearchAssumption DEF Recovery, NoRecovery, SearchStarted, Searching, Confirming
<1>2. RecoveryResult(r, found, land)
        \in {"IDLE", "FOUND", "AWAITING", "SEARCHING", "ASK_LAND", "RTL"}
    BY DEF RecoveryResult
<1>3. RecoveryAfter(r, RecoveryResult(r, found, land)) \in Recovery
    BY <1>1, <1>2, SearchAssumption DEF Recovery, RecoveryAfter
<1> QED BY <1>1, <1>2, <1>3

\* Every event of the takeoff leads from takeoff to takeoff.
LEMMA TakeoffTypes ==
    ASSUME NEW t \in Takeoff, NEW dt \in {0, 1},
           NEW action \in {"none", "timed_out", "hold", "ready", "send_takeoff"}
    PROVE  /\ TakeoffAfter(t, dt, action) \in Takeoff
           /\ TakeoffRetried(t) \in Takeoff
           /\ NoTakeoff \in Takeoff /\ TakeoffStarted \in Takeoff
<1>1. NoTakeoff \in Takeoff /\ TakeoffStarted \in Takeoff
    BY TakeoffAssumption DEF Takeoff, NoTakeoff, TakeoffStarted
<1>2. TakeoffAfter(t, dt, action) \in Takeoff
    BY <1>1, TakeoffAssumption DEF Takeoff, TakeoffAfter, Elapsed
<1>3. TakeoffRetried(t) \in Takeoff
    BY DEF Takeoff, TakeoffRetried
<1> QED BY <1>1, <1>2, <1>3

-----------------------------------------------------------------------------
(* The stages that look: what the frame brings, and who is seen in it. *)

\* check_pending_mode.
LEMMA ResolveModeStage ==
    ASSUME world \in World, NEW c \in Pi, NEW o \in Observation
    PROVE  /\ ResolveMode(c, o) \in Pi
           /\ SameCourse(c, ResolveMode(c, o))
           /\ ResolveMode(c, o).recovery = c.recovery
<1> DEFINE p == IF o.dt = 0 THEN c.mode ELSE Older(c.mode)
           sent == IF Resent(p, world.mode, AllowRetry)
                   THEN Asking(c.out, p.mode, "retry") ELSE c.out
<1>1. p \in Request \cup {NoRequest}
    BY OlderRequest DEF Pi
<1>2. world.mode \in Modes /\ AllowRetry \in BOOLEAN
    BY DEF World, AllowRetry
<1>3. /\ Checked(p, world.mode, AllowRetry) \in Request \cup {NoRequest}
      /\ Resent(p, world.mode, AllowRetry) => p.mode \in Modes
    BY <1>1, <1>2, FreshRequest
<1>4. /\ sent \in Output
      /\ Justified(c.out.asked) => Justified(sent.asked)
    <2>1. CASE Resent(p, world.mode, AllowRetry)
        <3>1. c.out \in Output /\ p.mode \in Modes /\ "retry" \in Why
            BY <1>3, <2>1 DEF Pi, Why
        <3>2. /\ Asking(c.out, p.mode, "retry") \in Output
              /\ Asking(c.out, p.mode, "retry").asked = c.out.asked \cup {<<p.mode, "retry">>}
            BY <3>1, AskingType
        <3>3. JustifiedOne(p.mode, "retry")
            BY <2>1 DEF JustifiedOne, Resent, Overdue, AllowRetry
        <3> HIDE DEF p
        <3> QED BY <2>1, <3>2, <3>3 DEF Justified
    <2>2. CASE ~Resent(p, world.mode, AllowRetry)
        BY <2>2 DEF Pi
    <2> QED BY <2>1, <2>2
<1>5. /\ sent.frame = c.out.frame /\ sent.written = c.out.written
      /\ sent.setpoint = c.out.setpoint /\ sent.by = c.out.by /\ sent.want = c.out.want
      /\ sent.takeoff = c.out.takeoff /\ sent.holding = c.out.holding
      /\ sent.question = c.out.question
    BY DEF Pi, Output, Asking
<1>6. ResolveMode(c, o) = [c EXCEPT !.mode = Checked(p, world.mode, AllowRetry), !.out = sent]
    BY DEF ResolveMode, Pi
<1> HIDE DEF p, sent
<1> QED BY <1>3, <1>4, <1>5, <1>6 DEF Pi, SameCourse

\* The time since the last frame.
LEMMA PerceiveStage ==
    ASSUME NEW c \in Pi, NEW o \in Observation
    PROVE  /\ Perceive(c, o) \in Pi
           /\ SameCourse(c, Perceive(c, o))
           /\ Perceive(c, o).recovery = Searching(c.recovery, o.dt)
<1>1. Passing(c.track, o.dt) \in Track
    BY TrackTypes DEF Pi, Observation
<1>2. Searching(c.recovery, o.dt) \in Recovery
    BY RecoveryTypes DEF Pi, Observation
<1>3. Carried(c.carried, o) \in 0 .. CarryMax + 1
    BY CompanionAssumption DEF Carried, Pi, Observation
<1> QED BY <1>1, <1>2, <1>3 DEF Perceive, Pi, SameCourse

\* A lock on a detection of this frame.
LEMMA RelockStage ==
    ASSUME NEW c \in Pi, NEW o \in Observation
    PROVE  /\ Relock(c, o) \in Pi
           /\ SameCourse(c, Relock(c, o))
           /\ Relock(c, o).recovery = c.recovery
<1>1. Started \in Track
    BY ReacquireAssumption DEF Started, Track
<1>2. (c.signature \/ o.learns) \in BOOLEAN
    BY DEF Pi, Observation
<1> QED BY <1>1, <1>2 DEF Relock, Pi, SameCourse

\* The pending selection.
LEMMA SelectStage ==
    ASSUME NEW c \in Pi, NEW o \in Observation
    PROVE  /\ Select(c, o) \in Pi
           /\ SameCourse(c, Select(c, o))
           /\ Select(c, o).recovery = c.recovery
<1> DEFINE e == Relock(c, o)
<1>1. e \in Pi /\ SameCourse(c, e) /\ e.recovery = c.recovery
    BY RelockStage
<1>2. /\ [e EXCEPT !.mismatch = 0, !.selection = FALSE] \in Pi
      /\ SameCourse(c, [e EXCEPT !.mismatch = 0, !.selection = FALSE])
      /\ [e EXCEPT !.mismatch = 0, !.selection = FALSE].recovery = c.recovery
    <2>1. 0 \in 0 .. DropFrames
        BY CompanionAssumption
    <2> HIDE DEF e
    <2> QED BY <1>1, <2>1 DEF Pi, SameCourse
<1>3. /\ [c EXCEPT !.selection = FALSE] \in Pi
      /\ SameCourse(c, [c EXCEPT !.selection = FALSE])
      /\ [c EXCEPT !.selection = FALSE].recovery = c.recovery
    BY DEF Pi, SameCourse
<1>4. SameCourse(c, c)
    BY DEF SameCourse
<1> QED BY <1>2, <1>3, <1>4 DEF Select

\* The tracker's update, or its coast.
LEMMA TrackTargetStage ==
    ASSUME NEW c \in Pi, NEW o \in Observation
    PROVE  /\ TrackTarget(c, o) \in Pi
           /\ SameCourse(c, TrackTarget(c, o))
           /\ TrackTarget(c, o).recovery = c.recovery
<1> DEFINE matched == o.sight \in {"self", "other", "unsure"}
           t == IF Informed(c, o) THEN Updated(c.track, matched) ELSE Coasted(c.track)
<1>1. t \in Track
    <2>1. c.track \in Track /\ matched \in BOOLEAN /\ 0 \in {0, 1}
        BY DEF Pi
    <2>2. Updated(c.track, matched) \in Track /\ Coasted(c.track) \in Track
        BY <2>1, TrackTypes
    <2> QED BY <2>2
<1>2. TrackTarget(c, o) = [c EXCEPT !.track = t]
    BY DEF TrackTarget, Pi
<1> HIDE DEF t
<1> QED BY <1>1, <1>2 DEF Pi, SameCourse

\* The lost target found again by its look.
LEMMA RematchStage ==
    ASSUME NEW c \in Pi, NEW o \in Observation
    PROVE  /\ Rematch(c, o) \in Pi
           /\ SameCourse(c, Rematch(c, o))
           /\ Rematch(c, o).recovery = c.recovery
BY RelockStage DEF Rematch, SameCourse

\* _verify_tracked_identity, of a tracked box.
LEMMA VerifyStage ==
    ASSUME NEW c \in Pi, NEW o \in Observation
    PROVE  /\ Verify(c, o) \in Pi
           /\ SameCourse(c, Verify(c, o))
           /\ Verify(c, o).recovery = c.recovery
<1> DEFINE wrong == c.mismatch + 1
           swap == wrong >= SwapFrames /\ o.better
<1>1. 0 \in 0 .. DropFrames
    BY CompanionAssumption
<1>2. wrong < DropFrames => wrong \in 0 .. DropFrames
    BY CompanionAssumption DEF Pi
<1>3. Dropped(c.track) \in Track
    BY TrackTypes DEF Pi
<1> HIDE DEF wrong
<1>4. CASE o.sight = "self"
    <2>1. Verify(c, o) = [c EXCEPT !.mismatch = 0]
        BY <1>4 DEF Verify
    <2> QED BY <1>1, <2>1 DEF Pi, SameCourse
<1>5. CASE o.sight = "other" /\ swap
    <2>1. Verify(c, o) = [Relock(c, o) EXCEPT !.mismatch = 0]
        BY <1>5 DEF Verify, wrong
    <2> QED BY <1>1, <2>1, RelockStage DEF Pi, SameCourse
<1>6. CASE o.sight = "other" /\ ~swap /\ wrong >= DropFrames
    <2>1. Verify(c, o) = [c EXCEPT !.mismatch = 0, !.track = Dropped(@), !.dropped = TRUE]
        <3>1. /\ o.sight # "self"
              /\ ~(wrong >= SwapFrames /\ o.better)
              /\ wrong >= DropFrames
            BY <1>6
        <3>2. ~(wrong < DropFrames)
            BY <1>6, CompanionAssumption DEF wrong, Pi
        <3> QED BY <1>6, <3>1, <3>2 DEF Verify, wrong
    <2> QED BY <1>1, <1>3, <2>1 DEF Pi, SameCourse
<1>7. CASE o.sight = "other" /\ ~swap /\ ~(wrong >= DropFrames)
    <2>1. wrong < DropFrames
        BY <1>7, CompanionAssumption DEF wrong, Pi
    <2>2. Verify(c, o) = [c EXCEPT !.mismatch = wrong]
        BY <1>7, <2>1 DEF Verify, wrong
    <2> QED BY <1>2, <2>1, <2>2 DEF Pi, SameCourse
<1>8. CASE o.sight \notin {"self", "other"}
    <2>1. Verify(c, o) = c
        BY <1>8 DEF Verify
    <2> QED BY <2>1 DEF SameCourse
<1> QED BY <1>4, <1>5, <1>6, <1>7, <1>8

\* _verify_tracked_identity.
LEMMA IdentifyStage ==
    ASSUME NEW c \in Pi, NEW o \in Observation
    PROVE  /\ Identify(c, o) \in Pi
           /\ SameCourse(c, Identify(c, o))
           /\ Identify(c, o).recovery = c.recovery
<1> DEFINE tracking == c.track.phase = "TRACKING"
           d == IF tracking THEN [c EXCEPT !.dropped = FALSE] ELSE c
<1>1. d \in Pi /\ SameCourse(c, d) /\ d.recovery = c.recovery
    <2>1. /\ [c EXCEPT !.dropped = FALSE] \in Pi
          /\ SameCourse(c, [c EXCEPT !.dropped = FALSE])
          /\ [c EXCEPT !.dropped = FALSE].recovery = c.recovery
        BY DEF Pi, SameCourse
    <2>2. SameCourse(c, c)
        BY DEF SameCourse
    <2> QED BY <2>1, <2>2
<1>2. /\ [d EXCEPT !.mismatch = 0] \in Pi
      /\ SameCourse(c, [d EXCEPT !.mismatch = 0])
      /\ [d EXCEPT !.mismatch = 0].recovery = c.recovery
    <2>1. 0 \in 0 .. DropFrames
        BY CompanionAssumption
    <2> HIDE DEF d
    <2> QED BY <1>1, <2>1 DEF Pi, SameCourse
<1>3. /\ Verify(d, o) \in Pi /\ SameCourse(c, Verify(d, o))
      /\ Verify(d, o).recovery = c.recovery
    <2> HIDE DEF d
    <2> QED BY <1>1, VerifyStage DEF SameCourse
<1>4. Identify(c, o) \in {[d EXCEPT !.mismatch = 0], Verify(d, o), d}
    BY DEF Identify
<1> HIDE DEF d
<1> QED BY <1>1, <1>2, <1>3, <1>4

\* The hand-back to the pilot.
LEMMA HandBackStage ==
    ASSUME world \in World, NEW c \in Pi
    PROVE  /\ HandBack(c) \in Pi
           /\ SameCourse(c, HandBack(c))
           /\ HandBack(c).recovery = c.recovery
           /\ HandBack(c).track = c.track /\ HandBack(c).dropped = c.dropped
<1> DEFINE now == world.sticks /\ Guided
           d == IF now /\ ~c.handed THEN AskMode(c, "LOITER", "handback") ELSE c
<1>1. /\ d \in Pi /\ SameCourse(c, d) /\ d.recovery = c.recovery
      /\ d.track = c.track /\ d.dropped = c.dropped
    <2>1. "LOITER" \in Modes /\ "handback" \in Why /\ JustifiedOne("LOITER", "handback")
        BY CompanionAssumption DEF Why, JustifiedOne
    <2>2. SameCourse(c, c)
        BY DEF SameCourse
    <2> QED BY <2>1, <2>2, AskModeType
<1>2. HandBack(c) = [d EXCEPT !.handed = now]
    BY DEF HandBack
<1>3. now \in BOOLEAN
    BY DEF World, Guided
<1> HIDE DEF d, now
<1> QED BY <1>1, <1>2, <1>3 DEF Pi, SameCourse

-----------------------------------------------------------------------------
(* The stages that act: recovery, takeoff, failsafe. *)

\* What is wanted by the operator, wanted of this frame, and asked of the operator.
Wants(c, n, w, q) ==
    [c EXCEPT !.requested = n, !.out = [c.out EXCEPT !.want = w, !.question = q]]

\* Setting what is wanted, and asking the question, disturb nothing else.
LEMMA WantsType ==
    ASSUME NEW c \in Pi, NEW n \in Commanded, NEW w \in SupervisorState, NEW q \in BOOLEAN
    PROVE  LET d == Wants(c, n, w, q)
           IN  /\ d \in Pi /\ SameSight(c, d)
               /\ d.requested = n /\ d.out.want = w /\ d.out.question = q
               /\ d.takeoff = c.takeoff /\ d.recovery = c.recovery
               /\ SameControl(c, d) /\ SameFailsafe(c, d)
               /\ d.out.takeoff = c.out.takeoff /\ d.out.holding = c.out.holding
<1> DEFINE out == [c.out EXCEPT !.want = w, !.question = q]
<1>1. c.out \in Output
    BY DEF Pi
<1>2. /\ out \in Output /\ out.want = w /\ out.question = q
      /\ out.takeoff = c.out.takeoff /\ out.holding = c.out.holding
      /\ out.frame = c.out.frame /\ out.written = c.out.written /\ out.asked = c.out.asked
    BY <1>1 DEF Output
<1>3. Wants(c, n, w, q) = [c EXCEPT !.requested = n, !.out = out]
    BY DEF Wants
<1> HIDE DEF out
<1>4. Justified(c.out.asked) => Justified(out.asked)
    BY <1>2
<1> QED BY <1>2, <1>3, <1>4 DEF Pi, SameSight, SameControl, SameFailsafe, Unfired

\* The three ways the stages write it.
LEMMA WantsForms ==
    ASSUME NEW c \in Pi, NEW n \in Commanded, NEW w \in SupervisorState, NEW q \in BOOLEAN
    PROVE  /\ [c EXCEPT !.out.want = w] = Wants(c, c.requested, w, c.out.question)
           /\ [c EXCEPT !.out.want = w, !.out.question = q] = Wants(c, c.requested, w, q)
           /\ [c EXCEPT !.requested = n, !.out.want = w] = Wants(c, n, w, c.out.question)
           /\ c.requested \in Commanded /\ c.out.question \in BOOLEAN
BY DEF Pi, Output, Wants

\* Target-loss recovery.  Without a search and without a mode it stays so, and a
\* question is open only if it was put now or before, to an operator whose target is
\* lost.  A frame wants the mode commanded, or the search, or nothing.
Recovered(c, e) ==
    /\ e \in Pi /\ SameSight(c, e) /\ SameControl(c, e) /\ SameFailsafe(c, e)
    /\ e.requested \in {c.requested, "IDLE"}
    /\ \/ e.out.want = "IDLE"
       \/ e.out.want = c.requested /\ e.requested = c.requested
       \/ e.out.want = "SEARCHING" /\ RecoveryActive(e.recovery)
    /\ RecoveryActive(e.recovery) =>
          RecoveryActive(c.recovery) \/ c.requested \in {"FOLLOWING", "ORBITING"}
    /\ e.takeoff = c.takeoff /\ e.out.takeoff = c.out.takeoff
    /\ e.out.holding = c.out.holding
    /\ c.requested = "IDLE" /\ c.recovery = NoRecovery =>
          e.requested = "IDLE" /\ e.recovery = NoRecovery /\ e.out.want = "IDLE"
    /\ e.recovery.phase = "AWAITING" =>
          \/ e.out.question
          \/ c.recovery.phase = "AWAITING" /\ c.track.phase # "TRACKING"

LEMMA RecoverStage ==
    ASSUME world \in World, NEW c \in Pi, NEW o \in Observation,
           NEW e, e = Recover(c, o)
    PROVE  Recovered(c, e)
<1> USE DEF Recovered
<1> DEFINE lost == c.track.phase = "TARGET_LOST" /\ c.requested \in {"FOLLOWING", "ORBITING"}
           found == c.track.phase = "TRACKING"
           land == Critical /\ o.tooFar
           r == IF lost THEN SearchStarted(c.recovery) ELSE c.recovery
           result == RecoveryResult(r, found, land)
           d == [c EXCEPT !.recovery = RecoveryAfter(r, result)]
           q == c.out.question
<1>1. /\ r \in Recovery /\ RecoveryAfter(r, result) \in Recovery
      /\ result \in {"IDLE", "FOUND", "AWAITING", "SEARCHING", "ASK_LAND", "RTL"}
    <2>1. c.recovery \in Recovery /\ 0 \in {0, 1} /\ found \in BOOLEAN /\ land \in BOOLEAN
        BY DEF Pi, Critical, Observation
    <2>2. r \in Recovery
        BY <2>1, RecoveryTypes
    <2> HIDE DEF r, found, land
    <2> QED BY <2>1, <2>2, RecoveryTypes
<1>2. /\ d \in Pi /\ SameSight(c, d) /\ d.requested = c.requested /\ d.takeoff = c.takeoff
      /\ d.out = c.out /\ d.recovery = RecoveryAfter(r, result)
      /\ SameControl(c, d) /\ SameFailsafe(c, d)
    <2> HIDE DEF r, result
    <2> QED BY <1>1 DEF Pi, SameSight, SameControl, SameFailsafe, Unfired
<1>3. RecoveryAfter(r, result).phase = "AWAITING" =>
         \/ result = "ASK_LAND"
         \/ result = "AWAITING" /\ c.recovery.phase = "AWAITING" /\ ~found
    BY <1>1 DEF RecoveryAfter, RecoveryResult, NoRecovery, Recovery, SearchStarted,
                RecoveryActive, Pi
<1>4. c.requested = "IDLE" /\ c.recovery = NoRecovery =>
         result = "IDLE" /\ RecoveryAfter(r, result) = NoRecovery
    BY DEF RecoveryAfter, RecoveryResult, NoRecovery
<1>a. /\ RecoveryActive(RecoveryAfter(r, result)) =>
            RecoveryActive(c.recovery) \/ c.requested \in {"FOLLOWING", "ORBITING"}
      /\ result = "SEARCHING" => RecoveryActive(RecoveryAfter(r, result))
    BY <1>1 DEF RecoveryAfter, RecoveryResult, NoRecovery, Recovery, SearchStarted,
                RecoveryActive, Pi
<1>5. /\ c.requested \in SupervisorState /\ {"SEARCHING", "IDLE"} \subseteq SupervisorState
      /\ {"IDLE", c.requested} \subseteq Commanded
      /\ q \in BOOLEAN
    BY DEF Pi, Output, SupervisorState, Commanded
<1> DEFINE b == Wants(d, "IDLE", "IDLE", q)
           asks == ~world.sticks /\ PiInControl
<1>6. /\ result \in {"IDLE", "FOUND"} => e = Wants(d, c.requested, c.requested, q)
      /\ result = "SEARCHING" => e = Wants(d, c.requested, "SEARCHING", q)
      /\ result = "AWAITING" => e = Wants(d, c.requested, "IDLE", q)
      /\ result = "ASK_LAND" => e = Wants(d, c.requested, "IDLE", TRUE)
      /\ result = "RTL" => e = IF asks THEN AskMode(b, "RTL", "recovery") ELSE b
    <2>1. e = CASE result \in {"IDLE", "FOUND"} -> [d EXCEPT !.out.want = c.requested]
                [] result = "SEARCHING" -> [d EXCEPT !.out.want = "SEARCHING"]
                [] result = "AWAITING" -> [d EXCEPT !.out.want = "IDLE"]
                [] result = "ASK_LAND" -> [d EXCEPT !.out.want = "IDLE", !.out.question = TRUE]
                [] result = "RTL" ->
                      LET f == [d EXCEPT !.requested = "IDLE", !.out.want = "IDLE"]
                      IN  IF asks THEN AskMode(f, "RTL", "recovery") ELSE f
        BY DEF Recover
    <2>2. /\ [d EXCEPT !.out.want = c.requested] = Wants(d, c.requested, c.requested, q)
          /\ [d EXCEPT !.out.want = "SEARCHING"] = Wants(d, c.requested, "SEARCHING", q)
          /\ [d EXCEPT !.out.want = "IDLE"] = Wants(d, c.requested, "IDLE", q)
          /\ [d EXCEPT !.out.want = "IDLE", !.out.question = TRUE]
                = Wants(d, c.requested, "IDLE", TRUE)
          /\ [d EXCEPT !.requested = "IDLE", !.out.want = "IDLE"] = b
        <3>1. d \in Pi /\ d.requested = c.requested /\ d.out.question = q
            BY <1>2
        <3> HIDE DEF d, q
        <3>2. \A w, k : [d EXCEPT !.out.want = w, !.out.question = k] = Wants(d, c.requested, w, k)
            BY <3>1 DEF Wants, Pi
        <3>3. \A w : [d EXCEPT !.out.want = w] = Wants(d, c.requested, w, q)
            BY <3>1 DEF Wants, Pi, Output
        <3>4. [d EXCEPT !.requested = "IDLE", !.out.want = "IDLE"] = b
            BY <3>1 DEF Wants, Pi, Output, b
        <3> QED BY <3>2, <3>3, <3>4
    <2> HIDE DEF d, result, q, asks, b
    <2> QED BY <2>1, <2>2
<1> HIDE DEF d, result, r, found, lost, land, q, b, asks
<1>7. CASE result \in {"IDLE", "FOUND", "SEARCHING", "AWAITING", "ASK_LAND"}
    <2>1. PICK w \in SupervisorState, k \in BOOLEAN :
             /\ e = Wants(d, c.requested, w, k)
             /\ result = "ASK_LAND" => k = TRUE
             /\ result = "IDLE" => w = c.requested
             /\ w \in {c.requested, "IDLE"} \/ (w = "SEARCHING" /\ result = "SEARCHING")
        BY <1>5, <1>6, <1>7
    <2>2. LET f == Wants(d, c.requested, w, k)
          IN  /\ f \in Pi /\ SameSight(d, f)
              /\ f.requested = c.requested /\ f.out.want = w /\ f.out.question = k
              /\ f.takeoff = d.takeoff /\ f.recovery = d.recovery
              /\ f.out.takeoff = d.out.takeoff /\ f.out.holding = d.out.holding
              /\ SameControl(d, f) /\ SameFailsafe(d, f)
        <3>1. c.requested \in Commanded /\ d \in Pi
            BY <1>2, <1>5
        <3> QED BY <2>1, <3>1, WantsType
    <2>3. /\ e \in Pi /\ SameSight(d, e)
          /\ e.requested = c.requested /\ e.out.want = w /\ e.out.question = k
          /\ e.takeoff = d.takeoff /\ e.recovery = d.recovery
          /\ e.out.takeoff = d.out.takeoff /\ e.out.holding = d.out.holding
          /\ SameControl(d, e) /\ SameFailsafe(d, e)
        BY <2>1, <2>2
    <2>4. e.recovery.phase = "AWAITING" =>
             k \/ (c.recovery.phase = "AWAITING" /\ c.track.phase # "TRACKING")
        <3>1. e.recovery = RecoveryAfter(r, result)
            BY <1>2, <2>3
        <3>2. result = "ASK_LAND" => k
            BY <2>1
        <3>3. ~found => c.track.phase # "TRACKING"
            BY DEF found
        <3> QED BY <1>3, <3>1, <3>2, <3>3
    <2>5. SameSight(c, e) /\ SameControl(c, e) /\ SameFailsafe(c, e)
        BY <1>2, <2>3 DEF SameSight, SameControl, SameFailsafe
    <2> QED BY <1>2, <1>4, <1>a, <2>1, <2>3, <2>4, <2>5
<1>8. CASE result = "RTL"
    <2>1. /\ b \in Pi /\ SameSight(d, b)
          /\ b.takeoff = d.takeoff /\ b.recovery = d.recovery
          /\ b.out.takeoff = d.out.takeoff /\ b.out.holding = d.out.holding
          /\ SameControl(d, b) /\ SameFailsafe(d, b)
          /\ b.requested = "IDLE" /\ b.out.want = "IDLE"
        BY <1>2, <1>5, WantsType DEF b
    <2> DEFINE f == AskMode(b, "RTL", "recovery")
    <2>2. asks => /\ f \in Pi /\ SameCourse(b, f)
                  /\ f.track = b.track /\ f.dropped = b.dropped /\ f.recovery = b.recovery
                  /\ Unfired(b) => Unfired(f)
        <3>1. "RTL" \in Modes /\ "recovery" \in Why
            <4>1. {"GUIDED", "LOITER", "BRAKE", "RTL", "LAND"} \subseteq Modes
                BY CompanionAssumption
            <4> QED BY <4>1 DEF Why
        <3>2. asks => JustifiedOne("RTL", "recovery")
            BY DEF JustifiedOne, asks
        <3>3. f.out.asked = b.out.asked \cup {<<"RTL", "recovery">>}
            BY <2>1, <3>1, AskModeType
        <3> QED BY <2>1, <3>1, <3>2, <3>3, AskModeType DEF Unfired
    <2> HIDE DEF f
    <2>3. e = b \/ (asks /\ e = f)
        BY <1>6, <1>8 DEF f
    <2>4. /\ e \in Pi /\ SameSight(b, e) /\ e.takeoff = b.takeoff
          /\ e.out.takeoff = b.out.takeoff /\ e.out.holding = b.out.holding
          /\ e.recovery = b.recovery /\ SameControl(b, e) /\ SameFailsafe(b, e)
          /\ e.requested = "IDLE" /\ e.out.want = "IDLE"
        BY <2>1, <2>2, <2>3 DEF SameSight, SameCourse, SameControl, SameFailsafe
    <2>5. SameSight(c, e) /\ SameControl(c, e) /\ SameFailsafe(c, e)
        BY <1>2, <2>1, <2>4 DEF SameSight, SameControl, SameFailsafe
    <2> QED BY <1>2, <1>3, <1>4, <1>8, <1>a, <2>1, <2>4, <2>5
<1> QED BY <1>1, <1>7, <1>8 DEF Recovered

\* Auto-takeoff.  A climb is held, and no takeoff starts by itself.
Climbed(c, e) ==
    /\ e \in Pi /\ SameSight(c, e) /\ SameControl(c, e) /\ SameFailsafe(c, e)
    /\ e.recovery = c.recovery /\ e.out.question = c.out.question
    /\ e.requested \in {c.requested, "IDLE"}
    /\ \/ e.out.want = "IDLE"
       \/ e.out.want = c.out.want /\ e.requested = c.requested
    /\ TakeoffActive(e.takeoff) => e.out.holding
    /\ \/ TakeoffActive(c.takeoff)
       \/ /\ ~TakeoffActive(e.takeoff)
          /\ e.out.holding = c.out.holding /\ e.out.takeoff = c.out.takeoff
    /\ e.out.takeoff => c.out.takeoff \/ e.out.holding
    /\ e.takeoff.phase = "CLIMBING" => e.out.holding
    /\ c.takeoff = NoTakeoff =>
          /\ e.takeoff = NoTakeoff /\ e.out.takeoff = c.out.takeoff
          /\ e.requested = c.requested /\ e.out.want = c.out.want

LEMMA ClimbStage ==
    ASSUME world \in World, NEW c \in Pi, NEW o \in Observation,
           NEW e, e = Climb(c, o)
    PROVE  Climbed(c, e)
<1> USE DEF Climbed
<1> DEFINE action == TakeoffAction(c.takeoff, o.dt, world.armed, Guided, world.high)
           t == TakeoffAfter(c.takeoff, o.dt, action)
           u == IF o.written THEN t ELSE TakeoffRetried(t)
           toIdle == [c EXCEPT !.takeoff = NoTakeoff, !.requested = "IDLE", !.out.want = "IDLE"]
<1>1. /\ action \in {"none", "timed_out", "hold", "ready", "send_takeoff"}
      /\ t \in Takeoff /\ TakeoffRetried(t) \in Takeoff /\ NoTakeoff \in Takeoff
      /\ TakeoffActive(t) => action \in {"hold", "send_takeoff"}
      /\ ~TakeoffActive(c.takeoff) => action = "none" /\ t = c.takeoff
    <2>1. /\ c.takeoff \in Takeoff /\ o.dt \in {0, 1} /\ world.armed \in BOOLEAN
          /\ Guided \in BOOLEAN /\ world.high \in BOOLEAN
        BY DEF Pi, Observation, World, Guided
    <2>2. action = "none" => t = c.takeoff
        BY DEF TakeoffAfter
    <2>3. action \in {"none", "timed_out", "hold", "ready", "send_takeoff"}
        BY DEF TakeoffAction, action
    <2> HIDE DEF action
    <2>4. t \in Takeoff
        BY <2>1, <2>3, TakeoffTypes
    <2>5. TakeoffRetried(t) \in Takeoff /\ NoTakeoff \in Takeoff
        <3> HIDE DEF t
        <3> QED BY <2>1, <2>3, <2>4, TakeoffTypes
    <2>6. TakeoffActive(t) => action \in {"hold", "send_takeoff"}
        BY <2>1, <2>3 DEF Takeoff, TakeoffAfter, NoTakeoff, TakeoffAction, TakeoffActive, action
    <2>7. ~TakeoffActive(c.takeoff) => action = "none"
        BY DEF TakeoffAction, action
    <2> QED BY <2>2, <2>3, <2>4, <2>5, <2>6, <2>7
<1>2. c.out \in Output /\ o.written \in BOOLEAN
    BY DEF Pi, Observation
<1>3. u \in Takeoff
    BY <1>1
<1>4. CASE action \in {"timed_out", "send_takeoff"} /\ e = toIdle
    <2> DEFINE d == Wants(c, "IDLE", "IDLE", c.out.question)
    <2>1. /\ "IDLE" \in Commanded /\ "IDLE" \in SupervisorState
          /\ c.out.question \in BOOLEAN
        BY <1>2 DEF Commanded, SupervisorState, Output
    <2>2. /\ d \in Pi /\ SameSight(c, d) /\ d.recovery = c.recovery
          /\ d.out.question = c.out.question /\ d.out.takeoff = c.out.takeoff
          /\ SameControl(c, d) /\ SameFailsafe(c, d)
          /\ d.requested = "IDLE" /\ d.out.want = "IDLE"
        BY <2>1, WantsType
    <2>3. e = [d EXCEPT !.takeoff = NoTakeoff]
        <3>1. [c EXCEPT !.requested = "IDLE", !.out.want = "IDLE"] = d
            <4> HIDE DEF d
            <4> QED BY <2>1, WantsForms DEF d
        <3>2. e = [c EXCEPT !.requested = "IDLE", !.takeoff = NoTakeoff,
                            !.out = [c.out EXCEPT !.want = "IDLE"]]
            BY <1>4 DEF Pi
        <3>3. [c.out EXCEPT !.want = "IDLE", !.question = c.out.question]
                = [c.out EXCEPT !.want = "IDLE"]
            BY <1>2 DEF Output
        <3>4. d = [c EXCEPT !.requested = "IDLE", !.out = [c.out EXCEPT !.want = "IDLE"]]
            BY <3>3 DEF Wants
        <3> DEFINE w == [c.out EXCEPT !.want = "IDLE"]
        <3> HIDE DEF w, d
        <3> QED BY <3>2, <3>4 DEF Pi, w
    <2> HIDE DEF d
    <2>4. e \in Pi /\ SameSight(d, e) /\ e.recovery = d.recovery /\ e.out = d.out
          /\ e.takeoff = NoTakeoff /\ e.requested = d.requested
          /\ SameControl(d, e) /\ SameFailsafe(d, e)
        BY <1>1, <2>2, <2>3 DEF Pi, SameSight, SameControl, SameFailsafe, Unfired
    <2>5. SameSight(c, e) /\ SameControl(c, e) /\ SameFailsafe(c, e)
        BY <2>2, <2>4 DEF SameSight, SameControl, SameFailsafe
    <2>6. TakeoffActive(c.takeoff) /\ ~TakeoffActive(e.takeoff)
        BY <1>1, <1>4, <2>4 DEF NoTakeoff, TakeoffActive
    <2> QED BY <2>2, <2>4, <2>5, <2>6 DEF NoTakeoff, TakeoffActive
<1> DEFINE hold == [c.out EXCEPT !.holding = TRUE]
           sent == [c.out EXCEPT !.takeoff = o.written, !.holding = TRUE]
<1>5. /\ hold \in Output /\ hold.frame = c.out.frame /\ hold.written = c.out.written
      /\ hold.asked = c.out.asked /\ hold.question = c.out.question /\ hold.holding
      /\ hold.want = c.out.want /\ hold.takeoff = c.out.takeoff
      /\ sent \in Output /\ sent.frame = c.out.frame /\ sent.written = c.out.written
      /\ sent.asked = c.out.asked /\ sent.question = c.out.question /\ sent.holding
      /\ sent.want = c.out.want
    BY <1>2 DEF Output
<1>c. c.takeoff = NoTakeoff => ~TakeoffActive(c.takeoff)
    BY DEF TakeoffActive, NoTakeoff
<1>6. CASE action = "send_takeoff" /\ e = [c EXCEPT !.takeoff = u, !.out = sent]
    <2> HIDE DEF action, t, u, sent
    <2>1. /\ e \in Pi /\ e.out = sent /\ e.takeoff = u /\ e.requested = c.requested
          /\ e.recovery = c.recovery /\ SameSight(c, e) /\ SameControl(c, e)
          /\ SameFailsafe(c, e)
        BY <1>3, <1>5, <1>6 DEF Pi, SameSight, SameControl, SameFailsafe, Unfired
    <2>2. TakeoffActive(c.takeoff)
        BY <1>1, <1>6
    <2> QED BY <1>5, <1>c, <2>1, <2>2
<1>7. CASE action = "hold" /\ e = [c EXCEPT !.takeoff = t, !.out = hold]
    <2> HIDE DEF action, t, hold
    <2>1. /\ e \in Pi /\ e.out = hold /\ e.takeoff = t /\ e.requested = c.requested
          /\ e.recovery = c.recovery /\ SameSight(c, e) /\ SameControl(c, e)
          /\ SameFailsafe(c, e)
        BY <1>1, <1>5, <1>7 DEF Pi, SameSight, SameControl, SameFailsafe, Unfired
    <2>2. TakeoffActive(c.takeoff)
        BY <1>1, <1>7
    <2> QED BY <1>5, <1>c, <2>1, <2>2
<1>8. CASE action \in {"ready", "none"} /\ e = [c EXCEPT !.takeoff = t]
    <2> HIDE DEF action, t
    <2>1. /\ e \in Pi /\ e.out = c.out /\ e.takeoff = t /\ e.requested = c.requested
          /\ e.recovery = c.recovery /\ SameSight(c, e) /\ SameControl(c, e)
          /\ SameFailsafe(c, e)
        BY <1>1, <1>8 DEF Pi, SameSight, SameControl, SameFailsafe, Unfired
    <2>2. ~TakeoffActive(t)
        BY <1>1, <1>8
    <2>3. t.phase # "CLIMBING"
        BY <2>2 DEF TakeoffActive
    <2> QED BY <1>1, <1>c, <2>1, <2>2, <2>3
<1>9. \/ action \in {"timed_out", "send_takeoff"} /\ e = toIdle
      \/ action = "send_takeoff" /\ e = [c EXCEPT !.takeoff = u, !.out = sent]
      \/ action = "hold" /\ e = [c EXCEPT !.takeoff = t, !.out = hold]
      \/ action \in {"ready", "none"} /\ e = [c EXCEPT !.takeoff = t]
    <2>1. e = CASE action = "send_takeoff" /\ TakeoffRefused -> toIdle
                [] action = "send_takeoff" /\ ~TakeoffRefused ->
                      [c EXCEPT !.takeoff = u, !.out.takeoff = o.written, !.out.holding = TRUE]
                [] action = "hold" -> [c EXCEPT !.takeoff = t, !.out.holding = TRUE]
                [] action = "timed_out" -> toIdle
                [] action \in {"ready", "none"} -> [c EXCEPT !.takeoff = t]
        BY DEF Climb
    <2>2. /\ [c EXCEPT !.takeoff = u, !.out.takeoff = o.written, !.out.holding = TRUE]
                = [c EXCEPT !.takeoff = u, !.out = sent]
          /\ [c EXCEPT !.takeoff = t, !.out.holding = TRUE]
                = [c EXCEPT !.takeoff = t, !.out = hold]
        <3> HIDE DEF t, u
        <3> QED BY <1>2 DEF Pi, Output
    <2> HIDE DEF action, t, u, hold, sent, toIdle
    <2> QED BY <1>1, <2>1, <2>2
<1> HIDE DEF action, t, u, hold, sent, toIdle
<1> QED BY <1>4, <1>6, <1>7, <1>8, <1>9 DEF Climbed

\* _update_failsafe_rtl.  It asks for RTL only where it may, and only ends things.
Failsafed(c, e) ==
    /\ e \in Pi /\ SameSight(c, e)
    /\ e.recovery = c.recovery /\ e.out.question = c.out.question
    /\ e.out.holding = c.out.holding /\ e.out.takeoff = c.out.takeoff
    /\ e.out.want = c.out.want
    /\ e.takeoff \in {c.takeoff, NoTakeoff}
    /\ e.requested \in {c.requested, "IDLE"}
    /\ SameControl(c, e)
    /\ \/ e.requested = c.requested /\ (Unfired(c) => Unfired(e))
       \/ ~c.latched /\ e.latched /\ (~world.comms \/ Critical)
    /\ c.latched => e.latched \/ (e.lostFor <= RtlAfter /\ ~Critical)

LEMMA FailsafeStage ==
    ASSUME world \in World, NEW c \in Pi, NEW o \in Observation,
           NEW e, e = Failsafe(c, o)
    PROVE  Failsafed(c, e)
<1> DEFINE d == [c EXCEPT !.lostFor = LostFor(c, o)]
           f == AskMode(d, "RTL", "failsafe")
           g == [f EXCEPT !.latched = TRUE, !.requested = "IDLE", !.takeoff = NoTakeoff]
           h == [d EXCEPT !.latched = FALSE]
<1>1. /\ d \in Pi /\ SameSight(c, d) /\ d.recovery = c.recovery /\ d.out = c.out
      /\ d.takeoff = c.takeoff /\ d.requested = c.requested
      /\ SameControl(c, d) /\ d.latched = c.latched
      /\ world.comms => d.lostFor <= RtlAfter
    <2>1. LostFor(c, o) \in 0 .. RtlAfter + 1 /\ (world.comms => LostFor(c, o) <= RtlAfter)
        BY CompanionAssumption DEF LostFor, Pi, Observation
    <2> QED BY <2>1 DEF Pi, SameSight, SameControl
<1>2. /\ h \in Pi /\ SameSight(d, h) /\ h.recovery = d.recovery /\ h.out = d.out
      /\ h.takeoff = d.takeoff /\ h.requested = d.requested
      /\ SameControl(d, h) /\ h.lostFor = d.lostFor
    <2> HIDE DEF d
    <2> QED BY <1>1 DEF Pi, SameSight, SameControl
<1> HIDE DEF d, h
<1>3. ASSUME PiInControl, ~world.sticks
      PROVE  /\ g \in Pi /\ SameSight(d, g) /\ g.recovery = d.recovery
             /\ g.out.question = d.out.question /\ g.out.holding = d.out.holding
             /\ g.out.takeoff = d.out.takeoff /\ g.out.want = d.out.want
             /\ g.takeoff = NoTakeoff /\ g.requested = "IDLE"
             /\ SameControl(d, g) /\ g.latched
    <2>1. "RTL" \in Modes /\ "failsafe" \in Why
        <3>1. {"GUIDED", "LOITER", "BRAKE", "RTL", "LAND"} \subseteq Modes
            BY CompanionAssumption
        <3> QED BY <3>1 DEF Why
    <2>2. JustifiedOne("RTL", "failsafe")
        BY <1>3 DEF JustifiedOne
    <2>3. /\ f \in Pi /\ SameCourse(d, f)
          /\ f.track = d.track /\ f.dropped = d.dropped /\ f.recovery = d.recovery
        BY <1>1, <2>1, <2>2, AskModeType
    <2>4. NoTakeoff \in Takeoff /\ "IDLE" \in Commanded
        BY TakeoffAssumption DEF Takeoff, NoTakeoff, Commanded
    <2> HIDE DEF f
    <2>5. /\ g \in Pi /\ g.recovery = f.recovery /\ g.out = f.out /\ g.stops = f.stops
          /\ g.track = f.track /\ g.dropped = f.dropped
          /\ g.takeoff = NoTakeoff /\ g.requested = "IDLE"
          /\ g.approach = f.approach /\ g.grid = f.grid /\ g.latched
        BY <2>3, <2>4 DEF Pi
    <2> QED BY <2>3, <2>5 DEF SameCourse, SameSight, SameControl
<1> DEFINE calm == d.lostFor <= RtlAfter /\ ~Critical
<1>4. \/ calm /\ e = h
      \/ e = d
      \/ ~calm /\ ~d.latched /\ PiInControl /\ ~world.sticks /\ e = g
    BY DEF Failsafe, Latched, d, h
<1>5. ~calm => ~world.comms \/ Critical
    BY <1>1
<1> HIDE DEF f, g
<1>6. CASE e = h /\ calm
    BY <1>1, <1>2, <1>6 DEF SameSight, SameControl, Unfired, Failsafed
<1>7. CASE e = d
    BY <1>1, <1>7 DEF SameSight, SameControl, Unfired, Failsafed
<1>8. CASE ~calm /\ ~d.latched /\ PiInControl /\ ~world.sticks /\ e = g
    <2> HIDE DEF calm
    <2> QED BY <1>1, <1>3, <1>5, <1>8 DEF SameSight, SameControl, Failsafed
<1> QED BY <1>4, <1>6, <1>7, <1>8

\* A motion the dispatch computes: when, by whom, and towards whom.
LEMMA CommandType ==
    ASSUME NEW c \in Pi, NEW o \in Observation, NEW s \in SupervisorState,
           NEW m, m = CommandOf(c, o, s)
    PROVE  /\ m \in {"none", "zero", "move"}
           /\ m = "move" /\ s \in TargetModes =>
                 /\ HasTarget(c.track) /\ c.track.unseen < HoldAfter
                 /\ ~c.dropped \/ c.track.phase = "TRACKING"
           /\ m = "move" /\ s = "APPROACHING" => ~world.fence
<1>1. CASE s = "APPROACHING"
    <2> DEFINE in == ApproachInput(c, o)
    <2>1. m = ApproachCommand(c.approach, in)
        BY <1>1 DEF CommandOf
    <2>2. /\ in.range \in {"near", "far", "none"} /\ in.fence = world.fence
          /\ in.tracked = (c.track.phase = "TRACKING" /\ SeenRecently(c))
        BY DEF ApproachInput, Observation
    <2> HIDE DEF in
    <2>3. m \in {"none", "zero", "move"} /\ (m = "move" => ~MustAbort(in))
        BY <2>1, <2>2 DEF ApproachCommand, ApproachAfter
    <2> QED BY <1>1, <2>2, <2>3 DEF MustAbort, SeenRecently
<1>2. CASE s \in {"FOLLOWING", "ORBITING"}
    BY <1>2 DEF CommandOf, SeenRecently
<1>3. CASE s \notin TargetModes
    BY <1>3 DEF CommandOf, TargetModes
<1> QED BY <1>1, <1>2, <1>3 DEF TargetModes

\* The guidance dispatch: a motion passes every gate.
Dispatched(c, o, e) ==
    /\ e \in Pi /\ SameSight(c, e)
    /\ e.recovery = c.recovery /\ e.out.question = c.out.question
    /\ e.out.holding = c.out.holding /\ e.out.takeoff = c.out.takeoff
    /\ e.takeoff = c.takeoff /\ SameFailsafe(c, e)
    /\ e.requested \in {c.requested, "IDLE"}
    /\ e.out.setpoint = "move" => e.requested = c.requested
    /\ e.approach = "APPROACHING" => c.approach = "APPROACHING"
    /\ (e.out.by = "APPROACHING" /\ ~c.out.holding /\ ~world.ground
        /\ MustAbort(ApproachInput(c, o))) => e.approach # "APPROACHING"
    /\ e.out.by = "APPROACHING" /\ e.out.setpoint = "move" => e.approach = "APPROACHING"
    /\ e.out.holding => e.out.setpoint = "none"
    /\ c.out.want = "IDLE" => e.out.setpoint = "none"
    /\ e.out.setpoint = "move" =>
          /\ ~Withheld(ConditionsOf(c, o)) /\ e.out.by = c.out.want
          /\ e.out.by \in GuidedModes \cup {"SEARCHING"}
          /\ ~world.ground
          /\ e.out.by = "APPROACHING" => ~world.fence
          /\ e.out.by \in TargetModes =>
                /\ HasTarget(c.track) /\ c.track.unseen < HoldAfter
                /\ ~c.dropped \/ c.track.phase = "TRACKING"

LEMMA DispatchStage ==
    ASSUME world \in World, NEW c \in Pi, NEW o \in Observation,
           NEW e, e = Dispatch(c, o)
    PROVE  Dispatched(c, o, e)
<1> DEFINE s == Decision(ConditionsOf(c, o))
           allowed == GuidanceAllowed(ConditionsOf(c, o))
           runs == ~c.out.holding /\ ~(allowed /\ world.ground)
           m == CommandOf(c, o, s)
           command == IF runs /\ allowed THEN m ELSE "none"
           grid == IF runs /\ s = "GRID_SEARCH" THEN GridAfter(c, o) ELSE c.grid
           a == IF runs /\ s = "APPROACHING"
                THEN ApproachAfter(c.approach, ApproachInput(c, o)) ELSE c.approach
           n == IF runs /\ s = "GRID_SEARCH" /\ grid = "FINISHED" THEN "IDLE" ELSE c.requested
           p == IF o.written THEN command ELSE "none"
           out == [c.out EXCEPT !.setpoint = p, !.by = s]
<1>1. e = [c EXCEPT !.approach = a, !.grid = grid, !.requested = n, !.out = out]
    BY DEF Dispatch, Pi
<1>2. s \in SupervisorState /\ (~Withheld(ConditionsOf(c, o)) => s = c.out.want)
      /\ (Withheld(ConditionsOf(c, o)) => s = "SAFE")
    BY DEF Decision, ConditionsOf, SupervisorState, Pi, Output
<1>3. allowed <=> s \in GuidedModes \cup {"SEARCHING"}
    BY DEF GuidanceAllowed
<1>4. a \in ApproachState /\ grid \in {"IDLE", "SEARCHING", "FINISHED"} /\ n \in Commanded
    <2>1. ApproachAfter(c.approach, ApproachInput(c, o)) \in ApproachState
        BY DEF ApproachAfter, ApproachInput, ApproachState, Pi, Observation
    <2>2. GridAfter(c, o) \in {"IDLE", "SEARCHING", "FINISHED"}
        BY DEF GridAfter, Pi
    <2>3. c.approach \in ApproachState /\ c.grid \in {"IDLE", "SEARCHING", "FINISHED"}
          /\ c.requested \in Commanded /\ "IDLE" \in Commanded
        BY DEF Pi, Commanded
    <2> QED BY <2>1, <2>2, <2>3
<1>5. n \in {c.requested, "IDLE"}
    OBVIOUS
<1> HIDE DEF s
<1>a. /\ a = "APPROACHING" => c.approach = "APPROACHING"
      /\ s = "APPROACHING" /\ runs /\ MustAbort(ApproachInput(c, o)) => a # "APPROACHING"
      /\ s = "APPROACHING" /\ runs /\ m = "move" => a = "APPROACHING"
    <2> DEFINE in == ApproachInput(c, o)
    <2>1. in.range \in {"near", "far", "none"}
        BY DEF ApproachInput, Observation
    <2>2. s = "APPROACHING" => m = ApproachCommand(c.approach, in)
        BY DEF CommandOf
    <2> HIDE DEF in, m, runs
    <2>3. a = IF runs /\ s = "APPROACHING" THEN ApproachAfter(c.approach, in) ELSE c.approach
        BY DEF in
    <2> HIDE DEF a
    <2>4. /\ ApproachAfter(c.approach, in) = "APPROACHING" =>
                c.approach = "APPROACHING" /\ ~MustAbort(in)
          /\ ApproachCommand(c.approach, in) = "move" =>
                ApproachAfter(c.approach, in) = "APPROACHING"
        BY <2>1 DEF ApproachAfter, ApproachCommand
    <2> QED BY <2>2, <2>3, <2>4 DEF in
<1>b. m = "move" /\ s = "GRID_SEARCH" => n = c.requested
    BY DEF CommandOf, GridAfter, GridRuns
<1>c. ~c.out.holding /\ ~world.ground => runs
    OBVIOUS
<1>d. s # "GRID_SEARCH" => n = c.requested
    OBVIOUS
<1>6. /\ m \in {"none", "zero", "move"}
      /\ m = "move" /\ s \in TargetModes =>
            /\ HasTarget(c.track) /\ c.track.unseen < HoldAfter
            /\ ~c.dropped \/ c.track.phase = "TRACKING"
      /\ m = "move" /\ s = "APPROACHING" => ~world.fence
    BY <1>2, CommandType
<1> HIDE DEF allowed, m, grid, a, n
<1>7. p \in {"none", "zero", "move"} /\ (p # "none" => runs /\ allowed /\ p = m)
    BY <1>6
<1>8. p # "none" => ~c.out.holding /\ ~world.ground /\ ~Withheld(ConditionsOf(c, o))
                    /\ s \in GuidedModes \cup {"SEARCHING"} /\ s = c.out.want
    BY <1>2, <1>3, <1>7 DEF GuidedModes, Commanded
<1>9. c.out.want = "IDLE" => p = "none"
    BY <1>8 DEF GuidedModes
<1> HIDE DEF p, runs, command
<1>10. c.out \in Output
    BY DEF Pi
<1>11. /\ out \in Output /\ out.setpoint = p /\ out.by = s
       /\ out.frame = c.out.frame /\ out.written = c.out.written /\ out.asked = c.out.asked
       /\ out.question = c.out.question /\ out.holding = c.out.holding
       /\ out.takeoff = c.out.takeoff
    BY <1>2, <1>7, <1>10 DEF Output
<1> HIDE DEF out
<1>12. /\ e \in Pi /\ e.out = out /\ SameSight(c, e) /\ e.requested = n
       /\ e.recovery = c.recovery /\ e.takeoff = c.takeoff /\ SameFailsafe(c, e)
       /\ e.approach = a
    BY <1>1, <1>4, <1>11 DEF Pi, SameSight, SameFailsafe, Unfired
<1>13. out.setpoint = "move" => p = m /\ p = "move" /\ s = c.out.want /\ runs
    BY <1>7, <1>8, <1>11
<1>14. /\ e.out.setpoint = "move" => e.requested = c.requested
       /\ e.approach = "APPROACHING" => c.approach = "APPROACHING"
       /\ (e.out.by = "APPROACHING" /\ ~c.out.holding /\ ~world.ground
           /\ MustAbort(ApproachInput(c, o))) => e.approach # "APPROACHING"
       /\ e.out.by = "APPROACHING" /\ e.out.setpoint = "move" => e.approach = "APPROACHING"
    BY <1>a, <1>b, <1>c, <1>d, <1>11, <1>12, <1>13
<1> QED BY <1>5, <1>6, <1>8, <1>9, <1>11, <1>12, <1>13, <1>14 DEF Dispatched

\* _enforce_stop_after_guidance.  A motion leaves stops to send, and while they are
\* owed a silent frame is one that could not write, or that holds for a takeoff.
StopEnforced(c, o, e) ==
    /\ e \in Pi /\ e.track = c.track /\ e.dropped = c.dropped
    /\ e.recovery = c.recovery /\ e.takeoff = c.takeoff /\ e.requested = c.requested
    /\ e.out.asked = c.out.asked /\ e.out.frame = c.out.frame
    /\ e.out.written = c.out.written /\ e.out.question = c.out.question
    /\ e.out.holding = c.out.holding /\ e.out.takeoff = c.out.takeoff
    /\ SameFailsafe(c, e) /\ e.approach = c.approach
    /\ e.out.by \in {c.out.by, "STOP"}
    /\ e.out.setpoint = "move" => c.out.setpoint = "move" /\ e.out.by = c.out.by
    /\ c.out.holding /\ c.out.setpoint = "none" => e.out.setpoint = "none"
    /\ e.out.setpoint = "move" => e.stops > 0
    /\ e.out.setpoint = "none" /\ c.stops > 0 /\ Guided =>
          /\ e.stops > 0
          /\ c.out.holding \/ ~o.written

LEMMA EnforceStopStage ==
    ASSUME world \in World, NEW c \in Pi, NEW o \in Observation,
           NEW e, e = EnforceStop(c, o)
    PROVE  StopEnforced(c, o, e)
<1> USE DEF StopEnforced
<1> DEFINE sent == [c EXCEPT !.stops = IF c.out.setpoint = "move" THEN StopRepeats ELSE 0]
           none == [c EXCEPT !.stops = 0]
           out == [c.out EXCEPT !.setpoint = "zero", !.by = "STOP"]
           stop == [c EXCEPT !.stops = c.stops - 1, !.out = out]
<1>1. /\ StopRepeats \in 0 .. StopRepeats /\ 0 \in 0 .. StopRepeats /\ StopRepeats > 0
      /\ c.stops # 0 => c.stops - 1 \in 0 .. StopRepeats
      /\ c.stops > 0 <=> c.stops # 0
    BY CompanionAssumption DEF Pi
<1>2. c.out \in Output
    BY DEF Pi
<1>3. /\ out \in Output /\ out.setpoint = "zero"
      /\ out.frame = c.out.frame /\ out.written = c.out.written /\ out.asked = c.out.asked
      /\ out.question = c.out.question /\ out.holding = c.out.holding
      /\ out.takeoff = c.out.takeoff /\ out.by = "STOP"
    BY <1>2 DEF Output
<1>4. \/ c.out.setpoint # "none" /\ e = sent
      \/ c.out.setpoint = "none" /\ (c.stops = 0 \/ c.out.holding) /\ e = c
      \/ c.out.setpoint = "none" /\ c.stops # 0 /\ ~c.out.holding /\ ~Guided /\ e = none
      \/ c.out.setpoint = "none" /\ c.stops # 0 /\ ~c.out.holding /\ Guided /\ ~o.written /\ e = c
      \/ c.out.setpoint = "none" /\ c.stops # 0 /\ ~c.out.holding /\ Guided /\ e = stop
    BY DEF EnforceStop, Deferred, Pi
<1> HIDE DEF out
<1> USE DEF SameFailsafe, Unfired
<1>5. CASE c.out.setpoint # "none" /\ e = sent
    BY <1>1, <1>5 DEF Pi
<1>6. CASE c.out.setpoint = "none" /\ (c.stops = 0 \/ c.out.holding) /\ e = c
    BY <1>1, <1>6
<1>7. CASE c.out.setpoint = "none" /\ ~c.out.holding /\ ~Guided /\ e = none
    BY <1>1, <1>7 DEF Pi
<1>8. CASE c.out.setpoint = "none" /\ ~o.written /\ e = c
    BY <1>1, <1>8
<1>9. CASE c.out.setpoint = "none" /\ c.stops # 0 /\ ~c.out.holding /\ e = stop
    BY <1>1, <1>3, <1>9 DEF Pi
<1> QED BY <1>4, <1>5, <1>6, <1>7, <1>8, <1>9 DEF StopEnforced

-----------------------------------------------------------------------------
(* The whole frame. *)

\* A box that is tracked after the identity check has not been given up.
LEMMA TrackedIsNotDropped ==
    ASSUME NEW c \in Pi, NEW o \in Observation
    PROVE  Identify(c, o).track.phase = "TRACKING" => ~Identify(c, o).dropped
<1> DEFINE tracking == c.track.phase = "TRACKING"
           d == IF tracking THEN [c EXCEPT !.dropped = FALSE] ELSE c
<1>1. d \in Pi /\ (tracking => ~d.dropped) /\ d.track = c.track
    BY DEF Pi
<1>2. \/ Identify(c, o) = [d EXCEPT !.mismatch = 0]
      \/ tracking /\ Identify(c, o) \in {Verify(d, o), d}
    BY DEF Identify
<1> HIDE DEF d
<1>3. CASE Identify(c, o) = [d EXCEPT !.mismatch = 0]
    BY <1>1, <1>3 DEF Pi
<1>4. CASE tracking /\ Identify(c, o) = d
    BY <1>1, <1>4
<1>5. CASE tracking /\ Identify(c, o) = Verify(d, o)
    <2>1. \/ Verify(d, o).dropped = d.dropped
          \/ Verify(d, o).track = Dropped(d.track)
        BY <1>1 DEF Verify, Relock, Pi
    <2>2. Dropped(d.track).phase # "TRACKING"
        BY <1>1 DEF Dropped, Pi, Track
    <2> QED BY <1>1, <1>5, <2>1, <2>2
<1> QED BY <1>2, <1>3, <1>4, <1>5

\* The stages up to the identity check only look.
LEMMA LookingStages ==
    ASSUME world \in World, NEW c \in Pi, NEW o \in Observation,
           NEW e, e = Identify(Rematch(TrackTarget(
                          Select(Perceive(ResolveMode(c, o), o), o), o), o), o)
    PROVE  /\ e \in Pi /\ SameCourse(c, e)
           /\ e.recovery = Searching(c.recovery, o.dt)
           /\ e.track.phase = "TRACKING" => ~e.dropped
<1> DEFINE c1 == ResolveMode(c, o)
           c2 == Perceive(c1, o)
           c3 == Select(c2, o)
           c4 == TrackTarget(c3, o)
           c5 == Rematch(c4, o)
<1>1. c1 \in Pi /\ SameCourse(c, c1) /\ c1.recovery = c.recovery
    BY ResolveModeStage
<1> HIDE DEF c1
<1>2. c2 \in Pi /\ SameCourse(c1, c2) /\ c2.recovery = Searching(c1.recovery, o.dt)
    BY <1>1, PerceiveStage
<1> HIDE DEF c2
<1>3. c3 \in Pi /\ SameCourse(c2, c3) /\ c3.recovery = c2.recovery
    BY <1>2, SelectStage
<1> HIDE DEF c3
<1>4. c4 \in Pi /\ SameCourse(c3, c4) /\ c4.recovery = c3.recovery
    BY <1>3, TrackTargetStage
<1> HIDE DEF c4
<1>5. c5 \in Pi /\ SameCourse(c4, c5) /\ c5.recovery = c4.recovery
    BY <1>4, RematchStage
<1> HIDE DEF c5
<1>6. e = Identify(c5, o)
    BY DEF c1, c2, c3, c4, c5
<1>7. e \in Pi /\ SameCourse(c5, e) /\ e.recovery = c5.recovery
    BY <1>5, <1>6, IdentifyStage
<1>8. e.track.phase = "TRACKING" => ~e.dropped
    BY <1>5, <1>6, TrackedIsNotDropped
<1> QED BY <1>1, <1>2, <1>3, <1>4, <1>5, <1>7, <1>8 DEF SameCourse

\* They ask for flight modes, but not for the failsafe's.
LEMMA LookingIsUnfired ==
    ASSUME world \in World, NEW c \in Pi, NEW o \in Observation, Unfired(c),
           NEW e, e = Identify(Rematch(TrackTarget(
                          Select(Perceive(ResolveMode(c, o), o), o), o), o), o)
    PROVE  Unfired(e) /\ Unfired(HandBack(e))
<1> DEFINE c1 == ResolveMode(c, o)
           c2 == Perceive(c1, o)
           c3 == Select(c2, o)
           c4 == TrackTarget(c3, o)
           c5 == Rematch(c4, o)
<1>1. c1 \in Pi /\ Unfired(c1)
    <2> DEFINE p == IF o.dt = 0 THEN c.mode ELSE Older(c.mode)
    <2>1. c1.out = c.out \/ c1.out = Asking(c.out, p.mode, "retry")
        BY DEF ResolveMode, Pi
    <2>2. Asking(c.out, p.mode, "retry").asked = c.out.asked \cup {<<p.mode, "retry">>}
        BY DEF Asking, Pi, Output
    <2> HIDE DEF p
    <2>3. <<"RTL", "failsafe">> # <<p.mode, "retry">>
        OBVIOUS
    <2>4. Unfired(c1)
        <3> HIDE DEF c1
        <3> QED BY <2>1, <2>2, <2>3 DEF Unfired
    <2> QED BY <2>4, ResolveModeStage
<1> HIDE DEF c1
<1>2. c2 \in Pi /\ c2.out = c1.out
    BY <1>1, PerceiveStage DEF Perceive, Pi
<1> HIDE DEF c2
<1>3. \A d \in Pi : Relock(d, o).out = d.out
    BY DEF Relock, Pi
<1>4. c3 \in Pi /\ c3.out = c2.out
    <2>1. /\ Relock(c2, o) \in Pi /\ Relock(c2, o).out = c2.out
        BY <1>2, <1>3, RelockStage
    <2>2. c3 \in {c2, [c2 EXCEPT !.selection = FALSE],
                  [Relock(c2, o) EXCEPT !.mismatch = 0, !.selection = FALSE]}
        BY DEF Select
    <2>3. \A d \in Pi : /\ [d EXCEPT !.selection = FALSE].out = d.out
                        /\ [d EXCEPT !.mismatch = 0, !.selection = FALSE].out = d.out
        BY DEF Pi
    <2>4. c3 \in Pi
        BY <1>2, SelectStage
    <2> HIDE DEF c3
    <2> QED BY <1>2, <2>1, <2>2, <2>3, <2>4
<1> HIDE DEF c3
<1>5. c4 \in Pi /\ c4.out = c3.out
    BY <1>4, TrackTargetStage DEF TrackTarget, Pi
<1> HIDE DEF c4
<1>6. c5 \in Pi /\ c5.out = c4.out
    BY <1>3, <1>5, RematchStage DEF Rematch
<1> HIDE DEF c5
<1>7. e = Identify(c5, o)
    BY DEF c1, c2, c3, c4, c5
<1>8. e \in Pi
    BY <1>6, <1>7, IdentifyStage
<1>9. \A d \in Pi : Verify(d, o).out = d.out
    BY <1>3, RelockStage DEF Verify, Pi
<1>10. e.out = c5.out
    <2> DEFINE d == IF c5.track.phase = "TRACKING" THEN [c5 EXCEPT !.dropped = FALSE] ELSE c5
    <2>1. d \in Pi /\ d.out = c5.out
        BY <1>6 DEF Pi
    <2>2. e \in {[d EXCEPT !.mismatch = 0], Verify(d, o), d}
        BY <1>7 DEF Identify
    <2> HIDE DEF d
    <2> QED BY <1>9, <2>1, <2>2 DEF Pi
<1>11. Unfired(e)
    BY <1>1, <1>2, <1>4, <1>5, <1>6, <1>10 DEF Unfired
<1>12. Unfired(HandBack(e))
    <2>1. "LOITER" \in Modes /\ "handback" \in Why
        BY CompanionAssumption DEF Why
    <2>2. /\ AskMode(e, "LOITER", "handback") \in Pi
          /\ AskMode(e, "LOITER", "handback").out.asked =
                e.out.asked \cup {<<"LOITER", "handback">>}
        BY <1>8, <2>1, AskModeType
    <2>3. HandBack(e).out \in {e.out, AskMode(e, "LOITER", "handback").out}
        BY <1>8, <2>2 DEF HandBack, Pi
    <2> QED BY <1>11, <2>2, <2>3 DEF Unfired
<1> QED BY <1>11, <1>12

\* What a frame does with what was commanded, from any state of the types: what it
\* may give up, what it may not take up, and in whose name it moves the aircraft.
FrameMandate(p, o) ==
    /\ p.requested \in {pi.requested, "IDLE"}
    /\ p.out.setpoint = "move" =>
          \/ p.out.by = pi.requested /\ p.requested = pi.requested /\ p.out.by \in GuidedModes
          \/ p.out.by = "SEARCHING" /\ RecoveryActive(p.recovery)
    /\ RecoveryActive(p.recovery) =>
          RecoveryActive(pi.recovery) \/ pi.requested \in {"FOLLOWING", "ORBITING"}
    /\ TakeoffActive(p.takeoff) => TakeoffActive(pi.takeoff) /\ p.out.setpoint = "none"
    /\ p.out.takeoff => TakeoffActive(pi.takeoff) /\ p.out.setpoint = "none"
    /\ p.approach = "APPROACHING" => pi.approach = "APPROACHING"
    /\ p.out.setpoint = "move" /\ p.out.by = "APPROACHING" => p.approach = "APPROACHING"
    /\ /\ p.out.by = "APPROACHING"
       /\ ~world.ground
       /\ ~TakeoffActive(pi.takeoff)
       /\ MustAbort(ApproachInput(p, o))
       => p.approach # "APPROACHING"
    /\ FailsafeFired(p) => ~pi.latched /\ p.latched
    /\ pi.latched => p.latched \/ (p.lostFor <= RtlAfter /\ ~Critical)

\* What a frame leaves and sends, from any state of the types.
FrameOutcome(p, o) ==
    /\ p \in Pi /\ Justified(p.out.asked)
    /\ p.out.written = o.written
    /\ p.out.setpoint = "move" =>
          /\ Guided /\ ~world.sticks /\ ~world.stale /\ world.comms
          /\ ~world.fence /\ ~Critical /\ ~world.ground
          /\ p.out.by \in TargetModes =>
                HasTarget(p.track) /\ p.track.unseen < HoldAfter /\ ~p.dropped
          /\ p.stops > 0
    /\ p.out.setpoint = "none" /\ pi.stops > 0 /\ Guided =>
          /\ p.stops > 0
          /\ p.out.holding \/ ~o.written
    /\ p.takeoff.phase = "CLIMBING" => p.out.setpoint = "none"
    /\ /\ pi.requested = "IDLE"
       /\ pi.recovery = NoRecovery
       /\ pi.takeoff = NoTakeoff
       => /\ p.requested = "IDLE" /\ p.recovery = NoRecovery /\ p.takeoff = NoTakeoff
          /\ p.out.setpoint # "move" /\ ~p.out.takeoff
    /\ p.recovery.phase = "AWAITING" =>
          \/ p.out.question
          \/ pi.recovery.phase = "AWAITING" /\ p.track.phase # "TRACKING"

LEMMA FrameType ==
    ASSUME world \in World, pi \in Pi, NEW o \in Observation,
           NEW p, p = Processed(o)
    PROVE  FrameOutcome(p, o) /\ FrameMandate(p, o)
<1> DEFINE out == [Silent EXCEPT !.frame = TRUE, !.written = o.written]
           c0 == [pi EXCEPT !.out = out]
           c2 == Identify(Rematch(TrackTarget(
                     Select(Perceive(ResolveMode(c0, o), o), o), o), o), o)
           k == HandBack(c2)
           r == Recover(k, o)
           t == Climb(r, o)
           f == Failsafe(t, o)
           d == Dispatch(f, o)
<1>1. /\ out \in Output /\ out.setpoint = "none" /\ ~out.takeoff /\ ~out.question
      /\ out.written = o.written /\ out.asked = {} /\ ~out.holding
    BY DEF Silent, Output, SupervisorState, Commanded, Observation
<1> HIDE DEF out
<1>2. /\ c0 \in Pi /\ c0.out = out /\ c0.requested = pi.requested
      /\ c0.recovery = pi.recovery /\ c0.takeoff = pi.takeoff /\ c0.stops = pi.stops
      /\ c0.approach = pi.approach /\ c0.latched = pi.latched
    BY <1>1 DEF Pi
<1> HIDE DEF c0
<1>2a. Unfired(c2) /\ Unfired(k)
    <2>1. Unfired(c0)
        BY <1>1, <1>2 DEF Unfired
    <2> QED BY <1>2, <2>1, LookingIsUnfired
<1>3. /\ c2 \in Pi /\ SameCourse(c0, c2) /\ c2.recovery = Searching(c0.recovery, o.dt)
      /\ c2.track.phase = "TRACKING" => ~c2.dropped
    BY <1>2, LookingStages
<1> HIDE DEF c2
<1>4. /\ k \in Pi /\ SameCourse(c2, k) /\ k.recovery = c2.recovery
      /\ k.track = c2.track /\ k.dropped = c2.dropped
    BY <1>3, HandBackStage
<1> HIDE DEF k
<1>5. /\ k.out.setpoint = "none" /\ ~k.out.takeoff /\ ~k.out.question
      /\ k.out.written = o.written /\ Justified(k.out.asked)
      /\ k.requested = pi.requested /\ k.takeoff = pi.takeoff /\ k.stops = pi.stops
      /\ k.recovery = Searching(pi.recovery, o.dt)
      /\ k.track.phase = "TRACKING" => ~k.dropped
      /\ k.approach = pi.approach /\ k.latched = pi.latched /\ ~k.out.holding
    <2>1. Justified(c0.out.asked)
        BY <1>1, <1>2 DEF Justified
    <2> QED BY <1>1, <1>2, <1>3, <1>4, <2>1 DEF SameCourse
<1>6. Recovered(k, r)
    BY <1>4, RecoverStage
<1> HIDE DEF r
<1>7. Climbed(r, t)
    BY <1>6, ClimbStage DEF Recovered
<1> HIDE DEF t
<1>8. Failsafed(t, f)
    BY <1>7, FailsafeStage DEF Climbed
<1> HIDE DEF f
<1>9. Dispatched(f, o, d)
    BY <1>8, DispatchStage DEF Failsafed
<1> HIDE DEF d
<1>10. p = EnforceStop(d, o)
    BY DEF Processed, c0, out, c2, k, r, t, f, d
<1>11. StopEnforced(d, o, p)
    BY <1>9, <1>10, EnforceStopStage DEF Dispatched
<1> HIDE DEF c0, out, c2, k, r, t, f, d
<1>12. /\ d.stops = pi.stops /\ d.track = k.track /\ d.dropped = k.dropped
       /\ f.track = k.track /\ f.dropped = k.dropped
       /\ d.out.written = o.written /\ Justified(d.out.asked)
    BY <1>5, <1>6, <1>7, <1>8, <1>9 DEF SameSight, Recovered, Climbed, Failsafed, Dispatched
<1>13. p \in Pi /\ Justified(p.out.asked) /\ p.out.written = o.written
    BY <1>11, <1>12 DEF StopEnforced
<1>14. ASSUME p.out.setpoint = "move"
       PROVE  /\ Guided /\ ~world.sticks /\ ~world.stale /\ world.comms
              /\ ~world.fence /\ ~Critical /\ ~world.ground
              /\ p.out.by \in TargetModes =>
                    HasTarget(p.track) /\ p.track.unseen < HoldAfter /\ ~p.dropped
              /\ p.stops > 0
    <2>1. d.out.setpoint = "move" /\ p.out.by = d.out.by
        BY <1>11, <1>14 DEF StopEnforced
    <2>2. /\ Guided /\ ~world.sticks /\ ~world.stale /\ world.comms /\ ~Critical
          /\ world.fence => f.out.want = "APPROACHING"
        BY <1>9, <2>1 DEF Withheld, ConditionsOf, Dispatched
    <2> QED BY <1>5, <1>9, <1>11, <1>12, <1>14, <2>1, <2>2 DEF Dispatched, StopEnforced
<1>15. p.out.setpoint = "none" /\ pi.stops > 0 /\ Guided =>
          /\ p.stops > 0
          /\ p.out.holding \/ ~o.written
    BY <1>11, <1>12 DEF StopEnforced
<1>16. p.takeoff.phase = "CLIMBING" => p.out.setpoint = "none"
    <2>1. p.takeoff.phase = "CLIMBING" => t.takeoff.phase = "CLIMBING"
        BY <1>8, <1>9, <1>11 DEF NoTakeoff, Failsafed, Dispatched, StopEnforced
    <2> QED BY <1>7, <1>8, <1>9, <1>11, <2>1 DEF Climbed, Failsafed, Dispatched, StopEnforced
<1>17. ASSUME pi.requested = "IDLE", pi.recovery = NoRecovery, pi.takeoff = NoTakeoff
       PROVE  /\ p.requested = "IDLE" /\ p.recovery = NoRecovery /\ p.takeoff = NoTakeoff
              /\ p.out.setpoint # "move" /\ ~p.out.takeoff
    <2>1. k.recovery = NoRecovery
        BY <1>5, <1>17 DEF Searching, NoRecovery
    <2>2. /\ r.requested = "IDLE" /\ r.recovery = NoRecovery /\ r.out.want = "IDLE"
          /\ r.takeoff = NoTakeoff /\ ~r.out.takeoff
        BY <1>5, <1>6, <1>17, <2>1 DEF Recovered
    <2>3. /\ t.requested = "IDLE" /\ t.recovery = NoRecovery /\ t.out.want = "IDLE"
          /\ t.takeoff = NoTakeoff /\ ~t.out.takeoff
        BY <1>7, <2>2 DEF Climbed
    <2> QED BY <1>8, <1>9, <1>11, <2>3 DEF Failsafed, Dispatched, StopEnforced
<1>18. p.recovery.phase = "AWAITING" =>
          \/ p.out.question
          \/ pi.recovery.phase = "AWAITING" /\ p.track.phase # "TRACKING"
    <2>1. k.recovery.phase = "AWAITING" => pi.recovery.phase = "AWAITING"
        BY <1>5 DEF Searching, Pi, Recovery
    <2> QED BY <1>6, <1>7, <1>8, <1>9, <1>11, <1>12, <2>1
        DEF Recovered, Climbed, Failsafed, Dispatched, StopEnforced
<1>19. FrameOutcome(p, o)
    BY <1>13, <1>14, <1>15, <1>16, <1>17, <1>18 DEF FrameOutcome
<1>20. /\ p.requested \in {pi.requested, "IDLE"}
       /\ p.out.setpoint = "move" =>
             \/ p.out.by = pi.requested /\ p.requested = pi.requested /\ p.out.by \in GuidedModes
             \/ p.out.by = "SEARCHING" /\ RecoveryActive(p.recovery)
    <2>1. p.requested \in {pi.requested, "IDLE"}
        BY <1>5, <1>6, <1>7, <1>8, <1>9, <1>11
        DEF Recovered, Climbed, Failsafed, Dispatched, StopEnforced
    <2>2. ASSUME p.out.setpoint = "move"
          PROVE  \/ /\ p.out.by = pi.requested /\ p.requested = pi.requested
                    /\ p.out.by \in GuidedModes
                 \/ p.out.by = "SEARCHING" /\ RecoveryActive(p.recovery)
        <3>1. /\ d.out.setpoint = "move" /\ p.out.by = f.out.want /\ f.out.want # "IDLE"
              /\ p.out.by \in GuidedModes \cup {"SEARCHING"}
              /\ p.requested = f.requested /\ world.comms /\ ~Critical
            BY <1>9, <1>11, <1>14, <2>2 DEF Dispatched, StopEnforced
        <3>2. f.requested = t.requested /\ f.out.want = t.out.want
            BY <1>8, <3>1 DEF Failsafed
        <3>3. t.out.want = r.out.want /\ t.requested = r.requested
            BY <1>7, <3>1, <3>2 DEF Climbed
        <3>4. \/ r.out.want = pi.requested /\ r.requested = pi.requested
              \/ r.out.want = "SEARCHING" /\ RecoveryActive(r.recovery)
            BY <1>5, <1>6, <3>1, <3>2, <3>3 DEF Recovered
        <3>4a. pi.requested # "SEARCHING"
            BY DEF Pi, Commanded
        <3>5. p.recovery = r.recovery
            BY <1>7, <1>8, <1>9, <1>11 DEF Climbed, Failsafed, Dispatched, StopEnforced
        <3> QED BY <3>1, <3>2, <3>3, <3>4, <3>4a, <3>5
    <2> QED BY <2>1, <2>2
<1>21. RecoveryActive(p.recovery) =>
          RecoveryActive(pi.recovery) \/ pi.requested \in {"FOLLOWING", "ORBITING"}
    <2>1. p.recovery = r.recovery
        BY <1>7, <1>8, <1>9, <1>11 DEF Climbed, Failsafed, Dispatched, StopEnforced
    <2>2. RecoveryActive(k.recovery) => RecoveryActive(pi.recovery)
        BY <1>5 DEF Searching, RecoveryActive, Pi, Recovery
    <2> QED BY <1>5, <1>6, <2>1, <2>2 DEF Recovered
<1>22. /\ TakeoffActive(p.takeoff) => TakeoffActive(pi.takeoff) /\ p.out.setpoint = "none"
       /\ p.out.takeoff => TakeoffActive(pi.takeoff) /\ p.out.setpoint = "none"
    <2>1. /\ TakeoffActive(t.takeoff) => TakeoffActive(r.takeoff) /\ t.out.holding
          /\ t.out.takeoff => TakeoffActive(r.takeoff) /\ t.out.holding
        BY <1>5, <1>6, <1>7 DEF Recovered, Climbed
    <2>2. r.takeoff = pi.takeoff
        BY <1>5, <1>6 DEF Recovered
    <2>3. t.out.holding => p.out.setpoint = "none"
        BY <1>8, <1>9, <1>11 DEF Failsafed, Dispatched, StopEnforced
    <2>4. /\ TakeoffActive(p.takeoff) => TakeoffActive(t.takeoff)
          /\ p.out.takeoff = t.out.takeoff
        BY <1>8, <1>9, <1>11 DEF NoTakeoff, TakeoffActive, Failsafed, Dispatched, StopEnforced
    <2> QED BY <2>1, <2>2, <2>3, <2>4
<1>23. /\ p.approach = "APPROACHING" => pi.approach = "APPROACHING"
       /\ p.out.setpoint = "move" /\ p.out.by = "APPROACHING" => p.approach = "APPROACHING"
       /\ /\ p.out.by = "APPROACHING"
          /\ ~world.ground
          /\ ~TakeoffActive(pi.takeoff)
          /\ MustAbort(ApproachInput(p, o))
          => p.approach # "APPROACHING"
    <2>1. f.approach = pi.approach /\ p.approach = d.approach
        BY <1>5, <1>6, <1>7, <1>8, <1>11
        DEF Recovered, Climbed, Failsafed, StopEnforced, SameControl
    <2>2. ~TakeoffActive(pi.takeoff) => ~f.out.holding
        BY <1>5, <1>6, <1>7, <1>8 DEF Recovered, Climbed, Failsafed
    <2>3. ApproachInput(p, o) = ApproachInput(f, o)
        <3>1. p.track = f.track
            BY <1>11, <1>12 DEF StopEnforced
        <3> QED BY <3>1 DEF ApproachInput, SeenRecently
    <2>4. p.out.by = "APPROACHING" => d.out.by = "APPROACHING"
        BY <1>11 DEF StopEnforced
    <2>5. p.out.setpoint = "move" => d.out.setpoint = "move"
        BY <1>11 DEF StopEnforced
    <2> QED BY <1>9, <2>1, <2>2, <2>3, <2>4, <2>5 DEF Dispatched
<1>24. /\ FailsafeFired(p) => ~pi.latched /\ p.latched
       /\ pi.latched => p.latched \/ (p.lostFor <= RtlAfter /\ ~Critical)
    <2>1. Unfired(t) /\ t.latched = pi.latched
        BY <1>2a, <1>5, <1>6, <1>7 DEF Recovered, Climbed, SameFailsafe
    <2>2. /\ p.latched = f.latched /\ p.lostFor = f.lostFor
          /\ Unfired(f) => Unfired(p)
        BY <1>9, <1>11 DEF Dispatched, StopEnforced, SameFailsafe
    <2>3. FailsafeFired(p) <=> ~Unfired(p)
        BY DEF FailsafeFired, Unfired
    <2> QED BY <1>8, <2>1, <2>2, <2>3 DEF Failsafed
<1>25. FrameMandate(p, o)
    BY <1>20, <1>21, <1>22, <1>23, <1>24 DEF FrameMandate
<1> QED BY <1>19, <1>25

-----------------------------------------------------------------------------
(* The invariant.  The promises speak of what the latest step sent, and hold *)
(* because of what the earlier steps left behind.                            *)

\* A motion the flight controller still flies has its stops ahead of it.
CoastIsWatched == hist.coasting => pi.stops > 0 /\ Guided

\* STOP leaves nothing under way, and nothing but a command starts it.
NothingUnderWay ==
    hist.stopped =>
        pi.requested = "IDLE" /\ pi.recovery = NoRecovery /\ pi.takeoff = NoTakeoff

\* An open question is one that was put and that nothing has settled.
QuestionStands == QuestionOpen => hist.asked

Promises ==
    /\ MotionIsGated /\ SteersOnlyOnASeenTarget /\ NoCoasting /\ StopIsFinal
    /\ ClimbIsUndisturbed /\ NeverFightsThePilot /\ LandOnlyWhenAsked

IInv == TypeOK /\ CoastIsWatched /\ NothingUnderWay /\ QuestionStands /\ Promises

\* A step that is no frame sends no setpoint: of the promises, only those about
\* flight modes say anything of it.
LEMMA QuietPromises ==
    ASSUME pi.out.setpoint = "none", ~pi.out.frame, ~pi.out.takeoff,
           NeverFightsThePilot, LandOnlyWhenAsked
    PROVE  Promises
BY DEF Promises, MotionIsGated, SteersOnlyOnASeenTarget, NoCoasting, StopIsFinal,
       ClimbIsUndisturbed, Moves

\* A step that sends nothing.
LEMMA SilentType ==
    /\ Silent \in Output /\ Silent.asked = {} /\ Silent.setpoint = "none"
    /\ ~Silent.frame /\ ~Silent.takeoff /\ Silent.last = NoMode
BY DEF Silent, Output, SupervisorState, Commanded

\* The invariant holds at the start.
THEOREM InitInvariant == Init => IInv
<1> SUFFICES ASSUME Init PROVE IInv
    OBVIOUS
<1>1. pi.out = Silent
    BY DEF Init
<1>2. TypeOK
    <2>1. pi \in Pi
        <3>1. /\ "IDLE" \in Commanded /\ 0 \in 0 .. DropFrames
              /\ CarryMax + 1 \in 0 .. CarryMax + 1 /\ 0 \in 0 .. RtlAfter + 1
              /\ 0 \in 0 .. StopRepeats
            BY CompanionAssumption DEF Commanded
        <3>2. NoTrack \in Track
            BY ReacquireAssumption DEF NoTrack, Track
        <3>3. NoRecovery \in Recovery
            BY SearchAssumption DEF NoRecovery, Recovery
        <3>4. NoTakeoff \in Takeoff
            BY TakeoffAssumption DEF NoTakeoff, Takeoff
        <3> QED BY <3>1, <3>2, <3>3, <3>4, SilentType DEF Init, Pi, ApproachState
    <2>2. world \in World
        <3>1. Given.airborne \in BOOLEAN
            BY CompanionAssumption DEF Init, Given, IsScenario
        <3>2. "LOITER" \in Modes
            <4>1. {"GUIDED", "LOITER", "BRAKE", "RTL", "LAND"} \subseteq Modes
                BY CompanionAssumption
            <4> QED BY <4>1
        <3> QED BY <3>1, <3>2 DEF Init, World
    <2>3. tick \in {0, 1}
        BY DEF Init
    <2> QED BY <2>1, <2>2, <2>3 DEF Init, TypeOK
<1>3. CoastIsWatched /\ NothingUnderWay
    BY DEF Init, CoastIsWatched, NothingUnderWay
<1>4. QuestionStands
    BY DEF Init, QuestionStands, QuestionOpen, NoRecovery
<1>5. Promises
    BY <1>1, SilentType, QuietPromises DEF NeverFightsThePilot, LandOnlyWhenAsked, AskedFor
<1> QED BY <1>2, <1>3, <1>4, <1>5 DEF IInv

\* A handler answers with silence or with one request of a flight mode.
LEMMA ReplyType ==
    ASSUME world \in World, NEW c \in Pi, c.out = Silent, NEW m \in Modes, NEW why \in Why,
           NEW d, d = c \/ d = AskMode(c, m, why)
    PROVE  /\ d \in Pi /\ d.out.setpoint = "none" /\ ~d.out.frame /\ ~d.out.takeoff
           /\ d.out.asked \subseteq {<<m, why>>}
           /\ d.requested = c.requested /\ d.takeoff = c.takeoff
           /\ d.recovery = c.recovery /\ d.stops = c.stops
           /\ d.out.last \in Report
<1>1. CASE d = c
    BY <1>1, SilentType
<1>2. CASE d = AskMode(c, m, why)
    <2>1. d \in Pi /\ d.out.asked = {} \cup {<<m, why>>} /\ d.recovery = c.recovery
        BY <1>2, AskModeType, SilentType
    <2>2. d.out = Asking(Silent, m, why)
        BY <1>2 DEF AskMode, Pi
    <2>3. d.out.setpoint = "none" /\ ~d.out.frame /\ ~d.out.takeoff /\ d.out.last = m
        BY <2>2 DEF Asking, Silent
    <2>4. d.requested = c.requested /\ d.takeoff = c.takeoff /\ d.stops = c.stops
        BY <1>2 DEF AskMode, Pi
    <2> QED BY <2>1, <2>3, <2>4
<1> QED BY <1>1, <1>2

\* A mode command: it ends a STOP, and every question but that of Follow and Orbit.
LEMMA ModeCommandStep ==
    ASSUME IInv, NEW m \in Commanded, NEW auto \in BOOLEAN, NEW planned \in BOOLEAN,
           ModeCommand(m, auto, planned), scenario' = scenario
    PROVE  IInv'
<1> DEFINE entering == Entering(m)
           mode == IF entering /\ ~(planned /\ world.gps) THEN "IDLE" ELSE m
           rec == IF m \in {"FOLLOWING", "ORBITING"} THEN pi.recovery ELSE NoRecovery
           grid == IF entering /\ mode = "GRID_SEARCH" THEN "SEARCHING"
                   ELSE IF entering \/ m # "GRID_SEARCH" THEN "IDLE" ELSE pi.grid
           tk == IF mode = pi.requested THEN pi.takeoff
                 ELSE IF auto /\ mode \in GuidedModes THEN TakeoffStarted ELSE NoTakeoff
           ap == IF mode = "APPROACHING" THEN "APPROACHING" ELSE "IDLE"
           c == [pi EXCEPT !.out = Silent, !.recovery = rec, !.grid = grid, !.takeoff = tk,
                           !.requested = mode, !.approach = ap]
           h == [hist EXCEPT !.stopped = FALSE, !.approached = FALSE, !.breached = "no",
                             !.asked = @ /\ m \in {"FOLLOWING", "ORBITING"},
                             !.planned = (@ \/ entering) /\ mode = "GRID_SEARCH"]
<1>1. TypeOK /\ pi \in Pi /\ world \in World
    BY DEF IInv, TypeOK
<1>2. /\ mode \in Commanded /\ rec \in Recovery /\ grid \in {"IDLE", "SEARCHING", "FINISHED"}
      /\ tk \in Takeoff /\ ap \in ApproachState
    <2>1. mode \in Commanded
        BY DEF Commanded
    <2>2. rec \in Recovery /\ grid \in {"IDLE", "SEARCHING", "FINISHED"}
        BY <1>1, SearchAssumption DEF Pi, Recovery, NoRecovery
    <2>3. tk \in Takeoff /\ ap \in ApproachState
        BY <1>1, TakeoffAssumption DEF Pi, Takeoff, NoTakeoff, TakeoffStarted, ApproachState
    <2> QED BY <2>1, <2>2, <2>3
<1>3. /\ pi' = c \/ (pi' = AskMode(c, "GUIDED", "command") /\ ~world.sticks)
      /\ uplink' \in {uplink, pi'.out.last} /\ hist' = h /\ world' = world /\ tick' = tick
    BY DEF ModeCommand, Transmit
<1> HIDE DEF entering, mode, grid, tk, ap
<1>4. /\ c \in Pi /\ c.out = Silent /\ c.recovery = rec /\ c.stops = pi.stops
    BY <1>1, <1>2, SilentType DEF Pi
<1>5. "GUIDED" \in Modes /\ "command" \in Why
    <2>1. {"GUIDED", "LOITER", "BRAKE", "RTL", "LAND"} \subseteq Modes
        BY CompanionAssumption
    <2> QED BY <2>1 DEF Why
<1> HIDE DEF c
<1>6. /\ pi' \in Pi /\ pi'.out.setpoint = "none" /\ ~pi'.out.frame /\ ~pi'.out.takeoff
      /\ pi'.out.asked \subseteq {<<"GUIDED", "command">>}
      /\ pi'.recovery = rec /\ pi'.stops = pi.stops /\ pi'.out.last \in Report
    BY <1>1, <1>3, <1>4, <1>5, ReplyType
<1>7. pi'.out.asked # {} => ~world.sticks
    BY <1>3, <1>4, SilentType
<1>8. TypeOK'
    BY <1>1, <1>3, <1>6 DEF TypeOK
<1>9. /\ hist'.coasting = hist.coasting /\ hist'.stopped = FALSE
      /\ hist'.asked = (hist.asked /\ m \in {"FOLLOWING", "ORBITING"})
    BY <1>1, <1>3 DEF TypeOK
<1>10. CoastIsWatched' /\ NothingUnderWay'
    BY <1>3, <1>6, <1>9 DEF IInv, CoastIsWatched, NothingUnderWay, Guided
<1>11. QuestionStands'
    <2>1. CASE m \in {"FOLLOWING", "ORBITING"}
        <3>1. pi'.recovery = pi.recovery /\ (hist'.asked <=> hist.asked)
            BY <1>6, <1>9, <2>1
        <3> QED BY <3>1 DEF IInv, QuestionStands, QuestionOpen
    <2>2. CASE m \notin {"FOLLOWING", "ORBITING"}
        <3>1. pi'.recovery.phase = "IDLE"
            BY <1>6, <2>2 DEF NoRecovery
        <3> QED BY <3>1 DEF QuestionStands, QuestionOpen
    <2> QED BY <2>1, <2>2
<1>12. NeverFightsThePilot' /\ LandOnlyWhenAsked'
    BY <1>3, <1>6, <1>7 DEF NeverFightsThePilot, LandOnlyWhenAsked, AskedFor, PiInControl, Guided
<1>13. Promises'
    BY <1>6, <1>12 DEF Promises, MotionIsGated, SteersOnlyOnASeenTarget, NoCoasting,
           StopIsFinal, ClimbIsUndisturbed, Moves
<1> QED BY <1>8, <1>10, <1>11, <1>13 DEF IInv

\* STOP leaves nothing under way.
LEMMA AbortStep ==
    ASSUME IInv, Abort, scenario' = scenario
    PROVE  IInv'
<1> DEFINE c == [Stopped(pi) EXCEPT !.out = Silent]
           h == [hist EXCEPT !.stopped = TRUE, !.asked = FALSE, !.planned = FALSE]
<1>1. TypeOK /\ pi \in Pi /\ world \in World
    BY DEF IInv, TypeOK
<1>2. /\ pi' = c \/ (pi' = AskMode(c, "BRAKE", "stop") /\ ~world.sticks)
      /\ uplink' \in {uplink, pi'.out.last} /\ hist' = h /\ world' = world /\ tick' = tick
    BY DEF Abort, Transmit
<1>3. /\ c \in Pi /\ c.out = Silent /\ c.recovery = NoRecovery /\ c.takeoff = NoTakeoff
      /\ c.requested = "IDLE" /\ c.stops = pi.stops
    <2>1. "IDLE" \in Commanded /\ "IDLE" \in ApproachState /\ 0 \in 0 .. DropFrames
        BY CompanionAssumption DEF Commanded, ApproachState
    <2>2. NoTrack \in Track
        BY ReacquireAssumption DEF NoTrack, Track
    <2>3. NoRecovery \in Recovery
        BY SearchAssumption DEF NoRecovery, Recovery
    <2>4. NoTakeoff \in Takeoff
        BY TakeoffAssumption DEF NoTakeoff, Takeoff
    <2> QED BY <1>1, <2>1, <2>2, <2>3, <2>4, SilentType DEF Pi, Stopped
<1>4. "BRAKE" \in Modes /\ "stop" \in Why
    <2>1. {"GUIDED", "LOITER", "BRAKE", "RTL", "LAND"} \subseteq Modes
        BY CompanionAssumption
    <2> QED BY <2>1 DEF Why
<1> HIDE DEF c
<1>5. /\ pi' \in Pi /\ pi'.out.setpoint = "none" /\ ~pi'.out.frame /\ ~pi'.out.takeoff
      /\ pi'.out.asked \subseteq {<<"BRAKE", "stop">>}
      /\ pi'.requested = "IDLE" /\ pi'.recovery = NoRecovery /\ pi'.takeoff = NoTakeoff
      /\ pi'.stops = pi.stops /\ pi'.out.last \in Report
    BY <1>1, <1>2, <1>3, <1>4, ReplyType
<1>6. pi'.out.asked # {} => ~world.sticks
    BY <1>2, <1>3, SilentType
<1>7. TypeOK'
    BY <1>1, <1>2, <1>5 DEF TypeOK
<1>8. hist'.coasting = hist.coasting
    BY <1>1, <1>2 DEF TypeOK
<1>9. CoastIsWatched' /\ NothingUnderWay'
    BY <1>2, <1>5, <1>8 DEF IInv, CoastIsWatched, NothingUnderWay, Guided
<1>10. QuestionStands'
    BY <1>5 DEF QuestionStands, QuestionOpen, NoRecovery
<1>11. NeverFightsThePilot' /\ LandOnlyWhenAsked'
    BY <1>2, <1>5, <1>6 DEF NeverFightsThePilot, LandOnlyWhenAsked, AskedFor, PiInControl, Guided
<1>12. Promises'
    BY <1>5, <1>11 DEF Promises, MotionIsGated, SteersOnlyOnASeenTarget, NoCoasting,
           StopIsFinal, ClimbIsUndisturbed, Moves
<1> QED BY <1>7, <1>9, <1>10, <1>12 DEF IInv

\* The flight-mode list of the app only asks.
LEMMA SetFlightModeStep ==
    ASSUME IInv, NEW m \in Modes, SetFlightMode(m), scenario' = scenario
    PROVE  IInv'
<1> DEFINE c == [pi EXCEPT !.out = Silent]
<1>1. TypeOK /\ pi \in Pi /\ world \in World
    BY DEF IInv, TypeOK
<1>2. /\ pi' = AskMode(c, m, "dock") /\ uplink' \in {uplink, pi'.out.last}
      /\ hist' = hist /\ world' = world /\ tick' = tick
    BY DEF SetFlightMode, Transmit
<1>3. /\ c \in Pi /\ c.out = Silent /\ c.recovery = pi.recovery /\ c.takeoff = pi.takeoff
      /\ c.requested = pi.requested /\ c.stops = pi.stops /\ "dock" \in Why
    BY <1>1, SilentType DEF Pi, Why
<1> HIDE DEF c
<1>4. /\ pi' \in Pi /\ pi'.out.setpoint = "none" /\ ~pi'.out.frame /\ ~pi'.out.takeoff
      /\ pi'.out.asked \subseteq {<<m, "dock">>}
      /\ pi'.requested = pi.requested /\ pi'.recovery = pi.recovery
      /\ pi'.takeoff = pi.takeoff /\ pi'.stops = pi.stops /\ pi'.out.last \in Report
    BY <1>1, <1>2, <1>3, ReplyType
<1>5. TypeOK'
    BY <1>1, <1>2, <1>4 DEF TypeOK
<1>6. CoastIsWatched' /\ NothingUnderWay' /\ QuestionStands'
    BY <1>2, <1>4 DEF IInv, CoastIsWatched, NothingUnderWay, QuestionStands, QuestionOpen, Guided
<1>7. NeverFightsThePilot' /\ LandOnlyWhenAsked'
    BY <1>2, <1>4 DEF NeverFightsThePilot, LandOnlyWhenAsked, AskedFor
<1>8. Promises'
    BY <1>4, <1>7 DEF Promises, MotionIsGated, SteersOnlyOnASeenTarget, NoCoasting,
           StopIsFinal, ClimbIsUndisturbed, Moves
<1> QED BY <1>5, <1>6, <1>8 DEF IInv

\* The answer ends the question, so only one that was put is answered with LAND.
LEMMA AnswerLandStep ==
    ASSUME IInv, NEW approved \in BOOLEAN, AnswerLand(approved), scenario' = scenario
    PROVE  IInv'
<1> DEFINE c == [pi EXCEPT !.out = Silent, !.recovery = Confirming(pi.recovery),
                           !.requested = "IDLE"]
           h == [hist EXCEPT !.asked = @ /\ approved, !.planned = FALSE]
<1>1. TypeOK /\ pi \in Pi /\ world \in World
    BY DEF IInv, TypeOK
<1>2. /\ pi' = c \/ (pi' = AskMode(c, "LAND", "land") /\ approved)
      /\ uplink' \in {uplink, pi'.out.last} /\ hist' = h /\ world' = world /\ tick' = tick
      /\ QuestionOpen
    BY DEF AnswerLand, Transmit
<1>3. Confirming(pi.recovery) = NoRecovery
    BY <1>2 DEF Confirming, QuestionOpen
<1>4. /\ c \in Pi /\ c.out = Silent /\ c.recovery = NoRecovery /\ c.takeoff = pi.takeoff
      /\ c.requested = "IDLE" /\ c.stops = pi.stops
    <2>1. "IDLE" \in Commanded /\ NoRecovery \in Recovery
        BY SearchAssumption DEF Commanded, NoRecovery, Recovery
    <2> QED BY <1>1, <1>3, <2>1, SilentType DEF Pi
<1>5. "LAND" \in Modes /\ "land" \in Why
    <2>1. {"GUIDED", "LOITER", "BRAKE", "RTL", "LAND"} \subseteq Modes
        BY CompanionAssumption
    <2> QED BY <2>1 DEF Why
<1> HIDE DEF c
<1>6. /\ pi' \in Pi /\ pi'.out.setpoint = "none" /\ ~pi'.out.frame /\ ~pi'.out.takeoff
      /\ pi'.out.asked \subseteq {<<"LAND", "land">>}
      /\ pi'.requested = "IDLE" /\ pi'.recovery = NoRecovery /\ pi'.takeoff = pi.takeoff
      /\ pi'.stops = pi.stops /\ pi'.out.last \in Report
    BY <1>1, <1>2, <1>4, <1>5, ReplyType
<1>7. pi'.out.asked # {} => approved
    BY <1>2, <1>4, SilentType
<1>8. /\ hist'.coasting = hist.coasting /\ hist'.stopped = hist.stopped
      /\ hist'.asked = (hist.asked /\ approved)
    BY <1>1, <1>2 DEF TypeOK
<1>9. TypeOK'
    BY <1>1, <1>2, <1>6 DEF TypeOK
<1>10. CoastIsWatched' /\ NothingUnderWay'
    BY <1>2, <1>6, <1>8 DEF IInv, CoastIsWatched, NothingUnderWay, Guided
<1>11. QuestionStands'
    BY <1>6 DEF QuestionStands, QuestionOpen, NoRecovery
<1>12. NeverFightsThePilot' /\ LandOnlyWhenAsked'
    <2>1. hist.asked
        BY <1>2 DEF IInv, QuestionStands
    <2>2. LandOnlyWhenAsked'
        BY <1>6, <1>7, <1>8, <2>1 DEF LandOnlyWhenAsked, AskedFor
    <2> QED BY <1>6, <2>2 DEF NeverFightsThePilot, AskedFor
<1>13. Promises'
    BY <1>6, <1>12 DEF Promises, MotionIsGated, SteersOnlyOnASeenTarget, NoCoasting,
           StopIsFinal, ClimbIsUndisturbed, Moves
<1> QED BY <1>9, <1>10, <1>11, <1>13 DEF IInv

\* The steps that ask for nothing: of the app, and of everything but the Pi.
LEMMA SilentStep ==
    ASSUME IInv, scenario' = scenario, tick' = tick, world' \in World, uplink' \in Report,
           NEW s \in BOOLEAN, pi' = [pi EXCEPT !.selection = s, !.out = Silent],
           \/ world' = world /\ hist' = hist
           \/ hist' = WorldEffect(world')
    PROVE  IInv'
<1>1. TypeOK /\ pi \in Pi
    BY DEF IInv, TypeOK
<1>2. /\ pi' \in Pi /\ pi'.out = Silent /\ pi'.stops = pi.stops
      /\ pi'.requested = pi.requested /\ pi'.recovery = pi.recovery
      /\ pi'.takeoff = pi.takeoff
    BY <1>1, SilentType DEF Pi
<1>3. /\ hist' \in [stopped : BOOLEAN, coasting : BOOLEAN, asked : BOOLEAN, fired : 0 .. 2,
                     approached : BOOLEAN, breached : {"no", "masked", "seen"},
                     planned : BOOLEAN]
      /\ hist'.stopped = hist.stopped /\ hist'.asked = hist.asked
      /\ hist'.coasting => hist.coasting /\ (world'.mode = "GUIDED" \/ world' = world)
    <2>1. hist \in [stopped : BOOLEAN, coasting : BOOLEAN, asked : BOOLEAN, fired : 0 .. 2,
                    approached : BOOLEAN, breached : {"no", "masked", "seen"},
                    planned : BOOLEAN]
        BY <1>1 DEF TypeOK
    <2>2. CASE world' = world /\ hist' = hist
        BY <2>1, <2>2
    <2>3. CASE hist' = WorldEffect(world')
        <3> DEFINE b == hist.coasting /\ world'.mode = "GUIDED" /\ world'.armed
        <3>1. hist' = [hist EXCEPT !.coasting = b]
            BY <2>3 DEF WorldEffect
        <3>2. b \in BOOLEAN
            OBVIOUS
        <3>3. b => hist.coasting /\ world'.mode = "GUIDED"
            OBVIOUS
        <3> HIDE DEF b
        <3> QED BY <2>1, <3>1, <3>2, <3>3
    <2> QED BY <2>2, <2>3
<1>4. TypeOK'
    BY <1>1, <1>2, <1>3 DEF TypeOK
<1>5. CoastIsWatched' /\ NothingUnderWay' /\ QuestionStands'
    BY <1>2, <1>3 DEF IInv, CoastIsWatched, NothingUnderWay, QuestionStands, QuestionOpen, Guided
<1>6. Promises'
    BY <1>2, SilentType DEF Promises, MotionIsGated, SteersOnlyOnASeenTarget, NoCoasting,
           StopIsFinal, ClimbIsUndisturbed, Moves, NeverFightsThePilot, LandOnlyWhenAsked,
           AskedFor
<1> QED BY <1>4, <1>5, <1>6 DEF IInv

\* What the flight controller, the pilot and the links do starts no motion.
LEMMA EnvironmentStep ==
    ASSUME IInv, Environment, scenario' = scenario
    PROVE  IInv'
<1>1. TypeOK /\ pi \in Pi /\ world \in World /\ uplink \in Report
    BY DEF IInv, TypeOK
<1>2. [pi EXCEPT !.out = Silent] = [pi EXCEPT !.selection = pi.selection, !.out = Silent]
      /\ pi.selection \in BOOLEAN
    BY <1>1 DEF Pi
<1>3. ASSUME NEW w \in World, Become(w), uplink' = uplink
      PROVE  IInv'
    BY <1>1, <1>2, <1>3, SilentStep DEF Become
<1>4. CASE FcAccept
    <2>1. /\ uplink' = NoMode /\ world' = [world EXCEPT !.mode = uplink]
          /\ pi' = [pi EXCEPT !.out = Silent] /\ hist' = WorldEffect(world') /\ tick' = tick
        BY <1>4 DEF FcAccept
    <2>2. world' \in World
        BY <1>1, <1>4, <2>1 DEF FcAccept, World
    <2> QED BY <1>2, <2>1, <2>2, SilentStep
<1>5. CASE FcIgnore
    BY <1>1, <1>2, <1>5, SilentStep DEF FcIgnore
<1>6. CASE PilotSwitch
    <2>1. PICK m \in {"LOITER", "GUIDED"} : Become([world EXCEPT !.mode = m])
        BY <1>6 DEF PilotSwitch
    <2>2. m \in Modes
        <3>1. {"GUIDED", "LOITER", "BRAKE", "RTL", "LAND"} \subseteq Modes
            BY CompanionAssumption
        <3> QED BY <2>1, <3>1
    <2>3. [world EXCEPT !.mode = m] \in World
        BY <1>1, <2>2 DEF World
    <2> QED BY <1>3, <1>6, <2>1, <2>3 DEF PilotSwitch
<1>7. CASE BatteryDrains
    <2>1. PICK b \in {"low", "critical"} : Become([world EXCEPT !.battery = b])
        BY <1>7 DEF BatteryDrains
    <2>2. [world EXCEPT !.battery = b] \in World
        BY <1>1, <2>1 DEF World
    <2> QED BY <1>3, <1>7, <2>1, <2>2 DEF BatteryDrains
<1>8. CASE MoveSticks
    BY <1>1, <1>3, <1>8 DEF MoveSticks, World
<1>9. CASE ArmOrDisarm
    BY <1>1, <1>3, <1>9 DEF ArmOrDisarm, World
<1>10. CASE LiftOffOrLand
    BY <1>1, <1>3, <1>10 DEF LiftOffOrLand, World
<1>11. CASE ClimbOrDescend
    BY <1>1, <1>3, <1>11 DEF ClimbOrDescend, World
<1>12. CASE CommsChange
    BY <1>1, <1>3, <1>12 DEF CommsChange, World
<1>13. CASE HeartbeatChange
    BY <1>1, <1>3, <1>13 DEF HeartbeatChange, World
<1>14. CASE FenceChange
    BY <1>1, <1>3, <1>14 DEF FenceChange, World
<1>15. CASE GpsChange
    BY <1>1, <1>3, <1>15 DEF GpsChange, World
<1> QED BY <1>4, <1>5, <1>6, <1>7, <1>8, <1>9, <1>10, <1>11, <1>12, <1>13, <1>14, <1>15
        DEF Environment

\* A frame, by what FrameType says of it.
LEMMA FrameStep ==
    ASSUME IInv, NEW o \in Observation, Frame(o), scenario' = scenario
    PROVE  IInv'
<1>1. TypeOK /\ pi \in Pi /\ world \in World /\ uplink \in Report
    BY DEF IInv, TypeOK
<1>2. /\ pi' = Processed(o) /\ uplink' \in {uplink, pi'.out.last}
      /\ tick' = (tick + o.dt) % Given.clock /\ hist' = AfterFrame(pi', o) /\ world' = world
    BY DEF Frame, Transmit, Tick
<1> DEFINE p == pi'
<1>3. FrameOutcome(p, o)
    BY <1>1, <1>2, FrameType
<1>4. p.out \in Output
    BY <1>3 DEF FrameOutcome, Pi
<1> DEFINE ask == p.out.question \/ (hist.asked /\ p.track.phase # "TRACKING")
           coast == CoastingAfter(p)
<1>5. /\ hist' \in [stopped : BOOLEAN, coasting : BOOLEAN, asked : BOOLEAN, fired : 0 .. 2,
                     approached : BOOLEAN, breached : {"no", "masked", "seen"},
                     planned : BOOLEAN]
      /\ hist'.stopped = hist.stopped /\ hist'.coasting = coast /\ hist'.asked = ask
    <2> DEFINE fired == IF p.lostFor <= RtlAfter /\ ~Critical THEN 0
                        ELSE IF FailsafeFired(p) /\ hist.fired < 2
                             THEN hist.fired + 1 ELSE hist.fired
               approached == hist.approached
                                \/ (p.out.setpoint = "move" /\ p.out.by = "APPROACHING")
               breached == IF ~(hist.approached /\ MustAbort(ApproachInput(p, o)))
                           THEN hist.breached
                           ELSE IF p.out.by = "APPROACHING" /\ ~world.ground THEN "seen"
                           ELSE IF hist.breached = "no" THEN "masked" ELSE hist.breached
               planned == hist.planned /\ p.requested = "GRID_SEARCH"
    <2>1. hist \in [stopped : BOOLEAN, coasting : BOOLEAN, asked : BOOLEAN, fired : 0 .. 2,
                    approached : BOOLEAN, breached : {"no", "masked", "seen"},
                    planned : BOOLEAN]
        BY <1>1 DEF TypeOK
    <2>2. hist' = [hist EXCEPT !.coasting = coast, !.asked = ask, !.fired = fired,
                               !.approached = approached, !.breached = breached,
                               !.planned = planned]
        <3> HIDE DEF p, coast
        <3> QED BY <1>2, <2>1 DEF AfterFrame, p, coast
    <2>3. fired \in 0 .. 2 /\ breached \in {"no", "masked", "seen"}
        BY <2>1
    <2>4. approached \in BOOLEAN /\ planned \in BOOLEAN /\ ask \in BOOLEAN
        OBVIOUS
    <2>5. coast \in BOOLEAN
        BY <1>4, <2>1 DEF CoastingAfter, Output
    <2> HIDE DEF fired, approached, breached, planned, ask, coast
    <2> QED BY <2>1, <2>2, <2>3, <2>4, <2>5
<1>6. TypeOK'
    <2>1. tick' \in {0, 1}
        <3>1. tick \in Nat /\ o.dt \in Nat
            BY <1>1 DEF TypeOK, Observation
        <3>2. Given.clock \in {1, 2}
            <4>1. IsScenario(Given)
                BY <1>1, CompanionAssumption DEF TypeOK, Given
            <4> QED BY <4>1 DEF IsScenario
        <3>3. CASE Given.clock = 1
            BY <1>2, <3>1, <3>3
        <3>4. CASE Given.clock = 2
            BY <1>2, <3>1, <3>4
        <3> QED BY <3>2, <3>3, <3>4
    <2>2. uplink' \in Report
        BY <1>1, <1>2, <1>4 DEF Output
    <2>3. p \in Pi
        BY <1>3 DEF FrameOutcome
    <2> QED BY <1>1, <1>2, <1>5, <2>1, <2>2, <2>3 DEF TypeOK
<1>7. coast => \/ p.out.setpoint = "move"
               \/ p.out.setpoint = "none" /\ hist.coasting
    BY <1>4 DEF CoastingAfter, Output
<1> HIDE DEF coast, p
<1>8. coast => /\ Guided /\ p.stops > 0
               /\ p.out.setpoint = "move" \/ ~p.out.written \/ p.out.holding
    BY <1>3, <1>7 DEF FrameOutcome, IInv, CoastIsWatched
<1>9. CoastIsWatched'
    BY <1>2, <1>5, <1>8 DEF CoastIsWatched, Guided, p
<1>10. hist.stopped => /\ p.requested = "IDLE" /\ p.recovery = NoRecovery
                       /\ p.takeoff = NoTakeoff
                       /\ p.out.setpoint # "move" /\ ~p.out.takeoff
    BY <1>3 DEF FrameOutcome, IInv, NothingUnderWay
<1>11. NothingUnderWay'
    BY <1>5, <1>10 DEF NothingUnderWay, p
<1>12. QuestionStands'
    <2>1. p.recovery.phase = "AWAITING" => ask
        BY <1>3 DEF FrameOutcome, IInv, QuestionStands, QuestionOpen
    <2> QED BY <1>5, <2>1 DEF QuestionStands, QuestionOpen, p
<1>13. MotionIsGated'
    BY <1>2, <1>3 DEF FrameOutcome, MotionIsGated, Moves, Guided, Critical, p
<1>14. SteersOnlyOnASeenTarget'
    BY <1>3 DEF FrameOutcome, SteersOnlyOnASeenTarget, Moves, p
<1>15. NoCoasting'
    BY <1>5, <1>8 DEF NoCoasting, Moves, p
<1>16. StopIsFinal'
    BY <1>5, <1>10 DEF StopIsFinal, Moves, p
<1>17. ClimbIsUndisturbed'
    BY <1>3 DEF FrameOutcome, ClimbIsUndisturbed, p
<1>18. \A m \in Modes, why \in Why : <<m, why>> \in p.out.asked => JustifiedOne(m, why)
    BY <1>3 DEF FrameOutcome, Justified
<1>19. NeverFightsThePilot'
    BY <1>2, <1>18, CompanionAssumption
       DEF NeverFightsThePilot, AskedFor, JustifiedOne, PiInControl, Guided, Why, p
<1>20. LandOnlyWhenAsked'
    BY <1>18, CompanionAssumption DEF LandOnlyWhenAsked, AskedFor, JustifiedOne, Why, p
<1>21. Promises'
    BY <1>13, <1>14, <1>15, <1>16, <1>17, <1>19, <1>20 DEF Promises
<1> QED BY <1>6, <1>9, <1>11, <1>12, <1>21 DEF IInv

\* A scenario lets nothing happen that the types do not allow.
LEMMA GivenType ==
    ASSUME TypeOK
    PROVE  /\ Given.modes \subseteq Commanded /\ Given.auto \subseteq BOOLEAN
           /\ Given.dock \subseteq Modes /\ Given.finds \subseteq Observation
<1>1. IsScenario(Given)
    BY CompanionAssumption DEF TypeOK, Given
<1> QED BY <1>1 DEF IsScenario

\* Every step of the app, of a frame and of the world preserves the invariant.
THEOREM NextInvariant == IInv /\ [Next]_vars => IInv'
<1> SUFFICES ASSUME IInv, [Next]_vars PROVE IInv'
    OBVIOUS
<1>1. TypeOK
    BY DEF IInv
<1>2. CASE UNCHANGED vars
    <2>1. /\ scenario' = scenario /\ pi' = pi /\ world' = world /\ uplink' = uplink
          /\ tick' = tick /\ hist' = hist
        BY <1>2 DEF vars
    <2>2. TypeOK'
        BY <1>1, <2>1 DEF TypeOK
    <2>3. CoastIsWatched' /\ NothingUnderWay' /\ QuestionStands'
        BY <2>1 DEF IInv, CoastIsWatched, NothingUnderWay, QuestionStands, QuestionOpen, Guided
    <2>4. MotionIsGated' /\ SteersOnlyOnASeenTarget' /\ NoCoasting' /\ StopIsFinal'
          /\ ClimbIsUndisturbed'
        BY <2>1 DEF IInv, Promises, MotionIsGated, SteersOnlyOnASeenTarget, NoCoasting,
               StopIsFinal, ClimbIsUndisturbed, Moves, Guided, Critical
    <2>5. NeverFightsThePilot' /\ LandOnlyWhenAsked'
        BY <2>1 DEF IInv, Promises, NeverFightsThePilot, LandOnlyWhenAsked, AskedFor,
               PiInControl, Guided
    <2> QED BY <2>2, <2>3, <2>4, <2>5 DEF IInv, Promises
<1>3. CASE Operator /\ scenario' = scenario
    <2>1. ASSUME NEW m \in Given.modes, NEW auto \in Given.auto, NEW planned \in BOOLEAN,
                 ModeCommand(m, auto, planned)
          PROVE  IInv'
        BY <1>1, <1>3, <2>1, GivenType, ModeCommandStep
    <2>2. CASE Abort
        BY <1>3, <2>2, AbortStep
    <2>3. CASE SelectTarget
        BY <1>1, <1>3, <2>3, SilentStep DEF SelectTarget, TypeOK
    <2>4. ASSUME NEW m \in Given.dock, SetFlightMode(m)
          PROVE  IInv'
        BY <1>1, <1>3, <2>4, GivenType, SetFlightModeStep
    <2>5. ASSUME NEW approved \in BOOLEAN, AnswerLand(approved)
          PROVE  IInv'
        BY <1>3, <2>5, AnswerLandStep
    <2> QED BY <1>3, <2>1, <2>2, <2>3, <2>4, <2>5 DEF Operator
<1>4. CASE Environment /\ scenario' = scenario
    BY <1>4, EnvironmentStep
<1>5. ASSUME NEW o \in Given.finds, Frame(o), scenario' = scenario
      PROVE  IInv'
    BY <1>1, <1>5, GivenType, FrameStep
<1> QED BY <1>2, <1>3, <1>4, <1>5 DEF Next

\* The invariant holds throughout, whatever the constants: any set of scenarios,
\* flight modes and timeouts.
THEOREM Invariant == Spec => []IInv
<1> QED BY InitInvariant, NextInvariant, PTL DEF Spec

-----------------------------------------------------------------------------
(* What follows from it. *)

\* The program's state stays within its types: ages, counters and the bounds on
\* them, under every order of commands, frames and changes of the world.
THEOREM TypeCorrect == Spec => []TypeOK
<1>1. IInv => TypeOK
    BY DEF IInv
<1> QED BY <1>1, Invariant, PTL

\* A motion reaches the flight controller only in GUIDED, off the ground, with
\* the pilot off the sticks and nothing failed (process_frame's dispatch).
THEOREM MotionsAreGated == Spec => []MotionIsGated
<1>1. IInv => MotionIsGated
    BY DEF IInv, Promises
<1> QED BY <1>1, Invariant, PTL

\* Target modes steer only on a target that was just seen and whose identity was
\* not given up (target_fresh).
THEOREM SteeringIsOnASeenTarget == Spec => []SteersOnlyOnASeenTarget
<1>1. IInv => SteersOnlyOnASeenTarget
    BY DEF IInv, Promises
<1> QED BY <1>1, Invariant, PTL

\* A motion is followed by another setpoint on the next frame that can write one,
\* takeoffs excepted (_enforce_stop_after_guidance).
THEOREM NothingCoasts == Spec => []NoCoasting
<1>1. IInv => NoCoasting
    BY DEF IInv, Promises
<1> QED BY <1>1, Invariant, PTL

\* STOP ends everything that was under way, until the operator commands a mode
\* again (_on_abort).
THEOREM StopEndsEverything == Spec => []StopIsFinal
<1>1. IInv => StopIsFinal
    BY DEF IInv, Promises
<1> QED BY <1>1, Invariant, PTL

\* No setpoint is sent into a climb (auto_takeoff_holding).
THEOREM ClimbsAreUndisturbed == Spec => []ClimbIsUndisturbed
<1>1. IInv => ClimbIsUndisturbed
    BY DEF IInv, Promises
<1> QED BY <1>1, Invariant, PTL

\* The Pi asks for flight modes on its own account only with the pilot off the
\* sticks (the call sites of set_mode).
THEOREM ThePilotIsNeverFought == Spec => []NeverFightsThePilot
<1>1. IInv => NeverFightsThePilot
    BY DEF IInv, Promises
<1> QED BY <1>1, Invariant, PTL

\* LAND is commanded only in answer to a question that still stands
\* (_on_land_confirmation_response).
THEOREM LandingIsAsked == Spec => []LandOnlyWhenAsked
<1>1. IInv => LandOnlyWhenAsked
    BY DEF IInv, Promises
<1> QED BY <1>1, Invariant, PTL

-----------------------------------------------------------------------------
(* What the program remembers of its history: a second invariant, over the    *)
(* first one.  Each conjunct says what the program's own state knows of a      *)
(* thing that happened, so that no later step does it again.                   *)

\* A grid search is only ever commanded with a plan made when it was entered.
SweepIsPlanned == pi.requested = "GRID_SEARCH" => hist.planned

\* The failsafe has fired at most once since its cause came up, and if it has,
\* the latch is set.
FiringIsLatched == hist.fired \in {0, 1} /\ (hist.fired = 1 => pi.latched)

\* An approach that saw what must abort it is over.
SeenAbortIsKept == hist.breached = "seen" => pi.approach # "APPROACHING"

\* While a takeoff is under way nothing has approached since the last command, so
\* the frames that hold for it, and skip the approach controller, hide no abort.
TakeoffComesFirst == TakeoffActive(pi.takeoff) => ~hist.approached

\* What the latest step flew: a plan that was made, an approach still going on.
FliesWhatIsGoingOn ==
    Moves =>
        /\ pi.out.by = "GRID_SEARCH" => hist.planned
        /\ pi.out.by = "APPROACHING" => pi.approach = "APPROACHING"

Memory ==
    /\ SweepIsPlanned /\ FiringIsLatched /\ SeenAbortIsKept /\ TakeoffComesFirst
    /\ FliesWhatIsGoingOn

\* It holds at the start.
LEMMA InitMemory == Init => Memory
BY SilentType
   DEF Init, Memory, SweepIsPlanned, FiringIsLatched, SeenAbortIsKept, TakeoffComesFirst,
       FliesWhatIsGoingOn, Moves, TakeoffActive, NoTakeoff

\* A step that only asks, or changes the world, leaves it as it is.
LEMMA QuietMemory ==
    ASSUME Memory, pi'.out.setpoint = "none", pi'.requested = pi.requested,
           pi'.latched = pi.latched, pi'.approach = pi.approach, pi'.takeoff = pi.takeoff,
           hist'.planned = hist.planned, hist'.fired = hist.fired,
           hist'.breached = hist.breached, hist'.approached = hist.approached
    PROVE  Memory'
BY DEF Memory, SweepIsPlanned, FiringIsLatched, SeenAbortIsKept, TakeoffComesFirst,
       FliesWhatIsGoingOn, Moves

\* What asking leaves of the Pi's state.
LEMMA AskModeKeeps ==
    ASSUME NEW c \in Pi, c.out = Silent, NEW m, NEW why,
           NEW d, d = c \/ d = AskMode(c, m, why)
    PROVE  /\ d.out.setpoint = "none"
           /\ d.requested = c.requested /\ d.latched = c.latched
           /\ d.approach = c.approach /\ d.takeoff = c.takeoff /\ d.recovery = c.recovery
<1>1. CASE d = c
    BY <1>1 DEF Silent
<1>2. CASE d = AskMode(c, m, why)
    <2>1. d.out = Asking(Silent, m, why)
        BY <1>2 DEF AskMode, Pi
    <2>2. d.out.setpoint = "none"
        BY <2>1 DEF Asking, Silent
    <2> QED BY <1>2, <2>2 DEF AskMode, Pi
<1> QED BY <1>1, <1>2

\* A mode command begins a new history of approaches and sweeps.
LEMMA ModeCommandMemory ==
    ASSUME TypeOK, Memory, NEW m \in Commanded, NEW auto \in BOOLEAN, NEW planned \in BOOLEAN,
           ModeCommand(m, auto, planned)
    PROVE  Memory'
<1> DEFINE entering == Entering(m)
           mode == IF entering /\ ~(planned /\ world.gps) THEN "IDLE" ELSE m
           rec == IF m \in {"FOLLOWING", "ORBITING"} THEN pi.recovery ELSE NoRecovery
           grid == IF entering /\ mode = "GRID_SEARCH" THEN "SEARCHING"
                   ELSE IF entering \/ m # "GRID_SEARCH" THEN "IDLE" ELSE pi.grid
           tk == IF mode = pi.requested THEN pi.takeoff
                 ELSE IF auto /\ mode \in GuidedModes THEN TakeoffStarted ELSE NoTakeoff
           ap == IF mode = "APPROACHING" THEN "APPROACHING" ELSE "IDLE"
           c == [pi EXCEPT !.out = Silent, !.recovery = rec, !.grid = grid, !.takeoff = tk,
                           !.requested = mode, !.approach = ap]
           h == [hist EXCEPT !.stopped = FALSE, !.approached = FALSE, !.breached = "no",
                             !.asked = @ /\ m \in {"FOLLOWING", "ORBITING"},
                             !.planned = (@ \/ entering) /\ mode = "GRID_SEARCH"]
<1>1. pi \in Pi
    BY DEF TypeOK
<1>2. (pi' = c \/ pi' = AskMode(c, "GUIDED", "command")) /\ hist' = h
    BY DEF ModeCommand
<1>3. mode = "GRID_SEARCH" => entering \/ pi.requested = "GRID_SEARCH"
    BY DEF Entering
<1>4. /\ mode \in Commanded /\ rec \in Recovery /\ tk \in Takeoff /\ ap \in ApproachState
      /\ grid \in {"IDLE", "SEARCHING", "FINISHED"}
    <2>1. mode \in Commanded
        BY DEF Commanded
    <2>2. rec \in Recovery /\ grid \in {"IDLE", "SEARCHING", "FINISHED"}
        BY <1>1, SearchAssumption DEF Pi, Recovery, NoRecovery
    <2>3. tk \in Takeoff /\ ap \in ApproachState
        BY <1>1, TakeoffAssumption DEF Pi, Takeoff, NoTakeoff, TakeoffStarted, ApproachState
    <2> QED BY <2>1, <2>2, <2>3
<1> HIDE DEF entering, mode, rec, grid, tk, ap
<1>5. /\ c \in Pi /\ c.out = Silent /\ c.requested = mode /\ c.latched = pi.latched
    BY <1>1, <1>4, SilentType DEF Pi
<1> HIDE DEF c
<1>6. /\ pi'.out.setpoint = "none" /\ pi'.requested = mode /\ pi'.latched = pi.latched
    BY <1>2, <1>5, AskModeKeeps
<1>7. /\ hist'.approached = FALSE /\ hist'.breached = "no" /\ hist'.fired = hist.fired
      /\ hist'.planned = ((hist.planned \/ entering) /\ mode = "GRID_SEARCH")
    BY <1>2 DEF TypeOK
<1>8. SweepIsPlanned'
    BY <1>3, <1>6, <1>7 DEF Memory, SweepIsPlanned
<1>9. FiringIsLatched'
    BY <1>6, <1>7 DEF Memory, FiringIsLatched
<1>10. SeenAbortIsKept' /\ TakeoffComesFirst' /\ FliesWhatIsGoingOn'
    BY <1>6, <1>7 DEF SeenAbortIsKept, TakeoffComesFirst, FliesWhatIsGoingOn, Moves
<1> QED BY <1>8, <1>9, <1>10 DEF Memory

\* STOP, and an answer, give up the mode.
LEMMA AbortMemory ==
    ASSUME TypeOK, Memory, Abort
    PROVE  Memory'
<1> DEFINE c == [Stopped(pi) EXCEPT !.out = Silent]
           h == [hist EXCEPT !.stopped = TRUE, !.asked = FALSE, !.planned = FALSE]
<1>1. pi \in Pi
    BY DEF TypeOK
<1>2. (pi' = c \/ pi' = AskMode(c, "BRAKE", "stop")) /\ hist' = h
    BY DEF Abort
<1>3. /\ c \in Pi /\ c.out = Silent /\ c.requested = "IDLE" /\ c.latched = pi.latched
      /\ c.approach = "IDLE" /\ c.takeoff = NoTakeoff
    <2>1. "IDLE" \in Commanded /\ "IDLE" \in ApproachState /\ 0 \in 0 .. DropFrames
        BY CompanionAssumption DEF Commanded, ApproachState
    <2>2. NoTrack \in Track
        BY ReacquireAssumption DEF NoTrack, Track
    <2>3. NoRecovery \in Recovery
        BY SearchAssumption DEF NoRecovery, Recovery
    <2>4. NoTakeoff \in Takeoff
        BY TakeoffAssumption DEF NoTakeoff, Takeoff
    <2> QED BY <1>1, <2>1, <2>2, <2>3, <2>4, SilentType DEF Pi, Stopped
<1> HIDE DEF c
<1>4. /\ pi'.out.setpoint = "none" /\ pi'.requested = "IDLE" /\ pi'.latched = pi.latched
      /\ pi'.approach = "IDLE" /\ pi'.takeoff = NoTakeoff
    BY <1>2, <1>3, AskModeKeeps
<1>5. hist'.fired = hist.fired
    BY <1>2 DEF TypeOK
<1>6. SweepIsPlanned' /\ FiringIsLatched'
    BY <1>4, <1>5 DEF Memory, SweepIsPlanned, FiringIsLatched
<1>7. SeenAbortIsKept' /\ TakeoffComesFirst' /\ FliesWhatIsGoingOn'
    BY <1>4 DEF SeenAbortIsKept, TakeoffComesFirst, FliesWhatIsGoingOn, Moves, TakeoffActive,
           NoTakeoff
<1> QED BY <1>6, <1>7 DEF Memory

LEMMA AnswerLandMemory ==
    ASSUME TypeOK, Memory, NEW approved \in BOOLEAN, AnswerLand(approved)
    PROVE  Memory'
<1> DEFINE c == [pi EXCEPT !.out = Silent, !.recovery = Confirming(pi.recovery),
                           !.requested = "IDLE"]
           h == [hist EXCEPT !.asked = @ /\ approved, !.planned = FALSE]
<1>1. pi \in Pi
    BY DEF TypeOK
<1>2. (pi' = c \/ pi' = AskMode(c, "LAND", "land")) /\ hist' = h
    BY DEF AnswerLand
<1>3. /\ c \in Pi /\ c.out = Silent /\ c.requested = "IDLE" /\ c.latched = pi.latched
      /\ c.approach = pi.approach /\ c.takeoff = pi.takeoff
    <2>1. "IDLE" \in Commanded /\ Confirming(pi.recovery) \in Recovery
        BY <1>1, SearchAssumption DEF Commanded, Confirming, NoRecovery, Recovery, Pi
    <2> QED BY <1>1, <2>1, SilentType DEF Pi
<1> HIDE DEF c
<1>4. /\ pi'.out.setpoint = "none" /\ pi'.requested = "IDLE" /\ pi'.latched = pi.latched
      /\ pi'.approach = pi.approach /\ pi'.takeoff = pi.takeoff
    BY <1>2, <1>3, AskModeKeeps
<1>5. /\ hist'.fired = hist.fired /\ hist'.breached = hist.breached
      /\ hist'.approached = hist.approached
    BY <1>2 DEF TypeOK
<1> QED BY <1>4, <1>5 DEF Memory, SweepIsPlanned, FiringIsLatched, SeenAbortIsKept,
           TakeoffComesFirst, FliesWhatIsGoingOn, Moves

\* The environment, the selection and the flight-mode list.
LEMMA UnmovedMemory ==
    ASSUME TypeOK, Memory, NEW c \in Pi, c.out = Silent, NEW m, NEW why,
           c.requested = pi.requested, c.latched = pi.latched,
           c.approach = pi.approach, c.takeoff = pi.takeoff,
           pi' = c \/ pi' = AskMode(c, m, why),
           hist' = hist \/ \E w \in World : hist' = WorldEffect(w)
    PROVE  Memory'
<1>1. /\ hist'.planned = hist.planned /\ hist'.fired = hist.fired
      /\ hist'.breached = hist.breached /\ hist'.approached = hist.approached
    BY DEF TypeOK, WorldEffect
<1>2. /\ pi'.out.setpoint = "none" /\ pi'.requested = pi.requested
      /\ pi'.latched = pi.latched /\ pi'.approach = pi.approach /\ pi'.takeoff = pi.takeoff
    BY AskModeKeeps
<1> QED BY <1>1, <1>2, QuietMemory

\* A frame remembers what it saw and what it asked for.
LEMMA FrameMemory ==
    ASSUME TypeOK, Memory, NEW o \in Observation, Frame(o)
    PROVE  Memory'
<1> DEFINE p == pi'
           calm == p.lostFor <= RtlAfter /\ ~Critical
           fired == IF calm THEN 0
                    ELSE IF FailsafeFired(p) /\ hist.fired < 2
                         THEN hist.fired + 1 ELSE hist.fired
           abort == MustAbort(ApproachInput(p, o))
           approached == hist.approached
                            \/ (p.out.setpoint = "move" /\ p.out.by = "APPROACHING")
           breached == IF ~(hist.approached /\ abort) THEN hist.breached
                       ELSE IF p.out.by = "APPROACHING" /\ ~world.ground THEN "seen"
                       ELSE IF hist.breached = "no" THEN "masked" ELSE hist.breached
           planned == hist.planned /\ p.requested = "GRID_SEARCH"
<1>1. pi \in Pi /\ world \in World
    BY DEF TypeOK
<1>2. FrameMandate(p, o)
    BY <1>1, FrameType DEF Frame
<1>3. /\ hist'.fired = fired /\ hist'.breached = breached
      /\ hist'.approached = approached /\ hist'.planned = planned
    <2> DEFINE ask == p.out.question \/ (hist.asked /\ p.track.phase # "TRACKING")
               coast == CoastingAfter(p)
    <2>1. hist' = [hist EXCEPT !.coasting = coast, !.asked = ask, !.fired = fired,
                               !.approached = approached, !.breached = breached,
                               !.planned = planned]
        <3>1. hist' = AfterFrame(p, o)
            BY DEF Frame
        <3> HIDE DEF p, coast
        <3> QED BY <3>1 DEF AfterFrame, TypeOK, coast
    <2> HIDE DEF p, fired, approached, breached, planned, ask, coast
    <2> QED BY <2>1 DEF TypeOK
<1> HIDE DEF p
<1>4. SweepIsPlanned'
    <2>1. p.requested = "GRID_SEARCH" => pi.requested = "GRID_SEARCH"
        BY <1>2 DEF FrameMandate
    <2> QED BY <1>3, <2>1 DEF Memory, SweepIsPlanned, p
<1>5. FiringIsLatched'
    <2>1. /\ FailsafeFired(p) => ~pi.latched /\ p.latched
          /\ pi.latched => p.latched \/ calm
        BY <1>2 DEF FrameMandate
    <2> HIDE DEF calm
    <2>2. fired \in {0, 1} /\ (fired = 1 => p.latched)
        BY <2>1 DEF Memory, FiringIsLatched
    <2> QED BY <1>3, <2>2 DEF FiringIsLatched, p
<1>6. TakeoffComesFirst'
    <2>1. TakeoffActive(p.takeoff) => TakeoffActive(pi.takeoff) /\ p.out.setpoint = "none"
        BY <1>2 DEF FrameMandate
    <2> QED BY <1>3, <2>1 DEF Memory, TakeoffComesFirst, p
<1>7. SeenAbortIsKept'
    <2>1. CASE breached = hist.breached
        <3>1. p.approach = "APPROACHING" => pi.approach = "APPROACHING"
            BY <1>2 DEF FrameMandate
        <3> QED BY <1>3, <2>1, <3>1 DEF Memory, SeenAbortIsKept, p
    <2>2. CASE breached = "seen" /\ breached # hist.breached
        <3>1. hist.approached /\ abort /\ p.out.by = "APPROACHING" /\ ~world.ground
            BY <2>2
        <3>2. ~TakeoffActive(pi.takeoff)
            BY <3>1 DEF Memory, TakeoffComesFirst
        <3>3. p.approach # "APPROACHING"
            BY <1>2, <3>1, <3>2 DEF FrameMandate
        <3> QED BY <3>3 DEF SeenAbortIsKept, p
    <2>3. CASE breached = "masked"
        BY <1>3, <2>3 DEF SeenAbortIsKept
    <2> QED BY <2>1, <2>2, <2>3
<1>8. FliesWhatIsGoingOn'
    <2>1. p.out.setpoint = "move" /\ p.out.by = "GRID_SEARCH" =>
             pi.requested = "GRID_SEARCH" /\ p.requested = "GRID_SEARCH"
        BY <1>2 DEF FrameMandate
    <2>2. p.out.setpoint = "move" /\ p.out.by = "APPROACHING" => p.approach = "APPROACHING"
        BY <1>2 DEF FrameMandate
    <2> QED BY <1>3, <2>1, <2>2 DEF Memory, SweepIsPlanned, FliesWhatIsGoingOn, Moves, p
<1> QED BY <1>4, <1>5, <1>6, <1>7, <1>8 DEF Memory

\* What the flight controller, the pilot and the links do.
LEMMA EnvironmentQuiet ==
    ASSUME TypeOK, Environment
    PROVE  /\ pi' = [pi EXCEPT !.out = Silent]
           /\ hist' = hist \/ hist' = WorldEffect(world')
<1>1. ASSUME NEW w, Become(w)
      PROVE  pi' = [pi EXCEPT !.out = Silent] /\ hist' = WorldEffect(world')
    BY <1>1 DEF Become
<1> QED BY <1>1 DEF Environment, FcAccept, FcIgnore, PilotSwitch, MoveSticks, ArmOrDisarm,
           LiftOffOrLand, ClimbOrDescend, CommsChange, HeartbeatChange, BatteryDrains,
           FenceChange, GpsChange

\* Every step of the app, of a frame and of the world keeps the memory.
LEMMA NextMemory == TypeOK /\ TypeOK' /\ Memory /\ [Next]_vars => Memory'
<1> SUFFICES ASSUME TypeOK, TypeOK', Memory, [Next]_vars PROVE Memory'
    OBVIOUS
<1>1. CASE UNCHANGED vars
    BY <1>1 DEF vars, Memory, SweepIsPlanned, FiringIsLatched, SeenAbortIsKept,
           TakeoffComesFirst, FliesWhatIsGoingOn, Moves
<1> DEFINE c == [pi EXCEPT !.out = Silent]
<1>2. /\ c \in Pi /\ c.out = Silent /\ c.requested = pi.requested
      /\ c.latched = pi.latched /\ c.approach = pi.approach /\ c.takeoff = pi.takeoff
    BY SilentType DEF TypeOK, Pi
<1>3. CASE Operator
    <2>1. ASSUME NEW m \in Given.modes, NEW auto \in Given.auto, NEW planned \in BOOLEAN,
                 ModeCommand(m, auto, planned)
          PROVE  Memory'
        BY <2>1, GivenType, ModeCommandMemory
    <2>2. CASE Abort
        BY <2>2, AbortMemory
    <2>3. CASE SelectTarget
        <3> DEFINE d == [pi EXCEPT !.selection = TRUE, !.out = Silent]
        <3>1. /\ d \in Pi /\ d.out = Silent /\ d.requested = pi.requested
              /\ d.latched = pi.latched /\ d.approach = pi.approach /\ d.takeoff = pi.takeoff
            BY SilentType DEF TypeOK, Pi
        <3>2. pi' = d /\ hist' = hist
            BY <2>3 DEF SelectTarget
        <3> HIDE DEF d
        <3> QED BY <3>1, <3>2, UnmovedMemory
    <2>4. ASSUME NEW m \in Given.dock, SetFlightMode(m)
          PROVE  Memory'
        <3>1. pi' = AskMode(c, m, "dock") /\ hist' = hist
            BY <2>4 DEF SetFlightMode
        <3> HIDE DEF c
        <3> QED BY <1>2, <3>1, UnmovedMemory
    <2>5. ASSUME NEW approved \in BOOLEAN, AnswerLand(approved)
          PROVE  Memory'
        BY <2>5, AnswerLandMemory
    <2> QED BY <1>3, <2>1, <2>2, <2>3, <2>4, <2>5 DEF Operator
<1>4. CASE Environment
    <2>1. /\ pi' = c
          /\ hist' = hist \/ hist' = WorldEffect(world')
          /\ world' \in World
        BY <1>4, EnvironmentQuiet DEF TypeOK
    <2>2. hist' = hist \/ \E w \in World : hist' = WorldEffect(w)
        BY <2>1
    <2>3. pi' = c \/ pi' = AskMode(c, NoMode, "dock")
        BY <2>1
    <2> HIDE DEF c
    <2> QED BY <1>2, <2>2, <2>3, UnmovedMemory
<1>5. ASSUME NEW o \in Given.finds, Frame(o)
      PROVE  Memory'
    BY <1>5, GivenType, FrameMemory
<1> QED BY <1>1, <1>3, <1>4, <1>5 DEF Next

\* The program remembers throughout what it must not do twice.
THEOREM MemoryHolds == Spec => []Memory
<1>1. IInv => TypeOK
    BY DEF IInv
<1> QED BY <1>1, Invariant, InitMemory, NextMemory, PTL DEF Spec

\* An approach that saw a condition it must abort on does not go on when the
\* condition clears (ApproachTestController.update).
THEOREM SeenAbortsAreSticky == Spec => []SeenAbortIsSticky
<1>1. Memory => SeenAbortIsSticky
    BY DEF Memory, SeenAbortIsKept, FliesWhatIsGoingOn, SeenAbortIsSticky
<1> QED BY <1>1, MemoryHolds, PTL

\* A sweep is flown only by a plan made when its mode was entered
\* (_on_mode_command).
THEOREM SweepsAreCurrent == Spec => []SweepIsCurrent
<1>1. Memory => SweepIsCurrent
    BY DEF Memory, FliesWhatIsGoingOn, SweepIsCurrent
<1> QED BY <1>1, MemoryHolds, PTL

\* The failsafe asks for RTL at most once while its cause lasts
\* (_failsafe_rtl_latched).
THEOREM FailsafeFiresOnce == Spec => []FailsafeOncePerEpisode
<1>1. Memory => FailsafeOncePerEpisode
    BY DEF Memory, FiringIsLatched, FailsafeOncePerEpisode
<1> QED BY <1>1, MemoryHolds, PTL

-----------------------------------------------------------------------------
(* The mandate: the detailed program implements MotionAuthority.               *)

\* Nobody has commanded anything yet.
LEMMA MandateInit == Init => Authority!AuthorityInit
<1> SUFFICES ASSUME Init PROVE Authority!AuthorityInit
    OBVIOUS
<1>1. pi.out.setpoint = "none" /\ pi.out.takeoff = FALSE
    BY DEF Init, Silent
<1>2. pi.requested = "IDLE" /\ ~RecoveryActive(pi.recovery) /\ ~TakeoffActive(pi.takeoff)
    BY DEF Init, NoRecovery, NoTakeoff, RecoveryActive, TakeoffActive
<1>3. ~Guided
    BY DEF Init, Guided
<1> QED BY <1>1, <1>2, <1>3 DEF Authority!AuthorityInit, Authority!Nothing, Moves

\* No request takes off.
LEMMA AskingTakesNothingOff ==
    ASSUME NEW c \in Pi, c.out = Silent, NEW m, NEW why,
           NEW d, d = c \/ d = AskMode(c, m, why)
    PROVE  d.out.takeoff = FALSE
<1>1. CASE d = c
    BY <1>1 DEF Silent
<1>2. CASE d = AskMode(c, m, why)
    <2>1. d.out = Asking(Silent, m, why)
        BY <1>2 DEF AskMode, Pi
    <2> QED BY <2>1 DEF Asking, Silent
<1> QED BY <1>1, <1>2

\* A step that only asks for a flight mode, or changes the world, is no step of a
\* mandate.
LEMMA MandateQuiet ==
    ASSUME NEW c \in Pi, c.out = Silent, NEW m, NEW why,
           c.requested = pi.requested, c.takeoff = pi.takeoff, c.recovery = pi.recovery,
           pi' = c \/ pi' = AskMode(c, m, why)
    PROVE  Authority!Quiet
<1>1. /\ pi'.out.setpoint = "none"
      /\ pi'.requested = pi.requested
      /\ pi'.takeoff = pi.takeoff /\ pi'.recovery = pi.recovery
    BY AskModeKeeps
<1>2. pi'.out.takeoff = FALSE
    BY AskingTakesNothingOff
<1> QED BY <1>1, <1>2 DEF Authority!Quiet, Authority!Nothing, Moves

\* What a handler leaves, silent or with one request.
LEMMA HandlerSends ==
    ASSUME NEW c \in Pi, c.out = Silent, NEW m, NEW why,
           pi' = c \/ pi' = AskMode(c, m, why), world' = world
    PROVE  /\ pi'.requested = c.requested /\ pi'.takeoff = c.takeoff
           /\ pi'.recovery = c.recovery
           /\ [setpoint |-> IF Moves THEN pi.out.by ELSE pi.out.setpoint,
               takeoff |-> pi.out.takeoff]' = Authority!Nothing
           /\ (Guided /\ ~world.sticks)' = (Guided /\ ~world.sticks)
<1>1. /\ pi'.out.setpoint = "none"
      /\ pi'.requested = c.requested
      /\ pi'.takeoff = c.takeoff /\ pi'.recovery = c.recovery
    BY AskModeKeeps
<1>2. pi'.out.takeoff = FALSE
    BY AskingTakesNothingOff
<1> QED BY <1>1, <1>2 DEF Authority!Nothing, Moves, Guided

\* _on_mode_command gives a mandate, or refuses it.
LEMMA ModeCommandMandate ==
    ASSUME TypeOK, NEW m \in Commanded, NEW auto \in BOOLEAN, NEW planned \in BOOLEAN,
           ModeCommand(m, auto, planned)
    PROVE  Authority!Command(m)
<1> DEFINE entering == Entering(m)
           mode == IF entering /\ ~(planned /\ world.gps) THEN "IDLE" ELSE m
           rec == IF m \in {"FOLLOWING", "ORBITING"} THEN pi.recovery ELSE NoRecovery
           grid == IF entering /\ mode = "GRID_SEARCH" THEN "SEARCHING"
                   ELSE IF entering \/ m # "GRID_SEARCH" THEN "IDLE" ELSE pi.grid
           tk == IF mode = pi.requested THEN pi.takeoff
                 ELSE IF auto /\ mode \in GuidedModes THEN TakeoffStarted ELSE NoTakeoff
           ap == IF mode = "APPROACHING" THEN "APPROACHING" ELSE "IDLE"
           c == [pi EXCEPT !.out = Silent, !.recovery = rec, !.grid = grid, !.takeoff = tk,
                           !.requested = mode, !.approach = ap]
<1>1. pi \in Pi
    BY DEF TypeOK
<1>2. (pi' = c \/ pi' = AskMode(c, "GUIDED", "command")) /\ world' = world
    BY DEF ModeCommand
<1>3. /\ mode \in {m, "IDLE"}
      /\ RecoveryActive(rec) => RecoveryActive(pi.recovery) /\ m \in {"FOLLOWING", "ORBITING"}
      /\ TakeoffActive(tk) => IF mode = pi.requested THEN TakeoffActive(pi.takeoff)
                              ELSE mode \in GuidedModes
    BY DEF RecoveryActive, NoRecovery, TakeoffActive, NoTakeoff
<1>4. /\ mode \in Commanded /\ rec \in Recovery /\ tk \in Takeoff /\ ap \in ApproachState
      /\ grid \in {"IDLE", "SEARCHING", "FINISHED"}
    <2>1. mode \in Commanded
        BY DEF Commanded
    <2>2. rec \in Recovery /\ grid \in {"IDLE", "SEARCHING", "FINISHED"}
        BY <1>1, SearchAssumption DEF Pi, Recovery, NoRecovery
    <2>3. tk \in Takeoff /\ ap \in ApproachState
        BY <1>1, TakeoffAssumption DEF Pi, Takeoff, NoTakeoff, TakeoffStarted, ApproachState
    <2> QED BY <2>1, <2>2, <2>3
<1> HIDE DEF entering, mode, rec, grid, tk, ap
<1>5. /\ c \in Pi /\ c.out = Silent /\ c.requested = mode /\ c.takeoff = tk
      /\ c.recovery = rec
    BY <1>1, <1>4, SilentType DEF Pi
<1> HIDE DEF c
<1> QED BY <1>2, <1>3, <1>5, HandlerSends DEF Authority!Command

\* _on_abort takes it back, with all that was begun under it.
LEMMA AbortMandate ==
    ASSUME TypeOK, Abort
    PROVE  Authority!Stop
<1> DEFINE c == [Stopped(pi) EXCEPT !.out = Silent]
<1>1. pi \in Pi
    BY DEF TypeOK
<1>2. (pi' = c \/ pi' = AskMode(c, "BRAKE", "stop")) /\ world' = world
    BY DEF Abort
<1>3. /\ c \in Pi /\ c.out = Silent /\ c.requested = "IDLE" /\ c.takeoff = NoTakeoff
      /\ c.recovery = NoRecovery
    <2>1. "IDLE" \in Commanded /\ "IDLE" \in ApproachState /\ 0 \in 0 .. DropFrames
        BY CompanionAssumption DEF Commanded, ApproachState
    <2>2. NoTrack \in Track
        BY ReacquireAssumption DEF NoTrack, Track
    <2>3. NoRecovery \in Recovery
        BY SearchAssumption DEF NoRecovery, Recovery
    <2>4. NoTakeoff \in Takeoff
        BY TakeoffAssumption DEF NoTakeoff, Takeoff
    <2> QED BY <1>1, <2>1, <2>2, <2>3, <2>4, SilentType DEF Pi, Stopped
<1>4. ~RecoveryActive(NoRecovery) /\ ~TakeoffActive(NoTakeoff)
    BY DEF RecoveryActive, NoRecovery, TakeoffActive, NoTakeoff
<1> HIDE DEF c
<1> QED BY <1>2, <1>3, <1>4, HandlerSends DEF Authority!Stop

\* The answer to the question ends the search, and the mandate with it.
LEMMA AnswerLandMandate ==
    ASSUME TypeOK, NEW approved \in BOOLEAN, AnswerLand(approved)
    PROVE  Authority!Answer
<1> DEFINE c == [pi EXCEPT !.out = Silent, !.recovery = Confirming(pi.recovery),
                           !.requested = "IDLE"]
<1>1. pi \in Pi /\ pi.recovery.phase = "AWAITING"
    BY DEF TypeOK, AnswerLand, QuestionOpen
<1>2. (pi' = c \/ pi' = AskMode(c, "LAND", "land")) /\ world' = world
    BY DEF AnswerLand
<1>3. Confirming(pi.recovery) = NoRecovery /\ RecoveryActive(pi.recovery)
    BY <1>1 DEF Confirming, RecoveryActive
<1>4. /\ c \in Pi /\ c.out = Silent /\ c.requested = "IDLE" /\ c.takeoff = pi.takeoff
      /\ c.recovery = NoRecovery
    <2>1. "IDLE" \in Commanded /\ NoRecovery \in Recovery
        BY SearchAssumption DEF Commanded, NoRecovery, Recovery
    <2> QED BY <1>1, <1>3, <2>1, SilentType DEF Pi
<1>5. ~RecoveryActive(NoRecovery)
    BY DEF RecoveryActive, NoRecovery
<1> HIDE DEF c
<1> QED BY <1>2, <1>3, <1>4, <1>5, HandlerSends DEF Authority!Answer

\* A frame uses the mandate or gives it up.
LEMMA FrameFlies ==
    ASSUME TypeOK, IInv', NEW o \in Observation, Frame(o)
    PROVE  Authority!Fly
<1> DEFINE p == pi'
<1>1. pi \in Pi /\ world \in World /\ world' = world
    BY DEF TypeOK, Frame
<1>2. FrameMandate(p, o)
    BY <1>1, FrameType DEF Frame
<1>3. p.out.setpoint \in {"none", "zero", "move"} /\ p.out.takeoff \in BOOLEAN
    BY DEF IInv, TypeOK, Pi, Output
<1>4. p.out.setpoint = "move" => Guided /\ ~world.sticks
    BY <1>1 DEF IInv, Promises, MotionIsGated, Moves, Guided
<1> DEFINE sent == IF p.out.setpoint = "move" THEN p.out.by ELSE p.out.setpoint
           flown == [setpoint |-> sent, takeoff |-> p.out.takeoff]
<1>5. flown.setpoint = sent /\ flown.takeoff = p.out.takeoff
    OBVIOUS
<1>6. [setpoint |-> IF Moves THEN pi.out.by ELSE pi.out.setpoint,
       takeoff |-> pi.out.takeoff]' = flown
    BY DEF Moves
<1>7. /\ p.requested \in {pi.requested, "IDLE"}
      /\ RecoveryActive(p.recovery) =>
            RecoveryActive(pi.recovery) \/ pi.requested \in {"FOLLOWING", "ORBITING"}
      /\ TakeoffActive(p.takeoff) => TakeoffActive(pi.takeoff) /\ sent = "none"
      /\ p.out.takeoff => TakeoffActive(pi.takeoff) /\ sent = "none"
    BY <1>2 DEF FrameMandate
<1>8. (Guided /\ ~world.sticks)' = (Guided /\ ~world.sticks)
    BY <1>1 DEF Guided
<1>9. sent \notin {"none", "zero"} =>
         /\ Guided /\ ~world.sticks
         /\ \/ sent = pi.requested /\ p.requested = pi.requested /\ sent \in GuidedModes
            \/ sent = "SEARCHING" /\ RecoveryActive(p.recovery)
    BY <1>2, <1>3, <1>4 DEF FrameMandate
<1> HIDE DEF p, sent, flown
<1> QED BY <1>5, <1>6, <1>7, <1>8, <1>9 DEF Authority!Fly, Authority!Entitled, p

\* Every step is one of the abstract program's, or none of them.
LEMMA MandateStep ==
    IInv /\ IInv' /\ [Next]_vars => [Authority!AuthorityNext]_(Authority!authorityVars)
<1> SUFFICES ASSUME IInv, IInv', [Next]_vars
             PROVE  [Authority!AuthorityNext]_(Authority!authorityVars)
    OBVIOUS
<1> DEFINE c == [pi EXCEPT !.out = Silent]
<1>1. TypeOK
    BY DEF IInv
<1>2. /\ c \in Pi /\ c.out = Silent /\ c.requested = pi.requested
      /\ c.takeoff = pi.takeoff /\ c.recovery = pi.recovery
    BY <1>1, SilentType DEF TypeOK, Pi
<1>3. CASE UNCHANGED vars
    BY <1>3 DEF vars, Authority!authorityVars, Moves, Guided
<1>4. ASSUME NEW m \in Given.modes, NEW auto \in Given.auto, NEW planned \in BOOLEAN,
             ModeCommand(m, auto, planned)
      PROVE  \E n \in Commanded : Authority!Command(n)
    BY <1>1, <1>4, GivenType, ModeCommandMandate
<1>5. CASE Abort
    BY <1>1, <1>5, AbortMandate DEF Authority!AuthorityNext
<1>6. CASE SelectTarget
    <2> DEFINE d == [pi EXCEPT !.selection = TRUE, !.out = Silent]
    <2>1. /\ d \in Pi /\ d.out = Silent /\ d.requested = pi.requested
          /\ d.takeoff = pi.takeoff /\ d.recovery = pi.recovery
        BY <1>1, SilentType DEF TypeOK, Pi
    <2>2. pi' = d
        BY <1>6 DEF SelectTarget
    <2> HIDE DEF d
    <2> QED BY <2>1, <2>2, MandateQuiet DEF Authority!AuthorityNext
<1>7. ASSUME NEW m \in Given.dock, SetFlightMode(m)
      PROVE  Authority!Quiet
    <2>1. pi' = AskMode(c, m, "dock")
        BY <1>7 DEF SetFlightMode
    <2> HIDE DEF c
    <2> QED BY <1>2, <2>1, MandateQuiet
<1>8. ASSUME NEW approved \in BOOLEAN, AnswerLand(approved)
      PROVE  Authority!Answer
    BY <1>1, <1>8, AnswerLandMandate
<1>9. CASE Environment
    <2>1. pi' = c
        BY <1>1, <1>9, EnvironmentQuiet
    <2> HIDE DEF c
    <2> QED BY <1>2, <2>1, MandateQuiet DEF Authority!AuthorityNext
<1>10. ASSUME NEW o \in Given.finds, Frame(o)
       PROVE  Authority!Fly
    BY <1>1, <1>10, GivenType, FrameFlies
<1> QED BY <1>3, <1>4, <1>5, <1>6, <1>7, <1>8, <1>9, <1>10
        DEF Next, Operator, Authority!AuthorityNext

\* The program moves the aircraft only in the name of the mode the operator
\* commanded, or of a search begun under one, and only while the flight controller
\* and the pilot let it: Companion implements MotionAuthority (_on_mode_command,
\* _on_abort, _on_land_confirmation_response and process_frame).
THEOREM MandateIsKept == Spec => ActsOnAMandate
<1>1. IInv /\ IInv' /\ [Next]_vars => [Authority!AuthorityNext]_(Authority!authorityVars)
    BY MandateStep
<1> QED
    BY <1>1, MandateInit, Invariant, PTL DEF Spec, ActsOnAMandate, Authority!AuthoritySpec

-----------------------------------------------------------------------------
(* Clocks.  That a search and a takeoff end needs a frame now and then, which   *)
(* is fairness and TLC's part; it also needs that no frame loses time and no    *)
(* command gives it back, which is proved here.                                 *)

\* Time passes for a search: every frame that leaves it searching adds what has
\* passed since the one before, and nothing else takes time away (update).
SearchClock ==
    pi.recovery.phase = "SEARCHING" /\ pi'.recovery.phase = "SEARCHING" =>
        /\ pi'.recovery.age >= pi.recovery.age
        /\ \A o \in Observation : Frame(o) =>
              pi'.recovery.age = pi.recovery.age + o.dt /\ pi'.recovery.age < SearchTimeout

\* Time passes for a takeoff, unless the operator starts another.
TakeoffClock ==
    TakeoffActive(pi.takeoff) /\ TakeoffActive(pi'.takeoff) =>
        /\ pi'.takeoff.age >= pi.takeoff.age \/ StartsTakeoff
        /\ \A o \in Observation : Frame(o) =>
              pi'.takeoff.age = pi.takeoff.age + o.dt /\ pi'.takeoff.age < TakeoffTimeout

\* The time since the app was last heard of only grows while it is away.
LostClock ==
    ~world.comms =>
        /\ pi'.lostFor >= pi.lostFor
        /\ \A o \in Observation : Frame(o) =>
              pi'.lostFor > RtlAfter \/ pi'.lostFor >= pi.lostFor + o.dt

\* Nothing calls for the failsafe.
Calm(c) == c.lostFor <= RtlAfter /\ ~Critical

\* The latch is only ever set by asking for RTL ...
LatchIsEarned == pi.latched => hist.fired > 0

\* ... so an aircraft that the Pi holds, with nobody on the sticks, has been called
\* home by the end of the first frame that finds the app away too long, or the
\* battery empty.
CalledHome == pi.out.frame /\ ~Calm(pi) /\ PiInControl /\ ~world.sticks => hist.fired > 0

\* The recovery stage leaves a search that goes on as it is, and its time is not up.
LEMMA RecoverClock ==
    ASSUME world \in World, NEW c \in Pi, NEW o \in Observation, NEW e, e = Recover(c, o),
           c.recovery.phase = "SEARCHING", e.recovery.phase = "SEARCHING"
    PROVE  e.recovery = c.recovery /\ c.recovery.age < SearchTimeout
<1> DEFINE lost == c.track.phase = "TARGET_LOST" /\ c.requested \in {"FOLLOWING", "ORBITING"}
           found == c.track.phase = "TRACKING"
           land == Critical /\ o.tooFar
           r == IF lost THEN SearchStarted(c.recovery) ELSE c.recovery
           result == RecoveryResult(r, found, land)
           d == [c EXCEPT !.recovery = RecoveryAfter(r, result)]
<1>1. r = c.recovery /\ c.recovery \in Recovery
    BY DEF SearchStarted, RecoveryActive, Pi
<1>2. result \in {"FOUND", "SEARCHING", "ASK_LAND", "RTL"}
    BY <1>1 DEF RecoveryResult
<1>3. result = "SEARCHING" => c.recovery.age < SearchTimeout
    BY <1>1, SearchAssumption DEF RecoveryResult, Recovery
<1>4. RecoveryAfter(r, result).phase = "SEARCHING" => result = "SEARCHING"
    BY <1>2 DEF RecoveryAfter, NoRecovery
<1>5. result = "SEARCHING" => RecoveryAfter(r, result) = c.recovery
    BY <1>1 DEF RecoveryAfter
<1>6. d.recovery = RecoveryAfter(r, result)
    BY DEF Pi
<1>7. e.recovery = d.recovery
    <2> DEFINE back == [d EXCEPT !.requested = "IDLE", !.out.want = "IDLE"]
               asks == [d EXCEPT !.out.want = "IDLE", !.out.question = TRUE]
    <2>1. e \in {[d EXCEPT !.out.want = c.requested], [d EXCEPT !.out.want = "SEARCHING"],
                 asks, back, AskMode(back, "RTL", "recovery")}
        <3> HIDE DEF result, d, back, asks
        <3>1. CASE result = "FOUND"
            BY <3>1 DEF Recover, result, r, found, land, lost, d
        <3>2. CASE result = "SEARCHING"
            BY <3>2 DEF Recover, result, r, found, land, lost, d
        <3>3. CASE result = "ASK_LAND"
            BY <3>3 DEF Recover, result, r, found, land, lost, d, asks
        <3>4. CASE result = "RTL"
            BY <3>4 DEF Recover, result, r, found, land, lost, d, back
        <3> QED BY <1>2, <3>1, <3>2, <3>3, <3>4
    <2>2. \A x \in {c.requested, "SEARCHING", "IDLE"} :
              [d EXCEPT !.out.want = x].recovery = d.recovery
        BY DEF Pi
    <2>3. /\ asks.recovery = d.recovery /\ back.recovery = d.recovery
          /\ AskMode(back, "RTL", "recovery").recovery = d.recovery
        BY DEF AskMode, Pi
    <2> HIDE DEF d, back, asks
    <2> QED BY <2>1, <2>2, <2>3
<1> HIDE DEF r, result, d
<1> QED BY <1>3, <1>4, <1>5, <1>6, <1>7

\* The takeoff stage adds the time that has passed to a takeoff that goes on.
LEMMA ClimbClock ==
    ASSUME world \in World, NEW c \in Pi, NEW o \in Observation, NEW e, e = Climb(c, o),
           TakeoffActive(c.takeoff), TakeoffActive(e.takeoff)
    PROVE  e.takeoff.age = c.takeoff.age + o.dt /\ e.takeoff.age < TakeoffTimeout
<1> DEFINE action == TakeoffAction(c.takeoff, o.dt, world.armed, Guided, world.high)
           t == TakeoffAfter(c.takeoff, o.dt, action)
           u == IF o.written THEN t ELSE TakeoffRetried(t)
<1>1. c.takeoff \in Takeoff /\ o.dt \in {0, 1} /\ TakeoffTimeout \in Nat \ {0}
    BY TakeoffAssumption DEF Pi, Observation
<1>2. action \in {"timed_out", "hold", "ready", "send_takeoff"}
    BY DEF TakeoffAction
<1>3. action \in {"hold", "send_takeoff"} =>
         Elapsed(c.takeoff, o.dt) = c.takeoff.age + o.dt
         /\ Elapsed(c.takeoff, o.dt) < TakeoffTimeout
    BY <1>1 DEF TakeoffAction, Elapsed, Takeoff
<1> HIDE DEF action
<1>4. action \in {"hold", "send_takeoff"} =>
         t.age = Elapsed(c.takeoff, o.dt) /\ TakeoffRetried(t).age = t.age
    BY <1>1 DEF TakeoffAfter, TakeoffRetried, Takeoff
<1>5. e.takeoff \in {NoTakeoff} \/ (action \in {"hold", "send_takeoff"} /\ e.takeoff \in {t, u})
    <2> HIDE DEF t, u
    <2>1. CASE action = "send_takeoff"
        BY <2>1 DEF Climb, Pi, action, t, u
    <2>2. CASE action = "hold"
        BY <2>2 DEF Climb, Pi, action, t
    <2>3. CASE action = "timed_out"
        BY <2>3 DEF Climb, Pi, action
    <2>4. CASE action = "ready"
        <3>1. e.takeoff = TakeoffAfter(c.takeoff, o.dt, "ready")
            BY <2>4 DEF Climb, Pi, action
        <3> QED BY <3>1 DEF TakeoffAfter
    <2> QED BY <1>2, <2>1, <2>2, <2>3, <2>4
<1>6. ~TakeoffActive(NoTakeoff)
    BY DEF TakeoffActive, NoTakeoff
<1> QED BY <1>3, <1>4, <1>5, <1>6

\* What the failsafe does with its clock and its latch.
Watched(c, o, e) ==
    /\ e.lostFor = LostFor(c, o)
    /\ e.latched = IF Calm(e) THEN FALSE ELSE c.latched \/ (PiInControl /\ ~world.sticks)
    /\ ~c.latched /\ e.latched => FailsafeFired(e)

LEMMA FailsafeClock ==
    ASSUME NEW c \in Pi, NEW o \in Observation, NEW e, e = Failsafe(c, o)
    PROVE  Watched(c, o, e)
<1> DEFINE d == [c EXCEPT !.lostFor = LostFor(c, o)]
           f == AskMode(d, "RTL", "failsafe")
           g == [f EXCEPT !.latched = TRUE, !.requested = "IDLE", !.takeoff = NoTakeoff]
           h == [d EXCEPT !.latched = FALSE]
<1>1. /\ d.lostFor = LostFor(c, o) /\ d.latched = c.latched
      /\ h.lostFor = LostFor(c, o) /\ h.latched = FALSE
      /\ g.lostFor = LostFor(c, o) /\ g.latched = TRUE
    BY DEF Pi, AskMode
<1>2. FailsafeFired(g)
    <2>1. g.out = Asking(c.out, "RTL", "failsafe")
        BY DEF Pi, AskMode
    <2>2. Asking(c.out, "RTL", "failsafe").asked = c.out.asked \cup {<<"RTL", "failsafe">>}
        BY DEF Asking, Pi, Output
    <2> HIDE DEF g
    <2> QED BY <2>1, <2>2 DEF FailsafeFired
<1>3. c.latched \in BOOLEAN
    BY DEF Pi
<1>4. e = IF Calm(d) THEN h ELSE IF c.latched \/ ~PiInControl \/ world.sticks THEN d ELSE g
    <2>1. Latched(d) = c.latched
        BY <1>1 DEF Latched
    <2> HIDE DEF h, g
    <2> QED BY <2>1 DEF Failsafe, Calm, h, g, f, d
<1> HIDE DEF d, f, g, h
<1>5. Calm(d) = Calm(h) /\ Calm(d) = Calm(g)
    BY <1>1 DEF Calm
<1>6. CASE Calm(d)
    BY <1>1, <1>4, <1>5, <1>6 DEF Watched
<1>7. CASE ~Calm(d) /\ (c.latched \/ ~PiInControl \/ world.sticks)
    BY <1>1, <1>3, <1>4, <1>7 DEF Watched
<1>8. CASE ~Calm(d) /\ ~(c.latched \/ ~PiInControl \/ world.sticks)
    BY <1>1, <1>2, <1>4, <1>5, <1>8 DEF Watched
<1> QED BY <1>6, <1>7, <1>8

\* The dispatch asks for no flight mode.
LEMMA DispatchAsks ==
    ASSUME NEW c \in Pi, NEW o \in Observation, NEW e, e = Dispatch(c, o)
    PROVE  e.out.asked = c.out.asked
<1> DEFINE s == Decision(ConditionsOf(c, o))
           allowed == GuidanceAllowed(ConditionsOf(c, o))
           runs == ~c.out.holding /\ ~(allowed /\ world.ground)
           m == CommandOf(c, o, s)
           command == IF runs /\ allowed THEN m ELSE "none"
           grid == IF runs /\ s = "GRID_SEARCH" THEN GridAfter(c, o) ELSE c.grid
           approach == IF runs /\ s = "APPROACHING"
                       THEN ApproachAfter(c.approach, ApproachInput(c, o)) ELSE c.approach
           requested == IF runs /\ s = "GRID_SEARCH" /\ grid = "FINISHED"
                        THEN "IDLE" ELSE c.requested
           setpoint == IF o.written THEN command ELSE "none"
<1>1. e = [c EXCEPT !.approach = approach, !.grid = grid, !.requested = requested,
                    !.out.setpoint = setpoint, !.out.by = s]
    BY DEF Dispatch
<1> HIDE DEF s, allowed, runs, m, command, grid, approach, requested, setpoint
<1>2. e.out = [c.out EXCEPT !.setpoint = setpoint, !.by = s]
    BY <1>1 DEF Pi
<1> QED BY <1>2 DEF Pi, Output

\* A frame, from its start to its end.
LEMMA FrameClocks ==
    ASSUME world \in World, pi \in Pi, NEW o \in Observation, NEW p, p = Processed(o)
    PROVE  /\ Watched(pi, o, p)
           /\ pi.recovery.phase = "SEARCHING" /\ p.recovery.phase = "SEARCHING" =>
                 p.recovery.age = pi.recovery.age + o.dt /\ p.recovery.age < SearchTimeout
           /\ TakeoffActive(pi.takeoff) /\ TakeoffActive(p.takeoff) =>
                 p.takeoff.age = pi.takeoff.age + o.dt /\ p.takeoff.age < TakeoffTimeout
<1> DEFINE out == [Silent EXCEPT !.frame = TRUE, !.written = o.written]
           c0 == [pi EXCEPT !.out = out]
           c2 == Identify(Rematch(TrackTarget(
                     Select(Perceive(ResolveMode(c0, o), o), o), o), o), o)
           k == HandBack(c2)
           r == Recover(k, o)
           t == Climb(r, o)
           f == Failsafe(t, o)
           d == Dispatch(f, o)
<1>1. out \in Output
    BY DEF Silent, Output, SupervisorState, Commanded, Observation
<1> HIDE DEF out
<1>2. /\ c0 \in Pi /\ c0.recovery = pi.recovery /\ c0.takeoff = pi.takeoff
      /\ c0.lostFor = pi.lostFor /\ c0.latched = pi.latched
    BY <1>1 DEF Pi
<1> HIDE DEF c0
<1>3. c2 \in Pi /\ SameCourse(c0, c2) /\ c2.recovery = Searching(c0.recovery, o.dt)
    BY <1>2, LookingStages
<1> HIDE DEF c2
<1>4. k \in Pi /\ SameCourse(c2, k) /\ k.recovery = c2.recovery
    BY <1>3, HandBackStage
<1> HIDE DEF k
<1>5. /\ k.recovery = Searching(pi.recovery, o.dt) /\ k.takeoff = pi.takeoff
      /\ k.lostFor = pi.lostFor /\ k.latched = pi.latched
    BY <1>2, <1>3, <1>4 DEF SameCourse
<1>6. /\ Recovered(k, r)
      /\ k.recovery.phase = "SEARCHING" /\ r.recovery.phase = "SEARCHING" =>
            r.recovery = k.recovery /\ k.recovery.age < SearchTimeout
    BY <1>4, RecoverStage, RecoverClock
<1> HIDE DEF r
<1>7. /\ Climbed(r, t)
      /\ TakeoffActive(r.takeoff) /\ TakeoffActive(t.takeoff) =>
            t.takeoff.age = r.takeoff.age + o.dt /\ t.takeoff.age < TakeoffTimeout
    BY <1>6, ClimbStage, ClimbClock DEF Recovered
<1> HIDE DEF t
<1>8. Failsafed(t, f) /\ Watched(t, o, f)
    BY <1>7, FailsafeStage, FailsafeClock DEF Climbed
<1> HIDE DEF f
<1>9. Dispatched(f, o, d) /\ d.out.asked = f.out.asked
    BY <1>8, DispatchStage, DispatchAsks DEF Failsafed
<1> HIDE DEF d
<1>10. p = EnforceStop(d, o)
    BY DEF Processed, c0, out, c2, k, r, t, f, d
<1>11. StopEnforced(d, o, p)
    BY <1>9, <1>10, EnforceStopStage DEF Dispatched
<1> HIDE DEF c0, out, c2, k, r, t, f, d
<1>12. p.recovery = r.recovery /\ p.takeoff \in {t.takeoff, NoTakeoff}
    BY <1>7, <1>8, <1>9, <1>11 DEF Climbed, Failsafed, Dispatched, StopEnforced
<1>13. ASSUME pi.recovery.phase = "SEARCHING", p.recovery.phase = "SEARCHING"
       PROVE  p.recovery.age = pi.recovery.age + o.dt /\ p.recovery.age < SearchTimeout
    <2>1. pi.recovery \in Recovery /\ o.dt \in {0, 1} /\ SearchTimeout \in Nat \ {0}
        BY SearchAssumption DEF Pi, Observation
    <2>2. k.recovery.phase = "SEARCHING"
        BY <1>5, <1>13, <2>1 DEF Searching, Recovery
    <2>3. p.recovery.age = k.recovery.age /\ k.recovery.age < SearchTimeout
        BY <1>6, <1>12, <1>13, <2>2
    <2> QED BY <1>5, <1>13, <2>1, <2>3 DEF Searching, Recovery
<1>14. ASSUME TakeoffActive(pi.takeoff), TakeoffActive(p.takeoff)
       PROVE  p.takeoff.age = pi.takeoff.age + o.dt /\ p.takeoff.age < TakeoffTimeout
    <2>1. p.takeoff = t.takeoff
        BY <1>12, <1>14 DEF TakeoffActive, NoTakeoff
    <2>2. r.takeoff = pi.takeoff
        BY <1>5, <1>6 DEF Recovered
    <2> QED BY <1>7, <1>14, <2>1, <2>2
<1>15. Watched(pi, o, p)
    <2>1. t.lostFor = pi.lostFor /\ t.latched = pi.latched
        BY <1>5, <1>6, <1>7 DEF Recovered, Climbed, SameFailsafe
    <2>2. p.lostFor = f.lostFor /\ p.latched = f.latched /\ p.out.asked = f.out.asked
        BY <1>9, <1>11 DEF Dispatched, StopEnforced, SameFailsafe
    <2>3. LostFor(t, o) = LostFor(pi, o) /\ Calm(p) = Calm(f)
        BY <2>1, <2>2 DEF LostFor, Calm
    <2> QED BY <1>8, <2>1, <2>2, <2>3 DEF Watched, FailsafeFired
<1> QED BY <1>13, <1>14, <1>15

\* Whatever is no frame leaves both clocks, ends what they time, or starts another
\* takeoff.
LEMMA OtherClocks ==
    ASSUME TypeOK, Operator \/ Environment
    PROVE  /\ pi'.recovery \in {pi.recovery, Confirming(pi.recovery), NoRecovery}
           /\ pi'.takeoff \in {pi.takeoff, NoTakeoff} \/ StartsTakeoff
<1> DEFINE c == [pi EXCEPT !.out = Silent]
<1>1. pi \in Pi
    BY DEF TypeOK
<1>2. c \in Pi /\ c.out = Silent /\ c.takeoff = pi.takeoff /\ c.recovery = pi.recovery
    BY <1>1, SilentType DEF Pi
<1>3. ASSUME NEW m \in Given.modes, NEW auto \in Given.auto, NEW planned \in BOOLEAN,
             ModeCommand(m, auto, planned)
      PROVE  /\ pi'.recovery \in {pi.recovery, NoRecovery}
             /\ pi'.takeoff \in {pi.takeoff, NoTakeoff} \/ StartsTakeoff
    <2> DEFINE entering == Entering(m)
               mode == IF entering /\ ~(planned /\ world.gps) THEN "IDLE" ELSE m
               rec == IF m \in {"FOLLOWING", "ORBITING"} THEN pi.recovery ELSE NoRecovery
               grid == IF entering /\ mode = "GRID_SEARCH" THEN "SEARCHING"
                       ELSE IF entering \/ m # "GRID_SEARCH" THEN "IDLE" ELSE pi.grid
               tk == IF mode = pi.requested THEN pi.takeoff
                     ELSE IF auto /\ mode \in GuidedModes THEN TakeoffStarted ELSE NoTakeoff
               ap == IF mode = "APPROACHING" THEN "APPROACHING" ELSE "IDLE"
               e == [pi EXCEPT !.out = Silent, !.recovery = rec, !.grid = grid, !.takeoff = tk,
                               !.requested = mode, !.approach = ap]
    <2>1. m \in Commanded
        BY <1>3, GivenType
    <2>2. pi' = e \/ pi' = AskMode(e, "GUIDED", "command")
        BY <1>3 DEF ModeCommand
    <2>3. /\ rec \in {pi.recovery, NoRecovery}
          /\ tk \in {pi.takeoff, NoTakeoff} \/ (tk = TakeoffStarted /\ mode # pi.requested)
        OBVIOUS
    <2>4. /\ mode \in Commanded /\ rec \in Recovery /\ tk \in Takeoff /\ ap \in ApproachState
          /\ grid \in {"IDLE", "SEARCHING", "FINISHED"}
        <3>1. mode \in Commanded
            BY <2>1 DEF Commanded
        <3>2. rec \in Recovery /\ grid \in {"IDLE", "SEARCHING", "FINISHED"}
            BY <1>1, SearchAssumption DEF Pi, Recovery, NoRecovery
        <3>3. tk \in Takeoff /\ ap \in ApproachState
            BY <1>1, TakeoffAssumption
            DEF Pi, Takeoff, NoTakeoff, TakeoffStarted, ApproachState
        <3> QED BY <3>1, <3>2, <3>3
    <2> HIDE DEF entering, mode, rec, grid, tk, ap
    <2>5. /\ e \in Pi /\ e.out = Silent /\ e.requested = mode /\ e.takeoff = tk
          /\ e.recovery = rec
        BY <1>1, <2>4, SilentType DEF Pi
    <2> HIDE DEF e
    <2>6. pi'.requested = mode /\ pi'.takeoff = tk /\ pi'.recovery = rec
        BY <2>2, <2>5, AskModeKeeps
    <2> QED BY <2>3, <2>6 DEF StartsTakeoff
<1>4. CASE Abort
    <2> DEFINE e == [Stopped(pi) EXCEPT !.out = Silent]
    <2>1. pi' = e \/ pi' = AskMode(e, "BRAKE", "stop")
        BY <1>4 DEF Abort
    <2>2. e.takeoff = NoTakeoff /\ e.recovery = NoRecovery
        BY <1>1 DEF Stopped, Pi
    <2>3. AskMode(e, "BRAKE", "stop").takeoff = e.takeoff
          /\ AskMode(e, "BRAKE", "stop").recovery = e.recovery
        BY <1>1 DEF AskMode, Stopped, Pi
    <2> HIDE DEF e
    <2> QED BY <2>1, <2>2, <2>3
<1>5. CASE SelectTarget
    BY <1>1, <1>5 DEF SelectTarget, Pi
<1>6. ASSUME NEW m \in Given.dock, SetFlightMode(m)
      PROVE  pi'.recovery = pi.recovery /\ pi'.takeoff = pi.takeoff
    <2>1. pi' = AskMode(c, m, "dock")
        BY <1>6 DEF SetFlightMode
    <2> HIDE DEF c
    <2> QED BY <1>2, <2>1, AskModeKeeps
<1>7. ASSUME NEW approved \in BOOLEAN, AnswerLand(approved)
      PROVE  pi'.recovery = Confirming(pi.recovery) /\ pi'.takeoff = pi.takeoff
    <2> DEFINE e == [pi EXCEPT !.out = Silent, !.recovery = Confirming(pi.recovery),
                               !.requested = "IDLE"]
    <2>1. pi' = e \/ pi' = AskMode(e, "LAND", "land")
        BY <1>7 DEF AnswerLand
    <2>2. e.recovery = Confirming(pi.recovery) /\ e.takeoff = pi.takeoff
        BY <1>1 DEF Pi
    <2>3. AskMode(e, "LAND", "land").takeoff = e.takeoff
          /\ AskMode(e, "LAND", "land").recovery = e.recovery
        BY <1>1 DEF AskMode, Pi
    <2> HIDE DEF e
    <2> QED BY <2>1, <2>2, <2>3
<1>8. CASE Environment
    <2>1. pi' = c
        BY <1>8, EnvironmentQuiet
    <2> HIDE DEF c
    <2> QED BY <1>2, <2>1
<1> QED BY <1>3, <1>4, <1>5, <1>6, <1>7, <1>8 DEF Operator

\* Whatever is no frame leaves the failsafe alone.
LEMMA OtherWatch ==
    ASSUME TypeOK, Operator \/ Environment
    PROVE  /\ pi'.lostFor = pi.lostFor /\ pi'.latched = pi.latched /\ pi'.out.frame = FALSE
           /\ hist'.fired = hist.fired
<1> DEFINE Same(c) == /\ c \in Pi /\ c.out = Silent
                      /\ c.lostFor = pi.lostFor /\ c.latched = pi.latched
           c0 == [pi EXCEPT !.out = Silent]
<1>1. pi \in Pi
    BY DEF TypeOK
<1>2. ASSUME NEW c, Same(c), NEW m, NEW why, pi' = c \/ pi' = AskMode(c, m, why)
      PROVE  pi'.lostFor = pi.lostFor /\ pi'.latched = pi.latched /\ pi'.out.frame = FALSE
    <2>1. AskMode(c, m, why).out = Asking(Silent, m, why)
        BY <1>2 DEF AskMode, Pi
    <2>2. Asking(Silent, m, why).frame = FALSE /\ Silent.frame = FALSE
        BY DEF Asking, Silent
    <2>3. AskMode(c, m, why).lostFor = c.lostFor /\ AskMode(c, m, why).latched = c.latched
        BY <1>2 DEF AskMode, Pi
    <2> QED BY <1>2, <2>1, <2>2, <2>3
<1>3. Same(c0)
    BY <1>1, SilentType DEF Pi
<1>4. ASSUME NEW m \in Given.modes, NEW auto \in Given.auto, NEW planned \in BOOLEAN,
             ModeCommand(m, auto, planned)
      PROVE  \E c : Same(c) /\ (pi' = c \/ pi' = AskMode(c, "GUIDED", "command"))
    <2> DEFINE entering == Entering(m)
               mode == IF entering /\ ~(planned /\ world.gps) THEN "IDLE" ELSE m
               rec == IF m \in {"FOLLOWING", "ORBITING"} THEN pi.recovery ELSE NoRecovery
               grid == IF entering /\ mode = "GRID_SEARCH" THEN "SEARCHING"
                       ELSE IF entering \/ m # "GRID_SEARCH" THEN "IDLE" ELSE pi.grid
               tk == IF mode = pi.requested THEN pi.takeoff
                     ELSE IF auto /\ mode \in GuidedModes THEN TakeoffStarted ELSE NoTakeoff
               ap == IF mode = "APPROACHING" THEN "APPROACHING" ELSE "IDLE"
               e == [pi EXCEPT !.out = Silent, !.recovery = rec, !.grid = grid, !.takeoff = tk,
                               !.requested = mode, !.approach = ap]
    <2>1. pi' = e \/ pi' = AskMode(e, "GUIDED", "command")
        BY <1>4 DEF ModeCommand
    <2>2. m \in Commanded
        BY <1>4, GivenType
    <2>3. mode \in Commanded
        BY <2>2 DEF Commanded
    <2>4. rec \in Recovery /\ grid \in {"IDLE", "SEARCHING", "FINISHED"}
        BY <1>1, SearchAssumption DEF Pi, Recovery, NoRecovery
    <2>5. tk \in Takeoff /\ ap \in ApproachState
        BY <1>1, TakeoffAssumption
        DEF Pi, Takeoff, NoTakeoff, TakeoffStarted, ApproachState
    <2> HIDE DEF entering, mode, rec, grid, tk, ap
    <2>6. Same(e)
        BY <1>1, <2>3, <2>4, <2>5, SilentType DEF Pi
    <2> HIDE DEF e
    <2> QED BY <2>1, <2>6
<1>5. CASE Abort
    <2> DEFINE e == [Stopped(pi) EXCEPT !.out = Silent]
    <2>1. pi' = e \/ pi' = AskMode(e, "BRAKE", "stop")
        BY <1>5 DEF Abort
    <2>2. Same(e)
        <3>1. "IDLE" \in Commanded /\ "IDLE" \in ApproachState /\ 0 \in 0 .. DropFrames
            BY CompanionAssumption DEF Commanded, ApproachState
        <3>2. NoTrack \in Track
            BY ReacquireAssumption DEF NoTrack, Track
        <3>3. NoRecovery \in Recovery
            BY SearchAssumption DEF NoRecovery, Recovery
        <3>4. NoTakeoff \in Takeoff
            BY TakeoffAssumption DEF NoTakeoff, Takeoff
        <3>5. e \in Pi /\ e.out = Silent
            BY <1>1, <3>1, <3>2, <3>3, <3>4, SilentType DEF Pi, Stopped
        <3>6. e.lostFor = pi.lostFor /\ e.latched = pi.latched
            BY <1>1 DEF Pi, Stopped
        <3> QED BY <3>5, <3>6
    <2>3. hist'.fired = hist.fired
        BY <1>5 DEF Abort, TypeOK
    <2> HIDE DEF e, Same
    <2> QED BY <1>2, <2>1, <2>2, <2>3
<1>6. CASE SelectTarget
    <2> DEFINE e == [pi EXCEPT !.selection = TRUE, !.out = Silent]
    <2>1. Same(e)
        BY <1>1, SilentType DEF Pi
    <2>2. pi' = e /\ hist' = hist
        BY <1>6 DEF SelectTarget
    <2> HIDE DEF e, Same
    <2> QED BY <1>2, <2>1, <2>2
<1>7. ASSUME NEW m \in Given.dock, SetFlightMode(m)
      PROVE  pi' = AskMode(c0, m, "dock") /\ hist' = hist
    BY <1>7 DEF SetFlightMode
<1>8. ASSUME NEW approved \in BOOLEAN, AnswerLand(approved)
      PROVE  \E c : Same(c) /\ (pi' = c \/ pi' = AskMode(c, "LAND", "land"))
    <2> DEFINE e == [pi EXCEPT !.out = Silent, !.recovery = Confirming(pi.recovery),
                               !.requested = "IDLE"]
    <2>1. pi' = e \/ pi' = AskMode(e, "LAND", "land")
        BY <1>8 DEF AnswerLand
    <2>2. "IDLE" \in Commanded /\ Confirming(pi.recovery) \in Recovery
        BY <1>1, SearchAssumption DEF Commanded, Confirming, NoRecovery, Recovery, Pi
    <2>3. Same(e)
        BY <1>1, <2>2, SilentType DEF Pi
    <2> HIDE DEF e
    <2> QED BY <2>1, <2>3
<1>9. CASE Environment
    <2>1. pi' = c0 /\ (hist' = hist \/ hist' = WorldEffect(world'))
        BY <1>9, EnvironmentQuiet
    <2>2. hist'.fired = hist.fired
        BY <2>1 DEF WorldEffect, TypeOK
    <2> HIDE DEF c0, Same
    <2> QED BY <1>2, <1>3, <2>1, <2>2
<1>10. ASSUME NEW m \in Given.modes, NEW auto \in Given.auto, NEW planned \in BOOLEAN,
              ModeCommand(m, auto, planned)
       PROVE  hist'.fired = hist.fired
    <2> DEFINE mode == IF Entering(m) /\ ~(planned /\ world.gps) THEN "IDLE" ELSE m
               a == hist.asked /\ m \in {"FOLLOWING", "ORBITING"}
               b == (hist.planned \/ Entering(m)) /\ mode = "GRID_SEARCH"
    <2>1. hist' = [hist EXCEPT !.stopped = FALSE, !.approached = FALSE, !.breached = "no",
                               !.asked = a, !.planned = b]
        BY <1>10 DEF ModeCommand, TypeOK
    <2> HIDE DEF mode, a, b
    <2> QED BY <2>1 DEF TypeOK
<1>11. ASSUME NEW approved \in BOOLEAN, AnswerLand(approved)
       PROVE  hist'.fired = hist.fired
    <2> DEFINE a == hist.asked /\ approved
    <2>1. hist' = [hist EXCEPT !.asked = a, !.planned = FALSE]
        BY <1>11 DEF AnswerLand, TypeOK
    <2> HIDE DEF a
    <2> QED BY <2>1 DEF TypeOK
<1> HIDE DEF c0, Same
<1>12. ASSUME NEW m \in Given.modes, NEW auto \in Given.auto, NEW planned \in BOOLEAN,
              ModeCommand(m, auto, planned)
       PROVE  /\ pi'.lostFor = pi.lostFor /\ pi'.latched = pi.latched
              /\ pi'.out.frame = FALSE /\ hist'.fired = hist.fired
    BY <1>2, <1>4, <1>10, <1>12
<1>13. ASSUME NEW approved \in BOOLEAN, AnswerLand(approved)
       PROVE  /\ pi'.lostFor = pi.lostFor /\ pi'.latched = pi.latched
              /\ pi'.out.frame = FALSE /\ hist'.fired = hist.fired
    BY <1>2, <1>8, <1>13, <1>11
<1>14. ASSUME NEW m \in Given.dock, SetFlightMode(m)
       PROVE  /\ pi'.lostFor = pi.lostFor /\ pi'.latched = pi.latched
              /\ pi'.out.frame = FALSE /\ hist'.fired = hist.fired
    BY <1>2, <1>3, <1>7, <1>14
<1> QED BY <1>5, <1>6, <1>9, <1>12, <1>13, <1>14 DEF Operator

\* What each step does to the two clocks.
LEMMA ClockStep == TypeOK /\ [Next]_vars => SearchClock /\ TakeoffClock
<1> SUFFICES ASSUME TypeOK, [Next]_vars PROVE SearchClock /\ TakeoffClock
    OBVIOUS
<1>1. /\ pi \in Pi /\ world \in World /\ pi.recovery \in Recovery /\ pi.takeoff \in Takeoff
      /\ pi.recovery.age \in Nat /\ pi.takeoff.age \in Nat
    BY SearchAssumption, TakeoffAssumption DEF TypeOK, Pi, Recovery, Takeoff
<1>2. ASSUME NEW o \in Observation, Frame(o)
      PROVE  /\ pi.recovery.phase = "SEARCHING" /\ pi'.recovery.phase = "SEARCHING" =>
                   /\ pi'.recovery.age = pi.recovery.age + o.dt
                   /\ pi'.recovery.age < SearchTimeout
             /\ TakeoffActive(pi.takeoff) /\ TakeoffActive(pi'.takeoff) =>
                   /\ pi'.takeoff.age = pi.takeoff.age + o.dt
                   /\ pi'.takeoff.age < TakeoffTimeout
             /\ o.dt \in {0, 1}
    BY <1>1, <1>2, FrameClocks DEF Frame, Observation
<1>3. /\ pi.recovery.phase = "SEARCHING" /\ pi'.recovery.phase = "SEARCHING" =>
            pi'.recovery.age >= pi.recovery.age
      /\ TakeoffActive(pi.takeoff) /\ TakeoffActive(pi'.takeoff) =>
            pi'.takeoff.age >= pi.takeoff.age \/ StartsTakeoff
    <2>1. CASE UNCHANGED vars
        BY <1>1, <2>1 DEF vars
    <2>2. CASE Operator \/ Environment
        <3>1. /\ pi'.recovery \in {pi.recovery, Confirming(pi.recovery), NoRecovery}
              /\ pi'.takeoff \in {pi.takeoff, NoTakeoff} \/ StartsTakeoff
            BY <2>2, OtherClocks
        <3>2. pi.recovery.phase = "SEARCHING" => Confirming(pi.recovery) = pi.recovery
            BY DEF Confirming
        <3>3. NoRecovery.phase # "SEARCHING" /\ ~TakeoffActive(NoTakeoff)
            BY DEF NoRecovery, TakeoffActive, NoTakeoff
        <3> QED BY <1>1, <3>1, <3>2, <3>3
    <2>3. ASSUME NEW o \in Given.finds, Frame(o)
          PROVE  /\ pi.recovery.phase = "SEARCHING" /\ pi'.recovery.phase = "SEARCHING" =>
                       pi'.recovery.age >= pi.recovery.age
                 /\ TakeoffActive(pi.takeoff) /\ TakeoffActive(pi'.takeoff) =>
                       pi'.takeoff.age >= pi.takeoff.age \/ StartsTakeoff
        BY <1>1, <1>2, <2>3, GivenType
    <2> QED BY <2>1, <2>2, <2>3 DEF Next
<1> QED BY <1>2, <1>3 DEF SearchClock, TakeoffClock

\* The time of a search only runs forward, by what passes between its frames, and a
\* frame in which it is up ends it: no command and no change of mode between Follow
\* and Orbit gives it more (search_timeout_s).
THEOREM SearchesAreTimed == Spec => [][SearchClock]_vars
<1>1. IInv => TypeOK
    BY DEF IInv
<1> QED BY <1>1, ClockStep, Invariant, PTL DEF Spec

\* So does that of a takeoff, except that the operator may start another one
\* (timeout_s of auto_takeoff).
THEOREM TakeoffsAreTimed == Spec => [][TakeoffClock]_vars
<1>1. IInv => TypeOK
    BY DEF IInv
<1> QED BY <1>1, ClockStep, Invariant, PTL DEF Spec

\* Each step adds to the time without the app, or leaves it.
LEMMA LostClockStep == TypeOK /\ [Next]_vars => LostClock
<1> SUFFICES ASSUME TypeOK, [Next]_vars, ~world.comms
             PROVE  /\ pi'.lostFor >= pi.lostFor
                    /\ \A o \in Observation : Frame(o) =>
                          pi'.lostFor > RtlAfter \/ pi'.lostFor >= pi.lostFor + o.dt
    BY DEF LostClock
<1>1. /\ pi \in Pi /\ world \in World /\ pi.lostFor \in 0 .. RtlAfter + 1
      /\ RtlAfter \in Nat \ {0}
    BY CompanionAssumption DEF TypeOK, Pi
<1>2. ASSUME NEW o \in Observation, Frame(o)
      PROVE  /\ pi'.lostFor > RtlAfter \/ pi'.lostFor >= pi.lostFor + o.dt
             /\ pi'.lostFor >= pi.lostFor
    <2>1. pi'.lostFor = LostFor(pi, o) /\ o.dt \in {0, 1}
        BY <1>1, <1>2, FrameClocks DEF Frame, Watched, Observation
    <2> QED BY <1>1, <2>1 DEF LostFor
<1>3. pi'.lostFor >= pi.lostFor
    <2>1. CASE pi'.lostFor = pi.lostFor
        BY <1>1, <2>1
    <2>2. CASE \E o \in Given.finds : Frame(o)
        BY <1>2, <2>2, GivenType
    <2> QED BY <2>1, <2>2, OtherWatch DEF Next, vars
<1> QED BY <1>2, <1>3

\* CalledHome is inductive with LatchIsEarned: the frame that latches is the frame that
\* asks, and a latched one has asked before.
LEMMA HomeInvariant == Spec => [](LatchIsEarned /\ CalledHome)
<1>1. Init => LatchIsEarned /\ CalledHome
    BY SilentType DEF Init, LatchIsEarned, CalledHome
<1>2. TypeOK /\ FiringIsLatched /\ LatchIsEarned /\ CalledHome /\ [Next]_vars
         => LatchIsEarned' /\ CalledHome'
    <2> SUFFICES ASSUME TypeOK, FiringIsLatched, LatchIsEarned, CalledHome, [Next]_vars
                 PROVE  LatchIsEarned' /\ CalledHome'
        OBVIOUS
    <2>1. CASE UNCHANGED vars
        BY <2>1 DEF vars, LatchIsEarned, CalledHome, Calm, Critical, PiInControl, Guided
    <2>2. CASE Operator \/ Environment
        BY <2>2, OtherWatch DEF LatchIsEarned, CalledHome
    <2>3. ASSUME NEW o \in Given.finds, Frame(o)
          PROVE  LatchIsEarned' /\ CalledHome'
        <3> DEFINE p == pi'
        <3>1. Watched(pi, o, p) /\ world' = world
            BY <2>3, FrameClocks, GivenType DEF Frame, TypeOK
        <3>2. hist'.fired = IF Calm(p) THEN 0
                            ELSE IF FailsafeFired(p) /\ hist.fired < 2
                                 THEN hist.fired + 1 ELSE hist.fired
            <4> DEFINE fired == IF p.lostFor <= RtlAfter /\ ~Critical THEN 0
                                ELSE IF FailsafeFired(p) /\ hist.fired < 2
                                     THEN hist.fired + 1 ELSE hist.fired
                       ask == p.out.question \/ (hist.asked /\ p.track.phase # "TRACKING")
                       coast == CoastingAfter(p)
                       abort == MustAbort(ApproachInput(p, o))
                       approached == hist.approached
                                        \/ (p.out.setpoint = "move" /\ p.out.by = "APPROACHING")
                       breached == IF ~(hist.approached /\ abort) THEN hist.breached
                                   ELSE IF p.out.by = "APPROACHING" /\ ~world.ground THEN "seen"
                                   ELSE IF hist.breached = "no" THEN "masked" ELSE hist.breached
                       planned == hist.planned /\ p.requested = "GRID_SEARCH"
            <4>1. hist' = [hist EXCEPT !.coasting = coast, !.asked = ask, !.fired = fired,
                                       !.approached = approached, !.breached = breached,
                                       !.planned = planned]
                <5>1. hist' = AfterFrame(p, o)
                    BY <2>3 DEF Frame
                <5> HIDE DEF p, coast
                <5> QED BY <5>1 DEF AfterFrame, TypeOK, coast
            <4>2. hist'.fired = fired
                <5> HIDE DEF p, fired, approached, breached, planned, ask, coast
                <5> QED BY <4>1 DEF TypeOK
            <4> QED BY <4>2 DEF Calm
        <3>3. hist.fired \in {0, 1}
            BY DEF FiringIsLatched
        <3>4. /\ Calm(pi)' = Calm(p) /\ PiInControl' = PiInControl
              /\ world'.sticks = world.sticks
            <4>1. world' = world
                BY <3>1
            <4> QED BY <4>1 DEF Calm, Critical, PiInControl, Guided
        <3>5. p.latched => hist'.fired > 0
            <4>1. /\ p.latched => ~Calm(p) /\ (pi.latched \/ FailsafeFired(p))
                  /\ pi.latched => hist.fired > 0
                BY <3>1 DEF Watched, LatchIsEarned
            <4> HIDE DEF p
            <4>2. CASE hist.fired = 0
                BY <3>2, <4>1, <4>2
            <4>3. CASE hist.fired = 1
                BY <3>2, <4>1, <4>3
            <4> QED BY <3>3, <4>2, <4>3
        <3>6. ~Calm(p) /\ PiInControl /\ ~world.sticks => p.latched
            BY <3>1 DEF Watched
        <3> QED BY <3>4, <3>5, <3>6 DEF LatchIsEarned, CalledHome
    <2> QED BY <2>1, <2>2, <2>3 DEF Next
<1>3. Memory => FiringIsLatched
    BY DEF Memory
<1>4. IInv => TypeOK
    BY DEF IInv
<1> QED BY <1>1, <1>2, <1>3, <1>4, Invariant, MemoryHolds, PTL DEF Spec

\* While the app is away its time away only grows, by what passes between frames, so
\* that enough frames always make it too long (_comms_lost_since).
THEOREM AbsenceIsTimed == Spec => [][LostClock]_vars
<1>1. IInv => TypeOK
    BY DEF IInv
<1> QED BY <1>1, LostClockStep, Invariant, PTL DEF Spec

\* A frame that finds the app away too long, or the battery empty, ends with the
\* aircraft called home, if the Pi holds it and nobody is on the sticks
\* (_update_failsafe_rtl).
THEOREM LostAircraftIsCalledHome == Spec => []CalledHome
BY HomeInvariant, PTL
-----------------------------------------------------------------------------
(* The time to find a target again.  A frame could restart it only by finding   *)
(* the target and giving it up at once, as the wrong subject; the count of      *)
(* looks that did not match is what rules that out.                             *)

\* What is not tracked is not being compared (_verify_tracked_identity's reset).
NobodyBlamed == pi.track.phase # "TRACKING" => pi.mismatch = 0

\* Time passes for a target that stays out of sight (_check_reacquire_timeout).
ReacquireClock ==
    pi.track.phase = "REACQUIRE" /\ pi'.track.phase = "REACQUIRE" =>
        /\ pi'.track.lost >= pi.track.lost
        /\ \A o \in Given.finds : Frame(o) =>
              pi'.track.lost = pi.track.lost + o.dt /\ pi'.track.lost < ReacquireAfter

\* What a stage does that does not look at the target.
SameLook(c, d) == d.track = c.track /\ d.mismatch = c.mismatch

\* A comparison forgives, swaps, gives up or counts.
LEMMA VerifyCases ==
    ASSUME NEW c \in Pi, NEW o \in Observation
    PROVE  \/ Verify(c, o) \in {c, [c EXCEPT !.mismatch = 0], [Relock(c, o) EXCEPT !.mismatch = 0]}
           \/ /\ c.mismatch + 1 >= DropFrames
              /\ Verify(c, o) = [c EXCEPT !.mismatch = 0, !.track = Dropped(@), !.dropped = TRUE]
           \/ Verify(c, o) = [c EXCEPT !.mismatch = c.mismatch + 1]
<1> DEFINE wrong == c.mismatch + 1
           swap == wrong >= SwapFrames /\ o.better
<1>1. wrong \in Nat /\ DropFrames \in Nat
    BY CompanionAssumption DEF Pi
<1>2. wrong < DropFrames <=> ~(wrong >= DropFrames)
    <2> HIDE DEF wrong
    <2> QED BY <1>1
<1> HIDE DEF wrong
<1>3. CASE o.sight = "self"
    BY <1>3 DEF Verify
<1>4. CASE o.sight = "other" /\ swap
    BY <1>4 DEF Verify, wrong
<1>5. CASE o.sight = "other" /\ ~swap /\ wrong >= DropFrames
    <2>1. Verify(c, o) = [c EXCEPT !.mismatch = 0, !.track = Dropped(@), !.dropped = TRUE]
        <3>1. o.sight # "self" /\ ~(wrong >= SwapFrames /\ o.better) /\ ~(wrong < DropFrames)
            BY <1>2, <1>5
        <3> QED BY <1>5, <3>1 DEF Verify, wrong
    <2> QED BY <1>5, <2>1 DEF wrong
<1>6. CASE o.sight = "other" /\ ~swap /\ ~(wrong >= DropFrames)
    <2>1. Verify(c, o) = [c EXCEPT !.mismatch = wrong]
        BY <1>2, <1>6 DEF Verify, wrong
    <2> QED BY <2>1 DEF wrong
<1>7. CASE o.sight \notin {"self", "other"}
    BY <1>7 DEF Verify
<1> QED BY <1>3, <1>4, <1>5, <1>6, <1>7

\* The check of the identity leaves no count behind without a track, and gives up
\* no track at the first look.
LEMMA IdentifyLook ==
    ASSUME NEW c \in Pi, NEW o \in Observation, NEW e, e = Identify(c, o)
    PROVE  /\ e.track.phase # "TRACKING" => e.mismatch = 0
           /\ c.mismatch = 0 /\ DropFrames > 1 => e.track \in {c.track, Started}
<1> DEFINE d == IF c.track.phase = "TRACKING" THEN [c EXCEPT !.dropped = FALSE] ELSE c
           forgiven == [d EXCEPT !.mismatch = 0]
           swapped == [Relock(d, o) EXCEPT !.mismatch = 0]
           given == [d EXCEPT !.mismatch = 0, !.track = Dropped(@), !.dropped = TRUE]
           counted == [d EXCEPT !.mismatch = d.mismatch + 1]
<1>1. d \in Pi /\ d.track = c.track /\ d.mismatch = c.mismatch
    BY DEF Pi
<1>2. \/ e = forgiven
      \/ c.track.phase = "TRACKING" /\ e \in {d, Verify(d, o)}
    BY DEF Identify
<1> HIDE DEF d
<1>3. /\ forgiven.track = c.track /\ forgiven.mismatch = 0
      /\ swapped.track = Started /\ swapped.mismatch = 0
      /\ given.mismatch = 0 /\ counted.track = c.track
    BY <1>1 DEF Pi, Relock
<1>4. \/ Verify(d, o) \in {d, forgiven, swapped, counted}
      \/ d.mismatch + 1 >= DropFrames /\ Verify(d, o) = given
    BY <1>1, VerifyCases
<1>5. c.mismatch = 0 /\ DropFrames > 1 => ~(d.mismatch + 1 >= DropFrames)
    BY <1>1, CompanionAssumption
<1> HIDE DEF forgiven, swapped, given, counted
<1> QED BY <1>1, <1>2, <1>3, <1>4, <1>5

\* The stages that look, on a target out of sight.
LEMMA LookingClock ==
    ASSUME world \in World, NEW c \in Pi, NEW o \in Observation, Possible(o),
           NEW e, e = Identify(Rematch(TrackTarget(
                          Select(Perceive(ResolveMode(c, o), o), o), o), o), o)
    PROVE  /\ e.track.phase # "TRACKING" => e.mismatch = 0
           /\ /\ c.track.phase = "REACQUIRE" /\ e.track.phase = "REACQUIRE"
              /\ c.mismatch = 0 /\ DropFrames > 1
              => e.track.lost = c.track.lost + o.dt /\ e.track.lost < ReacquireAfter
<1> DEFINE c1 == ResolveMode(c, o)
           c2 == Perceive(c1, o)
           c3 == Select(c2, o)
           c4 == TrackTarget(c3, o)
           c5 == Rematch(c4, o)
           t == Passing(c.track, o.dt)
           matched == o.sight \in {"self", "other", "unsure"}
<1>1. c1 \in Pi /\ SameLook(c, c1)
    <2> DEFINE q == IF o.dt = 0 THEN c.mode ELSE Older(c.mode)
               req == Checked(q, world.mode, AllowRetry)
               sent == IF Resent(q, world.mode, AllowRetry)
                       THEN Asking(c.out, q.mode, "retry") ELSE c.out
    <2>1. c1 = [c EXCEPT !.mode = req, !.out = sent]
        BY DEF ResolveMode, Pi
    <2> HIDE DEF q, req, sent, c1
    <2>2. SameLook(c, c1)
        BY <2>1 DEF Pi, SameLook
    <2> QED BY <2>2, ResolveModeStage DEF c1
<1> HIDE DEF c1
<1>2. c2 \in Pi /\ c2.track = t /\ c2.mismatch = c.mismatch
    BY <1>1, PerceiveStage DEF Perceive, Pi, SameLook
<1> HIDE DEF c2
<1>3. c3 \in Pi /\ (\/ SameLook(c2, c3)
                    \/ c3.track = Started /\ c3.mismatch = 0 /\ o.pick)
    <2> DEFINE lock == Relock(c2, o)
               picked == [lock EXCEPT !.mismatch = 0, !.selection = FALSE]
               missed == [c2 EXCEPT !.selection = FALSE]
    <2>1. SameLook(c2, c2) /\ SameLook(c2, missed)
        BY <1>2 DEF Pi, SameLook
    <2>2. lock \in Pi /\ lock.track = Started
        BY <1>2, RelockStage DEF Relock, Pi
    <2>3. picked.track = Started /\ picked.mismatch = 0
        <3> HIDE DEF lock
        <3> QED BY <2>2 DEF Pi
    <2>4. c3 = c2 \/ (c3 = picked /\ o.pick) \/ c3 = missed
        BY DEF Select
    <2>5. c3 \in Pi
        BY <1>2, SelectStage
    <2> HIDE DEF c3, lock, picked, missed
    <2> QED BY <2>1, <2>3, <2>4, <2>5
<1>4. c3.track = Started /\ o.pick => Informed(c3, o) /\ matched
    BY DEF Possible, Informed, Observation
<1> HIDE DEF c3
<1>5. c4 \in Pi /\ c4.mismatch = c3.mismatch
      /\ c4.track = IF Informed(c3, o) THEN Updated(c3.track, matched) ELSE Coasted(c3.track)
    BY <1>3, TrackTargetStage DEF TrackTarget, Pi
<1> HIDE DEF c4
<1>6. c5 \in Pi /\ c5.mismatch = c4.mismatch /\ c5.track \in {c4.track, Started}
    BY <1>5, RematchStage DEF Rematch, Relock, Pi
<1> HIDE DEF c5
<1>7. e = Identify(c5, o)
    BY DEF c1, c2, c3, c4, c5
<1>8. ASSUME c.track.phase = "REACQUIRE", e.track.phase = "REACQUIRE",
             c.mismatch = 0, DropFrames > 1
      PROVE  e.track.lost = c.track.lost + o.dt /\ e.track.lost < ReacquireAfter
    <2>1. Started.phase = "TRACKING" /\ Started.locked
        BY DEF Started
    <2>2. c3.mismatch = 0 /\ c5.mismatch = 0
        BY <1>2, <1>3, <1>5, <1>6, <1>8 DEF SameLook
    <2>3. e.track = c4.track
        BY <1>6, <1>7, <1>8, <2>1, <2>2, IdentifyLook
    <2>4. c3.track = t
        <3>1. CASE c3.track = Started /\ o.pick
            BY <1>4, <1>5, <1>8, <2>1, <2>3, <3>1 DEF Updated
        <3> QED BY <1>2, <1>3, <3>1 DEF SameLook
    <2>5. /\ c.track \in Track /\ o.dt \in {0, 1} /\ ReacquireAfter \in Nat \ {0}
        BY ReacquireAssumption DEF Pi, Observation
    <2>6. /\ t.phase = "REACQUIRE" /\ t.lost = Later(c.track.lost, o.dt)
          /\ c.track.lost \in 0 .. ReacquireAfter
        BY <1>8, <2>5 DEF Passing, Track
    <2>7. e.track = Expired(t)
        BY <1>5, <1>8, <2>1, <2>3, <2>4, <2>6 DEF Updated, Coasted
    <2>8. e.track = t /\ ~(t.lost >= ReacquireAfter)
        <3>1. CASE t.lost >= ReacquireAfter
            <4>1. e.track.phase = "TARGET_LOST"
                BY <2>5, <2>6, <2>7, <3>1 DEF Expired, Passing, Track
            <4> QED BY <1>8, <4>1
        <3> QED BY <2>7, <3>1 DEF Expired
    <2> HIDE DEF t
    <2> QED BY <2>5, <2>6, <2>8 DEF Later
<1>9. e.track.phase # "TRACKING" => e.mismatch = 0
    BY <1>6, <1>7, IdentifyLook
<1> QED BY <1>8, <1>9

\* What the stages that act do not touch.
LEMMA ActingLooks ==
    ASSUME world \in World, NEW c \in Pi, NEW o \in Observation
    PROVE  /\ HandBack(c).mismatch = c.mismatch /\ Recover(c, o).mismatch = c.mismatch
           /\ Climb(c, o).mismatch = c.mismatch /\ Failsafe(c, o).mismatch = c.mismatch
           /\ Dispatch(c, o).mismatch = c.mismatch /\ EnforceStop(c, o).mismatch = c.mismatch
<1>1. HandBack(c).mismatch = c.mismatch
    BY DEF HandBack, AskMode, Pi
<1>2. Recover(c, o).mismatch = c.mismatch
    <2> DEFINE lost == c.track.phase = "TARGET_LOST"
                          /\ c.requested \in {"FOLLOWING", "ORBITING"}
               found == c.track.phase = "TRACKING"
               land == Critical /\ o.tooFar
               r == IF lost THEN SearchStarted(c.recovery) ELSE c.recovery
               result == RecoveryResult(r, found, land)
               d == [c EXCEPT !.recovery = RecoveryAfter(r, result)]
               back == [d EXCEPT !.requested = "IDLE", !.out.want = "IDLE"]
               asks == [d EXCEPT !.out.want = "IDLE", !.out.question = TRUE]
    <2>1. result \in {"IDLE", "FOUND", "AWAITING", "SEARCHING", "ASK_LAND", "RTL"}
        BY DEF RecoveryResult
    <2>2. d.mismatch = c.mismatch
        BY DEF Pi
    <2>3. \A x \in {c.requested, "SEARCHING", "IDLE"} :
              [d EXCEPT !.out.want = x].mismatch = c.mismatch
        BY DEF Pi
    <2>4. /\ asks.mismatch = c.mismatch /\ back.mismatch = c.mismatch
          /\ AskMode(back, "RTL", "recovery").mismatch = c.mismatch
        BY DEF AskMode, Pi
    <2>5. Recover(c, o) \in
              {[d EXCEPT !.out.want = x] : x \in {c.requested, "SEARCHING", "IDLE"}}
                 \cup {asks, back, AskMode(back, "RTL", "recovery")}
        <3> HIDE DEF result, d, back, asks
        <3>1. CASE result \in {"IDLE", "FOUND"}
            BY <3>1 DEF Recover, result, r, found, land, lost, d
        <3>2. CASE result = "SEARCHING"
            BY <3>2 DEF Recover, result, r, found, land, lost, d
        <3>3. CASE result = "AWAITING"
            BY <3>3 DEF Recover, result, r, found, land, lost, d
        <3>4. CASE result = "ASK_LAND"
            BY <3>4 DEF Recover, result, r, found, land, lost, d, asks
        <3>5. CASE result = "RTL"
            BY <3>5 DEF Recover, result, r, found, land, lost, d, back
        <3> QED BY <2>1, <3>1, <3>2, <3>3, <3>4, <3>5
    <2> HIDE DEF d, back, asks
    <2> QED BY <2>3, <2>4, <2>5
<1>3. Climb(c, o).mismatch = c.mismatch
    <2> DEFINE action == TakeoffAction(c.takeoff, o.dt, world.armed, Guided, world.high)
               t == TakeoffAfter(c.takeoff, o.dt, action)
    <2>1. action \in {"none", "timed_out", "hold", "ready", "send_takeoff"}
        BY DEF TakeoffAction
    <2> HIDE DEF action
    <2> QED BY <2>1 DEF Climb, Pi, action
<1>4. Failsafe(c, o).mismatch = c.mismatch
    BY DEF Failsafe, AskMode, Pi
<1>5. Dispatch(c, o).mismatch = c.mismatch
    BY DEF Dispatch, Pi
<1>6. EnforceStop(c, o).mismatch = c.mismatch
    BY DEF EnforceStop, Pi
<1> QED BY <1>1, <1>2, <1>3, <1>4, <1>5, <1>6

\* A frame, from its start to its end.
LEMMA FrameLooks ==
    ASSUME world \in World, pi \in Pi, NEW o \in Observation, Possible(o),
           NEW p, p = Processed(o)
    PROVE  /\ p.track.phase # "TRACKING" => p.mismatch = 0
           /\ /\ pi.track.phase = "REACQUIRE" /\ p.track.phase = "REACQUIRE"
              /\ pi.mismatch = 0 /\ DropFrames > 1
              => p.track.lost = pi.track.lost + o.dt /\ p.track.lost < ReacquireAfter
<1> DEFINE out == [Silent EXCEPT !.frame = TRUE, !.written = o.written]
           c0 == [pi EXCEPT !.out = out]
           c2 == Identify(Rematch(TrackTarget(
                     Select(Perceive(ResolveMode(c0, o), o), o), o), o), o)
           k == HandBack(c2)
           r == Recover(k, o)
           t == Climb(r, o)
           f == Failsafe(t, o)
           d == Dispatch(f, o)
<1>1. out \in Output
    BY DEF Silent, Output, SupervisorState, Commanded, Observation
<1> HIDE DEF out
<1>2. c0 \in Pi /\ SameLook(pi, c0)
    BY <1>1 DEF Pi, SameLook
<1> HIDE DEF c0
<1>3. /\ c2 \in Pi
      /\ c2.track.phase # "TRACKING" => c2.mismatch = 0
      /\ /\ c0.track.phase = "REACQUIRE" /\ c2.track.phase = "REACQUIRE"
         /\ c0.mismatch = 0 /\ DropFrames > 1
         => c2.track.lost = c0.track.lost + o.dt /\ c2.track.lost < ReacquireAfter
    BY <1>2, LookingStages, LookingClock
<1> HIDE DEF c2
<1>4. k \in Pi /\ SameLook(c2, k)
    BY <1>3, HandBackStage, ActingLooks DEF SameLook
<1> HIDE DEF k
<1>5. r \in Pi /\ SameLook(k, r)
    BY <1>4, RecoverStage, ActingLooks DEF SameLook, Recovered, SameSight
<1> HIDE DEF r
<1>6. t \in Pi /\ SameLook(r, t)
    BY <1>5, ClimbStage, ActingLooks DEF SameLook, Climbed, SameSight
<1> HIDE DEF t
<1>7. f \in Pi /\ SameLook(t, f)
    BY <1>6, FailsafeStage, ActingLooks DEF SameLook, Failsafed, SameSight
<1> HIDE DEF f
<1>8. d \in Pi /\ SameLook(f, d)
    BY <1>7, DispatchStage, ActingLooks DEF SameLook, Dispatched, SameSight
<1> HIDE DEF d
<1>9. p = EnforceStop(d, o)
    BY DEF Processed, c0, out, c2, k, r, t, f, d
<1>10. SameLook(d, p)
    BY <1>8, <1>9, EnforceStopStage, ActingLooks DEF SameLook, StopEnforced
<1> QED BY <1>2, <1>3, <1>4, <1>5, <1>6, <1>7, <1>8, <1>10 DEF SameLook

\* Whatever is no frame leaves the track, or ends it.
LEMMA OtherLooks ==
    ASSUME TypeOK, Operator \/ Environment
    PROVE  SameLook(pi, pi') \/ (pi'.track = NoTrack /\ pi'.mismatch = 0)
<1> DEFINE c == [pi EXCEPT !.out = Silent]
<1>1. pi \in Pi
    BY DEF TypeOK
<1>2. ASSUME NEW x \in Pi, NEW m, NEW why
      PROVE  SameLook(x, AskMode(x, m, why))
    BY DEF AskMode, Pi, SameLook
<1>3. c \in Pi /\ SameLook(pi, c)
    BY <1>1, SilentType DEF Pi, SameLook
<1>4. ASSUME NEW m \in Given.modes, NEW auto \in Given.auto, NEW planned \in BOOLEAN,
             ModeCommand(m, auto, planned)
      PROVE  SameLook(pi, pi')
    <2> DEFINE entering == Entering(m)
               mode == IF entering /\ ~(planned /\ world.gps) THEN "IDLE" ELSE m
               rec == IF m \in {"FOLLOWING", "ORBITING"} THEN pi.recovery ELSE NoRecovery
               grid == IF entering /\ mode = "GRID_SEARCH" THEN "SEARCHING"
                       ELSE IF entering \/ m # "GRID_SEARCH" THEN "IDLE" ELSE pi.grid
               tk == IF mode = pi.requested THEN pi.takeoff
                     ELSE IF auto /\ mode \in GuidedModes THEN TakeoffStarted ELSE NoTakeoff
               ap == IF mode = "APPROACHING" THEN "APPROACHING" ELSE "IDLE"
               e == [pi EXCEPT !.out = Silent, !.recovery = rec, !.grid = grid, !.takeoff = tk,
                               !.requested = mode, !.approach = ap]
    <2>1. pi' = e \/ pi' = AskMode(e, "GUIDED", "command")
        BY <1>4 DEF ModeCommand
    <2> HIDE DEF entering, mode, rec, grid, tk, ap
    <2>2. SameLook(pi, e) /\ SameLook(pi, AskMode(e, "GUIDED", "command"))
        BY <1>1 DEF AskMode, Pi, SameLook
    <2> HIDE DEF e
    <2> QED BY <2>1, <2>2
<1>5. CASE Abort
    <2> DEFINE e == [Stopped(pi) EXCEPT !.out = Silent]
    <2>1. pi' = e \/ pi' = AskMode(e, "BRAKE", "stop")
        BY <1>5 DEF Abort
    <2>2. e.track = NoTrack /\ e.mismatch = 0
        BY <1>1 DEF Stopped, Pi
    <2>3. SameLook(e, AskMode(e, "BRAKE", "stop"))
        BY <1>1 DEF AskMode, Stopped, Pi, SameLook
    <2> HIDE DEF e
    <2> QED BY <2>1, <2>2, <2>3 DEF SameLook
<1>6. CASE SelectTarget
    BY <1>1, <1>6 DEF SelectTarget, Pi, SameLook
<1>7. ASSUME NEW m \in Given.dock, SetFlightMode(m)
      PROVE  SameLook(pi, pi')
    <2>1. pi' = AskMode(c, m, "dock")
        BY <1>7 DEF SetFlightMode
    <2> HIDE DEF c
    <2> QED BY <1>2, <1>3, <2>1 DEF SameLook
<1>8. ASSUME NEW approved \in BOOLEAN, AnswerLand(approved)
      PROVE  SameLook(pi, pi')
    <2> DEFINE e == [pi EXCEPT !.out = Silent, !.recovery = Confirming(pi.recovery),
                               !.requested = "IDLE"]
    <2>1. pi' = e \/ pi' = AskMode(e, "LAND", "land")
        BY <1>8 DEF AnswerLand
    <2>2. SameLook(pi, e) /\ SameLook(pi, AskMode(e, "LAND", "land"))
        BY <1>1 DEF AskMode, Pi, SameLook
    <2> HIDE DEF e
    <2> QED BY <2>1, <2>2
<1>9. CASE Environment
    <2>1. pi' = c
        BY <1>9, EnvironmentQuiet
    <2> HIDE DEF c
    <2> QED BY <1>3, <2>1
<1> QED BY <1>4, <1>5, <1>6, <1>7, <1>8, <1>9 DEF Operator

\* Each step keeps the count where it belongs, and the time running.
LEMMA ReacquireStep ==
    /\ Init => NobodyBlamed
    /\ TypeOK /\ NobodyBlamed /\ [Next]_vars =>
          NobodyBlamed' /\ (DropFrames > 1 => ReacquireClock)
<1>1. Init => NobodyBlamed
    BY DEF Init, NobodyBlamed
<1> SUFFICES ASSUME TypeOK, NobodyBlamed, [Next]_vars
             PROVE  NobodyBlamed' /\ (DropFrames > 1 => ReacquireClock)
    BY <1>1
<1>2. /\ pi \in Pi /\ world \in World /\ pi.track \in Track /\ pi.track.lost \in Nat
    BY ReacquireAssumption DEF TypeOK, Pi, Track
<1>3. \A o \in Given.finds : o \in Observation /\ Possible(o) /\ o.dt \in {0, 1}
    <2>1. IsScenario(Given)
        BY CompanionAssumption DEF TypeOK, Given
    <2> QED BY <2>1 DEF IsScenario, Observation
<1>4. ASSUME NEW o \in Given.finds, Frame(o)
      PROVE  /\ NobodyBlamed'
             /\ /\ DropFrames > 1 /\ pi.track.phase = "REACQUIRE"
                /\ pi'.track.phase = "REACQUIRE"
                => /\ pi'.track.lost = pi.track.lost + o.dt
                   /\ pi'.track.lost < ReacquireAfter
                   /\ pi'.track.lost >= pi.track.lost
    <2>1. /\ pi'.track.phase # "TRACKING" => pi'.mismatch = 0
          /\ /\ pi.track.phase = "REACQUIRE" /\ pi'.track.phase = "REACQUIRE"
             /\ pi.mismatch = 0 /\ DropFrames > 1
             => pi'.track.lost = pi.track.lost + o.dt /\ pi'.track.lost < ReacquireAfter
        BY <1>2, <1>3, <1>4, FrameLooks DEF Frame
    <2> QED BY <1>2, <1>3, <2>1 DEF NobodyBlamed
<1>5. ASSUME SameLook(pi, pi') \/ (pi'.track = NoTrack /\ pi'.mismatch = 0)
      PROVE  NobodyBlamed' /\ (pi'.track.phase = "REACQUIRE" => pi'.track.lost >= pi.track.lost)
    BY <1>2, <1>5 DEF NobodyBlamed, SameLook, NoTrack
<1>6. /\ NobodyBlamed'
      /\ DropFrames > 1 /\ pi.track.phase = "REACQUIRE" /\ pi'.track.phase = "REACQUIRE" =>
            pi'.track.lost >= pi.track.lost
    <2>1. CASE UNCHANGED vars
        BY <1>5, <2>1 DEF vars, SameLook
    <2>2. CASE Operator \/ Environment
        BY <1>5, <2>2, OtherLooks
    <2> QED BY <1>4, <2>1, <2>2 DEF Next
<1> QED BY <1>4, <1>6 DEF ReacquireClock

\* The time of a target out of sight only runs forward, by what passes between the
\* frames, whatever the frames find, pick or mistake for it, and a frame in which it
\* is up declares the target lost, unless the first look that does not match already
\* gives a target up (track_drop_frames = 1).
THEOREM ReacquiringIsTimed ==
    ASSUME DropFrames > 1
    PROVE  Spec => [][ReacquireClock]_vars
<1>1. IInv => TypeOK
    BY DEF IInv
<1>2. TypeOK /\ NobodyBlamed /\ [Next]_vars => ReacquireClock
    BY ReacquireStep
<1> QED BY <1>1, <1>2, ReacquireStep, Invariant, PTL DEF Spec
=============================================================================
