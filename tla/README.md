# Verification of the AI vision drone companion

This directory holds TLA+ specifications of the companion program (`src/companion`,
Python, on a Raspberry Pi beside an ArduPilot flight controller), the configurations
that model-check them with TLC, and proofs about them checked by TLAPS. The
specifications are translated from the code; where the documents say something else
of the same behaviour, the divergence is stated as a property and shown by a run
("Findings").

Contents: 1 the system; 2 the modules and how they correspond to the code; 3 the runs;
4 fairness; 5 the proofs; 6 findings; 7 what is not modelled; 8 plan.

## 1. The system

A camera frame is turned into detections, a selected target is tracked, and in one of
the guidance modes (Follow, Orbit, Approach-Test, Grid Search, the search for a lost
target) a velocity setpoint is sent to the flight controller in GUIDED. An operator
commands it from an Android app over a WebSocket; a pilot holds an RC transmitter that
goes to the flight controller directly. The Pi controls neither the flight controller
(it can refuse or lose anything), nor the pilot (mode switch, sticks), nor the link.

### Components

| component | state | operations | what makes it correct |
| --- | --- | --- | --- |
| `companion/main.py` CompanionApp | requested mode, pending selection, carried detections, identity mismatch count, failsafe latch and its clock, stops still owed | `process_frame` (once per frame), a handler per command of the app | no ungated motion, no leftover motion, STOP is final, the mode changes asked for are justified, what is started ends |
| `safety/supervisor.py` | none that its answer depends on | `evaluate` | one gate for all guidance |
| `tracking/state.py`, trackers | phase IDLE / TRACKING / REACQUIRE / TARGET_LOST, last seen, lock | start, update, coast, drop_identity, stop | a lost target is declared lost, also without new detections |
| `tracking/appearance.py` and its policy in `process_frame` | signature, mismatch count | learn, compare, best match | the wrong box is swapped or dropped and never steered on |
| `guidance/target_recovery.py` | IDLE / SEARCHING / AWAITING, clock | start_search, update, confirm_landing, cancel | the search is bounded; LAND only on consent |
| `guidance/auto_takeoff.py` | phase, clock | start, update, retry_takeoff, reset | one takeoff, bounded, undisturbed by setpoints |
| `guidance/approach_test.py` | APPROACHING and two sticky ends | start, update, reset | it never resumes by itself |
| `guidance/follow.py`, `orbit.py`, `grid_search.py`, `limits.py`, `pid.py` | integrators, last command, waypoint index | compute, reset | limits on speed, slew, altitude; waypoints in order |
| `mavlink/bridge.py`, flight modes | one pending mode request | `set_mode`, `check_pending_mode` | bounded, reported, never against the pilot |
| `mavlink/bridge.py`, arming | queue of intents, one-place mailbox | `arm`, COMMAND_ACK in `_handle_message` | each request is answered, in its own name |
| `mavlink/bridge.py`, link | connection, stream requests | run loop, reconnect | telemetry comes back after a reconnect |
| `mavlink/rc_monitor.py` | last channels | `is_overriding` | the pilot's sticks are noticed |
| `safety/watchdog.py`, `proximity_guard.py`, `contact_sensor.py` | last beats, last distances | beat, check | a dead subsystem is noticed |
| `comms/transport.py`, `ws_server.py`, `protocol.py` | clients, their queues, last reception | receive loops, broadcast | bounded queues; a dead operator is noticed |
| `comms/video_recorder.py`, `video_pipeline.py` | writer, executor | start, write, stop | recording never stops a flight |
| `vision/camera.py`, `detector.py` | newest frame, capture thread | frames, restart | newest frame wins, a stall is noticed |
| `learning/*` | registry, dataset, visual tracker | teach, recognise, sample | caps; no frame goes on with state that changed under it |
| `android/...` | link state, shown mode, alerts | connect, reconnect, send, render | one live socket; the mode shown is the mode in force |

### How they interact

`main.py` runs one asyncio loop. `process_frame` calls the others in a fixed order:
mode request, detections, selection, tracker, rematch, identity, hand-back to the
pilot, target recovery, auto-takeoff, failsafe RTL, supervisor, controller, stop
enforcement, telemetry. The handlers of the app's commands change the same objects
between frames. The bridge's receive loop updates a telemetry snapshot that the frame
reads. A handler and a frame interleave in one place only: with a taught object the
frame awaits a worker thread in its middle (TeachMode); otherwise neither awaits between
its first and last change of state. Threads of their own have the camera's capture
(FrameLoop), the recorder's start, stop and encoding (Recording) and, in the app, the
callbacks of every socket (OperatorLink).

### What is hard in it

* A frame is a chain of some fifteen stages over shared state; each stage can undo what
  an earlier one assumed, and a command can arrive between any two frames.
* The flight controller keeps flying the last setpoint: sending nothing is not stopping.
* A mode change is a request that can be lost, refused, overtaken by the pilot, by a
  second request, or confirmed by a heartbeat that is a second old.
* An acknowledgement carries no request id.
* Several timeouts (search, reacquire, takeoff, link loss, mode retry) run against
  commands that end the same things.

`PROJECT.json` lists these hazards one by one, with their lines and the properties
that would catch them.

## 2. Modules

```
ModePromise <- - - - - implements - - - - - ModeLink --> MCModeLink, ModeLink_proofs
ModeRequest --------------------------------^   |
     |                                          (same record)
     v
Companion --> CompanionProperties --> MCCompanion, Companion_proofs
     ^                   |
     |                   + - - - - - - implements - - - - - - - > MotionAuthority
     |-- SafetySupervisor, TargetRecovery, AutoTakeoff, ApproachTest
     |-- TrackingLifecycle --> TeachMode --> MCTeachMode, TeachMode_proofs

ArmCommand --> MavlinkLink --> MavlinkLink_proofs
FrameLoop --> FrameLoop_proofs            Recording --> Recording_proofs
OperatorLink, OperatorMode --> Operator_proofs
VelocityLimits --> VelocityLimits_proofs
```

An arrow leads from a module to the one that extends it. The small modules
(ModeRequest, SafetySupervisor, TrackingLifecycle, TargetRecovery, AutoTakeoff,
ApproachTest) are the controllers' logic as operators on their state, without variables,
so that the composing modules and the proofs share one definition.

* **ModeRequest** - the record `_pending_mode` and `check_pending_mode` as four guards
  (confirmed, superseded, exhausted, resent) in the order of the code's returns. Times
  are ages in ticks, capped where the code stops distinguishing them.
* **ModeLink** - that record against the world: SET_MODE packets in flight (a sequence,
  losable), a flight controller that accepts or refuses, heartbeats (losable, late) as
  the only report of the mode, the pilot's switch and sticks. `Frame` is the check
  that starts every `process_frame`.
* **ModePromise** - what `set_mode` and `check_pending_mode` promise their caller, with no
  link in it: a request is asked, waits, is sent again when its last send had its time,
  and ends once. `Promise` in ModeLink is the refinement mapping: the history of the
  latest request, which the code does not keep, is read as the state of ModePromise.
* **ArmCommand, MavlinkLink** - `arm`, `_on_arm_command`'s altitude gate, the FIFO of
  intents, COMMAND_ACK handling, the one-place mailbox `pending_arm_ack` and its relay by
  the frame; every request carries an id that the code lacks, which is what the
  properties compare. MavlinkLink composes them with the connection they travel on:
  `run`, the receive loop (`ReceiveHeartbeat`, `ReceivePosition`, `ReceiveAck`,
  `ReceiveNothing`: silence and write errors end the connection), `Reconnect` with its
  doubling delay, the requests for streams, and the age of the position behind
  `fresh_alt_m`. Breaks of the wire, a flight controller that restarts and forgets its
  streams, and the change of height are the environment.
* **Companion** - CompanionApp. `Frame(o)` is `process_frame` as the composition of its
  stages in code order (`Processed`), each stage one operator: `ResolveMode`,
  `Perceive`, `Select`, `TrackTarget`, `Rematch`, `Identify`, `HandBack`, `Recover`,
  `Climb`, `Failsafe`, `Dispatch`, `EnforceStop`. What a frame finds (detections, range, a
  controller's command, whether writes succeed) is an observation `o`. `ModeCommand`,
  `Abort`, `SelectTarget`, `SetFlightMode`, `AnswerLand` are the handlers. The rest is
  the environment: the flight controller takes or ignores the last SET_MODE, the
  pilot switches and moves sticks, links, battery, fence, position and height change.
  `pi.out` is what the latest step sent. `hist` remembers what the properties compare
  with (a coasting aircraft, an open question, a plan, an abort condition) and
  nothing in the Pi reads it. **CompanionProperties** holds the properties.
* **MotionAuthority** - in whose name the aircraft is moved, without frames, trackers,
  timeouts and gates. Two keys must be turned: the operator's mandate (a commanded mode) and
  the flight controller's grant (GUIDED, the pilot off the sticks). The program may lose a
  mandate but never acquires one by itself; only a search or a takeoff begun under one can
  outlive it, and STOP ends these too. `Authority` in CompanionProperties is the refinement
  mapping: the mandate is the requested mode, what is flown is the latest setpoint.
* **TeachMode** - whom the program tracks, when the operator may teach an object the
  detector has no class for. Companion treats a frame as one step; with a taught object
  it is not one: `process_frame` hands the visual tracker to a worker thread and awaits
  it. Here a frame is `BeginFrame`, the worker's steps (`Worker`:
  `TrackingStateMachine.update`, every test and write of which is a step of its own,
  unless STOP can tell no difference; so is the last read, whose value is the answer) and
  `ResumeFrame`, and STOP, selections, teach requests and mode commands come between any
  two of them. A handler is one step of the event loop. Only what depends on the target is
  modelled of a frame; the gates of guidance are Companion's subject.
* **FrameLoop** - what keeps frames coming: the capture thread and its callbacks into
  the event loop, the queue of one frame, the perception loop with its stall timeout,
  the task that pings systemd, and systemd's two timers. The camera may hang, raise or
  fall behind; a frame may hang or raise; the event loop may freeze; the exit of the
  process may hang; pings may be lost.
* **Recording** - `VideoRecorder.start`, `write` and `stop`: the record commands run start
  and stop on threads of their own, the frames hand over pictures meanwhile, and an
  executor per recording encodes them. Every step reads or writes `_writer` or
  `_executor` once: `write()` tests both (`BeginWrite`, `AskExecutor`), reads both again
  (`TakeExecutor`, `TakeWriter`) and submits (`Submit`), and `stop()` may shut the executor
  down, forget it, release the writer and forget it between any two of these. `_started_ts`,
  which `duration_s` reads twice, and the per-frame `recording_state` (`TellDuration`) are
  there because they decide what the operator is told. `ghost` remembers whether the last
  frame was skipped and whether a `stop()` was at work while its `write()` ran.
* **OperatorLink** - both ends of the WebSocket. On the phone `connect`, `reconnect`,
  `disconnect` and the listener of every socket (`Listener`), write by write, because OkHttp
  calls each on its own thread: `stopHeartbeat` cancels the heartbeat the field names
  (`Cancel`) and then makes the field null, `startHeartbeat` does the same and then assigns
  the schedule it made, and the writes of several threads interleave. `running` is what
  beats, whatever the field names; `met` remembers that two threads were in there together,
  until one that comes alone has silenced the app. Then the collector of `linkState`; on the
  Pi the clients with their bounded queues and writers, `broadcast`, slow and failing
  clients, and the clock of the last message, which all clients share.
* **OperatorMode** - the mode the app shows and the mode the Pi is in, over the commands
  and reports between them. The app sets its own when the operator taps (`TapMode`,
  `TapStop`), sends the shown mode again from Resume and from every slider, and takes a
  sweep back when a report says IDLE or SAFE; the Pi obeys in order, leaves a mode by
  itself (`ModeLeft`) and reports only the supervisor's decision. A cut of the WebSocket
  loses what is under way. `hist` remembers the last tap and whether one was lost.
* **VelocityLimits** - `compute` of Follow, Orbit and Grid Search after their PIDs: speed
  cap and slider, acceleration limiter, altitude limits, the slower cap of Teach mode,
  and when `process_frame` resets them.
* **MCCompanion, MCModeLink, MCTeachMode** - bounds, scenarios and symmetry for TLC. The
  other modules need no more than a configuration.
* the eight **_proofs** modules - section 5.

`PROJECT.json`'s `map` gives the lines of every definition.

Abstractions worth knowing: boxes, positions and signatures are reduced to what the
control tells apart (in Companion a detection that matches, looks right, looks wrong or
cannot be compared; in TeachMode the subject it really shows); speeds to none, zero or
moving in Companion and to whole units in VelocityLimits, where a PID may ask for any of
them within its limit; battery to three levels, of which "critical" stands both for the
safety limit (20 %, `<=`) and for the recovery's threshold (20 %, `<`), which the shipped
configuration separates at the boundary value only;
distance to near, far or none; a tick stands for whichever timeout is under way.
Observations that exclude each other in the code (a detection without an AI result) are
ruled out by `Possible`. Reading the mode in Companion is immediate; that heartbeats lag
is ModeLink's subject.

Operators with no user in the next-state relation (for example `ExecutorKept`,
`JustLimited`, `NoAnswer`) are the mutated forms that `PROJECT.json` lists under
`mutants`: each makes the model wrong the way a plausible slip in the code would, and
shows that the property it belongs to notices.

## 3. Runs

Passing runs:

| run | asks | size and bounds |
| --- | --- | --- |
| `mode_requests` | what the caller sees implements ModePromise; which reports a failure only after all the sends had their time; every request ends | 208 512 states; 2 overlapping requests, 1 loss, 1 switch, refusals, late heartbeats, retry after 2 ticks, 3 sends as in the code |
| `mode_quiet` | one request at a time: dropped only for the pilot; three sends mask two losses | 14 556 states; 2 requests, 2 losses on a link that answers within a tick |
| `mavlink_link` | until a packet is lost every arm request is answered in its own name; every request is answered if nothing is lost; the altitude read is recent; positions come again after a break | 76 542 states; 2 arm requests, 1 loss, 2 events of the world, a position fresh for 1 tick, streams stale after 2 |
| `companion` | nine invariants of the frame cycle and the handlers; nothing is flown but on a mandate (MotionAuthority); search and reacquire phase end, and so does a takeoff unless the operator keeps starting others; an aircraft left in GUIDED is called home | 355 345 states, 3 minutes; 11 scenarios, 3 of them with a clock |
| `teach_safety` | nothing is steered on after STOP; teaching is whole; a tracker that drifted is given up; samples are of the object | 9 935 states up to symmetry; 2 detected subjects, 2 names, a registry of 1 |
| `frame_loop` | a service that counts as running shows no standing picture; frames come or the process is restarted | 28 511 states; timeouts 2 < 3 < 4 as the start-up check orders them, 2 callbacks under way |
| `recording` | files are whole unless commands overlap; `write()` costs a frame only if a `stop()` was at work while it ran; the operator knows at rest whether it records | 292 519 states; 2 commands together, 2 writers |
| `operator_link` | Disconnect is final; one heartbeat, on an open socket, unless threads meet; a silent app is noticed in every interleaving; a client without a writer goes | 793 092 states, 75 seconds; 2 sockets, a queue of 1 |
| `operator_mode` | the Pi flies what was tapped last, or has left it; an ended sweep is shown as ended | 126 344 states; 2 commands and 2 reports under way; Follow stands for Orbit and Approach-Test too |
| `velocity_limits` | velocity within cap and altitude limits; refused velocity does not come back at once | 16 776 states; 3 controllers, caps 1 and 2, floor 2, ceiling 4, an altitude at each and between |

Violation runs, each one statement of the documents or comments (section 6):
`companion_regained`, `teach_stop`.

Why the bounds are enough:

* *Requests.* The bridge keeps one mode request and a second replaces it, so two
  show every way one can disturb another. Three sends and a retry time of two ticks make
  the second send, the last send and "not yet" distinct. Two arm requests let the queue
  of intents shift; the theorem of section 5 is for any number.
* *Scenarios.* `companion` does not vary everything at once. A scenario (MCCompanion)
  fixes which commands and which changes of the world are possible and what frames may
  find, and each behaviour runs in one of eleven: `follow` (every kind of sighting,
  selection, identity swap, failing writes, link loss), `gate` (sticks, fence,
  obstacle), `stop` (STOP amid selection, takeoff, sticks), `search` (loss, timeout, RTL
  or question, sticks), `takeoff` (Arm & Follow from the ground), `failsafe` (link,
  battery, mode switch), `approach`, `sweep` (grid search with good and bad positions),
  and with a clock `search ends`, `takeoff ends` (both with two modes to change between,
  because a change may not give a search more time, and does restart a takeoff) and
  `called home`. All invariants are checked in all of them; what must end, in the last
  three, because fairness asks for a clock that moves. What scenarios cannot show,
  combinations across features, is what the proofs cover: they hold for any set of
  scenarios, also one that allows everything.
* *Timeouts* are one or two ticks, so that each can be not started, running and expired
  and be crossed by any command; `DropFrames` is 2 above `SwapFrames` 1, so that a swap
  and a drop differ. In FrameLoop they differ by one from each other, so that each can
  fire first.
* *Sockets and threads.* Two of each: every interleaving that goes wrong in this code is
  between an old one and a new one. With two writers a name is reused once nothing
  refers to it.
* *Commands and reports.* Two each way let a command cross a report, follow another and
  be overtaken by a cut; a teach result and the report after it make a third.
* *Teach mode.* Two names and a registry of one make the second object a refusal.

Where a run stops being able to move (a bounded number of arm requests all answered and
events all used), the configuration says so; the other runs check for deadlock.

## 4. Fairness

* **ModeLink**: weak fairness of frames, of the clock, of delivery of what is not lost,
  of the flight controller's heartbeats (1 Hz) and their reception. Losses are bounded by
  `MaxLosses`; losing, switching, requesting and the sticks are never fair. The premise
  that sticks are in the end left alone is in the property: while they are moved, the
  code does not retry, by design.
* **MavlinkLink**: weak fairness of each branch of the receive loop, of reconnecting, of
  the clock, of the flight controller's answers and of the relay by the frame. Breaks,
  repairs and losses carry none; that the wire is in the end in order is the premise of
  `TelemetryResumes`. `PromptFrames` (a frame empties the mailbox before it is used
  again) is an assumption about rates that the code does not enforce; without it an
  answer is overwritten (section 6).
* **Companion**: `FairSpec` asks only that the clock, which moves with frames that come
  later than the one before, ticks infinitely often. A frame is possible in every
  state (the program's loop never waits for another condition), so this is the weak
  fairness of frames plus time passing. No fairness is asked of the app, the pilot, the
  flight controller or the links.
* **FrameLoop**: the clock, systemd's two actions, the watchdog task and the stall
  timeout are weakly fair (each is a timer that something outside the frame serves). Nothing
  says that a frozen loop thaws, that `process_frame` comes back or that a process closes
  by itself: systemd is what ends these.
* **OperatorLink**: time passes (`TimesOut`), and the Pi's side of a socket that is closed
  or lost ends (`Serving`: the task that closes a slow client, and the read loop, at the
  latest by websockets' keepalive). Nothing is asked of the phone, its operator and the
  network: `SilentAppIsNoticed` and `MuteClientGoes` are promises of the Pi alone.
* **OperatorMode**: frames, and the reception of what is under way, are weakly fair. Taps,
  cuts and reconnects are not; `EndedSweepIsShown` is discharged by a cut.
* **Recording**: threads, encoders and frames go on. The run checks safety only.
* **TeachMode, VelocityLimits**: none; safety only.

## 5. Proofs

All leaves are checked by TLAPS; the assumptions are the named ASSUMEs of the modules
(times and counts are positive, `HoldAfter <= ReacquireAfter`, `StallTimeout <
MaxFrameAge < WatchdogSec` as `run_startup_health_check` demands, the five flight modes
the program names exist, scenarios are well formed). Each module proves type correctness
and then, for every value of the constants:

**ModeLink_proofs**: `SendBudgetHolds`, `FailureIsEarnedHolds`,
`QuietDropsOnlyForThePilot`, `PromiseIsKept`. The properties are not inductive. The
strengthening has two parts: *Account* (the bridge's count of sends is the true count,
and every send but the latest had exactly its time: `waited = (sends - 1) * RetryAfter +
age`) and *Provenance* (on a quiet link, while a request is outstanding and the pilot has
not switched, every copy of a mode in the system, real, reported or on its way, is the
old one or the requested one). The last is where a second overlapping request breaks the
promise. `PromiseIsKept` is the refinement, from the initial states and a step
simulation under *Account*: `Spec => KeepsThePromise`, which is ModePromise's
specification (its initial states and next-state relation) under the mapping.
`WaitIsBoundedHolds` follows from *Account*: no request waits longer than `MaxAttempts *
RetryAfter`, neither a check nor a send gives it time back. That the checks go on is
fairness, and TLC's part of `RequestResolved`.

**Companion_proofs**: `MotionsAreGated`, `SteeringIsOnASeenTarget`, `NothingCoasts`,
`StopEndsEverything`, `ThePilotIsNeverFought`, `LandingIsAsked`, and `ClimbsAreUndisturbed`,
which no run checks. The promises are about what the latest step sent; they hold because of
what earlier steps left, so the invariant `IInv` adds to them and to the types:

* `CoastIsWatched`: while the aircraft may be flying the last setpoint, the mode is
  GUIDED and stops are owed (`pi.stops > 0`). Without it a frame could be silent.
* `NothingUnderWay`: between STOP and the next mode command, requested mode, recovery and
  takeoff are all idle. Without it a stage could restart what STOP ended.
* `QuestionStands`: an open landing question is one that was put and not settled.

The proof follows the program. A lemma per stage says that it keeps the types and what
else it leaves alone: the stages up to the hand-back leave the course unchanged
(`SameCourse`: requested mode, takeoff, what is sent), the stages after it leave the
sight unchanged (`SameSight`: who is tracked). `FrameType` chains them in the order of
`process_frame` into what a whole frame guarantees (`FrameOutcome`); one lemma per
handler and one for the environment complete `NextInvariant`.

A second invariant, `Memory`, relates the state to its history and is proved on top of the
first: `SeenAbortsAreSticky`, `SweepsAreCurrent`, `FailsafeFiresOnce`. None of the three
properties is inductive; `Memory` adds what each rests on:

* `SeenAbortIsKept` (an approach that saw what must abort it is over) with
  `TakeoffComesFirst` (while a takeoff is under way nothing has approached since the last
  command): a frame that holds for a takeoff skips the approach controller, and would
  otherwise hide an abort.
* `SweepIsPlanned`: in Grid Search there is a plan made when the mode was entered.
* `FiringIsLatched`: while its cause lasts, a failsafe that has fired is latched.
* `FliesWhatIsGoingOn`: what the latest step flew was planned, or is an approach still
  going on.

`MandateIsKept` is the refinement `Spec => ActsOnAMandate`: the initial states map to
initial states and, under `IInv` before and after, each handler, each change of the world
and each frame maps to a step of MotionAuthority or a stutter.

The last part is what liveness needs besides fairness. That something ends requires a clock
that moves, which is fairness and left to TLC, and that no step gives time back, which is
safety and proved: `SearchesAreTimed`, `TakeoffsAreTimed`, `ReacquiringIsTimed` and
`AbsenceIsTimed` say that from one step to the next the time of a search, of a takeoff (up
to a new one started by the operator), of a target out of sight and of an absent app only
grows, in a frame by exactly what passed, and that a frame which finds it up ends the
phase. So enough frames end each, whatever comes between them. `ReacquiringIsTimed` needs
`NobodyBlamed` (the count of wrong looks is zero without a track), for else a target could
be found and given up within a frame and its time begin again; it assumes `DropFrames > 1`
for the same reason (the code's value is 20). `LostAircraftIsCalledHome` says that the
first frame that finds the app away too long or the battery empty, in GUIDED and off the
sticks, leaves an aircraft that was called home; it needs `LatchIsEarned` (a latch that is
set was set by asking).

**TeachMode_proofs**: `WholeHolds`, `StopHolds`, `RegistryHolds`, `SamplesHold`,
`StrangersHold`. `Fine(p)` says of any state of the program, also one between two stages,
that it has its type, teaching is whole in it and the registry is within its limit; one
lemma per stage says that it keeps `Fine` and the mode. `HaltedIsIdle` (after STOP the
mode is idle) is what makes a frame that resumes after STOP steer on nothing. `StrangersHold` needs `Pursuit`, which relates
what the program knows, a look and a count of mismatches, to what it cannot know, whom the
operator chose and who is in the box: a look that was learnt is that of the chosen one, and
every frame that could have shown a stranger has been counted, also in a frame that waits
for the worker.

**MavlinkLink_proofs**: `AltitudeHolds` needs `PositionIsDated`: a position that differs
from the height of now is at least as old as the last change of height. `AnswersHold`
needs `InStep`: while nothing is lost, the ids of the intents are those of the
acknowledgements under way followed by those of the commands under way, which is why the
oldest intent is the right one. A lost packet breaks exactly this. `ForceDisarmHolds`: a
forced disarm reaches an aircraft that has been high for longer than a position may be old
only when no recent position came at all (the code then refuses nothing, by its own
comment).

**FrameLoop_proofs**: `NothingStandsStill` needs `Pinged`, which ties two clocks
together: when systemd was last pinged, the last good frame was at most `MaxFrameAge`
old. `FailureReachesTheLoop`: an exception of the capture thread is the
last thing it hands over (`FailureIsLast`), so "newest wins" cannot lose it.

**Recording_proofs**: `SkippedFramesEnd` (every skipped frame met a `stop()` at work, also in
the reads `write()` repeats) rests on `Undisturbed`: as long as no `stop()` was at work since
a `write()` began, nobody has taken from the recorder what it tested, and the executor it
holds is not shut. Under it are `OwnIsFresh` (the executor a `start()` is about to set is
nobody's yet) and `ShutIsDraining` (one that is shut and still the recorder's is being drained
by a `stop()`). `ReportHolds` rests on
`WillBeReported` (whoever changed whether the recorder records, a frame about to tell the
duration included, will report it); `FilesHold` on `Whole`, which says for each stage of the
one command on a thread what it has left of the recorder and of a `write()` under way.

**Operator_proofs**: of OperatorLink `DisconnectHolds` (no automatic attempt without the
operator's wish; an older socket that nothing closed may stay up) and `HeartbeatHolds`, which
needs `Alone`: while no two threads have met, the one thread that is inside `startHeartbeat`
or `stopHeartbeat` has silenced the app, and otherwise what runs is what the field names, on
an open socket; and `FreeIsNew` (a socket that is free has told its listener nothing); of OperatorMode
`ModeTypeCorrect` and `LastWishHolds`. That the Pi ends in the mode tapped last is a
statement about an empty link. What is inductive is about one that is not: `NothingStale`
says, unless a tap was lost, that every command under way after the last tap carries what
is wished, and that with no tap under way the Pi is in a mode the last wish allows;
`ShownIsWished` says that the app shows Follow only if it was tapped last, so that a slider
or Resume sends nothing older.

**VelocityLimits_proofs**: `CapHolds` and `AltitudeHolds` follow from the last clamps of a
frame. `SpeedGrowsGradually` needs `NoPhantom`: what a limiter holds, seen through the
limits in force, is never faster than what was last commanded, unless a limit was raised.

**Only model-checked**: liveness (`RequestResolved`, `LossesMasked`,
`EveryRequestAnswered`, `TelemetryResumes`, `SearchEnds`, `TakeoffEnds`, `ReacquireEnds`,
`LostAircraftCalledHome`, `FramesOrRestart`, `SilentAppIsNoticed`, `MuteClientGoes`,
`EndedSweepIsShown`), which, like ENABLED, is beyond this prover; what a recursive
definition computes for every input, which would need induction over an operator, is also
out of its reach, and no module here needs it. Every other property of the passing runs,
each invariant, action property and refinement, is stated by a theorem. Types are proved,
not run.

## 6. Findings

Two are shown by a run whose property says what a document or comment says, and which TLC
violates; `PROJECT.json` quotes the lines of all of them.

* `companion_regained`: STOP with the sticks moved leaves a pending GUIDED request, which
  is re-sent when they are let go (`main.py:565`).
* `teach_stop`: STOP while the visual tracker's thread is at work. The thread then writes
  the target it has found and TRACKING, and the target STOP should forget is back
  (`main.py:886`, `tracking/state.py:45`). Nothing is steered on it
  (`StopHaltsTheFrame`, proved).

The others were met while modelling. For each, the property that does hold is stated
without the case, and its comment or precondition says so:

| where | the code | what is checked instead |
| --- | --- | --- |
| `bridge.py:678` | the Pi takes the effect of its own first mode request for the pilot's switch, and drops the second silently | `DropsOnlyForThePilot` with one request at a time |
| `bridge.py:689` | a switch turned back before the next heartbeat is not noticed, and the request is re-sent against the pilot | `NeverFightsThePilot` on a mode that is read at once |
| `bridge.py:491` | one lost arm command or acknowledgement shifts all later answers by one | `AnswersUnlessLost` |
| `bridge.py:493` | two outcomes in one frame period, and the first is never told | `EveryRequestAnswered` under `PromptFrames` |
| `main.py:789` | the failsafe RTL leaves a target search running in idle | `SearchEnds` |
| `supervisor.py:79` | conditions answered with SAFE never reach Approach-Test, which resumes by itself | `SeenAbortIsSticky` |
| `main.py:868` | a selection whose look cannot be learnt keeps the signature of the earlier target | `StrangersAreGivenUp` for targets whose look was learnt |
| `video_recorder.py:106` | while `stop()` drains, `write()` raises and the whole frame is skipped; so it is, with an AttributeError, when `stop()` sets a field to None between the test and the second read of `write()` | `SkippedOnlyForAStop` |
| `GroundStationClient.kt:45` | two threads that meet in `startHeartbeat` and `stopHeartbeat` can leave a heartbeat that no field names: it goes on after its socket's end | `BeatsOnAnOpenSocket` for threads that do not meet there; `SilentAppIsNoticed` in every interleaving |
| `main.py:628` | two starts in a row: the first writer is never released | `FilesAreWhole` without overlap, `RecordingIsReported` with it |
| `MainViewModel.kt:304` | a reconnect that fails before the conflated flow is looked at again is the last one | `DisconnectIsFinal`, `SilentAppIsNoticed` |
| `MainViewModel.kt:685` | a report sent before the Pi took the start of a sweep, or while GUIDED is still being confirmed, makes the app show Normal RC; the Pi goes on and sweeps | `EndedSweepIsShown`, the other direction |
| `main.py:442` | when the Pi has left Follow by itself the app still shows it; a slider engages Follow again and asks for GUIDED | `FliesTheLastWish`: never a mode that was replaced or stopped |
| `GroundStationClient.kt:120` | a STOP under way as the WebSocket drops is lost; after a reconnect before the failsafe the Pi goes on guiding | `FliesTheLastWish` until a tap is lost |
| `main.py:1300` | Grid Search keeps its speed limiter over a hold and resumes at full speed | `SpeedsUpGradually` for frames that follow one another |

Not a finding, but excluded by a premise: a change from one guidance mode to another with
auto-takeoff on starts another takeoff, with a timeout of its own (`main.py:439`), so
`TakeoffEnds` is stated for an operator who does not keep doing so.

## 7. Not modelled

*Partly modelled.* Of CompanionApp: WebRTC signalling, telemetry and health payloads and
the construction of the parts at start-up are left out. Of the identity check: the
histogram comparison and the slow adaptation of a look. Of manual override: channel and
deadband arithmetic. Of the guidance controllers: the PIDs (any wish within their limit)
and the geometry of waypoints. Of proximity guard and contact sensor: their thresholds;
their verdict is an input. Of camera and detector: the parsing of the network's output. Of
the trackers: association by overlap and Kalman arithmetic. Of Teach mode: the files of
registry and dataset, object sizes and the quality filters of samples. Of the app: what
its view model keeps for the screens besides the mode (trails, heat map, alerts).

*Not at all.* Distance and rangefinder (pinhole geometry and filters on real numbers,
numeric with no decisions of their own), live video (WebRTC and GStreamer plumbing around
library calls), session log and logging (nothing reads them back), configuration (its
values are the models' constants), rendering, sounds and the phone's own recording, the
simulator, offline tools.

*Interleavings left out.* In TeachMode a write of the worker between two writes of one
`stop()`: it could leave REACQUIRE without a time of loss, which the properties there do not
depend on. In OperatorLink a thread reads what was written last: the field of the heartbeat
is not volatile, and a stale read of it is not modelled.

*Hazards without a property, because the code violates the promise* (section 6): a second
mode request dropped for the effect of the first (`bridge.py:678`), answers shifted by a
lost packet (`bridge.py:491`), an answer overwritten in its mailbox (`bridge.py:493`), a
selection whose look is not learnt (`main.py:868`). The properties beside them say what
holds without the case.

*Hazards without a property, for lack of a promise*: the failsafe RTL that leaves a search
running in idle; its latch, which is set when RTL is requested and not when it is confirmed;
a takeoff that is commanded in the frame in which the failsafe fires, or that outlives an RTL
of target recovery or a landing answer (neither resets `auto_takeoff`). The documents do not
say what is meant.

## 8. Plan

Done: the core (Companion and its controllers, ModeLink with ModePromise), the connection
with arming (MavlinkLink), Teach mode's await (TeachMode), what keeps frames coming
(FrameLoop), Recording, both ends of the operator's link (OperatorLink), the limits of
guidance (VelocityLimits), the shown mode (OperatorMode), who may move the aircraft
(MotionAuthority), and theorems for every safety property of these. Left, in this order:

1. The safety halves of the liveness still without one: that what a lost telemetry stream
   and a mute client need to recover is never consumed (`TelemetryResumes`,
   `MuteClientGoes`), and that a frozen service runs towards its watchdog
   (`FramesOrRestart`).
2. **ProximityGuard** thresholds and **Association** (greedy matching) as integer
   functions against reference definitions over bounded inputs.
3. **RangefinderFusion** - which distance a controller believes when camera and
   rangefinder disagree, once its filters can be reduced to what the control tells apart.
