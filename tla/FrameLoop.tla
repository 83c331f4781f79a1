------------------------------ MODULE FrameLoop ------------------------------
(***************************************************************************)
(* What keeps frames coming: the capture thread of the camera, the queue of *)
(* one frame it fills through the event loop, the perception loop that      *)
(* takes frames from it, the task that pings systemd, and systemd, which    *)
(* ends a process that does not ping and starts it again.                   *)
(*                                                                         *)
(* Time passes in ticks.  A tick waits for the timers that are due, unless  *)
(* the event loop is frozen; everything else takes as long as it likes.     *)
(***************************************************************************)
EXTENDS Integers, Sequences

CONSTANTS
    StallTimeout,   \* stall_timeout_s
    FirstTimeout,   \* CAMERA_FIRST_FRAME_TIMEOUT_S
    MaxFrameAge,    \* pipeline_max_frame_age_s
    WatchdogSec,    \* of the service
    TimeoutStart,   \* TimeoutStartSec of the service
    MaxCalls        \* bound: callbacks of the capture thread not yet run

ASSUME FrameAssumption ==
    /\ {StallTimeout, FirstTimeout, MaxFrameAge, WatchdogSec, TimeoutStart, MaxCalls}
           \subseteq Nat \ {0}
    /\ StallTimeout < MaxFrameAge /\ MaxFrameAge < WatchdogSec  \* run_startup_health_check
    /\ WatchdogSec >= 2

VARIABLES
    service,    \* the unit, as systemd sees it
    camera,     \* the capture thread, what it handed over, and the queue
    loop        \* the perception loop and the watchdog task on the event loop

vars == <<service, camera, loop>>

LongestWait == IF FirstTimeout > StallTimeout THEN FirstTimeout ELSE StallTimeout

\* No good frame yet; ages beyond Old are not told apart.
Old == MaxFrameAge + WatchdogSec + 1

Oldest == IF TimeoutStart > WatchdogSec THEN TimeoutStart ELSE WatchdogSec

Items == {"frame", "error"}

TypeOK ==
    /\ service \in [state : {"down", "starting", "active"}, quiet : 0 .. Oldest]
    /\ camera \in [thread : {"off", "running", "hung", "done"},
                   calls : UNION {[1 .. n -> Items] : n \in 0 .. MaxCalls},
                   item : Items \cup {"none"}]
    /\ loop \in [at : {"building", "wait", "processing", "closing"},
                 waited : 0 .. LongestWait, first : BOOLEAN, good : 0 .. Old,
                 wake : 0 .. WatchdogSec - 1, frozen : BOOLEAN]

NoCamera == [thread |-> "off", calls |-> <<>>, item |-> "none"]

NewLoop == [at |-> "building", waited |-> 0, first |-> TRUE, good |-> Old,
            wake |-> 0, frozen |-> FALSE]

Init ==
    /\ service = [state |-> "starting", quiet |-> 0]
    /\ camera = NoCamera /\ loop = NewLoop

Alive == service.state # "down"

Runs == Alive /\ ~loop.frozen

-----------------------------------------------------------------------------
(* The capture thread. *)

\* A captured frame, or the exception that ends the thread, is handed over.
Capture ==
    /\ Alive /\ camera.thread = "running" /\ Len(camera.calls) < MaxCalls
    /\ \/ camera' = [camera EXCEPT !.calls = Append(@, "frame")]
       \/ camera' = [camera EXCEPT !.calls = Append(@, "error"), !.thread = "done"]
    /\ UNCHANGED <<service, loop>>

\* capture_request() does not come back.
Hang ==
    /\ Alive /\ camera.thread = "running"
    /\ camera' = [camera EXCEPT !.thread = "hung"]
    /\ UNCHANGED <<service, loop>>

\* publish: the newest wins.
Newest(queued, item) == item

Publish ==
    /\ Runs /\ camera.calls # <<>>
    /\ camera' = [camera EXCEPT !.item = Newest(@, Head(camera.calls)),
                                !.calls = Tail(@)]
    /\ UNCHANGED <<service, loop>>

-----------------------------------------------------------------------------
(* The perception loop. *)

\* The orchestrator is built, the firmware loaded, the camera started.
OpenCamera ==
    /\ Runs /\ loop.at = "building"
    /\ camera' = [camera EXCEPT !.thread = "running"]
    /\ loop' = [loop EXCEPT !.at = "wait", !.waited = 0]
    /\ UNCHANGED service

TakeFrame ==
    /\ Runs /\ loop.at = "wait" /\ camera.item = "frame"
    /\ camera' = [camera EXCEPT !.item = "none"]
    /\ loop' = [loop EXCEPT !.at = "processing"]
    /\ UNCHANGED service

Skipped == [loop EXCEPT !.at = "wait", !.waited = 0, !.first = FALSE]

\* process_frame came back, or raised: then the frame is skipped.
FinishFrame ==
    /\ Runs /\ loop.at = "processing"
    /\ loop' \in {[Skipped EXCEPT !.good = 0], Skipped}
    /\ UNCHANGED <<service, camera>>

Timeout == IF loop.first THEN LongestWait ELSE StallTimeout

\* A frame published in the moment the timer fires does not save the wait.
StallDue == loop.at = "wait" /\ loop.waited >= Timeout

\* CameraStallError: no frame for too long, or the exception of the thread.
\* The event loop is left, and the watchdog task with it.
CameraStalls ==
    /\ Runs
    /\ loop.at = "wait"
    /\ StallDue \/ camera.item = "error"
    /\ loop' = [loop EXCEPT !.at = "closing"]
    /\ UNCHANGED <<service, camera>>

\* The process waits for its threads and ends.
Exit ==
    /\ Runs /\ loop.at = "closing"
    /\ service' = [state |-> "down", quiet |-> 0]
    /\ camera' = NoCamera /\ loop' = NewLoop

-----------------------------------------------------------------------------
(* The watchdog task and systemd. *)

AlwaysHealthy == TRUE

HealthyOnceReady == loop.good < Old

\* pipeline_healthy.
Healthy == loop.good <= MaxFrameAge

\* watchdog_interval_from_env.
Interval == WatchdogSec \div 2

WakeDue == loop.at # "closing" /\ loop.wake = 0

\* A turn of SystemdWatchdog.run(); a message may fail to be sent.
WatchdogTurn ==
    /\ Runs /\ WakeDue
    /\ loop' = [loop EXCEPT !.wake = Interval]
    /\ \E sent \in BOOLEAN :
           IF Healthy /\ sent
           THEN service' = [state |-> "active", quiet |-> 0]
           ELSE UNCHANGED service
    /\ UNCHANGED camera

\* Something on the event loop blocks it (before a timer is due: a timer that
\* is due is next).
Freeze ==
    /\ Runs /\ ~StallDue /\ ~WakeDue
    /\ loop' = [loop EXCEPT !.frozen = TRUE]
    /\ UNCHANGED <<service, camera>>

Thaw ==
    /\ Alive /\ loop.frozen
    /\ loop' = [loop EXCEPT !.frozen = FALSE]
    /\ UNCHANGED <<service, camera>>

\* systemd's timer for the start, then for the pings.
ServiceDue ==
    \/ service.state = "starting" /\ service.quiet >= TimeoutStart
    \/ service.state = "active" /\ service.quiet >= WatchdogSec

KillService ==
    /\ ServiceDue
    /\ service' = [state |-> "down", quiet |-> 0]
    /\ camera' = NoCamera /\ loop' = NewLoop

\* Restart=always.
RestartService ==
    /\ service.state = "down"
    /\ service' = [state |-> "starting", quiet |-> 0]
    /\ UNCHANGED <<camera, loop>>

-----------------------------------------------------------------------------
(* Time. *)

Older(age, limit) == IF age < limit THEN age + 1 ELSE limit

Tick ==
    /\ Alive /\ ~ServiceDue
    /\ loop.frozen \/ ~(StallDue \/ WakeDue)
    /\ service' = [service EXCEPT !.quiet = Older(@, Oldest)]
    /\ loop' = [loop EXCEPT !.waited = IF loop.at = "wait" THEN Older(@, LongestWait) ELSE 0,
                            !.good = Older(@, Old),
                            !.wake = IF @ = 0 THEN 0 ELSE @ - 1]
    /\ UNCHANGED camera

Next ==
    \/ Capture \/ Hang \/ Publish
    \/ OpenCamera \/ TakeFrame \/ FinishFrame \/ CameraStalls \/ Exit
    \/ Freeze \/ Thaw
    \/ WatchdogTurn \/ KillService \/ RestartService
    \/ Tick

\* Time passes, timers that are due are served, the capture thread captures
\* until it hangs, and systemd does its work.  Nothing says that a frozen loop
\* thaws, that process_frame comes back or that a process closes by itself.
Spec ==
    /\ Init /\ [][Next]_vars
    /\ WF_vars(Tick) /\ WF_vars(WatchdogTurn) /\ WF_vars(CameraStalls)
    /\ WF_vars(KillService) /\ WF_vars(RestartService)

-----------------------------------------------------------------------------
(* Properties. *)

\* An exception of the capture thread is not lost among the frames: until the
\* loop has seen it, it is on its way (publish, "newest frame wins").
CaptureFailureIsSeen ==
    camera.thread = "done" =>
        \/ camera.item = "error" \/ loop.at = "closing"
        \/ \E i \in DOMAIN camera.calls : camera.calls[i] = "error"

\* A running service shows the operator a picture that is not older than the
\* frame age and the watchdog time together, whatever hangs: the camera, a
\* frame, the event loop or the exit of the process.
NoSilentStandstill == service.state = "active" => loop.good < Old

\* A process that does not bring good frames any more is started again: there
\* is always another good frame or another start.
FramesOrRestart == Alive ~> service.state = "down" \/ loop.good = 0
==============================================================================
