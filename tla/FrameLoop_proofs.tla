--------------------------- MODULE FrameLoop_proofs ---------------------------
(***************************************************************************)
(* For any timeouts that run_startup_health_check lets pass: the types of     *)
(* FrameLoop, that an exception of the capture thread reaches the loop, and   *)
(* that a service systemd counts as running shows no standing picture.        *)
(*                                                                         *)
(* The last needs Pinged, which ties the two clocks together: the last good   *)
(* frame was at most MaxFrameAge old when systemd was last pinged, so it is    *)
(* never older than MaxFrameAge and the time since the ping.  The second       *)
(* needs that the exception is the last thing its thread hands over.          *)
(***************************************************************************)
EXTENDS FrameLoop, TLAPS

Services == [state : {"down", "starting", "active"}, quiet : 0 .. Oldest]

Calls == UNION {[1 .. n -> Items] : n \in 0 .. MaxCalls}

Cameras == [thread : {"off", "running", "hung", "done"}, calls : Calls,
            item : Items \cup {"none"}]

Loops == [at : {"building", "wait", "processing", "closing"},
          waited : 0 .. LongestWait, first : BOOLEAN, good : 0 .. Old,
          wake : 0 .. WatchdogSec - 1, frozen : BOOLEAN]

Pinged ==
    service.state = "active" =>
        service.quiet <= WatchdogSec /\ loop.good <= MaxFrameAge + service.quiet

FailureIsLast ==
    camera.thread = "done" =>
        \/ loop.at = "closing"
        \/ camera.calls = <<>> /\ camera.item = "error"
        \/ camera.calls # <<>> /\ camera.calls[Len(camera.calls)] = "error"

-----------------------------------------------------------------------------
(* The constants, and the callbacks under way. *)

LEMMA ConstantsTyped ==
    /\ StallTimeout \in Nat \ {0} /\ FirstTimeout \in Nat \ {0} /\ MaxFrameAge \in Nat \ {0}
    /\ WatchdogSec \in Nat \ {0} /\ TimeoutStart \in Nat \ {0} /\ MaxCalls \in Nat \ {0}
    /\ LongestWait \in Nat \ {0} /\ Oldest \in Nat \ {0} /\ Old \in Nat \ {0}
    /\ WatchdogSec <= Oldest /\ TimeoutStart <= Oldest
    /\ WatchdogSec >= 2
BY FrameAssumption DEF LongestWait, Oldest, Old

LEMMA IntervalTyped == Interval \in 0 .. WatchdogSec - 1
<1>1. \A n \in Nat \ {0} : n \div 2 \in 0 .. n - 1
    OBVIOUS
<1> QED  BY <1>1, ConstantsTyped DEF Interval

LEMMA OlderTyped ==
    ASSUME NEW limit \in Nat, NEW age \in 0 .. limit
    PROVE  Older(age, limit) \in 0 .. limit /\ Older(age, limit) <= age + 1
BY DEF Older

LEMMA CallsAre ==
    ASSUME NEW calls
    PROVE  calls \in Calls <=> calls \in Seq(Items) /\ Len(calls) <= MaxCalls
<1>1. ASSUME calls \in Calls PROVE calls \in Seq(Items) /\ Len(calls) <= MaxCalls
    <2>1. PICK n \in 0 .. MaxCalls : calls \in [1 .. n -> Items]
        BY <1>1 DEF Calls
    <2> QED  BY <2>1, ConstantsTyped
<1>2. ASSUME calls \in Seq(Items), Len(calls) <= MaxCalls PROVE calls \in Calls
    <2>1. Len(calls) \in 0 .. MaxCalls /\ calls \in [1 .. Len(calls) -> Items]
        BY <1>2, ConstantsTyped
    <2> QED  BY <2>1 DEF Calls
<1> QED  BY <1>1, <1>2

LEMMA HandedOver ==
    ASSUME NEW calls \in Calls, NEW item \in Items, Len(calls) < MaxCalls
    PROVE  /\ Append(calls, item) \in Calls
           /\ Append(calls, item) # <<>>
           /\ Append(calls, item)[Len(Append(calls, item))] = item
<1>1. calls \in Seq(Items) /\ Len(calls) \in Nat
    BY CallsAre
<1>2. /\ Append(calls, item) \in Seq(Items)
      /\ Len(Append(calls, item)) = Len(calls) + 1
      /\ Append(calls, item)[Len(calls) + 1] = item
    BY <1>1
<1>3. Len(calls) + 1 <= MaxCalls
    BY <1>1, ConstantsTyped
<1>4. Append(calls, item) # <<>>
    BY <1>1, <1>2
<1> QED  BY <1>2, <1>3, <1>4, CallsAre

LEMMA TakenOver ==
    ASSUME NEW calls \in Calls, calls # <<>>
    PROVE  /\ Tail(calls) \in Calls /\ Head(calls) \in Items
           /\ Tail(calls) = <<>> => Head(calls) = calls[Len(calls)]
           /\ Tail(calls) # <<>> => Tail(calls)[Len(Tail(calls))] = calls[Len(calls)]
<1>1. calls \in Seq(Items) /\ Len(calls) <= MaxCalls /\ Len(calls) \in Nat \ {0}
    BY CallsAre
<1>2. /\ Tail(calls) \in Seq(Items) /\ Head(calls) \in Items /\ Head(calls) = calls[1]
      /\ Len(Tail(calls)) = Len(calls) - 1
      /\ \A i \in 1 .. Len(calls) - 1 : Tail(calls)[i] = calls[i + 1]
    BY <1>1
<1>3. Tail(calls) \in Calls
    <2>1. Len(Tail(calls)) <= MaxCalls
        BY <1>1, <1>2, ConstantsTyped
    <2> QED  BY <1>2, <2>1, CallsAre
<1>4. Tail(calls) = <<>> => Len(calls) = 1
    <2>1. ASSUME NEW k \in Nat \ {0}, NEW t, t = <<>>, Len(t) = k - 1
          PROVE  k = 1
        <3>1. Len(t) = 0
            BY <2>1
        <3> QED  BY <2>1, <3>1
    <2> QED  BY <1>1, <1>2, <2>1
<1>5. Tail(calls) # <<>> => Len(calls) - 1 \in 1 .. Len(calls) - 1
    BY <1>1, <1>2
<1> QED  BY <1>1, <1>2, <1>3, <1>4, <1>5

-----------------------------------------------------------------------------
(* Types. *)

LEMMA TypeIs ==
    /\ TypeOK <=> service \in Services /\ camera \in Cameras /\ loop \in Loops
    /\ TypeOK' <=> service' \in Services /\ camera' \in Cameras /\ loop' \in Loops
BY DEF TypeOK, Services, Cameras, Loops, Calls

LEMMA NewProcess ==
    /\ NoCamera \in Cameras /\ NewLoop \in Loops
    /\ [state |-> "down", quiet |-> 0] \in Services
    /\ [state |-> "starting", quiet |-> 0] \in Services
    /\ [state |-> "active", quiet |-> 0] \in Services
<1>1. <<>> \in Calls
    <2>1. <<>> \in [1 .. 0 -> Items]
        OBVIOUS
    <2>2. 0 \in 0 .. MaxCalls
        BY ConstantsTyped
    <2> QED  BY <2>1, <2>2 DEF Calls
<1>2. NoCamera \in Cameras
    BY <1>1 DEF NoCamera, Cameras
<1>3. 0 \in 0 .. LongestWait /\ Old \in 0 .. Old /\ 0 \in 0 .. WatchdogSec - 1 /\ 0 \in 0 .. Oldest
    BY ConstantsTyped
<1>4. NewLoop \in Loops
    BY <1>3 DEF NewLoop, Loops
<1>5. \A s \in {"down", "starting", "active"} : [state |-> s, quiet |-> 0] \in Services
    BY <1>3 DEF Services
<1> QED  BY <1>2, <1>4, <1>5

LEMMA TypeStep ==
    ASSUME TypeOK, [Next]_vars
    PROVE  TypeOK'
<1>0. service \in Services /\ camera \in Cameras /\ loop \in Loops
    BY TypeIs
<1>1. CASE Capture
    <2>1. PICK item \in Items :
              camera' \in {[camera EXCEPT !.calls = Append(@, item)],
                           [camera EXCEPT !.calls = Append(@, item), !.thread = "done"]}
        BY <1>1 DEF Capture, Items
    <2>2. camera.calls \in Calls
        BY <1>0 DEF Cameras
    <2>3. Append(camera.calls, item) \in Calls
        BY <1>1, <2>2, HandedOver DEF Capture
    <2>4. camera' \in Cameras
        BY <1>0, <2>1, <2>3 DEF Cameras
    <2> QED  BY <1>0, <1>1, <2>4, TypeIs DEF Capture
<1>2. CASE Hang
    <2>1. camera' \in Cameras
        BY <1>0, <1>2 DEF Hang, Cameras
    <2> QED  BY <1>0, <1>2, <2>1, TypeIs DEF Hang
<1>3. CASE Publish
    <2>1. camera.calls \in Calls
        BY <1>0 DEF Cameras
    <2>2. Tail(camera.calls) \in Calls /\ Head(camera.calls) \in Items
        BY <1>3, <2>1, TakenOver DEF Publish
    <2>3. camera' \in Cameras
        BY <1>0, <1>3, <2>2 DEF Publish, Newest, Cameras
    <2> QED  BY <1>0, <1>3, <2>3, TypeIs DEF Publish
<1>4. CASE OpenCamera
    <2>1. 0 \in 0 .. LongestWait
        BY ConstantsTyped
    <2>2. camera' \in Cameras /\ loop' \in Loops
        BY <1>0, <1>4, <2>1 DEF OpenCamera, Cameras, Loops
    <2> QED  BY <1>0, <1>4, <2>2, TypeIs DEF OpenCamera
<1>5. CASE TakeFrame
    <2>1. camera' \in Cameras /\ loop' \in Loops
        BY <1>0, <1>5 DEF TakeFrame, Cameras, Loops
    <2> QED  BY <1>0, <1>5, <2>1, TypeIs DEF TakeFrame
<1>6. CASE FinishFrame
    <2>0. 0 \in 0 .. LongestWait /\ 0 \in 0 .. Old
        BY ConstantsTyped
    <2>1. Skipped \in Loops
        BY <1>0, <2>0 DEF Skipped, Loops
    <2>2. [Skipped EXCEPT !.good = 0] \in Loops
        BY <2>0, <2>1 DEF Loops
    <2>3. loop' \in Loops
        BY <1>6, <2>1, <2>2 DEF FinishFrame
    <2> QED  BY <1>0, <1>6, <2>3, TypeIs DEF FinishFrame
<1>7. CASE CameraStalls
    <2>1. loop' \in Loops
        BY <1>0, <1>7 DEF CameraStalls, Loops
    <2> QED  BY <1>0, <1>7, <2>1, TypeIs DEF CameraStalls
<1>8. CASE Exit \/ KillService
    BY <1>8, NewProcess, TypeIs DEF Exit, KillService
<1>9. CASE Freeze \/ Thaw
    <2>1. loop' \in Loops
        BY <1>0, <1>9 DEF Freeze, Thaw, Loops
    <2> QED  BY <1>0, <1>9, <2>1, TypeIs DEF Freeze, Thaw
<1>10. CASE WatchdogTurn
    <2>1. loop' \in Loops
        BY <1>0, <1>10, IntervalTyped DEF WatchdogTurn, Loops
    <2>2. service' \in Services
        BY <1>0, <1>10, NewProcess DEF WatchdogTurn
    <2> QED  BY <1>0, <1>10, <2>1, <2>2, TypeIs DEF WatchdogTurn
<1>11. CASE RestartService
    BY <1>0, <1>11, NewProcess, TypeIs DEF RestartService
<1>12. CASE Tick
    <2>1. service' \in Services
        BY <1>0, <1>12, OlderTyped, ConstantsTyped DEF Tick, Services
    <2>2. /\ Older(loop.waited, LongestWait) \in 0 .. LongestWait
          /\ Older(loop.good, Old) \in 0 .. Old
          /\ (IF loop.wake = 0 THEN 0 ELSE loop.wake - 1) \in 0 .. WatchdogSec - 1
        <3>1. /\ loop.waited \in 0 .. LongestWait /\ loop.good \in 0 .. Old
              /\ loop.wake \in 0 .. WatchdogSec - 1
            BY <1>0 DEF Loops
        <3>2. Older(loop.waited, LongestWait) \in 0 .. LongestWait
            BY <3>1, OlderTyped, ConstantsTyped
        <3>3. Older(loop.good, Old) \in 0 .. Old
            BY <3>1, OlderTyped, ConstantsTyped
        <3> QED  BY <3>1, <3>2, <3>3, ConstantsTyped
    <2>3. (IF loop.at = "wait" THEN Older(loop.waited, LongestWait) ELSE 0) \in 0 .. LongestWait
        BY <2>2, ConstantsTyped
    <2>4. loop' = [loop EXCEPT !.waited = IF loop.at = "wait"
                                          THEN Older(loop.waited, LongestWait) ELSE 0,
                               !.good = Older(loop.good, Old),
                               !.wake = IF loop.wake = 0 THEN 0 ELSE loop.wake - 1]
        BY <1>0, <1>12 DEF Tick, Loops
    <2>5. loop' \in Loops
        BY <1>0, <2>2, <2>3, <2>4 DEF Loops
    <2> QED  BY <1>0, <1>12, <2>1, <2>5, TypeIs DEF Tick
<1>13. CASE UNCHANGED vars
    BY <1>0, <1>13, TypeIs DEF vars
<1> QED
    BY <1>1, <1>2, <1>3, <1>4, <1>5, <1>6, <1>7, <1>8, <1>9, <1>10, <1>11, <1>12, <1>13
    DEF Next

\* The service, the camera, its queue and the loop are of their types under every
\* order of failures, for any timeouts.
THEOREM TypeCorrect == Spec => []TypeOK
<1>1. Init => TypeOK
    BY NewProcess, TypeIs DEF Init
<1> QED  BY <1>1, TypeStep, PTL DEF Spec

-----------------------------------------------------------------------------
(* The camera's failure. *)

LEMMA FailureStep ==
    ASSUME TypeOK, FailureIsLast, [Next]_vars
    PROVE  FailureIsLast'
<1>0. /\ camera \in Cameras /\ loop \in Loops /\ camera.calls \in Calls
    BY TypeIs DEF Cameras
<1>1. CASE Capture
    <2>1. CASE camera' = [camera EXCEPT !.calls = Append(@, "frame")]
        <3>1. camera'.thread = "running"
            BY <1>0, <1>1, <2>1 DEF Capture, Cameras
        <3> QED  BY <3>1 DEF FailureIsLast
    <2>2. CASE camera' = [camera EXCEPT !.calls = Append(@, "error"), !.thread = "done"]
        <3>1. camera'.calls = Append(camera.calls, "error")
            BY <1>0, <2>2 DEF Cameras
        <3>2. "error" \in Items /\ Len(camera.calls) < MaxCalls
            BY <1>1 DEF Capture, Items
        <3> QED  BY <1>0, <3>1, <3>2, HandedOver DEF FailureIsLast
    <2> QED  BY <1>1, <2>1, <2>2 DEF Capture
<1>2. CASE Publish
    <2>1. /\ camera'.thread = camera.thread /\ loop'.at = loop.at
          /\ camera'.calls = Tail(camera.calls) /\ camera'.item = Head(camera.calls)
          /\ camera.calls # <<>>
        BY <1>0, <1>2 DEF Publish, Newest, Cameras
    <2> QED  BY <1>0, <2>1, TakenOver DEF FailureIsLast
<1>3. CASE TakeFrame
    BY <1>0, <1>3 DEF TakeFrame, FailureIsLast, Cameras, Loops
<1>4. CASE Hang \/ OpenCamera
    BY <1>0, <1>4 DEF Hang, OpenCamera, FailureIsLast, Cameras, Loops
<1>5. CASE Exit \/ KillService
    BY <1>5 DEF Exit, KillService, NoCamera, FailureIsLast
<1>6. CASE CameraStalls
    BY <1>0, <1>6 DEF CameraStalls, FailureIsLast, Loops
<1>7. CASE FinishFrame
    <2>1. loop.at # "closing"
        BY <1>7 DEF FinishFrame
    <2> QED  BY <1>7, <2>1 DEF FinishFrame, FailureIsLast
<1>8. CASE Freeze \/ Thaw \/ WatchdogTurn \/ RestartService \/ Tick \/ UNCHANGED vars
    <2>1. camera' = camera /\ loop'.at = loop.at
        BY <1>0, <1>8 DEF Freeze, Thaw, WatchdogTurn, RestartService, Tick, vars, Loops
    <2> QED  BY <2>1 DEF FailureIsLast
<1> QED  BY <1>1, <1>2, <1>3, <1>4, <1>5, <1>6, <1>7, <1>8 DEF Next

\* An exception of the capture thread is not lost among the frames, however many
\* callbacks are under way: newest wins, and it is always the newest.
THEOREM FailureReachesTheLoop == Spec => []CaptureFailureIsSeen
<1>1. Init => FailureIsLast
    BY DEF Init, NoCamera, FailureIsLast
<1>2. TypeOK /\ FailureIsLast => CaptureFailureIsSeen
    <2> SUFFICES ASSUME TypeOK, FailureIsLast, camera.calls # <<>>,
                        camera.calls[Len(camera.calls)] = "error"
                 PROVE  \E i \in DOMAIN camera.calls : camera.calls[i] = "error"
        BY DEF FailureIsLast, CaptureFailureIsSeen
    <2>1. camera.calls \in Calls
        BY TypeIs DEF Cameras
    <2>2. camera.calls \in Seq(Items)
        BY <2>1, CallsAre
    <2>3. Len(camera.calls) \in DOMAIN camera.calls
        BY <2>2
    <2> QED  BY <2>3
<1> QED  BY <1>1, <1>2, FailureStep, TypeCorrect, PTL DEF Spec

-----------------------------------------------------------------------------
(* The standing picture. *)

LEMMA PingStep ==
    ASSUME TypeOK, Pinged, [Next]_vars
    PROVE  Pinged'
<1>0. service \in Services /\ loop \in Loops
    BY TypeIs
<1>1. /\ service.quiet \in Nat /\ loop.good \in Nat
      /\ MaxFrameAge \in Nat /\ WatchdogSec \in Nat /\ WatchdogSec <= Oldest /\ Oldest \in Nat
    BY <1>0, ConstantsTyped DEF Services, Loops
<1>2. ASSUME UNCHANGED service, loop'.good = loop.good \/ loop'.good = 0 PROVE Pinged'
    BY <1>1, <1>2 DEF Pinged
<1>3. CASE Capture \/ Hang \/ Publish \/ UNCHANGED vars
    BY <1>2, <1>3 DEF Capture, Hang, Publish, vars
<1>4. CASE OpenCamera \/ TakeFrame \/ CameraStalls \/ Freeze \/ Thaw
    BY <1>0, <1>2, <1>4 DEF OpenCamera, TakeFrame, CameraStalls, Freeze, Thaw, Loops
<1>5. CASE FinishFrame
    <2>1. Skipped.good = loop.good /\ [Skipped EXCEPT !.good = 0].good = 0
        BY <1>0 DEF Skipped, Loops
    <2> QED  BY <1>2, <1>5, <2>1 DEF FinishFrame
<1>6. CASE Exit \/ KillService \/ RestartService
    BY <1>6 DEF Exit, KillService, RestartService, Pinged
<1>7. CASE WatchdogTurn
    <2>1. loop'.good = loop.good
        BY <1>0, <1>7 DEF WatchdogTurn, Loops
    <2>2. CASE service' = [state |-> "active", quiet |-> 0] /\ Healthy
        BY <1>1, <2>1, <2>2 DEF Pinged, Healthy
    <2> QED  BY <1>2, <1>7, <2>1, <2>2 DEF WatchdogTurn
<1>8. CASE Tick
    <2>1. /\ service'.state = service.state
          /\ service'.quiet = Older(service.quiet, Oldest)
          /\ loop'.good = Older(loop.good, Old)
        BY <1>0, <1>8 DEF Tick, Services, Loops
    <2>2. ASSUME service.state = "active"
          PROVE  service.quiet < WatchdogSec /\ loop.good <= MaxFrameAge + service.quiet
        BY <1>1, <1>8, <2>2 DEF Tick, ServiceDue, Pinged
    <2>3. loop'.good <= loop.good + 1 /\ loop'.good \in Nat
        BY <1>0, <2>1, OlderTyped, ConstantsTyped DEF Loops
    <2>4. service.state = "active" => service'.quiet = service.quiet + 1
        BY <1>1, <2>1, <2>2 DEF Older
    <2> QED  BY <1>1, <2>1, <2>2, <2>3, <2>4 DEF Pinged
<1> QED  BY <1>3, <1>4, <1>5, <1>6, <1>7, <1>8 DEF Next

\* Whatever hangs, and with any timeouts that the start-up check lets pass: a
\* service that runs, for systemd, shows no picture older than the frame age and
\* the watchdog time together.
THEOREM NothingStandsStill == Spec => []NoSilentStandstill
<1>1. Init => Pinged
    BY DEF Init, Pinged
<1>2. TypeOK /\ Pinged => NoSilentStandstill
    BY TypeIs, ConstantsTyped DEF Pinged, NoSilentStandstill, Services, Loops, Old
<1> QED  BY <1>1, <1>2, PingStep, TypeCorrect, PTL DEF Spec
==============================================================================
