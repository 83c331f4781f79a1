------------------------------ MODULE Recording ------------------------------
(***************************************************************************)
(* Recording the video on the Pi: VideoRecorder, the operator's record      *)
(* commands, which call its start() and stop() on threads of their own, and *)
(* the frames, which hand it their pictures on the event loop meanwhile.    *)
(* _writer and _executor are fields that all of them read and write; every  *)
(* step here reads or writes one of them once.                              *)
(*                                                                         *)
(* Each writer is opened with an executor of its own; both go by the same   *)
(* name here.                                                              *)
(***************************************************************************)
EXTENDS FiniteSets, Naturals

CONSTANTS
    Writers,        \* cv2.VideoWriter objects
    NoWriter,
    Commands        \* record commands that may be under way together

ASSUME RecordingAssumption == NoWriter \notin Writers

VARIABLES
    recorder,   \* its _writer and _executor; the executors that are shut down
                \* and the writers that are open; for an executor, the writers
                \* it still has pictures for
    command,    \* the commands under way
    frame,      \* how far the frame is, and what write() has read
    reported,   \* the last recording_state the operator was sent
    ghost       \* was the last frame skipped, was a stop() at work during its
                \* write(), was a writer released with pictures to write, were
                \* two commands on threads together

vars == <<recorder, command, frame, reported, ghost>>

Stages == {"none", "start", "opening", "opened", "stop", "stopping", "shutting",
           "draining", "drained", "released", "forgotten", "answer", "raised"}

\* write() from its first read to its end.
Writing == {"asked", "sure", "held", "full"}

TypeOK ==
    /\ recorder \in [writer : Writers \cup {NoWriter}, executor : Writers \cup {NoWriter},
                     shut : SUBSET Writers, open : SUBSET Writers,
                     jobs : [Writers -> SUBSET Writers]]
    /\ command \in [Commands -> [at : Stages, own : Writers \cup {NoWriter}]]
    /\ frame \in [at : {"none", "written", "telling"} \cup Writing,
                  executor : Writers \cup {NoWriter}, writer : Writers \cup {NoWriter}]
    /\ reported \in BOOLEAN
    /\ ghost \in [skipped : BOOLEAN, stop : BOOLEAN, torn : BOOLEAN, overlap : BOOLEAN]

NoCommand == [at |-> "none", own |-> NoWriter]

FrameAt(stage) == [at |-> stage, executor |-> NoWriter, writer |-> NoWriter]

Init ==
    /\ recorder = [writer |-> NoWriter, executor |-> NoWriter, shut |-> {}, open |-> {},
                   jobs |-> [w \in Writers |-> {}]]
    /\ command = [c \in Commands |-> NoCommand]
    /\ frame = FrameAt("none")
    /\ reported = FALSE
    /\ ghost = [skipped |-> FALSE, stop |-> FALSE, torn |-> FALSE, overlap |-> FALSE]

IsRecording == recorder.writer # NoWriter

OnThread(c) == command[c].at \notin {"none", "answer", "raised"}

\* A stop() has found a writer, and has not forgotten it yet.
AtWork(c) ==
    command[c].at \in {"stopping", "shutting", "draining", "drained", "released"}

\* Between the awaits of a frame the event loop runs the other tasks.
LoopIsFree == frame.at \in {"none", "written"}

Move(c, stage) == command' = [command EXCEPT ![c].at = stage]

\* A name that nothing refers to any more.
Unused(w) ==
    /\ w \notin recorder.open /\ recorder.executor # w /\ recorder.jobs[w] = {}
    /\ frame.executor # w /\ frame.writer # w
    /\ \A c \in Commands : command[c].own # w

-----------------------------------------------------------------------------
(* Commands: is_recording is read on the event loop, start() and stop() run *)
(* on a thread, and the answer is sent on the event loop.                   *)

\* _handle_record_command up to its await.
RecordCommand(c, want) ==
    /\ LoopIsFree /\ command[c].at = "none"
    /\ IF want = IsRecording THEN Move(c, "answer") /\ UNCHANGED ghost
       ELSE /\ Move(c, IF want THEN "start" ELSE "stop")
            /\ ghost' = [ghost EXCEPT !.overlap =
                            @ \/ \E d \in Commands \ {c} : OnThread(d)]
    /\ UNCHANGED <<recorder, frame, reported>>

\* start().
StartRecorder(c) ==
    /\ command[c].at = "start"
    /\ Move(c, IF IsRecording THEN "answer" ELSE "opening")
    /\ UNCHANGED <<recorder, frame, reported, ghost>>

\* One codec opens, or none.
OpenWriter(c) ==
    /\ command[c].at = "opening"
    /\ \/ Move(c, "answer") /\ UNCHANGED recorder
       \/ \E w \in Writers :
            /\ Unused(w)
            /\ command' = [command EXCEPT ![c] = [at |-> "opened", own |-> w]]
            /\ recorder' = [recorder EXCEPT !.writer = w, !.open = @ \cup {w},
                                            !.shut = @ \ {w}]
    /\ UNCHANGED <<frame, reported, ghost>>

StartExecutor(c) ==
    /\ command[c].at = "opened"
    /\ recorder' = [recorder EXCEPT !.executor = command[c].own]
    /\ command' = [command EXCEPT ![c] = [NoCommand EXCEPT !.at = "answer"]]
    /\ UNCHANGED <<frame, reported, ghost>>

\* stop() looks for a writer ...
StopRecorder(c) ==
    /\ command[c].at = "stop"
    /\ IF ~IsRecording THEN Move(c, "answer") /\ UNCHANGED ghost
       ELSE Move(c, "stopping") /\ ghost' = [ghost EXCEPT !.stop = TRUE]
    /\ UNCHANGED <<recorder, frame, reported>>

\* ... and for an executor,
FindExecutor(c) ==
    /\ command[c].at = "stopping"
    /\ Move(c, IF recorder.executor = NoWriter THEN "drained" ELSE "shutting")
    /\ UNCHANGED <<recorder, frame, reported, ghost>>

\* which takes no more pictures, if it is still there ...
ShutExecutor(c) ==
    /\ command[c].at = "shutting"
    /\ IF recorder.executor = NoWriter THEN Move(c, "raised") /\ UNCHANGED recorder
       ELSE /\ command' = [command EXCEPT ![c] = [at |-> "draining", own |-> recorder.executor]]
            /\ recorder' = [recorder EXCEPT !.shut = @ \cup {recorder.executor}]
    /\ UNCHANGED <<frame, reported, ghost>>

Waited(e) == TRUE

AllWritten(e) == recorder.jobs[e] = {}

ExecutorKept == recorder.executor

ExecutorAfter == NoWriter

\* ... and ends when it has written those it has.
ExecutorDrained(c) ==
    /\ command[c].at = "draining" /\ AllWritten(command[c].own)
    /\ recorder' = [recorder EXCEPT !.executor = ExecutorAfter]
    /\ command' = [command EXCEPT ![c] = [NoCommand EXCEPT !.at = "drained"]]
    /\ UNCHANGED <<frame, reported, ghost>>

\* The writer is released, if another stop() has not forgotten it meanwhile.
ReleaseWriter(c) ==
    /\ command[c].at = "drained"
    /\ IF IsRecording
       THEN /\ Move(c, "released")
            /\ recorder' = [recorder EXCEPT !.open = @ \ {recorder.writer}]
            /\ ghost' = [ghost EXCEPT !.torn =
                            @ \/ \E e \in Writers : recorder.writer \in recorder.jobs[e]]
       ELSE Move(c, "raised") /\ UNCHANGED <<recorder, ghost>>
    /\ UNCHANGED <<frame, reported>>

NoAnswer == "raised"

AfterStop == "answer"

ForgetWriter(c) ==
    /\ command[c].at = "released"
    /\ recorder' = [recorder EXCEPT !.writer = NoWriter]
    /\ Move(c, "forgotten")
    /\ UNCHANGED <<frame, reported, ghost>>

\* _started_ts is reset.
EndStop(c) ==
    /\ command[c].at = "forgotten"
    /\ Move(c, AfterStop)
    /\ UNCHANGED <<recorder, frame, reported, ghost>>

\* duration_s tests _started_ts and reads it again: it raises if a stop() resets
\* it in between.
DurationRaises == \E c \in Commands : command[c].at = "forgotten"

\* send_recording_state.
Answer(c) ==
    /\ LoopIsFree /\ command[c].at = "answer"
    /\ \/ reported' = IsRecording
       \/ DurationRaises /\ UNCHANGED reported
    /\ command' = [command EXCEPT ![c] = NoCommand]
    /\ UNCHANGED <<recorder, frame, ghost>>

\* A command that raised is not answered.
GiveUp(c) ==
    /\ LoopIsFree /\ command[c].at = "raised"
    /\ command' = [command EXCEPT ![c] = NoCommand]
    /\ UNCHANGED <<recorder, frame, reported, ghost>>

-----------------------------------------------------------------------------
(* Frames and the threads that write them. *)

\* process_frame gives its picture to write() before it looks at it.  What write()
\* raises ends the frame.
Skipped ==
    /\ frame' = FrameAt("none")
    /\ ghost' = [ghost EXCEPT !.skipped = TRUE]

\* A frame comes to is_recording, the first test of write() too.
BeginWrite ==
    /\ frame.at = "none"
    /\ frame' = FrameAt(IF IsRecording THEN "asked" ELSE "written")
    /\ ghost' = [ghost EXCEPT !.skipped = FALSE, !.stop = \E c \in Commands : AtWork(c)]
    /\ UNCHANGED <<recorder, command, reported>>

\* The other test.
AskExecutor ==
    /\ frame.at = "asked"
    /\ frame' = FrameAt(IF recorder.executor = NoWriter THEN "written" ELSE "sure")
    /\ UNCHANGED <<recorder, command, reported, ghost>>

\* Both fields are read again: None has no submit ...
TakeExecutor ==
    /\ frame.at = "sure"
    /\ IF recorder.executor = NoWriter THEN Skipped
       ELSE frame' = [frame EXCEPT !.at = "held", !.executor = recorder.executor] /\ UNCHANGED ghost
    /\ UNCHANGED <<recorder, command, reported>>

\* ... and no write.
TakeWriter ==
    /\ frame.at = "held"
    /\ IF ~IsRecording THEN Skipped
       ELSE frame' = [frame EXCEPT !.at = "full", !.writer = recorder.writer] /\ UNCHANGED ghost
    /\ UNCHANGED <<recorder, command, reported>>

\* An executor that is shut down takes nothing.
Submit ==
    /\ frame.at = "full"
    /\ IF frame.executor \in recorder.shut THEN Skipped /\ UNCHANGED recorder
       ELSE /\ frame' = FrameAt("written") /\ UNCHANGED ghost
            /\ recorder' = [recorder EXCEPT !.jobs[frame.executor] = @ \cup {frame.writer}]
    /\ UNCHANGED <<command, reported>>

\* The end of a frame: while something is recorded, the operator is told so.
EndFrame ==
    /\ frame.at = "written"
    /\ frame' = FrameAt(IF IsRecording THEN "telling" ELSE "none")
    /\ UNCHANGED <<recorder, command, reported, ghost>>

TellDuration ==
    /\ frame.at = "telling"
    /\ frame' = FrameAt("none")
    /\ \/ reported' = TRUE
       \/ DurationRaises /\ UNCHANGED reported
    /\ UNCHANGED <<recorder, command, ghost>>

Frame ==
    \/ BeginWrite \/ AskExecutor \/ TakeExecutor \/ TakeWriter \/ Submit
    \/ EndFrame \/ TellDuration

\* The thread of an executor has written all it had for a writer.
Encode(e) ==
    /\ \E w \in recorder.jobs[e] : recorder' = [recorder EXCEPT !.jobs[e] = @ \ {w}]
    /\ UNCHANGED <<command, frame, reported, ghost>>

Go(c) ==
    \/ StartRecorder(c) \/ OpenWriter(c) \/ StartExecutor(c)
    \/ StopRecorder(c) \/ FindExecutor(c) \/ ShutExecutor(c) \/ ExecutorDrained(c)
    \/ ReleaseWriter(c) \/ ForgetWriter(c) \/ EndStop(c)
    \/ Answer(c) \/ GiveUp(c)

Next ==
    \/ \E c \in Commands : Go(c) \/ \E want \in BOOLEAN : RecordCommand(c, want)
    \/ Frame
    \/ \E e \in Writers : Encode(e)

\* Threads go on, and frames keep coming.
Spec ==
    /\ Init /\ [][Next]_vars
    /\ \A c \in Commands : WF_vars(Go(c))
    /\ \A e \in Writers : WF_vars(Encode(e))
    /\ WF_vars(Frame)

-----------------------------------------------------------------------------
(* Properties. *)

\* If the operator's commands do not overlap, a file is finished only when every
\* picture given to write() is in it (stop(), "Drain every already-submitted
\* write before finalizing the container"), and no writer is left open.
FilesAreWhole ==
    ~ghost.overlap => ~ghost.torn /\ recorder.open \subseteq {recorder.writer}

\* However commands overlap, write() ends a frame only if a stop() that had found a
\* writer was at work while it ran: between its tests and its reads, or while the
\* executor it read was being drained.  No start(), no stop() that is over and
\* nothing that a stop() leaves behind costs a frame.
SkippedOnlyForAStop == ghost.skipped => ghost.stop

\* When no command is under way, the operator has been told whether the recorder
\* records, also when commands overlapped and one of them raised.
RecordingIsReported ==
    (\A c \in Commands : command[c].at = "none") => reported = IsRecording
==============================================================================
