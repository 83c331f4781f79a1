--------------------------- MODULE Recording_proofs ---------------------------
(***************************************************************************)
(* For any number of record commands under way together and of writers: the  *)
(* types of Recording, that a frame is skipped only for a stop() at work       *)
(* during its write(), that the operator has been told the truth when no        *)
(* command is under way, and that files are whole while commands do not       *)
(* overlap.                                                                 *)
(*                                                                         *)
(* The first claim rests on Undisturbed, what a write() has found so far if    *)
(* no stop() came, and on OwnIsFresh: the executor a start() is about to set   *)
(* is nobody's yet.  The last rests on Whole, which says for each stage of     *)
(* the one command on a thread what it leaves of the recorder, and for a       *)
(* write() that has read its executor that it is the recorder's, or shut.      *)
(***************************************************************************)
EXTENDS Recording, TLAPS

Threads == Writers \cup {NoWriter}

Recorders == [writer : Threads, executor : Threads, shut : SUBSET Writers,
              open : SUBSET Writers, jobs : [Writers -> SUBSET Writers]]

Stage == [at : Stages, own : Threads]

Frames == [at : {"none", "written", "telling"} \cup Writing,
           executor : Threads, writer : Threads]

Ghosts == [skipped : BOOLEAN, stop : BOOLEAN, torn : BOOLEAN, overlap : BOOLEAN]

\* What write() has read is there.
Held ==
    /\ frame.at \in {"held", "full"} => frame.executor \in Writers
    /\ frame.at = "full" => frame.writer \in Writers

\* The writer a start() has opened has no executor yet, and is shut for nobody.
OwnIsFresh ==
    \A c \in Commands : command[c].at = "opened" =>
        /\ command[c].own \in Writers
        /\ command[c].own # recorder.executor /\ command[c].own \notin recorder.shut
        /\ \A d \in Commands \ {c} : command[d].own # command[c].own

ShutIsDraining ==
    recorder.executor \in recorder.shut =>
        \E c \in Commands : command[c].at = "draining" /\ command[c].own = recorder.executor

\* What a write() has found so far, if no stop() came meanwhile.
Undisturbed ==
    ~ghost.stop =>
        /\ ~ghost.skipped
        /\ frame.at \in Writing =>
               /\ IsRecording /\ \A c \in Commands : ~AtWork(c)
               /\ frame.at = "sure" => recorder.executor # NoWriter
               /\ frame.at \in {"held", "full"} => frame.executor \notin recorder.shut

\* Whoever has changed whether the recorder records will report it.
Pending == \E c \in Commands : command[c].at \in {"opened", "forgotten", "answer"}

WillBeReported ==
    /\ reported # IsRecording => Pending
    /\ frame.at = "telling" /\ ~IsRecording => Pending

\* What a command on a thread has left of the recorder.
StageOK(c) ==
    /\ command[c].at \in {"start", "opening"} => ~IsRecording
    /\ command[c].at = "opened" =>
           IsRecording /\ command[c].own = recorder.writer /\ recorder.executor = NoWriter
    /\ command[c].at \in {"stop", "stopping"} => IsRecording
    /\ command[c].at = "shutting" => IsRecording /\ recorder.executor # NoWriter
    /\ command[c].at = "draining" =>
           /\ IsRecording /\ command[c].own = recorder.executor
           /\ recorder.executor \in recorder.shut
    /\ command[c].at = "drained" => IsRecording /\ recorder.executor = NoWriter
    /\ command[c].at = "released" => recorder.executor = NoWriter /\ recorder.open = {}

\* An executor that a write() holds is the recorder's, or takes nothing any more.
HeldIsCurrent ==
    frame.at \in {"held", "full"} /\ frame.executor \notin recorder.shut =>
        /\ frame.executor = recorder.executor
        /\ frame.at = "full" => frame.writer = recorder.writer

Whole ==
    /\ ~ghost.torn /\ recorder.open \subseteq {recorder.writer}
    /\ recorder.executor # NoWriter => IsRecording
    /\ \A e \in Writers : recorder.jobs[e] # {} => e = recorder.executor
    /\ \A e \in Writers : recorder.jobs[e] \subseteq {recorder.writer}
    /\ HeldIsCurrent
    /\ \A c, d \in Commands : OnThread(c) /\ OnThread(d) => c = d
    /\ \A c \in Commands : StageOK(c)

-----------------------------------------------------------------------------
(* Types. *)

LEMMA Typed ==
    /\ TypeOK <=> /\ recorder \in Recorders /\ command \in [Commands -> Stage]
                  /\ frame \in Frames /\ reported \in BOOLEAN /\ ghost \in Ghosts
    /\ TypeOK' <=> /\ recorder' \in Recorders /\ command' \in [Commands -> Stage]
                   /\ frame' \in Frames /\ reported' \in BOOLEAN /\ ghost' \in Ghosts
BY DEF TypeOK, Recorders, Threads, Stage, Frames, Ghosts

\* A command that moves on keeps what it owns; the others stay where they are.
LEMMA Moved ==
    ASSUME TypeOK, NEW c \in Commands, NEW stage \in Stages, Move(c, stage)
    PROVE  /\ command' \in [Commands -> Stage]
           /\ command'[c].at = stage /\ command'[c].own = command[c].own
           /\ \A d \in Commands \ {c} : command'[d] = command[d]
<1>1. command \in [Commands -> Stage] /\ command[c] \in Stage
    BY Typed
<1>2. [command[c] EXCEPT !.at = stage] \in Stage
    BY <1>1 DEF Stage
<1>3. command' = [command EXCEPT ![c] = [command[c] EXCEPT !.at = stage]]
    BY <1>1 DEF Move
<1> QED  BY <1>1, <1>2, <1>3 DEF Stage

LEMMA SetTo ==
    ASSUME TypeOK, NEW c \in Commands, NEW stage \in Stages, NEW own \in Threads,
           command' = [command EXCEPT ![c] = [at |-> stage, own |-> own]]
    PROVE  /\ command' \in [Commands -> Stage]
           /\ command'[c].at = stage /\ command'[c].own = own
           /\ \A d \in Commands \ {c} : command'[d] = command[d]
<1>1. command \in [Commands -> Stage] /\ [at |-> stage, own |-> own] \in Stage
    BY Typed DEF Stage
<1> QED  BY <1>1

\* The end of a command, and its way to an answer.
LEMMA Ended ==
    /\ NoCommand = [at |-> "none", own |-> NoWriter]
    /\ \A stage : [NoCommand EXCEPT !.at = stage] = [at |-> stage, own |-> NoWriter]
    /\ NoWriter \in Threads
BY DEF NoCommand, Threads

LEMMA Freed ==
    ASSUME TypeOK, NEW c \in Commands, NEW stage \in Stages,
           command' = [command EXCEPT ![c] = [NoCommand EXCEPT !.at = stage]]
    PROVE  /\ command' \in [Commands -> Stage]
           /\ command'[c].at = stage /\ command'[c].own = NoWriter
           /\ \A d \in Commands \ {c} : command'[d] = command[d]
<1>1. command' = [command EXCEPT ![c] = [at |-> stage, own |-> NoWriter]]
    BY Ended
<1> QED  BY <1>1, Ended, SetTo

LEMMA Over ==
    ASSUME TypeOK, NEW c \in Commands, command' = [command EXCEPT ![c] = NoCommand]
    PROVE  /\ command' \in [Commands -> Stage]
           /\ command'[c].at = "none" /\ command'[c].own = NoWriter
           /\ \A d \in Commands \ {c} : command'[d] = command[d]
<1>1. command' = [command EXCEPT ![c] = [at |-> "none", own |-> NoWriter]]
    BY Ended
<1> QED  BY <1>1, Ended, SetTo DEF Stages

\* A frame at rest holds nothing.
LEMMA AtRest ==
    ASSUME NEW stage \in {"none", "asked", "sure", "written", "telling"}
    PROVE  /\ FrameAt(stage) \in Frames /\ FrameAt(stage).at = stage
           /\ FrameAt(stage).executor = NoWriter /\ FrameAt(stage).writer = NoWriter
BY DEF FrameAt, Frames, Threads, Writing

LEMMA TypeStep ==
    ASSUME TypeOK, Held, [Next]_vars
    PROVE  TypeOK'
<1>0. /\ recorder \in Recorders /\ command \in [Commands -> Stage]
      /\ frame \in Frames /\ reported \in BOOLEAN /\ ghost \in Ghosts
    BY Typed
<1>1. ASSUME NEW c \in Commands, NEW want \in BOOLEAN, RecordCommand(c, want) PROVE TypeOK'
    <2>1. command' \in [Commands -> Stage]
        BY <1>1, Moved DEF RecordCommand, Stages
    <2>2. ghost' \in Ghosts
        <3>1. ghost' \in {ghost, [ghost EXCEPT !.overlap = TRUE], [ghost EXCEPT !.overlap = FALSE]}
            BY <1>0, <1>1 DEF RecordCommand, Ghosts
        <3> QED  BY <1>0, <3>1 DEF Ghosts
    <2> QED  BY <1>0, <1>1, <2>1, <2>2, Typed DEF RecordCommand
<1>2. ASSUME NEW c \in Commands, StartRecorder(c) PROVE TypeOK'
    BY <1>0, <1>2, Moved, Typed DEF StartRecorder, Stages
<1>3. ASSUME NEW c \in Commands, OpenWriter(c) PROVE TypeOK'
    <2>1. CASE Move(c, "answer") /\ UNCHANGED recorder
        BY <1>0, <1>3, <2>1, Moved, Typed DEF OpenWriter, Stages
    <2>2. CASE \E w \in Writers :
                  /\ command' = [command EXCEPT ![c] = [at |-> "opened", own |-> w]]
                  /\ recorder' = [recorder EXCEPT !.writer = w, !.open = @ \cup {w},
                                                  !.shut = @ \ {w}]
        <3>0. PICK w \in Writers :
                  /\ command' = [command EXCEPT ![c] = [at |-> "opened", own |-> w]]
                  /\ recorder' = [recorder EXCEPT !.writer = w, !.open = recorder.open \cup {w},
                                                  !.shut = recorder.shut \ {w}]
            BY <2>2
        <3>1. recorder' \in Recorders
            BY <1>0, <3>0 DEF Recorders, Threads
        <3>2. command' \in [Commands -> Stage]
            BY <3>0, SetTo DEF Stages, Threads
        <3> QED  BY <1>0, <1>3, <3>1, <3>2, Typed DEF OpenWriter
    <2> QED  BY <1>3, <2>1, <2>2 DEF OpenWriter
<1>4. ASSUME NEW c \in Commands, StartExecutor(c) PROVE TypeOK'
    <2>1. command' \in [Commands -> Stage]
        BY <1>4, Freed DEF StartExecutor, Stages
    <2>2. recorder' \in Recorders
        BY <1>0, <1>4 DEF StartExecutor, Recorders, Stage
    <2> QED  BY <1>0, <1>4, <2>1, <2>2, Typed DEF StartExecutor
<1>5. ASSUME NEW c \in Commands, StopRecorder(c) PROVE TypeOK'
    <2>1. command' \in [Commands -> Stage]
        BY <1>5, Moved DEF StopRecorder, Stages
    <2>2. ghost' \in Ghosts
        BY <1>0, <1>5 DEF StopRecorder, Ghosts
    <2> QED  BY <1>0, <1>5, <2>1, <2>2, Typed DEF StopRecorder
<1>5a. ASSUME NEW c \in Commands, FindExecutor(c) \/ EndStop(c) PROVE TypeOK'
    <2>1. command' \in [Commands -> Stage]
        BY <1>5a, Moved DEF FindExecutor, EndStop, AfterStop, Stages
    <2> QED  BY <1>0, <1>5a, <2>1, Typed DEF FindExecutor, EndStop
<1>5b. ASSUME NEW c \in Commands, ShutExecutor(c) PROVE TypeOK'
    <2>1. CASE UNCHANGED recorder /\ Move(c, "raised")
        BY <1>0, <1>5b, <2>1, Moved, Typed DEF ShutExecutor, Stages
    <2>2. CASE /\ recorder.executor # NoWriter
               /\ command' = [command EXCEPT ![c] = [at |-> "draining", own |-> recorder.executor]]
               /\ recorder' = [recorder EXCEPT !.shut = @ \cup {recorder.executor}]
        <3>1. recorder' \in Recorders
            BY <1>0, <2>2 DEF Recorders, Threads
        <3>2. recorder.executor \in Threads
            BY <1>0 DEF Recorders
        <3>3. command' \in [Commands -> Stage]
            BY <2>2, <3>2, SetTo DEF Stages
        <3> QED  BY <1>0, <1>5b, <3>1, <3>3, Typed DEF ShutExecutor
    <2> QED  BY <1>5b, <2>1, <2>2 DEF ShutExecutor
<1>6. ASSUME NEW c \in Commands, ExecutorDrained(c) PROVE TypeOK'
    <2>1. command' \in [Commands -> Stage]
        BY <1>6, Freed DEF ExecutorDrained, Stages
    <2>2. recorder' \in Recorders
        BY <1>0, <1>6 DEF ExecutorDrained, ExecutorAfter, Recorders, Threads
    <2> QED  BY <1>0, <1>6, <2>1, <2>2, Typed DEF ExecutorDrained
<1>7. ASSUME NEW c \in Commands, ReleaseWriter(c) PROVE TypeOK'
    <2>1. command' \in [Commands -> Stage]
        BY <1>7, Moved DEF ReleaseWriter, Stages
    <2>2. recorder' \in Recorders
        BY <1>0, <1>7 DEF ReleaseWriter, Recorders
    <2>3. ghost' \in Ghosts
        <3>1. ghost' \in {ghost, [ghost EXCEPT !.torn = TRUE], [ghost EXCEPT !.torn = FALSE]}
            BY <1>0, <1>7 DEF ReleaseWriter, Ghosts
        <3> QED  BY <1>0, <3>1 DEF Ghosts
    <2> QED  BY <1>0, <1>7, <2>1, <2>2, <2>3, Typed DEF ReleaseWriter
<1>8. ASSUME NEW c \in Commands, ForgetWriter(c) PROVE TypeOK'
    <2>1. command' \in [Commands -> Stage]
        BY <1>8, Moved DEF ForgetWriter, Stages
    <2>2. recorder' \in Recorders
        BY <1>0, <1>8 DEF ForgetWriter, Recorders, Threads
    <2> QED  BY <1>0, <1>8, <2>1, <2>2, Typed DEF ForgetWriter
<1>9. ASSUME NEW c \in Commands, Answer(c) \/ GiveUp(c) PROVE TypeOK'
    <2>1. command' \in [Commands -> Stage]
        BY <1>9, Over DEF Answer, GiveUp, Stages
    <2> QED  BY <1>0, <1>9, <2>1, Typed DEF Answer, GiveUp, IsRecording
<1>10. CASE Frame
    <2>1. /\ recorder.executor \in Threads /\ recorder.writer \in Threads
          /\ recorder.jobs \in [Writers -> SUBSET Writers]
        BY <1>0 DEF Recorders
    <2>2. frame' \in Frames
        <3>1. CASE \E stage \in {"none", "asked", "sure", "written", "telling"} :
                      frame' = FrameAt(stage)
            BY <3>1, AtRest
        <3>2. CASE frame' = [frame EXCEPT !.at = "held", !.executor = recorder.executor]
            BY <1>0, <2>1, <3>2 DEF Frames, Writing
        <3>3. CASE frame' = [frame EXCEPT !.at = "full", !.writer = recorder.writer]
            BY <1>0, <2>1, <3>3 DEF Frames, Writing
        <3> QED
            BY <1>10, <3>1, <3>2, <3>3
            DEF Frame, BeginWrite, AskExecutor, TakeExecutor, TakeWriter, Submit, EndFrame,
                TellDuration, Skipped
    <2>3. ghost' \in Ghosts
        <3>1. \/ ghost' = ghost \/ ghost' = [ghost EXCEPT !.skipped = TRUE]
              \/ ghost' = [ghost EXCEPT !.skipped = FALSE, !.stop = \E c \in Commands : AtWork(c)]
            BY <1>10
            DEF Frame, BeginWrite, AskExecutor, TakeExecutor, TakeWriter, Submit, EndFrame,
                TellDuration, Skipped
        <3> DEFINE busy == \E c \in Commands : AtWork(c)
        <3>2. busy \in BOOLEAN
            OBVIOUS
        <3> HIDE DEF busy
        <3>3. [ghost EXCEPT !.skipped = FALSE, !.stop = busy] \in Ghosts
            BY <1>0, <3>2 DEF Ghosts
        <3>4. [ghost EXCEPT !.skipped = TRUE] \in Ghosts
            BY <1>0 DEF Ghosts
        <3> USE DEF busy
        <3> QED  BY <1>0, <3>1, <3>3, <3>4
    <2>4. reported' \in BOOLEAN
        BY <1>0, <1>10
        DEF Frame, BeginWrite, AskExecutor, TakeExecutor, TakeWriter, Submit, EndFrame, TellDuration
    <2>5. recorder' \in Recorders
        <3>1. CASE UNCHANGED recorder
            BY <1>0, <3>1
        <3>2. CASE /\ frame.at = "full"
                   /\ recorder' = [recorder EXCEPT !.jobs[frame.executor] = @ \cup {frame.writer}]
            <4>1. frame.executor \in Writers /\ frame.writer \in Writers
                BY <3>2 DEF Held
            <4>2. [recorder.jobs EXCEPT ![frame.executor] = @ \cup {frame.writer}]
                      \in [Writers -> SUBSET Writers]
                BY <2>1, <4>1
            <4> QED  BY <1>0, <3>2, <4>2 DEF Recorders
        <3> QED
            BY <1>10, <3>1, <3>2
            DEF Frame, BeginWrite, AskExecutor, TakeExecutor, TakeWriter, Submit, EndFrame,
                TellDuration
    <2>6. command' = command
        BY <1>10
        DEF Frame, BeginWrite, AskExecutor, TakeExecutor, TakeWriter, Submit, EndFrame, TellDuration
    <2> QED  BY <1>0, <2>2, <2>3, <2>4, <2>5, <2>6, Typed
<1>11. ASSUME NEW e \in Writers, Encode(e) PROVE TypeOK'
    <2>1. PICK w \in recorder.jobs[e] : recorder' = [recorder EXCEPT !.jobs[e] = @ \ {w}]
        BY <1>11 DEF Encode
    <2>2. recorder.jobs \in [Writers -> SUBSET Writers]
        BY <1>0 DEF Recorders
    <2>3. [recorder.jobs EXCEPT ![e] = @ \ {w}] \in [Writers -> SUBSET Writers]
        BY <2>2
    <2>4. recorder' \in Recorders
        BY <1>0, <2>1, <2>3 DEF Recorders
    <2> QED  BY <1>0, <1>11, <2>4, Typed DEF Encode
<1>12. CASE UNCHANGED vars
    BY <1>0, <1>12, Typed DEF vars
<1> QED
    BY <1>1, <1>2, <1>3, <1>4, <1>5, <1>5a, <1>5b, <1>6, <1>7, <1>8, <1>9, <1>10, <1>11, <1>12
    DEF Next, Go

\* Only write() itself changes what it holds.
LEMMA HeldStep ==
    ASSUME TypeOK, Held, [Next]_vars
    PROVE  Held'
<1>0. recorder \in Recorders /\ frame \in Frames
    BY Typed
<1>1. CASE frame' = frame
    BY <1>1 DEF Held
<1>2. CASE \E stage \in {"none", "asked", "sure", "written", "telling"} : frame' = FrameAt(stage)
    BY <1>2, AtRest DEF Held
<1>3. CASE TakeExecutor /\ frame' = [frame EXCEPT !.at = "held", !.executor = recorder.executor]
    BY <1>0, <1>2, <1>3 DEF TakeExecutor, Skipped, Held, Frames, Recorders, Threads
<1>4. CASE TakeWriter /\ frame' = [frame EXCEPT !.at = "full", !.writer = recorder.writer]
    BY <1>0, <1>2, <1>4 DEF TakeWriter, Skipped, IsRecording, Held, Frames, Recorders, Threads
<1> QED
    BY <1>1, <1>2, <1>3, <1>4
    DEF Next, Go, vars, RecordCommand, StartRecorder, OpenWriter, StartExecutor, StopRecorder,
        FindExecutor, ShutExecutor, ExecutorDrained, ReleaseWriter, ForgetWriter, EndStop, Answer,
        GiveUp, Encode, Frame, BeginWrite, AskExecutor, TakeExecutor, TakeWriter, Submit, EndFrame,
        TellDuration, Skipped

LEMMA TypeAndHeld == Spec => [](TypeOK /\ Held)
<1>1. Init => TypeOK /\ Held
    <2> SUFFICES ASSUME Init PROVE TypeOK /\ Held
        OBVIOUS
    <2>1. [w \in Writers |-> {}] \in [Writers -> SUBSET Writers]
        OBVIOUS
    <2>2. recorder \in Recorders
        BY <2>1 DEF Init, Recorders, Threads
    <2>3. NoCommand \in Stage
        BY Ended DEF Stage, Stages
    <2>4. command \in [Commands -> Stage]
        BY <2>3 DEF Init
    <2>5. frame \in Frames /\ Held
        BY AtRest DEF Init, Held
    <2> QED  BY <2>2, <2>4, <2>5, Typed DEF Init, Ghosts
<1> QED  BY <1>1, TypeStep, HeldStep, PTL DEF Spec

\* The recorder, the commands and the frames are of their types under every order
\* of their steps.
THEOREM TypeCorrect == Spec => []TypeOK
BY TypeAndHeld, PTL

-----------------------------------------------------------------------------
(* What the operator is told. *)

LEMMA ReportStep ==
    ASSUME TypeOK, WillBeReported, [Next]_vars
    PROVE  WillBeReported'
<1>0. /\ recorder \in Recorders /\ command \in [Commands -> Stage] /\ frame \in Frames
    BY Typed
<1>1. ASSUME UNCHANGED <<reported, recorder.writer, frame>>, NEW c \in Commands,
             \A d \in Commands \ {c} : command'[d] = command[d],
             \/ command'[c].at \in {"opened", "forgotten", "answer"}
             \/ command[c].at \notin {"opened", "forgotten", "answer"}
      PROVE  WillBeReported'
    BY <1>1 DEF WillBeReported, Pending, IsRecording
<1>2. ASSUME NEW c \in Commands, NEW want \in BOOLEAN, RecordCommand(c, want)
      PROVE  WillBeReported'
    BY <1>1, <1>2, Moved DEF RecordCommand, Stages
<1>3. ASSUME NEW c \in Commands, StartRecorder(c) PROVE WillBeReported'
    BY <1>1, <1>3, Moved DEF StartRecorder, Stages
<1>4. ASSUME NEW c \in Commands, OpenWriter(c) PROVE WillBeReported'
    <2>1. command'[c].at \in {"opened", "answer"}
        BY <1>4, Moved, SetTo DEF OpenWriter, Stages, Threads
    <2> QED  BY <2>1 DEF WillBeReported, Pending
<1>5. ASSUME NEW c \in Commands, StartExecutor(c) PROVE WillBeReported'
    <2>1. command'[c].at = "answer"
        BY <1>5, Freed DEF StartExecutor, Stages
    <2> QED  BY <2>1 DEF WillBeReported, Pending
<1>6. ASSUME NEW c \in Commands, StopRecorder(c) \/ FindExecutor(c) PROVE WillBeReported'
    BY <1>1, <1>6, Moved DEF StopRecorder, FindExecutor, Stages
<1>7. ASSUME NEW c \in Commands, ShutExecutor(c) PROVE WillBeReported'
    <2>1. \A d \in Commands \ {c} : command'[d] = command[d]
        <3>1. recorder.executor \in Threads
            BY <1>0 DEF Recorders
        <3> QED  BY <1>7, <3>1, Moved, SetTo DEF ShutExecutor, Stages
    <2>2. recorder'.writer = recorder.writer
        BY <1>0, <1>7 DEF ShutExecutor, Recorders
    <2> QED  BY <1>1, <1>7, <2>1, <2>2 DEF ShutExecutor
<1>8. ASSUME NEW c \in Commands, ExecutorDrained(c) PROVE WillBeReported'
    <2>1. \A d \in Commands \ {c} : command'[d] = command[d]
        BY <1>8, Freed DEF ExecutorDrained, Stages
    <2>2. recorder'.writer = recorder.writer
        BY <1>0, <1>8 DEF ExecutorDrained, Recorders
    <2> QED  BY <1>1, <1>8, <2>1, <2>2 DEF ExecutorDrained
<1>9. ASSUME NEW c \in Commands, ReleaseWriter(c) PROVE WillBeReported'
    <2>1. \A d \in Commands \ {c} : command'[d] = command[d]
        BY <1>9, Moved DEF ReleaseWriter, Stages
    <2>2. recorder'.writer = recorder.writer
        BY <1>0, <1>9 DEF ReleaseWriter, Recorders
    <2> QED  BY <1>1, <1>9, <2>1, <2>2 DEF ReleaseWriter
<1>10. ASSUME NEW c \in Commands, ForgetWriter(c) \/ EndStop(c) PROVE WillBeReported'
    <2>1. command'[c].at \in {"forgotten", "answer"}
        BY <1>10, Moved DEF ForgetWriter, EndStop, AfterStop, Stages
    <2> QED  BY <2>1 DEF WillBeReported, Pending
<1>11. ASSUME NEW c \in Commands, Answer(c) PROVE WillBeReported'
    <2>1. /\ \A d \in Commands \ {c} : command'[d] = command[d]
          /\ frame'.at # "telling" /\ recorder' = recorder /\ command[c].at = "answer"
        BY <1>11, Over DEF Answer, LoopIsFree, Stages
    <2>2. CASE reported' = IsRecording
        BY <2>1, <2>2 DEF WillBeReported, IsRecording
    <2>3. CASE DurationRaises
        <3>1. PICK d \in Commands : command[d].at = "forgotten"
            BY <2>3 DEF DurationRaises
        <3>2. command'[d] = command[d]
            BY <2>1, <3>1
        <3> QED  BY <2>1, <3>1, <3>2 DEF WillBeReported, Pending
    <2> QED  BY <1>11, <2>2, <2>3 DEF Answer
<1>12. ASSUME NEW c \in Commands, GiveUp(c) PROVE WillBeReported'
    <2>1. \A d \in Commands \ {c} : command'[d] = command[d]
        BY <1>12, Over DEF GiveUp, Stages
    <2> QED  BY <1>1, <1>12, <2>1 DEF GiveUp
<1>13. CASE Frame
    <2>1. recorder'.writer = recorder.writer /\ command' = command
        BY <1>0, <1>13
        DEF Frame, BeginWrite, AskExecutor, TakeExecutor, TakeWriter, Submit, EndFrame,
            TellDuration, Recorders
    <2>2. Pending' <=> Pending
        BY <2>1 DEF Pending
    <2>3. IsRecording' <=> IsRecording
        BY <2>1 DEF IsRecording
    <2>4. CASE TellDuration
        <3>1. frame.at = "telling" /\ frame'.at = "none"
            BY <2>4, AtRest DEF TellDuration
        <3>2. CASE reported' = TRUE
            BY <2>2, <2>3, <3>1, <3>2 DEF WillBeReported, IsRecording
        <3>3. CASE DurationRaises
            BY <2>2, <3>3 DEF DurationRaises, WillBeReported, Pending
        <3> QED  BY <2>4, <3>2, <3>3 DEF TellDuration
    <2>5. CASE ~TellDuration
        <3>1. reported' = reported
            BY <1>13, <2>5
            DEF Frame, BeginWrite, AskExecutor, TakeExecutor, TakeWriter, Submit, EndFrame
        <3>2. frame'.at = "telling" => IsRecording
            <4>1. \A stage \in {"none", "asked", "sure", "written"} :
                      FrameAt(stage).at = stage
                BY AtRest
            <4>2. CASE BeginWrite \/ AskExecutor
                BY <4>1, <4>2 DEF BeginWrite, AskExecutor
            <4>3. CASE TakeExecutor \/ TakeWriter \/ Submit
                BY <1>0, <4>1, <4>3 DEF TakeExecutor, TakeWriter, Submit, Skipped, Frames
            <4>4. CASE EndFrame
                BY <4>1, <4>4 DEF EndFrame
            <4> QED  BY <1>13, <2>5, <4>2, <4>3, <4>4 DEF Frame
        <3>3. (reported # IsRecording)' => reported # IsRecording
            BY <2>1, <3>1 DEF IsRecording
        <3> QED  BY <2>2, <2>3, <3>2, <3>3 DEF WillBeReported
    <2> QED  BY <2>4, <2>5
<1>14. CASE (\E e \in Writers : Encode(e)) \/ UNCHANGED vars
    <2>1. recorder'.writer = recorder.writer /\ UNCHANGED <<command, reported, frame>>
        BY <1>0, <1>14 DEF Encode, vars, Recorders
    <2> QED  BY <2>1 DEF WillBeReported, Pending, IsRecording
<1> QED
    BY <1>2, <1>3, <1>4, <1>5, <1>6, <1>7, <1>8, <1>9, <1>10, <1>11, <1>12, <1>13, <1>14
    DEF Next, Go

\* Also with any number of commands that overlap and raise: when none is under way
\* the operator has been told whether the recorder records.
THEOREM ReportHolds == Spec => []RecordingIsReported
<1>1. Init => WillBeReported
    <2>1. Init => recorder.writer = NoWriter /\ reported = FALSE /\ frame.at # "telling"
        BY AtRest DEF Init
    <2>2. recorder.writer = NoWriter => IsRecording = FALSE
        BY Zenon DEF IsRecording
    <2> QED  BY <2>1, <2>2, Zenon DEF WillBeReported
<1>2. WillBeReported => RecordingIsReported
    BY DEF WillBeReported, Pending, RecordingIsReported
<1> QED  BY <1>1, <1>2, ReportStep, TypeCorrect, PTL DEF Spec

-----------------------------------------------------------------------------
(* Skipped frames. *)

LEMMA ShutStep ==
    ASSUME TypeOK, OwnIsFresh, ShutIsDraining, [Next]_vars
    PROVE  OwnIsFresh' /\ ShutIsDraining'
<1>0. /\ recorder \in Recorders /\ command \in [Commands -> Stage]
      /\ recorder.executor \in Threads /\ recorder.shut \subseteq Writers
    BY Typed DEF Recorders
<1>1. ASSUME UNCHANGED <<recorder.executor, recorder.shut>>, NEW c \in Commands,
             \A d \in Commands \ {c} : command'[d] = command[d],
             command[c].at # "draining", command'[c].at # "opened",
             command'[c].own = command[c].own
      PROVE  OwnIsFresh' /\ ShutIsDraining'
    BY <1>1 DEF OwnIsFresh, ShutIsDraining
<1>2. ASSUME NEW c \in Commands, NEW want \in BOOLEAN, RecordCommand(c, want)
      PROVE  OwnIsFresh' /\ ShutIsDraining'
    BY <1>1, <1>2, Moved DEF RecordCommand, Stages
<1>3. ASSUME NEW c \in Commands, StartRecorder(c) PROVE OwnIsFresh' /\ ShutIsDraining'
    BY <1>1, <1>3, Moved DEF StartRecorder, Stages
<1>4. ASSUME NEW c \in Commands, OpenWriter(c) PROVE OwnIsFresh' /\ ShutIsDraining'
    <2>1. CASE Move(c, "answer") /\ UNCHANGED recorder
        BY <1>1, <1>4, <2>1, Moved DEF OpenWriter, Stages
    <2>2. ASSUME NEW w \in Writers, Unused(w),
                 command' = [command EXCEPT ![c] = [at |-> "opened", own |-> w]],
                 recorder' = [recorder EXCEPT !.writer = w, !.open = @ \cup {w},
                                              !.shut = @ \ {w}]
          PROVE  OwnIsFresh' /\ ShutIsDraining'
        <3>1. /\ command'[c].at = "opened" /\ command'[c].own = w
              /\ \A d \in Commands \ {c} : command'[d] = command[d]
            BY <2>2, SetTo DEF Stages, Threads
        <3>2. recorder'.executor = recorder.executor /\ recorder'.shut = recorder.shut \ {w}
            BY <1>0, <2>2 DEF Recorders
        <3>3. w # recorder.executor /\ \A d \in Commands : command[d].own # w
            BY <2>2 DEF Unused
        <3>4. command[c].at = "opening"
            BY <1>4 DEF OpenWriter
        <3>5. OwnIsFresh'
            BY <2>2, <3>1, <3>2, <3>3 DEF OwnIsFresh
        <3>6. ShutIsDraining'
            BY <3>1, <3>2, <3>3, <3>4 DEF ShutIsDraining
        <3> QED  BY <3>5, <3>6
    <2> QED  BY <1>4, <2>1, <2>2 DEF OpenWriter
<1>5. ASSUME NEW c \in Commands, StartExecutor(c) PROVE OwnIsFresh' /\ ShutIsDraining'
    <2>1. /\ command'[c].at = "answer" /\ command'[c].own = NoWriter
          /\ \A d \in Commands \ {c} : command'[d] = command[d]
        BY <1>5, Freed DEF StartExecutor, Stages
    <2>2. recorder'.executor = command[c].own /\ recorder'.shut = recorder.shut
        BY <1>0, <1>5 DEF StartExecutor, Recorders
    <2>3. command[c].own \notin recorder.shut /\ \A d \in Commands \ {c} : command[d].own # command[c].own
        BY <1>5 DEF StartExecutor, OwnIsFresh
    <2>4. ShutIsDraining'
        BY <2>2, <2>3 DEF ShutIsDraining
    <2>5. OwnIsFresh'
        <3> SUFFICES ASSUME NEW d \in Commands, command'[d].at = "opened"
                     PROVE  /\ command'[d].own \in Writers
                            /\ command'[d].own # recorder'.executor
                            /\ command'[d].own \notin recorder'.shut
                            /\ \A x \in Commands \ {d} : command'[x].own # command'[d].own
            BY DEF OwnIsFresh
        <3>1. d # c /\ command'[d] = command[d]
            BY <2>1
        <3>2. command[d].own \in Writers /\ command[d].own # NoWriter
            BY <3>1, RecordingAssumption DEF OwnIsFresh
        <3> QED  BY <2>1, <2>2, <2>3, <3>1, <3>2 DEF OwnIsFresh
    <2> QED  BY <2>4, <2>5
<1>6. ASSUME NEW c \in Commands, ShutExecutor(c) PROVE OwnIsFresh' /\ ShutIsDraining'
    <2>1. CASE UNCHANGED recorder /\ Move(c, "raised")
        BY <1>1, <1>6, <2>1, Moved DEF ShutExecutor, Stages
    <2>2. CASE /\ command' = [command EXCEPT ![c] = [at |-> "draining", own |-> recorder.executor]]
               /\ recorder' = [recorder EXCEPT !.shut = @ \cup {recorder.executor}]
        <3>1. /\ command'[c].at = "draining" /\ command'[c].own = recorder.executor
              /\ \A d \in Commands \ {c} : command'[d] = command[d]
            BY <1>0, <2>2, SetTo DEF Stages
        <3>2. /\ recorder'.executor = recorder.executor
              /\ recorder'.shut = recorder.shut \cup {recorder.executor}
            BY <1>0, <2>2 DEF Recorders
        <3>3. ShutIsDraining'
            BY <3>1, <3>2 DEF ShutIsDraining
        <3>4. OwnIsFresh'
            BY <3>1, <3>2 DEF OwnIsFresh
        <3> QED  BY <3>3, <3>4
    <2> QED  BY <1>6, <2>1, <2>2 DEF ShutExecutor
<1>7. ASSUME NEW c \in Commands, ExecutorDrained(c) PROVE OwnIsFresh' /\ ShutIsDraining'
    <2>1. /\ command'[c].at = "drained" /\ command'[c].own = NoWriter
          /\ \A d \in Commands \ {c} : command'[d] = command[d]
        BY <1>7, Freed DEF ExecutorDrained, Stages
    <2>2. recorder'.executor = NoWriter /\ recorder'.shut = recorder.shut
        BY <1>0, <1>7 DEF ExecutorDrained, ExecutorAfter, Recorders
    <2>3. ShutIsDraining'
        BY <1>0, <2>2, RecordingAssumption DEF ShutIsDraining
    <2>4. OwnIsFresh'
        BY <2>1, <2>2, RecordingAssumption DEF OwnIsFresh
    <2> QED  BY <2>3, <2>4
<1>8. ASSUME NEW c \in Commands,
             \/ StopRecorder(c) \/ FindExecutor(c) \/ ReleaseWriter(c)
             \/ ForgetWriter(c) \/ EndStop(c)
      PROVE  OwnIsFresh' /\ ShutIsDraining'
    <2>1. recorder'.executor = recorder.executor /\ recorder'.shut = recorder.shut
        BY <1>0, <1>8
        DEF StopRecorder, FindExecutor, ReleaseWriter, ForgetWriter, EndStop, Recorders
    <2>2. \E stage \in Stages \ {"opened"} : Move(c, stage)
        BY <1>8
        DEF StopRecorder, FindExecutor, ReleaseWriter, ForgetWriter, EndStop, AfterStop, Stages
    <2>3. command[c].at # "draining"
        BY <1>8 DEF StopRecorder, FindExecutor, ReleaseWriter, ForgetWriter, EndStop
    <2> QED  BY <1>1, <2>1, <2>2, <2>3, Moved
<1>9. ASSUME NEW c \in Commands, Answer(c) \/ GiveUp(c) PROVE OwnIsFresh' /\ ShutIsDraining'
    <2>1. /\ command'[c].at = "none" /\ command'[c].own = NoWriter
          /\ \A d \in Commands \ {c} : command'[d] = command[d]
          /\ recorder' = recorder /\ command[c].at \in {"answer", "raised"}
        BY <1>9, Over DEF Answer, GiveUp, Stages
    <2>2. ShutIsDraining'
        BY <2>1 DEF ShutIsDraining
    <2>3. OwnIsFresh'
        BY <2>1, RecordingAssumption DEF OwnIsFresh
    <2> QED  BY <2>2, <2>3
<1>10. CASE Frame \/ (\E e \in Writers : Encode(e)) \/ UNCHANGED vars
    <2>1. UNCHANGED <<recorder.executor, recorder.shut, command>>
        BY <1>0, <1>10
        DEF Frame, BeginWrite, AskExecutor, TakeExecutor, TakeWriter, Submit, EndFrame,
            TellDuration, Encode, vars, Recorders
    <2> QED  BY <2>1 DEF OwnIsFresh, ShutIsDraining
<1> QED
    BY <1>2, <1>3, <1>4, <1>5, <1>6, <1>7, <1>8, <1>9, <1>10 DEF Next, Go

\* A write() that no stop() met goes on with what it has found.
LEMMA UndisturbedStep ==
    ASSUME TypeOK, OwnIsFresh, ShutIsDraining, Undisturbed, [Next]_vars
    PROVE  Undisturbed'
<1>0. /\ recorder \in Recorders /\ command \in [Commands -> Stage]
      /\ frame \in Frames /\ ghost \in Ghosts
    BY Typed
<1>a. ASSUME UNCHANGED <<frame, ghost.skipped, ghost.stop>>, frame.at \notin Writing
      PROVE  Undisturbed'
    BY <1>a DEF Undisturbed
<1>b. ASSUME UNCHANGED <<frame, ghost.skipped, ghost.stop>>, NEW c \in Commands,
             \A d \in Commands \ {c} : command'[d] = command[d], ~AtWork(c)',
             IsRecording => IsRecording',
             recorder.executor # NoWriter => recorder'.executor # NoWriter,
             recorder'.shut \subseteq recorder.shut
      PROVE  Undisturbed'
    BY <1>b DEF Undisturbed, AtWork
<1>1. ASSUME NEW c \in Commands, NEW want \in BOOLEAN, RecordCommand(c, want)
      PROVE  Undisturbed'
    <2>1. UNCHANGED <<frame, ghost.skipped, ghost.stop>> /\ frame.at \notin Writing
        BY <1>0, <1>1 DEF RecordCommand, LoopIsFree, Writing, Ghosts
    <2> QED  BY <1>a, <2>1
<1>2. ASSUME NEW c \in Commands, StartRecorder(c) PROVE Undisturbed'
    <2>1. /\ command'[c].at \in {"answer", "opening"}
          /\ \A d \in Commands \ {c} : command'[d] = command[d]
        BY <1>2, Moved DEF StartRecorder, Stages
    <2> QED  BY <1>2, <1>b, <2>1 DEF StartRecorder, AtWork, IsRecording
<1>3. ASSUME NEW c \in Commands, OpenWriter(c) PROVE Undisturbed'
    <2>1. /\ command'[c].at \in {"answer", "opened"}
          /\ \A d \in Commands \ {c} : command'[d] = command[d]
        BY <1>3, Moved, SetTo DEF OpenWriter, Stages, Threads
    <2>2. /\ IsRecording => IsRecording'
          /\ recorder'.executor = recorder.executor /\ recorder'.shut \subseteq recorder.shut
        <3>1. CASE UNCHANGED recorder
            BY <3>1 DEF IsRecording
        <3>2. ASSUME NEW w \in Writers,
                     recorder' = [recorder EXCEPT !.writer = w, !.open = @ \cup {w},
                                                  !.shut = @ \ {w}]
              PROVE  /\ IsRecording' /\ recorder'.executor = recorder.executor
                     /\ recorder'.shut \subseteq recorder.shut
            BY <1>0, <3>2, RecordingAssumption DEF IsRecording, Recorders
        <3> QED  BY <1>3, <3>1, <3>2 DEF OpenWriter
    <2> QED  BY <1>3, <1>b, <2>1, <2>2 DEF OpenWriter, AtWork
<1>4. ASSUME NEW c \in Commands, StartExecutor(c) PROVE Undisturbed'
    <2>1. /\ command'[c].at = "answer"
          /\ \A d \in Commands \ {c} : command'[d] = command[d]
        BY <1>4, Freed DEF StartExecutor, Stages
    <2>2. /\ recorder'.executor = command[c].own
          /\ recorder'.writer = recorder.writer /\ recorder'.shut = recorder.shut
        BY <1>0, <1>4 DEF StartExecutor, Recorders
    <2>3. command[c].own # NoWriter
        BY <1>4, RecordingAssumption DEF StartExecutor, OwnIsFresh
    <2> QED  BY <1>4, <1>b, <2>1, <2>2, <2>3 DEF StartExecutor, AtWork, IsRecording
<1>5. ASSUME NEW c \in Commands, StopRecorder(c) PROVE Undisturbed'
    <2>1. CASE ghost' = [ghost EXCEPT !.stop = TRUE]
        BY <1>0, <2>1 DEF Undisturbed, Ghosts
    <2>2. CASE Move(c, "answer") /\ UNCHANGED ghost
        <3>1. /\ command'[c].at = "answer"
              /\ \A d \in Commands \ {c} : command'[d] = command[d]
            BY <2>2, Moved DEF Stages
        <3> QED  BY <1>5, <1>b, <2>2, <3>1 DEF StopRecorder, AtWork, IsRecording
    <2> QED  BY <1>5, <2>1, <2>2 DEF StopRecorder
<1>6. ASSUME NEW c \in Commands,
             \/ FindExecutor(c) \/ ShutExecutor(c) \/ ExecutorDrained(c)
             \/ ReleaseWriter(c) \/ ForgetWriter(c)
      PROVE  Undisturbed'
    <2>1. /\ AtWork(c) /\ frame' = frame
          /\ ghost'.skipped = ghost.skipped /\ ghost'.stop = ghost.stop
        BY <1>0, <1>6
        DEF FindExecutor, ShutExecutor, ExecutorDrained, ReleaseWriter, ForgetWriter, AtWork,
            Ghosts
    <2> QED  BY <2>1 DEF Undisturbed
<1>7. ASSUME NEW c \in Commands, EndStop(c) \/ Answer(c) \/ GiveUp(c) PROVE Undisturbed'
    <2>1. /\ command'[c].at \in {"answer", "none"}
          /\ \A d \in Commands \ {c} : command'[d] = command[d]
        BY <1>7, Moved, Over DEF EndStop, AfterStop, Answer, GiveUp, Stages
    <2>2. UNCHANGED <<recorder, frame, ghost>>
        BY <1>7 DEF EndStop, Answer, GiveUp
    <2> QED  BY <1>b, <2>1, <2>2 DEF AtWork, IsRecording
<1>8. CASE BeginWrite
    <2> DEFINE busy == \E c \in Commands : AtWork(c)
    <2>1. ghost' = [ghost EXCEPT !.skipped = FALSE, !.stop = busy]
        BY <1>8 DEF BeginWrite
    <2>2. busy \in BOOLEAN
        OBVIOUS
    <2>3. UNCHANGED <<recorder, command>> /\ (frame'.at = "asked" => IsRecording)
        BY <1>8, AtRest DEF BeginWrite
    <2>4. frame'.at \in {"asked", "written"}
        BY <1>8, AtRest DEF BeginWrite
    <2>5. ~busy => \A c \in Commands : ~AtWork(c)'
        BY <2>3 DEF AtWork
    <2> HIDE DEF busy
    <2>6. ~ghost'.skipped /\ (ghost'.stop <=> busy)
        BY <1>0, <2>1, <2>2 DEF Ghosts
    <2> QED  BY <2>3, <2>4, <2>5, <2>6 DEF Undisturbed, IsRecording, Writing
<1>9. CASE AskExecutor
    <2>1. /\ frame.at = "asked" /\ UNCHANGED <<recorder, command, ghost>>
          /\ frame'.at \in {"written", "sure"}
          /\ frame'.at = "sure" => recorder.executor # NoWriter
        BY <1>9, AtRest DEF AskExecutor
    <2> QED  BY <2>1 DEF Undisturbed, IsRecording, AtWork, Writing
<1>10. CASE TakeExecutor
    <2>1. UNCHANGED <<recorder, command>> /\ frame.at = "sure"
        BY <1>10 DEF TakeExecutor
    <2>2. CASE ghost.stop
        <3>1. ghost'.stop
            BY <1>0, <1>10, <2>2 DEF TakeExecutor, Skipped, Ghosts
        <3> QED  BY <3>1 DEF Undisturbed
    <2>3. CASE ~ghost.stop
        <3>1. recorder.executor # NoWriter /\ \A c \in Commands : ~AtWork(c)
            BY <2>1, <2>3 DEF Undisturbed, Writing
        <3>2. frame' = [frame EXCEPT !.at = "held", !.executor = recorder.executor]
              /\ ghost' = ghost
            BY <1>10, <3>1 DEF TakeExecutor
        <3>3. recorder.executor \notin recorder.shut
            BY <3>1 DEF ShutIsDraining, AtWork
        <3>4. frame'.at = "held" /\ frame'.executor = recorder.executor
            BY <1>0, <3>2 DEF Frames
        <3> QED  BY <2>1, <2>3, <3>2, <3>3, <3>4 DEF Undisturbed, IsRecording, AtWork, Writing
    <2> QED  BY <2>2, <2>3
<1>11. CASE TakeWriter
    <2>1. UNCHANGED <<recorder, command>> /\ frame.at = "held"
        BY <1>11 DEF TakeWriter
    <2>2. CASE ghost.stop
        <3>1. ghost'.stop
            BY <1>0, <1>11, <2>2 DEF TakeWriter, Skipped, Ghosts
        <3> QED  BY <3>1 DEF Undisturbed
    <2>3. CASE ~ghost.stop
        <3>1. IsRecording
            BY <2>1, <2>3 DEF Undisturbed, Writing
        <3>2. frame' = [frame EXCEPT !.at = "full", !.writer = recorder.writer] /\ ghost' = ghost
            BY <1>11, <3>1 DEF TakeWriter
        <3>3. frame'.at = "full" /\ frame'.executor = frame.executor
            BY <1>0, <3>2 DEF Frames
        <3> QED  BY <2>1, <2>3, <3>2, <3>3 DEF Undisturbed, IsRecording, AtWork, Writing
    <2> QED  BY <2>2, <2>3
<1>12. CASE Submit
    <2>1. frame.at = "full" /\ frame'.at \notin Writing
        BY <1>12, AtRest DEF Submit, Skipped, Writing
    <2>2. CASE ghost.stop
        <3>1. ghost'.stop
            BY <1>0, <1>12, <2>2 DEF Submit, Skipped, Ghosts
        <3> QED  BY <3>1 DEF Undisturbed
    <2>3. CASE ~ghost.stop
        <3>1. frame.executor \notin recorder.shut /\ ~ghost.skipped
            BY <2>1, <2>3 DEF Undisturbed, Writing
        <3>2. ghost' = ghost
            BY <1>12, <3>1 DEF Submit
        <3> QED  BY <2>1, <3>1, <3>2 DEF Undisturbed
    <2> QED  BY <2>2, <2>3
<1>13. CASE EndFrame \/ TellDuration
    <2>1. frame'.at \notin Writing /\ ghost' = ghost
        BY <1>13, AtRest DEF EndFrame, TellDuration, Writing
    <2> QED  BY <2>1 DEF Undisturbed
<1>14. CASE (\E e \in Writers : Encode(e)) \/ UNCHANGED vars
    <2>1. /\ UNCHANGED <<command, frame, ghost>>
          /\ recorder'.writer = recorder.writer /\ recorder'.executor = recorder.executor
          /\ recorder'.shut = recorder.shut
        BY <1>0, <1>14 DEF Encode, vars, Recorders
    <2> QED  BY <2>1 DEF Undisturbed, IsRecording, AtWork
<1> QED
    BY <1>1, <1>2, <1>3, <1>4, <1>5, <1>6, <1>7, <1>8, <1>9, <1>10, <1>11, <1>12, <1>13, <1>14
    DEF Next, Go, Frame

\* However many commands overlap: a frame that write() ended met a stop() at work,
\* wherever between its reads the stop() wrote.
THEOREM SkippedFramesEnd == Spec => []SkippedOnlyForAStop
<1>1. Init => OwnIsFresh /\ ShutIsDraining /\ Undisturbed
    <2>1. Init => \A c \in Commands : command[c].at = "none"
        BY DEF Init, NoCommand
    <2>2. Init => recorder.shut = {} /\ ~ghost.skipped /\ frame.at = "none"
        BY AtRest DEF Init
    <2> QED  BY <2>1, <2>2 DEF OwnIsFresh, ShutIsDraining, Undisturbed, Writing
<1>2. Undisturbed => SkippedOnlyForAStop
    BY DEF Undisturbed, SkippedOnlyForAStop
<1> QED  BY <1>1, <1>2, ShutStep, UndisturbedStep, TypeCorrect, PTL DEF Spec

-----------------------------------------------------------------------------
(* Whole files. *)

\* While commands do not overlap, the others are off their threads.
LEMMA Alone ==
    ASSUME Whole, NEW c \in Commands, OnThread(c), NEW d \in Commands \ {c}
    PROVE  ~OnThread(d)
BY DEF Whole

\* A command off its thread claims nothing of the recorder.
LEMMA OffThread ==
    ASSUME NEW c \in Commands, ~OnThread(c)
    PROVE  StageOK(c)
BY DEF OnThread, StageOK

\* The recorder's part of Whole.
RecorderWhole ==
    /\ ~ghost.torn /\ recorder.open \subseteq {recorder.writer}
    /\ recorder.executor # NoWriter => IsRecording
    /\ \A e \in Writers : recorder.jobs[e] # {} => e = recorder.executor
    /\ \A e \in Writers : recorder.jobs[e] \subseteq {recorder.writer}
    /\ HeldIsCurrent

\* What a write() holds stays current, or shut, when a command changes the recorder.
LEMMA HeldKept ==
    ASSUME Held, HeldIsCurrent, frame' = frame,
           frame.at \in {"held", "full"} /\ frame.executor \in recorder.shut =>
               frame.executor \in recorder'.shut,
           \/ recorder'.executor = recorder.executor /\ recorder'.writer = recorder.writer
           \/ recorder.executor = NoWriter \/ recorder.executor \in recorder'.shut
    PROVE  HeldIsCurrent'
<1> SUFFICES ASSUME frame.at \in {"held", "full"}, frame.executor \notin recorder'.shut
             PROVE  /\ frame.executor = recorder'.executor
                    /\ frame.at = "full" => frame.writer = recorder'.writer
    BY DEF HeldIsCurrent
<1>1. frame.executor = recorder.executor /\ (frame.at = "full" => frame.writer = recorder.writer)
    BY DEF HeldIsCurrent
<1>2. recorder.executor # NoWriter
    BY <1>1, RecordingAssumption DEF Held
<1> QED  BY <1>1, <1>2

\* The step of a command on a thread keeps Whole, if it keeps the recorder's part
\* and leaves the command a stage that is right.
LEMMA WholeByOne ==
    ASSUME Whole, NEW c \in Commands, OnThread(c),
           \A d \in Commands \ {c} : command'[d] = command[d],
           RecorderWhole', StageOK(c)'
    PROVE  Whole'
<1>1. \A d \in Commands \ {c} : ~OnThread(d)'
    BY Alone DEF OnThread
<1>2. \A d \in Commands : StageOK(d)'
    <2> SUFFICES ASSUME NEW d \in Commands, d # c PROVE StageOK(d)'
        OBVIOUS
    <2> QED  BY <1>1 DEF OnThread, StageOK
<1>3. \A x, y \in Commands : OnThread(x)' /\ OnThread(y)' => x = y
    BY <1>1
<1> QED  BY <1>2, <1>3 DEF Whole, RecorderWhole

LEMMA WholeStep ==
    ASSUME TypeOK, Held, ~ghost.overlap => Whole, [Next]_vars, ~ghost'.overlap
    PROVE  Whole'
<1>0. /\ recorder \in Recorders /\ command \in [Commands -> Stage] /\ ghost \in Ghosts
      /\ frame \in Frames
    BY Typed
<1>1. ~ghost.overlap
    <2>1. CASE ghost' = ghost
        BY <2>1
    <2>2. CASE BeginWrite
        <3> DEFINE busy == \E c \in Commands : AtWork(c)
        <3>1. ghost' = [ghost EXCEPT !.skipped = FALSE, !.stop = busy]
            BY <2>2 DEF BeginWrite
        <3> HIDE DEF busy
        <3> QED  BY <1>0, <3>1 DEF Ghosts
    <2> QED
        BY <1>0, <2>1, <2>2
        DEF Next, Go, vars, RecordCommand, StartRecorder, OpenWriter, StartExecutor,
            StopRecorder, FindExecutor, ShutExecutor, ExecutorDrained, ReleaseWriter,
            ForgetWriter, EndStop, Answer, GiveUp, Encode, Frame, AskExecutor, TakeExecutor,
            TakeWriter, Submit, EndFrame, TellDuration, Skipped, Ghosts
<1>2. Whole /\ RecorderWhole
    BY <1>1 DEF Whole, RecorderWhole
<1>a. ASSUME UNCHANGED <<recorder, ghost.torn, frame>> PROVE RecorderWhole'
    BY <1>2, <1>a DEF RecorderWhole, HeldIsCurrent, IsRecording
<1>3. ASSUME NEW c \in Commands, NEW want \in BOOLEAN, RecordCommand(c, want) PROVE Whole'
    <2>0. /\ recorder' = recorder /\ ghost'.torn = ghost.torn /\ frame' = frame
          /\ command[c].at = "none"
        BY <1>0, <1>3 DEF RecordCommand, Ghosts
    <2>1. RecorderWhole' /\ (IsRecording' <=> IsRecording)
        BY <1>a, <2>0 DEF IsRecording
    <2>2. CASE want = IsRecording
        <3>1. command'[c].at = "answer" /\ \A d \in Commands \ {c} : command'[d] = command[d]
            BY <1>3, <2>2, Moved DEF RecordCommand, Stages
        <3>2. \A d \in Commands : StageOK(d)'
            <4> SUFFICES ASSUME NEW d \in Commands PROVE StageOK(d)'
                OBVIOUS
            <4>1. CASE d = c
                BY <3>1, <4>1 DEF StageOK
            <4>2. CASE d # c
                BY <1>2, <2>0, <2>1, <3>1, <4>2 DEF Whole, StageOK
            <4> QED  BY <4>1, <4>2
        <3>3. \A x, y \in Commands : OnThread(x)' /\ OnThread(y)' => x = y
            BY <1>2, <3>1 DEF Whole, OnThread
        <3> QED  BY <2>1, <3>2, <3>3 DEF Whole, RecorderWhole
    <2>3. CASE want # IsRecording
        <3>1. /\ command'[c].at = IF want THEN "start" ELSE "stop"
              /\ \A d \in Commands \ {c} : command'[d] = command[d]
            BY <1>3, <2>3, Moved DEF RecordCommand, Stages
        <3>2. \A d \in Commands \ {c} : ~OnThread(d)
            BY <1>0, <1>3, <2>3 DEF RecordCommand, Ghosts
        <3>3. \A d \in Commands \ {c} : ~OnThread(d)' /\ StageOK(d)'
            BY <3>1, <3>2 DEF OnThread, StageOK
        <3>4. StageOK(c)'
            <4>1. want => ~IsRecording
                BY <2>3
            <4>2. ~want => IsRecording
                BY <2>3 DEF IsRecording
            <4> QED  BY <2>1, <3>1, <4>1, <4>2 DEF StageOK
        <3> QED  BY <2>1, <3>3, <3>4 DEF Whole, RecorderWhole
    <2> QED  BY <2>2, <2>3
<1>4. ASSUME NEW c \in Commands, StartRecorder(c) PROVE Whole'
    <2>1. /\ OnThread(c) /\ UNCHANGED <<recorder, ghost, frame>> /\ ~IsRecording
        BY <1>2, <1>4 DEF StartRecorder, OnThread, Whole, StageOK
    <2>2. /\ command'[c].at = "opening" /\ \A d \in Commands \ {c} : command'[d] = command[d]
        BY <1>4, <2>1, Moved DEF StartRecorder, Stages
    <2>3. StageOK(c)'
        BY <2>1, <2>2 DEF StageOK, IsRecording
    <2> QED  BY <1>2, <1>a, <2>1, <2>2, <2>3, WholeByOne
<1>5. ASSUME NEW c \in Commands, OpenWriter(c) PROVE Whole'
    <2>0. /\ OnThread(c) /\ ghost' = ghost /\ frame' = frame
          /\ recorder.writer = NoWriter /\ recorder.executor = NoWriter
        BY <1>2, <1>5 DEF OpenWriter, OnThread, Whole, StageOK, IsRecording
    <2>1. CASE Move(c, "answer") /\ UNCHANGED recorder
        <3>1. /\ command'[c].at = "answer" /\ \A d \in Commands \ {c} : command'[d] = command[d]
            BY <2>1, Moved DEF Stages
        <3>2. StageOK(c)'
            BY <3>1 DEF StageOK
        <3> QED  BY <1>2, <1>a, <2>0, <2>1, <3>1, <3>2, WholeByOne
    <2>2. ASSUME NEW w \in Writers, Unused(w),
                 command' = [command EXCEPT ![c] = [at |-> "opened", own |-> w]],
                 recorder' = [recorder EXCEPT !.writer = w, !.open = @ \cup {w},
                                              !.shut = @ \ {w}]
          PROVE  Whole'
        <3>1. /\ command'[c].at = "opened" /\ command'[c].own = w
              /\ \A d \in Commands \ {c} : command'[d] = command[d]
            BY <2>2, SetTo DEF Stages, Threads
        <3>2. /\ recorder'.writer = w /\ recorder'.open = recorder.open \cup {w}
              /\ recorder'.executor = NoWriter /\ recorder'.jobs = recorder.jobs
            BY <1>0, <2>0, <2>2 DEF Recorders
        <3>3. recorder.open = {} /\ \A e \in Writers : recorder.jobs[e] = {}
            BY <1>0, <1>2, <2>0, RecordingAssumption DEF RecorderWhole, Recorders
        <3>4. HeldIsCurrent'
            <4>1. recorder'.shut = recorder.shut \ {w} /\ frame.executor # w
                BY <1>0, <2>2 DEF Recorders, Unused
            <4> QED  BY <1>2, <2>0, <4>1, HeldKept DEF RecorderWhole
        <3>6. RecorderWhole'
            BY <1>2, <2>0, <3>2, <3>3, <3>4 DEF RecorderWhole
        <3>5. StageOK(c)'
            BY <3>1, <3>2, RecordingAssumption DEF StageOK, IsRecording
        <3> QED  BY <1>2, <2>0, <3>1, <3>5, <3>6, WholeByOne
    <2> QED  BY <1>5, <2>1, <2>2 DEF OpenWriter
<1>6. ASSUME NEW c \in Commands, StartExecutor(c) PROVE Whole'
    <2>0. /\ OnThread(c) /\ ghost' = ghost /\ frame' = frame
          /\ IsRecording /\ command[c].own = recorder.writer /\ recorder.executor = NoWriter
        BY <1>2, <1>6 DEF StartExecutor, OnThread, Whole, StageOK
    <2>1. /\ command'[c].at = "answer" /\ \A d \in Commands \ {c} : command'[d] = command[d]
        BY <1>6, Freed DEF StartExecutor, Stages
    <2>2. /\ recorder'.executor = recorder.writer /\ recorder'.writer = recorder.writer
          /\ recorder'.open = recorder.open /\ recorder'.jobs = recorder.jobs
          /\ recorder'.shut = recorder.shut
        BY <1>0, <1>6, <2>0 DEF StartExecutor, Recorders
    <2>5. HeldIsCurrent'
        BY <1>2, <2>0, <2>2, HeldKept DEF RecorderWhole
    <2>3. RecorderWhole'
        BY <1>2, <2>0, <2>2, <2>5, RecordingAssumption DEF RecorderWhole, IsRecording
    <2>4. StageOK(c)'
        BY <2>1 DEF StageOK
    <2> QED  BY <1>2, <2>0, <2>1, <2>3, <2>4, WholeByOne
<1>7. ASSUME NEW c \in Commands, StopRecorder(c) \/ FindExecutor(c) \/ EndStop(c)
      PROVE  Whole'
    <2>1. OnThread(c) /\ UNCHANGED <<recorder, frame>>
        BY <1>7 DEF StopRecorder, FindExecutor, EndStop, OnThread
    <2>2. ghost'.torn = ghost.torn
        BY <1>0, <1>7 DEF StopRecorder, FindExecutor, EndStop, Ghosts
    <2>3. \A d \in Commands \ {c} : command'[d] = command[d]
        BY <1>7, Moved DEF StopRecorder, FindExecutor, EndStop, AfterStop, Stages
    <2>4. StageOK(c)'
        <3>1. CASE StopRecorder(c)
            <4>1. IsRecording /\ command'[c].at = "stopping"
                BY <1>2, <3>1, Moved DEF StopRecorder, Stages, Whole, StageOK
            <4> QED  BY <2>1, <4>1 DEF StageOK, IsRecording
        <3>2. CASE FindExecutor(c)
            <4>1. IsRecording
                BY <1>2, <3>2 DEF FindExecutor, Whole, StageOK
            <4>2. /\ recorder.executor = NoWriter => command'[c].at = "drained"
                  /\ recorder.executor # NoWriter => command'[c].at = "shutting"
                BY <3>2, Moved DEF FindExecutor, Stages
            <4> QED  BY <2>1, <4>1, <4>2 DEF StageOK, IsRecording
        <3>3. CASE EndStop(c)
            <4>1. command'[c].at = "answer"
                BY <3>3, Moved DEF EndStop, AfterStop, Stages
            <4> QED  BY <4>1 DEF StageOK
        <3> QED  BY <1>7, <3>1, <3>2, <3>3
    <2> QED  BY <1>2, <1>a, <2>1, <2>2, <2>3, <2>4, WholeByOne
<1>7a. ASSUME NEW c \in Commands, ShutExecutor(c) PROVE Whole'
    <2>0. /\ OnThread(c) /\ ghost' = ghost /\ frame' = frame
          /\ IsRecording /\ recorder.executor # NoWriter
        BY <1>2, <1>7a DEF ShutExecutor, OnThread, Whole, StageOK
    <2>1. recorder.executor \in Threads
        BY <1>0 DEF Recorders
    <2>2. /\ command'[c].at = "draining" /\ command'[c].own = recorder.executor
          /\ \A d \in Commands \ {c} : command'[d] = command[d]
        BY <1>7a, <2>0, <2>1, SetTo DEF ShutExecutor, Stages
    <2>3. /\ recorder'.executor = recorder.executor /\ recorder'.writer = recorder.writer
          /\ recorder'.open = recorder.open /\ recorder'.jobs = recorder.jobs
          /\ recorder'.shut = recorder.shut \cup {recorder.executor}
        BY <1>0, <1>7a, <2>0 DEF ShutExecutor, Recorders
    <2>4. HeldIsCurrent'
        BY <1>2, <2>0, <2>3, HeldKept DEF RecorderWhole
    <2>5. RecorderWhole'
        BY <1>2, <2>0, <2>3, <2>4 DEF RecorderWhole, IsRecording
    <2>6. StageOK(c)'
        BY <2>0, <2>2, <2>3 DEF StageOK, IsRecording
    <2> QED  BY <1>2, <2>0, <2>2, <2>5, <2>6, WholeByOne
<1>8. ASSUME NEW c \in Commands, ExecutorDrained(c) PROVE Whole'
    <2>0. /\ OnThread(c) /\ ghost' = ghost /\ frame' = frame /\ IsRecording
          /\ command[c].own = recorder.executor /\ AllWritten(recorder.executor)
          /\ recorder.executor \in recorder.shut
        BY <1>2, <1>8 DEF ExecutorDrained, OnThread, Whole, StageOK
    <2>1. /\ command'[c].at = "drained" /\ \A d \in Commands \ {c} : command'[d] = command[d]
        BY <1>8, Freed DEF ExecutorDrained, Stages
    <2>2. /\ recorder'.executor = NoWriter /\ recorder'.writer = recorder.writer
          /\ recorder'.open = recorder.open /\ recorder'.jobs = recorder.jobs
          /\ recorder'.shut = recorder.shut
        BY <1>0, <1>8 DEF ExecutorDrained, ExecutorAfter, Recorders
    <2>3. \A e \in Writers : recorder.jobs[e] = {}
        BY <1>2, <2>0 DEF RecorderWhole, AllWritten
    <2>6. HeldIsCurrent'
        BY <1>2, <2>0, <2>2, HeldKept DEF RecorderWhole
    <2>4. RecorderWhole'
        BY <1>2, <2>0, <2>2, <2>3, <2>6 DEF RecorderWhole
    <2>5. StageOK(c)'
        BY <2>0, <2>1, <2>2 DEF StageOK, IsRecording
    <2> QED  BY <1>2, <2>0, <2>1, <2>4, <2>5, WholeByOne
<1>9. ASSUME NEW c \in Commands, ReleaseWriter(c) PROVE Whole'
    <2>0. OnThread(c) /\ IsRecording /\ recorder.executor = NoWriter /\ frame' = frame
        BY <1>2, <1>9 DEF ReleaseWriter, OnThread, Whole, StageOK
    <2>1. /\ command'[c].at = "released" /\ \A d \in Commands \ {c} : command'[d] = command[d]
        BY <1>9, <2>0, Moved DEF ReleaseWriter, Stages
    <2>2. /\ recorder'.executor = NoWriter /\ recorder'.writer = recorder.writer
          /\ recorder'.open = recorder.open \ {recorder.writer} /\ recorder'.jobs = recorder.jobs
          /\ recorder'.shut = recorder.shut
        BY <1>0, <1>9, <2>0 DEF ReleaseWriter, Recorders
    <2>3. \A e \in Writers : recorder.jobs[e] = {}
        BY <1>2, <2>0, RecordingAssumption DEF RecorderWhole
    <2>4. ~ghost'.torn
        <3>1. ghost' = [ghost EXCEPT !.torn =
                            ghost.torn \/ \E e \in Writers : recorder.writer \in recorder.jobs[e]]
            BY <1>9, <2>0 DEF ReleaseWriter
        <3>2. ghost'.torn <=> ghost.torn \/ \E e \in Writers : recorder.writer \in recorder.jobs[e]
            BY <1>0, <3>1 DEF Ghosts
        <3> QED  BY <1>2, <2>3, <3>2 DEF RecorderWhole
    <2>5. recorder'.open = {}
        BY <1>2, <2>2 DEF RecorderWhole
    <2>8. HeldIsCurrent'
        BY <1>2, <2>0, <2>2, HeldKept DEF RecorderWhole
    <2>6. RecorderWhole'
        BY <2>2, <2>3, <2>4, <2>5, <2>8 DEF RecorderWhole
    <2>7. StageOK(c)'
        BY <2>1, <2>2, <2>5 DEF StageOK
    <2> QED  BY <1>2, <2>0, <2>1, <2>6, <2>7, WholeByOne
<1>10. ASSUME NEW c \in Commands, ForgetWriter(c) PROVE Whole'
    <2>0. /\ OnThread(c) /\ ghost' = ghost /\ frame' = frame
          /\ recorder.executor = NoWriter /\ recorder.open = {}
        BY <1>2, <1>10 DEF ForgetWriter, OnThread, Whole, StageOK
    <2>1. /\ command'[c].at = "forgotten"
          /\ \A d \in Commands \ {c} : command'[d] = command[d]
        BY <1>10, Moved DEF ForgetWriter, Stages
    <2>2. /\ recorder'.executor = NoWriter /\ recorder'.open = {} /\ recorder'.jobs = recorder.jobs
          /\ recorder'.shut = recorder.shut
        BY <1>0, <1>10, <2>0 DEF ForgetWriter, Recorders
    <2>3. \A e \in Writers : recorder.jobs[e] = {}
        BY <1>2, <2>0, RecordingAssumption DEF RecorderWhole
    <2>6. HeldIsCurrent'
        BY <1>2, <2>0, <2>2, HeldKept DEF RecorderWhole
    <2>4. RecorderWhole'
        BY <1>2, <2>0, <2>2, <2>3, <2>6 DEF RecorderWhole
    <2>5. StageOK(c)'
        BY <2>1 DEF StageOK
    <2> QED  BY <1>2, <2>0, <2>1, <2>4, <2>5, WholeByOne
<1>b. ASSUME RecorderWhole', UNCHANGED <<recorder.writer, recorder.executor, recorder.open,
                                         recorder.shut, command>>
      PROVE  Whole'
    <2>1. IsRecording' <=> IsRecording
        BY <1>b DEF IsRecording
    <2>2. \A d \in Commands : StageOK(d)'
        BY <1>2, <1>b, <2>1 DEF Whole, StageOK
    <2>3. \A x, y \in Commands : OnThread(x)' /\ OnThread(y)' => x = y
        BY <1>2, <1>b DEF Whole, OnThread
    <2> QED  BY <1>b, <2>2, <2>3 DEF Whole, RecorderWhole
<1>11. ASSUME NEW c \in Commands, Answer(c) \/ GiveUp(c) PROVE Whole'
    <2>1. /\ command'[c].at = "none" /\ \A d \in Commands \ {c} : command'[d] = command[d]
          /\ UNCHANGED <<recorder, ghost, frame>>
        BY <1>11, Over DEF Answer, GiveUp, Stages
    <2>2. RecorderWhole' /\ (IsRecording' <=> IsRecording)
        BY <1>a, <2>1 DEF IsRecording
    <2>3. \A d \in Commands : StageOK(d)'
        BY <1>2, <2>1, <2>2 DEF Whole, StageOK
    <2>4. \A x, y \in Commands : OnThread(x)' /\ OnThread(y)' => x = y
        BY <1>2, <2>1 DEF Whole, OnThread
    <2> QED  BY <2>2, <2>3, <2>4 DEF Whole, RecorderWhole
<1>12. CASE Frame
    <2>1. command' = command
        BY <1>12
        DEF Frame, BeginWrite, AskExecutor, TakeExecutor, TakeWriter, Submit, EndFrame,
            TellDuration
    <2>2. ghost'.torn = ghost.torn
        <3>1. CASE BeginWrite
            <4> DEFINE busy == \E c \in Commands : AtWork(c)
            <4>1. ghost' = [ghost EXCEPT !.skipped = FALSE, !.stop = busy]
                BY <3>1 DEF BeginWrite
            <4> HIDE DEF busy
            <4> QED  BY <1>0, <4>1 DEF Ghosts
        <3>2. CASE ~BeginWrite
            BY <1>0, <1>12, <3>2
            DEF Frame, AskExecutor, TakeExecutor, TakeWriter, Submit, EndFrame, TellDuration,
                Skipped, Ghosts
        <3> QED  BY <3>1, <3>2
    <2>3. ASSUME UNCHANGED recorder, HeldIsCurrent' PROVE Whole'
        BY <1>2, <1>b, <2>1, <2>2, <2>3 DEF RecorderWhole, IsRecording
    <2>4. CASE BeginWrite \/ AskExecutor \/ EndFrame \/ TellDuration
        <3>1. frame'.at \notin {"held", "full"} /\ recorder' = recorder
            BY <2>4, AtRest DEF BeginWrite, AskExecutor, EndFrame, TellDuration
        <3> QED  BY <2>3, <3>1 DEF HeldIsCurrent
    <2>5. CASE TakeExecutor
        <3>1. recorder' = recorder
            BY <2>5 DEF TakeExecutor
        <3>2. HeldIsCurrent'
            <4>1. CASE frame' = FrameAt("none")
                BY <4>1, AtRest DEF HeldIsCurrent
            <4>2. CASE frame' = [frame EXCEPT !.at = "held", !.executor = recorder.executor]
                <5>1. frame'.at = "held" /\ frame'.executor = recorder.executor
                    BY <1>0, <4>2 DEF Frames
                <5> QED  BY <3>1, <5>1 DEF HeldIsCurrent
            <4> QED  BY <2>5, <4>1, <4>2 DEF TakeExecutor, Skipped
        <3> QED  BY <2>3, <3>1, <3>2
    <2>6. CASE TakeWriter
        <3>1. recorder' = recorder /\ frame.at = "held"
            BY <2>6 DEF TakeWriter
        <3>2. HeldIsCurrent'
            <4>1. CASE frame' = FrameAt("none")
                BY <4>1, AtRest DEF HeldIsCurrent
            <4>2. CASE frame' = [frame EXCEPT !.at = "full", !.writer = recorder.writer]
                <5>1. frame'.at = "full" /\ frame'.executor = frame.executor
                      /\ frame'.writer = recorder.writer
                    BY <1>0, <4>2 DEF Frames
                <5> QED  BY <1>2, <3>1, <5>1 DEF RecorderWhole, HeldIsCurrent
            <4> QED  BY <2>6, <4>1, <4>2 DEF TakeWriter, Skipped
        <3> QED  BY <2>3, <3>1, <3>2
    <2>7. CASE Submit
        <3>1. HeldIsCurrent'
            BY <2>7, AtRest DEF Submit, Skipped, HeldIsCurrent
        <3>2. CASE UNCHANGED recorder
            BY <2>3, <3>1, <3>2
        <3>3. CASE /\ frame.at = "full" /\ frame.executor \notin recorder.shut
                   /\ recorder' = [recorder EXCEPT !.jobs[frame.executor] = @ \cup {frame.writer}]
            <4>1. frame.executor = recorder.executor /\ frame.writer = recorder.writer
                BY <1>2, <3>3 DEF RecorderWhole, HeldIsCurrent
            <4>2. recorder.jobs \in [Writers -> SUBSET Writers]
                BY <1>0 DEF Recorders
            <4>3. /\ recorder'.writer = recorder.writer /\ recorder'.executor = recorder.executor
                  /\ recorder'.open = recorder.open /\ recorder'.shut = recorder.shut
                  /\ recorder'.jobs = [recorder.jobs EXCEPT ![frame.executor] =
                                           @ \cup {frame.writer}]
                BY <1>0, <3>3 DEF Recorders
            <4>4. \A e \in Writers :
                      /\ recorder'.jobs[e] # {} => e = recorder.executor
                      /\ recorder'.jobs[e] \subseteq {recorder.writer}
                BY <1>2, <4>1, <4>2, <4>3 DEF RecorderWhole
            <4>5. RecorderWhole'
                BY <1>2, <2>2, <3>1, <4>3, <4>4 DEF RecorderWhole, IsRecording
            <4> QED  BY <1>b, <2>1, <4>3, <4>5
        <3> QED  BY <2>7, <3>2, <3>3 DEF Submit
    <2> QED  BY <1>12, <2>4, <2>5, <2>6, <2>7 DEF Frame
<1>13. ASSUME NEW e \in Writers, Encode(e) PROVE Whole'
    <2>1. PICK w \in recorder.jobs[e] : recorder' = [recorder EXCEPT !.jobs[e] = @ \ {w}]
        BY <1>13 DEF Encode
    <2>2. recorder.jobs \in [Writers -> SUBSET Writers]
        BY <1>0 DEF Recorders
    <2>3. /\ recorder'.writer = recorder.writer /\ recorder'.executor = recorder.executor
          /\ recorder'.open = recorder.open /\ recorder'.shut = recorder.shut
          /\ recorder'.jobs = [recorder.jobs EXCEPT ![e] = @ \ {w}]
        BY <1>0, <2>1 DEF Recorders
    <2>4. \A x \in Writers : recorder'.jobs[x] \subseteq recorder.jobs[x]
        BY <2>2, <2>3
    <2>5. UNCHANGED <<command, frame, ghost>>
        BY <1>13 DEF Encode
    <2>6. HeldIsCurrent'
        BY <1>2, <2>3, <2>5 DEF RecorderWhole, HeldIsCurrent
    <2>7. RecorderWhole'
        BY <1>2, <2>3, <2>4, <2>5, <2>6 DEF RecorderWhole, IsRecording
    <2> QED  BY <1>b, <2>3, <2>5, <2>7
<1>14. CASE UNCHANGED vars
    BY <1>a, <1>b, <1>14 DEF vars
<1> QED
    BY <1>3, <1>4, <1>5, <1>6, <1>7, <1>7a, <1>8, <1>9, <1>10, <1>11, <1>12, <1>13, <1>14
    DEF Next, Go

\* If commands do not overlap, each file has every picture that write() took, and
\* no writer is left open.
THEOREM FilesHold == Spec => []FilesAreWhole
<1>1. Init => Whole
    <2> SUFFICES ASSUME Init PROVE Whole
        OBVIOUS
    <2>1. \A c \in Commands : ~OnThread(c)
        BY DEF Init, NoCommand, OnThread
    <2>2. HeldIsCurrent
        BY AtRest DEF Init, HeldIsCurrent
    <2>3. RecorderWhole
        BY <2>2 DEF Init, RecorderWhole, IsRecording
    <2> QED  BY <2>1, <2>3, OffThread DEF Whole, RecorderWhole
<1>2. (~ghost.overlap => Whole) => FilesAreWhole
    BY DEF Whole, FilesAreWhole
<1>3. TypeOK /\ Held /\ (~ghost.overlap => Whole) /\ [Next]_vars => (~ghost.overlap => Whole)'
    BY WholeStep
<1> QED  BY <1>1, <1>2, <1>3, TypeAndHeld, PTL DEF Spec
====
