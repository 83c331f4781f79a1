---------------------------- MODULE OperatorMode ----------------------------
(***************************************************************************)
(* The mode the app shows and the mode the Pi is in.  The app sets its own  *)
(* when the operator taps, and sends a command; sliders and Resume send the *)
(* mode the app shows; the Pi leaves a mode by itself and reports only what *)
(* its supervisor decides.  Commands and reports travel in order over one    *)
(* WebSocket and are lost when it drops.  Follow stands for Orbit too.       *)
(***************************************************************************)
EXTENDS Naturals, Sequences

CONSTANT MaxInFlight    \* bound: with so many commands (reports) under way, the
                        \* operator taps nothing more (the Pi reports nothing)

ASSUME InFlightAssumption == MaxInFlight \in Nat \ {0}

VARIABLES
    screen,     \* _mode, and whether the last report shows the banner
    pi,         \* requested_mode, and whether a teach request waits for a frame
    uplink,     \* commands under way, oldest first
    downlink,   \* reports under way, oldest first
    linked,     \* is there a WebSocket?
    hist        \* the operator's last tap, and whether a tap was lost since

vars == <<screen, pi, uplink, downlink, linked, hist>>

Modes == {"idle", "tracking", "follow", "grid_search"}

Guidance == {"follow", "grid_search"}

\* What the operator has tapped.
Taps == Modes \cup {"stop"}

\* A slider's command is a mode command that carries a new limit.
Commands == Taps \cup {"slider", "teach"}

\* supervisor_state of a tracking_update, and a teach_result that is ok.
Reports == Modes \cup {"safe", "taught"}

TypeOK ==
    /\ screen \in [mode : Modes, blocked : BOOLEAN]
    /\ pi \in [mode : Modes, teach : BOOLEAN]
    /\ uplink \in Seq(Commands) /\ downlink \in Seq(Reports)
    /\ linked \in BOOLEAN
    /\ hist \in [wish : Taps, lost : BOOLEAN]

Init ==
    /\ screen = [mode |-> "idle", blocked |-> FALSE]
    /\ pi = [mode |-> "idle", teach |-> FALSE]
    /\ uplink = <<>> /\ downlink = <<>> /\ linked = FALSE
    /\ hist = [wish |-> "idle", lost |-> FALSE]

-----------------------------------------------------------------------------
(* The app. *)

\* send(): without a socket that takes it, a command is gone.
Sent(command) == uplink' = IF linked THEN Append(uplink, command) ELSE uplink

MayTap == Len(uplink) < MaxInFlight

Tapped(tap) == hist' = [wish |-> tap, lost |-> ~linked]

\* setMode(), startGridSearch().
TapMode(m) ==
    /\ MayTap
    /\ screen' = [screen EXCEPT !.mode = m]
    /\ Sent(m) /\ Tapped(m)
    /\ UNCHANGED <<pi, downlink, linked>>

\* resumeGuidance(): offered under the banner of a continuous guidance mode.
Resume ==
    /\ MayTap /\ linked /\ screen.blocked /\ screen.mode = "follow"
    /\ Sent(screen.mode)
    /\ UNCHANGED <<screen, pi, downlink, linked, hist>>

AlwaysSlides == TRUE

Slides == screen.mode = "follow"

\* setFollowSeparation() and the others.
Slide ==
    /\ MayTap /\ Slides
    /\ Sent("slider")
    /\ UNCHANGED <<screen, pi, downlink, linked, hist>>

\* teachObject().
TapTeach ==
    /\ MayTap
    /\ Sent("teach")
    /\ UNCHANGED <<screen, pi, downlink, linked, hist>>

\* abort().
TapStop ==
    /\ MayTap
    /\ screen' = [mode |-> "idle", blocked |-> FALSE]
    /\ Sent("stop") /\ Tapped("stop")
    /\ UNCHANGED <<pi, downlink, linked>>

EndWithoutReason(report) == report = "idle"

EndOfSweep(report) == report \in {"idle", "safe"}

\* A report with a guidance_hold (a controller that waits, a refused takeoff)
\* shows the banner too.
MayHold(report) == report \in Guidance \cup {"idle"}

\* handleEnvelope() of a tracking_update: a mode that ends by itself is shown
\* as ended when the Pi is idle or guidance is refused.
TakeUpdate ==
    /\ downlink # <<>> /\ Head(downlink) # "taught"
    /\ LET report == Head(downlink)
       IN  \E held \in BOOLEAN :
            /\ held => MayHold(report)
            /\ screen' = [mode |-> IF screen.mode = "grid_search" /\ EndOfSweep(report)
                                   THEN "idle" ELSE screen.mode,
                          blocked |-> report = "safe" \/ held]
    /\ downlink' = Tail(downlink)
    /\ UNCHANGED <<pi, uplink, linked, hist>>

\* handleEnvelope() of a teach_result: the app itself asks for Tracking.
TakeTaught ==
    /\ downlink # <<>> /\ Head(downlink) = "taught"
    /\ screen' = [screen EXCEPT !.mode = "tracking"]
    /\ Sent("tracking")
    /\ downlink' = Tail(downlink)
    /\ UNCHANGED <<pi, linked, hist>>

-----------------------------------------------------------------------------
(* The Pi. *)

\* _on_mode_command; a sweep is refused without a position.
ModeAfter(command) ==
    CASE command = "slider" -> {"follow"}
      [] command = "grid_search" /\ pi.mode # "grid_search" -> {"grid_search", "idle"}
      [] OTHER -> {command}

TakeCommand ==
    /\ uplink # <<>>
    /\ LET command == Head(uplink)
       IN  CASE command = "stop" -> pi' = [mode |-> "idle", teach |-> FALSE]
             [] command = "teach" -> pi' = [pi EXCEPT !.teach = TRUE]
             [] OTHER -> \E m \in ModeAfter(command) : pi' = [pi EXCEPT !.mode = m]
    /\ uplink' = Tail(uplink)
    /\ UNCHANGED <<screen, downlink, linked, hist>>

\* The supervisor's decision.  A sweep that finishes is still reported by the
\* frame that ends it; recovery and takeoff end a mode before the decision, and
\* the failsafe RTL fires only where the gate is closed.
Decision(open, ends) ==
    CASE ~open -> "safe"
      [] open /\ ends /\ pi.mode = "follow" -> "idle"
      [] OTHER -> pi.mode

\* A mode that guidance is refused stays the requested one.
ModeLeft(open, ends) == IF ends THEN "idle" ELSE pi.mode

\* process_frame: is the gate of guidance open, does the mode end by itself, is
\* the object taught?
Frame(open, ends, taught) ==
    /\ ends => pi.mode \in (IF open THEN Guidance ELSE Modes \ {"idle"})
    /\ taught => pi.teach
    /\ Len(downlink) < MaxInFlight
    /\ pi' = [mode |-> ModeLeft(open, ends), teach |-> FALSE]
    /\ downlink' = IF ~linked THEN downlink
                   ELSE downlink \o (IF taught THEN <<"taught">> ELSE <<>>)
                                 \o <<Decision(open, ends)>>
    /\ UNCHANGED <<screen, uplink, linked, hist>>

\* _on_land_confirmation_response: a question only Follow leads to ends it.
LandAnswered ==
    /\ pi.mode = "follow"
    /\ pi' = [pi EXCEPT !.mode = "idle"]
    /\ UNCHANGED <<screen, uplink, downlink, linked, hist>>

-----------------------------------------------------------------------------
(* The link. *)

IsTap(command) == command \in Taps

Dropout ==
    /\ linked
    /\ linked' = FALSE /\ uplink' = <<>> /\ downlink' = <<>>
    /\ hist' = [hist EXCEPT !.lost = @ \/ \E i \in DOMAIN uplink : IsTap(uplink[i])]
    /\ UNCHANGED <<screen, pi>>

BackOnline ==
    /\ ~linked /\ linked' = TRUE
    /\ UNCHANGED <<screen, pi, uplink, downlink, hist>>

AnyFrame == \E open, ends, taught \in BOOLEAN : Frame(open, ends, taught)

Next ==
    \/ \E m \in Modes : TapMode(m)
    \/ Resume \/ Slide \/ TapTeach \/ TapStop
    \/ TakeUpdate \/ TakeTaught
    \/ TakeCommand \/ AnyFrame \/ LandAnswered
    \/ Dropout \/ BackOnline

\* Frames keep coming, and what is under way arrives.  Taps, cuts and
\* reconnects carry no fairness.
Spec ==
    /\ Init /\ [][Next]_vars
    /\ WF_vars(TakeUpdate) /\ WF_vars(TakeTaught) /\ WF_vars(TakeCommand)
    /\ WF_vars(AnyFrame)

-----------------------------------------------------------------------------
(* Properties. *)

\* When no command is under way and no tap was lost, the Pi is in the mode the
\* operator tapped last, or has left it, or was set to Tracking by the app
\* after teaching: sliders and Resume, which send a mode too, never bring back
\* one that was replaced or stopped (the test of _mode in each slider).
FliesTheLastWish ==
    uplink = <<>> /\ ~hist.lost => pi.mode \in {hist.wish, "idle", "tracking"}

\* A sweep that is over, refused, or stopped for a reason does not stay on the
\* screen ("so the mode selector doesn't keep showing it as active after it's
\* actually done").
EndedSweepIsShown ==
    pi.mode = "idle" /\ screen.mode = "grid_search"
        ~> pi.mode # "idle" \/ screen.mode # "grid_search" \/ ~linked
==============================================================================
