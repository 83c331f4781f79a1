------------------------------ MODULE ModeLink ------------------------------
(***************************************************************************)
(* A flight-mode request between the Pi and the flight controller: SET_MODE *)
(* packets over a link that loses and delays them, the mode reported back   *)
(* only by heartbeats, and a pilot who can turn the mode switch or move the *)
(* sticks at any moment.  The Pi side is MavlinkBridge (ModeRequest) and    *)
(* the first lines of CompanionApp.process_frame; the flight controller and *)
(* the pilot are the environment.                                           *)
(***************************************************************************)
EXTENDS ModeRequest, Sequences

CONSTANTS
    MaxRequests,    \* bound: requests made in a behaviour
    MaxInFlight,    \* bound: SET_MODE packets on the way at once
    MaxLosses,      \* bound: packets and heartbeats lost in a behaviour
    MaxSwitches,    \* bound: turns of the pilot's mode switch
    Refusals,       \* may the flight controller refuse a mode?
    QuietLink,      \* is a request made only when nothing else is under way?
    Prompt          \* does the link answer within one tick of the clock?

ASSUME LinkAssumption ==
    /\ {MaxRequests, MaxInFlight, MaxLosses, MaxSwitches} \subseteq Nat
    /\ {Refusals, QuietLink, Prompt} \subseteq BOOLEAN

VARIABLES
    fc,         \* the mode the flight controller really is in
    beat,       \* the heartbeat on its way to the Pi, NoMode if there is none
    reported,   \* telemetry.fc_mode: the last heartbeat taken
    uplink,     \* SET_MODE packets on their way, oldest first
    pending,    \* MavlinkBridge._pending_mode
    sticks,     \* the pilot has the sticks off centre (RC override)
    used,       \* what the bounds count
    hist        \* what became of the latest request, for the properties

vars == <<fc, beat, reported, uplink, pending, sticks, used, hist>>

Outcome == {"none", "waiting", "confirmed", "failed", "dropped"}

TypeOK ==
    /\ fc \in Modes
    /\ beat \in Report
    /\ reported \in Report
    /\ uplink \in Seq(Modes)
    /\ pending \in Request \cup {NoRequest}
    /\ sticks \in BOOLEAN
    /\ used \in [requests : Nat, losses : Nat, switches : Nat]
    /\ hist \in [outcome : Outcome, sent : Nat, waited : Nat,
                 mover : {"pi", "pilot"}, moved : BOOLEAN]

Init ==
    /\ fc \in Modes
    /\ beat = NoMode
    /\ reported = NoMode                \* connect() does not wait for one
    /\ uplink = <<>>
    /\ pending = NoRequest
    /\ sticks = FALSE
    /\ used = [requests |-> 0, losses |-> 0, switches |-> 0]
    /\ hist = [outcome |-> "none", sent |-> 0, waited |-> 0,
               mover |-> "pilot", moved |-> FALSE]

-----------------------------------------------------------------------------
(* The Pi. *)

\* set_mode.  A write that fails is a packet lost at once (_send_mode), so
\* LoseUplink covers it.
SetMode(m) ==
    /\ used.requests < MaxRequests
    /\ Len(uplink) < MaxInFlight
    /\ QuietLink => ~Pending(pending) /\ uplink = <<>> /\ beat = NoMode /\ reported = fc
    /\ uplink' = Append(uplink, m)
    /\ pending' = Fresh(m, reported)
    /\ used' = [used EXCEPT !.requests = @ + 1]
    /\ hist' = [hist EXCEPT !.outcome = "waiting", !.sent = 1, !.waited = 0,
                            !.moved = hist.mover = "pilot" /\ reported # fc]
    /\ UNCHANGED <<fc, beat, reported, sticks>>

\* What a check makes of the request, as the app is told (pending_mode_result)
\* or, for a dropped one, not told.
Verdict ==
    IF Confirmed(pending, reported) THEN "confirmed"
    ELSE IF Superseded(pending, reported) THEN "dropped"
    ELSE IF Exhausted(pending, reported, ~sticks) THEN "failed"
    ELSE hist.outcome

\* One frame: check_pending_mode with allow_retry = not RC override, and the
\* relay of its result.
Frame ==
    /\ Pending(pending)
    /\ Resent(pending, reported, ~sticks) => Len(uplink) < MaxInFlight
    /\ pending' = Checked(pending, reported, ~sticks)
    /\ IF Resent(pending, reported, ~sticks)
       THEN /\ uplink' = Append(uplink, pending.mode)
            /\ hist' = [hist EXCEPT !.sent = @ + 1]
       ELSE /\ hist' = [hist EXCEPT !.outcome = Verdict]
            /\ UNCHANGED uplink
    /\ UNCHANGED <<fc, beat, reported, sticks, used>>

\* A heartbeat of the autopilot is taken by _handle_message.
TakeHeartbeat ==
    /\ beat # NoMode
    /\ reported' = beat
    /\ beat' = NoMode
    /\ UNCHANGED <<fc, uplink, pending, sticks, used, hist>>

\* The clock.  With Prompt, a tick (half a second and more) is long enough for
\* the packets under way to arrive and for a heartbeat to come back.
Tick ==
    /\ Pending(pending)
    /\ pending.age < RetryAfter
    /\ Prompt => uplink = <<>> /\ beat = NoMode /\ reported = fc
    /\ pending' = Older(pending)
    /\ hist' = [hist EXCEPT !.waited = @ + 1]
    /\ UNCHANGED <<fc, beat, reported, uplink, sticks, used>>

-----------------------------------------------------------------------------
(* The flight controller, the link and the pilot. *)

FcReceive ==
    /\ uplink # <<>>
    /\ uplink' = Tail(uplink)
    /\ \/ /\ fc' = Head(uplink)
          /\ hist' = [hist EXCEPT !.mover = IF fc' = fc THEN @ ELSE "pi"]
       \/ /\ Refusals                   \* e.g. GUIDED without a position
          /\ UNCHANGED <<fc, hist>>
    /\ UNCHANGED <<beat, reported, pending, sticks, used>>

LoseUplink ==
    /\ uplink # <<>>
    /\ used.losses < MaxLosses
    /\ uplink' = Tail(uplink)
    /\ used' = [used EXCEPT !.losses = @ + 1]
    /\ UNCHANGED <<fc, beat, reported, pending, sticks, hist>>

SendHeartbeat ==
    /\ beat = NoMode
    /\ reported # fc                    \* one that repeats the last tells nothing
    /\ beat' = fc
    /\ UNCHANGED <<fc, reported, uplink, pending, sticks, used, hist>>

LoseHeartbeat ==
    /\ beat # NoMode
    /\ used.losses < MaxLosses
    /\ beat' = NoMode
    /\ used' = [used EXCEPT !.losses = @ + 1]
    /\ UNCHANGED <<fc, reported, uplink, pending, sticks, hist>>

\* The mode switch on the transmitter goes to the flight controller directly.
PilotSwitch(m) ==
    /\ used.switches < MaxSwitches
    /\ m # fc
    /\ fc' = m
    /\ used' = [used EXCEPT !.switches = @ + 1]
    /\ hist' = [hist EXCEPT !.mover = "pilot", !.moved = TRUE]
    /\ UNCHANGED <<beat, reported, uplink, pending, sticks>>

MoveSticks ==
    /\ sticks' = ~sticks
    /\ UNCHANGED <<fc, beat, reported, uplink, pending, used, hist>>

Next ==
    \/ \E m \in Modes : SetMode(m) \/ PilotSwitch(m)
    \/ Frame \/ TakeHeartbeat \/ Tick
    \/ FcReceive \/ LoseUplink \/ SendHeartbeat \/ LoseHeartbeat
    \/ MoveSticks

Spec == Init /\ [][Next]_vars

(***************************************************************************)
(* Frames keep coming and time passes; packets that are not lost arrive and *)
(* the flight controller keeps sending heartbeats (1 Hz).  Losses, requests *)
(* and what the pilot does carry no fairness.                               *)
(***************************************************************************)
Fairness ==
    /\ WF_vars(Frame) /\ WF_vars(Tick)
    /\ WF_vars(FcReceive) /\ WF_vars(SendHeartbeat) /\ WF_vars(TakeHeartbeat)

FairSpec == Spec /\ Fairness

-----------------------------------------------------------------------------
(* Properties. *)

Promise == INSTANCE ModePromise WITH
    state <- hist.outcome,
    sends <- pending.sends,
    waited <- IF Pending(pending) THEN hist.waited ELSE 0

\* Over every loss, delay and move of the pilot, a request behaves as its caller
\* is promised: spaced and counted sends, one end, a failure only when due
\* (set_mode and check_pending_mode implement ModePromise).
KeepsThePromise == Promise!PromiseSpec

\* However often frames come, and whatever the losses, one request never puts
\* more than MODE_MAX_ATTEMPTS packets on the link, and the bridge's own count
\* of them is the true one (check_pending_mode re-sends and counts).
SendBudget ==
    /\ hist.sent <= MaxAttempts
    /\ Pending(pending) => hist.sent = pending.sends

\* The app is told "not confirmed" only after every attempt was made and each
\* was given MODE_RETRY_AFTER_S to show (check_pending_mode's last return).
FailureIsEarned ==
    hist.outcome = "failed" =>
        hist.sent = MaxAttempts /\ hist.waited >= MaxAttempts * RetryAfter

\* A request is given up without a word only because somebody else changed the
\* mode: the pilot's switch, since the mode the request was made in
\* (check_pending_mode's docstring; docs/safety-case.md).
DropsOnlyForThePilot == hist.outcome = "dropped" => hist.moved

\* Once the pilot has let go of the sticks for good, a request does not stay
\* outstanding forever (check_pending_mode ends every request).
RequestResolved == (<>[]~sticks) => (Pending(pending) ~> ~Pending(pending))

\* The three sends mask fewer than three losses: on a link that answers within
\* a tick, with a flight controller that accepts, and as long as the pilot keeps
\* off the switch and in the end off the sticks, every request ends confirmed.
LossesMasked ==
    (<>[]~sticks) /\ []~hist.moved =>
        (hist.outcome = "waiting" ~> hist.outcome = "confirmed")
==============================================================================
