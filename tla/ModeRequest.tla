----------------------------- MODULE ModeRequest -----------------------------
(***************************************************************************)
(* The one outstanding flight-mode request of MavlinkBridge, as operators   *)
(* on the record the bridge keeps in _pending_mode.  set_mode() makes it    *)
(* (Fresh), check_pending_mode() resolves or re-sends it (the four guards   *)
(* below partition what a check can find), time makes it older (Older).     *)
(*                                                                         *)
(* Python's None is NoMode for a flight mode that was never reported, and   *)
(* the record NoRequest for "nothing is pending".                           *)
(***************************************************************************)
EXTENDS Naturals

CONSTANTS
    Modes,          \* the flight modes the bridge can ask for
    NoMode,         \* fc_mode before the first heartbeat
    RetryAfter,     \* MODE_RETRY_AFTER_S, in ticks of the clock
    MaxAttempts     \* MODE_MAX_ATTEMPTS, the sends of one request

ASSUME RequestAssumption ==
    /\ NoMode \notin Modes
    /\ RetryAfter \in Nat \ {0}
    /\ MaxAttempts \in Nat \ {0}

\* What telemetry.fc_mode can hold.
Report == Modes \cup {NoMode}

NoRequest == [mode |-> NoMode, age |-> 0, sends |-> 0, heldAt |-> NoMode]

\* age is the time since the last send; beyond RetryAfter it changes nothing,
\* so it stops there.
Request ==
    [mode : Modes, age : 0 .. RetryAfter, sends : 1 .. MaxAttempts, heldAt : Report]

Pending(p) == p.sends > 0

\* set_mode: the new request replaces whatever was outstanding.
Fresh(m, current) == [mode |-> m, age |-> 0, sends |-> 1, heldAt |-> current]

Older(p) ==
    IF Pending(p) /\ p.age < RetryAfter THEN [p EXCEPT !.age = @ + 1] ELSE p

(***************************************************************************)
(* check_pending_mode, in the order of its returns.                         *)
(***************************************************************************)
Confirmed(p, current) == Pending(p) /\ current = p.mode

SupersededByAny(p, current) == Pending(p) /\ current # p.mode

\* "the mode moved somewhere else on its own: not ours to force"
Superseded(p, current) ==
    Pending(p) /\ current # p.mode /\ current # p.heldAt

\* Not confirmed for MODE_RETRY_AFTER_S, and the pilot is off the sticks.
Overdue(p, current, allowRetry) ==
    /\ Pending(p)
    /\ current # p.mode
    /\ current = p.heldAt
    /\ p.age >= RetryAfter
    /\ allowRetry

NeverExhausted(p, current, allowRetry) == FALSE

Exhausted(p, current, allowRetry) ==
    Overdue(p, current, allowRetry) /\ p.sends >= MaxAttempts

NeverResent(p, current, allowRetry) == FALSE

Resent(p, current, allowRetry) ==
    Overdue(p, current, allowRetry) /\ p.sends < MaxAttempts

AgainUncounted(p) == [p EXCEPT !.age = 0]

\* One more send, by check_pending_mode.
Again(p) == [mode |-> p.mode, age |-> 0, sends |-> p.sends + 1, heldAt |-> p.heldAt]

\* The request after one check.
Checked(p, current, allowRetry) ==
    IF \/ Confirmed(p, current)
       \/ Superseded(p, current)
       \/ Exhausted(p, current, allowRetry)
    THEN NoRequest
    ELSE IF Resent(p, current, allowRetry)
         THEN Again(p)
         ELSE p
==============================================================================
