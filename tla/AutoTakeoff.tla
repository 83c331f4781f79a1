----------------------------- MODULE AutoTakeoff -----------------------------
(***************************************************************************)
(* AutoTakeoffController: after "Arm & Follow", wait until armed and in     *)
(* GUIDED, send one takeoff, and withhold guidance until the altitude is    *)
(* reached or the time is up.                                               *)
(***************************************************************************)
EXTENDS Naturals

CONSTANT TakeoffTimeout         \* timeout_s of auto_takeoff.yaml

ASSUME TakeoffAssumption == TakeoffTimeout \in Nat \ {0}

\* IDLE, DONE and TIMED_OUT behave alike (update() answers "none"): OFF.
Takeoff == [phase : {"OFF", "WAITING", "CLIMBING"}, age : 0 .. TakeoffTimeout]

NoTakeoff == [phase |-> "OFF", age |-> 0]

TakeoffStarted == [phase |-> "WAITING", age |-> 0]

TakeoffActive(t) == t.phase # "OFF"

Elapsed(t, dt) ==
    IF t.age + dt > TakeoffTimeout THEN TakeoffTimeout ELSE t.age + dt

\* update(): the action for the caller.
TakeoffAction(t, dt, armed, guided, high) ==
    IF ~TakeoffActive(t) THEN "none"
    ELSE IF Elapsed(t, dt) >= TakeoffTimeout THEN "timed_out"
    ELSE IF t.phase = "WAITING" /\ ~(armed /\ guided) THEN "hold"
    ELSE IF high THEN "ready"
    ELSE IF t.phase = "WAITING" THEN "send_takeoff" ELSE "hold"

TakeoffAfter(t, dt, action) ==
    CASE action = "none" -> t
      [] action \in {"timed_out", "ready"} -> NoTakeoff
      [] action = "send_takeoff" -> [phase |-> "CLIMBING", age |-> Elapsed(t, dt)]
      [] action = "hold" -> [t EXCEPT !.age = Elapsed(t, dt)]

TakeoffRestarted(t) == TakeoffStarted

\* retry_takeoff(): the command could not be written.
TakeoffRetried(t) == IF t.phase = "CLIMBING" THEN [t EXCEPT !.phase = "WAITING"] ELSE t
==============================================================================
