---------------------------- MODULE TargetRecovery ----------------------------
(***************************************************************************)
(* TargetRecoveryController: after the target of Follow or Orbit is lost, a *)
(* bounded yaw sweep, then RTL or the question whether to land here.  The   *)
(* direction of the sweep is left out: every sweep command turns.           *)
(***************************************************************************)
EXTENDS Naturals

CONSTANT SearchTimeout          \* search_timeout_s

ASSUME SearchAssumption == SearchTimeout \in Nat \ {0}

Recovery == [phase : {"IDLE", "SEARCHING", "AWAITING"}, age : 0 .. SearchTimeout]

NoRecovery == [phase |-> "IDLE", age |-> 0]

RecoveryActive(r) == r.phase # "IDLE"

SearchRestarted(r) == [phase |-> "SEARCHING", age |-> 0]

\* start_search(): nothing happens while one is running or a question is open.
SearchStarted(r) == IF RecoveryActive(r) THEN r ELSE [phase |-> "SEARCHING", age |-> 0]

Searching(r, dt) ==
    IF r.phase = "SEARCHING" /\ r.age + dt < SearchTimeout
    THEN [r EXCEPT !.age = @ + dt]
    ELSE IF r.phase = "SEARCHING" THEN [r EXCEPT !.age = SearchTimeout] ELSE r

\* update(), after the time since the last frame was added to the age: what it
\* tells the caller ...
RecoveryResult(r, reacquired, shouldLand) ==
    IF r.phase = "IDLE" THEN "IDLE"
    ELSE IF reacquired THEN "FOUND"
    ELSE IF r.phase = "AWAITING" THEN "AWAITING"
    ELSE IF r.age < SearchTimeout THEN "SEARCHING"
    ELSE IF shouldLand THEN "ASK_LAND" ELSE "RTL"

\* ... and what it leaves.
RecoveryAfter(r, result) ==
    CASE result \in {"FOUND", "RTL"} -> NoRecovery
      [] result = "ASK_LAND" -> [phase |-> "AWAITING", age |-> 0]
      [] OTHER -> r

\* confirm_landing() clears only the wait.
Confirming(r) == IF r.phase = "AWAITING" THEN NoRecovery ELSE r
==============================================================================
