----------------------------- MODULE ModePromise -----------------------------
(***************************************************************************)
(* What set_mode() and check_pending_mode() promise their caller, without    *)
(* the link, the heartbeats and the pilot: a flight-mode request is sent at  *)
(* most MaxAttempts times, each send is given RetryAfter ticks before the    *)
(* next one, a newer request replaces it, and it ends at most once:         *)
(* confirmed, dropped, or failed when its last send has had its time too.   *)
(* ModeLink implements this (Promise there).                                *)
(***************************************************************************)
EXTENDS Naturals

CONSTANTS
    RetryAfter,     \* MODE_RETRY_AFTER_S, in ticks
    MaxAttempts     \* MODE_MAX_ATTEMPTS

VARIABLES
    state,          \* of the latest request: none yet, waiting, or how it ended
    sends,          \* how often it was sent, while it waits
    waited          \* how long it has waited

promiseVars == <<state, sends, waited>>

PromiseInit == state = "none" /\ sends = 0 /\ waited = 0

Ask == state' = "waiting" /\ sends' = 1 /\ waited' = 0

\* Time enough was given to every send.
DueAgain == waited >= sends * RetryAfter

Wait ==
    /\ state = "waiting" /\ ~DueAgain
    /\ waited' = waited + 1
    /\ UNCHANGED <<state, sends>>

SendAgain ==
    /\ state = "waiting" /\ DueAgain /\ sends < MaxAttempts
    /\ sends' = sends + 1
    /\ UNCHANGED <<state, waited>>

End(how) ==
    /\ state = "waiting"
    /\ how = "failed" => DueAgain /\ sends = MaxAttempts
    /\ state' = how
    /\ sends' = 0 /\ waited' = 0

PromiseNext == Ask \/ Wait \/ SendAgain \/ \E how \in {"confirmed", "dropped", "failed"} : End(how)

PromiseSpec == PromiseInit /\ [][PromiseNext]_promiseVars
=============================================================================
