--------------------------- MODULE ModeLink_proofs ---------------------------
(***************************************************************************)
(* What ModeLink's runs check on three modes and a few requests, proved for *)
(* every value of its constants.  The inductive invariant has three parts:  *)
(* the types, an account of the sends and of the time spent waiting, and,   *)
(* for a link on which requests do not overlap, where every copy of a mode  *)
(* (real, reported, on its way) can come from.                              *)
(***************************************************************************)
EXTENDS ModeLink, TLAPS

\* The bridge's count is the true count, every send but the latest was given
\* exactly RetryAfter ticks, and what is not pending has ended.
Account ==
    /\ hist.sent <= MaxAttempts
    /\ ~Pending(pending) => hist.outcome # "waiting"
    /\ Pending(pending) =>
        /\ hist.outcome = "waiting"
        /\ hist.sent = pending.sends
        /\ hist.waited = (pending.sends - 1) * RetryAfter + pending.age

\* While a request made on a quiet link is outstanding and nobody else has
\* moved the mode, the only modes around are the old one and the requested one.
Provenance ==
    QuietLink /\ Pending(pending) =>
        /\ \A i \in 1 .. Len(uplink) : uplink[i] = pending.mode
        /\ ~hist.moved =>
            /\ fc \in {pending.heldAt, pending.mode}
            /\ reported \in {pending.heldAt, pending.mode}
            /\ beat \in {NoMode, pending.heldAt, pending.mode}

USE DEF Report, Pending, NoRequest

------------------------------------------------------------------------------
(* ModeRequest's operators. *)

\* A new request and an older one are requests.
LEMMA FreshType ==
    ASSUME NEW m \in Modes, NEW c \in Report
    PROVE  Fresh(m, c) \in Request /\ Pending(Fresh(m, c))
BY RequestAssumption DEF Fresh, Request

LEMMA OlderType ==
    ASSUME NEW p \in Request, p.age < RetryAfter
    PROVE  /\ Older(p) \in Request
           /\ Older(p) = [p EXCEPT !.age = @ + 1]
BY RequestAssumption DEF Older, Request

\* A check ends the request, re-sends it or leaves it alone.
LEMMA CheckedCases ==
    ASSUME NEW p \in Request, NEW c \in Report, NEW ok \in BOOLEAN
    PROVE  \/ Checked(p, c, ok) = NoRequest /\ ~Resent(p, c, ok)
           \/ /\ Resent(p, c, ok)
              /\ Checked(p, c, ok) = Again(p)
           \/ Checked(p, c, ok) = p /\ ~Resent(p, c, ok)
<1> DEFINE ended == Confirmed(p, c) \/ Superseded(p, c) \/ Exhausted(p, c, ok)
<1>1. ended => ~Resent(p, c, ok)
    BY RequestAssumption
    DEF Request, Confirmed, Superseded, Exhausted, Resent, Overdue
<1>2. CASE ended
    BY <1>1, <1>2 DEF Checked
<1>3. CASE ~ended /\ Resent(p, c, ok)
    BY <1>3 DEF Checked
<1>4. CASE ~ended /\ ~Resent(p, c, ok)
    BY <1>4 DEF Checked
<1> QED BY <1>2, <1>3, <1>4

LEMMA CheckedType ==
    ASSUME NEW p \in Request, NEW c \in Report, NEW ok \in BOOLEAN
    PROVE  Checked(p, c, ok) \in Request \cup {NoRequest}
<1>1. CASE Resent(p, c, ok)
    <2>1. Again(p) \in Request
        BY <1>1, RequestAssumption DEF Request, Resent, Again
    <2> QED BY <1>1, <2>1, CheckedCases
<1>2. CASE ~Resent(p, c, ok)
    BY <1>2, CheckedCases
<1> QED BY <1>1, <1>2

\* Nothing pending is not a request, and a request is pending.
LEMMA PendingIsRequest ==
    ASSUME NEW p \in Request \cup {NoRequest}, Pending(p)
    PROVE  p \in Request
BY DEF Request

------------------------------------------------------------------------------
(* Types. *)

LEMMA TypeInit == Init => TypeOK
<1> SUFFICES ASSUME Init PROVE TypeOK
    OBVIOUS
<1>1. used \in [requests : Nat, losses : Nat, switches : Nat]
    BY DEF Init
<1>2. hist \in [outcome : Outcome, sent : Nat, waited : Nat,
                mover : {"pi", "pilot"}, moved : BOOLEAN]
    BY DEF Init, Outcome
<1>3. uplink \in Seq(Modes)
    BY DEF Init
<1> QED BY <1>1, <1>2, <1>3 DEF Init, TypeOK

LEMMA TypeNext == TypeOK /\ [Next]_vars => TypeOK'
<1> SUFFICES ASSUME TypeOK, [Next]_vars PROVE TypeOK'
    OBVIOUS
<1> USE DEF TypeOK, Outcome
<1>1. ASSUME NEW m \in Modes, SetMode(m) PROVE TypeOK'
    <2>1. uplink' \in Seq(Modes)
        BY <1>1 DEF SetMode
    <2>2. used' \in [requests : Nat, losses : Nat, switches : Nat]
        BY <1>1 DEF SetMode
    <2>3. hist' \in [outcome : Outcome, sent : Nat, waited : Nat,
                     mover : {"pi", "pilot"}, moved : BOOLEAN]
        BY <1>1 DEF SetMode
    <2>4. pending' \in Request
        BY <1>1, FreshType DEF SetMode
    <2> QED BY <1>1, <2>1, <2>2, <2>3, <2>4 DEF SetMode
<1>2. ASSUME NEW m \in Modes, PilotSwitch(m) PROVE TypeOK'
    <2>1. used' \in [requests : Nat, losses : Nat, switches : Nat]
        BY <1>2 DEF PilotSwitch
    <2>2. hist' \in [outcome : Outcome, sent : Nat, waited : Nat,
                     mover : {"pi", "pilot"}, moved : BOOLEAN]
        BY <1>2 DEF PilotSwitch
    <2> QED BY <1>2, <2>1, <2>2 DEF PilotSwitch
<1>3. CASE Frame
    <2>1. pending \in Request
        BY <1>3, PendingIsRequest DEF Frame
    <2>2. pending' \in Request \cup {NoRequest}
        <3>1. pending' = Checked(pending, reported, ~sticks)
            BY <1>3 DEF Frame
        <3>2. reported \in Report
            OBVIOUS
        <3>3. (~sticks) \in BOOLEAN
            OBVIOUS
        <3> QED BY ONLY <2>1, <3>1, <3>2, <3>3, CheckedType
    <2>3. uplink' \in Seq(Modes)
        <3>1. pending.mode \in Modes
            BY <2>1 DEF Request
        <3>2. uplink' = Append(uplink, pending.mode) \/ uplink' = uplink
            BY <1>3 DEF Frame
        <3> QED BY <3>1, <3>2
    <2>4. Verdict \in Outcome
        BY DEF Verdict
    <2>5. hist' \in [outcome : Outcome, sent : Nat, waited : Nat,
                     mover : {"pi", "pilot"}, moved : BOOLEAN]
        BY <1>3, <2>4 DEF Frame
    <2> QED BY <1>3, <2>2, <2>3, <2>5 DEF Frame
<1>4. CASE TakeHeartbeat
    BY <1>4 DEF TakeHeartbeat
<1>5. CASE Tick
    <2>1. pending \in Request
        BY <1>5, PendingIsRequest DEF Tick
    <2> QED BY <1>5, <2>1, OlderType DEF Tick
<1>6. CASE FcReceive
    BY <1>6 DEF FcReceive
<1>7. CASE LoseUplink
    BY <1>7 DEF LoseUplink
<1>8. CASE SendHeartbeat
    BY <1>8 DEF SendHeartbeat
<1>9. CASE LoseHeartbeat
    BY <1>9 DEF LoseHeartbeat
<1>10. CASE MoveSticks
    BY <1>10 DEF MoveSticks
<1>11. CASE UNCHANGED vars
    BY <1>11 DEF vars
<1> QED
    BY <1>1, <1>2, <1>3, <1>4, <1>5, <1>6, <1>7, <1>8, <1>9, <1>10, <1>11 DEF Next

\* Every variable of ModeLink keeps its type, whatever the link and the pilot do.
THEOREM TypeCorrect == Spec => []TypeOK
BY TypeInit, TypeNext, PTL DEF Spec

------------------------------------------------------------------------------
(* The account of sends and waiting. *)

LEMMA OneMoreSend ==
    ASSUME NEW s \in Nat \ {0}, NEW r \in Nat
    PROVE  s * r = (s - 1) * r + r
OBVIOUS

LEMMA AccountInit == Init => Account /\ FailureIsEarned
BY RequestAssumption DEF Init, Account, FailureIsEarned

LEMMA AccountNext ==
    TypeOK /\ Account /\ FailureIsEarned /\ [Next]_vars
        => Account' /\ FailureIsEarned'
<1> SUFFICES ASSUME TypeOK, Account, FailureIsEarned, [Next]_vars
             PROVE  Account' /\ FailureIsEarned'
    OBVIOUS
<1> USE RequestAssumption DEF Account, FailureIsEarned
<1> hist \in [outcome : Outcome, sent : Nat, waited : Nat,
              mover : {"pi", "pilot"}, moved : BOOLEAN]
    BY DEF TypeOK
<1>1. ASSUME NEW m \in Modes, SetMode(m) PROVE Account' /\ FailureIsEarned'
    <2>1. /\ hist'.sent = 1 /\ hist'.waited = 0 /\ hist'.outcome = "waiting"
          /\ pending'.sends = 1 /\ pending'.age = 0
        BY <1>1 DEF SetMode, Fresh
    <2> QED BY <2>1
<1>2. ASSUME NEW m \in Modes, PilotSwitch(m) PROVE Account' /\ FailureIsEarned'
    <2>1. /\ hist'.sent = hist.sent /\ hist'.waited = hist.waited
          /\ hist'.outcome = hist.outcome /\ pending' = pending
        BY <1>2 DEF PilotSwitch
    <2> QED BY <2>1
<1>3. CASE Frame
    <2>1. pending \in Request
        BY <1>3, PendingIsRequest DEF Frame, TypeOK
    <2>2. /\ pending.sends \in 1 .. MaxAttempts
          /\ pending.age \in 0 .. RetryAfter
          /\ Pending(pending)
        BY <1>3, <2>1 DEF Frame, Request
    <2>3. pending.sends * RetryAfter = (pending.sends - 1) * RetryAfter + RetryAfter
        BY <2>2, OneMoreSend
    <2>4. (pending.sends - 1) * RetryAfter \in Nat
        BY <2>2
    <2>5. CASE Resent(pending, reported, ~sticks)
        <3>1. pending' = Again(pending)
            BY <1>3, <2>1, <2>5, CheckedCases, Zenon DEF Frame, TypeOK
        <3>2. /\ pending'.sends = pending.sends + 1 /\ pending'.age = 0
            BY <3>1 DEF Again
        <3>3. /\ hist'.sent = hist.sent + 1 /\ hist'.waited = hist.waited
              /\ hist'.outcome = "waiting"
            BY <1>3, <2>2, <2>5 DEF Frame
        <3>4. pending.sends < MaxAttempts /\ pending.age = RetryAfter
            BY <2>2, <2>5 DEF Resent, Overdue
        <3>5. hist.sent = pending.sends
              /\ hist.waited = (pending.sends - 1) * RetryAfter + RetryAfter
            BY <2>2, <3>4
        <3>6. hist'.waited = pending.sends * RetryAfter
            BY <2>3, <3>3, <3>5, Zenon
        <3>7. pending'.sends - 1 = pending.sends
            BY <2>2, <3>2
        <3>8. pending.sends * RetryAfter \in Nat
            BY <2>2
        <3>9. hist'.waited = (pending'.sends - 1) * RetryAfter + pending'.age
            BY <3>2, <3>6, <3>7, <3>8
        <3>10. hist'.sent = pending'.sends /\ hist'.sent <= MaxAttempts
            BY <2>2, <3>2, <3>3, <3>4, <3>5
        <3>11. Pending(pending')
            BY <2>2, <3>2
        <3> QED BY <3>3, <3>9, <3>10, <3>11
    <2>6. CASE ~Resent(pending, reported, ~sticks)
        <3>1. /\ hist'.sent = hist.sent /\ hist'.waited = hist.waited
              /\ hist'.outcome = Verdict
            BY <1>3, <2>6 DEF Frame
        <3>2. CASE pending' = pending /\ Verdict = hist.outcome
            BY <3>1, <3>2
        <3>3. CASE pending' = NoRequest
            <4>1. ~Pending(pending')
                BY <3>3
            <4>5. pending' = Checked(pending, reported, ~sticks) /\ pending' # pending
                BY <1>3, <2>2, <4>1 DEF Frame
            <4>6. hist'.outcome # "waiting"
                BY <2>6, <3>1, <4>5 DEF Checked, Verdict
            <4>2. CASE Exhausted(pending, reported, ~sticks)
                <5>1. /\ pending.sends = MaxAttempts /\ pending.age = RetryAfter
                    BY <2>2, <4>2 DEF Exhausted, Overdue
                <5>2. hist.waited = (pending.sends - 1) * RetryAfter + RetryAfter
                    BY <2>2, <5>1
                <5>3. hist.waited = MaxAttempts * RetryAfter
                    BY <2>3, <5>1, <5>2, Zenon
                <5>4. hist'.sent = MaxAttempts /\ hist'.waited = MaxAttempts * RetryAfter
                    BY <2>2, <3>1, <5>1, <5>3
                <5>5. MaxAttempts * RetryAfter \in Nat
                    OBVIOUS
                <5> QED BY <4>1, <4>6, <5>4, <5>5
            <4>3. CASE ~Exhausted(pending, reported, ~sticks)
                <5>1. hist'.outcome # "failed"
                    BY <2>2, <3>1, <4>3 DEF Verdict
                <5> QED BY <3>1, <4>1, <4>6, <5>1
            <4> QED BY <4>2, <4>3
        <3>4. \/ pending' = NoRequest
              \/ pending' = pending /\ Verdict = hist.outcome
            <4>1. pending' = Checked(pending, reported, ~sticks)
                BY <1>3 DEF Frame
            <4> QED BY <2>6, <4>1 DEF Checked, Verdict
        <3> QED BY <3>2, <3>3, <3>4
    <2> QED BY <2>5, <2>6
<1>4. CASE TakeHeartbeat
    BY <1>4 DEF TakeHeartbeat
<1>5. CASE Tick
    <2>1. pending \in Request /\ Pending(pending)
        BY <1>5, PendingIsRequest DEF Tick, TypeOK
    <2>2. /\ pending'.sends = pending.sends /\ pending'.age = pending.age + 1
        BY <1>5, <2>1, OlderType DEF Tick, Request
    <2>3. /\ hist'.sent = hist.sent /\ hist'.waited = hist.waited + 1
          /\ hist'.outcome = hist.outcome
        BY <1>5 DEF Tick
    <2>4. (pending.sends - 1) * RetryAfter \in Nat /\ pending.age \in Nat
        BY <2>1 DEF Request
    <2> QED BY <2>1, <2>2, <2>3, <2>4
<1>6. CASE FcReceive
    <2>1. /\ hist'.sent = hist.sent /\ hist'.waited = hist.waited
          /\ hist'.outcome = hist.outcome /\ pending' = pending
        BY <1>6 DEF FcReceive
    <2> QED BY <2>1
<1>7. CASE LoseUplink
    BY <1>7 DEF LoseUplink
<1>8. CASE SendHeartbeat
    BY <1>8 DEF SendHeartbeat
<1>9. CASE LoseHeartbeat
    BY <1>9 DEF LoseHeartbeat
<1>10. CASE MoveSticks
    BY <1>10 DEF MoveSticks
<1>11. CASE UNCHANGED vars
    BY <1>11 DEF vars
<1> QED
    BY <1>1, <1>2, <1>3, <1>4, <1>5, <1>6, <1>7, <1>8, <1>9, <1>10, <1>11 DEF Next

\* One request never puts more than MaxAttempts packets on the link, and the
\* bridge's own count of them is the true one.
THEOREM SendBudgetHolds == Spec => []SendBudget
<1>1. Account => SendBudget
    BY DEF Account, SendBudget
<1> QED
    BY <1>1, AccountInit, AccountNext, TypeInit, TypeNext, PTL DEF Spec

\* "Not confirmed" is said only after every attempt was made and waited for.
THEOREM FailureIsEarnedHolds == Spec => []FailureIsEarned
BY AccountInit, AccountNext, TypeInit, TypeNext, PTL DEF Spec

\* The wait of one request is bounded, whatever the link and the pilot do: it waits
\* its RetryAfter for each send and then stands still until a check ends it or sends
\* again, of which there are MaxAttempts.
WaitIsBounded == Pending(pending) => hist.waited <= MaxAttempts * RetryAfter

\* Fewer sends wait no longer.
LEMMA Longer ==
    ASSUME NEW a \in Nat, NEW b \in Nat, a <= b, NEW r \in Nat
    PROVE  a * r <= b * r
<1>1. PICK k \in Nat : b = a + k
    <2>1. b - a \in Nat /\ b = a + (b - a)
        OBVIOUS
    <2> QED BY <2>1
<1>2. k * r \in Nat /\ a * r \in Nat
    OBVIOUS
<1>3. (a + k) * r = a * r + k * r
    OBVIOUS
<1> QED BY <1>1, <1>2, <1>3

\* What RequestResolved needs besides fairness: time is not given back to a request,
\* neither by a check nor by a send (check_pending_mode).
THEOREM WaitIsBoundedHolds == Spec => []WaitIsBounded
<1>1. ASSUME TypeOK, Account PROVE WaitIsBounded
    <2> SUFFICES ASSUME Pending(pending) PROVE hist.waited <= MaxAttempts * RetryAfter
        BY DEF WaitIsBounded
    <2>1. /\ pending.sends \in Nat \ {0} /\ pending.sends <= MaxAttempts
          /\ pending.age \in Nat /\ pending.age <= RetryAfter
          /\ MaxAttempts \in Nat /\ RetryAfter \in Nat
        BY <1>1, RequestAssumption DEF TypeOK, Request
    <2>2. hist.waited = (pending.sends - 1) * RetryAfter + pending.age
        BY <1>1 DEF Account
    <2>3. pending.sends * RetryAfter = (pending.sends - 1) * RetryAfter + RetryAfter
        BY <2>1, OneMoreSend
    <2>4. pending.sends * RetryAfter <= MaxAttempts * RetryAfter
        BY <2>1, Longer
    <2>5. /\ (pending.sends - 1) * RetryAfter \in Nat /\ pending.sends * RetryAfter \in Nat
          /\ MaxAttempts * RetryAfter \in Nat
        BY <2>1
    <2> QED BY <2>1, <2>2, <2>3, <2>4, <2>5
<1> QED
    BY <1>1, AccountInit, AccountNext, TypeInit, TypeNext, PTL DEF Spec

------------------------------------------------------------------------------
(* Silent drops on a link where requests do not overlap. *)

LEMMA ProvenanceInit == Init => Provenance /\ DropsOnlyForThePilot
BY DEF Init, Provenance, DropsOnlyForThePilot

LEMMA ProvenanceNext ==
    ASSUME QuietLink
    PROVE  TypeOK /\ Provenance /\ Account /\ DropsOnlyForThePilot /\ [Next]_vars
               => Provenance' /\ DropsOnlyForThePilot'
<1> SUFFICES ASSUME TypeOK, Provenance, Account, DropsOnlyForThePilot, [Next]_vars
             PROVE  Provenance' /\ DropsOnlyForThePilot'
    OBVIOUS
<1> USE DEF Provenance, DropsOnlyForThePilot
<1> hist \in [outcome : Outcome, sent : Nat, waited : Nat,
              mover : {"pi", "pilot"}, moved : BOOLEAN]
    BY DEF TypeOK
<1> uplink \in Seq(Modes)
    BY DEF TypeOK
<1>1. ASSUME NEW m \in Modes, SetMode(m)
      PROVE  Provenance' /\ DropsOnlyForThePilot'
    <2>1. /\ uplink' = <<m>> /\ pending'.mode = m /\ pending'.heldAt = reported
          /\ fc' = fc /\ reported' = reported /\ beat' = NoMode /\ reported = fc
        BY <1>1 DEF SetMode, Fresh
    <2>2. hist'.outcome = "waiting"
        BY <1>1 DEF SetMode
    <2> QED BY <2>1, <2>2
<1>2. ASSUME NEW m \in Modes, PilotSwitch(m)
      PROVE  Provenance' /\ DropsOnlyForThePilot'
    <2>1. hist'.moved /\ uplink' = uplink /\ pending' = pending
        BY <1>2 DEF PilotSwitch
    <2> QED BY <2>1
<1>3. CASE Frame
    <2>1. pending \in Request /\ Pending(pending)
        BY <1>3, PendingIsRequest DEF Frame, TypeOK
    <2>2. CASE Resent(pending, reported, ~sticks)
        <3>1. pending' = Again(pending)
            BY <1>3, <2>1, <2>2, CheckedCases, Zenon DEF Frame, TypeOK
        <3>2. /\ pending'.mode = pending.mode /\ pending'.heldAt = pending.heldAt
            BY <3>1 DEF Again
        <3>3. uplink' = Append(uplink, pending.mode)
            BY <1>3, <2>2 DEF Frame
        <3>4. \A i \in 1 .. Len(uplink') : uplink'[i] = pending.mode
            BY <2>1, <3>3 DEF Request
        <3>5. /\ hist'.moved = hist.moved /\ hist'.outcome = hist.outcome
              /\ fc' = fc /\ reported' = reported /\ beat' = beat
            BY <1>3, <2>2 DEF Frame
        <3>6. hist.outcome = "waiting"
            BY <2>1 DEF Account
        <3> QED BY <2>1, <3>2, <3>4, <3>5, <3>6
    <2>3. CASE ~Resent(pending, reported, ~sticks)
        <3>1. /\ hist'.moved = hist.moved /\ hist'.outcome = Verdict
              /\ fc' = fc /\ reported' = reported /\ beat' = beat /\ uplink' = uplink
            BY <1>3, <2>3 DEF Frame
        <3>2. pending' = NoRequest \/ pending' = pending
            <4>1. pending' = Checked(pending, reported, ~sticks)
                BY <1>3 DEF Frame
            <4> QED BY <2>3, <4>1 DEF Checked
        <3>3. Provenance'
            BY <3>1, <3>2
        <3>4. Verdict = "dropped" => Superseded(pending, reported)
            BY <2>1 DEF Verdict, Account
        <3>5. Superseded(pending, reported) => hist.moved
            BY <2>1 DEF Superseded
        <3> QED BY <3>1, <3>3, <3>4, <3>5
    <2> QED BY <2>2, <2>3
<1>4. CASE TakeHeartbeat
    BY <1>4 DEF TakeHeartbeat
<1>5. CASE Tick
    <2>1. pending \in Request /\ Pending(pending)
        BY <1>5, PendingIsRequest DEF Tick, TypeOK
    <2>2. /\ pending'.mode = pending.mode /\ pending'.heldAt = pending.heldAt
        BY <1>5, <2>1, OlderType DEF Tick, Request
    <2>3. /\ hist'.moved = hist.moved /\ hist'.outcome = hist.outcome
          /\ fc' = fc /\ reported' = reported /\ beat' = beat /\ uplink' = uplink
        BY <1>5 DEF Tick
    <2> QED BY <2>1, <2>2, <2>3
<1>6. CASE FcReceive
    <2>1. /\ hist'.moved = hist.moved /\ hist'.outcome = hist.outcome
          /\ reported' = reported /\ beat' = beat /\ pending' = pending
          /\ fc' = uplink[1] \/ fc' = fc
          /\ uplink # <<>> /\ uplink' = Tail(uplink)
        BY <1>6 DEF FcReceive
    <2>2. \A i \in 1 .. Len(uplink') : uplink'[i] = uplink[i + 1] /\ i + 1 \in 1 .. Len(uplink)
        BY <2>1
    <2>3. 1 \in 1 .. Len(uplink)
        BY <2>1
    <2> QED BY <2>1, <2>2, <2>3
<1>7. CASE LoseUplink
    <2>1. /\ hist' = hist /\ fc' = fc /\ reported' = reported /\ beat' = beat
          /\ pending' = pending /\ uplink # <<>> /\ uplink' = Tail(uplink)
        BY <1>7 DEF LoseUplink
    <2>2. \A i \in 1 .. Len(uplink') : uplink'[i] = uplink[i + 1] /\ i + 1 \in 1 .. Len(uplink)
        BY <2>1
    <2> QED BY <2>1, <2>2
<1>8. CASE SendHeartbeat
    BY <1>8 DEF SendHeartbeat
<1>9. CASE LoseHeartbeat
    BY <1>9 DEF LoseHeartbeat
<1>10. CASE MoveSticks
    BY <1>10 DEF MoveSticks
<1>11. CASE UNCHANGED vars
    BY <1>11 DEF vars
<1> QED
    BY <1>1, <1>2, <1>3, <1>4, <1>5, <1>6, <1>7, <1>8, <1>9, <1>10, <1>11 DEF Next

\* On a link where a request is made only when nothing else is under way, a
\* request is given up silently only because the pilot turned the switch.
THEOREM QuietDropsOnlyForThePilot ==
    ASSUME QuietLink PROVE Spec => []DropsOnlyForThePilot
BY ProvenanceInit, ProvenanceNext, AccountInit, AccountNext, TypeInit, TypeNext, PTL
   DEF Spec

------------------------------------------------------------------------------
(* The refinement. *)

LEMMA PromisedInit == Init => Promise!PromiseInit
BY DEF Init, Promise!PromiseInit

\* Every step of the bridge, the link, the flight controller and the pilot is a
\* step of the promise or leaves it where it was.
LEMMA PromisedStep ==
    TypeOK /\ Account /\ [Next]_vars => [Promise!PromiseNext]_(Promise!promiseVars)
<1> SUFFICES ASSUME TypeOK, Account, [Next]_vars
             PROVE  [Promise!PromiseNext]_(Promise!promiseVars)
    OBVIOUS
<1> USE RequestAssumption
<1> DEFINE kept == /\ hist'.outcome = hist.outcome
                   /\ hist'.waited = hist.waited
                   /\ pending' = pending
<1>0. kept => UNCHANGED Promise!promiseVars
    BY DEF Promise!promiseVars
<1> hist \in [outcome : Outcome, sent : Nat, waited : Nat,
              mover : {"pi", "pilot"}, moved : BOOLEAN]
    BY DEF TypeOK
<1>1. ASSUME NEW m \in Modes, SetMode(m) PROVE Promise!Ask
    BY <1>1 DEF SetMode, Fresh, Promise!Ask
<1>2. ASSUME NEW m \in Modes, PilotSwitch(m) PROVE kept
    BY <1>2 DEF PilotSwitch
<1>3. CASE Frame
    <2>1. pending \in Request /\ Pending(pending)
        BY <1>3, PendingIsRequest DEF Frame, TypeOK
    <2>2. /\ pending.sends \in 1 .. MaxAttempts
          /\ pending.age \in 0 .. RetryAfter
          /\ hist.outcome = "waiting"
          /\ hist.waited = (pending.sends - 1) * RetryAfter + pending.age
        BY <2>1 DEF Request, Account
    <2>3. pending.age = RetryAfter => Promise!DueAgain
        <3>1. pending.sends * RetryAfter = (pending.sends - 1) * RetryAfter + RetryAfter
            BY <2>2, OneMoreSend
        <3>2. pending.age = RetryAfter => hist.waited = pending.sends * RetryAfter
            BY <2>2, <3>1, Zenon
        <3>3. pending.sends * RetryAfter \in Nat
            BY <2>2
        <3> QED BY <2>1, <3>2, <3>3 DEF Promise!DueAgain
    <2>4. CASE Resent(pending, reported, ~sticks)
        <3>1. /\ pending' = Again(pending)
              /\ hist'.waited = hist.waited /\ hist'.outcome = hist.outcome
            BY <1>3, <2>1, <2>4, CheckedCases, Zenon DEF Frame, TypeOK
        <3>2. pending'.sends = pending.sends + 1 /\ Pending(pending')
            BY <2>2, <3>1 DEF Again
        <3>3. pending.sends < MaxAttempts /\ pending.age = RetryAfter
            BY <2>2, <2>4 DEF Resent, Overdue
        <3>4. Promise!SendAgain
            BY <2>1, <2>2, <2>3, <3>1, <3>2, <3>3 DEF Promise!SendAgain
        <3> QED BY <3>4 DEF Promise!PromiseNext
    <2>5. CASE ~Resent(pending, reported, ~sticks)
        <3>1. /\ hist'.waited = hist.waited /\ hist'.outcome = Verdict
              /\ pending' = Checked(pending, reported, ~sticks)
            BY <1>3, <2>5 DEF Frame
        <3> DEFINE ended == \/ Confirmed(pending, reported)
                            \/ Superseded(pending, reported)
                            \/ Exhausted(pending, reported, ~sticks)
        <3>2. CASE ~ended
            BY <1>0, <2>5, <3>1, <3>2 DEF Checked, Verdict
        <3>3. CASE ended
            <4>1. pending' = NoRequest /\ ~Pending(pending')
                BY <3>1, <3>3 DEF Checked
            <4>2. Verdict \in {"confirmed", "dropped", "failed"}
                BY <3>3 DEF Verdict
            <4>3. Verdict = "failed" => Promise!DueAgain /\ pending.sends = MaxAttempts
                BY <2>2, <2>3 DEF Verdict, Exhausted, Overdue
            <4>4. Promise!End(Verdict)
                BY <2>2, <3>1, <4>1, <4>3 DEF Promise!End
            <4> QED BY <4>2, <4>4 DEF Promise!PromiseNext
        <3> QED BY <3>2, <3>3
    <2> QED BY <2>4, <2>5
<1>4. CASE TakeHeartbeat
    BY <1>0, <1>4 DEF TakeHeartbeat
<1>5. CASE Tick
    <2>1. pending \in Request /\ Pending(pending)
        BY <1>5, PendingIsRequest DEF Tick, TypeOK
    <2>2. /\ pending.sends \in 1 .. MaxAttempts
          /\ pending.age \in 0 .. RetryAfter - 1
          /\ hist.outcome = "waiting"
          /\ hist.waited = (pending.sends - 1) * RetryAfter + pending.age
        BY <1>5, <2>1 DEF Tick, Request, Account
    <2>3. pending.sends * RetryAfter = (pending.sends - 1) * RetryAfter + RetryAfter
        BY <2>2, OneMoreSend
    <2>4. (pending.sends - 1) * RetryAfter \in Nat
        BY <2>2
    <2>5. ~Promise!DueAgain
        BY <2>1, <2>2, <2>3, <2>4 DEF Promise!DueAgain
    <2>6. /\ pending'.sends = pending.sends
          /\ hist'.waited = hist.waited + 1 /\ hist'.outcome = hist.outcome
        BY <1>5, <2>1, OlderType DEF Tick, Request
    <2>7. Promise!Wait
        BY <2>1, <2>2, <2>5, <2>6 DEF Promise!Wait
    <2> QED BY <2>7 DEF Promise!PromiseNext
<1>6. CASE FcReceive
    <2>1. kept
        BY <1>6 DEF FcReceive
    <2> QED BY <1>0, <2>1
<1>7. CASE LoseUplink
    BY <1>0, <1>7 DEF LoseUplink
<1>8. CASE SendHeartbeat
    BY <1>0, <1>8 DEF SendHeartbeat
<1>9. CASE LoseHeartbeat
    BY <1>0, <1>9 DEF LoseHeartbeat
<1>10. CASE MoveSticks
    BY <1>0, <1>10 DEF MoveSticks
<1>11. CASE UNCHANGED vars
    BY <1>0, <1>11 DEF vars
<1> QED
    BY <1>0, <1>1, <1>2, <1>3, <1>4, <1>5, <1>6, <1>7, <1>8, <1>9, <1>10, <1>11
    DEF Next, Promise!PromiseNext

\* set_mode and check_pending_mode, on any link and beside any pilot, implement
\* the promise: spaced and counted sends, and one end.
THEOREM PromiseIsKept == Spec => KeepsThePromise
<1>1. TypeOK /\ Account /\ [Next]_vars => [Promise!PromiseNext]_(Promise!promiseVars)
    BY PromisedStep
<1> QED
    BY <1>1, PromisedInit, AccountInit, AccountNext, TypeInit, TypeNext, PTL
    DEF Spec, KeepsThePromise, Promise!PromiseSpec
==============================================================================
