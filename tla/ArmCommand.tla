----------------------------- MODULE ArmCommand -----------------------------
(***************************************************************************)
(* Arm and disarm requests, from the app through MavlinkBridge.arm() to the *)
(* flight controller and back.  A COMMAND_ACK does not say which request it *)
(* answers, so the bridge keeps the requests in a queue and lets each ACK   *)
(* answer the oldest one; the answer waits in a one-place mailbox for the   *)
(* next frame, which tells the app.                                         *)
(*                                                                         *)
(* MavlinkLink puts these steps on a connection that breaks.  Each request   *)
(* carries an id that the code does not have: the ids are what the           *)
(* properties compare.                                                      *)
(***************************************************************************)
EXTENDS Naturals, Sequences

CONSTANTS
    MaxCommands,    \* bound: requests of the operator in a behaviour
    MaxLosses,      \* bound: commands and acknowledgements lost
    PromptFrames    \* does a frame empty the mailbox before it is used again?

ASSUME ArmAssumption ==
    /\ {MaxCommands, MaxLosses} \subseteq Nat
    /\ PromptFrames \in BOOLEAN

Ids == 1 .. MaxCommands

\* What the operator can ask: arm, disarm, force disarm (force with arm is
\* ignored by the bridge).
Wish == {"arm", "disarm", "force"}

\* fresh_alt_m against max_force_disarm_altitude_m; "unknown" is None, also
\* when the position is stale.
Altitude == {"low", "high", "unknown"}

Command == [id : Ids, wish : Wish]
Answer == [id : Ids, accepted : BOOLEAN]
Result == [asked : Ids, armed : BOOLEAN, answers : Ids, accepted : BOOLEAN]

VARIABLES
    intents,    \* _pending_arm_intents, oldest first
    mailbox,    \* pending_arm_ack: the results waiting for a frame, at most one
    uplink,     \* COMMAND_LONG packets on their way
    acks,       \* COMMAND_ACK packets on their way back
    told,       \* the arm_command_result messages sent to the app
    altitude,   \* the altitude the bridge holds
    flying,     \* the flight controller's land detector believes it flies
    count       \* requests made, packets lost

TypeOK ==
    /\ intents \in Seq([id : Ids, armed : BOOLEAN])
    /\ mailbox \in SUBSET Result
    /\ \A r, s \in mailbox : r = s
    /\ uplink \in Seq(Command)
    /\ acks \in Seq(Answer)
    /\ told \in SUBSET Result
    /\ altitude \in Altitude
    /\ flying \in BOOLEAN
    /\ count \in [made : Nat, lost : Nat]

Init ==
    /\ intents = <<>> /\ mailbox = {} /\ uplink = <<>> /\ acks = <<>> /\ told = {}
    /\ altitude = "unknown"
    /\ flying \in BOOLEAN
    /\ count = [made |-> 0, lost |-> 0]

-----------------------------------------------------------------------------

\* A result put into the mailbox replaces the one that is still there.
Deposit(r) ==
    /\ PromptFrames => mailbox = {}
    /\ mailbox' = {r}

Rejection(id, wish) ==
    [asked |-> id, armed |-> wish = "arm", answers |-> id, accepted |-> FALSE]

Asked == count.made + 1

\* arm() queues the intent before it writes ...
Queued(wish) == Append(intents, [id |-> Asked, armed |-> wish = "arm"])

LeftBehind(wish) == Queued(wish)

\* ... and takes it back when the write fails.
Withdrawn(wish) == intents

\* _on_arm_command refuses a forced disarm while the aircraft is known to be
\* above the limit.
TooHigh(wish) == wish = "force" /\ altitude = "high"

RefuseForceDisarm ==
    /\ count.made < MaxCommands
    /\ TooHigh("force")
    /\ Deposit(Rejection(Asked, "force"))
    /\ count' = [count EXCEPT !.made = @ + 1]
    /\ UNCHANGED <<intents, uplink, acks, told, altitude, flying>>

\* arm(): the intent is queued, the command written.
SendArmCommand(wish) ==
    /\ count.made < MaxCommands
    /\ ~TooHigh(wish)
    /\ intents' = Queued(wish)
    /\ uplink' = Append(uplink, [id |-> Asked, wish |-> wish])
    /\ count' = [count EXCEPT !.made = @ + 1]
    /\ UNCHANGED <<mailbox, acks, told, altitude, flying>>

\* arm() when the write fails: the intent is taken back, and the request is
\* reported as rejected.
FailArmCommand(wish) ==
    /\ count.made < MaxCommands
    /\ ~TooHigh(wish)
    /\ intents' = Withdrawn(wish)
    /\ Deposit(Rejection(Asked, wish))
    /\ count' = [count EXCEPT !.made = @ + 1]
    /\ UNCHANGED <<uplink, acks, told, altitude, flying>>

\* _handle_message of a COMMAND_ACK: the oldest intent is the one it answers.
\* Without an intent it is ignored.
TakeAck ==
    /\ acks # <<>>
    /\ acks' = Tail(acks)
    /\ IF intents = <<>>
       THEN UNCHANGED <<intents, mailbox>>
       ELSE /\ intents' = Tail(intents)
            /\ Deposit([asked |-> Head(intents).id, armed |-> Head(intents).armed,
                        answers |-> Head(acks).id, accepted |-> Head(acks).accepted])
    /\ UNCHANGED <<uplink, told, altitude, flying, count>>

RelayedIfAccepted(results) == {r \in results : r.accepted}

\* Accepted or rejected, the app is told.
Relayed(results) == results

\* A frame relays the mailbox to the app and empties it.
Frame ==
    /\ mailbox # {}
    /\ told' = told \cup Relayed(mailbox)
    /\ mailbox' = {}
    /\ UNCHANGED <<intents, uplink, acks, altitude, flying, count>>

-----------------------------------------------------------------------------
(* The flight controller and the link. *)

\* Arming may fail its pre-arm checks; an unforced disarm is refused while the
\* land detector believes the aircraft is flying.
Accepts(wish) ==
    CASE wish = "arm" -> BOOLEAN
      [] wish = "disarm" -> {~flying}
      [] wish = "force" -> {TRUE}

FcReceive ==
    /\ uplink # <<>>
    /\ uplink' = Tail(uplink)
    /\ \E ok \in Accepts(Head(uplink).wish) :
           acks' = Append(acks, [id |-> Head(uplink).id, accepted |-> ok])
    /\ UNCHANGED <<intents, mailbox, told, altitude, flying, count>>

LosePacket ==
    /\ count.lost < MaxLosses
    /\ \/ uplink # <<>> /\ uplink' = Tail(uplink) /\ UNCHANGED acks
       \/ acks # <<>> /\ acks' = Tail(acks) /\ UNCHANGED uplink
    /\ count' = [count EXCEPT !.lost = @ + 1]
    /\ UNCHANGED <<intents, mailbox, told, altitude, flying>>

-----------------------------------------------------------------------------
(* Properties. *)

\* The app is never told the outcome of one request in the name of another:
\* the result of a request is the flight controller's answer to that request
\* (the queue of intents in arm() and _handle_message).
AnswersTheRequest == \A r \in told \cup mailbox : r.asked = r.answers

\* What the queue does achieve: as long as every command and every
\* acknowledgement gets through, also when writes fail and requests follow each
\* other quickly.
AnswersUnlessLost == count.lost = 0 => AnswersTheRequest

Answered(id) == \E r \in told : r.asked = id /\ r.answers = id

\* Every request, also a refused one and one that could not be written, is in
\* the end answered to the app in its own name.
EveryRequestAnswered ==
    \A id \in Ids : count.made >= id ~> Answered(id) \/ count.lost > 0
==============================================================================
