---------------------------- MODULE MavlinkLink ----------------------------
(***************************************************************************)
(* The life of the connection to the flight controller: MavlinkBridge.run() *)
(* with its receive loop and its reconnects, the telemetry streams the      *)
(* bridge has to ask for, and how old the position is that everybody reads. *)
(* Arm and disarm requests (ArmCommand) travel over this connection, so     *)
(* their packets are lost when it breaks and their altitude gate reads      *)
(* what it last brought.                                                    *)
(*                                                                         *)
(* The receive loop and _reconnect() give up control only in recv_match and *)
(* in sleep, so what happens between two of these is one step.  Times are   *)
(* ages in ticks, capped where the code stops telling them apart.           *)
(***************************************************************************)
EXTENDS ArmCommand

CONSTANTS
    SilenceAfter,   \* silence_reconnect_s
    MaxDelay,       \* reconnect_max_delay_s, in units of RECONNECT_MIN_DELAY_S
    PositionMaxAge, \* POSITION_MAX_AGE_S
    StreamStale,    \* STREAM_STALE_S
    StreamRetry,    \* STREAM_RETRY_S
    MaxEvents       \* bound: arm requests, failures of the wire, stream requests
                    \* or packets lost and changes of height, together

ASSUME LinkAssumption ==
    /\ {SilenceAfter, MaxDelay, PositionMaxAge, StreamStale, StreamRetry}
           \subseteq Nat \ {0}
    /\ PositionMaxAge <= StreamStale
    /\ MaxEvents \in Nat

VARIABLES
    conn,       \* the bridge's connection and the loop that reads it
    stream,     \* its stream requests and the position they brought
    world       \* wire, flight controller, aircraft, and what the bounds count

linkVars == <<intents, mailbox, uplink, acks, told, altitude, flying, count,
              conn, stream, world>>

\* A position never received is older than any age.
Never == StreamStale + 1

LinkTypeOK ==
    /\ TypeOK
    /\ conn \in [open : BOOLEAN, error : BOOLEAN, silent : 0 .. SilenceAfter + 1,
                 delay : 1 .. MaxDelay, wait : 0 .. MaxDelay]
    /\ stream \in [requested : BOOLEAN, since : 0 .. StreamRetry + 1,
                   age : 0 .. Never, alt : {"low", "high"}]
    /\ world \in [wire : {"ok", "silent", "gone"}, streams : BOOLEAN,
                  height : {"low", "high"}, heightFor : 0 .. PositionMaxAge + 1,
                  events : Nat]

LinkInit ==
    /\ Init
    /\ conn = [open |-> TRUE, error |-> FALSE, silent |-> 0, delay |-> 1, wait |-> 0]
    /\ stream = [requested |-> FALSE, since |-> StreamRetry + 1, age |-> Never,
                 alt |-> "low"]
    /\ world = [wire |-> "ok", streams |-> FALSE, height |-> "low",
                heightFor |-> PositionMaxAge + 1, events |-> 0]

Room == count.made + world.events < MaxEvents

FrozenAlt(s) == IF s.age = Never THEN "unknown" ELSE s.alt

\* fresh_alt_m.
FreshAlt(s) == IF s.age > PositionMaxAge THEN "unknown" ELSE s.alt

-----------------------------------------------------------------------------
(* The receive loop. *)

\* _receive_until_link_lost returned: _reconnect closes the port and waits.
Closed(c) == [c EXCEPT !.open = FALSE, !.delay = 1, !.wait = 1]

\* The end of a turn of the loop: a write error, of whoever wrote, ends it.
NextTurn(c) == conn' = IF c.error THEN Closed(c) ELSE c

Heard == [conn EXCEPT !.silent = 0]

RequestDueOnce == ~stream.requested

\* The streams are asked for once in a connection, and again when positions
\* stay away while heartbeats come.
RequestDue ==
    \/ ~stream.requested
    \/ stream.age > StreamStale /\ stream.since > StreamRetry

\* A heartbeat of the autopilot.  A request for the streams may get lost, or
\* fail to be written, which ends the loop.
ReceiveHeartbeat ==
    /\ conn.open /\ world.wire = "ok"
    /\ IF RequestDue
       THEN /\ stream' = [stream EXCEPT !.requested = TRUE, !.since = 0]
            /\ \/ /\ world' = [world EXCEPT !.streams = TRUE]
                  /\ NextTurn(Heard)
               \/ /\ Room
                  /\ world' = [world EXCEPT !.events = @ + 1]
                  /\ \E failed \in BOOLEAN :
                         NextTurn([Heard EXCEPT !.error = @ \/ failed])
       ELSE NextTurn(Heard) /\ UNCHANGED <<stream, world>>
    /\ UNCHANGED <<intents, mailbox, uplink, acks, told, altitude, flying, count>>

\* Any other message, also a heartbeat of another component, which the flight
\* controller forwards.
ReceiveOther ==
    /\ conn.open /\ world.wire = "ok"
    /\ NextTurn(Heard)
    /\ UNCHANGED <<intents, mailbox, uplink, acks, told, altitude, flying, count,
                   stream, world>>

\* GLOBAL_POSITION_INT.
ReceivePosition ==
    /\ conn.open /\ world.wire = "ok" /\ world.streams
    /\ stream' = [stream EXCEPT !.age = 0, !.alt = world.height]
    /\ altitude' = FreshAlt(stream')
    /\ NextTurn(Heard)
    /\ UNCHANGED <<intents, mailbox, uplink, acks, told, flying, count, world>>

ReceiveAck ==
    /\ conn.open
    /\ TakeAck
    /\ NextTurn(Heard)
    /\ UNCHANGED <<stream, world>>

\* recv_match came back without a message.
ReceiveNothing ==
    /\ conn.open /\ world.wire # "ok"
    /\ IF conn.silent > SilenceAfter THEN conn' = Closed(conn) ELSE NextTurn(conn)
    /\ UNCHANGED <<intents, mailbox, uplink, acks, told, altitude, flying, count,
                   stream, world>>

\* recv_match raised.
ReadFails ==
    /\ conn.open /\ world.wire = "gone"
    /\ conn' = Closed(conn)
    /\ UNCHANGED <<intents, mailbox, uplink, acks, told, altitude, flying, count,
                   stream, world>>

-----------------------------------------------------------------------------
(* Reconnecting. *)

\* The port opens: write errors of the old connection are forgotten.
Opened(c) == [c EXCEPT !.open = TRUE, !.error = FALSE, !.silent = 0]

\* It does not: twice the delay, up to the limit.
BackedOff(c) ==
    LET longer == IF 2 * c.delay < MaxDelay THEN 2 * c.delay ELSE MaxDelay
    IN  [c EXCEPT !.delay = longer, !.wait = longer]

\* What the port held before it is opened again is gone; the intents of the
\* requests stay.
Reconnect ==
    /\ ~conn.open /\ conn.wait = 0
    /\ IF world.wire = "gone"
       THEN conn' = BackedOff(conn) /\ UNCHANGED <<stream, acks, count>>
       ELSE /\ conn' = Opened(conn)
            /\ stream' = [stream EXCEPT !.requested = FALSE]
            /\ acks' = <<>>
            /\ count' = [count EXCEPT !.lost = @ + Len(acks)]
    /\ UNCHANGED <<intents, mailbox, uplink, told, altitude, flying, world>>

\* The bridge's own heartbeat, or anything else that is written, fails.  (On a
\* closed port that makes no difference: Reconnect forgets it.)
WriteFails ==
    /\ conn.open /\ world.wire = "gone"
    /\ conn' = [conn EXCEPT !.error = TRUE]
    /\ UNCHANGED <<intents, mailbox, uplink, acks, told, altitude, flying, count,
                   stream, world>>

-----------------------------------------------------------------------------
(* Arm requests over this connection. *)

ArmOverLink(wish) ==
    /\ Room
    /\ \/ /\ conn.open /\ world.wire # "gone"
          /\ SendArmCommand(wish)
          /\ UNCHANGED conn
       \/ /\ FailArmCommand(wish)
          /\ conn' = [conn EXCEPT !.error = TRUE]
       \/ /\ RefuseForceDisarm /\ wish = "force"
          /\ UNCHANGED conn
    /\ UNCHANGED <<stream, world>>

RelayAnswer == Frame /\ UNCHANGED <<conn, stream, world>>

FcAnswer == world.wire = "ok" /\ FcReceive /\ UNCHANGED <<conn, stream, world>>

PacketLost ==
    /\ Room /\ world.wire = "ok"
    /\ LosePacket
    /\ world' = [world EXCEPT !.events = @ + 1]
    /\ UNCHANGED <<conn, stream>>

\* On a wire that is not in order nothing arrives.
PacketsVanish ==
    /\ world.wire # "ok"
    /\ uplink # <<>> \/ acks # <<>>
    /\ uplink' = <<>> /\ acks' = <<>>
    /\ count' = [count EXCEPT !.lost = @ + Len(uplink) + Len(acks)]
    /\ UNCHANGED <<intents, mailbox, told, altitude, flying, conn, stream, world>>

-----------------------------------------------------------------------------
(* Time and the world. *)

Capped(n, cap) == IF n < cap THEN n + 1 ELSE cap

\* A flight controller that is up is heard at least once a tick (1 Hz).
Tick ==
    /\ conn.open /\ world.wire = "ok" => conn.silent = 0
    /\ conn' = [conn EXCEPT
                    !.silent = IF conn.open THEN Capped(@, SilenceAfter + 1) ELSE @,
                    !.wait = IF @ > 0 THEN @ - 1 ELSE 0]
    /\ stream' = [stream EXCEPT !.since = Capped(@, StreamRetry + 1),
                                !.age = Capped(@, Never)]
    /\ altitude' = FreshAlt(stream')
    /\ world' = [world EXCEPT !.heightFor = Capped(@, PositionMaxAge + 1)]
    /\ UNCHANGED <<intents, mailbox, uplink, acks, told, flying, count>>

\* "silent": the flight controller is off or the line broken; "gone": the port
\* has disappeared.
Break ==
    /\ Room
    /\ \E w \in {"silent", "gone"} :
           world' = [world EXCEPT !.wire = w, !.events = @ + 1]
    /\ UNCHANGED <<intents, mailbox, uplink, acks, told, altitude, flying, count,
                   conn, stream>>

\* A flight controller that was restarted has forgotten the streams.
Heal ==
    /\ world.wire # "ok"
    /\ \E kept \in BOOLEAN :
           world' = [world EXCEPT !.wire = "ok", !.streams = @ /\ kept]
    /\ UNCHANGED <<intents, mailbox, uplink, acks, told, altitude, flying, count,
                   conn, stream>>

Move ==
    /\ Room
    /\ \E h \in {"low", "high"} \ {world.height} :
           world' = [world EXCEPT !.height = h, !.heightFor = 0, !.events = @ + 1]
    /\ flying' \in BOOLEAN
    /\ UNCHANGED <<intents, mailbox, uplink, acks, told, altitude, count, conn, stream>>

LinkNext ==
    \/ ReceiveHeartbeat \/ ReceiveOther \/ ReceivePosition \/ ReceiveAck
    \/ ReceiveNothing \/ ReadFails \/ Reconnect \/ WriteFails
    \/ \E wish \in Wish : ArmOverLink(wish)
    \/ RelayAnswer \/ FcAnswer \/ PacketLost \/ PacketsVanish
    \/ Tick \/ Break \/ Heal \/ Move

(***************************************************************************)
(* The loop goes round, time passes, the flight controller sends while the  *)
(* wire is in order, and what is on a wire arrives or vanishes.  Breaks,    *)
(* repairs, losses and requests carry no fairness.                          *)
(***************************************************************************)
LinkFairness ==
    /\ WF_linkVars(ReceiveHeartbeat) /\ WF_linkVars(ReceivePosition)
    /\ WF_linkVars(ReceiveAck) /\ WF_linkVars(ReceiveNothing)
    /\ WF_linkVars(Reconnect) /\ WF_linkVars(Tick)
    /\ WF_linkVars(PacketsVanish)
    /\ WF_linkVars(FcAnswer) /\ WF_linkVars(RelayAnswer)

LinkSpec == LinkInit /\ [][LinkNext]_linkVars /\ LinkFairness

-----------------------------------------------------------------------------
(* Properties. *)

\* What the altitude gate and the controllers read as the altitude was true at
\* most PositionMaxAge ago, also while the stream of positions is dead
\* (fresh_alt_m; "altitude limits against a frozen number").
AltitudeIsRecent ==
    altitude \notin {"unknown", world.height} => world.heightFor <= PositionMaxAge

\* A forced disarm, which cuts the motors, is not sent to an aircraft that has
\* been high for longer than a position may be old, unless no position that is
\* recent has come at all (_on_arm_command, fresh_alt_m).
ForceDisarmIsGated ==
    [][\A id \in Ids : uplink' = Append(uplink, [id |-> id, wish |-> "force"]) =>
           \/ stream.age > PositionMaxAge
           \/ world.height = "low"
           \/ world.heightFor <= PositionMaxAge]_linkVars

\* Positions come again after every break, also when the flight controller was
\* restarted without the connection noticing and forgot the streams
\* (_handle_message's second condition for asking).
TelemetryResumes == (<>[](world.wire = "ok")) => []<>(stream.age = 0)
==============================================================================
