-------------------------- MODULE MavlinkLink_proofs --------------------------
(***************************************************************************)
(* For any ages, delays and numbers of requests: the altitude that gates the *)
(* forced disarm is recent, and the queue of arm intents gives every answer  *)
(* to the request it belongs to while no packet is lost.                     *)
(*                                                                         *)
(* The first needs that a position is as old as it says (PositionIsDated),   *)
(* the second that the acknowledgements and the commands under way, one      *)
(* after the other, are those of the intents (InStep).                       *)
(***************************************************************************)
EXTENDS MavlinkLink, TLAPS


Intent == [id : Ids, armed : BOOLEAN]

\* The altitude everybody reads is the stream's, if it is recent.
AltitudeIsStream == altitude = FreshAlt(stream)

\* A position other than the height of now came before the last change of height.
PositionIsDated ==
    stream.age < Never /\ stream.alt # world.height => world.heightFor <= stream.age

\* While nothing is lost, the queue of intents is what the acknowledgements under
\* way and then the commands under way will answer.
InStep ==
    /\ Len(intents) = Len(acks) + Len(uplink)
    /\ \A i \in 1 .. Len(acks) : intents[i].id = acks[i].id
    /\ \A i \in 1 .. Len(uplink) : intents[Len(acks) + i].id = uplink[i].id

QueueIsRight == count.lost = 0 => InStep /\ AnswersTheRequest

-----------------------------------------------------------------------------
(* The constants. *)

LEMMA ConstantsTyped ==
    /\ SilenceAfter \in Nat \ {0} /\ MaxDelay \in Nat \ {0} /\ PositionMaxAge \in Nat \ {0}
    /\ StreamStale \in Nat \ {0} /\ StreamRetry \in Nat \ {0} /\ MaxEvents \in Nat
    /\ MaxCommands \in Nat /\ MaxLosses \in Nat
    /\ Never \in Nat /\ PositionMaxAge < Never
    /\ SilenceAfter + 1 \in Nat /\ StreamRetry + 1 \in Nat /\ PositionMaxAge + 1 \in Nat
BY LinkAssumption, ArmAssumption DEF Never

LEMMA CappedTyped ==
    ASSUME NEW cap \in Nat, NEW n \in 0 .. cap
    PROVE  /\ Capped(n, cap) \in 0 .. cap /\ Capped(n, cap) <= n + 1
           /\ Capped(n, cap) < cap => Capped(n, cap) = n + 1
BY DEF Capped

\* Taking the head off a sequence.
LEMMA Taken ==
    ASSUME NEW S, NEW s \in Seq(S), s # <<>>
    PROVE  /\ Head(s) \in S /\ Head(s) = s[1] /\ Tail(s) \in Seq(S)
           /\ Len(s) \in Nat \ {0} /\ Len(Tail(s)) = Len(s) - 1
           /\ \A i \in 1 .. Len(s) - 1 : Tail(s)[i] = s[i + 1]
OBVIOUS

LEMMA Added ==
    ASSUME NEW S, NEW s \in Seq(S), NEW e \in S
    PROVE  /\ Append(s, e) \in Seq(S) /\ Len(s) \in Nat
           /\ Len(Append(s, e)) = Len(s) + 1
           /\ Append(s, e)[Len(s) + 1] = e
           /\ \A i \in 1 .. Len(s) : Append(s, e)[i] = s[i]
OBVIOUS

-----------------------------------------------------------------------------
(* Types of the requests. *)

LEMMA ArmTyped ==
    /\ TypeOK <=>
        /\ intents \in Seq(Intent) /\ uplink \in Seq(Command) /\ acks \in Seq(Answer)
        /\ mailbox \in SUBSET Result /\ \A r, s \in mailbox : r = s
        /\ told \in SUBSET Result /\ altitude \in Altitude /\ flying \in BOOLEAN
        /\ count \in [made : Nat, lost : Nat]
    /\ TypeOK' <=>
        /\ intents' \in Seq(Intent) /\ uplink' \in Seq(Command) /\ acks' \in Seq(Answer)
        /\ mailbox' \in SUBSET Result /\ \A r, s \in mailbox' : r = s
        /\ told' \in SUBSET Result /\ altitude' \in Altitude /\ flying' \in BOOLEAN
        /\ count' \in [made : Nat, lost : Nat]
BY DEF TypeOK, Intent

LEMMA DepositTyped ==
    ASSUME NEW r \in Result, Deposit(r)
    PROVE  mailbox' \in SUBSET Result /\ \A q, s \in mailbox' : q = s
BY DEF Deposit

LEMMA MadeTyped ==
    ASSUME TypeOK, count.made < MaxCommands
    PROVE  Asked \in Ids /\ [count EXCEPT !.made = @ + 1] \in [made : Nat, lost : Nat]
<1>1. count \in [made : Nat, lost : Nat]
    BY ArmTyped
<1> QED  BY <1>1, ConstantsTyped DEF Asked, Ids

LEMMA RejectionTyped ==
    ASSUME NEW id \in Ids, NEW wish \in Wish
    PROVE  Rejection(id, wish) \in Result
BY DEF Rejection, Result

LEMMA SendTyped ==
    ASSUME TypeOK, NEW wish \in Wish, SendArmCommand(wish)
    PROVE  TypeOK'
<1>1. Asked \in Ids /\ count' \in [made : Nat, lost : Nat]
    BY MadeTyped DEF SendArmCommand
<1>2. [id |-> Asked, armed |-> wish = "arm"] \in Intent /\ [id |-> Asked, wish |-> wish] \in Command
    BY <1>1 DEF Intent, Command
<1>3. intents' \in Seq(Intent) /\ uplink' \in Seq(Command)
    BY <1>2, ArmTyped, Added DEF SendArmCommand, Queued
<1> QED  BY <1>1, <1>3, ArmTyped DEF SendArmCommand

LEMMA FailTyped ==
    ASSUME TypeOK, NEW wish \in Wish, FailArmCommand(wish)
    PROVE  TypeOK'
<1>1. Asked \in Ids /\ count' \in [made : Nat, lost : Nat]
    BY MadeTyped DEF FailArmCommand
<1>2. Deposit(Rejection(Asked, wish)) /\ Rejection(Asked, wish) \in Result
    BY <1>1, RejectionTyped DEF FailArmCommand
<1> QED  BY <1>1, <1>2, ArmTyped, DepositTyped DEF FailArmCommand, Withdrawn

LEMMA RefuseTyped ==
    ASSUME TypeOK, RefuseForceDisarm
    PROVE  TypeOK'
<1>1. Asked \in Ids /\ count' \in [made : Nat, lost : Nat]
    BY MadeTyped DEF RefuseForceDisarm
<1>2. Deposit(Rejection(Asked, "force")) /\ Rejection(Asked, "force") \in Result
    BY <1>1, RejectionTyped DEF RefuseForceDisarm, Wish
<1> QED  BY <1>1, <1>2, ArmTyped, DepositTyped DEF RefuseForceDisarm

LEMMA TakeTyped ==
    ASSUME TypeOK, TakeAck
    PROVE  TypeOK'
<1>1. acks' \in Seq(Answer) /\ Head(acks) \in Answer
    BY ArmTyped, Taken DEF TakeAck
<1>2. CASE intents = <<>>
    BY <1>1, <1>2, ArmTyped DEF TakeAck
<1>3. CASE intents # <<>>
    <2>1. intents' \in Seq(Intent) /\ Head(intents) \in Intent
        BY <1>3, ArmTyped, Taken DEF TakeAck
    <2>2. [asked |-> Head(intents).id, armed |-> Head(intents).armed,
           answers |-> Head(acks).id, accepted |-> Head(acks).accepted] \in Result
        BY <1>1, <2>1 DEF Intent, Answer, Result
    <2>3. mailbox' \in SUBSET Result /\ \A q, s \in mailbox' : q = s
        BY <1>3, <2>2, DepositTyped DEF TakeAck
    <2> QED  BY <1>1, <2>1, <2>3, ArmTyped DEF TakeAck
<1> QED  BY <1>2, <1>3

LEMMA FcTyped ==
    ASSUME TypeOK, FcReceive
    PROVE  TypeOK'
<1>1. uplink' \in Seq(Command) /\ Head(uplink) \in Command
    BY ArmTyped, Taken DEF FcReceive
<1>2. PICK ok \in Accepts(Head(uplink).wish) :
          acks' = Append(acks, [id |-> Head(uplink).id, accepted |-> ok])
    BY DEF FcReceive
<1>3. ok \in BOOLEAN
    <2>1. Head(uplink).wish \in {"arm", "disarm", "force"}
        BY <1>1 DEF Command, Wish
    <2>2. Accepts(Head(uplink).wish) \in {BOOLEAN, {~flying}, {TRUE}}
        BY <2>1 DEF Accepts
    <2>3. (~flying) \in BOOLEAN
        BY Zenon
    <2> QED  BY <1>2, <2>2, <2>3
<1>4. [id |-> Head(uplink).id, accepted |-> ok] \in Answer
    BY <1>1, <1>3 DEF Command, Answer
<1>5. acks' \in Seq(Answer)
    BY <1>2, <1>4, ArmTyped, Added
<1> QED  BY <1>1, <1>5, ArmTyped DEF FcReceive

LEMMA LoseTyped ==
    ASSUME TypeOK, LosePacket
    PROVE  TypeOK'
<1>1. uplink' \in Seq(Command) /\ acks' \in Seq(Answer)
    <2>1. uplink # <<>> => Tail(uplink) \in Seq(Command)
        BY ArmTyped, Taken
    <2>2. acks # <<>> => Tail(acks) \in Seq(Answer)
        BY ArmTyped, Taken
    <2> QED  BY <2>1, <2>2, ArmTyped DEF LosePacket
<1>2. count' \in [made : Nat, lost : Nat]
    BY ArmTyped DEF LosePacket
<1> QED  BY <1>1, <1>2, ArmTyped DEF LosePacket

LEMMA FrameTyped ==
    ASSUME TypeOK, Frame
    PROVE  TypeOK'
BY ArmTyped DEF Frame, Relayed

-----------------------------------------------------------------------------
(* Types of the link. *)

Conns == [open : BOOLEAN, error : BOOLEAN, silent : 0 .. SilenceAfter + 1,
          delay : 1 .. MaxDelay, wait : 0 .. MaxDelay]

Streams == [requested : BOOLEAN, since : 0 .. StreamRetry + 1, age : 0 .. Never,
            alt : {"low", "high"}]

Worlds == [wire : {"ok", "silent", "gone"}, streams : BOOLEAN, height : {"low", "high"},
           heightFor : 0 .. PositionMaxAge + 1, events : Nat]

LEMMA LinkTyped ==
    /\ LinkTypeOK <=> TypeOK /\ conn \in Conns /\ stream \in Streams /\ world \in Worlds
    /\ LinkTypeOK' <=> TypeOK' /\ conn' \in Conns /\ stream' \in Streams /\ world' \in Worlds
BY DEF LinkTypeOK, Conns, Streams, Worlds

LEMMA ArmUnchanged ==
    ASSUME TypeOK, UNCHANGED <<intents, mailbox, uplink, told, flying>>,
           altitude' \in Altitude, acks' \in {acks, <<>>},
           count' \in [made : Nat, lost : Nat]
    PROVE  TypeOK'
<1>1. <<>> \in Seq(Answer)
    OBVIOUS
<1>2. acks' \in Seq(Answer)
    BY <1>1, ArmTyped
<1> QED  BY <1>2, ArmTyped

LEMMA ConnsMade ==
    ASSUME NEW c \in Conns
    PROVE  /\ Closed(c) \in Conns /\ Opened(c) \in Conns /\ BackedOff(c) \in Conns
           /\ [c EXCEPT !.silent = 0] \in Conns
           /\ \A b \in BOOLEAN : [c EXCEPT !.error = b] \in Conns
<1>1. 1 \in 1 .. MaxDelay /\ 1 \in 0 .. MaxDelay /\ 0 \in 0 .. SilenceAfter + 1
    BY ConstantsTyped
<1>2. Closed(c) \in Conns /\ Opened(c) \in Conns /\ [c EXCEPT !.silent = 0] \in Conns
    BY <1>1 DEF Conns, Closed, Opened
<1>3. \A longer \in 1 .. MaxDelay : [c EXCEPT !.delay = longer, !.wait = longer] \in Conns
    <2> SUFFICES ASSUME NEW longer \in 1 .. MaxDelay
                 PROVE  [c EXCEPT !.delay = longer, !.wait = longer] \in Conns
        OBVIOUS
    <2>1. longer \in 0 .. MaxDelay
        BY ConstantsTyped
    <2> QED  BY <2>1 DEF Conns
<1>4. c.delay \in 1 .. MaxDelay
    BY DEF Conns
<1>5. (IF 2 * c.delay < MaxDelay THEN 2 * c.delay ELSE MaxDelay) \in 1 .. MaxDelay
    BY <1>4, ConstantsTyped
<1>6. BackedOff(c) \in Conns
    BY <1>3, <1>5 DEF BackedOff
<1>7. \A b \in BOOLEAN : [c EXCEPT !.error = b] \in Conns
    BY DEF Conns
<1> QED  BY <1>2, <1>6, <1>7

LEMMA TurnTyped ==
    ASSUME NEW c \in Conns, NextTurn(c)
    PROVE  conn' \in Conns
BY ConnsMade DEF NextTurn

LEMMA FreshTyped ==
    ASSUME NEW s \in Streams
    PROVE  FreshAlt(s) \in Altitude
BY DEF FreshAlt, Streams, Altitude

LEMMA LinkTypeStep ==
    ASSUME LinkTypeOK, [LinkNext]_linkVars
    PROVE  LinkTypeOK'
<1>0. TypeOK /\ conn \in Conns /\ stream \in Streams /\ world \in Worlds
    BY LinkTyped
<1>a. Heard \in Conns /\ altitude \in Altitude /\ count \in [made : Nat, lost : Nat]
    BY <1>0, ConnsMade, ArmTyped DEF Heard
<1>z. 0 \in 0 .. StreamRetry + 1 /\ 0 \in 0 .. Never /\ 0 \in 0 .. PositionMaxAge + 1
    BY ConstantsTyped
<1>b. [world EXCEPT !.events = @ + 1] \in Worlds /\ world.events + 1 \in Nat
    BY <1>0 DEF Worlds
<1>1. CASE ReceiveHeartbeat
    <2>1. TypeOK'
        BY <1>0, <1>1, <1>a, ArmUnchanged DEF ReceiveHeartbeat
    <2>2. CASE RequestDue
        <3>1. stream' \in Streams
            BY <1>0, <1>1, <1>z, <2>2 DEF ReceiveHeartbeat, Streams
        <3>2. CASE world' = [world EXCEPT !.streams = TRUE] /\ NextTurn(Heard)
            <4>1. world' \in Worlds
                BY <1>0, <3>2 DEF Worlds
            <4> QED  BY <1>a, <2>1, <3>1, <3>2, <4>1, TurnTyped, LinkTyped
        <3>3. CASE /\ world' = [world EXCEPT !.events = @ + 1]
                   /\ \E failed \in BOOLEAN : NextTurn([Heard EXCEPT !.error = @ \/ failed])
            <4>1. PICK failed \in BOOLEAN : NextTurn([Heard EXCEPT !.error = Heard.error \/ failed])
                BY <3>3
            <4>2. (Heard.error \/ failed) \in BOOLEAN
                BY Zenon
            <4>3. [Heard EXCEPT !.error = Heard.error \/ failed] \in Conns
                BY <1>a, <4>2, ConnsMade
            <4>4. conn' \in Conns
                BY <4>1, <4>3, TurnTyped
            <4> QED  BY <1>b, <2>1, <3>1, <3>3, <4>4, LinkTyped
        <3> QED  BY <1>1, <2>2, <3>2, <3>3 DEF ReceiveHeartbeat
    <2>3. CASE ~RequestDue
        BY <1>0, <1>1, <1>a, <2>1, <2>3, TurnTyped, LinkTyped DEF ReceiveHeartbeat
    <2> QED  BY <2>2, <2>3
<1>2. CASE ReceiveOther
    BY <1>0, <1>2, <1>a, ArmUnchanged, TurnTyped, LinkTyped DEF ReceiveOther
<1>3. CASE ReceivePosition
    <2>1. stream' \in Streams
        BY <1>0, <1>3, <1>z DEF ReceivePosition, Streams, Worlds
    <2>2. altitude' \in Altitude
        BY <1>3, <2>1, FreshTyped DEF ReceivePosition
    <2>3. TypeOK'
        BY <1>0, <1>3, <1>a, <2>2, ArmUnchanged DEF ReceivePosition
    <2> QED  BY <1>0, <1>3, <1>a, <2>1, <2>3, TurnTyped, LinkTyped DEF ReceivePosition
<1>4. CASE ReceiveAck
    BY <1>0, <1>4, <1>a, TakeTyped, TurnTyped, LinkTyped DEF ReceiveAck
<1>5. CASE ReceiveNothing
    <2>1. conn' \in Conns
        BY <1>0, <1>5, ConnsMade, TurnTyped DEF ReceiveNothing
    <2> QED  BY <1>0, <1>5, <1>a, <2>1, ArmUnchanged, LinkTyped DEF ReceiveNothing
<1>6. CASE ReadFails \/ WriteFails
    <2>1. conn' \in Conns
        BY <1>0, <1>6, ConnsMade DEF ReadFails, WriteFails
    <2> QED  BY <1>0, <1>6, <1>a, <2>1, ArmUnchanged, LinkTyped DEF ReadFails, WriteFails
<1>7. CASE Reconnect
    <2>1. conn' \in Conns
        BY <1>0, <1>7, ConnsMade DEF Reconnect
    <2>2. stream' \in Streams
        BY <1>0, <1>7 DEF Reconnect, Streams
    <2>3. acks' \in {acks, <<>>} /\ count' \in [made : Nat, lost : Nat]
        <3>1. Len(acks) \in Nat
            BY <1>0, ArmTyped
        <3> QED  BY <1>7, <1>a, <3>1 DEF Reconnect
    <2>4. TypeOK'
        BY <1>0, <1>7, <1>a, <2>3, ArmUnchanged DEF Reconnect
    <2> QED  BY <1>0, <1>7, <2>1, <2>2, <2>4, LinkTyped DEF Reconnect
<1>8. ASSUME NEW wish \in Wish, ArmOverLink(wish) PROVE LinkTypeOK'
    <2>1. TypeOK'
        BY <1>0, <1>8, SendTyped, FailTyped, RefuseTyped DEF ArmOverLink
    <2>2. conn' \in Conns
        BY <1>0, <1>8, ConnsMade DEF ArmOverLink
    <2> QED  BY <1>0, <1>8, <2>1, <2>2, LinkTyped DEF ArmOverLink
<1>9. CASE RelayAnswer \/ FcAnswer
    BY <1>0, <1>9, FrameTyped, FcTyped, LinkTyped DEF RelayAnswer, FcAnswer
<1>10. CASE PacketLost
    BY <1>0, <1>10, <1>b, LoseTyped, LinkTyped DEF PacketLost
<1>11. CASE PacketsVanish
    <2>1. Len(uplink) \in Nat /\ Len(acks) \in Nat
        BY <1>0, ArmTyped
    <2>2. count' \in [made : Nat, lost : Nat]
        BY <1>11, <1>a, <2>1 DEF PacketsVanish
    <2>3. <<>> \in Seq(Command) /\ <<>> \in Seq(Answer)
        OBVIOUS
    <2>4. TypeOK'
        BY <1>0, <1>11, <2>2, <2>3, ArmTyped DEF PacketsVanish
    <2> QED  BY <1>0, <1>11, <2>4, LinkTyped DEF PacketsVanish
<1>12. CASE Tick
    <2>1. conn' \in Conns
        <3>1. conn.silent \in 0 .. SilenceAfter + 1 /\ conn.wait \in 0 .. MaxDelay
            BY <1>0 DEF Conns
        <3>2. (IF conn.open THEN Capped(conn.silent, SilenceAfter + 1) ELSE conn.silent)
                  \in 0 .. SilenceAfter + 1
            BY <3>1, CappedTyped, ConstantsTyped
        <3>3. (IF conn.wait > 0 THEN conn.wait - 1 ELSE 0) \in 0 .. MaxDelay
            BY <3>1, ConstantsTyped
        <3>4. conn' = [conn EXCEPT
                          !.silent = IF conn.open THEN Capped(conn.silent, SilenceAfter + 1)
                                     ELSE conn.silent,
                          !.wait = IF conn.wait > 0 THEN conn.wait - 1 ELSE 0]
            BY <1>0, <1>12 DEF Tick, Conns
        <3> QED  BY <1>0, <3>2, <3>3, <3>4 DEF Conns
    <2>2. stream' \in Streams
        <3>1. stream.since \in 0 .. StreamRetry + 1 /\ stream.age \in 0 .. Never
            BY <1>0 DEF Streams
        <3>2. Capped(stream.since, StreamRetry + 1) \in 0 .. StreamRetry + 1
            BY <3>1, CappedTyped, ConstantsTyped
        <3>3. Capped(stream.age, Never) \in 0 .. Never
            BY <3>1, CappedTyped, ConstantsTyped
        <3> QED  BY <1>0, <1>12, <3>2, <3>3 DEF Tick, Streams
    <2>3. world' \in Worlds
        <3>1. world.heightFor \in 0 .. PositionMaxAge + 1
            BY <1>0 DEF Worlds
        <3>2. Capped(world.heightFor, PositionMaxAge + 1) \in 0 .. PositionMaxAge + 1
            BY <3>1, CappedTyped, ConstantsTyped
        <3> QED  BY <1>0, <1>12, <3>2 DEF Tick, Worlds
    <2>4. altitude' \in Altitude
        BY <1>12, <2>2, FreshTyped DEF Tick
    <2>5. TypeOK'
        BY <1>0, <1>12, <1>a, <2>4, ArmUnchanged DEF Tick
    <2> QED  BY <2>1, <2>2, <2>3, <2>5, LinkTyped
<1>13. CASE Break
    <2>1. PICK w \in {"silent", "gone"} : world' = [world EXCEPT !.wire = w, !.events = world.events + 1]
        BY <1>13 DEF Break
    <2>2. world' \in Worlds
        BY <1>0, <1>b, <2>1 DEF Worlds
    <2> QED  BY <1>0, <1>13, <1>a, <2>2, ArmUnchanged, LinkTyped DEF Break
<1>14. CASE Heal
    <2>1. PICK kept \in BOOLEAN : world' = [world EXCEPT !.wire = "ok", !.streams = world.streams /\ kept]
        BY <1>14 DEF Heal
    <2>2. (world.streams /\ kept) \in BOOLEAN
        BY Zenon
    <2>3. world' \in Worlds
        BY <1>0, <2>1, <2>2 DEF Worlds
    <2> QED  BY <1>0, <1>14, <1>a, <2>3, ArmUnchanged, LinkTyped DEF Heal
<1>15. CASE Move
    <2>0. PICK h \in {"low", "high"} :
              world' = [world EXCEPT !.height = h, !.heightFor = 0,
                                     !.events = world.events + 1]
        BY <1>15 DEF Move
    <2>1. world' \in Worlds
        BY <1>0, <1>b, <1>z, <2>0 DEF Worlds
    <2>2. TypeOK'
        BY <1>0, <1>15, ArmTyped DEF Move
    <2> QED  BY <1>0, <1>15, <2>1, <2>2, LinkTyped DEF Move
<1>16. CASE UNCHANGED linkVars
    BY <1>0, <1>16, <1>a, ArmUnchanged, LinkTyped DEF linkVars
<1> QED
    BY <1>1, <1>2, <1>3, <1>4, <1>5, <1>6, <1>7, <1>8, <1>9, <1>10, <1>11, <1>12, <1>13,
       <1>14, <1>15, <1>16
    DEF LinkNext

\* Requests, packets, connection and telemetry are of their types, whatever breaks.
THEOREM TypeCorrect == LinkSpec => []LinkTypeOK
<1>1. LinkInit => LinkTypeOK
    <2> SUFFICES ASSUME LinkInit PROVE LinkTypeOK
        OBVIOUS
    <2>1. TypeOK
        <3>1. <<>> \in Seq(Intent) /\ <<>> \in Seq(Command) /\ <<>> \in Seq(Answer)
            OBVIOUS
        <3> QED  BY <3>1, ArmTyped DEF LinkInit, Init, Altitude
    <2>2. conn \in Conns /\ stream \in Streams /\ world \in Worlds
        BY ConstantsTyped DEF LinkInit, Conns, Streams, Worlds
    <2> QED  BY <2>1, <2>2, LinkTyped
<1> QED  BY <1>1, LinkTypeStep, PTL DEF LinkSpec

-----------------------------------------------------------------------------
(* The altitude. *)

LEMMA DatedStep ==
    ASSUME LinkTypeOK, AltitudeIsStream, PositionIsDated, [LinkNext]_linkVars
    PROVE  AltitudeIsStream' /\ PositionIsDated'
<1>0. stream \in Streams /\ world \in Worlds
    BY LinkTyped
<1>1. ASSUME UNCHANGED <<altitude, stream>>, UNCHANGED <<world.height, world.heightFor>>
      PROVE  AltitudeIsStream' /\ PositionIsDated'
    BY <1>1 DEF AltitudeIsStream, PositionIsDated, FreshAlt
<1>2. ASSUME UNCHANGED altitude, UNCHANGED <<world.height, world.heightFor>>,
             \/ stream' = [stream EXCEPT !.requested = TRUE, !.since = 0]
             \/ stream' = [stream EXCEPT !.requested = FALSE]
      PROVE  AltitudeIsStream' /\ PositionIsDated'
    <2>1. stream'.age = stream.age /\ stream'.alt = stream.alt
        BY <1>0, <1>2 DEF Streams
    <2> QED  BY <1>2, <2>1 DEF AltitudeIsStream, PositionIsDated, FreshAlt
<1>3. CASE ReceiveHeartbeat
    <2>1. UNCHANGED <<world.height, world.heightFor>>
        BY <1>0, <1>3 DEF ReceiveHeartbeat, Worlds
    <2> QED  BY <1>1, <1>2, <1>3, <2>1 DEF ReceiveHeartbeat
<1>4. CASE ReceivePosition
    <2>1. stream'.alt = world'.height
        BY <1>0, <1>4 DEF ReceivePosition, Streams
    <2> QED  BY <1>4, <2>1 DEF ReceivePosition, AltitudeIsStream, PositionIsDated
<1>5. CASE Reconnect
    BY <1>1, <1>2, <1>5 DEF Reconnect
<1>6. CASE ReceiveOther \/ ReceiveNothing \/ ReadFails \/ WriteFails \/ PacketsVanish
    BY <1>1, <1>6 DEF ReceiveOther, ReceiveNothing, ReadFails, WriteFails, PacketsVanish
<1>7. CASE ReceiveAck
    BY <1>1, <1>7 DEF ReceiveAck, TakeAck
<1>8. ASSUME NEW wish \in Wish, ArmOverLink(wish)
      PROVE  AltitudeIsStream' /\ PositionIsDated'
    BY <1>1, <1>8 DEF ArmOverLink, SendArmCommand, FailArmCommand, RefuseForceDisarm
<1>9. CASE RelayAnswer \/ FcAnswer
    BY <1>1, <1>9 DEF RelayAnswer, Frame, FcAnswer, FcReceive
<1>10. CASE PacketLost \/ Break \/ Heal
    <2>1. UNCHANGED <<world.height, world.heightFor>>
        BY <1>0, <1>10 DEF PacketLost, Break, Heal, Worlds
    <2> QED  BY <1>1, <1>10, <2>1 DEF PacketLost, LosePacket, Break, Heal
<1>11. CASE Tick
    <2>1. /\ stream'.age = Capped(stream.age, Never) /\ stream'.alt = stream.alt
          /\ world'.heightFor = Capped(world.heightFor, PositionMaxAge + 1)
          /\ world'.height = world.height
        BY <1>0, <1>11 DEF Tick, Streams, Worlds
    <2>2. stream.age \in 0 .. Never /\ world.heightFor \in 0 .. PositionMaxAge + 1
        BY <1>0 DEF Streams, Worlds
    <2>3. /\ stream'.age < Never => stream'.age = stream.age + 1 /\ stream.age < Never
          /\ world'.heightFor <= world.heightFor + 1
        BY <2>1, <2>2, CappedTyped, ConstantsTyped DEF Capped
    <2>4. world'.heightFor \in Nat /\ stream'.age \in Nat
        BY <2>1, <2>2, ConstantsTyped DEF Capped
    <2>5. PositionIsDated'
        BY <2>1, <2>2, <2>3, <2>4, ConstantsTyped DEF PositionIsDated
    <2>6. AltitudeIsStream'
        BY <1>11 DEF Tick, AltitudeIsStream
    <2> QED  BY <2>5, <2>6
<1>12. CASE Move
    <2>1. /\ world'.heightFor = 0 /\ UNCHANGED <<altitude, stream>>
        BY <1>0, <1>12 DEF Move, Worlds
    <2>2. 0 <= stream.age
        BY <1>0 DEF Streams
    <2> QED  BY <2>1, <2>2 DEF AltitudeIsStream, PositionIsDated, FreshAlt
<1>13. CASE UNCHANGED linkVars
    BY <1>1, <1>13 DEF linkVars
<1> QED
    BY <1>3, <1>4, <1>5, <1>6, <1>7, <1>8, <1>9, <1>10, <1>11, <1>12, <1>13 DEF LinkNext

LEMMA Dated == LinkSpec => [](AltitudeIsStream /\ PositionIsDated)
<1>1. LinkInit => AltitudeIsStream /\ PositionIsDated
    BY ConstantsTyped DEF LinkInit, Init, AltitudeIsStream, PositionIsDated, FreshAlt
<1> QED  BY <1>1, DatedStep, TypeCorrect, PTL DEF LinkSpec

\* A recent altitude is the height of now, or that of a moment not long ago.
LEMMA RecentIs ==
    ASSUME LinkTypeOK, AltitudeIsStream, PositionIsDated, altitude # "unknown"
    PROVE  altitude = world.height \/ world.heightFor <= PositionMaxAge
<1>1. /\ stream.age \in 0 .. Never /\ world.heightFor \in 0 .. PositionMaxAge + 1
    BY LinkTyped DEF Streams, Worlds
<1>2. stream.age <= PositionMaxAge /\ altitude = stream.alt
    BY <1>1, ConstantsTyped DEF AltitudeIsStream, FreshAlt
<1> QED  BY <1>1, <1>2, ConstantsTyped DEF PositionIsDated

\* The altitude everybody reads is at most PositionMaxAge behind the world, with any
\* stream timeouts, also while the stream is dead or the connection down.
THEOREM AltitudeHolds == LinkSpec => []AltitudeIsRecent
<1>1. LinkTypeOK /\ AltitudeIsStream /\ PositionIsDated => AltitudeIsRecent
    BY RecentIs DEF AltitudeIsRecent
<1> QED  BY <1>1, Dated, TypeCorrect, PTL

\* A forced disarm is sent to an aircraft that has been high for longer than that
\* only when no recent position has come.
THEOREM ForceDisarmHolds == LinkSpec => ForceDisarmIsGated
<1>1. ASSUME LinkTypeOK, AltitudeIsStream, PositionIsDated, [LinkNext]_linkVars,
             NEW id \in Ids, uplink' = Append(uplink, [id |-> id, wish |-> "force"])
      PROVE  \/ stream.age > PositionMaxAge
             \/ world.height = "low"
             \/ world.heightFor <= PositionMaxAge
    <2>0. uplink \in Seq(Command) /\ Len(uplink) \in Nat
        BY <1>1, LinkTyped, ArmTyped
    <2>1. Len(uplink') = Len(uplink) + 1 /\ uplink'[Len(uplink')].wish = "force"
        BY <1>1, <2>0
    <2>2. uplink' \notin {uplink, <<>>} /\ (uplink # <<>> => uplink' # Tail(uplink))
        <3>1. Len(uplink') # Len(uplink) /\ Len(uplink') # 0
            BY <2>0, <2>1
        <3>2. uplink # <<>> => Len(Tail(uplink)) = Len(uplink) - 1
            BY <2>0
        <3> QED  BY <2>0, <2>1, <3>1, <3>2
    <2>3. PICK wish \in Wish : ArmOverLink(wish)
        BY <1>1, <2>2
        DEF LinkNext, linkVars, ReceiveHeartbeat, ReceiveOther, ReceivePosition, ReceiveAck,
            TakeAck, ReceiveNothing, ReadFails, Reconnect, WriteFails, RelayAnswer, Frame,
            FcAnswer, FcReceive, PacketLost, LosePacket, PacketsVanish, Tick, Break, Heal, Move
    <2>4. SendArmCommand(wish)
        BY <2>2, <2>3 DEF ArmOverLink, FailArmCommand, RefuseForceDisarm
    <2>5. wish = "force"
        <3>1. uplink'[Len(uplink) + 1].wish = wish
            BY <2>0, <2>4 DEF SendArmCommand
        <3> QED  BY <2>0, <2>1, <3>1
    <2>6. altitude # "high"
        BY <2>4, <2>5 DEF SendArmCommand, TooHigh
    <2>7. CASE altitude = "unknown"
        <3>1. stream.alt \in {"low", "high"} /\ stream.age \in Nat
            BY <1>1, LinkTyped DEF Streams
        <3> QED  BY <1>1, <2>7, <3>1, ConstantsTyped DEF AltitudeIsStream, FreshAlt
    <2>8. CASE altitude # "unknown"
        <3>1. world.height \in {"low", "high"}
            BY <1>1, LinkTyped DEF Worlds
        <3> QED  BY <1>1, <2>6, <2>8, <3>1, RecentIs
    <2> QED  BY <2>7, <2>8
<1>2. LinkTypeOK /\ AltitudeIsStream /\ PositionIsDated /\ [LinkNext]_linkVars =>
        [\A id \in Ids : uplink' = Append(uplink, [id |-> id, wish |-> "force"]) =>
             \/ stream.age > PositionMaxAge
             \/ world.height = "low"
             \/ world.heightFor <= PositionMaxAge]_linkVars
    BY <1>1
<1> QED  BY <1>2, Dated, TypeCorrect, PTL DEF LinkSpec, ForceDisarmIsGated

-----------------------------------------------------------------------------
(* The queue of intents. *)

\* A command written joins the queue and the wire together.
LEMMA SendInStep ==
    ASSUME TypeOK, InStep, NEW wish \in Wish, SendArmCommand(wish)
    PROVE  InStep'
<1>0. /\ intents \in Seq(Intent) /\ uplink \in Seq(Command)
      /\ Len(intents) \in Nat /\ Len(uplink) \in Nat /\ Len(acks) \in Nat
    BY ArmTyped
<1>a. Asked \in Ids
    BY MadeTyped DEF SendArmCommand
<1> DEFINE i == [id |-> Asked, armed |-> wish = "arm"]
           c == [id |-> Asked, wish |-> wish]
<1>1. i \in Intent /\ c \in Command /\ i.id = c.id
    BY <1>a DEF Intent, Command
<1>2. intents' = Append(intents, i) /\ uplink' = Append(uplink, c) /\ acks' = acks
    BY DEF SendArmCommand, Queued
<1> HIDE DEF i, c
<1>3. /\ Len(intents') = Len(intents) + 1 /\ intents'[Len(intents) + 1] = i
      /\ \A n \in 1 .. Len(intents) : intents'[n] = intents[n]
      /\ Len(uplink') = Len(uplink) + 1 /\ uplink'[Len(uplink) + 1] = c
      /\ \A n \in 1 .. Len(uplink) : uplink'[n] = uplink[n]
    BY <1>0, <1>1, <1>2, Added
<1>4. Len(intents') = Len(acks') + Len(uplink')
    BY <1>0, <1>2, <1>3 DEF InStep
<1>5. \A n \in 1 .. Len(acks') : intents'[n].id = acks'[n].id
    BY <1>0, <1>2, <1>3 DEF InStep
<1>6. ASSUME NEW n \in 1 .. Len(uplink')
      PROVE  intents'[Len(acks') + n].id = uplink'[n].id
    <2>1. CASE n \in 1 .. Len(uplink)
        <3>1. Len(acks) + n \in 1 .. Len(intents)
            BY <1>0, <2>1 DEF InStep
        <3> QED  BY <1>2, <1>3, <2>1, <3>1 DEF InStep
    <2>2. CASE n = Len(uplink) + 1
        <3>1. Len(acks) + n = Len(intents) + 1
            BY <1>0, <2>2 DEF InStep
        <3> QED  BY <1>1, <1>2, <1>3, <2>2, <3>1
    <2> QED  BY <1>0, <1>3, <1>6, <2>1, <2>2
<1> QED  BY <1>4, <1>5, <1>6 DEF InStep

\* The flight controller moves the oldest command to the end of the answers.
LEMMA FcInStep ==
    ASSUME TypeOK, InStep, FcReceive
    PROVE  InStep'
<1>0. /\ uplink \in Seq(Command) /\ acks \in Seq(Answer) /\ uplink # <<>>
      /\ Len(intents) \in Nat /\ Len(uplink) \in Nat \ {0} /\ Len(acks) \in Nat
    BY ArmTyped DEF FcReceive
<1>1. PICK ok \in Accepts(Head(uplink).wish) :
          acks' = Append(acks, [id |-> Head(uplink).id, accepted |-> ok])
    BY DEF FcReceive
<1>2. acks' \in Seq(Answer) /\ intents' = intents
    BY FcTyped, ArmTyped DEF FcReceive
<1> DEFINE a == [id |-> Head(uplink).id, accepted |-> ok]
<1>3. a.id = uplink[1].id
    BY <1>0, Taken
<1> HIDE DEF a
<1>4. acks' = Append(acks, a)
    BY <1>1 DEF a
<1>5. /\ Len(acks') = Len(acks) + 1 /\ acks'[Len(acks) + 1] = a
      /\ \A n \in 1 .. Len(acks) : acks'[n] = acks[n]
    BY <1>0, <1>4
<1>6. /\ Len(uplink') = Len(uplink) - 1
      /\ \A n \in 1 .. Len(uplink) - 1 : uplink'[n] = uplink[n + 1]
    BY <1>0, Taken DEF FcReceive
<1>7. Len(intents') = Len(acks') + Len(uplink')
    <2>1. Len(intents') = Len(acks) + Len(uplink)
        BY <1>2 DEF InStep
    <2> QED  BY <1>0, <1>5, <1>6, <2>1
<1>8. ASSUME NEW n \in 1 .. Len(acks') PROVE intents'[n].id = acks'[n].id
    <2>1. CASE n \in 1 .. Len(acks)
        BY <1>2, <1>5, <2>1 DEF InStep
    <2>2. CASE n = Len(acks) + 1
        <3>1. intents[Len(acks) + 1].id = uplink[1].id
            BY <1>0 DEF InStep
        <3> QED  BY <1>2, <1>3, <1>5, <2>2, <3>1
    <2> QED  BY <1>0, <1>5, <1>8, <2>1, <2>2
<1>9. ASSUME NEW n \in 1 .. Len(uplink')
      PROVE  intents'[Len(acks') + n].id = uplink'[n].id
    <2>1. n + 1 \in 1 .. Len(uplink) /\ Len(acks') + n = Len(acks) + (n + 1)
        BY <1>0, <1>5, <1>6, <1>9
    <2>2. intents[Len(acks) + (n + 1)].id = uplink[n + 1].id
        BY <2>1 DEF InStep
    <2>3. uplink'[n] = uplink[n + 1]
        BY <1>0, <1>6, <1>9
    <2> QED  BY <1>2, <2>1, <2>2, <2>3
<1> QED  BY <1>7, <1>8, <1>9 DEF InStep

\* An acknowledgement and the intent it answers leave together.
LEMMA TakeInStep ==
    ASSUME TypeOK, InStep, AnswersTheRequest, TakeAck
    PROVE  InStep' /\ AnswersTheRequest'
<1>0. /\ intents \in Seq(Intent) /\ acks \in Seq(Answer) /\ acks # <<>>
      /\ Len(intents) \in Nat /\ Len(uplink) \in Nat /\ Len(acks) \in Nat \ {0}
    BY ArmTyped DEF TakeAck
<1>1. Len(intents) \in Nat \ {0} /\ intents # <<>>
    BY <1>0 DEF InStep
<1>2. /\ Len(intents') = Len(intents) - 1 /\ Len(acks') = Len(acks) - 1
      /\ \A n \in 1 .. Len(intents) - 1 : intents'[n] = intents[n + 1]
      /\ \A n \in 1 .. Len(acks) - 1 : acks'[n] = acks[n + 1]
      /\ Head(intents) = intents[1] /\ Head(acks) = acks[1] /\ uplink' = uplink
    BY <1>0, <1>1, Taken DEF TakeAck
<1>3. Len(intents') = Len(acks') + Len(uplink')
    BY <1>0, <1>1, <1>2 DEF InStep
<1>4. ASSUME NEW n \in 1 .. Len(acks') PROVE intents'[n].id = acks'[n].id
    <2>1. n \in 1 .. Len(acks) - 1 /\ n \in 1 .. Len(intents) - 1 /\ n + 1 \in 1 .. Len(acks)
        BY <1>0, <1>1, <1>2, <1>4 DEF InStep
    <2>2. intents[n + 1].id = acks[n + 1].id
        BY <2>1 DEF InStep
    <2> QED  BY <1>2, <2>1, <2>2
<1>5. ASSUME NEW n \in 1 .. Len(uplink')
      PROVE  intents'[Len(acks') + n].id = uplink'[n].id
    <2>1. Len(acks') + n \in 1 .. Len(intents) - 1 /\ (Len(acks') + n) + 1 = Len(acks) + n
        BY <1>0, <1>1, <1>2, <1>5 DEF InStep
    <2>2. intents[Len(acks) + n].id = uplink[n].id
        BY <1>2, <1>5 DEF InStep
    <2> QED  BY <1>2, <2>1, <2>2
<1>6. \A r \in mailbox' : r.asked = r.answers
    <2>1. intents[1].id = acks[1].id
        BY <1>0 DEF InStep
    <2>2. mailbox' = {[asked |-> Head(intents).id, armed |-> Head(intents).armed,
                       answers |-> Head(acks).id, accepted |-> Head(acks).accepted]}
        BY <1>1 DEF TakeAck, Deposit
    <2>3. Head(intents).id = Head(acks).id
        BY <1>2, <2>1
    <2> QED  BY <2>2, <2>3
<1>7. told' = told
    BY DEF TakeAck
<1> QED  BY <1>3, <1>4, <1>5, <1>6, <1>7 DEF InStep, AnswersTheRequest

\* A request that is refused is answered in its own name.
LEMMA RejectedInItsName ==
    ASSUME InStep, AnswersTheRequest, UNCHANGED <<intents, uplink, acks, told>>,
           NEW id, NEW wish, Deposit(Rejection(id, wish))
    PROVE  InStep' /\ AnswersTheRequest'
BY DEF InStep, AnswersTheRequest, Deposit, Rejection

LEMMA QueueStep ==
    ASSUME LinkTypeOK, QueueIsRight, [LinkNext]_linkVars
    PROVE  QueueIsRight'
<1>0. /\ TypeOK /\ count \in [made : Nat, lost : Nat]
      /\ Len(acks) \in Nat /\ Len(uplink) \in Nat
      /\ acks \in Seq(Answer) /\ uplink \in Seq(Command)
    BY LinkTyped, ArmTyped
<1>1. ASSUME UNCHANGED <<intents, uplink, acks, mailbox, told>>, count'.lost = count.lost
      PROVE  QueueIsRight'
    BY <1>1 DEF QueueIsRight, InStep, AnswersTheRequest
<1>2. CASE ReceiveHeartbeat \/ ReceiveOther \/ ReceivePosition \/ ReceiveNothing \/ ReadFails
             \/ WriteFails \/ Tick \/ Break \/ Heal \/ Move \/ UNCHANGED linkVars
    BY <1>1, <1>2
    DEF ReceiveHeartbeat, ReceiveOther, ReceivePosition, ReceiveNothing, ReadFails, WriteFails,
        Tick, Break, Heal, Move, linkVars
<1>3. CASE ReceiveAck
    BY <1>0, <1>3, TakeInStep DEF ReceiveAck, TakeAck, QueueIsRight
<1>4. CASE Reconnect
    <2>1. CASE UNCHANGED <<acks, count>>
        BY <1>1, <1>4, <2>1 DEF Reconnect
    <2>2. CASE acks' = <<>> /\ count' = [count EXCEPT !.lost = @ + Len(acks)]
        <3>1. count'.lost = count.lost + Len(acks)
            BY <1>0, <2>2
        <3>2. CASE Len(acks) = 0
            <4>1. acks = <<>>
                BY <1>0, <3>2
            <4> QED  BY <1>0, <1>1, <1>4, <2>2, <3>1, <4>1 DEF Reconnect
        <3>3. CASE Len(acks) # 0
            BY <1>0, <3>1, <3>3 DEF QueueIsRight
        <3> QED  BY <3>2, <3>3
    <2> QED  BY <1>4, <2>1, <2>2 DEF Reconnect
<1>5. ASSUME NEW wish \in Wish, ArmOverLink(wish) PROVE QueueIsRight'
    <2>1. CASE SendArmCommand(wish)
        <3>1. count'.lost = count.lost /\ UNCHANGED <<mailbox, told>>
            BY <1>0, <2>1 DEF SendArmCommand
        <3> QED  BY <1>0, <2>1, <3>1, SendInStep DEF QueueIsRight, AnswersTheRequest
    <2>2. CASE FailArmCommand(wish) \/ RefuseForceDisarm
        <3>1. count'.lost = count.lost
            BY <1>0, <2>2 DEF FailArmCommand, RefuseForceDisarm
        <3>2. UNCHANGED <<intents, uplink, acks, told>>
            BY <2>2 DEF FailArmCommand, RefuseForceDisarm, Withdrawn
        <3>3. Deposit(Rejection(Asked, wish)) \/ Deposit(Rejection(Asked, "force"))
            BY <2>2 DEF FailArmCommand, RefuseForceDisarm
        <3> QED  BY <3>1, <3>2, <3>3, RejectedInItsName DEF QueueIsRight
    <2> QED  BY <1>5, <2>1, <2>2 DEF ArmOverLink
<1>6. CASE RelayAnswer
    BY <1>6 DEF RelayAnswer, Frame, Relayed, QueueIsRight, InStep, AnswersTheRequest
<1>7. CASE FcAnswer
    BY <1>0, <1>7, FcInStep DEF FcAnswer, FcReceive, QueueIsRight, AnswersTheRequest
<1>8. CASE PacketLost
    BY <1>0, <1>8 DEF PacketLost, LosePacket, QueueIsRight
<1>9. CASE PacketsVanish
    <2>1. Len(uplink) + Len(acks) > 0
        BY <1>0, <1>9 DEF PacketsVanish
    <2>2. count'.lost = count.lost + Len(uplink) + Len(acks)
        BY <1>0, <1>9 DEF PacketsVanish
    <2> QED  BY <1>0, <2>1, <2>2 DEF QueueIsRight
<1> QED
    BY <1>2, <1>3, <1>4, <1>5, <1>6, <1>7, <1>8, <1>9 DEF LinkNext

\* However many requests follow each other, however often writes fail and the
\* connection breaks: while no packet is lost the app is told the answer of each
\* request in that request's name.
THEOREM AnswersHold == LinkSpec => []AnswersUnlessLost
<1>1. LinkInit => QueueIsRight
    BY DEF LinkInit, Init, QueueIsRight, InStep, AnswersTheRequest
<1>2. QueueIsRight => AnswersUnlessLost
    BY DEF QueueIsRight, AnswersUnlessLost
<1> QED  BY <1>1, <1>2, QueueStep, TypeCorrect, PTL DEF LinkSpec
==============================================================================
