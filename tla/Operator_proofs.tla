--------------------------- MODULE Operator_proofs ---------------------------
(***************************************************************************)
(* The operator's link and the mode that is commanded over it.              *)
(*                                                                         *)
(* OperatorLink, for any number of sockets and any queue: its types, that    *)
(* the app makes no automatic attempt the operator did not wish, and that    *)
(* unless threads meet in them startHeartbeat and stopHeartbeat keep the one *)
(* heartbeat on its open socket.  The last is not inductive: Alone says what *)
(* a thread that is the only one inside has left of the heartbeat, and       *)
(* FreeIsNew that a name which is free was not given to a listener yet.      *)
(*                                                                         *)
(* OperatorMode, for any number of commands under way: its types, and that   *)
(* the Pi flies what was tapped last.  That is a promise about an empty      *)
(* uplink; NothingStale says what each command still under way owes to it.   *)
(***************************************************************************)
EXTENDS OperatorLink, OperatorMode, TLAPS

FreeIsNew == \A s \in Sockets : wire[s].at = "free" => wire[s].listener = "new"

\* While no two threads have met: there is one inside at most, it has silenced the
\* app, and a heartbeat that runs is the one of the field and of an open socket.
Alone ==
    ~met =>
        /\ \A r, s \in Sockets : Inside(r) /\ Inside(s) => r = s
        /\ app.leaving = "cancelled" => \A s \in Sockets : ~Inside(s)
        /\ SomeoneInside => running = {}
        /\ \A s \in running : app.heartbeat = s /\ wire[s].listener = "open"

IInv == GroundTypeOK /\ FreeIsNew /\ DisconnectIsFinal /\ Alone

Listening == {"new", "opening", "cancelled", "cleared", "open", "failing", "failed", "over"}

Sides == [at : {"free", "dialing", "refused", "up", "lost"}, listener : Listening]

Apps == [state : States, seen : States, delaying : BOOLEAN, auto : BOOLEAN,
         socket : Sockets \cup {NoSocket}, heartbeat : Sockets \cup {NoSocket},
         leaving : {"no", "cancelled", "cleared"}]

Channels == [known : BOOLEAN, reads : BOOLEAN, writes : BOOLEAN, queue : 0 .. QueueMax]

-----------------------------------------------------------------------------
(* OperatorLink: the ends of a socket, and the heartbeat. *)

LEMMA GroundTyped ==
    /\ GroundTypeOK <=> /\ app \in Apps /\ wire \in [Sockets -> Sides] /\ running \subseteq Sockets
                        /\ clients \in [Sockets -> Channels] /\ silent \in BOOLEAN
                        /\ wanted \in BOOLEAN /\ met \in BOOLEAN
    /\ GroundTypeOK' <=> /\ app' \in Apps /\ wire' \in [Sockets -> Sides]
                         /\ running' \subseteq Sockets
                         /\ clients' \in [Sockets -> Channels] /\ silent' \in BOOLEAN
                         /\ wanted' \in BOOLEAN /\ met' \in BOOLEAN
BY DEF GroundTypeOK, Apps, Sides, Listening, Channels

LEMMA EndedKeeps ==
    ASSUME IInv, NEW s \in Sockets
    PROVE  /\ Ended(s) \in [Sockets -> Sides]
           /\ \A r \in Sockets : Ended(s)[r].listener = wire[r].listener
           /\ \A r \in Sockets : Ended(s)[r].at = "free" => wire[r].at = "free"
<1>1. wire \in [Sockets -> Sides]
    BY GroundTyped DEF IInv
<1>2. ASSUME NEW r \in Sockets
      PROVE  /\ Ended(s)[r] \in Sides
             /\ Ended(s)[r].listener = wire[r].listener
             /\ Ended(s)[r].at = "free" => wire[r].at = "free"
    <2>1. CASE r = s  BY <1>1, <2>1 DEF Ended, Sides
    <2>2. CASE r # s  BY <1>1, <2>2 DEF Ended
    <2> QED  BY <2>1, <2>2
<1> QED  BY <1>1, <1>2 DEF Ended

LEMMA ClosedKeeps ==
    ASSUME IInv, NEW s \in Sockets
    PROVE  /\ Closed(s) \in [Sockets -> Sides]
           /\ \A r \in Sockets : Closed(s)[r].listener = wire[r].listener
           /\ \A r \in Sockets : Closed(s)[r].at = "free" => wire[r].at = "free"
<1>1. wire \in [Sockets -> Sides]
    BY GroundTyped DEF IInv
<1>2. ASSUME NEW r \in Sockets
      PROVE  /\ Closed(s)[r] \in Sides
             /\ Closed(s)[r].listener = wire[r].listener
             /\ Closed(s)[r].at = "free" => wire[r].at = "free"
    <2>1. CASE r = s  BY <1>1, <2>1 DEF Closed, Sides
    <2>2. CASE r # s  BY <1>1, <2>2 DEF Closed
    <2> QED  BY <2>1, <2>2
<1> QED  BY <1>1, <1>2 DEF Closed

\* The heartbeat does not mind a step that brings no thread in or out and opens or
\* ends no socket.
LEMMA Unmoved ==
    ASSUME Alone, UNCHANGED <<running, met, app.heartbeat, app.leaving>>,
           \A r \in Sockets : Inside(r)' <=> Inside(r),
           \A r \in Sockets : wire[r].listener = "open" => wire'[r].listener = "open",
           running \subseteq Sockets
    PROVE  Alone'
BY DEF Alone, SomeoneInside

\* A thread that comes in alone silences the app.
LEMMA CancelStep ==
    ASSUME IInv, Cancel
    PROVE  /\ running' \subseteq Sockets /\ met' \in BOOLEAN
           /\ ~met' => ~SomeoneInside /\ running' = {}
<1>1. met \in BOOLEAN /\ running \subseteq Sockets /\ Alone
    BY GroundTyped DEF IInv
<1>2. met' = (SomeoneInside \/ (met /\ Cancelled # {})) /\ running' = Cancelled
    BY DEF Cancel
<1>3. ~met => Cancelled = {}
    BY <1>1 DEF Alone, Cancelled
<1>4. SomeoneInside \in BOOLEAN
    BY DEF SomeoneInside
<1>5. met' \in BOOLEAN /\ (~met' => ~SomeoneInside /\ Cancelled = {})
    <2> DEFINE busy == SomeoneInside
               gone == Cancelled = {}
    <2>1. met' = (busy \/ (met /\ ~gone)) /\ (~met => gone) /\ busy \in BOOLEAN
        BY <1>2, <1>3, <1>4
    <2> HIDE DEF busy, gone
    <2>2. met' \in BOOLEAN /\ (~met' => ~busy /\ gone)
        BY <1>1, <2>1
    <2> USE DEF busy, gone
    <2> QED  BY <2>2
<1> QED  BY <1>1, <1>2, <1>5 DEF Cancelled

\* A step that ends sockets, or frees none, and leaves the app alone.
LEMMA WireStep ==
    ASSUME IInv, UNCHANGED <<app, running, wanted, met>>, wire' \in [Sockets -> Sides],
           clients' \in [Sockets -> Channels], silent' \in BOOLEAN,
           \A r \in Sockets : wire'[r].listener = wire[r].listener,
           \A r \in Sockets : wire'[r].at = "free" => wire[r].at = "free"
    PROVE  IInv'
<1>1. GroundTypeOK /\ FreeIsNew /\ DisconnectIsFinal /\ Alone
    BY DEF IInv
<1>2. GroundTypeOK'
    BY <1>1, GroundTyped
<1>3. FreeIsNew' /\ DisconnectIsFinal'
    BY <1>1 DEF FreeIsNew, DisconnectIsFinal
<1>4. Alone'
    BY <1>1, GroundTyped, Unmoved DEF Inside
<1> QED  BY <1>2, <1>3, <1>4 DEF IInv

-----------------------------------------------------------------------------
(* The app. *)

LEMMA DialStep ==
    ASSUME IInv, NEW s \in Sockets, wire[s].at = "free",
           wire' = [wire EXCEPT ![s] = [at |-> "dialing", listener |-> "new"]],
           app' \in Apps, app'.heartbeat = app.heartbeat, app'.leaving = app.leaving,
           app'.auto => wanted', wanted' \in BOOLEAN,
           UNCHANGED <<running, clients, silent, met>>
    PROVE  IInv'
<1>1. GroundTypeOK /\ FreeIsNew /\ Alone /\ wire \in [Sockets -> Sides]
    BY GroundTyped DEF IInv
<1>2. [at |-> "dialing", listener |-> "new"] \in Sides
    BY DEF Sides, Listening
<1>3. GroundTypeOK'
    BY <1>1, <1>2, GroundTyped
<1>4. FreeIsNew'
    BY <1>1 DEF FreeIsNew
<1>5. \A r \in Sockets : wire'[r].listener = wire[r].listener
    BY <1>1 DEF FreeIsNew
<1>6. Alone'
    BY <1>1, <1>5, GroundTyped, Unmoved DEF Inside
<1> QED  BY <1>3, <1>4, <1>6 DEF IInv, DisconnectIsFinal

LEMMA MainThread ==
    ASSUME IInv,
           \/ TapDisconnect \/ Leave \/ Collect
           \/ \E s \in Sockets : TapConnect(s) \/ Reconnect(s)
    PROVE  IInv'
<1> USE LinkConstants
<1>0. /\ GroundTypeOK /\ FreeIsNew /\ DisconnectIsFinal /\ Alone
      /\ app \in Apps /\ wire \in [Sockets -> Sides] /\ running \subseteq Sockets
    BY GroundTyped DEF IInv
<1>1. CASE TapDisconnect
    <2>1. /\ app' = [app EXCEPT !.auto = FALSE, !.leaving = "cancelled"] /\ Cancel
          /\ wire' = wire /\ wanted' = FALSE /\ UNCHANGED <<clients, silent>>
        BY <1>1 DEF TapDisconnect
    <2>2. app' \in Apps /\ ~app'.auto /\ app'.leaving = "cancelled"
        BY <1>0, <2>1 DEF Apps
    <2>3. GroundTypeOK'
        BY <1>0, <2>1, <2>2, CancelStep, GroundTyped
    <2>4. Alone'
        <3>1. ~met' => running' = {} /\ \A s \in Sockets : ~Inside(s)
            BY <2>1, CancelStep DEF SomeoneInside
        <3> QED  BY <2>1, <3>1 DEF Alone, Inside
    <2> QED  BY <1>0, <2>1, <2>2, <2>3, <2>4 DEF IInv, FreeIsNew, DisconnectIsFinal
<1>2. CASE DropHeartbeat
    <2>1. /\ app' = [app EXCEPT !.heartbeat = NoSocket, !.leaving = "cleared"]
          /\ app.leaving = "cancelled"
          /\ UNCHANGED <<wire, running, clients, silent, wanted, met>>
        BY <1>2 DEF DropHeartbeat
    <2>2. app' \in Apps /\ app'.auto = app.auto /\ app'.leaving = "cleared"
        BY <1>0, <2>1 DEF Apps
    <2>3. GroundTypeOK'
        BY <1>0, <2>1, <2>2, GroundTyped
    <2>4. Alone'
        <3>1. ~met => running = {}
            BY <1>0, <2>1 DEF Alone, SomeoneInside
        <3> QED  BY <1>0, <2>1, <2>2, <3>1 DEF Alone, Inside, SomeoneInside
    <2> QED  BY <1>0, <2>1, <2>2, <2>3, <2>4 DEF IInv, FreeIsNew, DisconnectIsFinal
<1>3. CASE CloseSocket
    <2>1. /\ app' = [app EXCEPT !.state = "DISCONNECTED", !.socket = NoSocket, !.leaving = "no"]
          /\ app.leaving = "cleared"
          /\ wire' = IF app.socket = NoSocket THEN wire ELSE Ended(app.socket)
          /\ UNCHANGED <<running, clients, silent, wanted, met>>
        BY <1>3 DEF CloseSocket
    <2>2. /\ app' \in Apps /\ app'.auto = app.auto /\ app'.leaving = "no"
          /\ app'.heartbeat = app.heartbeat
        BY <1>0, <2>1 DEF Apps, States
    <2>3. /\ wire' \in [Sockets -> Sides]
          /\ \A r \in Sockets : wire'[r].listener = wire[r].listener
          /\ \A r \in Sockets : wire'[r].at = "free" => wire[r].at = "free"
        <3>1. CASE app.socket = NoSocket
            BY <1>0, <2>1, <3>1
        <3>2. CASE app.socket # NoSocket
            <4>1. app.socket \in Sockets
                BY <1>0, <3>2 DEF Apps
            <4> QED  BY <2>1, <3>2, <4>1, EndedKeeps
        <3> QED  BY <3>1, <3>2
    <2>4. GroundTypeOK'
        BY <1>0, <2>1, <2>2, <2>3, GroundTyped
    <2>5. Alone'
        BY <1>0, <2>1, <2>2, <2>3 DEF Alone, Inside, SomeoneInside
    <2> QED  BY <1>0, <2>1, <2>2, <2>3, <2>4, <2>5 DEF IInv, FreeIsNew, DisconnectIsFinal
<1>4. CASE Collect
    <2>1. /\ app' = [app EXCEPT !.seen = app.state,
                                !.delaying = app.state = "DISCONNECTED" /\ app.auto]
          /\ UNCHANGED <<wire, running, clients, silent, wanted, met>>
        BY <1>4 DEF Collect
    <2>2. /\ app' \in Apps /\ app'.auto = app.auto /\ app'.leaving = app.leaving
          /\ app'.heartbeat = app.heartbeat
        <3> DEFINE waits == app.state = "DISCONNECTED" /\ app.auto
        <3>1. waits \in BOOLEAN /\ app' = [app EXCEPT !.seen = app.state, !.delaying = waits]
            BY <2>1
        <3> HIDE DEF waits
        <3> QED  BY <1>0, <3>1 DEF Apps
    <2>3. GroundTypeOK'
        BY <1>0, <2>1, <2>2, GroundTyped
    <2>4. Alone'
        BY <1>0, <2>1, <2>2, Unmoved DEF Inside
    <2> QED  BY <1>0, <2>1, <2>2, <2>3, <2>4 DEF IInv, FreeIsNew, DisconnectIsFinal
<1>5. ASSUME NEW s \in Sockets, TapConnect(s) PROVE IInv'
    <2>1. app' \in Apps /\ app'.heartbeat = app.heartbeat /\ app'.leaving = app.leaving
        BY <1>0, <1>5 DEF TapConnect, Apps, States
    <2> QED  BY <1>5, <2>1, DialStep DEF TapConnect
<1>6. ASSUME NEW s \in Sockets, Reconnect(s) PROVE IInv'
    <2>1. CASE Retries
        <3>1. Dial(s) /\ wanted
            BY <1>0, <1>6, <2>1 DEF Reconnect, Retries, DisconnectIsFinal
        <3>2. app' \in Apps /\ app'.heartbeat = app.heartbeat /\ app'.leaving = app.leaving
            BY <1>0, <3>1 DEF Dial, Apps, States
        <3>3. wanted' = wanted /\ wanted \in BOOLEAN
            BY <1>0, <1>6, GroundTyped DEF Reconnect
        <3>4. (app'.auto => wanted') /\ wanted' \in BOOLEAN
            BY <3>1, <3>3
        <3>5. /\ wire[s].at = "free"
              /\ wire' = [wire EXCEPT ![s] = [at |-> "dialing", listener |-> "new"]]
              /\ UNCHANGED <<running, clients, silent, met>>
            BY <1>6, <3>1 DEF Reconnect, Dial
        <3> QED  BY <3>2, <3>4, <3>5, DialStep
    <2>2. CASE ~Retries
        <3>1. /\ app' = [app EXCEPT !.delaying = FALSE]
              /\ UNCHANGED <<wire, running, clients, silent, wanted, met>>
            BY <1>6, <2>2 DEF Reconnect
        <3>2. /\ app' \in Apps /\ app'.auto = app.auto /\ app'.leaving = app.leaving
              /\ app'.heartbeat = app.heartbeat
            BY <1>0, <3>1 DEF Apps
        <3>3. GroundTypeOK'
            BY <1>0, <3>1, <3>2, GroundTyped
        <3>4. Alone'
            BY <1>0, <3>1, <3>2, Unmoved DEF Inside
        <3> QED  BY <1>0, <3>1, <3>2, <3>3, <3>4 DEF IInv, FreeIsNew, DisconnectIsFinal
    <2> QED  BY <2>1, <2>2
<1> QED  BY <1>1, <1>2, <1>3, <1>4, <1>5, <1>6 DEF Leave

\* A listener moves on.
LEMMA HearsStep ==
    ASSUME IInv, NEW s \in Sockets, NEW from \in Listening, NEW to \in Listening,
           from # "new" \/ wire[s].at # "free", Hears(s, from, to)
    PROVE  /\ wire' \in [Sockets -> Sides]
           /\ wire[s].listener = from /\ wire'[s].listener = to
           /\ \A r \in Sockets \ {s} : wire'[r] = wire[r]
           /\ FreeIsNew' /\ UNCHANGED <<clients, silent, wanted>>
<1>1. wire \in [Sockets -> Sides] /\ FreeIsNew
    BY GroundTyped DEF IInv
<1>2. /\ wire[s].listener = from /\ wire' = [wire EXCEPT ![s].listener = to]
      /\ UNCHANGED <<clients, silent, wanted>>
    BY DEF Hears
<1>3. /\ wire' \in [Sockets -> Sides]
      /\ wire'[s].listener = to /\ wire'[s].at = wire[s].at
      /\ \A r \in Sockets \ {s} : wire'[r] = wire[r]
    BY <1>1, <1>2 DEF Sides
<1>4. wire[s].at # "free"
    BY <1>1, <1>2 DEF FreeIsNew
<1> QED  BY <1>1, <1>2, <1>3, <1>4 DEF FreeIsNew

LEMMA Callbacks ==
    ASSUME IInv, NEW s \in Sockets, Listener(s) \/ Forget(s)
    PROVE  IInv'
<1> USE LinkConstants
<1>0. /\ GroundTypeOK /\ FreeIsNew /\ DisconnectIsFinal /\ Alone
      /\ app \in Apps /\ wire \in [Sockets -> Sides] /\ running \subseteq Sockets
    BY GroundTyped DEF IInv
<1>1. CASE OnOpen(s)
    <2>1. /\ Hears(s, "new", "opening") /\ wire[s].at # "free"
          /\ app' = [app EXCEPT !.state = "LINKED"] /\ UNCHANGED <<running, met>>
        BY <1>1 DEF OnOpen
    <2>2. /\ app' \in Apps /\ app'.auto = app.auto /\ app'.leaving = app.leaving
          /\ app'.heartbeat = app.heartbeat
        BY <1>0, <2>1 DEF Apps, States
    <2>3. /\ wire' \in [Sockets -> Sides]
          /\ wire[s].listener = "new" /\ wire'[s].listener = "opening"
          /\ \A r \in Sockets \ {s} : wire'[r] = wire[r]
          /\ FreeIsNew' /\ UNCHANGED <<clients, silent, wanted>>
        BY <2>1, HearsStep DEF Listening
    <2>4. GroundTypeOK'
        BY <1>0, <2>1, <2>2, <2>3, GroundTyped
    <2>5. Alone'
        BY <1>0, <2>1, <2>2, <2>3, Unmoved DEF Inside
    <2> QED  BY <1>0, <2>2, <2>3, <2>4, <2>5 DEF IInv, DisconnectIsFinal
<1>2. CASE CancelOther(s)
    <2>1. Hears(s, "opening", "cancelled") /\ Cancel /\ app' = app
        BY <1>2 DEF CancelOther
    <2>2. /\ wire' \in [Sockets -> Sides] /\ wire'[s].listener = "cancelled"
          /\ \A r \in Sockets \ {s} : wire'[r] = wire[r]
          /\ FreeIsNew' /\ UNCHANGED <<clients, silent, wanted>>
        BY <2>1, HearsStep DEF Listening
    <2>3. GroundTypeOK'
        BY <1>0, <2>1, <2>2, CancelStep, GroundTyped
    <2>4. Alone'
        BY <2>1, <2>2, CancelStep DEF Alone, Inside, SomeoneInside
    <2> QED  BY <1>0, <2>1, <2>2, <2>3, <2>4 DEF IInv, DisconnectIsFinal
<1>3. CASE ForgetOther(s)
    <2>1. /\ Hears(s, "cancelled", "cleared") /\ UNCHANGED <<running, met>>
          /\ app' = [app EXCEPT !.heartbeat = NoSocket]
        BY <1>3 DEF ForgetOther
    <2>2. app' \in Apps /\ app'.auto = app.auto /\ app'.leaving = app.leaving
        BY <1>0, <2>1 DEF Apps
    <2>3. /\ wire' \in [Sockets -> Sides]
          /\ wire[s].listener = "cancelled" /\ wire'[s].listener = "cleared"
          /\ \A r \in Sockets \ {s} : wire'[r] = wire[r]
          /\ FreeIsNew' /\ UNCHANGED <<clients, silent, wanted>>
        BY <2>1, HearsStep DEF Listening
    <2>4. GroundTypeOK'
        BY <1>0, <2>1, <2>2, <2>3, GroundTyped
    <2>5. Alone'
        <3>1. \A r \in Sockets : Inside(r)' <=> Inside(r)
            BY <2>3 DEF Inside
        <3>2. ~met => running = {}
            BY <1>0, <2>3 DEF Alone, SomeoneInside, Inside
        <3> QED  BY <1>0, <2>1, <2>2, <3>1, <3>2 DEF Alone, SomeoneInside
    <2> QED  BY <1>0, <2>2, <2>3, <2>4, <2>5 DEF IInv, DisconnectIsFinal
<1>4. CASE Beat(s)
    <2>1. /\ Hears(s, "cleared", "open") /\ running' = running \cup {s}
          /\ app' = [app EXCEPT !.heartbeat = s] /\ met' = met
        BY <1>4 DEF Beat
    <2>2. /\ app' \in Apps /\ app'.auto = app.auto /\ app'.leaving = app.leaving
          /\ app'.heartbeat = s
        BY <1>0, <2>1 DEF Apps
    <2>3. /\ wire' \in [Sockets -> Sides]
          /\ wire[s].listener = "cleared" /\ wire'[s].listener = "open"
          /\ \A r \in Sockets \ {s} : wire'[r] = wire[r]
          /\ FreeIsNew' /\ UNCHANGED <<clients, silent, wanted>>
        BY <2>1, HearsStep DEF Listening
    <2>4. GroundTypeOK'
        BY <1>0, <2>1, <2>2, <2>3, GroundTyped
    <2>5. Alone'
        <3>1. ~met => running = {} /\ app.leaving # "cancelled"
                      /\ \A r \in Sockets \ {s} : ~Inside(r)
            BY <1>0, <2>3 DEF Alone, SomeoneInside, Inside
        <3>2. ~met => \A r \in Sockets : ~Inside(r)'
            BY <2>3, <3>1 DEF Inside
        <3> QED  BY <2>1, <2>2, <2>3, <3>1, <3>2 DEF Alone, SomeoneInside
    <2> QED  BY <1>0, <2>2, <2>3, <2>4, <2>5 DEF IInv, DisconnectIsFinal
<1>5. CASE OnEnd(s)
    <2> DEFINE ended == Ended(s)
    <2>1. /\ ended \in [Sockets -> Sides]
          /\ \A r \in Sockets : ended[r].listener = wire[r].listener
          /\ \A r \in Sockets : ended[r].at = "free" => wire[r].at = "free"
        BY EndedKeeps
    <2>2. /\ wire' = [ended EXCEPT ![s].listener = "failing"]
          /\ wire[s].at \in {"dialing", "refused", "lost"}
          /\ Cancel /\ UNCHANGED <<app, clients, silent, wanted>>
        BY <1>5 DEF OnEnd
    <2>3. ended[s].at # "free"
        BY <2>1, <2>2
    <2> HIDE DEF ended
    <2>4. /\ wire' \in [Sockets -> Sides]
          /\ \A r \in Sockets \ {s} : wire'[r] = ended[r]
          /\ wire'[s].at = ended[s].at /\ wire'[s].listener = "failing"
        BY <2>1, <2>2 DEF Sides, Listening
    <2>5. FreeIsNew'
        BY <1>0, <2>1, <2>3, <2>4 DEF FreeIsNew
    <2>6. GroundTypeOK'
        BY <1>0, <2>2, <2>4, CancelStep, GroundTyped
    <2>7. Alone'
        <3>1. ~met' => running' = {} /\ app.leaving # "cancelled" /\ \A r \in Sockets : ~Inside(r)
            BY <2>2, CancelStep DEF SomeoneInside
        <3>2. ~met' => \A r \in Sockets \ {s} : ~Inside(r)'
            BY <2>1, <2>4, <3>1 DEF Inside
        <3> QED  BY <2>2, <3>1, <3>2 DEF Alone
    <2> QED  BY <1>0, <2>2, <2>5, <2>6, <2>7 DEF IInv, DisconnectIsFinal
<1>6. CASE ForgetBeats(s)
    <2>1. /\ Hears(s, "failing", "failed") /\ UNCHANGED <<running, met>>
          /\ app' = [app EXCEPT !.heartbeat = NoSocket]
        BY <1>6 DEF ForgetBeats
    <2>2. app' \in Apps /\ app'.auto = app.auto /\ app'.leaving = app.leaving
        BY <1>0, <2>1 DEF Apps
    <2>3. /\ wire' \in [Sockets -> Sides]
          /\ wire[s].listener = "failing" /\ wire'[s].listener = "failed"
          /\ \A r \in Sockets \ {s} : wire'[r] = wire[r]
          /\ FreeIsNew' /\ UNCHANGED <<clients, silent, wanted>>
        BY <2>1, HearsStep DEF Listening
    <2>4. GroundTypeOK'
        BY <1>0, <2>1, <2>2, <2>3, GroundTyped
    <2>5. Alone'
        <3>1. \A r \in Sockets : Inside(r)' => Inside(r)
            BY <2>3 DEF Inside
        <3>2. ~met => running = {}
            BY <1>0, <2>3 DEF Alone, SomeoneInside, Inside
        <3> QED  BY <1>0, <2>1, <2>2, <3>1, <3>2 DEF Alone, SomeoneInside
    <2> QED  BY <1>0, <2>2, <2>3, <2>4, <2>5 DEF IInv, DisconnectIsFinal
<1>7. CASE ShowEnd(s)
    <2>1. /\ Hears(s, "failed", "over") /\ UNCHANGED <<running, met>>
          /\ app' = [app EXCEPT !.state = "DISCONNECTED"]
        BY <1>7 DEF ShowEnd
    <2>2. /\ app' \in Apps /\ app'.auto = app.auto /\ app'.leaving = app.leaving
          /\ app'.heartbeat = app.heartbeat
        BY <1>0, <2>1 DEF Apps, States
    <2>3. /\ wire' \in [Sockets -> Sides]
          /\ wire[s].listener = "failed" /\ wire'[s].listener = "over"
          /\ \A r \in Sockets \ {s} : wire'[r] = wire[r]
          /\ FreeIsNew' /\ UNCHANGED <<clients, silent, wanted>>
        BY <2>1, HearsStep DEF Listening
    <2>4. GroundTypeOK'
        BY <1>0, <2>1, <2>2, <2>3, GroundTyped
    <2>5. Alone'
        BY <1>0, <2>1, <2>2, <2>3, Unmoved DEF Inside
    <2> QED  BY <1>0, <2>2, <2>3, <2>4, <2>5 DEF IInv, DisconnectIsFinal
<1>8. CASE Forget(s)
    <2>1. /\ wire' = [wire EXCEPT ![s] = FreeSocket] /\ wire[s].listener = "over"
          /\ running' = running \ {s}
          /\ UNCHANGED <<app, clients, silent, wanted, met>>
        BY <1>8 DEF Forget
    <2>2. FreeSocket \in Sides /\ FreeSocket.listener = "new"
        BY DEF FreeSocket, Sides, Listening
    <2>3. /\ wire' \in [Sockets -> Sides] /\ wire'[s].listener = "new"
          /\ \A r \in Sockets \ {s} : wire'[r] = wire[r]
        BY <1>0, <2>1, <2>2
    <2>4. GroundTypeOK'
        BY <1>0, <2>1, <2>3, GroundTyped
    <2>5. FreeIsNew'
        BY <1>0, <2>3 DEF FreeIsNew
    <2>6. Alone'
        BY <1>0, <2>1, <2>3 DEF Alone, Inside, SomeoneInside
    <2> QED  BY <1>0, <2>1, <2>4, <2>5, <2>6 DEF IInv, DisconnectIsFinal
<1> QED  BY <1>1, <1>2, <1>3, <1>4, <1>5, <1>6, <1>7, <1>8 DEF Listener

-----------------------------------------------------------------------------
(* The Pi and the network. *)

LEMMA PiStep ==
    ASSUME IInv,
           \/ Ping \/ Broadcast \/ TimesOut \/ Cut
           \/ \E s \in Sockets : Accept(s) \/ Drain(s) \/ SendFails(s) \/ Serving(s)
    PROVE  IInv'
<1> USE LinkConstants
<1>0. /\ wire \in [Sockets -> Sides] /\ clients \in [Sockets -> Channels]
      /\ silent \in BOOLEAN
    BY GroundTyped DEF IInv
<1>1. CASE Ping
    BY <1>0, <1>1, WireStep DEF Ping
<1>2. CASE Broadcast
    <2>1. ASSUME NEW s \in Sockets
          PROVE  /\ [clients[s] EXCEPT !.known = FALSE, !.writes = FALSE] \in Channels
                 /\ clients[s].known /\ ~TooSlow(s)
                        => [clients[s] EXCEPT !.queue = @ + 1] \in Channels
        <3>1. clients[s] \in Channels /\ QueueMax \in Nat
            BY <1>0
        <3>2. clients[s].queue \in 0 .. QueueMax
            BY <3>1 DEF Channels
        <3>3. clients[s].queue # QueueMax => clients[s].queue + 1 \in 0 .. QueueMax
            BY <3>1, <3>2
        <3>4. [clients[s] EXCEPT !.known = FALSE, !.writes = FALSE] \in Channels
            BY <3>1 DEF Channels
        <3> QED  BY <3>1, <3>3, <3>4 DEF Channels, TooSlow
    <2>2. clients' \in [Sockets -> Channels]
        BY <1>0, <1>2, <2>1 DEF Broadcast
    <2> QED  BY <1>0, <1>2, <2>2, WireStep DEF Broadcast
<1>3. CASE TimesOut
    BY <1>0, <1>3, WireStep DEF TimesOut
<1>4. CASE Cut
    <2>1. /\ wire' \in [Sockets -> Sides]
          /\ \A r \in Sockets : wire'[r].listener = wire[r].listener
          /\ \A r \in Sockets : wire'[r].at = "free" => wire[r].at = "free"
        BY <1>0, <1>4 DEF Cut, Sides
    <2> QED  BY <1>0, <1>4, <2>1, WireStep DEF Cut
<1>5. ASSUME NEW s \in Sockets, Accept(s) PROVE IInv'
    <2>1. /\ wire' \in [Sockets -> Sides]
          /\ \A r \in Sockets : wire'[r].listener = wire[r].listener
          /\ \A r \in Sockets : wire'[r].at = "free" => wire[r].at = "free"
        BY <1>0, <1>5 DEF Accept, Sides
    <2>2. clients' \in [Sockets -> Channels]
        BY <1>0, <1>5 DEF Accept, Channels
    <2> QED  BY <1>0, <1>5, <2>1, <2>2, WireStep DEF Accept
<1>6. ASSUME NEW s \in Sockets, Drain(s) PROVE IInv'
    <2>1. clients' \in [Sockets -> Channels]
        BY <1>0, <1>6 DEF Drain, Channels
    <2> QED  BY <1>0, <1>6, <2>1, WireStep DEF Drain
<1>7. ASSUME NEW s \in Sockets, SendFails(s) PROVE IInv'
    <2>1. clients' \in [Sockets -> Channels]
        BY <1>0, <1>7 DEF SendFails, Channels
    <2> QED  BY <1>0, <1>7, <2>1, ClosedKeeps, WireStep DEF SendFails
<1>8. ASSUME NEW s \in Sockets, CloseSlow(s) PROVE IInv'
    BY <1>0, <1>8, ClosedKeeps, WireStep DEF CloseSlow
<1>9. ASSUME NEW s \in Sockets, HandlerEnds(s) PROVE IInv'
    <2>1. NoClient \in Channels
        BY DEF NoClient, Channels
    <2>2. clients' \in [Sockets -> Channels]
        BY <1>0, <1>9, <2>1 DEF HandlerEnds
    <2> QED  BY <1>0, <1>9, <2>2, WireStep DEF HandlerEnds
<1> QED  BY <1>1, <1>2, <1>3, <1>4, <1>5, <1>6, <1>7, <1>8, <1>9 DEF Serving

-----------------------------------------------------------------------------

\* The invariant of the connections holds throughout.
LEMMA Invariant == GroundSpec => []IInv
<1>1. GroundInit => IInv
    <2> SUFFICES ASSUME GroundInit PROVE IInv
        OBVIOUS
    <2>1. FreeSocket \in Sides /\ NoClient \in Channels
        BY LinkConstants DEF FreeSocket, Sides, Listening, NoClient, Channels
    <2>2. wire \in [Sockets -> Sides] /\ clients \in [Sockets -> Channels]
        BY <2>1 DEF GroundInit
    <2>3. GroundTypeOK
        BY <2>1, <2>2, GroundTyped DEF GroundInit, Apps, States
    <2>4. Alone
        BY DEF GroundInit, FreeSocket, Alone, Inside, SomeoneInside
    <2> QED  BY <2>3, <2>4 DEF GroundInit, IInv, FreeIsNew, FreeSocket, DisconnectIsFinal
<1>2. IInv /\ GroundNext => IInv'
    BY MainThread, Callbacks, PiStep DEF GroundNext
<1>3. IInv /\ UNCHANGED groundVars => IInv'
    <2> SUFFICES ASSUME IInv, UNCHANGED groundVars PROVE IInv'
        OBVIOUS
    <2> QED  BY GroundTyped, WireStep DEF IInv, groundVars
<1> QED  BY <1>1, <1>2, <1>3, PTL DEF GroundSpec

\* Link states, listeners, heartbeats, clients and queues are of their types in
\* every order of taps, callbacks, broadcasts and losses.
THEOREM TypeCorrect == GroundSpec => []GroundTypeOK
BY Invariant, PTL DEF IInv

\* The app makes no automatic attempt to connect without the operator's wish: after
\* Disconnect it does not reconnect by itself, also when the tap comes while the
\* collector waits to.
THEOREM DisconnectHolds == GroundSpec => []DisconnectIsFinal
BY Invariant, PTL DEF IInv

\* However many sockets there were: as long as no two threads meet in startHeartbeat
\* and stopHeartbeat, write by write, the one heartbeat that runs is the one a stop
\* will find, and it is on a socket that is open.
THEOREM HeartbeatHolds == GroundSpec => []BeatsOnAnOpenSocket
<1>1. IInv => BeatsOnAnOpenSocket
    BY DEF IInv, Alone, BeatsOnAnOpenSocket
<1> QED  BY <1>1, Invariant, PTL

-----------------------------------------------------------------------------
(* OperatorMode: what is under way. *)

Allowed == {hist.wish, "idle", "tracking"}

\* What a command may be that no tap follows: a slider only of the mode tapped
\* last, a mode only that one, or one the app asks for itself.
Wished(c) ==
    /\ c = "slider" => hist.wish = "follow"
    /\ c \in Modes => c \in Allowed

\* No tap under way comes after the i-th command.
IsLast(i) == \A j \in 1 .. Len(uplink) : j > i => uplink[j] \notin Taps

NothingStale ==
    ~hist.lost =>
        /\ \A i \in 1 .. Len(uplink) : IsLast(i) => Wished(uplink[i])
        /\ (\A i \in 1 .. Len(uplink) : uplink[i] \notin Taps) => pi.mode \in Allowed

\* Sliders and Resume send the mode the app shows: Follow only if it was tapped.
ShownIsWished == screen.mode = "follow" => hist.wish = "follow"

ModeInv == TypeOK /\ NothingStale /\ ShownIsWished

\* Which commands are taps, and which are modes.
LEMMA Names ==
    /\ Modes \subseteq Taps /\ Taps \subseteq Commands
    /\ "slider" \notin Taps /\ "teach" \notin Taps
    /\ "stop" \notin Modes /\ "slider" \notin Modes /\ "teach" \notin Modes
BY DEF Modes, Taps, Commands

\* A command that is no tap joins the others.
LEMMA SentKeeps ==
    ASSUME ModeInv, NEW c \in Commands, Wished(c), Sent(c), UNCHANGED <<pi, hist>>
    PROVE  uplink' \in Seq(Commands) /\ NothingStale'
<1>0. uplink \in Seq(Commands)
    BY DEF ModeInv, TypeOK
<1>1. CASE linked
    <2>1. uplink' = Append(uplink, c)
        BY <1>1 DEF Sent
    <2>2. /\ uplink' \in Seq(Commands) /\ Len(uplink') = Len(uplink) + 1
          /\ \A i \in 1 .. Len(uplink) : uplink'[i] = uplink[i]
          /\ uplink'[Len(uplink) + 1] = c /\ Len(uplink) \in Nat
        BY <1>0, <2>1
    <2>3. ASSUME ~hist.lost, NEW i \in 1 .. Len(uplink'), IsLast(i)'
          PROVE  Wished(uplink[i])'
        <3>1. CASE i = Len(uplink) + 1
            BY <2>2, <3>1 DEF Wished, Allowed
        <3>2. CASE i # Len(uplink) + 1
            <4>1. i \in 1 .. Len(uplink)
                BY <2>2, <3>2
            <4>2. IsLast(i)
                BY <2>2, <2>3 DEF IsLast
            <4> QED
                BY <2>2, <2>3, <4>1, <4>2 DEF ModeInv, NothingStale, Wished, Allowed
        <3> QED  BY <3>1, <3>2
    <2>4. ASSUME ~hist.lost, \A i \in 1 .. Len(uplink') : uplink'[i] \notin Taps
          PROVE  pi.mode \in Allowed
        BY <2>2, <2>4 DEF ModeInv, NothingStale
    <2> QED  BY <2>2, <2>3, <2>4 DEF NothingStale, Allowed
<1>2. CASE ~linked
    <2>1. uplink' = uplink
        BY <1>2 DEF Sent
    <2> QED  BY <1>0, <2>1 DEF ModeInv, NothingStale, IsLast, Wished, Allowed
<1> QED  BY <1>1, <1>2

\* A tap joins the others, and all before it cease to matter.
LEMMA TappedKeeps ==
    ASSUME ModeInv, NEW c \in Taps, Sent(c), Tapped(c), UNCHANGED pi
    PROVE  uplink' \in Seq(Commands) /\ NothingStale'
<1>0. uplink \in Seq(Commands) /\ c \in Commands
    BY Names DEF ModeInv, TypeOK
<1>1. CASE linked
    <2>1. uplink' = Append(uplink, c) /\ hist'.wish = c
        BY <1>1 DEF Sent, Tapped
    <2>2. /\ uplink' \in Seq(Commands) /\ Len(uplink') = Len(uplink) + 1
          /\ uplink'[Len(uplink) + 1] = c /\ Len(uplink) \in Nat
        BY <1>0, <2>1
    <2>3. ASSUME NEW i \in 1 .. Len(uplink'), IsLast(i)'
          PROVE  i = Len(uplink) + 1
        BY <2>2, <2>3 DEF IsLast
    <2>4. Wished(c)'
        BY <2>1, Names DEF Wished, Allowed
    <2> QED  BY <2>2, <2>3, <2>4 DEF NothingStale
<1>2. CASE ~linked
    BY <1>0, <1>2 DEF Sent, Tapped, NothingStale
<1> QED  BY <1>1, <1>2

\* The Pi takes the oldest command, and the others move up.
LEMMA TakenKeeps ==
    ASSUME ModeInv, TakeCommand
    PROVE  ModeInv'
<1>0. /\ uplink \in Seq(Commands) /\ uplink # <<>>
      /\ pi \in [mode : Modes, teach : BOOLEAN]
      /\ UNCHANGED <<screen, downlink, linked, hist>>
    BY DEF ModeInv, TypeOK, TakeCommand
<1>1. /\ uplink' = Tail(uplink) /\ uplink' \in Seq(Commands)
      /\ Len(uplink') = Len(uplink) - 1 /\ Len(uplink) \in Nat \ {0}
      /\ \A i \in 1 .. Len(uplink') : uplink'[i] = uplink[i + 1]
      /\ Head(uplink) = uplink[1] /\ uplink[1] \in Commands
    BY <1>0 DEF TakeCommand
<1> DEFINE command == uplink[1]
<1>2. \/ command = "stop" /\ pi' = [mode |-> "idle", teach |-> FALSE]
      \/ command = "teach" /\ pi' = [pi EXCEPT !.teach = TRUE]
      \/ /\ command \notin {"stop", "teach"}
         /\ \E m \in ModeAfter(command) : pi' = [pi EXCEPT !.mode = m]
    BY <1>1 DEF TakeCommand
<1>3. ASSUME NEW m \in ModeAfter(command), command \notin {"stop", "teach"}
      PROVE  m \in Modes /\ (Wished(command) => m \in Allowed)
    BY <1>1, <1>3 DEF ModeAfter, Commands, Taps, Modes, Wished, Allowed
<1>4. pi' \in [mode : Modes, teach : BOOLEAN]
    <2>1. "idle" \in Modes
        BY DEF Modes
    <2> HIDE DEF command
    <2>2. CASE command = "stop"
        <3>1. pi' = [mode |-> "idle", teach |-> FALSE]
            BY <1>2, <2>2
        <3> QED  BY <2>1, <3>1
    <2>3. CASE command = "teach"
        BY <1>0, <1>2, <2>3
    <2>4. CASE command \notin {"stop", "teach"}
        <3>1. PICK m \in ModeAfter(command) : pi' = [pi EXCEPT !.mode = m]
            BY <1>2, <2>4
        <3> QED  BY <1>0, <1>3, <2>4, <3>1
    <2> QED  BY <2>2, <2>3, <2>4
<1>5. ASSUME ~hist.lost, NEW i \in 1 .. Len(uplink'), IsLast(i)'
      PROVE  Wished(uplink[i])'
    <2>1. IsLast(i + 1)
        <3> SUFFICES ASSUME NEW j \in 1 .. Len(uplink), j > i + 1
                     PROVE  uplink[j] \notin Taps
            BY DEF IsLast
        <3>1. j - 1 \in 1 .. Len(uplink') /\ j - 1 > i /\ (j - 1) + 1 = j
            BY <1>1
        <3> QED  BY <1>1, <1>5, <3>1 DEF IsLast
    <2>2. i + 1 \in 1 .. Len(uplink)
        BY <1>1
    <2>3. Wished(uplink[i + 1])
        BY <1>5, <2>1, <2>2 DEF ModeInv, NothingStale
    <2> QED  BY <1>0, <1>1, <2>3 DEF Wished, Allowed
<1>6. ASSUME ~hist.lost, \A i \in 1 .. Len(uplink') : uplink'[i] \notin Taps
      PROVE  pi'.mode \in Allowed
    <2>1. \A j \in 2 .. Len(uplink) : uplink[j] \notin Taps
        <3> TAKE j \in 2 .. Len(uplink)
        <3>1. j - 1 \in 1 .. Len(uplink') /\ (j - 1) + 1 = j
            BY <1>1
        <3> QED  BY <1>1, <1>6, <3>1
    <2>2. IsLast(1) /\ 1 \in 1 .. Len(uplink)
        BY <1>1, <2>1 DEF IsLast
    <2>3. Wished(command)
        BY <1>6, <2>2 DEF ModeInv, NothingStale
    <2>4. CASE command = "stop"
        BY <1>2, <2>4 DEF Allowed
    <2>5. CASE command = "teach"
        <3>1. \A j \in 1 .. Len(uplink) : uplink[j] \notin Taps
            BY <1>1, <2>1, <2>5, Names
        <3>2. pi.mode \in Allowed
            BY <1>6, <3>1 DEF ModeInv, NothingStale
        <3> QED  BY <1>0, <1>2, <2>5, <3>2
    <2>6. CASE command \notin {"stop", "teach"}
        BY <1>0, <1>2, <1>3, <2>3, <2>6
    <2> QED  BY <2>4, <2>5, <2>6
<1>7. NothingStale'
    BY <1>0, <1>5, <1>6 DEF NothingStale, Allowed
<1> QED  BY <1>0, <1>1, <1>4, <1>7 DEF ModeInv, TypeOK, ShownIsWished

\* The Pi leaves a mode by itself, or keeps it.
LEMMA LeftKeeps ==
    ASSUME ModeInv, UNCHANGED <<screen, uplink, linked, hist>>, downlink' \in Seq(Reports),
           pi' \in [mode : Modes, teach : BOOLEAN], pi'.mode \in {pi.mode, "idle"}
    PROVE  ModeInv'
BY DEF ModeInv, TypeOK, NothingStale, IsLast, Wished, Allowed, ShownIsWished

-----------------------------------------------------------------------------
(* OperatorMode: the app, the Pi and the link. *)

\* What the operator, the sliders and the reports do to the app.
LEMMA AppStep ==
    ASSUME ModeInv,
           \/ \E m \in Modes : TapMode(m)
           \/ Resume \/ Slide \/ TapTeach \/ TapStop \/ TakeUpdate \/ TakeTaught
    PROVE  ModeInv'
<1>0. /\ screen \in [mode : Modes, blocked : BOOLEAN]
      /\ hist \in [wish : Taps, lost : BOOLEAN]
      /\ downlink \in Seq(Reports) /\ linked \in BOOLEAN
      /\ ShownIsWished
    BY DEF ModeInv, TypeOK
<1>1. ASSUME NEW m \in Modes, TapMode(m) PROVE ModeInv'
    <2>1. uplink' \in Seq(Commands) /\ NothingStale'
        BY <1>1, TappedKeeps, Names DEF TapMode
    <2>2. /\ screen' = [screen EXCEPT !.mode = m]
          /\ hist' = [wish |-> m, lost |-> ~linked]
        BY <1>1 DEF TapMode, Tapped
    <2>3. /\ screen' \in [mode : Modes, blocked : BOOLEAN] /\ screen'.mode = m
          /\ hist' \in [wish : Taps, lost : BOOLEAN] /\ hist'.wish = m
        BY <1>0, <2>2, Names
    <2> QED  BY <1>1, <2>1, <2>3 DEF TapMode, ModeInv, TypeOK, ShownIsWished
<1>2. CASE Resume
    <2>1. hist.wish = "follow"
        BY <1>0, <1>2 DEF Resume, ShownIsWished
    <2>2. Sent("follow") /\ "follow" \in Commands /\ Wished("follow")
        BY <1>2, <2>1 DEF Resume, Commands, Taps, Modes, Wished, Allowed
    <2>3. uplink' \in Seq(Commands) /\ NothingStale'
        BY <1>2, <2>2, SentKeeps DEF Resume
    <2> QED  BY <1>2, <2>3 DEF Resume, ModeInv, TypeOK, ShownIsWished
<1>3. CASE Slide
    <2>1. hist.wish = "follow"
        BY <1>0, <1>3 DEF Slide, Slides, ShownIsWished
    <2>2. "slider" \in Commands /\ Wished("slider")
        BY <2>1, Names DEF Commands, Wished
    <2>3. uplink' \in Seq(Commands) /\ NothingStale'
        BY <1>3, <2>2, SentKeeps DEF Slide
    <2> QED  BY <1>3, <2>3 DEF Slide, ModeInv, TypeOK, ShownIsWished
<1>4. CASE TapTeach
    <2>1. "teach" \in Commands /\ Wished("teach")
        BY Names DEF Commands, Wished
    <2>2. uplink' \in Seq(Commands) /\ NothingStale'
        BY <1>4, <2>1, SentKeeps DEF TapTeach
    <2> QED  BY <1>4, <2>2 DEF TapTeach, ModeInv, TypeOK, ShownIsWished
<1>5. CASE TapStop
    <2>1. "stop" \in Taps
        BY DEF Taps
    <2>2. uplink' \in Seq(Commands) /\ NothingStale'
        BY <1>5, <2>1, TappedKeeps DEF TapStop
    <2>3. /\ screen' \in [mode : Modes, blocked : BOOLEAN] /\ screen'.mode = "idle"
          /\ hist' \in [wish : Taps, lost : BOOLEAN]
        BY <1>0, <1>5, <2>1 DEF TapStop, Tapped, Modes
    <2> QED  BY <1>5, <2>2, <2>3 DEF TapStop, ModeInv, TypeOK, ShownIsWished
<1>6. CASE TakeUpdate
    <2>1. downlink' \in Seq(Reports)
        BY <1>0, <1>6 DEF TakeUpdate
    <2>2. PICK held \in BOOLEAN :
              screen' = [mode |-> IF screen.mode = "grid_search" /\ EndOfSweep(Head(downlink))
                                  THEN "idle" ELSE screen.mode,
                         blocked |-> Head(downlink) = "safe" \/ held]
        BY <1>6 DEF TakeUpdate
    <2>3. screen' \in [mode : Modes, blocked : BOOLEAN] /\ screen'.mode \in {screen.mode, "idle"}
        BY <1>0, <2>2 DEF Modes
    <2> QED
        BY <1>6, <2>1, <2>3
        DEF TakeUpdate, ModeInv, TypeOK, ShownIsWished, NothingStale, IsLast, Wished, Allowed
<1>7. CASE TakeTaught
    <2>1. "tracking" \in Commands /\ Wished("tracking")
        BY DEF Commands, Taps, Modes, Wished, Allowed
    <2>2. uplink' \in Seq(Commands) /\ NothingStale'
        BY <1>7, <2>1, SentKeeps DEF TakeTaught
    <2>3. downlink' \in Seq(Reports)
        BY <1>0, <1>7 DEF TakeTaught
    <2>4. screen' \in [mode : Modes, blocked : BOOLEAN] /\ screen'.mode = "tracking"
        BY <1>0, <1>7 DEF TakeTaught, Modes
    <2> QED  BY <1>7, <2>2, <2>3, <2>4 DEF TakeTaught, ModeInv, TypeOK, ShownIsWished
<1> QED  BY <1>1, <1>2, <1>3, <1>4, <1>5, <1>6, <1>7

\* A frame of the Pi.
LEMMA FrameStep ==
    ASSUME ModeInv, NEW open \in BOOLEAN, NEW ends \in BOOLEAN, NEW taught \in BOOLEAN,
           Frame(open, ends, taught)
    PROVE  ModeInv'
<1>0. pi \in [mode : Modes, teach : BOOLEAN] /\ downlink \in Seq(Reports)
    BY DEF ModeInv, TypeOK
<1>1. Decision(open, ends) \in Reports /\ "taught" \in Reports
    BY <1>0 DEF Decision, Reports, Modes
<1>2. downlink' \in Seq(Reports)
    <2>1. <<>> \in Seq(Reports) /\ <<"taught">> \in Seq(Reports)
          /\ <<Decision(open, ends)>> \in Seq(Reports)
        BY <1>1
    <2> QED  BY <1>0, <2>1 DEF Frame
<1>3. pi' \in [mode : Modes, teach : BOOLEAN] /\ pi'.mode \in {pi.mode, "idle"}
    BY <1>0 DEF Frame, ModeLeft, Modes
<1> QED  BY <1>2, <1>3, LeftKeeps DEF Frame

\* What the connection does.
LEMMA LinkStep ==
    ASSUME ModeInv, Dropout \/ BackOnline
    PROVE  ModeInv'
<1>1. CASE Dropout
    <2>0. /\ uplink \in Seq(Commands) /\ hist \in [wish : Taps, lost : BOOLEAN]
          /\ NothingStale
        BY DEF ModeInv, TypeOK
    <2> DEFINE tapLost == \E i \in DOMAIN uplink : IsTap(uplink[i])
               lost == hist.lost \/ tapLost
    <2>1. /\ uplink' = <<>> /\ downlink' = <<>> /\ linked' = FALSE
          /\ pi' = pi /\ screen' = screen
        BY <1>1 DEF Dropout
    <2>2. /\ hist' \in [wish : Taps, lost : BOOLEAN] /\ hist'.wish = hist.wish
          /\ hist'.lost = lost
        <3>1. hist' = [hist EXCEPT !.lost = lost] /\ lost \in BOOLEAN
            BY <1>1 DEF Dropout
        <3> HIDE DEF lost
        <3> QED  BY <2>0, <3>1
    <2>3. ASSUME ~hist'.lost
          PROVE  ~hist.lost /\ \A i \in 1 .. Len(uplink) : uplink[i] \notin Taps
        <3>1. ~hist.lost /\ ~tapLost
            <4> HIDE DEF tapLost
            <4> QED  BY <2>2, <2>3
        <3>2. DOMAIN uplink = 1 .. Len(uplink)
            BY <2>0
        <3> QED  BY <3>1, <3>2 DEF IsTap
    <2>4. ASSUME ~hist'.lost PROVE pi.mode \in Allowed
        BY <2>0, <2>3, <2>4 DEF NothingStale
    <2>5. NothingStale'
        BY <2>1, <2>2, <2>4 DEF NothingStale, Allowed
    <2>6. TypeOK'
        <3>1. <<>> \in Seq(Commands) /\ <<>> \in Seq(Reports)
            OBVIOUS
        <3> HIDE DEF lost, tapLost
        <3> QED  BY <2>1, <2>2, <3>1 DEF ModeInv, TypeOK
    <2>7. ShownIsWished'
        BY <2>1, <2>2 DEF ModeInv, ShownIsWished
    <2> QED  BY <2>5, <2>6, <2>7 DEF ModeInv
<1>2. CASE BackOnline
    BY <1>2 DEF BackOnline, ModeInv, TypeOK, NothingStale, IsLast, Wished, Allowed, ShownIsWished
<1> QED  BY <1>1, <1>2

\* The invariant of the modes holds throughout.
LEMMA ModeInvariant == Spec => []ModeInv
<1>1. Init => ModeInv
    <2> SUFFICES ASSUME Init PROVE ModeInv
        OBVIOUS
    <2>1. TypeOK
        <3>1. <<>> \in Seq(Commands) /\ <<>> \in Seq(Reports) /\ "idle" \in Modes
            BY DEF Modes
        <3> QED  BY <3>1, Names DEF Init, TypeOK
    <2>2. NothingStale
        <3>1. Len(uplink) = 0 /\ pi.mode \in Allowed
            BY DEF Init, Allowed
        <3> QED  BY <3>1 DEF NothingStale
    <2>3. ShownIsWished
        BY DEF Init, ShownIsWished
    <2> QED  BY <2>1, <2>2, <2>3 DEF ModeInv
<1>2. ModeInv /\ Next => ModeInv'
    <2> SUFFICES ASSUME ModeInv, Next PROVE ModeInv'
        OBVIOUS
    <2>1. CASE LandAnswered
        <3>1. pi' \in [mode : Modes, teach : BOOLEAN] /\ pi'.mode = "idle"
            BY <2>1 DEF LandAnswered, ModeInv, TypeOK, Modes
        <3> QED  BY <2>1, <3>1, LeftKeeps DEF LandAnswered, ModeInv, TypeOK
    <2> QED  BY <2>1, AppStep, TakenKeeps, FrameStep, LinkStep DEF Next, AnyFrame
<1>3. ModeInv /\ UNCHANGED vars => ModeInv'
    BY DEF ModeInv, TypeOK, NothingStale, IsLast, Wished, Allowed, ShownIsWished, vars
<1> QED  BY <1>1, <1>2, <1>3, PTL DEF Spec

\* The app's mode, the Pi's and what is under way between them are of their
\* types, however many commands and reports may be.
THEOREM ModeTypeCorrect == Spec => []TypeOK
BY ModeInvariant, PTL DEF ModeInv

\* With any number of commands under way, crossed by reports, by modes the Pi
\* leaves by itself and by cuts that lose no tap: once all have arrived, the Pi
\* is in the mode tapped last, idle or Tracking.  No slider and no Resume brings
\* back a mode that was replaced or stopped.
THEOREM LastWishHolds == Spec => []FliesTheLastWish
<1>1. ModeInv => FliesTheLastWish
    BY DEF ModeInv, NothingStale, FliesTheLastWish, Allowed
<1> QED  BY <1>1, ModeInvariant, PTL
=============================================================================
