---------------------------- MODULE OperatorLink ----------------------------
(***************************************************************************)
(* The link between the operator's app and the Pi: GroundStationClient and  *)
(* the reconnecting collector of MainViewModel on the phone, and            *)
(* WebSocketTransport with GroundStationLink.is_connected on the Pi.        *)
(*                                                                         *)
(* Every connect() makes a socket of its own.  OkHttp calls the listener of *)
(* a socket on a thread of that socket, and the operator's taps and the     *)
(* collector run on the main thread, so the callbacks of two sockets and a  *)
(* Disconnect interleave write by write: no lock guards the state of the    *)
(* link or the field that names the heartbeat.  On the Pi everything runs   *)
(* on the event loop.                                                       *)
(***************************************************************************)
EXTENDS Naturals

CONSTANTS
    Sockets,        \* sockets that may exist together
    NoSocket,
    QueueMax        \* send_queue_max

ASSUME LinkConstants == NoSocket \notin Sockets /\ QueueMax \in Nat \ {0}

VARIABLES
    app,        \* the flow of the link state and its collector, and the client;
                \* how far a disconnect() is
    wire,       \* each socket: how far it has come, and where its listener is
    running,    \* the sockets whose heartbeats are scheduled
    clients,    \* the Pi's side of each socket
    silent,     \* seconds_since_last_message exceeds comms_timeout_s
    wanted,     \* the operator's last tap was Connect
    met         \* two threads have been in startHeartbeat or stopHeartbeat together,
                \* and none of those that came alone since has silenced the app

groundVars == <<app, wire, running, clients, silent, wanted, met>>

\* CONNECTING and CONNECTED tell the reconnecting collector the same.
States == {"DISCONNECTED", "LINKED"}

GroundTypeOK ==
    /\ app \in [state : States, seen : States, delaying : BOOLEAN, auto : BOOLEAN,
                socket : Sockets \cup {NoSocket}, heartbeat : Sockets \cup {NoSocket},
                leaving : {"no", "cancelled", "cleared"}]
    /\ wire \in [Sockets -> [at : {"free", "dialing", "refused", "up", "lost"},
                             listener : {"new", "opening", "cancelled", "cleared", "open",
                                         "failing", "failed", "over"}]]
    /\ running \subseteq Sockets
    /\ clients \in [Sockets -> [known : BOOLEAN, reads : BOOLEAN, writes : BOOLEAN,
                                queue : 0 .. QueueMax]]
    /\ silent \in BOOLEAN
    /\ wanted \in BOOLEAN
    /\ met \in BOOLEAN

FreeSocket == [at |-> "free", listener |-> "new"]

NoClient == [known |-> FALSE, reads |-> FALSE, writes |-> FALSE, queue |-> 0]

GroundInit ==
    /\ app = [state |-> "DISCONNECTED", seen |-> "DISCONNECTED", delaying |-> FALSE,
              auto |-> FALSE, socket |-> NoSocket, heartbeat |-> NoSocket,
              leaving |-> "no"]
    /\ wire = [s \in Sockets |-> FreeSocket]
    /\ clients = [s \in Sockets |-> NoClient]
    /\ running = {}
    /\ silent = FALSE
    /\ wanted = FALSE
    /\ met = FALSE

-----------------------------------------------------------------------------
(* The heartbeat, which the threads of all sockets and the main thread start *)
(* and stop.  startHeartbeat and stopHeartbeat first cancel the heartbeat    *)
(* that the field names, whosever it is; then the field is null; then        *)
(* startHeartbeat assigns the one it has scheduled, which no other thread    *)
(* can find before.                                                         *)

BeatsOn == running

Cancelled == running \ {app.heartbeat}

\* A thread is past the cancel and has not written all that follows.
Inside(s) == wire[s].listener \in {"cancelled", "cleared", "failing"}

SomeoneInside == app.leaving = "cancelled" \/ \E s \in Sockets : Inside(s)

Cancel ==
    /\ running' = Cancelled
    /\ met' = (SomeoneInside \/ (met /\ Cancelled # {}))

-----------------------------------------------------------------------------
(* The main thread of the app, while it is in no disconnect(). *)

MainIsFree == app.leaving = "no"

\* connect(): the socket before is not closed.
Dial(s) ==
    /\ wire[s].at = "free"
    /\ wire' = [wire EXCEPT ![s] = [at |-> "dialing", listener |-> "new"]]
    /\ app' = [app EXCEPT !.state = "LINKED", !.auto = TRUE, !.socket = s,
                          !.delaying = FALSE]

TapConnect(s) ==
    /\ MainIsFree /\ wire[s].at = "free"
    /\ wire' = [wire EXCEPT ![s] = [at |-> "dialing", listener |-> "new"]]
    /\ app' = [app EXCEPT !.state = "LINKED", !.auto = TRUE, !.socket = s]
    /\ wanted' = TRUE
    /\ UNCHANGED <<running, clients, silent, met>>

Ended(s) == [wire EXCEPT ![s].at = CASE @ = "dialing" -> "refused"
                                       [] @ = "up" -> "lost"
                                       [] OTHER -> @]

\* disconnect(): stopHeartbeat ...
TapDisconnect ==
    /\ MainIsFree
    /\ app' = [app EXCEPT !.auto = FALSE, !.leaving = "cancelled"]
    /\ Cancel
    /\ wanted' = FALSE
    /\ UNCHANGED <<wire, clients, silent>>

DropHeartbeat ==
    /\ app.leaving = "cancelled"
    /\ app' = [app EXCEPT !.heartbeat = NoSocket, !.leaving = "cleared"]
    /\ UNCHANGED <<wire, running, clients, silent, wanted, met>>

\* ... and the close of the socket.
CloseSocket ==
    /\ app.leaving = "cleared"
    /\ app' = [app EXCEPT !.state = "DISCONNECTED", !.socket = NoSocket, !.leaving = "no"]
    /\ wire' = IF app.socket = NoSocket THEN wire ELSE Ended(app.socket)
    /\ UNCHANGED <<running, clients, silent, wanted, met>>

\* The collector sees the state of the flow if it is not the one it saw last,
\* and not while it waits to reconnect.
Collect ==
    /\ MainIsFree /\ ~app.delaying /\ app.state # app.seen
    /\ app' = [app EXCEPT !.seen = app.state,
                          !.delaying = app.state = "DISCONNECTED" /\ app.auto]
    /\ UNCHANGED <<wire, running, clients, silent, wanted, met>>

RetriesAlways == TRUE

\* shouldAutoReconnect, asked again after the delay.
Retries == app.auto

\* RECONNECT_DELAY_MS is over.
Reconnect(s) ==
    /\ MainIsFree /\ app.delaying
    /\ IF Retries THEN Dial(s)
       ELSE app' = [app EXCEPT !.delaying = FALSE] /\ UNCHANGED wire
    /\ UNCHANGED <<running, clients, silent, wanted, met>>

-----------------------------------------------------------------------------
(* The listener of a socket, write by write. *)

Hears(s, from, to) ==
    /\ wire[s].listener = from
    /\ wire' = [wire EXCEPT ![s].listener = to]
    /\ UNCHANGED <<clients, silent, wanted>>

OnOpen(s) ==
    /\ wire[s].at \in {"up", "lost"}
    /\ Hears(s, "new", "opening")
    /\ app' = [app EXCEPT !.state = "LINKED"]
    /\ UNCHANGED <<running, met>>

\* startHeartbeat.
CancelOther(s) == Hears(s, "opening", "cancelled") /\ Cancel /\ UNCHANGED app

ForgetOther(s) ==
    /\ Hears(s, "cancelled", "cleared")
    /\ app' = [app EXCEPT !.heartbeat = NoSocket]
    /\ UNCHANGED <<running, met>>

Beat(s) ==
    /\ Hears(s, "cleared", "open")
    /\ running' = running \cup {s}
    /\ app' = [app EXCEPT !.heartbeat = s]
    /\ UNCHANGED met

\* onClosed or onFailure: stopHeartbeat ...
OnEnd(s) ==
    /\ wire[s].listener \in {"new", "open"}
    /\ wire[s].at \in {"dialing", "refused", "lost"}
    /\ wire' = [Ended(s) EXCEPT ![s].listener = "failing"]
    /\ Cancel
    /\ UNCHANGED <<app, clients, silent, wanted>>

ForgetBeats(s) ==
    /\ Hears(s, "failing", "failed")
    /\ app' = [app EXCEPT !.heartbeat = NoSocket]
    /\ UNCHANGED <<running, met>>

\* ... and the state.
ShowEnd(s) ==
    /\ Hears(s, "failed", "over")
    /\ app' = [app EXCEPT !.state = "DISCONNECTED"]
    /\ UNCHANGED <<running, met>>

-----------------------------------------------------------------------------
(* The Pi. *)

\* _handle_client begins.
Accept(s) ==
    /\ wire[s].at = "dialing"
    /\ wire' = [wire EXCEPT ![s].at = "up"]
    /\ clients' = [clients EXCEPT ![s] = [known |-> TRUE, reads |-> TRUE,
                                          writes |-> TRUE, queue |-> 0]]
    /\ silent' = FALSE
    /\ UNCHANGED <<app, running, wanted, met>>

\* Some heartbeat reaches the Pi; a client dropped as too slow is read until its
\* socket is closed.
Audible == \E s \in running : wire[s].at = "up" /\ clients[s].reads

Ping ==
    /\ Audible
    /\ silent' = FALSE
    /\ UNCHANGED <<app, wire, running, clients, wanted, met>>

TooSlow(s) == clients[s].known /\ clients[s].queue = QueueMax

\* broadcast(): a client whose queue is full is dropped, and closed by a task.
Broadcast ==
    /\ \E s \in Sockets : clients[s].known
    /\ clients' = [s \in Sockets |->
            IF TooSlow(s) THEN [clients[s] EXCEPT !.known = FALSE, !.writes = FALSE]
            ELSE IF clients[s].known THEN [clients[s] EXCEPT !.queue = @ + 1]
            ELSE clients[s]]
    /\ UNCHANGED <<app, wire, running, silent, wanted, met>>

\* _drain sends a message.
Drain(s) ==
    /\ clients[s].writes /\ clients[s].queue > 0 /\ wire[s].at = "up"
    /\ clients' = [clients EXCEPT ![s].queue = @ - 1]
    /\ UNCHANGED <<app, wire, running, silent, wanted, met>>

StaysOpen(s) == wire

\* _close_quietly.
Closed(s) == [wire EXCEPT ![s].at = IF @ = "up" THEN "lost" ELSE @]

\* Sending failed: the writer ends, and closes the socket.
SendFails(s) ==
    /\ clients[s].writes /\ clients[s].queue > 0
    /\ clients' = [clients EXCEPT ![s].writes = FALSE]
    /\ wire' = Closed(s)
    /\ UNCHANGED <<app, running, silent, wanted, met>>

\* The task that closes a slow client.
CloseSlow(s) ==
    /\ clients[s].reads /\ ~clients[s].known /\ wire[s].at = "up"
    /\ wire' = Closed(s)
    /\ UNCHANGED <<app, running, clients, silent, wanted, met>>

\* The read loop ends with the socket, at the latest by the keepalive.
HandlerEnds(s) ==
    /\ clients[s].reads /\ wire[s].at = "lost"
    /\ clients' = [clients EXCEPT ![s] = NoClient]
    /\ UNCHANGED <<app, wire, running, silent, wanted, met>>

BySocketAlone == \E s \in Sockets : clients[s].known

\* is_connected.
IsConnected == (\E s \in Sockets : clients[s].known) /\ ~silent

\* comms_timeout_s passes without a message.
TimesOut == silent' = TRUE /\ UNCHANGED <<app, wire, running, clients, wanted, met>>

-----------------------------------------------------------------------------
(* The network, and the memory of sockets that are over on both ends. *)

\* The network is gone: neither end knows yet.
Cut ==
    /\ wire' = [s \in Sockets |-> IF wire[s].at = "up" THEN [wire[s] EXCEPT !.at = "lost"]
                                  ELSE wire[s]]
    /\ UNCHANGED <<app, running, clients, silent, wanted, met>>

\* What a heartbeat sends on such a socket goes nowhere.
Forget(s) ==
    /\ wire[s].listener = "over" /\ ~clients[s].reads /\ app.heartbeat # s
    /\ wire' = [wire EXCEPT ![s] = FreeSocket]
    /\ running' = running \ {s}
    /\ UNCHANGED <<app, clients, silent, wanted, met>>

Listener(s) ==
    \/ OnOpen(s) \/ CancelOther(s) \/ ForgetOther(s) \/ Beat(s)
    \/ OnEnd(s) \/ ForgetBeats(s) \/ ShowEnd(s)

Leave == DropHeartbeat \/ CloseSocket

Serving(s) == CloseSlow(s) \/ HandlerEnds(s)

GroundNext ==
    \/ TapDisconnect \/ Leave \/ Collect
    \/ Ping \/ Broadcast \/ TimesOut \/ Cut
    \/ \E s \in Sockets :
          \/ TapConnect(s) \/ Reconnect(s) \/ Listener(s)
          \/ Accept(s) \/ Drain(s) \/ SendFails(s) \/ Serving(s) \/ Forget(s)

\* Time passes, and a socket that is lost is noticed on the Pi too (websockets'
\* keepalive).  Nothing is asked of the phone, its operator and the network.
GroundSpec ==
    /\ GroundInit /\ [][GroundNext]_groundVars
    /\ WF_groundVars(TimesOut) /\ \A s \in Sockets : WF_groundVars(Serving(s))

-----------------------------------------------------------------------------
(* Properties. *)

\* After Disconnect the app does not dial again by itself, also when the tap came
\* while it waited to reconnect (shouldAutoReconnect, "false after an explicit
\* disconnect()").
DisconnectIsFinal == app.auto => wanted

\* "Runs only while the socket is open" (heartbeatExecutor): unless two threads were
\* in startHeartbeat or stopHeartbeat together, at most one heartbeat runs, the field
\* names it, so that the next stop finds it, and its socket's end was not told yet.
BeatsOnAnOpenSocket ==
    ~met => \A s \in running : app.heartbeat = s /\ wire[s].listener = "open"

\* The Pi does not take an open socket for an operator: again and again it hears a
\* heartbeat of the app, or the app dials, or the link counts as lost, although a
\* socket may stay open.  This holds however the threads met.
SilentAppIsNoticed ==
    []<>(IsConnected => Audible \/ \E s \in Sockets : wire[s].at = "dialing")

\* A client whose writer has ended is not kept: what is broadcast reaches every
\* client the Pi counts as connected, or the client goes.
MuteClientGoes == \A s \in Sockets : []<>(clients[s].known => clients[s].writes)
==============================================================================
