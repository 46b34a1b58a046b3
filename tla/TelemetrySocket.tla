--------------------------- MODULE TelemetrySocket ---------------------------
(***************************************************************************)
(* useTelemetrySocket: one WebSocket, one reconnect timer and one aging    *)
(* timer kept in module variables for however many components mount the    *)
(* hook.  An action is one task of the browser's event loop: an effect or  *)
(* its cleanup, a timer, or an event of a socket.  Handlers are closures:  *)
(* a socket and a timer remember the session they were made in.            *)
(***************************************************************************)
EXTENDS Integers, FiniteSets

CONSTANTS
    Sockets,        \* identities of WebSocket objects; one may be taken again when it is closed
    MaxSubscribers, \* bound: components that mount the hook at a time
    MaxSessions,    \* bound: activeSessionId
    MaxAttempts,    \* bound: reconnect_attempts is not counted further
    NULL

ASSUME BoundsAssumption == {MaxSubscribers, MaxSessions, MaxAttempts} \subseteq Nat \ {0}
ASSUME NullAssumption == NULL \notin Sockets /\ NULL \notin Nat

VARIABLES
    ready,    \* per socket: "none", "connecting", "open", "dead": open, but the way to its peer
              \* is lost, or "closing": after close(), before its close event
    handlers, \* per socket: the session its handlers belong to; NULL: none, they were taken off
    activeSocket,
    reconnectTimer, \* the session of the pending timer, or NULL
    agingTimer,
    activeSessionId, subscriberCount,
    connectionState, reconnectAttempts, lastError, heard, \* the source, in the store
    network   \* the gateway can be reached

hook == <<activeSocket, reconnectTimer, agingTimer, activeSessionId, subscriberCount>>
source == <<connectionState, reconnectAttempts, lastError, heard>>
vars == <<ready, handlers, hook, source, network>>

Init ==
    /\ ready = [s \in Sockets |-> "none"] /\ handlers = [s \in Sockets |-> NULL]
    /\ activeSocket = NULL /\ reconnectTimer = NULL /\ agingTimer = FALSE
    /\ activeSessionId = 0 /\ subscriberCount = 0
    /\ connectionState = "OFFLINE" /\ reconnectAttempts = 0 /\ lastError = FALSE /\ heard = FALSE
    /\ network = TRUE

(***************************************************************************)
(* Connecting and disconnecting.                                           *)
(***************************************************************************)
\* Mutant of Abandoned: the socket is forgotten, not closed.
Forgotten(s) == ready[s]

\* close() of a socket that is still opening or open; its close event will find no handler.
Abandoned(s) == IF ready[s] \in {"connecting", "open", "dead"} THEN "closing" ELSE ready[s]

\* closeActiveSocket, then new WebSocket(...) when one is asked for.
ReplaceSocket(new, session) ==
    /\ ready' = [s \in Sockets |-> IF s = new THEN "connecting"
                                   ELSE IF s = activeSocket THEN Abandoned(s) ELSE ready[s]]
    /\ handlers' = [s \in Sockets |-> IF s = new THEN session
                                      ELSE IF s = activeSocket THEN NULL ELSE handlers[s]]
    /\ activeSocket' = new

\* setTelemetrySourceConnectionState, for a state other than CONNECTED.
NotConnected(state) == connectionState' = state /\ UNCHANGED <<lastError, heard>>

\* connectTelemetrySocket
Connect(session) ==
    /\ reconnectTimer' = NULL
    /\ NotConnected("CONNECTING") /\ UNCHANGED reconnectAttempts
    /\ \E new \in Sockets : ready[new] = "none" /\ ReplaceSocket(new, session)

\* The effect: only the first subscriber starts a session.
Mount ==
    /\ subscriberCount < MaxSubscribers /\ activeSessionId < MaxSessions
    /\ subscriberCount' = subscriberCount + 1
    /\ UNCHANGED network
    /\ \/ /\ subscriberCount = 0
          /\ activeSessionId' = activeSessionId + 1
          /\ agingTimer' = TRUE
          /\ Connect(activeSessionId + 1)
       \/ /\ subscriberCount > 0
          /\ UNCHANGED <<ready, handlers, activeSocket, reconnectTimer, agingTimer, activeSessionId, source>>

\* Mutant of StopTimers: a pending reconnect is left to the session check in its callback.
TimerLeft == UNCHANGED reconnectTimer /\ agingTimer' = FALSE

StopTimers == reconnectTimer' = NULL /\ agingTimer' = FALSE

\* The cleanup: only the last subscriber ends the session.
Unmount ==
    /\ subscriberCount > 0
    /\ subscriberCount' = subscriberCount - 1
    /\ UNCHANGED network
    /\ \/ /\ subscriberCount = 1
          /\ activeSessionId' = activeSessionId + 1
          /\ StopTimers
          /\ ReplaceSocket(NULL, NULL)
          /\ NotConnected("OFFLINE") /\ UNCHANGED reconnectAttempts
       \/ /\ subscriberCount > 1
          /\ UNCHANGED <<ready, handlers, activeSocket, reconnectTimer, agingTimer, activeSessionId, source>>

(***************************************************************************)
(* The events of a socket.                                                 *)
(***************************************************************************)
\* The guard of every handler; without a handler nothing is done either.
Current(s) == handlers[s] # NULL /\ handlers[s] = activeSessionId /\ s = activeSocket

\* Mutant of OnOpen: resetConnectionStats is not called again on a reconnect.
OpenUnreset ==
    /\ heard' = (heard /\ reconnectAttempts > 0)
    /\ reconnectAttempts' = 0
    /\ connectionState' = "CONNECTED" /\ lastError' = FALSE

OnOpen ==
    /\ heard' = FALSE
    /\ reconnectAttempts' = 0
    /\ connectionState' = "CONNECTED" /\ lastError' = FALSE

SocketOpens(s) ==
    /\ ready[s] = "connecting" /\ network
    /\ ready' = [ready EXCEPT ![s] = "open"]
    /\ IF Current(s) THEN OnOpen ELSE UNCHANGED source
    /\ UNCHANGED <<handlers, hook, network>>

SocketMessage(s) ==
    /\ ready[s] = "open" /\ Current(s)
    /\ heard' = TRUE
    /\ UNCHANGED <<ready, handlers, hook, connectionState, reconnectAttempts, lastError, network>>

\* Mutant of Retry: the console gives up after a number of attempts.
GiveUp(session) == reconnectTimer' = IF reconnectAttempts < MaxAttempts THEN session ELSE NULL

\* Another attempt after RECONNECT_DELAY_MS.
Retry(session) == reconnectTimer' = session

\* onclose
OnClose(s) ==
    /\ activeSocket' = NULL
    /\ connectionState' = "RECONNECTING"
    /\ reconnectAttempts' = IF reconnectAttempts < MaxAttempts THEN reconnectAttempts + 1 ELSE MaxAttempts
    /\ Retry(handlers[s])

Closed(s) ==
    /\ ready' = [ready EXCEPT ![s] = "none"] /\ handlers' = [handlers EXCEPT ![s] = NULL]
    /\ IF Current(s) THEN OnClose(s)
       ELSE UNCHANGED <<activeSocket, connectionState, reconnectAttempts, reconnectTimer>>
    /\ UNCHANGED <<agingTimer, activeSessionId, subscriberCount, heard, network>>

\* The gateway closes the connection, or close() has completed.
SocketCloses(s) == ready[s] \in {"open", "closing"} /\ Closed(s) /\ UNCHANGED lastError

\* The browser fires the error event and the close event in one task.
SocketFails(s) ==
    /\ ready[s] = "dead" \/ (ready[s] = "connecting" /\ ~network)
    /\ Closed(s)
    /\ lastError' = (lastError \/ Current(s))

\* The reconnect timer's callback.  The timer of an ended session would do nothing.
ReconnectTimerFires ==
    /\ reconnectTimer # NULL
    /\ IF reconnectTimer = activeSessionId /\ subscriberCount > 0 THEN Connect(reconnectTimer)
       ELSE reconnectTimer' = NULL /\ UNCHANGED <<ready, handlers, activeSocket, source>>
    /\ UNCHANGED <<agingTimer, activeSessionId, subscriberCount, network>>

(***************************************************************************)
(* The way to the gateway is lost and found again; open connections do not *)
(* survive that, though the browser may learn of it much later.            *)
(***************************************************************************)
NetworkLost ==
    /\ network /\ network' = FALSE
    /\ ready' = [s \in Sockets |-> IF ready[s] = "open" THEN "dead" ELSE ready[s]]
    /\ UNCHANGED <<handlers, hook, source>>

NetworkFound ==
    /\ ~network /\ network' = TRUE
    /\ UNCHANGED <<ready, handlers, hook, source>>

Next ==
    \/ Mount \/ Unmount
    \/ ReconnectTimerFires
    \/ \E s \in Sockets : SocketOpens(s) \/ SocketMessage(s) \/ SocketCloses(s) \/ SocketFails(s)
    \/ NetworkLost \/ NetworkFound

\* The browser runs its timers, ends every opening handshake, reports a dead connection at last
\* and completes a closing one.  The gateway need not close a connection that is open.
Fairness ==
    /\ WF_vars(ReconnectTimerFires)
    /\ \A s \in Sockets :
         /\ WF_vars(SocketOpens(s)) /\ WF_vars(SocketFails(s))
         /\ WF_vars(ready[s] = "closing" /\ SocketCloses(s))

Spec == Init /\ [][Next]_vars /\ Fairness

-----------------------------------------------------------------------------
\* Every variable has its type.
TypeOK ==
    /\ ready \in [Sockets -> {"none", "connecting", "open", "dead", "closing"}]
    /\ handlers \in [Sockets -> Nat \cup {NULL}]
    /\ activeSocket \in Sockets \cup {NULL}
    /\ reconnectTimer \in Nat \cup {NULL}
    /\ agingTimer \in BOOLEAN
    /\ activeSessionId \in Nat /\ subscriberCount \in 0..MaxSubscribers
    /\ connectionState \in {"OFFLINE", "CONNECTING", "CONNECTED", "RECONNECTING"}
    /\ reconnectAttempts \in 0..MaxAttempts
    /\ lastError \in BOOLEAN /\ heard \in BOOLEAN /\ network \in BOOLEAN

\* However often components mount and unmount and whatever the sockets do in between, only the
\* active socket is opening, open or able to call a handler, it belongs to the current session,
\* and it and the two timers do not outlive the last component that is mounted.
OneSession ==
    /\ \A s \in Sockets :
         /\ handlers[s] # NULL => s = activeSocket
         /\ ready[s] \in {"connecting", "open", "dead"} <=> s = activeSocket
    /\ activeSocket # NULL => handlers[activeSocket] = activeSessionId
    /\ reconnectTimer # NULL => reconnectTimer = activeSessionId
    /\ agingTimer <=> subscriberCount > 0
    /\ subscriberCount = 0 => activeSocket = NULL /\ reconnectTimer = NULL

\* The state the console shows is that of the socket, one state for each, and while a component
\* is mounted there is a socket or another attempt is due: the console is never left with
\* neither.  A connection that is shown has no error and no attempts beside it.
ShownAsItIs ==
    /\ connectionState = "OFFLINE" <=> subscriberCount = 0
    /\ connectionState = "RECONNECTING" <=> reconnectTimer # NULL
    /\ connectionState = "CONNECTING" <=> \E s \in Sockets : s = activeSocket /\ ready[s] = "connecting"
    /\ connectionState = "CONNECTED" <=> \E s \in Sockets : s = activeSocket /\ ready[s] \in {"open", "dead"}
    /\ connectionState = "CONNECTED" => reconnectAttempts = 0 /\ ~lastError

Contract == INSTANCE ConnectionContract

\* The store is told of connections and given messages in the order ConnectionContract states.
ImplementsConnection == Contract!Spec

\* As long as a component is mounted and the gateway can be reached, the console is connected
\* again and again, however often the connection fails.
ReconnectsAtLast == []<>(connectionState = "CONNECTED" \/ subscriberCount = 0 \/ ~network)
=============================================================================
