------------------------- MODULE TelemetrySocketProofs -------------------------
(***************************************************************************)
(* Machine-checked theorems about the telemetry socket, for any number of  *)
(* sockets, of components that mount the hook, and of sessions.  The       *)
(* invariant is the conjunction of the types and of the two properties the *)
(* runs check, each of which needs the other: a reconnect timer that fires *)
(* finds no socket because the shown state is the socket's.                *)
(***************************************************************************)
EXTENDS TelemetrySocket, TLAPS

Live == {"connecting", "open", "dead"}
SocketInv == TypeOK /\ OneSession /\ ShownAsItIs

-----------------------------------------------------------------------------
(*                         facts about the invariant                       *)

(* The state tells whether there is a socket. *)
LEMMA NoSocketNoConnection ==
  ASSUME SocketInv
  PROVE  activeSocket = NULL <=> connectionState \in {"OFFLINE", "RECONNECTING"}
<1>1. connectionState \in {"OFFLINE", "CONNECTING", "CONNECTED", "RECONNECTING"}
  BY Zenon DEF SocketInv, TypeOK
<1>2. activeSocket = NULL => ~\E s \in Sockets : s = activeSocket
  BY NullAssumption, Zenon
<1>3. ASSUME activeSocket # NULL PROVE connectionState \in {"CONNECTING", "CONNECTED"}
  <2>1. activeSocket \in Sockets
    BY <1>3, Zenon DEF SocketInv, TypeOK
  <2>2. ready[activeSocket] \in Live
    BY <2>1, Zenon DEF SocketInv, OneSession, Live
  <2>3. QED BY <2>1, <2>2, Zenon DEF SocketInv, ShownAsItIs, Live
<1>4. activeSocket = NULL => connectionState \notin {"CONNECTING", "CONNECTED"}
  BY <1>2, Zenon DEF SocketInv, ShownAsItIs
<1>5. QED BY <1>1, <1>3, <1>4

(* A socket that is opening or open is the current one. *)
LEMMA LiveIsCurrent ==
  ASSUME SocketInv, NEW s \in Sockets, ready[s] \in Live
  PROVE  Current(s)
<1>1. s = activeSocket
  BY Zenon DEF SocketInv, OneSession, Live
<1>2. s # NULL
  BY NullAssumption, Zenon
<1>3. handlers[s] = activeSessionId
  BY <1>1, <1>2, Zenon DEF SocketInv, OneSession
<1>4. activeSessionId # NULL
  BY NullAssumption, Zenon DEF SocketInv, TypeOK
<1>5. QED BY <1>1, <1>3, <1>4, Zenon DEF Current

(* One that is not has no handler. *)
LEMMA OthersAreNot ==
  ASSUME SocketInv, NEW s \in Sockets, ready[s] \notin Live
  PROVE  ~Current(s) /\ s # activeSocket /\ handlers[s] = NULL
  BY Zenon DEF SocketInv, OneSession, Live, Current

(* With no socket to close, connecting adds one. *)
LEMMA ConnectAdds ==
  ASSUME SocketInv, activeSocket = NULL, NEW session, Connect(session)
  PROVE  \E new \in Sockets :
           /\ ready[new] = "none" /\ activeSocket' = new
           /\ ready' = [ready EXCEPT ![new] = "connecting"]
           /\ handlers' = [handlers EXCEPT ![new] = session]
<1>1. PICK new \in Sockets : ready[new] = "none" /\ ReplaceSocket(new, session)
  BY Zenon DEF Connect
<1>2. \A s \in Sockets : s # activeSocket
  BY NullAssumption
<1>3. ready \in [Sockets -> {"none", "connecting", "open", "dead", "closing"}]
      /\ handlers \in [Sockets -> Nat \cup {NULL}]
  BY Zenon DEF SocketInv, TypeOK
<1>4. ready' = [ready EXCEPT ![new] = "connecting"]
  BY <1>1, <1>2, <1>3 DEF ReplaceSocket
<1>5. handlers' = [handlers EXCEPT ![new] = session]
  BY <1>1, <1>2, <1>3 DEF ReplaceSocket
<1>6. activeSocket' = new
  BY <1>1, Zenon DEF ReplaceSocket
<1>7. QED BY <1>1, <1>4, <1>5, <1>6, Zenon

-----------------------------------------------------------------------------
(*                         the invariant is kept                           *)

(* A session's first or next socket. *)
LEMMA ConnectKeeps ==
  ASSUME SocketInv, activeSocket = NULL, activeSessionId' \in Nat,
         subscriberCount' \in 0..MaxSubscribers, subscriberCount' > 0, agingTimer' = TRUE,
         Connect(activeSessionId'), network' = network
  PROVE  SocketInv'
<1>1. PICK new \in Sockets :
        /\ ready[new] = "none" /\ activeSocket' = new
        /\ ready' = [ready EXCEPT ![new] = "connecting"]
        /\ handlers' = [handlers EXCEPT ![new] = activeSessionId']
  BY ConnectAdds, Zenon
<1>2. /\ reconnectTimer' = NULL /\ connectionState' = "CONNECTING"
      /\ reconnectAttempts' = reconnectAttempts /\ lastError' = lastError /\ heard' = heard
  BY Zenon DEF Connect, NotConnected
<1>3. ready \in [Sockets -> {"none", "connecting", "open", "dead", "closing"}]
      /\ handlers \in [Sockets -> Nat \cup {NULL}]
  BY Zenon DEF SocketInv, TypeOK
<1>4. \A s \in Sockets : handlers[s] = NULL /\ ready[s] \notin Live
  BY NullAssumption, Zenon DEF SocketInv, OneSession, Live
<1>5. ready' \in [Sockets -> {"none", "connecting", "open", "dead", "closing"}]
      /\ handlers' \in [Sockets -> Nat \cup {NULL}]
  BY <1>1, <1>3
<1>6. TypeOK'
  <2>1. activeSocket' \in Sockets \cup {NULL} /\ reconnectTimer' \in Nat \cup {NULL} /\ agingTimer' \in BOOLEAN
    BY <1>1, <1>2, Zenon
  <2>2. reconnectAttempts' \in 0..MaxAttempts /\ lastError' \in BOOLEAN /\ heard' \in BOOLEAN /\ network' \in BOOLEAN
    BY <1>2, Zenon DEF SocketInv, TypeOK
  <2>3. connectionState' \in {"OFFLINE", "CONNECTING", "CONNECTED", "RECONNECTING"}
    BY <1>2, Zenon
  <2>4. QED BY <1>5, <2>1, <2>2, <2>3, Zenon DEF TypeOK
<1>7. subscriberCount' # 0
  BY DEF TypeOK
<1>8. \A s \in Sockets : (s = new => ready'[s] = "connecting" /\ handlers'[s] = activeSessionId')
                         /\ (s # new => ready'[s] \notin Live /\ handlers'[s] = NULL)
  BY <1>1, <1>3, <1>4
<1>9. "connecting" \in Live
  BY DEF Live
<1>10. OneSession'
  <2>1. \A s \in Sockets : /\ handlers'[s] # NULL => s = activeSocket'
                           /\ ready'[s] \in Live <=> s = activeSocket'
    BY <1>1, <1>8, <1>9, Zenon
  <2>2. handlers'[activeSocket'] = activeSessionId'
    BY <1>1, <1>8, Zenon
  <2>3. QED BY <1>2, <1>7, <2>1, <2>2, Zenon DEF OneSession, Live
<1>11. ShownAsItIs'
  <2>1. \E s \in Sockets : s = activeSocket' /\ ready'[s] = "connecting"
    BY <1>1, <1>8, Zenon
  <2>2. ~\E s \in Sockets : s = activeSocket' /\ ready'[s] \in {"open", "dead"}
    BY <1>1, <1>8
  <2>3. connectionState' = "CONNECTING" /\ connectionState' # "OFFLINE" /\ connectionState' # "RECONNECTING"
        /\ connectionState' # "CONNECTED"
    BY <1>2
  <2>4. QED BY <1>2, <1>7, <2>1, <2>2, <2>3, Zenon DEF ShownAsItIs
<1>12. QED BY <1>6, <1>10, <1>11, Zenon DEF SocketInv

LEMMA MountKeeps == ASSUME SocketInv, Mount PROVE SocketInv'
<1>1. subscriberCount \in 0..MaxSubscribers /\ activeSessionId \in Nat
  BY Zenon DEF SocketInv, TypeOK
<1>2. subscriberCount' \in 0..MaxSubscribers /\ subscriberCount' > 0
  BY <1>1, BoundsAssumption DEF Mount
<1>3. CASE subscriberCount = 0
  <2>1. activeSocket = NULL
    BY <1>3, Zenon DEF SocketInv, OneSession
  <2>2. ~(subscriberCount > 0)
    BY <1>3
  <2>3. /\ activeSessionId' = activeSessionId + 1 /\ agingTimer' = TRUE
        /\ Connect(activeSessionId + 1) /\ network' = network
    BY <2>2, Zenon DEF Mount
  <2>4. activeSessionId' \in Nat
    BY <1>1, <2>3
  <2>5. Connect(activeSessionId')
    BY <2>3
  <2>6. QED BY <1>2, <2>1, <2>3, <2>4, <2>5, ConnectKeeps, Zenon
<1>4. CASE subscriberCount > 0
  <2>1. subscriberCount # 0 /\ subscriberCount' # 0
    BY <1>1, <1>2, <1>4
  <2>2. UNCHANGED <<ready, handlers, activeSocket, reconnectTimer, agingTimer, activeSessionId, source, network>>
    BY <2>1, Zenon DEF Mount
  <2>3. TypeOK'
    BY <1>2, <2>2, Zenon DEF SocketInv, TypeOK, source
  <2>4. OneSession'
    BY <1>2, <1>4, <2>1, <2>2, Zenon DEF SocketInv, OneSession
  <2>5. ShownAsItIs'
    BY <2>1, <2>2, Zenon DEF SocketInv, ShownAsItIs, source
  <2>6. QED BY <2>3, <2>4, <2>5, Zenon DEF SocketInv
<1>5. QED BY <1>1, <1>3, <1>4

LEMMA UnmountKeeps == ASSUME SocketInv, Unmount PROVE SocketInv'
<1>1. subscriberCount \in 0..MaxSubscribers /\ activeSessionId \in Nat /\ MaxSubscribers \in Nat
  BY BoundsAssumption, Zenon DEF SocketInv, TypeOK
<1>2. subscriberCount > 0 /\ subscriberCount' = subscriberCount - 1 /\ network' = network
  BY Zenon DEF Unmount
<1>3. subscriberCount' \in 0..MaxSubscribers
  BY <1>1, <1>2
<1>4. CASE subscriberCount = 1
  <2>1. subscriberCount' = 0 /\ ~(subscriberCount' > 0) /\ ~(subscriberCount > 1)
    BY <1>2, <1>4
  <2>2. /\ activeSessionId' = activeSessionId + 1
        /\ reconnectTimer' = NULL /\ agingTimer' = FALSE
        /\ ReplaceSocket(NULL, NULL)
        /\ connectionState' = "OFFLINE" /\ UNCHANGED <<reconnectAttempts, lastError, heard>>
    BY <2>1, Zenon DEF Unmount, StopTimers, NotConnected
  <2>3. activeSessionId' \in Nat
    BY <1>1, <2>2
  <2>4. ready \in [Sockets -> {"none", "connecting", "open", "dead", "closing"}]
        /\ handlers \in [Sockets -> Nat \cup {NULL}]
    BY Zenon DEF SocketInv, TypeOK
  <2>5. \A s \in Sockets : s # NULL
    BY NullAssumption
  <2>6. /\ activeSocket' = NULL
        /\ ready' = [s \in Sockets |-> IF s = activeSocket THEN Abandoned(s) ELSE ready[s]]
        /\ handlers' = [s \in Sockets |-> IF s = activeSocket THEN NULL ELSE handlers[s]]
    BY <2>2, <2>5 DEF ReplaceSocket
  <2>7. \A s \in Sockets : s # activeSocket => handlers[s] = NULL /\ ready[s] \notin Live
    BY Zenon DEF SocketInv, OneSession, Live
  <2>8. \A s \in Sockets : Abandoned(s) \in {"none", "closing"}
    BY <2>4 DEF Abandoned
  <2>9. ready' \in [Sockets -> {"none", "connecting", "open", "dead", "closing"}]
        /\ handlers' \in [Sockets -> Nat \cup {NULL}]
    BY <2>4, <2>6, <2>8
  <2>10. \A s \in Sockets : handlers'[s] = NULL /\ ready'[s] \notin Live
    BY <2>6, <2>7, <2>8 DEF Live
  <2>11. TypeOK'
    BY <1>2, <1>3, <2>2, <2>3, <2>6, <2>9, Zenon DEF SocketInv, TypeOK
  <2>12. OneSession'
    BY <2>1, <2>2, <2>5, <2>6, <2>10, Zenon DEF OneSession, Live
  <2>13. ShownAsItIs'
    <3>1. connectionState' # "CONNECTING" /\ connectionState' # "CONNECTED" /\ connectionState' # "RECONNECTING"
      BY <2>2
    <3>2. QED BY <2>1, <2>2, <2>5, <2>6, <3>1, Zenon DEF ShownAsItIs
  <2>14. QED BY <2>11, <2>12, <2>13, Zenon DEF SocketInv
<1>5. CASE subscriberCount > 1
  <2>1. subscriberCount # 1 /\ subscriberCount # 0 /\ subscriberCount' > 0 /\ subscriberCount' # 0
    BY <1>1, <1>2, <1>5
  <2>2. UNCHANGED <<ready, handlers, activeSocket, reconnectTimer, agingTimer, activeSessionId, source, network>>
    BY <2>1, Zenon DEF Unmount
  <2>3. TypeOK'
    BY <1>3, <2>2, Zenon DEF SocketInv, TypeOK, source
  <2>4. OneSession'
    BY <1>2, <2>1, <2>2, Zenon DEF SocketInv, OneSession
  <2>5. ShownAsItIs'
    BY <2>1, <2>2, Zenon DEF SocketInv, ShownAsItIs, source
  <2>6. QED BY <2>3, <2>4, <2>5, Zenon DEF SocketInv
<1>6. QED BY <1>1, <1>2, <1>4, <1>5

(* A timer that fires is of the current session, and finds no socket. *)
LEMMA TimerConnects ==
  ASSUME SocketInv, ReconnectTimerFires
  PROVE  /\ activeSocket = NULL /\ connectionState = "RECONNECTING" /\ subscriberCount > 0
         /\ Connect(activeSessionId)
         /\ UNCHANGED <<agingTimer, activeSessionId, subscriberCount, network>>
<1>1. reconnectTimer # NULL /\ reconnectTimer = activeSessionId /\ subscriberCount # 0
  BY Zenon DEF ReconnectTimerFires, SocketInv, OneSession
<1>2. connectionState = "RECONNECTING"
  BY <1>1, Zenon DEF SocketInv, ShownAsItIs
<1>3. activeSocket = NULL
  BY <1>2, NoSocketNoConnection
<1>4. subscriberCount > 0
  <2>1. subscriberCount \in 0..MaxSubscribers
    BY Zenon DEF SocketInv, TypeOK
  <2>2. QED BY <1>1, <2>1, BoundsAssumption
<1>5. QED BY <1>1, <1>2, <1>3, <1>4, Zenon DEF ReconnectTimerFires

LEMMA TimerKeeps == ASSUME SocketInv, ReconnectTimerFires PROVE SocketInv'
<1>1. /\ activeSocket = NULL /\ subscriberCount > 0 /\ Connect(activeSessionId)
      /\ UNCHANGED <<agingTimer, activeSessionId, subscriberCount, network>>
  BY TimerConnects, Zenon
<1>2. activeSessionId' \in Nat /\ subscriberCount' \in 0..MaxSubscribers /\ subscriberCount' > 0
  BY <1>1, Zenon DEF SocketInv, TypeOK
<1>3. agingTimer' = TRUE
  BY <1>1, Zenon DEF SocketInv, OneSession, TypeOK
<1>4. Connect(activeSessionId')
  BY <1>1
<1>5. QED BY <1>1, <1>2, <1>3, <1>4, ConnectKeeps, Zenon

LEMMA OpensKeeps == ASSUME SocketInv, NEW s \in Sockets, SocketOpens(s) PROVE SocketInv'
<1>1. ready[s] = "connecting" /\ ready' = [ready EXCEPT ![s] = "open"] /\ UNCHANGED <<handlers, hook, network>>
  BY Zenon DEF SocketOpens
<1>2. ready[s] \in Live
  BY <1>1 DEF Live
<1>3. Current(s) /\ s = activeSocket
  BY <1>2, LiveIsCurrent, Zenon DEF Current
<1>4. heard' = FALSE /\ reconnectAttempts' = 0 /\ connectionState' = "CONNECTED" /\ lastError' = FALSE
  BY <1>3, Zenon DEF SocketOpens, OnOpen
<1>5. UNCHANGED <<handlers, activeSocket, reconnectTimer, agingTimer, activeSessionId, subscriberCount, network>>
  BY <1>1, Zenon DEF hook
<1>6. ready \in [Sockets -> {"none", "connecting", "open", "dead", "closing"}]
  BY Zenon DEF SocketInv, TypeOK
<1>7. ready' \in [Sockets -> {"none", "connecting", "open", "dead", "closing"}]
      /\ ready'[s] = "open" /\ \A q \in Sockets : q # s => ready'[q] = ready[q]
  BY <1>1, <1>6
<1>8. connectionState = "CONNECTING"
  BY <1>1, <1>3, Zenon DEF SocketInv, ShownAsItIs
<1>9. connectionState # "OFFLINE" /\ connectionState # "RECONNECTING" /\ connectionState' # "CONNECTING"
      /\ connectionState' # "OFFLINE" /\ connectionState' # "RECONNECTING"
  BY <1>4, <1>8
<1>10. TypeOK'
  <2>1. 0 \in 0..MaxAttempts
    BY BoundsAssumption
  <2>2. QED BY <1>4, <1>5, <1>7, <2>1, Zenon DEF SocketInv, TypeOK
<1>11. OneSession'
  <2>1. \A q \in Sockets : ready'[q] \in Live <=> ready[q] \in Live
    BY <1>1, <1>6, <1>7 DEF Live
  <2>2. QED BY <1>5, <2>1, Zenon DEF SocketInv, OneSession, Live
<1>12. ShownAsItIs'
  <2>1. ~\E q \in Sockets : q = activeSocket' /\ ready'[q] = "connecting"
    BY <1>3, <1>5, <1>7
  <2>2. \E q \in Sockets : q = activeSocket' /\ ready'[q] \in {"open", "dead"}
    BY <1>3, <1>5, <1>7
  <2>3. QED BY <1>4, <1>5, <1>9, <2>1, <2>2, Zenon DEF SocketInv, ShownAsItIs
<1>13. QED BY <1>10, <1>11, <1>12, Zenon DEF SocketInv

LEMMA MessageKeeps == ASSUME SocketInv, NEW s \in Sockets, SocketMessage(s) PROVE SocketInv'
<1>1. heard' = TRUE /\ UNCHANGED <<ready, handlers, hook, connectionState, reconnectAttempts, lastError, network>>
  BY Zenon DEF SocketMessage
<1>2. QED BY <1>1, Zenon DEF SocketInv, TypeOK, OneSession, ShownAsItIs, hook

(* The close event of the current socket, and of one that was taken off. *)
LEMMA CurrentCloses ==
  ASSUME SocketInv, NEW s \in Sockets, Closed(s), Current(s)
  PROVE  /\ ready' = [ready EXCEPT ![s] = "none"] /\ handlers' = [handlers EXCEPT ![s] = NULL]
         /\ s = activeSocket /\ activeSocket' = NULL /\ connectionState' = "RECONNECTING"
         /\ reconnectTimer' = activeSessionId /\ reconnectAttempts' \in 0..MaxAttempts
         /\ UNCHANGED <<agingTimer, activeSessionId, subscriberCount, heard, network>>
<1>1. OnClose(s) /\ s = activeSocket /\ handlers[s] = activeSessionId
  BY Zenon DEF Closed, Current
<1>2. reconnectAttempts \in 0..MaxAttempts /\ MaxAttempts \in Nat
  BY BoundsAssumption, Zenon DEF SocketInv, TypeOK
<1>3. reconnectAttempts' = IF reconnectAttempts < MaxAttempts THEN reconnectAttempts + 1 ELSE MaxAttempts
  BY <1>1, Zenon DEF OnClose
<1>4. reconnectAttempts' \in 0..MaxAttempts
  BY <1>2, <1>3
<1>5. QED BY <1>1, <1>4, Zenon DEF OnClose, Retry, Closed

LEMMA OtherCloses ==
  ASSUME SocketInv, NEW s \in Sockets, Closed(s), ~Current(s)
  PROVE  /\ ready' = [ready EXCEPT ![s] = "none"] /\ handlers' = [handlers EXCEPT ![s] = NULL]
         /\ UNCHANGED <<hook, connectionState, reconnectAttempts, heard, network>>
  BY Zenon DEF Closed, hook

LEMMA ClosedKeeps ==
  ASSUME SocketInv, NEW s \in Sockets, Closed(s), lastError' = (lastError \/ Current(s)) \/ lastError' = lastError
  PROVE  SocketInv'
<1>1. ready \in [Sockets -> {"none", "connecting", "open", "dead", "closing"}]
      /\ handlers \in [Sockets -> Nat \cup {NULL}]
  BY Zenon DEF SocketInv, TypeOK
<1>2. ready' = [ready EXCEPT ![s] = "none"] /\ handlers' = [handlers EXCEPT ![s] = NULL]
  BY Zenon DEF Closed
<1>3. ready' \in [Sockets -> {"none", "connecting", "open", "dead", "closing"}]
      /\ handlers' \in [Sockets -> Nat \cup {NULL}]
  BY <1>1, <1>2
<1>4. /\ ready'[s] = "none" /\ handlers'[s] = NULL
      /\ \A q \in Sockets : q # s => ready'[q] = ready[q] /\ handlers'[q] = handlers[q]
  BY <1>1, <1>2
<1>5. "none" \notin Live /\ "none" \notin {"open", "dead"}
  BY DEF Live
<1>6. lastError \in BOOLEAN /\ lastError' \in BOOLEAN
  BY Zenon DEF SocketInv, TypeOK, Current
<1>7. CASE Current(s)
  <2>1. /\ s = activeSocket /\ activeSocket' = NULL /\ connectionState' = "RECONNECTING"
        /\ reconnectTimer' = activeSessionId /\ reconnectAttempts' \in 0..MaxAttempts
        /\ UNCHANGED <<agingTimer, activeSessionId, subscriberCount, heard, network>>
    BY <1>7, CurrentCloses, Zenon
  <2>2. activeSessionId \in Nat /\ activeSessionId # NULL
    BY NullAssumption, Zenon DEF SocketInv, TypeOK
  <2>3. \A q \in Sockets : q # NULL
    BY NullAssumption
  <2>4. subscriberCount # 0
    BY <2>1, <2>3, Zenon DEF SocketInv, OneSession
  <2>5. \A q \in Sockets : handlers'[q] = NULL /\ ready'[q] \notin Live
    BY <1>4, <1>5, <2>1, Zenon DEF SocketInv, OneSession, Live
  <2>6. connectionState' # "OFFLINE" /\ connectionState' # "CONNECTING" /\ connectionState' # "CONNECTED"
    BY <2>1
  <2>7. TypeOK'
    BY <1>3, <1>6, <2>1, <2>2, Zenon DEF SocketInv, TypeOK
  <2>8. OneSession'
    BY <2>1, <2>3, <2>4, <2>5, Zenon DEF SocketInv, OneSession, Live
  <2>9. ShownAsItIs'
    BY <2>1, <2>2, <2>3, <2>4, <2>6, Zenon DEF ShownAsItIs
  <2>10. QED BY <2>7, <2>8, <2>9, Zenon DEF SocketInv
<1>8. CASE ~Current(s)
  <2>1. UNCHANGED <<activeSocket, reconnectTimer, agingTimer, activeSessionId, subscriberCount,
                    connectionState, reconnectAttempts, heard, network>>
    BY <1>8, OtherCloses, Zenon DEF hook
  <2>2. lastError' = lastError
    BY <1>6, <1>8, Zenon
  <2>3. ready[s] \notin Live /\ s # activeSocket
    BY <1>8, LiveIsCurrent, OthersAreNot, Zenon
  <2>4. TypeOK'
    BY <1>3, <2>1, <2>2, Zenon DEF SocketInv, TypeOK
  <2>5. OneSession'
    <3>1. \A q \in Sockets : /\ handlers'[q] # NULL => q = activeSocket'
                             /\ ready'[q] \in Live <=> q = activeSocket'
      BY <1>4, <1>5, <2>1, <2>3, Zenon DEF SocketInv, OneSession, Live
    <3>2. activeSocket' # NULL => handlers'[activeSocket'] = activeSessionId'
      <4>1. activeSocket # NULL => activeSocket \in Sockets
        BY Zenon DEF SocketInv, TypeOK
      <4>2. QED BY <1>4, <2>1, <2>3, <4>1, Zenon DEF SocketInv, OneSession
    <3>3. QED BY <2>1, <3>1, <3>2, Zenon DEF SocketInv, OneSession, Live
  <2>6. ShownAsItIs'
    <3>1. \A q \in Sockets : q = activeSocket => ready'[q] = ready[q]
      BY <1>4, <2>3, Zenon
    <3>2. QED BY <2>1, <2>2, <3>1, Zenon DEF SocketInv, ShownAsItIs
  <2>7. QED BY <2>4, <2>5, <2>6, Zenon DEF SocketInv
<1>9. QED BY <1>7, <1>8

LEMMA NetworkKeeps == ASSUME SocketInv, NetworkLost \/ NetworkFound PROVE SocketInv'
<1>1. ready \in [Sockets -> {"none", "connecting", "open", "dead", "closing"}]
  BY Zenon DEF SocketInv, TypeOK
<1>2. UNCHANGED <<handlers, activeSocket, reconnectTimer, agingTimer, activeSessionId, subscriberCount,
                  connectionState, reconnectAttempts, lastError, heard>> /\ network' \in BOOLEAN
  BY Zenon DEF NetworkLost, NetworkFound, hook, source
<1>3. /\ ready' \in [Sockets -> {"none", "connecting", "open", "dead", "closing"}]
      /\ \A s \in Sockets : /\ ready'[s] \in Live <=> ready[s] \in Live
                            /\ ready'[s] = "connecting" <=> ready[s] = "connecting"
                            /\ ready'[s] \in {"open", "dead"} <=> ready[s] \in {"open", "dead"}
  BY <1>1 DEF NetworkLost, NetworkFound, Live
<1>4. TypeOK'
  BY <1>2, <1>3, Zenon DEF SocketInv, TypeOK
<1>5. OneSession'
  BY <1>2, <1>3, Zenon DEF SocketInv, OneSession, Live
<1>6. ShownAsItIs'
  BY <1>2, <1>3, Zenon DEF SocketInv, ShownAsItIs
<1>7. QED BY <1>4, <1>5, <1>6, Zenon DEF SocketInv

LEMMA InitKeeps == Init => SocketInv
<1> SUFFICES ASSUME Init PROVE SocketInv
  OBVIOUS
<1>1. \A s \in Sockets : ready[s] = "none" /\ handlers[s] = NULL /\ s # NULL
  BY NullAssumption DEF Init
<1>2. /\ activeSocket = NULL /\ reconnectTimer = NULL /\ agingTimer = FALSE /\ activeSessionId = 0
      /\ subscriberCount = 0 /\ connectionState = "OFFLINE" /\ reconnectAttempts = 0
      /\ lastError = FALSE /\ heard = FALSE /\ network = TRUE
  BY Zenon DEF Init
<1>3. TypeOK
  <2>1. ready \in [Sockets -> {"none", "connecting", "open", "dead", "closing"}]
        /\ handlers \in [Sockets -> Nat \cup {NULL}]
    BY DEF Init
  <2>2. 0 \in Nat /\ subscriberCount \in 0..MaxSubscribers /\ reconnectAttempts \in 0..MaxAttempts
    BY <1>2, BoundsAssumption
  <2>3. QED BY <1>2, <2>1, <2>2, Zenon DEF TypeOK
<1>4. OneSession
  <2>1. ~(subscriberCount > 0) /\ "none" \notin {"connecting", "open", "dead"}
    BY <1>2
  <2>2. QED BY <1>1, <1>2, <2>1, Zenon DEF OneSession
<1>5. ShownAsItIs
  <2>1. connectionState # "CONNECTING" /\ connectionState # "CONNECTED" /\ connectionState # "RECONNECTING"
    BY <1>2
  <2>2. QED BY <1>1, <1>2, <2>1, Zenon DEF ShownAsItIs
<1>6. QED BY <1>3, <1>4, <1>5, Zenon DEF SocketInv

LEMMA StepKeeps == ASSUME SocketInv, [Next]_vars PROVE SocketInv'
<1>1. ASSUME NEW s \in Sockets, SocketCloses(s) \/ SocketFails(s) PROVE SocketInv'
  <2>1. Closed(s) /\ (lastError' = lastError \/ lastError' = (lastError \/ Current(s)))
    BY <1>1, Zenon DEF SocketCloses, SocketFails
  <2>2. QED BY <2>1, ClosedKeeps, Zenon
<1>2. CASE UNCHANGED vars
  BY <1>2, Zenon DEF vars, hook, source, SocketInv, TypeOK, OneSession, ShownAsItIs
<1>3. QED
  BY <1>1, <1>2, MountKeeps, UnmountKeeps, TimerKeeps, OpensKeeps, MessageKeeps, NetworkKeeps, Zenon DEF Next

LEMMA SocketInvariant == Spec => []SocketInv
  BY InitKeeps, StepKeeps, PTL DEF Spec

(* One socket at a time, of the current session, however often components   *)
(* mount and unmount and whatever the sockets do in between.                *)
THEOREM OneSocketAtATime == Spec => []OneSession
<1>1. SocketInv => OneSession
  BY Zenon DEF SocketInv
<1>2. QED BY <1>1, SocketInvariant, PTL

(* The console shows the state of the socket, and a mounted console has a   *)
(* socket or another attempt due.                                           *)
THEOREM SocketShown == Spec => []ShownAsItIs
<1>1. SocketInv => ShownAsItIs
  BY Zenon DEF SocketInv
<1>2. QED BY <1>1, SocketInvariant, PTL

-----------------------------------------------------------------------------
(*                         the refinement                                  *)

LEMMA ContractStep == ASSUME SocketInv, [Next]_vars PROVE [Contract!Next]_<<connectionState, heard>>
<1>1. CASE Mount
  <2>1. CASE subscriberCount = 0
    <3>1. connectionState = "OFFLINE"
      BY <2>1, Zenon DEF SocketInv, ShownAsItIs
    <3>2. ~(subscriberCount > 0)
      BY <2>1
    <3>3. connectionState' = "CONNECTING" /\ heard' = heard
      BY <1>1, <3>2, Zenon DEF Mount, Connect, NotConnected
    <3>4. Contract!Connect
      BY <3>1, <3>3 DEF Contract!Connect
    <3>5. QED BY <3>4 DEF Contract!Next
  <2>2. CASE subscriberCount # 0
    BY <1>1, <2>2, Zenon DEF Mount, source
  <2>3. QED BY <2>1, <2>2
<1>2. CASE Unmount
  <2>1. CASE subscriberCount = 1
    <3>1. ~(subscriberCount > 1) /\ subscriberCount # 0
      BY <2>1
    <3>2. connectionState # "OFFLINE"
      BY <3>1, Zenon DEF SocketInv, ShownAsItIs
    <3>3. connectionState' = "OFFLINE" /\ heard' = heard
      BY <1>2, <3>1, Zenon DEF Unmount, NotConnected
    <3>4. Contract!Unmounted
      BY <3>2, <3>3, Zenon DEF Contract!Unmounted
    <3>5. QED BY <3>4 DEF Contract!Next
  <2>2. CASE subscriberCount # 1
    BY <1>2, <2>2, Zenon DEF Unmount, source
  <2>3. QED BY <2>1, <2>2
<1>3. CASE ReconnectTimerFires
  <2>1. connectionState = "RECONNECTING" /\ Connect(activeSessionId)
    BY <1>3, TimerConnects, Zenon
  <2>2. Contract!Connect
    BY <2>1 DEF Connect, NotConnected, Contract!Connect
  <2>3. QED BY <2>2 DEF Contract!Next
<1>4. ASSUME NEW s \in Sockets, SocketOpens(s) PROVE Contract!Next
  <2>1. ready[s] = "connecting" /\ ready[s] \in Live
    BY <1>4 DEF SocketOpens, Live
  <2>2. Current(s) /\ s = activeSocket
    BY <2>1, LiveIsCurrent, Zenon DEF Current
  <2>3. connectionState = "CONNECTING"
    BY <2>1, <2>2, Zenon DEF SocketInv, ShownAsItIs
  <2>4. connectionState' = "CONNECTED" /\ heard' = FALSE
    BY <1>4, <2>2, Zenon DEF SocketOpens, OnOpen
  <2>5. QED BY <2>3, <2>4, Zenon DEF Contract!Opened, Contract!Next
<1>5. ASSUME NEW s \in Sockets, SocketMessage(s) PROVE Contract!Next
  <2>1. ready[s] \in {"open", "dead"} /\ s = activeSocket
    BY <1>5 DEF SocketMessage, Current
  <2>2. connectionState = "CONNECTED"
    BY <2>1, Zenon DEF SocketInv, ShownAsItIs
  <2>3. heard' = TRUE /\ connectionState' = connectionState
    BY <1>5, Zenon DEF SocketMessage
  <2>4. QED BY <2>2, <2>3, Zenon DEF Contract!Message, Contract!Next
<1>6. ASSUME NEW s \in Sockets, SocketCloses(s) \/ SocketFails(s) PROVE [Contract!Next]_<<connectionState, heard>>
  <2>1. Closed(s)
    BY <1>6, Zenon DEF SocketCloses, SocketFails
  <2>2. CASE Current(s)
    <3>1. s = activeSocket /\ activeSocket # NULL /\ connectionState' = "RECONNECTING" /\ heard' = heard
      BY <2>1, <2>2, NullAssumption, CurrentCloses, Zenon
    <3>2. connectionState \in {"CONNECTING", "CONNECTED"}
      <4>1. connectionState \in {"OFFLINE", "CONNECTING", "CONNECTED", "RECONNECTING"}
        BY Zenon DEF SocketInv, TypeOK
      <4>2. QED BY <3>1, <4>1, NoSocketNoConnection
    <3>3. Contract!Lost
      BY <3>1, <3>2, Zenon DEF Contract!Lost
    <3>4. QED BY <3>3 DEF Contract!Next
  <2>3. CASE ~Current(s)
    BY <2>1, <2>3, OtherCloses, Zenon
  <2>4. QED BY <2>2, <2>3
<1>7. CASE NetworkLost \/ NetworkFound
  BY <1>7, Zenon DEF NetworkLost, NetworkFound, source
<1>8. CASE UNCHANGED vars
  BY <1>8, Zenon DEF vars, source
<1>9. QED BY <1>1, <1>2, <1>3, <1>4, <1>5, <1>6, <1>7, <1>8, Zenon DEF Next

(* The socket implements the contract the store relies on: every step of it *)
(* is a step of ConnectionContract or leaves what the store is told alone.  *)
THEOREM SocketImplementsContract == Spec => ImplementsConnection
<1>1. Init => Contract!Init
  BY Zenon DEF Init, Contract!Init
<1>2. SocketInv /\ [Next]_vars => [Contract!Next]_<<connectionState, heard>>
  BY ContractStep
<1>3. QED BY <1>1, <1>2, SocketInvariant, PTL DEF Spec, ImplementsConnection, Contract!Spec
=============================================================================
