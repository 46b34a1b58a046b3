------------------------- MODULE ConnectionContract -------------------------
(***************************************************************************)
(* What the telemetry socket promises the console's store: the order in    *)
(* which the store is told of connections and given messages.  These are   *)
(* the connection actions TelemetryStore starts from.                      *)
(***************************************************************************)
VARIABLES
    connectionState,
    heard  \* a message was handed over since the statistics were last reset

Init == connectionState = "OFFLINE" /\ heard = FALSE

\* A new attempt: from nothing, or from a connection that was reported lost.
Connect ==
    /\ connectionState \in {"OFFLINE", "RECONNECTING"}
    /\ connectionState' = "CONNECTING" /\ UNCHANGED heard

\* The store's statistics are reset in the same step, before the first message.
Opened ==
    /\ connectionState = "CONNECTING"
    /\ connectionState' = "CONNECTED" /\ heard' = FALSE

Lost ==
    /\ connectionState \in {"CONNECTING", "CONNECTED"}
    /\ connectionState' = "RECONNECTING" /\ UNCHANGED heard

Unmounted ==
    /\ connectionState # "OFFLINE"
    /\ connectionState' = "OFFLINE" /\ UNCHANGED heard

Message ==
    /\ connectionState = "CONNECTED"
    /\ heard' = TRUE /\ UNCHANGED connectionState

Next == Connect \/ Opened \/ Lost \/ Unmounted \/ Message

Spec == Init /\ [][Next]_<<connectionState, heard>>
=============================================================================
