-------------------------------- MODULE RtcDrift --------------------------------
(***************************************************************************)
(* The DS3231, whose oscillator drifts, stops and is set, the packets MAIN *)
(* sends about it, and the part of the console's store that keeps them:    *)
(* the latest status, the latest sync result, the session's drift baseline *)
(* and the event store, whose oldest events roll over.                     *)
(***************************************************************************)
EXTENDS RtcEvidence

CONSTANTS
    MaxEvents, \* DEFAULT_EVENT_STORE_MAX_EVENTS
    MaxTime,   \* bound: steps of the Pi's clock
    MaxEpoch,  \* bound: times the clock is stopped or set
    MaxOffset, \* bound: fractions the running clock strays
    MaxLate    \* fractions a setting is behind the Pi's clock, the request's age (10 s)

ASSUME BoundsAssumption ==
    /\ MaxEvents \in Nat \ {0}
    /\ {MaxTime, MaxEpoch, MaxOffset, MaxLate} \subseteq Nat

VARIABLES
    now,          \* the Pi's clock
    offset,       \* how far the DS3231 is ahead of it; NULL: a date before 2026
    osf,          \* its oscillator stop flag
    epoch,        \* how often it was stopped or set
    unreported,   \* set since the last sync result that was accepted
    eventStore,   \* the latest events: plainly accepted status packets, NULL for any other
    latestStatus, \* latestRtcStatusPacket
    latestSync,   \* latestRtcSyncResult
    driftBaseline \* rtcDriftBaseline
clock == <<offset, osf, epoch>>
rtcSlice == <<eventStore, latestStatus, latestSync, driftBaseline>>
vars == <<now, clock, unreported, rtcSlice>>

(***************************************************************************)
(* The DS3231.                                                             *)
(***************************************************************************)
Init ==
    /\ now = 0
    /\ offset \in {NULL, 0} /\ osf = TRUE /\ epoch = 0 /\ unreported = FALSE
    /\ eventStore = <<>> /\ latestStatus = NULL /\ latestSync = NULL /\ driftBaseline = NULL

\* A step of time, the oscillator running a little fast or slow.
TimePasses(drift) ==
    /\ now < MaxTime
    /\ drift # 0 => (offset # NULL /\ Abs(offset + drift) <= MaxOffset)
    /\ now' = now + 1
    /\ offset' = IF offset = NULL THEN NULL ELSE offset + drift
    /\ UNCHANGED <<osf, epoch, unreported, rtcSlice>>

\* A step in which the oscillator stops: for an instant, for some or all of
\* the step, or without a supply that keeps the registers.
OscillatorStops ==
    /\ now < MaxTime /\ epoch < MaxEpoch
    /\ now' = now + 1 /\ osf' = TRUE /\ epoch' = epoch + 1
    /\ offset' \in {NULL} \cup (IF offset \in -MaxOffset..MaxOffset THEN {offset, offset - Step} ELSE {})
    /\ UNCHANGED <<unreported, rtcSlice>>

(***************************************************************************)
(* The store: ingestPacket of an accepted packet.  The event is appended   *)
(* first, and a session without a baseline looks for one in the store as   *)
(* it is then.                                                             *)
(***************************************************************************)
Appended(event) ==
    LET all == Append(eventStore, event)
    IN  IF Len(all) > MaxEvents THEN Tail(all) ELSE all

\* A slip: the baseline is taken from the event store again with every packet.
DerivedAnew(existing, sync, events) == BaselineForSession(sync, events)

KeptOrDerived(existing, sync, events) ==
    IF existing # NULL THEN existing ELSE BaselineForSession(sync, events)

IngestRtcStatus(status, anomaly) ==
    /\ eventStore' = Appended(IF anomaly THEN NULL ELSE status)
    /\ latestStatus' = status
    /\ latestSync' = latestSync
    /\ driftBaseline' = KeptOrDerived(driftBaseline, latestSync, eventStore')

IngestRtcSyncResult(sync) ==
    /\ eventStore' = Appended(NULL)
    /\ latestStatus' = latestStatus
    /\ latestSync' = sync
    /\ driftBaseline' = KeptOrDerived(NULL, sync, eventStore')

IngestOther ==
    /\ eventStore' = Appended(NULL)
    /\ UNCHANGED <<latestStatus, latestSync>>
    /\ driftBaseline' = KeptOrDerived(driftBaseline, latestSync, eventStore')

\* A rejected packet is an event too, and no baseline is looked for.
RecordRejection ==
    /\ eventStore' = Appended(NULL)
    /\ UNCHANGED <<latestStatus, latestSync, driftBaseline>>

(***************************************************************************)
(* Packets.                                                                *)
(***************************************************************************)
\* A status is accepted, after a gap or a reset with an anomaly.  The
\* registers may not be read.
StatusArrives ==
    \E anomaly \in BOOLEAN, readable \in BOOLEAN :
        /\ IngestRtcStatus([at |-> now, readable |-> readable, osf |-> readable /\ osf,
                            reading |-> IF readable /\ offset # NULL THEN now * Step + offset ELSE NULL,
                            epoch |-> epoch],
                           anomaly)
        /\ UNCHANGED <<now, clock, unreported>>

\* MAIN sets the clock to the time of the request, which is some time old,
\* reads it back and compares it with the request, not with the Pi's clock.
\* The flag is cleared and the result a success, or a step fails, perhaps
\* the first one, before anything is written.
ClockIsSet(delta, late, ok) ==
    /\ epoch < MaxEpoch
    /\ epoch' = epoch + 1
    /\ offset' \in (IF ok THEN {delta - late} ELSE {delta - late, offset})
    /\ osf' \in (IF ok THEN {FALSE} ELSE {osf, FALSE})

\* emitTransactionResult, and emitResult for a request that is refused.
Outcome(delta, ok) ==
    [id |-> epoch', at |-> now, result |-> IF ok THEN "RTC_SYNC_SUCCESS" ELSE "RTC_SYNC_FAILED",
     transaction |-> TRUE, delta |-> delta, epoch |-> epoch']
Refusal == [id |-> NULL, at |-> now, result |-> "REJECTED", transaction |-> FALSE, delta |-> NULL, epoch |-> epoch]

\* validateRtcSyncResultPayload asks for the transaction's fields whatever the
\* result.  The limit it sets to the read-back of a success is MAIN's own.
ValidRtcSyncResult(sync) == sync.transaction

\* handleRawTelemetryMessage
SyncResultArrives(sync) ==
    IF ValidRtcSyncResult(sync) THEN IngestRtcSyncResult(sync) ELSE RecordRejection

ClockSetAndReported ==
    \E delta \in {0, 1}, late \in {0, MaxLate}, ok \in BOOLEAN :
        /\ ClockIsSet(delta, late, ok)
        /\ SyncResultArrives(Outcome(delta, ok))
        /\ unreported' = FALSE /\ now' = now

\* The result is lost between MAIN and the console.
ClockSetUnreported ==
    \E late \in {0, MaxLate}, ok \in BOOLEAN :
        /\ ClockIsSet(0, late, ok)
        /\ unreported' = TRUE
        /\ UNCHANGED <<now, rtcSlice>>

\* A request MAIN refuses leaves the clock alone.
RequestRefused ==
    /\ SyncResultArrives(Refusal)
    /\ UNCHANGED <<now, clock, unreported>>

OtherPacketArrives ==
    /\ IngestOther
    /\ UNCHANGED <<now, clock, unreported>>

PacketRejected ==
    /\ RecordRejection
    /\ UNCHANGED <<now, clock, unreported>>

\* resetConnectionStats, on every connection that opens.
ResetConnectionStats ==
    /\ eventStore' = <<>>
    /\ latestStatus' = NULL /\ latestSync' = NULL /\ driftBaseline' = NULL
    /\ UNCHANGED <<now, clock, unreported>>

Next ==
    \/ \E drift \in {-1, 0, 1} : TimePasses(drift)
    \/ OscillatorStops
    \/ StatusArrives
    \/ ClockSetAndReported
    \/ ClockSetUnreported
    \/ RequestRefused
    \/ OtherPacketArrives
    \/ PacketRejected
    \/ ResetConnectionStats

Spec == Init /\ [][Next]_vars

(***************************************************************************)
(* Properties.                                                             *)
(***************************************************************************)
Evidence == DriftEvidence(latestSync, eventStore, driftBaseline)
Retention == RetentionStatus(latestStatus, latestSync)

TypeOK ==
    /\ now \in 0..MaxTime /\ offset \in Readings /\ osf \in BOOLEAN
    /\ epoch \in 0..MaxEpoch /\ unreported \in BOOLEAN
    /\ eventStore \in Seq(Statuses \cup {NULL}) /\ Len(eventStore) <= MaxEvents
    /\ latestStatus \in Statuses \cup {NULL}
    /\ latestSync \in Syncs \cup {NULL}
    /\ driftBaseline \in Baselines \cup {NULL}

\* Drift evidence that is ready is about one run of the clock: from the
\* synchronisation to the latest sample it was neither stopped nor set, the
\* samples are as far apart as the observation asks, and the baseline was not
\* taken before the clock had settled (deriveRtcDriftEvidence).  A setting
\* whose result never reached the console is the exception: the console
\* cannot know of it.
DriftIsOfOneRun ==
    Evidence.status = "DRIFT_EVIDENCE_READY" /\ ~unreported =>
        /\ Evidence.baseline.epoch = latestSync.epoch
        /\ Evidence.current.epoch = latestSync.epoch
        /\ Evidence.baseline.at >= latestSync.at + Settle
        /\ Evidence.current.at >= Evidence.baseline.at + Target
        /\ Abs(Offset(Evidence.current) - latestSync.delta) <= Tolerance + ReadbackTolerance

\* Retention evidence that is ready, of a status after the synchronisation, is
\* about one run of the clock too (deriveRtcRetentionEvidence).
RetentionIsOfOneRun ==
    Retention = "RETENTION_EVIDENCE_READY" /\ ~unreported /\ latestStatus.at > latestSync.at =>
        /\ latestStatus.epoch = latestSync.epoch
        /\ Abs(Offset(latestStatus)) <= RetentionTolerance

\* No evidence of the DS3231 is ready about a time the clock did not keep:
\* neither the drift's nor the retention's (rtcValidity.ts).
ReadyMeansKept == DriftIsOfOneRun /\ RetentionIsOfOneRun

\* The baseline the evidence is measured from stays the one it was until
\* another sync result or connection: not even the event store's dropping the
\* status it was taken from changes it (rtcDriftBaseline in ingestPacket).
BaselineStands ==
    [][ (Evidence.baseline # NULL /\ latestSync' = latestSync) => Evidence'.baseline = Evidence.baseline ]_vars

\* Every attempt to synchronise is observable: the result of a request MAIN
\* refused becomes the console's latest (emitResult of
\* rtc_sync_request_parser.cpp, validateRtcSyncResultPayload).
EveryAttemptIsSeen == [][RequestRefused => latestSync' = Refusal]_vars
================================================================================
