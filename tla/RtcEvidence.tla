------------------------------ MODULE RtcEvidence ------------------------------
(***************************************************************************)
(* What the console concludes about MAIN's DS3231 clock from the RTC       *)
(* packets it accepted (rtcValidity.ts): the drift since the last          *)
(* synchronisation, measured from a baseline taken once the clock has      *)
(* settled, and the retention of the time that was set.                    *)
(*                                                                         *)
(* A status packet is [at, readable, reading, osf, epoch]: the Pi's time,  *)
(* whether the registers were read, the decoded DS3231 time (NULL when     *)
(* there is none, or none after 2025), the oscillator stop flag and, for   *)
(* the properties only, which run of the clock it was read in.  A sync     *)
(* result is [id, at, result, transaction, delta, epoch], transaction when *)
(* it tells of a write and its read-back.  The event store is a sequence of *)
(* status packets and, for every event that is not a status accepted       *)
(* without an anomaly, NULL.  Pi time counts steps, the DS3231's time      *)
(* counts fractions of one, Step to the step.                              *)
(*                                                                         *)
(* The Pi's clock does not go back and a stream lasts as long as its       *)
(* connection, so packets are stored in the order of their timestamps and  *)
(* the code's sorting and its stream checks change nothing here: the first *)
(* and the last of some samples are those with the least and the greatest  *)
(* index.                                                                  *)
(***************************************************************************)
EXTENDS Integers, Sequences, FiniteSetsExt

CONSTANTS
    Step,               \* fractions of the DS3231's time in a step of the Pi's
    Settle,             \* steps a baseline waits after the synchronisation (30 s)
    Target,             \* steps a drift is observed for (3600 s)
    ReadbackTolerance,  \* fractions a baseline may differ from the read-back (3000 ms)
    Tolerance,          \* fractions the clock may drift (3000 ms)
    RetentionTolerance, \* fractions the clock may be off (5000 ms)
    NULL

ASSUME EvidenceAssumption ==
    /\ Step \in Nat \ {0} /\ Settle \in Nat \ {0} /\ Target \in Nat \ {0}
    /\ ReadbackTolerance \in Nat /\ Tolerance \in Nat /\ RetentionTolerance \in Nat

Readings == Int \cup {NULL}
Statuses == [at : Nat, readable : BOOLEAN, osf : BOOLEAN, reading : Readings, epoch : Nat]
Syncs == [id : Nat, at : Nat, result : {"RTC_SYNC_SUCCESS", "RTC_SYNC_FAILED"}, transaction : {TRUE},
          delta : Int, epoch : Nat]
Baselines == [session : Nat, at : Nat, reading : Int, epoch : Nat]

ASSUME NullAssumption == NULL \notin Int /\ NULL \notin Statuses /\ NULL \notin Syncs /\ NULL \notin Baselines

Abs(n) == IF n < 0 THEN -n ELSE n

\* rtcMs - piMs.
Offset(sample) == sample.reading - sample.at * Step

Succeeded(sync) == sync # NULL /\ sync.result = "RTC_SYNC_SUCCESS"

\* Where the status packets the drift is measured on are: those accepted without an anomaly.
RtcStatusPackets(events) == {i \in DOMAIN events : events[i] # NULL}

ValidDriftSample(status) == status.readable /\ status.reading # NULL

Settled(status, sync) == status.at - sync.at >= Settle

StableBaseline(status, sync) ==
    /\ Settled(status, sync)
    /\ ValidDriftSample(status)
    /\ ~status.osf
    /\ Abs(Offset(status) - sync.delta) <= ReadbackTolerance

StableBaselines(sync, events) == {i \in RtcStatusPackets(events) : StableBaseline(events[i], sync)}

BaselineFrom(status, sync) ==
    [session |-> sync.id, at |-> status.at, reading |-> status.reading, epoch |-> status.epoch]

SelectDriftBaseline(sync, events) ==
    IF StableBaselines(sync, events) = {} THEN NULL
    ELSE BaselineFrom(events[Min(StableBaselines(sync, events))], sync)

BaselineForSession(sync, events) ==
    IF Succeeded(sync) THEN SelectDriftBaseline(sync, events) ELSE NULL

\* The baseline of the evidence: the session's if it is of this synchronisation.
BaselineInUse(sync, events, stored) ==
    IF stored # NULL /\ stored.session = sync.id THEN stored ELSE SelectDriftBaseline(sync, events)

SamplesAfterBaseline(baseline, events) ==
    {i \in RtcStatusPackets(events) : ValidDriftSample(events[i]) /\ events[i].at > baseline.at}

\* A slip: the oscillator stop flag of the latest sample is not looked at.
DriftWhateverTheFlag(baseline, current) ==
    IF current.reading <= baseline.reading THEN "DRIFT_TIME_NOT_ADVANCING"
    ELSE IF current.at - baseline.at < Target THEN "DRIFT_OBSERVATION_IN_PROGRESS"
    ELSE IF Abs(Offset(current) - Offset(baseline)) > Tolerance THEN "DRIFT_EXCEEDS_TOLERANCE"
    ELSE "DRIFT_EVIDENCE_READY"

MeasuredDrift(baseline, current) ==
    IF current.osf THEN "DRIFT_OSF_REASSERTED"
    ELSE IF current.reading <= baseline.reading THEN "DRIFT_TIME_NOT_ADVANCING"
    ELSE IF current.at - baseline.at < Target THEN "DRIFT_OBSERVATION_IN_PROGRESS"
    ELSE IF Abs(Offset(current) - Offset(baseline)) > Tolerance THEN "DRIFT_EXCEEDS_TOLERANCE"
    ELSE "DRIFT_EVIDENCE_READY"

\* [status, baseline, current] of deriveRtcDriftEvidence; NULL where it reports none.
WithoutBaseline(status) == [status |-> status, baseline |-> NULL, current |-> NULL]

EvidenceFrom(baseline, events) ==
    LET later == SamplesAfterBaseline(baseline, events)
    IN  IF later = {} THEN [status |-> "DRIFT_BASELINE_PENDING", baseline |-> baseline, current |-> NULL]
        ELSE LET current == events[Max(later)]
             IN  [status |-> MeasuredDrift(baseline, current), baseline |-> baseline, current |-> current]

DriftEvidence(sync, events, stored) ==
    IF ~Succeeded(sync) THEN WithoutBaseline("DRIFT_SYNC_RESULT_MISSING")
    ELSE LET baseline == BaselineInUse(sync, events, stored)
         IN  IF baseline # NULL THEN EvidenceFrom(baseline, events)
             ELSE IF \E i \in RtcStatusPackets(events) : Settled(events[i], sync)
             THEN WithoutBaseline("DRIFT_BASELINE_UNSTABLE")
             ELSE WithoutBaseline("DRIFT_SETTLING_AFTER_SYNC")

\* deriveRtcRetentionEvidence compares the latest status with the latest result.
RetentionStatus(status, sync) ==
    IF status = NULL THEN "RETENTION_INSUFFICIENT_EVIDENCE"
    ELSE IF ~Succeeded(sync) THEN "RETENTION_CHECK_PENDING"
    ELSE IF ~status.readable THEN "RETENTION_INSUFFICIENT_EVIDENCE"
    ELSE IF status.osf THEN "RETENTION_OSF_REASSERTED"
    ELSE IF status.reading = NULL THEN "RETENTION_INSUFFICIENT_EVIDENCE"
    ELSE IF status.reading < sync.at * Step - RetentionTolerance THEN "RETENTION_TIME_NOT_ADVANCING"
    ELSE IF Abs(Offset(status)) > RetentionTolerance THEN "RETENTION_DELTA_TOO_LARGE"
    ELSE "RETENTION_EVIDENCE_READY"
================================================================================
