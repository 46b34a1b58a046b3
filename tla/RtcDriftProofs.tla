---------------------------- MODULE RtcDriftProofs ----------------------------
(***************************************************************************)
(* Machine-checked theorems about the evidence of the DS3231, for every    *)
(* tolerance, every observation time and every size of the event store.    *)
(***************************************************************************)
EXTENDS RtcDrift, SequenceTheorems, WellFoundedInduction, TLAPS

Events == Statuses \cup {NULL}

-----------------------------------------------------------------------------
(*                         the first and the last                          *)

LEMMA LeastExists ==
  ASSUME NEW S \in SUBSET Nat, S # {}
  PROVE  \E x \in S : \A y \in S : x <= y
<1>1. PICK x \in S : \A y \in S : <<y, x>> \notin OpToRel(<, Nat)
  BY NatLessThanWellFounded, WFMin, Zenon
<1>2. ASSUME NEW y \in S PROVE x <= y
  <2>1. ~(y < x)
    BY <1>1 DEF OpToRel
  <2>2. QED BY <2>1
<1>3. QED BY <1>2

LEMMA MinIsIn ==
  ASSUME NEW S \in SUBSET Nat, S # {}
  PROVE  Min(S) \in S
<1>1. \E x \in S : \A y \in S : x <= y
  BY LeastExists
<1>2. QED BY <1>1 DEF Min

LEMMA MaxIsIn ==
  ASSUME NEW n \in Nat, NEW S \in SUBSET (1..n), S # {}
  PROVE  Max(S) \in S
<1> DEFINE Gaps == {n - i : i \in S}
<1>1. Gaps \in SUBSET Nat /\ Gaps # {}
  <2>1. \A i \in S : n - i \in Nat
    OBVIOUS
  <2>2. QED BY <2>1, Zenon
<1>2. PICK g \in Gaps : \A h \in Gaps : g <= h
  BY <1>1, LeastExists
<1>3. PICK x \in S : g = n - x
  OBVIOUS
<1>4. \A y \in S : x >= y
  <2>1. ASSUME NEW y \in S PROVE x >= y
    <3>1. n - y \in Gaps
      OBVIOUS
    <3>2. n - x <= n - y
      BY <1>2, <1>3, <3>1, Zenon
    <3>3. QED BY <3>2
  <2>2. QED BY <2>1
<1>5. QED BY <1>3, <1>4 DEF Max

-----------------------------------------------------------------------------
(*                         the event store                                 *)

(* The store stays within its bound, and holds what it held and the event. *)
LEMMA AppendedEvents ==
  ASSUME TypeOK, NEW e \in Events
  PROVE  /\ Appended(e) \in Seq(Events) /\ Len(Appended(e)) <= MaxEvents
         /\ \A i \in DOMAIN Appended(e) :
              Appended(e)[i] = e \/ \E j \in DOMAIN eventStore : Appended(e)[i] = eventStore[j]
<1> DEFINE all == Append(eventStore, e)
<1>1. eventStore \in Seq(Events) /\ Len(eventStore) <= MaxEvents /\ MaxEvents \in Nat
  BY BoundsAssumption DEF TypeOK, Events
<1>2. all \in Seq(Events) /\ Len(all) = Len(eventStore) + 1
  BY <1>1, AppendProperties
<1>3. \A i \in 1..Len(all) : all[i] = e \/ \E j \in DOMAIN eventStore : all[i] = eventStore[j]
  BY <1>1, <1>2, AppendProperties
<1>4. all # <<>>
  BY <1>1, AppendProperties, Zenon
<1> HIDE DEF all
<1>5. /\ Tail(all) \in Seq(Events) /\ Len(Tail(all)) = Len(all) - 1
      /\ \A i \in 1..Len(Tail(all)) : Tail(all)[i] = all[i + 1]
  BY <1>2, <1>4, HeadTailProperties
<1>6. Len(all) \in Nat
  BY <1>2, LenProperties
<1>7. Appended(e) = IF Len(all) > MaxEvents THEN Tail(all) ELSE all
  BY DEF Appended, all
<1>8. CASE Len(all) > MaxEvents
  <2>1. Appended(e) = Tail(all)
    BY <1>7, <1>8
  <2>2. Len(Tail(all)) <= MaxEvents
    BY <1>1, <1>2, <1>5
  <2>3. DOMAIN Tail(all) = 1..Len(Tail(all))
    BY <1>5, LenProperties, Zenon
  <2>4. \A i \in 1..Len(Tail(all)) : i + 1 \in 1..Len(all)
    BY <1>5, <1>6
  <2>5. \A i \in DOMAIN Tail(all) : Tail(all)[i] = e \/ \E j \in DOMAIN eventStore : Tail(all)[i] = eventStore[j]
    BY <1>3, <1>5, <2>3, <2>4
  <2>6. QED BY <1>5, <2>1, <2>2, <2>5, Zenon
<1>9. CASE ~(Len(all) > MaxEvents)
  <2>1. Appended(e) = all
    BY <1>7, <1>9
  <2>2. Len(all) <= MaxEvents
    BY <1>1, <1>6, <1>9
  <2>3. DOMAIN all = 1..Len(all)
    BY <1>2, LenProperties, Zenon
  <2>4. QED BY <1>2, <1>3, <2>1, <2>2, <2>3, Zenon
<1>10. QED BY <1>8, <1>9

LEMMA NullIsAnEvent == NULL \in Events
  BY DEF Events

-----------------------------------------------------------------------------
(*                         the baseline                                    *)

StableAt(i, sync, events) ==
    /\ i \in DOMAIN events /\ events[i] \in Statuses
    /\ StableBaseline(events[i], sync)

(* A baseline is taken of a stable sample whenever there is one. *)
LEMMA SelectedIsStable ==
  ASSUME NEW sync \in Syncs, NEW events \in Seq(Events)
  PROVE  /\ StableBaselines(sync, events) = {} => SelectDriftBaseline(sync, events) = NULL
         /\ StableBaselines(sync, events) # {} =>
              /\ SelectDriftBaseline(sync, events) \in Baselines
              /\ SelectDriftBaseline(sync, events) # NULL
              /\ \E i : /\ StableAt(i, sync, events)
                       /\ SelectDriftBaseline(sync, events) = BaselineFrom(events[i], sync)
<1>1. StableBaselines(sync, events) = {} => SelectDriftBaseline(sync, events) = NULL
  BY DEF SelectDriftBaseline
<1>2. ASSUME StableBaselines(sync, events) # {}
      PROVE  /\ SelectDriftBaseline(sync, events) \in Baselines
             /\ SelectDriftBaseline(sync, events) # NULL
             /\ \E i : /\ StableAt(i, sync, events)
                      /\ SelectDriftBaseline(sync, events) = BaselineFrom(events[i], sync)
  <2> DEFINE i == Min(StableBaselines(sync, events))
  <2>1. DOMAIN events = 1..Len(events) /\ Len(events) \in Nat
    BY LenProperties, Zenon
  <2>2. StableBaselines(sync, events) \in SUBSET Nat
    BY <2>1 DEF StableBaselines, RtcStatusPackets
  <2>3. i \in StableBaselines(sync, events)
    BY <1>2, <2>2, MinIsIn, Zenon
  <2> HIDE DEF i
  <2>4. i \in DOMAIN events /\ events[i] # NULL /\ StableBaseline(events[i], sync)
    BY <2>3 DEF StableBaselines, RtcStatusPackets
  <2>5. events[i] \in Statuses
    <3>1. events[i] \in Events
      BY <2>1, <2>4, ElementOfSeq, Zenon
    <3>2. QED BY <2>4, <3>1, Zenon DEF Events
  <2>6. SelectDriftBaseline(sync, events) = BaselineFrom(events[i], sync)
    BY <1>2 DEF SelectDriftBaseline, i
  <2>7. events[i].reading # NULL
    BY <2>4 DEF StableBaseline, ValidDriftSample
  <2>8. events[i].reading \in Int /\ events[i].at \in Nat /\ events[i].epoch \in Nat
    BY <2>5, <2>7 DEF Statuses, Readings
  <2>9. sync.id \in Nat
    BY DEF Syncs
  <2>10. BaselineFrom(events[i], sync) \in Baselines
    BY <2>8, <2>9 DEF BaselineFrom, Baselines
  <2>11. StableAt(i, sync, events)
    BY <2>4, <2>5, Zenon DEF StableAt
  <2>12. QED BY <2>6, <2>10, <2>11, NullAssumption, Zenon
<1>3. QED BY <1>1, <1>2, Zenon

-----------------------------------------------------------------------------
(*                         typing                                          *)

ClockType ==
    /\ now \in 0..MaxTime /\ offset \in Readings /\ osf \in BOOLEAN
    /\ epoch \in 0..MaxEpoch /\ unreported \in BOOLEAN
SliceType ==
    /\ eventStore \in Seq(Events) /\ Len(eventStore) <= MaxEvents
    /\ latestStatus \in Events
    /\ latestSync \in Syncs \cup {NULL}
    /\ driftBaseline \in Baselines \cup {NULL}

LEMMA TypeSplits == TypeOK <=> ClockType /\ SliceType
  BY DEF TypeOK, ClockType, SliceType, Events

LEMMA DerivedType ==
  ASSUME NEW existing \in Baselines \cup {NULL}, NEW sync \in Syncs \cup {NULL}, NEW events \in Seq(Events)
  PROVE  KeptOrDerived(existing, sync, events) \in Baselines \cup {NULL}
<1>1. CASE sync = NULL
  BY <1>1, Zenon DEF KeptOrDerived, BaselineForSession, Succeeded
<1>2. CASE sync \in Syncs
  <2>1. SelectDriftBaseline(sync, events) \in Baselines \cup {NULL}
    BY <1>2, SelectedIsStable, Zenon
  <2>2. QED BY <2>1, Zenon DEF KeptOrDerived, BaselineForSession
<1>3. QED BY <1>1, <1>2, Zenon

LEMMA IngestStatusType ==
  ASSUME TypeOK, NEW status \in Statuses, NEW anomaly \in BOOLEAN, IngestRtcStatus(status, anomaly)
  PROVE  SliceType'
<1> DEFINE event == IF anomaly THEN NULL ELSE status
<1>1. event \in Events
  BY Zenon DEF Events
<1>2. eventStore' = Appended(event) /\ latestStatus' = status /\ latestSync' = latestSync
      /\ driftBaseline' = KeptOrDerived(driftBaseline, latestSync, eventStore')
  BY Zenon DEF IngestRtcStatus
<1> HIDE DEF event
<1>3. eventStore' \in Seq(Events) /\ Len(eventStore') <= MaxEvents
  BY <1>1, <1>2, AppendedEvents, Zenon
<1>4. driftBaseline' \in Baselines \cup {NULL}
  BY <1>2, <1>3, DerivedType, Zenon DEF TypeOK
<1>5. QED BY <1>2, <1>3, <1>4, Zenon DEF SliceType, TypeOK, Events

LEMMA IngestSyncType ==
  ASSUME TypeOK, NEW sync \in Syncs, IngestRtcSyncResult(sync)
  PROVE  SliceType'
<1>1. eventStore' = Appended(NULL) /\ latestStatus' = latestStatus /\ latestSync' = sync
      /\ driftBaseline' = KeptOrDerived(NULL, sync, eventStore')
  BY Zenon DEF IngestRtcSyncResult
<1>2. eventStore' \in Seq(Events) /\ Len(eventStore') <= MaxEvents
  BY <1>1, NullIsAnEvent, AppendedEvents, Zenon
<1>3. driftBaseline' \in Baselines \cup {NULL}
  BY <1>1, <1>2, DerivedType, Zenon
<1>4. QED BY <1>1, <1>2, <1>3, Zenon DEF SliceType, TypeOK, Events

LEMMA IngestOtherType == ASSUME TypeOK, IngestOther PROVE SliceType'
<1>1. eventStore' = Appended(NULL) /\ latestStatus' = latestStatus /\ latestSync' = latestSync
      /\ driftBaseline' = KeptOrDerived(driftBaseline, latestSync, eventStore')
  BY Zenon DEF IngestOther
<1>2. eventStore' \in Seq(Events) /\ Len(eventStore') <= MaxEvents
  BY <1>1, NullIsAnEvent, AppendedEvents, Zenon
<1>3. driftBaseline' \in Baselines \cup {NULL}
  BY <1>1, <1>2, DerivedType, Zenon DEF TypeOK
<1>4. QED BY <1>1, <1>2, <1>3, Zenon DEF SliceType, TypeOK, Events

LEMMA RejectionType == ASSUME TypeOK, RecordRejection PROVE SliceType'
<1>1. eventStore' = Appended(NULL) /\ UNCHANGED <<latestStatus, latestSync, driftBaseline>>
  BY Zenon DEF RecordRejection
<1>2. eventStore' \in Seq(Events) /\ Len(eventStore') <= MaxEvents
  BY <1>1, NullIsAnEvent, AppendedEvents, Zenon
<1>3. QED BY <1>1, <1>2, Zenon DEF SliceType, TypeOK, Events

\* The status packet MAIN sends.
Sent(readable) ==
    [at |-> now, readable |-> readable, osf |-> readable /\ osf,
     reading |-> IF readable /\ offset # NULL THEN now * Step + offset ELSE NULL,
     epoch |-> epoch]

LEMMA SentType == ASSUME TypeOK, NEW readable \in BOOLEAN PROVE Sent(readable) \in Statuses
<1>1. now \in Nat /\ epoch \in Nat /\ offset \in Readings
  BY BoundsAssumption DEF TypeOK
<1> DEFINE reading == IF readable /\ offset # NULL THEN now * Step + offset ELSE NULL
<1>2. reading \in Readings
  <2>1. CASE readable /\ offset # NULL
    <3>1. offset \in Int
      BY <1>1, <2>1 DEF Readings
    <3>2. now * Step + offset \in Int
      BY <1>1, <3>1, EvidenceAssumption
    <3>3. reading = now * Step + offset
      BY <2>1, Zenon
    <3>4. QED BY <3>2, <3>3, Zenon DEF Readings
  <2>2. CASE ~(readable /\ offset # NULL)
    <3>1. reading = NULL
      BY <2>2, Zenon
    <3>2. QED BY <3>1, Zenon DEF Readings
  <2>3. QED BY <2>1, <2>2, Zenon
<1> DEFINE flag == readable /\ osf
<1>3. flag \in BOOLEAN
  BY DEF TypeOK
<1>4. Sent(readable) = [at |-> now, readable |-> readable, osf |-> flag, reading |-> reading, epoch |-> epoch]
  BY DEF Sent
<1> HIDE DEF reading, flag
<1>5. [at |-> now, readable |-> readable, osf |-> flag, reading |-> reading, epoch |-> epoch] \in Statuses
  BY <1>1, <1>2, <1>3 DEF Statuses
<1>6. QED BY <1>4, <1>5

LEMMA StatusSplits ==
  ASSUME StatusArrives
  PROVE  /\ \E anomaly \in BOOLEAN, readable \in BOOLEAN : IngestRtcStatus(Sent(readable), anomaly)
         /\ UNCHANGED <<now, clock, unreported>>
  BY Zenon DEF StatusArrives, Sent

LEMMA SetType ==
  ASSUME TypeOK, NEW delta \in {0, 1}, NEW late \in {0, MaxLate}, NEW ok \in BOOLEAN, ClockIsSet(delta, late, ok)
  PROVE  /\ offset' \in Readings /\ osf' \in BOOLEAN /\ epoch' \in 0..MaxEpoch /\ epoch' = epoch + 1
         /\ Outcome(delta, ok) \in Syncs
<1>1. epoch' = epoch + 1 /\ epoch' \in 0..MaxEpoch /\ now \in Nat
  BY BoundsAssumption DEF TypeOK, ClockIsSet
<1>2. delta - late \in Int /\ delta \in Int
  BY BoundsAssumption
<1>3. offset' \in {delta - late, offset}
  BY Zenon DEF ClockIsSet
<1>4. offset' \in Readings
  BY <1>2, <1>3, Zenon DEF TypeOK, Readings
<1>5. osf' \in {osf, FALSE}
  BY Zenon DEF ClockIsSet
<1>6. osf' \in BOOLEAN
  BY <1>5, Zenon DEF TypeOK
<1>7. epoch' \in Nat
  BY <1>1, BoundsAssumption
<1>8. (IF ok THEN "RTC_SYNC_SUCCESS" ELSE "RTC_SYNC_FAILED") \in {"RTC_SYNC_SUCCESS", "RTC_SYNC_FAILED"}
  BY Zenon
<1>9. Outcome(delta, ok) \in Syncs
  BY <1>1, <1>2, <1>7, <1>8, Zenon DEF Outcome, Syncs
<1>10. QED BY <1>1, <1>4, <1>6, <1>9, Zenon

LEMMA ReportSplits ==
  ASSUME ClockSetAndReported
  PROVE  \E delta \in {0, 1}, late \in {0, MaxLate}, ok \in BOOLEAN :
           /\ ClockIsSet(delta, late, ok)
           /\ IngestRtcSyncResult(Outcome(delta, ok))
           /\ unreported' = FALSE /\ now' = now
<1>1. \A delta, ok : ValidRtcSyncResult(Outcome(delta, ok))
  BY DEF ValidRtcSyncResult, Outcome
<1>2. QED BY <1>1, Zenon DEF ClockSetAndReported, SyncResultArrives

LEMMA RefusalSplits ==
  ASSUME RequestRefused
  PROVE  RecordRejection /\ UNCHANGED <<now, clock, unreported>>
<1>1. ~ValidRtcSyncResult(Refusal)
  BY DEF ValidRtcSyncResult, Refusal
<1>2. QED BY <1>1, Zenon DEF RequestRefused, SyncResultArrives

LEMMA InitType == Init => TypeOK
<1> SUFFICES ASSUME Init PROVE TypeOK
  OBVIOUS
<1>1. ClockType
  <2>1. now \in 0..MaxTime /\ epoch \in 0..MaxEpoch
    BY BoundsAssumption DEF Init
  <2>2. offset \in Readings
    BY DEF Init, Readings
  <2>3. osf \in BOOLEAN /\ unreported \in BOOLEAN
    BY Zenon DEF Init
  <2>4. QED BY <2>1, <2>2, <2>3, Zenon DEF ClockType
<1>2. SliceType
  <2>1. eventStore = <<>> /\ latestStatus = NULL /\ latestSync = NULL /\ driftBaseline = NULL
    BY Zenon DEF Init
  <2>2. eventStore \in Seq(Events) /\ Len(eventStore) = 0
    BY <2>1, EmptySeq
  <2>3. Len(eventStore) <= MaxEvents
    BY <2>2, BoundsAssumption
  <2>4. QED BY <2>1, <2>2, <2>3, Zenon DEF SliceType, Events
<1>3. QED BY <1>1, <1>2, TypeSplits

LEMMA NextType == ASSUME TypeOK, [Next]_vars PROVE TypeOK'
<1> SUFFICES ClockType' /\ SliceType'
  BY TypeSplits, PTL
<1> USE BoundsAssumption
<1>1. ClockType /\ SliceType
  BY TypeSplits
<1>2. ASSUME UNCHANGED <<now, clock, unreported>> PROVE ClockType'
  BY <1>1, <1>2, Zenon DEF clock, ClockType
<1>3. ASSUME UNCHANGED rtcSlice PROVE SliceType'
  BY <1>1, <1>3, Zenon DEF rtcSlice, SliceType
<1>4. ASSUME NEW drift \in {-1, 0, 1}, TimePasses(drift) PROVE ClockType' /\ SliceType'
  <2>1. now' \in 0..MaxTime
    BY <1>1, <1>4 DEF ClockType, TimePasses
  <2>2. offset' = IF offset = NULL THEN NULL ELSE offset + drift
    BY <1>4 DEF TimePasses
  <2>3. offset' \in Readings
    <3>1. CASE offset = NULL
      BY <2>2, <3>1 DEF Readings
    <3>2. CASE offset # NULL
      <4>1. offset \in Int
        BY <1>1, <3>2 DEF ClockType, Readings
      <4>2. QED BY <2>2, <3>2, <4>1 DEF Readings
    <3>3. QED BY <3>1, <3>2
  <2>4. UNCHANGED <<osf, epoch, unreported, rtcSlice>>
    BY <1>4, Zenon DEF TimePasses
  <2>5. QED BY <1>1, <1>3, <2>1, <2>3, <2>4, Zenon DEF ClockType
<1>5. ASSUME OscillatorStops PROVE ClockType' /\ SliceType'
  <2>1. now' \in 0..MaxTime /\ epoch' \in 0..MaxEpoch
    BY <1>1, <1>5 DEF ClockType, OscillatorStops
  <2>2. offset' \in {NULL} \cup (IF offset \in -MaxOffset..MaxOffset THEN {offset, offset - Step} ELSE {})
    BY <1>5, Zenon DEF OscillatorStops
  <2>3. offset' \in Readings
    <3>1. CASE offset \in -MaxOffset..MaxOffset
      <4>1. offset \in Int /\ offset - Step \in Int
        BY <3>1, EvidenceAssumption
      <4>2. QED BY <2>2, <3>1, <4>1, Zenon DEF Readings
    <3>2. CASE offset \notin -MaxOffset..MaxOffset
      BY <2>2, <3>2, Zenon DEF Readings
    <3>3. QED BY <3>1, <3>2
  <2>4. osf' = TRUE /\ UNCHANGED <<unreported, rtcSlice>>
    BY <1>5, Zenon DEF OscillatorStops
  <2>5. QED BY <1>1, <1>3, <2>1, <2>3, <2>4, Zenon DEF ClockType
<1>6. ASSUME StatusArrives PROVE ClockType' /\ SliceType'
  BY <1>2, <1>6, StatusSplits, SentType, IngestStatusType, Zenon
<1>7. ASSUME ClockSetAndReported PROVE ClockType' /\ SliceType'
  <2>1. PICK delta \in {0, 1}, late \in {0, MaxLate}, ok \in BOOLEAN :
          /\ ClockIsSet(delta, late, ok)
          /\ IngestRtcSyncResult(Outcome(delta, ok))
          /\ unreported' = FALSE /\ now' = now
    BY <1>7, ReportSplits, Zenon
  <2>2. offset' \in Readings /\ osf' \in BOOLEAN /\ epoch' \in 0..MaxEpoch /\ Outcome(delta, ok) \in Syncs
    BY <2>1, SetType, Zenon
  <2>3. SliceType'
    BY <2>1, <2>2, IngestSyncType, Zenon
  <2>4. QED BY <1>1, <2>1, <2>2, <2>3, Zenon DEF ClockType
<1>8. ASSUME ClockSetUnreported PROVE ClockType' /\ SliceType'
  <2>1. PICK late \in {0, MaxLate}, ok \in BOOLEAN : ClockIsSet(0, late, ok)
    BY <1>8, Zenon DEF ClockSetUnreported
  <2>2. offset' \in Readings /\ osf' \in BOOLEAN /\ epoch' \in 0..MaxEpoch
    BY <2>1, SetType, Zenon
  <2>3. unreported' = TRUE /\ now' = now /\ UNCHANGED rtcSlice
    BY <1>8, Zenon DEF ClockSetUnreported
  <2>4. QED BY <1>1, <1>3, <2>2, <2>3, Zenon DEF ClockType
<1>9. ASSUME RequestRefused PROVE ClockType' /\ SliceType'
  BY <1>2, <1>9, RefusalSplits, RejectionType, Zenon
<1>10. ASSUME OtherPacketArrives PROVE ClockType' /\ SliceType'
  BY <1>2, <1>10, IngestOtherType, Zenon DEF OtherPacketArrives
<1>11. ASSUME PacketRejected PROVE ClockType' /\ SliceType'
  BY <1>2, <1>11, RejectionType, Zenon DEF PacketRejected
<1>12. ASSUME ResetConnectionStats PROVE ClockType' /\ SliceType'
  <2>1. eventStore' = <<>> /\ latestStatus' = NULL /\ latestSync' = NULL /\ driftBaseline' = NULL
        /\ UNCHANGED <<now, clock, unreported>>
    BY <1>12, Zenon DEF ResetConnectionStats
  <2>2. eventStore' \in Seq(Events) /\ Len(eventStore') = 0
    BY <2>1, EmptySeq
  <2>3. Len(eventStore') <= MaxEvents
    BY <2>2
  <2>4. QED BY <1>2, <2>1, <2>2, <2>3, Zenon DEF SliceType, Events
<1>13. ASSUME UNCHANGED vars PROVE ClockType' /\ SliceType'
  BY <1>2, <1>3, <1>13, Zenon DEF vars
<1>14. QED
  BY <1>4, <1>5, <1>6, <1>7, <1>8, <1>9, <1>10, <1>11, <1>12, <1>13, Zenon DEF Next

(* What the console keeps of the clock, and the clock, stay what their      *)
(* declarations say.                                                       *)
THEOREM RtcTypeCorrect == Spec => []TypeOK
<1>1. Init => TypeOK
  BY InitType
<1>2. TypeOK /\ [Next]_vars => TypeOK'
  BY NextType
<1>3. QED BY <1>1, <1>2, PTL DEF Spec

-----------------------------------------------------------------------------
(*                         the inductive invariant                         *)

Held(events) == {events[i] : i \in DOMAIN events} \ {NULL}

\* Nothing the console keeps is younger than the clock.
TimeInv ==
    /\ latestSync # NULL => latestSync.at <= now /\ latestSync.epoch <= epoch
    /\ latestStatus # NULL => latestStatus.at <= now
    /\ \A s \in Held(eventStore) : s.at <= now

\* A flag that is clear after a synchronisation tells that the clock has run since.
SameRun(s, sync) == s.at > sync.at /\ s.readable /\ ~s.osf => s.epoch = sync.epoch
RunInv ==
    Succeeded(latestSync) /\ ~unreported =>
        /\ ~osf => epoch = latestSync.epoch
        /\ latestStatus # NULL => SameRun(latestStatus, latestSync)
        /\ \A s \in Held(eventStore) : SameRun(s, latestSync)

\* The session's baseline is of the latest synchronisation, and is there when there is one to take.
SessionInv ==
    /\ driftBaseline # NULL => Succeeded(latestSync) /\ driftBaseline.session = latestSync.id
    /\ driftBaseline = NULL /\ Succeeded(latestSync) =>
         \A s \in Held(eventStore) : ~StableBaseline(s, latestSync)

\* It was stable when it was taken.
SoundBaseline(b, sync) ==
    /\ b.at >= sync.at + Settle
    /\ Abs(Offset(b) - sync.delta) <= ReadbackTolerance
BaseInv ==
    driftBaseline # NULL =>
        /\ SoundBaseline(driftBaseline, latestSync)
        /\ ~unreported => driftBaseline.epoch = latestSync.epoch

LEMMA HeldType == ASSUME NEW events \in Seq(Events) PROVE Held(events) \subseteq Statuses
<1>1. DOMAIN events = 1..Len(events)
  BY LenProperties, Zenon
<1>2. \A i \in DOMAIN events : events[i] \in Events
  BY <1>1, ElementOfSeq, Zenon
<1>3. QED BY <1>2, Zenon DEF Held, Events

LEMMA HeldAppended ==
  ASSUME TypeOK, NEW e \in Events
  PROVE  Held(Appended(e)) \subseteq Held(eventStore) \cup {e}
  BY AppendedEvents, Zenon DEF Held

LEMMA HeldRejected == ASSUME TypeOK, eventStore' = Appended(NULL) PROVE Held(eventStore') \subseteq Held(eventStore)
<1>1. Held(eventStore') \subseteq Held(eventStore) \cup {NULL}
  BY NullIsAnEvent, HeldAppended, Zenon
<1>2. NULL \notin Held(eventStore')
  BY Zenon DEF Held
<1>3. QED BY <1>1, <1>2, Zenon

(* No baseline is missed or invented. *)
LEMMA SelectedWhenStable ==
  ASSUME NEW sync \in Syncs, NEW events \in Seq(Events)
  PROVE  IF \A s \in Held(events) : ~StableBaseline(s, sync)
         THEN SelectDriftBaseline(sync, events) = NULL
         ELSE \E s \in Held(events) : /\ StableBaseline(s, sync)
                                      /\ SelectDriftBaseline(sync, events) = BaselineFrom(s, sync)
<1>1. (\A s \in Held(events) : ~StableBaseline(s, sync)) => StableBaselines(sync, events) = {}
  BY Zenon DEF Held, StableBaselines, RtcStatusPackets
<1>2. (\E s \in Held(events) : StableBaseline(s, sync)) => StableBaselines(sync, events) # {}
  BY Zenon DEF Held, StableBaselines, RtcStatusPackets
<1>3. \A i : StableAt(i, sync, events) => events[i] \in Held(events) /\ StableBaseline(events[i], sync)
  BY NullAssumption, Zenon DEF StableAt, Held
<1>4. QED BY <1>1, <1>2, <1>3, SelectedIsStable, Zenon

LEMMA InitInv == Init => TimeInv /\ RunInv /\ SessionInv /\ BaseInv
<1> SUFFICES ASSUME Init PROVE TimeInv /\ RunInv /\ SessionInv /\ BaseInv
  OBVIOUS
<1>1. eventStore = <<>> /\ latestStatus = NULL /\ latestSync = NULL /\ driftBaseline = NULL
  BY Zenon DEF Init
<1>2. DOMAIN eventStore = {}
  BY <1>1
<1>3. Held(eventStore) = {}
  BY <1>2, Zenon DEF Held
<1>4. QED BY <1>1, <1>3, Zenon DEF TimeInv, RunInv, SessionInv, BaseInv, Succeeded

\* The kinds of step there are.
Runs == UNCHANGED rtcSlice /\ \E drift \in {-1, 0, 1} : TimePasses(drift)
Stops == UNCHANGED rtcSlice /\ OscillatorStops
Unreported == UNCHANGED rtcSlice /\ ClockSetUnreported
Stands == UNCHANGED rtcSlice /\ UNCHANGED <<now, clock, unreported>>
Tells == \E anomaly \in BOOLEAN, readable \in BOOLEAN : IngestRtcStatus(Sent(readable), anomaly)
Reported ==
    \E delta \in {0, 1}, late \in {0, MaxLate}, ok \in BOOLEAN :
        /\ ClockIsSet(delta, late, ok)
        /\ IngestRtcSyncResult(Outcome(delta, ok))
        /\ unreported' = FALSE /\ now' = now
Forgets == eventStore' = <<>> /\ latestStatus' = NULL /\ latestSync' = NULL /\ driftBaseline' = NULL

LEMMA StepKinds ==
  ASSUME [Next]_vars
  PROVE  \/ Runs \/ Stops \/ Unreported \/ Stands \/ Reported
         \/ /\ Tells \/ RecordRejection \/ IngestOther \/ Forgets
            /\ UNCHANGED <<now, clock, unreported>>
<1>1. ASSUME NEW drift \in {-1, 0, 1}, TimePasses(drift) PROVE Runs
  <2>1. UNCHANGED rtcSlice
    BY <1>1, Zenon DEF TimePasses
  <2>2. QED BY <1>1, <2>1, Zenon DEF Runs
<1>2. OscillatorStops => Stops
  BY Zenon DEF OscillatorStops, Stops
<1>3. ClockSetUnreported => Unreported
  BY Zenon DEF ClockSetUnreported, Unreported
<1>4. StatusArrives => Tells /\ UNCHANGED <<now, clock, unreported>>
  BY StatusSplits, Zenon DEF Tells
<1>5. ClockSetAndReported => Reported
  BY ReportSplits, Zenon DEF Reported
<1>6. RequestRefused => RecordRejection /\ UNCHANGED <<now, clock, unreported>>
  BY RefusalSplits, Zenon
<1>7. OtherPacketArrives => IngestOther /\ UNCHANGED <<now, clock, unreported>>
  BY Zenon DEF OtherPacketArrives
<1>8. PacketRejected => RecordRejection /\ UNCHANGED <<now, clock, unreported>>
  BY Zenon DEF PacketRejected
<1>9. ResetConnectionStats => Forgets /\ UNCHANGED <<now, clock, unreported>>
  BY Zenon DEF ResetConnectionStats, Forgets
<1>10. UNCHANGED vars => Stands
  BY Zenon DEF vars, Stands
<1>11. QED
  BY <1>1, <1>2, <1>3, <1>4, <1>5, <1>6, <1>7, <1>8, <1>9, <1>10, Zenon DEF Next

\* The steps that leave alone what the console keeps, and those that leave the clock alone.
Quiet == Runs \/ Stops \/ Unreported \/ Stands
Ingests == Tells \/ RecordRejection \/ IngestOther \/ Forgets

LEMMA QuietSteps ==
  ASSUME TypeOK, Quiet
  PROVE  /\ UNCHANGED rtcSlice /\ now' >= now /\ epoch' >= epoch
         /\ unreported' = unreported \/ unreported' = TRUE
<1> USE BoundsAssumption
<1>1. now \in Nat /\ epoch \in Nat
  BY DEF TypeOK
<1>2. CASE Runs
  BY <1>1, <1>2 DEF Runs, TimePasses
<1>3. CASE Stops
  BY <1>1, <1>3 DEF Stops, OscillatorStops
<1>4. CASE Unreported
  BY <1>1, <1>4 DEF Unreported, ClockSetUnreported, ClockIsSet
<1>5. CASE Stands
  BY <1>1, <1>5 DEF Stands, clock
<1>6. QED BY <1>2, <1>3, <1>4, <1>5, Zenon DEF Quiet

(* A session without a baseline takes one of a stable sample, if any. *)
LEMMA Derived ==
  ASSUME NEW sync \in Syncs \cup {NULL}, NEW events \in Seq(Events)
  PROVE  LET b == KeptOrDerived(NULL, sync, events)
         IN  IF Succeeded(sync) /\ \E s \in Held(events) : StableBaseline(s, sync)
             THEN \E s \in Held(events) : StableBaseline(s, sync) /\ b = BaselineFrom(s, sync)
             ELSE b = NULL
<1>1. CASE ~Succeeded(sync)
  BY <1>1, Zenon DEF KeptOrDerived, BaselineForSession
<1>2. CASE Succeeded(sync)
  <2>1. sync \in Syncs
    BY <1>2, Zenon DEF Succeeded
  <2>2. KeptOrDerived(NULL, sync, events) = SelectDriftBaseline(sync, events)
    BY <1>2, Zenon DEF KeptOrDerived, BaselineForSession
  <2>3. QED BY <1>2, <2>1, <2>2, SelectedWhenStable, Zenon
<1>3. QED BY <1>1, <1>2, Zenon

(* A sample that is not after the synchronisation is no baseline of it. *)
LEMMA NoneBefore ==
  ASSUME NEW sync \in Syncs, NEW s \in Statuses, s.at <= sync.at
  PROVE  ~StableBaseline(s, sync)
<1>1. s.at \in Nat /\ sync.at \in Nat
  BY DEF Statuses, Syncs
<1>2. ~(s.at - sync.at >= Settle)
  BY <1>1, EvidenceAssumption
<1>3. QED BY <1>2, Zenon DEF StableBaseline, Settled

(* What a reported synchronisation leaves: nothing that is younger, and no baseline. *)
LEMMA ReportedSteps ==
  ASSUME TypeOK, TimeInv, Reported
  PROVE  /\ latestSync' \in Syncs /\ latestSync'.at = now /\ latestSync'.epoch = epoch'
         /\ epoch' = epoch + 1 /\ now' = now /\ unreported' = FALSE
         /\ latestStatus' = latestStatus /\ driftBaseline' = NULL
         /\ Held(eventStore') \subseteq Held(eventStore)
         /\ \A s \in Held(eventStore') : s.at <= latestSync'.at /\ ~StableBaseline(s, latestSync')
<1>1. PICK delta \in {0, 1}, late \in {0, MaxLate}, ok \in BOOLEAN :
        /\ ClockIsSet(delta, late, ok)
        /\ IngestRtcSyncResult(Outcome(delta, ok))
        /\ unreported' = FALSE /\ now' = now
  BY Zenon DEF Reported
<1>2. Outcome(delta, ok) \in Syncs /\ epoch' = epoch + 1
  BY <1>1, SetType, Zenon
<1>3. eventStore' = Appended(NULL) /\ latestStatus' = latestStatus /\ latestSync' = Outcome(delta, ok)
      /\ driftBaseline' = KeptOrDerived(NULL, latestSync', eventStore')
  BY <1>1, Zenon DEF IngestRtcSyncResult
<1>4. latestSync'.at = now /\ latestSync'.epoch = epoch'
  BY <1>3 DEF Outcome
<1>5. eventStore' \in Seq(Events)
  BY <1>3, NullIsAnEvent, AppendedEvents, Zenon
<1>6. Held(eventStore') \subseteq Held(eventStore) /\ Held(eventStore') \subseteq Statuses
  BY <1>3, <1>5, HeldRejected, HeldType, Zenon
<1>7. \A s \in Held(eventStore') : s.at <= latestSync'.at
  BY <1>4, <1>6 DEF TimeInv
<1>8. \A s \in Held(eventStore') : ~StableBaseline(s, latestSync')
  BY <1>2, <1>3, <1>6, <1>7, NoneBefore, Zenon
<1>9. driftBaseline' = NULL
  BY <1>2, <1>3, <1>5, <1>8, Derived, Zenon
<1>10. QED BY <1>1, <1>2, <1>3, <1>4, <1>6, <1>7, <1>8, <1>9, Zenon

(* What a packet that is no sync result, or a connection, leaves. *)
LEMMA IngestSteps ==
  ASSUME TypeOK, Ingests
  PROVE  /\ eventStore' \in Seq(Events)
         /\ \/ Forgets /\ Held(eventStore') = {}
            \/ /\ latestSync' = latestSync
               /\ latestStatus' = latestStatus \/ \E r \in BOOLEAN : latestStatus' = Sent(r)
               /\ \A s \in Held(eventStore') : s \in Held(eventStore) \/ \E r \in BOOLEAN : s = Sent(r)
               /\ \/ RecordRejection
                  \/ driftBaseline' = KeptOrDerived(driftBaseline, latestSync, eventStore')
<1>1. CASE Tells
  <2>1. PICK anomaly \in BOOLEAN, readable \in BOOLEAN : IngestRtcStatus(Sent(readable), anomaly)
    BY <1>1, Zenon DEF Tells
  <2> DEFINE event == IF anomaly THEN NULL ELSE Sent(readable)
  <2>2. event \in Events /\ (event = NULL \/ event = Sent(readable))
    BY SentType, Zenon DEF Events
  <2>3. eventStore' = Appended(event) /\ latestStatus' = Sent(readable) /\ latestSync' = latestSync
        /\ driftBaseline' = KeptOrDerived(driftBaseline, latestSync, eventStore')
    BY <2>1, Zenon DEF IngestRtcStatus
  <2> HIDE DEF event
  <2>4. eventStore' \in Seq(Events) /\ Held(eventStore') \subseteq Held(eventStore) \cup {event}
    BY <2>2, <2>3, AppendedEvents, HeldAppended, Zenon
  <2>5. NULL \notin Held(eventStore')
    BY Zenon DEF Held
  <2>6. QED BY <2>2, <2>3, <2>4, <2>5, Zenon
<1>2. CASE RecordRejection \/ IngestOther
  <2>1. eventStore' = Appended(NULL) /\ latestSync' = latestSync /\ latestStatus' = latestStatus
    BY <1>2, Zenon DEF RecordRejection, IngestOther
  <2>2. eventStore' \in Seq(Events) /\ Held(eventStore') \subseteq Held(eventStore)
    BY <2>1, NullIsAnEvent, AppendedEvents, HeldRejected, Zenon
  <2>3. RecordRejection \/ driftBaseline' = KeptOrDerived(driftBaseline, latestSync, eventStore')
    BY <1>2, Zenon DEF IngestOther
  <2>4. QED BY <2>1, <2>2, <2>3, Zenon
<1>3. CASE Forgets
  <2>1. eventStore' = <<>>
    BY <1>3, Zenon DEF Forgets
  <2>2. eventStore' \in Seq(Events) /\ DOMAIN eventStore' = {}
    BY <2>1, EmptySeq
  <2>3. Held(eventStore') = {}
    BY <2>2, Zenon DEF Held
  <2>4. QED BY <1>3, <2>2, <2>3, Zenon
<1>4. QED BY <1>1, <1>2, <1>3, Zenon DEF Ingests

LEMMA ThreeKinds ==
  ASSUME [Next]_vars
  PROVE  Quiet \/ Reported \/ (Ingests /\ UNCHANGED <<now, clock, unreported>>)
  BY StepKinds, Zenon DEF Quiet, Ingests

LEMMA TimeStep == ASSUME TypeOK, TimeInv, [Next]_vars PROVE TimeInv'
<1>1. now \in Nat /\ epoch \in Nat
  BY BoundsAssumption DEF TypeOK
<1>2. Held(eventStore) \subseteq Statuses /\ latestStatus \in Events /\ latestSync \in Syncs \cup {NULL}
  BY HeldType, Zenon DEF TypeOK, Events
<1>3. CASE Quiet
  <2>1. eventStore' = eventStore /\ latestStatus' = latestStatus /\ latestSync' = latestSync
    BY <1>3, QuietSteps, Zenon DEF rtcSlice
  <2>2. now' >= now /\ epoch' >= epoch
    BY <1>3, QuietSteps, Zenon
  <2>3. now' \in Nat /\ epoch' \in Nat
    BY NextType, BoundsAssumption DEF TypeOK
  <2>4. ASSUME latestSync # NULL PROVE latestSync.at <= now' /\ latestSync.epoch <= epoch'
    <3>1. latestSync.at \in Nat /\ latestSync.epoch \in Nat
      <4>1. latestSync \in Syncs
        BY <1>2, <2>4, Zenon
      <4>2. QED BY <4>1 DEF Syncs
    <3>2. latestSync.at <= now /\ latestSync.epoch <= epoch
      BY <2>4, Zenon DEF TimeInv
    <3>3. QED BY <1>1, <2>2, <2>3, <3>1, <3>2
  <2>5. latestStatus # NULL => latestStatus.at <= now'
    BY <1>1, <1>2, <2>2, <2>3 DEF TimeInv, Statuses, Events
  <2>6. \A s \in Held(eventStore) : s.at <= now'
    BY <1>1, <1>2, <2>2, <2>3 DEF TimeInv, Statuses
  <2>7. QED BY <2>1, <2>4, <2>5, <2>6, Zenon DEF TimeInv
<1>4. CASE Reported
  <2>1. latestSync'.at <= now'
    BY <1>1, <1>4, ReportedSteps
  <2>2. epoch' \in Nat /\ latestSync'.epoch <= epoch'
    BY <1>1, <1>4, ReportedSteps
  <2>3. latestStatus' # NULL => latestStatus'.at <= now'
    BY <1>4, ReportedSteps, Zenon DEF TimeInv
  <2>4. \A s \in Held(eventStore') : s.at <= now'
    BY <1>4, ReportedSteps, Zenon DEF TimeInv
  <2>5. QED BY <2>1, <2>2, <2>3, <2>4, Zenon DEF TimeInv
<1>5. CASE Ingests /\ UNCHANGED <<now, clock, unreported>>
  <2>1. now' = now /\ epoch' = epoch
    BY <1>5, Zenon DEF clock
  <2>2. CASE Forgets /\ Held(eventStore') = {}
    BY <2>2, Zenon DEF Forgets, TimeInv
  <2>3. CASE /\ latestSync' = latestSync
             /\ latestStatus' = latestStatus \/ \E r \in BOOLEAN : latestStatus' = Sent(r)
             /\ \A s \in Held(eventStore') : s \in Held(eventStore) \/ \E r \in BOOLEAN : s = Sent(r)
    <3>1. \A r : Sent(r).at <= now
      BY <1>1 DEF Sent
    <3>2. QED BY <2>1, <2>3, <3>1, Zenon DEF TimeInv
  <2>4. QED BY <1>5, <2>2, <2>3, IngestSteps, Zenon
<1>6. QED BY <1>3, <1>4, <1>5, ThreeKinds, Zenon

LEMMA RunStep == ASSUME TypeOK, TimeInv, RunInv, [Next]_vars PROVE RunInv'
<1>1. CASE Quiet
  <2>1. eventStore' = eventStore /\ latestStatus' = latestStatus /\ latestSync' = latestSync
    BY <1>1, QuietSteps, Zenon DEF rtcSlice
  <2>2. unreported' = unreported \/ unreported' = TRUE
    BY <1>1, QuietSteps, Zenon
  <2>3. CASE unreported' = TRUE
    BY <2>3, Zenon DEF RunInv
  <2>4. ASSUME unreported' # TRUE, ~osf' PROVE ~osf /\ epoch' = epoch
    <3>1. CASE Runs
      <4>1. PICK drift \in {-1, 0, 1} : TimePasses(drift)
        BY <3>1, Zenon DEF Runs
      <4>2. osf' = osf /\ epoch' = epoch
        BY <4>1, Zenon DEF TimePasses
      <4>3. QED BY <2>4, <4>2, Zenon
    <3>2. ~Stops
      BY <2>4, Zenon DEF Stops, OscillatorStops
    <3>3. ~Unreported
      BY <2>4, Zenon DEF Unreported, ClockSetUnreported
    <3>4. CASE Stands
      BY <2>4, <3>4, Zenon DEF Stands, clock
    <3>5. QED BY <1>1, <3>1, <3>2, <3>3, <3>4, Zenon DEF Quiet
  <2>5. CASE unreported' # TRUE
    BY <2>1, <2>2, <2>4, <2>5, Zenon DEF RunInv
  <2>6. QED BY <2>3, <2>5
<1>2. CASE Reported
  <2>1. latestSync' \in Syncs /\ latestSync'.at = now /\ latestSync'.epoch = epoch' /\ latestStatus' = latestStatus
    BY <1>2, ReportedSteps, Zenon
  <2>2. Held(eventStore') \subseteq Statuses /\ latestStatus \in Events /\ now \in Nat
    <3>1. Held(eventStore) \subseteq Statuses
      BY HeldType, Zenon DEF TypeOK, Events
    <3>2. now \in Nat
      BY BoundsAssumption DEF TypeOK
    <3>3. QED BY <1>2, <3>1, <3>2, ReportedSteps, Zenon DEF TypeOK, Events
  <2>3. \A s \in Statuses : s.at <= latestSync'.at => SameRun(s, latestSync')
    BY <2>1, <2>2 DEF SameRun, Statuses
  <2>4. latestStatus' # NULL => SameRun(latestStatus', latestSync')
    BY <2>1, <2>2, <2>3, Zenon DEF TimeInv, Events
  <2>5. \A s \in Held(eventStore') : SameRun(s, latestSync')
    BY <1>2, <2>2, <2>3, ReportedSteps, Zenon
  <2>6. QED BY <2>1, <2>4, <2>5, Zenon DEF RunInv
<1>3. CASE Ingests /\ UNCHANGED <<now, clock, unreported>>
  <2>1. osf' = osf /\ epoch' = epoch /\ unreported' = unreported
    BY <1>3, Zenon DEF clock
  <2>2. CASE Forgets /\ Held(eventStore') = {}
    BY <2>2, Zenon DEF Forgets, RunInv, Succeeded
  <2>3. CASE /\ latestSync' = latestSync
             /\ latestStatus' = latestStatus \/ \E r \in BOOLEAN : latestStatus' = Sent(r)
             /\ \A s \in Held(eventStore') : s \in Held(eventStore) \/ \E r \in BOOLEAN : s = Sent(r)
    <3>1. ASSUME Succeeded(latestSync), ~unreported, NEW r \in BOOLEAN PROVE SameRun(Sent(r), latestSync)
      <4>1. Sent(r).readable = r /\ Sent(r).osf = (r /\ osf) /\ Sent(r).epoch = epoch
        BY DEF Sent
      <4>2. Sent(r).readable /\ ~Sent(r).osf => ~osf
        BY <4>1, Zenon
      <4>3. QED BY <3>1, <4>1, <4>2, Zenon DEF SameRun, RunInv
    <3>2. QED BY <2>1, <2>3, <3>1, Zenon DEF RunInv
  <2>4. QED BY <1>3, <2>2, <2>3, IngestSteps, Zenon
<1>4. QED BY <1>1, <1>2, <1>3, ThreeKinds, Zenon

LEMMA SessionStep == ASSUME TypeOK, TimeInv, SessionInv, [Next]_vars PROVE SessionInv'
<1>1. CASE Quiet
  BY <1>1, QuietSteps, Zenon DEF rtcSlice, SessionInv
<1>2. CASE Reported
  BY <1>2, ReportedSteps, Zenon DEF SessionInv
<1>3. CASE Ingests
  <2>1. CASE Forgets
    BY <2>1, Zenon DEF Forgets, SessionInv, Succeeded
  <2>2. CASE RecordRejection
    BY <2>2, HeldRejected, Zenon DEF RecordRejection, SessionInv
  <2>3. CASE latestSync' = latestSync /\ driftBaseline' = KeptOrDerived(driftBaseline, latestSync, eventStore')
    <3>1. CASE driftBaseline # NULL
      <4>1. driftBaseline' = driftBaseline
        BY <2>3, <3>1, Zenon DEF KeptOrDerived
      <4>2. QED BY <2>3, <3>1, <4>1, Zenon DEF SessionInv
    <3>2. CASE driftBaseline = NULL
      <4>1. latestSync \in Syncs \cup {NULL} /\ eventStore' \in Seq(Events)
        BY <1>3, IngestSteps, Zenon DEF TypeOK
      <4>2. CASE Succeeded(latestSync) /\ \E s \in Held(eventStore') : StableBaseline(s, latestSync)
        <5>1. \E s : driftBaseline' = BaselineFrom(s, latestSync)
          BY <2>3, <3>2, <4>1, <4>2, Derived, Zenon
        <5>2. driftBaseline'.session = latestSync.id
          BY <5>1 DEF BaselineFrom
        <5>3. driftBaseline' # NULL
          <6>1. driftBaseline' = SelectDriftBaseline(latestSync, eventStore')
            BY <2>3, <3>2, <4>2, Zenon DEF KeptOrDerived, BaselineForSession
          <6>2. latestSync \in Syncs
            BY <4>1, <4>2, Zenon DEF Succeeded
          <6>3. StableBaselines(latestSync, eventStore') # {}
            BY <4>2, Zenon DEF Held, StableBaselines, RtcStatusPackets
          <6>4. QED BY <4>1, <6>1, <6>2, <6>3, SelectedIsStable, Zenon
        <5>4. QED BY <2>3, <4>2, <5>2, <5>3, Zenon DEF SessionInv
      <4>3. CASE ~(Succeeded(latestSync) /\ \E s \in Held(eventStore') : StableBaseline(s, latestSync))
        <5>1. driftBaseline' = NULL
          BY <2>3, <3>2, <4>1, <4>3, Derived, Zenon
        <5>2. QED BY <2>3, <4>3, <5>1, Zenon DEF SessionInv
      <4>4. QED BY <4>2, <4>3, Zenon
    <3>3. QED BY <3>1, <3>2
  <2>4. QED BY <1>3, <2>1, <2>2, <2>3, IngestSteps, Zenon
<1>4. QED BY <1>1, <1>2, <1>3, ThreeKinds, Zenon

(* A stable sample makes a sound baseline. *)
LEMMA StableIsSound ==
  ASSUME NEW sync \in Syncs, NEW s \in Statuses, StableBaseline(s, sync)
  PROVE  SoundBaseline(BaselineFrom(s, sync), sync) /\ BaselineFrom(s, sync).epoch = s.epoch
         /\ s.at > sync.at /\ s.readable /\ ~s.osf
<1>1. s.at \in Nat /\ sync.at \in Nat /\ Settle \in Nat /\ Settle >= 1
  BY EvidenceAssumption DEF Statuses, Syncs
<1>2. s.at - sync.at >= Settle
  BY Zenon DEF StableBaseline, Settled
<1>3. s.at > sync.at /\ s.at >= sync.at + Settle
  BY <1>1, <1>2
<1>4. s.readable /\ ~s.osf /\ Abs(Offset(s) - sync.delta) <= ReadbackTolerance
  BY Zenon DEF StableBaseline, ValidDriftSample
<1> DEFINE b == BaselineFrom(s, sync)
<1>5. b.at = s.at /\ b.reading = s.reading /\ b.epoch = s.epoch
  BY DEF BaselineFrom
<1> HIDE DEF b
<1>6. Offset(b) = Offset(s)
  BY <1>5, Zenon DEF Offset
<1>7. SoundBaseline(b, sync)
  BY <1>3, <1>4, <1>5, <1>6, Zenon DEF SoundBaseline
<1>8. QED BY <1>3, <1>4, <1>5, <1>7, Zenon DEF b

LEMMA BaseStep == ASSUME TypeOK, TimeInv, RunInv, BaseInv, RunInv', [Next]_vars PROVE BaseInv'
<1>1. CASE Quiet
  <2>1. driftBaseline' = driftBaseline /\ latestSync' = latestSync
    BY <1>1, QuietSteps, Zenon DEF rtcSlice
  <2>2. unreported' = unreported \/ unreported' = TRUE
    BY <1>1, QuietSteps, Zenon
  <2>3. QED BY <2>1, <2>2, Zenon DEF BaseInv
<1>2. CASE Reported
  BY <1>2, ReportedSteps, Zenon DEF BaseInv
<1>3. CASE Ingests /\ UNCHANGED <<now, clock, unreported>>
  <2>1. CASE Forgets
    BY <2>1, Zenon DEF Forgets, BaseInv
  <2>2. CASE RecordRejection
    BY <1>3, <2>2, Zenon DEF RecordRejection, BaseInv
  <2>3. CASE latestSync' = latestSync /\ driftBaseline' = KeptOrDerived(driftBaseline, latestSync, eventStore')
    <3>1. CASE driftBaseline # NULL
      <4>1. driftBaseline' = driftBaseline
        BY <2>3, <3>1, Zenon DEF KeptOrDerived
      <4>2. QED BY <1>3, <2>3, <4>1, Zenon DEF BaseInv
    <3>2. CASE driftBaseline = NULL /\ driftBaseline' # NULL
      <4>1. latestSync \in Syncs \cup {NULL} /\ eventStore' \in Seq(Events)
        BY <1>3, IngestSteps, Zenon DEF TypeOK
      <4>2. PICK s \in Held(eventStore') :
              StableBaseline(s, latestSync) /\ driftBaseline' = BaselineFrom(s, latestSync)
        BY <2>3, <3>2, <4>1, Derived, Zenon
      <4>3. Succeeded(latestSync)
        BY <2>3, <3>2, <4>1, Derived, Zenon
      <4>4. latestSync \in Syncs /\ s \in Statuses
        BY <4>1, <4>3, HeldType, Zenon DEF Succeeded
      <4>5. SoundBaseline(driftBaseline', latestSync) /\ driftBaseline'.epoch = s.epoch
            /\ s.at > latestSync.at /\ s.readable /\ ~s.osf
        BY <4>2, <4>4, StableIsSound, Zenon
      <4>6. ~unreported' => s.epoch = latestSync.epoch
        BY <2>3, <4>3, <4>5, Zenon DEF RunInv, SameRun
      <4>7. QED BY <2>3, <4>5, <4>6, Zenon DEF BaseInv
    <3>3. QED BY <3>1, <3>2, Zenon DEF BaseInv
  <2>4. QED BY <1>3, <2>1, <2>2, <2>3, IngestSteps, Zenon
<1>4. QED BY <1>1, <1>2, <1>3, ThreeKinds, Zenon

RtcInv == TypeOK /\ TimeInv /\ RunInv /\ SessionInv /\ BaseInv

LEMMA RtcInvariant == Spec => []RtcInv
<1>1. Init => RtcInv
  BY InitType, InitInv, Zenon DEF RtcInv
<1>2. RtcInv /\ [Next]_vars => RtcInv'
  <2> SUFFICES ASSUME RtcInv, [Next]_vars PROVE RtcInv'
    OBVIOUS
  <2>1. TypeOK /\ TimeInv /\ RunInv /\ SessionInv /\ BaseInv
    BY DEF RtcInv
  <2>2. TypeOK' /\ TimeInv' /\ RunInv' /\ SessionInv'
    BY <2>1, NextType, TimeStep, RunStep, SessionStep
  <2>3. BaseInv'
    BY <2>1, <2>2, BaseStep
  <2>4. QED BY <2>2, <2>3, Zenon DEF RtcInv
<1>3. QED BY <1>1, <1>2, PTL DEF Spec

-----------------------------------------------------------------------------
(*                         the baseline stands                             *)

(* The evidence is measured from the session's baseline, whether that is    *)
(* found in the session or looked for again.                                *)
MeasuredFromStored == Evidence.baseline = driftBaseline

LEMMA EvidenceBaseline == TypeOK /\ SessionInv => MeasuredFromStored
<1> SUFFICES ASSUME TypeOK, SessionInv PROVE Evidence.baseline = driftBaseline
  BY DEF MeasuredFromStored
<1> DEFINE used == BaselineInUse(latestSync, eventStore, driftBaseline)
<1>1. CASE ~Succeeded(latestSync)
  <2>1. Evidence = WithoutBaseline("DRIFT_SYNC_RESULT_MISSING")
    BY <1>1, Zenon DEF Evidence, DriftEvidence
  <2>2. Evidence.baseline = NULL
    BY <2>1 DEF WithoutBaseline
  <2>3. QED BY <1>1, <2>2, Zenon DEF SessionInv
<1>2. CASE Succeeded(latestSync)
  <2>1. latestSync \in Syncs /\ eventStore \in Seq(Events)
    BY <1>2, Zenon DEF TypeOK, Succeeded, Events
  <2>2. used = driftBaseline
    <3>1. CASE driftBaseline # NULL
      BY <3>1, Zenon DEF SessionInv, BaselineInUse
    <3>2. CASE driftBaseline = NULL
      <4>1. \A s \in Held(eventStore) : ~StableBaseline(s, latestSync)
        BY <1>2, <3>2, Zenon DEF SessionInv
      <4>2. SelectDriftBaseline(latestSync, eventStore) = NULL
        BY <2>1, <4>1, SelectedWhenStable, Zenon
      <4>3. QED BY <3>2, <4>2, Zenon DEF BaselineInUse
    <3>3. QED BY <3>1, <3>2
  <2> HIDE DEF used
  <2>3. CASE used # NULL
    <3>1. Evidence = EvidenceFrom(used, eventStore)
      BY <1>2, <2>3, Zenon DEF Evidence, DriftEvidence, used
    <3>2. EvidenceFrom(used, eventStore).baseline = used
      BY DEF EvidenceFrom
    <3>3. QED BY <2>2, <3>1, <3>2
  <2>4. CASE used = NULL
    <3>1. \E status : Evidence = WithoutBaseline(status)
      BY <1>2, <2>4, Zenon DEF Evidence, DriftEvidence, used
    <3>2. Evidence.baseline = NULL
      BY <3>1 DEF WithoutBaseline
    <3>3. QED BY <2>2, <2>4, <3>2
  <2>5. QED BY <2>3, <2>4
<1>3. QED BY <1>1, <1>2

LEMMA StoredStands ==
  ASSUME RtcInv, [Next]_vars, driftBaseline # NULL, latestSync' = latestSync
  PROVE  driftBaseline' = driftBaseline
<1>1. TypeOK /\ TimeInv /\ SessionInv
  BY Zenon DEF RtcInv
<1>2. Succeeded(latestSync)
  BY <1>1, Zenon DEF SessionInv
<1>3. latestSync # NULL /\ latestSync \in Syncs
  BY <1>1, <1>2, Zenon DEF Succeeded, TypeOK
<1>4. CASE Quiet
  BY <1>1, <1>4, QuietSteps, Zenon DEF rtcSlice
<1>5. ~Reported
  <2> SUFFICES ASSUME Reported PROVE FALSE
    OBVIOUS
  <2>1. latestSync'.epoch = epoch + 1
    BY <1>1, ReportedSteps, Zenon
  <2>2. latestSync.epoch <= epoch
    BY <1>1, <1>3, Zenon DEF TimeInv
  <2>3. epoch \in Nat
    BY <1>1, BoundsAssumption DEF TypeOK
  <2>4. latestSync.epoch = epoch + 1
    BY <2>1
  <2>5. QED BY <2>2, <2>3, <2>4
<1>6. CASE Ingests
  <2>1. ~Forgets
    BY <1>3, Zenon DEF Forgets
  <2>2. CASE RecordRejection
    BY <2>2, Zenon DEF RecordRejection
  <2>3. CASE driftBaseline' = KeptOrDerived(driftBaseline, latestSync, eventStore')
    BY <2>3, Zenon DEF KeptOrDerived
  <2>4. QED BY <1>1, <1>6, <2>1, <2>2, <2>3, IngestSteps, Zenon
<1>7. QED BY <1>4, <1>5, <1>6, ThreeKinds, Zenon

(* The baseline a drift is measured from is the same until another sync     *)
(* result or connection, however small the event store it came from.        *)
THEOREM BaselineStandsAlways == Spec => BaselineStands
<1> DEFINE Stand == (Evidence.baseline # NULL /\ latestSync' = latestSync) => Evidence'.baseline = Evidence.baseline
<1>1. RtcInv => MeasuredFromStored
  BY EvidenceBaseline, Zenon DEF RtcInv
<1>2. RtcInv' => MeasuredFromStored'
  BY <1>1, PTL
<1>3. RtcInv /\ RtcInv' /\ [Next]_vars => Stand
  BY <1>1, <1>2, StoredStands, Zenon DEF MeasuredFromStored
<1>4. QED BY <1>3, RtcInvariant, PTL DEF Spec, BaselineStands

-----------------------------------------------------------------------------
(*                         ready means kept                                *)

LEMMA Triangle ==
  ASSUME NEW a \in Int, NEW b \in Int, NEW c \in Int, NEW r \in Nat, NEW s \in Nat,
         Abs(a - b) <= r, Abs(b - c) <= s
  PROVE  Abs(a - c) <= r + s
  BY DEF Abs

LEMMA OffsetType ==
  ASSUME NEW s, s.reading \in Int, s.at \in Nat PROVE Offset(s) \in Int
<1>1. s.at * Step \in Int
  BY EvidenceAssumption
<1>2. QED BY <1>1 DEF Offset

(* What evidence that is ready rests on. *)
LEMMA ReadyRestsOn ==
  ASSUME RtcInv, Evidence.status = "DRIFT_EVIDENCE_READY"
  PROVE  /\ Succeeded(latestSync) /\ driftBaseline \in Baselines /\ driftBaseline # NULL
         /\ Evidence.baseline = driftBaseline
         /\ Evidence.current \in Held(eventStore) /\ Evidence.current \in Statuses
         /\ ValidDriftSample(Evidence.current)
         /\ Evidence.current.at > driftBaseline.at
         /\ MeasuredDrift(driftBaseline, Evidence.current) = "DRIFT_EVIDENCE_READY"
<1>1. TypeOK /\ SessionInv
  BY Zenon DEF RtcInv
<1>2. Evidence.baseline = driftBaseline
  BY <1>1, EvidenceBaseline DEF MeasuredFromStored
<1>3. Succeeded(latestSync)
  <2> SUFFICES ASSUME ~Succeeded(latestSync) PROVE FALSE
    OBVIOUS
  <2>1. Evidence = WithoutBaseline("DRIFT_SYNC_RESULT_MISSING")
    BY Zenon DEF Evidence, DriftEvidence
  <2>2. QED BY <2>1 DEF WithoutBaseline
<1> DEFINE used == BaselineInUse(latestSync, eventStore, driftBaseline)
<1>4. used # NULL
  <2> SUFFICES ASSUME used = NULL PROVE FALSE
    OBVIOUS
  <2> HIDE DEF used
  <2>1. Evidence = WithoutBaseline("DRIFT_BASELINE_UNSTABLE") \/ Evidence = WithoutBaseline("DRIFT_SETTLING_AFTER_SYNC")
    BY <1>3, Zenon DEF Evidence, DriftEvidence, used
  <2>2. QED BY <2>1 DEF WithoutBaseline
<1>5. Evidence = EvidenceFrom(used, eventStore)
  BY <1>3, <1>4, Zenon DEF Evidence, DriftEvidence
<1> HIDE DEF used
<1>6. used = driftBaseline
  <2>1. EvidenceFrom(used, eventStore).baseline = used
    BY DEF EvidenceFrom
  <2>2. QED BY <1>2, <1>5, <2>1
<1> DEFINE later == SamplesAfterBaseline(driftBaseline, eventStore)
<1> DEFINE current == eventStore[Max(later)]
<1>7. later # {}
  <2> SUFFICES ASSUME later = {} PROVE FALSE
    OBVIOUS
  <2>1. Evidence = [status |-> "DRIFT_BASELINE_PENDING", baseline |-> driftBaseline, current |-> NULL]
    BY <1>5, <1>6, Zenon DEF EvidenceFrom
  <2>2. QED BY <2>1
<1>8. Evidence = [status |-> MeasuredDrift(driftBaseline, current), baseline |-> driftBaseline, current |-> current]
  BY <1>5, <1>6, <1>7, Zenon DEF EvidenceFrom
<1>9. eventStore \in Seq(Events) /\ DOMAIN eventStore = 1..Len(eventStore) /\ Len(eventStore) \in Nat
  BY <1>1, LenProperties, Zenon DEF TypeOK, Events
<1>10. later \in SUBSET (1..Len(eventStore))
  BY <1>9, Zenon DEF SamplesAfterBaseline, RtcStatusPackets
<1>11. Max(later) \in later
  BY <1>7, <1>9, <1>10, MaxIsIn, Zenon
<1>12. /\ Max(later) \in DOMAIN eventStore /\ current # NULL /\ ValidDriftSample(current)
       /\ current.at > driftBaseline.at
  BY <1>11, Zenon DEF SamplesAfterBaseline, RtcStatusPackets
<1> HIDE DEF later
<1>13. current \in Held(eventStore)
  BY <1>12, Zenon DEF Held
<1>14. current \in Statuses
  BY <1>9, <1>13, HeldType, Zenon
<1> HIDE DEF current
<1>15. Evidence.current = current /\ MeasuredDrift(driftBaseline, current) = "DRIFT_EVIDENCE_READY"
  BY <1>8
<1>16. driftBaseline \in Baselines /\ driftBaseline # NULL
  BY <1>1, <1>4, <1>6, Zenon DEF TypeOK
<1>17. QED BY <1>2, <1>3, <1>12, <1>13, <1>14, <1>15, <1>16, Zenon

LEMMA DriftKept == ASSUME RtcInv PROVE DriftIsOfOneRun
<1> SUFFICES ASSUME Evidence.status = "DRIFT_EVIDENCE_READY", ~unreported
             PROVE  /\ Evidence.baseline.epoch = latestSync.epoch
                    /\ Evidence.current.epoch = latestSync.epoch
                    /\ Evidence.baseline.at >= latestSync.at + Settle
                    /\ Evidence.current.at >= Evidence.baseline.at + Target
                    /\ Abs(Offset(Evidence.current) - latestSync.delta) <= Tolerance + ReadbackTolerance
  BY Zenon DEF DriftIsOfOneRun
<1>1. TypeOK /\ RunInv /\ BaseInv
  BY Zenon DEF RtcInv
<1> DEFINE b == driftBaseline
           c == Evidence.current
<1>2. /\ Succeeded(latestSync) /\ b \in Baselines /\ b # NULL /\ Evidence.baseline = b
      /\ c \in Held(eventStore) /\ c \in Statuses /\ ValidDriftSample(c) /\ c.at > b.at
      /\ MeasuredDrift(b, c) = "DRIFT_EVIDENCE_READY"
  BY ReadyRestsOn, Zenon
<1> HIDE DEF b, c
<1>3. latestSync \in Syncs
  BY <1>1, <1>2, Zenon DEF Succeeded, TypeOK
<1>4. c.at \in Nat /\ c.reading \in Int /\ b.at \in Nat /\ b.reading \in Int
      /\ latestSync.at \in Nat /\ latestSync.delta \in Int
  <2>1. c.reading # NULL
    BY <1>2, Zenon DEF ValidDriftSample
  <2>2. c.at \in Nat /\ c.reading \in Int
    BY <1>2, <2>1 DEF Statuses, Readings
  <2>3. b.at \in Nat /\ b.reading \in Int
    BY <1>2 DEF Baselines
  <2>4. QED BY <1>3, <2>2, <2>3 DEF Syncs
<1>5. ~c.osf /\ ~(c.at - b.at < Target) /\ ~(Abs(Offset(c) - Offset(b)) > Tolerance)
  BY <1>2 DEF MeasuredDrift
<1>6. b.at >= latestSync.at + Settle /\ Abs(Offset(b) - latestSync.delta) <= ReadbackTolerance
  BY <1>1, <1>2, Zenon DEF BaseInv, SoundBaseline, b
<1>7. b.epoch = latestSync.epoch
  BY <1>1, <1>2, Zenon DEF BaseInv, b
<1>8. c.epoch = latestSync.epoch
  <2>1. c.at > latestSync.at
    BY <1>2, <1>4, <1>6, EvidenceAssumption
  <2>2. SameRun(c, latestSync)
    BY <1>1, <1>2, Zenon DEF RunInv
  <2>3. c.readable
    BY <1>2, Zenon DEF ValidDriftSample
  <2>4. QED BY <1>5, <2>1, <2>2, <2>3, Zenon DEF SameRun
<1>9. c.at >= b.at + Target
  BY <1>4, <1>5, EvidenceAssumption
<1>10. Offset(c) \in Int /\ Offset(b) \in Int
  BY <1>4, OffsetType
<1>11. Abs(Offset(c) - Offset(b)) <= Tolerance
  <2>1. Abs(Offset(c) - Offset(b)) \in Int
    BY <1>10 DEF Abs
  <2>2. QED BY <1>5, <2>1, EvidenceAssumption
<1>12. Abs(Offset(c) - latestSync.delta) <= Tolerance + ReadbackTolerance
  BY <1>4, <1>6, <1>10, <1>11, Triangle, EvidenceAssumption
<1>13. QED BY <1>2, <1>6, <1>7, <1>8, <1>9, <1>12 DEF c

LEMMA RetentionKept == ASSUME RtcInv PROVE RetentionIsOfOneRun
<1> SUFFICES ASSUME Retention = "RETENTION_EVIDENCE_READY", ~unreported, latestStatus.at > latestSync.at
             PROVE  latestStatus.epoch = latestSync.epoch /\ Abs(Offset(latestStatus)) <= RetentionTolerance
  BY Zenon DEF RetentionIsOfOneRun
<1>1. TypeOK /\ RunInv
  BY Zenon DEF RtcInv
<1>2. /\ latestStatus # NULL /\ Succeeded(latestSync) /\ latestStatus.readable /\ ~latestStatus.osf
      /\ latestStatus.reading # NULL /\ ~(Abs(Offset(latestStatus)) > RetentionTolerance)
  BY DEF Retention, RetentionStatus
<1>3. latestStatus.epoch = latestSync.epoch
  BY <1>1, <1>2, Zenon DEF RunInv, SameRun
<1>4. latestStatus \in Statuses
  BY <1>1, <1>2, Zenon DEF TypeOK
<1>5. latestStatus.reading \in Int /\ latestStatus.at \in Nat
  BY <1>2, <1>4 DEF Statuses, Readings
<1>6. Abs(Offset(latestStatus)) \in Int
  BY <1>5, OffsetType DEF Abs
<1>7. QED BY <1>2, <1>3, <1>6, EvidenceAssumption

(* Evidence that is ready is about a time the clock kept, for every          *)
(* tolerance and observation time.                                          *)
THEOREM ReadyMeansKeptAlways == Spec => []ReadyMeansKept
<1>1. RtcInv => ReadyMeansKept
  BY DriftKept, RetentionKept DEF ReadyMeansKept
<1>2. QED BY <1>1, RtcInvariant, PTL
================================================================================
