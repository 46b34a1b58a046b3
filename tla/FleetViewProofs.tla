--------------------------- MODULE FleetViewProofs ---------------------------
(***************************************************************************)
(* Machine-checked theorems about what the console shows of the fleet, for *)
(* all packets, limits and skews of the clocks.                            *)
(***************************************************************************)
EXTENDS FleetView, SequenceTheorems, WellFoundedInduction, TLAPS

Ages == (0..MaxAge) \cup {NULL}
Entry == [health: HealthStates, age: Ages, pinned: BOOLEAN]

\* An entry that a packet has just written: only a limitation of a chip or rail pins it.
Reported(d, e) ==
    /\ e.age = 0 /\ e.health \in HealthStates /\ e.pinned \in BOOLEAN
    /\ e.pinned => e.health = "DEGRADED" /\ d \notin CriticalNodes
    /\ e = [health |-> e.health, age |-> e.age, pinned |-> e.pinned]

LEMMA SeenIsReported == \A d, h : h \in HealthStates => Reported(d, Seen(h)) /\ ~Seen(h).pinned
  BY DEF Seen, Reported

LEMMA SystemHealthReports ==
  ASSUME NEW p, {p.main, p.sub} \subseteq HealthStates, NEW d \in DOMAIN SystemHealthEntries(p)
  PROVE  Reported(d, SystemHealthEntries(p)[d])
  BY SeenIsReported DEF SystemHealthEntries, WorksIf, HealthStates

LEMMA ChipStatusReports ==
  ASSUME NEW p, \A chip \in DOMAIN p.chips : chip \in Chips /\ p.chips[chip] \in ChipStatuses,
         NEW d \in DOMAIN ChipStatusEntries(p)
  PROVE  Reported(d, ChipStatusEntries(p)[d])
<1>1. d \in Chips /\ p.chips[d] \in ChipStatuses /\ ChipStatusEntries(p)[d] = ChipEntry(d, p.chips[d])
  BY DEF ChipStatusEntries
<1>2. d \notin CriticalNodes BY <1>1 DEF Chips, CriticalNodes
<1>3. ASSUME NEW status \in ChipStatuses PROVE Reported(d, ChipEntry(d, status))
  <2> DEFINE e == ChipEntry(d, status)
  <2>1. e.age = 0 /\ e.health \in {"HEALTHY", "DEGRADED"} /\ e.pinned \in BOOLEAN BY DEF ChipEntry
  <2>2. e.pinned => e.health = "DEGRADED" BY DEF ChipEntry
  <2>3. e = [health |-> e.health, age |-> e.age, pinned |-> e.pinned] BY DEF ChipEntry
  <2> HIDE DEF e
  <2>4. QED BY <1>2, <2>1, <2>2, <2>3 DEF Reported, HealthStates, e
<1>4. QED BY <1>1, <1>3

LEMMA PowerHealthReports ==
  ASSUME NEW p, NEW d \in DOMAIN PowerHealthEntries(p)
  PROVE  Reported(d, PowerHealthEntries(p)[d])
<1>1. d \in Rails /\ PowerHealthEntries(p)[d] = RailEntry(p.rails[d], p.measurement)
  BY DEF PowerHealthEntries
<1>2. d \notin CriticalNodes BY <1>1 DEF Rails, CriticalNodes
<1>3. ASSUME NEW reading, NEW measurement PROVE Reported(d, RailEntry(reading, measurement))
  <2>1. "in" # NULL BY NullAssumption
  <2>2. QED BY <1>2, <2>1 DEF RailEntry, Reported, HealthStates
<1>4. QED BY <1>1, <1>3

LEMMA NodeReports ==
  ASSUME NEW p, p.health \in HealthStates
  PROVE  /\ \A d \in DOMAIN GatewayHealthEntries(p) : Reported(d, GatewayHealthEntries(p)[d])
         /\ \A d \in DOMAIN NodeHealthEntries(p) : Reported(d, NodeHealthEntries(p)[d])
  BY SeenIsReported DEF GatewayHealthEntries, NodeHealthEntries

LEMMA WrittenReports ==
  ASSUME NEW registry \in [Devices -> Entry], NEW entries, \A d \in DOMAIN entries : Reported(d, entries[d])
  PROVE  \A d \in Devices : \/ Written(registry, entries)[d] = registry[d]
                            \/ Reported(d, Written(registry, entries)[d])
  BY DEF Written

LEMMA WrittenDomain ==
  ASSUME NEW registry \in [Devices -> Entry], NEW entries
  PROVE  Written(registry, entries) = [d \in Devices |-> Written(registry, entries)[d]]
  BY DEF Written

(* A packet writes some entries and leaves the others. *)
LEMMA AfterPacket ==
  ASSUME NEW registry \in [Devices -> Entry], NEW p, IsPacket(p)
  PROVE  /\ \A d \in Devices : \/ DevicesAfter(registry, p)[d] = registry[d]
                               \/ Reported(d, DevicesAfter(registry, p)[d])
         /\ DevicesAfter(registry, p) = [d \in Devices |-> DevicesAfter(registry, p)[d]]
<1> DEFINE Good(r) == /\ \A d \in Devices : r[d] = registry[d] \/ Reported(d, r[d])
                      /\ r = [d \in Devices |-> r[d]]
<1> SUFFICES Good(DevicesAfter(registry, p)) OBVIOUS
<1>1. ASSUME NEW entries, \A d \in DOMAIN entries : Reported(d, entries[d]) PROVE Good(Written(registry, entries))
  BY <1>1, WrittenReports, WrittenDomain
<1> HIDE DEF Good
<1>2. CASE p.event = "SYSTEM_HEALTH"
  <2>1. DevicesAfter(registry, p) = Written(registry, SystemHealthEntries(p)) BY <1>2 DEF DevicesAfter
  <2>2. {p.main, p.sub} \subseteq HealthStates BY <1>2 DEF IsPacket
  <2>3. \A d \in DOMAIN SystemHealthEntries(p) : Reported(d, SystemHealthEntries(p)[d]) BY <2>2, SystemHealthReports
  <2>4. QED BY <1>1, <2>1, <2>3, Zenon
<1>3. CASE p.event = "CHIP_STATUS"
  <2>1. DevicesAfter(registry, p) = Written(registry, ChipStatusEntries(p)) BY <1>3 DEF DevicesAfter
  <2>2. \A chip \in DOMAIN p.chips : chip \in Chips /\ p.chips[chip] \in ChipStatuses BY <1>3 DEF IsPacket
  <2>3. \A d \in DOMAIN ChipStatusEntries(p) : Reported(d, ChipStatusEntries(p)[d]) BY <2>2, ChipStatusReports
  <2>4. QED BY <1>1, <2>1, <2>3, Zenon
<1>4. CASE p.event = "POWER_HEALTH"
  <2>1. DevicesAfter(registry, p) = Written(registry, PowerHealthEntries(p)) BY <1>4 DEF DevicesAfter
  <2>2. \A d \in DOMAIN PowerHealthEntries(p) : Reported(d, PowerHealthEntries(p)[d]) BY PowerHealthReports
  <2>3. QED BY <1>1, <2>1, <2>2, Zenon
<1>5. CASE p.event = "GATEWAY_HEALTH"
  <2>1. DevicesAfter(registry, p) = Written(registry, GatewayHealthEntries(p)) BY <1>5 DEF DevicesAfter
  <2>2. p.health \in HealthStates BY <1>5 DEF IsPacket
  <2>3. QED BY <1>1, <2>1, <2>2, NodeReports, Zenon
<1>6. CASE p.event = "NODE_HEALTH"
  <2>1. DevicesAfter(registry, p) = Written(registry, NodeHealthEntries(p)) BY <1>6 DEF DevicesAfter
  <2>2. p.health \in HealthStates BY <1>6 DEF IsPacket
  <2>3. QED BY <1>1, <2>1, <2>2, NodeReports, Zenon
<1>7. CASE p.event \notin {"SYSTEM_HEALTH", "CHIP_STATUS", "POWER_HEALTH", "GATEWAY_HEALTH", "NODE_HEALTH"}
  <2>1. DevicesAfter(registry, p) = registry BY <1>7 DEF DevicesAfter
  <2>2. QED BY <2>1 DEF Good
<1>8. QED BY <1>2, <1>3, <1>4, <1>5, <1>6, <1>7

-----------------------------------------------------------------------------
(*                              the ageing                                 *)

LEMMA Limits ==
  /\ MaxAge \in Nat \ {0}
  /\ \A d : /\ DegradedAfter(d) \in Nat /\ OfflineAfter(d) \in Nat /\ DegradedAfter(d) <= OfflineAfter(d)
            /\ \A s \in Skews \cup {0} : s \in Int /\ MaxAge + s > OfflineAfter(d)
<1>1. MaxAge \in Nat \ {0} BY TimesAssumption
<1>2. Skews \subseteq Int BY TimesAssumption
<1>3. \A s \in Skews \cup {0} : s \in Int /\ MaxAge + s > NodeOffline /\ MaxAge + s > RailOffline /\ MaxAge + s > ChipOffline
  BY <1>2, TimesAssumption
<1>4. QED BY <1>1, <1>3, PolicyAssumption DEF DegradedAfter, OfflineAfter

Capped(age) == IF age > MaxAge THEN MaxAge ELSE age

(* An entry after some time, by the console's clock. *)
LEMMA AgedEntry ==
  ASSUME NEW d \in Devices, NEW registry \in [Devices -> Entry], NEW time \in Late, NEW s \in Skews \cup {0}
  PROVE  LET e == registry[d]
             a == AgedView(Older(registry, time, MaxAge))[d]
         IN  skew = s =>
               /\ e.age = NULL => a = e
               /\ e.age # NULL =>
                    /\ a \in Entry /\ a.pinned = e.pinned
                    /\ e.age \in 0..MaxAge /\ a.age \in 1..MaxAge /\ (a.age = MaxAge \/ a.age > e.age)
                    /\ a.health = IF e.pinned \/ a.age + s <= DegradedAfter(d) THEN e.health
                                  ELSE IF a.age + s > OfflineAfter(d) THEN "OFFLINE" ELSE "DEGRADED"
<1> DEFINE e == registry[d]
           o == Older(registry, time, MaxAge)[d]
           a == AgedView(Older(registry, time, MaxAge))[d]
<1> SUFFICES ASSUME skew = s
             PROVE  /\ e.age = NULL => a = e
                    /\ e.age # NULL =>
                         /\ a \in Entry /\ a.pinned = e.pinned
                         /\ e.age \in 0..MaxAge /\ a.age \in 1..MaxAge /\ (a.age = MaxAge \/ a.age > e.age)
                         /\ a.health = IF e.pinned \/ a.age + s <= DegradedAfter(d) THEN e.health
                                       ELSE IF a.age + s > OfflineAfter(d) THEN "OFFLINE" ELSE "DEGRADED"
  OBVIOUS
<1>1. e \in Entry /\ e.age \in Ages /\ e.health \in HealthStates /\ e.pinned \in BOOLEAN BY DEF Entry
<1>2. MaxAge \in Nat \ {0} /\ time \in Nat \ {0} /\ s \in Int /\ DegradedAfter(d) \in Nat /\ OfflineAfter(d) \in Nat
  BY Limits, TimesAssumption
<1>3. o = IF e.age = NULL THEN e ELSE [e EXCEPT !.age = IF @ + time > MaxAge THEN MaxAge ELSE @ + time]
  BY DEF Older
<1>4. a = Aged(d, o, s)
  <2>1. DOMAIN Older(registry, time, MaxAge) = Devices BY DEF Older
  <2>2. QED BY <2>1 DEF AgedView, AgedDevices
<1> HIDE DEF e, o, a
<1>5. CASE e.age = NULL BY <1>3, <1>4, <1>5 DEF Aged
<1>6. CASE e.age # NULL
  <2>1. e.age \in 0..MaxAge BY <1>1, <1>6 DEF Ages
  <2> DEFINE t == IF e.age + time > MaxAge THEN MaxAge ELSE e.age + time
  <2>2. t \in 1..MaxAge /\ (t = MaxAge \/ t > e.age) /\ t \in Int BY <1>2, <2>1
  <2>3. t # NULL /\ t \in Ages BY <2>2, NullAssumption DEF Ages
  <2>4. o = [e EXCEPT !.age = t] BY <1>3, <1>6
  <2> HIDE DEF t
  <2>5. o \in Entry /\ o.age = t /\ o.pinned = e.pinned /\ o.health = e.health BY <1>1, <2>3, <2>4 DEF Entry
  <2>6. CASE e.pinned \/ t + s <= DegradedAfter(d)
    <3>1. a = o BY <1>4, <2>3, <2>5, <2>6 DEF Aged
    <3>2. QED BY <1>6, <2>1, <2>2, <2>5, <2>6, <3>1
  <2>7. CASE ~(e.pinned \/ t + s <= DegradedAfter(d))
    <3> DEFINE h == IF t + s > OfflineAfter(d) THEN "OFFLINE" ELSE "DEGRADED"
    <3>1. a = [o EXCEPT !.health = h] BY <1>4, <2>3, <2>5, <2>7 DEF Aged
    <3>2. h \in HealthStates BY DEF HealthStates
    <3> HIDE DEF h
    <3>3. a \in Entry /\ a.age = t /\ a.pinned = e.pinned /\ a.health = h BY <2>5, <3>1, <3>2 DEF Entry
    <3>4. QED BY <1>6, <2>1, <2>2, <2>7, <3>3 DEF h
  <2>8. QED BY <2>6, <2>7
<1>7. QED BY <1>5, <1>6 DEF e, a

-----------------------------------------------------------------------------
(*                        what an entry shows                              *)

Mute(d) == ~devices[d].pinned /\ devices[d].age + skew > DegradedAfter(d)

\* An entry that was never written shows nothing well; a pinned one shows its limitation; a new
\* one is what was reported, and an older one that or silence.
EntryInv(d) ==
    /\ devices[d].pinned => devices[d].health = "DEGRADED" /\ d \notin CriticalNodes
    /\ devices[d].age = NULL => devices[d].health # "HEALTHY" /\ reported[d] = NULL
    /\ devices[d].age # NULL =>
         /\ reported[d] \in HealthStates
         /\ devices[d].health # reported[d] => Mute(d) /\ devices[d].age > 0
         /\ Mute(d) /\ devices[d].age > 0 =>
              devices[d].health = IF devices[d].age + skew > OfflineAfter(d) THEN "OFFLINE" ELSE "DEGRADED"

ClockType == skew \in Skews \cup {0} /\ hardware \in BOOLEAN
DeviceType == devices \in [Devices -> Entry] /\ reported = [d \in Devices |-> reported[d]]
DeviceInv == ClockType /\ DeviceType /\ globalHealth = GlobalHealth(devices) /\ \A d \in Devices : EntryInv(d)

LEMMA DeviceInit == Init => DeviceInv
<1> SUFFICES ASSUME Init PROVE DeviceInv OBVIOUS
<1>1. ClockType BY DEF Init, ClockType
<1>2. devices = InitialDevices /\ reported = [d \in Devices |-> NULL] /\ globalHealth = GlobalHealth(devices) BY DEF Init
<1>3. \A d \in Devices : /\ devices[d].age = NULL /\ devices[d].pinned = FALSE
                         /\ devices[d].health \in {"DEGRADED", "OFFLINE"}
                         /\ reported[d] = NULL
  BY <1>2 DEF InitialDevices
<1>4. devices \in [Devices -> Entry] BY <1>2 DEF InitialDevices, Entry, Ages, HealthStates
<1>5. DeviceType BY <1>2, <1>4 DEF DeviceType
<1>6. \A d \in Devices : EntryInv(d) BY <1>3 DEF EntryInv
<1>7. QED BY <1>1, <1>2, <1>5, <1>6 DEF DeviceInv

(* After a packet. *)
LEMMA DeviceAccept ==
  ASSUME DeviceInv, NEW p \in Packets[hardware], Accept(p)
  PROVE  DeviceInv'
<1>1. IsPacket(p) /\ ClockType BY PacketsAssumption DEF DeviceInv, ClockType
<1>2. /\ devices' = DevicesAfter(devices, p) /\ globalHealth' = GlobalHealth(devices')
      /\ skew' = skew /\ hardware' = hardware
      /\ reported' = [d \in Devices |-> IF devices'[d].age = 0 THEN devices'[d].health ELSE reported[d]]
  BY DEF Accept
<1>3. devices \in [Devices -> Entry] BY DEF DeviceInv, DeviceType
<1>4. /\ \A d \in Devices : devices'[d] = devices[d] \/ Reported(d, devices'[d])
      /\ devices' = [d \in Devices |-> devices'[d]]
  BY <1>1, <1>2, <1>3, AfterPacket, Zenon
<1>5. \A d, e : Reported(d, e) => e \in Entry
  <2>1. 0 \in Ages BY Limits DEF Ages
  <2>2. QED BY <2>1 DEF Reported, Entry
<1>6. \A d \in Devices : devices'[d] \in Entry BY <1>3, <1>4, <1>5
<1>7. DeviceType' BY <1>2, <1>4, <1>6 DEF DeviceType
<1>8. ASSUME NEW d \in Devices PROVE EntryInv(d)'
  <2>1. EntryInv(d) BY DEF DeviceInv
  <2>2. reported'[d] = IF devices'[d].age = 0 THEN devices'[d].health ELSE reported[d] BY <1>2
  <2>3. devices'[d].health \in HealthStates /\ devices'[d].age \in Ages BY <1>6 DEF Entry
  <2>4. CASE devices'[d].age = 0
    <3>1. devices'[d].age # NULL /\ ~(devices'[d].age > 0) BY <2>4, NullAssumption
    <3>2. devices'[d].pinned => devices'[d].health = "DEGRADED" /\ d \notin CriticalNodes
      BY <1>4, <2>1 DEF EntryInv, Reported
    <3>3. QED BY <2>2, <2>3, <2>4, <3>1, <3>2 DEF EntryInv
  <2>5. CASE devices'[d].age # 0
    <3>1. devices'[d] = devices[d] BY <1>4, <2>5 DEF Reported
    <3>2. reported'[d] = reported[d] /\ skew' = skew BY <1>2, <2>2, <2>5
    <3>3. QED BY <2>1, <3>1, <3>2, Zenon DEF EntryInv, Mute
  <2>6. QED BY <2>4, <2>5
<1>9. ClockType' BY <1>1, <1>2 DEF ClockType
<1>10. QED BY <1>2, <1>7, <1>8, <1>9, Zenon DEF DeviceInv

(* After the ageing timer. *)
LEMMA DeviceAge ==
  ASSUME DeviceInv, AgeRegistry
  PROVE  DeviceInv'
<1>1. /\ skew' = skew /\ hardware' = hardware /\ reported' = reported /\ globalHealth' = GlobalHealth(devices')
      /\ \E time \in Late : devices' = AgedView(Older(devices, time, MaxAge))
  BY DEF AgeRegistry
<1>2. PICK time \in Late : devices' = AgedView(Older(devices, time, MaxAge)) BY <1>1
<1>3. devices \in [Devices -> Entry] /\ skew \in Skews \cup {0} BY DEF DeviceInv, DeviceType, ClockType
<1>4. ASSUME NEW d \in Devices
      PROVE  /\ devices[d].age = NULL => devices'[d] = devices[d]
             /\ devices[d].age # NULL =>
                  /\ devices'[d] \in Entry /\ devices'[d].pinned = devices[d].pinned
                  /\ devices[d].age \in 0..MaxAge /\ devices'[d].age \in 1..MaxAge
                  /\ devices'[d].age = MaxAge \/ devices'[d].age > devices[d].age
                  /\ devices'[d].health =
                        IF devices[d].pinned \/ devices'[d].age + skew <= DegradedAfter(d) THEN devices[d].health
                        ELSE IF devices'[d].age + skew > OfflineAfter(d) THEN "OFFLINE" ELSE "DEGRADED"
  BY <1>2, <1>3, AgedEntry
<1>5. DeviceType'
  <2>1. \A d \in Devices : devices'[d] \in Entry BY <1>3, <1>4
  <2>2. DOMAIN devices' = Devices BY <1>2, <1>3 DEF AgedView, AgedDevices, Older
  <2>3. devices' = [d \in Devices |-> devices'[d]] BY <1>2, <2>2 DEF AgedView, AgedDevices
  <2>4. QED BY <1>1, <2>1, <2>3 DEF DeviceInv, DeviceType
<1>6. ASSUME NEW d \in Devices PROVE EntryInv(d)'
  <2>1. EntryInv(d) BY DEF DeviceInv
  <2>2. CASE devices[d].age = NULL
    <3>1. devices'[d] = devices[d] BY <1>4, <2>2
    <3>2. QED BY <1>1, <2>1, <3>1, Zenon DEF EntryInv, Mute
  <2>3. CASE devices[d].age # NULL
    <3> DEFINE e == devices[d]
               a == devices'[d]
    <3>1. /\ a.pinned = e.pinned /\ e.age \in 0..MaxAge /\ a.age \in 1..MaxAge /\ (a.age = MaxAge \/ a.age > e.age)
          /\ a.health = IF e.pinned \/ a.age + skew <= DegradedAfter(d) THEN e.health
                        ELSE IF a.age + skew > OfflineAfter(d) THEN "OFFLINE" ELSE "DEGRADED"
      BY <1>4, <2>3
    <3>2. /\ MaxAge \in Nat /\ skew \in Int /\ DegradedAfter(d) \in Nat /\ OfflineAfter(d) \in Nat
          /\ DegradedAfter(d) <= OfflineAfter(d) /\ MaxAge + skew > OfflineAfter(d)
      BY <1>3, Limits
    <3>3. /\ e.pinned => e.health = "DEGRADED" /\ d \notin CriticalNodes
          /\ reported[d] \in HealthStates
          /\ e.health # reported[d] => ~e.pinned /\ e.age + skew > DegradedAfter(d)
      BY <2>1, <2>3 DEF EntryInv, Mute
    <3> HIDE DEF e, a
    <3>4. a.age > 0 /\ a.age # NULL
      <4>1. a.age \in Int /\ a.age > 0 BY <3>1, <3>2
      <4>2. QED BY <4>1, NullAssumption
    <3>5. e.age + skew > DegradedAfter(d) => a.age + skew > DegradedAfter(d) BY <3>1, <3>2
    <3>6. ~(a.age + skew <= DegradedAfter(d)) <=> a.age + skew > DegradedAfter(d) BY <3>1, <3>2
    <3>7. a.health # reported[d] => ~a.pinned /\ a.age + skew > DegradedAfter(d)
      BY <3>1, <3>3, <3>5, <3>6, Zenon
    <3>8. ~a.pinned /\ a.age + skew > DegradedAfter(d) =>
            a.health = IF a.age + skew > OfflineAfter(d) THEN "OFFLINE" ELSE "DEGRADED"
      BY <3>1, <3>6, Zenon
    <3>9. a.pinned => a.health = "DEGRADED" /\ d \notin CriticalNodes BY <3>1, <3>3, Zenon
    <3>10. QED BY <1>1, <3>3, <3>4, <3>7, <3>8, <3>9, Zenon DEF EntryInv, Mute, a
  <2>4. QED BY <2>2, <2>3
<1>7. ClockType' BY <1>1, <1>3 DEF ClockType, DeviceInv
<1>8. QED BY <1>1, <1>5, <1>6, <1>7, Zenon DEF DeviceInv

LEMMA DeviceStep == DeviceInv /\ [Next]_vars => DeviceInv'
<1> SUFFICES ASSUME DeviceInv, [Next]_vars PROVE DeviceInv' OBVIOUS
<1>1. ASSUME UNCHANGED <<hardware, skew, devices, globalHealth, reported>> PROVE DeviceInv'
  BY <1>1, Zenon DEF DeviceInv, ClockType, DeviceType, EntryInv, Mute
<1>2. CASE Connect \/ Opened \/ Lost
  BY <1>1, <1>2, Zenon DEF Connect, Opened, Lost, SetConnectionState
<1>3. CASE StartSoak \/ ResetSoak \/ TargetTimePasses
  BY <1>1, <1>3, Zenon DEF StartSoak, ResetSoak, TargetTimePasses, fleet
<1>4. CASE Ignore \/ Reject
  BY <1>1, <1>4, Zenon DEF Ignore, Reject, fleet
<1>5. CASE UNCHANGED vars BY <1>1, <1>5, Zenon DEF vars, fleet
<1>6. QED BY <1>2, <1>3, <1>4, <1>5, DeviceAccept, DeviceAge, Zenon DEF Next

LEMMA DeviceAlways == Spec => []DeviceInv
  BY DeviceInit, DeviceStep, PTL DEF Spec

\* An entry shows what was last reported of the device or, once that is too old by the console's
\* clock, that the device is silent (updateEntry, ageDeviceRegistry).
THEOREM EntriesShowReportsOrSilence == Spec => []ShownIsReportedOrSilent
<1>1. DeviceInv => ShownIsReportedOrSilent
  BY Zenon DEF DeviceInv, EntryInv, Mute, ShownIsReportedOrSilent, Silent
<1>2. QED BY <1>1, DeviceAlways, PTL

-----------------------------------------------------------------------------
(*                     the links and the connection                        *)

LinkEntry == [state: LinkStates, sync: SyncStates, age: Ages, missed: Nat]

LinkType == links \in [Links -> LinkEntry]

\* "Live" data was accepted not long ago.
ReceiptInv ==
    /\ receipt \in Ages /\ stale \in BOOLEAN
    /\ ~stale => receipt # NULL /\ receipt <= StaleAfter

LEMMA ProvenType == Proven \in LinkEntry
  BY Limits DEF Proven, LinkEntry, LinkStates, SyncStates, Ages

LEMMA LinksReportedType ==
  ASSUME NEW registry \in [Links -> LinkEntry], NEW p, IsPacket(p)
  PROVE  LinksReported(registry, p) \in [Links -> LinkEntry]
<1>1. CASE p.event = "LINK_HEARTBEAT"
  <2> DEFINE e == [state |-> p.state, sync |-> p.sync, age |-> 0, missed |-> p.missed]
  <2>1. p.link \in Links /\ p.state \in LinkStates /\ p.sync \in SyncStates /\ p.missed \in Nat BY <1>1 DEF IsPacket
  <2>2. 0 \in Ages BY Limits DEF Ages
  <2>3. e \in LinkEntry BY <2>1, <2>2 DEF LinkEntry
  <2>4. LinksReported(registry, p) = [registry EXCEPT ![p.link] = e] BY <1>1 DEF LinksReported
  <2> HIDE DEF e
  <2>5. QED BY <2>3, <2>4
<1>2. CASE p.event = "LINK_SYNC"
  <2>1. p.link \in Links /\ p.sync \in SyncStates BY <1>2 DEF IsPacket
  <2> DEFINE e == [registry[p.link] EXCEPT !.sync = p.sync]
  <2>2. registry[p.link] \in LinkEntry BY <2>1
  <2>3. e \in LinkEntry BY <2>1, <2>2 DEF LinkEntry
  <2>4. LinksReported(registry, p) = [registry EXCEPT ![p.link] = e] BY <1>2 DEF LinksReported
  <2> HIDE DEF e
  <2>5. QED BY <2>3, <2>4
<1>3. CASE p.event \notin {"LINK_HEARTBEAT", "LINK_SYNC"} BY <1>3 DEF LinksReported
<1>4. QED BY <1>1, <1>2, <1>3

LEMMA LinksAfterType ==
  ASSUME NEW registry \in [Links -> LinkEntry], NEW p, IsPacket(p), NEW projected \in BOOLEAN
  PROVE  LinksAfter(registry, p, projected) \in [Links -> LinkEntry]
<1>1. LinksReported(registry, p) \in [Links -> LinkEntry] BY LinksReportedType
<1>2. CASE projected BY <1>1, <1>2, ProvenType DEF LinksAfter
<1>3. CASE ~projected BY <1>1, <1>3 DEF LinksAfter
<1>4. QED BY <1>2, <1>3

(* The connection's state shows on the laptop's own link alone. *)
LEMMA LinksConnectedType ==
  ASSUME NEW registry \in [Links -> LinkEntry], NEW state
  PROVE  /\ LinksConnected(registry, state) \in [Links -> LinkEntry]
         /\ \A l \in UartLinks : LinksConnected(registry, state)[l] = registry[l]
<1>1. "link_laptop_pi" \in Links /\ "link_laptop_pi" \notin UartLinks /\ UartLinks \subseteq Links
  BY DEF Links, UartLinks
<1> DEFINE e == registry["link_laptop_pi"]
           st == IF state = "OFFLINE" THEN "LINK_OFFLINE" ELSE "LINK_RECOVERING"
           f == [[e EXCEPT !.state = st] EXCEPT !.sync = "UNKNOWN"]
           x == IF state = "CONNECTED" THEN Proven ELSE f
<1>2. st \in LinkStates /\ "UNKNOWN" \in SyncStates BY DEF LinkStates, SyncStates
<1>3. e \in LinkEntry BY <1>1
<1>4. LinksConnected(registry, state) = [registry EXCEPT !["link_laptop_pi"] = x]
  BY <1>1 DEF LinksConnected
<1> HIDE DEF e, st
<1>5. f \in LinkEntry BY <1>2, <1>3 DEF LinkEntry
<1> HIDE DEF f
<1>6. x \in LinkEntry BY <1>5, ProvenType
<1> HIDE DEF x
<1>7. QED BY <1>1, <1>4, <1>6

LEMMA OlderLinks ==
  ASSUME NEW registry \in [Links -> LinkEntry], NEW time \in Late
  PROVE  /\ Older(registry, time, MaxAge) \in [Links -> LinkEntry]
         /\ \A l \in Links : /\ Older(registry, time, MaxAge)[l].state = registry[l].state
                             /\ Older(registry, time, MaxAge)[l].sync = registry[l].sync
<1>0. MaxAge \in Nat /\ time \in Nat BY Limits, TimesAssumption
<1> DEFINE o == Older(registry, time, MaxAge)
<1>1. ASSUME NEW l \in Links
      PROVE  o[l] \in LinkEntry /\ o[l].state = registry[l].state /\ o[l].sync = registry[l].sync
  <2> DEFINE e == registry[l]
             t == IF e.age + time > MaxAge THEN MaxAge ELSE e.age + time
  <2>1. e \in LinkEntry /\ e.age \in Ages BY DEF LinkEntry
  <2>2. o[l] = IF e.age = NULL THEN e ELSE [e EXCEPT !.age = t] BY DEF Older
  <2>3. e.age # NULL => t \in Ages BY <1>0, <2>1 DEF Ages
  <2> HIDE DEF o, e, t
  <2>4. CASE e.age = NULL BY <2>1, <2>2, <2>4 DEF e
  <2>5. CASE e.age # NULL
    <3>1. [e EXCEPT !.age = t] \in LinkEntry BY <2>1, <2>3, <2>5 DEF LinkEntry
    <3>2. [e EXCEPT !.age = t].state = e.state /\ [e EXCEPT !.age = t].sync = e.sync BY <2>1 DEF LinkEntry
    <3>3. QED BY <2>2, <2>5, <3>1, <3>2 DEF e
  <2>6. QED BY <2>4, <2>5
<1>2. o = [l \in Links |-> o[l]] BY DEF Older
<1>3. QED BY <1>1, <1>2

LinkInv == LinkType /\ ReceiptInv

LEMMA LinkInit == Init => LinkInv
<1> SUFFICES ASSUME Init PROVE LinkInv OBVIOUS
<1>1. links = InitialLinks /\ receipt = NULL /\ stale = TRUE BY DEF Init
<1>2. LinkType BY <1>1 DEF LinkType, InitialLinks, LinkEntry, LinkStates, SyncStates, Ages
<1>3. ReceiptInv BY <1>1 DEF ReceiptInv, Ages
<1>4. QED BY <1>2, <1>3 DEF LinkInv

LEMMA LinkStep == DeviceInv /\ LinkInv /\ [Next]_vars => LinkInv'
<1> SUFFICES ASSUME DeviceInv, LinkInv, [Next]_vars PROVE LinkInv' OBVIOUS
<1>0. links \in [Links -> LinkEntry] /\ hardware \in BOOLEAN BY DEF LinkInv, LinkType, DeviceInv, ClockType
<1>1. ASSUME UNCHANGED <<links, receipt, stale>> PROVE LinkInv'
  BY <1>1, Zenon DEF LinkInv, LinkType, ReceiptInv
<1>2. CASE Connect \/ Opened \/ Lost
  <2>1. receipt' = NULL /\ stale' = TRUE /\ \E state : SetConnectionState(state)
    BY <1>2, Zenon DEF Connect, Opened, Lost
  <2>2. ReceiptInv' BY <2>1 DEF ReceiptInv, Ages
  <2>3. PICK state : SetConnectionState(state) BY <2>1
  <2>4. links' = links \/ links' = LinksConnected(links, state) BY <2>3 DEF SetConnectionState
  <2>5. LinkType' BY <1>0, <2>4, LinksConnectedType DEF LinkType
  <2>6. QED BY <2>2, <2>5 DEF LinkInv
<1>3. ASSUME NEW p \in Packets[hardware], Accept(p) PROVE LinkInv'
  <2>1. receipt' = 0 /\ stale' = FALSE /\ links' = LinksAfter(links, p, hardware) BY <1>3 DEF Accept
  <2>2. IsPacket(p) BY <1>0, PacketsAssumption
  <2>3. LinkType' BY <1>0, <2>1, <2>2, LinksAfterType DEF LinkType
  <2>4. 0 \in Ages /\ 0 # NULL /\ 0 <= StaleAfter BY Limits, NullAssumption, TimesAssumption DEF Ages
  <2>5. ReceiptInv' BY <2>1, <2>4 DEF ReceiptInv
  <2>6. QED BY <2>3, <2>5 DEF LinkInv
<1>4. CASE AgeRegistry
  <2>1. PICK time \in Late :
          LET age == IF receipt = NULL THEN NULL ELSE IF receipt + time > MaxAge THEN MaxAge ELSE receipt + time
          IN  /\ links' = Older(links, time, MaxAge)
              /\ receipt' = age
              /\ stale' = (age = NULL \/ age > StaleAfter)
    BY <1>4, Zenon DEF AgeRegistry
  <2>2. LinkType' BY <1>0, <2>1, OlderLinks DEF LinkType
  <2>3. receipt \in Ages /\ MaxAge \in Nat /\ time \in Nat BY Limits, TimesAssumption DEF LinkInv, ReceiptInv
  <2>4. receipt' \in Ages
    <3>1. CASE receipt = NULL BY <2>1, <3>1 DEF Ages
    <3>2. CASE receipt # NULL
      <4>1. receipt \in 0..MaxAge BY <2>3, <3>2 DEF Ages
      <4>2. receipt' = IF receipt + time > MaxAge THEN MaxAge ELSE receipt + time BY <2>1, <3>2
      <4>3. receipt' \in 0..MaxAge BY <2>3, <4>1, <4>2
      <4>4. QED BY <4>3 DEF Ages
    <3>3. QED BY <3>1, <3>2
  <2>5. stale' = (receipt' = NULL \/ receipt' > StaleAfter) BY <2>1, Zenon
  <2>6. ~stale' => receipt' # NULL /\ ~(receipt' > StaleAfter) BY <2>5
  <2>7. ~stale' => receipt' <= StaleAfter
    <3>1. StaleAfter \in Nat /\ MaxAge \in Nat BY TimesAssumption
    <3>2. \A n \in 0..MaxAge : ~(n > StaleAfter) => n <= StaleAfter BY <3>1
    <3>3. ~stale' => receipt' \in 0..MaxAge BY <2>4, <2>6 DEF Ages
    <3>4. QED BY <2>6, <3>2, <3>3, Zenon
  <2>8. stale' \in BOOLEAN BY <2>5
  <2>9. QED BY <2>2, <2>4, <2>6, <2>7, <2>8, Zenon DEF LinkInv, ReceiptInv
<1>5. CASE StartSoak \/ ResetSoak \/ TargetTimePasses
  BY <1>1, <1>5, Zenon DEF StartSoak, ResetSoak, TargetTimePasses, fleet, session
<1>6. CASE Ignore \/ Reject BY <1>1, <1>6, Zenon DEF Ignore, Reject, fleet
<1>7. CASE UNCHANGED vars BY <1>1, <1>7, Zenon DEF vars, fleet, session
<1>8. QED BY <1>2, <1>3, <1>4, <1>5, <1>6, <1>7, Zenon DEF Next

LEMMA LinkAlways == Spec => []LinkInv
  BY LinkInit, LinkStep, DeviceAlways, PTL DEF Spec

-----------------------------------------------------------------------------
(*                   a system health check that passes                     *)

Passing(results) == "FAIL" \notin results /\ "WARNING" \notin results

LEMMA PassedRules ==
  ASSUME NEW view, HealthCheck(view) = "PASS"
  PROVE  /\ Passing(TopologyRules(view)) /\ Passing(StreamRules(view)) /\ Passing(IntegrityRules(view))
         /\ Passing(ChipPowerRules(view)) /\ Passing(GatewayRules(view)) /\ \A l \in Links : Passing(RulesForLink(view, l))
<1> DEFINE results == TopologyRules(view) \cup GatewayRules(view) \cup (UNION {RulesForLink(view, l) : l \in Links})
                      \cup StreamRules(view) \cup IntegrityRules(view) \cup ChipPowerRules(view)
<1>1. HealthCheck(view) = IF "FAIL" \in results THEN "FAIL" ELSE IF "WARNING" \in results THEN "WARNING" ELSE "PASS"
  BY DEF HealthCheck
<1> HIDE DEF results
<1>2. "FAIL" \notin results /\ "WARNING" \notin results BY <1>1
<1>3. ASSUME NEW r \in {"FAIL", "WARNING"}
      PROVE  /\ r \notin TopologyRules(view) /\ r \notin StreamRules(view) /\ r \notin IntegrityRules(view)
             /\ r \notin ChipPowerRules(view) /\ r \notin GatewayRules(view) /\ \A l \in Links : r \notin RulesForLink(view, l)
  <2>1. r \notin results BY <1>2
  <2> DEFINE ofLinks == UNION {RulesForLink(view, l) : l \in Links}
  <2>2. results = TopologyRules(view) \cup GatewayRules(view) \cup ofLinks
                  \cup StreamRules(view) \cup IntegrityRules(view) \cup ChipPowerRules(view)
    BY Zenon DEF results
  <2>3. ASSUME NEW l \in Links PROVE r \in RulesForLink(view, l) => r \in ofLinks BY Zenon
  <2> HIDE DEF ofLinks
  <2>4. /\ r \notin TopologyRules(view) /\ r \notin StreamRules(view) /\ r \notin IntegrityRules(view)
        /\ r \notin ChipPowerRules(view) /\ r \notin GatewayRules(view) /\ r \notin ofLinks
    BY <2>1, <2>2
  <2>5. QED BY <2>3, <2>4
<1>4. QED BY <1>3, Zenon DEF Passing

(* What each rule that passes says. *)
LEMMA PassedDevices ==
  ASSUME NEW view, HealthCheck(view) = "PASS"
  PROVE  \A d \in CriticalNodes \cup Chips \cup Rails : view.devices[d].health = "HEALTHY"
<1>1. Passing(TopologyRules(view)) /\ Passing(ChipPowerRules(view)) BY PassedRules
<1>2. \A device : NodeRule(device) \notin {"FAIL", "WARNING"} => device.health = "HEALTHY" BY DEF NodeRule
<1>3. ASSUME NEW d \in CriticalNodes PROVE NodeRule(view.devices[d]) \notin {"FAIL", "WARNING"}
  <2>1. NodeRule(view.devices[d]) \in TopologyRules(view) BY Zenon DEF TopologyRules
  <2>2. QED BY <1>1, <2>1 DEF Passing
<1>4. ASSUME NEW d \in Chips \ {"fram_mb85rs256b"} PROVE NodeRule(view.devices[d]) \notin {"FAIL", "WARNING"}
  <2>1. ChipRule(view.devices[d]) \in ChipPowerRules(view) BY Zenon DEF ChipPowerRules
  <2>2. QED BY <1>1, <2>1 DEF Passing, ChipRule
<1>5. ASSUME NEW d \in Rails PROVE NodeRule(view.devices[d]) \notin {"FAIL", "WARNING"}
  <2>1. RailRule(view.devices[d]) \in ChipPowerRules(view) BY Zenon DEF ChipPowerRules
  <2>2. QED BY <1>1, <2>1 DEF Passing, RailRule
<1>6. view.devices["fram_mb85rs256b"].health = "HEALTHY"
  <2>1. FramExpectedRule(view.devices["fram_mb85rs256b"]) \in ChipPowerRules(view) BY Zenon DEF ChipPowerRules
  <2>2. QED BY <1>1, <2>1 DEF Passing, FramExpectedRule, PassIf
<1>7. QED BY <1>2, <1>3, <1>4, <1>5, <1>6

LEMMA PassedStream ==
  ASSUME NEW view, HealthCheck(view) = "PASS"
  PROVE  view.connectionState = "CONNECTED" /\ ~view.stale /\ view.anomalies = {}
<1>1. Passing(StreamRules(view)) /\ Passing(IntegrityRules(view)) BY PassedRules
<1>2. view.connectionState = "CONNECTED"
  <2>1. PassIf(view.connectionState = "CONNECTED", IF view.connectionState = "OFFLINE" THEN "FAIL" ELSE "WARNING")
          \in StreamRules(view)
    BY Zenon DEF StreamRules
  <2>2. QED BY <1>1, <2>1 DEF Passing, PassIf
<1>3. ~view.stale
  <2>1. PassIf(~view.stale, "FAIL") \in StreamRules(view) BY Zenon DEF StreamRules
  <2>2. QED BY <1>1, <2>1 DEF Passing, PassIf
<1>4. view.anomalies = {}
  <2>1. ASSUME NEW a \in view.anomalies PROVE FALSE
    <3>1. (IF a = "outOfOrder" THEN "FAIL" ELSE "WARNING") \in IntegrityRules(view) BY Zenon DEF IntegrityRules
    <3>2. QED BY <1>1, <3>1 DEF Passing
  <2>2. QED BY <2>1
<1>5. QED BY <1>2, <1>3, <1>4

LEMMA PassedHeartbeats ==
  ASSUME NEW view, HealthCheck(view) = "PASS", NEW l \in UartLinks
  PROVE  /\ view.links[l].age # NULL
         /\ ~(view.links[l].age + view.skew > LinkFail) /\ view.links[l].age + view.skew < LinkWarning + 1
<1>1. l \in Links /\ l # "link_laptop_pi" BY DEF Links, UartLinks
<1>2. HeartbeatFreshness(view, view.links[l]) \in RulesForLink(view, l)
  <2>1. RulesForLink(view, l) = {LinkStateRule(view.links[l]), SyncStateRule(view.links[l]),
                                 PassIf(view.links[l].missed = 0, "WARNING"),
                                 HeartbeatFreshness(view, view.links[l])}
    BY <1>1 DEF RulesForLink
  <2>2. QED BY <2>1, Zenon
<1>3. HeartbeatFreshness(view, view.links[l]) \notin {"FAIL", "WARNING"} BY <1>1, <1>2, PassedRules DEF Passing
<1>4. view.links[l].age # NULL BY <1>3 DEF HeartbeatFreshness
<1>5. ThresholdRule(view.links[l].age + view.skew, LinkWarning + 1, LinkFail) \notin {"FAIL", "WARNING"}
  BY <1>3, <1>4 DEF HeartbeatFreshness
<1>6. QED BY <1>4, <1>5 DEF ThresholdRule, PassIf

\* A health check that passes is about a fleet that is heard now: an entry or a heartbeat that was
\* received before a reconnect, or by a clock that is ahead, does not make it pass
\* (evaluateV1PlusHealthCheck over what ageRegistry has aged).
THEOREM PassIsHeard == Spec => []PassMeansHeard
<1>1. ASSUME DeviceInv, LinkInv, HealthCheck(View) = "PASS"
      PROVE  /\ connectionState = "CONNECTED" /\ receipt # NULL /\ receipt <= StaleAfter /\ anomalies = {}
             /\ \A d \in CriticalNodes \cup Chips \cup Rails :
                  reported[d] = "HEALTHY" /\ Fresh(devices[d], DegradedAfter(d))
             /\ \A l \in UartLinks : Fresh(links[l], LinkWarning)
  <2>1. /\ View.devices = devices /\ View.links = links /\ View.connectionState = connectionState
        /\ View.stale = stale /\ View.anomalies = anomalies /\ View.skew = skew
    BY DEF View
  <2>2. connectionState = "CONNECTED" /\ ~stale /\ anomalies = {} BY <1>1, <2>1, PassedStream
  <2>3. receipt # NULL /\ receipt <= StaleAfter BY <1>1, <2>2 DEF LinkInv, ReceiptInv
  <2>4. ASSUME NEW d \in CriticalNodes \cup Chips \cup Rails
        PROVE  reported[d] = "HEALTHY" /\ Fresh(devices[d], DegradedAfter(d))
    <3>1. d \in Devices BY DEF Devices, Nodes
    <3>2. devices[d].health = "HEALTHY" BY <1>1, <2>1, PassedDevices
    <3>3. EntryInv(d) /\ devices[d] \in Entry BY <1>1, <3>1 DEF DeviceInv, DeviceType
    <3>4. devices[d].age # NULL /\ ~devices[d].pinned BY <3>2, <3>3 DEF EntryInv
    <3>5. ~(Mute(d) /\ devices[d].age > 0) BY <3>2, <3>3, <3>4 DEF EntryInv
    <3>6. reported[d] = "HEALTHY" BY <3>2, <3>3, <3>4, <3>5 DEF EntryInv
    <3>7. devices[d].age \in 0..MaxAge /\ MaxAge \in Nat BY <3>3, <3>4, Limits DEF Entry, Ages
    <3>8. devices[d].age = 0 \/ devices[d].age > 0 BY <3>7
    <3>9. QED BY <3>4, <3>5, <3>6, <3>8 DEF Fresh, Silent, Mute
  <2>5. ASSUME NEW l \in UartLinks PROVE Fresh(links[l], LinkWarning)
    <3>1. links[l].age # NULL /\ links[l].age + skew < LinkWarning + 1 BY <1>1, <2>1, PassedHeartbeats
    <3>2. links[l] \in LinkEntry BY <1>1 DEF LinkInv, LinkType, Links
    <3>3. links[l].age \in 0..MaxAge /\ MaxAge \in Nat BY <3>1, <3>2, Limits DEF LinkEntry, Ages
    <3>4. skew \in Int /\ LinkWarning \in Nat BY <1>1, Limits, TimesAssumption DEF DeviceInv, ClockType
    <3>5. ~(links[l].age + skew > LinkWarning) BY <3>1, <3>3, <3>4
    <3>6. QED BY <3>1, <3>5 DEF Fresh, Silent
  <2>6. QED BY <2>2, <2>3, <2>4, <2>5
<1>2. DeviceInv /\ LinkInv => PassMeansHeard BY <1>1 DEF PassMeansHeard
<1>3. QED BY <1>2, DeviceAlways, LinkAlways, PTL

-----------------------------------------------------------------------------
(*                     a soak test that has passed                         *)

IsSoak(test) ==
    test = [target |-> test.target, reached |-> test.reached, stability |-> test.stability, verdict |-> test.verdict]

\* What the verdict looked at stands until it is given anew, or the test begins or ends.
SoakInv ==
    /\ IsSoak(soak)
    /\ soak.verdict = "PASS" =>
         /\ \A d \in CriticalNodes : devices[d].age # NULL /\ devices[d].health \notin {"OFFLINE", "FAIL_SAFE"}
         /\ \A l \in UartLinks :
              /\ links[l].state = "LINK_HEALTHY" /\ links[l].sync = "SYNCED"
              /\ ~soak.stability[l].gap /\ ~soak.stability[l].recovered

LEMMA NoSoakIsSoak == IsSoak(NoSoak) /\ NoSoak.verdict = "IN_PROGRESS"
  BY DEF IsSoak, NoSoak

LEMMA VerdictEarned ==
  ASSUME NEW test, IsSoak(test), Judged(test)
  PROVE  SoakInv'
<1>1. soak' = [test EXCEPT !.verdict = Verdict(test)] BY DEF Judged
<1> DEFINE v == Verdict(test)
<1> HIDE DEF v
<1>2. soak' = [test EXCEPT !.verdict = v] BY <1>1 DEF v
<1>3. IsSoak(soak') /\ soak'.verdict = v /\ soak'.stability = test.stability BY <1>2 DEF IsSoak
<1>4. ASSUME v = "PASS"
      PROVE  ~FleetFails /\ \A l \in UartLinks : ~test.stability[l].gap /\ ~test.stability[l].recovered
  <2> DEFINE fail == rejected' \/ FleetFails \/ \E l \in UartLinks : test.stability[l].gap
             warning == \/ anomalies' \cap {"gaps", "duplicates"} # {} \/ dropped'
                        \/ \E l \in UartLinks : test.stability[l].recovered
  <2>1. v = IF fail THEN "FAIL" ELSE IF ~(test.target /\ test.reached) THEN "IN_PROGRESS"
            ELSE IF warning THEN "WARNING" ELSE "PASS"
    BY Zenon DEF v, Verdict
  <2> HIDE DEF fail, warning
  <2>2. ~fail /\ ~warning BY <1>4, <2>1
  <2>3. QED BY <2>2, Zenon DEF fail, warning
<1>5. ASSUME ~FleetFails
      PROVE  /\ \A d \in CriticalNodes : devices'[d].age # NULL /\ devices'[d].health \notin {"OFFLINE", "FAIL_SAFE"}
             /\ \A l \in UartLinks : links'[l].state = "LINK_HEALTHY" /\ links'[l].sync = "SYNCED"
  <2>1. UartLinks \subseteq Links BY DEF Links
  <2>2. QED BY <1>5, <2>1, Zenon DEF FleetFails
<1>6. QED BY <1>3, <1>4, <1>5, Zenon DEF SoakInv, IsSoak

LEMMA SoakInit == Init => SoakInv
  BY NoSoakIsSoak DEF Init, SoakInv

LEMMA SoakStep == LinkInv /\ SoakInv /\ [Next]_vars => SoakInv'
<1> SUFFICES ASSUME LinkInv, SoakInv, [Next]_vars PROVE SoakInv' OBVIOUS
<1>0. links \in [Links -> LinkEntry] /\ IsSoak(soak) BY DEF LinkInv, LinkType, SoakInv
<1>1. ASSUME UNCHANGED <<soak, devices>>, \A l \in UartLinks : links'[l] = links[l] PROVE SoakInv'
  BY <1>1, Zenon DEF SoakInv, IsSoak
<1>2. CASE Connect \/ Opened \/ Lost
  <2>1. PICK state : SetConnectionState(state) BY <1>2, Zenon DEF Connect, Opened, Lost
  <2>2. UNCHANGED <<soak, devices>> BY <2>1 DEF SetConnectionState
  <2>3. links' = links \/ links' = LinksConnected(links, state) BY <2>1 DEF SetConnectionState
  <2>4. \A l \in UartLinks : links'[l] = links[l] BY <1>0, <2>3, LinksConnectedType
  <2>5. QED BY <1>1, <2>2, <2>4
<1>3. CASE StartSoak
  <2>1. Judged([NoSoak EXCEPT !.target = TRUE]) BY <1>3 DEF StartSoak
  <2>2. ASSUME NEW test, IsSoak(test), NEW on PROVE IsSoak([test EXCEPT !.target = on]) BY <2>2 DEF IsSoak
  <2>3. IsSoak([NoSoak EXCEPT !.target = TRUE]) BY <2>2, NoSoakIsSoak, Zenon
  <2>4. QED BY <2>1, <2>3, VerdictEarned
<1>4. CASE ResetSoak
  <2>1. soak' = NoSoak BY <1>4 DEF ResetSoak
  <2>2. QED BY <2>1, NoSoakIsSoak DEF SoakInv
<1>5. CASE TargetTimePasses
  <2>1. soak' = [soak EXCEPT !.reached = TRUE] /\ UNCHANGED <<devices, links>>
    BY <1>5 DEF TargetTimePasses, fleet
  <2>2. IsSoak(soak') /\ soak'.verdict = soak.verdict /\ soak'.stability = soak.stability
    BY <1>0, <2>1 DEF IsSoak
  <2>3. QED BY <2>1, <2>2, Zenon DEF SoakInv, IsSoak
<1>6. ASSUME NEW p \in Packets[hardware], Accept(p) PROVE SoakInv'
  <2> DEFINE s == Stability(soak.stability, p)
             test == [soak EXCEPT !.stability = s]
  <2>1. Judged(test) BY <1>6 DEF Accept
  <2> HIDE DEF s
  <2>2. IsSoak(test) BY <1>0 DEF IsSoak
  <2> HIDE DEF test
  <2>3. QED BY <2>1, <2>2, VerdictEarned
<1>7. CASE Ignore BY <1>1, <1>7, Zenon DEF Ignore, fleet
<1>8. CASE Reject BY <1>0, <1>8, VerdictEarned, Zenon DEF Reject
<1>9. CASE AgeRegistry BY <1>0, <1>9, VerdictEarned, Zenon DEF AgeRegistry
<1>10. CASE UNCHANGED vars BY <1>1, <1>10, Zenon DEF vars, fleet
<1>11. QED BY <1>2, <1>3, <1>4, <1>5, <1>6, <1>7, <1>8, <1>9, <1>10, Zenon DEF Next

LEMMA SoakAlways == Spec => []SoakInv
  BY SoakInit, SoakStep, LinkAlways, PTL DEF Spec

\* A soak test that stands as passed is of a fleet whose nodes were reported well or have only just
\* fallen silent, whose UART links were last reported well, without a gap or an ended dropout
\* (deriveSoakVerdict, which the packets, the rejections and the timer give anew).
THEOREM PassedIsWell == Spec => []PassedFleetIsWell
<1>1. ASSUME DeviceInv, SoakInv, soak.verdict = "PASS", NEW d \in CriticalNodes
      PROVE  /\ reported[d] # NULL /\ Fresh(devices[d], OfflineAfter(d))
             /\ reported[d] \in {"OFFLINE", "FAIL_SAFE"} => Silent(devices[d], DegradedAfter(d))
  <2>1. d \in Devices BY DEF Devices, Nodes
  <2>2. devices[d].age # NULL /\ devices[d].health \notin {"OFFLINE", "FAIL_SAFE"} BY <1>1 DEF SoakInv
  <2>3. EntryInv(d) /\ devices[d] \in Entry BY <1>1, <2>1 DEF DeviceInv, DeviceType
  <2>4. ~devices[d].pinned /\ reported[d] \in HealthStates BY <1>1, <2>2, <2>3 DEF EntryInv
  <2>5. reported[d] # NULL BY <2>4, NullAssumption
  <2>6. devices[d].age \in 0..MaxAge /\ MaxAge \in Nat BY <2>2, <2>3, Limits DEF Entry, Ages
  <2>7. /\ skew \in Int /\ DegradedAfter(d) \in Nat /\ OfflineAfter(d) \in Nat
        /\ DegradedAfter(d) <= OfflineAfter(d)
    BY <1>1, Limits DEF DeviceInv, ClockType
  <2>8. devices[d].age + skew > OfflineAfter(d) => devices[d].age + skew > DegradedAfter(d) BY <2>6, <2>7
  <2>9. devices[d].age = 0 \/ ~(devices[d].age + skew > OfflineAfter(d))
    <3>1. devices[d].age = 0 \/ devices[d].age > 0 BY <2>6
    <3>2. QED BY <2>2, <2>3, <2>4, <2>8, <3>1, Zenon DEF EntryInv, Mute
  <2>10. Fresh(devices[d], OfflineAfter(d)) BY <2>2, <2>9 DEF Fresh, Silent
  <2>11. ASSUME reported[d] \in {"OFFLINE", "FAIL_SAFE"} PROVE Silent(devices[d], DegradedAfter(d))
    <3>1. devices[d].health # reported[d] BY <2>2, <2>11
    <3>2. Mute(d) BY <2>2, <2>3, <3>1 DEF EntryInv
    <3>3. QED BY <3>2 DEF Mute, Silent
  <2>12. QED BY <2>5, <2>10, <2>11
<1>2. DeviceInv /\ SoakInv => PassedFleetIsWell
  <2> SUFFICES ASSUME DeviceInv, SoakInv, soak.verdict = "PASS" PROVE PassedFleetIsWell BY DEF PassedFleetIsWell
  <2>1. \A l \in UartLinks : /\ links[l].state = "LINK_HEALTHY" /\ links[l].sync = "SYNCED"
                            /\ ~soak.stability[l].gap /\ ~soak.stability[l].recovered
    BY DEF SoakInv
  <2>2. QED BY <1>1, <2>1, Zenon DEF PassedFleetIsWell
<1>3. QED BY <1>2, DeviceAlways, SoakAlways, PTL

-----------------------------------------------------------------------------
(*                               the types                                 *)

Dispositions == {"ACCEPTED", "SCHEMA_REJECTED"} \cup DOMAIN AnomalyOf
EventRecord == [disposition: Dispositions, packet: Packets[TRUE] \cup Packets[FALSE] \cup {NULL}, age: Ages]
EventsType == events \in Seq(EventRecord) /\ Len(events) <= MaxEvents /\ dropped \in BOOLEAN /\ whole \in BOOLEAN

LEMMA DispositionType == \A found \in Anomalies : DispositionOf(found) \in Dispositions
<1> SUFFICES ASSUME NEW found \in Anomalies PROVE DispositionOf(found) \in DOMAIN AnomalyOf BY DEF Dispositions
<1>1. \E d \in DOMAIN AnomalyOf : AnomalyOf[d] = found BY DEF Anomalies, AnomalyOf
<1>2. QED BY <1>1, Zenon DEF DispositionOf

LEMMA AcceptedType == \A found \in Findings : AcceptedAs(found) \in Dispositions
<1> SUFFICES ASSUME NEW found \in Findings PROVE AcceptedAs(found) \in Dispositions OBVIOUS
<1>1. "ACCEPTED" \in Dispositions BY DEF Dispositions
<1>2. DispositionOf("switches") \in Dispositions /\ DispositionOf("resets") \in Dispositions /\ DispositionOf("gaps") \in Dispositions
  BY DispositionType DEF Anomalies
<1>3. QED BY <1>1, <1>2, Zenon DEF AcceptedAs

LEMMA RecordedType ==
  ASSUME EventsType, NEW event \in EventRecord, Recorded(event)
  PROVE  EventsType'
<1> DEFINE longer == Append(events, event)
           n == Len(longer)
<1>1. longer \in Seq(EventRecord) /\ n = Len(events) + 1 /\ Len(events) \in Nat /\ n \in Nat
  BY AppendProperties, LenProperties DEF EventsType
<1>2. events' = Bounded(longer, MaxEvents) /\ MaxEvents \in Nat BY TimesAssumption DEF Recorded
<1>3. \A i \in 1..n : longer[i] \in EventRecord BY <1>1, ElementOfSeq
<1>4. events' = IF n > MaxEvents THEN SubSeq(longer, n - MaxEvents + 1, n) ELSE longer BY <1>2 DEF Bounded
<1>5. Len(events) <= MaxEvents BY DEF EventsType
<1>6. dropped' \in BOOLEAN BY DEF Recorded
<1>7. whole' \in BOOLEAN BY DEF Recorded
<1> HIDE DEF longer, n
<1>8. CASE n > MaxEvents
  <2>1. n - MaxEvents + 1 \in Int /\ n \in Int /\ \A i \in n - MaxEvents + 1 .. n : i \in 1..n BY <1>1, <1>2, <1>8
  <2>2. \A i \in n - MaxEvents + 1 .. n : longer[i] \in EventRecord BY <1>3, <2>1
  <2>3. /\ SubSeq(longer, n - MaxEvents + 1, n) \in Seq(EventRecord)
        /\ Len(SubSeq(longer, n - MaxEvents + 1, n)) =
             IF n - MaxEvents + 1 <= n THEN n - (n - MaxEvents + 1) + 1 ELSE 0
    BY <2>1, <2>2, SubSeqProperties
  <2>4. events' \in Seq(EventRecord) /\ Len(events') <= MaxEvents BY <1>1, <1>2, <1>4, <1>8, <2>3
  <2>5. QED BY <1>6, <1>7, <2>4 DEF EventsType
<1>9. CASE ~(n > MaxEvents)
  <2>1. events' = longer BY <1>4, <1>9
  <2>2. Len(events') <= MaxEvents BY <1>1, <1>2, <1>9, <2>1 DEF n
  <2>3. QED BY <1>1, <1>6, <1>7, <2>1, <2>2 DEF EventsType
<1>10. QED BY <1>8, <1>9

LEMMA OlderEvents ==
  ASSUME EventsType, NEW time \in Late, events' = Older(events, time, MaxAge), UNCHANGED <<dropped, whole>>
  PROVE  EventsType'
<1> DEFINE n == Len(events)
<1>1. n \in Nat /\ DOMAIN events = 1..n BY LenProperties DEF EventsType
<1>2. ASSUME NEW i \in 1..n PROVE events'[i] \in EventRecord
  <2> DEFINE e == events[i]
             t == IF e.age + time > MaxAge THEN MaxAge ELSE e.age + time
  <2>1. e \in EventRecord BY ElementOfSeq DEF EventsType
  <2>2. events'[i] = IF e.age = NULL THEN e ELSE [e EXCEPT !.age = t] BY <1>1 DEF Older
  <2>3. e.age \in Ages BY <2>1 DEF EventRecord
  <2>4. e.age # NULL => t \in Ages
    <3>1. MaxAge \in Nat /\ time \in Nat BY Limits, TimesAssumption
    <3> HIDE DEF e
    <3>2. QED BY <2>3, <3>1 DEF Ages
  <2> HIDE DEF e, t
  <2>5. e.age # NULL => [e EXCEPT !.age = t] \in EventRecord BY <2>1, <2>4 DEF EventRecord
  <2>6. QED BY <2>1, <2>2, <2>5
<1>3. events' = [i \in 1..n |-> events'[i]] BY <1>1 DEF Older
<1> HIDE DEF n
<1>4. events' \in [1..n -> EventRecord] BY <1>2, <1>3
<1>5. events' \in Seq(EventRecord) /\ Len(events') = n BY <1>1, <1>4
<1>6. QED BY <1>5 DEF EventsType, n

SoakType == soak \in [target: BOOLEAN, reached: BOOLEAN, stability: [UartLinks -> LinkStability], verdict: Verdicts]

LEMMA UntimedType == NoSoak \in [target: BOOLEAN, reached: BOOLEAN, stability: [UartLinks -> LinkStability], verdict: Verdicts]
  BY DEF NoSoak, Untimed, LinkStability, Verdicts

LEMMA StabilityType ==
  ASSUME NEW stability \in [UartLinks -> LinkStability], NEW p, IsPacket(p)
  PROVE  Stability(stability, p) \in [UartLinks -> LinkStability]
<1>1. CASE p.event # "LINK_HEARTBEAT" \/ p.link \notin UartLinks BY <1>1 DEF Stability
<1>2. CASE p.event = "LINK_HEARTBEAT" /\ p.link \in UartLinks
  <2> DEFINE was == stability[p.link]
             gap == was.gap \/ (was.timed /\ links[p.link].age > GapLimit)
             recovered == was.recovered \/ (was.state \notin {NULL, "LINK_HEALTHY"} /\ p.state = "LINK_HEALTHY")
             new == [timed |-> TRUE, state |-> p.state, gap |-> gap, recovered |-> recovered]
  <2>1. Stability(stability, p) = [stability EXCEPT ![p.link] = new] BY <1>2 DEF Stability
  <2>2. gap \in BOOLEAN BY Zenon
  <2>3. recovered \in BOOLEAN BY Zenon
  <2>4. p.state \in LinkStates BY <1>2 DEF IsPacket
  <2> HIDE DEF gap, recovered
  <2>5. new \in LinkStability BY <2>2, <2>3, <2>4 DEF LinkStability
  <2> HIDE DEF new
  <2>6. QED BY <2>1, <2>5
<1>3. QED BY <1>1, <1>2

LEMMA JudgedType ==
  ASSUME NEW test \in [target: BOOLEAN, reached: BOOLEAN, stability: [UartLinks -> LinkStability], verdict: Verdicts],
         Judged(test)
  PROVE  SoakType'
<1> DEFINE v == Verdict(test)
<1>1. v \in Verdicts BY Zenon DEF Verdict, Verdicts
<1>2. soak' = [test EXCEPT !.verdict = v] BY DEF Judged
<1> HIDE DEF v
<1>3. QED BY <1>1, <1>2 DEF SoakType

\* What no other invariant says.
RestType ==
    /\ connectionState \in {"OFFLINE", "CONNECTING", "CONNECTED", "RECONNECTING"}
    /\ gateway = NULL \/ gateway.event = "GATEWAY_HEALTH"
    /\ streamKnown \in BOOLEAN /\ rate \in BOOLEAN /\ rejected \in BOOLEAN
    /\ anomalies \subseteq Anomalies
    /\ accepted \in 0..MaxPackets /\ ticks \in 0..MaxTicks /\ incidents \in 0..MaxIncidents

LEMMA BoundsAssumption == {MaxPackets, MaxTicks, MaxIncidents, MaxEvents} \subseteq Nat /\ Incidents \subseteq Anomalies
  BY TimesAssumption

LEMMA RestInit == Init => RestType /\ SoakType /\ EventsType
<1> SUFFICES ASSUME Init PROVE RestType /\ SoakType /\ EventsType OBVIOUS
<1>1. RestType
  <2>1. 0 \in 0..MaxPackets /\ 0 \in 0..MaxTicks /\ 0 \in 0..MaxIncidents BY BoundsAssumption
  <2>2. accepted \in 0..MaxPackets /\ ticks \in 0..MaxTicks /\ incidents \in 0..MaxIncidents BY <2>1, Zenon DEF Init
  <2>3. connectionState = "OFFLINE" /\ gateway = NULL /\ streamKnown = FALSE /\ rate = FALSE /\ rejected = FALSE
        /\ anomalies = {}
    BY Zenon DEF Init
  <2>4. QED BY <2>2, <2>3 DEF RestType
<1>2. SoakType BY UntimedType DEF Init, SoakType
<1>3. EventsType
  <2>1. events = <<>> /\ dropped = FALSE /\ whole = TRUE BY DEF Init
  <2>2. <<>> \in Seq(EventRecord) /\ Len(<<>>) = 0 BY EmptySeq
  <2>3. 0 <= MaxEvents BY BoundsAssumption
  <2>4. QED BY <2>1, <2>2, <2>3, Zenon DEF EventsType
<1>4. QED BY <1>1, <1>2, <1>3

LEMMA RestStep == RestType /\ [Next]_vars => RestType'
<1> SUFFICES ASSUME RestType, [Next]_vars PROVE RestType' OBVIOUS
<1>1. Incident => incidents' \in 0..MaxIncidents BY BoundsAssumption DEF Incident, RestType
<1>2. CASE Connect BY <1>2 DEF Connect, SetConnectionState, RestType
<1>3. CASE Opened BY <1>3 DEF Opened, SetConnectionState, RestType
<1>4. CASE Lost
  <2>1. PICK state \in {"RECONNECTING", "OFFLINE"} : SetConnectionState(state) BY <1>4 DEF Lost
  <2>2. connectionState' = state /\ UNCHANGED <<gateway, accepted, ticks>> BY <2>1 DEF SetConnectionState
  <2>3. UNCHANGED <<streamKnown, rate, anomalies, rejected>> /\ incidents' \in 0..MaxIncidents BY <1>1, <1>4 DEF Lost
  <2>4. QED BY <2>2, <2>3 DEF RestType
<1>5. CASE StartSoak \/ ResetSoak \/ TargetTimePasses
  BY <1>5, Zenon DEF StartSoak, ResetSoak, TargetTimePasses, fleet, session, bounds, RestType
<1>6. ASSUME NEW p \in Packets[hardware], Accept(p) PROVE RestType'
  <2>1. accepted' \in 0..MaxPackets /\ ticks' = ticks BY <1>6, BoundsAssumption DEF Accept, RestType
  <2>2. gateway' = NULL \/ gateway'.event = "GATEWAY_HEALTH" BY <1>6 DEF Accept, RestType
  <2>3. anomalies' \subseteq Anomalies /\ incidents' \in 0..MaxIncidents
    <3>1. \E found : /\ found \subseteq Incidents /\ anomalies' = anomalies \cup found
                     /\ UNCHANGED incidents \/ Incident
      BY <1>6, Zenon DEF Accept
    <3>2. QED BY <1>1, <3>1, BoundsAssumption DEF RestType
  <2>4. streamKnown' = TRUE /\ rate' = TRUE /\ UNCHANGED <<connectionState, rejected>> BY <1>6 DEF Accept
  <2>5. QED BY <2>1, <2>2, <2>3, <2>4 DEF RestType
<1>7. CASE Ignore
  <2>1. /\ UNCHANGED <<connectionState, gateway, rejected, accepted, ticks>>
        /\ streamKnown' = TRUE /\ rate' = TRUE /\ incidents' \in 0..MaxIncidents
        /\ \E found \in Incidents : anomalies' = anomalies \cup {found}
    BY <1>1, <1>7, Zenon DEF Ignore, fleet
  <2>2. QED BY <2>1, BoundsAssumption DEF RestType
<1>8. CASE Reject BY <1>1, <1>8 DEF Reject, fleet, RestType
<1>9. CASE AgeRegistry
  <2>1. ticks' \in 0..MaxTicks BY <1>9, BoundsAssumption DEF AgeRegistry, RestType
  <2>2. UNCHANGED <<connectionState, gateway, streamKnown, rate, anomalies, rejected, accepted, incidents>>
    BY <1>9, Zenon DEF AgeRegistry
  <2>3. QED BY <2>1, <2>2 DEF RestType
<1>10. CASE UNCHANGED vars BY <1>10, Zenon DEF vars, fleet, session, bounds, RestType
<1>11. QED BY <1>2, <1>3, <1>4, <1>5, <1>6, <1>7, <1>8, <1>9, <1>10, Zenon DEF Next

LEMMA SoakTypeStep == DeviceInv /\ SoakType /\ [Next]_vars => SoakType'
<1> SUFFICES ASSUME DeviceInv, SoakType, [Next]_vars PROVE SoakType' OBVIOUS
<1> DEFINE SoakTests == [target: BOOLEAN, reached: BOOLEAN, stability: [UartLinks -> LinkStability], verdict: Verdicts]
<1>1. ASSUME UNCHANGED soak PROVE SoakType' BY <1>1 DEF SoakType
<1>2. CASE Connect \/ Opened \/ Lost BY <1>1, <1>2, Zenon DEF Connect, Opened, Lost, SetConnectionState
<1>3. CASE StartSoak
  <2>1. Judged([NoSoak EXCEPT !.target = TRUE]) BY <1>3 DEF StartSoak
  <2>2. ASSUME NEW test \in SoakTests, NEW on \in BOOLEAN PROVE [test EXCEPT !.target = on] \in SoakTests BY <2>2
  <2>3. TRUE \in BOOLEAN OBVIOUS
  <2> HIDE DEF SoakTests
  <2>4. NoSoak \in SoakTests BY UntimedType DEF SoakTests
  <2>5. [NoSoak EXCEPT !.target = TRUE] \in SoakTests BY <2>2, <2>3, <2>4, Zenon
  <2>6. QED BY <2>1, <2>5, JudgedType DEF SoakTests
<1>4. CASE ResetSoak BY <1>4, UntimedType DEF ResetSoak, SoakType
<1>5. CASE TargetTimePasses BY <1>5 DEF TargetTimePasses, SoakType
<1>6. ASSUME NEW p \in Packets[hardware], Accept(p) PROVE SoakType'
  <2>1. IsPacket(p) BY PacketsAssumption DEF DeviceInv, ClockType
  <2> DEFINE s == Stability(soak.stability, p)
             test == [soak EXCEPT !.stability = s]
  <2>2. s \in [UartLinks -> LinkStability] BY <2>1, StabilityType DEF SoakType
  <2>3. Judged(test) BY <1>6 DEF Accept
  <2> HIDE DEF s
  <2>4. test \in SoakTests BY <2>2 DEF SoakType
  <2> HIDE DEF test
  <2>5. QED BY <2>3, <2>4, JudgedType
<1>7. CASE Ignore BY <1>1, <1>7, Zenon DEF Ignore
<1>8. CASE Reject \/ AgeRegistry
  <2>1. Judged(soak) BY <1>8, Zenon DEF Reject, AgeRegistry
  <2>2. soak \in SoakTests BY DEF SoakType
  <2>3. QED BY <2>1, <2>2, JudgedType
<1>9. CASE UNCHANGED vars BY <1>1, <1>9, Zenon DEF vars
<1>10. QED BY <1>2, <1>3, <1>4, <1>5, <1>6, <1>7, <1>8, <1>9, Zenon DEF Next

LEMMA EventsStep == DeviceInv /\ EventsType /\ [Next]_vars => EventsType'
<1> SUFFICES ASSUME DeviceInv, EventsType, [Next]_vars PROVE EventsType' OBVIOUS
<1>1. ASSUME UNCHANGED store PROVE EventsType' BY <1>1, Zenon DEF store, EventsType
<1>2. CASE Connect \/ Lost \/ StartSoak \/ ResetSoak \/ TargetTimePasses
  BY <1>1, <1>2, Zenon DEF Connect, Lost, StartSoak, ResetSoak, TargetTimePasses
<1>3. CASE Opened
  <2>1. events' = <<>> /\ dropped' = FALSE /\ whole' = (whole /\ events = <<>>) BY <1>3 DEF Opened
  <2>2. <<>> \in Seq(EventRecord) /\ Len(<<>>) = 0 BY EmptySeq
  <2>3. 0 <= MaxEvents BY BoundsAssumption
  <2>4. whole' \in BOOLEAN BY <2>1
  <2>5. QED BY <2>1, <2>2, <2>3, <2>4, Zenon DEF EventsType
<1>4. ASSUME NEW p \in Packets[hardware], Accept(p) PROVE EventsType'
  <2>1. \E d \in Dispositions : Recorded(Event(d, p, 0))
    <3>1. PICK found \in Findings : Recorded(Event(AcceptedAs(found), p, 0)) BY <1>4, Zenon DEF Accept
    <3>2. QED BY <3>1, AcceptedType
  <2>2. PICK d \in Dispositions : Recorded(Event(d, p, 0)) BY <2>1
  <2>3. 0 \in Ages BY Limits DEF Ages
  <2>4. p \in Packets[TRUE] \cup Packets[FALSE]
    <3>1. hardware = TRUE \/ hardware = FALSE BY Zenon DEF DeviceInv, ClockType
    <3>2. QED BY <1>4, <3>1
  <2>5. Event(d, p, 0) \in EventRecord BY <2>3, <2>4 DEF Event, EventRecord
  <2>6. QED BY <2>2, <2>5, RecordedType
<1>5. CASE Ignore
  <2>1. PICK found \in Incidents, age \in {events[i].age : i \in DOMAIN events} \ {NULL} :
          Recorded(Event(DispositionOf(found), NULL, age))
    BY <1>5, Zenon DEF Ignore
  <2>2. age \in Ages
    <3>1. PICK i \in DOMAIN events : age = events[i].age BY <2>1
    <3>2. events[i] \in EventRecord BY LenProperties, ElementOfSeq DEF EventsType
    <3>3. QED BY <3>1, <3>2 DEF EventRecord
  <2>3. DispositionOf(found) \in Dispositions BY DispositionType, BoundsAssumption
  <2> HIDE DEF Dispositions
  <2>4. Event(DispositionOf(found), NULL, age) \in EventRecord BY <2>2, <2>3 DEF Event, EventRecord
  <2>5. QED BY <2>1, <2>4, RecordedType
<1>6. CASE Reject
  <2>1. Recorded(Event("SCHEMA_REJECTED", NULL, NULL)) BY <1>6 DEF Reject
  <2>2. Event("SCHEMA_REJECTED", NULL, NULL) \in EventRecord BY DEF Event, EventRecord, Dispositions, Ages
  <2>3. QED BY <2>1, <2>2, RecordedType
<1>7. CASE AgeRegistry
  <2>1. PICK time \in Late : events' = Older(events, time, MaxAge) BY <1>7, Zenon DEF AgeRegistry
  <2>2. UNCHANGED <<dropped, whole>> BY <1>7, Zenon DEF AgeRegistry
  <2>3. QED BY <2>1, <2>2, OlderEvents
<1>8. CASE UNCHANGED vars BY <1>1, <1>8, Zenon DEF vars
<1>9. QED BY <1>2, <1>3, <1>4, <1>5, <1>6, <1>7, <1>8, Zenon DEF Next

LEMMA TypesAlways == Spec => [](RestType /\ SoakType /\ EventsType)
<1>1. RestType /\ SoakType /\ EventsType /\ DeviceInv /\ [Next]_vars => (RestType /\ SoakType /\ EventsType)'
  BY RestStep, SoakTypeStep, EventsStep
<1>2. QED BY <1>1, RestInit, DeviceAlways, PTL DEF Spec

\* Every variable of the fleet keeps its type: no age leaves its bounds, no packet gives an entry or a
\* link a state of its own, and the event store stays within its capacity (appendBoundedEvent).
THEOREM FleetTypeCorrect == Spec => []TypeOK
<1>1. ASSUME DeviceInv, LinkInv, RestType, SoakType, EventsType PROVE TypeOK
  <2>1. hardware \in BOOLEAN /\ skew \in Int BY <1>1, Limits DEF DeviceInv, ClockType
  <2>2. devices \in [Devices -> [health: HealthStates, age: (0..MaxAge) \cup {NULL}, pinned: BOOLEAN]]
    BY <1>1, Zenon DEF DeviceInv, DeviceType, Entry, Ages
  <2>3. links \in [Links -> [state: LinkStates, sync: SyncStates, age: (0..MaxAge) \cup {NULL}, missed: Nat]]
    BY <1>1, Zenon DEF LinkInv, LinkType, LinkEntry, Ages
  <2>4. receipt \in (0..MaxAge) \cup {NULL} /\ stale \in BOOLEAN BY <1>1, Zenon DEF LinkInv, ReceiptInv, Ages
  <2>5. globalHealth \in HealthStates BY <1>1 DEF DeviceInv, GlobalHealth, HealthStates
  <2>6. reported \in [Devices -> HealthStates \cup {NULL}]
    <3>1. reported = [d \in Devices |-> reported[d]] BY <1>1, Zenon DEF DeviceInv, DeviceType
    <3>2. ASSUME NEW d \in Devices PROVE reported[d] \in HealthStates \cup {NULL}
      <4>1. EntryInv(d) BY <1>1 DEF DeviceInv
      <4>2. reported[d] \in HealthStates \/ reported[d] = NULL BY <4>1, Zenon DEF EntryInv
      <4>3. QED BY <4>2
    <3>3. QED BY <3>1, <3>2
  <2>7. QED BY <1>1, <2>1, <2>2, <2>3, <2>4, <2>5, <2>6, Zenon DEF TypeOK, RestType, SoakType, EventsType
<1>2. QED BY <1>1, TypesAlways, DeviceAlways, LinkAlways, PTL
-----------------------------------------------------------------------------
(*                  the replay, one event after the other                  *)

LEMMA LeastExists ==
  ASSUME NEW S \in SUBSET Nat, S # {}
  PROVE  \E x \in S : \A y \in S : x <= y
<1>1. PICK x \in S : \A y \in S : <<y, x>> \notin OpToRel(<, Nat) BY NatLessThanWellFounded, WFMin, Zenon
<1>2. \A y \in S : ~(y < x) BY <1>1 DEF OpToRel
<1>3. QED BY <1>2

(* Induction up to n, for what can be said as membership in a set. *)
LEMMA UpTo ==
  ASSUME NEW n \in Nat, NEW S, 0 \in S, \A k \in 0..n : k \in S /\ k < n => k + 1 \in S
  PROVE  0..n \subseteq S
<1> SUFFICES ASSUME ~(0..n \subseteq S) PROVE FALSE OBVIOUS
<1> DEFINE Missing == {k \in 0..n : k \notin S}
<1>1. Missing \in SUBSET Nat /\ Missing # {} OBVIOUS
<1>2. PICK k \in Missing : \A j \in Missing : k <= j BY <1>1, LeastExists
<1>3. k \in 0..n /\ k \notin S /\ k # 0 OBVIOUS
<1>4. k - 1 \in 0..n /\ k - 1 < n /\ ~(k <= k - 1) BY <1>3
<1>5. k - 1 \in S BY <1>2, <1>4
<1>6. (k - 1) + 1 \in S BY <1>4, <1>5
<1>7. QED BY <1>3, <1>6

(* The replay's recursion has a solution: it begins with the empty console, and each event is applied to
   what those before it made. *)
LEMMA ReplayFunction ==
  ASSUME NEW es, Len(es) \in Nat, NEW c
  PROVE  ReplayedUpTo(es, c) =
           [i \in 0..Len(es) |-> IF i = 0 THEN InitialReplayState ELSE Applied(ReplayedUpTo(es, c)[i - 1], es[i], c)]
<1> DEFINE n == Len(es)
           Runs(g, k) == g = [i \in 0..k |-> IF i = 0 THEN InitialReplayState ELSE Applied(g[i - 1], es[i], c)]
           S == {k \in Nat : \E g : Runs(g, k)}
<1>1. 0 \in S
  <2> DEFINE g == [i \in 0..0 |-> InitialReplayState]
  <2>1. Runs(g, 0) OBVIOUS
  <2>2. QED BY <2>1, Zenon
<1>2. ASSUME NEW k \in 0..n, k \in S, k < n PROVE k + 1 \in S
  <2>1. PICK g : Runs(g, k) BY <1>2
  <2> DEFINE h == [i \in 0..(k + 1) |-> IF i <= k THEN g[i] ELSE Applied(g[k], es[k + 1], c)]
  <2>2. \A i \in 0..(k + 1) : h[i] = IF i = 0 THEN InitialReplayState ELSE Applied(h[i - 1], es[i], c)
    <3> SUFFICES ASSUME NEW i \in 0..(k + 1)
                 PROVE  h[i] = IF i = 0 THEN InitialReplayState ELSE Applied(h[i - 1], es[i], c)
      OBVIOUS
    <3>1. CASE i = 0 BY <2>1, <3>1
    <3>2. CASE i # 0 /\ i <= k
      <4>1. h[i] = g[i] /\ i \in 0..k /\ i - 1 \in 0..(k + 1) /\ i - 1 <= k BY <3>2
      <4>2. h[i - 1] = g[i - 1] BY <4>1
      <4>3. g[i] = Applied(g[i - 1], es[i], c) BY <2>1, <3>2, <4>1
      <4>4. QED BY <3>2, <4>1, <4>2, <4>3
    <3>3. CASE i = k + 1
      <4>1. k \in 0..(k + 1) /\ i - 1 = k /\ ~(i <= k) /\ i # 0 BY <3>3
      <4>2. h[k] = g[k] BY <4>1
      <4>3. QED BY <3>3, <4>1, <4>2
    <3>4. QED BY <3>1, <3>2, <3>3
  <2>3. h = [i \in 0..(k + 1) |-> h[i]] OBVIOUS
  <2> HIDE DEF h
  <2>4. Runs(h, k + 1) BY <2>2, <2>3
  <2>5. k + 1 \in Nat OBVIOUS
  <2> HIDE DEF Runs
  <2>6. QED BY <2>4, <2>5, Zenon
<1> HIDE DEF S
<1>3. 0..n \subseteq S BY <1>1, <1>2, UpTo
<1>4. \E g : Runs(g, n) BY <1>3 DEF S
<1>5. ReplayedUpTo(es, c) = CHOOSE g : Runs(g, n) BY DEF ReplayedUpTo
<1>6. QED BY <1>4, <1>5, Zenon

LEMMA ReplayStarts ==
  ASSUME NEW es, Len(es) \in Nat, NEW c
  PROVE  /\ ReplayedUpTo(es, c)[0] = InitialReplayState
         /\ \A i \in 1..Len(es) : ReplayedUpTo(es, c)[i] = Applied(ReplayedUpTo(es, c)[i - 1], es[i], c)
<1> DEFINE f == ReplayedUpTo(es, c)
           n == Len(es)
<1>1. f = [i \in 0..n |-> IF i = 0 THEN InitialReplayState ELSE Applied(f[i - 1], es[i], c)] BY ReplayFunction, Zenon
<1> HIDE DEF f, n
<1>2. n \in Nat BY DEF n
<1>3. 0 \in 0..n /\ \A i \in 1..n : i \in 0..n /\ i # 0 BY <1>2
<1>4. QED BY <1>1, <1>3 DEF f, n

ReplayState == [devices: [Devices -> Entry], links: [Links -> LinkEntry], gateway: Packets[TRUE] \cup Packets[FALSE] \cup {NULL}]

\* An event of a packet that was accepted has the packet's age.
Stamped(e) == e \in EventRecord /\ (IsAccepted(e) => e.age \in 0..MaxAge)

LEMMA EventPacket ==
  ASSUME NEW e, Stamped(e), IsAccepted(e)
  PROVE  e.packet \in Packets[TRUE] \cup Packets[FALSE] /\ IsPacket(e.packet) /\ e.age \in 0..MaxAge
<1>1. e.packet \in Packets[TRUE] \cup Packets[FALSE] BY DEF Stamped, EventRecord, IsAccepted
<1>2. IsPacket(e.packet) BY <1>1, PacketsAssumption
<1>3. QED BY <1>1, <1>2 DEF Stamped

LEMMA EntryReported == \A d, e : Reported(d, e) => e \in Entry
<1>1. 0 \in Ages BY Limits DEF Ages
<1>2. QED BY <1>1 DEF Reported, Entry

LEMMA DevicesAfterType ==
  ASSUME NEW registry \in [Devices -> Entry], NEW p, IsPacket(p)
  PROVE  DevicesAfter(registry, p) \in [Devices -> Entry]
<1> DEFINE next == DevicesAfter(registry, p)
<1>1. /\ \A d \in Devices : next[d] = registry[d] \/ Reported(d, next[d])
      /\ next = [d \in Devices |-> next[d]]
  BY AfterPacket, Zenon
<1> HIDE DEF next
<1>2. \A d \in Devices : next[d] \in Entry BY <1>1, EntryReported
<1>3. QED BY <1>1, <1>2 DEF next

\* How old a heartbeat is by the replay's clock.
Since(age, clock) == IF age > clock THEN age - clock ELSE 0

(* A heartbeat writes its link, a synchronisation report one field of it. *)
LEMMA LinksApplied ==
  ASSUME NEW registry \in [Links -> LinkEntry], NEW e, Stamped(e), IsAccepted(e), NEW clock \in Nat
  PROVE  LET p == e.packet
             next == AppliedToLinks(registry, e, clock)
             heard == [state |-> p.state, sync |-> p.sync, age |-> Since(e.age, clock), missed |-> p.missed]
         IN  /\ next \in [Links -> LinkEntry]
             /\ p.event = "LINK_HEARTBEAT" => p.link \in Links /\ heard \in LinkEntry /\ next = [registry EXCEPT ![p.link] = heard]
             /\ p.event = "LINK_SYNC" => /\ p.link \in Links /\ p.sync \in SyncStates
                                         /\ next = [registry EXCEPT ![p.link] = [registry[p.link] EXCEPT !.sync = p.sync]]
             /\ p.event \notin {"LINK_HEARTBEAT", "LINK_SYNC"} => next = registry
<1> DEFINE p == e.packet
           next == AppliedToLinks(registry, e, clock)
           said == [state |-> p.state, sync |-> p.sync, age |-> 0, missed |-> p.missed]
           age == Since(e.age, clock)
           heard == [state |-> p.state, sync |-> p.sync, age |-> age, missed |-> p.missed]
<1>1. IsPacket(p) /\ e.age \in 0..MaxAge /\ MaxAge \in Nat BY EventPacket, Limits
<1>2. age \in Ages BY <1>1 DEF Since, Ages
<1>3. CASE p.event = "LINK_HEARTBEAT"
  <2>1. p.link \in Links /\ p.state \in LinkStates /\ p.sync \in SyncStates /\ p.missed \in Nat BY <1>1, <1>3 DEF IsPacket
  <2>2. LinksReported(registry, p) = [registry EXCEPT ![p.link] = said] BY <1>3 DEF LinksReported
  <2>3. next = [LinksReported(registry, p) EXCEPT ![p.link].age = age] BY <1>3 DEF AppliedToLinks, Since
  <2> HIDE DEF age, next, p
  <2>4. [said EXCEPT !.age = age] = heard OBVIOUS
  <2>5. heard \in LinkEntry BY <1>2, <2>1 DEF LinkEntry
  <2> HIDE DEF said, heard
  <2>6. next = [registry EXCEPT ![p.link] = heard] BY <2>1, <2>2, <2>3, <2>4
  <2>7. next \in [Links -> LinkEntry] BY <2>5, <2>6
  <2>8. QED BY <1>3, <2>1, <2>5, <2>6, <2>7, Zenon DEF p, next, heard, age
<1>4. CASE p.event # "LINK_HEARTBEAT"
  <2>1. next = LinksReported(registry, p) BY <1>4 DEF AppliedToLinks
  <2>2. next \in [Links -> LinkEntry] BY <1>1, <2>1, LinksReportedType, Zenon
  <2>3. p.event = "LINK_SYNC" => /\ p.link \in Links /\ p.sync \in SyncStates
                                 /\ next = [registry EXCEPT ![p.link] = [registry[p.link] EXCEPT !.sync = p.sync]]
    BY <1>1, <2>1 DEF IsPacket, LinksReported
  <2>4. p.event # "LINK_SYNC" => next = registry BY <1>4, <2>1 DEF LinksReported
  <2> HIDE DEF next, p
  <2>5. QED BY <1>4, <2>2, <2>3, <2>4, Zenon DEF next, p
<1>5. QED BY <1>3, <1>4

LEMMA AppliedType ==
  ASSUME NEW state \in ReplayState, NEW e, Stamped(e), NEW clock \in Nat
  PROVE  Applied(state, e, clock) \in ReplayState
<1>1. CASE ~IsAccepted(e) BY <1>1 DEF Applied
<1>2. CASE IsAccepted(e)
  <2>1. e.packet \in Packets[TRUE] \cup Packets[FALSE] /\ IsPacket(e.packet) BY <1>2, EventPacket
  <2> DEFINE d == AppliedToDevices(state.devices, e.packet)
             l == AppliedToLinks(state.links, e, clock)
             g == IF e.packet.event = "GATEWAY_HEALTH" THEN e.packet ELSE state.gateway
  <2>2. /\ state.devices \in [Devices -> Entry] /\ state.links \in [Links -> LinkEntry]
        /\ state.gateway \in Packets[TRUE] \cup Packets[FALSE] \cup {NULL}
    BY DEF ReplayState
  <2>3. d \in [Devices -> Entry] BY <2>1, <2>2, DevicesAfterType, Zenon DEF AppliedToDevices
  <2>4. l \in [Links -> LinkEntry] BY <1>2, <2>2, LinksApplied, Zenon
  <2>5. g \in Packets[TRUE] \cup Packets[FALSE] \cup {NULL} BY <2>1, <2>2
  <2>6. Applied(state, e, clock) = [devices |-> d, links |-> l, gateway |-> g] BY <1>2 DEF Applied
  <2> HIDE DEF d, l, g
  <2>7. [devices |-> d, links |-> l, gateway |-> g] \in ReplayState BY <2>3, <2>4, <2>5, Zenon DEF ReplayState
  <2>8. QED BY <2>6, <2>7, Zenon
<1>3. QED BY <1>1, <1>2

LEMMA InitialReplayType == InitialReplayState \in ReplayState
<1>1. InitialDevices \in [Devices -> Entry] BY DEF InitialDevices, Entry, Ages, HealthStates
<1>2. InitialLinks \in [Links -> LinkEntry] BY DEF InitialLinks, LinkEntry, LinkStates, SyncStates, Ages
<1>3. QED BY <1>1, <1>2, Zenon DEF InitialReplayState, ReplayState

IsLog(es) == es \in Seq(EventRecord) /\ \A i \in 1..Len(es) : Stamped(es[i])

LEMMA ReplayType ==
  ASSUME NEW es, IsLog(es), NEW clock \in Nat
  PROVE  \A i \in 0..Len(es) : ReplayedUpTo(es, clock)[i] \in ReplayState
<1> DEFINE n == Len(es)
           f == ReplayedUpTo(es, clock)
           S == {k \in Nat : f[k] \in ReplayState}
<1>1. n \in Nat /\ \A i \in 1..n : Stamped(es[i]) BY LenProperties DEF IsLog
<1>2. f[0] = InitialReplayState /\ \A i \in 1..n : f[i] = Applied(f[i - 1], es[i], clock) BY <1>1, ReplayStarts
<1> HIDE DEF f, n
<1>3. 0 \in S BY <1>2, InitialReplayType
<1>4. ASSUME NEW k \in 0..n, k \in S, k < n PROVE k + 1 \in S
  <2>1. k + 1 \in 1..n /\ (k + 1) - 1 = k /\ k + 1 \in Nat BY <1>1, <1>4
  <2>2. f[k + 1] = Applied(f[k], es[k + 1], clock) BY <1>2, <2>1
  <2>3. f[k] \in ReplayState BY <1>4
  <2>4. f[k + 1] \in ReplayState BY <1>1, <2>1, <2>2, <2>3, AppliedType
  <2>5. QED BY <2>1, <2>4
<1> HIDE DEF S
<1>5. 0..n \subseteq S BY <1>1, <1>3, <1>4, UpTo
<1>6. QED BY <1>5 DEF S, f, n

(* One event more is applied to what those before it made. *)
LEMMA ReplayAppend ==
  ASSUME NEW es, IsLog(es), NEW e \in EventRecord, NEW clock
  PROVE  Replayed(Append(es, e), clock) = Applied(Replayed(es, clock), e, clock)
<1> DEFINE n == Len(es)
           longer == Append(es, e)
           f == ReplayedUpTo(es, clock)
           g == ReplayedUpTo(longer, clock)
           S == {k \in Nat : g[k] = f[k]}
<1>1. n \in Nat /\ Len(longer) = n + 1 /\ longer[n + 1] = e /\ \A i \in 1..n : longer[i] = es[i]
  BY AppendProperties, LenProperties DEF IsLog
<1>2. f[0] = InitialReplayState /\ \A i \in 1..n : f[i] = Applied(f[i - 1], es[i], clock) BY <1>1, ReplayStarts
<1>3. g[0] = InitialReplayState /\ \A i \in 1..(n + 1) : g[i] = Applied(g[i - 1], longer[i], clock)
  <2>1. Len(longer) \in Nat BY <1>1
  <2>2. /\ g[0] = InitialReplayState
        /\ \A i \in 1..Len(longer) : g[i] = Applied(g[i - 1], longer[i], clock)
    BY <2>1, ReplayStarts
  <2>3. QED BY <1>1, <2>2
<1>4. Replayed(es, clock) = f[n] /\ Replayed(longer, clock) = g[n + 1] BY <1>1 DEF Replayed
<1> HIDE DEF f, g, n, longer
<1>5. 0 \in S BY <1>2, <1>3
<1>6. ASSUME NEW k \in 0..n, k \in S, k < n PROVE k + 1 \in S
  <2>1. k + 1 \in 1..n /\ k + 1 \in 1..(n + 1) /\ (k + 1) - 1 = k /\ k + 1 \in Nat BY <1>1, <1>6
  <2>2. f[k + 1] = Applied(f[k], es[k + 1], clock) BY <1>2, <2>1
  <2>3. g[k + 1] = Applied(g[k], es[k + 1], clock) BY <1>1, <1>3, <2>1
  <2>4. QED BY <1>6, <2>1, <2>2, <2>3
<1> HIDE DEF S
<1>7. 0..n \subseteq S BY <1>1, <1>5, <1>6, UpTo
<1>8. g[n] = f[n] BY <1>1, <1>7 DEF S
<1>9. g[n + 1] = Applied(g[n], e, clock)
  <2>1. n + 1 \in 1..(n + 1) /\ (n + 1) - 1 = n BY <1>1
  <2>2. QED BY <1>1, <1>3, <2>1
<1>10. QED BY <1>4, <1>8, <1>9 DEF longer

\* A replay state by a clock that is later: heartbeats are younger, all else is the same.
Younger(one, other) ==
    /\ one.devices = other.devices /\ one.gateway = other.gateway
    /\ \A l \in Links : LET x == one.links[l]
                            y == other.links[l]
                        IN  /\ x.state = y.state /\ x.sync = y.sync /\ x.missed = y.missed
                            /\ y.age # NULL => x.age # NULL /\ x.age <= y.age

LEMMA AppliedYounger ==
  ASSUME NEW one \in ReplayState, NEW other \in ReplayState, Younger(one, other), NEW e, Stamped(e), NEW clock \in Nat
  PROVE  Younger(Applied(one, e, clock), Applied(other, e, 0))
<1>1. CASE ~IsAccepted(e) BY <1>1 DEF Applied
<1>2. CASE IsAccepted(e)
  <2> DEFINE p == e.packet
             a == AppliedToLinks(one.links, e, clock)
             b == AppliedToLinks(other.links, e, 0)
  <2>1. one.links \in [Links -> LinkEntry] /\ other.links \in [Links -> LinkEntry] BY DEF ReplayState
  <2>2. /\ Applied(one, e, clock).devices = AppliedToDevices(one.devices, p)
        /\ Applied(other, e, 0).devices = AppliedToDevices(other.devices, p)
        /\ Applied(one, e, clock).links = a /\ Applied(other, e, 0).links = b
        /\ Applied(one, e, clock).gateway = IF p.event = "GATEWAY_HEALTH" THEN p ELSE one.gateway
        /\ Applied(other, e, 0).gateway = IF p.event = "GATEWAY_HEALTH" THEN p ELSE other.gateway
    BY <1>2 DEF Applied
  <2>3. ASSUME NEW l \in Links
        PROVE  /\ a[l].state = b[l].state /\ a[l].sync = b[l].sync /\ a[l].missed = b[l].missed
               /\ b[l].age # NULL => a[l].age # NULL /\ a[l].age <= b[l].age
    <3> DEFINE x == one.links[l]
               y == other.links[l]
               Close(u, v) == /\ u.state = v.state /\ u.sync = v.sync /\ u.missed = v.missed
                              /\ v.age # NULL => u.age # NULL /\ u.age <= v.age
               ha == [state |-> p.state, sync |-> p.sync, age |-> Since(e.age, clock), missed |-> p.missed]
               hb == [state |-> p.state, sync |-> p.sync, age |-> Since(e.age, 0), missed |-> p.missed]
    <3>1. Close(x, y) BY DEF Younger
    <3>2. /\ p.event = "LINK_HEARTBEAT" => p.link \in Links /\ a = [one.links EXCEPT ![p.link] = ha]
          /\ p.event = "LINK_SYNC" => p.link \in Links /\ a = [one.links EXCEPT ![p.link] = [one.links[p.link] EXCEPT !.sync = p.sync]]
          /\ p.event \notin {"LINK_HEARTBEAT", "LINK_SYNC"} => a = one.links
      BY <1>2, <2>1, LinksApplied
    <3>3. /\ p.event = "LINK_HEARTBEAT" => b = [other.links EXCEPT ![p.link] = hb]
          /\ p.event = "LINK_SYNC" => b = [other.links EXCEPT ![p.link] = [other.links[p.link] EXCEPT !.sync = p.sync]]
          /\ p.event \notin {"LINK_HEARTBEAT", "LINK_SYNC"} => b = other.links
      BY <1>2, <2>1, LinksApplied
    <3>4. Close(ha, hb)
      <4>1. e.age \in 0..MaxAge /\ MaxAge \in Nat BY <1>2, EventPacket, Limits
      <4>2. Since(e.age, clock) \in Int /\ Since(e.age, clock) <= Since(e.age, 0) BY <4>1 DEF Since
      <4>3. Since(e.age, clock) # NULL BY <4>2, NullAssumption
      <4>4. QED BY <4>2, <4>3
    <3>5. x \in LinkEntry /\ y \in LinkEntry BY <2>1
    <3>6. Close([x EXCEPT !.sync = p.sync], [y EXCEPT !.sync = p.sync]) BY <3>1, <3>5 DEF LinkEntry
    <3> HIDE DEF ha, hb, a, b, p
    <3>7. CASE p.event = "LINK_HEARTBEAT"
      <4>1. CASE l = p.link
        <5>1. a[l] = ha /\ b[l] = hb BY <2>1, <3>2, <3>3, <3>7, <4>1
        <5>2. QED BY <3>4, <5>1
      <4>2. CASE l # p.link
        <5>1. a[l] = x /\ b[l] = y BY <2>1, <3>2, <3>3, <3>7, <4>2
        <5>2. QED BY <3>1, <5>1
      <4>3. QED BY <4>1, <4>2
    <3>8. CASE p.event = "LINK_SYNC"
      <4>1. CASE l = p.link
        <5>1. a[l] = [x EXCEPT !.sync = p.sync] /\ b[l] = [y EXCEPT !.sync = p.sync] BY <2>1, <3>2, <3>3, <3>8, <4>1
        <5>2. QED BY <3>6, <5>1
      <4>2. CASE l # p.link
        <5>1. a[l] = x /\ b[l] = y BY <2>1, <3>2, <3>3, <3>8, <4>2
        <5>2. QED BY <3>1, <5>1
      <4>3. QED BY <4>1, <4>2
    <3>9. CASE p.event \notin {"LINK_HEARTBEAT", "LINK_SYNC"}
      <4>1. a[l] = x /\ b[l] = y BY <3>2, <3>3, <3>9
      <4>2. QED BY <3>1, <4>1
    <3>10. QED BY <3>7, <3>8, <3>9
  <2>4. one.devices = other.devices /\ one.gateway = other.gateway BY DEF Younger
  <2>5. QED BY <2>2, <2>3, <2>4, Zenon DEF Younger
<1>3. QED BY <1>1, <1>2

LEMMA ReplayYounger ==
  ASSUME NEW es, IsLog(es), NEW clock \in Nat
  PROVE  Younger(Replayed(es, clock), Replayed(es, 0))
<1> DEFINE n == Len(es)
           f == ReplayedUpTo(es, clock)
           g == ReplayedUpTo(es, 0)
           S == {k \in Nat : Younger(f[k], g[k])}
<1>1. n \in Nat /\ \A i \in 1..n : Stamped(es[i]) BY LenProperties DEF IsLog
<1>2. f[0] = InitialReplayState /\ \A i \in 1..n : f[i] = Applied(f[i - 1], es[i], clock) BY <1>1, ReplayStarts
<1>3. g[0] = InitialReplayState /\ \A i \in 1..n : g[i] = Applied(g[i - 1], es[i], 0) BY <1>1, ReplayStarts
<1>4. \A i \in 0..n : f[i] \in ReplayState /\ g[i] \in ReplayState
  <2>1. 0 \in Nat OBVIOUS
  <2>2. QED BY <2>1, ReplayType
<1>5. Replayed(es, clock) = f[n] /\ Replayed(es, 0) = g[n] BY DEF Replayed
<1> HIDE DEF f, g, n
<1>6. 0 \in S
  <2>1. \A l \in Links : InitialReplayState.links[l].age = NULL BY DEF InitialReplayState, InitialLinks
  <2>2. Younger(InitialReplayState, InitialReplayState) BY <2>1 DEF Younger
  <2>3. QED BY <1>2, <1>3, <2>2
<1>7. ASSUME NEW k \in 0..n, k \in S, k < n PROVE k + 1 \in S
  <2>1. k + 1 \in 1..n /\ (k + 1) - 1 = k /\ k + 1 \in Nat BY <1>1, <1>7
  <2>2. f[k + 1] = Applied(f[k], es[k + 1], clock) /\ g[k + 1] = Applied(g[k], es[k + 1], 0) BY <1>2, <1>3, <2>1
  <2>3. Younger(f[k], g[k]) BY <1>7
  <2>4. Younger(f[k + 1], g[k + 1]) BY <1>1, <1>4, <2>1, <2>2, <2>3, AppliedYounger
  <2>5. QED BY <2>1, <2>4
<1> HIDE DEF S
<1>8. 0..n \subseteq S BY <1>1, <1>6, <1>7, UpTo
<1>9. QED BY <1>1, <1>5, <1>8 DEF S

\* A replay state after some time: its links are older.
Later(state, time) == [state EXCEPT !.links = Older(state.links, time, MaxAge)]

OlderEntry(entry, time) == IF entry.age = NULL THEN entry ELSE [entry EXCEPT !.age = Capped(entry.age + time)]

LEMMA OlderEntries ==
  ASSUME NEW registry, NEW time
  PROVE  /\ DOMAIN Older(registry, time, MaxAge) = DOMAIN registry
         /\ Older(registry, time, MaxAge) = [id \in DOMAIN registry |-> OlderEntry(registry[id], time)]
  BY DEF Older, OlderEntry, Capped

LEMMA OlderStamped ==
  ASSUME NEW e, Stamped(e), NEW time \in Late
  PROVE  LET o == OlderEntry(e, time)
         IN  /\ Stamped(o) /\ o.packet = e.packet /\ o.disposition = e.disposition
             /\ IsAccepted(e) => o.age = Capped(e.age + time)
<1> DEFINE o == OlderEntry(e, time)
           t == Capped(e.age + time)
<1>1. MaxAge \in Nat /\ time \in Nat BY Limits, TimesAssumption
<1>2. e \in EventRecord /\ e.age \in Ages BY DEF Stamped, EventRecord
<1>3. CASE e.age = NULL
  <2>1. ~IsAccepted(e) BY <1>1, <1>3, NullAssumption DEF Stamped
  <2>2. o = e BY <1>3 DEF OlderEntry
  <2>3. QED BY <2>1, <2>2
<1>4. CASE e.age # NULL
  <2>1. e.age \in 0..MaxAge BY <1>2, <1>4 DEF Ages
  <2>2. t \in 0..MaxAge BY <1>1, <2>1 DEF Capped
  <2>3. o = [e EXCEPT !.age = t] BY <1>4 DEF OlderEntry
  <2> HIDE DEF t, o
  <2>4. t \in Ages BY <2>2 DEF Ages
  <2>5. o \in EventRecord /\ o.packet = e.packet /\ o.disposition = e.disposition /\ o.age = t
    BY <1>2, <2>3, <2>4 DEF EventRecord
  <2>6. Stamped(o) BY <2>2, <2>5 DEF Stamped
  <2>7. QED BY <2>5, <2>6 DEF o, t
<1>5. QED BY <1>3, <1>4

(* To apply an event that has become older is to apply it and to become older. *)
LEMMA AppliedOlder ==
  ASSUME NEW state \in ReplayState, NEW e, Stamped(e), NEW time \in Late
  PROVE  Applied(Later(state, time), OlderEntry(e, time), 0) = Later(Applied(state, e, 0), time)
<1> DEFINE o == OlderEntry(e, time)
           p == e.packet
           links0 == state.links
           older0 == Older(links0, time, MaxAge)
           a == AppliedToLinks(links0, e, 0)
           b == AppliedToLinks(older0, o, 0)
<1>1. MaxAge \in Nat /\ time \in Nat BY Limits, TimesAssumption
<1>2. Stamped(o) /\ o.packet = p /\ (IsAccepted(e) => o.age = Capped(e.age + time)) BY OlderStamped
<1>3. links0 \in [Links -> LinkEntry] /\ older0 \in [Links -> LinkEntry] BY OlderLinks DEF ReplayState
<1>4. IsAccepted(o) <=> IsAccepted(e) BY <1>2 DEF IsAccepted
<1>5. CASE ~IsAccepted(e) BY <1>4, <1>5 DEF Applied
<1>6. CASE IsAccepted(e)
  <2> DEFINE ha == [state |-> p.state, sync |-> p.sync, age |-> Since(e.age, 0), missed |-> p.missed]
             hb == [state |-> p.state, sync |-> p.sync, age |-> Since(o.age, 0), missed |-> p.missed]
  <2>1. e.age \in 0..MaxAge /\ o.age \in 0..MaxAge /\ o.age = Capped(e.age + time) BY <1>2, <1>4, <1>6, EventPacket
  <2>2. /\ a \in [Links -> LinkEntry]
        /\ p.event = "LINK_HEARTBEAT" => p.link \in Links /\ a = [links0 EXCEPT ![p.link] = ha]
        /\ p.event = "LINK_SYNC" => p.link \in Links /\ a = [links0 EXCEPT ![p.link] = [links0[p.link] EXCEPT !.sync = p.sync]]
        /\ p.event \notin {"LINK_HEARTBEAT", "LINK_SYNC"} => a = links0
    <3>1. Stamped(e) /\ links0 \in [Links -> LinkEntry] BY <1>3
    <3> HIDE DEF links0
    <3>2. 0 \in Nat OBVIOUS
    <3>3. QED BY <1>6, <3>1, <3>2, LinksApplied
  <2>3. /\ b \in [Links -> LinkEntry]
        /\ p.event = "LINK_HEARTBEAT" => b = [older0 EXCEPT ![p.link] = hb]
        /\ p.event = "LINK_SYNC" => b = [older0 EXCEPT ![p.link] = [older0[p.link] EXCEPT !.sync = p.sync]]
        /\ p.event \notin {"LINK_HEARTBEAT", "LINK_SYNC"} => b = older0
    <3>1. o.packet = p /\ Stamped(o) /\ IsAccepted(o) /\ older0 \in [Links -> LinkEntry]
      BY <1>2, <1>3, <1>4, <1>6
    <3> HIDE DEF o, older0, p
    <3>2. 0 \in Nat OBVIOUS
    <3>3. QED BY <3>1, <3>2, LinksApplied
  <2>4. hb = OlderEntry(ha, time)
    <3>1. Since(e.age, 0) = e.age /\ Since(o.age, 0) = o.age /\ e.age # NULL BY <2>1, NullAssumption DEF Since
    <3>2. QED BY <2>1, <3>1 DEF OlderEntry
  <2>5. \A x \in LinkEntry : [OlderEntry(x, time) EXCEPT !.sync = p.sync] = OlderEntry([x EXCEPT !.sync = p.sync], time)
    BY DEF OlderEntry, LinkEntry
  <2>6. ASSUME NEW l \in Links PROVE b[l] = OlderEntry(a[l], time)
    <3>1. older0[l] = OlderEntry(links0[l], time) BY <1>3, OlderEntries
    <3> HIDE DEF ha, hb, a, b, p, older0, links0, o
    <3>2. CASE p.event = "LINK_HEARTBEAT"
      <4>1. CASE l = p.link BY <1>3, <2>2, <2>3, <2>4, <3>2, <4>1
      <4>2. CASE l # p.link BY <1>3, <2>2, <2>3, <3>1, <3>2, <4>2
      <4>3. QED BY <4>1, <4>2
    <3>3. CASE p.event = "LINK_SYNC"
      <4>1. CASE l = p.link
        <5>1. links0[l] \in LinkEntry BY <1>3
        <5>2. a[l] = [links0[l] EXCEPT !.sync = p.sync] /\ b[l] = [older0[l] EXCEPT !.sync = p.sync]
          BY <1>3, <2>2, <2>3, <3>3, <4>1
        <5>3. QED BY <2>5, <3>1, <5>1, <5>2
      <4>2. CASE l # p.link BY <1>3, <2>2, <2>3, <3>1, <3>3, <4>2
      <4>3. QED BY <4>1, <4>2
    <3>4. CASE p.event \notin {"LINK_HEARTBEAT", "LINK_SYNC"} BY <2>2, <2>3, <3>1, <3>4
    <3>5. QED BY <3>2, <3>3, <3>4
  <2>7. b = Older(a, time, MaxAge)
    <3>1. Older(a, time, MaxAge) = [l \in Links |-> OlderEntry(a[l], time)] BY <2>2, OlderEntries
    <3> HIDE DEF a, b
    <3>2. b = [l \in Links |-> b[l]] BY <2>3
    <3>3. QED BY <2>6, <3>1, <3>2
  <2> HIDE DEF a, b
  <2>8. Later(state, time).devices = state.devices /\ Later(state, time).links = older0
        /\ Later(state, time).gateway = state.gateway
    BY DEF ReplayState, Later
  <2> DEFINE d == AppliedToDevices(state.devices, p)
             g == IF p.event = "GATEWAY_HEALTH" THEN p ELSE state.gateway
  <2>9. Applied(state, e, 0) = [devices |-> d, links |-> a, gateway |-> g] BY <1>6 DEF Applied, a
  <2>10. Applied(Later(state, time), o, 0) = [devices |-> d, links |-> b, gateway |-> g]
    BY <1>2, <1>4, <1>6, <2>8 DEF Applied, b
  <2> HIDE DEF d, g
  <2>11. QED BY <2>7, <2>9, <2>10 DEF Later
<1>7. QED BY <1>5, <1>6

LEMMA ReplayOlder ==
  ASSUME NEW es, IsLog(es), NEW time \in Late
  PROVE  Replayed(Older(es, time, MaxAge), 0) = Later(Replayed(es, 0), time)
<1> DEFINE n == Len(es)
           older == Older(es, time, MaxAge)
           f == ReplayedUpTo(es, 0)
           g == ReplayedUpTo(older, 0)
           S == {k \in Nat : g[k] = Later(f[k], time)}
<1>1. n \in Nat /\ DOMAIN es = 1..n /\ \A i \in 1..n : Stamped(es[i]) BY LenProperties DEF IsLog
<1>2. older = [i \in 1..n |-> OlderEntry(es[i], time)] BY <1>1, OlderEntries
<1>3. \A i \in 1..n : older[i] = OlderEntry(es[i], time) BY <1>2
<1>4. Len(older) = n
  <2>1. \A i \in 1..n : OlderEntry(es[i], time) \in EventRecord BY <1>1, OlderStamped DEF Stamped
  <2> HIDE DEF older, n
  <2>2. older \in [1..n -> EventRecord] BY <1>2, <2>1
  <2>3. QED BY <1>1, <2>2
<1>5. f[0] = InitialReplayState /\ \A i \in 1..n : f[i] = Applied(f[i - 1], es[i], 0) BY <1>1, ReplayStarts
<1>6. g[0] = InitialReplayState /\ \A i \in 1..n : g[i] = Applied(g[i - 1], older[i], 0)
  <2>1. Len(older) \in Nat BY <1>1, <1>4
  <2>2. g[0] = InitialReplayState /\ \A i \in 1..Len(older) : g[i] = Applied(g[i - 1], older[i], 0)
    BY <2>1, ReplayStarts
  <2>3. QED BY <1>4, <2>2
<1>7. \A i \in 0..n : f[i] \in ReplayState
  <2>1. 0 \in Nat OBVIOUS
  <2>2. QED BY <2>1, ReplayType
<1>8. Replayed(es, 0) = f[n] /\ Replayed(older, 0) = g[n] BY <1>4 DEF Replayed
<1> HIDE DEF f, g, n, older
<1>9. 0 \in S
  <2>1. \A l \in Links : InitialLinks[l].age = NULL BY DEF InitialLinks
  <2>2. DOMAIN InitialLinks = Links /\ InitialLinks = [l \in Links |-> InitialLinks[l]] BY DEF InitialLinks
  <2>3. Older(InitialLinks, time, MaxAge) = InitialLinks BY <2>1, <2>2, OlderEntries DEF OlderEntry
  <2>4. Later(InitialReplayState, time) = InitialReplayState BY <2>3 DEF Later, InitialReplayState
  <2>5. QED BY <1>5, <1>6, <2>4
<1>10. ASSUME NEW k \in 0..n, k \in S, k < n PROVE k + 1 \in S
  <2>1. k + 1 \in 1..n /\ (k + 1) - 1 = k /\ k + 1 \in Nat BY <1>1, <1>10
  <2>2. f[k + 1] = Applied(f[k], es[k + 1], 0) /\ g[k + 1] = Applied(g[k], OlderEntry(es[k + 1], time), 0)
    BY <1>3, <1>5, <1>6, <2>1
  <2>3. g[k] = Later(f[k], time) /\ f[k] \in ReplayState /\ Stamped(es[k + 1]) BY <1>1, <1>7, <1>10, <2>1
  <2>4. g[k + 1] = Later(f[k + 1], time) BY <2>2, <2>3, AppliedOlder
  <2>5. QED BY <2>1, <2>4
<1> HIDE DEF S
<1>11. 0..n \subseteq S BY <1>1, <1>9, <1>10, UpTo
<1>12. QED BY <1>1, <1>8, <1>11 DEF S, older

-----------------------------------------------------------------------------
(*                    the replay and what is shown                         *)

\* What the replay of all events makes of them, by a clock that has not moved since the packets, is what
\* the console shows, a heartbeat's age included.
Agrees(state) ==
    /\ \A d \in Devices : reported[d] # NULL => state.devices[d].health = reported[d]
    /\ \A l \in UartLinks : state.links[l] = links[l]
    /\ state.gateway = gateway

\* What an event of some disposition names to the replay.
NamedBy(disposition) == IF disposition \in DOMAIN AnomalyOf THEN {AnomalyOf[disposition]} ELSE {}

ReplayInv ==
    /\ IsLog(events)
    /\ whole => /\ Agrees(Replayed(events, 0))
                /\ Told(ReplayedAnomalies(events), anomalies)
                /\ gateway # NULL => \E i \in DOMAIN events : IsAccepted(events[i])

LEMMA EmptyReplay ==
  /\ IsLog(<<>>) /\ Replayed(<<>>, 0) = InitialReplayState /\ ReplayedAnomalies(<<>>) = {}
<1>1. Len(<<>>) = 0 /\ <<>> \in Seq(EventRecord) /\ DOMAIN <<>> = {} BY EmptySeq
<1>2. ReplayedUpTo(<<>>, 0)[0] = InitialReplayState BY <1>1, ReplayStarts
<1>3. QED BY <1>1, <1>2 DEF IsLog, Replayed, ReplayedAnomalies

LEMMA ReplayInit == Init => ReplayInv
<1> SUFFICES ASSUME Init PROVE ReplayInv OBVIOUS
<1>1. /\ events = <<>> /\ gateway = NULL /\ anomalies = {} /\ links = InitialLinks
      /\ \A d \in Devices : reported[d] = NULL
  BY DEF Init
<1>2. Agrees(InitialReplayState) BY <1>1 DEF Agrees, InitialReplayState
<1>3. Told({}, {}) BY DEF Told
<1>4. QED BY <1>1, <1>2, <1>3, EmptyReplay DEF ReplayInv

(* An event more in a store that still had room, or did not. *)
LEMMA RecordedLog ==
  ASSUME IsLog(events), Len(events) <= MaxEvents, NEW e, Stamped(e), Recorded(e)
  PROVE  /\ IsLog(events')
         /\ whole' => /\ whole /\ events' = Append(events, e)
                      /\ Replayed(events', 0) = Applied(Replayed(events, 0), e, 0)
                      /\ ReplayedAnomalies(events') = ReplayedAnomalies(events) \cup NamedBy(e.disposition)
                      /\ IsAccepted(e) \/ (\E i \in DOMAIN events : IsAccepted(events[i])) =>
                           \E i \in DOMAIN events' : IsAccepted(events'[i])
<1> DEFINE longer == Append(events, e)
           n == Len(events)
<1>1. /\ n \in Nat /\ MaxEvents \in Nat /\ DOMAIN events = 1..n /\ \A i \in 1..n : Stamped(events[i])
      /\ events \in Seq(EventRecord) /\ e \in EventRecord
  BY BoundsAssumption, LenProperties DEF IsLog, Stamped
<1>2. longer \in Seq(EventRecord) /\ Len(longer) = n + 1 /\ DOMAIN longer = 1..(n + 1) /\ longer[n + 1] = e
      /\ \A i \in 1..n : longer[i] = events[i]
  BY <1>1, AppendProperties, LenProperties
<1>3. events' = Bounded(longer, MaxEvents) /\ whole' = (whole /\ n < MaxEvents) BY Zenon DEF Recorded
<1> HIDE DEF longer, n
<1>4. IsLog(longer)
  <2>1. \A i \in 1..(n + 1) : i = n + 1 \/ i \in 1..n BY <1>1
  <2>2. \A i \in 1..(n + 1) : Stamped(longer[i]) BY <1>1, <1>2, <2>1
  <2>3. QED BY <1>2, <2>2 DEF IsLog
<1>5. IsLog(events')
  <2>1. events' = IF n + 1 > MaxEvents THEN SubSeq(longer, n + 1 - MaxEvents + 1, n + 1) ELSE longer
    <3>1. events' = IF Len(longer) > MaxEvents THEN SubSeq(longer, Len(longer) - MaxEvents + 1, Len(longer)) ELSE longer
      BY <1>3, Zenon DEF Bounded
    <3> DEFINE k == Len(longer)
    <3>2. k = n + 1 BY <1>2
    <3>3. events' = IF k > MaxEvents THEN SubSeq(longer, k - MaxEvents + 1, k) ELSE longer BY <3>1
    <3> HIDE DEF k
    <3>4. QED BY <1>1, <3>2, <3>3
  <2>2. CASE n + 1 > MaxEvents
    <3> DEFINE m == n + 1 - MaxEvents + 1
    <3>1. m \in Int /\ n + 1 \in Int /\ m >= 1 /\ \A i \in m..(n + 1) : i \in 1..(n + 1) BY <1>1, <2>2
    <3>2. \A i \in m..(n + 1) : longer[i] \in EventRecord BY <1>4, <1>2, <3>1 DEF IsLog, Stamped
    <3>3. /\ events' = SubSeq(longer, m, n + 1) /\ events' \in Seq(EventRecord)
          /\ Len(events') = IF m <= n + 1 THEN n + 1 - m + 1 ELSE 0
          /\ \A i \in 1..(n + 1 - m + 1) : events'[i] = longer[m + i - 1]
      <4> DEFINE last == n + 1
      <4>1. events' = SubSeq(longer, m, last) BY <2>1, <2>2
      <4>2. m \in Int /\ last \in Int /\ \A i \in m..last : longer[i] \in EventRecord BY <3>1, <3>2
      <4> HIDE DEF m, last
      <4>3. /\ events' \in Seq(EventRecord) /\ Len(events') = IF m <= last THEN last - m + 1 ELSE 0
            /\ \A i \in 1..(last - m + 1) : events'[i] = longer[m + i - 1]
        BY <4>1, <4>2, SubSeqProperties
      <4>4. QED BY <1>1, <4>1, <4>3 DEF last
    <3> HIDE DEF m
    <3>4. ASSUME NEW i \in 1..Len(events') PROVE Stamped(events'[i])
      <4>1. i \in 1..(n + 1 - m + 1) /\ m + i - 1 \in m..(n + 1) BY <1>1, <3>1, <3>3
      <4>2. events'[i] = longer[m + i - 1] BY <3>3, <4>1
      <4>3. m + i - 1 \in 1..Len(longer) BY <1>2, <3>1, <4>1
      <4>4. QED BY <1>4, <4>2, <4>3 DEF IsLog
    <3>5. QED BY <3>3, <3>4 DEF IsLog
  <2>3. CASE ~(n + 1 > MaxEvents) BY <1>4, <2>1, <2>3
  <2>4. QED BY <2>2, <2>3
<1>6. ASSUME whole'
      PROVE  /\ whole /\ events' = longer
             /\ Replayed(events', 0) = Applied(Replayed(events, 0), e, 0)
             /\ ReplayedAnomalies(events') = ReplayedAnomalies(events) \cup NamedBy(e.disposition)
             /\ IsAccepted(e) \/ (\E i \in DOMAIN events : IsAccepted(events[i])) =>
                  \E i \in DOMAIN events' : IsAccepted(events'[i])
  <2>1. whole /\ n < MaxEvents BY <1>3, <1>6
  <2>2. events' = longer BY <1>1, <1>2, <1>3, <2>1 DEF Bounded
  <2>3. Replayed(longer, 0) = Applied(Replayed(events, 0), e, 0) BY <1>1, ReplayAppend DEF longer
  <2>4. n + 1 \in 1..(n + 1) /\ \A i \in 1..n : i \in 1..(n + 1) BY <1>1
  <2>5. \A i \in 1..(n + 1) : i = n + 1 \/ i \in 1..n BY <1>1
  <2>6. IsAccepted(e) \/ (\E i \in DOMAIN events : IsAccepted(events[i])) => \E i \in DOMAIN longer : IsAccepted(longer[i])
    BY <1>1, <1>2, <2>4
  <2>7. ReplayedAnomalies(longer) = ReplayedAnomalies(events) \cup NamedBy(e.disposition)
    <3> DEFINE D == DOMAIN AnomalyOf
               new == IF e.disposition \in D THEN {AnomalyOf[e.disposition]} ELSE {}
    <3>1. \A a : a \in ReplayedAnomalies(longer) <=>
            \E i \in 1..(n + 1) : longer[i].disposition \in D /\ a = AnomalyOf[longer[i].disposition]
      BY <1>2, Zenon DEF ReplayedAnomalies
    <3>2. \A a : a \in ReplayedAnomalies(events) <=>
            \E i \in 1..n : events[i].disposition \in D /\ a = AnomalyOf[events[i].disposition]
      BY <1>1, Zenon DEF ReplayedAnomalies
    <3>3. \A a : a \in new <=> e.disposition \in D /\ a = AnomalyOf[e.disposition] OBVIOUS
    <3> HIDE DEF D, new
    <3>4. \A a : a \in ReplayedAnomalies(longer) <=> a \in ReplayedAnomalies(events) \/ a \in new
      BY <1>2, <2>4, <2>5, <3>1, <3>2, <3>3
    <3>5. ReplayedAnomalies(longer) = ReplayedAnomalies(events) \cup new BY <3>4
    <3>6. QED BY <3>5 DEF new, D, NamedBy
  <2>8. QED BY <2>1, <2>2, <2>3, <2>6, <2>7, Zenon
<1>7. QED BY <1>5, <1>6, Zenon DEF longer

(* What a packet writes does not depend on what was there. *)
LEMMA PacketEntries ==
  ASSUME NEW p, IsPacket(p)
  PROVE  \E entries : /\ \A d \in DOMAIN entries : Reported(d, entries[d])
                      /\ \A registry \in [Devices -> Entry] : DevicesAfter(registry, p) = Written(registry, entries)
<1>1. CASE p.event = "SYSTEM_HEALTH"
  <2>1. {p.main, p.sub} \subseteq HealthStates BY <1>1 DEF IsPacket
  <2>2. \A d \in DOMAIN SystemHealthEntries(p) : Reported(d, SystemHealthEntries(p)[d]) BY <2>1, SystemHealthReports
  <2>3. \A registry : DevicesAfter(registry, p) = Written(registry, SystemHealthEntries(p)) BY <1>1 DEF DevicesAfter
  <2>4. QED BY <2>2, <2>3, Zenon
<1>2. CASE p.event = "CHIP_STATUS"
  <2>1. \A chip \in DOMAIN p.chips : chip \in Chips /\ p.chips[chip] \in ChipStatuses BY <1>2 DEF IsPacket
  <2>2. \A d \in DOMAIN ChipStatusEntries(p) : Reported(d, ChipStatusEntries(p)[d]) BY <2>1, ChipStatusReports
  <2>3. \A registry : DevicesAfter(registry, p) = Written(registry, ChipStatusEntries(p)) BY <1>2 DEF DevicesAfter
  <2>4. QED BY <2>2, <2>3, Zenon
<1>3. CASE p.event = "POWER_HEALTH"
  <2>1. \A d \in DOMAIN PowerHealthEntries(p) : Reported(d, PowerHealthEntries(p)[d]) BY PowerHealthReports
  <2>2. \A registry : DevicesAfter(registry, p) = Written(registry, PowerHealthEntries(p)) BY <1>3 DEF DevicesAfter
  <2>3. QED BY <2>1, <2>2, Zenon
<1>4. CASE p.event = "GATEWAY_HEALTH"
  <2>1. p.health \in HealthStates BY <1>4 DEF IsPacket
  <2>2. \A registry : DevicesAfter(registry, p) = Written(registry, GatewayHealthEntries(p)) BY <1>4 DEF DevicesAfter
  <2>3. QED BY <2>1, <2>2, NodeReports, Zenon
<1>5. CASE p.event = "NODE_HEALTH"
  <2>1. p.health \in HealthStates BY <1>5 DEF IsPacket
  <2>2. \A registry : DevicesAfter(registry, p) = Written(registry, NodeHealthEntries(p)) BY <1>5 DEF DevicesAfter
  <2>3. QED BY <2>1, <2>2, NodeReports, Zenon
<1>6. CASE p.event \notin {"SYSTEM_HEALTH", "CHIP_STATUS", "POWER_HEALTH", "GATEWAY_HEALTH", "NODE_HEALTH"}
  <2> DEFINE none == [d \in {} |-> NULL]
  <2>1. ASSUME NEW registry \in [Devices -> Entry] PROVE DevicesAfter(registry, p) = Written(registry, none)
    <3>1. DevicesAfter(registry, p) = registry BY <1>6 DEF DevicesAfter
    <3>2. Written(registry, none) = [d \in Devices |-> registry[d]] BY DEF Written
    <3>3. QED BY <3>1, <3>2
  <2>2. \A d \in DOMAIN none : Reported(d, none[d]) OBVIOUS
  <2>3. QED BY <2>1, <2>2, Zenon
<1>7. QED BY <1>1, <1>2, <1>3, <1>4, <1>5, <1>6

(* The devices after a packet, live and replayed. *)
LEMMA DevicesAgree ==
  ASSUME DeviceInv, NEW registry \in [Devices -> Entry],
         \A d \in Devices : reported[d] # NULL => registry[d].health = reported[d],
         NEW p \in Packets[hardware], Accept(p)
  PROVE  \A d \in Devices : reported'[d] # NULL => DevicesAfter(registry, p)[d].health = reported'[d]
<1>1. devices \in [Devices -> Entry] /\ IsPacket(p) BY PacketsAssumption DEF DeviceInv, DeviceType, ClockType
<1>2. PICK entries : /\ \A d \in DOMAIN entries : Reported(d, entries[d])
                     /\ \A r \in [Devices -> Entry] : DevicesAfter(r, p) = Written(r, entries)
  BY <1>1, PacketEntries
<1>3. /\ devices' = Written(devices, entries)
      /\ reported' = [d \in Devices |-> IF devices'[d].age = 0 THEN devices'[d].health ELSE reported[d]]
  BY <1>1, <1>2 DEF Accept
<1>4. DevicesAfter(registry, p) = Written(registry, entries) BY <1>2
<1>5. ASSUME NEW d \in Devices, reported'[d] # NULL PROVE Written(registry, entries)[d].health = reported'[d]
  <2>1. /\ devices'[d] = IF d \in DOMAIN entries THEN entries[d] ELSE devices[d]
        /\ Written(registry, entries)[d] = IF d \in DOMAIN entries THEN entries[d] ELSE registry[d]
    BY <1>1, <1>3 DEF Written
  <2>2. reported'[d] = IF devices'[d].age = 0 THEN devices'[d].health ELSE reported[d] BY <1>3
  <2>3. CASE d \in DOMAIN entries
    <3>1. entries[d].age = 0 BY <1>2, <2>3 DEF Reported
    <3>2. QED BY <2>1, <2>2, <2>3, <3>1
  <2>4. CASE d \notin DOMAIN entries
    <3>1. reported'[d] = reported[d]
      <4>1. CASE devices[d].age = 0
        <5>1. EntryInv(d) /\ devices[d].age # NULL /\ ~(devices[d].age > 0) BY <4>1, NullAssumption DEF DeviceInv
        <5>2. devices[d].health = reported[d] BY <5>1 DEF EntryInv
        <5>3. QED BY <2>1, <2>2, <2>4, <4>1, <5>2
      <4>2. CASE devices[d].age # 0 BY <2>1, <2>2, <2>4, <4>2
      <4>3. QED BY <4>1, <4>2
    <3>2. registry[d].health = reported[d] BY <1>5, <3>1
    <3>3. QED BY <2>1, <2>4, <3>1, <3>2
  <2>5. QED BY <2>3, <2>4
<1>6. QED BY <1>4, <1>5

(* The UART links after a packet, live and replayed. *)
LEMMA LinksAgree ==
  ASSUME LinkType, NEW registry \in [Links -> LinkEntry], \A l \in UartLinks : registry[l] = links[l],
         NEW e, Stamped(e), IsAccepted(e), e.age = 0, NEW projected
  PROVE  \A l \in UartLinks : AppliedToLinks(registry, e, 0)[l] = LinksAfter(links, e.packet, projected)[l]
<1> DEFINE p == e.packet
           a == AppliedToLinks(registry, e, 0)
           b == AppliedToLinks(links, e, 0)
           heard == [state |-> p.state, sync |-> p.sync, age |-> Since(e.age, 0), missed |-> p.missed]
<1>0. links \in [Links -> LinkEntry] /\ UartLinks \subseteq Links /\ "link_laptop_pi" \notin UartLinks /\ 0 \in Nat
  BY DEF LinkType, Links, UartLinks
<1>a. /\ p.event = "LINK_HEARTBEAT" => b = [links EXCEPT ![p.link] = heard]
      /\ p.event = "LINK_SYNC" => b = [links EXCEPT ![p.link] = [links[p.link] EXCEPT !.sync = p.sync]]
      /\ p.event \notin {"LINK_HEARTBEAT", "LINK_SYNC"} => b = links
  BY <1>0, LinksApplied
<1>1. LinksReported(links, p) = b
  <2>1. CASE p.event = "LINK_HEARTBEAT"
    <3> DEFINE said == [state |-> p.state, sync |-> p.sync, age |-> 0, missed |-> p.missed]
    <3>1. LinksReported(links, p) = [links EXCEPT ![p.link] = said] BY <2>1 DEF LinksReported
    <3>2. Since(e.age, 0) = 0 BY DEF Since
    <3>3. heard = said BY <3>2
    <3> HIDE DEF b, heard, said
    <3>4. QED BY <1>a, <2>1, <3>1, <3>3
  <2>2. CASE p.event # "LINK_HEARTBEAT" BY <2>2 DEF AppliedToLinks
  <2>3. QED BY <2>1, <2>2
<1>2. \A l \in UartLinks : LinksAfter(links, p, projected)[l] = b[l]
  <2>1. b \in [Links -> LinkEntry] BY <1>0, LinksApplied, Zenon
  <2> HIDE DEF b
  <2>2. QED BY <1>0, <1>1, <2>1 DEF LinksAfter
<1>3. ASSUME NEW l \in UartLinks PROVE a[l] = b[l]
  <2>1. registry[l] = links[l] /\ l \in Links BY <1>0
  <2>2. /\ p.event = "LINK_HEARTBEAT" => p.link \in Links /\ a = [registry EXCEPT ![p.link] = heard]
        /\ p.event = "LINK_SYNC" => p.link \in Links /\ a = [registry EXCEPT ![p.link] = [registry[p.link] EXCEPT !.sync = p.sync]]
        /\ p.event \notin {"LINK_HEARTBEAT", "LINK_SYNC"} => a = registry
    BY LinksApplied
  <2> HIDE DEF a, b, heard, p
  <2>3. CASE l = p.link BY <1>0, <1>a, <2>1, <2>2, <2>3
  <2>4. CASE l # p.link BY <1>0, <1>a, <2>1, <2>2, <2>4
  <2>5. QED BY <2>3, <2>4
<1>4. QED BY <1>2, <1>3

(* Each anomaly has its disposition; that of a packet as it should be and that of a rejection stand for none. *)
LEMMA AnomalyNamed ==
  /\ \A found \in Anomalies : DispositionOf(found) \in DOMAIN AnomalyOf /\ AnomalyOf[DispositionOf(found)] = found
  /\ {"ACCEPTED", "SCHEMA_REJECTED"} \cap DOMAIN AnomalyOf = {}
<1>1. \A found \in Anomalies : \E d \in DOMAIN AnomalyOf : AnomalyOf[d] = found BY DEF Anomalies, AnomalyOf
<1>2. \A found \in Anomalies : DispositionOf(found) \in DOMAIN AnomalyOf /\ AnomalyOf[DispositionOf(found)] = found
  BY <1>1, Zenon DEF DispositionOf
<1>3. {"ACCEPTED", "SCHEMA_REJECTED"} \cap DOMAIN AnomalyOf = {} BY DEF AnomalyOf
<1>4. QED BY <1>2, <1>3

(* What is told of two packets is told of both, and the event of a packet tells what was found of it but for
   the gap before a reset. *)
LEMMA ToldTogether ==
  ASSUME NEW a, NEW b, NEW c, NEW d, Told(a, b), Told(c, d)
  PROVE  Told(a \cup c, b \cup d)
<1>1. /\ a \subseteq b /\ c \subseteq d
      /\ b \ a = {} \/ (b \ a = {"gaps"} /\ "resets" \in a)
      /\ d \ c = {} \/ (d \ c = {"gaps"} /\ "resets" \in c)
  BY DEF Told
<1>2. ASSUME NEW x \in (b \cup d) \ (a \cup c) PROVE x = "gaps" /\ "resets" \in a \cup c
  <2>1. CASE x \in b BY <1>1, <1>2, <2>1
  <2>2. CASE x \in d BY <1>1, <1>2, <2>2
  <2>3. QED BY <1>2, <2>1, <2>2
<1>3. a \cup c \subseteq b \cup d BY <1>1
<1> DEFINE rest == (b \cup d) \ (a \cup c)
<1>4. rest # {} => rest = {"gaps"} /\ "resets" \in a \cup c BY <1>2
<1>5. QED BY <1>3, <1>4 DEF Told

LEMMA FindingsTold == \A found \in Findings : Told(NamedBy(AcceptedAs(found)), found)
<1> SUFFICES ASSUME NEW found \in Findings PROVE Told(NamedBy(AcceptedAs(found)), found) OBVIOUS
<1>1. \A anomaly \in Anomalies : NamedBy(DispositionOf(anomaly)) = {anomaly} BY AnomalyNamed, Zenon DEF NamedBy
<1>2. NamedBy("ACCEPTED") = {} BY AnomalyNamed DEF NamedBy
<1>3. {"switches", "resets", "gaps"} \subseteq Anomalies BY DEF Anomalies
<1>4. CASE found = {} BY <1>2, <1>4 DEF AcceptedAs, Told
<1>5. CASE found = {"gaps"}
  <2>1. AcceptedAs(found) = DispositionOf("gaps") BY <1>5 DEF AcceptedAs
  <2>2. QED BY <1>1, <1>3, <1>5, <2>1 DEF Told
<1>6. CASE found = {"resets"}
  <2>1. AcceptedAs(found) = DispositionOf("resets") BY <1>6 DEF AcceptedAs
  <2>2. QED BY <1>1, <1>3, <1>6, <2>1 DEF Told
<1>7. CASE found = {"switches"}
  <2>1. AcceptedAs(found) = DispositionOf("switches") BY <1>7 DEF AcceptedAs
  <2>2. QED BY <1>1, <1>3, <1>7, <2>1 DEF Told
<1>8. CASE found = {"gaps", "resets"}
  <2>1. AcceptedAs(found) = DispositionOf("resets") BY <1>8 DEF AcceptedAs
  <2>2. found \ {"resets"} = {"gaps"} BY <1>8
  <2>3. QED BY <1>1, <1>3, <1>8, <2>1, <2>2 DEF Told
<1>9. QED BY <1>4, <1>5, <1>6, <1>7, <1>8 DEF Findings

(* What the replay is compared with may stay as it is. *)
LEMMA ReplayKept ==
  ASSUME ReplayInv, UNCHANGED <<events, whole, gateway, anomalies, reported>>, \A l \in UartLinks : links'[l] = links[l]
  PROVE  ReplayInv'
<1>1. IsLog(events') BY DEF ReplayInv
<1>2. ASSUME whole'
      PROVE  /\ Agrees(Replayed(events, 0))' /\ Told(ReplayedAnomalies(events'), anomalies')
             /\ gateway' # NULL => \E i \in DOMAIN events' : IsAccepted(events'[i])
  <2>1. /\ Agrees(Replayed(events, 0)) /\ Told(ReplayedAnomalies(events), anomalies)
        /\ gateway # NULL => \E i \in DOMAIN events : IsAccepted(events[i])
    BY <1>2 DEF ReplayInv
  <2>2. events' = events /\ gateway' = gateway /\ anomalies' = anomalies /\ reported' = reported OBVIOUS
  <2>3. Agrees(Replayed(events, 0))' BY <2>1, <2>2 DEF Agrees
  <2>4. QED BY <2>1, <2>2, <2>3
<1>3. QED BY <1>1, <1>2 DEF ReplayInv

(* An event without a packet, of something ignored or rejected. *)
LEMMA ReplayWithoutPacket ==
  ASSUME ReplayInv, Len(events) <= MaxEvents, NEW e \in EventRecord, e.packet = NULL, Recorded(e),
         NEW found, Told(NamedBy(e.disposition), found), anomalies' = anomalies \cup found,
         UNCHANGED <<gateway, links, reported>>
  PROVE  ReplayInv'
<1>1. Stamped(e) /\ ~IsAccepted(e) BY DEF Stamped, IsAccepted
<1>2. IsLog(events) BY DEF ReplayInv
<1>3. IsLog(events') BY <1>1, <1>2, RecordedLog
<1>4. ASSUME whole'
      PROVE  /\ Agrees(Replayed(events, 0))' /\ Told(ReplayedAnomalies(events'), anomalies')
             /\ gateway' # NULL => \E i \in DOMAIN events' : IsAccepted(events'[i])
  <2>1. /\ whole /\ Replayed(events', 0) = Applied(Replayed(events, 0), e, 0)
        /\ ReplayedAnomalies(events') = ReplayedAnomalies(events) \cup
             NamedBy(e.disposition)
        /\ (\E i \in DOMAIN events : IsAccepted(events[i])) => \E i \in DOMAIN events' : IsAccepted(events'[i])
    BY <1>1, <1>2, <1>4, RecordedLog
  <2>2. Replayed(events', 0) = Replayed(events, 0) BY <1>1, <2>1 DEF Applied
  <2>3. /\ Agrees(Replayed(events, 0)) /\ Told(ReplayedAnomalies(events), anomalies)
        /\ gateway # NULL => \E i \in DOMAIN events : IsAccepted(events[i])
    BY <2>1 DEF ReplayInv
  <2>4. Agrees(Replayed(events, 0))' BY <2>2, <2>3 DEF Agrees
  <2>5. Told(ReplayedAnomalies(events'), anomalies') BY <2>1, <2>3, ToldTogether
  <2>6. QED BY <2>1, <2>3, <2>4, <2>5
<1>5. QED BY <1>3, <1>4 DEF ReplayInv

(* The event of a packet that was accepted. *)
LEMMA ReplayAccept ==
  ASSUME DeviceInv, LinkType, ReplayInv, Len(events) <= MaxEvents,
         NEW p \in Packets[hardware], Accept(p), NEW e \in EventRecord, e.packet = p, e.age = 0, Recorded(e),
         NEW found, Told(NamedBy(e.disposition), found), anomalies' = anomalies \cup found
  PROVE  ReplayInv'
<1>1. p # NULL /\ IsPacket(p) BY PacketsAssumption DEF DeviceInv, ClockType
<1>2. Stamped(e) /\ IsAccepted(e)
  <2>1. 0 \in 0..MaxAge BY Limits
  <2>2. QED BY <1>1, <2>1 DEF Stamped, IsAccepted
<1>3. IsLog(events) BY DEF ReplayInv
<1>4. IsLog(events') BY <1>2, <1>3, RecordedLog
<1>5. ASSUME whole'
      PROVE  /\ Agrees(Replayed(events, 0))' /\ Told(ReplayedAnomalies(events'), anomalies')
             /\ gateway' # NULL => \E i \in DOMAIN events' : IsAccepted(events'[i])
  <2> DEFINE was == Replayed(events, 0)
             is == Replayed(events', 0)
  <2>1. /\ whole /\ is = Applied(was, e, 0)
        /\ ReplayedAnomalies(events') = ReplayedAnomalies(events) \cup
             NamedBy(e.disposition)
        /\ \E i \in DOMAIN events' : IsAccepted(events'[i])
    BY <1>2, <1>3, <1>5, RecordedLog
  <2>2. Agrees(was) /\ Told(ReplayedAnomalies(events), anomalies) BY <2>1 DEF ReplayInv
  <2>3. was \in ReplayState
    <3>1. 0 \in Nat /\ Len(events) \in 0..Len(events)
      <4>1. Len(events) \in Nat BY <1>3, LenProperties DEF IsLog
      <4>2. QED BY <4>1
    <3>2. QED BY <1>3, <3>1, ReplayType DEF Replayed
  <2> HIDE DEF was, is
  <2>4. /\ was.devices \in [Devices -> Entry] /\ was.links \in [Links -> LinkEntry]
        /\ \A d \in Devices : reported[d] # NULL => was.devices[d].health = reported[d]
        /\ \A l \in UartLinks : was.links[l] = links[l]
        /\ was.gateway = gateway
    BY <2>2, <2>3 DEF ReplayState, Agrees
  <2>5. /\ is.devices = DevicesAfter(was.devices, p) /\ is.links = AppliedToLinks(was.links, e, 0)
        /\ is.gateway = IF p.event = "GATEWAY_HEALTH" THEN p ELSE was.gateway
    BY <1>2, <2>1 DEF Applied, AppliedToDevices
  <2>6. \A d \in Devices : reported'[d] # NULL => is.devices[d].health = reported'[d]
    BY <2>4, <2>5, DevicesAgree
  <2>7. \A l \in UartLinks : is.links[l] = links'[l]
    <3>1. links' = LinksAfter(links, p, hardware) BY DEF Accept
    <3> DEFINE registry == was.links
    <3>2. registry \in [Links -> LinkEntry] /\ \A l \in UartLinks : registry[l] = links[l] BY <2>4
    <3> HIDE DEF registry
    <3>3. LinkType /\ Stamped(e) /\ IsAccepted(e) /\ e.age = 0 BY <1>2
    <3>4. \A l \in UartLinks : AppliedToLinks(registry, e, 0)[l] = LinksAfter(links, e.packet, hardware)[l]
      BY <3>2, <3>3, LinksAgree, ZenonT(30)
    <3>5. QED BY <2>5, <3>1, <3>4 DEF registry
  <2>8. is.gateway = gateway' BY <2>4, <2>5 DEF Accept
  <2>9. Agrees(Replayed(events, 0))' BY <2>6, <2>7, <2>8 DEF Agrees, is
  <2>10. Told(ReplayedAnomalies(events'), anomalies') BY <2>1, <2>2, ToldTogether
  <2>11. QED BY <2>1, <2>9, <2>10
<1>6. QED BY <1>4, <1>5 DEF ReplayInv

(* Time makes the events older, and the links that are shown and replayed alike. *)
LEMMA ReplayAges ==
  ASSUME LinkType, ReplayInv, NEW time \in Late,
         links' = Older(links, time, MaxAge), events' = Older(events, time, MaxAge),
         UNCHANGED <<gateway, anomalies, reported, whole>>
  PROVE  ReplayInv'
<1> DEFINE n == Len(events)
<1>1. IsLog(events) /\ n \in Nat /\ DOMAIN events = 1..n /\ \A i \in 1..n : Stamped(events[i])
  BY LenProperties DEF ReplayInv, IsLog
<1>2. events' = [i \in 1..n |-> OlderEntry(events[i], time)] BY <1>1, OlderEntries
<1>3. \A i \in 1..n : /\ Stamped(events'[i]) /\ events'[i].packet = events[i].packet
                      /\ events'[i].disposition = events[i].disposition
  <2>1. \A i \in 1..n : events'[i] = OlderEntry(events[i], time) BY <1>2
  <2>2. QED BY <1>1, <2>1, OlderStamped
<1>4. DOMAIN events' = 1..n BY <1>2
<1>5. events' \in Seq(EventRecord) /\ Len(events') = n
  <2>1. \A i \in 1..n : OlderEntry(events[i], time) \in EventRecord BY <1>1, OlderStamped DEF Stamped
  <2> HIDE DEF n
  <2>2. events' \in [1..n -> EventRecord] BY <1>2, <2>1
  <2>3. QED BY <1>1, <2>2
<1>6. IsLog(events') BY <1>3, <1>5 DEF IsLog
<1>7. ASSUME whole'
      PROVE  /\ Agrees(Replayed(events, 0))' /\ Told(ReplayedAnomalies(events'), anomalies')
             /\ gateway' # NULL => \E i \in DOMAIN events' : IsAccepted(events'[i])
  <2> DEFINE was == Replayed(events, 0)
             is == Replayed(events', 0)
  <2>1. /\ Agrees(was) /\ Told(ReplayedAnomalies(events), anomalies)
        /\ gateway # NULL => \E i \in DOMAIN events : IsAccepted(events[i])
    BY <1>7 DEF ReplayInv
  <2>2. is = Later(was, time) BY <1>1, ReplayOlder
  <2>3. was \in ReplayState
    <3>1. 0 \in Nat /\ n \in 0..n BY <1>1
    <3>2. QED BY <1>1, <3>1, ReplayType DEF Replayed
  <2> HIDE DEF was, is
  <2>4. /\ is.devices = was.devices /\ is.gateway = was.gateway /\ is.links = Older(was.links, time, MaxAge)
        /\ was.links \in [Links -> LinkEntry]
    BY <2>2, <2>3 DEF Later, ReplayState
  <2>5. ASSUME NEW l \in UartLinks PROVE is.links[l] = links'[l]
    <3>1. l \in Links /\ DOMAIN was.links = Links /\ DOMAIN links = Links BY <2>4 DEF LinkType, Links
    <3>2. is.links[l] = OlderEntry(was.links[l], time) /\ links'[l] = OlderEntry(links[l], time)
      BY <2>4, <3>1, OlderEntries
    <3>3. was.links[l] = links[l] BY <2>1 DEF Agrees
    <3>4. QED BY <3>2, <3>3
  <2>6. Agrees(Replayed(events, 0))' BY <2>1, <2>4, <2>5 DEF Agrees, is
  <2>7. ReplayedAnomalies(events') = ReplayedAnomalies(events)
    <3>1. \A a : a \in ReplayedAnomalies(events') <=> a \in ReplayedAnomalies(events)
      BY <1>1, <1>3, <1>4 DEF ReplayedAnomalies
    <3>2. QED BY <3>1
  <2>8. gateway' # NULL => \E i \in DOMAIN events' : IsAccepted(events'[i])
    BY <1>1, <1>3, <1>4, <2>1 DEF IsAccepted
  <2>9. QED BY <2>1, <2>6, <2>7, <2>8
<1>8. QED BY <1>6, <1>7 DEF ReplayInv

LEMMA ReplayStep == DeviceInv /\ LinkInv /\ RestType /\ EventsType /\ ReplayInv /\ [Next]_vars => ReplayInv'
<1> SUFFICES ASSUME DeviceInv, LinkInv, RestType, EventsType, ReplayInv, [Next]_vars PROVE ReplayInv' OBVIOUS
<1>1. LinkType /\ links \in [Links -> LinkEntry] /\ Len(events) <= MaxEvents BY DEF LinkInv, LinkType, EventsType
<1>2. ASSUME NEW state, SetConnectionState(state)
      PROVE  UNCHANGED <<gateway, reported>> /\ \A l \in UartLinks : links'[l] = links[l]
  <2>1. links' = links \/ links' = LinksConnected(links, state) BY <1>2 DEF SetConnectionState
  <2>2. \A l \in UartLinks : links'[l] = links[l] BY <1>1, <2>1, LinksConnectedType
  <2>3. QED BY <1>2, <2>2 DEF SetConnectionState
<1>3. CASE Connect \/ Lost
  <2>1. UNCHANGED <<events, whole, anomalies>> /\ \E state : SetConnectionState(state)
    BY <1>3, Zenon DEF Connect, Lost, store
  <2>2. QED BY <1>2, <2>1, ReplayKept
<1>4. CASE Opened
  <2>1. /\ SetConnectionState("CONNECTED") /\ anomalies' = anomalies \cap {"resets", "switches"}
        /\ events' = <<>> /\ whole' = (whole /\ events = <<>>)
    BY <1>4, Zenon DEF Opened
  <2>2. UNCHANGED <<gateway, reported>> /\ \A l \in UartLinks : links'[l] = links[l] BY <1>2, <2>1
  <2>3. ASSUME whole'
        PROVE  /\ Agrees(Replayed(events, 0))' /\ Told(ReplayedAnomalies(events'), anomalies')
               /\ gateway' # NULL => \E i \in DOMAIN events' : IsAccepted(events'[i])
    <3>1. whole /\ events = <<>> /\ events' = events BY <2>1, <2>3
    <3>2. /\ Agrees(Replayed(events, 0)) /\ Told(ReplayedAnomalies(events), anomalies)
          /\ gateway # NULL => \E i \in DOMAIN events : IsAccepted(events[i])
      BY <3>1 DEF ReplayInv
    <3>3. anomalies = {} BY <3>1, <3>2, EmptyReplay DEF Told
    <3>4. anomalies' = {} BY <2>1, <3>3
    <3>5. Agrees(Replayed(events, 0))' BY <2>2, <3>1, <3>2 DEF Agrees
    <3>6. QED BY <2>2, <3>1, <3>2, <3>3, <3>4, <3>5
  <2>4. IsLog(events') BY <2>1, EmptyReplay
  <2>5. QED BY <2>3, <2>4 DEF ReplayInv
<1>5. CASE StartSoak \/ ResetSoak \/ TargetTimePasses
  <2>1. UNCHANGED <<events, whole, gateway, anomalies, reported, links>>
    BY <1>5, Zenon DEF StartSoak, ResetSoak, TargetTimePasses, fleet, session, store
  <2>2. QED BY <2>1, ReplayKept
<1>6. ASSUME NEW p \in Packets[hardware], Accept(p) PROVE ReplayInv'
  <2>1. 0 \in Ages BY Limits DEF Ages
  <2>2. p \in Packets[TRUE] \cup Packets[FALSE]
    <3>1. hardware = TRUE \/ hardware = FALSE BY Zenon DEF DeviceInv, ClockType
    <3>2. QED BY <1>6, <3>1
  <2>3. ASSUME NEW disposition \in Dispositions
        PROVE  /\ Event(disposition, p, 0) \in EventRecord /\ Event(disposition, p, 0).packet = p
               /\ Event(disposition, p, 0).age = 0 /\ Event(disposition, p, 0).disposition = disposition
    BY <2>1, <2>2 DEF Event, EventRecord
  <2>4. PICK found \in Findings : anomalies' = anomalies \cup found /\ Recorded(Event(AcceptedAs(found), p, 0))
    BY <1>6, Zenon DEF Accept
  <2>5. AcceptedAs(found) \in Dispositions /\ Told(NamedBy(AcceptedAs(found)), found)
    BY AcceptedType, FindingsTold
  <2> DEFINE e == Event(AcceptedAs(found), p, 0)
  <2>6. /\ e \in EventRecord /\ e.packet = p /\ e.age = 0 /\ Recorded(e)
        /\ Told(NamedBy(e.disposition), found)
    BY <2>3, <2>4, <2>5
  <2> HIDE DEF e
  <2>7. QED BY <1>1, <1>6, <2>4, <2>6, ReplayAccept
<1>7. CASE Ignore
  <2>1. PICK found \in Incidents, age \in {events[i].age : i \in DOMAIN events} \ {NULL} :
          anomalies' = anomalies \cup {found} /\ Recorded(Event(DispositionOf(found), NULL, age))
    BY <1>7, Zenon DEF Ignore
  <2>2. age \in Ages
    <3>1. PICK i \in DOMAIN events : age = events[i].age BY <2>1
    <3>2. events[i] \in EventRecord BY LenProperties, ElementOfSeq DEF EventsType
    <3>3. QED BY <3>1, <3>2 DEF EventRecord
  <2>3. found \in Anomalies BY <2>1, BoundsAssumption
  <2>4. DispositionOf(found) \in DOMAIN AnomalyOf /\ AnomalyOf[DispositionOf(found)] = found BY <2>3, AnomalyNamed
  <2>5. DispositionOf(found) \in Dispositions BY <2>3, DispositionType
  <2> DEFINE e == Event(DispositionOf(found), NULL, age)
  <2>6. e \in EventRecord /\ e.packet = NULL /\ e.disposition = DispositionOf(found) BY <2>2, <2>5 DEF Event, EventRecord
  <2>7. UNCHANGED <<gateway, links, reported>> BY <1>7, Zenon DEF Ignore, fleet
  <2>8. Recorded(e) /\ anomalies' = anomalies \cup {found} /\ Told(NamedBy(e.disposition), {found})
    BY <2>1, <2>4, <2>6 DEF NamedBy, Told
  <2> HIDE DEF e
  <2>9. QED BY <1>1, <2>6, <2>7, <2>8, ReplayWithoutPacket
<1>8. CASE Reject
  <2> DEFINE e == Event("SCHEMA_REJECTED", NULL, NULL)
  <2>1. e \in EventRecord /\ e.packet = NULL /\ e.disposition = "SCHEMA_REJECTED" BY DEF Event, EventRecord, Dispositions, Ages
  <2>2. Recorded(e) /\ UNCHANGED <<gateway, links, reported, anomalies>> BY <1>8, Zenon DEF Reject, fleet
  <2> HIDE DEF e
  <2>3. "SCHEMA_REJECTED" \notin DOMAIN AnomalyOf BY AnomalyNamed
  <2>4. anomalies' = anomalies \cup {} /\ Told(NamedBy(e.disposition), {}) BY <2>1, <2>2, <2>3 DEF NamedBy, Told
  <2>5. QED BY <1>1, <2>1, <2>2, <2>4, ReplayWithoutPacket
<1>9. CASE AgeRegistry
  <2>1. PICK time \in Late : links' = Older(links, time, MaxAge) /\ events' = Older(events, time, MaxAge)
    BY <1>9, Zenon DEF AgeRegistry
  <2>2. UNCHANGED <<gateway, anomalies, reported, whole>> BY <1>9, Zenon DEF AgeRegistry
  <2>3. QED BY <1>1, <2>1, <2>2, ReplayAges
<1>10. CASE UNCHANGED vars
  <2>1. UNCHANGED <<events, whole, gateway, anomalies, reported, links>> BY <1>10, Zenon DEF vars, fleet, session, store
  <2>2. QED BY <2>1, ReplayKept
<1>11. QED BY <1>3, <1>4, <1>5, <1>6, <1>7, <1>8, <1>9, <1>10, Zenon DEF Next

LEMMA ReplayAlways == Spec => []ReplayInv
  BY ReplayInit, ReplayStep, DeviceAlways, LinkAlways, TypesAlways, PTL DEF Spec

(* The latest of the events that have an age is one of them. *)
LEMMA MaxIsIn ==
  ASSUME NEW n \in Nat, NEW S \in SUBSET (1..n), S # {}
  PROVE  Max(S) \in S
<1> DEFINE Before == {n - i : i \in S}
<1>1. Before \in SUBSET Nat /\ Before # {}
  <2>1. \A i \in S : n - i \in Nat OBVIOUS
  <2>2. QED BY <2>1, Zenon
<1>2. PICK b \in Before : \A c \in Before : b <= c BY <1>1, LeastExists
<1>3. PICK x \in S : b = n - x OBVIOUS
<1>4. \A y \in S : x >= y
  <2>1. ASSUME NEW y \in S PROVE x >= y
    <3>1. n - y \in Before OBVIOUS
    <3>2. n - x <= n - y BY <1>2, <1>3, <3>1, Zenon
    <3>3. QED BY <3>2
  <2>2. QED BY <2>1
<1>5. QED BY <1>3, <1>4 DEF Max

LEMMA ClockRuns ==
  ASSUME NEW es, IsLog(es)
  PROVE  ReplayClock(es) \in Nat
<1> DEFINE n == Len(es)
           stamped == {i \in DOMAIN es : es[i].age # NULL}
<1>1. n \in Nat /\ DOMAIN es = 1..n /\ \A i \in 1..n : es[i] \in EventRecord
  BY LenProperties, ElementOfSeq DEF IsLog
<1>2. CASE stamped = {} BY <1>2 DEF ReplayClock
<1>3. CASE stamped # {}
  <2>1. ReplayClock(es) = es[Max(stamped)].age BY <1>3 DEF ReplayClock
  <2>2. stamped \in SUBSET (1..n) BY <1>1
  <2>3. \A i \in stamped : es[i].age \in 0..MaxAge BY <1>1 DEF EventRecord, Ages
  <2> HIDE DEF stamped, n
  <2>4. Max(stamped) \in stamped BY <1>1, <1>3, <2>2, MaxIsIn
  <2>5. QED BY <2>1, <2>3, <2>4, Limits
<1>4. QED BY <1>2, <1>3

(* What the health check of the replay is given. *)
LEMMA ReplayViewOf ==
  ASSUME ReplayInv, whole
  PROVE  LET view == ReplayView(events)
             live == \E i \in DOMAIN events : IsAccepted(events[i])
             was == Replayed(events, 0)
         IN  /\ was \in ReplayState /\ Agrees(was)
             /\ gateway # NULL => live
             /\ view.devices = was.devices /\ view.gateway = gateway /\ Told(view.anomalies, anomalies)
             /\ \A l \in UartLinks : /\ links[l].state = view.links[l].state /\ links[l].sync = view.links[l].sync
                                     /\ links[l].missed = view.links[l].missed
                                     /\ links[l].age # NULL => view.links[l].age # NULL /\ view.links[l].age <= links[l].age
             /\ live => view.links["link_laptop_pi"] = Proven
             /\ view.links \in [Links -> LinkEntry]
<1> DEFINE live == \E i \in DOMAIN events : IsAccepted(events[i])
           clock == ReplayClock(events)
           was == Replayed(events, 0)
           is == Replayed(events, clock)
           view == ReplayView(events)
<1>1. IsLog(events) /\ Agrees(was) /\ Told(ReplayedAnomalies(events), anomalies) /\ (gateway # NULL => live) BY DEF ReplayInv
<1>2. clock \in Nat /\ 0 \in Nat BY <1>1, ClockRuns
<1>3. is \in ReplayState /\ was \in ReplayState
  <2>1. Len(events) \in 0..Len(events)
    <3>1. Len(events) \in Nat BY <1>1, LenProperties DEF IsLog
    <3>2. QED BY <3>1
  <2>2. QED BY <1>1, <1>2, <2>1, ReplayType DEF Replayed
<1>4. Younger(is, was) BY <1>1, <1>2, ReplayYounger
<1>5. /\ view.devices = is.devices /\ view.gateway = is.gateway /\ view.anomalies = ReplayedAnomalies(events)
      /\ view.links = IF live THEN Transported(is.links) ELSE is.links
  BY DEF ReplayView
<1> HIDE DEF is, was, live, view, clock
<1>6. /\ is.links \in [Links -> LinkEntry] /\ UartLinks \subseteq Links
      /\ "link_laptop_pi" \in Links /\ "link_laptop_pi" \notin UartLinks
  BY <1>3 DEF ReplayState, Links, UartLinks
<1>7. /\ view.links \in [Links -> LinkEntry] /\ \A l \in UartLinks : view.links[l] = is.links[l]
      /\ live => view.links["link_laptop_pi"] = Proven
  BY <1>5, <1>6, ProvenType DEF Transported
<1>8. ASSUME NEW l \in UartLinks
      PROVE  /\ links[l].state = view.links[l].state /\ links[l].sync = view.links[l].sync
             /\ links[l].missed = view.links[l].missed
             /\ links[l].age # NULL => view.links[l].age # NULL /\ view.links[l].age <= links[l].age
  <2>1. was.links[l] = links[l] BY <1>1 DEF Agrees
  <2>2. QED BY <1>4, <1>6, <1>7, <2>1 DEF Younger
<1>9. view.devices = was.devices /\ view.gateway = gateway BY <1>1, <1>4, <1>5 DEF Younger, Agrees
<1>10. QED BY <1>1, <1>3, <1>5, <1>7, <1>8, <1>9 DEF live, was, view

\* A replay of events that were all kept shows each device as it was last reported, and the UART links
\* and the gateway's report as the console does; of the anomalies it shows all but a gap that came with
\* a source reset (buildReplaySnapshot over applyReplayEvent, against ingestPacket and ageRegistry).
THEOREM ReplayShowsReports == Spec => []ReplayTellsTheReports
<1>1. ReplayInv => ReplayTellsTheReports
  <2> SUFFICES ASSUME ReplayInv, whole PROVE ReplayTellsTheReports BY DEF ReplayTellsTheReports
  <2> DEFINE view == ReplayView(events)
             was == Replayed(events, 0)
  <2>1. /\ Agrees(was) /\ view.devices = was.devices /\ view.gateway = gateway /\ Told(view.anomalies, anomalies)
        /\ \A l \in UartLinks : /\ links[l].state = view.links[l].state /\ links[l].sync = view.links[l].sync
                                /\ links[l].missed = view.links[l].missed
    BY ReplayViewOf, Zenon
  <2> HIDE DEF view, was
  <2>2. \A d \in Devices : reported[d] # NULL => view.devices[d].health = reported[d] BY <2>1 DEF Agrees
  <2>3. QED BY <2>1, <2>2 DEF ReplayTellsTheReports, view
<1>2. QED BY <1>1, ReplayAlways, PTL

-----------------------------------------------------------------------------
(*              a health check that passes, also when replayed             *)

LEMMA PassedUart ==
  ASSUME NEW view, HealthCheck(view) = "PASS", NEW l \in UartLinks
  PROVE  view.links[l].state = "LINK_HEALTHY" /\ view.links[l].sync = "SYNCED" /\ view.links[l].missed = 0
<1>1. l \in Links BY DEF Links
<1>2. Passing(RulesForLink(view, l)) BY <1>1, PassedRules
<1>3. /\ LinkStateRule(view.links[l]) \in RulesForLink(view, l) /\ SyncStateRule(view.links[l]) \in RulesForLink(view, l)
      /\ PassIf(view.links[l].missed = 0, "WARNING") \in RulesForLink(view, l)
  BY Zenon DEF RulesForLink
<1>4. {LinkStateRule(view.links[l]), SyncStateRule(view.links[l]), PassIf(view.links[l].missed = 0, "WARNING")}
        \cap {"FAIL", "WARNING"} = {}
  BY <1>2, <1>3 DEF Passing
<1>5. QED BY <1>4 DEF LinkStateRule, SyncStateRule, PassIf

LEMMA PassedGateway ==
  ASSUME NEW view, HealthCheck(view) = "PASS"
  PROVE  view.gateway # NULL
<1>1. Passing(GatewayRules(view)) BY PassedRules
<1>2. QED BY <1>1 DEF Passing, GatewayRules

(* What is enough for a health check to pass. *)
LEMMA EnoughToPass ==
  ASSUME NEW view, view.connectionState = "CONNECTED", view.stale = FALSE, view.streamKnown = TRUE, view.rate = TRUE,
         view.anomalies = {}, Passing(GatewayRules(view)),
         \A d \in CriticalNodes \cup Chips \cup Rails : view.devices[d].health = "HEALTHY",
         \A l \in Links : view.links[l].state = "LINK_HEALTHY" /\ view.links[l].sync = "SYNCED" /\ view.links[l].missed = 0,
         \A l \in UartLinks : HeartbeatFreshness(view, view.links[l]) = "PASS",
         WebSocketFreshness(view, view.links["link_laptop_pi"]) = "PASS"
  PROVE  HealthCheck(view) = "PASS"
<1>1. Supervising(view) BY DEF Supervising
<1>2. \A device : device.health = "HEALTHY" =>
        NodeRule(device) = "PASS" /\ ChipRule(device) = "PASS" /\ RailRule(device) = "PASS" /\ FramExpectedRule(device) = "PASS"
  BY DEF NodeRule, ChipRule, RailRule, FramExpectedRule, PassIf
<1>3. TopologyRules(view) \subseteq {"PASS"}
  <2> DEFINE allWell == /\ Supervising(view)
                       /\ \A d \in CriticalNodes : view.devices[d].health = "HEALTHY"
                       /\ \A l \in Links : view.links[l].state = "LINK_HEALTHY" /\ view.links[l].sync = "SYNCED"
  <2>1. allWell BY <1>1
  <2>2. LaptopSupervision(view) = "PASS" BY <1>1 DEF LaptopSupervision, PassIf
  <2>3. \A d \in CriticalNodes : NodeRule(view.devices[d]) = "PASS" BY <1>2
  <2>4. TopologyRules(view) = {LaptopSupervision(view)} \cup {NodeRule(view.devices[d]) : d \in CriticalNodes}
                              \cup {PassIf(allWell, "FAIL")}
    BY Zenon DEF TopologyRules
  <2> HIDE DEF allWell
  <2>5. PassIf(allWell, "FAIL") = "PASS" BY <2>1 DEF PassIf
  <2>6. QED BY <2>2, <2>3, <2>4, <2>5
<1>4. StreamRules(view) \subseteq {"PASS"} BY DEF StreamRules, PassIf
<1>5. IntegrityRules(view) = {} BY DEF IntegrityRules
<1>6. ChipPowerRules(view) \subseteq {"PASS"}
  <2>1. \A chip \in Chips \ {"fram_mb85rs256b"} : ChipRule(view.devices[chip]) = "PASS" BY <1>2
  <2>2. \A rail \in Rails : RailRule(view.devices[rail]) = "PASS" BY <1>2
  <2>3. FramExpectedRule(view.devices["fram_mb85rs256b"]) = "PASS" BY <1>2 DEF Chips
  <2>4. QED BY <2>1, <2>2, <2>3 DEF ChipPowerRules
<1>7. ASSUME NEW l \in Links PROVE RulesForLink(view, l) \subseteq {"PASS"}
  <2>1. LinkStateRule(view.links[l]) = "PASS" /\ SyncStateRule(view.links[l]) = "PASS"
        /\ PassIf(view.links[l].missed = 0, "WARNING") = "PASS"
    BY DEF LinkStateRule, SyncStateRule, PassIf
  <2>2. (IF l = "link_laptop_pi" THEN WebSocketFreshness(view, view.links[l]) ELSE HeartbeatFreshness(view, view.links[l])) = "PASS"
    BY DEF Links
  <2>3. QED BY <2>1, <2>2 DEF RulesForLink
<1> DEFINE ofLinks == UNION {RulesForLink(view, l) : l \in Links}
           results == TopologyRules(view) \cup GatewayRules(view) \cup ofLinks
                      \cup StreamRules(view) \cup IntegrityRules(view) \cup ChipPowerRules(view)
<1>8. ofLinks \subseteq {"PASS"} BY <1>7
<1>9. HealthCheck(view) = IF "FAIL" \in results THEN "FAIL" ELSE IF "WARNING" \in results THEN "WARNING" ELSE "PASS"
  BY DEF HealthCheck
<1> HIDE DEF ofLinks
<1>10. "FAIL" \notin results /\ "WARNING" \notin results BY <1>3, <1>4, <1>5, <1>6, <1>8 DEF Passing
<1> HIDE DEF results
<1>11. QED BY <1>9, <1>10

\* What passes the health check also passes when it is replayed from all its events, unless the gateway's
\* clock is ahead (evaluateV1PlusHealthCheck over the view of buildReplaySnapshot).
THEOREM PassReplaysAsPass == Spec => []LivePassReplaysAsPass
<1>1. ASSUME DeviceInv, LinkInv, ReplayInv, PassMeansHeard, whole = TRUE, skew >= 0, HealthCheck(View) = "PASS"
      PROVE  HealthCheck(ReplayView(events)) = "PASS"
  <2> DEFINE view == ReplayView(events)
             live == \E i \in DOMAIN events : IsAccepted(events[i])
             was == Replayed(events, 0)
  <2>1. View.links = links /\ View.gateway = gateway /\ View.anomalies = anomalies /\ View.skew = skew BY DEF View
  <2>2. gateway # NULL /\ anomalies = {} BY <1>1, <2>1, PassedGateway, PassedStream
  <2>3. /\ Agrees(was) /\ live
        /\ view.devices = was.devices /\ view.gateway = gateway /\ Told(view.anomalies, anomalies)
        /\ \A l \in UartLinks : /\ links[l].state = view.links[l].state /\ links[l].sync = view.links[l].sync
                                /\ links[l].missed = view.links[l].missed
                                /\ links[l].age # NULL => view.links[l].age # NULL /\ view.links[l].age <= links[l].age
        /\ view.links["link_laptop_pi"] = Proven
        /\ view.links \in [Links -> LinkEntry]
    BY <1>1, <2>2, ReplayViewOf
  <2>4. /\ view.connectionState = "CONNECTED" /\ view.stale = FALSE /\ view.streamKnown = TRUE /\ view.rate = TRUE
        /\ view.skew = 0
    BY <2>3 DEF ReplayView
  <2> HIDE DEF view, live, was
  <2>5. ASSUME NEW d \in CriticalNodes \cup Chips \cup Rails PROVE view.devices[d].health = "HEALTHY"
    <3>1. d \in Devices BY DEF Devices, Nodes
    <3>2. reported[d] = "HEALTHY" BY <1>1 DEF PassMeansHeard
    <3>3. reported[d] # NULL BY <3>2, NullAssumption DEF HealthStates
    <3>4. QED BY <2>3, <3>1, <3>2, <3>3 DEF Agrees
  <2>6. Passing(GatewayRules(view))
    <3>1. Passing(GatewayRules(View)) BY <1>1, PassedRules
    <3>2. GatewayRules(view) = GatewayRules(View)
      <4>1. view.gateway = View.gateway /\ View.gateway # NULL BY <2>1, <2>2, <2>3
      <4>2. QED BY <4>1 DEF GatewayRules
    <3>3. QED BY <3>1, <3>2
  <2>7. ASSUME NEW l \in UartLinks PROVE HeartbeatFreshness(view, view.links[l]) = "PASS"
    <3>1. /\ links[l].age # NULL /\ ~(links[l].age + skew > LinkFail) /\ links[l].age + skew < LinkWarning + 1
      BY <1>1, <2>1, PassedHeartbeats
    <3>2. l \in Links /\ links[l] \in LinkEntry /\ view.links[l] \in LinkEntry BY <1>1, <2>3 DEF LinkInv, LinkType, Links
    <3>3. view.links[l].age # NULL /\ view.links[l].age <= links[l].age BY <2>3, <3>1
    <3>4. links[l].age \in 0..MaxAge /\ view.links[l].age \in 0..MaxAge BY <3>1, <3>2, <3>3 DEF LinkEntry, Ages
    <3>5. skew \in Int /\ LinkWarning \in Nat /\ LinkFail \in Nat /\ MaxAge \in Nat
      BY <1>1, Limits, TimesAssumption DEF DeviceInv, ClockType
    <3>6. ~(view.links[l].age + view.skew > LinkFail) /\ view.links[l].age + view.skew < LinkWarning + 1
      BY <1>1, <2>4, <3>1, <3>3, <3>4, <3>5
    <3>7. QED BY <3>3, <3>6 DEF HeartbeatFreshness, ThresholdRule, PassIf
  <2>8. WebSocketFreshness(view, view.links["link_laptop_pi"]) = "PASS"
    <3>1. 0 <= LinkFail BY TimesAssumption
    <3>2. QED BY <2>3, <2>4, <3>1 DEF WebSocketFreshness, Proven, PassIf
  <2>9. ASSUME NEW l \in Links
        PROVE  view.links[l].state = "LINK_HEALTHY" /\ view.links[l].sync = "SYNCED" /\ view.links[l].missed = 0
    <3>1. CASE l \in UartLinks BY <1>1, <2>1, <2>3, <3>1, PassedUart
    <3>2. CASE l = "link_laptop_pi" BY <2>3, <3>2 DEF Proven
    <3>3. QED BY <3>1, <3>2 DEF Links
  <2>10. view.anomalies = {} BY <2>2, <2>3 DEF Told
  <2>11. HealthCheck(view) = "PASS" BY <2>4, <2>5, <2>6, <2>7, <2>8, <2>9, <2>10, EnoughToPass
  <2>12. QED BY <2>11 DEF view
<1>2. DeviceInv /\ LinkInv /\ ReplayInv /\ PassMeansHeard /\ EventsType => LivePassReplaysAsPass
  <2>1. EventsType /\ whole => whole = TRUE BY DEF EventsType
  <2>2. QED BY <1>1, <2>1, Zenon DEF LivePassReplaysAsPass
<1>3. QED BY <1>2, ReplayAlways, DeviceAlways, LinkAlways, TypesAlways, PassIsHeard, PTL
=============================================================================
