------------------------------ MODULE FleetView ------------------------------
(***************************************************************************)
(* What the console shows of the fleet while packets stop and come again:  *)
(* the registries, the ageing that runs once a second, the system health   *)
(* check and the soak test's verdict.  Where TelemetryStore follows the    *)
(* packets' numbers, this module follows what the packets say.             *)
(*                                                                         *)
(* The gateway stamps packets with its own clock, the console ages them    *)
(* with its own: skew is the console's clock less the gateway's, plus the  *)
(* time of transit.                                                        *)
(***************************************************************************)
EXTENDS FleetReplay

CONSTANTS
    Packets,     \* those that may be accepted, from a simulator and from hardware: [BOOLEAN -> SUBSET ...]
    Incidents,   \* anomalies that may be counted
    Skews,       \* what skew may be
    Late,        \* the ageing timer fires that many seconds after it last did
    StaleAfter,  \* (3 s)
    MaxEvents,   \* capacity of the event store (20000)
    GapLimit,    \* of the heartbeats of a soak test (3 s)
    MaxAge,      \* bound: ages are not counted further
    MaxPackets,  \* bound: packets accepted
    MaxTicks,    \* bound: times the ageing timer fires
    MaxIncidents \* bound: connections lost, messages ignored or rejected, packets with an anomaly

ASSUME TimesAssumption ==
    /\ Skews \subseteq Int /\ Late \subseteq Nat \ {0} /\ Incidents \subseteq Anomalies
    /\ {LinkWarning, LinkFail, StaleAfter, MaxEvents, GapLimit, MaxAge, MaxPackets, MaxTicks, MaxIncidents} \subseteq Nat
    /\ \A s \in Skews \cup {0} : MaxAge + s > NodeOffline /\ MaxAge + s > RailOffline /\ MaxAge + s > ChipOffline
                              /\ MaxAge + s > LinkFail
    /\ MaxAge > StaleAfter /\ MaxAge > GapLimit

ASSUME PacketsAssumption == \A hw \in BOOLEAN : NULL \notin Packets[hw] /\ \A p \in Packets[hw] : IsPacket(p)

VARIABLES
    hardware, skew,  \* the source is no simulator; a simulator is on the console's own clock
    connectionState,
    devices, links, gateway,
    globalHealth,
    streamKnown, rate, anomalies, rejected, \* as the health check and the verdict read them
    receipt, stale,  \* the age of the last accepted packet, NULL: none; isTelemetryStale
    soak,            \* the soak test
    events, dropped, \* the event store; an old event was dropped
    accepted, ticks, incidents, \* for the bounds
    reported,        \* history: the state the last packet gave for each device
    whole            \* history: what the console shows rests on events it still has

bounds == <<accepted, ticks, incidents>>
fleet == <<devices, links, gateway, globalHealth>>
session == <<streamKnown, rate, anomalies, rejected, receipt, stale>>
store == <<events, dropped, whole>>
vars == <<hardware, skew, connectionState, fleet, session, soak, bounds, reported, store>>

(***************************************************************************)
(* The soak test.  Per UART link: a heartbeat was timed, a gap above the   *)
(* limit was seen, the last state, and a dropout that ended was seen.      *)
(***************************************************************************)
Untimed == [timed |-> FALSE, gap |-> FALSE, state |-> NULL, recovered |-> FALSE]
NoSoak == [target |-> FALSE, reached |-> FALSE, stability |-> [l \in UartLinks |-> Untimed], verdict |-> "IN_PROGRESS"]

\* updateSoakLinkStability: a gap is known when the next heartbeat ends it.
Stability(stability, p) ==
    IF p.event # "LINK_HEARTBEAT" \/ p.link \notin UartLinks THEN stability
    ELSE LET was == stability[p.link]
         IN  [stability EXCEPT ![p.link] =
                [timed |-> TRUE, state |-> p.state,
                 gap |-> was.gap \/ (was.timed /\ links[p.link].age > GapLimit),
                 recovered |-> was.recovered \/ (was.state \notin {NULL, "LINK_HEALTHY"} /\ p.state = "LINK_HEALTHY")]]

\* Mutant of FleetFails: the laptop's own link is taken for all of them.
OwnLinkFails == connectionState' # "CONNECTED" \/ links'["link_laptop_pi"].state # "LINK_HEALTHY"

FleetFails ==
    \/ connectionState' # "CONNECTED"
    \/ \E d \in CriticalNodes : devices'[d].age = NULL \/ devices'[d].health \in {"OFFLINE", "FAIL_SAFE"}
    \/ \E l \in Links : links'[l].state # "LINK_HEALTHY" \/ links'[l].sync # "SYNCED"

\* deriveSoakVerdict
Verdict(test) ==
    IF rejected' \/ FleetFails \/ \E l \in UartLinks : test.stability[l].gap THEN "FAIL"
    ELSE IF ~(test.target /\ test.reached) THEN "IN_PROGRESS"
    ELSE IF anomalies' \cap {"gaps", "duplicates"} # {} \/ dropped' \/ \E l \in UartLinks : test.stability[l].recovered
    THEN "WARNING" ELSE "PASS"

Judged(test) == soak' = [test EXCEPT !.verdict = Verdict(test)]

StartSoak ==
    /\ UNCHANGED <<hardware, skew, connectionState, fleet, session, bounds, reported, store>>
    /\ ~soak.target
    /\ Judged([NoSoak EXCEPT !.target = TRUE])

ResetSoak ==
    /\ soak.target
    /\ soak' = NoSoak
    /\ UNCHANGED <<hardware, skew, connectionState, fleet, session, bounds, reported, store>>

TargetTimePasses ==
    /\ soak.target /\ ~soak.reached
    /\ soak' = [soak EXCEPT !.reached = TRUE]
    /\ UNCHANGED <<hardware, skew, connectionState, fleet, session, bounds, reported, store>>

(***************************************************************************)
(* The connection.                                                         *)
(***************************************************************************)
Init ==
    /\ hardware \in BOOLEAN /\ skew \in IF hardware THEN Skews ELSE {0}
    /\ connectionState = "OFFLINE"
    /\ devices = InitialDevices /\ links = InitialLinks /\ gateway = NULL
    /\ globalHealth = GlobalHealth(devices)
    /\ streamKnown = FALSE /\ rate = FALSE /\ anomalies = {} /\ rejected = FALSE
    /\ receipt = NULL /\ stale = TRUE
    /\ soak = NoSoak
    /\ accepted = 0 /\ ticks = 0 /\ incidents = 0
    /\ reported = [d \in Devices |-> NULL]
    /\ events = <<>> /\ dropped = FALSE /\ whole = TRUE

SetConnectionState(state) ==
    /\ connectionState' = state
    /\ links' = IF hardware THEN LinksConnected(links, state) ELSE links
    /\ UNCHANGED <<hardware, skew, devices, gateway, globalHealth, soak, accepted, ticks, reported>>

\* appendTelemetryEvent
Recorded(event) ==
    /\ events' = Bounded(Append(events, event), MaxEvents)
    /\ dropped' = (dropped \/ Len(events) = MaxEvents)
    /\ whole' = (whole /\ Len(events) < MaxEvents)

Incident == incidents < MaxIncidents /\ incidents' = incidents + 1

Connect ==
    /\ connectionState \in {"OFFLINE", "RECONNECTING"}
    /\ SetConnectionState("CONNECTING")
    /\ receipt' = NULL /\ stale' = TRUE
    /\ UNCHANGED <<streamKnown, rate, anomalies, rejected, incidents, store>>

\* resetConnectionStats is part of it.
Opened ==
    /\ connectionState = "CONNECTING"
    /\ SetConnectionState("CONNECTED")
    /\ receipt' = NULL /\ stale' = TRUE
    /\ rate' = FALSE /\ rejected' = FALSE /\ anomalies' = anomalies \cap {"resets", "switches"}
    /\ events' = <<>> /\ dropped' = FALSE /\ whole' = (whole /\ events = <<>>)
    /\ UNCHANGED <<streamKnown, incidents>>

Lost ==
    /\ Incident
    /\ connectionState \in {"CONNECTING", "CONNECTED"}
    /\ \E state \in {"RECONNECTING", "OFFLINE"} : SetConnectionState(state)
    /\ receipt' = NULL /\ stale' = TRUE
    /\ UNCHANGED <<streamKnown, rate, anomalies, rejected, store>>

(***************************************************************************)
(* Messages.                                                               *)
(***************************************************************************)
\* ingestPacket for a packet that is accepted, perhaps after a gap, a reset or a stream switch.
Accept(p) ==
    /\ connectionState = "CONNECTED" /\ accepted < MaxPackets
    /\ devices' = DevicesAfter(devices, p)
    /\ links' = LinksAfter(links, p, hardware)
    /\ gateway' = IF p.event = "GATEWAY_HEALTH" THEN p ELSE gateway
    /\ globalHealth' = GlobalHealth(devices')
    /\ streamKnown' = TRUE /\ rate' = TRUE
    /\ \E found \in Findings :
         /\ found \subseteq Incidents
         /\ IF found = {} THEN UNCHANGED incidents ELSE Incident
         /\ anomalies' = anomalies \cup found
         /\ Recorded(Event(AcceptedAs(found), p, 0))
    /\ receipt' = 0 /\ stale' = FALSE
    /\ accepted' = accepted + 1 /\ UNCHANGED ticks
    /\ reported' = [d \in Devices |-> IF devices'[d].age = 0 THEN devices'[d].health ELSE reported[d]]
    /\ UNCHANGED <<hardware, skew, connectionState, rejected>>
    /\ Judged([soak EXCEPT !.stability = Stability(@, p)])

\* A duplicate or a packet that is out of order, which may be old: only recorded and counted.
Ignore ==
    /\ connectionState = "CONNECTED" /\ Incident
    /\ \E found \in Incidents \cap {"duplicates", "outOfOrder"}, age \in {events[i].age : i \in DOMAIN events} \ {NULL} :
          anomalies' = anomalies \cup {found} /\ Recorded(Event(DispositionOf(found), NULL, age))
    /\ streamKnown' = TRUE /\ rate' = TRUE
    /\ UNCHANGED <<hardware, skew, connectionState, fleet, rejected, receipt, stale, soak, accepted, ticks, reported>>

\* recordPacketRejection
Reject ==
    /\ connectionState = "CONNECTED" /\ Incident
    /\ rejected' = TRUE
    /\ Recorded(Event("SCHEMA_REJECTED", NULL, NULL))
    /\ UNCHANGED <<hardware, skew, connectionState, fleet, streamKnown, rate, anomalies, receipt, stale, accepted, ticks, reported>>
    /\ Judged(soak)

(***************************************************************************)
(* Time, and ageRegistry, which the hook runs once a second or later.      *)
(***************************************************************************)
\* Mutant of AgeRegistry: links are looked at, devices are not aged.
AgesFresh(registry) == registry

AgedView(registry) == AgedDevices(registry, skew)

AgeRegistry ==
    /\ connectionState # "OFFLINE" /\ ticks < MaxTicks
    /\ ticks' = ticks + 1
    /\ \E time \in Late :
         LET age == IF receipt = NULL THEN NULL ELSE IF receipt + time > MaxAge THEN MaxAge ELSE receipt + time
         IN  /\ devices' = AgedView(Older(devices, time, MaxAge))
             /\ links' = Older(links, time, MaxAge)
             /\ events' = Older(events, time, MaxAge)
             /\ receipt' = age
             /\ stale' = (age = NULL \/ age > StaleAfter)
    /\ globalHealth' = GlobalHealth(devices')
    /\ UNCHANGED <<hardware, skew, connectionState, gateway, streamKnown, rate, anomalies, rejected, accepted, incidents, reported,
                   dropped, whole>>
    /\ Judged(soak)

Next ==
    \/ Connect \/ Opened \/ Lost
    \/ StartSoak \/ ResetSoak \/ TargetTimePasses
    \/ \E p \in Packets[hardware] : Accept(p)
    \/ Ignore \/ Reject
    \/ AgeRegistry

Spec == Init /\ [][Next]_vars
-----------------------------------------------------------------------------
Verdicts == {"IN_PROGRESS", "PASS", "WARNING", "FAIL"}
LinkStability == [timed: BOOLEAN, gap: BOOLEAN, state: LinkStates \cup {NULL}, recovered: BOOLEAN]

\* Every variable has its type.
TypeOK ==
    /\ hardware \in BOOLEAN /\ skew \in Int
    /\ connectionState \in {"OFFLINE", "CONNECTING", "CONNECTED", "RECONNECTING"}
    /\ devices \in [Devices -> [health: HealthStates, age: (0..MaxAge) \cup {NULL}, pinned: BOOLEAN]]
    /\ links \in [Links -> [state: LinkStates, sync: SyncStates, age: (0..MaxAge) \cup {NULL}, missed: Nat]]
    /\ gateway = NULL \/ gateway.event = "GATEWAY_HEALTH"
    /\ globalHealth \in HealthStates
    /\ streamKnown \in BOOLEAN /\ rate \in BOOLEAN /\ rejected \in BOOLEAN /\ stale \in BOOLEAN
    /\ anomalies \subseteq Anomalies /\ receipt \in (0..MaxAge) \cup {NULL}
    /\ soak \in [target: BOOLEAN, reached: BOOLEAN, stability: [UartLinks -> LinkStability], verdict: Verdicts]
    /\ accepted \in 0..MaxPackets /\ ticks \in 0..MaxTicks /\ incidents \in 0..MaxIncidents
    /\ reported \in [Devices -> HealthStates \cup {NULL}]
    /\ Len(events) <= MaxEvents
    /\ dropped \in BOOLEAN /\ whole \in BOOLEAN

\* The age at which the console's ageing sees an entry; a packet's own is seen when it is aged.
Silent(entry, after) == entry.age + skew > after

\* An entry shows what the last packet said of the device or, once that is too old, that the device
\* is silent: it is not downgraded before that, it is never shown well after that, and one packet
\* about one device does not refresh another.  The overall state follows the entries.
ShownIsReportedOrSilent ==
    /\ \A d \in Devices : devices[d].age # NULL =>
         LET entry == devices[d]
             mute == ~entry.pinned /\ Silent(entry, DegradedAfter(d))
         IN  /\ entry.health # reported[d] => mute
             /\ mute /\ entry.age > 0 =>
                  entry.health = IF Silent(entry, OfflineAfter(d)) THEN "OFFLINE" ELSE "DEGRADED"
    /\ globalHealth = GlobalHealth(devices)

View == [devices |-> devices, links |-> links, gateway |-> gateway, connectionState |-> connectionState,
         stale |-> stale, streamKnown |-> streamKnown, rate |-> rate, anomalies |-> anomalies,
         hardware |-> hardware, skew |-> skew]

Fresh(entry, after) == entry.age # NULL /\ (entry.age = 0 \/ ~Silent(entry, after))

\* A system health check that passes is about a fleet that is heard now: on a connection that is up
\* and carries packets, every controller, chip and rail was reported well, and both UART links gave
\* a heartbeat, no longer ago than the limits say, whatever was received before a reconnect.
PassMeansHeard ==
    HealthCheck(View) = "PASS" =>
        /\ connectionState = "CONNECTED" /\ receipt # NULL /\ receipt <= StaleAfter /\ anomalies = {}
        /\ \A d \in CriticalNodes \cup Chips \cup Rails : reported[d] = "HEALTHY" /\ Fresh(devices[d], DegradedAfter(d))
        /\ \A l \in UartLinks : Fresh(links[l], LinkWarning)

\* While a soak test stands as passed every required node was reported neither off nor in fail-safe,
\* or it has been silent since then but not for as long as makes it off; no UART link was last
\* reported other than well; and no gap or ended dropout was seen in the test.
PassedFleetIsWell ==
    soak.verdict = "PASS" =>
        /\ \A d \in CriticalNodes :
             /\ reported[d] # NULL /\ Fresh(devices[d], OfflineAfter(d))
             /\ reported[d] \in {"OFFLINE", "FAIL_SAFE"} => Silent(devices[d], DegradedAfter(d))
        /\ \A l \in UartLinks :
             /\ links[l].state = "LINK_HEALTHY" /\ links[l].sync = "SYNCED"
             /\ ~soak.stability[l].gap /\ ~soak.stability[l].recovered

\* Of a packet after a gap that also resets its source's numbers the event names the reset alone.
Told(replayed, live) ==
    /\ replayed \subseteq live
    /\ live \ replayed # {} => live \ replayed = {"gaps"} /\ "resets" \in replayed

\* A replay whose events were all kept shows each device as it was last reported, the ones that fell
\* silent since then included, and the UART links and the gateway's report as the console does.  It
\* shows no anomaly that was not there, and every one that was, except a gap of a packet that also
\* reset its source's numbers: the event names the reset, and the replay shows that.
ReplayTellsTheReports ==
    LET replay == ReplayView(events)
    IN  whole => /\ \A d \in Devices : reported[d] # NULL => replay.devices[d].health = reported[d]
                 /\ \A l \in UartLinks : LET here == links[l]
                                            there == replay.links[l]
                                        IN  /\ here.state = there.state /\ here.sync = there.sync
                                            /\ here.missed = there.missed
                 /\ replay.gateway = gateway /\ Told(replay.anomalies, anomalies)

\* What passes the health check also passes when it is replayed from all its events, unless the
\* gateway's clock is ahead, which makes the console's heartbeats look younger than they are.
LivePassReplaysAsPass ==
    whole /\ skew >= 0 /\ HealthCheck(View) = "PASS" => HealthCheck(ReplayView(events)) = "PASS"

\* "The soak verdict, health engine, topology, event retention, and replay reconstruction describe
\* the same run consistently": when the timer judges a test passed, of a stream that is alive, the
\* health check of the same moment does not fail.
JudgedAlike == [][ticks' # ticks /\ ~stale' /\ soak'.verdict = "PASS" => HealthCheck(View)' # "FAIL"]_vars
=============================================================================
