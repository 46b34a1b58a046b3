------------------------------ MODULE Registries ------------------------------
(***************************************************************************)
(* The console's device and link registries as functions of packets and of *)
(* time.  An entry keeps its age, the time since the packet that wrote it, *)
(* instead of a timestamp; ageing measures that age with the console's     *)
(* clock against the gateway's, which adds the skew of the two.  Messages, *)
(* readings and the unread "online" flag are left out.                     *)
(***************************************************************************)
EXTENDS Integers

CONSTANTS
    NodeDegraded, NodeOffline, \* ages after which a silent entry is downgraded (5 s, 10 s)
    RailDegraded, RailOffline, \* (6 s, 12 s)
    ChipDegraded, ChipOffline, \* (12 s, 20 s)
    NULL

ASSUME PolicyAssumption ==
    /\ {NodeDegraded, NodeOffline, RailDegraded, RailOffline, ChipDegraded, ChipOffline} \subseteq Nat
    /\ NodeDegraded <= NodeOffline /\ RailDegraded <= RailOffline /\ ChipDegraded <= ChipOffline

HealthStates == {"HEALTHY", "DEGRADED", "OFFLINE", "FAIL_SAFE"}
ASSUME NullAssumption == NULL \notin Int /\ NULL \notin HealthStates /\ NULL \notin {"in", "out"}

LinkStates == {"LINK_HEALTHY", "LINK_DEGRADED", "LINK_OFFLINE", "LINK_RECOVERING"}
SyncStates == {"SYNCED", "DESYNCED", "UNKNOWN"}
ChipStatuses == {"DETECTED", "MISSING", "UNKNOWN", "NOT_VALIDATED", "VALIDATION_DISABLED", "BUS_NOT_READY",
                 "DETECTED_UNCONFIRMED", "BLOCKED_WRONG_IC_PENDING"}
Measurements == {"MEASURED", "ADC_NOT_CONFIGURED", "ADC_RAW_DEBUG", "ADC_NOT_DETECTED", "ADC_READ_ERROR",
                 "SENSOR_UNAVAILABLE", "INVALID_READING"}

CriticalNodes == {"pi_gateway", "main_mcu", "sub_mcu"}
Nodes == CriticalNodes \cup {"laptop_console"}
Chips == {"ads1115", "ds3231_rtc", "pca9685_1", "pca9685_2", "pca9685_allcall", "fram_mb85rs256b"}
Rails == {"vin_protected", "rail_5v_logic", "rail_3v3_logic"}
Devices == Nodes \cup {"wifi_link", "main_sub_uart"} \cup Chips \cup Rails
UartLinks == {"link_pi_main", "link_main_sub"}
Links == UartLinks \cup {"link_laptop_pi"}

\* A registry with some entries written anew.
Written(registry, entries) ==
    [id \in DOMAIN registry |-> IF id \in DOMAIN entries THEN entries[id] ELSE registry[id]]

(***************************************************************************)
(* deviceRegistry.  An entry is pinned when its id and message are those   *)
(* of a known limitation, which ageing leaves alone.                       *)
(***************************************************************************)
InitialDevices ==
    [d \in Devices |-> [health |-> IF d = "fram_mb85rs256b" THEN "DEGRADED" ELSE "OFFLINE",
                        age |-> NULL, pinned |-> FALSE]]

Seen(health) == [health |-> health, age |-> 0, pinned |-> FALSE]
WorksIf(works) == Seen(IF works THEN "HEALTHY" ELSE "OFFLINE")

ChipEntry(chip, status) ==
    [health |-> IF status = "DETECTED" THEN "HEALTHY" ELSE "DEGRADED", age |-> 0,
     pinned |-> <<chip, status>> \in {<<"fram_mb85rs256b", "BLOCKED_WRONG_IC_PENDING">>,
                                      <<"pca9685_allcall", "NOT_VALIDATED">>}]

\* A reading is NULL, "in" or "out" of the rail's range.
RailEntry(reading, measurement) ==
    [health |-> IF reading = "in" /\ measurement = "MEASURED" THEN "HEALTHY" ELSE "DEGRADED", age |-> 0,
     pinned |-> reading = NULL /\ measurement \in {"ADC_NOT_CONFIGURED", "ADC_RAW_DEBUG", "ADC_NOT_DETECTED",
                                                   "ADC_READ_ERROR"}]

\* The device of a node id, an old name included; NULL for others.
DeviceOf(node) ==
    CASE node \in {"laptop_console", "pi_gateway"} -> node
      [] node \in {"esp32_main", "esp32_motion"} -> "main_mcu"
      [] node \in {"esp32_sub", "esp32_qc"} -> "sub_mcu"
      [] OTHER -> NULL

\* A packet's event type decides what it says; of node ids any may come.
IsPacket(p) ==
    CASE p.event = "SYSTEM_HEALTH"  -> {p.main, p.sub} \subseteq HealthStates
      [] p.event = "CHIP_STATUS"    -> \A chip \in DOMAIN p.chips : chip \in Chips /\ p.chips[chip] \in ChipStatuses
      [] p.event = "POWER_HEALTH"   -> p.measurement \in Measurements /\ \A rail \in Rails : p.rails[rail] \in {"in", "out", NULL}
      [] p.event = "GATEWAY_HEALTH" -> p.health \in HealthStates
      [] p.event = "NODE_HEALTH"    -> p.health \in HealthStates
      [] p.event = "LINK_HEARTBEAT" -> p.link \in Links /\ p.state \in LinkStates /\ p.sync \in SyncStates /\ p.missed \in Nat
      [] p.event = "LINK_SYNC"      -> p.link \in Links /\ p.sync \in SyncStates
      [] OTHER -> TRUE

\* The entries a packet writes, by its event type.
SystemHealthEntries(p) ==
    [main_mcu |-> Seen(p.main), sub_mcu |-> Seen(p.sub),
     wifi_link |-> WorksIf(p.wifi = "CONNECTED"), main_sub_uart |-> WorksIf(p.uart = "ACTIVE")]
ChipStatusEntries(p) == [chip \in DOMAIN p.chips |-> ChipEntry(chip, p.chips[chip])]
PowerHealthEntries(p) == [rail \in Rails |-> RailEntry(p.rails[rail], p.measurement)]
GatewayHealthEntries(p) == [pi_gateway |-> Seen(p.health)]
NodeHealthEntries(p) == [d \in {DeviceOf(p.node)} \ {NULL} |-> Seen(p.health)]

DevicesAfter(registry, p) ==
    CASE p.event = "SYSTEM_HEALTH" -> Written(registry, SystemHealthEntries(p))
      [] p.event = "CHIP_STATUS" -> Written(registry, ChipStatusEntries(p))
      [] p.event = "POWER_HEALTH" -> Written(registry, PowerHealthEntries(p))
      [] p.event = "GATEWAY_HEALTH" -> Written(registry, GatewayHealthEntries(p))
      [] p.event = "NODE_HEALTH" -> Written(registry, NodeHealthEntries(p))
      [] OTHER -> registry

DegradedAfter(d) == IF d \in Rails THEN RailDegraded ELSE IF d \in Chips THEN ChipDegraded ELSE NodeDegraded
OfflineAfter(d) == IF d \in Rails THEN RailOffline ELSE IF d \in Chips THEN ChipOffline ELSE NodeOffline

\* ageDeviceRegistry
Aged(d, entry, skew) ==
    IF entry.age = NULL \/ entry.pinned \/ entry.age + skew <= DegradedAfter(d) THEN entry
    ELSE [entry EXCEPT !.health = IF entry.age + skew > OfflineAfter(d) THEN "OFFLINE" ELSE "DEGRADED"]

AgedDevices(registry, skew) == [d \in DOMAIN registry |-> Aged(d, registry[d], skew)]

Shows(registry, health) == \E d \in DOMAIN registry : registry[d].health = health

\* getGlobalSystemHealth
GlobalHealth(registry) ==
    IF Shows(registry, "FAIL_SAFE") THEN "FAIL_SAFE"
    ELSE IF \E d \in CriticalNodes : registry[d].health = "OFFLINE" THEN "OFFLINE"
    ELSE IF Shows(registry, "DEGRADED") THEN "DEGRADED" ELSE "HEALTHY"

(***************************************************************************)
(* linkRegistry.  Nothing ages a link: who reads its state must look at    *)
(* the age of its heartbeat as well.                                       *)
(***************************************************************************)
InitialLinks == [l \in Links |-> [state |-> "LINK_OFFLINE", sync |-> "UNKNOWN", age |-> NULL, missed |-> 0]]

\* A packet of the active connection proves the laptop's own link.
Proven == [state |-> "LINK_HEALTHY", sync |-> "SYNCED", age |-> 0, missed |-> 0]

\* updateLinkRegistryFromHeartbeat, updateLinkRegistryFromSync
LinksReported(registry, p) ==
    CASE p.event = "LINK_HEARTBEAT" ->
           [registry EXCEPT ![p.link] = [state |-> p.state, sync |-> p.sync, age |-> 0, missed |-> p.missed]]
      [] p.event = "LINK_SYNC" -> [registry EXCEPT ![p.link].sync = p.sync]
      [] OTHER -> registry

\* ...and updateLinkRegistryFromWebSocketActivity.
LinksAfter(registry, p, projected) ==
    IF projected THEN [LinksReported(registry, p) EXCEPT !["link_laptop_pi"] = Proven]
    ELSE LinksReported(registry, p)

\* updateLinkRegistryFromWebSocket
LinksConnected(registry, connectionState) ==
    [registry EXCEPT !["link_laptop_pi"] =
        IF connectionState = "CONNECTED" THEN Proven
        ELSE [@ EXCEPT !.state = IF connectionState = "OFFLINE" THEN "LINK_OFFLINE" ELSE "LINK_RECOVERING",
                       !.sync = "UNKNOWN"]]

\* Time passes for a registry; ages are counted up to MaxAge.
Older(registry, time, MaxAge) ==
    [id \in DOMAIN registry |->
        IF registry[id].age = NULL THEN registry[id]
        ELSE [registry[id] EXCEPT !.age = IF @ + time > MaxAge THEN MaxAge ELSE @ + time]]
=============================================================================
