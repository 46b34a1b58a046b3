----------------------------- MODULE MCFleetView -----------------------------
(***************************************************************************)
(* FleetView for TLC: the packets of a fleet that is well, and for each    *)
(* kind one that says otherwise.  A simulator reports both controllers in  *)
(* one packet and the laptop's own link; hardware reports each controller. *)
(***************************************************************************)
EXTENDS FleetView, SequencesExt

AllChips(status) == [chip \in Chips |-> status]
AllRails(reading) == [rail \in Rails |-> reading]
NodeHealth(node, health) == [event |-> "NODE_HEALTH", node |-> node, health |-> health]
Heartbeat(link, state, sync) ==
    [event |-> "LINK_HEARTBEAT", link |-> link, state |-> state, sync |-> sync, missed |-> 0]

SystemWell ==
    [event |-> "SYSTEM_HEALTH", main |-> "HEALTHY", sub |-> "HEALTHY", wifi |-> "CONNECTED", uart |-> "ACTIVE"]
ChipsWell == [event |-> "CHIP_STATUS", chips |-> AllChips("DETECTED")]
PowerWell == [event |-> "POWER_HEALTH", rails |-> AllRails("in"), measurement |-> "MEASURED"]
GatewayWell ==
    [event |-> "GATEWAY_HEALTH", health |-> "HEALTHY", cpu |-> 69, memory |-> 74, disk |-> 79, buffer |-> 10,
     dropped |-> 0]

WellPackets == {ChipsWell, PowerWell, GatewayWell} \cup {Heartbeat(l, "LINK_HEALTHY", "SYNCED") : l \in UartLinks}
OtherPackets == {
    [event |-> "CHIP_STATUS", chips |-> [AllChips("MISSING") EXCEPT !["fram_mb85rs256b"] = "BLOCKED_WRONG_IC_PENDING"]],
    [event |-> "POWER_HEALTH", rails |-> AllRails(NULL), measurement |-> "ADC_RAW_DEBUG"],
    [Heartbeat("link_main_sub", "LINK_OFFLINE", "UNKNOWN") EXCEPT !.missed = 1],
    [event |-> "LINK_SYNC", link |-> "link_pi_main", sync |-> "DESYNCED"]}

MCPackets == [hw \in BOOLEAN |->
    IF hw THEN WellPackets \cup OtherPackets \cup {NodeHealth("esp32_sub", "FAIL_SAFE")}
    ELSE WellPackets \cup {SystemWell, [SystemWell EXCEPT !.sub = "OFFLINE"]}]

LaptopHeartbeat == Heartbeat("link_laptop_pi", "LINK_HEALTHY", "SYNCED")
WellPast(hw) ==
    SetToSeq(WellPackets \cup
             IF hw THEN {NodeHealth("esp32_main", "HEALTHY"), NodeHealth("esp32_sub", "HEALTHY")}
             ELSE {SystemWell, LaptopHeartbeat})


\* The console has just been opened, or has heard a whole fleet in the last second: what
\* connecting and accepting these packets leads to, with the bounds still to be spent.
Heard(past) ==
    /\ connectionState = "CONNECTED"
    /\ devices = FoldLeft(DevicesAfter, InitialDevices, past)
    /\ links = FoldLeft(LAMBDA r, p : LinksAfter(r, p, hardware), InitialLinks, past)
    /\ gateway = GatewayWell
    /\ globalHealth = GlobalHealth(devices)
    /\ streamKnown = TRUE /\ rate = TRUE /\ anomalies = {} /\ rejected = FALSE
    /\ receipt = 0 /\ stale = FALSE
    /\ soak = NoSoak
    /\ accepted = 0 /\ ticks = 0 /\ incidents = 0
    /\ reported = [d \in Devices |-> IF devices[d].age = NULL THEN NULL ELSE devices[d].health]
    /\ events = [i \in DOMAIN past |-> Event("ACCEPTED", past[i], 0)] /\ dropped = FALSE /\ whole = TRUE

MCInit ==
    \/ Init
    \/ /\ hardware \in BOOLEAN /\ skew \in IF hardware THEN Skews ELSE {0}
       /\ Heard(WellPast(hardware))

MCSpec == MCInit /\ [][Next]_vars

MCSkews == {-1, 1}
=============================================================================
