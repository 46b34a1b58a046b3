----------------------------- MODULE HealthRules -----------------------------
(***************************************************************************)
(* evaluateV1PlusHealthCheck: the system health check of the console as a  *)
(* function of the view it is given.  A rule is its result; ids, labels    *)
(* and details are left out.                                               *)
(*                                                                         *)
(* A view has: devices, links, gateway (the last gateway report or NULL),  *)
(* connectionState, stale, streamKnown (a stream id is known), rate (the   *)
(* packet rate is positive), anomalies (those counted), hardware (the      *)
(* source is no simulator) and skew.                                       *)
(***************************************************************************)
EXTENDS Registries

CONSTANTS LinkWarning, LinkFail \* heartbeat ages (3 s, 6 s)

Anomalies == {"duplicates", "outOfOrder", "gaps", "resets", "switches"}

PassIf(holds, otherwise) == IF holds THEN "PASS" ELSE otherwise

\* requiredNodeRule, also as nodeRule.
NodeRule(device) ==
    CASE device.health = "HEALTHY" -> "PASS" [] device.health = "DEGRADED" -> "WARNING" [] OTHER -> "FAIL"

ChipRule(device) == NodeRule(device) \* v1DeviceRule
RailRule(device) == NodeRule(device) \* powerRailRule
FramExpectedRule(device) == PassIf(device.health = "HEALTHY", "WARNING")
ThresholdRule(value, warningAt, failAt) == IF value > failAt THEN "FAIL" ELSE PassIf(value < warningAt, "WARNING")
LinkStateRule(link) ==
    PassIf(link.state = "LINK_HEALTHY", IF link.state = "LINK_OFFLINE" THEN "FAIL" ELSE "WARNING")
SyncStateRule(link) == PassIf(link.sync = "SYNCED", IF link.sync = "UNKNOWN" THEN "WARNING" ELSE "FAIL")

Supervising(view) == view.connectionState = "CONNECTED" /\ view.streamKnown /\ ~view.stale

LaptopSupervision(view) ==
    PassIf(Supervising(view), IF view.connectionState \in {"CONNECTING", "RECONNECTING"} THEN "WARNING" ELSE "FAIL")

TopologyRules(view) ==
    {LaptopSupervision(view)} \cup {NodeRule(view.devices[d]) : d \in CriticalNodes}
    \cup {PassIf(/\ Supervising(view)
                 /\ \A d \in CriticalNodes : view.devices[d].health = "HEALTHY"
                 /\ \A l \in Links : view.links[l].state = "LINK_HEALTHY" /\ view.links[l].sync = "SYNCED",
                 "FAIL")}

GatewayRules(view) ==
    LET gateway == view.gateway
    IN  IF gateway = NULL
        THEN IF view.hardware THEN {"WARNING"} ELSE {"FAIL"}
        ELSE {PassIf(gateway.health = "HEALTHY", "FAIL"), PassIf(gateway.dropped = 0, "WARNING"),
              ThresholdRule(gateway.buffer, 11, 50), ThresholdRule(gateway.cpu, 70, 85),
              ThresholdRule(gateway.memory, 75, 90), ThresholdRule(gateway.disk, 80, 90)}

\* Mutant of HeartbeatFreshness: what the last heartbeat said is enough.
HeartbeatTrusted(view, link) ==
    IF link.age = NULL THEN "WARNING" ELSE LinkStateRule(link)

\* heartbeatFreshnessResult, by the console's clock.
HeartbeatFreshness(view, link) ==
    IF link.age = NULL THEN IF view.connectionState = "CONNECTED" THEN "WARNING" ELSE "FAIL"
    ELSE ThresholdRule(link.age + view.skew, LinkWarning + 1, LinkFail)

\* webSocketLinkFreshnessResult: the laptop's own link is stamped with the console's clock.
WebSocketFreshness(view, link) ==
    IF view.connectionState # "CONNECTED" \/ view.stale THEN "FAIL"
    ELSE PassIf(link.age = NULL \/ link.age <= LinkFail, "WARNING")

RulesForLink(view, l) ==
    LET link == view.links[l]
    IN  {LinkStateRule(link), SyncStateRule(link), PassIf(link.missed = 0, "WARNING"),
         IF l = "link_laptop_pi" THEN WebSocketFreshness(view, link) ELSE HeartbeatFreshness(view, link)}

StreamRules(view) ==
    {PassIf(view.connectionState = "CONNECTED", IF view.connectionState = "OFFLINE" THEN "FAIL" ELSE "WARNING"),
     PassIf(view.streamKnown, "FAIL"), PassIf(~view.stale, "FAIL"),
     PassIf(view.rate, IF view.connectionState = "CONNECTED" THEN "WARNING" ELSE "FAIL")}

IntegrityRules(view) == {IF a = "outOfOrder" THEN "FAIL" ELSE "WARNING" : a \in view.anomalies}

ChipPowerRules(view) ==
    {ChipRule(view.devices[chip]) : chip \in Chips \ {"fram_mb85rs256b"}}
    \cup {RailRule(view.devices[rail]) : rail \in Rails}
    \cup {FramExpectedRule(view.devices["fram_mb85rs256b"])}

HealthCheck(view) ==
    LET results == TopologyRules(view) \cup GatewayRules(view) \cup (UNION {RulesForLink(view, l) : l \in Links})
                   \cup StreamRules(view) \cup IntegrityRules(view) \cup ChipPowerRules(view)
    IN  IF "FAIL" \in results THEN "FAIL" ELSE IF "WARNING" \in results THEN "WARNING" ELSE "PASS"
=============================================================================
