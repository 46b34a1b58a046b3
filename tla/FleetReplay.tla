----------------------------- MODULE FleetReplay -----------------------------
(***************************************************************************)
(* buildReplaySnapshot: the view of the fleet that the console rebuilds    *)
(* from its event store, and the health check of that view.                *)
(*                                                                         *)
(* An event has: disposition (how the packet was taken), packet (that of   *)
(* an accepted one) and age, NULL for the event of a rejection, which has  *)
(* no packet.  Counters are kept by TelemetryStore; of them the health     *)
(* check reads only whether they are positive.                             *)
(***************************************************************************)
EXTENDS HealthRules, Sequences, FiniteSetsExt

\* The anomaly that a disposition stands for.
AnomalyOf == [SEQUENCE_GAP_ACCEPTED |-> "gaps", SEQUENCE_RESET_ACCEPTED |-> "resets",
              STREAM_SWITCH_ACCEPTED |-> "switches", DUPLICATE_REJECTED |-> "duplicates",
              OUT_OF_ORDER_REJECTED |-> "outOfOrder"]
DispositionOf(anomaly) == CHOOSE d \in DOMAIN AnomalyOf : AnomalyOf[d] = anomaly

\* What ingestPacket may find of a packet that it accepts.  A packet after a gap may also be the one
\* with which its source began its own numbers again: both are counted.
Findings == {{}, {"gaps"}, {"resets"}, {"switches"}, {"gaps", "resets"}}

\* buildAcceptedPacketEventInput: its event names one of them.
AcceptedAs(found) ==
    IF found = {} THEN "ACCEPTED"
    ELSE DispositionOf(IF "switches" \in found THEN "switches" ELSE IF "resets" \in found THEN "resets" ELSE "gaps")

Event(disposition, p, age) == [disposition |-> disposition, packet |-> p, age |-> age]
IsAccepted(e) == e.packet # NULL

\* getReplayClockUtc: the age of the last event that has a packet, an ignored one included.
ReplayClock(events) ==
    LET stamped == {i \in DOMAIN events : events[i].age # NULL}
    IN  IF stamped = {} THEN 0 ELSE events[Max(stamped)].age

\* Mutant of AppliedToDevices: a gateway report is only kept as such.
AppliedButGateway(registry, p) == IF p.event = "GATEWAY_HEALTH" THEN registry ELSE DevicesAfter(registry, p)

AppliedToDevices(registry, p) == DevicesAfter(registry, p)

\* A heartbeat is as old as its event, by the clock of the replay.
AppliedToLinks(registry, e, clock) ==
    LET next == LinksReported(registry, e.packet)
    IN  IF e.packet.event # "LINK_HEARTBEAT" THEN next
        ELSE [next EXCEPT ![e.packet.link].age = IF e.age > clock THEN e.age - clock ELSE 0]

\* applyAcceptedPacketToReplayState, for an event that was accepted.
Applied(state, e, clock) ==
    IF ~IsAccepted(e) THEN state
    ELSE [devices |-> AppliedToDevices(state.devices, e.packet),
          links |-> AppliedToLinks(state.links, e, clock),
          gateway |-> IF e.packet.event = "GATEWAY_HEALTH" THEN e.packet ELSE state.gateway]

InitialReplayState == [devices |-> InitialDevices, links |-> InitialLinks, gateway |-> NULL]

\* What the first events make of it, and what all do.
ReplayedUpTo(events, clock) ==
    LET after[i \in 0..Len(events)] == IF i = 0 THEN InitialReplayState ELSE Applied(after[i - 1], events[i], clock)
    IN  after
Replayed(events, clock) == ReplayedUpTo(events, clock)[Len(events)]

\* applyReplayEvent
ReplayedAnomalies(events) == {AnomalyOf[events[i].disposition] : i \in {j \in DOMAIN events :
                                                        events[j].disposition \in DOMAIN AnomalyOf}}

\* Mutant of Transported: the laptop's own link is not derived.
NotTransported(registry) == registry

Transported(registry) == [registry EXCEPT !["link_laptop_pi"] = Proven]

\* The view that buildReplaySnapshot checks: of a live connection if a packet was accepted, at the
\* time of the replay's clock, and as if the source were a simulator.
ReplayView(events) ==
    LET live == \E i \in DOMAIN events : IsAccepted(events[i])
        state == Replayed(events, ReplayClock(events))
    IN  [devices |-> state.devices,
         links |-> IF live THEN Transported(state.links) ELSE state.links,
         gateway |-> state.gateway,
         connectionState |-> IF live THEN "CONNECTED" ELSE "OFFLINE",
         stale |-> ~live, streamKnown |-> live, rate |-> live,
         anomalies |-> ReplayedAnomalies(events), hardware |-> FALSE, skew |-> 0]

\* appendBoundedEvent
Bounded(events, max) ==
    IF Len(events) > max THEN SubSeq(events, Len(events) - max + 1, Len(events)) ELSE events
=============================================================================
