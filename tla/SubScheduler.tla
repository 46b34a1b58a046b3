----------------------------- MODULE SubScheduler -----------------------------
(***************************************************************************)
(* SUB's telemetry timers.  loop() calls update() again and again; a call  *)
(* emits at most one packet, the first that is due in a fixed order, and   *)
(* none within Spacing of the packet before.  Times are readings of        *)
(* millis(), which wraps.                                                  *)
(*                                                                         *)
(* A call of update() reads millis() once and is one step; what writing a  *)
(* packet takes is part of the time until the next call, at most MaxLag.   *)
(* Names are kept apart from those of the other firmware modules, so that  *)
(* one module can prove theorems about all of them.                        *)
(***************************************************************************)
EXTENDS Integers

CONSTANTS
    Wrap,               \* readings of millis(): 2^32
    HeartbeatInterval,  \* LINK_HEARTBEAT_INTERVAL_MS
    HealthInterval,     \* NODE_HEALTH_INTERVAL_MS
    SyncInterval,       \* LINK_SYNC_INTERVAL_MS
    Spacing,            \* SUB_TELEMETRY_MIN_PACKET_SPACING_MS
    MaxLag              \* bound: time between two calls of update()

\* From one packet to the next, when something is due: a call just before Spacing is over
\* emits nothing, and the next may come MaxLag later.
Delay == Spacing - 1 + MaxLag

\* board_config.h: 500, 1000, 2000 and 75, so MaxLag is below 176 ms.
ASSUME TimesAssumption ==
    /\ {Wrap, HeartbeatInterval, HealthInterval, SyncInterval, MaxLag} \subseteq Nat \ {0}
    /\ Spacing \in Nat /\ Spacing > 1
    /\ 2 * Delay < HeartbeatInterval /\ 2 * Delay < HealthInterval /\ Spacing < SyncInterval
    /\ HeartbeatInterval + Delay < Wrap
    /\ HealthInterval + 2 * Delay < Wrap
    /\ SyncInterval + 3 * Delay < Wrap

VARIABLES
    now,       \* millis()
    last,      \* lastLinkHeartbeatMs_, lastNodeHealthMs_, lastLinkSyncMs_
    lastEmit,  \* lastTelemetryEmitMs_
    idle,      \* time since update() was last called
    age,       \* history: time since a packet of each kind was emitted
    quiet      \* history: time since any packet was emitted

timers == <<now, last, lastEmit, idle, age, quiet>>

Kinds == {"LINK_HEARTBEAT", "NODE_HEALTH", "LINK_SYNC"}
Readings == 0..(Wrap - 1)

Interval ==
    [LINK_HEARTBEAT |-> HeartbeatInterval, NODE_HEALTH |-> HealthInterval, LINK_SYNC |-> SyncInterval]

\* The order in which update() looks at the kinds.
Rank == [LINK_HEARTBEAT |-> 1, NODE_HEALTH |-> 2, LINK_SYNC |-> 3]

\* A difference of readings that takes a wrap for no time at all.
MinusClamped(a, b) == IF a >= b THEN a - b ELSE 0

\* uint32_t arithmetic: the difference of two readings.
Minus(a, b) == (a - b) % Wrap

NextReading == (now + 1) % Wrap

\* begin(): everything is due at once.  The histories count begin() as an emission that was
\* due when it happened.
TimersInit ==
    /\ now \in Readings
    /\ last = [k \in Kinds |-> Minus(now, Interval[k])]
    /\ lastEmit = Minus(now, Spacing)
    /\ idle = 0
    /\ age = Interval
    /\ quiet = Spacing

\* The deadline is computed and compared with the reading, instead of the difference with
\* the interval.
DueByDeadline(k) == now >= (last[k] + Interval[k]) % Wrap

Due(k) == Minus(now, last[k]) >= Interval[k]

MayEmit == Minus(now, lastEmit) >= Spacing

EmitTelemetry(k) ==
    /\ MayEmit
    /\ Due(k) /\ \A j \in Kinds : Rank[j] < Rank[k] => ~Due(j)
    /\ last' = [last EXCEPT ![k] = now]
    /\ lastEmit' = now
    /\ idle' = 0
    /\ age' = [age EXCEPT ![k] = 0]
    /\ quiet' = 0
    /\ UNCHANGED now

NothingToEmit ==
    /\ MayEmit => \A k \in Kinds : ~Due(k)
    /\ idle' = 0
    /\ UNCHANGED <<now, last, lastEmit, age, quiet>>

TimePasses ==
    /\ idle < MaxLag
    /\ now' = NextReading
    /\ idle' = idle + 1
    /\ age' = [k \in Kinds |-> age[k] + 1]
    /\ quiet' = quiet + 1
    /\ UNCHANGED <<last, lastEmit>>

update == NothingToEmit \/ \E k \in Kinds : EmitTelemetry(k)

TimersNext == update \/ TimePasses

TimersSpec == TimersInit /\ [][TimersNext]_timers

(***************************************************************************)
(* Properties.                                                             *)
(***************************************************************************)
\* Every variable keeps its type: readings and what is remembered of them stay below Wrap.
TimersTypeOK ==
    /\ now \in Readings /\ lastEmit \in Readings /\ last \in [Kinds -> Readings]
    /\ idle \in 0..MaxLag
    /\ age \in [Kinds -> Nat] /\ quiet \in Nat

\* No kind is starved: although a packet may have to let others go first and each of them
\* opens a new spell of silence, it is late by at most one Delay for itself and one for each
\* kind before it in the order, whatever millis() reads (TelemetryScheduler::update).
NeverTooLate == \A k \in Kinds : age[k] < Interval[k] + Rank[k] * Delay

\* Nor is a packet early: two packets are never less than Spacing apart and two of a kind
\* never less than its interval, in elapsed time, not in readings that wrap.
NeverTooSoon ==
    [][/\ quiet' < quiet => quiet >= Spacing
       /\ \A k \in Kinds : age'[k] < age[k] => age[k] >= Interval[k]]_timers
=============================================================================
