--------------------------- MODULE TelemetryStore ---------------------------
(***************************************************************************)
(* The console's store: what it does with each message of the socket, with *)
(* the socket's own comings and goings, and with the soak test that judges *)
(* the session.  Every action is one synchronous set() of the store.       *)
(* Payloads, registries and logs are left out; whether the required nodes  *)
(* and links are well is chosen anew at each verdict.                      *)
(***************************************************************************)
EXTENDS Naturals, Sequences, FiniteSets

CONSTANTS
    Streams, Sources, SourceNumbers, \* stream_id, source_node_id, source_sequence_number
    MaxNumber,   \* bound: global_sequence_number
    Packets,     \* those the gateways may send
    ResetLow,    \* a number up to this one ... (5)
    ResetHigh,   \* ... after one above this one is a sequence reset (20)
    KeysKept,    \* length of recentPacketKeys (300)
    StoreSize,   \* eventStoreMaxEvents (20000)
    MaxMessages, \* bound: messages received
    MaxOpens,    \* bound: connections
    NULL

\* The last conjunct: a stream gives one global number to at most as many packets as there are
\* keys kept.  A gateway gives it to one.
ASSUME SizesAssumption ==
    /\ {MaxNumber, ResetLow, ResetHigh, KeysKept, StoreSize, MaxMessages, MaxOpens} \subseteq Nat \ {0}
    /\ Packets \subseteq [stream: Streams, source: Sources, ssn: SourceNumbers, g: 1..MaxNumber]
    /\ \A p \in Packets :
         LET Same == {q \in Packets : q.stream = p.stream /\ q.g = p.g}
         IN  IsFiniteSet(Same) /\ Cardinality(Same) <= KeysKept

ASSUME NullAssumption == NULL \notin Streams /\ NULL \notin Nat /\ NULL \notin {"recent", "old"}

VARIABLES
    connectionState,
    activeStreamId,
    last,            \* lastAcceptedSequenceNumber
    sourceSequences, \* of activeStreamId: a stream switch empties it
    recentPacketKeys,
    counts,          \* the packet counters
    eventStore, latest, dropped, \* eventStore, ...LatestSequence, ...DroppedOldEvents
    receipt,         \* lastAcceptedPacketReceiptMonotonicMs: NULL, "recent", or "old": over 3 s ago
    stale,           \* isTelemetryStale
    soak,            \* the soak test: has a target, its target time has passed, verdict
    messages, opens, \* for the bounds
    epoch,           \* history: packets accepted since the last stream switch or reset
    from,            \* history: the number after which this connection counts the epoch's gaps
    gapsBefore,      \* history: sequenceGaps when it began to
    carried,         \* history: sequenceResets and streamSwitches when the connection was made
    soakLoss         \* history: packets known lost since the soak test was started

stream == <<activeStreamId, last, sourceSequences, recentPacketKeys>>
store == <<eventStore, latest, dropped>>
fresh == <<receipt, stale>>
history == <<epoch, from, gapsBefore, carried>>
vars == <<connectionState, stream, counts, store, fresh, soak, messages, opens, history, soakLoss>>

Zero == [packets |-> 0, duplicates |-> 0, outOfOrder |-> 0, gaps |-> 0, resets |-> 0, switches |-> 0,
         rejected |-> 0]

Init ==
    /\ connectionState = "OFFLINE"
    /\ activeStreamId = NULL /\ last = NULL /\ recentPacketKeys = <<>>
    /\ sourceSequences = [s \in Sources |-> NULL]
    /\ counts = Zero
    /\ eventStore = <<>> /\ latest = 0 /\ dropped = 0
    /\ receipt = NULL /\ stale = TRUE
    /\ soak = [target |-> FALSE, reached |-> FALSE, verdict |-> "IN_PROGRESS"]
    /\ messages = 0 /\ opens = 0
    /\ epoch = <<>> /\ from = 0 /\ gapsBefore = 0 /\ carried = [resets |-> 0, switches |-> 0]
    /\ soakLoss = FALSE

(***************************************************************************)
(* The socket (useTelemetrySocket).                                        *)
(***************************************************************************)
\* Mutant of SetConnectionState: the receipt time outlives the connection.
ReceiptKept(s) ==
    /\ connectionState' = s
    /\ stale' = (s # "CONNECTED" \/ stale)
    /\ UNCHANGED receipt

SetConnectionState(s) ==
    /\ connectionState' = s
    /\ receipt' = IF s = "CONNECTED" THEN receipt ELSE NULL
    /\ stale' = (s # "CONNECTED" \/ stale)

Connect ==
    /\ connectionState \in {"OFFLINE", "RECONNECTING"} /\ opens < MaxOpens
    /\ SetConnectionState("CONNECTING")
    /\ UNCHANGED <<stream, counts, store, soak, messages, opens, history, soakLoss>>

Lost ==
    /\ connectionState \in {"CONNECTING", "CONNECTED"}
    /\ SetConnectionState("RECONNECTING")
    /\ UNCHANGED <<stream, counts, store, soak, messages, opens, history, soakLoss>>

Unmount ==
    /\ connectionState # "OFFLINE"
    /\ SetConnectionState("OFFLINE")
    /\ UNCHANGED <<stream, counts, store, soak, messages, opens, history, soakLoss>>

\* resetConnectionStats: what was accepted last, and the switches and resets, survive.
ResetCounts == counts' = [Zero EXCEPT !.resets = counts.resets, !.switches = counts.switches]

ResetStore == eventStore' = <<>> /\ latest' = 0 /\ dropped' = 0

\* Mutant of ResetStream: a new connection forgets the recent keys.
KeysForgotten == recentPacketKeys' = <<>> /\ UNCHANGED <<activeStreamId, last, sourceSequences>>

ResetStream == UNCHANGED stream

Opened ==
    /\ connectionState = "CONNECTING" /\ opens < MaxOpens
    /\ connectionState' = "CONNECTED"
    /\ receipt' = NULL /\ stale' = TRUE
    /\ ResetCounts /\ ResetStore /\ ResetStream
    /\ opens' = opens + 1
    /\ from' = (IF last = NULL THEN 0 ELSE last) /\ gapsBefore' = 0
    /\ carried' = [resets |-> counts.resets, switches |-> counts.switches]
    /\ UNCHANGED <<soak, messages, epoch, soakLoss>>

(***************************************************************************)
(* The soak test.  deriveSoakVerdict reads the counters of the connection. *)
(***************************************************************************)
Verdict(s, fleetWell, c, old) ==
    IF c.rejected > 0 \/ connectionState # "CONNECTED" \/ ~fleetWell THEN "FAIL"
    ELSE IF ~(s.target /\ s.reached) THEN "IN_PROGRESS"
    ELSE IF c.gaps > 0 \/ c.duplicates > 0 \/ old > 0 THEN "WARNING"
    ELSE "PASS"

Judge(s) == \E fleetWell \in BOOLEAN : soak' = [s EXCEPT !.verdict = Verdict(s, fleetWell, counts', dropped')]

StartSoak ==
    /\ soakLoss' = FALSE
    /\ UNCHANGED <<connectionState, stream, counts, store, fresh, messages, opens, history>>
    /\ Judge([target |-> TRUE, reached |-> FALSE, verdict |-> "IN_PROGRESS"])

ResetSoak ==
    /\ soak' = [target |-> FALSE, reached |-> FALSE, verdict |-> "IN_PROGRESS"]
    /\ UNCHANGED <<connectionState, stream, counts, store, fresh, messages, opens, history, soakLoss>>

\* Time: the target duration passes; three seconds pass without an accepted packet.
TargetTimePasses ==
    /\ soak.target /\ ~soak.reached
    /\ soak' = [soak EXCEPT !.reached = TRUE]
    /\ UNCHANGED <<connectionState, stream, counts, store, fresh, messages, opens, history, soakLoss>>

Silence ==
    /\ receipt = "recent"
    /\ receipt' = "old"
    /\ UNCHANGED <<connectionState, stream, counts, store, stale, soak, messages, opens, history, soakLoss>>

\* Every second, whatever the connection does.
AgeRegistry ==
    /\ connectionState # "OFFLINE"
    /\ stale' = (receipt # "recent")
    /\ UNCHANGED <<connectionState, stream, counts, store, receipt, messages, opens, history, soakLoss>>
    /\ Judge(soak)

(***************************************************************************)
(* A message.                                                              *)
(***************************************************************************)
Receive == connectionState = "CONNECTED" /\ messages < MaxMessages /\ messages' = messages + 1

\* appendTelemetryEvent and appendBoundedEvent.
Record(disposition, p) ==
    LET next == Append(eventStore, [number |-> latest + 1, disposition |-> disposition, packet |-> p])
        overflow == IF Len(next) > StoreSize THEN Len(next) - StoreSize ELSE 0
    IN  /\ eventStore' = SubSeq(next, overflow + 1, Len(next))
        /\ latest' = latest + 1
        /\ dropped' = dropped + overflow

\* recordPacketRejection: the message is no JSON, or the validator refuses it.
Reject ==
    /\ Receive
    /\ Record("REJECTED", NULL)
    /\ counts' = [counts EXCEPT !.rejected = @ + 1]
    /\ Judge(soak)
    /\ UNCHANGED <<connectionState, stream, fresh, opens, history, soakLoss>>

Key(p) == <<p.source, p.ssn, p.g>>
IsSwitch(p) == activeStreamId # NULL /\ p.stream # activeStreamId
KnownKeys(p) == IF IsSwitch(p) THEN <<>> ELSE recentPacketKeys
IsDuplicate(p) == \E i \in DOMAIN KnownKeys(p) : KnownKeys(p)[i] = Key(p)
IsReset(p) == ~IsSwitch(p) /\ last # NULL /\ p.g <= ResetLow /\ last > ResetHigh
IsOutOfOrder(p) == ~IsSwitch(p) /\ ~IsReset(p) /\ last # NULL /\ p.g < last
IsSourceReset(p) == ~IsSwitch(p) /\ sourceSequences[p.source] # NULL /\ p.ssn < sourceSequences[p.source]

StartsEpoch(p) == last = NULL \/ IsReset(p) \/ IsSwitch(p)
\* Mutant of Gap: the packet itself counts as missed.
GapFromLast(p) == IF StartsEpoch(p) \/ p.g <= last + 1 THEN 0 ELSE p.g - last
Gap(p) == IF StartsEpoch(p) \/ p.g <= last + 1 THEN 0 ELSE p.g - (last + 1)

Observed == [counts EXCEPT !.packets = @ + 1]

Duplicate(p) ==
    /\ Receive /\ IsDuplicate(p)
    /\ Record("DUPLICATE_REJECTED", p)
    /\ counts' = [Observed EXCEPT !.duplicates = @ + 1]
    /\ UNCHANGED <<connectionState, stream, fresh, soak, opens, history, soakLoss>>

OutOfOrder(p) ==
    /\ Receive /\ ~IsDuplicate(p) /\ IsOutOfOrder(p)
    /\ Record("OUT_OF_ORDER_REJECTED", p)
    /\ counts' = [Observed EXCEPT !.outOfOrder = @ + 1]
    /\ UNCHANGED <<connectionState, stream, fresh, soak, opens, history, soakLoss>>

\* Mutant of Disposition: a gap is looked for before a source reset.
GapFirst(p) ==
    CASE IsSwitch(p) -> "STREAM_SWITCH_ACCEPTED"
      [] ~IsSwitch(p) /\ Gap(p) > 0 -> "SEQUENCE_GAP_ACCEPTED"
      [] ~IsSwitch(p) /\ Gap(p) = 0 /\ (IsReset(p) \/ IsSourceReset(p)) -> "SEQUENCE_RESET_ACCEPTED"
      [] OTHER -> "ACCEPTED"

\* buildAcceptedPacketEventInput: one disposition, although a packet may both follow a gap and
\* reset its source's numbers.
Disposition(p) ==
    CASE IsSwitch(p) -> "STREAM_SWITCH_ACCEPTED"
      [] ~IsSwitch(p) /\ (IsReset(p) \/ IsSourceReset(p)) -> "SEQUENCE_RESET_ACCEPTED"
      [] ~IsSwitch(p) /\ ~IsReset(p) /\ ~IsSourceReset(p) /\ Gap(p) > 0 -> "SEQUENCE_GAP_ACCEPTED"
      [] OTHER -> "ACCEPTED"

One(b) == IF b THEN 1 ELSE 0

\* The new key at the end, the last KeysKept of them kept.
RememberKey(p) ==
    LET all == Append(KnownKeys(p), Key(p))
    IN  recentPacketKeys' =
            IF IsReset(p) \/ IsSwitch(p) THEN <<Key(p)>>
            ELSE SubSeq(all, IF Len(all) > KeysKept THEN Len(all) - KeysKept + 1 ELSE 1, Len(all))

CountAccepted(p) ==
    counts' = [Observed EXCEPT !.gaps = @ + Gap(p), !.resets = @ + One(IsReset(p) \/ IsSourceReset(p)),
                               !.switches = @ + One(IsSwitch(p))]

\* Mutant of JudgeAccepted: the counters as they were before the packet.
JudgeBefore == \E fleetWell \in BOOLEAN : soak' = [soak EXCEPT !.verdict = Verdict(soak, fleetWell, counts, dropped)]

\* The verdict counts the packet's own gap.
JudgeAccepted == Judge(soak)

Accept(p) ==
    /\ Receive /\ ~IsDuplicate(p) /\ ~IsOutOfOrder(p)
    /\ Record(Disposition(p), p)
    /\ CountAccepted(p)
    /\ activeStreamId' = p.stream /\ last' = p.g
    /\ sourceSequences' = [s \in Sources |-> IF s = p.source THEN p.ssn
                                             ELSE IF IsSwitch(p) THEN NULL ELSE sourceSequences[s]]
    /\ RememberKey(p)
    /\ receipt' = "recent" /\ stale' = FALSE
    /\ JudgeAccepted
    /\ epoch' = IF StartsEpoch(p) THEN <<p>> ELSE Append(epoch, p)
    /\ from' = (IF StartsEpoch(p) THEN p.g - 1 ELSE from)
    /\ gapsBefore' = IF StartsEpoch(p) THEN counts.gaps ELSE gapsBefore
    /\ soakLoss' = (soakLoss \/ Gap(p) > 0)
    /\ UNCHANGED <<connectionState, opens, carried>>

Next ==
    \/ Connect \/ Opened \/ Lost \/ Unmount
    \/ StartSoak \/ ResetSoak \/ TargetTimePasses
    \/ Silence \/ AgeRegistry
    \/ Reject
    \/ \E p \in Packets : Duplicate(p) \/ OutOfOrder(p) \/ Accept(p)

Spec == Init /\ [][Next]_vars

-----------------------------------------------------------------------------
Dispositions == {"ACCEPTED", "SEQUENCE_GAP_ACCEPTED", "SEQUENCE_RESET_ACCEPTED", "STREAM_SWITCH_ACCEPTED",
                 "DUPLICATE_REJECTED", "OUT_OF_ORDER_REJECTED", "REJECTED"}

\* Every variable has its type: the store holds StoreSize events and KeysKept keys at the most.
TypeOK ==
    /\ connectionState \in {"OFFLINE", "CONNECTING", "CONNECTED", "RECONNECTING"}
    /\ activeStreamId \in Streams \cup {NULL} /\ last \in (1..MaxNumber) \cup {NULL}
    /\ sourceSequences \in [Sources -> SourceNumbers \cup {NULL}]
    /\ recentPacketKeys \in Seq(Sources \X SourceNumbers \X (1..MaxNumber)) /\ Len(recentPacketKeys) <= KeysKept
    /\ counts \in [DOMAIN Zero -> Nat]
    /\ eventStore \in Seq([number: Nat, disposition: Dispositions, packet: Packets \cup {NULL}])
    /\ Len(eventStore) <= StoreSize /\ latest \in Nat /\ dropped \in Nat
    /\ receipt \in {NULL, "recent", "old"} /\ stale \in BOOLEAN
    /\ soak \in [target: BOOLEAN, reached: BOOLEAN, verdict: {"IN_PROGRESS", "FAIL", "WARNING", "PASS"}]
    /\ messages \in 0..MaxMessages /\ opens \in 0..MaxOpens
    /\ epoch \in Seq(Packets) /\ from \in 0..MaxNumber /\ gapsBefore \in Nat
    /\ carried \in [resets: Nat, switches: Nat] /\ soakLoss \in BOOLEAN

\* Between a stream switch or a sequence reset and the next one, the packets that update the
\* live state come in the order of their numbers and none comes twice, however they were
\* repeated or delayed, whatever the list of recent keys has forgotten, and although the
\* connection was lost in between.
TakenOnceInOrder ==
    \A i, j \in DOMAIN epoch : i < j => epoch[i].g <= epoch[j].g /\ epoch[i] # epoch[j]

\* sequenceGaps and missedPackets count exactly the numbers that were passed over on this
\* connection, those lost while it was down included.
EveryNumberAccounted ==
    (last # NULL /\ epoch # <<>>) =>
        counts.gaps - gapsBefore =
            Cardinality({n \in (from + 1)..last : \A i \in DOMAIN epoch : epoch[i].g # n})

Refusal == {"DUPLICATE_REJECTED", "OUT_OF_ORDER_REJECTED", "REJECTED"}
AcceptedEvents == {i \in DOMAIN eventStore : eventStore[i].disposition \notin Refusal}
EventsOf(d) == Cardinality({i \in DOMAIN eventStore : eventStore[i].disposition = d})

\* applyReplayEvent: the counters that a replay of the event store begins at zero and ends with.  A
\* gap counts one, whatever its size, which the event only has as text.
Replayed == [duplicates |-> EventsOf("DUPLICATE_REJECTED"), outOfOrder |-> EventsOf("OUT_OF_ORDER_REJECTED"),
             rejected |-> EventsOf("REJECTED"), gaps |-> EventsOf("SEQUENCE_GAP_ACCEPTED"),
             resets |-> EventsOf("SEQUENCE_RESET_ACCEPTED"), switches |-> EventsOf("STREAM_SWITCH_ACCEPTED")]

\* Every message of the connection is an event: those the store no longer holds are the oldest and
\* are counted, and the last accepted one held tells the active stream and its last number.  While
\* none was dropped, each difference between the live counters and the replayed ones
\* (buildLiveVsReplaySummary) has one explanation.  Refusals do not differ.  Resets and stream
\* switches differ by those that the session already had when the connection was made, which
\* resetConnectionStats keeps while it empties the store.  Gaps differ because a replay counts an
\* event once, live its size, and because a gap that came with a source reset is an event of the
\* reset: the replayed gaps are never too many, and no loss is without an event of either kind.
EventsExplainTheCounters ==
    /\ counts.packets + counts.rejected = latest
    /\ dropped + Len(eventStore) = latest
    /\ \A i \in DOMAIN eventStore : eventStore[i].number = dropped + i
    /\ dropped = 0 =>
        /\ counts.duplicates = Replayed.duplicates
        /\ counts.outOfOrder = Replayed.outOfOrder
        /\ counts.rejected = Replayed.rejected
        /\ counts.resets = carried.resets + Replayed.resets
        /\ counts.switches = carried.switches + Replayed.switches
        /\ Replayed.gaps <= counts.gaps
        /\ counts.gaps > 0 => Replayed.gaps > 0 \/ Replayed.resets > 0
    /\ \A newest \in AcceptedEvents :
          (\A i \in AcceptedEvents : i <= newest)
              => eventStore[newest].packet.stream = activeStreamId /\ eventStore[newest].packet.g = last

\* "Live" is only shown on a connection that is up, for a packet accepted on it.
LiveMeansAccepted ==
    ~stale => connectionState = "CONNECTED" /\ receipt # NULL
              /\ counts.packets > counts.duplicates + counts.outOfOrder

\* A soak test that has passed has seen no gap and no rejection on this connection: the packet
\* that shows the loss takes the verdict back.
PassSeesNoLoss == soak.verdict = "PASS" => counts.gaps = 0 /\ counts.rejected = 0

\* "The soak accumulator separately preserves long-run counters": a test that lost packets
\* after it was started does not pass.
SoakRemembersLoss == soak.verdict = "PASS" => ~soakLoss
=============================================================================
