# A TLA+ model of the NOVA supervision console

NOVA SC supervises two ESP32 boards from a Raspberry Pi and a browser. This
directory holds TLA+ modules of the parts whose correctness depends on the order
of events, TLC configurations that check them on small instances, and proofs,
checked by TLAPS, of theorems about them for every value of the constants.

    SUB ESP32 --UART1--> MAIN ESP32 <--UART0--> Pi gateway --WebSocket--> console
                           |  DS3231 clock        |  evidence files         |  store
                                                  |  IPC socket (operator)  |  soak verdict

Contents: [1 the system](#1-the-system), [2 modules](#2-modules-and-the-code-they-stand-for),
[3 runs](#3-runs), [4 fairness](#4-fairness), [5 proofs](#5-proofs),
[6 disagreements](#6-where-code-and-documents-disagree), [7 what is left
out](#7-what-is-not-modelled), [8 plan](#8-plan), [9 running it](#9-running-it).

## 1 The system

`PROJECT.json` lists every part with its status. The parts with a state of their
own, what they do, and what makes them correct:

| part | state | operations | what must hold |
|---|---|---|---|
| SUB firmware (`firmware/sub_esp32`) | millisecond timers, a sequence number, drop counter | one packet per interval, at least 75 ms apart, highest priority first | no kind is early or starves, whatever `millis()` reads; a gap in the numbers is explained by the counters, or by a fault of the line |
| MAIN forwarder (`sub_uart_forwarder.cpp`) | line buffer of 1024 bytes, discard flag, counters | read UART1, pass whole lines on to UART0 | a packet that arrives undamaged is passed on, and only the neighbour of a damaged one may be lost with it |
| MAIN clock request receiver (`rtc_sync_request_parser.cpp`) | line buffer of 512 bytes, discard flag, pending report, ring of 8 session ids | up to 128 bytes per turn of `loop()`; check a line; run a transaction; report | a request acted on is what arrived on one line; no session is acted on twice; every rejected line is reported |
| MAIN DS3231 sync (`ds3231_rtc_sync.cpp`) | the clock's time registers and its oscillator stop flag (OSF) | read status, write seven registers, read back, compare, clear OSF, read status again | OSF is cleared only over a verified time; success means the clock holds the requested time |
| serial bridge and gateway state (`serial_bridge.py`, `gateway_state.py`) | port, status, `global_sequence_number`, malformed count | open, settle, read a line, validate, number, enqueue; write a clock request | every line read becomes one numbered packet or is deliberately skipped; the status does not outlive the port |
| hardware stream manager (`hardware_stream_manager.py`) | source queue, subscribers with bounded queues, health timer | forward a packet to evidence and subscribers; health packet; subscribe; unsubscribe; stop | evidence is the stream in order; a slow client loses its own copy only |
| evidence writer (`evidence_writer.py`) | bounded queue, segment files, segment list, counters, manifest, flags | start, enqueue, write, rotate, flush, stop, finalize | nothing is lost silently; finalized evidence is complete and verifiable |
| offline replay (`evidence_replay.py`) | none: a function of the files | verify a run directory | PASS only for complete evidence |
| replay result loader (`replay_result_loader.py`) | the summary loaded at startup | load, validate | shown PASS belongs to the run it names |
| clock request service (`rtc_sync_ipc.py`, `rtc_sync_service.py`) | send lock, subscription, deadline | trust check, subscribe, write, flush, wait for the matching result, answer | one request at a time; SUCCESS is told only of a request that set the clock; every call is answered |
| telemetry socket (`useTelemetrySocket.ts`) | module-level socket, reconnect and aging timers, session number | mount, unmount, connect, reconnect after 2 s | one socket at a time; a late callback of an old session does nothing |
| telemetry store (`telemetryStore.ts`, `eventStore.ts`) | sequence tracking, keys of recent packets, counters, event store, freshness, soak test | a message, connection changes, aging, soak commands | no packet taken twice or late; counters agree with numbers and events; "live" and "PASS" are earned |
| registries (`deviceRegistry.ts`, `linkRegistry.ts`) | state and age of 13 devices and chips, 3 links | a packet's entries; connection changes; ageing once a second | what is shown is what was last reported, or that the device is silent |
| health check, soak judgement (`healthCheckEngine.ts`, `telemetryStore.ts`) | the soak test's link stability | evaluate a view; judge | a check that passes is about a fleet heard now; the two judge alike |
| replay reducer (`replayReducer.ts`) | none: a function of the event store | rebuild registries, links, anomalies and the check | what passes live also passes when replayed |
| clock evidence (`rtcValidity.ts`) | drift baseline, latest status and sync result | accept a status or a result; derive drift and retention | evidence that is ready is about a time the clock kept; the baseline stands |

How they interact: the SUB and MAIN boards talk in newline-terminated JSON, and a
byte may be lost or altered anywhere. The gateway is one asyncio event loop: a
handler is atomic between two `await`s, and serial calls run in worker threads.
The evidence writer and each subscriber have a bounded queue that the stream
manager fills without waiting. A clock request enters over a local IPC socket, is
written to the serial line while the read loop goes on, and its result comes back
as an ordinary telemetry packet through bridge, manager and a subscriber queue.
The console has one JavaScript thread; every `set()` of the store is atomic, and
socket callbacks and timers interleave between them.

What is hard: two tasks that number packets; a queue that is full; failing file
operations between two documents that vouch for each other; a crash at any point
of that; answers that arrive after the caller gave up; a reset of MAIN in the
middle of an I2C transaction; lines that are too long by one; a console that
reconnects in the middle of a session; components that mount and unmount while sockets
still call back; two clocks that age the same report; a clock that stops between two
samples. `PROJECT.json` lists 40 such hazards, each
at its line, with the properties that would show it going wrong or the reason why
none does yet.

## 2 Modules and the code they stand for

Every definition that stands for code is in the `map` of `PROJECT.json` with its
file and lines. Within a module, names follow the source where TLA+ allows it.

### EvidenceWriter, EvidenceReplay, EvidenceLog

`EvidenceReplay` is `replay_evidence_run` and `inspect_run_finalization_status` as
functions of the three JSON documents and the segment files: the set of failure
reasons is the set of checks that do not hold. A line is the number of its packet,
or TORN; a hash is the content it was computed from, i.e. SHA-256 is taken to be
injective. Lines are counted, as events, malformed or all, by their places: the number of the
file and the place in it (`Places`).

`EvidenceWriter` is `PersistentEvidenceWriter`. Its variables are the queue and the
packet in work, the open segment with its buffered and its written lines, the
segment list, the counters, the three documents on disk and the program counters
of `start`, the task `_run`, and `stop` with `_finalize_run`. An action is what
happens between two suspensions, or between two file operations where a failure in
between matters. File operations fail as `OSError` (segment files: counted in
`error_count`; documents: also swallowed, as in `write_manifest`). `Crash` ends the
process and may leave a torn last line; `PowerLoss` also loses what the system had
buffered. History: `offered`, the packets passed to `enqueue`.

`EvidenceLog` is the abstract specification: packets are offered; at some point
the run may become verified evidence that stands for exactly those packets; after
that it may only be lost. The refinement mapping is in `EvidenceWriter`
(`ImplementsLog`): the evidence is what the segments hold, read place by place
(`DiskStream`), when the replay's verdict on the disk is PASS, else NULL.

### HardwareStream

The bridge's read loop, the manager's loop, and one task per WebSocket client. A
packet is its `global_sequence_number`. The suspensions are those of the code: the
bridge between two lines, the manager while it waits on the source queue, a client
while it waits for or sends a packet. `_broadcast`, which suspends only to take an
uncontended lock, is one step, and so is "number and put". The validator's verdict on a line is a free
choice, and it may raise, of which the read task dies (`ReadRaises`). Stopping is that of `main.py`: bridge first, then manager; what is still
on the source queue stays there.

### RtcSync, RtcSyncContract

The whole way of a clock request: IPC call, lock, trust check, write, flush, wait;
the line to MAIN, whose pieces may be altered or cut; MAIN's line buffer; the DS3231
transaction register access by register access; the result's way back. `Fault`
marks what the environment does wrong, and `MaxFaults` bounds how often. A time is
named by the request that carries it; MIXED is a half-written one, LOST the
state after a loss of supply. `RtcSyncContract` is the operator's view: one open
request, the clock set by requests in their order and at most once each, SUCCESS
only for the request that set it last, a refused request never sets it.

### PiFrameReceiver

`processPiRtcSyncRequests` byte by byte: buffer, discard mode, the report of an
overlong line that is emitted on the next turn, the ring of session ids. A byte is
a carriage return, a newline, or one of two kinds of characters; which id a request
carries is chosen when it is parsed. What a request then does is RtcSync's.

### SubScheduler, SubForwarder, MCFirmware

`SubScheduler` is `TelemetryScheduler::update` of SUB, a call being one step, between calls
of which up to `MaxLag` passes; readings are those of `millis()`, modulo `Wrap`. History: the time since
a packet of each kind, and since any, was emitted, which does not wrap. `TimesAssumption` says that two spells of
silence are shorter than the interval of a heartbeat. With 75 ms of spacing and 500 ms that is
a `MaxLag` below 176 ms: the time a packet takes on both ports (USB, and 115200 baud behind a driver's buffer) has
to stay below that, which the code does not enforce.

`SubForwarder` is the way of a packet from `beginPacket` to `forwardSubTelemetryLine`. A line is made of
pieces: the opening brace, the token of the packet's type, the other tokens MAIN
looks for, filling, the closing brace, the newline; lengths are in pieces. A piece is sent and handled
in one step, because SUB's transmit queue and MAIN's receive buffer only delay. Faults:
a piece is lost (a full receive buffer, a bit error that makes a carriage return), altered or
added, and either board is reset. History: what came since the last newline; how many of the packets short enough
for MAIN were not forwarded whole (`owed`, which may fall below zero for none). A serialization that
returns nothing (`written == 0`) and one that is too long have the same outcome, and the
counters, of 32 bits in the code, do not wrap.

`MCFirmware` runs `PiFrameReceiver`, `SubScheduler` or `SubForwarder`, which share no variable.

### TelemetrySocket, ConnectionContract

`useTelemetrySocket.ts`: an action is one task of the browser's event loop. The socket,
the two timers, the session number and the number of mounted components are the
module's variables; each socket and each timer carries the session its closure was
made in. The network may be lost without the browser noticing (`"dead"`), and a
closed socket still completes its handshake later. `ConnectionContract` is what the
store is promised: in which order it is told of connections and given messages, the
statistics being reset before the first one. These are the connection actions
`TelemetryStore` and `FleetView` start from. StrictMode's double mount is Mount,
Unmount, Mount.

### Registries, HealthRules, FleetReplay, FleetView, MCFleetView

`Registries` has the registries' updates by each kind of packet, ageing and the
global state as operators on an entry `[health, age, pinned]`: the age stands for the
packet's timestamp, and `skew` for the difference of the console's clock, which ages,
and the gateway's, which stamps. `HealthRules` is `evaluateV1PlusHealthCheck`, rule by
rule. `FleetReplay` is `buildReplaySnapshot`: registries, links, anomalies, the replay's clock
and the view its health check is given: a function of the position in the event store, which applies each
accepted event to what those before it made (`ReplayedUpTo`). A packet may be found to come after a gap and to reset
its source's numbers, and its event names one of the two (`Findings`, `AcceptedAs`). `FleetView` is
the store's part of it: connection changes, accepted, ignored and rejected packets, the
ageing timer, which fires once a second or late, and the soak test's start, reset,
link stability and verdict. History: the state each device last reported, and whether
the event store still has what the console shows. `FleetView` starts with the empty console; `MCFleetView`
starts there or just after a whole fleet was heard, and has the packets: those of a fleet that is
well, and for each kind one that says otherwise. `PacketsAssumption` says of packets what the
console's validator lets through: states and statuses are known ones (`IsPacket`), and NULL, which stands
for the packet of an event that has none, is not one of them.

### RtcEvidence, RtcDrift

`RtcEvidence` is `rtcValidity.ts` as operators: the selection of the drift baseline,
the latest sample after it, drift and retention status. `RtcDrift` has the
DS3231, whose oscillator drifts, stops and is set, MAIN's status packets and sync
results as they are accepted, recorded with an anomaly, rejected or lost, and the
store's slice: event store, latest status, latest result, baseline. Which run of the
clock a reading is of (`epoch`) is history. It is assumed that the Pi's clock does not go back
and that a stream lasts as long as its connection: the code's sorting of samples by
timestamp and its checks of stream and source then change nothing. A setting whose
result is lost is kept apart (`unreported`): the console cannot know of it.

### TelemetryStore, MCTelemetryStore

The console's store. Each action is one `set()`: connection changes as
`useTelemetrySocket` makes them, a rejected message, a duplicate, an out-of-order
packet, an accepted one with its disposition, the ageing timer, and the soak
test's start, reset and verdict. The payload is left out; the verdict's view of
the devices and links is chosen anew each time. Time is two predicates: three
seconds have passed without an accepted packet, and the soak target has been
reached. `Packets` are those the gateways may send; `SizesAssumption` says that those
of one stream that share a global number fit in the list of recent keys: a gateway
gives each number to one packet, and the list holds 300.

## 3 Runs

| run | states | what it shows |
|---|---|---|
| `evidence_writer` | 79 thousand | A run the replay passes is complete and in order (`PassMeansComplete`); a stop without failures yields one that passes (`CleanStopVerifies`); a run that the finalization probe calls ready verifies unless errors or drops are counted (`ReadyMeansVerifiable`); a finalized manifest is the last document written (`FinalizedManifestIsLast`); every packet is accounted for (`NoSilentLoss`); `stop()` terminates; writer with replay implement `EvidenceLog`. Deadlock is checked. |
| `hardware_stream` | 1.3 million | What evidence was offered plus the source queue is 1, 2, 3, ... (`EvidenceIsTheStream`); subscribers see an ordered stream, without a gap while their own queue did not overflow (`SlowClientsLoseTheirOwn`); `serial_connected` never outlives a failed read, open or stop (`ConnectedMeansReadable`; it does outlive a read task that died of its validator); health packets keep coming. |
| `rtc_sync` | 112 thousand | The implementation of the contract under every late answer, altered line, failed access and reset; after SUCCESS the clock holds that time until another request or a loss of supply (`LastSyncedTimeStands`); OSF is cleared only over the verified time; every call is answered. |
| `rtc_sync_osf` | | Violation: a failed sync may clear OSF (section 6). |
| `firmware` | 510 thousand | MAIN's receiver: a line that is parsed is what arrived since the last newline (`LineIsText`); no id is acted on twice within the ring's size (`NoRepeatWithinCache`); an overlong line is reported before the next one can be noted, and eventually. SUB's timers: no packet is early, and none late by more than its place in the order explains (`NeverTooSoon`, `NeverTooLate`). MAIN's forwarder: a fault costs two packets at most (`FaultsCostTwo`), and without one the counters of both boards explain every missing number (`NumbersAccounted`). |
| `telemetry_store` | 1.2 million | Within an epoch packets are taken in order and once, although keys are forgotten and connections lost (`TakenOnceInOrder`); `sequenceGaps` is the count of the numbers passed over (`EveryNumberAccounted`); every message is an event, those dropped at the limit are counted, and while none is dropped the counters of a replay differ from the live ones in three known ways only, which section 6 lists (`EventsExplainTheCounters`); live and PASS are earned on this connection. |
| `telemetry_socket` | 1.3 thousand | Only the active socket is opening, open or able to call a handler, and nothing outlives the last component (`OneSession`); the shown state is the socket's (`ShownAsItIs`); the store is told of connections in the contract's order; a mounted console with a gateway in reach connects again and again (`ReconnectsAtLast`). |
| `fleet_view` | 1.4 million | An entry shows what was last reported or, once too old, that the device is silent (`ShownIsReportedOrSilent`); a health check that passes is about a fleet heard now (`PassMeansHeard`), and passes when replayed (`LivePassReplaysAsPass`); a soak test that passed is about a fleet reported well (`PassedFleetIsWell`); the replay of all events tells what was reported, and the anomalies but for a gap whose event names a source reset (`ReplayTellsTheReports`). |
| `rtc_drift` | 2.2 million | Drift and retention evidence that is ready is about one run of the clock, within the tolerances (`ReadyMeansKept`); the baseline stands until another result or connection (`BaselineStands`). |
| `soak_loss` | | Violation: a soak test that lost packets may pass (section 6). |
| `soak_and_health_check` | | Violation: the soak test passes while the health check fails (section 6). |
| `rtc_refusal` | | Violation: a refused clock request is not shown (section 6). |

The names of the runs are those of `PROJECT.json`; each property's comment in its
module states it in words. Every property has a mutant there: a plausible mistake
in one definition, kept next to the definition as an unused operator, with
which TLC finds the property violated.

Bounds. They are CONSTANTS named in the modules, and they are chosen so that each
boundary is passed in every direction.

- `EvidenceWriter`: `QueueSize = 2`, `RotateAt = 2`, `MaxPackets = 3`: the queue
  overflows, one rotation and a second segment happen, with packets before and
  after. `MaxFaults = 2` failing operations: a failure and one in its handling.
- `HardwareStream`: two clients, one of which can be slow; `QueueSize = 2` with five
  packets overflows and recovers; one failing read.
- `RtcSync`: three calls: an abandoned one, one that overlaps its late answer and one
  refused meanwhile. Two faults: each access of the transaction fails alone and with a
  reset or a lost answer.
- `PiFrameReceiver`: buffer 3, 5 bytes per turn (the largest share
  `SizesAssumption` allows; the code's 128 is far below 512 + 2), ring of 2 with three
  ids and five remembered: it wraps twice. Lines of up to twice the buffer.
- `SubScheduler`: intervals 9, 13 and 19 with a spacing of 2 and calls up to 2 apart, `Wrap` 53, from every
  reading: the intervals have no common divisor, so every pair and all three of the kinds become due together, and
  `millis()` wraps between any two of them. The bound of `NeverTooLate` is attained.
- `SubForwarder`: MAIN's buffer holds 8 pieces and SUB's 11; packets of 4 (the
  shortest with all tokens), 9 (too long for MAIN alone) and 10 (too long for SUB, which keeps two bytes). Three packets and
  one fault: the packet damaged, the one it may be joined to, and one to come after them.
- `TelemetryStore`: numbers 1, 2 and 4, so that gaps are of one number or two, with the reset rule at 1 and 2 (5 and 20 in the
  code), two keys kept (300), three events stored (20,000), four messages, two
  connections; `Packets` are all records of two streams, one source and two of its
  numbers: reset, gap with a source reset, switch, forgotten keys, dropped events and a reconnect all
  occur, in every order. Streams are symmetric: no property distinguishes them.
- `TelemetrySocket`: three sockets (one active, two still closing), two components, five
  sessions: mount, unmount and mount again with the first socket's events still to come.
- `FleetView`: from a console that knows nothing and from one that just heard a whole fleet; two packets
  and two turns of the ageing timer, each after a second or after four; skew of a second either way; one
  incident (a lost connection, an ignored or rejected message, a packet with a gap, a source reset or both). The limits of
  ages keep the order of the code's (heartbeats before nodes and rails before chips),
  and four seconds with a skew of one pass each of them but the chips' last, which two turns pass. The event store holds eight events, so
  that a whole fleet fits and is then partly dropped.
- `RtcDrift`: four steps of time, a baseline after one, an observation of two; three stops or
  settings; an event store of two, so that the baseline's sample is dropped while it is in
  use; settings up to two fractions late, beyond the tolerance of the read-back and at that of
  retention. A step has 15 fractions, more than any tolerance, as 30 s exceed the code's 5 s.
  `DRIFT_TIME_NOT_ADVANCING` needs a clock that lost more than it gained with the flag clear, which
  does not occur in this clock.

`CHECK_DEADLOCK FALSE` is set where a run ends because a bound is reached.

## 4 Fairness

- `EvidenceWriter`: weak fairness of the task's steps and of `stop`'s own steps. One
  event loop runs both, and neither is disabled again once it is ready; a file
  operation ends, well or not. `start`, `enqueue` and `stop` are calls that need not come.
- `HardwareStream`: weak fairness of forwarding and of the health packet. The serial line and
  the clients may stall for ever.
- `RtcSync`: weak fairness of the write's and the flush's end and of the time-out.
  The first two are an assumption: the serial port is opened without a write time-out,
  and if the driver blocked, `EveryCallAnswered` would fail. Nothing is assumed of
  MAIN or of the lines.
- `PiFrameReceiver`: `loop()` keeps being called, and a turn ends. A byte need not come. `SubScheduler` and
  `SubForwarder`: none.
- `TelemetrySocket`: the browser runs timers, ends every opening handshake one way or the other,
  completes a close and reports a dead connection at last. The last is the operating system's
  TCP time-out: the hook has no heartbeat of its own, and without that report it would stay
  CONNECTED, shown as stale. The gateway need not close anything.
- `TelemetryStore`, `FleetView`, `RtcDrift`: none; only safety is checked.

## 5 Proofs

Eight modules hold the theorems: `EvidenceWriterProofs`, `RtcSyncProofs`, `FirmwareProofs`,
`HardwareStreamProofs`, `TelemetryStoreProofs`, `TelemetrySocketProofs`, `FleetViewProofs` and
`RtcDriftProofs`. They assume of the constants only what the named ASSUMEs state, and TLC
evaluates these in the runs above. Every safety property that a passing run checks is a theorem,
and so are the three refinements.

| theorem | establishes |
|---|---|
| `EvidenceWriterProofs!TypeCorrect` | `[]TypeOK`; the queue stays within `QueueSize` |
| `EvidenceWriterProofs!NoPacketLostSilently` | `[]NoSilentLoss`: every packet offered to an active writer is written, queued, in work, or counted as dropped or failed |
| `EvidenceWriterProofs!ManifestCommits` | `[]FinalizedManifestIsLast` |
| `EvidenceWriterProofs!PassedRunIsComplete` | `[]PassMeansComplete`: what the replay passes is every packet offered, once and in order |
| `EvidenceWriterProofs!CleanStopIsPassed` | `[]CleanStopVerifies` |
| `EvidenceWriterProofs!ReadyRunIsPassed` | `[]ReadyMeansVerifiable` |
| `EvidenceWriterProofs!WriterImplementsLog` | `ImplementsLog`: writer and replay implement `EvidenceLog` |
| `RtcSyncProofs!SyncTypeCorrect` | `[]TypeOK` |
| `RtcSyncProofs!ConfirmedTimeStands` | `[]LastSyncedTimeStands` |
| `RtcSyncProofs!FlagClearedOverVerifiedTime` | `OsfClearedOnlyVerified` |
| `RtcSyncProofs!SyncImplementsContract` | `ImplementsContract`: the way of a clock request implements `RtcSyncContract` |
| `FirmwareProofs!ReceiverTypeCorrect` | `[]TypeOK`; with it, no byte is stored beyond the buffer |
| `FirmwareProofs!LinesAreWhatArrived` | `[]LineIsText` |
| `FirmwareProofs!NoSessionTwice` | `[]NoRepeatWithinCache` |
| `FirmwareProofs!OverlongEachReported` | `OverlongNotOverwritten` |
| `FirmwareProofs!NoKindStarves` | `[]NeverTooLate`: the delay of each kind of SUB's packets is bounded |
| `FirmwareProofs!NoPacketIsEarly` | `NeverTooSoon` |
| `FirmwareProofs!NoRemainderIsJudged` | `[]JudgedAsArrived`: the end of an overlong line is never taken for a line |
| `FirmwareProofs!AFaultCostsTwo` | `[]FaultsCostTwo` |
| `FirmwareProofs!GapsAreAccounted` | `[]NumbersAccounted` |
| `HardwareStreamProofs!StreamTypeCorrect` | `[]TypeOK` |
| `HardwareStreamProofs!EvidenceInOrder` | `[]EvidenceIsTheStream` |
| `HardwareStreamProofs!OwnLossOnly` | `[]SlowClientsLoseTheirOwn` |
| `HardwareStreamProofs!NeverConnectedInVain` | `[]ConnectedMeansReadable` |
| `TelemetryStoreProofs!NoPacketTwice` | `[]TakenOnceInOrder`: no packet updates the live state twice within an epoch, or after a later one |
| `TelemetryStoreProofs!LiveIsEarned` | `[]LiveMeansAccepted` |
| `TelemetryStoreProofs!PassIsEarned` | `[]PassSeesNoLoss` |
| `TelemetryStoreProofs!GapsAreTheMissedNumbers` | `[]EveryNumberAccounted` |
| `TelemetryStoreProofs!EventsExplainCounters` | `[]EventsExplainTheCounters`: what a replay counts less, or otherwise, than the live view, and nothing else |
| `TelemetryStoreProofs!StoreTypeCorrect` | `[]TypeOK` |
| `TelemetrySocketProofs!OneSocketAtATime` | `[]OneSession` |
| `TelemetrySocketProofs!SocketShown` | `[]ShownAsItIs` |
| `TelemetrySocketProofs!SocketImplementsContract` | `ImplementsConnection`: the socket implements `ConnectionContract` |
| `FleetViewProofs!EntriesShowReportsOrSilence` | `[]ShownIsReportedOrSilent` |
| `FleetViewProofs!PassIsHeard` | `[]PassMeansHeard` |
| `FleetViewProofs!PassedIsWell` | `[]PassedFleetIsWell` |
| `FleetViewProofs!FleetTypeCorrect` | `[]TypeOK` of `FleetView` |
| `FleetViewProofs!ReplayShowsReports` | `[]ReplayTellsTheReports`: what is rebuilt from the events is what was reported, but for a gap told as a source reset |
| `FleetViewProofs!PassReplaysAsPass` | `[]LivePassReplaysAsPass` |
| `RtcDriftProofs!RtcTypeCorrect` | `[]TypeOK`: the event store keeps its bound, and no baseline is half made |
| `RtcDriftProofs!BaselineStandsAlways` | `BaselineStands` |
| `RtcDriftProofs!ReadyMeansKeptAlways` | `[]ReadyMeansKept` |

*Evidence writer.* `IInv` is the conjunction of the types with three relations between
the program counters and the data: which of the task's and `stop`'s states can
coincide, which documents of the final stage exist at which step of it, and that a
manifest whose flags are set is on disk only after that stage's last step. `NoSilentLoss` is
a sum over queue, packet in work, lines and counters; it is inductive given the types
and the first relation. `FinalizedManifestIsLast` needs the second and third: the flags are set in
memory before the documents are written and withdrawn when one fails, so that the
manifest on disk, not the flag, is the commit point.

Why a PASS means a complete run takes more, for the verdict is about files, and the files are written long
before the documents. While no error is counted and the process lives, a step changes files and packets in
one of nine ways (`Calm`), and two more relations hold: the segment records tell the files
(`FilesTell`); and, if nothing was dropped either, files, buffer, packet in work and queue hold 1, 2, 3, ... in
this order (`LinesTell`; that an accepted packet is the next number is `NoSilentLoss` with both
counters at zero). `SealInv` and `DoneInv` carry this through the finalization, and `KeptInv` states
what remains true for ever: the hashes in a run committed without an error or a drop are of files that
held every packet. A disk that agrees with these hashes, as the replay checks, is that of the moment of
commitment, whatever a power loss might have done to it. `InOrderLines` turns "in order" into the sequence
`DiskStream`: the place of a line is its number, by a bijection between 1..n and the places.
`CleanPasses` is the converse: the seventeen checks hold, one by one, after a stop without an error or
a drop. The refinement follows: `FinalizeManifest` is `Seal`, `PowerLoss` on sealed evidence `Lose`, `Enqueue`
`Offer`, everything else stutters (`LogStep`).

*Clock requests.* Five parts next to the types. Requests do not overtake each other on the line, in MAIN's buffer
and in its hands (`LineInv`); all of them are later than what has set the clock (`AppliedInv`); and they
come from calls that were made, not refused, and are no later than the open one (`CallsInv`). So a
result that confirms a request is about one that did set the clock (`ResultInv`), and since the last such one nothing
but a loss of supply has touched the clock (`ClockInv`). The faults of the environment are not bounded.
For the refinement, a call that is answered is one step of the contract and a register write that sets
the clock another; no step of the model is both (`OneSide`).

*Receiver.* `LineInv` adds to the property that the bytes read in this turn exceed the
length of the line under assembly once an overlong line ended in this turn. An overlong
line has at least `MaxFrame + 1` characters and a newline; with `MaxPerLoop <= MaxFrame + 2`
a second one cannot end in the same turn. `CacheInv` says that the ring holds
the last `CacheSize` ids of the history, the write index following its length modulo
`CacheSize`.

*SUB's timers.* `ReadingsAreTimes` says that a remembered reading is the present one less the time
since, modulo `Wrap`; that the times stay below `Wrap` is not assumed but follows from the
bounds to be proved, so types, readings and lateness are one induction (`TimersInv`). A kind that is late was overtaken,
and what overtook it is not due again before it has had its turn: `Overtaken` relates the age of each kind to the
time since the last packet, for each number of kinds before it, and `Settled` says that after a spell of
silence nothing is due but what became due in the last call.

*Forwarder.* The four kinds of fault disturb in many ways and have one thing in common: whatever a byte is, MAIN
owes no more than before (`ByteStep`). `Balance` is a budget of two packets a fault. The first is spent on the packet under way; the
second is kept for the packet that will find a line begun, or be discarded with an overlong one (`owed + 1 <= 2 * faults`
between packets), and is no longer needed once a newline was seen. A packet under way that has come undamaged onto an
empty line is not lost, because its pieces are all of the line (`Undamaged`), so its newline finds a line that is
braced and sane (`WholeLine`). The number of packets and of faults, the lengths of packets and of both buffers are arbitrary.

*Stream.* `TypesInv` adds to the types that only who has a queue is subscribed or has a
packet in work, and that malformed packets are numbered. `EvidenceIsTheStream` is
inductive given the types: a packet is put at the end with the next number, moved from the queue's
head to the evidence's end, or, while the queue is empty, put there directly.
`SlowClientsLoseTheirOwn` is proved in the form `OrderInv`, in which the packets a
client got are compared with positions instead of with the evidence: sending shortens
the sequence at its front, a broadcast extends it with the next number, an
overflow only raises the bound, and by `EvidenceIsTheStream` positions and packets agree.

*Store.* `EpochInv` relates what the store remembers to the epoch's whole history: the
keys kept are those of its last packets, the last number is its last packet's, and numbers
never fall. A packet that is accepted again has the number of the last one, for a lower one is
refused; so every packet since its first acceptance has that number too, all of them are
different, and by `SizesAssumption` they are too few to have pushed its key out of the
list (`FewShareANumber`). `ShownInv` holds the counters' types and that a receipt time
stands for an accepted packet of the open connection. The packets, the limits and the
number of connections are arbitrary.

`GapInv` counts: the gaps since the connection was made are the numbers that are in the epoch's span and in
none of its packets; a packet that jumps adds an interval disjoint from the others (`MissedMore`). `StoreInv`
is about the bounded event store: events are numbered without a hole, the oldest go first and are
counted (`Numbered`), while none has gone they tell the counters (`Tally`), and the last accepted one is the
last packet (`Newest`). `EventsOf` counts by Cardinality of a set of positions, so that one event more or
one less can be reasoned about (`OneMoreEvent`).

*Socket.* `SocketInv` is types, `OneSession` and `ShownAsItIs` together, and inductive as it
stands, but only together: that a reconnect timer which fires finds no socket follows from the shown
state, and that the shown state is the socket's from there being one socket. The refinement maps the store's
two variables to themselves: the first mount and the timer are `Connect`, the last unmount is
`Unmounted`, the events of the current socket are `Opened`, `Message` and `Lost`,
and everything else stutters.

*Fleet.* `DeviceInv` relates each entry to the history: it is of what was last reported, or its age is past the limit
the ageing applied. It is inductive for any skew and lateness, because ageing depends on the entry's age
only. That a packet writes what it reports is proved kind by kind (`AfterPacket`). `LinkInv` has
the types of links and that "live" means a young receipt. `PassIsHeard` takes the rules of the health check that look at nodes,
stream and heartbeats and pairs each with the entry's relation to the history. `SoakInv` says that what the
verdict looked at stands until it is given anew: the verdict is judged in the same `set()` that changes
devices or links. `TypeOK` of `FleetView`, the bound of the event store included, is a theorem.
The theorems are about the empty console; the runs also start from one that has heard a fleet, to reach
the interesting states in few steps.

*Replay.* What the replay makes of an event store is defined by recursion over its positions. Three lemmas
tell how it follows the store: one event more is applied to what was there (`ReplayAppend`), time that passes for all
events passes for the links they made (`ReplayOlder`), and by a later clock heartbeats are younger and all
else is the same (`ReplayYounger`). Each is an induction over positions; it is done with sets,
the least position at which the claim fails being the contradiction (`LeastExists`, `UpTo`), because the library's
induction theorems cannot be instantiated here. That the recursion has a solution at all is
proved in the same way (`ReplayFunction`). `ReplayInv` is the invariant, and TLC checked it before: by a clock that stands
at the present, the replay of a store that has everything is what the console shows, its
heartbeats' ages included (of anomalies, what `Told` says of them), and a gateway report is held only if an accepted event is. The ages are the
strengthening: the live health check reads them, so `PassReplaysAsPass` needs them, and the
property alone does not say that they agree. Devices agree in what was reported, not in their health, which
ageing changes live and not in the replay. For the health check, `PassedRules` and its
companions say what a view that passes is like, `EnoughToPass` which views pass, and
`ReplayViewOf` takes the one to the other; skew enters only in the age of a heartbeat.

*Clock evidence.* Four parts. `TimeInv`: nothing kept is younger than the clock. `RunInv`: after
a synchronisation that succeeded, a sample that is later and has the stop flag clear is of the
same run of the clock, because stopping sets the flag and only a setting clears it. `SessionInv`: the
session's baseline is of the latest result, and there is one whenever the event store has a
stable sample to take it from; so the evidence is measured from it (`EvidenceBaseline`). `BaseInv`: it
was taken after the settling time, and of that run. `ReadyMeansKept` adds the triangle
inequality over the two tolerances. That the least and the last of some samples exist is
proved from well-foundedness (`LeastExists`, `MaxIsIn`).

Left to TLC: the liveness properties (`StopTerminates`, `EveryCallAnswered`, `OverlongReported`,
`HealthKeepsComing`, `ReconnectsAtLast`), because the prover has no ENABLED and no fairness rules. Left to the prover: `TypeOK` of the
evidence writer, the clock requests, the stream, the store, the fleet and the clock evidence, and `JudgedAsArrived`, which no run checks.

## 6 Where code and documents disagree

1. `rtc_sync_osf`. The documents promise that the stop flag stays set on every
   failed write or verification. `performDs3231SessionSync` reads the status once more after it has
   cleared the flag, and reports a failed sync when that read fails: the flag is
   clear by then. The clock does hold the verified time (`OsfClearedOnlyVerified` holds).
2. `soak_loss`. The progress report says that a soak accumulator keeps long-run
   counters apart from the connection's. The verdict is derived from the connection's
   counters, which `resetConnectionStats` sets to zero at a reconnect: a soak test that
   saw a gap before a reconnect may pass after it.
3. `soak_and_health_check`. The same report says that soak verdict and health engine
   describe the run consistently. The soak test learns of a heartbeat's absence from the
   next heartbeat and judges on link states that nobody ages; the health check computes the
   age. When the heartbeats of a UART link stop and other packets arrive, the one passes
   and the other fails at the same moment.
4. `rtc_refusal`. The report's aim is that every attempt to synchronise is observable. MAIN's
   result for a refused request has no fields of a transaction, and the console's
   validator asks for them: the refusal is counted as a malformed packet, fails a soak test, and is
   never shown as a result.

Behaviour the models have that no document speaks against:

- MAIN's forwarder looks for tokens, not for a packet: two packets joined by a lost newline, or one with bytes missing
  between the tokens, are forwarded and counted as forwarded (`sub_uart_forwarder.cpp:104`), and left to the gateway's
  validator. `firmware/main_esp32/README.md:133` says that only complete lines are forwarded, which is true of
  lines, but not of the packets SUB sent.
- SUB's `droppedSerializationCount` and MAIN's counts of forwarded lines are in no packet: `NumbersAccounted` speaks of what the boards
  know, and the console sees gaps only.
- A node that falls silent in FAIL_SAFE is shown DEGRADED until it counts as OFFLINE
  (`deviceRegistry.ts:494`): meanwhile the fail-safe is gone from the global state and a soak test may
  pass again. `PassedFleetIsWell` is stated with this exception.
- The soak verdict is not judged again when the connection is lost, only by packets and the timer.
- With the gateway's clock ahead of the console's, heartbeats look younger live than in the replay;
  `LivePassReplaysAsPass` excludes that. The replay also judges as if the source were a simulator.
- Retention compares the latest status with the latest result in either order: a stop flag read
  before a synchronisation is reported as reasserted after it (`rtcValidity.ts:547`).
- A status that was accepted after a gap is seen by retention but not by the drift.
- A request may be ten seconds old when it sets the clock; its read-back is compared with the
  request, so the synchronisation succeeds and the baseline is then found unstable.
- A failed synchronisation replaces the evidence of the last one that succeeded.
- Ready drift evidence falls back to pending when its samples are dropped from the event store.
- Live and replayed counters, which `buildLiveVsReplaySummary` compares, differ although no event was dropped:
  - a gap counts its size live (`telemetryStore.ts:869`) and one per event in the replay
    (`replayReducer.ts:339`), which says so itself (`replayReducer.ts:504`);
  - a packet after a gap that also resets its source's numbers counts as both live (`telemetryStore.ts:872`), while its event
    names the reset only (`telemetryStore.ts:1032`): the replay has no gap, in its counters nor in its health check;
  - after a reconnect, resets and stream switches of before are still counted live, for `resetConnectionStats`
    (`telemetryStore.ts:446`) keeps these two and empties the event store.
- A read task that died of an exception in the validator leaves `serial_connected` set, and its exception comes up again
  in `stop()` (`serial_bridge.py:60`): `shutdown()` then stops neither the stream manager nor the evidence
  writer (`main.py:198`), and the run directory stays without its final documents.
- What `ingestPacket` might throw is caught by the `try` of `ingestionPipeline.ts` and recorded as
  invalid JSON.

## 7 What is not modelled

- Packet validators of backend and console (but for sync results), builders of packets and reports, the
  user interface (but for the view of the health check), peripheral reads, developer scripts: tables of checks, formatting
  or rendering without a state that outlives a call. Where a modelled part consults one, its answer is a free choice.
- `evaluateV1HealthCheck` and its rules, which nothing calls; `deriveRtcValidity`, a table over one status.
- Within modelled parts: time stamps, identifiers, log texts, diagnostics, and payloads that no
  registry or rule reads.
- The replay's packet rate: it is positive as soon as a packet was accepted, while `estimatePacketRateHz`, which
  rounds to two decimals, gives 0 for packets more than 200 seconds apart on average.
- Calendar and BCD arithmetic of the DS3231 code.
- The simulator: packet builders around one counter, which all its clients share.
- The parts of section 8 that are still to come.

## 8 Plan

Written so far, in this order: `EvidenceWriter` with `EvidenceReplay` and
`EvidenceLog`; `RtcSync` with its contract; `PiFrameReceiver`; `HardwareStream`;
`TelemetryStore`; `TelemetrySocket` with its contract; `FleetView` with `Registries`,
`HealthRules` and `FleetReplay`; `RtcDrift` with `RtcEvidence`; `SubScheduler` and `SubForwarder`; their proofs. To come:

1. MAIN's scheduler, which has six kinds of packets, no spacing and a status to be sent after a clock request.
2. `Gateway`: `HardwareStream` composed with the evidence writer: what a passing replay
   says about the stream, and what shutdown leaves behind.
3. `ReplayLoader` and `PiTimeTrust`: verdicts as functions, against declarative definitions.

## 9 Running it

`tlc -config EvidenceWriter.cfg EvidenceWriter` and likewise for the other runs
(module and configuration of each are in `PROJECT.json`; the largest takes two to
three minutes); `tlapm EvidenceWriterProofs.tla` and likewise for the other proof modules.
