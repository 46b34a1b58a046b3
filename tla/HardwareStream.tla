--------------------------- MODULE HardwareStream ---------------------------
(***************************************************************************)
(* The gateway in hardware mode: the serial bridge turns lines from MAIN   *)
(* into numbered packets on one queue, the stream manager hands each of    *)
(* them to the evidence writer and to every subscriber, and fills pauses   *)
(* with its own health packets.  Everything here runs on one event loop; a *)
(* step is what happens between two suspensions.  A packet is its          *)
(* global_sequence_number.                                                 *)
(***************************************************************************)
EXTENDS Naturals, Sequences

CONSTANTS
    Clients,     \* subscribers: WebSocket clients and clock requests
    QueueSize,   \* subscriber_queue_size
    MaxSeq,      \* bound: packets
    MaxFailures, \* bound: failing serial reads
    NULL

ASSUME SizesAssumption == QueueSize \in Nat \ {0} /\ MaxSeq \in Nat /\ MaxFailures \in Nat

\* NULL is no packet and no queue.
ASSUME NullAssumption == NULL \notin Nat /\ NULL \notin Seq(Nat)

VARIABLES
    bridge,      \* where SerialBridge._run is
    failures,    \* failing reads so far
    status,      \* bridge_status
    connected,   \* serial_connected
    hardware,    \* a packet of MAIN or SUB has been seen
    malformed,   \* malformed_packet_count
    gsn,         \* global_sequence_number
    source,      \* hardware_packet_queue
    manager,     \* HardwareStreamManager: "running" or "stopped"
    healthDue,   \* next_gateway_health_at has passed
    evidence,    \* what was offered to PersistentEvidenceWriter.enqueue, in order
    subscribers, \* the manager's set
    queue,       \* the subscriber's queue, NULL before it subscribes
    sending,     \* the packet its task is sending, or NULL
    sent,        \* history: the last packet it was sent; 0: none
    lossy        \* history: its queue overflowed

state == <<status, connected, hardware, malformed>>
clients == <<subscribers, queue, sending, sent, lossy>>
vars == <<bridge, failures, state, gsn, source, manager, healthDue, evidence, clients>>

Init ==
    /\ bridge = "starting" /\ failures = 0
    /\ status = "DISABLED" /\ connected = FALSE /\ hardware = FALSE /\ malformed = 0
    /\ gsn = 0 /\ source = <<>>
    /\ manager = "running" /\ healthDue = TRUE /\ evidence = <<>>
    /\ subscribers = {} /\ queue = [c \in Clients |-> NULL] /\ sending = [c \in Clients |-> NULL]
    /\ sent = [c \in Clients |-> 0] /\ lossy = [c \in Clients |-> FALSE]

SetStatus(s, up) == status' = s /\ connected' = up

(***************************************************************************)
(* SerialBridge._run.                                                      *)
(***************************************************************************)
Open ==
    /\ bridge = "starting"
    /\ bridge' = "settling" /\ SetStatus("SERIAL_CONNECTED", TRUE)
    /\ UNCHANGED <<failures, hardware, malformed, gsn, source, manager, healthDue, evidence, clients>>

\* No port configured, no driver, or the port does not open: the task returns for good.
OpenFails ==
    /\ bridge = "starting"
    /\ bridge' = "returned" /\ SetStatus("SERIAL_OPEN_FAILED", FALSE)
    /\ UNCHANGED <<failures, hardware, malformed, gsn, source, manager, healthDue, evidence, clients>>

\* _prepare_serial_stream drops what had arrived before; its errors are swallowed.
Settle ==
    /\ bridge = "settling"
    /\ bridge' = "reading"
    /\ UNCHANGED <<failures, state, gsn, source, manager, healthDue, evidence, clients>>

\* The next global_sequence_number, put on the queue before the task is suspended again.
Put ==
    /\ gsn < MaxSeq
    /\ gsn' = gsn + 1
    /\ source' = Append(source, gsn + 1)

ReadNothing ==
    /\ bridge = "reading"
    /\ IF hardware THEN UNCHANGED <<status, connected>> ELSE SetStatus("WAITING_FOR_HARDWARE_PACKETS", TRUE)
    /\ UNCHANGED <<bridge, failures, hardware, malformed, gsn, source, manager, healthDue, evidence, clients>>

\* _emit_rejection: the rejection is counted and put on the queue as an integrity packet.
EmitRejection == Put /\ malformed' = malformed + 1

\* A line that is no packet.  (A fragment of a line within STARTUP_GRACE_SECONDS is skipped
\* instead, which changes nothing here.)
ReadRejected ==
    /\ bridge = "reading"
    /\ EmitRejection
    /\ UNCHANGED <<bridge, failures, status, connected, hardware, manager, healthDue, evidence, clients>>

\* The validator raises on a line (a packet_type that cannot be looked up in its table): the
\* task dies of it, with the status as it was.
ReadRaises ==
    /\ bridge = "reading"
    /\ bridge' = "dead"
    /\ UNCHANGED <<failures, state, gsn, source, manager, healthDue, evidence, clients>>

ReadPacket ==
    /\ bridge = "reading"
    /\ Put
    /\ hardware' = TRUE /\ SetStatus("SERIAL_CONNECTED", TRUE)
    /\ UNCHANGED <<bridge, failures, malformed, manager, healthDue, evidence, clients>>

\* The failure is reported as a packet only.
ReadFailsQuietly ==
    /\ bridge = "reading" /\ failures < MaxFailures
    /\ failures' = failures + 1
    /\ Put
    /\ bridge' = "pausing"
    /\ UNCHANGED <<status, connected, hardware, malformed, manager, healthDue, evidence, clients>>

\* readline() raises: an integrity packet, and a second's pause.
ReadFails ==
    /\ bridge = "reading" /\ failures < MaxFailures
    /\ failures' = failures + 1
    /\ Put
    /\ SetStatus("SERIAL_READ_FAILED", FALSE)
    /\ bridge' = "pausing"
    /\ UNCHANGED <<hardware, malformed, manager, healthDue, evidence, clients>>

Resume ==
    /\ bridge = "pausing"
    /\ bridge' = "reading"
    /\ UNCHANGED <<failures, state, gsn, source, manager, healthDue, evidence, clients>>

\* stop(): a line in work is lost, what was put stays on the queue.  Awaiting a task that died
\* raises its exception again: nothing is closed, and shutdown() stops nothing after it.
StopBridge ==
    /\ bridge \notin {"dead", "stopped"}
    /\ bridge' = "stopped" /\ SetStatus("STOPPED", FALSE)
    /\ UNCHANGED <<failures, hardware, malformed, gsn, source, manager, healthDue, evidence, clients>>

(***************************************************************************)
(* HardwareStreamManager._run.                                             *)
(***************************************************************************)
HasRoom(c) == Len(queue[c]) < QueueSize

\* A full queue is found before anything is put: then nobody gets the packet.
BroadcastStopsAtFull(n) ==
    LET all == \A c \in subscribers : HasRoom(c) IN
    /\ queue' = [c \in Clients |-> IF c \in subscribers /\ all THEN Append(queue[c], n) ELSE queue[c]]
    /\ lossy' = [c \in Clients |-> lossy[c] \/ (c \in subscribers /\ ~HasRoom(c))]
    /\ UNCHANGED <<subscribers, sending, sent>>

\* put_nowait to every subscriber; one whose queue is full misses this packet.
Broadcast(n) ==
    /\ queue' = [c \in Clients |-> IF c \in subscribers /\ HasRoom(c) THEN Append(queue[c], n) ELSE queue[c]]
    /\ lossy' = [c \in Clients |-> lossy[c] \/ (c \in subscribers /\ ~HasRoom(c))]
    /\ UNCHANGED <<subscribers, sending, sent>>

Publish(n) == evidence' = Append(evidence, n) /\ Broadcast(n)

\* The health packet is looked at first.
ForwardPacketAfterHealth ==
    /\ manager = "running" /\ source # <<>> /\ ~healthDue
    /\ source' = Tail(source)
    /\ Publish(Head(source))
    /\ UNCHANGED <<bridge, failures, state, gsn, manager, healthDue>>

ForwardPacket ==
    /\ manager = "running" /\ source # <<>>
    /\ source' = Tail(source)
    /\ Publish(Head(source))
    /\ UNCHANGED <<bridge, failures, state, gsn, manager, healthDue>>

\* Health packets by the clock alone.
QueueIgnored == TRUE

QueueIdle == source = <<>>

\* Only when the queue was found empty; numbered and published without a suspension between.
SendHealth ==
    /\ manager = "running" /\ healthDue /\ QueueIdle
    /\ gsn < MaxSeq
    /\ gsn' = gsn + 1
    /\ Publish(gsn + 1)
    /\ healthDue' = FALSE
    /\ UNCHANGED <<bridge, failures, state, source, manager>>

HealthTimer ==
    /\ manager = "running" /\ ~healthDue
    /\ healthDue' = TRUE
    /\ UNCHANGED <<bridge, failures, state, gsn, source, manager, evidence, clients>>

\* After the bridge; what is still queued is not forwarded.
StopManager ==
    /\ bridge = "stopped" /\ manager = "running"
    /\ manager' = "stopped"
    /\ subscribers' = {}
    /\ UNCHANGED <<bridge, failures, state, gsn, source, healthDue, evidence, queue, sending, sent, lossy>>

(***************************************************************************)
(* stream_hardware_packets, one task per WebSocket client.                 *)
(***************************************************************************)
Subscribe(c) ==
    /\ queue[c] = NULL
    /\ subscribers' = subscribers \cup {c}
    /\ queue' = [queue EXCEPT ![c] = <<>>]
    /\ UNCHANGED <<bridge, failures, state, gsn, source, manager, healthDue, evidence, sending, sent, lossy>>

StartSend(c) ==
    /\ queue[c] # NULL /\ queue[c] # <<>> /\ sending[c] = NULL
    /\ sending' = [sending EXCEPT ![c] = Head(queue[c])]
    /\ queue' = [queue EXCEPT ![c] = Tail(@)]
    /\ UNCHANGED <<bridge, failures, state, gsn, source, manager, healthDue, evidence, subscribers, sent, lossy>>

EndSend(c) ==
    /\ sending[c] # NULL
    /\ sent' = [sent EXCEPT ![c] = sending[c]]
    /\ sending' = [sending EXCEPT ![c] = NULL]
    /\ UNCHANGED <<bridge, failures, state, gsn, source, manager, healthDue, evidence, subscribers, queue, lossy>>

\* The client is gone, which shows when something is sent to it.
Unsubscribe(c) ==
    /\ sending[c] # NULL
    /\ subscribers' = subscribers \ {c}
    /\ queue' = [queue EXCEPT ![c] = NULL]
    /\ sending' = [sending EXCEPT ![c] = NULL]
    /\ sent' = [sent EXCEPT ![c] = 0] /\ lossy' = [lossy EXCEPT ![c] = FALSE]
    /\ UNCHANGED <<bridge, failures, state, gsn, source, manager, healthDue, evidence>>

Bridge ==
    \/ Open \/ OpenFails \/ Settle
    \/ ReadNothing \/ ReadRejected \/ ReadRaises \/ ReadPacket \/ ReadFails \/ Resume \/ StopBridge

Manager == ForwardPacket \/ SendHealth \/ HealthTimer \/ StopManager

Client(c) == Subscribe(c) \/ StartSend(c) \/ EndSend(c) \/ Unsubscribe(c)

Next == Bridge \/ Manager \/ \E c \in Clients : Client(c)

\* The event loop runs the manager's task.  Clients and the serial line may stall for ever.
Fairness == WF_vars(ForwardPacket) /\ WF_vars(SendHealth)

Spec == Init /\ [][Next]_vars /\ Fairness

(***************************************************************************)
(* Properties.                                                             *)
(***************************************************************************)
Packets == 1..MaxSeq

\* Every variable keeps its type, and no subscriber queue exceeds its limit.
TypeOK ==
    /\ bridge \in {"starting", "settling", "reading", "pausing", "returned", "dead", "stopped"}
    /\ failures \in 0..MaxFailures
    /\ status \in {"DISABLED", "SERIAL_CONNECTED", "SERIAL_OPEN_FAILED", "WAITING_FOR_HARDWARE_PACKETS",
                   "SERIAL_READ_FAILED", "STOPPED"}
    /\ connected \in BOOLEAN /\ hardware \in BOOLEAN /\ malformed \in 0..MaxSeq
    /\ gsn \in 0..MaxSeq /\ source \in Seq(Packets) /\ evidence \in Seq(Packets)
    /\ manager \in {"running", "stopped"} /\ healthDue \in BOOLEAN
    /\ subscribers \subseteq Clients
    /\ queue \in [Clients -> {NULL} \cup Seq(Packets)]
    /\ \A c \in Clients : queue[c] # NULL => Len(queue[c]) <= QueueSize
    /\ sending \in [Clients -> {NULL} \cup Packets] /\ sent \in [Clients -> 0..MaxSeq]
    /\ lossy \in [Clients -> BOOLEAN]

\* The numbers say the order: what the evidence writer was offered, followed by what is still
\* queued, is the stream from its first packet on, none missing, none twice, although two
\* tasks number packets (gateway_state.py next_global_sequence, HardwareStreamManager._run).
EvidenceIsTheStream == evidence \o source = [i \in 1..gsn |-> i]

\* "Slow clients lose their own copy only" (hardware_stream_manager.py _broadcast): what a
\* subscriber was sent last, is being sent and has queued is in the order of the stream, and
\* as long as its own queue has not overflowed it is the stream's end, whatever the others do.
Got(c) == (IF sent[c] = 0 THEN <<>> ELSE <<sent[c]>>)
          \o (IF sending[c] = NULL THEN <<>> ELSE <<sending[c]>>) \o queue[c]

SlowClientsLoseTheirOwn ==
    \A c \in subscribers :
        /\ \A i, j \in DOMAIN Got(c) : i < j => Got(c)[i] < Got(c)[j]
        /\ ~lossy[c] =>
             Got(c) = SubSeq(evidence, Len(evidence) - Len(Got(c)) + 1, Len(evidence))

\* serial_connected, on which a clock request depends, is never left over from before a failed
\* read or a stop (SerialBridge._run, stop).  A task that died of its validator is the one
\* exception: nothing resets the status then.
ConnectedMeansReadable == connected => bridge \in {"settling", "reading", "dead"}

\* Health packets keep coming while the manager runs, although queued packets always go first:
\* the manager empties the queue without suspending itself, so what it finds there is finite.
HealthKeepsComing ==
    (manager = "running" /\ healthDue) ~> (~healthDue \/ manager = "stopped" \/ gsn = MaxSeq)
=============================================================================
