------------------------------- MODULE RtcSync -------------------------------
(***************************************************************************)
(* One-shot setting of the DS3231 clock: the operator's IPC call, the      *)
(* backend's send-and-wait, the serial line to MAIN, MAIN's line reader    *)
(* and I2C transaction, and the result telemetry on its way back.          *)
(*                                                                         *)
(* Call number i carries session i: session ids are fresh UUIDs, so MAIN's *)
(* duplicate cache never fires here (PiFrameReceiver is about it).  A time *)
(* is named by the session that carries it.  Reads over I2C are either     *)
(* reported as failed or correct.                                          *)
(***************************************************************************)
EXTENDS Naturals, Sequences

CONSTANTS MaxCalls,      \* bound: IPC calls made
          MaxFaults,     \* bound: faults of line, bus, power and queues
          NULL, MIXED, LOST

ASSUME BoundsAssumption == MaxCalls \in Nat /\ MaxFaults \in Nat

VARIABLES
    reply,      \* reply[i]: what the IPC caller number i was told
    phase,      \* where the holder of the IPC send lock is; "idle": unlocked
    cur,        \* its session_sync_id, NULL when the lock is free
    inbox,      \* its subscriber queue, NULL when not subscribed
    up,         \* what is on its way to MAIN: pieces of lines, in order
    pc,         \* where MAIN's loop is in the DS3231 transaction
    job,        \* the request MAIN carries out
    pending,    \* MAIN's line buffer: a piece still without newline, or NULL
    osfBefore,  \* result.osf_before
    rtc,        \* whose time the DS3231 holds: a session, or MIXED or LOST
    osf,        \* its oscillator stop flag
    applied,    \* history: sessions whose time reached the time registers
    down,       \* RTC_SYNC_RESULT packets on their way back, in order
    faults      \* faults so far

backend == <<reply, phase, cur, inbox>>
device == <<rtc, osf, applied>>
main == <<pc, job, pending, osfBefore>>
vars == <<backend, device, main, up, down, faults>>

Replies == {"PENDING", "RTC_SYNC_ALREADY_ACTIVE", "PI_TIME_UNTRUSTED", "NOT_CONNECTED",
            "WRITE_FAILED", "RTC_SYNC_RESULT_TIMEOUT", "RTC_SYNC_RESULT_REJECTED", "SUCCESS"}

Sessions == 1..MaxCalls

\* A piece of a line: a whole request, one with a field MAIN rejects, one whose session id
\* was altered into another valid one, or text that is no request; with or without newline.
Texts == {"frame", "badfield", "ghost", "broken"}
Piece == [sess : Sessions, text : Texts, nl : BOOLEAN]
PieceOf(c, t, nl) == [sess |-> c, text |-> t, nl |-> nl]
Frame(c) == PieceOf(c, "frame", TRUE)

Result == [id : Sessions \cup {NULL}, ok : BOOLEAN]

ASSUME NullAssumption == NULL \notin Nat /\ NULL \notin Piece /\ NULL \notin Seq(Result)


Fault == faults < MaxFaults /\ faults' = faults + 1
NoFault == UNCHANGED faults

Init ==
    /\ reply = <<>> /\ phase = "idle" /\ cur = NULL /\ inbox = NULL
    /\ up = <<>> /\ down = <<>>
    /\ pc = "loop" /\ job = NULL /\ pending = NULL /\ osfBefore = FALSE
    /\ rtc = LOST /\ osf = TRUE /\ applied = <<>>
    /\ faults = 0

(***************************************************************************)
(* The backend.  One asyncio task per IPC connection; the lock test and    *)
(* its acquisition have no await between them.                             *)
(***************************************************************************)
\* The answer to the caller; the `finally` unsubscribes, and the lock is released.
Finish(r) ==
    /\ reply' = [reply EXCEPT ![cur] = r]
    /\ phase' = "idle" /\ cur' = NULL /\ inbox' = NULL

CallRefused(reason) ==
    /\ Len(reply) < MaxCalls
    /\ IF phase = "idle" THEN reason \in {"PI_TIME_UNTRUSTED", "NOT_CONNECTED"}
                         ELSE reason = "RTC_SYNC_ALREADY_ACTIVE"
    /\ reply' = Append(reply, reason)
    /\ UNCHANGED <<phase, cur, inbox, device, main, up, down, faults>>

\* Trusted time, connected bridge: subscribe first, then write.
CallAccepted ==
    /\ Len(reply) < MaxCalls
    /\ phase = "idle"
    /\ reply' = Append(reply, "PENDING")
    /\ cur' = Len(reply) + 1
    /\ phase' = "write" /\ inbox' = <<>>
    /\ UNCHANGED <<device, main, up, down, faults>>

WriteDone ==
    /\ phase = "write"
    /\ up' = Append(up, Frame(cur))
    /\ phase' = "flush"
    /\ UNCHANGED <<reply, cur, inbox, device, main, down, faults>>

\* write() raises or comes back short: nothing, a prefix, or all but the newline left.
WriteFails ==
    /\ phase = "write" /\ Fault
    /\ up' \in {up} \cup {Append(up, PieceOf(cur, t, FALSE)) : t \in {"frame", "broken"}}
    /\ Finish("WRITE_FAILED")
    /\ UNCHANGED <<device, main, down>>

FlushDone ==
    /\ phase = "flush"
    /\ phase' = "wait"
    /\ UNCHANGED <<reply, cur, inbox, device, main, up, down, faults>>

FlushFails ==
    /\ phase = "flush" /\ Fault
    /\ Finish("WRITE_FAILED")
    /\ UNCHANGED <<device, main, up, down>>

\* The event type alone.
MatchesAny(result) == TRUE

\* _matches_rtc_sync_result.
Matches(result) == result.id = cur

\* The next packet of the subscriber queue; those of other sessions are skipped.
WaitResult ==
    /\ phase = "wait" /\ inbox # <<>>
    /\ LET result == Head(inbox) IN
         \/ /\ Matches(result)
            /\ Finish(IF result.ok THEN "SUCCESS" ELSE "RTC_SYNC_RESULT_REJECTED")
         \/ /\ ~Matches(result)
            /\ inbox' = Tail(inbox)
            /\ UNCHANGED <<reply, phase, cur>>
    /\ UNCHANGED <<device, main, up, down, faults>>

\* A deadline that is only looked at when a packet has come.
WaitTimeoutOnPacket ==
    /\ phase = "wait" /\ inbox # <<>>
    /\ Finish("RTC_SYNC_RESULT_TIMEOUT")
    /\ UNCHANGED <<device, main, up, down, faults>>

\* The deadline covers the whole wait: it may pass with packets still queued.
WaitTimeout ==
    /\ phase = "wait"
    /\ Finish("RTC_SYNC_RESULT_TIMEOUT")
    /\ UNCHANGED <<device, main, up, down, faults>>

(***************************************************************************)
(* The lines.  A result that MAIN emitted reaches the subscriber queue, or *)
(* is lost: serialisation buffer, UART, bridge validation, full queue.     *)
(***************************************************************************)
Deliver ==
    /\ down # <<>>
    /\ down' = Tail(down)
    /\ inbox' = IF inbox = NULL THEN NULL ELSE Append(inbox, Head(down))
    /\ UNCHANGED <<reply, phase, cur, device, main, up, faults>>

LoseResult ==
    /\ down # <<>> /\ Fault
    /\ down' = Tail(down)
    /\ UNCHANGED <<backend, device, main, up>>

\* Bytes altered or lost before MAIN reads them (MAIN's 256-byte receive buffer included).
Garble ==
    /\ up # <<>> /\ Fault
    /\ \E t \in Texts, nl \in BOOLEAN :
         /\ up[1].text = "frame" \/ t = "broken"
         /\ up[1].nl \/ ~nl
         /\ up' = [up EXCEPT ![1] = PieceOf(@.sess, t, nl)]
    /\ UNCHANGED <<backend, device, main, down>>

(***************************************************************************)
(* MAIN.  One loop; a request is carried out to its end before the next    *)
(* byte is read.                                                           *)
(***************************************************************************)
Emit(id, ok) ==
    /\ down' = Append(down, [id |-> id, ok |-> ok])
    /\ pc' = "loop" /\ job' = NULL

\* What piece h makes together with what the line buffer already holds.  ArduinoJson takes
\* the first object of a line and ignores what follows it; two requests exceed 512 bytes.
Joined(h) ==
    IF pending = NULL THEN {h}
    ELSE {PieceOf(h.sess, "broken", h.nl)}
         \cup (IF h.text = "broken" THEN {PieceOf(pending.sess, pending.text, h.nl)} ELSE {})

ReadPiece ==
    /\ pc = "loop" /\ up # <<>> /\ ~Head(up).nl
    /\ pending' \in Joined(Head(up))
    /\ up' = Tail(up)
    /\ UNCHANGED <<backend, device, pc, job, osfBefore, down, faults>>

\* A line that is no request this code carries out: a REJECTED result, with the session id
\* when the line was rejected after that field.
RejectLine(line) ==
    /\ line.text \in {"broken", "badfield"}
    /\ Emit(IF line.text = "badfield" THEN line.sess ELSE NULL, FALSE)

StartJob(line) ==
    /\ line.text \in {"frame", "ghost"}
    /\ pc' = "status" /\ job' = line
    /\ UNCHANGED down

ReadLine ==
    /\ pc = "loop" /\ up # <<>> /\ Head(up).nl
    /\ \E line \in Joined(Head(up)) : RejectLine(line) \/ StartJob(line)
    /\ up' = Tail(up)
    /\ pending' = NULL
    /\ UNCHANGED <<backend, device, osfBefore, faults>>

JobId == IF job.text = "ghost" THEN NULL ELSE job.sess

\* An I2C access of step p that fails before it changed anything ends the transaction.
AccessFails(p) ==
    /\ pc = p /\ Fault
    /\ Emit(JobId, FALSE)
    /\ UNCHANGED <<backend, device, pending, osfBefore, up>>

\* The flag cleared before the time is written and read back.
ReadStatusAndClear ==
    /\ pc = "status"
    /\ osfBefore' = osf
    /\ osf' = FALSE
    /\ pc' = "time"
    /\ UNCHANGED <<backend, rtc, applied, job, pending, up, down, faults>>

ReadStatus ==
    /\ pc = "status"
    /\ osfBefore' = osf
    /\ pc' = "time"
    /\ UNCHANGED <<backend, device, job, pending, up, down, faults>>

TimeWritten(time) ==
    /\ rtc' = time
    /\ applied' = Append(applied, job.sess)
    /\ UNCHANGED osf

\* The device acknowledges the seven registers.
WriteTime ==
    /\ pc = "time"
    /\ \/ NoFault /\ TimeWritten(job.sess)
       \/ Fault /\ TimeWritten(MIXED)
    /\ pc' = "readback"
    /\ UNCHANGED <<backend, job, pending, osfBefore, up, down>>

\* endTransmission() reports an error after some or all of the bytes took effect.
WriteTimeFails ==
    /\ pc = "time" /\ Fault
    /\ \E time \in {job.sess, MIXED} : TimeWritten(time)
    /\ Emit(JobId, FALSE)
    /\ UNCHANGED <<backend, pending, osfBefore, up>>

\* The readback is not compared.
ReadbackIgnored == TRUE

\* The readback differs from the requested time by at most two seconds.
ReadbackAgrees == rtc = job.sess

Readback ==
    /\ pc = "readback"
    /\ \/ ReadbackAgrees /\ pc' = "clear" /\ UNCHANGED <<job, down>>
       \/ ~ReadbackAgrees /\ Emit(JobId, FALSE)
    /\ UNCHANGED <<backend, device, pending, osfBefore, up, faults>>

\* The status write is acknowledged; it may not have taken effect.
ClearOsf ==
    /\ pc = "clear"
    /\ \/ NoFault /\ osf' = FALSE
       \/ Fault /\ UNCHANGED osf
    /\ pc' = "reread"
    /\ UNCHANGED <<backend, rtc, applied, job, pending, osfBefore, up, down>>

\* The status write is reported as failed although it took effect.
ClearOsfFails ==
    /\ pc = "clear" /\ Fault
    /\ osf' = FALSE
    /\ Emit(JobId, FALSE)
    /\ UNCHANGED <<backend, rtc, applied, pending, osfBefore, up>>

Reread ==
    /\ pc = "reread"
    /\ Emit(JobId, ~osf)
    /\ UNCHANGED <<backend, device, pending, osfBefore, up, faults>>

\* A reset loses RAM and at least the front of what is being received; it may cut a time
\* write short, and with the clock's supply lost too the oscillator stops.
MainReset ==
    /\ Fault
    /\ pc' = "loop" /\ job' = NULL /\ pending' = NULL /\ osfBefore' = FALSE
    /\ up' \in {up} \cup (IF up = <<>> THEN {}
                          ELSE {Tail(up), [up EXCEPT ![1] = PieceOf(@.sess, "broken", @.nl)]})
    /\ \/ UNCHANGED device
       \/ pc = "time" /\ TimeWritten(MIXED)
       \/ rtc' = LOST /\ osf' = TRUE /\ UNCHANGED applied
    /\ UNCHANGED <<backend, down>>

SendOnce == WriteDone \/ WriteFails \/ FlushDone \/ FlushFails \/ WaitResult \/ WaitTimeout

Transaction ==
    \/ \E p \in {"status", "time", "readback", "clear", "reread"} : AccessFails(p)
    \/ ReadStatus \/ WriteTime \/ WriteTimeFails \/ Readback
    \/ ClearOsf \/ ClearOsfFails \/ Reread

Next ==
    \/ \E reason \in Replies : CallRefused(reason)
    \/ CallAccepted
    \/ SendOnce
    \/ Deliver \/ LoseResult \/ Garble
    \/ ReadPiece \/ ReadLine \/ Transaction \/ MainReset

\* The event loop runs the task that holds the lock: the serial port accepts the bytes, the
\* timer fires.  Nothing is assumed of MAIN or of the line.
Fairness ==
    /\ WF_vars(WriteDone) /\ WF_vars(FlushDone) /\ WF_vars(WaitTimeout)

Spec == Init /\ [][Next]_vars /\ Fairness

(***************************************************************************)
(* Properties.                                                             *)
(***************************************************************************)
CallType ==
    /\ reply \in Seq(Replies) /\ Len(reply) <= MaxCalls
    /\ phase \in {"idle", "write", "flush", "wait"}
    /\ (phase = "idle") <=> (cur = NULL)
    /\ (phase = "idle") <=> (inbox = NULL)
    /\ cur # NULL => cur \in DOMAIN reply /\ reply[cur] = "PENDING"
    /\ inbox # NULL => inbox \in Seq(Result)
LineType == up \in Seq(Piece) /\ down \in Seq(Result) /\ faults \in 0..MaxFaults
MainType ==
    /\ pc \in {"loop", "status", "time", "readback", "clear", "reread"}
    /\ pending \in Piece \cup {NULL} /\ job \in Piece \cup {NULL}
    /\ (job = NULL) <=> (pc = "loop")
    /\ osfBefore \in BOOLEAN
ClockType == osf \in BOOLEAN /\ rtc \in Sessions \cup {MIXED, LOST} /\ applied \in Seq(Sessions)

\* Every variable keeps its shape; the lock, the session and the subscription go together.
TypeOK == CallType /\ LineType /\ MainType /\ ClockType

\* What an operator relies on (RtcSyncContract): calls set the clock in the order they were
\* made and at most once, a refused one never, and "SUCCESS" is only ever said of the last
\* one that did, however late answers and abandoned requests arrive
\* (rtc_sync_ipc.py handle_request_bytes, rtc_sync_service.py send_one_rtc_sync_request).
Answer(r) ==
    CASE r = "PENDING" -> "pending"
      [] r = "SUCCESS" -> "success"
      [] r \in {"RTC_SYNC_ALREADY_ACTIVE", "PI_TIME_UNTRUSTED", "NOT_CONNECTED"} -> "refused"
      [] OTHER -> "unknown"

Told == [i \in DOMAIN reply |-> Answer(reply[i])]

Contract == INSTANCE RtcSyncContract WITH answer <- Told

ImplementsContract == Contract!Spec

\* While the last request that wrote the clock is one that was answered SUCCESS, the clock
\* holds its time with the stop flag clear, unless it lost power since
\* (ds3231_rtc_sync.cpp performDs3231SessionSync).
LastSyncedTimeStands ==
    \A i \in DOMAIN reply :
        reply[i] = "SUCCESS" /\ applied # <<>> /\ applied[Len(applied)] = i
            => (rtc = i /\ ~osf) \/ (rtc = LOST /\ osf)

\* The stop flag goes from set to clear only when the clock holds exactly the time of the
\* request being carried out (ds3231_rtc_sync.cpp: OSF is cleared after the readback).
OsfClearedOnlyVerified == [][osf /\ ~osf' => job # NULL /\ rtc = job.sess]_vars

\* Every call is answered and the lock released, whatever MAIN and the line do (rtc_sync_service.py: the wait is
\* bounded by RESULT_TIMEOUT_SECONDS).
EveryCallAnswered == phase # "idle" ~> phase = "idle"

\* "OSF remains set on any failed write or verification": a transaction that found the flag
\* set and whose last verification, the status re-read, fails leaves the flag set.  Violated:
\* by then it has been cleared (ds3231_rtc_sync.cpp STATUS_REREAD_FAILED).
FailedSyncKeepsOsf ==
    [][pc = "reread" /\ osfBefore /\ Len(down') > Len(down) /\ ~down'[Len(down')].ok => osf']_vars
=============================================================================
