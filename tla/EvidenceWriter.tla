--------------------------- MODULE EvidenceWriter ---------------------------
(***************************************************************************)
(* PersistentEvidenceWriter (backend/evidence_writer.py): the bounded      *)
(* queue, the _run task that turns packets into lines of segment files,    *)
(* rotation, stop() and the finalization that hashes the segments and      *)
(* writes integrity.json, summary.json and manifest.json, with failing     *)
(* file operations, a process crash and a power loss.                      *)
(*                                                                         *)
(* The backend runs on one asyncio loop.  The code between two awaits is   *)
(* one uninterrupted section, but the file operations in it can fail one   *)
(* by one and the process can die between two of them, so each of them is  *)
(* an action; task and stopper are the program counters, and LoopFree says *)
(* that no section is in progress, which every other entry point needs.    *)
(*                                                                         *)
(* Packets are numbered in the order in which enqueue is called.  Bounds   *)
(* of the model: MaxPackets and MaxFaults (failing operations).            *)
(* Time-based rotation may happen after any packet, size-based rotation    *)
(* happens at RotateAt lines, a line being one unit of size.               *)
(***************************************************************************)
EXTENDS EvidenceReplay

CONSTANTS QueueSize, RotateAt, MaxPackets, MaxFaults

ASSUME WriterAssumption ==
    /\ QueueSize \in Nat \ {0}
    /\ RotateAt \in Nat \ {0}
    /\ MaxPackets \in Nat
    /\ MaxFaults \in Nat

VARIABLES
    (* the two coroutines *)
    task,       \* where the _run task is
    stopper,    \* where start() and stop() are
    (* state of the writer object *)
    active, queue,
    held,       \* <<p>> from queue.get() to task_done() of p
    written, dropped, errors,
    open,       \* _segment_file is not None
    segIndex, segEvents, segCount,
    buffer,     \* lines written to the file object and not flushed
    segments,   \* _segments, the closed ones
    finalized, root,
    (* the run directory *)
    dir,        \* it exists
    disk, manifest, summary, integrity,
    (* history and bound *)
    offered,    \* packets passed to enqueue while evidence was active
    faults      \* failed operations so far

flow   == <<task, stopper, active>>
intake == <<queue, held, offered>>
counts == <<written, dropped>>
seg    == <<open, segIndex, segEvents, segCount, segments>>
final  == <<finalized, root>>
docs   == <<manifest, summary, integrity>>
vars   == <<flow, intake, counts, errors, seg, buffer, final, dir, disk, docs, faults>>

TaskStates == {"none", "get", "write", "rotate", "reopen", "manifest", "tail",
               "flush", "idleflush", "cancelled"}
StopStates == {"new", "up", "join", "flush", "close", "hash", "integrity", "summary",
               "manifest", "abort", "done", "crashed"}

(* The loop is at an await: any ready callback may run next. *)
LoopFree ==
    /\ task \in {"none", "get", "flush", "idleflush", "cancelled"}
    /\ stopper \in {"up", "join", "flush"}

Alive == stopper # "crashed"

-----------------------------------------------------------------------------
(*                          File operations                                *)

Works == faults' = faults /\ errors' = errors

(* An operation raised and the code around it counted the error. *)
Raises == /\ faults < MaxFaults
          /\ faults' = faults + 1
          /\ errors' = errors + 1

(* Writing a document raises also when the run directory was never made. *)
DocRaises == Raises \/ (~dir /\ errors' = errors + 1 /\ faults' = faults)

AppendTo(n, lines) == [disk EXCEPT ![n] = @ \o lines]

Torn(b) == IF b THEN <<TORN>> ELSE <<>>

(* Lines k+1.. of the buffer stay there or are lost, the first k reach the *)
(* file, and possibly a piece of the next one.                             *)
PartialFlush ==
    \E k \in 0..Len(buffer), torn, lost \in BOOLEAN :
        /\ disk' = AppendTo(segIndex, SubSeq(buffer, 1, k)
                                      \o Torn(torn /\ lost /\ k < Len(buffer)))
        /\ buffer' = IF lost THEN <<>> ELSE SubSeq(buffer, k + 1, Len(buffer))

FullFlush == disk' = AppendTo(segIndex, buffer) /\ buffer' = <<>>

(* await self.flush(): nothing to do without an open file *)
Flush == \/ /\ ~open
            /\ Works /\ UNCHANGED <<disk, buffer>>
         \/ /\ open
            /\ Works /\ FullFlush
         \/ /\ open
            /\ Raises /\ PartialFlush

(* _open_next_segment: everything but the open() call itself happens even  *)
(* when open() raises.                                                     *)
CounterCarriedOver == UNCHANGED segEvents        \* mutant of ResetCounter
ResetCounter == segEvents' = 0

OpenNext(ok) ==
    /\ segIndex' = segIndex + 1
    /\ segCount' = segIndex + 1
    /\ ResetCounter
    /\ open' = ok
    /\ disk' = IF ok
               THEN [n \in DOMAIN disk \cup {segIndex + 1} |->
                        IF n \in DOMAIN disk THEN disk[n] ELSE <<>>]
               ELSE disk
    /\ UNCHANGED segments

OpenAttempt == \/ dir /\ Works /\ OpenNext(TRUE)
               \/ Raises /\ OpenNext(FALSE)

CurrentSegment == [index |-> segIndex, events |-> segEvents, sha |-> NULL]

(* _close_segment: a failing flush or close is counted, the segment is     *)
(* recorded all the same and what was still buffered is gone.              *)
CloseSegment ==
    /\ open
    /\ \/ Works /\ disk' = AppendTo(segIndex, buffer)
       \/ /\ Raises
          /\ \E k \in 0..Len(buffer), torn \in BOOLEAN :
                disk' = AppendTo(segIndex, SubSeq(buffer, 1, k)
                                             \o Torn(torn /\ k < Len(buffer)))
    /\ buffer' = <<>>
    /\ segments' = Append(segments, CurrentSegment)
    /\ open' = FALSE
    /\ UNCHANGED <<segIndex, segEvents, segCount>>

(* _segments_with_current *)
SegmentsWithCurrent == IF open THEN Append(segments, CurrentSegment) ELSE segments

(* What write_manifest stores; finalized and hash_finalized are always set *)
(* together.                                                               *)
ManifestDoc ==
    [written |-> written, dropped |-> dropped, errors |-> errors,
     segment_count |-> segCount, segments |-> SegmentsWithCurrent,
     root |-> root, finalized |-> finalized, hash_finalized |-> finalized]

SummaryDoc ==
    [written |-> written, dropped |-> dropped, errors |-> errors,
     segment_count |-> segCount, finalized |-> TRUE, hash_finalized |-> TRUE]

IntegrityDoc ==
    [segment_count |-> segCount, segments |-> segments, root |-> root,
     hash_finalized |-> TRUE]

(* write_manifest: temporary file, fsync, rename; a failure is counted and *)
(* leaves the previous manifest.                                           *)
ManifestFailureUncounted ==                      \* mutant of WriteManifest
    \/ dir /\ Works /\ manifest' = ManifestDoc
    \/ faults < MaxFaults /\ faults' = faults + 1 /\ UNCHANGED <<manifest, errors>>
WriteManifest ==
    \/ dir /\ Works /\ manifest' = ManifestDoc
    \/ DocRaises /\ UNCHANGED manifest

-----------------------------------------------------------------------------
(*                              start()                                    *)

Init ==
    /\ task = "none" /\ stopper = "new" /\ active = FALSE
    /\ queue = <<>> /\ held = <<>> /\ offered = <<>>
    /\ written = 0 /\ dropped = 0 /\ errors = 0 /\ faults = 0
    /\ open = FALSE /\ segIndex = 0 /\ segEvents = 0 /\ segCount = 0
    /\ segments = <<>> /\ buffer = <<>>
    /\ finalized = FALSE /\ root = NULL
    /\ dir = FALSE /\ disk = <<>>
    /\ manifest = NULL /\ summary = NULL /\ integrity = NULL

(* mkdir, queue, active, _open_next_segment; a failure leaves the writer   *)
(* inactive with one error for the rest of the run.                        *)
StartMkdir ==
    /\ stopper = "new" /\ ~dir
    /\ \/ Works /\ dir' = TRUE /\ UNCHANGED stopper
       \/ Raises /\ stopper' = "up" /\ UNCHANGED dir
    /\ UNCHANGED <<task, active, intake, counts, seg, buffer, final, disk, docs>>

StartOpen ==
    /\ stopper = "new" /\ dir /\ ~open
    /\ OpenAttempt
    /\ stopper' = IF open' THEN "new" ELSE "up"
    /\ active' = open'
    /\ UNCHANGED <<task, intake, counts, buffer, final, dir, docs>>

(* write_manifest and create_task *)
StartTask ==
    /\ stopper = "new" /\ open
    /\ WriteManifest
    /\ stopper' = "up" /\ task' = "get"
    /\ UNCHANGED <<active, intake, counts, seg, buffer, final, dir, disk, summary, integrity>>

-----------------------------------------------------------------------------
(*                             enqueue()                                   *)

DropNotCounted == UNCHANGED dropped              \* mutant of CountDrop
CountDrop == dropped' = dropped + 1

(* Inactive, it returns at once: a stuttering step. *)
Enqueue ==
    LET p == Len(offered) + 1
    IN /\ LoopFree /\ active
       /\ p <= MaxPackets
       /\ offered' = Append(offered, p)
       /\ \/ /\ Len(queue) < QueueSize
             /\ queue' = Append(queue, p)
             /\ Works /\ UNCHANGED dropped
          \/ /\ Len(queue) = QueueSize
             /\ CountDrop
             /\ Works /\ UNCHANGED queue
          \/ Raises /\ UNCHANGED <<queue, dropped>>     \* deepcopy raised
       /\ UNCHANGED <<flow, held, written, seg, buffer, final, dir, disk, docs>>

-----------------------------------------------------------------------------
(*                       _run(), one packet                                *)

RunGet ==
    /\ LoopFree /\ task = "get" /\ queue # <<>>
    /\ held' = <<Head(queue)>>
    /\ queue' = Tail(queue)
    /\ task' = "write"
    /\ UNCHANGED <<stopper, active, offered, counts, errors, seg, buffer, final, dir, disk, docs, faults>>

(* wait_for ran into the flush interval *)
RunIdle ==
    /\ LoopFree /\ task = "get" /\ queue = <<>>
    /\ task' = "idleflush"
    /\ UNCHANGED <<stopper, active, intake, counts, errors, seg, buffer, final, dir, disk, docs, faults>>

RunIdleFlushed ==
    /\ LoopFree /\ task = "idleflush"
    /\ Flush
    /\ task' = "get"
    /\ UNCHANGED <<stopper, active, intake, counts, seg, final, dir, docs>>

(* finally: self._queue.task_done() *)
TaskDoneSkipped == task' = "get" /\ UNCHANGED held      \* mutant of PacketDone
PacketDone == task' = "get" /\ held' = <<>>

(* _write_packet without an open file opens one first; if that raises the  *)
(* packet is lost and the error counted.                                   *)
RunReopenForWrite ==
    /\ task = "write" /\ Alive /\ ~open
    /\ OpenAttempt
    /\ IF open' THEN UNCHANGED <<task, held>> ELSE PacketDone
    /\ UNCHANGED <<stopper, active, queue, offered, counts, buffer, final, dir, docs>>

(* The line goes to the file object.  A write that raises may have kept    *)
(* the line and may have lost lines that were still buffered.              *)
RunWrite ==
    /\ task = "write" /\ Alive /\ open
    /\ \/ /\ Works
          /\ buffer' = Append(buffer, held[1])
          /\ segEvents' = segEvents + 1
          /\ written' = written + 1
          /\ task' = "rotate"
          /\ UNCHANGED <<held, disk>>
       \/ /\ Raises
          /\ \/ buffer' = Append(buffer, held[1]) /\ UNCHANGED disk
             \/ PartialFlush
          /\ PacketDone
          /\ UNCHANGED <<segEvents, written>>
    /\ UNCHANGED <<stopper, active, queue, offered, dropped, open, segIndex, segCount,
                   segments, final, dir, docs>>

(* rotate_segment_if_needed: by size it is due, by time it may be. *)
RunRotate ==
    /\ task = "rotate" /\ Alive
    /\ CloseSegment
    /\ task' = "reopen"
    /\ UNCHANGED <<stopper, active, intake, counts, final, dir, docs>>

RunNoRotate ==
    /\ task = "rotate" /\ Alive
    /\ segEvents < RotateAt
    /\ task' = "tail"
    /\ UNCHANGED <<stopper, active, intake, counts, errors, seg, buffer, final, dir, disk, docs, faults>>

RunReopen ==
    /\ task = "reopen" /\ Alive
    /\ OpenAttempt
    /\ IF open' THEN task' = "manifest" /\ UNCHANGED held ELSE PacketDone
    /\ UNCHANGED <<stopper, active, queue, offered, counts, buffer, final, dir, docs>>

RunManifest ==
    /\ task = "manifest" /\ Alive
    /\ WriteManifest
    /\ task' = "tail"
    /\ UNCHANGED <<stopper, active, intake, counts, seg, buffer, final, dir, disk, summary, integrity>>

(* The flush interval has elapsed or not. *)
RunTail ==
    /\ task = "tail" /\ Alive
    /\ \/ task' = "flush" /\ UNCHANGED held
       \/ PacketDone
    /\ UNCHANGED <<stopper, active, queue, offered, counts, errors, seg, buffer, final, dir, disk, docs, faults>>

RunFlushed ==
    /\ LoopFree /\ task = "flush"
    /\ Flush
    /\ PacketDone
    /\ UNCHANGED <<stopper, active, queue, offered, counts, seg, final, dir, docs>>

Run == \/ RunGet \/ RunIdle \/ RunIdleFlushed \/ RunReopenForWrite \/ RunWrite
       \/ RunRotate \/ RunNoRotate \/ RunReopen \/ RunManifest \/ RunTail \/ RunFlushed

-----------------------------------------------------------------------------
(*                       stop() and _finalize_run()                        *)

Stop ==
    /\ LoopFree /\ stopper = "up"
    /\ stopper' = "join"
    /\ active' = FALSE
    /\ UNCHANGED <<task, intake, counts, errors, seg, buffer, final, dir, disk, docs, faults>>

(* queue.join() returns when task_done was called for every packet *)
JoinNotAwaited == TRUE                           \* mutant of Joined
Joined == queue = <<>> /\ held = <<>>

(* then the task is cancelled at its await *)
StopJoined ==
    /\ LoopFree /\ stopper = "join"
    /\ Joined
    /\ stopper' = "flush"
    /\ task' = "cancelled"
    /\ UNCHANGED <<active, intake, counts, errors, seg, buffer, final, dir, disk, docs, faults>>

StopFlush ==
    /\ stopper = "flush"
    /\ Flush
    /\ stopper' = "close"
    /\ UNCHANGED <<task, active, intake, counts, seg, final, dir, docs>>

StopClose ==
    /\ stopper = "close"
    /\ IF open THEN CloseSegment
       ELSE Works /\ UNCHANGED <<seg, buffer, disk>>
    /\ stopper' = "hash"
    /\ UNCHANGED <<task, active, intake, counts, final, dir, docs>>

Hashed == [k \in DOMAIN segments |->
              [segments[k] EXCEPT !.sha = disk[segments[k].index]]]

(* except: the flags are taken back and the manifest is rewritten *)
FlagsKept == stopper' = "abort" /\ UNCHANGED finalized   \* mutant of FinalizeFails
FinalizeFails == stopper' = "abort" /\ finalized' = FALSE

FinalizeHash ==
    /\ stopper = "hash"
    /\ \/ /\ Works
          /\ segments' = Hashed
          /\ segCount' = Len(segments)
          /\ root' = RunRoot(Hashed)
          /\ finalized' = TRUE
          /\ stopper' = "integrity"
       \/ /\ Raises
          /\ FinalizeFails
          /\ UNCHANGED <<segments, segCount, root>>
    /\ UNCHANGED <<task, active, intake, counts, open, segIndex, segEvents, buffer, dir, disk, docs>>

FinalizeIntegrity ==
    /\ stopper = "integrity"
    /\ \/ dir /\ Works /\ integrity' = IntegrityDoc
             /\ stopper' = "summary" /\ UNCHANGED finalized
       \/ DocRaises /\ FinalizeFails /\ UNCHANGED integrity
    /\ UNCHANGED <<task, active, intake, counts, seg, buffer, root, dir, disk, manifest, summary>>

FinalizeSummary ==
    /\ stopper = "summary"
    /\ \/ dir /\ Works /\ summary' = SummaryDoc
             /\ stopper' = "manifest" /\ UNCHANGED finalized
       \/ DocRaises /\ FinalizeFails /\ UNCHANGED summary
    /\ UNCHANGED <<task, active, intake, counts, seg, buffer, root, dir, disk, manifest, integrity>>

(* the last write of the run, with the flags set or taken back *)
FinalizeManifest ==
    /\ stopper \in {"manifest", "abort"}
    /\ WriteManifest
    /\ stopper' = "done"
    /\ UNCHANGED <<task, active, intake, counts, seg, buffer, final, dir, disk, summary, integrity>>

Finalize == StopFlush \/ StopClose \/ FinalizeHash \/ FinalizeIntegrity \/ FinalizeSummary
                \/ FinalizeManifest

-----------------------------------------------------------------------------
(*                                 crashes                                 *)

(* The process dies: what the file object still buffered is lost, save a   *)
(* prefix it happened to have passed on.                                   *)
Crash ==
    /\ Alive /\ stopper # "done"
    /\ stopper' = "crashed"
    /\ IF open THEN \E k \in 0..Len(buffer), torn \in BOOLEAN :
            disk' = AppendTo(segIndex, SubSeq(buffer, 1, k) \o Torn(torn /\ k < Len(buffer)))
       ELSE UNCHANGED disk
    /\ buffer' = <<>>
    /\ UNCHANGED <<task, active, intake, counts, errors, seg, final, dir, docs, faults>>

(* The power fails: segment files are never fsynced and one of them may    *)
(* come back shortened; the documents are fsynced before they are renamed. *)
PowerLoss ==
    /\ Alive
    /\ stopper' = "crashed"
    /\ \E n \in DOMAIN disk, torn \in BOOLEAN :
         \E k \in 0..Len(disk[n]) :
            disk' = [disk EXCEPT ![n] =
                        SubSeq(@, 1, k) \o Torn(torn /\ k < Len(@))]
    /\ buffer' = <<>>
    /\ UNCHANGED <<task, active, intake, counts, errors, seg, final, dir, docs, faults>>

(* The process has exited; nothing of the run changes any more. *)
Exited == stopper \in {"done", "crashed"} /\ UNCHANGED vars

Next == StartMkdir \/ StartOpen \/ StartTask \/ Enqueue \/ Run
           \/ Stop \/ StopJoined \/ Finalize \/ Crash \/ PowerLoss \/ Exited

(* The loop keeps serving ready coroutines; nobody has to call enqueue or  *)
(* stop, and nothing has to fail.                                          *)
Fairness == WF_vars(Run) /\ WF_vars(StopJoined) /\ WF_vars(Finalize)

Spec == Init /\ [][Next]_vars /\ Fairness

-----------------------------------------------------------------------------
(*                              properties                                 *)

(* The types of all variables, in five groups. *)
FlowType  == /\ task \in TaskStates /\ stopper \in StopStates
             /\ active \in BOOLEAN /\ open \in BOOLEAN /\ dir \in BOOLEAN
             /\ finalized \in BOOLEAN
QueueType ==
    /\ queue \in Seq(Nat) /\ held \in Seq(Nat) /\ offered \in Seq(Nat)
    /\ Len(queue) <= QueueSize
CountType == /\ written \in Nat /\ dropped \in Nat /\ errors \in Nat /\ faults \in Nat
             /\ segIndex \in Nat /\ segEvents \in Nat /\ segCount \in Nat
FileType  == /\ buffer \in Seq(Line)
             /\ DOMAIN disk \subseteq Nat
             /\ disk \in [DOMAIN disk -> Seq(Line)]
             /\ segments \in Seq(Segment)
DocType   == /\ root \in Root
             /\ manifest \in {NULL} \cup Manifest
             /\ summary \in {NULL} \cup Summary
             /\ integrity \in {NULL} \cup Integrity
TypeOK    == FlowType /\ QueueType /\ CountType /\ FileType /\ DocType

(* The lines on disk, file after file. *)
NotAfter(x, y) == x[1] < y[1] \/ (x[1] = y[1] /\ x[2] <= y[2])
LineAt(files, p) == CHOOSE x \in Places(files) : Cardinality({y \in Places(files) : NotAfter(y, x)}) = p
Lines(files) == [p \in 1..Cardinality(Places(files)) |-> files[LineAt(files, p)[1]][LineAt(files, p)[2]]]
DiskStream == Lines(disk)

ReplayVerdict == Verdict(manifest, summary, integrity, disk)

(* A run directory the offline replay passes holds every packet that was   *)
(* handed to enqueue while the run was active, once and in order, whatever *)
(* failed, was lost or crashed before (replay_evidence_run, PASS).         *)
PassMeansComplete == ReplayVerdict = "PASS" => DiskStream = offered

(* No false alarm: when nothing failed and the queue never overflowed,     *)
(* stop() leaves a run that the replay passes, however often it rotated.   *)
CleanStopVerifies ==
    stopper = "done" /\ faults = 0 /\ dropped = 0 => ReplayVerdict = "PASS"

(* _required_next_action of the live writer; the summary in every gateway  *)
(* health packet carries it.                                               *)
NextAction ==
    CASE errors > 0 \/ dropped > 0 -> "INVESTIGATE"
      [] errors = 0 /\ dropped = 0 /\ finalized /\ root # NULL -> "RUN_SOAK_VALIDATION"
      [] OTHER -> "FINALIZE_RUN"

(* When stop() has returned and the writer tells the operator to go on to  *)
(* soak validation, the run on disk does pass the replay: the flags in     *)
(* memory are not ahead of the documents.                                  *)
ReadyMeansVerifiable ==
    stopper = "done" /\ NextAction = "RUN_SOAK_VALIDATION" => ReplayVerdict = "PASS"

(* The manifest is the commit record of the run: whenever it says          *)
(* finalized, at whatever point the process died, the probe finds nothing  *)
(* missing and the three documents agree on segments and root.             *)
FinalizedManifestIsLast ==
    manifest # NULL /\ (manifest.finalized \/ manifest.hash_finalized) =>
        /\ IncompleteReason(manifest, summary, integrity) = NULL
        /\ manifest.root = integrity.root
        /\ manifest.segment_count = summary.segment_count
        /\ manifest.errors = summary.errors

(* No packet disappears uncounted and none is counted twice: a packet      *)
(* handed to enqueue has been written, is queued, is being written or was  *)
(* dropped and counted; whatever is missing in that sum is covered by      *)
(* writer_errors, which makes the replay fail.                             *)
Accounted == written + dropped + Len(queue) + (IF task = "write" THEN 1 ELSE 0)
NoSilentLoss == Accounted <= Len(offered) /\ Len(offered) <= Accounted + errors

(* stop() terminates: queue.join() is not left waiting for a task_done     *)
(* that an exception in the _run loop has skipped.                         *)
StopTerminates == stopper = "join" ~> stopper \in {"done", "crashed"}

(* The writer together with the replay implements the evidence log: the    *)
(* run becomes verified evidence in one step, the final manifest write,    *)
(* exactly when it was closed without an error or a drop, and then stands  *)
(* for all that was offered.                                               *)
Log == INSTANCE EvidenceLog
         WITH stream   <- offered,
              evidence <- IF ReplayVerdict = "PASS" THEN DiskStream ELSE NULL,
              sealed   <- /\ manifest # NULL /\ summary # NULL
                          /\ manifest.finalized
                          /\ summary.errors = 0 /\ summary.dropped = 0
ImplementsLog == Log!Spec
=============================================================================
