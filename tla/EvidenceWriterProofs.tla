------------------------ MODULE EvidenceWriterProofs ------------------------
(***************************************************************************)
(* Machine-checked theorems about the evidence writer, for every queue     *)
(* size, rotation size, number of packets and number of failures.          *)
(*                                                                         *)
(* The argument.  A document commits to the others only when they are what *)
(* the writer would write (StageInv, CommitInv, DoneInv), and a packet is  *)
(* lost only with a count (NoSilentLoss).  While nothing is counted, a     *)
(* step does to files and packets no more than Calm says; so the records   *)
(* tell the files (FilesTell), and files, buffer, packet in work and queue *)
(* hold the numbers 1, 2, ... in this order (LinesTell).  The hashes of a  *)
(* run that was committed without an error or a drop are therefore those   *)
(* of files that hold every packet (KeptInv): a disk with these hashes is  *)
(* complete, and reading it place by place gives the packets back          *)
(* (InOrderLines).                                                         *)
(***************************************************************************)
EXTENDS EvidenceWriter, Functions, FunctionTheorems, FiniteSetTheorems, SequenceTheorems, TLAPS

(* Every action of Next that is not a stuttering step, in one list. *)
Step == \/ StartMkdir \/ StartOpen \/ StartTask \/ Enqueue
        \/ RunGet \/ RunIdle \/ RunIdleFlushed \/ RunReopenForWrite \/ RunWrite
        \/ RunRotate \/ RunNoRotate \/ RunReopen \/ RunManifest \/ RunTail \/ RunFlushed
        \/ Stop \/ StopJoined \/ StopFlush \/ StopClose
        \/ FinalizeHash \/ FinalizeIntegrity \/ FinalizeSummary \/ FinalizeManifest
        \/ Crash \/ PowerLoss

LEMMA NextIsStep == [Next]_vars => Step \/ UNCHANGED vars
  BY DEF Next, Run, Finalize, Exited, Step

-----------------------------------------------------------------------------
(*                              typing                                     *)

(* The program counters and flags keep their types. *)
LEMMA FlowTypeStep ==
  ASSUME FlowType, [Next]_vars
  PROVE  FlowType'
<1> USE DEF FlowType, TaskStates, StopStates
<1>1. CASE StartMkdir  BY <1>1 DEF StartMkdir, seg, final
<1>2. CASE StartOpen   BY <1>2 DEF StartOpen, OpenAttempt, OpenNext, final
<1>3. CASE StartTask   BY <1>3 DEF StartTask, seg, final
<1>4. CASE Enqueue     BY <1>4 DEF Enqueue, flow, seg, final
<1>5. CASE RunGet      BY <1>5 DEF RunGet, seg, final
<1>6. CASE RunIdle     BY <1>6 DEF RunIdle, seg, final
<1>7. CASE RunIdleFlushed    BY <1>7 DEF RunIdleFlushed, seg, final
<1>8. CASE RunReopenForWrite BY <1>8 DEF RunReopenForWrite, OpenAttempt, OpenNext, PacketDone, final
<1>9. CASE RunWrite    BY <1>9 DEF RunWrite, PacketDone, final
<1>10. CASE RunRotate  BY <1>10 DEF RunRotate, CloseSegment, final
<1>11. CASE RunNoRotate BY <1>11 DEF RunNoRotate, seg, final
<1>12. CASE RunReopen  BY <1>12 DEF RunReopen, OpenAttempt, OpenNext, PacketDone, final
<1>13. CASE RunManifest BY <1>13 DEF RunManifest, seg, final
<1>14. CASE RunTail    BY <1>14 DEF RunTail, PacketDone, seg, final
<1>15. CASE RunFlushed BY <1>15 DEF RunFlushed, PacketDone, seg, final
<1>16. CASE Stop       BY <1>16 DEF Stop, seg, final
<1>17. CASE StopJoined BY <1>17 DEF StopJoined, seg, final
<1>18. CASE StopFlush  BY <1>18 DEF StopFlush, seg, final
<1>19. CASE StopClose  BY <1>19 DEF StopClose, CloseSegment, seg, final
<1>20. CASE FinalizeHash      BY <1>20 DEF FinalizeHash, FinalizeFails
<1>21. CASE FinalizeIntegrity BY <1>21 DEF FinalizeIntegrity, FinalizeFails, seg
<1>22. CASE FinalizeSummary   BY <1>22 DEF FinalizeSummary, FinalizeFails, seg
<1>23. CASE FinalizeManifest  BY <1>23 DEF FinalizeManifest, seg, final
<1>24. CASE Crash      BY <1>24 DEF Crash, seg, final
<1>25. CASE PowerLoss  BY <1>25 DEF PowerLoss, seg, final
<1>26. CASE UNCHANGED vars BY <1>26 DEF vars, flow, seg, final
<1>27. QED
  BY NextIsStep, <1>1, <1>2, <1>3, <1>4, <1>5, <1>6, <1>7, <1>8, <1>9, <1>10, <1>11, <1>12, <1>13,
     <1>14, <1>15, <1>16, <1>17, <1>18, <1>19, <1>20, <1>21, <1>22, <1>23, <1>24, <1>25, <1>26
     DEF Step

(* The queue stays a sequence within its bound; the packet in work and the *)
(* history stay sequences.                                                 *)
LEMMA QueueTypeStep ==
  ASSUME QueueType, [Next]_vars
  PROVE  QueueType'
<1> USE DEF QueueType
<1>0. QueueSize \in Nat \ {0} BY WriterAssumption
<1>1. CASE Enqueue
  <2> DEFINE p == Len(offered) + 1
  <2>1. p \in Nat
    OBVIOUS
  <2>2. /\ offered' = Append(offered, p) /\ held' = held
        /\ (queue' = Append(queue, p) /\ Len(queue) < QueueSize) \/ queue' = queue
    BY <1>1 DEF Enqueue
  <2>3. /\ Append(offered, p) \in Seq(Nat)
        /\ Append(queue, p) \in Seq(Nat)
        /\ Len(queue) < QueueSize => Len(Append(queue, p)) <= QueueSize
    BY <1>0, <2>1, AppendProperties
  <2>4. QED BY <2>2, <2>3, Zenon
<1>2. CASE RunGet
  <2>1. queue' = Tail(queue) /\ queue # <<>> /\ held' = <<Head(queue)>> /\ offered' = offered
    BY <1>2 DEF RunGet
  <2>2. Tail(queue) \in Seq(Nat) /\ Head(queue) \in Nat /\ Len(Tail(queue)) <= QueueSize
    BY <1>0, <2>1, HeadTailProperties
  <2>3. QED BY <2>1, <2>2
<1>3. CASE UNCHANGED <<queue, offered>> /\ (UNCHANGED held \/ held' = <<>>)
  BY <1>3, EmptySeq, Zenon
<1>4. CASE Step /\ ~Enqueue /\ ~RunGet
  BY <1>3, <1>4
     DEF Step, intake, StartMkdir, StartOpen, StartTask, RunIdle, RunIdleFlushed, RunReopenForWrite,
         RunWrite, RunRotate, RunNoRotate, RunReopen, RunManifest, RunTail, RunFlushed, PacketDone,
         Stop, StopJoined, StopFlush, StopClose, FinalizeHash, FinalizeIntegrity, FinalizeSummary,
         FinalizeManifest, Crash, PowerLoss
<1>5. CASE UNCHANGED vars BY <1>3, <1>5 DEF vars, intake
<1>6. QED BY NextIsStep, <1>1, <1>2, <1>4, <1>5

(* The counters stay naturals. *)
LEMMA CountTypeStep ==
  ASSUME CountType, FileType, [Next]_vars
  PROVE  CountType'
<1> USE DEF CountType, Works, Raises, DocRaises
<1>1. CASE StartMkdir  BY <1>1 DEF StartMkdir, counts, seg
<1>2. CASE StartOpen   BY <1>2 DEF StartOpen, OpenAttempt, OpenNext, ResetCounter, counts
<1>3. CASE StartTask   BY <1>3 DEF StartTask, WriteManifest, counts, seg
<1>4. CASE Enqueue     BY <1>4 DEF Enqueue, CountDrop, seg
<1>5. CASE RunGet      BY <1>5 DEF RunGet, counts, seg
<1>6. CASE RunIdle     BY <1>6 DEF RunIdle, counts, seg
<1>7. CASE RunIdleFlushed    BY <1>7 DEF RunIdleFlushed, Flush, counts, seg
<1>8. CASE RunReopenForWrite BY <1>8 DEF RunReopenForWrite, OpenAttempt, OpenNext, ResetCounter, counts
<1>9. CASE RunWrite    BY <1>9 DEF RunWrite
<1>10. CASE RunRotate  BY <1>10 DEF RunRotate, CloseSegment, counts
<1>11. CASE RunNoRotate BY <1>11 DEF RunNoRotate, counts, seg
<1>12. CASE RunReopen  BY <1>12 DEF RunReopen, OpenAttempt, OpenNext, ResetCounter, counts
<1>13. CASE RunManifest BY <1>13 DEF RunManifest, WriteManifest, counts, seg
<1>14. CASE RunTail    BY <1>14 DEF RunTail, counts, seg
<1>15. CASE RunFlushed BY <1>15 DEF RunFlushed, Flush, counts, seg
<1>16. CASE Stop       BY <1>16 DEF Stop, counts, seg
<1>17. CASE StopJoined BY <1>17 DEF StopJoined, counts, seg
<1>18. CASE StopFlush  BY <1>18 DEF StopFlush, Flush, counts, seg
<1>19. CASE StopClose  BY <1>19 DEF StopClose, CloseSegment, counts, seg
<1>20. CASE FinalizeHash
  <2>1. Len(segments) \in Nat
    BY LenProperties DEF FileType
  <2>2. QED BY <2>1, <1>20 DEF FinalizeHash, FinalizeFails, counts
<1>21. CASE FinalizeIntegrity BY <1>21 DEF FinalizeIntegrity, FinalizeFails, counts, seg
<1>22. CASE FinalizeSummary   BY <1>22 DEF FinalizeSummary, FinalizeFails, counts, seg
<1>23. CASE FinalizeManifest  BY <1>23 DEF FinalizeManifest, WriteManifest, counts, seg
<1>24. CASE Crash      BY <1>24 DEF Crash, counts, seg
<1>25. CASE PowerLoss  BY <1>25 DEF PowerLoss, counts, seg
<1>26. CASE UNCHANGED vars BY <1>26 DEF vars, counts, seg
<1>27. QED
  BY NextIsStep, <1>1, <1>2, <1>3, <1>4, <1>5, <1>6, <1>7, <1>8, <1>9, <1>10, <1>11, <1>12, <1>13,
     <1>14, <1>15, <1>16, <1>17, <1>18, <1>19, <1>20, <1>21, <1>22, <1>23, <1>24, <1>25, <1>26
     DEF Step

(* Where the two coroutines are: no task exists while start() is under     *)
(* way, it is cancelled before anything is finalized, a packet is in work  *)
(* whenever the line for it is about to be written, and none is between    *)
(* two packets.                                                            *)
FinalStates == {"flush", "close", "hash", "integrity", "summary", "manifest", "abort", "done"}

ControlInv == /\ stopper = "new" => task = "none"
              /\ stopper \in FinalStates => task = "cancelled"
              /\ task = "write" => held # <<>>
              /\ task \in {"none", "get", "idleflush", "cancelled"} => held = <<>>

LEMMA ControlStep ==
  ASSUME ControlInv, FlowType, [Next]_vars
  PROVE  ControlInv'
<1> USE DEF ControlInv, FinalStates
<1>1. CASE RunGet      BY <1>1 DEF RunGet, LoopFree
<1>2. CASE RunReopenForWrite BY <1>2 DEF RunReopenForWrite, PacketDone
<1>3. CASE RunWrite    BY <1>3 DEF RunWrite, PacketDone
<1>4. CASE RunReopen   BY <1>4 DEF RunReopen, PacketDone
<1>5. CASE RunTail     BY <1>5 DEF RunTail, PacketDone
<1>6. CASE RunFlushed  BY <1>6 DEF RunFlushed, PacketDone
<1>7. CASE StopJoined  BY <1>7 DEF StopJoined, Joined, intake
<1>8. CASE StartTask   BY <1>8 DEF StartTask, intake
<1>9. CASE UNCHANGED <<task, stopper, held>> BY <1>9
<1>10. CASE RunIdle \/ RunIdleFlushed \/ RunRotate \/ RunNoRotate \/ RunManifest
  BY <1>10 DEF RunIdle, RunIdleFlushed, RunRotate, RunNoRotate, RunManifest, intake
<1>11. CASE Enqueue \/ UNCHANGED vars
  BY <1>9, <1>11 DEF Enqueue, vars, flow, intake
<1>12. CASE StopFlush \/ StopClose \/ FinalizeHash \/ FinalizeIntegrity \/ FinalizeSummary
               \/ FinalizeManifest \/ Crash \/ PowerLoss
  BY <1>12 DEF StopFlush, StopClose, FinalizeHash, FinalizeFails,
     FinalizeIntegrity, FinalizeSummary, FinalizeManifest, Crash, PowerLoss, intake
<1>13. CASE StartMkdir \/ StartOpen \/ Stop
  BY <1>13 DEF StartMkdir, StartOpen, Stop, intake
<1>14. QED BY NextIsStep, <1>1, <1>2, <1>3, <1>4, <1>5, <1>6, <1>7, <1>8, <1>10, <1>11, <1>12, <1>13
           DEF Step

-----------------------------------------------------------------------------
(*                     segment files and their records                     *)

(* The file in use and every recorded segment exist: a segment is recorded *)
(* under the number open() was called with, and no file is ever removed.   *)
FilesInv == /\ open => segIndex \in DOMAIN disk
            /\ \A k \in DOMAIN segments : segments[k].index \in DOMAIN disk

DiskType == DOMAIN disk \subseteq Nat /\ disk \in [DOMAIN disk -> Seq(Line)]

(* Appending lines to a file keeps the files and their types. *)
LEMMA AppendToType ==
  ASSUME DiskType, NEW n \in DOMAIN disk, NEW lines \in Seq(Line)
  PROVE  /\ DOMAIN AppendTo(n, lines) = DOMAIN disk
         /\ AppendTo(n, lines) \in [DOMAIN disk -> Seq(Line)]
<1>1. disk[n] \o lines \in Seq(Line)
  BY DEF DiskType
<1>2. QED BY <1>1 DEF AppendTo, DiskType

(* What may reach the file of a buffer, and what may stay behind. *)
LEMMA PartType ==
  ASSUME NEW s \in Seq(Line), NEW k \in 0..Len(s), NEW b \in BOOLEAN
  PROVE  /\ SubSeq(s, 1, k) \o Torn(b) \in Seq(Line)
         /\ SubSeq(s, k + 1, Len(s)) \in Seq(Line)
<1>1. SubSeq(s, 1, k) \in Seq(Line) /\ SubSeq(s, k + 1, Len(s)) \in Seq(Line)
  OBVIOUS
<1>2. TORN \in Line
  BY DEF Line
<1>3. Torn(b) \in Seq(Line)
  BY <1>2 DEF Torn
<1>4. QED BY <1>1, <1>3

(* The three changes of a segment file, for the case that it is open. *)
LEMMA PartialFlushType ==
  ASSUME FileType, FilesInv, open, PartialFlush
  PROVE  DiskType' /\ DOMAIN disk' = DOMAIN disk /\ buffer' \in Seq(Line)
<1>1. PICK k \in 0..Len(buffer), torn \in BOOLEAN, lost \in BOOLEAN :
         /\ disk' = AppendTo(segIndex, SubSeq(buffer, 1, k)
                                       \o Torn(torn /\ lost /\ k < Len(buffer)))
         /\ buffer' = IF lost THEN <<>> ELSE SubSeq(buffer, k + 1, Len(buffer))
  BY DEF PartialFlush
<1>2. buffer \in Seq(Line) /\ segIndex \in DOMAIN disk /\ DiskType
  BY DEF FileType, FilesInv, DiskType
<1>3. (torn /\ lost /\ k < Len(buffer)) \in BOOLEAN
  OBVIOUS
<1>4. /\ SubSeq(buffer, 1, k) \o Torn(torn /\ lost /\ k < Len(buffer)) \in Seq(Line)
      /\ SubSeq(buffer, k + 1, Len(buffer)) \in Seq(Line)
  BY <1>2, <1>3, PartType, Zenon
<1>5. disk' \in [DOMAIN disk -> Seq(Line)] /\ DOMAIN disk' = DOMAIN disk
  BY <1>1, <1>2, <1>4, AppendToType, Zenon
<1>6. buffer' \in Seq(Line)
  BY <1>1, <1>4, EmptySeq, Zenon
<1>7. QED BY <1>2, <1>5, <1>6, Zenon DEF DiskType

LEMMA FlushType ==
  ASSUME FileType, FilesInv, Flush
  PROVE  DiskType' /\ DOMAIN disk' = DOMAIN disk /\ buffer' \in Seq(Line)
<1>1. CASE ~open
  BY <1>1 DEF Flush, FileType, DiskType
<1>2. CASE open /\ FullFlush
  <2>1. segIndex \in DOMAIN disk /\ DiskType /\ buffer \in Seq(Line)
    BY <1>2 DEF FilesInv, FileType, DiskType
  <2>2. DOMAIN disk' = DOMAIN disk /\ disk' \in [DOMAIN disk -> Seq(Line)] /\ buffer' = <<>>
    BY <1>2, <2>1, AppendToType, Zenon DEF FullFlush
  <2>3. QED BY <2>1, <2>2, EmptySeq, Zenon DEF DiskType
<1>3. CASE open /\ PartialFlush
  BY <1>3, PartialFlushType
<1>4. QED BY <1>1, <1>2, <1>3 DEF Flush

LEMMA OpenType ==
  ASSUME FileType, FilesInv, segIndex \in Nat, OpenAttempt
  PROVE  /\ DiskType' /\ DOMAIN disk \subseteq DOMAIN disk'
         /\ segments' = segments
         /\ open' => segIndex' \in DOMAIN disk'
<1>1. CASE OpenNext(TRUE)
  <2>1. disk' = [n \in DOMAIN disk \cup {segIndex + 1} |->
                    IF n \in DOMAIN disk THEN disk[n] ELSE <<>>]
    BY <1>1 DEF OpenNext
  <2>2. \A n \in DOMAIN disk : disk[n] \in Seq(Line)
    BY DEF FileType
  <2>3. /\ DOMAIN disk' = DOMAIN disk \cup {segIndex + 1}
        /\ disk' \in [DOMAIN disk \cup {segIndex + 1} -> Seq(Line)]
    BY <2>1, <2>2, EmptySeq, Zenon
  <2>4. DOMAIN disk \subseteq Nat /\ segIndex + 1 \in Nat
    BY DEF FileType
  <2>5. DiskType'
    BY <2>3, <2>4, Zenon DEF DiskType
  <2>6. QED BY <1>1, <2>3, <2>5 DEF OpenNext
<1>2. CASE OpenNext(FALSE)
  BY <1>2 DEF OpenNext, FileType, DiskType
<1>3. QED BY <1>1, <1>2 DEF OpenAttempt

LEMMA CloseType ==
  ASSUME FileType, FilesInv, CountType, CloseSegment
  PROVE  /\ DiskType' /\ DOMAIN disk' = DOMAIN disk
         /\ segments' \in Seq(Segment)
         /\ \A k \in DOMAIN segments' : segments'[k].index \in DOMAIN disk
<1>1. segIndex \in DOMAIN disk /\ DiskType /\ buffer \in Seq(Line) /\ segments \in Seq(Segment)
  BY DEF FilesInv, FileType, DiskType, CloseSegment
<1>2. PICK lines \in Seq(Line) : disk' = AppendTo(segIndex, lines)
  <2>1. CASE disk' = AppendTo(segIndex, buffer)
    BY <1>1, <2>1
  <2>2. ASSUME NEW k \in 0..Len(buffer), NEW torn \in BOOLEAN,
               disk' = AppendTo(segIndex, SubSeq(buffer, 1, k) \o Torn(torn /\ k < Len(buffer)))
        PROVE  \E lines \in Seq(Line) : disk' = AppendTo(segIndex, lines)
    <3>1. (torn /\ k < Len(buffer)) \in BOOLEAN
      OBVIOUS
    <3>2. SubSeq(buffer, 1, k) \o Torn(torn /\ k < Len(buffer)) \in Seq(Line)
      BY <1>1, <3>1, PartType, Zenon
    <3>3. QED BY <2>2, <3>2, Zenon
  <2>3. QED BY <2>1, <2>2, Zenon DEF CloseSegment
<1>3. DOMAIN disk' = DOMAIN disk /\ DiskType'
  BY <1>1, <1>2, AppendToType, Zenon DEF DiskType
<1>4. CurrentSegment \in Segment /\ CurrentSegment.index = segIndex
  BY DEF CurrentSegment, Segment, CountType
<1>5. segments' = Append(segments, CurrentSegment)
  BY DEF CloseSegment
<1>6. segments' \in Seq(Segment)
  BY <1>1, <1>4, <1>5, AppendProperties, Zenon
<1>7. \A k \in DOMAIN segments' : \/ segments'[k] = CurrentSegment
                                  \/ k \in DOMAIN segments /\ segments'[k] = segments[k]
  <2>1. /\ Len(segments') = Len(segments) + 1 /\ Len(segments) \in Nat
        /\ segments'[Len(segments) + 1] = CurrentSegment
        /\ \A k \in 1..Len(segments) : segments'[k] = segments[k]
    BY <1>1, <1>4, <1>5, AppendProperties, LenProperties
  <2>2. DOMAIN segments = 1..Len(segments) /\ DOMAIN segments' = 1..Len(segments')
    BY <1>1, <1>6, LenProperties
  <2>3. QED BY <2>1, <2>2
<1>8. QED BY <1>1, <1>3, <1>4, <1>6, <1>7, Zenon DEF FilesInv

(* The files and the records of them keep their types through every step.  *)
LEMMA FileTypeStep ==
  ASSUME FlowType, QueueType, CountType, FileType, FilesInv, ControlInv, [Next]_vars
  PROVE  FileType' /\ FilesInv'
<1>1. SUFFICES /\ DiskType' /\ buffer' \in Seq(Line) /\ segments' \in Seq(Segment)
               /\ open' => segIndex' \in DOMAIN disk'
               /\ \A k \in DOMAIN segments' : segments'[k].index \in DOMAIN disk'
  BY DEF FileType, FilesInv, DiskType
<1>2. /\ DiskType /\ buffer \in Seq(Line) /\ segments \in Seq(Segment)
      /\ open => segIndex \in DOMAIN disk
      /\ \A k \in DOMAIN segments : segments[k].index \in DOMAIN disk
  BY DEF FileType, FilesInv, DiskType
<1>3. <<>> \in Seq(Line)
  BY EmptySeq
<1>a. CASE UNCHANGED <<disk, buffer, segments, segIndex, open>>
  BY <1>2, <1>a DEF DiskType
<1>b. CASE OpenAttempt /\ UNCHANGED buffer
  <2>1. \A n \in DOMAIN disk : n \in DOMAIN disk'
    BY <1>b, OpenType DEF CountType
  <2>2. QED BY <1>b, <1>2, <2>1, OpenType DEF CountType
<1>c. CASE Flush /\ UNCHANGED seg
  BY <1>c, <1>2, FlushType DEF seg
<1>d. CASE CloseSegment
  BY <1>d, <1>3, CloseType DEF CloseSegment
<1>4. CASE RunWrite
  <2>1. CASE buffer' = Append(buffer, held[1]) /\ UNCHANGED disk
    <3>1. held # <<>> /\ held \in Seq(Nat)
      BY <1>4 DEF RunWrite, ControlInv, QueueType
    <3>2. held[1] \in Line
      BY <3>1 DEF Line
    <3>3. buffer' \in Seq(Line)
      BY <1>2, <2>1, <3>2, AppendProperties, Zenon
    <3>4. QED BY <1>2, <1>4, <2>1, <3>3 DEF RunWrite, DiskType
  <2>2. CASE PartialFlush
    <3>1. open /\ UNCHANGED <<segments, segIndex, open>>
      BY <1>4 DEF RunWrite
    <3>2. QED BY <1>2, <2>2, <3>1, PartialFlushType
  <2>3. QED BY <1>4, <2>1, <2>2 DEF RunWrite
<1>5. CASE FinalizeHash
  <2>1. CASE segments' = Hashed
    <3>1. \A k \in DOMAIN segments : disk[segments[k].index] \in Seq(Line)
      BY <1>2 DEF DiskType
    <3>2. \A k \in DOMAIN segments : segments[k] \in Segment
      BY <1>2, ElementOfSeq, LenProperties
    <3>3. \A k \in DOMAIN segments : /\ Hashed[k] \in Segment
                                     /\ Hashed[k].index = segments[k].index
      BY <3>1, <3>2 DEF Hashed, Segment
    <3>4. DOMAIN Hashed = DOMAIN segments /\ DOMAIN segments = 1..Len(segments)
           /\ Len(segments) \in Nat
      BY <1>2, LenProperties DEF Hashed
    <3>5. Hashed \in [1..Len(segments) -> Segment]
      BY <3>3, <3>4, Zenon DEF Hashed
    <3>6. Hashed \in Seq(Segment)
      BY <3>4, <3>5, SeqDef, Zenon
    <3>7. UNCHANGED <<disk, buffer, segIndex, open>>
      BY <1>5 DEF FinalizeHash
    <3>8. QED BY <1>2, <2>1, <3>3, <3>4, <3>6, <3>7 DEF DiskType
  <2>2. CASE UNCHANGED segments
    BY <1>5, <1>a, <2>2 DEF FinalizeHash
  <2>3. QED BY <1>5, <2>1, <2>2 DEF FinalizeHash
<1>6. CASE Crash
  <2>1. UNCHANGED <<segments, segIndex, open>> /\ buffer' = <<>>
    BY <1>6 DEF Crash, seg
  <2>2. DiskType' /\ DOMAIN disk' = DOMAIN disk
    <3>1. CASE UNCHANGED disk
      BY <1>2, <3>1 DEF DiskType
    <3>2. ASSUME open, NEW k \in 0..Len(buffer), NEW torn \in BOOLEAN,
                 disk' = AppendTo(segIndex, SubSeq(buffer, 1, k) \o Torn(torn /\ k < Len(buffer)))
          PROVE  DiskType' /\ DOMAIN disk' = DOMAIN disk
      <4>1. (torn /\ k < Len(buffer)) \in BOOLEAN
        OBVIOUS
      <4>2. SubSeq(buffer, 1, k) \o Torn(torn /\ k < Len(buffer)) \in Seq(Line)
        BY <1>2, <4>1, PartType, Zenon
      <4>3. segIndex \in DOMAIN disk
        BY <1>2, <3>2
      <4>4. QED BY <1>2, <3>2, <4>2, <4>3, AppendToType, Zenon DEF DiskType
    <3>3. QED BY <1>6, <3>1, <3>2, Zenon DEF Crash
  <2>3. QED BY <1>2, <1>3, <2>1, <2>2
<1>7. CASE PowerLoss
  <2>1. UNCHANGED <<segments, segIndex, open>> /\ buffer' = <<>>
    BY <1>7 DEF PowerLoss, seg
  <2>a. PICK n \in DOMAIN disk, torn \in BOOLEAN :
          \E k \in 0..Len(disk[n]) :
            disk' = [disk EXCEPT ![n] = SubSeq(disk[n], 1, k) \o Torn(torn /\ k < Len(disk[n]))]
    BY <1>7 DEF PowerLoss
  <2>2. PICK k \in 0..Len(disk[n]) :
          disk' = [disk EXCEPT ![n] = SubSeq(disk[n], 1, k) \o Torn(torn /\ k < Len(disk[n]))]
    BY <2>a
  <2>3. disk[n] \in Seq(Line)
    BY <1>2 DEF DiskType
  <2>4. (torn /\ k < Len(disk[n])) \in BOOLEAN
    OBVIOUS
  <2>5. SubSeq(disk[n], 1, k) \o Torn(torn /\ k < Len(disk[n])) \in Seq(Line)
    BY <2>3, <2>4, PartType, Zenon
  <2>6. DiskType' /\ DOMAIN disk' = DOMAIN disk
    BY <1>2, <2>2, <2>5, Zenon DEF DiskType
  <2>7. QED BY <1>2, <1>3, <2>1, <2>6
<1>8. CASE StartOpen \/ RunReopenForWrite \/ RunReopen
  BY <1>8, <1>b DEF StartOpen, RunReopenForWrite, RunReopen
<1>9. CASE RunIdleFlushed \/ RunFlushed \/ StopFlush
  BY <1>9, <1>c DEF RunIdleFlushed, RunFlushed, StopFlush
<1>10. CASE RunRotate
  BY <1>10, <1>d DEF RunRotate
<1>11. CASE StopClose
  BY <1>11, <1>a, <1>d DEF StopClose, seg
<1>12. CASE StartMkdir \/ StartTask \/ Enqueue \/ RunGet \/ RunIdle \/ RunNoRotate \/ RunManifest
               \/ RunTail \/ Stop \/ StopJoined \/ FinalizeIntegrity \/ FinalizeSummary
               \/ FinalizeManifest \/ UNCHANGED vars
  <2>1. UNCHANGED <<disk, buffer, segments, segIndex, open>>
    BY <1>12 DEF StartMkdir, StartTask, Enqueue, RunGet, RunIdle, RunNoRotate, RunManifest, RunTail,
       Stop, StopJoined, FinalizeIntegrity, FinalizeSummary, FinalizeManifest, vars, seg
  <2>2. QED BY <1>a, <2>1
<1>13. QED BY NextIsStep, <1>4, <1>5, <1>6, <1>7, <1>8, <1>9, <1>10, <1>11, <1>12 DEF Step

-----------------------------------------------------------------------------
(*                           the documents                                 *)

(* What the three writers store has the type of the file it is stored in.  *)
LEMMA DocsHaveType ==
  ASSUME TypeOK
  PROVE  ManifestDoc \in Manifest /\ SummaryDoc \in Summary /\ IntegrityDoc \in Integrity
<1>1. SegmentsWithCurrent \in Seq(Segment)
  <2>1. CurrentSegment \in Segment
    BY DEF CurrentSegment, Segment, TypeOK, CountType
  <2>2. segments \in Seq(Segment)
    BY DEF TypeOK, FileType
  <2>3. QED BY <2>1, <2>2, AppendProperties, Zenon DEF SegmentsWithCurrent
<1>2. ManifestDoc \in Manifest
  BY <1>1 DEF ManifestDoc, Manifest, TypeOK, FlowType, CountType, DocType
<1>3. SummaryDoc \in Summary
  BY DEF SummaryDoc, Summary, TypeOK, CountType
<1>4. IntegrityDoc \in Integrity
  BY DEF IntegrityDoc, Integrity, TypeOK, CountType, FileType, DocType
<1>5. QED BY <1>2, <1>3, <1>4

(* The root computed over typed segments is a root. *)
LEMMA RootType ==
  ASSUME NEW s \in Seq(Segment)
  PROVE  RunRoot(s) \in Root
<1>1. DOMAIN s = 1..Len(s) /\ Len(s) \in Nat /\ \A k \in DOMAIN s : s[k] \in Segment
  BY LenProperties, ElementOfSeq
<1>2. \A k \in 1..Len(s) : <<s[k].index, s[k].sha, s[k].events>> \in RootLine
  BY <1>1 DEF Segment, RootLine
<1>3. RunRoot(s) \in [1..Len(s) -> RootLine]
  BY <1>1, <1>2, Zenon DEF RunRoot
<1>4. QED BY <1>1, <1>3, SeqDef, Zenon DEF Root

(* FinalizeHash stores the hash of an existing file in every segment. *)
LEMMA HashedType ==
  ASSUME FileType, FilesInv
  PROVE  /\ Hashed \in Seq(Segment)
         /\ \A k \in DOMAIN Hashed : Hashed[k].sha # NULL
<1>1. \A k \in DOMAIN segments : disk[segments[k].index] \in Seq(Line)
  BY DEF FileType, FilesInv
<1>2. \A k \in DOMAIN segments : segments[k] \in Segment
  BY ElementOfSeq, LenProperties DEF FileType
<1>3. DOMAIN Hashed = DOMAIN segments /\ DOMAIN segments = 1..Len(segments) /\ Len(segments) \in Nat
  BY LenProperties DEF Hashed, FileType
<1>4. \A k \in DOMAIN segments : Hashed[k] \in Segment /\ Hashed[k].sha \in Seq(Line)
  BY <1>1, <1>2 DEF Hashed, Segment
<1>5. Hashed \in [1..Len(segments) -> Segment]
  BY <1>3, <1>4, Zenon DEF Hashed
<1>6. Hashed \in Seq(Segment)
  BY <1>3, <1>5, SeqDef, Zenon
<1>7. QED BY <1>3, <1>4, <1>6, NullAssumption, Zenon

LEMMA DocTypeStep ==
  ASSUME TypeOK, FilesInv, [Next]_vars
  PROVE  DocType'
<1> USE DEF DocType
<1>1. DocType /\ ManifestDoc \in Manifest /\ SummaryDoc \in Summary /\ IntegrityDoc \in Integrity
  BY DocsHaveType DEF TypeOK
<1>a. CASE WriteManifest /\ UNCHANGED <<root, summary, integrity>>
  BY <1>1, <1>a DEF WriteManifest
<1>b. CASE UNCHANGED <<root, docs>>
  BY <1>1, <1>b DEF docs
<1>2. CASE FinalizeHash
  <2>1. RunRoot(Hashed) \in Root
    BY HashedType, RootType DEF TypeOK
  <2>2. QED BY <1>1, <1>2, <2>1 DEF FinalizeHash, docs
<1>3. CASE FinalizeIntegrity BY <1>1, <1>3 DEF FinalizeIntegrity
<1>4. CASE FinalizeSummary   BY <1>1, <1>4 DEF FinalizeSummary
<1>5. CASE StartTask \/ RunManifest \/ FinalizeManifest
  BY <1>a, <1>5 DEF StartTask, RunManifest, FinalizeManifest, final
<1>6. CASE Step /\ ~FinalizeHash /\ ~FinalizeIntegrity /\ ~FinalizeSummary
           /\ ~(StartTask \/ RunManifest \/ FinalizeManifest)
  BY <1>b, <1>6 DEF Step, StartMkdir, StartOpen, Enqueue, RunGet, RunIdle, RunIdleFlushed,
     RunReopenForWrite, RunWrite, RunRotate, RunNoRotate, RunReopen, RunTail, RunFlushed,
     Stop, StopJoined, StopFlush, StopClose, Crash, PowerLoss, final
<1>7. CASE UNCHANGED vars BY <1>b, <1>7 DEF vars, final
<1>8. QED BY NextIsStep, <1>2, <1>3, <1>4, <1>5, <1>6, <1>7

-----------------------------------------------------------------------------
(*                         order of finalization                           *)

(* What has been done when stop() has reached a stage: the flags are set   *)
(* from the hashing on and taken back on the way to abort, and the         *)
(* documents written so far are those the writer would write now.          *)
HashedInv == \A k \in DOMAIN segments : segments[k].sha # NULL

StageInv ==
  /\ finalized => stopper \in {"integrity", "summary", "manifest", "done", "crashed"}
  /\ stopper = "hash" => ~open
  /\ stopper \in {"integrity", "summary", "manifest"} => finalized /\ ~open /\ HashedInv
  /\ stopper \in {"summary", "manifest"} => integrity = IntegrityDoc
  /\ stopper = "manifest" => summary = SummaryDoc

Committed == manifest # NULL /\ (manifest.finalized \/ manifest.hash_finalized)

CommitInv == Committed => stopper \in {"done", "crashed"}

LEMMA StageStep ==
  ASSUME TypeOK, FilesInv, ControlInv, StageInv, [Next]_vars
  PROVE  StageInv'
<1> USE DEF StageInv
<1>1. CASE StartMkdir \/ StartOpen \/ StartTask \/ Stop
  BY <1>1 DEF StartMkdir, StartOpen, StartTask, Stop, final
<1>2. CASE Enqueue \/ RunGet \/ RunIdle \/ RunIdleFlushed \/ RunReopenForWrite \/ RunWrite \/ RunRotate
              \/ RunNoRotate \/ RunReopen \/ RunManifest \/ RunTail \/ RunFlushed
  <2>1. UNCHANGED <<stopper, finalized>>
    BY <1>2 DEF Enqueue, RunGet, RunIdle, RunIdleFlushed, RunReopenForWrite, RunWrite, RunRotate,
       RunNoRotate, RunReopen, RunManifest, RunTail, RunFlushed, flow, final
  <2>2. stopper \notin {"hash", "integrity", "summary", "manifest"}
    BY <1>2 DEF Enqueue, RunGet, RunIdle, RunIdleFlushed, RunReopenForWrite, RunWrite, RunRotate,
       RunNoRotate, RunReopen, RunManifest, RunTail, RunFlushed, LoopFree, ControlInv, FinalStates
  <2>3. QED BY <2>1, <2>2
<1>3. CASE StopJoined \/ StopFlush
  BY <1>3 DEF StopJoined, StopFlush, LoopFree, final
<1>4. CASE StopClose
  BY <1>4 DEF StopClose, CloseSegment, seg, final
<1>5. CASE FinalizeHash
  <2>1. CASE stopper' = "integrity"
    BY <1>5, <2>1, HashedType DEF FinalizeHash, TypeOK, HashedInv, FinalizeFails
  <2>2. CASE FinalizeFails
    BY <2>2 DEF FinalizeFails
  <2>3. QED BY <1>5, <2>1, <2>2 DEF FinalizeHash
<1>6. CASE FinalizeIntegrity
  <2>1. CASE stopper' = "summary"
    BY <1>6, <2>1 DEF FinalizeIntegrity, FinalizeFails, IntegrityDoc, HashedInv, seg
  <2>2. CASE FinalizeFails
    BY <2>2 DEF FinalizeFails
  <2>3. QED BY <1>6, <2>1, <2>2 DEF FinalizeIntegrity
<1>7. CASE FinalizeSummary
  <2>1. CASE stopper' = "manifest"
    BY <1>7, <2>1 DEF FinalizeSummary, FinalizeFails, IntegrityDoc, SummaryDoc, HashedInv, Works, seg, counts
  <2>2. CASE FinalizeFails
    BY <2>2 DEF FinalizeFails
  <2>3. QED BY <1>7, <2>1, <2>2 DEF FinalizeSummary
<1>8. CASE FinalizeManifest \/ Crash \/ PowerLoss
  BY <1>8 DEF FinalizeManifest, Crash, PowerLoss, final
<1>9. CASE UNCHANGED vars
  BY <1>9 DEF vars, flow, seg, final, docs, counts, HashedInv, IntegrityDoc, SummaryDoc
<1>10. QED BY NextIsStep, <1>1, <1>2, <1>3, <1>4, <1>5, <1>6, <1>7, <1>8, <1>9 DEF Step

(* A manifest that is not written with the flags set commits to nothing.   *)
LEMMA UnflaggedManifest ==
  ASSUME CommitInv, FinalizedManifestIsLast, WriteManifest, ~finalized, ~Committed
  PROVE  ~Committed'
BY DEF WriteManifest, ManifestDoc, Committed

(* A finalized manifest is written last, and the other documents, which it *)
(* commits to, are those the writer would write at that point.             *)
LEMMA CommitStep ==
  ASSUME TypeOK, ControlInv, StageInv, CommitInv, FinalizedManifestIsLast, [Next]_vars
  PROVE  CommitInv' /\ FinalizedManifestIsLast'
<1>a. CASE UNCHANGED docs /\ (stopper' = stopper \/ stopper' = "crashed")
  BY <1>a DEF docs, CommitInv, Committed, FinalizedManifestIsLast
<1>b. CASE ~Committed'
  BY <1>b DEF CommitInv, Committed, FinalizedManifestIsLast
<1>c. CASE UNCHANGED docs /\ stopper \notin {"done", "crashed"}
  BY <1>b, <1>c DEF docs, CommitInv, Committed
<1>1. CASE Enqueue \/ RunGet \/ RunIdle \/ RunIdleFlushed \/ RunReopenForWrite \/ RunWrite \/ RunRotate
              \/ RunNoRotate \/ RunReopen \/ RunTail \/ RunFlushed \/ Crash \/ PowerLoss
  BY <1>1, <1>a DEF Enqueue, RunGet, RunIdle, RunIdleFlushed, RunReopenForWrite, RunWrite, RunRotate,
     RunNoRotate, RunReopen, RunTail, RunFlushed, Crash, PowerLoss, flow
<1>2. CASE StartMkdir \/ StartOpen \/ Stop \/ StopJoined \/ StopFlush \/ StopClose \/ FinalizeHash
  BY <1>2, <1>c DEF StartMkdir, StartOpen, Stop, StopJoined, StopFlush, StopClose, FinalizeHash
<1>3. CASE StartTask
  <2>1. WriteManifest /\ ~finalized /\ ~Committed
    BY <1>3 DEF StartTask, StageInv, CommitInv
  <2>2. QED BY <1>b, <2>1, UnflaggedManifest
<1>4. CASE RunManifest
  <2>1. WriteManifest /\ ~finalized /\ ~Committed /\ UNCHANGED <<stopper, finalized>>
    BY <1>4 DEF RunManifest, StageInv, CommitInv, ControlInv, FinalStates, Alive, final
  <2>2. QED BY <1>b, <2>1, UnflaggedManifest
<1>5. CASE FinalizeIntegrity
  BY <1>5, <1>b DEF FinalizeIntegrity, CommitInv, Committed
<1>6. CASE FinalizeSummary
  BY <1>6, <1>b DEF FinalizeSummary, CommitInv, Committed
<1>7. CASE FinalizeManifest
  <2>1. CASE stopper = "manifest" /\ manifest' = ManifestDoc
    <3>1. /\ summary' = SummaryDoc /\ integrity' = IntegrityDoc
          /\ finalized /\ ~open /\ HashedInv /\ stopper' = "done"
      BY <1>7, <2>1 DEF FinalizeManifest, StageInv
    <3>2. SummaryDoc # NULL /\ IntegrityDoc # NULL /\ ManifestDoc # NULL
      BY DocsHaveType, NullAssumption
    <3>3. /\ ManifestDoc.finalized /\ ManifestDoc.hash_finalized
          /\ ManifestDoc.segments = segments
          /\ ManifestDoc.root = IntegrityDoc.root
          /\ ManifestDoc.segment_count = SummaryDoc.segment_count
          /\ ManifestDoc.errors = SummaryDoc.errors
      BY <3>1 DEF ManifestDoc, SummaryDoc, IntegrityDoc, SegmentsWithCurrent
    <3>4. IncompleteReason(ManifestDoc, SummaryDoc, IntegrityDoc) = NULL
      BY <3>1, <3>2, <3>3 DEF IncompleteReason, HashedInv
    <3>5. QED BY <2>1, <3>1, <3>3, <3>4 DEF CommitInv, FinalizedManifestIsLast
  <2>2. CASE stopper = "abort" /\ manifest' = ManifestDoc
    BY <1>7, <1>b, <2>2 DEF FinalizeManifest, StageInv, Committed, ManifestDoc
  <2>3. CASE UNCHANGED manifest
    BY <1>7, <1>c, <2>3 DEF FinalizeManifest, docs
  <2>4. QED BY <1>7, <2>1, <2>2, <2>3 DEF FinalizeManifest, WriteManifest
<1>8. CASE UNCHANGED vars BY <1>a, <1>8 DEF vars, flow
<1>9. QED BY NextIsStep, <1>1, <1>2, <1>3, <1>4, <1>5, <1>6, <1>7, <1>8 DEF Step

-----------------------------------------------------------------------------
(*                       accounting of packets                             *)

(* No step breaks the sum: a packet that leaves one of its terms enters    *)
(* another, or the step counts an error.                                   *)
LEMMA NoSilentLossStep ==
  ASSUME TypeOK, ControlInv, NoSilentLoss, [Next]_vars
  PROVE  NoSilentLoss'
<1> DEFINE Sums == <<task, queue, offered, written, dropped, errors>>
<1>a. /\ Len(queue) \in Nat /\ Len(offered) \in Nat
      /\ written \in Nat /\ dropped \in Nat /\ errors \in Nat
  BY LenProperties DEF TypeOK, QueueType, CountType
<1> USE DEF NoSilentLoss, Accounted
(* Steps that move no packet and can at most count an error. *)
<1>b. CASE /\ UNCHANGED <<queue, offered, written, dropped>>
           /\ errors' = errors \/ errors' = errors + 1
           /\ task # "write" /\ task' # "write"
  BY <1>a, <1>b
<1>1. CASE Enqueue
  <2> DEFINE p == Len(offered) + 1
  <2>1. Len(Append(offered, p)) = Len(offered) + 1 /\ Len(Append(queue, p)) = Len(queue) + 1
    BY <1>a, AppendProperties DEF TypeOK, QueueType
  <2>2. /\ offered' = Append(offered, p) /\ written' = written /\ task' = task
        /\ \/ queue' = Append(queue, p) /\ errors' = errors /\ dropped' = dropped
           \/ queue' = queue /\ errors' = errors /\ dropped' = dropped + 1
           \/ queue' = queue /\ errors' = errors + 1 /\ dropped' = dropped
    BY <1>1 DEF Enqueue, CountDrop, Works, Raises, flow
  <2>3. CASE queue' = Append(queue, p) /\ errors' = errors /\ dropped' = dropped
    BY <1>a, <2>1, <2>2, <2>3
  <2>4. CASE queue' = queue /\ errors' = errors /\ dropped' = dropped + 1
    BY <1>a, <2>1, <2>2, <2>4
  <2>5. CASE queue' = queue /\ errors' = errors + 1 /\ dropped' = dropped
    BY <1>a, <2>1, <2>2, <2>5
  <2>6. QED BY <2>2, <2>3, <2>4, <2>5
<1>2. CASE RunGet
  <2>1. Len(Tail(queue)) = Len(queue) - 1
    BY <1>2, HeadTailProperties DEF RunGet, TypeOK, QueueType
  <2>2. QED BY <1>2, <1>a, <2>1 DEF RunGet, counts
<1>3. CASE RunReopenForWrite
  <2>1. /\ UNCHANGED <<queue, offered, written, dropped>> /\ task = "write"
        /\ \/ task' = "write" /\ errors' = errors
           \/ task' = "get" /\ errors' = errors + 1
    BY <1>3 DEF RunReopenForWrite, OpenAttempt, OpenNext, Works, Raises, PacketDone, counts
  <2>2. QED BY <1>a, <2>1
<1>4. CASE RunWrite
  <2>1. /\ UNCHANGED <<queue, offered, dropped>> /\ task = "write"
        /\ \/ task' = "rotate" /\ errors' = errors /\ written' = written + 1
           \/ task' = "get" /\ errors' = errors + 1 /\ written' = written
    BY <1>4 DEF RunWrite, Works, Raises, PacketDone
  <2>2. QED BY <1>a, <2>1
<1>5. CASE RunIdle \/ RunIdleFlushed \/ RunRotate \/ RunNoRotate \/ RunReopen \/ RunManifest
             \/ RunTail \/ RunFlushed
  BY <1>5, <1>b DEF RunIdle, RunIdleFlushed, RunRotate, RunNoRotate, RunReopen, RunManifest, RunTail,
     RunFlushed, Flush, CloseSegment, OpenAttempt, WriteManifest, Works, Raises, DocRaises,
     PacketDone, counts, intake
<1>6. CASE StartTask \/ StopJoined
  <2>1. UNCHANGED <<queue, offered, written, dropped>> /\ task' # "write"
    BY <1>6 DEF StartTask, StopJoined, counts, intake
  <2>2. errors' = errors \/ errors' = errors + 1
    BY <1>6 DEF StartTask, StopJoined, WriteManifest, Works, Raises, DocRaises
  <2>3. task # "write"
    BY <1>6 DEF StartTask, StopJoined, LoopFree, ControlInv
  <2>4. QED BY <2>1, <2>2, <2>3, <1>b
<1>7. CASE StartMkdir \/ StartOpen \/ StopFlush \/ StopClose \/ FinalizeHash
             \/ FinalizeIntegrity \/ FinalizeSummary \/ FinalizeManifest
  <2>1. UNCHANGED <<task, queue, offered, written, dropped>>
    BY <1>7 DEF StartMkdir, StartOpen, StopFlush, StopClose, FinalizeHash, FinalizeIntegrity,
       FinalizeSummary, FinalizeManifest, counts, intake
  <2>2. errors' = errors \/ errors' = errors + 1
    BY <1>7 DEF StartMkdir, StartOpen, StopFlush, StopClose, FinalizeHash, FinalizeIntegrity,
       FinalizeSummary, FinalizeManifest, OpenAttempt, Flush, CloseSegment, WriteManifest,
       Works, Raises, DocRaises
  <2>3. QED BY <1>a, <2>1, <2>2
<1>8. CASE Stop \/ Crash \/ PowerLoss \/ UNCHANGED vars
  <2>1. UNCHANGED Sums
    BY <1>8 DEF Stop, Crash, PowerLoss, vars, flow, counts, intake
  <2>2. QED BY <2>1
<1>9. QED BY NextIsStep, <1>1, <1>2, <1>3, <1>4, <1>5, <1>6, <1>7, <1>8 DEF Step

-----------------------------------------------------------------------------
(*                     counting the lines of files                         *)

(* The files hold 1, 2, ..., n, one number a line, in this order. *)
InOrder(files, n) ==
  /\ \A k \in DOMAIN files : \A i \in DOMAIN files[k] : files[k][i] \in 1..n
  /\ \A k, l \in DOMAIN files : \A i \in DOMAIN files[k], j \in DOMAIN files[l] :
       (k < l \/ (k = l /\ i < j)) => files[k][i] < files[l][j]
  /\ \A p \in 1..n : \E k \in DOMAIN files : \E i \in DOMAIN files[k] : files[k][i] = p

Numbered(files) == DOMAIN files \subseteq Nat /\ \A k \in DOMAIN files : DOMAIN files[k] \subseteq Nat

LEMMA PlacesAre ==
  ASSUME NEW files
  PROVE  /\ \A k \in DOMAIN files : \A i \in DOMAIN files[k] : <<k, i>> \in Places(files)
         /\ \A x \in Places(files) : x = <<x[1], x[2]>> /\ x[1] \in DOMAIN files /\ x[2] \in DOMAIN files[x[1]]
  BY DEF Places

(* The place of a line tells its number. *)
LEMMA PlaceOrder ==
  ASSUME NEW files, NEW n \in Nat, Numbered(files), InOrder(files, n),
         NEW x \in Places(files), NEW y \in Places(files)
  PROVE  /\ files[x[1]][x[2]] \in 1..n
         /\ NotAfter(y, x) <=> files[y[1]][y[2]] <= files[x[1]][x[2]]
         /\ files[y[1]][y[2]] = files[x[1]][x[2]] => y = x
<1> DEFINE a == files[x[1]][x[2]]
           b == files[y[1]][y[2]]
<1>1. /\ x = <<x[1], x[2]>> /\ x[1] \in DOMAIN files /\ x[2] \in DOMAIN files[x[1]]
      /\ y = <<y[1], y[2]>> /\ y[1] \in DOMAIN files /\ y[2] \in DOMAIN files[y[1]]
  BY PlacesAre
<1>2. x[1] \in Nat /\ x[2] \in Nat /\ y[1] \in Nat /\ y[2] \in Nat BY <1>1 DEF Numbered
<1>3. a \in 1..n /\ b \in 1..n BY <1>1 DEF InOrder
<1>4. (x[1] < y[1] \/ (x[1] = y[1] /\ x[2] < y[2])) => a < b BY <1>1 DEF InOrder
<1>5. (y[1] < x[1] \/ (y[1] = x[1] /\ y[2] < x[2])) => b < a BY <1>1 DEF InOrder
<1> HIDE DEF a, b
<1>6. CASE x[1] < y[1] \/ (x[1] = y[1] /\ x[2] < y[2])
  <2>1. ~NotAfter(y, x) BY <1>2, <1>6 DEF NotAfter
  <2>2. QED BY <1>3, <1>4, <1>6, <2>1 DEF a, b
<1>7. CASE y[1] < x[1] \/ (y[1] = x[1] /\ y[2] < x[2])
  <2>1. NotAfter(y, x) BY <1>2, <1>7 DEF NotAfter
  <2>2. QED BY <1>3, <1>5, <1>7, <2>1 DEF a, b
<1>8. CASE x[1] = y[1] /\ x[2] = y[2]
  <2>1. x = y BY <1>1, <1>8
  <2>2. NotAfter(y, x) BY <1>2, <1>8 DEF NotAfter
  <2>3. a = b BY <1>8 DEF a, b
  <2>4. QED BY <1>3, <2>1, <2>2, <2>3 DEF a, b
<1>9. QED BY <1>2, <1>6, <1>7, <1>8

LEMMA UptoCount ==
  ASSUME NEW files, NEW n \in Nat, Numbered(files), InOrder(files, n), NEW m \in 0..n
  PROVE  Cardinality({y \in Places(files) : files[y[1]][y[2]] <= m}) = m
<1> DEFINE S == {y \in Places(files) : files[y[1]][y[2]] <= m}
           f == [p \in 1..m |-> CHOOSE x \in Places(files) : files[x[1]][x[2]] = p]
<1>1. m \in Nat OBVIOUS
<1>2. ASSUME NEW p \in 1..m PROVE f[p] \in Places(files) /\ files[f[p][1]][f[p][2]] = p /\ f[p] \in S
  <2>1. p \in 1..n /\ p <= m OBVIOUS
  <2>2. PICK k \in DOMAIN files : \E i \in DOMAIN files[k] : files[k][i] = p BY <2>1 DEF InOrder
  <2>3. PICK i \in DOMAIN files[k] : files[k][i] = p BY <2>2
  <2>4. <<k, i>> \in Places(files) /\ files[<<k, i>>[1]][<<k, i>>[2]] = p BY <2>3, PlacesAre
  <2>5. \E x \in Places(files) : files[x[1]][x[2]] = p BY <2>4
  <2>6. f[p] = CHOOSE x \in Places(files) : files[x[1]][x[2]] = p OBVIOUS
  <2> HIDE DEF f
  <2>7. f[p] \in Places(files) /\ files[f[p][1]][f[p][2]] = p BY <2>5, <2>6, Zenon
  <2>8. QED BY <2>1, <2>7
<1>3. DOMAIN f = 1..m /\ f = [p \in 1..m |-> f[p]] OBVIOUS
<1>4. ASSUME NEW y \in S PROVE files[y[1]][y[2]] \in 1..m /\ f[files[y[1]][y[2]]] = y
  <2>1. y \in Places(files) /\ files[y[1]][y[2]] \in 1..n /\ files[y[1]][y[2]] <= m BY PlaceOrder
  <2>2. files[y[1]][y[2]] \in 1..m BY <2>1
  <2> HIDE DEF f
  <2>3. QED BY <1>2, <2>1, <2>2, PlaceOrder
<1> HIDE DEF f, S
<1>5. f \in [1..m -> S] BY <1>2, <1>3
<1>6. \A p, q \in 1..m : f[p] = f[q] => p = q BY <1>2
<1>7. \A y \in S : \E p \in 1..m : f[p] = y BY <1>4
<1>8. f \in Bijection(1..m, S) BY <1>5, <1>6, <1>7, Fun_IsBij
<1>9. ExistsBijection(1..m, S) BY <1>8, Zenon DEF ExistsBijection
<1>10. QED BY <1>1, <1>9, FS_CountingElements DEF S

(* Files in order are read back as 1, 2, ..., n. *)
LEMMA InOrderLines ==
  ASSUME NEW files, NEW n \in Nat, Numbered(files), InOrder(files, n)
  PROVE  Cardinality(Places(files)) = n /\ Lines(files) = [p \in 1..n |-> p]
<1> DEFINE at(x) == files[x[1]][x[2]]
<1>1. Cardinality(Places(files)) = n
  <2>1. {y \in Places(files) : files[y[1]][y[2]] <= n} = Places(files) BY PlaceOrder
  <2>2. QED BY <2>1, UptoCount
<1>2. ASSUME NEW x \in Places(files) PROVE Cardinality({y \in Places(files) : NotAfter(y, x)}) = at(x)
  <2>1. {y \in Places(files) : NotAfter(y, x)} = {y \in Places(files) : files[y[1]][y[2]] <= at(x)} BY PlaceOrder
  <2>2. at(x) \in 0..n BY PlaceOrder
  <2> HIDE DEF at
  <2>3. QED BY <2>1, <2>2, UptoCount
<1>3. ASSUME NEW p \in 1..n PROVE at(LineAt(files, p)) = p
  <2>1. PICK k \in DOMAIN files : \E i \in DOMAIN files[k] : files[k][i] = p BY DEF InOrder
  <2>2. PICK i \in DOMAIN files[k] : files[k][i] = p BY <2>1
  <2>3. <<k, i>> \in Places(files) /\ at(<<k, i>>) = p BY <2>2, PlacesAre
  <2> HIDE DEF at
  <2>4. \E x \in Places(files) : Cardinality({y \in Places(files) : NotAfter(y, x)}) = p BY <1>2, <2>3
  <2>5. LineAt(files, p) \in Places(files)
        /\ Cardinality({y \in Places(files) : NotAfter(y, LineAt(files, p))}) = p
    BY <2>4, Zenon DEF LineAt
  <2>6. QED BY <1>2, <2>5
<1>4. Lines(files) = [p \in 1..n |-> at(LineAt(files, p))] BY <1>1, Zenon DEF Lines
<1> HIDE DEF at
<1>5. QED BY <1>1, <1>3, <1>4

-----------------------------------------------------------------------------
(*                 a run in which nothing has gone wrong                   *)

(* Packets are numbered as they are offered; a writer that is stopped      *)
(* takes no more and has none left; what has gone wrong is counted.        *)
OfferInv ==
  /\ \A i \in DOMAIN offered : offered[i] = i
  /\ stopper \in FinalStates => queue = <<>>
  /\ stopper \in FinalStates \cup {"join"} => ~active
  /\ task = "reopen" => ~open
  /\ open => dir
  /\ stopper = "abort" => errors # 0
  /\ faults = 0 => errors = 0 /\ (dir \/ stopper \in {"new", "crashed"})

LEMMA OfferStep ==
  ASSUME TypeOK, ControlInv, OfferInv, [Next]_vars
  PROVE  OfferInv'
<1>a. /\ errors \in Nat /\ faults \in Nat /\ offered \in Seq(Nat) /\ Len(offered) \in Nat
      /\ DOMAIN offered = 1..Len(offered)
  BY LenProperties DEF TypeOK, CountType, QueueType
<1>b. ASSUME Works \/ Raises PROVE faults' = 0 => faults = 0 /\ errors' = errors
  BY <1>a, <1>b DEF Works, Raises
<1>c. ASSUME Raises \/ DocRaises PROVE errors' # 0 BY <1>a, <1>c DEF Raises, DocRaises
<1>d. ASSUME UNCHANGED <<errors, faults>> PROVE Works BY <1>d DEF Works
<1>1. CASE Enqueue
  <2> DEFINE p == Len(offered) + 1
  <2>1. offered' = Append(offered, p) /\ p \in Nat /\ active BY <1>1, <1>a DEF Enqueue
  <2>2. \A i \in DOMAIN offered' : offered'[i] = i
    <3>1. /\ Len(offered') = Len(offered) + 1 /\ offered' \in Seq(Nat)
          /\ \A i \in 1..Len(offered) : offered'[i] = offered[i]
          /\ offered'[Len(offered) + 1] = p
      BY <1>a, <2>1, AppendProperties
    <3>2. DOMAIN offered' = 1..Len(offered) + 1 BY <3>1, LenProperties
    <3>3. QED BY <1>a, <3>1, <3>2 DEF OfferInv
  <2>3. stopper \notin FinalStates \cup {"join"} BY <2>1 DEF OfferInv
  <2>4. UNCHANGED <<stopper, task, open, dir>> /\ (Works \/ Raises) BY <1>1 DEF Enqueue, flow, seg
  <2>5. QED BY <1>b, <2>2, <2>3, <2>4 DEF OfferInv, FinalStates
<1>2. CASE RunGet
  <2>1. stopper \notin FinalStates BY <1>2 DEF RunGet, ControlInv
  <2>2. UNCHANGED <<offered, stopper, active, open, dir, errors, faults>> /\ task' = "write"
    BY <1>2 DEF RunGet, seg
  <2>3. QED BY <2>1, <2>2 DEF OfferInv
<1>3. CASE RunIdle \/ RunIdleFlushed \/ RunNoRotate \/ RunTail \/ RunFlushed
  <2>1. UNCHANGED <<offered, queue, stopper, active, open, dir>> /\ task' # "reopen" /\ (Works \/ Raises)
    BY <1>3, <1>d DEF RunIdle, RunIdleFlushed, RunNoRotate, RunTail, RunFlushed, Flush, PacketDone, intake, seg
  <2>2. stopper # "abort"
    BY <1>3 DEF RunIdle, RunIdleFlushed, RunNoRotate, RunTail, RunFlushed, ControlInv, FinalStates
  <2>3. QED BY <1>b, <2>1, <2>2 DEF OfferInv
<1>4. CASE RunReopenForWrite \/ RunReopen
  <2>1. UNCHANGED <<offered, queue, stopper, active, dir>> /\ (Works \/ Raises)
    BY <1>4 DEF RunReopenForWrite, RunReopen, OpenAttempt, OpenNext, PacketDone
  <2>2. open' => dir /\ task' # "reopen"
    BY <1>4 DEF RunReopenForWrite, RunReopen, OpenAttempt, OpenNext, PacketDone
  <2>3. stopper # "abort" BY <1>4 DEF RunReopenForWrite, RunReopen, ControlInv, FinalStates
  <2>4. QED BY <1>b, <2>1, <2>2, <2>3 DEF OfferInv
<1>5. CASE RunWrite
  <2>1. UNCHANGED <<offered, queue, stopper, active, open, dir>> /\ task' # "reopen" /\ (Works \/ Raises)
    BY <1>5 DEF RunWrite, PacketDone
  <2>2. stopper # "abort" BY <1>5 DEF RunWrite, ControlInv, FinalStates
  <2>3. QED BY <1>b, <2>1, <2>2 DEF OfferInv
<1>6. CASE RunRotate
  <2>1. UNCHANGED <<offered, queue, stopper, active, dir>> /\ ~open' /\ (Works \/ Raises)
    BY <1>6 DEF RunRotate, CloseSegment, intake
  <2>2. stopper # "abort" BY <1>6 DEF RunRotate, ControlInv, FinalStates
  <2>3. QED BY <1>b, <2>1, <2>2 DEF OfferInv
<1>7. CASE StartMkdir
  <2>1. /\ UNCHANGED <<offered, task, open>> /\ (open => dir')
        /\ \/ Works /\ dir' /\ stopper' = "new"
           \/ Raises /\ stopper' = "up"
    BY <1>7 DEF StartMkdir, intake, seg, OfferInv
  <2>2. QED BY <1>b, <1>7, <2>1 DEF OfferInv, FinalStates, Raises, StartMkdir
<1>8. CASE StartOpen
  <2>1. /\ UNCHANGED <<offered, task, dir>> /\ dir /\ task = "none" /\ (Works \/ Raises)
        /\ stopper' \in {"new", "up"}
    BY <1>8 DEF StartOpen, OpenAttempt, intake, ControlInv
  <2>2. QED BY <1>b, <2>1 DEF OfferInv, FinalStates
<1>9. CASE StartTask \/ RunManifest
  <2>1. (dir /\ stopper # "abort") \/ faults # 0 \/ stopper \in {"new", "crashed"}
    BY <1>9 DEF StartTask, RunManifest, OfferInv, ControlInv, FinalStates
  <2>2. /\ UNCHANGED <<offered, queue, active, open, dir>> /\ task' \in {"get", "tail"}
        /\ WriteManifest /\ (stopper' = "up" \/ stopper' = stopper) /\ stopper # "abort"
    BY <1>9 DEF StartTask, RunManifest, intake, seg, ControlInv, FinalStates
  <2>3. CASE StartTask
    <3>1. dir BY <2>3 DEF StartTask, OfferInv
    <3>2. Works \/ Raises BY <2>2, <3>1 DEF WriteManifest, DocRaises
    <3>3. stopper' = "up" BY <2>3 DEF StartTask
    <3>4. QED BY <1>b, <2>2, <3>1, <3>2, <3>3 DEF OfferInv, FinalStates
  <2>4. CASE RunManifest
    <3>1. stopper' = stopper /\ stopper # "crashed" /\ stopper # "new"
      BY <2>4 DEF RunManifest, Alive, ControlInv
    <3>2. faults' = 0 => faults = 0 BY <1>a, <2>2 DEF WriteManifest, Works, Raises, DocRaises
    <3>3. faults' = 0 => dir BY <3>1, <3>2 DEF OfferInv
    <3>4. dir => Works \/ Raises BY <2>2 DEF WriteManifest, DocRaises
    <3>5. QED BY <1>b, <2>2, <3>1, <3>3, <3>4 DEF OfferInv
  <2>5. QED BY <1>9, <2>3, <2>4
<1>10. CASE Stop
  <2>1. UNCHANGED <<offered, task, open, dir, errors, faults>> /\ stopper = "up" /\ stopper' = "join" /\ ~active'
    BY <1>10 DEF Stop, intake, seg
  <2>2. QED BY <2>1 DEF OfferInv, FinalStates
<1>11. CASE StopJoined
  <2>1. /\ UNCHANGED <<offered, active, queue, open, dir, errors, faults>> /\ stopper = "join"
        /\ stopper' = "flush" /\ task' = "cancelled" /\ queue = <<>>
    BY <1>11 DEF StopJoined, Joined, intake, seg
  <2>2. QED BY <2>1 DEF OfferInv, FinalStates
<1>12. CASE StopFlush \/ StopClose
  <2>1. /\ UNCHANGED <<offered, task, active, queue, dir>> /\ stopper \in FinalStates /\ stopper' \in {"close", "hash"}
        /\ (open' => open) /\ (Works \/ Raises)
    BY <1>12 DEF StopFlush, StopClose, Flush, CloseSegment, intake, seg, FinalStates
  <2>2. task = "cancelled" BY <2>1 DEF ControlInv
  <2>3. stopper' \in FinalStates /\ stopper \notin {"new", "crashed"}
    BY <2>1 DEF FinalStates
  <2>4. stopper' \notin {"abort", "new", "crashed"} BY <2>1
  <2>5. QED BY <1>b, <2>1, <2>2, <2>3, <2>4 DEF OfferInv
<1>13. CASE FinalizeHash \/ FinalizeIntegrity \/ FinalizeSummary \/ FinalizeManifest
  <2>1. /\ UNCHANGED <<offered, task, active, queue, dir, open>> /\ stopper \in FinalStates /\ stopper' \in FinalStates
        /\ Works \/ Raises \/ DocRaises
        /\ stopper' = "abort" => Raises \/ DocRaises
    BY <1>13 DEF FinalizeHash, FinalizeIntegrity, FinalizeSummary, FinalizeManifest, WriteManifest, FinalizeFails,
                intake, seg, FinalStates
  <2>2. task = "cancelled" /\ stopper' \notin {"new", "crashed"} /\ stopper \notin {"new", "crashed"}
    BY <2>1 DEF ControlInv, FinalStates
  <2>3. dir => Works \/ Raises BY <2>1 DEF DocRaises
  <2>4. faults' = 0 => faults = 0 BY <1>a, <2>1 DEF Works, Raises, DocRaises
  <2>5. QED BY <1>b, <1>c, <2>1, <2>2, <2>3, <2>4 DEF OfferInv
<1>14. CASE Crash \/ PowerLoss
  <2>1. UNCHANGED <<offered, task, open, dir, errors, faults>> /\ stopper' = "crashed"
    BY <1>14 DEF Crash, PowerLoss, intake, seg
  <2>2. QED BY <2>1 DEF OfferInv, FinalStates
<1>15. CASE UNCHANGED vars BY <1>15 DEF vars, flow, intake, seg, OfferInv
<1>16. QED BY NextIsStep, <1>1, <1>2, <1>3, <1>4, <1>5, <1>6, <1>7, <1>8, <1>9, <1>10, <1>11, <1>12,
              <1>13, <1>14, <1>15 DEF Step

(* What is done to the files and to the packets by a step that counts no   *)
(* error and is not the end of the process.                                *)
SameFiles == UNCHANGED <<disk, buffer, segments, segIndex, segEvents, open>>

SamePackets == /\ UNCHANGED <<queue, offered, written, dropped>>
               /\ task' = "write" <=> task = "write"
               /\ task' = "write" => held' = held

Opened == /\ ~open /\ OpenNext(TRUE)
          /\ UNCHANGED buffer

Flushed == /\ open /\ FullFlush
           /\ UNCHANGED <<segments, segIndex, segEvents, open>>

Closed == /\ open /\ open' = FALSE
          /\ disk' = AppendTo(segIndex, buffer) /\ buffer' = <<>>
          /\ segments' = Append(segments, CurrentSegment)
          /\ UNCHANGED <<segIndex, segEvents>>

HashesTaken == segments' = Hashed /\ UNCHANGED <<disk, buffer, segIndex, segEvents, open>>

Wrote == /\ task = "write" /\ task' # "write" /\ open
         /\ buffer' = Append(buffer, held[1])
         /\ segEvents' = segEvents + 1 /\ written' = written + 1
         /\ UNCHANGED <<disk, segments, segIndex, open, queue, offered, dropped>>

Took == /\ task = "get" /\ task' = "write" /\ queue # <<>>
        /\ held' = <<Head(queue)>> /\ queue' = Tail(queue)
        /\ SameFiles /\ UNCHANGED <<offered, written, dropped>>

Accepted == /\ \/ queue' = Append(queue, Len(offered) + 1) /\ UNCHANGED dropped
               \/ CountDrop
            /\ SameFiles /\ UNCHANGED <<held, task, written>>

Calm == \/ Wrote \/ Took \/ Accepted
        \/ SamePackets /\ (SameFiles \/ Opened \/ Flushed \/ Closed \/ HashesTaken)

LEMMA CalmStep ==
  ASSUME TypeOK, ControlInv, OfferInv, [Next]_vars, errors' = 0, stopper' # "crashed"
  PROVE  errors = 0 /\ stopper # "crashed" /\ Calm
<1>a. errors \in Nat /\ faults \in Nat
  BY DEF TypeOK, CountType
<1>b. ~Raises /\ ~DocRaises
  BY <1>a DEF Raises, DocRaises
<1>c. ASSUME Works \/ UNCHANGED <<errors, faults>> PROVE errors = 0
  BY <1>c DEF Works
<1>d. WriteManifest => Works
  BY <1>b DEF WriteManifest
<1>e. ASSUME OpenAttempt, ~open, UNCHANGED buffer PROVE Works /\ Opened /\ open'
  BY <1>b, <1>e DEF OpenAttempt, Opened, OpenNext
<1>f. ASSUME Flush, UNCHANGED seg PROVE Works /\ (SameFiles \/ Flushed)
  BY <1>b, <1>f DEF Flush, Flushed, SameFiles, seg
<1>g. ASSUME CloseSegment PROVE Works /\ Closed
  BY <1>b, <1>g DEF CloseSegment, Closed
<1>1. CASE Enqueue
  BY <1>1, <1>b, <1>c DEF Enqueue, LoopFree, Calm, Accepted, SameFiles, seg, flow
<1>2. CASE RunGet
  BY <1>2, <1>c DEF RunGet, LoopFree, Calm, Took, SameFiles, seg, counts
<1>3. CASE RunWrite
  BY <1>3, <1>b, <1>c DEF RunWrite, Alive, Calm, Wrote
<1>4. CASE RunReopenForWrite \/ RunReopen
  <2>1. OpenAttempt /\ ~open /\ UNCHANGED buffer /\ Alive
    BY <1>4 DEF RunReopenForWrite, RunReopen, OfferInv
  <2>2. SamePackets
    BY <1>4, <1>e, <2>1 DEF RunReopenForWrite, RunReopen, SamePackets, counts
  <2>3. QED BY <1>c, <1>e, <2>1, <2>2 DEF Alive, Calm
<1>5. CASE StartOpen
  BY <1>5, <1>c, <1>e DEF StartOpen, Calm, SamePackets, intake, counts
<1>6. CASE RunIdleFlushed \/ RunFlushed \/ StopFlush
  <2>1. Flush /\ UNCHANGED seg /\ stopper # "crashed"
    BY <1>6 DEF RunIdleFlushed, RunFlushed, StopFlush, LoopFree
  <2>2. SamePackets
    BY <1>6 DEF RunIdleFlushed, RunFlushed, StopFlush, PacketDone, SamePackets, counts, intake
  <2>3. QED BY <1>c, <1>f, <2>1, <2>2 DEF Calm
<1>7. CASE RunRotate
  BY <1>7, <1>c, <1>g DEF RunRotate, Alive, Calm, SamePackets, intake, counts
<1>8. CASE StopClose
  BY <1>8, <1>c, <1>g DEF StopClose, Calm, SamePackets, SameFiles, intake, counts, seg
<1>9. CASE FinalizeHash
  BY <1>9, <1>b, <1>c DEF FinalizeHash, Calm, SamePackets, HashesTaken, intake, counts
<1>10. CASE StartTask \/ RunManifest \/ FinalizeManifest
  BY <1>10, <1>c, <1>d DEF StartTask, RunManifest, FinalizeManifest, Alive, Calm, SamePackets, SameFiles,
     intake, counts, seg, ControlInv
<1>11. CASE FinalizeIntegrity \/ FinalizeSummary
  BY <1>11, <1>b, <1>c DEF FinalizeIntegrity, FinalizeSummary, Calm, SamePackets, SameFiles, intake, counts, seg
<1>12. CASE StartMkdir
  BY <1>12, <1>b, <1>c DEF StartMkdir, Calm, SamePackets, SameFiles, intake, counts, seg
<1>17. CASE RunIdle \/ RunNoRotate
  BY <1>17, <1>c DEF RunIdle, RunNoRotate, LoopFree, Alive, Calm, SamePackets, SameFiles, intake, counts, seg
<1>18. CASE RunTail
  BY <1>18, <1>c DEF RunTail, Alive, PacketDone, Calm, SamePackets, SameFiles, counts, seg
<1>13. CASE Stop \/ StopJoined
  BY <1>13, <1>c DEF Stop, StopJoined, LoopFree, Calm, SamePackets, SameFiles, intake, counts, seg, ControlInv
<1>14. CASE Crash \/ PowerLoss
  BY <1>14 DEF Crash, PowerLoss
<1>15. CASE UNCHANGED vars
  BY <1>15, <1>c DEF vars, flow, intake, counts, seg, Calm, SamePackets, SameFiles
<1>16. QED BY NextIsStep, <1>1, <1>2, <1>3, <1>4, <1>5, <1>6, <1>7, <1>8, <1>9, <1>10, <1>11, <1>12,
              <1>13, <1>14, <1>15, <1>17, <1>18 DEF Step

(* While no error is counted and the process lives, the files are numbered *)
(* without a gap, a closed one holds the events its record tells, and what *)
(* the open one does not hold yet is in the buffer.                        *)
FilesTell ==
  errors = 0 /\ stopper # "crashed" =>
    /\ DOMAIN disk = 1..segIndex
    /\ segIndex = Len(segments) + (IF open THEN 1 ELSE 0)
    /\ ~open => buffer = <<>>
    /\ \A k \in DOMAIN segments : segments[k].index = k /\ segments[k].events = Len(disk[k])
    /\ open => segEvents = Len(disk[segIndex]) + Len(buffer)

LEMMA FilesTellStep ==
  ASSUME TypeOK, ControlInv, FilesInv, OfferInv, FilesTell, [Next]_vars
  PROVE  FilesTell'
<1> SUFFICES ASSUME errors' = 0, stopper' # "crashed"
             PROVE  /\ DOMAIN disk' = 1..segIndex'
                    /\ segIndex' = Len(segments') + (IF open' THEN 1 ELSE 0)
                    /\ ~open' => buffer' = <<>>
                    /\ \A k \in DOMAIN segments' :
                          segments'[k].index = k /\ segments'[k].events = Len(disk'[k])
                    /\ open' => segEvents' = Len(disk'[segIndex']) + Len(buffer')
  BY DEF FilesTell
<1>1. /\ DOMAIN disk = 1..segIndex
      /\ segIndex = Len(segments) + (IF open THEN 1 ELSE 0)
      /\ ~open => buffer = <<>>
      /\ \A k \in DOMAIN segments : segments[k].index = k /\ segments[k].events = Len(disk[k])
      /\ open => segEvents = Len(disk[segIndex]) + Len(buffer)
      /\ Calm
  BY CalmStep DEF FilesTell
<1>2. /\ segIndex \in Nat /\ segEvents \in Nat /\ Len(segments) \in Nat /\ Len(buffer) \in Nat
      /\ buffer \in Seq(Line) /\ segments \in Seq(Segment)
      /\ DOMAIN segments = 1..Len(segments)
      /\ \A k \in DOMAIN disk : disk[k] \in Seq(Line) /\ Len(disk[k]) \in Nat
  BY LenProperties DEF TypeOK, CountType, FileType
<1>3. CASE SameFiles
  BY <1>1, <1>3 DEF SameFiles
<1>4. CASE Opened
  <2>1. /\ ~open /\ segIndex' = segIndex + 1 /\ segEvents' = 0 /\ open' = TRUE /\ segments' = segments
        /\ disk' = [n \in DOMAIN disk \cup {segIndex + 1} |-> IF n \in DOMAIN disk THEN disk[n] ELSE <<>>]
        /\ buffer' = <<>>
    BY <1>1, <1>4 DEF Opened, OpenNext, ResetCounter
  <2>2. DOMAIN disk' = 1..segIndex + 1 /\ disk'[segIndex + 1] = <<>>
        /\ \A k \in 1..segIndex : disk'[k] = disk[k]
    BY <1>1, <1>2, <2>1
  <2>3. Len(<<>>) = 0
    OBVIOUS
  <2>4. DOMAIN segments = 1..segIndex
    BY <1>1, <1>2, <2>1
  <2>5. ASSUME NEW k \in DOMAIN segments
        PROVE  segments[k].index = k /\ segments[k].events = Len(disk'[k])
    <3>1. disk'[k] = disk[k]
      BY <2>2, <2>4
    <3>2. segments[k].index = k /\ segments[k].events = Len(disk[k])
      BY <1>1
    <3>3. QED BY <3>1, <3>2, Zenon
  <2>6. segEvents' = Len(disk'[segIndex']) + Len(buffer')
    BY <2>1, <2>2, <2>3
  <2>7. QED BY <1>1, <1>2, <2>1, <2>2, <2>5, <2>6
<1>5. ASSUME open
      PROVE  LET appended == AppendTo(segIndex, buffer)
             IN /\ DOMAIN appended = 1..segIndex
                /\ Len(appended[segIndex]) = Len(disk[segIndex]) + Len(buffer)
                /\ \A k \in DOMAIN segments : appended[k] = disk[k]
  <2>1. segIndex \in DOMAIN disk /\ DOMAIN segments = 1..segIndex - 1
    BY <1>1, <1>2, <1>5
  <2>2. /\ DOMAIN AppendTo(segIndex, buffer) = 1..segIndex
        /\ AppendTo(segIndex, buffer)[segIndex] = disk[segIndex] \o buffer
        /\ \A k \in 1..segIndex - 1 : AppendTo(segIndex, buffer)[k] = disk[k]
    <3>1. /\ DOMAIN AppendTo(segIndex, buffer) = DOMAIN disk
          /\ \A k \in DOMAIN disk : AppendTo(segIndex, buffer)[k] = IF k = segIndex THEN disk[k] \o buffer ELSE disk[k]
      BY DEF AppendTo, TypeOK, FileType
    <3>2. ASSUME NEW k \in 1..segIndex - 1 PROVE k \in DOMAIN disk /\ k # segIndex
      <4>1. k \in 1..segIndex /\ k # segIndex
        BY <1>2
      <4>2. QED BY <1>1, <4>1, Zenon
    <3>3. QED BY <1>1, <2>1, <3>1, <3>2, Zenon
  <2>3. Len(disk[segIndex] \o buffer) = Len(disk[segIndex]) + Len(buffer)
    BY <1>2, <2>1, ConcatProperties
  <2>4. QED BY <2>1, <2>2, <2>3
<1>6. CASE Flushed
  <2>1. /\ open /\ open' = open /\ segments' = segments /\ segIndex' = segIndex /\ segEvents' = segEvents
        /\ disk' = AppendTo(segIndex, buffer) /\ buffer' = <<>> /\ Len(<<>>) = 0
    BY <1>6 DEF Flushed, FullFlush
  <2>2. QED BY <1>1, <1>2, <1>5, <2>1
<1>7. CASE Closed
  <2>1. /\ open /\ open' = FALSE /\ segIndex' = segIndex
        /\ disk' = AppendTo(segIndex, buffer) /\ buffer' = <<>>
        /\ segments' = Append(segments, CurrentSegment)
    BY <1>7 DEF Closed
  <2>2. CurrentSegment \in Segment /\ CurrentSegment.index = segIndex /\ CurrentSegment.events = segEvents
    BY <1>2 DEF CurrentSegment, Segment
  <2>3. /\ segments' \in Seq(Segment) /\ Len(segments') = Len(segments) + 1
        /\ segments'[Len(segments) + 1] = CurrentSegment
        /\ \A k \in 1..Len(segments) : segments'[k] = segments[k]
    BY <1>2, <2>1, <2>2, AppendProperties
  <2>4. DOMAIN segments' = 1..Len(segments) + 1
    BY <2>3, LenProperties
  <2>5. ASSUME NEW k \in DOMAIN segments'
        PROVE  segments'[k].index = k /\ segments'[k].events = Len(disk'[k])
    <3>1. CASE k \in DOMAIN segments
      BY <1>1, <1>2, <1>5, <2>1, <2>3, <3>1
    <3>2. CASE k = Len(segments) + 1
      BY <1>1, <1>2, <1>5, <2>1, <2>2, <2>3, <3>2
    <3>3. QED BY <1>2, <2>4, <3>1, <3>2
  <2>6. segIndex' = Len(segments')
    BY <1>1, <2>1, <2>3
  <2>7. QED BY <1>2, <1>5, <2>1, <2>3, <2>5, <2>6
<1>8. CASE HashesTaken
  <2>1. segments' = Hashed /\ UNCHANGED <<disk, buffer, segIndex, segEvents, open>>
    BY <1>8 DEF HashesTaken
  <2>2. \A k \in DOMAIN segments : segments[k] \in Segment
    BY <1>2, ElementOfSeq
  <2>3. /\ DOMAIN Hashed = DOMAIN segments
        /\ \A k \in DOMAIN segments : Hashed[k].index = segments[k].index /\ Hashed[k].events = segments[k].events
    BY <2>2 DEF Hashed, Segment
  <2>4. Len(Hashed) = Len(segments)
    BY <2>3, HashedType, LenProperties, <1>2 DEF TypeOK
  <2>5. \A k \in DOMAIN Hashed : Hashed[k].index = k /\ Hashed[k].events = Len(disk[k])
    BY <1>1, <2>3, Zenon
  <2>6. QED BY <1>1, <2>1, <2>4, <2>5
<1>9. CASE Wrote
  <2>1. /\ open /\ task = "write" /\ buffer' = Append(buffer, held[1]) /\ segEvents' = segEvents + 1
        /\ UNCHANGED <<disk, segments, segIndex, open>>
    BY <1>9 DEF Wrote
  <2>2. held[1] \in Line
    <3>1. held # <<>> /\ held \in Seq(Nat)
      BY <2>1 DEF ControlInv, TypeOK, QueueType
    <3>2. QED BY <3>1 DEF Line
  <2>3. Len(buffer') = Len(buffer) + 1
    BY <1>2, <2>1, <2>2, AppendProperties
  <2>4. segIndex \in DOMAIN disk
    BY <2>1 DEF FilesInv
  <2>5. segEvents' = Len(disk'[segIndex']) + Len(buffer')
    BY <1>1, <1>2, <2>1, <2>3, <2>4
  <2>6. QED BY <1>1, <2>1, <2>5
<1>10. QED BY <1>1, <1>3, <1>4, <1>6, <1>7, <1>8, <1>9 DEF Calm, Took, Accepted

(* A buffer that goes on with the numbers may be appended to the last file. *)
LEMMA InOrderAppend ==
  ASSUME NEW files, NEW last \in Nat, last # 0, files \in [1..last -> Seq(Line)],
         NEW n \in Nat, InOrder(files, n),
         NEW b \in Seq(Line), \A j \in DOMAIN b : b[j] = n + j
  PROVE  InOrder([files EXCEPT ![last] = files[last] \o b], n + Len(b))
<1> DEFINE new == [files EXCEPT ![last] = files[last] \o b]
           old == Len(files[last])
<1>1. last \in 1..last
  OBVIOUS
<1>2. /\ files[last] \in Seq(Line) /\ old \in Nat /\ DOMAIN files[last] = 1..old
      /\ Len(b) \in Nat /\ DOMAIN b = 1..Len(b)
  BY <1>1, LenProperties
<1>3. /\ DOMAIN new = 1..last /\ DOMAIN files = 1..last
      /\ new[last] = files[last] \o b
      /\ \A k \in 1..last : k # last => new[k] = files[k]
  BY <1>1
<1>4. /\ DOMAIN new[last] = 1..old + Len(b)
      /\ \A i \in 1..old : new[last][i] = files[last][i]
      /\ \A j \in 1..Len(b) : new[last][old + j] = n + j
  <2>1. /\ Len(files[last] \o b) = old + Len(b) /\ files[last] \o b \in Seq(Line)
        /\ \A i \in 1..old + Len(b) : (files[last] \o b)[i] = IF i <= old THEN files[last][i] ELSE b[i - old]
    BY <1>2, ConcatProperties
  <2>2. DOMAIN new[last] = 1..old + Len(b)
    BY <1>3, <2>1, LenProperties
  <2> HIDE DEF old, new
  <2>3. ASSUME NEW i \in 1..old PROVE new[last][i] = files[last][i]
    BY <1>2, <1>3, <2>1
  <2>4. ASSUME NEW j \in 1..Len(b) PROVE new[last][old + j] = n + j
    <3>1. old + j \in 1..old + Len(b) /\ ~(old + j <= old) /\ (old + j) - old = j
      BY <1>2
    <3>2. new[last][old + j] = b[j]
      BY <1>3, <2>1, <3>1
    <3>3. QED BY <1>2, <3>2
  <2>5. QED BY <2>2, <2>3, <2>4
<1> HIDE DEF old, new
(* A line of the new files is an old one or one of the buffer. *)
<1>5. ASSUME NEW k \in DOMAIN new, NEW i \in DOMAIN new[k]
      PROVE  \/ i \in DOMAIN files[k] /\ new[k][i] = files[k][i] /\ files[k][i] \in 1..n
             \/ k = last /\ i - old \in 1..Len(b) /\ i \in Nat /\ new[k][i] = n + (i - old)
  <2>1. CASE k # last
    BY <1>3, <2>1 DEF InOrder
  <2>2. CASE k = last /\ i \in 1..old
    BY <1>1, <1>2, <1>3, <1>4, <2>2 DEF InOrder
  <2>3. CASE k = last /\ i \notin 1..old
    <3>1. i \in 1..old + Len(b) /\ i \in Nat
      BY <1>4, <2>3
    <3>2. i - old \in 1..Len(b) /\ i = old + (i - old)
      BY <1>2, <2>3, <3>1
    <3>3. QED BY <1>4, <2>3, <3>1, <3>2
  <2>4. QED BY <2>1, <2>2, <2>3
<1>6. ASSUME NEW k \in DOMAIN new, NEW i \in DOMAIN new[k]
      PROVE  new[k][i] \in 1..n + Len(b)
  BY <1>2, <1>5
<1>7. ASSUME NEW k \in DOMAIN new, NEW l \in DOMAIN new, NEW i \in DOMAIN new[k], NEW j \in DOMAIN new[l],
             k < l \/ (k = l /\ i < j)
      PROVE  new[k][i] < new[l][j]
  <2>1. CASE i \in DOMAIN files[k] /\ new[k][i] = files[k][i] /\ files[k][i] \in 1..n
    <3>1. CASE j \in DOMAIN files[l] /\ new[l][j] = files[l][j]
      BY <1>3, <1>7, <2>1, <3>1 DEF InOrder
    <3>2. CASE j - old \in 1..Len(b) /\ new[l][j] = n + (j - old)
      <4>1. new[k][i] \in Nat /\ new[k][i] <= n
        BY <2>1
      <4>2. \A m \in 1..Len(b) : n + m > n /\ n + m \in Nat
        BY <1>2
      <4>3. new[l][j] > n /\ new[l][j] \in Nat
        BY <3>2, <4>2
      <4>4. QED BY <4>1, <4>3
    <3>3. QED BY <1>5, <3>1, <3>2
  <2>2. CASE k = last /\ i - old \in 1..Len(b) /\ i \in Nat /\ new[k][i] = n + (i - old)
    <3>1. l \in 1..last
      BY <1>3
    <3>2. k = l /\ i < j
      BY <1>7, <2>2, <3>1
    <3>3. ~(j \in DOMAIN files[l])
      <4>1. i > old
        BY <1>2, <2>2
      <4>2. \A m \in 1..old : ~(i < m)
        BY <1>2, <2>2, <4>1
      <4>3. QED BY <1>2, <2>2, <3>2, <4>2 DEF old
    <3>4. j - old \in 1..Len(b) /\ j \in Nat /\ new[l][j] = n + (j - old)
      BY <1>5, <3>3
    <3>5. \A s, t \in Nat : s < t => n + (s - old) < n + (t - old)
      BY <1>2
    <3>6. n + (i - old) < n + (j - old)
      BY <2>2, <3>2, <3>4, <3>5
    <3>7. QED BY <2>2, <3>4, <3>6, Zenon
  <2>3. QED BY <1>5, <2>1, <2>2
<1>8. ASSUME NEW p \in 1..n + Len(b)
      PROVE  \E k \in DOMAIN new : \E i \in DOMAIN new[k] : new[k][i] = p
  <2>1. CASE p \in 1..n
    <3>1. PICK k \in DOMAIN files : \E i \in DOMAIN files[k] : files[k][i] = p
      BY <2>1 DEF InOrder
    <3>2. PICK i \in DOMAIN files[k] : files[k][i] = p
      BY <3>1
    <3>3. CASE k # last
      BY <1>3, <3>1, <3>2, <3>3
    <3>4. CASE k = last
      <4>1. i \in 1..old
        BY <1>2, <3>2, <3>4 DEF old
      <4>2. i \in DOMAIN new[last] /\ new[last][i] = p
        BY <1>2, <1>4, <3>2, <3>4, <4>1
      <4>3. QED BY <1>1, <1>3, <4>2
    <3>5. QED BY <3>3, <3>4
  <2>2. CASE p \notin 1..n
    <3>1. p - n \in 1..Len(b) /\ p = n + (p - n)
      BY <1>2, <2>2
    <3>2. old + (p - n) \in DOMAIN new[last] /\ new[last][old + (p - n)] = p
      <4>1. \A m \in 1..Len(b) : old + m \in 1..old + Len(b)
        BY <1>2
      <4>2. QED BY <1>4, <3>1, <4>1
    <3>3. QED BY <1>1, <1>3, <3>2
  <2>3. QED BY <2>1, <2>2
<1>9. InOrder(new, n + Len(b))
  BY <1>6, <1>7, <1>8, Zenon DEF InOrder
<1>10. QED BY <1>9 DEF new, old

(* Adding an empty file changes nothing. *)
LEMMA InOrderOpen ==
  ASSUME NEW files, NEW n, InOrder(files, n), NEW x
  PROVE  InOrder([k \in DOMAIN files \cup {x} |-> IF k \in DOMAIN files THEN files[k] ELSE <<>>], n)
<1> DEFINE new == [k \in DOMAIN files \cup {x} |-> IF k \in DOMAIN files THEN files[k] ELSE <<>>]
<1>1. DOMAIN <<>> = {}
  OBVIOUS
<1>2. DOMAIN new = DOMAIN files \cup {x} /\ \A k \in DOMAIN files : new[k] = files[k]
  OBVIOUS
<1>3. \A k \in DOMAIN new : k \notin DOMAIN files => DOMAIN new[k] = {}
  BY <1>1
<1> HIDE DEF new
<1>4. \A k \in DOMAIN new : \A i \in DOMAIN new[k] : k \in DOMAIN files /\ i \in DOMAIN files[k] /\ new[k][i] = files[k][i]
  BY <1>2, <1>3
<1>5. InOrder(new, n)
  <2>1. \A k \in DOMAIN new : \A i \in DOMAIN new[k] : new[k][i] \in 1..n
    BY <1>4 DEF InOrder
  <2>2. \A k, l \in DOMAIN new : \A i \in DOMAIN new[k], j \in DOMAIN new[l] :
           (k < l \/ (k = l /\ i < j)) => new[k][i] < new[l][j]
    BY <1>4 DEF InOrder
  <2>3. \A p \in 1..n : \E k \in DOMAIN new : \E i \in DOMAIN new[k] : new[k][i] = p
    BY <1>2 DEF InOrder
  <2>4. QED BY <2>1, <2>2, <2>3, Zenon DEF InOrder
<1>6. QED BY <1>5 DEF new

(* While also nothing has been dropped, the files, the buffer, the packet  *)
(* in work and the queue hold the numbers of all packets, in this order.   *)
InHand == IF task = "write" THEN 1 ELSE 0

LinesTell ==
  errors = 0 /\ stopper # "crashed" /\ dropped = 0 =>
    /\ Len(buffer) <= written
    /\ \A j \in DOMAIN buffer : buffer[j] = written - Len(buffer) + j
    /\ InOrder(disk, written - Len(buffer))
    /\ task = "write" => held[1] = written + 1
    /\ \A j \in DOMAIN queue : queue[j] = written + InHand + j

LEMMA LinesTellStep ==
  ASSUME TypeOK, ControlInv, FilesInv, OfferInv, FilesTell, NoSilentLoss, LinesTell, [Next]_vars
  PROVE  LinesTell'
<1> SUFFICES ASSUME errors' = 0, stopper' # "crashed", dropped' = 0
             PROVE  /\ Len(buffer') <= written'
                    /\ \A j \in DOMAIN buffer' : buffer'[j] = written' - Len(buffer') + j
                    /\ InOrder(disk', written' - Len(buffer'))
                    /\ task' = "write" => held'[1] = written' + 1
                    /\ \A j \in DOMAIN queue' : queue'[j] = written' + InHand' + j
  BY DEF LinesTell
<1>a. errors = 0 /\ stopper # "crashed" /\ Calm
  BY CalmStep
<1>b. /\ written \in Nat /\ dropped \in Nat /\ segIndex \in Nat /\ Len(buffer) \in Nat
      /\ buffer \in Seq(Line) /\ queue \in Seq(Nat) /\ Len(queue) \in Nat
      /\ offered \in Seq(Nat) /\ Len(offered) \in Nat
      /\ DOMAIN buffer = 1..Len(buffer) /\ DOMAIN queue = 1..Len(queue)
      /\ disk \in [DOMAIN disk -> Seq(Line)]
  BY LenProperties DEF TypeOK, CountType, QueueType, FileType
<1>c. dropped = 0 /\ ~CountDrop
  BY <1>a, <1>b DEF Calm, Wrote, Took, Accepted, SamePackets, CountDrop
<1>d. /\ Len(buffer) <= written
      /\ \A j \in DOMAIN buffer : buffer[j] = written - Len(buffer) + j
      /\ InOrder(disk, written - Len(buffer))
      /\ task = "write" => held[1] = written + 1
      /\ \A j \in DOMAIN queue : queue[j] = written + InHand + j
  BY <1>a, <1>c DEF LinesTell
<1>e. DOMAIN disk = 1..segIndex /\ (~open => buffer = <<>>)
  BY <1>a DEF FilesTell
<1>f. InHand \in {0, 1}
  BY DEF InHand
<1> DEFINE n == written - Len(buffer)
<1>g. n \in Nat /\ n + Len(buffer) = written
  BY <1>b, <1>d
<1>h. Len(<<>>) = 0 /\ DOMAIN <<>> = {}
  OBVIOUS
(* What is known of the packets when the step moves none. *)
<1>1. ASSUME SamePackets
      PROVE  /\ written' = written /\ UNCHANGED queue
             /\ task' = "write" => held'[1] = written' + 1
             /\ \A j \in DOMAIN queue' : queue'[j] = written' + InHand' + j
  <2>1. UNCHANGED <<queue, written, InHand>> /\ (task' = "write" => task = "write" /\ held' = held)
    BY <1>1 DEF SamePackets, InHand
  <2>2. QED BY <1>d, <2>1
<1>2. CASE SamePackets /\ (SameFiles \/ HashesTaken)
  <2>1. UNCHANGED <<disk, buffer>>
    BY <1>2 DEF SameFiles, HashesTaken
  <2>2. QED BY <1>1, <1>2, <1>d, <2>1
<1>3. CASE SamePackets /\ Opened
  <2>1. buffer' = <<>> /\ buffer = <<>>
    BY <1>3, <1>e DEF Opened
  <2>2. disk' = [k \in DOMAIN disk \cup {segIndex + 1} |-> IF k \in DOMAIN disk THEN disk[k] ELSE <<>>]
    BY <1>3 DEF Opened, OpenNext
  <2>3. InOrder(disk, n)
    BY <1>d
  <2> HIDE DEF n
  <2>4. InOrder(disk', n)
    BY <2>2, <2>3, InOrderOpen, Zenon
  <2>5. written - 0 = written
    BY <1>b
  <2>6. n = written
    BY <1>b, <1>h, <2>1 DEF n
  <2>7. QED BY <1>1, <1>3, <1>b, <1>h, <2>1, <2>4, <2>5, <2>6
<1>4. CASE SamePackets /\ (Flushed \/ Closed)
  <2>1. /\ open /\ disk' = [disk EXCEPT ![segIndex] = disk[segIndex] \o buffer] /\ buffer' = <<>>
    BY <1>4 DEF Flushed, FullFlush, Closed, AppendTo
  <2>2. segIndex # 0 /\ disk \in [1..segIndex -> Seq(Line)]
    <3>1. segIndex \in DOMAIN disk
      BY <2>1 DEF FilesInv
    <3>2. segIndex \in 1..segIndex
      BY <1>e, <3>1, Zenon
    <3>3. QED BY <1>b, <1>e, <3>2
  <2>3. InOrder(disk, n) /\ \A j \in DOMAIN buffer : buffer[j] = n + j
    BY <1>d
  <2> HIDE DEF n
  <2>4. InOrder(disk', n + Len(buffer))
    BY <1>b, <1>g, <2>1, <2>2, <2>3, InOrderAppend
  <2>5. InOrder(disk', written - 0)
    BY <1>b, <1>g, <2>4
  <2>6. QED BY <1>1, <1>4, <1>b, <1>h, <2>1, <2>5
<1>5. CASE Wrote
  <2>1. /\ task = "write" /\ task' # "write" /\ buffer' = Append(buffer, held[1]) /\ written' = written + 1
        /\ UNCHANGED <<disk, queue>> /\ held[1] = written + 1
    BY <1>5, <1>d DEF Wrote
  <2>2. written + 1 \in Line
    BY <1>b DEF Line
  <2>3. /\ Len(buffer') = Len(buffer) + 1 /\ buffer' \in Seq(Line)
        /\ \A j \in 1..Len(buffer) : buffer'[j] = buffer[j]
        /\ buffer'[Len(buffer) + 1] = written + 1
    BY <1>b, <2>1, <2>2, AppendProperties
  <2>4. DOMAIN buffer' = 1..Len(buffer) + 1
    BY <2>3, LenProperties
  <2>5. written' - Len(buffer') = n /\ Len(buffer') <= written'
    BY <1>b, <1>d, <2>1, <2>3
  <2>6. \A j \in DOMAIN buffer : buffer[j] = n + j
    BY <1>d
  <2>7. InOrder(disk', n)
    BY <1>d, <2>1
  <2> HIDE DEF n
  <2>8. ASSUME NEW j \in DOMAIN buffer' PROVE buffer'[j] = n + j
    <3>1. CASE j \in 1..Len(buffer)
      BY <1>b, <2>3, <2>6, <3>1
    <3>2. CASE j = Len(buffer) + 1
      <4>1. n + (Len(buffer) + 1) = written + 1
        BY <1>b, <1>g
      <4>2. QED BY <2>3, <3>2, <4>1
    <3>3. j \in 1..Len(buffer) \/ j = Len(buffer) + 1
      <4>1. j \in 1..Len(buffer) + 1 /\ Len(buffer) \in Nat
        BY <1>b, <2>4, Zenon
      <4>2. QED BY <4>1
    <3>4. QED BY <3>1, <3>2, <3>3
  <2>9. ASSUME NEW j \in DOMAIN queue' PROVE queue'[j] = written' + InHand' + j
    <3>1. InHand = 1 /\ InHand' = 0
      BY <2>1 DEF InHand
    <3>2. queue'[j] = written + 1 + j /\ j \in Nat
      BY <1>b, <1>d, <2>1, <3>1
    <3>3. QED BY <1>b, <2>1, <3>1, <3>2
  <2>10. QED BY <2>1, <2>5, <2>7, <2>8, <2>9
<1>6. CASE Took
  <2>1. /\ task = "get" /\ task' = "write" /\ held' = <<Head(queue)>> /\ queue' = Tail(queue) /\ queue # <<>>
        /\ UNCHANGED <<disk, buffer, written>>
    BY <1>6 DEF Took, SameFiles
  <2>2. InHand = 0 /\ InHand' = 1
    BY <2>1 DEF InHand
  <2>3. /\ Len(queue) # 0 /\ Head(queue) = queue[1] /\ Len(Tail(queue)) = Len(queue) - 1
        /\ Tail(queue) \in Seq(Nat) /\ \A j \in 1..Len(Tail(queue)) : Tail(queue)[j] = queue[j + 1]
    BY <1>b, <2>1, HeadTailProperties, EmptySeq
  <2>4. held'[1] = written' + 1
    <3>1. 1 \in DOMAIN queue
      BY <1>b, <2>3
    <3>2. queue[1] = written + 0 + 1
      BY <1>d, <2>2, <3>1
    <3>3. QED BY <1>b, <2>1, <2>3, <3>2
  <2>5. ASSUME NEW j \in DOMAIN queue' PROVE queue'[j] = written' + InHand' + j
    <3>1. j \in 1..Len(queue) - 1
      BY <2>1, <2>3, LenProperties
    <3>2. queue'[j] = queue[j + 1] /\ j + 1 \in DOMAIN queue /\ j \in Nat
      BY <1>b, <2>1, <2>3, <3>1
    <3>3. queue[j + 1] = written + 0 + (j + 1)
      BY <1>d, <2>2, <3>2
    <3>4. QED BY <1>b, <2>1, <2>2, <3>2, <3>3
  <2>6. QED BY <1>d, <2>1, <2>4, <2>5
<1>7. CASE Accepted
  <2> DEFINE p == Len(offered) + 1
  <2>1. /\ queue' = Append(queue, p) /\ UNCHANGED <<disk, buffer, written, held, task>>
    BY <1>7, <1>c DEF Accepted, SameFiles
  <2>2. /\ Len(queue') = Len(queue) + 1 /\ queue' \in Seq(Nat) /\ queue'[Len(queue) + 1] = p
        /\ \A j \in 1..Len(queue) : queue'[j] = queue[j]
    BY <1>b, <2>1, AppendProperties
  <2>3. p = written + InHand + (Len(queue) + 1)
    <3>1. written + dropped + Len(queue) + InHand <= Len(offered)
          /\ Len(offered) <= written + dropped + Len(queue) + InHand + errors
      BY Zenon DEF NoSilentLoss, Accounted, InHand
    <3>2. InHand \in Nat
      BY <1>f
    <3> HIDE DEF InHand
    <3>3. Len(offered) = written + Len(queue) + InHand
      BY <1>a, <1>b, <1>c, <3>1, <3>2
    <3>4. written \in Nat /\ Len(queue) \in Nat
      BY <1>b
    <3>5. written + Len(queue) + InHand + 1 = written + InHand + (Len(queue) + 1)
      BY <3>2, <3>4
    <3>6. QED BY <3>3, <3>5, Zenon DEF p
  <2>4. DOMAIN queue' = 1..Len(queue) + 1
    BY <2>2, LenProperties
  <2>5. UNCHANGED InHand
    BY <2>1 DEF InHand
  <2> HIDE DEF p
  <2>6. ASSUME NEW j \in DOMAIN queue' PROVE queue'[j] = written + InHand + j
    <3>1. CASE j \in 1..Len(queue)
      BY <1>b, <1>d, <2>2, <3>1
    <3>2. CASE j = Len(queue) + 1
      BY <2>2, <2>3, <3>2
    <3>3. QED BY <1>b, <2>4, <3>1, <3>2
  <2>7. QED BY <1>d, <2>1, <2>5, <2>6
<1>8. QED BY <1>a, <1>2, <1>3, <1>4, <1>5, <1>6, <1>7 DEF Calm

-----------------------------------------------------------------------------
(*                    the documents and what they tell                     *)

(* From the hashing on, the records carry the content of their files, and  *)
(* count and root are theirs.                                              *)
SealInv ==
  stopper \in {"integrity", "summary", "manifest"} \/ (stopper = "done" /\ Committed) =>
    /\ finalized /\ ~open /\ segCount = Len(segments) /\ root = RunRoot(segments)
    /\ \A k \in DOMAIN segments : segments[k].sha = disk[segments[k].index]

(* When stop() has returned, a committed run has the documents the writer  *)
(* would write now, and a run without an error is committed.               *)
DoneInv ==
  stopper = "done" =>
    /\ Committed => manifest = ManifestDoc /\ summary = SummaryDoc /\ integrity = IntegrityDoc
    /\ errors = 0 => Committed

(* The documents of a committed run without an error or a drop tell of     *)
(* files that held every packet, and go on to tell it when a power loss    *)
(* has shortened one.                                                      *)
KeptInv ==
  Committed /\ summary.errors = 0 /\ summary.dropped = 0 =>
    LET segs == integrity.segments
    IN /\ DOMAIN disk = DOMAIN segs /\ DOMAIN segs \subseteq Nat
       /\ \A k \in DOMAIN segs : segs[k].index = k
       /\ InOrder([k \in DOMAIN segs |-> segs[k].sha], Len(offered))

(* The steps that neither seal nor commit a run. *)
LEMMA BeforeSealing ==
  ASSUME TypeOK, ControlInv, StageInv, CommitInv, [Next]_vars,
         ~FinalizeHash, ~FinalizeIntegrity, ~FinalizeSummary, ~FinalizeManifest,
         ~PowerLoss, vars' # vars
  PROVE  /\ stopper' \notin {"integrity", "summary", "manifest", "done"}
         /\ ~Committed /\ ~Committed'
<1>1. CASE Enqueue \/ RunGet \/ RunIdle \/ RunIdleFlushed
  BY <1>1 DEF Enqueue, RunGet, RunIdle, RunIdleFlushed, LoopFree, flow, docs, CommitInv, Committed
<1>2. CASE RunReopenForWrite \/ RunWrite \/ RunRotate \/ RunNoRotate \/ RunReopen \/ RunTail
  BY <1>2 DEF RunReopenForWrite, RunWrite, RunRotate, RunNoRotate, RunReopen, RunTail, Alive,
     docs, CommitInv, Committed, ControlInv, FinalStates
<1>3. CASE RunManifest \/ StartTask
  <2>1. WriteManifest /\ ~finalized /\ stopper' \in {"up", stopper}
        /\ stopper \notin {"integrity", "summary", "manifest", "done", "crashed"}
    BY <1>3 DEF RunManifest, StartTask, StageInv, Alive, ControlInv, FinalStates
  <2>2. ~Committed
    BY <2>1 DEF CommitInv
  <2>3. ~Committed'
    BY <2>1, <2>2 DEF WriteManifest, ManifestDoc, Committed
  <2>4. QED BY <2>1, <2>2, <2>3
<1>4. CASE RunFlushed \/ Stop \/ StopJoined \/ StopFlush \/ StopClose
  BY <1>4 DEF RunFlushed, Stop, StopJoined, StopFlush, StopClose, LoopFree, docs, CommitInv, Committed
<1>5. CASE StartMkdir \/ StartOpen \/ Crash
  BY <1>5 DEF StartMkdir, StartOpen, Crash, Alive, docs, CommitInv, Committed
<1>6. QED BY NextIsStep, <1>1, <1>2, <1>3, <1>4, <1>5 DEF Step

LEMMA SealStep ==
  ASSUME TypeOK, ControlInv, FilesInv, StageInv, CommitInv, SealInv, [Next]_vars
  PROVE  SealInv'
<1> DEFINE Now == /\ finalized /\ ~open /\ segCount = Len(segments) /\ root = RunRoot(segments)
                  /\ \A k \in DOMAIN segments : segments[k].sha = disk[segments[k].index]
<1>1. CASE FinalizeHash
  <2>1. CASE FinalizeFails
    BY <2>1 DEF FinalizeFails, SealInv
  <2>2. CASE ~FinalizeFails
    <3>1. /\ segments' = Hashed /\ segCount' = Len(segments) /\ root' = RunRoot(Hashed) /\ finalized' = TRUE
          /\ open' = open /\ disk' = disk /\ ~open
      BY <1>1, <2>2 DEF FinalizeHash, StageInv
    <3>2. \A k \in DOMAIN segments : segments[k] \in Segment
      BY ElementOfSeq, LenProperties DEF TypeOK, FileType
    <3>3. /\ DOMAIN Hashed = DOMAIN segments
          /\ \A k \in DOMAIN segments : /\ Hashed[k].index = segments[k].index
                                        /\ Hashed[k].sha = disk[segments[k].index]
      BY <3>2 DEF Hashed, Segment
    <3>4. Len(Hashed) = Len(segments)
      BY <3>3, HashedType, LenProperties DEF TypeOK, FileType
    <3>5. Now'
      BY <3>1, <3>3, <3>4
    <3>6. QED BY <3>5 DEF SealInv
  <2>3. QED BY <2>1, <2>2
<1>2. CASE FinalizeIntegrity \/ FinalizeSummary
  <2>1. stopper \in {"integrity", "summary"} /\ UNCHANGED <<open, segCount, segments, root, disk>>
    BY <1>2 DEF FinalizeIntegrity, FinalizeSummary, seg
  <2>2. FinalizeFails \/ UNCHANGED finalized
    BY <1>2 DEF FinalizeIntegrity, FinalizeSummary
  <2>3. CASE FinalizeFails
    BY <2>3 DEF FinalizeFails, SealInv
  <2>4. CASE UNCHANGED finalized
    BY <2>1, <2>4 DEF SealInv
  <2>5. QED BY <2>2, <2>3, <2>4
<1>3. CASE FinalizeManifest
  <2>1. /\ stopper \in {"manifest", "abort"} /\ stopper' = "done" /\ WriteManifest
        /\ UNCHANGED <<open, segCount, segments, root, disk, finalized>>
    BY <1>3 DEF FinalizeManifest, seg, final
  <2>2. CASE stopper = "manifest"
    BY <2>1, <2>2 DEF SealInv
  <2>3. CASE stopper = "abort"
    <3>1. ~finalized /\ ~Committed
      BY <2>3 DEF StageInv, CommitInv
    <3>2. ~Committed'
      BY <2>1, <3>1 DEF WriteManifest, ManifestDoc, Committed
    <3>3. QED BY <2>1, <3>2 DEF SealInv
  <2>4. QED BY <2>1, <2>2, <2>3
<1>4. CASE PowerLoss
  BY <1>4 DEF PowerLoss, SealInv
<1>5. CASE UNCHANGED vars
  BY <1>5 DEF vars, flow, seg, final, docs, SealInv, Committed
<1>6. QED BY BeforeSealing, <1>1, <1>2, <1>3, <1>4, <1>5 DEF SealInv

LEMMA DoneStep ==
  ASSUME TypeOK, ControlInv, StageInv, CommitInv, OfferInv, SealInv, DoneInv, [Next]_vars
  PROVE  DoneInv'
<1>1. CASE FinalizeManifest
  <2>1. /\ stopper \in {"manifest", "abort"} /\ WriteManifest /\ ~Committed
        /\ UNCHANGED <<counts, seg, final, summary, integrity>>
    BY <1>1 DEF FinalizeManifest, CommitInv
  <2>2. CASE stopper = "manifest" /\ Works /\ manifest' = ManifestDoc
    <3>1. summary = SummaryDoc /\ integrity = IntegrityDoc /\ finalized
      BY <2>2 DEF StageInv
    <3>2. UNCHANGED <<ManifestDoc, SummaryDoc, IntegrityDoc>>
      BY <2>1, <2>2 DEF Works, counts, seg, final, ManifestDoc, SummaryDoc, IntegrityDoc,
                        SegmentsWithCurrent, CurrentSegment
    <3>3. manifest' # NULL /\ manifest'.finalized
      <4>1. ManifestDoc # NULL
        BY DocsHaveType, NullAssumption
      <4>2. QED BY <2>2, <3>1, <4>1 DEF ManifestDoc
    <3>4. QED BY <2>1, <2>2, <3>1, <3>2, <3>3 DEF DoneInv, Committed
  <2>3. CASE DocRaises /\ UNCHANGED manifest
    <3>1. errors' # 0
      BY <2>3 DEF DocRaises, Raises, TypeOK, CountType
    <3>2. ~Committed'
      BY <2>1, <2>3 DEF Committed
    <3>3. QED BY <3>1, <3>2 DEF DoneInv
  <2>4. CASE stopper = "abort" /\ Works /\ manifest' = ManifestDoc
    <3>1. ~finalized /\ errors # 0
      BY <2>4 DEF StageInv, OfferInv
    <3>2. ~Committed' /\ errors' # 0
      BY <2>4, <3>1 DEF ManifestDoc, Committed, Works
    <3>3. QED BY <3>2 DEF DoneInv
  <2>5. QED BY <2>1, <2>2, <2>3, <2>4 DEF WriteManifest
<1>2. CASE FinalizeHash \/ FinalizeIntegrity \/ FinalizeSummary \/ PowerLoss
  BY <1>2 DEF FinalizeHash, FinalizeIntegrity, FinalizeSummary, FinalizeFails, PowerLoss, DoneInv
<1>3. CASE UNCHANGED vars
  BY <1>3 DEF vars, flow, seg, final, docs, counts, DoneInv, Committed, ManifestDoc, SummaryDoc,
              IntegrityDoc, SegmentsWithCurrent, CurrentSegment
<1>4. QED BY BeforeSealing, <1>1, <1>2, <1>3 DEF DoneInv

(* At the end of a run without an error or a drop, the files hold what was *)
(* offered.                                                                *)
LEMMA EndOfCleanRun ==
  ASSUME TypeOK, ControlInv, OfferInv, FilesTell, LinesTell, NoSilentLoss,
         stopper \in FinalStates, ~open, errors = 0, dropped = 0
  PROVE  /\ written = Len(offered) /\ InOrder(disk, written)
         /\ DOMAIN disk = 1..Len(segments) /\ DOMAIN segments = 1..Len(segments)
         /\ \A k \in DOMAIN segments : segments[k].index = k /\ segments[k].events = Len(disk[k])
<1>1. queue = <<>> /\ task = "cancelled" /\ stopper # "crashed"
  BY DEF OfferInv, ControlInv, FinalStates
<1>2. written \in Nat /\ Len(offered) \in Nat /\ Len(<<>>) = 0 /\ Len(segments) \in Nat
      /\ DOMAIN segments = 1..Len(segments)
  BY LenProperties DEF TypeOK, CountType, QueueType, FileType
<1>3. written + 0 + 0 + 0 <= Len(offered) /\ Len(offered) <= written + 0 + 0 + 0 + 0
  BY <1>1, <1>2 DEF NoSilentLoss, Accounted
<1>4. buffer = <<>> /\ InOrder(disk, written - Len(buffer))
  BY <1>1 DEF FilesTell, LinesTell
<1>5. InOrder(disk, written)
  BY <1>2, <1>4
<1>6. DOMAIN disk = 1..segIndex /\ segIndex = Len(segments)
      /\ \A k \in DOMAIN segments : segments[k].index = k /\ segments[k].events = Len(disk[k])
  BY <1>1, <1>2 DEF FilesTell
<1>7. QED BY <1>2, <1>3, <1>5, <1>6

LEMMA KeptStep ==
  ASSUME TypeOK, ControlInv, StageInv, CommitInv, OfferInv, FilesTell, LinesTell, NoSilentLoss,
         SealInv, KeptInv, FilesInv, [Next]_vars
  PROVE  KeptInv'
<1>1. CASE FinalizeManifest
  <2>1. /\ stopper \in {"manifest", "abort"} /\ WriteManifest /\ ~Committed
        /\ UNCHANGED <<offered, counts, seg, final, disk, summary, integrity>>
    BY <1>1 DEF FinalizeManifest, CommitInv, intake
  <2>2. CASE stopper = "manifest" /\ summary.errors = 0 /\ summary.dropped = 0
    <3>1. /\ summary = SummaryDoc /\ integrity = IntegrityDoc /\ ~open
          /\ \A k \in DOMAIN segments : segments[k].sha = disk[segments[k].index]
      BY <2>2 DEF StageInv, SealInv
    <3>2. errors = 0 /\ dropped = 0 /\ integrity.segments = segments
      BY <2>2, <3>1 DEF SummaryDoc, IntegrityDoc
    <3>3. /\ written = Len(offered) /\ InOrder(disk, written)
          /\ DOMAIN disk = 1..Len(segments) /\ DOMAIN segments = 1..Len(segments)
          /\ \A k \in DOMAIN segments : segments[k].index = k
      BY <2>2, <3>1, <3>2, EndOfCleanRun DEF FinalStates
    <3>4. disk = [k \in DOMAIN segments |-> segments[k].sha]
      <4>1. disk = [k \in DOMAIN disk |-> disk[k]]
        BY DEF TypeOK, FileType
      <4>2. \A k \in DOMAIN segments : segments[k].sha = disk[k]
        BY <3>1, <3>3
      <4>3. DOMAIN segments = DOMAIN disk
        BY <3>3, Zenon
      <4>4. QED BY <4>1, <4>2, <4>3, Zenon
    <3>5. DOMAIN segments \subseteq Nat
      BY <3>3
    <3>6. InOrder([k \in DOMAIN segments |-> segments[k].sha], Len(offered))
      BY <3>3, <3>4, Zenon
    <3>7. UNCHANGED <<integrity, disk, offered>>
      BY <2>1
    <3>8. QED BY <3>2, <3>3, <3>5, <3>6, <3>7, Zenon DEF KeptInv
  <2>3. CASE stopper = "abort"
    <3>1. ~finalized
      BY <2>3 DEF StageInv
    <3>2. ~Committed'
      BY <2>1, <3>1 DEF WriteManifest, ManifestDoc, Committed
    <3>3. QED BY <3>2 DEF KeptInv
  <2>4. QED BY <2>1, <2>2, <2>3, Zenon DEF KeptInv
<1>2. CASE FinalizeHash \/ FinalizeIntegrity \/ FinalizeSummary
  <2>1. stopper \notin {"done", "crashed"} /\ UNCHANGED manifest
    BY <1>2 DEF FinalizeHash, FinalizeIntegrity, FinalizeSummary, docs
  <2>2. ~Committed'
    BY <2>1 DEF CommitInv, Committed
  <2>3. QED BY <2>2 DEF KeptInv
<1>3. CASE PowerLoss
  <2>1. UNCHANGED <<offered, manifest, summary, integrity>> /\ DOMAIN disk' = DOMAIN disk
    BY <1>3 DEF PowerLoss, intake, docs
  <2>2. QED BY <2>1, Zenon DEF KeptInv, Committed
<1>4. CASE UNCHANGED vars
  BY <1>4 DEF vars, intake, docs, KeptInv, Committed
<1>5. QED BY BeforeSealing, <1>1, <1>2, <1>3, <1>4 DEF KeptInv

-----------------------------------------------------------------------------
(*                              theorems                                   *)

IInv == /\ TypeOK /\ ControlInv /\ FilesInv /\ StageInv /\ CommitInv
        /\ FinalizedManifestIsLast /\ NoSilentLoss
        /\ OfferInv /\ FilesTell /\ LinesTell
        /\ SealInv /\ DoneInv /\ KeptInv

LEMMA InitIInv == Init => IInv
<1> SUFFICES ASSUME Init PROVE IInv
  OBVIOUS
<1>1. <<>> \in Seq(Nat) /\ <<>> \in Seq(Line) /\ <<>> \in Seq(Segment) /\ Len(<<>>) = 0
  OBVIOUS
<1>2. FlowType /\ QueueType /\ CountType
  <2>1. queue = <<>> /\ held = <<>> /\ offered = <<>> BY DEF Init
  <2>2. 0 <= QueueSize BY WriterAssumption
  <2>3. QueueType BY <1>1, <2>1, <2>2 DEF QueueType
  <2>4. FlowType /\ CountType BY DEF Init, FlowType, TaskStates, StopStates, CountType
  <2>5. QED BY <2>3, <2>4
<1>3. DOMAIN disk = {} /\ DOMAIN segments = {}
  BY DEF Init
<1>4. FileType /\ FilesInv
  BY <1>1, <1>3 DEF Init, FileType, FilesInv
<1>5. DocType
  BY DEF Init, DocType, Root
<1>6. ControlInv /\ StageInv /\ CommitInv /\ FinalizedManifestIsLast
  BY DEF Init, ControlInv, FinalStates, StageInv, CommitInv, Committed, FinalizedManifestIsLast
<1>7. NoSilentLoss
  BY <1>1 DEF Init, NoSilentLoss, Accounted
<1>8. OfferInv /\ SealInv /\ DoneInv /\ KeptInv
  BY <1>3 DEF Init, OfferInv, FinalStates, SealInv, DoneInv, KeptInv, Committed
<1>9. FilesTell
  <2>1. DOMAIN <<>> = 1..0
    OBVIOUS
  <2>2. QED BY <1>1, <1>3, <2>1 DEF Init, FilesTell
<1>10. LinesTell
  <2>1. InOrder(disk, 0)
    BY <1>3 DEF InOrder
  <2>2. DOMAIN buffer = {} /\ DOMAIN queue = {} /\ 0 - 0 = 0
    BY DEF Init
  <2>3. written = 0 /\ Len(buffer) = 0 /\ task # "write"
    BY <1>1 DEF Init
  <2>4. QED BY <2>1, <2>2, <2>3 DEF LinesTell
<1>11. QED BY <1>2, <1>4, <1>5, <1>6, <1>7, <1>8, <1>9, <1>10, Zenon DEF IInv, TypeOK

LEMMA StepIInv == IInv /\ [Next]_vars => IInv'
<1> SUFFICES ASSUME IInv, [Next]_vars PROVE IInv'
  OBVIOUS
<1> USE DEF IInv
<1>1. FlowType' BY FlowTypeStep DEF TypeOK
<1>2. QueueType' BY QueueTypeStep DEF TypeOK
<1>3. CountType' BY CountTypeStep DEF TypeOK
<1>4. FileType' /\ FilesInv' BY FileTypeStep DEF TypeOK
<1>5. DocType' BY DocTypeStep
<1>6. ControlInv' BY ControlStep DEF TypeOK
<1>7. StageInv' BY StageStep
<1>8. CommitInv' /\ FinalizedManifestIsLast' BY CommitStep
<1>9. NoSilentLoss' BY NoSilentLossStep
<1>10. OfferInv' BY OfferStep
<1>11. FilesTell' BY FilesTellStep
<1>12. LinesTell' BY LinesTellStep
<1>13. SealInv' BY SealStep
<1>14. DoneInv' BY DoneStep
<1>15. KeptInv' BY KeptStep
<1>16. QED BY <1>1, <1>2, <1>3, <1>4, <1>5, <1>6, <1>7, <1>8, <1>9, <1>10, <1>11, <1>12, <1>13, <1>14, <1>15,
              Zenon DEF TypeOK

LEMMA SpecIInv == Spec => []IInv
BY InitIInv, StepIInv, PTL DEF Spec

(* What a run that passes the replay holds. *)
LEMMA PassHolds ==
  ASSUME IInv, ReplayVerdict = "PASS"
  PROVE  /\ manifest # NULL /\ summary # NULL /\ integrity # NULL
         /\ manifest.finalized /\ summary.errors = 0 /\ summary.dropped = 0
         /\ DiskStream = offered
<1>1. Failures(manifest, summary, integrity, disk) = {}
  BY DEF ReplayVerdict, Verdict
<1>2. manifest # NULL /\ summary # NULL /\ integrity # NULL
  BY <1>1 DEF Failures
<1> DEFINE ok == Checks(manifest, summary, integrity, disk)
           segs == integrity.segments
<1>3. \A r \in DOMAIN ok : ok[r]
  <2>1. {r \in DOMAIN ok : ~ok[r]} = {}
    BY <1>1, <1>2 DEF Failures
  <2> HIDE DEF ok
  <2>2. QED BY <2>1
<1>4. /\ ok.MANIFEST_NOT_FINALIZED /\ ok.WRITER_ERRORS_PRESENT /\ ok.PERSISTENT_EVENTS_DROPPED_PRESENT
      /\ ok.SEGMENT_MISMATCH
  <2>1. {"MANIFEST_NOT_FINALIZED", "WRITER_ERRORS_PRESENT", "PERSISTENT_EVENTS_DROPPED_PRESENT",
         "SEGMENT_MISMATCH"} \subseteq DOMAIN ok
    BY DEF Checks
  <2> HIDE DEF ok
  <2>2. QED BY <1>3, <2>1
<1>5. /\ manifest.finalized /\ summary.errors = 0 /\ summary.dropped = 0
      /\ \A k \in DOMAIN segs : SegmentMatches(segs[k], disk)
  BY <1>4 DEF Checks
<1>6. /\ DOMAIN disk = DOMAIN segs /\ DOMAIN segs \subseteq Nat
      /\ \A k \in DOMAIN segs : segs[k].index = k
      /\ InOrder([k \in DOMAIN segs |-> segs[k].sha], Len(offered))
  BY <1>2, <1>5 DEF IInv, KeptInv, Committed
<1>7. \A k \in DOMAIN segs : disk[k] = segs[k].sha
  BY <1>5, <1>6 DEF SegmentMatches
<1>8. disk \in [DOMAIN disk -> Seq(Line)] /\ offered \in Seq(Nat)
      /\ \A i \in DOMAIN offered : offered[i] = i
  BY DEF IInv, TypeOK, FileType, QueueType, OfferInv
<1>9. InOrder(disk, Len(offered))
  <2>1. disk = [k \in DOMAIN segs |-> segs[k].sha]
    BY <1>6, <1>7, <1>8, Zenon
  <2>2. QED BY <1>6, <2>1, Zenon
<1>10. Numbered(disk)
  <2>1. \A k \in DOMAIN disk : DOMAIN disk[k] \subseteq Nat
    BY <1>8, LenProperties
  <2>2. QED BY <1>6, <2>1 DEF Numbered
<1>11. DiskStream = [p \in 1..Len(offered) |-> p]
  BY <1>8, <1>9, <1>10, InOrderLines, LenProperties DEF DiskStream
<1>12. offered = [p \in 1..Len(offered) |-> p]
  <2>1. offered = [p \in 1..Len(offered) |-> offered[p]] /\ DOMAIN offered = 1..Len(offered)
    BY <1>8, LenProperties
  <2>2. QED BY <1>8, <2>1
<1>13. QED BY <1>2, <1>5, <1>11, <1>12, Zenon

(* Counting the lines of a file all of which are numbers. *)
LEMMA CountLines ==
  ASSUME NEW lines \in Seq(Line), \A i \in DOMAIN lines : lines[i] # TORN
  PROVE  Events(lines) = Len(lines) /\ Malformed(lines) = 0
<1>1. DOMAIN lines = 1..Len(lines) /\ Len(lines) \in Nat
  BY LenProperties
<1>2. {i \in DOMAIN lines : lines[i] # TORN} = 1..Len(lines) /\ {i \in DOMAIN lines : lines[i] = TORN} = {}
  BY <1>1
<1>3. 1 \in Int /\ Len(lines) \in Int
  BY <1>1
<1>4. Cardinality(1..Len(lines)) = Len(lines)
  <2>1. Cardinality(1..Len(lines)) = IF 1 > Len(lines) THEN 0 ELSE Len(lines) - 1 + 1
    BY <1>3, FS_Interval
  <2>2. QED BY <1>1, <2>1
<1>5. QED BY <1>2, <1>4, FS_EmptySet DEF Events, Malformed

(* The replay passes a run that was stopped without an error or a drop. *)
LEMMA CleanPasses ==
  ASSUME IInv, stopper = "done", errors = 0, dropped = 0
  PROVE  ReplayVerdict = "PASS"
<1>1. TypeOK /\ Committed
  BY DEF IInv, DoneInv
<1>2. /\ manifest = ManifestDoc /\ summary = SummaryDoc /\ integrity = IntegrityDoc
      /\ finalized /\ ~open /\ segCount = Len(segments) /\ root = RunRoot(segments)
      /\ \A k \in DOMAIN segments : segments[k].sha = disk[segments[k].index]
  BY <1>1 DEF IInv, DoneInv, SealInv
<1>3. /\ written = Len(offered) /\ InOrder(disk, written)
      /\ DOMAIN disk = 1..Len(segments) /\ DOMAIN segments = 1..Len(segments)
      /\ \A k \in DOMAIN segments : segments[k].index = k /\ segments[k].events = Len(disk[k])
  BY <1>2, EndOfCleanRun DEF IInv, FinalStates
<1>4. /\ disk \in [DOMAIN disk -> Seq(Line)] /\ written \in Nat /\ Len(segments) \in Nat
      /\ segments \in Seq(Segment) /\ \A k \in DOMAIN segments : segments[k] \in Segment
  BY <1>1, LenProperties, ElementOfSeq DEF TypeOK, FileType, CountType
<1>5. DOMAIN disk = DOMAIN segments
  BY <1>3, Zenon
<1>6. \A k \in DOMAIN disk : \A i \in DOMAIN disk[k] : disk[k][i] # TORN
  BY <1>3, NullAssumption DEF InOrder
<1>7. ASSUME NEW k \in DOMAIN segments
      PROVE  /\ Events(disk[k]) = segments[k].events /\ Malformed(disk[k]) = 0
             /\ segments[k].index = k /\ segments[k].sha = disk[k] /\ k \in DOMAIN disk
  BY <1>2, <1>3, <1>4, <1>5, <1>6, CountLines, Zenon
<1>8. \A k \in DOMAIN segments : SegmentMatches(segments[k], disk)
  BY <1>7, Zenon DEF SegmentMatches
<1>9. TotalEvents(segments, disk) = written
  <2>1. [k \in DOMAIN segments |->
            IF segments[k].index \in DOMAIN disk THEN disk[segments[k].index] ELSE <<>>] = disk
    <3>1. disk = [k \in DOMAIN disk |-> disk[k]]
      BY <1>4
    <3>2. QED BY <1>5, <1>7, <3>1, Zenon
  <2>2. {x \in Places(disk) : disk[x[1]][x[2]] # TORN} = Places(disk)
    BY <1>6, PlacesAre
  <2>3. TotalEvents(segments, disk) = Cardinality(Places(disk))
    BY <2>1, <2>2, Zenon DEF TotalEvents
  <2>4. Numbered(disk)
    <3>1. \A k \in DOMAIN disk : DOMAIN disk[k] \subseteq Nat
      BY <1>4, LenProperties
    <3>2. QED BY <1>3, <3>1 DEF Numbered
  <2>5. QED BY <1>3, <1>4, <2>3, <2>4, InOrderLines
<1>10. ActualRoot(segments, disk) = root
  <2> DEFINE reread == [k \in DOMAIN segments |-> Reread(segments[k], disk)]
  <2>1. ASSUME NEW k \in DOMAIN segments
        PROVE  <<reread[k].index, reread[k].sha, reread[k].events>> =
               <<segments[k].index, segments[k].sha, segments[k].events>>
    <3>1. Reread(segments[k], disk) = [index |-> k, sha |-> disk[k], events |-> Events(disk[k])]
      BY <1>7, Zenon DEF Reread
    <3>2. QED BY <1>7, <3>1
  <2>2. DOMAIN reread = DOMAIN segments
    OBVIOUS
  <2> HIDE DEF reread
  <2>3. RunRoot(reread) = RunRoot(segments)
    BY <2>1, <2>2, Zenon DEF RunRoot
  <2>4. QED BY <1>2, <2>3 DEF ActualRoot, reread
<1>11. segments = <<>> => Len(segments) = 0
  OBVIOUS
<1>12. /\ manifest.finalized /\ manifest.hash_finalized /\ manifest.written = written /\ manifest.root = root
       /\ manifest.segment_count = Len(segments)
       /\ summary.finalized /\ summary.hash_finalized /\ summary.written = written
       /\ summary.segment_count = Len(segments) /\ summary.errors = 0 /\ summary.dropped = 0
       /\ integrity.hash_finalized /\ integrity.segments = segments /\ integrity.root = root
       /\ integrity.segment_count = Len(segments)
  BY <1>2 DEF ManifestDoc, SummaryDoc, IntegrityDoc
<1>13. ExpectedRoot(manifest, integrity) = root
  BY <1>12 DEF ExpectedRoot
<1> DEFINE ok == Checks(manifest, summary, integrity, disk)
<1>14. \A r \in DOMAIN ok : ok[r]
  <2>1. DOMAIN ok =
          {"MANIFEST_NOT_FINALIZED", "MANIFEST_HASH_NOT_FINALIZED", "SUMMARY_NOT_FINALIZED",
           "SUMMARY_HASH_NOT_FINALIZED", "INTEGRITY_HASH_NOT_FINALIZED", "SEGMENT_GAP",
           "SEGMENT_MISMATCH", "SUMMARY_EVENT_COUNT_MISMATCH", "MANIFEST_EVENT_COUNT_MISMATCH",
           "INTEGRITY_SEGMENT_COUNT_MISMATCH", "SUMMARY_SEGMENT_COUNT_MISMATCH",
           "MANIFEST_SEGMENT_COUNT_MISMATCH", "WRITER_ERRORS_PRESENT",
           "PERSISTENT_EVENTS_DROPPED_PRESENT", "RUN_ROOT_METADATA_DISAGREEMENT",
           "RUN_ROOT_SHA256_MISMATCH", "HASH_VERIFICATION_FAILED"}
    BY DEF Checks
  <2>2. \A k \in DOMAIN segments : segments[k].index = k
    BY <1>3
  <2>3. IF segments # <<>>
        THEN \A k \in DOMAIN segments : SegmentMatches(segments[k], disk)
        ELSE Len(segments) = 0 /\ ActualRoot(segments, disk) = root
    BY <1>8, <1>10, <1>11
  <2>4. /\ ok.MANIFEST_NOT_FINALIZED /\ ok.MANIFEST_HASH_NOT_FINALIZED
        /\ ok.SUMMARY_NOT_FINALIZED /\ ok.SUMMARY_HASH_NOT_FINALIZED
        /\ ok.INTEGRITY_HASH_NOT_FINALIZED /\ ok.SEGMENT_GAP
        /\ ok.SEGMENT_MISMATCH /\ ok.SUMMARY_EVENT_COUNT_MISMATCH
        /\ ok.MANIFEST_EVENT_COUNT_MISMATCH /\ ok.INTEGRITY_SEGMENT_COUNT_MISMATCH
        /\ ok.SUMMARY_SEGMENT_COUNT_MISMATCH /\ ok.MANIFEST_SEGMENT_COUNT_MISMATCH
        /\ ok.WRITER_ERRORS_PRESENT /\ ok.PERSISTENT_EVENTS_DROPPED_PRESENT
        /\ ok.RUN_ROOT_METADATA_DISAGREEMENT /\ ok.RUN_ROOT_SHA256_MISMATCH
        /\ ok.HASH_VERIFICATION_FAILED
    BY <1>8, <1>9, <1>10, <1>12, <1>13, <2>2, <2>3 DEF Checks
  <2> HIDE DEF ok
  <2>5. QED BY <2>1, <2>4
<1>15. manifest # NULL /\ summary # NULL /\ integrity # NULL
  BY <1>1, <1>2, DocsHaveType, NullAssumption
<1> HIDE DEF ok
<1>16. Failures(manifest, summary, integrity, disk) = {}
  <2>1. {r \in DOMAIN ok : ~ok[r]} = {}
    BY <1>14
  <2>2. QED BY <1>15, <2>1, Zenon DEF Failures, ok
<1>17. QED BY <1>16 DEF ReplayVerdict, Verdict

(* The counters, the queue, the segment files and the three documents keep *)
(* their types, whatever fails and wherever the process dies.              *)
THEOREM TypeCorrect == Spec => []TypeOK
<1>1. IInv => TypeOK
  BY DEF IInv
<1>2. QED BY <1>1, SpecIInv, PTL

(* enqueue(), _run() and _write_packet() lose no packet without counting a *)
(* drop or an error: the gateway health counters never look better than    *)
(* the run is.                                                             *)
THEOREM NoPacketLostSilently == Spec => []NoSilentLoss
<1>1. IInv => NoSilentLoss
  BY DEF IInv
<1>2. QED BY <1>1, SpecIInv, PTL

(* _finalize_run() writes the manifest last: a manifest that says it is    *)
(* finalized is found only beside a complete summary and integrity file    *)
(* that agree with it, at every crash point.                               *)
THEOREM ManifestCommits == Spec => []FinalizedManifestIsLast
<1>1. IInv => FinalizedManifestIsLast
  BY DEF IInv
<1>2. QED BY <1>1, SpecIInv, PTL

(* A run directory that replay_evidence_run passes holds every packet that *)
(* was handed to enqueue() while the run was active, once and in order:    *)
(* whatever failed, whenever the process died, and whichever segment file  *)
(* a power loss shortened, the replay tells it from a complete run.        *)
THEOREM PassedRunIsComplete == Spec => []PassMeansComplete
<1>1. IInv => PassMeansComplete
  BY PassHolds DEF PassMeansComplete
<1>2. QED BY <1>1, SpecIInv, PTL

(* stop() raises no false alarm: for every queue size and however often    *)
(* the writer rotated, a run in which no operation failed and the queue    *)
(* never overflowed passes the replay when stop() has returned.            *)
THEOREM CleanStopIsPassed == Spec => []CleanStopVerifies
<1>1. IInv => CleanStopVerifies
  <2>1. ASSUME IInv, faults = 0 PROVE errors = 0
    BY <2>1 DEF IInv, OfferInv
  <2>2. QED BY <2>1, CleanPasses DEF CleanStopVerifies
<1>2. QED BY <1>1, SpecIInv, PTL

(* _required_next_action() sends the operator to soak validation only      *)
(* after a stop() whose files on disk pass the replay: the flags of the    *)
(* writer are never ahead of its documents.                                *)
THEOREM ReadyRunIsPassed == Spec => []ReadyMeansVerifiable
<1>1. IInv => ReadyMeansVerifiable
  <2>1. ASSUME NextAction = "RUN_SOAK_VALIDATION" PROVE ~(errors > 0 \/ dropped > 0)
    BY <2>1 DEF NextAction
  <2>2. ASSUME IInv, ~(errors > 0 \/ dropped > 0) PROVE errors = 0 /\ dropped = 0
    BY <2>2 DEF IInv, TypeOK, CountType
  <2>3. QED BY <2>1, <2>2, CleanPasses DEF ReadyMeansVerifiable
<1>2. QED BY <1>1, SpecIInv, PTL

-----------------------------------------------------------------------------
(*                       the evidence log implemented                      *)

(* The run is sealed evidence. *)
IsSealed == /\ manifest # NULL /\ summary # NULL
            /\ manifest.finalized
            /\ summary.errors = 0 /\ summary.dropped = 0

Evidence == IF ReplayVerdict = "PASS" THEN DiskStream ELSE NULL

(* Evidence is all that was offered or nothing, it is nothing before the   *)
(* run is sealed, and when stop() returns on a sealed run it is there.     *)
EvidenceInv == /\ Evidence = NULL \/ Evidence = offered
               /\ ~IsSealed => Evidence = NULL
               /\ IsSealed => stopper \in {"done", "crashed"}
               /\ IsSealed /\ stopper = "done" => Evidence = offered

LEMMA EvidenceIs == IInv => EvidenceInv
<1> SUFFICES ASSUME IInv PROVE EvidenceInv
  OBVIOUS
<1>1. ReplayVerdict = "PASS" => IsSealed /\ Evidence = offered
  BY PassHolds, Zenon DEF IsSealed, Evidence
<1>2. ReplayVerdict # "PASS" => Evidence = NULL
  BY DEF Evidence
<1>3. IsSealed => Committed
  BY DEF IsSealed, Committed
<1>4. IsSealed => stopper \in {"done", "crashed"}
  BY <1>3 DEF IInv, CommitInv
<1>5. ASSUME IsSealed, stopper = "done" PROVE ReplayVerdict = "PASS"
  <2>1. summary = SummaryDoc
    BY <1>3, <1>5 DEF IInv, DoneInv
  <2>2. errors = 0 /\ dropped = 0
    BY <1>5, <2>1 DEF IsSealed, SummaryDoc
  <2>3. QED BY <1>5, <2>2, CleanPasses
<1>6. QED BY <1>1, <1>2, <1>4, <1>5, Zenon DEF EvidenceInv

(* Every step of the writer is a step of the log or none. *)
LEMMA LogStep ==
  ASSUME IInv, IInv', [Next]_vars
  PROVE  \/ UNCHANGED <<offered, Evidence, IsSealed>>
         \/ /\ ~IsSealed /\ offered' = Append(offered, Len(offered) + 1)
            /\ UNCHANGED <<Evidence, IsSealed>>
         \/ ~IsSealed /\ IsSealed' /\ Evidence' = offered /\ UNCHANGED offered
         \/ IsSealed /\ Evidence' = NULL /\ UNCHANGED <<offered, IsSealed>>
<1>a. EvidenceInv /\ EvidenceInv'
  BY EvidenceIs, PTL
<1>c. IsSealed \in BOOLEAN /\ IsSealed' \in BOOLEAN
  BY DEF IsSealed, IInv, TypeOK, DocType, Manifest
<1>1. CASE Enqueue
  <2>1. /\ offered' = Append(offered, Len(offered) + 1) /\ UNCHANGED docs
        /\ stopper \notin {"done", "crashed"}
    BY <1>1 DEF Enqueue, LoopFree
  <2>2. ~IsSealed /\ ~IsSealed'
    BY <1>a, <2>1 DEF docs, IsSealed, EvidenceInv
  <2>3. QED BY <1>a, <1>c, <2>1, <2>2 DEF EvidenceInv
<1>2. CASE FinalizeManifest
  <2>1. ~IsSealed /\ UNCHANGED offered /\ stopper' = "done"
    BY <1>2, <1>a DEF FinalizeManifest, intake, EvidenceInv
  <2>2. QED BY <1>a, <1>c, <2>1 DEF EvidenceInv
<1>3. CASE PowerLoss
  <2>1. UNCHANGED <<offered, IsSealed>> /\ stopper # "crashed"
    BY <1>3 DEF PowerLoss, Alive, intake, docs, IsSealed
  <2>2. QED BY <1>a, <1>c, <2>1 DEF EvidenceInv
<1>4. CASE FinalizeHash \/ FinalizeIntegrity \/ FinalizeSummary
  <2>1. UNCHANGED <<offered, manifest>> /\ stopper \notin {"done", "crashed"}
        /\ stopper' \notin {"done", "crashed"}
    BY <1>4 DEF FinalizeHash, FinalizeIntegrity, FinalizeSummary, FinalizeFails, intake, docs
  <2>2. ~Committed
    BY <2>1 DEF IInv, CommitInv
  <2>3. ~IsSealed /\ ~IsSealed'
    BY <2>1, <2>2 DEF IsSealed, Committed
  <2>4. QED BY <1>a, <1>c, <2>1, <2>3 DEF EvidenceInv
<1>5. CASE UNCHANGED vars
  <2>1. UNCHANGED <<offered, manifest, summary, integrity, disk>>
    BY <1>5 DEF vars, intake, docs
  <2>2. UNCHANGED <<Evidence, IsSealed>>
    BY <2>1, Zenon DEF Evidence, IsSealed, ReplayVerdict, DiskStream
  <2>3. QED BY <2>1, <2>2
<1>6. ASSUME ~Enqueue, ~FinalizeHash, ~FinalizeIntegrity, ~FinalizeSummary, ~FinalizeManifest, ~PowerLoss,
             vars' # vars
      PROVE  UNCHANGED offered /\ ~IsSealed /\ ~IsSealed'
  <2>1. ~Committed /\ ~Committed'
    BY <1>6, BeforeSealing DEF IInv
  <2>2. ~IsSealed /\ ~IsSealed'
    BY <2>1 DEF IsSealed, Committed
  <2>3. UNCHANGED offered
    BY <1>6, NextIsStep DEF Step, intake, StartMkdir, StartOpen, StartTask, RunGet, RunIdle, RunIdleFlushed,
       RunReopenForWrite, RunWrite, RunRotate, RunNoRotate, RunReopen, RunManifest, RunTail, RunFlushed,
       Stop, StopJoined, StopFlush, StopClose, Crash
  <2>4. QED BY <2>2, <2>3
<1>7. QED BY <1>1, <1>2, <1>3, <1>4, <1>5, <1>6, <1>a, <1>c DEF EvidenceInv

(* The writer and the replay implement the evidence log: in one step, the  *)
(* last write of _finalize_run(), a run becomes evidence of all packets    *)
(* offered, none is added to it, and it can only be lost as a whole.       *)
THEOREM WriterImplementsLog == Spec => ImplementsLog
<1>1. Init => Log!Init
  <2> SUFFICES ASSUME Init PROVE Log!Init
    OBVIOUS
  <2>1. IInv /\ manifest = NULL /\ offered = <<>>
    BY InitIInv DEF Init
  <2>2. ~IsSealed
    BY <2>1 DEF IsSealed
  <2>3. Evidence = NULL
    BY <2>1, <2>2, EvidenceIs DEF EvidenceInv
  <2>4. QED BY <2>1, <2>2, <2>3 DEF Log!Init, IsSealed, Evidence
<1>2. IInv /\ IInv' /\ [Next]_vars => [Log!Next]_(Log!lvars)
  <2> SUFFICES ASSUME IInv, IInv', [Next]_vars PROVE Log!Next \/ UNCHANGED Log!lvars
    OBVIOUS
  <2>1. CASE UNCHANGED <<offered, Evidence, IsSealed>>
    BY <2>1, Zenon DEF Log!lvars, Evidence, IsSealed
  <2>2. CASE /\ ~IsSealed /\ offered' = Append(offered, Len(offered) + 1)
             /\ UNCHANGED <<Evidence, IsSealed>>
    <3>1. Log!Offer(Len(offered) + 1)
      BY <2>2, Zenon DEF Log!Offer, Evidence, IsSealed
    <3>2. QED BY <3>1 DEF Log!Next
  <2>3. CASE ~IsSealed /\ IsSealed' /\ Evidence' = offered /\ UNCHANGED offered
    <3>1. Log!Seal
      BY <2>3, Zenon DEF Log!Seal, Evidence, IsSealed
    <3>2. QED BY <3>1 DEF Log!Next
  <2>4. CASE IsSealed /\ Evidence' = NULL /\ UNCHANGED <<offered, IsSealed>>
    <3>1. Log!Lose
      BY <2>4, Zenon DEF Log!Lose, Evidence, IsSealed
    <3>2. QED BY <3>1 DEF Log!Next
  <2>5. QED BY LogStep, <2>1, <2>2, <2>3, <2>4
<1>3. QED BY <1>1, <1>2, SpecIInv, PTL DEF Spec, ImplementsLog, Log!Spec

=============================================================================
