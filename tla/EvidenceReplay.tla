--------------------------- MODULE EvidenceReplay ---------------------------
(***************************************************************************)
(* The offline verifier of an evidence run (backend/evidence_replay.py,    *)
(* replay_evidence_run) and the finalization probe of the writer           *)
(* (backend/evidence_writer.py, inspect_run_finalization_status), as       *)
(* functions of what is on disk:                                           *)
(*   m, s, i : manifest.json, summary.json, integrity.json, or NULL when   *)
(*             the file does not exist;                                    *)
(*   disk    : the segment files, a function from the index in the name    *)
(*             events_<index>.ndjson to the sequence of its lines.         *)
(*                                                                         *)
(* A line is the sequence number of the packet it records, or TORN for a   *)
(* line json.loads refuses.  SHA-256 is taken to be injective: the hash of *)
(* a file is its content, so a byte count never differs when the hash      *)
(* agrees.  The run, phase and schema identifiers are one value per run    *)
(* directory and are left out, and so are the two names of a segment, its  *)
(* file name and its index, that the writer derives from one number.       *)
(***************************************************************************)
EXTENDS Naturals, Sequences, FiniteSets

CONSTANTS NULL,  \* an absent file, an unset hash or root
          TORN   \* a line that is not a JSON object

Line     == Nat \cup {TORN}
Segment  == [index : Nat, events : Nat, sha : {NULL} \cup Seq(Line)]
RootLine == Nat \X ({NULL} \cup Seq(Line)) \X Nat
Root     == {NULL} \cup Seq(RootLine)

Manifest == [written : Nat, dropped : Nat, errors : Nat, segment_count : Nat,
             segments : Seq(Segment), root : Root,
             finalized : BOOLEAN, hash_finalized : BOOLEAN]
Summary  == [written : Nat, dropped : Nat, errors : Nat, segment_count : Nat,
             finalized : BOOLEAN, hash_finalized : BOOLEAN]
Integrity == [segment_count : Nat, segments : Seq(Segment), root : Root,
              hash_finalized : BOOLEAN]

(* NULL is none of the values it stands in for, a torn line no number. *)
ASSUME NullAssumption ==
    /\ NULL \notin Seq(Line)
    /\ NULL \notin Manifest
    /\ NULL \notin Summary
    /\ NULL \notin Integrity
    /\ TORN \notin Nat

-----------------------------------------------------------------------------
(* One line per segment in the order of the index, hashed. *)
RunRoot(segments) ==
    [k \in DOMAIN segments |->
        <<segments[k].index, segments[k].sha, segments[k].events>>]

Events(lines)    == Cardinality({i \in DOMAIN lines : lines[i] # TORN})
Malformed(lines) == Cardinality({i \in DOMAIN lines : lines[i] = TORN})

(* The lines of some files, each as the number of its file and its place in it. *)
Places(files) == UNION {{n} \X DOMAIN files[n] : n \in DOMAIN files}

(* Total number of events in the files the segments name. *)
TotalEvents(segments, disk) ==
    LET read == [k \in DOMAIN segments |->
                    IF segments[k].index \in DOMAIN disk THEN disk[segments[k].index] ELSE <<>>]
    IN  Cardinality({x \in Places(read) : read[x[1]][x[2]] # TORN})

(* _replay_segment: does the file match what integrity.json says of it? *)
SegmentMatches(seg, disk) ==
    /\ seg.index \in DOMAIN disk
    /\ disk[seg.index] = seg.sha
    /\ Events(disk[seg.index]) = seg.events
    /\ Malformed(disk[seg.index]) = 0

(* The segment as re-read, from which the actual run root is computed. *)
Reread(seg, disk) ==
    IF seg.index \in DOMAIN disk
    THEN [index |-> seg.index, sha |-> disk[seg.index],
          events |-> Events(disk[seg.index])]
    ELSE [index |-> seg.index, sha |-> NULL, events |-> 0]

ActualRoot(segments, disk) ==
    RunRoot([k \in DOMAIN segments |-> Reread(segments[k], disk)])

(* manifest_root or integrity_root *)
ExpectedRoot(m, i) == IF m.root # NULL THEN m.root ELSE i.root

-----------------------------------------------------------------------------
(* Each failure reason with the check that must hold for it not to be      *)
(* reported, when the three documents can be read.                         *)
Checks(m, s, i, disk) ==
    LET segs  == i.segments
        total == TotalEvents(segs, disk)
    IN [MANIFEST_NOT_FINALIZED        |-> m.finalized,
        MANIFEST_HASH_NOT_FINALIZED   |-> m.hash_finalized,
        SUMMARY_NOT_FINALIZED         |-> s.finalized,
        SUMMARY_HASH_NOT_FINALIZED    |-> s.hash_finalized,
        INTEGRITY_HASH_NOT_FINALIZED  |-> i.hash_finalized,
        SEGMENT_GAP                   |-> \A k \in DOMAIN segs : segs[k].index = k,
        SEGMENT_MISMATCH              |-> \A k \in DOMAIN segs :
                                              SegmentMatches(segs[k], disk),
        SUMMARY_EVENT_COUNT_MISMATCH  |-> total = s.written,
        MANIFEST_EVENT_COUNT_MISMATCH |-> total = m.written,
        INTEGRITY_SEGMENT_COUNT_MISMATCH |-> Len(segs) = i.segment_count,
        SUMMARY_SEGMENT_COUNT_MISMATCH   |-> Len(segs) = s.segment_count,
        MANIFEST_SEGMENT_COUNT_MISMATCH  |-> Len(segs) = m.segment_count,
        WRITER_ERRORS_PRESENT         |-> s.errors = 0,
        PERSISTENT_EVENTS_DROPPED_PRESENT |-> s.dropped = 0,
        RUN_ROOT_METADATA_DISAGREEMENT |-> m.root = NULL \/ i.root = NULL
                                              \/ m.root = i.root,
        RUN_ROOT_SHA256_MISMATCH      |-> ExpectedRoot(m, i) = NULL
                                              \/ ActualRoot(segs, disk) = ExpectedRoot(m, i),
        \* bool(segments) and all(hash_match); an empty run needs its root
        HASH_VERIFICATION_FAILED      |->
            IF segs # <<>>
            THEN \A k \in DOMAIN segs : SegmentMatches(segs[k], disk)
            ELSE i.segment_count = 0 /\ ActualRoot(segs, disk) = ExpectedRoot(m, i)]

(* replay_failure_reasons *)
Failures(m, s, i, disk) ==
    IF NULL \in {m, s, i}
    THEN { r \in {"MANIFEST_MISSING", "SUMMARY_MISSING", "INTEGRITY_MISSING"} :
             \/ r = "MANIFEST_MISSING"  /\ m = NULL
             \/ r = "SUMMARY_MISSING"   /\ s = NULL
             \/ r = "INTEGRITY_MISSING" /\ i = NULL }
    ELSE LET ok == Checks(m, s, i, disk)
         IN  { r \in DOMAIN ok : ~ok[r] }

(* validation_status *)
Verdict(m, s, i, disk) == IF Failures(m, s, i, disk) = {} THEN "PASS" ELSE "FAIL"

-----------------------------------------------------------------------------
(* incomplete_reason of inspect_run_finalization_status; NULL when the run *)
(* counts as completely finalized.                                         *)
IncompleteReason(m, s, i) ==
    CASE m = NULL             -> "MANIFEST_MISSING"
      [] m # NULL /\ ~m.finalized -> "MANIFEST_NOT_FINALIZED"
      [] m # NULL /\ m.finalized /\ ~m.hash_finalized -> "HASH_NOT_FINALIZED"
      [] OTHER ->
            IF i = NULL THEN "INTEGRITY_MISSING"
            ELSE IF s = NULL THEN "SUMMARY_MISSING"
            ELSE IF \E k \in DOMAIN m.segments : m.segments[k].sha = NULL
                 THEN "SEGMENT_METADATA_INCOMPLETE"
            ELSE NULL
=============================================================================
