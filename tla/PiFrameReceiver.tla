--------------------------- MODULE PiFrameReceiver ---------------------------
(***************************************************************************)
(* MAIN's receiver for clock requests: bytes from the Pi are assembled     *)
(* into lines in a fixed buffer, a few per turn of loop(); a line too long *)
(* for it is discarded to its newline and reported on a later turn; a line *)
(* that is a request is refused when its session id is among the last      *)
(* CacheSize seen.                                                         *)
(*                                                                         *)
(* A byte is one of four kinds.  A line that starts with "head", "body" is *)
(* a well-formed request (what follows the first JSON object is ignored);  *)
(* its session id and whether its other fields are acceptable are chosen   *)
(* when it is parsed.  Bytes may arrive or get lost at any time: the byte  *)
(* read next is any byte, and there may be none.                           *)
(***************************************************************************)
EXTENDS Naturals, Sequences

CONSTANTS
    MaxFrame,       \* PI_RTC_SYNC_MAX_FRAME_LENGTH
    MaxPerLoop,     \* PI_RTC_SYNC_MAX_BYTES_PER_LOOP
    CacheSize,      \* PI_RTC_SYNC_SESSION_CACHE_SIZE
    Ids,            \* session ids
    MaxText,        \* bound: characters of one line
    MaxSessions,    \* bound: session ids remembered since the last reset
    NULL

\* board_config.h: 512, 128, 8.
ASSUME SizesAssumption ==
    /\ MaxFrame \in Nat \ {0} /\ MaxPerLoop \in Nat \ {0} /\ CacheSize \in Nat \ {0}
    /\ MaxPerLoop <= MaxFrame + 2
    /\ NULL \notin Ids

VARIABLES
    pc,          \* "loop": between two turns; "read": in processPiRtcSyncRequests
    processed,   \* bytesProcessed
    line,        \* lineBuffer[0 .. lineIndex-1]
    discard,     \* discardUntilNewline
    overlong,    \* overlongResultPending
    recent,      \* recentSessionIds
    writeIndex,  \* recentSessionWriteIndex
    result,      \* the reason code of the last RTC_SYNC_RESULT, and its session id
    text,        \* history: the characters since the last newline
    seen         \* history: the session ids remembered since reset, in order

buffer == <<line, discard, text>>
cache == <<recent, writeIndex, seen>>
vars == <<pc, processed, buffer, overlong, cache, result>>

Chars == {"head", "body"}
Slots == 0..(CacheSize - 1)
NoResult == [code |-> NULL, id |-> NULL]

Codes == {"OVERLONG_FRAME", "MALFORMED_JSON", "DUPLICATE_SESSION_SYNC_ID", "REJECTED", "TRANSACTION"}

Init ==
    /\ pc = "loop" /\ processed = 0
    /\ line = <<>> /\ discard = FALSE /\ text = <<>>
    /\ overlong = FALSE
    /\ recent = [i \in Slots |-> NULL] /\ writeIndex = 0 /\ seen = <<>>
    /\ result = NoResult

Emit(code, id) == result' = [code |-> code, id |-> id]

(***************************************************************************)
(* One turn of loop().                                                     *)
(***************************************************************************)
\* The report held back until the line buffer is empty.
StartTurnBetweenLines ==
    /\ pc = "loop"
    /\ pc' = "read" /\ processed' = 0
    /\ \/ overlong /\ line = <<>> /\ Emit("OVERLONG_FRAME", NULL) /\ overlong' = FALSE
       \/ ~(overlong /\ line = <<>>) /\ UNCHANGED <<result, overlong>>
    /\ UNCHANGED <<buffer, cache>>

\* A discarded line of an earlier turn is reported before anything is read.
StartTurn ==
    /\ pc = "loop"
    /\ pc' = "read" /\ processed' = 0
    /\ \/ overlong /\ Emit("OVERLONG_FRAME", NULL)
       \/ ~overlong /\ UNCHANGED result
    /\ overlong' = FALSE
    /\ UNCHANGED <<buffer, cache>>

\* The receive buffer is empty, or this turn has read its share.
EndTurn ==
    /\ pc = "read"
    /\ pc' = "loop"
    /\ UNCHANGED <<processed, buffer, overlong, cache, result>>

\* No share per turn.
MayReadAll == TRUE

MayRead == processed < MaxPerLoop

Consume ==
    /\ pc = "read" /\ MayRead
    /\ processed' = processed + 1
    /\ UNCHANGED pc

ReadCarriageReturn ==
    /\ Consume
    /\ UNCHANGED <<buffer, overlong, cache, result>>

DiscardChar(c) ==
    /\ Consume /\ discard
    /\ Len(text) < MaxText
    /\ text' = Append(text, c)
    /\ UNCHANGED <<line, discard, overlong, cache, result>>

DiscardNewline ==
    /\ Consume /\ discard
    /\ line' = <<>> /\ discard' = FALSE /\ text' = <<>>
    /\ overlong' = TRUE
    /\ UNCHANGED <<cache, result>>

\* lineIndex compared with > instead of >=.
BufferFullTooLate == Len(line) > MaxFrame

BufferFull == Len(line) >= MaxFrame

\* What does not fit is dropped, and the line goes on.
StoreCharTruncating(c) ==
    /\ Consume /\ ~discard
    /\ Len(text) < MaxText
    /\ text' = Append(text, c)
    /\ \/ BufferFull /\ UNCHANGED line
       \/ ~BufferFull /\ line' = Append(line, c)
    /\ UNCHANGED <<discard, overlong, cache, result>>

StoreChar(c) ==
    /\ Consume /\ ~discard
    /\ Len(text) < MaxText
    /\ text' = Append(text, c)
    /\ \/ BufferFull /\ discard' = TRUE /\ line' = <<>>
       \/ ~BufferFull /\ line' = Append(line, c) /\ UNCHANGED discard
    /\ UNCHANGED <<overlong, cache, result>>

(***************************************************************************)
(* A complete line.                                                        *)
(***************************************************************************)
IsRequest == Len(line) >= 2 /\ line[1] = "head" /\ line[2] = "body"

isDuplicateSessionId(id) == \E i \in Slots : recent[i] = id

\* The write index wraps one slot early.
NextSlotEarly == IF writeIndex + 2 >= CacheSize THEN 0 ELSE writeIndex + 1

NextSlot == (writeIndex + 1) % CacheSize

rememberSessionId(id) ==
    /\ Len(seen) < MaxSessions
    /\ recent' = [recent EXCEPT ![writeIndex] = id]
    /\ writeIndex' = NextSlot
    /\ seen' = Append(seen, id)

handlePiLine ==
    \/ /\ ~IsRequest
       /\ Emit("MALFORMED_JSON", NULL)
       /\ UNCHANGED cache
    \/ /\ IsRequest
       /\ \E id \in Ids :
            \/ /\ isDuplicateSessionId(id)
               /\ Emit("DUPLICATE_SESSION_SYNC_ID", id)
               /\ UNCHANGED cache
            \/ /\ ~isDuplicateSessionId(id)
               /\ rememberSessionId(id)
               /\ Emit("REJECTED", id) \/ Emit("TRANSACTION", id)

ReadNewline ==
    /\ Consume /\ ~discard
    /\ \/ line # <<>> /\ handlePiLine
       \/ line = <<>> /\ UNCHANGED <<cache, result>>
    /\ line' = <<>> /\ text' = <<>>
    /\ UNCHANGED <<discard, overlong>>

\* A reset of MAIN: all of this is RAM.
Reset ==
    /\ pc' = "loop" /\ processed' = 0
    /\ line' = <<>> /\ discard' = FALSE /\ text' = <<>>
    /\ overlong' = FALSE
    /\ recent' = [i \in Slots |-> NULL] /\ writeIndex' = 0 /\ seen' = <<>>
    /\ result' = NoResult

Turn ==
    \/ StartTurn \/ EndTurn
    \/ ReadCarriageReturn \/ DiscardNewline \/ ReadNewline
    \/ \E c \in Chars : DiscardChar(c) \/ StoreChar(c)

Next == Turn \/ Reset

\* loop() is called again and again, and a turn ends.
Fairness == WF_vars(StartTurn) /\ WF_vars(EndTurn)

Spec == Init /\ [][Next]_vars /\ Fairness

(***************************************************************************)
(* Properties.                                                             *)
(***************************************************************************)
\* Every variable keeps its type; the line and its terminating zero fit lineBuffer.
TypeOK ==
    /\ pc \in {"loop", "read"}
    /\ processed \in 0..MaxPerLoop
    /\ line \in Seq(Chars) /\ Len(line) <= MaxFrame
    /\ discard \in BOOLEAN /\ overlong \in BOOLEAN
    /\ recent \in [Slots -> Ids \cup {NULL}]
    /\ writeIndex \in Slots
    /\ result \in [code : Codes \cup {NULL}, id : Ids \cup {NULL}]
    /\ text \in Seq(Chars)
    /\ seen \in Seq(Ids)

\* What will be parsed is exactly what came since the last newline: a line is discarded
\* when, and only when, it is longer than the buffer, and no remainder of a discarded line
\* is ever taken for a line of its own (handlePiByte).
LineIsText == IF discard THEN Len(text) > MaxFrame ELSE line = text

\* Every overlong line gets its own result: overlongResultPending is never set while an
\* earlier overlong line still waits to be reported, although several lines may end in one
\* turn (processPiRtcSyncRequests reports once per turn).
OverlongNotOverwritten == [][overlong /\ pc = "read" => ~(discard /\ ~discard' /\ overlong')]_vars

\* A session id that was acted on is not acted on again while fewer than CacheSize other
\* ids have been (isDuplicateSessionId, rememberSessionId).
NoRepeatWithinCache ==
    \A i, j \in DOMAIN seen : i < j /\ seen[i] = seen[j] => j - i > CacheSize

\* An overlong line is eventually reported, whatever the Pi sends or stops sending meanwhile.
OverlongReported == overlong ~> ~overlong
=============================================================================
