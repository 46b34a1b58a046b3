---------------------------- MODULE FirmwareProofs ----------------------------
(***************************************************************************)
(* Machine-checked theorems about the firmware: MAIN's request receiver,   *)
(* for every buffer size, share per turn and cache size; SUB's timers, for *)
(* every interval, spacing and lag; the way of SUB's packets through MAIN, *)
(* for every limit of a line and any number of faults.                     *)
(***************************************************************************)
EXTENDS PiFrameReceiver, SubScheduler, SubForwarder, SequenceTheorems, TLAPS

-----------------------------------------------------------------------------
(*                       the inductive invariant                           *)

\* Within a turn that ended an overlong line, one byte more was read than the line now being
\* assembled has characters: its newline came first.
TurnInv == overlong /\ pc = "read" => processed > Len(text)

\* Where the cache holds the i-th id remembered, counting back from the write index.
SlotOf(i) ==
    LET back == Len(seen) - i IN
    IF back < writeIndex THEN writeIndex - 1 - back ELSE writeIndex - 1 - back + CacheSize

\* The cache is a ring: it holds the last CacheSize ids, the newest before the write index.
RingInv ==
    \A i \in DOMAIN seen : Len(seen) - i < CacheSize => recent[SlotOf(i)] = seen[i]

\* The steps that touch neither the bytes nor the cache, and those that do.
LEMMA NextCases ==
  [Next]_vars => \/ StartTurn \/ EndTurn \/ ReadCarriageReturn \/ DiscardNewline \/ ReadNewline
                 \/ (\E c \in Chars : DiscardChar(c)) \/ (\E c \in Chars : StoreChar(c))
                 \/ Reset \/ UNCHANGED vars
  BY DEF Next, Turn

-----------------------------------------------------------------------------
(*                    lines and turns                                      *)

TurnType ==
    /\ pc \in {"loop", "read"} /\ processed \in 0..MaxPerLoop
    /\ discard \in BOOLEAN /\ overlong \in BOOLEAN

BufferType == line \in Seq(Chars) /\ text \in Seq(Chars)

LineFits == Len(line) <= MaxFrame

LineInv == TurnType /\ BufferType /\ LineFits /\ LineIsText /\ TurnInv

LEMMA EmptyLine == <<>> \in Seq(Chars) /\ Len(<<>>) = 0
  BY EmptySeq

LEMMA LongerLine ==
  ASSUME BufferType, NEW c \in Chars
  PROVE  /\ Append(text, c) \in Seq(Chars) /\ Len(Append(text, c)) = Len(text) + 1
         /\ Append(line, c) \in Seq(Chars) /\ Len(Append(line, c)) = Len(line) + 1
         /\ Len(text) \in Nat /\ Len(line) \in Nat
  BY AppendProperties, LenProperties DEF BufferType

LEMMA LengthsNat == BufferType => Len(text) \in Nat /\ Len(line) \in Nat
  BY LenProperties DEF BufferType

LEMMA CountStep ==
  ASSUME processed \in 0..MaxPerLoop, [Next]_vars
  PROVE  processed' \in 0..MaxPerLoop
<1>1. CASE Consume
  BY <1>1, SizesAssumption DEF Consume, MayRead
<1>2. CASE processed' = 0 \/ UNCHANGED processed
  BY <1>2, SizesAssumption
<1>3. Consume \/ processed' = 0 \/ UNCHANGED processed
  BY NextCases DEF StartTurn, EndTurn, ReadCarriageReturn, DiscardNewline, ReadNewline, DiscardChar,
                   StoreChar, Reset, vars
<1>4. QED BY <1>1, <1>2, <1>3

LEMMA FlagStep ==
  ASSUME pc \in {"loop", "read"}, discard \in BOOLEAN, overlong \in BOOLEAN, [Next]_vars
  PROVE  pc' \in {"loop", "read"} /\ discard' \in BOOLEAN /\ overlong' \in BOOLEAN
<1> USE DEF buffer
<1>1. pc' \in {pc, "loop", "read"}
  BY NextCases DEF StartTurn, EndTurn, ReadCarriageReturn, DiscardNewline, ReadNewline, DiscardChar,
                   StoreChar, Reset, Consume, vars
<1>2. discard' = discard \/ discard' = TRUE \/ discard' = FALSE
  BY NextCases DEF StartTurn, EndTurn, ReadCarriageReturn, DiscardNewline, ReadNewline, DiscardChar,
                   StoreChar, Reset, vars
<1>3. overlong' = overlong \/ overlong' = TRUE \/ overlong' = FALSE
  BY NextCases DEF StartTurn, EndTurn, ReadCarriageReturn, DiscardNewline, ReadNewline, DiscardChar,
                   StoreChar, Reset, vars
<1>4. QED BY <1>1, <1>2, <1>3

LEMMA TurnTypeStep == TurnType /\ [Next]_vars => TurnType'
BY CountStep, FlagStep DEF TurnType

\* The line emptied: by its newline, or by a reset.
LEMMA EmptiedLine ==
  ASSUME line' = <<>>, text' = <<>>, ~discard', overlong' /\ pc' = "read" => processed' > 0
  PROVE  BufferType' /\ LineFits' /\ LineIsText' /\ TurnInv'
<1>1. BufferType'
  BY EmptyLine DEF BufferType
<1>2. Len(line') = 0 /\ Len(text') = 0
  BY EmptyLine
<1>3. LineFits'
  BY <1>2, SizesAssumption DEF LineFits
<1>4. LineIsText'
  BY DEF LineIsText
<1>5. TurnInv'
  BY <1>2 DEF TurnInv
<1>6. QED BY <1>1, <1>3, <1>4, <1>5

LEMMA StoreCharStep ==
  ASSUME LineInv, NEW c \in Chars, StoreChar(c)
  PROVE  BufferType' /\ LineFits' /\ LineIsText' /\ TurnInv'
<1> USE SizesAssumption DEF LineInv
<1>1. text' = Append(text, c) /\ processed' = processed + 1 /\ ~discard
  BY DEF StoreChar, Consume
<1>2. TurnInv'
  BY <1>1, LongerLine DEF TurnInv, TurnType, StoreChar, Consume
<1>3. CASE Len(line) >= MaxFrame /\ discard' = TRUE /\ line' = <<>>
  <2>1. BufferType'
    BY <1>3, <1>1, LongerLine, EmptyLine DEF BufferType
  <2>2. LineFits'
    BY <1>3, EmptyLine DEF LineFits
  <2>3. Len(text) >= MaxFrame /\ Len(text') = Len(text) + 1
    BY <1>1, <1>3, LongerLine DEF LineIsText
  <2>4. LineIsText'
    BY <2>3, <1>3, LengthsNat DEF LineIsText
  <2>5. QED BY <2>1, <2>2, <2>4, <1>2
<1>4. CASE ~(Len(line) >= MaxFrame) /\ line' = Append(line, c) /\ discard' = discard
  <2>1. BufferType'
    BY <1>4, <1>1, LongerLine DEF BufferType
  <2>2. LineFits'
    BY <1>4, LongerLine DEF LineFits
  <2>3. LineIsText'
    BY <1>4, <1>1 DEF LineIsText
  <2>4. QED BY <2>1, <2>2, <2>3, <1>2
<1>5. QED BY <1>3, <1>4 DEF StoreChar, BufferFull

LEMMA LineStep ==
  ASSUME LineInv, [Next]_vars
  PROVE  LineInv'
<1> USE DEF LineInv
<1>0. TurnType'
  BY TurnTypeStep
<1>b. Len(text) \in Nat
  BY LengthsNat
<1> DEFINE Rest == BufferType' /\ LineFits' /\ LineIsText' /\ TurnInv'
<1>1. CASE UNCHANGED buffer /\ ~(overlong' /\ pc' = "read" /\ ~(overlong /\ pc = "read" /\ processed' >= processed))
  BY <1>1, <1>0, <1>b DEF Rest, BufferType, LineFits, LineIsText, TurnInv, TurnType, buffer
<1>2. CASE StartTurn \/ EndTurn \/ UNCHANGED vars
  <2>1. QED BY <1>1, <1>2 DEF StartTurn, EndTurn, vars, TurnType
<1>3. CASE ReadCarriageReturn
  BY <1>1, <1>3 DEF ReadCarriageReturn, Consume, TurnType
<1>4. CASE DiscardNewline \/ ReadNewline
  <2>1. line' = <<>> /\ text' = <<>> /\ ~discard' /\ processed' > 0
    BY <1>4 DEF DiscardNewline, ReadNewline, Consume, TurnType
  <2>2. QED BY <2>1, <1>0, EmptiedLine
<1>5. ASSUME NEW c \in Chars, DiscardChar(c) PROVE LineInv'
  <2>1. text' = Append(text, c) /\ Len(text') = Len(text) + 1 /\ processed' = processed + 1
    BY <1>5, LongerLine DEF DiscardChar, Consume
  <2>2. BufferType' /\ LineFits'
    BY <1>5, <2>1, LongerLine DEF DiscardChar, BufferType, LineFits
  <2>3. LineIsText' /\ TurnInv'
    BY <1>5, <2>1, <1>b, SizesAssumption DEF DiscardChar, Consume, LineIsText, TurnInv, TurnType
  <2>4. QED BY <1>0, <2>2, <2>3
<1>6. ASSUME NEW c \in Chars, StoreChar(c) PROVE LineInv'
  BY <1>0, <1>6, StoreCharStep
<1>7. CASE Reset
  BY <1>7, <1>0, EmptiedLine DEF Reset
<1>8. QED BY NextCases, <1>2, <1>3, <1>4, <1>5, <1>6, <1>7

\* A turn is too short for a second overlong line after the one it ended.
LEMMA OverlongStep ==
  ASSUME LineInv, [Next]_vars, overlong, pc = "read"
  PROVE  ~(discard /\ ~discard' /\ overlong')
<1> USE DEF LineInv
<1>1. CASE DiscardNewline
  BY <1>1, LengthsNat, SizesAssumption DEF DiscardNewline, Consume, MayRead, LineIsText, TurnInv, TurnType
<1>2. CASE Reset
  BY <1>2 DEF Reset
<1>3. CASE ~DiscardNewline /\ ~Reset
  BY <1>3, NextCases DEF StartTurn, EndTurn, ReadCarriageReturn, ReadNewline, DiscardChar, StoreChar, buffer, vars
<1>4. QED BY <1>1, <1>2, <1>3

-----------------------------------------------------------------------------
(*                    the cache                                            *)

CacheInv ==
    /\ recent \in [Slots -> Ids \cup {NULL}] /\ writeIndex \in Slots
    /\ result \in [code : Codes \cup {NULL}, id : Ids \cup {NULL}]
    /\ seen \in Seq(Ids)
    /\ RingInv /\ NoRepeatWithinCache

LEMMA NextSlotIs ==
  ASSUME writeIndex \in Slots
  PROVE  NextSlot = IF writeIndex + 1 = CacheSize THEN 0 ELSE writeIndex + 1
  BY SizesAssumption DEF NextSlot, Slots

\* Remembering an id that is not cached keeps the ring and repeats nothing recent.
LEMMA RememberStep ==
  ASSUME CacheInv, NEW id \in Ids, ~isDuplicateSessionId(id), rememberSessionId(id)
  PROVE  /\ recent' \in [Slots -> Ids \cup {NULL}] /\ writeIndex' \in Slots
         /\ seen' \in Seq(Ids)
         /\ RingInv' /\ NoRepeatWithinCache'
<1> USE SizesAssumption DEF CacheInv, Slots
<1> DEFINE n == Len(seen)
<1>1. /\ seen' = Append(seen, id) /\ recent' = [recent EXCEPT ![writeIndex] = id]
      /\ writeIndex' = IF writeIndex + 1 = CacheSize THEN 0 ELSE writeIndex + 1
  BY NextSlotIs DEF rememberSessionId
<1>2. /\ n \in Nat /\ DOMAIN seen = 1..n
      /\ seen' \in Seq(Ids) /\ Len(seen') = n + 1 /\ DOMAIN seen' = 1..(n + 1)
      /\ seen'[n + 1] = id /\ \A i \in 1..n : seen'[i] = seen[i]
  BY <1>1, AppendProperties, LenProperties
<1>3. writeIndex' \in Slots /\ recent' \in [Slots -> Ids \cup {NULL}]
  BY <1>1
<1>4. ASSUME NEW i \in 1..n, n - i < CacheSize
      PROVE  SlotOf(i) \in Slots /\ recent[SlotOf(i)] = seen[i] /\ seen[i] # id
  <2>1. SlotOf(i) \in Slots
    BY <1>2, <1>4 DEF SlotOf
  <2>2. recent[SlotOf(i)] = seen[i]
    BY <1>2, <1>4 DEF RingInv
  <2>3. QED BY <2>1, <2>2 DEF isDuplicateSessionId
<1>5. RingInv'
  <2> SUFFICES ASSUME NEW i \in 1..(n + 1), n + 1 - i < CacheSize
               PROVE  recent'[SlotOf(i)'] = seen'[i]
    BY <1>2 DEF RingInv
  <2>1. CASE i = n + 1
    <3>1. SlotOf(i)' = writeIndex
      BY <2>1, <1>1, <1>2 DEF SlotOf
    <3>2. QED BY <3>1, <2>1, <1>1, <1>2
  <2>2. CASE i \in 1..n
    <3>1. SlotOf(i)' = SlotOf(i) /\ SlotOf(i) # writeIndex
      BY <2>2, <1>1, <1>2 DEF SlotOf
    <3>2. recent'[SlotOf(i)] = recent[SlotOf(i)]
      BY <3>1, <1>1, <1>4, <2>2, <1>2
    <3>3. QED BY <3>1, <3>2, <1>4, <2>2, <1>2
  <2>3. QED BY <2>1, <2>2, <1>2
<1>6. NoRepeatWithinCache'
  <2> SUFFICES ASSUME NEW i \in 1..(n + 1), NEW j \in 1..(n + 1), i < j, seen'[i] = seen'[j]
               PROVE  j - i > CacheSize
    BY <1>2 DEF NoRepeatWithinCache
  <2>1. CASE j = n + 1
    <3>1. i \in 1..n /\ seen[i] = id
      BY <2>1, <1>2
    <3>2. ~(n - i < CacheSize)
      BY <3>1, <1>4
    <3>3. QED BY <3>1, <3>2, <2>1, <1>2
  <2>2. CASE j \in 1..n
    <3>1. i \in DOMAIN seen /\ j \in DOMAIN seen /\ seen[i] = seen[j]
      BY <2>2, <1>2
    <3>2. QED BY <3>1 DEF NoRepeatWithinCache
  <2>3. QED BY <2>1, <2>2, <1>2
<1>7. QED BY <1>2, <1>3, <1>5, <1>6

LEMMA CacheStep ==
  ASSUME CacheInv, [Next]_vars
  PROVE  CacheInv'
<1> USE DEF CacheInv, cache, Codes
<1>0. UNCHANGED cache => RingInv' /\ NoRepeatWithinCache'
  BY DEF RingInv, NoRepeatWithinCache, SlotOf
<1>1. CASE StartTurn
  BY <1>0, <1>1 DEF StartTurn, Emit
<1>2. CASE EndTurn
  BY <1>0, <1>2 DEF EndTurn
<1>3. CASE ReadCarriageReturn
  BY <1>0, <1>3 DEF ReadCarriageReturn
<1>4. CASE DiscardNewline
  BY <1>0, <1>4 DEF DiscardNewline
<1>5. CASE ReadNewline
  <2>1. CASE UNCHANGED cache /\ (UNCHANGED result \/ Emit("MALFORMED_JSON", NULL))
    BY <1>0, <2>1 DEF Emit
  <2>2. ASSUME NEW id \in Ids, UNCHANGED cache, Emit("DUPLICATE_SESSION_SYNC_ID", id) PROVE CacheInv'
    BY <1>0, <2>2 DEF Emit
  <2>3. ASSUME NEW id \in Ids, ~isDuplicateSessionId(id), rememberSessionId(id),
               Emit("REJECTED", id) \/ Emit("TRANSACTION", id)
        PROVE  CacheInv'
    BY <2>3, RememberStep DEF Emit
  <2>4. QED BY <1>5, <2>1, <2>2, <2>3 DEF ReadNewline, handlePiLine
<1>6. ASSUME NEW c \in Chars, DiscardChar(c) \/ StoreChar(c) PROVE CacheInv'
  BY <1>0, <1>6 DEF DiscardChar, StoreChar
<1>7. CASE Reset
  <2>1. <<>> \in Seq(Ids) /\ Len(<<>>) = 0 /\ DOMAIN <<>> = {}
    BY EmptySeq
  <2>2. RingInv' /\ NoRepeatWithinCache'
    BY <1>7, <2>1 DEF Reset, RingInv, NoRepeatWithinCache
  <2>3. QED BY <1>7, <2>1, <2>2, SizesAssumption DEF Reset, NoResult, Slots
<1>8. CASE UNCHANGED vars
  BY <1>0, <1>8 DEF vars
<1>9. QED BY NextCases, <1>1, <1>2, <1>3, <1>4, <1>5, <1>6, <1>7, <1>8

-----------------------------------------------------------------------------
(*                    the theorems                                         *)

LEMMA InitInv == Init => LineInv /\ CacheInv
<1> SUFFICES ASSUME Init PROVE LineInv /\ CacheInv
  OBVIOUS
<1>1. <<>> \in Seq(Chars) /\ <<>> \in Seq(Ids) /\ Len(<<>>) = 0 /\ DOMAIN <<>> = {}
  BY EmptySeq
<1>2. LineInv
  <2>0. 0 \in 0..MaxPerLoop
    BY SizesAssumption
  <2>1. TurnType /\ TurnInv
    BY <2>0, Zenon DEF Init, TurnType, TurnInv
  <2>2. BufferType /\ LineIsText
    BY <1>1 DEF Init, BufferType, LineIsText
  <2>3. LineFits
    BY <1>1, SizesAssumption DEF Init, LineFits
  <2>4. QED BY <2>1, <2>2, <2>3 DEF LineInv
<1>3. RingInv /\ NoRepeatWithinCache
  BY <1>1 DEF Init, RingInv, NoRepeatWithinCache
<1>4. CacheInv
  BY <1>1, <1>3, SizesAssumption DEF Init, CacheInv, NoResult, Slots
<1>5. QED BY <1>2, <1>4

LEMMA SpecInv == Spec => [](LineInv /\ CacheInv)
<1>1. (LineInv /\ CacheInv) /\ [Next]_vars => (LineInv /\ CacheInv)'
  BY LineStep, CacheStep
<1>2. QED BY InitInv, <1>1, PTL DEF Spec

\* The receiver never writes outside lineBuffer or the cache, and its counters keep their
\* ranges, whatever bytes arrive.
THEOREM ReceiverTypeCorrect == Spec => []TypeOK
<1>1. LineInv /\ CacheInv => TypeOK
  BY DEF LineInv, TurnType, BufferType, LineFits, CacheInv, TypeOK
<1>2. QED BY SpecInv, <1>1, PTL

\* handlePiByte hands over exactly the characters between two newlines, or none of them.
THEOREM LinesAreWhatArrived == Spec => []LineIsText
<1>1. LineInv => LineIsText
  BY DEF LineInv
<1>2. QED BY SpecInv, <1>1, PTL

\* No session id is remembered, hence acted on, twice within CacheSize ids.
THEOREM NoSessionTwice == Spec => []NoRepeatWithinCache
<1>1. CacheInv => NoRepeatWithinCache
  BY DEF CacheInv
<1>2. QED BY SpecInv, <1>1, PTL

\* As long as a turn reads at most MaxFrame + 2 bytes, no overlong line goes unreported
\* because another one ended before the report.
THEOREM OverlongEachReported == Spec => OverlongNotOverwritten
<1>1. (LineInv /\ CacheInv) /\ [Next]_vars
         => [overlong /\ pc = "read" => ~(discard /\ ~discard' /\ overlong')]_vars
  BY OverlongStep
<1>2. QED BY SpecInv, <1>1, PTL DEF Spec, OverlongNotOverwritten

-----------------------------------------------------------------------------
(*                    SUB's timers                                         *)

\* While nothing has waited for a whole wrap, a difference of readings is the time elapsed.
ReadingsAreTimes ==
    /\ Minus(now, lastEmit) = quiet
    /\ \A k \in Kinds : Minus(now, last[k]) = age[k] /\ quiet <= age[k]

\* Nothing has been emitted since begin(), which made everything due.
JustBegun == quiet = Spacing + idle /\ \A k \in Kinds : age[k] = Interval[k] + idle

\* A call of update() that may emit leaves nothing due.
Settled == quiet >= Spacing + idle => JustBegun \/ \A k \in Kinds : age[k] < Interval[k] + idle

\* How late a kind was when the last packet was emitted: by n spells of silence, at most.
Late(k, n) == age[k] - quiet < Interval[k] + n * Delay

\* Whoever is late has been overtaken, by each kind before it once at the most, and since
\* these have just been emitted they are not due when its turn comes.
Overtaken ==
    /\ Late("LINK_HEARTBEAT", 0)
    /\ \/ Late("NODE_HEALTH", 0)
       \/ Late("NODE_HEALTH", 1) /\ age["LINK_HEARTBEAT"] = quiet
    /\ \/ Late("LINK_SYNC", 0)
       \/ /\ Late("LINK_SYNC", 1)
          /\ age["LINK_HEARTBEAT"] = quiet \/ age["NODE_HEALTH"] = quiet
       \/ /\ Late("LINK_SYNC", 2)
          /\ age["LINK_HEARTBEAT"] <= quiet + Delay /\ age["NODE_HEALTH"] <= quiet + Delay

TimersInv == TimersTypeOK /\ ReadingsAreTimes /\ Settled /\ Overtaken

LEMMA Times ==
  /\ Delay \in Nat /\ Spacing \in Nat /\ Spacing > 1 /\ MaxLag \in Nat /\ MaxLag > 0
  /\ Delay = Spacing - 1 + MaxLag
  /\ Wrap \in Nat /\ Wrap > 0
  /\ Interval["LINK_HEARTBEAT"] = HeartbeatInterval /\ HeartbeatInterval \in Nat
  /\ Interval["NODE_HEALTH"] = HealthInterval /\ HealthInterval \in Nat
  /\ Interval["LINK_SYNC"] = SyncInterval /\ SyncInterval \in Nat
  /\ \A k \in Kinds : Interval[k] \in Nat /\ Spacing < Interval[k] /\ Interval[k] < Wrap
  /\ 2 * Delay < HeartbeatInterval /\ 2 * Delay < HealthInterval
  /\ HeartbeatInterval + Delay < Wrap /\ HealthInterval + 2 * Delay < Wrap /\ SyncInterval + 3 * Delay < Wrap
<1>1. /\ Wrap \in Nat /\ Wrap > 0 /\ HeartbeatInterval \in Nat /\ HealthInterval \in Nat
      /\ SyncInterval \in Nat /\ MaxLag \in Nat /\ MaxLag > 0
  BY TimesAssumption
<1>2. Spacing \in Nat /\ Spacing > 1 /\ Delay \in Nat /\ Delay = Spacing - 1 + MaxLag
  BY <1>1, TimesAssumption DEF Delay
<1>3. /\ 2 * Delay < HeartbeatInterval /\ 2 * Delay < HealthInterval
      /\ HeartbeatInterval + Delay < Wrap /\ HealthInterval + 2 * Delay < Wrap
      /\ SyncInterval + 3 * Delay < Wrap /\ Spacing < SyncInterval
  BY TimesAssumption
<1>4. /\ Interval["LINK_HEARTBEAT"] = HeartbeatInterval /\ Interval["NODE_HEALTH"] = HealthInterval
      /\ Interval["LINK_SYNC"] = SyncInterval
  BY DEF Interval
<1>5. \A k \in Kinds : Interval[k] \in Nat /\ Spacing < Interval[k] /\ Interval[k] < Wrap
  BY <1>1, <1>2, <1>3, <1>4 DEF Kinds
<1> HIDE DEF Delay
<1>6. QED BY <1>1, <1>2, <1>3, <1>4, <1>5

LEMMA MinusReadings ==
  ASSUME NEW a \in Readings, NEW b \in Readings
  PROVE  Minus(a, b) = (IF a >= b THEN a - b ELSE a - b + Wrap)
  BY TimesAssumption DEF Minus, Readings

LEMMA NextReadings ==
  ASSUME now \in Readings
  PROVE  NextReading = (IF now + 1 = Wrap THEN 0 ELSE now + 1)
  BY TimesAssumption DEF NextReading, Readings

LEMMA TimersInitInv == TimersInit => TimersInv
<1> SUFFICES ASSUME TimersInit PROVE TimersInv
  OBVIOUS
<1>1. \A k \in Kinds : last[k] = Minus(now, Interval[k]) /\ age[k] = Interval[k]
  BY DEF TimersInit, Interval, Kinds
<1>2. now \in Readings /\ idle = 0 /\ quiet = Spacing /\ lastEmit = Minus(now, Spacing)
  BY DEF TimersInit
<1>3. ASSUME NEW x \in Nat, x < Wrap PROVE Minus(now, x) \in Readings /\ Minus(now, Minus(now, x)) = x
  <2>1. x \in Readings BY <1>3, Times DEF Readings
  <2>2. Minus(now, x) = (IF now >= x THEN now - x ELSE now - x + Wrap) BY <1>2, <2>1, MinusReadings
  <2>3. Minus(now, x) \in Readings BY <1>2, <1>3, <2>2, Times DEF Readings
  <2> DEFINE b == Minus(now, x)
  <2>4. b \in Readings /\ b = (IF now >= x THEN now - x ELSE now - x + Wrap) BY <2>2, <2>3
  <2>5. Minus(now, b) = (IF now >= b THEN now - b ELSE now - b + Wrap) BY <1>2, <2>3, MinusReadings
  <2> HIDE DEF b
  <2>6. now \in Nat /\ now < Wrap /\ b \in Nat BY <1>2, <2>4, Times DEF Readings
  <2>7. Minus(now, b) = x BY <1>3, <2>4, <2>5, <2>6, Times
  <2>8. QED BY <2>3, <2>7 DEF b
<1>4. TimersTypeOK
  <2>1. Spacing < Wrap BY Times
  <2>2. lastEmit \in Readings BY <1>2, <1>3, <2>1, Times
  <2>3. last \in [Kinds -> Readings]
    <3>1. \A k \in Kinds : Minus(now, Interval[k]) \in Readings BY <1>3, Times
    <3>2. last = [k \in Kinds |-> Minus(now, Interval[k])] BY DEF TimersInit
    <3>3. QED BY <3>1, <3>2
  <2>4. age \in [Kinds -> Nat]
    <3>1. age = [k \in Kinds |-> Interval[k]] BY DEF TimersInit, Interval, Kinds
    <3>2. QED BY <3>1, Times
  <2>5. QED BY <1>2, <2>2, <2>3, <2>4, Times DEF TimersTypeOK
<1>5. ReadingsAreTimes
  <2>1. Spacing < Wrap BY Times
  <2>2. QED BY <1>1, <1>2, <1>3, <2>1, Times DEF ReadingsAreTimes
<1>6. Settled BY <1>1, <1>2, Times DEF Settled, JustBegun
<1>7. Overtaken
  <2>1. \A k \in Kinds : Late(k, 0) BY <1>1, <1>2, Times DEF Late
  <2>2. QED BY <2>1 DEF Overtaken, Kinds
<1>8. QED BY <1>4, <1>5, <1>6, <1>7 DEF TimersInv

\* Between an emission and the next the others have grown older by the silence, which has
\* been short, or nothing was due a moment ago.
LEMMA SilenceIsShort ==
  ASSUME TimersInv
  PROVE  \/ quiet <= Delay
         \/ \A k \in Kinds : age[k] < Interval[k] + Delay
<1>1. idle \in Nat /\ idle <= MaxLag /\ quiet \in Nat /\ \A k \in Kinds : age[k] \in Nat
  BY DEF TimersInv, TimersTypeOK
<1>2. CASE quiet < Spacing + idle BY <1>1, <1>2, Times
<1>3. CASE quiet >= Spacing + idle
  <2>1. \A k \in Kinds : age[k] <= Interval[k] + idle
    BY <1>1, <1>3, Times DEF TimersInv, Settled, JustBegun
  <2>2. QED BY <1>1, <2>1, Times
<1>4. QED BY <1>1, <1>2, <1>3, Times

LEMMA NeverTooLateInv == TimersInv => NeverTooLate
<1> SUFFICES ASSUME TimersInv PROVE NeverTooLate
  OBVIOUS
<1>1. quiet \in Nat /\ \A k \in Kinds : age[k] \in Nat
  BY DEF TimersInv, TimersTypeOK
<1>2. CASE \A k \in Kinds : age[k] < Interval[k] + Delay
  <2>1. \A k \in Kinds : Rank[k] \in {1, 2, 3} BY DEF Rank, Kinds
  <2>2. \A k \in Kinds : Rank[k] * Delay >= Delay BY <2>1, Times
  <2>3. \A k \in Kinds : Rank[k] * Delay \in Nat BY <2>1, Times
  <2>4. QED BY <1>1, <1>2, <2>2, <2>3, Times DEF NeverTooLate
<1>3. CASE quiet <= Delay
  <2>1. age["LINK_HEARTBEAT"] < HeartbeatInterval + Delay
    BY <1>1, <1>3, Times DEF TimersInv, Overtaken, Late, Kinds
  <2>2. age["NODE_HEALTH"] < HealthInterval + 2 * Delay
    BY <1>1, <1>3, Times DEF TimersInv, Overtaken, Late, Kinds
  <2>3. age["LINK_SYNC"] < SyncInterval + 3 * Delay
    BY <1>1, <1>3, Times DEF TimersInv, Overtaken, Late, Kinds
  <2>4. QED BY <2>1, <2>2, <2>3, Times DEF NeverTooLate, Kinds, Rank
<1>4. QED BY <1>2, <1>3, SilenceIsShort

LEMMA TimePassesStep ==
  ASSUME TimersInv, TimePasses
  PROVE  TimersInv'
<1>1. /\ now \in Readings /\ lastEmit \in Readings /\ last \in [Kinds -> Readings] /\ idle \in 0..MaxLag
      /\ age \in [Kinds -> Nat] /\ quiet \in Nat
  BY DEF TimersInv, TimersTypeOK
<1>2. /\ idle < MaxLag /\ now' = NextReading /\ idle' = idle + 1 /\ quiet' = quiet + 1
      /\ last' = last /\ lastEmit' = lastEmit
  BY DEF TimePasses
<1>3. age' = [k \in Kinds |-> age[k] + 1] /\ \A k \in Kinds : age'[k] = age[k] + 1
  BY DEF TimePasses
<1>4. now' = (IF now + 1 = Wrap THEN 0 ELSE now + 1) /\ now' \in Readings
  BY <1>1, <1>2, NextReadings, Times DEF Readings
<1>5. TimersTypeOK'
  <2>1. age' \in [Kinds -> Nat] BY <1>1, <1>3
  <2>2. idle' \in 0..MaxLag BY <1>1, <1>2, Times
  <2>3. QED BY <1>1, <1>2, <1>4, <2>1, <2>2 DEF TimersTypeOK
<1>6. ASSUME NEW r \in Readings, NEW t \in Nat, Minus(now, r) = t, t + 1 < Wrap
      PROVE  Minus(now', r) = t + 1
  <2>1. Minus(now, r) = (IF now >= r THEN now - r ELSE now - r + Wrap) BY <1>1, MinusReadings
  <2>2. Minus(now', r) = (IF now' >= r THEN now' - r ELSE now' - r + Wrap) BY <1>4, MinusReadings
  <2>3. QED BY <1>1, <1>4, <1>6, <2>1, <2>2, Times DEF Readings
<1>7. ReadingsAreTimes'
  <2>1. \A k \in Kinds : age[k] + 1 < Wrap
    <3>1. /\ age["LINK_HEARTBEAT"] < HeartbeatInterval + Delay
          /\ age["NODE_HEALTH"] < HealthInterval + 2 * Delay
          /\ age["LINK_SYNC"] < SyncInterval + 3 * Delay
      BY NeverTooLateInv, Times DEF NeverTooLate, Kinds, Rank
    <3>2. QED BY <1>1, <3>1, Times DEF Kinds
  <2>2. quiet + 1 < Wrap
    <3>1. "LINK_HEARTBEAT" \in Kinds BY DEF Kinds
    <3>2. quiet <= age["LINK_HEARTBEAT"] BY <3>1 DEF TimersInv, ReadingsAreTimes
    <3>3. age["LINK_HEARTBEAT"] \in Nat BY <1>1, <3>1
    <3>4. QED BY <1>1, <2>1, <3>1, <3>2, <3>3, Times
  <2>3. \A k \in Kinds : last[k] \in Readings BY <1>1
  <2>4. Minus(now', lastEmit) = quiet + 1 BY <1>1, <1>6, <2>2 DEF TimersInv, ReadingsAreTimes
  <2>5. \A k \in Kinds : Minus(now', last[k]) = age[k] + 1
    BY <1>1, <1>6, <2>1, <2>3 DEF TimersInv, ReadingsAreTimes
  <2>6. \A k \in Kinds : quiet + 1 <= age[k] + 1 BY <1>1 DEF TimersInv, ReadingsAreTimes
  <2>7. QED BY <1>2, <1>3, <2>4, <2>5, <2>6 DEF ReadingsAreTimes, Minus
<1>8. Settled'
  BY <1>1, <1>2, <1>3, Times DEF TimersInv, Settled, JustBegun
<1>9. Overtaken'
  <2>1. \A k \in Kinds : age'[k] - quiet' = age[k] - quiet BY <1>1, <1>2, <1>3
  <2>2. \A k \in Kinds, n \in {0, 1, 2} : Late(k, n) => Late(k, n)' BY <2>1 DEF Late
  <2>3. \A k \in Kinds : age[k] = quiet => age'[k] = quiet' BY <1>2, <1>3
  <2>4. \A k \in Kinds : age[k] <= quiet + Delay => age'[k] <= quiet' + Delay BY <1>1, <1>2, <1>3, Times
  <2>5. QED BY <2>2, <2>3, <2>4 DEF TimersInv, Overtaken, Kinds
<1>10. QED BY <1>5, <1>7, <1>8, <1>9 DEF TimersInv

\* What an emission finds: silence has lasted, its kind is due and none before it is.
LEMMA Emission ==
  ASSUME TimersInv, NEW k \in Kinds, EmitTelemetry(k)
  PROVE  /\ quiet >= Spacing /\ age[k] >= Interval[k]
         /\ \A j \in Kinds : Rank[j] < Rank[k] => age[j] < Interval[j]
<1>1. \A j \in Kinds : (Due(j) <=> age[j] >= Interval[j]) /\ age[j] \in Nat
  BY DEF TimersInv, ReadingsAreTimes, Due, TimersTypeOK
<1>2. MayEmit <=> quiet >= Spacing
  BY DEF TimersInv, ReadingsAreTimes, MayEmit
<1>3. \A j \in Kinds : ~Due(j) => age[j] < Interval[j]
  BY <1>1, Times
<1>4. QED BY <1>1, <1>2, <1>3 DEF EmitTelemetry

LEMMA EmitStep ==
  ASSUME TimersInv, NEW k \in Kinds, EmitTelemetry(k)
  PROVE  TimersInv'
<1> DEFINE a1 == age["LINK_HEARTBEAT"]
           a2 == age["NODE_HEALTH"]
           a3 == age["LINK_SYNC"]
           b1 == age'["LINK_HEARTBEAT"]
           b2 == age'["NODE_HEALTH"]
           b3 == age'["LINK_SYNC"]
<1>1. /\ now \in Readings /\ lastEmit \in Readings /\ last \in [Kinds -> Readings] /\ idle \in 0..MaxLag
      /\ age \in [Kinds -> Nat] /\ quiet \in Nat
  BY DEF TimersInv, TimersTypeOK
<1>2. now' = now /\ lastEmit' = now /\ idle' = 0 /\ quiet' = 0 /\ last' = [last EXCEPT ![k] = now]
  BY DEF EmitTelemetry
<1>3. age' = [age EXCEPT ![k] = 0] /\ age' \in [Kinds -> Nat]
  BY <1>1 DEF EmitTelemetry
<1>4. TimersTypeOK'
  <2>1. last' \in [Kinds -> Readings] BY <1>1, <1>2
  <2>2. 0 \in 0..MaxLag /\ 0 \in Nat BY Times
  <2>3. QED BY <1>1, <1>2, <1>3, <2>1, <2>2 DEF TimersTypeOK
<1>5. ReadingsAreTimes'
  <2>1. Minus(now, now) = 0 BY <1>1, MinusReadings DEF Readings
  <2>2. ASSUME NEW j \in Kinds PROVE Minus(now, last'[j]) = age'[j] /\ 0 <= age'[j]
    <3>1. CASE j = k BY <1>1, <1>2, <1>3, <2>1, <3>1
    <3>2. CASE j # k
      <4>1. last'[j] = last[j] /\ age'[j] = age[j] BY <1>1, <1>2, <1>3, <3>2
      <4>2. Minus(now, last[j]) = age[j] /\ age[j] \in Nat BY <1>1 DEF TimersInv, ReadingsAreTimes
      <4>3. QED BY <4>1, <4>2
    <3>3. QED BY <3>1, <3>2
  <2>3. QED BY <1>2, <2>1, <2>2 DEF ReadingsAreTimes, Minus
<1>6. Settled' BY <1>2, Times DEF Settled
<1>7. Overtaken'
  <2>1. a1 \in Nat /\ a2 \in Nat /\ a3 \in Nat /\ b1 \in Nat /\ b2 \in Nat /\ b3 \in Nat
    BY <1>1, <1>3 DEF Kinds
  <2>2. /\ a1 - quiet < HeartbeatInterval
        /\ a2 - quiet < HealthInterval \/ (a2 - quiet < HealthInterval + Delay /\ a1 = quiet)
        /\ \/ a3 - quiet < SyncInterval
           \/ a3 - quiet < SyncInterval + Delay /\ (a1 = quiet \/ a2 = quiet)
           \/ a3 - quiet < SyncInterval + 2 * Delay /\ a1 <= quiet + Delay /\ a2 <= quiet + Delay
    BY <2>1, Times DEF TimersInv, Overtaken, Late
  <2>3. \/ quiet <= Delay
        \/ a1 < HeartbeatInterval + Delay /\ a2 < HealthInterval + Delay /\ a3 < SyncInterval + Delay
    BY SilenceIsShort, Times DEF Kinds
  <2>4. /\ k = "LINK_HEARTBEAT" => a1 >= HeartbeatInterval /\ b1 = 0 /\ b2 = a2 /\ b3 = a3
        /\ k = "NODE_HEALTH" => a1 < HeartbeatInterval /\ a2 >= HealthInterval /\ b1 = a1 /\ b2 = 0 /\ b3 = a3
        /\ k = "LINK_SYNC" => a1 < HeartbeatInterval /\ a2 < HealthInterval /\ b1 = a1 /\ b2 = a2 /\ b3 = 0
    <3>1. age[k] >= Interval[k] /\ \A j \in Kinds : Rank[j] < Rank[k] => age[j] < Interval[j]
      BY Emission
    <3>2. Rank["LINK_HEARTBEAT"] = 1 /\ Rank["NODE_HEALTH"] = 2 /\ Rank["LINK_SYNC"] = 3 BY DEF Rank
    <3>3. age'[k] = 0 /\ \A j \in Kinds : j # k => age'[j] = age[j] BY <1>1, <1>3
    <3>4. QED BY <3>1, <3>2, <3>3, Times DEF Kinds
  <2> HIDE DEF a1, a2, a3, b1, b2, b3
  <2>5. /\ b1 < HeartbeatInterval
        /\ b2 < HealthInterval \/ (b2 < HealthInterval + Delay /\ b1 = 0)
        /\ \/ b3 < SyncInterval
           \/ b3 < SyncInterval + Delay /\ (b1 = 0 \/ b2 = 0)
           \/ b3 < SyncInterval + 2 * Delay /\ b1 <= Delay /\ b2 <= Delay
    <3>1. CASE k = "LINK_HEARTBEAT" BY <1>1, <2>1, <2>2, <2>3, <2>4, <3>1, Times
    <3>2. CASE k = "NODE_HEALTH" BY <1>1, <2>1, <2>2, <2>3, <2>4, <3>2, Times
    <3>3. CASE k = "LINK_SYNC" BY <1>1, <2>1, <2>2, <2>3, <2>4, <3>3, Times
    <3>4. QED BY <3>1, <3>2, <3>3 DEF Kinds
  <2>6. QED BY <1>2, <2>1, <2>5, Times DEF Overtaken, Late, b1, b2, b3
<1>8. QED BY <1>4, <1>5, <1>6, <1>7 DEF TimersInv

LEMMA NothingStep ==
  ASSUME TimersInv, NothingToEmit
  PROVE  TimersInv'
<1>1. idle' = 0 /\ UNCHANGED <<now, last, lastEmit, age, quiet>> BY DEF NothingToEmit
<1>2. idle \in 0..MaxLag /\ quiet \in Nat /\ \A k \in Kinds : age[k] \in Nat
  BY DEF TimersInv, TimersTypeOK
<1>3. TimersTypeOK' BY <1>1, Times DEF TimersInv, TimersTypeOK
<1>4. ReadingsAreTimes' BY <1>1 DEF TimersInv, ReadingsAreTimes, Minus
<1>5. Settled'
  <2>1. \A j \in Kinds : Due(j) <=> age[j] >= Interval[j] BY DEF TimersInv, ReadingsAreTimes, Due
  <2>2. quiet >= Spacing => \A j \in Kinds : age[j] < Interval[j]
    BY <1>2, <2>1, Times DEF NothingToEmit, MayEmit, TimersInv, ReadingsAreTimes
  <2>3. QED BY <1>1, <1>2, <2>2, Times DEF Settled
<1>6. Overtaken' BY <1>1 DEF TimersInv, Overtaken, Late
<1>7. QED BY <1>3, <1>4, <1>5, <1>6 DEF TimersInv

LEMMA TimersStep == TimersInv /\ [TimersNext]_timers => TimersInv'
<1> SUFFICES ASSUME TimersInv, [TimersNext]_timers PROVE TimersInv'
  OBVIOUS
<1>1. CASE TimePasses BY <1>1, TimePassesStep
<1>2. CASE NothingToEmit BY <1>2, NothingStep
<1>3. CASE \E k \in Kinds : EmitTelemetry(k) BY <1>3, EmitStep
<1>4. CASE UNCHANGED timers
  BY <1>4 DEF timers, TimersInv, TimersTypeOK, ReadingsAreTimes, Settled, JustBegun, Overtaken, Late, Minus
<1>5. QED BY <1>1, <1>2, <1>3, <1>4 DEF TimersNext, update

LEMMA TimersSpecInv == TimersSpec => []TimersInv
BY TimersInitInv, TimersStep, PTL DEF TimersSpec

\* No kind of SUB's packets is starved: for every reading of millis(), and as long as two
\* Delays fit into the interval of the heartbeat, each is emitted within its interval and
\* one Delay for each kind up to it in the order.
THEOREM NoKindStarves == TimersSpec => []NeverTooLate
BY TimersSpecInv, NeverTooLateInv, PTL

\* A wrap of millis() makes no packet early.
THEOREM NoPacketIsEarly == TimersSpec => NeverTooSoon
<1> DEFINE A == /\ quiet' < quiet => quiet >= Spacing
                /\ \A k \in Kinds : age'[k] < age[k] => age[k] >= Interval[k]
<1>1. TimersInv /\ [TimersNext]_timers => [A]_timers
  <2> SUFFICES ASSUME TimersInv, TimersNext PROVE A
    OBVIOUS
  <2>1. quiet \in Nat /\ \A k \in Kinds : age[k] \in Nat BY DEF TimersInv, TimersTypeOK
  <2>2. CASE TimePasses
    <3>1. quiet' = quiet + 1 /\ \A k \in Kinds : age'[k] = age[k] + 1 BY <2>2 DEF TimePasses
    <3>2. QED BY <2>1, <3>1
  <2>3. CASE NothingToEmit BY <2>1, <2>3 DEF NothingToEmit
  <2>4. ASSUME NEW k \in Kinds, EmitTelemetry(k) PROVE A
    <3>1. quiet >= Spacing /\ age[k] >= Interval[k] BY <2>4, Emission
    <3>2. \A j \in Kinds : j # k => age'[j] = age[j] BY <2>4 DEF EmitTelemetry, TimersInv, TimersTypeOK
    <3>3. QED BY <2>1, <3>1, <3>2
  <2>5. QED BY <2>2, <2>3, <2>4 DEF TimersNext, update
<1>2. QED BY TimersSpecInv, <1>1, PTL DEF TimersSpec, NeverTooSoon

-----------------------------------------------------------------------------
(*                    SUB's packets through MAIN                           *)

\* All that MAIN has of the line is the beginning of the packet being sent.
Undamaged == arrived = [i \in 1..(at - 1) |-> PieceOf(packet, i)]

\* A fault is paid for by two packets.  What has not been spent is kept back for the line
\* that a packet yet to come will find begun; a packet under way without damage is not lost.
Balance ==
    \/ ~Sending /\ arrived = <<>> /\ owed <= 2 * faults
    \/ ~Sending /\ owed + 1 <= 2 * faults
    \/ Sending /\ owed <= 2 * faults
    \/ Sending /\ Undamaged /\ packet.size <= MaxLineLength /\ owed <= 2 * faults + 1

Faultless ==
    faults = 0 => /\ Sending => Undamaged
                  /\ ~Sending => arrived = <<>>

SendingInv ==
    /\ Sending => packet \in Packets /\ at \in 1..(packet.size + 1)
    /\ ~Sending => at = 0

LinkInv == LinkTypeOK /\ SendingInv /\ JudgedAsArrived /\ Balance /\ Faultless /\ NumbersAccounted

LEMMA Limits ==
  /\ MaxLineLength \in Nat /\ MaxLineLength > 0 /\ MaxFaults \in Nat
  /\ \A n \in Sizes : n \in Nat /\ n >= 4
  BY LengthsAssumption

LEMMA PacketPieces ==
  ASSUME NEW p \in Packets
  PROVE  /\ p.size \in Nat /\ p.size >= 4 /\ p # NoPacket /\ p.type \in PacketTypes
         /\ \A i \in Nat \ {0} : PieceOf(p, i) \in Pieces
         /\ \A i \in 1..p.size : PieceOf(p, i) # Newline /\ PieceOf(p, i).of = p
         /\ \A i \in Nat : i > p.size => PieceOf(p, i) = Newline
         /\ PieceOf(p, 1).part = "open" /\ PieceOf(p, 2).part = "type" /\ PieceOf(p, 3).part = "fields"
         /\ PieceOf(p, p.size).part = "close"
<1>1. p.size \in Nat /\ p.size >= 4 /\ p.type \in PacketTypes BY Limits DEF Packets
<1>2. p # NoPacket BY <1>1 DEF NoPacket
<1>3. Newline \in Pieces BY DEF Newline, Pieces, Parts
<1> DEFINE part(i) == CASE i = 1 -> "open" [] i = 2 -> "type" [] i = 3 -> "fields"
                        [] i = p.size -> "close" [] OTHER -> "filling"
<1>4. ASSUME NEW i \in Nat, i <= p.size PROVE PieceOf(p, i) = [part |-> part(i), of |-> p]
  BY <1>1, <1>4 DEF PieceOf
<1>5. \A i \in Nat : part(i) \in {"open", "type", "fields", "close", "filling"} BY <1>1
<1>6. \A i \in 1..p.size : PieceOf(p, i) \in Pieces /\ PieceOf(p, i) # Newline /\ PieceOf(p, i).of = p
  <2> HIDE DEF part
  <2>1. \A i \in 1..p.size : [part |-> part(i), of |-> p] \in Pieces /\ [part |-> part(i), of |-> p] # Newline
    BY <1>1, <1>5 DEF Pieces, Parts, Newline
  <2>2. QED BY <1>1, <1>4, <2>1
<1>7. \A i \in Nat : i > p.size => PieceOf(p, i) = Newline BY <1>1 DEF PieceOf
<1>8. part(1) = "open" /\ part(2) = "type" /\ part(3) = "fields" /\ part(p.size) = "close" BY <1>1
<1> HIDE DEF part
<1>9. QED BY <1>1, <1>2, <1>3, <1>4, <1>6, <1>7, <1>8

LEMMA GlitchPieces == Glitches \subseteq Pieces /\ Newline \in Pieces
  BY DEF Glitches, Pieces, Parts, Newline

LEMMA LinkInitInv == LinkInit => LinkInv
<1> SUFFICES ASSUME LinkInit PROVE LinkInv
  OBVIOUS
<1>1. <<>> \in Seq(Pieces) /\ Len(<<>>) = 0 BY EmptySeq
<1>2. packet = NoPacket /\ ~Sending /\ at = 0 /\ faults = 0 /\ owed = 0 BY DEF LinkInit, Sending
<1>3. LinkTypeOK
  <2>1. at \in 0..(packet.size + 1) BY <1>2 DEF NoPacket
  <2>2. 0 \in 0..MaxFaults BY Limits
  <2>3. subLine \in Seq(Pieces) /\ Len(subLine) <= MaxLineLength /\ arrived \in Seq(Pieces)
    BY <1>1, Limits DEF LinkInit
  <2>4. nextNumber \in Nat \ {0} /\ unsent \in Nat /\ {forwarded, dropped, overlongLines, corrupt} \subseteq Nat
    BY DEF LinkInit
  <2>5. packet \in Packets \cup {NoPacket} /\ owed \in Int /\ faults \in 0..MaxFaults BY <1>2, <2>2
  <2>6. discarding \in BOOLEAN BY Zenon DEF LinkInit
  <2>7. QED BY <2>1, <2>3, <2>4, <2>5, <2>6, Zenon DEF LinkTypeOK
<1>4. SendingInv /\ JudgedAsArrived /\ Balance /\ Faultless BY <1>2 DEF LinkInit, SendingInv, JudgedAsArrived, Balance, Faultless
<1>5. NumbersAccounted BY <1>2 DEF LinkInit, NumbersAccounted
<1>6. QED BY <1>3, <1>4, <1>5 DEF LinkInv

MainType ==
    /\ subLine \in Seq(Pieces) /\ Len(subLine) <= MaxLineLength
    /\ discarding \in BOOLEAN
    /\ forwarded \in Nat /\ dropped \in Nat /\ overlongLines \in Nat /\ corrupt \in Nat
    /\ arrived \in Seq(Pieces) /\ owed \in Int

\* Whatever a byte is, MAIN still judges what arrived, and owes no more than before.
LEMMA ByteStep ==
  ASSUME MainType, JudgedAsArrived, NEW c \in Pieces, handleSubTelemetryByte(c)
  PROVE  MainType' /\ JudgedAsArrived' /\ owed' <= owed /\ (c = Newline => arrived' = <<>>)
<1>1. <<>> \in Seq(Pieces) /\ Len(<<>>) = 0 BY EmptySeq
<1>2. \A s \in Seq(Pieces) : Append(s, c) \in Seq(Pieces) /\ Len(Append(s, c)) = Len(s) + 1 /\ Len(s) \in Nat
  BY AppendProperties, LenProperties
<1>3. CASE discarding /\ DiscardPiece(c)
  <2>1. UNCHANGED <<forwarded, dropped, overlongLines, corrupt, owed>> BY <1>3 DEF DiscardPiece, counts
  <2>2. CASE c = Newline
    <3>1. discarding' = FALSE /\ subLine' = <<>> /\ arrived' = <<>> BY <1>3, <2>2 DEF DiscardPiece
    <3>2. Len(subLine') <= MaxLineLength /\ subLine' \in Seq(Pieces) /\ arrived' \in Seq(Pieces)
      BY <1>1, <3>1, Limits
    <3>3. discarding' \in BOOLEAN BY <3>1, Zenon
    <3>4. MainType' BY <2>1, <3>2, <3>3 DEF MainType
    <3>5. JudgedAsArrived' BY <3>1 DEF JudgedAsArrived
    <3>6. owed' <= owed BY <2>1 DEF MainType
    <3>7. QED BY <3>1, <3>4, <3>5, <3>6
  <2>3. CASE c # Newline
    <3>1. arrived' = Append(arrived, c) /\ UNCHANGED <<discarding, subLine>> BY <1>3, <2>3 DEF DiscardPiece
    <3>2. Len(arrived) > MaxLineLength /\ Len(arrived) \in Nat BY <1>2, <1>3 DEF MainType, JudgedAsArrived
    <3>3. arrived' \in Seq(Pieces) /\ Len(arrived') > MaxLineLength BY <1>2, <3>1, <3>2, Limits DEF MainType
    <3>4. MainType' BY <2>1, <3>1, <3>3 DEF MainType
    <3>5. JudgedAsArrived' BY <1>3, <3>1, <3>3 DEF JudgedAsArrived
    <3>6. owed' <= owed BY <2>1 DEF MainType
    <3>7. QED BY <2>3, <3>4, <3>5, <3>6
  <2>4. QED BY <2>2, <2>3
<1>4. CASE ~discarding /\ c = Newline /\ EndLine
  <2>1. subLine' = <<>> /\ arrived' = <<>> /\ discarding' = FALSE /\ overlongLines' = overlongLines
    BY <1>4 DEF EndLine, MainType
  <2>2. /\ forwarded' \in {forwarded, forwarded + 1} /\ dropped' \in {dropped, dropped + 1}
        /\ corrupt' \in {corrupt, corrupt + 1} /\ owed' \in {owed, owed - 1}
    BY <1>4 DEF EndLine, DropMalformed, DropCorrupt, forwardSubTelemetryLine
  <2>3. /\ forwarded' \in Nat /\ dropped' \in Nat /\ corrupt' \in Nat
        /\ owed' \in Int /\ owed' <= owed
    BY <2>2 DEF MainType
  <2>4. Len(subLine') <= MaxLineLength /\ subLine' \in Seq(Pieces) /\ arrived' \in Seq(Pieces)
    BY <1>1, <2>1, Limits
  <2>5. discarding' \in BOOLEAN BY <2>1, Zenon
  <2>6. MainType' BY <2>1, <2>3, <2>4, <2>5 DEF MainType
  <2>7. JudgedAsArrived' BY <2>1 DEF JudgedAsArrived
  <2>8. QED BY <2>1, <2>3, <2>6, <2>7
<1>5. CASE ~discarding /\ c # Newline /\ StorePiece(c)
  <2>1. arrived' = Append(arrived, c) /\ UNCHANGED <<forwarded, dropped, corrupt, owed>> BY <1>5 DEF StorePiece
  <2>2. subLine = arrived BY <1>5 DEF JudgedAsArrived
  <2>3. CASE ~Full
    <3>1. subLine' = Append(subLine, c) /\ UNCHANGED <<discarding, overlongLines>> BY <1>5, <2>3 DEF StorePiece
    <3>2. Len(subLine) < MaxLineLength BY <1>2, <2>3, Limits DEF Full, MainType
    <3>3. QED BY <1>2, <1>5, <2>1, <2>2, <3>1, <3>2, Limits DEF MainType, JudgedAsArrived
  <2>4. CASE Full
    <3>1. subLine' = <<>> /\ discarding' = TRUE /\ overlongLines' = overlongLines + 1 BY <1>5, <2>4 DEF StorePiece
    <3>2. Len(arrived) >= MaxLineLength BY <2>2, <2>4 DEF Full
    <3>3. arrived' \in Seq(Pieces) /\ Len(arrived') > MaxLineLength BY <1>2, <2>1, <3>2, Limits DEF MainType
    <3>4. Len(subLine') <= MaxLineLength /\ subLine' \in Seq(Pieces) BY <1>1, <3>1, Limits
    <3>5. MainType' BY <2>1, <3>1, <3>3, <3>4 DEF MainType
    <3>6. JudgedAsArrived' BY <3>1, <3>3 DEF JudgedAsArrived
    <3>7. owed' <= owed BY <2>1 DEF MainType
    <3>8. QED BY <1>5, <3>5, <3>6, <3>7
  <2>5. QED BY <2>3, <2>4
<1>6. QED BY <1>3, <1>4, <1>5 DEF handleSubTelemetryByte

\* A packet that is complete on MAIN's side is forwarded.
LEMMA WholeLine ==
  ASSUME NEW p \in Packets, NEW s, s = [i \in 1..p.size |-> PieceOf(p, i)], s = subLine
  PROVE  subLine # <<>> /\ IsBraced /\ isSubTelemetryLineSane /\ IsWhole(subLine)
<1>1. p.size \in Nat /\ p.size >= 4 BY PacketPieces
<1>2. s \in Seq(Pieces) /\ Len(s) = p.size /\ DOMAIN s = 1..p.size
  <2>1. s \in [1..p.size -> Pieces] BY <1>1, PacketPieces
  <2>2. QED BY <1>1, <2>1, LenProperties
<1>3. \A i \in 1..p.size : s[i] = PieceOf(p, i) /\ s[i].of = p BY PacketPieces
<1>4. s # <<>> BY <1>1, <1>2, EmptySeq
<1>5. 1 \in 1..p.size /\ 2 \in 1..p.size /\ 3 \in 1..p.size /\ p.size \in 1..p.size BY <1>1
<1>6. IsBraced BY <1>2, <1>3, <1>5, PacketPieces DEF IsBraced
<1>7. IsWhole(subLine) BY <1>3, <1>4, <1>5 DEF IsWhole, LineOf
<1>8. isSubTelemetryLineSane
  <2>1. \A part, type : containsToken(part, type) => type = p.type BY <1>2, <1>3 DEF containsToken
  <2>2. containsToken("type", p.type)
    <3>1. s[2].part = "type" /\ s[2].of.type = p.type BY <1>3, <1>5, PacketPieces
    <3>2. QED BY <1>2, <1>5, <3>1 DEF containsToken
  <2>3. containsToken("fields", p.type)
    <3>1. s[3].part = "fields" /\ s[3].of.type = p.type BY <1>3, <1>5, PacketPieces
    <3>2. QED BY <1>2, <1>5, <3>1 DEF containsToken
  <2>4. p.type \in PacketTypes BY PacketPieces
  <2>5. CASE p.type = "NODE_HEALTH" BY <2>1, <2>2, <2>3, <2>5 DEF isSubTelemetryLineSane
  <2>6. CASE p.type = "LINK_SYNC" BY <2>1, <2>2, <2>3, <2>6 DEF isSubTelemetryLineSane
  <2>7. CASE p.type = "LINK_HEARTBEAT" BY <2>1, <2>2, <2>3, <2>7 DEF isSubTelemetryLineSane
  <2>8. QED BY <2>4, <2>5, <2>6, <2>7 DEF PacketTypes
<1>9. QED BY <1>4, <1>6, <1>7, <1>8

SubType == nextNumber \in Nat \ {0} /\ unsent \in Nat /\ SendingInv

FaultsType == faults \in 0..MaxFaults

LEMMA TypesApart == LinkTypeOK /\ SendingInv => MainType /\ SubType /\ FaultsType
BY Zenon DEF LinkTypeOK, MainType, SubType, FaultsType

LEMMA TypesTogether == MainType /\ SubType /\ FaultsType => LinkTypeOK
<1> SUFFICES ASSUME MainType, SubType, FaultsType PROVE LinkTypeOK
  OBVIOUS
<1>1. packet \in Packets \cup {NoPacket} BY Zenon DEF SubType, SendingInv, Sending
<1>2. at \in 0..(packet.size + 1)
  <2>1. CASE Sending
    <3>1. packet \in Packets /\ at \in 1..(packet.size + 1) BY <2>1 DEF SubType, SendingInv
    <3>2. packet.size \in Nat BY <3>1, PacketPieces
    <3>3. QED BY <3>1, <3>2
  <2>2. CASE ~Sending
    <3>1. packet.size = 0 /\ at = 0 BY <2>2 DEF SubType, SendingInv, Sending, NoPacket
    <3>2. QED BY <3>1
  <2>3. QED BY <2>1, <2>2
<1>3. {forwarded, dropped, overlongLines, corrupt} \subseteq Nat BY DEF MainType
<1>4. QED BY <1>1, <1>2, <1>3, Zenon DEF MainType, SubType, FaultsType, LinkTypeOK

LEMMA NextTypesTogether == MainType' /\ SubType' /\ FaultsType' => LinkTypeOK'
BY TypesTogether, PTL

LEMMA Budget ==
  ASSUME LinkInv
  PROVE  /\ faults \in Nat /\ owed \in Int /\ owed <= 2 * faults + 1
         /\ owed <= 2 * faults + (IF Sending THEN 1 ELSE 0)
<1>1. faults \in Nat /\ owed \in Int BY Limits DEF LinkInv, LinkTypeOK
<1>2. QED BY <1>1 DEF LinkInv, Balance

\* A fault pays for whatever it did.
LEMMA FaultPays ==
  ASSUME LinkInv, Fault, MainType', JudgedAsArrived', SubType', owed' <= owed
  PROVE  LinkInv'
<1>1. faults \in 0..MaxFaults /\ faults' = faults + 1 /\ faults < MaxFaults BY DEF LinkInv, LinkTypeOK, Fault
<1>2. faults' \in 0..MaxFaults /\ faults' # 0 BY <1>1, Limits
<1>3. LinkTypeOK' BY <1>2, NextTypesTogether DEF FaultsType
<1>4. Balance'
  <2>1. owed' \in Int /\ owed \in Int /\ faults \in Nat /\ owed <= 2 * faults + 1 BY Budget DEF MainType
  <2>2. 2 * faults' = 2 * faults + 2 BY <1>1, <2>1
  <2>3. owed' + 1 <= 2 * faults' /\ owed' <= 2 * faults' BY <2>1, <2>2
  <2>4. QED BY <2>3 DEF Balance
<1>5. Faultless' /\ NumbersAccounted' BY <1>2 DEF Faultless, NumbersAccounted
<1>6. QED BY <1>3, <1>4, <1>5 DEF LinkInv, SubType

LEMMA SubStep ==
  ASSUME SubType, PieceLeaves
  PROVE  /\ SubType'
         /\ at <= packet.size => Sending' /\ packet' = packet /\ at' = at + 1
         /\ at > packet.size => ~Sending' /\ at = packet.size + 1
<1>1. Sending /\ packet \in Packets /\ at \in 1..(packet.size + 1) /\ packet.size \in Nat
  BY PacketPieces DEF PieceLeaves, SubType, SendingInv
<1>2. nextNumber' = nextNumber /\ unsent' = unsent BY DEF PieceLeaves
<1>3. CASE at <= packet.size
  <2>1. at' = at + 1 /\ packet' = packet BY <1>1, <1>3 DEF PieceLeaves
  <2>2. at' \in 1..(packet.size + 1) BY <1>1, <1>3, <2>1
  <2>3. QED BY <1>1, <1>2, <1>3, <2>1, <2>2 DEF SubType, SendingInv, Sending
<1>4. CASE at > packet.size
  <2>1. at' = 0 /\ packet' = NoPacket BY <1>1, <1>4 DEF PieceLeaves
  <2>2. QED BY <1>1, <1>2, <1>4, <2>1 DEF SubType, SendingInv, Sending
<1>5. QED BY <1>1, <1>3, <1>4

LEMMA FaultStep ==
  ASSUME LinkInv, Lose \/ Alter \/ Disturb \/ SubResets \/ MainResets
  PROVE  LinkInv'
<1>1. MainType /\ SubType /\ JudgedAsArrived /\ owed \in Int
  BY TypesApart DEF LinkInv, MainType
<1>2. UNCHANGED main => MainType' /\ JudgedAsArrived' /\ owed' <= owed
  BY <1>1 DEF main, counts, MainType, JudgedAsArrived
<1>3. UNCHANGED sub => SubType' BY <1>1 DEF sub, SubType, SendingInv, Sending
<1>4. CASE Lose BY <1>1, <1>2, <1>4, FaultPays, SubStep DEF Lose
<1>5. CASE Alter
  <2>1. PICK c \in Glitches : handleSubTelemetryByte(c) BY <1>5 DEF Alter
  <2>2. QED BY <1>1, <1>5, <2>1, GlitchPieces, ByteStep, FaultPays, SubStep DEF Alter
<1>6. CASE Disturb
  <2>1. PICK c \in Glitches : handleSubTelemetryByte(c) BY <1>6 DEF Disturb
  <2>2. QED BY <1>1, <1>3, <1>6, <2>1, GlitchPieces, ByteStep, FaultPays DEF Disturb
<1>7. CASE SubResets
  <2>1. SubType' BY <1>7 DEF SubResets, SubType, SendingInv, Sending
  <2>2. QED BY <1>2, <1>7, <2>1, FaultPays DEF SubResets
<1>8. CASE MainResets
  <2>1. <<>> \in Seq(Pieces) /\ Len(<<>>) = 0 BY EmptySeq
  <2>2. subLine' = <<>> /\ arrived' = <<>> /\ discarding' = FALSE /\ owed' = owed BY <1>8 DEF MainResets
  <2>3. discarding' \in BOOLEAN BY <2>2, Zenon
  <2>4. MainType' BY <1>1, <1>8, <2>1, <2>2, <2>3, Limits DEF MainResets, MainType
  <2>5. JudgedAsArrived' /\ owed' <= owed BY <1>1, <2>2 DEF JudgedAsArrived
  <2>6. QED BY <1>3, <1>8, <2>4, <2>5, FaultPays DEF MainResets
<1>9. QED BY <1>4, <1>5, <1>6, <1>7, <1>8

LEMMA EmitPacketStep ==
  ASSUME LinkInv, NEW type \in PacketTypes, NEW size \in Sizes, EmitPacket(type, size)
  PROVE  LinkInv'
<1>1. MainType /\ SubType /\ FaultsType /\ JudgedAsArrived /\ size \in Nat /\ size >= 4
  BY TypesApart, Limits DEF LinkInv
<1>2. ~Sending /\ nextNumber' = nextNumber + 1 /\ nextNumber \in Nat
  BY <1>1 DEF EmitPacket, SubType
<1>3. UNCHANGED <<subLine, discarding, forwarded, dropped, overlongLines, corrupt, arrived, faults>>
  BY DEF EmitPacket, counts
<1>4. JudgedAsArrived' /\ FaultsType' BY <1>1, <1>3 DEF JudgedAsArrived, FaultsType
<1>5. ~(arrived = <<>> /\ discarding) BY <1>1, EmptySeq, Limits DEF JudgedAsArrived
<1>6. faults \in Nat /\ owed \in Int BY Budget
<1>7. CASE size >= LineBufferSize - 1
  <2>1. unsent' = unsent + 1 /\ UNCHANGED <<packet, at, owed>>
    BY <1>1, <1>7, LengthsAssumption DEF EmitPacket
  <2>2. MainType' BY <1>1, <1>3, <2>1 DEF MainType
  <2>3. SubType' /\ ~Sending' BY <1>1, <1>2, <2>1 DEF SubType, SendingInv, Sending
  <2>4. LinkTypeOK' BY <1>4, <2>2, <2>3, NextTypesTogether
  <2>5. Balance' BY <1>2, <1>3, <2>1, <2>3 DEF LinkInv, Balance
  <2>6. Faultless' BY <1>2, <1>3, <2>3 DEF LinkInv, Faultless
  <2>7. NumbersAccounted' BY <1>1, <1>2, <1>3, <2>1, <2>3 DEF LinkInv, NumbersAccounted, MainType, SubType
  <2>8. QED BY <1>4, <2>3, <2>4, <2>5, <2>6, <2>7 DEF LinkInv, SubType
<1>8. CASE size < LineBufferSize - 1
  <2> DEFINE p == [type |-> type, number |-> nextNumber, size |-> size]
  <2>1. /\ packet' = p /\ at' = 1 /\ unsent' = unsent
        /\ owed' = IF size <= MaxLineLength THEN owed + 1 ELSE owed
    BY <1>1, <1>8, LengthsAssumption DEF EmitPacket
  <2>2. p \in Packets /\ p.size = size BY <1>1, <1>2 DEF Packets
  <2>3. MainType' BY <1>1, <1>3, <1>6, <2>1 DEF MainType
  <2>4. SubType' /\ Sending'
    <3>1. p # NoPacket BY <2>2, PacketPieces
    <3>2. Sending' BY <2>1, <3>1 DEF Sending
    <3>3. packet' \in Packets /\ at' \in 1..(packet'.size + 1) BY <1>1, <2>1, <2>2
    <3>4. nextNumber' \in Nat \ {0} /\ unsent' \in Nat BY <1>1, <1>2, <2>1 DEF SubType
    <3>5. QED BY <3>2, <3>3, <3>4 DEF SubType, SendingInv
  <2>5. LinkTypeOK' BY <1>4, <2>3, <2>4, NextTypesTogether
  <2>6. arrived = <<>> => Undamaged' BY <1>3, <2>1 DEF Undamaged
  <2>7. Balance'
    <3>1. packet'.size = size BY <2>1, <2>2
    <3>2. CASE arrived = <<>> /\ owed <= 2 * faults
      BY <1>1, <1>3, <1>6, <2>1, <2>4, <2>6, <3>1, <3>2, Limits DEF Balance
    <3>3. CASE owed + 1 <= 2 * faults BY <1>3, <1>6, <2>1, <2>4, <3>3 DEF Balance
    <3>4. QED BY <1>2, <3>2, <3>3 DEF LinkInv, Balance
  <2>8. Faultless' BY <1>2, <1>3, <2>4, <2>6 DEF LinkInv, Faultless
  <2>9. NumbersAccounted'
    <3>1. faults = 0 => ~discarding BY <1>2, <1>5 DEF LinkInv, Faultless
    <3>2. QED BY <1>1, <1>2, <1>3, <2>1, <2>4, <3>1 DEF LinkInv, NumbersAccounted, MainType, SubType
  <2>10. QED BY <1>4, <2>4, <2>5, <2>7, <2>8, <2>9 DEF LinkInv, SubType
<1>9. size >= LineBufferSize - 1 \/ size < LineBufferSize - 1 BY <1>1, LengthsAssumption
<1>10. QED BY <1>7, <1>8, <1>9

\* The next piece of a packet that came undamaged so far.
LEMMA PieceArrives ==
  ASSUME LinkInv, PieceLeaves, at <= packet.size, handleSubTelemetryByte(PieceOf(packet, at))
  PROVE  /\ Undamaged => Undamaged'
         /\ Undamaged /\ packet.size <= MaxLineLength => ~discarding /\ ~Full
         /\ UNCHANGED <<forwarded, dropped, corrupt, owed>>
         /\ \/ UNCHANGED <<discarding, overlongLines>>
            \/ ~discarding /\ Full /\ discarding' /\ overlongLines' = overlongLines + 1
<1> DEFINE c == PieceOf(packet, at)
<1>1. MainType /\ SubType /\ JudgedAsArrived BY TypesApart DEF LinkInv
<1>2. packet \in Packets /\ at \in 1..packet.size /\ packet.size \in Nat
  BY <1>1, PacketPieces DEF SubType, SendingInv, PieceLeaves
<1>3. c # Newline /\ packet' = packet /\ at' = at + 1 BY <1>1, <1>2, PacketPieces, SubStep
<1>4. arrived' = Append(arrived, c) BY <1>3 DEF handleSubTelemetryByte, DiscardPiece, StorePiece
<1>5. ASSUME Undamaged PROVE Undamaged' /\ Len(arrived) = at - 1
  <2>1. arrived = [i \in 1..(at - 1) |-> PieceOf(packet, i)] BY <1>5 DEF Undamaged
  <2>2. Len(arrived) = at - 1 BY <1>1, <1>2, <2>1, LenProperties DEF MainType
  <2>3. Append(arrived, c) = [i \in 1..at |-> PieceOf(packet, i)]
    BY <1>2, <2>1, <2>2
  <2>4. at' - 1 = at BY <1>2, <1>3
  <2>5. QED BY <1>3, <1>4, <2>2, <2>3, <2>4 DEF Undamaged
<1>6. Undamaged /\ packet.size <= MaxLineLength => ~discarding /\ ~Full
  BY <1>1, <1>2, <1>5, Limits DEF JudgedAsArrived, Full
<1>7. UNCHANGED <<forwarded, dropped, corrupt, owed>>
  BY <1>3 DEF handleSubTelemetryByte, DiscardPiece, StorePiece, counts
<1>8. \/ UNCHANGED <<discarding, overlongLines>>
      \/ ~discarding /\ Full /\ discarding' /\ overlongLines' = overlongLines + 1
  BY <1>3 DEF handleSubTelemetryByte, DiscardPiece, StorePiece, counts
<1>9. QED BY <1>5, <1>6, <1>7, <1>8

\* The newline after a packet that came undamaged.
LEMMA NewlineArrives ==
  ASSUME LinkInv, PieceLeaves, at > packet.size, Undamaged, handleSubTelemetryByte(Newline)
  PROVE  /\ packet.size <= MaxLineLength => ~discarding
         /\ discarding => UNCHANGED <<forwarded, dropped, overlongLines, corrupt, owed>>
         /\ ~discarding => /\ UNCHANGED <<dropped, overlongLines, corrupt>>
                           /\ forwarded' = forwarded + 1 /\ owed' = owed - 1
<1>1. MainType /\ SubType /\ JudgedAsArrived BY TypesApart DEF LinkInv
<1>2. packet \in Packets /\ at - 1 = packet.size /\ packet.size \in Nat
  <2>1. packet \in Packets /\ at \in 1..(packet.size + 1) BY <1>1 DEF SubType, SendingInv, PieceLeaves
  <2>2. QED BY <2>1, PacketPieces
<1>3. arrived = [i \in 1..packet.size |-> PieceOf(packet, i)] BY <1>2 DEF Undamaged
<1>4. Len(arrived) = packet.size BY <1>1, <1>2, <1>3, LenProperties DEF MainType
<1>5. packet.size <= MaxLineLength => ~discarding BY <1>1, <1>2, <1>4, Limits DEF JudgedAsArrived
<1>6. discarding => UNCHANGED <<forwarded, dropped, overlongLines, corrupt, owed>>
  BY DEF handleSubTelemetryByte, DiscardPiece, counts
<1>7. ASSUME ~discarding
      PROVE  /\ UNCHANGED <<dropped, overlongLines, corrupt>>
             /\ forwarded' = forwarded + 1 /\ owed' = owed - 1
  <2>1. subLine = arrived BY <1>1, <1>7 DEF JudgedAsArrived
  <2>2. subLine # <<>> /\ IsBraced /\ isSubTelemetryLineSane /\ IsWhole(subLine)
    BY <1>2, <1>3, <2>1, WholeLine
  <2>3. EndLine BY <1>7 DEF handleSubTelemetryByte
  <2>4. forwardSubTelemetryLine /\ UNCHANGED overlongLines
    BY <2>2, <2>3 DEF EndLine, DropMalformed, DropCorrupt
  <2>5. QED BY <2>2, <2>4 DEF forwardSubTelemetryLine
<1>8. QED BY <1>5, <1>6, <1>7

LEMMA ArriveStep ==
  ASSUME LinkInv, Arrive
  PROVE  LinkInv'
<1> DEFINE c == PieceOf(packet, at)
<1>1. MainType /\ SubType /\ FaultsType /\ JudgedAsArrived /\ faults \in Nat /\ owed \in Int
  BY TypesApart, Budget DEF LinkInv
<1>2. PieceLeaves /\ handleSubTelemetryByte(c) /\ faults' = faults /\ FaultsType'
  BY <1>1 DEF Arrive, FaultsType
<1>3. packet \in Packets /\ at \in 1..(packet.size + 1) /\ packet.size \in Nat /\ Sending
  BY <1>1, <1>2, PacketPieces DEF SubType, SendingInv, PieceLeaves
<1>4. c \in Pieces BY <1>3, PacketPieces
<1>5. MainType' /\ JudgedAsArrived' /\ owed' <= owed /\ (c = Newline => arrived' = <<>>)
  BY <1>1, <1>2, <1>4, ByteStep
<1>6. SubType' BY <1>1, <1>2, SubStep
<1>7. LinkTypeOK' BY <1>2, <1>5, <1>6, NextTypesTogether
<1>8. owed' \in Int BY <1>5 DEF MainType
<1>9. CASE at <= packet.size
  <2>1. Sending' /\ packet' = packet BY <1>1, <1>2, <1>9, SubStep
  <2>2. /\ Undamaged => Undamaged'
        /\ UNCHANGED <<forwarded, dropped, corrupt, owed>>
        /\ \/ UNCHANGED <<discarding, overlongLines>>
           \/ ~discarding /\ discarding' /\ overlongLines' = overlongLines + 1
    BY <1>2, <1>9, PieceArrives
  <2>3. Balance' BY <1>2, <1>3, <2>1, <2>2 DEF LinkInv, Balance
  <2>4. Faultless' BY <1>2, <1>3, <2>1, <2>2 DEF LinkInv, Faultless
  <2>5. nextNumber' = nextNumber /\ unsent' = unsent BY <1>2 DEF PieceLeaves
  <2>6. NumbersAccounted'
    BY <1>1, <1>2, <1>3, <2>1, <2>2, <2>5 DEF LinkInv, NumbersAccounted, MainType, SubType
  <2>7. QED BY <1>5, <1>6, <1>7, <2>3, <2>4, <2>6 DEF LinkInv, SubType
<1>10. CASE at > packet.size
  <2>1. c = Newline /\ arrived' = <<>> /\ ~Sending'
    <3>1. c = Newline BY <1>3, <1>10, PacketPieces
    <3>2. QED BY <1>1, <1>2, <1>5, <1>10, <3>1, SubStep
  <2>2. handleSubTelemetryByte(Newline) BY <1>2, <2>1
  <2>3. owed' <= 2 * faults
    <3>1. CASE owed <= 2 * faults BY <1>1, <1>5, <1>8, <3>1
    <3>2. CASE Undamaged /\ packet.size <= MaxLineLength /\ owed <= 2 * faults + 1
      <4>1. owed' = owed - 1 BY <1>2, <1>10, <2>2, <3>2, NewlineArrives
      <4>2. QED BY <1>1, <3>2, <4>1
    <3>3. QED BY <1>3, <3>1, <3>2 DEF LinkInv, Balance
  <2>4. Balance' BY <1>2, <2>1, <2>3 DEF Balance
  <2>5. Faultless' BY <2>1 DEF Faultless
  <2>6. NumbersAccounted'
    <3>1. SUFFICES ASSUME faults = 0 PROVE NumbersAccounted'
      BY <1>2 DEF NumbersAccounted
    <3>2. Undamaged BY <1>3, <3>1 DEF LinkInv, Faultless
    <3>3. nextNumber' = nextNumber /\ unsent' = unsent BY <1>2 DEF PieceLeaves
    <3>4. CASE discarding
      <4>1. UNCHANGED <<forwarded, dropped, overlongLines, corrupt>>
        BY <1>2, <1>10, <2>2, <3>2, <3>4, NewlineArrives
      <4>2. QED BY <1>3, <2>1, <3>1, <3>3, <3>4, <4>1 DEF LinkInv, NumbersAccounted
    <3>5. CASE ~discarding
      <4>1. UNCHANGED <<dropped, overlongLines, corrupt>> /\ forwarded' = forwarded + 1
        BY <1>2, <1>10, <2>2, <3>2, <3>5, NewlineArrives
      <4>2. QED BY <1>1, <1>3, <2>1, <3>1, <3>3, <3>5, <4>1 DEF LinkInv, NumbersAccounted, MainType, SubType
    <3>6. QED BY <3>4, <3>5
  <2>7. QED BY <1>5, <1>6, <1>7, <2>4, <2>5, <2>6 DEF LinkInv, SubType
<1>11. QED BY <1>3, <1>9, <1>10

LEMMA LinkStep == LinkInv /\ [LinkNext]_link => LinkInv'
<1> SUFFICES ASSUME LinkInv, [LinkNext]_link PROVE LinkInv'
  OBVIOUS
<1>1. ASSUME UNCHANGED link PROVE LinkInv'
  BY <1>1 DEF link, sub, main, counts, LinkInv, LinkTypeOK, SendingInv, JudgedAsArrived, Balance,
              Faultless, NumbersAccounted, Sending, Undamaged
<1>2. CASE \E type \in PacketTypes, size \in Sizes : EmitPacket(type, size) BY <1>2, EmitPacketStep
<1>3. CASE Arrive BY <1>3, ArriveStep
<1>4. CASE Lose \/ Alter \/ Disturb \/ SubResets \/ MainResets BY <1>4, FaultStep
<1>5. QED BY <1>1, <1>2, <1>3, <1>4 DEF LinkNext

LEMMA LinkSpecInv == LinkSpec => []LinkInv
BY LinkInitInv, LinkStep, PTL DEF LinkSpec

\* No line is forwarded or dropped that is not all of what came since the last newline:
\* the end of an overlong line is never taken for a line (handleSubTelemetryByte).
THEOREM NoRemainderIsJudged == LinkSpec => []JudgedAsArrived
<1>1. LinkInv => JudgedAsArrived BY DEF LinkInv
<1>2. QED BY LinkSpecInv, <1>1, PTL

\* However many bytes are lost, altered or added and boards reset, all packets that fit
\* MAIN's buffer but two for each of these are forwarded as they were sent.
THEOREM AFaultCostsTwo == LinkSpec => []FaultsCostTwo
<1>1. LinkInv => FaultsCostTwo BY Budget DEF FaultsCostTwo
<1>2. QED BY LinkSpecInv, <1>1, PTL

\* On an undisturbed line the counters of SUB and MAIN explain every gap in SUB's numbers.
THEOREM GapsAreAccounted == LinkSpec => []NumbersAccounted
<1>1. LinkInv => NumbersAccounted BY DEF LinkInv
<1>2. QED BY LinkSpecInv, <1>1, PTL
=============================================================================
