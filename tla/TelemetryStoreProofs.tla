------------------------ MODULE TelemetryStoreProofs ------------------------
(***************************************************************************)
(* Machine-checked theorems about the console's store, for every set of    *)
(* packets that satisfies SizesAssumption and every limit.                 *)
(***************************************************************************)
EXTENDS TelemetryStore, SequenceTheorems, FiniteSetTheorems, TLAPS

Kept == IF Len(epoch) <= KeysKept THEN Len(epoch) ELSE KeysKept

Keys == {Key(p) : p \in Packets}

\* What the store remembers of the epoch: its stream, its last number, the keys of its last packets.
EpochType == epoch \in Seq(Packets) /\ recentPacketKeys \in Seq(Keys)

Remembered ==
    /\ epoch = <<>> => activeStreamId = NULL /\ last = NULL
    /\ epoch # <<>> => last = epoch[Len(epoch)].g
    /\ epoch # <<>> => activeStreamId # NULL
    /\ \A i \in 1..Len(epoch) : epoch[i].stream = activeStreamId
    /\ Len(recentPacketKeys) = Kept
    /\ \A i \in 1..Kept : recentPacketKeys[i] = Key(epoch[Len(epoch) - Kept + i])

Climbing == \A i, j \in 1..Len(epoch) : i < j => epoch[i].g <= epoch[j].g
Distinct == \A i, j \in 1..Len(epoch) : i < j => epoch[i] # epoch[j]

EpochInv == EpochType /\ Remembered /\ Climbing /\ Distinct

-----------------------------------------------------------------------------
LEMMA PacketFields ==
  ASSUME NEW p \in Packets
  PROVE  /\ p.g \in Nat /\ p.g # NULL /\ p.stream # NULL
         /\ Key(p) \in Keys
<1>1. p \in [stream: Streams, source: Sources, ssn: SourceNumbers, g: 1..MaxNumber]
  BY SizesAssumption
<1>2. p.stream \in Streams /\ p.g \in 1..MaxNumber BY <1>1
<1>3. p.g \in Nat BY <1>2
<1>4. QED BY <1>2, <1>3, NullAssumption DEF Keys

(* Packets of one stream with the same key are the same packet. *)
LEMMA KeyIdentifies ==
  ASSUME NEW p \in Packets, NEW q \in Packets, p.stream = q.stream, Key(p) = Key(q)
  PROVE  p = q
<1>1. /\ p \in [stream: Streams, source: Sources, ssn: SourceNumbers, g: 1..MaxNumber]
      /\ q \in [stream: Streams, source: Sources, ssn: SourceNumbers, g: 1..MaxNumber]
  BY SizesAssumption
<1>2. p.source = q.source /\ p.ssn = q.ssn /\ p.g = q.g BY DEF Key
<1>3. QED BY <1>1, <1>2

(* The pigeonhole: packets of the epoch's end that share the last number fit in the list. *)
LEMMA FewShareANumber ==
  ASSUME EpochInv, NEW i \in 1..Len(epoch), epoch[i].g = last
  PROVE  Len(epoch) - i < KeysKept
<1> DEFINE n == Len(epoch)
           p == epoch[i]
           Same == {q \in Packets : q.stream = p.stream /\ q.g = p.g}
<1> SUFFICES ASSUME Len(epoch) - i >= KeysKept PROVE FALSE
  BY SizesAssumption, LenProperties DEF EpochInv, EpochType
<1>1. /\ n \in Nat /\ i \in Nat /\ KeysKept \in Nat \ {0} /\ epoch # <<>> /\ n - i >= KeysKept
      /\ n \in 1..Len(epoch)
  BY SizesAssumption, LenProperties, EmptySeq DEF EpochInv, EpochType
<1>2. \A k \in 1..n : epoch[k] \in Packets BY ElementOfSeq DEF EpochInv, EpochType
<1>3. \A k \in i..n : epoch[k] \in Same
  <2> TAKE k \in i..n
  <2>1. k \in 1..n /\ epoch[k] \in Packets BY <1>1, <1>2
  <2>2. epoch[k].stream = p.stream BY <2>1, <1>1 DEF EpochInv, Remembered
  <2>3. epoch[n].g = p.g BY <1>1 DEF EpochInv, Remembered
  <2>4. p.g <= epoch[k].g /\ epoch[k].g <= epoch[n].g
    <3>1. p.g \in Nat /\ epoch[k].g \in Nat BY <1>2, <2>1, PacketFields
    <3>2. i = k \/ p.g <= epoch[k].g BY <1>1, <2>1 DEF EpochInv, Climbing
    <3>3. k = n \/ epoch[k].g <= epoch[n].g BY <1>1, <2>1 DEF EpochInv, Climbing
    <3>4. QED BY <3>1, <3>2, <3>3
  <2>5. p.g \in Nat /\ epoch[k].g \in Nat BY <1>2, <2>1, PacketFields
  <2>6. epoch[k].g = p.g BY <2>3, <2>4, <2>5
  <2>7. QED BY <2>1, <2>2, <2>6
<1>4. IsFiniteSet(Same) /\ Cardinality(Same) <= KeysKept
  BY <1>2, SizesAssumption
<1> DEFINE f == [k \in i..n |-> epoch[k]]
<1>5. f \in [i..n -> Same] BY <1>3
<1>6. IsFiniteSet(i..n) /\ Cardinality(i..n) = n - i + 1
  BY <1>1, FS_Interval
<1>7. Cardinality(Same) \in Nat BY <1>4, FS_CardinalityType
<1>8. Cardinality(Same) < Cardinality(i..n) BY <1>1, <1>4, <1>6, <1>7
<1> HIDE DEF Same
<1>9. \E x, y \in i..n : x # y /\ f[x] = f[y]
  <2> HIDE DEF f
  <2>1. QED BY <1>4, <1>5, <1>6, <1>8, FS_PigeonHole
<1>10. PICK x \in i..n, y \in i..n : x # y /\ epoch[x] = epoch[y] BY <1>9
<1>11. x \in 1..n /\ y \in 1..n /\ (x < y \/ y < x) BY <1>1, <1>10
<1>12. QED BY <1>10, <1>11 DEF EpochInv, Distinct

(* A packet that goes on an epoch is none of it. *)
LEMMA NewPacket ==
  ASSUME EpochInv, NEW p \in Packets, ~IsDuplicate(p), ~IsOutOfOrder(p), ~StartsEpoch(p)
  PROVE  \A i \in 1..Len(epoch) : epoch[i].g <= p.g /\ epoch[i] # p
<1>1. /\ epoch # <<>> /\ last = epoch[Len(epoch)].g /\ activeStreamId = p.stream
      /\ Len(epoch) \in Nat \ {0}
  BY EmptySeq DEF EpochInv, EpochType, Remembered, StartsEpoch, IsSwitch
<1>2. p.g \in Nat /\ p.g # NULL BY PacketFields
<1>3. \A i \in 1..Len(epoch) : epoch[i] \in Packets /\ epoch[i].g \in Nat
  BY ElementOfSeq, PacketFields DEF EpochInv, EpochType
<1>4. last \in Nat BY <1>1, <1>3
<1>5. last <= p.g BY <1>1, <1>2, <1>4 DEF IsOutOfOrder, StartsEpoch
<1>6. TAKE i \in 1..Len(epoch)
<1>7. epoch[i].g <= last
  <2>1. i = Len(epoch) \/ i < Len(epoch) BY <1>1
  <2>2. QED BY <2>1, <1>1, <1>3 DEF EpochInv, Climbing
<1>8. epoch[i].g <= p.g BY <1>3, <1>4, <1>5, <1>7, <1>2
<1>9. ASSUME epoch[i] = p PROVE FALSE
  <2>1. epoch[i].g = last BY <1>2, <1>4, <1>5, <1>7, <1>9
  <2>2. Len(epoch) - i < KeysKept BY <2>1, FewShareANumber
  <2> DEFINE k == i - (Len(epoch) - Kept)
  <2>3. k \in 1..Kept /\ Len(epoch) - Kept + k = i
    <3> DEFINE n == Len(epoch)
    <3>1. KeysKept \in Nat /\ n \in Nat /\ i \in 1..n /\ n - i < KeysKept BY SizesAssumption, <1>1, <2>2
    <3>2. Kept = IF n <= KeysKept THEN n ELSE KeysKept BY DEF Kept
    <3> HIDE DEF n
    <3>3. i - (n - Kept) \in 1..Kept /\ n - Kept + (i - (n - Kept)) = i
      <4>1. CASE n <= KeysKept BY <3>1, <3>2, <4>1
      <4>2. CASE ~(n <= KeysKept) BY <3>1, <3>2, <4>2
      <4>3. QED BY <4>1, <4>2
    <3>4. QED BY <3>3 DEF n
  <2>4. recentPacketKeys[k] = Key(p) BY <2>3, <1>9 DEF EpochInv, Remembered
  <2>5. k \in DOMAIN recentPacketKeys
    BY <2>3, LenProperties DEF EpochInv, EpochType, Remembered
  <2>6. KnownKeys(p) = recentPacketKeys BY DEF KnownKeys, StartsEpoch
  <2>7. QED BY <2>4, <2>5, <2>6 DEF IsDuplicate
<1>10. QED BY <1>8, <1>9

-----------------------------------------------------------------------------
(* One step of the invariant. *)
LEMMA EpochInit == Init => EpochInv
<1> SUFFICES ASSUME Init PROVE EpochInv OBVIOUS
<1>1. epoch = <<>> /\ recentPacketKeys = <<>> /\ activeStreamId = NULL /\ last = NULL BY DEF Init
<1>2. <<>> \in Seq(Packets) /\ <<>> \in Seq(Keys) /\ Len(<<>>) = 0 BY EmptySeq
<1>3. Kept = 0 BY <1>1, <1>2, SizesAssumption DEF Kept
<1>4. EpochType BY <1>1, <1>2 DEF EpochType
<1>5. Remembered BY <1>1, <1>2, <1>3 DEF Remembered
<1>6. Climbing /\ Distinct BY <1>1, <1>2 DEF Climbing, Distinct
<1>7. QED BY <1>4, <1>5, <1>6 DEF EpochInv

(* An accepted packet is the first of an epoch ... *)
LEMMA FirstOfEpoch ==
  ASSUME EpochInv, NEW p \in Packets, Accept(p), StartsEpoch(p)
  PROVE  EpochInv'
<1> USE PacketFields
<1>1. /\ epoch' = <<p>> /\ activeStreamId' = p.stream /\ last' = p.g
  BY DEF Accept
<1>2. recentPacketKeys' = <<Key(p)>>
  <2>1. RememberKey(p) BY DEF Accept
  <2>2. CASE IsReset(p) \/ IsSwitch(p) BY <2>1, <2>2 DEF RememberKey
  <2>3. CASE ~(IsReset(p) \/ IsSwitch(p))
    <3>1. last = NULL BY <2>3 DEF StartsEpoch
    <3>2. epoch = <<>>
      <4> SUFFICES ASSUME epoch # <<>> PROVE FALSE OBVIOUS
      <4>1. Len(epoch) \in 1..Len(epoch) BY EmptySeq DEF EpochInv, EpochType
      <4>2. epoch[Len(epoch)] \in Packets BY <4>1, ElementOfSeq DEF EpochInv, EpochType
      <4>3. QED BY <3>1, <4>2 DEF EpochInv, Remembered
    <3>3. Kept = 0 BY <3>2, EmptySeq, SizesAssumption DEF Kept
    <3>4. recentPacketKeys = <<>> BY <3>3, EmptySeq DEF EpochInv, EpochType, Remembered
    <3>5. KnownKeys(p) = <<>> BY <2>3, <3>4 DEF KnownKeys
    <3>6. Append(<<>>, Key(p)) = <<Key(p)>> /\ <<Key(p)>> \in Seq(Keys) /\ Len(<<Key(p)>>) = 1
      OBVIOUS
    <3>7. KeysKept \in Nat \ {0} BY SizesAssumption
    <3>8. SubSeq(<<Key(p)>>, 1, 1) = <<Key(p)>> BY <3>6, SubSeqFull
    <3>9. QED BY <2>1, <2>3, <3>5, <3>6, <3>7, <3>8 DEF RememberKey
  <2>4. QED BY <2>2, <2>3
<1>3. /\ <<p>> \in Seq(Packets) /\ Len(<<p>>) = 1 /\ <<p>>[1] = p /\ <<p>> # <<>>
      /\ <<Key(p)>> \in Seq(Keys) /\ Len(<<Key(p)>>) = 1 /\ <<Key(p)>>[1] = Key(p)
  OBVIOUS
<1>4. Kept' = 1
  <2>1. KeysKept \in Nat \ {0} BY SizesAssumption
  <2>2. QED BY <1>1, <1>3, <2>1 DEF Kept
<1>5. EpochType' BY <1>1, <1>2, <1>3 DEF EpochType
<1>6. Remembered' BY <1>1, <1>2, <1>3, <1>4 DEF Remembered
<1>7. (Climbing /\ Distinct)' BY <1>1, <1>3 DEF Climbing, Distinct
<1>8. QED BY <1>5, <1>6, <1>7 DEF EpochInv

(* ... or goes on it. *)
LEMMA NextOfEpoch ==
  ASSUME EpochInv, NEW p \in Packets, Accept(p), ~StartsEpoch(p)
  PROVE  EpochInv'
<1> DEFINE n == Len(epoch)
           all == Append(recentPacketKeys, Key(p))
<1>1. /\ epoch' = Append(epoch, p) /\ activeStreamId' = p.stream /\ last' = p.g
      /\ RememberKey(p) /\ ~IsDuplicate(p) /\ ~IsOutOfOrder(p)
  BY DEF Accept
<1>2. /\ n \in Nat /\ KeysKept \in Nat \ {0} /\ Kept \in Nat /\ Kept <= n
      /\ Len(recentPacketKeys) = Kept
  <2>1. n \in Nat /\ KeysKept \in Nat \ {0}
    BY SizesAssumption, LenProperties DEF EpochInv, EpochType
  <2>2. QED BY <2>1 DEF Kept, EpochInv, Remembered
<1>3. /\ Append(epoch, p) \in Seq(Packets) /\ Len(Append(epoch, p)) = n + 1
      /\ \A i \in 1..n : Append(epoch, p)[i] = epoch[i]
      /\ Append(epoch, p)[n + 1] = p
  BY AppendProperties DEF EpochInv, EpochType
<1>4. /\ all \in Seq(Keys) /\ Len(all) = Kept + 1
      /\ \A i \in 1..Kept : all[i] = recentPacketKeys[i]
      /\ all[Kept + 1] = Key(p)
  BY <1>2, AppendProperties, PacketFields DEF EpochInv, EpochType
<1>5. activeStreamId = p.stream
  BY DEF StartsEpoch, IsSwitch, EpochInv, Remembered
<1> DEFINE first == IF Len(all) > KeysKept THEN Len(all) - KeysKept + 1 ELSE 1
<1>6. recentPacketKeys' = SubSeq(all, first, Len(all))
  <2>1. ~IsSwitch(p) /\ ~IsReset(p) BY DEF StartsEpoch
  <2>2. KnownKeys(p) = recentPacketKeys BY <2>1 DEF KnownKeys
  <2>3. recentPacketKeys' =
           SubSeq(all, IF Len(all) > KeysKept THEN Len(all) - KeysKept + 1 ELSE 1, Len(all))
    BY <1>1, <2>1, <2>2 DEF RememberKey
  <2>4. QED BY <2>3
<1>7. Kept' = IF n + 1 <= KeysKept THEN n + 1 ELSE KeysKept
  BY <1>1, <1>3 DEF Kept
<1>8. first \in 1..(Kept + 1) /\ (Kept + 1) - first + 1 = Kept' /\ Kept' \in Nat \ {0}
      /\ first - 1 + n - Kept = n + 1 - Kept'
  <2>1. Kept = IF n <= KeysKept THEN n ELSE KeysKept BY DEF Kept
  <2> DEFINE k == Kept
             kk == Kept'
  <2>2. kk = IF n + 1 <= KeysKept THEN n + 1 ELSE KeysKept BY <1>7
  <2>3. n \in Nat /\ KeysKept \in Nat \ {0} /\ Len(all) = k + 1 BY <1>2, <1>4
  <2> HIDE DEF n, k, kk, all
  <2>4. CASE n + 1 <= KeysKept BY <2>1, <2>2, <2>3, <2>4 DEF k, kk
  <2>5. CASE ~(n + 1 <= KeysKept) BY <2>1, <2>2, <2>3, <2>5 DEF k, kk
  <2>6. QED BY <2>4, <2>5
<1>9. \A i \in 1..(Kept + 1) : all[i] = Key(Append(epoch, p)[n - Kept + i])
  <2> TAKE i \in 1..(Kept + 1)
  <2>1. CASE i \in 1..Kept
    <3>1. n - Kept + i \in 1..n BY <1>2, <2>1
    <3>2. all[i] = Key(epoch[n - Kept + i]) BY <1>4, <2>1 DEF EpochInv, Remembered
    <3>3. QED BY <1>3, <3>1, <3>2
  <2>2. CASE i = Kept + 1
    <3>1. n - Kept + i = n + 1 BY <1>2, <2>2
    <3>2. QED BY <1>3, <1>4, <2>2, <3>1
  <2>3. QED BY <1>2, <2>1, <2>2
<1> HIDE DEF all, first
<1>10. /\ recentPacketKeys' \in Seq(Keys) /\ Len(recentPacketKeys') = Kept'
       /\ \A i \in 1..Kept' : recentPacketKeys'[i] = all[first + i - 1]
  <2>1. \A i \in first..(Kept + 1) : all[i] \in Keys BY <1>2, <1>4, <1>8, ElementOfSeq
  <2>2. first \in Int /\ Len(all) = Kept + 1 /\ Kept + 1 \in Int /\ first <= Kept + 1 BY <1>2, <1>4, <1>8
  <2>3. QED BY <1>6, <1>8, <2>1, <2>2, SubSeqProperties
<1>11. \A i \in 1..Kept' : recentPacketKeys'[i] = Key(Append(epoch, p)[n + 1 - Kept' + i])
  <2> TAKE i \in 1..Kept'
  <2>1. first + i - 1 \in 1..(Kept + 1) /\ n - Kept + (first + i - 1) = n + 1 - Kept' + i
    BY <1>2, <1>8
  <2>2. QED BY <1>9, <1>10, <2>1
<1>12. EpochType' BY <1>1, <1>3, <1>10 DEF EpochType
<1>13. Remembered'
  <2>1. epoch' # <<>> BY <1>1, <1>2, <1>3, EmptySeq
  <2>2. \A i \in 1..(n + 1) : Append(epoch, p)[i].stream = p.stream
    <3> TAKE i \in 1..(n + 1)
    <3>1. i \in 1..n \/ i = n + 1 BY <1>2
    <3>2. QED BY <1>3, <1>5, <3>1 DEF EpochInv, Remembered
  <2>3. activeStreamId' # NULL BY <1>1, PacketFields
  <2>4. Len(epoch') = n + 1 BY <1>1, <1>3
  <2>5. last' = epoch'[Len(epoch')].g BY <1>1, <1>3, <2>4
  <2>6. \A i \in 1..Len(epoch') : epoch'[i].stream = activeStreamId' BY <1>1, <2>2, <2>4
  <2>7. \A i \in 1..Kept' : recentPacketKeys'[i] = Key(epoch'[Len(epoch') - Kept' + i])
    <3> TAKE i \in 1..Kept'
    <3> HIDE DEF n
    <3>1. Append(epoch, p) = epoch' BY <1>1
    <3>2. recentPacketKeys'[i] = Key(Append(epoch, p)[n + 1 - Kept' + i]) BY <1>11
    <3>3. recentPacketKeys'[i] = Key(epoch'[n + 1 - Kept' + i]) BY <3>1, <3>2, Zenon
    <3>4. Len(epoch') - Kept' + i = n + 1 - Kept' + i BY <1>2, <1>8, <2>4
    <3>5. QED BY <3>3, <3>4, Zenon
  <2>8. Len(recentPacketKeys') = Kept' BY <1>10
  <2>9. QED BY <2>1, <2>3, <2>5, <2>6, <2>7, <2>8 DEF Remembered
<1>14. \A i \in 1..n : epoch[i].g <= p.g /\ epoch[i] # p BY <1>1, NewPacket
<1>15. (Climbing /\ Distinct)'
  <2> SUFFICES ASSUME NEW i \in 1..(n + 1), NEW j \in 1..(n + 1), i < j
               PROVE  epoch'[i].g <= epoch'[j].g /\ epoch'[i] # epoch'[j]
    BY <1>1, <1>3 DEF Climbing, Distinct
  <2>1. i \in 1..n /\ epoch'[i] = epoch[i] BY <1>1, <1>2, <1>3
  <2>2. CASE j = n + 1 BY <1>1, <1>3, <1>14, <2>1, <2>2
  <2>3. CASE j \in 1..n
    <3>1. epoch'[j] = epoch[j] BY <1>1, <1>3, <2>3
    <3>2. QED BY <2>1, <2>3, <3>1 DEF EpochInv, Climbing, Distinct
  <2>4. QED BY <1>2, <2>2, <2>3
<1>16. QED BY <1>12, <1>13, <1>15 DEF EpochInv

LEMMA EpochStep == EpochInv /\ [Next]_vars => EpochInv'
<1> SUFFICES ASSUME EpochInv, [Next]_vars PROVE EpochInv' OBVIOUS
<1>1. CASE UNCHANGED <<stream, epoch>>
  BY <1>1 DEF stream, EpochInv, EpochType, Remembered, Climbing, Distinct, Kept
<1>2. ASSUME NEW p \in Packets, Accept(p) PROVE EpochInv' BY <1>2, FirstOfEpoch, NextOfEpoch
<1>3. ASSUME NEW p \in Packets, Duplicate(p) \/ OutOfOrder(p) PROVE EpochInv'
  BY <1>1, <1>3 DEF Duplicate, OutOfOrder, history
<1>4. CASE Connect \/ Opened \/ Lost \/ Unmount
  BY <1>1, <1>4 DEF Connect, Opened, Lost, Unmount, ResetStream, history
<1>5. CASE StartSoak \/ ResetSoak \/ TargetTimePasses \/ Silence \/ AgeRegistry \/ Reject
  BY <1>1, <1>5 DEF StartSoak, ResetSoak, TargetTimePasses, Silence, AgeRegistry, Reject, history
<1>6. CASE UNCHANGED vars BY <1>1, <1>6 DEF vars, history
<1>7. QED BY <1>2, <1>3, <1>4, <1>5, <1>6 DEF Next

\* Whatever is repeated, delayed or forgotten, and however often the connection is lost: within
\* an epoch no packet updates the live state twice, and none after a later one (ingestPacket).
THEOREM NoPacketTwice == Spec => []TakenOnceInOrder
<1>1. EpochInv => TakenOnceInOrder
  <2> SUFFICES ASSUME EpochInv PROVE TakenOnceInOrder OBVIOUS
  <2>1. DOMAIN epoch = 1..Len(epoch) BY LenProperties DEF EpochInv, EpochType
  <2>2. QED BY <2>1 DEF EpochInv, Climbing, Distinct, TakenOnceInOrder
<1>2. QED BY <1>1, EpochInit, EpochStep, PTL DEF Spec

-----------------------------------------------------------------------------
(*                       what the console shows                            *)

Counters == [packets: Nat, duplicates: Nat, outOfOrder: Nat, gaps: Nat, resets: Nat, switches: Nat,
             rejected: Nat]
CountType == counts \in Counters
SoakType == soak \in [target: BOOLEAN, reached: BOOLEAN, verdict: {"IN_PROGRESS", "FAIL", "WARNING", "PASS"}]

\* A receipt time belongs to the connection and stands for a packet accepted on it.
Refused == counts.duplicates + counts.outOfOrder
LiveInv ==
    /\ Refused <= counts.packets
    /\ receipt # NULL => connectionState = "CONNECTED" /\ Refused < counts.packets
    /\ ~stale => receipt # NULL

ShownInv == CountType /\ SoakType /\ LiveInv /\ PassSeesNoLoss

LEMMA ZeroFields ==
  ASSUME ResetCounts, CountType
  PROVE  /\ CountType'
         /\ counts'.packets = 0 /\ counts'.duplicates = 0 /\ counts'.outOfOrder = 0
         /\ counts'.gaps = 0 /\ counts'.rejected = 0
         /\ counts'.resets = counts.resets /\ counts'.switches = counts.switches
<1> DEFINE Same(r) == /\ r \in Counters /\ r.packets = 0 /\ r.duplicates = 0 /\ r.outOfOrder = 0
                      /\ r.gaps = 0 /\ r.rejected = 0
<1>1. Same(Zero) BY DEF Zero, Counters
<1>2. counts.resets \in Nat /\ counts.switches \in Nat BY DEF CountType, Counters
<1> DEFINE once == [Zero EXCEPT !.resets = counts.resets]
<1>3. counts' = [once EXCEPT !.switches = counts.switches] BY DEF ResetCounts
<1>4. Same(once) /\ once.resets = counts.resets BY <1>1, <1>2 DEF Counters
<1> HIDE DEF once
<1>5. /\ Same(counts') /\ counts'.resets = counts.resets /\ counts'.switches = counts.switches
  BY <1>2, <1>3, <1>4 DEF Counters
<1>6. QED BY <1>5 DEF CountType

LEMMA GapType ==
  ASSUME NEW p \in Packets, last \in Nat \cup {NULL}
  PROVE  Gap(p) \in Nat
<1>1. p.g \in Nat BY PacketFields
<1>2. CASE StartsEpoch(p) \/ p.g <= last + 1 BY <1>2 DEF Gap
<1>3. CASE ~(StartsEpoch(p) \/ p.g <= last + 1)
  <2>1. last \in Nat BY <1>3 DEF StartsEpoch
  <2>2. QED BY <1>1, <1>3, <2>1 DEF Gap
<1>4. QED BY <1>2, <1>3

LEMMA LastType == EpochInv => last \in Nat \cup {NULL}
<1> SUFFICES ASSUME EpochInv, epoch # <<>> PROVE last \in Nat
  BY DEF EpochInv, Remembered
<1>1. Len(epoch) \in 1..Len(epoch) BY EmptySeq DEF EpochInv, EpochType
<1>2. epoch[Len(epoch)] \in Packets BY <1>1, ElementOfSeq DEF EpochInv, EpochType
<1>3. QED BY <1>2, PacketFields DEF EpochInv, Remembered

(* How a message changes the counters. *)
LEMMA ObservedCounts ==
  ASSUME CountType
  PROVE  /\ Observed \in Counters /\ Observed.packets = counts.packets + 1
         /\ Observed.duplicates = counts.duplicates /\ Observed.outOfOrder = counts.outOfOrder
         /\ Observed.gaps = counts.gaps /\ Observed.rejected = counts.rejected
         /\ Observed.resets = counts.resets /\ Observed.switches = counts.switches
  BY DEF Observed, CountType, Counters

LEMMA RefusedCounts ==
  ASSUME CountType, NEW p \in Packets, Duplicate(p) \/ OutOfOrder(p)
  PROVE  /\ CountType'
         /\ counts'.packets = counts.packets + 1
         /\ Refused' = Refused + 1
         /\ counts'.gaps = counts.gaps /\ counts'.rejected = counts.rejected
         /\ counts'.resets = counts.resets /\ counts'.switches = counts.switches
         /\ Duplicate(p) => counts'.duplicates = counts.duplicates + 1 /\ counts'.outOfOrder = counts.outOfOrder
         /\ OutOfOrder(p) => counts'.duplicates = counts.duplicates /\ counts'.outOfOrder = counts.outOfOrder + 1
<1>0. /\ Observed \in Counters /\ Observed.packets = counts.packets + 1
      /\ Observed.duplicates = counts.duplicates /\ Observed.outOfOrder = counts.outOfOrder
      /\ Observed.gaps = counts.gaps /\ Observed.rejected = counts.rejected
      /\ Observed.resets = counts.resets /\ Observed.switches = counts.switches
  BY ObservedCounts
<1>1. CASE Duplicate(p)
  <2>1. counts' = [Observed EXCEPT !.duplicates = @ + 1] /\ ~OutOfOrder(p) BY <1>1 DEF Duplicate, OutOfOrder
  <2>2. QED BY <1>0, <2>1 DEF CountType, Counters, Refused
<1>2. CASE OutOfOrder(p)
  <2>1. counts' = [Observed EXCEPT !.outOfOrder = @ + 1] /\ ~Duplicate(p) BY <1>2 DEF Duplicate, OutOfOrder
  <2>2. QED BY <1>0, <2>1 DEF CountType, Counters, Refused
<1>3. QED BY <1>1, <1>2

LEMMA AcceptedCounts ==
  ASSUME CountType, EpochInv, NEW p \in Packets, Accept(p)
  PROVE  /\ CountType' /\ counts'.packets = counts.packets + 1 /\ Refused' = Refused
         /\ counts'.gaps = counts.gaps + Gap(p) /\ counts'.rejected = counts.rejected
         /\ counts'.duplicates = counts.duplicates /\ counts'.outOfOrder = counts.outOfOrder
         /\ counts'.resets = counts.resets + One(IsReset(p) \/ IsSourceReset(p))
         /\ counts'.switches = counts.switches + One(IsSwitch(p))
<1>1. Gap(p) \in Nat BY GapType, LastType
<1>2. \A b \in BOOLEAN : One(b) \in Nat BY DEF One
<1>3. /\ IsReset(p) \/ IsSourceReset(p) \in BOOLEAN
      /\ IsSwitch(p) \in BOOLEAN
  BY DEF IsReset, IsSourceReset, IsSwitch
<1>4. One(IsReset(p) \/ IsSourceReset(p)) \in Nat /\ One(IsSwitch(p)) \in Nat
  BY DEF One
<1>5. CountAccepted(p) BY DEF Accept
<1> DEFINE a == Gap(p)
           b == One(IsReset(p) \/ IsSourceReset(p))
           c == One(IsSwitch(p))
<1>6. a \in Nat /\ b \in Nat /\ c \in Nat BY <1>1, <1>4
<1> HIDE DEF a, b, c
<1> DEFINE Same(r) == /\ r \in Counters /\ r.packets = counts.packets + 1
                      /\ r.duplicates = counts.duplicates /\ r.outOfOrder = counts.outOfOrder
                      /\ r.rejected = counts.rejected
           once == [Observed EXCEPT !.gaps = @ + a]
           twice == [once EXCEPT !.resets = @ + b]
<1>7. counts' = [twice EXCEPT !.switches = @ + c] BY <1>5 DEF CountAccepted, a, b, c
<1>8. Same(Observed) BY ObservedCounts
<1>9. Same(once) /\ once.gaps = counts.gaps + a /\ once.resets = counts.resets /\ once.switches = counts.switches
  BY <1>6, <1>8, ObservedCounts DEF Counters
<1> HIDE DEF once
<1>10. Same(twice) /\ twice.gaps = counts.gaps + a /\ twice.resets = counts.resets + b /\ twice.switches = counts.switches
  BY <1>6, <1>9 DEF Counters
<1> HIDE DEF twice
<1>11. Same(counts') /\ counts'.gaps = counts.gaps + a /\ counts'.resets = counts.resets + b
       /\ counts'.switches = counts.switches + c
  BY <1>6, <1>7, <1>10 DEF Counters
<1>12. QED BY <1>11 DEF CountType, Refused, a, b, c

LEMMA RejectedCounts ==
  ASSUME CountType, Reject
  PROVE  /\ CountType' /\ counts'.packets = counts.packets /\ Refused' = Refused
         /\ counts'.gaps = counts.gaps /\ counts'.rejected = counts.rejected + 1
         /\ counts'.duplicates = counts.duplicates /\ counts'.outOfOrder = counts.outOfOrder
         /\ counts'.resets = counts.resets /\ counts'.switches = counts.switches
  BY DEF Reject, CountType, Counters, Refused

(* A verdict is drawn from the counters after the step. *)
LEMMA JudgeMeans ==
  ASSUME CountType', NEW s, Judge(s),
         s \in [target: BOOLEAN, reached: BOOLEAN, verdict: {"IN_PROGRESS", "FAIL", "WARNING", "PASS"}]
  PROVE  SoakType' /\ PassSeesNoLoss'
<1>1. PICK w \in BOOLEAN : soak' = [s EXCEPT !.verdict = Verdict(s, w, counts', dropped')]
  BY DEF Judge
<1> DEFINE v == Verdict(s, w, counts', dropped')
<1>2. v \in {"IN_PROGRESS", "FAIL", "WARNING", "PASS"} BY DEF Verdict
<1>3. counts'.gaps \in Nat /\ counts'.rejected \in Nat BY DEF CountType, Counters
<1>4. v = "PASS" => ~(counts'.gaps > 0) /\ ~(counts'.rejected > 0) BY DEF Verdict
<1> HIDE DEF v
<1>5. SoakType' /\ soak'.verdict = v BY <1>1, <1>2 DEF SoakType, v
<1>6. QED BY <1>3, <1>4, <1>5 DEF PassSeesNoLoss

LEMMA ShownInit == Init => ShownInv
<1> SUFFICES ASSUME Init PROVE ShownInv OBVIOUS
<1>1. CountType /\ counts.packets = 0 /\ Refused = 0
  BY DEF Init, Zero, CountType, Counters, Refused
<1>2. SoakType /\ PassSeesNoLoss BY DEF Init, SoakType, PassSeesNoLoss
<1>3. LiveInv BY <1>1 DEF Init, LiveInv
<1>4. QED BY <1>1, <1>2, <1>3 DEF ShownInv

LEMMA ShownStep == EpochInv /\ ShownInv /\ [Next]_vars => ShownInv'
<1> SUFFICES ASSUME EpochInv, ShownInv, [Next]_vars PROVE ShownInv' OBVIOUS
<1>0. /\ CountType /\ SoakType /\ LiveInv /\ PassSeesNoLoss
      /\ counts.packets \in Nat /\ counts.duplicates \in Nat /\ counts.outOfOrder \in Nat
      /\ Refused \in Nat
  BY DEF ShownInv, CountType, Counters, Refused
<1>1. CASE Connect \/ Lost \/ Unmount
  <2>1. /\ counts' = counts /\ soak' = soak
        /\ receipt' = NULL /\ stale' = TRUE
    BY <1>1, Zenon DEF Connect, Lost, Unmount, SetConnectionState
  <2>2. LiveInv' BY <1>0, <2>1 DEF LiveInv, Refused
  <2>3. QED BY <1>0, <2>1, <2>2 DEF ShownInv, CountType, SoakType, PassSeesNoLoss
<1>2. CASE Opened
  <2>1. soak' = soak /\ receipt' = NULL /\ stale' = TRUE /\ ResetCounts BY <1>2 DEF Opened
  <2>2. CountType' /\ counts'.packets = 0 /\ Refused' = 0 /\ counts'.gaps = 0 /\ counts'.rejected = 0
    BY <1>0, <2>1, ZeroFields DEF Refused
  <2>3. LiveInv' BY <2>1, <2>2 DEF LiveInv
  <2>4. SoakType' /\ PassSeesNoLoss' BY <1>0, <2>1, <2>2 DEF SoakType, PassSeesNoLoss
  <2>5. QED BY <2>2, <2>3, <2>4 DEF ShownInv
<1>3. CASE StartSoak
  <2>1. UNCHANGED <<counts, receipt, stale, connectionState>> BY <1>3 DEF StartSoak, fresh
  <2>2. CountType' /\ LiveInv' BY <1>0, <2>1 DEF CountType, LiveInv, Refused
  <2>3. SoakType' /\ PassSeesNoLoss' BY <1>3, <2>2, JudgeMeans DEF StartSoak
  <2>4. QED BY <2>2, <2>3 DEF ShownInv
<1>4. CASE ResetSoak
  <2>1. UNCHANGED <<counts, receipt, stale, connectionState>> BY <1>4 DEF ResetSoak, fresh
  <2>2. CountType' /\ LiveInv' BY <1>0, <2>1 DEF CountType, LiveInv, Refused
  <2>3. SoakType' /\ PassSeesNoLoss' BY <1>4 DEF ResetSoak, SoakType, PassSeesNoLoss
  <2>4. QED BY <2>2, <2>3 DEF ShownInv
<1>5. CASE TargetTimePasses
  <2>1. UNCHANGED <<counts, receipt, stale, connectionState>> BY <1>5 DEF TargetTimePasses, fresh
  <2>2. CountType' /\ LiveInv' BY <1>0, <2>1 DEF CountType, LiveInv, Refused
  <2>3. SoakType' /\ soak'.verdict = soak.verdict BY <1>0, <1>5 DEF TargetTimePasses, SoakType
  <2>4. PassSeesNoLoss' BY <1>0, <2>1, <2>3 DEF PassSeesNoLoss
  <2>5. QED BY <2>2, <2>3, <2>4 DEF ShownInv
<1>6. CASE Silence
  <2>1. UNCHANGED <<counts, soak, stale, connectionState>> /\ receipt # NULL /\ receipt' # NULL
    BY <1>6, NullAssumption DEF Silence
  <2>2. LiveInv' BY <1>0, <2>1 DEF LiveInv, Refused
  <2>3. QED BY <1>0, <2>1, <2>2 DEF ShownInv, CountType, SoakType, PassSeesNoLoss
<1>7. CASE AgeRegistry
  <2>1. UNCHANGED <<counts, receipt, connectionState>> /\ stale' = (receipt # "recent")
    BY <1>7 DEF AgeRegistry
  <2>2. ~stale' => receipt # NULL BY <2>1, NullAssumption
  <2>3. CountType' /\ LiveInv' BY <1>0, <2>1, <2>2 DEF CountType, LiveInv, Refused
  <2>4. SoakType' /\ PassSeesNoLoss' BY <1>0, <1>7, <2>3, JudgeMeans DEF AgeRegistry, SoakType
  <2>5. QED BY <2>3, <2>4 DEF ShownInv
<1>8. CASE Reject
  <2>1. UNCHANGED <<receipt, stale, connectionState>> /\ Judge(soak) BY <1>8 DEF Reject, fresh
  <2>2. CountType' /\ counts'.packets = counts.packets /\ Refused' = Refused BY <1>0, <1>8, RejectedCounts
  <2>3. LiveInv' BY <1>0, <2>1, <2>2 DEF LiveInv
  <2>4. SoakType' /\ PassSeesNoLoss' BY <1>0, <2>1, <2>2, JudgeMeans DEF SoakType
  <2>5. QED BY <2>2, <2>3, <2>4 DEF ShownInv
<1>9. ASSUME NEW p \in Packets, Duplicate(p) \/ OutOfOrder(p) PROVE ShownInv'
  <2>1. UNCHANGED <<receipt, stale, connectionState, soak>> BY <1>9 DEF Duplicate, OutOfOrder, fresh
  <2>2. LiveInv' BY <1>0, <1>9, <2>1, RefusedCounts DEF LiveInv
  <2>3. CountType' BY <1>0, <1>9, RefusedCounts
  <2>4. SoakType' /\ PassSeesNoLoss' BY <1>0, <1>9, <2>1, RefusedCounts DEF SoakType, PassSeesNoLoss
  <2>5. QED BY <2>2, <2>3, <2>4 DEF ShownInv
<1>10. ASSUME NEW p \in Packets, Accept(p) PROVE ShownInv'
  <2>1. /\ receipt' # NULL /\ connectionState' = connectionState /\ connectionState = "CONNECTED"
        /\ Judge(soak)
    BY <1>10, NullAssumption DEF Accept, Receive, JudgeAccepted
  <2>2. CountType' /\ counts'.packets = counts.packets + 1 /\ Refused' = Refused
    BY <1>0, <1>10, AcceptedCounts
  <2>3. LiveInv' BY <1>0, <2>1, <2>2 DEF LiveInv
  <2>4. SoakType' /\ PassSeesNoLoss' BY <1>0, <2>1, <2>2, JudgeMeans DEF SoakType
  <2>5. QED BY <2>2, <2>3, <2>4 DEF ShownInv
<1>11. CASE UNCHANGED vars
  BY <1>0, <1>11 DEF vars, fresh, ShownInv, CountType, SoakType, LiveInv, PassSeesNoLoss, Refused
<1>12. QED
  BY <1>1, <1>2, <1>3, <1>4, <1>5, <1>6, <1>7, <1>8, <1>9, <1>10, <1>11 DEF Next

LEMMA ShownAlways == Spec => []ShownInv
  BY EpochInit, EpochStep, ShownInit, ShownStep, PTL DEF Spec

\* "Live" is shown only on a connection that is up, for a packet accepted on it, whenever the
\* age timer fires (setTelemetrySourceConnectionState, ageRegistry).
THEOREM LiveIsEarned == Spec => []LiveMeansAccepted
<1>1. ShownInv => LiveMeansAccepted
  BY DEF ShownInv, LiveInv, CountType, Counters, Refused, LiveMeansAccepted
<1>2. QED BY <1>1, ShownAlways, PTL

\* A soak test that shows PASS has seen no gap and no rejection on this connection
\* (deriveSoakVerdict, ingestPacket).
THEOREM PassIsEarned == Spec => []PassSeesNoLoss
<1>1. ShownInv => PassSeesNoLoss BY DEF ShownInv
<1>2. QED BY <1>1, ShownAlways, PTL

-----------------------------------------------------------------------------
(*                     the numbers that were passed over                   *)

\* Those since from that no packet of the epoch has, and how many were counted.
Missed == {n \in (from + 1)..last : \A i \in 1..Len(epoch) : epoch[i].g # n}

GapInv ==
    /\ gapsBefore \in Nat /\ from \in Nat
    /\ epoch # <<>> => from <= last /\ counts.gaps = gapsBefore + Cardinality(Missed)

LEMMA LastOfEpoch ==
  ASSUME EpochInv, epoch # <<>>
  PROVE  /\ Len(epoch) \in 1..Len(epoch) /\ last = epoch[Len(epoch)].g /\ last \in 1..MaxNumber
         /\ \A i \in 1..Len(epoch) : epoch[i] \in Packets /\ epoch[i].g \in Nat /\ epoch[i].g <= last
<1>1. Len(epoch) \in 1..Len(epoch) /\ last = epoch[Len(epoch)].g /\ Len(epoch) \in Nat
  BY EmptySeq, LenProperties DEF EpochInv, EpochType, Remembered
<1>2. \A i \in 1..Len(epoch) : epoch[i] \in Packets BY ElementOfSeq DEF EpochInv, EpochType
<1>3. \A i \in 1..Len(epoch) : epoch[i].g \in 1..MaxNumber BY <1>2, SizesAssumption
<1>4. last \in 1..MaxNumber /\ MaxNumber \in Nat BY <1>1, <1>3, SizesAssumption
<1>5. \A i \in 1..Len(epoch) : epoch[i].g <= last
  <2> TAKE i \in 1..Len(epoch)
  <2>1. i = Len(epoch) \/ i < Len(epoch) BY <1>1
  <2>2. QED BY <1>1, <1>3, <1>4, <2>1 DEF EpochInv, Climbing
<1>6. \A i \in 1..Len(epoch) : epoch[i].g \in Nat BY <1>3
<1>7. QED BY <1>1, <1>2, <1>4, <1>5, <1>6, Zenon

(* A packet that goes on the epoch leaves out the numbers between the last one and its own. *)
LEMMA MissedMore ==
  ASSUME EpochInv, GapInv, NEW p \in Packets, Accept(p), ~StartsEpoch(p)
  PROVE  Cardinality(Missed') = Cardinality(Missed) + Gap(p) /\ from' = from /\ from <= p.g /\ epoch # <<>>
<1>1. /\ last' = p.g /\ from' = from /\ epoch' = Append(epoch, p) /\ ~IsOutOfOrder(p)
  BY DEF Accept
<1>2. epoch # <<>> /\ last # NULL BY DEF StartsEpoch, EpochInv, Remembered
<1>3. /\ last \in Nat /\ p.g \in Nat /\ from \in Nat /\ from <= last
      /\ \A i \in 1..Len(epoch) : epoch[i].g \in Nat /\ epoch[i].g <= last
      /\ last = epoch[Len(epoch)].g /\ Len(epoch) \in 1..Len(epoch)
  BY <1>2, LastOfEpoch, PacketFields DEF GapInv
<1>4. last <= p.g BY <1>1, <1>2, <1>3 DEF IsOutOfOrder, StartsEpoch
<1>5. /\ Len(Append(epoch, p)) = Len(epoch) + 1 /\ Len(epoch) \in Nat
      /\ \A i \in 1..Len(epoch) : Append(epoch, p)[i] = epoch[i]
      /\ Append(epoch, p)[Len(epoch) + 1] = p
  BY AppendProperties, LenProperties DEF EpochInv, EpochType
<1> DEFINE between == (last + 1)..(p.g - 1)
<1>6. Missed' = Missed \cup between
  <2>1. ASSUME NEW n \in Nat
        PROVE  (\A i \in 1..Len(epoch') : epoch'[i].g # n) <=> n # p.g /\ \A i \in 1..Len(epoch) : epoch[i].g # n
    BY <1>1, <1>5
  <2>2. \A n \in between : \A i \in 1..Len(epoch) : epoch[i].g # n BY <1>3
  <2>3. \A n \in Missed' : n \in Nat BY <1>1, <1>3 DEF Missed
  <2>4. ASSUME NEW n \in Missed' PROVE n \in Missed \cup between
    <3>1. n \in (from + 1)..p.g /\ \A i \in 1..Len(epoch') : epoch'[i].g # n BY <1>1, <2>4, Zenon DEF Missed
    <3>2. n \in Nat /\ n # p.g /\ \A i \in 1..Len(epoch) : epoch[i].g # n BY <2>1, <2>3, <3>1
    <3>3. n \in (from + 1)..last \/ n \in between BY <1>3, <3>1, <3>2
    <3>4. QED BY <3>2, <3>3, Zenon DEF Missed
  <2>5. ASSUME NEW n \in Missed \cup between PROVE n \in Missed'
    <3>1. n \in Nat /\ n \in (from + 1)..p.g /\ \A i \in 1..Len(epoch) : epoch[i].g # n
      <4>1. CASE n \in Missed BY <1>3, <1>4, <4>1 DEF Missed
      <4>2. CASE n \in between BY <1>3, <2>2, <4>2
      <4>3. QED BY <2>5, <4>1, <4>2
    <3>2. n # p.g
      <4>1. CASE n \in Missed
        <5>1. n \in (from + 1)..last /\ n # last BY <1>3, <4>1 DEF Missed
        <5>2. QED BY <1>3, <1>4, <5>1
      <4>2. CASE n \in between BY <1>3, <4>2
      <4>3. QED BY <2>5, <4>1, <4>2
    <3>3. \A i \in 1..Len(epoch') : epoch'[i].g # n BY <2>1, <3>1, <3>2
    <3>4. QED BY <1>1, <3>1, <3>3, Zenon DEF Missed
  <2>6. QED BY <2>4, <2>5
<1>7. Missed \cap between = {} BY <1>3 DEF Missed
<1>8. IsFiniteSet(Missed) /\ IsFiniteSet(between) /\ Cardinality(between) = Gap(p)
  <2>0. from + 1 \in Int /\ last \in Int /\ last + 1 \in Int /\ p.g - 1 \in Int BY <1>3
  <2>1. IsFiniteSet((from + 1)..last) BY <2>0, FS_Interval, Zenon
  <2>2. IsFiniteSet(Missed) BY <2>1, FS_Subset DEF Missed
  <2>3. IsFiniteSet(between) /\ Cardinality(between) = IF last + 1 > p.g - 1 THEN 0 ELSE p.g - 1 - (last + 1) + 1
    BY <2>0, FS_Interval, Zenon
  <2>4. Gap(p) = IF p.g <= last + 1 THEN 0 ELSE p.g - (last + 1) BY DEF Gap
  <2>5. Cardinality(between) = Gap(p)
    <3>1. CASE p.g <= last + 1 BY <1>3, <2>3, <2>4, <3>1
    <3>2. CASE ~(p.g <= last + 1) BY <1>3, <2>3, <2>4, <3>2
    <3>3. QED BY <3>1, <3>2
  <2>6. QED BY <2>2, <2>3, <2>5
<1> HIDE DEF between
<1>9. Cardinality(Missed \cup between) = Cardinality(Missed) + Cardinality(between) - Cardinality(Missed \cap between)
  BY <1>8, FS_Union
<1>10. Cardinality({}) = 0 /\ Cardinality(Missed) \in Nat /\ Cardinality(between) \in Nat
  BY <1>8, FS_EmptySet, FS_CardinalityType
<1>11. from <= p.g BY <1>3, <1>4
<1>12. Cardinality(Missed') = Cardinality(Missed) + Cardinality(between)
  <2>1. Cardinality(Missed') = Cardinality(Missed) + Cardinality(between) - 0 BY <1>6, <1>7, <1>9, <1>10, Zenon
  <2>2. \A a, b \in Nat : a + b - 0 = a + b OBVIOUS
  <2>3. QED BY <1>10, <2>1, <2>2, Zenon
<1>13. Cardinality(Missed') = Cardinality(Missed) + Gap(p) BY <1>8, <1>12, Zenon
<1>14. QED BY <1>1, <1>2, <1>11, <1>13, Zenon

(* Nothing is passed over yet when an epoch begins, or a connection does. *)
LEMMA NothingMissed ==
  ASSUME from' \in Nat, last' \in Nat, from' = last' \/ (from' + 1 = last' /\ \E i \in 1..Len(epoch') : epoch'[i].g = last')
  PROVE  Cardinality(Missed') = 0
<1>1. Missed' = {}
  <2> SUFFICES ASSUME NEW n \in Missed' PROVE FALSE OBVIOUS
  <2>1. n \in (from' + 1)..last' /\ \A i \in 1..Len(epoch') : epoch'[i].g # n BY DEF Missed
  <2>2. \A f, l \in Nat : \A k \in (f + 1)..l : f # l /\ (f + 1 = l => k = l) OBVIOUS
  <2>3. CASE from' = last' BY <2>1, <2>2, <2>3, Zenon
  <2>4. CASE from' + 1 = last' /\ \E i \in 1..Len(epoch') : epoch'[i].g = last'
    <3>1. n = last' BY <2>1, <2>2, <2>4, Zenon
    <3>2. QED BY <2>1, <2>4, <3>1, Zenon
  <2>5. QED BY <2>3, <2>4, Zenon
<1>2. QED BY <1>1, FS_EmptySet

LEMMA GapInit == Init => GapInv
  BY DEF Init, GapInv

LEMMA GapStep == EpochInv /\ CountType /\ GapInv /\ [Next]_vars => GapInv'
<1> SUFFICES ASSUME EpochInv, CountType, GapInv, [Next]_vars PROVE GapInv' OBVIOUS
<1>0. counts.gaps \in Nat BY DEF CountType, Counters
<1>1. ASSUME UNCHANGED <<last, history>>, counts'.gaps = counts.gaps PROVE GapInv'
  BY <1>1 DEF GapInv, Missed, history
<1>2. CASE Opened
  <2>1. /\ ResetCounts /\ UNCHANGED <<last, epoch>> /\ gapsBefore' = 0
        /\ from' = IF last = NULL THEN 0 ELSE last
    BY <1>2 DEF Opened, ResetStream, stream
  <2>2. counts'.gaps = 0 BY <2>1, ZeroFields
  <2>3. CASE epoch # <<>>
    <3>1. last \in Nat /\ last # NULL BY <2>3, LastOfEpoch, NullAssumption
    <3>2. from' = last /\ last' = last BY <2>1, <3>1
    <3>3. Cardinality(Missed') = 0 BY <3>1, <3>2, NothingMissed
    <3>4. QED BY <2>1, <2>2, <3>1, <3>2, <3>3 DEF GapInv
  <2>4. CASE epoch = <<>>
    <3>1. last = NULL BY <2>4 DEF EpochInv, Remembered
    <3>2. QED BY <2>1, <2>4, <3>1 DEF GapInv
  <2>5. QED BY <2>3, <2>4
<1>3. ASSUME NEW p \in Packets, Accept(p) PROVE GapInv'
  <2>1. counts'.gaps = counts.gaps + Gap(p) BY <1>3, AcceptedCounts
  <2>2. last' = p.g /\ p.g \in Nat /\ p.g \in 1..MaxNumber /\ MaxNumber \in Nat
    BY <1>3, PacketFields, SizesAssumption DEF Accept
  <2>3. CASE StartsEpoch(p)
    <3>1. epoch' = <<p>> /\ from' = p.g - 1 /\ gapsBefore' = counts.gaps /\ Gap(p) = 0
      BY <1>3, <2>3 DEF Accept, Gap
    <3>2. from' \in Nat /\ from' + 1 = last' /\ from' <= last' /\ last' \in Nat BY <2>2, <3>1
    <3>3. 1 \in 1..Len(epoch') /\ epoch'[1].g = last' BY <2>2, <3>1
    <3>4. Cardinality(Missed') = 0 BY <3>2, <3>3, NothingMissed
    <3>5. QED BY <1>0, <2>1, <3>1, <3>2, <3>4 DEF GapInv
  <2>4. CASE ~StartsEpoch(p)
    <3>1. Cardinality(Missed') = Cardinality(Missed) + Gap(p) /\ from' = from /\ from <= p.g /\ epoch # <<>>
      BY <1>3, <2>4, MissedMore
    <3>2. gapsBefore' = gapsBefore /\ counts.gaps = gapsBefore + Cardinality(Missed) /\ from \in Nat /\ gapsBefore \in Nat
      BY <1>3, <2>4, <3>1 DEF Accept, GapInv
    <3>3. IsFiniteSet(Missed) /\ Gap(p) \in Nat
      <4>1. last \in Nat /\ from + 1 \in Int /\ last \in Int BY <3>1, <3>2, LastOfEpoch
      <4>2. IsFiniteSet((from + 1)..last) BY <4>1, FS_Interval, Zenon
      <4>3. QED BY <4>1, <4>2, FS_Subset, GapType DEF Missed
    <3>4. Cardinality(Missed) \in Nat BY <3>3, FS_CardinalityType
    <3> DEFINE m == Cardinality(Missed)
               mm == Cardinality(Missed')
    <3>5. mm = m + Gap(p) /\ m \in Nat /\ counts.gaps = gapsBefore + m BY <3>1, <3>2, <3>4
    <3> HIDE DEF m, mm
    <3>6. counts'.gaps = gapsBefore' + mm BY <2>1, <3>2, <3>3, <3>5
    <3>7. QED BY <2>2, <3>1, <3>2, <3>6 DEF GapInv, mm
  <2>5. QED BY <2>3, <2>4
<1>4. ASSUME NEW p \in Packets, Duplicate(p) \/ OutOfOrder(p) PROVE GapInv'
  <2>1. UNCHANGED <<last, history>> BY <1>4 DEF Duplicate, OutOfOrder, stream, history
  <2>2. QED BY <1>1, <1>4, <2>1, RefusedCounts
<1>5. CASE Reject
  <2>1. UNCHANGED <<last, history>> BY <1>5 DEF Reject, stream, history
  <2>2. QED BY <1>1, <1>5, <2>1, RejectedCounts
<1>6. CASE Connect \/ Lost \/ Unmount
  BY <1>1, <1>6, Zenon DEF Connect, Lost, Unmount, stream, history
<1>7. CASE StartSoak \/ ResetSoak \/ TargetTimePasses \/ Silence \/ AgeRegistry
  BY <1>1, <1>7, Zenon DEF StartSoak, ResetSoak, TargetTimePasses, Silence, AgeRegistry, stream, history
<1>8. CASE UNCHANGED vars BY <1>1, <1>8, Zenon DEF vars, stream, history
<1>9. QED BY <1>2, <1>3, <1>4, <1>5, <1>6, <1>7, <1>8, Zenon DEF Next

\* The gaps a connection counts are exactly the numbers that were passed over since it began,
\* those lost while it was down included (ingestPacket, resetConnectionStats).
THEOREM GapsAreTheMissedNumbers == Spec => []EveryNumberAccounted
<1>1. EpochInv /\ ShownInv => CountType BY DEF ShownInv
<1>2. EpochInv /\ GapInv => EveryNumberAccounted
  <2> SUFFICES ASSUME EpochInv, GapInv, epoch # <<>>
               PROVE  counts.gaps - gapsBefore = Cardinality({n \in (from + 1)..last : \A i \in DOMAIN epoch : epoch[i].g # n})
    BY DEF EveryNumberAccounted
  <2>1. DOMAIN epoch = 1..Len(epoch) BY LenProperties DEF EpochInv, EpochType
  <2>2. {n \in (from + 1)..last : \A i \in DOMAIN epoch : epoch[i].g # n} = Missed BY <2>1 DEF Missed
  <2>3. last \in Nat /\ from \in Nat /\ gapsBefore \in Nat /\ counts.gaps = gapsBefore + Cardinality(Missed)
    BY LastOfEpoch DEF GapInv
  <2>4. Cardinality(Missed) \in Nat
    <3>1. from + 1 \in Int /\ last \in Int BY <2>3
    <3>2. IsFiniteSet((from + 1)..last) BY <3>1, FS_Interval, Zenon
    <3>3. QED BY <3>2, FS_Subset, FS_CardinalityType DEF Missed
  <2>5. counts.gaps - gapsBefore = Cardinality(Missed) BY <2>3, <2>4
  <2>6. QED BY <2>2, <2>5
<1>3. QED BY <1>1, <1>2, EpochInit, EpochStep, ShownInit, ShownStep, GapInit, GapStep, PTL DEF Spec

-----------------------------------------------------------------------------
(*                            the event store                              *)

Event == [number: Nat, disposition: Dispositions, packet: Packets \cup {NULL}]

StoreType ==
    /\ eventStore \in Seq(Event) /\ Len(eventStore) <= StoreSize
    /\ latest \in Nat /\ dropped \in Nat

\* What is no longer held is the oldest, and counted.
Numbered ==
    /\ counts.packets + counts.rejected = latest
    /\ dropped + Len(eventStore) = latest
    /\ \A i \in 1..Len(eventStore) : eventStore[i].number = dropped + i

\* While nothing was dropped, the events explain the counters.
Explained ==
    /\ counts.duplicates = EventsOf("DUPLICATE_REJECTED")
    /\ counts.outOfOrder = EventsOf("OUT_OF_ORDER_REJECTED")
    /\ counts.rejected = EventsOf("REJECTED")
    /\ counts.resets = carried.resets + EventsOf("SEQUENCE_RESET_ACCEPTED")
    /\ counts.switches = carried.switches + EventsOf("STREAM_SWITCH_ACCEPTED")
    /\ EventsOf("SEQUENCE_GAP_ACCEPTED") <= counts.gaps
    /\ counts.gaps > 0 => EventsOf("SEQUENCE_GAP_ACCEPTED") > 0 \/ EventsOf("SEQUENCE_RESET_ACCEPTED") > 0
Tally == dropped = 0 => Explained
CarriedType == carried.resets \in Nat /\ carried.switches \in Nat /\ carried \in [resets: Nat, switches: Nat]

IsLastAccepted(n) ==
    /\ eventStore[n].disposition \notin Refusal
    /\ \A i \in 1..Len(eventStore) : eventStore[i].disposition \notin Refusal => i <= n

\* The last accepted event is of the last accepted packet.
Newest ==
    \A n \in 1..Len(eventStore) :
        IsLastAccepted(n) => eventStore[n].packet.stream = activeStreamId /\ eventStore[n].packet.g = last

StoreInv == StoreType /\ CarriedType /\ Numbered /\ Tally /\ Newest

(* A record is a new event at the end; at most one old one goes. *)
EventOf(d, p) == [number |-> latest + 1, disposition |-> d, packet |-> p]

LEMMA RecordFacts ==
  ASSUME StoreType, NEW d \in Dispositions, NEW p \in Packets \cup {NULL}, Record(d, p)
  PROVE  /\ StoreType' /\ latest' = latest + 1
         /\ \E k \in {0, 1} :
               /\ dropped' = dropped + k /\ Len(eventStore') + k = Len(eventStore) + 1
               /\ \A i \in 1..Len(eventStore') :
                     eventStore'[i] = IF i + k = Len(eventStore) + 1 THEN EventOf(d, p) ELSE eventStore[i + k]
               /\ Len(eventStore') \in Nat \ {0}
<1> DEFINE n == Len(eventStore)
           next == Append(eventStore, EventOf(d, p))
           overflow == IF n + 1 > StoreSize THEN n + 1 - StoreSize ELSE 0
<1>1. n \in Nat /\ StoreSize \in Nat \ {0} /\ n <= StoreSize /\ latest \in Nat /\ dropped \in Nat
  BY SizesAssumption, LenProperties DEF StoreType
<1>2. EventOf(d, p) \in Event
  <2>1. latest + 1 \in Nat BY <1>1
  <2>2. QED BY <2>1 DEF EventOf, Event
<1>3. /\ next \in Seq(Event) /\ Len(next) = n + 1
      /\ \A i \in 1..n : next[i] = eventStore[i]
      /\ next[n + 1] = EventOf(d, p)
  BY <1>2, AppendProperties DEF StoreType
<1>4. eventStore' = SubSeq(next, overflow + 1, n + 1) /\ latest' = latest + 1 /\ dropped' = dropped + overflow
  <2> DEFINE ov == IF Len(next) > StoreSize THEN Len(next) - StoreSize ELSE 0
  <2>1. eventStore' = SubSeq(next, ov + 1, Len(next)) /\ latest' = latest + 1 /\ dropped' = dropped + ov
    BY Zenon DEF Record, EventOf
  <2>2. Len(next) = n + 1 BY <1>3
  <2> HIDE DEF next, n
  <2>3. ov = overflow BY <1>1, <2>2
  <2> HIDE DEF ov, overflow
  <2>4. QED BY <2>1, <2>2, <2>3, Zenon
<1>5. overflow \in {0, 1} /\ n + 1 - overflow <= StoreSize /\ n + 1 - overflow \in Nat \ {0} BY <1>1
<1> HIDE DEF overflow, next
<1>6. /\ eventStore' \in Seq(Event) /\ Len(eventStore') = n + 1 - overflow
      /\ \A i \in 1..(n + 1 - overflow) : eventStore'[i] = next[i + overflow]
  <2>1. overflow + 1 \in Int /\ n + 1 \in Int /\ overflow + 1 <= n + 1 BY <1>1, <1>5
  <2>2. \A i \in (overflow + 1)..(n + 1) : next[i] \in Event
    <3>1. \A i \in (overflow + 1)..(n + 1) : i \in 1..Len(next) BY <1>1, <1>3, <1>5
    <3>2. QED BY <1>3, <3>1, ElementOfSeq, Zenon
  <2>3. /\ SubSeq(next, overflow + 1, n + 1) \in Seq(Event)
        /\ Len(SubSeq(next, overflow + 1, n + 1)) = n + 1 - (overflow + 1) + 1
        /\ \A i \in 1..(n + 1 - (overflow + 1) + 1) : SubSeq(next, overflow + 1, n + 1)[i] = next[overflow + 1 + i - 1]
    BY <2>1, <2>2, SubSeqProperties
  <2>4. n + 1 - (overflow + 1) + 1 = n + 1 - overflow BY <1>1, <1>5
  <2>5. \A i \in 1..(n + 1 - overflow) : overflow + 1 + i - 1 = i + overflow BY <1>1, <1>5
  <2>6. QED BY <1>4, <2>3, <2>4, <2>5, Zenon
<1>7. \A i \in 1..(n + 1 - overflow) :
         next[i + overflow] = IF i + overflow = n + 1 THEN EventOf(d, p) ELSE eventStore[i + overflow]
  <2> TAKE i \in 1..(n + 1 - overflow)
  <2>1. CASE i + overflow = n + 1 BY <1>3, <2>1
  <2>2. CASE i + overflow # n + 1
    <3>1. i + overflow \in 1..n BY <1>1, <1>5, <2>2
    <3>2. QED BY <1>3, <2>2, <3>1
  <2>3. QED BY <2>1, <2>2
<1>8. StoreType'
  <2>1. latest' \in Nat /\ dropped' \in Nat /\ Len(eventStore') <= StoreSize BY <1>1, <1>4, <1>5, <1>6
  <2>2. QED BY <1>6, <2>1 DEF StoreType
<1>9. Len(eventStore') + overflow = n + 1 /\ Len(eventStore') \in Nat \ {0} BY <1>1, <1>5, <1>6
<1>10. \A i \in 1..Len(eventStore') :
          eventStore'[i] = IF i + overflow = n + 1 THEN EventOf(d, p) ELSE eventStore[i + overflow]
  BY <1>6, <1>7, Zenon
<1>11. QED BY <1>4, <1>5, <1>8, <1>9, <1>10, Zenon

LEMMA EventFields ==
  ASSUME StoreType, NEW i \in 1..Len(eventStore)
  PROVE  eventStore[i] \in Event /\ eventStore[i].disposition \in Dispositions
<1>1. eventStore[i] \in Event BY ElementOfSeq DEF StoreType
<1>2. QED BY <1>1 DEF Event

(* While nothing is dropped, an event adds to the count of its disposition alone. *)
LEMMA OneMoreEvent ==
  ASSUME StoreType, NEW d \in Dispositions, NEW p \in Packets \cup {NULL}, Record(d, p), dropped' = 0
  PROVE  /\ dropped = 0
         /\ \A c \in Dispositions : EventsOf(c) \in Nat /\ EventsOf(c)' = EventsOf(c) + One(d = c)
<1> DEFINE n == Len(eventStore)
<1>1. n \in Nat /\ DOMAIN eventStore = 1..n /\ dropped \in Nat BY LenProperties DEF StoreType
<1>2. PICK k \in {0, 1} :
         /\ dropped' = dropped + k /\ Len(eventStore') + k = n + 1
         /\ \A i \in 1..Len(eventStore') :
               eventStore'[i] = IF i + k = n + 1 THEN EventOf(d, p) ELSE eventStore[i + k]
  BY RecordFacts
<1>3. dropped = 0 /\ k = 0 BY <1>1, <1>2
<1>4. StoreType' BY RecordFacts
<1>5. DOMAIN eventStore' = 1..(n + 1)
  <2>1. Len(eventStore') \in Nat /\ DOMAIN eventStore' = 1..Len(eventStore') BY <1>4, LenProperties DEF StoreType
  <2>2. Len(eventStore') = n + 1 BY <1>1, <1>2, <1>3, <2>1
  <2>3. QED BY <2>1, <2>2, Zenon
<1>6. eventStore'[n + 1].disposition = d /\ \A i \in 1..n : eventStore'[i] = eventStore[i]
  <2>1. Len(eventStore') \in Nat BY <1>4, LenProperties DEF StoreType
  <2>2. Len(eventStore') = n + 1 BY <1>1, <1>2, <1>3, <2>1
  <2>3. eventStore'[n + 1] = EventOf(d, p)
    <3>1. n + 1 \in 1..Len(eventStore') /\ (n + 1) + k = n + 1 BY <1>1, <1>3, <2>2
    <3>2. QED BY <1>2, <3>1, Zenon
  <2>4. \A i \in 1..n : eventStore'[i] = eventStore[i]
    <3> TAKE i \in 1..n
    <3>1. i \in 1..Len(eventStore') /\ i + k # n + 1 /\ i + k = i BY <1>1, <1>3, <2>2
    <3>2. QED BY <1>2, <3>1, Zenon
  <2>5. QED BY <2>3, <2>4 DEF EventOf
<1>7. ASSUME NEW c \in Dispositions PROVE EventsOf(c) \in Nat /\ EventsOf(c)' = EventsOf(c) + One(d = c)
  <2> DEFINE Old == {i \in 1..n : eventStore[i].disposition = c}
             New == {i \in 1..(n + 1) : eventStore'[i].disposition = c}
  <2>1. EventsOf(c) = Cardinality(Old) BY <1>1, Zenon DEF EventsOf
  <2>2. EventsOf(c)' = Cardinality(New) BY <1>5, Zenon DEF EventsOf
  <2>3. \A i : i \in 1..(n + 1) <=> i \in 1..n \/ i = n + 1 BY <1>1
  <2>4. n + 1 \notin 1..n BY <1>1
  <2>5. IsFiniteSet(Old) /\ Cardinality(Old) \in Nat
    <3>1. 1 \in Int /\ n \in Int BY <1>1
    <3>2. IsFiniteSet(1..n) BY <3>1, FS_Interval, Zenon
    <3>3. IsFiniteSet(Old) BY <3>2, FS_Subset
    <3>4. QED BY <3>3, FS_CardinalityType
  <2>6. CASE c = d
    <3>1. New = Old \cup {n + 1} BY <1>6, <2>3, <2>6
    <3>2. n + 1 \notin Old BY <2>4
    <3> HIDE DEF Old, New, n
    <3>3. Cardinality(New) = Cardinality(Old) + 1 BY <2>5, <3>1, <3>2, FS_AddElement
    <3>4. One(d = c) = 1 BY <2>6 DEF One
    <3>5. QED BY <2>1, <2>2, <2>5, <3>3, <3>4, Zenon
  <2>7. CASE c # d
    <3>1. New = Old BY <1>6, <2>3, <2>7
    <3>2. One(d = c) = 0 BY <2>7 DEF One
    <3> HIDE DEF Old, New
    <3>3. Cardinality(New) = Cardinality(Old) + 0 BY <2>5, <3>1
    <3>4. QED BY <2>1, <2>2, <2>5, <3>2, <3>3, Zenon
  <2>8. QED BY <2>6, <2>7
<1>8. QED BY <1>3, <1>7

(* Of one record more, either the store holds one more or it has dropped one more. *)
LEMMA HeldOrDropped ==
  ASSUME NEW n \in Nat, NEW m \in Nat, NEW k \in {0, 1}, NEW before \in Nat, NEW after, NEW number \in Nat,
         before + n = number, after = before + k, m + k = n + 1
  PROVE  after + m = number + 1
  OBVIOUS

(* What a handler must do to counters and stream for its event to keep the invariant. *)
LEMMA RecordedInv ==
  ASSUME StoreInv, CountType, CountType', NEW d \in Dispositions, NEW p \in Packets \cup {NULL}, Record(d, p),
         counts'.packets + counts'.rejected = counts.packets + counts.rejected + 1,
         counts'.duplicates = counts.duplicates + One(d = "DUPLICATE_REJECTED"),
         counts'.outOfOrder = counts.outOfOrder + One(d = "OUT_OF_ORDER_REJECTED"),
         counts'.rejected = counts.rejected + One(d = "REJECTED"),
         counts'.resets = counts.resets + One(d = "SEQUENCE_RESET_ACCEPTED"),
         counts'.switches = counts.switches + One(d = "STREAM_SWITCH_ACCEPTED"),
         counts'.gaps >= counts.gaps + One(d = "SEQUENCE_GAP_ACCEPTED"),
         counts'.gaps = counts.gaps \/ d \in {"SEQUENCE_GAP_ACCEPTED", "SEQUENCE_RESET_ACCEPTED"},
         carried' = carried,
         \/ d \in Refusal /\ activeStreamId' = activeStreamId /\ last' = last
         \/ d \notin Refusal /\ p.stream = activeStreamId' /\ p.g = last'
  PROVE  StoreInv'
<1> DEFINE n == Len(eventStore)
<1>1. StoreType /\ n \in Nat /\ dropped \in Nat /\ latest \in Nat BY LenProperties DEF StoreInv, StoreType
<1>2. StoreType' /\ latest' = latest + 1 BY <1>1, RecordFacts
<1>3. PICK k \in {0, 1} :
         /\ dropped' = dropped + k /\ Len(eventStore') + k = n + 1
         /\ \A i \in 1..Len(eventStore') :
               eventStore'[i] = IF i + k = n + 1 THEN EventOf(d, p) ELSE eventStore[i + k]
         /\ Len(eventStore') \in Nat \ {0}
  BY <1>1, RecordFacts
<1>4. Numbered'
  <2>1. counts'.packets + counts'.rejected = latest' BY <1>1, <1>2 DEF StoreInv, Numbered
  <2>2. dropped + n = latest BY DEF StoreInv, Numbered
  <2>3. dropped' + Len(eventStore') = latest' 
    <3>1. Len(eventStore') \in Nat /\ dropped' = dropped + k /\ Len(eventStore') + k = n + 1 BY <1>3
    <3> HIDE DEF n
    <3>2. dropped' + Len(eventStore') = latest + 1 BY <1>1, <2>2, <3>1, HeldOrDropped
    <3>3. QED BY <1>2, <3>2, Zenon
  <2>4. ASSUME NEW i \in 1..Len(eventStore') PROVE eventStore'[i].number = dropped' + i
    <3>1. CASE i + k = n + 1
      <4>1. eventStore'[i] = EventOf(d, p) BY <1>3, <3>1, Zenon
      <4>2. eventStore'[i].number = latest + 1 BY <4>1 DEF EventOf
      <4>3. dropped' + i = latest + 1 BY <1>1, <1>3, <2>2, <3>1
      <4>4. QED BY <4>2, <4>3
    <3>2. CASE i + k # n + 1
      <4>1. eventStore'[i] = eventStore[i + k] BY <1>3, <3>2, Zenon
      <4>2. i + k \in 1..n BY <1>1, <1>3, <3>2
      <4>3. eventStore[i + k].number = dropped + (i + k) BY <4>2 DEF StoreInv, Numbered
      <4>4. dropped + (i + k) = dropped' + i BY <1>1, <1>3
      <4>5. QED BY <4>1, <4>3, <4>4, Zenon
    <3>3. QED BY <3>1, <3>2
  <2>5. QED BY <2>1, <2>3, <2>4, Zenon DEF Numbered
<1>5. Tally'
  <2> SUFFICES ASSUME dropped' = 0 PROVE Explained' BY Zenon DEF Tally
  <2>1. /\ dropped = 0
        /\ \A c \in Dispositions : EventsOf(c) \in Nat /\ EventsOf(c)' = EventsOf(c) + One(d = c)
    BY <1>1, OneMoreEvent
  <2>2. Explained BY <2>1, Zenon DEF StoreInv, Tally
  <2> DEFINE dup == EventsOf("DUPLICATE_REJECTED")
             out == EventsOf("OUT_OF_ORDER_REJECTED")
             rej == EventsOf("REJECTED")
             gap == EventsOf("SEQUENCE_GAP_ACCEPTED")
             res == EventsOf("SEQUENCE_RESET_ACCEPTED")
             swi == EventsOf("STREAM_SWITCH_ACCEPTED")
  <2>3. /\ dup \in Nat /\ dup' = dup + One(d = "DUPLICATE_REJECTED")
        /\ out \in Nat /\ out' = out + One(d = "OUT_OF_ORDER_REJECTED")
        /\ rej \in Nat /\ rej' = rej + One(d = "REJECTED")
        /\ gap \in Nat /\ gap' = gap + One(d = "SEQUENCE_GAP_ACCEPTED")
        /\ res \in Nat /\ res' = res + One(d = "SEQUENCE_RESET_ACCEPTED")
        /\ swi \in Nat /\ swi' = swi + One(d = "STREAM_SWITCH_ACCEPTED")
    <3>1. {"DUPLICATE_REJECTED", "OUT_OF_ORDER_REJECTED", "REJECTED", "SEQUENCE_GAP_ACCEPTED",
           "SEQUENCE_RESET_ACCEPTED", "STREAM_SWITCH_ACCEPTED"} \subseteq Dispositions
      BY DEF Dispositions
    <3>2. QED BY <2>1, <3>1
  <2>4. /\ counts.duplicates = dup /\ counts.outOfOrder = out /\ counts.rejected = rej
        /\ counts.resets = carried.resets + res /\ counts.switches = carried.switches + swi
        /\ gap <= counts.gaps /\ (counts.gaps > 0 => gap > 0 \/ res > 0)
    BY <2>2, Zenon DEF Explained
  <2>5. /\ counts.gaps \in Nat /\ counts'.gaps \in Nat /\ carried.resets \in Nat /\ carried.switches \in Nat
    BY DEF CountType, Counters, StoreInv, CarriedType
  <2> HIDE DEF dup, out, rej, gap, res, swi
  <2>6. \A c \in Dispositions : One(d = c) \in Nat /\ (d = c => One(d = c) = 1) BY DEF One
  <2> DEFINE isGap == One(d = "SEQUENCE_GAP_ACCEPTED")
             isRes == One(d = "SEQUENCE_RESET_ACCEPTED")
             isSwi == One(d = "STREAM_SWITCH_ACCEPTED")
  <2>7. /\ isGap \in Nat /\ isRes \in Nat /\ isSwi \in Nat
        /\ d = "SEQUENCE_GAP_ACCEPTED" => isGap = 1
        /\ d = "SEQUENCE_RESET_ACCEPTED" => isRes = 1
    BY <2>6 DEF Dispositions
  <2>8. /\ gap' = gap + isGap /\ res' = res + isRes /\ swi' = swi + isSwi
        /\ counts'.resets = counts.resets + isRes /\ counts'.switches = counts.switches + isSwi
        /\ counts'.gaps >= counts.gaps + isGap
    BY <2>3
  <2> HIDE DEF isGap, isRes, isSwi
  <2>9. counts'.duplicates = dup' /\ counts'.outOfOrder = out' /\ counts'.rejected = rej' BY <2>3, <2>4
  <2>10. /\ counts'.resets = carried.resets + res' /\ counts'.switches = carried.switches + swi'
    BY <2>3, <2>4, <2>5, <2>7, <2>8
  <2>11. gap' <= counts'.gaps BY <2>3, <2>4, <2>5, <2>7, <2>8
  <2>12. counts'.gaps > 0 => gap' > 0 \/ res' > 0
    <3>1. CASE d \in {"SEQUENCE_GAP_ACCEPTED", "SEQUENCE_RESET_ACCEPTED"} BY <2>3, <2>7, <2>8, <3>1
    <3>2. CASE counts'.gaps = counts.gaps BY <2>3, <2>4, <2>5, <2>7, <2>8, <3>2
    <3>3. QED BY <3>1, <3>2
  <2>13. QED BY <2>9, <2>10, <2>11, <2>12, Zenon DEF Explained, dup, out, rej, gap, res, swi
<1>6. Newest'
  <2> SUFFICES ASSUME NEW m \in 1..Len(eventStore'), IsLastAccepted(m)'
               PROVE  eventStore'[m].packet.stream = activeStreamId' /\ eventStore'[m].packet.g = last'
    BY Zenon DEF Newest
  <2>1. /\ eventStore'[m].disposition \notin Refusal
        /\ \A i \in 1..Len(eventStore') : eventStore'[i].disposition \notin Refusal => i <= m
    BY Zenon DEF IsLastAccepted
  <2>2. EventOf(d, p).disposition = d /\ EventOf(d, p).packet = p BY DEF EventOf
  <2>3. CASE d \notin Refusal
    <3>1. Len(eventStore') \in 1..Len(eventStore') /\ Len(eventStore') + k = n + 1 BY <1>3
    <3>2. eventStore'[Len(eventStore')] = EventOf(d, p) BY <1>3, <3>1, Zenon
    <3>3. Len(eventStore') <= m BY <2>1, <2>2, <2>3, <3>1, <3>2, Zenon
    <3>4. m = Len(eventStore') BY <1>3, <3>3
    <3>5. QED BY <2>2, <2>3, <3>2, <3>4, Zenon
  <2>4. CASE d \in Refusal
    <3>1. m + k # n + 1
      <4> SUFFICES ASSUME m + k = n + 1 PROVE FALSE OBVIOUS
      <4>1. eventStore'[m] = EventOf(d, p) BY <1>3, Zenon
      <4>2. QED BY <2>1, <2>2, <2>4, <4>1, Zenon
    <3>2. eventStore'[m] = eventStore[m + k] BY <1>3, <3>1, Zenon
    <3>3. m + k \in 1..n BY <1>1, <1>3, <3>1
    <3>4. ASSUME NEW i \in 1..n, eventStore[i].disposition \notin Refusal PROVE i <= m + k
      <4>1. CASE i <= k BY <1>3, <4>1
      <4>2. CASE ~(i <= k)
        <5>1. i - k \in 1..Len(eventStore') /\ (i - k) + k = i BY <1>1, <1>3, <4>2
        <5>2. PICK j \in 1..Len(eventStore') : j + k = i /\ j + k # n + 1 BY <1>1, <5>1
        <5>3. eventStore'[j] = eventStore[i] BY <1>3, <5>2, Zenon
        <5>4. j <= m BY <2>1, <3>4, <5>3, Zenon
        <5>5. QED BY <1>3, <5>2, <5>4
      <4>3. QED BY <4>1, <4>2
    <3>5. IsLastAccepted(m + k) BY <2>1, <3>2, <3>4, Zenon DEF IsLastAccepted
    <3>6. eventStore[m + k].packet.stream = activeStreamId /\ eventStore[m + k].packet.g = last
      BY <3>3, <3>5, Zenon DEF StoreInv, Newest
    <3>7. QED BY <2>4, <3>2, <3>6, Zenon
  <2>5. QED BY <2>3, <2>4
<1>7. CarriedType' BY Zenon DEF StoreInv, CarriedType
<1>8. QED BY <1>2, <1>4, <1>5, <1>6, <1>7, Zenon DEF StoreInv

(* An empty store tells counters that are zero. *)
LEMMA EmptyStore ==
  ASSUME eventStore = <<>>, latest = 0, dropped = 0, counts.packets = 0, counts.rejected = 0,
         counts.duplicates = 0, counts.outOfOrder = 0, counts.gaps = 0, CarriedType,
         counts.resets = carried.resets, counts.switches = carried.switches
  PROVE  StoreInv
<1>1. StoreSize \in Nat BY SizesAssumption
<1>2. eventStore \in Seq(Event) /\ Len(eventStore) = 0 /\ DOMAIN eventStore = 1..0 /\ 1..0 = {} BY EmptySeq
<1>3. StoreType BY <1>1, <1>2 DEF StoreType
<1>4. Numbered BY <1>2 DEF Numbered
<1>5. \A d : EventsOf(d) = 0
  <2> TAKE d
  <2>1. {i \in DOMAIN eventStore : eventStore[i].disposition = d} = {} BY <1>2
  <2>2. QED BY <2>1, FS_EmptySet, Zenon DEF EventsOf
<1>6. 0 <= 0 /\ ~(0 > 0) /\ carried.resets = carried.resets + 0 /\ carried.switches = carried.switches + 0
  BY DEF CarriedType
<1>7. Tally BY <1>5, <1>6, Zenon DEF Tally, Explained
<1>8. Newest BY <1>2 DEF Newest
<1>9. QED BY <1>3, <1>4, <1>7, <1>8, Zenon DEF StoreInv

\* The store of a connection that has just begun.
NothingRecorded ==
    /\ eventStore = <<>> /\ latest = 0 /\ dropped = 0
    /\ counts.packets = 0 /\ counts.rejected = 0
    /\ counts.duplicates = 0 /\ counts.outOfOrder = 0 /\ counts.gaps = 0
    /\ counts.resets = carried.resets /\ counts.switches = carried.switches /\ CarriedType

LEMMA EmptyStoreHolds == NothingRecorded => StoreInv
  BY EmptyStore, Zenon DEF NothingRecorded

LEMMA EmptyStoreAfter == NothingRecorded' => StoreInv'
  BY EmptyStoreHolds, PTL

LEMMA StoreInit == Init => StoreInv
  BY EmptyStore DEF Init, Zero, CarriedType

LEMMA StoreUntouched ==
  ASSUME StoreInv, UNCHANGED <<store, counts, activeStreamId, last, carried>>
  PROVE  StoreInv'
  BY Zenon DEF StoreInv, StoreType, CarriedType, Numbered, Tally, Explained, Newest, IsLastAccepted, EventsOf, store

LEMMA DispositionMeans ==
  ASSUME NEW p \in Packets, Gap(p) \in Nat
  PROVE  /\ Disposition(p) \in Dispositions /\ Disposition(p) \notin Refusal
         /\ Gap(p) >= One(Disposition(p) = "SEQUENCE_GAP_ACCEPTED")
         /\ One(IsReset(p) \/ IsSourceReset(p)) = One(Disposition(p) = "SEQUENCE_RESET_ACCEPTED")
         /\ One(IsSwitch(p)) = One(Disposition(p) = "STREAM_SWITCH_ACCEPTED")
         /\ Gap(p) = 0 \/ Disposition(p) \in {"SEQUENCE_GAP_ACCEPTED", "SEQUENCE_RESET_ACCEPTED"}
<1>1. Disposition(p) = "SEQUENCE_GAP_ACCEPTED" => Gap(p) > 0 BY DEF Disposition
<1>2. /\ Disposition(p) \in {"STREAM_SWITCH_ACCEPTED", "SEQUENCE_RESET_ACCEPTED", "SEQUENCE_GAP_ACCEPTED", "ACCEPTED"}
  BY DEF Disposition
<1>3. Gap(p) >= One(Disposition(p) = "SEQUENCE_GAP_ACCEPTED")
  <2>1. CASE Disposition(p) = "SEQUENCE_GAP_ACCEPTED" BY <1>1, <2>1 DEF One
  <2>2. CASE Disposition(p) # "SEQUENCE_GAP_ACCEPTED" BY <2>2 DEF One
  <2>3. QED BY <2>1, <2>2
<1>4. /\ Disposition(p) = "STREAM_SWITCH_ACCEPTED" <=> IsSwitch(p)
      /\ Disposition(p) = "SEQUENCE_RESET_ACCEPTED" <=> IsReset(p) \/ IsSourceReset(p)
  BY DEF Disposition, IsReset, IsSourceReset
<1>5. Gap(p) > 0 => ~IsSwitch(p) /\ ~IsReset(p) BY DEF Gap, StartsEpoch
<1>6. Gap(p) = 0 \/ Disposition(p) \in {"SEQUENCE_GAP_ACCEPTED", "SEQUENCE_RESET_ACCEPTED"}
  BY <1>5 DEF Disposition
<1>7. QED BY <1>2, <1>3, <1>4, <1>6 DEF Dispositions, Refusal, One

LEMMA StoreStep == EpochInv /\ CountType /\ StoreInv /\ [Next]_vars => StoreInv'
<1> SUFFICES ASSUME EpochInv, CountType, StoreInv, [Next]_vars PROVE StoreInv' OBVIOUS
<1>0. /\ counts.packets \in Nat /\ counts.rejected \in Nat /\ counts.duplicates \in Nat
      /\ counts.outOfOrder \in Nat /\ counts.gaps \in Nat
      /\ counts.resets \in Nat /\ counts.switches \in Nat
  BY DEF CountType, Counters
<1>1. CASE Reject
  <2> DEFINE d == "REJECTED"
  <2>1. Record(d, NULL) /\ UNCHANGED <<activeStreamId, last, carried>> BY <1>1 DEF Reject, stream, history
  <2>2. d \in Dispositions /\ d \in Refusal /\ NULL \in Packets \cup {NULL} BY DEF Dispositions, Refusal
  <2>3. /\ CountType' /\ counts'.packets = counts.packets /\ counts'.gaps = counts.gaps
        /\ counts'.rejected = counts.rejected + 1
        /\ counts'.duplicates = counts.duplicates /\ counts'.outOfOrder = counts.outOfOrder
        /\ counts'.resets = counts.resets /\ counts'.switches = counts.switches
    BY <1>1, RejectedCounts
  <2>4. /\ One(d = "REJECTED") = 1 /\ One(d = "DUPLICATE_REJECTED") = 0 /\ One(d = "OUT_OF_ORDER_REJECTED") = 0
        /\ One(d = "SEQUENCE_GAP_ACCEPTED") = 0 /\ One(d = "SEQUENCE_RESET_ACCEPTED") = 0
        /\ One(d = "STREAM_SWITCH_ACCEPTED") = 0
    BY DEF One
  <2> HIDE DEF d
  <2>5. QED BY <1>0, <2>1, <2>2, <2>3, <2>4, RecordedInv
<1>2. ASSUME NEW p \in Packets, Duplicate(p) PROVE StoreInv'
  <2> DEFINE d == "DUPLICATE_REJECTED"
  <2>1. Record(d, p) /\ UNCHANGED <<activeStreamId, last, carried>> BY <1>2 DEF Duplicate, stream, history
  <2>2. d \in Dispositions /\ d \in Refusal /\ p \in Packets \cup {NULL} BY DEF Dispositions, Refusal
  <2>3. /\ CountType' /\ counts'.packets = counts.packets + 1 /\ counts'.gaps = counts.gaps
        /\ counts'.rejected = counts.rejected
        /\ counts'.duplicates = counts.duplicates + 1 /\ counts'.outOfOrder = counts.outOfOrder
        /\ counts'.resets = counts.resets /\ counts'.switches = counts.switches
    BY <1>2, RefusedCounts
  <2>4. /\ One(d = "REJECTED") = 0 /\ One(d = "DUPLICATE_REJECTED") = 1 /\ One(d = "OUT_OF_ORDER_REJECTED") = 0
        /\ One(d = "SEQUENCE_GAP_ACCEPTED") = 0 /\ One(d = "SEQUENCE_RESET_ACCEPTED") = 0
        /\ One(d = "STREAM_SWITCH_ACCEPTED") = 0
    BY DEF One
  <2> HIDE DEF d
  <2>5. QED BY <1>0, <2>1, <2>2, <2>3, <2>4, RecordedInv
<1>3. ASSUME NEW p \in Packets, OutOfOrder(p) PROVE StoreInv'
  <2> DEFINE d == "OUT_OF_ORDER_REJECTED"
  <2>1. Record(d, p) /\ UNCHANGED <<activeStreamId, last, carried>> BY <1>3 DEF OutOfOrder, stream, history
  <2>2. d \in Dispositions /\ d \in Refusal /\ p \in Packets \cup {NULL} BY DEF Dispositions, Refusal
  <2>3. /\ CountType' /\ counts'.packets = counts.packets + 1 /\ counts'.gaps = counts.gaps
        /\ counts'.rejected = counts.rejected
        /\ counts'.duplicates = counts.duplicates /\ counts'.outOfOrder = counts.outOfOrder + 1
        /\ counts'.resets = counts.resets /\ counts'.switches = counts.switches
    BY <1>3, RefusedCounts
  <2>4. /\ One(d = "REJECTED") = 0 /\ One(d = "DUPLICATE_REJECTED") = 0 /\ One(d = "OUT_OF_ORDER_REJECTED") = 1
        /\ One(d = "SEQUENCE_GAP_ACCEPTED") = 0 /\ One(d = "SEQUENCE_RESET_ACCEPTED") = 0
        /\ One(d = "STREAM_SWITCH_ACCEPTED") = 0
    BY DEF One
  <2> HIDE DEF d
  <2>5. QED BY <1>0, <2>1, <2>2, <2>3, <2>4, RecordedInv
<1>4. ASSUME NEW p \in Packets, Accept(p) PROVE StoreInv'
  <2> DEFINE d == Disposition(p)
  <2>1. Record(d, p) /\ p.stream = activeStreamId' /\ p.g = last' /\ carried' = carried BY <1>4 DEF Accept
  <2>2. Gap(p) \in Nat BY GapType, LastType
  <2>3. /\ d \in Dispositions /\ d \notin Refusal /\ p \in Packets \cup {NULL}
        /\ Gap(p) >= One(d = "SEQUENCE_GAP_ACCEPTED")
        /\ One(IsReset(p) \/ IsSourceReset(p)) = One(d = "SEQUENCE_RESET_ACCEPTED")
        /\ One(IsSwitch(p)) = One(d = "STREAM_SWITCH_ACCEPTED")
        /\ Gap(p) = 0 \/ d \in {"SEQUENCE_GAP_ACCEPTED", "SEQUENCE_RESET_ACCEPTED"}
    BY <2>2, DispositionMeans
  <2>4. /\ CountType' /\ counts'.packets = counts.packets + 1 /\ counts'.gaps = counts.gaps + Gap(p)
        /\ counts'.rejected = counts.rejected
        /\ counts'.duplicates = counts.duplicates /\ counts'.outOfOrder = counts.outOfOrder
        /\ counts'.resets = counts.resets + One(IsReset(p) \/ IsSourceReset(p))
        /\ counts'.switches = counts.switches + One(IsSwitch(p))
    BY <1>4, AcceptedCounts
  <2>5. One(d = "REJECTED") = 0 /\ One(d = "DUPLICATE_REJECTED") = 0 /\ One(d = "OUT_OF_ORDER_REJECTED") = 0
    BY <2>3 DEF One, Refusal
  <2>6. One(d = "SEQUENCE_GAP_ACCEPTED") \in Nat BY DEF One
  <2> HIDE DEF d
  <2>7. counts'.gaps >= counts.gaps + One(d = "SEQUENCE_GAP_ACCEPTED") BY <1>0, <2>2, <2>3, <2>4, <2>6
  <2>8. /\ counts'.resets = counts.resets + One(d = "SEQUENCE_RESET_ACCEPTED")
        /\ counts'.switches = counts.switches + One(d = "STREAM_SWITCH_ACCEPTED")
    BY <2>3, <2>4, Zenon
  <2>9. counts'.gaps = counts.gaps \/ d \in {"SEQUENCE_GAP_ACCEPTED", "SEQUENCE_RESET_ACCEPTED"}
    BY <1>0, <2>3, <2>4
  <2>10. QED BY <1>0, <2>1, <2>3, <2>4, <2>5, <2>7, <2>8, <2>9, RecordedInv
<1>5. CASE Opened
  <2>1. ResetCounts /\ eventStore' = <<>> /\ latest' = 0 /\ dropped' = 0 BY <1>5 DEF Opened, ResetStore
  <2>2. /\ counts'.packets = 0 /\ counts'.duplicates = 0 /\ counts'.outOfOrder = 0
        /\ counts'.gaps = 0 /\ counts'.rejected = 0
        /\ counts'.resets = counts.resets /\ counts'.switches = counts.switches
    BY <2>1, ZeroFields
  <2>3. carried' = [resets |-> counts.resets, switches |-> counts.switches] BY <1>5 DEF Opened
  <2>4. CarriedType' /\ counts'.resets = carried'.resets /\ counts'.switches = carried'.switches
    BY <1>0, <2>2, <2>3 DEF CarriedType
  <2>5. NothingRecorded' BY <2>1, <2>2, <2>4, Zenon DEF NothingRecorded
  <2>6. QED BY <2>5, EmptyStoreAfter
<1>6. CASE Connect \/ Lost \/ Unmount
  BY <1>6, StoreUntouched, Zenon DEF Connect, Lost, Unmount, stream, history
<1>7. CASE StartSoak \/ ResetSoak \/ TargetTimePasses \/ Silence \/ AgeRegistry
  BY <1>7, StoreUntouched, Zenon DEF StartSoak, ResetSoak, TargetTimePasses, Silence, AgeRegistry, stream, history
<1>8. CASE UNCHANGED vars BY <1>8, StoreUntouched, Zenon DEF vars, stream, history
<1>9. QED BY <1>1, <1>2, <1>3, <1>4, <1>5, <1>6, <1>7, <1>8, Zenon DEF Next

LEMMA StoreAlways == Spec => []StoreInv
<1>1. ShownInv => CountType BY DEF ShownInv
<1>2. QED BY <1>1, EpochInit, EpochStep, ShownInit, ShownStep, StoreInit, StoreStep, PTL DEF Spec

\* Every message of the connection is an event; those no longer held are the oldest and counted;
\* the last accepted one held tells the stream and its number; and while none was dropped, the
\* counters that a replay makes of the events differ from the live ones by what was counted before
\* the connection, by the sizes of gaps and by gaps recorded as resets, and by nothing else
\* (appendTelemetryEvent, applyReplayEvent).
THEOREM EventsExplainCounters == Spec => []EventsExplainTheCounters
<1>1. StoreInv => EventsExplainTheCounters
  <2> SUFFICES ASSUME StoreInv PROVE EventsExplainTheCounters OBVIOUS
  <2>1. DOMAIN eventStore = 1..Len(eventStore) BY LenProperties DEF StoreInv, StoreType
  <2>2. ASSUME NEW newest \in AcceptedEvents, \A i \in AcceptedEvents : i <= newest
        PROVE  eventStore[newest].packet.stream = activeStreamId /\ eventStore[newest].packet.g = last
    <3>1. newest \in 1..Len(eventStore) /\ IsLastAccepted(newest)
      BY <2>1, <2>2, Zenon DEF AcceptedEvents, IsLastAccepted
    <3>2. QED BY <3>1, Zenon DEF StoreInv, Newest
  <2>3. /\ Replayed.duplicates = EventsOf("DUPLICATE_REJECTED")
        /\ Replayed.outOfOrder = EventsOf("OUT_OF_ORDER_REJECTED")
        /\ Replayed.rejected = EventsOf("REJECTED")
        /\ Replayed.gaps = EventsOf("SEQUENCE_GAP_ACCEPTED")
        /\ Replayed.resets = EventsOf("SEQUENCE_RESET_ACCEPTED")
        /\ Replayed.switches = EventsOf("STREAM_SWITCH_ACCEPTED")
    BY DEF Replayed
  <2>4. /\ counts.packets + counts.rejected = latest /\ dropped + Len(eventStore) = latest
        /\ \A i \in DOMAIN eventStore : eventStore[i].number = dropped + i
    BY <2>1, Zenon DEF StoreInv, Numbered
  <2>5. dropped = 0 => Explained BY Zenon DEF StoreInv, Tally
  <2>6. QED BY <2>2, <2>3, <2>4, <2>5, Zenon DEF Explained, EventsExplainTheCounters
<1>2. QED BY <1>1, StoreAlways, PTL

-----------------------------------------------------------------------------
(*                               the types                                 *)

\* The variables of which the invariants above say nothing.
FrameType ==
    /\ connectionState \in {"OFFLINE", "CONNECTING", "CONNECTED", "RECONNECTING"}
    /\ activeStreamId \in Streams \cup {NULL}
    /\ sourceSequences \in [Sources -> SourceNumbers \cup {NULL}]
    /\ receipt \in {NULL, "recent", "old"} /\ stale \in BOOLEAN
    /\ messages \in 0..MaxMessages /\ opens \in 0..MaxOpens
    /\ from \in 0..MaxNumber /\ soakLoss \in BOOLEAN

LEMMA FrameInit == Init => FrameType
<1> SUFFICES ASSUME Init PROVE FrameType OBVIOUS
<1>1. 0 \in 0..MaxMessages /\ 0 \in 0..MaxOpens /\ 0 \in 0..MaxNumber BY SizesAssumption
<1>2. messages = 0 /\ opens = 0 /\ from = 0 BY DEF Init
<1>3. sourceSequences \in [Sources -> SourceNumbers \cup {NULL}] BY DEF Init
<1>4. QED BY <1>1, <1>2, <1>3 DEF Init, FrameType

LEMMA FrameStep == EpochInv /\ FrameType /\ [Next]_vars => FrameType'
<1> SUFFICES ASSUME EpochInv, FrameType, [Next]_vars PROVE FrameType' OBVIOUS
<1>0. MaxMessages \in Nat /\ MaxOpens \in Nat /\ MaxNumber \in Nat \ {0} BY SizesAssumption
<1>1. ASSUME Receive PROVE messages' \in 0..MaxMessages /\ connectionState = "CONNECTED"
  BY <1>0, <1>1 DEF Receive, FrameType
<1>2. CASE Reject
  <2>1. UNCHANGED <<connectionState, activeStreamId, sourceSequences, receipt, stale, opens, from, soakLoss>> /\ Receive
    BY <1>2, Zenon DEF Reject, stream, fresh, history
  <2>2. QED BY <1>1, <2>1 DEF FrameType
<1>3. ASSUME NEW p \in Packets, Duplicate(p) \/ OutOfOrder(p) PROVE FrameType'
  <2>1. UNCHANGED <<connectionState, activeStreamId, sourceSequences, receipt, stale, opens, from, soakLoss>> /\ Receive
    BY <1>3, Zenon DEF Duplicate, OutOfOrder, stream, fresh, history
  <2>2. QED BY <1>1, <2>1 DEF FrameType
<1>4. ASSUME NEW p \in Packets, Accept(p) PROVE FrameType'
  <2>1. p \in [stream: Streams, source: Sources, ssn: SourceNumbers, g: 1..MaxNumber] BY SizesAssumption
  <2>2. p.stream \in Streams /\ p.ssn \in SourceNumbers /\ p.g \in 1..MaxNumber BY <2>1
  <2>3. /\ connectionState' = connectionState /\ opens' = opens /\ Receive
        /\ activeStreamId' = p.stream /\ receipt' = "recent" /\ stale' = FALSE
    BY <1>4 DEF Accept
  <2>4. from' \in 0..MaxNumber
    <3>1. from' = p.g - 1 \/ from' = from BY <1>4 DEF Accept
    <3>2. p.g - 1 \in 0..MaxNumber BY <1>0, <2>2
    <3>3. QED BY <3>1, <3>2 DEF FrameType
  <2>5. soakLoss' \in BOOLEAN BY <1>4 DEF Accept
  <2>6. sourceSequences' \in [Sources -> SourceNumbers \cup {NULL}]
    <3>1. sourceSequences' = [s \in Sources |-> IF s = p.source THEN p.ssn
                                                ELSE IF IsSwitch(p) THEN NULL ELSE sourceSequences[s]]
      BY <1>4, Zenon DEF Accept
    <3>2. \A s \in Sources : sourceSequences[s] \in SourceNumbers \cup {NULL} BY DEF FrameType
    <3>3. QED BY <2>2, <3>1, <3>2
  <2>7. QED BY <1>1, <2>2, <2>3, <2>4, <2>5, <2>6 DEF FrameType
<1>5. CASE Opened
  <2>1. /\ connectionState' = "CONNECTED" /\ receipt' = NULL /\ stale' = TRUE /\ opens < MaxOpens /\ opens' = opens + 1
        /\ UNCHANGED <<activeStreamId, sourceSequences, messages, soakLoss>>
    BY <1>5, Zenon DEF Opened, ResetStream, stream
  <2>2. opens' \in 0..MaxOpens BY <1>0, <2>1 DEF FrameType
  <2>3. from' \in 0..MaxNumber
    <3>1. from' = IF last = NULL THEN 0 ELSE last BY <1>5 DEF Opened
    <3>2. last = NULL \/ last \in 1..MaxNumber BY LastOfEpoch DEF EpochInv, Remembered
    <3>3. QED BY <1>0, <3>1, <3>2
  <2>4. QED BY <2>1, <2>2, <2>3 DEF FrameType
<1>6. CASE Connect \/ Lost \/ Unmount
  <2>1. /\ UNCHANGED <<activeStreamId, sourceSequences, messages, opens, from, soakLoss>>
        /\ \E s \in {"OFFLINE", "CONNECTING", "RECONNECTING"} : SetConnectionState(s)
    BY <1>6, Zenon DEF Connect, Lost, Unmount, stream, history
  <2>2. receipt' = NULL /\ stale' \in BOOLEAN /\ connectionState' \in {"OFFLINE", "CONNECTING", "RECONNECTING"}
    BY <2>1 DEF SetConnectionState
  <2>3. QED BY <2>1, <2>2 DEF FrameType
<1>7. CASE StartSoak \/ ResetSoak \/ TargetTimePasses \/ Silence \/ AgeRegistry
  <2>1. UNCHANGED <<connectionState, activeStreamId, sourceSequences, messages, opens, from>>
    BY <1>7, Zenon DEF StartSoak, ResetSoak, TargetTimePasses, Silence, AgeRegistry, stream, history
  <2>2. receipt' \in {receipt, "old"} /\ soakLoss' \in {soakLoss, FALSE}
    BY <1>7 DEF StartSoak, ResetSoak, TargetTimePasses, Silence, AgeRegistry, fresh
  <2>3. stale' \in BOOLEAN
    BY <1>7 DEF StartSoak, ResetSoak, TargetTimePasses, Silence, AgeRegistry, fresh, FrameType
  <2>4. QED BY <2>1, <2>2, <2>3 DEF FrameType
<1>8. CASE UNCHANGED vars
  BY <1>8 DEF vars, stream, fresh, history, FrameType
<1>9. QED BY <1>2, <1>3, <1>4, <1>5, <1>6, <1>7, <1>8, Zenon DEF Next

(* Keys are triples of the fields' types. *)
LEMMA KeysAreTriples == Keys \subseteq Sources \X SourceNumbers \X (1..MaxNumber)
<1> SUFFICES ASSUME NEW p \in Packets PROVE Key(p) \in Sources \X SourceNumbers \X (1..MaxNumber)
  BY DEF Keys
<1>1. p \in [stream: Streams, source: Sources, ssn: SourceNumbers, g: 1..MaxNumber] BY SizesAssumption
<1>2. QED BY <1>1 DEF Key

LEMMA TypesTogether == EpochInv /\ ShownInv /\ GapInv /\ StoreInv /\ FrameType => TypeOK
<1> SUFFICES ASSUME EpochInv, ShownInv, GapInv, StoreInv, FrameType PROVE TypeOK OBVIOUS
<1>1. last \in (1..MaxNumber) \cup {NULL} BY LastOfEpoch DEF EpochInv, Remembered
<1>2. recentPacketKeys \in Seq(Sources \X SourceNumbers \X (1..MaxNumber))
  <2>1. recentPacketKeys \in [1..Len(recentPacketKeys) -> Keys] /\ Len(recentPacketKeys) \in Nat
    BY LenProperties DEF EpochInv, EpochType
  <2> DEFINE T == Sources \X SourceNumbers \X (1..MaxNumber)
  <2>2. Keys \subseteq T BY KeysAreTriples
  <2> HIDE DEF T
  <2>3. recentPacketKeys \in [1..Len(recentPacketKeys) -> T] BY <2>1, <2>2
  <2>4. recentPacketKeys \in Seq(T) BY <2>1, <2>3
  <2>5. QED BY <2>4 DEF T
<1>3. Len(recentPacketKeys) <= KeysKept
  <2>1. Len(recentPacketKeys) = Kept /\ Len(epoch) \in Nat /\ KeysKept \in Nat
    BY LenProperties, SizesAssumption DEF EpochInv, EpochType, Remembered
  <2>2. QED BY <2>1 DEF Kept
<1>4. counts \in [DOMAIN Zero -> Nat]
  <2>1. counts \in Counters BY DEF ShownInv, CountType
  <2>2. DOMAIN Zero = {"packets", "duplicates", "outOfOrder", "gaps", "resets", "switches", "rejected"} BY DEF Zero
  <2>3. QED BY <2>1, <2>2 DEF Counters
<1>5. /\ eventStore \in Seq([number: Nat, disposition: Dispositions, packet: Packets \cup {NULL}])
      /\ Len(eventStore) <= StoreSize /\ latest \in Nat /\ dropped \in Nat
  BY Zenon DEF StoreInv, StoreType, Event
<1>6. soak \in [target: BOOLEAN, reached: BOOLEAN, verdict: {"IN_PROGRESS", "FAIL", "WARNING", "PASS"}]
  BY Zenon DEF ShownInv, SoakType
<1>7. epoch \in Seq(Packets) /\ gapsBefore \in Nat /\ carried \in [resets: Nat, switches: Nat]
  BY Zenon DEF EpochInv, EpochType, GapInv, StoreInv, CarriedType
<1>8. QED BY <1>1, <1>2, <1>3, <1>4, <1>5, <1>6, <1>7, Zenon DEF FrameType, TypeOK

\* The store keeps its types, whatever arrives: its lists of keys and of events stay within
\* their limits (rememberPacketKey, appendBoundedEvent).
THEOREM StoreTypeCorrect == Spec => []TypeOK
<1>1. ShownInv => CountType BY DEF ShownInv
<1>2. Init => EpochInv /\ ShownInv /\ GapInv /\ StoreInv /\ FrameType
  BY EpochInit, ShownInit, GapInit, StoreInit, FrameInit
<1>3. EpochInv /\ ShownInv /\ GapInv /\ StoreInv /\ FrameType /\ [Next]_vars
        => (EpochInv /\ ShownInv /\ GapInv /\ StoreInv /\ FrameType)'
  BY <1>1, EpochStep, ShownStep, GapStep, StoreStep, FrameStep
<1>4. QED BY <1>2, <1>3, TypesTogether, PTL DEF Spec

=============================================================================
