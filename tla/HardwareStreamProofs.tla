------------------------ MODULE HardwareStreamProofs ------------------------
(***************************************************************************)
(* Machine-checked theorems about the hardware stream, for every set of    *)
(* clients, every queue size and every number of packets and failures.     *)
(***************************************************************************)
EXTENDS HardwareStream, SequenceTheorems, TLAPS

\* Each integrity packet counted as malformed has a number of its own.
CountInv == malformed <= gsn

\* Who subscribes has a queue; who has none has nothing in work.
ClientInv ==
    /\ \A c \in subscribers : queue[c] # NULL
    /\ \A c \in Clients : queue[c] = NULL => sent[c] = 0 /\ sending[c] = NULL

\* The first n numbers.
Numbers(n) == [i \in 1..n |-> i]

\* s increases and stays below m; s is the end of the first m numbers.
Ordered(s, m) ==
    /\ \A i \in 1..Len(s) : s[i] <= m
    /\ \A i, j \in 1..Len(s) : i < j => s[i] < s[j]
IsEnd(s, m) == Len(s) <= m /\ \A i \in 1..Len(s) : s[i] = (m - Len(s)) + i

\* SlowClientsLoseTheirOwn, with positions in place of the evidence itself.
OrderInv ==
    \A c \in subscribers :
        Ordered(Got(c), Len(evidence)) /\ (~lossy[c] => IsEnd(Got(c), Len(evidence)))

-----------------------------------------------------------------------------
(*                              typing                                     *)

LEMMA PacketStep == ASSUME TypeOK, gsn < MaxSeq PROVE gsn + 1 \in Packets
  BY SizesAssumption DEF TypeOK, Packets

LEMMA PutType ==
  ASSUME TypeOK, Put
  PROVE  gsn' \in 0..MaxSeq /\ source' \in Seq(Packets)
<1>1. gsn + 1 \in Packets /\ gsn' = gsn + 1 /\ source' = Append(source, gsn + 1)
  BY PacketStep DEF Put
<1>2. Append(source, gsn + 1) \in Seq(Packets)
  BY <1>1, AppendProperties DEF TypeOK
<1>3. gsn' \in 0..MaxSeq
  BY <1>1, SizesAssumption DEF Packets
<1>4. QED BY <1>1, <1>2, <1>3

LEMMA QueueNotNull == ASSUME NEW q \in Seq(Packets) PROVE q # NULL
<1>1. Packets \subseteq Nat BY DEF Packets
<1>2. q \in Seq(Nat) BY <1>1, SeqMonotonic, Zenon
<1>3. QED BY <1>2, NullAssumption, Zenon

(* What a broadcast does to one queue. *)
LEMMA BroadcastType ==
  ASSUME TypeOK, ClientInv, NEW n \in Packets, Broadcast(n)
  PROVE  /\ queue' \in [Clients -> {NULL} \cup Seq(Packets)]
         /\ \A c \in Clients : queue'[c] # NULL => Len(queue'[c]) <= QueueSize
         /\ \A c \in Clients : queue[c] # NULL <=> queue'[c] # NULL
         /\ lossy' \in [Clients -> BOOLEAN]
<1>1. \A c \in Clients : queue[c] # NULL => queue[c] \in Seq(Packets)
  BY DEF TypeOK
<1>2. \A c \in Clients : /\ c \in subscribers /\ HasRoom(c) => queue'[c] = Append(queue[c], n)
                         /\ ~(c \in subscribers /\ HasRoom(c)) => queue'[c] = queue[c]
  BY DEF Broadcast
<1>3. DOMAIN queue' = Clients /\ queue' = [c \in Clients |-> queue'[c]]
  BY DEF Broadcast
<1>4. ASSUME NEW c \in Clients, c \in subscribers, HasRoom(c)
      PROVE  /\ queue'[c] \in Seq(Packets) /\ Len(queue'[c]) <= QueueSize
             /\ queue'[c] # NULL
  <2>1. queue[c] \in Seq(Packets)
    BY <1>1, <1>4 DEF ClientInv
  <2>2. queue'[c] = Append(queue[c], n) BY <1>2, <1>4
  <2>3. Append(queue[c], n) \in Seq(Packets) /\ Len(Append(queue[c], n)) = Len(queue[c]) + 1
    BY <2>1, AppendProperties
  <2>4. Len(queue[c]) \in Nat BY <2>1, LenProperties
  <2>5. queue'[c] \in Seq(Packets) /\ queue'[c] # NULL
    BY <2>2, <2>3, QueueNotNull, Zenon
  <2>6. QED BY <2>2, <2>3, <2>4, <2>5, <1>4, SizesAssumption DEF HasRoom
<1>5. \A c \in Clients : queue'[c] \in {NULL} \cup Seq(Packets)
  BY <1>2, <1>4 DEF TypeOK
<1>6. \A c \in Clients : queue'[c] # NULL => Len(queue'[c]) <= QueueSize
  BY <1>2, <1>4 DEF TypeOK
<1>7. \A c \in Clients : queue[c] # NULL <=> queue'[c] # NULL
  BY <1>2, <1>4 DEF ClientInv
<1>8. lossy' \in [Clients -> BOOLEAN]
  BY DEF Broadcast, TypeOK
<1>9. QED BY <1>3, <1>5, <1>6, <1>7, <1>8

TypesInv == TypeOK /\ CountInv /\ ClientInv

LEMMA PublishTypes ==
  ASSUME TypesInv, NEW n \in Packets, Publish(n)
  PROVE  /\ evidence' \in Seq(Packets)
         /\ queue' \in [Clients -> {NULL} \cup Seq(Packets)]
         /\ \A c \in Clients : queue'[c] # NULL => Len(queue'[c]) <= QueueSize
         /\ UNCHANGED <<subscribers, sending, sent>>
         /\ lossy' \in [Clients -> BOOLEAN]
         /\ ClientInv'
<1>1. evidence' \in Seq(Packets)
  BY AppendProperties DEF TypesInv, TypeOK, Publish
<1>2. Broadcast(n) /\ UNCHANGED <<subscribers, sending, sent>>
  BY DEF Publish, Broadcast
<1>3. subscribers \subseteq Clients BY DEF TypesInv, TypeOK
<1>4. \A c \in Clients : queue[c] # NULL <=> queue'[c] # NULL
  BY <1>2, BroadcastType DEF TypesInv
<1>5. ClientInv'
  BY <1>2, <1>3, <1>4 DEF TypesInv, ClientInv
<1>6. QED BY <1>1, <1>2, <1>5, BroadcastType DEF TypesInv

LEMMA TypesInit == Init => TypesInv
<1> SUFFICES ASSUME Init PROVE TypesInv OBVIOUS
<1>1. <<>> \in Seq(Packets) BY EmptySeq
<1>2. evidence \in Seq(Packets) /\ source \in Seq(Packets) BY <1>1, Zenon DEF Init
<1>3. lossy \in [Clients -> BOOLEAN] BY Zenon DEF Init
<1>4. /\ queue \in [Clients -> {NULL} \cup Seq(Packets)]
      /\ \A c \in Clients : queue[c] # NULL => Len(queue[c]) <= QueueSize
      /\ sending \in [Clients -> {NULL} \cup Packets]
  BY DEF Init
<1>5. /\ failures \in 0..MaxFailures /\ malformed \in 0..MaxSeq /\ gsn \in 0..MaxSeq
      /\ sent \in [Clients -> 0..MaxSeq]
  BY SizesAssumption DEF Init
<1>6. TypeOK BY <1>2, <1>3, <1>4, <1>5, Zenon DEF Init, TypeOK
<1>7. CountInv /\ ClientInv BY DEF Init, CountInv, ClientInv
<1>8. QED BY <1>6, <1>7 DEF TypesInv

LEMMA BridgeTypes == TypesInv /\ Bridge => TypesInv'
<1> SUFFICES ASSUME TypesInv, Bridge PROVE TypesInv' OBVIOUS
<1> USE DEF TypesInv, TypeOK, CountInv, ClientInv, clients
<1>1. CASE Open        BY <1>1 DEF Open, SetStatus
<1>2. CASE OpenFails   BY <1>2 DEF OpenFails, SetStatus
<1>3. CASE Settle      BY <1>3 DEF Settle, state
<1>4. CASE ReadNothing BY <1>4 DEF ReadNothing, SetStatus
<1>5. CASE ReadRejected
  <2>1. Put /\ malformed' = malformed + 1 /\ gsn' = gsn + 1 BY <1>5 DEF ReadRejected, EmitRejection, Put
  <2>2. gsn' \in 0..MaxSeq /\ source' \in Seq(Packets) BY <2>1, PutType
  <2>3. malformed' \in 0..MaxSeq /\ CountInv' BY <2>1, <2>2, SizesAssumption
  <2>4. QED BY <1>5, <2>2, <2>3 DEF ReadRejected
<1>6. CASE ReadPacket
  <2>1. Put /\ gsn' = gsn + 1 BY <1>6 DEF ReadPacket, Put
  <2>2. gsn' \in 0..MaxSeq /\ source' \in Seq(Packets) BY <2>1, PutType
  <2>3. QED BY <1>6, <2>1, <2>2, SizesAssumption DEF ReadPacket, SetStatus
<1>7. CASE ReadFails
  <2>1. Put /\ gsn' = gsn + 1 BY <1>7 DEF ReadFails, Put
  <2>2. gsn' \in 0..MaxSeq /\ source' \in Seq(Packets) BY <2>1, PutType
  <2>3. failures' \in 0..MaxFailures BY <1>7, SizesAssumption DEF ReadFails
  <2>4. CountInv' BY <1>7, <2>1, SizesAssumption DEF ReadFails
  <2>5. QED BY <1>7, <2>2, <2>3, <2>4 DEF ReadFails, SetStatus
<1>8. CASE Resume      BY <1>8 DEF Resume, state
<1>9. CASE StopBridge  BY <1>9 DEF StopBridge, SetStatus
<1>10. CASE ReadRaises BY <1>10 DEF ReadRaises, state
<1>11. QED BY <1>1, <1>2, <1>3, <1>4, <1>5, <1>6, <1>7, <1>8, <1>9, <1>10 DEF Bridge

LEMMA ManagerTypes == TypesInv /\ Manager => TypesInv'
<1> SUFFICES ASSUME TypesInv, Manager PROVE TypesInv' OBVIOUS
<1>1. CASE ForwardPacket
  <2>1. source \in Seq(Packets) /\ source # <<>> BY <1>1 DEF ForwardPacket, TypesInv, TypeOK
  <2>2. Head(source) \in Packets /\ Tail(source) \in Seq(Packets) BY <2>1, HeadTailProperties
  <2>3. Publish(Head(source)) BY <1>1 DEF ForwardPacket
  <2>4. source' \in Seq(Packets) BY <1>1, <2>2 DEF ForwardPacket
  <2>5. UNCHANGED <<bridge, failures, state, gsn, manager, healthDue>> BY <1>1 DEF ForwardPacket
  <2>6. TypeOK' BY <2>2, <2>3, <2>4, <2>5, PublishTypes DEF TypesInv, TypeOK, state
  <2>7. CountInv' BY <2>5 DEF TypesInv, CountInv, state
  <2>8. QED BY <2>2, <2>3, <2>6, <2>7, PublishTypes DEF TypesInv
<1>2. CASE SendHealth
  <2>1. gsn + 1 \in Packets BY <1>2, PacketStep DEF SendHealth, TypesInv
  <2>2. Publish(gsn + 1) /\ gsn' = gsn + 1 /\ healthDue' = FALSE
    BY <1>2 DEF SendHealth
  <2>3. UNCHANGED <<bridge, failures, state, source, manager>> BY <1>2 DEF SendHealth
  <2>4. gsn' \in 0..MaxSeq BY <2>1, <2>2, SizesAssumption DEF Packets
  <2>5. TypeOK' BY <2>1, <2>2, <2>3, <2>4, PublishTypes DEF TypesInv, TypeOK, state
  <2>6. CountInv' BY <2>2, <2>3 DEF TypesInv, TypeOK, CountInv, state
  <2>7. QED BY <2>1, <2>2, <2>5, <2>6, PublishTypes DEF TypesInv
<1>3. CASE HealthTimer BY <1>3 DEF HealthTimer, TypesInv, TypeOK, CountInv, ClientInv, state, clients
<1>4. CASE StopManager BY <1>4 DEF StopManager, TypesInv, TypeOK, CountInv, ClientInv, state
<1>5. QED BY <1>1, <1>2, <1>3, <1>4 DEF Manager

LEMMA ClientTypes == ASSUME TypesInv, NEW c \in Clients, Client(c) PROVE TypesInv'
<1> USE DEF TypesInv, TypeOK, CountInv, ClientInv, state
<1>1. CASE Subscribe(c)
  <2>1. <<>> \in Seq(Packets) /\ Len(<<>>) = 0 BY EmptySeq, Zenon
  <2>2. <<>> # NULL BY <2>1, QueueNotNull, Zenon
  <2>3. QED BY <1>1, <2>1, <2>2, SizesAssumption DEF Subscribe
<1>2. CASE StartSend(c)
  <2>1. queue[c] \in Seq(Packets) /\ queue[c] # <<>> BY <1>2 DEF StartSend
  <2>2. /\ Head(queue[c]) \in Packets /\ Tail(queue[c]) \in Seq(Packets)
        /\ Len(Tail(queue[c])) = Len(queue[c]) - 1 /\ Len(queue[c]) \in Nat
    BY <2>1, HeadTailProperties, LenProperties
  <2>3. Tail(queue[c]) # NULL BY <2>2, QueueNotNull
  <2>4. Len(Tail(queue[c])) <= QueueSize BY <2>2, <1>2, SizesAssumption DEF StartSend
  <2>5. QED BY <1>2, <2>2, <2>3, <2>4 DEF StartSend
<1>3. CASE EndSend(c)
  <2>1. sending[c] \in Packets BY <1>3 DEF EndSend
  <2>2. sending[c] \in 0..MaxSeq BY <2>1, SizesAssumption DEF Packets
  <2>3. QED BY <1>3, <2>2 DEF EndSend
<1>4. CASE Unsubscribe(c) BY <1>4, SizesAssumption DEF Unsubscribe
<1>5. QED BY <1>1, <1>2, <1>3, <1>4 DEF Client

LEMMA TypesStep == TypesInv /\ [Next]_vars => TypesInv'
<1> SUFFICES ASSUME TypesInv, [Next]_vars PROVE TypesInv' OBVIOUS
<1>1. CASE UNCHANGED vars
  BY <1>1 DEF vars, state, clients, TypesInv, TypeOK, CountInv, ClientInv
<1>2. QED BY <1>1, BridgeTypes, ManagerTypes, ClientTypes DEF Next

LEMMA TypesAlways == Spec => []TypesInv
  BY TypesInit, TypesStep, PTL DEF Spec

\* Every variable keeps its type: in particular no subscriber's queue exceeds its limit, and
\* only a queue that exists is filled (hardware_stream_manager.py _broadcast, subscribe).
THEOREM StreamTypeCorrect == Spec => []TypeOK
<1>1. TypesInv => TypeOK BY DEF TypesInv
<1>2. QED BY <1>1, TypesAlways, PTL

-----------------------------------------------------------------------------
(*                         the stream in order                             *)

LEMMA NumbersSeq ==
  ASSUME NEW n \in Nat
  PROVE  Numbers(n) \in Seq(Nat) /\ Len(Numbers(n)) = n /\ \A i \in 1..n : Numbers(n)[i] = i
  BY DEF Numbers

LEMMA PacketSeqs ==
  ASSUME TypeOK
  PROVE  evidence \in Seq(Nat) /\ source \in Seq(Nat) /\ gsn \in Nat
<1>1. Packets \subseteq Nat BY DEF Packets
<1>2. evidence \in Seq(Packets) /\ source \in Seq(Packets) BY DEF TypeOK
<1>3. evidence \in Seq(Nat) /\ source \in Seq(Nat) BY <1>1, <1>2, SeqMonotonic
<1>4. QED BY <1>3, SizesAssumption DEF TypeOK

(* The evidence is the first numbers itself. *)
LEMMA EvidenceNumbers ==
  ASSUME TypeOK, EvidenceIsTheStream
  PROVE  /\ Len(evidence) \in Nat /\ Len(evidence) + Len(source) = gsn
         /\ \A i \in 1..Len(evidence) : evidence[i] = i
         /\ source # <<>> => Head(source) = Len(evidence) + 1
<1> USE PacketSeqs
<1>1. evidence \o source = Numbers(gsn) BY DEF EvidenceIsTheStream, Numbers
<1>2. /\ Len(evidence \o source) = Len(evidence) + Len(source)
      /\ \A i \in 1..(Len(evidence) + Len(source)) : (evidence \o source)[i] =
            IF i <= Len(evidence) THEN evidence[i] ELSE source[i - Len(evidence)]
  BY ConcatProperties
<1>3. Len(evidence) \in Nat /\ Len(source) \in Nat BY LenProperties
<1>4. Len(evidence) + Len(source) = gsn BY <1>1, <1>2, NumbersSeq
<1>5. \A i \in 1..gsn : (evidence \o source)[i] = i BY <1>1, NumbersSeq
<1>6. \A i \in 1..Len(evidence) : evidence[i] = i BY <1>2, <1>3, <1>4, <1>5
<1>7. ASSUME source # <<>> PROVE Head(source) = Len(evidence) + 1
  <2>1. Len(source) > 0 BY <1>7, <1>3, EmptySeq
  <2>2. Len(evidence) + 1 \in 1..gsn BY <2>1, <1>3, <1>4
  <2>3. source[1] = Len(evidence) + 1 BY <2>2, <1>2, <1>3, <1>4, <1>5
  <2>4. QED BY <2>1, <2>3
<1>8. QED BY <1>3, <1>4, <1>6, <1>7

LEMMA PutStream ==
  ASSUME TypeOK, EvidenceIsTheStream, Put, UNCHANGED evidence
  PROVE  EvidenceIsTheStream'
<1> USE PacketSeqs
<1> DEFINE x == gsn + 1
<1>1. x \in Nat /\ gsn' = x /\ source' = Append(source, x) /\ evidence' = evidence BY DEF Put
<1>2. Append(source, x) = source \o <<x>> /\ <<x>> \in Seq(Nat) BY <1>1, AppendIsConcat
<1>3. evidence \o Append(source, x) = (evidence \o source) \o <<x>>
  BY <1>2, ConcatAssociative
<1>4. evidence \o source = Numbers(gsn) BY DEF EvidenceIsTheStream, Numbers
<1>5. Numbers(gsn) \o <<x>> = Append(Numbers(gsn), x) BY <1>1, NumbersSeq, AppendIsConcat
<1>6. Append(Numbers(gsn), x) = Numbers(x)
  <2> DEFINE s == Numbers(gsn)
  <2> s \in Seq(Nat) /\ Len(s) = gsn /\ \A i \in 1..gsn : s[i] = i BY NumbersSeq
  <2> HIDE DEF s
  <2>1. /\ Append(s, x) \in Seq(Nat) /\ Len(Append(s, x)) = gsn + 1
        /\ \A i \in 1..gsn : Append(s, x)[i] = i
        /\ Append(s, x)[gsn + 1] = x
    BY <1>1, AppendProperties
  <2>2. Numbers(x) \in Seq(Nat) /\ Len(Numbers(x)) = x /\ \A i \in 1..x : Numbers(x)[i] = i
    BY <1>1, NumbersSeq
  <2>3. \A i \in 1..x : Append(s, x)[i] = Numbers(x)[i] BY <2>1, <2>2
  <2>4. Append(s, x) = Numbers(x) BY <2>1, <2>2, <2>3, SeqEqual
  <2>5. QED BY <2>4 DEF s
<1>7. QED BY <1>1, <1>3, <1>4, <1>5, <1>6 DEF EvidenceIsTheStream, Numbers

(* One more number at the end of the evidence, taken from the queue or drawn while it is empty. *)
LEMMA ForwardStream ==
  ASSUME TypeOK, EvidenceIsTheStream, ForwardPacket
  PROVE  EvidenceIsTheStream'
<1> USE PacketSeqs
<1>1. source # <<>> /\ source' = Tail(source) /\ evidence' = Append(evidence, Head(source)) /\ gsn' = gsn
  BY DEF ForwardPacket, Publish
<1>2. Head(source) \in Nat /\ Tail(source) \in Seq(Nat) /\ <<Head(source)>> \in Seq(Nat)
  BY <1>1, HeadTailProperties
<1>3. source = <<Head(source)>> \o Tail(source)
  BY <1>1, <1>2, HeadTailProperties, ConcatProperties, SeqEqual
<1>4. Append(evidence, Head(source)) = evidence \o <<Head(source)>> BY <1>2, AppendIsConcat
<1>5. (evidence \o <<Head(source)>>) \o Tail(source) = evidence \o (<<Head(source)>> \o Tail(source))
  BY <1>2, ConcatAssociative
<1>6. evidence' \o source' = evidence \o source BY <1>1, <1>3, <1>4, <1>5
<1>7. QED BY <1>1, <1>6 DEF EvidenceIsTheStream

LEMMA HealthStream ==
  ASSUME TypeOK, EvidenceIsTheStream, SendHealth
  PROVE  EvidenceIsTheStream'
<1> USE PacketSeqs
<1>1. /\ source = <<>> /\ source' = <<>> /\ gsn' = gsn + 1 /\ gsn + 1 \in Nat
      /\ evidence' = Append(evidence, gsn + 1)
  BY DEF SendHealth, QueueIdle, Publish
<1>2. evidence = Numbers(gsn)
  <2>1. evidence \o <<>> = evidence BY ConcatEmptySeq
  <2>2. QED BY <1>1, <2>1 DEF EvidenceIsTheStream, Numbers
<1> DEFINE e == evidence'
<1>3. /\ e \in Seq(Nat) /\ Len(e) = gsn + 1
      /\ \A i \in 1..gsn : e[i] = i
      /\ e[gsn + 1] = gsn + 1
  <2>1. Len(evidence) = gsn /\ \A i \in 1..gsn : evidence[i] = i BY <1>2, NumbersSeq
  <2>2. QED BY <1>1, <2>1, AppendProperties
<1>4. e = Numbers(gsn + 1)
  <2>1. /\ Numbers(gsn + 1) \in Seq(Nat) /\ Len(Numbers(gsn + 1)) = gsn + 1
        /\ \A i \in 1..(gsn + 1) : Numbers(gsn + 1)[i] = i
    BY <1>1, NumbersSeq
  <2>2. \A i \in 1..(gsn + 1) : e[i] = Numbers(gsn + 1)[i] BY <1>3, <2>1
  <2>3. QED BY <1>3, <2>1, <2>2, SeqEqual
<1>5. e \o <<>> = e BY <1>3, ConcatEmptySeq
<1>6. QED BY <1>1, <1>4, <1>5 DEF EvidenceIsTheStream, Numbers

LEMMA StreamStep ==
  ASSUME TypeOK, EvidenceIsTheStream, [Next]_vars
  PROVE  EvidenceIsTheStream'
<1>1. CASE UNCHANGED <<evidence, source, gsn>> BY <1>1 DEF EvidenceIsTheStream
<1>2. CASE Put /\ UNCHANGED evidence BY <1>2, PutStream
<1>3. CASE Bridge
  BY <1>1, <1>2, <1>3
     DEF Bridge, Open, OpenFails, Settle, ReadNothing, ReadRejected, EmitRejection, ReadRaises, ReadPacket,
         ReadFails, Resume, StopBridge
<1>4. CASE Manager
  BY <1>1, <1>4, ForwardStream, HealthStream DEF Manager, HealthTimer, StopManager
<1>5. ASSUME NEW c \in Clients, Client(c) PROVE EvidenceIsTheStream'
  BY <1>1, <1>5 DEF Client, Subscribe, StartSend, EndSend, Unsubscribe
<1>6. CASE UNCHANGED vars BY <1>1, <1>6 DEF vars
<1>7. QED BY <1>3, <1>4, <1>5, <1>6 DEF Next

LEMMA StreamInit == Init => EvidenceIsTheStream
<1> SUFFICES ASSUME Init PROVE EvidenceIsTheStream OBVIOUS
<1>1. evidence = <<>> /\ source = <<>> /\ gsn = 0 BY DEF Init
<1>2. <<>> \o <<>> = <<>> BY EmptySeq, ConcatEmptySeq
<1>3. [i \in 1..0 |-> i] = <<>> OBVIOUS
<1>4. QED BY <1>1, <1>2, <1>3 DEF EvidenceIsTheStream

\* What the evidence writer was offered, followed by what is still queued, is the stream 1, 2, 3, ...
\* although the bridge and the manager both number packets.
THEOREM EvidenceInOrder == Spec => []EvidenceIsTheStream
<1>1. TypesInv => TypeOK BY DEF TypesInv
<1>2. EvidenceIsTheStream /\ TypesInv /\ [Next]_vars => EvidenceIsTheStream' BY <1>1, StreamStep
<1>3. QED BY <1>2, StreamInit, TypesAlways, PTL DEF Spec

\* The bridge's status never outlives the port: after a failed read, a failed open or a stop
\* a clock request is refused until a line has been read (SerialBridge._run, stop).  Only the
\* death of the read task leaves it as it was.
THEOREM NeverConnectedInVain == Spec => []ConnectedMeansReadable
<1>1. Init => ConnectedMeansReadable BY DEF Init, ConnectedMeansReadable
<1>2. ConnectedMeansReadable /\ [Next]_vars => ConnectedMeansReadable'
  <2> SUFFICES ASSUME ConnectedMeansReadable, [Next]_vars PROVE ConnectedMeansReadable' OBVIOUS
  <2>1. CASE Bridge
    BY <2>1, Zenon
       DEF Bridge, Open, OpenFails, Settle, ReadNothing, ReadRejected, EmitRejection, ReadRaises, ReadPacket,
           ReadFails, Resume, StopBridge,
           SetStatus, state, ConnectedMeansReadable
  <2>2. CASE UNCHANGED <<connected, bridge>> BY <2>2 DEF ConnectedMeansReadable
  <2>3. CASE Manager
    BY <2>2, <2>3 DEF Manager, ForwardPacket, SendHealth, HealthTimer, StopManager, state
  <2>4. ASSUME NEW c \in Clients, Client(c) PROVE ConnectedMeansReadable'
    BY <2>2, <2>4 DEF Client, Subscribe, StartSend, EndSend, Unsubscribe, state
  <2>5. QED BY <2>1, <2>2, <2>3, <2>4 DEF Next, vars, state
<1>3. QED BY <1>1, <1>2, PTL DEF Spec

-----------------------------------------------------------------------------
(*                     slow clients lose their own                         *)

(* The three parts of what a client got. *)
SentPart(c) == IF sent[c] = 0 THEN <<>> ELSE <<sent[c]>>
SendingPart(c) == IF sending[c] = NULL THEN <<>> ELSE <<sending[c]>>

LEMMA GotParts ==
  ASSUME TypeOK, NEW c \in Clients, queue[c] # NULL
  PROVE  /\ SentPart(c) \in Seq(Nat) /\ SendingPart(c) \in Seq(Nat) /\ queue[c] \in Seq(Nat)
         /\ SentPart(c) \o SendingPart(c) \in Seq(Nat)
         /\ Got(c) = (SentPart(c) \o SendingPart(c)) \o queue[c]
         /\ Got(c) \in Seq(Nat)
<1>1. Packets \subseteq Nat BY DEF Packets
<1>2. queue[c] \in Seq(Packets) BY DEF TypeOK
<1>3. queue[c] \in Seq(Nat) BY <1>1, <1>2, SeqMonotonic
<1>4. sent[c] \in Nat BY SizesAssumption DEF TypeOK
<1>5. SentPart(c) \in Seq(Nat) BY <1>4, EmptySeq DEF SentPart
<1>6. sending[c] # NULL => sending[c] \in Nat BY <1>1 DEF TypeOK
<1>7. SendingPart(c) \in Seq(Nat) BY <1>6, EmptySeq DEF SendingPart
<1>8. SentPart(c) \o SendingPart(c) \in Seq(Nat) BY <1>5, <1>7, ConcatProperties
<1>9. Got(c) = (SentPart(c) \o SendingPart(c)) \o queue[c]
  BY DEF Got, SentPart, SendingPart
<1>10. Got(c) \in Seq(Nat) BY <1>3, <1>8, <1>9, ConcatProperties
<1>11. QED BY <1>3, <1>5, <1>7, <1>8, <1>9, <1>10

(* Appending the next number keeps the order, and keeps an end an end; taking the first away does too. *)
LEMMA AppendOrder ==
  ASSUME NEW m \in Nat, NEW s \in Seq(Nat), Ordered(s, m)
  PROVE  /\ Ordered(Append(s, m + 1), m + 1)
         /\ IsEnd(s, m) => IsEnd(Append(s, m + 1), m + 1)
<1> DEFINE t == Append(s, m + 1)
<1>1. /\ Len(s) \in Nat /\ Len(t) = Len(s) + 1
      /\ \A i \in 1..Len(s) : t[i] = s[i] /\ s[i] \in Nat
      /\ t[Len(s) + 1] = m + 1
  BY LenProperties, AppendProperties, ElementOfSeq
<1> HIDE DEF t
<1>2. Ordered(t, m + 1)
  <2>1. \A i \in 1..Len(t) : i \in 1..Len(s) \/ i = Len(s) + 1 BY <1>1
  <2>2. \A i \in 1..Len(s) : t[i] \in Nat /\ t[i] <= m BY <1>1 DEF Ordered
  <2>3. \A i \in 1..Len(t) : t[i] <= m + 1 BY <1>1, <2>1, <2>2
  <2>4. ASSUME NEW i \in 1..Len(t), NEW j \in 1..Len(t), i < j PROVE t[i] < t[j]
    <3>1. i \in 1..Len(s) BY <1>1, <2>4
    <3>2. CASE j = Len(s) + 1
      <4>1. t[j] = m + 1 /\ t[i] \in Nat /\ t[i] <= m BY <1>1, <2>2, <3>1, <3>2
      <4>2. QED BY <4>1
    <3>3. CASE j \in 1..Len(s)
      <4>1. s[i] < s[j] BY <2>4, <3>1, <3>3 DEF Ordered
      <4>2. QED BY <1>1, <3>1, <3>3, <4>1
    <3>4. QED BY <2>1, <3>2, <3>3
  <2>5. QED BY <2>3, <2>4 DEF Ordered
<1>3. ASSUME IsEnd(s, m) PROVE IsEnd(t, m + 1) BY <1>1, <1>3 DEF IsEnd
<1>4. QED BY <1>2, <1>3 DEF t

LEMMA TailOrder ==
  ASSUME NEW m \in Nat, NEW s \in Seq(Nat), s # <<>>, Ordered(s, m)
  PROVE  /\ Ordered(Tail(s), m)
         /\ IsEnd(s, m) => IsEnd(Tail(s), m)
<1> DEFINE t == Tail(s)
<1>1. /\ Len(s) \in Nat \ {0} /\ Len(t) = Len(s) - 1
      /\ \A i \in 1..Len(t) : t[i] = s[i + 1]
  BY EmptySeq, HeadTailProperties
<1> HIDE DEF t
<1>2. Ordered(t, m)
  <2>1. \A i \in 1..Len(t) : i + 1 \in 1..Len(s) BY <1>1
  <2>2. \A i \in 1..Len(t) : t[i] <= m BY <1>1, <2>1 DEF Ordered
  <2>3. ASSUME NEW i \in 1..Len(t), NEW j \in 1..Len(t), i < j PROVE t[i] < t[j]
    <3>1. i + 1 \in 1..Len(s) /\ j + 1 \in 1..Len(s) /\ i + 1 < j + 1 BY <2>1, <2>3
    <3>2. s[i + 1] < s[j + 1] BY <3>1 DEF Ordered
    <3>3. QED BY <1>1, <3>2
  <2>4. QED BY <2>2, <2>3 DEF Ordered
<1>3. ASSUME IsEnd(s, m) PROVE IsEnd(t, m) BY <1>1, <1>3 DEF IsEnd
<1>4. QED BY <1>2, <1>3 DEF t

LEMMA OrderMonotone ==
  ASSUME NEW m \in Nat, NEW s \in Seq(Nat), Ordered(s, m)
  PROVE  Ordered(s, m + 1)
<1>1. \A i \in 1..Len(s) : s[i] \in Nat BY ElementOfSeq
<1>2. QED BY <1>1 DEF Ordered

(* A packet with the next number reaches every subscriber that has room. *)
LEMMA PublishOrder ==
  ASSUME TypesInv, OrderInv, NEW n \in Packets, Len(evidence) \in Nat, n = Len(evidence) + 1, Publish(n)
  PROVE  OrderInv'
<1>1. /\ Broadcast(n) /\ UNCHANGED <<subscribers, sending, sent>>
      /\ evidence' = Append(evidence, n)
  BY DEF Publish, Broadcast
<1>2. Len(evidence') = n BY <1>1, AppendProperties DEF TypesInv, TypeOK
<1> SUFFICES ASSUME NEW c \in subscribers, c \in Clients
             PROVE  Ordered(Got(c)', n) /\ (~lossy'[c] => IsEnd(Got(c)', n))
  BY <1>1, <1>2 DEF OrderInv, TypesInv, TypeOK
<1>3. /\ Ordered(Got(c), Len(evidence))
      /\ ~lossy[c] => IsEnd(Got(c), Len(evidence))
  BY DEF OrderInv
<1>4. TypeOK /\ queue[c] # NULL BY DEF TypesInv, ClientInv
<1>5. Got(c)' = (SentPart(c) \o SendingPart(c)) \o queue'[c]
  BY <1>1 DEF Got, SentPart, SendingPart
<1>6. CASE HasRoom(c)
  <2>1. queue'[c] = Append(queue[c], n) /\ lossy'[c] = lossy[c]
    BY <1>1, <1>6 DEF Broadcast, TypesInv, TypeOK
  <2>2. n \in Nat BY DEF Packets
  <2>3. Append(queue[c], n) = queue[c] \o <<n>> /\ <<n>> \in Seq(Nat)
    BY <1>4, <2>2, GotParts, AppendIsConcat
  <2> DEFINE front == SentPart(c) \o SendingPart(c)
  <2>4. front \o (queue[c] \o <<n>>) = Got(c) \o <<n>>
    <3>1. front \in Seq(Nat) /\ queue[c] \in Seq(Nat) /\ Got(c) = front \o queue[c]
      BY <1>4, GotParts
    <3> DEFINE one == <<n>>
               q == queue[c]
    <3>2. front \in Seq(Nat) /\ one \in Seq(Nat) /\ q \in Seq(Nat) BY <2>3, <3>1
    <3> HIDE DEF front, one, q
    <3>3. (front \o q) \o one = front \o (q \o one) BY <3>2, ConcatAssociative
    <3>4. QED BY <3>1, <3>3 DEF one, q
  <2>5. Got(c) \o <<n>> = Append(Got(c), n) BY <1>4, <2>2, GotParts, AppendIsConcat
  <2>6. Got(c)' = Append(Got(c), n) BY <1>5, <2>1, <2>3, <2>4, <2>5
  <2>7. Got(c) \in Seq(Nat) BY <1>4, GotParts
  <2>8. QED BY <1>3, <2>1, <2>6, <2>7, AppendOrder
<1>7. CASE ~HasRoom(c)
  <2>1. queue'[c] = queue[c] /\ lossy'[c]
    BY <1>1, <1>7 DEF Broadcast, TypesInv, TypeOK
  <2>2. Got(c)' = Got(c) /\ Got(c) \in Seq(Nat) BY <1>4, <1>5, <2>1, GotParts
  <2>3. QED BY <1>3, <2>1, <2>2, OrderMonotone
<1>8. QED BY <1>6, <1>7

(* What a client's own step does to it: nothing, or the oldest packet leaves the history. *)
LEMMA EndSendGot ==
  ASSUME TypesInv, NEW c \in Clients, EndSend(c)
  PROVE  Got(c)' = Got(c) \/ (Got(c) # <<>> /\ Got(c)' = Tail(Got(c)))
<1> DEFINE x == sending[c]
           q == queue[c]
<1>1. TypeOK /\ x # NULL /\ q # NULL BY DEF EndSend, TypesInv, ClientInv
<1>2. x \in Packets BY <1>1 DEF TypeOK
<1>3. x \in Nat \ {0} BY <1>2 DEF Packets
<1>4. sent'[c] = x /\ sending'[c] = NULL /\ queue' = queue
  BY DEF EndSend, TypesInv, TypeOK
<1>5. q \in Seq(Nat) /\ <<x>> \in Seq(Nat)
  <2>1. q \in Seq(Nat) BY <1>1, GotParts
  <2>2. <<x>> \in Seq(Nat) BY <1>3
  <2>3. QED BY <2>1, <2>2
<1>6. Got(c)' = (<<x>> \o <<>>) \o q BY <1>3, <1>4 DEF Got
<1>7. Got(c)' = <<x>> \o q BY <1>5, <1>6, ConcatEmptySeq
<1>8. CASE sent[c] = 0
  <2>1. Got(c) = (<<>> \o <<x>>) \o q BY <1>1, <1>8 DEF Got
  <2>2. QED BY <1>5, <1>7, <2>1, ConcatEmptySeq
<1>9. CASE sent[c] # 0
  <2> DEFINE y == sent[c]
  <2>1. y \in Nat /\ <<y>> \in Seq(Nat) BY SizesAssumption, <1>1 DEF TypeOK
  <2>2. Got(c) = (<<y>> \o <<x>>) \o q BY <1>1, <1>9 DEF Got
  <2>3. Got(c) = <<y>> \o (<<x>> \o q) BY <1>5, <2>1, <2>2, ConcatAssociative
  <2> DEFINE r == <<x>> \o q
  <2>4. r \in Seq(Nat) BY <1>5, ConcatProperties
  <2> HIDE DEF r
  <2>5. <<y>> \o r # <<>> /\ Tail(<<y>> \o r) = r
    <3>1. /\ <<y>> \o r \in Seq(Nat) /\ Len(<<y>> \o r) = 1 + Len(r) /\ Len(r) \in Nat
          /\ \A i \in 1..(1 + Len(r)) : (<<y>> \o r)[i] = IF i <= 1 THEN <<y>>[i] ELSE r[i - 1]
      BY <2>1, <2>4, ConcatProperties, LenProperties
    <3>2. <<y>> \o r # <<>> BY <3>1, EmptySeq
    <3>3. /\ Tail(<<y>> \o r) \in Seq(Nat) /\ Len(Tail(<<y>> \o r)) = Len(r)
          /\ \A i \in 1..Len(r) : Tail(<<y>> \o r)[i] = (<<y>> \o r)[i + 1]
      BY <3>1, <3>2, HeadTailProperties
    <3>4. \A i \in 1..Len(r) : Tail(<<y>> \o r)[i] = r[i] BY <3>1, <3>3
    <3>5. QED BY <2>4, <3>2, <3>3, <3>4, SeqEqual
  <2>6. QED BY <1>7, <2>3, <2>5 DEF r
<1>10. QED BY <1>8, <1>9

LEMMA StartSendGot ==
  ASSUME TypesInv, NEW c \in Clients, StartSend(c)
  PROVE  Got(c)' = Got(c)
<1> DEFINE x == Head(queue[c])
           q == Tail(queue[c])
           s == SentPart(c)
<1>1. TypeOK /\ queue[c] # NULL /\ queue[c] # <<>> /\ sending[c] = NULL BY DEF StartSend, TypesInv
<1>2. queue[c] \in Seq(Nat) /\ s \in Seq(Nat) BY <1>1, GotParts
<1>3. x \in Nat /\ q \in Seq(Nat) /\ <<x>> \in Seq(Nat) BY <1>1, <1>2, HeadTailProperties
<1>4. queue[c] = <<x>> \o q
  BY <1>1, <1>2, <1>3, HeadTailProperties, ConcatProperties, SeqEqual
<1>5. sending'[c] = x /\ queue'[c] = q /\ sent' = sent
  BY DEF StartSend, TypesInv, TypeOK
<1>6. x # NULL BY <1>3, NullAssumption
<1>7. Got(c)' = (s \o <<x>>) \o q BY <1>5, <1>6 DEF Got, SentPart
<1>8. Got(c) = (s \o <<>>) \o queue[c] BY <1>1 DEF Got, SentPart
<1> HIDE DEF s, x, q
<1>9. s \o <<>> = s BY <1>2, ConcatEmptySeq
<1>10. (s \o <<x>>) \o q = s \o (<<x>> \o q) BY <1>2, <1>3, ConcatAssociative
<1>11. QED BY <1>4, <1>7, <1>8, <1>9, <1>10

LEMMA OrderClientStep ==
  ASSUME TypesInv, TypesInv', OrderInv, NEW c \in Clients, Client(c)
  PROVE  OrderInv'
<1>1. evidence' = evidence /\ subscribers' \subseteq subscribers \cup {c}
  BY DEF Client, Subscribe, StartSend, EndSend, Unsubscribe
<1>2. \A d \in Clients \ {c} : /\ sent'[d] = sent[d] /\ sending'[d] = sending[d] /\ queue'[d] = queue[d]
                              /\ lossy'[d] = lossy[d]
  BY DEF Client, Subscribe, StartSend, EndSend, Unsubscribe, TypesInv, TypeOK
<1>3. ASSUME NEW d \in subscribers', d # c
      PROVE  Ordered(Got(d)', Len(evidence)) /\ (~lossy'[d] => IsEnd(Got(d)', Len(evidence)))
  <2>1. d \in Clients /\ d \in subscribers BY <1>1, <1>3 DEF TypesInv, TypeOK
  <2>2. Got(d)' = Got(d) /\ lossy'[d] = lossy[d] BY <1>2, <1>3, <2>1 DEF Got
  <2>3. QED BY <2>1, <2>2 DEF OrderInv
<1>4. Len(evidence) \in Nat BY LenProperties DEF TypesInv, TypeOK
<1>5. ASSUME c \in subscribers'
      PROVE  Ordered(Got(c)', Len(evidence)) /\ (~lossy'[c] => IsEnd(Got(c)', Len(evidence)))
  <2>1. CASE Subscribe(c)
    <3>1. sent[c] = 0 /\ sending[c] = NULL BY <2>1 DEF Subscribe, TypesInv, ClientInv
    <3>2. sent'[c] = 0 /\ sending'[c] = NULL /\ queue'[c] = <<>>
      BY <2>1, <3>1 DEF Subscribe, TypesInv, TypeOK
    <3>3. Got(c)' = (<<>> \o <<>>) \o <<>> BY <3>2 DEF Got
    <3>4. Got(c)' = <<>> /\ Len(<<>>) = 0 BY <3>3, EmptySeq, ConcatEmptySeq
    <3>5. Ordered(<<>>, Len(evidence)) /\ IsEnd(<<>>, Len(evidence))
      BY <1>4, <3>4 DEF Ordered, IsEnd
    <3>6. QED BY <3>4, <3>5
  <2>2. CASE StartSend(c) \/ EndSend(c)
    <3>1. subscribers' = subscribers /\ lossy' = lossy BY <2>2 DEF StartSend, EndSend
    <3>2. Ordered(Got(c), Len(evidence)) /\ (~lossy[c] => IsEnd(Got(c), Len(evidence)))
      BY <1>5, <3>1 DEF OrderInv
    <3>3. Got(c) \in Seq(Nat) BY <1>5, <3>1, GotParts DEF TypesInv, ClientInv
    <3>4. Got(c)' = Got(c) \/ (Got(c) # <<>> /\ Got(c)' = Tail(Got(c)))
      BY <2>2, StartSendGot, EndSendGot
    <3>5. QED BY <1>4, <3>1, <3>2, <3>3, <3>4, TailOrder
  <2>3. CASE Unsubscribe(c) BY <1>5, <2>3 DEF Unsubscribe
  <2>4. QED BY <2>1, <2>2, <2>3 DEF Client
<1>6. \A d \in subscribers' : Ordered(Got(d)', Len(evidence)) /\ (~lossy'[d] => IsEnd(Got(d)', Len(evidence)))
  BY <1>3, <1>5
<1>7. QED BY <1>1, <1>6 DEF OrderInv

LEMMA OrderStep ==
  ASSUME TypesInv, TypesInv', EvidenceIsTheStream, OrderInv, [Next]_vars
  PROVE  OrderInv'
<1>1. CASE UNCHANGED <<evidence, clients>> BY <1>1 DEF OrderInv, Got, clients
<1>2. CASE Bridge
  BY <1>1, <1>2
     DEF Bridge, Open, OpenFails, Settle, ReadNothing, ReadRejected, EmitRejection, ReadRaises, ReadPacket,
         ReadFails, Resume, StopBridge
<1>3. CASE ForwardPacket
  <2>1. source # <<>> /\ Publish(Head(source)) /\ source \in Seq(Packets)
    BY <1>3 DEF ForwardPacket, TypesInv, TypeOK
  <2>2. Head(source) \in Packets BY <2>1, HeadTailProperties
  <2>3. Len(evidence) \in Nat /\ Head(source) = Len(evidence) + 1
    BY <2>1, EvidenceNumbers DEF TypesInv
  <2>4. QED BY <2>1, <2>2, <2>3, PublishOrder
<1>4. CASE SendHealth
  <2>1. source = <<>> /\ Publish(gsn + 1) /\ gsn < MaxSeq BY <1>4 DEF SendHealth, QueueIdle
  <2>2. gsn + 1 \in Packets BY <2>1, PacketStep DEF TypesInv
  <2>3. Len(evidence) \in Nat /\ gsn = Len(evidence)
    BY <2>1, EvidenceNumbers, EmptySeq DEF TypesInv
  <2>4. QED BY <2>1, <2>2, <2>3, PublishOrder
<1>5. CASE HealthTimer BY <1>1, <1>5 DEF HealthTimer
<1>6. CASE StopManager BY <1>6 DEF StopManager, OrderInv
<1>7. ASSUME NEW c \in Clients, Client(c) PROVE OrderInv' BY <1>7, OrderClientStep
<1>8. CASE UNCHANGED vars BY <1>1, <1>8 DEF vars
<1>9. QED BY <1>2, <1>3, <1>4, <1>5, <1>6, <1>7, <1>8 DEF Next, Manager

(* An end of the first numbers is an end of the evidence. *)
LEMMA OrderMeans ==
  ASSUME TypesInv, EvidenceIsTheStream, OrderInv
  PROVE  SlowClientsLoseTheirOwn
<1> SUFFICES ASSUME NEW c \in subscribers
             PROVE  /\ \A i, j \in DOMAIN Got(c) : i < j => Got(c)[i] < Got(c)[j]
                    /\ ~lossy[c] => Got(c) = SubSeq(evidence, Len(evidence) - Len(Got(c)) + 1, Len(evidence))
  BY DEF SlowClientsLoseTheirOwn
<1> DEFINE g == Got(c)
           m == Len(evidence)
<1>1. c \in Clients /\ queue[c] # NULL /\ TypeOK BY DEF TypesInv, TypeOK, ClientInv
<1>2. g \in Seq(Nat) BY <1>1, GotParts
<1>3. Ordered(g, m) /\ (~lossy[c] => IsEnd(g, m)) BY DEF OrderInv
<1>4. m \in Nat /\ \A i \in 1..m : evidence[i] = i BY <1>1, EvidenceNumbers
<1> HIDE DEF g, m
<1>5. Len(g) \in Nat /\ DOMAIN g = 1..Len(g) BY <1>2, LenProperties
<1>6. \A i, j \in DOMAIN g : i < j => g[i] < g[j] BY <1>3, <1>5 DEF Ordered
<1>7. ASSUME ~lossy[c] PROVE g = SubSeq(evidence, m - Len(g) + 1, m)
  <2> DEFINE a == m - Len(g) + 1
             e == SubSeq(evidence, a, m)
  <2>1. Len(g) <= m /\ \A i \in 1..Len(g) : g[i] = (m - Len(g)) + i BY <1>3, <1>7 DEF IsEnd
  <2>2. a \in Int /\ m \in Int /\ \A i \in a..m : evidence[i] \in Nat BY <1>4, <1>5, <2>1
  <2>3. /\ e \in Seq(Nat) /\ Len(e) = (IF a <= m THEN m - a + 1 ELSE 0)
        /\ \A i \in 1..(m - a + 1) : e[i] = evidence[a + i - 1]
    BY <2>2, SubSeqProperties
  <2>4. m - a + 1 = Len(g) /\ Len(e) = Len(g) BY <1>4, <1>5, <2>1, <2>3
  <2>5. ASSUME NEW i \in 1..Len(g) PROVE g[i] = e[i]
    <3>1. a + i - 1 \in 1..m /\ a + i - 1 = (m - Len(g)) + i BY <1>4, <1>5, <2>1
    <3>2. e[i] = a + i - 1 BY <1>4, <2>3, <2>4, <3>1
    <3>3. QED BY <2>1, <3>1, <3>2
  <2>6. QED BY <1>2, <2>3, <2>4, <2>5, SeqEqual
<1>8. QED BY <1>6, <1>7 DEF g, m

\* A subscriber sees the stream in order, and all of its end while its own queue has not
\* overflowed, however slow the other subscribers are (hardware_stream_manager.py _broadcast).
THEOREM OwnLossOnly == Spec => []SlowClientsLoseTheirOwn
<1>1. Init => OrderInv BY DEF Init, OrderInv
<1>2. TypesInv /\ TypesInv' /\ EvidenceIsTheStream /\ OrderInv /\ [Next]_vars => OrderInv'
  BY OrderStep
<1>3. TypesInv /\ EvidenceIsTheStream /\ OrderInv => SlowClientsLoseTheirOwn BY OrderMeans
<1>4. QED BY <1>1, <1>2, <1>3, TypesAlways, EvidenceInOrder, PTL DEF Spec
=============================================================================
