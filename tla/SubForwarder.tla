----------------------------- MODULE SubForwarder -----------------------------
(***************************************************************************)
(* The way of SUB's telemetry to MAIN's Pi port: SUB numbers, serializes   *)
(* and sends its packets as lines; MAIN assembles lines from what arrives, *)
(* looks for a few tokens in them and forwards them unchanged.             *)
(*                                                                         *)
(* A line is made of pieces: "{", the token that tells its type, the       *)
(* fields MAIN looks for, a filling it does not look at, and "}".  A piece *)
(* may get lost (a receive buffer that overflows, a bit error that makes a *)
(* carriage return), become or be joined by a glitch, and either board may *)
(* be reset.  SUB's transmit queue and MAIN's receive buffer only delay:   *)
(* a piece goes from the packet being sent to handleSubTelemetryByte.      *)
(***************************************************************************)
EXTENDS Integers, Sequences

CONSTANTS
    MaxLineLength,   \* SUB_FORWARD_MAX_LINE_LENGTH, in pieces
    LineBufferSize,  \* SUB_TELEMETRY_LINE_BUFFER_SIZE, in pieces
    Sizes,           \* lengths of serialized packets
    MaxPackets,      \* bound: packets numbered by SUB since its last reset
    MaxFaults        \* bound: faults of the line and resets

\* board_config.h: 1024 and 1536.
ASSUME LengthsAssumption ==
    /\ MaxLineLength \in Nat \ {0} /\ LineBufferSize \in Nat \ {0}
    /\ Sizes \subseteq Nat \ (0..3)
    /\ MaxPackets \in Nat /\ MaxFaults \in Nat

VARIABLES
    nextNumber,     \* sourceSequenceNumber_
    unsent,         \* droppedSerializationCount_
    packet,         \* the packet being sent, or NoPacket
    at,             \* its piece to be sent next
    subLine,        \* subLineBuffer[0 .. subLineIndex-1]
    discarding,     \* discardUntilNewline
    forwarded,      \* subForwardedLineCount
    dropped,        \* subDroppedLineCount
    overlongLines,  \* subOverlongLineCount
    corrupt,        \* subCorruptLineCount
    arrived,        \* history: the pieces since the last newline
    owed,           \* history: packets sent, short enough for MAIN, and not forwarded whole
    faults          \* history: faults and resets

sub == <<nextNumber, unsent, packet, at>>
counts == <<forwarded, dropped, overlongLines, corrupt>>
main == <<subLine, discarding, counts, arrived, owed>>
link == <<sub, main, faults>>

PacketTypes == {"NODE_HEALTH", "LINK_HEARTBEAT", "LINK_SYNC"}
Packets == [type : PacketTypes, number : Nat, size : Sizes]
NoPacket == [type |-> "none", number |-> 0, size |-> 0]

Parts == {"open", "type", "fields", "filling", "close", "newline", "noise"}
Pieces == [part : Parts, of : Packets \cup {NoPacket}]
Glitches == {[part |-> p, of |-> NoPacket] : p \in {"noise", "open", "close", "newline"}}
Newline == [part |-> "newline", of |-> NoPacket]

\* The i-th piece of a packet's line, and the newline after the last.
PieceOf(p, i) ==
    IF i > p.size THEN Newline
    ELSE [part |-> CASE i = 1 -> "open" [] i = 2 -> "type" [] i = 3 -> "fields"
                     [] i = p.size -> "close" [] OTHER -> "filling",
          of |-> p]

LineOf(p) == [i \in 1..p.size |-> PieceOf(p, i)]

\* A line is one packet, from its first piece to its last.
IsWhole(line) == line # <<>> /\ line = LineOf(line[1].of)

LinkInit ==
    /\ nextNumber = 1 /\ unsent = 0
    /\ packet = NoPacket /\ at = 0
    /\ subLine = <<>> /\ discarding = FALSE
    /\ forwarded = 0 /\ dropped = 0 /\ overlongLines = 0 /\ corrupt = 0
    /\ arrived = <<>> /\ owed = 0 /\ faults = 0

(***************************************************************************)
(* SUB.                                                                    *)
(***************************************************************************)
Sending == packet # NoPacket

\* What does not fit is forgotten.
EmitPacketUncounted(type, size) ==
    /\ ~Sending /\ nextNumber <= MaxPackets
    /\ nextNumber' = nextNumber + 1
    /\ \/ /\ size >= LineBufferSize - 1
          /\ UNCHANGED <<unsent, packet, at, owed>>
       \/ /\ size < LineBufferSize - 1
          /\ packet' = [type |-> type, number |-> nextNumber, size |-> size] /\ at' = 1
          /\ owed' = IF size <= MaxLineLength THEN owed + 1 ELSE owed
          /\ UNCHANGED unsent
    /\ UNCHANGED <<subLine, discarding, counts, arrived, faults>>

\* beginPacket() takes a number; emitPacket() sends the line, unless its buffer is too small.
EmitPacket(type, size) ==
    /\ ~Sending /\ nextNumber <= MaxPackets
    /\ nextNumber' = nextNumber + 1
    /\ \/ /\ size >= LineBufferSize - 1
          /\ unsent' = unsent + 1
          /\ UNCHANGED <<packet, at, owed>>
       \/ /\ size < LineBufferSize - 1
          /\ packet' = [type |-> type, number |-> nextNumber, size |-> size] /\ at' = 1
          /\ owed' = IF size <= MaxLineLength THEN owed + 1 ELSE owed
          /\ UNCHANGED unsent
    /\ UNCHANGED <<subLine, discarding, counts, arrived, faults>>

PieceLeaves ==
    /\ Sending
    /\ \/ at <= packet.size /\ at' = at + 1 /\ UNCHANGED packet
       \/ at > packet.size /\ at' = 0 /\ packet' = NoPacket
    /\ UNCHANGED <<nextNumber, unsent>>

(***************************************************************************)
(* MAIN: handleSubTelemetryByte.  A carriage return changes nothing.       *)
(***************************************************************************)
Full == Len(subLine) >= MaxLineLength

\* The end of an overlong line is not noticed.
DiscardPieceForEver(c) ==
    /\ arrived' = IF c = Newline THEN <<>> ELSE Append(arrived, c)
    /\ UNCHANGED <<subLine, discarding, counts, owed>>

DiscardPiece(c) ==
    /\ \/ c = Newline /\ discarding' = FALSE /\ subLine' = <<>> /\ arrived' = <<>>
       \/ c # Newline /\ arrived' = Append(arrived, c) /\ UNCHANGED <<discarding, subLine>>
    /\ UNCHANGED <<counts, owed>>

StorePiece(c) ==
    /\ \/ ~Full /\ subLine' = Append(subLine, c) /\ UNCHANGED <<discarding, overlongLines>>
       \/ Full /\ subLine' = <<>> /\ discarding' = TRUE /\ overlongLines' = overlongLines + 1
    /\ arrived' = Append(arrived, c)
    /\ UNCHANGED <<forwarded, dropped, corrupt, owed>>

containsToken(part, type) == \E i \in DOMAIN subLine : subLine[i].part = part /\ subLine[i].of.type = type

IsBraced == subLine[1].part = "open" /\ subLine[Len(subLine)].part = "close"

\* The fields of both kinds of link packets tell a sync_state.
isSubTelemetryLineSane ==
    \/ /\ containsToken("type", "NODE_HEALTH")
       /\ containsToken("fields", "NODE_HEALTH")
       /\ ~containsToken("fields", "LINK_SYNC") /\ ~containsToken("fields", "LINK_HEARTBEAT")
    \/ /\ ~containsToken("type", "NODE_HEALTH") /\ containsToken("type", "LINK_SYNC")
       /\ containsToken("fields", "LINK_SYNC")
    \/ /\ ~containsToken("type", "NODE_HEALTH") /\ ~containsToken("type", "LINK_SYNC")
       /\ containsToken("type", "LINK_HEARTBEAT") /\ containsToken("fields", "LINK_HEARTBEAT")

DropMalformed ==
    /\ ~IsBraced
    /\ dropped' = dropped + 1
    /\ UNCHANGED <<forwarded, corrupt, owed>>

DropCorrupt ==
    /\ IsBraced /\ ~isSubTelemetryLineSane
    /\ dropped' = dropped + 1 /\ corrupt' = corrupt + 1
    /\ UNCHANGED <<forwarded, owed>>

forwardSubTelemetryLine ==
    /\ IsBraced /\ isSubTelemetryLineSane
    /\ forwarded' = forwarded + 1
    /\ owed' = IF IsWhole(subLine) THEN owed - 1 ELSE owed
    /\ UNCHANGED <<dropped, corrupt>>

EndLine ==
    /\ \/ subLine = <<>> /\ UNCHANGED <<forwarded, dropped, corrupt, owed>>
       \/ subLine # <<>> /\ (DropMalformed \/ DropCorrupt \/ forwardSubTelemetryLine)
    /\ subLine' = <<>> /\ arrived' = <<>>
    /\ UNCHANGED <<discarding, overlongLines>>

handleSubTelemetryByte(c) ==
    \/ discarding /\ DiscardPiece(c)
    \/ ~discarding /\ c = Newline /\ EndLine
    \/ ~discarding /\ c # Newline /\ StorePiece(c)

(***************************************************************************)
(* What happens between them.                                              *)
(***************************************************************************)
Arrive ==
    /\ PieceLeaves
    /\ handleSubTelemetryByte(PieceOf(packet, at))
    /\ UNCHANGED faults

Fault == faults < MaxFaults /\ faults' = faults + 1

Lose == Fault /\ PieceLeaves /\ UNCHANGED main

Alter == Fault /\ PieceLeaves /\ \E c \in Glitches : handleSubTelemetryByte(c)

Disturb == Fault /\ UNCHANGED sub /\ \E c \in Glitches : handleSubTelemetryByte(c)

\* The rest of a packet being sent stays unsent, its newline too.
SubResets ==
    /\ Fault
    /\ nextNumber' = 1 /\ unsent' = 0
    /\ packet' = NoPacket /\ at' = 0
    /\ UNCHANGED main

MainResets ==
    /\ Fault
    /\ subLine' = <<>> /\ discarding' = FALSE
    /\ forwarded' = 0 /\ dropped' = 0 /\ overlongLines' = 0 /\ corrupt' = 0
    /\ arrived' = <<>>
    /\ UNCHANGED <<sub, owed>>

LinkNext ==
    \/ \E type \in PacketTypes, size \in Sizes : EmitPacket(type, size)
    \/ Arrive \/ Lose \/ Alter \/ Disturb
    \/ SubResets \/ MainResets

LinkSpec == LinkInit /\ [][LinkNext]_link

(***************************************************************************)
(* Properties.  That MAIN forwards complete lines only is not among them:  *)
(* two packets joined by a lost newline, or one with pieces missing where  *)
(* no token is looked for, pass as one.                                    *)
(***************************************************************************)
\* Every variable keeps its type; the line and its terminating zero fit subLineBuffer.
LinkTypeOK ==
    /\ nextNumber \in Nat \ {0} /\ unsent \in Nat
    /\ packet \in Packets \cup {NoPacket} /\ at \in 0..(packet.size + 1)
    /\ subLine \in Seq(Pieces) /\ Len(subLine) <= MaxLineLength
    /\ discarding \in BOOLEAN
    /\ {forwarded, dropped, overlongLines, corrupt} \subseteq Nat
    /\ arrived \in Seq(Pieces) /\ owed \in Int /\ faults \in 0..MaxFaults

\* What MAIN judges is all that came since the last newline and nothing else: no remainder of
\* an overlong line is ever looked at as a line (handleSubTelemetryByte).
JudgedAsArrived == IF discarding THEN Len(arrived) > MaxLineLength ELSE subLine = arrived

\* A byte lost, altered or added, and a reset of either board, costs two packets at the most
\* (a newline that is gone joins a line to the next): every other packet that fits MAIN's
\* buffer is forwarded as it was sent.
FaultsCostTwo == owed <= 2 * faults + (IF Sending THEN 1 ELSE 0)

\* Without a fault the counters of the two boards account for every number SUB took: a gap
\* in the numbers the Pi sees is a packet SUB could not serialize or MAIN found too long.
NumbersAccounted ==
    faults = 0 => /\ nextNumber - 1 = forwarded + overlongLines + unsent + (IF Sending /\ ~discarding THEN 1 ELSE 0)
                  /\ dropped = 0 /\ corrupt = 0
=============================================================================
