---------------------------- MODULE RtcSyncProofs ----------------------------
(***************************************************************************)
(* Machine-checked theorems about the one-shot setting of the DS3231, for  *)
(* any number of calls and of faults: the operator's contract is kept      *)
(* (RtcSyncContract), the time of the last request answered SUCCESS        *)
(* stands, and the stop flag is cleared only over a verified time.         *)
(*                                                                         *)
(* The argument.  Requests never overtake each other: what is on the line, *)
(* in MAIN's buffer and in its hands is in the order of the calls          *)
(* (LineInv), and later than whatever has set the clock (AppliedInv).  All *)
(* of it comes from calls that were made, not refused, and are no later    *)
(* than the open one (CallsInv).  So the open call's result, when it comes,*)
(* is about the request that set the clock last (ResultInv), and nothing   *)
(* has touched the clock since but a loss of power (ClockInv).             *)
(***************************************************************************)
EXTENDS RtcSync, SequenceTheorems, TLAPS

Late == {"readback", "clear", "reread"}   \* the time registers have been written

(* A request's session is still to be dealt with, or has set the clock. *)
Carried(s) ==
    \/ \E k \in DOMAIN up : up[k].sess = s
    \/ pending # NULL /\ pending.sess = s
    \/ pc \in {"status", "time"} /\ job.sess = s
HasSet(s) == \E k \in DOMAIN applied : applied[k] = s

(* A result that says the clock was set, on its way to the operator. *)
Reported(s) ==
    \/ \E k \in DOMAIN down : down[k].ok /\ down[k].id = s
    \/ inbox # NULL /\ \E k \in DOMAIN inbox : inbox[k].ok /\ inbox[k].id = s
Confirmed(s) == Reported(s) \/ (s \in DOMAIN reply /\ reply[s] = "SUCCESS")

Refusals == {"RTC_SYNC_ALREADY_ACTIVE", "PI_TIME_UNTRUSTED", "NOT_CONNECTED"}
Stands(s) == (rtc = s /\ ~osf) \/ (rtc = LOST /\ osf)
IsLast(s) == applied # <<>> /\ applied[Len(applied)] = s

LineInv ==
    /\ \A k, l \in DOMAIN up : k < l => up[k].sess < up[l].sess
    /\ pending # NULL => \A k \in DOMAIN up : pending.sess < up[k].sess
    /\ job # NULL => pending = NULL /\ \A k \in DOMAIN up : job.sess < up[k].sess

AppliedInv ==
    /\ \A k, l \in DOMAIN applied : k < l => applied[k] < applied[l]
    /\ \A s \in Sessions : Carried(s) => \A k \in DOMAIN applied : applied[k] < s
    /\ pc \in Late => IsLast(job.sess)

CallsInv ==
    /\ \A i \in DOMAIN reply : reply[i] = "PENDING" => i = cur
    /\ \A s \in Sessions : Carried(s) \/ HasSet(s) =>
         /\ s \in DOMAIN reply /\ reply[s] \notin Refusals
         /\ cur # NULL => s <= cur
         /\ phase = "write" => s < cur

ResultInv ==
    /\ \A s \in Sessions : Confirmed(s) => HasSet(s)
    /\ pc \in Late => ~Confirmed(job.sess)

ClockInv ==
    /\ pc \in {"clear", "reread"} => rtc = job.sess
    /\ \A s \in Sessions : Confirmed(s) /\ IsLast(s) => Stands(s)

IInv == TypeOK /\ LineInv /\ AppliedInv /\ CallsInv /\ ResultInv /\ ClockInv

-----------------------------------------------------------------------------
(*                           what a step changes                           *)

Steps ==
    \/ \E r \in Refusals : CallRefused(r)
    \/ CallAccepted \/ WriteDone \/ WriteFails \/ FlushDone \/ FlushFails \/ WaitResult \/ WaitTimeout
    \/ Deliver \/ LoseResult \/ Garble \/ ReadPiece \/ ReadLine
    \/ \E p \in {"status", "time", "readback", "clear", "reread"} : AccessFails(p)
    \/ ReadStatus \/ WriteTime \/ WriteTimeFails \/ Readback \/ ClearOsf \/ ClearOsfFails \/ Reread
    \/ MainReset

LEMMA NextIsStep == [Next]_vars => Steps \/ UNCHANGED vars
<1>1. \A r \in Replies : CallRefused(r) => r \in Refusals
  BY DEF CallRefused, Refusals
<1>2. QED BY <1>1, Zenon DEF Next, Steps, SendOnce, Transaction

(* The backend's variables. *)
Finished == phase # "idle" /\ \E r \in Replies \ ({"PENDING"} \cup Refusals) : Finish(r)
BackendStep ==
    \/ UNCHANGED backend
    \/ \E r \in Refusals : CallRefused(r)
    \/ CallAccepted
    \/ phase # "idle" /\ phase' \in {"flush", "wait"} /\ UNCHANGED <<reply, cur, inbox>>
    \/ Finished
    \/ phase # "idle" /\ inbox # <<>> /\ inbox' = Tail(inbox) /\ UNCHANGED <<reply, phase, cur>>
    \/ Deliver

LEMMA BackendSteps == ASSUME [Next]_vars PROVE BackendStep
<1>1. {"WRITE_FAILED", "RTC_SYNC_RESULT_TIMEOUT", "RTC_SYNC_RESULT_REJECTED", "SUCCESS"}
        = Replies \ ({"PENDING"} \cup Refusals)
  BY DEF Replies, Refusals
<1>2. CASE WriteDone BY <1>2 DEF WriteDone, BackendStep
<1>3. CASE WriteFails
  <2>1. Finish("WRITE_FAILED") /\ phase # "idle" BY <1>3 DEF WriteFails
  <2>2. QED BY <1>1, <2>1, Zenon DEF Finished, BackendStep
<1>4. CASE FlushDone BY <1>4 DEF FlushDone, BackendStep
<1>5. CASE FlushFails
  <2>1. Finish("WRITE_FAILED") /\ phase # "idle" BY <1>5 DEF FlushFails
  <2>2. QED BY <1>1, <2>1, Zenon DEF Finished, BackendStep
<1>6. CASE WaitResult
  <2>1. phase # "idle" /\ inbox # <<>> BY <1>6 DEF WaitResult
  <2>2. CASE Finish("SUCCESS") BY <1>1, <2>1, <2>2, Zenon DEF Finished, BackendStep
  <2>3. CASE Finish("RTC_SYNC_RESULT_REJECTED") BY <1>1, <2>1, <2>3, Zenon DEF Finished, BackendStep
  <2>4. CASE inbox' = Tail(inbox) /\ UNCHANGED <<reply, phase, cur>> BY <2>1, <2>4, Zenon DEF BackendStep
  <2>5. QED BY <1>6, <2>2, <2>3, <2>4, Zenon DEF WaitResult
<1>7. CASE WaitTimeout
  <2>1. Finish("RTC_SYNC_RESULT_TIMEOUT") /\ phase # "idle" BY <1>7 DEF WaitTimeout
  <2>2. QED BY <1>1, <2>1, Zenon DEF Finished, BackendStep
<1>8. CASE \/ LoseResult \/ Garble \/ ReadPiece \/ ReadLine
           \/ \E p \in {"status", "time", "readback", "clear", "reread"} : AccessFails(p)
           \/ ReadStatus \/ WriteTime \/ WriteTimeFails \/ Readback \/ ClearOsf \/ ClearOsfFails \/ Reread
           \/ MainReset \/ UNCHANGED vars
  <2>1. UNCHANGED backend
    BY <1>8, Zenon DEF LoseResult, Garble, ReadPiece, ReadLine, AccessFails, ReadStatus, WriteTime, WriteTimeFails,
       Readback, ClearOsf, ClearOsfFails, Reread, MainReset, vars
  <2>2. QED BY <2>1, Zenon DEF BackendStep
<1>9. QED BY <1>2, <1>3, <1>4, <1>5, <1>6, <1>7, <1>8, NextIsStep, Zenon DEF Steps, BackendStep

(* One more element at the end; the first one taken away. *)
LEMMA AppendFacts ==
  ASSUME NEW S, NEW s \in Seq(S), NEW e \in S
  PROVE  /\ Append(s, e) \in Seq(S) /\ Append(s, e) # <<>> /\ Len(s) \in Nat
         /\ DOMAIN s = 1..Len(s) /\ DOMAIN Append(s, e) = 1..(Len(s) + 1) /\ Len(Append(s, e)) = Len(s) + 1
         /\ \A i \in 1..Len(s) : Append(s, e)[i] = s[i]
         /\ Append(s, e)[Len(s) + 1] = e
<1>1. /\ Append(s, e) \in Seq(S) /\ Append(s, e) # <<>> /\ Len(Append(s, e)) = Len(s) + 1
      /\ \A i \in 1..Len(s) : Append(s, e)[i] = s[i]
      /\ Append(s, e)[Len(s) + 1] = e
  BY AppendProperties
<1>2. Len(s) \in Nat /\ DOMAIN s = 1..Len(s) /\ DOMAIN Append(s, e) = 1..Len(Append(s, e))
  BY <1>1, LenProperties, Zenon
<1>3. QED BY <1>1, <1>2, Zenon

LEMMA TailFacts ==
  ASSUME NEW S, NEW s \in Seq(S), s # <<>>
  PROVE  /\ Tail(s) \in Seq(S) /\ Len(s) \in Nat \ {0} /\ Head(s) = s[1] /\ s[1] \in S /\ 1 \in DOMAIN s
         /\ DOMAIN s = 1..Len(s) /\ Len(Tail(s)) = Len(s) - 1 /\ DOMAIN Tail(s) = 1..(Len(s) - 1)
         /\ \A i \in 1..(Len(s) - 1) : Tail(s)[i] = s[i + 1]
<1>1. /\ Tail(s) \in Seq(S) /\ Len(Tail(s)) = Len(s) - 1 /\ Head(s) \in S
      /\ \A i \in 1..Len(Tail(s)) : Tail(s)[i] = s[i + 1]
  BY HeadTailProperties, Zenon
<1>2. Len(s) \in Nat \ {0} /\ DOMAIN s = 1..Len(s) /\ DOMAIN Tail(s) = 1..Len(Tail(s))
  BY <1>1, LenProperties, EmptySeq, Zenon
<1>3. 1 \in DOMAIN s BY <1>2
<1>4. s[1] \in S BY <1>2, <1>3, ElementOfSeq, Zenon
<1>5. Head(s) = s[1] OBVIOUS
<1>6. QED BY <1>1, <1>2, <1>3, <1>4, <1>5, Zenon

LEMMA CallTypeStep == ASSUME TypeOK, [Next]_vars PROVE CallType'
<1>1. /\ reply \in Seq(Replies) /\ Len(reply) <= MaxCalls
      /\ phase \in {"idle", "write", "flush", "wait"}
      /\ (phase = "idle") <=> (cur = NULL)
      /\ (phase = "idle") <=> (inbox = NULL)
      /\ cur # NULL => cur \in DOMAIN reply /\ reply[cur] = "PENDING"
      /\ inbox # NULL => inbox \in Seq(Result)
  BY Zenon DEF TypeOK, CallType
<1>2. Len(reply) \in Nat /\ DOMAIN reply = 1..Len(reply)
  BY <1>1, LenProperties, Zenon
<1>3. \A r \in Replies : /\ Append(reply, r) \in Seq(Replies) /\ Len(Append(reply, r)) = Len(reply) + 1
                         /\ \A i \in 1..Len(reply) : Append(reply, r)[i] = reply[i]
                         /\ Append(reply, r)[Len(reply) + 1] = r
  BY <1>1, AppendFacts
<1>4. \A r \in Replies : DOMAIN Append(reply, r) = 1..(Len(reply) + 1)
  BY <1>3, LenProperties, Zenon
<1>5. <<>> \in Seq(Result) /\ <<>> # NULL
  BY EmptySeq, NullAssumption, Zenon
<1>6. CASE UNCHANGED backend BY <1>1, <1>6 DEF CallType, backend
<1>7. ASSUME NEW r \in Refusals, CallRefused(r) PROVE CallType'
  <2>1. r \in Replies /\ reply' = Append(reply, r) /\ UNCHANGED <<phase, cur, inbox>> /\ Len(reply) < MaxCalls
    BY <1>7 DEF CallRefused, Refusals, Replies
  <2>2. reply' \in Seq(Replies) /\ Len(reply') <= MaxCalls
    BY <1>2, <1>3, <2>1, BoundsAssumption
  <2>3. cur # NULL => cur \in DOMAIN reply' /\ reply'[cur] = "PENDING"
    BY <1>1, <1>2, <1>3, <1>4, <2>1
  <2>4. QED BY <1>1, <2>1, <2>2, <2>3, Zenon DEF CallType
<1>8. CASE CallAccepted
  <2>1. /\ "PENDING" \in Replies /\ reply' = Append(reply, "PENDING") /\ cur' = Len(reply) + 1
        /\ phase' = "write" /\ inbox' = <<>> /\ Len(reply) < MaxCalls
    BY <1>8 DEF CallAccepted, Replies
  <2>2. reply' \in Seq(Replies) /\ Len(reply') <= MaxCalls
    BY <1>2, <1>3, <2>1, BoundsAssumption
  <2>3. cur' \in DOMAIN reply' /\ reply'[cur'] = "PENDING" /\ cur' \in Nat
    BY <1>2, <1>3, <1>4, <2>1
  <2>4. QED BY <1>5, <2>1, <2>2, <2>3, NullAssumption DEF CallType
<1>9. CASE phase # "idle" /\ phase' \in {"flush", "wait"} /\ UNCHANGED <<reply, cur, inbox>>
  BY <1>1, <1>9 DEF CallType
<1>10. CASE Finished
  <2>1. PICK r \in Replies : phase # "idle" /\ Finish(r) BY <1>10, Zenon DEF Finished
  <2>2. cur \in 1..Len(reply) BY <1>1, <1>2, <2>1
  <2>3. reply' = [reply EXCEPT ![cur] = r] /\ phase' = "idle" /\ cur' = NULL /\ inbox' = NULL
    BY <2>1, Zenon DEF Finish
  <2>4. reply' \in Seq(Replies) /\ Len(reply') = Len(reply)
    BY <1>1, <2>2, <2>3, ExceptSeq, Zenon
  <2>5. QED BY <1>1, <2>3, <2>4, Zenon DEF CallType
<1>11. CASE phase # "idle" /\ inbox # <<>> /\ inbox' = Tail(inbox) /\ UNCHANGED <<reply, phase, cur>>
  <2>1. inbox' \in Seq(Result) BY <1>1, <1>11, HeadTailProperties, Zenon
  <2>2. inbox' # NULL BY <2>1, NullAssumption, Zenon
  <2>3. QED BY <1>1, <1>11, <2>1, <2>2, Zenon DEF CallType
<1>12. CASE Deliver
  <2>1. /\ down # <<>> /\ inbox' = IF inbox = NULL THEN NULL ELSE Append(inbox, Head(down))
        /\ UNCHANGED <<reply, phase, cur>>
    BY <1>12, Zenon DEF Deliver
  <2>2. inbox # NULL => inbox' \in Seq(Result)
    <3>1. down \in Seq(Result) BY Zenon DEF TypeOK, LineType
    <3>2. QED BY <1>1, <2>1, <3>1, HeadTailProperties, AppendProperties, Zenon
  <2>3. inbox # NULL => inbox' # NULL BY <2>2, NullAssumption, Zenon
  <2>4. QED BY <1>1, <2>1, <2>2, <2>3, Zenon DEF CallType
<1>13. QED BY <1>6, <1>7, <1>8, <1>9, <1>10, <1>11, <1>12, BackendSteps, Zenon DEF BackendStep

(* The line and MAIN: a request is put on the line, the first piece of the line is read, or *)
(* the line keeps or loses what it has and MAIN goes on with its request or drops it.       *)
Added == phase = "write" /\ phase' # "write" /\ UNCHANGED main /\ \E p \in Piece : p.sess = cur /\ up' = Append(up, p)

Taken ==
    /\ pc = "loop" /\ up # <<>> /\ up' = Tail(up) /\ UNCHANGED <<osfBefore, applied>>
    /\ \E p \in Piece :
         /\ p.sess = up[1].sess \/ (pending # NULL /\ p.sess = pending.sess)
         /\ \/ pending' = p /\ UNCHANGED <<pc, job>>
            \/ pending' = NULL /\ pc' = "loop" /\ job' = NULL
            \/ pending' = NULL /\ pc' = "status" /\ job' = p

LineKept ==
    \/ up' = up
    \/ up # <<>> /\ up' = Tail(up)
    \/ up # <<>> /\ \E p \in Piece : p.sess = up[1].sess /\ up' = [up EXCEPT ![1] = p]
GoesOn ==
    \/ UNCHANGED main
    \/ pc' = "loop" /\ job' = NULL /\ pending' \in {pending, NULL} /\ osfBefore' \in BOOLEAN
    \/ /\ <<pc, pc'>> \in {<<"status", "time">>, <<"time", "readback">>, <<"readback", "clear">>, <<"clear", "reread">>}
       /\ UNCHANGED <<job, pending>> /\ osfBefore' \in BOOLEAN
LineStep == Added \/ Taken \/ (LineKept /\ GoesOn)

LEMMA PieceOfType == \A c \in Sessions, t \in Texts, nl \in BOOLEAN : PieceOf(c, t, nl) \in Piece /\ PieceOf(c, t, nl).sess = c
  BY DEF PieceOf, Piece

LEMMA PieceFields == \A p \in Piece : p.sess \in Sessions /\ p.text \in Texts /\ p.nl \in BOOLEAN
  BY DEF Piece

LEMMA LineTypes ==
  ASSUME TypeOK
  PROVE  /\ up \in Seq(Piece) /\ down \in Seq(Result)
         /\ pc \in {"loop", "status", "time", "readback", "clear", "reread"}
         /\ pending \in Piece \cup {NULL} /\ job \in Piece \cup {NULL}
         /\ (job = NULL) <=> (pc = "loop")
         /\ osfBefore \in BOOLEAN /\ osf \in BOOLEAN
  BY Zenon DEF TypeOK, LineType, MainType, ClockType

LEMMA CurIsSession == ASSUME TypeOK, cur # NULL PROVE cur \in Sessions
<1>1. reply \in Seq(Replies) /\ Len(reply) <= MaxCalls /\ cur \in DOMAIN reply
  BY Zenon DEF TypeOK, CallType
<1>2. Len(reply) \in Nat /\ DOMAIN reply = 1..Len(reply) BY <1>1, LenProperties, Zenon
<1>3. QED BY <1>1, <1>2, BoundsAssumption DEF Sessions

LEMMA CurInWrite == ASSUME TypeOK, phase # "idle" PROVE cur # NULL
  BY Zenon DEF TypeOK, CallType

LEMMA JoinedIs ==
  ASSUME TypeOK, up # <<>>, NEW q \in Joined(Head(up))
  PROVE  q \in Piece /\ (q.sess = up[1].sess \/ (pending # NULL /\ q.sess = pending.sess))
<1>1. Head(up) = up[1] /\ up[1] \in Piece BY LineTypes, TailFacts, Zenon
<1>2. up[1].sess \in Sessions /\ up[1].nl \in BOOLEAN BY <1>1, PieceFields, Zenon
<1>3. "broken" \in Texts BY DEF Texts
<1>4. CASE pending = NULL BY <1>1, <1>4, Zenon DEF Joined
<1>5. CASE pending # NULL
  <2>1. pending \in Piece BY <1>5, LineTypes, Zenon
  <2>2. pending.sess \in Sessions /\ pending.text \in Texts BY <2>1, PieceFields, Zenon
  <2>3. q = PieceOf(up[1].sess, "broken", up[1].nl) \/ q = PieceOf(pending.sess, pending.text, up[1].nl)
    BY <1>1, <1>5 DEF Joined
  <2>4. CASE q = PieceOf(up[1].sess, "broken", up[1].nl) BY <1>2, <1>3, <2>4, PieceOfType
  <2>5. CASE q = PieceOf(pending.sess, pending.text, up[1].nl) BY <1>2, <1>5, <2>2, <2>5, PieceOfType
  <2>6. QED BY <2>3, <2>4, <2>5, Zenon
<1>6. QED BY <1>4, <1>5, Zenon

LEMMA LineSteps == ASSUME TypeOK, [Next]_vars PROVE LineStep
<1> USE LineTypes
<1>1. ASSUME up # <<>> PROVE up[1] \in Piece /\ up[1].sess \in Sessions /\ up[1].nl \in BOOLEAN /\ Head(up) = up[1]
  <2>1. Head(up) = up[1] /\ up[1] \in Piece BY <1>1, TailFacts, Zenon
  <2>2. QED BY <2>1, PieceFields, Zenon
<1>2. CASE WriteDone
  <2>1. cur \in Sessions BY <1>2, CurInWrite, CurIsSession DEF WriteDone
  <2>2. Frame(cur) \in Piece /\ Frame(cur).sess = cur BY <2>1, PieceOfType DEF Frame, Texts
  <2>3. phase = "write" /\ phase' # "write" /\ UNCHANGED main /\ up' = Append(up, Frame(cur))
    BY <1>2 DEF WriteDone
  <2>4. QED BY <2>2, <2>3, Zenon DEF Added, LineStep
<1>3. CASE WriteFails
  <2>1. cur \in Sessions BY <1>3, CurInWrite, CurIsSession DEF WriteFails
  <2>2. phase = "write" /\ phase' # "write" /\ UNCHANGED main BY <1>3 DEF WriteFails, Finish
  <2>3. CASE up' = up BY <2>2, <2>3, Zenon DEF LineKept, GoesOn, LineStep
  <2>4. CASE \E t \in {"frame", "broken"} : up' = Append(up, PieceOf(cur, t, FALSE))
    <3>1. PICK t \in Texts : up' = Append(up, PieceOf(cur, t, FALSE)) BY <2>4 DEF Texts
    <3>2. PieceOf(cur, t, FALSE) \in Piece /\ PieceOf(cur, t, FALSE).sess = cur BY <2>1, PieceOfType
    <3>3. QED BY <2>2, <3>1, <3>2, Zenon DEF Added, LineStep
  <2>5. QED BY <1>3, <2>3, <2>4 DEF WriteFails
<1>4. CASE Garble
  <2>1. up # <<>> /\ UNCHANGED main BY <1>4, Zenon DEF Garble
  <2>2. PICK t \in Texts, nl \in BOOLEAN : up' = [up EXCEPT ![1] = PieceOf(up[1].sess, t, nl)]
    BY <1>4 DEF Garble
  <2>3. PieceOf(up[1].sess, t, nl) \in Piece /\ PieceOf(up[1].sess, t, nl).sess = up[1].sess
    BY <1>1, <2>1, PieceOfType, Zenon
  <2>4. LineKept BY <2>1, <2>2, <2>3, Zenon DEF LineKept
  <2>5. QED BY <2>1, <2>4, Zenon DEF GoesOn, LineStep
<1>5. CASE ReadPiece
  <2>1. /\ pc = "loop" /\ up # <<>> /\ up' = Tail(up) /\ UNCHANGED <<osfBefore, applied, pc, job>>
        /\ pending' \in Joined(Head(up))
    BY <1>5, Zenon DEF ReadPiece, device
  <2>2. pending' \in Piece /\ (pending'.sess = up[1].sess \/ (pending # NULL /\ pending'.sess = pending.sess))
    BY <2>1, JoinedIs, Zenon
  <2>3. QED BY <2>1, <2>2, Zenon DEF Taken, LineStep
<1>6. CASE ReadLine
  <2>1. /\ pc = "loop" /\ up # <<>> /\ up' = Tail(up) /\ UNCHANGED <<osfBefore, applied>> /\ pending' = NULL
    BY <1>6, Zenon DEF ReadLine, device
  <2>2. PICK q \in Joined(Head(up)) : RejectLine(q) \/ StartJob(q) BY <1>6, Zenon DEF ReadLine
  <2>3. q \in Piece /\ (q.sess = up[1].sess \/ (pending # NULL /\ q.sess = pending.sess))
    BY <2>1, <2>2, JoinedIs, Zenon
  <2>4. (pc' = "loop" /\ job' = NULL) \/ (pc' = "status" /\ job' = q)
    BY <2>2, Zenon DEF RejectLine, StartJob, Emit
  <2>5. QED BY <2>1, <2>3, <2>4, Zenon DEF Taken, LineStep
<1>7. CASE MainReset
  <2>1. pc' = "loop" /\ job' = NULL /\ pending' = NULL /\ osfBefore' = FALSE BY <1>7, Zenon DEF MainReset
  <2>2. up' = up \/ (up # <<>> /\ (up' = Tail(up) \/ up' = [up EXCEPT ![1] = PieceOf(up[1].sess, "broken", up[1].nl)]))
    BY <1>7 DEF MainReset
  <2>3. up # <<>> => /\ PieceOf(up[1].sess, "broken", up[1].nl) \in Piece
                     /\ PieceOf(up[1].sess, "broken", up[1].nl).sess = up[1].sess
    BY <1>1, PieceOfType DEF Texts
  <2>4. LineKept BY <2>2, <2>3, Zenon DEF LineKept
  <2>5. GoesOn BY <2>1, Zenon DEF GoesOn
  <2>6. QED BY <2>4, <2>5, Zenon DEF LineStep
<1>8. CASE \/ \E p \in {"status", "time", "readback", "clear", "reread"} : AccessFails(p)
           \/ WriteTimeFails \/ ClearOsfFails \/ Reread
  <2>1. up' = up /\ pc' = "loop" /\ job' = NULL /\ pending' = pending /\ osfBefore' = osfBefore
    BY <1>8, Zenon DEF AccessFails, WriteTimeFails, ClearOsfFails, Reread, Emit
  <2>2. QED BY <2>1, Zenon DEF LineKept, GoesOn, LineStep
<1>9. CASE ReadStatus \/ WriteTime \/ ClearOsf
  <2>1. /\ up' = up /\ UNCHANGED <<job, pending>> /\ osfBefore' \in {osfBefore, osf}
        /\ <<pc, pc'>> \in {<<"status", "time">>, <<"time", "readback">>, <<"readback", "clear">>, <<"clear", "reread">>}
    BY <1>9 DEF ReadStatus, WriteTime, ClearOsf
  <2>2. osfBefore' \in BOOLEAN BY <2>1, Zenon
  <2>3. QED BY <2>1, <2>2, Zenon DEF LineKept, GoesOn, LineStep
<1>10. CASE Readback
  <2>1. up' = up /\ UNCHANGED <<pending, osfBefore>> BY <1>10, Zenon DEF Readback
  <2>2. CASE ReadbackAgrees /\ pc' = "clear" /\ UNCHANGED <<job, down>>
    <3>1. <<pc, pc'>> \in {<<"status", "time">>, <<"time", "readback">>, <<"readback", "clear">>, <<"clear", "reread">>}
      BY <1>10, <2>2 DEF Readback
    <3>2. QED BY <2>1, <2>2, <3>1, Zenon DEF LineKept, GoesOn, LineStep
  <2>3. CASE Emit(JobId, FALSE)
    <3>1. pc' = "loop" /\ job' = NULL BY <2>3, Zenon DEF Emit
    <3>2. QED BY <2>1, <3>1, Zenon DEF LineKept, GoesOn, LineStep
  <2>4. QED BY <1>10, <2>2, <2>3, Zenon DEF Readback
<1>11. CASE \/ \E r \in Refusals : CallRefused(r)
            \/ CallAccepted \/ FlushDone \/ FlushFails \/ WaitResult \/ WaitTimeout
            \/ Deliver \/ LoseResult \/ UNCHANGED vars
  <2>1. up' = up /\ UNCHANGED main
    BY <1>11, Zenon DEF CallRefused, CallAccepted, FlushDone, FlushFails, WaitResult, WaitTimeout, Deliver,
       LoseResult, vars
  <2>2. QED BY <2>1, Zenon DEF LineKept, GoesOn, LineStep
<1>12. QED
  BY <1>2, <1>3, <1>4, <1>5, <1>6, <1>7, <1>8, <1>9, <1>10, <1>11, NextIsStep, Zenon DEF Steps

(* What the clock has been set to. *)
SetStep ==
    \/ applied' = applied /\ (pc' \in Late => pc \in Late /\ job' = job)
    \/ /\ pc = "time" /\ applied' = Append(applied, job.sess)
       /\ pc' = "loop" \/ (pc' = "readback" /\ job' = job)

(* The clock itself. *)
DeviceStep ==
    \/ UNCHANGED <<rtc, osf>>
    \/ pc = "time" /\ applied' = Append(applied, job.sess) /\ osf' = osf /\ rtc' \in {job.sess, MIXED}
    \/ pc = "clear" /\ rtc' = rtc /\ osf' = FALSE /\ applied' = applied /\ pc' \in {"loop", "reread"}
    \/ rtc' = LOST /\ osf' = TRUE /\ applied' = applied /\ pc' = "loop"

LEMMA DeviceSteps == ASSUME TypeOK, [Next]_vars PROVE SetStep /\ DeviceStep
<1>1. CASE UNCHANGED device /\ UNCHANGED <<pc, job>>
  BY <1>1, Zenon DEF SetStep, DeviceStep, device
<1>2. CASE UNCHANGED device /\ pc' \in {"loop", "status", "time"}
  <2>1. pc' \notin Late BY <1>2 DEF Late
  <2>2. QED BY <1>2, <2>1, Zenon DEF SetStep, DeviceStep, device
<1>3. CASE UNCHANGED device /\ pc \in Late /\ UNCHANGED job
  BY <1>3, Zenon DEF SetStep, DeviceStep, device
<1>4. CASE \/ \E r \in Refusals : CallRefused(r)
           \/ CallAccepted \/ WriteDone \/ WriteFails \/ FlushDone \/ FlushFails \/ WaitResult \/ WaitTimeout
           \/ Deliver \/ LoseResult \/ Garble \/ ReadPiece \/ UNCHANGED vars
  <2>1. UNCHANGED device /\ UNCHANGED <<pc, job>>
    BY <1>4, Zenon DEF CallRefused, CallAccepted, WriteDone, WriteFails, FlushDone, FlushFails, WaitResult, WaitTimeout,
       Deliver, LoseResult, Garble, ReadPiece, main, vars
  <2>2. QED BY <1>1, <2>1, Zenon
<1>5. CASE ReadLine
  <2>1. UNCHANGED device /\ pc' \in {"loop", "status", "time"}
    BY <1>5, Zenon DEF ReadLine, RejectLine, StartJob, Emit
  <2>2. QED BY <1>2, <2>1, Zenon
<1>6. CASE (\E p \in {"status", "time", "readback", "clear", "reread"} : AccessFails(p)) \/ ReadStatus \/ Reread
  <2>1. UNCHANGED device /\ pc' \in {"loop", "status", "time"}
    BY <1>6, Zenon DEF AccessFails, ReadStatus, Reread, Emit
  <2>2. QED BY <1>2, <2>1, Zenon
<1>7. CASE WriteTime
  <2>1. /\ pc = "time" /\ applied' = Append(applied, job.sess) /\ osf' = osf /\ rtc' \in {job.sess, MIXED}
        /\ pc' = "readback" /\ job' = job
    BY <1>7, Zenon DEF WriteTime, TimeWritten
  <2>2. QED BY <2>1, Zenon DEF SetStep, DeviceStep
<1>8. CASE WriteTimeFails
  <2>1. /\ pc = "time" /\ applied' = Append(applied, job.sess) /\ osf' = osf /\ rtc' \in {job.sess, MIXED}
        /\ pc' = "loop"
    BY <1>8, Zenon DEF WriteTimeFails, TimeWritten, Emit
  <2>2. QED BY <2>1, Zenon DEF SetStep, DeviceStep
<1>9. CASE Readback
  <2>1. UNCHANGED device /\ pc = "readback" BY <1>9, Zenon DEF Readback
  <2>2. CASE UNCHANGED job BY <1>3, <2>1, <2>2 DEF Late
  <2>3. CASE Emit(JobId, FALSE) BY <1>2, <2>1, <2>3, Zenon DEF Emit
  <2>4. QED BY <1>9, <2>2, <2>3, Zenon DEF Readback
<1>10. CASE ClearOsf
  <2>1. pc = "clear" /\ job' = job /\ UNCHANGED <<rtc, applied>> /\ pc' = "reread" /\ osf' \in {FALSE, osf}
    BY <1>10, Zenon DEF ClearOsf
  <2>2. pc \in Late BY <2>1 DEF Late
  <2>3. QED BY <2>1, <2>2, Zenon DEF SetStep, DeviceStep
<1>11. CASE ClearOsfFails
  <2>1. pc = "clear" /\ UNCHANGED <<rtc, applied>> /\ pc' = "loop" /\ osf' = FALSE
    BY <1>11, Zenon DEF ClearOsfFails, Emit
  <2>2. pc' \notin Late BY <2>1 DEF Late
  <2>3. QED BY <2>1, <2>2, Zenon DEF SetStep, DeviceStep
<1>12. CASE MainReset
  <2>1. pc' = "loop" BY <1>12, Zenon DEF MainReset
  <2>2. pc' \notin Late BY <2>1 DEF Late
  <2>3. CASE UNCHANGED device BY <1>2, <2>1, <2>3, Zenon
  <2>4. CASE pc = "time" /\ TimeWritten(MIXED) BY <2>1, <2>4, Zenon DEF TimeWritten, SetStep, DeviceStep
  <2>5. CASE rtc' = LOST /\ osf' = TRUE /\ UNCHANGED applied
    BY <2>1, <2>2, <2>5, Zenon DEF SetStep, DeviceStep
  <2>6. QED BY <1>12, <2>3, <2>4, <2>5, Zenon DEF MainReset
<1>13. QED
  BY <1>4, <1>5, <1>6, <1>7, <1>8, <1>9, <1>10, <1>11, <1>12, NextIsStep, Zenon DEF Steps

(* The results on their way back: one taken off the front, or one put at the end about *)
(* MAIN's own request or about none; only the last status read says that it succeeded. *)
DownStep ==
    \/ down' = down
    \/ down # <<>> /\ down' = Tail(down)
    \/ \E r \in Result :
         /\ down' = Append(down, r) /\ inbox' = inbox /\ pc' = "loop"
         /\ r.ok => pc = "reread" /\ ~osf /\ UNCHANGED device /\ (r.id # NULL => r.id = job.sess)

LEMMA Emitted ==
  ASSUME NEW id \in Sessions \cup {NULL}, NEW ok \in BOOLEAN, Emit(id, ok)
  PROVE  \E r \in Result : down' = Append(down, r) /\ r.id = id /\ r.ok = ok /\ pc' = "loop"
<1>1. [id |-> id, ok |-> ok] \in Result BY DEF Result
<1>2. QED BY <1>1 DEF Emit

LEMMA JobIdType == ASSUME TypeOK, pc # "loop" PROVE JobId \in Sessions \cup {NULL} /\ (JobId # NULL => JobId = job.sess)
<1>1. job \in Piece BY LineTypes, Zenon
<1>2. job.sess \in Sessions BY <1>1, PieceFields, Zenon
<1>3. QED BY <1>2 DEF JobId

LEMMA DownSteps == ASSUME TypeOK, [Next]_vars PROVE DownStep
<1> USE LineTypes
<1>1. ASSUME pc # "loop", Emit(JobId, FALSE), inbox' = inbox PROVE DownStep
  <2>1. JobId \in Sessions \cup {NULL} BY <1>1, JobIdType, Zenon
  <2>2. PICK r \in Result : down' = Append(down, r) /\ r.ok = FALSE /\ pc' = "loop" BY <1>1, <2>1, Emitted
  <2>3. QED BY <1>1, <2>2, Zenon DEF DownStep
<1>2. CASE \/ \E r \in Refusals : CallRefused(r)
           \/ CallAccepted \/ WriteDone \/ WriteFails \/ FlushDone \/ FlushFails \/ WaitResult \/ WaitTimeout
           \/ Garble \/ ReadPiece \/ ReadStatus \/ WriteTime \/ ClearOsf \/ MainReset \/ UNCHANGED vars
  <2>1. down' = down
    BY <1>2, Zenon DEF CallRefused, CallAccepted, WriteDone, WriteFails, FlushDone, FlushFails, WaitResult, WaitTimeout,
       Garble, ReadPiece, ReadStatus, WriteTime, ClearOsf, MainReset, vars
  <2>2. QED BY <2>1, Zenon DEF DownStep
<1>3. CASE Deliver \/ LoseResult BY <1>3, Zenon DEF Deliver, LoseResult, DownStep
<1>4. CASE ReadLine
  <2>1. inbox' = inbox /\ up # <<>> BY <1>4, Zenon DEF ReadLine, backend
  <2>2. PICK q \in Joined(Head(up)) : RejectLine(q) \/ StartJob(q) BY <1>4, Zenon DEF ReadLine
  <2>3. CASE StartJob(q) BY <2>3, Zenon DEF StartJob, DownStep
  <2>4. CASE RejectLine(q)
    <3>1. q.sess \in Sessions BY <2>1, <2>2, JoinedIs, PieceFields, Zenon
    <3>2. PICK id \in Sessions \cup {NULL} : Emit(id, FALSE) BY <2>4, <3>1 DEF RejectLine
    <3>3. PICK r \in Result : down' = Append(down, r) /\ r.ok = FALSE /\ pc' = "loop" BY <3>2, Emitted
    <3>4. QED BY <2>1, <3>3, Zenon DEF DownStep
  <2>5. QED BY <2>2, <2>3, <2>4, Zenon
<1>5. CASE (\E p \in {"status", "time", "readback", "clear", "reread"} : AccessFails(p)) \/ WriteTimeFails \/ ClearOsfFails
  <2>1. pc # "loop" /\ Emit(JobId, FALSE) /\ inbox' = inbox
    BY <1>5 DEF AccessFails, WriteTimeFails, ClearOsfFails, backend
  <2>2. QED BY <1>1, <2>1, Zenon
<1>6. CASE Readback
  <2>1. pc # "loop" /\ inbox' = inbox BY <1>6 DEF Readback, backend
  <2>2. CASE UNCHANGED <<job, down>> BY <2>2, Zenon DEF DownStep
  <2>3. CASE Emit(JobId, FALSE) BY <1>1, <2>1, <2>3, Zenon
  <2>4. QED BY <1>6, <2>2, <2>3, Zenon DEF Readback
<1>7. CASE Reread
  <2>1. pc = "reread" /\ pc # "loop" /\ inbox' = inbox /\ UNCHANGED device /\ Emit(JobId, ~osf)
    BY <1>7 DEF Reread, backend
  <2>2. JobId \in Sessions \cup {NULL} /\ (JobId # NULL => JobId = job.sess) BY <2>1, JobIdType, Zenon
  <2>3. (~osf) \in BOOLEAN OBVIOUS
  <2>4. PICK r \in Result : down' = Append(down, r) /\ r.id = JobId /\ r.ok = ~osf /\ pc' = "loop"
    BY <2>1, <2>2, <2>3, Emitted, Zenon
  <2>5. QED BY <2>1, <2>2, <2>4, Zenon DEF DownStep
<1>8. QED BY <1>2, <1>3, <1>4, <1>5, <1>6, <1>7, NextIsStep, Zenon DEF Steps

-----------------------------------------------------------------------------
(*                               the types                                 *)

LEMMA FaultsStep == [Next]_vars => faults' = faults \/ Fault
<1>1. Steps => faults' = faults \/ Fault
  BY Zenon DEF Steps, CallRefused, CallAccepted, WriteDone, WriteFails, FlushDone, FlushFails, WaitResult, WaitTimeout,
     Deliver, LoseResult, Garble, ReadPiece, ReadLine, AccessFails, ReadStatus, WriteTime, WriteTimeFails, Readback,
     ClearOsf, ClearOsfFails, Reread, MainReset, NoFault
<1>2. QED BY <1>1, NextIsStep, Zenon DEF vars

(* The pieces of the line, d of which are gone from its front, with their sessions. *)
Shifted(d) ==
    /\ up' \in Seq(Piece) /\ Len(up') = Len(up) - d
    /\ \A k \in 1..(Len(up) - d) : up'[k].sess = up[k + d].sess

LEMMA UpIsSeq == ASSUME TypeOK PROVE /\ up \in Seq(Piece) /\ Len(up) \in Nat /\ DOMAIN up = 1..Len(up)
                                     /\ \A k \in DOMAIN up : up[k] \in Piece /\ up[k].sess \in Sessions
<1>1. up \in Seq(Piece) BY LineTypes, Zenon
<1>2. Len(up) \in Nat /\ DOMAIN up = 1..Len(up) BY <1>1, LenProperties, Zenon
<1>3. \A k \in DOMAIN up : up[k] \in Piece BY <1>1, <1>2, ElementOfSeq, Zenon
<1>4. QED BY <1>1, <1>2, <1>3, PieceFields, Zenon

LEMMA TailShifts == ASSUME TypeOK, up # <<>>, up' = Tail(up) PROVE Shifted(1)
<1>1. up \in Seq(Piece) BY LineTypes, Zenon
<1>2. /\ Tail(up) \in Seq(Piece) /\ Len(Tail(up)) = Len(up) - 1
      /\ \A k \in 1..(Len(up) - 1) : Tail(up)[k] = up[k + 1]
  BY <1>1, TailFacts, Zenon
<1>3. QED BY <1>2, Zenon DEF Shifted

LEMMA LineKeptShifts == ASSUME TypeOK, LineKept PROVE \E d \in {0, 1} : Shifted(d)
<1>1. up \in Seq(Piece) /\ Len(up) \in Nat BY UpIsSeq, Zenon
<1>2. CASE up' = up
  <2>1. Shifted(0) BY <1>1, <1>2 DEF Shifted
  <2>2. QED BY <2>1, Zenon
<1>3. CASE up # <<>> /\ up' = Tail(up) BY <1>3, TailShifts, Zenon
<1>4. CASE up # <<>> /\ \E p \in Piece : p.sess = up[1].sess /\ up' = [up EXCEPT ![1] = p]
  <2>1. PICK p \in Piece : p.sess = up[1].sess /\ up' = [up EXCEPT ![1] = p] BY <1>4, Zenon
  <2>2. 1 \in 1..Len(up) BY <1>1, <1>4, TailFacts, Zenon
  <2>3. /\ up' \in Seq(Piece) /\ Len(up') = Len(up)
        /\ \A k \in 1..Len(up) : up'[k] = IF k = 1 THEN p ELSE up[k]
    BY <1>1, <2>1, <2>2, ExceptSeq
  <2>4. \A k \in 1..Len(up) : up'[k].sess = up[k].sess BY <2>1, <2>3, Zenon
  <2>5. Shifted(0) BY <1>1, <2>3, <2>4 DEF Shifted
  <2>6. QED BY <2>5, Zenon
<1>5. QED BY <1>2, <1>3, <1>4, Zenon DEF LineKept

LEMMA LineTypeStep == ASSUME TypeOK, [Next]_vars PROVE LineType'
<1>1. up \in Seq(Piece) /\ down \in Seq(Result) /\ faults \in 0..MaxFaults BY Zenon DEF TypeOK, LineType
<1>2. up' \in Seq(Piece)
  <2>1. CASE Added BY <1>1, <2>1, AppendFacts DEF Added
  <2>2. CASE Taken BY <2>2, TailShifts, Zenon DEF Taken, Shifted
  <2>3. CASE LineKept BY <2>3, LineKeptShifts, Zenon DEF Shifted
  <2>4. QED BY <2>1, <2>2, <2>3, LineSteps, Zenon DEF LineStep
<1>3. down' \in Seq(Result)
  <2>1. CASE down # <<>> /\ down' = Tail(down) BY <1>1, <2>1, TailFacts
  <2>2. CASE \E r \in Result : down' = Append(down, r) BY <1>1, <2>2, AppendFacts
  <2>3. QED BY <1>1, <2>1, <2>2, DownSteps, Zenon DEF DownStep
<1>4. faults' \in 0..MaxFaults BY <1>1, FaultsStep, BoundsAssumption DEF Fault
<1>5. QED BY <1>2, <1>3, <1>4, Zenon DEF LineType

LEMMA MainTypeStep == ASSUME TypeOK, [Next]_vars PROVE MainType'
<1>1. /\ pc \in {"loop", "status", "time", "readback", "clear", "reread"}
      /\ pending \in Piece \cup {NULL} /\ job \in Piece \cup {NULL}
      /\ (job = NULL) <=> (pc = "loop")
      /\ osfBefore \in BOOLEAN
  BY LineTypes, Zenon
<1>2. \A p \in Piece : p # NULL BY NullAssumption, Zenon
<1>3. CASE UNCHANGED main BY <1>1, <1>3 DEF MainType, main
<1>4. CASE Taken
  <2>1. osfBefore' = osfBefore /\ pc = "loop" BY <1>4, Zenon DEF Taken
  <2>2. PICK p \in Piece :
           \/ pending' = p /\ UNCHANGED <<pc, job>>
           \/ pending' = NULL /\ pc' = "loop" /\ job' = NULL
           \/ pending' = NULL /\ pc' = "status" /\ job' = p
    BY <1>4, Zenon DEF Taken
  <2>3. "status" # "loop" OBVIOUS
  <2>4. QED BY <1>1, <1>2, <2>1, <2>2, <2>3, Zenon DEF MainType
<1>5. CASE pc' = "loop" /\ job' = NULL /\ pending' \in {pending, NULL} /\ osfBefore' \in BOOLEAN
  BY <1>1, <1>5, Zenon DEF MainType
<1>6. CASE /\ <<pc, pc'>> \in {<<"status", "time">>, <<"time", "readback">>, <<"readback", "clear">>, <<"clear", "reread">>}
           /\ UNCHANGED <<job, pending>> /\ osfBefore' \in BOOLEAN
  <2>1. pc # "loop" /\ pc' # "loop" /\ pc' \in {"loop", "status", "time", "readback", "clear", "reread"}
    BY <1>6
  <2>2. QED BY <1>1, <1>6, <2>1, Zenon DEF MainType
<1>7. QED BY <1>3, <1>4, <1>5, <1>6, LineSteps, Zenon DEF LineStep, Added, GoesOn

LEMMA JobSession == ASSUME TypeOK, pc # "loop" PROVE job # NULL /\ job \in Piece /\ job.sess \in Sessions
<1>1. job # NULL /\ job \in Piece BY LineTypes, Zenon
<1>2. QED BY <1>1, PieceFields, Zenon

LEMMA ClockTypeStep == ASSUME TypeOK, [Next]_vars PROVE ClockType'
<1>1. osf \in BOOLEAN /\ rtc \in Sessions \cup {MIXED, LOST} /\ applied \in Seq(Sessions)
  BY Zenon DEF TypeOK, ClockType
<1>2. applied' \in Seq(Sessions)
  <2>1. CASE pc = "time" /\ applied' = Append(applied, job.sess)
    <3>1. job.sess \in Sessions BY <2>1, JobSession
    <3>2. QED BY <1>1, <2>1, <3>1, AppendFacts, Zenon
  <2>2. QED BY <1>1, <2>1, DeviceSteps, Zenon DEF SetStep
<1>3. osf' \in BOOLEAN BY <1>1, DeviceSteps, Zenon DEF DeviceStep
<1>4. rtc' \in Sessions \cup {MIXED, LOST}
  <2>1. CASE pc = "time" /\ rtc' \in {job.sess, MIXED} BY <2>1, JobSession
  <2>2. QED BY <1>1, <2>1, DeviceSteps, Zenon DEF DeviceStep
<1>5. QED BY <1>2, <1>3, <1>4, Zenon DEF ClockType

LEMMA TypeStep == TypeOK /\ [Next]_vars => TypeOK'
  BY CallTypeStep, LineTypeStep, MainTypeStep, ClockTypeStep, Zenon DEF TypeOK

LEMMA TypeInit == Init => TypeOK
<1> SUFFICES ASSUME Init PROVE TypeOK
  OBVIOUS
<1>1. /\ reply = <<>> /\ phase = "idle" /\ cur = NULL /\ inbox = NULL /\ up = <<>> /\ down = <<>>
      /\ pc = "loop" /\ job = NULL /\ pending = NULL /\ osfBefore = FALSE
      /\ rtc = LOST /\ osf = TRUE /\ applied = <<>> /\ faults = 0
  BY Zenon DEF Init
<1>2. /\ reply \in Seq(Replies) /\ Len(reply) = 0 /\ up \in Seq(Piece) /\ down \in Seq(Result)
      /\ applied \in Seq(Sessions)
  BY <1>1, EmptySeq
<1>3. CallType BY <1>1, <1>2, BoundsAssumption DEF CallType
<1>4. LineType BY <1>1, <1>2, BoundsAssumption DEF LineType
<1>5. MainType BY <1>1 DEF MainType
<1>6. ClockType BY <1>1, <1>2 DEF ClockType
<1>7. QED BY <1>3, <1>4, <1>5, <1>6, Zenon DEF TypeOK

-----------------------------------------------------------------------------
(*                  requests do not overtake each other                    *)

LEMMA SessionsAreNumbers == Sessions \subseteq Nat
  BY BoundsAssumption DEF Sessions

LEMMA AppliedIsSeq == ASSUME TypeOK PROVE /\ applied \in Seq(Sessions) /\ Len(applied) \in Nat
                                          /\ DOMAIN applied = 1..Len(applied)
                                          /\ \A k \in DOMAIN applied : applied[k] \in Sessions
<1>1. applied \in Seq(Sessions) BY Zenon DEF TypeOK, ClockType
<1>2. Len(applied) \in Nat /\ DOMAIN applied = 1..Len(applied) BY <1>1, LenProperties, Zenon
<1>3. QED BY <1>1, <1>2, ElementOfSeq, Zenon

LEMMA LastHasSet == ASSUME TypeOK, NEW s, IsLast(s) PROVE HasSet(s)
<1>1. Len(applied) \in DOMAIN applied
  BY AppliedIsSeq, EmptySeq DEF IsLast
<1>2. QED BY <1>1, Zenon DEF IsLast, HasSet

(* Every request MAIN has, or that is on its way to MAIN, comes from a call. *)
LEMMA JobKnown == ASSUME TypeOK, AppliedInv, pc # "loop" PROVE Carried(job.sess) \/ HasSet(job.sess)
<1>1. CASE pc \in {"status", "time"} BY <1>1, Zenon DEF Carried
<1>2. CASE pc \in Late BY <1>2, LastHasSet, Zenon DEF AppliedInv
<1>3. QED BY <1>1, <1>2, LineTypes DEF Late

LEMMA LineInvStep == ASSUME TypeOK, LineInv, AppliedInv, CallsInv, [Next]_vars PROVE LineInv'
<1> USE SessionsAreNumbers
<1>1. /\ Len(up) \in Nat /\ DOMAIN up = 1..Len(up) /\ up \in Seq(Piece)
      /\ \A k \in DOMAIN up : up[k].sess \in Nat
  BY UpIsSeq
<1>2. /\ \A k, l \in DOMAIN up : k < l => up[k].sess < up[l].sess
      /\ pending # NULL => \A k \in DOMAIN up : pending.sess < up[k].sess
      /\ job # NULL => pending = NULL /\ \A k \in DOMAIN up : job.sess < up[k].sess
  BY Zenon DEF LineInv
<1>3. pending # NULL => pending.sess \in Nat BY LineTypes, PieceFields
<1>4. job # NULL => job.sess \in Nat BY JobSession, LineTypes
<1>5. CASE Added
  <2>1. PICK p \in Piece : p.sess = cur /\ up' = Append(up, p) BY <1>5, Zenon DEF Added
  <2>2. phase = "write" /\ pending' = pending /\ job' = job BY <1>5, Zenon DEF Added, main
  <2>3. /\ DOMAIN up' = 1..(Len(up) + 1) /\ up'[Len(up) + 1] = p
        /\ \A k \in 1..Len(up) : up'[k] = up[k]
    BY <1>1, <2>1, AppendFacts
  <2>4. \A s \in Sessions : Carried(s) \/ HasSet(s) => s < cur BY <2>2, Zenon DEF CallsInv
  <2>5. \A k \in 1..Len(up) : up[k].sess < cur BY <1>1, <2>4, UpIsSeq, Zenon DEF Carried
  <2>6. pending # NULL => pending.sess < cur BY <2>4, LineTypes, PieceFields, Zenon DEF Carried
  <2>7. job # NULL => job.sess < cur BY <2>4, LineTypes, JobSession, JobKnown, Zenon
  <2>8. \A k \in DOMAIN up' : (k \in DOMAIN up /\ up'[k].sess = up[k].sess) \/ (k = Len(up) + 1 /\ up'[k].sess = cur)
    BY <1>1, <2>1, <2>3
  <2>9. ASSUME NEW k \in DOMAIN up', NEW l \in DOMAIN up', k < l PROVE up'[k].sess < up'[l].sess
    <3>1. k \in DOMAIN up /\ up'[k].sess = up[k].sess BY <1>1, <2>3, <2>8, <2>9
    <3>2. CASE l \in DOMAIN up /\ up'[l].sess = up[l].sess BY <1>2, <2>9, <3>1, <3>2
    <3>3. CASE up'[l].sess = cur BY <1>1, <2>5, <3>1, <3>3
    <3>4. QED BY <2>8, <3>2, <3>3, Zenon
  <2>10. pending' # NULL => \A k \in DOMAIN up' : pending'.sess < up'[k].sess
    BY <1>2, <2>2, <2>6, <2>8
  <2>11. job' # NULL => pending' = NULL /\ \A k \in DOMAIN up' : job'.sess < up'[k].sess
    BY <1>2, <2>2, <2>7, <2>8
  <2>12. QED BY <2>9, <2>10, <2>11, Zenon DEF LineInv
<1>6. CASE Taken
  <2>1. Shifted(1) BY <1>6, TailShifts, Zenon DEF Taken
  <2>2. /\ Len(up') = Len(up) - 1 /\ DOMAIN up' = 1..(Len(up) - 1)
        /\ \A k \in 1..(Len(up) - 1) : up'[k].sess = up[k + 1].sess
    BY <2>1, LenProperties DEF Shifted
  <2>3. PICK p \in Piece :
         /\ p.sess = up[1].sess \/ (pending # NULL /\ p.sess = pending.sess)
         /\ \/ pending' = p /\ UNCHANGED <<pc, job>>
            \/ pending' = NULL /\ pc' = "loop" /\ job' = NULL
            \/ pending' = NULL /\ pc' = "status" /\ job' = p
    BY <1>6, Zenon DEF Taken
  <2>4. job = NULL BY <1>6, LineTypes, Zenon DEF Taken
  <2>5. \A k \in DOMAIN up' : k + 1 \in DOMAIN up /\ 1 \in DOMAIN up /\ 1 < k + 1 /\ up'[k].sess = up[k + 1].sess
    BY <1>1, <2>2
  <2>6. \A k \in DOMAIN up' : p.sess < up'[k].sess
    <3>1. CASE p.sess = up[1].sess BY <1>2, <2>5, <3>1
    <3>2. CASE pending # NULL /\ p.sess = pending.sess BY <1>2, <2>5, <3>2
    <3>3. QED BY <2>3, <3>1, <3>2, Zenon
  <2>7. ASSUME NEW k \in DOMAIN up', NEW l \in DOMAIN up', k < l PROVE up'[k].sess < up'[l].sess
    <3>1. k + 1 < l + 1 BY <1>1, <2>2, <2>7
    <3>2. QED BY <1>2, <2>5, <3>1
  <2>8. (pending' # NULL => pending' = p) /\ (job' # NULL => job' = p /\ pending' = NULL)
    BY <2>3, <2>4, Zenon
  <2>9. QED BY <2>6, <2>7, <2>8, Zenon DEF LineInv
<1>7. CASE LineKept /\ GoesOn
  <2>1. PICK d \in {0, 1} : Shifted(d) BY <1>7, LineKeptShifts, Zenon
  <2>2. /\ Len(up') = Len(up) - d /\ DOMAIN up' = 1..(Len(up) - d)
        /\ \A k \in 1..(Len(up) - d) : up'[k].sess = up[k + d].sess
    BY <2>1, LenProperties DEF Shifted
  <2>3. \A k \in DOMAIN up' : k + d \in DOMAIN up /\ up'[k].sess = up[k + d].sess
    BY <1>1, <2>2
  <2>4. ASSUME NEW k \in DOMAIN up', NEW l \in DOMAIN up', k < l PROVE up'[k].sess < up'[l].sess
    <3>1. k + d < l + d BY <1>1, <2>2, <2>4
    <3>2. QED BY <1>2, <2>3, <3>1
  <2>5. (pending' # NULL => pending' = pending) /\ (job' # NULL => job' = job /\ pending' = pending)
    BY <1>7, Zenon DEF GoesOn, main
  <2>6. pending' # NULL => \A k \in DOMAIN up' : pending'.sess < up'[k].sess BY <1>2, <2>3, <2>5
  <2>7. job' # NULL => pending' = NULL /\ \A k \in DOMAIN up' : job'.sess < up'[k].sess BY <1>2, <2>3, <2>5
  <2>8. QED BY <2>4, <2>6, <2>7, Zenon DEF LineInv
<1>8. QED BY <1>5, <1>6, <1>7, LineSteps, Zenon DEF LineStep

(* What is carried was carried before, or is the request that is being written; and what *)
(* sets the clock was carried.                                                           *)
LEMMA CarriedStep ==
  ASSUME TypeOK, [Next]_vars, NEW s, Carried(s)'
  PROVE  Carried(s) \/ (phase = "write" /\ phase' # "write" /\ s = cur /\ UNCHANGED <<main, applied>>)
<1>1. /\ Len(up) \in Nat /\ DOMAIN up = 1..Len(up) /\ up \in Seq(Piece)
  BY UpIsSeq
<1>2. ASSUME NEW d \in {0, 1}, Shifted(d), \E k \in DOMAIN up' : up'[k].sess = s PROVE Carried(s)
  <2>1. PICK k \in DOMAIN up' : up'[k].sess = s BY <1>2, Zenon
  <2>2. k \in 1..(Len(up) - d) BY <1>2, LenProperties DEF Shifted
  <2>3. k + d \in DOMAIN up /\ up[k + d].sess = s BY <1>1, <1>2, <2>1, <2>2 DEF Shifted
  <2>4. QED BY <2>3, Zenon DEF Carried
<1>3. \/ \E k \in DOMAIN up' : up'[k].sess = s
      \/ pending' # NULL /\ pending'.sess = s
      \/ pc' \in {"status", "time"} /\ job'.sess = s
  BY Zenon DEF Carried
<1>4. CASE Added
  <2>1. PICK p \in Piece : p.sess = cur /\ up' = Append(up, p) BY <1>4, Zenon DEF Added
  <2>2. phase = "write" /\ phase' # "write" /\ UNCHANGED main BY <1>4, Zenon DEF Added
  <2>3. applied' = applied
    <3>1. pc' = pc BY <2>2, Zenon DEF main
    <3>2. CASE pc = "time" /\ pc' \in {"loop", "readback"} BY <3>1, <3>2
    <3>3. QED BY <3>2, DeviceSteps, Zenon DEF SetStep
  <2>4. CASE \E k \in DOMAIN up' : up'[k].sess = s
    <3>1. PICK k \in DOMAIN up' : up'[k].sess = s BY <2>4, Zenon
    <3>2. (k \in 1..Len(up) /\ up'[k] = up[k]) \/ up'[k] = p BY <1>1, <2>1, AppendFacts
    <3>3. QED BY <1>1, <2>1, <2>2, <2>3, <3>1, <3>2, Zenon DEF Carried
  <2>5. CASE \/ pending' # NULL /\ pending'.sess = s
             \/ pc' \in {"status", "time"} /\ job'.sess = s
    BY <2>2, <2>5, Zenon DEF Carried, main
  <2>6. QED BY <1>3, <2>4, <2>5, Zenon
<1>5. CASE Taken
  <2>1. Shifted(1) /\ 1 \in DOMAIN up
    BY <1>1, <1>5, TailShifts, TailFacts, Zenon DEF Taken
  <2>2. PICK p \in Piece :
         /\ p.sess = up[1].sess \/ (pending # NULL /\ p.sess = pending.sess)
         /\ \/ pending' = p /\ UNCHANGED <<pc, job>>
            \/ pending' = NULL /\ pc' = "loop" /\ job' = NULL
            \/ pending' = NULL /\ pc' = "status" /\ job' = p
    BY <1>5, Zenon DEF Taken
  <2>3. CASE \E k \in DOMAIN up' : up'[k].sess = s BY <1>2, <2>1, <2>3
  <2>4. CASE s = p.sess BY <2>1, <2>2, <2>4, Zenon DEF Carried
  <2>5. pc = "loop" /\ pc \notin {"status", "time"} BY <1>5 DEF Taken
  <2>6. CASE pending' # NULL /\ pending'.sess = s BY <2>2, <2>4, <2>6, Zenon
  <2>7. CASE pc' \in {"status", "time"} /\ job'.sess = s BY <2>2, <2>4, <2>5, <2>7
  <2>8. QED BY <1>3, <2>3, <2>6, <2>7, Zenon
<1>6. CASE LineKept /\ GoesOn
  <2>1. PICK d \in {0, 1} : Shifted(d) BY <1>6, LineKeptShifts, Zenon
  <2>2. CASE \E k \in DOMAIN up' : up'[k].sess = s BY <1>2, <2>1, <2>2
  <2>3. CASE pending' # NULL /\ pending'.sess = s
    <3>1. pending' = pending BY <1>6, <2>3, Zenon DEF GoesOn, main
    <3>2. QED BY <2>3, <3>1, Zenon DEF Carried
  <2>4. CASE pc' \in {"status", "time"} /\ job'.sess = s
    <3>1. pc \in {"status", "time"} /\ job' = job BY <1>6, <2>4 DEF GoesOn, main
    <3>2. QED BY <2>4, <3>1, Zenon DEF Carried
  <2>5. QED BY <1>3, <2>2, <2>3, <2>4, Zenon
<1>7. QED BY <1>4, <1>5, <1>6, LineSteps, Zenon DEF LineStep

LEMMA KnownStep ==
  ASSUME TypeOK, [Next]_vars, NEW s, Carried(s)' \/ HasSet(s)'
  PROVE  Carried(s) \/ HasSet(s) \/ (phase = "write" /\ phase' # "write" /\ s = cur)
<1>1. CASE HasSet(s)'
  <2>1. CASE applied' = applied BY <1>1, <2>1, Zenon DEF HasSet
  <2>2. CASE pc = "time" /\ applied' = Append(applied, job.sess)
    <3>1. job.sess \in Sessions BY <2>2, JobSession
    <3>2. \A k \in DOMAIN applied' : (k \in DOMAIN applied /\ applied'[k] = applied[k]) \/ applied'[k] = job.sess
      BY <2>2, <3>1, AppliedIsSeq, AppendFacts
    <3>3. Carried(job.sess) BY <2>2, Zenon DEF Carried
    <3>4. QED BY <1>1, <3>2, <3>3, Zenon DEF HasSet
  <2>3. QED BY <2>1, <2>2, DeviceSteps, Zenon DEF SetStep
<1>2. QED BY <1>1, CarriedStep, Zenon

LEMMA AppliedInvStep == ASSUME TypeOK, LineInv, AppliedInv, CallsInv, [Next]_vars PROVE AppliedInv'
<1> USE SessionsAreNumbers
<1>1. /\ applied \in Seq(Sessions) /\ Len(applied) \in Nat /\ DOMAIN applied = 1..Len(applied)
      /\ \A k \in DOMAIN applied : applied[k] \in Sessions
  BY AppliedIsSeq, Zenon
<1>2. /\ \A k, l \in DOMAIN applied : k < l => applied[k] < applied[l]
      /\ \A s \in Sessions : Carried(s) => \A k \in DOMAIN applied : applied[k] < s
      /\ pc \in Late => IsLast(job.sess)
  BY Zenon DEF AppliedInv
<1>3. CASE applied' = applied /\ (pc' \in Late => pc \in Late /\ job' = job)
  <2>1. pc' \in Late => IsLast(job.sess)' BY <1>2, <1>3, Zenon DEF IsLast
  <2>2. ASSUME NEW s \in Sessions, Carried(s)', NEW k \in DOMAIN applied PROVE applied[k] < s
    <3>1. CASE Carried(s) BY <1>2, <3>1, Zenon
    <3>2. CASE phase = "write" /\ s = cur
      <4>1. HasSet(applied[k]) /\ applied[k] \in Sessions BY <1>1, Zenon DEF HasSet
      <4>2. QED BY <3>2, <4>1, Zenon DEF CallsInv
    <3>3. QED BY <2>2, <3>1, <3>2, CarriedStep, Zenon
  <2>3. QED BY <1>2, <1>3, <2>1, <2>2, Zenon DEF AppliedInv
<1>4. CASE /\ pc = "time" /\ applied' = Append(applied, job.sess)
           /\ pc' = "loop" \/ (pc' = "readback" /\ job' = job)
  <2>1. job.sess \in Sessions /\ job # NULL BY <1>4, JobSession
  <2>2. /\ DOMAIN applied' = 1..(Len(applied) + 1) /\ Len(applied') = Len(applied) + 1 /\ applied' # <<>>
        /\ applied'[Len(applied) + 1] = job.sess
        /\ \A k \in 1..Len(applied) : applied'[k] = applied[k]
    BY <1>1, <1>4, <2>1, AppendFacts
  <2>3. \A k \in DOMAIN applied : applied[k] < job.sess
    BY <1>2, <1>4, <2>1, Zenon DEF Carried
  <2>4. \A k \in DOMAIN applied' : (k \in DOMAIN applied /\ applied'[k] = applied[k]) \/ (k = Len(applied) + 1 /\ applied'[k] = job.sess)
    BY <1>1, <2>2
  <2>5. ASSUME NEW k \in DOMAIN applied', NEW l \in DOMAIN applied', k < l PROVE applied'[k] < applied'[l]
    <3>1. k \in DOMAIN applied /\ applied'[k] = applied[k] BY <1>1, <2>2, <2>4, <2>5
    <3>2. QED BY <1>2, <2>3, <2>4, <2>5, <3>1, Zenon
  <2>6. ASSUME NEW s \in Sessions, Carried(s)' PROVE job.sess < s
    <3>1. LineKept /\ pending' \in {pending, NULL}
      <4>1. pc' # pc /\ pc # "loop" BY <1>4
      <4>2. QED BY <4>1, LineSteps, Zenon DEF LineStep, Added, Taken, GoesOn, main
    <3>2. pending = NULL /\ \A k \in DOMAIN up : job.sess < up[k].sess BY <2>1, Zenon DEF LineInv
    <3>3. PICK k \in DOMAIN up' : up'[k].sess = s
      <4>1. pc' \notin {"status", "time"} BY <1>4
      <4>2. QED BY <2>6, <3>1, <3>2, <4>1, Zenon DEF Carried
    <3>4. PICK d \in {0, 1} : Shifted(d) BY <3>1, LineKeptShifts, Zenon
    <3>5. k \in 1..(Len(up) - d) BY <3>4, LenProperties DEF Shifted
    <3>6. k + d \in DOMAIN up /\ up[k + d].sess = s BY <3>3, <3>4, <3>5, UpIsSeq DEF Shifted
    <3>7. QED BY <3>2, <3>6, Zenon
  <2>7. ASSUME NEW s \in Sessions, Carried(s)', NEW k \in DOMAIN applied' PROVE applied'[k] < s
    <3>1. job.sess < s BY <2>6, <2>7, Zenon
    <3>2. CASE applied'[k] = job.sess BY <3>1, <3>2
    <3>3. CASE k \in DOMAIN applied /\ applied'[k] = applied[k]
      <4>1. applied[k] < job.sess /\ applied[k] \in Nat /\ job.sess \in Nat /\ s \in Nat BY <1>1, <2>1, <2>3, <3>3
      <4>2. \A a, b, c \in Nat : a < b /\ b < c => a < c OBVIOUS
      <4>3. applied[k] < s BY <3>1, <4>1, <4>2, Zenon
      <4>4. QED BY <3>3, <4>3
    <3>4. QED BY <2>4, <3>2, <3>3, Zenon
  <2>8. pc' \in Late => IsLast(job.sess)'
    <3>1. pc' \in Late => job' = job BY <1>4 DEF Late
    <3>2. QED BY <2>2, <3>1 DEF IsLast
  <2>9. QED BY <2>5, <2>7, <2>8, Zenon DEF AppliedInv
<1>5. QED BY <1>3, <1>4, DeviceSteps, Zenon DEF SetStep

-----------------------------------------------------------------------------
(*                     they come from calls that were made                 *)

LEMMA ReplyIsSeq == ASSUME TypeOK PROVE /\ reply \in Seq(Replies) /\ Len(reply) \in Nat
                                        /\ DOMAIN reply = 1..Len(reply) /\ DOMAIN reply \subseteq Sessions
<1>1. reply \in Seq(Replies) /\ Len(reply) <= MaxCalls BY Zenon DEF TypeOK, CallType
<1>2. Len(reply) \in Nat /\ DOMAIN reply = 1..Len(reply) BY <1>1, LenProperties, Zenon
<1>3. QED BY <1>1, <1>2, BoundsAssumption DEF Sessions

(* What the answers are after a step. *)
LEMMA ReplyStep ==
  ASSUME TypeOK, [Next]_vars
  PROVE  /\ DOMAIN reply \subseteq DOMAIN reply'
         /\ \A i \in DOMAIN reply : reply'[i] = reply[i] \/ (Finished /\ i = cur /\ reply'[i] \notin {"PENDING"} \cup Refusals)
         /\ \A i \in DOMAIN reply' \ DOMAIN reply :
              /\ i = Len(reply) + 1
              /\ \/ reply'[i] \in Refusals /\ UNCHANGED <<phase, cur, inbox>>
                 \/ reply'[i] = "PENDING" /\ CallAccepted
<1>1. reply \in Seq(Replies) /\ Len(reply) \in Nat /\ DOMAIN reply = 1..Len(reply) BY ReplyIsSeq, Zenon
<1>2. \A r \in Replies : /\ DOMAIN Append(reply, r) = 1..(Len(reply) + 1)
                         /\ Append(reply, r)[Len(reply) + 1] = r
                         /\ \A i \in 1..Len(reply) : Append(reply, r)[i] = reply[i]
  BY <1>1, AppendFacts
<1>3. CASE \E r \in Refusals : CallRefused(r)
  <2>1. PICK r \in Refusals : CallRefused(r) BY <1>3, Zenon
  <2>2. r \in Replies BY DEF Refusals, Replies
  <2>3. reply' = Append(reply, r) /\ UNCHANGED <<phase, cur, inbox>> BY <2>1, Zenon DEF CallRefused
  <2>4. DOMAIN reply' = 1..(Len(reply) + 1) /\ reply'[Len(reply) + 1] = r
        /\ \A i \in 1..Len(reply) : reply'[i] = reply[i]
    BY <1>2, <2>2, <2>3, Zenon
  <2>5. \A i \in DOMAIN reply' \ DOMAIN reply : i = Len(reply) + 1 BY <1>1, <2>4
  <2>6. DOMAIN reply \subseteq DOMAIN reply' BY <1>1, <2>4
  <2>7. QED BY <1>1, <2>3, <2>4, <2>5, <2>6, Zenon
<1>4. CASE CallAccepted
  <2>1. "PENDING" \in Replies BY DEF Replies
  <2>2. reply' = Append(reply, "PENDING") BY <1>4, Zenon DEF CallAccepted
  <2>3. DOMAIN reply' = 1..(Len(reply) + 1) /\ reply'[Len(reply) + 1] = "PENDING"
        /\ \A i \in 1..Len(reply) : reply'[i] = reply[i]
    BY <1>2, <2>1, <2>2, Zenon
  <2>4. \A i \in DOMAIN reply' \ DOMAIN reply : i = Len(reply) + 1 BY <1>1, <2>3
  <2>5. DOMAIN reply \subseteq DOMAIN reply' BY <1>1, <2>3
  <2>6. QED BY <1>1, <1>4, <2>3, <2>4, <2>5, Zenon
<1>5. CASE Finished
  <2>1. PICK r \in Replies \ ({"PENDING"} \cup Refusals) : Finish(r) BY <1>5, Zenon DEF Finished
  <2>2. reply' = [reply EXCEPT ![cur] = r] BY <2>1, Zenon DEF Finish
  <2>3. DOMAIN reply' = DOMAIN reply /\ \A i \in DOMAIN reply : reply'[i] = IF i = cur THEN r ELSE reply[i]
    BY <2>2, Zenon
  <2>4. QED BY <1>5, <2>1, <2>3, Zenon
<1>6. CASE UNCHANGED reply BY <1>6, Zenon
<1>7. QED BY <1>3, <1>4, <1>5, <1>6, BackendSteps, Zenon DEF BackendStep, Deliver, backend

LEMMA CallsInvStep == ASSUME TypeOK, LineInv, AppliedInv, CallsInv, [Next]_vars PROVE CallsInv'
<1> USE SessionsAreNumbers
<1>1. reply \in Seq(Replies) /\ Len(reply) \in Nat /\ DOMAIN reply = 1..Len(reply) /\ DOMAIN reply \subseteq Sessions
  BY ReplyIsSeq, Zenon
<1>2. \A i \in DOMAIN reply : reply[i] = "PENDING" => i = cur BY Zenon DEF CallsInv
<1>3. "PENDING" \notin Refusals BY DEF Refusals
<1>4. CallAccepted => cur = NULL /\ cur' = Len(reply) + 1 BY DEF CallAccepted, TypeOK, CallType
<1>5. Finished => cur # NULL /\ cur' = NULL /\ phase' = "idle" BY CurInWrite, Zenon DEF Finished, Finish
<1>6. \A i \in DOMAIN reply : i # NULL BY <1>1, NullAssumption
<1>7. cur # NULL => cur \in DOMAIN reply BY Zenon DEF TypeOK, CallType
<1>8. CASE ~CallAccepted
  <2>1. cur' = cur \/ (Finished /\ cur' = NULL)
    BY <1>5, <1>8, BackendSteps, Zenon DEF BackendStep, Deliver, backend, CallRefused
  <2>2. ASSUME NEW i \in DOMAIN reply', reply'[i] = "PENDING" PROVE i = cur'
    <3>1. i \in DOMAIN reply /\ reply'[i] = reply[i]
      BY <1>3, <1>8, <2>2, ReplyStep, Zenon
    <3>2. i = cur BY <1>2, <2>2, <3>1, Zenon
    <3>3. ~Finished
      <4>1. SUFFICES ASSUME Finished PROVE FALSE OBVIOUS
      <4>2. PICK r \in Replies \ ({"PENDING"} \cup Refusals) : Finish(r) BY <4>1, Zenon DEF Finished
      <4>3. reply' = [reply EXCEPT ![cur] = r] BY <4>2, Zenon DEF Finish
      <4>4. reply'[i] = r BY <3>1, <3>2, <4>3, Zenon
      <4>5. QED BY <2>2, <4>2, <4>4, Zenon
    <3>4. QED BY <2>1, <3>2, <3>3, Zenon
  <2>3. ASSUME NEW s \in Sessions, Carried(s)' \/ HasSet(s)'
        PROVE /\ s \in DOMAIN reply' /\ reply'[s] \notin Refusals
              /\ cur' # NULL => s <= cur'
              /\ phase' = "write" => s < cur'
    <3>1. Carried(s) \/ HasSet(s) \/ (phase = "write" /\ phase' # "write" /\ s = cur) BY <2>3, KnownStep, Zenon
    <3>2. s \in DOMAIN reply /\ reply[s] \notin Refusals /\ (cur # NULL => s <= cur)
      <4>1. CASE Carried(s) \/ HasSet(s) BY <4>1, Zenon DEF CallsInv
      <4>2. CASE phase = "write" /\ s = cur
        <5>1. cur # NULL /\ reply[cur] = "PENDING" /\ cur \in DOMAIN reply
          <6>1. phase # "idle" BY <4>2
          <6>2. QED BY <6>1, Zenon DEF TypeOK, CallType
        <5>2. s <= cur BY <4>2
        <5>3. QED BY <1>3, <4>2, <5>1, <5>2, Zenon
      <4>3. QED BY <3>1, <4>1, <4>2, Zenon
    <3>3. s \in DOMAIN reply' /\ reply'[s] \notin Refusals BY <3>2, ReplyStep, Zenon
    <3>4. cur' # NULL => s <= cur' BY <2>1, <3>2, Zenon
    <3>5. phase' = "write" => s < cur'
      <4>1. SUFFICES ASSUME phase' = "write" PROVE s < cur' OBVIOUS
      <4>2. phase = "write" /\ cur' = cur
        <5>1. "write" \notin {"flush", "wait"} /\ "write" # "idle" OBVIOUS
        <5>2. QED BY <1>5, <1>8, <4>1, <5>1, BackendSteps, Zenon DEF BackendStep, Deliver, backend, CallRefused
      <4>3. Carried(s) \/ HasSet(s) BY <3>1, <4>1, Zenon
      <4>4. QED BY <4>2, <4>3, Zenon DEF CallsInv
    <3>6. QED BY <3>3, <3>4, <3>5, Zenon
  <2>4. QED BY <2>2, <2>3, Zenon DEF CallsInv
<1>9. CASE CallAccepted
  <2>1. cur = NULL /\ cur' = Len(reply) + 1 /\ phase = "idle" BY <1>4, <1>9, Zenon DEF CallAccepted
  <2>2. ~Finished BY <2>1, Zenon DEF Finished
  <2>3. ASSUME NEW i \in DOMAIN reply', reply'[i] = "PENDING" PROVE i = cur'
    <3>1. CASE i \in DOMAIN reply
      <4>1. reply[i] = "PENDING" BY <2>2, <2>3, <3>1, ReplyStep, Zenon
      <4>2. QED BY <1>2, <1>6, <2>1, <3>1, <4>1, Zenon
    <3>2. CASE i \notin DOMAIN reply BY <2>1, <3>2, ReplyStep, Zenon
    <3>3. QED BY <3>1, <3>2, Zenon
  <2>4. ASSUME NEW s \in Sessions, Carried(s)' \/ HasSet(s)'
        PROVE /\ s \in DOMAIN reply' /\ reply'[s] \notin Refusals
              /\ cur' # NULL => s <= cur'
              /\ phase' = "write" => s < cur'
    <3>1. phase # "write" BY <2>1
    <3>2. Carried(s) \/ HasSet(s) BY <2>4, <3>1, KnownStep, Zenon
    <3>3. s \in DOMAIN reply /\ reply[s] \notin Refusals BY <3>2, Zenon DEF CallsInv
    <3>4. s \in DOMAIN reply' /\ reply'[s] \notin Refusals BY <3>3, <2>2, ReplyStep, Zenon
    <3>5. s < cur' /\ s <= cur' BY <1>1, <2>1, <3>3
    <3>6. QED BY <3>4, <3>5, Zenon
  <2>5. QED BY <2>3, <2>4, Zenon DEF CallsInv
<1>10. QED BY <1>8, <1>9

-----------------------------------------------------------------------------
(*               results are about requests that set the clock             *)

LEMMA SuccessStep ==
  ASSUME TypeOK, [Next]_vars, NEW s \in DOMAIN reply', reply'[s] = "SUCCESS"
  PROVE  (s \in DOMAIN reply /\ reply[s] = "SUCCESS") \/ Reported(s)
<1>1. "SUCCESS" \notin Refusals /\ "SUCCESS" # "PENDING" BY DEF Refusals
<1>2. s \in DOMAIN reply /\ (reply'[s] = reply[s] \/ (Finished /\ s = cur))
  <2>1. reply'[s] \notin Refusals /\ reply'[s] # "PENDING" BY <1>1
  <2>2. s \in DOMAIN reply BY <2>1, ReplyStep, Zenon
  <2>3. QED BY <2>2, ReplyStep, Zenon
<1>3. CASE Finished /\ s = cur /\ reply'[s] # reply[s]
  <2>1. ASSUME NEW r, Finish(r) PROVE r = "SUCCESS"
    <3>1. reply' = [reply EXCEPT ![cur] = r] BY <2>1, Zenon DEF Finish
    <3>2. reply'[s] = r BY <1>2, <1>3, <3>1, Zenon
    <3>3. QED BY <3>2, Zenon
  <2>2. ~Finish("WRITE_FAILED") /\ ~Finish("RTC_SYNC_RESULT_TIMEOUT") /\ ~Finish("RTC_SYNC_RESULT_REJECTED")
    BY <2>1
  <2>3. reply' # reply BY <1>3, Zenon
  <2>4. ~\E r \in Refusals : CallRefused(r)
    <3>1. Finished => cur # NULL /\ cur' = NULL BY CurInWrite, Zenon DEF Finished, Finish
    <3>2. QED BY <1>3, <3>1, Zenon DEF CallRefused
  <2>5. ~CallAccepted BY <1>3 DEF CallAccepted, Finished
  <2>6. WaitResult
    BY <2>2, <2>3, <2>4, <2>5, NextIsStep, Zenon DEF Steps, WriteDone, WriteFails, FlushDone, FlushFails, WaitTimeout,
       Deliver, LoseResult, Garble, ReadPiece, ReadLine, AccessFails, ReadStatus, WriteTime, WriteTimeFails, Readback,
       ClearOsf, ClearOsfFails, Reread, MainReset, backend, vars
  <2>7. inbox # <<>> /\ Matches(Head(inbox)) /\ Finish(IF Head(inbox).ok THEN "SUCCESS" ELSE "RTC_SYNC_RESULT_REJECTED")
    BY <2>3, <2>6, Zenon DEF WaitResult
  <2>8. Head(inbox).ok BY <2>2, <2>7, Zenon
  <2>9. inbox # NULL /\ inbox \in Seq(Result)
    <3>1. phase # "idle" BY <1>3, Zenon DEF Finished
    <3>2. QED BY <3>1, Zenon DEF TypeOK, CallType
  <2>10. Head(inbox) = inbox[1] /\ 1 \in DOMAIN inbox BY <2>7, <2>9, TailFacts, Zenon
  <2>11. inbox[1].ok /\ inbox[1].id = s BY <1>3, <2>7, <2>8, <2>10, Zenon DEF Matches
  <2>12. QED BY <2>9, <2>10, <2>11, Zenon DEF Reported
<1>4. QED BY <1>2, <1>3, Zenon

LEMMA ReportedStep ==
  ASSUME TypeOK, [Next]_vars, NEW s \in Sessions, Reported(s)'
  PROVE  Reported(s) \/ (pc = "reread" /\ pc' = "loop" /\ s = job.sess /\ ~osf /\ UNCHANGED device)
<1>1. down \in Seq(Result) BY LineTypes, Zenon
<1>2. s # NULL BY NullAssumption, SessionsAreNumbers, Zenon
<1>3. CASE \E k \in DOMAIN down' : down'[k].ok /\ down'[k].id = s
  <2>1. PICK k \in DOMAIN down' : down'[k].ok /\ down'[k].id = s BY <1>3, Zenon
  <2>2. CASE down' = down BY <2>1, <2>2, Zenon DEF Reported
  <2>3. CASE down # <<>> /\ down' = Tail(down)
    <3>1. k + 1 \in DOMAIN down /\ down'[k] = down[k + 1] BY <1>1, <2>1, <2>3, TailFacts
    <3>2. QED BY <2>1, <3>1, Zenon DEF Reported
  <2>4. ASSUME NEW r \in Result, down' = Append(down, r), pc' = "loop",
               r.ok => pc = "reread" /\ ~osf /\ UNCHANGED device /\ (r.id # NULL => r.id = job.sess)
        PROVE Reported(s) \/ (pc = "reread" /\ pc' = "loop" /\ s = job.sess /\ ~osf /\ UNCHANGED device)
    <3>1. (k \in DOMAIN down /\ down'[k] = down[k]) \/ down'[k] = r BY <1>1, <2>1, <2>4, AppendFacts
    <3>2. QED BY <1>2, <2>1, <2>4, <3>1, Zenon DEF Reported
  <2>5. QED BY <2>2, <2>3, <2>4, DownSteps, Zenon DEF DownStep
<1>4. CASE inbox' # NULL /\ \E k \in DOMAIN inbox' : inbox'[k].ok /\ inbox'[k].id = s
  <2>1. PICK k \in DOMAIN inbox' : inbox'[k].ok /\ inbox'[k].id = s BY <1>4, Zenon
  <2>2. inbox # NULL => inbox \in Seq(Result) BY Zenon DEF TypeOK, CallType
  <2>3. phase # "idle" => inbox # NULL BY Zenon DEF TypeOK, CallType
  <2>4. CASE inbox' = inbox BY <1>4, <2>1, <2>4, Zenon DEF Reported
  <2>5. CASE CallAccepted
    <3>1. inbox' = <<>> BY <2>5, Zenon DEF CallAccepted
    <3>2. QED BY <2>1, <3>1
  <2>6. CASE Finished BY <1>4, <2>6, Zenon DEF Finished, Finish
  <2>7. CASE phase # "idle" /\ inbox # <<>> /\ inbox' = Tail(inbox)
    <3>1. k + 1 \in DOMAIN inbox /\ inbox'[k] = inbox[k + 1] BY <2>1, <2>2, <2>3, <2>7, TailFacts
    <3>2. QED BY <2>1, <2>3, <2>7, <3>1, Zenon DEF Reported
  <2>8. CASE Deliver
    <3>1. down # <<>> /\ inbox # NULL /\ inbox' = Append(inbox, Head(down)) BY <1>4, <2>8, Zenon DEF Deliver
    <3>2. Head(down) = down[1] /\ 1 \in DOMAIN down /\ down[1] \in Result BY <1>1, <3>1, TailFacts, Zenon
    <3>3. (k \in DOMAIN inbox /\ inbox'[k] = inbox[k]) \/ inbox'[k] = down[1]
      BY <2>1, <2>2, <3>1, <3>2, AppendFacts
    <3>4. QED BY <2>1, <3>1, <3>2, <3>3, Zenon DEF Reported
  <2>9. QED BY <2>4, <2>5, <2>6, <2>7, <2>8, BackendSteps, Zenon DEF BackendStep, backend, CallRefused
<1>5. QED BY <1>3, <1>4, Zenon DEF Reported

LEMMA ConfirmedStep ==
  ASSUME TypeOK, [Next]_vars, NEW s \in Sessions, Confirmed(s)'
  PROVE  Confirmed(s) \/ (pc = "reread" /\ pc' = "loop" /\ s = job.sess /\ ~osf /\ UNCHANGED device)
<1>1. CASE Reported(s)' BY <1>1, ReportedStep, Zenon DEF Confirmed
<1>2. CASE s \in DOMAIN reply' /\ reply'[s] = "SUCCESS" BY <1>2, SuccessStep, Zenon DEF Confirmed
<1>3. QED BY <1>1, <1>2, Zenon DEF Confirmed

LEMMA SetStays == ASSUME TypeOK, [Next]_vars, NEW s, HasSet(s) PROVE HasSet(s)'
<1>1. CASE applied' = applied BY <1>1, Zenon DEF HasSet
<1>2. CASE pc = "time" /\ applied' = Append(applied, job.sess)
  <2>1. job.sess \in Sessions BY <1>2, JobSession
  <2>2. \A k \in DOMAIN applied : k \in DOMAIN applied' /\ applied'[k] = applied[k]
    BY <1>2, <2>1, AppliedIsSeq, AppendFacts
  <2>3. QED BY <2>2, Zenon DEF HasSet
<1>3. QED BY <1>1, <1>2, DeviceSteps, Zenon DEF SetStep

(* The request whose time is about to be written has not been confirmed. *)
LEMMA NotYetConfirmed == ASSUME TypeOK, AppliedInv, ResultInv, pc = "time" PROVE ~Confirmed(job.sess)
<1>1. job.sess \in Sessions BY JobSession
<1>2. \A k \in DOMAIN applied : applied[k] < job.sess BY <1>1, Zenon DEF AppliedInv, Carried
<1>3. ~(job.sess < job.sess)
  <2>1. \A n \in Nat : ~(n < n) OBVIOUS
  <2>2. QED BY <1>1, <2>1, SessionsAreNumbers, Zenon
<1>4. QED BY <1>1, <1>2, <1>3, Zenon DEF ResultInv, HasSet

LEMMA ResultInvStep == ASSUME TypeOK, AppliedInv, ResultInv, [Next]_vars PROVE ResultInv'
<1>1. "reread" \in Late /\ "loop" \notin Late BY DEF Late
<1>2. ASSUME NEW s \in Sessions, Confirmed(s)' PROVE HasSet(s)'
  <2>1. CASE Confirmed(s) BY <2>1, SetStays, Zenon DEF ResultInv
  <2>2. CASE pc = "reread" /\ s = job.sess
    <3>1. IsLast(s) BY <1>1, <2>2, Zenon DEF AppliedInv
    <3>2. QED BY <3>1, LastHasSet, SetStays, Zenon
  <2>3. QED BY <1>2, <2>1, <2>2, ConfirmedStep, Zenon
<1>3. ASSUME pc' \in Late PROVE ~Confirmed(job.sess)'
  <2>1. job' = job /\ (pc \in Late \/ pc = "time") BY <1>1, <1>3, DeviceSteps, Zenon DEF SetStep
  <2>2. job.sess \in Sessions
    <3>1. pc # "loop" BY <2>1 DEF Late
    <3>2. QED BY <3>1, JobSession
  <2>3. ~Confirmed(job.sess) BY <2>1, NotYetConfirmed, Zenon DEF ResultInv
  <2>4. PICK s \in Sessions : s = job.sess BY <2>2, Zenon
  <2>5. pc' # "loop" /\ ~Confirmed(s) BY <1>1, <1>3, <2>3, <2>4
  <2>6. ~Confirmed(s)' BY <2>5, ConfirmedStep, Zenon
  <2>7. job'.sess = s BY <2>1, <2>4
  <2>8. QED BY <2>6, <2>7, Zenon DEF Confirmed, Reported
<1>4. QED BY <1>2, <1>3, Zenon DEF ResultInv

-----------------------------------------------------------------------------
(*                 nothing touches a clock that was confirmed              *)

(* The stop flag is only dealt with after the readback agreed. *)
LEMMA VerifiedStep ==
  ASSUME TypeOK, [Next]_vars, pc' \in {"clear", "reread"}
  PROVE  job' = job /\ rtc' = rtc /\ (pc \in {"clear", "reread"} \/ rtc = job.sess)
<1>1. pc' # "loop" /\ pc' # "status" /\ pc' # "time" /\ pc' # "readback" OBVIOUS
<1>2. CASE UNCHANGED main /\ rtc' = rtc BY <1>2, Zenon DEF main
<1>3. CASE UNCHANGED vars BY <1>2, <1>3, Zenon DEF vars, device
<1>4. CASE Readback
  <2>1. rtc' = rtc BY <1>4, Zenon DEF Readback, device
  <2>2. ~Emit(JobId, FALSE) BY <1>1, Zenon DEF Emit
  <2>3. ReadbackAgrees /\ job' = job BY <1>4, <2>2, Zenon DEF Readback
  <2>4. QED BY <2>1, <2>3, Zenon DEF ReadbackAgrees
<1>5. CASE ClearOsf BY <1>5, Zenon DEF ClearOsf
<1>6. CASE \/ \E p \in {"status", "time", "readback", "clear", "reread"} : AccessFails(p)
           \/ ReadLine \/ ReadStatus \/ WriteTime \/ WriteTimeFails \/ ClearOsfFails \/ Reread \/ MainReset
  <2>1. pc' \in {"loop", "status", "time", "readback"}
    BY <1>6, Zenon DEF AccessFails, ReadLine, RejectLine, StartJob, ReadStatus, WriteTime, WriteTimeFails, ClearOsfFails,
       Reread, MainReset, Emit
  <2>2. QED BY <1>1, <2>1, Zenon
<1>7. CASE \/ \E r \in Refusals : CallRefused(r)
           \/ CallAccepted \/ WriteDone \/ WriteFails \/ FlushDone \/ FlushFails \/ WaitResult \/ WaitTimeout
           \/ Deliver \/ LoseResult \/ Garble \/ ReadPiece
  <2>1. rtc' = rtc /\ job' = job /\ pc' = pc
    BY <1>7, Zenon DEF CallRefused, CallAccepted, WriteDone, WriteFails, FlushDone, FlushFails, WaitResult, WaitTimeout,
       Deliver, LoseResult, Garble, ReadPiece, main, device
  <2>2. QED BY <2>1, Zenon
<1>8. QED BY <1>3, <1>4, <1>5, <1>6, <1>7, NextIsStep, Zenon DEF Steps

LEMMA ClockInvStep == ASSUME TypeOK, AppliedInv, ResultInv, ClockInv, [Next]_vars PROVE ClockInv'
<1>1. ASSUME pc' \in {"clear", "reread"} PROVE rtc' = job'.sess
  BY <1>1, VerifiedStep, Zenon DEF ClockInv
<1>2. ASSUME NEW s \in Sessions, Confirmed(s)', IsLast(s)' PROVE Stands(s)'
  <2>1. CASE pc = "time" /\ applied' = Append(applied, job.sess)
    <3>1. job.sess \in Sessions BY <2>1, JobSession
    <3>2. applied' # <<>> /\ applied'[Len(applied')] = job.sess
      BY <2>1, <3>1, AppliedIsSeq, AppendFacts
    <3>3. s = job.sess BY <1>2, <3>2, Zenon DEF IsLast
    <3>4. ~Confirmed(s) BY <2>1, <3>3, NotYetConfirmed, Zenon
    <3>5. pc # "reread" BY <2>1
    <3>6. QED BY <1>2, <3>4, <3>5, ConfirmedStep, Zenon
  <2>2. CASE applied' = applied
    <3>1. IsLast(s) BY <1>2, <2>2, Zenon DEF IsLast
    <3>2. CASE rtc' = LOST /\ osf' = TRUE BY <3>2, Zenon DEF Stands
    <3>3. CASE pc = "clear"
      <4>1. pc \in Late /\ pc # "reread" BY <3>3 DEF Late
      <4>2. s = job.sess BY <3>1, <4>1, Zenon DEF AppliedInv, IsLast
      <4>3. ~Confirmed(s) BY <4>1, <4>2, Zenon DEF ResultInv
      <4>4. QED BY <1>2, <4>1, <4>3, ConfirmedStep, Zenon
    <3>4. CASE UNCHANGED <<rtc, osf>>
      <4>1. CASE Confirmed(s) BY <3>1, <3>4, <4>1, Zenon DEF ClockInv, Stands
      <4>2. CASE pc = "reread" /\ s = job.sess /\ ~osf
        <5>1. rtc = s BY <4>2, Zenon DEF ClockInv
        <5>2. QED BY <3>4, <4>2, <5>1, Zenon DEF Stands
      <4>3. QED BY <1>2, <4>1, <4>2, ConfirmedStep, Zenon
    <3>5. CASE pc = "time" /\ applied' = Append(applied, job.sess) BY <2>1, <3>5, Zenon
    <3>6. QED BY <3>2, <3>3, <3>4, <3>5, DeviceSteps, Zenon DEF DeviceStep
  <2>3. QED BY <2>1, <2>2, DeviceSteps, Zenon DEF SetStep
<1>3. QED BY <1>1, <1>2, Zenon DEF ClockInv

-----------------------------------------------------------------------------
(*                               the invariant                             *)

LEMMA InvInit == Init => IInv
<1> SUFFICES ASSUME Init PROVE IInv
  OBVIOUS
<1>1. /\ reply = <<>> /\ phase = "idle" /\ cur = NULL /\ inbox = NULL /\ up = <<>> /\ down = <<>>
      /\ pc = "loop" /\ job = NULL /\ pending = NULL /\ osfBefore = FALSE
      /\ rtc = LOST /\ osf = TRUE /\ applied = <<>> /\ faults = 0
  BY Zenon DEF Init
<1>2. DOMAIN up = {} /\ DOMAIN applied = {} /\ DOMAIN down = {} /\ DOMAIN reply = {}
  BY <1>1
<1>3. pc \notin Late /\ pc \notin {"status", "time"} /\ pc \notin {"clear", "reread"} BY <1>1 DEF Late
<1>4. \A s : ~Carried(s) /\ ~HasSet(s) /\ ~Reported(s) /\ ~Confirmed(s)
  BY <1>1, <1>2, <1>3, Zenon DEF Carried, HasSet, Confirmed, Reported
<1>5. LineInv BY <1>1, <1>2, Zenon DEF LineInv
<1>6. AppliedInv BY <1>2, <1>3, <1>4, Zenon DEF AppliedInv
<1>7. CallsInv BY <1>2, <1>4, Zenon DEF CallsInv
<1>8. ResultInv /\ ClockInv BY <1>3, <1>4, Zenon DEF ResultInv, ClockInv
<1>9. QED BY <1>5, <1>6, <1>7, <1>8, TypeInit, Zenon DEF IInv

LEMMA InvStep == IInv /\ [Next]_vars => IInv'
<1> SUFFICES ASSUME IInv, [Next]_vars PROVE IInv'
  OBVIOUS
<1>1. TypeOK /\ LineInv /\ AppliedInv /\ CallsInv /\ ResultInv /\ ClockInv BY Zenon DEF IInv
<1>2. TypeOK' BY <1>1, TypeStep, Zenon
<1>3. LineInv' BY <1>1, LineInvStep, Zenon
<1>4. AppliedInv' BY <1>1, AppliedInvStep, Zenon
<1>5. CallsInv' BY <1>1, CallsInvStep, Zenon
<1>6. ResultInv' BY <1>1, ResultInvStep, Zenon
<1>7. ClockInv' BY <1>1, ClockInvStep, Zenon
<1>8. QED BY <1>2, <1>3, <1>4, <1>5, <1>6, <1>7, Zenon DEF IInv

LEMMA InvAlways == Spec => []IInv
  BY InvInit, InvStep, PTL DEF Spec

(* The lock, the session and the subscription go together, MAIN holds a request exactly while *)
(* it is in a transaction, and no value leaves its type: rtc_sync_service.py, the loop of MAIN. *)
THEOREM SyncTypeCorrect == Spec => []TypeOK
<1>1. IInv => TypeOK BY Zenon DEF IInv
<1>2. QED BY <1>1, InvAlways, PTL

(* A clock whose last setting was answered SUCCESS holds that time with the stop flag clear, or *)
(* has lost power: performDs3231SessionSync and the matching of its result by session id.      *)
THEOREM ConfirmedTimeStands == Spec => []LastSyncedTimeStands
<1>1. IInv => LastSyncedTimeStands
  <2> SUFFICES ASSUME IInv, NEW i \in DOMAIN reply, reply[i] = "SUCCESS", applied # <<>>, applied[Len(applied)] = i
               PROVE  (rtc = i /\ ~osf) \/ (rtc = LOST /\ osf)
    BY Zenon DEF LastSyncedTimeStands
  <2>1. i \in Sessions BY ReplyIsSeq DEF IInv
  <2>2. Confirmed(i) /\ IsLast(i) BY Zenon DEF Confirmed, IsLast
  <2>3. Stands(i) BY <2>1, <2>2, Zenon DEF IInv, ClockInv
  <2>4. QED BY <2>3, Zenon DEF Stands
<1>2. QED BY <1>1, InvAlways, PTL

(* Whatever fails and whenever MAIN is reset, the stop flag is cleared only while the clock holds *)
(* the time of the request in hand: the order of steps in performDs3231SessionSync.              *)
THEOREM FlagClearedOverVerifiedTime == Spec => OsfClearedOnlyVerified
<1>1. IInv /\ [Next]_vars => [osf /\ ~osf' => job # NULL /\ rtc = job.sess]_vars
  <2> SUFFICES ASSUME IInv, [Next]_vars, osf, ~osf' PROVE job # NULL /\ rtc = job.sess
    BY Zenon
  <2>1. TypeOK /\ ClockInv BY Zenon DEF IInv
  <2>2. pc = "clear" BY <2>1, DeviceSteps, Zenon DEF DeviceStep
  <2>3. pc # "loop" /\ pc \in {"clear", "reread"} BY <2>2
  <2>4. QED BY <2>1, <2>3, JobSession, Zenon DEF ClockInv
<1>2. QED BY <1>1, InvAlways, PTL DEF Spec, OsfClearedOnlyVerified

-----------------------------------------------------------------------------
(*                              the refinement                             *)

Answers == {"pending", "success", "refused", "unknown"}

LEMMA AnswerMeans ==
  ASSUME NEW r \in Replies
  PROVE  /\ Answer(r) \in Answers
         /\ Answer(r) = "pending" <=> r = "PENDING"
         /\ Answer(r) = "success" <=> r = "SUCCESS"
         /\ Answer(r) = "refused" <=> r \in Refusals
  BY DEF Answer, Replies, Refusals, Answers

LEMMA ToldIsSeq ==
  ASSUME TypeOK
  PROVE  /\ Told \in Seq(Answers) /\ Len(Told) = Len(reply) /\ DOMAIN Told = DOMAIN reply
         /\ \A i \in DOMAIN reply : reply[i] \in Replies /\ Told[i] = Answer(reply[i])
<1>1. reply \in Seq(Replies) /\ Len(reply) \in Nat /\ DOMAIN reply = 1..Len(reply) BY ReplyIsSeq, Zenon
<1>2. \A i \in DOMAIN reply : reply[i] \in Replies BY <1>1, ElementOfSeq, Zenon
<1>3. DOMAIN Told = 1..Len(reply) /\ \A i \in DOMAIN reply : Told[i] = Answer(reply[i]) BY <1>1, Zenon DEF Told
<1>4. \A i \in 1..Len(reply) : Answer(reply[i]) \in Answers BY <1>1, <1>2, AnswerMeans, Zenon
<1>5. Told \in [1..Len(reply) -> Answers] BY <1>1, <1>4, Zenon DEF Told
<1>6. Told \in Seq(Answers) BY <1>1, <1>5
<1>7. Len(Told) = Len(reply)
  <2>1. Len(Told) \in Nat /\ DOMAIN Told = 1..Len(Told) BY <1>6, LenProperties, Zenon
  <2>2. QED BY <1>1, <1>3, <2>1
<1>8. QED BY <1>1, <1>2, <1>3, <1>6, <1>7, Zenon

(* What was told, call by call. *)
ToldShape ==
    /\ Told \in Seq(Answers) /\ Len(Told) = Len(reply) /\ DOMAIN Told = DOMAIN reply
    /\ \A i \in DOMAIN reply : Told[i] = Answer(reply[i])

LEMMA ToldHasShape == TypeOK => ToldShape
BY ToldIsSeq, Zenon DEF ToldShape

LEMMA ToldHasShapeAfter == TypeOK' => ToldShape'
BY ToldHasShape, PTL

(* One more answer, or another one. *)
LEMMA ToldOneMore ==
  ASSUME TypeOK, TypeOK', NEW r \in Replies, reply' = Append(reply, r)
  PROVE  Told' = Append(Told, Answer(r))
<1>1. /\ Told \in Seq(Answers) /\ Len(Told) = Len(reply) /\ DOMAIN Told = DOMAIN reply
      /\ \A i \in DOMAIN reply : reply[i] \in Replies /\ Told[i] = Answer(reply[i])
  BY ToldIsSeq, Zenon
<1>2. /\ Told' \in Seq(Answers) /\ Len(Told') = Len(reply') /\ DOMAIN Told' = DOMAIN reply'
      /\ \A i \in DOMAIN reply' : Told'[i] = Answer(reply'[i])
  BY ToldHasShapeAfter, Zenon DEF ToldShape
<1>3. Answer(r) \in Answers BY AnswerMeans, Zenon
<1>4. /\ Append(Told, Answer(r)) \in Seq(Answers) /\ Len(Append(Told, Answer(r))) = Len(reply) + 1
      /\ Append(Told, Answer(r))[Len(reply) + 1] = Answer(r)
      /\ \A i \in 1..Len(reply) : Append(Told, Answer(r))[i] = Told[i]
  BY <1>1, <1>3, AppendFacts
<1>5. /\ Len(reply') = Len(reply) + 1 /\ DOMAIN reply' = 1..(Len(reply) + 1) /\ DOMAIN reply = 1..Len(reply)
      /\ Len(reply) \in Nat
      /\ reply'[Len(reply) + 1] = r /\ \A i \in 1..Len(reply) : reply'[i] = reply[i]
  BY ReplyIsSeq, AppendFacts
<1>6. ASSUME NEW i \in 1..Len(Told') PROVE Told'[i] = Append(Told, Answer(r))[i]
  <2>1. i \in DOMAIN reply' /\ (i \in 1..Len(reply) \/ i = Len(reply) + 1) BY <1>2, <1>5
  <2>2. CASE i \in 1..Len(reply) BY <1>1, <1>2, <1>4, <1>5, <2>1, <2>2, Zenon
  <2>3. CASE i = Len(reply) + 1 BY <1>2, <1>4, <1>5, <2>1, <2>3, Zenon
  <2>4. QED BY <2>1, <2>2, <2>3, Zenon
<1>7. QED BY <1>2, <1>4, <1>5, <1>6, SeqEqual

LEMMA ToldChanged ==
  ASSUME TypeOK, NEW r, cur \in DOMAIN reply, Finish(r)
  PROVE  Told' = [Told EXCEPT ![cur] = Answer(r)]
<1>1. reply' = [reply EXCEPT ![cur] = r] BY Zenon DEF Finish
<1>2. DOMAIN reply' = DOMAIN reply /\ \A i \in DOMAIN reply : reply'[i] = IF i = cur THEN r ELSE reply[i]
  BY <1>1, Zenon
<1>3. Told' = [i \in DOMAIN reply |-> Answer(reply'[i])] BY <1>2, Zenon DEF Told
<1>4. QED BY <1>2, <1>3 DEF Told

(* The backend's step or the device's, not both. *)
LEMMA OneSide == ASSUME [Next]_vars PROVE reply' = reply \/ applied' = applied
<1>1. Steps => reply' = reply \/ applied' = applied
  BY Zenon DEF Steps, CallRefused, CallAccepted, WriteDone, WriteFails, FlushDone, FlushFails, WaitResult, WaitTimeout,
     Deliver, LoseResult, Garble, ReadPiece, ReadLine, AccessFails, ReadStatus, WriteTime, WriteTimeFails, Readback,
     ClearOsf, ClearOsfFails, Reread, MainReset, backend, device
<1>2. QED BY <1>1, NextIsStep, Zenon DEF vars, device

LEMMA ContractStep == ASSUME IInv, IInv', [Next]_vars PROVE [Contract!Next]_<<Told, applied>>
<1> USE SessionsAreNumbers
<1>1. TypeOK /\ TypeOK' /\ LineInv /\ AppliedInv /\ CallsInv /\ ResultInv
  BY Zenon DEF IInv
<1>2. /\ Told \in Seq(Answers) /\ DOMAIN Told = DOMAIN reply
      /\ \A i \in DOMAIN reply : reply[i] \in Replies /\ Told[i] = Answer(reply[i])
  BY <1>1, ToldIsSeq, Zenon
<1>3. DOMAIN reply = 1..Len(reply) /\ Len(reply) \in Nat /\ DOMAIN reply \subseteq Sessions BY <1>1, ReplyIsSeq, Zenon
<1>4. CASE applied' # applied
  <2>1. reply' = reply /\ pc = "time" /\ applied' = Append(applied, job.sess)
    BY <1>1, <1>4, OneSide, DeviceSteps, Zenon DEF SetStep
  <2>2. Told' = Told BY <2>1 DEF Told
  <2>3. job.sess \in Sessions BY <1>1, <2>1, JobSession
  <2>4. Carried(job.sess) BY <2>1, Zenon DEF Carried
  <2>5. job.sess \in DOMAIN reply /\ reply[job.sess] \notin Refusals BY <1>1, <2>3, <2>4, Zenon DEF CallsInv
  <2>6. reply[job.sess] # "SUCCESS" BY <1>1, <2>1, <2>5, NotYetConfirmed, Zenon DEF Confirmed
  <2>7. Told[job.sess] \in {"pending", "unknown"}
    <3>1. Told[job.sess] \in Answers /\ Told[job.sess] # "success" /\ Told[job.sess] # "refused"
      <4>1. PICK r \in Replies : r = reply[job.sess] BY <1>2, <2>5, Zenon
      <4>2. Told[job.sess] = Answer(r) BY <1>2, <2>5, <4>1, Zenon
      <4>3. QED BY <2>5, <2>6, <4>1, <4>2, AnswerMeans
    <3>2. QED BY <3>1 DEF Answers
  <2>8. \A k \in DOMAIN applied : applied[k] < job.sess BY <1>1, <2>3, <2>4, Zenon DEF AppliedInv
  <2>9. Contract!Apply(job.sess) BY <2>1, <2>2, <2>7, <2>8, Zenon DEF Contract!Apply
  <2>10. QED BY <1>2, <2>5, <2>9, Zenon DEF Contract!Next
<1>5. CASE applied' = applied /\ reply' = reply
  <2>1. Told' = Told BY <1>5 DEF Told
  <2>2. QED BY <1>5, <2>1
<1>6. ASSUME NEW r \in Refusals, CallRefused(r) PROVE Contract!Next
  <2>1. r \in Replies /\ reply' = Append(reply, r) /\ applied' = applied
    BY <1>6 DEF CallRefused, Refusals, Replies, device
  <2>2. Told' = Append(Told, "refused") BY <1>1, <2>1, ToldOneMore, AnswerMeans
  <2>3. QED BY <2>1, <2>2, Zenon DEF Contract!Refuse, Contract!Next
<1>7. CASE CallAccepted
  <2>1. "PENDING" \in Replies /\ reply' = Append(reply, "PENDING") /\ applied' = applied /\ cur = NULL
    BY <1>1, <1>7 DEF CallAccepted, Replies, device, TypeOK, CallType
  <2>2. Told' = Append(Told, "pending") BY <1>1, <2>1, ToldOneMore, AnswerMeans
  <2>3. ASSUME NEW i \in DOMAIN Told PROVE Told[i] # "pending"
    <3>1. i # NULL /\ i \in DOMAIN reply BY <1>2, <1>3, NullAssumption
    <3>2. reply[i] # "PENDING" BY <1>1, <2>1, <3>1, Zenon DEF CallsInv
    <3>3. QED BY <1>2, <3>1, <3>2, AnswerMeans, Zenon
  <2>4. Contract!Open = {} BY <2>3 DEF Contract!Open
  <2>5. QED BY <2>1, <2>2, <2>4, Zenon DEF Contract!Ask, Contract!Next
<1>8. CASE Finished /\ applied' = applied
  <2>1. PICK r \in Replies \ ({"PENDING"} \cup Refusals) : phase # "idle" /\ Finish(r) BY <1>8, Zenon DEF Finished
  <2>2. cur # NULL /\ cur \in DOMAIN reply /\ reply[cur] = "PENDING" BY <1>1, <2>1, Zenon DEF TypeOK, CallType
  <2>3. Told' = [Told EXCEPT ![cur] = Answer(r)] BY <1>1, <2>1, <2>2, ToldChanged
  <2>4. Told[cur] = "pending"
    <3>1. Told[cur] = Answer("PENDING") BY <1>2, <2>2, Zenon
    <3>2. QED BY <3>1 DEF Answer
  <2>5. CASE r = "SUCCESS"
    <3>1. reply'[cur] = "SUCCESS" /\ cur \in DOMAIN reply'
      <4>1. reply' = [reply EXCEPT ![cur] = "SUCCESS"] BY <2>1, <2>5, Zenon DEF Finish
      <4>2. QED BY <2>2, <4>1, Zenon
    <3>2. reply[cur] # "SUCCESS" BY <2>2
    <3>3. Reported(cur)
      <4>1. PICK c : c = cur OBVIOUS
      <4>2. Reported(c) BY <1>1, <3>1, <3>2, <4>1, SuccessStep
      <4>3. QED BY <4>1, <4>2, Zenon
    <3>4. HasSet(cur) BY <1>1, <1>3, <2>2, <3>3, Zenon DEF ResultInv, Confirmed
    <3>5. PICK k \in DOMAIN applied : applied[k] = cur BY <3>4, Zenon DEF HasSet
    <3>6. /\ Len(applied) \in Nat /\ DOMAIN applied = 1..Len(applied)
          /\ \A j \in DOMAIN applied : applied[j] \in Sessions
      BY <1>1, AppliedIsSeq, Zenon
    <3>7. \A j \in DOMAIN applied : applied[j] <= cur BY <1>1, <2>2, <3>6, Zenon DEF CallsInv, HasSet
    <3>8. k = Len(applied) /\ Len(applied) \in DOMAIN applied
      <4>1. Len(applied) \in DOMAIN applied BY <3>5, <3>6
      <4>2. ASSUME k < Len(applied) PROVE FALSE
        <5>1. applied[k] < applied[Len(applied)] BY <1>1, <3>5, <4>1, <4>2, Zenon DEF AppliedInv
        <5>2. applied[Len(applied)] <= applied[k] BY <3>5, <3>7, <4>1, Zenon
        <5>3. applied[k] \in Nat /\ applied[Len(applied)] \in Nat BY <3>5, <3>6, <4>1
        <5>4. QED BY <5>1, <5>2, <5>3
      <4>3. QED BY <3>5, <3>6, <4>1, <4>2
    <3>9. applied # <<>> /\ applied[Len(applied)] = cur BY <3>5, <3>6, <3>8
    <3>10. Answer(r) = "success" BY <2>5 DEF Answer
    <3>11. Contract!Succeed(cur) BY <1>8, <2>3, <2>4, <3>9, <3>10, Zenon DEF Contract!Succeed
    <3>12. QED BY <1>2, <2>2, <3>11, Zenon DEF Contract!Next
  <2>6. CASE r # "SUCCESS"
    <3>1. Answer(r) \in Answers \ {"pending", "success", "refused"} BY <2>1, <2>6, AnswerMeans, Zenon
    <3>2. Answer(r) = "unknown" BY <3>1 DEF Answers
    <3>3. Contract!GiveUp(cur) BY <1>8, <2>3, <2>4, <3>2, Zenon DEF Contract!GiveUp
    <3>4. QED BY <1>2, <2>2, <3>3, Zenon DEF Contract!Next
  <2>7. QED BY <2>5, <2>6
<1>9. QED
  BY <1>4, <1>5, <1>6, <1>7, <1>8, BackendSteps, Zenon DEF BackendStep, Deliver, backend

(* The setting of the clock implements its contract: calls take effect in the order they were made *)
(* and at most once, a refused one never, and success is told only of the last that took effect.   *)
THEOREM SyncImplementsContract == Spec => ImplementsContract
<1>1. Init => Contract!Init
  <2> SUFFICES ASSUME Init PROVE Contract!Init
    OBVIOUS
  <2>1. reply = <<>> /\ applied = <<>> BY Zenon DEF Init
  <2>2. Told = <<>>
    <3>1. TypeOK BY TypeInit
    <3>2. Told \in Seq(Answers) /\ Len(Told) = 0 BY <2>1, <3>1, ToldIsSeq
    <3>3. QED BY <3>2, EmptySeq
  <2>3. QED BY <2>1, <2>2 DEF Contract!Init
<1>2. IInv /\ IInv' /\ [Next]_vars => [Contract!Next]_<<Told, applied>>
  BY ContractStep
<1>3. QED BY <1>1, <1>2, InvAlways, PTL DEF Spec, ImplementsContract, Contract!Spec
=============================================================================
