--------------------------- MODULE RtcSyncContract ---------------------------
(***************************************************************************)
(* What an operator who asks the gateway to set the clock may rely on.     *)
(* One request is open at a time.  The clock is set by requests in the     *)
(* order in which they were made, each at most once, and possibly after    *)
(* the operator gave up on it.  Success is answered only for the request   *)
(* that set the clock last; a refused request never sets it.               *)
(***************************************************************************)
EXTENDS Naturals, Sequences

VARIABLES answer,    \* answer[i]: what request number i was told
          applied    \* the requests that set the clock, in order

Open == {i \in DOMAIN answer : answer[i] = "pending"}

Init == answer = <<>> /\ applied = <<>>

Ask ==
    /\ Open = {}
    /\ answer' = Append(answer, "pending")
    /\ UNCHANGED applied

Refuse ==
    /\ answer' = Append(answer, "refused")
    /\ UNCHANGED applied

Apply(i) ==
    /\ answer[i] \in {"pending", "unknown"}
    /\ \A k \in DOMAIN applied : applied[k] < i
    /\ applied' = Append(applied, i)
    /\ UNCHANGED answer

Succeed(i) ==
    /\ answer[i] = "pending"
    /\ applied # <<>> /\ applied[Len(applied)] = i
    /\ answer' = [answer EXCEPT ![i] = "success"]
    /\ UNCHANGED applied

GiveUp(i) ==
    /\ answer[i] = "pending"
    /\ answer' = [answer EXCEPT ![i] = "unknown"]
    /\ UNCHANGED applied

Next ==
    \/ Ask
    \/ Refuse
    \/ \E i \in DOMAIN answer : Apply(i) \/ Succeed(i) \/ GiveUp(i)

Spec == Init /\ [][Next]_<<answer, applied>>
=============================================================================
