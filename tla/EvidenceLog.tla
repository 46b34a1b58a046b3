----------------------------- MODULE EvidenceLog -----------------------------
(***************************************************************************)
(* What persistent evidence promises, without files or queues.  Packets    *)
(* are offered one after the other.  At some point the run may become      *)
(* verified evidence; from then on it stands for exactly the packets that  *)
(* were offered, no packet is added any more, and all that can still       *)
(* happen is that the evidence is lost for good.                           *)
(***************************************************************************)
EXTENDS Naturals, Sequences

CONSTANT NULL        \* no verified evidence

VARIABLES stream,    \* the packets offered while evidence was being taken
          evidence,  \* what the verified run contains, or NULL
          sealed     \* evidence has been verified before

lvars == <<stream, evidence, sealed>>

Init == stream = <<>> /\ evidence = NULL /\ sealed = FALSE

Offer(p) ==
    /\ ~sealed
    /\ stream' = Append(stream, p)
    /\ UNCHANGED <<evidence, sealed>>

Seal ==
    /\ ~sealed
    /\ evidence' = stream
    /\ sealed' = TRUE
    /\ UNCHANGED stream

Lose ==
    /\ sealed
    /\ evidence' = NULL
    /\ UNCHANGED <<stream, sealed>>

Next == Seal \/ Lose \/ Offer(Len(stream) + 1)

Spec == Init /\ [][Next]_lvars
=============================================================================
