------------------------------ MODULE MCFirmware ------------------------------
(***************************************************************************)
(* The three parts of the firmware that have a state machine of their own  *)
(* and share no variable: MAIN's receiver of requests, SUB's timers, and   *)
(* the way of SUB's packets through MAIN.  What is stated of one does not  *)
(* depend on what the others do, so a behaviour runs one of them and       *)
(* leaves the others as they begin.                                        *)
(***************************************************************************)
EXTENDS PiFrameReceiver, SubScheduler, SubForwarder

VARIABLE part   \* the part that runs

FirmwareInit ==
    /\ part \in {"receiver", "timers", "link"}
    /\ Init /\ TimersInit /\ LinkInit
    /\ part # "timers" => now = 0

FirmwareNext ==
    /\ \/ part = "receiver" /\ Next /\ UNCHANGED <<timers, link>>
       \/ part = "timers" /\ TimersNext /\ UNCHANGED <<vars, link>>
       \/ part = "link" /\ LinkNext /\ UNCHANGED <<vars, timers>>
    /\ UNCHANGED part

\* Fairness of PiFrameReceiver, where the receiver runs.
FirmwareFairness == WF_vars(part = "receiver" /\ StartTurn) /\ WF_vars(part = "receiver" /\ EndTurn)

FirmwareSpec == FirmwareInit /\ [][FirmwareNext]_<<part, vars, timers, link>> /\ FirmwareFairness
=============================================================================
