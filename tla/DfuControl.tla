----------------------------- MODULE DfuControl -----------------------------
(***************************************************************************)
(* The control server, control/dfu_control_server.xc, around the device of *)
(* DfuDevice: one slot for a deferred action, and a timer that every       *)
(* command pushes back.  It is the server of the I2C, SPI and xSCOPE       *)
(* transports, and one of the servers DfuDevice leaves free.               *)
(*                                                                         *)
(* A command of the wrong length or resource changes nothing, the profile  *)
(* aside; nor does reading the profile.  This server, too, hands on the    *)
(* number it is sent: the host spoken of here sends none of a deferred     *)
(* action, which dfu_types.h calls internal.                               *)
(***************************************************************************)
EXTENDS DfuDevice

VARIABLE elapsed   \* milliseconds since the last command, 1 for all from one on

controlVars == <<vars, elapsed>>

\* The direction of a command is that of the DFU request.
ReadCommands == {"UPLOAD", "GETSTATUS", "GETSTATE", "GET_DESCRIPTOR"}

Reads  == { r \in Requests : r.cmd \in ReadCommands }
Writes == Requests \ Reads

write_command(r) ==
    /\ dfu_request_with_arguments(r)
    /\ deferred' = IF resp'.deferred \in {"none", "REBOOT_TO_DFU"}
                   THEN deferred ELSE resp'.deferred
    /\ elapsed' = 0

\* A read that succeeds replaces the action held, by none too.
read_command(r) ==
    /\ dfu_request_with_arguments(r)
    /\ deferred' = IF resp'.status = "SUCCESS" THEN resp'.deferred ELSE deferred
    /\ elapsed' = 0

\* timerafter(dfu_time)
TimerIsDue == deferred # "none" /\ elapsed = 1

\* Mutant: the slot is not emptied.
TimerExpiresAgain ==
    /\ TimerIsDue
    /\ IF deferred = "REBOOT"
       THEN dfu_reboot /\ elapsed' = 0
       ELSE /\ dfu_request_with_arguments([cmd |-> deferred, n |-> 0])
            /\ UNCHANGED <<deferred, elapsed>>

\* The slot is emptied, whatever the answer to the action.
TimerExpires ==
    /\ TimerIsDue
    /\ IF deferred = "REBOOT"
       THEN dfu_reboot /\ elapsed' = 0
       ELSE /\ dfu_request_with_arguments([cmd |-> deferred, n |-> 0])
            /\ deferred' = "none"
            /\ UNCHANGED elapsed

\* A millisecond goes by.  A timer that is due expires first.
Tick ==
    /\ ~TimerIsDue
    /\ elapsed = 0 /\ elapsed' = 1
    /\ UNCHANGED vars

PowerFails == PowerCycle /\ elapsed' = 0

ControlInit == Init /\ elapsed = 0

ControlNext ==
    \/ \E r \in Writes : write_command(r)
    \/ \E r \in Reads : read_command(r)
    \/ TimerExpires
    \/ Tick
    \/ PowerFails

ControlSpec == ControlInit /\ [][ControlNext]_controlVars

-----------------------------------------------------------------------------
(* Properties.                                                             *)

\* The slot never holds what only the USB server takes, and what it holds was
\* asked for by the state machine.
ControlTypeOK ==
    /\ elapsed \in {0, 1}
    /\ deferred \in deferred_action \ {"REBOOT_TO_DFU"}

\* Every server step is one that the free server of DfuDevice may take: what is
\* shown of that device, under any host, is true behind the control server.
ImplementsDevice == Spec
=============================================================================
