------------------------------ MODULE RemoteCall ------------------------------
(***************************************************************************)
(* What a caller of Connection::send may rely on while the link is prompt  *)
(* (module Exchange says what prompt means): calls are made one after the  *)
(* other, a call that returns an acceptable response has taken effect on   *)
(* the device, a call that fails may or may not have taken effect, and the *)
(* effects of different calls never change places, however late they come. *)
(* The device tasks (module ConfigApp) are built on exactly these outcomes.*)
(***************************************************************************)
EXTENDS Naturals

CONSTANT NumCommands   \* a bound on the calls; module Exchange assumes it in Nat

VARIABLES
    issued,        \* number of calls made so far, the last one perhaps pending
    returned,      \* the calls that have returned
    accepted,      \* those that returned an acceptable response
    executed,      \* the calls that have taken effect on the device
    lastExecuted   \* the call whose effect is the most recent one

callVars == <<issued, returned, accepted, executed, lastExecuted>>

Calls == 1 .. NumCommands

Init ==
    /\ issued = 0
    /\ returned = {}
    /\ accepted = {}
    /\ executed = {}
    /\ lastExecuted = 0

Call ==
    /\ returned = 1 .. issued
    /\ issued < NumCommands
    /\ issued' = issued + 1
    /\ UNCHANGED <<returned, accepted, executed, lastExecuted>>

\* A call takes effect, perhaps after it has failed and perhaps again, but not
\* once it has been accepted and not after the effect of a later call.
Execute(c) ==
    /\ c \in 1 .. issued
    /\ c \notin accepted
    /\ c >= lastExecuted
    /\ executed' = executed \cup {c}
    /\ lastExecuted' = c
    /\ UNCHANGED <<issued, returned, accepted>>

ReturnAccepted ==
    /\ issued \in executed \ returned
    /\ accepted' = accepted \cup {issued}
    /\ returned' = returned \cup {issued}
    /\ UNCHANGED <<issued, executed, lastExecuted>>

ReturnFailed ==
    /\ issued \in Calls \ returned
    /\ returned' = returned \cup {issued}
    /\ UNCHANGED <<issued, accepted, executed, lastExecuted>>

Next ==
    \/ Call
    \/ \E c \in Calls : Execute(c)
    \/ ReturnAccepted
    \/ ReturnFailed

Spec == Init /\ [][Next]_callVars
===============================================================================
