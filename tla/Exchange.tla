------------------------------- MODULE Exchange -------------------------------
(***************************************************************************)
(* The exchanges of DeviceComm::Connection with the WSPRlite: handleQEntry *)
(* sends a command, waits for the response, and repeats both up to         *)
(* MaxAttempts times; attemptTx empties the receive buffer and writes the  *)
(* frame; attemptRx polls the buffer until a frame, the timeout or a       *)
(* closed port.  Responses carry nothing that says which command they      *)
(* answer: the field "from" of a frame is known to the model only.         *)
(*                                                                         *)
(* A frame is atomic here (its bytes are module Framing's concern), and a  *)
(* frame that is corrupted, truncated or half read is a lost frame: both   *)
(* ends drop it silently.                                                  *)
(***************************************************************************)
EXTENDS Naturals, Sequences

CONSTANTS
    NumCommands,   \* bound: how many commands the callers issue
    MaxAttempts,   \* 3 in handleQEntry
    FlushFrames,   \* how many buffered frames the 128 byte flush destroys
    LateReplies    \* TRUE: a command may be sent while the device or the
                   \* serial bridge still holds traffic of an earlier attempt.
                   \* FALSE (a prompt link): that traffic has reached the
                   \* receive buffer, or is lost, before the next transmission

ASSUME ExchangeAssumption ==
    /\ NumCommands \in Nat
    /\ MaxAttempts \in Nat \ {0}
    /\ FlushFrames \in Nat \ {0}
    /\ LateReplies \in BOOLEAN

VARIABLES
    cur,           \* the command being handled, or the last one handled
    pc,            \* where the communication thread is: "idle", "tx" or "rx"
    attempt,       \* handleQEntry's loop counter i
    connValid,     \* Connection::connValid
    expects,       \* the response type each command's caller asserts
    reply,         \* the MsgResponse each command was answered with
    sent,          \* how often each command was written to the port
    toDev,         \* commands on their way to the device
    toHost,        \* responses on their way to the host
    rxBuf,         \* responses waiting in the host's serial input buffer
    executed,      \* the commands the device has carried out
    lastExecuted   \* the one it carried out last

hostVars == <<cur, pc, attempt, expects, reply, sent>>
devVars  == <<executed, lastExecuted>>
linkVars == <<toDev, toHost, rxBuf>>
vars     == <<hostVars, connValid, linkVars, devVars>>

-------------------------------------------------------------------------------
Commands == 1 .. NumCommands
Expected == {"ACK", "ResponseData"}
MsgTypes == Expected \cup {"NACK"}
Frames   == [from : Commands, type : MsgTypes]

Pending == [from |-> 0, type |-> "pending"]
NoReply == [from |-> 0, type |-> "none"]      \* MsgResponse with success false

\* MsgResponse::success, and what assert_ack or assert_data lets through.
Answered(c) == reply[c].from # 0
\* Mutant: the caller asserts success only, not the type of the response.
Accepted_AnyType(c) == Answered(c)

Accepted(c) == Answered(c) /\ reply[c].type = expects[c]
Returned(c) == reply[c] # Pending

\* Nothing of an earlier transmission is still under way.
Drained == toDev = <<>> /\ toHost = <<>>

Init ==
    /\ cur = 0
    /\ pc = "idle"
    /\ attempt = 0
    /\ connValid = TRUE
    /\ expects = [c \in Commands |-> "ACK"]
    /\ reply = [c \in Commands |-> Pending]
    /\ sent = [c \in Commands |-> 0]
    /\ toDev = <<>>
    /\ toHost = <<>>
    /\ rxBuf = <<>>
    /\ executed = {}
    /\ lastExecuted = 0

-------------------------------------------------------------------------------
\* handleQEntry takes the next entry; its caller will assert response type t.
HandleQEntry(t) ==
    /\ pc = "idle"
    /\ cur < NumCommands
    /\ cur' = cur + 1
    /\ expects' = [expects EXCEPT ![cur + 1] = t]
    /\ attempt' = 0
    /\ pc' = "tx"
    /\ UNCHANGED <<reply, sent, connValid, linkVars, devVars>>

\* Mutant: one attempt too many.
NextAttempt_OneMore ==
    /\ attempt' = attempt + 1
    /\ \/ /\ attempt + 1 <= MaxAttempts
          /\ pc' = "tx"
          /\ UNCHANGED reply
       \/ /\ attempt + 1 > MaxAttempts
          /\ pc' = "idle"
          /\ reply' = [reply EXCEPT ![cur] = NoReply]

\* The end of a loop iteration that brought no response: the next attempt, or
\* the response whose success is still false is handed to the entry.
NextAttempt ==
    /\ attempt' = attempt + 1
    /\ \/ /\ attempt + 1 < MaxAttempts
          /\ pc' = "tx"
          /\ UNCHANGED reply
       \/ /\ attempt + 1 >= MaxAttempts
          /\ pc' = "idle"
          /\ reply' = [reply EXCEPT ![cur] = NoReply]

\* Mutant: the receive buffer is not emptied before a transmission.
Flushed_Nothing == rxBuf

\* The receive buffer after attemptTx has read up to 128 bytes of it.
Flushed == SubSeq(rxBuf, FlushFrames + 1, Len(rxBuf))

\* Mutant: the frame is written twice.
AttemptTx_Twice ==
    /\ pc = "tx"
    /\ connValid
    /\ LateReplies \/ Drained
    /\ rxBuf' = Flushed
    /\ toDev' = toDev \o <<cur, cur>>
    /\ sent' = [sent EXCEPT ![cur] = @ + 1]
    /\ pc' = "rx"
    /\ UNCHANGED <<cur, attempt, expects, reply, connValid, toHost, devVars>>

\* Mutant: the frame is written ahead of what is still in the output queue.
AttemptTx_JumpsQueue ==
    /\ pc = "tx"
    /\ connValid
    /\ LateReplies \/ Drained
    /\ rxBuf' = Flushed
    /\ toDev' = <<cur>> \o toDev
    /\ sent' = [sent EXCEPT ![cur] = @ + 1]
    /\ pc' = "rx"
    /\ UNCHANGED <<cur, attempt, expects, reply, connValid, toHost, devVars>>

\* attemptTx succeeds: the buffer is flushed and the whole frame written.
AttemptTx ==
    /\ pc = "tx"
    /\ connValid
    /\ LateReplies \/ Drained
    /\ rxBuf' = Flushed
    /\ toDev' = Append(toDev, cur)
    /\ sent' = [sent EXCEPT ![cur] = @ + 1]
    /\ pc' = "rx"
    /\ UNCHANGED <<cur, attempt, expects, reply, connValid, toHost, devVars>>

\* Mutant: an attempt that could not be sent is not counted.
TxFails_NotCounted ==
    /\ pc = "tx"
    /\ rxBuf' = IF connValid THEN Flushed ELSE rxBuf
    /\ UNCHANGED <<cur, pc, attempt, expects, reply, sent, connValid, toDev, toHost, devVars>>

\* attemptTx returns false: the port is closed, or the write came up short
\* (the device drops the truncated frame).
TxFails ==
    /\ pc = "tx"
    /\ rxBuf' = IF connValid THEN Flushed ELSE rxBuf
    /\ NextAttempt
    /\ UNCHANGED <<cur, expects, sent, connValid, toDev, toHost, devVars>>

\* Mutant: the last frame is taken and the others stay buffered.
RxAccept_Newest ==
    /\ pc = "rx"
    /\ connValid
    /\ rxBuf # <<>>
    /\ reply' = [reply EXCEPT ![cur] = rxBuf[Len(rxBuf)]]
    /\ rxBuf' = SubSeq(rxBuf, 1, Len(rxBuf) - 1)
    /\ pc' = "idle"
    /\ UNCHANGED <<cur, attempt, expects, sent, connValid, toDev, toHost, devVars>>

\* attemptRx finds a frame.  It has read everything that was waiting and
\* returns the first frame of it; what followed is gone.
RxAccept ==
    /\ pc = "rx"
    /\ connValid
    /\ rxBuf # <<>>
    /\ reply' = [reply EXCEPT ![cur] = Head(rxBuf)]
    /\ rxBuf' = <<>>
    /\ pc' = "idle"
    /\ UNCHANGED <<cur, attempt, expects, sent, connValid, toDev, toHost, devVars>>

\* attemptRx returns false: the time is up, whatever is waiting by then, or
\* the port has been closed under it.
RxFails ==
    /\ pc = "rx"
    /\ NextAttempt
    /\ UNCHANGED <<cur, expects, sent, connValid, linkVars, devVars>>

CommThread ==
    \/ \E t \in Expected : HandleQEntry(t)
    \/ AttemptTx
    \/ TxFails
    \/ RxAccept
    \/ RxFails

\* Another thread calls Connection::disconnect; the port's buffer goes with it.
Disconnect ==
    /\ connValid
    /\ connValid' = FALSE
    /\ rxBuf' = <<>>
    /\ UNCHANGED <<hostVars, toDev, toHost, devVars>>

-------------------------------------------------------------------------------
\* The device answers its commands strictly in order, and only commands.
DeviceAnswers(type) ==
    /\ toDev # <<>>
    /\ toHost' = Append(toHost, [from |-> Head(toDev), type |-> type])
    /\ toDev' = Tail(toDev)

DeviceExecutes ==
    /\ DeviceAnswers(expects[Head(toDev)])
    /\ executed' = executed \cup {Head(toDev)}
    /\ lastExecuted' = Head(toDev)
    /\ UNCHANGED <<hostVars, connValid, rxBuf>>

DeviceRefuses ==
    /\ DeviceAnswers("NACK")
    /\ UNCHANGED <<hostVars, connValid, rxBuf, devVars>>

LinkDelivers ==
    /\ connValid
    /\ toHost # <<>>
    /\ rxBuf' = Append(rxBuf, Head(toHost))
    /\ toHost' = Tail(toHost)
    /\ UNCHANGED <<hostVars, connValid, toDev, devVars>>

LinkLoses ==
    /\ \/ toDev # <<>> /\ toDev' = Tail(toDev) /\ UNCHANGED toHost
       \/ toHost # <<>> /\ toHost' = Tail(toHost) /\ UNCHANGED toDev
    /\ UNCHANGED <<hostVars, connValid, rxBuf, devVars>>

Next ==
    \/ CommThread
    \/ Disconnect
    \/ DeviceExecutes
    \/ DeviceRefuses
    \/ LinkDelivers
    \/ LinkLoses

Spec == Init /\ [][Next]_vars

\* attemptTx returns within its write timeout and attemptRx within its read
\* timeout, so the communication thread is never stuck inside handleQEntry.
FairSpec == Spec /\ WF_vars(CommThread)


-------------------------------------------------------------------------------
TypeOK ==
    /\ cur \in 0 .. NumCommands
    /\ pc \in {"idle", "tx", "rx"}
    /\ attempt \in 0 .. MaxAttempts
    /\ connValid \in BOOLEAN
    /\ expects \in [Commands -> Expected]
    /\ reply \in [Commands -> Frames \cup {Pending, NoReply}]
    /\ sent \in [Commands -> 0 .. MaxAttempts]
    /\ toDev \in Seq(Commands)
    /\ toHost \in Seq(Frames)
    /\ rxBuf \in Seq(Frames)
    /\ executed \subseteq Commands
    /\ lastExecuted \in 0 .. NumCommands

\* A caller is never handed the response to somebody else's command.  Nothing
\* in the frames ensures it (Device.cpp:21-56): it rests on flushing the buffer
\* before each transmission, and on the link being prompt.
RightResponse == \A c \in Commands : Answered(c) => reply[c].from = c

\* A command whose caller got past assert_ack or assert_data has been carried
\* out by the device: what every device task concludes from a silent return.
ExecutedIfAccepted == \A c \in Commands : Accepted(c) => c \in executed

\* However late the link, callers see responses in the order in which the device
\* gave them, so a value read later is never older than one read before.
AnswersKeepOrder ==
    \A c, d \in Commands :
        c < d /\ Answered(c) /\ Answered(d) => reply[c].from <= reply[d].from

\* A response reaches the wrong caller only after some earlier exchange had a
\* timeout: without a retry and without a failed command the count of commands
\* and the count of responses stay in step (handleQEntry, Device.cpp:24-41).
StaleNeedsTimeout ==
    \A c \in Commands :
        Answered(c) /\ reply[c].from # c =>
            \E e \in 1 .. reply[c].from : sent[e] > 1 \/ reply[e] = NoReply

\* No command takes effect after a later one has, whatever is retransmitted:
\* the order in which WSPRSave writes its variables is the device's order.
DeviceKeepsOrder == [][lastExecuted' >= lastExecuted]_vars

\* Every command handed to handleQEntry is answered in the end, with a response
\* or with a failure: the three attempts and their timeouts come to an end.
HandlingEnds == \A c \in Commands : cur = c ~> Returned(c)

\* On a prompt link the exchanges are the calls of module RemoteCall.
RC == INSTANCE RemoteCall WITH
          issued   <- cur,
          returned <- {c \in Commands : Returned(c)},
          accepted <- {c \in Commands : Accepted(c)}

ImplementsRemoteCall == RC!Spec

===============================================================================
