------------------------------ MODULE Connection ------------------------------
(***************************************************************************)
(* The life of one DeviceComm::Connection: the threads of the device tasks *)
(* that call DeviceCommTask::send, the communication thread that serves    *)
(* the transmit queue, and the thread that owns the connection, which      *)
(* closes and destroys it while the others are anywhere in their code.     *)
(*                                                                         *)
(* A step is what a thread does under one mutex, or one access outside any *)
(* mutex.  What happens inside handleQEntry is module Exchange's concern:  *)
(* here an exchange ends, with a response or without one.                  *)
(*                                                                         *)
(* A caller that uses the Connection after its end has undefined           *)
(* behaviour: it crashes, or goes on without any effect on the others.     *)
(***************************************************************************)
EXTENDS Naturals, Sequences

CONSTANTS
    Callers,     \* the threads that run device tasks
    MaxSends     \* bound: how many messages each of them sends

ASSUME ConnectionAssumption == MaxSends \in Nat \ {0}

VARIABLES
    owner,       \* how far the owner is with closing and destroying
    connValid,   \* Connection::connValid
    stop,        \* Connection::commThreadShouldStop
    txq,         \* Connection::txq, an entry being the caller that waits for it
    comm,        \* where commLoop is
    entry,       \* its local qe, as a sequence of at most one entry
    result,      \* the MsgResponse of the exchange just made
    caller,      \* where each caller is
    promise,     \* the responsePromise of each caller's last entry
    sends,       \* how many messages each caller has sent
    enqueued,    \* history: the entries pushed to txq
    answered     \* history: the entries handleResponse was called for

ownerVars  == <<owner, connValid, stop>>
commVars   == <<comm, entry, result, answered>>
callerVars == <<caller, sends>>
vars       == <<ownerVars, commVars, callerVars, txq, promise, enqueued>>

-------------------------------------------------------------------------------
\* The shared pointer deviceModel->conn still refers to this Connection.
Referenced == owner \in {"running", "closed"}
Alive      == owner # "destroyed"

Init ==
    /\ owner = "running"
    /\ connValid = TRUE
    /\ stop = FALSE
    /\ txq = <<>>
    /\ comm = "top"
    /\ entry = <<>>
    /\ result = "none"
    /\ caller = [c \in Callers |-> "idle"]
    /\ promise = [c \in Callers |-> "unset"]
    /\ sends = [c \in Callers |-> 0]
    /\ enqueued = <<>>
    /\ answered = <<>>

\* txqCV.notify_all(): the thread, if it waits, evaluates its predicate again.
WakeComm == comm' = IF comm = "blocked" THEN "waiting" ELSE comm

-------------------------------------------------------------------------------
\* DeviceCommTask::send finds a connection ...
CheckConn(c) ==
    /\ caller[c] = "idle"
    /\ sends[c] < MaxSends
    /\ Referenced
    /\ caller' = [caller EXCEPT ![c] = "checked"]
    /\ sends' = [sends EXCEPT ![c] = @ + 1]
    /\ UNCHANGED <<ownerVars, commVars, txq, promise, enqueued>>

\* ... or none, and returns a failure at once.
NoConn(c) ==
    /\ caller[c] = "idle"
    /\ sends[c] < MaxSends
    /\ ~Referenced
    /\ promise' = [promise EXCEPT ![c] = "failed"]
    /\ sends' = [sends EXCEPT ![c] = @ + 1]
    /\ UNCHANGED <<ownerVars, commVars, caller, txq, enqueued>>

Crash(c) ==
    /\ caller' = [caller EXCEPT ![c] = "crashed"]
    /\ UNCHANGED <<ownerVars, commVars, sends, txq, promise, enqueued>>

\* It reads deviceModel->conn a second time and calls Connection::send.
Deref(c) ==
    /\ caller[c] = "checked"
    /\ \/ /\ Referenced
          /\ caller' = [caller EXCEPT ![c] = "inSend"]
          /\ promise' = [promise EXCEPT ![c] = "unset"]
          /\ UNCHANGED <<ownerVars, commVars, sends, txq, enqueued>>
       \/ ~Referenced /\ Crash(c)

\* Connection::enqueue pushes the entry under txqMutex.
Push(c) ==
    /\ caller[c] = "inSend"
    /\ \/ /\ caller' = [caller EXCEPT ![c] = "pushed"]
          /\ IF Alive
                THEN /\ txq' = Append(txq, c)
                     /\ enqueued' = Append(enqueued, c)
                ELSE UNCHANGED <<txq, enqueued>>
          /\ UNCHANGED <<ownerVars, commVars, sends, promise>>
       \/ ~Alive /\ Crash(c)

\* ... and notifies once the mutex is released.
Notify(c) ==
    /\ caller[c] = "pushed"
    /\ \/ /\ caller' = [caller EXCEPT ![c] = "waiting"]
          /\ IF Alive THEN WakeComm ELSE UNCHANGED comm
          /\ UNCHANGED <<ownerVars, entry, result, answered, sends, txq, promise,
                         enqueued>>
       \/ ~Alive /\ Crash(c)

\* QueueEntry::getResponse; the entry is the caller's own, so this is safe even
\* when the Connection is gone.
GetResponse(c) ==
    /\ caller[c] = "waiting"
    /\ promise[c] # "unset"
    /\ caller' = [caller EXCEPT ![c] = "idle"]
    /\ UNCHANGED <<ownerVars, commVars, sends, txq, promise, enqueued>>

InSend(c) == Deref(c) \/ Push(c) \/ Notify(c) \/ GetResponse(c)

-------------------------------------------------------------------------------
\* The loop condition reads the flag without txqMutex: the read may miss a write
\* that has just been made, and then the check below catches it.
LoopTop ==
    /\ comm = "top"
    /\ \/ stop /\ comm' = "exited"
       \/ comm' = "locked"
    /\ UNCHANGED <<ownerVars, entry, result, answered, callerVars, txq, promise,
                   enqueued>>

\* Mutant: the entry is popped first and the flag checked afterwards.
CheckQueue_PopsFirst ==
    /\ comm = "locked"
    /\ \/ /\ txq # <<>>
          /\ txq' = Tail(txq)
          /\ entry' = IF stop THEN <<>> ELSE <<Head(txq)>>
          /\ comm' = IF stop THEN "exited" ELSE "exchange"
       \/ /\ txq = <<>>
          /\ comm' = IF stop THEN "exited" ELSE "waiting"
          /\ UNCHANGED <<txq, entry>>
    /\ UNCHANGED <<ownerVars, result, answered, callerVars, promise, enqueued>>

\* Mutant: a popped entry is answered without an exchange.
CheckQueue_NoExchange ==
    /\ comm = "locked"
    /\ txq # <<>>
    /\ entry' = <<Head(txq)>>
    /\ txq' = Tail(txq)
    /\ comm' = "respond"
    /\ UNCHANGED <<ownerVars, result, answered, callerVars, promise, enqueued>>

CheckQueue ==
    /\ comm = "locked"
    /\ \/ /\ stop
          /\ comm' = "exited"
          /\ UNCHANGED <<txq, entry>>
       \/ /\ ~stop
          /\ txq # <<>>
          /\ entry' = <<Head(txq)>>
          /\ txq' = Tail(txq)
          /\ comm' = "exchange"
       \/ /\ ~stop
          /\ txq = <<>>
          /\ comm' = "waiting"
          /\ UNCHANGED <<txq, entry>>
    /\ UNCHANGED <<ownerVars, result, answered, callerVars, promise, enqueued>>

\* The attempts of handleQEntry: on a closed port none succeeds.
ExchangeEnds ==
    /\ comm = "exchange"
    /\ result' \in (IF connValid THEN {"ok", "failed"} ELSE {"failed"})
    /\ comm' = "respond"
    /\ UNCHANGED <<ownerVars, entry, answered, callerVars, txq, promise, enqueued>>

HandleResponse ==
    /\ comm = "respond"
    /\ promise' = [promise EXCEPT ![Head(entry)] = result]
    /\ answered' = answered \o entry
    /\ entry' = <<>>
    /\ comm' = "top"
    /\ UNCHANGED <<ownerVars, result, callerVars, txq, enqueued>>

\* txqCV.wait evaluates its predicate under the mutex and blocks or goes on.
\* Mutants: the predicate forgets the queue, or the flag.
WaitPredicate_StopOnly == stop
WaitPredicate_QueueOnly == txq # <<>>

WaitPredicate == stop \/ txq # <<>>

CvWait ==
    /\ comm = "waiting"
    /\ comm' = IF WaitPredicate THEN "top" ELSE "blocked"
    /\ UNCHANGED <<ownerVars, entry, result, answered, callerVars, txq, promise,
                   enqueued>>

SpuriousWakeup ==
    /\ comm = "blocked"
    /\ comm' = "waiting"
    /\ UNCHANGED <<ownerVars, entry, result, answered, callerVars, txq, promise,
                   enqueued>>

CommLoop == LoopTop \/ CheckQueue \/ ExchangeEnds \/ HandleResponse \/ CvWait

-------------------------------------------------------------------------------
\* deviceConnect closes the old connection before it opens the new one.
Disconnect ==
    /\ owner = "running"
    /\ owner' = "closed"
    /\ connValid' = FALSE
    /\ UNCHANGED <<stop, commVars, callerVars, txq, promise, enqueued>>

\* The last shared pointer is cleared; only then the destructor runs.
Release ==
    /\ Referenced
    /\ owner' = "released"
    /\ UNCHANGED <<connValid, stop, commVars, callerVars, txq, promise, enqueued>>

\* ~Connection: disconnect, then commThreadStop's flag, notification and join.
DestructorDisconnect ==
    /\ owner = "released"
    /\ owner' = "disconnected"
    /\ connValid' = FALSE
    /\ UNCHANGED <<stop, commVars, callerVars, txq, promise, enqueued>>

SetStop ==
    /\ owner = "disconnected"
    /\ owner' = "flagged"
    /\ stop' = TRUE
    /\ UNCHANGED <<connValid, commVars, callerVars, txq, promise, enqueued>>

NotifyStop ==
    /\ owner = "flagged"
    /\ owner' = "joining"
    /\ WakeComm
    /\ UNCHANGED <<connValid, stop, entry, result, answered, callerVars, txq, promise,
                   enqueued>>

Join ==
    /\ owner = "joining"
    /\ comm = "exited"
    /\ owner' = "destroyed"
    /\ UNCHANGED <<connValid, stop, commVars, callerVars, txq, promise, enqueued>>

Destructor == DestructorDisconnect \/ SetStop \/ NotifyStop \/ Join

-------------------------------------------------------------------------------
Next ==
    \/ \E c \in Callers : CheckConn(c) \/ NoConn(c) \/ InSend(c)
    \/ CommLoop
    \/ SpuriousWakeup
    \/ Disconnect
    \/ Release
    \/ Destructor

Spec == Init /\ [][Next]_vars

\* Threads that can run do run.  Nobody has to send, to close or to release, and
\* the system owes nobody a spurious wakeup.
FairSpec ==
    /\ Spec
    /\ \A c \in Callers : WF_vars(InSend(c))
    /\ WF_vars(CommLoop)
    /\ WF_vars(Destructor)

-------------------------------------------------------------------------------
TypeOK ==
    /\ owner \in {"running", "closed", "released", "disconnected", "flagged",
                  "joining", "destroyed"}
    /\ connValid \in BOOLEAN
    /\ stop \in BOOLEAN
    /\ txq \in Seq(Callers)
    /\ comm \in {"top", "locked", "exchange", "respond", "waiting", "blocked",
                 "exited"}
    /\ entry \in {<<>>} \cup {<<c>> : c \in Callers}
    /\ result \in {"none", "ok", "failed"}
    /\ caller \in [Callers -> {"idle", "checked", "inSend", "pushed", "waiting",
                               "crashed"}]
    /\ promise \in [Callers -> {"unset", "ok", "failed"}]
    /\ sends \in [Callers -> 0 .. MaxSends]
    /\ enqueued \in Seq(Callers)
    /\ answered \in Seq(Callers)

\* No entry is lost, doubled or overtaken between enqueue and handleResponse,
\* wherever the threads are and however the connection ends: what was pushed is
\* what was answered, then the one in hand, then what is still in txq.
NothingDropped == enqueued = answered \o entry \o txq

Waiting(c) == caller[c] = "waiting"

\* Its entry is still in txq, or was pushed to memory that is no queue any more.
Stranded(c) ==
    /\ owner = "destroyed"
    /\ \/ c \in {txq[i] : i \in 1 .. Len(txq)}
       \/ Len(SelectSeq(enqueued, LAMBDA e : e = c)) < sends[c]

\* A caller that waits for its response gets it, unless the Connection was
\* destroyed before the comm thread took its entry from the queue: an entry in
\* hand is answered even while the destructor waits in join.
AnsweredUnlessStranded == \A c \in Callers : Waiting(c) ~> (~Waiting(c) \/ Stranded(c))

\* The destructor is never stuck in commThreadStop's join, wherever the comm
\* thread was when the flag was set.
DestructorEnds == owner = "released" ~> owner = "destroyed"
===============================================================================
