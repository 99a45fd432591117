--------------------------- MODULE Connection_proofs ---------------------------
(***************************************************************************)
(* Proofs about module Connection, for every set of callers and every      *)
(* number of messages: types; that no entry is lost, doubled or overtaken  *)
(* between enqueue and handleResponse; that no wakeup is missed; and that  *)
(* a caller which waits is answered once or has its entry where it can be. *)
(***************************************************************************)
EXTENDS Connection, SequenceTheorems, TLAPS

\* The comm thread has an entry in its hands exactly while it handles one, and a
\* response to give when it gives one.
InHand ==
    /\ entry # <<>> <=> comm \in {"exchange", "respond"}
    /\ comm = "respond" => result \in {"ok", "failed"}

ConnInv == TypeOK /\ InHand /\ NothingDropped

-------------------------------------------------------------------------------
LEMMA ConnInit == Init => ConnInv
<1> SUFFICES ASSUME Init PROVE ConnInv
    OBVIOUS
<1>1. TypeOK /\ InHand
    <2>1. <<>> \in Seq(Callers)
        BY EmptySeq
    <2>2. TypeOK
        <3>1. txq \in Seq(Callers) /\ enqueued \in Seq(Callers) /\ answered \in Seq(Callers)
            BY <2>1 DEF Init
        <3>2. entry \in {<<>>} \cup {<<c>> : c \in Callers}
            BY Zenon DEF Init
        <3>3. sends \in [Callers -> 0 .. MaxSends]
            BY ConnectionAssumption DEF Init
        <3>4. QED
            BY <3>1, <3>2, <3>3 DEF Init, TypeOK
    <2>3. InHand
        BY DEF Init, InHand
    <2>4. QED
        BY <2>2, <2>3
<1>2. NothingDropped
    <2>1. <<>> = <<>> \o (<<>> \o <<>>)
        BY EmptySeq, ConcatEmptySeq
    <2>2. <<>> = (<<>> \o <<>>) \o <<>>
        BY EmptySeq, ConcatEmptySeq
    <2>3. QED
        BY <2>1, <2>2 DEF Init, NothingDropped
<1>3. QED
    BY <1>1, <1>2 DEF ConnInv

\* Moving the first element of u to the end of an empty t leaves s \o t \o u.
LEMMA MoveHead ==
    ASSUME NEW S, NEW s \in Seq(S), NEW u \in Seq(S), u # <<>>
    PROVE  s \o <<>> \o u = s \o <<Head(u)>> \o Tail(u)
<1>1. Head(u) \in S /\ Tail(u) \in Seq(S) /\ <<Head(u)>> \in Seq(S)
    BY HeadTailProperties
<1>2. <<Head(u)>> \o Tail(u) = u
    <2>1. Len(u) \in Nat \ {0}
        BY EmptySeq
    <2>2. <<Head(u)>> \o Tail(u) \in Seq(S)
        BY <1>1, ConcatProperties
    <2>3. Len(<<Head(u)>> \o Tail(u)) = Len(u)
        BY <1>1, <2>1, ConcatProperties, HeadTailProperties
    <2>4. \A i \in 1 .. Len(u) : (<<Head(u)>> \o Tail(u))[i] = u[i]
        BY <1>1, <2>1, ConcatProperties, HeadTailProperties
    <2>5. QED
        BY <2>2, <2>3, <2>4, SeqEqual
<1>3. (s \o <<Head(u)>>) \o Tail(u) = s \o (<<Head(u)>> \o Tail(u))
    BY <1>1, ConcatAssociative
<1>4. s \o <<>> = s
    BY ConcatEmptySeq
<1>5. QED
    BY <1>2, <1>3, <1>4

\* Appending to a concatenation appends to its last part.
LEMMA AppendToLast ==
    ASSUME NEW S, NEW s \in Seq(S), NEW u \in Seq(S), NEW e \in S
    PROVE  Append(s \o u, e) = s \o Append(u, e)
<1>1. /\ s \o u \in Seq(S) /\ Append(u, e) \in Seq(S)
      /\ Len(s) \in Nat /\ Len(u) \in Nat
    BY ConcatProperties, AppendProperties, LenProperties
<1>2. Append(s \o u, e) = (s \o u) \o <<e>>
    BY <1>1, AppendIsConcat
<1>3. Append(u, e) = u \o <<e>>
    BY AppendIsConcat
<1>4. (s \o u) \o <<e>> = s \o (u \o <<e>>)
    BY ConcatAssociative
<1>5. QED
    BY <1>2, <1>3, <1>4

\* The sequences NothingDropped speaks of are sequences of callers.
LEMMA SeqTypes ==
    ASSUME TypeOK
    PROVE  /\ answered \in Seq(Callers) /\ txq \in Seq(Callers)
           /\ entry \in Seq(Callers)
           /\ answered \o entry \in Seq(Callers)
<1>1. answered \in Seq(Callers) /\ txq \in Seq(Callers)
    BY DEF TypeOK
<1>2. entry \in Seq(Callers)
    <2>1. CASE entry = <<>>
        BY <2>1, EmptySeq
    <2>2. ASSUME NEW c \in Callers, entry = <<c>>
          PROVE  entry \in Seq(Callers)
        BY <2>2
    <2>3. QED
        BY <2>1, <2>2 DEF TypeOK
<1>3. QED
    BY <1>1, <1>2, ConcatProperties

-------------------------------------------------------------------------------
\* Most steps touch none of the sequences: only their types are left to check.
LEMMA OtherSteps ==
    ASSUME ConnInv, TypeOK',
           UNCHANGED <<enqueued, answered, entry, txq, result>>,
           comm' \in {"exchange", "respond"} <=> comm \in {"exchange", "respond"},
           comm' = "respond" => comm = "respond"
    PROVE  ConnInv'
    BY DEF ConnInv, InHand, NothingDropped

LEMMA CallerStep ==
    ASSUME ConnInv, NEW c \in Callers, CheckConn(c) \/ NoConn(c) \/ InSend(c)
    PROVE  ConnInv'
<1> USE ConnectionAssumption DEF ownerVars, commVars, callerVars
<1>0. TypeOK /\ InHand /\ NothingDropped
    BY DEF ConnInv
<1>1. CASE CheckConn(c)
    <2>1. TypeOK'
        BY <1>0, <1>1 DEF CheckConn, TypeOK
    <2>2. QED
        BY <1>1, <2>1, OtherSteps DEF CheckConn
<1>2. CASE NoConn(c)
    <2>1. TypeOK'
        BY <1>0, <1>2 DEF NoConn, TypeOK
    <2>2. QED
        BY <1>2, <2>1, OtherSteps DEF NoConn
<1>3. CASE Crash(c)
    <2>1. TypeOK'
        BY <1>0, <1>3 DEF Crash, TypeOK
    <2>2. QED
        BY <1>3, <2>1, OtherSteps DEF Crash
<1>4. CASE Deref(c) /\ ~Crash(c)
    <2>1. TypeOK'
        BY <1>0, <1>4 DEF Deref, TypeOK
    <2>2. QED
        BY <1>4, <2>1, OtherSteps DEF Deref
<1>5. CASE Push(c) /\ ~Crash(c)
    <2>1. CASE Alive
        <3>1. /\ txq' = Append(txq, c) /\ enqueued' = Append(enqueued, c)
              /\ UNCHANGED <<ownerVars, commVars, sends, promise>>
              /\ caller' = [caller EXCEPT ![c] = "pushed"]
            BY <1>5, <2>1 DEF Push
        <3>2. txq' \in Seq(Callers) /\ enqueued' \in Seq(Callers)
            BY <1>0, <3>1, AppendProperties DEF TypeOK
        <3>3. TypeOK'
            BY <1>0, <3>1, <3>2 DEF TypeOK
        <3>4. NothingDropped'
            <4>1. Append((answered \o entry) \o txq, c)
                      = (answered \o entry) \o Append(txq, c)
                BY <1>0, SeqTypes, AppendToLast
            <4>2. QED
                BY <1>0, <3>1, <4>1 DEF NothingDropped
        <3>5. QED
            BY <1>0, <3>1, <3>3, <3>4 DEF ConnInv, InHand
    <2>2. CASE ~Alive
        <3>1. TypeOK'
            BY <1>0, <1>5, <2>2 DEF Push, TypeOK
        <3>2. QED
            BY <1>5, <2>2, <3>1, OtherSteps DEF Push
    <2>3. QED
        BY <2>1, <2>2
<1>6. CASE Notify(c) /\ ~Crash(c)
    <2>1. /\ comm' = comm \/ (comm = "blocked" /\ comm' = "waiting")
          /\ caller' = [caller EXCEPT ![c] = "waiting"]
          /\ UNCHANGED <<ownerVars, entry, result, answered, sends, txq, promise, enqueued>>
        BY <1>6 DEF Notify, WakeComm
    <2>2. TypeOK'
        BY <1>0, <2>1 DEF TypeOK
    <2>3. QED
        BY <2>1, <2>2, OtherSteps
<1>7. CASE GetResponse(c)
    <2>1. TypeOK'
        BY <1>0, <1>7 DEF GetResponse, TypeOK
    <2>2. QED
        BY <1>7, <2>1, OtherSteps DEF GetResponse
<1>8. QED
    BY <1>1, <1>2, <1>3, <1>4, <1>5, <1>6, <1>7 DEF InSend

LEMMA CommStep ==
    ASSUME ConnInv, CommLoop \/ SpuriousWakeup
    PROVE  ConnInv'
<1> USE DEF ownerVars, callerVars
<1>0. TypeOK /\ InHand /\ NothingDropped
    BY DEF ConnInv
<1>1. CASE LoopTop \/ CvWait \/ SpuriousWakeup
    <2>1. /\ comm' \in {"exited", "locked", "top", "blocked", "waiting"}
          /\ comm \in {"top", "waiting", "blocked"}
          /\ UNCHANGED <<ownerVars, entry, result, answered, callerVars, txq, promise,
                         enqueued>>
        BY <1>1 DEF LoopTop, CvWait, SpuriousWakeup
    <2>2. TypeOK'
        BY <1>0, <2>1 DEF TypeOK
    <2>3. QED
        BY <2>1, <2>2, OtherSteps
<1>2. CASE CheckQueue /\ entry' = entry
    <2>1. comm' \in {"exited", "waiting"} /\ comm = "locked" /\ txq' = txq
        BY <1>0, <1>2 DEF CheckQueue, InHand
    <2>2. TypeOK'
        BY <1>0, <1>2, <2>1 DEF CheckQueue, TypeOK
    <2>3. QED
        BY <1>2, <2>1, <2>2, OtherSteps DEF CheckQueue
<1>3. CASE CheckQueue /\ entry' # entry
    <2>1. /\ comm = "locked" /\ comm' = "exchange" /\ txq # <<>>
          /\ entry' = <<Head(txq)>> /\ txq' = Tail(txq)
          /\ UNCHANGED <<ownerVars, result, answered, callerVars, promise, enqueued>>
        BY <1>3 DEF CheckQueue
    <2>2. Head(txq) \in Callers /\ txq' \in Seq(Callers)
        BY <1>0, <2>1, HeadTailProperties DEF TypeOK
    <2>3. TypeOK'
        BY <1>0, <2>1, <2>2 DEF TypeOK
    <2>4. NothingDropped'
        <3>1. entry = <<>>
            BY <1>0, <2>1 DEF InHand
        <3>2. answered \o <<>> \o txq = answered \o <<Head(txq)>> \o Tail(txq)
            BY <1>0, <2>1, SeqTypes, MoveHead
        <3>3. QED
            BY <1>0, <2>1, <3>1, <3>2 DEF NothingDropped
    <2>5. InHand'
        BY <2>1 DEF InHand
    <2>6. QED
        BY <2>3, <2>4, <2>5 DEF ConnInv
<1>4. CASE ExchangeEnds
    <2>1. /\ comm = "exchange" /\ comm' = "respond" /\ result' \in {"ok", "failed"}
          /\ UNCHANGED <<ownerVars, entry, answered, callerVars, txq, promise, enqueued>>
        BY <1>4 DEF ExchangeEnds
    <2>2. TypeOK'
        BY <1>0, <2>1 DEF TypeOK
    <2>3. QED
        BY <1>0, <2>1, <2>2 DEF ConnInv, InHand, NothingDropped
<1>5. CASE HandleResponse
    <2>1. /\ comm = "respond" /\ comm' = "top" /\ entry' = <<>>
          /\ answered' = answered \o entry
          /\ promise' = [promise EXCEPT ![Head(entry)] = result]
          /\ UNCHANGED <<ownerVars, result, callerVars, txq, enqueued>>
        BY <1>5 DEF HandleResponse
    <2>2. answered' \in Seq(Callers) /\ result \in {"ok", "failed"}
        BY <1>0, <2>1, SeqTypes DEF InHand
    <2>3. TypeOK'
        BY <1>0, <2>1, <2>2 DEF TypeOK
    <2>4. NothingDropped'
        BY <1>0, <2>1, SeqTypes, ConcatEmptySeq DEF NothingDropped
    <2>5. QED
        BY <2>1, <2>3, <2>4 DEF ConnInv, InHand
<1>6. QED
    BY <1>1, <1>2, <1>3, <1>4, <1>5 DEF CommLoop

LEMMA OwnerStep ==
    ASSUME ConnInv, Disconnect \/ Release \/ Destructor
    PROVE  ConnInv'
<1>1. /\ comm' = comm \/ (comm = "blocked" /\ comm' = "waiting")
      /\ UNCHANGED <<entry, result, answered, callerVars, txq, promise, enqueued>>
      /\ owner' \in {"closed", "released", "disconnected", "flagged", "joining",
                     "destroyed"}
      /\ connValid' \in {FALSE, connValid}
      /\ stop' \in {TRUE, stop}
    BY DEF Disconnect, Release, Destructor, DestructorDisconnect, SetStop, NotifyStop,
           Join, WakeComm, commVars
<1>2. TypeOK'
    BY <1>1 DEF ConnInv, TypeOK, callerVars
<1>3. QED
    BY <1>1, <1>2, OtherSteps

LEMMA ConnStep == ConnInv /\ [Next]_vars => ConnInv'
<1> SUFFICES ASSUME ConnInv, [Next]_vars PROVE ConnInv'
    OBVIOUS
<1>1. CASE UNCHANGED vars
    BY <1>1 DEF vars, ownerVars, commVars, callerVars, ConnInv, TypeOK, InHand,
                NothingDropped
<1>2. CASE Next
    BY <1>2, CallerStep, CommStep, OwnerStep DEF Next
<1>3. QED
    BY <1>1, <1>2

LEMMA ConnInvariant == Spec => []ConnInv
    BY ConnInit, ConnStep, PTL DEF Spec

\* Every variable of a Connection keeps its type, whatever its owner does.
THEOREM TypeCorrect == Spec => []TypeOK
<1>1. ConnInv => TypeOK
    BY DEF ConnInv
<1>2. QED
    BY ConnInvariant, <1>1, PTL

\* Entries are answered in the order in which they were pushed, none twice, and
\* those not answered are in hand or still queued (enqueue, commLoop).
THEOREM QueueIsFaithful == Spec => []NothingDropped
<1>1. ConnInv => NothingDropped
    BY DEF ConnInv
<1>2. QED
    BY ConnInvariant, <1>1, PTL
-------------------------------------------------------------------------------
(* Nobody waits for a wakeup or a response that nobody is about to give.     *)

\* While the comm thread sleeps in txqCV.wait, a queue that is not empty has a caller who
\* has still to notify, and a flag that is set has a destructor that has.
NoLostWakeup ==
    comm = "blocked" => /\ txq # <<>> => \E c \in Callers : caller[c] = "pushed"
                        /\ stop => owner = "flagged"

\* The flag goes up in commThreadStop, and join waits for the end of the thread.
OwnerInv ==
    /\ stop <=> owner \in {"flagged", "joining", "destroyed"}
    /\ owner = "destroyed" => comm = "exited"

\* c's entry has been pushed and has no response yet.
Pending(c) == entry = <<c>> \/ \E i \in 1 .. Len(txq) : txq[i] = c

\* A caller that waits without a response has its entry in txq or in hand, unless the
\* destructor is through, and then nobody will answer it.
WaitersPending ==
    \A c \in Callers : Waiting(c) /\ promise[c] = "unset" => Pending(c) \/ owner = "destroyed"

\* The entries that are pending are those of callers inside send that have no response,
\* one of each.
EntriesInv ==
    /\ \A i, j \in 1 .. Len(txq) : txq[i] = txq[j] => i = j
    /\ \A i \in 1 .. Len(txq) : entry # <<txq[i]>>
    /\ \A c \in Callers :
           /\ Pending(c) => caller[c] \in {"pushed", "waiting", "crashed"}
                            /\ promise[c] = "unset"
           /\ caller[c] \in {"pushed", "waiting"} /\ promise[c] = "unset" =>
                  Pending(c) \/ owner = "destroyed"
           /\ caller[c] = "inSend" => promise[c] = "unset"

WaitInv == OwnerInv /\ NoLostWakeup /\ EntriesInv

\* A response stays what it is until its caller sends again.
ResponsesStay ==
    \A c \in Callers :
        promise[c] # "unset" /\ promise'[c] # promise[c] => caller[c] \in {"idle", "checked"}

LEMMA WaitInit == Init => WaitInv
BY DEF Init, WaitInv, OwnerInv, NoLostWakeup, EntriesInv, Pending

-------------------------------------------------------------------------------
(* The flag and the end of the thread.                                       *)

LEMMA OwnerKept ==
    ASSUME TypeOK, OwnerInv, [Next]_vars
    PROVE  OwnerInv'
<1> USE DEF OwnerInv, ownerVars, commVars, callerVars, Referenced, WakeComm
<1>1. ASSUME NEW c \in Callers, CheckConn(c) \/ NoConn(c) \/ InSend(c)
      PROVE  OwnerInv'
    <2>1. /\ UNCHANGED <<owner, stop>>
          /\ comm' = comm \/ (comm = "blocked" /\ comm' = "waiting")
        BY <1>1 DEF CheckConn, NoConn, InSend, Deref, Push, Notify, GetResponse, Crash
    <2>2. QED
        BY <2>1
<1>2. CASE CommLoop \/ SpuriousWakeup
    <2>1. UNCHANGED <<owner, stop>> /\ comm # "exited"
        BY <1>2 DEF CommLoop, SpuriousWakeup, LoopTop, CheckQueue, ExchangeEnds,
                    HandleResponse, CvWait
    <2>2. QED
        BY <2>1
<1>3. CASE Disconnect
    BY <1>3 DEF Disconnect
<1>4. CASE Release
    BY <1>4 DEF Release
<1>5. CASE DestructorDisconnect
    BY <1>5 DEF DestructorDisconnect
<1>6. CASE SetStop
    BY <1>6 DEF SetStop
<1>7. CASE NotifyStop
    BY <1>7 DEF NotifyStop
<1>8. CASE Join
    BY <1>8 DEF Join
<1>9. CASE UNCHANGED vars
    BY <1>9 DEF vars
<1>10. QED
    BY <1>1, <1>2, <1>3, <1>4, <1>5, <1>6, <1>7, <1>8, <1>9 DEF Next, Destructor

-------------------------------------------------------------------------------
(* Wakeups.                                                                  *)

\* The entry is pushed and the predicate is evaluated under one mutex: a push that finds
\* the thread asleep has its notification before it, as has the flag.
LEMMA WakeupKept ==
    ASSUME TypeOK, OwnerInv, NoLostWakeup, [Next]_vars
    PROVE  NoLostWakeup'
<1> USE DEF NoLostWakeup, ownerVars, commVars, callerVars
<1>1. ASSUME NEW c \in Callers, CheckConn(c) \/ NoConn(c)
      PROVE  NoLostWakeup'
    <2>1. /\ UNCHANGED <<owner, stop, comm, txq>>
          /\ caller[c] = "idle" /\ caller' \in {caller, [caller EXCEPT ![c] = "checked"]}
        BY <1>1 DEF CheckConn, NoConn
    <2>2. \A d \in Callers : caller[d] = "pushed" => caller'[d] = "pushed"
        BY <2>1 DEF TypeOK
    <2>3. QED
        BY <2>1, <2>2
<1>2. ASSUME NEW c \in Callers, Deref(c) \/ GetResponse(c)
      PROVE  NoLostWakeup'
    <2>1. /\ UNCHANGED <<owner, stop, comm, txq>> /\ caller[c] # "pushed"
          /\ \E v : caller' = [caller EXCEPT ![c] = v]
        BY <1>2 DEF Deref, GetResponse, Crash
    <2>2. \A d \in Callers : caller[d] = "pushed" => caller'[d] = "pushed"
        BY <2>1 DEF TypeOK
    <2>3. QED
        BY <2>1, <2>2
<1>3. ASSUME NEW c \in Callers, Push(c)
      PROVE  NoLostWakeup'
    <2>1. CASE Crash(c)
        <3>1. ~ Alive
            BY <1>3, <2>1 DEF Push, Crash, TypeOK
        <3>2. comm' = "exited"
            BY <2>1, <3>1 DEF Crash, Alive, OwnerInv
        <3>3. QED
            BY <3>2
    <2>2. CASE ~ Crash(c)
        <3>1. UNCHANGED <<owner, stop, comm>> /\ caller' = [caller EXCEPT ![c] = "pushed"]
            BY <1>3, <2>2 DEF Push
        <3>2. caller'[c] = "pushed"
            BY <3>1 DEF TypeOK
        <3>3. QED
            BY <3>1, <3>2
    <2>3. QED
        BY <2>1, <2>2
<1>4. ASSUME NEW c \in Callers, Notify(c)
      PROVE  NoLostWakeup'
    <2>1. CASE Alive
        <3>1. comm' # "blocked"
            BY <1>4, <2>1 DEF Notify, WakeComm
        <3>2. QED
            BY <3>1
    <2>2. CASE ~ Alive
        <3>1. comm' = comm /\ comm = "exited"
            BY <1>4, <2>2 DEF Notify, Crash, Alive, OwnerInv
        <3>2. QED
            BY <3>1
    <2>3. QED
        BY <2>1, <2>2
<1>5. CASE CommLoop \/ SpuriousWakeup
    <2>1. comm' = "blocked" => CvWait
        BY <1>5 DEF CommLoop, SpuriousWakeup, LoopTop, CheckQueue, ExchangeEnds,
                    HandleResponse
    <2>2. CvWait /\ comm' = "blocked" => txq' = <<>> /\ ~ stop'
        BY DEF CvWait, WaitPredicate
    <2>3. QED
        BY <2>1, <2>2
<1>6. CASE Disconnect \/ Release \/ Destructor
    <2>1. /\ UNCHANGED <<caller, txq>>
          /\ comm' = comm \/ comm' = "waiting"
          /\ comm' = "blocked" =>
                 (UNCHANGED stop /\ owner # "flagged") \/ owner' = "flagged"
        BY <1>6 DEF Disconnect, Release, Destructor, DestructorDisconnect, SetStop,
                    NotifyStop, Join, WakeComm, Referenced
    <2>2. QED
        BY <2>1
<1>7. CASE UNCHANGED vars
    BY <1>7 DEF vars
<1>8. QED
    BY <1>1, <1>2, <1>3, <1>4, <1>5, <1>6, <1>7 DEF Next, InSend

-------------------------------------------------------------------------------
(* Entries.                                                                  *)

\* Most steps leave the queue and the entry in hand as they are.
LEMMA SameEntries ==
    ASSUME EntriesInv, UNCHANGED <<entry, txq>>,
           owner = "destroyed" => owner' = "destroyed",
           \A c \in Callers :
               /\ Pending(c) => caller'[c] \in {"pushed", "waiting", "crashed"}
                                /\ promise'[c] = "unset"
               /\ caller'[c] \in {"pushed", "waiting"} /\ promise'[c] = "unset" =>
                      Pending(c) \/ owner' = "destroyed"
               /\ caller'[c] = "inSend" => promise'[c] = "unset"
    PROVE  EntriesInv'
BY DEF EntriesInv, Pending

\* A step of c that only takes c further.
LEMMA CallerMoves ==
    ASSUME TypeOK, EntriesInv, NEW c \in Callers, NEW v, UNCHANGED <<entry, txq, owner>>,
           caller' = [caller EXCEPT ![c] = v],
           \A d \in Callers : d # c => promise'[d] = promise[d],
           Pending(c) => v \in {"pushed", "waiting", "crashed"} /\ promise'[c] = "unset",
           v \in {"pushed", "waiting"} /\ promise'[c] = "unset" =>
               Pending(c) \/ owner = "destroyed",
           v = "inSend" => promise'[c] = "unset"
    PROVE  EntriesInv'
<1>1. caller'[c] = v /\ \A d \in Callers : d # c => caller'[d] = caller[d]
    BY DEF TypeOK
<1>2. \A d \in Callers :
          /\ Pending(d) => caller'[d] \in {"pushed", "waiting", "crashed"}
                           /\ promise'[d] = "unset"
          /\ caller'[d] \in {"pushed", "waiting"} /\ promise'[d] = "unset" =>
                 Pending(d) \/ owner' = "destroyed"
          /\ caller'[d] = "inSend" => promise'[d] = "unset"
    BY <1>1 DEF EntriesInv
<1>3. QED
    BY <1>2, SameEntries

LEMMA EntriesPushed ==
    ASSUME TypeOK, EntriesInv, NEW c \in Callers, caller[c] = "inSend",
           txq' = Append(txq, c), caller' = [caller EXCEPT ![c] = "pushed"],
           UNCHANGED <<entry, promise, owner>>
    PROVE  EntriesInv'
<1> DEFINE n == Len(txq)
<1>1. /\ n \in Nat /\ Len(txq') = n + 1 /\ txq'[n + 1] = c
      /\ \A i \in 1 .. n : txq'[i] = txq[i]
    BY AppendProperties, LenProperties DEF TypeOK
<1>2. caller'[c] = "pushed" /\ \A d \in Callers : d # c => caller'[d] = caller[d]
    BY DEF TypeOK
<1>3. ~ Pending(c) /\ promise[c] = "unset"
    BY DEF EntriesInv
<1> HIDE DEF n
<1>4. \A i \in 1 .. n + 1 : i \in 1 .. n \/ i = n + 1
    BY <1>1
<1>5. \A i \in 1 .. n : i \in 1 .. n + 1
    BY <1>1
<1>6. n + 1 \in 1 .. n + 1
    BY <1>1
<1>7. \A i \in 1 .. n : txq[i] # c
    BY <1>3 DEF Pending, n
<1>8. \A d \in Callers : Pending(d)' <=> Pending(d) \/ d = c
    BY <1>1, <1>4, <1>5, <1>6 DEF Pending, n
<1>9. \A i, j \in 1 .. n + 1 : txq'[i] = txq'[j] => i = j
    BY <1>1, <1>4, <1>7 DEF EntriesInv, n
<1>10. \A i \in 1 .. n + 1 : entry' # <<txq'[i]>>
    BY <1>1, <1>3, <1>4 DEF EntriesInv, Pending, n
<1>11. \A d \in Callers :
           /\ Pending(d)' => caller'[d] \in {"pushed", "waiting", "crashed"}
                             /\ promise'[d] = "unset"
           /\ caller'[d] \in {"pushed", "waiting"} /\ promise'[d] = "unset" =>
                  Pending(d)' \/ owner' = "destroyed"
           /\ caller'[d] = "inSend" => promise'[d] = "unset"
    BY <1>2, <1>3, <1>8 DEF EntriesInv
<1>12. QED
    BY <1>1, <1>9, <1>10, <1>11 DEF EntriesInv

LEMMA EntriesTaken ==
    ASSUME TypeOK, EntriesInv, entry = <<>>, txq # <<>>,
           entry' = <<Head(txq)>>, txq' = Tail(txq), UNCHANGED <<caller, promise, owner>>
    PROVE  EntriesInv'
<1> DEFINE n == Len(txq)
           h == Head(txq)
<1>1. /\ n \in Nat \ {0} /\ h = txq[1] /\ h \in Callers /\ Len(txq') = n - 1
      /\ \A i \in 1 .. n - 1 : txq'[i] = txq[i + 1]
    <2>1. txq \in Seq(Callers) /\ Len(txq) \in Nat \ {0}
        BY EmptySeq DEF TypeOK
    <2>2. QED
        BY <2>1, HeadTailProperties
<1>2. entry' = <<h>>
    OBVIOUS
<1> HIDE DEF n, h
<1>3. /\ \A i \in 1 .. n - 1 : i + 1 \in 1 .. n /\ i + 1 # 1
      /\ \A i \in 1 .. n : i = 1 \/ (i - 1 \in 1 .. n - 1 /\ (i - 1) + 1 = i)
      /\ 1 \in 1 .. n
      /\ \A i, j \in 1 .. n - 1 : i + 1 = j + 1 => i = j
    BY <1>1
<1>4. \A d : entry' = <<d>> <=> d = h
    BY <1>2
<1>5. \A d \in Callers : Pending(d)' <=> Pending(d)
    <2>1. \A d \in Callers : entry # <<d>>
        OBVIOUS
    <2>2. ASSUME NEW d \in Callers
          PROVE  Pending(d)' <=> Pending(d)
        <3>1. CASE d = h
            BY <1>1, <1>2, <1>3, <3>1 DEF Pending, n
        <3>2. CASE d # h
            <4>1. ASSUME NEW i \in 1 .. n - 1, txq'[i] = d
                  PROVE  Pending(d)
                BY <1>1, <1>3, <4>1 DEF Pending, n
            <4>2. ASSUME NEW i \in 1 .. n, txq[i] = d
                  PROVE  Pending(d)'
                <5>1. i # 1
                    BY <1>1, <3>2, <4>2
                <5>2. i - 1 \in 1 .. n - 1 /\ txq'[i - 1] = d
                    BY <1>1, <1>3, <4>2, <5>1
                <5>3. QED
                    BY <1>1, <5>2 DEF Pending
            <4>3. QED
                BY <1>1, <1>4, <2>1, <3>2, <4>1, <4>2 DEF Pending, n
        <3>3. QED
            BY <3>1, <3>2
    <2>3. QED
        BY <2>2
<1>6. \A i, j \in 1 .. n - 1 : txq'[i] = txq'[j] => i = j
    BY <1>1, <1>3 DEF EntriesInv, n
<1>7. \A i \in 1 .. n - 1 : entry' # <<txq'[i]>>
    BY <1>1, <1>3, <1>4 DEF EntriesInv, n
<1>8. QED
    BY <1>1, <1>5, <1>6, <1>7 DEF EntriesInv

LEMMA EntriesAnswered ==
    ASSUME TypeOK, InHand, EntriesInv, HandleResponse
    PROVE  EntriesInv' /\ \A d \in Callers : entry # <<d>> => promise'[d] = promise[d]
<1>1. /\ entry # <<>> /\ entry' = <<>> /\ result \in {"ok", "failed"}
      /\ promise' = [promise EXCEPT ![Head(entry)] = result]
      /\ UNCHANGED <<owner, caller, txq>>
    BY DEF HandleResponse, InHand, ownerVars, callerVars
<1>2. PICK c \in Callers : entry = <<c>>
    BY <1>1 DEF TypeOK
<1>3. Head(entry) = c
    BY <1>2
<1>4. /\ promise'[c] = result /\ \A d \in Callers : d # c => promise'[d] = promise[d]
    BY <1>1, <1>3 DEF TypeOK
<1>5. \A d : entry = <<d>> <=> d = c
    BY <1>2
<1>6. /\ caller[c] \in {"pushed", "waiting", "crashed"} /\ \A i \in 1 .. Len(txq) : txq[i] # c
    BY <1>2 DEF EntriesInv, Pending
<1>7. \A d \in Callers : Pending(d)' <=> Pending(d) /\ d # c
    <2>1. \A d : entry' # <<d>>
        BY <1>1
    <2>2. QED
        BY <1>1, <1>5, <1>6, <2>1 DEF Pending
<1>8. \A i \in 1 .. Len(txq') : entry' # <<txq'[i]>>
    BY <1>1
<1>9. \A d \in Callers :
          /\ Pending(d)' => caller'[d] \in {"pushed", "waiting", "crashed"}
                            /\ promise'[d] = "unset"
          /\ caller'[d] \in {"pushed", "waiting"} /\ promise'[d] = "unset" =>
                 Pending(d)' \/ owner' = "destroyed"
          /\ caller'[d] = "inSend" => promise'[d] = "unset"
    BY <1>1, <1>4, <1>6, <1>7 DEF EntriesInv
<1>10. EntriesInv'
    BY <1>1, <1>8, <1>9 DEF EntriesInv
<1>11. QED
    BY <1>4, <1>5, <1>10

LEMMA EntriesKept ==
    ASSUME ConnInv, EntriesInv, OwnerInv, [Next]_vars
    PROVE  EntriesInv'
<1> USE DEF ownerVars, commVars, callerVars
<1>0. TypeOK /\ InHand
    BY DEF ConnInv
<1>1. ASSUME NEW c \in Callers, CheckConn(c) \/ NoConn(c)
      PROVE  EntriesInv'
    <2>1. caller[c] = "idle" /\ ~ Pending(c) /\ UNCHANGED <<entry, txq, owner>>
        BY <1>1 DEF CheckConn, NoConn, EntriesInv
    <2>2. CASE CheckConn(c)
        BY <1>0, <2>1, <2>2, CallerMoves DEF CheckConn
    <2>3. CASE NoConn(c)
        <3>1. caller' = [caller EXCEPT ![c] = "idle"]
            BY <1>0, <2>1, <2>3 DEF NoConn, TypeOK
        <3>2. \A d \in Callers : d # c => promise'[d] = promise[d]
            BY <1>0, <2>3 DEF NoConn, TypeOK
        <3>3. QED
            BY <1>0, <2>1, <3>1, <3>2, CallerMoves
    <2>4. QED
        BY <1>1, <2>2, <2>3
<1>2. ASSUME NEW c \in Callers, Crash(c), ~ Alive \/ caller[c] = "checked"
      PROVE  EntriesInv'
    BY <1>0, <1>2, CallerMoves DEF Crash, EntriesInv
<1>3. ASSUME NEW c \in Callers, Deref(c), ~ Crash(c)
      PROVE  EntriesInv'
    <2>1. /\ caller[c] = "checked" /\ ~ Pending(c) /\ UNCHANGED <<entry, txq, owner>>
          /\ caller' = [caller EXCEPT ![c] = "inSend"]
          /\ promise' = [promise EXCEPT ![c] = "unset"]
        BY <1>3 DEF Deref, EntriesInv
    <2>2. promise'[c] = "unset" /\ \A d \in Callers : d # c => promise'[d] = promise[d]
        BY <1>0, <2>1 DEF TypeOK
    <2>3. QED
        BY <1>0, <2>1, <2>2, CallerMoves
<1>4. ASSUME NEW c \in Callers, Push(c), ~ Crash(c)
      PROVE  EntriesInv'
    <2>1. CASE Alive
        BY <1>0, <1>4, <2>1, EntriesPushed DEF Push
    <2>2. CASE ~ Alive
        <3>1. /\ caller[c] = "inSend" /\ ~ Pending(c) /\ owner = "destroyed"
              /\ caller' = [caller EXCEPT ![c] = "pushed"]
              /\ UNCHANGED <<entry, txq, owner, promise>>
            BY <1>4, <2>2 DEF Push, Alive, EntriesInv
        <3>2. QED
            BY <1>0, <3>1, CallerMoves
    <2>3. QED
        BY <2>1, <2>2
<1>5. ASSUME NEW c \in Callers, Notify(c), ~ Crash(c)
      PROVE  EntriesInv'
    <2>1. /\ caller[c] = "pushed" /\ caller' = [caller EXCEPT ![c] = "waiting"]
          /\ UNCHANGED <<entry, txq, owner, promise>>
        BY <1>5 DEF Notify
    <2>2. /\ Pending(c) => promise[c] = "unset"
          /\ promise[c] = "unset" => Pending(c) \/ owner = "destroyed"
        BY <2>1 DEF EntriesInv
    <2>3. QED
        BY <1>0, <2>1, <2>2, CallerMoves
<1>6. ASSUME NEW c \in Callers, GetResponse(c)
      PROVE  EntriesInv'
    <2>1. /\ promise[c] # "unset" /\ caller' = [caller EXCEPT ![c] = "idle"]
          /\ UNCHANGED <<entry, txq, owner, promise>>
        BY <1>6 DEF GetResponse
    <2>2. ~ Pending(c)
        BY <2>1 DEF EntriesInv
    <2>3. QED
        BY <1>0, <2>1, <2>2, CallerMoves
<1>7. ASSUME NEW c \in Callers, InSend(c)
      PROVE  EntriesInv'
    <2>1. CASE Crash(c)
        <3>1. ~ Alive \/ caller[c] = "checked"
            BY <1>0, <1>7, <2>1 DEF InSend, Deref, Push, Notify, GetResponse, Crash, TypeOK
        <3>2. QED
            BY <1>2, <2>1, <3>1
    <2>2. CASE ~ Crash(c)
        BY <1>3, <1>4, <1>5, <1>6, <1>7, <2>2 DEF InSend
    <2>3. QED
        BY <2>1, <2>2
<1>8. CASE CheckQueue /\ entry' # entry
    <2>1. /\ entry = <<>> /\ txq # <<>> /\ entry' = <<Head(txq)>> /\ txq' = Tail(txq)
          /\ UNCHANGED <<caller, promise, owner>>
        BY <1>0, <1>8 DEF CheckQueue, InHand
    <2>2. QED
        BY <1>0, <2>1, EntriesTaken
<1>9. CASE HandleResponse
    BY <1>0, <1>9, EntriesAnswered
<1>10. ASSUME UNCHANGED <<entry, txq, caller, promise>>,
              owner = "destroyed" => owner' = "destroyed"
       PROVE  EntriesInv'
    <2>1. \A c \in Callers :
              /\ Pending(c) => caller'[c] \in {"pushed", "waiting", "crashed"}
                               /\ promise'[c] = "unset"
              /\ caller'[c] \in {"pushed", "waiting"} /\ promise'[c] = "unset" =>
                     Pending(c) \/ owner' = "destroyed"
              /\ caller'[c] = "inSend" => promise'[c] = "unset"
        BY <1>10 DEF EntriesInv
    <2>2. QED
        BY <1>10, <2>1, SameEntries
<1>11. CASE LoopTop \/ (CheckQueue /\ entry' = entry) \/ ExchangeEnds \/ CvWait
            \/ SpuriousWakeup
    <2>1. CheckQueue /\ entry' = entry => UNCHANGED <<entry, txq, caller, promise, owner>>
        BY <1>0 DEF CheckQueue, InHand
    <2>2. LoopTop \/ ExchangeEnds \/ CvWait \/ SpuriousWakeup =>
              UNCHANGED <<entry, txq, caller, promise, owner>>
        BY DEF LoopTop, ExchangeEnds, CvWait, SpuriousWakeup
    <2>3. QED
        BY <1>10, <1>11, <2>1, <2>2
<1>12. CASE Disconnect \/ Release \/ Destructor
    <2>1. UNCHANGED <<entry, txq, caller, promise>> /\ owner # "destroyed"
        BY <1>12 DEF Disconnect, Release, Destructor, DestructorDisconnect, SetStop,
                     NotifyStop, Join, Referenced
    <2>2. QED
        BY <1>10, <2>1
<1>13. CASE UNCHANGED vars
    BY <1>10, <1>13 DEF vars
<1>14. QED
    BY <1>1, <1>7, <1>8, <1>9, <1>11, <1>12, <1>13 DEF Next, CommLoop

-------------------------------------------------------------------------------
LEMMA WaitStep == ConnInv /\ WaitInv /\ [Next]_vars => WaitInv'
BY OwnerKept, WakeupKept, EntriesKept DEF WaitInv, ConnInv

LEMMA WaitInvariant == Spec => [](ConnInv /\ WaitInv)
<1>1. Init => ConnInv /\ WaitInv
    BY ConnInit, WaitInit
<1>2. ConnInv /\ WaitInv /\ [Next]_vars => (ConnInv /\ WaitInv)'
    BY ConnStep, WaitStep
<1>3. QED
    BY <1>1, <1>2, PTL DEF Spec

\* No notification is missed: the comm thread never sleeps on a queue with entries or
\* with the flag set unless whoever changed them is about to notify.  So neither a caller
\* nor the destructor, whose join waits for the thread, can be left waiting by a wakeup
\* that came too early (Device.cpp:224-233, 260-269, 336-340).
THEOREM WakeupsAreNotLost == Spec => []NoLostWakeup
<1>1. WaitInv => NoLostWakeup
    BY DEF WaitInv
<1>2. QED
    BY WaitInvariant, <1>1, PTL

\* Every caller that waits without a response has its entry in txq or in hand: that it
\* waits for ever takes a destructor that is through (Device.cpp:331-343, 401-405).
THEOREM WaitersAreServed == Spec => []WaitersPending
<1>1. WaitInv => WaitersPending
    BY DEF WaitInv, EntriesInv, WaitersPending, Waiting
<1>2. QED
    BY WaitInvariant, <1>1, PTL

\* handleResponse gives every entry one response: the promise of a caller in send is set
\* once, and never by the response to another one's entry (Device.cpp:10-34, 363-365).
THEOREM OneResponseEach == Spec => [][ResponsesStay]_vars
<1>1. ASSUME ConnInv, WaitInv, [Next]_vars, NEW c \in Callers,
             promise[c] # "unset", promise'[c] # promise[c]
      PROVE  caller[c] \in {"idle", "checked"}
    <2> USE DEF ownerVars, commVars, callerVars
    <2>0. TypeOK /\ InHand /\ EntriesInv
        BY <1>1 DEF ConnInv, WaitInv
    <2>1. entry # <<c>>
        BY <1>1, <2>0 DEF EntriesInv, Pending
    <2>2. ~ HandleResponse
        BY <1>1, <2>0, <2>1, EntriesAnswered
    <2>3. ASSUME NEW d \in Callers, NoConn(d) \/ (Deref(d) /\ ~ Crash(d))
          PROVE  caller[c] \in {"idle", "checked"}
        <3>1. caller[d] \in {"idle", "checked"} /\ \E v : promise' = [promise EXCEPT ![d] = v]
            BY <2>3 DEF NoConn, Deref
        <3>2. c = d
            BY <1>1, <2>0, <3>1 DEF TypeOK
        <3>3. QED
            BY <3>1, <3>2
    <2>4. ASSUME NEW d \in Callers, CheckConn(d) \/ Crash(d) \/ Push(d) \/ Notify(d)
                                    \/ GetResponse(d)
          PROVE  promise' = promise
        BY <2>4 DEF CheckConn, Crash, Push, Notify, GetResponse
    <2>5. (LoopTop \/ CheckQueue \/ ExchangeEnds \/ CvWait \/ SpuriousWakeup) =>
              promise' = promise
        BY DEF LoopTop, CheckQueue, ExchangeEnds, CvWait, SpuriousWakeup
    <2>6. (Disconnect \/ Release \/ Destructor \/ UNCHANGED vars) => promise' = promise
        BY DEF Disconnect, Release, Destructor, DestructorDisconnect, SetStop, NotifyStop,
               Join, vars
    <2>7. QED
        BY <1>1, <2>2, <2>3, <2>4, <2>5, <2>6 DEF Next, InSend, CommLoop
<1>2. ConnInv /\ WaitInv /\ [Next]_vars => [ResponsesStay]_vars
    BY <1>1 DEF ResponsesStay
<1>3. QED
    BY WaitInvariant, <1>2, PTL DEF Spec
===============================================================================
