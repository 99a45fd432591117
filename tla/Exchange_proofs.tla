---------------------------- MODULE Exchange_proofs ----------------------------
(***************************************************************************)
(* Proofs about module Exchange, for every number of commands, of attempts *)
(* and every size of the flush.  Type correctness holds on any link; that  *)
(* callers get their own response, and that an accepted command has been   *)
(* executed, on a prompt link only, where the exchanges also implement     *)
(* RemoteCall; that responses and executions are in the order of the       *)
(* commands, and that a stale response takes a timeout, on any link.       *)
(***************************************************************************)
EXTENDS Exchange, SequenceTheorems, TLAPS

\* How far the thread is: what bounds the number of transmissions.
Counted ==
    /\ pc # "idle" => cur \in Commands /\ attempt < MaxAttempts
    /\ \A c \in Commands : c > cur => sent[c] = 0
    /\ pc = "tx" => sent[cur] <= attempt
    /\ pc = "rx" => sent[cur] <= attempt + 1

TypeInv == TypeOK /\ Counted

\* On a prompt link one frame at most is under way, and while the thread waits
\* it is the waiting command's.
OneFrame == Len(toDev) + Len(toHost) + Len(rxBuf) <= 1

CurrentFrame ==
    pc = "rx" =>
        /\ \A i \in 1 .. Len(toDev) : toDev[i] = cur
        /\ \A i \in 1 .. Len(toHost) : toHost[i].from = cur
        /\ \A i \in 1 .. Len(rxBuf) : rxBuf[i].from = cur

\* A response that is no refusal tells of an execution.
Truthful(f) == f.type # "NACK" => f.from \in executed

TruthfulFrames ==
    /\ \A i \in 1 .. Len(toHost) : Truthful(toHost[i])
    /\ \A i \in 1 .. Len(rxBuf) : Truthful(rxBuf[i])
    /\ \A c \in Commands : Answered(c) => reply[c].from = c /\ Truthful(reply[c])

PromptInv == TypeInv /\ OneFrame /\ CurrentFrame /\ TruthfulFrames

-------------------------------------------------------------------------------
\* Adding a value to a sequence keeps its old elements and its type.
LEMMA AppendFacts ==
    ASSUME NEW S, NEW s \in Seq(S), NEW e \in S
    PROVE  /\ Append(s, e) \in Seq(S)
           /\ Len(Append(s, e)) = Len(s) + 1
           /\ \A i \in 1 .. Len(s) : Append(s, e)[i] = s[i]
           /\ Append(s, e)[Len(s) + 1] = e
    OBVIOUS

\* Taking the head of a non-empty sequence shifts the others down.
LEMMA HeadTailFacts ==
    ASSUME NEW S, NEW s \in Seq(S), s # <<>>
    PROVE  /\ Head(s) \in S
           /\ Head(s) = s[1]
           /\ Len(s) \in Nat \ {0}
           /\ Tail(s) \in Seq(S)
           /\ Len(Tail(s)) = Len(s) - 1
           /\ \A i \in 1 .. Len(Tail(s)) : Tail(s)[i] = s[i + 1]
    OBVIOUS

\* A sequence of one element is its head.
LEMMA OneElement ==
    ASSUME NEW S, NEW s \in Seq(S), s # <<>>, Len(s) <= 1
    PROVE  Len(s) = 1 /\ Head(s) = s[1] /\ s[1] \in S /\ Tail(s) = <<>>
<1>0. Len(s) \in Nat \ {0} /\ Head(s) = s[1] /\ Head(s) \in S
    BY HeadTailFacts
<1>1. Len(s) = 1 /\ Head(s) = s[1] /\ s[1] \in S
    <2>1. \A n \in Nat \ {0} : n <= 1 => n = 1
        OBVIOUS
    <2>2. Len(s) = 1
        BY <1>0, <2>1, Zenon
    <2>3. QED
        BY <1>0, <2>2, Zenon
<1>2. Tail(s) \in Seq(S) /\ Len(Tail(s)) = 0
    BY <1>1, HeadTailFacts
<1>3. Tail(s) = <<>>
    BY <1>2, EmptySeq
<1>4. QED
    BY <1>1, <1>3

\* The flush leaves a suffix of the receive buffer.
LEMMA FlushedFacts ==
    ASSUME rxBuf \in Seq(Frames)
    PROVE  /\ Flushed \in Seq(Frames)
           /\ Len(rxBuf) \in Nat
           /\ Len(Flushed) \in 0 .. Len(rxBuf)
           /\ Len(rxBuf) <= 1 => Flushed = <<>>
           /\ \A i \in 1 .. Len(Flushed) : i + FlushFrames \in 1 .. Len(rxBuf)
                                           /\ Flushed[i] = rxBuf[i + FlushFrames]
    BY ExchangeAssumption DEF Flushed

\* The two pseudo responses are no frames, and no answers.
LEMMA PseudoReplies ==
    /\ Pending.from = 0 /\ NoReply.from = 0
    /\ \A f \in Frames : f.from # 0
    BY ExchangeAssumption DEF Pending, NoReply, Frames, Commands

-------------------------------------------------------------------------------
LEMMA TypeInit == Init => TypeInv
    BY ExchangeAssumption
    DEF Init, TypeInv, TypeOK, Counted, Commands, Expected, Frames, Pending, NoReply

\* The loop of handleQEntry ends an attempt within its bounds.
LEMMA NextAttemptFacts ==
    ASSUME TypeInv, pc # "idle", NextAttempt
    PROVE  /\ pc' \in {"idle", "tx", "rx"}
           /\ pc' \in {"idle", "tx"}
           /\ attempt' = attempt + 1
           /\ attempt' \in 0 .. MaxAttempts
           /\ pc' = "tx" => attempt' < MaxAttempts /\ reply' = reply
           /\ reply' \in [Commands -> Frames \cup {Pending, NoReply}]
           /\ \A c \in Commands : reply'[c] # reply[c] => reply'[c] = NoReply
           /\ \A c \in Commands : c # cur => reply'[c] = reply[c]
           /\ pc' = "idle" => reply'[cur] = NoReply
<1> USE ExchangeAssumption DEF TypeInv, TypeOK, Counted
<1>1. CASE attempt + 1 < MaxAttempts
    BY <1>1 DEF NextAttempt
<1>2. CASE attempt + 1 >= MaxAttempts
    <2>1. /\ attempt' = attempt + 1
          /\ pc' = "idle"
          /\ reply' = [reply EXCEPT ![cur] = NoReply]
        BY <1>2 DEF NextAttempt
    <2>2. reply' \in [Commands -> Frames \cup {Pending, NoReply}]
        BY <2>1
    <2>3. QED
        BY <1>2, <2>1, <2>2
<1>3. QED
    BY <1>1, <1>2

LEMMA TypeStep == TypeInv /\ [Next]_vars => TypeInv'
<1> SUFFICES ASSUME TypeInv, [Next]_vars
             PROVE  TypeInv'
    OBVIOUS
<1> USE ExchangeAssumption DEF TypeInv
<1>1. ASSUME NEW t \in Expected, HandleQEntry(t)
      PROVE  TypeInv'
    BY <1>1 DEF HandleQEntry, TypeOK, Counted, Commands, linkVars, devVars
<1>2. CASE AttemptTx
    <2>1. TypeOK'
        <3>1. cur \in Commands /\ sent[cur] + 1 \in 0 .. MaxAttempts
            BY <1>2 DEF AttemptTx, TypeOK, Counted, Commands
        <3>2. toDev' \in Seq(Commands)
            BY <1>2, <3>1, AppendFacts DEF AttemptTx, TypeOK
        <3>3. rxBuf' \in Seq(Frames)
            BY <1>2, FlushedFacts DEF AttemptTx, TypeOK
        <3>4. QED
            BY <1>2, <3>1, <3>2, <3>3 DEF AttemptTx, TypeOK, devVars
    <2>2. Counted'
        BY <1>2 DEF AttemptTx, TypeOK, Counted, Commands
    <2>3. QED
        BY <2>1, <2>2
<1>3. CASE TxFails
    <2>1. rxBuf' \in Seq(Frames)
        BY <1>3, FlushedFacts DEF TxFails, TypeOK
    <2>2. QED
        BY <1>3, <2>1, NextAttemptFacts DEF TxFails, TypeOK, Counted, devVars
<1>4. CASE RxAccept
    <2>1. Head(rxBuf) \in Frames
        BY <1>4, HeadTailFacts DEF RxAccept, TypeOK
    <2>2. QED
        BY <1>4, <2>1 DEF RxAccept, TypeOK, Counted, devVars
<1>5. CASE RxFails
    BY <1>5, NextAttemptFacts DEF RxFails, TypeOK, Counted, linkVars, devVars, Commands
<1>6. CASE Disconnect
    <2>1. rxBuf' \in Seq(Frames)
        BY <1>6 DEF Disconnect
    <2>2. QED
        BY <1>6, <2>1 DEF Disconnect, TypeOK, Counted, hostVars, devVars
<1>7. ASSUME NEW type \in MsgTypes, toDev \in Seq(Commands), DeviceAnswers(type)
      PROVE  /\ Head(toDev) \in Commands
             /\ toDev' \in Seq(Commands)
             /\ toHost' \in Seq(Frames)
    <2>1. Head(toDev) \in Commands /\ toDev' \in Seq(Commands)
        BY <1>7, HeadTailFacts DEF DeviceAnswers
    <2>2. [from |-> Head(toDev), type |-> type] \in Frames
        BY <2>1 DEF Frames
    <2>3. QED
        BY <1>7, <2>1, <2>2, AppendFacts DEF DeviceAnswers, TypeOK
<1>8. CASE DeviceExecutes
    <2>1. Head(toDev) \in Commands /\ expects[Head(toDev)] \in MsgTypes
        BY <1>8, HeadTailFacts DEF DeviceExecutes, DeviceAnswers, TypeOK, MsgTypes
    <2>2. toDev' \in Seq(Commands) /\ toHost' \in Seq(Frames)
        <3>1. DeviceAnswers(expects[Head(toDev)])
            BY <1>8 DEF DeviceExecutes
        <3>2. toDev \in Seq(Commands)
            BY DEF TypeOK
        <3>3. QED
            BY <1>7, <2>1, <3>1, <3>2
    <2>3. executed' \subseteq Commands /\ lastExecuted' \in 0 .. NumCommands
        <3>1. executed' = executed \cup {Head(toDev)} /\ lastExecuted' = Head(toDev)
            BY <1>8 DEF DeviceExecutes
        <3>2. executed \subseteq Commands
            BY DEF TypeOK
        <3>3. executed' \subseteq Commands
            BY <2>1, <3>1, <3>2
        <3>4. lastExecuted' \in 0 .. NumCommands
            BY <2>1, <3>1 DEF Commands
        <3>5. QED
            BY <3>3, <3>4
    <2>4. QED
        BY <1>8, <2>2, <2>3 DEF DeviceExecutes, TypeOK, Counted, hostVars
<1>9. CASE DeviceRefuses
    <2>1. "NACK" \in MsgTypes
        BY DEF MsgTypes
    <2>2. QED
        BY <1>7, <1>9, <2>1 DEF DeviceRefuses, TypeOK, Counted, hostVars, devVars
<1>10. CASE LinkDelivers
    <2>1. toHost' \in Seq(Frames) /\ rxBuf' \in Seq(Frames)
        BY <1>10, HeadTailFacts, AppendFacts DEF LinkDelivers, TypeOK
    <2>2. QED
        BY <1>10, <2>1 DEF LinkDelivers, TypeOK, Counted, hostVars, devVars
<1>11. CASE LinkLoses
    <2>1. toDev' \in Seq(Commands) /\ toHost' \in Seq(Frames)
        <3>1. CASE toDev # <<>> /\ toDev' = Tail(toDev) /\ toHost' = toHost
            BY <3>1, HeadTailFacts DEF TypeOK
        <3>2. CASE toHost # <<>> /\ toHost' = Tail(toHost) /\ toDev' = toDev
            BY <3>2, HeadTailFacts DEF TypeOK
        <3>3. QED
            BY <1>11, <3>1, <3>2 DEF LinkLoses
    <2>2. QED
        BY <1>11, <2>1 DEF LinkLoses, TypeOK, Counted, hostVars, devVars
<1>12. CASE UNCHANGED vars
    BY <1>12 DEF vars, hostVars, linkVars, devVars, TypeOK, Counted
<1>13. QED
    BY <1>1, <1>2, <1>3, <1>4, <1>5, <1>6, <1>8, <1>9, <1>10, <1>11, <1>12
    DEF Next, CommThread

\* On any link, late or prompt, every variable keeps its type; in particular no
\* command is transmitted more than MaxAttempts times (handleQEntry's loop).
THEOREM TypeCorrect == Spec => []TypeOK
<1>1. Spec => []TypeInv
    BY TypeInit, TypeStep, PTL DEF Spec
<1>2. TypeInv => TypeOK
    BY DEF TypeInv
<1>3. QED
    BY <1>1, <1>2, PTL

-------------------------------------------------------------------------------
LEMMA PromptInit == Init => PromptInv
<1>1. Init => TypeInv
    BY TypeInit
<1>2. Init => OneFrame /\ CurrentFrame
    BY DEF Init, OneFrame, CurrentFrame
<1>3. Init => TruthfulFrames
    BY PseudoReplies DEF Init, TruthfulFrames, Answered
<1>4. QED
    BY <1>1, <1>2, <1>3 DEF PromptInv

LEMMA PromptStep == ~LateReplies /\ PromptInv /\ [Next]_vars => PromptInv'
<1> SUFFICES ASSUME ~LateReplies, PromptInv, [Next]_vars
             PROVE  PromptInv'
    OBVIOUS
<1>0. TypeInv' /\ TypeOK /\ TypeInv
    BY TypeStep DEF PromptInv, TypeInv
<1> SUFFICES OneFrame' /\ CurrentFrame' /\ TruthfulFrames'
    BY <1>0 DEF PromptInv
<1>a. /\ Len(toDev) \in Nat /\ Len(toHost) \in Nat /\ Len(rxBuf) \in Nat
      /\ Len(toDev) <= 1 /\ Len(toHost) <= 1 /\ Len(rxBuf) <= 1
    BY <1>0 DEF TypeOK, PromptInv, OneFrame
<1>b. Flushed = <<>> /\ Flushed \in Seq(Frames)
    BY <1>0, <1>a, FlushedFacts DEF TypeOK
<1>c. OneFrame /\ CurrentFrame /\ TruthfulFrames
    BY DEF PromptInv
<1>1. ASSUME NEW t \in Expected, HandleQEntry(t)
      PROVE  OneFrame' /\ CurrentFrame' /\ TruthfulFrames'
    BY <1>1, <1>c
    DEF HandleQEntry, OneFrame, CurrentFrame, TruthfulFrames, Truthful, Answered,
        linkVars, devVars
<1>2. CASE AttemptTx
    <2>1. toDev = <<>> /\ toHost = <<>> /\ cur \in Commands
        BY <1>0, <1>2 DEF AttemptTx, Drained, TypeInv, Counted
    <2>2. /\ toDev' = <<cur>> /\ toHost' = <<>> /\ rxBuf' = <<>>
          /\ pc' = "rx" /\ cur' = cur /\ reply' = reply /\ executed' = executed
        BY <1>2, <1>b, <2>1 DEF AttemptTx, devVars
    <2>3. OneFrame' /\ CurrentFrame'
        BY <2>2 DEF OneFrame, CurrentFrame
    <2>4. TruthfulFrames'
        BY <1>c, <2>2 DEF TruthfulFrames, Truthful, Answered
    <2>5. QED
        BY <2>3, <2>4
<1>3. ASSUME NextAttempt, pc # "idle", UNCHANGED <<cur, toDev, toHost, devVars>>,
             rxBuf' = rxBuf \/ rxBuf' = <<>>
      PROVE  OneFrame' /\ CurrentFrame' /\ TruthfulFrames'
    <2>1. /\ pc' # "rx" /\ executed' = executed
          /\ \A c \in Commands : reply'[c] = reply[c] \/ reply'[c] = NoReply
        BY <1>0, <1>3, NextAttemptFacts DEF devVars
    <2>2. OneFrame' /\ CurrentFrame'
        BY <1>3, <1>a, <1>c, <2>1 DEF OneFrame, CurrentFrame
    <2>3. \A c \in Commands : Answered(c)' => reply'[c] = reply[c]
        BY <2>1, PseudoReplies DEF Answered
    <2>4. TruthfulFrames'
        BY <1>3, <1>c, <2>1, <2>3 DEF TruthfulFrames, Truthful, Answered
    <2>5. QED
        BY <2>2, <2>4
<1>4. CASE TxFails
    BY <1>3, <1>4, <1>b DEF TxFails
<1>5. CASE RxFails
    BY <1>3, <1>5 DEF RxFails, linkVars
<1>6. CASE RxAccept
    <2>0. Len(rxBuf) = 1 /\ Head(rxBuf) = rxBuf[1] /\ rxBuf[1] \in Frames
        BY <1>0, <1>6, <1>a, OneElement DEF RxAccept, TypeOK
    <2>1. rxBuf[1].from = cur /\ Truthful(rxBuf[1])
        BY <1>6, <1>c, <2>0 DEF RxAccept, CurrentFrame, TruthfulFrames
    <2>2. /\ reply' = [reply EXCEPT ![cur] = rxBuf[1]]
          /\ rxBuf' = <<>> /\ pc' = "idle" /\ toDev' = toDev /\ toHost' = toHost
          /\ executed' = executed
        BY <1>6, <2>0 DEF RxAccept, devVars
    <2>3. OneFrame' /\ CurrentFrame'
        BY <1>a, <1>c, <2>2 DEF OneFrame, CurrentFrame
    <2>4. TruthfulFrames'
        BY <1>0, <1>c, <2>0, <2>1, <2>2 DEF TypeOK, TruthfulFrames, Truthful, Answered
    <2>5. QED
        BY <2>3, <2>4
<1>7. CASE Disconnect
    <2>1. /\ rxBuf' = <<>> /\ toDev' = toDev /\ toHost' = toHost /\ pc' = pc
          /\ cur' = cur /\ reply' = reply /\ executed' = executed
        BY <1>7 DEF Disconnect, hostVars, devVars
    <2>2. OneFrame' /\ CurrentFrame'
        BY <1>a, <1>c, <2>1 DEF OneFrame, CurrentFrame
    <2>3. TruthfulFrames'
        BY <1>c, <2>1 DEF TruthfulFrames, Truthful, Answered
    <2>4. QED
        BY <2>2, <2>3
<1>8. ASSUME NEW type \in MsgTypes, DeviceAnswers(type),
             UNCHANGED <<hostVars, rxBuf>>,
             executed \subseteq executed',
             type # "NACK" => Head(toDev) \in executed'
      PROVE  OneFrame' /\ CurrentFrame' /\ TruthfulFrames'
    <2> DEFINE answer == [from |-> Head(toDev), type |-> type]
    <2>0. /\ Len(toDev) = 1 /\ Head(toDev) = toDev[1] /\ Tail(toDev) = <<>>
          /\ Head(toDev) \in Commands
        BY <1>0, <1>8, <1>a, OneElement DEF DeviceAnswers, TypeOK
    <2>1. Len(toHost) = 0 /\ Len(rxBuf) = 0
        BY <1>a, <1>c, <2>0 DEF OneFrame
    <2>2. answer \in Frames
        BY <1>8, <2>0 DEF Frames
    <2>3. /\ toDev' = <<>> /\ toHost' = Append(toHost, answer)
          /\ rxBuf' = rxBuf /\ pc' = pc /\ cur' = cur /\ reply' = reply
        BY <1>8, <2>0 DEF DeviceAnswers, hostVars
    <2>4. Len(toHost') = 1 /\ toHost'[1] = answer
        BY <1>0, <2>1, <2>2, <2>3, AppendFacts DEF TypeOK
    <2>5. OneFrame' /\ CurrentFrame'
        BY <1>c, <2>0, <2>1, <2>3, <2>4 DEF OneFrame, CurrentFrame
    <2>6. TruthfulFrames'
        BY <1>8, <1>c, <2>0, <2>1, <2>3, <2>4 DEF TruthfulFrames, Truthful, Answered
    <2>7. QED
        BY <2>5, <2>6
<1>9. CASE DeviceExecutes
    <2>1. Head(toDev) \in Commands
        BY <1>0, <1>9, HeadTailFacts DEF DeviceExecutes, DeviceAnswers, TypeOK
    <2>2. expects[Head(toDev)] \in MsgTypes
        BY <1>0, <2>1 DEF TypeOK, MsgTypes
    <2>3. /\ DeviceAnswers(expects[Head(toDev)])
          /\ hostVars' = hostVars /\ rxBuf' = rxBuf
          /\ executed \subseteq executed' /\ Head(toDev) \in executed'
        BY <1>9 DEF DeviceExecutes
    <2>4. QED
        BY <1>8, <2>2, <2>3
<1>10. CASE DeviceRefuses
    <2>1. /\ DeviceAnswers("NACK") /\ "NACK" \in MsgTypes
          /\ hostVars' = hostVars /\ rxBuf' = rxBuf /\ executed' = executed
        BY <1>10 DEF DeviceRefuses, devVars, MsgTypes
    <2>2. QED
        BY <1>8, <2>1
<1>11. CASE LinkDelivers
    <2>0. /\ Len(toHost) = 1 /\ Head(toHost) = toHost[1] /\ Tail(toHost) = <<>>
          /\ toHost[1] \in Frames
        BY <1>0, <1>11, <1>a, OneElement DEF LinkDelivers, TypeOK
    <2>1. Len(toDev) = 0 /\ Len(rxBuf) = 0
        BY <1>a, <1>c, <2>0 DEF OneFrame
    <2>2. /\ toDev' = toDev /\ toHost' = <<>> /\ rxBuf' = Append(rxBuf, toHost[1])
          /\ pc' = pc /\ cur' = cur /\ reply' = reply /\ executed' = executed
        BY <1>11, <2>0 DEF LinkDelivers, hostVars, devVars
    <2>3. Len(rxBuf') = 1 /\ rxBuf'[1] = toHost[1]
        BY <1>0, <2>0, <2>1, <2>2, AppendFacts DEF TypeOK
    <2>4. OneFrame' /\ CurrentFrame'
        BY <1>c, <2>0, <2>1, <2>2, <2>3 DEF OneFrame, CurrentFrame
    <2>5. TruthfulFrames'
        BY <1>c, <2>0, <2>1, <2>2, <2>3 DEF TruthfulFrames, Truthful, Answered
    <2>6. QED
        BY <2>4, <2>5
<1>12. CASE LinkLoses
    <2>1. /\ rxBuf' = rxBuf /\ pc' = pc /\ cur' = cur /\ reply' = reply
          /\ executed' = executed
        BY <1>12 DEF LinkLoses, hostVars, devVars
    <2>2. /\ toDev' = toDev \/ toDev' = <<>>
          /\ toHost' = toHost \/ toHost' = <<>>
        <3>1. toDev # <<>> => Tail(toDev) = <<>>
            BY <1>0, <1>a, OneElement DEF TypeOK
        <3>2. toHost # <<>> => Tail(toHost) = <<>>
            BY <1>0, <1>a, OneElement DEF TypeOK
        <3>3. QED
            BY <1>12, <3>1, <3>2 DEF LinkLoses
    <2>3. OneFrame' /\ CurrentFrame'
        BY <1>a, <1>c, <2>1, <2>2 DEF OneFrame, CurrentFrame
    <2>4. TruthfulFrames'
        BY <1>c, <2>1, <2>2 DEF TruthfulFrames, Truthful, Answered
    <2>5. QED
        BY <2>3, <2>4
<1>13. CASE UNCHANGED vars
    BY <1>13, <1>c
    DEF vars, hostVars, linkVars, devVars, OneFrame, CurrentFrame, TruthfulFrames,
        Truthful, Answered
<1>14. QED
    BY <1>1, <1>2, <1>4, <1>5, <1>6, <1>7, <1>9, <1>10, <1>11, <1>12, <1>13
    DEF Next, CommThread

LEMMA PromptInvariant == ASSUME ~LateReplies PROVE Spec => []PromptInv
<1>1. PromptInv /\ [Next]_vars => PromptInv'
    BY PromptStep
<1>2. QED
    BY PromptInit, <1>1, PTL DEF Spec

\* On a prompt link no caller is handed the response to another command
\* (RightResponse: attemptTx's flush and handleQEntry's one command at a time).
THEOREM CallersGetTheirOwnResponse ==
    ASSUME ~LateReplies PROVE Spec => []RightResponse
<1>1. PromptInv => RightResponse
    BY DEF PromptInv, TruthfulFrames, RightResponse
<1>2. QED
    BY PromptInvariant, <1>1, PTL

\* On a prompt link a command whose response passed assert_ack or assert_data
\* has been carried out by the device.
THEOREM AcceptedCommandsWereExecuted ==
    ASSUME ~LateReplies PROVE Spec => []ExecutedIfAccepted
<1>1. PromptInv => ExecutedIfAccepted
    <2> SUFFICES ASSUME PromptInv, NEW c \in Commands, Accepted(c)
                 PROVE  c \in executed
        BY DEF ExecutedIfAccepted
    <2>1. reply[c].from = c /\ Truthful(reply[c])
        BY DEF PromptInv, TruthfulFrames, Accepted
    <2>2. reply[c].type \in Expected
        BY DEF PromptInv, TypeInv, TypeOK, Accepted
    <2>3. QED
        BY <2>1, <2>2 DEF Truthful, Expected
<1>2. QED
    BY PromptInvariant, <1>1, PTL

-------------------------------------------------------------------------------
(* On any link, however late its responses, nothing overtakes.  The replies  *)
(* given, the receive buffer, the link to the host, the link to the device   *)
(* and the command being handled form one queue in the order of the          *)
(* commands; a loss, the flush and attemptRx's discarding the rest only take *)
(* from its old end or from its middle.                                      *)

\* A sequence of commands or of responses is in the order of the commands, and
\* command n is before all of them.
InOrder(s)       == \A i, j \in 1 .. Len(s) : i <= j => s[i] <= s[j]
FramesInOrder(s) == \A i, j \in 1 .. Len(s) : i <= j => s[i].from <= s[j].from
Before(n, s)       == \A i \in 1 .. Len(s) : n <= s[i]
BeforeFrames(n, s) == \A i \in 1 .. Len(s) : n <= s[i].from

\* Commands, responses and replies form one queue, oldest first: the replies
\* given, the receive buffer, the link to the host, the link to the device, and
\* at its end the command being handled.
LinkInOrder ==
    /\ InOrder(toDev) /\ FramesInOrder(toHost) /\ FramesInOrder(rxBuf)
    /\ \A i \in 1 .. Len(toDev) : lastExecuted <= toDev[i] /\ toDev[i] <= cur
    /\ \A i \in 1 .. Len(toHost) : toHost[i].from <= cur /\ Before(toHost[i].from, toDev)
    /\ \A i \in 1 .. Len(rxBuf) :
           /\ rxBuf[i].from <= cur
           /\ Before(rxBuf[i].from, toDev)
           /\ BeforeFrames(rxBuf[i].from, toHost)
    /\ lastExecuted <= cur

RepliesInOrder ==
    \A c \in Commands : Answered(c) =>
        /\ c <= cur
        /\ pc # "idle" => c < cur
        /\ reply[c].from <= cur
        /\ Before(reply[c].from, toDev)
        /\ BeforeFrames(reply[c].from, toHost)
        /\ BeforeFrames(reply[c].from, rxBuf)

OrderInv == TypeInv /\ LinkInOrder /\ RepliesInOrder /\ AnswersKeepOrder

LEMMA OrderInit == Init => OrderInv
<1>1. Init => LinkInOrder
    BY DEF Init, LinkInOrder, InOrder, FramesInOrder
<1>2. Init => RepliesInOrder /\ AnswersKeepOrder
    BY PseudoReplies DEF Init, RepliesInOrder, AnswersKeepOrder, Answered
<1>3. QED
    BY TypeInit, <1>1, <1>2 DEF OrderInv

\* s is what is left of t when its oldest elements are gone.
Suffix(s, t) ==
    \E k \in Nat : \A i \in 1 .. Len(s) : i + k \in 1 .. Len(t) /\ s[i] = t[i + k]

\* Every number the order is about is one.
LEMMA OrderTypes ==
    ASSUME TypeInv
    PROVE  /\ cur \in Nat /\ lastExecuted \in Nat /\ Commands \subseteq Nat
           /\ Len(toDev) \in Nat /\ Len(toHost) \in Nat /\ Len(rxBuf) \in Nat
           /\ \A i \in 1 .. Len(toDev) : toDev[i] \in Nat
           /\ \A i \in 1 .. Len(toHost) : toHost[i].from \in Nat
           /\ \A i \in 1 .. Len(rxBuf) : rxBuf[i].from \in Nat
           /\ \A c \in Commands : Answered(c) => reply[c].from \in Nat
<1>1. /\ cur \in Nat /\ lastExecuted \in Nat /\ Commands \subseteq Nat
      /\ toDev \in Seq(Commands) /\ toHost \in Seq(Frames) /\ rxBuf \in Seq(Frames)
      /\ reply \in [Commands -> Frames \cup {Pending, NoReply}]
    BY DEF TypeInv, TypeOK, Commands
<1>2. \A f \in Frames : f.from \in Nat
    BY <1>1 DEF Frames
<1>3. /\ Len(toDev) \in Nat /\ Len(toHost) \in Nat /\ Len(rxBuf) \in Nat
      /\ \A i \in 1 .. Len(toDev) : toDev[i] \in Commands
      /\ \A i \in 1 .. Len(toHost) : toHost[i] \in Frames
      /\ \A i \in 1 .. Len(rxBuf) : rxBuf[i] \in Frames
    BY <1>1
<1>4. \A c \in Commands : Answered(c) => reply[c] \in Frames
    BY <1>1, PseudoReplies DEF Answered
<1>5. QED
    BY <1>1, <1>2, <1>3, <1>4, Zenon

\* What is unchanged, emptied, or has lost its oldest elements is a suffix.
LEMMA SuffixFacts ==
    ASSUME NEW S, NEW t \in Seq(S)
    PROVE  /\ Suffix(t, t)
           /\ Suffix(<<>>, t)
           /\ t # <<>> => Suffix(Tail(t), t)
<1>1. Suffix(t, t)
    <2>1. \A i \in 1 .. Len(t) : i + 0 \in 1 .. Len(t) /\ t[i] = t[i + 0]
        OBVIOUS
    <2>2. QED
        BY <2>1 DEF Suffix
<1>2. Suffix(<<>>, t)
    <2>1. \A i \in 1 .. Len(<<>>) : i + 0 \in 1 .. Len(t) /\ <<>>[i] = t[i + 0]
        OBVIOUS
    <2>2. QED
        BY <2>1 DEF Suffix
<1>3. ASSUME t # <<>> PROVE Suffix(Tail(t), t)
    <2>1. \A i \in 1 .. Len(Tail(t)) : i + 1 \in 1 .. Len(t) /\ Tail(t)[i] = t[i + 1]
        BY <1>3, HeadTailFacts
    <2>2. QED
        BY <2>1 DEF Suffix
<1>4. QED
    BY <1>1, <1>2, <1>3

\* A suffix of frames in order is in order.
LEMMA SuffixInOrder ==
    ASSUME NEW s, NEW t, Len(s) \in Nat, Len(t) \in Nat, Suffix(s, t), FramesInOrder(t)
    PROVE  FramesInOrder(s)
<1>1. PICK k \in Nat : \A i \in 1 .. Len(s) : i + k \in 1 .. Len(t) /\ s[i] = t[i + k]
    BY DEF Suffix
<1>2. SUFFICES ASSUME NEW i \in 1 .. Len(s), NEW j \in 1 .. Len(s), i <= j
               PROVE  s[i].from <= s[j].from
    BY DEF FramesInOrder
<1>3. /\ s[i] = t[i + k] /\ s[j] = t[j + k]
      /\ i + k \in 1 .. Len(t) /\ j + k \in 1 .. Len(t) /\ i + k <= j + k
    BY <1>1, <1>2
<1>4. QED
    BY <1>3 DEF FramesInOrder

LEMMA FlushedSuffix == ASSUME rxBuf \in Seq(Frames) PROVE Suffix(Flushed, rxBuf)
<1>1. \A i \in 1 .. Len(Flushed) : i + FlushFrames \in 1 .. Len(rxBuf)
                                   /\ Flushed[i] = rxBuf[i + FlushFrames]
    BY FlushedFacts
<1>2. QED
    BY <1>1, ExchangeAssumption DEF Suffix

\* Losing the oldest of what is under way, and giving up, keeps the order.
LEMMA LossKeepsOrder ==
    ASSUME OrderInv, TypeInv',
           Suffix(toDev', toDev), Suffix(toHost', toHost), Suffix(rxBuf', rxBuf),
           UNCHANGED <<cur, lastExecuted>>, pc = "idle" => pc' = "idle",
           \A c \in Commands : reply'[c] = reply[c] \/ reply'[c] = NoReply
    PROVE  OrderInv'
<1>0. TypeInv /\ LinkInOrder /\ RepliesInOrder /\ AnswersKeepOrder
    BY DEF OrderInv
<1>1. PICK k \in Nat : \A i \in 1 .. Len(toDev') :
          i + k \in 1 .. Len(toDev) /\ toDev'[i] = toDev[i + k]
    BY DEF Suffix
<1>2. PICK l \in Nat : \A i \in 1 .. Len(toHost') :
          i + l \in 1 .. Len(toHost) /\ toHost'[i] = toHost[i + l]
    BY DEF Suffix
<1>3. PICK m \in Nat : \A i \in 1 .. Len(rxBuf') :
          i + m \in 1 .. Len(rxBuf) /\ rxBuf'[i] = rxBuf[i + m]
    BY DEF Suffix
<1>4. /\ Len(toDev') \in Nat /\ Len(toHost') \in Nat /\ Len(rxBuf') \in Nat
      /\ cur \in Nat /\ Commands \subseteq Nat
    BY <1>0, OrderTypes DEF TypeInv, TypeOK
<1>5. LinkInOrder'
    <2>1. InOrder(toDev)' /\ FramesInOrder(toHost)' /\ FramesInOrder(rxBuf)'
        <3>1. InOrder(toDev)'
            BY <1>0, <1>1, <1>4 DEF LinkInOrder, InOrder
        <3>2. FramesInOrder(toHost)'
            BY <1>0, <1>4, SuffixInOrder, OrderTypes DEF LinkInOrder
        <3>3. FramesInOrder(rxBuf)'
            BY <1>0, <1>4, SuffixInOrder, OrderTypes DEF LinkInOrder
        <3>4. QED
            BY <3>1, <3>2, <3>3
    <2>2. \A i \in 1 .. Len(toDev') : lastExecuted' <= toDev'[i] /\ toDev'[i] <= cur'
        BY <1>0, <1>1, <1>4 DEF LinkInOrder
    <2>3. \A i \in 1 .. Len(toHost') :
              toHost'[i].from <= cur' /\ Before(toHost'[i].from, toDev')
        BY <1>0, <1>1, <1>2, <1>4 DEF LinkInOrder, Before
    <2>4. \A i \in 1 .. Len(rxBuf') :
              /\ rxBuf'[i].from <= cur'
              /\ Before(rxBuf'[i].from, toDev')
              /\ BeforeFrames(rxBuf'[i].from, toHost')
        BY <1>0, <1>1, <1>2, <1>3, <1>4 DEF LinkInOrder, Before, BeforeFrames
    <2>5. QED
        BY <1>0, <2>1, <2>2, <2>3, <2>4 DEF LinkInOrder
<1>6. \A c \in Commands : Answered(c)' => Answered(c) /\ reply'[c] = reply[c]
    BY PseudoReplies DEF Answered
<1>7. AnswersKeepOrder'
    BY <1>0, <1>6 DEF AnswersKeepOrder
<1>8. RepliesInOrder'
    <2> SUFFICES ASSUME NEW c \in Commands, Answered(c)'
                 PROVE  /\ c <= cur
                        /\ pc' # "idle" => c < cur
                        /\ reply[c].from <= cur
                        /\ Before(reply[c].from, toDev')
                        /\ BeforeFrames(reply[c].from, toHost')
                        /\ BeforeFrames(reply[c].from, rxBuf')
        BY <1>6 DEF RepliesInOrder
    <2>1. /\ c <= cur
          /\ pc # "idle" => c < cur
          /\ reply[c].from <= cur
          /\ Before(reply[c].from, toDev)
          /\ BeforeFrames(reply[c].from, toHost)
          /\ BeforeFrames(reply[c].from, rxBuf)
        BY <1>0, <1>6 DEF RepliesInOrder
    <2>2. Before(reply[c].from, toDev')
        BY <1>1, <2>1 DEF Before
    <2>3. BeforeFrames(reply[c].from, toHost')
        BY <1>2, <2>1 DEF BeforeFrames
    <2>4. BeforeFrames(reply[c].from, rxBuf')
        BY <1>3, <2>1 DEF BeforeFrames
    <2>5. QED
        BY <2>1, <2>2, <2>3, <2>4
<1>9. QED
    BY <1>5, <1>7, <1>8 DEF OrderInv

LEMMA OrderStep == OrderInv /\ [Next]_vars => OrderInv'
<1> SUFFICES ASSUME OrderInv, [Next]_vars
             PROVE  OrderInv'
    OBVIOUS
<1>0. /\ TypeInv /\ TypeInv' /\ TypeOK /\ TypeOK'
      /\ LinkInOrder /\ RepliesInOrder /\ AnswersKeepOrder
    <2>1. TypeInv /\ LinkInOrder /\ RepliesInOrder /\ AnswersKeepOrder
        BY DEF OrderInv
    <2>2. TypeInv'
        BY <2>1, TypeStep
    <2>3. QED
        BY <2>1, <2>2 DEF TypeInv
<1> SUFFICES LinkInOrder' /\ RepliesInOrder' /\ AnswersKeepOrder'
    BY <1>0 DEF OrderInv
<1>t. /\ cur' \in Nat /\ Commands \subseteq Nat
      /\ toDev \in Seq(Commands) /\ toHost \in Seq(Frames) /\ rxBuf \in Seq(Frames)
    BY <1>0 DEF TypeOK, Commands
<1>1. ASSUME NEW t \in Expected, HandleQEntry(t)
      PROVE  LinkInOrder' /\ RepliesInOrder' /\ AnswersKeepOrder'
    <2>1. /\ cur' = cur + 1 /\ pc = "idle" /\ pc' = "tx" /\ reply' = reply
          /\ UNCHANGED <<toDev, toHost, rxBuf, lastExecuted>>
        BY <1>1 DEF HandleQEntry, linkVars, devVars
    <2>2. LinkInOrder'
        <3>1. /\ \A i \in 1 .. Len(toDev) : toDev[i] <= cur + 1
              /\ \A i \in 1 .. Len(toHost) : toHost[i].from <= cur + 1
              /\ \A i \in 1 .. Len(rxBuf) : rxBuf[i].from <= cur + 1
              /\ lastExecuted <= cur + 1
            BY <1>0, OrderTypes DEF LinkInOrder
        <3>2. QED
            BY <1>0, <2>1, <3>1 DEF LinkInOrder
    <2>3. RepliesInOrder' /\ AnswersKeepOrder'
        <3>1. \A c \in Commands : Answered(c)' <=> Answered(c)
            BY <2>1 DEF Answered
        <3>2. QED
            BY <1>0, <1>t, <2>1, <3>1, OrderTypes
            DEF RepliesInOrder, AnswersKeepOrder, Before, BeforeFrames
    <2>4. QED
        BY <2>2, <2>3
<1>2. CASE AttemptTx
    <2>1. /\ toDev' = Append(toDev, cur) /\ toHost' = toHost /\ pc' = "rx" /\ pc = "tx"
          /\ Suffix(rxBuf', rxBuf) /\ UNCHANGED <<cur, reply, lastExecuted>>
        BY <1>t, <1>2, FlushedSuffix DEF AttemptTx, devVars
    <2>2. cur \in Commands /\ Len(toDev) \in Nat
        BY <1>0, <2>1, OrderTypes DEF TypeInv, Counted
    <2>3. \A i \in 1 .. Len(toDev') :
              \/ i \in 1 .. Len(toDev) /\ toDev'[i] = toDev[i]
              \/ i = Len(toDev) + 1 /\ toDev'[i] = cur
        BY <1>t, <2>1, <2>2, AppendFacts
    <2>4. PICK m \in Nat : \A i \in 1 .. Len(rxBuf') :
              i + m \in 1 .. Len(rxBuf) /\ rxBuf'[i] = rxBuf[i + m]
        BY <2>1 DEF Suffix
    <2>5. LinkInOrder'
        <3>1. InOrder(toDev)'
            <4> SUFFICES ASSUME NEW i \in 1 .. Len(toDev'), NEW j \in 1 .. Len(toDev'), i <= j
                         PROVE  toDev'[i] <= toDev'[j]
                BY DEF InOrder
            <4>1. Len(toDev') \in Nat
                BY <1>0 DEF TypeOK
            <4>2. CASE i \in 1 .. Len(toDev) /\ j \in 1 .. Len(toDev)
                BY <1>0, <2>2, <2>3, <4>1, <4>2 DEF LinkInOrder, InOrder
            <4>3. CASE i \in 1 .. Len(toDev) /\ j = Len(toDev) + 1
                BY <1>0, <2>2, <2>3, <4>1, <4>3 DEF LinkInOrder
            <4>4. CASE i = Len(toDev) + 1
                BY <1>t, <2>1, <2>2, <2>3, <4>1, <4>4
            <4>5. QED
                BY <2>3, <4>2, <4>3, <4>4
        <3>2. FramesInOrder(rxBuf)'
            <4>1. FramesInOrder(rxBuf) /\ Len(rxBuf') \in Nat
                BY <1>0 DEF LinkInOrder, TypeOK
            <4>2. QED
                BY <1>0, <2>1, <4>1, SuffixInOrder, OrderTypes
        <3>3. \A i \in 1 .. Len(toDev') : lastExecuted <= toDev'[i] /\ toDev'[i] <= cur
            BY <1>0, <1>t, <2>2, <2>3, OrderTypes DEF LinkInOrder
        <3>4. \A i \in 1 .. Len(toHost) :
                  toHost[i].from <= cur /\ Before(toHost[i].from, toDev')
            BY <1>0, <2>3 DEF LinkInOrder, Before
        <3>5. \A i \in 1 .. Len(rxBuf') :
                  /\ rxBuf'[i].from <= cur
                  /\ Before(rxBuf'[i].from, toDev')
                  /\ BeforeFrames(rxBuf'[i].from, toHost)
            BY <1>0, <2>3, <2>4 DEF LinkInOrder, Before
        <3>6. QED
            BY <1>0, <2>1, <3>1, <3>2, <3>3, <3>4, <3>5 DEF LinkInOrder
    <2>6. RepliesInOrder'
        <3> SUFFICES ASSUME NEW c \in Commands, Answered(c)
                     PROVE  /\ c <= cur /\ c < cur /\ reply[c].from <= cur
                            /\ Before(reply[c].from, toDev')
                            /\ BeforeFrames(reply[c].from, toHost)
                            /\ BeforeFrames(reply[c].from, rxBuf')
            BY <1>t, <2>1 DEF RepliesInOrder, Answered
        <3>1. /\ c <= cur /\ c < cur /\ reply[c].from <= cur
              /\ Before(reply[c].from, toDev)
              /\ BeforeFrames(reply[c].from, toHost)
              /\ BeforeFrames(reply[c].from, rxBuf)
            BY <1>0, <2>1 DEF RepliesInOrder
        <3>2. Before(reply[c].from, toDev')
            BY <2>3, <3>1 DEF Before
        <3>3. BeforeFrames(reply[c].from, rxBuf')
            BY <2>4, <3>1 DEF BeforeFrames
        <3>4. QED
            BY <3>1, <3>2, <3>3
    <2>7. AnswersKeepOrder'
        BY <1>0, <2>1 DEF AnswersKeepOrder, Answered
    <2>8. QED
        BY <2>5, <2>6, <2>7
<1>3. CASE TxFails
    <2>1. Suffix(rxBuf', rxBuf)
        BY <1>t, <1>3, FlushedSuffix, SuffixFacts DEF TxFails
    <2>2. \A c \in Commands : reply'[c] = reply[c] \/ reply'[c] = NoReply
        BY <1>0, <1>3, NextAttemptFacts DEF TxFails
    <2>3. UNCHANGED <<cur, lastExecuted, toDev, toHost>> /\ pc # "idle"
        BY <1>3 DEF TxFails, devVars
    <2>4. OrderInv'
        BY <1>0, <1>t, <2>1, <2>2, <2>3, SuffixFacts, LossKeepsOrder
    <2>5. QED
        BY <2>4 DEF OrderInv
<1>4. CASE RxFails
    <2>1. \A c \in Commands : reply'[c] = reply[c] \/ reply'[c] = NoReply
        BY <1>0, <1>4, NextAttemptFacts DEF RxFails
    <2>2. UNCHANGED <<cur, lastExecuted, toDev, toHost, rxBuf>> /\ pc # "idle"
        BY <1>4 DEF RxFails, linkVars, devVars
    <2>3. OrderInv'
        BY <1>0, <1>t, <2>1, <2>2, SuffixFacts, LossKeepsOrder
    <2>4. QED
        BY <2>3 DEF OrderInv
<1>5. CASE RxAccept
    <2>1. /\ rxBuf # <<>> /\ rxBuf' = <<>> /\ pc = "rx" /\ pc' = "idle"
          /\ reply' = [reply EXCEPT ![cur] = Head(rxBuf)]
          /\ UNCHANGED <<cur, lastExecuted, toDev, toHost>>
        BY <1>5 DEF RxAccept, devVars
    <2>2. /\ Head(rxBuf) = rxBuf[1] /\ 1 \in 1 .. Len(rxBuf) /\ cur \in Commands
          /\ rxBuf[1].from \in Nat
        BY <1>0, <1>t, <2>1, HeadTailFacts, OrderTypes DEF TypeInv, Counted
    <2>3. LinkInOrder'
        BY <1>0, <2>1 DEF LinkInOrder, FramesInOrder
    <2>4. /\ reply'[cur] = rxBuf[1]
          /\ \A c \in Commands : c # cur => reply'[c] = reply[c]
        BY <1>0, <2>1, <2>2 DEF TypeOK
    <2>5. /\ rxBuf[1].from <= cur
          /\ Before(rxBuf[1].from, toDev)
          /\ BeforeFrames(rxBuf[1].from, toHost)
        BY <1>0, <2>2 DEF LinkInOrder
    <2>6. \A c \in Commands : c # cur /\ Answered(c)' =>
              /\ Answered(c) /\ c < cur
              /\ reply'[c].from <= cur
              /\ reply'[c].from <= rxBuf[1].from
              /\ Before(reply'[c].from, toDev)
              /\ BeforeFrames(reply'[c].from, toHost)
        BY <1>0, <2>1, <2>2, <2>4 DEF RepliesInOrder, Answered, BeforeFrames
    <2>7. RepliesInOrder'
        <3> SUFFICES ASSUME NEW c \in Commands, Answered(c)'
                     PROVE  /\ c <= cur /\ reply'[c].from <= cur
                            /\ Before(reply'[c].from, toDev)
                            /\ BeforeFrames(reply'[c].from, toHost)
            BY <2>1 DEF RepliesInOrder, BeforeFrames
        <3>1. CASE c = cur
            BY <1>t, <2>1, <2>4, <2>5, <3>1
        <3>2. CASE c # cur
            BY <1>t, <2>1, <2>6, <3>2
        <3>3. QED
            BY <3>1, <3>2
    <2>8. AnswersKeepOrder'
        <3> SUFFICES ASSUME NEW c \in Commands, NEW d \in Commands, c < d,
                            Answered(c)', Answered(d)'
                     PROVE  reply'[c].from <= reply'[d].from
            BY DEF AnswersKeepOrder
        <3>1. CASE c # cur /\ d # cur
            BY <1>0, <2>4, <2>6, <3>1 DEF AnswersKeepOrder
        <3>2. CASE d = cur
            BY <1>t, <2>1, <2>4, <2>6, <3>2
        <3>3. CASE c = cur /\ d # cur
            BY <1>t, <2>1, <2>6, <3>3
        <3>4. QED
            BY <3>1, <3>2, <3>3
    <2>9. QED
        BY <2>3, <2>7, <2>8
<1>6. CASE Disconnect
    <2>1. UNCHANGED <<cur, lastExecuted, toDev, toHost, reply, pc>> /\ rxBuf' = <<>>
        BY <1>6 DEF Disconnect, hostVars, devVars
    <2>2. OrderInv'
        BY <1>0, <1>t, <2>1, SuffixFacts, LossKeepsOrder
    <2>3. QED
        BY <2>2 DEF OrderInv
<1>7. CASE LinkLoses
    <2>1. /\ UNCHANGED <<cur, lastExecuted, rxBuf, reply, pc>>
          /\ Suffix(toDev', toDev) /\ Suffix(toHost', toHost)
        BY <1>t, <1>7, SuffixFacts DEF LinkLoses, hostVars, devVars
    <2>2. OrderInv'
        BY <1>0, <1>t, <2>1, SuffixFacts, LossKeepsOrder
    <2>3. QED
        BY <2>2 DEF OrderInv
<1>8. CASE UNCHANGED vars
    <2>1. UNCHANGED <<cur, lastExecuted, toDev, toHost, rxBuf, reply, pc>>
        BY <1>8 DEF vars, hostVars, linkVars, devVars
    <2>2. OrderInv'
        BY <1>0, <1>t, <2>1, SuffixFacts, LossKeepsOrder
    <2>3. QED
        BY <2>2 DEF OrderInv
<1>9. ASSUME NEW type \in MsgTypes, DeviceAnswers(type), UNCHANGED <<hostVars, rxBuf>>,
             lastExecuted' = lastExecuted \/ lastExecuted' = Head(toDev)
      PROVE  LinkInOrder' /\ RepliesInOrder' /\ AnswersKeepOrder'
    <2>1. /\ toDev # <<>> /\ toDev' = Tail(toDev)
          /\ toHost' = Append(toHost, [from |-> Head(toDev), type |-> type])
          /\ UNCHANGED <<cur, pc, reply, rxBuf>>
        BY <1>9 DEF DeviceAnswers, hostVars
    <2>2. /\ Head(toDev) = toDev[1] /\ toDev[1] \in Commands /\ toDev[1] \in Nat
          /\ 1 \in 1 .. Len(toDev) /\ Len(toDev') \in Nat
          /\ \A i \in 1 .. Len(toDev') : i + 1 \in 1 .. Len(toDev) /\ toDev'[i] = toDev[i + 1]
        <3>1. /\ Head(toDev) = toDev[1] /\ Head(toDev) \in Commands
              /\ Len(toDev) \in Nat \ {0} /\ Len(toDev') = Len(toDev) - 1
              /\ \A i \in 1 .. Len(toDev') : toDev'[i] = toDev[i + 1]
            BY <1>t, <2>1, HeadTailFacts
        <3>2. \A m, n \in Nat : m = n - 1 => \A i \in 1 .. m : i + 1 \in 1 .. n
            OBVIOUS
        <3>3. Len(toDev) \in Nat /\ Len(toDev') \in Nat /\ 1 \in 1 .. Len(toDev)
            BY <1>0, <3>1 DEF TypeOK
        <3>4. \A i \in 1 .. Len(toDev') : i + 1 \in 1 .. Len(toDev)
            BY <3>1, <3>2, <3>3
        <3>5. toDev[1] \in Nat
            BY <1>t, <3>1
        <3>6. QED
            BY <3>1, <3>3, <3>4, <3>5, Zenon
    <2>3. [from |-> Head(toDev), type |-> type] \in Frames
        BY <1>9, <2>2 DEF Frames
    <2>4. /\ Len(toHost) \in Nat
          /\ \A i \in 1 .. Len(toHost') :
                \/ i \in 1 .. Len(toHost) /\ toHost'[i] = toHost[i]
                \/ i = Len(toHost) + 1 /\ toHost'[i].from = toDev[1]
        BY <1>t, <2>1, <2>2, <2>3, AppendFacts
    <2>5. \A j \in 1 .. Len(toDev) : toDev[1] <= toDev[j] /\ toDev[1] <= cur
        BY <1>0, <2>2 DEF LinkInOrder, InOrder
    <2>6. FramesInOrder(toHost')
        <3> SUFFICES ASSUME NEW i \in 1 .. Len(toHost'), NEW j \in 1 .. Len(toHost'), i <= j
                     PROVE  toHost'[i].from <= toHost'[j].from
            BY DEF FramesInOrder
        <3>1. CASE i \in 1 .. Len(toHost) /\ j \in 1 .. Len(toHost)
            BY <1>0, <2>4, <3>1 DEF LinkInOrder, FramesInOrder
        <3>2. CASE i \in 1 .. Len(toHost) /\ j = Len(toHost) + 1
            <4>1. Before(toHost[i].from, toDev)
                BY <1>0, <3>2 DEF LinkInOrder
            <4>2. toHost[i].from <= toDev[1]
                BY <2>2, <4>1 DEF Before
            <4>3. toHost'[i] = toHost[i] /\ toHost'[j].from = toDev[1]
                BY <2>4, <3>2
            <4>4. QED
                BY <4>2, <4>3
        <3>3. CASE i = Len(toHost) + 1
            BY <2>2, <2>4, <3>3
        <3>4. QED
            BY <2>4, <3>1, <3>2, <3>3
    <2>7. InOrder(toDev')
        <3>1. InOrder(toDev)
            BY <1>0 DEF LinkInOrder
        <3>2. QED
            BY <2>2, <3>1 DEF InOrder
    <2>8. \A i \in 1 .. Len(toDev') : lastExecuted' <= toDev'[i] /\ toDev'[i] <= cur
        BY <1>0, <1>9, <2>2, <2>5 DEF LinkInOrder
    <2>9. \A n : Before(n, toDev) => Before(n, toDev') /\ n <= toDev[1]
        BY <2>2 DEF Before
    <2>10. \A i \in 1 .. Len(toHost') :
               toHost'[i].from <= cur /\ Before(toHost'[i].from, toDev')
        <3> SUFFICES ASSUME NEW i \in 1 .. Len(toHost')
                     PROVE  toHost'[i].from <= cur /\ Before(toHost'[i].from, toDev')
            OBVIOUS
        <3>1. CASE i \in 1 .. Len(toHost) /\ toHost'[i] = toHost[i]
            BY <1>0, <2>9, <3>1 DEF LinkInOrder
        <3>2. CASE toHost'[i].from = toDev[1]
            BY <2>2, <2>5, <3>2 DEF Before
        <3>3. QED
            BY <2>4, <3>1, <3>2
    <2>11. \A n : Before(n, toDev) /\ BeforeFrames(n, toHost) => BeforeFrames(n, toHost')
        BY <2>4, <2>9 DEF BeforeFrames
    <2>12. LinkInOrder'
        <3>1. lastExecuted' <= cur
            BY <1>0, <1>9, <2>2, <2>5 DEF LinkInOrder
        <3>2. \A i \in 1 .. Len(rxBuf) :
                  /\ rxBuf[i].from <= cur
                  /\ Before(rxBuf[i].from, toDev')
                  /\ BeforeFrames(rxBuf[i].from, toHost')
            BY <1>0, <2>9, <2>11 DEF LinkInOrder
        <3>3. FramesInOrder(rxBuf)
            BY <1>0 DEF LinkInOrder
        <3>4. QED
            BY <2>1, <2>6, <2>7, <2>8, <2>10, <3>1, <3>2, <3>3 DEF LinkInOrder
    <2>13. RepliesInOrder'
        <3>1. \A c \in Commands : Answered(c) =>
                  /\ Before(reply[c].from, toDev')
                  /\ BeforeFrames(reply[c].from, toHost')
            BY <1>0, <2>9, <2>11 DEF RepliesInOrder
        <3>2. QED
            BY <1>0, <2>1, <3>1 DEF RepliesInOrder, Answered
    <2>14. AnswersKeepOrder'
        BY <1>0, <2>1 DEF AnswersKeepOrder, Answered
    <2>15. QED
        BY <2>12, <2>13, <2>14
<1>10. CASE DeviceExecutes
    <2>1. expects[Head(toDev)] \in MsgTypes
        BY <1>0, <1>10, HeadTailFacts DEF DeviceExecutes, DeviceAnswers, TypeOK, MsgTypes
    <2>2. QED
        BY <1>9, <1>10, <2>1 DEF DeviceExecutes
<1>11. CASE DeviceRefuses
    BY <1>9, <1>11 DEF DeviceRefuses, MsgTypes, devVars
<1>12. CASE LinkDelivers
    <2>1. /\ toHost # <<>> /\ toHost' = Tail(toHost) /\ rxBuf' = Append(rxBuf, Head(toHost))
          /\ UNCHANGED <<cur, pc, reply, toDev, lastExecuted>>
        BY <1>12 DEF LinkDelivers, hostVars, devVars
    <2>2. /\ Head(toHost) = toHost[1] /\ toHost[1] \in Frames
          /\ 1 \in 1 .. Len(toHost) /\ Len(toHost') \in Nat
          /\ \A i \in 1 .. Len(toHost') :
                 i + 1 \in 1 .. Len(toHost) /\ toHost'[i] = toHost[i + 1]
        BY <1>t, <2>1, HeadTailFacts
    <2>3. /\ Len(rxBuf) \in Nat /\ toHost[1].from \in Nat
          /\ \A i \in 1 .. Len(rxBuf') :
                \/ i \in 1 .. Len(rxBuf) /\ rxBuf'[i] = rxBuf[i]
                \/ i = Len(rxBuf) + 1 /\ rxBuf'[i] = toHost[1]
        BY <1>0, <1>t, <2>1, <2>2, AppendFacts, OrderTypes
    <2>4. /\ \A j \in 1 .. Len(toHost) : toHost[1].from <= toHost[j].from
          /\ toHost[1].from <= cur /\ Before(toHost[1].from, toDev)
        BY <1>0, <2>2 DEF LinkInOrder, FramesInOrder
    <2>5. FramesInOrder(rxBuf')
        <3> SUFFICES ASSUME NEW i \in 1 .. Len(rxBuf'), NEW j \in 1 .. Len(rxBuf'), i <= j
                     PROVE  rxBuf'[i].from <= rxBuf'[j].from
            BY DEF FramesInOrder
        <3>1. CASE i \in 1 .. Len(rxBuf) /\ j \in 1 .. Len(rxBuf)
            BY <1>0, <2>3, <3>1 DEF LinkInOrder, FramesInOrder
        <3>2. CASE i \in 1 .. Len(rxBuf) /\ j = Len(rxBuf) + 1
            BY <1>0, <2>2, <2>3, <3>2 DEF LinkInOrder, BeforeFrames
        <3>3. CASE i = Len(rxBuf) + 1
            BY <2>3, <3>3
        <3>4. QED
            BY <2>3, <3>1, <3>2, <3>3
    <2>6. FramesInOrder(toHost')
        <3>1. Suffix(toHost', toHost) /\ FramesInOrder(toHost) /\ Len(toHost) \in Nat
            BY <1>0, <1>t, <2>1, SuffixFacts, OrderTypes DEF LinkInOrder
        <3>2. QED
            BY <2>2, <3>1, SuffixInOrder
    <2>7. \A n : BeforeFrames(n, toHost) => BeforeFrames(n, toHost') /\ n <= toHost[1].from
        BY <2>2 DEF BeforeFrames
    <2>8. \A i \in 1 .. Len(toHost') :
              toHost'[i].from <= cur /\ Before(toHost'[i].from, toDev)
        BY <1>0, <2>2 DEF LinkInOrder
    <2>9. \A i \in 1 .. Len(rxBuf') :
              /\ rxBuf'[i].from <= cur
              /\ Before(rxBuf'[i].from, toDev)
              /\ BeforeFrames(rxBuf'[i].from, toHost')
        <3> SUFFICES ASSUME NEW i \in 1 .. Len(rxBuf')
                     PROVE  /\ rxBuf'[i].from <= cur
                            /\ Before(rxBuf'[i].from, toDev)
                            /\ BeforeFrames(rxBuf'[i].from, toHost')
            OBVIOUS
        <3>1. CASE i \in 1 .. Len(rxBuf) /\ rxBuf'[i] = rxBuf[i]
            BY <1>0, <2>7, <3>1 DEF LinkInOrder
        <3>2. CASE rxBuf'[i] = toHost[1]
            BY <2>2, <2>4, <3>2 DEF BeforeFrames
        <3>3. QED
            BY <2>3, <3>1, <3>2
    <2>10. LinkInOrder'
        <3>1. /\ InOrder(toDev) /\ lastExecuted <= cur
              /\ \A i \in 1 .. Len(toDev) : lastExecuted <= toDev[i] /\ toDev[i] <= cur
            BY <1>0 DEF LinkInOrder
        <3>2. QED
            BY <2>1, <2>5, <2>6, <2>8, <2>9, <3>1 DEF LinkInOrder
    <2>11. RepliesInOrder'
        <3>1. \A c \in Commands : Answered(c) =>
                  /\ BeforeFrames(reply[c].from, toHost')
                  /\ BeforeFrames(reply[c].from, rxBuf')
            <4>1. \A n : BeforeFrames(n, toHost) /\ BeforeFrames(n, rxBuf)
                            => BeforeFrames(n, rxBuf')
                BY <2>3, <2>7 DEF BeforeFrames
            <4>2. QED
                BY <1>0, <2>7, <4>1 DEF RepliesInOrder
        <3>2. QED
            BY <1>0, <2>1, <3>1 DEF RepliesInOrder, Answered
    <2>12. AnswersKeepOrder'
        BY <1>0, <2>1 DEF AnswersKeepOrder, Answered
    <2>13. QED
        BY <2>10, <2>11, <2>12
<1>13. QED
    BY <1>1, <1>2, <1>3, <1>4, <1>5, <1>6, <1>7, <1>8, <1>10, <1>11, <1>12
    DEF Next, CommThread

\* However late the link, callers see the device's responses in the order it
\* gave them: Connection handles one command at a time, and the flush and
\* attemptRx drop only what is oldest (Device.cpp:45-197).
THEOREM AnswersStayInOrder == Spec => []AnswersKeepOrder
<1>1. Spec => []OrderInv
    BY OrderInit, OrderStep, PTL DEF Spec
<1>2. OrderInv => AnswersKeepOrder
    BY DEF OrderInv
<1>3. QED
    BY <1>1, <1>2, PTL

\* However late the link, the device never goes back to a command after it has
\* executed a later one, whatever handleQEntry retransmits (Device.cpp:21-43).
THEOREM DeviceNeverGoesBack == Spec => DeviceKeepsOrder
<1>1. Spec => []OrderInv
    BY OrderInit, OrderStep, PTL DEF Spec
<1>2. OrderInv /\ [Next]_vars => [lastExecuted' >= lastExecuted]_vars
    <2> SUFFICES ASSUME OrderInv, [Next]_vars
                 PROVE  lastExecuted' >= lastExecuted
        OBVIOUS
    <2>1. lastExecuted \in Nat /\ LinkInOrder /\ toDev \in Seq(Commands)
        BY OrderTypes DEF OrderInv, TypeInv, TypeOK
    <2>2. CASE UNCHANGED vars
        BY <2>1, <2>2 DEF vars, devVars
    <2>3. CASE DeviceExecutes
        <3>1. toDev # <<>> /\ lastExecuted' = Head(toDev)
            BY <2>3 DEF DeviceExecutes, DeviceAnswers
        <3>2. Head(toDev) = toDev[1] /\ 1 \in 1 .. Len(toDev) /\ Head(toDev) \in Commands
            BY <2>1, <3>1, HeadTailFacts
        <3>3. QED
            BY <2>1, <3>1, <3>2 DEF LinkInOrder, Commands
    <2>4. CASE Next /\ ~DeviceExecutes
        BY <2>1, <2>4
        DEF Next, CommThread, HandleQEntry, AttemptTx, TxFails, RxAccept, RxFails,
            Disconnect, DeviceRefuses, LinkDelivers, LinkLoses, devVars
    <2>5. QED
        BY <2>2, <2>3, <2>4
<1>3. QED
    BY <1>1, <1>2, PTL DEF DeviceKeepsOrder, Spec

-------------------------------------------------------------------------------
(* A stale response needs a timeout.  What is left on the link of a command  *)
(* that has returned is there because some command up to it was sent twice   *)
(* or failed: one transmission makes one frame, which the command's own      *)
(* response used up.                                                         *)

InDev(c)  == \E i \in 1 .. Len(toDev) : toDev[i] = c
InHost(c) == \E i \in 1 .. Len(toHost) : toHost[i].from = c
InBuf(c)  == \E i \in 1 .. Len(rxBuf) : rxBuf[i].from = c

UnderWay(c) == InDev(c) \/ InHost(c) \/ InBuf(c)

\* Apart from the receive buffer, which attemptRx takes as a whole, there is one
\* frame of the command at most.
OnlyOnce(c) ==
    /\ \A i, j \in 1 .. Len(toDev) : toDev[i] = c /\ toDev[j] = c => i = j
    /\ \A i, j \in 1 .. Len(toHost) : toHost[i].from = c /\ toHost[j].from = c => i = j
    /\ ~(InDev(c) /\ InHost(c)) /\ ~(InDev(c) /\ InBuf(c)) /\ ~(InHost(c) /\ InBuf(c))

\* Some command up to n had a timeout.
Trouble(n) == \E e \in 1 .. n : sent[e] > 1 \/ reply[e] = NoReply

\* The commands before the one being handled have returned, those after it not.
ReturnsInOrder ==
    \A c \in Commands : Returned(c) <=> c < cur \/ (c = cur /\ pc = "idle")

FramesCounted ==
    \A c \in Commands :
        /\ UnderWay(c) => sent[c] >= 1
        /\ sent[c] = 1 => OnlyOnce(c)
        /\ UnderWay(c) /\ Returned(c) => Trouble(c)

StaleInv == TypeInv /\ ReturnsInOrder /\ FramesCounted /\ StaleNeedsTimeout

LEMMA StaleInit == Init => StaleInv
<1> SUFFICES ASSUME Init
             PROVE  StaleInv
    OBVIOUS
<1>1. TypeInv
    BY TypeInit
<1>2. ReturnsInOrder
    BY DEF Init, ReturnsInOrder, Returned, Commands
<1>3. \A c \in Commands : ~UnderWay(c) /\ sent[c] = 0
    <2>1. Len(toDev) = 0 /\ Len(toHost) = 0 /\ Len(rxBuf) = 0
        BY DEF Init
    <2> QED
        BY <2>1 DEF Init, UnderWay, InDev, InHost, InBuf
<1>4. FramesCounted
    BY <1>3 DEF FramesCounted
<1>5. StaleNeedsTimeout
    BY PseudoReplies DEF Init, StaleNeedsTimeout, Answered
<1> QED
    BY <1>1, <1>2, <1>4, <1>5 DEF StaleInv

\* What the commands are, and that a command has been sent only once it was handled.
LEMMA StaleTypes ==
    ASSUME TypeInv
    PROVE  /\ cur \in Nat /\ Commands \subseteq Nat
           /\ \A c \in Commands : sent[c] \in Nat /\ (sent[c] >= 1 => c <= cur)
           /\ toDev \in Seq(Commands) /\ toHost \in Seq(Frames) /\ rxBuf \in Seq(Frames)
           /\ \A i \in 1 .. Len(toDev) : toDev[i] \in Commands
           /\ \A i \in 1 .. Len(toHost) : toHost[i].from \in Commands
           /\ \A i \in 1 .. Len(rxBuf) : rxBuf[i].from \in Commands
<1>1. /\ cur \in Nat /\ Commands \subseteq Nat
      /\ toDev \in Seq(Commands) /\ toHost \in Seq(Frames) /\ rxBuf \in Seq(Frames)
      /\ sent \in [Commands -> 0 .. MaxAttempts]
      /\ \A c \in Commands : c > cur => sent[c] = 0
    BY DEF TypeInv, TypeOK, Counted, Commands
<1>2. \A c \in Commands : sent[c] \in Nat
    BY <1>1, ExchangeAssumption
<1>3. \A c \in Commands : sent[c] >= 1 => c <= cur
    BY <1>1, <1>2
<1>4. /\ \A i \in 1 .. Len(toDev) : toDev[i] \in Commands
      /\ \A i \in 1 .. Len(toHost) : toHost[i] \in Frames
      /\ \A i \in 1 .. Len(rxBuf) : rxBuf[i] \in Frames
    BY <1>1, ElementOfSeq
<1>5. \A f \in Frames : f.from \in Commands
    BY DEF Frames
<1> QED
    BY <1>1, <1>2, <1>3, <1>4, <1>5

LEMMA TroubleStays ==
    ASSUME NEW n \in Commands, NEW m \in Commands, n <= m, Trouble(n), TypeInv,
           \A e \in Commands : sent[e] > 1 => sent'[e] > 1,
           \A e \in Commands : reply[e] = NoReply => reply'[e] = NoReply
    PROVE  Trouble(m)'
<1>1. PICK e \in 1 .. n : sent[e] > 1 \/ reply[e] = NoReply
    BY DEF Trouble
<1>2. e \in Commands /\ e \in 1 .. m
    BY ExchangeAssumption DEF Commands
<1> QED
    BY <1>1, <1>2 DEF Trouble

\* Losing frames makes none.
LEMMA LossCounted ==
    ASSUME NEW c,
           Suffix(toDev', toDev), Suffix(toHost', toHost), Suffix(rxBuf', rxBuf),
           Len(toDev') \in Nat, Len(toHost') \in Nat
    PROVE  /\ UnderWay(c)' => UnderWay(c)
           /\ OnlyOnce(c) => OnlyOnce(c)'
<1>1. PICK k \in Nat : \A i \in 1 .. Len(toDev') :
          i + k \in 1 .. Len(toDev) /\ toDev'[i] = toDev[i + k]
    BY DEF Suffix
<1>2. PICK l \in Nat : \A i \in 1 .. Len(toHost') :
          i + l \in 1 .. Len(toHost) /\ toHost'[i] = toHost[i + l]
    BY DEF Suffix
<1>3. PICK m \in Nat : \A i \in 1 .. Len(rxBuf') :
          i + m \in 1 .. Len(rxBuf) /\ rxBuf'[i] = rxBuf[i + m]
    BY DEF Suffix
<1>4. /\ InDev(c)' => InDev(c)
      /\ InHost(c)' => InHost(c)
      /\ InBuf(c)' => InBuf(c)
    BY <1>1, <1>2, <1>3 DEF InDev, InHost, InBuf
<1>5. ASSUME OnlyOnce(c)
      PROVE  OnlyOnce(c)'
    <2>1. ASSUME NEW i \in 1 .. Len(toDev'), NEW j \in 1 .. Len(toDev'),
                 toDev'[i] = c, toDev'[j] = c
          PROVE  i = j
        <3>1. i + k = j + k
            BY <1>1, <1>5, <2>1 DEF OnlyOnce
        <3> QED
            BY <3>1
    <2>2. ASSUME NEW i \in 1 .. Len(toHost'), NEW j \in 1 .. Len(toHost'),
                 toHost'[i].from = c, toHost'[j].from = c
          PROVE  i = j
        <3>1. i + l = j + l
            BY <1>2, <1>5, <2>2 DEF OnlyOnce
        <3> QED
            BY <3>1
    <2> QED
        BY <1>4, <1>5, <2>1, <2>2 DEF OnlyOnce
<1> QED
    BY <1>4, <1>5 DEF UnderWay

\* A frame that moves on stays one frame.
LEMMA MovedCounted ==
    ASSUME NEW c, TypeInv, DeviceAnswers("NACK") \/ DeviceExecutes \/ LinkDelivers,
           rxBuf' = rxBuf \/ LinkDelivers
    PROVE  /\ UnderWay(c)' => UnderWay(c)
           /\ OnlyOnce(c) => OnlyOnce(c)'
<1>0. toDev \in Seq(Commands) /\ toHost \in Seq(Frames) /\ rxBuf \in Seq(Frames)
    BY StaleTypes
<1>1. CASE LinkDelivers
    <2>1. /\ toHost # <<>> /\ rxBuf' = Append(rxBuf, Head(toHost)) /\ toHost' = Tail(toHost)
          /\ toDev' = toDev
        BY <1>1 DEF LinkDelivers
    <2>2. /\ Head(toHost) \in Frames /\ Head(toHost) = toHost[1]
          /\ Len(toHost) \in Nat \ {0} /\ Len(toHost') = Len(toHost) - 1
          /\ \A i \in 1 .. Len(toHost') : toHost'[i] = toHost[i + 1]
        BY <1>0, <2>1, HeadTailFacts
    <2>3. /\ Len(rxBuf) \in Nat /\ Len(rxBuf') = Len(rxBuf) + 1
          /\ \A i \in 1 .. Len(rxBuf) : rxBuf'[i] = rxBuf[i]
          /\ rxBuf'[Len(rxBuf) + 1] = toHost[1]
        BY <1>0, <2>1, <2>2, AppendFacts
    <2>4. InDev(c)' = InDev(c)
        BY <2>1 DEF InDev
    <2>5. InHost(c)' => InHost(c)
        BY <2>2 DEF InHost
    <2>6. InBuf(c)' => InBuf(c) \/ (InHost(c) /\ toHost[1].from = c)
        <3>1. 1 \in 1 .. Len(toHost)
            BY ONLY <2>2
        <3>2. \A i \in 1 .. Len(rxBuf') : i \in 1 .. Len(rxBuf) \/ i = Len(rxBuf) + 1
            BY ONLY <2>3
        <3> QED
            BY <2>3, <3>1, <3>2 DEF InBuf, InHost
    <2>7. ASSUME OnlyOnce(c)
          PROVE  OnlyOnce(c)'
        <3>1. \A i, j \in 1 .. Len(toHost') : toHost'[i].from = c /\ toHost'[j].from = c => i = j
            <4> SUFFICES ASSUME NEW i \in 1 .. Len(toHost'), NEW j \in 1 .. Len(toHost'),
                                toHost'[i].from = c, toHost'[j].from = c
                         PROVE  i = j
                OBVIOUS
            <4>1. i + 1 \in 1 .. Len(toHost) /\ j + 1 \in 1 .. Len(toHost)
                BY <2>2
            <4>2. i + 1 = j + 1
                BY <2>2, <2>7, <4>1 DEF OnlyOnce
            <4> QED
                BY <4>2
        <3>2. InHost(c)' => toHost[1].from # c
            <4> SUFFICES ASSUME NEW i \in 1 .. Len(toHost'), toHost'[i].from = c,
                                toHost[1].from = c
                         PROVE  FALSE
                BY DEF InHost
            <4>1. i + 1 \in 1 .. Len(toHost) /\ 1 \in 1 .. Len(toHost) /\ i + 1 # 1
                BY <2>2
            <4> QED
                BY <2>2, <2>7, <4>1 DEF OnlyOnce
        <3> QED
            BY <2>1, <2>4, <2>5, <2>6, <2>7, <3>1, <3>2 DEF OnlyOnce
    <2> QED
        BY <2>4, <2>5, <2>6, <2>7 DEF UnderWay
<1>2. ASSUME NEW type \in MsgTypes, DeviceAnswers(type), rxBuf' = rxBuf
      PROVE  /\ UnderWay(c)' => UnderWay(c)
             /\ OnlyOnce(c) => OnlyOnce(c)'
    <2> DEFINE f == [from |-> Head(toDev), type |-> type]
    <2>1. /\ toDev # <<>> /\ toHost' = Append(toHost, f) /\ toDev' = Tail(toDev)
        BY <1>2 DEF DeviceAnswers
    <2>2. /\ Head(toDev) \in Commands /\ Head(toDev) = toDev[1]
          /\ Len(toDev) \in Nat \ {0} /\ Len(toDev') = Len(toDev) - 1
          /\ \A i \in 1 .. Len(toDev') : toDev'[i] = toDev[i + 1]
        BY <1>0, <2>1, HeadTailFacts
    <2>3. f \in Frames /\ f.from = toDev[1]
        BY <1>2, <2>2 DEF Frames
    <2> HIDE DEF f
    <2>4. /\ Len(toHost) \in Nat /\ Len(toHost') = Len(toHost) + 1
          /\ \A i \in 1 .. Len(toHost) : toHost'[i] = toHost[i]
          /\ toHost'[Len(toHost) + 1] = f
        BY <1>0, <2>1, <2>3, AppendFacts
    <2>5. InBuf(c)' = InBuf(c)
        BY <1>2 DEF InBuf
    <2>6. InDev(c)' => InDev(c)
        BY <2>2 DEF InDev
    <2>7. \A i \in 1 .. Len(toHost') : i \in 1 .. Len(toHost) \/ i = Len(toHost) + 1
        BY ONLY <2>4
    <2>8. 1 \in 1 .. Len(toDev)
        BY ONLY <2>2
    <2>9. InHost(c)' => InHost(c) \/ (InDev(c) /\ toDev[1] = c)
        BY <2>3, <2>4, <2>7, <2>8 DEF InHost, InDev
    <2>10. ASSUME OnlyOnce(c)
           PROVE  OnlyOnce(c)'
        <3>1. \A i, j \in 1 .. Len(toDev') : toDev'[i] = c /\ toDev'[j] = c => i = j
            <4> SUFFICES ASSUME NEW i \in 1 .. Len(toDev'), NEW j \in 1 .. Len(toDev'),
                                toDev'[i] = c, toDev'[j] = c
                         PROVE  i = j
                OBVIOUS
            <4>1. i + 1 \in 1 .. Len(toDev) /\ j + 1 \in 1 .. Len(toDev)
                BY <2>2
            <4>2. i + 1 = j + 1
                BY <2>2, <2>10, <4>1 DEF OnlyOnce
            <4> QED
                BY <4>2
        <3>2. InDev(c)' => toDev[1] # c
            <4> SUFFICES ASSUME NEW i \in 1 .. Len(toDev'), toDev'[i] = c, toDev[1] = c
                         PROVE  FALSE
                BY DEF InDev
            <4>1. i + 1 \in 1 .. Len(toDev) /\ 1 \in 1 .. Len(toDev) /\ i + 1 # 1
                BY <2>2
            <4> QED
                BY <2>2, <2>10, <4>1 DEF OnlyOnce
        <3>3. toDev[1] = c => ~InHost(c) /\ ~InBuf(c)
            BY <2>8, <2>10 DEF OnlyOnce, InDev
        <3>4. \A i, j \in 1 .. Len(toHost') : toHost'[i].from = c /\ toHost'[j].from = c => i = j
            <4>1. CASE toDev[1] = c
                <5>1. \A i \in 1 .. Len(toHost) : toHost'[i].from # c
                    BY <2>4, <3>3, <4>1 DEF InHost
                <5> QED
                    BY <2>7, <5>1
            <4>2. CASE toDev[1] # c
                BY <2>3, <2>4, <2>7, <2>10, <4>2 DEF OnlyOnce
            <4> QED
                BY <4>1, <4>2
        <3> QED
            BY <2>5, <2>6, <2>9, <2>10, <3>1, <3>2, <3>3, <3>4 DEF OnlyOnce
    <2> QED
        BY <2>5, <2>6, <2>9, <2>10 DEF UnderWay
<1>3. CASE DeviceExecutes
    <2>1. DeviceAnswers(expects[Head(toDev)]) /\ rxBuf' = rxBuf
        BY <1>3 DEF DeviceExecutes
    <2>2. expects[Head(toDev)] \in MsgTypes
        <3>1. Head(toDev) \in Commands
            BY <1>0, <2>1, HeadTailFacts DEF DeviceAnswers
        <3> QED
            BY <3>1 DEF TypeInv, TypeOK, MsgTypes
    <2> QED
        BY <1>2, <2>1, <2>2
<1>4. CASE DeviceAnswers("NACK") /\ rxBuf' = rxBuf
    BY <1>2, <1>4 DEF MsgTypes
<1> QED
    BY <1>1, <1>3, <1>4

\* Steps that neither handle a command nor make a frame.
LEMMA StaleKept ==
    ASSUME StaleInv, TypeInv', UNCHANGED <<cur, pc, reply, sent>>,
           \A c \in Commands : UnderWay(c)' => UnderWay(c),
           \A c \in Commands : OnlyOnce(c) => OnlyOnce(c)'
    PROVE  StaleInv'
<1>1. ReturnsInOrder'
    BY DEF StaleInv, ReturnsInOrder, Returned
<1>2. FramesCounted'
    <2> SUFFICES ASSUME NEW c \in Commands
                 PROVE  /\ UnderWay(c)' => sent'[c] >= 1
                        /\ sent'[c] = 1 => OnlyOnce(c)'
                        /\ UnderWay(c)' /\ Returned(c)' => Trouble(c)'
        BY DEF FramesCounted
    <2>1. /\ UnderWay(c) => sent[c] >= 1
          /\ sent[c] = 1 => OnlyOnce(c)
          /\ UnderWay(c) /\ Returned(c) => Trouble(c)
        BY DEF StaleInv, FramesCounted
    <2>2. Trouble(c)' = Trouble(c) /\ Returned(c)' = Returned(c)
        BY DEF Trouble, Returned
    <2> QED
        BY <2>1, <2>2
<1>3. StaleNeedsTimeout'
    BY DEF StaleInv, StaleNeedsTimeout, Answered
<1> QED
    BY <1>1, <1>2, <1>3 DEF StaleInv

\* A failed attempt, which loses what the flush destroys; the last one is trouble.
LEMMA StaleNextAttempt ==
    ASSUME StaleInv, TypeInv', pc # "idle", NextAttempt,
           UNCHANGED <<cur, sent, toDev, toHost>>, Suffix(rxBuf', rxBuf)
    PROVE  StaleInv'
<1>0. /\ TypeInv /\ ReturnsInOrder /\ FramesCounted /\ StaleNeedsTimeout
      /\ cur \in Commands
    BY DEF StaleInv, TypeInv, Counted
<1>1. /\ cur \in Nat /\ Commands \subseteq Nat
      /\ toDev \in Seq(Commands) /\ toHost \in Seq(Frames)
    BY <1>0, StaleTypes
<1>2. \A c \in Commands : (UnderWay(c)' => UnderWay(c)) /\ (OnlyOnce(c) => OnlyOnce(c)')
    <2>1. Suffix(toDev', toDev) /\ Suffix(toHost', toHost)
        BY <1>1, SuffixFacts
    <2>2. Len(toDev') \in Nat /\ Len(toHost') \in Nat
        BY <1>1
    <2> QED
        BY <2>1, <2>2, LossCounted
<1>3. /\ pc' \in {"idle", "tx"}
      /\ pc' = "tx" => reply' = reply
      /\ \A c \in Commands : c # cur => reply'[c] = reply[c]
      /\ pc' = "idle" => reply'[cur] = NoReply
    BY <1>0, NextAttemptFacts
<1>4. ~Returned(cur)
    BY <1>0, <1>1 DEF ReturnsInOrder
<1>5. \A e \in Commands : reply[e] = NoReply => reply'[e] = NoReply
    <2>1. NoReply # Pending
        BY DEF NoReply, Pending
    <2> QED
        BY <1>3, <1>4, <2>1 DEF Returned
<1>6. ASSUME NEW n \in Commands, Trouble(n)
      PROVE  Trouble(n)'
    <2>1. n <= n
        BY <1>1
    <2> QED
        BY <1>0, <1>5, <1>6, <2>1, TroubleStays
<1>7. CASE pc' = "tx"
    <2>1. ReturnsInOrder'
        BY <1>0, <1>3, <1>7 DEF ReturnsInOrder, Returned
    <2>2. FramesCounted'
        BY <1>0, <1>2, <1>3, <1>6, <1>7 DEF FramesCounted, Returned
    <2>3. StaleNeedsTimeout'
        BY <1>0, <1>3, <1>7 DEF StaleNeedsTimeout, Answered
    <2> QED
        BY <2>1, <2>2, <2>3 DEF StaleInv
<1>8. CASE pc' = "idle"
    <2>1. ReturnsInOrder'
        <3>1. NoReply # Pending
            BY DEF NoReply, Pending
        <3>2. Returned(cur)' /\ \A c \in Commands : c # cur => Returned(c)' = Returned(c)
            BY <1>3, <1>8, <3>1 DEF Returned
        <3> QED
            BY <1>0, <1>1, <1>8, <3>2 DEF ReturnsInOrder
    <2>2. FramesCounted'
        <3> SUFFICES ASSUME NEW c \in Commands
                     PROVE  /\ UnderWay(c)' => sent[c] >= 1
                            /\ sent[c] = 1 => OnlyOnce(c)'
                            /\ UnderWay(c)' /\ Returned(c)' => Trouble(c)'
            BY DEF FramesCounted
        <3>1. /\ UnderWay(c) => sent[c] >= 1
              /\ sent[c] = 1 => OnlyOnce(c)
              /\ UnderWay(c) /\ Returned(c) => Trouble(c)
            BY <1>0 DEF FramesCounted
        <3>2. CASE c = cur
            <4>1. Trouble(c)'
                <5>1. c \in 1 .. c
                    BY <1>1 DEF Commands
                <5> QED
                    BY <1>3, <1>8, <3>2, <5>1 DEF Trouble
            <4> QED
                BY <1>2, <3>1, <4>1
        <3>3. CASE c # cur
            BY <1>2, <1>3, <1>6, <3>1, <3>3 DEF Returned
        <3> QED
            BY <3>2, <3>3
    <2>3. StaleNeedsTimeout'
        <3> SUFFICES ASSUME NEW c \in Commands, Answered(c)', reply'[c].from # c,
                            NEW n, n = reply'[c].from
                     PROVE  Trouble(n)'
            BY DEF StaleNeedsTimeout, Trouble
        <3>1. c # cur /\ reply'[c] = reply[c] /\ Answered(c)
            BY <1>3, <1>8, PseudoReplies DEF Answered
        <3>2. n \in Commands
            BY <1>0, <3>1, PseudoReplies DEF TypeInv, TypeOK, Answered, Frames
        <3>3. Trouble(n)
            BY <1>0, <3>1 DEF StaleNeedsTimeout, Trouble
        <3> QED
            BY <1>6, <3>2, <3>3
    <2> QED
        BY <2>1, <2>2, <2>3 DEF StaleInv
<1> QED
    BY <1>3, <1>7, <1>8

\* The caller takes the oldest frame: its own, which is then used up, or one that
\* was left by a command before it.
LEMMA StaleRxAccept ==
    ASSUME StaleInv, TypeInv', RxAccept
    PROVE  StaleInv'
<1>0. /\ TypeInv /\ ReturnsInOrder /\ FramesCounted /\ StaleNeedsTimeout
      /\ cur \in Commands /\ pc = "rx" /\ pc' = "idle" /\ rxBuf # <<>>
      /\ reply' = [reply EXCEPT ![cur] = Head(rxBuf)] /\ rxBuf' = <<>>
      /\ UNCHANGED <<cur, sent, toDev, toHost>>
    BY DEF StaleInv, TypeInv, Counted, RxAccept
<1>1. /\ cur \in Nat /\ Commands \subseteq Nat
      /\ toDev \in Seq(Commands) /\ toHost \in Seq(Frames) /\ rxBuf \in Seq(Frames)
      /\ \A c \in Commands : sent[c] \in Nat /\ (sent[c] >= 1 => c <= cur)
    BY <1>0, StaleTypes
<1>2. PICK f \in Frames : f = Head(rxBuf) /\ f = rxBuf[1] /\ 1 \in 1 .. Len(rxBuf)
    BY <1>0, <1>1, HeadTailFacts
<1>3. PICK g \in Commands : g = f.from
    BY DEF Frames
<1>4. InBuf(g) /\ UnderWay(g)
    BY <1>2, <1>3 DEF InBuf, UnderWay
<1>5. sent[g] >= 1 /\ g <= cur
    BY <1>0, <1>1, <1>4 DEF FramesCounted
<1>6. reply'[cur] = f /\ \A c \in Commands : c # cur => reply'[c] = reply[c]
    BY <1>0, <1>2 DEF TypeInv, TypeOK
<1>7. ~Returned(cur) /\ reply[cur] = Pending /\ Pending # NoReply
    BY <1>0, <1>1 DEF ReturnsInOrder, Returned, Pending, NoReply
<1>8. \A e \in Commands : reply[e] = NoReply => reply'[e] = NoReply
    BY <1>6, <1>7
<1>9. ASSUME NEW n \in Commands, NEW m \in Commands, n <= m, Trouble(n)
      PROVE  Trouble(m)'
    BY <1>0, <1>8, <1>9, TroubleStays
<1>10. g # cur => Trouble(g)
    <2>1. g # cur => g < cur
        BY <1>1, <1>5
    <2>2. g # cur => Returned(g)
        BY <1>0, <2>1 DEF ReturnsInOrder
    <2> QED
        BY <1>0, <1>4, <2>2 DEF FramesCounted
<1>11. \A c \in Commands : (UnderWay(c)' => UnderWay(c)) /\ (OnlyOnce(c) => OnlyOnce(c)')
    <2>1. Suffix(toDev', toDev) /\ Suffix(toHost', toHost) /\ Suffix(rxBuf', rxBuf)
        BY <1>0, <1>1, SuffixFacts
    <2>2. Len(toDev') \in Nat /\ Len(toHost') \in Nat
        BY <1>0, <1>1
    <2> QED
        BY <2>1, <2>2, LossCounted
<1>12. ReturnsInOrder'
    <2>1. Returned(cur)'
        BY <1>0, <1>6, PseudoReplies DEF Returned
    <2>2. \A c \in Commands : c # cur => Returned(c)' = Returned(c)
        BY <1>6 DEF Returned
    <2> QED
        BY <1>0, <1>1, <2>1, <2>2 DEF ReturnsInOrder
<1>13. UnderWay(cur)' => Trouble(cur)'
    <2> SUFFICES ASSUME UnderWay(cur)'
                 PROVE  Trouble(cur)'
        OBVIOUS
    <2>1. CASE g # cur
        BY <1>0, <1>5, <1>9, <1>10, <2>1
    <2>2. CASE g = cur
        <3>1. InDev(cur) \/ InHost(cur)
            <4>1. Len(rxBuf') = 0
                BY <1>0
            <4> QED
                BY <1>0, <4>1 DEF UnderWay, InDev, InHost, InBuf
        <3>2. ~OnlyOnce(cur)
            BY <1>4, <2>2, <3>1 DEF OnlyOnce
        <3>3. sent[cur] > 1
            BY <1>0, <1>1, <1>5, <2>2, <3>2 DEF FramesCounted
        <3>4. cur \in 1 .. cur
            BY <1>0, <1>1 DEF Commands
        <3> QED
            BY <1>0, <3>3, <3>4 DEF Trouble
    <2> QED
        BY <2>1, <2>2
<1>14. FramesCounted'
    <2> SUFFICES ASSUME NEW c \in Commands
                 PROVE  /\ UnderWay(c)' => sent'[c] >= 1
                        /\ sent'[c] = 1 => OnlyOnce(c)'
                        /\ UnderWay(c)' /\ Returned(c)' => Trouble(c)'
        BY DEF FramesCounted
    <2>1. /\ UnderWay(c) => sent[c] >= 1
          /\ sent[c] = 1 => OnlyOnce(c)
          /\ UnderWay(c) /\ Returned(c) => Trouble(c)
        BY <1>0 DEF FramesCounted
    <2>2. c <= c
        BY <1>1
    <2>3. c # cur /\ UnderWay(c)' /\ Returned(c)' => Trouble(c)'
        BY <1>6, <1>9, <1>11, <2>1, <2>2 DEF Returned
    <2>4. c = cur /\ UnderWay(c)' => Trouble(c)'
        BY <1>0, <1>13 DEF UnderWay, InDev, InHost, InBuf, Trouble
    <2> QED
        BY <1>0, <1>11, <2>1, <2>3, <2>4
<1>15. StaleNeedsTimeout'
    <2> SUFFICES ASSUME NEW c \in Commands, Answered(c)', reply'[c].from # c,
                        NEW n, n = reply'[c].from
                 PROVE  Trouble(n)'
        BY DEF StaleNeedsTimeout, Trouble
    <2>1. CASE c = cur
        <3>1. n = g /\ g # cur /\ g <= g
            BY <1>1, <1>3, <1>6, <2>1
        <3> QED
            BY <1>9, <1>10, <3>1
    <2>2. CASE c # cur
        <3>1. reply'[c] = reply[c] /\ Answered(c)
            BY <1>6, <2>2 DEF Answered
        <3>2. n \in Commands /\ n <= n
            BY <1>0, <1>1, <3>1, PseudoReplies DEF TypeInv, TypeOK, Answered, Frames
        <3>3. Trouble(n)
            BY <1>0, <3>1 DEF StaleNeedsTimeout, Trouble
        <3> QED
            BY <1>9, <3>2, <3>3
    <2> QED
        BY <2>1, <2>2
<1> QED
    BY <1>12, <1>14, <1>15 DEF StaleInv

\* The frame that is written is the first of its command, or one of several.
LEMMA StaleAttemptTx ==
    ASSUME StaleInv, TypeInv', AttemptTx
    PROVE  StaleInv'
<1>0. /\ TypeInv /\ ReturnsInOrder /\ FramesCounted /\ StaleNeedsTimeout
      /\ cur \in Commands /\ pc = "tx" /\ pc' = "rx"
      /\ rxBuf' = Flushed /\ toDev' = Append(toDev, cur)
      /\ sent' = [sent EXCEPT ![cur] = @ + 1]
      /\ UNCHANGED <<cur, reply, toHost>>
    BY DEF StaleInv, TypeInv, Counted, AttemptTx
<1>1. /\ cur \in Nat /\ Commands \subseteq Nat
      /\ toDev \in Seq(Commands) /\ toHost \in Seq(Frames) /\ rxBuf \in Seq(Frames)
      /\ \A c \in Commands : sent[c] \in Nat
    BY <1>0, StaleTypes
<1>2. /\ sent'[cur] = sent[cur] + 1
      /\ \A c \in Commands : c # cur => sent'[c] = sent[c]
    BY <1>0 DEF TypeInv, TypeOK
<1>3. /\ Len(toDev) \in Nat /\ Len(toDev') = Len(toDev) + 1
      /\ \A i \in 1 .. Len(toDev) : toDev'[i] = toDev[i]
      /\ toDev'[Len(toDev) + 1] = cur
      /\ \A i \in 1 .. Len(toDev') : i \in 1 .. Len(toDev) \/ i = Len(toDev) + 1
    BY <1>0, <1>1, AppendFacts
<1>4. PICK k \in Nat : \A i \in 1 .. Len(rxBuf') :
          i + k \in 1 .. Len(rxBuf) /\ rxBuf'[i] = rxBuf[i + k]
    BY <1>0, <1>1, FlushedSuffix DEF Suffix
<1>5. ASSUME NEW c
      PROVE  /\ InHost(c)' = InHost(c) /\ (InBuf(c)' => InBuf(c))
             /\ c # cur => (InDev(c)' => InDev(c))
    BY <1>0, <1>3, <1>4 DEF InHost, InBuf, InDev
<1>6. \A e \in Commands : sent[e] > 1 => sent'[e] > 1
    BY <1>1, <1>2
<1>7. ASSUME NEW n \in Commands, Trouble(n)
      PROVE  Trouble(n)'
    <2>1. n <= n
        BY <1>1
    <2> QED
        BY <1>0, <1>6, <1>7, <2>1, TroubleStays
<1>8. ReturnsInOrder'
    BY <1>0 DEF ReturnsInOrder, Returned
<1>9. ASSUME NEW c \in Commands, c # cur
      PROVE  /\ UnderWay(c)' => sent'[c] >= 1
             /\ sent'[c] = 1 => OnlyOnce(c)'
             /\ UnderWay(c)' /\ Returned(c)' => Trouble(c)'
    <2>1. /\ UnderWay(c) => sent[c] >= 1
          /\ sent[c] = 1 => OnlyOnce(c)
          /\ UnderWay(c) /\ Returned(c) => Trouble(c)
        BY <1>0 DEF FramesCounted
    <2>2. UnderWay(c)' => UnderWay(c)
        BY <1>5, <1>9 DEF UnderWay
    <2>3. ASSUME OnlyOnce(c)
          PROVE  OnlyOnce(c)'
        <3>1. \A i \in 1 .. Len(toDev') : toDev'[i] = c => i \in 1 .. Len(toDev) /\ toDev[i] = c
            BY <1>3, <1>9
        <3>2. \A i, j \in 1 .. Len(toDev') : toDev'[i] = c /\ toDev'[j] = c => i = j
            BY <2>3, <3>1 DEF OnlyOnce
        <3> QED
            BY <1>0, <1>5, <1>9, <2>3, <3>2 DEF OnlyOnce
    <2> QED
        BY <1>0, <1>2, <1>7, <1>9, <2>1, <2>2, <2>3 DEF Returned
<1>10. ASSUME NEW c \in Commands, c = cur
       PROVE  /\ sent'[c] >= 1
              /\ sent'[c] = 1 => OnlyOnce(c)'
              /\ ~Returned(c)'
    <2>1. sent'[c] >= 1 /\ (sent'[c] = 1 => sent[c] = 0)
        BY <1>1, <1>2, <1>10
    <2>2. ASSUME sent[c] = 0
          PROVE  OnlyOnce(c)'
        <3>1. ~InDev(c) /\ ~InHost(c) /\ ~InBuf(c)
            BY <1>0, <2>2 DEF FramesCounted, UnderWay
        <3>2. ~InHost(c)' /\ ~InBuf(c)'
            BY <1>5, <3>1
        <3>3. \A i \in 1 .. Len(toDev') : toDev'[i] = c => i = Len(toDev) + 1
            BY <1>3, <3>1 DEF InDev
        <3>4. \A i \in 1 .. Len(toHost) : toHost[i].from # c
            BY <3>1 DEF InHost
        <3> QED
            BY <1>0, <3>2, <3>3, <3>4 DEF OnlyOnce
    <2>3. ~Returned(c)'
        BY <1>0, <1>1, <1>10 DEF ReturnsInOrder, Returned
    <2> QED
        BY <2>1, <2>2, <2>3
<1>11. FramesCounted'
    BY <1>9, <1>10 DEF FramesCounted
<1>12. StaleNeedsTimeout'
    <2> SUFFICES ASSUME NEW c \in Commands, Answered(c), reply[c].from # c
                 PROVE  Trouble(reply[c].from)'
        BY <1>0 DEF StaleNeedsTimeout, Trouble, Answered
    <2>1. PICK m \in Commands : m = reply[c].from
        BY <1>0, PseudoReplies DEF TypeInv, TypeOK, Answered, Frames
    <2>2. Trouble(m)'
        BY <1>0, <1>7, <2>1 DEF StaleNeedsTimeout, Trouble
    <2> QED
        BY <1>0, <2>1, <2>2 DEF Trouble
<1> QED
    BY <1>8, <1>11, <1>12 DEF StaleInv

LEMMA StaleStep == StaleInv /\ [Next]_vars => StaleInv'
<1> SUFFICES ASSUME StaleInv, [Next]_vars
             PROVE  StaleInv'
    OBVIOUS
<1>0. TypeInv /\ TypeInv'
    BY TypeStep DEF StaleInv
<1>1. /\ cur \in Nat /\ Commands \subseteq Nat
      /\ toDev \in Seq(Commands) /\ toHost \in Seq(Frames) /\ rxBuf \in Seq(Frames)
      /\ toDev' \in Seq(Commands) /\ toHost' \in Seq(Frames)
    BY <1>0, StaleTypes DEF TypeInv, TypeOK
<1>2. ASSUME UNCHANGED <<cur, pc, reply, sent>>,
             Suffix(toDev', toDev), Suffix(toHost', toHost), Suffix(rxBuf', rxBuf)
      PROVE  StaleInv'
    <2>1. Len(toDev') \in Nat /\ Len(toHost') \in Nat
        BY <1>1
    <2>2. \A c \in Commands : (UnderWay(c)' => UnderWay(c)) /\ (OnlyOnce(c) => OnlyOnce(c)')
        BY <1>2, <2>1, LossCounted
    <2> QED
        BY <1>0, <1>2, <2>2, StaleKept
<1>3. ASSUME NEW t \in Expected, HandleQEntry(t)
      PROVE  StaleInv'
    <2>1. /\ cur' = cur + 1 /\ pc = "idle" /\ pc' = "tx"
          /\ UNCHANGED <<reply, sent, toDev, toHost, rxBuf>>
        BY <1>3 DEF HandleQEntry, linkVars
    <2>2. ReturnsInOrder'
        BY <1>1, <2>1 DEF StaleInv, ReturnsInOrder, Returned
    <2>3. FramesCounted'
        BY <2>1 DEF StaleInv, FramesCounted, UnderWay, InDev, InHost, InBuf, OnlyOnce,
                    Trouble, Returned
    <2>4. StaleNeedsTimeout'
        BY <2>1 DEF StaleInv, StaleNeedsTimeout, Answered
    <2> QED
        BY <1>0, <2>2, <2>3, <2>4 DEF StaleInv
<1>4. CASE AttemptTx
    BY <1>0, <1>4, StaleAttemptTx
<1>5. CASE TxFails
    <2>1. Suffix(rxBuf', rxBuf)
        BY <1>1, <1>5, FlushedSuffix, SuffixFacts DEF TxFails
    <2> QED
        BY <1>0, <1>5, <2>1, StaleNextAttempt DEF TxFails
<1>6. CASE RxAccept
    BY <1>0, <1>6, StaleRxAccept
<1>7. CASE RxFails
    <2>1. Suffix(rxBuf', rxBuf)
        BY <1>1, <1>7, SuffixFacts DEF RxFails, linkVars
    <2> QED
        BY <1>0, <1>7, <2>1, StaleNextAttempt DEF RxFails, linkVars
<1>8. CASE Disconnect
    BY <1>1, <1>2, <1>8, SuffixFacts DEF Disconnect, hostVars
<1>9. CASE DeviceExecutes \/ DeviceRefuses \/ LinkDelivers
    <2>1. /\ UNCHANGED <<cur, pc, reply, sent>>
          /\ DeviceAnswers("NACK") \/ DeviceExecutes \/ LinkDelivers
          /\ rxBuf' = rxBuf \/ LinkDelivers
        BY <1>9 DEF DeviceExecutes, DeviceRefuses, LinkDelivers, hostVars
    <2>2. \A c \in Commands : (UnderWay(c)' => UnderWay(c)) /\ (OnlyOnce(c) => OnlyOnce(c)')
        BY <1>0, <2>1, MovedCounted
    <2> QED
        BY <1>0, <2>1, <2>2, StaleKept
<1>10. CASE LinkLoses
    BY <1>1, <1>2, <1>10, SuffixFacts DEF LinkLoses, hostVars
<1>11. CASE UNCHANGED vars
    BY <1>1, <1>2, <1>11, SuffixFacts DEF vars, hostVars, linkVars
<1> QED
    BY <1>3, <1>4, <1>5, <1>6, <1>7, <1>8, <1>9, <1>10, <1>11 DEF Next, CommThread

\* On any link, for any number of attempts and any flush, a response reaches the
\* wrong caller only after a timeout: without a retransmission and without a command
\* that failed, commands and responses stay in step (handleQEntry, attemptRx).
THEOREM StaleResponsesNeedATimeout == Spec => []StaleNeedsTimeout
<1>1. Spec => []StaleInv
    BY StaleInit, StaleStep, PTL DEF Spec
<1>2. StaleInv => StaleNeedsTimeout
    BY DEF StaleInv
<1>3. QED
    BY <1>1, <1>2, PTL

-------------------------------------------------------------------------------
(* The refinement of RemoteCall: on a prompt link the exchanges are its calls. *)
(* A call is issued when handleQEntry takes its entry, takes effect when the   *)
(* device executes its frame, and returns when the entry is given its          *)
(* MsgResponse; every other step is a stutter.                                 *)

\* What the mapping RC substitutes for the calls returned and accepted.
returnedSet == {c \in Commands : Returned(c)}
acceptedSet == {c \in Commands : Accepted(c)}

\* A frame the device has not read yet is none the device has gone past, and
\* not of a command whose caller already has an acceptable response.
HeldFrame ==
    toDev # <<>> =>
        /\ Head(toDev) <= cur
        /\ lastExecuted <= Head(toDev)
        /\ Head(toDev) \notin acceptedSet

CallInv == PromptInv /\ ReturnsInOrder /\ lastExecuted <= cur /\ HeldFrame

-------------------------------------------------------------------------------
LEMMA CallInit == Init => CallInv
<1>1. Init => PromptInv
    BY PromptInit
<1>2. Init => ReturnsInOrder
    BY DEF Init, ReturnsInOrder, Returned, Commands
<1>3. Init => lastExecuted <= cur /\ HeldFrame
    BY DEF Init, HeldFrame
<1>4. QED
    BY <1>1, <1>2, <1>3 DEF CallInv

\* A command that has not returned has not been accepted.
LEMMA AcceptedReturned ==
    ASSUME NEW c \in Commands, Accepted(c) PROVE Returned(c)
BY PseudoReplies DEF Accepted, Answered, Returned

\* What an action leaves alone when it touches neither callers nor the device.
LEMMA CallStutter ==
    ASSUME UNCHANGED <<cur, expects, reply, devVars>>
    PROVE  UNCHANGED RC!callVars
BY DEF RC!callVars, Returned, Accepted, Answered, devVars

\* handleQEntry's last failed attempt returns from the call, an earlier one is
\* no step of it.
LEMMA AttemptEnds ==
    ASSUME CallInv, pc # "idle", NextAttempt, UNCHANGED <<cur, expects, devVars>>
    PROVE  /\ [RC!Next]_(RC!callVars)
           /\ ReturnsInOrder'
           /\ acceptedSet' = acceptedSet
<1>0. /\ TypeInv /\ cur \in Commands /\ ReturnsInOrder
      /\ Commands \subseteq Nat /\ cur \in Nat
    BY DEF CallInv, PromptInv, TypeInv, Counted, Commands
<1>1. ~Returned(cur) /\ ~Accepted(cur)
    BY <1>0, AcceptedReturned DEF ReturnsInOrder
<1>2. CASE pc' = "tx"
    <2>1. reply' = reply
        BY <1>0, <1>2, NextAttemptFacts
    <2>2. UNCHANGED RC!callVars
        BY <2>1, CallStutter
    <2>3. ReturnsInOrder'
        BY <1>0, <1>2, <2>1 DEF ReturnsInOrder, Returned
    <2>4. QED
        BY <2>1, <2>2, <2>3 DEF acceptedSet, Accepted, Answered
<1>3. CASE pc' = "idle"
    <2>1. /\ reply'[cur] = NoReply
          /\ \A c \in Commands : c # cur => reply'[c] = reply[c]
        BY <1>0, <1>3, NextAttemptFacts
    <2>2. Returned(cur)' /\ ~Accepted(cur)'
        BY <2>1, PseudoReplies DEF Returned, Accepted, Answered, Pending, NoReply
    <2>3. \A c \in Commands : c # cur =>
              (Returned(c)' <=> Returned(c)) /\ (Accepted(c)' <=> Accepted(c))
        BY <2>1 DEF Returned, Accepted, Answered
    <2>4. returnedSet' = returnedSet \cup {cur} /\ acceptedSet' = acceptedSet
        BY <1>0, <1>1, <2>2, <2>3 DEF returnedSet, acceptedSet
    <2>5. cur \in Commands \ returnedSet
        BY <1>0, <1>1 DEF returnedSet
    <2>6. RC!ReturnFailed
        BY <2>4, <2>5
        DEF RC!ReturnFailed, RC!Calls, Commands, returnedSet, acceptedSet, devVars
    <2>7. ReturnsInOrder'
        BY <1>0, <1>3, <2>2, <2>3 DEF ReturnsInOrder
    <2>8. QED
        BY <2>4, <2>6, <2>7 DEF RC!Next
<1>4. QED
    BY <1>0, <1>2, <1>3, NextAttemptFacts

\* A frame is held as long as it is not read, and the caller it is of keeps
\* waiting or has given up.
LEMMA HeldKept ==
    ASSUME CallInv, TypeInv', toDev' = toDev \/ toDev' = <<>>, cur <= cur',
           lastExecuted' = lastExecuted, acceptedSet' = acceptedSet
    PROVE  HeldFrame' /\ lastExecuted' <= cur'
<1>1. toDev # <<>> => Head(toDev) \in Commands
    BY HeadTailFacts DEF CallInv, PromptInv, TypeInv, TypeOK
<1>2. /\ HeldFrame /\ lastExecuted <= cur
      /\ cur \in Nat /\ cur' \in Nat /\ lastExecuted \in Nat /\ Commands \subseteq Nat
    BY DEF CallInv, PromptInv, TypeInv, TypeOK, Commands
<1>3. lastExecuted' <= cur'
    BY <1>2
<1>4. CASE toDev' = <<>>
    BY <1>3, <1>4 DEF HeldFrame
<1>5. CASE toDev' = toDev
    <2> SUFFICES ASSUME toDev # <<>>
                 PROVE  /\ Head(toDev) <= cur'
                        /\ lastExecuted' <= Head(toDev)
                        /\ Head(toDev) \notin acceptedSet'
        BY <1>3, <1>5 DEF HeldFrame
    <2>1. Head(toDev) \in Nat
        BY <1>1, <1>2
    <2>2. /\ Head(toDev) <= cur
          /\ lastExecuted <= Head(toDev)
          /\ Head(toDev) \notin acceptedSet
        BY <1>2 DEF HeldFrame
    <2>3. QED
        BY <1>2, <2>1, <2>2
<1>6. QED
    BY <1>4, <1>5

\* Every step is a call's step or a stutter, and keeps the invariant.
LEMMA CallStep ==
    ~LateReplies /\ CallInv /\ [Next]_vars => CallInv' /\ [RC!Next]_(RC!callVars)
<1> SUFFICES ASSUME ~LateReplies, CallInv, [Next]_vars
             PROVE  CallInv' /\ [RC!Next]_(RC!callVars)
    OBVIOUS
<1>0. /\ PromptInv /\ PromptInv' /\ TypeInv /\ TypeInv' /\ TypeOK
      /\ ReturnsInOrder /\ HeldFrame /\ lastExecuted <= cur
      /\ cur \in Nat /\ lastExecuted \in Nat /\ Commands \subseteq Nat
    <2>1. PromptInv /\ ReturnsInOrder /\ HeldFrame /\ lastExecuted <= cur
        BY DEF CallInv
    <2>2. PromptInv'
        BY <2>1, PromptStep
    <2>3. TypeInv /\ TypeInv' /\ TypeOK
        BY <2>1, <2>2 DEF PromptInv, TypeInv
    <2>4. cur \in Nat /\ lastExecuted \in Nat /\ Commands \subseteq Nat
        BY <2>3 DEF TypeOK, Commands
    <2>5. QED
        BY <2>1, <2>2, <2>3, <2>4
<1> SUFFICES /\ ReturnsInOrder' /\ HeldFrame' /\ lastExecuted' <= cur'
             /\ [RC!Next]_(RC!callVars)
    BY <1>0 DEF CallInv
<1>a. ASSUME UNCHANGED <<cur, pc, expects, reply, devVars>>,
             toDev' = toDev \/ toDev' = <<>>
      PROVE  /\ ReturnsInOrder' /\ HeldFrame' /\ lastExecuted' <= cur'
             /\ [RC!Next]_(RC!callVars)
    <2>1. acceptedSet' = acceptedSet
        BY <1>a DEF acceptedSet, Accepted, Answered
    <2>2. HeldFrame' /\ lastExecuted' <= cur'
        BY <1>0, <1>a, <2>1, HeldKept DEF devVars
    <2>3. ReturnsInOrder'
        BY <1>0, <1>a DEF ReturnsInOrder, Returned
    <2>4. QED
        BY <1>a, <2>2, <2>3, CallStutter
<1>1. ASSUME NEW t \in Expected, HandleQEntry(t)
      PROVE  /\ ReturnsInOrder' /\ HeldFrame' /\ lastExecuted' <= cur'
             /\ [RC!Next]_(RC!callVars)
    <2>1. /\ cur' = cur + 1 /\ cur < NumCommands /\ pc = "idle" /\ pc' = "tx"
          /\ reply' = reply /\ toDev' = toDev /\ UNCHANGED devVars
          /\ expects' = [expects EXCEPT ![cur + 1] = t]
        BY <1>1 DEF HandleQEntry, linkVars
    <2>2. returnedSet = 1 .. cur /\ returnedSet' = returnedSet
        BY <1>0, <2>1, ExchangeAssumption
        DEF returnedSet, ReturnsInOrder, Returned, Commands
    <2>3. acceptedSet' = acceptedSet
        <3>1. \A c \in Commands : c # cur + 1 => (Accepted(c)' <=> Accepted(c))
            BY <1>0, <2>1 DEF Accepted, Answered, TypeOK
        <3>2. \A c \in Commands : c = cur + 1 => ~Answered(c) /\ ~Answered(c)'
            BY <1>0, <2>1, PseudoReplies DEF ReturnsInOrder, Returned, Answered
        <3>3. QED
            BY <3>1, <3>2 DEF acceptedSet, Accepted
    <2>4. RC!Call
        BY <2>1, <2>2, <2>3 DEF RC!Call, returnedSet, acceptedSet, devVars
    <2>5. ReturnsInOrder'
        BY <1>0, <2>1 DEF ReturnsInOrder, Returned
    <2>6. HeldFrame' /\ lastExecuted' <= cur'
        BY <1>0, <2>1, <2>3, HeldKept DEF devVars
    <2>7. QED
        BY <2>4, <2>5, <2>6 DEF RC!Next
<1>2. CASE AttemptTx
    <2>1. /\ toDev = <<>> /\ cur \in Commands /\ pc = "tx"
        BY <1>0, <1>2 DEF AttemptTx, Drained, TypeInv, Counted
    <2>2. /\ toDev' = <<cur>> /\ pc' = "rx"
          /\ UNCHANGED <<cur, expects, reply, devVars>>
        BY <1>2, <2>1 DEF AttemptTx
    <2>3. acceptedSet' = acceptedSet /\ cur \notin acceptedSet
        BY <1>0, <2>1, <2>2, AcceptedReturned
        DEF acceptedSet, Accepted, Answered, ReturnsInOrder
    <2>4. HeldFrame' /\ lastExecuted' <= cur'
        <3>1. Head(toDev') = cur
            BY <2>2
        <3>2. QED
            BY <1>0, <2>2, <2>3, <3>1 DEF HeldFrame, devVars
    <2>5. ReturnsInOrder'
        BY <1>0, <2>1, <2>2 DEF ReturnsInOrder, Returned
    <2>6. QED
        BY <2>2, <2>4, <2>5, CallStutter
<1>3. ASSUME NextAttempt, pc # "idle", UNCHANGED <<cur, expects, toDev, devVars>>
      PROVE  /\ ReturnsInOrder' /\ HeldFrame' /\ lastExecuted' <= cur'
             /\ [RC!Next]_(RC!callVars)
    <2>1. [RC!Next]_(RC!callVars) /\ ReturnsInOrder' /\ acceptedSet' = acceptedSet
        BY <1>3, AttemptEnds
    <2>2. HeldFrame' /\ lastExecuted' <= cur'
        BY <1>0, <1>3, <2>1, HeldKept DEF devVars
    <2>3. QED
        BY <2>1, <2>2
<1>4. CASE TxFails
    BY <1>3, <1>4 DEF TxFails
<1>5. CASE RxFails
    BY <1>3, <1>5 DEF RxFails, linkVars
<1>6. CASE RxAccept
    <2>1. /\ Len(rxBuf) = 1 /\ Head(rxBuf) = rxBuf[1] /\ rxBuf[1] \in Frames
          /\ toDev = <<>> /\ pc = "rx" /\ cur \in Commands
        <3>1. Len(rxBuf) = 1 /\ Head(rxBuf) = rxBuf[1] /\ rxBuf[1] \in Frames
            BY <1>0, <1>6, OneElement DEF RxAccept, PromptInv, OneFrame, TypeOK
        <3>2. toDev \in Seq(Commands) /\ Len(toDev) = 0
            BY <1>0, <3>1 DEF PromptInv, OneFrame, TypeOK
        <3>3. toDev = <<>>
            BY <3>2, EmptySeq
        <3>4. QED
            BY <1>0, <1>6, <3>1, <3>3 DEF RxAccept, TypeInv, Counted
    <2>2. /\ reply' = [reply EXCEPT ![cur] = rxBuf[1]]
          /\ pc' = "idle" /\ UNCHANGED <<cur, expects, toDev, devVars>>
        BY <1>6, <2>1 DEF RxAccept
    <2>3. rxBuf[1].from = cur /\ Truthful(rxBuf[1]) /\ rxBuf[1].type \in MsgTypes
        BY <1>0, <2>1 DEF PromptInv, CurrentFrame, TruthfulFrames, Frames
    <2>4. ~Returned(cur) /\ ~Accepted(cur) /\ Returned(cur)'
        <3>1. ~Returned(cur) /\ ~Accepted(cur)
            BY <1>0, <2>1, AcceptedReturned DEF ReturnsInOrder
        <3>2. reply'[cur] = rxBuf[1]
            BY <1>0, <2>1, <2>2 DEF TypeOK
        <3>3. QED
            BY <2>1, <2>2, <3>1, <3>2, PseudoReplies DEF Returned
    <2>5. \A c \in Commands : c # cur =>
              (Returned(c)' <=> Returned(c)) /\ (Accepted(c)' <=> Accepted(c))
        BY <1>0, <2>2 DEF TypeOK, Returned, Accepted, Answered
    <2>6. /\ returnedSet' = returnedSet \cup {cur}
          /\ cur \in Commands \ returnedSet
        BY <2>1, <2>2, <2>4, <2>5 DEF returnedSet
    <2>7. ReturnsInOrder'
        BY <1>0, <2>1, <2>2, <2>4, <2>5 DEF ReturnsInOrder
    <2>8. HeldFrame' /\ lastExecuted' <= cur'
        BY <1>0, <2>1, <2>2 DEF HeldFrame, devVars
    <2>9. CASE Accepted(cur)'
        <3>1. acceptedSet' = acceptedSet \cup {cur}
            BY <2>1, <2>2, <2>5, <2>9 DEF acceptedSet
        <3>2. cur \in executed
            <4>1. rxBuf[1].type = expects[cur] /\ expects[cur] \in Expected
                BY <1>0, <2>1, <2>2, <2>9 DEF Accepted, TypeOK
            <4>2. QED
                BY <2>3, <4>1 DEF Truthful, Expected
        <3>3. RC!ReturnAccepted
            BY <2>2, <2>6, <3>1, <3>2
            DEF RC!ReturnAccepted, returnedSet, acceptedSet, devVars
        <3>4. QED
            BY <2>7, <2>8, <3>3 DEF RC!Next
    <2>10. CASE ~Accepted(cur)'
        <3>1. acceptedSet' = acceptedSet
            BY <2>1, <2>2, <2>4, <2>5, <2>10 DEF acceptedSet
        <3>2. RC!ReturnFailed
            BY <2>2, <2>6, <3>1
            DEF RC!ReturnFailed, RC!Calls, Commands, returnedSet, acceptedSet, devVars
        <3>3. QED
            BY <2>7, <2>8, <3>2 DEF RC!Next
    <2>11. QED
        BY <2>9, <2>10
<1>7. CASE Disconnect
    BY <1>7, <1>a DEF Disconnect, hostVars
<1>8. CASE DeviceExecutes
    <2>1. /\ toDev # <<>> /\ Head(toDev) \in Commands /\ toDev' = <<>>
          /\ executed' = executed \cup {Head(toDev)} /\ lastExecuted' = Head(toDev)
          /\ UNCHANGED hostVars
        <3>1. toDev # <<>> /\ toDev' = Tail(toDev)
            BY <1>8 DEF DeviceExecutes, DeviceAnswers
        <3>2. Head(toDev) \in Commands /\ Tail(toDev) = <<>>
            BY <1>0, <3>1, HeadTailFacts, OneElement DEF TypeOK, PromptInv, OneFrame
        <3>3. QED
            BY <1>8, <3>1, <3>2 DEF DeviceExecutes
    <2>2. /\ Head(toDev) <= cur
          /\ lastExecuted <= Head(toDev)
          /\ Head(toDev) \notin acceptedSet
        BY <1>0, <2>1 DEF HeldFrame
    <2>3. returnedSet' = returnedSet /\ acceptedSet' = acceptedSet
        BY <2>1 DEF returnedSet, acceptedSet, Returned, Accepted, Answered, hostVars
    <2>4. RC!Execute(Head(toDev)) /\ Head(toDev) \in RC!Calls
        <3>1. Head(toDev) \in 1 .. cur /\ Head(toDev) >= lastExecuted
            BY <1>0, <2>1, <2>2 DEF Commands
        <3>2. QED
            BY <2>1, <2>2, <2>3, <3>1
            DEF RC!Execute, RC!Calls, Commands, returnedSet, acceptedSet, hostVars
    <2>5. HeldFrame' /\ lastExecuted' <= cur'
        BY <2>1, <2>2 DEF HeldFrame, hostVars
    <2>6. ReturnsInOrder'
        BY <1>0, <2>1 DEF ReturnsInOrder, Returned, hostVars
    <2>7. QED
        BY <2>4, <2>5, <2>6 DEF RC!Next
<1>9. CASE DeviceRefuses
    <2>1. toDev # <<>> /\ toDev' = Tail(toDev)
        BY <1>9 DEF DeviceRefuses, DeviceAnswers
    <2>2. toDev' = <<>>
        BY <1>0, <2>1, OneElement DEF TypeOK, PromptInv, OneFrame
    <2>3. QED
        BY <1>9, <1>a, <2>2 DEF DeviceRefuses, hostVars
<1>10. CASE LinkDelivers
    BY <1>10, <1>a DEF LinkDelivers, hostVars
<1>11. CASE LinkLoses
    <2>1. toDev' = toDev \/ toDev' = <<>>
        BY <1>0, <1>11, OneElement DEF LinkLoses, TypeOK, PromptInv, OneFrame
    <2>2. QED
        BY <1>11, <1>a, <2>1 DEF LinkLoses, hostVars
<1>13. CASE UNCHANGED vars
    BY <1>13, <1>a DEF vars, hostVars, linkVars
<1>14. QED
    BY <1>1, <1>2, <1>4, <1>5, <1>6, <1>7, <1>8, <1>9, <1>10, <1>11, <1>13
    DEF Next, CommThread

LEMMA CallInvariant == ASSUME ~LateReplies PROVE Spec => []CallInv
<1>1. CallInv /\ [Next]_vars => CallInv'
    BY CallStep
<1>2. QED
    BY CallInit, <1>1, PTL DEF Spec

LEMMA InitMaps == Init => RC!Init
BY PseudoReplies, ExchangeAssumption
DEF Init, RC!Init, Returned, Accepted, Answered, Commands

\* On a prompt link Device.cpp's exchanges implement module RemoteCall: a command
\* whose response was accepted has taken effect, one that failed may take effect
\* later, and no command takes effect after a later one has.
THEOREM ExchangeImplementsRemoteCall ==
    ASSUME ~LateReplies PROVE Spec => ImplementsRemoteCall
<1>1. CallInv /\ [Next]_vars => [RC!Next]_(RC!callVars)
    BY CallStep
<1>2. QED
    BY InitMaps, CallInvariant, <1>1, PTL DEF Spec, RC!Spec, ImplementsRemoteCall
===============================================================================
