------------------------------- MODULE Framing -------------------------------
(***************************************************************************)
(* The bytes of a frame: how attemptTx puts a message between START and    *)
(* END, escapes and sums it, and how attemptRx finds messages in a stream  *)
(* of bytes in which some were lost, changed or added (common/Device.cpp). *)
(* The WSPRlite frames its responses in the same format.                   *)
(*                                                                         *)
(* A symbol of the line is a sequence: of one byte, or, for a checksum,    *)
(* the bytes it sums.  So the checksum is ideal, and is one symbol where   *)
(* the program has four bytes, escaped like any others.                    *)
(***************************************************************************)
EXTENDS Naturals, SequencesExt

CONSTANTS
    Messages,      \* what is sent: records of a MsgType and a payload
    Noise,         \* bytes that a disturbance may leave on the line
    MaxSends,      \* bound: how many messages are sent
    MaxFaults      \* bound: disturbances, time-outs and dropped bytes

START == 1
END == 4
ESC == 16
Byte == 0 .. 255

\* device/MsgType.hpp has no type above 20.
ASSUME FramingAssumption ==
    /\ Messages \subseteq [type : 0 .. 20, data : Seq(Byte)]
    /\ Noise \subseteq Byte
    /\ MaxSends \in Nat /\ MaxFaults \in Nat

VARIABLES
    line,          \* the symbols that attemptRx has still to see
    rx,            \* attemptRx's local variables
    sent,          \* the messages sent
    accepted,      \* the messages that attemptRx has returned
    faults

frameVars == <<line, rx, sent, accepted, faults>>

-----------------------------------------------------------------------------
(* Sending.                                                                *)

Summed(type, data) == <<type % 256, type \div 256>> \o data

\* Mutant: END is not escaped.
Escaped_NotEnd(c) == IF c \in {START, ESC} THEN <<<<ESC>>, <<c + 128>>>> ELSE <<<<c>>>>

Escaped(c) == IF c \in {START, END, ESC} THEN <<<<ESC>>, <<c + 128>>>> ELSE <<<<c>>>>

Frame(m) ==
    LET summed == Summed(m.type, m.data)
    IN  <<<<START>>>> \o FlattenSeq([i \in DOMAIN summed |-> Escaped(summed[i])])
            \o <<summed>> \o <<<<END>>>>

-----------------------------------------------------------------------------
(* Receiving.                                                              *)

\* WaitForStart with the variables as attemptRx initialises them.  The last symbol
\* of rxMsg.data, its last four bytes if that is a checksum, is kept apart as sum.
Waiting == [state |-> "WaitForStart", i |-> 0, type |-> 0, data |-> <<>>, sum |-> <<>>]
Started == [Waiting EXCEPT !.state = "RxMsg"]

\* The bitwise or of two numbers of nine bits.
BitOr(a, b) ==
    LET bit(w) == IF (a \div w) % 2 = 1 \/ (b \div w) % 2 = 1 THEN w ELSE 0
    IN  bit(1) + bit(2) + bit(4) + bit(8) + bit(16) + bit(32) + bit(64) + bit(128)
            + bit(256)

\* The high byte of the type is shifted by 1: types above 255 are not got back.
Store(r, s) ==
    IF r.i < 2
    THEN [r EXCEPT !.i = @ + 1,
                   !.type = BitOr(@, IF r.i = 0 THEN s[1] ELSE 2 * s[1])]
    ELSE [r EXCEPT !.i = @ + 1, !.data = @ \o r.sum, !.sum = s]

\* An escaped symbol below 0x80, or a checksum whose first byte has been changed
\* by a stray ESC before it, is left out.
Unescaped(r, s) ==
    LET plain == [r EXCEPT !.state = "RxMsg"]
    IN  IF Len(s) = 1 /\ s[1] >= 128 THEN Store(plain, <<s[1] - 128>>) ELSE plain

\* Mutant: the checksum is not looked at.
Complete_AnySum(r) == r.i >= 2 /\ r.sum # <<>>

Complete(r) == r.i >= 2 /\ r.sum = Summed(r.type, r.data)

\* Mutant: a START inside a message does not begin a new one.
RxSymbol_NoRestart(r, s) ==
    CASE r.state = "WaitForStart" -> IF s = <<START>> THEN Started ELSE r
      [] r.state = "RxMsgEscaped" -> Unescaped(r, s)
      [] r.state = "RxMsg" /\ s = <<ESC>> -> [r EXCEPT !.state = "RxMsgEscaped"]
      [] r.state = "RxMsg" /\ s = <<END>> -> [r EXCEPT !.state = "WaitForStart"]
      [] OTHER -> Store(r, s)

\* One turn of the loop over the bytes that were read, END's verdict apart.
RxSymbol(r, s) ==
    CASE r.state = "WaitForStart" -> IF s = <<START>> THEN Started ELSE r
      [] r.state = "RxMsgEscaped" -> Unescaped(r, s)
      [] r.state = "RxMsg" /\ s = <<ESC>> -> [r EXCEPT !.state = "RxMsgEscaped"]
      [] r.state = "RxMsg" /\ s = <<END>> -> [r EXCEPT !.state = "WaitForStart"]
      [] r.state = "RxMsg" /\ s = <<START>> -> Started
      [] OTHER -> Store(r, s)

Accepts(r, s) == r.state = "RxMsg" /\ s = <<END>> /\ Complete(r)

-----------------------------------------------------------------------------
FramesInit ==
    /\ line = <<>> /\ rx = Waiting /\ sent = <<>> /\ accepted = <<>> /\ faults = 0

Send(m) ==
    /\ Len(sent) < MaxSends
    /\ sent' = Append(sent, m)
    /\ line' = line \o Frame(m)
    /\ UNCHANGED <<rx, accepted, faults>>

\* A message ends the call: the next one starts anew, and whatever else the call
\* had read from the port, the first dropped symbols of the line, is gone.
Receive(dropped) ==
    /\ line # <<>>
    /\ IF Accepts(rx, Head(line))
       THEN /\ dropped < Len(line)
            /\ faults' = faults + (IF dropped = 0 THEN 0 ELSE 1)
            /\ accepted' = Append(accepted, [type |-> rx.type, data |-> rx.data])
            /\ rx' = Waiting
       ELSE /\ dropped = 0
            /\ rx' = RxSymbol(rx, Head(line))
            /\ UNCHANGED <<accepted, faults>>
    /\ faults' <= MaxFaults
    /\ line' = SubSeq(line, dropped + 2, Len(line))
    /\ UNCHANGED sent

Disturb(l) ==
    /\ faults < MaxFaults
    /\ faults' = faults + 1
    /\ line' = l
    /\ UNCHANGED <<rx, sent, accepted>>

Lose(i) == Disturb(RemoveAt(line, i))
Change(i, c) == Len(line[i]) = 1 /\ line[i] # <<c>> /\ Disturb([line EXCEPT ![i] = <<c>>])
Insert(i, c) == Disturb(InsertAt(line, i, <<c>>))

\* The attempt ends without a message; the next one begins at WaitForStart.
TimeOut ==
    /\ faults < MaxFaults /\ rx # Waiting
    /\ faults' = faults + 1
    /\ rx' = Waiting
    /\ UNCHANGED <<line, sent, accepted>>

FramesNext ==
    \/ \E m \in Messages : Send(m)
    \/ \E dropped \in 0 .. Len(line) : Receive(dropped)
    \/ \E i \in DOMAIN line : Lose(i)
    \/ \E i \in DOMAIN line, c \in Noise : Change(i, c)
    \/ \E i \in DOMAIN line, c \in Noise : Insert(i, c)
    \/ TimeOut

FramesSpec == FramesInit /\ [][FramesNext]_frameVars

-----------------------------------------------------------------------------
(* Properties.                                                             *)

\* s can be got from t by leaving elements out.
IsSubSeq(s, t) ==
    \E f \in [DOMAIN s -> DOMAIN t] :
        /\ \A i, j \in DOMAIN s : i < j => f[i] < f[j]
        /\ \A i \in DOMAIN s : s[i] = t[f[i]]

\* Whatever happens to the bytes, attemptRx returns nothing but messages that
\* were sent, each at most once and in their order (Device.cpp:151-172).
NothingInvented == IsSubSeq(accepted, sent)

\* Without a disturbance every message arrives, whatever bytes it holds and
\* however the port cuts the stream up (Device.cpp:58-80 against 124-191).
RoundTrip == faults = 0 /\ line = <<>> => accepted = sent

\* attemptRx after the symbols of s, none of which ends a complete message.
After(r, s) ==
    LET after[n \in 0 .. Len(s)] == IF n = 0 THEN r ELSE RxSymbol(after[n - 1], s[n])
    IN  after[Len(s)]

\* From whatever state noise has left attemptRx in, the next frame that comes
\* whole is accepted; only an ESC just before it can hide its START
\* (Device.cpp:139-144, 175-181).
Resynchronises ==
    rx.state # "RxMsgEscaped" =>
        \A m \in Messages :
            LET r == After(rx, Front(Frame(m)))
            IN  Accepts(r, <<END>>) /\ r.type = m.type /\ r.data = m.data

=============================================================================
