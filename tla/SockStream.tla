----------------------------- MODULE SockStream -----------------------------
(***************************************************************************)
(* One direction of a connection of the network link, as sockstream.c      *)
(* buffers it: ss_printf and ss_flush on one side, ss_gets on the other.   *)
(* NetLink takes it for a queue of lines.  The socket takes and gives any  *)
(* number of characters at a time; a character is a letter or "nl".        *)
(***************************************************************************)
EXTENDS Integers, Sequences, SequencesExt

CONSTANTS
    Buf,        \* BUFSIZ
    Socket,     \* what the socket holds before send blocks
    Messages,   \* what is printed: the outputs of one format
    Prints,     \* how many are
    Longest,    \* the longest line of either side: eight bytes and what is around
    VaList      \* "copied", where a va_list that was used can be used again,
                \* or "consumed": the standard leaves that open

ASSUME StreamAssumption ==
    /\ Buf \in Nat \ {0} /\ Socket \in Nat /\ Prints \in Nat /\ Longest \in Nat
    /\ \A m \in Messages : m \in Seq(Range(m))

VARIABLES
    txbuff, wire, rxbuff,
    sender,     \* what the sender does: "idle", "flush", "full" (ss_flush from
                \* ss_printf), "failed" (-1 was returned)
    msg,        \* the message that did not fit
    receiver,   \* "idle", "gets" or "failed" (NULL was returned)
    text,       \* what ss_gets has copied
    broken,     \* the connection is gone
    printed,    \* the messages for which ss_printf returned 0
    received    \* the lines that ss_gets returned

sending == <<txbuff, sender, msg, printed>>
receiving == <<rxbuff, receiver, text, received>>
streamVars == <<txbuff, wire, rxbuff, sender, msg, receiver, text, broken, printed, received>>

\* Mutant: the terminating null of vsnprintf is forgotten.
FitsExactly(m, n) == Len(m) <= n

Fits(m, n) == Len(m) < n

\* The line being printed, with s at its end.
LastLine(s) == LET c == FlattenSeq(printed) \o s
                   nl == SelectLastInSeq(SubSeq(c, 1, Len(c) - 1), LAMBDA x : x = "nl")
               IN  SubSeq(c, nl + 1, Len(c))

Printf(m) ==
    /\ sender = "idle" /\ Len(printed) < Prints
    /\ \A n \in 1 .. Len(m) : Len(LastLine(SubSeq(m, 1, n))) <= Longest
    /\ \/ /\ Fits(m, Buf - Len(txbuff))
          /\ txbuff' = txbuff \o m
          /\ printed' = Append(printed, m)
          /\ UNCHANGED <<sender, msg>>
       \/ /\ ~Fits(m, Buf - Len(txbuff))
          /\ sender' = "full" /\ msg' = m
          /\ UNCHANGED <<txbuff, printed>>
    /\ UNCHANGED <<wire, broken, receiving>>

SsFlush ==
    /\ sender = "idle"
    /\ sender' = "flush"
    /\ UNCHANGED <<txbuff, msg, printed, wire, broken, receiving>>

\* Mutant: what send did not take is not moved to the front.
SsSendUnmoved ==
    /\ sender \in {"flush", "full"} /\ ~broken
    /\ \E k \in 1 .. Len(txbuff) :
        /\ Len(wire) + k <= Socket
        /\ wire' = wire \o SubSeq(txbuff, 1, k)
        /\ txbuff' = SubSeq(txbuff, 1, Len(txbuff) - k)
    /\ UNCHANGED <<sender, msg, printed, broken, receiving>>

SsSend ==
    /\ sender \in {"flush", "full"} /\ ~broken
    /\ \E k \in 1 .. Len(txbuff) :
        /\ Len(wire) + k <= Socket
        /\ wire' = wire \o SubSeq(txbuff, 1, k)
        /\ txbuff' = SubSeq(txbuff, k + 1, Len(txbuff))
    /\ UNCHANGED <<sender, msg, printed, broken, receiving>>

SendFails ==
    /\ sender \in {"flush", "full"} /\ broken /\ txbuff # <<>>
    /\ sender' = "failed"
    /\ UNCHANGED <<txbuff, msg, printed, wire, broken, receiving>>

\* What the second vsnprintf makes of the message.
Reformatted(m) == IF VaList = "copied" THEN {m} ELSE {n \in Messages : Len(n) = Len(m)}

\* ss_flush has sent all.  ss_printf formats again; what is still too long is
\* dropped, and 0 returned.
Flushed ==
    /\ sender \in {"flush", "full"} /\ txbuff = <<>>
    /\ sender' = "idle" /\ msg' = <<>>
    /\ \/ sender = "flush" /\ UNCHANGED <<txbuff, printed>>
       \/ /\ sender = "full"
          /\ \E m \in Reformatted(msg) : txbuff' = IF Fits(m, Buf) THEN m ELSE <<>>
          /\ printed' = Append(printed, msg)
    /\ UNCHANGED <<wire, broken, receiving>>

Gets ==
    /\ receiver = "idle"
    /\ receiver' = "gets" /\ text' = <<>>
    /\ UNCHANGED <<rxbuff, received, wire, broken, sending>>

Recv ==
    /\ receiver = "gets" /\ rxbuff = <<>>
    /\ \E k \in 1 .. Len(wire) :
        /\ k <= Buf
        /\ rxbuff' = SubSeq(wire, 1, k)
        /\ wire' = SubSeq(wire, k + 1, Len(wire))
    /\ UNCHANGED <<receiver, text, received, broken, sending>>

\* Mutant: the rest of what was received is dropped with the line.
CopyClears ==
    /\ receiver = "gets" /\ rxbuff # <<>>
    /\ LET nl == SelectInSeq(rxbuff, LAMBDA c : c = "nl")
           cnt == IF nl # 0 THEN nl ELSE Len(rxbuff)
       IN  /\ text' = text \o SubSeq(rxbuff, 1, cnt)
           /\ rxbuff' = <<>>
           /\ IF nl # 0 \/ Len(text') >= Buf
              THEN receiver' = "idle" /\ received' = Append(received, text')
              ELSE UNCHANGED <<receiver, received>>
    /\ UNCHANGED <<wire, broken, sending>>

\* Mutant: all that was received goes into the line.
CopyAll ==
    /\ receiver = "gets" /\ rxbuff # <<>>
    /\ text' = text \o rxbuff /\ rxbuff' = <<>>
    /\ IF Contains(rxbuff, "nl") \/ Len(text') >= Buf
       THEN receiver' = "idle" /\ received' = Append(received, text')
       ELSE UNCHANGED <<receiver, received>>
    /\ UNCHANGED <<wire, broken, sending>>

\* ss_gets copies up to the newline or all that has come; the caller has room
\* for Buf characters, which is compared after the copy.
Copy ==
    /\ receiver = "gets" /\ rxbuff # <<>>
    /\ LET nl == SelectInSeq(rxbuff, LAMBDA c : c = "nl")
           cnt == IF nl # 0 THEN nl ELSE Len(rxbuff)
       IN  /\ text' = text \o SubSeq(rxbuff, 1, cnt)
           /\ rxbuff' = SubSeq(rxbuff, cnt + 1, Len(rxbuff))
           /\ IF nl # 0 \/ Len(text') >= Buf
              THEN receiver' = "idle" /\ received' = Append(received, text')
              ELSE UNCHANGED <<receiver, received>>
    /\ UNCHANGED <<wire, broken, sending>>

RecvEnds ==
    /\ receiver = "gets" /\ rxbuff = <<>> /\ wire = <<>> /\ broken
    /\ receiver' = "failed"
    /\ UNCHANGED <<rxbuff, text, received, wire, broken, sending>>

\* The connection is lost, with some of what was under way.
Breaks ==
    /\ ~broken /\ broken' = TRUE
    /\ \E k \in 0 .. Len(wire) : wire' = SubSeq(wire, 1, k)
    /\ UNCHANGED <<sending, receiving>>

StreamInit ==
    /\ txbuff = <<>> /\ wire = <<>> /\ rxbuff = <<>>
    /\ sender = "idle" /\ msg = <<>>
    /\ receiver = "idle" /\ text = <<>>
    /\ broken = FALSE
    /\ printed = <<>> /\ received = <<>>

Receiver == Gets \/ Recv \/ Copy \/ RecvEnds

StreamNext ==
    \/ \E m \in Messages : Printf(m)
    \/ SsFlush \/ SsSend \/ SendFails \/ Flushed \/ Receiver \/ Breaks

\* Both sides run; every request and every answer ends with a flush.
StreamFairness == WF_streamVars(SsSend \/ SendFails \/ Flushed) /\ SF_streamVars(SsFlush) /\ WF_streamVars(Receiver)

StreamSpec == StreamInit /\ [][StreamNext]_streamVars /\ StreamFairness

-----------------------------------------------------------------------------

Char == UNION {Range(m) : m \in Messages}

StreamTypeOK ==
    /\ txbuff \in Seq(Char) /\ Len(txbuff) < Buf
    /\ wire \in Seq(Char) /\ Len(wire) <= Socket
    /\ rxbuff \in Seq(Char) /\ Len(rxbuff) <= Buf
    /\ sender \in {"idle", "flush", "full", "failed"} /\ msg \in Messages \cup {<<>>}
    /\ receiver \in {"idle", "gets", "failed"} /\ text \in Seq(Char)
    /\ broken \in BOOLEAN

\* What was printed is what is received, in order and once, wherever sends and
\* receives cut it, and whenever the output buffer gets full: nothing is lost
\* but the end of it with the connection (it follows from ImplementsQueue).
LinesArrive ==
    LET arrived == FlattenSeq(received) \o (IF receiver = "idle" THEN <<>> ELSE text) \o rxbuff \o wire IN
    IF broken THEN IsPrefix(arrived, FlattenSeq(printed))
    ELSE arrived \o txbuff = FlattenSeq(printed)

\* ss_gets never copies past the end of its caller's buffer, although it looks
\* at the room that is left only after it has copied.
NoOverrun == Len(text) <= Buf

-----------------------------------------------------------------------------
(* The implementation of LineQueue.                                        *)

\* Once the connection is gone, what the sender still has goes nowhere.
Queue == INSTANCE LineQueue WITH
    Room <- Buf,
    queue <- (IF receiver = "idle" THEN <<>> ELSE text) \o rxbuff \o wire \o (IF broken THEN <<>> ELSE txbuff),
    lost <- broken,
    lines <- received

\* Both buffers and the socket are one queue of whole messages, from which ss_gets
\* takes one whole line after the other, wherever sends, receives and a full
\* buffer cut them; NetLink takes each direction for such a queue.
ImplementsQueue == Queue!Spec

-----------------------------------------------------------------------------

\* All that was printed comes out on the other side or the connection is lost.
AllArrives ==
    \A k \in 1 .. Prints : Len(printed) >= k ~>
        broken \/ /\ Len(printed) >= k
                  /\ Len(FlattenSeq(received) \o text) >= Len(FlattenSeq(SubSeq(printed, 1, k)))
=============================================================================
