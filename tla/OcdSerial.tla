----------------------------- MODULE OcdSerial ------------------------------
(***************************************************************************)
(* The serial link to the on-chip debugger, byte by byte: ocd_serial.cpp   *)
(* over the unix half of serialport.cpp.                                   *)
(*                                                                         *)
(* Transmit and receive lines are tied together, so the host reads back    *)
(* all it sends, and only knows from there that nothing of the device came *)
(* between.  The tty driver reports a break as ff 00 00, a framing error   *)
(* as ff 00 and the byte, and doubles the byte ff.                         *)
(***************************************************************************)
EXTENDS Integers, Sequences, SequencesExt

CONSTANTS
    Jobs,       \* the commands of ez8ocd, and "ack" for rd_ack
    Answers,    \* what the device may answer
    Events,     \* how often the line may be disturbed
    Faults      \* what may happen: "noise" (a framing error), "late" (an answer
                \* after the timeout), "lose" (characters of an answer are lost), "write"
                \* (the driver fails to send), "split" (noise between two writes of one
                \* command, too)

VARIABLES
    dev,        \* device: "deaf" until the autobaud character, "ready", or in
                \* the middle of a command ("arg")
    running,    \* device: its program runs
    owed,       \* device: what it has yet to send
    tx, rx,     \* the buffers of the tty driver
    ahead,      \* serialport::rxbuff, the first len bytes of it
    up,         \* ocd_serial::up
    pc,         \* what the host does next
    calls,      \* the buffers of the calls of write in progress, innermost first
    got, esc,   \* the locals of serialport::read: what was read, and its state
    job,        \* the command in progress
    last,       \* the command whose bytes may still reach the device
    ran,        \* what the device has executed since it was begun
    answer,     \* what the device answered since then
    events      \* the disturbances so far

line == <<tx, rx>>
device == <<dev, running, owed, ran, answer>>
local == <<pc, calls, got, esc, job, last>>
vars == <<dev, running, owed, tx, rx, ahead, up, pc, calls, got, esc, job, last, ran, answer, events>>

\* The bytes that matter: ff and 00 escape, the others are commands or data.
Byte == {"ff", "00", "rd", "wr", "go", "sync"}

\* name: the command; fresh: it calls new_command; writes: its calls of write;
\* size: the length of the answer that it reads.
NoJob == [name |-> "none", fresh |-> FALSE, writes |-> <<>>, size |-> 0]

\* Commands read an answer, start the program, or write an operand, at once or
\* after the rest; and rd_ack, which sends nothing.
ASSUME SerialAssumption ==
    /\ Events \in Nat
    /\ \A a \in Answers : a \in Seq(Byte) /\ a # <<>>
    /\ \A j \in Jobs :
        /\ j = [name |-> j.name, fresh |-> j.fresh, writes |-> j.writes, size |-> j.size]
        /\ j.fresh \in BOOLEAN /\ j.name \notin {"none", "reset", "nothing", "garbled"}
        /\ \/ j.name = "ack" /\ ~j.fresh /\ j.writes = <<>> /\ j.size = 1
           \/ /\ j.name # "ack" /\ j.writes = <<<<"rd">>>>
              /\ j.size \in Nat \ {0} /\ \A a \in Answers : Len(a) = j.size
           \/ j.name # "ack" /\ j.writes = <<<<"go">>>> /\ j.size = 0
           \/ /\ j.name # "ack" /\ j.size = 0
              /\ \E b \in Byte : j.writes \in {<<<<"wr", b>>>>, <<<<"wr">>, <<b>>>>}
    /\ \A i, j \in Jobs : i.name = j.name => i = j

Escaped(b) == IF b = "ff" THEN <<"ff", "ff">> ELSE <<b>>
Break == <<"ff", "00", "00">>
Framing == <<"ff", "00", "wr">>

-----------------------------------------------------------------------------
(* The device and the line.                                                *)

Executes(c) == ran' = Append(ran, c)

\* One byte reaches the device.  A byte that is no command is ignored.
Receive(b) ==
    \/ /\ dev = "deaf"
       /\ dev' = IF b = "sync" THEN "ready" ELSE "deaf"
       /\ UNCHANGED <<running, owed, ran, answer>>
    \/ /\ dev = "ready" /\ b = "rd"
       /\ Executes(<<b>>)
       /\ answer' \in Answers /\ owed' = owed \o answer'
       /\ UNCHANGED <<dev, running>>
    \/ /\ dev = "ready" /\ b = "go"
       /\ Executes(<<b>>) /\ running' = TRUE
       /\ UNCHANGED <<dev, owed, answer>>
    \/ /\ dev = "ready" /\ b = "wr"
       /\ dev' = "arg"
       /\ UNCHANGED <<running, owed, ran, answer>>
    \/ dev = "ready" /\ b \notin {"rd", "go", "wr"} /\ UNCHANGED device
    \/ /\ dev = "arg"
       /\ Executes(<<"wr", b>>) /\ dev' = "ready"
       /\ UNCHANGED <<running, owed, answer>>

Transmit ==
    /\ tx # <<>>
    /\ tx' = Tail(tx)
    /\ rx' = rx \o Escaped(Head(tx))
    /\ Receive(Head(tx))
    /\ UNCHANGED <<ahead, up, local, events>>

DeviceSends ==
    /\ owed # <<>>
    /\ owed' = Tail(owed)
    /\ rx' = rx \o Escaped(Head(owed))
    /\ UNCHANGED <<dev, running, tx, ahead, up, local, ran, answer, events>>

Disturbance == events < Events /\ events' = events + 1

\* The program meets a breakpoint: the device stops and sends an acknowledge.
\* It does so between commands.
Acknowledge ==
    /\ Disturbance
    /\ running /\ dev = "ready" /\ owed = <<>>
    /\ running' = FALSE
    /\ rx' = rx \o Escaped("ff")
    /\ UNCHANGED <<dev, owed, tx, ahead, up, local, ran, answer>>

\* The program switches the clock: the device sends a break and waits for the
\* autobaud character.
ClockSwitch ==
    /\ Disturbance
    /\ running
    /\ dev' = "deaf" /\ owed' = <<>>
    /\ rx' = rx \o Break
    /\ UNCHANGED <<running, tx, ahead, up, local, ran, answer>>

Noise ==
    /\ Disturbance
    /\ "noise" \in Faults
    /\ dev = "arg" /\ tx = <<>> => "split" \in Faults
    /\ rx' = rx \o Framing
    /\ UNCHANGED <<device, tx, ahead, up, local>>

\* Not with an acknowledge in their place: nothing tells that from an answer.
Lose ==
    /\ Disturbance
    /\ "lose" \in Faults /\ ~running
    /\ owed # <<>> /\ owed' = Tail(owed)
    /\ UNCHANGED <<dev, running, line, ahead, up, local, ran, answer>>

-----------------------------------------------------------------------------
(* serialport: peeking and reading.                                        *)

Available == rx # <<>>

\* What error() reads: one byte, another after ff, a third after ff 00.
Peeked ==
    IF Head(rx) # "ff" THEN SubSeq(rx, 1, 1)
    ELSE IF rx[2] # "00" THEN SubSeq(rx, 1, 2) ELSE SubSeq(rx, 1, 3)

\* serialport::error().  It reads from the driver into rxbuff from its start
\* whatever is there, and adds to len: with bytes read ahead before, those
\* are overwritten, and len then counts bytes that were never read.
Peek(isError) ==
    \/ ~Available /\ ~isError /\ UNCHANGED <<rx, ahead>>
    \/ /\ Available
       /\ isError <=> Len(Peeked) = 3
       /\ rx' = SubSeq(rx, Len(Peeked) + 1, Len(rx))
       /\ \E old \in [1 .. Len(ahead) -> Byte] :
            ahead' = [i \in 1 .. Len(ahead) + Len(Peeked) |->
                        IF i <= Len(Peeked) THEN Peeked[i]
                        ELSE IF i <= Len(ahead) THEN ahead[i]
                        ELSE old[i - Len(Peeked)]]

\* One byte in the state machine of read.
Scan(s, b) ==
    CASE s.esc = "normal" /\ b = "ff" -> [s EXCEPT !.esc = "escape"]
      [] s.esc = "normal" /\ b # "ff" -> [s EXCEPT !.got = Append(@, b)]
      [] s.esc = "escape" /\ b = "ff" -> [got |-> Append(s.got, b), esc |-> "normal"]
      [] s.esc = "escape" /\ b = "00" -> [s EXCEPT !.esc = "error"]
      [] s.esc = "escape" /\ b \notin {"ff", "00"} -> [s EXCEPT !.esc = "abort"]
      [] s.esc = "error" -> [s EXCEPT !.esc = "thrown"]
      [] OTHER -> s

Reading == pc \in {"verify", "read"} /\ esc # "abort"
Size == IF pc = "verify" THEN Len(Head(calls)) ELSE job.size

Leave == pc' = "idle" /\ job' = NoJob /\ calls' = <<>> /\ got' = <<>> /\ esc' = "normal"
Forget == last' = "nothing" /\ ran' = <<>> /\ answer' = <<>>
Done == Leave /\ Forget

\* Every exception of a read or a write takes the link down.
Throw == up' = FALSE /\ Leave /\ UNCHANGED <<last, ran, answer>>

\* A number of them, one after the other; after a throw, the rest is lost.
Scanned(s, bytes) ==
    LET f[i \in 0 .. Len(bytes)] == IF i = 0 THEN s ELSE Scan(f[i - 1], bytes[i])
    IN  f[Len(bytes)]

\* What count = ::read(fdes, dst, size) gives: one byte read ahead, or some of
\* what the driver has.
Chunk ==
    /\ Reading /\ Len(got) < Size /\ esc # "thrown"
    /\ LET next == IF ahead # <<>> THEN ahead ELSE rx IN
       \E k \in 1 .. IF ahead # <<>> THEN 1 ELSE Len(rx) :
          /\ k <= Size - Len(got)
          /\ LET s == Scanned([got |-> got, esc |-> esc], SubSeq(next, 1, k)) IN
                got' = s.got /\ esc' = s.esc
          /\ IF ahead # <<>> THEN ahead' = Tail(ahead) /\ rx' = rx
             ELSE ahead' = ahead /\ rx' = SubSeq(rx, k + 1, Len(rx))
    /\ UNCHANGED <<device, tx, up, pc, calls, job, last, events>>

Interrupted == Reading /\ esc = "thrown" /\ Throw /\ UNCHANGED <<dev, running, owed, line, ahead, events>>

\* Mutant: read waits until it has all it was asked for.
TimeoutNever == FALSE /\ UNCHANGED vars

\* Nothing comes any more; or not in time.
Timeout ==
    /\ Reading /\ Len(got) < Size /\ esc # "thrown"
    /\ ahead = <<>> /\ line = <<<<>>, <<>>>>
    /\ \/ owed = <<>> /\ UNCHANGED events
       \/ owed # <<>> /\ "late" \in Faults /\ Disturbance
    /\ IF esc = "normal" THEN Throw
       ELSE esc' = "abort" /\ UNCHANGED <<up, pc, calls, got, job, last, ran, answer>>
    /\ UNCHANGED <<dev, running, owed, line, ahead>>

-----------------------------------------------------------------------------
(* ocd_serial: write, read and reset; new_command.                         *)

\* What comes after a write, or after new_command: the next write of the
\* command, its answer, or its end.
Continue ==
    \/ /\ job.writes # <<>>
       /\ calls' = <<Head(job.writes)>> /\ job' = [job EXCEPT !.writes = Tail(@)]
       /\ pc' = "peek" /\ got' = <<>> /\ esc' = "normal" /\ UNCHANGED <<last, ran, answer>>
    \/ /\ job.writes = <<>> /\ job.size > 0
       /\ pc' = "read" /\ calls' = <<>> /\ got' = <<>> /\ esc' = "normal"
       /\ UNCHANGED <<job, last, ran, answer>>
    \/ job.writes = <<>> /\ job.size = 0 /\ Done

\* A command is begun on a link that is up; one that would run or write to the
\* device in several pieces only when it is stopped (ez8dbg::state).
Begin(j) ==
    /\ pc = "idle" /\ up
    /\ j.name = "ack" => Available
    /\ Len(j.writes) > 1 \/ j.name = "go" => ~running
    /\ job' = j
    /\ last' = IF j.name = "ack" THEN last ELSE j.name
    /\ pc' = IF j.fresh THEN "new" ELSE IF j.writes # <<>> THEN "start" ELSE "read"
    /\ UNCHANGED <<device, line, ahead, up, calls, got, esc, events>>

NewCommand ==
    /\ pc = "new"
    /\ \/ Peek(FALSE) /\ Continue
       \/ Peek(TRUE) /\ pc' = "flush" /\ UNCHANGED <<calls, got, esc, job, last, ran, answer>>
    /\ UNCHANGED <<dev, running, owed, tx, up, events>>

Start == pc = "start" /\ Continue /\ UNCHANGED <<dev, running, owed, line, ahead, up, events>>

\* write: a disturbance of the line is cleared by a reset first.
PeekFirst ==
    /\ pc = "peek"
    /\ \/ Peek(FALSE) /\ pc' = "send"
       \/ Peek(TRUE) /\ pc' = "flush"
    /\ UNCHANGED <<device, tx, up, calls, got, esc, job, last, events>>

Send ==
    /\ pc = "send"
    /\ \/ /\ tx' = tx \o Head(calls)
          /\ pc' = "verify" /\ got' = <<>> /\ esc' = "normal"
          /\ UNCHANGED <<up, calls, job, last, ran, answer, events>>
       \/ /\ "write" \in Faults /\ Disturbance
          /\ \E k \in 0 .. Len(Head(calls)) - 1 : tx' = tx \o SubSeq(Head(calls), 1, k)
          /\ Throw
    /\ UNCHANGED <<dev, running, owed, rx, ahead>>

\* Mutant: what is read back is not compared.
VerifiedUnseen ==
    /\ pc = "verify" /\ Len(got) = Size
    /\ \/ /\ Len(calls) > 1
          /\ calls' = Tail(calls) /\ pc' = "send"
          /\ UNCHANGED <<up, got, esc, job, last, ran, answer>>
       \/ Len(calls) = 1 /\ Continue /\ up' = up
    /\ UNCHANGED <<dev, running, owed, line, ahead, events>>

\* All was read back.  A write of reset returns to the write that reset.
Verified ==
    /\ pc = "verify" /\ Len(got) = Size
    /\ \/ got # Head(calls) /\ Throw
       \/ /\ got = Head(calls) /\ Len(calls) > 1
          /\ calls' = Tail(calls) /\ pc' = "send"
          /\ UNCHANGED <<up, got, esc, job, last, ran, answer>>
       \/ got = Head(calls) /\ Len(calls) = 1 /\ Continue /\ up' = up
    /\ UNCHANGED <<dev, running, owed, line, ahead, events>>

\* read has its answer; rd_ack throws at any byte but ff, and leaves the link.
Received ==
    /\ pc = "read" /\ Len(got) = Size
    /\ Done
    /\ UNCHANGED <<dev, running, owed, line, ahead, up, events>>

Reset ==
    /\ pc = "idle"
    /\ job' = [NoJob EXCEPT !.name = "reset"]
    /\ pc' = "flush"
    /\ UNCHANGED <<device, line, ahead, up, calls, got, esc, last, events>>

Flush == tx' = <<>> /\ rx' = <<>> /\ ahead' = <<>>

ResetFlush ==
    /\ pc = "flush"
    /\ up' = FALSE
    /\ Flush
    /\ pc' = "break"
    /\ UNCHANGED <<device, calls, got, esc, job, last, events>>

\* The host reads its own break, too.
ResetBreak ==
    /\ pc = "break"
    /\ dev' = "deaf" /\ owed' = <<>>
    /\ rx' = rx \o Break
    /\ pc' = "flush_again"
    /\ IF job.name = "reset" THEN Forget ELSE UNCHANGED <<last, ran, answer>>
    /\ UNCHANGED <<running, tx, ahead, up, calls, got, esc, job, events>>

\* The autobaud character is sent by write, which may find a disturbance and
\* reset again.
ResetUp ==
    /\ pc = "flush_again"
    /\ Flush
    /\ up' = TRUE
    /\ calls' = <<<<"sync">>>> \o calls
    /\ pc' = "peek"
    /\ UNCHANGED <<device, got, esc, job, last, events>>

-----------------------------------------------------------------------------

Init ==
    /\ dev = "deaf" /\ running \in BOOLEAN /\ owed = <<>>
    /\ tx = <<>> /\ rx = <<>> /\ ahead = <<>>
    /\ up = FALSE /\ pc = "idle"
    /\ calls = <<>> /\ got = <<>> /\ esc = "normal" /\ job = NoJob
    /\ last = "nothing" /\ ran = <<>> /\ answer = <<>>
    /\ events = 0

Host ==
    \/ NewCommand \/ Start \/ PeekFirst \/ Send \/ Chunk \/ Interrupted \/ Timeout
    \/ Verified \/ Received \/ ResetFlush \/ ResetBreak \/ ResetUp

Line == Transmit \/ DeviceSends

Next == (\E j \in Jobs : Begin(j)) \/ Reset \/ Host \/ Line \/ Acknowledge \/ ClockSwitch \/ Noise \/ Lose

\* The host runs, and what was sent arrives.
Fairness == WF_vars(Host) /\ WF_vars(Line)

Spec == Init /\ [][Next]_vars /\ Fairness

-----------------------------------------------------------------------------

\* Well formed; and the "abort" of read, where it calls abort(), is never met:
\* no escape is cut short or unknown, whatever error() has read ahead before.
TypeOK ==
    /\ dev \in {"deaf", "ready", "arg"} /\ running \in BOOLEAN
    /\ owed \in Seq(Byte) /\ tx \in Seq(Byte) /\ rx \in Seq(Byte) /\ ahead \in Seq(Byte)
    /\ up \in BOOLEAN
    /\ pc \in {"idle", "start", "new", "peek", "send", "verify", "read", "flush", "break", "flush_again"}
    /\ \A i \in DOMAIN calls : calls[i] \in Seq(Byte)
    /\ got \in Seq(Byte)
    /\ esc \in {"normal", "escape", "error", "thrown"}
    /\ events \in 0 .. Events

\* A link that is up and idle is one that the device listens on, from the
\* start of a command, or a disturbance is waiting to be found.
UpIsListening ==
    pc = "idle" /\ up => dev = "ready" \/ Break[2] \in {rx[i] : i \in DOMAIN rx}

\* Every call returns.
CallsReturn == [](pc # "idle" => <>(pc = "idle"))

\* rd_ack that returns tells of a device that has stopped: no acknowledge of
\* an earlier stop is left for it.
AckIsStop == pc = "read" /\ job.name = "ack" /\ got = <<"ff">> => ~running

-----------------------------------------------------------------------------
(* The implementation of OcdLink.                                          *)

Whole(name) == FlattenSeq((CHOOSE j \in Jobs : j.name = name).writes)

\* The device has done something else than it was asked, or read is about to
\* return something else than the answer.
Garbled ==
    \/ ran # <<>> /\ (last = "nothing" \/ ran # <<Whole(last)>>)
    \/ pc = "read" /\ job.name # "ack" /\ Len(got) = Size /\ got # answer

Link == INSTANCE OcdLink WITH
    Commands <- {j.name : j \in Jobs} \ {"ack"},
    Answers <- Answers,
    None <- "nothing",
    asked <- IF Garbled THEN "garbled" ELSE last,
    waiting <- job.name \notin {"none", "reset", "ack"},
    ran <- ran # <<>>,
    answer <- IF answer = <<>> THEN "nothing" ELSE answer

\* A command that returns was executed once, as it was asked, and returns its
\* own answer, never a byte that was on the line before; one that throws was
\* executed at most once and leaves the link down.
ImplementsLink == Link!Spec
=============================================================================
