----------------------------- MODULE RunControl -----------------------------
(***************************************************************************)
(* Running and stopping the CPU (ez8dbg.cpp): what the debugger caches of   *)
(* the state of a device that stops by itself, how it learns that it did,   *)
(* and how it gets past its own breakpoints.                                *)
(*                                                                         *)
(* An operation is a sequence of parts, todo, most of them one command on   *)
(* the link: the device runs, stops and acknowledges between any two.  The  *)
(* line carries at most two things the device sent unasked: a serial break  *)
(* first, and after it the acknowledge of a breakpoint.                     *)
(***************************************************************************)
EXTENDS Integers, Sequences

CONSTANTS
    Addr,       \* addresses of instructions
    Marks,      \* those breakpoints are asked for
    Flow,       \* where the instruction at an address may lead
    Kind,       \* what it is: "call", "di", "ei" or "plain"
    ResetPc,    \* where the CPU starts
    Rev,        \* revision: "0100", "0110", "0120" or "later"
    Protected,  \* read protect is enabled
    Link,       \* "serial" or "tcpip"
    Faults      \* "link" (a command throws), "break" (programs switch clocks),
                \* "noise" (and the line breaks at any time),
                \* "trace" (an emulator, whose trace is read at any time)

ASSUME ProgramAssumption ==
    /\ Addr \subseteq Nat /\ ResetPc \in Addr /\ Marks \subseteq Addr
    /\ Flow \in [Addr -> SUBSET Addr]
    /\ Kind \in [Addr -> {"call", "di", "ei", "plain"}]
    /\ \A a \in Addr : Kind[a] = "call" => a + 1 \in Addr  \* where it returns to
ASSUME DeviceAssumption ==
    /\ Rev \in {"0100", "0110", "0120", "later"} /\ Protected \in BOOLEAN
    /\ Link \in {"serial", "tcpip"}
    /\ Faults \subseteq {"link", "break", "noise", "trace"}

VARIABLES
    mode,    \* device: in "debug" mode, or "run"
    dpc,     \* device: program counter
    armed,   \* device: where the flash holds BRK for another opcode
    hw,      \* device: what its comparator waits for: an address, Clks or NoStop
    irq,     \* device: interrupts are enabled
    progirq, \* history: whether the program has enabled them
    ack,     \* an acknowledge is waiting to be read
    brk,     \* a serial break is waiting to be read, before it
    up,      \* the link is up
    cached,  \* ez8dbg::cache: "DBGCTL", "DBGSTAT", "REVID", "PC"
    hctl,    \* ez8dbg::dbgctl: "debug" when it has DBG_MODE, else "run"
    hpc,     \* ez8dbg::pc
    bps,     \* ez8dbg::breakpoints, the addresses
    strays,  \* of the BRKs in the flash and of the entries, those whose BRK is taken
             \* for the program's: mass_erase has forgotten the entry that knew better
    tbreak,  \* ez8dbg::tbreak, 0 when there is none
    todo,    \* the parts of the operation still to come
    arg,     \* its address
    wasOn,   \* irqctl as read by step
    result   \* how the last operation ended: "ok", "running" (isrunning only),
             \* or the exception it threw

NoStop == -1
Clks == -2

device == <<mode, dpc, armed, hw, irq, progirq>>
line == <<ack, brk, up>>
copies == <<cached, hctl, hpc>>
table == <<bps, strays, tbreak>>
op == <<todo, arg, wasOn, result>>
vars == <<device, line, copies, table, op>>

\* The parts of operations.
PartNames ==
    {"stopped", "ifstopped", "unlessstopped", "dbgctl", "tryread", "protected", "revid",
     "pc", "readpc", "wrpc", "offbreak", "exec", "irqoff", "irqback", "over",
     "setrun", "go", "wrcntr", "rdcntr", "unsupported", "notemp", "settemp",
     "rdmem", "regs", "newbp", "entry", "arm", "oldbp", "disarm", "delete", "cleartemp",
     "removetemp", "droptable", "erase", "unlessprotected", "halt", "poll", "forget", "report",
     "reset", "resetlink", "relink", "rdrevid", "trace"}

Part == IF todo = <<>> THEN "none" ELSE Head(todo)

-----------------------------------------------------------------------------
(* The operations, as their parts.                                         *)

Step ==
    <<"stopped", "protected", "revid", "pc">>
      \o (IF Rev = "0100" THEN <<"irqoff", "exec", "irqback">> ELSE <<"exec">>)

Run ==
    <<"ifstopped", "revid">>
      \o (IF Rev = "later" THEN <<>> ELSE <<"protected">>)
      \o <<"pc", "offbreak", "setrun">> \o <<"go">>

NoComparator == Rev \in {"0100", "0110"}

\* Mutant: the BRK is written before the entry is made.
SetBreakpointBrkFirst ==
    <<"stopped", "protected", "newbp", "stopped", "protected", "rdmem",
      "stopped", "regs", "arm", "stopped", "regs", "entry",
      "stopped", "protected", "rdmem">>

\* "rdmem" is rd_mem, and "regs" an access to the registers of the flash
\* controller, both behind the checks they start with.
SetBreakpoint ==
    <<"stopped", "protected", "newbp", "stopped", "protected", "rdmem", "entry",
      "stopped", "regs", "arm", "stopped", "regs",
      "stopped", "protected", "rdmem">>

\* wr_mem of the opcode, from the second "stopped" on, and delete_breakpoint.
RemoveBreakpoint ==
    <<"stopped", "protected", "oldbp", "stopped", "protected", "stopped", "regs", "rdmem",
      "stopped", "regs", "disarm", "stopped", "regs",
      "stopped", "protected", "rdmem", "stopped", "regs", "delete">>

RunTo ==
    <<"stopped", "protected", "pc", "offbreak", "setrun", "revid">>
      \o (IF NoComparator THEN <<"notemp">> \o SetBreakpoint \o <<"settemp">>
                          ELSE <<"wrcntr">>)
      \o <<"go">>

RunClks ==
    <<"stopped", "protected", "revid">>
      \o (IF NoComparator THEN <<"unsupported">>
                          ELSE <<"wrcntr", "stopped", "rdcntr", "setrun">>)
      \o <<"go">>

StepOver == <<"stopped", "protected", "pc", "stopped", "protected", "rdmem", "over">>
Stop == <<"unlessstopped", "tryread", "halt", "removetemp">>
IsRunning == <<"poll", "tryread", "report">>
ResetChip == <<"dbgctl", "reset", "dbgctl">>
WrPc == <<"stopped", "protected", "wrpc", "pc">>

\* mass_erase, and the wait for its end, which a protected device gets blindly.
MassErase ==
    <<"stopped", "droptable", "stopped", "regs", "stopped", "erase", "unlessprotected",
      "stopped", "regs">>

\* The operations with an address, those without, and run_clks.
AtAddress == {RunTo, WrPc}
AtMark == {SetBreakpoint, RemoveBreakpoint}
Plain ==
    {Step, Run, StepOver, Stop, IsRunning, ResetChip, MassErase, <<"rdrevid">>,
     <<"resetlink">>}
      \cup (IF "trace" \in Faults /\ Rev = "later" THEN {<<"revid", "trace">>} ELSE {})

Request(ops, args) ==
    /\ todo = <<>>
    /\ todo' \in ops /\ arg' \in args
    /\ result' = "ok"
    /\ UNCHANGED <<device, line, copies, table, wasOn>>

-----------------------------------------------------------------------------
(* One part after another.                                                 *)

Go(parts) == todo' = parts /\ UNCHANGED <<arg, wasOn, result>>
Done == Go(Tail(todo))
Throw(why) == todo' = <<>> /\ result' = why /\ UNCHANGED <<arg, wasOn>>

\* A command gets through.  A pending break makes the link be reset first: by
\* new_command, which then forgets everything that was cached, or for the
\* commands that do not call it by ocd_serial::write, silently.  Over tcpip,
\* new_command never learns of it.
Sent == up /\ (ack => brk) /\ up' = TRUE /\ ack' = FALSE /\ brk' = FALSE
Still(new) == IF brk /\ new /\ Link = "serial" THEN {} ELSE cached

\* It does not: the link was down, fails, or an acknowledge comes back in the
\* place of the command's own bytes.
Lost ==
    /\ ~up \/ "link" \in Faults \/ (ack /\ ~brk)
    /\ up' = FALSE
    /\ UNCHANGED <<ack, brk>>

Fails == Lost /\ Throw("link")

\* Commands that change nothing the model has.  Those for program memory and the
\* trace do not call new_command, and rd_mem may need none at all.
Other ==
    /\ Part \in {"wrcntr", "rdcntr", "regs", "rdmem", "trace", "rdrevid"}
    /\ \/ /\ Sent /\ Done
          /\ cached' = Still(Part \notin {"rdmem", "trace"})
                         \cup (IF Part = "rdrevid" THEN {"REVID"} ELSE {})
       \/ Fails /\ cached' = cached
       \/ Part = "rdmem" /\ Done /\ UNCHANGED <<line, cached>>
    /\ UNCHANGED <<device, hctl, hpc, table>>

\* The cached_ functions; tryread is the one whose exception is caught.
Needs ==
    [p \in {"stopped", "ifstopped", "dbgctl", "tryread", "protected", "unlessprotected", "revid"} |->
        CASE p \in {"protected", "unlessprotected"} -> "DBGSTAT"
          [] p = "revid" -> "REVID"
          [] OTHER -> "DBGCTL"]

Fetch ==
    /\ Part \in DOMAIN Needs /\ Needs[Part] \notin cached
    /\ \/ /\ Sent
          /\ cached' = Still(TRUE) \cup {Needs[Part]}
          /\ hctl' = IF Needs[Part] = "DBGCTL" THEN mode ELSE hctl
          /\ Go(todo)
       \/ /\ Lost
          /\ IF Part = "tryread" THEN Go(<<"relink", "dbgctl">> \o Tail(todo)) ELSE Throw("link")
          /\ UNCHANGED <<cached, hctl>>
    /\ UNCHANGED <<device, hpc, table>>

\* What is decided on the copies alone.
Decide ==
    /\ Part \in DOMAIN Needs => Needs[Part] \in cached
    /\ \/ Part = "stopped" /\ hctl = "debug" /\ Done
       \/ Part = "stopped" /\ hctl # "debug" /\ Throw("running")
       \/ Part = "ifstopped" /\ Go(IF hctl = "debug" THEN Tail(todo) ELSE <<>>)
       \/ Part = "protected" /\ (IF Protected THEN Throw("protected") ELSE Done)
       \/ Part = "unlessprotected" /\ Go(IF Protected THEN <<>> ELSE Tail(todo))
       \/ Part \in {"revid", "dbgctl", "tryread"} /\ Done
       \/ Part = "unsupported" /\ Throw("unsupported")
       \/ Part = "pc" /\ "PC" \in cached /\ Done
       \/ /\ Part = "pc" /\ "PC" \notin cached
          /\ Go(<<"stopped", "protected", "readpc">> \o Tail(todo))
       \/ Part = "offbreak" /\ Go((IF hpc \in bps THEN Step ELSE <<>>) \o Tail(todo))
       \/ Part = "notemp" /\ (IF tbreak = 0 THEN Done ELSE Throw("assert"))
       \/ Part = "removetemp" /\ tbreak = 0 /\ Done
       \/ /\ Part = "removetemp" /\ tbreak # 0
          /\ todo' = RemoveBreakpoint \o <<"cleartemp">> \o Tail(todo)
          /\ arg' = tbreak /\ UNCHANGED <<wasOn, result>>
       \/ Part = "newbp" /\ arg \notin bps \cup {0} /\ Done
       \/ Part = "newbp" /\ arg \in bps /\ Throw("already set")
       \/ Part = "newbp" /\ arg \notin bps /\ arg = 0 /\ Throw("NULL address")
       \/ Part = "oldbp" /\ (IF arg \in bps THEN Done ELSE Throw("not set"))
       \/ Part = "report" /\ hctl = "debug" /\ Go(<<"removetemp">>)
       \/ Part = "report" /\ hctl # "debug" /\ Throw("running")
    /\ UNCHANGED <<device, line, copies, table>>

-----------------------------------------------------------------------------
(* Stepping and running.                                                   *)

ReadPc ==
    /\ Part = "readpc"
    /\ \/ Sent /\ Done /\ hpc' = dpc /\ cached' = Still(TRUE) \cup {"PC"}
       \/ Fails /\ UNCHANGED <<hpc, cached>>
    /\ UNCHANGED <<device, hctl, table>>

\* Mutant: the cached program counter is dropped after the write, not before.
WritePcDropsLate ==
    /\ Part = "wrpc"
    /\ \/ Sent /\ Done /\ dpc' = arg /\ cached' = Still(TRUE) \ {"PC"}
       \/ Fails /\ dpc' \in {dpc, arg} /\ cached' = cached
    /\ UNCHANGED <<mode, armed, hw, irq, progirq, hctl, hpc, table>>

WritePc ==
    /\ Part = "wrpc"
    /\ \/ Sent /\ Done /\ dpc' = arg /\ cached' = Still(TRUE) \ {"PC"}
       \/ Fails /\ dpc' \in {dpc, arg} /\ cached' = cached \ {"PC"}
    /\ UNCHANGED <<mode, armed, hw, irq, progirq, hctl, hpc, table>>

\* The CPU executes the instruction at dpc.
Executes ==
    /\ dpc' \in Flow[dpc]
    /\ irq' = CASE Kind[dpc] = "di" -> FALSE [] Kind[dpc] = "ei" -> TRUE [] OTHER -> irq
    /\ progirq' = CASE Kind[dpc] = "di" -> FALSE [] Kind[dpc] = "ei" -> TRUE [] OTHER -> progirq
    /\ UNCHANGED <<armed, hw>>

\* stuf_inst with the opcode of the entry, which may be a forgotten BRK, or
\* step_inst, for which a BRK in the flash is the instruction.
Exec ==
    /\ Part = "exec"
    /\ cached' = cached \ {"PC"}
    /\ \/ /\ Sent /\ Done
          /\ IF (IF hpc \in bps THEN hpc \notin strays ELSE dpc \notin armed) THEN Executes
             ELSE UNCHANGED <<dpc, irq, progirq, armed, hw>>
       \/ /\ Fails
          /\ Executes \/ UNCHANGED <<dpc, irq, progirq, armed, hw>>
    /\ UNCHANGED <<mode, hctl, hpc, table>>

\* On revision 0100 interrupts are disabled around the instruction.  What it is
\* has to be read, except at a breakpoint, whose entry says it.
IrqOff ==
    /\ Part = "irqoff"
    /\ \/ /\ Sent /\ UNCHANGED <<arg, result>>
          /\ todo' = (IF hpc \in bps THEN <<>> ELSE <<"stopped", "protected", "rdmem">>) \o Tail(todo)
          /\ wasOn' = irq /\ irq' = FALSE /\ cached' = Still(TRUE)
       \/ Fails /\ irq' \in {irq, FALSE} /\ cached' = cached
    /\ UNCHANGED <<mode, dpc, armed, hw, progirq, hctl, hpc, table>>

\* The opcode that step has for the instruction, of the entry or read, is a DI.
SeesDi ==
    /\ Kind[hpc] = "di"
    /\ IF hpc \in bps THEN hpc \notin strays ELSE hpc \notin armed

\* Mutant: interrupts come back on after a DI, too.
IrqBackAlways ==
    /\ Part = "irqback"
    /\ \/ wasOn /\ Sent /\ Done /\ irq' = TRUE /\ cached' = Still(TRUE)
       \/ wasOn /\ Fails /\ irq' \in {irq, TRUE} /\ cached' = cached
       \/ ~wasOn /\ Done /\ UNCHANGED <<line, irq, cached>>
    /\ UNCHANGED <<mode, dpc, armed, hw, progirq, hctl, hpc, table>>

IrqBack ==
    /\ Part = "irqback"
    /\ \/ /\ wasOn /\ ~SeesDi
          /\ \/ Sent /\ Done /\ irq' = TRUE /\ cached' = Still(TRUE)
             \/ Fails /\ irq' \in {irq, TRUE} /\ cached' = cached
       \/ (~wasOn \/ SeesDi) /\ Done /\ UNCHANGED <<line, irq, cached>>
    /\ UNCHANGED <<mode, dpc, armed, hw, progirq, hctl, hpc, table>>

\* dbgctl gets its new value before the register does.
SetRun ==
    /\ Part = "setrun"
    /\ hctl' = "run" /\ Done
    /\ UNCHANGED <<device, line, cached, hpc, table>>

\* The last part of run, run_to and run_clks: dbgctl, whatever it is by now, is
\* taken for the state of the device and written to it.
Start ==
    /\ Part = "go"
    /\ \/ /\ Sent /\ Done
          /\ mode' = hctl
          /\ cached' = IF brk /\ Link = "serial" THEN {} ELSE (cached \ {"PC"}) \cup {"DBGCTL"}
       \/ /\ Fails
          /\ mode' \in {mode, hctl}
          /\ cached' = (cached \ {"PC"}) \cup {"DBGCTL"}
    /\ hw' = IF mode' = "run" /\ ~NoComparator THEN arg ELSE NoStop
    /\ UNCHANGED <<dpc, armed, irq, progirq, hctl, hpc, table>>

\* Mutant: the return address of a call is one too high.
OverTooFar ==
    /\ Part = "over"
    /\ IF Kind[hpc] = "call" /\ hpc \notin armed
       THEN todo' = RunTo /\ arg' = hpc + 2 /\ UNCHANGED <<wasOn, result>>
       ELSE Go(Step)
    /\ UNCHANGED <<device, line, copies, table>>

\* next goes by the opcode as it is in the flash.
Over ==
    /\ Part = "over"
    /\ IF Kind[hpc] = "call" /\ hpc \notin armed
       THEN todo' = RunTo /\ arg' = hpc + 1 /\ UNCHANGED <<wasOn, result>>
       ELSE Go(Step)
    /\ UNCHANGED <<device, line, copies, table>>

-----------------------------------------------------------------------------
(* Breakpoints, as far as running needs them: MemCache has the rest.       *)

Entry ==
    /\ Part = "entry"
    /\ bps' = bps \cup {arg} /\ Done
    /\ UNCHANGED <<device, line, copies, strays, tbreak>>

\* A command that writes the flash; when it fails it may have done so.
Arm ==
    /\ Part = "arm"
    /\ \/ Sent /\ Done /\ armed' = armed \cup {arg}
       \/ Fails /\ armed' \in {armed, armed \cup {arg}}
    /\ UNCHANGED <<mode, dpc, hw, irq, progirq, copies, table>>

\* The opcode of the entry is put back.
Disarm ==
    /\ Part = "disarm"
    /\ \/ Sent /\ Done /\ armed' = IF arg \in strays THEN armed \cup {arg} ELSE armed \ {arg}
       \/ Fails /\ armed' \in {armed, armed \ {arg}}
    /\ UNCHANGED <<mode, dpc, hw, irq, progirq, copies, table>>

\* delete_breakpoint.
Delete ==
    /\ Part = "delete"
    /\ bps' = bps \ {arg} /\ strays' = strays \cap (armed \cup bps') /\ Done
    /\ UNCHANGED <<device, line, copies, tbreak>>

\* mass_erase begins by forgetting the table, not tbreak.
DropTable ==
    /\ Part = "droptable"
    /\ bps' = {} /\ strays' = armed /\ Done
    /\ UNCHANGED <<device, line, copies, tbreak>>

\* The erase command; when it fails it may have erased.
EraseChip ==
    /\ Part = "erase"
    /\ \/ Sent /\ Done /\ armed' = {} /\ cached' = Still(TRUE)
       \/ Fails /\ armed' \in {armed, {}} /\ cached' = cached
    /\ strays' = strays \cap armed'
    /\ UNCHANGED <<mode, dpc, hw, irq, progirq, hctl, hpc, bps, tbreak>>

\* run_to sets tbreak, stop and isrunning clear it.
SetTemp ==
    /\ Part = "settemp"
    /\ tbreak' = arg /\ Done
    /\ UNCHANGED <<device, line, copies, bps, strays>>

ClearTemp ==
    /\ Part = "cleartemp"
    /\ tbreak' = 0 /\ Done
    /\ UNCHANGED <<device, line, copies, bps, strays>>

-----------------------------------------------------------------------------
(* Stopping, and noticing that the device has stopped.                     *)

\* ez8ocd::reset_link, the exception handler, leaves the cache as it is.
Relink ==
    /\ Part = "relink"
    /\ \/ up' = TRUE /\ ack' = FALSE /\ brk' = FALSE /\ Done
       \/ "link" \in Faults /\ up' = FALSE /\ UNCHANGED <<ack, brk>> /\ Throw("link")
    /\ UNCHANGED <<device, copies, table>>

\* ez8dbg::reset_link, the operation, does not.
ResetLink ==
    /\ Part = "resetlink"
    /\ cached' = {} /\ Go(<<"relink">> \o Tail(todo))
    /\ UNCHANGED <<device, line, hctl, hpc, table>>

\* stop returns at once when the device is known to be stopped.
UnlessStopped ==
    /\ Part = "unlessstopped"
    /\ IF "DBGCTL" \in cached /\ hctl = "debug"
       THEN Go(<<>>) /\ cached' = cached
       ELSE Done /\ cached' = cached \ {"DBGCTL"}
    /\ UNCHANGED <<device, line, hctl, hpc, table>>

\* Mutant: dbgctl is changed and marked as cached before the register is written.
HaltBelieved ==
    /\ Part = "halt"
    /\ hctl' = "debug" /\ cached' = cached \cup {"DBGCTL"}
    /\ \/ hctl = "debug" /\ Done /\ UNCHANGED <<mode, hw, line>>
       \/ hctl # "debug" /\ Sent /\ Done /\ mode' = "debug" /\ hw' = NoStop
       \/ hctl # "debug" /\ Fails /\ mode' \in {mode, "debug"} /\ hw' \in {hw, NoStop}
    /\ UNCHANGED <<dpc, armed, irq, progirq, hpc, table>>

Halt ==
    /\ Part = "halt"
    /\ \/ hctl = "debug" /\ Done /\ UNCHANGED <<mode, hw, line, cached>>
       \/ /\ hctl # "debug" /\ Sent /\ Go(<<"dbgctl">> \o Tail(todo))
          /\ mode' = "debug" /\ hw' = NoStop
          /\ cached' = Still(TRUE) \ {"DBGCTL"}
       \/ /\ hctl # "debug" /\ Fails
          /\ mode' \in {mode, "debug"} /\ hw' \in {hw, NoStop}
          /\ cached' = cached
    /\ UNCHANGED <<dpc, armed, irq, progirq, hctl, hpc, table>>

\* ocd_tcpip::available says no, whatever has come to the server.
NothingHeard == Link = "tcpip" \/ (up /\ ~ack /\ ~brk)

\* Mutant: an error in the place of the acknowledge counts for none.
PollIgnoresErrors ==
    /\ Part = "poll"
    /\ \/ "DBGCTL" \in cached /\ hctl = "debug" /\ Go(<<>>) /\ UNCHANGED <<line, cached>>
       \/ "DBGCTL" \notin cached /\ Done /\ UNCHANGED <<line, cached>>
       \/ /\ "DBGCTL" \in cached /\ hctl = "run" /\ UNCHANGED cached
          /\ \/ NothingHeard /\ Throw("running") /\ UNCHANGED line
             \/ ~NothingHeard /\ ~up /\ Go(<<"relink", "report">>) /\ UNCHANGED line
             \/ /\ ~NothingHeard /\ up /\ brk /\ Go(<<"relink", "report">>)
                /\ up' = FALSE /\ brk' = FALSE /\ ack' = ack
             \/ /\ ~NothingHeard /\ up /\ ack /\ ~brk /\ Go(<<"forget">> \o Tail(todo))
                /\ ack' = FALSE /\ UNCHANGED <<up, brk>>
    /\ UNCHANGED <<device, hctl, hpc, table>>

\* isrunning asks the device only after an acknowledge, or an error in its
\* place, has come.
Poll ==
    /\ Part = "poll"
    /\ \/ "DBGCTL" \in cached /\ hctl = "debug" /\ Go(<<>>) /\ UNCHANGED <<line, cached>>
       \/ "DBGCTL" \notin cached /\ Done /\ UNCHANGED <<line, cached>>
       \/ /\ "DBGCTL" \in cached /\ hctl = "run" /\ UNCHANGED cached
          /\ \/ NothingHeard /\ Throw("running") /\ UNCHANGED line
             \/ ~NothingHeard /\ ~up /\ Go(<<"relink", "forget">> \o Tail(todo)) /\ UNCHANGED line
             \/ /\ ~NothingHeard /\ up /\ brk /\ Go(<<"relink", "forget">> \o Tail(todo))
                /\ up' = FALSE /\ brk' = FALSE /\ ack' = ack
             \/ /\ ~NothingHeard /\ up /\ ack /\ ~brk /\ Go(<<"forget">> \o Tail(todo))
                /\ ack' = FALSE /\ UNCHANGED <<up, brk>>
    /\ UNCHANGED <<device, hctl, hpc, table>>

Forget ==
    /\ Part = "forget"
    /\ cached' = cached \ {"DBGCTL"} /\ Done
    /\ UNCHANGED <<device, line, hctl, hpc, table>>

\* The CPU resets, and stays in the mode dbgctl says.
Resets ==
    /\ mode' = hctl /\ dpc' = ResetPc /\ hw' = NoStop
    /\ irq' = FALSE /\ progirq' = FALSE

Reset ==
    /\ Part = "reset"
    /\ cached' = {}
    /\ \/ Sent /\ Done /\ Resets
       \/ Lost /\ Go(<<"relink">> \o Tail(todo)) /\ (Resets \/ UNCHANGED <<mode, dpc, hw, irq, progirq>>)
    /\ UNCHANGED <<armed, hctl, hpc, table>>

-----------------------------------------------------------------------------
(* The device, while it runs.                                              *)

host == <<up, copies, table, op>>

DeviceExecutes ==
    /\ mode = "run" /\ dpc \notin armed /\ dpc # hw
    /\ Executes
    /\ UNCHANGED <<mode, line, copies, table, op>>

DeviceBreaks ==
    /\ mode = "run" /\ (dpc \in armed \/ dpc = hw \/ hw = Clks)
    /\ mode' = "debug" /\ ack' = TRUE
    /\ UNCHANGED <<dpc, armed, hw, irq, progirq, brk, host>>

\* A break comes, from a program that switches clocks or from the line.
Break ==
    /\ "break" \in Faults /\ ~ack
    /\ mode = "run" \/ "noise" \in Faults
    /\ brk' = TRUE
    /\ UNCHANGED <<device, ack, host>>

-----------------------------------------------------------------------------

Init ==
    /\ mode \in {"debug", "run"} /\ dpc = ResetPc
    /\ armed = {} /\ hw = NoStop
    /\ irq = FALSE /\ progirq = FALSE
    /\ ack = FALSE /\ brk = FALSE /\ up = TRUE
    /\ cached = {} /\ hctl = "run" /\ hpc = 0
    /\ bps = {} /\ strays = {} /\ tbreak = 0
    /\ todo = <<>> /\ arg = NoStop /\ wasOn = FALSE /\ result = "ok"

Requests ==
    \/ Request(Plain, {NoStop}) \/ Request({RunClks}, {Clks})
    \/ Request(AtAddress, Addr) \/ Request(AtMark, Marks)

Parts ==
    \/ Other \/ Fetch \/ Decide \/ ReadPc \/ WritePc \/ Exec \/ IrqOff \/ IrqBack
    \/ SetRun \/ Start \/ Over \/ Entry \/ Arm \/ Disarm \/ Delete \/ DropTable
    \/ EraseChip \/ SetTemp \/ ClearTemp \/ Relink \/ ResetLink \/ UnlessStopped
    \/ Halt \/ Poll \/ Forget \/ Reset

Device == DeviceExecutes \/ DeviceBreaks \/ Break

Next == Requests \/ Parts \/ Device

Spec == Init /\ [][Next]_vars

\* An operation that was begun goes on, and users who wait for the device to
\* stop go on polling (check_if_running, called by readline; dbg_run of tclmon).
LiveSpec == Spec /\ WF_vars(Parts) /\ SF_vars(Request({IsRunning}, {NoStop}))

-----------------------------------------------------------------------------

TypeOK ==
    /\ mode \in {"debug", "run"} /\ dpc \in Addr /\ armed \subseteq Addr
    /\ hw \in Addr \cup {NoStop, Clks} /\ irq \in BOOLEAN /\ progirq \in BOOLEAN
    /\ ack \in BOOLEAN /\ brk \in BOOLEAN /\ up \in BOOLEAN
    /\ cached \subseteq {"DBGCTL", "DBGSTAT", "REVID", "PC"}
    /\ hctl \in {"debug", "run"} /\ hpc \in Addr \cup {0}
    /\ bps \subseteq Addr /\ strays \subseteq Addr /\ tbreak \in Addr \cup {0}
    /\ todo \in Seq(PartNames) /\ arg \in Addr \cup {NoStop, Clks} /\ wasOn \in BOOLEAN
    /\ result \in {"ok", "running", "link", "protected", "unsupported", "assert",
                   "already set", "NULL address", "not set"}

\* The debugger never takes a running device for a stopped one: it reads and
\* writes memory and registers, and single steps, on the word of its cache.
KnownStopped == "DBGCTL" \in cached /\ hctl = "debug" => mode = "debug"

\* A cached program counter is the program counter, and the device is stopped:
\* breakpoints are stepped off, and calls looked for, at the cached one.
PcCoherent == "PC" \in cached => hpc = dpc /\ mode = "debug"

\* No BRK is in the flash without the entry that knows the opcode under it, which
\* alone can take it out and execute what it stands for: whatever fails, but for
\* the BRKs that were there when a mass erase that then failed dropped the table.
BreaksKnown == armed \ strays \subseteq bps

\* After any operation, the interrupts are as the program left them.
InterruptsKept == todo = <<>> => irq = progirq

\* A device that stops by itself is found to have stopped, by polling, unless
\* it is made to run again before.
StopsAreSeen ==
    (mode = "debug" /\ "DBGCTL" \in cached /\ hctl = "run")
        ~> ("DBGCTL" \in cached /\ hctl = "debug") \/ mode = "run"

\* "these revisions do not have a hardware breakpoint set a manual temporary
\* breakpoint" (ez8dbg.cpp:687): run_to, which has found the device stopped, is
\* not refused on the way because it would be running.
TempIsSet ==
    [][(\E i \in DOMAIN todo : todo[i] = "settemp") /\ mode = "debug"
        => result' # "running"]_vars
=============================================================================
