------------------------------ MODULE Monitor -------------------------------
(***************************************************************************)
(* The command monitor (monitor.cpp, ez8mon.cpp, trace.cpp, and init and    *)
(* finish of setup.cpp): a prompt that wants a stopped device and a link    *)
(* that is up, dialogs that a user aborts, operations that throw, and a     *)
(* session that leaves the device as it found it.                           *)
(*                                                                         *)
(* A command is the plan of its questions to the user and its operations of *)
(* the debugger.  Of those only what they promise is kept: RunControl has   *)
(* how they keep to it (KnownStopped, BreaksKnown), MemCache what they do   *)
(* to the memory.                                                           *)
(***************************************************************************)
EXTENDS Integers, Sequences, FiniteSets

CONSTANT BreakAt    \* the addresses of breakpoints

VARIABLES
    remote,     \* the link of this session is one over tcpip, which closes when it
                \* breaks
    at,         \* "loop", "down", "settle", "prompt", "command" or "finish" of the
                \* program that runs; it "exited" well, or is "off"
    plan,       \* the parts of the command still to come
    rlErr,      \* rl_err: an exception waits in the readline hook
    link,       \* "up", "down" or "closed"
    known,      \* DBGCTL as cached: "stopped", "running", or "nothing"
    cpu,        \* device: "stopped" or "running"
    entries,    \* ez8dbg::breakpoints, the addresses
    brks,       \* device: where the flash holds a BRK of the debugger
    orphans     \* of those, and of the entries, the ones whose BRK the debugger takes
                \* for the program's: an entry is gone that knew the opcode

session == <<at, plan, rlErr, link, known>>
target == <<cpu, entries, brks, orphans>>
monitorVars == <<remote, session, target>>

MonitorParts == {"ask", "ask_reset", "read", "write", "step", "next", "set", "remove",
          "remove_all", "erase", "reset_link", "reset_chip", "run", "skip", "wait", "check",
          "settle", "trace", "if_stopped", "if_running"}
Now == IF plan = <<>> THEN "none" ELSE Head(plan)
Rest == Tail(plan)

\* The commands, each the set of its plans.  Questions in a row are one; an answer
\* that makes no sense aborts the command like one that is refused.
DisplayInfo == {<<"read">>}
DisplayRegisters == {<<"read">>}
DumpMemory == {<<"ask", "read">>}
Unassemble == {<<"read", "ask", "read">>}
FillMemory == {<<"ask", "write">>}
ModifyRegisters == {<<"ask", "write">>, <<"ask", "read", "write">>}
\* Reads on, once here, when the user types past what it has read.
AlterMemory == {<<"ask", "read", "ask", "write">>, <<"ask", "read", "ask", "read", "ask", "write">>}
BreakpointSet == {<<"read", "ask", "set">>}
BreakpointClear == {<<"read", "ask", "remove">>}
EraseMemory == {<<"ask", "erase", "ask", "reset_chip">>}
\* The device is protected before and after, or it is not.
LoadFile ==
    {<<"ask", "erase", "write", "reset_chip">>,
     <<"ask", "erase", "write", "reset_chip", "read">>,
     <<"ask", "erase", "reset_chip", "write", "reset_chip">>,
     <<"ask", "erase", "reset_chip", "write", "reset_chip", "read">>}
RunProgram == {<<"run", "wait", "check", "settle", "read">>}
NextInst == {<<"next", "skip", "wait", "check", "settle", "read">>}
StepInst == {<<"step", "read">>}
ResetPart == {<<"ask_reset">>}
TraceSubsystem == {<<"read", "trace">>}

Commands ==
    DisplayInfo \cup DisplayRegisters \cup DumpMemory \cup Unassemble
      \cup FillMemory \cup ModifyRegisters \cup AlterMemory
      \cup BreakpointSet \cup BreakpointClear \cup EraseMemory \cup LoadFile
      \cup RunProgram \cup NextInst \cup StepInst \cup ResetPart \cup TraceSubsystem

-----------------------------------------------------------------------------
(* How a part ends.                                                        *)

Goes(rest) ==
    /\ plan' = rest
    /\ at' = IF rest # <<>> THEN at ELSE
             CASE at = "settle" -> "prompt" [] at = "command" -> "loop" [] at = "finish" -> "exited"
    /\ rlErr' = rlErr

\* A cached DBGCTL that says stopped is right.
Coherent == known' \in {"stopped", "running", "nothing"} /\ (known' = "stopped" => cpu' = "stopped")

Works == link = "up" /\ link' = "up" /\ Coherent
Breaks == link' \in {link, "down"} \cup (IF remote THEN {"closed"} ELSE {}) /\ Coherent

\* An exception leaves the command; command_loop prints it and goes on, finish
\* gives up.
Throws ==
    /\ Breaks
    /\ plan' = <<>> /\ rlErr' = FALSE
    /\ at' = IF at = "finish" THEN "off" ELSE "loop"

\* BRKs that were written over are no program's any more, unless an entry is
\* going to bring them back.
Rewritten(left) == brks' \in left /\ orphans' = orphans \cap (brks' \cup entries')

-----------------------------------------------------------------------------
(* The operations on memory.                                               *)

\* Reading and writing registers and memory, and resetting the chip, which stays
\* stopped.  A write to program memory, also one that fails, may go over BRKs.
Access ==
    /\ Now \in {"read", "write", "step", "reset_chip"}
    /\ UNCHANGED <<cpu, entries>>
    /\ Rewritten(IF Now = "write" THEN SUBSET brks ELSE {brks})
    /\ (Works /\ Goes(Rest)) \/ Throws

\* set_breakpoint, after the questions: an address that is set is refused.  A BRK
\* that is in the flash already is the opcode the entry saves.
Set ==
    /\ Now = "set" /\ UNCHANGED <<cpu, orphans>>
    /\ \E a \in BreakAt :
        \/ a \in entries /\ Goes(<<>>) /\ UNCHANGED <<link, known, entries, brks>>
        \/ /\ a \notin entries /\ Works /\ Goes(Rest)
           /\ entries' = entries \cup {a} /\ brks' = brks \cup {a}
        \/ /\ a \notin entries /\ Throws
           /\ \/ UNCHANGED <<entries, brks>>
              \/ entries' = entries \cup {a} /\ brks' \in {brks, brks \cup {a}}

\* remove_breakpoint puts the saved opcode back with wr_mem, then drops the entry.
Removed(a) ==
    /\ UNCHANGED <<cpu, orphans>> /\ Works
    /\ entries' = entries \ {a}
    /\ brks' = IF a \in orphans THEN brks \cup {a} ELSE brks \ {a}
RemoveFails == UNCHANGED <<cpu, entries>> /\ Throws /\ Rewritten(SUBSET brks)

Remove ==
    /\ Now = "remove"
    /\ \/ BreakAt \ entries # {} /\ Goes(<<>>) /\ UNCHANGED <<link, known, target>>
       \/ \E a \in entries : Removed(a) /\ Goes(Rest)
       \/ entries # {} /\ RemoveFails

\* Mutant: the entries are counted up while they move down.
RemoveAllByIndex ==
    /\ Now = "remove_all"
    /\ \/ entries = {} /\ Goes(Rest) /\ UNCHANGED <<link, known, target>>
       \/ \E a \in entries : Removed(a) /\ Goes(IF Cardinality(entries) > 2 THEN plan ELSE Rest)
       \/ entries # {} /\ RemoveFails

\* The loop of finish.
RemoveAll ==
    /\ Now = "remove_all"
    /\ \/ entries = {} /\ Goes(Rest) /\ UNCHANGED <<link, known, target>>
       \/ \E a \in entries : Removed(a) /\ Goes(plan)
       \/ entries # {} /\ RemoveFails

\* mass_erase drops the entries before it erases.  When that fails, the BRKs that
\* are left have none.
Erase ==
    /\ Now = "erase" /\ UNCHANGED cpu
    /\ \/ Works /\ Goes(Rest) /\ entries' = {} /\ Rewritten({{}})
       \/ Throws /\ UNCHANGED <<entries, brks, orphans>>
       \/ Throws /\ entries' = {} /\ brks' \in {brks, {}} /\ orphans' = brks'

-----------------------------------------------------------------------------
(* Running and stopping.                                                   *)

\* run, and next over a call, or as step over anything else.
Runs ==
    /\ Now \in {"run", "next"}
    /\ \/ cpu' \in {"running"} \cup (IF Now = "next" THEN {cpu} ELSE {}) /\ Works /\ Goes(Rest)
       \/ cpu' \in {cpu, "running"} /\ Throws
    /\ UNCHANGED <<entries, brks, orphans>>

\* isrunning goes by what is known to be stopped; of a device that was running it
\* asks only after it has heard something, which it never does over tcpip.
Polls(answer) ==
    \/ known # "nothing" /\ answer = known /\ UNCHANGED <<link, known>>
    \/ /\ known = "nothing" \/ (known = "running" /\ ~remote)
       /\ link' = "up" /\ known' = cpu /\ answer = cpu
PollFails == known # "stopped" /\ Throws

\* readline with check_if_running as its hook, until a key, a stop or an exception.
Wait ==
    /\ Now = "wait" /\ UNCHANGED target
    /\ \/ Goes(Rest) /\ UNCHANGED <<link, known>>
       \/ Polls("stopped") /\ Goes(Rest)
       \/ Polls("running") /\ Goes(plan)
       \/ known # "stopped" /\ Breaks /\ rlErr' = TRUE /\ plan' = Rest /\ at' = at

\* What the hook caught is thrown behind readline.
Check ==
    /\ Now = "check" /\ UNCHANGED target
    /\ IF rlErr THEN Throws ELSE Goes(Rest) /\ UNCHANGED <<link, known>>

\* Mutant: when the device cannot be stopped, command_loop goes on to its prompt.
SettleAnyhow ==
    /\ Now = "settle"
    /\ \/ known = "stopped" /\ Goes(Rest) /\ UNCHANGED <<link, known, cpu>>
       \/ known # "stopped" /\ link' = "up" /\ known' = "stopped" /\ cpu' = "stopped" /\ Goes(Rest)
       \/ known # "stopped" /\ cpu' \in {cpu, "stopped"} /\ Breaks /\ Goes(Rest)
    /\ UNCHANGED <<entries, brks, orphans>>

\* stop, when the device is not known to be stopped already.  Before the prompt a
\* failure is tried again from the start of the loop.
Settle ==
    /\ Now = "settle"
    /\ \/ known = "stopped" /\ Goes(Rest) /\ UNCHANGED <<link, known, cpu>>
       \/ known # "stopped" /\ link' = "up" /\ known' = "stopped" /\ cpu' = "stopped" /\ Goes(Rest)
       \/ known # "stopped" /\ cpu' \in {cpu, "stopped"} /\ Throws
    /\ UNCHANGED <<entries, brks, orphans>>

\* next_inst shows the registers at once when next has stopped already.
Skip ==
    /\ Now = "skip" /\ UNCHANGED target
    /\ \/ known = "stopped" /\ Goes(<<"read">>) /\ UNCHANGED <<link, known>>
       \/ known = "running" /\ Goes(Rest) /\ UNCHANGED <<link, known>>
       \/ known = "nothing" /\ link = "up" /\ link' = "up" /\ known' = cpu /\ Goes(IF cpu = "stopped" THEN <<"read">> ELSE Rest)
       \/ known = "nothing" /\ Throws

\* trce_go and trce_stop; leaving the trace subsystem stops the device, too.
Unless ==
    /\ Now \in {"if_stopped", "if_running"} /\ UNCHANGED target
    /\ LET wanted == IF Now = "if_stopped" THEN "stopped" ELSE "running" IN
        \/ Polls(wanted) /\ Goes(Rest)
        \/ \E answer \in {"stopped", "running"} \ {wanted} : Polls(answer) /\ Goes(Tail(Rest))
        \/ PollFails

ResetsLink ==
    /\ Now = "reset_link" /\ UNCHANGED target
    /\ \/ link' = "up" /\ known' = "nothing" /\ Goes(Rest)
       \/ Throws /\ known' = "nothing"

-----------------------------------------------------------------------------
(* The user.                                                               *)

\* A question of a command is answered, or the command is given up.
Answer ==
    /\ Now = "ask"
    /\ Goes(Rest) \/ Goes(<<>>)
    /\ UNCHANGED <<link, known, target>>

\* reset_part reads the answer without looking whether there is one.
AnswerReset ==
    /\ Now = "ask_reset"
    /\ \/ \E p \in {<<>>, <<"reset_link", "settle">>, <<"reset_chip", "read">>} : Goes(p)
       \/ at' = "off" /\ plan' = <<>> /\ rlErr' = rlErr
    /\ UNCHANGED <<link, known, target>>

\* At the prompt of the trace subsystem, where the device may run.
Trace ==
    /\ Now = "trace"
    /\ \E p \in {<<"if_stopped", "run", "trace">>, <<"if_running", "settle", "trace">>,
                 <<"read", "trace">>, <<"if_running", "settle">>} : Goes(p)
    /\ UNCHANGED <<link, known, target>>

\* At the prompt: a command, one that does nothing, or to quit, which can be denied.
Prompt ==
    /\ at = "prompt"
    /\ \/ \E p \in Commands : at' = "command" /\ plan' = p
       \/ at' = "loop" /\ plan' = <<>>
       \/ at' = "finish" /\ plan' = <<"remove_all", "run">>
    /\ UNCHANGED <<rlErr, link, known, target>>

\* The head of command_loop.  Over tcpip, link_up throws if the connection breaks.
Loop ==
    /\ at = "loop"
    /\ \/ link = "closed" /\ at' = "off" /\ plan' = <<>> /\ link' = link
       \/ remote /\ at' = "off" /\ plan' = <<>> /\ link' = "closed"
       \/ link = "down" /\ at' = "down" /\ plan' = <<>> /\ link' = link
       \/ link = "up" /\ at' = "settle" /\ plan' = <<"settle">> /\ link' = link
    /\ UNCHANGED <<rlErr, known, target>>

\* The user has the link reset, or gives up.
Down ==
    /\ at = "down" /\ UNCHANGED <<plan, rlErr, target>>
    /\ \/ at' = "loop" /\ link' = "up" /\ Coherent
       \/ at' = "down" /\ link' = "down" /\ Coherent
       \/ at' = "off" /\ UNCHANGED <<link, known>>
       \/ remote /\ at' = "off" /\ link' = "closed" /\ Coherent

-----------------------------------------------------------------------------
(* Sessions.                                                               *)

\* init connects, over a serial line or the network, and stops the device.
Begin ==
    /\ at \in {"off", "exited"} /\ remote' \in BOOLEAN
    /\ plan' = <<>> /\ rlErr' = FALSE /\ entries' = {} /\ brks' = brks /\ orphans' = brks
    /\ \/ at' = "loop" /\ link' = "up" /\ known' = "stopped" /\ cpu' = "stopped"
       \/ at' = "off" /\ link' = "closed" /\ known' = "nothing" /\ cpu' \in {cpu, "stopped"}

\* CTRL-c, at any time.  An operation cut short is one that fails and then this.
Killed ==
    /\ at \notin {"off", "exited"}
    /\ at' = "off" /\ plan' = <<>> /\ rlErr' = FALSE
    /\ UNCHANGED <<link, known, target>>

\* The device stops by itself, at a BRK or where next has it stop.
DeviceStops ==
    /\ cpu = "running" /\ (brks # {} \/ at # "exited")
    /\ cpu' = "stopped"
    /\ UNCHANGED <<session, entries, brks, orphans>>

MonitorInit ==
    /\ remote = FALSE /\ at = "off" /\ plan = <<>> /\ rlErr = FALSE /\ link = "closed" /\ known = "nothing"
    /\ cpu = "running" /\ entries = {} /\ brks = {} /\ orphans = {}

MonitorNext ==
    \/ Begin
    \/ /\ \/ Access \/ Set \/ Remove \/ RemoveAll \/ Erase
          \/ Runs \/ Wait \/ Check \/ Settle \/ Skip \/ Unless \/ ResetsLink
          \/ Answer \/ AnswerReset \/ Trace \/ Prompt \/ Loop \/ Down
          \/ Killed \/ DeviceStops
       /\ UNCHANGED remote

MonitorSpec == MonitorInit /\ [][MonitorNext]_monitorVars

-----------------------------------------------------------------------------

\* The state is well formed.
MonitorTypeOK ==
    /\ remote \in BOOLEAN
    /\ at \in {"loop", "down", "settle", "prompt", "command", "finish", "exited", "off"}
    /\ plan \in Seq(MonitorParts) /\ rlErr \in BOOLEAN
    /\ link \in {"up", "down", "closed"} /\ known \in {"stopped", "running", "nothing"}
    /\ cpu \in {"stopped", "running"}
    /\ entries \subseteq BreakAt /\ brks \subseteq BreakAt /\ orphans \subseteq BreakAt

\* Whatever threw, was aborted or waited before, the user is asked only about a
\* device that is stopped, over a link that is up (command_loop, and the commands
\* that ask further), and no exception of an earlier wait is left to be thrown by
\* a later one (rl_err).
PromptStopped ==
    at = "prompt" \/ Now \in {"ask", "ask_reset"} =>
        cpu = "stopped" /\ link = "up" /\ ~rlErr

\* A session that ends well leaves none of its BRKs in the flash, and the device
\* running (finish; docs: quit removes the breakpoints that were set).  BRKs that
\* a killed session or a failed mass erase left behind stay, and may stop it.
QuitClean == at = "exited" => brks \subseteq orphans /\ (cpu = "running" \/ brks # {})
=============================================================================
