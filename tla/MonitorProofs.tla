--------------------------- MODULE MonitorProofs ----------------------------
(***************************************************************************)
(* What the monitor promises its user (PromptStopped) and the device        *)
(* (QuitClean), for every set of breakpoints, over a serial line and over   *)
(* the network; then the specification of the run, which takes sessions of  *)
(* the monitor or one of the devices of RunControl.                         *)
(***************************************************************************)
EXTENDS MCRunVariants, RunControlProofs

\* A plan asks only between parts that leave the device stopped; what the hook
\* catches is looked at right behind the wait, and what trce_go and trce_stop do
\* only sometimes comes behind their question.
Quiet == {"ask", "ask_reset", "read", "write", "set", "remove", "erase", "reset_chip"}
Asking(p) == \E i \in 1 .. Len(p) : p[i] \in {"ask", "ask_reset"}
Shaped(p) ==
    /\ p \in Seq(MonitorParts)
    /\ Asking(p) => \A i \in 1 .. Len(p) : p[i] \in Quiet
    /\ \A i \in 1 .. Len(p) : p[i] \in {"wait", "if_stopped", "if_running"} => i + 1 \in 1 .. Len(p)
    /\ \A i \in 1 .. Len(p) : p[i] = "wait" => p[i + 1] = "check"

Control ==
    /\ at \in {"loop", "down", "settle", "prompt", "command", "finish", "exited", "off"}
    /\ Shaped(plan) /\ rlErr \in BOOLEAN
    /\ plan # <<>> <=> at \in {"settle", "command", "finish"}
    /\ at = "settle" => plan = <<"settle">>
    /\ at = "finish" => plan = <<"remove_all", "run">> \/ plan = <<"run">>
    /\ rlErr => Now = "check"

Data ==
    /\ link \in {"up", "down", "closed"} /\ known \in {"stopped", "running", "nothing"}
    /\ cpu \in {"stopped", "running"}
    /\ entries \subseteq BreakAt /\ brks \subseteq BreakAt /\ orphans \subseteq BreakAt
    /\ known = "stopped" => cpu = "stopped"
    /\ brks \subseteq entries \cup orphans

\* How the two go together.
ReadyToAsk ==
    /\ at = "settle" => link = "up"
    /\ at = "prompt" \/ Asking(plan) => cpu = "stopped" /\ link = "up"
Leaving == at = "finish" /\ plan = <<"run">> => entries = {}

MonitorInv == Control /\ Data /\ ReadyToAsk /\ Leaving /\ QuitClean

-----------------------------------------------------------------------------
(* Plans.                                                                  *)

LEMMA LongerThanOne ==
    ASSUME NEW p \in Seq(MonitorParts), 2 \in 1 .. Len(p)
    PROVE  Tail(p) # <<>> /\ Head(Tail(p)) = p[2]
  <1>1. Tail(p) \in Seq(MonitorParts) /\ Len(Tail(p)) = Len(p) - 1 /\ Tail(p)[1] = p[2] /\ Len(Tail(p)) > 0
    OBVIOUS
  <1>2. ASSUME NEW q \in Seq(MonitorParts), Len(q) > 0 PROVE q # <<>>
    <2>1. Len(<<>>) = 0
      OBVIOUS
    <2> QED
      BY <1>2, <2>1
  <1>3. Tail(p) # <<>>
    BY ONLY <1>1, <1>2, Zenon
  <1>4. ASSUME NEW q \in Seq(MonitorParts), Len(q) > 0 PROVE Head(q) = q[1]
    BY <1>4
  <1>5. Head(Tail(p)) = Tail(p)[1]
    BY ONLY <1>1, <1>4, Zenon
  <1> QED
    BY <1>1, <1>3, <1>5, Zenon

LEMMA RestShaped ==
    ASSUME NEW p, Shaped(p), p # <<>>
    PROVE  Shaped(Tail(p)) /\ (Asking(Tail(p)) => Asking(p)) /\ p[1] = Head(p) /\ 1 \in 1 .. Len(p)
  <1>1. p \in Seq(MonitorParts) /\ Len(p) \in Nat /\ Len(p) > 0
    BY DEF Shaped
  <1>2. Tail(p) \in Seq(MonitorParts) /\ Len(Tail(p)) = Len(p) - 1
    BY <1>1
  <1>3. \A i \in 1 .. Len(Tail(p)) : Tail(p)[i] = p[i + 1] /\ i + 1 \in 1 .. Len(p)
    BY <1>1, <1>2
  <1>4. Asking(Tail(p)) => Asking(p)
    BY <1>3 DEF Asking
  <1>5. Asking(Tail(p)) => \A i \in 1 .. Len(Tail(p)) : Tail(p)[i] \in Quiet
    BY <1>3, <1>4 DEF Shaped
  <1>6. ASSUME NEW i \in 1 .. Len(Tail(p)), Tail(p)[i] \in {"wait", "if_stopped", "if_running"}
        PROVE  i + 1 \in 1 .. Len(Tail(p)) /\ (Tail(p)[i] = "wait" => Tail(p)[i + 1] = "check")
    <2>1. p[i + 1] \in {"wait", "if_stopped", "if_running"} /\ i + 1 \in 1 .. Len(p)
      BY <1>3, <1>6
    <2>2. i + 2 \in 1 .. Len(p) /\ (p[i + 1] = "wait" => p[i + 2] = "check")
      BY <2>1 DEF Shaped
    <2>3. i + 1 \in 1 .. Len(Tail(p))
      BY <2>2, <1>1, <1>2
    <2> QED
      BY <2>2, <2>3, <1>3
  <1> QED
    BY <1>1, <1>2, <1>4, <1>5, <1>6 DEF Shaped

\* A plan is shaped when nothing in it disturbs the device, and when it neither
\* asks, waits nor decides.
Loose == MonitorParts \ {"ask", "ask_reset", "wait", "if_stopped", "if_running"}

LEMMA QuietShaped == ASSUME NEW p \in Seq(Quiet) PROVE Shaped(p)
  BY DEF Shaped, Asking, Quiet, MonitorParts

LEMMA LooseShaped == ASSUME NEW p \in Seq(Loose) PROVE Shaped(p) /\ ~Asking(p)
  BY DEF Shaped, Asking, Loose, MonitorParts

LEMMA CommandsShaped == \A p \in Commands : Shaped(p) /\ p # <<>>
  <1> DEFINE Fit(p) == Shaped(p) /\ p # <<>>
  <1>1. ASSUME NEW p \in Seq(Quiet) \cup Seq(Loose), p # <<>> PROVE Fit(p)
    BY <1>1, QuietShaped, LooseShaped
  <1>2. Fit(<<"read">>) /\ Fit(<<"ask", "read">>) /\ Fit(<<"read", "ask", "read">>)
    <2>1. /\ <<"read">> \in Seq(Quiet) /\ <<"ask", "read">> \in Seq(Quiet)
          /\ <<"read", "ask", "read">> \in Seq(Quiet)
      BY DEF Quiet
    <2> QED
      BY <2>1, <1>1
  <1>3. Fit(<<"ask", "write">>) /\ Fit(<<"ask", "read", "write">>)
    <2>1. <<"ask", "write">> \in Seq(Quiet) /\ <<"ask", "read", "write">> \in Seq(Quiet)
      BY DEF Quiet
    <2> QED
      BY <2>1, <1>1
  <1>4. Fit(<<"ask", "read", "ask", "write">>) /\ Fit(<<"ask", "read", "ask", "read", "ask", "write">>)
    <2>1. /\ <<"ask", "read", "ask", "write">> \in Seq(Quiet)
          /\ <<"ask", "read", "ask", "read", "ask", "write">> \in Seq(Quiet)
      BY DEF Quiet
    <2> QED
      BY <2>1, <1>1
  <1>5. Fit(<<"read", "ask", "set">>) /\ Fit(<<"read", "ask", "remove">>)
    <2>1. <<"read", "ask", "set">> \in Seq(Quiet) /\ <<"read", "ask", "remove">> \in Seq(Quiet)
      BY DEF Quiet
    <2> QED
      BY <2>1, <1>1
  <1>6. Fit(<<"ask", "erase", "ask", "reset_chip">>) /\ Fit(<<"ask_reset">>)
    <2>1. <<"ask", "erase", "ask", "reset_chip">> \in Seq(Quiet) /\ <<"ask_reset">> \in Seq(Quiet)
      BY DEF Quiet
    <2> QED
      BY <2>1, <1>1
  <1>7. /\ Fit(<<"ask", "erase", "write", "reset_chip">>)
        /\ Fit(<<"ask", "erase", "write", "reset_chip", "read">>)
    <2>1. /\ <<"ask", "erase", "write", "reset_chip">> \in Seq(Quiet)
          /\ <<"ask", "erase", "write", "reset_chip", "read">> \in Seq(Quiet)
      BY DEF Quiet
    <2> QED
      BY <2>1, <1>1
  <1>8. /\ Fit(<<"ask", "erase", "reset_chip", "write", "reset_chip">>)
        /\ Fit(<<"ask", "erase", "reset_chip", "write", "reset_chip", "read">>)
    <2>1. /\ <<"ask", "erase", "reset_chip", "write", "reset_chip">> \in Seq(Quiet)
          /\ <<"ask", "erase", "reset_chip", "write", "reset_chip", "read">> \in Seq(Quiet)
      BY DEF Quiet
    <2> QED
      BY <2>1, <1>1
  <1>9. Fit(<<"step", "read">>) /\ Fit(<<"read", "trace">>)
    <2>1. <<"step", "read">> \in Seq(Loose) /\ <<"read", "trace">> \in Seq(Loose)
      BY DEF Loose, MonitorParts
    <2> QED
      BY <2>1, <1>1
  <1>10. Fit(<<"run", "wait", "check", "settle", "read">>)
    <2> DEFINE p == <<"run", "wait", "check", "settle", "read">>
    <2>1. p \in Seq(MonitorParts) /\ Len(p) = 5
      BY DEF MonitorParts
    <2>2. p[1] = "run" /\ p[2] = "wait" /\ p[3] = "check" /\ p[4] = "settle" /\ p[5] = "read"
      OBVIOUS
    <2> HIDE DEF p
    <2>3. \A i \in 1 .. Len(p) : i = 1 \/ i = 2 \/ i = 3 \/ i = 4 \/ i = 5
      BY <2>1
    <2>4. ~Asking(p)
      BY <2>1, <2>2, <2>3 DEF Asking
    <2> QED
      BY <2>1, <2>2, <2>3, <2>4 DEF Shaped, p
  <1>11. Fit(<<"next", "skip", "wait", "check", "settle", "read">>)
    <2> DEFINE p == <<"next", "skip", "wait", "check", "settle", "read">>
    <2>1. p \in Seq(MonitorParts) /\ Len(p) = 6
      BY DEF MonitorParts
    <2>2. /\ p[1] = "next" /\ p[2] = "skip" /\ p[3] = "wait" /\ p[4] = "check"
          /\ p[5] = "settle" /\ p[6] = "read"
      OBVIOUS
    <2> HIDE DEF p
    <2>3. \A i \in 1 .. Len(p) : i = 1 \/ i = 2 \/ i = 3 \/ i = 4 \/ i = 5 \/ i = 6
      BY <2>1
    <2>4. ~Asking(p)
      BY <2>1, <2>2, <2>3 DEF Asking
    <2> QED
      BY <2>1, <2>2, <2>3, <2>4 DEF Shaped, p
  <1> HIDE DEF Fit
  <1>12. \A p \in DisplayInfo \cup DisplayRegisters \cup DumpMemory \cup Unassemble : Fit(p)
    BY <1>2 DEF DisplayInfo, DisplayRegisters, DumpMemory, Unassemble
  <1>13. \A p \in FillMemory \cup ModifyRegisters \cup AlterMemory : Fit(p)
    BY <1>3, <1>4 DEF FillMemory, ModifyRegisters, AlterMemory
  <1>14. \A p \in BreakpointSet \cup BreakpointClear \cup EraseMemory \cup LoadFile : Fit(p)
    BY <1>5, <1>6, <1>7, <1>8 DEF BreakpointSet, BreakpointClear, EraseMemory, LoadFile
  <1>15. \A p \in RunProgram \cup NextInst \cup StepInst \cup ResetPart \cup TraceSubsystem : Fit(p)
    BY <1>6, <1>9, <1>10, <1>11 DEF RunProgram, NextInst, StepInst, ResetPart, TraceSubsystem
  <1> QED
    BY <1>12, <1>13, <1>14, <1>15 DEF Commands, Fit

-----------------------------------------------------------------------------
(* How parts end.                                                          *)

\* What the part that is next says of the plan and of the program.
LEMMA NowSays ==
    ASSUME MonitorInv, Now # "none"
    PROVE  /\ plan # <<>> /\ Now = plan[1] /\ Now \in MonitorParts
           /\ at \in {"settle", "command", "finish"}
           /\ Shaped(Rest) /\ (Asking(Rest) => Asking(plan))
           /\ Asking(plan) => Now \in Quiet /\ cpu = "stopped" /\ link = "up"
           /\ at = "settle" => Now = "settle" /\ Rest = <<>> /\ link = "up"
           /\ at = "finish" => \/ Now = "remove_all" /\ plan = <<"remove_all", "run">> /\ Rest = <<"run">>
                               \/ Now = "run" /\ plan = <<"run">> /\ Rest = <<>> /\ entries = {}
           /\ Now # "check" => rlErr = FALSE
  <1>1. plan # <<>> /\ Shaped(plan)
    BY DEF Now, MonitorInv, Control
  <1>2. /\ Now = plan[1] /\ 1 \in 1 .. Len(plan)
        /\ Shaped(Rest) /\ (Asking(Rest) => Asking(plan))
    BY <1>1, RestShaped DEF Now, Rest
  <1>3. Now \in MonitorParts
    BY <1>1, <1>2 DEF Shaped
  <1>4. Asking(plan) => Now \in Quiet /\ cpu = "stopped" /\ link = "up"
    BY <1>1, <1>2 DEF Shaped, MonitorInv, ReadyToAsk
  <1>5. at \in {"settle", "command", "finish"}
    BY <1>1 DEF MonitorInv, Control
  <1>6. at = "settle" => Now = "settle" /\ Rest = <<>> /\ link = "up"
    <2>1. Head(<<"settle">>) = "settle" /\ Tail(<<"settle">>) = <<>> /\ <<"settle">> # <<>>
      OBVIOUS
    <2> QED
      BY <2>1 DEF MonitorInv, Control, ReadyToAsk, Now, Rest
  <1>7. at = "finish" => \/ Now = "remove_all" /\ plan = <<"remove_all", "run">> /\ Rest = <<"run">>
                         \/ Now = "run" /\ plan = <<"run">> /\ Rest = <<>> /\ entries = {}
    <2>1. /\ Head(<<"run">>) = "run" /\ Tail(<<"run">>) = <<>> /\ <<"run">> # <<>>
          /\ Head(<<"remove_all", "run">>) = "remove_all" /\ Tail(<<"remove_all", "run">>) = <<"run">>
          /\ <<"remove_all", "run">> # <<>>
      OBVIOUS
    <2> QED
      BY <2>1 DEF MonitorInv, Control, Leaving, Now, Rest
  <1>8. Now # "check" => rlErr = FALSE
    BY DEF MonitorInv, Control
  <1> QED
    BY <1>1, <1>2, <1>3, <1>4, <1>5, <1>6, <1>7, <1>8

\* Nothing to do is a plan, too.
LEMMA EmptyShaped == Shaped(<<>>) /\ ~Asking(<<>>)
  BY DEF Shaped, Asking

LEMMA ThrowsInv ==
    ASSUME MonitorInv, Throws, Data'
    PROVE  MonitorInv'
  <1>1. plan' = <<>> /\ rlErr' = FALSE /\ at' \in {"off", "loop"}
    BY DEF Throws
  <1>2. Control'
    BY <1>1, EmptyShaped DEF Control
  <1>3. ReadyToAsk'
    <2>1. ~Asking(plan)'
      BY <1>1, EmptyShaped
    <2> QED
      BY <1>1, <2>1 DEF ReadyToAsk
  <1>4. Leaving' /\ QuitClean'
    BY <1>1 DEF Leaving, QuitClean
  <1> QED
    BY <1>2, <1>3, <1>4 DEF MonitorInv

\* A part that ends well with the plan r still to do.
LEMMA GoesInv ==
    ASSUME MonitorInv, Now # "none", ~rlErr, NEW r, Shaped(r), Goes(r), Data',
           Asking(r) \/ at = "settle" => cpu' = "stopped" /\ link' = "up",
           at = "settle" => r = <<>>,
           at = "finish" => \/ r = <<"remove_all", "run">>
                            \/ r = <<"run">> /\ entries' = {}
                            \/ r = <<>> /\ entries' = {} /\ cpu' = "running"
    PROVE  MonitorInv'
  <1>1. at \in {"settle", "command", "finish"} /\ rlErr' = FALSE /\ plan' = r
    BY NowSays DEF Goes, MonitorInv, Control
  <1>2. at' = IF r # <<>> THEN at ELSE
              CASE at = "settle" -> "prompt" [] at = "command" -> "loop" [] at = "finish" -> "exited"
    BY DEF Goes
  <1>3. /\ r # <<>> => at' = at /\ at' \in {"command", "finish"}
        /\ r = <<>> => at' \in {"prompt", "loop", "exited"}
        /\ at' = "exited" => at = "finish" /\ r = <<>>
        /\ at' = "prompt" => at = "settle"
    BY <1>1, <1>2
  <1>4. Control'
    BY <1>1, <1>3 DEF Control
  <1>5. ReadyToAsk'
    BY <1>1, <1>3 DEF ReadyToAsk
  <1>6. Leaving'
    <2>1. <<"run">> # <<"remove_all", "run">> /\ <<"run">> # <<>>
      OBVIOUS
    <2> QED
      BY <1>1, <1>3, <2>1 DEF Leaving
  <1>7. QuitClean'
    <2>1. <<>> # <<"run">> /\ <<>> # <<"remove_all", "run">>
      OBVIOUS
    <2>2. at' = "exited" => entries' = {} /\ cpu' = "running"
      BY <1>3, <2>1
    <2> QED
      BY <2>2 DEF QuitClean, Data
  <1> QED
    BY <1>4, <1>5, <1>6, <1>7 DEF MonitorInv

-----------------------------------------------------------------------------
(* The parts on memory.                                                    *)

\* BRKs that are written over leave what the debugger knows of the others.
LEMMA RewrittenData ==
    ASSUME MonitorInv, NEW left \in SUBSET SUBSET brks, Rewritten(left), entries' \subseteq entries,
           entries' = entries \/ brks' = {},
           link' \in {"up", "down", "closed"}, Coherent, cpu' = cpu
    PROVE  Data'
  BY DEF MonitorInv, Data, Rewritten, Coherent

\* Where links and exceptions leave the link.
LEMMA LinkStays ==
    ASSUME MonitorInv
    PROVE  /\ Works => link' = "up" /\ link = "up" /\ Coherent
           /\ Breaks => link' \in {"up", "down", "closed"} /\ Coherent
           /\ Throws => Breaks
  BY DEF Works, Breaks, Throws, MonitorInv, Data

LEMMA AccessInv == ASSUME MonitorInv, Access PROVE MonitorInv'
  <1>1. Now \in {"read", "write", "step", "reset_chip"} /\ cpu' = cpu /\ entries' = entries
    BY DEF Access
  <1>2. Now # "none" /\ Now \notin {"check", "settle", "remove_all", "run"}
    BY <1>1
  <1>3. at # "settle" /\ at # "finish" /\ ~rlErr
    BY <1>2, NowSays
  <1>4. Works \/ Throws
    BY DEF Access
  <1>5. Data'
    <2>1. (IF Now = "write" THEN SUBSET brks ELSE {brks}) \in SUBSET SUBSET brks
      OBVIOUS
    <2>2. Rewritten(IF Now = "write" THEN SUBSET brks ELSE {brks})
      BY DEF Access
    <2> QED
      BY <1>1, <1>4, <2>1, <2>2, RewrittenData, LinkStays
  <1>6. CASE Throws
    BY <1>5, <1>6, ThrowsInv
  <1>7. CASE Works /\ Goes(Rest)
    BY <1>1, <1>2, <1>3, <1>5, <1>7, NowSays, GoesInv, LinkStays
  <1> QED
    BY <1>6, <1>7 DEF Access

LEMMA SetInv == ASSUME MonitorInv, Set PROVE MonitorInv'
  <1>1. Now = "set" /\ cpu' = cpu /\ orphans' = orphans
    BY DEF Set
  <1>2. Now # "none" /\ at # "settle" /\ at # "finish" /\ ~rlErr
    BY <1>1, NowSays
  <1>3. PICK a \in BreakAt :
        \/ a \in entries /\ Goes(<<>>) /\ UNCHANGED <<link, known, entries, brks>>
        \/ /\ a \notin entries /\ Works /\ Goes(Rest)
           /\ entries' = entries \cup {a} /\ brks' = brks \cup {a}
        \/ /\ a \notin entries /\ Throws
           /\ \/ UNCHANGED <<entries, brks>>
              \/ entries' = entries \cup {a} /\ brks' \in {brks, brks \cup {a}}
    BY DEF Set
  <1>4. CASE a \in entries /\ Goes(<<>>) /\ UNCHANGED <<link, known, entries, brks>>
    <2>1. Data'
      BY <1>1, <1>4 DEF MonitorInv, Data
    <2> QED
      BY <1>2, <1>4, <2>1, EmptyShaped, GoesInv
  <1>5. CASE Works /\ Goes(Rest) /\ entries' = entries \cup {a} /\ brks' = brks \cup {a}
    <2>1. Data'
      BY <1>1, <1>5, LinkStays DEF MonitorInv, Data, Coherent
    <2> QED
      BY <1>1, <1>2, <1>5, <2>1, NowSays, GoesInv, LinkStays
  <1>6. CASE /\ Throws
             /\ \/ UNCHANGED <<entries, brks>>
                \/ entries' = entries \cup {a} /\ brks' \in {brks, brks \cup {a}}
    <2>1. Data'
      BY <1>1, <1>6, LinkStays DEF MonitorInv, Data, Coherent
    <2> QED
      BY <1>6, <2>1, ThrowsInv
  <1> QED
    BY <1>3, <1>4, <1>5, <1>6

\* remove_breakpoint, whoever calls it.
LEMMA RemovedData ==
    ASSUME MonitorInv, NEW a \in entries, Removed(a)
    PROVE  Data' /\ cpu' = cpu /\ link' = "up"
  BY LinkStays DEF Removed, MonitorInv, Data, Coherent

LEMMA RemoveFailsInv == ASSUME MonitorInv, RemoveFails PROVE MonitorInv'
  <1>1. Throws /\ Rewritten(SUBSET brks) /\ cpu' = cpu /\ entries' = entries
    BY DEF RemoveFails
  <1>2. Data'
    BY <1>1, RewrittenData, LinkStays
  <1> QED
    BY <1>1, <1>2, ThrowsInv

LEMMA RemoveInv == ASSUME MonitorInv, Remove PROVE MonitorInv'
  <1>1. Now = "remove"
    BY DEF Remove
  <1>2. Now # "none" /\ at # "settle" /\ at # "finish" /\ ~rlErr
    BY <1>1, NowSays
  <1>3. CASE Goes(<<>>) /\ UNCHANGED <<link, known, target>>
    <2>1. Data'
      BY <1>3 DEF MonitorInv, Data, target
    <2> QED
      BY <1>2, <1>3, <2>1, EmptyShaped, GoesInv
  <1>4. CASE \E a \in entries : Removed(a) /\ Goes(Rest)
    BY <1>2, <1>4, NowSays, RemovedData, GoesInv
  <1>5. CASE RemoveFails
    BY <1>5, RemoveFailsInv
  <1> QED
    BY <1>3, <1>4, <1>5 DEF Remove

\* finish goes on until there is no entry left.
LEMMA RemoveAllInv == ASSUME MonitorInv, RemoveAll PROVE MonitorInv'
  <1>1. Now = "remove_all" /\ Now \notin Quiet
    BY DEF RemoveAll, Quiet
  <1>2. Now # "none" /\ at # "settle" /\ ~rlErr /\ ~Asking(plan) /\ ~Asking(Rest) /\ Shaped(plan)
    BY <1>1, NowSays DEF MonitorInv, Control
  <1>3. CASE entries = {} /\ Goes(Rest) /\ UNCHANGED <<link, known, target>>
    <2>1. Data' /\ entries' = {}
      BY <1>3 DEF MonitorInv, Data, target
    <2> QED
      BY <1>1, <1>2, <1>3, <2>1, NowSays, GoesInv
  <1>4. CASE \E a \in entries : Removed(a) /\ Goes(plan)
    BY <1>1, <1>2, <1>4, NowSays, RemovedData, GoesInv
  <1>5. CASE RemoveFails
    BY <1>5, RemoveFailsInv
  <1> QED
    BY <1>3, <1>4, <1>5 DEF RemoveAll

LEMMA EraseInv == ASSUME MonitorInv, Erase PROVE MonitorInv'
  <1>1. Now = "erase" /\ cpu' = cpu
    BY DEF Erase
  <1>2. Now # "none" /\ at # "settle" /\ at # "finish" /\ ~rlErr
    BY <1>1, NowSays
  <1>3. CASE Works /\ Goes(Rest) /\ entries' = {} /\ Rewritten({{}})
    <2>1. Data'
      BY <1>1, <1>3, LinkStays DEF MonitorInv, Data, Rewritten, Coherent
    <2> QED
      BY <1>1, <1>2, <1>3, <2>1, NowSays, GoesInv, LinkStays
  <1>4. CASE Throws /\ UNCHANGED <<entries, brks, orphans>>
    <2>1. Data'
      BY <1>1, <1>4, LinkStays DEF MonitorInv, Data, Coherent
    <2> QED
      BY <1>4, <2>1, ThrowsInv
  <1>5. CASE Throws /\ entries' = {} /\ brks' \in {brks, {}} /\ orphans' = brks'
    <2>1. Data'
      BY <1>1, <1>5, LinkStays DEF MonitorInv, Data, Coherent
    <2> QED
      BY <1>5, <2>1, ThrowsInv
  <1> QED
    BY <1>3, <1>4, <1>5 DEF Erase

-----------------------------------------------------------------------------
(* The parts that run and stop the device.                                 *)

\* A part that disturbs the device is in no plan that asks.
LEMMA NotQuiet ==
    ASSUME MonitorInv, Now \in MonitorParts \ Quiet
    PROVE  Now # "none" /\ ~Asking(plan) /\ ~Asking(Rest)
  <1>1. Now # "none"
    BY DEF MonitorParts
  <1> QED
    BY <1>1, NowSays

LEMMA RunsInv == ASSUME MonitorInv, Runs PROVE MonitorInv'
  <1>1. Now \in {"run", "next"} /\ UNCHANGED <<entries, brks, orphans>>
    BY DEF Runs
  <1>2. Now \in MonitorParts \ Quiet /\ Now # "check" /\ Now # "settle" /\ Now # "remove_all"
    BY <1>1 DEF MonitorParts, Quiet
  <1>3. Now # "none" /\ at # "settle" /\ ~rlErr /\ ~Asking(Rest) /\ Shaped(Rest)
    BY <1>2, NowSays, NotQuiet
  <1>4. CASE cpu' \in {"running"} \cup (IF Now = "next" THEN {cpu} ELSE {}) /\ Works /\ Goes(Rest)
    <2>1. Data'
      BY <1>1, <1>4, LinkStays DEF MonitorInv, Data, Coherent
    <2>2. at = "finish" => Rest = <<>> /\ entries' = {} /\ cpu' = "running"
      BY <1>1, <1>2, <1>3, <1>4, NowSays
    <2> QED
      BY <1>3, <1>4, <2>1, <2>2, GoesInv
  <1>5. CASE cpu' \in {cpu, "running"} /\ Throws
    <2>1. Data'
      BY <1>1, <1>5, LinkStays DEF MonitorInv, Data, Coherent
    <2> QED
      BY <1>5, <2>1, ThrowsInv
  <1> QED
    BY <1>4, <1>5 DEF Runs

\* isrunning only looks.
LEMMA PollsData ==
    ASSUME MonitorInv, UNCHANGED target, NEW answer, Polls(answer)
    PROVE  Data'
  BY DEF MonitorInv, Data, Polls, target

LEMMA PollFailsInv == ASSUME MonitorInv, UNCHANGED target, Throws PROVE MonitorInv'
  <1>1. Data'
    BY LinkStays DEF MonitorInv, Data, Coherent, target
  <1> QED
    BY <1>1, ThrowsInv

\* What the hook catches waits for the check behind it.
LEMMA WaitInv == ASSUME MonitorInv, Wait PROVE MonitorInv'
  <1>1. Now = "wait" /\ UNCHANGED target
    BY DEF Wait
  <1>2. Now \in MonitorParts \ Quiet /\ Now # "check" /\ Now # "settle" /\ Now # "remove_all" /\ Now # "run"
    BY <1>1 DEF MonitorParts, Quiet
  <1>3. /\ Now # "none" /\ at = "command" /\ ~rlErr /\ ~Asking(Rest) /\ Shaped(Rest)
        /\ ~Asking(plan) /\ Shaped(plan) /\ plan # <<>>
    BY <1>2, NowSays, NotQuiet DEF MonitorInv, Control
  <1>4. CASE Goes(Rest) /\ UNCHANGED <<link, known>>
    <2>1. Data'
      BY <1>1, <1>4 DEF MonitorInv, Data, target
    <2> QED
      BY <1>3, <1>4, <2>1, GoesInv
  <1>5. CASE Polls("stopped") /\ Goes(Rest)
    BY <1>1, <1>3, <1>5, PollsData, GoesInv
  <1>6. CASE Polls("running") /\ Goes(plan)
    BY <1>1, <1>3, <1>6, PollsData, GoesInv
  <1>7. CASE Breaks /\ rlErr' = TRUE /\ plan' = Rest /\ at' = at
    <2>1. Data'
      BY <1>1, <1>7, LinkStays DEF MonitorInv, Data, Coherent, target
    <2>2. Rest # <<>> /\ Head(Rest) = "check"
      <3>1. plan[1] = "wait" /\ 1 \in 1 .. Len(plan) /\ plan \in Seq(MonitorParts)
        BY <1>1, <1>3, NowSays, RestShaped DEF Shaped
      <3>2. 2 \in 1 .. Len(plan) /\ plan[2] = "check"
        BY <3>1, <1>3 DEF Shaped
      <3> QED
        BY <3>1, <3>2, LongerThanOne DEF Rest
    <2>3. Control'
      BY <1>3, <1>7, <2>2 DEF Control, Now
    <2>4. ReadyToAsk' /\ Leaving' /\ QuitClean'
      BY <1>3, <1>7 DEF ReadyToAsk, Leaving, QuitClean
    <2> QED
      BY <2>1, <2>3, <2>4 DEF MonitorInv
  <1> QED
    BY <1>4, <1>5, <1>6, <1>7 DEF Wait

LEMMA CheckInv == ASSUME MonitorInv, Check PROVE MonitorInv'
  <1>1. Now = "check" /\ UNCHANGED target
    BY DEF Check
  <1>2. Now \in MonitorParts \ Quiet /\ Now # "settle" /\ Now # "remove_all" /\ Now # "run"
    BY <1>1 DEF MonitorParts, Quiet
  <1>3. Now # "none" /\ at = "command" /\ ~Asking(Rest) /\ Shaped(Rest)
    BY <1>2, NowSays, NotQuiet
  <1>4. CASE rlErr
    BY <1>1, <1>4, PollFailsInv DEF Check
  <1>5. CASE ~rlErr
    <2>1. Goes(Rest) /\ UNCHANGED <<link, known>>
      BY <1>5 DEF Check
    <2>2. Data'
      BY <1>1, <2>1 DEF MonitorInv, Data, target
    <2> QED
      BY <1>3, <1>5, <2>1, <2>2, GoesInv
  <1> QED
    BY <1>4, <1>5

LEMMA SettleInv == ASSUME MonitorInv, Settle PROVE MonitorInv'
  <1>1. Now = "settle" /\ UNCHANGED <<entries, brks, orphans>>
    BY DEF Settle
  <1>2. Now \in MonitorParts \ Quiet /\ Now # "check" /\ Now # "remove_all" /\ Now # "run"
    BY <1>1 DEF MonitorParts, Quiet
  <1>3. Now # "none" /\ at # "finish" /\ ~rlErr /\ ~Asking(Rest) /\ Shaped(Rest)
    BY <1>2, NowSays, NotQuiet
  <1>4. CASE known = "stopped" /\ Goes(Rest) /\ UNCHANGED <<link, known, cpu>>
    <2>1. Data' /\ cpu' = "stopped"
      BY <1>1, <1>4 DEF MonitorInv, Data
    <2>2. at = "settle" => Rest = <<>> /\ link' = "up"
      BY <1>3, <1>4, NowSays
    <2> QED
      BY <1>3, <1>4, <2>1, <2>2, GoesInv
  <1>5. CASE link' = "up" /\ known' = "stopped" /\ cpu' = "stopped" /\ Goes(Rest)
    <2>1. Data'
      BY <1>1, <1>5 DEF MonitorInv, Data
    <2>2. at = "settle" => Rest = <<>>
      BY <1>3, NowSays
    <2> QED
      BY <1>3, <1>5, <2>1, <2>2, GoesInv
  <1>6. CASE cpu' \in {cpu, "stopped"} /\ Throws
    <2>1. Data'
      BY <1>1, <1>6, LinkStays DEF MonitorInv, Data, Coherent
    <2> QED
      BY <1>6, <2>1, ThrowsInv
  <1> QED
    BY <1>4, <1>5, <1>6 DEF Settle

LEMMA SkipInv == ASSUME MonitorInv, Skip PROVE MonitorInv'
  <1>1. Now = "skip" /\ UNCHANGED target
    BY DEF Skip
  <1>2. /\ Now \in MonitorParts \ Quiet
        /\ Now \notin {"check", "settle", "remove_all", "run"}
    BY <1>1 DEF MonitorParts, Quiet
  <1>3. Now # "none" /\ at = "command" /\ ~rlErr /\ ~Asking(Rest) /\ Shaped(Rest)
    BY <1>2, NowSays, NotQuiet
  <1>4. Shaped(<<"read">>) /\ ~Asking(<<"read">>)
    <2>1. <<"read">> \in Seq(Loose)
      BY DEF Loose, MonitorParts
    <2> QED
      BY <2>1, LooseShaped
  <1>5. CASE Throws
    BY <1>1, <1>5, PollFailsInv
  <1>6. CASE /\ UNCHANGED <<link, known>> \/ (link' = "up" /\ known' = cpu)
             /\ Goes(<<"read">>) \/ Goes(Rest)
    <2>1. Data'
      BY <1>1, <1>6 DEF MonitorInv, Data, target
    <2> QED
      BY <1>3, <1>4, <1>6, <2>1, GoesInv
  <1> QED
    BY <1>5, <1>6 DEF Skip

LEMMA UnlessInv == ASSUME MonitorInv, Unless PROVE MonitorInv'
  <1>1. Now \in {"if_stopped", "if_running"} /\ UNCHANGED target
    BY DEF Unless
  <1>2. /\ Now \in MonitorParts \ Quiet
        /\ Now \notin {"check", "settle", "remove_all", "run"}
    BY <1>1 DEF MonitorParts, Quiet
  <1>3. Now # "none" /\ at = "command" /\ ~rlErr /\ ~Asking(Rest) /\ Shaped(Rest)
    BY <1>2, NowSays, NotQuiet
  <1>4. Rest # <<>>
    <2>1. /\ plan[1] \in {"if_stopped", "if_running"} /\ 1 \in 1 .. Len(plan)
          /\ Shaped(plan) /\ plan \in Seq(MonitorParts)
      BY <1>1, <1>3, NowSays, RestShaped DEF Shaped, MonitorInv, Control
    <2>2. 2 \in 1 .. Len(plan)
      BY <2>1 DEF Shaped
    <2> QED
      BY <2>1, <2>2, LongerThanOne DEF Rest
  <1>5. CASE PollFails
    BY <1>1, <1>5, PollFailsInv DEF PollFails
  <1>6. CASE \E answer : Polls(answer) /\ Goes(Rest)
    BY <1>1, <1>3, <1>6, PollsData, GoesInv
  <1>7. CASE \E answer : Polls(answer) /\ Goes(Tail(Rest))
    BY <1>1, <1>3, <1>4, <1>7, RestShaped, PollsData, GoesInv
  <1> QED
    BY <1>5, <1>6, <1>7 DEF Unless

LEMMA ResetsLinkInv == ASSUME MonitorInv, ResetsLink PROVE MonitorInv'
  <1>1. Now = "reset_link" /\ UNCHANGED target
    BY DEF ResetsLink
  <1>2. /\ Now \in MonitorParts \ Quiet
        /\ Now \notin {"check", "settle", "remove_all", "run"}
    BY <1>1 DEF MonitorParts, Quiet
  <1>3. Now # "none" /\ at = "command" /\ ~rlErr /\ ~Asking(Rest) /\ Shaped(Rest)
    BY <1>2, NowSays, NotQuiet
  <1>4. CASE link' = "up" /\ known' = "nothing" /\ Goes(Rest)
    <2>1. Data'
      BY <1>1, <1>4 DEF MonitorInv, Data, target
    <2> QED
      BY <1>3, <1>4, <2>1, GoesInv
  <1>5. CASE Throws
    BY <1>1, <1>5, PollFailsInv
  <1> QED
    BY <1>4, <1>5 DEF ResetsLink

-----------------------------------------------------------------------------
(* The user, and the sessions.                                             *)

\* What leaves the debugger and the device alone.
LEMMA SameData ==
    ASSUME MonitorInv, UNCHANGED <<known, target>>, link' \in {link, "up", "down", "closed"}
    PROVE  Data'
  BY DEF MonitorInv, Data, target

LEMMA AnswerInv == ASSUME MonitorInv, Answer PROVE MonitorInv'
  <1>1. Now = "ask" /\ UNCHANGED <<link, known, target>> /\ (Goes(Rest) \/ Goes(<<>>))
    BY DEF Answer
  <1>2. Now # "none" /\ at = "command" /\ ~rlErr
    BY <1>1, NowSays
  <1>3. Data' /\ cpu' = cpu
    BY <1>1, SameData DEF target
  <1> QED
    BY <1>1, <1>2, <1>3, NowSays, EmptyShaped, GoesInv

LEMMA AnswerResetInv == ASSUME MonitorInv, AnswerReset PROVE MonitorInv'
  <1>1. Now = "ask_reset" /\ UNCHANGED <<link, known, target>>
    BY DEF AnswerReset
  <1>2. Now # "none" /\ at = "command" /\ ~rlErr
    BY <1>1, NowSays
  <1>3. Data' /\ cpu' = cpu
    BY <1>1, SameData DEF target
  <1>4. \A p \in {<<>>, <<"reset_link", "settle">>, <<"reset_chip", "read">>} : Shaped(p) /\ ~Asking(p)
    <2>1. <<"reset_link", "settle">> \in Seq(Loose) /\ <<"reset_chip", "read">> \in Seq(Loose)
      BY DEF Loose, MonitorParts
    <2> QED
      BY <2>1, EmptyShaped, LooseShaped
  <1>5. CASE \E p \in {<<>>, <<"reset_link", "settle">>, <<"reset_chip", "read">>} : Goes(p)
    BY <1>2, <1>3, <1>4, <1>5, GoesInv
  <1>6. CASE at' = "off" /\ plan' = <<>> /\ rlErr' = rlErr
    <2>1. rlErr' = FALSE
      BY <1>2, <1>6 DEF MonitorInv, Control
    <2>2. Control' /\ ReadyToAsk' /\ Leaving' /\ QuitClean'
      BY <2>1, <1>6, EmptyShaped DEF Control, ReadyToAsk, Leaving, QuitClean
    <2> QED
      BY <1>3, <2>2 DEF MonitorInv
  <1> QED
    BY <1>5, <1>6 DEF AnswerReset

LEMMA TraceInv == ASSUME MonitorInv, Trace PROVE MonitorInv'
  <1>1. Now = "trace" /\ UNCHANGED <<link, known, target>>
    BY DEF Trace
  <1>2. Now # "none" /\ at = "command" /\ ~rlErr
    BY <1>1, NowSays
  <1>3. Data'
    BY <1>1, SameData
  <1>4. Shaped(<<"read", "trace">>) /\ ~Asking(<<"read", "trace">>)
    <2>1. <<"read", "trace">> \in Seq(Loose)
      BY DEF Loose, MonitorParts
    <2> QED
      BY <2>1, LooseShaped
  <1>5. ASSUME NEW p \in Seq(MonitorParts), Len(p) = 2 \/ (Len(p) = 3 /\ p[3] = "trace"),
               p[1] \in {"if_stopped", "if_running"}, p[2] \in {"run", "settle"}
        PROVE  Shaped(p) /\ ~Asking(p)
    <2>1. CASE Len(p) = 2
      <3>1. \A i \in 1 .. Len(p) : i = 1 \/ i = 2
        BY <2>1
      <3> QED
        BY <1>5, <2>1, <3>1 DEF Shaped, Asking
    <2>2. CASE Len(p) = 3 /\ p[3] = "trace"
      <3>1. \A i \in 1 .. Len(p) : i = 1 \/ i = 2 \/ i = 3
        BY <2>2
      <3> QED
        BY <1>5, <2>2, <3>1 DEF Shaped, Asking
    <2> QED
      BY <1>5, <2>1, <2>2
  <1>6. /\ <<"if_stopped", "run", "trace">> \in Seq(MonitorParts)
        /\ <<"if_running", "settle", "trace">> \in Seq(MonitorParts)
        /\ <<"if_running", "settle">> \in Seq(MonitorParts)
    BY DEF MonitorParts
  <1>7. Shaped(<<"if_stopped", "run", "trace">>) /\ ~Asking(<<"if_stopped", "run", "trace">>)
    BY <1>5, <1>6
  <1>8. Shaped(<<"if_running", "settle", "trace">>) /\ ~Asking(<<"if_running", "settle", "trace">>)
    BY <1>5, <1>6
  <1>9. Shaped(<<"if_running", "settle">>) /\ ~Asking(<<"if_running", "settle">>)
    <2> DEFINE p == <<"if_running", "settle">>
    <2>1. p \in Seq(MonitorParts) /\ Len(p) = 2 /\ p[1] = "if_running" /\ p[2] = "settle"
      BY <1>6
    <2> HIDE DEF p
    <2>2. Shaped(p) /\ ~Asking(p)
      BY <1>5, <2>1
    <2> QED
      BY <2>2 DEF p
  <1>10. PICK p : Goes(p) /\ Shaped(p) /\ ~Asking(p)
    BY <1>4, <1>7, <1>8, <1>9 DEF Trace
  <1> QED
    BY <1>2, <1>3, <1>10, GoesInv

LEMMA PromptInv == ASSUME MonitorInv, Prompt PROVE MonitorInv'
  <1>1. at = "prompt" /\ UNCHANGED <<rlErr, link, known, target>>
    BY DEF Prompt
  <1>2. plan = <<>> /\ ~rlErr /\ rlErr \in BOOLEAN /\ cpu = "stopped" /\ link = "up"
    BY <1>1 DEF MonitorInv, Control, ReadyToAsk, Now
  <1>3. Data' /\ rlErr' = FALSE /\ cpu' = "stopped" /\ link' = "up"
    BY <1>1, <1>2, SameData DEF target
  <1>4. CASE \E p \in Commands : at' = "command" /\ plan' = p
    <2>1. Shaped(plan') /\ plan' # <<>>
      BY <1>4, CommandsShaped
    <2>2. Control' /\ ReadyToAsk' /\ Leaving' /\ QuitClean'
      BY <1>3, <1>4, <2>1 DEF Control, ReadyToAsk, Leaving, QuitClean
    <2> QED
      BY <1>3, <2>2 DEF MonitorInv
  <1>5. CASE at' = "loop" /\ plan' = <<>>
    <2>1. Control' /\ ReadyToAsk' /\ Leaving' /\ QuitClean'
      BY <1>3, <1>5, EmptyShaped DEF Control, ReadyToAsk, Leaving, QuitClean
    <2> QED
      BY <1>3, <2>1 DEF MonitorInv
  <1>6. CASE at' = "finish" /\ plan' = <<"remove_all", "run">>
    <2>1. <<"remove_all", "run">> \in Seq(Loose) /\ <<"remove_all", "run">> # <<>>
      BY DEF Loose, MonitorParts
    <2>2. <<"remove_all", "run">> # <<"run">>
      OBVIOUS
    <2>3. Control' /\ ReadyToAsk' /\ Leaving' /\ QuitClean'
      BY <1>3, <1>6, <2>1, <2>2, LooseShaped DEF Control, ReadyToAsk, Leaving, QuitClean
    <2> QED
      BY <1>3, <2>3 DEF MonitorInv
  <1> QED
    BY <1>4, <1>5, <1>6 DEF Prompt

LEMMA LoopInv == ASSUME MonitorInv, Loop PROVE MonitorInv'
  <1>1. at = "loop" /\ UNCHANGED <<rlErr, known, target>> /\ link' \in {link, "closed"}
    BY DEF Loop
  <1>2. rlErr' = FALSE
    BY <1>1 DEF MonitorInv, Control, Now
  <1>3. Data'
    BY <1>1, SameData
  <1>4. CASE at' \in {"off", "down"} /\ plan' = <<>>
    <2>1. Control' /\ ReadyToAsk' /\ Leaving' /\ QuitClean'
      BY <1>2, <1>4, EmptyShaped DEF Control, ReadyToAsk, Leaving, QuitClean
    <2> QED
      BY <1>3, <2>1 DEF MonitorInv
  <1>5. CASE link = "up" /\ at' = "settle" /\ plan' = <<"settle">> /\ link' = link
    <2>1. <<"settle">> \in Seq(Loose) /\ <<"settle">> # <<>>
      BY DEF Loose, MonitorParts
    <2>2. Control' /\ ReadyToAsk' /\ Leaving' /\ QuitClean'
      BY <1>2, <1>5, <2>1, LooseShaped DEF Control, ReadyToAsk, Leaving, QuitClean
    <2> QED
      BY <1>3, <2>2 DEF MonitorInv
  <1> QED
    BY <1>4, <1>5 DEF Loop

LEMMA DownInv == ASSUME MonitorInv, Down PROVE MonitorInv'
  <1>1. at = "down" /\ UNCHANGED <<plan, rlErr, target>> /\ at' \in {"loop", "down", "off"}
    BY DEF Down
  <1>2. Data'
    BY <1>1 DEF Down, MonitorInv, Data, Coherent, target
  <1>3. plan' = <<>> /\ rlErr' = FALSE
    BY <1>1 DEF MonitorInv, Control, Now
  <1>4. Control' /\ ReadyToAsk' /\ Leaving' /\ QuitClean'
    BY <1>1, <1>3, EmptyShaped DEF Control, ReadyToAsk, Leaving, QuitClean
  <1> QED
    BY <1>2, <1>4 DEF MonitorInv

LEMMA BeginInv == ASSUME MonitorInv, Begin PROVE MonitorInv'
  <1>1. /\ plan' = <<>> /\ rlErr' = FALSE /\ at' \in {"loop", "off"}
        /\ entries' = {} /\ brks' = brks /\ orphans' = brks
    BY DEF Begin
  <1>2. Data'
    BY <1>1 DEF Begin, MonitorInv, Data
  <1>3. Control' /\ ReadyToAsk' /\ Leaving' /\ QuitClean'
    BY <1>1, EmptyShaped DEF Control, ReadyToAsk, Leaving, QuitClean
  <1> QED
    BY <1>2, <1>3 DEF MonitorInv

LEMMA KilledInv == ASSUME MonitorInv, Killed PROVE MonitorInv'
  <1>1. at' = "off" /\ plan' = <<>> /\ rlErr' = FALSE /\ UNCHANGED <<link, known, target>>
    BY DEF Killed
  <1>2. Data'
    BY <1>1, SameData
  <1>3. Control' /\ ReadyToAsk' /\ Leaving' /\ QuitClean'
    BY <1>1, EmptyShaped DEF Control, ReadyToAsk, Leaving, QuitClean
  <1> QED
    BY <1>2, <1>3 DEF MonitorInv

\* A device that stops is no surprise to a user who was told that it had.
LEMMA DeviceStopsInv == ASSUME MonitorInv, DeviceStops PROVE MonitorInv'
  <1>1. /\ cpu = "running" /\ cpu' = "stopped" /\ (brks # {} \/ at # "exited")
        /\ UNCHANGED <<at, plan, rlErr, link, known, entries, brks, orphans>>
    BY DEF DeviceStops, session
  <1>2. Data'
    BY <1>1 DEF MonitorInv, Data
  <1>3. Control' /\ ReadyToAsk' /\ Leaving' /\ QuitClean'
    BY <1>1 DEF MonitorInv, Control, ReadyToAsk, Leaving, QuitClean, Now
  <1> QED
    BY <1>2, <1>3 DEF MonitorInv

-----------------------------------------------------------------------------
(* The theorems.                                                           *)

LEMMA MonitorBegins == MonitorInit => MonitorInv
  BY EmptyShaped DEF MonitorInit, MonitorInv, Control, Data, ReadyToAsk, Leaving, QuitClean

LEMMA MonitorGoesOn == MonitorInv /\ [MonitorNext]_monitorVars => MonitorInv'
  <1> SUFFICES ASSUME MonitorInv, [MonitorNext]_monitorVars PROVE MonitorInv'
    OBVIOUS
  <1>1. CASE UNCHANGED monitorVars
    BY <1>1 DEF monitorVars, session, target, MonitorInv, Control, Data, ReadyToAsk, Leaving, QuitClean, Now
  <1>2. CASE Access \/ Set \/ Remove \/ RemoveAll \/ Erase
    BY <1>2, AccessInv, SetInv, RemoveInv, RemoveAllInv, EraseInv
  <1>3. CASE Runs \/ Wait \/ Check \/ Settle \/ Skip \/ Unless \/ ResetsLink
    BY <1>3, RunsInv, WaitInv, CheckInv, SettleInv, SkipInv, UnlessInv, ResetsLinkInv
  <1>4. CASE Answer \/ AnswerReset \/ Trace \/ Prompt \/ Loop \/ Down
    BY <1>4, AnswerInv, AnswerResetInv, TraceInv, PromptInv, LoopInv, DownInv
  <1>5. CASE Begin \/ Killed \/ DeviceStops
    BY <1>5, BeginInv, KilledInv, DeviceStopsInv
  <1> QED
    BY <1>1, <1>2, <1>3, <1>4, <1>5 DEF MonitorNext

LEMMA InvPrompts == MonitorInv => PromptStopped
  <1> SUFFICES ASSUME MonitorInv PROVE PromptStopped
    OBVIOUS
  <1>1. CASE at = "prompt"
    BY <1>1 DEF MonitorInv, Control, ReadyToAsk, PromptStopped, Now
  <1>2. CASE Now \in {"ask", "ask_reset"}
    <2>1. Now # "none" /\ Now # "check"
      BY <1>2
    <2>2. plan # <<>> /\ Shaped(plan) /\ Now = plan[1] /\ 1 \in 1 .. Len(plan)
      BY <2>1, NowSays, RestShaped DEF MonitorInv, Control
    <2>3. Asking(plan)
      BY <1>2, <2>2 DEF Asking
    <2> QED
      BY <2>1, <2>3, NowSays DEF PromptStopped
  <1> QED
    BY <1>1, <1>2 DEF PromptStopped

\* For every set of breakpoints, over a serial line and over the network, the user
\* is asked only about a stopped device, over a link that is up, with no exception
\* left from a wait (command_loop, check_if_running).
THEOREM UserIsAskedWell == MonitorSpec => []PromptStopped
  BY InvPrompts, MonitorBegins, MonitorGoesOn, PTL DEF MonitorSpec

\* A session that ends well leaves none of the BRKs its entries knew, and the device
\* running (finish).
THEOREM SessionsEndClean == MonitorSpec => []QuitClean
  <1>1. MonitorInv => QuitClean
    BY DEF MonitorInv
  <1> QED
    BY <1>1, MonitorBegins, MonitorGoesOn, PTL DEF MonitorSpec

-----------------------------------------------------------------------------
(* The specification of the run: sessions of the monitor, and devices of     *)
(* RunControl, two of them with constants of their own, for which the        *)
(* theorems of RunControlProofs are taken with those constants.              *)

\* The short program is one, and the latest revision with every fault is a device.
LEMMA LatestIsDevice == Latest!ProgramAssumption /\ Latest!DeviceAssumption
  <1>1. Latest!ProgramAssumption
    BY DEF Latest!ProgramAssumption, ShortAddr, ShortFlow, ShortKind
  <1>2. Latest!DeviceAssumption
    BY DeviceAssumption DEF Latest!DeviceAssumption
  <1> QED
    BY <1>1, <1>2

\* So is revision 0100 with the constants of the other one.
LEMMA FirstIsDevice == First!ProgramAssumption /\ First!DeviceAssumption
  BY ProgramAssumption, DeviceAssumption DEF First!ProgramAssumption, First!DeviceAssumption

\* The inductive invariant: each device has its own.
DevicesInv ==
    CASE chip = "latest" -> Latest!TypeInv
      [] chip = "first" -> First!TypeInv
      [] OTHER -> TypeInv
VariantsInv == DevicesInv /\ MonitorInv /\ remote \in BOOLEAN

LEMMA VariantsBegin == VariantInit => VariantsInv
  <1> SUFFICES ASSUME VariantInit PROVE VariantsInv
    OBVIOUS
  <1>1. CASE chip = "latest"
    <2>1. Latest!TypeInv
      BY <1>1, LatestIsDevice, Latest!InitTypes DEF VariantInit
    <2> QED
      BY <1>1, <2>1, MonitorBegins DEF VariantInit, VariantsInv, DevicesInv, MonitorInit
  <1>2. CASE chip = "first"
    <2>1. First!Init
      BY <1>2 DEF VariantInit, Init, First!Init, NoStop, First!NoStop
    <2>2. First!TypeInv
      BY <2>1, FirstIsDevice, First!InitTypes
    <2> QED
      BY <1>2, <2>2, MonitorBegins DEF VariantInit, VariantsInv, DevicesInv, MonitorInit
  <1>3. CASE chip \notin {"latest", "first"}
    BY <1>3, InitTypes, MonitorBegins DEF VariantInit, VariantsInv, DevicesInv, MonitorInit
  <1> QED
    BY <1>1, <1>2, <1>3

\* Only one of them moves; the others stay as they are.
LEMMA VariantsGoOn ==
    VariantsInv /\ [VariantNext]_<<chip, vars, monitorVars>> => VariantsInv'
  <1> SUFFICES ASSUME VariantsInv, [VariantNext]_<<chip, vars, monitorVars>> PROVE VariantsInv'
    OBVIOUS
  <1>1. UNCHANGED chip /\ [MonitorNext]_monitorVars
    BY DEF VariantNext
  <1>2. MonitorInv'
    BY <1>1, MonitorGoesOn DEF VariantsInv
  <1>3. remote' \in BOOLEAN
    BY <1>1 DEF VariantsInv, MonitorNext, Begin, monitorVars
  <1>4. CASE chip = "latest"
    <2>1. [Latest!Next]_(Latest!vars)
      BY <1>4 DEF VariantNext, vars, Latest!vars, device, Latest!device, line, Latest!line,
        copies, Latest!copies, table, Latest!table, op, Latest!op
    <2>2. Latest!TypeInv'
      BY <1>4, <2>1, LatestIsDevice, Latest!NextTypes DEF VariantsInv, DevicesInv
    <2> QED
      BY <1>1, <1>2, <1>3, <1>4, <2>2 DEF VariantsInv, DevicesInv
  <1>5. CASE chip = "first"
    <2>1. [First!Next]_(First!vars)
      BY <1>5 DEF VariantNext, vars, First!vars, device, First!device, line, First!line,
        copies, First!copies, table, First!table, op, First!op
    <2>2. First!TypeInv'
      BY <1>5, <2>1, FirstIsDevice, First!NextTypes DEF VariantsInv, DevicesInv
    <2> QED
      BY <1>1, <1>2, <1>3, <1>5, <2>2 DEF VariantsInv, DevicesInv
  <1>6. CASE chip \notin {"latest", "first"}
    <2>1. [Next]_vars
      BY <1>6 DEF VariantNext
    <2>2. TypeInv'
      BY <1>6, <2>1, NextTypes DEF VariantsInv, DevicesInv
    <2> QED
      BY <1>1, <1>2, <1>3, <1>6, <2>2 DEF VariantsInv, DevicesInv
  <1> QED
    BY <1>4, <1>5, <1>6

LEMMA VariantsInvariance == VariantSpec => []VariantsInv
  BY VariantsBegin, VariantsGoOn, PTL DEF VariantSpec

\* The state of the run is well formed: that of the monitor, and that of the device,
\* whichever of them is taken and whatever the constants are.
THEOREM VariantsTyped == VariantSpec => []VariantsTypeOK
  <1>1. VariantsInv => VariantsTypeOK
    <2> SUFFICES ASSUME VariantsInv PROVE VariantsTypeOK
      OBVIOUS
    <2>1. MonitorTypeOK
      BY DEF VariantsInv, MonitorInv, Control, Data, Shaped, MonitorTypeOK
    <2>2. IF chip = "latest" THEN Latest!TypeOK ELSE TypeOK
      BY DEF VariantsInv, DevicesInv, TypeInv, Latest!TypeInv, First!TypeInv, TypeOK, PartNames,
        First!TypeOK, First!PartNames, NoStop, First!NoStop, Clks, First!Clks
    <2> QED
      BY <2>1, <2>2 DEF VariantsTypeOK
  <1> QED
    BY <1>1, VariantsInvariance, PTL

\* In the run, too, no device is taken for stopped that runs, no program counter is
\* cached that is another, no BRK is without its entry, the user is asked only about
\* a stopped device, and a session that ends well leaves nothing behind.
THEOREM VariantsKeep ==
    VariantSpec => [](KnownStopped /\ PcCoherent /\ BreaksKnown /\ PromptStopped /\ QuitClean)
  <1>1. VariantsInv => KnownStopped /\ PcCoherent /\ BreaksKnown
    <2>1. Latest!TypeInv => KnownStopped /\ PcCoherent /\ BreaksKnown
      BY DEF Latest!TypeInv, Latest!Inv, Latest!CopiesTrue, KnownStopped, PcCoherent, BreaksKnown,
        Latest!KnownStopped, Latest!PcCoherent, Latest!BreaksKnown
    <2>2. First!TypeInv => KnownStopped /\ PcCoherent /\ BreaksKnown
      BY DEF First!TypeInv, First!Inv, First!CopiesTrue, KnownStopped, PcCoherent, BreaksKnown,
        First!KnownStopped, First!PcCoherent, First!BreaksKnown
    <2>3. TypeInv => KnownStopped /\ PcCoherent /\ BreaksKnown
      BY DEF TypeInv, Inv, CopiesTrue
    <2> QED
      BY <2>1, <2>2, <2>3 DEF VariantsInv, DevicesInv
  <1>2. VariantsInv => PromptStopped /\ QuitClean
    BY InvPrompts DEF VariantsInv, MonitorInv
  <1> QED
    BY <1>1, <1>2, VariantsInvariance, PTL
=============================================================================
