------------------------------ MODULE FlashCtl ------------------------------
(***************************************************************************)
(* The registers of the flash controller while the debugger erases and     *)
(* programs through them, and the information area that the page select    *)
(* register shows in place of the last page (ez8dbg_flash.cpp).  The       *)
(* memory cache of MemCache is off here.                                   *)
(***************************************************************************)
EXTENDS Integers, FiniteSets

CONSTANTS
    Pages,      \* pages of program memory, "last" among them
    Cells,      \* the bytes of a page
    Short,      \* those of the information area of the old revisions
    OldRevision,\* revision 0100 or 8100: the area is in data memory
    Freq,       \* what cache_freq computes
    Programs,   \* how the program may leave the controller when it is stopped
    Data,       \* the blocks written: functions from some of the cells to bytes
    FlashFaults \* "link" (a command throws), "slow" (an erase outlasts the timeout)

ASSUME FlashAssumption ==
    /\ {"last", "other"} \subseteq Pages /\ "info" \notin Pages
    /\ Short \subseteq Cells /\ OldRevision \in BOOLEAN
    /\ \A r \in Programs : r[1] \in {"locked", "half", "unlocked", "protect"}
                          /\ r[2] \in Pages \cup {"info"}
    /\ Data \subseteq UNION {[C -> {"ff", "x", "00"}] : C \in SUBSET Cells}

VARIABLES
    stat,       \* device: the status register: "locked", "half" (one unlock),
                \* "unlocked", "protect" (sector protect selected) or "erasing"
    sel,        \* device: the page select register: a page, or "info"
    freq,       \* device: the frequency registers
    prog, area, \* device: program memory and information area
    slow,       \* device: what the erase under way erases
    linked,     \* the link is up
    step,       \* the part of the operation that comes next
    call,       \* the operation in progress, and its locals
    before      \* prog and area when it began

regs == <<stat, sel, freq>>
memory == <<prog, area, slow>>
flashVars == <<stat, sel, freq, prog, area, slow, linked, step, call, before>>

\* Bytes: erased, any, and all bits programmed.
Bytes == {"ff", "x", "00"}
Contents == [Cells -> Bytes]
BlankCells == [c \in Cells |-> "ff"]

Over(m, d) == [c \in Cells |-> IF c \in DOMAIN d THEN d[c] ELSE m[c]]

\* Programming only clears bits.
Burnt(old, new) == IF old = "ff" THEN new ELSE IF new \in {"ff", old} THEN old ELSE "00"
BurntCells(m, d) == [c \in Cells |-> IF c \in DOMAIN d THEN Burnt(m[c], d[c]) ELSE m[c]]

NoCall == [op |-> "none", page |-> "last", data |-> <<>>, copy |-> BlankCells,
           saved |-> <<"locked", "last", Freq>>]

-----------------------------------------------------------------------------
(* Program memory and information area through the registers.              *)

InfoCells == IF OldRevision THEN Short ELSE Cells

\* ez8ocd::rd_mem and wr_mem at the last page: the information area, when it is
\* selected, on the revisions that have it there.
ShowsInfo(p) == p = "last" /\ sel = "info" /\ ~OldRevision
ReadPage(p) == IF ShowsInfo(p) THEN area ELSE prog[p]

\* What is programmed is programmed only while the controller is unlocked.
ProgramPage(p, d) ==
    IF stat # "unlocked" THEN UNCHANGED <<prog, area>>
    ELSE IF ShowsInfo(p) THEN area' = BurntCells(area, d) /\ UNCHANGED prog
    ELSE prog' = [prog EXCEPT ![p] = BurntCells(@, d)] /\ UNCHANGED area

ReadInfo == [c \in Cells |-> IF c \in InfoCells /\ sel = "info" THEN area[c] ELSE "ff"]
ProgramInfo(d) ==
    /\ prog' = prog
    /\ area' = IF stat = "unlocked" /\ sel = "info"
               THEN BurntCells(area, [c \in DOMAIN d \cap InfoCells |-> d[c]]) ELSE area

LinkThrows ==
    /\ "link" \in FlashFaults
    /\ linked' = FALSE /\ step' = "idle" /\ call' = NoCall
Throws == linked' = linked /\ step' = "idle" /\ call' = NoCall
Goes(next) == linked' = linked /\ step' = next

\* While it erases, the controller ignores what is written to its registers.
Registers(s, p, f) ==
    IF stat = "erasing" THEN UNCHANGED regs ELSE stat' = s /\ sel' = p /\ freq' = f

-----------------------------------------------------------------------------
(* The operations.                                                         *)

\* save_flash_state, where the operation has it.
Ask(op, p, d) ==
    /\ step = "idle" /\ linked
    /\ before' = <<prog, area>>
    /\ call' = [op |-> op, page |-> p, data |-> d, copy |-> BlankCells, saved |-> regs]
    /\ step' = IF op \in {"rd_info", "wr_info"} THEN "select"
               ELSE IF op \in {"wr_mem", "set_breakpoint"} THEN "read" ELSE "setup"
    /\ UNCHANGED <<regs, memory, linked>>

\* rd_info and wr_info select the area.
Select ==
    /\ step = "select"
    /\ \/ Registers(stat, "info", freq) /\ Goes("read") /\ UNCHANGED call
       \/ LinkThrows /\ UNCHANGED regs
    /\ UNCHANGED <<memory, before>>

\* The block is read, to know what is to be kept and whether to erase.
ReadBlock ==
    /\ step = "read"
    /\ \/ \E m \in {IF call.op \in {"rd_info", "wr_info"} THEN ReadInfo ELSE ReadPage(call.page)} :
            /\ call' = [call EXCEPT !.copy = m]
            /\ Goes(IF call.op = "rd_info" THEN "restore"
                    ELSE IF call.op # "set_breakpoint" /\ m # BlankCells THEN "setup" ELSE "program_setup")
       \/ LinkThrows
    /\ UNCHANGED <<regs, memory, before>>

\* The page that flash_setup selects: that to erase, none in particular to
\* program memory, the information area.
SetupPage ==
    IF call.op = "wr_info" \/ call.op = "mass_erase_info" THEN "info"
    ELSE IF step = "setup" /\ call.op = "wr_mem" THEN call.page ELSE "other"

\* flash_setup is three commands, before an erase or before programming.
After ==
    [setup |-> "unlock0", unlock0 |-> "unlock1", unlock1 |-> "erase",
     program_setup |-> "program_unlock0", program_unlock0 |-> "program_unlock1",
     program_unlock1 |-> "program"]

\* A command to the registers, which takes effect or not when it throws.
Command(effect) ==
    \/ effect /\ (LinkThrows \/ (Goes(After[step]) /\ UNCHANGED call))
    \/ LinkThrows /\ UNCHANGED regs

\* Mutant: flash_setup leaves the page select register alone.
SetupUnselected ==
    /\ step \in {"setup", "program_setup"}
    /\ Command(Registers("locked", sel, Freq))
    /\ UNCHANGED <<memory, before>>

\* Four registers at once: the lock code, the page and the frequency,
Setup ==
    /\ step \in {"setup", "program_setup"}
    /\ Command(Registers("locked", SetupPage, Freq))
    /\ UNCHANGED <<memory, before>>

\* and two unlock codes, the second of which is one only after the first.
Unlock ==
    /\ \/ /\ step \in {"unlock0", "program_unlock0"}
          /\ Command(Registers("half", sel, freq))
       \/ /\ step \in {"unlock1", "program_unlock1"}
          /\ Command(Registers(IF stat = "half" THEN "unlocked" ELSE "locked", sel, freq))
    /\ UNCHANGED <<memory, before>>

\* What an erase command that is given now erases.
Erasing ==
    IF call.op \in {"mass_erase", "mass_erase_info"}
    THEN Pages \cup (IF sel = "info" THEN {"info"} ELSE {}) ELSE {sel}

\* The wait is over.
Erased ==
    IF call.op \in {"wr_mem", "wr_info"} THEN Goes("program_setup") /\ UNCHANGED call ELSE Throws

Erases(E) ==
    /\ prog' = [p \in Pages |-> IF p \in E THEN BlankCells ELSE prog[p]]
    /\ area' = IF "info" \in E THEN BlankCells ELSE area
    /\ slow' = {}

\* The erase command, and the wait for it.  The controller locks itself when it
\* has erased.  An erase that is still under way is waited for, too; a controller
\* that is locked ignores the command, and there is nothing to wait for.
Erase ==
    /\ step = "erase"
    /\ \/ /\ stat = "unlocked" /\ Erases(Erasing) /\ stat' = "locked"
          /\ Erased \/ LinkThrows
       \/ /\ stat = "unlocked" /\ "slow" \in FlashFaults
          /\ slow' = Erasing /\ stat' = "erasing"
          /\ Throws
          /\ UNCHANGED <<prog, area>>
       \/ LinkThrows /\ UNCHANGED <<stat, memory>>
       \/ stat = "locked" /\ Erased /\ UNCHANGED <<stat, memory>>
       \/ stat = "erasing" /\ Throws /\ UNCHANGED <<stat, memory>>
       \/ /\ stat = "erasing" /\ Erases(slow) /\ stat' = "locked"
          /\ Erased
    /\ UNCHANGED <<sel, freq, before>>

\* The late end of an erase that timed out.
Finishes ==
    /\ stat = "erasing" /\ step # "erase"
    /\ Erases(slow) /\ stat' = "locked"
    /\ UNCHANGED <<sel, freq, linked, step, call, before>>

\* The page with the data in it is programmed.
Program ==
    /\ step = "program"
    /\ LET d == IF call.op = "set_breakpoint" THEN call.data ELSE Over(call.copy, call.data) IN
        /\ IF call.op = "wr_info" THEN ProgramInfo(d) ELSE ProgramPage(call.page, d)
        /\ \/ Goes("lock") /\ call' = [call EXCEPT !.copy = Over(@, call.data)]
           \/ LinkThrows
    /\ UNCHANGED <<regs, slow, before>>

Lock ==
    /\ step = "lock"
    /\ \/ Registers("locked", sel, freq) /\ Goes("verify") /\ UNCHANGED call
       \/ LinkThrows /\ UNCHANGED regs
    /\ UNCHANGED <<memory, before>>

Verify ==
    /\ step = "verify"
    /\ \/ /\ (IF call.op = "wr_info" THEN ReadInfo ELSE ReadPage(call.page)) = call.copy
          /\ Goes("restore") /\ UNCHANGED call
       \/ (IF call.op = "wr_info" THEN ReadInfo ELSE ReadPage(call.page)) # call.copy /\ Throws
       \/ LinkThrows
    /\ UNCHANGED <<regs, memory, before>>

\* restore_flash_state: a control register that changed, to locked by flash_lock,
\* is locked and then unlocked as the current one is, not the saved one: it stays
\* as it is.  The page is put back, and the frequency is written if it did not
\* change.  set_breakpoint does without.
Restore ==
    /\ step = "restore"
    /\ \/ call.op = "set_breakpoint" /\ Goes("returned") /\ UNCHANGED <<call, regs>>
       \/ /\ call.op # "set_breakpoint" /\ "erasing" \in {call.saved[1], stat}
          /\ Throws /\ UNCHANGED regs
       \/ /\ call.op # "set_breakpoint" /\ "erasing" \notin {call.saved[1], stat}
          /\ sel' = call.saved[2] /\ UNCHANGED <<stat, freq>>
          /\ Goes("returned") /\ UNCHANGED call
       \/ LinkThrows /\ \E p \in {sel, call.saved[2]} : Registers(stat, p, freq)
    /\ UNCHANGED <<memory, before>>

\* The caller has its result.
Return ==
    /\ step = "returned"
    /\ step' = "idle" /\ call' = NoCall
    /\ UNCHANGED <<regs, memory, linked, before>>

LinkReset == step = "idle" /\ linked' = TRUE /\ UNCHANGED <<regs, memory, step, call, before>>

\* The device ran: its program has used the controller for itself.
ProgramRan ==
    /\ step = "idle" /\ linked /\ stat # "erasing"
    /\ \E r \in Programs : stat' = r[1] /\ sel' = r[2] /\ freq' = r[3]
    /\ UNCHANGED <<memory, linked, step, call, before>>

FlashInit ==
    /\ stat = "locked" /\ sel = "other" /\ freq \in {r[3] : r \in Programs}
    /\ prog \in {[p \in Pages |-> BlankCells], [p \in Pages |-> [c \in Cells |-> "x"]]}
    /\ area \in {BlankCells}
    /\ slow = {}
    /\ linked = TRUE /\ step = "idle" /\ call = NoCall
    /\ before = <<prog, area>>

Asks ==
    \/ Ask("rd_info", "last", <<>>)
    \/ \E d \in Data : Ask("wr_info", "last", d) \/ \E p \in Pages : Ask("wr_mem", p, d)
    \/ \E p \in Pages, c \in Cells : Ask("set_breakpoint", p, [x \in {c} |-> "00"])
    \/ Ask("mass_erase", "last", <<>>) \/ Ask("mass_erase_info", "last", <<>>)

FlashNext ==
    \/ Asks \/ Select \/ ReadBlock \/ Setup \/ Unlock \/ Erase \/ Finishes \/ Program \/ Lock
    \/ Verify \/ Restore \/ Return \/ LinkReset \/ ProgramRan

FlashSpec == FlashInit /\ [][FlashNext]_flashVars

-----------------------------------------------------------------------------

FlashTypeOK ==
    /\ stat \in {"locked", "half", "unlocked", "protect", "erasing"}
    /\ sel \in Pages \cup {"info"}
    /\ prog \in [Pages -> Contents] /\ area \in Contents
    /\ slow \subseteq Pages \cup {"info"} /\ (slow # {} <=> stat = "erasing")
    /\ linked \in BOOLEAN
    /\ step \in DOMAIN After
                 \cup {"idle", "select", "read", "erase", "program", "lock", "verify", "restore", "returned"}
    /\ call.copy \in Contents

\* The information area changes only while it is written or erased by name, by
\* the late end of such an erase, and by an operation begun before such an end, the
\* page select of whose flash_setup is ignored then, and the unlock codes not: else
\* no operation reaches it through the window, whatever page a failed operation or
\* the program left selected, and wherever between the commands a late end falls.
InfoKept ==
    [][area' # area =>
        \/ call.op \in {"wr_info", "mass_erase_info"}
        \/ "info" \in slow
        \/ call.saved[1] = "erasing" /\ call.saved[2] = "info"]_flashVars

\* An operation that returns has changed the bytes that it was asked to change,
\* in its own page or area, and has kept every other byte: if when it began the
\* information area was not in the window, and no erase was still under way.
WritesExact ==
    step = "returned" /\ (call.saved[2] # "info" \/ OldRevision) /\ call.saved[1] # "erasing" =>
        /\ call.op \in {"wr_mem", "set_breakpoint"} =>
            prog = [before[1] EXCEPT ![call.page] = Over(@, call.data)] /\ area = before[2]
        /\ call.op = "wr_info" => prog = before[1] /\ area = Over(before[2], call.data)
        /\ call.op = "rd_info" => prog = before[1] /\ call.copy = [c \in Cells |->
                                    IF c \in InfoCells THEN area[c] ELSE "ff"]

\* "needed to restore data at beginning and end of modified pages"
\* (ez8dbg_flash.cpp:218): the same, whatever is selected.
RestKept ==
    step = "returned" /\ call.op = "wr_mem" =>
        prog = [before[1] EXCEPT ![call.page] = Over(@, call.data)]

\* "This will restore the flash registers" (ez8dbg_flash.cpp:442): an operation that
\* saves and restores them, and returns, leaves them as it found them.
RegistersRestored == step = "returned" /\ call.op # "set_breakpoint" => regs = call.saved
=============================================================================
