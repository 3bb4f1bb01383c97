----------------------------- MODULE FlashProofs -----------------------------
(***************************************************************************)
(* The three levels of a write to the flash.  The registers: what FlashCtl  *)
(* says of the information area and of the bytes that a write keeps, for    *)
(* every set of pages and cells, every use that the program makes of the    *)
(* controller, and every fault.  The utility: a serial number is given      *)
(* again only when the bytes that hold it have run through all numbers, and *)
(* a part that is reported good holds what it was to hold, for every number *)
(* of parts of whatever sizes.  The files: what is accepted is placed as    *)
(* its lines say, unless an S-record goes to where addresses wrap, and what *)
(* was written is read back, for every image and file.                      *)
(***************************************************************************)
EXTENDS MCFlash, DataInduction

(* The registers.                                                          *)

Stats == {"locked", "half", "unlocked", "protect", "erasing"}
Areas == Pages \cup {"info"}
Freqs == {Freq} \cup {r[3] : r \in Programs}
BlockSet == UNION {[C -> Bytes] : C \in SUBSET Cells}
InInfo == {"rd_info", "wr_info"}
InPage == {"wr_mem", "set_breakpoint"}
Masses == {"mass_erase", "mass_erase_info"}

Calls == [op : {"none"} \cup InInfo \cup InPage \cup Masses, page : Pages,
          data : BlockSet, copy : Contents, saved : Stats \X Areas \X Freqs]

Typed == FlashTypeOK /\ freq \in Freqs /\ call \in Calls /\ before \in [Pages -> Contents] \X Contents

\* The commands of the two setups, and what follows the page select of each.
Clearing == {"unlock0", "unlock1", "erase"}
Writing == {"program_unlock0", "program_unlock1", "program"}

\* What an operation has still to do, and what its steps have made of the
\* controller: after a setup the information area is in the window for the
\* operations on it only, unless the page select was ignored; it is ignored for
\* the sake of an erase under way, which is older than the operation.
Chosen ==
    /\ step \in Clearing \cup Writing /\ sel = "info"
            => \/ call.op \in {"wr_info", "mass_erase_info"}
               \/ call.saved[1] = "erasing" /\ call.saved[2] = "info"
    /\ step \in {"read", "setup", "program_setup"} /\ sel = "info"
            => call.op \in InInfo \cup {"mass_erase_info"} \/ call.saved[2] = "info"
    /\ step # "idle" /\ stat = "erasing" => call.saved[1] = "erasing"
    /\ step \in {"select", "read", "verify", "restore", "returned"} => stat \in {"locked", call.saved[1]}
    /\ step = "returned" /\ call.op # "set_breakpoint" => sel = call.saved[2]
    /\ step = "select" => call.op \in InInfo
    /\ step = "read" => call.op \in InInfo \cup InPage
    /\ step \in {"setup"} \cup Clearing => call.op \in {"wr_mem", "wr_info"} \cup Masses
    /\ step \in {"program_setup", "lock", "verify"} \cup Writing => call.op \in InPage \cup {"wr_info"}
    /\ step = "restore" => call.op \in InPage \cup InInfo

\* The old revisions have nothing in the rest of the area.
Outside == \A c \in Cells \ InfoCells : area[c] = "ff"

\* An operation that began without the information area in the window and
\* without an erase under way ...
Clean == step # "idle" /\ (call.saved[2] # "info" \/ OldRevision) /\ call.saved[1] # "erasing"

\* ... works on what it found,
Base == IF call.op = "wr_info" THEN before[2] ELSE before[1][call.page]

\* and touches nothing else: its copy is the base until it programs, then the
\* base with the data in it, which the device agrees to when it returns.
Apart ==
    /\ call.op \in InInfo => prog = before[1]
    /\ call.op \in InPage => area = before[2] /\ \A p \in Pages \ {call.page} : prog[p] = before[1][p]
    /\ step \in {"select", "read"} => before = <<prog, area>>
Windowed ==
    /\ step \in {"unlock0", "program_unlock0"} => stat = "locked"
    /\ step \in {"unlock1", "program_unlock1"} => stat = "half"
    /\ step \in {"erase", "program"} => stat = "unlocked"
    /\ call.op \in InInfo /\ step \notin {"select", "returned"} => sel = "info"
    /\ step = "read" /\ call.op \in InPage => sel = call.saved[2]
    /\ step \in Clearing /\ call.op = "wr_mem" => sel = call.page
    /\ step \in Writing \cup {"lock", "verify"} /\ call.op \in InPage => sel = "other"
Copied ==
    /\ step \in {"setup", "program_setup"} \cup Clearing \cup Writing
            /\ call.op \in InPage \cup {"wr_info"} => call.copy = Base
    /\ step \in {"lock", "verify"} => call.copy = Over(Base, call.data)
    /\ step \in {"restore", "returned"} /\ call.op \in InPage => prog[call.page] = Over(Base, call.data)
    /\ step \in {"restore", "returned"} /\ call.op = "wr_info" => area = Over(Base, call.data)
    /\ step \in {"restore", "returned"} /\ call.op = "rd_info" => call.copy = area

CtlInv == Typed /\ Chosen /\ Outside /\ (Clean => Apart /\ Windowed /\ Copied)

-----------------------------------------------------------------------------
(* The contents of a page.                                                 *)

LEMMA BlankIsContents == BlankCells \in Contents
BY DEF BlankCells, Contents, Bytes

LEMMA OverIsContents ==
    ASSUME NEW m \in Contents, NEW d \in BlockSet
    PROVE  Over(m, d) \in Contents
BY DEF Over, Contents, BlockSet

LEMMA BurntIsContents ==
    ASSUME NEW m \in Contents, NEW d, \A c \in Cells \cap DOMAIN d : d[c] \in Bytes
    PROVE  BurntCells(m, d) \in Contents
<1>1. \A a, b \in Bytes : Burnt(a, b) \in Bytes
  BY DEF Burnt, Bytes
<1>2. \A c \in Cells : m[c] \in Bytes
  BY DEF Contents
<1>3. \A c \in Cells : (IF c \in DOMAIN d THEN Burnt(m[c], d[c]) ELSE m[c]) \in Bytes
  BY <1>1, <1>2
<1>4. QED BY <1>3 DEF BurntCells, Contents

LEMMA BlocksAreBytes ==
    ASSUME NEW d \in BlockSet
    PROVE  DOMAIN d \subseteq Cells /\ \A c \in DOMAIN d : d[c] \in Bytes
BY DEF BlockSet

LEMMA SmallBlocks == <<>> \in BlockSet /\ \A c \in Cells : [x \in {c} |-> "00"] \in BlockSet
<1>1. <<>> \in [{} -> Bytes]
  OBVIOUS
<1>2. \A c \in Cells : [x \in {c} |-> "00"] \in [{c} -> Bytes]
  BY DEF Bytes
<1>3. \A c \in Cells : {c} \in SUBSET Cells
  OBVIOUS
<1>4. \A C \in SUBSET Cells : [C -> Bytes] \subseteq BlockSet
  BY DEF BlockSet
<1>5. {} \in SUBSET Cells
  OBVIOUS
<1>6. QED BY <1>1, <1>2, <1>3, <1>4, <1>5

LEMMA DataAreBlocks == Data \subseteq BlockSet
BY FlashAssumption DEF BlockSet, Bytes

\* What is read of a page or of the area, and what programming leaves there.
LEMMA ReadsAreContents ==
    ASSUME Typed
    PROVE  ReadInfo \in Contents /\ ReadPage(call.page) \in Contents
<1>1. call.page \in Pages
  BY DEF Typed, Calls
<1>2. QED BY <1>1 DEF Typed, FlashTypeOK, ReadInfo, ReadPage, Contents, Bytes

LEMMA ProgramKeepsContents ==
    ASSUME Typed, NEW d \in BlockSet,
           IF call.op = "wr_info" THEN ProgramInfo(d) ELSE ProgramPage(call.page, d)
    PROVE  prog' \in [Pages -> Contents] /\ area' \in Contents
<1>1. call.page \in Pages /\ area \in Contents /\ prog \in [Pages -> Contents] /\ prog[call.page] \in Contents
  BY DEF Typed, Calls, FlashTypeOK
<1>2. BurntCells(area, d) \in Contents /\ BurntCells(prog[call.page], d) \in Contents
  BY <1>1, BurntIsContents, BlocksAreBytes
<1>3. BurntCells(area, [c \in DOMAIN d \cap InfoCells |-> d[c]]) \in Contents
  <2>1. \A c \in Cells \cap DOMAIN [x \in DOMAIN d \cap InfoCells |-> d[x]] :
            [x \in DOMAIN d \cap InfoCells |-> d[x]][c] \in Bytes
    BY BlocksAreBytes
  <2>2. QED BY <2>1, <1>1, BurntIsContents
<1>4. QED BY <1>1, <1>2, <1>3 DEF ProgramInfo, ProgramPage

LEMMA EraseKeepsContents ==
    ASSUME Typed, NEW E, Erases(E)
    PROVE  /\ prog' \in [Pages -> Contents] /\ area' \in Contents
           /\ \A p \in Pages \ E : prog'[p] = prog[p]
           /\ "info" \notin E => area' = area
           /\ E \cap Pages = {} => prog' = prog
BY BlankIsContents DEF Erases, Typed, FlashTypeOK

-----------------------------------------------------------------------------
(* Each action keeps the invariant.  Where the operation ends, nothing is      *)
(* left to be said of it.                                                      *)

LEMMA NoCallIsCall == NoCall \in Calls
<1>1. Freq \in Freqs /\ "last" \in Pages /\ "last" \in Areas
  BY FlashAssumption DEF Freqs, Areas
<1>2. QED BY <1>1, BlankIsContents, SmallBlocks DEF NoCall, Calls, Stats

\* What a step that ends the operation must still keep.
LEMMA EndsKeep ==
    ASSUME step' = "idle", Typed', Outside'
    PROVE  CtlInv'
BY DEF CtlInv, Chosen, Clean, Clearing, Writing

LEMMA AskKeeps ==
    ASSUME CtlInv, NEW op \in InInfo \cup InPage \cup Masses, NEW p \in Pages, NEW d \in BlockSet,
           Ask(op, p, d)
    PROVE  CtlInv'
<1>1. regs \in Stats \X Areas \X Freqs
  BY DEF CtlInv, Typed, FlashTypeOK, regs, Stats, Areas, After
<1>2. call' \in Calls
  BY <1>1, BlankIsContents DEF Ask, Calls
<1>3. Typed'
  BY <1>2 DEF Ask, CtlInv, Typed, FlashTypeOK, regs, memory, Calls, After
<1>4. /\ step' \in {"select", "read", "setup"}
      /\ step' = "select" => op \in InInfo
      /\ step' = "read" => op \in InPage
      /\ step' = "setup" => op \in Masses
  BY DEF Ask, InInfo, InPage, Masses
<1>5. call'.saved[1] = stat' /\ call'.saved[2] = sel' /\ call'.op = op /\ before' = <<prog', area'>>
      /\ call'.page = p
  BY DEF Ask, regs, memory
<1>6. Chosen'
  BY <1>4, <1>5 DEF Chosen, InInfo, InPage, Masses, Clearing, Writing
<1>7. Outside'
  BY DEF CtlInv, Outside, Ask, memory
<1>8. Apart' /\ Windowed' /\ Copied'
  BY <1>4, <1>5 DEF Apart, Windowed, Copied, InInfo, InPage, Masses, Clearing, Writing
<1>9. QED BY <1>3, <1>6, <1>7, <1>8 DEF CtlInv

LEMMA AsksKeep == ASSUME CtlInv, Asks PROVE CtlInv'
<1>1. /\ "last" \in Pages /\ <<>> \in BlockSet
      /\ \A d \in Data : d \in BlockSet
      /\ \A c \in Cells : [x \in {c} |-> "00"] \in BlockSet
      /\ {"rd_info", "wr_info", "wr_mem", "set_breakpoint", "mass_erase", "mass_erase_info"}
            = InInfo \cup InPage \cup Masses
  BY FlashAssumption, SmallBlocks, DataAreBlocks DEF InInfo, InPage, Masses
<1>2. QED BY <1>1, AskKeeps DEF Asks

LEMMA SelectKeeps == ASSUME CtlInv, Select PROVE CtlInv'
<1>1. Typed' /\ Outside'
  BY NoCallIsCall, BlankIsContents
  DEF Select, Registers, LinkThrows, Goes, CtlInv, Typed, FlashTypeOK, Outside, regs, memory, Calls, After
<1>2. CASE step' = "idle"
  BY <1>1, <1>2, EndsKeep
<1>3. CASE step' # "idle"
  <2>1. Registers(stat, "info", freq) /\ step' = "read" /\ UNCHANGED <<call, memory, before>> /\ step = "select"
    BY <1>3 DEF Select, LinkThrows, Goes
  <2>2. Chosen'
    BY <2>1 DEF CtlInv, Chosen, Registers, regs, memory, InInfo, InPage, Masses, Clearing, Writing
  <2>3. ASSUME Clean' PROVE (Apart /\ Windowed /\ Copied)'
    <3>1. stat # "erasing" /\ sel' = "info" /\ Clean
      BY <2>1, <2>3 DEF Clean, CtlInv, Chosen, Registers, regs, Clearing, Writing
    <3>2. QED BY <3>1, <2>1 DEF CtlInv, Chosen, Apart, Windowed, Copied, memory, InInfo, InPage, Masses, Clearing, Writing
  <2>4. QED BY <1>1, <2>2, <2>3 DEF CtlInv
<1>4. QED BY <1>2, <1>3

LEMMA ReadBlockKeeps == ASSUME CtlInv, ReadBlock PROVE CtlInv'
<1>1. Outside'
  BY DEF ReadBlock, CtlInv, Outside, memory
<1>2. CASE LinkThrows
  <2>1. Typed'
    BY <1>2, NoCallIsCall DEF ReadBlock, LinkThrows, CtlInv, Typed, FlashTypeOK, regs, memory, Calls, After
  <2>2. QED BY <1>1, <1>2, <2>1, EndsKeep DEF LinkThrows
<1>3. CASE \E m \in {IF call.op \in {"rd_info", "wr_info"} THEN ReadInfo ELSE ReadPage(call.page)} :
            /\ call' = [call EXCEPT !.copy = m]
            /\ Goes(IF call.op = "rd_info" THEN "restore"
                    ELSE IF call.op # "set_breakpoint" /\ m # BlankCells THEN "setup" ELSE "program_setup")
  <2> DEFINE m == IF call.op \in InInfo THEN ReadInfo ELSE ReadPage(call.page)
  <2>1. /\ call' = [call EXCEPT !.copy = m] /\ linked' = linked
        /\ step' = IF call.op = "rd_info" THEN "restore"
                   ELSE IF call.op # "set_breakpoint" /\ m # BlankCells THEN "setup" ELSE "program_setup"
        /\ UNCHANGED <<regs, memory, before>> /\ step = "read"
    BY <1>3 DEF Goes, InInfo, ReadBlock
  <2>2. m \in Contents
    BY ReadsAreContents DEF CtlInv
  <2>3. call' \in Calls /\ call'.copy = m
        /\ call'.op = call.op /\ call'.page = call.page /\ call'.data = call.data /\ call'.saved = call.saved
    BY <2>1, <2>2 DEF CtlInv, Typed, Calls
  <2> HIDE DEF m
  <2>4. Typed'
    BY <2>1, <2>2, <2>3 DEF CtlInv, Typed, FlashTypeOK, regs, memory, After
  <2>5. Chosen'
    BY <2>1, <2>3 DEF CtlInv, Chosen, regs, memory, InInfo, InPage, Masses, Clearing, Writing
  <2>6. ASSUME Clean' PROVE (Apart /\ Windowed /\ Copied)'
    <3>1. Clean /\ Apart /\ Windowed
      BY <2>1, <2>3, <2>6 DEF CtlInv, Clean
    <3>2. Apart' /\ Windowed'
      BY <3>1, <2>1, <2>3 DEF CtlInv, Chosen, Apart, Windowed, regs, memory, InInfo, InPage, Masses, Clearing, Writing
    <3>3. call.op \in InInfo => m = area
      <4>1. area \in Contents
        BY DEF CtlInv, Typed, FlashTypeOK, After
      <4>2. call.op \in InInfo => sel = "info" /\ m = ReadInfo
        BY <3>1, <2>1 DEF Windowed, m, Clearing, Writing
      <4>3. QED BY <4>1, <4>2 DEF CtlInv, Outside, ReadInfo, Contents
    <3>4. call.op \in InPage => m = prog[call.page]
      BY <3>1, <2>1 DEF Windowed, Clean, m, ReadPage, ShowsInfo, InPage, InInfo, Clearing, Writing
    <3>5. Base' = (IF call.op = "wr_info" THEN area ELSE prog[call.page])
      BY <3>1, <2>1, <2>3 DEF Base, Apart
    <3>6. Copied'
      BY <3>3, <3>4, <3>5, <2>1, <2>3 DEF Copied, memory, InInfo, InPage, CtlInv, Chosen, Clearing, Writing
    <3>7. QED BY <3>2, <3>6
  <2>7. QED BY <1>1, <2>4, <2>5, <2>6 DEF CtlInv
<1>4. QED BY <1>2, <1>3 DEF ReadBlock

\* A command to the registers leaves the types, the area and the rest as they are.
LEMMA CommandTypes ==
    ASSUME CtlInv, NEW s \in Stats \ {"erasing"}, NEW q \in Areas, NEW f \in Freqs,
           step \in DOMAIN After, Command(Registers(s, q, f)), UNCHANGED <<memory, before>>
    PROVE  /\ Typed' /\ Outside'
           /\ \/ step' = "idle"
              \/ step' = After[step] /\ call' = call /\ Registers(s, q, f)
<1>1. Outside' /\ (UNCHANGED regs \/ Registers(s, q, f))
  BY DEF Command, CtlInv, Outside, memory
<1>2. \/ step' = "idle" /\ call' = NoCall /\ linked' = FALSE
      \/ step' = After[step] /\ call' = call /\ Registers(s, q, f) /\ linked' = linked
  BY DEF Command, LinkThrows, Goes
<1>3. After[step] \in DOMAIN After \cup {"erase", "program"}
  BY DEF After
<1>4. /\ stat' \in Stats /\ sel' \in Areas /\ freq' \in Freqs
      /\ stat' = "erasing" <=> stat = "erasing"
  BY <1>1 DEF Registers, regs, CtlInv, Typed, FlashTypeOK, Stats, Areas, After
<1>5. call' \in Calls
  BY <1>2, NoCallIsCall DEF CtlInv, Typed
<1>6. call'.copy \in Contents
  BY <1>5 DEF Calls
<1>7. step' \in DOMAIN After \cup {"idle", "erase", "program"} /\ linked' \in BOOLEAN
  BY <1>2, <1>3 DEF CtlInv, Typed, FlashTypeOK, After
<1>8. Typed'
  BY <1>4, <1>5, <1>6, <1>7 DEF CtlInv, Typed, FlashTypeOK, memory, Stats, Areas, After
<1>9. QED BY <1>1, <1>2, <1>8

LEMMA SetupKeeps == ASSUME CtlInv, Setup PROVE CtlInv'
<1>1. SetupPage \in Areas /\ Freq \in Freqs
  BY FlashAssumption DEF SetupPage, Areas, Freqs, CtlInv, Typed, Calls
<1>2. /\ step \in {"setup", "program_setup"} /\ UNCHANGED <<memory, before>>
      /\ Command(Registers("locked", SetupPage, Freq))
  BY DEF Setup
<1>3. step \in DOMAIN After /\ "locked" \in Stats \ {"erasing"}
  BY <1>2 DEF After, Stats
<1>4. /\ Typed' /\ Outside'
      /\ \/ step' = "idle"
         \/ step' = After[step] /\ call' = call /\ Registers("locked", SetupPage, Freq)
  BY <1>1, <1>2, <1>3, CommandTypes
<1>5. CASE step' = "idle"
  BY <1>4, <1>5, EndsKeep
<1>6. CASE step' = After[step] /\ call' = call /\ Registers("locked", SetupPage, Freq)
  <2>1. step' = IF step = "setup" THEN "unlock0" ELSE "program_unlock0"
    BY <1>2, <1>6 DEF After
  <2>2. SetupPage = "info" => call.op \in {"wr_info", "mass_erase_info"}
    BY FlashAssumption DEF SetupPage, CtlInv, Typed, Calls
  <2>3. \/ stat = "erasing" /\ stat' = stat /\ sel' = sel
        \/ stat # "erasing" /\ stat' = "locked" /\ sel' = SetupPage
    BY <1>6 DEF Registers, regs
  <2>4. Chosen'
    BY <1>2, <1>6, <2>1, <2>2, <2>3
    DEF CtlInv, Chosen, InInfo, InPage, Masses, Clearing, Writing
  <2>5. ASSUME Clean' PROVE (Apart /\ Windowed /\ Copied)'
    <3>1. Clean /\ stat # "erasing"
      BY <2>5, <1>2, <1>6 DEF Clean, CtlInv, Chosen, Clearing, Writing
    <3>2. Apart' /\ Copied'
      BY <3>1, <1>2, <1>6, <2>1 DEF CtlInv, Apart, Copied, Base, memory, Clearing, Writing
    <3>3. /\ call.op = "wr_info" => SetupPage = "info"
          /\ call.op = "wr_mem" /\ step = "setup" => SetupPage = call.page
          /\ call.op \in InPage /\ step = "program_setup" => SetupPage = "other"
      BY DEF SetupPage, InPage
    <3>4. Windowed'
      BY <3>1, <3>3, <1>2, <1>6, <2>1, <2>3
      DEF CtlInv, Chosen, Windowed, InInfo, InPage, Masses, Clearing, Writing
    <3>5. QED BY <3>2, <3>4
  <2>6. QED BY <1>4, <2>4, <2>5 DEF CtlInv
<1>7. QED BY <1>4, <1>5, <1>6

LEMMA UnlockKeeps == ASSUME CtlInv, Unlock PROVE CtlInv'
<1>1. PICK s \in {"half", "unlocked", "locked"} :
            /\ step \in {"unlock0", "program_unlock0", "unlock1", "program_unlock1"}
            /\ step \in {"unlock0", "program_unlock0"} => s = "half"
            /\ step \in {"unlock1", "program_unlock1"} /\ stat = "half" => s = "unlocked"
            /\ Command(Registers(s, sel, freq)) /\ UNCHANGED <<memory, before>>
  BY DEF Unlock
<1>2. step \in DOMAIN After /\ s \in Stats \ {"erasing"} /\ sel \in Areas /\ freq \in Freqs
  BY <1>1 DEF After, Stats, Areas, CtlInv, Typed, FlashTypeOK
<1>3. /\ Typed' /\ Outside'
      /\ \/ step' = "idle"
         \/ step' = After[step] /\ call' = call /\ Registers(s, sel, freq)
  BY <1>1, <1>2, CommandTypes
<1>4. CASE step' = "idle"
  BY <1>3, <1>4, EndsKeep
<1>5. CASE step' = After[step] /\ call' = call /\ Registers(s, sel, freq)
  <2>1. /\ step = "unlock0" => step' = "unlock1"
        /\ step = "unlock1" => step' = "erase"
        /\ step = "program_unlock0" => step' = "program_unlock1"
        /\ step = "program_unlock1" => step' = "program"
    BY <1>1, <1>5 DEF After
  <2>2. sel' = sel /\ stat' = IF stat = "erasing" THEN stat ELSE s
    BY <1>5 DEF Registers, regs
  <2>3. Chosen'
    BY <1>1, <1>5, <2>1, <2>2 DEF CtlInv, Chosen, InInfo, InPage, Masses, Clearing, Writing
  <2>4. ASSUME Clean' PROVE (Apart /\ Windowed /\ Copied)'
    <3>1. Clean /\ stat # "erasing" /\ Apart /\ Windowed /\ Copied
      BY <2>4, <1>1, <1>5 DEF Clean, CtlInv, Chosen, Clearing, Writing
    <3>2. Apart' /\ Copied'
      BY <3>1, <1>1, <1>5, <2>1 DEF Apart, Copied, Base, memory, Clearing, Writing
    <3>3. Windowed'
      BY <3>1, <1>1, <1>5, <2>1, <2>2 DEF Windowed, InInfo, InPage, Clearing, Writing
    <3>4. QED BY <3>2, <3>3
  <2>5. QED BY <1>3, <2>3, <2>4 DEF CtlInv
<1>6. QED BY <1>3, <1>4, <1>5

\* What an erase that goes through leaves of the types, and of the area.
LEMMA EraseLeaves ==
    ASSUME CtlInv, NEW E, Erases(E)
    PROVE  /\ prog' \in [Pages -> Contents] /\ area' \in Contents /\ slow' = {} /\ Outside'
<1>1. Typed /\ Outside
  BY DEF CtlInv
<1>2. QED BY <1>1, EraseKeepsContents DEF Erases, Outside, BlankCells

LEMMA EraseKeeps == ASSUME CtlInv, Erase PROVE CtlInv'
<1>1. /\ step = "erase" /\ UNCHANGED <<sel, freq, before>> /\ Typed /\ Chosen /\ Outside
      /\ linked' \in BOOLEAN
  BY DEF Erase, Erased, CtlInv, Goes, Throws, LinkThrows, Typed, FlashTypeOK, After
<1>2. ASSUME step' = "idle", call' = NoCall PROVE CtlInv'
  <2>1. call' \in Calls /\ call'.copy \in Contents
    BY <1>2, NoCallIsCall DEF Calls
  <2>2. ASSUME NEW E, Erases(E), stat' = "locked" PROVE Typed' /\ Outside'
    BY <1>1, <1>2, <2>1, <2>2, EraseLeaves DEF Typed, FlashTypeOK, After
  <2>3. ASSUME UNCHANGED <<stat, memory>> PROVE Typed' /\ Outside'
    BY <1>1, <1>2, <2>1, <2>3 DEF Typed, FlashTypeOK, Outside, memory, After
  <2>4. ASSUME slow' = Erasing, stat' = "erasing", UNCHANGED <<prog, area>> PROVE Typed' /\ Outside'
    <3>1. Erasing # {} /\ Erasing \subseteq Areas
      BY <1>1, FlashAssumption DEF Erasing, Areas, Typed, FlashTypeOK, After
    <3>2. QED BY <1>1, <1>2, <2>1, <2>4, <3>1 DEF Typed, FlashTypeOK, Outside, Areas, After
  <2>5. Typed' /\ Outside'
    BY <1>1, <1>2, <2>2, <2>3, <2>4 DEF Erase, Erased, Goes
  <2>6. QED BY <1>2, <2>5, EndsKeep
<1>3. ASSUME NEW E, Erases(E), stat' = "locked", step' = "program_setup", UNCHANGED call,
             call.op \in {"wr_mem", "wr_info"}, (stat = "unlocked" /\ E = Erasing) \/ stat = "erasing"
      PROVE  CtlInv'
  <2>1. Typed' /\ Outside'
    BY <1>1, <1>3, EraseLeaves DEF Typed, FlashTypeOK, After
  <2>2. Chosen'
    BY <1>1, <1>3 DEF Chosen, InInfo, InPage, Masses, Clearing, Writing
  <2>3. ASSUME Clean' PROVE (Apart /\ Windowed /\ Copied)'
    <3>1. Clean /\ Apart /\ Windowed /\ Copied /\ stat = "unlocked" /\ E = Erasing
      BY <1>1, <1>3, <2>3 DEF CtlInv, Clean, Chosen, Clearing, Writing
    <3>2. call.op = "wr_mem" => E = {call.page} /\ call.page \in Pages
      BY <3>1, <1>1 DEF Erasing, Windowed, Typed, Calls, Clearing, Writing
    <3>3. call.op = "wr_info" => E = {"info"}
      BY <3>1, <1>1 DEF Erasing, Windowed, InInfo, Clearing, Writing
    <3>4. /\ \A p \in Pages \ E : prog'[p] = prog[p]
          /\ "info" \notin E => area' = area
          /\ E \cap Pages = {} => prog' = prog
      BY <1>1, <1>3, EraseKeepsContents
    <3>5. Apart'
      BY <3>1, <3>2, <3>3, <3>4, <1>1, <1>3, FlashAssumption DEF Apart, InInfo, InPage
    <3>6. Windowed' /\ Copied'
      BY <3>1, <1>1, <1>3 DEF Windowed, Copied, Base, InInfo, InPage, Clearing, Writing
    <3>7. QED BY <3>5, <3>6
  <2>4. QED BY <2>1, <2>2, <2>3 DEF CtlInv
<1>4. ASSUME stat = "locked", step' = "program_setup", UNCHANGED <<call, stat, memory>>,
             call.op \in {"wr_mem", "wr_info"}
      PROVE  CtlInv'
  <2>1. Typed' /\ Outside'
    BY <1>1, <1>4 DEF Typed, FlashTypeOK, Outside, memory, After
  <2>2. Chosen'
    BY <1>1, <1>4 DEF Chosen, InInfo, InPage, Masses, Clearing, Writing
  <2>3. ~Clean'
    BY <1>1, <1>4 DEF CtlInv, Clean, Windowed, Clearing, Writing
  <2>4. QED BY <2>1, <2>2, <2>3 DEF CtlInv
<1>5. \/ step' = "idle" /\ call' = NoCall
      \/ \E E : /\ Erases(E) /\ stat' = "locked" /\ step' = "program_setup" /\ UNCHANGED call
                /\ call.op \in {"wr_mem", "wr_info"}
                /\ (stat = "unlocked" /\ E = Erasing) \/ stat = "erasing"
      \/ /\ stat = "locked" /\ step' = "program_setup" /\ UNCHANGED <<call, stat, memory>>
         /\ call.op \in {"wr_mem", "wr_info"}
  BY DEF Erase, Erased, Goes, Throws, LinkThrows
<1>6. QED BY <1>2, <1>3, <1>4, <1>5

LEMMA FinishesKeeps == ASSUME CtlInv, Finishes PROVE CtlInv'
<1>1. Typed' /\ Outside'
  BY EraseLeaves DEF Finishes, CtlInv, Typed, FlashTypeOK, After
<1>2. Chosen'
  BY DEF Finishes, CtlInv, Chosen, Clearing, Writing
<1>3. ~Clean'
  BY DEF Finishes, CtlInv, Chosen, Clean, Clearing, Writing
<1>4. QED BY <1>1, <1>2, <1>3 DEF CtlInv

LEMMA ProgramKeeps == ASSUME CtlInv, Program PROVE CtlInv'
<1> DEFINE d == IF call.op = "set_breakpoint" THEN call.data ELSE Over(call.copy, call.data)
<1>1. /\ step = "program" /\ UNCHANGED <<regs, slow, before>> /\ Typed /\ Chosen /\ Outside
      /\ IF call.op = "wr_info" THEN ProgramInfo(d) ELSE ProgramPage(call.page, d)
      /\ (Goes("lock") /\ call' = [call EXCEPT !.copy = Over(@, call.data)]) \/ LinkThrows
  BY DEF Program, CtlInv
<1>2. call.data \in BlockSet /\ call.copy \in Contents /\ call.page \in Pages
  BY <1>1 DEF Typed, Calls
<1>3. Over(call.copy, call.data) \in Contents /\ d \in BlockSet
  <2>1. Over(call.copy, call.data) \in Contents
    BY <1>2, OverIsContents
  <2>2. Contents \subseteq BlockSet
    BY DEF Contents, BlockSet
  <2>3. QED BY <2>1, <2>2, <1>2
<1> HIDE DEF d
<1>4. prog' \in [Pages -> Contents] /\ area' \in Contents
  BY <1>1, <1>3, ProgramKeepsContents
<1>5. Outside'
  <2>1. CASE area' = area
    BY <2>1, <1>1 DEF Outside
  <2>2. CASE area' = BurntCells(area, d) /\ ~OldRevision
    BY <2>2 DEF Outside, InfoCells
  <2>3. CASE area' = BurntCells(area, [c \in DOMAIN d \cap InfoCells |-> d[c]])
    BY <2>3, <1>1 DEF Outside, BurntCells
  <2>4. QED BY <1>1, <2>1, <2>2, <2>3 DEF ProgramInfo, ProgramPage, ShowsInfo
<1>6. CASE LinkThrows
  <2>1. Typed'
    BY <1>1, <1>4, <1>6, NoCallIsCall DEF LinkThrows, Typed, FlashTypeOK, regs, Calls, After
  <2>2. QED BY <1>5, <1>6, <2>1, EndsKeep DEF LinkThrows
<1>7. CASE Goes("lock") /\ call' = [call EXCEPT !.copy = Over(@, call.data)]
  <2>1. /\ call' \in Calls /\ call'.copy = Over(call.copy, call.data)
        /\ call'.op = call.op /\ call'.page = call.page /\ call'.data = call.data /\ call'.saved = call.saved
    BY <1>1, <1>3, <1>7 DEF Typed, Calls
  <2>2. Typed'
    BY <1>1, <1>3, <1>4, <1>7, <2>1 DEF Goes, Typed, FlashTypeOK, regs, After
  <2>3. Chosen'
    BY <1>1, <1>7, <2>1 DEF Goes, Chosen, regs, InInfo, InPage, Masses, Clearing, Writing
  <2>4. ASSUME Clean' PROVE (Apart /\ Windowed /\ Copied)'
    <3>1. Clean /\ Apart /\ Windowed /\ Copied
      BY <1>1, <2>1, <2>4 DEF CtlInv, Clean
    <3>2. call.op = "wr_info" => prog' = prog
      BY <1>1 DEF ProgramInfo
    <3>3. call.op \in InPage => area' = area /\ \A p \in Pages \ {call.page} : prog'[p] = prog[p]
      <4>1. call.op \in InPage => ~ShowsInfo(call.page) /\ ProgramPage(call.page, d)
        BY <3>1, <1>1 DEF Windowed, ShowsInfo, InPage, Clearing, Writing
      <4>2. QED BY <4>1, <1>1, <1>2 DEF ProgramPage, Typed, FlashTypeOK, After
    <3>4. Apart'
      BY <3>1, <3>2, <3>3, <1>1, <1>7, <2>1 DEF Apart, Goes, InInfo, InPage, Chosen, Clearing, Writing
    <3>5. Windowed'
      BY <3>1, <1>1, <1>7, <2>1 DEF Windowed, Goes, regs, InInfo, InPage, Clearing, Writing
    <3>6. Copied'
      BY <3>1, <1>1, <1>7, <2>1 DEF Copied, Chosen, Base, Goes, InInfo, InPage, Clearing, Writing
    <3>7. QED BY <3>4, <3>5, <3>6
  <2>5. QED BY <1>5, <2>2, <2>3, <2>4 DEF CtlInv
<1>8. QED BY <1>1, <1>6, <1>7

LEMMA LockKeeps == ASSUME CtlInv, Lock PROVE CtlInv'
<1>1. step = "lock" /\ UNCHANGED <<memory, before>> /\ Outside'
  BY DEF Lock, CtlInv, Outside, memory
<1>2. CASE LinkThrows /\ UNCHANGED regs
  <2>1. Typed'
    BY <1>1, <1>2, NoCallIsCall DEF LinkThrows, CtlInv, Typed, FlashTypeOK, regs, memory, Calls, After
  <2>2. QED BY <1>1, <1>2, <2>1, EndsKeep DEF LinkThrows
<1>3. CASE Registers("locked", sel, freq) /\ Goes("verify") /\ UNCHANGED call
  <2>1. /\ linked' = linked /\ step' = "verify" /\ call' = call /\ sel' = sel /\ freq' = freq
        /\ stat' = IF stat = "erasing" THEN stat ELSE "locked"
    BY <1>3 DEF Registers, Goes, regs
  <2>2. Typed'
    BY <1>1, <2>1 DEF CtlInv, Typed, FlashTypeOK, memory, After
  <2>3. Chosen'
    BY <1>1, <2>1 DEF CtlInv, Chosen, Clearing, Writing
  <2>4. ASSUME Clean' PROVE (Apart /\ Windowed /\ Copied)'
    <3>1. Clean
      BY <1>1, <2>1, <2>4 DEF Clean
    <3>2. QED BY <3>1, <1>1, <2>1 DEF CtlInv, Apart, Windowed, Copied, Base, memory, Clearing, Writing
  <2>5. QED BY <1>1, <2>2, <2>3, <2>4 DEF CtlInv
<1>4. QED BY <1>2, <1>3 DEF Lock

LEMMA VerifyKeeps == ASSUME CtlInv, Verify PROVE CtlInv'
<1>1. step = "verify" /\ UNCHANGED <<regs, memory, before>> /\ Outside'
  BY DEF Verify, CtlInv, Outside, memory
<1>2. CASE step' = "idle" /\ call' = NoCall /\ linked' \in BOOLEAN
  <2>1. Typed'
    BY <1>1, <1>2, NoCallIsCall DEF CtlInv, Typed, FlashTypeOK, regs, memory, Calls, After
  <2>2. QED BY <1>1, <1>2, <2>1, EndsKeep
<1>3. CASE /\ (IF call.op = "wr_info" THEN ReadInfo ELSE ReadPage(call.page)) = call.copy
           /\ Goes("restore") /\ UNCHANGED call
  <2>1. Typed'
    BY <1>1, <1>3 DEF Goes, CtlInv, Typed, FlashTypeOK, regs, memory, After
  <2>2. Chosen'
    BY <1>1, <1>3 DEF Goes, CtlInv, Chosen, regs, InInfo, InPage, Clearing, Writing
  <2>3. ASSUME Clean' PROVE (Apart /\ Windowed /\ Copied)'
    <3>1. Clean /\ Apart /\ Windowed /\ Copied
      BY <1>1, <1>3, <2>3 DEF Goes, CtlInv, Clean
    <3>2. Apart' /\ Windowed'
      BY <3>1, <1>1, <1>3 DEF Goes, Apart, Windowed, regs, memory, Clearing, Writing
    <3>3. call.op \in InPage => prog[call.page] = call.copy
      BY <3>1, <1>1, <1>3, FlashAssumption DEF Windowed, ReadPage, ShowsInfo, InPage, Clearing, Writing
    <3>4. call.op = "wr_info" => area = call.copy
      <4>1. area \in Contents
        BY DEF CtlInv, Typed, FlashTypeOK, After
      <4>2. call.op = "wr_info" => sel = "info" /\ ReadInfo = call.copy
        BY <3>1, <1>1, <1>3 DEF Windowed, InInfo, Clearing, Writing
      <4>3. QED BY <4>1, <4>2 DEF CtlInv, Outside, ReadInfo, Contents
    <3>5. call.copy = Over(Base, call.data) /\ Base' = Base
      BY <3>1, <1>1, <1>3 DEF Copied, Base, Clearing, Writing
    <3>6. call.op \in InPage \cup {"wr_info"}
      BY <1>1 DEF CtlInv, Chosen, Clearing, Writing
    <3>7. Copied'
      BY <3>3, <3>4, <3>5, <3>6, <1>1, <1>3 DEF Goes, Copied, memory, InPage, Clearing, Writing
    <3>8. QED BY <3>2, <3>7
  <2>4. QED BY <1>1, <2>1, <2>2, <2>3 DEF CtlInv
<1>4. QED
  <2>1. linked \in BOOLEAN
    BY DEF CtlInv, Typed, FlashTypeOK, After
  <2>2. QED BY <2>1, <1>2, <1>3 DEF Verify, Throws, LinkThrows

LEMMA RestoreKeeps == ASSUME CtlInv, Restore PROVE CtlInv'
<1>1. /\ step = "restore" /\ UNCHANGED <<memory, before>> /\ Outside'
      /\ call.saved[2] \in Areas /\ linked \in BOOLEAN
  BY DEF Restore, CtlInv, Outside, memory, Typed, FlashTypeOK, Calls, After
<1>2. \/ step' = "returned" /\ UNCHANGED <<call, linked, stat, freq>>
         /\ IF call.op = "set_breakpoint" THEN sel' = sel ELSE sel' = call.saved[2]
      \/ step' = "idle" /\ call' = NoCall /\ linked' \in BOOLEAN
         /\ UNCHANGED <<stat, freq>> /\ sel' \in Areas
  BY <1>1 DEF Restore, Goes, Throws, LinkThrows, Registers, regs, CtlInv, Typed, FlashTypeOK, Areas, After
<1>3. Typed'
  BY <1>1, <1>2, NoCallIsCall DEF CtlInv, Typed, FlashTypeOK, memory, Calls, Areas, After
<1>4. CASE step' = "idle"
  BY <1>1, <1>3, <1>4, EndsKeep
<1>5. CASE step' = "returned"
  <2>1. UNCHANGED <<call, stat>> /\ IF call.op = "set_breakpoint" THEN sel' = sel ELSE sel' = call.saved[2]
    BY <1>2, <1>5
  <2>2. Chosen'
    BY <1>1, <1>5, <2>1 DEF CtlInv, Chosen, Clearing, Writing
  <2>3. ASSUME Clean' PROVE (Apart /\ Windowed /\ Copied)'
    <3>1. Clean
      BY <1>1, <1>5, <2>1, <2>3 DEF Clean
    <3>2. QED BY <3>1, <1>1, <1>5, <2>1 DEF CtlInv, Apart, Windowed, Copied, Base, memory, Clearing, Writing
  <2>4. QED BY <1>1, <1>3, <2>2, <2>3 DEF CtlInv
<1>6. QED BY <1>2, <1>4, <1>5

LEMMA IdleKeeps == ASSUME CtlInv, Return \/ LinkReset \/ ProgramRan PROVE CtlInv'
<1>1. Typed'
  <2>1. CASE Return
    BY <2>1, NoCallIsCall DEF Return, CtlInv, Typed, FlashTypeOK, regs, memory, Calls, After
  <2>2. CASE LinkReset
    BY <2>2 DEF LinkReset, CtlInv, Typed, FlashTypeOK, regs, memory, After
  <2>3. CASE ProgramRan
    <3>1. PICK r \in Programs : stat' = r[1] /\ sel' = r[2] /\ freq' = r[3]
      BY <2>3 DEF ProgramRan
    <3>2. stat' \in Stats \ {"erasing"} /\ sel' \in Areas /\ freq' \in Freqs /\ stat # "erasing"
      BY <2>3, <3>1, FlashAssumption DEF Stats, Areas, Freqs, ProgramRan
    <3>3. QED BY <2>3, <3>2 DEF ProgramRan, CtlInv, Typed, FlashTypeOK, memory, Stats, Areas, After
  <2>4. QED BY <2>1, <2>2, <2>3
<1>2. Outside' /\ step' = "idle"
  BY DEF Return, LinkReset, ProgramRan, CtlInv, Outside, memory
<1>3. QED BY <1>1, <1>2, EndsKeep

-----------------------------------------------------------------------------

LEMMA InitHolds == ASSUME FlashInit PROVE CtlInv
<1>1. [p \in Pages |-> BlankCells] \in [Pages -> Contents]
      /\ [p \in Pages |-> [c \in Cells |-> "x"]] \in [Pages -> Contents]
  BY BlankIsContents DEF Contents, Bytes
<1>2. call \in Calls /\ call.copy \in Contents
  BY NoCallIsCall DEF FlashInit, Calls
<1>3. Typed
  BY <1>1, <1>2, BlankIsContents, FlashAssumption DEF FlashInit, Typed, FlashTypeOK, Freqs, After
<1>4. QED BY <1>3 DEF FlashInit, CtlInv, Chosen, Outside, Clean, BlankCells, Clearing, Writing

LEMMA NextKeeps == ASSUME CtlInv, [FlashNext]_flashVars PROVE CtlInv'
<1>1. CASE UNCHANGED flashVars
  BY <1>1 DEF flashVars, CtlInv, Typed, FlashTypeOK, Chosen, Outside, Clean, Apart, Windowed, Copied, Base, Clearing, Writing, After
<1>2. CASE FlashNext
  BY <1>2, AsksKeep, SelectKeeps, ReadBlockKeeps, SetupKeeps, UnlockKeeps, EraseKeeps, FinishesKeeps,
     ProgramKeeps, LockKeeps, VerifyKeeps, RestoreKeeps, IdleKeeps DEF FlashNext
<1>3. QED BY <1>1, <1>2

LEMMA CtlInvHolds == FlashSpec => []CtlInv
<1>1. FlashInit => CtlInv
  BY InitHolds
<1>2. CtlInv /\ [FlashNext]_flashVars => CtlInv'
  BY NextKeeps
<1>3. QED BY <1>1, <1>2, PTL DEF FlashSpec

\* The type invariant, whatever the program does with the controller and
\* whatever fails.
THEOREM FlashTypes == FlashSpec => []FlashTypeOK
<1>1. CtlInv => FlashTypeOK
  BY DEF CtlInv, Typed
<1>2. QED BY <1>1, CtlInvHolds, PTL

\* InfoKept: the information area is reached through the window only by the
\* operations on it, by the late end of one, and by an operation that was begun
\* under such an end with the area in the window: wherever between the commands of
\* flash_setup a late end falls, whatever fails and whatever the program selects.
THEOREM InfoIsKept == FlashSpec => InfoKept
<1>1. ASSUME CtlInv, [FlashNext]_flashVars
      PROVE  [area' # area =>
                \/ call.op \in {"wr_info", "mass_erase_info"}
                \/ "info" \in slow
                \/ call.saved[1] = "erasing" /\ call.saved[2] = "info"]_flashVars
  <2>1. SUFFICES ASSUME FlashNext, area' # area
                 PROVE  \/ call.op \in {"wr_info", "mass_erase_info"}
                        \/ "info" \in slow
                        \/ call.saved[1] = "erasing" /\ call.saved[2] = "info"
    BY <1>1
  <2>2. Program \/ Erase \/ Finishes
    BY <2>1 DEF FlashNext, Asks, Ask, Select, ReadBlock, Setup, Unlock, Lock, Verify, Restore, Return,
                LinkReset, ProgramRan, memory
  <2>3. CASE Program
    BY <1>1, <2>1, <2>3 DEF Program, ProgramPage, ShowsInfo, CtlInv, Chosen, Writing, Clearing
  <2>4. ASSUME NEW E, Erases(E) PROVE "info" \in E
    BY <2>1, <2>4 DEF Erases
  <2>5. CASE Erase
    <3>1. /\ step = "erase"
          /\ (stat = "unlocked" /\ Erases(Erasing)) \/ Erases(slow)
      BY <2>1, <2>5 DEF Erase, memory
    <3>2. "info" \in Erasing => sel = "info"
      BY FlashAssumption DEF Erasing
    <3>3. QED BY <1>1, <2>4, <3>1, <3>2 DEF CtlInv, Chosen, Clearing, Writing
  <2>6. CASE Finishes
    BY <2>4, <2>6 DEF Finishes
  <2>7. QED BY <2>2, <2>3, <2>5, <2>6
<1>2. QED BY <1>1, CtlInvHolds, PTL DEF FlashSpec, InfoKept

\* WritesExact: a write that returns has changed what it was asked to change and
\* kept the rest of its page, the other pages and the area.
THEOREM ExactWrites == FlashSpec => []WritesExact
<1>1. ASSUME CtlInv, step = "returned", call.saved[2] # "info" \/ OldRevision, call.saved[1] # "erasing"
      PROVE  /\ call.op \in {"wr_mem", "set_breakpoint"} =>
                    prog = [before[1] EXCEPT ![call.page] = Over(@, call.data)] /\ area = before[2]
             /\ call.op = "wr_info" => prog = before[1] /\ area = Over(before[2], call.data)
             /\ call.op = "rd_info" => prog = before[1] /\ call.copy = [c \in Cells |->
                                         IF c \in InfoCells THEN area[c] ELSE "ff"]
  <2>1. Apart /\ Copied /\ Typed /\ Outside
    BY <1>1 DEF CtlInv, Clean
  <2>2. CASE call.op \in InPage
    BY <1>1, <2>1, <2>2 DEF Apart, Copied, Base, InPage, Typed, FlashTypeOK, Calls, Clearing, Writing, After
  <2>3. CASE call.op \in InInfo
    BY <1>1, <2>1, <2>3 DEF Apart, Copied, Base, InPage, InInfo, Typed, FlashTypeOK, Outside, Contents, Clearing, Writing, After
  <2>4. QED BY <2>2, <2>3 DEF InPage, InInfo
<1>2. CtlInv => WritesExact
  BY <1>1 DEF WritesExact
<1>3. QED BY <1>2, CtlInvHolds, PTL

-----------------------------------------------------------------------------
(* The utility.                                                            *)

IsSerial(i) == i[1] = "serial"

\* The options are never changed; a pass over many parts has a file, and does
\* not save.
OptionsInv ==
    /\ numbered \in BOOLEAN /\ multipass \in BOOLEAN /\ program \in BOOLEAN
    /\ multipass => program /\ ~save
    /\ bench \in Parts /\ DOMAIN parts = Parts
    /\ serial_number \in Nat

\* A part with a number was given it as the counter stood, and no other part at
\* that count; without -n there is none.
NumbersInv ==
    /\ DOMAIN given = Parts
    /\ numbered => \A p \in Parts : IsSerial(parts[p]) =>
            given[p] \in Nat /\ given[p] < serial_number /\ parts[p] = Serial(given[p])
    /\ \A p, q \in Parts : p # q /\ IsSerial(parts[p]) /\ IsSerial(parts[q]) => given[p] # given[q]
    /\ ~numbered => ~IsSerial(buff) /\ \A p \in Parts : ~IsSerial(parts[p])

\* The image that is about to be programmed has the number of the last count, at
\* which no part was given its own.
FreshInv ==
    numbered /\ todo = "program" =>
        /\ serial_number - 1 \in Nat /\ buff = Serial(serial_number - 1)
        /\ \A p \in Parts : IsSerial(parts[p]) => given[p] < serial_number - 1

UniqueInv == OptionsInv /\ NumbersInv /\ FreshInv

-----------------------------------------------------------------------------

LEMMA ImageKinds ==
    /\ ~IsSerial(Blank) /\ ~IsSerial(Old) /\ ~IsSerial(Spoilt) /\ ~IsSerial(File)
    /\ \A n : IsSerial(Serial(n))
  BY DEF IsSerial, Blank, Old, Spoilt, File, Serial

\* Two counts that the bytes for the number do not tell apart are as far from each
\* other as these can tell apart, or further.
LEMMA Multiples ==
    ASSUME NEW r \in Nat \ {0}, NEW x \in Int, NEW y \in Int, x < y
    PROVE  r * x + r <= r * y
<1>1. y - x >= 1
  OBVIOUS
<1>2. r * (y - x) >= r * 1
  BY <1>1
<1>3. r * (y - x) = r * y - r * x
  OBVIOUS
<1>4. QED BY <1>2, <1>3

LEMMA Residues ==
    ASSUME NEW r \in Nat \ {0}, NEW a \in Nat, NEW b \in Nat, a % r = b % r, a < b
    PROVE  a + r <= b
<1> DEFINE x == a \div r
           y == b \div r
<1>1. a = r * x + (a % r) /\ b = r * y + (b % r)
  OBVIOUS
<1>2. x \in Int /\ y \in Int /\ a % r \in Int
  OBVIOUS
<1> HIDE DEF x, y
<1>3. x < y
  <2>1. SUFFICES ASSUME y <= x PROVE FALSE
    BY <1>2
  <2>2. r * y <= r * x
    <3>1. CASE x = y
      BY <3>1, <1>2
    <3>2. CASE y < x
      BY <3>2, <1>2, Multiples
    <3>3. QED BY <3>1, <3>2, <2>1, <1>2
  <2>3. QED BY <2>2, <1>1, <1>2
<1>4. r * x + r <= r * y
  BY <1>2, <1>3, Multiples
<1>5. QED BY <1>1, <1>2, <1>4

LEMMA InitUnique == UtilInit => UniqueInv
  BY ImageKinds, UtilAssumption DEF UtilInit, UniqueInv, OptionsInv, NumbersInv, FreshInv

\* A step that changes at most the part on the bench, and that to an image
\* without a number, keeps the numbers apart.
LEMMA NoNumber ==
    ASSUME UniqueInv,
           options' = options, serial_number' = serial_number,
           bench' \in Parts, DOMAIN parts' = Parts, DOMAIN given' = Parts,
           \A p \in Parts : (parts'[p] = parts[p] /\ given'[p] = given[p]) \/ ~IsSerial(parts'[p]),
           ~numbered => ~IsSerial(buff'),
           todo' # "program"
    PROVE  UniqueInv'
<1>1. OptionsInv'
  BY DEF UniqueInv, OptionsInv, options
<1>2. NumbersInv'
  BY DEF UniqueInv, NumbersInv, options
<1> QED
  BY <1>1, <1>2 DEF UniqueInv, FreshInv

LEMMA NextUnique == UniqueInv /\ [UtilNext]_utilVars => UniqueInv'
<1> SUFFICES ASSUME UniqueInv, [UtilNext]_utilVars PROVE UniqueInv'
  OBVIOUS
<1>o. OptionsInv
  BY DEF UniqueInv
<1>n. NumbersInv
  BY DEF UniqueInv
<1>1. CASE Key
  BY <1>1, <1>o, <1>n, NoNumber DEF Key, OptionsInv, NumbersInv
<1>2. CASE Quit
  BY <1>2, <1>o, <1>n, NoNumber DEF Quit, device, OptionsInv, NumbersInv
<1>3. CASE Connect
  BY <1>3, <1>o, <1>n, NoNumber DEF Connect, device, OptionsInv, NumbersInv, LinkFails, Fails
<1>4. CASE MemorySize
  BY <1>4, <1>o, <1>n, NoNumber DEF MemorySize, device, OptionsInv, NumbersInv, Uncaught
<1>5. CASE DisplayInfo
  BY <1>5, <1>o, <1>n, NoNumber DEF DisplayInfo, device, OptionsInv, NumbersInv, LinkFails, Fails
<1>6. CASE SaveFile
  BY <1>6, <1>o, <1>n, NoNumber DEF SaveFile, device, OptionsInv, NumbersInv, LinkFails, Fails
<1>7. CASE LoadFile
  BY <1>7, <1>o, <1>n, NoNumber, ImageKinds DEF LoadFile, device, OptionsInv, NumbersInv
<1>8. CASE Check
  BY <1>8, <1>o, <1>n, NoNumber DEF Check, device, OptionsInv, NumbersInv, Fails
<1>9. CASE EraseDevice
  <2>1. \A p \in Parts : parts'[p] = parts[p] \/ parts'[p] = Blank \/ parts'[p] = Spoilt
    BY <1>9, <1>o DEF EraseDevice, OptionsInv
  <2>2. DOMAIN parts' = Parts /\ given' = given
    BY <1>9, <1>o DEF EraseDevice, OptionsInv
  <2>3. todo' # "program"
    BY <1>9, <1>o DEF EraseDevice, OptionsInv, LinkFails, Uncaught, Fails
  <2> QED
    BY <1>9, <1>o, <1>n, <2>1, <2>2, <2>3, NoNumber, ImageKinds DEF EraseDevice, OptionsInv, NumbersInv
<1>10. CASE BlankCheck
  BY <1>10, <1>o, <1>n, NoNumber DEF BlankCheck, device, OptionsInv, NumbersInv, LinkFails, Fails
<1>11. CASE Serialize
  <2>0. /\ options' = options /\ parts' = parts /\ bench' = bench /\ given' = given
        /\ numbered => buff' = Serial(serial_number) /\ serial_number' = serial_number + 1
        /\ ~numbered => buff' = buff /\ serial_number' = serial_number
    BY <1>11 DEF Serialize, device
  <2>1. OptionsInv'
    BY <1>o, <2>0 DEF OptionsInv, options
  <2>2. NumbersInv'
    BY <1>o, <1>n, <2>0 DEF OptionsInv, NumbersInv, options
  <2>3. FreshInv'
    BY <1>o, <1>n, <2>0 DEF OptionsInv, NumbersInv, FreshInv, options
  <2> QED
    BY <2>1, <2>2, <2>3 DEF UniqueInv
<1>12. CASE ProgramDevice
  <2>1. /\ todo = "program" /\ options' = options /\ buff' = buff /\ serial_number' = serial_number
        /\ bench' = bench /\ bench \in Parts
        /\ given' = IF numbered THEN [given EXCEPT ![bench] = serial_number - 1] ELSE given
        /\ \A p \in Parts \ {bench} : given'[p] = given[p]
    BY <1>12, <1>o, <1>n DEF ProgramDevice, OptionsInv, NumbersInv
  <2>2. todo' # "program" /\ DOMAIN given' = Parts
    BY <1>12, <1>o, <1>n, <2>1 DEF ProgramDevice, LinkFails, Fails, OptionsInv, NumbersInv
  <2>3. CASE parts' = [parts EXCEPT ![bench] = Spoilt]
    <3>1. /\ DOMAIN parts' = Parts
          /\ \A p \in Parts : (parts'[p] = parts[p] /\ given'[p] = given[p]) \/ ~IsSerial(parts'[p])
      BY <1>o, <2>1, <2>3, ImageKinds DEF OptionsInv
    <3>2. ~numbered => ~IsSerial(buff')
      BY <1>n, <2>1 DEF NumbersInv
    <3> QED
      BY <2>1, <2>2, <3>1, <3>2, NoNumber
  <2>4. CASE parts' = [parts EXCEPT ![bench] = buff]
    <3>1. OptionsInv'
      BY <1>o, <2>1, <2>2, <2>4 DEF OptionsInv, options
    <3>2. parts'[bench] = buff /\ \A p \in Parts \ {bench} : parts'[p] = parts[p]
      BY <1>o, <2>4 DEF OptionsInv
    <3>3. CASE numbered
      <4>1. /\ serial_number - 1 \in Nat /\ buff = Serial(serial_number - 1)
            /\ \A p \in Parts : IsSerial(parts[p]) => given[p] < serial_number - 1
            /\ given'[bench] = serial_number - 1 /\ serial_number \in Nat
        BY <1>o, <1>n, <2>1, <3>3 DEF UniqueInv, FreshInv, OptionsInv, NumbersInv
      <4>2. \A p \in Parts : IsSerial(parts'[p]) =>
                given'[p] \in Nat /\ given'[p] < serial_number /\ parts'[p] = Serial(given'[p])
        BY <1>n, <2>1, <3>2, <3>3, <4>1 DEF NumbersInv
      <4>3. \A p \in Parts \ {bench} : IsSerial(parts'[p]) => given'[p] < given'[bench]
        BY <2>1, <3>2, <4>1
      <4>4. \A p, q \in Parts : p # q /\ IsSerial(parts'[p]) /\ IsSerial(parts'[q]) => given'[p] # given'[q]
        BY <1>n, <2>1, <3>2, <4>1, <4>2, <4>3 DEF NumbersInv
      <4> QED
        BY <2>1, <2>2, <3>1, <3>3, <4>2, <4>4 DEF NumbersInv, UniqueInv, FreshInv, options
    <3>4. CASE ~numbered
      BY <1>n, <2>1, <2>2, <3>1, <3>2, <3>4 DEF NumbersInv, UniqueInv, FreshInv, options
    <3> QED
      BY <3>3, <3>4
  <2> QED
    BY <1>12, <2>3, <2>4 DEF ProgramDevice
<1>13. CASE VerifyDevice
  BY <1>13, <1>o, <1>n, NoNumber DEF VerifyDevice, Passed, device, OptionsInv, NumbersInv, LinkFails, Fails
<1>14. CASE UNCHANGED utilVars
  BY <1>14 DEF utilVars, UniqueInv, OptionsInv, NumbersInv, FreshInv
<1> QED
  BY <1>1, <1>2, <1>3, <1>4, <1>5, <1>6, <1>7, <1>8, <1>9, <1>10, <1>11, <1>12, <1>13, <1>14
     DEF UtilNext, UtilStep

\* SerialsUnique: two parts that hold one number were given it so far apart that
\* the counter went through all the numbers that the bytes for them hold, whatever
\* failed in any of the passes (serialize, program_device, multipassmode).
THEOREM NumbersAreUnique == UtilSpec => []SerialsUnique
<1>1. ASSUME UniqueInv PROVE SerialsUnique
  <2>1. SUFFICES ASSUME NEW p \in Parts, NEW q \in Parts, p # q, IsSerial(parts[p]), parts[p] = parts[q]
                 PROVE  given[p] + SerialRange <= given[q] \/ given[q] + SerialRange <= given[p]
    BY DEF SerialsUnique, IsSerial
  <2>2. numbered
    BY <1>1, <2>1 DEF UniqueInv, OptionsInv, NumbersInv
  <2>3. /\ given[p] \in Nat /\ given[q] \in Nat /\ given[p] # given[q]
        /\ Serial(given[p]) = Serial(given[q])
    BY <1>1, <2>1, <2>2 DEF UniqueInv, NumbersInv
  <2>4. given[p] % SerialRange = given[q] % SerialRange /\ SerialRange \in Nat \ {0}
    BY <2>3, UtilAssumption DEF Serial
  <2>5. given[p] < given[q] \/ given[q] < given[p]
    BY <2>3
  <2>6. QED BY <2>3, <2>4, <2>5, Residues
<1>2. QED
  BY <1>1, InitUnique, NextUnique, PTL DEF UtilSpec
-----------------------------------------------------------------------------

Busy == {"blank_check", "serialize", "program", "verify"}

\* Only a pass that has a file comes to these steps, and only one that saves
\* comes to that; the size that was read is not zero.
StepsInv ==
    /\ todo \in {"serialize", "program", "verify"} => program
    /\ todo = "save" => save
    /\ todo \in {"info", "save", "check"} => size # 0
    /\ todo = "load" => multipass \/ size # 0
    /\ todo \in Busy \cup {"erase"} => mem_size # 0

\* The image is the file, until a number is put in, and then has one.
ImageInv ==
    /\ multipass /\ ~numbered /\ todo \notin {"load", "failed"} => buff = File
    /\ program /\ ~numbered /\ todo \in Busy \cup {"erase", "check"} => buff = File
    /\ numbered /\ todo \in {"program", "verify"} => IsSerial(buff)

\* The checksum is that of the image over the memory of the last part.
ChecksumInv ==
    /\ todo \in {"program", "verify"} => buff_crc = Crc(buff, mem_size)
    /\ multipass /\ ~numbered /\ mem_size # 0 => buff_crc = Crc(File, mem_size)

\* The part that is being worked on is not reported yet.
ReportInv ==
    /\ \A r \in reported : r[1] \in Parts
    /\ todo \in Busy => \A r \in reported : r[1] # bench

GoodInv == OptionsInv /\ StepsInv /\ ImageInv /\ ChecksumInv /\ ReportInv /\ ReportedGood

-----------------------------------------------------------------------------

LEMMA InitGood == UtilInit => GoodInv
  BY UtilAssumption DEF UtilInit, GoodInv, OptionsInv, StepsInv, ImageInv, ChecksumInv, ReportInv,
     ReportedGood, Busy

\* Where a step ends that fails, or that nothing follows, only what was
\* reported matters.
LEMMA Ends ==
    ASSUME GoodInv,
           options' = options, bench' = bench, serial_number' = serial_number,
           DOMAIN parts' = Parts,
           \A p \in Parts : parts'[p] = parts[p] \/ \A r \in reported' : r[1] # p,
           reported' \subseteq reported,
           todo' \in {"prompt", "done", "failed", "terminated"},
           multipass => buff_crc' = buff_crc /\ mem_size' = mem_size,
           multipass /\ todo' # "failed" => todo \notin {"load", "failed"} /\ buff' = buff
    PROVE  GoodInv'
<1>1. OptionsInv'
  BY DEF GoodInv, OptionsInv, options
<1>2. StepsInv' /\ ReportInv'
  BY DEF GoodInv, StepsInv, ReportInv, Busy
<1>3. ImageInv' /\ ChecksumInv'
  BY DEF GoodInv, ImageInv, ChecksumInv, Busy, options
<1>4. ReportedGood'
  BY DEF GoodInv, ReportInv, ReportedGood, options
<1> QED
  BY <1>1, <1>2, <1>3, <1>4 DEF GoodInv

LEMMA NextGood == GoodInv /\ [UtilNext]_utilVars => GoodInv'
<1> SUFFICES ASSUME GoodInv, [UtilNext]_utilVars PROVE GoodInv'
  OBVIOUS
<1> USE DEF GoodInv
<1>o. /\ multipass \in BOOLEAN /\ (multipass => program /\ ~save) /\ bench \in Parts
      /\ DOMAIN parts = Parts
  BY DEF OptionsInv
<1>1. CASE Key
  BY <1>1 DEF Key, options, OptionsInv, StepsInv, ImageInv, ChecksumInv, ReportInv, ReportedGood, Busy
<1>2. CASE Quit
  BY <1>2, <1>o, Ends DEF Quit, device
<1>3. CASE Connect
  <2>1. CASE todo' = "size"
    BY <1>3, <2>1 DEF Connect, options, device, OptionsInv, StepsInv, ImageInv, ChecksumInv, ReportInv,
       ReportedGood, Busy
  <2>2. CASE LinkFails
    BY <1>3, <1>o, <2>2, Ends DEF Connect, device, LinkFails, Fails
  <2> QED
    BY <1>3, <2>1, <2>2 DEF Connect
<1>4. CASE MemorySize
  <2>1. CASE Uncaught
    BY <1>4, <1>o, <2>1, Ends DEF MemorySize, device, Uncaught
  <2>2. CASE ~Uncaught
    <3>1. /\ size' # 0 /\ (multipass => mem_size' = mem_size)
          /\ todo' \in {"info", "save", "load", "check"} /\ (todo' = "save" => save)
          /\ program /\ ~multipass => todo' # "check"
      BY <1>4, <1>o, <2>2, UtilAssumption DEF MemorySize
    <3> QED
      BY <1>4, <1>o, <3>1 DEF MemorySize, options, device, OptionsInv, StepsInv, ImageInv, ChecksumInv,
         ReportInv, ReportedGood, Busy
  <2> QED
    BY <2>1, <2>2
<1>5. CASE DisplayInfo
  <2>1. CASE LinkFails
    BY <1>5, <1>o, <2>1, Ends DEF DisplayInfo, device, LinkFails, Fails
  <2>2. CASE ~LinkFails
    BY <1>5, <1>o, <2>2 DEF DisplayInfo, options, device, OptionsInv, StepsInv, ImageInv, ChecksumInv,
       ReportInv, ReportedGood, Busy
  <2> QED
    BY <2>1, <2>2
<1>6. CASE SaveFile
  <2>0. ~multipass
    BY <1>6, <1>o DEF SaveFile, StepsInv
  <2>1. CASE Fails
    BY <1>6, <1>o, <2>0, <2>1, Ends DEF SaveFile, device, Fails
  <2>2. CASE ~Fails
    BY <1>6, <1>o, <2>0, <2>2 DEF SaveFile, LinkFails, options, device, OptionsInv, StepsInv, ImageInv,
       ChecksumInv, ReportInv, ReportedGood, Busy
  <2> QED
    BY <2>1, <2>2
<1>7. CASE LoadFile
  <2>1. CASE todo' = "failed"
    BY <1>7, <1>o, <2>1, Ends DEF LoadFile, device
  <2>2. CASE todo' # "failed"
    BY <1>7, <1>o, <2>2 DEF LoadFile, options, device, OptionsInv, StepsInv, ImageInv, ChecksumInv,
       ReportInv, ReportedGood, Busy
  <2> QED
    BY <2>1, <2>2
<1>8. CASE Check
  <2>1. CASE Fails
    BY <1>8, <1>o, <2>1, Ends DEF Check, device, Fails
  <2>2. CASE ~Fails
    <3>1. /\ todo = "check" /\ todo' \in {"erase", "done"} /\ mem_size' = size
          /\ IF ~multipass \/ size # mem_size THEN buff_crc' = Crc(buff, size) ELSE buff_crc' = buff_crc
          /\ buff' = buff /\ size # 0 /\ size' = size
      BY <1>8, <2>2 DEF Check, StepsInv
    <3>2. ImageInv' /\ ChecksumInv'
      BY <1>8, <1>o, <3>1 DEF Check, options, device, ImageInv, ChecksumInv, Busy
    <3> QED
      BY <1>8, <3>1, <3>2 DEF Check, options, device, OptionsInv, StepsInv, ReportInv, ReportedGood, Busy
  <2> QED
    BY <2>1, <2>2
<1>9. CASE EraseDevice
  <2>0. /\ options' = options /\ bench' = bench /\ serial_number' = serial_number
        /\ mem_size' = mem_size /\ buff' = buff /\ buff_crc' = buff_crc /\ todo = "erase" /\ size' = size
        /\ reported' = {r \in reported : r[1] # bench}
    BY <1>9 DEF EraseDevice
  <2>1. DOMAIN parts' = Parts /\ \A p \in Parts : parts'[p] = parts[p] \/ p = bench
    BY <1>9, <1>o DEF EraseDevice
  <2>2. \A p \in Parts : parts'[p] = parts[p] \/ \A r \in reported' : r[1] # p
    BY <2>0, <2>1
  <2>3. CASE LinkFails \/ Uncaught
    BY <1>o, <2>0, <2>1, <2>2, <2>3, Ends DEF LinkFails, Uncaught, Fails
  <2>4. CASE ~(LinkFails \/ Uncaught)
    <3>1. todo' = "blank_check"
      BY <1>9, <2>4 DEF EraseDevice
    <3>2. OptionsInv' /\ StepsInv' /\ ReportInv'
      BY <2>0, <2>1, <3>1 DEF options, OptionsInv, StepsInv, ReportInv, Busy
    <3>3. ImageInv' /\ ChecksumInv'
      BY <2>0, <3>1 DEF options, ImageInv, ChecksumInv, Busy
    <3>4. ReportedGood'
      BY <2>0, <2>2 DEF options, ReportInv, ReportedGood
    <3> QED
      BY <3>2, <3>3, <3>4
  <2> QED
    BY <2>3, <2>4
<1>10. CASE BlankCheck
  <2>1. CASE todo' = "serialize"
    BY <1>10, <1>o, <2>1 DEF BlankCheck, LinkFails, Fails, options, device, OptionsInv, StepsInv, ImageInv,
       ChecksumInv, ReportInv, ReportedGood, Busy
  <2>2. CASE todo' # "serialize"
    BY <1>10, <1>o, <2>2, Ends DEF BlankCheck, device, LinkFails, Fails
  <2> QED
    BY <2>1, <2>2
<1>11. CASE Serialize
  <2>0. /\ todo = "serialize" /\ todo' = "program" /\ program /\ mem_size # 0
        /\ options' = options /\ parts' = parts /\ bench' = bench /\ reported' = reported
        /\ mem_size' = mem_size /\ serial_number' \in {serial_number, serial_number + 1}
        /\ numbered => buff' = Serial(serial_number) /\ buff_crc' = Crc(buff', mem_size)
        /\ ~numbered => buff' = buff /\ buff_crc' = IF multipass THEN buff_crc ELSE Crc(buff, mem_size)
    BY <1>11 DEF Serialize, device, StepsInv, Busy
  <2>1. OptionsInv' /\ StepsInv' /\ ReportInv' /\ ReportedGood'
    BY <2>0 DEF options, OptionsInv, StepsInv, ReportInv, ReportedGood, Busy
  <2>2. ImageInv'
    BY <2>0, ImageKinds DEF options, ImageInv, OptionsInv, Busy
  <2>3. ChecksumInv'
    BY <1>o, <2>0 DEF options, ChecksumInv, ImageInv, OptionsInv, Busy
  <2> QED
    BY <2>1, <2>2, <2>3
<1>12. CASE ProgramDevice
  <2>0. /\ todo = "program" /\ options' = options /\ buff' = buff /\ buff_crc' = buff_crc
        /\ bench' = bench /\ serial_number' = serial_number /\ mem_size' = mem_size /\ reported' = reported
    BY <1>12 DEF ProgramDevice
  <2>1. DOMAIN parts' = Parts /\ \A p \in Parts : parts'[p] = parts[p] \/ p = bench
    BY <1>12, <1>o DEF ProgramDevice
  <2>2. \A r \in reported : r[1] # bench
    BY <2>0 DEF ReportInv, Busy
  <2>3. \A p \in Parts : parts'[p] = parts[p] \/ \A r \in reported' : r[1] # p
    BY <2>0, <2>1, <2>2
  <2>4. CASE todo' = "verify"
    BY <2>0, <2>1, <2>3, <2>4 DEF options, OptionsInv, StepsInv, ImageInv, ChecksumInv, ReportInv,
       ReportedGood, Busy
  <2>5. CASE todo' # "verify"
    BY <1>12, <1>o, <2>0, <2>1, <2>3, <2>5, Ends DEF ProgramDevice, LinkFails, Fails
  <2> QED
    BY <2>4, <2>5
<1>13. CASE VerifyDevice
  <2>0. /\ todo = "verify" /\ options' = options /\ bench' = bench /\ parts' = parts
        /\ serial_number' = serial_number /\ buff' = buff /\ buff_crc' = buff_crc /\ mem_size' = mem_size
    BY <1>13 DEF VerifyDevice, device
  <2>1. CASE reported' = reported
    BY <1>13, <1>o, <2>0, <2>1, Ends DEF VerifyDevice, Passed, LinkFails, Fails
  <2>2. CASE reported' # reported
    <3>1. /\ Crc(parts[bench], SizeOf[bench]) = buff_crc
          /\ todo' \in {"prompt", "done"} /\ reported' = reported \cup {<<bench, buff>>}
      BY <1>13, <2>2 DEF VerifyDevice, Passed
    <3>2. parts[bench] = buff
      BY <2>0, <3>1 DEF ChecksumInv, Crc
    <3>3. buff[1] = IF numbered THEN "serial" ELSE "file"
      BY <2>0 DEF ImageInv, StepsInv, IsSerial, File, Busy
    <3>4. ReportedGood'
      BY <2>0, <3>1, <3>2, <3>3 DEF ReportedGood, options
    <3>5. OptionsInv' /\ StepsInv' /\ ReportInv'
      BY <1>o, <2>0, <3>1 DEF options, OptionsInv, StepsInv, ReportInv, Busy
    <3>6. ImageInv' /\ ChecksumInv'
      BY <2>0, <3>1 DEF options, ImageInv, ChecksumInv, Busy
    <3> QED
      BY <3>4, <3>5, <3>6
  <2> QED
    BY <2>1, <2>2
<1>14. CASE UNCHANGED utilVars
  BY <1>14 DEF utilVars, OptionsInv, StepsInv, ImageInv, ChecksumInv, ReportInv, ReportedGood
<1> QED
  BY <1>1, <1>2, <1>3, <1>4, <1>5, <1>6, <1>7, <1>8, <1>9, <1>10, <1>11, <1>12, <1>13, <1>14
     DEF UtilNext, UtilStep

\* A part that was reported good holds the file with its own number, although
\* only checksums are compared, and although those of the file are computed
\* again only when a part has another size than the last (program_device).
THEOREM ReportsAreTrue == UtilSpec => []ReportedGood
<1> GoodInv => ReportedGood
  BY DEF GoodInv
<1> QED
  BY InitGood, NextGood, PTL DEF UtilSpec

-----------------------------------------------------------------------------

\* A number is left for the part that is on the bench.
UtilTypeInv ==
    /\ UtilTypeOK
    /\ todo \in {"connect", "size", "info", "save", "load", "check", "erase", "blank_check", "serialize"}
            => serial_number < FirstSerial + Serials
    /\ todo = "program" /\ numbered => serial_number > FirstSerial

LEMMA UtilTypeInit == UtilInit => UtilTypeInv
  <1> SUFFICES ASSUME UtilInit
               PROVE  UtilTypeInv
    OBVIOUS
  <1>1. FirstSerial \in Nat /\ Serials \in Nat /\ Serials > 0
    BY UtilAssumption
  <1>2. Old \in Images /\ File \in Images /\ Blank \in Images
    BY DEF Images
  <1>3. UtilTypeOK
    BY <1>1, <1>2 DEF UtilInit, UtilTypeOK, Steps
  <1> QED
    BY <1>1, <1>3 DEF UtilInit, UtilTypeInv

LEMMA UtilTypeStep == UtilTypeInv /\ [UtilNext]_utilVars => UtilTypeInv'
  <1> SUFFICES ASSUME UtilTypeInv, [UtilNext]_utilVars
               PROVE  UtilTypeInv'
    OBVIOUS
  <1> USE DEF UtilTypeInv, UtilTypeOK
  <1>1. FirstSerial \in Nat /\ Serials \in Nat /\ Serials > 0
    BY UtilAssumption
  <1>2. Spoilt \in Images /\ File \in Images /\ Blank \in Images
    BY DEF Images
  <1>4. CASE UNCHANGED utilVars
    BY <1>4 DEF utilVars
  <1>5. CASE Key
    BY <1>5 DEF Key, options, Steps
  <1>6. CASE Quit
    BY <1>6 DEF Quit, options, device, Steps
  <1>7. CASE Connect
    BY <1>7 DEF Connect, options, device, Steps, LinkFails, Fails
  <1>8. CASE MemorySize
    BY <1>8 DEF MemorySize, options, device, Steps, Uncaught
  <1>9. CASE DisplayInfo
    BY <1>9 DEF DisplayInfo, options, device, Steps, LinkFails, Fails
  <1>10. CASE SaveFile
    BY <1>10 DEF SaveFile, options, device, Steps, LinkFails, Fails
  <1>11. CASE LoadFile
    BY <1>2, <1>11 DEF LoadFile, options, device, Steps
  <1>12. CASE Check
    BY <1>12 DEF Check, options, device, Steps, Fails
  <1>13. CASE EraseDevice
    BY <1>2, <1>13 DEF EraseDevice, options, Steps, LinkFails, Fails, Uncaught
  <1>14. CASE BlankCheck
    BY <1>14 DEF BlankCheck, options, device, Steps, LinkFails, Fails
  <1>15. CASE Serialize
    <2>1. serial_number \in FirstSerial .. FirstSerial + Serials - 1
      BY <1>1, <1>15 DEF Serialize
    <2>2. Serial(serial_number) \in Images
      BY <2>1 DEF Images
    <2> QED
      BY <1>1, <1>15, <2>1, <2>2 DEF Serialize, options, device, Steps
  <1>16. CASE ProgramDevice
    BY <1>1, <1>2, <1>16 DEF ProgramDevice, options, Steps, LinkFails, Fails
  <1>17. CASE VerifyDevice
    BY <1>17 DEF VerifyDevice, options, device, Steps, LinkFails, Fails, Passed
  <1> QED
    BY <1>4, <1>5, <1>6, <1>7, <1>8, <1>9, <1>10, <1>11, <1>12, <1>13, <1>14, <1>15, <1>16, <1>17
       DEF UtilNext, UtilStep

-----------------------------------------------------------------------------
(* The files.                                                              *)

Types == IntelTypes \cup SrecTypes \cup {"corrupt"}
LineSet == [type : Types, address : Nat, data : Seq(HexByte)]

\* A line is no longer than a segment, and its address or upper half has two bytes.
Fits(r) ==
    /\ Len(r.data) <= Segment
    /\ r.type = "00" => r.address < Segment
    /\ r.type = "04" => (r.address * Segment) + Segment <= Wrap

\* Lines of bytes that may be in the buffer.
Lines(f) == f \in Seq(LineSet) /\ \A n \in 1 .. Len(f) : Fits(f[n])

\* What is written has room in the buffer, and nothing is read while it is written.
HexShape ==
    /\ image \in Seq(HexByte) /\ offset \in Nat /\ offset + Len(image) <= BuffSize
    /\ Lines(file) /\ (lba * Segment) + Segment <= Wrap
    /\ doing = "write" => origin = "written" /\ line = 0 /\ sba = 0
       /\ mem = [a \in 0 .. BuffSize - 1 |-> Fill]

HexTypeInv == HexTypeOK /\ HexShape

-----------------------------------------------------------------------------

LEMMA SeqWider ==
    ASSUME NEW S, NEW T, S \subseteq T, NEW s \in Seq(S)
    PROVE  s \in Seq(T)
  BY SeqMonotonic

LEMMA DataOf ==
    ASSUME NEW f, NEW n \in DOMAIN f
    PROVE  Range(f[n].data) \subseteq UNION {Range(f[m].data) : m \in DOMAIN f}
  OBVIOUS

LEMMA GivenLines ==
    ASSUME NEW f \in GivenFiles
    PROVE  Lines(f)
  <1>1. f \in Seq(Range(f)) /\ \A n \in DOMAIN f :
            /\ f[n] = Record(f[n].type, f[n].address, f[n].data)
            /\ f[n].type \in Types /\ f[n].address \in Nat
            /\ f[n].data \in Seq(Range(f[n].data)) /\ Fits(f[n])
    BY HexAssumption DEF Types, Fits
  <1>2. DOMAIN f = 1 .. Len(f) /\ f = [n \in 1 .. Len(f) |-> f[n]] /\ Len(f) \in Nat
    <2>1. f \in Seq(Range(f))
      BY <1>1
    <2>2. Len(f) \in Nat /\ DOMAIN f = 1 .. Len(f)
      BY <2>1, LenProperties
    <2>3. f \in [1 .. Len(f) -> Range(f)]
      BY <2>1, LenProperties
    <2> QED
      BY <2>2, <2>3
  <1>3. ASSUME NEW n \in DOMAIN f
        PROVE  Range(f[n].data) \subseteq HexByte
    <2> DEFINE U(g) == UNION {Range(g[m].data) : m \in DOMAIN g}
    <2>1. Range(f[n].data) \subseteq U(f)
      BY DataOf
    <2>2. UNION {U(g) : g \in GivenFiles} \subseteq HexByte
      BY DEF HexByte
    <2> HIDE DEF U
    <2>3. U(f) \in {U(g) : g \in GivenFiles}
      OBVIOUS
    <2> QED
      BY <2>1, <2>2, <2>3
  <1>4. ASSUME NEW n \in DOMAIN f
        PROVE  f[n] \in LineSet
    <2>1. f[n].data \in Seq(HexByte)
      BY <1>1, <1>3, SeqWider
    <2>2. f[n].type \in Types /\ f[n].address \in Nat
      BY <1>1
    <2>3. Record(f[n].type, f[n].address, f[n].data) \in LineSet
      BY <2>1, <2>2 DEF Record, LineSet
    <2> QED
      BY <1>1, <2>3
  <1>5. f \in Seq(LineSet)
    BY <1>2, <1>4
  <1> QED
    BY <1>1, <1>2, <1>5 DEF Lines

LEMMA WrittenBytes ==
    ASSUME NEW i \in WrittenImages
    PROVE  i \in Seq(HexByte)
  <1>1. i \in Seq(Range(i)) /\ Range(i) \subseteq HexByte
    BY HexAssumption DEF HexByte
  <1> QED
    BY <1>1, SeqWider

LEMMA IsLine ==
    ASSUME NEW t \in Types, NEW a \in Nat, NEW d \in Seq(HexByte), Len(d) <= Segment,
           t = "00" => a < Segment, t = "04" => (a * Segment) + Segment <= Wrap
    PROVE  \E r \in LineSet : r = Record(t, a, d) /\ Fits(r)
  <1>1. Record(t, a, d) \in LineSet
    BY DEF Record, LineSet
  <1>2. Record(t, a, d).data = d /\ Record(t, a, d).type = t /\ Record(t, a, d).address = a
    BY DEF Record
  <1>3. Fits(Record(t, a, d))
    BY <1>2 DEF Fits
  <1> QED
    BY <1>1, <1>3

\* g is f with r behind it.
OneMore(f, r, g) ==
    /\ Lines(g) /\ Len(g) = Len(f) + 1 /\ Len(g) \in Nat
    /\ \A n \in 1 .. Len(f) : g[n] = f[n]
    /\ g[Len(f) + 1] = r

LEMMA OneMoreLine ==
    ASSUME NEW f, Lines(f), NEW r \in LineSet, Fits(r), NEW g, g = Append(f, r)
    PROVE  OneMore(f, r, g)
  <1>1. f \in Seq(LineSet) /\ \A n \in 1 .. Len(f) : Fits(f[n])
    BY DEF Lines
  <1>2. /\ g \in Seq(LineSet) /\ Len(g) = Len(f) + 1
        /\ \A n \in 1 .. Len(f) : g[n] = f[n]
        /\ g[Len(f) + 1] = r
    BY <1>1, AppendProperties
  <1>3. Len(f) \in Nat
    BY <1>1, LenProperties
  <1>4. ASSUME NEW n \in 1 .. Len(g)
        PROVE  Fits(g[n])
    <2>1. CASE n \in 1 .. Len(f)
      BY <1>1, <1>2, <2>1
    <2>2. CASE n = Len(f) + 1
      BY <1>2, <2>2
    <2> QED
      BY <1>2, <1>3, <2>1, <2>2
  <1>5. Lines(g)
    BY <1>2, <1>4 DEF Lines
  <1> QED
    BY <1>2, <1>3, <1>5 DEF OneMore

LEMMA FewerLines ==
    ASSUME NEW f, Lines(f), NEW n \in 0 .. Len(f)
    PROVE  /\ Lines(SubSeq(f, 1, n)) /\ Len(SubSeq(f, 1, n)) = n
           /\ \A i \in 1 .. n : SubSeq(f, 1, n)[i] = f[i]
  <1>1. f \in Seq(LineSet) /\ \A i \in 1 .. Len(f) : Fits(f[i])
    BY DEF Lines
  <1>2. /\ SubSeq(f, 1, n) \in Seq(LineSet) /\ Len(SubSeq(f, 1, n)) = n
        /\ \A i \in 1 .. n : SubSeq(f, 1, n)[i] = f[i]
    BY <1>1, CutInTwo
  <1>3. Len(f) \in Nat
    BY <1>1, LenProperties
  <1> QED
    BY <1>1, <1>2, <1>3 DEF Lines

\* How many bytes the next line gets.
RowSize == Min({IF At % Row > 0 THEN At % Row ELSE Row, Len(image) - done})

LEMMA Smaller ==
    ASSUME NEW a \in Int, NEW b \in Int
    PROVE  Min({a, b}) = IF a <= b THEN a ELSE b
  BY DEF Min

LEMMA Divided ==
    ASSUME NEW s \in Nat, s > 0, NEW x \in Nat
    PROVE  /\ x = s * (x \div s) + (x % s) /\ x % s \in 0 .. s - 1 /\ x \div s \in Nat
           /\ x = (x \div s) * s + (x % s)
  OBVIOUS

LEMMA RowSizes ==
    ASSUME HexTypeInv, done < Len(image)
    PROVE  /\ RowSize \in 1 .. Row /\ RowSize <= Len(image) - done
           /\ SubSeq(image, done + 1, done + RowSize) \in Seq(HexByte)
           /\ Len(SubSeq(image, done + 1, done + RowSize)) = RowSize
           /\ \A i \in 1 .. RowSize : SubSeq(image, done + 1, done + RowSize)[i] = image[done + i]
           /\ At \in Nat /\ At % Segment \in Nat /\ At \div Segment \in Nat
           /\ At % Segment < Segment /\ ((At \div Segment) * Segment) + Segment <= Wrap
  <1>1. image \in Seq(HexByte) /\ offset \in Nat /\ Len(image) \in Nat /\ done \in 0 .. Len(image)
        /\ Row \in Nat /\ Row > 0 /\ Segment \in Nat /\ Segment > 0
    BY HexAssumption, LenProperties DEF HexTypeInv, HexTypeOK, HexShape
  <1>2. At \in Nat
    BY <1>1 DEF At
  <1>3. At % Row \in 0 .. Row - 1
    BY <1>1, <1>2, Divided
  <1>4. PICK a \in 1 .. Row : a = IF At % Row > 0 THEN At % Row ELSE Row
    BY <1>1, <1>3
  <1>5. RowSize = IF a <= Len(image) - done THEN a ELSE Len(image) - done
    BY <1>1, <1>4, Smaller DEF RowSize
  <1>6. RowSize \in 1 .. Row /\ RowSize <= Len(image) - done
    BY <1>1, <1>5
  <1> DEFINE r == RowSize
  <1> HIDE DEF r
  <1>7. r \in Nat /\ r >= 1 /\ r <= Len(image) - done
    BY <1>1, <1>6 DEF r
  <1>8. done + 1 \in 1 .. Len(image) + 1 /\ done + r \in (done + 1) - 1 .. Len(image)
        /\ (done + r) - (done + 1) + 1 = r /\ \A i \in 1 .. r : (done + 1) + i - 1 = done + i
    BY <1>1, <1>7
  <1>9. /\ SubSeq(image, done + 1, done + r) \in Seq(HexByte)
        /\ Len(SubSeq(image, done + 1, done + r)) = (done + r) - (done + 1) + 1
        /\ \A i \in 1 .. (done + r) - (done + 1) + 1 :
              SubSeq(image, done + 1, done + r)[i] = image[(done + 1) + i - 1]
    <2>1. PICK x \in 1 .. Len(image) + 1 : x = done + 1
      BY <1>8
    <2>2. PICK y \in x - 1 .. Len(image) : y = done + r
      BY <1>8, <2>1
    <2>3. /\ SubSeq(image, x, y) \in Seq(HexByte) /\ Len(SubSeq(image, x, y)) = y - x + 1
          /\ \A i \in 1 .. y - x + 1 : SubSeq(image, x, y)[i] = image[x + i - 1]
      BY ONLY <1>1, x \in 1 .. Len(image) + 1, y \in x - 1 .. Len(image), Cut
    <2> QED
      BY <2>1, <2>2, <2>3
  <1>10. /\ At % Segment \in 0 .. Segment - 1 /\ At \div Segment \in Nat
         /\ At = (At \div Segment) * Segment + (At % Segment)
    BY <1>1, <1>2, Divided
  <1>11. ((At \div Segment) * Segment) + Segment <= Wrap
    <2>1. At < BuffSize /\ BuffSize + Segment <= Wrap /\ BuffSize \in Nat /\ Wrap \in Nat
      BY <1>1, HexAssumption DEF At, HexTypeInv, HexShape
    <2>2. PICK g \in Int : g = (At \div Segment) * Segment
      BY <1>1, <1>10
    <2> QED
      BY <1>1, <1>2, <1>10, <2>1, <2>2
  <1> QED
    BY <1>1, <1>2, <1>6, <1>8, <1>9, <1>10, <1>11 DEF r

LEMMA HexTypeInit == HexInit => HexTypeInv
  <1> SUFFICES ASSUME HexInit
               PROVE  HexTypeInv
    OBVIOUS
  <1>1. done = 0 /\ line = 0 /\ sba = 0 /\ lba = 0 /\ mem = [a \in 0 .. BuffSize - 1 |-> Fill]
        /\ Fill \in HexByte /\ BuffSize \in Nat
    BY HexAssumption DEF HexInit, HexByte
  <1>2. image \in Seq(HexByte) /\ offset \in Nat /\ offset + Len(image) <= BuffSize /\ Lines(file)
        /\ doing \in {"write", "read"} /\ origin \in {"written", "given"}
        /\ (doing = "write" => origin = "written")
    <2>1. CASE /\ doing = "write" /\ origin = "written" /\ file = <<>>
               /\ image \in WrittenImages /\ offset \in 0 .. BuffSize - Len(image)
      <3>1. image \in Seq(HexByte) /\ Len(image) \in Nat
        BY <2>1, WrittenBytes, LenProperties
      <3>2. Lines(file)
        <4>1. <<>> \in Seq(LineSet) /\ Len(<<>>) = 0
          BY EmptySeq
        <4> QED
          BY <2>1, <4>1 DEF Lines
      <3> QED
        BY <1>1, <2>1, <3>1, <3>2
    <2>2. CASE /\ doing = "read" /\ origin = "given" /\ file \in GivenFiles
               /\ image = <<>> /\ offset = 0
      <3>1. image \in Seq(HexByte) /\ Len(image) = 0
        BY <2>2, EmptySeq
      <3> QED
        BY <1>1, <2>2, <3>1, GivenLines
    <2> QED
      BY <2>1, <2>2 DEF HexInit
  <1>3. Len(image) \in Nat /\ Len(file) \in Nat
    BY <1>2, LenProperties DEF Lines
  <1>4. HexTypeOK
    BY <1>1, <1>2, <1>3 DEF HexTypeOK
  <1>5. HexShape
    BY <1>1, <1>2, HexAssumption DEF HexShape
  <1> QED
    BY <1>4, <1>5 DEF HexTypeInv

\* What is used of it.
LEMMA Shapes ==
    ASSUME HexTypeInv
    PROVE  /\ image \in Seq(HexByte) /\ Len(image) \in Nat /\ offset \in Nat /\ done \in 0 .. Len(image)
           /\ offset + Len(image) <= BuffSize /\ BuffSize \in Nat
           /\ Lines(file) /\ Len(file) \in Nat /\ line \in 0 .. Len(file)
           /\ sba \in Nat /\ lba \in Nat /\ Paragraph \in Nat
           /\ mem \in [0 .. BuffSize - 1 -> HexByte] /\ Fill \in HexByte
           /\ Segment \in Nat /\ Segment > 0
           /\ Wrap \in Nat /\ BuffSize + Segment <= Wrap /\ (lba * Segment) + Segment <= Wrap
  <1>1. Segment \in Nat /\ Segment > 0 /\ BuffSize \in Nat /\ Paragraph \in Nat
        /\ Wrap \in Nat /\ BuffSize + Segment <= Wrap
    BY HexAssumption
  <1>2. Fill \in HexByte
    BY DEF HexByte
  <1>3. image \in Seq(HexByte) /\ Lines(file)
    BY DEF HexTypeInv, HexShape
  <1>4. Len(image) \in Nat /\ Len(file) \in Nat
    BY <1>3, LenProperties DEF Lines
  <1> QED
    BY <1>1, <1>2, <1>3, <1>4 DEF HexTypeInv, HexTypeOK, HexShape

\* The record that is read next.
LEMMA NextRecord ==
    ASSUME HexTypeInv, line < Len(file)
    PROVE  /\ line + 1 \in 1 .. Len(file) /\ This \in LineSet /\ This.type \in Types
           /\ This.address \in Nat /\ This.data \in Seq(HexByte)
           /\ Len(This.data) \in Nat /\ Len(This.data) <= Segment /\ Fits(This)
           /\ \A k \in 1 .. Len(This.data) : This.data[k] \in HexByte
  <1>1. Lines(file) /\ line + 1 \in 1 .. Len(file)
    <2>1. Len(file) \in Nat /\ line \in 0 .. Len(file) /\ Lines(file)
      BY Shapes
    <2> QED
      BY ONLY <2>1, line < Len(file)
  <1>2. This \in LineSet /\ Len(This.data) <= Segment /\ Fits(This)
    <2>1. file \in Seq(LineSet) /\ Fits(This)
      BY <1>1 DEF Lines, This
    <2>2. This \in LineSet
      BY <1>1, <2>1, ElementOfSeq DEF This
    <2> QED
      BY <2>1, <2>2 DEF Fits
  <1> HIDE DEF This
  <1>3. This.type \in Types /\ This.address \in Nat /\ This.data \in Seq(HexByte)
    BY <1>2 DEF LineSet
  <1>4. Len(This.data) \in Nat /\ \A k \in 1 .. Len(This.data) : This.data[k] \in HexByte
    BY <1>3, LenProperties, ElementOfSeq
  <1> QED
    BY <1>1, <1>2, <1>3, <1>4 DEF This

LEMMA TypesWrite ==
    ASSUME HexTypeInv, WriteUpper \/ WriteRow
    PROVE  HexTypeInv'
  <1>1. doing = "write" /\ done < Len(image) /\ line = 0 /\ sba = 0
        /\ mem = [a \in 0 .. BuffSize - 1 |-> Fill]
    BY DEF HexTypeInv, HexShape, WriteUpper, WriteRow
  <1>2. UNCHANGED <<doing, origin, image, offset, line, sba, mem>>
    BY DEF WriteUpper, WriteRow, writing
  <1>3. done' \in 0 .. Len(image) /\ lba' \in Nat /\ Lines(file') /\ Len(file') \in Nat
        /\ (lba' * Segment) + Segment <= Wrap
    <2>1. Lines(file) /\ Len(file) \in Nat /\ "00" \in Types /\ "04" \in Types
      BY Shapes DEF Types, IntelTypes
    <2>2. CASE WriteUpper
      <3>1. lba' \in Nat /\ file' = Append(file, Record("04", lba', <<>>)) /\ done' = done
            /\ (lba' * Segment) + Segment <= Wrap
        BY <1>1, <2>2, RowSizes DEF WriteUpper, writing
      <3>2. PICK r \in LineSet : r = Record("04", lba', <<>>) /\ Fits(r)
        <4>1. <<>> \in Seq(HexByte) /\ Len(<<>>) <= Segment
          BY EmptySeq, Shapes
        <4> QED
          BY <2>1, <3>1, <4>1, IsLine
      <3>3. Lines(file') /\ Len(file') \in Nat
        BY <2>1, <3>1, <3>2, OneMoreLine DEF OneMore
      <3> QED
        BY <3>1, <3>3, Shapes
    <2>3. CASE WriteRow
      <3>1. /\ lba' = lba /\ done' = done + RowSize
            /\ file' = Append(file, Record("00", At % Segment, SubSeq(image, done + 1, done + RowSize)))
        BY <2>3 DEF WriteRow, RowSize
      <3>2. /\ RowSize \in 1 .. Row /\ RowSize <= Len(image) - done
            /\ SubSeq(image, done + 1, done + RowSize) \in Seq(HexByte)
            /\ Len(SubSeq(image, done + 1, done + RowSize)) = RowSize
            /\ At % Segment \in Nat /\ At % Segment < Segment
        BY <1>1, RowSizes
      <3>3. RowSize <= Segment /\ RowSize \in Nat
        BY <3>2, HexAssumption
      <3>4. PICK r \in LineSet :
              /\ r = Record("00", At % Segment, SubSeq(image, done + 1, done + RowSize))
              /\ Fits(r)
        BY <2>1, <3>2, <3>3, IsLine
      <3>7. Lines(file') /\ Len(file') \in Nat
        BY <2>1, <3>1, <3>4, OneMoreLine DEF OneMore
      <3>8. done' \in 0 .. Len(image) /\ lba' \in Nat
        <4>1. done \in 0 .. Len(image) /\ Len(image) \in Nat /\ lba \in Nat
          BY Shapes
        <4>2. PICK n \in Nat : n = RowSize
          BY <3>3
        <4>3. done' = done + n /\ n <= Len(image) - done /\ lba' = lba
          BY <3>1, <3>2, <4>2
        <4> QED
          BY <4>1, <4>3
      <3> QED
        BY <3>1, <3>7, <3>8, Shapes
    <2> QED
      BY <2>2, <2>3
  <1>4. HexTypeOK'
    BY <1>1, <1>2, <1>3, Shapes DEF HexTypeInv, HexTypeOK
  <1>5. HexShape'
    BY <1>1, <1>2, <1>3 DEF HexTypeInv, HexShape
  <1> QED
    BY <1>4, <1>5 DEF HexTypeInv

\* The file with its last record, and its beginnings, with half a line or without.
LEMMA LastLines ==
    ASSUME HexTypeInv, WriteEnd
    PROVE  LET whole == Append(file, Record("01", 0, <<>>)) IN
           /\ Lines(whole) /\ Len(whole) = Len(file) + 1
           /\ \A n \in 1 .. Len(file) : whole[n] = file[n]
           /\ whole[Len(file) + 1] = Record("01", 0, <<>>)
           /\ Lines(file') /\ Len(file') \in Nat
           /\ \/ file' = whole /\ origin' = "written"
              \/ /\ origin' = "cut"
                 /\ \E n \in 0 .. Len(file) :
                       /\ n <= Len(file') /\ Len(file') <= n + 1
                       /\ \A i \in 1 .. n : file'[i] = file[i]
                       /\ Len(file') = n + 1 => file'[n + 1] = Record("corrupt", 0, <<>>)
  <1> DEFINE whole == Append(file, Record("01", 0, <<>>))
  <1>1. Lines(file) /\ Len(file) \in Nat /\ "01" \in Types /\ "corrupt" \in Types
        /\ <<>> \in Seq(HexByte) /\ Len(<<>>) <= Segment
    BY Shapes, EmptySeq DEF Types, IntelTypes
  <1>2. /\ Lines(whole) /\ Len(whole) = Len(file) + 1
        /\ \A n \in 1 .. Len(file) : whole[n] = file[n]
        /\ whole[Len(file) + 1] = Record("01", 0, <<>>)
    <2>1. PICK r \in LineSet : r = Record("01", 0, <<>>) /\ Fits(r)
      BY <1>1, IsLine
    <2>2. OneMore(file, r, whole)
      BY <1>1, <2>1, OneMoreLine
    <2> QED
      BY <2>1, <2>2 DEF OneMore
  <1>3. \/ file' = whole /\ origin' = "written"
        \/ /\ origin' = "cut"
           /\ \E n \in 0 .. Len(whole) - 1, rest \in {<<>>, <<Record("corrupt", 0, <<>>)>>} :
                  file' = SubSeq(whole, 1, n) \o rest
    BY DEF WriteEnd
  <1> HIDE DEF whole
  <1>4. CASE file' = whole /\ origin' = "written"
    BY <1>1, <1>2, <1>4 DEF whole
  <1>5. CASE /\ origin' = "cut"
             /\ \E n \in 0 .. Len(whole) - 1, rest \in {<<>>, <<Record("corrupt", 0, <<>>)>>} :
                    file' = SubSeq(whole, 1, n) \o rest
    <2>1. PICK n \in 0 .. Len(file), rest \in {<<>>, <<Record("corrupt", 0, <<>>)>>} :
              file' = SubSeq(whole, 1, n) \o rest
      <3>1. Len(whole) - 1 = Len(file)
        BY <1>1, <1>2
      <3> QED
        BY <1>5, <3>1
    <2> DEFINE b == SubSeq(whole, 1, n)
    <2>2. /\ Lines(b) /\ Len(b) = n /\ n \in Nat
          /\ \A i \in 1 .. n : b[i] = file[i]
      <3>1. n \in 0 .. Len(whole) /\ \A i \in 1 .. n : i \in 1 .. Len(file)
        BY <1>1, <1>2
      <3>2. Lines(b) /\ Len(b) = n /\ \A i \in 1 .. n : b[i] = whole[i]
        BY <1>2, <3>1, FewerLines
      <3> QED
        BY <1>2, <3>1, <3>2
    <2> HIDE DEF b
    <2>3. /\ Lines(file') /\ Len(file') \in Nat
          /\ n <= Len(file') /\ Len(file') <= n + 1
          /\ \A i \in 1 .. n : file'[i] = file[i]
          /\ Len(file') = n + 1 => file'[n + 1] = Record("corrupt", 0, <<>>)
      <3>1. CASE rest = <<>>
        <4>1. file' = b
          BY <2>1, <2>2, <3>1, ConcatEmptySeq DEF b, Lines
        <4> QED
          BY <2>2, <4>1
      <3>2. CASE rest = <<Record("corrupt", 0, <<>>)>>
        <4>1. PICK r \in LineSet : r = Record("corrupt", 0, <<>>) /\ Fits(r)
          BY <1>1, IsLine
        <4>2. b \in Seq(LineSet)
          BY <2>2 DEF Lines
        <4>3. file' = Append(b, r)
          BY <2>1, <3>2, <4>1, <4>2, AppendIsConcat DEF b
        <4>4. OneMore(b, r, file')
          BY <2>2, <4>1, <4>3, OneMoreLine
        <4>5. /\ Lines(file') /\ Len(file') = n + 1
              /\ \A i \in 1 .. n : file'[i] = b[i]
              /\ file'[n + 1] = Record("corrupt", 0, <<>>)
          BY <2>2, <4>1, <4>4 DEF OneMore
        <4> QED
          BY <2>2, <4>5
      <3> QED
        BY <3>1, <3>2
    <2> QED
      BY <1>2, <1>5, <2>3 DEF whole
  <1> QED
    BY <1>3, <1>4, <1>5

LEMMA TypesEnd ==
    ASSUME HexTypeInv, WriteEnd
    PROVE  HexTypeInv'
  <1>1. doing = "write" /\ line = 0 /\ doing' = "read" /\ lba' = 0 /\ UNCHANGED <<writing, line, sba, mem>>
    BY DEF HexTypeInv, HexShape, WriteEnd
  <1>2. Lines(file') /\ Len(file') \in Nat /\ origin' \in {"written", "cut"}
    BY LastLines
  <1>3. HexTypeOK'
    BY <1>1, <1>2 DEF HexTypeInv, HexTypeOK, writing
  <1>4. HexShape'
    BY <1>1, <1>2, HexAssumption DEF HexTypeInv, HexShape, writing
  <1> QED
    BY <1>3, <1>4 DEF HexTypeInv

\* What reading does to the state.
LEMMA Reading ==
    ASSUME HexTypeInv, ReadData \/ ReadBase \/ ReadEnd \/ ReadSrec \/ ReadCount \/ Skip \/ Refuse \/ EndOfFile
    PROVE  /\ doing = "read" /\ UNCHANGED <<origin, writing, file>>
           /\ doing' \in {"read", "accepted", "refused", "crashed"}
           /\ \/ line < Len(file) /\ line' = line + 1
              \/ line' = line /\ doing' \in {"accepted", "refused"} /\ UNCHANGED <<sba, lba, mem>>
  BY DEF ReadData, ReadBase, ReadEnd, ReadSrec, ReadCount, Skip, Refuse, EndOfFile, NextLine

LEMMA TypesRead ==
    ASSUME HexTypeInv, ReadData \/ ReadBase \/ ReadEnd \/ ReadSrec \/ ReadCount \/ Skip \/ Refuse \/ EndOfFile
    PROVE  HexTypeInv'
  <1>1. /\ doing = "read" /\ UNCHANGED <<origin, image, offset, done, file>>
        /\ doing' \in {"read", "accepted", "refused", "crashed"} /\ line' \in 0 .. Len(file)
    <2>1. line \in 0 .. Len(file) /\ Len(file) \in Nat
      BY Shapes
    <2>2. line' \in 0 .. Len(file)
      BY <2>1, Reading
    <2> QED
      BY <2>2, Reading DEF writing
  <1>2. sba' \in Nat /\ lba' \in Nat /\ (lba' * Segment) + Segment <= Wrap
    <2>1. CASE ReadBase
      <3>1. line < Len(file)
        BY <2>1, Shapes DEF ReadBase, NextLine
      <3>2. This.address \in Nat /\ lba \in Nat /\ Fits(This)
        BY <3>1, NextRecord, Shapes
      <3>3. 0 * Segment = 0 /\ Segment <= Wrap
        BY HexAssumption
      <3>4. This.type \in {"02", "04"}
        BY <2>1 DEF ReadBase, NextLine, This
      <3>5. CASE This.type = "02"
        <4>1. lba' = 0 /\ sba' = This.address
          BY <2>1, <3>5 DEF ReadBase
        <4>2. lba' * Segment = 0 /\ Segment \in Nat
          BY <3>3, <4>1, HexAssumption
        <4> HIDE DEF This
        <4> QED
          BY <3>2, <3>3, <4>1, <4>2
      <3>6. CASE This.type = "04"
        <4>1. lba' = This.address /\ sba' = 0
          BY <2>1, <3>6 DEF ReadBase
        <4> HIDE DEF This
        <4> QED
          BY <3>2, <3>6, <4>1 DEF Fits
      <3> QED
        BY <3>4, <3>5, <3>6
    <2>2. CASE ~ReadBase
      <3>1. UNCHANGED <<sba, lba>>
        BY <2>2 DEF ReadData, ReadEnd, ReadSrec, ReadCount, Skip, Refuse, EndOfFile
      <3> QED
        BY <3>1, Shapes
    <2> QED
      BY <2>1, <2>2
  <1>3. mem' \in [0 .. BuffSize - 1 -> HexByte]
    <2>0. mem \in [0 .. BuffSize - 1 -> HexByte]
      BY Shapes
    <2>1. CASE ReadData
      <3> DEFINE all == 0 .. Len(This.data) - 1
      <3> DEFINE stored == {k \in all : \A j \in 0 .. k : ~Overlaps(j)}
      <3>1. line < Len(file)
        BY <2>1, Shapes DEF ReadData, NextLine
      <3>2. Len(This.data) \in Nat /\ \A k \in 1 .. Len(This.data) : This.data[k] \in HexByte
        BY <3>1, NextRecord
      <3>3. mem' = [a \in DOMAIN mem |->
                IF \E k \in stored : Address(k) = a
                THEN This.data[1 + CHOOSE k \in stored : Address(k) = a] ELSE mem[a]]
        BY <2>1 DEF ReadData
      <3>4. ASSUME NEW a \in DOMAIN mem, \E k \in stored : Address(k) = a
            PROVE  This.data[1 + CHOOSE k \in stored : Address(k) = a] \in HexByte
        <4> DEFINE c == CHOOSE k \in stored : Address(k) = a
        <4>1. c \in stored
          BY <3>4
        <4>2. c \in all
          BY <4>1
        <4> HIDE DEF c, stored
        <4>3. 1 + c \in 1 .. Len(This.data)
          BY <3>2, <4>2
        <4> QED
          BY <3>2, <4>3 DEF c
      <3> HIDE DEF stored
      <3> QED
        BY <2>0, <3>3, <3>4
    <2>2. CASE ReadSrec
      <3>1. line < Len(file)
        BY <2>2, Shapes DEF ReadSrec, NextLine
      <3>2. Len(This.data) \in Nat /\ \A k \in 1 .. Len(This.data) : This.data[k] \in HexByte
        BY <3>1, NextRecord
      <3> DEFINE at(a) == (a - This.address) % Wrap
      <3>3. \/ mem' = mem
            \/ mem' = [a \in DOMAIN mem |->
                 IF at(a) \in 0 .. Len(This.data) - 1 THEN This.data[at(a) + 1] ELSE mem[a]]
        BY <2>2 DEF ReadSrec
      <3> HIDE DEF at
      <3>4. \A a \in DOMAIN mem : at(a) \in 0 .. Len(This.data) - 1 => This.data[at(a) + 1] \in HexByte
        <4> SUFFICES ASSUME NEW a \in DOMAIN mem, at(a) \in 0 .. Len(This.data) - 1
                     PROVE  This.data[at(a) + 1] \in HexByte
          OBVIOUS
        <4>1. at(a) + 1 \in 1 .. Len(This.data)
          BY <3>2
        <4> QED
          BY <3>2, <4>1
      <3> QED
        BY <2>0, <3>3, <3>4
    <2>3. CASE ~ReadData /\ ~ReadSrec
      <3>1. mem' = mem
        BY <2>3 DEF ReadBase, ReadEnd, ReadCount, Skip, Refuse, EndOfFile
      <3> QED
        BY <2>0, <3>1
    <2> QED
      BY <2>1, <2>2, <2>3
  <1>4. HexTypeOK'
    BY <1>1, <1>2, <1>3 DEF HexTypeInv, HexTypeOK
  <1>5. HexShape'
    BY <1>1, <1>2 DEF HexTypeInv, HexShape
  <1> QED
    BY <1>4, <1>5 DEF HexTypeInv

LEMMA HexTypeStep == HexTypeInv /\ [HexNext]_hexVars => HexTypeInv'
  <1>1. CASE UNCHANGED hexVars
    BY <1>1 DEF hexVars, HexTypeInv, HexTypeOK, HexShape
  <1>2. CASE HexNext
    BY <1>2, TypesWrite, TypesEnd, TypesRead DEF HexNext
  <1> QED
    BY <1>1, <1>2

\* The state of reading and writing a file is well formed.
THEOREM HexTypes == HexSpec => []HexTypeOK
  <1>1. HexTypeInv => HexTypeOK
    BY DEF HexTypeInv
  <1> QED
    BY HexTypeInit, HexTypeStep, <1>1, PTL DEF HexSpec

\* The last base in the first n lines of f.
LastIn(f, n) == SelectLastInSubSeq(f, 1, n, LAMBDA r : r.type \in {"02", "04"})

IsLast(f, n, b) ==
    \/ b = 0 /\ \A i \in 1 .. n : f[i].type \notin {"02", "04"}
    \/ b \in 1 .. n /\ f[b].type \in {"02", "04"} /\ \A i \in 1 .. n : f[i].type \in {"02", "04"} => i <= b

IntelFile(f) == f # <<>> /\ Head(f).type \in IntelTypes
SrecFile(f) == f # <<>> /\ Head(f).type \in SrecTypes

\* PlaceOf for any file, and what line n of it says of address a.
PlaceIn(f, n, k) ==
    LET b == LastIn(f, n - 1)
        base == IF b = 0 THEN 0 ELSE f[b].address
    IN  IF base # 0 /\ f[b].type = "02" THEN (base * Paragraph) + ((f[n].address + k) % Segment)
        ELSE base * Segment + f[n].address + k

Says(f, n, k, a) ==
    /\ f[n].type \in {"00", "S1", "S2", "S3"}
    /\ k \in 1 .. Len(f[n].data)
    /\ a = IF IntelFile(f) THEN PlaceIn(f, n, k - 1) ELSE f[n].address + k - 1

\* The bases in force behind line l.
Bases(f, l, s, u) == \E b \in 0 .. l :
    /\ IsLast(f, l, b)
    /\ b = 0 => s = 0 /\ u = 0
    /\ b # 0 => IF f[b].type = "02" THEN s = f[b].address /\ u = 0 ELSE s = 0 /\ u = f[b].address

\* What l lines have made of the buffer m.
Placed(f, l, m) ==
    /\ IntelFile(f) => \A n \in 1 .. l : f[n].type \in IntelTypes
    /\ SrecFile(f) => \A n \in 1 .. l : f[n].type \in SrecTypes
    /\ \A a \in DOMAIN m : m[a] # Fill => \E n \in 1 .. l, k \in Nat : Says(f, n, k, a)
    /\ IntelFile(f) => \A n \in 1 .. l, k \in Nat, a \in DOMAIN m :
            Says(f, n, k, a) => f[n].data[k] \in {m[a], Fill}
    /\ SrecFile(f) => \A n \in 1 .. l, k \in Nat, a \in DOMAIN m :
            (Says(f, n, k, a) /\ \A i \in 1 .. l, j \in Nat : Says(f, i, j, a) => i <= n)
                => m[a] = f[n].data[k]

\* None of l lines goes to where addresses wrap.
Tame(f, l) == SrecFile(f) => \A n \in 1 .. l : f[n].type \in {"S1", "S2", "S3"} => ~Wraps(f[n])

PlacedInv ==
    /\ Tame(file, line) => doing # "crashed"
    /\ Tame(file, line) /\ doing \in {"read", "accepted"} => Placed(file, line, mem)
    /\ doing = "read" /\ IntelFile(file) => Bases(file, line, sba, lba)

-----------------------------------------------------------------------------

LEMMA LastIs ==
    ASSUME NEW f, NEW n \in Nat
    PROVE  IsLast(f, n, LastIn(f, n)) /\ LastIn(f, n) \in 0 .. n
  <1> DEFINE I == {i \in 1 .. n : f[i].type \in {"02", "04"}}
  <1>1. LastIn(f, n) = IF I # {} THEN Max(I) ELSE 0
    BY DEF LastIn, SelectLastInSubSeq
  <1>2. I \in SUBSET (1 .. n) /\ \A i \in 1 .. n : i \in I <=> f[i].type \in {"02", "04"}
    OBVIOUS
  <1> HIDE DEF I
  <1>3. CASE I = {}
    BY <1>1, <1>2, <1>3 DEF IsLast
  <1>4. CASE I # {}
    <2>1. \E x \in I : \A y \in I : x >= y
      BY <1>2, <1>4, GreatestExists
    <2>2. Max(I) \in I /\ \A y \in I : Max(I) >= y
      BY <2>1 DEF Max
    <2>3. PICK b \in 1 .. n : b = Max(I)
      BY <1>2, <2>2
    <2>4. f[b].type \in {"02", "04"} /\ \A i \in 1 .. n : f[i].type \in {"02", "04"} => i <= b
      BY <1>2, <2>2, <2>3
    <2> QED
      BY <1>1, <1>4, <2>3, <2>4 DEF IsLast
  <1> QED
    BY <1>3, <1>4

LEMMA OneLast ==
    ASSUME NEW f, NEW n \in Nat, NEW b, NEW c, IsLast(f, n, b), IsLast(f, n, c)
    PROVE  b = c
  BY DEF IsLast

\* Where the bytes of the next line belong, by the bases in force.
LEMMA NextPlace ==
    ASSUME NEW f, NEW n \in Nat, NEW s, NEW u, Bases(f, n, s, u), NEW k \in Nat
    PROVE  PlaceIn(f, n + 1, k) =
                IF s # 0 THEN (s * Paragraph) + ((f[n + 1].address + k) % Segment)
                ELSE u * Segment + f[n + 1].address + k
  <1>1. PICK b \in 0 .. n :
            /\ IsLast(f, n, b)
            /\ b = 0 => s = 0 /\ u = 0
            /\ b # 0 => IF f[b].type = "02" THEN s = f[b].address /\ u = 0 ELSE s = 0 /\ u = f[b].address
    BY DEF Bases
  <1>2. LastIn(f, (n + 1) - 1) = b
    <2>1. (n + 1) - 1 = n
      OBVIOUS
    <2>2. LastIn(f, n) = b
      BY <1>1, LastIs, OneLast
    <2> QED
      BY <2>1, <2>2
  <1> DEFINE base == IF b = 0 THEN 0 ELSE f[b].address
  <1>3. PlaceIn(f, n + 1, k) =
            IF base # 0 /\ f[b].type = "02" THEN (base * Paragraph) + ((f[n + 1].address + k) % Segment)
            ELSE base * Segment + f[n + 1].address + k
    BY <1>2 DEF PlaceIn
  <1>4. (s # 0 => base = s /\ b # 0 /\ f[b].type = "02") /\ (s = 0 => base = u /\ ~(base # 0 /\ f[b].type = "02"))
    BY <1>1
  <1> HIDE DEF base
  <1> QED
    BY <1>3, <1>4

LEMMA BasesKept ==
    ASSUME NEW f, NEW n \in Nat, NEW s, NEW u, Bases(f, n, s, u), f[n + 1].type \notin {"02", "04"}
    PROVE  Bases(f, n + 1, s, u)
  <1>1. PICK b \in 0 .. n :
            /\ IsLast(f, n, b)
            /\ b = 0 => s = 0 /\ u = 0
            /\ b # 0 => IF f[b].type = "02" THEN s = f[b].address /\ u = 0 ELSE s = 0 /\ u = f[b].address
    BY DEF Bases
  <1>2. IsLast(f, n + 1, b)
    <2>1. \A i \in 1 .. n + 1 : i \in 1 .. n \/ i = n + 1
      OBVIOUS
    <2> QED
      BY <1>1, <2>1 DEF IsLast
  <1>3. b \in 0 .. n + 1
    OBVIOUS
  <1> QED
    BY <1>1, <1>2, <1>3 DEF Bases

LEMMA BasesNew ==
    ASSUME NEW f, NEW n \in Nat, NEW s, NEW u, f[n + 1].type \in {"02", "04"},
           IF f[n + 1].type = "02" THEN s = f[n + 1].address /\ u = 0 ELSE s = 0 /\ u = f[n + 1].address
    PROVE  Bases(f, n + 1, s, u)
  <1>1. n + 1 \in 0 .. n + 1 /\ n + 1 \in 1 .. n + 1 /\ n + 1 # 0 /\ \A i \in 1 .. n + 1 : i <= n + 1
    OBVIOUS
  <1>2. IsLast(f, n + 1, n + 1)
    BY <1>1 DEF IsLast
  <1> QED
    BY <1>1, <1>2 DEF Bases

\* A line without data changes nothing.
LEMMA PlacedNoData ==
    ASSUME NEW f, NEW l \in Nat, NEW m, Placed(f, l, m),
           f[l + 1].type \notin {"00", "S1", "S2", "S3"},
           IntelFile(f) => f[l + 1].type \in IntelTypes, SrecFile(f) => f[l + 1].type \in SrecTypes
    PROVE  Placed(f, l + 1, m)
  <1>1. \A n \in 1 .. l + 1 : n \in 1 .. l \/ n = l + 1
    OBVIOUS
  <1>2. \A k, a : ~Says(f, l + 1, k, a)
    BY DEF Says
  <1>3. \A n \in 1 .. l : n \in 1 .. l + 1
    OBVIOUS
  <1> QED
    BY <1>1, <1>2, <1>3 DEF Placed

-----------------------------------------------------------------------------

\* A file is not both.
LEMMA OneKind ==
    ASSUME NEW f
    PROVE  ~(IntelFile(f) /\ SrecFile(f))
  BY DEF IntelFile, SrecFile, IntelTypes, SrecTypes

LEMMA Kinds ==
    /\ Intel <=> IntelFile(file)
    /\ Srec <=> SrecFile(file)
    /\ \A n, k : PlaceOf(n, k) = PlaceIn(file, n, k)
  BY DEF Intel, Srec, IntelFile, SrecFile, PlaceOf, PlaceIn, LastIn

\* What the lines before allow is said of them too.
LEMMA TamerBefore ==
    ASSUME NEW f, NEW l \in Nat, Tame(f, l + 1)
    PROVE  Tame(f, l)
  <1>1. \A n \in 1 .. l : n \in 1 .. l + 1
    OBVIOUS
  <1> QED
    BY <1>1 DEF Tame

LEMMA PlacedInit == HexInit => PlacedInv
  <1> SUFFICES ASSUME HexInit
               PROVE  PlacedInv
    OBVIOUS
  <1>1. doing \in {"write", "read"} /\ line = 0 /\ sba = 0 /\ lba = 0 /\ mem = [a \in 0 .. BuffSize - 1 |-> Fill]
    BY DEF HexInit
  <1>2. 1 .. 0 = {} /\ 0 \in 0 .. 0
    OBVIOUS
  <1>3. Placed(file, 0, mem)
    BY <1>1, <1>2 DEF Placed
  <1>4. Bases(file, 0, 0, 0)
    BY <1>2 DEF Bases, IsLast
  <1> QED
    BY <1>1, <1>3, <1>4 DEF PlacedInv

LEMMA PlacedWrite ==
    ASSUME HexTypeInv, PlacedInv, WriteUpper \/ WriteRow \/ WriteEnd
    PROVE  PlacedInv'
  <1>1. line' = 0 /\ sba' = 0 /\ mem' = [a \in 0 .. BuffSize - 1 |-> Fill]
        /\ (doing' = "write" \/ (doing' = "read" /\ lba' = 0))
    <2>1. doing = "write"
      BY DEF WriteUpper, WriteRow, WriteEnd
    <2>2. line = 0 /\ sba = 0 /\ mem = [a \in 0 .. BuffSize - 1 |-> Fill]
      BY <2>1 DEF HexTypeInv, HexShape
    <2>3. line' = line /\ sba' = sba /\ mem' = mem /\ (doing' = doing \/ (doing' = "read" /\ lba' = 0))
      <3>1. CASE WriteUpper
        BY <3>1 DEF WriteUpper
      <3>2. CASE WriteRow
        BY <3>2 DEF WriteRow
      <3>3. CASE WriteEnd
        BY <3>3 DEF WriteEnd
      <3> QED
        BY <3>1, <3>2, <3>3
    <2> QED
      BY <2>1, <2>2, <2>3
  <1>2. 1 .. 0 = {} /\ 0 \in 0 .. 0
    OBVIOUS
  <1>3. Placed(file', 0, mem')
    BY <1>1, <1>2 DEF Placed
  <1>4. Bases(file', 0, 0, 0)
    BY <1>2 DEF Bases, IsLast
  <1> QED
    BY <1>1, <1>3, <1>4 DEF PlacedInv

\* What the next line says, when its bytes belong where place has them.
LEMMA SaysIntel ==
    ASSUME NEW f, NEW n \in Nat, IntelFile(f), NEW s, NEW u, Bases(f, n, s, u), f[n + 1].type = "00",
           NEW k \in Nat, NEW a
    PROVE  Says(f, n + 1, k, a) <=>
                /\ k \in 1 .. Len(f[n + 1].data)
                /\ a = IF s # 0 THEN (s * Paragraph) + ((f[n + 1].address + (k - 1)) % Segment)
                       ELSE u * Segment + f[n + 1].address + (k - 1)
  <1>1. CASE k = 0
    BY <1>1 DEF Says
  <1>2. CASE k # 0
    <2>1. k - 1 \in Nat
      BY <1>2
    <2>2. PlaceIn(f, n + 1, k - 1) =
              IF s # 0 THEN (s * Paragraph) + ((f[n + 1].address + (k - 1)) % Segment)
              ELSE u * Segment + f[n + 1].address + (k - 1)
      BY <2>1, NextPlace
    <2> QED
      BY <2>2 DEF Says
  <1> QED
    BY <1>1, <1>2

\* Two numbers with one remainder are a whole divisor apart.
LEMMA Remainders ==
    ASSUME NEW s \in Nat, s > 0, NEW x \in Nat, NEW y \in Nat, x % s = y % s, x < y, y - x < s
    PROVE  FALSE
  <1>1. x = s * (x \div s) + (x % s) /\ y = s * (y \div s) + (y % s)
    BY Divided
  <1>2. PICK p \in Nat : p = x \div s
    BY Divided
  <1>3. PICK q \in Nat : q = y \div s
    BY Divided
  <1>4. y - x = s * q - s * p
    BY <1>1, <1>2, <1>3
  <1>5. s * q - s * p = s * (q - p)
    OBVIOUS
  <1>6. CASE q <= p
    <2>1. s * (q - p) <= 0
      BY <1>6
    <2> QED
      BY <2>1, <1>4, <1>5
  <1>7. CASE q >= p + 1
    <2>1. PICK r \in Nat : q - p = r + 1
      BY <1>7
    <2>2. s * (r + 1) = s * r + s /\ s * r >= 0
      OBVIOUS
    <2> QED
      BY <2>1, <2>2, <1>4, <1>5
  <1> QED
    BY <1>6, <1>7

\* The bytes of one line belong at different addresses.
LEMMA Spread ==
    ASSUME NEW s \in Nat, NEW u \in Nat, NEW g \in Nat, NEW b \in Nat,
           NEW j \in Nat, NEW k \in Nat, s > 0, j < s, k < s,
           g + ((b + j) % s) = g + ((b + k) % s)
    PROVE  j = k
  <1>1. (b + j) % s \in 0 .. s - 1 /\ (b + k) % s \in 0 .. s - 1
    BY Divided
  <1>2. (b + j) % s = (b + k) % s
    BY <1>1
  <1>3. PICK x \in Nat, y \in Nat : x = b + j /\ y = b + k
    OBVIOUS
  <1>4. x % s = y % s /\ x - y < s /\ y - x < s
    BY <1>2, <1>3
  <1>5. ~(x < y) /\ ~(y < x)
    BY <1>4, Remainders
  <1> QED
    BY <1>3, <1>5

\* A number below that which it is divided by is what remains.
LEMMA Below ==
    ASSUME NEW w \in Nat, NEW x \in Nat, x < w
    PROVE  x % w = x
  <1>1. w > 0
    OBVIOUS
  <1>2. PICK q \in Nat : q = x \div w
    BY <1>1, Divided
  <1>3. PICK r \in 0 .. w - 1 : r = x % w
    BY <1>1, Divided
  <1>4. x = w * q + r
    BY <1>1, <1>2, <1>3, Divided
  <1>5. q = 0
    <2>1. CASE q >= 1
      <3>1. PICK m \in Nat : q = m + 1
        BY <2>1
      <3>2. w * (m + 1) = w * m + w /\ w * m >= 0
        OBVIOUS
      <3> QED
        BY <1>3, <1>4, <3>1, <3>2
    <2> QED
      BY <2>1
  <1> QED
    BY <1>3, <1>4, <1>5

LEMMA BelowZero ==
    ASSUME NEW w \in Nat, NEW x \in Int, x < 0, -w < x
    PROVE  x % w = x + w
  <1>1. PICK q \in Int : q = x \div w
    OBVIOUS
  <1>2. PICK r \in 0 .. w - 1 : r = x % w
    OBVIOUS
  <1>3. x = w * q + r
    BY <1>1, <1>2
  <1>4. q = -1
    <2>1. CASE q >= 0
      <3>1. w * q >= 0
        BY <2>1
      <3> QED
        BY <1>2, <1>3, <3>1
    <2>2. CASE q <= -2
      <3>1. PICK m \in Nat : q = -2 - m
        BY <2>2
      <3>2. w * (-2 - m) = -(2 * w) - (w * m) /\ w * m >= 0
        OBVIOUS
      <3> QED
        BY <1>2, <1>3, <3>1, <3>2
    <2> QED
      BY <2>1, <2>2
  <1>5. w * (-1) = -w
    OBVIOUS
  <1> QED
    BY <1>2, <1>3, <1>4, <1>5

\* Where byte k of the next line belongs, without regard to what addresses wrap at.
Unwrapped(k) ==
    IF sba # 0 THEN (sba * Paragraph) + ((This.address + k) % Segment)
    ELSE lba * Segment + This.address + k

\* A line whose first byte is in the buffer does not wrap.
LEMMA InBuffer ==
    ASSUME HexTypeInv, line < Len(file), This.type = "00", NEW k \in 0 .. Len(This.data) - 1, ~Overlaps(0)
    PROVE  Address(k) = Unwrapped(k) /\ Unwrapped(k) \in Nat
  <1>1. /\ This.address \in Nat /\ Len(This.data) \in Nat /\ Fits(This)
        /\ Segment \in Nat /\ Segment > 0 /\ sba \in Nat /\ lba \in Nat /\ Paragraph \in Nat
        /\ Wrap \in Nat /\ BuffSize \in Nat /\ BuffSize + Segment <= Wrap
        /\ (lba * Segment) + Segment <= Wrap
    BY NextRecord, Shapes
  <1>2. PICK t \in Nat : t = This.address /\ t < Segment
    BY <1>1 DEF Fits
  <1>3. k \in Nat /\ k < Segment
    BY <1>1 DEF Fits
  <1>4. CASE sba # 0
    <2>1. (t + k) % Segment \in Nat
      BY <1>1, <1>3, Divided
    <2>2. Unwrapped(k) = (sba * Paragraph) + ((t + k) % Segment) /\ Address(k) = Unwrapped(k)
      BY <1>2, <1>4 DEF Unwrapped, Address
    <2> QED
      BY <1>1, <2>1, <2>2
  <1>5. CASE sba = 0
    <2>1. PICK g \in Nat : g = lba * Segment
      BY <1>1
    <2>2. Address(0) = (g + t + 0) % Wrap /\ Address(k) = (g + t + k) % Wrap /\ Unwrapped(k) = g + t + k
      BY <1>2, <1>5, <2>1 DEF Address, Unwrapped
    <2>3. g + t + 0 = g + t /\ g + t \in Nat /\ g + t < Wrap
      BY <1>1, <1>2, <2>1
    <2>4. Address(0) = g + t
      BY <1>1, <2>2, <2>3, Below
    <2>5. g + t < BuffSize
      BY <1>1, <2>3, <2>4 DEF Overlaps
    <2>6. g + t + k \in Nat /\ g + t + k < Wrap
      BY <1>1, <1>3, <2>3, <2>5
    <2> QED
      BY <1>1, <2>2, <2>6, Below
  <1> QED
    BY <1>4, <1>5

LEMMA AddressIs ==
    ASSUME HexTypeInv, line < Len(file), NEW j \in 0 .. Len(This.data) - 1, NEW k \in 0 .. Len(This.data) - 1,
           Unwrapped(j) = Unwrapped(k)
    PROVE  j = k
  <1>1. This.address \in Nat /\ Len(This.data) \in Nat /\ Len(This.data) <= Segment
        /\ Segment \in Nat /\ Segment > 0 /\ sba \in Nat /\ lba \in Nat /\ Paragraph \in Nat
    BY NextRecord, Shapes
  <1>2. PICK t \in Nat : t = This.address
    BY <1>1
  <1>3. Unwrapped(j) = IF sba # 0 THEN (sba * Paragraph) + ((t + j) % Segment) ELSE lba * Segment + t + j
    BY <1>2 DEF Unwrapped
  <1>4. Unwrapped(k) = IF sba # 0 THEN (sba * Paragraph) + ((t + k) % Segment) ELSE lba * Segment + t + k
    BY <1>2 DEF Unwrapped
  <1>5. j \in Nat /\ k \in Nat /\ j < Segment /\ k < Segment
    BY <1>1
  <1>6. CASE sba # 0
    <2>1. PICK g \in Nat : g = sba * Paragraph
      BY <1>1
    <2> QED
      BY <1>1, <1>3, <1>4, <1>5, <1>6, <2>1, Spread
  <1>7. CASE sba = 0
    <2>1. PICK g \in Nat : g = lba * Segment
      BY <1>1
    <2>2. Unwrapped(j) = g + t + j /\ Unwrapped(k) = g + t + k
      BY <1>3, <1>4, <1>7, <2>1
    <2>3. g + t + j = g + t + k
      BY <2>2
    <2> QED
      BY ONLY <1>5, g \in Nat, t \in Nat, <2>3
  <1> QED
    BY <1>6, <1>7

\* What a line does to the buffer, when it is not refused.
LEMMA Stored ==
    ASSUME HexTypeInv, ReadData, doing' = "read"
    PROVE  /\ \A k \in 0 .. Len(This.data) - 1 :
                Address(k) \in DOMAIN mem /\ mem[Address(k)] = Fill /\ mem'[Address(k)] = This.data[k + 1]
           /\ DOMAIN mem' = DOMAIN mem
           /\ \A a \in DOMAIN mem : (\A k \in 0 .. Len(This.data) - 1 : a # Address(k)) => mem'[a] = mem[a]
           /\ \A k \in 0 .. Len(This.data) - 1 : Address(k) = Unwrapped(k)
  <1> DEFINE all == 0 .. Len(This.data) - 1
  <1> DEFINE stored == {k \in all : \A j \in 0 .. k : ~Overlaps(j)}
  <1> DEFINE here(a) == CHOOSE k \in stored : Address(k) = a
  <1>1. /\ line < Len(file)
        /\ mem' = [a \in DOMAIN mem |->
                IF \E k \in stored : Address(k) = a THEN This.data[1 + here(a)] ELSE mem[a]]
        /\ doing' = IF stored = all THEN "read" ELSE "refused"
    BY Shapes DEF ReadData, NextLine
  <1>2. stored = all
    BY <1>1
  <1>3. mem \in [0 .. BuffSize - 1 -> HexByte] /\ BuffSize \in Nat
    BY Shapes
  <1>4. DOMAIN mem' = DOMAIN mem
    BY <1>1
  <1>7. ASSUME NEW k \in all
        PROVE  Address(k) = Unwrapped(k) /\ Address(k) \in Nat
    <2>1. Len(This.data) \in Nat /\ This.type = "00"
      BY <1>1, NextRecord DEF ReadData, NextLine, This
    <2>2. 0 \in all /\ 0 \in 0 .. 0
      BY <2>1
    <2>3. 0 \in stored
      BY <1>2, <2>2
    <2>4. ~Overlaps(0)
      BY <2>2, <2>3
    <2> QED
      BY <1>1, <2>1, <2>4, InBuffer
  <1>5. ASSUME NEW k \in all
        PROVE  Address(k) \in DOMAIN mem /\ mem[Address(k)] = Fill /\ mem'[Address(k)] = This.data[k + 1]
    <2>1. k \in stored
      BY <1>2
    <2>2. k \in 0 .. k /\ k \in Nat
      BY <1>1, NextRecord
    <2>3. ~Overlaps(k)
      BY <2>1, <2>2
    <2>4. Address(k) \in Nat
      BY <1>7
    <2>5. Address(k) \in DOMAIN mem /\ mem[Address(k)] = Fill
      BY <1>3, <2>3, <2>4 DEF Overlaps
    <2> HIDE DEF stored
    <2>6. here(Address(k)) \in stored /\ Address(here(Address(k))) = Address(k)
      BY <2>1
    <2>7. here(Address(k)) \in all
      BY <1>2, <2>6
    <2>8. PICK c \in all : c = here(Address(k)) /\ Address(c) = Address(k)
      BY <2>6, <2>7
    <2>9. c = k
      BY <1>1, <1>7, <2>8, AddressIs
    <2>10. mem'[Address(k)] = This.data[1 + here(Address(k))]
      BY <1>1, <2>1, <2>5
    <2>11. 1 + here(Address(k)) = k + 1
      <3>1. 1 + k = k + 1
        BY <2>2
      <3> QED
        BY <2>8, <2>9, <3>1
    <2> QED
      BY <2>5, <2>10, <2>11
  <1>6. ASSUME NEW a \in DOMAIN mem, \A k \in all : a # Address(k)
        PROVE  mem'[a] = mem[a]
    BY <1>1, <1>6
  <1> QED
    BY <1>4, <1>5, <1>6, <1>7

LEMMA PlacedData ==
    ASSUME HexTypeInv, PlacedInv, ReadData, doing' = "read"
    PROVE  PlacedInv'
  <1>1. /\ doing = "read" /\ line < Len(file) /\ This.type = "00" /\ line' = line + 1
        /\ file' = file /\ sba' = sba /\ lba' = lba /\ Intel
    BY Shapes DEF ReadData, NextLine, This
  <1>2. IntelFile(file) /\ ~SrecFile(file) /\ Placed(file, line, mem) /\ Bases(file, line, sba, lba)
    BY <1>1, Kinds, OneKind DEF PlacedInv, Tame
  <1>3. line \in Nat /\ This.address \in Nat /\ Len(This.data) \in Nat
    BY <1>1, Shapes, NextRecord
  <1>4. file[line + 1].type = "00" /\ file[line + 1] = This
    BY <1>1 DEF This
  <1>5. Bases(file, line + 1, sba, lba)
    BY <1>2, <1>3, <1>4, BasesKept
  <1>6. /\ \A k \in 0 .. Len(This.data) - 1 :
                Address(k) \in DOMAIN mem /\ mem[Address(k)] = Fill /\ mem'[Address(k)] = This.data[k + 1]
        /\ DOMAIN mem' = DOMAIN mem
        /\ \A a \in DOMAIN mem : (\A k \in 0 .. Len(This.data) - 1 : a # Address(k)) => mem'[a] = mem[a]
        /\ \A k \in 0 .. Len(This.data) - 1 : Address(k) = Unwrapped(k)
    BY <1>1, Stored
  <1>7. \A k \in Nat : \A a : Says(file, line + 1, k, a) <=> k \in 1 .. Len(This.data) /\ a = Address(k - 1)
    <2>1. \A k \in Nat : \A a : Says(file, line + 1, k, a) <=> k \in 1 .. Len(This.data) /\ a = Unwrapped(k - 1)
      BY <1>2, <1>3, <1>4, SaysIntel DEF Unwrapped, This
    <2>2. \A k \in 1 .. Len(This.data) : k - 1 \in 0 .. Len(This.data) - 1
      BY <1>3
    <2> HIDE DEF This, Address, Unwrapped
    <2> QED
      BY <1>6, <2>1, <2>2
  <1> HIDE DEF This, Address
  <1>8. \A n \in 1 .. line + 1 : n \in 1 .. line \/ n = line + 1
    BY <1>3
  <1>9. line + 1 \in 1 .. line + 1 /\ \A n \in 1 .. line : n \in 1 .. line + 1
    BY <1>3
  <1>10. \A n \in 1 .. line + 1 : file[n].type \in IntelTypes
    <2>1. "00" \in IntelTypes
      BY DEF IntelTypes
    <2> QED
      BY <1>2, <1>4, <1>8, <2>1 DEF Placed
  <1>11. ASSUME NEW a \in DOMAIN mem', mem'[a] # Fill
         PROVE  \E n \in 1 .. line + 1, k \in Nat : Says(file, n, k, a)
    <2>1. CASE \E k \in 0 .. Len(This.data) - 1 : a = Address(k)
      <3>1. PICK k \in 0 .. Len(This.data) - 1 : a = Address(k)
        BY <2>1
      <3>2. k + 1 \in Nat /\ k + 1 \in 1 .. Len(This.data) /\ (k + 1) - 1 = k
        BY <1>3
      <3>3. Says(file, line + 1, k + 1, a)
        BY <1>7, <3>1, <3>2
      <3> QED
        BY <1>9, <3>2, <3>3
    <2>2. CASE \A k \in 0 .. Len(This.data) - 1 : a # Address(k)
      <3>1. mem[a] # Fill /\ a \in DOMAIN mem
        BY <1>6, <1>11, <2>2
      <3>2. PICK n \in 1 .. line, k \in Nat : Says(file, n, k, a)
        BY <1>2, <3>1 DEF Placed
      <3> QED
        BY <1>9, <3>2
    <2> QED
      BY <2>1, <2>2
  <1>12. ASSUME NEW n \in 1 .. line + 1, NEW k \in Nat, NEW a \in DOMAIN mem', Says(file, n, k, a)
         PROVE  file[n].data[k] \in {mem'[a], Fill}
    <2>1. CASE n = line + 1
      <3>1. k \in 1 .. Len(This.data) /\ a = Address(k - 1)
        BY <1>7, <1>12, <2>1
      <3>2. k - 1 \in 0 .. Len(This.data) - 1 /\ (k - 1) + 1 = k
        BY <1>3, <3>1
      <3>3. mem'[a] = This.data[k]
        BY <1>6, <3>1, <3>2
      <3> QED
        BY <1>4, <2>1, <3>3
    <2>2. CASE n \in 1 .. line
      <3>1. a \in DOMAIN mem /\ file[n].data[k] \in {mem[a], Fill}
        BY <1>2, <1>6, <1>12, <2>2 DEF Placed
      <3>2. CASE \E j \in 0 .. Len(This.data) - 1 : a = Address(j)
        BY <1>6, <3>1, <3>2
      <3>3. CASE \A j \in 0 .. Len(This.data) - 1 : a # Address(j)
        BY <1>6, <3>1, <3>3
      <3> QED
        BY <3>2, <3>3
    <2> QED
      BY <1>8, <2>1, <2>2
  <1>13. Placed(file, line + 1, mem')
    BY <1>2, <1>10, <1>11, <1>12 DEF Placed
  <1> QED
    BY <1>1, <1>5, <1>13 DEF PlacedInv

LEMMA PlacedSrec ==
    ASSUME HexTypeInv, PlacedInv, ReadSrec, doing' # "refused", Tame(file, line + 1)
    PROVE  PlacedInv' /\ doing' = "read"
  <1> DEFINE b == This.address
  <1> DEFINE c == Len(This.data)
  <1>1. /\ doing = "read" /\ line < Len(file) /\ This.type \in {"S1", "S2", "S3"} /\ line' = line + 1
        /\ file' = file /\ sba' = sba /\ lba' = lba /\ Srec
    BY Shapes DEF ReadSrec, NextLine, This
  <1>2. SrecFile(file) /\ ~IntelFile(file) /\ Placed(file, line, mem)
    BY <1>1, Shapes, TamerBefore, Kinds, OneKind DEF PlacedInv
  <1>3. line \in Nat /\ b \in Nat /\ c \in Nat /\ mem \in [0 .. BuffSize - 1 -> HexByte] /\ BuffSize \in Nat
    BY <1>1, Shapes, NextRecord
  <1>4. file[line + 1] = This
    BY <1>1 DEF This
  <1>w. ~Wraps(This) /\ b + c < Wrap /\ Wrap \in Nat /\ BuffSize <= Wrap
    <2>1. line + 1 \in 1 .. line + 1
      BY <1>3
    <2>2. ~Wraps(This)
      BY <1>1, <1>2, <1>4, <2>1 DEF Tame
    <2>3. /\ BuffSize + Segment <= Wrap /\ Segment \in Nat
          /\ Wrap \in Nat /\ BuffSize \in Nat
      BY HexAssumption
    <2>4. BuffSize <= Wrap
      BY ONLY <2>3
    <2>5. ~(b + c >= Wrap)
      BY <2>2 DEF Wraps
    <2> HIDE DEF b, c
    <2> QED
      BY <1>3, <2>2, <2>3, <2>4, <2>5
  <1>r. doing' = "read"
    BY <1>w DEF ReadSrec
  <1> DEFINE at(a) == (a - b) % Wrap
  <1>u. mem' = [a \in DOMAIN mem |-> IF at(a) \in 0 .. c - 1 THEN This.data[at(a) + 1] ELSE mem[a]]
    BY <1>1, <1>w DEF ReadSrec
  <1>a. ASSUME NEW a \in DOMAIN mem
        PROVE  /\ at(a) \in 0 .. c - 1 <=> a - b \in 0 .. c - 1
               /\ a - b \in 0 .. c - 1 => at(a) = a - b
    <2>0. a \in Nat /\ a < BuffSize
      BY <1>3
    <2>1. PICK x \in Int : x = a - b /\ x < Wrap /\ -Wrap < x /\ (x < 0 => x + Wrap >= c)
      <3> HIDE DEF This, b, c
      <3> QED
        BY <1>3, <1>w, <2>0
    <2> HIDE DEF This, b, c
    <2>2. CASE x >= 0
      BY <2>1, <2>2, <1>w, Below
    <2>3. CASE x < 0
      BY <2>1, <2>3, <1>w, <1>3, BelowZero
    <2> QED
      BY <2>1, <2>2, <2>3
  <1>5. mem' = [a \in DOMAIN mem |->
                 IF a - b \in 0 .. c - 1 THEN This.data[a - b + 1] ELSE mem[a]]
    <2> HIDE DEF b, c, at, This
    <2> QED
      BY <1>u, <1>a
  <1>6. \A k \in Nat : \A a : Says(file, line + 1, k, a) <=> k \in 1 .. c /\ a = b + k - 1
    BY <1>1, <1>2, <1>4 DEF Says
  <1> HIDE DEF This, b, c
  <1>7. \A n \in 1 .. line + 1 : n \in 1 .. line \/ n = line + 1
    BY <1>3
  <1>8. line + 1 \in 1 .. line + 1 /\ \A n \in 1 .. line : n \in 1 .. line + 1 /\ n <= line + 1 /\ ~(line + 1 <= n)
    BY <1>3
  <1>9. \A n \in 1 .. line + 1 : file[n].type \in SrecTypes
    <2>1. This.type \in SrecTypes
      BY <1>1 DEF SrecTypes
    <2> QED
      BY <1>2, <1>4, <1>7, <2>1 DEF Placed
  <1>10. ASSUME NEW a \in DOMAIN mem', a - b \in 0 .. c - 1
         PROVE  /\ mem'[a] = This.data[a - b + 1] /\ a - b + 1 \in Nat
                /\ Says(file, line + 1, a - b + 1, a)
    <2>1. a \in DOMAIN mem /\ a \in Nat
      BY <1>3, <1>5
    <2>2. a - b + 1 \in Nat /\ a - b + 1 \in 1 .. c /\ b + (a - b + 1) - 1 = a
      BY <1>3, <1>10, <2>1
    <2>3. Says(file, line + 1, a - b + 1, a)
      BY <1>6, <2>2
    <2> QED
      BY <1>5, <1>10, <2>1, <2>2, <2>3
  <1>11. ASSUME NEW a \in DOMAIN mem', ~(a - b \in 0 .. c - 1)
         PROVE  a \in DOMAIN mem /\ mem'[a] = mem[a] /\ \A k \in Nat : ~Says(file, line + 1, k, a)
    <2>1. a \in DOMAIN mem /\ a \in Nat /\ mem'[a] = mem[a]
      BY <1>3, <1>5, <1>11
    <2>2. ASSUME NEW k \in Nat, Says(file, line + 1, k, a)
          PROVE  FALSE
      <3>1. k \in 1 .. c /\ a = b + k - 1
        BY <1>6, <2>2
      <3>2. a - b \in 0 .. c - 1
        BY <1>3, <3>1
      <3> QED
        BY <1>11, <3>2
    <2> QED
      BY <2>1, <2>2
  <1>12. ASSUME NEW a \in DOMAIN mem', mem'[a] # Fill
         PROVE  \E n \in 1 .. line + 1, k \in Nat : Says(file, n, k, a)
    <2>1. CASE a - b \in 0 .. c - 1
      BY <1>8, <1>10, <2>1
    <2>2. CASE ~(a - b \in 0 .. c - 1)
      <3>1. a \in DOMAIN mem /\ mem[a] # Fill
        BY <1>11, <1>12, <2>2
      <3>2. PICK n \in 1 .. line, k \in Nat : Says(file, n, k, a)
        BY <1>2, <3>1 DEF Placed
      <3> QED
        BY <1>8, <3>2
    <2> QED
      BY <2>1, <2>2
  <1>13. ASSUME NEW n \in 1 .. line + 1, NEW k \in Nat, NEW a \in DOMAIN mem', Says(file, n, k, a),
                \A i \in 1 .. line + 1, j \in Nat : Says(file, i, j, a) => i <= n
         PROVE  mem'[a] = file[n].data[k]
    <2>1. CASE a - b \in 0 .. c - 1
      <3>1. line + 1 <= n
        BY <1>8, <1>10, <1>13, <2>1
      <3>2. n = line + 1
        BY <1>7, <1>8, <3>1
      <3>3. k \in 1 .. c /\ a = b + k - 1
        BY <1>6, <1>13, <3>2
      <3>4. a - b + 1 = k
        BY <1>3, <3>3
      <3> QED
        BY <1>4, <1>10, <2>1, <3>2, <3>4
    <2>2. CASE ~(a - b \in 0 .. c - 1)
      <3>1. a \in DOMAIN mem /\ mem'[a] = mem[a] /\ n # line + 1
        BY <1>11, <1>13, <2>2
      <3>2. n \in 1 .. line
        BY <1>7, <3>1
      <3>3. \A i \in 1 .. line, j \in Nat : Says(file, i, j, a) => i <= n
        BY <1>8, <1>13
      <3>4. mem[a] = file[n].data[k]
        BY <1>2, <1>13, <3>1, <3>2, <3>3 DEF Placed
      <3> QED
        BY <3>1, <3>4
    <2> QED
      BY <2>1, <2>2
  <1>14. Placed(file, line + 1, mem')
    BY <1>2, <1>9, <1>12, <1>13 DEF Placed
  <1> QED
    BY <1>1, <1>2, <1>r, <1>14 DEF PlacedInv

\* The other lines say nothing of the buffer.
LEMMA PlacedOther ==
    ASSUME HexTypeInv, PlacedInv, ReadBase \/ ReadEnd \/ ReadCount \/ Skip, doing' # "refused"
    PROVE  PlacedInv'
  <1>1. /\ doing = "read" /\ doing' \in {"read", "accepted"} /\ line < Len(file) /\ line' = line + 1
        /\ file' = file /\ mem' = mem
        /\ \/ Intel /\ This.type \in {"01", "02", "03", "04", "05"}
           \/ Srec /\ This.type \in {"S0", "S5", "S7", "S8", "S9"}
    <2>1. CASE ReadBase
      BY <2>1, Shapes DEF ReadBase, NextLine, This
    <2>2. CASE ReadEnd
      BY <2>2, Shapes DEF ReadEnd, NextLine, This
    <2>3. CASE ReadCount
      BY <2>3, Shapes DEF ReadCount, NextLine, This
    <2>4. CASE Skip
      BY <2>4, Shapes DEF Skip, NextLine, This
    <2> QED
      BY <2>1, <2>2, <2>3, <2>4
  <1>2. line \in Nat /\ file[line + 1] = This /\ file # <<>>
        /\ (Tame(file, line) => Placed(file, line, mem))
        /\ (Intel <=> IntelFile(file)) /\ (Srec <=> SrecFile(file)) /\ ~(IntelFile(file) /\ SrecFile(file))
        /\ (IntelFile(file) => Bases(file, line, sba, lba))
    BY <1>1, Shapes, Kinds, OneKind DEF PlacedInv, This, Intel, Srec
  <1>3. Tame(file, line + 1) => Placed(file, line + 1, mem)
    <2>1. /\ This.type \notin {"00", "S1", "S2", "S3"}
          /\ IntelFile(file) => This.type \in IntelTypes
          /\ SrecFile(file) => This.type \in SrecTypes
      BY <1>1, <1>2 DEF IntelTypes, SrecTypes
    <2> QED
      BY <1>2, <2>1, TamerBefore, PlacedNoData
  <1>4. ASSUME doing' = "read", IntelFile(file)
        PROVE  Bases(file, line + 1, sba', lba')
    <2>1. CASE ReadBase
      <3>1. This.type \in {"02", "04"}
            /\ IF This.type = "02" THEN sba' = This.address /\ lba' = 0 ELSE lba' = This.address /\ sba' = 0
        BY <2>1 DEF ReadBase, NextLine, This
      <3>2. IF file[line + 1].type = "02" THEN sba' = file[line + 1].address /\ lba' = 0
            ELSE sba' = 0 /\ lba' = file[line + 1].address
        BY <1>2, <3>1
      <3> QED
        BY <1>2, <3>1, <3>2, BasesNew
    <2>2. CASE ~ReadBase
      <3>1. sba' = sba /\ lba' = lba /\ This.type \notin {"02", "04"}
        <4>1. CASE ReadEnd
          BY <4>1 DEF ReadEnd, NextLine, This
        <4>2. CASE ReadCount
          BY <4>2 DEF ReadCount, NextLine, This
        <4>3. CASE Skip
          BY <4>3 DEF Skip, NextLine, This
        <4> QED
          BY <2>2, <4>1, <4>2, <4>3
      <3> QED
        BY <1>2, <1>4, <3>1, BasesKept
    <2> QED
      BY <2>1, <2>2
  <1> HIDE DEF This
  <1> QED
    BY <1>1, <1>2, <1>3, <1>4 DEF PlacedInv

LEMMA PlacedFileEnds ==
    ASSUME HexTypeInv, PlacedInv, EndOfFile
    PROVE  PlacedInv'
  <1>1. doing = "read" /\ doing' = "accepted" /\ file # <<>> /\ file' = file /\ line' = line /\ mem' = mem
    BY DEF EndOfFile
  <1> QED
    BY <1>1 DEF PlacedInv

LEMMA PlacedStep == HexTypeInv /\ PlacedInv /\ [HexNext]_hexVars => PlacedInv'
  <1> SUFFICES ASSUME HexTypeInv, PlacedInv, [HexNext]_hexVars
               PROVE  PlacedInv'
    OBVIOUS
  <1>1. CASE UNCHANGED hexVars
    BY <1>1 DEF hexVars, PlacedInv
  <1>2. CASE doing' = "refused"
    BY <1>2 DEF PlacedInv
  <1>3. CASE HexNext /\ doing' # "refused"
    <2>1. CASE WriteUpper \/ WriteRow \/ WriteEnd
      BY <2>1, PlacedWrite
    <2>2. CASE ReadData
      <3>1. doing' = "read"
        BY <1>3, <2>2 DEF ReadData, NextLine
      <3> QED
        BY <2>2, <3>1, PlacedData
    <2>3. CASE ReadSrec
      <3>1. CASE Tame(file, line + 1)
        BY <1>3, <2>3, <3>1, PlacedSrec
      <3>2. CASE ~Tame(file, line + 1)
        <4>1. file' = file /\ line' = line + 1 /\ SrecFile(file)
          BY <2>3, Kinds DEF ReadSrec, NextLine
        <4> QED
          BY <3>2, <4>1, OneKind DEF PlacedInv
      <3> QED
        BY <3>1, <3>2
    <2>4. CASE ReadBase \/ ReadEnd \/ ReadCount \/ Skip
      BY <1>3, <2>4, PlacedOther
    <2>5. CASE Refuse
      BY <1>3, <2>5 DEF Refuse
    <2>6. CASE EndOfFile
      BY <2>6, PlacedFileEnds
    <2> QED
      BY <1>3, <2>1, <2>2, <2>3, <2>4, <2>5, <2>6 DEF HexNext
  <1> QED
    BY <1>1, <1>2, <1>3

\* The bytes for an address are what the lines say of it.
LEMMA BytesAre ==
    ASSUME HexTypeInv, NEW a
    PROVE  /\ \A p \in BytesFor(a) : p[1] \in 1 .. line /\ p[2] \in Nat /\ Says(file, p[1], p[2], a)
           /\ \A n \in 1 .. line, k \in Nat : Says(file, n, k, a) => <<n, k>> \in BytesFor(a)
  <1> DEFINE data(n) == file[n].type \in {"00", "S1", "S2", "S3"}
  <1> DEFINE at(n, k) == IF Intel THEN PlaceOf(n, k - 1) ELSE file[n].address + k - 1
  <1>1. \A n, k : Says(file, n, k, a) <=> data(n) /\ k \in 1 .. Len(file[n].data) /\ a = at(n, k)
    BY Kinds DEF Says
  <1>2. BytesFor(a) = UNION {{<<n, k>> : k \in {j \in 1 .. Len(file[n].data) : a = at(n, j)}} :
                             n \in {m \in 1 .. line : data(m)}}
    BY DEF BytesFor
  <1>3. line \in Nat
    BY Shapes
  <1> HIDE DEF data, at
  <1>4. ASSUME NEW p \in BytesFor(a)
        PROVE  p[1] \in 1 .. line /\ p[2] \in Nat /\ Says(file, p[1], p[2], a)
    <2>1. PICK n \in {m \in 1 .. line : data(m)} :
              p \in {<<n, k>> : k \in {j \in 1 .. Len(file[n].data) : a = at(n, j)}}
      BY <1>2
    <2>2. PICK k \in {j \in 1 .. Len(file[n].data) : a = at(n, j)} : p = <<n, k>>
      BY <2>1
    <2>3. n \in 1 .. line /\ data(n) /\ k \in 1 .. Len(file[n].data) /\ a = at(n, k)
      BY <2>1, <2>2
    <2>4. k \in Nat
      <3>1. Len(file[n].data) \in Nat
        <4>1. n \in 1 .. Len(file) /\ Lines(file)
          BY <2>3, Shapes
        <4>2. file[n] \in LineSet
          BY <4>1, ElementOfSeq DEF Lines
        <4>3. file[n].data \in Seq(HexByte)
          BY <4>2 DEF LineSet
        <4> QED
          BY <4>3, LenProperties
      <3> QED
        BY <2>3, <3>1
    <2>5. p[1] = n /\ p[2] = k
      BY <2>2
    <2> QED
      BY <1>1, <2>3, <2>4, <2>5
  <1>5. ASSUME NEW n \in 1 .. line, NEW k \in Nat, Says(file, n, k, a)
        PROVE  <<n, k>> \in BytesFor(a)
    <2>1. n \in {m \in 1 .. line : data(m)} /\ k \in {j \in 1 .. Len(file[n].data) : a = at(n, j)}
      BY <1>1, <1>5
    <2> QED
      BY <1>2, <2>1
  <1> QED
    BY <1>4, <1>5

\* HexPlaced: what an accepted file says of an address is there, and nothing is
\* written outside the buffer, if no S-record goes to where addresses wrap.
THEOREM FilesArePlaced == HexSpec => []HexPlaced
  <1>1. HexTypeInv /\ PlacedInv => HexPlaced
    <2> SUFFICES ASSUME HexTypeInv, PlacedInv, Tame(file, line), doing = "accepted",
                        NEW a \in DOMAIN mem
                 PROVE  /\ BytesFor(a) = {} => mem[a] = Fill
                        /\ Intel => \A p \in BytesFor(a) : file[p[1]].data[p[2]] \in {mem[a], Fill}
                        /\ Srec => \A p \in BytesFor(a) :
                            (\A q \in BytesFor(a) : q[1] <= p[1]) => mem[a] = file[p[1]].data[p[2]]
      <3>1. (Srec => \A n \in 1 .. line : file[n].type \in {"S1", "S2", "S3"} => ~Wraps(file[n]))
              <=> Tame(file, line)
        BY Kinds DEF Tame
      <3> QED
        BY <3>1 DEF HexPlaced, PlacedInv
    <2>1. Placed(file, line, mem)
      BY DEF PlacedInv
    <2>2. ASSUME BytesFor(a) = {}
          PROVE  mem[a] = Fill
      BY <2>1, <2>2, BytesAre DEF Placed
    <2>3. ASSUME Intel, NEW p \in BytesFor(a)
          PROVE  file[p[1]].data[p[2]] \in {mem[a], Fill}
      BY <2>1, <2>3, BytesAre, Kinds DEF Placed
    <2>4. ASSUME Srec, NEW p \in BytesFor(a), \A q \in BytesFor(a) : q[1] <= p[1]
          PROVE  mem[a] = file[p[1]].data[p[2]]
      <3>1. p[1] \in 1 .. line /\ p[2] \in Nat /\ Says(file, p[1], p[2], a)
        BY BytesAre
      <3>2. ASSUME NEW i \in 1 .. line, NEW j \in Nat, Says(file, i, j, a)
            PROVE  i <= p[1]
        <4>1. <<i, j>> \in BytesFor(a) /\ <<i, j>>[1] = i
          BY <3>2, BytesAre
        <4> QED
          BY <2>4, <4>1
      <3> QED
        BY <2>1, <2>4, <3>1, <3>2, Kinds DEF Placed
    <2> QED
      BY <2>2, <2>3, <2>4
  <1> QED
    BY HexTypeInit, HexTypeStep, PlacedInit, PlacedStep, <1>1, PTL DEF HexSpec

\* A line r of the file for image i at address o: it is written when p bytes are,
\* behind upper half v, and leaves q bytes and upper half w.
LineFor(i, o, r, p, q, v, w) ==
    \/ r.type = "04" /\ r.address = w /\ q = p
    \/ /\ r.type = "00" /\ w = v /\ v = (o + p) \div Segment /\ r.address = (o + p) % Segment
       /\ p < q /\ q <= Len(i) /\ Len(r.data) = q - p
       /\ \A k \in 1 .. q - p : r.data[k] = i[p + k]
    \/ r.type \in {"01", "corrupt"} /\ q = p /\ w = v

\* The lines of f follow one another: d[n] bytes and upper half u[n] behind line n.
Follow(i, o, f, d, u) ==
    /\ d \in [Nat -> Nat] /\ u \in [Nat -> Nat] /\ d[0] = 0 /\ u[0] = 0
    /\ \A n \in 1 .. Len(f) : LineFor(i, o, f[n], d[n - 1], d[n], u[n - 1], u[n])

\* The buffer with the first n bytes of image i at address o.
Copy(i, o, n) == [a \in 0 .. BuffSize - 1 |-> IF a - o \in 0 .. n - 1 THEN i[a - o + 1] ELSE Fill]

\* How far the writer is.
Written(i, f, d, u) ==
    /\ d[Len(f)] = done /\ u[Len(f)] = lba
    /\ \A n \in 1 .. Len(f) : f[n].type \in {"00", "04"}

\* What the reader finds: the whole file, or a part that may end within a line.
Whole(i, f, d) ==
    /\ f # <<>> /\ d[Len(f)] = Len(i)
    /\ \A n \in 1 .. Len(f) : f[n].type \in {"00", "04", "01"} /\ (f[n].type = "01" => d[n] = Len(i))

Part(i, f, d) ==
    \A n \in 0 .. Len(f) : d[n] <= Len(i) /\ (n # 0 => f[n].type \in {"00", "04", "01", "corrupt"})

\* How far the reader is.
ReadSoFar(i, o, l, d, u, s, w, m) == s = 0 /\ w = u[l] /\ m = Copy(i, o, d[l])

ReadBackInv == origin # "given" =>
    \E d, u :
        /\ Follow(image, offset, file, d, u) /\ Part(image, file, d)
        /\ doing = "write" => origin = "written" /\ Written(image, file, d, u)
        /\ doing # "write" /\ origin = "written" => doing # "refused" /\ Whole(image, file, d)
        /\ doing = "read" => ReadSoFar(image, offset, line, d, u, sba, lba, mem)
        /\ doing = "accepted" => \E n \in 0 .. Len(image) :
                /\ origin = "written" => n = Len(image)
                /\ mem = Copy(image, offset, n)

-----------------------------------------------------------------------------

LEMMA CopyNone ==
    ASSUME NEW i, NEW o
    PROVE  Copy(i, o, 0) = [a \in 0 .. BuffSize - 1 |-> Fill]
  <1>1. \A x : x \notin 0 .. 0 - 1
    OBVIOUS
  <1> QED
    BY <1>1 DEF Copy

LEMMA BackInit == HexInit => ReadBackInv
  <1> SUFFICES ASSUME HexInit, origin # "given"
               PROVE  ReadBackInv
    BY DEF ReadBackInv
  <1>1. /\ doing = "write" /\ origin = "written" /\ file = <<>> /\ done = 0 /\ lba = 0 /\ image \in WrittenImages
    BY DEF HexInit
  <1>2. Len(image) \in Nat
    BY <1>1, WrittenBytes, LenProperties
  <1> DEFINE z == [n \in Nat |-> 0]
  <1>3. z \in [Nat -> Nat] /\ z[0] = 0 /\ Len(file) = 0 /\ 1 .. 0 = {} /\ \A n \in 0 .. 0 : n = 0
    BY <1>1
  <1> HIDE DEF z
  <1>4. Follow(image, offset, file, z, z) /\ Part(image, file, z) /\ Written(image, file, z, z)
    BY <1>1, <1>2, <1>3 DEF Follow, Part, Written
  <1> QED
    BY <1>1, <1>4 DEF ReadBackInv

\* One more line.
FollowsTo(i, o, g, n, d, u, q, w) == \E e, v :
    /\ Follow(i, o, g, e, v) /\ e[n + 1] = q /\ v[n + 1] = w
    /\ \A k \in 0 .. n : e[k] = d[k] /\ v[k] = u[k]

LEMMA FollowMore ==
    ASSUME NEW i, NEW o, NEW f, NEW d, NEW u, Follow(i, o, f, d, u), NEW n \in Nat, n <= Len(f), Len(f) \in Nat,
           NEW g, Len(g) = n + 1, \A k \in 1 .. n : g[k] = f[k],
           NEW q \in Nat, NEW w \in Nat, LineFor(i, o, g[n + 1], d[n], q, u[n], w)
    PROVE  FollowsTo(i, o, g, n, d, u, q, w)
  <1> DEFINE e == [d EXCEPT ![n + 1] = q]
  <1> DEFINE v == [u EXCEPT ![n + 1] = w]
  <1>1. d \in [Nat -> Nat] /\ u \in [Nat -> Nat] /\ d[0] = 0 /\ u[0] = 0
        /\ \A k \in 1 .. Len(f) : LineFor(i, o, f[k], d[k - 1], d[k], u[k - 1], u[k])
    BY DEF Follow
  <1>2. e \in [Nat -> Nat] /\ v \in [Nat -> Nat] /\ e[n + 1] = q /\ v[n + 1] = w
        /\ \A k \in 0 .. n : e[k] = d[k] /\ v[k] = u[k]
    <2>1. n + 1 \in Nat /\ \A k \in 0 .. n : k \in Nat /\ k # n + 1
      OBVIOUS
    <2> QED
      BY <1>1, <2>1
  <1> HIDE DEF e, v
  <1>3. e[0] = 0 /\ v[0] = 0
    <2>1. 0 \in 0 .. n
      OBVIOUS
    <2> QED
      BY <1>1, <1>2, <2>1
  <1>4. ASSUME NEW k \in 1 .. n + 1
        PROVE  LineFor(i, o, g[k], e[k - 1], e[k], v[k - 1], v[k])
    <2>1. CASE k = n + 1
      <3>1. k - 1 = n /\ n \in 0 .. n
        BY <2>1
      <3>2. e[k - 1] = d[n] /\ v[k - 1] = u[n] /\ e[k] = q /\ v[k] = w /\ g[k] = g[n + 1]
        BY <1>2, <2>1, <3>1
      <3> QED
        BY <3>2
    <2>2. CASE k # n + 1
      <3>1. k \in 1 .. n /\ k \in 1 .. Len(f) /\ k - 1 \in 0 .. n /\ k \in 0 .. n
        BY <2>2
      <3>2. e[k - 1] = d[k - 1] /\ v[k - 1] = u[k - 1] /\ e[k] = d[k] /\ v[k] = u[k] /\ g[k] = f[k]
        BY <1>2, <3>1
      <3> QED
        BY <1>1, <3>1, <3>2
    <2> QED
      BY <2>1, <2>2
  <1>5. Follow(i, o, g, e, v)
    BY <1>2, <1>3, <1>4 DEF Follow
  <1>6. Follow(i, o, g, e, v) /\ e[n + 1] = q /\ v[n + 1] = w /\ \A k \in 0 .. n : e[k] = d[k] /\ v[k] = u[k]
    BY <1>2, <1>5
  <1> QED
    BY ONLY <1>6 DEF FollowsTo

LEMMA BackUpper ==
    ASSUME HexTypeInv, ReadBackInv, WriteUpper, origin # "given"
    PROVE  ReadBackInv'
  <1>1. /\ doing = "write" /\ doing' = "write" /\ origin' = origin /\ image' = image /\ offset' = offset
        /\ done' = done /\ done < Len(image) /\ lba' = At \div Segment
        /\ file' = Append(file, Record("04", lba', <<>>))
    BY DEF WriteUpper, writing
  <1>2. PICK d, u : Follow(image, offset, file, d, u) /\ Part(image, file, d)
                    /\ origin = "written" /\ Written(image, file, d, u)
    BY <1>1 DEF ReadBackInv
  <1>3. lba' \in Nat /\ Lines(file) /\ Len(file) \in Nat /\ done \in Nat /\ Len(image) \in Nat
        /\ (lba' * Segment) + Segment <= Wrap
    BY <1>1, RowSizes, Shapes
  <1>4. PICK r \in LineSet : r = Record("04", lba', <<>>) /\ Fits(r)
    <2>1. <<>> \in Seq(HexByte) /\ Len(<<>>) <= Segment /\ "04" \in Types
      BY EmptySeq, Shapes DEF Types, IntelTypes
    <2> QED
      BY <1>3, <2>1, IsLine
  <1>5. OneMore(file, r, file')
    BY <1>1, <1>3, <1>4, OneMoreLine
  <1>6. LineFor(image, offset, file'[Len(file) + 1], d[Len(file)], done, u[Len(file)], lba')
    <2>1. file'[Len(file) + 1] = r /\ d[Len(file)] = done
      BY <1>2, <1>5 DEF OneMore, Written
    <2>2. r.type = "04" /\ r.address = lba'
      BY <1>4 DEF Record
    <2> QED
      BY <2>1, <2>2 DEF LineFor
  <1>7. PICK e, v :
              /\ Follow(image, offset, file', e, v) /\ e[Len(file) + 1] = done /\ v[Len(file) + 1] = lba'
              /\ \A k \in 0 .. Len(file) : e[k] = d[k] /\ v[k] = u[k]
    <2>1. Len(file') = Len(file) + 1 /\ \A k \in 1 .. Len(file) : file'[k] = file[k]
      BY <1>5 DEF OneMore
    <2>2. PICK n \in Nat : n = Len(file)
      BY <1>3
    <2>3. /\ n <= Len(file) /\ Len(file') = n + 1 /\ \A k \in 1 .. n : file'[k] = file[k]
          /\ LineFor(image, offset, file'[n + 1], d[n], done, u[n], lba')
      BY <1>6, <2>1, <2>2
    <2>4. FollowsTo(image, offset, file', n, d, u, done, lba')
      BY <1>2, <1>3, <2>3, FollowMore
    <2> QED
      BY <2>2, <2>4 DEF FollowsTo
  <1>8. /\ Len(file') = Len(file) + 1 /\ \A k \in 1 .. Len(file) : file'[k] = file[k]
        /\ file'[Len(file) + 1].type = "04"
    BY <1>4, <1>5 DEF OneMore, Record
  <1>9. /\ \A n \in 1 .. Len(file) + 1 : n \in 1 .. Len(file) \/ n = Len(file) + 1
        /\ \A n \in 0 .. Len(file) + 1 : n \in 0 .. Len(file) \/ n = Len(file) + 1
        /\ \A n \in 0 .. Len(file) : n # 0 => n \in 1 .. Len(file)
        /\ Len(file) + 1 # 0
    BY <1>3
  <1>10. Part(image, file', e)
    BY <1>1, <1>2, <1>3, <1>7, <1>8, <1>9 DEF Part
  <1>11. e[Len(file')] = done' /\ v[Len(file')] = lba' /\ \A n \in 1 .. Len(file') : file'[n].type \in {"00", "04"}
    BY <1>1, <1>2, <1>7, <1>8, <1>9 DEF Written
  <1> QED
    BY <1>1, <1>2, <1>7, <1>10, <1>11 DEF ReadBackInv, Written

LEMMA BackRow ==
    ASSUME HexTypeInv, ReadBackInv, WriteRow, origin # "given"
    PROVE  ReadBackInv'
  <1> DEFINE bytes == SubSeq(image, done + 1, done + RowSize)
  <1>1. /\ doing = "write" /\ doing' = "write" /\ origin' = origin /\ image' = image /\ offset' = offset
        /\ done' = done + RowSize /\ done < Len(image) /\ lba' = lba /\ lba = At \div Segment
        /\ file' = Append(file, Record("00", At % Segment, bytes))
    BY DEF WriteRow, RowSize
  <1>2. PICK d, u : Follow(image, offset, file, d, u) /\ Part(image, file, d)
                    /\ origin = "written" /\ Written(image, file, d, u)
    BY <1>1 DEF ReadBackInv
  <1>3. lba \in Nat /\ Lines(file) /\ Len(file) \in Nat /\ done \in Nat /\ Len(image) \in Nat
    BY Shapes
  <1>4. /\ RowSize \in 1 .. Row /\ RowSize <= Len(image) - done
        /\ bytes \in Seq(HexByte) /\ Len(bytes) = RowSize /\ At % Segment \in Nat
        /\ At % Segment < Segment
        /\ \A k \in 1 .. RowSize : bytes[k] = image[done + k]
    BY <1>1, RowSizes
  <1> HIDE DEF bytes
  <1>5. PICK s \in Nat : s = RowSize /\ s >= 1 /\ s <= Segment
    BY <1>4, HexAssumption
  <1>6. PICK r \in LineSet : r = Record("00", At % Segment, bytes) /\ Fits(r)
    <2>1. "00" \in Types /\ Len(bytes) <= Segment
      BY <1>4, <1>5 DEF Types, IntelTypes
    <2> QED
      BY <1>4, <2>1, IsLine
  <1>7. OneMore(file, r, file')
    BY <1>1, <1>3, <1>6, OneMoreLine
  <1>8. LineFor(image, offset, file'[Len(file) + 1], d[Len(file)], done', u[Len(file)], lba)
    <2>1. file'[Len(file) + 1] = r /\ d[Len(file)] = done /\ u[Len(file)] = lba
      BY <1>2, <1>7 DEF OneMore, Written
    <2>2. r.type = "00" /\ r.address = At % Segment /\ r.data = bytes
      BY <1>6 DEF Record
    <2>3. done' - done = s /\ done < done' /\ done' <= Len(image)
      BY <1>1, <1>3, <1>4, <1>5
    <2>4. lba = (offset + done) \div Segment /\ At % Segment = (offset + done) % Segment
      BY <1>1 DEF At
    <2> QED
      BY <1>4, <1>5, <2>1, <2>2, <2>3, <2>4 DEF LineFor
  <1>9. done' \in Nat /\ done' <= Len(image)
    BY <1>1, <1>3, <1>4, <1>5
  <1>10. PICK e, v :
              /\ Follow(image, offset, file', e, v) /\ e[Len(file) + 1] = done' /\ v[Len(file) + 1] = lba
              /\ \A k \in 0 .. Len(file) : e[k] = d[k] /\ v[k] = u[k]
    <2>1. Len(file') = Len(file) + 1 /\ \A k \in 1 .. Len(file) : file'[k] = file[k]
      BY <1>7 DEF OneMore
    <2>2. PICK n \in Nat : n = Len(file)
      BY <1>3
    <2>3. /\ n <= Len(file) /\ Len(file') = n + 1 /\ \A k \in 1 .. n : file'[k] = file[k]
          /\ LineFor(image, offset, file'[n + 1], d[n], done', u[n], lba)
      BY <1>8, <2>1, <2>2
    <2>4. FollowsTo(image, offset, file', n, d, u, done', lba)
      BY <1>2, <1>3, <1>9, <2>3, FollowMore
    <2> QED
      BY <2>2, <2>4 DEF FollowsTo
  <1>11. /\ Len(file') = Len(file) + 1 /\ \A k \in 1 .. Len(file) : file'[k] = file[k]
         /\ file'[Len(file) + 1].type = "00"
    BY <1>6, <1>7 DEF OneMore, Record
  <1>12. /\ \A n \in 1 .. Len(file) + 1 : n \in 1 .. Len(file) \/ n = Len(file) + 1
         /\ \A n \in 0 .. Len(file) + 1 : n \in 0 .. Len(file) \/ n = Len(file) + 1
         /\ \A n \in 0 .. Len(file) : n # 0 => n \in 1 .. Len(file)
         /\ Len(file) + 1 # 0
    BY <1>3
  <1>13. Part(image, file', e)
    BY <1>2, <1>9, <1>10, <1>11, <1>12 DEF Part
  <1>14. e[Len(file')] = done' /\ v[Len(file')] = lba' /\ \A n \in 1 .. Len(file') : file'[n].type \in {"00", "04"}
    BY <1>1, <1>2, <1>10, <1>11, <1>12 DEF Written
  <1> QED
    BY <1>1, <1>2, <1>10, <1>13, <1>14 DEF ReadBackInv, Written

LEMMA FollowFewer ==
    ASSUME NEW i, NEW o, NEW f, NEW d, NEW u, Follow(i, o, f, d, u), NEW n \in Nat, n <= Len(f), Len(f) \in Nat,
           NEW g, Len(g) = n, \A k \in 1 .. n : g[k] = f[k]
    PROVE  Follow(i, o, g, d, u)
  <1>1. \A k \in 1 .. n : k \in 1 .. Len(f)
    OBVIOUS
  <1> QED
    BY <1>1 DEF Follow

LEMMA BackEnd ==
    ASSUME HexTypeInv, ReadBackInv, WriteEnd, origin # "given"
    PROVE  ReadBackInv'
  <1> DEFINE l == Len(file)
  <1>1. /\ doing = "write" /\ doing' = "read" /\ image' = image /\ offset' = offset
        /\ done' = done /\ done = Len(image) /\ lba' = 0 /\ line' = line /\ sba' = sba /\ mem' = mem
    BY DEF WriteEnd, writing
  <1>2. PICK d, u : Follow(image, offset, file, d, u) /\ Part(image, file, d)
                    /\ origin = "written" /\ Written(image, file, d, u)
    BY <1>1 DEF ReadBackInv
  <1>3. lba \in Nat /\ Lines(file) /\ l \in Nat /\ done \in Nat /\ Len(image) \in Nat
    BY Shapes
  <1>4. line = 0 /\ sba = 0 /\ mem = Copy(image, offset, 0)
    BY <1>1, CopyNone DEF HexTypeInv, HexShape
  <1>5. \A n \in 1 .. l + 1 : n \in 1 .. l \/ n = l + 1
    BY <1>3
  <1>6. \A n \in 0 .. l + 1 : n \in 0 .. l \/ n = l + 1
    BY <1>3
  <1>7. ASSUME NEW e, NEW v, Follow(image, offset, file', e, v), Part(image, file', e),
               origin' = "written" => Whole(image, file', e), origin' \in {"written", "cut"}
        PROVE  ReadBackInv'
    <2>1. e[0] = 0 /\ v[0] = 0
      BY <1>7 DEF Follow
    <2>2. ReadSoFar(image, offset, line', e, v, sba', lba', mem')
      BY <1>1, <1>4, <2>1 DEF ReadSoFar
    <2> QED
      BY <1>1, <1>7, <2>2 DEF ReadBackInv
  <1>8. d[l] = done /\ u[l] = lba /\ \A n \in 1 .. l : file[n].type \in {"00", "04"}
    BY <1>2 DEF Written
  <1>9. \A n \in 0 .. l : d[n] <= Len(image)
    BY <1>2 DEF Part
  <1>10. d \in [Nat -> Nat] /\ u \in [Nat -> Nat]
    BY <1>2 DEF Follow
  <1> HIDE DEF l
  <1>11. CASE file' = Append(file, Record("01", 0, <<>>)) /\ origin' = "written"
    <2>1. /\ Len(file') = l + 1 /\ \A n \in 1 .. l : file'[n] = file[n]
          /\ file'[l + 1] = Record("01", 0, <<>>)
      BY <1>11, LastLines DEF l
    <2>2. file'[l + 1].type = "01"
      BY <2>1 DEF Record
    <2>3. LineFor(image, offset, file'[l + 1], d[l], done, u[l], lba)
      BY <1>8, <2>2 DEF LineFor
    <2>4. FollowsTo(image, offset, file', l, d, u, done, lba)
      <3>1. l \in Nat /\ Len(file) \in Nat /\ l <= Len(file)
        BY <1>3 DEF l
      <3> QED
        BY <1>2, <1>3, <2>1, <2>3, <3>1, FollowMore
    <2>5. PICK e, v :
              /\ Follow(image, offset, file', e, v) /\ e[l + 1] = done /\ v[l + 1] = lba
              /\ \A k \in 0 .. l : e[k] = d[k] /\ v[k] = u[k]
      BY <2>4 DEF FollowsTo
    <2>6. \A n \in 1 .. l + 1 : file'[n].type \in {"00", "04", "01"} /\ (file'[n].type = "01" => e[n] = Len(image))
      BY <1>1, <1>5, <1>8, <2>1, <2>2, <2>5
    <2>7. \A n \in 0 .. l + 1 : e[n] <= Len(image)
      BY <1>1, <1>3, <1>6, <1>9, <2>5
    <2>8. \A n \in 0 .. l + 1 : n # 0 => n \in 1 .. l + 1
      BY <1>3
    <2>9. Part(image, file', e)
      BY <2>1, <2>6, <2>7, <2>8 DEF Part
    <2>10. Whole(image, file', e)
      <3>1. file' # <<>>
        BY <1>3, <2>1, EmptySeq
      <3> QED
        BY <1>1, <2>1, <2>5, <2>6, <3>1 DEF Whole
    <2> QED
      BY <1>7, <1>11, <2>5, <2>9, <2>10
  <1>12. CASE /\ origin' = "cut"
              /\ \E n \in 0 .. Len(file) :
                       /\ n <= Len(file') /\ Len(file') <= n + 1
                       /\ \A i \in 1 .. n : file'[i] = file[i]
                       /\ Len(file') = n + 1 => file'[n + 1] = Record("corrupt", 0, <<>>)
    <2>1. PICK n \in 0 .. l :
                       /\ n <= Len(file') /\ Len(file') <= n + 1
                       /\ \A i \in 1 .. n : file'[i] = file[i]
                       /\ Len(file') = n + 1 => file'[n + 1] = Record("corrupt", 0, <<>>)
      BY <1>12 DEF l
    <2>2. n \in Nat /\ n <= Len(file) /\ Len(file) \in Nat /\ Len(file') \in Nat
          /\ (Len(file') = n \/ Len(file') = n + 1)
      <3>1. Len(file') \in Nat
        BY LastLines
      <3> QED
        BY <1>3, <2>1, <3>1 DEF l
    <2>3. /\ \A k \in 1 .. n : file'[k].type \in {"00", "04"} /\ k \in 0 .. l
          /\ \A k \in 0 .. n : d[k] <= Len(image) /\ (k # 0 => k \in 1 .. n)
      <3>1. \A k \in 1 .. n : k \in 1 .. l /\ k \in 0 .. l
        BY <1>3, <2>1
      <3>2. \A k \in 0 .. n : k \in 0 .. l /\ (k # 0 => k \in 1 .. n)
        BY <1>3, <2>1
      <3> QED
        BY <1>8, <1>9, <2>1, <3>1, <3>2
    <2>4. CASE Len(file') = n
      <3>1. Follow(image, offset, file', d, u)
        BY <1>2, <2>1, <2>2, <2>4, FollowFewer
      <3>2. Part(image, file', d)
        BY <2>3, <2>4 DEF Part
      <3> QED
        BY <1>7, <1>12, <3>1, <3>2
    <2>5. CASE Len(file') = n + 1
      <3>1. file'[n + 1].type = "corrupt"
        BY <2>1, <2>5 DEF Record
      <3>2. LineFor(image, offset, file'[n + 1], d[n], d[n], u[n], u[n])
        BY <3>1 DEF LineFor
      <3>3. d[n] \in Nat /\ u[n] \in Nat /\ d[n] <= Len(image)
        BY <1>9, <1>10, <2>1, <2>2
      <3>4. FollowsTo(image, offset, file', n, d, u, d[n], u[n])
        BY <1>2, <2>1, <2>2, <2>5, <3>2, <3>3, FollowMore
      <3>5. PICK e, v :
                /\ Follow(image, offset, file', e, v) /\ e[n + 1] = d[n] /\ v[n + 1] = u[n]
                /\ \A k \in 0 .. n : e[k] = d[k] /\ v[k] = u[k]
        BY <3>4 DEF FollowsTo
      <3>6. \A k \in 0 .. n + 1 : k \in 0 .. n \/ k = n + 1
        BY <2>2
      <3>7. Part(image, file', e)
        BY <2>1, <2>3, <2>5, <3>1, <3>3, <3>5, <3>6 DEF Part
      <3> QED
        BY <1>7, <1>12, <3>5, <3>7
    <2> QED
      BY <2>2, <2>4, <2>5
  <1> QED
    BY <1>11, <1>12, LastLines

-----------------------------------------------------------------------------

\* What the reader finds in line l + 1 of what was written.
LEMMA NextWritten ==
    ASSUME HexTypeInv, origin # "given", doing = "read", line < Len(file),
           NEW d, NEW u, Follow(image, offset, file, d, u), Part(image, file, d)
    PROVE  /\ LineFor(image, offset, This, d[line], d[line + 1], u[line], u[line + 1])
           /\ This.type \in {"00", "04", "01", "corrupt"}
           /\ d[line] \in Nat /\ d[line + 1] \in Nat /\ d[line] <= Len(image) /\ d[line + 1] <= Len(image)
           /\ u[line] \in Nat /\ ~Srec
  <1>1. line \in Nat /\ line + 1 \in 1 .. Len(file) /\ (line + 1) - 1 = line /\ line + 1 \in 0 .. Len(file)
        /\ line \in 0 .. Len(file) /\ line + 1 # 0 /\ line + 1 \in Nat
    <2>1. PICK m \in Nat : m = Len(file) /\ line \in 0 .. m /\ line < m
      BY Shapes
    <2> QED
      BY <2>1
  <1>2. LineFor(image, offset, This, d[line], d[line + 1], u[line], u[line + 1])
    BY <1>1 DEF Follow, This
  <1>3. This.type \in {"00", "04", "01", "corrupt"} /\ d[line + 1] <= Len(image) /\ d[line] <= Len(image)
    BY <1>1 DEF Part, This
  <1>4. d[line] \in Nat /\ d[line + 1] \in Nat /\ u[line] \in Nat
    BY <1>1 DEF Follow
  <1>5. ~Srec
    <2>1. Len(file) \in Nat /\ 1 \in 0 .. Len(file)
      BY <1>1, Shapes
    <2>2. file[1].type \in {"00", "04", "01", "corrupt"}
      BY <2>1 DEF Part
    <2>3. Head(file) = file[1]
      OBVIOUS
    <2> QED
      BY <2>2, <2>3 DEF Srec, SrecTypes
  <1> QED
    BY <1>2, <1>3, <1>4, <1>5

\* A line with data is where the image goes on.
LEMMA DataFits ==
    ASSUME HexTypeInv, origin # "given", doing = "read", line < Len(file), This.type = "00",
           NEW d, NEW u, Follow(image, offset, file, d, u), Part(image, file, d),
           ReadSoFar(image, offset, line, d, u, sba, lba, mem)
    PROVE  /\ \A k \in 0 .. Len(This.data) - 1 :
                /\ Address(k) = offset + d[line] + k /\ ~Overlaps(k)
                /\ This.data[k + 1] = image[d[line] + k + 1]
           /\ Len(This.data) = d[line + 1] - d[line] /\ d[line] < d[line + 1]
           /\ u[line + 1] = u[line]
  <1> DEFINE p == d[line]
  <1> DEFINE q == d[line + 1]
  <1>1. LineFor(image, offset, This, d[line], d[line + 1], u[line], u[line + 1])
        /\ p \in Nat /\ q \in Nat /\ p <= Len(image) /\ q <= Len(image) /\ u[line] \in Nat
    BY NextWritten
  <1>2. /\ u[line + 1] = u[line] /\ u[line] = (offset + p) \div Segment /\ This.address = (offset + p) % Segment
        /\ p < q /\ Len(This.data) = q - p
        /\ \A k \in 1 .. q - p : This.data[k] = image[p + k]
    BY <1>1 DEF LineFor
  <1>3. sba = 0 /\ lba = u[line] /\ mem = Copy(image, offset, p)
    BY DEF ReadSoFar
  <1>4. offset \in Nat /\ Segment \in Nat /\ Segment > 0 /\ Len(image) \in Nat
        /\ offset + Len(image) <= BuffSize /\ BuffSize \in Nat
    BY Shapes
  <1> HIDE DEF p, q
  <1>5. PICK x \in Nat : x = offset + p
    BY <1>1, <1>4
  <1>6. x = (x \div Segment) * Segment + (x % Segment) /\ x % Segment \in Nat /\ x \div Segment \in Nat
    BY <1>4, Divided
  <1>7. ASSUME NEW k \in 0 .. Len(This.data) - 1
        PROVE  /\ Address(k) = offset + p + k /\ ~Overlaps(k)
               /\ This.data[k + 1] = image[p + k + 1]
    <2>1. k \in Nat /\ k + 1 \in 1 .. q - p /\ p + (k + 1) = p + k + 1 /\ p + k < Len(image)
      BY <1>1, <1>2, <1>4
    <2>2. Address(k) = (lba * Segment + This.address + k) % Wrap
      BY <1>3 DEF Address
    <2>3. PICK g \in Nat : g = (x \div Segment) * Segment
      BY <1>4, <1>6
    <2>4. PICK h \in Nat : h = x % Segment
      BY <1>6
    <2>5. lba * Segment = g /\ This.address = h /\ g + h = x
      BY <1>2, <1>3, <1>5, <1>6, <2>3, <2>4
    <2>6. Address(k) = (x + k) % Wrap
      BY <2>2, <2>5
    <2>7. Address(k) = x + k
      <3>1. Wrap \in Nat /\ BuffSize + Segment <= Wrap
        BY Shapes
      <3>2. x + k < BuffSize
        BY ONLY <1>1, <1>4, <1>5, <2>1, k \in Nat
      <3>3. x + k \in Nat /\ x + k < Wrap
        BY ONLY <1>4, <2>1, <3>1, <3>2, x \in Nat
      <3> HIDE DEF Address, This
      <3> QED
        BY ONLY <2>6, <3>1, <3>3, Below
    <2>8. Address(k) = offset + p + k
      BY <1>5, <2>7
    <2>9. PICK a \in Nat : a = offset + p + k /\ a < BuffSize /\ a - offset = p + k
      BY <1>1, <1>4, <2>1
    <2>10. a \in 0 .. BuffSize - 1 /\ ~(a - offset \in 0 .. p - 1)
      BY <1>1, <1>4, <2>1, <2>9
    <2>11. mem[a] = Fill
      BY <1>3, <2>10 DEF Copy
    <2>12. ~Overlaps(k)
      <3>1. ~(a >= BuffSize)
        BY <1>4, <2>9
      <3> QED
        BY <2>8, <2>9, <2>11, <3>1 DEF Overlaps
    <2>13. This.data[k + 1] = image[p + k + 1]
      BY <1>2, <2>1
    <2> QED
      BY <2>8, <2>12, <2>13
  <1> QED
    BY <1>2, <1>7 DEF p, q

LEMMA BackData ==
    ASSUME HexTypeInv, ReadBackInv, ReadData, origin # "given"
    PROVE  ReadBackInv'
  <1>1. /\ doing = "read" /\ line < Len(file) /\ This.type = "00" /\ line' = line + 1
        /\ file' = file /\ sba' = sba /\ lba' = lba /\ origin' = origin /\ image' = image /\ offset' = offset
    BY Shapes DEF ReadData, NextLine, This, writing
  <1>2. PICK d, u :
            /\ Follow(image, offset, file, d, u) /\ Part(image, file, d)
            /\ origin = "written" => Whole(image, file, d)
            /\ ReadSoFar(image, offset, line, d, u, sba, lba, mem)
    BY <1>1 DEF ReadBackInv
  <1> DEFINE p == d[line]
  <1> DEFINE q == d[line + 1]
  <1> DEFINE c == Len(This.data)
  <1>3. /\ \A k \in 0 .. c - 1 :
                /\ Address(k) = offset + p + k /\ ~Overlaps(k)
                /\ This.data[k + 1] = image[p + k + 1]
        /\ c = q - p /\ p < q /\ u[line + 1] = u[line]
    BY <1>1, <1>2, DataFits
  <1>4. p \in Nat /\ q \in Nat
    BY <1>1, <1>2, NextWritten
  <1>5. doing' = "read"
    <2>1. {k \in 0 .. c - 1 : \A j \in 0 .. k : ~Overlaps(j)} = 0 .. c - 1
      <3>1. \A k \in 0 .. c - 1 : \A j \in 0 .. k : j \in 0 .. c - 1
        BY <1>3, <1>4
      <3> QED
        BY <1>3, <3>1
    <2> QED
      BY <2>1 DEF ReadData
  <1>6. /\ \A k \in 0 .. c - 1 : Address(k) \in DOMAIN mem /\ mem'[Address(k)] = This.data[k + 1]
        /\ DOMAIN mem' = DOMAIN mem
        /\ \A a \in DOMAIN mem : (\A k \in 0 .. c - 1 : a # Address(k)) => mem'[a] = mem[a]
    BY <1>5, Stored
  <1>7. mem \in [0 .. BuffSize - 1 -> HexByte] /\ BuffSize \in Nat /\ offset \in Nat
    BY Shapes
  <1>8. sba = 0 /\ lba = u[line] /\ mem = Copy(image, offset, p)
    BY <1>2 DEF ReadSoFar
  <1> HIDE DEF p, q, c
  <1>9. ASSUME NEW a \in 0 .. BuffSize - 1
        PROVE  mem'[a] = Copy(image, offset, q)[a]
    <2>1. Copy(image, offset, q)[a] = IF a - offset \in 0 .. q - 1 THEN image[a - offset + 1] ELSE Fill
      BY DEF Copy
    <2>2. mem[a] = IF a - offset \in 0 .. p - 1 THEN image[a - offset + 1] ELSE Fill
      BY <1>8 DEF Copy
    <2>3. CASE a - offset \in p .. q - 1
      <3>1. PICK k \in 0 .. c - 1 : k = a - offset - p /\ a = offset + p + k /\ p + k = a - offset
        BY <1>3, <1>4, <1>7, <2>3
      <3>2. mem'[a] = image[p + k + 1]
        BY <1>3, <1>6, <3>1
      <3>3. a - offset \in 0 .. q - 1
        BY <1>4, <1>7, <2>3
      <3> QED
        BY <2>1, <3>1, <3>2, <3>3
    <2>4. CASE ~(a - offset \in p .. q - 1)
      <3>1. ASSUME NEW k \in 0 .. c - 1, a = Address(k)
            PROVE  FALSE
        <4>1. a = offset + p + k
          BY <1>3, <3>1
        <4>2. a - offset \in p .. q - 1
          BY <1>3, <1>4, <1>7, <4>1
        <4> QED
          BY <2>4, <4>1, <4>2
      <3>2. mem'[a] = mem[a]
        BY <1>6, <1>7, <3>1
      <3>3. a - offset \in 0 .. p - 1 <=> a - offset \in 0 .. q - 1
        BY <1>3, <1>4, <1>7, <2>4
      <3> QED
        BY <2>1, <2>2, <3>2, <3>3
    <2> QED
      BY <2>3, <2>4
  <1>10. mem' = Copy(image, offset, q)
    <2>1. DOMAIN mem' = 0 .. BuffSize - 1 /\ DOMAIN Copy(image, offset, q) = 0 .. BuffSize - 1
      BY <1>6, <1>7 DEF Copy
    <2>2. mem' = [a \in DOMAIN mem' |-> mem'[a]]
      BY DEF ReadData
    <2>3. Copy(image, offset, q) = [a \in 0 .. BuffSize - 1 |-> Copy(image, offset, q)[a]]
      BY DEF Copy
    <2> QED
      BY <1>9, <2>1, <2>2, <2>3
  <1>11. ReadSoFar(image, offset, line', d, u, sba', lba', mem')
    BY <1>1, <1>3, <1>8, <1>10 DEF ReadSoFar, q
  <1> QED
    BY <1>1, <1>2, <1>5, <1>11 DEF ReadBackInv

LEMMA BackBase ==
    ASSUME HexTypeInv, ReadBackInv, ReadBase, origin # "given"
    PROVE  ReadBackInv'
  <1>1. /\ doing = "read" /\ doing' = "read" /\ line < Len(file) /\ This.type \in {"02", "04"} /\ line' = line + 1
        /\ file' = file /\ mem' = mem /\ origin' = origin /\ image' = image /\ offset' = offset
        /\ This.type = "04" => lba' = This.address /\ sba' = 0
    BY Shapes DEF ReadBase, NextLine, This, writing
  <1>2. PICK d, u :
            /\ Follow(image, offset, file, d, u) /\ Part(image, file, d)
            /\ origin = "written" => Whole(image, file, d)
            /\ ReadSoFar(image, offset, line, d, u, sba, lba, mem)
    BY <1>1 DEF ReadBackInv
  <1>3. LineFor(image, offset, This, d[line], d[line + 1], u[line], u[line + 1]) /\ This.type = "04"
    BY <1>1, <1>2, NextWritten
  <1>4. This.address = u[line + 1] /\ d[line + 1] = d[line]
    BY <1>3 DEF LineFor
  <1>5. ReadSoFar(image, offset, line', d, u, sba', lba', mem')
    BY <1>1, <1>2, <1>3, <1>4 DEF ReadSoFar
  <1> QED
    BY <1>1, <1>2, <1>5 DEF ReadBackInv

LEMMA BackAccepted ==
    ASSUME HexTypeInv, ReadBackInv, ReadEnd \/ EndOfFile, origin # "given"
    PROVE  ReadBackInv'
  <1>1. /\ doing = "read" /\ doing' = "accepted" /\ file' = file /\ mem' = mem
        /\ origin' = origin /\ image' = image /\ offset' = offset
    BY DEF ReadEnd, NextLine, EndOfFile, writing
  <1>2. PICK d, u :
            /\ Follow(image, offset, file, d, u) /\ Part(image, file, d)
            /\ origin = "written" => Whole(image, file, d)
            /\ ReadSoFar(image, offset, line, d, u, sba, lba, mem)
    BY <1>1 DEF ReadBackInv
  <1>3. d[line] \in Nat /\ d[line] <= Len(image) /\ Len(image) \in Nat
    <2>1. line \in Nat /\ line \in 0 .. Len(file) /\ Len(image) \in Nat
      <3>1. PICK m \in Nat : m = Len(file) /\ line \in 0 .. m
        BY Shapes
      <3> QED
        BY <3>1, Shapes
    <2> QED
      BY <1>2, <2>1 DEF Follow, Part
  <1>4. origin = "written" => d[line] = Len(image)
    <2>1. CASE ReadEnd
      <3>1. line < Len(file) /\ This.type = "01"
        BY <2>1, Shapes DEF ReadEnd, NextLine, This
      <3>2. LineFor(image, offset, This, d[line], d[line + 1], u[line], u[line + 1])
        BY <1>1, <1>2, <3>1, NextWritten
      <3>3. d[line + 1] = d[line]
        BY <3>1, <3>2 DEF LineFor
      <3>4. line + 1 \in 1 .. Len(file)
        BY <3>1, NextRecord
      <3>5. origin = "written" => d[line + 1] = Len(image)
        BY <1>2, <3>1, <3>4 DEF Whole, This
      <3> QED
        BY <3>3, <3>5
    <2>2. CASE EndOfFile
      <3>1. line = Len(file)
        BY <2>2 DEF EndOfFile
      <3> QED
        BY <1>2, <3>1 DEF Whole
    <2> QED
      BY <2>1, <2>2
  <1>5. mem = Copy(image, offset, d[line]) /\ d[line] \in 0 .. Len(image)
    BY <1>2, <1>3 DEF ReadSoFar
  <1> QED
    BY <1>1, <1>2, <1>4, <1>5 DEF ReadBackInv

\* What else is in a file is in none that was written.
LEMMA BackOther ==
    ASSUME HexTypeInv, ReadBackInv, ReadSrec \/ ReadCount \/ Skip \/ Refuse, origin # "given"
    PROVE  ReadBackInv'
  <1>1. /\ doing = "read" /\ file' = file /\ origin' = origin /\ image' = image /\ offset' = offset
    BY DEF ReadSrec, ReadCount, Skip, Refuse, NextLine, writing
  <1>2. PICK d, u :
            /\ Follow(image, offset, file, d, u) /\ Part(image, file, d)
            /\ origin = "written" => Whole(image, file, d)
            /\ ReadSoFar(image, offset, line, d, u, sba, lba, mem)
    BY <1>1 DEF ReadBackInv
  <1>3. line < Len(file) => ~Srec /\ This.type \in {"00", "04", "01", "corrupt"}
    BY <1>1, <1>2, NextWritten
  <1>4. Refuse
    <2>1. ~ReadSrec /\ ~ReadCount
      BY <1>3 DEF ReadSrec, ReadCount, NextLine
    <2>2. ~Skip
      BY <1>3 DEF Skip, NextLine, This
    <2> QED
      BY <2>1, <2>2
  <1>5. origin # "written"
    <2> SUFFICES ASSUME origin = "written"
                 PROVE  FALSE
      OBVIOUS
    <2>1. file # <<>> /\ \A n \in 1 .. Len(file) : file[n].type \in {"00", "04", "01"}
      BY <1>2 DEF Whole
    <2>2. Intel
      <3>1. Head(file) = file[1] /\ 1 \in 1 .. Len(file)
        <4>1. file \in Seq(LineSet)
          BY Shapes DEF Lines
        <4>2. Len(file) \in Nat /\ Len(file) # 0
          BY <2>1, <4>1, EmptySeq, LenProperties
        <4> QED
          BY <4>2
      <3> QED
        BY <2>1, <3>1 DEF Intel, IntelTypes
    <2>3. line < Len(file) => This.type \in {"00", "04", "01"}
      <3>1. line < Len(file) => line + 1 \in 1 .. Len(file)
        BY NextRecord
      <3> QED
        BY <2>1, <3>1 DEF This
    <2>4. ~Srec
      BY <2>2, Kinds, OneKind
    <2> QED
      BY <1>4, <2>2, <2>3, <2>4 DEF Refuse, NextLine, This, SrecTypes
  <1>6. doing' = "refused"
    BY <1>4 DEF Refuse
  <1> QED
    BY <1>1, <1>2, <1>5, <1>6 DEF ReadBackInv

LEMMA BackStep == HexTypeInv /\ ReadBackInv /\ [HexNext]_hexVars => ReadBackInv'
  <1> SUFFICES ASSUME HexTypeInv, ReadBackInv, [HexNext]_hexVars
               PROVE  ReadBackInv'
    OBVIOUS
  <1>1. CASE UNCHANGED hexVars
    BY <1>1 DEF hexVars, ReadBackInv, Written
  <1>2. CASE HexNext /\ origin # "given"
    BY <1>2, BackUpper, BackRow, BackEnd, BackData, BackBase, BackAccepted, BackOther DEF HexNext
  <1>3. CASE HexNext /\ origin = "given"
    <2>1. doing # "write"
      BY <1>3 DEF HexTypeInv, HexShape
    <2>2. ~WriteUpper /\ ~WriteRow /\ ~WriteEnd
      BY <2>1 DEF WriteUpper, WriteRow, WriteEnd
    <2>3. origin' = "given"
      BY <1>3, <2>2, Reading DEF HexNext
    <2> QED
      BY <2>3 DEF ReadBackInv
  <1> QED
    BY <1>1, <1>2, <1>3

\* HexReadBack: what was written is read as it was, or as the beginning of it.
THEOREM ReadsBack == HexSpec => []HexReadBack
  <1>1. HexTypeInv /\ ReadBackInv => HexReadBack
    <2> SUFFICES ASSUME HexTypeInv, ReadBackInv
                 PROVE  HexReadBack
      OBVIOUS
    <2>1. origin = "written" => doing # "refused"
      BY DEF ReadBackInv
    <2>2. ASSUME doing = "accepted", origin # "given"
          PROVE  \E n \in 0 .. Len(image) :
                    /\ origin = "written" => n = Len(image)
                    /\ mem = [a \in DOMAIN mem |->
                            IF a - offset \in 0 .. n - 1 THEN image[a - offset + 1] ELSE Fill]
      <3>1. PICK n \in 0 .. Len(image) :
                /\ origin = "written" => n = Len(image)
                /\ mem = Copy(image, offset, n)
        BY <2>2 DEF ReadBackInv
      <3>2. DOMAIN mem = 0 .. BuffSize - 1
        BY Shapes
      <3>3. mem = [a \in DOMAIN mem |->
                            IF a - offset \in 0 .. n - 1 THEN image[a - offset + 1] ELSE Fill]
        BY <3>1, <3>2 DEF Copy
      <3> QED
        BY <3>1, <3>3
    <2> QED
      BY <2>1, <2>2 DEF HexReadBack
  <1> QED
    BY HexTypeInit, HexTypeStep, BackInit, BackStep, <1>1, PTL DEF HexSpec

-----------------------------------------------------------------------------
(* The three levels together, one at a time.                               *)

LEMMA LevelsInit == FlashLevelsInit => FlashInit /\ UtilInit /\ HexInit
  BY DEF FlashLevelsInit

LEMMA LevelsStep ==
    [FlashLevelsNext]_<<level, flashVars, utilVars, hexVars>> =>
        [FlashNext]_flashVars /\ [UtilNext]_utilVars /\ [HexNext]_hexVars
  BY DEF FlashLevelsNext

\* LevelsTypeOK: the state of every level is well formed.
THEOREM LevelsTypes == FlashLevelsSpec => []LevelsTypeOK
  <1>1. CtlInv /\ UtilTypeInv /\ HexTypeInv => LevelsTypeOK
    BY DEF CtlInv, Typed, UtilTypeInv, HexTypeInv, LevelsTypeOK
  <1> QED
    BY LevelsInit, LevelsStep, InitHolds, NextKeeps, UtilTypeInit, UtilTypeStep, HexTypeInit, HexTypeStep,
       <1>1, PTL DEF FlashLevelsSpec
=============================================================================
