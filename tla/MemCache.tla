------------------------------ MODULE MemCache ------------------------------
(***************************************************************************)
(* Program memory as the debugger API sees it: the local copy main_mem,    *)
(* the two checksums that decide whether the copy may be used, the         *)
(* software breakpoint table, and the flash of the device behind them      *)
(* (ez8dbg_flash.cpp, ez8dbg_brk.cpp).                                     *)
(*                                                                         *)
(* An operation is a sequence of commands on the on-chip debugger link,    *)
(* each of which can throw; pc names the next part of the operation in     *)
(* progress, and every part is one action with its ways to fail.  The      *)
(* registers of the flash controller are not part of this module.          *)
(***************************************************************************)
EXTENDS Integers, FiniteSets

CONSTANTS
    Pages, PageSize,  \* the program memory: Pages pages of PageSize bytes
    Bit,              \* the bits of a byte
    CrcOf,            \* the checksum of each memory image
    CacheOn,          \* memcache_enabled && memory_size()
    Faults,           \* what may happen: "link" (a command throws), "flash" (a cell
                      \* is not erased or programmed), "firmware" (the program on
                      \* the device, or its user by registers, changes the flash)
    Writes,           \* the writes asked for: functions from addresses to bytes
    Reads,            \* the blocks asked for
    Marks,            \* the addresses breakpoints are asked for
    Loaded            \* what the device may hold at first

Addr == 0 .. Pages * PageSize - 1
Byte == SUBSET Bit
Image == [Addr -> Byte]

Blank == Bit          \* 0xff, what an erased cell reads
Brk == {}             \* 0x00, the BRK instruction

\* Two images with one checksum are outside the model.
ASSUME CrcAssumption == \A m, n \in Image : CrcOf[m] = CrcOf[n] => m = n
ASSUME MemoryAssumption == Pages \in Nat /\ PageSize \in Nat \ {0}
ASSUME RequestAssumption ==
    /\ CacheOn \in BOOLEAN
    /\ Faults \subseteq {"link", "flash", "firmware"}
    /\ \A w \in Writes : DOMAIN w \subseteq Addr /\ w \in [DOMAIN w -> Byte]
    /\ Reads \subseteq SUBSET Addr
    /\ Marks \subseteq Addr
    /\ Loaded \subseteq Image

VARIABLES
    flash,      \* device: the program memory
    stopped,    \* device: in debug mode
    up,         \* the link has been reset and not failed since
    cached,     \* ez8dbg::cache, the two flags that matter here
    crc,        \* ez8dbg::crc, last checksum read from the device
    memcrc,     \* ez8dbg::memcrc, last checksum computed over mainMem
    mainMem,    \* ez8dbg::main_mem
    bps,        \* ez8dbg::breakpoints: address |-> the opcode it replaced
    pc,         \* the part of the operation that comes next
    req         \* the operation in progress, and its locals

dbg == <<cached, crc, memcrc, mainMem, bps>>
vars == <<flash, stopped, up, cached, crc, memcrc, mainMem, bps, pc, req>>

\* The empty function: no breakpoints, or no data.
Nothing == [x \in {} |-> Blank]

\* op: the operation; data: what it writes; todo: the pages it has yet to
\* erase; bycrc: its result was compared with the checksum of the device.
NoReq == [op |-> "none", data |-> Nothing, todo |-> {}, bycrc |-> FALSE]

-----------------------------------------------------------------------------
(* Memory images.                                                          *)

\* Mutant: pages numbered from 1.
PageFromOne(a) == a \div PageSize + 1

PageOf(a) == a \div PageSize

\* The whole pages that a block touches.
PagesOf(B) == {PageOf(a) : a \in B}
Block(B) == {a \in Addr : PageOf(a) \in PagesOf(B)}

Overlay(m, d) == [a \in Addr |-> IF a \in DOMAIN d THEN d[a] ELSE m[a]]
Restrict(m, B) == [a \in B |-> m[a]]
Erased(m, p) == [a \in Addr |-> IF PageOf(a) = p THEN Blank ELSE m[a]]

\* Programming only clears bits; T is where it took effect.
Programmed(m, d, T) == [a \in Addr |-> IF a \in T THEN m[a] \cap d[a] ELSE m[a]]

BlankPage(m, p) == \A a \in Addr : PageOf(a) = p => m[a] = Blank

\* What the program is with every breakpoint taken out (read_mem).
View == [a \in Addr |-> IF a \in DOMAIN bps THEN bps[a] ELSE flash[a]]

-----------------------------------------------------------------------------
(* The checksums and rd_mem.                                               *)

\* The values of cached_crc() and cached_memcrc().
FreshCrc == IF "CRC" \in cached THEN crc ELSE CrcOf[flash]
FreshMemcrc == IF "MEMCRC" \in cached THEN memcrc ELSE CrcOf[mainMem]

\* Mutant: the last checksums are compared, cached or not.
StaleHit == CacheOn /\ crc = memcrc

Hit == CacheOn /\ FreshCrc = FreshMemcrc

\* Mutant: the checksum of the copy survives a read into the copy.
KeepMemcrc == cached \cup {"CRC", "MEMCRC"}

\* rd_mem returns mainMem' on the block: the local copy as it is when both
\* checksums agree, else after the block was read from the device into it.
CacheAfterRead ==
    IF Hit THEN cached \cup {"CRC", "MEMCRC"}
    ELSE (cached \cup (IF CacheOn THEN {"CRC"} ELSE {})) \ {"MEMCRC"}

\* Mutant: the block is read with its breakpoints taken out, as read_mem does.
CopyWithoutBreaks(B) == Overlay(mainMem, Restrict(View, B))

CopyAfterRead(B) == IF Hit THEN mainMem ELSE Overlay(mainMem, Restrict(flash, B))

ChecksumsRead ==
    /\ crc' = IF CacheOn THEN FreshCrc ELSE crc
    /\ memcrc' = IF CacheOn THEN FreshMemcrc ELSE memcrc

RdMem(B) ==
    /\ ChecksumsRead
    /\ cached' = CacheAfterRead
    /\ mainMem' = CopyAfterRead(B)

Throw == pc' = "idle" /\ req' = NoReq

\* A command fails in the link, which stays down until it is reset.
LinkFails == "link" \in Faults /\ up' = FALSE /\ Throw

\* rd_mem throws: reading the checksum, or when it has read the block up to k.
RdMemFails(B) ==
    /\ LinkFails
    /\ \/ UNCHANGED <<cached, crc, memcrc, mainMem>>
       \/ ~Hit /\ \E k \in Addr : RdMem({a \in B : a < k})
    /\ UNCHANGED <<flash, stopped, bps>>

Idle == pc = "idle" /\ up /\ stopped

RdMemOp(B) ==
    /\ Idle
    /\ \/ RdMem(B) /\ UNCHANGED <<flash, stopped, up, bps, pc, req>>
       \/ RdMemFails(B)

\* rd_crc, whatever is cached.
RdCrc ==
    /\ Idle
    /\ \/ /\ crc' = CrcOf[flash]
          /\ cached' = cached \cup {"CRC"}
          /\ UNCHANGED <<flash, stopped, up, memcrc, mainMem, bps, pc, req>>
       \/ LinkFails /\ UNCHANGED <<flash, stopped, dbg>>

-----------------------------------------------------------------------------
(* wr_mem, and remove_breakpoint, which is wr_mem of the opcode followed by *)
(* delete_breakpoint.                                                      *)

\* Mutant: the block is not read when the cache is disabled.
WrMemUnread(op, d) ==
    LET B == Block(DOMAIN d) IN
    \/ /\ ChecksumsRead
       /\ cached' = CacheAfterRead \ {"CRC"}
       /\ mainMem' = IF CacheOn THEN CopyAfterRead(B) ELSE mainMem
       /\ pc' = "wr_erase"
       /\ req' = [op |-> op, data |-> d, bycrc |-> FALSE,
                  todo |-> {p \in PagesOf(B) : ~BlankPage(CopyAfterRead(B), p)}]
       /\ UNCHANGED <<flash, stopped, up, bps>>
    \/ RdMemFails(B)

\* Up to the first erase: the block is read unless the copy is known to be
\* good, and the pages that are not blank are the ones to erase.
WrMem(op, d) ==
    LET B == Block(DOMAIN d) IN
    \/ /\ ChecksumsRead
       /\ cached' = CacheAfterRead \ {"CRC"}
       /\ mainMem' = CopyAfterRead(B)
       /\ pc' = "wr_erase"
       /\ req' = [op |-> op, data |-> d, bycrc |-> FALSE,
                  todo |-> {p \in PagesOf(B) : ~BlankPage(CopyAfterRead(B), p)}]
       /\ UNCHANGED <<flash, stopped, up, bps>>
    \/ RdMemFails(B)

WrMemOp(d) == Idle /\ WrMem("wr_mem", d)

RemoveBreakpoint(a) ==
    /\ Idle
    /\ a \in DOMAIN bps
    /\ WrMem("remove_breakpoint", [x \in {a} |-> bps[x]])

\* flash_page_erase of the next page.  It does not verify the erasure.
WrErase ==
    /\ pc = "wr_erase"
    /\ \E p \in req.todo :
        /\ \A q \in req.todo : p <= q
        /\ cached' = cached \ {"CRC"}
        /\ \/ /\ flash' = Erased(flash, p) \/ ("flash" \in Faults /\ flash' = flash)
              /\ req' = [req EXCEPT !.todo = @ \ {p}]
              /\ UNCHANGED <<up, pc>>
           \/ LinkFails /\ flash' \in {flash, Erased(flash, p)}
           \/ "flash" \in Faults /\ Throw /\ UNCHANGED <<flash, up>>
    /\ UNCHANGED <<stopped, crc, memcrc, mainMem, bps>>

\* Mutant: only the bytes asked for are programmed, the rest of the page is lost.
WrProgramDataOnly ==
    /\ pc = "wr_erase" /\ req.todo = {}
    /\ mainMem' = Overlay(mainMem, req.data)
    /\ cached' = cached \ {"CRC", "MEMCRC"}
    /\ flash' = Programmed(flash, mainMem', DOMAIN req.data)
    /\ pc' = "wr_verify"
    /\ UNCHANGED <<up, req, stopped, crc, memcrc, bps>>

\* The data go into the copy, and from it to the device, in address order and
\* without the blank parts (write_flash).
WrProgram ==
    /\ pc = "wr_erase" /\ req.todo = {}
    /\ mainMem' = Overlay(mainMem, req.data)
    /\ cached' = cached \ {"CRC", "MEMCRC"}
    /\ LET B == Block(DOMAIN req.data) IN
        \/ /\ \/ flash' = Programmed(flash, mainMem', B)
              \/ "flash" \in Faults /\ \E T \in SUBSET B : flash' = Programmed(flash, mainMem', T)
           /\ pc' = "wr_verify"
           /\ UNCHANGED <<up, req>>
        \/ /\ LinkFails
           /\ \E k \in Addr : flash' = Programmed(flash, mainMem', {a \in B : a < k})
    /\ UNCHANGED <<stopped, crc, memcrc, bps>>

\* Mutant: the checksum of the device is not read again.
WrVerifyNothing ==
    /\ pc = "wr_verify"
    /\ pc' = "wr_restore"
    /\ req' = [req EXCEPT !.bycrc = CacheOn /\ crc = memcrc]
    /\ UNCHANGED <<flash, stopped, up, dbg>>

\* The result is checked: by checksum when the last two checksums agreed, else
\* by reading the block back through rd_mem and comparing it with main_mem.
WrVerify ==
    /\ pc = "wr_verify"
    /\ LET byCrc == CacheOn /\ crc = memcrc
           B == Block(DOMAIN req.data)
       IN  \/ /\ byCrc
              /\ ChecksumsRead
              /\ cached' = cached \cup {"CRC", "MEMCRC"}
              /\ IF Hit THEN pc' = "wr_restore" /\ req' = [req EXCEPT !.bycrc = TRUE] ELSE Throw
              /\ UNCHANGED <<flash, stopped, up, mainMem, bps>>
           \/ /\ ~byCrc
              /\ RdMem(B)
              /\ IF Restrict(CopyAfterRead(B), B) = Restrict(mainMem', B)
                 THEN pc' = "wr_restore" /\ UNCHANGED req ELSE Throw
              /\ UNCHANGED <<flash, stopped, up, bps>>
           \/ /\ byCrc /\ LinkFails
              /\ UNCHANGED <<flash, stopped, dbg>>
           \/ ~byCrc /\ RdMemFails(B)

\* restore_flash_state; writing the control register forgets the checksum.
WrRestore ==
    /\ pc = "wr_restore"
    /\ cached' \in {cached, cached \ {"CRC"}}
    /\ \/ /\ Throw /\ up' = up
          /\ bps' = IF req.op = "remove_breakpoint"
                    THEN Restrict(bps, DOMAIN bps \ DOMAIN req.data) ELSE bps
       \/ LinkFails /\ bps' = bps
    /\ UNCHANGED <<flash, stopped, crc, memcrc, mainMem>>

-----------------------------------------------------------------------------
(* set_breakpoint.                                                         *)

\* The opcode is saved in the table, before the flash is touched.
SetBreakpoint(a) ==
    /\ Idle
    /\ a \notin DOMAIN bps /\ a # 0
    /\ \/ /\ RdMem({a})
          /\ bps' = [x \in DOMAIN bps \cup {a} |-> IF x = a THEN mainMem'[a] ELSE bps[x]]
          /\ pc' = "set_write"
          /\ req' = [NoReq EXCEPT !.op = "set_breakpoint", !.data = [x \in {a} |-> Brk]]
          /\ UNCHANGED <<flash, stopped, up>>
       \/ RdMemFails({a})

SetWrite ==
    /\ pc = "set_write"
    /\ \/ /\ mainMem' = Overlay(mainMem, req.data)
          /\ cached' = cached \ {"CRC", "MEMCRC"}
          /\ \/ /\ \/ flash' = Programmed(flash, req.data, DOMAIN req.data)
                   \/ "flash" \in Faults /\ flash' = flash
                /\ pc' = "set_verify"
                /\ UNCHANGED <<up, req>>
             \/ /\ LinkFails
                /\ flash' \in {flash, Programmed(flash, req.data, DOMAIN req.data)}
       \/ /\ LinkFails            \* in flash_setup
          /\ cached' = cached \ {"CRC"}
          /\ UNCHANGED <<flash, mainMem>>
    /\ UNCHANGED <<stopped, crc, memcrc, bps>>

\* Whether the byte reads back as BRK or not, the operation is over; when it
\* does not, by an exception.
SetVerify ==
    /\ pc = "set_verify"
    /\ \/ RdMem(DOMAIN req.data) /\ Throw /\ UNCHANGED <<flash, stopped, up, bps>>
       \/ RdMemFails(DOMAIN req.data)

-----------------------------------------------------------------------------
(* The other operations that concern program memory.                       *)

\* mass_erase: the table and the copy are cleared first.
MassErase ==
    /\ Idle
    /\ bps' = Nothing
    /\ mainMem' = [a \in Addr |-> Blank]
    /\ cached' = cached \ {"CRC", "MEMCRC"}
    /\ \/ flash' = [a \in Addr |-> Blank] /\ UNCHANGED <<up, pc, req>>
       \/ LinkFails /\ flash' \in {flash, [a \in Addr |-> Blank]}
       \/ "flash" \in Faults /\ flash' = flash /\ UNCHANGED <<up, pc, req>>
    /\ UNCHANGED <<stopped, crc, memcrc>>

\* wr_regs of a range that covers the flash control register, with which the
\* user may erase a page.
WrFif ==
    /\ Idle
    /\ cached' = cached \ {"CRC"}
    /\ \/ flash' = flash
       \/ "firmware" \in Faults /\ \E p \in 0 .. Pages - 1 : flash' = Erased(flash, p)
    /\ UNCHANGED <<up, pc, req>> \/ LinkFails
    /\ UNCHANGED <<stopped, crc, memcrc, mainMem, bps>>

\* run, run_to, run_clks.
Run ==
    /\ Idle
    /\ cached' = cached \ {"CRC"}
    /\ \/ stopped' = FALSE /\ UNCHANGED <<up, pc, req>>
       \/ stopped' \in BOOLEAN /\ LinkFails
    /\ UNCHANGED <<flash, crc, memcrc, mainMem, bps>>

Stop ==
    /\ pc = "idle" /\ up /\ ~stopped
    /\ \/ stopped' = TRUE /\ UNCHANGED <<up, pc, req>>
       \/ stopped' \in BOOLEAN /\ LinkFails
    /\ UNCHANGED <<flash, dbg>>

\* The program on the device erases a page of its own memory or writes to it.
Firmware ==
    /\ ~stopped /\ "firmware" \in Faults
    /\ \/ \E p \in 0 .. Pages - 1 : flash' = Erased(flash, p)
       \/ \E d \in Writes : flash' = Programmed(flash, d, DOMAIN d)
    /\ UNCHANGED <<stopped, up, dbg, pc, req>>

\* step and next: one instruction of that program.
Step ==
    /\ Idle
    /\ cached' = cached \ {"CRC"}
    /\ \/ flash' = flash
       \/ "firmware" \in Faults /\ \E d \in Writes : flash' = Programmed(flash, d, DOMAIN d)
    /\ UNCHANGED <<up, pc, req>> \/ LinkFails
    /\ UNCHANGED <<stopped, crc, memcrc, mainMem, bps>>

\* reset_link forgets everything that was cached, then resets the link.
ResetLink ==
    /\ pc = "idle"
    /\ cached' = {}
    /\ \/ up' = TRUE /\ UNCHANGED <<pc, req>>
       \/ LinkFails
    /\ UNCHANGED <<flash, stopped, crc, memcrc, mainMem, bps>>

-----------------------------------------------------------------------------

\* The copy starts blank.  Both checksums start as 0: one value, whatever it is.
Init ==
    /\ flash \in Loaded
    /\ stopped = TRUE /\ up = TRUE
    /\ cached = {}
    /\ crc = CrcOf[[a \in Addr |-> Blank]] /\ memcrc = crc
    /\ mainMem = [a \in Addr |-> Blank]
    /\ bps = Nothing
    /\ pc = "idle" /\ req = NoReq

\* What users ask for, and the rest of the operations they asked for.
Requests ==
    \/ \E B \in Reads : RdMemOp(B)
    \/ \E d \in Writes : WrMemOp(d)
    \/ \E a \in Marks : SetBreakpoint(a)
    \/ \E a \in Marks : RemoveBreakpoint(a)
    \/ RdCrc \/ MassErase \/ WrFif \/ Run \/ Stop \/ Step \/ ResetLink

Parts == WrErase \/ WrProgram \/ WrVerify \/ WrRestore \/ SetWrite \/ SetVerify

Next == Requests \/ Parts \/ Firmware

Spec == Init /\ [][Next]_vars

-----------------------------------------------------------------------------

Crc == {CrcOf[m] : m \in Image}
IsData(d) == DOMAIN d \subseteq Addr /\ d \in [DOMAIN d -> Byte]

DeviceType == flash \in Image /\ stopped \in BOOLEAN /\ up \in BOOLEAN

CopyType ==
    /\ cached \subseteq {"CRC", "MEMCRC"}
    /\ crc \in Crc /\ memcrc \in Crc
    /\ mainMem \in Image

ReqType ==
    /\ pc \in {"idle", "wr_erase", "wr_verify", "wr_restore", "set_write", "set_verify"}
    /\ req.op \in {"none", "wr_mem", "remove_breakpoint", "set_breakpoint"}
    /\ IsData(req.data)
    /\ req.todo \subseteq 0 .. Pages - 1
    /\ req.bycrc \in BOOLEAN
    /\ req = [op |-> req.op, data |-> req.data, todo |-> req.todo, bycrc |-> req.bycrc]

\* The state is well formed, the table of breakpoints and the request too.
TypeOK == DeviceType /\ CopyType /\ IsData(bps) /\ ReqType

\* A checksum that is marked as cached is the checksum of what is there now:
\* of the flash, which erasing, programming and the running program change,
\* and of the local copy, which every read and write changes.  No sequence of
\* operations, complete or cut short, may leave a flag up that should be down.
CacheCoherent ==
    /\ "CRC" \in cached => crc = CrcOf[flash]
    /\ "MEMCRC" \in cached => memcrc = CrcOf[mainMem]

\* rd_mem that returns does return the bytes of the device, from the copy or
\* not, whatever happened before.
ReadsAreTrue ==
    [][\A B \in Reads : RdMemOp(B) /\ up' => Restrict(mainMem', B) = Restrict(flash, B)]_vars

\* A wr_mem compared by checksum, and about to report success, did write the
\* flash: every page, and not only the bytes that were asked for.
VerifiedByCrc == pc = "wr_restore" /\ req.bycrc => flash = mainMem

\* Between operations every breakpoint of the table is in the flash, however
\* often its page was erased and written for the sake of other addresses.
BreakpointsArmed == pc = "idle" => \A a \in DOMAIN bps : flash[a] = Brk

\* "verify data" (ez8dbg_flash.cpp:253): no wr_mem gets past its verification
\* with other bytes in the flash than it was asked to write.
WritesAreVerified == pc = "wr_restore" => Restrict(flash, DOMAIN req.data) = req.data
=============================================================================
