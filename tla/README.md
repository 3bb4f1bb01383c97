# A verification of z8encore-dbgutils

TLA+ models of the debugger and flash utilities for the Z8 Encore! (`ez8mon`,
`flashutil`), checked with TLC and in part proved with TLAPS. Line numbers
refer to the repository at the commit the models were made from.
`PROJECT.json` lists every run, mutant, mapped line, finding, hazard and
theorem; this file says what they amount to.

## 1. The system

`ez8mon` talks to the on-chip debugger (OCD) of a device over one half-duplex
line. The layers, from the user down:

| component | source | state | operations | talks to |
|---|---|---|---|---|
| command monitor | `monitor.cpp`, `ez8mon.cpp`, `trace.cpp` | `rl_err`, a few display flags | one function per key of `command`; `command_loop` resets a link that is down, stops the device, asks for a key | calls `ez8dbg`; while the device runs, readline calls back `check_if_running` |
| Tcl monitor | `tclmon.cpp` | – | the same as Tcl commands; `dbg_run` polls `isrunning` | `ez8dbg` |
| program memory | `ez8dbg_flash.cpp`, `crc.c` | `main_mem` (a copy of the flash), `crc`, `memcrc`, flags `CRC_CACHED`, `MEMCRC_CACHED` | `rd_mem`, `wr_mem`, `write_flash`, `rd_info`, `wr_info`, page and mass erase, saving and restoring the flash registers | OCD commands |
| breakpoints | `ez8dbg_brk.cpp` | table `breakpoints`, `tbreak` | set, remove, `read_mem` | program memory, OCD commands |
| run control | `ez8dbg.cpp` | cached DBGCTL, DBGSTAT, REVID, PC, CRC, reload, memory size | `run`, `run_to`, `run_clks`, `stop`, `isrunning`, `step`, `next`, `reset_chip`, `reset_link`, registers, data memory | the two above, OCD commands |
| OCD commands | `ez8ocd.cpp` | `mtu`, the link in use | one function per command; `rd_ack`; `new_command` resets a broken link | `ocd` |
| serial link | `ocd_serial.cpp`, `serialport.cpp` | `open`, `up` | read, write with read-back, reset by break and autobaud, `available`, `error` | the device |
| network link | `ocd_tcpip.cpp` | `open`, `up`, the socket | the same over a line protocol | the server |
| network server | `server.cpp` | `auth` per client | `USER`, `STATUS`, `RESET`, `READ`, `WRITE`, `CLOSE` | clients, and an `ocd` of its own |
| socket streams | `sockstream.c` | two buffers | gets, printf, flush | sockets |
| serial port | `serialport.cpp` | `rxbuff`, the escapes of the tty driver | open, read, write, break, flush, error | the tty |
| flash utility | `flashutil.cpp` | the image and its checksum, the serial number, the size of the last part | single and multi pass programming: connect, size, erase, blank check, serialize, program, verify | `ez8dbg`, hex files |
| hex files | `hexfile.c` | – | read Intel hex and S-records into a buffer, write Intel hex | files |
| start-up and end | `setup.cpp`, `cfg.cpp` | options | `init` connects and stops, `finish` removes breakpoints and runs | `ez8dbg` |
| trace decoding, disassembler, MD5, tools | the rest | – | sequential | – |

What is hard about it:

* **The device is concurrent.** It stops by itself, at a breakpoint, and says so
  with one unsolicited byte that collides with whatever is being sent; it breaks
  the line when the program switches clocks. The debugger learns of a stop only
  through that byte and the copy of DBGCTL it keeps.
* **Almost everything is a copy**: of DBGCTL, of the PC, of the flash, of two
  checksums, of opcodes under breakpoints, of the remote link's state. Each copy
  is right only if every way the original changes also drops it, including ways
  that throw halfway.
* **Every command can throw.** An operation is five to a few hundred commands,
  so each can stop between any two of its steps.
* **The network protocol carries no identifiers**: an answer belongs to the
  request because it comes next.
* **The serial line has no framing**: an answer is so many bytes, whatever they
  are; a late one, a break or a framing error looks like data, and only the
  reading back of what was sent tells.
* **The flash controller keeps state of its own**: an unlocked register, a page
  select that shows another memory in the window, an erase still under way are
  found by the next operation, whoever left them.
* **A bench of parts is a long session**: what was learned of one part (its size,
  the checksum of an erased one, the number it was given) is at hand for the next.

What makes each component correct:

* program memory: `rd_mem` returns what the device holds; a flag is up only for a
  checksum that is current; a write changes the bytes asked for and no others,
  with breakpoints in place; what is verified was written.
* breakpoints: none is in the flash without an entry, which alone can undo it;
  they never change what the program is.
* run control: no running device is taken for a stopped one; a cached PC is the
  PC; a stop is noticed; stepping leaves the interrupts alone.
* network link: answers belong to their requests; a link taken for up is up; only
  a client that knew a password works it; every request is answered.
* serial link: a command that returns was executed once and has its own answer; an
  acknowledge is that of a stop; every call ends.
* block commands: every byte of a range is moved to or from its own address, in
  pieces the link can take. Socket streams: what was printed arrives, whole and in
  order.
* flash controller: an operation changes the bytes it was asked to change, never
  another memory. That it leaves the registers as it found them is what the code
  says of itself, and does not do (`FlashState`).
* command monitor: the user is asked only about a stopped device; a session leaves
  none of its breakpoints behind.
* flash utility: no two parts get one serial number before the bytes for it have run
  through all; a part reported good holds the file. Hex files: a byte is placed where its record says; what was written is read
  back.

## 2. The modules

| module | what it is |
|---|---|
| `MemCache` | program memory, its cache and the breakpoint table, down to commands that fail |
| `ProgramMemory` | what the debugger promises about program memory: an image, a set of breakpoints |
| `MemCacheImpl` | the refinement of `ProgramMemory` by `MemCache` |
| `MCMemCache`, `MCMemVariants` | instances for TLC; the second runs two builds, of which the plain one has the constants of the configuration |
| `MemCacheProofs` | type correctness, coherence, true reads, verified writes; the refinement, and that breakpoints stay armed |
| `RunControl` | running, stopping, stepping; the line and the device |
| `MCRunControl`, `MCRunVariants` | instances: two small programs, three chips; and the monitors |
| `RunControlProofs` | what is cached of a device that runs by itself; breakpoints and their entries |
| `Monitor`, `MonitorProofs` | the prompt, its commands, and sessions; proofs |
| `OcdCommands` | block commands cut into pieces |
| `OcdSerial` | `ocd_serial` over `serialport`, byte by byte |
| `OcdLink` | what a link promises to the commands; `OcdSerial` implements it, and so does `NetLink` |
| `SockStream` | one direction of a connection, as `sockstream.c` buffers it |
| `LineQueue` | a queue of messages that may break and is read by the line; `SockStream` implements it |
| `OcdSerialProofs` | the serial link: it implements `OcdLink`, for any command, answer and number of disturbances |
| `MCLinks` | instances of these three layers |
| `LinksProofs` | block commands and streams, for any size of a buffer, a burst or an mtu |
| `NetLink` | `ocd_tcpip` and `service_client` with the lines between them |
| `NetImpl` | `NetLink` with a history of what the device has executed |
| `MCNetLink`, `MCNetVariants` | instances, with and without failing writes; the refinement of `OcdLink` where there are none |
| `NetLinkProofs` | answers, authorisation and the remote link, for any number of requests; it implements `OcdLink`, too |
| `FlashCtl` | the registers of the flash controller, the information area, late erases |
| `FlashUtil` | the passes of the flash utility over the parts on a bench |
| `HexFile` | writing and reading hex files |
| `MCFlash` | instances of these three levels |
| `FlashProofs` | the three levels, for any memory, bench and file |
| `DataInduction` | facts about sequences, by induction |

How they fit: a command of the user (`Monitor`) is a plan of questions and
operations; what an operation does on a device that runs is `RunControl`, what it
does to the memory `MemCache`, and below that to the controller `FlashCtl`. Their
commands move blocks as `OcdCommands` has it, over a link that promises `OcdLink`,
which `OcdSerial` keeps over a bad line; over the network the link is `NetLink`,
which keeps it as well (`MCNetVariants`), and whose queues of lines are what `SockStream`
makes of sockets (`LineQueue`). `FlashUtil` is the
other program, above the same operations, with files read as `HexFile` does. A
level relies on the properties of the one below it (`Sent` and `Lost` of
`RunControl` say of a command what `OcdLink` does; the parts of `Monitor` promise
what `KnownStopped` and `BreaksKnown` say), so that it need not carry its state.

The modules `MC...` with several levels, layers, builds or chips choose one at
first and let it alone move: they are one run for several instances, not a
product.

### MemCache

`flash`, `stopped` are the device; `cached`, `crc`, `memcrc`, `mainMem`, `bps`
are the fields of `ez8dbg`. An operation is cut where a command may throw:
`WrMem` is `wr_mem` to the first erase, then `WrErase` once a page,
`WrProgram` (`write_flash`), `WrVerify`, `WrRestore`; `pc` says which comes
next. In every part a command may fail (`LinkFails`): the link goes down and the
exception leaves everything as it is at that point. With `"flash"` in `Faults` a
cell may not erase or not program; with `"firmware"` the running program, and
the user by writing the flash control register, change the flash behind the
cache. A checksum is a function `CrcOf` on images without collisions
(`CrcAssumption`): a 16-bit CRC has some, and what follows holds but for them.
Bytes are sets of bits, so that programming, which only clears bits, is
intersection, BRK (0x00) is the empty set and an erased byte the full one.

Not part of it: the information area and the registers of the controller
(`FlashCtl`), read protect and the detection of the size (`FlashUtil`).

### RunControl

An operation is a sequence of parts, `todo`, most of which are one command. A
part may put others in front of the rest (`offbreak` puts a whole `step` there,
`pc` the reading of the PC), as the calls do in the code. Setting and removing a breakpoint are
sequences, too: the entry in the table, the BRK or the opcode in the flash and
the deletion of the entry are parts of their own, with the reads and the
registers of the flash controller between them, each of which may fail. So is
`mass_erase`, which drops the table first (`droptable`) and may then fail with the
flash as it was: the BRKs that were there are then nobody's, and what is saved of one
when a breakpoint is set over it is a BRK. `strays` has these BRKs, and the entries made
over them: stepping off such an entry executes the BRK, removing it writes the BRK back,
and the opcode that `step` and `next` look at is a BRK. The device runs,
stops and breaks the line between any two parts. `Flow` and `Kind` are the
program: where an instruction may lead, and whether it is a call, DI or EI.
`ack` and `brk` are what waits on the line: at most one unread acknowledge, after
at most one break. `Sent` and `Lost` say when a command gets through: an
acknowledge that was not read makes the read-back of the next command fail;
a pending break makes `new_command` reset the link first and forget the cache,
except for the commands on program memory, for stepping and for the trace, which
do not call it, and over tcpip, where it never sees an error (`Still`). `Link` chooses `ocd_serial` or `ocd_tcpip`.

Revisions differ as in the code: 0100 and 0110 have no comparator and set a
temporary breakpoint in `run_to`; 0100 disables interrupts around a step; those
up to 0120 may not be run when protected.

### NetLink

Client and server with a queue of lines each way. A line is a word and the
number of the request it belongs to, which the code does not send and the model
never looks at in a guard: it is there for the properties. The
client's handshake, requests, blank lines (skipped by `reset`, `link_up` and
`write`, not by `read`), its destructor; the server's loop with `auth` per
connection, its own link `dbg`, the two parts of `client_auth` and of
`client_write`. Connections are lost at any time with any part of what was under
way. A client that comes while another is served waits in the backlog, which is
as if it came later. The client authenticates before anything else because
`connect` does; other programs as clients are not modelled.

`NetImpl` adds a history to it: the command last asked for (`asked`) and the requests
for which the device at the other end has executed one since (`ran`). A command that
fails at the server's own link may have been executed or not (`Carried`), as
`OcdLink` has it of that link.

### Monitor

A command is the set of its `plan`s: what it asks the user (an answer may abort it)
and the operations it calls, in order. `at` follows `command_loop`: a link that is
down is reset, a device that runs is stopped (`settle`), then the prompt. An
operation may throw in every part; what catches it is `command_loop`. `rlErr` is
`rl_err`, which the hook sets and a later wait throws. `known` is DBGCTL as
cached, `cpu` the device, which stops by itself; `entries`, `brks` and `orphans` are
the table, the BRKs of the debugger in the flash, and those it takes for the
program's own. A session begins with `init`, and ends with `finish`, or is
killed between any two parts. `remote` says whether the link of the session is one over
tcpip, which closes when it breaks; the next session may have another.

### OcdCommands

The loops of `wr_regs`, `rd_regs`, `wr_mem`, `rd_mem`, `wr_data` and `rd_data`: the
range is cut at `EZ8REG_BUFSIZ` or at the length field (0 stands for its full
range), a piece into writes that fit the mtu. The link is one that holds no more
than mtu unread bytes. `cells` and `buff` hold a different byte at every place,
so that a byte moved twice, to the wrong address or not at all shows.

### OcdSerial

`tx` and `rx` are the tty's buffers, and the two lines are tied: what is sent
comes back. The driver escapes breaks and framing errors with ff, which
`serialport::read` takes apart (`esc`); `ahead` is `rxbuff`, where `error()` reads
ahead. `calls` is a stack, as `write` that finds a break calls `reset`, which calls
`write`. The device is deaf until the autobaud character, executes whole
commands, answers once. A fault is a framing error, an answer after the timeout,
a lost one, a write the driver refuses. The Windows half of the port is left out.

### SockStream

`ss_printf`, `ss_flush` and `ss_gets` over a socket that takes and gives any number
of characters at a time and may break. A message that does not fit is kept in
`msg`, flushed around and formatted again: with `VaList` = `"consumed"` the second
use of the argument list gives something else (section 5).

### FlashCtl

`stat`, `sel` and `freq` are the registers; an operation (`call`) saves them, reads
its block, sets up and unlocks, erases, programs, locks, verifies and restores,
one action for each command that writes a register, and each may throw and leave the
rest undone. `flash_setup` is three of them (`Setup`, `Unlock` twice): a late end of
an erase may fall between any two, so that the page select is ignored and the unlock
codes are not, or only the second code counts. With the
information area selected, the last page reads and programs as the area, but on
the old revisions, which have it elsewhere. While it erases, the controller ignores
what is written to it; with `"slow"` an erase may outlast the debugger's patience
and end under a later operation. The program of the device leaves the
registers in any of the ways in `Programs`.

### FlashUtil

One pass: connect, size, info, save, load, protection, erase, blank check,
serialize, program, verify, as the options say; in multi-pass mode a key begins
the next, over whatever part is on the bench. The variables of the program
(`mem_size`, `blank_crc`, `buff_crc`, `serial_number`) live from pass to pass. What is
stored of the serial number is its `serial_size` low bytes: `Serial(n)` has it modulo
`SerialRange`, while the counter goes on (up to a bound, `Serials`). `given` is a
history: the counter when the part was last programmed. A file may fail to load or to
be saved. With
`"flash"` a part may be erased or programmed wrong without a complaint; checksums
have no collisions.

### HexFile

A line is a record of a type, an address and data; how it is spelled, and the
checksum of a line, are left out (a line that fails them is `"corrupt"`). The
writer goes row by row, with a new upper address where it crosses a segment, and
may be cut short by a full disk; the reader keeps its two bases, wraps addresses
in a segment, takes the fill byte for unwritten and stops at the end record.
Addresses are numbers below `Wrap`, which stands for 2^32. The end of an S-record is
compared as it wraps: a record that goes there is accepted, and what it writes outside
the buffer ends the program (`"crashed"`) or not; behind the wrap it writes over the
beginning of the buffer.

## 3. What the runs check

Bounds are small where size does not matter and as large as the interesting
case needs.

| run | shows |
|---|---|
| `MemCacheFaults` | `CacheCoherent`, `ReadsAreTrue`, `VerifiedByCrc` with commands, cells and the program all misbehaving |
| `MemVariants` | the refinement of `ProgramMemory` with the cache and a failing link, and without either; without faults every breakpoint of the table is in the flash between operations (`ArmedWithoutFaults`) |
| `RunVariants` | `KnownStopped`, `PcCoherent`, `BreaksKnown` on the latest revision with every fault and on 0120 and 0100 with breaks and noise; `InterruptsKept` on 0100, which disables interrupts to step and needs temporary breakpoints; `StopsSeen` on 0120, over a serial line; `PromptStopped` and `QuitClean` of the monitor, over a serial line and over the network |
| `NetVariants` | as long as no write fails, `OwnAnswers`, `TrulyUp` and the refinement of `OcdLink` (`ImplementsOcd`); `OnlyAuthorized`, `NoCrash` and `Answers` whatever fails |
| `Links` | `ImplementsLink`, `UpIsListening`, `AckIsStop` and `CallsReturn` of the serial link; `NoOverrun`, `AllArrives` and the refinement of `LineQueue` (`ImplementsQueue`) of the streams; `BlockExact` and `FitsMtu` of the block commands |
| `Flash` | `InfoKept` and `WritesExact` of the controller; `SerialsUnique`, `ReportedGood` and `PassesEnd` of the utility; `HexPlaced` and `HexReadBack` of the files |
| `MemCacheVerify`, `RunRemote`, `RunTemp`, `NetWrite`, `FlashRest`, `FlashState` | the disagreements of section 5 |

**Memory.** Two memories: narrow (2 pages of 2 bytes of 2 bits: programming
without erasing gives a third value) and wide (2 pages of 3 bytes of 1 bit:
room for two breakpoints beside the writes). One write is inside a page, one
across the boundary; address 0 can hold no breakpoint. Two pages are enough for
a write to touch one, both, or part of both; operations follow each other without
bound. The writes of the wide memory share pages with the breakpoints but no
address: what a write over a breakpoint should mean is nowhere said (section 5).

**Running.** Two programs: a loop of three instructions, a call of a subroutine that
enables interrupts and may take long, and a DI where it returns to; and one of two
instructions that starts at address 0, where no breakpoint can be. The loop has one
address for the user's breakpoints, where the temporary one of `run_to` and `next` can
meet it, and all others for the temporary one; the short program has both of its own.
The three chips (`chip` of `MCRunVariants`) are 0120 and 0100 on the loop, with breaks
and noise, and the latest revision on the short program with every fault; all of them
can be mass erased. Nothing is counted: the state is finite as it is. The revision
0110 differs from 0100 only in `Step`, 0120 from later ones only in `Run`'s look at
read protect, so that three of them are enough.

**Monitor.** Three addresses, `BreakAt`: a BRK left behind by an earlier session, one
whose entry is lost and one with its entry can meet, and removing all can fail in the
middle. Any number of commands and sessions.

**Network.** `MaxRequests` = 10 lines a connection, three of which the handshake
takes, any number of connections one after another; a read that comes one answer
late needs four requests after the handshake. With failing writes the bound is one on
what is shown of `OwnAnswers`, which does not hold then (`NetWrite`); `OnlyAuthorized`
and `NoCrash` are proved for any number of requests. The server asks for a password in
`NetVariants`, not in `NetWrite`. `ImplementsOcd` says nothing of failing writes: with
them, a client that is one answer behind returns from a command that the device has
not executed yet, for the reason of `NetWrite`.

**Serial link.** `Events` = 3 disturbances: a break under a command, a second one
under the reset that it causes, and a late answer into the next. Answers contain ff
and 00, the bytes that escapes are made of. Commands of one write and of two, with
`new_command` and without, and a lone acknowledge.

**Streams.** A buffer of 4, a socket of 3: a line is longer than what is left of
either; three prints fill the buffer twice. **Blocks.** 8 addresses, a buffer of 3,
mtus from 0 (none) through those too small for a header to 7: pieces and
writes are cut by each of the limits, and by two of them at once.

**Flash controller.** The last page and another, two cells each; a program that
leaves the controller locked, unlocked with the information area in the window, or
with sector protect selected. **Flash utility.** Three parts: room for file and
number, for the file only, for neither; three serial numbers, of which the stored ones
repeat after two. **Hex files.** A buffer of 6 over segments of 4, rows of 2,
every file of up to three lines from sets of lines that meet, overlap, cross a
segment, leave the buffer or go to where addresses wrap, at 16; every image of up to 6 bytes of two values.

**Deadlock** is checked in the runs over memory, running and network: the user can
always ask for something. Not in `Links`, `Flash`, `FlashRest` and `FlashState`: a block command
that is done, a stream that has failed, a pass that ended and a file that was read
are the end.

**Fairness.** `RunVariants`, for the polled chip only: an operation that has begun goes
on (the code never waits in the middle of one), and the user who has started the
device goes on polling, which `readline`'s event hook and the loop of `dbg_run` do.
It is strong fairness, as a poll can be asked for only between operations.
Nothing is assumed of the device: it may never reach a breakpoint. `NetVariants`:
each end takes the next line when there is one, or the end of file when there is
none; both do nothing else. The client need not ask for anything. `Links`: the host
goes on with a call it is in (its waits have timeouts) and the line delivers what is
in it; both ends of a stream run, and the sender flushes again and again, as the
code does after every request and answer. `Flash`: a pass that has begun goes on;
no key need be pressed.

## 4. What is proved

For all values of the constants, under the assumptions named in the modules.

`MemCacheProofs`: the inductive invariant is `TypeOK`, `CacheCoherent`, a part
`Quiet` that says which locals are in use when no operation is under way, and
`VerifiedByCrc`. `TypeOK` gives that checksums stand for images, `CacheCoherent` that a cached one
stands for the current image; `CrcAssumption` turns equal checksums into equal
images, so a hit in `rd_mem` returns the flash (`TrueReads`) and an agreeing
comparison after `wr_mem` means that it was written (`VerifiedWrites`). One lemma
for each action shows that the invariant is kept, failures included.

Also in `MemCacheProofs`, `Implements` is the refinement of `ProgramMemory`, step by
step, under `Undisturbed`: cells erase and program, the program leaves the flash
alone, and no write touches an address of a breakpoint. The invariant adds to the
one above that the abstract image can always be told from flash, copy and
table (`Kept`): in the middle of a write the pages that are erased are held by
`main_mem`, because what `rd_mem` returned was true (`Remembered`); so a cut leaves
only pages of the block in doubt, which `ProgramMemory` allows. `StayArmed` adds
that when nothing fails, no entry is without its BRK between operations;
`PlainStaysArmed` says it of the two builds that the run checks.

`RunControlProofs`: none of the three properties is inductive, as each rests on
what the operation under way has still to do. The inductive invariant adds
`Flowing`, which says it of `todo`:

* `Checked(todo)`, unless the device is stopped: every part that acts on a
  stopped device (`readpc`, and `go`, which writes the copy of DBGCTL to the
  device) is behind one that throws or ends the operation if it is not.
* `Entered(todo)`, unless the address of the operation has its entry: the BRK is
  written behind the entry. `Cleared(todo)`, unless there is no BRK at it whose opcode
  the debugger has (`Own`): the entry is deleted behind the writing of the opcode.
* `Orderly(todo)`: only the last part sets the CPU running, so that no copy made
  under a check is used after; a reset stands among nothing but looks at DBGCTL;
  and no operation sets a breakpoint and clears another, for they share `arg`,
  but one may end by removing the temporary one, which changes it.

Operations are concatenations, and parts are replaced by sequences, so the
lemmas are about putting one `Detour` in front of the rest (`Inserted`,
`DetoursCompose`, `StartsOrderly`), each with the checks it needs. `Operations`
shows that every operation starts `Sound`, `Continues` that a step that does not
set the CPU running leaves `Flowing` as it is, and one lemma for each group of
actions shows that they keep the invariant.

`RunTypes` is the type invariant: `todo` is made of parts only. `InterruptsStay` is of a
link on which no command fails (`"link"` not in `Faults`), and is needed for the
revision that disables the interrupts to step. `Hearing`: a device that the copy of
DBGCTL knows as stopped has no unread acknowledge, so that nothing which is sent to
it collides, and only the breaks that `Still` hides are left to fail. `Stepping`: how
far the step under way has come, and so whether the interrupts are still those of the
program, are disabled, or are due to be enabled, and that the instruction which was
looked at is the one that was stepped over. A step that ends early can only do so
before it has touched them.

The flash controller (`FlashProofs`): `Chosen` says that a controller that is unlocked, or
will be when the unlock code under way arrives, shows the information area only to an
operation on it, or to one that was begun under an erase, with the area in the window:
`flash_setup` selects before it unlocks, and an erase that is under way, and can end
anywhere in between, is older than the operation that meets it. `InfoIsKept` follows.
`ExactWrites` needs, of an operation that began with the window on program memory and
without an erase, that nothing but its own page has changed (`Apart`), where the window
is in every step (`Windowed`), and that the copy is first the block as it was, then the
block with the data in it (`Copied`); that the comparison at the end agreed does the
rest, whatever programming made of the cells.

Block commands (`LinksProofs`): `BlockInv` says that what lies before the piece in progress has
been moved, the piece as far as it was sent, and nothing behind it; `MtuInv` bounds
a write and what comes back of it. For all sizes, bursts and mtus.

The flash utility (`FlashProofs`): `NumbersInv` says that a part which holds a number has the
residue of the one that it was given, that no two were given the same one, and that
each was given one below `serial_number`; `FreshInv`, that the image about to be
programmed has the number before that, which was given to none, with `OptionsInv` about
which steps can still follow.
Two different numbers with one residue are `SerialRange` apart (`Residues`), and
`NumbersAreUnique` follows although a part may fail at any step. `GoodInv` says what the kept checksums are of, and so
that a part found equal holds the image (`ReportsAreTrue`).

`MonitorProofs`: the plans of all commands have one shape (`Shaped`): one that still has
a question to ask has only parts that leave a stopped device stopped (`Quiet`), and
what a wait catches is looked at right behind it. `MonitorInv` keeps that of what is
left of the plan, with where `command_loop` is (`Control`), what the cached DBGCTL and
the table are worth (`Data`), and that the device is stopped and the link up wherever
something may be asked (`ReadyToAsk`); at the end the device is run only once the table is
empty (`Leaving`). `UserIsAskedWell` and `SessionsEndClean` follow. `VariantsTyped` and
`VariantsKeep` are about the specification of `RunVariants`, in which sessions and three
devices, two with constants of their own, take turns: the theorems of `RunControlProofs`
are taken with those constants, too (`Latest!`, `First!`), which satisfy their assumptions
(`LatestIsDevice`, `FirstIsDevice`).

`OcdSerialProofs`: what the host knows it knows from bytes, so the invariant,
`SerialInv`, is about what is yet to be read. `Coming(d, r)` takes the escapes apart: what a
state of `read` has seen, `rxbuff` and the buffer of the driver together are some data d as
the driver spells it, and then nothing, or an error and what is behind it (r). From there
on everything is said of data: `Heard` is what `read` will have of it, `Rested` what may be there
between calls (at most the acknowledge of a device that has stopped, and an error if the
device is deaf). `Echo` is the core: while a write is read back, either what will
be read is not what was sent (`Foul`), so that the call throws, or it is what was sent, and
then only the answer to it is behind it, or too little of one (`Answering`), or an acknowledge.
`Nested` is the stack of writes, as one that finds a break resets, and the reset writes.
`Honest` says what the device may execute of what is on its way; `Asked` and `SizeInv` tell
whose bytes they are and that no read ends inside an escape. `ChunkReads` is about the state
machine of `read` over any number of bytes at a time. One lemma for each action shows that the
invariant is kept (`SerialInvariant`). `UpListens` and `AckTellsOfStop` follow from it, and
`SerialTypesHold`, in which `read` never calls `abort()`. In `LinkImplemented` every step is a
step of `OcdLink`, or none: the link never has more than the answer in hand where a call
returns (`NotGarbled`). All of it assumes that no disturbance falls between two writes of one
command (`"split"` not in `Faults`; section 5 says what happens then), and of the commands and
answers that they have the shapes which `ez8ocd.cpp` gives them (`SerialAssumption`): an
answer is as long as the command that reads it expects, and a command that writes has one
operand and reads nothing. `LinksTypes` (`LinksProofs`) joins its types to those of the stream and the
block commands, for the specification that `Links` checks.

Streams (`LinksProofs`): `InOrder` and `RoomForLines`, for every size of the buffers and
every set of messages, as long as each is shorter than the sender's buffer, the
receiver has room for the longest, and the `va_list` is not used twice (`Usable`). What has been printed so far is, in
this order: the lines that came out, what the receiver has of the next, its buffer,
the socket, the buffer of the sender and what is left of a message being flushed
around (`flow`); a broken connection cuts that off behind the socket, so that what
arrived is a prefix of it. `ShortLines` says that no line of it is longer than a
message, which is what keeps `ss_gets` inside its caller's buffer. `StreamIsQueue`
says what the levels above may make of it, which `NetLink` does: the stream implements
`LineQueue`, whose contents are what is on its way less the line that is being put
together; whatever fragments the socket makes, a message is put in as a whole, a line
comes out as a whole, and a break takes off the end and nothing else.

Hex files (`FlashProofs`): `PlacedInv` says of the lines read so far that the bases in
force are those of the last base line (`BasesOf`), and that every byte of them is at
its place, or stands on the fill byte of another line; for S-records, that the last
line for an address counts, as long as none goes to where addresses wrap (`Tame`). An
Intel line does not get there: `InBuffer` says that one whose first byte is in the buffer
ends below `Wrap`, as it is no longer than a segment (`Fits`). `ReadBackInv` has two functions that the program does not
have: how many bytes of the image are in the file behind each line, and the upper half
of the address in force there; reading the first n lines gives a buffer with the first
so many bytes of the image, wherever the disk was full. `LevelsTypes` joins the types of
the three levels.

`DataInduction` has what these need of sequences: an induction over the natural
numbers as a fact about sets (a set of numbers that has 0 and with n also n + 1 has all
of them), which needs no operator for a parameter; from it, what `FlattenSeq` is of a
sequence that is one longer, that a set of numbers has a greatest and a least, and how
sequences are cut and compared as prefixes.

`NetLinkProofs`: with no identifiers, the argument is about what can be under way. In
`NetInv`, what waits for the server is the last request and nothing behind it; of its
lines only the last is answered; what waits for the client is the answer to its
request, and only once the server has read all of it; while the client is idle
nothing is on its way unless it has given up; and where it takes the link for up,
that of the server is. `OwnAnswersTaken`, `UpIsTrue` and `OwnReads` assume that
no write fails (`NetWrite` shows why); `VariantAnswers` and `VariantUp` say the first two
of the specification that the run checks. `NetTypes`, `OnlyTheAuthorized` and
`ReadMeetsNoBlank` assume nothing: `BlankInv` says that a blank line comes only
behind the data that it closes, and can be the first in the queue only when those
data were taken for an answer, after which every request but `read` skips it and
`read` is given data first.

`NetLinkImplemented`, also there, is the refinement of `OcdLink`, of the specification
that the run checks: where no write fails, with the history of `NetImpl`, and with
nothing but the link where some do (`SoundImplNext`, `VariantInv`).
`ImplInv` adds to `NetInv` that what is on its way to the device is the last command
and has not been executed (`Pending`: the line that executes it has no other behind
it), that what the client is told of has happened (`Happened`: an `OK`, and data about
to be read, mean that the device has executed this very request), and that between
commands something is left to execute only under a link that is down (`Along`). It
follows that no command runs twice or late (`NotGarbled`); every action is then one
step of `OcdLink`, or none (`Relinks`, `Throws`, `Returns`, `Calls`, `Executes`,
`Forgets`). A lost connection only takes lines away, which all three survive
(`LoseImpl`).

Assumed, each by name in the module that declares the constants: that checksums tell
images apart (`CrcAssumption`), that no call instruction is so near the top of memory
that its return address is outside (`ProgramAssumption`), that a message is shorter
than the buffer it is printed to (`Usable`), that a row fits in a segment
(`HexAssumption`), the shapes of commands and answers (`SerialAssumption`), and that the memories, pages and numbers of
the instances are not empty.

Only model-checked: liveness (`StopsSeen`, `Answers`, `CallsReturn`, `AllArrives`,
`PassesEnd`), which needs fairness and is out of the prover's reach. Every invariant
of the passing runs is proved; `InterruptsKept` where no command fails, as said above.

## 5. Disagreements found

Each of these is a run that TLC ends with a counterexample.

| run | the code | what is said |
|---|---|---|
| `MemCacheVerify` | the read-back after `wr_mem` compares `main_mem` with itself | `/* verify data */`, ez8dbg_flash.cpp:253 |
| `RunRemote` | over the network a stop is never noticed, as `available` is always 0 | docs/ez8mon.texi:292, ez8dbg.cpp:756 |
| `RunTemp` | `run_to` on revisions 0100 and 0110 refuses its own temporary breakpoint, as it has already put the running value into `dbgctl`; the debugger then takes the stopped device for a running one | ez8dbg.cpp:688 |
| `NetWrite` | a failed write is answered twice | docs/netproto.txt:129 and 14 |
| `FlashState` | `restore_flash_state` unlocks a control register that has changed by the bits of the current one, not of the saved one, and writes the frequency registers when they have not changed: a controller that the program had unlocked is left locked, with the debugger's frequency | ez8dbg_flash.cpp:442, 465 and 488 |
| `FlashRest` | with the information area left in the window (by a failed `rd_info` or by the program), `wr_mem` reads the rest of the last page from it and programs that into program memory | ez8dbg_flash.cpp:218 |

After enough failed writes (four answers too many, seventeen requests) the network
client may even take the `-ERR` of an old write for the first line of a `READ`'s answer
and return, in a later `read`, the data of another: `ReadsAreOwn` is proved only where
no write fails (`OwnReads`).

These were seen while reading. The models contain what leads to them, but no
run states them:

* `dump_memory` (monitor.cpp:449) reads with `rd_mem` and so shows BRK; docs/ez8mon.texi:704
  says that the debugger substitutes the opcode, which `read_mem` would do.
* A write over a breakpoint leaves its entry with the old opcode, which
  `remove_breakpoint` puts back (ez8dbg_flash.cpp:246, ez8dbg_brk.cpp:201).
* The trace commands do not call `new_command`: one sent while a break is pending
  clears it in `ocd_serial::write`, with the acknowledge behind it, and `isrunning`
  waits for an acknowledge that is gone (ez8ocd.cpp:860). This is why the polled chip of
  `RunVariants` leaves `"trace"` out.
* `assert(!tbreak)` (ez8dbg.cpp:690) fails when the stop was noticed by
  `state(state_stopped)` and not by `stop` or `isrunning`, which alone remove the
  temporary breakpoint.
* `next` at a call with a breakpoint on it steps into the call: it looks for the
  opcode under its own BRK (ez8dbg.cpp:921; docs/ez8mon.texi:1033 says it is run).
* On revisions 0100 and 0110 `StopsSeen` does not hold, for the reason of `RunTemp`.
* `ss_printf` uses its `va_list` a second time after a full buffer (sockstream.c:196),
  which the standard leaves undefined; with `VaList` = `"consumed"`, `ImplementsQueue` fails.
* A disturbance between the two writes of one command lets the second be taken for a
  command of its own, after the reset that it causes (ez8ocd.cpp:700); with `"split"`
  in `Faults`, `ImplementsLink` fails.
* `mass_erase` forgets the table before it erases (ez8dbg_flash.cpp:606). If the erase
  fails, the BRKs stay, and quitting succeeds; docs/ez8mon.texi:516 says that quit
  removes the breakpoints. `QuitClean` counts these among `orphans`, `BreaksKnown`
  among `strays`: both hold of all other BRKs.
* An operation that begins while an erase of the information area that timed out is
  still under way may change the area: when the erase ends behind the page select of
  `flash_setup` (ez8dbg_flash.cpp:519), which is ignored, and before the unlock codes,
  which are not, the window still shows the area, and `set_breakpoint` or `wr_mem` in the
  last page program it. `InfoKept` and `WritesExact` say that nothing else does: the
  operations begun under an erase with the area in the window are excepted by name.
* A serial number is stored in `serial_size` bytes, and the counter is not limited to
  them (flashutil.cpp:387 and 397): after 256 parts, a number of one byte is given again,
  without a warning. `SerialsUnique` says that it is not given again before.
* A write over a breakpoint that was set on such a BRK brings the BRK back when the
  breakpoint is removed.
* The monitor never leaves `command_loop` at the end of its input (monitor.cpp:1623),
  `reset_part` dereferences NULL there (1523) and the prompt of the trace repeats for
  good; a device that cannot be stopped is tried again without end (1762); `link_up`
  throws outside of every handler when a tcpip link closes (1738).
* `flashutil` erases the information area only under `TEST` (flashutil.cpp:511).
* `hexfile.c` compares the count of an S5 record with a counter that nothing counts up
  (352), accepts a file without its end record (192), does not look at what `fprintf`
  returns, adds the address of an S3 record with its length in 32 bits (395), so that one
  near the end of the address space is written outside the buffer (`Wraps`, which
  `HexPlaced` excepts), and takes a segment base of zero for none.
* `listen(fd, 1)` does not refuse a second client (server.cpp:146): it waits.


## 6. What is not modelled, and the plan

Not modelled: `ocd_parport.cpp` (every function throws), the disassembler, MD5 and the
small tools: no state that outlives a call, or none at all. Partly modelled: the
Windows half of `serialport.cpp` and the opening and configuring of ports; the parsing
of options and configuration files, whose result is the constants of the models; the
wrapping of commands for Tcl, whose loops are those of `RunControl`; the decoding of
trace frames (the commands that switch the trace and wait for it are in `Monitor` and
`RunControl`); display and line editing; a second client of the server, which waits as
if it came later; clients other than `ocd_tcpip`.

Some things are in the models and no property is about them, as nothing in the
repository says what should be: a write over a breakpoint, `stop` that throws
when its write collides with an acknowledge, and the three exceptions above: a BRK whose
entry a failed mass erase forgot, an operation begun under a late erase with the area in
the window, and an S-record that wraps. In `RunControl`, an erase ends before its command
does or not at all; that it may end later is in `FlashCtl`.

Left to do, in this order:

1. The decoding of the trace: frames and their wrap-around in `trace.cpp`.
2. `NetLink` over two `SockStream`s in one module, rather than over the queues that
   `StreamIsQueue` makes of them.
