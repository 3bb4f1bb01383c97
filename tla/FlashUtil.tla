----------------------------- MODULE FlashUtil -----------------------------
(***************************************************************************)
(* The flash utility: one pass over one part, or a pass for each key over  *)
(* the parts that its user puts on the bench one after another             *)
(* (flashutil.cpp).  A memory image is <<kind, serial number>>, with as    *)
(* much of the number as the bytes for it hold; a checksum is that of an   *)
(* image over the first bytes of it, without collisions.                   *)
(***************************************************************************)
EXTENDS Integers, FiniteSets

CONSTANTS
    Parts,      \* the parts
    SizeOf,     \* their memory sizes
    MaxMem,     \* the last byte that the file uses
    SerialEnd,  \* where the serial number ends
    FirstSerial, Serials,   \* the numbers are FirstSerial + 0 .. Serials - 1
    SerialRange,    \* 256 ^ serial_size: how many of them can be told apart
    UtilFaults  \* "link" (a command throws), "flash" (the flash is not erased or
                \* programmed right, and the debugger does not notice)

ASSUME UtilAssumption ==
    /\ SizeOf \in [Parts -> Nat \ {0}]
    /\ MaxMem \in Nat /\ SerialEnd \in Nat
    /\ FirstSerial \in Nat /\ Serials \in Nat \ {0} /\ SerialRange \in Nat \ {0}
    /\ UtilFaults \subseteq {"link", "flash"}

VARIABLES
    multipass,  \* the options -m,
    info, save, erase, program, numbered, \* -i, -s, -e, a file, and -n
    bench,      \* the part on the bench
    parts,      \* what the parts hold
    protected,  \* the parts that have read protect on
    connected,  \* in multipassmode: the port is open
    size,       \* its local size, or mem_size in singlepassmode
    mem_size, blank_crc, buff, buff_crc, serial_number, \* the variables of the same names
    given,      \* history: the counter when the part was last given its number
    todo,       \* what comes next
    reported    \* the parts for which the last message was ok, and their numbers

options == <<multipass, info, save, erase, program, numbered>>
device == <<bench, parts, protected, given>>
utilVars == <<multipass, info, save, erase, program, numbered, bench, parts, protected, connected,
              size, mem_size, blank_crc, buff, buff_crc, serial_number, given, todo, reported>>

Blank == <<"blank", 0>>
Old == <<"old", 0>>
Spoilt == <<"spoilt", 0>>
File == <<"file", 0>>       \* as it was read
Serial(n) == <<"serial", n % SerialRange>>

Crc(image, n) == <<image, n>>
NoCrc == Crc(Blank, 0)

\* Mutant: it begins again.
FailsAgain == todo' = "connect"

\* What a command of the debugger that throws does: back to the prompt, or the
\* end of the pass; where nothing catches it, the end of the program.
Fails == todo' = IF multipass THEN "prompt" ELSE "failed"
LinkFails == "link" \in UtilFaults /\ Fails
Uncaught == "link" \in UtilFaults /\ todo' = IF multipass THEN "prompt" ELSE "terminated"

-----------------------------------------------------------------------------

\* A key is pressed; before, the user may have changed the part.
Key ==
    /\ todo = "prompt" /\ serial_number < FirstSerial + Serials
    /\ bench' \in Parts
    /\ todo' = "connect"
    /\ UNCHANGED <<options, parts, protected, given, connected, size, mem_size, blank_crc, buff,
                   buff_crc, serial_number, reported>>

Quit ==
    /\ todo = "prompt" /\ todo' = "done"
    /\ UNCHANGED <<options, device, connected, size, mem_size, blank_crc, buff, buff_crc,
                   serial_number, reported>>

\* connect, or reset_link, which makes the debugger forget the part before;
\* stop and reset_chip.
Connect ==
    /\ todo = "connect"
    /\ \/ connected' = TRUE /\ todo' = "size"
       \/ connected' = connected /\ LinkFails
       \/ connected' = TRUE /\ LinkFails
    /\ UNCHANGED <<options, device, size, mem_size, blank_crc, buff, buff_crc, serial_number, reported>>

MemorySize ==
    /\ todo = "size"
    /\ \/ /\ size' = SizeOf[bench]
          /\ mem_size' = IF multipass THEN mem_size ELSE size'
          /\ todo' = IF info /\ ~multipass THEN "info"
                     ELSE IF save THEN "save" ELSE IF program /\ ~multipass THEN "load" ELSE "check"
       \/ Uncaught /\ UNCHANGED <<size, mem_size>>
    /\ UNCHANGED <<options, device, connected, blank_crc, buff, buff_crc, serial_number, reported>>

\* display_info, by rd_crc.
DisplayInfo ==
    /\ todo = "info"
    /\ \/ todo' = IF save THEN "save" ELSE IF program THEN "load" ELSE "check"
       \/ LinkFails
    /\ UNCHANGED <<options, device, connected, size, mem_size, blank_crc, buff, buff_crc,
                   serial_number, reported>>

\* save_file goes on when the checksums differ, and stops at a protected part or
\* when the file cannot be written.
SaveFile ==
    /\ todo = "save"
    /\ \/ /\ bench \notin protected
          /\ buff' = parts[bench] /\ buff_crc' = Crc(buff', mem_size)
          /\ todo' = (IF program THEN "load" ELSE "check") \/ Fails
       \/ bench \in protected /\ Fails /\ UNCHANGED <<buff, buff_crc>>
       \/ LinkFails /\ UNCHANGED <<buff, buff_crc>>
    /\ UNCHANGED <<options, device, connected, size, mem_size, blank_crc, serial_number, reported>>

\* load_file, in the pass, or once before the first; a file that cannot be read
\* ends the program.
LoadFile ==
    /\ todo = "load"
    /\ \/ buff' = File /\ todo' = IF multipass THEN "prompt" ELSE "check"
       \/ buff' = Spoilt /\ todo' = "failed"
    /\ UNCHANGED <<options, device, connected, size, mem_size, blank_crc, buff_crc, serial_number, reported>>

\* A file or a serial number that does not fit is refused.  The checksums are
\* computed again when the size is another than that of the last part.
TooLarge ==
    \/ program /\ size <= MaxMem
    \/ numbered /\ size < SerialEnd

Check ==
    /\ todo = "check"
    /\ \/ TooLarge /\ Fails /\ UNCHANGED <<mem_size, blank_crc, buff_crc>>
       \/ /\ ~TooLarge
          /\ todo' = IF erase \/ program THEN "erase" ELSE "done"
          /\ mem_size' = size
          /\ IF ~multipass \/ size # mem_size
             THEN blank_crc' = Crc(Blank, size) /\ buff_crc' = Crc(buff, size)
             ELSE UNCHANGED <<blank_crc, buff_crc>>
    /\ UNCHANGED <<options, device, connected, size, buff, serial_number, reported>>

\* erase_device: flash_mass_erase, reset_chip of a part that was protected, and
\* the blank check.
EraseDevice ==
    /\ todo = "erase"
    /\ \/ /\ parts' = [parts EXCEPT ![bench] = Blank]
          /\ \/ protected' = protected \ {bench} /\ todo' = "blank_check"
             \/ UNCHANGED protected /\ (LinkFails \/ Uncaught)
       \/ /\ "flash" \in UtilFaults /\ parts' = [parts EXCEPT ![bench] = Spoilt]
          /\ protected' = protected \ {bench} /\ todo' = "blank_check"
       \/ LinkFails /\ UNCHANGED <<parts, protected>>
    /\ UNCHANGED <<options, bench, given, connected, size, mem_size, blank_crc, buff, buff_crc,
                   serial_number>>
    /\ reported' = {r \in reported : r[1] # bench}

BlankCheck ==
    /\ todo = "blank_check"
    /\ \/ Crc(parts[bench], SizeOf[bench]) = blank_crc /\ todo' = IF program THEN "serialize" ELSE "done"
       \/ Crc(parts[bench], SizeOf[bench]) # blank_crc /\ Fails
       \/ LinkFails
    /\ UNCHANGED <<options, device, connected, size, mem_size, blank_crc, buff, buff_crc,
                   serial_number, reported>>

\* Mutant: the number is not counted.
SerializeUncounted ==
    /\ todo = "serialize"
    /\ IF numbered THEN buff' = Serial(serial_number) /\ buff_crc' = Crc(buff', mem_size)
       ELSE UNCHANGED <<buff, buff_crc>>
    /\ UNCHANGED serial_number
    /\ todo' = "program"
    /\ UNCHANGED <<options, device, connected, size, mem_size, blank_crc, reported>>

\* Mutant: it is counted twice.
SerializeTwice ==
    /\ todo = "serialize"
    /\ buff' = Serial(serial_number) /\ buff_crc' = Crc(buff', mem_size)
    /\ serial_number' = serial_number + 2
    /\ todo' = "program"
    /\ UNCHANGED <<options, device, connected, size, mem_size, blank_crc, reported>>

\* serialize: the number goes into the image, is in its checksum, and is used
\* up, whether the part gets good or not.
Serialize ==
    /\ todo = "serialize"
    /\ IF numbered
       THEN /\ buff' = Serial(serial_number) /\ buff_crc' = Crc(buff', mem_size)
            /\ serial_number' = serial_number + 1
       ELSE /\ buff_crc' = IF multipass THEN buff_crc ELSE Crc(buff, mem_size)
            /\ UNCHANGED <<buff, serial_number>>
    /\ todo' = "program"
    /\ UNCHANGED <<options, device, connected, size, mem_size, blank_crc, reported>>

\* program_device: wr_mem, which may throw with the part programmed or not,
ProgramDevice ==
    /\ todo = "program"
    /\ given' = IF numbered THEN [given EXCEPT ![bench] = serial_number - 1] ELSE given
    /\ \/ parts' = [parts EXCEPT ![bench] = buff] /\ (todo' = "verify" \/ LinkFails)
       \/ parts' = [parts EXCEPT ![bench] = Spoilt]
          /\ \/ "flash" \in UtilFaults /\ todo' = "verify"
             \/ LinkFails
    /\ UNCHANGED <<options, bench, protected, connected, size, mem_size, blank_crc, buff, buff_crc,
                   serial_number, reported>>

Passed == todo' = (IF multipass THEN "prompt" ELSE "done") /\ reported' = reported \cup {<<bench, buff>>}

\* Mutant: the checksum is read and not compared.
VerifyRead ==
    /\ todo = "verify"
    /\ Passed
    /\ UNCHANGED <<options, device, connected, size, mem_size, blank_crc, buff, buff_crc, serial_number>>

\* and its verification by checksum.
VerifyDevice ==
    /\ todo = "verify"
    /\ \/ Crc(parts[bench], SizeOf[bench]) = buff_crc /\ Passed
       \/ Crc(parts[bench], SizeOf[bench]) # buff_crc /\ Fails /\ UNCHANGED reported
       \/ LinkFails /\ UNCHANGED reported
    /\ UNCHANGED <<options, device, connected, size, mem_size, blank_crc, buff, buff_crc, serial_number>>

-----------------------------------------------------------------------------

\* What setup lets through.
UtilInit ==
    /\ multipass \in BOOLEAN /\ info \in BOOLEAN /\ save \in BOOLEAN
    /\ erase \in BOOLEAN /\ program \in BOOLEAN /\ numbered \in BOOLEAN
    /\ info \/ save \/ erase \/ program
    /\ multipass => program /\ ~save
    /\ bench \in Parts
    /\ parts = [p \in Parts |-> Old]
    /\ protected \in SUBSET Parts
    /\ connected = FALSE
    /\ size = 0 /\ mem_size = 0
    /\ blank_crc = NoCrc /\ buff_crc = NoCrc
    /\ buff = Blank
    /\ serial_number = FirstSerial /\ given = [p \in Parts |-> FirstSerial]
    /\ todo = IF multipass THEN "load" ELSE "connect"
    /\ reported = {}

UtilStep ==
    \/ Connect \/ MemorySize \/ DisplayInfo \/ SaveFile \/ LoadFile \/ Check \/ EraseDevice
    \/ BlankCheck \/ Serialize \/ ProgramDevice \/ VerifyDevice

UtilNext == Key \/ Quit \/ UtilStep

UtilSpec == UtilInit /\ [][UtilNext]_utilVars /\ WF_utilVars(UtilStep)

-----------------------------------------------------------------------------

Images == {Blank, Old, Spoilt, File} \cup {Serial(n) : n \in FirstSerial .. FirstSerial + Serials - 1}
Steps == {"prompt", "connect", "size", "info", "save", "load", "check", "erase", "blank_check",
          "serialize", "program", "verify", "done", "failed", "terminated"}

UtilTypeOK ==
    /\ bench \in Parts /\ parts \in [Parts -> Images] /\ protected \subseteq Parts
    /\ buff \in Images
    /\ serial_number \in FirstSerial .. FirstSerial + Serials
    /\ given \in [Parts -> FirstSerial .. FirstSerial + Serials - 1]
    /\ todo \in Steps
    /\ reported \subseteq Parts \X Images

\* A part that was reported good holds the file with the number it was given,
\* until it is erased again (program_device).
ReportedGood == \A r \in reported :
    parts[r[1]] = r[2] /\ r[2][1] = IF numbered THEN "serial" ELSE "file"

\* Whatever failed, a number that may be in a part is given again only when the
\* numbers that the bytes for it can tell apart are used up: two parts that hold one
\* number were given theirs that many numbers apart, or more; so no two of the
\* first SerialRange do.
SerialsUnique ==
    \A p, q \in Parts : p # q /\ parts[p][1] = "serial" /\ parts[p] = parts[q] =>
        given[p] + SerialRange <= given[q] \/ given[q] + SerialRange <= given[p]

\* A pass ends, at the prompt or with the program.
PassesEnd == todo = "connect" ~> todo \in {"prompt", "done", "failed", "terminated"}
=============================================================================
