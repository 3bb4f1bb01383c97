------------------------------ MODULE HexFile -------------------------------
(***************************************************************************)
(* Hex files (hexfile.c): wr_hexfile writes an image as an Intel hex file, *)
(* rd_hexfile reads one, or S-records, into a buffer filled with one byte. *)
(* A line is a record: its type ("00" to "05" of Intel, "S0" to "S9"), its *)
(* address, base or count, and its data.  Lines that are no record, or     *)
(* whose length or checksum is wrong, are of type "corrupt".               *)
(***************************************************************************)
EXTENDS Integers, Sequences, SequencesExt, FiniteSetsExt

CONSTANTS
    BuffSize,       \* size of the buffer that is read into
    Segment,        \* 0x10000: what an address of two bytes reaches
    Wrap,           \* 0x100000000: where an address wraps
    Paragraph,      \* 16: what the base of a segment is a multiple of
    Row,            \* 16: the data of a line that is written
    Fill,           \* the byte that the buffer is filled with
    WrittenImages,  \* what is written: sequences of bytes
    GivenFiles      \* what is read beside that

VARIABLES
    doing,          \* "write", "read", "accepted" (0 was returned), "refused", or
                    \* "crashed" by a write outside the buffer
    origin,         \* of the file: "written", "cut" (the disk was full) or "given"
    image, offset,  \* what is written, and to which address
    done,           \* bytes of it that were written
    file,           \* the lines
    line,           \* those that were read
    sba, lba,       \* base of the segment, and upper half of the address
    mem             \* the buffer

writing == <<image, offset, done>>
hexVars == <<doing, origin, image, offset, done, file, line, sba, lba, mem>>

Record(type, address, data) == [type |-> type, address |-> address, data |-> data]

IntelTypes == {"00", "01", "02", "03", "04", "05"}
SrecTypes == {"S0", "S1", "S2", "S3", "S5", "S7", "S8", "S9"}

\* A line holds no more than a segment: its length is a byte.  The addresses of
\* Intel lines have two bytes, and their bases; those of S-records up to four.
ASSUME HexAssumption ==
    /\ BuffSize \in Nat /\ Segment \in Nat \ {0} /\ Paragraph \in Nat /\ Row \in 1 .. Segment
    /\ Wrap \in Nat /\ BuffSize + Segment <= Wrap
    /\ \A i \in WrittenImages : i \in Seq(Range(i))
    /\ \A f \in GivenFiles :
        /\ f \in Seq(Range(f))
        /\ \A n \in DOMAIN f :
            /\ f[n] = Record(f[n].type, f[n].address, f[n].data)
            /\ f[n].type \in IntelTypes \cup SrecTypes \cup {"corrupt"} /\ f[n].address \in 0 .. Wrap - 1
            /\ f[n].type = "00" => f[n].address < Segment
            /\ f[n].type \in {"02", "04"} =>
                (f[n].address * Segment) + Segment <= Wrap /\ (f[n].address * Paragraph) + Segment <= Wrap
            /\ f[n].data \in Seq(Range(f[n].data)) /\ Len(f[n].data) <= Segment

-----------------------------------------------------------------------------
(* wr_hexfile, line by line.                                               *)

At == offset + done

WriteUpper ==
    /\ doing = "write" /\ done < Len(image) /\ At \div Segment # lba
    /\ lba' = At \div Segment
    /\ file' = Append(file, Record("04", lba', <<>>))
    /\ UNCHANGED <<doing, origin, writing, line, sba, mem>>

\* Mutant: a line goes on with the upper half of the address of the one before.
WriteRowLow ==
    /\ doing = "write" /\ done < Len(image)
    /\ LET size == Min({IF At % Row > 0 THEN At % Row ELSE Row, Len(image) - done}) IN
        /\ file' = Append(file, Record("00", At % Segment, SubSeq(image, done + 1, done + size)))
        /\ done' = done + size
    /\ UNCHANGED <<doing, origin, image, offset, line, sba, lba, mem>>

\* From an odd address the lines get longer until one ends at a row.
WriteRow ==
    /\ doing = "write" /\ done < Len(image)
    /\ At \div Segment = lba
    /\ LET size == Min({IF At % Row > 0 THEN At % Row ELSE Row, Len(image) - done}) IN
        /\ file' = Append(file, Record("00", At % Segment, SubSeq(image, done + 1, done + size)))
        /\ done' = done + size
    /\ UNCHANGED <<doing, origin, image, offset, line, sba, lba, mem>>

\* What fprintf returns is not looked at: when the disk is full, the file ends
\* behind some line, or in one.
WriteEnd ==
    /\ doing = "write" /\ done = Len(image)
    /\ LET whole == Append(file, Record("01", 0, <<>>)) IN
       \/ file' = whole /\ origin' = "written"
       \/ /\ origin' = "cut"
          /\ \E n \in 0 .. Len(whole) - 1, rest \in {<<>>, <<Record("corrupt", 0, <<>>)>>} :
                file' = SubSeq(whole, 1, n) \o rest
    /\ doing' = "read" /\ lba' = 0
    /\ UNCHANGED <<writing, line, sba, mem>>

-----------------------------------------------------------------------------
(* rd_hexfile: rd_ihex or rd_srec, by the first line.                      *)

Intel == file # <<>> /\ Head(file).type \in IntelTypes
Srec == file # <<>> /\ Head(file).type \in SrecTypes

\* The next line is of one of these types.
NextLine(types) ==
    /\ doing = "read" /\ line < Len(file) /\ file[line + 1].type \in types
    /\ line' = line + 1
This == file[line + 1]

\* Where byte k of the line belongs: a base of zero is none.
Address(k) ==
    IF sba # 0 THEN (sba * Paragraph) + ((This.address + k) % Segment)
    ELSE (lba * Segment + This.address + k) % Wrap

\* Two lines for one address are refused, if the byte there is not the fill.
\* The bytes before that are stored.
Overlaps(k) == Address(k) >= BuffSize \/ mem[Address(k)] # Fill

ReadData ==
    /\ Intel /\ NextLine({"00"})
    /\ LET all == 0 .. Len(This.data) - 1
           stored == {k \in all : \A j \in 0 .. k : ~Overlaps(j)}
       IN  /\ mem' = [a \in DOMAIN mem |->
                IF \E k \in stored : Address(k) = a
                THEN This.data[1 + CHOOSE k \in stored : Address(k) = a] ELSE mem[a]]
           /\ doing' = IF stored = all THEN "read" ELSE "refused"
    /\ UNCHANGED <<origin, writing, file, sba, lba>>

\* Mutant: the base of the segment stays in force.
ReadBaseBoth ==
    /\ Intel /\ NextLine({"02", "04"})
    /\ IF This.type = "02" THEN sba' = This.address /\ lba' = 0 ELSE lba' = This.address /\ UNCHANGED sba
    /\ UNCHANGED <<doing, origin, writing, file, mem>>

ReadBase ==
    /\ Intel /\ NextLine({"02", "04"})
    /\ IF This.type = "02" THEN sba' = This.address /\ lba' = 0 ELSE lba' = This.address /\ sba' = 0
    /\ UNCHANGED <<doing, origin, writing, file, mem>>

ReadEnd ==
    /\ Intel /\ NextLine({"01"})
    /\ doing' = "accepted"
    /\ UNCHANGED <<origin, writing, file, sba, lba, mem>>

\* Later data replace earlier data.  The end of a line is compared as it wraps: a
\* line that does goes outside the buffer, and over its beginning.
Wraps(r) == r.address + Len(r.data) >= Wrap

ReadSrec ==
    /\ Srec /\ NextLine({"S1", "S2", "S3"})
    /\ IF (This.address + Len(This.data)) % Wrap > BuffSize THEN doing' = "refused" /\ mem' = mem
       ELSE /\ doing' \in {"read"} \cup (IF Wraps(This) THEN {"crashed"} ELSE {})
            /\ mem' = [a \in DOMAIN mem |->
                 IF (a - This.address) % Wrap \in 0 .. Len(This.data) - 1
                 THEN This.data[((a - This.address) % Wrap) + 1] ELSE mem[a]]
    /\ UNCHANGED <<origin, writing, file, sba, lba>>

\* The number of lines is compared with a counter that nothing counts up.
ReadCount ==
    /\ Srec /\ NextLine({"S5"})
    /\ doing' = IF This.address = 0 THEN "read" ELSE "refused"
    /\ UNCHANGED <<origin, writing, file, sba, lba, mem>>

\* Headers and execution addresses.
Skip ==
    /\ \/ Intel /\ NextLine({"03", "05"})
       \/ Srec /\ NextLine({"S0", "S7", "S8", "S9"})
    /\ UNCHANGED <<doing, origin, writing, file, sba, lba, mem>>

Refuse ==
    /\ \/ Intel /\ NextLine(SrecTypes \cup {"corrupt"})
       \/ Srec /\ NextLine(IntelTypes \cup {"corrupt"})
       \/ doing = "read" /\ ~Intel /\ ~Srec /\ line' = line
    /\ doing' = "refused"
    /\ UNCHANGED <<origin, writing, file, sba, lba, mem>>

\* The file ends, with a last record or without.
EndOfFile ==
    /\ doing = "read" /\ file # <<>> /\ line = Len(file)
    /\ doing' = "accepted"
    /\ UNCHANGED <<origin, writing, file, line, sba, lba, mem>>

-----------------------------------------------------------------------------

HexInit ==
    /\ \/ /\ doing = "write" /\ origin = "written" /\ file = <<>>
          /\ image \in WrittenImages /\ offset \in 0 .. BuffSize - Len(image)
       \/ /\ doing = "read" /\ origin = "given" /\ file \in GivenFiles
          /\ image = <<>> /\ offset = 0
    /\ done = 0 /\ line = 0
    /\ sba = 0 /\ lba = 0
    /\ mem = [a \in 0 .. BuffSize - 1 |-> Fill]

HexNext ==
    \/ WriteUpper \/ WriteRow \/ WriteEnd
    \/ ReadData \/ ReadBase \/ ReadEnd \/ ReadSrec \/ ReadCount \/ Skip \/ Refuse \/ EndOfFile

HexSpec == HexInit /\ [][HexNext]_hexVars

-----------------------------------------------------------------------------

HexByte == {Fill} \cup (UNION {Range(i) : i \in WrittenImages}) \cup
    (UNION {UNION {Range(f[n].data) : n \in DOMAIN f} : f \in GivenFiles})

HexTypeOK ==
    /\ doing \in {"write", "read", "accepted", "refused", "crashed"}
    /\ origin \in {"written", "cut", "given"}
    /\ done \in 0 .. Len(image) /\ line \in 0 .. Len(file)
    /\ sba \in Nat /\ lba \in Nat
    /\ mem \in [0 .. BuffSize - 1 -> HexByte]

\* Where byte k of line n of an Intel file belongs, by the last base before it.
PlaceOf(n, k) ==
    LET b == SelectLastInSubSeq(file, 1, n - 1, LAMBDA r : r.type \in {"02", "04"})
        base == IF b = 0 THEN 0 ELSE file[b].address
    IN  IF base # 0 /\ file[b].type = "02" THEN (base * Paragraph) + ((file[n].address + k) % Segment)
        ELSE base * Segment + file[n].address + k

\* The bytes that the lines read so far have for address a, as <<line, index>>.
BytesFor(a) ==
    UNION {{<<n, k>> : k \in {j \in 1 .. Len(file[n].data) :
                a = IF Intel THEN PlaceOf(n, j - 1) ELSE file[n].address + j - 1}} :
           n \in {m \in 1 .. line : file[m].type \in {"00", "S1", "S2", "S3"}}}

\* An Intel file that is accepted has every byte of its lines at its address,
\* in whatever order they come and however bases and segments change, or as
\* fill under another line's byte; of S-records the last byte counts, in a file
\* where no S-record goes to where addresses wrap.  Where such a file says nothing,
\* the fill is left, and no such file is written outside the buffer.
HexPlaced ==
    (Srec => \A n \in 1 .. line : file[n].type \in {"S1", "S2", "S3"} => ~Wraps(file[n])) =>
        /\ doing # "crashed"
        /\ doing = "accepted" => \A a \in DOMAIN mem :
            LET bytes == BytesFor(a) IN
            /\ bytes = {} => mem[a] = Fill
            /\ Intel => \A p \in bytes : file[p[1]].data[p[2]] \in {mem[a], Fill}
            /\ Srec => \A p \in bytes : (\A q \in bytes : q[1] <= p[1]) => mem[a] = file[p[1]].data[p[2]]

\* What wr_hexfile has written is accepted and read back as it was; a file that
\* was cut short, if it is accepted, is read as the beginning of it.
HexReadBack ==
    /\ origin = "written" => doing # "refused"
    /\ doing = "accepted" /\ origin # "given" =>
        \E n \in 0 .. Len(image) :
            /\ origin = "written" => n = Len(image)
            /\ mem = [a \in DOMAIN mem |->
                    IF a - offset \in 0 .. n - 1 THEN image[a - offset + 1] ELSE Fill]
=============================================================================
