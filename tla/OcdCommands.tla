---------------------------- MODULE OcdCommands ----------------------------
(***************************************************************************)
(* The block commands of ez8ocd.cpp: a range of the register file, of      *)
(* program memory or of data memory is read or written in pieces that fit  *)
(* the length field of the command and the mtu of the link, and each piece *)
(* is sent in writes that fit the mtu.  The link of the mtu is one that    *)
(* holds no more than mtu bytes that the host has not read.                *)
(***************************************************************************)
EXTENDS Integers

CONSTANTS
    RegBuf,     \* EZ8REG_BUFSIZ, one more than its length byte can hold
    MemSize,    \* EZ8REG_SIZE or EZ8MEM_SIZE: the addresses are 0 .. MemSize - 1
    Mtus        \* the mtu of the links; 0 means no limit

ASSUME BlockAssumption ==
    /\ RegBuf \in Nat /\ RegBuf > 1
    /\ MemSize \in Nat /\ MemSize > 0
    /\ Mtus \subseteq Nat

VARIABLES
    req,        \* the call: op, from, count and mtu
    addr, left, \* address and size of the rest of the range
    len,        \* the length of the piece in progress
    rest, more, \* bytes of the call of write in progress, and of the next one
    sent,       \* bytes of the command that the device has
    back,       \* bytes of the last write to the link, which come back
    cells,      \* the memory of the device
    buff,       \* the buffer of the caller
    at          \* "piece", "send", "done", "thrown" or "assert"

blockVars == <<req, addr, left, len, rest, more, sent, back, cells, buff, at>>

Ops == {"wr_regs", "rd_regs", "wr_mem", "rd_mem", "wr_data", "rd_data"}
Writing == req.op \in {"wr_regs", "wr_mem", "wr_data"}
OnRegisters == req.op \in {"wr_regs", "rd_regs"}

\* The byte that is written from position i of the buffer, and the byte that
\* address a of the device held at first: no two are equal.
Data(i) == i + 1
Old(a) == -(a + 1)

Least(m, n) == IF m < n THEN m ELSE n

\* Opcode, address and the length, in one byte or two.
Header == IF OnRegisters THEN 4 ELSE 5

\* The length that the device understands: the field holds one byte or two,
\* and zero in it stands for all that it could count.
LengthField ==
    LET full == IF OnRegisters THEN RegBuf ELSE MemSize
        field == IF len < full THEN len ELSE 0
    IN  IF field = 0 THEN full ELSE field

\* Mutant: a piece that is read is as long as the mtu, without its echo.
PieceLenMtu ==
    LET whole == IF OnRegisters THEN Least(left, RegBuf) ELSE left IN
    IF req.mtu > 0 /\ ~Writing THEN Least(whole, req.mtu) ELSE whole

\* wr_mem and wr_data write all in one piece; what is read comes back behind
\* the echo of at least one byte.
PieceLen ==
    LET whole == IF OnRegisters THEN Least(left, RegBuf) ELSE left IN
    IF req.mtu > 0 /\ ~Writing THEN Least(whole, req.mtu - 1) ELSE whole

\* The header is sent in two writes when the answer would not fit behind it.
Split == ~Writing /\ req.mtu > 0 /\ PieceLen + Header > req.mtu

Piece ==
    /\ at = "piece" /\ left > 0
    /\ len' = PieceLen
    /\ sent' = 0 /\ back' = 0
    /\ rest' = IF Split THEN Header - 1 ELSE Header
    /\ more' = IF Split THEN 1 ELSE IF Writing THEN PieceLen ELSE 0
    /\ at' = "send"
    /\ UNCHANGED <<req, addr, left, cells, buff>>

\* ez8ocd::write sends mtu bytes at a time.  The device writes data as they come.
Burst == IF req.mtu > 0 THEN Least(req.mtu, rest) ELSE rest

LinkWrite ==
    /\ at = "send" /\ rest > 0
    /\ sent' = sent + Burst /\ back' = Burst
    /\ IF rest > Burst THEN rest' = rest - Burst /\ more' = more
       ELSE rest' = more /\ more' = 0
    /\ cells' = [a \in DOMAIN cells |->
            IF Writing /\ a - addr \in 0 .. LengthField - 1 /\ a - addr < sent' - Header
            THEN Data(addr - req.from + (a - addr)) ELSE cells[a]]
    /\ UNCHANGED <<req, addr, left, len, buff, at>>

\* Mutant: the address is not advanced.
NextPieceSame == left' = left - len /\ UNCHANGED addr

NextPiece == addr' = addr + len /\ left' = left - len

Answer ==
    /\ at = "send" /\ rest = 0 /\ ~Writing
    /\ IF len = 0 THEN at' = "assert" /\ UNCHANGED <<addr, left, buff>>   \* assert(size != 0)
       ELSE /\ buff' = [i \in DOMAIN buff |->
                  IF i - (addr - req.from) \in 0 .. LengthField - 1
                  THEN cells[req.from + i] ELSE buff[i]]
            /\ NextPiece
            /\ at' = "piece"
    /\ UNCHANGED <<req, len, rest, more, sent, back, cells>>

Written ==
    /\ at = "send" /\ rest = 0 /\ Writing
    /\ NextPiece
    /\ at' = "piece"
    /\ UNCHANGED <<req, len, rest, more, sent, back, cells, buff>>

LinkThrows == at = "send" /\ at' = "thrown" /\ UNCHANGED <<req, addr, left, len, rest, more, sent, back, cells, buff>>

BlockDone == at = "piece" /\ left = 0 /\ at' = "done" /\ UNCHANGED <<req, addr, left, len, rest, more, sent, back, cells, buff>>

Requests == {r \in [op : Ops, from : 0 .. MemSize - 1, count : 1 .. MemSize, mtu : Mtus] :
                r.from + r.count <= MemSize}

BlockInit ==
    /\ req \in Requests
    /\ addr = req.from /\ left = req.count
    /\ len = 0 /\ rest = 0 /\ more = 0 /\ sent = 0 /\ back = 0
    /\ cells = [a \in 0 .. MemSize - 1 |-> Old(a)]
    /\ buff = [i \in 0 .. req.count - 1 |-> 0]
    /\ at = "piece"

BlockNext == Piece \/ LinkWrite \/ Answer \/ Written \/ LinkThrows \/ BlockDone

BlockSpec == BlockInit /\ [][BlockNext]_blockVars

-----------------------------------------------------------------------------

\* Well formed, and the rest of the range is what the caller asked for but what
\* is done.
BlockTypeOK ==
    /\ req \in Requests
    /\ addr \in req.from .. req.from + req.count /\ left = req.from + req.count - addr
    /\ len \in Nat /\ rest \in Nat /\ more \in Nat /\ sent \in Nat /\ back \in Nat
    /\ cells \in [0 .. MemSize - 1 -> Int]
    /\ buff \in [0 .. req.count - 1 -> Int]
    /\ at \in {"piece", "send", "done", "thrown", "assert"}

\* Bytes of the data of the piece that the device has.
Arrived == IF at \notin {"send", "thrown"} \/ sent <= Header THEN 0 ELSE sent - Header

\* The part of the range that is done.
Reached == addr - req.from

\* A call that returns has moved every byte of its range to its place, none
\* twice and none beside it; one that throws has done so up to some point.
BlockExact ==
    /\ \A a \in 0 .. MemSize - 1 :
        cells[a] = IF Writing /\ req.from <= a /\ a < addr + Arrived
                   THEN Data(a - req.from) ELSE Old(a)
    /\ ~Writing => \A i \in 0 .. req.count - 1 :
        buff[i] = IF i < Reached THEN Old(req.from + i) ELSE 0
    /\ at = "done" => addr = req.from + req.count

\* The link never has to hold more than mtu bytes: the echo of a write, and the
\* answer behind the echo of the last one; and only an mtu of 1 leaves no room
\* for an answer, and meets the assertion of ez8ocd::read.
FitsMtu ==
    /\ req.mtu > 0 =>
        /\ back <= req.mtu
        /\ at = "send" /\ rest = 0 /\ ~Writing => back + len <= req.mtu
    /\ at = "assert" => req.mtu = 1
=============================================================================
