----------------------------- MODULE LinksProofs -----------------------------
(***************************************************************************)
(* The layers between a command and the wire (MCLinks): block commands      *)
(* move exactly the bytes they are asked to move, for every memory size,    *)
(* length of the length field and mtu (OcdCommands); what is printed on a   *)
(* connection is what is read on its other end, for every size of the       *)
(* buffers and wherever it is cut (SockStream).                             *)
(***************************************************************************)
EXTENDS MCLinks, OcdSerialProofs

-----------------------------------------------------------------------------
(* Block commands.                                                         *)

\* A piece is on its way: its length, and what of the command is left to send.
PieceInv ==
    at \in {"send", "thrown"} =>
        /\ left > 0 /\ len = PieceLen
        /\ sent + rest + more = Header + (IF Writing THEN len ELSE 0)
        /\ rest = 0 => more = 0

BlockInv == BlockTypeOK /\ PieceInv /\ BlockExact

-----------------------------------------------------------------------------

\* The range lies in the memory, and the mtu is a number.
LEMMA RequestBounds ==
    ASSUME BlockTypeOK
    PROVE  /\ req.from \in Nat /\ req.count \in Nat \ {0} /\ req.mtu \in Nat
           /\ req.from + req.count <= MemSize
           /\ addr \in req.from .. req.from + req.count /\ left = req.from + req.count - addr
  <1>1. req \in [op : Ops, from : 0 .. MemSize - 1, count : 1 .. MemSize, mtu : Mtus]
        /\ req.from + req.count <= MemSize
    BY DEF BlockTypeOK, Requests
  <1>2. req.from \in 0 .. MemSize - 1 /\ req.count \in 1 .. MemSize /\ req.mtu \in Mtus
    BY <1>1
  <1>3. addr \in req.from .. req.from + req.count /\ left = req.from + req.count - addr
    BY DEF BlockTypeOK
  <1>4. req.from \in Nat /\ req.count \in Nat \ {0}
    BY <1>2, BlockAssumption
  <1>5. req.mtu \in Nat
    BY <1>2, BlockAssumption
  <1> QED
    BY <1>1, <1>3, <1>4, <1>5

\* A piece is no longer than the rest; one that is written is not empty, and
\* none is longer than its length field counts.
LEMMA PieceBounds ==
    ASSUME BlockTypeOK, left > 0
    PROVE  /\ PieceLen \in 0 .. left
           /\ Writing => PieceLen > 0
           /\ OnRegisters => PieceLen <= RegBuf
           /\ left <= MemSize
  BY RequestBounds, BlockAssumption DEF PieceLen, Least

\* The device takes a piece that is not empty for as long as it is.
LEMMA FieldIsLength ==
    ASSUME BlockTypeOK, left > 0, len = PieceLen, len > 0
    PROVE  LengthField = len
  BY PieceBounds, BlockAssumption DEF LengthField, BlockTypeOK

\* What ez8ocd::write sends at a time.
LEMMA BurstBounds ==
    ASSUME BlockTypeOK, rest > 0
    PROVE  Burst \in 1 .. rest
  <1>1. rest \in Nat /\ req.mtu \in Nat
    BY RequestBounds DEF BlockTypeOK
  <1> QED
    BY <1>1 DEF Burst, Least

LEMMA InitBlock == BlockInit => BlockInv
  <1> SUFFICES ASSUME BlockInit PROVE BlockInv
    OBVIOUS
  <1>1. req.from \in 0 .. MemSize - 1 /\ req.count \in 1 .. MemSize /\ req.from + req.count <= MemSize
    BY DEF BlockInit, Requests
  <1>2. BlockTypeOK
    BY <1>1, BlockAssumption DEF BlockInit, BlockTypeOK, Old
  <1>3. PieceInv
    BY DEF BlockInit, PieceInv
  <1>4. BlockExact
    BY <1>1, BlockAssumption DEF BlockInit, BlockExact, Arrived, Reached
  <1> QED
    BY <1>2, <1>3, <1>4 DEF BlockInv

-----------------------------------------------------------------------------

LEMMA NextBlock == BlockInv /\ [BlockNext]_blockVars => BlockInv'
<1> SUFFICES ASSUME BlockInv, [BlockNext]_blockVars PROVE BlockInv'
  OBVIOUS
<1> USE BlockAssumption DEF BlockInv
<1>h. Header \in {4, 5} /\ req.from \in Nat /\ req.count \in Nat \ {0}
      /\ req.from + req.count <= MemSize
      /\ addr \in req.from .. req.from + req.count /\ left = req.from + req.count - addr
  BY RequestBounds DEF Header
<1>1. CASE Piece
  <2>1. PieceLen \in 0 .. left /\ (Writing => PieceLen > 0)
    BY <1>1, PieceBounds DEF Piece
  <2>2. BlockTypeOK'
    <3>1. rest' \in Nat /\ more' \in Nat /\ len' \in Nat
      BY <1>1, <1>h, <2>1 DEF Piece
    <3>2. sent' \in Nat /\ back' \in Nat /\ at' \in {"piece", "send", "done", "thrown", "assert"}
          /\ UNCHANGED <<req, addr, left, cells, buff>>
      BY <1>1 DEF Piece
    <3> QED
      BY <3>1, <3>2 DEF BlockTypeOK
  <2>3. PieceInv'
    <3>1. PieceLen' = PieceLen /\ Header' = Header /\ (Writing <=> Writing')
      BY <1>1 DEF Piece, PieceLen, Header, Writing, OnRegisters
    <3> QED
      BY <1>1, <1>h, <2>1, <3>1 DEF Piece, PieceInv, Split
  <2>4. BlockExact'
    BY <1>1, <1>h DEF Piece, BlockExact, Arrived, Reached, Writing, Header, OnRegisters
  <2> QED
    BY <2>2, <2>3, <2>4
<1>2. CASE LinkWrite
  <2>1. Burst \in 1 .. rest
    BY <1>2, BurstBounds DEF LinkWrite
  <2>2. left > 0 /\ len = PieceLen /\ len \in 0 .. left /\ (Writing => len > 0)
        /\ sent + rest + more = Header + (IF Writing THEN len ELSE 0) /\ (rest = 0 => more = 0)
    BY <1>2, PieceBounds DEF LinkWrite, PieceInv
  <2>3. Writing => LengthField = len
    BY <2>2, FieldIsLength
  <2>4. BlockTypeOK'
    <3>1. sent' \in Nat /\ back' \in Nat /\ rest' \in Nat /\ more' \in Nat
      BY <1>2, <2>1 DEF LinkWrite, BlockTypeOK
    <3>2. cells' \in [0 .. MemSize - 1 -> Int]
      <4>1. cells \in [0 .. MemSize - 1 -> Int] /\ DOMAIN cells = 0 .. MemSize - 1
        BY DEF BlockTypeOK
      <4>2. \A a \in 0 .. MemSize - 1 : Data(addr - req.from + (a - addr)) \in Int
        BY <1>h DEF Data
      <4> QED
        BY <1>2, <4>1, <4>2 DEF LinkWrite
    <3> QED
      BY <1>2, <3>1, <3>2 DEF LinkWrite, BlockTypeOK
  <2>5. PieceLen' = PieceLen /\ Header' = Header /\ (Writing <=> Writing')
    BY <1>2 DEF LinkWrite, PieceLen, Header, Writing, OnRegisters
  <2>6. PieceInv'
    <3>1. sent' + rest' + more' = sent + rest + more /\ (rest' = 0 => more' = 0)
      <4>1. sent \in Nat /\ rest \in Nat /\ more \in Nat
        BY DEF BlockTypeOK
      <4>2. CASE rest > Burst
        BY <1>2, <2>1, <4>1, <4>2 DEF LinkWrite
      <4>3. CASE ~(rest > Burst)
        BY <1>2, <2>1, <4>1, <4>3 DEF LinkWrite
      <4> QED
        BY <4>2, <4>3
    <3> QED
      BY <1>2, <2>2, <2>5, <3>1 DEF LinkWrite, PieceInv
  <2>7. BlockExact'
    <3>1. CASE ~Writing
      <4>1. cells' = cells
        BY <1>2, <3>1 DEF LinkWrite, BlockTypeOK
      <4> QED
        BY <1>2, <2>5, <3>1, <4>1 DEF LinkWrite, BlockExact, Reached
    <3>2. CASE Writing
      <4>1. sent' = sent + Burst /\ sent' <= Header + len
        BY <1>2, <2>1, <2>2, <3>2 DEF LinkWrite, BlockTypeOK
      <4>2. ASSUME NEW a \in 0 .. MemSize - 1
            PROVE  cells'[a] = IF req.from <= a /\ a < addr + Arrived' THEN Data(a - req.from) ELSE Old(a)
        <5>1. cells'[a] = IF a - addr \in 0 .. len - 1 /\ a - addr < sent' - Header
                          THEN Data(addr - req.from + (a - addr)) ELSE cells[a]
          BY <1>2, <2>3, <3>2 DEF LinkWrite, BlockTypeOK
        <5>2. cells[a] = IF req.from <= a /\ a < addr + Arrived THEN Data(a - req.from) ELSE Old(a)
          BY <3>2 DEF BlockExact
        <5>3. Arrived' = IF sent' <= Header THEN 0 ELSE sent' - Header
          BY <1>2, <2>5 DEF LinkWrite, Arrived
        <5>4. Arrived = IF sent <= Header THEN 0 ELSE sent - Header
          BY <1>2 DEF LinkWrite, Arrived
        <5>5. req.from <= addr
          BY <2>2, <1>h DEF BlockTypeOK
        <5> QED
          BY <1>h, <2>1, <4>1, <5>1, <5>2, <5>3, <5>4, <5>5 DEF Data, BlockTypeOK
      <4> QED
        BY <1>2, <2>5, <3>2, <4>2 DEF LinkWrite, BlockExact
    <3> QED
      BY <3>1, <3>2
  <2> QED
    BY <2>4, <2>6, <2>7
<1>3. CASE Answer
  <2>1. left > 0 /\ len = PieceLen /\ len \in 0 .. left
    BY <1>3, PieceBounds DEF Answer, PieceInv
  <2>2. CASE len = 0
    BY <1>3, <2>2 DEF Answer, BlockTypeOK, PieceInv, BlockExact, Arrived, Reached, Writing
  <2>3. CASE len # 0
    <3>1. LengthField = len
      BY <2>1, <2>3, FieldIsLength
    <3>2. addr' = addr + len /\ left' = left - len /\ at' = "piece"
      BY <1>3, <2>3 DEF Answer, NextPiece
    <3>3. BlockTypeOK'
      <4>1. buff' \in [0 .. req.count - 1 -> Int]
        <5>1. /\ buff \in [0 .. req.count - 1 -> Int] /\ DOMAIN buff = 0 .. req.count - 1
              /\ cells \in [0 .. MemSize - 1 -> Int]
          BY DEF BlockTypeOK
        <5>2. \A i \in 0 .. req.count - 1 : req.from + i \in 0 .. MemSize - 1
          BY <1>h
        <5> QED
          BY <1>3, <2>3, <5>1, <5>2 DEF Answer
      <4>2. addr' \in req.from .. req.from + req.count /\ left' = req.from + req.count - addr'
        BY <1>h, <2>1, <3>2
      <4> QED
        BY <1>3, <2>3, <3>2, <4>1, <4>2 DEF Answer, BlockTypeOK
    <3>4. PieceInv'
      BY <3>2 DEF PieceInv
    <3>5. BlockExact'
      <4>1. ASSUME NEW i \in 0 .. req.count - 1
            PROVE  buff'[i] = IF i < Reached' THEN Old(req.from + i) ELSE 0
        <5>1. buff'[i] = IF i - (addr - req.from) \in 0 .. len - 1 THEN cells[req.from + i] ELSE buff[i]
          BY <1>3, <2>3, <3>1 DEF Answer, BlockTypeOK
        <5>2. cells[req.from + i] = Old(req.from + i)
          BY <1>3, <1>h DEF Answer, BlockExact
        <5>3. buff[i] = IF i < Reached THEN Old(req.from + i) ELSE 0
          BY <1>3 DEF Answer, BlockExact
        <5>4. Reached = addr - req.from /\ Reached' = addr + len - req.from /\ req.from <= addr
          BY <1>3, <1>h, <2>1, <3>2 DEF Answer, Reached, BlockTypeOK
        <5>5. i \in Nat /\ len \in Nat
          BY <1>h, <2>1
        <5> QED
          BY <1>h, <2>1, <5>1, <5>2, <5>3, <5>4, <5>5
      <4> QED
        BY <1>3, <3>2, <4>1 DEF Answer, BlockExact, Writing
    <3> QED
      BY <3>3, <3>4, <3>5
  <2> QED
    BY <2>2, <2>3
<1>4. CASE Written
  <2>1. left > 0 /\ len = PieceLen /\ len \in 0 .. left
    BY <1>4, PieceBounds DEF Written, PieceInv
  <2>2. addr' = addr + len /\ left' = left - len /\ at' = "piece" /\ cells' = cells /\ req' = req
    BY <1>4 DEF Written, NextPiece
  <2>3. BlockTypeOK'
    <3>1. addr' \in req.from .. req.from + req.count /\ left' = req.from + req.count - addr'
      BY <1>h, <2>1, <2>2
    <3> QED
      BY <1>4, <2>2, <3>1 DEF Written, BlockTypeOK
  <2>4. PieceInv'
    BY <2>2 DEF PieceInv
  <2>5. sent = Header + len
    BY <1>4, <2>1 DEF Written, PieceInv, BlockTypeOK
  <2>6. BlockExact'
    <3>1. Arrived = len /\ Arrived' = 0
      BY <1>4, <1>h, <2>1, <2>2, <2>5 DEF Written, Arrived
    <3> QED
      BY <1>4, <2>1, <2>2, <3>1 DEF Written, BlockExact, Writing, BlockTypeOK
  <2> QED
    BY <2>3, <2>4, <2>6
<1>5. CASE LinkThrows
  <2>1. BlockTypeOK' /\ PieceInv'
    BY <1>5 DEF LinkThrows, BlockTypeOK, PieceInv, PieceLen, Header, Writing, OnRegisters
  <2>2. Arrived' = Arrived /\ Reached' = Reached /\ (Writing' <=> Writing)
    BY <1>5 DEF LinkThrows, Arrived, Reached, Header, Writing, OnRegisters
  <2>3. BlockExact'
    BY <1>5, <2>2 DEF LinkThrows, BlockExact
  <2> QED
    BY <2>1, <2>3
<1>6. CASE BlockDone
  <2>1. BlockTypeOK' /\ PieceInv'
    BY <1>6 DEF BlockDone, BlockTypeOK, PieceInv
  <2>2. Arrived' = 0 /\ Arrived = 0 /\ Reached' = Reached /\ (Writing' <=> Writing)
    BY <1>6 DEF BlockDone, Arrived, Reached, Writing
  <2>3. addr = req.from + req.count
    BY <1>6, <1>h DEF BlockDone
  <2>4. BlockExact'
    BY <1>6, <2>2, <2>3 DEF BlockDone, BlockExact
  <2> QED
    BY <2>1, <2>4
<1>7. CASE UNCHANGED blockVars
  BY <1>7 DEF blockVars, BlockTypeOK, PieceInv, BlockExact, Arrived, Reached, PieceLen, Header,
     Writing, OnRegisters
<1> QED
  BY <1>1, <1>2, <1>3, <1>4, <1>5, <1>6, <1>7 DEF BlockNext

-----------------------------------------------------------------------------

\* Where the writes of a command that reads have got to: before the last byte of
\* a header that is sent in two, before a header that fits with its answer, or
\* behind it.
MtuInv ==
    /\ req.mtu > 0 => back <= req.mtu
    /\ req.mtu > 0 /\ at = "send" /\ ~Writing =>
        /\ len <= req.mtu - 1
        /\ \/ more = 1 /\ rest > 0
           \/ more = 0 /\ rest = 1
           \/ more = 0 /\ rest = 0 /\ back + len <= req.mtu
           \/ more = 0 /\ rest = Header /\ Header + len <= req.mtu
    /\ at = "assert" => req.mtu = 1

\* Only an mtu of 1 leaves a piece empty.
LEMMA EmptyPiece ==
    ASSUME BlockTypeOK, left > 0, PieceLen = 0
    PROVE  req.mtu = 1
  BY RequestBounds, BlockAssumption DEF PieceLen, Least

LEMMA NextMtu == BlockInv /\ MtuInv /\ [BlockNext]_blockVars => MtuInv'
<1> SUFFICES ASSUME BlockInv, MtuInv, [BlockNext]_blockVars PROVE MtuInv'
  OBVIOUS
<1> USE DEF BlockInv
<1>h. Header \in {4, 5} /\ req.mtu \in Nat
  BY RequestBounds DEF Header
<1>t. len \in Nat /\ rest \in Nat /\ more \in Nat /\ back \in Nat
  BY DEF BlockTypeOK
<1>1. CASE Piece
  <2>1. PieceLen \in 0 .. left /\ left > 0 /\ left \in Nat
    BY <1>1, PieceBounds, RequestBounds DEF Piece
  <2>2. req.mtu > 0 /\ ~Writing => PieceLen <= req.mtu - 1
    BY <1>1, <1>h, RequestBounds, BlockAssumption DEF Piece, PieceLen, Least
  <2>3. Header' = Header /\ (Writing <=> Writing') /\ req' = req
    BY <1>1 DEF Piece, Header, Writing, OnRegisters
  <2>4. at' = "send" /\ len' = PieceLen /\ back' = 0
    BY <1>1 DEF Piece
  <2>5. CASE Split
    BY <1>1, <1>h, <2>1, <2>2, <2>3, <2>4, <2>5 DEF Piece, MtuInv
  <2>6. CASE ~Split
    BY <1>1, <1>h, <2>1, <2>2, <2>3, <2>4, <2>6 DEF Piece, MtuInv, Split
  <2> QED
    BY <2>5, <2>6
<1>2. CASE LinkWrite
  <2>1. Burst \in 1 .. rest /\ Burst = IF req.mtu > 0 THEN Least(req.mtu, rest) ELSE rest
    BY <1>2, BurstBounds DEF LinkWrite, Burst
  <2>2. Header' = Header /\ (Writing <=> Writing') /\ req' = req /\ len' = len /\ at' = at
    BY <1>2 DEF LinkWrite, Header, Writing, OnRegisters
  <2>3. /\ back' = Burst /\ at = "send"
        /\ rest > Burst => rest' = rest - Burst /\ more' = more
        /\ ~(rest > Burst) => rest' = more /\ more' = 0
    BY <1>2 DEF LinkWrite
  <2>4. req.mtu > 0 => Burst <= req.mtu /\ (rest <= req.mtu => Burst = rest)
    BY <1>h, <1>t, <2>1 DEF Least
  <2> QED
    BY <1>h, <1>t, <2>1, <2>2, <2>3, <2>4 DEF MtuInv
<1>3. CASE Answer
  <2>1. left > 0 /\ len = PieceLen
    BY <1>3 DEF Answer, PieceInv
  <2> QED
    BY <1>3, <2>1, EmptyPiece DEF Answer, MtuInv
<1>4. CASE Written
  BY <1>4 DEF Written, MtuInv
<1>5. CASE LinkThrows
  BY <1>5 DEF LinkThrows, MtuInv
<1>6. CASE BlockDone
  BY <1>6 DEF BlockDone, MtuInv
<1>7. CASE UNCHANGED blockVars
  BY <1>7 DEF blockVars, MtuInv, Header, Writing, OnRegisters
<1> QED
  BY <1>1, <1>2, <1>3, <1>4, <1>5, <1>6, <1>7 DEF BlockNext

-----------------------------------------------------------------------------

\* Every block command is well formed at every step.
THEOREM BlocksWellFormed == BlockSpec => []BlockTypeOK
<1> BlockInv => BlockTypeOK
  BY DEF BlockInv
<1> QED
  BY InitBlock, NextBlock, PTL DEF BlockSpec

\* A block command that returns has moved every byte of its range to its place,
\* none twice and none beside it; one that throws, up to some point: whatever
\* the length field counts and whatever the mtu is (wr_regs .. rd_data).
THEOREM BlocksAreExact == BlockSpec => []BlockExact
<1> BlockInv => BlockExact
  BY DEF BlockInv
<1> QED
  BY InitBlock, NextBlock, PTL DEF BlockSpec

\* The link never has to hold more than its mtu, and ez8ocd::read is called for
\* nothing only when that is 1 (rd_regs, rd_mem, rd_data).
THEOREM MtuIsKept == BlockSpec => []FitsMtu
<1>1. BlockInit => MtuInv
  BY InitBlock, RequestBounds DEF BlockInit, BlockInv, MtuInv
<1>2. BlockInv /\ MtuInv => FitsMtu
  <2> SUFFICES ASSUME BlockInv, MtuInv PROVE FitsMtu
    OBVIOUS
  <2>1. Header \in {4, 5} /\ len \in Nat /\ back \in Nat
    BY DEF Header, BlockInv, BlockTypeOK
  <2> QED
    BY <2>1 DEF MtuInv, FitsMtu
<1> QED
  BY <1>1, <1>2, InitBlock, NextBlock, NextMtu, PTL DEF BlockSpec

-----------------------------------------------------------------------------
(* The stream: newlines, and types.                                        *)

\* A line ends at its first newline.
LEMMA FirstNewline ==
    ASSUME NEW S, NEW s \in Seq(S), NEW nl, nl = SelectInSeq(s, LAMBDA c : c = "nl")
    PROVE  /\ nl \in 0 .. Len(s)
           /\ nl = 0 => \A i \in 1 .. Len(s) : s[i] # "nl"
           /\ nl # 0 => s[nl] = "nl" /\ \A i \in 1 .. nl - 1 : s[i] # "nl"
  <1> DEFINE I == {i \in 1 .. Len(s) : s[i] = "nl"}
  <1>1. Len(s) \in Nat
    BY LenProperties
  <1>2. nl = IF I # {} THEN CHOOSE x \in I : \A y \in I : x <= y ELSE 0
    BY DEF SelectInSeq, Min
  <1>3. CASE I = {}
    BY <1>1, <1>2, <1>3
  <1>4. CASE I # {}
    <2>1. \E x \in I : \A y \in I : x <= y
      BY <1>1, <1>4, LeastExists
    <2>2. nl \in I /\ \A y \in I : nl <= y
      BY <1>2, <1>4, <2>1
    <2>3. ASSUME NEW i \in 1 .. nl - 1
          PROVE  s[i] # "nl"
      BY <1>1, <2>2
    <2> QED
      BY <1>1, <2>2, <2>3
  <1> QED
    BY <1>3, <1>4

LEMMA LastNewline ==
    ASSUME NEW S, NEW s \in Seq(S), NEW nl, nl = SelectLastInSeq(s, LAMBDA c : c = "nl")
    PROVE  nl \in 0 .. Len(s) /\ (nl # 0 => s[nl] = "nl")
  <1> DEFINE I == {i \in 1 .. Len(s) : s[i] = "nl"}
  <1>1. Len(s) \in Nat
    BY LenProperties
  <1>2. nl = IF I # {} THEN CHOOSE x \in I : \A y \in I : x >= y ELSE 0
    BY DEF SelectLastInSeq, Max
  <1>3. CASE I = {}
    BY <1>1, <1>2, <1>3
  <1>4. CASE I # {}
    <2>1. \E x \in I : \A y \in I : x >= y
      BY <1>1, <1>4, GreatestExists
    <2>2. nl \in I
      BY <1>2, <1>4, <2>1
    <2> QED
      BY <1>1, <2>2
  <1> QED
    BY <1>3, <1>4

StreamKinds ==
    /\ StreamTypeOK
    /\ printed \in Seq(Seq(Char)) /\ received \in Seq(Seq(Char))

LEMMA MessageIs ==
    ASSUME NEW m \in Messages
    PROVE  m \in Seq(Char)
  <1>1. m \in Seq(Range(m)) /\ Range(m) \subseteq Char
    BY StreamAssumption DEF Char
  <1> QED
    BY <1>1, SeqMonotonic


LEMMA StreamTypeInit == StreamInit => StreamKinds
  <1> SUFFICES ASSUME StreamInit
               PROVE  StreamKinds
    OBVIOUS
  <1>1. <<>> \in Seq(Char) /\ Len(<<>>) = 0 /\ <<>> \in Seq(Seq(Char))
    BY EmptySeq
  <1>2. 0 < Buf /\ 0 <= Socket /\ 0 <= Buf
    BY StreamAssumption
  <1> QED
    BY <1>1, <1>2 DEF StreamInit, StreamKinds, StreamTypeOK

LEMMA StreamTypeStep ==
    ASSUME StreamKinds, [StreamNext]_streamVars
    PROVE  StreamKinds'
  <1> USE StreamAssumption
  <1>1. /\ txbuff \in Seq(Char) /\ Len(txbuff) < Buf /\ wire \in Seq(Char) /\ Len(wire) <= Socket
        /\ rxbuff \in Seq(Char) /\ Len(rxbuff) <= Buf /\ text \in Seq(Char)
        /\ Len(txbuff) \in Nat /\ Len(wire) \in Nat /\ Len(rxbuff) \in Nat
        /\ printed \in Seq(Seq(Char)) /\ received \in Seq(Seq(Char))
    BY LenProperties DEF StreamKinds, StreamTypeOK
  <1>2. ASSUME NEW m \in Messages, Printf(m)
        PROVE  StreamKinds'
    <2>1. m \in Seq(Char) /\ Len(m) \in Nat
      BY MessageIs, LenProperties
    <2>2. txbuff \o m \in Seq(Char) /\ Len(txbuff \o m) = Len(txbuff) + Len(m)
      BY <1>1, <2>1, ConcatProperties
    <2>3. Append(printed, m) \in Seq(Seq(Char))
      BY <1>1, <2>1, AppendProperties
    <2>4. CASE Fits(m, Buf - Len(txbuff)) /\ txbuff' = txbuff \o m /\ printed' = Append(printed, m)
               /\ UNCHANGED <<sender, msg>>
      <3>1. Len(txbuff') < Buf
        BY <1>1, <2>1, <2>2, <2>4 DEF Fits
      <3> QED
        BY <1>2, <2>2, <2>3, <2>4, <3>1 DEF Printf, StreamKinds, StreamTypeOK, receiving
    <2>5. CASE sender' = "full" /\ msg' = m /\ UNCHANGED <<txbuff, printed>>
      BY <1>2, <2>5 DEF Printf, StreamKinds, StreamTypeOK, receiving
    <2> QED
      BY <1>2, <2>4, <2>5 DEF Printf
  <1>3. CASE SsFlush
    BY <1>3 DEF SsFlush, StreamKinds, StreamTypeOK, receiving
  <1>4. CASE SsSend
    <2>1. PICK k \in 1 .. Len(txbuff) :
            /\ Len(wire) + k <= Socket
            /\ wire' = wire \o SubSeq(txbuff, 1, k)
            /\ txbuff' = SubSeq(txbuff, k + 1, Len(txbuff))
      BY <1>4 DEF SsSend
    <2>2. k \in 0 .. Len(txbuff)
      BY <1>1
    <2>3. SubSeq(txbuff, 1, k) \in Seq(Char) /\ Len(SubSeq(txbuff, 1, k)) = k
          /\ txbuff' \in Seq(Char) /\ Len(txbuff') = Len(txbuff) - k
      BY <1>1, <2>1, <2>2, CutInTwo
    <2>4. wire' \in Seq(Char) /\ Len(wire') = Len(wire) + k
      BY <1>1, <2>1, <2>3, ConcatProperties
    <2>5. Len(txbuff') < Buf /\ Len(wire') <= Socket
      BY <1>1, <2>1, <2>3, <2>4
    <2> QED
      BY <1>4, <2>3, <2>4, <2>5 DEF SsSend, StreamKinds, StreamTypeOK, receiving
  <1>5. CASE SendFails
    BY <1>5 DEF SendFails, StreamKinds, StreamTypeOK, receiving
  <1>6. CASE Flushed
    <2>1. msg \in Seq(Char)
      <3>1. <<>> \in Seq(Char)
        BY EmptySeq
      <3> QED
        BY <3>1, MessageIs DEF StreamKinds, StreamTypeOK
    <2>2. Append(printed, msg) \in Seq(Seq(Char))
      BY <1>1, <2>1, AppendProperties
    <2>3. printed' \in Seq(Seq(Char))
      BY <1>1, <1>6, <2>2 DEF Flushed
    <2>4. \A m \in Reformatted(msg) : m \in Seq(Char)
      BY <2>1, MessageIs DEF Reformatted
    <2>5. txbuff' \in Seq(Char) /\ Len(txbuff') < Buf
      <3>1. CASE txbuff' = txbuff
        BY <1>1, <3>1
      <3>2. CASE \E m \in Reformatted(msg) : txbuff' = IF Fits(m, Buf) THEN m ELSE <<>>
        <4>1. <<>> \in Seq(Char) /\ Len(<<>>) = 0
          BY EmptySeq
        <4> QED
          BY <2>4, <3>2, <4>1 DEF Fits
      <3> QED
        BY <1>6, <3>1, <3>2 DEF Flushed
    <2> QED
      BY <1>6, <2>3, <2>5 DEF Flushed, StreamKinds, StreamTypeOK, receiving
  <1>7. CASE Gets
    BY <1>7, EmptySeq DEF Gets, StreamKinds, StreamTypeOK, sending
  <1>8. CASE Recv
    <2>1. PICK k \in 1 .. Len(wire) : k <= Buf /\ rxbuff' = SubSeq(wire, 1, k) /\ wire' = SubSeq(wire, k + 1, Len(wire))
      BY <1>8 DEF Recv
    <2>2. k \in 0 .. Len(wire)
      BY <1>1
    <2>3. rxbuff' \in Seq(Char) /\ Len(rxbuff') = k /\ wire' \in Seq(Char) /\ Len(wire') = Len(wire) - k
      BY <1>1, <2>1, <2>2, CutInTwo
    <2>4. Len(rxbuff') <= Buf /\ Len(wire') <= Socket
      BY <1>1, <2>1, <2>3
    <2> QED
      BY <1>8, <2>3, <2>4 DEF Recv, StreamKinds, StreamTypeOK, sending
  <1>9. CASE Copy
    <2>1. PICK cnt \in 0 .. Len(rxbuff) :
            text' = text \o SubSeq(rxbuff, 1, cnt) /\ rxbuff' = SubSeq(rxbuff, cnt + 1, Len(rxbuff))
      <3> DEFINE nl == SelectInSeq(rxbuff, LAMBDA c : c = "nl")
      <3>1. nl \in 0 .. Len(rxbuff)
        BY <1>1, FirstNewline
      <3> HIDE DEF nl
      <3>2. (IF nl # 0 THEN nl ELSE Len(rxbuff)) \in 0 .. Len(rxbuff)
        BY <1>1, <3>1
      <3> QED
        BY <1>9, <3>2 DEF Copy, nl
    <2>2. SubSeq(rxbuff, 1, cnt) \in Seq(Char) /\ rxbuff' \in Seq(Char) /\ Len(rxbuff') = Len(rxbuff) - cnt
      BY <1>1, <2>1, CutInTwo
    <2>3. text' \in Seq(Char)
      BY <1>1, <2>1, <2>2, ConcatProperties
    <2>4. received' \in Seq(Seq(Char)) /\ receiver' \in {"idle", "gets", "failed"}
      <3>1. Append(received, text') \in Seq(Seq(Char))
        BY <1>1, <2>3, AppendProperties
      <3>2. \/ receiver' = "idle" /\ received' = Append(received, text')
            \/ UNCHANGED <<receiver, received>>
        BY <1>9 DEF Copy
      <3> QED
        BY <1>1, <3>1, <3>2 DEF StreamKinds, StreamTypeOK
    <2>5. Len(rxbuff') <= Buf
      BY <1>1, <2>1, <2>2
    <2> QED
      BY <1>9, <2>2, <2>3, <2>4, <2>5 DEF Copy, StreamKinds, StreamTypeOK, sending
  <1>10. CASE RecvEnds
    BY <1>10 DEF RecvEnds, StreamKinds, StreamTypeOK, sending
  <1>11. CASE Breaks
    <2>1. PICK k \in 0 .. Len(wire) : wire' = SubSeq(wire, 1, k)
      BY <1>11 DEF Breaks
    <2>2. wire' \in Seq(Char) /\ Len(wire') = k
      BY <1>1, <2>1, CutInTwo
    <2>3. Len(wire') <= Socket
      BY <1>1, <2>2
    <2> QED
      BY <1>11, <2>2, <2>3 DEF Breaks, StreamKinds, StreamTypeOK, sending, receiving
  <1>12. CASE UNCHANGED streamVars
    BY <1>12 DEF streamVars, StreamKinds, StreamTypeOK
  <1> QED
    BY <1>2, <1>3, <1>4, <1>5, <1>6, <1>7, <1>8, <1>9, <1>10, <1>11, <1>12 DEF StreamNext, Receiver

\* The buffers of both ends, and what the socket holds, stay within their sizes.
THEOREM StreamTypes == StreamSpec => []StreamTypeOK
  <1>1. StreamInit => StreamKinds
    BY StreamTypeInit
  <1>2. StreamKinds /\ [StreamNext]_streamVars => StreamKinds'
    BY StreamTypeStep
  <1>3. StreamKinds => StreamTypeOK
    BY DEF StreamKinds
  <1> QED
    BY <1>1, <1>2, <1>3, PTL DEF StreamSpec

-----------------------------------------------------------------------------
(* The stream: what arrives.                                               *)


LEMMA Regrouped ==
    \A s, t, u \in Seq(Char) : (s \o t) \o u = s \o (t \o u)
  <1> TAKE s, t, u \in Seq(Char)
  <1> QED
    BY ConcatAssociative

LEMMA AllRegroup == \A s, t, u \in Seq(Char) : Regroups(s, t, u)
  BY Regrouped DEF Regroups

\* What was printed; what has been read of the line in progress; what has left
\* the sender.
Flow == FlattenSeq(printed)
Begun == IF receiver = "idle" THEN <<>> ELSE text
CameOut == FlattenSeq(received) \o Begun \o rxbuff \o wire

LEMMA Arrives ==
    LinesArrive <=> IF broken THEN IsPrefix(CameOut, Flow) ELSE CameOut \o txbuff = Flow
  BY DEF LinesArrive, CameOut, Begun, Flow

LEMMA ArrivesNext ==
    LinesArrive' <=> IF broken' THEN IsPrefix(CameOut', Flow') ELSE CameOut' \o txbuff' = Flow'
  BY DEF LinesArrive, CameOut, Begun, Flow

LEMMA FlowTypes ==
    ASSUME StreamKinds
    PROVE  /\ Flow \in Seq(Char) /\ Begun \in Seq(Char) /\ FlattenSeq(received) \in Seq(Char)
           /\ FlattenSeq(received) \o Begun \in Seq(Char)
           /\ FlattenSeq(received) \o Begun \o rxbuff \in Seq(Char)
           /\ CameOut \in Seq(Char)
           /\ txbuff \in Seq(Char) /\ rxbuff \in Seq(Char) /\ wire \in Seq(Char) /\ text \in Seq(Char)
           /\ printed \in Seq(Seq(Char)) /\ received \in Seq(Seq(Char))
  <1>1. /\ txbuff \in Seq(Char) /\ rxbuff \in Seq(Char) /\ wire \in Seq(Char) /\ text \in Seq(Char)
        /\ printed \in Seq(Seq(Char)) /\ received \in Seq(Seq(Char))
    BY DEF StreamKinds, StreamTypeOK
  <1>2. Flow \in Seq(Char) /\ FlattenSeq(received) \in Seq(Char)
    BY <1>1, FlattenSeqType DEF Flow
  <1>3. Begun \in Seq(Char)
    BY <1>1, EmptySeq DEF Begun
  <1>4. FlattenSeq(received) \o Begun \in Seq(Char)
    BY <1>2, <1>3, ConcatProperties
  <1>5. FlattenSeq(received) \o Begun \o rxbuff \in Seq(Char)
    BY <1>1, <1>4, ConcatProperties
  <1>6. CameOut \in Seq(Char)
    BY <1>1, <1>5, ConcatProperties DEF CameOut
  <1> QED
    BY <1>1, <1>2, <1>3, <1>4, <1>5, <1>6

\* The receiver's side stays as it is.
LEMMA SameArrived ==
    ASSUME UNCHANGED <<wire, receiving>>
    PROVE  CameOut' = CameOut /\ Begun' = Begun
  BY DEF CameOut, Begun, receiving

\* Something is printed, and goes behind what waits to be sent.
LEMMA MorePrinted ==
    ASSUME StreamKinds, LinesArrive, NEW m \in Seq(Char),
           printed' = Append(printed, m), txbuff' = txbuff \o m,
           UNCHANGED <<wire, broken, receiving>>
    PROVE  LinesArrive' /\ Flow' = Flow \o m
  <1>1. Flow' = Flow \o m
    BY FlowTypes, FlattenSeqAppend DEF Flow
  <1>2. CameOut' = CameOut
    BY SameArrived
  <1>3. CASE broken
    <2>1. IsPrefix(CameOut, Flow)
      BY <1>3, Arrives
    <2>2. IsPrefix(CameOut, Flow \o m)
      BY <2>1, FlowTypes, PrefixLonger
    <2> QED
      BY <1>1, <1>2, <1>3, <2>2, ArrivesNext
  <1>4. CASE ~broken
    <2>1. CameOut \o txbuff = Flow
      BY <1>4, Arrives
    <2>3. CameOut \in Seq(Char) /\ txbuff \in Seq(Char)
      BY FlowTypes
    <2>2. (CameOut \o txbuff) \o m = CameOut \o (txbuff \o m)
      BY <2>3, Regrouped, Zenon
    <2> QED
      BY <1>1, <1>2, <1>4, <2>1, <2>2, ArrivesNext
  <1> QED
    BY <1>1, <1>3, <1>4

\* Nothing is printed, and what has arrived and waits is as before, in all.
LEMMA SameInAll ==
    ASSUME LinesArrive, UNCHANGED <<txbuff, printed, broken>>, CameOut' = CameOut
    PROVE  LinesArrive' /\ Flow' = Flow
  BY Arrives, ArrivesNext DEF Flow

LEMMA SendArrives ==
    ASSUME StreamKinds, LinesArrive, SsSend
    PROVE  LinesArrive' /\ Flow' = Flow
  <1>1. PICK k \in 1 .. Len(txbuff) :
          wire' = wire \o SubSeq(txbuff, 1, k) /\ txbuff' = SubSeq(txbuff, k + 1, Len(txbuff))
    BY DEF SsSend
  <1> DEFINE a == SubSeq(txbuff, 1, k)
  <1> DEFINE b == SubSeq(txbuff, k + 1, Len(txbuff))
  <1> DEFINE r == FlattenSeq(received) \o Begun \o rxbuff
  <1>2. a \in Seq(Char) /\ b \in Seq(Char) /\ a \o b = txbuff
    <2>1. k \in 0 .. Len(txbuff)
      BY FlowTypes, LenProperties
    <2> QED
      BY <2>1, FlowTypes, CutInTwo
  <1>3. r \in Seq(Char) /\ wire \in Seq(Char) /\ CameOut = r \o wire /\ CameOut \in Seq(Char)
    BY FlowTypes DEF CameOut
  <1>4. CameOut' = r \o (wire \o a)
    BY <1>1 DEF SsSend, receiving, CameOut, Begun
  <1>5. txbuff' = b /\ ~broken /\ ~broken' /\ Flow' = Flow
    BY <1>1 DEF SsSend, Flow
  <1> HIDE DEF a, b, r
  <1>10. a \in Seq(Char) /\ b \in Seq(Char) /\ r \in Seq(Char) /\ wire \in Seq(Char) /\ CameOut \in Seq(Char)
    BY <1>2, <1>3
  <1>11. (r \o wire) \o a = r \o (wire \o a)
    <2>1. r \in Seq(Char) /\ wire \in Seq(Char) /\ a \in Seq(Char)
      BY <1>10
    <2> QED
      BY ONLY <2>1, Regrouped
  <1>6. CameOut' = CameOut \o a
    BY <1>3, <1>4, <1>11
  <1>7. (CameOut \o a) \o b = CameOut \o (a \o b)
    BY ONLY <1>10, Regrouped
  <1>8. CameOut \o txbuff = Flow
    BY <1>5, Arrives
  <1>9. CameOut' \o txbuff' = Flow'
    BY <1>2, <1>5, <1>6, <1>7, <1>8
  <1> QED
    BY <1>5, <1>9, ArrivesNext

LEMMA RecvArrives ==
    ASSUME StreamKinds, LinesArrive, Recv
    PROVE  LinesArrive' /\ Flow' = Flow
  <1>1. PICK k \in 1 .. Len(wire) : rxbuff' = SubSeq(wire, 1, k) /\ wire' = SubSeq(wire, k + 1, Len(wire))
    BY DEF Recv
  <1> DEFINE q == FlattenSeq(received) \o Begun
  <1>2. rxbuff' \in Seq(Char) /\ wire' \in Seq(Char) /\ rxbuff' \o wire' = wire
    <2>1. k \in 0 .. Len(wire)
      BY FlowTypes, LenProperties
    <2> QED
      BY <1>1, <2>1, FlowTypes, CutInTwo
  <1>3. q \in Seq(Char) /\ rxbuff = <<>> /\ CameOut = (q \o rxbuff) \o wire
    BY FlowTypes DEF CameOut, Recv
  <1>4. CameOut' = (q \o rxbuff') \o wire'
    BY DEF Recv, CameOut, Begun
  <1> HIDE DEF q
  <1>5. q \o <<>> = q
    BY <1>3, ConcatEmptySeq
  <1>6. (q \o rxbuff') \o wire' = q \o (rxbuff' \o wire')
    BY <1>2, <1>3, Regrouped
  <1>7. CameOut' = CameOut
    BY <1>2, <1>3, <1>4, <1>5, <1>6
  <1> QED
    BY <1>7, SameInAll DEF Recv, sending

LEMMA BreakArrives ==
    ASSUME StreamKinds, LinesArrive, Breaks
    PROVE  LinesArrive' /\ Flow' = Flow
  <1>1. PICK k \in 0 .. Len(wire) : wire' = SubSeq(wire, 1, k)
    BY DEF Breaks
  <1> DEFINE r == FlattenSeq(received) \o Begun \o rxbuff
  <1> DEFINE b == SubSeq(wire, k + 1, Len(wire))
  <1>2. wire' \in Seq(Char) /\ b \in Seq(Char) /\ wire' \o b = wire
    BY <1>1, FlowTypes, CutInTwo
  <1>3. r \in Seq(Char) /\ CameOut = r \o wire /\ CameOut \in Seq(Char)
    BY FlowTypes DEF CameOut
  <1>4. CameOut' = r \o wire' /\ Flow' = Flow /\ ~broken /\ broken'
    BY DEF Breaks, sending, receiving, CameOut, Begun, Flow
  <1>5. CameOut \o txbuff = Flow
    BY <1>4, Arrives
  <1>6. IsPrefix(CameOut, Flow)
    BY <1>3, <1>5, FlowTypes, PrefixOfConcat
  <1> HIDE DEF r, b
  <1>10. r \in Seq(Char) /\ wire' \in Seq(Char) /\ b \in Seq(Char)
    BY <1>2, <1>3
  <1>9. (r \o wire') \o b = r \o (wire' \o b)
    BY ONLY <1>10, Regrouped
  <1>7. (r \o wire') \o b = CameOut /\ r \o wire' \in Seq(Char)
    BY <1>2, <1>3, <1>9, ConcatProperties
  <1>8. IsPrefix(r \o wire', Flow)
    BY <1>2, <1>6, <1>7, FlowTypes, PrefixShorter
  <1> QED
    BY <1>4, <1>8, ArrivesNext

\* No more than Longest characters up to a newline.
ShortLines(f) ==
    \A j \in 1 .. Len(f), i \in 1 .. Len(f) :
        i <= j /\ (\A k \in i .. j - 1 : f[k] # "nl") => j - i + 1 <= Longest

\* All lines that m ends are short.
FitsLines(m) == \A n \in 1 .. Len(m) : Len(LastLine(SubSeq(m, 1, n))) <= Longest

StreamInv ==
    /\ StreamKinds
    /\ sender = "full" => msg \in Messages /\ FitsLines(msg)
    /\ LinesArrive
    /\ ShortLines(Flow)
    /\ receiver # "idle" => \A i \in 1 .. Len(text) : text[i] # "nl"
    /\ NoOverrun

LEMMA LastLineIs ==
    ASSUME StreamKinds, NEW s \in Seq(Char), NEW c, c = Flow \o s, s # <<>>,
           NEW i \in 1 .. Len(c), \A k \in i .. Len(c) - 1 : c[k] # "nl"
    PROVE  Len(c) - i + 1 <= Len(LastLine(s))
  <1>1. c \in Seq(Char) /\ Len(c) \in Nat /\ Len(c) > 0
    <2>1. Flow \in Seq(Char)
      BY FlowTypes
    <2>2. c \in Seq(Char) /\ Len(c) = Len(Flow) + Len(s)
      BY <2>1, ConcatProperties
    <2> QED
      BY <2>1, <2>2, LenProperties
  <1> DEFINE d == SubSeq(c, 1, Len(c) - 1)
  <1> DEFINE nl == SelectLastInSeq(d, LAMBDA x : x = "nl")
  <1>2. d \in Seq(Char) /\ Len(d) = Len(c) - 1 /\ \A k \in 1 .. Len(c) - 1 : d[k] = c[k]
    <2>1. Len(c) - 1 \in 0 .. Len(c)
      BY <1>1
    <2> QED
      BY <1>1, <2>1, CutInTwo
  <1>3. LastLine(s) = SubSeq(c, nl + 1, Len(c))
    BY DEF LastLine, Flow
  <1> HIDE DEF d
  <1>4. nl \in 0 .. Len(d) /\ (nl # 0 => d[nl] = "nl")
    BY <1>2, LastNewline
  <1> HIDE DEF nl
  <1>5. nl \in 0 .. Len(c) - 1 /\ (nl # 0 => c[nl] = "nl")
    BY <1>1, <1>2, <1>4
  <1>6. nl < i
    BY <1>1, <1>5
  <1>7. Len(LastLine(s)) = Len(c) - nl
    <2>1. nl + 1 \in 1 .. Len(c) + 1 /\ Len(c) \in (nl + 1) - 1 .. Len(c)
      BY <1>1, <1>5
    <2>2. Len(SubSeq(c, nl + 1, Len(c))) = Len(c) - (nl + 1) + 1
      BY <1>1, <2>1, Cut
    <2> QED
      BY <1>1, <1>3, <1>5, <2>2
  <1> QED
    BY <1>1, <1>5, <1>6, <1>7

LEMMA StaysShort ==
    ASSUME StreamKinds, NEW m \in Seq(Char), FitsLines(m), ShortLines(Flow)
    PROVE  ShortLines(Flow \o m)
  <1> DEFINE f == Flow \o m
  <1>1. /\ Flow \in Seq(Char) /\ Len(Flow) \in Nat /\ Len(m) \in Nat
        /\ f \in Seq(Char) /\ Len(f) = Len(Flow) + Len(m)
        /\ \A i \in 1 .. Len(Flow) + Len(m) : f[i] = IF i <= Len(Flow) THEN Flow[i] ELSE m[i - Len(Flow)]
    BY FlowTypes, LenProperties, ConcatProperties
  <1> HIDE DEF f
  <1> SUFFICES ASSUME NEW j \in 1 .. Len(f), NEW i \in 1 .. Len(f), i <= j,
                      \A k \in i .. j - 1 : f[k] # "nl"
               PROVE  j - i + 1 <= Longest
    BY DEF ShortLines, f
  <1>2. CASE j <= Len(Flow)
    <2>1. j \in 1 .. Len(Flow) /\ i \in 1 .. Len(Flow)
      BY <1>1, <1>2
    <2>2. ASSUME NEW k \in i .. j - 1
          PROVE  Flow[k] # "nl"
      <3>1. k \in 1 .. Len(Flow) + Len(m) /\ k <= Len(Flow)
        BY <1>1, <2>1
      <3> QED
        BY <1>1, <3>1
    <2> QED
      BY <2>1, <2>2 DEF ShortLines
  <1>3. CASE j > Len(Flow)
    <2> DEFINE n == j - Len(Flow)
    <2> DEFINE s == SubSeq(m, 1, n)
    <2> DEFINE c == Flow \o s
    <2>1. n \in 1 .. Len(m) /\ n \in 0 .. Len(m) /\ n > 0
      BY <1>1, <1>3
    <2>2. s \in Seq(Char) /\ Len(s) = n /\ \A k \in 1 .. n : s[k] = m[k]
      BY <2>1, CutInTwo
    <2>3. Len(LastLine(s)) <= Longest
      BY <2>1 DEF FitsLines
    <2> HIDE DEF s
    <2>4. /\ Len(c) = Len(Flow) + Len(s)
          /\ \A k \in 1 .. Len(Flow) + Len(s) : c[k] = IF k <= Len(Flow) THEN Flow[k] ELSE s[k - Len(Flow)]
      BY <1>1, <2>2, ConcatProperties
    <2>5. c \in Seq(Char) /\ s # <<>>
      BY <1>1, <2>1, <2>2, ConcatProperties, EmptySeq
    <2>6. Len(c) = j
      BY <1>1, <2>1, <2>2, <2>4
    <2>7. ASSUME NEW k \in i .. Len(c) - 1
          PROVE  c[k] # "nl"
      <3>1. k \in 1 .. Len(Flow) + Len(s) /\ k \in 1 .. Len(Flow) + Len(m) /\ k \in i .. j - 1
        BY <1>1, <2>1, <2>2, <2>6
      <3>2. CASE k <= Len(Flow)
        BY <1>1, <2>4, <3>1, <3>2
      <3>3. CASE ~(k <= Len(Flow))
        <4>1. k - Len(Flow) \in 1 .. n
          BY <1>1, <2>6, <3>1, <3>3
        <4>2. c[k] = s[k - Len(Flow)] /\ f[k] = m[k - Len(Flow)]
          BY <1>1, <2>4, <3>1, <3>3
        <4> QED
          BY <2>2, <3>1, <4>1, <4>2
      <3> QED
        BY <3>2, <3>3
    <2> HIDE DEF c
    <2>8. i \in 1 .. Len(c) /\ c = Flow \o s
      BY <2>6 DEF c
    <2>9. Len(c) - i + 1 <= Len(LastLine(s))
      BY <2>2, <2>5, <2>7, <2>8, LastLineIs
    <2>10. Len(LastLine(s)) \in Nat /\ Longest \in Nat
      <3>1. LastLine(s) \in Seq(Char)
        <4> DEFINE nl == SelectLastInSeq(SubSeq(c, 1, Len(c) - 1), LAMBDA x : x = "nl")
        <4>1. Len(c) - 1 \in 0 .. Len(c)
          BY <1>1, <2>6
        <4>2. SubSeq(c, 1, Len(c) - 1) \in Seq(Char) /\ Len(SubSeq(c, 1, Len(c) - 1)) = Len(c) - 1
          BY <2>5, <4>1, CutInTwo
        <4>3. nl \in 0 .. Len(c) - 1
          BY <4>2, LastNewline
        <4>4. LastLine(s) = SubSeq(c, nl + 1, Len(c))
          BY <2>8 DEF LastLine, Flow
        <4> HIDE DEF nl
        <4>5. nl \in 0 .. Len(c)
          BY <1>1, <2>6, <4>3
        <4> QED
          BY <2>5, <4>4, <4>5, CutInTwo
      <3> QED
        BY <3>1, LenProperties, StreamAssumption
    <2> QED
      BY <1>1, <2>3, <2>6, <2>9, <2>10
  <1> QED
    BY <1>1, <1>2, <1>3

\* Characters of the stream behind each other, without a newline before the last.
LEMMA PieceShort ==
    ASSUME StreamKinds, ShortLines(Flow), NEW p \in Seq(Char), NEW q \in Seq(Char),
           IsPrefix(p \o q, Flow), \A i \in 1 .. Len(q) - 1 : q[i] # "nl"
    PROVE  Len(q) <= Longest
  <1> DEFINE c == p \o q
  <1>1. /\ Flow \in Seq(Char) /\ Len(Flow) \in Nat /\ Len(p) \in Nat /\ Len(q) \in Nat
        /\ c \in Seq(Char) /\ Len(c) = Len(p) + Len(q)
        /\ \A i \in 1 .. Len(p) + Len(q) : c[i] = IF i <= Len(p) THEN p[i] ELSE q[i - Len(p)]
    BY FlowTypes, LenProperties, ConcatProperties
  <1>5. IsPrefix(c, Flow) /\ c \in Seq(Char) /\ Flow \in Seq(Char)
    BY <1>1
  <1> HIDE DEF c
  <1>2. Len(c) <= Len(Flow) /\ \A i \in 1 .. Len(c) : c[i] = Flow[i]
    BY <1>5, PrefixIs
  <1>3. CASE Len(q) = 0
    BY <1>3, StreamAssumption
  <1>4. CASE Len(q) > 0
    <2> DEFINE j == Len(p) + Len(q)
    <2> DEFINE i == Len(p) + 1
    <2>1. j \in 1 .. Len(Flow) /\ i \in 1 .. Len(Flow) /\ i <= j
      BY <1>1, <1>2, <1>4
    <2>2. ASSUME NEW k \in i .. j - 1
          PROVE  Flow[k] # "nl"
      <3>1. k \in 1 .. Len(p) + Len(q) /\ k \in 1 .. Len(c) /\ ~(k <= Len(p)) /\ k - Len(p) \in 1 .. Len(q) - 1
        BY <1>1
      <3>2. c[k] = q[k - Len(p)]
        BY <1>1, <3>1
      <3> QED
        BY <1>2, <3>1, <3>2
    <2> HIDE DEF i, j
    <2>3. j - i + 1 <= Longest
      BY <2>1, <2>2 DEF ShortLines
    <2> QED
      BY <1>1, <2>3 DEF i, j
  <1> QED
    BY <1>1, <1>3, <1>4

LEMMA PrefixNow ==
    ASSUME StreamKinds, LinesArrive
    PROVE  IsPrefix(CameOut, Flow)
  <1>1. CameOut \in Seq(Char) /\ txbuff \in Seq(Char)
    BY FlowTypes
  <1>2. CASE broken
    BY <1>2, Arrives
  <1>3. CASE ~broken
    <2>1. CameOut \o txbuff = Flow
      BY <1>3, Arrives
    <2> QED
      BY <1>1, <2>1, PrefixOfConcat
  <1> QED
    BY <1>2, <1>3

\* ss_gets copies: the line gets longer by what it takes from the buffer, and
\* is a part of the stream.
LEMMA Copied ==
    ASSUME StreamInv, Copy
    PROVE  /\ LinesArrive' /\ Flow' = Flow
           /\ Len(text') <= Longest
           /\ receiver' # "idle" => \A i \in 1 .. Len(text') : text'[i] # "nl"
  <1> DEFINE nl == SelectInSeq(rxbuff, LAMBDA c : c = "nl")
  <1> DEFINE cnt == IF nl # 0 THEN nl ELSE Len(rxbuff)
  <1> DEFINE h == SubSeq(rxbuff, 1, cnt)
  <1> DEFINE b == SubSeq(rxbuff, cnt + 1, Len(rxbuff))
  <1> DEFINE F == FlattenSeq(received)
  <1>1. /\ StreamKinds /\ F \in Seq(Char) /\ text \in Seq(Char) /\ rxbuff \in Seq(Char)
        /\ wire \in Seq(Char) /\ received \in Seq(Seq(Char)) /\ Len(rxbuff) \in Nat /\ Len(text) \in Nat
        /\ CameOut \in Seq(Char)
    BY FlowTypes, LenProperties DEF StreamInv
  <1>2. /\ nl \in 0 .. Len(rxbuff)
        /\ nl = 0 => \A i \in 1 .. Len(rxbuff) : rxbuff[i] # "nl"
        /\ nl # 0 => rxbuff[nl] = "nl" /\ \A i \in 1 .. nl - 1 : rxbuff[i] # "nl"
    BY <1>1, FirstNewline
  <1>3. /\ text' = text \o h /\ rxbuff' = b /\ receiver = "gets"
        /\ \/ receiver' = "idle" /\ received' = Append(received, text')
           \/ nl = 0 /\ UNCHANGED <<receiver, received>>
        /\ UNCHANGED <<wire, broken, sending>>
    BY DEF Copy
  <1> HIDE DEF nl
  <1>4. cnt \in 0 .. Len(rxbuff)
    BY <1>1, <1>2
  <1>5. \A i \in 1 .. cnt : rxbuff[i] = "nl" => i = cnt /\ nl # 0
    BY <1>1, <1>2
  <1> HIDE DEF cnt
  <1>6. /\ h \in Seq(Char) /\ Len(h) = cnt /\ b \in Seq(Char) /\ h \o b = rxbuff
        /\ \A i \in 1 .. cnt : h[i] = rxbuff[i]
    BY <1>1, <1>4, CutInTwo
  <1>7. CameOut = F \o text \o rxbuff \o wire
    BY <1>3 DEF CameOut, Begun
  <1> HIDE DEF h, b
  <1> DEFINE t == text \o h
  <1>8. /\ t \in Seq(Char) /\ Len(t) = Len(text) + cnt
        /\ \A i \in 1 .. Len(text) + cnt : t[i] = IF i <= Len(text) THEN text[i] ELSE h[i - Len(text)]
    BY <1>1, <1>6, ConcatProperties
  <1>9. \A i \in 1 .. Len(t) : t[i] = "nl" => i = Len(t) /\ nl # 0
    <2> SUFFICES ASSUME NEW i \in 1 .. Len(t), t[i] = "nl"
                 PROVE  i = Len(t) /\ nl # 0
      OBVIOUS
    <2>1. i \in 1 .. Len(text) + cnt
      BY <1>8
    <2>2. \A k \in 1 .. Len(text) : text[k] # "nl"
      BY <1>3 DEF StreamInv
    <2>3. ~(i <= Len(text))
      BY <1>1, <1>8, <2>1, <2>2
    <2>4. i - Len(text) \in 1 .. cnt
      BY <1>1, <1>4, <2>1, <2>3
    <2>5. rxbuff[i - Len(text)] = "nl"
      BY <1>6, <1>8, <2>1, <2>3, <2>4
    <2> QED
      BY <1>1, <1>4, <1>5, <1>8, <2>4, <2>5
  <1>10. F \o text \in Seq(Char) /\ F \o t \in Seq(Char) /\ (F \o t) \o b \in Seq(Char)
    <2>1. F \o text \in Seq(Char) /\ F \o t \in Seq(Char)
      BY <1>1, <1>8, ConcatProperties
    <2> QED
      BY <1>6, <2>1, ConcatProperties
  <1>11. (F \o t) \o b = (F \o text) \o rxbuff
    <2> HIDE DEF F
    <2>1. F \in Seq(Char) /\ text \in Seq(Char) /\ h \in Seq(Char) /\ b \in Seq(Char) /\ F \o text \in Seq(Char)
      BY <1>1, <1>6, <1>10
    <2>2. (F \o text) \o h = F \o (text \o h)
      <3>1. F \in Seq(Char) /\ text \in Seq(Char) /\ h \in Seq(Char)
        BY <2>1
      <3> QED
        BY ONLY <3>1, Regrouped
    <2>3. ((F \o text) \o h) \o b = (F \o text) \o (h \o b)
      <3>1. F \o text \in Seq(Char) /\ h \in Seq(Char) /\ b \in Seq(Char)
        BY <2>1
      <3> QED
        BY ONLY <3>1, Regrouped
    <2> QED
      BY <1>6, <2>2, <2>3
  <1>12. text' = t /\ CameOut' = CameOut
    <2>1. text' = t
      BY <1>3
    <2>2. CameOut = ((F \o t) \o b) \o wire
      BY <1>7, <1>11
    <2> HIDE DEF t
    <2>3. CASE receiver' = "idle" /\ received' = Append(received, text')
      <3>1. FlattenSeq(Append(received, t)) = F \o t
        BY <1>1, <1>8, FlattenSeqAppend
      <3>2. Begun' = <<>> /\ FlattenSeq(received)' = F \o t
        BY <2>1, <2>3, <3>1 DEF Begun
      <3>3. CameOut' = (((F \o t) \o <<>>) \o b) \o wire
        BY <1>3, <3>2 DEF CameOut
      <3>4. (F \o t) \o <<>> = F \o t
        BY <1>10, ConcatEmptySeq
      <3> QED
        BY <2>1, <2>2, <3>3, <3>4
    <2>4. CASE UNCHANGED <<receiver, received>>
      <3>1. Begun' = t /\ FlattenSeq(received)' = F
        BY <1>3, <2>1, <2>4 DEF Begun
      <3> QED
        BY <1>3, <2>1, <2>2, <3>1 DEF CameOut
    <2> QED
      BY <1>3, <2>3, <2>4
  <1>13. LinesArrive' /\ Flow' = Flow
    BY <1>3, <1>12, SameInAll DEF StreamInv, sending
  <1>14. Len(t) <= Longest
    <2>1. IsPrefix(CameOut, Flow) /\ ShortLines(Flow) /\ Flow \in Seq(Char)
      BY <1>1, PrefixNow, FlowTypes DEF StreamInv
    <2>2. CameOut = ((F \o t) \o b) \o wire
      BY <1>7, <1>11
    <2> HIDE DEF t, F
    <2>3. IsPrefix((F \o t) \o b, Flow)
      BY <1>1, <1>10, <2>1, <2>2, PrefixShorter
    <2>4. IsPrefix(F \o t, Flow)
      BY <1>6, <1>10, <2>1, <2>3, PrefixShorter
    <2>5. \A i \in 1 .. Len(t) - 1 : t[i] # "nl"
      BY <1>1, <1>4, <1>8, <1>9
    <2> QED
      BY <1>1, <1>8, <2>1, <2>4, <2>5, PieceShort
  <1>15. receiver' # "idle" => \A i \in 1 .. Len(t) : t[i] # "nl"
    BY <1>3, <1>9
  <1> HIDE DEF t
  <1> QED
    BY <1>12, <1>13, <1>14, <1>15

\* Nothing that is printed is too long for the buffer (ss_printf drops that, and
\* returns 0), a va_list that was used can be used again, and ss_gets has room
\* for the longest line.
Usable == (\A m \in Messages : Len(m) < Buf) /\ VaList = "copied" /\ Longest <= Buf

LEMMA StreamInvInit == Usable /\ StreamInit => StreamInv
  <1> SUFFICES ASSUME Usable, StreamInit
               PROVE  StreamInv
    OBVIOUS
  <1>1. StreamKinds
    BY StreamTypeInit
  <1>2. <<>> \in Seq(Char) /\ Len(<<>>) = 0 /\ <<>> \in Seq(Seq(Char)) /\ <<>> \o <<>> = <<>>
    BY EmptySeq, ConcatEmptySeq
  <1>3. FlattenSeq(<<>>) = <<>>
    BY <1>2 DEF FlattenSeq
  <1>4. Flow = <<>> /\ CameOut = <<>> \o <<>> \o <<>> \o <<>>
    BY <1>3 DEF StreamInit, Flow, CameOut, Begun
  <1>5. LinesArrive
    BY <1>2, <1>4, Arrives DEF StreamInit
  <1>6. ShortLines(Flow)
    BY <1>2, <1>4 DEF ShortLines
  <1>7. NoOverrun
    BY <1>2, StreamAssumption DEF StreamInit, NoOverrun
  <1> QED
    BY <1>1, <1>5, <1>6, <1>7 DEF StreamInv, StreamInit

LEMMA StreamInvStep ==
    ASSUME Usable, StreamInv, [StreamNext]_streamVars
    PROVE  StreamInv'
  <1>1. StreamKinds /\ StreamKinds'
    BY StreamTypeStep DEF StreamInv
  <1> SUFFICES /\ (sender = "full" => msg \in Messages /\ FitsLines(msg))'
               /\ LinesArrive' /\ ShortLines(Flow)'
               /\ (receiver # "idle" => \A i \in 1 .. Len(text) : text[i] # "nl")'
               /\ NoOverrun'
    BY <1>1 DEF StreamInv
  <1>2. /\ LinesArrive /\ ShortLines(Flow) /\ NoOverrun
        /\ sender = "full" => msg \in Messages /\ FitsLines(msg)
        /\ receiver # "idle" => \A i \in 1 .. Len(text) : text[i] # "nl"
    BY DEF StreamInv
  <1>3. ASSUME Flow' = Flow
        PROVE  ShortLines(Flow)'
    BY <1>2, <1>3 DEF ShortLines
  <1>4. ASSUME UNCHANGED receiving
        PROVE  /\ (receiver # "idle" => \A i \in 1 .. Len(text) : text[i] # "nl")'
               /\ NoOverrun'
    BY <1>2, <1>4 DEF receiving, NoOverrun
  <1>5. ASSUME UNCHANGED printed
        PROVE  FitsLines(msg)' <=> FitsLines(msg')
    <2>1. FlattenSeq(printed') = FlattenSeq(printed)
      BY <1>5
    <2> QED
      BY <2>1 DEF FitsLines, LastLine, SelectLastInSeq
  <1>6. ASSUME UNCHANGED sending
        PROVE  (sender = "full" => msg \in Messages /\ FitsLines(msg))'
    BY <1>2, <1>5, <1>6 DEF sending
  <1>7. ASSUME NEW m \in Messages, Printf(m)
        PROVE  /\ (sender = "full" => msg \in Messages /\ FitsLines(msg))'
               /\ LinesArrive' /\ ShortLines(Flow)'
    <2>1. m \in Seq(Char) /\ FitsLines(m)
      BY <1>7, MessageIs DEF Printf, FitsLines
    <2>2. CASE /\ txbuff' = txbuff \o m /\ printed' = Append(printed, m)
               /\ UNCHANGED <<sender, msg>>
      <3>1. LinesArrive' /\ Flow' = Flow \o m
        BY <1>1, <1>2, <1>7, <2>1, <2>2, MorePrinted DEF Printf
      <3>2. ShortLines(Flow \o m)
        BY <1>1, <1>2, <2>1, StaysShort
      <3>3. ShortLines(Flow)'
        BY <3>1, <3>2 DEF ShortLines
      <3>4. sender' = "idle"
        BY <1>7, <2>2 DEF Printf
      <3> QED
        BY <3>1, <3>3, <3>4
    <2>3. CASE sender' = "full" /\ msg' = m /\ UNCHANGED <<txbuff, printed>>
      <3>1. CameOut' = CameOut
        BY <1>7, SameArrived DEF Printf
      <3>2. LinesArrive' /\ Flow' = Flow
        BY <1>2, <1>7, <2>3, <3>1, SameInAll DEF Printf
      <3>3. FitsLines(msg)' /\ msg' \in Messages
        BY <1>5, <2>1, <2>3
      <3> QED
        BY <1>3, <3>2, <3>3
    <2> QED
      BY <1>7, <2>2, <2>3 DEF Printf
  <1>8. CASE \E m \in Messages : Printf(m)
    <2>1. UNCHANGED receiving
      BY <1>8 DEF Printf
    <2> QED
      BY <1>4, <1>7, <1>8, <2>1
  <1>9. CASE SsFlush \/ SendFails
    <2>1. CameOut' = CameOut /\ UNCHANGED <<receiving, txbuff, printed, broken>> /\ sender' # "full"
      BY <1>9, SameArrived DEF SsFlush, SendFails
    <2>2. LinesArrive' /\ Flow' = Flow
      BY <1>2, <2>1, SameInAll
    <2> QED
      BY <1>3, <1>4, <2>1, <2>2
  <1>10. CASE SsSend
    <2>1. LinesArrive' /\ Flow' = Flow
      BY <1>1, <1>2, <1>10, SendArrives
    <2>2. UNCHANGED <<receiving, sender, msg, printed>>
      BY <1>10 DEF SsSend
    <2>3. (sender = "full" => msg \in Messages /\ FitsLines(msg))'
      BY <1>2, <1>5, <2>2
    <2> QED
      BY <1>3, <1>4, <2>1, <2>2, <2>3
  <1>11. CASE Flushed
    <2>1. UNCHANGED <<wire, broken, receiving>> /\ sender' = "idle" /\ txbuff = <<>>
      BY <1>11 DEF Flushed
    <2>2. CASE UNCHANGED <<txbuff, printed>>
      <3>1. CameOut' = CameOut
        BY <2>1, SameArrived
      <3>2. LinesArrive' /\ Flow' = Flow
        BY <1>2, <2>1, <2>2, <3>1, SameInAll
      <3> QED
        BY <1>3, <1>4, <2>1, <3>2
    <2>3. CASE /\ sender = "full"
               /\ \E m \in Reformatted(msg) : txbuff' = IF Fits(m, Buf) THEN m ELSE <<>>
               /\ printed' = Append(printed, msg)
      <3>1. msg \in Messages /\ FitsLines(msg) /\ msg \in Seq(Char)
        BY <1>2, <2>3, MessageIs
      <3>2. txbuff' = msg
        BY <2>3, <3>1 DEF Reformatted, Usable, Fits
      <3>3. txbuff' = txbuff \o msg
        BY <2>1, <3>1, <3>2, ConcatEmptySeq
      <3>4. LinesArrive' /\ Flow' = Flow \o msg
        BY <1>1, <1>2, <2>1, <2>3, <3>1, <3>3, MorePrinted
      <3>5. ShortLines(Flow \o msg)
        BY <1>1, <1>2, <3>1, StaysShort
      <3>6. ShortLines(Flow)'
        BY <3>4, <3>5 DEF ShortLines
      <3> QED
        BY <1>4, <2>1, <3>4, <3>6
    <2> QED
      BY <1>11, <2>2, <2>3 DEF Flushed
  <1>12. CASE Gets
    <2>1. UNCHANGED <<sending, wire, broken, rxbuff, received>> /\ receiver = "idle" /\ text' = <<>>
      BY <1>12 DEF Gets
    <2>2. CameOut' = CameOut
      BY <2>1 DEF CameOut, Begun
    <2>3. LinesArrive' /\ Flow' = Flow
      BY <1>2, <2>1, <2>2, SameInAll DEF sending
    <2>4. Len(text') = 0
      BY <2>1, EmptySeq
    <2>5. NoOverrun'
      BY <2>4, StreamAssumption DEF NoOverrun
    <2> QED
      BY <1>3, <1>6, <2>1, <2>3, <2>4, <2>5
  <1>13. CASE Recv
    <2>1. LinesArrive' /\ Flow' = Flow
      BY <1>1, <1>2, <1>13, RecvArrives
    <2>2. UNCHANGED <<sending, receiver, text>>
      BY <1>13 DEF Recv
    <2>3. NoOverrun'
      BY <1>2, <2>2 DEF NoOverrun
    <2> QED
      BY <1>2, <1>3, <1>6, <2>1, <2>2, <2>3
  <1>14. CASE Copy
    <2>1. /\ LinesArrive' /\ Flow' = Flow /\ Len(text') <= Longest
          /\ receiver' # "idle" => \A i \in 1 .. Len(text') : text'[i] # "nl"
      BY <1>14, Copied
    <2>2. UNCHANGED sending
      BY <1>14 DEF Copy
    <2>3. Len(text') \in Nat /\ Longest \in Nat /\ Buf \in Nat
      <3>1. text' \in Seq(Char)
        BY <1>1 DEF StreamKinds, StreamTypeOK
      <3> QED
        BY <3>1, LenProperties, StreamAssumption
    <2>4. NoOverrun'
      BY <2>1, <2>3 DEF NoOverrun, Usable
    <2> QED
      BY <1>3, <1>6, <2>1, <2>2, <2>4
  <1>15. CASE RecvEnds
    <2>1. UNCHANGED <<sending, wire, broken, rxbuff, text, received>> /\ receiver = "gets" /\ receiver' # "idle"
      BY <1>15 DEF RecvEnds
    <2>2. CameOut' = CameOut
      BY <2>1 DEF CameOut, Begun
    <2>3. LinesArrive' /\ Flow' = Flow
      BY <1>2, <2>1, <2>2, SameInAll DEF sending
    <2>4. NoOverrun'
      BY <1>2, <2>1 DEF NoOverrun
    <2> QED
      BY <1>2, <1>3, <1>6, <2>1, <2>3, <2>4
  <1>16. CASE Breaks
    <2>1. LinesArrive' /\ Flow' = Flow
      BY <1>1, <1>2, <1>16, BreakArrives
    <2>2. UNCHANGED <<sending, receiving>>
      BY <1>16 DEF Breaks
    <2> QED
      BY <1>3, <1>4, <1>6, <2>1, <2>2
  <1>17. CASE UNCHANGED streamVars
    <2>1. UNCHANGED <<sending, receiving, wire, broken, txbuff, printed>>
      BY <1>17 DEF streamVars, sending, receiving
    <2>2. LinesArrive' /\ Flow' = Flow
      BY <1>2, <2>1, SameArrived, SameInAll
    <2> QED
      BY <1>3, <1>4, <1>6, <2>1, <2>2
  <1> QED
    BY <1>8, <1>9, <1>10, <1>11, <1>12, <1>13, <1>14, <1>15, <1>16, <1>17 DEF StreamNext, Receiver

LEMMA InvStream == ASSUME Usable PROVE StreamSpec => []StreamInv
  <1>1. StreamInit => StreamInv
    BY StreamInvInit
  <1>2. StreamInv /\ [StreamNext]_streamVars => StreamInv'
    BY StreamInvStep
  <1> QED
    BY <1>1, <1>2, PTL DEF StreamSpec

\* Wherever sends and receives cut what was printed, it arrives in order and once,
\* or up to where the connection broke (sockstream.c).
THEOREM InOrder == ASSUME Usable PROVE StreamSpec => []LinesArrive
  <1>1. StreamInv => LinesArrive
    BY DEF StreamInv
  <1> QED
    BY <1>1, InvStream, PTL

\* ss_gets never copies past the end of its caller's buffer.
THEOREM RoomForLines == ASSUME Usable PROVE StreamSpec => []NoOverrun
  <1>1. StreamInv => NoOverrun
    BY DEF StreamInv
  <1> QED
    BY <1>1, InvStream, PTL

-----------------------------------------------------------------------------
(* The stream: a queue of lines.                                           *)

\* What LineQueue has in its queue, as SockStream spells it.
Rest == IF broken THEN <<>> ELSE txbuff
Held == Begun \o rxbuff \o wire \o Rest

LEMMA HeldIs ==
    ASSUME StreamKinds
    PROVE  /\ Begun \in Seq(Char) /\ rxbuff \in Seq(Char) /\ wire \in Seq(Char) /\ Rest \in Seq(Char)
           /\ Begun \o rxbuff \in Seq(Char) /\ Begun \o rxbuff \o wire \in Seq(Char)
           /\ Held \in Seq(Char)
  <1>1. Begun \in Seq(Char) /\ rxbuff \in Seq(Char) /\ wire \in Seq(Char) /\ Rest \in Seq(Char)
    BY FlowTypes, EmptySeq DEF Rest
  <1>2. Begun \o rxbuff \in Seq(Char)
    BY <1>1, ConcatProperties
  <1>3. Begun \o rxbuff \o wire \in Seq(Char)
    BY <1>1, <1>2, ConcatProperties
  <1> QED
    BY <1>1, <1>2, <1>3, ConcatProperties DEF Held

\* What is in front of a sequence, and what is behind that.
LEMMA FrontOf ==
    ASSUME NEW S, NEW p \in Seq(S), NEW q \in Seq(S), NEW s, s = p \o q
    PROVE  /\ SubSeq(s, 1, Len(p)) = p /\ SubSeq(s, Len(p) + 1, Len(s)) = q
           /\ Len(p) \in 0 .. Len(s) /\ \A i \in 1 .. Len(p) : s[i] = p[i]
  <1>1. /\ Len(p) \in Nat /\ Len(q) \in Nat /\ s \in Seq(S) /\ Len(s) = Len(p) + Len(q)
        /\ \A i \in 1 .. Len(p) + Len(q) : s[i] = IF i <= Len(p) THEN p[i] ELSE q[i - Len(p)]
    BY LenProperties, ConcatProperties
  <1>2. Len(p) \in 0 .. Len(s)
    BY <1>1
  <1> DEFINE k == Len(p)
             a == SubSeq(s, 1, k)
             b == SubSeq(s, k + 1, Len(s))
  <1>3. /\ a \in Seq(S) /\ Len(a) = k /\ b \in Seq(S) /\ Len(b) = Len(s) - k
        /\ \A i \in 1 .. k : a[i] = s[i]
    BY <1>1, <1>2, CutInTwo
  <1>4. \A i \in 1 .. Len(s) - k : b[i] = s[k + i]
    <2>1. k + 1 \in 1 .. Len(s) + 1 /\ Len(s) \in (k + 1) - 1 .. Len(s)
      BY <1>1
    <2>2. \A i \in 1 .. Len(s) - (k + 1) + 1 : b[i] = s[(k + 1) + i - 1]
      BY <1>1, <2>1, Cut
    <2>3. \A i \in 1 .. Len(s) - k : i \in 1 .. Len(s) - (k + 1) + 1 /\ (k + 1) + i - 1 = k + i
      BY <1>1
    <2> QED
      BY <2>2, <2>3
  <1>5. a = p
    <2>1. Len(a) = Len(p) /\ \A i \in 1 .. Len(p) : a[i] = p[i]
      BY <1>1, <1>3
    <2> QED
      BY <1>3, <2>1, SeqEqual
  <1>6. b = q
    <2>1. Len(b) = Len(q)
      BY <1>1, <1>3
    <2>2. ASSUME NEW i \in 1 .. Len(q)
          PROVE  b[i] = q[i]
      <3>1. i \in 1 .. Len(s) - k /\ k + i \in 1 .. Len(p) + Len(q) /\ ~(k + i <= Len(p)) /\ (k + i) - Len(p) = i
        BY <1>1
      <3> QED
        BY <1>1, <1>4, <3>1
    <2> QED
      BY <1>3, <2>1, <2>2, SeqEqual
  <1> QED
    BY <1>1, <1>2, <1>5, <1>6


\* Only what the receiver has, and what is between the sides, stays as it is.
LEMMA SameHeld ==
    ASSUME UNCHANGED <<wire, receiving, broken>>, broken \/ UNCHANGED txbuff
    PROVE  UNCHANGED <<Held, broken, received>>
  BY DEF Held, Begun, Rest, receiving

\* A message goes to the end of the queue, or nowhere when the connection is gone.
LEMMA MessageQueued ==
    ASSUME StreamKinds, NEW m \in Seq(Char), ~broken, txbuff' = txbuff \o m,
           UNCHANGED <<wire, receiving, broken>>
    PROVE  Held' = Held \o m
  <1> DEFINE g == Begun \o rxbuff \o wire
  <1>1. g \in Seq(Char) /\ txbuff \in Seq(Char)
    BY HeldIs, FlowTypes
  <1>2. Held = g \o txbuff /\ Held' = g \o (txbuff \o m)
    BY DEF Held, Begun, Rest, receiving
  <1> HIDE DEF g
  <1>3. (g \o txbuff) \o m = g \o (txbuff \o m)
    BY ONLY <1>1, Regrouped
  <1> QED
    BY <1>2, <1>3

\* send moves what is in the queue along it.
LEMMA SendHolds ==
    ASSUME StreamKinds, SsSend
    PROVE  UNCHANGED <<Held, broken, received>>
  <1>1. PICK k \in 1 .. Len(txbuff) :
          wire' = wire \o SubSeq(txbuff, 1, k) /\ txbuff' = SubSeq(txbuff, k + 1, Len(txbuff))
    BY DEF SsSend
  <1> DEFINE a == SubSeq(txbuff, 1, k)
             b == SubSeq(txbuff, k + 1, Len(txbuff))
             g == Begun \o rxbuff
  <1>2. a \in Seq(Char) /\ b \in Seq(Char) /\ a \o b = txbuff
    <2>1. k \in 0 .. Len(txbuff)
      BY FlowTypes, LenProperties
    <2> QED
      BY <2>1, FlowTypes, CutInTwo
  <1>3. g \in Seq(Char) /\ wire \in Seq(Char) /\ g \o wire \in Seq(Char)
    BY HeldIs
  <1>4. Held = (g \o wire) \o (a \o b)
    BY <1>2 DEF SsSend, Held, Rest
  <1>5. Held' = (g \o (wire \o a)) \o b
    BY <1>1 DEF SsSend, receiving, Held, Begun, Rest
  <1> HIDE DEF a, b, g
  <1>6. g \o (wire \o a) = (g \o wire) \o a
    <2>1. g \in Seq(Char) /\ wire \in Seq(Char) /\ a \in Seq(Char)
      BY <1>2, <1>3
    <2> QED
      BY ONLY <2>1, Regrouped
  <1>7. ((g \o wire) \o a) \o b = (g \o wire) \o (a \o b)
    <2>1. g \o wire \in Seq(Char) /\ a \in Seq(Char) /\ b \in Seq(Char)
      BY <1>2, <1>3
    <2> QED
      BY ONLY <2>1, Regrouped
  <1>8. Held' = Held
    BY <1>4, <1>5, <1>6, <1>7
  <1> QED
    BY <1>8 DEF SsSend, receiving

\* So does recv.
LEMMA RecvHolds ==
    ASSUME StreamKinds, Recv
    PROVE  UNCHANGED <<Held, broken, received>>
  <1>1. PICK k \in 1 .. Len(wire) : rxbuff' = SubSeq(wire, 1, k) /\ wire' = SubSeq(wire, k + 1, Len(wire))
    BY DEF Recv
  <1>2. rxbuff' \in Seq(Char) /\ wire' \in Seq(Char) /\ rxbuff' \o wire' = wire
    <2>1. k \in 0 .. Len(wire)
      BY FlowTypes, LenProperties
    <2> QED
      BY <1>1, <2>1, FlowTypes, CutInTwo
  <1>3. Begun \in Seq(Char) /\ Begun \o <<>> = Begun
    BY FlowTypes, ConcatEmptySeq
  <1>4. Begun' = Begun /\ Rest' = Rest /\ rxbuff = <<>> /\ UNCHANGED <<broken, received>>
    BY DEF Recv, Begun, Rest, sending
  <1>5. Begun \o rxbuff \o wire = Begun \o wire
    BY <1>3, <1>4
  <1>6. (Begun \o rxbuff') \o wire' = Begun \o (rxbuff' \o wire')
    BY ONLY <1>2, <1>3, Regrouped
  <1>7. (Begun \o rxbuff \o wire)' = Begun \o rxbuff \o wire
    BY <1>2, <1>4, <1>5, <1>6
  <1> QED
    BY <1>4, <1>7 DEF Held

\* ss_gets copies what is next in the queue, and returns it when that is a line.
LEMMA CopyHolds ==
    ASSUME StreamInv, StreamInv', Copy
    PROVE  Queue!Read \/ UNCHANGED <<Held, broken, received>>
  <1> DEFINE nl == SelectInSeq(rxbuff, LAMBDA c : c = "nl")
  <1> DEFINE cnt == IF nl # 0 THEN nl ELSE Len(rxbuff)
  <1> DEFINE h == SubSeq(rxbuff, 1, cnt)
  <1> DEFINE b == SubSeq(rxbuff, cnt + 1, Len(rxbuff))
  <1>1. /\ StreamKinds /\ text \in Seq(Char) /\ rxbuff \in Seq(Char) /\ wire \in Seq(Char) /\ Rest \in Seq(Char)
        /\ Len(rxbuff) \in Nat /\ Len(text) \in Nat
    BY FlowTypes, HeldIs, LenProperties DEF StreamInv
  <1>2. /\ nl \in 0 .. Len(rxbuff)
        /\ nl = 0 => \A i \in 1 .. Len(rxbuff) : rxbuff[i] # "nl"
        /\ nl # 0 => rxbuff[nl] = "nl" /\ \A i \in 1 .. nl - 1 : rxbuff[i] # "nl"
    BY <1>1, FirstNewline
  <1>3. /\ text' = text \o h /\ rxbuff' = b /\ receiver = "gets" /\ rxbuff # <<>>
        /\ \/ /\ receiver' = "idle" /\ received' = Append(received, text')
              /\ nl # 0 \/ Len(text') >= Buf
           \/ nl = 0 /\ UNCHANGED <<receiver, received>>
        /\ UNCHANGED <<wire, broken, sending>>
    BY DEF Copy
  <1> HIDE DEF nl
  <1>4. cnt \in 0 .. Len(rxbuff) /\ cnt > 0
    <2>1. Len(rxbuff) > 0
      BY <1>1, <1>3, EmptySeq
    <2> QED
      BY <1>1, <1>2, <2>1
  <1>5. /\ \A i \in 1 .. cnt : rxbuff[i] = "nl" => i = cnt
        /\ nl # 0 => rxbuff[cnt] = "nl"
    BY <1>1, <1>2
  <1> HIDE DEF cnt
  <1>6. /\ h \in Seq(Char) /\ Len(h) = cnt /\ b \in Seq(Char) /\ h \o b = rxbuff
        /\ \A i \in 1 .. cnt : h[i] = rxbuff[i]
    BY <1>1, <1>4, CutInTwo
  <1>7. Held = text \o rxbuff \o wire \o Rest /\ Rest' = Rest
    BY <1>3 DEF Held, Begun, Rest, sending
  <1> HIDE DEF h, b
  <1> DEFINE t == text \o h
             z == b \o wire \o Rest
  <1>8. /\ t \in Seq(Char) /\ Len(t) = Len(text) + cnt
        /\ \A i \in 1 .. Len(text) + cnt : t[i] = IF i <= Len(text) THEN text[i] ELSE h[i - Len(text)]
    BY <1>1, <1>6, ConcatProperties
  <1>9. b \o wire \in Seq(Char) /\ z \in Seq(Char)
    <2>1. b \o wire \in Seq(Char)
      BY <1>1, <1>6, ConcatProperties
    <2> QED
      BY <1>1, <2>1, ConcatProperties
  <1>10. Held = t \o z /\ ((t \o b) \o wire) \o Rest = t \o z
    <2>1. /\ text \in Seq(Char) /\ h \in Seq(Char) /\ b \in Seq(Char)
          /\ wire \in Seq(Char) /\ Rest \in Seq(Char)
      BY <1>1, <1>6
    <2>2. Regroups(text, h, b)
      BY ONLY <2>1, AllRegroup, Zenon
    <2>3. Held = ((t \o b) \o wire) \o Rest
      BY <1>6, <1>7, <2>2 DEF t, Regroups
    <2> HIDE DEF t
    <2>4. Regroups(t, b, wire) /\ Regroups(t, b \o wire, Rest)
      BY ONLY <1>8, <1>9, <2>1, AllRegroup, Zenon
    <2> QED
      BY ONLY <2>3, <2>4, Zenon DEF Regroups, z
  <1>11. text' = t
    BY <1>3
  <1> HIDE DEF t, z
  <1>12. CASE UNCHANGED <<receiver, received>>
    <2>1. Begun' = t
      BY <1>3, <1>11, <1>12 DEF Begun
    <2>2. Held' = ((t \o b) \o wire) \o Rest
      BY <1>3, <1>7, <2>1 DEF Held
    <2> QED
      BY <1>3, <1>10, <1>12, <2>2
  <1>13. CASE receiver' = "idle" /\ received' = Append(received, text') /\ (nl # 0 \/ Len(text') >= Buf)
    <2>1. Held' = z
      <3>1. <<>> \o b = b
        BY <1>6, ConcatEmptySeq
      <3>2. Held' = ((<<>> \o b) \o wire) \o Rest
        BY <1>3, <1>7, <1>13 DEF Held, Begun
      <3> QED
        BY <3>1, <3>2 DEF z
    <2> DEFINE n == Len(t)
    <2>2. /\ SubSeq(Held, 1, n) = t /\ SubSeq(Held, n + 1, Len(Held)) = z
          /\ n \in 0 .. Len(Held) /\ \A i \in 1 .. n : Held[i] = t[i]
      <3>1. t \in Seq(Char) /\ z \in Seq(Char) /\ Held = t \o z
        BY <1>8, <1>9, <1>10
      <3> QED
        BY ONLY <3>1, FrontOf
    <2>3. n \in 1 .. Len(Held)
      BY <1>1, <1>4, <1>8, <2>2
    <2>t. /\ \A i \in 1 .. Len(text) : text[i] # "nl"
          /\ n <= Buf
      <3>1. /\ receiver # "idle" => \A i \in 1 .. Len(text) : text[i] # "nl"
            /\ Len(text') <= Buf
        BY DEF StreamInv, NoOverrun
      <3>2. receiver # "idle"
        BY <1>3
      <3> QED
        BY <1>11, <3>1, <3>2
    <2>4. ASSUME NEW i \in 1 .. n - 1
          PROVE  t[i] # "nl"
      <3>1. i \in 1 .. Len(text) + cnt
        BY <1>1, <1>4, <1>8
      <3>2. CASE i <= Len(text)
        <4>1. i \in 1 .. Len(text)
          BY <1>1, <3>1, <3>2
        <4> QED
          BY <1>8, <2>t, <3>1, <3>2, <4>1
      <3>3. CASE ~(i <= Len(text))
        <4>1. i - Len(text) \in 1 .. cnt /\ i - Len(text) # cnt
          BY <1>1, <1>4, <1>8, <3>3
        <4> QED
          BY <1>5, <1>6, <1>8, <3>1, <3>3, <4>1
      <3> QED
        BY <3>2, <3>3
    <2>5. t[n] = "nl" \/ n = Buf
      <3>1. CASE nl # 0
        <4>1. n \in 1 .. Len(text) + cnt /\ ~(n <= Len(text)) /\ n - Len(text) = cnt /\ cnt \in 1 .. cnt
          BY <1>1, <1>4, <1>8
        <4> QED
          BY <1>5, <1>6, <1>8, <3>1, <4>1
      <3>2. CASE Len(text') >= Buf
        <4>1. n >= Buf
          BY <1>11, <3>2
        <4>2. n \in Nat
          BY <1>1, <1>4, <1>8
        <4> QED
          BY <2>t, <4>1, <4>2, StreamAssumption
      <3> QED
        BY <1>13, <3>1, <3>2
    <2>6. /\ Held[n] = "nl" \/ n = Buf
          /\ \A i \in 1 .. n - 1 : Held[i] # "nl"
      <3>1. n \in 1 .. n /\ \A i \in 1 .. n - 1 : i \in 1 .. n
        BY <1>1, <1>4, <1>8
      <3> QED
        BY <2>2, <2>4, <2>5, <3>1
    <2>7. /\ received' = Append(received, SubSeq(Held, 1, n)) /\ Held' = SubSeq(Held, n + 1, Len(Held))
          /\ UNCHANGED broken
      BY <1>3, <1>11, <1>13, <2>1, <2>2
    <2> HIDE DEF n
    <2>8. Queue!Read
      BY <2>3, <2>6, <2>7 DEF Queue!Read, Queue!IsLine, Held, Begun, Rest
    <2> QED
      BY <2>8
  <1> QED
    BY <1>3, <1>12, <1>13

\* With the connection goes the end of the queue.
LEMMA BreakLoses ==
    ASSUME StreamKinds, Breaks
    PROVE  Queue!Lose
  <1>1. PICK k \in 0 .. Len(wire) : wire' = SubSeq(wire, 1, k)
    BY DEF Breaks
  <1> DEFINE g == Begun \o rxbuff
             b == SubSeq(wire, k + 1, Len(wire))
             p == g \o wire'
  <1>2. wire' \in Seq(Char) /\ b \in Seq(Char) /\ wire' \o b = wire
    BY <1>1, FlowTypes, CutInTwo
  <1>3. g \in Seq(Char) /\ txbuff \in Seq(Char)
    BY HeldIs, FlowTypes
  <1>4. Held = (g \o (wire' \o b)) \o txbuff
    BY <1>2 DEF Breaks, Held, Rest
  <1>5. p \in Seq(Char) /\ b \o txbuff \in Seq(Char)
    BY <1>2, <1>3, ConcatProperties
  <1>6. Held' = p
    <2>1. Held' = p \o <<>>
      BY DEF Breaks, receiving, Held, Begun, Rest
    <2> QED
      BY <1>5, <2>1, ConcatEmptySeq
  <1> HIDE DEF g, b
  <1>7. Regroups(g, wire', b)
    BY ONLY <1>2, <1>3, AllRegroup, Zenon
  <1> HIDE DEF p
  <1>8. Regroups(p, b, txbuff)
    BY ONLY <1>2, <1>3, <1>5, AllRegroup, Zenon
  <1>9. Held = p \o (b \o txbuff)
    BY ONLY <1>4, <1>7, <1>8, Zenon DEF p, Regroups
  <1>10. Len(p) \in 0 .. Len(Held) /\ Held' = SubSeq(Held, 1, Len(p))
    BY <1>5, <1>6, <1>9, FrontOf
  <1>11. ~broken /\ broken' = TRUE /\ UNCHANGED received
    BY DEF Breaks, receiving
  <1> QED
    BY <1>10, <1>11 DEF Queue!Lose, Held, Begun, Rest

LEMMA QueueStep ==
    ASSUME Usable, StreamInv, StreamInv', [StreamNext]_streamVars
    PROVE  [Queue!Next]_<<Held, broken, received>>
  <1>1. StreamKinds /\ (sender = "full" => msg \in Messages)
    BY DEF StreamInv
  <1>2. ASSUME NEW m \in Messages, txbuff' = txbuff \o m, UNCHANGED <<wire, broken, receiving>>
        PROVE  [Queue!Next]_<<Held, broken, received>>
    <2>1. CASE broken
      BY <1>2, <2>1, SameHeld
    <2>2. CASE ~broken
      <3>1. m \in Seq(Char)
        BY MessageIs
      <3>2. Held' = Held \o m
        BY <1>1, <1>2, <2>2, <3>1, MessageQueued
      <3>3. UNCHANGED <<broken, received>>
        BY <1>2 DEF receiving
      <3>4. Queue!Printf(m)
        BY <2>2, <3>2, <3>3 DEF Queue!Printf, Held, Begun, Rest
      <3> QED
        BY <3>4 DEF Queue!Next
    <2> QED
      BY <2>1, <2>2
  <1>3. ASSUME NEW m \in Messages, Printf(m)
        PROVE  [Queue!Next]_<<Held, broken, received>>
    <2>1. UNCHANGED <<wire, broken, receiving>> /\ (txbuff' = txbuff \o m \/ UNCHANGED txbuff)
      BY <1>3 DEF Printf
    <2> QED
      BY <1>2, <2>1, SameHeld
  <1>4. CASE SsFlush \/ SendFails
    <2>1. UNCHANGED <<wire, broken, receiving, txbuff>>
      BY <1>4 DEF SsFlush, SendFails
    <2> QED
      BY <2>1, SameHeld
  <1>5. CASE SsSend
    BY <1>1, <1>5, SendHolds
  <1>6. CASE Flushed
    <2>1. UNCHANGED <<wire, broken, receiving>> /\ txbuff = <<>>
      BY <1>6 DEF Flushed
    <2>2. CASE UNCHANGED txbuff
      BY <2>1, <2>2, SameHeld
    <2>3. CASE /\ sender = "full"
               /\ \E m \in Reformatted(msg) : txbuff' = IF Fits(m, Buf) THEN m ELSE <<>>
      <3>1. msg \in Messages /\ msg \in Seq(Char)
        BY <1>1, <2>3, MessageIs
      <3>2. txbuff' = msg
        BY <2>3, <3>1 DEF Reformatted, Usable, Fits
      <3>3. txbuff' = txbuff \o msg
        BY <2>1, <3>1, <3>2, ConcatEmptySeq
      <3> QED
        BY <1>2, <2>1, <3>1, <3>3
    <2> QED
      BY <1>6, <2>2, <2>3 DEF Flushed
  <1>7. CASE Gets
    BY <1>7 DEF Gets, Held, Begun, Rest, sending
  <1>8. CASE Recv
    BY <1>1, <1>8, RecvHolds
  <1>9. CASE Copy
    BY <1>9, CopyHolds DEF Queue!Next
  <1>10. CASE RecvEnds
    BY <1>10 DEF RecvEnds, Held, Begun, Rest, sending
  <1>11. CASE Breaks
    BY <1>1, <1>11, BreakLoses DEF Queue!Next
  <1>12. CASE UNCHANGED streamVars
    BY <1>12, SameHeld DEF streamVars, receiving
  <1> QED
    BY <1>3, <1>4, <1>5, <1>6, <1>7, <1>8, <1>9, <1>10, <1>11, <1>12 DEF StreamNext, Receiver

\* Two buffers and a socket are one queue of messages, and ss_gets returns the
\* next whole line of it: wherever it was cut, whatever filled up, and up to where
\* the connection broke.
THEOREM StreamIsQueue == ASSUME Usable PROVE StreamSpec => ImplementsQueue
  <1>1. StreamInit => Queue!Init
    <2> SUFFICES ASSUME StreamInit
                 PROVE  Queue!Init
      OBVIOUS
    <2>1. <<>> \in Seq(Char) /\ <<>> \o <<>> = <<>>
      BY EmptySeq, ConcatEmptySeq
    <2> QED
      BY <2>1 DEF StreamInit, Queue!Init
  <1>2. StreamInv /\ StreamInv' /\ [StreamNext]_streamVars => [Queue!Next]_<<Held, broken, received>>
    BY QueueStep
  <1>3. Queue!Spec <=> Queue!Init /\ [][Queue!Next]_<<Held, broken, received>>
    BY DEF Queue!Spec, Held, Begun, Rest
  <1> QED
    BY <1>1, <1>2, <1>3, InvStream, PTL DEF StreamSpec, ImplementsQueue

-----------------------------------------------------------------------------
(* The three of them, one at a time.                                       *)

\* Whichever of the layers moves, all three are well formed: calls, buffers and
\* locals of ocd_serial, serialport, sockstream.c and of the block commands of
\* ez8ocd.
THEOREM LinksTypes == ASSUME "split" \notin Faults PROVE LinksSpec => []LinksTypeOK
  <1> DEFINE LinksInv == SerialInv /\ StreamKinds /\ BlockInv
  <1>1. LinksInit => LinksInv
    BY InitHolds, StreamTypeInit, InitBlock DEF LinksInit
  <1>2. LinksInv /\ [LinksNext]_<<layer, vars, streamVars, blockVars>> => LinksInv'
    <2> SUFFICES ASSUME LinksInv, [LinksNext]_<<layer, vars, streamVars, blockVars>>
                 PROVE  LinksInv'
      OBVIOUS
    <2>1. [Next]_vars /\ [StreamNext]_streamVars /\ [BlockNext]_blockVars
      BY DEF LinksNext
    <2> QED
      BY <2>1, SerialNext, StreamTypeStep, NextBlock
  <1>3. LinksInv => LinksTypeOK
    BY DEF SerialInv, SerialTypes, StreamKinds, BlockInv, LinksTypeOK
  <1> HIDE DEF LinksInv
  <1> QED
    BY <1>1, <1>2, <1>3, PTL DEF LinksSpec
=============================================================================
