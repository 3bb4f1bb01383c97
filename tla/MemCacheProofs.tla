--------------------------- MODULE MemCacheProofs ---------------------------
(***************************************************************************)
(* Proofs about MemCache for every memory, every fault and every request.   *)
(* The argument: a flag of the cache is up only while its checksum is the   *)
(* checksum of what is there (CacheCoherent), because every step that       *)
(* changes the flash or the copy takes the flag down; so when both          *)
(* checksums agree the copy is the flash, which is what a read or a         *)
(* verification by checksum relies on.                                      *)
(***************************************************************************)
EXTENDS MCMemVariants, TLAPS

\* The operators on images yield images.
LEMMA ImageOps ==
    ASSUME NEW m \in Image
    PROVE  /\ \A d : d \in [DOMAIN d -> Byte] => Overlay(m, d) \in Image
           /\ \A p : Erased(m, p) \in Image
           /\ \A d, T : (T \subseteq DOMAIN d /\ d \in [DOMAIN d -> Byte]) => Programmed(m, d, T) \in Image
           /\ \A B : B \subseteq Addr => Restrict(m, B) \in [B -> Byte] /\ DOMAIN Restrict(m, B) = B
           /\ [a \in Addr |-> Blank] \in Image
BY DEF Image, Overlay, Erased, Programmed, Restrict, Byte, Blank

\* A page that a block touches is a page of the memory.
LEMMA PagesOfBlock ==
    ASSUME NEW B, B \subseteq Addr
    PROVE  PagesOf(B) \subseteq 0 .. Pages - 1
<1> SUFFICES ASSUME NEW a \in Addr
             PROVE  PageOf(a) \in 0 .. Pages - 1
  BY DEF PagesOf
<1>1. Pages \in Nat /\ PageSize \in Nat /\ PageSize > 0
  BY MemoryAssumption
<1>2. a \in Nat /\ a < Pages * PageSize
  BY <1>1 DEF Addr
<1>3. /\ a \div PageSize \in Nat
      /\ PageSize * (a \div PageSize) <= a
  BY <1>1, <1>2
<1>4. a \div PageSize < Pages
  BY <1>1, <1>2, <1>3, SMT
<1> QED
  BY <1>1, <1>3, <1>4 DEF PageOf

LEMMA Requested ==
    /\ \A d \in Writes : IsData(d)
    /\ \A B \in Reads : B \subseteq Addr
    /\ \A d : IsData(d) => Block(DOMAIN d) \subseteq Addr
    /\ CacheOn \in BOOLEAN
BY RequestAssumption DEF IsData, Block

\* rd_mem leaves a copy and checksums of the right type.
LEMMA ReadType ==
    ASSUME TypeOK, NEW B, B \subseteq Addr, ChecksumsRead
    PROVE  /\ CopyAfterRead(B) \in Image
           /\ CacheAfterRead \subseteq {"CRC", "MEMCRC"}
           /\ crc' \in Crc /\ memcrc' \in Crc
<1>1. CopyAfterRead(B) \in Image
  BY ImageOps DEF TypeOK, DeviceType, CopyType, CopyAfterRead
<1>2. crc' \in Crc /\ memcrc' \in Crc
  BY DEF TypeOK, DeviceType, CopyType, ChecksumsRead, FreshCrc, FreshMemcrc, Crc
<1> QED
  BY <1>1, <1>2 DEF TypeOK, CopyType, CacheAfterRead

\* The end of an operation leaves a request of the right type.
LEMMA ThrowType == Throw => ReqType'
<1>1. IsData(Nothing)
  BY DEF IsData, Nothing
<1> QED
  BY <1>1 DEF Throw, ReqType, NoReq

LEMMA RdMemFailsType ==
    ASSUME TypeOK, NEW B, B \subseteq Addr, RdMemFails(B)
    PROVE  TypeOK'
<1>1. ReqType'
  BY ThrowType DEF RdMemFails, LinkFails
<1>2. CopyType'
  <2>1. CASE UNCHANGED <<cached, crc, memcrc, mainMem>>
    BY <2>1 DEF TypeOK, CopyType
  <2>2. CASE \E k \in Addr : RdMem({a \in B : a < k})
    <3>1. PICK k \in Addr : RdMem({a \in B : a < k})
      BY <2>2
    <3> QED
      BY <3>1, ReadType DEF RdMem, CopyType
  <2> QED
    BY <2>1, <2>2 DEF RdMemFails
<1> QED
  BY <1>1, <1>2 DEF RdMemFails, LinkFails, TypeOK, DeviceType

LEMMA InitType == Init => TypeOK
<1> SUFFICES ASSUME Init PROVE TypeOK
  OBVIOUS
<1>1. [a \in Addr |-> Blank] \in Image
  BY DEF Image, Byte, Blank
<1>2. DeviceType /\ CopyType
  BY <1>1, RequestAssumption DEF Init, DeviceType, CopyType, Crc
<1>3. IsData(bps)
  BY DEF Init, IsData, Nothing
<1>4. ReqType
  BY DEF Init, ReqType, NoReq, IsData, Nothing
<1> QED
  BY <1>2, <1>3, <1>4 DEF TypeOK

\* wr_mem starts, for itself or for remove_breakpoint.
LEMMA WrMemType ==
    ASSUME TypeOK, NEW op \in {"wr_mem", "remove_breakpoint"}, NEW d, IsData(d), WrMem(op, d)
    PROVE  TypeOK'
<1> DEFINE B == Block(DOMAIN d)
<1>1. B \subseteq Addr
  BY Requested
<1>2. CASE RdMemFails(B)
  BY <1>1, <1>2, RdMemFailsType
<1>3. CASE ~RdMemFails(B)
  <2>1. /\ CopyAfterRead(B) \in Image
        /\ CacheAfterRead \subseteq {"CRC", "MEMCRC"}
        /\ crc' \in Crc /\ memcrc' \in Crc
    BY <1>1, <1>3, ReadType DEF WrMem
  <2>2. CopyType'
    BY <1>3, <2>1 DEF WrMem, CopyType
  <2>3. ReqType'
    <3>1. {p \in PagesOf(B) : ~BlankPage(CopyAfterRead(B), p)} \subseteq 0 .. Pages - 1
      BY <1>1, PagesOfBlock
    <3>2. /\ pc' = "wr_erase"
          /\ req' = [op |-> op, data |-> d, bycrc |-> FALSE,
                     todo |-> {p \in PagesOf(B) : ~BlankPage(CopyAfterRead(B), p)}]
      BY <1>3 DEF WrMem
    <3> HIDE DEF B
    <3> QED
      BY <3>1, <3>2 DEF ReqType
  <2> QED
    BY <1>3, <2>2, <2>3 DEF WrMem, TypeOK, DeviceType
<1> QED
  BY <1>2, <1>3

LEMMA PartsType == TypeOK /\ Parts => TypeOK'
<1> SUFFICES ASSUME TypeOK, Parts PROVE TypeOK'
  OBVIOUS
<1> DEFINE B == Block(DOMAIN req.data)
<1>1. IsData(req.data) /\ DOMAIN req.data \subseteq Addr /\ B \subseteq Addr
  BY Requested DEF TypeOK, ReqType, IsData
<1>2. CASE WrErase
  <2>1. PICK p \in req.todo :
          /\ cached' = cached \ {"CRC"}
          /\ \/ /\ flash' = Erased(flash, p) \/ flash' = flash
                /\ req' = [req EXCEPT !.todo = @ \ {p}]
                /\ UNCHANGED <<up, pc>>
             \/ LinkFails /\ flash' \in {flash, Erased(flash, p)}
             \/ Throw /\ UNCHANGED <<flash, up>>
    BY <1>2 DEF WrErase
  <2>2. flash' \in Image /\ up' \in BOOLEAN
    <3>1. flash \in Image /\ Erased(flash, p) \in Image /\ up \in BOOLEAN
      BY ImageOps DEF TypeOK, DeviceType
    <3>2. flash' = flash \/ flash' = Erased(flash, p)
      BY <2>1
    <3>3. up' = up \/ up' = FALSE
      BY <2>1 DEF LinkFails
    <3> QED
      BY <3>1, <3>2, <3>3
  <2>3. ReqType'
    <3>1. CASE Throw
      BY <3>1, ThrowType
    <3>2. CASE req' = [req EXCEPT !.todo = @ \ {p}] /\ UNCHANGED pc
      BY <3>2 DEF TypeOK, ReqType, IsData
    <3> QED
      BY <2>1, <3>1, <3>2 DEF LinkFails
  <2> QED
    BY <1>2, <2>1, <2>2, <2>3 DEF WrErase, TypeOK, DeviceType, CopyType, IsData
<1>3. CASE WrProgram
  <2>1. mainMem' \in Image
    BY <1>1, <1>3, ImageOps DEF WrProgram, TypeOK, CopyType, IsData
  <2>2. \A T : T \subseteq Addr => Programmed(flash, mainMem', T) \in Image
    <3>1. DOMAIN mainMem' = Addr /\ mainMem' \in [DOMAIN mainMem' -> Byte]
      BY <2>1 DEF Image
    <3> QED
      BY <3>1, ImageOps DEF TypeOK, DeviceType
  <2>3. flash' \in Image
    BY <1>1, <1>3, <2>2 DEF WrProgram
  <2>4. ReqType'
    <3>1. CASE Throw
      BY <3>1, ThrowType
    <3>2. CASE pc' = "wr_verify" /\ req' = req
      BY <3>2 DEF TypeOK, ReqType
    <3> QED
      BY <1>3, <3>1, <3>2 DEF WrProgram, LinkFails
  <2>5. stopped' \in BOOLEAN /\ up' \in BOOLEAN
    BY <1>3 DEF WrProgram, TypeOK, DeviceType, LinkFails
  <2>6. CopyType' /\ IsData(bps)'
    BY <1>3, <2>1 DEF WrProgram, TypeOK, CopyType, IsData
  <2> QED
    BY <2>3, <2>4, <2>5, <2>6 DEF TypeOK, DeviceType
<1>4. CASE WrVerify
  <2>1. CASE RdMemFails(B)
    BY <1>1, <2>1, RdMemFailsType
  <2>2. CASE LinkFails /\ UNCHANGED <<flash, stopped, dbg>>
    BY <2>2, ThrowType DEF LinkFails, TypeOK, DeviceType, CopyType, IsData, dbg
  <2>3. CASE /\ ChecksumsRead
             /\ cached' = cached \cup {"CRC", "MEMCRC"}
             /\ IF Hit THEN pc' = "wr_restore" /\ req' = [req EXCEPT !.bycrc = TRUE] ELSE Throw
             /\ UNCHANGED <<flash, stopped, up, mainMem, bps>>
    <3>1. CopyType'
      BY <1>1, <2>3, ReadType DEF TypeOK, CopyType
    <3>2. ReqType'
      <4>1. CASE Hit
        BY <2>3, <4>1 DEF TypeOK, ReqType, IsData
      <4>2. CASE ~Hit
        BY <2>3, <4>2, ThrowType
      <4> QED
        BY <4>1, <4>2
    <3> QED
      BY <2>3, <3>1, <3>2 DEF TypeOK, DeviceType, IsData
  <2>4. CASE /\ RdMem(B)
             /\ IF Restrict(CopyAfterRead(B), B) = Restrict(mainMem', B)
                THEN pc' = "wr_restore" /\ UNCHANGED req ELSE Throw
             /\ UNCHANGED <<flash, stopped, up, bps>>
    <3>1. CopyType'
      BY <1>1, <2>4, ReadType DEF RdMem, CopyType
    <3>2. ReqType'
      <4>1. CASE pc' = "wr_restore" /\ UNCHANGED req
        BY <4>1 DEF TypeOK, ReqType
      <4>2. CASE Throw
        BY <4>2, ThrowType
      <4> QED
        BY <2>4, <4>1, <4>2
    <3> QED
      BY <2>4, <3>1, <3>2 DEF TypeOK, DeviceType, IsData
  <2> QED
    BY <1>4, <2>1, <2>2, <2>3, <2>4 DEF WrVerify
<1>5. CASE WrRestore
  <2>1. ReqType'
    BY <1>5, ThrowType DEF WrRestore, LinkFails
  <2>2. IsData(bps)'
    BY <1>5 DEF WrRestore, TypeOK, IsData, Restrict
  <2> QED
    BY <1>5, <2>1, <2>2 DEF WrRestore, LinkFails, TypeOK, DeviceType, CopyType
<1>6. CASE SetWrite
  <2>1. ReqType'
    <3>1. CASE Throw
      BY <3>1, ThrowType
    <3>2. CASE pc' = "set_verify" /\ req' = req
      BY <3>2 DEF TypeOK, ReqType
    <3> QED
      BY <1>6, <3>1, <3>2 DEF SetWrite, LinkFails
  <2>2. mainMem' \in Image
    BY <1>1, <1>6, ImageOps DEF SetWrite, TypeOK, CopyType, IsData
  <2>3. flash' \in Image
    BY <1>1, <1>6, ImageOps DEF SetWrite, TypeOK, DeviceType, IsData
  <2> QED
    BY <1>6, <2>1, <2>2, <2>3 DEF SetWrite, LinkFails, TypeOK, DeviceType, CopyType, IsData
<1>7. CASE SetVerify
  <2>1. CASE RdMemFails(DOMAIN req.data)
    BY <1>1, <2>1, RdMemFailsType
  <2>2. CASE RdMem(DOMAIN req.data) /\ Throw /\ UNCHANGED <<flash, stopped, up, bps>>
    <3>1. CopyType'
      BY <1>1, <2>2, ReadType DEF RdMem, CopyType
    <3> QED
      BY <2>2, <3>1, ThrowType DEF TypeOK, DeviceType, IsData
  <2> QED
    BY <1>7, <2>1, <2>2 DEF SetVerify
<1> QED
  BY <1>2, <1>3, <1>4, <1>5, <1>6, <1>7 DEF Parts

LEMMA RequestsType == TypeOK /\ Requests => TypeOK'
<1> SUFFICES ASSUME TypeOK, Requests PROVE TypeOK'
  OBVIOUS
<1> USE DEF TypeOK, DeviceType
<1>1. CASE \E B \in Reads : RdMemOp(B)
  <2>1. PICK B \in Reads : RdMemOp(B)
    BY <1>1
  <2>2. B \subseteq Addr
    BY Requested
  <2>3. CASE RdMemFails(B)
    BY <2>2, <2>3, RdMemFailsType
  <2>4. CASE RdMem(B) /\ UNCHANGED <<flash, stopped, up, bps, pc, req>>
    <3>1. CopyType'
      BY <2>2, <2>4, ReadType DEF RdMem, CopyType
    <3> QED
      BY <2>4, <3>1 DEF ReqType, IsData
  <2> QED
    BY <2>1, <2>3, <2>4 DEF RdMemOp
<1>2. CASE \E d \in Writes : WrMemOp(d)
  BY <1>2, Requested, WrMemType DEF WrMemOp
<1>3. CASE \E a \in Marks : RemoveBreakpoint(a)
  <2>1. PICK a \in Marks : a \in DOMAIN bps /\ WrMem("remove_breakpoint", [x \in {a} |-> bps[x]])
    BY <1>3 DEF RemoveBreakpoint
  <2>2. IsData([x \in {a} |-> bps[x]])
    BY <2>1 DEF IsData
  <2> QED
    BY <2>1, <2>2, WrMemType
<1>4. CASE \E a \in Marks : SetBreakpoint(a)
  <2>1. PICK a \in Marks : SetBreakpoint(a)
    BY <1>4
  <2>2. a \in Addr /\ {a} \subseteq Addr
    BY RequestAssumption
  <2>3. CASE RdMemFails({a})
    BY <2>2, <2>3, RdMemFailsType
  <2>4. CASE ~RdMemFails({a})
    <3>1. CopyType'
      BY <2>1, <2>2, <2>4, ReadType DEF SetBreakpoint, RdMem, CopyType
    <3>2. IsData(bps)'
      <4>1. bps' = [x \in DOMAIN bps \cup {a} |-> IF x = a THEN mainMem'[a] ELSE bps[x]]
        BY <2>1, <2>4 DEF SetBreakpoint
      <4>2. mainMem'[a] \in Byte
        BY <2>2, <3>1 DEF CopyType, Image
      <4> QED
        BY <2>2, <4>1, <4>2 DEF IsData
    <3>3. ReqType'
      <4>1. /\ pc' = "set_write"
            /\ req' = [NoReq EXCEPT !.op = "set_breakpoint", !.data = [x \in {a} |-> Brk]]
        BY <2>1, <2>4 DEF SetBreakpoint
      <4>2. IsData([x \in {a} |-> Brk])
        BY <2>2 DEF IsData, Brk, Byte
      <4> QED
        BY <4>1, <4>2 DEF ReqType, NoReq
    <3> QED
      BY <2>1, <2>4, <3>1, <3>2, <3>3 DEF SetBreakpoint
  <2> QED
    BY <2>3, <2>4
<1>5. CASE RdCrc
  BY <1>5, ThrowType DEF RdCrc, LinkFails, CopyType, ReqType, IsData, dbg, Crc
<1>6. CASE MassErase
  <2>1. [a \in Addr |-> Blank] \in Image /\ IsData(Nothing)
    BY DEF Image, Byte, Blank, IsData, Nothing
  <2>2. flash' \in Image /\ up' \in BOOLEAN /\ ReqType'
    BY <1>6, <2>1, ThrowType DEF MassErase, LinkFails, ReqType, IsData
  <2> QED
    BY <1>6, <2>1, <2>2 DEF MassErase, CopyType
<1>7. CASE WrFif
  <2>1. flash' \in Image
    BY <1>7, ImageOps DEF WrFif
  <2> QED
    BY <1>7, <2>1, ThrowType DEF WrFif, LinkFails, CopyType, ReqType, IsData
<1>8. CASE Run
  BY <1>8, ThrowType DEF Run, Idle, LinkFails, CopyType, ReqType, IsData
<1>9. CASE Stop
  BY <1>9, ThrowType DEF Stop, LinkFails, CopyType, ReqType, IsData, dbg
<1>10. CASE Step
  <2>1. \A d \in Writes : Programmed(flash, d, DOMAIN d) \in Image
    BY Requested, ImageOps DEF IsData
  <2>2. flash' \in Image
    BY <1>10, <2>1 DEF Step
  <2> QED
    BY <1>10, <2>2, ThrowType DEF Step, LinkFails, CopyType, ReqType, IsData
<1>11. CASE ResetLink
  BY <1>11, ThrowType DEF ResetLink, LinkFails, CopyType, ReqType, IsData
<1> QED
  BY <1>1, <1>2, <1>3, <1>4, <1>5, <1>6, <1>7, <1>8, <1>9, <1>10, <1>11 DEF Requests

LEMMA NextType == TypeOK /\ [Next]_vars => TypeOK'
<1> SUFFICES ASSUME TypeOK, [Next]_vars PROVE TypeOK'
  OBVIOUS
<1>1. CASE Firmware
  <2>1. flash' \in Image
    BY <1>1, Requested, ImageOps DEF Firmware, TypeOK, DeviceType, IsData
  <2> QED
    BY <1>1, <2>1 DEF Firmware, TypeOK, DeviceType, CopyType, ReqType, IsData, dbg
<1>2. CASE UNCHANGED vars
  BY <1>2 DEF vars, TypeOK, DeviceType, CopyType, ReqType, IsData
<1> QED
  BY <1>1, <1>2, RequestsType, PartsType DEF Next

\* Every state of every behaviour is well formed: ez8dbg's memory copy, its
\* checksums, its table of breakpoints and the operation in progress.
THEOREM TypeCorrect == Spec => []TypeOK
BY InitType, NextType, PTL DEF Spec

-----------------------------------------------------------------------------
(* Coherence.                                                              *)

\* When the checksums agree, the copy is what is in the flash.
LEMMA HitIsFlash ==
    ASSUME TypeOK, CacheCoherent, FreshCrc = FreshMemcrc
    PROVE  mainMem = flash
<1>1. FreshCrc = CrcOf[flash] /\ FreshMemcrc = CrcOf[mainMem]
  BY DEF CacheCoherent, FreshCrc, FreshMemcrc
<1> QED
  BY <1>1, CrcAssumption DEF TypeOK, DeviceType, CopyType

\* The device does not run during an operation, while it runs its checksum is
\* not cached, and nothing is marked as compared by checksum before it was:
\* together with CacheCoherent this is inductive.
Quiet ==
    /\ pc # "idle" => stopped
    /\ ~stopped => "CRC" \notin cached
    /\ pc \in {"wr_erase", "wr_verify"} => ~req.bycrc

Inv == TypeOK /\ Quiet /\ CacheCoherent /\ VerifiedByCrc

\* Reading leaves both flags telling the truth, whatever of the block was read.
LEMMA ReadCoherent ==
    ASSUME TypeOK, CacheCoherent, NEW B, RdMem(B), flash' = flash
    PROVE  CacheCoherent'
<1>1. FreshCrc = CrcOf[flash] /\ FreshMemcrc = CrcOf[mainMem]
  BY DEF CacheCoherent, FreshCrc, FreshMemcrc
<1>2. CASE Hit
  BY <1>1, <1>2 DEF RdMem, ChecksumsRead, CacheAfterRead, CopyAfterRead, Hit, CacheCoherent
<1>3. CASE ~Hit
  <2>1. "MEMCRC" \notin cached' /\ ("CRC" \in cached' => CacheOn \/ "CRC" \in cached)
    BY <1>3 DEF RdMem, CacheAfterRead
  <2>2. crc' = IF CacheOn THEN FreshCrc ELSE crc
    BY DEF RdMem, ChecksumsRead
  <2> QED
    BY <1>1, <2>1, <2>2 DEF CacheCoherent
<1> QED
  BY <1>2, <1>3

LEMMA RdMemFailsInv ==
    ASSUME Inv, stopped, NEW B, RdMemFails(B)
    PROVE  CacheCoherent' /\ Quiet' /\ VerifiedByCrc'
<1>1. CacheCoherent'
  BY ReadCoherent DEF RdMemFails, Inv, CacheCoherent
<1> QED
  BY <1>1 DEF RdMemFails, LinkFails, Throw, Quiet, VerifiedByCrc

LEMMA WrMemInv ==
    ASSUME Inv, stopped, NEW op, NEW d, WrMem(op, d)
    PROVE  CacheCoherent' /\ Quiet' /\ VerifiedByCrc'
<1> DEFINE B == Block(DOMAIN d)
<1>1. CASE RdMemFails(B)
  BY <1>1, RdMemFailsInv
<1>2. CASE ~RdMemFails(B)
  <2>1. /\ cached' = CacheAfterRead \ {"CRC"}
        /\ mainMem' = CopyAfterRead(B)
        /\ ChecksumsRead
        /\ pc' = "wr_erase"
        /\ UNCHANGED <<flash, stopped>>
    BY <1>2 DEF WrMem
  <2>2. "MEMCRC" \in cached' => Hit
    BY <2>1 DEF CacheAfterRead
  <2>3. Hit => memcrc' = CrcOf[mainMem']
    BY <2>1 DEF Hit, Inv, CacheCoherent, ChecksumsRead, CopyAfterRead, FreshMemcrc
  <2>4. ~req'.bycrc
    <3>1. \E todo : req' = [op |-> op, data |-> d, bycrc |-> FALSE, todo |-> todo]
      BY <1>2 DEF WrMem
    <3> QED
      BY <3>1
  <2> QED
    BY <2>1, <2>2, <2>3, <2>4 DEF CacheCoherent, Quiet, VerifiedByCrc
<1> QED
  BY <1>1, <1>2

LEMMA PartsInv == Inv /\ Parts => CacheCoherent' /\ Quiet' /\ VerifiedByCrc'
<1> SUFFICES ASSUME Inv, Parts
             PROVE  CacheCoherent' /\ Quiet' /\ VerifiedByCrc'
  OBVIOUS
<1>0. pc # "idle" /\ stopped
  BY DEF Parts, WrErase, WrProgram, WrVerify, WrRestore, SetWrite, SetVerify, Inv, Quiet
<1>1. CASE WrErase
  <2>1. /\ cached' = cached \ {"CRC"}
        /\ pc' \in {"wr_erase", "idle"}
        /\ pc' = "idle" \/ req'.bycrc = req.bycrc
        /\ UNCHANGED <<stopped, memcrc, mainMem>>
    <3>1. \A p : [req EXCEPT !.todo = p].bycrc = req.bycrc
      BY DEF Inv, TypeOK, ReqType
    <3> QED
      BY <1>1, <3>1 DEF WrErase, LinkFails, Throw
  <2>2. pc = "wr_erase"
    BY <1>1 DEF WrErase
  <2> QED
    BY <1>0, <2>1, <2>2 DEF Inv, CacheCoherent, Quiet, VerifiedByCrc
<1>2. CASE WrProgram
  <2>1. /\ cached' = cached \ {"CRC", "MEMCRC"}
        /\ pc' \in {"wr_verify", "idle"}
        /\ pc' = "idle" \/ req' = req
        /\ UNCHANGED stopped
    BY <1>2 DEF WrProgram, LinkFails, Throw
  <2> QED
    BY <1>0, <1>2, <2>1 DEF WrProgram, Inv, CacheCoherent, Quiet, VerifiedByCrc
<1>3. CASE WrVerify
  <2> DEFINE B == Block(DOMAIN req.data)
  <2>1. CASE RdMemFails(B)
    BY <1>0, <2>1, RdMemFailsInv
  <2>2. CASE LinkFails /\ UNCHANGED <<flash, stopped, dbg>>
    BY <1>0, <2>2 DEF LinkFails, Throw, dbg, Inv, CacheCoherent, Quiet, VerifiedByCrc
  <2>3. CASE /\ CacheOn /\ ChecksumsRead
             /\ cached' = cached \cup {"CRC", "MEMCRC"}
             /\ IF Hit THEN pc' = "wr_restore" /\ req' = [req EXCEPT !.bycrc = TRUE] ELSE Throw
             /\ UNCHANGED <<flash, stopped, up, mainMem, bps>>
    <3>1. CacheCoherent'
      BY <2>3 DEF Inv, CacheCoherent, ChecksumsRead, FreshCrc, FreshMemcrc
    <3>2. VerifiedByCrc'
      <4>1. CASE Hit
        BY <2>3, <4>1, HitIsFlash DEF Inv, Hit, VerifiedByCrc
      <4>2. CASE ~Hit
        BY <2>3, <4>2 DEF Throw, VerifiedByCrc
      <4> QED
        BY <4>1, <4>2
    <3>3. pc' \in {"wr_restore", "idle"}
      BY <2>3 DEF Throw
    <3> QED
      BY <1>0, <2>3, <3>1, <3>2, <3>3 DEF Quiet
  <2>4. CASE /\ RdMem(B)
             /\ IF Restrict(CopyAfterRead(B), B) = Restrict(mainMem', B)
                THEN pc' = "wr_restore" /\ UNCHANGED req ELSE Throw
             /\ UNCHANGED <<flash, stopped, up, bps>>
    <3>1. CacheCoherent'
      BY <2>4, ReadCoherent DEF Inv
    <3>2. pc = "wr_verify" /\ ~req.bycrc
      BY <1>3 DEF WrVerify, Inv, Quiet
    <3>3. pc' = "idle" \/ (pc' = "wr_restore" /\ ~req'.bycrc)
      BY <2>4, <3>2 DEF Throw
    <3> QED
      BY <1>0, <2>4, <3>1, <3>3 DEF Quiet, VerifiedByCrc
  <2> QED
    BY <1>3, <2>1, <2>2, <2>3, <2>4 DEF WrVerify
<1>4. CASE WrRestore
  <2>1. /\ cached' \subseteq cached
        /\ pc' = "idle"
        /\ UNCHANGED <<flash, stopped, crc, memcrc, mainMem>>
    BY <1>4 DEF WrRestore, LinkFails, Throw
  <2> QED
    BY <1>0, <2>1 DEF Inv, CacheCoherent, Quiet, VerifiedByCrc
<1>5. CASE SetWrite
  <2>1. /\ pc' \in {"set_verify", "idle"}
        /\ \/ cached' = cached \ {"CRC", "MEMCRC"}
           \/ cached' = cached \ {"CRC"} /\ UNCHANGED mainMem
        /\ UNCHANGED <<stopped, memcrc>>
    BY <1>5 DEF SetWrite, LinkFails, Throw
  <2> QED
    BY <1>0, <2>1 DEF Inv, CacheCoherent, Quiet, VerifiedByCrc
<1>6. CASE SetVerify
  <2>1. CASE RdMemFails(DOMAIN req.data)
    BY <1>0, <2>1, RdMemFailsInv
  <2>2. CASE RdMem(DOMAIN req.data) /\ Throw /\ UNCHANGED <<flash, stopped, up, bps>>
    <3>1. CacheCoherent'
      BY <2>2, ReadCoherent DEF Inv
    <3> QED
      BY <1>0, <2>2, <3>1 DEF Throw, Quiet, VerifiedByCrc
  <2> QED
    BY <1>6, <2>1, <2>2 DEF SetVerify
<1> QED
  BY <1>1, <1>2, <1>3, <1>4, <1>5, <1>6 DEF Parts

LEMMA RequestsInv == Inv /\ Requests => CacheCoherent' /\ Quiet' /\ VerifiedByCrc'
<1> SUFFICES ASSUME Inv, Requests
             PROVE  CacheCoherent' /\ Quiet' /\ VerifiedByCrc'
  OBVIOUS
<1> USE DEF Inv, Quiet, VerifiedByCrc
<1>1. CASE \E B \in Reads : RdMemOp(B)
  <2>1. PICK B \in Reads : RdMemOp(B)
    BY <1>1
  <2>2. CASE RdMemFails(B)
    BY <2>1, <2>2, RdMemFailsInv DEF RdMemOp, Idle
  <2>3. CASE RdMem(B) /\ UNCHANGED <<flash, stopped, up, bps, pc, req>>
    <3>1. CacheCoherent'
      BY <2>3, ReadCoherent
    <3> QED
      BY <2>1, <2>3, <3>1 DEF RdMemOp, Idle
  <2> QED
    BY <2>1, <2>2, <2>3 DEF RdMemOp
<1>2. CASE \E d \in Writes : WrMemOp(d)
  BY <1>2, WrMemInv DEF WrMemOp, Idle
<1>3. CASE \E a \in Marks : RemoveBreakpoint(a)
  BY <1>3, WrMemInv DEF RemoveBreakpoint, Idle
<1>4. CASE \E a \in Marks : SetBreakpoint(a)
  <2>1. PICK a \in Marks : SetBreakpoint(a)
    BY <1>4
  <2>2. CASE RdMemFails({a})
    BY <2>1, <2>2, RdMemFailsInv DEF SetBreakpoint, Idle
  <2>3. CASE RdMem({a}) /\ pc' = "set_write" /\ UNCHANGED <<flash, stopped, up>>
    <3>1. CacheCoherent'
      BY <2>3, ReadCoherent
    <3> QED
      BY <2>1, <2>3, <3>1 DEF SetBreakpoint, Idle
  <2> QED
    BY <2>1, <2>2, <2>3 DEF SetBreakpoint
<1>5. CASE RdCrc
  BY <1>5 DEF RdCrc, Idle, LinkFails, Throw, dbg, CacheCoherent
<1>6. CASE MassErase
  BY <1>6 DEF MassErase, Idle, LinkFails, Throw, CacheCoherent
<1>7. CASE WrFif
  BY <1>7 DEF WrFif, Idle, LinkFails, Throw, CacheCoherent
<1>8. CASE Run
  BY <1>8 DEF Run, Idle, LinkFails, Throw, CacheCoherent
<1>9. CASE Stop
  BY <1>9 DEF Stop, LinkFails, Throw, dbg, CacheCoherent
<1>10. CASE Step
  BY <1>10 DEF Step, Idle, LinkFails, Throw, CacheCoherent
<1>11. CASE ResetLink
  BY <1>11 DEF ResetLink, LinkFails, Throw, CacheCoherent
<1> QED
  BY <1>1, <1>2, <1>3, <1>4, <1>5, <1>6, <1>7, <1>8, <1>9, <1>10, <1>11 DEF Requests

LEMMA InvInit == Init => Inv
BY InitType DEF Init, Inv, Quiet, CacheCoherent, VerifiedByCrc

LEMMA InvNext == Inv /\ [Next]_vars => Inv'
<1> SUFFICES ASSUME Inv, [Next]_vars PROVE Inv'
  OBVIOUS
<1>1. TypeOK'
  BY NextType DEF Inv
<1>2. CacheCoherent' /\ Quiet' /\ VerifiedByCrc'
  <2>1. CASE Firmware
    BY <2>1 DEF Firmware, dbg, Inv, CacheCoherent, Quiet, VerifiedByCrc
  <2>2. CASE UNCHANGED vars
    BY <2>2 DEF vars, Inv, CacheCoherent, Quiet, VerifiedByCrc
  <2> QED
    BY <2>1, <2>2, RequestsInv, PartsInv DEF Next
<1> QED
  BY <1>1, <1>2 DEF Inv

\* A cached checksum is never stale: erasing, programming, setting breakpoints,
\* writing the flash registers and running all take down the flag they must,
\* also when they fail half way.
THEOREM Coherence == Spec => []CacheCoherent
<1>1. Inv => CacheCoherent
  BY DEF Inv
<1> QED
  BY <1>1, InvInit, InvNext, PTL DEF Spec

\* A write that reports success after the comparison of checksums has written
\* the flash, whatever cells failed to erase or to program.
THEOREM VerifiedWrites == Spec => []VerifiedByCrc
<1>1. Inv => VerifiedByCrc
  BY DEF Inv
<1> QED
  BY <1>1, InvInit, InvNext, PTL DEF Spec

\* A read that returns, returns the bytes of the device.
THEOREM TrueReads == Spec => ReadsAreTrue
<1> DEFINE True == \A B \in Reads :
                      RdMemOp(B) /\ up' => Restrict(mainMem', B) = Restrict(flash, B)
<1>1. ASSUME Inv, NEW B \in Reads, RdMemOp(B), up'
      PROVE  Restrict(mainMem', B) = Restrict(flash, B)
  <2>1. RdMem(B)
    BY <1>1 DEF RdMemOp, RdMemFails, LinkFails
  <2>2. CASE Hit
    BY <1>1, <2>1, <2>2, HitIsFlash DEF RdMem, CopyAfterRead, Hit, Inv
  <2>3. CASE ~Hit
    <3>1. mainMem' = Overlay(mainMem, Restrict(flash, B))
      BY <2>1, <2>3 DEF RdMem, CopyAfterRead
    <3>2. B \subseteq Addr
      BY Requested
    <3> QED
      BY <3>1, <3>2 DEF Overlay, Restrict
  <2> QED
    BY <2>2, <2>3
<1>2. Inv => True
  BY <1>1
<1> QED
  BY <1>2, InvInit, InvNext, PTL DEF Spec, ReadsAreTrue

-----------------------------------------------------------------------------
(* MemCache implements ProgramMemory, with the cache and without, whatever  *)
(* commands fail: as long as cells erase and program, the program leaves    *)
(* its memory alone, and nobody writes over a breakpoint.  And where no     *)
(* command fails either, every breakpoint is in the flash between           *)
(* operations.                                                              *)
(*                                                                         *)
(* The argument: while pages are erased and written, mainMem has what the   *)
(* erased ones held, as rd_mem is true (HitIsFlash); so at every point the  *)
(* old image can be told from flash, copy and table (Kept), and where an    *)
(* operation ends or is cut short the pages outside its block are as they   *)
(* were.                                                                    *)

\* The faults are those of the link, and no write goes over a breakpoint.
Undisturbed ==
    /\ Faults \cap {"flash", "firmware"} = {}
    /\ \A d \in Writes : DOMAIN d \cap Marks = {}

\* A step of the abstract memory, or none.
Refined == [Memory!Next]_<<img, brk, up>>

\* The pages that the operation in progress writes.
B == Block(DOMAIN req.data)

Only(a, v) == [x \in {a} |-> v]

\* What the operation in progress was asked for.
Worded ==
    /\ DOMAIN bps \subseteq Marks
    /\ pc \in {"set_write", "set_verify"} => \E a \in DOMAIN bps : req.data = Only(a, Brk)
    /\ pc = "wr_erase" => req.todo \subseteq PagesOf(DOMAIN req.data)
    /\ pc \in {"wr_erase", "wr_verify", "wr_restore"} =>
        \/ req.op = "wr_mem" /\ req.data \in Writes
        \/ req.op = "remove_breakpoint" /\ \E a \in DOMAIN bps : req.data = Only(a, bps[a])

\* The entry that set_breakpoint adds counts from its end on.
Remembered ==
    /\ img \in Image
    /\ brk = IF pc \in {"set_write", "set_verify"} THEN DOMAIN bps \ DOMAIN req.data ELSE DOMAIN bps

\* Where the image is.
Kept ==
    /\ pc \in {"idle", "set_write", "set_verify"} => img = View
    /\ pc = "wr_erase" => \A a \in Addr :
        IF a \in B
        THEN /\ flash[a] = IF PageOf(a) \in req.todo THEN mainMem[a] ELSE Blank
             /\ img[a] = IF a \in DOMAIN bps THEN bps[a] ELSE mainMem[a]
        ELSE img[a] = View[a]
    /\ pc \in {"wr_verify", "wr_restore"} => \A a \in Addr :
        /\ View[a] = IF req.op = "wr_mem" /\ a \in DOMAIN req.data THEN req.data[a] ELSE img[a]
        /\ a \in DOMAIN req.data => flash[a] = req.data[a]

ImplInv == Inv /\ Worded /\ Remembered /\ Kept

LEMMA Touched ==
    ASSUME NEW D, D \subseteq Addr
    PROVE  /\ D \subseteq Block(D) /\ Block(D) \subseteq Addr
           /\ \A a \in Addr : a \in Block(D) <=> PageOf(a) \in {PageOf(b) : b \in D}
  BY DEF Block, PagesOf

LEMMA ViewIsImage == TypeOK => View \in Image
  BY DEF TypeOK, DeviceType, IsData, View, Image

\* Where an operation ends, the image is what the flash holds.
LEMMA Ends ==
    ASSUME ImplNext, TypeOK', pc' = "idle", DOMAIN bps' \subseteq Marks
    PROVE  /\ img' = View' /\ brk' = DOMAIN bps'
           /\ Worded' /\ Remembered' /\ Kept'
  <1>1. img' = View' /\ brk' = DOMAIN bps'
    BY DEF ImplNext
  <1>2. View' \in Image
    BY DEF TypeOK, DeviceType, IsData, View, Image
  <1> QED
    BY <1>1, <1>2 DEF Worded, Remembered, Kept

\* Operations that leave flash and table alone.
LEMMA Untouched ==
    ASSUME ImplInv, ImplNext, TypeOK', pc = "idle", pc' = "idle", UNCHANGED <<flash, bps>>
    PROVE  Worded' /\ Remembered' /\ Kept' /\ Refined
  <1>1. img' = View' /\ brk' = DOMAIN bps' /\ Worded' /\ Remembered' /\ Kept'
    BY Ends DEF ImplInv, Worded
  <1>2. UNCHANGED <<img, brk>>
    BY <1>1 DEF ImplInv, Remembered, Kept, View
  <1>3. up' \in {TRUE, FALSE}
    BY DEF TypeOK, DeviceType
  <1> QED
    BY <1>1, <1>2, <1>3 DEF Refined, Memory!Next, Memory!LinkReset, Memory!LinkLost

LEMMA CutIs ==
    ASSUME NEW D, D \subseteq Addr, up' = FALSE, brk' = brk, img' \in Image,
           \A a \in Addr : a \notin Block(D) => img'[a] = img[a]
    PROVE  Memory!Cut(D)
  BY Touched DEF Memory!Cut, Image

\* What was read of the flash is in the copy.
LEMMA CopyIsFlash ==
    ASSUME TypeOK, CacheCoherent, NEW D, D \subseteq Addr
    PROVE  \A a \in D : CopyAfterRead(D)[a] = flash[a]
  <1>1. CASE Hit
    BY <1>1, HitIsFlash DEF CopyAfterRead, Hit
  <1>2. CASE ~Hit
    BY <1>2 DEF CopyAfterRead, Overlay, Restrict
  <1> QED
    BY <1>1, <1>2

LEMMA WrMemBegins ==
    ASSUME ImplInv, ImplNext, TypeOK', pc = "idle", NEW op, NEW d, IsData(d), WrMem(op, d),
           \/ op = "wr_mem" /\ d \in Writes
           \/ op = "remove_breakpoint" /\ \E a \in DOMAIN bps : d = Only(a, bps[a])
    PROVE  Worded' /\ Remembered' /\ Kept' /\ Refined
  <1> DEFINE D == Block(DOMAIN d)
             copy == CopyAfterRead(D)
             todo == {p \in PagesOf(D) : ~BlankPage(copy, p)}
  <1>1. CASE RdMemFails(D)
    BY <1>1, Untouched DEF RdMemFails, LinkFails, Throw
  <1>2. CASE ~RdMemFails(D)
    <2>1. /\ mainMem' = copy /\ pc' = "wr_erase" /\ UNCHANGED <<flash, up, bps>>
          /\ req' = [op |-> op, data |-> d, bycrc |-> FALSE, todo |-> todo]
      BY <1>2 DEF WrMem
    <2>2. D \subseteq Addr
      BY Touched DEF IsData
    <2>3. \A a \in D : copy[a] = flash[a]
      BY <2>2, CopyIsFlash DEF ImplInv, Inv
    <2>4. \A a \in D : PageOf(a) \notin todo => flash[a] = Blank
      BY <2>2, <2>3 DEF BlankPage, PagesOf
    <2>8. todo \subseteq PagesOf(DOMAIN d)
      BY DEF PagesOf, Block
    <2> HIDE DEF todo, copy
    <2>5. UNCHANGED <<img, brk>> /\ img = View /\ brk = DOMAIN bps
      BY <2>1 DEF ImplNext, ImplInv, Kept, Remembered
    <2>6. Worded' /\ Remembered'
      BY <2>1, <2>5, <2>8 DEF Worded, Remembered, ImplInv
    <2>7. Kept'
      <3>1. B' = D /\ req'.todo = todo
        BY <2>1 DEF B
      <3>2. \A a \in D : /\ flash'[a] = IF PageOf(a) \in todo THEN mainMem'[a] ELSE Blank
                         /\ img'[a] = IF a \in DOMAIN bps' THEN bps'[a] ELSE mainMem'[a]
        BY <2>1, <2>2, <2>3, <2>4, <2>5 DEF View
      <3>3. \A a \in Addr : img'[a] = View'[a]
        BY <2>1, <2>5 DEF View
      <3> HIDE DEF D
      <3> QED
        BY <2>1, <3>1, <3>2, <3>3 DEF Kept
    <2> QED
      BY <2>1, <2>5, <2>6, <2>7 DEF Refined
  <1> QED
    BY <1>1, <1>2

\* The request of a wr_mem in progress.
LEMMA RequestIs ==
    ASSUME ImplInv, pc \in {"wr_erase", "wr_verify", "wr_restore"}
    PROVE  /\ DOMAIN req.data \subseteq Addr /\ B \subseteq Addr /\ DOMAIN req.data \subseteq B
           /\ IsData(req.data)
           /\ brk = DOMAIN bps /\ img \in Image
           /\ \/ req.op = "wr_mem" /\ req.data \in Writes
              \/ req.op = "remove_breakpoint"
                 /\ \E a \in DOMAIN bps \cap Marks : DOMAIN req.data = {a} /\ req.data[a] = bps[a]
  <1>1. IsData(req.data) /\ DOMAIN req.data \subseteq Addr
    BY DEF ImplInv, Inv, TypeOK, ReqType, IsData
  <1> QED
    BY <1>1, Touched DEF ImplInv, Worded, Remembered, B, Only

\* The link fails in the middle of it: no other page has changed.
LEMMA CutShort ==
    ASSUME ImplInv, ImplNext, TypeOK', pc \in {"wr_erase", "wr_verify", "wr_restore"},
           pc' = "idle", up' = FALSE, bps' = bps,
           \A a \in Addr \ B : flash'[a] = flash[a]
    PROVE  Worded' /\ Remembered' /\ Kept' /\ Refined
  <1>1. /\ img' = View' /\ brk' = DOMAIN bps' /\ Worded' /\ Remembered' /\ Kept'
    BY Ends DEF ImplInv, Worded
  <1>2. \A a \in Addr \ B : View'[a] = View[a] /\ View[a] = img[a]
    BY RequestIs DEF View, ImplInv, Kept
  <1>3. Memory!Cut(DOMAIN req.data)
    <2>1. img' \in Image
      BY <1>1 DEF TypeOK, DeviceType, IsData, View, Image
    <2> QED
      BY <1>1, <1>2, <2>1, CutIs, RequestIs DEF B
  <1> QED
    BY <1>1, <1>3, RequestIs DEF Refined, Memory!Next

LEMMA WrEraseStep ==
    ASSUME Undisturbed, ImplInv, ImplNext, TypeOK', WrErase
    PROVE  Worded' /\ Remembered' /\ Kept' /\ Refined
  <1>1. PICK p \in req.todo :
          \/ flash' = Erased(flash, p) /\ req' = [req EXCEPT !.todo = @ \ {p}] /\ UNCHANGED <<up, pc>>
          \/ LinkFails /\ flash' \in {flash, Erased(flash, p)}
    BY DEF WrErase, Undisturbed
  <1>2. pc = "wr_erase" /\ UNCHANGED <<mainMem, bps>>
    BY DEF WrErase
  <1>3. \A a \in Addr \ B : Erased(flash, p)[a] = flash[a]
    BY <1>2 DEF ImplInv, Worded, Erased, B, Block
  <1>4. CASE LinkFails
    BY <1>1, <1>2, <1>3, <1>4, CutShort DEF LinkFails, Throw
  <1>5. CASE flash' = Erased(flash, p) /\ req' = [req EXCEPT !.todo = @ \ {p}] /\ UNCHANGED <<up, pc>>
    <2>1. /\ req'.op = req.op /\ req'.data = req.data /\ req'.todo = req.todo \ {p}
      BY <1>5 DEF ImplInv, Inv, TypeOK, ReqType
    <2>2. UNCHANGED <<img, brk, up, pc, bps, mainMem>> /\ B' = B
      BY <1>2, <1>5, <2>1 DEF ImplNext, B
    <2>3. Worded' /\ Remembered'
      BY <1>2, <2>1, <2>2 DEF ImplInv, Worded, Remembered
    <2>4. ASSUME NEW a \in Addr
          PROVE  /\ a \in B => flash'[a] = IF PageOf(a) \in req'.todo THEN mainMem'[a] ELSE Blank
                 /\ a \in B => img'[a] = IF a \in DOMAIN bps' THEN bps'[a] ELSE mainMem'[a]
                 /\ a \notin B => img'[a] = View'[a]
      <3>1. a \in B => /\ flash[a] = IF PageOf(a) \in req.todo THEN mainMem[a] ELSE Blank
                       /\ img[a] = IF a \in DOMAIN bps THEN bps[a] ELSE mainMem[a]
        BY <1>2 DEF ImplInv, Kept
      <3>2. a \notin B => img[a] = View[a]
        BY <1>2 DEF ImplInv, Kept
      <3>3. flash'[a] = IF PageOf(a) = p THEN Blank ELSE flash[a]
        BY <1>5 DEF Erased
      <3> QED
        BY <1>3, <1>5, <2>1, <2>2, <3>1, <3>2, <3>3 DEF View
    <2>5. Kept'
      BY <1>2, <2>2, <2>4 DEF Kept
    <2> QED
      BY <2>2, <2>3, <2>5 DEF Refined
  <1> QED
    BY <1>1, <1>4, <1>5

\* What is programmed over erased pages is in the flash.
LEMMA BlankTakes ==
    ASSUME ImplInv, TypeOK', WrProgram, flash' = Programmed(flash, mainMem', B)
    PROVE  \A a \in B : flash'[a] = mainMem'[a]
  <1> SUFFICES ASSUME NEW a \in B PROVE flash'[a] = mainMem'[a]
    OBVIOUS
  <1>1. pc = "wr_erase" /\ req.todo = {}
    BY DEF WrProgram
  <1>2. a \in Addr /\ flash[a] = Blank
    BY <1>1, RequestIs DEF ImplInv, Kept
  <1>3. mainMem'[a] \subseteq Bit
    BY <1>2 DEF TypeOK, CopyType, Image, Byte
  <1>4. flash'[a] = flash[a] \cap mainMem'[a]
    BY <1>2 DEF Programmed
  <1> QED
    BY <1>2, <1>3, <1>4 DEF Blank

LEMMA WrProgramStep ==
    ASSUME Undisturbed, ImplInv, ImplNext, TypeOK', WrProgram
    PROVE  Worded' /\ Remembered' /\ Kept' /\ Refined
  <1>1. pc = "wr_erase" /\ req.todo = {} /\ bps' = bps /\ mainMem' = Overlay(mainMem, req.data)
    BY DEF WrProgram
  <1>2. \/ flash' = Programmed(flash, mainMem', B) /\ pc' = "wr_verify" /\ UNCHANGED <<up, req>>
        \/ LinkFails /\ \E k \in Addr : flash' = Programmed(flash, mainMem', {a \in B : a < k})
    BY DEF WrProgram, Undisturbed, B
  <1>3. CASE LinkFails /\ \E k \in Addr : flash' = Programmed(flash, mainMem', {a \in B : a < k})
    <2>1. \A a \in Addr \ B : flash'[a] = flash[a]
      BY <1>3 DEF Programmed
    <2> QED
      BY <1>1, <1>3, <2>1, CutShort DEF LinkFails, Throw
  <1>4. CASE flash' = Programmed(flash, mainMem', B) /\ pc' = "wr_verify" /\ UNCHANGED <<up, req>>
    <2>1. UNCHANGED <<img, brk, up, bps, req>>
      BY <1>1, <1>4 DEF ImplNext
    <2>2. Worded' /\ Remembered'
      BY <1>1, <1>4, <2>1 DEF ImplInv, Worded, Remembered
    <2>3. DOMAIN req.data \subseteq B /\ B \subseteq Addr
      BY <1>1, RequestIs
    <2>4. \A a \in B : flash'[a] = mainMem'[a]
      BY <1>4, BlankTakes
    <2>5. \A a \in Addr : mainMem'[a] = IF a \in DOMAIN req.data THEN req.data[a] ELSE mainMem[a]
      BY <1>1 DEF Overlay
    <2>6. \A a \in Addr \ B : flash'[a] = flash[a]
      BY <1>4 DEF Programmed
    <2>7. ASSUME NEW a \in Addr
          PROVE  /\ View'[a] = IF req.op = "wr_mem" /\ a \in DOMAIN req.data THEN req.data[a] ELSE img[a]
                 /\ a \in DOMAIN req.data => flash'[a] = req.data[a]
      <3>1. View'[a] = IF a \in DOMAIN bps THEN bps[a] ELSE flash'[a]
        BY <2>1 DEF View
      <3>2. a \in DOMAIN req.data => flash'[a] = req.data[a]
        BY <2>3, <2>4, <2>5
      <3>3. CASE a \in B
        <4>1. img[a] = IF a \in DOMAIN bps THEN bps[a] ELSE mainMem[a]
          BY <1>1, <3>3 DEF ImplInv, Kept
        <4>2. flash'[a] = IF a \in DOMAIN req.data THEN req.data[a] ELSE mainMem[a]
          BY <2>4, <2>5, <3>3
        <4>3. req.op = "wr_mem" /\ a \in DOMAIN req.data => a \notin DOMAIN bps
          BY <1>1, RequestIs DEF Undisturbed, ImplInv, Worded
        <4>4. req.op # "wr_mem" /\ a \in DOMAIN req.data => a \in DOMAIN bps
          BY <1>1, RequestIs
        <4> QED
          BY <3>1, <3>2, <4>1, <4>2, <4>3, <4>4
      <3>4. CASE a \notin B
        <4>1. img[a] = View[a]
          BY <1>1, <3>4 DEF ImplInv, Kept
        <4> QED
          BY <2>3, <2>6, <3>1, <3>2, <3>4, <4>1 DEF View
      <3> QED
        BY <3>3, <3>4
    <2>8. Kept'
      BY <1>4, <2>1, <2>7 DEF Kept
    <2> QED
      BY <2>1, <2>2, <2>8 DEF Refined
  <1> QED
    BY <1>2, <1>3, <1>4

\* What a wr_mem has done that is given up behind its programming, by a
\* comparison or at its end: a write, or nothing.
LEMMA Written ==
    ASSUME Undisturbed, ImplInv, ImplNext, TypeOK', pc \in {"wr_verify", "wr_restore"},
           pc' = "idle", UNCHANGED <<flash, bps, up>>
    PROVE  Worded' /\ Remembered' /\ Kept' /\ Refined
  <1>1. /\ img' = View' /\ brk' = DOMAIN bps' /\ Worded' /\ Remembered' /\ Kept'
    BY Ends DEF ImplInv, Worded
  <1>2. \A a \in Addr : View'[a] = IF req.op = "wr_mem" /\ a \in DOMAIN req.data THEN req.data[a] ELSE img[a]
    BY DEF View, ImplInv, Kept
  <1>3. View' = [a \in Addr |-> View'[a]] /\ img = [a \in Addr |-> img[a]]
    BY DEF View, ImplInv, Remembered, Image
  <1>4. CASE req.op = "wr_mem"
    <2>1. req.data \in Writes /\ brk = DOMAIN bps
      BY <1>4, RequestIs
    <2>2. Memory!Write(req.data)
      BY <1>1, <1>2, <1>3, <1>4, <2>1 DEF Memory!Write, Memory!Put
    <2> QED
      BY <1>1, <2>1, <2>2 DEF Refined, Memory!Next
  <1>5. CASE req.op # "wr_mem"
    BY <1>1, <1>2, <1>3, <1>5, RequestIs DEF Refined
  <1> QED
    BY <1>1, <1>4, <1>5

LEMMA WrVerifyStep ==
    ASSUME Undisturbed, ImplInv, ImplNext, TypeOK', WrVerify
    PROVE  Worded' /\ Remembered' /\ Kept' /\ Refined
  <1>1. pc = "wr_verify" /\ UNCHANGED <<flash, bps>>
    BY DEF WrVerify, RdMem, RdMemFails, LinkFails, dbg
  <1>2. \/ Throw /\ up' = up
        \/ LinkFails
        \/ /\ pc' = "wr_restore" /\ up' = up
           /\ req' = req \/ req' = [req EXCEPT !.bycrc = TRUE]
    BY DEF WrVerify, RdMemFails
  <1>3. CASE Throw /\ up' = up
    BY <1>1, <1>3, Written DEF Throw
  <1>4. CASE LinkFails
    BY <1>1, <1>4, CutShort DEF LinkFails, Throw
  <1>5. CASE pc' = "wr_restore" /\ up' = up /\ (req' = req \/ req' = [req EXCEPT !.bycrc = TRUE])
    <2>1. req'.op = req.op /\ req'.data = req.data
      BY <1>5 DEF ImplInv, Inv, TypeOK, ReqType
    <2>2. UNCHANGED <<img, brk>>
      BY <1>5 DEF ImplNext
    <2>3. Worded' /\ Remembered'
      BY <1>1, <1>5, <2>1, <2>2 DEF ImplInv, Worded, Remembered
    <2>4. View' = View
      BY <1>1 DEF View
    <2>5. Kept'
      BY <1>1, <1>5, <2>1, <2>2, <2>4 DEF ImplInv, Kept
    <2> QED
      BY <1>5, <2>2, <2>3, <2>5 DEF Refined
  <1> QED
    BY <1>2, <1>3, <1>4, <1>5

LEMMA WrRestoreStep ==
    ASSUME Undisturbed, ImplInv, ImplNext, TypeOK', WrRestore
    PROVE  Worded' /\ Remembered' /\ Kept' /\ Refined
  <1>1. pc = "wr_restore" /\ flash' = flash /\ pc' = "idle"
    BY DEF WrRestore, LinkFails, Throw
  <1>2. CASE LinkFails /\ bps' = bps
    BY <1>1, <1>2, CutShort DEF LinkFails
  <1>3. CASE up' = up /\ bps' = bps
    BY <1>1, <1>3, Written
  <1>4. CASE /\ up' = up /\ req.op = "remove_breakpoint"
             /\ bps' = Restrict(bps, DOMAIN bps \ DOMAIN req.data)
    <2>1. PICK a \in DOMAIN bps \cap Marks : DOMAIN req.data = {a} /\ req.data[a] = bps[a]
      BY <1>1, <1>4, RequestIs
    <2>2. DOMAIN bps' = DOMAIN bps \ {a} /\ \A x \in DOMAIN bps' : bps'[x] = bps[x]
      BY <1>4, <2>1 DEF Restrict
    <2>3. img' = View' /\ brk' = brk \ {a} /\ Worded' /\ Remembered' /\ Kept'
      BY <1>1, <2>2, Ends, RequestIs DEF ImplInv, Worded
    <2>4. \A x \in Addr : View'[x] = img[x]
      <3>1. flash[a] = bps[a]
        BY <1>1, <2>1, RequestIs DEF ImplInv, Kept
      <3>2. \A x \in Addr : View[x] = img[x]
        BY <1>1, <1>4 DEF ImplInv, Kept
      <3> QED
        BY <1>1, <2>2, <3>1, <3>2 DEF View
    <2>5. img' = img
      BY <2>3, <2>4 DEF View, ImplInv, Remembered, Image
    <2>6. Memory!RemoveBreakpoint(a)
      BY <1>4, <2>3, <2>5 DEF Memory!RemoveBreakpoint
    <2> QED
      BY <2>1, <2>3, <2>6 DEF Refined, Memory!Next
  <1> QED
    BY <1>2, <1>3, <1>4 DEF WrRestore

LEMMA SetBegins ==
    ASSUME ImplInv, ImplNext, TypeOK', NEW a \in Marks, SetBreakpoint(a)
    PROVE  Worded' /\ Remembered' /\ Kept' /\ Refined
  <1>1. pc = "idle" /\ a \in Addr /\ a \notin DOMAIN bps
    BY RequestAssumption DEF SetBreakpoint, Idle
  <1>2. CASE RdMemFails({a})
    BY <1>1, <1>2, Untouched DEF RdMemFails, LinkFails, Throw
  <1>3. CASE ~RdMemFails({a})
    <2>1. /\ mainMem' = CopyAfterRead({a}) /\ pc' = "set_write" /\ UNCHANGED <<flash, up>>
          /\ bps' = [x \in DOMAIN bps \cup {a} |-> IF x = a THEN mainMem'[a] ELSE bps[x]]
      BY <1>3 DEF SetBreakpoint, RdMem
    <2>2. req' = [NoReq EXCEPT !.op = "set_breakpoint", !.data = Only(a, Brk)]
      BY <1>3 DEF SetBreakpoint, Only
    <2>3. req'.data = Only(a, Brk) /\ DOMAIN req'.data = {a}
      BY <2>2 DEF NoReq, Only
    <2>4. bps'[a] = flash[a]
      <3>1. CopyAfterRead({a})[a] = flash[a]
        BY <1>1, CopyIsFlash DEF ImplInv, Inv
      <3> QED
        BY <2>1, <3>1
    <2>5. View' = View
      BY <1>1, <2>1, <2>4 DEF View
    <2>6. UNCHANGED <<img, brk>> /\ img = View /\ brk = DOMAIN bps
      BY <1>1, <2>1 DEF ImplNext, ImplInv, Kept, Remembered
    <2>7. DOMAIN bps' = DOMAIN bps \cup {a}
      BY <2>1
    <2>8. Worded'
      BY <2>1, <2>3, <2>7 DEF ImplInv, Worded
    <2>9. Remembered' /\ Kept'
      BY <1>1, <2>1, <2>3, <2>5, <2>6, <2>7 DEF ImplInv, Remembered, Kept
    <2> QED
      BY <2>1, <2>6, <2>8, <2>9 DEF Refined
  <1> QED
    BY <1>2, <1>3

\* set_breakpoint is over, or given up: the table has the entry.
LEMMA SetOver ==
    ASSUME ImplInv, ImplNext, TypeOK', pc \in {"set_write", "set_verify"}, pc' = "idle",
           bps' = bps, View' = View, up' \in {up, FALSE}
    PROVE  Worded' /\ Remembered' /\ Kept' /\ Refined
  <1>1. /\ img' = View' /\ brk' = DOMAIN bps' /\ Worded' /\ Remembered' /\ Kept'
    BY Ends DEF ImplInv, Worded
  <1>2. PICK a \in DOMAIN bps \cap Marks : DOMAIN req.data = {a}
    BY DEF ImplInv, Worded, Only
  <1>3. img' = img /\ brk' = brk \cup {a}
    BY <1>1, <1>2 DEF ImplInv, Kept, Remembered
  <1>4. Memory!SetBreakpoint(a) \/ Memory!CutSet(a)
    BY <1>3 DEF Memory!SetBreakpoint, Memory!CutSet
  <1> QED
    BY <1>1, <1>2, <1>4 DEF Refined, Memory!Next

LEMMA SetSteps ==
    ASSUME Undisturbed, ImplInv, ImplNext, TypeOK', SetWrite \/ SetVerify
    PROVE  Worded' /\ Remembered' /\ Kept' /\ Refined
  <1>1. pc \in {"set_write", "set_verify"} /\ bps' = bps /\ up' \in {up, FALSE}
    BY DEF SetWrite, SetVerify, RdMemFails, LinkFails
  <1>2. PICK a \in DOMAIN bps : DOMAIN req.data = {a}
    BY <1>1 DEF ImplInv, Worded, Only
  <1>3. \A x \in Addr : x # a => flash'[x] = flash[x]
    BY <1>2 DEF SetWrite, SetVerify, RdMemFails, Undisturbed, Programmed
  <1>4. View' = View
    BY <1>1, <1>2, <1>3 DEF View
  <1>5. CASE pc' = "idle"
    BY <1>1, <1>4, <1>5, SetOver
  <1>6. CASE pc' # "idle"
    <2>1. pc' = "set_verify" /\ UNCHANGED <<up, req>>
      BY <1>6 DEF SetWrite, SetVerify, RdMemFails, LinkFails, Throw
    <2>2. UNCHANGED <<img, brk>>
      BY <1>6 DEF ImplNext
    <2> QED
      BY <1>1, <1>4, <2>1, <2>2 DEF ImplInv, Worded, Remembered, Kept, Refined
  <1> QED
    BY <1>5, <1>6

LEMMA MassEraseStep ==
    ASSUME Undisturbed, ImplInv, ImplNext, TypeOK', MassErase
    PROVE  Worded' /\ Remembered' /\ Kept' /\ Refined
  <1> DEFINE blank == [a \in Addr |-> Blank]
  <1>1. pc = "idle" /\ pc' = "idle" /\ bps' = Nothing
    BY DEF MassErase, Idle, LinkFails, Throw
  <1>2. DOMAIN bps' = {}
    BY <1>1 DEF Nothing
  <1>3. /\ img' = View' /\ brk' = {} /\ Worded' /\ Remembered' /\ Kept'
    BY <1>1, <1>2, Ends
  <1>4. View' = flash'
    BY <1>2 DEF View, TypeOK, DeviceType, Image
  <1>5. CASE flash' = blank
    <2>1. Memory!MassErase \/ Memory!CutErase
      BY <1>3, <1>4, <1>5 DEF MassErase, LinkFails, Memory!MassErase, Memory!CutErase
    <2> QED
      BY <1>3, <2>1 DEF Refined, Memory!Next
  <1>6. CASE flash' = flash /\ up' = FALSE
    <2> DEFINE d == [a \in brk |-> flash[a]]
    <2>1. brk = DOMAIN bps /\ img = View /\ brk \subseteq Addr
      BY <1>1 DEF ImplInv, Remembered, Kept, Inv, TypeOK, IsData
    <2>2. d \in [brk -> Byte] /\ DOMAIN d = brk
      BY <2>1 DEF ImplInv, Inv, TypeOK, DeviceType, Image
    <2>3. img' = Memory!Put(d)
      BY <1>3, <1>4, <1>6, <2>1 DEF Memory!Put, View, ImplInv, Inv, TypeOK, DeviceType, Image
    <2> HIDE DEF d
    <2>4. Memory!CutErase
      BY <1>3, <1>6, <2>2, <2>3 DEF Memory!CutErase
    <2> QED
      BY <1>3, <2>4 DEF Refined, Memory!Next
  <1> QED
    BY <1>5, <1>6 DEF MassErase, LinkFails, Undisturbed

LEMMA RequestsSteps ==
    ASSUME Undisturbed, ImplInv, ImplNext, TypeOK', Requests
    PROVE  Worded' /\ Remembered' /\ Kept' /\ Refined
  <1>1. CASE \E d \in Writes : WrMemOp(d)
    BY <1>1, WrMemBegins, Requested DEF WrMemOp, Idle
  <1>2. CASE \E a \in Marks : SetBreakpoint(a)
    BY <1>2, SetBegins
  <1>3. CASE \E a \in Marks : RemoveBreakpoint(a)
    <2>1. PICK a \in Marks : Idle /\ a \in DOMAIN bps /\ WrMem("remove_breakpoint", Only(a, bps[a]))
      BY <1>3 DEF RemoveBreakpoint, Only
    <2>2. IsData(Only(a, bps[a]))
      BY <2>1 DEF ImplInv, Inv, TypeOK, IsData, Only
    <2> QED
      BY <2>1, <2>2, WrMemBegins DEF Idle
  <1>4. CASE MassErase
    BY <1>4, MassEraseStep
  <1>5. CASE (\E D \in Reads : RdMemOp(D)) \/ RdCrc \/ WrFif \/ Run \/ Stop \/ Step \/ ResetLink
    <2>1. pc = "idle" /\ pc' = "idle" /\ bps' = bps
      BY <1>5 DEF RdMemOp, RdMemFails, RdCrc, WrFif, Run, Stop, Step, ResetLink, Idle, LinkFails, Throw, dbg
    <2>2. flash' = flash
      BY <1>5 DEF RdMemOp, RdMemFails, RdCrc, WrFif, Run, Stop, Step, ResetLink, Undisturbed
    <2> QED
      BY <2>1, <2>2, Untouched
  <1> QED
    BY <1>1, <1>2, <1>3, <1>4, <1>5 DEF Requests

LEMMA ImplSteps ==
    ASSUME Undisturbed, ImplInv, [ImplNext]_<<vars, img, brk>>
    PROVE  ImplInv' /\ Refined
  <1>1. CASE ImplNext
    <2>1. Inv' /\ TypeOK'
      BY <1>1, InvNext DEF ImplInv, ImplNext, Inv
    <2>2. Worded' /\ Remembered' /\ Kept' /\ Refined
      <3>1. ~Firmware
        BY DEF Undisturbed, Firmware
      <3>2. CASE Requests
        BY <1>1, <2>1, <3>2, RequestsSteps
      <3>3. CASE Parts
        BY <1>1, <2>1, <3>3, WrEraseStep, WrProgramStep, WrVerifyStep, WrRestoreStep, SetSteps DEF Parts
      <3> QED
        BY <1>1, <3>1, <3>2, <3>3 DEF ImplNext, Next
    <2> QED
      BY <2>1, <2>2 DEF ImplInv
  <1>2. CASE UNCHANGED <<vars, img, brk>>
    <2>1. Inv'
      BY <1>2, InvNext DEF ImplInv
    <2> QED
      BY <1>2, <2>1 DEF vars, ImplInv, Worded, Remembered, Kept, View, B, Refined
  <1> QED
    BY <1>1, <1>2

LEMMA ImplStarts == ImplInit => ImplInv /\ Memory!Init
  <1> SUFFICES ASSUME ImplInit PROVE ImplInv /\ Memory!Init
    OBVIOUS
  <1>1. Inv /\ pc = "idle" /\ DOMAIN bps = {} /\ up = TRUE /\ img = View /\ brk = DOMAIN bps
    BY InvInit DEF ImplInit, Init, Nothing
  <1>2. img \in Image
    BY <1>1, ViewIsImage DEF Inv
  <1> QED
    BY <1>1, <1>2 DEF ImplInv, Worded, Remembered, Kept, Memory!Init, Image

\* Whatever is cached and whichever commands fail, the debugger's memory is the
\* abstract one (ProgramMemory): breakpoints never change the program, and a
\* failure spoils no page but those that were to be written.
THEOREM Implements == ASSUME Undisturbed PROVE ImplSpec => ImplementsProgramMemory
  <1>1. ImplInit => ImplInv /\ Memory!Init
    BY ImplStarts
  <1>2. ImplInv /\ [ImplNext]_<<vars, img, brk>> => ImplInv' /\ [Memory!Next]_<<img, brk, up>>
    BY ImplSteps DEF Refined
  <1> QED
    BY <1>1, <1>2, PTL DEF ImplSpec, ImplementsProgramMemory, Memory!Spec

-----------------------------------------------------------------------------
(* Where nothing fails.                                                    *)

\* What is in the flash, or is going to be, and, where the last checksums agree,
\* what they say of it.
Armed ==
    /\ pc \in {"idle", "set_verify"} => \A a \in DOMAIN bps : flash[a] = Brk
    /\ pc \in {"set_write", "wr_verify", "wr_restore"} =>
        \A a \in DOMAIN bps \ DOMAIN req.data : flash[a] = Brk
    /\ pc = "wr_erase" => \A a \in DOMAIN bps : (IF a \in B THEN mainMem[a] ELSE flash[a]) = Brk
    /\ pc = "wr_erase" /\ CacheOn /\ crc = memcrc => \A a \in Addr \ B : flash[a] = mainMem[a]
    /\ pc = "wr_verify" /\ CacheOn /\ crc = memcrc => flash = mainMem

LEMMA WrMemArms ==
    ASSUME Faults = {}, ImplInv, Armed, pc = "idle", NEW op, NEW d, IsData(d), WrMem(op, d)
    PROVE  Armed'
  <1> DEFINE D == Block(DOMAIN d)
  <1>1. /\ mainMem' = CopyAfterRead(D) /\ pc' = "wr_erase" /\ UNCHANGED <<flash, bps>>
        /\ req'.data = d /\ ChecksumsRead
    BY DEF WrMem, RdMemFails, LinkFails
  <1>2. D \subseteq Addr /\ B' = D
    BY <1>1, Touched DEF IsData, B
  <1>3. \A a \in D : mainMem'[a] = flash[a]
    BY <1>1, <1>2, CopyIsFlash DEF ImplInv, Inv
  <1>4. CacheOn /\ crc' = memcrc' => mainMem' = flash
    BY <1>1, HitIsFlash DEF ImplInv, Inv, ChecksumsRead, CopyAfterRead, Hit
  <1>5. \A a \in DOMAIN bps : flash[a] = Brk
    BY DEF Armed
  <1> HIDE DEF D
  <1> QED
    BY <1>1, <1>2, <1>3, <1>4, <1>5 DEF Armed

LEMMA PartsArm ==
    ASSUME Undisturbed, Faults = {}, ImplInv, TypeOK', Armed, Parts
    PROVE  Armed'
  <1>1. CASE WrErase
    <2>1. PICK p \in req.todo :
            flash' = Erased(flash, p) /\ req' = [req EXCEPT !.todo = @ \ {p}] /\ pc' = pc
      BY <1>1 DEF WrErase, LinkFails
    <2>2. pc = "wr_erase" /\ UNCHANGED <<mainMem, bps, crc, memcrc>>
      BY <1>1 DEF WrErase
    <2>3. req'.data = req.data /\ B' = B
      BY <2>1 DEF ImplInv, Inv, TypeOK, ReqType, B
    <2>4. \A a \in Addr \ B : flash'[a] = flash[a]
      BY <2>1, <2>2 DEF ImplInv, Worded, Erased, B, Block
    <2>5. DOMAIN bps \subseteq Addr
      BY DEF ImplInv, Inv, TypeOK, IsData
    <2> QED
      BY <2>1, <2>2, <2>3, <2>4, <2>5 DEF Armed
  <1>2. CASE WrProgram
    <2>1. /\ pc = "wr_erase" /\ mainMem' = Overlay(mainMem, req.data) /\ UNCHANGED <<bps, crc, memcrc>>
          /\ flash' = Programmed(flash, mainMem', B) /\ pc' = "wr_verify" /\ req' = req
      BY <1>2 DEF WrProgram, LinkFails, B
    <2>2. DOMAIN req.data \subseteq B /\ B \subseteq Addr /\ DOMAIN bps \subseteq Addr
      BY <2>1, RequestIs DEF ImplInv, Inv, TypeOK, IsData
    <2>3. \A a \in B : flash'[a] = mainMem'[a]
      BY <1>2, <2>1, BlankTakes
    <2>4. \A a \in Addr : /\ a \notin B => flash'[a] = flash[a]
                          /\ a \notin DOMAIN req.data => mainMem'[a] = mainMem[a]
      BY <2>1 DEF Programmed, Overlay
    <2>5. \A a \in DOMAIN bps \ DOMAIN req.data : flash'[a] = Brk
      BY <2>1, <2>2, <2>3, <2>4 DEF Armed
    <2>6. ASSUME CacheOn, crc = memcrc PROVE flash' = mainMem'
      <3>1. \A a \in Addr : flash'[a] = mainMem'[a]
        BY <2>1, <2>2, <2>3, <2>4, <2>6 DEF Armed
      <3> QED
        BY <3>1 DEF TypeOK, DeviceType, CopyType, Image
    <2> QED
      BY <2>1, <2>5, <2>6 DEF Armed
  <1>3. CASE WrVerify
    <2>1. pc = "wr_verify" /\ UNCHANGED <<flash, bps>>
      BY <1>3 DEF WrVerify, RdMem, LinkFails, RdMemFails
    <2>2. CacheOn /\ crc = memcrc => Hit
      BY <2>1 DEF Armed, Hit, ImplInv, Inv, CacheCoherent, FreshCrc, FreshMemcrc
    <2>3. pc' = "wr_restore" /\ (req' = req \/ req' = [req EXCEPT !.bycrc = TRUE])
      BY <1>3, <2>2 DEF WrVerify, RdMem, LinkFails, RdMemFails
    <2>4. req'.data = req.data
      BY <2>3 DEF ImplInv, Inv, TypeOK, ReqType
    <2> QED
      BY <2>1, <2>3, <2>4 DEF Armed
  <1>4. CASE WrRestore
    <2>1. /\ pc = "wr_restore" /\ pc' = "idle" /\ flash' = flash
          /\ bps' = IF req.op = "remove_breakpoint"
                    THEN Restrict(bps, DOMAIN bps \ DOMAIN req.data) ELSE bps
      BY <1>4 DEF WrRestore, LinkFails, Throw
    <2>2. \A a \in DOMAIN bps' : a \in DOMAIN bps \ DOMAIN req.data
      <3>1. CASE req.op = "remove_breakpoint"
        BY <2>1, <3>1 DEF Restrict
      <3>2. CASE req.op # "remove_breakpoint"
        BY <2>1, <3>2, RequestIs DEF Undisturbed, ImplInv, Worded
      <3> QED
        BY <3>1, <3>2
    <2> QED
      BY <2>1, <2>2 DEF Armed
  <1>5. CASE SetWrite
    <2>1. /\ pc = "set_write" /\ pc' = "set_verify" /\ bps' = bps
          /\ flash' = Programmed(flash, req.data, DOMAIN req.data)
      BY <1>5 DEF SetWrite, LinkFails
    <2>2. PICK a \in DOMAIN bps : req.data = Only(a, Brk)
      BY <2>1 DEF ImplInv, Worded
    <2>3. DOMAIN req.data = {a} /\ req.data[a] = Brk
      BY <2>2 DEF Only
    <2>4. DOMAIN bps \subseteq Addr
      BY DEF ImplInv, Inv, TypeOK, IsData
    <2>5. ASSUME NEW x \in DOMAIN bps PROVE flash'[x] = Brk
      <3>1. CASE x = a
        BY <2>1, <2>3, <2>4, <3>1 DEF Programmed, Brk
      <3>2. CASE x # a
        BY <2>1, <2>3, <2>4, <3>2 DEF Programmed, Armed
      <3> QED
        BY <3>1, <3>2
    <2> QED
      BY <2>1, <2>5 DEF Armed
  <1>6. CASE SetVerify
    BY <1>6 DEF SetVerify, RdMemFails, LinkFails, Throw, Armed
  <1> QED
    BY <1>1, <1>2, <1>3, <1>4, <1>5, <1>6 DEF Parts

LEMMA RequestsArm ==
    ASSUME Undisturbed, Faults = {}, ImplInv, Armed, Requests
    PROVE  Armed'
  <1>1. CASE \E d \in Writes : WrMemOp(d)
    BY <1>1, WrMemArms, Requested DEF WrMemOp, Idle
  <1>2. CASE \E a \in Marks : SetBreakpoint(a)
    <2>1. PICK a \in Marks : SetBreakpoint(a)
      BY <1>2
    <2>2. /\ pc = "idle" /\ pc' = "set_write" /\ flash' = flash
          /\ bps' = [x \in DOMAIN bps \cup {a} |-> IF x = a THEN mainMem'[a] ELSE bps[x]]
          /\ req' = [NoReq EXCEPT !.op = "set_breakpoint", !.data = Only(a, Brk)]
      BY <2>1 DEF SetBreakpoint, Idle, RdMemFails, LinkFails, Only
    <2>3. DOMAIN req'.data = {a} /\ DOMAIN bps' = DOMAIN bps \cup {a}
      BY <2>2 DEF NoReq, Only
    <2> QED
      BY <2>2, <2>3 DEF Armed
  <1>3. CASE \E a \in Marks : RemoveBreakpoint(a)
    <2>1. PICK a \in Marks : Idle /\ a \in DOMAIN bps /\ WrMem("remove_breakpoint", Only(a, bps[a]))
      BY <1>3 DEF RemoveBreakpoint, Only
    <2>2. IsData(Only(a, bps[a]))
      BY <2>1 DEF ImplInv, Inv, TypeOK, IsData, Only
    <2> QED
      BY <2>1, <2>2, WrMemArms DEF Idle
  <1>4. CASE MassErase
    BY <1>4 DEF MassErase, Idle, LinkFails, Nothing, Armed
  <1>5. CASE (\E D \in Reads : RdMemOp(D)) \/ RdCrc \/ WrFif \/ Run \/ Stop \/ Step \/ ResetLink
    <2>1. pc = "idle" /\ pc' = "idle" /\ bps' = bps
      BY <1>5 DEF RdMemOp, RdMemFails, RdCrc, WrFif, Run, Stop, Step, ResetLink, Idle, LinkFails, Throw, dbg
    <2>2. flash' = flash
      BY <1>5 DEF RdMemOp, RdMemFails, RdCrc, WrFif, Run, Stop, Step, ResetLink, Undisturbed
    <2> QED
      BY <2>1, <2>2 DEF Armed
  <1> QED
    BY <1>1, <1>2, <1>3, <1>4, <1>5 DEF Requests

LEMMA ArmedSteps ==
    ASSUME Undisturbed, Faults = {}, ImplInv, Armed, [ImplNext]_<<vars, img, brk>>
    PROVE  ImplInv' /\ Armed'
  <1>1. ImplInv' /\ TypeOK'
    BY ImplSteps DEF ImplInv, Inv
  <1>2. ASSUME Next PROVE Armed'
    BY <1>1, <1>2, RequestsArm, PartsArm DEF Next, Firmware
  <1>3. ASSUME UNCHANGED vars PROVE Armed'
    BY <1>3 DEF vars, Armed, B
  <1>4. Next \/ UNCHANGED vars
    BY DEF ImplNext
  <1> QED
    BY <1>1, <1>2, <1>3, <1>4

LEMMA ArmedStarts == ImplInit => ImplInv /\ Armed
  BY ImplStarts DEF ImplInit, Init, Nothing, Armed

\* Where no command and no cell fails, every breakpoint of the table is in the
\* flash between operations: with the cache and without, a page that is erased
\* for the sake of other addresses gets its breakpoints back.
THEOREM StayArmed == ASSUME Undisturbed, Faults = {} PROVE ImplSpec => []BreakpointsArmed
  <1>1. ImplInit => ImplInv /\ Armed
    BY ArmedStarts
  <1>2. ImplInv /\ Armed /\ [ImplNext]_<<vars, img, brk>> => (ImplInv /\ Armed)'
    BY ArmedSteps
  <1>3. Armed => BreakpointsArmed
    BY DEF Armed, BreakpointsArmed
  <1> QED
    BY <1>1, <1>2, <1>3, PTL DEF ImplSpec

\* The same of the build without faults beside one with them (MCMemVariants).
THEOREM PlainStaysArmed == ASSUME Undisturbed, Faults = {} PROVE VariantSpec => []ArmedWithoutFaults
  <1> DEFINE I == build = "plain" => ImplInv /\ Armed
  <1>1. VariantInit => I
    BY ArmedStarts DEF VariantInit
  <1>2. I /\ [VariantNext]_<<vars, img, brk, build>> => I'
    <2> SUFFICES ASSUME I, [VariantNext]_<<vars, img, brk, build>>, build' = "plain" PROVE ImplInv' /\ Armed'
      OBVIOUS
    <2>1. build = "plain" /\ [ImplNext]_<<vars, img, brk>>
      BY DEF VariantNext
    <2> QED
      BY <2>1, ArmedSteps
  <1>3. I => ArmedWithoutFaults
    BY DEF ArmedWithoutFaults, Armed, BreakpointsArmed
  <1> QED
    BY <1>1, <1>2, <1>3, PTL DEF VariantSpec
=============================================================================
