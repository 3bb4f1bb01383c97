--------------------------- MODULE ProgramMemory ----------------------------
(***************************************************************************)
(* What the debugger API promises about program memory: the image img that  *)
(* the user has put there, and the set brk of breakpoints on top of it.     *)
(* Writing changes the image, breakpoints never do, and an operation that   *)
(* fails with the link may spoil no page but those it was asked to write.   *)
(***************************************************************************)
EXTENDS Integers

CONSTANTS
    Addr, Byte, Blank,  \* the memory, and the byte of an erased cell
    PageOf(_),          \* the page an address is on
    Writes, Marks       \* the writes and the breakpoints asked for

VARIABLES
    img,    \* the program, breakpoints taken out
    brk,    \* where breakpoints are set
    link    \* the link is up

Put(d) == [a \in Addr |-> IF a \in DOMAIN d THEN d[a] ELSE img[a]]

Write(d) == img' = Put(d) /\ UNCHANGED <<brk, link>>

SetBreakpoint(a) == brk' = brk \cup {a} /\ UNCHANGED <<img, link>>

RemoveBreakpoint(a) == brk' = brk \ {a} /\ UNCHANGED <<img, link>>

MassErase == img' = [a \in Addr |-> Blank] /\ brk' = {} /\ UNCHANGED link

\* The link fails, in an operation that was to write the addresses of W: it is
\* the other pages that keep their bytes.
Cut(W) ==
    /\ link' = FALSE
    /\ img' \in [Addr -> Byte]
    /\ \A a \in Addr : PageOf(a) \notin {PageOf(b) : b \in W} => img'[a] = img[a]
    /\ brk' = brk

\* The link fails in set_breakpoint: the table may hold it or not.
CutSet(a) == link' = FALSE /\ img' = img /\ brk' \in {brk, brk \cup {a}}

\* The link fails in mass_erase: the table is lost, and with it the opcodes
\* under the breakpoints if the flash is not erased.
CutErase ==
    /\ link' = FALSE /\ brk' = {}
    /\ \/ img' = [a \in Addr |-> Blank]
       \/ \E d \in [brk -> Byte] : img' = Put(d)

LinkReset == link' = TRUE /\ UNCHANGED <<img, brk>>
LinkLost == link' = FALSE /\ UNCHANGED <<img, brk>>

Init == img \in [Addr -> Byte] /\ brk = {} /\ link = TRUE

Next ==
    \/ \E d \in Writes : Write(d) \/ Cut(DOMAIN d)
    \/ \E a \in Marks : SetBreakpoint(a) \/ RemoveBreakpoint(a) \/ Cut({a}) \/ CutSet(a)
    \/ MassErase \/ CutErase \/ LinkReset \/ LinkLost

Spec == Init /\ [][Next]_<<img, brk, link>>
=============================================================================
