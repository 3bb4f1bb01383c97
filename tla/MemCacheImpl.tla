---------------------------- MODULE MemCacheImpl ----------------------------
(***************************************************************************)
(* MemCache implements ProgramMemory.  In the middle of an operation the    *)
(* flash is in pieces; img and brk remember what the program and the table  *)
(* were when the last operation ended, and the refinement is between ends.  *)
(***************************************************************************)
EXTENDS MemCache

VARIABLES img, brk

ImplInit == Init /\ img = View /\ brk = DOMAIN bps

ImplNext ==
    /\ Next
    /\ img' = IF pc' = "idle" THEN View' ELSE img
    /\ brk' = IF pc' = "idle" THEN DOMAIN bps' ELSE brk

ImplSpec == ImplInit /\ [][ImplNext]_<<vars, img, brk>>

Memory == INSTANCE ProgramMemory WITH link <- up

\* Setting and removing breakpoints never changes the program; a write changes
\* the bytes it was asked to change, whatever breakpoints and other bytes share
\* its pages; a failure of the link spoils the pages being written and no other.
ImplementsProgramMemory == Memory!Spec
=============================================================================
