--------------------------- MODULE MCMemVariants ----------------------------
(***************************************************************************)
(* Two builds of MemCacheImpl in one run: one with the cache whose link     *)
(* fails, and the one of the configuration, without the cache and without   *)
(* faults.                                                                  *)
(***************************************************************************)
EXTENDS MCMemCache

VARIABLE build

Caching == INSTANCE MemCacheImpl WITH CacheOn <- TRUE, Faults <- {"link"}

VariantInit == build \in {"caching", "plain"} /\ ImplInit

VariantNext ==
    /\ UNCHANGED build
    /\ \/ build = "caching" /\ Caching!ImplNext
       \/ build = "plain" /\ ImplNext

VariantSpec == VariantInit /\ [][VariantNext]_<<vars, img, brk, build>>

\* Between operations every breakpoint of the table (ez8dbg_brk.cpp) is in the
\* flash, however often its page was erased and written for the sake of other
\* addresses (wr_mem): where nothing fails.
ArmedWithoutFaults == build = "plain" => BreakpointsArmed
=============================================================================
