---------------------------- MODULE MCRunControl ----------------------------
(***************************************************************************)
(* Instances of RunControl.  Loop: 1 -> 0 -> 2 -> 1, whose instruction at 1 *)
(* calls 0, which may take long, enables interrupts and returns to 2, which *)
(* disables them.  Short: 0 -> 1 -> 0, starting at an address where no      *)
(* breakpoint can be.                                                       *)
(***************************************************************************)
EXTENDS RunControl

LoopAddr == 0 .. 2
LoopFlow == [a \in LoopAddr |-> CASE a = 1 -> {0} [] a = 0 -> {0, 2} [] a = 2 -> {1}]
LoopKind == [a \in LoopAddr |-> CASE a = 1 -> "call" [] a = 0 -> "ei" [] a = 2 -> "di"]

ShortAddr == 0 .. 1
ShortFlow == [a \in ShortAddr |-> {1 - a}]
ShortKind == [a \in ShortAddr |-> "plain"]
=============================================================================
