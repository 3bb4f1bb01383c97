--------------------------- MODULE MCRunVariants ----------------------------
(***************************************************************************)
(* Devices of RunControl and the monitors that use them, one at a time:     *)
(* that of the configuration, which is polled and which nothing but the     *)
(* line disturbs; the same of revision 0100; the latest revision on the     *)
(* short program with every fault; and sessions of Monitor.  The instances  *)
(* are of the module with the proofs, which MonitorProofs takes from them.  *)
(***************************************************************************)
EXTENDS MCRunControl, Monitor

VARIABLE chip

\* That of the configuration.  It is an instance, too, as TLC evaluates Step, Plain
\* and the other constant operators of a module that has none once for all, with
\* the revision of the configuration.
Polled == INSTANCE RunControl

First == INSTANCE RunControlProofs WITH Rev <- "0100"

Latest == INSTANCE RunControlProofs WITH
    Addr <- ShortAddr, Marks <- {0, 1}, Flow <- ShortFlow, Kind <- ShortKind, ResetPc <- 0,
    Rev <- "later", Faults <- {"link", "break", "noise", "trace"}

\* What is not chosen stays where it begins.
VariantInit ==
    /\ chip \in {"polled", "first", "latest", "monitor"}
    /\ IF chip = "latest" THEN Latest!Init ELSE Init
    /\ MonitorInit

VariantNext ==
    /\ UNCHANGED chip
    /\ \/ chip = "polled" /\ Next /\ UNCHANGED monitorVars
       \/ chip = "first" /\ First!Next /\ UNCHANGED monitorVars
       \/ chip = "latest" /\ Latest!Next /\ UNCHANGED monitorVars
       \/ chip = "monitor" /\ MonitorNext /\ UNCHANGED vars

VariantSpec ==
    /\ VariantInit /\ [][VariantNext]_<<chip, vars, monitorVars>>
    /\ WF_vars(chip = "polled" /\ Polled!Parts)
    /\ SF_vars(chip = "polled" /\ Polled!Request({IsRunning}, {NoStop}))

\* A device that stops by itself is found to have stopped (isrunning), by polling
\* over a serial line, whatever breaks come between, unless it is made to run again.
StopsSeen ==
    (chip = "polled" /\ mode = "debug" /\ "DBGCTL" \in cached /\ hctl = "run")
        ~> ("DBGCTL" \in cached /\ hctl = "debug") \/ mode = "run"

\* The state is well formed, whatever was chosen.
VariantsTypeOK == (IF chip = "latest" THEN Latest!TypeOK ELSE TypeOK) /\ MonitorTypeOK
=============================================================================
