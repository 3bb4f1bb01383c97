------------------------------ MODULE MCFlash -------------------------------
(***************************************************************************)
(* The three levels of a write to the flash, one at a time: the registers   *)
(* of its controller (FlashCtl), the passes of the flash utility over the   *)
(* parts on the bench (FlashUtil), and the file that it loads (HexFile).    *)
(***************************************************************************)
EXTENDS FlashCtl, FlashUtil, HexFile

VARIABLE level

\* A program may leave the controller unlocked, with the information area in the
\* window, or with the sector protect register selected.
UserPrograms == {<<"locked", "other", 7>>, <<"unlocked", "info", 7>>, <<"protect", "last", 8>>}
Blocks == {[c \in {1} |-> "x"], [c \in {2} |-> "00"]}

\* Two parts of different sizes with room for all, and one without.
PartSize == [p \in Parts |-> CASE p = "large" -> 3 [] p = "medium" -> 2 [] p = "small" -> 1]

\* Lines that meet, overlap, cross the end of a segment or leave the buffer,
\* bases of both kinds and none, and what is skipped or refused; an S-record, and
\* an Intel line with its base, that go to where addresses wrap.
IntelLines == {
    Record("00", 0, <<"a">>), Record("00", 1, <<"b", "ff">>), Record("00", 2, <<"ff", "c">>),
    Record("00", 3, <<"d", "e">>), Record("02", 0, <<>>), Record("02", 1, <<>>),
    Record("04", 1, <<>>), Record("04", 0, <<>>), Record("04", 3, <<>>), Record("03", 0, <<"ff">>), Record("01", 0, <<>>)}
SrecLines == {
    Record("S0", 0, <<"a">>), Record("S1", 0, <<"a", "b">>), Record("S2", 1, <<"c", "ff">>),
    Record("S3", 5, <<"d", "e">>), Record("S3", 15, <<"d", "e">>), Record("S5", 1, <<>>), Record("S5", 0, <<>>), Record("S9", 0, <<>>)}
LineFiles == {<<Record("corrupt", 0, <<>>)>>} \cup
    (UNION {[1 .. n -> IntelLines \cup {Record("corrupt", 0, <<>>)}] : n \in 0 .. 3}) \cup
    (UNION {[1 .. n -> SrecLines \cup {Record("00", 0, <<"a">>)}] : n \in 1 .. 3})
SavedImages == {<<>>} \cup UNION {[1 .. n -> {"a", "ff"}] : n \in 1 .. 6}

FlashLevelsInit ==
    /\ level \in {"controller", "utility", "file"}
    /\ FlashInit
    /\ level # "controller" => prog = [p \in Pages |-> BlankCells] /\ freq = 7
    /\ UtilInit
    /\ level # "utility" =>
        multipass /\ ~info /\ ~erase /\ ~numbered /\ bench = "large" /\ protected = {}
    /\ HexInit
    /\ level # "file" => doing = "write" /\ image = <<>> /\ offset = 0

FlashLevelsNext ==
    /\ UNCHANGED level
    /\ \/ level = "controller" /\ FlashNext /\ UNCHANGED <<utilVars, hexVars>>
       \/ level = "utility" /\ UtilNext /\ UNCHANGED <<flashVars, hexVars>>
       \/ level = "file" /\ HexNext /\ UNCHANGED <<flashVars, utilVars>>

FlashLevelsSpec ==
    /\ FlashLevelsInit /\ [][FlashLevelsNext]_<<level, flashVars, utilVars, hexVars>>
    /\ WF_utilVars(level = "utility" /\ UtilStep)

\* The state of every level is well formed.
LevelsTypeOK == FlashTypeOK /\ UtilTypeOK /\ HexTypeOK
=============================================================================
