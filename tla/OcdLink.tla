------------------------------ MODULE OcdLink -------------------------------
(***************************************************************************)
(* What a link promises to the levels above (ocd.h), whether ocd_serial or *)
(* ocd_tcpip: a command that returns was executed by the device, once, and *)
(* returns the device's own answer; one that throws is executed at most    *)
(* once, and leaves the link down; once the link has been reset nothing is *)
(* executed but what is asked for then.                                    *)
(***************************************************************************)
CONSTANTS
    Commands,   \* what can be asked of the device
    Answers,    \* what it can answer
    None        \* no command, no answer

VARIABLES
    up,         \* the link may be used
    asked,      \* the last command, as long as the device may execute it
    waiting,    \* the call for it has not returned
    ran,        \* the device has executed it
    answer      \* what the device answered to it

Init == up = FALSE /\ asked = None /\ waiting = FALSE /\ ran = FALSE /\ answer = None

Ask(c) ==
    /\ up /\ asked = None
    /\ asked' = c /\ waiting' = TRUE
    /\ UNCHANGED <<up, ran, answer>>

Execute ==
    /\ asked # None /\ ~ran
    /\ ran' = TRUE /\ answer' \in Answers \cup {None}
    /\ UNCHANGED <<up, asked, waiting>>

Return ==
    /\ up /\ waiting /\ ran
    /\ asked' = None /\ waiting' = FALSE /\ ran' = FALSE /\ answer' = None
    /\ up' = up

Throw ==
    /\ waiting
    /\ up' = FALSE /\ waiting' = FALSE
    /\ UNCHANGED <<asked, ran, answer>>

\* The link fails, or comes up again: of itself under a command that has not
\* reached the device, or when it is reset.
Relink ==
    /\ waiting => ~ran
    /\ asked # None /\ ~waiting => up' = FALSE
    /\ up' \in BOOLEAN
    /\ UNCHANGED <<asked, waiting, ran, answer>>

Forget ==
    /\ ~up /\ ~waiting
    /\ asked' = None /\ ran' = FALSE /\ answer' = None
    /\ UNCHANGED <<up, waiting>>

Next == (\E c \in Commands : Ask(c)) \/ Execute \/ Return \/ Throw \/ Relink \/ Forget

Spec == Init /\ [][Next]_<<up, asked, waiting, ran, answer>>
=============================================================================
