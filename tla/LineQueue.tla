----------------------------- MODULE LineQueue ------------------------------
(***************************************************************************)
(* What sockstream.c promises to the network link: one direction of a       *)
(* connection is a queue of characters, into which whole messages are put   *)
(* and from which lines are taken, one at a time and whole; a connection    *)
(* that is lost takes the end of the queue with it, and what is printed     *)
(* after that.                                                              *)
(***************************************************************************)
EXTENDS Integers, Sequences

CONSTANTS
    Messages,   \* what is printed
    Room        \* what the reader has room for

VARIABLES
    queue,  \* what was printed and not yet read
    lost,   \* the connection is gone
    lines   \* what was read

Init == queue = <<>> /\ lost = FALSE /\ lines = <<>>

Printf(m) ==
    /\ queue' = IF lost THEN queue ELSE queue \o m
    /\ UNCHANGED <<lost, lines>>

\* A line ends with its newline, or where there is no more room for it.
IsLine(n) ==
    /\ queue[n] = "nl" \/ n = Room
    /\ \A i \in 1 .. n - 1 : queue[i] # "nl"

Read ==
    /\ \E n \in 1 .. Len(queue) :
        /\ IsLine(n)
        /\ lines' = Append(lines, SubSeq(queue, 1, n))
        /\ queue' = SubSeq(queue, n + 1, Len(queue))
    /\ UNCHANGED lost

Lose ==
    /\ ~lost /\ lost' = TRUE
    /\ \E n \in 0 .. Len(queue) : queue' = SubSeq(queue, 1, n)
    /\ UNCHANGED lines

Next == (\E m \in Messages : Printf(m)) \/ Read \/ Lose

Spec == Init /\ [][Next]_<<queue, lost, lines>>
=============================================================================
