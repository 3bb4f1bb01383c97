------------------------------ MODULE NetImpl -------------------------------
(***************************************************************************)
(* ocd_tcpip as an implementation of OcdLink, like ocd_serial: NetLink with *)
(* a history of what the device at the other end has executed.  The         *)
(* commands are a read and a write; a reset and the questions for the state *)
(* of the link concern the link itself.                                     *)
(***************************************************************************)
EXTENDS NetLink

VARIABLES
    asked,  \* history: the last command, as long as the device may execute it
    ran     \* history: the requests for which the device has executed one since

history == <<asked, ran>>

\* ocd_tcpip::read or write has not returned.
Calling == client \in {"READ", "readdata", "WRITE"}

\* A new request: of the earlier ones none is left on its way.
Commanded(op) == asked' = op /\ ran' = <<>>

\* read or write may return without an exception.
Returned == IF Calling /\ client' = "idle" /\ open' /\ up' THEN Commanded("nothing") ELSE UNCHANGED history

\* The server passes a command to its own link, when that is up; when it fails,
\* the device may have executed it.
Carried ==
    /\ \/ auth /\ dbg /\ ran' = Append(ran, Head(toServer).of)
       \/ (auth /\ dbg => ~dbg') /\ ran' = ran
    /\ asked' = asked

ImplInit == Init /\ asked = "nothing" /\ ran = <<>>

ImplNext ==
    \/ (Connect \/ AskReset \/ AskStatus) /\ Commanded("nothing")
    \/ AskRead /\ Commanded("READ")
    \/ AskWrite /\ Commanded("WRITE")
    \/ (Confirmed \/ ReadData) /\ Returned
    \/ (ServeRead \/ ServeDataEnd) /\ Carried
    \/ /\ \/ Close \/ EatBlank \/ Greeted \/ Refused \/ Told \/ ReadFirst \/ HangsUp
          \/ Greet \/ ServeStatus \/ ServeUser \/ ServePassword \/ ServeReset
          \/ ServeWrite \/ ServeData \/ ServeClose \/ ServeEnd \/ Lose
       /\ UNCHANGED history

-----------------------------------------------------------------------------

\* The device has done something else than it was asked, or more than once, or
\* read is about to return something else than the answer.
Garbled ==
    \/ ran # <<>> /\ (asked = "nothing" \/ ran # <<sent>>)
    \/ client = "readdata" /\ toClient # <<>> /\ Head(toClient).word = "data" /\ Head(toClient).of # sent
=============================================================================
