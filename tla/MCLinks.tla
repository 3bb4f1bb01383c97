------------------------------ MODULE MCLinks -------------------------------
(***************************************************************************)
(* The layers between a command and the wire, one of them at a time: the    *)
(* block commands (OcdCommands), the serial link (OcdSerial) and the        *)
(* stream of the network link (SockStream).                                 *)
(***************************************************************************)
EXTENDS OcdSerial, SockStream, OcdCommands

VARIABLE layer

\* A command without operand and one with, in one write or in two; what they
\* read and write includes every byte that means something on the way.
Job(name, fresh, writes, size) == [name |-> name, fresh |-> fresh, writes |-> writes, size |-> size]
LinkJobs == {
    Job("rd", TRUE, <<<<"rd">>>>, 2),
    Job("rd_plain", FALSE, <<<<"rd">>>>, 2),
    Job("go", TRUE, <<<<"go">>>>, 0),
    Job("wr", TRUE, <<<<"wr", "ff">>>>, 0),
    Job("wr_split", TRUE, <<<<"wr">>, <<"rd">>>>, 0),
    Job("ack", FALSE, <<>>, 1)}
LinkAnswers == {<<"rd", "ff">>, <<"00", "sync">>}

\* Formats with the newline at their end, alone, twice (a blank line), and none.
Formats == {<<"a", "nl">>, <<"b", "c">>, <<"nl">>, <<"nl", "nl">>, <<"c", "b">>}

\* The other two stay where they begin.
LinksInit ==
    /\ layer \in {"serial", "stream", "blocks"}
    /\ Init /\ StreamInit /\ BlockInit
    /\ layer # "serial" => ~running
    /\ layer # "blocks" => req = CHOOSE r \in Requests : TRUE

LinksNext ==
    /\ UNCHANGED layer
    /\ \/ layer = "serial" /\ Next /\ UNCHANGED <<streamVars, blockVars>>
       \/ layer = "stream" /\ StreamNext /\ UNCHANGED <<vars, blockVars>>
       \/ layer = "blocks" /\ BlockNext /\ UNCHANGED <<vars, streamVars>>

LinksSpec ==
    /\ LinksInit /\ [][LinksNext]_<<layer, vars, streamVars, blockVars>>
    /\ Fairness
    /\ WF_streamVars(layer = "stream" /\ (SsSend \/ SendFails \/ Flushed))
    /\ SF_streamVars(layer = "stream" /\ SsFlush)
    /\ WF_streamVars(layer = "stream" /\ Receiver)

\* The state of every layer is well formed.
LinksTypeOK == TypeOK /\ StreamTypeOK /\ BlockTypeOK
=============================================================================
