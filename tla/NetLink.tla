------------------------------ MODULE NetLink -------------------------------
(***************************************************************************)
(* The on-chip debugger link over a network: ocd_tcpip, the client, sends   *)
(* one request and waits for its answer; service_client of server.cpp       *)
(* serves one client after another on a link of its own, dbg.  The protocol *)
(* numbers nothing: the next line is taken for the answer.  Here every line *)
(* carries the number of the request it belongs to, which nobody looks at,  *)
(* to say whether that is so.                                               *)
(***************************************************************************)
EXTENDS Naturals, Sequences

CONSTANTS
    AuthNeeded,   \* the server was started with a list of passwords
    MaxRequests,  \* bound on the requests of one connection
    Faults        \* "read", "write", "reset" (of the server's link), "net"

ASSUME NetLinkAssumption ==
    /\ AuthNeeded \in BOOLEAN /\ MaxRequests \in Nat
    /\ Faults \subseteq {"read", "write", "reset", "net"}

VARIABLES
    client,    \* what ocd_tcpip is doing: "off", "idle", "crashed" or Waiting
    open, up,  \* ocd_tcpip::open, ocd_tcpip::up
    wrote,     \* the last operation was a write that succeeded
    sent,      \* the number of the last request of this connection
    server,    \* what service_client waits for; "accept" between clients
    auth,      \* its auth: the client may use the link
    proved,    \* history: the client of this connection knew a password
    dbg,       \* the server's own link is up
    conn,      \* the connection is there
    toServer, toClient  \* lines on their way

clientVars == <<client, open, up, wrote, sent>>
serverVars == <<server, auth, proved, dbg>>
vars == <<clientVars, serverVars, conn, toServer, toClient>>

Line(word, n) == [word |-> word, of |-> n]
Lines(words, n) == [i \in DOMAIN words |-> Line(words[i], n)]

-----------------------------------------------------------------------------
(* The client asks.                                                        *)

Waiting ==
    {"hello", "status", "user", "password", "RESET", "STATUS", "READ", "readdata", "WRITE"}

\* What is sent into a lost connection goes nowhere: the answer, an end of
\* file, tells the client.
Post(words) ==
    /\ sent' = sent + 1
    /\ toServer' = IF conn THEN toServer \o Lines(words, sent + 1) ELSE toServer

\* A client that comes while another is served waits in the backlog of listen,
\* as good as not there.
Connect ==
    /\ client = "off" /\ server = "accept"
    /\ client' = "hello" /\ conn' = TRUE
    /\ open' = FALSE /\ up' = FALSE /\ wrote' = FALSE /\ sent' = 0
    /\ toServer' = <<>> /\ toClient' = <<>>
    /\ UNCHANGED serverVars

Ask(op, words) ==
    /\ client = "idle" /\ open /\ sent < MaxRequests
    /\ client' = op /\ Post(words) /\ wrote' = FALSE
    /\ UNCHANGED <<open, serverVars, conn, toClient>>

AskReset == Ask("RESET", <<"RESET">>) /\ up' = FALSE
AskStatus == Ask("STATUS", <<"STATUS">>) /\ up' = up
AskWrite == up /\ Ask("WRITE", <<"WRITE", "data", "blank">>) /\ up' = up

\* Mutant: the acknowledge of a breakpoint is read without asking whether there
\* is one.
AskReadAnyTime == up /\ Ask("READ", <<"READ">>) /\ up' = up

\* ez8ocd reads only what it has written a command for.
AskRead == up /\ wrote /\ Ask("READ", <<"READ">>) /\ up' = up

\* The destructor.
Close ==
    /\ client = "idle"
    /\ client' = "off" /\ conn' = FALSE /\ toClient' = <<>>
    /\ toServer' = IF conn THEN Append(toServer, Line("CLOSE", sent + 1)) ELSE toServer
    /\ UNCHANGED <<open, up, wrote, sent, serverVars>>

-----------------------------------------------------------------------------
(* The client takes a line.                                                *)

Word == Head(toClient).word
Take(waiting) == client \in waiting /\ toClient # <<>> /\ toClient' = Tail(toClient)

EatBlank ==
    /\ Take(Waiting \ {"hello", "READ", "readdata"}) /\ Word = "blank"
    /\ UNCHANGED <<clientVars, serverVars, conn, toServer>>

\* validate_server and auth_server, to the point where connect sets open.
Greeted ==
    /\ Take({"hello", "status", "user", "password"}) /\ Word # "blank"
    /\ \/ client = "hello" /\ client' = "status" /\ Post(<<"STATUS">>) /\ open' = open
       \/ client = "status" /\ Word = "AUTH" /\ client' = "user" /\ Post(<<"USER">>) /\ open' = open
       \/ /\ client = "user" /\ client' = "password" /\ open' = open
          /\ \E word \in {"right", "wrong"} : Post(<<word>>)
       \/ /\ Word \in (CASE client = "status" -> {"UP", "DOWN"} [] client = "password" -> {"OK"}
                          [] OTHER -> {})
          /\ client' = "idle" /\ open' = TRUE /\ UNCHANGED <<sent, toServer>>
    /\ UNCHANGED <<up, wrote, serverVars, conn>>

\* Mutant: nobody closes the socket.
RefusedLeavesSocket ==
    /\ client \in {"hello", "status", "user", "password"}
    /\ \/ client = "password" /\ toClient # <<>> /\ Word = "ERR"
       \/ toClient = <<>> /\ ~conn
    /\ client' = "off" /\ conn' = conn /\ toClient' = <<>>
    /\ UNCHANGED <<open, up, wrote, sent, serverVars, toServer>>

\* When connecting fails, the socket is closed without a CLOSE.
Refused ==
    /\ client \in {"hello", "status", "user", "password"}
    /\ \/ client = "password" /\ toClient # <<>> /\ Word = "ERR"
       \/ toClient = <<>> /\ ~conn
    /\ client' = "off" /\ conn' = FALSE /\ toClient' = <<>>
    /\ UNCHANGED <<open, up, wrote, sent, serverVars, toServer>>

Answered(isOpen, isUp) ==
    /\ client' = "idle" /\ open' = isOpen /\ up' = isUp
    /\ UNCHANGED <<sent, serverVars, conn, toServer>>

\* The answer to reset or write, then to link_up.
Confirmed ==
    /\ Take({"RESET", "WRITE"}) /\ Word # "blank"
    /\ Answered(Word \in {"OK", "ERR"}, IF Word \in {"OK", "ERR"} THEN Word = "OK" ELSE up)
    /\ wrote' = (client = "WRITE" /\ Word = "OK")

Told ==
    /\ Take({"STATUS"}) /\ Word # "blank" /\ wrote' = wrote
    /\ Answered(Word \in {"UP", "DOWN"}, IF Word \in {"UP", "DOWN"} THEN Word = "UP" ELSE up)

\* Mutant: the error leaves up as it was.
ReadFirstStaysUp ==
    /\ Take({"READ"}) /\ wrote' = wrote
    /\ \/ /\ Word \in {"OK", "blank"}
          /\ client' = IF Word = "OK" THEN "readdata" ELSE "crashed"
          /\ UNCHANGED <<open, up, sent, serverVars, conn, toServer>>
       \/ Word \notin {"OK", "blank"} /\ Answered(Word = "ERR", up)

\* read does not eat blank lines: on one, strtok returns NULL to strcasecmp.
ReadFirst ==
    /\ Take({"READ"}) /\ wrote' = wrote
    /\ \/ /\ Word \in {"OK", "blank"}
          /\ client' = IF Word = "OK" THEN "readdata" ELSE "crashed"
          /\ UNCHANGED <<open, up, sent, serverVars, conn, toServer>>
       \/ Word \notin {"OK", "blank"} /\ Answered(Word = "ERR", up /\ Word # "ERR")

\* read does not read up to the blank line after the data.
ReadData ==
    /\ Take({"readdata"}) /\ wrote' = wrote
    /\ \/ Word = "data" /\ Answered(TRUE, up)
       \/ Word # "data" /\ Answered(FALSE, up)

\* Mutant: the end of file is an error like another, and leaves the link open.
HangsUpOpen ==
    /\ client \in {"RESET", "STATUS", "READ", "readdata", "WRITE"}
    /\ toClient = <<>> /\ ~conn
    /\ Answered(TRUE, up) /\ UNCHANGED <<wrote, toClient>>

\* End of file.
HangsUp ==
    /\ client \in {"RESET", "STATUS", "READ", "readdata", "WRITE"}
    /\ toClient = <<>> /\ ~conn
    /\ Answered(FALSE, up) /\ UNCHANGED <<wrote, toClient>>

-----------------------------------------------------------------------------
(* The server.                                                             *)

\* Answers are flushed before the next request is read; into a lost connection
\* they go nowhere.
Answer(words) ==
    toClient' = IF conn THEN toClient \o Lines(words, Head(toServer).of) ELSE toClient

\* Mutant: auth is kept from one client to the next.
GreetKeepsAuth ==
    /\ server = "accept" /\ client = "hello" /\ conn
    /\ server' = "request" /\ auth' = (auth \/ ~AuthNeeded) /\ proved' = FALSE
    /\ toClient' = <<Line("hello", 0)>>
    /\ UNCHANGED <<clientVars, dbg, conn, toServer>>

Greet ==
    /\ server = "accept" /\ client = "hello" /\ conn
    /\ server' = "request" /\ auth' = ~AuthNeeded /\ proved' = FALSE
    /\ toClient' = <<Line("hello", 0)>>
    /\ UNCHANGED <<clientVars, dbg, conn, toServer>>

Serve(state, words) ==
    /\ server = state /\ toServer # <<>> /\ Head(toServer).word \in words
    /\ toServer' = Tail(toServer)
    /\ UNCHANGED <<clientVars, conn>>

ServeStatus ==
    /\ Serve("request", {"STATUS"})
    /\ Answer(<<IF ~auth THEN "AUTH" ELSE IF dbg THEN "UP" ELSE "DOWN">>)
    /\ UNCHANGED serverVars

\* client_auth, in two parts.
ServeUser ==
    /\ Serve("request", {"USER"})
    /\ Answer(<<"CHALLENGE">>)
    /\ server' = "password"
    /\ UNCHANGED <<auth, proved, dbg>>

ServePassword ==
    /\ Serve("password", {"right", "wrong"})
    /\ LET right == Head(toServer).word = "right" IN
        /\ Answer(<<IF right THEN "OK" ELSE "ERR">>)
        /\ auth' = (auth \/ right) /\ proved' = (proved \/ right)
    /\ server' = "request" /\ dbg' = dbg

\* A request for the link: what it does to dbg, and the answer.
Operate(state, word, outcomes) ==
    /\ Serve(state, {word})
    /\ \E outcome \in (IF auth THEN outcomes ELSE {<<dbg, <<"ERR">>>>}) :
        dbg' = outcome[1] /\ Answer(outcome[2])
    /\ server' = "request" /\ UNCHANGED <<auth, proved>>

Failing(fault, words) == IF fault \in Faults THEN {<<FALSE, words>>} ELSE {}

\* Mutant: a reset that fails is not answered.
ServeResetSilently ==
    Operate("request", "RESET", {<<TRUE, <<"OK">>>>} \cup Failing("reset", <<>>))

ServeReset ==
    Operate("request", "RESET", {<<TRUE, <<"OK">>>>} \cup Failing("reset", <<"ERR">>))

\* Mutant: a read that fails goes on as if it had not.
ServeReadGoesOn ==
    Operate("request", "READ",
        IF ~dbg THEN {<<FALSE, <<"ERR">>>>}
        ELSE {<<TRUE, <<"OK", "data", "blank">>>>}
                \cup Failing("read", <<"ERR", "OK", "data", "blank">>))

ServeRead ==
    Operate("request", "READ",
        IF ~dbg THEN {<<FALSE, <<"ERR">>>>}
        ELSE {<<TRUE, <<"OK", "data", "blank">>>>} \cup Failing("read", <<"ERR">>))

\* The data of a write go on up to a blank line.
ServeWrite ==
    /\ Serve("request", {"WRITE"})
    /\ server' = "data" /\ UNCHANGED <<auth, proved, dbg, toClient>>

ServeData ==
    /\ Serve("data", {"data"})
    /\ UNCHANGED <<serverVars, toClient>>

\* After the exception client_write goes on to the answer of a write that
\* succeeded.
ServeDataEnd ==
    Operate("data", "blank",
        IF ~dbg THEN {<<FALSE, <<"ERR">>>>}
        ELSE {<<TRUE, <<"OK">>>>} \cup Failing("write", <<"ERR", "OK">>))

ServeClose ==
    /\ Serve("request", {"CLOSE"})
    /\ server' = "accept" /\ UNCHANGED <<auth, proved, dbg, toClient>>

\* ss_gets finds the end of file.
ServeEnd ==
    /\ server # "accept" /\ toServer = <<>> /\ ~conn
    /\ server' = "accept"
    /\ UNCHANGED <<clientVars, auth, proved, dbg, conn, toServer, toClient>>

-----------------------------------------------------------------------------

\* The connection is lost, and with it the last of the lines on their way.
Lose ==
    /\ "net" \in Faults /\ conn
    /\ conn' = FALSE
    /\ \E m \in 0 .. Len(toServer), n \in 0 .. Len(toClient) :
        toServer' = SubSeq(toServer, 1, m) /\ toClient' = SubSeq(toClient, 1, n)
    /\ UNCHANGED <<clientVars, serverVars>>

Init ==
    /\ client = "off" /\ open = FALSE /\ up = FALSE /\ wrote = FALSE /\ sent = 0
    /\ server = "accept" /\ auth = FALSE /\ proved = FALSE /\ dbg \in BOOLEAN
    /\ conn = FALSE /\ toServer = <<>> /\ toClient = <<>>

Asks == Connect \/ AskReset \/ AskStatus \/ AskWrite \/ AskRead \/ Close

Takes ==
    EatBlank \/ Greeted \/ Refused \/ Confirmed \/ Told \/ ReadFirst \/ ReadData \/ HangsUp

Serves ==
    \/ Greet \/ ServeStatus \/ ServeUser \/ ServePassword \/ ServeReset \/ ServeRead
    \/ ServeWrite \/ ServeData \/ ServeDataEnd \/ ServeClose \/ ServeEnd

Next == Asks \/ Takes \/ Serves \/ Lose

Spec == Init /\ [][Next]_vars

\* Both ends do nothing but wait for the next line.
LiveSpec == Spec /\ WF_vars(Takes) /\ WF_vars(Serves)

-----------------------------------------------------------------------------

\* The lines in either direction.
ServerWords ==
    {"STATUS", "USER", "right", "wrong", "RESET", "READ", "WRITE", "data", "blank", "CLOSE"}
ClientWords == {"hello", "AUTH", "UP", "DOWN", "CHALLENGE", "OK", "ERR", "data", "blank"}
ToServer == [word : ServerWords, of : Nat]
ToClient == [word : ClientWords, of : Nat]

\* Types; and no connection without a client.
TypeOK ==
    /\ client \in {"off", "idle", "crashed"} \cup Waiting
    /\ open \in BOOLEAN /\ up \in BOOLEAN /\ wrote \in BOOLEAN /\ sent \in Nat
    /\ server \in {"accept", "request", "password", "data"}
    /\ auth \in BOOLEAN /\ proved \in BOOLEAN /\ dbg \in BOOLEAN
    /\ conn \in BOOLEAN /\ (conn => client # "off")
    /\ toServer \in Seq(ToServer)
    /\ toClient \in Seq(ToClient)

\* "The client sends a command to the server, the server executes the command
\* and then returns a response" (docs/netproto.txt:14): what the client takes
\* for the answer to its request, blank lines aside, is the answer to it.
AnswersAreOwn ==
    client \in Waiting /\ toClient # <<>> /\ Head(toClient).word # "blank"
        => Head(toClient).of = sent

\* Data the client takes are those it asked for last: the debugger never shows
\* the bytes of an earlier command.  It does once writes have failed, after 17
\* requests: with four answers too many, an error of an earlier write is taken
\* for that of a read, whose data are then found by a later one.
ReadsAreOwn ==
    [][client = "readdata" /\ client' = "idle" /\ open'
            => Head(toClient) = Line("data", sent)]_vars

\* A client that takes the link for up, and so goes on to send commands, is
\* right: every way down of the server's link has reached it.
UpIsUp == client = "idle" /\ open /\ up => dbg

\* Only for a client that knew a password of its own is the link worked, its
\* predecessors' do not count.
OnlyAuthorized == AuthNeeded /\ server # "accept" /\ auth => proved

\* ocd_tcpip::read never meets a blank line in the place of its answer.
NoCrash == client # "crashed"

\* A client that waits for an answer gets one, or learns that there is none.
Answers == client \in Waiting ~> client \notin Waiting
=============================================================================
