--------------------------- MODULE NetLinkProofs ----------------------------
(***************************************************************************)
(* What the two ends of the network link (NetLink) may rely on, for any     *)
(* number of requests and connections.                                      *)
(***************************************************************************)
EXTENDS MCNetVariants, Integers, SequenceTheorems, TLAPS

-----------------------------------------------------------------------------
(* Lines.                                                                  *)

LEMMA LinesAre ==
    ASSUME NEW W, NEW words \in Seq(W), NEW n \in Nat
    PROVE  /\ Lines(words, n) \in Seq([word : W, of : Nat]) /\ Len(Lines(words, n)) = Len(words)
           /\ \A i \in 1 .. Len(words) : Lines(words, n)[i].word = words[i] /\ Lines(words, n)[i].of = n
  <1>1. Len(words) \in Nat /\ DOMAIN words = 1 .. Len(words)
    BY LenProperties
  <1>2. \A i \in 1 .. Len(words) : Line(words[i], n) \in [word : W, of : Nat]
    BY <1>1, ElementOfSeq DEF Line
  <1>3. Lines(words, n) = [i \in 1 .. Len(words) |-> Line(words[i], n)]
    BY <1>1 DEF Lines
  <1>4. Lines(words, n) \in [1 .. Len(words) -> [word : W, of : Nat]]
    BY <1>2, <1>3
  <1>5. Lines(words, n) \in Seq([word : W, of : Nat]) /\ Len(Lines(words, n)) = Len(words)
    BY <1>1, <1>4, <1>3
  <1> QED
    BY <1>3, <1>5 DEF Line

\* Lines put behind those on their way.
LEMMA Behind ==
    ASSUME NEW W, NEW s \in Seq([word : W, of : Nat]), NEW words \in Seq(W), NEW n \in Nat
    PROVE  /\ s \o Lines(words, n) \in Seq([word : W, of : Nat])
           /\ Len(s \o Lines(words, n)) = Len(s) + Len(words)
           /\ \A i \in 1 .. Len(s) : (s \o Lines(words, n))[i] = s[i]
           /\ \A i \in Len(s) + 1 .. Len(s) + Len(words) :
                (s \o Lines(words, n))[i] = Lines(words, n)[i - Len(s)] /\ i - Len(s) \in 1 .. Len(words)
  <1>1. /\ Lines(words, n) \in Seq([word : W, of : Nat]) /\ Len(Lines(words, n)) = Len(words)
        /\ \A i \in 1 .. Len(words) : Lines(words, n)[i].word = words[i] /\ Lines(words, n)[i].of = n
    BY LinesAre
  <1>2. Len(s) \in Nat /\ Len(words) \in Nat
    BY LenProperties
  <1>3. /\ s \o Lines(words, n) \in Seq([word : W, of : Nat])
        /\ Len(s \o Lines(words, n)) = Len(s) + Len(words)
        /\ \A i \in 1 .. Len(s) + Len(words) :
            (s \o Lines(words, n))[i] = IF i <= Len(s) THEN s[i] ELSE Lines(words, n)[i - Len(s)]
    <2> DEFINE t == Lines(words, n)
    <2>1. t \in Seq([word : W, of : Nat]) /\ Len(t) = Len(words)
      BY <1>1
    <2> HIDE DEF t
    <2>2. /\ s \o t \in Seq([word : W, of : Nat]) /\ Len(s \o t) = Len(s) + Len(t)
          /\ \A i \in 1 .. Len(s) + Len(t) : (s \o t)[i] = IF i <= Len(s) THEN s[i] ELSE t[i - Len(s)]
      BY <2>1, ConcatProperties
    <2> QED
      BY <2>1, <2>2 DEF t
  <1>4. ASSUME NEW i \in Len(s) + 1 .. Len(s) + Len(words)
        PROVE  (s \o Lines(words, n))[i] = Lines(words, n)[i - Len(s)] /\ i - Len(s) \in 1 .. Len(words)
    BY <1>2, <1>3
  <1> QED
    BY <1>1, <1>2, <1>3, <1>4

LEMMA First ==
    ASSUME NEW S, NEW s \in Seq(S), s # <<>>
    PROVE  /\ Head(s) = s[1] /\ Head(s) \in S /\ 1 \in 1 .. Len(s)
           /\ Tail(s) \in Seq(S) /\ Len(Tail(s)) = Len(s) - 1
           /\ \A i \in 1 .. Len(Tail(s)) : Tail(s)[i] = s[i + 1] /\ i + 1 \in 1 .. Len(s)
  <1>1. Len(s) \in Nat /\ Len(s) # 0
    BY EmptySeq, LenProperties
  <1>2. Len(Tail(s)) = Len(s) - 1
    BY HeadTailProperties
  <1> QED
    BY <1>1, <1>2, HeadTailProperties

LEMMA Begins ==
    ASSUME NEW S, NEW s \in Seq(S), NEW n \in 0 .. Len(s)
    PROVE  /\ SubSeq(s, 1, n) \in Seq(S) /\ Len(SubSeq(s, 1, n)) = n
           /\ \A i \in 1 .. n : SubSeq(s, 1, n)[i] = s[i] /\ i \in 1 .. Len(s)
  <1>1. Len(s) \in Nat
    BY LenProperties
  <1>2. \A i \in 1 .. n : s[i] \in S
    BY <1>1, ElementOfSeq
  <1> QED
    BY <1>1, <1>2, SubSeqProperties

LEMMA EmptyIs == ASSUME NEW S, NEW s \in Seq(S) PROVE s = <<>> <=> Len(s) = 0
  BY EmptySeq

-----------------------------------------------------------------------------
(* Types, and passwords: whatever fails.                                   *)

LEMMA PostTypes ==
    ASSUME TypeOK, NEW words \in Seq(ServerWords), Post(words)
    PROVE  sent' \in Nat /\ toServer' \in Seq(ToServer)
  <1>1. sent' \in Nat
    BY DEF TypeOK, Post
  <1>2. toServer \o Lines(words, sent + 1) \in Seq(ToServer)
    BY <1>1, Behind DEF TypeOK, Post, ToServer
  <1> QED
    BY <1>1, <1>2 DEF TypeOK, Post

LEMMA AnswerTypes ==
    ASSUME TypeOK, toServer # <<>>, NEW words \in Seq(ClientWords), Answer(words)
    PROVE  toClient' \in Seq(ToClient)
  <1>1. Head(toServer) \in ToServer
    BY First DEF TypeOK
  <1>2. Head(toServer).of \in Nat
    BY <1>1 DEF ToServer
  <1>3. toClient \o Lines(words, Head(toServer).of) \in Seq(ToClient)
    BY <1>2, Behind DEF TypeOK, ToClient
  <1> QED
    BY <1>3 DEF TypeOK, Answer

LEMMA RequestsAre ==
    /\ <<"RESET">> \in Seq(ServerWords) /\ <<"STATUS">> \in Seq(ServerWords)
    /\ <<"READ">> \in Seq(ServerWords) /\ <<"USER">> \in Seq(ServerWords)
    /\ <<"right">> \in Seq(ServerWords) /\ <<"wrong">> \in Seq(ServerWords)
    /\ <<"WRITE", "data", "blank">> \in Seq(ServerWords)
  BY DEF ServerWords

LEMMA AnswersAre ==
    /\ <<"AUTH">> \in Seq(ClientWords) /\ <<"UP">> \in Seq(ClientWords)
    /\ <<"DOWN">> \in Seq(ClientWords) /\ <<"CHALLENGE">> \in Seq(ClientWords)
    /\ <<"OK">> \in Seq(ClientWords) /\ <<"ERR">> \in Seq(ClientWords)
    /\ <<"ERR", "OK">> \in Seq(ClientWords)
    /\ <<"OK", "data", "blank">> \in Seq(ClientWords)
  BY DEF ClientWords

LEMMA InitTypes == Init => TypeOK
  <1> SUFFICES ASSUME Init PROVE TypeOK
    OBVIOUS
  <1>1. toServer \in Seq(ToServer) /\ toClient \in Seq(ToClient)
    BY EmptySeq DEF Init
  <1>2. sent \in Nat
    BY DEF Init
  <1> QED
    BY <1>1, <1>2, Zenon DEF Init, TypeOK

\* A step of the server, or the loss of a connection.
LEMMA ServerTypes ==
    ASSUME TypeOK, UNCHANGED clientVars,
           server' \in {"accept", "request", "password", "data"},
           auth' \in BOOLEAN, proved' \in BOOLEAN, dbg' \in BOOLEAN, conn' = conn \/ conn' = FALSE,
           toServer' \in Seq(ToServer), toClient' \in Seq(ToClient)
    PROVE  TypeOK'
  <1>1. client' = client /\ open' = open /\ up' = up /\ wrote' = wrote /\ sent' = sent
    BY DEF clientVars
  <1>2. conn' \in BOOLEAN /\ (conn' => client' # "off")
    <2>1. conn \in BOOLEAN /\ (conn => client # "off")
      BY Zenon DEF TypeOK
    <2>2. CASE conn' = conn
      BY ONLY <1>1, <2>1, <2>2, Zenon
    <2>3. CASE conn' = FALSE
      BY ONLY <2>3, Zenon
    <2> QED
      BY <2>2, <2>3, Zenon
  <1>3. /\ client' \in {"off", "idle", "crashed"} \cup Waiting
        /\ open' \in BOOLEAN /\ up' \in BOOLEAN /\ wrote' \in BOOLEAN /\ sent' \in Nat
    BY <1>1, Zenon DEF TypeOK
  <1> QED
    BY ONLY <1>2, <1>3, Zenon,
       server' \in {"accept", "request", "password", "data"},
       auth' \in BOOLEAN, proved' \in BOOLEAN, dbg' \in BOOLEAN,
       toServer' \in Seq(ToServer), toClient' \in Seq(ToClient) DEF TypeOK

LEMMA NextTypes == TypeOK /\ [Next]_vars => TypeOK'
  <1> SUFFICES ASSUME TypeOK, [Next]_vars PROVE TypeOK'
    OBVIOUS
  <1> USE DEF Waiting
  <1>1. ASSUME Connect PROVE TypeOK'
    BY <1>1, EmptySeq DEF Connect, TypeOK, serverVars
  <1>2. ASSUME NEW words \in Seq(ServerWords), NEW op \in Waiting, Ask(op, words), up' \in BOOLEAN
        PROVE TypeOK'
    BY <1>2, PostTypes DEF Ask, TypeOK, serverVars
  <1>3. ASSUME AskReset \/ AskStatus \/ AskWrite \/ AskRead PROVE TypeOK'
    BY <1>2, <1>3, RequestsAre DEF AskReset, AskStatus, AskWrite, AskRead, TypeOK
  <1>4. ASSUME Close PROVE TypeOK'
    <2>1. Line("CLOSE", sent + 1) \in ToServer
      BY DEF TypeOK, Line, ToServer, ServerWords
    <2>2. Append(toServer, Line("CLOSE", sent + 1)) \in Seq(ToServer)
      BY <2>1 DEF TypeOK
    <2> QED
      BY <1>4, <2>2, EmptySeq DEF Close, TypeOK, serverVars
  <1>5. ASSUME toClient # <<>>, toClient' = Tail(toClient) PROVE toClient' \in Seq(ToClient)
    BY <1>5, First DEF TypeOK
  <1>6. ASSUME EatBlank PROVE TypeOK'
    BY <1>5, <1>6 DEF EatBlank, Take, TypeOK, clientVars, serverVars
  <1>7. ASSUME Greeted PROVE TypeOK'
    <2>1. sent' \in Nat /\ toServer' \in Seq(ToServer)
      BY <1>7, PostTypes, RequestsAre DEF Greeted, TypeOK
    <2>2. toClient' \in Seq(ToClient)
      BY <1>5, <1>7 DEF Greeted, Take
    <2>3. /\ client' \in {"status", "user", "password", "idle"} /\ client # "off" /\ open' \in {open, TRUE}
          /\ up' = up /\ wrote' = wrote /\ UNCHANGED serverVars /\ conn' = conn
      BY <1>7 DEF Greeted, Take
    <2>4. /\ server' = server /\ auth' = auth /\ proved' = proved /\ dbg' = dbg
      BY <2>3 DEF serverVars
    <2>5. /\ open' \in BOOLEAN /\ up' \in BOOLEAN /\ wrote' \in BOOLEAN
          /\ server' \in {"accept", "request", "password", "data"}
          /\ auth' \in BOOLEAN /\ proved' \in BOOLEAN /\ dbg' \in BOOLEAN /\ conn' \in BOOLEAN
      BY <2>3, <2>4 DEF TypeOK
    <2>6. client' \in {"off", "idle", "crashed"} \cup Waiting /\ client' # "off"
      BY <2>3
    <2> QED
      BY <2>1, <2>2, <2>5, <2>6, Zenon DEF TypeOK
  <1>8. ASSUME Refused PROVE TypeOK'
    BY <1>8, EmptySeq DEF Refused, TypeOK, serverVars
  <1>9. ASSUME Confirmed \/ Told \/ ReadFirst \/ ReadData PROVE TypeOK'
    <2>1. toClient' \in Seq(ToClient)
      BY <1>5, <1>9 DEF Confirmed, Told, ReadFirst, ReadData, Take
    <2>2. /\ client' \in {"idle", "readdata", "crashed"} /\ conn' = conn /\ toServer' = toServer
          /\ sent' = sent /\ UNCHANGED serverVars
          /\ client # "off"
      BY <1>9 DEF Confirmed, Told, ReadFirst, ReadData, Answered, Take
    <2>3. up \in BOOLEAN
      BY DEF TypeOK
    <2>4. ASSUME NEW P, NEW b \in BOOLEAN, NEW c \in BOOLEAN PROVE (IF P THEN b ELSE c) \in BOOLEAN
      <3>1. CASE P
        BY <3>1
      <3>2. CASE ~P
        BY <3>2
      <3> QED
        BY <3>1, <3>2
    <2>5. open' \in BOOLEAN /\ up' \in BOOLEAN /\ wrote' \in BOOLEAN
      <3>0. ASSUME NEW isOpen \in BOOLEAN, NEW isUp \in BOOLEAN, Answered(isOpen, isUp)
            PROVE  open' \in BOOLEAN /\ up' \in BOOLEAN
        BY <3>0, Zenon DEF Answered
      <3>1. CASE Confirmed
        <4>1. wrote' \in BOOLEAN
          BY <3>1, Zenon DEF Confirmed
        <4>2. (Word \in {"OK", "ERR"}) \in BOOLEAN /\ (Word = "OK") \in BOOLEAN
          OBVIOUS
        <4>3. (IF Word \in {"OK", "ERR"} THEN Word = "OK" ELSE up) \in BOOLEAN
          BY <2>4, <2>3, <4>2, Zenon
        <4> QED
          BY <3>0, <3>1, <4>1, <4>2, <4>3, Zenon DEF Confirmed
      <3>2. CASE Told
        <4>1. (Word \in {"UP", "DOWN"}) \in BOOLEAN /\ (Word = "UP") \in BOOLEAN
          OBVIOUS
        <4>2. (IF Word \in {"UP", "DOWN"} THEN Word = "UP" ELSE up) \in BOOLEAN
          BY <2>4, <2>3, <4>1, Zenon
        <4> QED
          BY <3>0, <3>2, <4>1, <4>2, Zenon DEF Told, TypeOK
      <3>3. CASE ReadFirst
        <4>1. (Word = "ERR") \in BOOLEAN /\ (up /\ Word # "ERR") \in BOOLEAN
          BY Zenon DEF TypeOK
        <4> QED
          BY <3>0, <3>3, <4>1, Zenon DEF ReadFirst, TypeOK
      <3>4. CASE ReadData
        BY <3>4, Zenon DEF ReadData, Answered, TypeOK
      <3> QED
        BY <1>9, <3>1, <3>2, <3>3, <3>4
    <2> QED
      BY <2>1, <2>2, <2>5 DEF TypeOK, serverVars
  <1>10. ASSUME HangsUp PROVE TypeOK'
    BY <1>10 DEF HangsUp, Answered, TypeOK, serverVars
  <1>11. ASSUME Greet PROVE TypeOK'
    <2>1. Line("hello", 0) \in ToClient
      BY DEF Line, ToClient, ClientWords
    <2>2. toClient' \in Seq(ToClient)
      BY <1>11, <2>1 DEF Greet
    <2> QED
      BY <1>11, <2>2 DEF Greet, TypeOK, clientVars
  <1>12. ASSUME NEW state, NEW words, Serve(state, words)
         PROVE  toServer # <<>> /\ toServer' \in Seq(ToServer)
    BY <1>12, First DEF Serve, TypeOK
  <1>13. ASSUME NEW state, NEW w, NEW outcomes, Operate(state, w, outcomes),
                \A o \in outcomes : o[1] \in BOOLEAN /\ o[2] \in Seq(ClientWords)
         PROVE  TypeOK'
    <2>1. PICK o \in outcomes \cup {<<dbg, <<"ERR">>>>} : dbg' = o[1] /\ Answer(o[2])
      BY <1>13 DEF Operate
    <2>2. o[1] \in BOOLEAN /\ o[2] \in Seq(ClientWords)
      BY <1>13, AnswersAre DEF TypeOK
    <2>3. dbg' \in BOOLEAN
      BY <2>1, <2>2
    <2>4. toServer # <<>> /\ toServer' \in Seq(ToServer)
      BY <1>12, <1>13 DEF Operate
    <2>5. toClient' \in Seq(ToClient)
      BY <2>1, <2>2, <2>4, AnswerTypes
    <2> QED
      BY <1>13, <2>3, <2>4, <2>5 DEF Operate, Serve, TypeOK, clientVars
  <1>14. ASSUME ServeReset \/ ServeRead \/ ServeDataEnd PROVE TypeOK'
    <2> DEFINE Outcomes(b, w, fault, e) == {<<b, w>>} \cup Failing(fault, e)
               Good(s) == \A o \in s : o[1] \in BOOLEAN /\ o[2] \in Seq(ClientWords)
    <2>0. ASSUME NEW b \in BOOLEAN, NEW w \in Seq(ClientWords), NEW fault, NEW e \in Seq(ClientWords)
          PROVE  Good(Outcomes(b, w, fault, e)) /\ Good({<<b, w>>})
      <3>1. ASSUME NEW o, o = <<b, w>> \/ o = <<FALSE, e>> PROVE o[1] \in BOOLEAN /\ o[2] \in Seq(ClientWords)
        <4>1. CASE o = <<b, w>>
          <5>1. o[1] = b /\ o[2] = w
            BY <4>1
          <5> QED
            BY <5>1, Zenon
        <4>2. CASE o = <<FALSE, e>>
          <5>1. o[1] = FALSE /\ o[2] = e
            BY <4>2
          <5> QED
            BY <5>1, Zenon
        <4> QED
          BY <3>1, <4>1, <4>2
      <3>2. \A o \in Outcomes(b, w, fault, e) : o = <<b, w>> \/ o = <<FALSE, e>>
        BY DEF Failing
      <3> QED
        BY <3>1, <3>2
    <2> HIDE DEF Good
    <2>1. CASE ServeReset
      <3>1. Good(Outcomes(TRUE, <<"OK">>, "reset", <<"ERR">>))
        BY <2>0, AnswersAre
      <3> QED
        BY <1>13, <2>1, <3>1 DEF ServeReset, Good
    <2>2. CASE ServeRead
      <3>1. Good(Outcomes(TRUE, <<"OK", "data", "blank">>, "read", <<"ERR">>)) /\ Good({<<FALSE, <<"ERR">>>>})
        BY <2>0, AnswersAre
      <3> QED
        BY <1>13, <2>2, <3>1 DEF ServeRead, Good
    <2>3. CASE ServeDataEnd
      <3>1. Good(Outcomes(TRUE, <<"OK">>, "write", <<"ERR", "OK">>)) /\ Good({<<FALSE, <<"ERR">>>>})
        BY <2>0, AnswersAre
      <3> QED
        BY <1>13, <2>3, <3>1 DEF ServeDataEnd, Good
    <2> QED
      BY <1>14, <2>1, <2>2, <2>3
  <1>15. ASSUME ServeStatus \/ ServeUser \/ ServePassword PROVE TypeOK'
    <2>1. toServer # <<>> /\ toServer' \in Seq(ToServer)
      BY <1>12, <1>15 DEF ServeStatus, ServeUser, ServePassword
    <2>2. toClient' \in Seq(ToClient)
      BY <1>15, <2>1, AnswerTypes, AnswersAre DEF ServeStatus, ServeUser, ServePassword
    <2>3. auth' \in BOOLEAN /\ proved' \in BOOLEAN
      BY <1>15, Zenon DEF ServeStatus, ServeUser, ServePassword, TypeOK, serverVars
    <2> QED
      BY <1>15, <2>1, <2>2, <2>3 DEF ServeStatus, ServeUser, ServePassword, Serve, TypeOK, clientVars,
         serverVars
  <1>16. ASSUME ServeWrite \/ ServeData \/ ServeClose PROVE TypeOK'
    <2>1. toServer' \in Seq(ToServer) /\ UNCHANGED <<clientVars, conn, toClient>>
      BY <1>12, <1>16, Zenon DEF ServeWrite, ServeData, ServeClose, Serve
    <2>2. /\ server' \in {"accept", "data", server}
          /\ auth' = auth /\ proved' = proved /\ dbg' = dbg
      BY <1>16 DEF ServeWrite, ServeData, ServeClose, serverVars
    <2>3. /\ server' \in {"accept", "request", "password", "data"}
          /\ auth' \in BOOLEAN /\ proved' \in BOOLEAN /\ dbg' \in BOOLEAN
      BY <2>2, Zenon DEF TypeOK
    <2>4. toClient' \in Seq(ToClient)
      BY <2>1, Zenon DEF TypeOK
    <2> QED
      BY <2>1, <2>3, <2>4, ServerTypes, Zenon
  <1>17. ASSUME ServeEnd PROVE TypeOK'
    <2>1. server' = "accept" /\ UNCHANGED clientVars /\ auth' = auth /\ proved' = proved
          /\ dbg' = dbg /\ conn' = conn /\ toServer' = toServer /\ toClient' = toClient
      BY <1>17 DEF ServeEnd, clientVars
    <2>2. /\ server' \in {"accept", "request", "password", "data"}
          /\ auth' \in BOOLEAN /\ proved' \in BOOLEAN /\ dbg' \in BOOLEAN
          /\ toServer' \in Seq(ToServer) /\ toClient' \in Seq(ToClient)
      BY <2>1, Zenon DEF TypeOK
    <2> QED
      BY <2>1, <2>2, ServerTypes, Zenon
  <1>18. ASSUME Lose PROVE TypeOK'
    <2>1. PICK m \in 0 .. Len(toServer), n \in 0 .. Len(toClient) :
              toServer' = SubSeq(toServer, 1, m) /\ toClient' = SubSeq(toClient, 1, n)
      BY <1>18, Zenon DEF Lose
    <2>2. toServer \in Seq(ToServer) /\ toClient \in Seq(ToClient)
      BY Zenon DEF TypeOK
    <2>3. toServer' \in Seq(ToServer)
      <3>1. SubSeq(toServer, 1, m) \in Seq(ToServer)
        BY <2>2, Begins, Zenon
      <3> QED
        BY <2>1, <3>1, Zenon
    <2>4. toClient' \in Seq(ToClient)
      <3>1. SubSeq(toClient, 1, n) \in Seq(ToClient)
        BY <2>2, Begins, Zenon
      <3> QED
        BY <2>1, <3>1, Zenon
    <2>5. conn' = FALSE /\ UNCHANGED <<clientVars, serverVars>>
      BY <1>18, Zenon DEF Lose
    <2>6. server' = server /\ auth' = auth /\ proved' = proved /\ dbg' = dbg
      BY <2>5 DEF serverVars
    <2>7. /\ server' \in {"accept", "request", "password", "data"}
          /\ auth' \in BOOLEAN /\ proved' \in BOOLEAN /\ dbg' \in BOOLEAN
      BY <2>6, Zenon DEF TypeOK
    <2> QED
      BY <2>3, <2>4, <2>5, <2>7, ServerTypes, Zenon
  <1>19. CASE UNCHANGED vars
    BY <1>19 DEF vars, TypeOK, clientVars, serverVars
  <1> QED
    BY <1>1, <1>3, <1>4, <1>6, <1>7, <1>8, <1>9, <1>10, <1>11, <1>14, <1>15, <1>16, <1>17, <1>18, <1>19
       DEF Next, Asks, Takes, Serves

\* The state of both ends and of the lines between them is well formed, whatever fails.
THEOREM NetTypes == Spec => []TypeOK
  <1>1. Init => TypeOK
    BY InitTypes
  <1>2. TypeOK /\ [Next]_vars => TypeOK'
    BY NextTypes
  <1> QED
    BY <1>1, <1>2, PTL DEF Spec

\* A client whose requests are carried out has shown a password.
LEMMA NextAuthorized == TypeOK /\ OnlyAuthorized /\ [Next]_vars => OnlyAuthorized'
  <1> SUFFICES ASSUME TypeOK, OnlyAuthorized, [Next]_vars PROVE OnlyAuthorized'
    OBVIOUS
  <1>1. CASE UNCHANGED serverVars
    BY <1>1 DEF OnlyAuthorized, serverVars
  <1>2. CASE server' = "accept"
    BY <1>2 DEF OnlyAuthorized
  <1>3. CASE UNCHANGED <<auth, proved>> /\ server # "accept"
    BY <1>3 DEF OnlyAuthorized
  <1>4. CASE Greet
    BY <1>4 DEF Greet, OnlyAuthorized
  <1>5. CASE ServePassword
    <2>1. server = "password" /\ \E right \in BOOLEAN : auth' = (auth \/ right) /\ proved' = (proved \/ right)
      BY <1>5 DEF ServePassword, Serve
    <2> QED
      BY <2>1 DEF OnlyAuthorized, TypeOK
  <1>6. Asks \/ Takes \/ Lose \/ UNCHANGED vars => UNCHANGED serverVars
    BY DEF Asks, Connect, AskReset, AskStatus, AskWrite, AskRead, Ask, Close, Takes, EatBlank, Greeted,
       Refused, Confirmed, Told, ReadFirst, ReadData, HangsUp, Answered, Lose, vars
  <1>7. ServeClose \/ ServeEnd => server' = "accept"
    BY DEF ServeClose, ServeEnd
  <1>8. ServeStatus \/ ServeUser \/ ServeReset \/ ServeRead \/ ServeWrite \/ ServeData \/ ServeDataEnd
            => UNCHANGED <<auth, proved>> /\ server # "accept"
    BY DEF ServeStatus, ServeUser, ServeReset, ServeRead, ServeWrite, ServeData, ServeDataEnd, Operate,
       Serve, serverVars
  <1> QED
    BY <1>1, <1>2, <1>3, <1>4, <1>5, <1>6, <1>7, <1>8 DEF Next, Serves

\* Whatever fails, the link of a server with passwords is worked only for a client
\* that has shown one of them over the same connection.
THEOREM OnlyTheAuthorized == Spec => []OnlyAuthorized
  <1>1. Init => TypeOK /\ OnlyAuthorized
    BY InitTypes DEF Init, OnlyAuthorized
  <1>2. TypeOK /\ OnlyAuthorized /\ [Next]_vars => (TypeOK /\ OnlyAuthorized)'
    BY NextTypes, NextAuthorized
  <1> QED
    BY <1>1, <1>2, PTL DEF Spec
-----------------------------------------------------------------------------
(* Blank lines, whatever fails: one comes only behind data, so that it is   *)
(* first only when data were taken, and what is asked then skips it.        *)

BehindData(s) == \A i \in 2 .. Len(s) : s[i].word = "blank" => s[i - 1].word = "data"
BlankFirst(s) == Len(s) > 0 /\ s[1].word = "blank"

\* A read is asked for behind a write that was answered, and so finds no blank first.
BlankInv ==
    /\ TypeOK /\ BehindData(toClient)
    /\ BlankFirst(toClient) => (~wrote \/ ~open) /\ client # "READ"
    /\ wrote => client \in {"idle", "off"}
    /\ client # "crashed"

LEMMA BlankTaken ==
    ASSUME NEW s \in Seq(ToClient), s # <<>>, BehindData(s)
    PROVE  BehindData(Tail(s)) /\ (BlankFirst(Tail(s)) => Head(s).word = "data")
  <1>1. /\ Head(s) = s[1] /\ Len(Tail(s)) = Len(s) - 1 /\ Len(s) \in Nat
        /\ \A i \in 1 .. Len(Tail(s)) : Tail(s)[i] = s[i + 1] /\ i + 1 \in 1 .. Len(s)
    BY First, LenProperties
  <1>2. ASSUME NEW i \in 2 .. Len(Tail(s)), Tail(s)[i].word = "blank" PROVE Tail(s)[i - 1].word = "data"
    <2>1. i + 1 \in 2 .. Len(s) /\ i \in 1 .. Len(Tail(s)) /\ i - 1 \in 1 .. Len(Tail(s))
      BY <1>1
    <2>2. Tail(s)[i] = s[i + 1] /\ Tail(s)[i - 1] = s[i]
      BY <1>1, <2>1
    <2>3. s[i].word = "data"
      BY <1>2, <2>1, <2>2 DEF BehindData
    <2> QED
      BY <2>2, <2>3
  <1>3. ASSUME BlankFirst(Tail(s)) PROVE Head(s).word = "data"
    <2>1. 1 \in 1 .. Len(Tail(s)) /\ 2 \in 2 .. Len(s) /\ Tail(s)[1] = s[2]
      BY <1>1, <1>3 DEF BlankFirst
    <2> QED
      BY <1>1, <1>3, <2>1 DEF BlankFirst, BehindData
  <1> QED
    BY <1>2, <1>3 DEF BehindData

\* An answer.
Plain(words) ==
    /\ words \in Seq(ClientWords) /\ Len(words) > 0 /\ words[1] # "blank"
    /\ \A i \in 2 .. Len(words) : words[i] = "blank" => words[i - 1] = "data"

LEMMA BlankAnswered ==
    ASSUME NEW s \in Seq([word : ClientWords, of : Nat]), BehindData(s),
           NEW words \in Seq(ClientWords), Plain(words), NEW n \in Nat
    PROVE  BehindData(s \o Lines(words, n)) /\ (BlankFirst(s \o Lines(words, n)) => BlankFirst(s))
  <1>2. \A i \in Len(s) + 1 .. Len(s) + Len(words) :
            (s \o Lines(words, n))[i] = Lines(words, n)[i - Len(s)] /\ i - Len(s) \in 1 .. Len(words)
    BY Behind, Zenon
  <1> DEFINE t == s \o Lines(words, n)
  <1>1. Len(t) = Len(s) + Len(words) /\ \A i \in 1 .. Len(s) : t[i] = s[i]
    <2>1. Len(s \o Lines(words, n)) = Len(s) + Len(words)
      BY Behind
    <2>2. \A i \in 1 .. Len(s) : (s \o Lines(words, n))[i] = s[i]
      BY Behind
    <2> QED
      BY <2>1, <2>2
  <1>3. \A i \in 1 .. Len(words) : Lines(words, n)[i].word = words[i]
    BY LinesAre
  <1>4. Len(s) \in Nat /\ Len(words) \in Nat
    BY LenProperties
  <1>5. \A i \in Len(s) + 1 .. Len(s) + Len(words) : t[i].word = words[i - Len(s)]
    BY <1>2, <1>3
  <1> HIDE DEF t
  <1>6. ASSUME NEW i \in 2 .. Len(t), t[i].word = "blank" PROVE t[i - 1].word = "data"
    <2>1. CASE i <= Len(s)
      <3>1. i \in 2 .. Len(s) /\ t[i] = s[i] /\ t[i - 1] = s[i - 1]
        BY <1>1, <1>4, <2>1
      <3> QED
        BY <1>6, <3>1 DEF BehindData
    <2>2. CASE i = Len(s) + 1
      <3>1. t[i].word = words[1]
        BY <1>1, <1>4, <1>5, <2>2
      <3> QED
        BY <1>6, <3>1 DEF Plain
    <2>3. CASE i > Len(s) + 1
      <3>0. i - Len(s) \in 2 .. Len(words)
        BY <1>1, <1>4, <2>3
      <3>1. PICK j \in 2 .. Len(words) : j = i - Len(s)
        BY <3>0, Zenon
      <3>2. i - 1 \in Len(s) + 1 .. Len(s) + Len(words) /\ i - 1 - Len(s) = j - 1
            /\ i \in Len(s) + 1 .. Len(s) + Len(words)
        BY <1>1, <1>4, <3>1
      <3>3. t[i].word = words[j] /\ t[i - 1].word = words[j - 1]
        BY <1>5, <3>1, <3>2
      <3> QED
        BY <1>6, <3>3 DEF Plain
    <2> QED
      BY <1>1, <1>4, <2>1, <2>2, <2>3
  <1>7. ASSUME BlankFirst(t) PROVE BlankFirst(s)
    <2>1. CASE Len(s) = 0
      <3>1. t[1].word = words[1]
        BY <1>4, <1>5, <2>1 DEF Plain
      <3> QED
        BY <1>7, <3>1 DEF Plain, BlankFirst
    <2>2. CASE Len(s) > 0
      <3>1. t[1] = s[1]
        BY <1>1, <1>4, <2>2
      <3> QED
        BY <1>7, <2>2, <3>1 DEF BlankFirst
    <2> QED
      BY <1>4, <2>1, <2>2
  <1> QED
    BY <1>6, <1>7 DEF BehindData, t

LEMMA PlainOnes == \A w \in ClientWords \ {"blank"} : Plain(<<w>>)
  <1> SUFFICES ASSUME NEW w \in ClientWords \ {"blank"} PROVE Plain(<<w>>)
    OBVIOUS
  <1>1. <<w>> \in Seq(ClientWords) /\ Len(<<w>>) = 1 /\ <<w>>[1] = w
    OBVIOUS
  <1>2. 2 .. Len(<<w>>) = {}
    BY <1>1
  <1> QED
    BY <1>1, <1>2 DEF Plain

LEMMA PlainAnswers == Plain(<<"OK">>) /\ Plain(<<"ERR">>) /\ Plain(<<"ERR", "OK">>) /\ Plain(<<"OK", "data", "blank">>)
  <1>1. Plain(<<"OK">>) /\ Plain(<<"ERR">>)
    BY PlainOnes DEF ClientWords
  <1>2. Plain(<<"ERR", "OK">>)
    <2>1. Len(<<"ERR", "OK">>) = 2 /\ <<"ERR", "OK">>[1] = "ERR" /\ <<"ERR", "OK">>[2] = "OK"
      OBVIOUS
    <2>2. \A i \in 2 .. 2 : i = 2
      OBVIOUS
    <2> QED
      BY <2>1, <2>2, AnswersAre DEF Plain
  <1>3. Plain(<<"OK", "data", "blank">>)
    <2> DEFINE w == <<"OK", "data", "blank">>
    <2>1. Len(w) = 3 /\ w[1] = "OK" /\ w[2] = "data" /\ w[3] = "blank" /\ w \in Seq(ClientWords)
      BY AnswersAre
    <2> HIDE DEF w
    <2>2. \A i \in 2 .. 3 : i = 2 \/ (i = 3 /\ i - 1 = 2)
      OBVIOUS
    <2>3. Plain(w)
      BY <2>1, <2>2 DEF Plain
    <2> QED
      BY <2>3 DEF w
  <1> QED
    BY <1>1, <1>2, <1>3

\* A step of the server.
LEMMA ServerBlank ==
    ASSUME BlankInv, TypeOK', UNCHANGED clientVars, toServer # <<>>,
           toClient' = toClient \/ \E words : Plain(words) /\ Answer(words)
    PROVE  BlankInv'
  <1>1. client' = client /\ wrote' = wrote /\ open' = open
    BY DEF clientVars
  <1>2. BehindData(toClient') /\ (BlankFirst(toClient') => BlankFirst(toClient))
    <2>1. CASE toClient' = toClient
      BY <2>1 DEF BlankInv
    <2>2. ASSUME NEW words, Plain(words), Answer(words) PROVE BehindData(toClient') /\ (BlankFirst(toClient') => BlankFirst(toClient))
      <3>1. Head(toServer) \in ToServer
        BY First DEF BlankInv, TypeOK
      <3>2. PICK n \in Nat : n = Head(toServer).of
        BY <3>1 DEF ToServer
      <3>3. /\ toClient \in Seq([word : ClientWords, of : Nat]) /\ BehindData(toClient)
            /\ words \in Seq(ClientWords)
        BY <2>2 DEF BlankInv, TypeOK, ToClient, Plain
      <3>4. BehindData(toClient \o Lines(words, n)) /\ (BlankFirst(toClient \o Lines(words, n)) => BlankFirst(toClient))
        BY <2>2, <3>3, BlankAnswered
      <3> QED
        BY <2>2, <3>2, <3>3, <3>4 DEF Answer
    <2> QED
      BY <2>1, <2>2
  <1> QED
    BY <1>1, <1>2 DEF BlankInv

LEMMA ServesBlank == ASSUME BlankInv, Serves PROVE BlankInv'
  <1>1. TypeOK'
    BY NextTypes DEF BlankInv, Next
  <1>2. ASSUME NEW state, NEW word, NEW outcomes, Operate(state, word, outcomes), \A o \in outcomes : Plain(o[2])
        PROVE  BlankInv'
    <2>1. UNCHANGED clientVars /\ toServer # <<>>
      BY <1>2 DEF Operate, Serve
    <2>2. PICK o \in outcomes \cup {<<dbg, <<"ERR">>>>} : Answer(o[2])
      BY <1>2 DEF Operate
    <2>3. Plain(o[2])
      BY <1>2, PlainAnswers
    <2> QED
      BY <1>1, <2>1, <2>2, <2>3, ServerBlank
  <1>3. ASSUME NEW b, NEW words, Plain(words), NEW o, o = <<b, words>> PROVE Plain(o[2])
    <2>1. o[2] = words
      BY <1>3
    <2> QED
      BY <1>3, <2>1
  <1>4. ASSUME NEW b, NEW words, Plain(words), NEW fault, NEW failed, Plain(failed)
        PROVE  \A o \in {<<b, words>>} \cup Failing(fault, failed) : Plain(o[2])
    BY <1>3, <1>4 DEF Failing
  <1>5. CASE ServeReset
    BY <1>2, <1>4, <1>5, PlainAnswers DEF ServeReset
  <1>6. CASE ServeRead
    <2> DEFINE O == IF ~dbg THEN {<<FALSE, <<"ERR">>>>}
                    ELSE {<<TRUE, <<"OK", "data", "blank">>>>} \cup Failing("read", <<"ERR">>)
    <2>1. \A o \in O : Plain(o[2])
      BY <1>3, <1>4, PlainAnswers
    <2>2. Operate("request", "READ", O)
      BY <1>6 DEF ServeRead
    <2> HIDE DEF O
    <2> QED
      BY <1>2, <2>1, <2>2
  <1>7. CASE ServeDataEnd
    <2> DEFINE O == IF ~dbg THEN {<<FALSE, <<"ERR">>>>}
                    ELSE {<<TRUE, <<"OK">>>>} \cup Failing("write", <<"ERR", "OK">>)
    <2>1. \A o \in O : Plain(o[2])
      BY <1>3, <1>4, PlainAnswers
    <2>2. Operate("data", "blank", O)
      BY <1>7 DEF ServeDataEnd
    <2> HIDE DEF O
    <2> QED
      BY <1>2, <2>1, <2>2
  <1>8. CASE ServeStatus \/ ServeUser \/ ServePassword
    <2>1. UNCHANGED clientVars /\ toServer # <<>>
      BY <1>8 DEF ServeStatus, ServeUser, ServePassword, Serve
    <2>2. \E w \in ClientWords \ {"blank"} : Answer(<<w>>)
      BY <1>8 DEF ServeStatus, ServeUser, ServePassword, ClientWords
    <2> QED
      BY <1>1, <2>1, <2>2, PlainOnes, ServerBlank
  <1>9. CASE ServeWrite \/ ServeData \/ ServeClose
    <2>1. UNCHANGED clientVars /\ toServer # <<>> /\ toClient' = toClient
      BY <1>9 DEF ServeWrite, ServeData, ServeClose, Serve
    <2> QED
      BY <1>1, <2>1, ServerBlank
  <1>10. CASE ServeEnd
    <2>1. client' = client /\ wrote' = wrote /\ open' = open /\ toClient' = toClient
      BY <1>10 DEF ServeEnd, clientVars
    <2> QED
      BY <1>1, <2>1 DEF BlankInv
  <1>11. CASE Greet
    <2>1. /\ client' = client /\ wrote' = wrote /\ open' = open /\ toClient' = <<Line("hello", 0)>>
      BY <1>11 DEF Greet, clientVars
    <2>2. Len(toClient') = 1 /\ toClient'[1].word = "hello"
      BY <2>1 DEF Line
    <2>3. 2 .. 1 = {}
      OBVIOUS
    <2> QED
      BY <1>1, <2>1, <2>2, <2>3 DEF BlankInv, BehindData, BlankFirst
  <1> QED
    BY <1>5, <1>6, <1>7, <1>8, <1>9, <1>10, <1>11 DEF Serves

LEMMA NextBlank == BlankInv /\ [Next]_vars => BlankInv'
  <1> SUFFICES ASSUME BlankInv, [Next]_vars PROVE BlankInv'
    OBVIOUS
  <1>1. TypeOK'
    BY NextTypes DEF BlankInv
  <1>2. ASSUME Len(toClient') = 0 PROVE BehindData(toClient') /\ ~BlankFirst(toClient')
    <2>1. 2 .. 0 = {}
      OBVIOUS
    <2> QED
      BY <1>2, <2>1 DEF BehindData, BlankFirst
  <1>3. CASE Connect \/ Close \/ Refused
    <2>1. /\ toClient' = <<>> /\ Len(toClient') = 0 /\ client' \in {"hello", "off"}
          /\ wrote' => client' = "off"
      BY <1>3 DEF Connect, Close, Refused
    <2> QED
      BY <1>1, <1>2, <2>1 DEF BlankInv
  <1>4. CASE AskReset \/ AskStatus \/ AskWrite \/ AskRead
    <2>1. toClient' = toClient /\ wrote' = FALSE /\ client' \in {"RESET", "STATUS", "WRITE", "READ"}
          /\ open /\ (client' = "READ" => wrote)
      BY <1>4 DEF AskReset, AskStatus, AskWrite, AskRead, Ask
    <2> QED
      BY <1>1, <2>1 DEF BlankInv
  <1>5. ASSUME NEW waiting \in SUBSET Waiting, Take(waiting)
        PROVE  /\ BehindData(toClient') /\ (BlankFirst(toClient') => Word = "data")
               /\ ~wrote /\ client \in waiting /\ client # "crashed"
    <2>1. /\ toClient \in Seq(ToClient) /\ toClient # <<>> /\ toClient' = Tail(toClient)
          /\ BehindData(toClient) /\ client \in waiting
      BY <1>5 DEF BlankInv, TypeOK, Take
    <2>2. ~wrote /\ client # "crashed"
      BY <2>1 DEF BlankInv, Waiting
    <2> QED
      BY <2>1, <2>2, BlankTaken DEF Word
  <1>6. CASE EatBlank
    <2>1. Take(Waiting \ {"hello", "READ", "readdata"}) /\ client' = client /\ wrote' = wrote
      BY <1>6 DEF EatBlank, clientVars
    <2>2. /\ BehindData(toClient') /\ ~wrote /\ client \in Waiting \ {"hello", "READ", "readdata"}
      BY <1>5, <2>1
    <2> QED
      BY <1>1, <2>1, <2>2 DEF BlankInv
  <1>7. CASE Greeted
    <2>1. /\ Take({"hello", "status", "user", "password"}) /\ wrote' = wrote
          /\ client' \in {"status", "user", "password", "idle"}
      BY <1>7 DEF Greeted
    <2>2. {"hello", "status", "user", "password"} \in SUBSET Waiting
      BY DEF Waiting
    <2>3. BehindData(toClient') /\ ~wrote
      BY <1>5, <2>1, <2>2
    <2> QED
      BY <1>1, <2>1, <2>3 DEF BlankInv
  <1>8. CASE Confirmed
    <2>1. Take({"RESET", "WRITE"}) /\ client' = "idle" /\ (wrote' => Word = "OK")
      BY <1>8 DEF Confirmed, Answered
    <2>2. {"RESET", "WRITE"} \in SUBSET Waiting
      BY DEF Waiting
    <2>3. BehindData(toClient') /\ (BlankFirst(toClient') => Word = "data")
      BY <1>5, <2>1, <2>2
    <2> QED
      BY <1>1, <2>1, <2>3 DEF BlankInv
  <1>9. CASE Told \/ ReadData
    <2>1. /\ Take({"STATUS"}) \/ Take({"readdata"})
          /\ client' = "idle" /\ wrote' = wrote
      BY <1>9 DEF Told, ReadData, Answered
    <2>2. {"STATUS"} \in SUBSET Waiting /\ {"readdata"} \in SUBSET Waiting
      BY DEF Waiting
    <2>3. BehindData(toClient') /\ ~wrote
      BY <1>5, <2>1, <2>2
    <2> QED
      BY <1>1, <2>1, <2>3 DEF BlankInv
  <1>10. CASE ReadFirst
    <2>1. Take({"READ"}) /\ wrote' = wrote /\ client' \in {"readdata", "crashed", "idle"}
          /\ (client' = "crashed" => Word = "blank")
      BY <1>10 DEF ReadFirst, Answered
    <2>2. {"READ"} \in SUBSET Waiting
      BY DEF Waiting
    <2>3. BehindData(toClient') /\ ~wrote /\ client = "READ"
      BY <1>5, <2>1, <2>2
    <2>4. Word # "blank"
      <3>1. Head(toClient) = toClient[1] /\ Len(toClient) > 0
        <4>1. toClient \in Seq(ToClient) /\ toClient # <<>>
          BY <2>1 DEF Take, BlankInv, TypeOK
        <4> QED
          BY <4>1, First
      <3> QED
        BY <2>3, <3>1 DEF BlankInv, BlankFirst, Word
    <2> QED
      BY <1>1, <2>1, <2>3, <2>4 DEF BlankInv
  <1>11. CASE HangsUp
    <2>1. /\ client \in {"RESET", "STATUS", "READ", "readdata", "WRITE"} /\ client' = "idle" /\ wrote' = wrote
          /\ toClient' = toClient /\ Len(toClient') = 0
      BY <1>11 DEF HangsUp, Answered
    <2> QED
      BY <1>1, <1>2, <2>1 DEF BlankInv
  <1>12. CASE Lose
    <2>1. PICK n \in 0 .. Len(toClient) : toClient' = SubSeq(toClient, 1, n)
      BY <1>12 DEF Lose
    <2>2. toClient \in Seq(ToClient) /\ BehindData(toClient)
      BY DEF BlankInv, TypeOK
    <2>3. Len(toClient') = n /\ \A i \in 1 .. n : toClient'[i] = toClient[i] /\ i \in 1 .. Len(toClient)
      BY <2>1, <2>2, Begins
    <2>4. ASSUME NEW i \in 2 .. Len(toClient'), toClient'[i].word = "blank" PROVE toClient'[i - 1].word = "data"
      <3>1. i \in 1 .. n /\ i - 1 \in 1 .. n
        BY <2>3
      <3>2. toClient'[i] = toClient[i] /\ toClient'[i - 1] = toClient[i - 1] /\ i \in 2 .. Len(toClient)
        BY <2>3, <3>1
      <3> QED
        BY <2>2, <2>4, <3>2 DEF BehindData
    <2>5. BlankFirst(toClient') => BlankFirst(toClient)
      <3> SUFFICES ASSUME BlankFirst(toClient') PROVE BlankFirst(toClient)
        OBVIOUS
      <3>1. 1 \in 1 .. n
        BY <2>3 DEF BlankFirst
      <3>2. toClient'[1] = toClient[1] /\ 1 \in 1 .. Len(toClient)
        BY <2>3, <3>1
      <3> QED
        BY <3>2 DEF BlankFirst
    <2>6. client' = client /\ wrote' = wrote /\ open' = open
      BY <1>12 DEF Lose, clientVars
    <2>7. BehindData(toClient')
      BY <2>4 DEF BehindData
    <2> QED
      BY <1>1, <2>5, <2>6, <2>7 DEF BlankInv
  <1>13. CASE UNCHANGED vars
    <2>1. client' = client /\ wrote' = wrote /\ open' = open /\ toClient' = toClient
      BY <1>13 DEF vars, clientVars
    <2> QED
      BY <1>1, <2>1 DEF BlankInv
  <1> QED
    BY <1>3, <1>4, <1>6, <1>7, <1>8, <1>9, <1>10, <1>11, <1>12, <1>13, ServesBlank DEF Next, Asks, Takes

\* read never meets a blank line in the place of its answer, whatever fails
\* (ocd_tcpip::read, which does not skip them).
THEOREM ReadMeetsNoBlank == Spec => []NoCrash
  <1>1. Init => BlankInv
    <2> SUFFICES ASSUME Init PROVE BlankInv
      OBVIOUS
    <2>1. Len(toClient) = 0 /\ client = "off" /\ TypeOK
      BY InitTypes DEF Init
    <2>2. 2 .. 0 = {}
      OBVIOUS
    <2> QED
      BY <2>1, <2>2 DEF BlankInv, BehindData, BlankFirst
  <1>2. BlankInv => NoCrash
    BY DEF BlankInv, NoCrash
  <1> QED
    BY <1>1, <1>2, NextBlank, PTL DEF Spec

-----------------------------------------------------------------------------
(* Answers, where no write fails.                                          *)

\* The lines of the request that a client waits for.
Requests(c) ==
    CASE c \in {"status", "STATUS"} -> {"STATUS"} [] c = "user" -> {"USER"}
      [] c = "password" -> {"right", "wrong"} [] c = "RESET" -> {"RESET"} [] c = "READ" -> {"READ"}
      [] c = "WRITE" -> {"WRITE", "data", "blank"} [] OTHER -> {}

Blank(l) == l.word = "blank"
Blanks(s) == \A i \in 1 .. Len(s) : Blank(s[i])

\* What waits for the server is the last request, whose last line it answers.
Asked ==
    client \in Waiting =>
        \A i \in 1 .. Len(toServer) :
            /\ toServer[i].of = sent /\ toServer[i].word \in Requests(client)
            /\ toServer[i].word \notin {"WRITE", "data"} => i = Len(toServer)

\* What waits for the client is the answer to it, once it has been read.
Own == \A i \in 1 .. Len(toClient) : ~Blank(toClient[i]) => toClient[i].of = sent /\ toServer = <<>>

\* It ends with its only line, but for a read, which finds nothing in front of
\* it, as it comes behind a write.
Shape ==
    /\ client \notin {"READ", "readdata"} =>
        \A i \in 1 .. Len(toClient) : ~Blank(toClient[i]) => i = Len(toClient)
    /\ client = "READ" => \A i \in 1 .. Len(toClient) :
        /\ i = 1 => toClient[i].word \in {"OK", "ERR"}
        /\ i # 1 => toClient[1].word = "OK"
        /\ i \notin {1, 2} => Blank(toClient[i])
    /\ client = "READ" /\ toServer # <<>> => toClient = <<>>
    /\ client = "readdata" => \A i \in 1 .. Len(toClient) : i # 1 => Blank(toClient[i])
    /\ client = "idle" => Blanks(toClient)
    /\ wrote /\ client # "off" => client = "idle" /\ toClient = <<>>

\* Between requests nothing is on its way to the server, unless the client has
\* given up.
Rest ==
    /\ client = "idle" => toServer = <<>> \/ (~open /\ ~conn)
    /\ client = "off" => ~conn /\ toClient = <<>>
    /\ client = "hello" => sent = 0
    /\ client # "crashed"

\* Where the client is told, or believes, that the link is up.
Believed ==
    /\ client \in {"hello", "status", "user", "password"} => ~up
    /\ client = "readdata" => dbg
    /\ client = "idle" /\ open /\ up => dbg
    /\ client \in {"RESET", "WRITE", "STATUS", "READ"} =>
        \A i \in 1 .. Len(toClient) : toClient[i].word \in {"OK", "UP"} => dbg

NetInv == TypeOK /\ Asked /\ (client # "off" => Own) /\ Shape /\ Rest /\ Believed

LEMMA InitNet == Init => NetInv
  <1> SUFFICES ASSUME Init PROVE NetInv
    OBVIOUS
  <1>1. Len(toClient) = 0 /\ client = "off" /\ conn = FALSE /\ toClient = <<>>
    BY DEF Init
  <1> QED
    BY <1>1, InitTypes DEF NetInv, Asked, Shape, Rest, Believed, Blanks, Waiting

\* The answer that the client takes is the last thing on its way.
LEMMA Taken ==
    ASSUME NetInv, NEW waiting, Take(waiting), "off" \notin waiting
    PROVE  /\ toClient \in Seq(ToClient) /\ toClient' \in Seq(ToClient)
           /\ 1 \in 1 .. Len(toClient) /\ Head(toClient) = toClient[1]
           /\ Len(toClient') = Len(toClient) - 1
           /\ \A i \in 1 .. Len(toClient') : toClient'[i] = toClient[i + 1] /\ i + 1 \in 1 .. Len(toClient)
           /\ Word # "blank" => Head(toClient).of = sent /\ toServer = <<>>
           /\ Word # "blank" /\ client \notin {"READ", "readdata"} => toClient' = <<>>
  <1>1. toClient \in Seq(ToClient) /\ toClient # <<>> /\ toClient' = Tail(toClient) /\ client # "off"
    BY DEF NetInv, TypeOK, Take
  <1>2. /\ 1 \in 1 .. Len(toClient) /\ Head(toClient) = toClient[1]
        /\ toClient' \in Seq(ToClient) /\ Len(toClient') = Len(toClient) - 1
        /\ \A i \in 1 .. Len(toClient') : toClient'[i] = toClient[i + 1] /\ i + 1 \in 1 .. Len(toClient)
    BY <1>1, First
  <1>3. Word # "blank" => Head(toClient).of = sent /\ toServer = <<>>
    BY <1>1, <1>2 DEF NetInv, Own, Blank, Word
  <1>4. ASSUME Word # "blank", client \notin {"READ", "readdata"} PROVE toClient' = <<>>
    <2>1. 1 = Len(toClient)
      BY <1>2, <1>4 DEF NetInv, Shape, Blank, Word
    <2>2. Len(toClient') = Len(toClient) - 1
      BY <1>2
    <2>3. Len(toClient') = 0
      BY ONLY <2>1, <2>2
    <2> QED
      BY <1>2, <2>3, EmptyIs
  <1> QED
    BY <1>1, <1>2, <1>3, <1>4

LEMMA Posted ==
    ASSUME NetInv, toServer = <<>>, NEW words \in Seq(ServerWords), Post(words),
           \A i \in 1 .. Len(words) : /\ words[i] \in Requests(client')
                                      /\ words[i] \notin {"WRITE", "data"} => i = Len(words)
    PROVE  Asked'
  <1>1. toServer \in Seq(ToServer) /\ sent' = sent + 1 /\ sent' \in Nat /\ Len(toServer) = 0
    BY DEF NetInv, TypeOK, Post
  <1>2. CASE ~conn
    BY <1>1, <1>2 DEF Asked, Post
  <1>3. CASE conn
    <2>1. toServer' = Lines(words, sent + 1)
      <3>1. Lines(words, sent + 1) \in Seq([word : ServerWords, of : Nat])
        BY <1>1, LinesAre
      <3> QED
        BY <1>3, <3>1, ConcatEmptySeq DEF Post
    <2>2. Len(toServer') = Len(words)
          /\ \A i \in 1 .. Len(words) : toServer'[i].word = words[i] /\ toServer'[i].of = sent'
      <3>1. sent + 1 \in Nat
        BY <1>1
      <3>2. /\ Len(Lines(words, sent + 1)) = Len(words)
            /\ \A i \in 1 .. Len(words) : /\ Lines(words, sent + 1)[i].word = words[i]
                                          /\ Lines(words, sent + 1)[i].of = sent + 1
        <4> DEFINE n == sent + 1
        <4>1. n \in Nat /\ words \in Seq(ServerWords)
          BY <3>1
        <4> HIDE DEF n
        <4>2. /\ Len(Lines(words, n)) = Len(words)
              /\ \A i \in 1 .. Len(words) : Lines(words, n)[i].word = words[i] /\ Lines(words, n)[i].of = n
          BY ONLY <4>1, LinesAre, Zenon
        <4> QED
          BY ONLY <4>2, Zenon DEF n
      <3>3. sent' = sent + 1
        BY <1>1
      <3>4. /\ Len(Lines(words, sent + 1)) = Len(words)
            /\ \A i \in 1 .. Len(words) : /\ Lines(words, sent + 1)[i].word = words[i]
                                          /\ Lines(words, sent + 1)[i].of = sent'
        BY ONLY <3>2, <3>3, Zenon
      <3> QED
        BY ONLY <3>4, <3>2, <2>1, Zenon
    <2> QED
      BY <2>2 DEF Asked
  <1> QED
    BY <1>2, <1>3

LEMMA ConnectNet == ASSUME NetInv, Connect PROVE NetInv'
  <1>1. /\ client' = "hello" /\ toServer' = <<>> /\ toClient' = <<>> /\ sent' = 0 /\ ~up' /\ wrote' = FALSE
        /\ Len(toServer') = 0 /\ Len(toClient') = 0
    BY DEF Connect
  <1>2. TypeOK'
    BY NextTypes DEF NetInv, Next, Asks
  <1> QED
    BY <1>1, <1>2 DEF NetInv, Asked, Own, Shape, Rest, Believed, Blanks

\* A request, when nothing but a blank line is left of what was answered before.
LEMMA AskNet ==
    ASSUME NetInv, TypeOK', NEW op \in {"RESET", "STATUS", "READ", "WRITE"}, NEW words \in Seq(ServerWords),
           Ask(op, words),
           \A i \in 1 .. Len(words) : /\ words[i] \in Requests(op)
                                      /\ words[i] \notin {"WRITE", "data"} => i = Len(words),
           op = "READ" => toClient = <<>>
    PROVE  NetInv'
  <1>1. /\ client = "idle" /\ open /\ client' = op /\ Post(words) /\ wrote' = FALSE
        /\ toClient' = toClient /\ dbg' = dbg
    BY DEF Ask, serverVars
  <1>2. toServer = <<>> /\ Blanks(toClient)
    BY <1>1 DEF NetInv, Rest, Shape
  <1>3. Asked'
    BY <1>1, <1>2, Posted
  <1>4. Own'
    BY <1>1, <1>2 DEF Own, Blanks
  <1>5. Shape'
    <2>1. op = "READ" => Len(toClient') = 0
      BY <1>1
    <2> QED
      BY <1>1, <1>2, <2>1 DEF Shape, Blanks
  <1>6. Rest' /\ Believed'
    BY <1>1, <1>2 DEF Rest, Believed, Blanks, Blank
  <1> QED
    BY <1>3, <1>4, <1>5, <1>6 DEF NetInv

LEMMA AsksNet == ASSUME NetInv, Asks PROVE NetInv'
  <1>1. TypeOK'
    BY NextTypes DEF NetInv, Next
  <1>2. ASSUME NEW w \in ServerWords \ {"WRITE", "data"}, NEW c, w \in Requests(c)
        PROVE  /\ <<w>> \in Seq(ServerWords)
               /\ \A i \in 1 .. Len(<<w>>) : /\ <<w>>[i] \in Requests(c)
                                             /\ <<w>>[i] \notin {"WRITE", "data"} => i = Len(<<w>>)
    BY <1>2
  <1>3. CASE Connect
    BY <1>3, ConnectNet
  <1>4. CASE AskReset
    <2>1. "RESET" \in Requests("RESET") /\ "RESET" \in ServerWords \ {"WRITE", "data"}
      BY DEF Requests, ServerWords
    <2> QED
      BY <1>1, <1>2, <1>4, <2>1, AskNet DEF AskReset
  <1>5. CASE AskStatus
    <2>1. "STATUS" \in Requests("STATUS") /\ "STATUS" \in ServerWords \ {"WRITE", "data"}
      BY DEF Requests, ServerWords
    <2> QED
      BY <1>1, <1>2, <1>5, <2>1, AskNet DEF AskStatus
  <1>6. CASE AskRead
    <2>1. "READ" \in Requests("READ") /\ "READ" \in ServerWords \ {"WRITE", "data"}
      BY DEF Requests, ServerWords
    <2>2. toClient = <<>>
      BY <1>6 DEF AskRead, Ask, NetInv, Shape
    <2> QED
      BY <1>1, <1>2, <1>6, <2>1, <2>2, AskNet DEF AskRead
  <1>7. CASE AskWrite
    <2> DEFINE w == <<"WRITE", "data", "blank">>
    <2>1. w \in Seq(ServerWords) /\ Len(w) = 3 /\ w[1] = "WRITE" /\ w[2] = "data" /\ w[3] = "blank"
      BY RequestsAre
    <2>2. Ask("WRITE", w)
      BY <1>7 DEF AskWrite
    <2>3. Requests("WRITE") = {"WRITE", "data", "blank"}
      BY DEF Requests
    <2> HIDE DEF w
    <2>4. \A i \in 1 .. Len(w) : i = 1 \/ i = 2 \/ i = 3
      BY <2>1
    <2>5. \A i \in 1 .. Len(w) : w[i] \in Requests("WRITE") /\ (w[i] \notin {"WRITE", "data"} => i = Len(w))
      BY <2>1, <2>3, <2>4
    <2> QED
      BY <1>1, <2>1, <2>2, <2>5, AskNet
  <1>8. CASE Close
    <2>1. client' = "off" /\ ~conn' /\ toClient' = <<>> /\ Len(toClient') = 0
      BY <1>8 DEF Close
    <2> QED
      BY <1>1, <2>1 DEF NetInv, Asked, Shape, Rest, Believed, Waiting
  <1> QED
    BY <1>3, <1>4, <1>5, <1>6, <1>7, <1>8 DEF Asks

LEMMA HandshakeNet == ASSUME NetInv, Greeted PROVE NetInv'
  <1>1. TypeOK'
    BY NextTypes DEF NetInv, Next, Takes
  <1>2. /\ client \in {"hello", "status", "user", "password"} /\ Word # "blank"
        /\ Take({"hello", "status", "user", "password"}) /\ ~up /\ UNCHANGED <<up, wrote, serverVars, conn>>
    BY DEF Greeted, Take, NetInv, Believed
  <1>3. toClient' = <<>> /\ toServer = <<>> /\ Len(toClient') = 0
    BY <1>2, Taken
  <1>4. ~wrote' /\ dbg' = dbg
    BY <1>2 DEF NetInv, Shape, serverVars
  <1>5. ASSUME NEW w \in ServerWords \ {"WRITE", "data"}, w \in Requests(client'), Post(<<w>>) PROVE Asked'
    <2>1. <<w>> \in Seq(ServerWords) /\ \A i \in 1 .. Len(<<w>>) : <<w>>[i] = w /\ i = Len(<<w>>)
      BY <1>5
    <2> QED
      BY <1>3, <1>5, <2>1, Posted
  <1>6. CASE client' \in {"status", "user", "password"}
    <2>1. Asked'
      BY <1>5, <1>6 DEF Greeted, Requests, ServerWords
    <2> QED
      BY <1>1, <1>2, <1>3, <1>4, <1>6, <2>1 DEF NetInv, Own, Shape, Rest, Believed
  <1>7. CASE client' = "idle" /\ toServer' = toServer
    BY <1>1, <1>2, <1>3, <1>4, <1>7 DEF NetInv, Asked, Own, Shape, Rest, Believed, Waiting, Blanks
  <1> QED
    BY <1>6, <1>7 DEF Greeted

\* Whatever ends with an idle client.
LEMMA BecomesIdle ==
    ASSUME NetInv, TypeOK', client # "off", client' = "idle", Blanks(toClient'),
           dbg' = dbg, conn' = conn, toServer' = toServer,
           toServer = <<>> \/ (~open' /\ ~conn),
           open' /\ up' => dbg,
           wrote' => toClient' = <<>>
    PROVE  NetInv'
  <1>1. Asked'
    BY DEF Asked, Waiting
  <1>3. Shape'
    BY DEF Shape, Blanks
  <1>4. Rest'
    BY DEF Rest
  <1>5. Believed'
    BY DEF Believed
  <1>2. Own'
    BY DEF Own, Blanks
  <1> QED
    BY <1>1, <1>2, <1>3, <1>4, <1>5 DEF NetInv

LEMMA TakesNet == ASSUME NetInv, Takes PROVE NetInv'
  <1>1. TypeOK'
    BY NextTypes DEF NetInv, Next
  <1>2. CASE EatBlank
    <2>1. /\ Take(Waiting \ {"hello", "READ", "readdata"}) /\ UNCHANGED <<client, sent, toServer, conn, open, up, wrote, dbg>>
          /\ client \in Waiting \ {"hello", "READ", "readdata"}
      BY <1>2 DEF EatBlank, clientVars, serverVars, Take
    <2>2. /\ Len(toClient) \in Nat /\ Len(toClient') = Len(toClient) - 1
          /\ \A i \in 1 .. Len(toClient') : toClient'[i] = toClient[i + 1] /\ i + 1 \in 1 .. Len(toClient)
      BY <2>1, Taken, LenProperties DEF Waiting
    <2>3. Asked' /\ Own'
      BY <2>1, <2>2 DEF NetInv, Asked, Own, Waiting
    <2>4. Shape' /\ Rest' /\ Believed'
      BY <2>1, <2>2 DEF NetInv, Shape, Rest, Believed, Waiting
    <2> QED
      BY <1>1, <2>3, <2>4 DEF NetInv
  <1>3. CASE Greeted
    BY <1>3, HandshakeNet
  <1>4. CASE Refused
    <2>1. client' = "off" /\ ~conn' /\ toClient' = <<>> /\ Len(toClient') = 0
      BY <1>4 DEF Refused
    <2> QED
      BY <1>1, <2>1 DEF NetInv, Asked, Shape, Rest, Believed, Waiting
  <1>5. CASE Confirmed \/ Told
    <2>1. client \in {"RESET", "WRITE", "STATUS"} /\ Take({"RESET", "WRITE", "STATUS"}) /\ Word # "blank"
      BY <1>5 DEF Confirmed, Told, Take
    <2>2. toClient' = <<>> /\ toServer = <<>> /\ 1 \in 1 .. Len(toClient) /\ Head(toClient) = toClient[1]
      BY <2>1, Taken
    <2>3. Blanks(toClient')
      BY <2>2 DEF Blanks
    <2>4. Word \in {"OK", "UP"} => dbg
      BY <2>1, <2>2 DEF NetInv, Believed, Word
    <2>5. client' = "idle" /\ dbg' = dbg /\ conn' = conn /\ toServer' = toServer
      BY <1>5 DEF Confirmed, Told, Answered, serverVars
    <2>6. open' /\ up' => dbg
      BY <1>5, <2>4 DEF Confirmed, Told, Answered
    <2> QED
      BY <1>1, <2>1, <2>2, <2>3, <2>5, <2>6, BecomesIdle
  <1>6. CASE ReadFirst
    <2>1. client = "READ" /\ Take({"READ"}) /\ wrote' = wrote
      BY <1>6 DEF ReadFirst, Take
    <2>2. /\ 1 \in 1 .. Len(toClient) /\ Head(toClient) = toClient[1] /\ Len(toClient') = Len(toClient) - 1
          /\ \A i \in 1 .. Len(toClient') : toClient'[i] = toClient[i + 1] /\ i + 1 \in 1 .. Len(toClient)
      BY <2>1, Taken
    <2>3. Word \in {"OK", "ERR"} /\ (Word = "OK" => dbg)
      BY <2>1, <2>2 DEF NetInv, Shape, Believed, Word
    <2>4. toServer = <<>> /\ ~wrote
      BY <2>1, <2>3, Taken DEF NetInv, Shape
    <2>5. CASE Word = "OK"
      <3>1. client' = "readdata" /\ dbg /\ UNCHANGED <<open, up, sent, dbg, conn, toServer>> /\ ~wrote'
        BY <1>6, <2>1, <2>3, <2>4, <2>5 DEF ReadFirst, serverVars, Answered
      <3>2. \A i \in 1 .. Len(toClient') : i # 1 => Blank(toClient'[i])
        BY <2>1, <2>2 DEF NetInv, Shape
      <3>3. Len(toServer') = 0
        BY <2>4, <3>1
      <3>4. Asked' /\ Own'
        BY <2>1, <2>2, <2>4, <3>1, <3>3 DEF NetInv, Asked, Own
      <3>5. Shape' /\ Rest' /\ Believed'
        BY <3>1, <3>2 DEF Shape, Rest, Believed
      <3> QED
        BY <1>1, <3>4, <3>5 DEF NetInv
    <2>6. CASE Word = "ERR"
      <3>1. ~(2 \in 1 .. Len(toClient))
        BY <2>1, <2>2, <2>6 DEF NetInv, Shape, Word
      <3>2. \A i \in 1 .. Len(toClient') : i + 1 # 2
        BY <2>2, <3>1
      <3>3. Blanks(toClient')
        <4>1. \A i \in 1 .. Len(toClient') : i + 1 \notin {1, 2}
          BY <3>2
        <4> QED
          BY <2>1, <2>2, <4>1 DEF NetInv, Shape, Blanks
      <3>4. client' = "idle" /\ ~up' /\ dbg' = dbg /\ conn' = conn /\ toServer' = toServer /\ ~wrote'
        <4>1. Answered(Word = "ERR", up /\ Word # "ERR")
          BY <1>6, <2>6 DEF ReadFirst
        <4>2. client' = "idle" /\ dbg' = dbg /\ conn' = conn /\ toServer' = toServer /\ ~wrote'
          BY <2>1, <2>4, <4>1 DEF Answered, serverVars
        <4>3. ~up'
          BY <2>6, <4>1, Zenon DEF Answered
        <4> QED
          BY <4>2, <4>3
      <3> QED
        BY <1>1, <2>1, <2>4, <3>3, <3>4, BecomesIdle
    <2> QED
      BY <2>3, <2>5, <2>6
  <1>7. CASE ReadData
    <2>1. client = "readdata" /\ Take({"readdata"}) /\ wrote' = wrote
      BY <1>7 DEF ReadData, Take
    <2>2. /\ Len(toClient') = Len(toClient) - 1
          /\ \A i \in 1 .. Len(toClient') : toClient'[i] = toClient[i + 1] /\ i + 1 \in 1 .. Len(toClient)
      BY <2>1, Taken
    <2>3. Blanks(toClient')
      <3>1. \A i \in 1 .. Len(toClient') : i + 1 # 1
        OBVIOUS
      <3> QED
        BY <2>1, <2>2, <3>1 DEF NetInv, Shape, Blanks
    <2>4. dbg /\ ~wrote
      BY <2>1 DEF NetInv, Believed, Shape
    <2>5. toServer = <<>>
      <3>1. toServer \in Seq(ToServer) /\ \A i \in 1 .. Len(toServer) : FALSE
        BY <2>1 DEF NetInv, TypeOK, Asked, Requests, Waiting
      <3>2. Len(toServer) = 0
        BY <3>1, LenProperties
      <3> QED
        BY <3>1, <3>2, EmptyIs
    <2>6. client' = "idle" /\ dbg' = dbg /\ conn' = conn /\ toServer' = toServer
      BY <1>7 DEF ReadData, Answered, serverVars
    <2> QED
      BY <1>1, <2>1, <2>3, <2>4, <2>5, <2>6, BecomesIdle
  <1>8. CASE HangsUp
    <2>1. /\ client \in {"RESET", "STATUS", "READ", "readdata", "WRITE"} /\ toClient' = <<>> /\ ~conn /\ ~open'
          /\ client' = "idle" /\ dbg' = dbg /\ conn' = conn /\ toServer' = toServer
      BY <1>8 DEF HangsUp, Answered, serverVars
    <2>2. Blanks(toClient')
      BY <2>1 DEF Blanks
    <2> QED
      BY <1>1, <2>1, <2>2, BecomesIdle
  <1> QED
    BY <1>2, <1>3, <1>4, <1>5, <1>6, <1>7, <1>8 DEF Takes

LEMMA LoseNet == ASSUME NetInv, Lose PROVE NetInv'
  <1>1. TypeOK'
    BY NextTypes DEF NetInv, Next
  <1>2. /\ UNCHANGED <<client, open, up, wrote, sent, dbg>> /\ ~conn'
        /\ toServer \in Seq(ToServer) /\ toClient \in Seq(ToClient)
    BY DEF Lose, clientVars, serverVars, NetInv, TypeOK
  <1>3. PICK m \in 0 .. Len(toServer), n \in 0 .. Len(toClient) :
            toServer' = SubSeq(toServer, 1, m) /\ toClient' = SubSeq(toClient, 1, n)
    BY DEF Lose
  <1>4. /\ Len(toServer') = m /\ Len(toServer) \in Nat /\ m <= Len(toServer)
        /\ \A i \in 1 .. m : toServer'[i] = toServer[i] /\ i \in 1 .. Len(toServer)
    BY <1>2, <1>3, Begins, LenProperties
  <1>5. /\ Len(toClient') = n /\ Len(toClient) \in Nat /\ n <= Len(toClient)
        /\ \A i \in 1 .. n : toClient'[i] = toClient[i] /\ i \in 1 .. Len(toClient)
    BY <1>2, <1>3, Begins, LenProperties
  <1>6. toServer = <<>> => toServer' = <<>>
    <2>1. toServer = <<>> => Len(toServer') = 0
      BY <1>4
    <2>2. toServer' \in Seq(ToServer)
      BY <1>1 DEF TypeOK
    <2> QED
      BY <2>1, <2>2, EmptyIs
  <1>7. toClient = <<>> => toClient' = <<>>
    <2>1. toClient = <<>> => Len(toClient') = 0
      BY <1>5
    <2>2. toClient' \in Seq(ToClient)
      BY <1>1 DEF TypeOK
    <2> QED
      BY <2>1, <2>2, EmptyIs
  <1>8. Asked'
    BY <1>2, <1>4 DEF NetInv, Asked
  <1>9. client # "off" => Own'
    BY <1>2, <1>5, <1>6 DEF NetInv, Own
  <1>10. Shape'
    BY <1>2, <1>5, <1>6, <1>7 DEF NetInv, Shape, Blanks
  <1>11. Rest' /\ Believed'
    BY <1>2, <1>5, <1>6, <1>7 DEF NetInv, Rest, Believed
  <1> QED
    BY <1>1, <1>2, <1>8, <1>9, <1>10, <1>11 DEF NetInv

\* What a line that the server reads does, beside its answer.
LEMMA Served ==
    ASSUME NetInv, NEW state, NEW words, Serve(state, words)
    PROVE  /\ toServer # <<>> /\ UNCHANGED <<client, open, up, wrote, sent, conn>>
           /\ 1 \in 1 .. Len(toServer) /\ Head(toServer) = toServer[1] /\ Head(toServer).word \in words
           /\ toServer' \in Seq(ToServer) /\ Len(toServer') = Len(toServer) - 1
           /\ \A i \in 1 .. Len(toServer') : toServer'[i] = toServer[i + 1] /\ i + 1 \in 1 .. Len(toServer)
           /\ client # "off" => Blanks(toClient)
           /\ client \in Waiting => /\ Head(toServer).word \in Requests(client) /\ Head(toServer).of = sent
                                    /\ Head(toServer).word \notin {"WRITE", "data"} => toServer' = <<>>
           /\ client \notin Waiting => ~conn /\ (client = "idle" => ~open)
           /\ Asked'
  <1>1. toServer \in Seq(ToServer) /\ toServer # <<>> /\ toServer' = Tail(toServer)
        /\ UNCHANGED <<client, open, up, wrote, sent, conn>> /\ Head(toServer).word \in words
    BY DEF NetInv, TypeOK, Serve, clientVars
  <1>2. /\ 1 \in 1 .. Len(toServer) /\ Head(toServer) = toServer[1]
        /\ toServer' \in Seq(ToServer) /\ Len(toServer') = Len(toServer) - 1
        /\ \A i \in 1 .. Len(toServer') : toServer'[i] = toServer[i + 1] /\ i + 1 \in 1 .. Len(toServer)
    BY <1>1, First
  <1>3. client # "off" => Blanks(toClient)
    BY <1>1 DEF NetInv, Own, Blanks
  <1>4. ASSUME client \in Waiting
        PROVE  /\ Head(toServer).word \in Requests(client) /\ Head(toServer).of = sent
               /\ Head(toServer).word \notin {"WRITE", "data"} => 1 = Len(toServer)
    BY <1>2, <1>4 DEF NetInv, Asked
  <1>5. ASSUME 1 = Len(toServer) PROVE toServer' = <<>>
    <2>1. Len(toServer') = Len(toServer) - 1
      BY <1>2
    <2>2. Len(toServer') = 0
      BY ONLY <1>5, <2>1
    <2> QED
      BY <1>2, <2>2, EmptyIs
  <1>6. client \notin Waiting => ~conn /\ (client = "idle" => ~open)
    BY <1>1 DEF NetInv, TypeOK, Rest
  <1>7. Asked'
    <2>1. Len(toServer) \in Nat
      BY <1>1, LenProperties
    <2>2. ASSUME client \in Waiting, NEW i \in 1 .. Len(toServer')
          PROVE  /\ toServer'[i].of = sent /\ toServer'[i].word \in Requests(client)
                 /\ toServer'[i].word \notin {"WRITE", "data"} => i + 1 = Len(toServer)
      BY <1>2, <2>2 DEF NetInv, Asked
    <2>3. \A i \in 1 .. Len(toServer') : i + 1 = Len(toServer) => i = Len(toServer')
      <3>1. Len(toServer') = Len(toServer) - 1
        BY <1>2
      <3> QED
        BY <2>1, <3>1
    <2> QED
      BY <1>1, <2>2, <2>3 DEF Asked
  <1> QED
    BY <1>1, <1>2, <1>3, <1>4, <1>5, <1>6, <1>7

\* Nobody hears what is answered, or nothing is.
LEMMA Unheard ==
    ASSUME NetInv, TypeOK', NEW state, NEW words, Serve(state, words), toClient' = toClient,
           client \in Waiting /\ dbg' # dbg => client \in {"RESET", "WRITE", "STATUS", "READ"}
    PROVE  NetInv'
  <1>1. /\ toServer # <<>> /\ UNCHANGED <<client, open, up, wrote, sent, conn>> /\ Asked'
        /\ client # "off" => Blanks(toClient)
        /\ client \notin Waiting => ~conn /\ (client = "idle" => ~open)
    BY Served
  <1>2. client # "off" => Own'
    BY <1>1 DEF Own, Blanks
  <1>3. Shape'
    BY <1>1 DEF NetInv, Shape, Blanks
  <1>4. Rest'
    BY <1>1 DEF NetInv, Rest, Waiting
  <1>5. Believed'
    BY <1>1 DEF NetInv, Believed, Blanks, Blank, Waiting
  <1> QED
    BY <1>1, <1>2, <1>3, <1>4, <1>5 DEF NetInv

\* A request is answered by one line, or by the three of a read.
LEMMA Heard ==
    ASSUME NetInv, TypeOK', NEW state, NEW words, Serve(state, words), conn,
           Head(toServer).word \notin {"WRITE", "data"},
           NEW answer \in Seq(ClientWords), Answer(answer),
           Len(answer) = 1 \/ (client = "READ" /\ answer = <<"OK", "data", "blank">>),
           client = "READ" => answer[1] \in {"OK", "ERR"},
           answer[1] \in {"OK", "UP"} /\ client \in {"RESET", "WRITE", "STATUS", "READ"} => dbg',
           client \in {"RESET", "WRITE", "STATUS", "READ"} \/ dbg' = dbg
    PROVE  NetInv'
  <1>1. /\ toServer # <<>> /\ UNCHANGED <<client, open, up, wrote, sent, conn>> /\ Asked'
        /\ client \in Waiting /\ Blanks(toClient) /\ Head(toServer).of = sent /\ toServer' = <<>>
    <2>1. /\ toServer # <<>> /\ UNCHANGED <<client, open, up, wrote, sent, conn>> /\ Asked'
          /\ client # "off" => Blanks(toClient)
          /\ client \in Waiting => /\ Head(toServer).of = sent
                                   /\ Head(toServer).word \notin {"WRITE", "data"} => toServer' = <<>>
          /\ client \notin Waiting => ~conn
      BY Served
    <2> QED
      BY <2>1 DEF Waiting
  <1>2. sent \in Nat /\ toClient \in Seq([word : ClientWords, of : Nat])
    BY DEF NetInv, TypeOK, ToClient
  <1>3. toClient' = toClient \o Lines(answer, sent)
    BY <1>1 DEF Answer
  <1>4. /\ Len(toClient') = Len(toClient) + Len(answer)
        /\ \A i \in 1 .. Len(toClient) : toClient'[i] = toClient[i]
        /\ \A i \in Len(toClient) + 1 .. Len(toClient) + Len(answer) :
              toClient'[i].word = answer[i - Len(toClient)] /\ toClient'[i].of = sent
    <2>1. Len(toClient \o Lines(answer, sent)) = Len(toClient) + Len(answer)
      BY <1>2, Behind
    <2>2. \A i \in 1 .. Len(toClient) : (toClient \o Lines(answer, sent))[i] = toClient[i]
      BY <1>2, Behind
    <2>3. ASSUME NEW i \in Len(toClient) + 1 .. Len(toClient) + Len(answer)
          PROVE  /\ (toClient \o Lines(answer, sent))[i].word = answer[i - Len(toClient)]
                 /\ (toClient \o Lines(answer, sent))[i].of = sent
      <3>1. /\ (toClient \o Lines(answer, sent))[i] = Lines(answer, sent)[i - Len(toClient)]
            /\ i - Len(toClient) \in 1 .. Len(answer)
        <4> DEFINE s == toClient
                   n == sent
        <4>1. s \in Seq([word : ClientWords, of : Nat]) /\ n \in Nat /\ i \in Len(s) + 1 .. Len(s) + Len(answer)
          BY <1>2
        <4> HIDE DEF s, n
        <4>2. \A j \in Len(s) + 1 .. Len(s) + Len(answer) :
                (s \o Lines(answer, n))[j] = Lines(answer, n)[j - Len(s)] /\ j - Len(s) \in 1 .. Len(answer)
          BY <4>1, Behind, Zenon
        <4>3. (s \o Lines(answer, n))[i] = Lines(answer, n)[i - Len(s)] /\ i - Len(s) \in 1 .. Len(answer)
          BY <4>1, <4>2, Zenon
        <4> QED
          BY <4>3 DEF s, n
      <3>2. i - Len(toClient) \in 1 .. Len(answer)
        BY <3>1, Zenon
      <3>3. \A j \in 1 .. Len(answer) : Lines(answer, sent)[j].word = answer[j] /\ Lines(answer, sent)[j].of = sent
        BY ONLY <1>2, LinesAre
      <3> QED
        BY ONLY <3>1, <3>2, <3>3, Zenon
    <2> QED
      BY <1>3, <2>1, <2>2, <2>3
  <1>5. Len(toClient) \in Nat /\ Len(answer) \in Nat
    BY <1>2, LenProperties
  <1>6. \A i \in 1 .. Len(toClient') : i \in 1 .. Len(toClient)
                \/ (i \in Len(toClient) + 1 .. Len(toClient) + Len(answer) /\ i - Len(toClient) \in 1 .. Len(answer))
    BY <1>4, <1>5
  <1>7. Own'
    BY <1>1, <1>4, <1>6 DEF Own, Blanks
  <1>8. client = "READ" => toClient = <<>> /\ Len(toClient) = 0
    BY <1>1 DEF NetInv, Shape
  <1>9. Shape'
    <2>1. CASE client = "READ"
      <3>1. Len(toClient') = Len(answer) /\ \A i \in 1 .. Len(answer) : toClient'[i].word = answer[i]
        BY <1>4, <1>5, <1>8, <2>1
      <3>2. CASE Len(answer) = 1
        <4>1. \A i \in 1 .. Len(toClient') : i = 1
          BY <3>1, <3>2
        <4>2. \A i \in 1 .. Len(toClient') : toClient'[i].word = answer[1]
          BY <3>1, <4>1
        <4> QED
          BY <1>1, <2>1, <4>1, <4>2 DEF NetInv, Shape
      <3>3. CASE answer = <<"OK", "data", "blank">>
        <4>1. Len(answer) = 3 /\ answer[1] = "OK" /\ answer[3] = "blank"
          BY <3>3
        <4>2. 1 \in 1 .. Len(toClient') /\ \A i \in 1 .. Len(toClient') : i \in {1, 2, 3}
          BY <3>1, <4>1
        <4>3. \A i \in 1 .. Len(toClient') : toClient'[i].word = answer[i]
          BY <3>1
        <4> QED
          BY <1>1, <2>1, <4>1, <4>2, <4>3 DEF NetInv, Shape, Blank
      <3> QED
        BY <3>2, <3>3
    <2>2. CASE client # "READ"
      <3>1. client \notin {"idle", "readdata"}
        <4>1. client # "readdata"
          BY <1>1, Served DEF Requests
        <4> QED
          BY <1>1, <4>1 DEF Waiting
      <3>2. \A i \in 1 .. Len(toClient') : ~Blank(toClient'[i]) => i = Len(toClient')
        BY <1>1, <1>4, <1>5, <1>6, <2>2 DEF Blanks
      <3> QED
        BY <1>1, <2>2, <3>1, <3>2 DEF NetInv, Shape
    <2> QED
      BY <2>1, <2>2
  <1>10. Rest'
    BY <1>1 DEF NetInv, Rest, Waiting
  <1>11. Believed'
    <2>1. client # "readdata" /\ client # "idle"
      <3>1. client # "readdata"
        BY <1>1, Served DEF Requests
      <3> QED
        BY <1>1, <3>1 DEF Waiting
    <2>2. ASSUME client \in {"RESET", "WRITE", "STATUS", "READ"}, NEW i \in 1 .. Len(toClient'),
                 toClient'[i].word \in {"OK", "UP"}
          PROVE  dbg'
      <3>1. i \in Len(toClient) + 1 .. Len(toClient) + Len(answer) /\ i - Len(toClient) \in 1 .. Len(answer)
        BY <1>1, <1>4, <1>6, <2>2 DEF Blanks, Blank
      <3>2. answer[i - Len(toClient)] \in {"OK", "UP"}
        BY <1>4, <2>2, <3>1
      <3>3. i - Len(toClient) = 1
        <4>1. CASE Len(answer) = 1
          BY <3>1, <4>1
        <4>2. CASE answer = <<"OK", "data", "blank">>
          BY <3>1, <3>2, <4>2
        <4> QED
          BY <4>1, <4>2
      <3> QED
        BY <2>2, <3>2, <3>3
    <2> QED
      BY <1>1, <2>1, <2>2 DEF NetInv, Believed
  <1> QED
    BY <1>1, <1>7, <1>9, <1>10, <1>11 DEF NetInv

\* A reset, a read or a write, which says that it succeeded only with a link that is up.
LEMMA OperateNet ==
    ASSUME NetInv, TypeOK', NEW state, NEW word \in {"RESET", "READ", "blank"}, NEW outcomes,
           Operate(state, word, outcomes),
           \A o \in outcomes :
              /\ o[2] \in Seq(ClientWords) /\ o[2][1] \in {"OK", "ERR"} /\ (o[2][1] = "OK" => o[1])
              /\ Len(o[2]) = 1 \/ (word = "READ" /\ o[2] = <<"OK", "data", "blank">>)
    PROVE  NetInv'
  <1>1. Serve(state, {word}) /\ \E o \in outcomes \cup {<<dbg, <<"ERR">>>>} : dbg' = o[1] /\ Answer(o[2])
    BY DEF Operate
  <1>2. PICK o \in outcomes \cup {<<dbg, <<"ERR">>>>} : dbg' = o[1] /\ Answer(o[2])
    BY <1>1
  <1>3. /\ o[2] \in Seq(ClientWords) /\ o[2][1] \in {"OK", "ERR"} /\ (o[2][1] = "OK" => o[1])
        /\ Len(o[2]) = 1 \/ (word = "READ" /\ o[2] = <<"OK", "data", "blank">>)
    <2>1. CASE o = <<dbg, <<"ERR">>>>
      <3>1. o[2] = <<"ERR">> /\ Len(<<"ERR">>) = 1 /\ <<"ERR">>[1] = "ERR"
        BY <2>1
      <3> QED
        BY <3>1, AnswersAre
    <2> QED
      BY <2>1
  <1>4. Head(toServer).word = word /\ (client \in Waiting => word \in Requests(client))
    BY <1>1, Served
  <1>5. client \in Waiting => client \in {"RESET", "WRITE", "READ"} /\ (word = "READ" <=> client = "READ")
    BY <1>4 DEF Requests
  <1>6. CASE ~conn
    BY <1>1, <1>2, <1>5, <1>6, Unheard DEF Answer
  <1>7. CASE conn
    <2>1. client \in Waiting
      BY <1>1, <1>7, Served
    <2>2. o[2][1] \in {"OK", "UP"} => dbg'
      BY <1>2, <1>3
    <2> DEFINE answer == o[2]
    <2>3. /\ answer \in Seq(ClientWords) /\ Answer(answer)
          /\ Len(answer) = 1 \/ (client = "READ" /\ answer = <<"OK", "data", "blank">>)
          /\ answer[1] \in {"OK", "ERR"} /\ (answer[1] \in {"OK", "UP"} => dbg')
      BY <1>2, <1>3, <1>5, <2>1, <2>2
    <2> HIDE DEF answer
    <2> QED
      BY <1>1, <1>4, <1>5, <1>7, <2>1, <2>3, Heard
  <1> QED
    BY <1>6, <1>7

\* The end of a write that does not fail, and what the server does besides.
WriteServed ==
    Operate("data", "blank", IF ~dbg THEN {<<FALSE, <<"ERR">>>>} ELSE {<<TRUE, <<"OK">>>>})

SoundServes ==
    \/ Greet \/ ServeStatus \/ ServeUser \/ ServePassword \/ ServeReset \/ ServeRead
    \/ ServeWrite \/ ServeData \/ WriteServed \/ ServeClose \/ ServeEnd

SoundNext == Asks \/ Takes \/ SoundServes \/ Lose

LEMMA WriteServes == WriteServed => ServeDataEnd
  <1> DEFINE O == IF ~dbg THEN {<<FALSE, <<"ERR">>>>} ELSE {<<TRUE, <<"OK">>>>}
             P == IF ~dbg THEN {<<FALSE, <<"ERR">>>>}
                  ELSE {<<TRUE, <<"OK">>>>} \cup Failing("write", <<"ERR", "OK">>)
  <1>1. O \subseteq P
    OBVIOUS
  <1>2. WriteServed <=> Operate("data", "blank", O)
    BY DEF WriteServed
  <1>3. ServeDataEnd <=> Operate("data", "blank", P)
    BY DEF ServeDataEnd
  <1> HIDE DEF O, P
  <1>4. Operate("data", "blank", O) => Operate("data", "blank", P)
    BY <1>1 DEF Operate
  <1> QED
    BY <1>2, <1>3, <1>4

LEMMA SoundIsNext == SoundNext => Next
  BY WriteServes DEF SoundNext, SoundServes, Next, Serves

LEMMA ServesNet == ASSUME NetInv, SoundServes PROVE NetInv'
  <1>1. TypeOK'
    BY SoundIsNext, NextTypes DEF NetInv, SoundNext
  <1> DEFINE Fit(word, s) ==
        \A o \in s :
            /\ o[2] \in Seq(ClientWords) /\ o[2][1] \in {"OK", "ERR"} /\ (o[2][1] = "OK" => o[1])
            /\ Len(o[2]) = 1 \/ (word = "READ" /\ o[2] = <<"OK", "data", "blank">>)
  <1>2. ASSUME NEW word, NEW o, o \in {<<TRUE, <<"OK">>>>, <<FALSE, <<"ERR">>>>} PROVE Fit(word, {o})
    <2>1. CASE o = <<TRUE, <<"OK">>>>
      <3>1. o[2] = <<"OK">> /\ o[1] = TRUE /\ Len(<<"OK">>) = 1 /\ <<"OK">>[1] = "OK"
        BY <2>1
      <3> QED
        BY <3>1, AnswersAre
    <2>2. CASE o = <<FALSE, <<"ERR">>>>
      <3>1. o[2] = <<"ERR">> /\ o[1] = FALSE /\ Len(<<"ERR">>) = 1 /\ <<"ERR">>[1] = "ERR"
        BY <2>2
      <3> QED
        BY <3>1, AnswersAre
    <2> QED
      BY <1>2, <2>1, <2>2
  <1>3. Fit("READ", {<<TRUE, <<"OK", "data", "blank">>>>})
    <2> DEFINE w == <<"OK", "data", "blank">>
    <2>1. w \in Seq(ClientWords) /\ w[1] = "OK"
      BY AnswersAre
    <2> HIDE DEF w
    <2>2. \A o \in {<<TRUE, w>>} : o[1] = TRUE /\ o[2] = w
      <3>1. <<TRUE, w>>[1] = TRUE /\ <<TRUE, w>>[2] = w
        OBVIOUS
      <3> QED
        BY <3>1, Zenon
    <2>3. Fit("READ", {<<TRUE, w>>}) <=> \A o \in {<<TRUE, w>>} :
            /\ o[2] \in Seq(ClientWords) /\ o[2][1] \in {"OK", "ERR"} /\ (o[2][1] = "OK" => o[1])
            /\ Len(o[2]) = 1 \/ o[2] = w
      BY DEF w
    <2>4. Fit("READ", {<<TRUE, w>>})
      BY <2>1, <2>2, <2>3
    <2> QED
      BY <2>4 DEF w
  <1>4. ASSUME NEW fault, NEW words PROVE Failing(fault, words) \in {{}, {<<FALSE, words>>}}
    BY DEF Failing
  <1>6. ASSUME NEW word, NEW s, NEW t, Fit(word, s), Fit(word, t) PROVE Fit(word, s \cup t)
    BY <1>6
  <1>7. CASE ServeReset
    <2>1. Fit("RESET", {<<TRUE, <<"OK">>>>} \cup Failing("reset", <<"ERR">>))
      <3>1. Fit("RESET", {<<TRUE, <<"OK">>>>}) /\ Fit("RESET", {<<FALSE, <<"ERR">>>>}) /\ Fit("RESET", {})
        BY <1>2
      <3> HIDE DEF Fit
      <3> QED
        BY <1>4, <1>6, <3>1
    <2> QED
      BY <1>1, <1>7, <2>1, OperateNet DEF ServeReset
  <1>8. CASE ServeRead
    <2> DEFINE outcomes ==
            IF ~dbg THEN {<<FALSE, <<"ERR">>>>}
            ELSE {<<TRUE, <<"OK", "data", "blank">>>>} \cup Failing("read", <<"ERR">>)
    <2>1. Fit("READ", outcomes)
      <3>1. Fit("READ", {<<FALSE, <<"ERR">>>>}) /\ Fit("READ", {})
        BY <1>2
      <3> HIDE DEF Fit
      <3> QED
        BY <1>3, <1>4, <1>6, <3>1
    <2>2. Operate("request", "READ", outcomes)
      BY <1>8 DEF ServeRead
    <2> HIDE DEF outcomes
    <2> QED
      BY <1>1, <2>1, <2>2, OperateNet
  <1>9. CASE WriteServed
    <2> DEFINE outcomes == IF ~dbg THEN {<<FALSE, <<"ERR">>>>} ELSE {<<TRUE, <<"OK">>>>}
    <2>1. Fit("blank", outcomes)
      <3>1. Fit("blank", {<<FALSE, <<"ERR">>>>}) /\ Fit("blank", {<<TRUE, <<"OK">>>>})
        BY <1>2
      <3> HIDE DEF Fit
      <3> QED
        BY <3>1
    <2>2. Operate("data", "blank", outcomes)
      BY <1>9 DEF WriteServed
    <2> HIDE DEF outcomes
    <2> QED
      BY <1>1, <2>1, <2>2, OperateNet
  <1>10. ASSUME NEW state, NEW words, Serve(state, words), NEW w, w \in ClientWords, Answer(<<w>>),
                words \cap {"WRITE", "data"} = {},
                dbg' = dbg, client # "READ", w \in {"OK", "UP"} /\ client \in {"RESET", "WRITE", "STATUS"} => dbg
         PROVE  NetInv'
    <2>1. <<w>> \in Seq(ClientWords) /\ Len(<<w>>) = 1 /\ <<w>>[1] = w
      BY <1>10
    <2>2. Head(toServer).word \in words
      BY <1>10, Served
    <2>3. CASE conn
      BY <1>1, <1>10, <2>1, <2>2, <2>3, Heard
    <2>4. CASE ~conn
      BY <1>1, <1>10, <2>4, Unheard DEF Answer
    <2> QED
      BY <2>3, <2>4
  <1>11. CASE ServeStatus
    <2>1. Serve("request", {"STATUS"}) /\ dbg' = dbg
      BY <1>11 DEF ServeStatus, serverVars
    <2>2. PICK w \in {"AUTH", "UP", "DOWN"} : Answer(<<w>>) /\ (w = "UP" => dbg)
      BY <1>11 DEF ServeStatus
    <2>3. client # "READ"
      BY <2>1, Served DEF Requests, Waiting
    <2> QED
      BY <1>10, <2>1, <2>2, <2>3 DEF ClientWords
  <1>12. CASE ServeUser
    <2>1. Serve("request", {"USER"}) /\ Answer(<<"CHALLENGE">>) /\ dbg' = dbg
      BY <1>12 DEF ServeUser
    <2>2. client # "READ"
      BY <2>1, Served DEF Requests, Waiting
    <2> QED
      BY <1>10, <2>1, <2>2 DEF ClientWords
  <1>13. CASE ServePassword
    <2>1. Serve("password", {"right", "wrong"}) /\ dbg' = dbg
      BY <1>13 DEF ServePassword
    <2>2. PICK w \in {"OK", "ERR"} : Answer(<<w>>)
      BY <1>13 DEF ServePassword
    <2>3. client \notin {"READ", "RESET", "WRITE", "STATUS"}
      BY <2>1, Served DEF Requests, Waiting
    <2> QED
      BY <1>10, <2>1, <2>2, <2>3 DEF ClientWords
  <1>14. CASE ServeWrite \/ ServeData \/ ServeClose
    <2>1. PICK state, words : Serve(state, words) /\ toClient' = toClient /\ dbg' = dbg
      BY <1>14 DEF ServeWrite, ServeData, ServeClose, serverVars
    <2> QED
      BY <1>1, <2>1, Unheard
  <1>15. CASE Greet
    <2>1. /\ client = "hello" /\ conn /\ toClient' = <<Line("hello", 0)>>
          /\ UNCHANGED <<client, open, up, wrote, sent, dbg, conn, toServer>>
      BY <1>15 DEF Greet, clientVars
    <2>2. Len(toClient') = 1 /\ toClient'[1].of = 0 /\ toClient'[1].word = "hello"
      BY <2>1 DEF Line
    <2>3. \A i \in 1 .. Len(toClient') : i = 1
      BY <2>2
    <2>4. toServer = <<>> /\ sent = 0
      <3>1. toServer \in Seq(ToServer) /\ \A i \in 1 .. Len(toServer) : FALSE
        BY <2>1 DEF NetInv, TypeOK, Asked, Requests, Waiting
      <3>2. Len(toServer) = 0
        BY <3>1, LenProperties
      <3> QED
        BY <2>1, <3>1, <3>2, EmptyIs DEF NetInv, Rest
    <2>5. Asked' /\ Own'
      BY <2>1, <2>2, <2>3, <2>4 DEF NetInv, Asked, Own
    <2>6. Shape'
      BY <2>1, <2>2, <2>3 DEF NetInv, Shape
    <2>7. Rest' /\ Believed'
      BY <2>1, <2>2, <2>3 DEF NetInv, Rest, Believed
    <2> QED
      BY <1>1, <2>5, <2>6, <2>7 DEF NetInv
  <1>16. CASE ServeEnd
    BY <1>1, <1>16 DEF ServeEnd, clientVars, NetInv, Asked, Own, Shape, Rest, Believed
  <1> QED
    BY <1>7, <1>8, <1>9, <1>11, <1>12, <1>13, <1>14, <1>15, <1>16 DEF SoundServes

LEMMA NextNet == NetInv /\ [SoundNext]_vars => NetInv'
  <1> SUFFICES ASSUME NetInv, [SoundNext]_vars PROVE NetInv'
    OBVIOUS
  <1>1. CASE UNCHANGED vars
    BY <1>1, NextTypes DEF vars, clientVars, serverVars, NetInv, Asked, Own, Shape, Rest, Believed, Blanks, Blank
  <1> QED
    BY <1>1, AsksNet, TakesNet, ServesNet, LoseNet DEF SoundNext

\* Without that fault every write is one that does not fail,
LEMMA NextIsSound == ASSUME "write" \notin Faults PROVE Next => SoundNext
  <1>1. Failing("write", <<"ERR", "OK">>) = {}
    BY DEF Failing
  <1>2. ServeDataEnd => WriteServed
    BY <1>1 DEF ServeDataEnd, WriteServed
  <1> QED
    BY <1>2 DEF Next, Serves, SoundNext, SoundServes

\* and so are those of a server that has every fault but that (MCNetVariants).
SoundImplNext ==
    \/ (Connect \/ AskReset \/ AskStatus) /\ Commanded("nothing")
    \/ AskRead /\ Commanded("READ")
    \/ AskWrite /\ Commanded("WRITE")
    \/ (Confirmed \/ ReadData) /\ Returned
    \/ (ServeRead \/ WriteServed) /\ Carried
    \/ /\ \/ Close \/ EatBlank \/ Greeted \/ Refused \/ Told \/ ReadFirst \/ HangsUp
          \/ Greet \/ ServeStatus \/ ServeUser \/ ServePassword \/ ServeReset
          \/ ServeWrite \/ ServeData \/ ServeClose \/ ServeEnd \/ Lose
       /\ UNCHANGED history

LEMMA ImplIsSound == SoundImplNext => SoundNext
  BY DEF SoundImplNext, SoundNext, Asks, Takes, SoundServes

LEMMA VariantIsSound == Sound!ImplNext => SoundImplNext
  <1>1. ASSUME NEW fault \in {"read", "reset"}, NEW words PROVE Sound!Failing(fault, words) = Failing(fault, words)
    BY <1>1 DEF Sound!Failing, Failing
  <1>2. ASSUME NEW words PROVE Sound!Failing("write", words) = {}
    BY DEF Sound!Failing
  <1>3. ASSUME NEW state, NEW word, NEW outcomes
        PROVE  Sound!Operate(state, word, outcomes) <=> Operate(state, word, outcomes)
    BY DEF Sound!Operate, Operate, Sound!Serve, Serve, Sound!Answer, Answer, Sound!Lines, Lines, Sound!Line, Line,
           Sound!clientVars, clientVars
  <1>4. /\ Sound!Connect => Connect
        /\ Sound!AskReset => AskReset
        /\ Sound!AskStatus => AskStatus
        /\ Sound!AskWrite => AskWrite
        /\ Sound!AskRead => AskRead
        /\ Sound!Close => Close
    BY DEF Sound!Connect, Connect, Sound!AskReset, AskReset, Sound!AskStatus, AskStatus,
           Sound!AskWrite, AskWrite, Sound!AskRead, AskRead, Sound!Close, Close, Sound!Ask, Ask, Sound!Post, Post,
           Sound!Lines, Lines, Sound!Line, Line, Sound!serverVars, serverVars
  <1>5. /\ Sound!EatBlank => EatBlank
        /\ Sound!Greeted => Greeted
        /\ Sound!Refused => Refused
        /\ Sound!Confirmed => Confirmed
    BY DEF Sound!EatBlank, EatBlank, Sound!Greeted, Greeted, Sound!Refused, Refused,
           Sound!Confirmed, Confirmed, Sound!Answered, Answered, Sound!Take, Take, Sound!Word, Word, Sound!Post, Post,
           Sound!Lines, Lines, Sound!Line, Line, Sound!Waiting, Waiting, Sound!clientVars, clientVars,
           Sound!serverVars, serverVars
  <1>6. /\ Sound!Told => Told
        /\ Sound!ReadFirst => ReadFirst
        /\ Sound!ReadData => ReadData
        /\ Sound!HangsUp => HangsUp
        /\ Sound!Lose => Lose
    BY DEF Sound!Told, Told, Sound!ReadFirst, ReadFirst, Sound!ReadData, ReadData,
           Sound!HangsUp, HangsUp, Sound!Answered, Answered, Sound!Take, Take, Sound!Word, Word,
           Sound!Lose, Lose, Sound!clientVars, clientVars, Sound!serverVars, serverVars
  <1>7. Sound!ServeReset => ServeReset
    BY <1>1, <1>3 DEF Sound!ServeReset, ServeReset
  <1>8. Sound!ServeRead => ServeRead
    BY <1>1, <1>3 DEF Sound!ServeRead, ServeRead
  <1>9. Sound!ServeDataEnd => WriteServed
    BY <1>2, <1>3 DEF Sound!ServeDataEnd, WriteServed
  <1>10. (Sound!Greet => Greet) /\ (Sound!ServeEnd => ServeEnd)
    BY DEF Sound!Greet, Greet, Sound!ServeEnd, ServeEnd, Sound!Line, Line, Sound!clientVars, clientVars
  <1>11. /\ Sound!ServeStatus => ServeStatus
         /\ Sound!ServeUser => ServeUser
         /\ Sound!ServePassword => ServePassword
    BY DEF Sound!ServeStatus, ServeStatus, Sound!ServeUser, ServeUser, Sound!ServePassword, ServePassword,
           Sound!Serve, Serve, Sound!Answer, Answer, Sound!Lines, Lines, Sound!Line, Line,
           Sound!clientVars, clientVars, Sound!serverVars, serverVars
  <1>12. /\ Sound!ServeWrite => ServeWrite
         /\ Sound!ServeData => ServeData
         /\ Sound!ServeClose => ServeClose
    BY DEF Sound!ServeWrite, ServeWrite, Sound!ServeData, ServeData, Sound!ServeClose, ServeClose,
           Sound!Serve, Serve, Sound!clientVars, clientVars, Sound!serverVars, serverVars
  <1>13. /\ Sound!Carried => Carried
         /\ Sound!Returned => Returned
         /\ UNCHANGED Sound!history => UNCHANGED history
    BY DEF Sound!Carried, Carried, Sound!Returned, Returned, Sound!Commanded, Commanded, Sound!Calling, Calling,
           Sound!history, history
  <1>14. ASSUME NEW op PROVE Sound!Commanded(op) => Commanded(op)
    BY DEF Sound!Commanded, Commanded
  <1> QED
    BY <1>4, <1>5, <1>6, <1>7, <1>8, <1>9, <1>10, <1>11, <1>12, <1>13, <1>14 DEF Sound!ImplNext, SoundImplNext

\* In the specification with both servers, the invariant is that of the sound one.
LEMMA InvVariants == VariantSpec => [](writes = "succeed" => NetInv)
  <1> DEFINE I == writes = "succeed" => NetInv
  <1>1. VariantInit => I
    BY InitNet DEF VariantInit, ImplInit
  <1>2. I /\ [VariantNext]_<<vars, history, writes>> => I'
    <2> SUFFICES ASSUME I, [VariantNext]_<<vars, history, writes>>, writes' = "succeed" PROVE NetInv'
      OBVIOUS
    <2>1. CASE UNCHANGED <<vars, history, writes>>
      BY <2>1, NextNet
    <2>2. CASE VariantNext
      BY <2>2, VariantIsSound, ImplIsSound, NextNet DEF VariantNext
    <2> QED
      BY <2>1, <2>2
  <1> HIDE DEF I
  <1>3. VariantSpec => []I
    BY <1>1, <1>2, PTL DEF VariantSpec
  <1> QED
    BY <1>3 DEF I

LEMMA InvNet == ASSUME "write" \notin Faults PROVE Spec => []NetInv
  <1>1. Init => NetInv
    BY InitNet
  <1>2. NetInv /\ [Next]_vars => NetInv'
    BY NextIsSound, NextNet
  <1> QED
    BY <1>1, <1>2, PTL DEF Spec

LEMMA NetAnswers == NetInv => AnswersAreOwn /\ UpIsUp
  <1>1. NetInv => AnswersAreOwn
    <2> SUFFICES ASSUME NetInv, client \in Waiting, toClient # <<>>, Head(toClient).word # "blank"
                 PROVE  Head(toClient).of = sent
      BY DEF AnswersAreOwn
    <2>1. toClient \in Seq(ToClient) /\ client # "off"
      BY DEF NetInv, TypeOK, Waiting
    <2>2. 1 \in 1 .. Len(toClient) /\ Head(toClient) = toClient[1]
      BY <2>1, First
    <2> QED
      BY <2>1, <2>2 DEF NetInv, Own, Blank
  <1> QED
    BY <1>1 DEF NetInv, Believed, UpIsUp

\* As long as no write fails, what the client takes for the answer to its request
\* is the answer to it, whatever else fails and wherever connections are lost.
THEOREM OwnAnswersTaken == ASSUME "write" \notin Faults PROVE Spec => []AnswersAreOwn
  BY NetAnswers, InvNet, PTL

\* As long as no write fails, a client that takes the link for up is right.
THEOREM UpIsTrue == ASSUME "write" \notin Faults PROVE Spec => []UpIsUp
  BY NetAnswers, InvNet, PTL

\* As long as no write fails, the data that a client takes are those it asked for
\* last (ocd_tcpip::read): the debugger never shows the bytes of an earlier command.
THEOREM OwnReads == ASSUME "write" \notin Faults PROVE Spec => ReadsAreOwn
  <1>1. ASSUME NetInv, client = "readdata", client' = "idle", open', [Next]_vars
        PROVE  Head(toClient) = Line("data", sent)
    <2>1. ReadData \/ HangsUp
      BY <1>1 DEF Next, Asks, Connect, AskReset, AskStatus, AskWrite, AskRead, Ask, Close, Takes, EatBlank, Take,
         Greeted, Refused, Confirmed, Told, ReadFirst, Serves, Greet, ServeStatus, ServeUser, ServePassword,
         ServeReset, ServeRead, ServeWrite, ServeData, ServeDataEnd, ServeClose, ServeEnd, Operate, Serve, Lose,
         vars, clientVars
    <2>2. ReadData /\ Word = "data"
      BY <1>1, <2>1 DEF ReadData, HangsUp, Answered
    <2>3. toClient \in Seq(ToClient) /\ toClient # <<>>
      BY <1>1, <2>2 DEF NetInv, TypeOK, ReadData, Take
    <2>4. Head(toClient) = toClient[1] /\ 1 \in 1 .. Len(toClient) /\ Head(toClient) \in ToClient
      BY <2>3, First
    <2>5. Head(toClient).of = sent /\ Head(toClient).word = "data"
      BY <1>1, <2>2, <2>4 DEF NetInv, Own, Blank, Word
    <2> QED
      BY <2>4, <2>5 DEF ToClient, Line
  <1>2. ASSUME NetInv, [Next]_vars
        PROVE  [client = "readdata" /\ client' = "idle" /\ open' => Head(toClient) = Line("data", sent)]_vars
    BY <1>1, <1>2
  <1> QED
    BY <1>2, InvNet, PTL DEF Spec, ReadsAreOwn

\* The same of the server without that fault beside one that has it: every answer
\* taken is the server's answer to the request just sent (ocd_tcpip.cpp).
THEOREM VariantAnswers == VariantSpec => []OwnAnswers
  <1>1. (writes = "succeed" => NetInv) => OwnAnswers
    BY NetAnswers DEF OwnAnswers
  <1> QED
    BY <1>1, InvVariants, PTL

\* And a client of it that takes the link for up is right.
THEOREM VariantUp == VariantSpec => []TrulyUp
  <1>1. (writes = "succeed" => NetInv) => TrulyUp
    BY NetAnswers DEF TrulyUp
  <1> QED
    BY <1>1, InvVariants, PTL

-----------------------------------------------------------------------------
(* ocd_tcpip as an implementation of OcdLink, where no write fails.        *)

\* The lines of a command for the device, and the one with which it is executed.
OfCommand(l) == l.word \in {"READ", "WRITE", "data", "blank"}
Executed(l) == l.word \in {"READ", "blank"}

\* What is on its way to the device belongs to the last command, and it has not
\* executed that.
Pending ==
    \A i \in 1 .. Len(toServer) : OfCommand(toServer[i]) =>
        /\ toServer[i].of = sent /\ ran = <<>>
        /\ asked = IF toServer[i].word = "READ" THEN "READ" ELSE "WRITE"
        /\ Executed(toServer[i]) => \A j \in 1 .. Len(toServer) : i < j => ~OfCommand(toServer[j])

\* What the client is told of it has happened.
Happened ==
    /\ client = "readdata" => ran = <<sent>>
    /\ client \in {"READ", "WRITE"} =>
        \A i \in 1 .. Len(toClient) : toClient[i].word = "OK" => ran = <<sent>>

\* The history goes with what the client is doing: between commands the device has
\* one to execute only under a link that is down.
Along ==
    /\ asked \in {"nothing", "READ", "WRITE"}
    /\ ran # <<>> => ran = <<sent>> /\ asked # "nothing"
    /\ client \in {"READ", "readdata"} => asked = "READ"
    /\ client = "WRITE" => asked = "WRITE"
    /\ Calling => open /\ up
    /\ client \notin {"off", "idle", "crashed"} /\ ~Calling => asked = "nothing"
    /\ client \in {"idle", "off"} /\ open /\ up => asked = "nothing"

ImplInv == NetInv /\ Along /\ Pending /\ Happened

LEMMA InitImpl == ImplInit => ImplInv
  <1> SUFFICES ASSUME ImplInit PROVE ImplInv
    OBVIOUS
  <1>1. NetInv
    BY InitNet DEF ImplInit
  <1>2. Len(toServer) = 0 /\ client = "off" /\ ~open /\ asked = "nothing" /\ ran = <<>>
    BY DEF ImplInit, Init
  <1> QED
    BY <1>1, <1>2 DEF ImplInv, Along, Pending, Happened, Calling

\* One line, posted behind none.
LEMMA PostedLine ==
    ASSUME NetInv, toServer = <<>>, NEW w \in ServerWords, Post(<<w>>)
    PROVE  /\ sent' = sent + 1 /\ sent' \in Nat
           /\ Len(toServer') \in {0, 1}
           /\ \A i \in 1 .. Len(toServer') : i = 1 /\ toServer'[i].word = w /\ toServer'[i].of = sent'
  <1>1. sent \in Nat /\ sent' = sent + 1 /\ sent' \in Nat /\ Len(toServer) = 0
    BY DEF NetInv, TypeOK, Post
  <1>2. CASE ~conn
    BY <1>1, <1>2 DEF Post
  <1>3. CASE conn
    <2> DEFINE n == sent + 1
               l == Lines(<<w>>, n)
    <2>1. n \in Nat /\ <<w>> \in Seq(ServerWords) /\ Len(<<w>>) = 1 /\ <<w>>[1] = w
      BY <1>1
    <2> HIDE DEF n
    <2>2. l \in Seq([word : ServerWords, of : Nat]) /\ Len(l) = 1 /\ l[1].word = w /\ l[1].of = n
      <3>1. /\ Lines(<<w>>, n) \in Seq([word : ServerWords, of : Nat]) /\ Len(Lines(<<w>>, n)) = Len(<<w>>)
            /\ \A i \in 1 .. Len(<<w>>) : Lines(<<w>>, n)[i].word = <<w>>[i] /\ Lines(<<w>>, n)[i].of = n
        BY <2>1, LinesAre
      <3> QED
        BY <2>1, <3>1
    <2>3. toServer' = l
      BY <1>3, <2>2, ConcatEmptySeq DEF Post, n
    <2> HIDE DEF l
    <2>4. n = sent'
      BY <1>1 DEF n
    <2>5. Len(toServer') = 1 /\ toServer'[1].word = w /\ toServer'[1].of = sent'
      BY <2>2, <2>3, <2>4
    <2>6. \A i \in 1 .. Len(toServer') : i = 1
      BY <2>5
    <2> QED
      BY <1>1, <2>5, <2>6
  <1> QED
    BY <1>2, <1>3

\* The three lines of a write.
LEMMA PostedWrite ==
    ASSUME NetInv, toServer = <<>>, Post(<<"WRITE", "data", "blank">>)
    PROVE  /\ sent' = sent + 1 /\ sent' \in Nat
           /\ \A i \in 1 .. Len(toServer') :
                /\ toServer'[i].word \in {"WRITE", "data", "blank"} /\ toServer'[i].of = sent'
                /\ toServer'[i].word = "blank" => i = Len(toServer')
  <1> DEFINE w == <<"WRITE", "data", "blank">>
  <1>1. sent \in Nat /\ sent' = sent + 1 /\ sent' \in Nat /\ Len(toServer) = 0
    BY DEF NetInv, TypeOK, Post
  <1>2. CASE ~conn
    BY <1>1, <1>2 DEF Post
  <1>3. CASE conn
    <2> DEFINE n == sent + 1
               l == Lines(w, n)
    <2>1. n \in Nat /\ w \in Seq(ServerWords) /\ Len(w) = 3 /\ w[1] = "WRITE" /\ w[2] = "data" /\ w[3] = "blank"
      BY <1>1, RequestsAre
    <2>t. Post(w)
      OBVIOUS
    <2> HIDE DEF n, w
    <2>2. /\ Lines(w, n) \in Seq([word : ServerWords, of : Nat]) /\ Len(Lines(w, n)) = Len(w)
          /\ \A i \in 1 .. Len(w) : Lines(w, n)[i].word = w[i] /\ Lines(w, n)[i].of = n
      BY <2>1, LinesAre
    <2>3. toServer' = l
      BY <1>3, <2>2, <2>t, ConcatEmptySeq DEF Post, n
    <2>4. n = sent'
      BY <1>1 DEF n
    <2>5. Len(l) = 3 /\ \A i \in 1 .. 3 : l[i].word = w[i] /\ l[i].of = n
      BY <2>1, <2>2
    <2> HIDE DEF l
    <2>6. \A i \in 1 .. 3 : (i = 1 /\ w[i] = "WRITE") \/ (i = 2 /\ w[i] = "data") \/ (i = 3 /\ w[i] = "blank")
      BY <2>1
    <2> QED
      BY <1>1, <2>3, <2>4, <2>5, <2>6
  <1> QED
    BY <1>2, <1>3

LEMMA AsksImpl ==
    ASSUME ImplInv, \/ (Connect \/ AskReset \/ AskStatus) /\ Commanded("nothing")
                    \/ AskRead /\ Commanded("READ")
                    \/ AskWrite /\ Commanded("WRITE")
    PROVE  Along' /\ Pending' /\ Happened'
  <1>1. NetInv
    BY DEF ImplInv
  <1>2. CASE Connect /\ Commanded("nothing")
    <2>1. client' = "hello" /\ ~up' /\ Len(toServer') = 0 /\ asked' = "nothing" /\ ran' = <<>>
      BY <1>2 DEF Connect, Commanded
    <2> QED
      BY <2>1 DEF Along, Pending, Happened, Calling
  <1>3. ASSUME NEW op, NEW words, Ask(op, words)
        PROVE  client = "idle" /\ open /\ open' = open /\ client' = op /\ toServer = <<>> /\ Post(words)
               /\ toClient' = toClient /\ Blanks(toClient)
    BY <1>1, <1>3 DEF Ask, NetInv, Rest, Shape
  <1>4. CASE (AskReset \/ AskStatus) /\ Commanded("nothing")
    <2>1. PICK w \in {"RESET", "STATUS"} : Ask(w, <<w>>)
      BY <1>4 DEF AskReset, AskStatus
    <2>2. client' = w /\ Post(<<w>>) /\ toServer = <<>> /\ asked' = "nothing" /\ ran' = <<>>
      BY <1>3, <1>4, <2>1 DEF Commanded
    <2>3. w \in ServerWords
      BY DEF ServerWords
    <2>4. \A i \in 1 .. Len(toServer') : toServer'[i].word = w
      BY <1>1, <2>2, <2>3, PostedLine
    <2>5. Pending'
      BY <2>4 DEF Pending, OfCommand
    <2> QED
      BY <2>2, <2>5 DEF Along, Happened, Calling
  <1>5. CASE AskRead /\ Commanded("READ")
    <2>1. Ask("READ", <<"READ">>) /\ wrote /\ up /\ up' = up
      BY <1>5 DEF AskRead
    <2>2. /\ client = "idle" /\ client' = "READ" /\ Post(<<"READ">>) /\ toServer = <<>> /\ asked' = "READ" /\ ran' = <<>>
          /\ open' /\ up' /\ toClient' = toClient
      BY <1>3, <1>5, <2>1 DEF Commanded
    <2>3. "READ" \in ServerWords
      BY DEF ServerWords
    <2>4. \A i \in 1 .. Len(toServer') : i = 1 /\ toServer'[i].word = "READ" /\ toServer'[i].of = sent'
      BY <1>1, <2>2, <2>3, PostedLine
    <2>5. Pending'
      <3>1. \A i, j \in 1 .. Len(toServer') : ~(i < j)
        BY <2>4
      <3> QED
        BY <2>2, <2>4, <3>1 DEF Pending
    <2>6. Len(toClient') = 0
      BY <1>1, <2>1, <2>2 DEF NetInv, Shape
    <2> QED
      BY <2>2, <2>5, <2>6 DEF Along, Happened, Calling
  <1>6. CASE AskWrite /\ Commanded("WRITE")
    <2>1. Ask("WRITE", <<"WRITE", "data", "blank">>) /\ up /\ up' = up
      BY <1>6 DEF AskWrite
    <2>2. /\ client = "idle" /\ client' = "WRITE" /\ Post(<<"WRITE", "data", "blank">>) /\ toServer = <<>>
          /\ asked' = "WRITE" /\ ran' = <<>> /\ open' /\ up' /\ toClient' = toClient /\ Blanks(toClient)
      BY <1>3, <1>6, <2>1 DEF Commanded
    <2>3. \A i \in 1 .. Len(toServer') :
            /\ toServer'[i].word \in {"WRITE", "data", "blank"} /\ toServer'[i].of = sent'
            /\ toServer'[i].word = "blank" => i = Len(toServer')
      BY <1>1, <2>2, PostedWrite
    <2>4. Pending'
      <3>1. \A i, j \in 1 .. Len(toServer') : i = Len(toServer') => ~(i < j)
        OBVIOUS
      <3> QED
        BY <2>2, <2>3, <3>1 DEF Pending, Executed
    <2>5. Happened'
      BY <2>2 DEF Happened, Blanks, Blank
    <2> QED
      BY <2>2, <2>4, <2>5 DEF Along, Calling
  <1> QED
    BY <1>2, <1>4, <1>5, <1>6

\* The client takes what is on its way to it.
LEMMA TakesImpl ==
    ASSUME ImplInv, \/ (Confirmed \/ ReadData) /\ Returned
                    \/ /\ EatBlank \/ Greeted \/ Refused \/ Told \/ ReadFirst \/ HangsUp
                       /\ UNCHANGED history
    PROVE  Along' /\ Pending' /\ Happened'
  <1>1. NetInv /\ Along /\ Pending /\ Happened
    BY DEF ImplInv
  <1>2. ASSUME NEW waiting, Take(waiting), "off" \notin waiting
        PROVE  /\ 1 \in 1 .. Len(toClient) /\ Head(toClient) = toClient[1] /\ client \in waiting
               /\ \A i \in 1 .. Len(toClient') : toClient'[i] = toClient[i + 1] /\ i + 1 \in 1 .. Len(toClient)
               /\ Word # "blank" => toServer = <<>>
    BY <1>1, <1>2, Taken DEF Take
  <1>3. ASSUME toServer' = <<>> PROVE Pending'
    <2>1. Len(toServer') = 0
      BY <1>3
    <2> QED
      BY <2>1 DEF Pending
  <1>4. ASSUME UNCHANGED <<toServer, sent, history>> PROVE Pending'
    BY <1>1, <1>4 DEF Pending, history
  <1>5. CASE EatBlank /\ UNCHANGED history
    <2>1. Take(Waiting \ {"hello", "READ", "readdata"}) /\ UNCHANGED <<client, open, up, sent, toServer, history>>
      BY <1>5 DEF EatBlank, clientVars
    <2>2. /\ client \in Waiting \ {"hello", "READ", "readdata"}
          /\ \A i \in 1 .. Len(toClient') : toClient'[i] = toClient[i + 1] /\ i + 1 \in 1 .. Len(toClient)
      BY <1>2, <2>1 DEF Waiting
    <2>3. Happened'
      BY <1>1, <2>1, <2>2 DEF Happened, history
    <2>4. Along'
      BY <1>1, <2>1 DEF Along, Calling, history
    <2> QED
      BY <1>4, <2>1, <2>3, <2>4
  <1>6. CASE Greeted /\ UNCHANGED history
    <2>1. /\ Take({"hello", "status", "user", "password"}) /\ Word # "blank"
          /\ client' \in {"status", "user", "password", "idle"} /\ up' = up /\ UNCHANGED <<asked, ran>>
      BY <1>6 DEF Greeted, history
    <2>2. client \in {"hello", "status", "user", "password"} /\ toServer = <<>>
      BY <1>2, <2>1
    <2>3. asked = "nothing" /\ ran = <<>> /\ ~up
      BY <1>1, <2>2 DEF Along, Calling, NetInv, Believed
    <2>4. Pending'
      <3>1. CASE toServer' = toServer
        BY <1>3, <2>2, <3>1
      <3>2. CASE \E w \in {"STATUS", "USER", "right", "wrong"} : Post(<<w>>)
        <4>1. PICK w \in {"STATUS", "USER", "right", "wrong"} : Post(<<w>>)
          BY <3>2
        <4>2. w \in ServerWords
          BY DEF ServerWords
        <4>3. \A i \in 1 .. Len(toServer') : toServer'[i].word = w
          BY <1>1, <2>2, <4>1, <4>2, PostedLine
        <4> QED
          BY <4>3 DEF Pending, OfCommand
      <3> QED
        BY <1>6, <3>1, <3>2 DEF Greeted
    <2> QED
      BY <2>1, <2>3, <2>4 DEF Along, Happened, Calling
  <1>7. CASE Refused /\ UNCHANGED history
    <2>1. /\ client \in {"hello", "status", "user", "password"} /\ client' = "off"
          /\ UNCHANGED <<open, up, sent, toServer, asked, ran>>
      BY <1>7 DEF Refused, history
    <2>2. asked = "nothing" /\ ran = <<>>
      BY <1>1, <2>1 DEF Along, Calling
    <2>3. Pending'
      BY <1>4, <1>7, <2>1
    <2> QED
      BY <2>1, <2>2, <2>3 DEF Along, Happened, Calling
  <1>8. CASE Told /\ UNCHANGED history
    <2>1. /\ Take({"STATUS"}) /\ client' = "idle" /\ UNCHANGED <<sent, toServer, asked, ran>>
      BY <1>8 DEF Told, Answered, history
    <2>2. client = "STATUS"
      BY <1>2, <2>1
    <2>3. asked = "nothing" /\ ran = <<>>
      BY <1>1, <2>2 DEF Along, Calling
    <2>4. Pending'
      BY <1>4, <1>8, <2>1
    <2> QED
      BY <2>1, <2>3, <2>4 DEF Along, Happened, Calling
  <1>9. CASE ReadFirst /\ UNCHANGED history
    <2>1. Take({"READ"}) /\ UNCHANGED <<sent, toServer, asked, ran>>
      BY <1>9 DEF ReadFirst, Answered, history
    <2>2. client = "READ" /\ 1 \in 1 .. Len(toClient) /\ Head(toClient) = toClient[1]
      BY <1>2, <2>1
    <2>3. Word \in {"OK", "ERR"} /\ asked = "READ" /\ open /\ up
      BY <1>1, <2>2 DEF NetInv, Shape, Word, Along, Calling
    <2>4. Pending'
      BY <1>4, <1>9, <2>1
    <2>5. CASE Word = "OK"
      <3>1. client' = "readdata" /\ open' = open /\ up' = up
        BY <1>9, <2>5 DEF ReadFirst, Answered
      <3>2. ran = <<sent>>
        BY <1>1, <2>2, <2>5 DEF Happened, Word
      <3> QED
        BY <2>1, <2>3, <2>4, <3>1, <3>2 DEF Along, Happened, Calling
    <2>6. CASE Word = "ERR"
      <3>1. client' = "idle" /\ ~up'
        <4>1. Answered(Word = "ERR", up /\ Word # "ERR")
          BY <1>9, <2>6 DEF ReadFirst
        <4> QED
          BY <2>6, <4>1, Zenon DEF Answered
      <3> QED
        BY <1>1, <2>1, <2>3, <2>4, <3>1 DEF Along, Happened, Calling
    <2> QED
      BY <2>3, <2>5, <2>6
  <1>10. CASE HangsUp /\ UNCHANGED history
    <2>1. client' = "idle" /\ ~open' /\ UNCHANGED <<sent, toServer, asked, ran>>
      BY <1>10 DEF HangsUp, Answered, history
    <2>2. Pending'
      BY <1>4, <1>10, <2>1
    <2> QED
      BY <1>1, <2>1, <2>2 DEF Along, Happened, Calling
  <1>11. CASE (Confirmed \/ ReadData) /\ Returned
    <2>1. client \in {"RESET", "WRITE", "readdata"} /\ client' = "idle" /\ UNCHANGED <<sent, toServer>>
      BY <1>11 DEF Confirmed, ReadData, Take, Answered
    <2>2. toServer = <<>>
      <3>1. CASE Confirmed
        <4>1. Take({"RESET", "WRITE"}) /\ Word # "blank"
          BY <3>1 DEF Confirmed
        <4> QED
          BY <1>2, <4>1
      <3>2. CASE ReadData
        <4>1. client = "readdata"
          BY <3>2 DEF ReadData, Take
        <4>2. toServer \in Seq(ToServer) /\ \A i \in 1 .. Len(toServer) : FALSE
          BY <1>1, <4>1 DEF NetInv, TypeOK, Asked, Requests, Waiting
        <4>3. Len(toServer) = 0
          BY <4>2, LenProperties
        <4> QED
          BY <4>2, <4>3, EmptyIs
      <3> QED
        BY <1>11, <3>1, <3>2
    <2>3. Pending'
      BY <1>3, <2>1, <2>2
    <2>4. CASE Calling /\ open' /\ up' /\ asked' = "nothing" /\ ran' = <<>>
      BY <2>1, <2>3, <2>4 DEF Along, Happened, Calling
    <2>5. CASE ~(Calling /\ open' /\ up') /\ UNCHANGED <<asked, ran>>
      BY <1>1, <2>1, <2>3, <2>5 DEF Along, Happened, Calling
    <2> QED
      BY <1>11, <2>1, <2>4, <2>5 DEF Returned, Commanded, history
  <1> QED
    BY <1>5, <1>6, <1>7, <1>8, <1>9, <1>10, <1>11

\* The server reads a line: of a command for the device only where the client asked
\* for one.
LEMMA ServedPending ==
    ASSUME ImplInv, NEW state, NEW words, Serve(state, words), UNCHANGED history
    PROVE  Along' /\ Pending'
  <1>1. NetInv /\ Along /\ Pending
    BY DEF ImplInv
  <1>2. /\ UNCHANGED <<client, open, up, sent>> /\ Len(toServer') = Len(toServer) - 1
        /\ \A i \in 1 .. Len(toServer') : toServer'[i] = toServer[i + 1] /\ i + 1 \in 1 .. Len(toServer)
    BY <1>1, Served
  <1>3. UNCHANGED <<asked, ran>>
    BY DEF history
  <1>4. Along'
    BY <1>1, <1>2, <1>3 DEF Along, Calling
  <1>5. ASSUME NEW i \in 1 .. Len(toServer'), NEW j \in 1 .. Len(toServer'), i < j
        PROVE  i + 1 < j + 1
    BY <1>5
  <1>6. Pending'
    BY <1>1, <1>2, <1>3, <1>5 DEF Pending
  <1> QED
    BY <1>4, <1>6

\* What is answered to a line that is of no command does not concern a client that
\* waits for one.
LEMMA ServedBeside ==
    ASSUME ImplInv, NEW state, NEW words, Serve(state, words), words \cap {"READ", "WRITE", "data", "blank"} = {},
           UNCHANGED history
    PROVE  Along' /\ Pending' /\ Happened'
  <1>1. NetInv /\ client' = client /\ Head(toServer).word \in words
        /\ (client \in Waiting => Head(toServer).word \in Requests(client))
    BY Served DEF ImplInv
  <1>2. client' \notin {"READ", "readdata", "WRITE"}
    BY <1>1 DEF Requests, Waiting
  <1> QED
    BY <1>2, ServedPending DEF Happened

LEMMA ServesImpl ==
    ASSUME ImplInv, \/ Greet \/ ServeStatus \/ ServeUser \/ ServePassword \/ ServeReset
                    \/ ServeWrite \/ ServeData \/ ServeClose \/ ServeEnd,
           UNCHANGED history
    PROVE  Along' /\ Pending' /\ Happened'
  <1>1. Along /\ Pending /\ Happened
    BY DEF ImplInv
  <1>2. CASE Greet \/ ServeEnd
    <2>1. UNCHANGED <<client, open, up, sent, toServer, asked, ran>> /\ (client = "hello" \/ UNCHANGED toClient)
      BY <1>2 DEF Greet, ServeEnd, clientVars, history
    <2> QED
      BY <1>1, <2>1 DEF Along, Pending, Happened, Calling
  <1>3. CASE ServeStatus \/ ServeUser \/ ServePassword \/ ServeReset \/ ServeClose
    <2>1. PICK state, words : Serve(state, words) /\ words \cap {"READ", "WRITE", "data", "blank"} = {}
      <3>1. \/ Serve("request", {"STATUS"}) \/ Serve("request", {"USER"}) \/ Serve("password", {"right", "wrong"})
            \/ Serve("request", {"RESET"}) \/ Serve("request", {"CLOSE"})
        BY <1>3 DEF ServeStatus, ServeUser, ServePassword, ServeReset, ServeClose, Operate
      <3> QED
        BY <3>1
    <2> QED
      BY <2>1, ServedBeside
  <1>4. CASE ServeWrite \/ ServeData
    <2>1. PICK state, words : Serve(state, words) /\ toClient' = toClient
      BY <1>4 DEF ServeWrite, ServeData
    <2>2. UNCHANGED <<client, sent, ran>>
      BY <2>1 DEF Serve, clientVars, history
    <2>3. Happened'
      BY <1>1, <2>1, <2>2 DEF Happened
    <2> QED
      BY <2>1, <2>3, ServedPending
  <1> QED
    BY <1>2, <1>3, <1>4

\* The line with which the device executes a command, as it is answered: with OK only
\* where the device has executed it.
LEMMA OperateImpl ==
    ASSUME ImplInv, NEW state, NEW word \in {"READ", "blank"}, NEW outcomes,
           Operate(state, word, outcomes), Carried,
           \A o \in outcomes : /\ o[2] \in Seq(ClientWords)
                               /\ \A i \in 1 .. Len(o[2]) : o[2][i] = "OK" => dbg /\ o[1]
    PROVE  /\ Along' /\ Pending' /\ Happened'
           /\ UNCHANGED <<client, open, up, sent, asked>> /\ asked # "nothing" /\ ran = <<>> /\ ran' \in {<<>>, <<sent>>}
  <1>1. NetInv /\ Along /\ Pending /\ Happened
    BY DEF ImplInv
  <1>2. Serve(state, {word})
    BY DEF Operate
  <1>3. /\ toServer # <<>> /\ UNCHANGED <<client, open, up, sent, conn>>
        /\ 1 \in 1 .. Len(toServer) /\ Head(toServer) = toServer[1] /\ Head(toServer).word = word
        /\ Len(toServer') = Len(toServer) - 1
        /\ \A i \in 1 .. Len(toServer') : toServer'[i] = toServer[i + 1] /\ i + 1 \in 1 .. Len(toServer)
        /\ client # "off" => Blanks(toClient)
        /\ client \in Waiting => Head(toServer).word \in Requests(client)
    BY <1>1, <1>2, Served
  <1>4. /\ Head(toServer).of = sent /\ ran = <<>> /\ asked = IF word = "READ" THEN "READ" ELSE "WRITE"
        /\ \A j \in 1 .. Len(toServer) : 1 < j => ~OfCommand(toServer[j])
    BY <1>1, <1>3 DEF Pending, OfCommand, Executed
  <1>5. asked' = asked /\ ran' \in {<<>>, <<sent>>} /\ (auth /\ dbg /\ dbg' => ran' = <<sent>>)
    <2>1. Append(ran, Head(toServer).of) = <<sent>>
      BY <1>4
    <2> QED
      BY <1>4, <2>1 DEF Carried
  <1>6. \A i \in 1 .. Len(toServer') : ~OfCommand(toServer'[i])
    <2>1. \A i \in 1 .. Len(toServer') : 1 < i + 1
      OBVIOUS
    <2> QED
      BY <1>3, <1>4, <2>1
  <1>7. Pending'
    BY <1>6 DEF Pending
  <1>8. Along'
    BY <1>1, <1>3, <1>4, <1>5 DEF Along, Calling
  <1>9. PICK o \in (IF auth THEN outcomes ELSE {<<dbg, <<"ERR">>>>}) : dbg' = o[1] /\ Answer(o[2])
    BY DEF Operate
  <1>10. o[2] \in Seq(ClientWords) /\ \A i \in 1 .. Len(o[2]) : o[2][i] = "OK" => auth /\ dbg /\ dbg'
    <2>1. CASE auth
      BY <1>9, <2>1
    <2>2. CASE ~auth
      <3>1. o[2] = <<"ERR">>
        BY <1>9, <2>2
      <3>2. Len(<<"ERR">>) = 1 /\ <<"ERR">>[1] = "ERR"
        OBVIOUS
      <3>3. \A i \in 1 .. Len(o[2]) : o[2][i] = "ERR"
        BY <3>1, <3>2
      <3> QED
        BY <3>1, <3>3, AnswersAre
    <2> QED
      BY <2>1, <2>2
  <1>11. Happened'
    <2>1. client # "readdata"
      BY <1>3 DEF Requests, Waiting
    <2>2. ASSUME client \in {"READ", "WRITE"}, NEW i \in 1 .. Len(toClient'), toClient'[i].word = "OK"
          PROVE  ran' = <<sent>>
      <3>1. Blanks(toClient)
        BY <1>3, <2>2
      <3>2. CASE toClient' = toClient
        BY <2>2, <3>1, <3>2 DEF Blanks, Blank
      <3>3. CASE toClient' = toClient \o Lines(o[2], Head(toServer).of)
        <4> DEFINE w == o[2]
                   s == toClient
                   n == Head(toServer).of
        <4>1. s \in Seq([word : ClientWords, of : Nat]) /\ w \in Seq(ClientWords) /\ n \in Nat
          BY <1>1, <1>4, <1>10 DEF NetInv, TypeOK, ToClient
        <4>t. toClient' = s \o Lines(w, n)
          BY <3>3
        <4>b. \A k \in 1 .. Len(s) : s[k].word = "blank"
          BY <3>1 DEF Blanks, Blank
        <4>o. \A k \in 1 .. Len(w) : w[k] = "OK" => auth /\ dbg /\ dbg'
          BY <1>10
        <4> HIDE DEF w, s, n
        <4>2. /\ s \o Lines(w, n) \in Seq([word : ClientWords, of : Nat])
              /\ Len(s \o Lines(w, n)) = Len(s) + Len(w)
              /\ \A k \in 1 .. Len(s) : (s \o Lines(w, n))[k] = s[k]
              /\ \A k \in Len(s) + 1 .. Len(s) + Len(w) :
                   (s \o Lines(w, n))[k] = Lines(w, n)[k - Len(s)] /\ k - Len(s) \in 1 .. Len(w)
          BY <4>1, Behind
        <4>3. \A k \in 1 .. Len(w) : Lines(w, n)[k].word = w[k]
          BY ONLY <4>1, LinesAre, Zenon
        <4>4. Len(s) \in Nat /\ Len(w) \in Nat
          BY <4>1, LenProperties
        <4>5. ~(i \in 1 .. Len(s))
          BY <2>2, <4>t, <4>b, <4>2
        <4>6. i \in Len(s) + 1 .. Len(s) + Len(w)
          BY <4>t, <4>2, <4>4, <4>5
        <4>7. w[i - Len(s)] = "OK" /\ i - Len(s) \in 1 .. Len(w)
          BY <2>2, <4>t, <4>2, <4>3, <4>6
        <4>8. PICK k \in 1 .. Len(w) : w[k] = "OK"
          BY <4>7
        <4>9. auth /\ dbg /\ dbg'
          BY <4>o, <4>8, Zenon
        <4> QED
          BY <1>5, <4>9, Zenon
      <3> QED
        BY <1>9, <3>2, <3>3 DEF Answer
    <2> QED
      BY <1>3, <2>1, <2>2 DEF Happened
  <1> QED
    BY <1>3, <1>4, <1>5, <1>7, <1>8, <1>11

\* The words of one outcome of such a line.
LEMMA OutcomesFit ==
    ASSUME NEW o, o \in {<<TRUE, <<"OK">>>>, <<FALSE, <<"ERR">>>>, <<TRUE, <<"OK", "data", "blank">>>>},
           dbg \/ o = <<FALSE, <<"ERR">>>>
    PROVE  o[2] \in Seq(ClientWords) /\ \A i \in 1 .. Len(o[2]) : o[2][i] = "OK" => dbg /\ o[1]
  <1>1. CASE o = <<TRUE, <<"OK">>>>
    <2>0. <<"OK">> \in Seq(ClientWords)
      BY AnswersAre, Zenon
    <2>1. o[2] = <<"OK">> /\ o[1] = TRUE
      BY <1>1
    <2>2. dbg
      <3>1. o[1] # FALSE
        BY <2>1
      <3>2. CASE o = <<FALSE, <<"ERR">>>>
        <4>1. o[1] = FALSE
          BY <3>2
        <4> QED
          BY <3>1, <4>1
      <3> QED
        BY <3>2
    <2>3. o[2] \in Seq(ClientWords)
      BY <2>0, <2>1, Zenon
    <2>4. o[1]
      BY <2>1
    <2> QED
      BY <2>2, <2>3, <2>4, Zenon
  <1>2. CASE o = <<TRUE, <<"OK", "data", "blank">>>>
    <2>0. <<"OK", "data", "blank">> \in Seq(ClientWords)
      BY AnswersAre, Zenon
    <2>1. o[2] = <<"OK", "data", "blank">> /\ o[1] = TRUE
      BY <1>2
    <2>2. dbg
      <3>1. o[1] # FALSE
        BY <2>1
      <3>2. CASE o = <<FALSE, <<"ERR">>>>
        <4>1. o[1] = FALSE
          BY <3>2
        <4> QED
          BY <3>1, <4>1
      <3> QED
        BY <3>2
    <2>3. o[2] \in Seq(ClientWords)
      BY <2>0, <2>1, Zenon
    <2>4. o[1]
      BY <2>1
    <2> QED
      BY <2>2, <2>3, <2>4, Zenon
  <1>3. CASE o = <<FALSE, <<"ERR">>>>
    <2>1. o[2] = <<"ERR">> /\ o[1] = FALSE
      BY <1>3
    <2>2. Len(<<"ERR">>) = 1 /\ <<"ERR">>[1] = "ERR"
      OBVIOUS
    <2>3. \A i \in 1 .. Len(o[2]) : o[2][i] = "ERR"
      BY <2>1, <2>2
    <2> QED
      BY <2>1, <2>3, AnswersAre
  <1> QED
    BY <1>1, <1>2, <1>3

LEMMA CarriesImpl ==
    ASSUME ImplInv, ServeRead \/ WriteServed, Carried
    PROVE  /\ Along' /\ Pending' /\ Happened'
           /\ UNCHANGED <<client, open, up, sent, asked>> /\ asked # "nothing" /\ ran = <<>> /\ ran' \in {<<>>, <<sent>>}
  <1> DEFINE Fit(o) == o[2] \in Seq(ClientWords) /\ \A i \in 1 .. Len(o[2]) : o[2][i] = "OK" => dbg /\ o[1]
  <1>1. CASE ServeRead
    <2> DEFINE outcomes == IF ~dbg THEN {<<FALSE, <<"ERR">>>>}
                           ELSE {<<TRUE, <<"OK", "data", "blank">>>>} \cup Failing("read", <<"ERR">>)
    <2>1. \A o \in outcomes : \/ o = <<FALSE, <<"ERR">>>>
                              \/ dbg /\ o = <<TRUE, <<"OK", "data", "blank">>>>
      BY DEF Failing
    <2>2. Operate("request", "READ", outcomes)
      BY <1>1 DEF ServeRead
    <2> HIDE DEF outcomes
    <2>3. \A o \in outcomes : Fit(o)
      BY <2>1, OutcomesFit
    <2> QED
      BY <2>2, <2>3, OperateImpl
  <1>2. CASE WriteServed
    <2> DEFINE outcomes == IF ~dbg THEN {<<FALSE, <<"ERR">>>>} ELSE {<<TRUE, <<"OK">>>>}
    <2>1. \A o \in outcomes : \/ o = <<FALSE, <<"ERR">>>>
                              \/ dbg /\ o = <<TRUE, <<"OK">>>>
      OBVIOUS
    <2>2. Operate("data", "blank", outcomes)
      BY <1>2 DEF WriteServed
    <2> HIDE DEF outcomes
    <2>3. \A o \in outcomes : Fit(o)
      BY <2>1, OutcomesFit
    <2> QED
      BY <2>2, <2>3, OperateImpl
  <1> QED
    BY <1>1, <1>2

LEMMA LoseImpl == ASSUME ImplInv, Lose, UNCHANGED history PROVE Along' /\ Pending' /\ Happened'
  <1>1. NetInv /\ Along /\ Pending /\ Happened
    BY DEF ImplInv
  <1>2. /\ UNCHANGED <<client, open, up, sent, asked, ran>>
        /\ toServer \in Seq(ToServer) /\ toClient \in Seq(ToClient)
    BY <1>1 DEF Lose, clientVars, history, NetInv, TypeOK
  <1>3. PICK m \in 0 .. Len(toServer), n \in 0 .. Len(toClient) :
            toServer' = SubSeq(toServer, 1, m) /\ toClient' = SubSeq(toClient, 1, n)
    BY DEF Lose
  <1>4. Len(toServer') = m /\ \A i \in 1 .. m : toServer'[i] = toServer[i] /\ i \in 1 .. Len(toServer)
    BY <1>2, <1>3, Begins
  <1>5. Len(toClient') = n /\ \A i \in 1 .. n : toClient'[i] = toClient[i] /\ i \in 1 .. Len(toClient)
    BY <1>2, <1>3, Begins
  <1>6. Along'
    BY <1>1, <1>2 DEF Along, Calling
  <1>7. Pending'
    BY <1>1, <1>2, <1>4 DEF Pending
  <1>8. Happened'
    BY <1>1, <1>2, <1>5 DEF Happened
  <1> QED
    BY <1>6, <1>7, <1>8

LEMMA NextImpl == ImplInv /\ [SoundImplNext]_<<vars, history>> => ImplInv'
  <1> SUFFICES ASSUME ImplInv, [SoundImplNext]_<<vars, history>>
               PROVE  ImplInv'
    OBVIOUS
  <1>1. CASE UNCHANGED <<vars, history>>
    <2>1. NetInv'
      BY <1>1, NextNet DEF ImplInv
    <2>2. UNCHANGED <<client, open, up, sent, toServer, toClient, asked, ran>>
      BY <1>1 DEF vars, clientVars, history
    <2> QED
      BY <2>1, <2>2 DEF ImplInv, Along, Pending, Happened, Calling
  <1>2. CASE SoundImplNext
    <2>1. NetInv'
      BY <1>2, ImplIsSound, NextNet DEF ImplInv
    <2>2. Along' /\ Pending' /\ Happened'
      <3>1. CASE Close /\ UNCHANGED history
        <4>1. NetInv /\ Along /\ Pending /\ client = "idle" /\ client' = "off"
              /\ UNCHANGED <<open, up, sent, asked, ran>> /\ toClient' = <<>>
              /\ toServer' = IF conn THEN Append(toServer, Line("CLOSE", sent + 1)) ELSE toServer
          BY <3>1 DEF Close, history, ImplInv
        <4>2. Along' /\ Happened'
          BY <4>1 DEF Along, Happened, Calling
        <4>3. CASE ~conn
          BY <4>1, <4>2, <4>3 DEF Pending
        <4>4. CASE conn
          <5>1. toServer = <<>>
            BY <4>1, <4>4 DEF NetInv, Rest
          <5>2. toServer' = <<Line("CLOSE", sent + 1)>>
            BY <4>1, <4>4, <5>1
          <5>3. \A i \in 1 .. Len(toServer') : toServer'[i].word = "CLOSE"
            BY <5>2 DEF Line
          <5> QED
            BY <4>2, <5>3 DEF Pending, OfCommand
        <4> QED
          BY <4>3, <4>4
      <3> QED
        BY <1>2, <3>1, AsksImpl, TakesImpl, ServesImpl, CarriesImpl, LoseImpl DEF SoundImplNext
    <2> QED
      BY <2>1, <2>2 DEF ImplInv
  <1> QED
    BY <1>1, <1>2

LEMMA NotGarbled == ImplInv => ~Garbled
  <1> SUFFICES ASSUME ImplInv
               PROVE  ~Garbled
    OBVIOUS
  <1>1. ASSUME client = "readdata", toClient # <<>>, Head(toClient).word = "data" PROVE Head(toClient).of = sent
    <2>1. toClient \in Seq(ToClient)
      BY DEF ImplInv, NetInv, TypeOK
    <2>2. 1 \in 1 .. Len(toClient) /\ Head(toClient) = toClient[1]
      BY <1>1, <2>1, First
    <2> QED
      BY <1>1, <2>2 DEF ImplInv, NetInv, Own, Blank
  <1> QED
    BY <1>1 DEF Garbled, ImplInv, Along

LEMMA NeverGarbled == (ImplInv => ~Garbled) /\ (ImplInv' => ~Garbled')
  BY NotGarbled, PTL

\* What OcdLink sees of it.
Shown == <<open /\ up, IF writes = "succeed" /\ Garbled THEN "garbled" ELSE asked,
           writes = "succeed" /\ Calling, ran # <<>>,
           IF ran # <<>> /\ asked = "READ" THEN "data" ELSE "nothing">>
Followed == writes = "succeed" /\ writes' = "succeed"

\* The steps of OcdLink: nothing is shown of this one,
LEMMA Stutters ==
    ASSUME Followed, ~Garbled, ~Garbled', UNCHANGED <<client, open, up, asked, ran>>
    PROVE  UNCHANGED Shown
  BY DEF Followed, Shown, Calling

\* or the link fails, or comes up, under nobody,
LEMMA Relinks ==
    ASSUME Followed, ~Garbled, ~Garbled', TypeOK', ~Calling, ~Calling', UNCHANGED <<asked, ran>>,
           asked = "nothing" \/ ~(open' /\ up')
    PROVE  Link!Relink
  <1>1. Calling' = Calling
    BY DEF Calling
  <1>2. (open /\ up)' \in BOOLEAN
    BY DEF TypeOK
  <1> QED
    BY <1>1, <1>2 DEF Followed, Link!Relink

\* a call throws,
LEMMA Throws ==
    ASSUME Followed, ~Garbled, ~Garbled', Calling, ~Calling', UNCHANGED <<asked, ran>>, ~(open' /\ up')
    PROVE  Link!Throw
  BY DEF Followed, Link!Throw

\* a call returns,
LEMMA Returns ==
    ASSUME Followed, ~Garbled, ~Garbled', open, up, Calling, ran # <<>>,
           ~Calling', open', up', Commanded("nothing")
    PROVE  Link!Return
  BY DEF Followed, Link!Return, Commanded

\* one is made,
LEMMA Calls ==
    ASSUME Followed, ~Garbled, ~Garbled', NEW op \in {"READ", "WRITE"}, open, up, asked = "nothing", ran = <<>>,
           Calling', open', up', Commanded(op)
    PROVE  Link!Ask(op)
  BY DEF Followed, Link!Ask, Commanded

\* the device executes it,
LEMMA Executes ==
    ASSUME Followed, ~Garbled, ~Garbled', UNCHANGED <<client, open, up, asked>>,
           asked \in {"READ", "WRITE"}, ran = <<>>, ran' # <<>>
    PROVE  Link!Execute
  BY DEF Followed, Link!Execute, Calling

\* and a link that is down is reset, or asked for its state.
LEMMA Forgets ==
    ASSUME Followed, ~Garbled, ~Garbled', ~(open /\ up), ~(open' /\ up'), ~Calling, ~Calling', Commanded("nothing")
    PROVE  Link!Forget
  <1>1. Calling' = Calling
    BY DEF Calling
  <1>2. (open /\ up)' = (open /\ up)
    OBVIOUS
  <1> QED
    BY <1>1, <1>2 DEF Followed, Link!Forget, Commanded

\* One of ocd_tcpip's calls, and what it takes.
LEMMA AsksShown ==
    ASSUME Followed, ImplInv, ImplInv',
           \/ (Connect \/ AskReset \/ AskStatus) /\ Commanded("nothing")
           \/ AskRead /\ Commanded("READ")
           \/ AskWrite /\ Commanded("WRITE")
    PROVE  [Link!Next]_Shown
  <1>1. Along /\ TypeOK' /\ ~Garbled /\ ~Garbled'
    BY NeverGarbled DEF ImplInv, NetInv
  <1>2. asked = "nothing" => ran = <<>>
    BY <1>1 DEF Along
  <1>3. CASE (Connect \/ AskReset \/ AskStatus) /\ Commanded("nothing")
    <2>1. ~Calling /\ ~Calling' /\ client \in {"idle", "off"} /\ ((open' /\ up') => open /\ up)
      BY <1>3 DEF Connect, AskReset, AskStatus, Ask, Calling
    <2>2. CASE open /\ up
      <3>1. asked = "nothing" /\ ran = <<>>
        BY <1>1, <1>2, <2>1, <2>2 DEF Along
      <3>2. UNCHANGED <<asked, ran>>
        BY <1>3, <3>1 DEF Commanded
      <3> QED
        BY <1>1, <2>1, <3>1, <3>2, Relinks DEF Link!Next
    <2>3. CASE ~(open /\ up)
      BY <1>1, <1>3, <2>1, <2>3, Forgets DEF Link!Next
    <2> QED
      BY <2>2, <2>3
  <1>4. ASSUME NEW op \in {"READ", "WRITE"}, NEW words, up, Ask(op, words), up' = up, Commanded(op)
        PROVE  Link!Ask(op)
    <2>1. client = "idle" /\ client' = op /\ open /\ open' /\ up'
      BY <1>4 DEF Ask
    <2>2. asked = "nothing" /\ ran = <<>> /\ Calling'
      BY <1>1, <1>2, <1>4, <2>1 DEF Along, Calling
    <2> QED
      BY <1>1, <1>4, <2>1, <2>2, Calls
  <1>5. CASE AskRead /\ Commanded("READ")
    BY <1>4, <1>5 DEF AskRead, Link!Next
  <1>6. CASE AskWrite /\ Commanded("WRITE")
    BY <1>4, <1>6 DEF AskWrite, Link!Next
  <1> QED
    BY <1>3, <1>5, <1>6

\* What it returns, or throws.
LEMMA TakesShown ==
    ASSUME Followed, ImplInv, ImplInv',
           \/ (Confirmed \/ ReadData) /\ Returned
           \/ /\ EatBlank \/ Greeted \/ Refused \/ Told \/ ReadFirst \/ HangsUp
              /\ UNCHANGED history
    PROVE  [Link!Next]_Shown
  <1>1. Along /\ NetInv /\ Happened /\ TypeOK' /\ ~Garbled /\ ~Garbled'
    BY NeverGarbled DEF ImplInv, NetInv
  <1>2. CASE (EatBlank \/ Refused) /\ UNCHANGED history
    <2>1. UNCHANGED <<open, up, asked, ran>>
      BY <1>2 DEF EatBlank, Refused, clientVars, history
    <2>2. CASE client' = client
      BY <1>1, <2>1, <2>2, Stutters
    <2>3. CASE client \in {"hello", "status", "user", "password"} /\ client' = "off"
      <3>1. ~Calling /\ ~Calling' /\ asked = "nothing"
        BY <1>1, <2>3 DEF Along, Calling
      <3> QED
        BY <1>1, <2>1, <3>1, Relinks DEF Link!Next
    <2> QED
      BY <1>2, <2>2, <2>3 DEF EatBlank, Refused, clientVars
  <1>3. CASE (Greeted \/ Told) /\ UNCHANGED history
    <2>1. /\ client \in {"hello", "status", "user", "password", "STATUS"}
          /\ client' \in {"status", "user", "password", "idle"} /\ UNCHANGED <<asked, ran>>
      BY <1>3 DEF Greeted, Told, Take, Answered, history
    <2>2. ~Calling /\ ~Calling' /\ asked = "nothing"
      BY <1>1, <2>1 DEF Along, Calling
    <2> QED
      BY <1>1, <2>1, <2>2, Relinks DEF Link!Next
  <1>4. CASE ReadFirst /\ UNCHANGED history
    <2>1. Take({"READ"}) /\ UNCHANGED <<asked, ran>>
      BY <1>4 DEF ReadFirst, history
    <2>2. client = "READ" /\ 1 \in 1 .. Len(toClient) /\ Head(toClient) = toClient[1]
      BY <1>1, <2>1, Taken DEF Take
    <2>3. Word \in {"OK", "ERR"} /\ Calling
      BY <1>1, <2>2 DEF NetInv, Shape, Word, Calling
    <2>4. CASE Word = "OK"
      <3>1. client' = "readdata" /\ open' = open /\ up' = up
        BY <1>4, <2>4 DEF ReadFirst, Answered
      <3>2. Calling'
        BY <3>1 DEF Calling
      <3>3. UNCHANGED Shown
        BY <1>1, <2>1, <2>3, <3>1, <3>2 DEF Followed, Shown
      <3> QED
        BY <3>3
    <2>5. CASE Word = "ERR"
      <3>1. Answered(Word = "ERR", up /\ Word # "ERR")
        BY <1>4, <2>5 DEF ReadFirst
      <3>2. client' = "idle" /\ ~up'
        BY <2>5, <3>1, Zenon DEF Answered
      <3>3. ~Calling'
        BY <3>2 DEF Calling
      <3> QED
        BY <1>1, <2>1, <2>3, <3>2, <3>3, Throws DEF Link!Next
    <2> QED
      BY <2>3, <2>4, <2>5
  <1>5. CASE HangsUp /\ UNCHANGED history
    <2>1. client \in {"RESET", "STATUS", "READ", "readdata", "WRITE"}
          /\ client' = "idle" /\ ~open' /\ UNCHANGED <<asked, ran>> /\ ~Calling'
      BY <1>5 DEF HangsUp, Answered, history, Calling
    <2>2. CASE Calling
      BY <1>1, <2>1, <2>2, Throws DEF Link!Next
    <2>3. CASE ~Calling
      BY <1>1, <2>1, <2>3, Relinks DEF Link!Next
    <2> QED
      BY <2>2, <2>3
  <1>6. CASE (Confirmed \/ ReadData) /\ Returned
    <2>1. client \in {"RESET", "WRITE", "readdata"} /\ client' = "idle" /\ ~Calling'
      BY <1>6 DEF Confirmed, ReadData, Take, Answered, Calling
    <2>2. CASE client = "RESET"
      <3>1. ~Calling /\ asked = "nothing"
        BY <1>1, <2>2 DEF Along, Calling
      <3>2. UNCHANGED <<asked, ran>>
        BY <1>6, <3>1 DEF Returned, history
      <3> QED
        BY <1>1, <2>1, <3>1, <3>2, Relinks DEF Link!Next
    <2>3. CASE client # "RESET" /\ ~(open' /\ up')
      <3>1. Calling
        BY <2>1, <2>3 DEF Calling
      <3>2. UNCHANGED <<asked, ran>>
        BY <1>6, <2>3 DEF Returned, history
      <3> QED
        BY <1>1, <2>1, <2>3, <3>1, <3>2, Throws DEF Link!Next
    <2>4. CASE client # "RESET" /\ open' /\ up'
      <3>1. Calling /\ open /\ up
        BY <1>1, <2>1, <2>4 DEF Calling, Along
      <3>2. Commanded("nothing")
        BY <1>6, <2>1, <2>4, <3>1 DEF Returned
      <3>3. ran = <<sent>>
        <4>1. CASE client = "readdata"
          BY <1>1, <4>1 DEF Happened
        <4>2. CASE client = "WRITE"
          <5>1. Confirmed
            BY <1>6, <4>2 DEF ReadData, Take
          <5>2. Take({"RESET", "WRITE"}) /\ Answered(Word \in {"OK", "ERR"}, IF Word \in {"OK", "ERR"} THEN Word = "OK" ELSE up)
            BY <5>1 DEF Confirmed
          <5>3. open' = (Word \in {"OK", "ERR"}) /\ up' = IF Word \in {"OK", "ERR"} THEN Word = "OK" ELSE up
            BY <5>2 DEF Answered
          <5>4. Word = "OK"
            BY <2>4, <5>3
          <5>5. 1 \in 1 .. Len(toClient) /\ Head(toClient) = toClient[1]
            BY <1>1, <5>2, Taken
          <5> QED
            BY <1>1, <4>2, <5>4, <5>5 DEF Happened, Word
        <4> QED
          BY <2>1, <2>4, <4>1, <4>2
      <3>4. ran # <<>>
        BY <3>3
      <3> QED
        BY <1>1, <2>1, <2>4, <3>1, <3>2, <3>4, Returns DEF Link!Next
    <2> QED
      BY <2>2, <2>3, <2>4
  <1> QED
    BY <1>2, <1>3, <1>4, <1>5, <1>6

LEMMA NextShown ==
    ASSUME Followed, ImplInv, ImplInv', [SoundImplNext]_<<vars, history>>
    PROVE  [Link!Next]_Shown
  <1>1. Along /\ ~Garbled /\ ~Garbled'
    BY NeverGarbled DEF ImplInv
  <1>2. CASE UNCHANGED <<vars, history>>
    BY <1>1, <1>2, Stutters DEF vars, clientVars, history
  <1>3. CASE Close /\ UNCHANGED history
    <2>1. ~Calling /\ ~Calling' /\ UNCHANGED <<open, up, asked, ran>>
      BY <1>3 DEF Close, Calling, history
    <2>2. Calling' = Calling
      BY <1>3 DEF Close, Calling
    <2> QED
      BY <1>1, <2>1, <2>2 DEF Followed, Shown
  <1>4. CASE (ServeRead \/ WriteServed) /\ Carried
    <2>1. UNCHANGED <<client, open, up, asked>> /\ asked # "nothing" /\ ran = <<>>
      BY <1>4, CarriesImpl
    <2>2. CASE ran' = <<>>
      BY <1>1, <2>1, <2>2, Stutters
    <2>3. CASE ran' # <<>>
      BY <1>1, <2>1, <2>3, Executes DEF Along, Link!Next
    <2> QED
      BY <2>2, <2>3
  <1>5. CASE /\ Greet \/ ServeStatus \/ ServeUser \/ ServePassword \/ ServeReset
                \/ ServeWrite \/ ServeData \/ ServeClose \/ ServeEnd \/ Lose
             /\ UNCHANGED history
    <2>1. UNCHANGED <<client, open, up, asked, ran>>
      BY <1>5 DEF Greet, ServeStatus, ServeUser, ServePassword, ServeReset, ServeWrite, ServeData, ServeClose,
         ServeEnd, Lose, Operate, Serve, clientVars, history
    <2> QED
      BY <1>1, <2>1, Stutters
  <1> QED
    BY <1>2, <1>3, <1>4, <1>5, AsksShown, TakesShown DEF SoundImplNext

\* Where writes fail, only the link is shown.
LEMMA FailingShown ==
    ASSUME writes = "fail", writes' = writes, asked = "nothing", ran = <<>>, TypeOK', UNCHANGED history
    PROVE  Link!Relink
  <1>1. (writes = "succeed" /\ Calling)' = (writes = "succeed" /\ Calling)
    OBVIOUS
  <1>2. (open /\ up)' \in BOOLEAN
    BY DEF TypeOK
  <1> QED
    BY <1>1, <1>2 DEF Link!Relink, history

VariantInv ==
    /\ TypeOK /\ writes \in {"fail", "succeed"}
    /\ writes = "succeed" => ImplInv
    /\ writes = "fail" => asked = "nothing" /\ ran = <<>>

LEMMA NextVariant == VariantInv /\ [VariantNext]_<<vars, history, writes>> => VariantInv' /\ [Link!Next]_Shown
  <1> SUFFICES ASSUME VariantInv, [VariantNext]_<<vars, history, writes>>
               PROVE  VariantInv' /\ [Link!Next]_Shown
    OBVIOUS
  <1>1. writes' = writes
    BY DEF VariantNext
  <1>2. CASE writes = "succeed"
    <2>1. [SoundImplNext]_<<vars, history>>
      BY <1>2, VariantIsSound DEF VariantNext
    <2>2. ImplInv /\ ImplInv'
      BY <1>2, <2>1, NextImpl DEF VariantInv
    <2>3. [Link!Next]_Shown
      BY <1>1, <1>2, <2>1, <2>2, NextShown DEF Followed
    <2> QED
      BY <1>1, <1>2, <2>2, <2>3 DEF VariantInv, ImplInv, NetInv
  <1>3. CASE writes = "fail"
    <2>1. [Next]_vars /\ UNCHANGED history
      BY <1>3 DEF VariantNext
    <2>2. TypeOK'
      BY <2>1, NextTypes DEF VariantInv
    <2>3. UNCHANGED <<asked, ran>> /\ asked = "nothing" /\ ran = <<>>
      BY <1>3, <2>1 DEF VariantInv, history
    <2>4. Link!Relink
      BY <1>1, <1>3, <2>1, <2>2, <2>3, FailingShown
    <2> QED
      BY <1>1, <1>3, <2>2, <2>3, <2>4 DEF VariantInv, Link!Next
  <1> QED
    BY <1>2, <1>3 DEF VariantInv

\* As long as no write fails, whatever else does and wherever the connection is
\* lost, a read or write of ocd_tcpip that returns was executed once by the device
\* at the other end and returns its own answer, and one that throws was executed at
\* most once and leaves the link down, as with ocd_serial.
THEOREM NetLinkImplemented == VariantSpec => ImplementsOcd
  <1>1. VariantInit => VariantInv /\ Link!Init
    <2> SUFFICES ASSUME VariantInit
                 PROVE  VariantInv /\ Link!Init
      OBVIOUS
    <2>1. ImplInit
      BY DEF VariantInit
    <2>2. ImplInv /\ ~Garbled
      BY <2>1, InitImpl, NotGarbled
    <2>3. ~open /\ client = "off" /\ asked = "nothing" /\ ran = <<>>
      BY <2>1 DEF ImplInit, Init
    <2>4. ~Calling
      BY <2>3 DEF Calling
    <2> QED
      BY <2>2, <2>3, <2>4 DEF VariantInit, VariantInv, ImplInv, NetInv, Link!Init
  <1>2. VariantInv /\ [VariantNext]_<<vars, history, writes>> => VariantInv' /\ [Link!Next]_Shown
    BY NextVariant
  <1>3. Link!Spec <=> Link!Init /\ [][Link!Next]_Shown
    BY DEF Link!Spec, Shown
  <1> QED
    BY <1>1, <1>2, <1>3, PTL DEF VariantSpec, ImplementsOcd
=============================================================================
