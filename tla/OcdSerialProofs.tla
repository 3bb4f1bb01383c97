--------------------------- MODULE OcdSerialProofs ---------------------------
(***************************************************************************)
(* Proofs about OcdSerial, for every set of commands and answers of the     *)
(* shapes that SerialAssumption names and any number of disturbances, but   *)
(* for one between two writes of a command ("split"): a link that is up is  *)
(* one the device listens on, an acknowledge tells of a stop, and commands  *)
(* are those of OcdLink.                                                    *)
(*                                                                         *)
(* The argument: what is yet to be read is, at every point, some data that  *)
(* the driver has spelled and then nothing, or an error (Coming).  What     *)
(* read returns is so known before it does: either it is what was sent,     *)
(* and then nothing but the answer, or an acknowledge, can be behind it, or *)
(* it will not be what was sent, and the call will throw (Echo).            *)
(***************************************************************************)
EXTENDS OcdSerial, DataInduction, TLAPS

-----------------------------------------------------------------------------
(* The inductive invariant.                                                *)

\* How the driver spells data; how much of it a state of read has seen.
Spell(d) == FlattenSeq([i \in 1 .. Len(d) |-> Escaped(d[i])])
Pending(e) == IF e = "escape" THEN <<"ff">> ELSE IF e = "error" THEN <<"ff", "00">> ELSE <<>>
Error(r) == r \in Seq(Byte) /\ Len(r) >= 3 /\ r[1] = "ff" /\ r[2] = "00"

\* What is still to be read: data, and then nothing, or an error and what is
\* behind it.
Coming(d, r) ==
    /\ d \in Seq(Byte) /\ r \in Seq(Byte) /\ (r = <<>> \/ Error(r))
    /\ Pending(esc) \o (ahead \o rx) = Spell(d) \o r

\* What read will have, up to an error.
Heard(g, r) == got \in Seq(Byte) /\ \E d \in Seq(Byte) : Coming(d, r) /\ g = got \o d

\* The device listens, or an error is on the line that will tell; and nothing
\* else is on its way than the acknowledge of a device that has stopped.
Hears(r) == dev = "ready" \/ (dev = "deaf" /\ r # <<>>)
AtMostAck(d) == d = <<>> \/ (d = <<"ff">> /\ ~running)
Settled(d, r) == tx = <<>> /\ owed = <<>> /\ AtMostAck(d) /\ Hears(r)
Buffered(d) == ahead = <<>> \/ (ahead = <<"ff", "ff">> /\ d = <<"ff">>)

\* The writes in progress: of the autobaud character, by resets, over the first
\* write of a command, or its second.
Sync == <<"sync">>
ResetJob == [NoJob EXCEPT !.name = "reset"]
Part(f, w) == [name |-> f.name, fresh |-> f.fresh, writes |-> w, size |-> f.size]
Command(f) == f \in Jobs /\ f.name # "ack" /\ (Len(f.writes) > 1 => ~running)
First(f) == calls = <<f.writes[1]>> /\ job = Part(f, Tail(f.writes))
Second(f) ==
    Len(f.writes) = 2 /\ calls = <<f.writes[2]>> /\ job = Part(f, <<>>)
Nested ==
    \E n \in 0 .. Len(calls) :
        /\ \A i \in 1 .. n : calls[i] = Sync
        /\ \/ n = Len(calls) /\ (job = ResetJob \/ Command(job))
           \/ /\ n + 1 = Len(calls)
              /\ \E f \in Jobs : /\ Command(f) /\ calls[n + 1] = f.writes[1]
                                 /\ job = Part(f, Tail(f.writes))

\* The shapes of a command.
IsRead(f) ==
    /\ f.writes = <<<<"rd">>>> /\ f.size \in Nat \ {0} /\ Whole(f.name) = <<"rd">>
    /\ \A a \in Answers : Len(a) = f.size
IsGo(f) == f.writes = <<<<"go">>>> /\ f.size = 0 /\ Whole(f.name) = <<"go">>
IsWrite(f, b) == f.writes = <<<<"wr", b>>>> /\ f.size = 0 /\ Whole(f.name) = <<"wr", b>>
IsSplit(f, b) == f.writes = <<<<"wr">>, <<b>>>> /\ f.size = 0 /\ Whole(f.name) = <<"wr", b>>

\* What the driver has of it, at once or as far as it got.
OnItsWay(f, t) ==
    \/ IsRead(f) /\ t = <<"rd">>
    \/ IsGo(f) /\ t = <<"go">>
    \/ \E b \in Byte : (IsWrite(f, b) \/ IsSplit(f, b)) /\ (t = <<"wr">> \/ t = <<"wr", b>>)

\* What the device may still receive.
Sending(t) ==
    \/ dev = "ready" /\ \E f \in Jobs : f.name # "ack" /\ f.name = last /\ OnItsWay(f, t)
    \/ dev = "ready" /\ t = Sync
    \/ dev = "arg" /\ \E f \in Jobs, b \in Byte :
            f.name # "ack" /\ f.name = last /\ (IsWrite(f, b) \/ IsSplit(f, b)) /\ t = <<b>>
    \/ dev = "deaf" /\ \E b \in Byte : t = <<b>> \/ t = <<"wr", b>>

\* The device executes the last command, once, or nothing.
Honest ==
    /\ ran = <<>> \/ (last # "nothing" /\ ran = <<Whole(last)>>)
    /\ ran = <<>> => answer = <<>>
    /\ tx = <<>> \/ (ran = <<>> /\ Sending(tx))

\* Whose bytes they are.
Asked ==
    /\ last = "nothing" \/ \E f \in Jobs : f.name # "ack" /\ last = f.name
    /\ job.name \notin {"none", "reset", "ack"} => last = job.name
    /\ pc \in {"flush_again", "peek", "send", "verify"} /\ job = ResetJob => last = "nothing"

-----------------------------------------------------------------------------

\* Between commands, on a link that is up.
Rested == ran = <<>> /\ ahead = <<>> /\ \E d, r : Coming(d, r) /\ Settled(d, r)

IdleInv == 
    pc = "idle" =>
        /\ job = NoJob /\ calls = <<>> /\ got = <<>> /\ esc = "normal"
        /\ up => last = "nothing" /\ Rested

BeginInv ==
    pc \in {"start", "new"} => up /\ Command(job) /\ calls = <<>> /\ esc = "normal" /\ Rested

ResetInv ==
    /\ pc \in {"flush", "break", "flush_again"} =>
        Nested /\ esc = "normal" /\ (job # ResetJob => tx = <<>> /\ ran = <<>>)
    /\ pc \in {"break", "flush_again"} => ~up /\ tx = <<>>
    /\ pc = "flush_again" => dev = "deaf" /\ owed = <<>> /\ ran = <<>>

\* Before a write.
Poised(d, r) ==
    /\ tx = <<>> /\ owed = <<>> /\ Buffered(d)
    /\ \/ calls # <<>> /\ Head(calls) = Sync /\ Nested /\ AtMostAck(d) /\ dev \in {"deaf", "ready"}
       \/ \E f \in Jobs : Command(f) /\ First(f) /\ AtMostAck(d) /\ Hears(r)
       \/ \E f \in Jobs : Command(f) /\ Second(f) /\ d = <<>> /\ r = <<>> /\ dev = "arg"

WriteInv ==
    pc \in {"peek", "send"} =>
        up /\ esc = "normal" /\ ran = <<>> /\ \E d, r : Coming(d, r) /\ Poised(d, r)

\* What is read back of w is not w, or there will not be enough of it.
Foul(w, g, r) ==
    \/ g # <<>> /\ g[1] # w[1]
    \/ r # <<>> /\ Len(g) < Len(w)

\* The answer is on its way, is there, or will not be complete.
Answering(g, r) ==
    /\ tx = <<>> /\ ahead = <<>> /\ ran = <<Whole(last)>>
    /\ \/ r = <<>> /\ dev = "ready" /\ owed # <<>> /\ g \o owed = answer /\ Len(answer) = job.size
       \/ Len(answer) = job.size /\ \E x \in {<<>>, <<"ff">>} : g = answer \o x /\ Settled(x, r)
       \/ Len(g) + Len(owed) < job.size /\ ~running
       \/ r # <<>> /\ Len(g) < job.size

EchoSync(g, r) ==
    /\ ahead = <<>> /\ ran = <<>>
    /\ \/ r = <<>> /\ g = <<>> /\ tx = Sync /\ owed = <<>> /\ dev \in {"deaf", "ready"}
       \/ \E x \in {<<>>, <<"ff">>} : g = Sync \o x /\ Settled(x, r)

EchoFirst(f, g, r) ==
    /\ ahead = <<>>
    /\ LET w == f.writes[1] IN
       \/ r = <<>> /\ owed = <<>> /\ ran = <<>> /\ g = <<>> /\ tx = w /\ dev = "ready"
       \/ /\ r = <<>> /\ owed = <<>> /\ ran = <<>> /\ dev = "arg"
          /\ Len(w) = 2 /\ g = <<"wr">> /\ tx = <<w[2]>>
       \/ /\ r = <<>> /\ owed = <<>> /\ ran = <<>> /\ dev = "arg"
          /\ Len(f.writes) = 2 /\ g = w /\ tx = <<>>
       \/ f.size > 0 /\ \E x \in Seq(Byte) : g = w \o x /\ Answering(x, r)
       \/ /\ f.size = 0 /\ Len(f.writes) = 1 /\ ran = <<Whole(last)>>
          /\ \E x \in {<<>>, <<"ff">>} : g = w \o x /\ Settled(x, r)

EchoSecond(f, g, r) ==
    /\ ahead = <<>>
    /\ LET w == f.writes[2] IN
       \/ r = <<>> /\ owed = <<>> /\ ran = <<>> /\ g = <<>> /\ tx = w /\ dev = "arg"
       \/ ran = <<Whole(last)>> /\ \E x \in {<<>>, <<"ff">>} : g = w \o x /\ Settled(x, r)

Echo(g, r) ==
    \/ Head(calls) = Sync /\ Nested /\ (Foul(Sync, g, r) \/ EchoSync(g, r))
    \/ \E f \in Jobs : Command(f) /\ First(f) /\ (Foul(f.writes[1], g, r) \/ EchoFirst(f, g, r))
    \/ \E f \in Jobs : Command(f) /\ Second(f) /\ (Foul(f.writes[2], g, r) \/ EchoSecond(f, g, r))

VerifyInv ==
    pc = "verify" =>
        /\ up /\ calls # <<>>
        /\ esc # "thrown" => \E g, r : Heard(g, r) /\ Echo(g, r)

Replying(g, r) ==
    \/ /\ \E f \in Jobs : f.name # "ack" /\ f.size > 0 /\ job = Part(f, <<>>)
       /\ Answering(g, r)
    \/ job \in Jobs /\ job.name = "ack" /\ last = "nothing" /\ ran = <<>> /\ ahead = <<>> /\ Settled(g, r)

ReadInv ==
    pc = "read" =>
        /\ up /\ calls = <<>> /\ tx = <<>> /\ job.size > 0
        /\ \/ \E f \in Jobs : f.name # "ack" /\ f.size > 0 /\ job = Part(f, <<>>)
           \/ job \in Jobs /\ job.name = "ack"
        /\ esc # "thrown" => \E g, r : Heard(g, r) /\ Replying(g, r)

\* While it reads, no more than asked for; and in the middle of an escape, less.
SizeInv ==
    pc \in {"verify", "read"} => Len(got) <= Size /\ (esc # "normal" => Len(got) < Size)

SerialTypes ==
    /\ TypeOK /\ calls \in Seq(Seq(Byte) \ {<<>>})
    /\ answer = <<>> \/ answer \in Answers

SerialInv ==
    /\ SerialTypes /\ Honest /\ Asked
    /\ IdleInv /\ BeginInv /\ ResetInv /\ WriteInv /\ VerifyInv /\ ReadInv /\ SizeInv

-----------------------------------------------------------------------------
(* How the driver spells bytes, and what can be read off it.               *)

LEMMA OneByte == \A b \in Byte : /\ <<b>> \in Seq(Byte) /\ Len(<<b>>) = 1
                                 /\ Escaped(b) \in Seq(Byte) /\ Escaped(b) # <<>>
                                 /\ <<b, b>> \in Seq(Byte)
  <1> TAKE b \in Byte
  <1>1. <<b>> \in Seq(Byte) /\ Len(<<b>>) = 1 /\ <<b, b>> \in Seq(Byte) /\ <<b>> # <<>> /\ <<b, b>> # <<>>
    OBVIOUS
  <1>2. Escaped(b) = <<b, b>> \/ Escaped(b) = <<b>>
    BY DEF Escaped
  <1> QED
    BY <1>1, <1>2

LEMMA BytesAssociate == \A s, t, u \in Seq(Byte) : (s \o t) \o u = s \o (t \o u)
  BY ConcatAssociative

\* The same as a relation, which shows at once which three it is used of.
Regroups(s, t, u) == (s \o t) \o u = s \o (t \o u)

LEMMA BytesRegroup == \A s, t, u \in Seq(Byte) : Regroups(s, t, u)
  BY BytesAssociate DEF Regroups

LEMMA ConsProperties ==
    ASSUME NEW S, NEW x \in S, NEW s \in Seq(S)
    PROVE  /\ <<x>> \o s \in Seq(S) /\ <<x>> \o s # <<>>
           /\ Len(<<x>> \o s) = Len(s) + 1
           /\ (<<x>> \o s)[1] = x /\ Head(<<x>> \o s) = x /\ Tail(<<x>> \o s) = s
  <1> DEFINE t == <<x>> \o s
  <1>1. <<x>> \in Seq(S) /\ Len(<<x>>) = 1 /\ <<x>>[1] = x
    OBVIOUS
  <1>2. /\ t \in Seq(S) /\ Len(t) = 1 + Len(s) /\ Len(s) \in Nat
        /\ \A i \in 1 .. 1 + Len(s) : t[i] = IF i <= 1 THEN <<x>>[i] ELSE s[i - 1]
    BY <1>1, ConcatProperties, LenProperties
  <1> HIDE DEF t
  <1>3. t # <<>> /\ t[1] = x
    <2>1. 1 \in 1 .. 1 + Len(s)
      BY <1>2
    <2>2. t[1] = x
      BY <1>1, <1>2, <2>1
    <2>3. t # <<>>
      BY <1>2, EmptySeq
    <2> QED
      BY <2>2, <2>3
  <1>4. Head(t) = x
    BY <1>2, <1>3
  <1>5. Tail(t) = s
    <2>1. /\ Tail(t) \in Seq(S) /\ Len(Tail(t)) = Len(s)
          /\ \A i \in 1 .. Len(Tail(t)) : Tail(t)[i] = t[i + 1]
      BY <1>2, <1>3, HeadTailProperties
    <2>2. \A i \in 1 .. Len(s) : Tail(t)[i] = s[i]
      BY <1>2, <2>1
    <2> QED
      BY <2>1, <2>2, SeqEqual
  <1>6. Len(t) = Len(s) + 1
    BY <1>2
  <1> QED
    BY <1>2, <1>3, <1>4, <1>5, <1>6 DEF t

LEMMA HeadAndTail ==
    ASSUME NEW S, NEW s \in Seq(S), s # <<>>
    PROVE  /\ Head(s) \in S /\ Tail(s) \in Seq(S) /\ s = <<Head(s)>> \o Tail(s)
           /\ Len(s) = Len(Tail(s)) + 1 /\ Head(s) = s[1]
  <1>1. Len(s) \in Nat /\ Len(s) # 0
    BY LenProperties, EmptySeq
  <1>2. /\ Head(s) \in S /\ Tail(s) \in Seq(S) /\ Len(Tail(s)) = Len(s) - 1
        /\ \A i \in 1 .. Len(Tail(s)) : Tail(s)[i] = s[i + 1]
    BY HeadTailProperties
  <1>3. Head(s) = s[1]
    OBVIOUS
  <1>4. s = <<Head(s)>> \o Tail(s)
    <2> DEFINE t == <<Head(s)>> \o Tail(s)
    <2>1. <<Head(s)>> \in Seq(S) /\ Len(<<Head(s)>>) = 1 /\ <<Head(s)>>[1] = Head(s)
      BY <1>2
    <2>2. /\ t \in Seq(S) /\ Len(t) = 1 + Len(Tail(s))
          /\ \A i \in 1 .. 1 + Len(Tail(s)) :
                t[i] = IF i <= 1 THEN <<Head(s)>>[i] ELSE Tail(s)[i - 1]
      BY <1>2, <2>1, ConcatProperties
    <2> HIDE DEF t
    <2>3. Len(t) = Len(s)
      BY <1>1, <1>2, <2>2
    <2>4. \A i \in 1 .. Len(s) : s[i] = t[i]
      <3> TAKE i \in 1 .. Len(s)
      <3>1. CASE i = 1
        BY <1>1, <1>2, <1>3, <2>1, <2>2, <3>1
      <3>2. CASE i # 1
        <4>1. i - 1 \in 1 .. Len(Tail(s)) /\ i \in 1 .. 1 + Len(Tail(s)) /\ ~(i <= 1) /\ (i - 1) + 1 = i
          BY <1>1, <1>2, <3>2
        <4> QED
          BY <1>2, <2>2, <4>1
      <3> QED
        BY <3>1, <3>2
    <2>5. s = t
      BY <2>2, <2>3, <2>4, SeqEqual
    <2> QED
      BY <2>5 DEF t
  <1>5. Len(s) = Len(Tail(s)) + 1
    BY <1>1, <1>2
  <1> QED
    BY <1>2, <1>3, <1>4, <1>5

Spelled(d) == [i \in 1 .. Len(d) |-> Escaped(d[i])]

LEMMA SpelledType == ASSUME NEW d \in Seq(Byte) PROVE Spelled(d) \in Seq(Seq(Byte)) /\ Len(Spelled(d)) = Len(d)
  <1>1. Len(d) \in Nat /\ \A i \in 1 .. Len(d) : d[i] \in Byte
    BY LenProperties, ElementOfSeq
  <1>2. \A i \in 1 .. Len(d) : Escaped(d[i]) \in Seq(Byte)
    BY <1>1, OneByte
  <1> QED
    BY <1>1, <1>2 DEF Spelled

LEMMA SpellType == ASSUME NEW d \in Seq(Byte) PROVE Spell(d) \in Seq(Byte)
  BY SpelledType, FlattenSeqType DEF Spell, Spelled

LEMMA SpellEmpty == Spell(<<>>) = <<>>
  <1>1. <<>> \in Seq(Byte) /\ Len(<<>>) = 0
    BY EmptySeq
  <1>2. Spelled(<<>>) \in Seq(Seq(Byte)) /\ Len(Spelled(<<>>)) = 0
    BY <1>1, SpelledType
  <1>3. Spelled(<<>>) = <<>>
    BY <1>2, EmptySeq
  <1> QED
    BY <1>3 DEF Spell, Spelled, FlattenSeq

LEMMA SpellAppend ==
    ASSUME NEW d \in Seq(Byte), NEW b \in Byte
    PROVE  Spell(Append(d, b)) = Spell(d) \o Escaped(b)
  <1>1. /\ Append(d, b) \in Seq(Byte) /\ Len(Append(d, b)) = Len(d) + 1 /\ Len(d) \in Nat
        /\ \A i \in 1 .. Len(d) : Append(d, b)[i] = d[i]
        /\ Append(d, b)[Len(d) + 1] = b
    BY AppendProperties, LenProperties
  <1>2. Spelled(d) \in Seq(Seq(Byte)) /\ Len(Spelled(d)) = Len(d) /\ Escaped(b) \in Seq(Byte)
    BY SpelledType, OneByte
  <1>3. Spelled(Append(d, b)) \in Seq(Seq(Byte)) /\ Len(Spelled(Append(d, b))) = Len(d) + 1
    BY <1>1, SpelledType
  <1> DEFINE s == Append(Spelled(d), Escaped(b))
  <1>4. /\ s \in Seq(Seq(Byte)) /\ Len(s) = Len(d) + 1
        /\ \A i \in 1 .. Len(d) : s[i] = Spelled(d)[i]
        /\ s[Len(d) + 1] = Escaped(b)
    BY <1>2, AppendProperties
  <1>5. \A i \in 1 .. Len(d) + 1 : s[i] = Spelled(Append(d, b))[i]
    <2> TAKE i \in 1 .. Len(d) + 1
    <2>1. Spelled(Append(d, b))[i] = Escaped(Append(d, b)[i])
      BY <1>1 DEF Spelled
    <2>2. CASE i = Len(d) + 1
      BY <1>1, <1>4, <2>1, <2>2
    <2>3. CASE i # Len(d) + 1
      <3>1. i \in 1 .. Len(d)
        BY <1>1, <2>3
      <3>2. Spelled(d)[i] = Escaped(d[i])
        BY <3>1 DEF Spelled
      <3> QED
        BY <1>1, <1>4, <2>1, <3>1, <3>2
    <2> QED
      BY <2>2, <2>3
  <1>6. s = Spelled(Append(d, b))
    <2> HIDE DEF s
    <2> QED
      BY <1>3, <1>4, <1>5, SeqEqual
  <1>7. FlattenSeq(s) = FlattenSeq(Spelled(d)) \o Escaped(b)
    BY <1>2, FlattenSeqAppend
  <1> HIDE DEF s
  <1> QED
    BY <1>6, <1>7 DEF Spell, Spelled

LEMMA ConsEqual ==
    ASSUME NEW S, NEW x \in S, NEW y \in S, NEW s \in Seq(S), NEW t \in Seq(S),
           <<x>> \o s = <<y>> \o t
    PROVE  x = y /\ s = t
  <1>1. (<<x>> \o s)[1] = x /\ Tail(<<x>> \o s) = s
    BY ConsProperties
  <1>2. (<<y>> \o t)[1] = y /\ Tail(<<y>> \o t) = t
    BY ConsProperties
  <1> QED
    BY <1>1, <1>2

LEMMA ConsIs ==
    \A x \in Byte, s \in Seq(Byte) : Cons(x, s) \in Seq(Byte) /\ Cons(x, s) # <<>>
  BY ConsProperties DEF Cons

LEMMA BytesEqual ==
    \A x, y \in Byte, s, t \in Seq(Byte) : Cons(x, s) = Cons(y, t) => x = y /\ s = t
  BY ConsEqual DEF Cons

LEMMA SpellCons ==
    ASSUME NEW d \in Seq(Byte), NEW b \in Byte
    PROVE  Spell(<<b>> \o d) = Escaped(b) \o Spell(d)
  <1> DEFINE Holds(n) == \A e \in Seq(Byte) :
                        Len(e) = n => Spell(<<b>> \o e) = Escaped(b) \o Spell(e)
  <1> DEFINE T == {n \in Nat : Holds(n)}
  <1>1. Holds(0)
    <2> SUFFICES ASSUME NEW e \in Seq(Byte), Len(e) = 0
                 PROVE  Spell(<<b>> \o e) = Escaped(b) \o Spell(e)
      OBVIOUS
    <2>1. e = <<>>
      BY EmptySeq
    <2>2. <<b>> \o e = Append(<<>>, b)
      <3>1. <<b>> \in Seq(Byte) /\ <<>> \in Seq(Byte)
        BY OneByte, EmptySeq
      <3>2. Append(<<>>, b) = <<>> \o <<b>>
        BY <3>1, AppendIsConcat
      <3> QED
        BY <2>1, <3>1, <3>2, ConcatEmptySeq
    <2>3. Escaped(b) \in Seq(Byte) /\ <<>> \in Seq(Byte)
      BY OneByte, EmptySeq
    <2>4. Spell(Append(<<>>, b)) = Spell(<<>>) \o Escaped(b)
      BY <2>3, SpellAppend
    <2>5. Spell(<<>>) \o Escaped(b) = Escaped(b) /\ Escaped(b) \o Spell(<<>>) = Escaped(b)
      BY <2>3, SpellEmpty, ConcatEmptySeq
    <2> QED
      BY <2>1, <2>2, <2>4, <2>5
  <1>2. ASSUME NEW n \in Nat, Holds(n)
        PROVE  Holds(n + 1)
    <2> SUFFICES ASSUME NEW e \in Seq(Byte), Len(e) = n + 1
                 PROVE  Spell(<<b>> \o e) = Escaped(b) \o Spell(e)
      OBVIOUS
    <2>1. e # <<>>
      BY EmptySeq
    <2>2. PICK f \in Seq(Byte), c \in Byte : e = Append(f, c)
      BY <2>1, SequenceEmptyOrAppend
    <2>3. Len(f) \in Nat /\ Len(e) = Len(f) + 1
      BY <2>2, LenProperties, AppendProperties
    <2>4. Len(f) = n
      BY <2>3
    <2>5. Spell(<<b>> \o f) = Escaped(b) \o Spell(f)
      BY <1>2, <2>4
    <2>6. /\ <<b>> \in Seq(Byte) /\ <<c>> \in Seq(Byte) /\ Escaped(b) \in Seq(Byte)
          /\ Escaped(c) \in Seq(Byte) /\ Spell(f) \in Seq(Byte)
      BY OneByte, SpellType
    <2>7. <<b>> \o f \in Seq(Byte)
      BY <2>6, ConcatProperties
    <2>8. <<b>> \o e = Append(<<b>> \o f, c)
      <3>1. e = f \o <<c>> /\ Append(<<b>> \o f, c) = (<<b>> \o f) \o <<c>>
        BY <2>2, <2>7, AppendIsConcat
      <3>2. Regroups(<<b>>, f, <<c>>)
        BY ONLY <2>6, f \in Seq(Byte), BytesRegroup, Zenon
      <3> QED
        BY ONLY <3>1, <3>2, Zenon DEF Regroups
    <2>9. Spell(<<b>> \o e) = (Escaped(b) \o Spell(f)) \o Escaped(c)
      BY <2>5, <2>7, <2>8, SpellAppend
    <2>10. Spell(e) = Spell(f) \o Escaped(c)
      BY <2>2, SpellAppend
    <2>11. (Escaped(b) \o Spell(f)) \o Escaped(c) = Escaped(b) \o (Spell(f) \o Escaped(c))
      <3>1. Regroups(Escaped(b), Spell(f), Escaped(c))
        BY ONLY <2>6, BytesRegroup, Zenon
      <3> QED
        BY ONLY <3>1, Zenon DEF Regroups
    <2> QED
      BY <2>9, <2>10, <2>11
  <1> HIDE DEF Holds
  <1>3. 0 \in T /\ \A n \in Nat : n \in T => n + 1 \in T
    BY <1>1, <1>2
  <1> HIDE DEF T
  <1>4. \A n \in Nat : n \in T
    BY <1>3, Induction
  <1>5. Len(d) \in T
    BY <1>4, LenProperties
  <1>6. Holds(Len(d))
    BY <1>5 DEF T
  <1> QED
    BY <1>6 DEF Holds

\* What is to be read begins with its first byte, or with its error.
LEMMA SpellHead ==
    ASSUME NEW d \in Seq(Byte), d # <<>>, NEW r \in Seq(Byte)
    PROVE  /\ Spell(Tail(d)) \o r \in Seq(Byte)
           /\ d[1] \in Byte /\ Tail(d) \in Seq(Byte) /\ d = Cons(d[1], Tail(d))
           /\ d[1] # "ff" => Spell(d) \o r = Cons(d[1], Spell(Tail(d)) \o r)
           /\ d[1] = "ff" => Spell(d) \o r = Cons("ff", Cons("ff", Spell(Tail(d)) \o r))
  <1>1. d[1] \in Byte /\ Tail(d) \in Seq(Byte) /\ d = <<d[1]>> \o Tail(d)
    <2>1. Head(d) \in Byte /\ Tail(d) \in Seq(Byte) /\ d = <<Head(d)>> \o Tail(d) /\ Head(d) = d[1]
      BY HeadAndTail
    <2> QED
      BY <2>1
  <1> DEFINE b == d[1]
  <1> DEFINE e == Tail(d)
  <1>2. /\ Spell(e) \in Seq(Byte) /\ Escaped(b) \in Seq(Byte) /\ <<b>> \in Seq(Byte)
        /\ Spell(e) \o r \in Seq(Byte)
    BY <1>1, SpellType, OneByte, ConcatProperties
  <1>3. Spell(d) = Escaped(b) \o Spell(e)
    BY <1>1, SpellCons
  <1>4. Spell(d) \o r = Escaped(b) \o (Spell(e) \o r)
    <2>1. Regroups(Escaped(b), Spell(e), r)
      BY ONLY <1>2, r \in Seq(Byte), BytesRegroup, Zenon
    <2> QED
      BY ONLY <1>3, <2>1, Zenon DEF Regroups
  <1>5. ASSUME b = "ff"
        PROVE  Escaped(b) \o (Spell(e) \o r) = <<"ff">> \o (<<"ff">> \o (Spell(e) \o r))
    <2>1. Escaped(b) = <<b>> \o <<b>>
      BY <1>1, <1>5 DEF Escaped
    <2>2. Regroups(<<b>>, <<b>>, Spell(e) \o r)
      BY ONLY <1>2, BytesRegroup, Zenon
    <2> QED
      BY ONLY <1>5, <2>1, <2>2, Zenon DEF Regroups
  <1>6. b # "ff" => Escaped(b) = <<b>>
    BY DEF Escaped
  <1> QED
    BY <1>1, <1>2, <1>4, <1>5, <1>6 DEF Cons

LEMMA ErrorHead ==
    ASSUME NEW r, Error(r)
    PROVE  \E x \in Byte, q \in Seq(Byte) : r = Cons("ff", Cons("00", Cons(x, q)))
  <1>1. r \in Seq(Byte) /\ Len(r) >= 3 /\ r[1] = "ff" /\ r[2] = "00" /\ Len(r) \in Nat
    BY LenProperties DEF Error
  <1>2. r # <<>>
    BY <1>1, EmptySeq
  <1> DEFINE s == Tail(r)
  <1>3. s \in Seq(Byte) /\ r = <<"ff">> \o s /\ Len(s) = Len(r) - 1 /\ s[1] = r[2]
    <2>1. /\ Head(r) \in Byte /\ Tail(r) \in Seq(Byte) /\ r = <<Head(r)>> \o Tail(r) /\ Head(r) = r[1]
          /\ Len(r) = Len(Tail(r)) + 1
      BY <1>1, <1>2, HeadAndTail
    <2>2. \A i \in 1 .. Len(Tail(r)) : Tail(r)[i] = r[i + 1]
      BY <1>1, <1>2, HeadTailProperties
    <2>3. Len(Tail(r)) \in Nat /\ Len(Tail(r)) = Len(r) - 1 /\ 1 \in 1 .. Len(Tail(r)) /\ 1 + 1 = 2
      BY <1>1, <2>1, LenProperties
    <2>4. Tail(r)[1] = r[2]
      BY <2>2, <2>3
    <2> QED
      BY <1>1, <2>1, <2>3, <2>4
  <1> HIDE DEF s
  <1>4. s # <<>> /\ Len(s) \in Nat
    BY <1>1, <1>3, EmptySeq
  <1> DEFINE t == Tail(s)
  <1>5. t \in Seq(Byte) /\ s = <<"00">> \o t /\ Len(t) = Len(s) - 1
    <2>1. /\ Head(s) \in Byte /\ Tail(s) \in Seq(Byte) /\ s = <<Head(s)>> \o Tail(s) /\ Head(s) = s[1]
          /\ Len(s) = Len(Tail(s)) + 1
      BY <1>3, <1>4, HeadAndTail
    <2>2. Len(Tail(s)) \in Nat
      BY <2>1, LenProperties
    <2> QED
      BY <1>1, <1>3, <1>4, <2>1, <2>2
  <1> HIDE DEF t
  <1>6. t # <<>>
    BY <1>1, <1>3, <1>5, EmptySeq
  <1>7. Head(t) \in Byte /\ Tail(t) \in Seq(Byte) /\ t = <<Head(t)>> \o Tail(t)
    BY <1>5, <1>6, HeadAndTail
  <1>8. r = <<"ff">> \o (<<"00">> \o (<<Head(t)>> \o Tail(t)))
    BY <1>3, <1>5, <1>7
  <1> QED
    BY <1>7, <1>8 DEF Cons

-----------------------------------------------------------------------------
(* The state machine of read, one byte at a time, and over a chunk of them.*)

ScanStates == {"normal", "escape", "error"}

\* What a state of read and the bytes behind it make of the data.
Reads(g, e, rest, d, r) == g \o d \in Seq(Byte) /\ Pending(e) \o rest = Spell(d) \o r

LEMMA PendingIs ==
    ASSUME NEW rest \in Seq(Byte)
    PROVE  /\ Pending("normal") \o rest = rest
           /\ Pending("escape") \o rest = Cons("ff", rest)
           /\ Pending("error") \o rest = Cons("ff", Cons("00", rest))
  <1>1. Pending("normal") \o rest = rest
    BY ConcatEmptySeq DEF Pending
  <1>2. Pending("escape") \o rest = <<"ff">> \o rest
    BY DEF Pending
  <1>3. Pending("error") = <<"ff">> \o <<"00">>
    BY DEF Pending
  <1>4. <<"ff">> \in Seq(Byte) /\ <<"00">> \in Seq(Byte)
    BY OneByte DEF Byte
  <1>5. (<<"ff">> \o <<"00">>) \o rest = <<"ff">> \o (<<"00">> \o rest)
    BY <1>4, ConcatAssociative
  <1> QED
    BY <1>1, <1>2, <1>3, <1>5 DEF Cons

\* A state of read.
At(h, c) == [got |-> h, esc |-> c]

MayScan(g, c, b, rest, d, r) ==
    /\ g \in Seq(Byte) /\ c \in ScanStates /\ b \in Byte /\ rest \in Seq(Byte)
    /\ d \in Seq(Byte) /\ r \in Seq(Byte) /\ (r = <<>> \/ Error(r))
    /\ Pending(c) \o Cons(b, rest) = Spell(d) \o r
HasScanned(t, g, b, rest, d, r) ==
    \/ t = At(g, "thrown")
    \/ \E x \in {"escape", "error"} : t = At(g, x) /\ Pending(x) \o rest = Spell(d) \o r
    \/ \E f \in Seq(Byte) :
         /\ d = Cons(b, f) /\ t = At(Append(g, b), "normal")
         /\ Pending("normal") \o rest = Spell(f) \o r

\* One byte is taken from the data, from an escape or from the error.
LEMMA ScanOnce ==
    ASSUME NEW g, NEW e, NEW b, NEW rest, NEW d, NEW r, MayScan(g, e, b, rest, d, r)
    PROVE  HasScanned(Scan(At(g, e), b), g, b, rest, d, r)
  <1>0. /\ g \in Seq(Byte) /\ e \in ScanStates /\ b \in Byte /\ rest \in Seq(Byte)
        /\ d \in Seq(Byte) /\ r \in Seq(Byte) /\ (r = <<>> \/ Error(r))
        /\ Pending(e) \o Cons(b, rest) = Spell(d) \o r
    BY DEF MayScan
  <1> USE <1>0
  <1> PICK t : t = Scan(At(g, e), b)
    OBVIOUS
  <1> SUFFICES HasScanned(t, g, b, rest, d, r)
    OBVIOUS
  <1> USE DEF HasScanned
  <1> DEFINE more == Cons(b, rest)
  <1> DEFINE tail == Spell(Tail(d)) \o r
  <1>1. more \in Seq(Byte) /\ "ff" \in Byte /\ "00" \in Byte
    BY ConsIs DEF Byte
  <1>2. Cons("00", more) \in Seq(Byte)
    BY <1>1, ConsIs
  <1>3. ASSUME d # <<>>
        PROVE  /\ tail \in Seq(Byte) /\ d[1] \in Byte /\ Tail(d) \in Seq(Byte) /\ d = Cons(d[1], Tail(d))
               /\ d[1] # "ff" => Spell(d) \o r = Cons(d[1], tail)
               /\ d[1] = "ff" => Spell(d) \o r = Cons("ff", Cons("ff", tail))
               /\ Cons("ff", tail) \in Seq(Byte)
    BY <1>1, <1>3, SpellHead, ConsIs
  <1>4. ASSUME d = <<>>
        PROVE  /\ Spell(d) \o r = r
               /\ \E x \in Byte, q \in Seq(Byte) : r = Cons("ff", Cons("00", Cons(x, q)))
    <2>1. Spell(d) \o r = r
      BY <1>4, SpellEmpty, ConcatEmptySeq
    <2>2. r # <<>>
      <3>1. Pending(e) \o more # <<>>
        <4>1. more # <<>> /\ Cons("ff", more) # <<>> /\ Cons("ff", Cons("00", more)) # <<>>
          BY <1>1, <1>2, ConsIs
        <4> HIDE DEF more
        <4> QED
          BY <1>1, <4>1, PendingIs DEF ScanStates
      <3> QED
        BY <2>1, <3>1
    <2> QED
      BY <2>1, <2>2, ErrorHead
  <1> HIDE DEF tail
  <1>5. CASE e = "normal"
    <2>1. Spell(d) \o r = Cons(b, rest)
      BY <1>1, <1>5, PendingIs
    <2>2. CASE d = <<>>
      <3>1. PICK x \in Byte, q \in Seq(Byte) : r = Cons("ff", Cons("00", Cons(x, q)))
        BY <1>4, <2>2
      <3>2. Cons("00", Cons(x, q)) \in Seq(Byte)
        BY <1>1, ConsIs
      <3>3. Cons(b, rest) = Cons("ff", Cons("00", Cons(x, q)))
        BY <1>4, <2>1, <2>2, <3>1
      <3>4. b = "ff"
        BY <1>1, <3>2, <3>3, BytesEqual
      <3>5. t = At(g, "escape")
        BY <1>5, <3>4 DEF Scan, At
      <3>6. Pending("escape") \o rest = Spell(d) \o r
        BY <2>1, <3>4, PendingIs
      <3> QED
        BY <3>5, <3>6
    <2>3. CASE d # <<>> /\ d[1] = "ff"
      <3>0. /\ tail \in Seq(Byte) /\ Cons("ff", tail) \in Seq(Byte)
            /\ d[1] \in Byte /\ Tail(d) \in Seq(Byte) /\ d = Cons(d[1], Tail(d))
        BY <1>3, <2>3
      <3>1. Cons(b, rest) = Cons("ff", Cons("ff", tail))
        BY <1>3, <2>1, <2>3
      <3>2. b = "ff"
        BY <1>1, <3>0, <3>1, BytesEqual
      <3>3. t = At(g, "escape")
        BY <1>5, <3>2 DEF Scan, At
      <3>4. Pending("escape") \o rest = Spell(d) \o r
        BY <2>1, <3>2, PendingIs
      <3> QED
        BY <3>3, <3>4
    <2>4. CASE d # <<>> /\ d[1] # "ff"
      <3>0. /\ tail \in Seq(Byte) /\ Cons("ff", tail) \in Seq(Byte)
            /\ d[1] \in Byte /\ Tail(d) \in Seq(Byte) /\ d = Cons(d[1], Tail(d))
        BY <1>3, <2>4
      <3>1. Cons(b, rest) = Cons(d[1], tail)
        BY <1>3, <2>1, <2>4
      <3>2. b = d[1] /\ rest = tail
        <4>1. b \in Byte /\ d[1] \in Byte /\ rest \in Seq(Byte) /\ tail \in Seq(Byte)
          BY <1>1, <3>0, <3>1
        <4> QED
          BY ONLY <3>1, <4>1, BytesEqual
      <3>3. t = At(Append(g, b), "normal")
        BY <1>5, <2>4, <3>2 DEF Scan, At
      <3>4. Pending("normal") \o rest = Spell(Tail(d)) \o r
        BY <3>2, PendingIs DEF tail
      <3> QED
        BY <3>0, <3>2, <3>3, <3>4
    <2> QED
      BY <2>2, <2>3, <2>4
  <1>6. CASE e = "escape"
    <2>1. Spell(d) \o r = Cons("ff", Cons(b, rest))
      BY <1>1, <1>6, PendingIs
    <2>2. CASE d = <<>>
      <3>1. PICK x \in Byte, q \in Seq(Byte) : r = Cons("ff", Cons("00", Cons(x, q)))
        BY <1>4, <2>2
      <3>2. Cons(x, q) \in Seq(Byte) /\ Cons("00", Cons(x, q)) \in Seq(Byte)
        BY <1>1, ConsIs
      <3>3. Cons("ff", Cons(b, rest)) = Cons("ff", Cons("00", Cons(x, q)))
        BY <1>4, <2>1, <2>2, <3>1
      <3>4. Cons(b, rest) = Cons("00", Cons(x, q))
        <4>1. "ff" \in Byte /\ Cons(b, rest) \in Seq(Byte) /\ Cons("00", Cons(x, q)) \in Seq(Byte)
          BY <1>1, <3>2, <3>3
        <4> QED
          BY ONLY <3>3, <4>1, BytesEqual
      <3>5. b = "00"
        BY <1>1, <3>2, <3>4, BytesEqual
      <3>6. t = At(g, "error")
        BY <1>6, <3>5 DEF Scan, At
      <3>7. Pending("error") \o rest = Spell(d) \o r
        BY <2>1, <3>5, PendingIs
      <3> QED
        BY <3>6, <3>7
    <2>3. CASE d # <<>> /\ d[1] = "ff"
      <3>0. /\ tail \in Seq(Byte) /\ Cons("ff", tail) \in Seq(Byte)
            /\ d[1] \in Byte /\ Tail(d) \in Seq(Byte) /\ d = Cons(d[1], Tail(d))
        BY <1>3, <2>3
      <3>1. Cons("ff", Cons(b, rest)) = Cons("ff", Cons("ff", tail))
        BY <1>3, <2>1, <2>3
      <3>2. Cons(b, rest) = Cons("ff", tail)
        <4>1. "ff" \in Byte /\ Cons(b, rest) \in Seq(Byte) /\ Cons("ff", tail) \in Seq(Byte)
          BY <1>1, <3>0, <3>1
        <4> QED
          BY ONLY <3>1, <4>1, BytesEqual
      <3>3. b = "ff" /\ rest = tail
        <4>1. b \in Byte /\ "ff" \in Byte /\ rest \in Seq(Byte) /\ tail \in Seq(Byte)
          BY <1>1, <3>0, <3>2
        <4> QED
          BY ONLY <3>2, <4>1, BytesEqual
      <3>4. t = At(Append(g, b), "normal")
        BY <1>6, <3>3 DEF Scan, At
      <3>5. Pending("normal") \o rest = Spell(Tail(d)) \o r
        BY <3>3, PendingIs DEF tail
      <3> QED
        BY <3>0, <2>3, <3>3, <3>4, <3>5
    <2>4. CASE d # <<>> /\ d[1] # "ff"
      <3>0. /\ tail \in Seq(Byte) /\ Cons("ff", tail) \in Seq(Byte)
            /\ d[1] \in Byte /\ Tail(d) \in Seq(Byte) /\ d = Cons(d[1], Tail(d))
        BY <1>3, <2>4
      <3>1. Cons("ff", Cons(b, rest)) = Cons(d[1], tail)
        BY <1>3, <2>1, <2>4
      <3>2. d[1] = "ff"
        BY <1>1, <3>0, <3>1, BytesEqual
      <3> QED
        BY <2>4, <3>2
    <2> QED
      BY <2>2, <2>3, <2>4
  <1>7. CASE e = "error"
    <2>1. t = At(g, "thrown")
      BY <1>7 DEF Scan, At
    <2> QED
      BY <2>1
  <1> QED
    BY <1>5, <1>6, <1>7 DEF ScanStates

-----------------------------------------------------------------------------
(* The state machine of read over the bytes that a call of the driver gives.*)

\* f[i] is the state after i bytes.
ScanRun(f, s, bytes, n) == f = [i \in 0 .. n |-> IF i = 0 THEN s ELSE Scan(f[i - 1], bytes[i])]

LEMMA ScanRunAt ==
    ASSUME NEW s, NEW bytes, NEW n \in Nat, NEW f, ScanRun(f, s, bytes, n)
    PROVE  f[0] = s /\ \A i \in 1 .. n : f[i] = Scan(f[i - 1], bytes[i])
  <1>1. \A i \in 0 .. n : f[i] = IF i = 0 THEN s ELSE Scan(f[i - 1], bytes[i])
    BY DEF ScanRun
  <1> QED
    BY <1>1

LEMMA ScanRunExists ==
    ASSUME NEW s, NEW bytes, NEW n \in Nat
    PROVE  \E f : ScanRun(f, s, bytes, n)
  <1> DEFINE Has(k) == \E f : ScanRun(f, s, bytes, k)
  <1> DEFINE T == {k \in Nat : Has(k)}
  <1>1. Has(0)
    <2> DEFINE f == [i \in 0 .. 0 |-> s]
    <2>1. f = [i \in 0 .. 0 |-> IF i = 0 THEN s ELSE Scan(f[i - 1], bytes[i])]
      OBVIOUS
    <2> QED
      BY <2>1 DEF ScanRun
  <1>2. ASSUME NEW k \in Nat, Has(k)
        PROVE  Has(k + 1)
    <2>1. PICK f : ScanRun(f, s, bytes, k)
      BY <1>2
    <2>2. f[0] = s /\ \A i \in 1 .. k : f[i] = Scan(f[i - 1], bytes[i])
      BY <2>1, ScanRunAt
    <2> DEFINE g == [i \in 0 .. k + 1 |-> IF i = k + 1 THEN Scan(f[k], bytes[k + 1]) ELSE f[i]]
    <2>3. \A i \in 0 .. k : g[i] = f[i]
      OBVIOUS
    <2>4. \A i \in 0 .. k + 1 :
            (IF i = k + 1 THEN Scan(f[k], bytes[k + 1]) ELSE f[i])
               = IF i = 0 THEN s ELSE Scan(g[i - 1], bytes[i])
      <3> TAKE i \in 0 .. k + 1
      <3>1. CASE i = 0
        BY <2>2, <3>1
      <3>2. CASE i = k + 1
        <4>1. i # 0 /\ i - 1 = k /\ g[k] = f[k]
          BY <2>3, <3>2
        <4> HIDE DEF g
        <4> QED
          BY <3>2, <4>1
      <3>3. CASE i # 0 /\ i # k + 1
        <4>1. i \in 1 .. k /\ i - 1 \in 0 .. k
          BY <3>3
        <4>2. g[i - 1] = f[i - 1]
          BY <2>3, <4>1
        <4> HIDE DEF g
        <4> QED
          BY <2>2, <3>3, <4>1, <4>2
      <3> QED
        BY <3>1, <3>2, <3>3
    <2>5. g = [i \in 0 .. k + 1 |-> IF i = 0 THEN s ELSE Scan(g[i - 1], bytes[i])]
      <3> DEFINE e(i) == IF i = k + 1 THEN Scan(f[k], bytes[k + 1]) ELSE f[i]
      <3> DEFINE h(i) == IF i = 0 THEN s ELSE Scan(g[i - 1], bytes[i])
      <3>1. \A i \in 0 .. k + 1 : e(i) = h(i)
        BY <2>4
      <3>2. g = [i \in 0 .. k + 1 |-> e(i)]
        OBVIOUS
      <3> HIDE DEF g, e, h
      <3>3. g = [i \in 0 .. k + 1 |-> h(i)]
        BY <3>1, <3>2
      <3> QED
        BY <3>3 DEF h
    <2> HIDE DEF g
    <2>6. ScanRun(g, s, bytes, k + 1)
      BY <2>5 DEF ScanRun
    <2> QED
      BY <2>6
  <1> HIDE DEF Has
  <1>3. 0 \in T /\ \A k \in Nat : k \in T => k + 1 \in T
    BY <1>1, <1>2
  <1> HIDE DEF T
  <1>4. n \in T
    BY <1>3, Induction
  <1>5. Has(n)
    BY <1>4 DEF T
  <1> QED
    BY <1>5 DEF Has

LEMMA ScannedIs ==
    ASSUME NEW s, NEW bytes, Len(bytes) \in Nat
    PROVE  \E f : ScanRun(f, s, bytes, Len(bytes)) /\ Scanned(s, bytes) = f[Len(bytes)]
  <1> DEFINE c == CHOOSE f : ScanRun(f, s, bytes, Len(bytes))
  <1>1. ScanRun(c, s, bytes, Len(bytes))
    BY ScanRunExists
  <1>2. Scanned(s, bytes) = c[Len(bytes)]
    BY DEF Scanned, ScanRun
  <1> QED
    BY <1>1, <1>2

ScanSteps(f, s, bytes, n) == f[0] = s /\ \A i \in 1 .. n : f[i] = Scan(f[i - 1], bytes[i])

LEMMA ScannedAt ==
    ASSUME NEW s, NEW bytes, Len(bytes) \in Nat
    PROVE  \E f : ScanSteps(f, s, bytes, Len(bytes)) /\ Scanned(s, bytes) = f[Len(bytes)]
  <1>1. PICK f : ScanRun(f, s, bytes, Len(bytes)) /\ Scanned(s, bytes) = f[Len(bytes)]
    BY ScannedIs
  <1>2. ScanSteps(f, s, bytes, Len(bytes))
    <2>1. f[0] = s
      BY <1>1 DEF ScanRun
    <2>2. \A i \in 1 .. Len(bytes) : f[i] = Scan(f[i - 1], bytes[i])
      BY <1>1 DEF ScanRun
    <2> QED
      BY <2>1, <2>2 DEF ScanSteps
  <1> QED
    BY <1>1, <1>2

LEMMA ConcatCons ==
    \A g, s \in Seq(Byte), b \in Byte :
        Append(g, b) \in Seq(Byte) /\ Len(Append(g, b)) = Len(g) + 1 /\ Append(g, b) \o s = g \o Cons(b, s)
  <1> TAKE g, s \in Seq(Byte), b \in Byte
  <1>1. <<b>> \in Seq(Byte)
    OBVIOUS
  <1>2. (g \o <<b>>) \o s = g \o (<<b>> \o s)
    BY <1>1, ConcatAssociative
  <1>3. Append(g, b) = g \o <<b>>
    BY AppendIsConcat
  <1>4. Append(g, b) \in Seq(Byte) /\ Len(Append(g, b)) = Len(g) + 1
    BY AppendProperties
  <1> QED
    BY <1>2, <1>3, <1>4 DEF Cons

\* After i bytes of all, which began with data d and then r.
Scanning(h, c, g, all, i, d, r) ==
    /\ h \in Seq(Byte)
    /\ Len(h) <= Len(g) + i
    /\ i > 0 /\ c # "normal" => Len(h) < Len(g) + i
    /\ \/ c = "thrown"
       \/ /\ c \in ScanStates
          /\ \E e \in Seq(Byte) :
                /\ h \o e = g \o d
                /\ Pending(c) \o SubSeq(all, i + 1, Len(all)) = Spell(e) \o r

LEMMA ScanningStep ==
    ASSUME NEW g \in Seq(Byte), NEW all \in Seq(Byte), NEW i \in Nat, i < Len(all),
           NEW d \in Seq(Byte), NEW r \in Seq(Byte), r = <<>> \/ Error(r),
           NEW h, NEW c, Scanning(h, c, g, all, i, d, r)
    PROVE  \E h2, c2 : Scan(At(h, c), all[i + 1]) = At(h2, c2) /\ Scanning(h2, c2, g, all, i + 1, d, r)
  <1> DEFINE rest == SubSeq(all, (i + 1) + 1, Len(all))
  <1>1. PICK b \in Byte : b = all[i + 1]
    BY LenProperties, ElementOfSeq
  <1>2. Len(all) \in Nat /\ Len(g) \in Nat /\ i + 1 \in 1 .. Len(all) /\ rest \in Seq(Byte)
    BY LenProperties, Cut
  <1>3. SubSeq(all, i + 1, Len(all)) = Cons(b, rest)
    <2>1. Len(all) \in i + 1 .. Len(all)
      BY <1>2
    <2> QED
      BY <1>1, <1>2, <2>1, SubSeqRecursiveFirst DEF Cons
  <1>4. /\ h \in Seq(Byte) /\ Len(h) \in Nat
        /\ Len(h) <= Len(g) + i
    BY LenProperties DEF Scanning
  <1>5. i + 1 > 0 /\ Len(h) < Len(g) + (i + 1) /\ Len(h) <= Len(g) + (i + 1) /\ Len(h) + 1 <= Len(g) + (i + 1)
    BY <1>2, <1>4
  <1>6. CASE c = "thrown"
    <2>1. Scan(At(h, c), b) = At(h, c)
      BY <1>6 DEF Scan, At
    <2>2. Scanning(h, c, g, all, i + 1, d, r)
      BY <1>4, <1>5, <1>6 DEF Scanning
    <2> QED
      BY <1>1, <2>1, <2>2
  <1>7. CASE c # "thrown"
    <2>1. PICK e \in Seq(Byte) :
            /\ h \o e = g \o d
            /\ Pending(c) \o SubSeq(all, i + 1, Len(all)) = Spell(e) \o r
      BY <1>7 DEF Scanning
    <2>2. c \in ScanStates
      BY <1>7 DEF Scanning
    <2>3. Pending(c) \o Cons(b, rest) = Spell(e) \o r
      BY <1>3, <2>1
    <2>4. PICK q \in Seq(Byte) : q = rest
      BY <1>2
    <2> HIDE DEF rest
    <2>5. HasScanned(Scan(At(h, c), b), h, b, q, e, r)
      <3>1. MayScan(h, c, b, q, e, r)
        BY <1>4, <2>2, <2>3, <2>4 DEF MayScan
      <3> QED
        BY <3>1, ScanOnce
    <2>6. CASE Scan(At(h, c), b) = At(h, "thrown")
      <3>1. Scanning(h, "thrown", g, all, i + 1, d, r)
        BY <1>4, <1>5 DEF Scanning
      <3> QED
        BY <1>1, <2>6, <3>1
    <2>7. CASE \E x \in {"escape", "error"} :
                Scan(At(h, c), b) = At(h, x) /\ Pending(x) \o q = Spell(e) \o r
      <3>1. PICK x \in {"escape", "error"} :
                Scan(At(h, c), b) = At(h, x) /\ Pending(x) \o q = Spell(e) \o r
        BY <2>7
      <3>2. Pending(x) \o SubSeq(all, (i + 1) + 1, Len(all)) = Spell(e) \o r
        BY <2>4, <3>1 DEF rest
      <3>3. Scanning(h, x, g, all, i + 1, d, r)
        BY <1>4, <1>5, <2>1, <3>2 DEF Scanning, ScanStates
      <3> QED
        BY <1>1, <3>1, <3>3
    <2>8. CASE \E f \in Seq(Byte) :
                /\ e = Cons(b, f) /\ Scan(At(h, c), b) = At(Append(h, b), "normal")
                /\ Pending("normal") \o q = Spell(f) \o r
      <3>1. PICK f \in Seq(Byte) :
                /\ e = Cons(b, f) /\ Scan(At(h, c), b) = At(Append(h, b), "normal")
                /\ Pending("normal") \o q = Spell(f) \o r
        BY <2>8
      <3>2. /\ Append(h, b) \in Seq(Byte) /\ Len(Append(h, b)) = Len(h) + 1
            /\ Append(h, b) \o f = g \o d
        BY <1>4, <2>1, <3>1, ConcatCons
      <3>3. Pending("normal") \o SubSeq(all, (i + 1) + 1, Len(all)) = Spell(f) \o r
        BY <2>4, <3>1 DEF rest
      <3>4. Len(Append(h, b)) <= Len(g) + (i + 1)
        BY <1>5, <3>2
      <3>5. Scanning(Append(h, b), "normal", g, all, i + 1, d, r)
        BY <3>2, <3>3, <3>4 DEF Scanning, ScanStates
      <3> QED
        BY <1>1, <3>1, <3>5
    <2> QED
      BY <2>5, <2>6, <2>7, <2>8 DEF HasScanned
  <1> QED
    BY <1>6, <1>7

LEMMA ChunkReads ==
    ASSUME NEW g \in Seq(Byte), NEW c \in ScanStates, NEW all \in Seq(Byte), NEW k \in 1 .. Len(all),
           NEW d \in Seq(Byte), NEW r \in Seq(Byte), r = <<>> \/ Error(r),
           Pending(c) \o all = Spell(d) \o r
    PROVE  \E h2, c2 : /\ Scanned(At(g, c), SubSeq(all, 1, k)) = At(h2, c2)
                       /\ Scanning(h2, c2, g, all, k, d, r)
  <1> DEFINE bytes == SubSeq(all, 1, k)
  <1>1. /\ Len(all) \in Nat /\ k \in Nat /\ Len(bytes) = k
        /\ \A i \in 1 .. k : bytes[i] = all[i]
    <2>1. Len(all) \in Nat /\ k \in 0 .. Len(all) /\ k \in Nat
      BY LenProperties
    <2> QED
      BY <2>1, CutInTwo
  <1> HIDE DEF bytes
  <1>2. PICK f : ScanSteps(f, At(g, c), bytes, k) /\ Scanned(At(g, c), bytes) = f[k]
    BY <1>1, ScannedAt
  <1> DEFINE Good(i) == \E h2, c2 : f[i] = At(h2, c2) /\ Scanning(h2, c2, g, all, i, d, r)
  <1> DEFINE T == {i \in Nat : i <= k => Good(i)}
  <1>4. Good(0)
    <2>1. f[0] = At(g, c)
      BY <1>2 DEF ScanSteps
    <2>2. SubSeq(all, 0 + 1, Len(all)) = all /\ Len(g) \in Nat /\ Len(g) <= Len(g) + 0
      BY SubSeqFull, LenProperties
    <2>3. Scanning(g, c, g, all, 0, d, r)
      <3>1. \E x \in Seq(Byte) : g \o x = g \o d /\ Pending(c) \o SubSeq(all, 0 + 1, Len(all)) = Spell(x) \o r
        BY <2>2
      <3>2. ~(0 > 0) /\ c \in ScanStates
        OBVIOUS
      <3> QED
        BY <2>2, <3>1, <3>2 DEF Scanning
    <2> QED
      BY <2>1, <2>3
  <1>5. ASSUME NEW i \in Nat, Good(i), i + 1 <= k
        PROVE  Good(i + 1)
    <2>0. i \in Nat /\ k \in Nat /\ Len(all) \in Nat /\ k \in 1 .. Len(all) /\ i + 1 <= k
      BY <1>1, <1>5
    <2>1. i < Len(all) /\ i <= k /\ i + 1 \in 1 .. k /\ (i + 1) - 1 = i
      BY ONLY <2>0
    <2>2. f[i + 1] = Scan(f[i], all[i + 1])
      <3>1. f[i + 1] = Scan(f[(i + 1) - 1], bytes[i + 1])
        BY <1>2, <2>1 DEF ScanSteps
      <3> QED
        BY <1>1, <2>1, <3>1
    <2>3. PICK h, x : f[i] = At(h, x) /\ Scanning(h, x, g, all, i, d, r)
      BY <1>5
    <2>4. \E h2, c2 : Scan(At(h, x), all[i + 1]) = At(h2, c2) /\ Scanning(h2, c2, g, all, i + 1, d, r)
      BY <2>1, <2>3, ScanningStep
    <2> QED
      BY <2>2, <2>3, <2>4
  <1> HIDE DEF Good
  <1>6. 0 \in T /\ \A i \in Nat : i \in T => i + 1 \in T
    <2>1. \A i \in Nat : i + 1 \in Nat /\ (i + 1 <= k => i <= k)
      BY <1>1
    <2> QED
      BY <1>4, <1>5, <2>1
  <1> HIDE DEF T
  <1>7. k \in T
    BY <1>1, <1>6, Induction
  <1>8. Good(k)
    BY <1>1, <1>7 DEF T
  <1> QED
    BY <1>2, <1>8 DEF bytes, Good

-----------------------------------------------------------------------------
(* What comes on the line is behind what is there.                         *)

LEMMA BytesConcat == \A s, t \in Seq(Byte) : s \o t \in Seq(Byte) /\ Len(s \o t) = Len(s) + Len(t)
  BY ConcatProperties

LEMMA NoBytes ==
    /\ <<>> \in Seq(Byte) /\ Len(<<>>) = 0
    /\ \A s \in Seq(Byte) : s \o <<>> = s /\ <<>> \o s = s /\ Len(s) \in Nat /\ (Len(s) = 0 <=> s = <<>>)
  BY EmptySeq, ConcatEmptySeq, LenProperties

LEMMA OneMore ==
    \A s \in Seq(Byte), b \in Byte :
        /\ Append(s, b) \in Seq(Byte) /\ Append(s, b) # <<>>
        /\ Len(Append(s, b)) = Len(s) + 1 /\ Append(s, b) = s \o <<b>> /\ <<b>> \in Seq(Byte)
  BY AppendProperties, AppendIsConcat

LEMMA ErrorMore == \A r, e : Error(r) /\ e \in Seq(Byte) => Error(r \o e)
  <1> SUFFICES ASSUME NEW r, NEW e, Error(r), e \in Seq(Byte)
               PROVE  Error(r \o e)
    OBVIOUS
  <1>1. r \in Seq(Byte) /\ Len(r) >= 3 /\ r[1] = "ff" /\ r[2] = "00" /\ Len(r) \in Nat /\ Len(e) \in Nat
    BY LenProperties DEF Error
  <1>2. r \o e \in Seq(Byte) /\ Len(r \o e) = Len(r) + Len(e)
        /\ \A i \in 1 .. Len(r) + Len(e) : (r \o e)[i] = IF i <= Len(r) THEN r[i] ELSE e[i - Len(r)]
    BY <1>1, ConcatProperties
  <1>3. 1 \in 1 .. Len(r) + Len(e) /\ 2 \in 1 .. Len(r) + Len(e) /\ 1 <= Len(r) /\ 2 <= Len(r)
        /\ Len(r) + Len(e) >= 3
    BY <1>1
  <1>4. (r \o e)[1] = r[1] /\ (r \o e)[2] = r[2]
    BY <1>2, <1>3
  <1> QED
    BY <1>1, <1>2, <1>3, <1>4 DEF Error

LEMMA ErrorIsMore == \A r : Error(r) => r \in Seq(Byte) /\ r # <<>>
  BY NoBytes DEF Error

LEMMA PendingType == \A e : Pending(e) \in Seq(Byte)
  <1>1. <<>> \in Seq(Byte) /\ <<"ff">> \in Seq(Byte) /\ <<"ff", "00">> \in Seq(Byte)
    BY NoBytes DEF Byte
  <1> QED
    BY <1>1 DEF Pending

\* What is appended to the line comes after what was on it.
LEMMA BehindOnLine ==
    ASSUME NEW e \in Seq(Byte), NEW d, NEW r, Coming(d, r), TypeOK,
           rx' = rx \o e, ahead' = ahead, esc' = esc
    PROVE  Pending(esc') \o (ahead' \o rx') = Spell(d) \o (r \o e) /\ r \o e \in Seq(Byte)
  <1>1. /\ Pending(esc) \in Seq(Byte) /\ ahead \in Seq(Byte) /\ rx \in Seq(Byte)
        /\ Spell(d) \in Seq(Byte) /\ r \in Seq(Byte) /\ Pending(esc) \o (ahead \o rx) = Spell(d) \o r
        /\ ahead \o rx \in Seq(Byte) /\ r \o e \in Seq(Byte)
    <2>1. ahead \in Seq(Byte) /\ rx \in Seq(Byte)
      BY DEF TypeOK
    <2>2. d \in Seq(Byte) /\ r \in Seq(Byte) /\ Pending(esc) \o (ahead \o rx) = Spell(d) \o r
      BY DEF Coming
    <2> QED
      BY <2>1, <2>2, PendingType, SpellType, BytesConcat
  <1>2. (ahead \o rx) \o e = ahead \o (rx \o e)
    <2>1. ahead \in Seq(Byte) /\ rx \in Seq(Byte) /\ e \in Seq(Byte)
      BY <1>1
    <2> QED
      BY ONLY <2>1, BytesAssociate
  <1>3. (Pending(esc) \o (ahead \o rx)) \o e = Pending(esc) \o ((ahead \o rx) \o e)
    <2>1. Pending(esc) \in Seq(Byte) /\ (ahead \o rx) \in Seq(Byte) /\ e \in Seq(Byte)
      BY <1>1
    <2> QED
      BY ONLY <2>1, BytesAssociate
  <1>4. (Spell(d) \o r) \o e = Spell(d) \o (r \o e)
    <2>1. Spell(d) \in Seq(Byte) /\ r \in Seq(Byte) /\ e \in Seq(Byte)
      BY <1>1
    <2> QED
      BY ONLY <2>1, BytesAssociate
  <1> QED
    BY <1>1, <1>2, <1>3, <1>4

\* A byte of data.
LEMMA DataComes ==
    ASSUME NEW b \in Byte, NEW d, NEW r, Coming(d, r), TypeOK,
           rx' = rx \o Escaped(b), ahead' = ahead, esc' = esc
    PROVE  /\ r = <<>> => Append(d, b) \in Seq(Byte) /\ Coming(Append(d, b), <<>>)'
           /\ r # <<>> => \E q : q # <<>> /\ Coming(d, q)'
  <1>1. Escaped(b) \in Seq(Byte) /\ <<>> \in Seq(Byte)
    BY OneByte, EmptySeq
  <1>2. Pending(esc') \o (ahead' \o rx') = Spell(d) \o (r \o Escaped(b)) /\ r \o Escaped(b) \in Seq(Byte)
    BY <1>1, BehindOnLine
  <1>3. d \in Seq(Byte) /\ r \in Seq(Byte) /\ (r = <<>> \/ Error(r))
    BY DEF Coming
  <1>4. CASE r = <<>>
    <2>1. r \o Escaped(b) = Escaped(b)
      BY <1>1, <1>4, ConcatEmptySeq
    <2>2. Append(d, b) \in Seq(Byte) /\ Spell(Append(d, b)) = Spell(d) \o Escaped(b)
      BY <1>3, SpellAppend, AppendProperties
    <2>3. Spell(Append(d, b)) \o <<>> = Spell(Append(d, b))
      BY <2>2, SpellType, ConcatEmptySeq
    <2> QED
      BY <1>1, <1>2, <1>4, <2>1, <2>2, <2>3 DEF Coming
  <1>5. CASE r # <<>>
    <2>1. Error(r \o Escaped(b)) /\ r \o Escaped(b) # <<>>
      BY <1>1, <1>3, <1>5, ErrorMore, ErrorIsMore
    <2>2. Coming(d, r \o Escaped(b))'
      BY <1>2, <1>3, <2>1 DEF Coming
    <2> QED
      BY <1>5, <2>1, <2>2
  <1> QED
    BY <1>4, <1>5

\* An error.
LEMMA ErrorComes ==
    ASSUME NEW e, Error(e), NEW d, NEW r, Coming(d, r), TypeOK,
           rx' = rx \o e, ahead' = ahead, esc' = esc
    PROVE  \E q : q # <<>> /\ Coming(d, q)'
  <1>1. e \in Seq(Byte) /\ e # <<>>
    BY ErrorIsMore
  <1>2. Pending(esc') \o (ahead' \o rx') = Spell(d) \o (r \o e) /\ r \o e \in Seq(Byte)
    BY <1>1, BehindOnLine
  <1>3. d \in Seq(Byte) /\ r \in Seq(Byte) /\ (r = <<>> \/ Error(r))
    BY DEF Coming
  <1>4. Error(r \o e)
    <2>1. CASE r = <<>>
      <3>1. r \o e = e
        BY <1>1, <2>1, ConcatEmptySeq
      <3> QED
        BY <3>1
    <2>2. CASE Error(r)
      BY <1>1, <2>2, ErrorMore
    <2> QED
      BY <1>3, <2>1, <2>2
  <1>5. Coming(d, r \o e)'
    BY <1>2, <1>3, <1>4 DEF Coming
  <1> QED
    BY <1>4, <1>5, ErrorIsMore

LEMMA BreakIsError == Error(Break) /\ Error(Framing)
  <1>1. Break \in Seq(Byte) /\ Len(Break) = 3 /\ Break[1] = "ff" /\ Break[2] = "00"
    BY DEF Break, Byte
  <1>2. Framing \in Seq(Byte) /\ Len(Framing) = 3 /\ Framing[1] = "ff" /\ Framing[2] = "00"
    BY DEF Framing, Byte
  <1> QED
    BY <1>1, <1>2 DEF Error

\* The same for what read will have.
LEMMA DataHeard ==
    ASSUME NEW b \in Byte, NEW g, NEW r, Heard(g, r), TypeOK,
           rx' = rx \o Escaped(b), ahead' = ahead, esc' = esc, got' = got
    PROVE  /\ g \in Seq(Byte) /\ Append(g, b) \in Seq(Byte)
           /\ r = <<>> => Heard(Append(g, b), <<>>)'
           /\ r # <<>> => \E q : q # <<>> /\ Heard(g, q)'
  <1>1. PICK d \in Seq(Byte) : Coming(d, r) /\ g = got \o d
    BY DEF Heard
  <1>2. got \in Seq(Byte)
    BY DEF Heard
  <1>3. g \in Seq(Byte) /\ Append(g, b) \in Seq(Byte)
    BY <1>1, <1>2, ConcatProperties, AppendProperties
  <1>4. Append(g, b) = got \o Append(d, b) /\ Append(d, b) \in Seq(Byte)
    <2>1. <<b>> \in Seq(Byte)
      OBVIOUS
    <2>2. (got \o d) \o <<b>> = got \o (d \o <<b>>)
      BY <1>2, <2>1, BytesAssociate
    <2>3. Append(g, b) = g \o <<b>> /\ Append(d, b) = d \o <<b>> /\ Append(d, b) \in Seq(Byte)
      BY <1>3, AppendIsConcat, AppendProperties
    <2> QED
      BY <1>1, <2>2, <2>3
  <1>5. /\ r = <<>> => Coming(Append(d, b), <<>>)'
        /\ r # <<>> => \E q : q # <<>> /\ Coming(d, q)'
    BY <1>1, DataComes
  <1> QED
    BY <1>1, <1>2, <1>3, <1>4, <1>5 DEF Heard

LEMMA ErrorHeard ==
    ASSUME NEW e, Error(e), NEW g, NEW r, Heard(g, r), TypeOK,
           rx' = rx \o e, ahead' = ahead, esc' = esc, got' = got
    PROVE  \E q : q # <<>> /\ Heard(g, q)'
  <1>1. PICK d \in Seq(Byte) : Coming(d, r) /\ g = got \o d
    BY DEF Heard
  <1>2. \E q : q # <<>> /\ Coming(d, q)'
    BY <1>1, ErrorComes
  <1> QED
    BY <1>1, <1>2 DEF Heard

-----------------------------------------------------------------------------
(* What read takes.                                                        *)

LEMMA OneByteLong == \A s \in Seq(Byte) : Len(s) = 1 => s = <<s[1]>> /\ s[1] \in Byte
  <1> TAKE s \in Seq(Byte)
  <1> HAVE Len(s) = 1
  <1>1. <<s[1]>> \in Seq(Byte) /\ Len(<<s[1]>>) = 1 /\ s[1] \in Byte
    BY ElementOfSeq
  <1>2. \A i \in 1 .. 1 : s[i] = <<s[1]>>[i]
    OBVIOUS
  <1>3. s = <<s[1]>>
    BY <1>1, <1>2, SeqEqual
  <1> QED
    BY <1>1, <1>3

LEMMA FirstByte ==
    ASSUME NEW x \in Byte, NEW t \in Seq(Byte)
    PROVE  /\ SubSeq(Cons(x, t), 1, 1) = <<x>>
           /\ SubSeq(Cons(x, t), 1 + 1, Len(Cons(x, t))) = t
           /\ Cons(x, t) \in Seq(Byte) /\ 1 \in 1 .. Len(Cons(x, t))
  <1> DEFINE s == Cons(x, t)
  <1>1. s \in Seq(Byte) /\ Len(s) = Len(t) + 1 /\ s[1] = x
    BY ConsProperties DEF Cons
  <1>2. Len(s) \in Nat /\ 1 \in 0 .. Len(s) /\ 1 \in 1 .. Len(s)
    BY <1>1, NoBytes
  <1> HIDE DEF s
  <1>3. /\ SubSeq(s, 1, 1) \in Seq(Byte) /\ Len(SubSeq(s, 1, 1)) = 1
        /\ SubSeq(s, 1 + 1, Len(s)) \in Seq(Byte)
        /\ SubSeq(s, 1, 1) \o SubSeq(s, 1 + 1, Len(s)) = s
        /\ SubSeq(s, 1, 1)[1] = x
    BY <1>1, <1>2, CutInTwo
  <1>4. SubSeq(s, 1, 1) = <<x>>
    BY <1>3, OneByteLong
  <1>5. Cons(x, SubSeq(s, 1 + 1, Len(s))) = Cons(x, t)
    BY <1>3, <1>4 DEF Cons, s
  <1>6. SubSeq(s, 1 + 1, Len(s)) = t
    <2>1. PICK u \in Seq(Byte) : u = SubSeq(s, 1 + 1, Len(s))
      BY <1>3
    <2>2. Cons(x, u) = Cons(x, t) /\ x \in Byte /\ t \in Seq(Byte) /\ u \in Seq(Byte)
      BY <1>5, <2>1
    <2>3. u = t
      BY ONLY <2>2, BytesEqual
    <2> QED
      BY <2>1, <2>3
  <1> QED
    BY <1>1, <1>2, <1>4, <1>6 DEF s

LEMMA BytesAre ==
    \A s \in Seq(Byte) : s # <<>> =>
        Head(s) \in Byte /\ Tail(s) \in Seq(Byte) /\ s = Cons(Head(s), Tail(s)) /\ Head(s) = s[1]
        /\ Len(s) = Len(Tail(s)) + 1
  BY HeadAndTail DEF Cons

\* read takes k bytes of what is there, at least one.
LEMMA ChunkTakes ==
    ASSUME TypeOK, Chunk
    PROVE  \E k \in 1 .. Len(ahead \o rx) :
            /\ k <= Size - Len(got)
            /\ got' = Scanned(At(got, esc), SubSeq(ahead \o rx, 1, k)).got
            /\ esc' = Scanned(At(got, esc), SubSeq(ahead \o rx, 1, k)).esc
            /\ ahead' \o rx' = SubSeq(ahead \o rx, k + 1, Len(ahead \o rx))
            /\ ahead' \in Seq(Byte) /\ rx' \in Seq(Byte) /\ (ahead = <<>> => ahead' = <<>>)
  <1>0. ahead \in Seq(Byte) /\ rx \in Seq(Byte)
    BY DEF TypeOK
  <1>1. CASE ahead # <<>>
    <2>1. PICK k \in 1 .. 1 :
          /\ k <= Size - Len(got)
          /\ got' = Scanned([got |-> got, esc |-> esc], SubSeq(ahead, 1, k)).got
          /\ esc' = Scanned([got |-> got, esc |-> esc], SubSeq(ahead, 1, k)).esc
          /\ ahead' = Tail(ahead) /\ rx' = rx
      BY <1>1 DEF Chunk
    <2>2. k = 1
      BY <2>1
    <2>3. PICK x \in Byte, t \in Seq(Byte) : ahead = Cons(x, t) /\ Tail(ahead) = t
      BY <1>0, <1>1, BytesAre
    <2>4. ahead \o rx = Cons(x, t \o rx) /\ t \o rx \in Seq(Byte)
      <3>1. <<x>> \in Seq(Byte) /\ t \in Seq(Byte) /\ rx \in Seq(Byte)
        BY <1>0
      <3>2. (<<x>> \o t) \o rx = <<x>> \o (t \o rx) /\ t \o rx \in Seq(Byte)
        BY ONLY <3>1, BytesAssociate, BytesConcat
      <3> QED
        BY <2>3, <3>2 DEF Cons
    <2>5. /\ SubSeq(ahead \o rx, 1, 1) = <<x>> /\ SubSeq(ahead, 1, 1) = <<x>>
          /\ SubSeq(ahead \o rx, 1 + 1, Len(ahead \o rx)) = t \o rx
          /\ 1 \in 1 .. Len(ahead \o rx)
      BY <2>3, <2>4, FirstByte
    <2> QED
      BY <1>0, <1>1, <2>1, <2>2, <2>3, <2>5 DEF At
  <1>2. CASE ahead = <<>>
    <2>1. PICK k \in 1 .. Len(rx) :
          /\ k <= Size - Len(got)
          /\ got' = Scanned([got |-> got, esc |-> esc], SubSeq(rx, 1, k)).got
          /\ esc' = Scanned([got |-> got, esc |-> esc], SubSeq(rx, 1, k)).esc
          /\ ahead' = ahead /\ rx' = SubSeq(rx, k + 1, Len(rx))
      BY <1>2 DEF Chunk
    <2>2. k \in 0 .. Len(rx)
      BY <1>0, NoBytes
    <2>3. ahead \o rx = rx /\ rx' \in Seq(Byte)
      BY <1>0, <1>2, <2>1, <2>2, NoBytes, CutInTwo
    <2>4. ahead' \o rx' = rx'
      BY <1>2, <2>1, <2>3, NoBytes
    <2> QED
      BY <1>0, <1>2, <2>1, <2>3, <2>4 DEF At
  <1> QED
    BY <1>1, <1>2

LEMMA ChunkHeard ==
    ASSUME TypeOK, Chunk, Size \in Nat, NEW g, NEW r, Heard(g, r)
    PROVE  /\ got' \in Seq(Byte) /\ ahead' \in Seq(Byte) /\ rx' \in Seq(Byte)
           /\ Len(got') <= Size /\ (esc' # "normal" => Len(got') < Size)
           /\ esc' \in {"normal", "escape", "error", "thrown"}
           /\ ahead = <<>> => ahead' = <<>>
           /\ esc' # "thrown" => Heard(g, r)'
  <1>1. PICK k \in 1 .. Len(ahead \o rx) :
            /\ k <= Size - Len(got)
            /\ got' = Scanned(At(got, esc), SubSeq(ahead \o rx, 1, k)).got
            /\ esc' = Scanned(At(got, esc), SubSeq(ahead \o rx, 1, k)).esc
            /\ ahead' \o rx' = SubSeq(ahead \o rx, k + 1, Len(ahead \o rx))
            /\ ahead' \in Seq(Byte) /\ rx' \in Seq(Byte) /\ (ahead = <<>> => ahead' = <<>>)
    BY ChunkTakes
  <1>2. PICK d \in Seq(Byte) : Coming(d, r) /\ g = got \o d
    BY DEF Heard
  <1>3. PICK all \in Seq(Byte) : all = ahead \o rx
    BY BytesConcat DEF TypeOK
  <1>4. got \in Seq(Byte) /\ esc \in ScanStates /\ Len(got) \in Nat
    BY NoBytes DEF TypeOK, Chunk, ScanStates
  <1>5. r \in Seq(Byte) /\ (r = <<>> \/ Error(r)) /\ Pending(esc) \o all = Spell(d) \o r
    BY <1>2, <1>3 DEF Coming
  <1>6. k \in 1 .. Len(all) /\ Len(all) \in Nat
    BY <1>1, <1>3, NoBytes
  <1>7. PICK h, c : /\ Scanned(At(got, esc), SubSeq(all, 1, k)) = At(h, c)
                    /\ Scanning(h, c, got, all, k, d, r)
    BY <1>4, <1>5, <1>6, ChunkReads
  <1>8. got' = h /\ esc' = c
    BY <1>1, <1>3, <1>7 DEF At
  <1>9. /\ h \in Seq(Byte) /\ Len(h) \in Nat /\ c \in {"normal", "escape", "error", "thrown"}
        /\ Len(h) <= Len(got) + k
        /\ k > 0 /\ c # "normal" => Len(h) < Len(got) + k
        /\ c # "thrown" => \E e \in Seq(Byte) :
                /\ h \o e = got \o d
                /\ Pending(c) \o SubSeq(all, k + 1, Len(all)) = Spell(e) \o r
    BY <1>7, NoBytes DEF Scanning, ScanStates
  <1>10. Len(h) <= Size /\ (c # "normal" => Len(h) < Size)
    BY <1>1, <1>4, <1>6, <1>9
  <1>11. ASSUME c # "thrown"
         PROVE  Heard(g, r)'
    <2>1. PICK e \in Seq(Byte) :
                /\ h \o e = got \o d
                /\ Pending(c) \o SubSeq(all, k + 1, Len(all)) = Spell(e) \o r
      BY <1>9, <1>11
    <2>2. Pending(esc') \o (ahead' \o rx') = Spell(e) \o r
      BY <1>1, <1>3, <1>8, <2>1
    <2>3. Coming(e, r)'
      BY <1>5, <2>2 DEF Coming
    <2> QED
      BY <1>2, <1>8, <1>9, <2>1, <2>3 DEF Heard
  <1> QED
    BY <1>1, <1>8, <1>9, <1>10, <1>11

\* In the middle of an escape there is more.
LEMMA EscapeGoesOn ==
    ASSUME NEW d, NEW r, Coming(d, r), esc \in ScanStates, ahead = <<>>, rx = <<>>
    PROVE  esc = "normal" /\ d = <<>> /\ r = <<>>
  <1>1. d \in Seq(Byte) /\ r \in Seq(Byte) /\ (r = <<>> \/ Error(r))
        /\ Pending(esc) \o <<>> = Spell(d) \o r
    BY NoBytes DEF Coming
  <1>2. "ff" \in Byte /\ "00" \in Byte /\ <<>> \in Seq(Byte) /\ Cons("00", <<>>) \in Seq(Byte)
    BY NoBytes, ConsIs DEF Byte
  <1>b. PICK z \in Seq(Byte) : z = <<>>
    BY <1>2
  <1>a. /\ Pending("normal") \o <<>> = <<>>
        /\ Pending("escape") \o <<>> = Cons("ff", <<>>)
        /\ Pending("error") \o <<>> = Cons("ff", Cons("00", <<>>))
    BY <1>2, PendingIs
  <1>3. CASE d = <<>>
    <2>1. Spell(d) \o r = r
      BY <1>1, <1>3, SpellEmpty, NoBytes
    <2>2. ASSUME r # <<>>
          PROVE  FALSE
      <3>1. PICK x \in Byte, q \in Seq(Byte) : r = Cons("ff", Cons("00", Cons(x, q)))
        BY <1>1, <2>2, ErrorHead
      <3>2. Cons(x, q) \in Seq(Byte) /\ Cons(x, q) # <<>> /\ Cons("00", Cons(x, q)) \in Seq(Byte) /\ Cons("00", Cons(x, q)) # <<>>
        BY <1>2, ConsIs
      <3>3. CASE esc = "normal"
        BY <1>1, <1>2, <2>1, <2>2, <3>3, <1>a
      <3>4. CASE esc = "escape"
        <4>1. Cons("ff", <<>>) = Cons("ff", Cons("00", Cons(x, q)))
          BY <1>1, <1>2, <2>1, <3>1, <3>4, <1>a
        <4>2. z = Cons("00", Cons(x, q))
          <5>1. Cons("ff", z) = Cons("ff", Cons("00", Cons(x, q)))
            BY <1>b, <4>1
          <5> QED
            BY <1>2, <3>2, <5>1, BytesEqual
        <4> QED
          BY <1>b, <3>2, <4>2
      <3>5. CASE esc = "error"
        <4>1. Cons("ff", Cons("00", <<>>)) = Cons("ff", Cons("00", Cons(x, q)))
          BY <1>1, <1>2, <2>1, <3>1, <3>5, <1>a
        <4>2. Cons("00", <<>>) = Cons("00", Cons(x, q))
          BY <1>2, <3>2, <4>1, BytesEqual
        <4>3. z = Cons(x, q)
          <5>1. Cons("00", z) = Cons("00", Cons(x, q))
            BY <1>b, <4>2
          <5> QED
            BY <1>2, <3>2, <5>1, BytesEqual
        <4> QED
          BY <1>b, <3>2, <4>3
      <3> QED
        BY <3>3, <3>4, <3>5 DEF ScanStates
    <2>3. r = <<>>
      BY <2>2
    <2>4. esc = "normal"
      <3>1. Pending(esc) \o <<>> = <<>>
        BY <1>1, <2>1, <2>3
      <3>2. Cons("ff", <<>>) # <<>> /\ Cons("ff", Cons("00", <<>>)) # <<>>
        BY <1>2, ConsIs
      <3> QED
        BY <1>2, <3>1, <3>2, <1>a DEF ScanStates
    <2> QED
      BY <1>3, <2>3, <2>4
  <1>4. CASE d # <<>>
    <2> DEFINE tail == Spell(Tail(d)) \o r
    <2>1. /\ tail \in Seq(Byte) /\ d[1] \in Byte
          /\ d[1] # "ff" => Spell(d) \o r = Cons(d[1], tail)
          /\ d[1] = "ff" => Spell(d) \o r = Cons("ff", Cons("ff", tail))
      BY <1>1, <1>4, SpellHead
    <2> HIDE DEF tail
    <2>2. Cons("ff", tail) \in Seq(Byte) /\ Cons("ff", tail) # <<>>
      BY <1>2, <2>1, ConsIs
    <2>3. PICK x \in Byte, q \in Seq(Byte) :
            Spell(d) \o r = Cons(x, q) /\ (x = "ff" => q = Cons("ff", tail))
      BY <1>2, <2>1, <2>2
    <2>4. Pending(esc) \o <<>> = Cons(x, q)
      BY <1>1, <2>3
    <2>5. CASE esc = "normal"
      BY <1>2, <2>4, <2>5, <1>a, ConsIs
    <2>6. CASE esc = "escape"
      <3>1. Cons("ff", <<>>) = Cons(x, q)
        BY <1>2, <2>4, <2>6, <1>a
      <3>2. x = "ff" /\ q = <<>>
        BY <1>2, <3>1, BytesEqual
      <3> QED
        BY <2>2, <2>3, <3>2
    <2>7. CASE esc = "error"
      <3>1. Cons("ff", Cons("00", <<>>)) = Cons(x, q)
        BY <1>2, <2>4, <2>7, <1>a
      <3>2. x = "ff" /\ q = Cons("00", <<>>)
        BY <1>2, <3>1, BytesEqual
      <3>3. Cons("00", <<>>) = Cons("ff", tail)
        BY <2>3, <3>2
      <3> QED
        BY <1>2, <2>1, <3>3, BytesEqual
    <2> QED
      BY <2>5, <2>6, <2>7 DEF ScanStates
  <1> QED
    BY <1>3, <1>4

-----------------------------------------------------------------------------
(* What error() takes.                                                     *)

\* An error is found.
LEMMA PeekAtError ==
    ASSUME rx \in Seq(Byte), Error(rx)
    PROVE  Available /\ Peeked \in Seq(Byte) /\ Len(Peeked) = 3 /\ 3 \in 0 .. Len(rx)
  <1>1. /\ Len(rx) \in Nat /\ Len(rx) >= 3 /\ rx # <<>> /\ rx[1] = "ff" /\ rx[2] = "00" /\ Head(rx) = rx[1]
    BY NoBytes, ErrorIsMore, BytesAre DEF Error
  <1>2. Peeked = SubSeq(rx, 1, 3)
    BY <1>1 DEF Peeked
  <1>3. 3 \in 0 .. Len(rx)
    BY <1>1
  <1> QED
    BY <1>1, <1>2, <1>3, CutInTwo DEF Available

\* An acknowledge is read ahead.
LEMMA PeekAtAck ==
    ASSUME NEW r \in Seq(Byte), rx = Cons("ff", Cons("ff", r))
    PROVE  /\ Available /\ Peeked = <<"ff", "ff">> /\ Len(Peeked) = 2 /\ 2 \in 0 .. Len(rx)
           /\ SubSeq(rx, Len(Peeked) + 1, Len(rx)) = r
  <1>1. "ff" \in Byte /\ Cons("ff", r) \in Seq(Byte) /\ rx \in Seq(Byte)
    BY ConsIs DEF Byte
  <1>2. rx # <<>> /\ Len(rx) = Len(r) + 2 /\ rx[1] = "ff" /\ rx[2] = "ff" /\ Head(rx) = "ff"
        /\ Len(r) \in Nat
    <2>1. Len(Cons("ff", r)) = Len(r) + 1 /\ Cons("ff", r)[1] = "ff" /\ Len(r) \in Nat
      BY <1>1, ConsProperties, NoBytes DEF Cons
    <2>2. rx # <<>> /\ Len(rx) = Len(Cons("ff", r)) + 1 /\ rx[1] = "ff" /\ Head(rx) = "ff" /\ Tail(rx) = Cons("ff", r)
      BY <1>1, ConsProperties DEF Cons
    <2>3. rx[2] = Tail(rx)[1]
      <3>1. \A i \in 1 .. Len(Tail(rx)) : Tail(rx)[i] = rx[i + 1]
        BY <1>1, <2>2, HeadTailProperties
      <3>2. 1 \in 1 .. Len(Tail(rx)) /\ 1 + 1 = 2
        BY <2>1, <2>2
      <3> QED
        BY <3>1, <3>2
    <2> QED
      BY <2>1, <2>2, <2>3
  <1>3. 2 \in 0 .. Len(rx)
    BY <1>2
  <1>4. Peeked = SubSeq(rx, 1, 2)
    BY <1>2 DEF Peeked
  <1>5. /\ Peeked \in Seq(Byte) /\ Len(Peeked) = 2
        /\ SubSeq(rx, 2 + 1, Len(rx)) \in Seq(Byte)
        /\ Peeked \o SubSeq(rx, 2 + 1, Len(rx)) = rx
        /\ Peeked[1] = "ff" /\ Peeked[2] = "ff"
    BY <1>1, <1>2, <1>3, <1>4, CutInTwo
  <1>6. Peeked = <<"ff", "ff">>
    <2>1. <<"ff", "ff">> \in Seq(Byte) /\ Len(<<"ff", "ff">>) = 2
      BY <1>1
    <2>2. \A i \in 1 .. 2 : Peeked[i] = <<"ff", "ff">>[i]
      BY <1>5
    <2> QED
      BY <1>5, <2>1, <2>2, SeqEqual
  <1>7. <<"ff", "ff">> \o r = rx
    <2>1. <<"ff">> \in Seq(Byte) /\ <<"ff", "ff">> = <<"ff">> \o <<"ff">>
      BY <1>1
    <2>2. (<<"ff">> \o <<"ff">>) \o r = <<"ff">> \o (<<"ff">> \o r)
      BY <2>1, BytesAssociate
    <2> QED
      BY <2>1, <2>2 DEF Cons
  <1>8. SubSeq(rx, 2 + 1, Len(rx)) = r
    <2>1. <<"ff", "ff">> \in Seq(Byte)
      BY <1>1
    <2>2. <<"ff", "ff">> \o SubSeq(rx, 2 + 1, Len(rx)) = <<"ff", "ff">> \o r
      BY <1>5, <1>6, <1>7
    <2> QED
      BY <1>5, <2>1, <2>2, ConcatSimplifications
  <1> QED
    BY <1>2, <1>3, <1>5, <1>6, <1>8 DEF Available

LEMMA PeekTypes ==
    ASSUME NEW e, Peek(e), rx \in Seq(Byte), ahead \in Seq(Byte),
           Available => Peeked \in Seq(Byte) /\ Len(Peeked) \in 0 .. Len(rx)
    PROVE  rx' \in Seq(Byte) /\ ahead' \in Seq(Byte)
  <1>1. CASE ~Available /\ ~e /\ UNCHANGED <<rx, ahead>>
    BY <1>1
  <1>2. CASE Available
    <2>1. PICK p \in Seq(Byte) : p = Peeked /\ Len(p) \in 0 .. Len(rx)
      BY <1>2
    <2>2. CASE UNCHANGED <<rx, ahead>>
      BY <2>2
    <2>3. CASE /\ rx' = SubSeq(rx, Len(p) + 1, Len(rx))
               /\ \E old \in [1 .. Len(ahead) -> Byte] :
                    ahead' = [i \in 1 .. Len(ahead) + Len(p) |->
                        IF i <= Len(p) THEN p[i]
                        ELSE IF i <= Len(ahead) THEN ahead[i]
                        ELSE old[i - Len(p)]]
      <3>1. rx' \in Seq(Byte)
        BY <2>1, <2>3, CutInTwo
      <3>2. PICK old \in [1 .. Len(ahead) -> Byte] :
                    ahead' = [i \in 1 .. Len(ahead) + Len(p) |->
                        IF i <= Len(p) THEN p[i]
                        ELSE IF i <= Len(ahead) THEN ahead[i]
                        ELSE old[i - Len(p)]]
        BY <2>3
      <3>3. Len(ahead) \in Nat /\ Len(p) \in Nat /\ Len(ahead) + Len(p) \in Nat
        BY NoBytes
      <3>4. /\ \A i \in 1 .. Len(p) : p[i] \in Byte
            /\ \A i \in 1 .. Len(ahead) : ahead[i] \in Byte
        BY ElementOfSeq
      <3>5. ASSUME NEW i \in 1 .. Len(ahead) + Len(p)
            PROVE  (IF i <= Len(p) THEN p[i] ELSE IF i <= Len(ahead) THEN ahead[i] ELSE old[i - Len(p)]) \in Byte
        <4>1. CASE i <= Len(p)
          BY <3>3, <3>4, <4>1
        <4>2. CASE ~(i <= Len(p))
          <5>1. i - Len(p) \in 1 .. Len(ahead) /\ i \in Nat /\ i >= 1
            BY <3>3, <4>2
          <5>2. old[i - Len(p)] \in Byte
            BY <5>1
          <5>3. CASE i <= Len(ahead)
            <6>1. i \in 1 .. Len(ahead)
              BY <3>3, <5>1, <5>3
            <6> QED
              BY <3>4, <4>2, <5>3, <6>1
          <5> QED
            BY <4>2, <5>2, <5>3
        <4> QED
          BY <4>1, <4>2
      <3>6. ahead' \in [1 .. Len(ahead) + Len(p) -> Byte]
        BY <3>2, <3>5
      <3> QED
        BY <3>1, <3>3, <3>6, SeqDef
    <2> QED
      BY <1>2, <2>1, <2>2, <2>3 DEF Peek
  <1> QED
    BY <1>1, <1>2 DEF Peek

\* error() on a link with nothing but an acknowledge before an error: it finds
\* the error, or keeps the acknowledge.
LEMMA PeekKeeps ==
    ASSUME NEW e \in BOOLEAN, Peek(e), TypeOK, NEW d, NEW r, Coming(d, r),
           esc = "normal", esc' = esc, Buffered(d), d = <<>> \/ d = <<"ff">>
    PROVE  /\ rx' \in Seq(Byte) /\ ahead' \in Seq(Byte)
           /\ e => r # <<>>
           /\ ~e => Coming(d, r)' /\ Buffered(d)'
  <1>1. /\ rx \in Seq(Byte) /\ ahead \in Seq(Byte) /\ d \in Seq(Byte) /\ r \in Seq(Byte)
        /\ (r = <<>> \/ Error(r)) /\ Pending(esc) \o (ahead \o rx) = Spell(d) \o r
    BY DEF Coming, TypeOK
  <1>2. ahead \o rx \in Seq(Byte) /\ "ff" \in Byte
    BY <1>1, BytesConcat DEF Byte
  <1>3. ahead \o rx = Spell(d) \o r
    BY <1>1, <1>2, PendingIs
  <1>4. CASE ahead \in {<<>>, <<"ff", "ff">>} /\ rx = r
    <2>1. CASE r = <<>>
      BY <1>1, <1>4, <2>1 DEF Peek, Available, Coming, Buffered
    <2>2. CASE r # <<>>
      <3>1. Available /\ Peeked \in Seq(Byte) /\ Len(Peeked) = 3 /\ 3 \in 0 .. Len(rx)
        BY <1>1, <1>4, <2>2, PeekAtError
      <3>2. e = TRUE
        BY <3>1 DEF Peek
      <3>3. rx' \in Seq(Byte) /\ ahead' \in Seq(Byte)
        BY <1>1, <3>1, PeekTypes
      <3> QED
        BY <2>2, <3>2, <3>3
    <2> QED
      BY <2>1, <2>2
  <1>5. CASE d = <<>>
    <2>1. ahead = <<>> /\ Spell(d) \o r = r
      BY <1>1, <1>5, NoBytes, SpellEmpty DEF Buffered
    <2> QED
      BY <1>1, <1>3, <1>4, <2>1, NoBytes
  <1>6. CASE d = <<"ff">>
    <2>1. Spell(d) = <<"ff", "ff">> /\ Spell(d) \o r = Cons("ff", Cons("ff", r))
      <3>1. d # <<>> /\ d[1] = "ff" /\ Tail(d) = <<>>
        BY <1>6
      <3>2. Spell(d) \o r = Cons("ff", Cons("ff", Spell(Tail(d)) \o r))
        BY <1>1, <3>1, SpellHead
      <3>3. Spell(Tail(d)) \o r = r
        BY <1>1, <3>1, SpellEmpty, NoBytes
      <3>4. d = Append(<<>>, "ff") /\ <<>> \in Seq(Byte)
        BY <1>6, NoBytes
      <3>5. Spell(d) = Spell(<<>>) \o Escaped("ff")
        BY <1>2, <3>4, SpellAppend
      <3>6. Escaped("ff") = <<"ff", "ff">> /\ Escaped("ff") \in Seq(Byte)
        BY <1>2, OneByte DEF Escaped
      <3>7. Spell(d) = <<"ff", "ff">>
        BY <3>5, <3>6, SpellEmpty, NoBytes
      <3> QED
        BY <3>2, <3>3, <3>7
    <2>2. CASE ahead = <<"ff", "ff">>
      <3>1. <<"ff", "ff">> \o rx = <<"ff", "ff">> \o r
        BY <1>3, <2>1, <2>2
      <3>2. rx = r
        BY <1>1, <2>2, <3>1, ConcatSimplifications
      <3> QED
        BY <1>4, <2>2, <3>2
    <2>3. CASE ahead = <<>>
      <3>1. rx = Cons("ff", Cons("ff", r))
        BY <1>1, <1>3, <2>1, <2>3, NoBytes
      <3>2. /\ Available /\ Peeked = <<"ff", "ff">> /\ Len(Peeked) = 2 /\ 2 \in 0 .. Len(rx)
            /\ SubSeq(rx, Len(Peeked) + 1, Len(rx)) = r
        BY <1>1, <3>1, PeekAtAck
      <3>3. e = FALSE
        BY <3>2 DEF Peek
      <3>4. rx' = r
        BY <3>2 DEF Peek
      <3>5. ahead' = <<"ff", "ff">>
        <4>1. Len(ahead) = 0
          BY <2>3, NoBytes
        <4>2. ahead' = [i \in 1 .. 2 |-> IF i <= 2 THEN Peeked[i] ELSE ahead'[i]]
          BY <3>2, <4>1 DEF Peek
        <4>3. ahead' = [i \in 1 .. 2 |-> Peeked[i]]
          BY <4>2
        <4> QED
          BY <3>2, <4>3
      <3>6. Pending(esc') \o (ahead' \o rx') = Spell(d) \o r
        <4>1. ahead' \o rx' = ahead \o rx
          BY <1>3, <2>1, <3>4, <3>5
        <4> QED
          BY <1>1, <4>1
      <3>7. ahead' \in Seq(Byte)
        BY <1>2, <3>5
      <3> QED
        BY <1>1, <1>6, <3>3, <3>4, <3>5, <3>6, <3>7 DEF Coming, Buffered
    <2> QED
      BY <1>6, <2>2, <2>3 DEF Buffered
  <1> QED
    BY <1>5, <1>6

-----------------------------------------------------------------------------
(* The commands.                                                           *)

LEMMA FlatEmpty == FlattenSeq(<<>>) = <<>>
  <1>1. Len(<<>>) = 0
    BY EmptySeq
  <1> QED
    BY <1>1 DEF FlattenSeq

LEMMA FlatOne == \A a \in Seq(Byte) : FlattenSeq(<<a>>) = a
  <1> TAKE a \in Seq(Byte)
  <1>1. <<a>> = Append(<<>>, a) /\ <<>> \in Seq(Seq(Byte))
    BY EmptySeq
  <1>2. FlattenSeq(Append(<<>>, a)) = FlattenSeq(<<>>) \o a
    BY <1>1, FlattenSeqAppend
  <1> QED
    BY <1>1, <1>2, FlatEmpty, NoBytes

LEMMA FlatTwo == \A a, b \in Seq(Byte) : FlattenSeq(<<a, b>>) = a \o b
  <1> TAKE a, b \in Seq(Byte)
  <1>1. <<a, b>> = Append(<<a>>, b) /\ <<a>> \in Seq(Seq(Byte))
    OBVIOUS
  <1>2. FlattenSeq(Append(<<a>>, b)) = FlattenSeq(<<a>>) \o b
    BY <1>1, FlattenSeqAppend
  <1> QED
    BY <1>1, <1>2, FlatOne

\* What the device is to execute for a command.
LEMMA WholeIs == \A f \in Jobs : Whole(f.name) = FlattenSeq(f.writes)
  <1> TAKE f \in Jobs
  <1>1. (CHOOSE j \in Jobs : j.name = f.name) = f
    BY SerialAssumption
  <1> QED
    BY <1>1 DEF Whole

LEMMA Kinds ==
    \A f \in Jobs : f.name # "ack" => IsRead(f) \/ IsGo(f) \/ \E b \in Byte : IsWrite(f, b) \/ IsSplit(f, b)
  <1> SUFFICES ASSUME NEW f \in Jobs, f.name # "ack"
               PROVE  IsRead(f) \/ IsGo(f) \/ \E b \in Byte : IsWrite(f, b) \/ IsSplit(f, b)
    OBVIOUS
  <1>0. "rd" \in Byte /\ "go" \in Byte /\ "wr" \in Byte
    BY DEF Byte
  <1>1. CASE f.writes = <<<<"rd">>>> /\ f.size \in Nat \ {0} /\ \A a \in Answers : Len(a) = f.size
    <2>1. <<"rd">> \in Seq(Byte)
      BY <1>0
    <2>2. Whole(f.name) = <<"rd">>
      BY <1>1, <2>1, WholeIs, FlatOne
    <2> QED
      BY <1>1, <2>2 DEF IsRead
  <1>2. CASE f.writes = <<<<"go">>>> /\ f.size = 0
    <2>1. <<"go">> \in Seq(Byte)
      BY <1>0
    <2>2. Whole(f.name) = <<"go">>
      BY <1>2, <2>1, WholeIs, FlatOne
    <2> QED
      BY <1>2, <2>2 DEF IsGo
  <1>3. ASSUME NEW b \in Byte, f.writes = <<<<"wr", b>>>>, f.size = 0
        PROVE  IsWrite(f, b)
    <2>1. <<"wr", b>> \in Seq(Byte)
      BY <1>0
    <2>2. Whole(f.name) = <<"wr", b>>
      BY <1>3, <2>1, WholeIs, FlatOne
    <2> QED
      BY <1>3, <2>2 DEF IsWrite
  <1>4. ASSUME NEW b \in Byte, f.writes = <<<<"wr">>, <<b>>>>, f.size = 0
        PROVE  IsSplit(f, b)
    <2>1. <<"wr">> \in Seq(Byte) /\ <<b>> \in Seq(Byte)
      BY <1>0
    <2>2. FlattenSeq(<<<<"wr">>, <<b>>>>) = <<"wr">> \o <<b>>
      BY <2>1, FlatTwo
    <2>3. Whole(f.name) = <<"wr", b>>
      BY <1>4, <2>2, WholeIs
    <2> QED
      BY <1>4, <2>3 DEF IsSplit
  <1> QED
    BY <1>1, <1>2, <1>3, <1>4, SerialAssumption

LEMMA JobParts ==
    \A f \in Jobs :
        /\ f = Part(f, f.writes) /\ f.name \notin {"none", "reset", "nothing", "garbled"}
        /\ f.name = "ack" => f.writes = <<>> /\ f.size = 1 /\ ~f.fresh
        /\ \A g \in Jobs : f.name = g.name => f = g
  BY SerialAssumption DEF Part

\* The first write begins with a command; of two writes, the second is one byte.
LEMMA FirstWrite ==
    \A f \in Jobs : f.name # "ack" =>
        /\ Len(f.writes) \in {1, 2} /\ f.writes # <<>> /\ Head(f.writes) = f.writes[1]
        /\ f.writes[1] \in Seq(Byte) /\ f.writes[1] # <<>> /\ Len(f.writes[1]) \in {1, 2}
        /\ f.writes[1][1] \in {"rd", "go", "wr"} /\ f.writes[1] # Sync
        /\ Tail(f.writes) = IF Len(f.writes) = 1 THEN <<>> ELSE <<f.writes[2]>>
        /\ Len(f.writes) = 2 => f.writes[2] \in Seq(Byte) /\ Len(f.writes[2]) = 1 /\ f.size = 0
  <1> SUFFICES ASSUME NEW f \in Jobs, f.name # "ack"
               PROVE
        /\ Len(f.writes) \in {1, 2} /\ f.writes # <<>> /\ Head(f.writes) = f.writes[1]
        /\ f.writes[1] \in Seq(Byte) /\ f.writes[1] # <<>> /\ Len(f.writes[1]) \in {1, 2}
        /\ f.writes[1][1] \in {"rd", "go", "wr"} /\ f.writes[1] # Sync
        /\ Tail(f.writes) = IF Len(f.writes) = 1 THEN <<>> ELSE <<f.writes[2]>>
        /\ Len(f.writes) = 2 => f.writes[2] \in Seq(Byte) /\ Len(f.writes[2]) = 1 /\ f.size = 0
    OBVIOUS
  <1>1. CASE IsRead(f)
    BY <1>1 DEF IsRead, Byte, Sync
  <1>2. CASE IsGo(f)
    BY <1>2 DEF IsGo, Byte, Sync
  <1>3. ASSUME NEW b \in Byte, IsWrite(f, b)
        PROVE
        /\ Len(f.writes) \in {1, 2} /\ f.writes # <<>> /\ Head(f.writes) = f.writes[1]
        /\ f.writes[1] \in Seq(Byte) /\ f.writes[1] # <<>> /\ Len(f.writes[1]) \in {1, 2}
        /\ f.writes[1][1] \in {"rd", "go", "wr"} /\ f.writes[1] # Sync
        /\ Tail(f.writes) = IF Len(f.writes) = 1 THEN <<>> ELSE <<f.writes[2]>>
        /\ Len(f.writes) = 2 => f.writes[2] \in Seq(Byte) /\ Len(f.writes[2]) = 1 /\ f.size = 0
    <2>1. "wr" \in Byte /\ f.writes = <<<<"wr", b>>>>
      BY <1>3 DEF IsWrite, Byte
    <2> QED
      BY <2>1 DEF Sync
  <1>4. ASSUME NEW b \in Byte, IsSplit(f, b)
        PROVE
        /\ Len(f.writes) \in {1, 2} /\ f.writes # <<>> /\ Head(f.writes) = f.writes[1]
        /\ f.writes[1] \in Seq(Byte) /\ f.writes[1] # <<>> /\ Len(f.writes[1]) \in {1, 2}
        /\ f.writes[1][1] \in {"rd", "go", "wr"} /\ f.writes[1] # Sync
        /\ Tail(f.writes) = IF Len(f.writes) = 1 THEN <<>> ELSE <<f.writes[2]>>
        /\ Len(f.writes) = 2 => f.writes[2] \in Seq(Byte) /\ Len(f.writes[2]) = 1 /\ f.size = 0
    <2>1. "wr" \in Byte /\ f.writes = <<<<"wr">>, <<b>>>> /\ f.size = 0
      BY <1>4 DEF IsSplit, Byte
    <2> QED
      BY <2>1 DEF Sync
  <1> QED
    BY <1>1, <1>2, <1>3, <1>4, Kinds

-----------------------------------------------------------------------------
(* An error comes on the line.                                             *)

\* The host does nothing meanwhile.
Aside == UNCHANGED <<ahead, up, pc, calls, got, esc, job, last>>

\* An error arrives; the device may have reset itself.
ErrorStep ==
    /\ Aside /\ UNCHANGED <<tx, running, ran, answer>>
    /\ owed' \in {owed, <<>>} /\ dev' \in {dev, "deaf"}
    /\ dev = "arg" /\ tx = <<>> => running

LEMMA SettledAtError == ErrorStep => \A x, r, q : q # <<>> /\ Settled(x, r) => Settled(x, q)'
  BY DEF ErrorStep, Settled, AtMostAck, Hears

LEMMA FoulAtError == \A w, g, r, q : Foul(w, g, r) /\ q # <<>> => Foul(w, g, q)
  BY DEF Foul

LEMMA AnsweringAtError ==
    ASSUME ErrorStep, NEW g \in Seq(Byte), NEW r, NEW q, q # <<>>, Answering(g, r), owed \in Seq(Byte),
           job.size \in Nat
    PROVE  Answering(g, q)'
  <1>1. /\ tx = <<>> /\ ahead = <<>> /\ ran = <<Whole(last)>>
        /\ (tx = <<>> /\ ahead = <<>> /\ ran = <<Whole(last)>>)'
        /\ job' = job /\ answer' = answer /\ running' = running
    BY DEF Answering, ErrorStep, Aside
  <1>2. /\ Len(g) \in Nat /\ Len(owed) \in Nat /\ Len(owed') \in Nat /\ Len(owed') <= Len(owed)
        /\ (owed # <<>> => Len(owed) > 0)
    BY NoBytes DEF ErrorStep
  <1>3. CASE r = <<>> /\ dev = "ready" /\ owed # <<>> /\ g \o owed = answer /\ Len(answer) = job.size
    <2>1. Len(g) + Len(owed) = job.size
      BY <1>3, BytesConcat
    <2>2. Len(g) < job'.size
      BY <1>1, <1>2, <1>3, <2>1
    <2> QED
      BY <1>1, <2>2 DEF Answering
  <1>4. CASE Len(answer) = job.size /\ \E x \in {<<>>, <<"ff">>} : g = answer \o x /\ Settled(x, r)
    <2>1. \E x \in {<<>>, <<"ff">>} : g = answer \o x /\ Settled(x, q)'
      BY <1>4, SettledAtError
    <2> QED
      BY <1>1, <1>4, <2>1 DEF Answering
  <1>5. CASE Len(g) + Len(owed) < job.size /\ ~running
    <2>1. Len(g) + Len(owed') < job'.size /\ ~running'
      BY <1>1, <1>2, <1>5
    <2> QED
      BY <1>1, <2>1 DEF Answering
  <1>6. CASE r # <<>> /\ Len(g) < job.size
    BY <1>1, <1>6 DEF Answering
  <1> QED
    BY <1>3, <1>4, <1>5, <1>6 DEF Answering

LEMMA SyncAtError ==
    ASSUME ErrorStep, NEW g, NEW r, NEW q, q # <<>>, EchoSync(g, r)
    PROVE  Foul(Sync, g, q) \/ EchoSync(g, q)'
  <1>1. ahead = <<>> /\ ran = <<>> /\ ahead' = <<>> /\ ran' = <<>>
    BY DEF EchoSync, ErrorStep, Aside
  <1>2. CASE g = <<>>
    BY <1>2 DEF Foul, Sync
  <1>3. CASE \E x \in {<<>>, <<"ff">>} : g = Sync \o x /\ Settled(x, r)
    <2>1. \E x \in {<<>>, <<"ff">>} : g = Sync \o x /\ Settled(x, q)'
      BY <1>3, SettledAtError
    <2> QED
      BY <1>1, <2>1 DEF EchoSync
  <1> QED
    BY <1>2, <1>3 DEF EchoSync

LEMMA FirstAtError ==
    ASSUME ErrorStep, NEW f, Command(f), NEW g, NEW r, NEW q, q # <<>>, EchoFirst(f, g, r),
           owed \in Seq(Byte), job.size \in Nat
    PROVE  Foul(f.writes[1], g, q) \/ EchoFirst(f, g, q)'
  <1> DEFINE w == f.writes[1]
  <1>0. f \in Jobs /\ f.name # "ack" /\ w \in Seq(Byte) /\ Len(w) \in {1, 2}
    BY FirstWrite DEF Command
  <1>1. ahead = <<>> /\ ahead' = <<>> /\ last' = last
    BY DEF EchoFirst, ErrorStep, Aside
  <1>2. CASE g = <<>>
    <2>1. Len(<<>>) < Len(w)
      <3>1. CASE Len(w) = 1
        BY <3>1
      <3>2. CASE Len(w) = 2
        BY <3>2
      <3> QED
        BY <1>0, <3>1, <3>2
    <2> QED
      BY <1>2, <2>1 DEF Foul
  <1>3. CASE Len(w) = 2 /\ g = <<"wr">>
    <2>1. Len(g) < Len(w)
      BY <1>3
    <2> QED
      BY <2>1 DEF Foul
  <1>4. CASE dev = "arg" /\ Len(f.writes) = 2 /\ tx = <<>>
    BY <1>4 DEF Command, ErrorStep
  <1>5. CASE f.size > 0 /\ \E x \in Seq(Byte) : g = w \o x /\ Answering(x, r)
    <2>1. \E x \in Seq(Byte) : g = w \o x /\ Answering(x, q)'
      BY <1>5, AnsweringAtError
    <2> QED
      BY <1>1, <1>5, <2>1 DEF EchoFirst
  <1>6. CASE /\ f.size = 0 /\ Len(f.writes) = 1 /\ ran = <<Whole(last)>>
             /\ \E x \in {<<>>, <<"ff">>} : g = w \o x /\ Settled(x, r)
    <2>1. \E x \in {<<>>, <<"ff">>} : g = w \o x /\ Settled(x, q)'
      BY <1>6, SettledAtError
    <2>2. ran' = <<Whole(last')>>
      BY <1>1, <1>6 DEF ErrorStep
    <2> QED
      BY <1>1, <1>6, <2>1, <2>2 DEF EchoFirst
  <1> QED
    BY <1>2, <1>3, <1>4, <1>5, <1>6 DEF EchoFirst

LEMMA SecondAtError ==
    ASSUME ErrorStep, NEW f, Command(f), Len(f.writes) = 2, NEW g, NEW r, NEW q, q # <<>>, EchoSecond(f, g, r)
    PROVE  Foul(f.writes[2], g, q) \/ EchoSecond(f, g, q)'
  <1> DEFINE w == f.writes[2]
  <1>0. f \in Jobs /\ f.name # "ack" /\ w \in Seq(Byte) /\ Len(w) = 1
    BY FirstWrite DEF Command
  <1>1. ahead = <<>> /\ ahead' = <<>> /\ last' = last
    BY DEF EchoSecond, ErrorStep, Aside
  <1>2. CASE g = <<>>
    <2>1. Len(g) < Len(w)
      BY <1>0, <1>2
    <2> QED
      BY <2>1 DEF Foul
  <1>6. CASE ran = <<Whole(last)>> /\ \E x \in {<<>>, <<"ff">>} : g = w \o x /\ Settled(x, r)
    <2>1. \E x \in {<<>>, <<"ff">>} : g = w \o x /\ Settled(x, q)'
      BY <1>6, SettledAtError
    <2>2. ran' = <<Whole(last')>>
      BY <1>1, <1>6 DEF ErrorStep
    <2> QED
      BY <1>1, <1>6, <2>1, <2>2 DEF EchoSecond
  <1> QED
    BY <1>2, <1>6 DEF EchoSecond

\* The program does not start meanwhile.
Calm == Aside /\ (running' => running)

LEMMA CalmCommand == Calm => \A f : Command(f) => Command(f)'
  BY DEF Calm, Aside, Command

LEMMA CalmWrites == Aside => \A f : (First(f) => First(f)') /\ (Second(f) => Second(f)')
  BY DEF Aside, First, Second

LEMMA CalmNested == Calm /\ Nested => Nested'
  <1> SUFFICES ASSUME Calm, Nested
               PROVE  Nested'
    OBVIOUS
  <1>1. calls' = calls /\ job' = job
    BY DEF Calm, Aside
  <1>2. PICK n \in 0 .. Len(calls) :
        /\ \A i \in 1 .. n : calls[i] = Sync
        /\ \/ n = Len(calls) /\ (job = ResetJob \/ Command(job))
           \/ /\ n + 1 = Len(calls)
              /\ \E f \in Jobs : /\ Command(f) /\ calls[n + 1] = f.writes[1]
                                 /\ job = Part(f, Tail(f.writes))
    BY DEF Nested
  <1>3. \A f : Command(f) => Command(f)'
    BY CalmCommand
  <1>4. Command(job) => Command(job)'
    BY <1>1 DEF Calm, Command
  <1>5. \/ n = Len(calls') /\ (job' = ResetJob \/ Command(job)')
        \/ /\ n + 1 = Len(calls')
           /\ \E f \in Jobs : /\ Command(f)' /\ calls'[n + 1] = f.writes[1]
                              /\ job' = Part(f, Tail(f.writes))
    BY <1>1, <1>2, <1>3, <1>4
  <1>6. n \in 0 .. Len(calls') /\ \A i \in 1 .. n : calls'[i] = Sync
    BY <1>1, <1>2
  <1> QED
    BY <1>5, <1>6 DEF Nested

LEMMA SizeOfJob ==
    /\ \A f \in Jobs : f.size \in Nat
    /\ \A f, w : Part(f, w).size = f.size /\ Part(f, w).name = f.name /\ Part(f, w).writes = w
  <1>1. \A f \in Jobs : f.size \in Nat
    BY JobParts, Kinds DEF IsRead, IsGo, IsWrite, IsSplit
  <1> QED
    BY <1>1 DEF Part

LEMMA EchoAtError ==
    ASSUME ErrorStep, Calm, owed \in Seq(Byte), calls # <<>>, NEW g, NEW r, NEW q, q # <<>>, Echo(g, r)
    PROVE  Echo(g, q)'
  <1>0. calls' = calls
    BY DEF Calm, Aside
  <1>1. CASE Head(calls) = Sync /\ Nested /\ (Foul(Sync, g, r) \/ EchoSync(g, r))
    <2>1. Foul(Sync, g, q) \/ EchoSync(g, q)'
      BY <1>1, FoulAtError, SyncAtError
    <2> QED
      BY <1>0, <1>1, <2>1, CalmNested DEF Echo
  <1>2. ASSUME NEW f \in Jobs, Command(f), First(f), Foul(f.writes[1], g, r) \/ EchoFirst(f, g, r)
        PROVE  Echo(g, q)'
    <2>1. job.size \in Nat
      BY <1>2, SizeOfJob DEF First
    <2>2. Foul(f.writes[1], g, q) \/ EchoFirst(f, g, q)'
      BY <1>2, <2>1, FoulAtError, FirstAtError
    <2>3. Command(f)' /\ First(f)'
      BY <1>2, CalmCommand, CalmWrites DEF Calm
    <2> QED
      BY <2>2, <2>3 DEF Echo
  <1>3. ASSUME NEW f \in Jobs, Command(f), Second(f), Foul(f.writes[2], g, r) \/ EchoSecond(f, g, r)
        PROVE  Echo(g, q)'
    <2>1. Len(f.writes) = 2
      BY <1>3 DEF Second
    <2>2. Foul(f.writes[2], g, q) \/ EchoSecond(f, g, q)'
      BY <1>3, <2>1, FoulAtError, SecondAtError
    <2>3. Command(f)' /\ Second(f)'
      BY <1>3, CalmCommand, CalmWrites DEF Calm
    <2> QED
      BY <2>2, <2>3 DEF Echo
  <1> QED
    BY <1>1, <1>2, <1>3 DEF Echo

LEMMA AnswerAtError ==
    ASSUME ErrorStep, owed \in Seq(Byte), NEW g \in Seq(Byte), NEW r, NEW q, q # <<>>, Replying(g, r)
    PROVE  Replying(g, q)'
  <1>0. job' = job /\ last' = last /\ ran' = ran /\ ahead' = ahead
    BY DEF ErrorStep, Aside
  <1>1. CASE (\E f \in Jobs : f.name # "ack" /\ f.size > 0 /\ job = Part(f, <<>>)) /\ Answering(g, r)
    <2>1. job.size \in Nat
      BY <1>1, SizeOfJob
    <2>2. Answering(g, q)'
      BY <1>1, <2>1, AnsweringAtError
    <2> QED
      BY <1>0, <1>1, <2>2 DEF Replying
  <1>2. CASE /\ job \in Jobs /\ job.name = "ack" /\ last = "nothing" /\ ran = <<>> /\ ahead = <<>>
             /\ Settled(g, r)
    <2>1. Settled(g, q)'
      BY <1>2, SettledAtError
    <2> QED
      BY <1>0, <1>2, <2>1 DEF Replying
  <1> QED
    BY <1>1, <1>2 DEF Replying

LEMMA PoisedAtError ==
    ASSUME ErrorStep, Calm, NEW d, NEW r, NEW q, q # <<>>, Poised(d, r)
    PROVE  Poised(d, q)'
  <1>0. /\ calls' = calls /\ tx' = tx /\ owed' \in {owed, <<>>} /\ dev' \in {dev, "deaf"}
        /\ ahead' = ahead /\ running' = running
        /\ tx = <<>> /\ owed = <<>> /\ Buffered(d)
    BY DEF ErrorStep, Aside, Poised
  <1>1. (tx = <<>> /\ owed = <<>> /\ Buffered(d))'
    BY <1>0 DEF Buffered
  <1>2. CASE calls # <<>> /\ Head(calls) = Sync /\ Nested /\ AtMostAck(d) /\ dev \in {"deaf", "ready"}
    <2>1. (calls # <<>> /\ Head(calls) = Sync /\ AtMostAck(d) /\ dev \in {"deaf", "ready"})'
      BY <1>0, <1>2 DEF AtMostAck
    <2> QED
      BY <1>1, <1>2, <2>1, CalmNested DEF Poised
  <1>3. ASSUME NEW f \in Jobs, Command(f), First(f), AtMostAck(d), Hears(r)
        PROVE  Poised(d, q)'
    <2>1. (AtMostAck(d) /\ Hears(q))'
      BY <1>0, <1>3 DEF AtMostAck, Hears
    <2>2. Command(f)' /\ First(f)'
      BY <1>3, CalmCommand, CalmWrites DEF Calm
    <2> QED
      BY <1>1, <2>1, <2>2 DEF Poised
  <1>4. ASSUME NEW f \in Jobs, Command(f), Second(f), dev = "arg"
        PROVE  FALSE
    BY <1>0, <1>4 DEF Command, Second, ErrorStep
  <1> QED
    BY <1>2, <1>3, <1>4 DEF Poised

LEMMA PrefixOfOne == \A a \in Byte : \A k \in 1 .. Len(<<a>>) : SubSeq(<<a>>, 1, k) = <<a>>
  <1> TAKE a \in Byte
  <1> TAKE k \in 1 .. Len(<<a>>)
  <1>1. k = 1 /\ k = Len(<<a>>) /\ <<a>> \in Seq(Byte)
    OBVIOUS
  <1> QED
    BY <1>1, SubSeqFull

LEMMA PrefixOfTwo == \A a, b \in Byte : \A k \in 1 .. Len(<<a, b>>) : SubSeq(<<a, b>>, 1, k) \in {<<a>>, <<a, b>>}
  <1> TAKE a, b \in Byte
  <1> TAKE k \in 1 .. Len(<<a, b>>)
  <1>1. Len(<<a, b>>) = 2 /\ <<a, b>> \in Seq(Byte) /\ <<a, b>>[1] = a /\ k \in {1, 2}
    OBVIOUS
  <1>2. CASE k = 1
    <2>1. 1 \in 0 .. Len(<<a, b>>) /\ 1 \in 1 .. 1
      BY <1>1
    <2>2. SubSeq(<<a, b>>, 1, 1) \in Seq(Byte) /\ Len(SubSeq(<<a, b>>, 1, 1)) = 1 /\ SubSeq(<<a, b>>, 1, 1)[1] = a
      BY <1>1, <2>1, CutInTwo
    <2>3. SubSeq(<<a, b>>, 1, 1) = <<a>>
      BY <2>2, OneByteLong
    <2> QED
      BY <1>2, <2>3
  <1>3. CASE k = 2
    <2>1. k = Len(<<a, b>>)
      BY <1>1, <1>3
    <2> QED
      BY <1>1, <2>1, SubSeqFull
  <1> QED
    BY <1>1, <1>2, <1>3

LEMMA HonestAtError == ErrorStep /\ Honest => Honest'
  <1> SUFFICES ASSUME ErrorStep, Honest
               PROVE  Honest'
    OBVIOUS
  <1>1. /\ ran' = ran /\ answer' = answer /\ last' = last /\ tx' = tx /\ dev' \in {dev, "deaf"}
    BY DEF ErrorStep, Aside
  <1>2. CASE tx = <<>>
    BY <1>1, <1>2 DEF Honest
  <1>3. CASE tx # <<>>
    <2>1. ran = <<>> /\ Sending(tx)
      BY <1>3 DEF Honest
    <2>2. CASE dev' = dev
      <3>1. Sending(tx)'
        BY <1>1, <2>1, <2>2 DEF Sending
      <3> QED
        BY <1>1, <2>1, <3>1 DEF Honest
    <2>3. CASE dev' = "deaf"
      <3>0. \A x \in {"rd", "go", "wr", "sync"} : x \in Byte
        BY DEF Byte
      <3>1. \E b \in Byte : tx = <<b>> \/ tx = <<"wr", b>>
        BY <2>1, <3>0 DEF Sending, OnItsWay, Sync
      <3>2. Sending(tx)'
        BY <1>1, <2>3, <3>1 DEF Sending
      <3> QED
        BY <1>1, <2>1, <3>2 DEF Honest
    <2> QED
      BY <1>1, <2>2, <2>3
  <1> QED
    BY <1>2, <1>3

-----------------------------------------------------------------------------
(* Steps of the line and the device keep what the host is in the middle of.*)

LEMMA AsideKeeps == Aside /\ Asked /\ SizeInv => Asked' /\ SizeInv'
  <1> SUFFICES ASSUME Aside, Asked, SizeInv
               PROVE  Asked' /\ SizeInv'
    OBVIOUS
  <1>1. pc' = pc /\ calls' = calls /\ got' = got /\ esc' = esc /\ job' = job /\ last' = last
    BY DEF Aside
  <1>2. Asked'
    BY <1>1 DEF Asked
  <1>3. Size' = Size
    BY <1>1 DEF Size
  <1>4. SizeInv'
    BY <1>1, <1>3 DEF SizeInv
  <1> QED
    BY <1>2, <1>4

\* A step of the line keeps what is so between commands, before a write and
\* while the host reads, when it does this of what the host is to read.
LEMMA LineKeeps ==
    ASSUME SerialInv, Aside, SerialTypes', Honest',
           Rested => Rested',
           Command(job) => Command(job)',
           pc \in {"flush", "break", "flush_again"} =>
                /\ Nested' /\ (tx = <<>> => tx' = <<>>)
                /\ (tx = <<>> /\ ran = <<>> => ran' = <<>>)
                /\ (dev = "deaf" /\ owed = <<>> /\ tx = <<>> => dev' = "deaf" /\ owed' = <<>>),
           pc \in {"peek", "send"} =>
                \A d, r : Coming(d, r) /\ Poised(d, r) =>
                    ran' = ran /\ \E d2, r2 : Coming(d2, r2)' /\ Poised(d2, r2)',
           pc = "verify" /\ esc # "thrown" =>
                \A g, r : Heard(g, r) /\ Echo(g, r) => \E g2, r2 : Heard(g2, r2)' /\ Echo(g2, r2)',
           pc = "read" => tx' = <<>>,
           pc = "read" /\ esc # "thrown" =>
                \A g, r : Heard(g, r) /\ Replying(g, r) => \E g2, r2 : Heard(g2, r2)' /\ Replying(g2, r2)'
    PROVE  SerialInv'
  <1>1. /\ ahead' = ahead /\ up' = up /\ pc' = pc /\ calls' = calls /\ got' = got /\ esc' = esc
        /\ job' = job /\ last' = last
    BY DEF Aside
  <1>2. Asked' /\ SizeInv'
    BY AsideKeeps DEF SerialInv
  <1>3. IdleInv'
    BY <1>1 DEF SerialInv, IdleInv
  <1>4. BeginInv'
    BY <1>1 DEF SerialInv, BeginInv
  <1>5. ResetInv'
    <2>1. ResetInv
      BY DEF SerialInv
    <2> QED
      BY <1>1, <2>1 DEF ResetInv
  <1>6. WriteInv'
    <2>1. WriteInv
      BY DEF SerialInv
    <2> SUFFICES ASSUME pc \in {"peek", "send"}
                 PROVE  up /\ esc = "normal" /\ ran' = <<>> /\ \E d2, r2 : Coming(d2, r2)' /\ Poised(d2, r2)'
      BY <1>1 DEF WriteInv
    <2>2. up /\ esc = "normal" /\ ran = <<>> /\ \E d, r : Coming(d, r) /\ Poised(d, r)
      BY <2>1 DEF WriteInv
    <2> QED
      BY <2>2
  <1>7. VerifyInv'
    <2>1. VerifyInv
      BY DEF SerialInv
    <2> SUFFICES ASSUME pc = "verify"
                 PROVE  /\ up /\ calls # <<>>
                        /\ esc # "thrown" => \E g2, r2 : Heard(g2, r2)' /\ Echo(g2, r2)'
      BY <1>1 DEF VerifyInv
    <2> QED
      BY <2>1 DEF VerifyInv
  <1>8. ReadInv'
    <2>1. ReadInv
      BY DEF SerialInv
    <2> SUFFICES ASSUME pc = "read"
                 PROVE  /\ up /\ calls = <<>> /\ tx' = <<>> /\ job.size > 0
                        /\ \/ \E f \in Jobs : f.name # "ack" /\ f.size > 0 /\ job = Part(f, <<>>)
                           \/ job \in Jobs /\ job.name = "ack"
                        /\ esc # "thrown" => \E g2, r2 : Heard(g2, r2)' /\ Replying(g2, r2)'
      BY <1>1 DEF ReadInv
    <2> QED
      BY <2>1 DEF ReadInv
  <1> QED
    BY <1>2, <1>3, <1>4, <1>5, <1>6, <1>7, <1>8 DEF SerialInv

LEMMA ErrorKeeps ==
    ASSUME SerialInv, ErrorStep, Calm, SerialTypes', NEW e, Error(e), rx' = rx \o e
    PROVE  SerialInv'
  <1>0. /\ ahead' = ahead /\ esc' = esc /\ got' = got /\ tx' = tx /\ ran' = ran /\ Aside
        /\ owed' \in {owed, <<>>} /\ dev' \in {dev, "deaf"}
    BY DEF ErrorStep, Aside
  <1>1. TypeOK /\ owed \in Seq(Byte)
    BY DEF SerialInv, SerialTypes, TypeOK
  <1>2. Honest'
    BY HonestAtError DEF SerialInv
  <1>3. Rested => Rested'
    <2> SUFFICES ASSUME Rested
                 PROVE  Rested'
      OBVIOUS
    <2>1. PICK d, r : Coming(d, r) /\ Settled(d, r) /\ ran = <<>> /\ ahead = <<>>
      BY DEF Rested
    <2>2. PICK q : q # <<>> /\ Coming(d, q)'
      BY <1>0, <1>1, <2>1, ErrorComes
    <2>3. Settled(d, q)'
      BY <2>1, <2>2, SettledAtError
    <2> QED
      BY <1>0, <2>1, <2>2, <2>3 DEF Rested
  <1>4. Command(job) => Command(job)'
    BY CalmCommand DEF Calm, Aside, Command
  <1>5. ASSUME NEW d, NEW r, Coming(d, r), Poised(d, r)
        PROVE  \E d2, r2 : Coming(d2, r2)' /\ Poised(d2, r2)'
    <2>1. PICK q : q # <<>> /\ Coming(d, q)'
      BY <1>0, <1>1, <1>5, ErrorComes
    <2> QED
      BY <1>5, <2>1, PoisedAtError
  <1>6. ASSUME NEW g, NEW r, Heard(g, r), Echo(g, r), calls # <<>>
        PROVE  \E g2, r2 : Heard(g2, r2)' /\ Echo(g2, r2)'
    <2>1. PICK q : q # <<>> /\ Heard(g, q)'
      BY <1>0, <1>1, <1>6, ErrorHeard
    <2> QED
      BY <1>1, <1>6, <2>1, EchoAtError
  <1>7. ASSUME NEW g, NEW r, Heard(g, r), Replying(g, r)
        PROVE  \E g2, r2 : Heard(g2, r2)' /\ Replying(g2, r2)'
    <2>1. PICK q : q # <<>> /\ Heard(g, q)'
      BY <1>0, <1>1, <1>7, ErrorHeard
    <2>2. g \in Seq(Byte)
      BY <1>7, BytesConcat DEF Heard
    <2> QED
      BY <1>1, <1>7, <2>1, <2>2, AnswerAtError
  <1>8. pc = "verify" => calls # <<>>
    BY DEF SerialInv, VerifyInv
  <1>9. pc = "read" => tx = <<>>
    BY DEF SerialInv, ReadInv
  <1>10. pc \in {"flush", "break", "flush_again"} => Nested'
    BY CalmNested DEF SerialInv, ResetInv
  <1> QED
    BY <1>0, <1>2, <1>3, <1>4, <1>5, <1>6, <1>7, <1>8, <1>9, <1>10, LineKeeps

\* The two disturbances that are errors on the line.
LEMMA ErrorTypes ==
    ASSUME SerialTypes, NEW e, Error(e), rx' = rx \o e, Aside, UNCHANGED <<tx, running, ran, answer>>,
           owed' \in {owed, <<>>}, dev' \in {dev, "deaf"}, Disturbance
    PROVE  SerialTypes'
  <1>1. e \in Seq(Byte)
    BY ErrorIsMore
  <1>2. rx' \in Seq(Byte) /\ owed' \in Seq(Byte)
    BY <1>1, BytesConcat, NoBytes DEF SerialTypes, TypeOK
  <1>3. events' \in 0 .. Events
    BY SerialAssumption DEF Disturbance, SerialTypes, TypeOK
  <1>4. dev' \in {"deaf", "ready", "arg"}
    BY DEF SerialTypes, TypeOK
  <1> QED
    BY <1>2, <1>3, <1>4 DEF SerialTypes, TypeOK, Aside

LEMMA ClockSwitchKeeps == SerialInv /\ ClockSwitch => SerialInv'
  <1> SUFFICES ASSUME SerialInv, ClockSwitch
               PROVE  SerialInv'
    OBVIOUS
  <1>1. ErrorStep /\ Calm /\ rx' = rx \o Break /\ Disturbance
    BY DEF ClockSwitch, ErrorStep, Calm, Aside, local
  <1>2. SerialTypes'
    BY <1>1, ErrorTypes, BreakIsError DEF SerialInv, ErrorStep
  <1> QED
    BY <1>1, <1>2, ErrorKeeps, BreakIsError

LEMMA NoiseKeeps == SerialInv /\ Noise /\ "split" \notin Faults => SerialInv'
  <1> SUFFICES ASSUME SerialInv, Noise, "split" \notin Faults
               PROVE  SerialInv'
    OBVIOUS
  <1>1. ErrorStep /\ Calm /\ rx' = rx \o Framing /\ Disturbance
    BY DEF Noise, ErrorStep, Calm, Aside, local, device
  <1>2. SerialTypes'
    BY <1>1, ErrorTypes, BreakIsError DEF SerialInv, ErrorStep
  <1> QED
    BY <1>1, <1>2, ErrorKeeps, BreakIsError

-----------------------------------------------------------------------------
(* A device stops, and sends its acknowledge.                              *)

\* Data that comes behind an error is not read.
Comes(b, g, r, g2, q) == IF r = <<>> THEN g2 = Append(g, b) /\ q = <<>> ELSE g2 = g /\ q # <<>>

LEMMA LineComes ==
    ASSUME NEW b \in Byte, NEW d, NEW r, Coming(d, r), TypeOK,
           rx' = rx \o Escaped(b), ahead' = ahead, esc' = esc
    PROVE  d \in Seq(Byte) /\ \E d2, q : Comes(b, d, r, d2, q) /\ Coming(d2, q)'
  <1>1. /\ r = <<>> => Append(d, b) \in Seq(Byte) /\ Coming(Append(d, b), <<>>)'
        /\ r # <<>> => \E q : q # <<>> /\ Coming(d, q)'
    BY DataComes
  <1>2. d \in Seq(Byte)
    BY DEF Coming
  <1> QED
    BY <1>1, <1>2 DEF Comes

LEMMA HostHears ==
    ASSUME NEW b \in Byte, NEW g, NEW r, Heard(g, r), TypeOK,
           rx' = rx \o Escaped(b), ahead' = ahead, esc' = esc, got' = got
    PROVE  g \in Seq(Byte) /\ \E g2, q : Comes(b, g, r, g2, q) /\ Heard(g2, q)'
  <1>1. /\ g \in Seq(Byte) /\ Append(g, b) \in Seq(Byte)
        /\ r = <<>> => Heard(Append(g, b), <<>>)'
        /\ r # <<>> => \E q : q # <<>> /\ Heard(g, q)'
    BY DataHeard
  <1> QED
    BY <1>1 DEF Comes

LEMMA FoulStays ==
    ASSUME NEW b \in Byte, NEW w, NEW g \in Seq(Byte), NEW r, NEW g2, NEW q, Comes(b, g, r, g2, q), Foul(w, g, r)
    PROVE  Foul(w, g2, q)
  <1>1. CASE r = <<>>
    <2>1. g2 = Append(g, b) /\ q = <<>> /\ g # <<>> /\ g[1] # w[1]
      BY <1>1 DEF Comes, Foul
    <2>2. 1 \in 1 .. Len(g)
      BY <2>1, NoBytes
    <2>3. Append(g, b)[1] = g[1] /\ Append(g, b) # <<>>
      BY <2>2, AppendProperties
    <2> QED
      BY <2>1, <2>3 DEF Foul
  <1>2. CASE r # <<>>
    BY <1>2 DEF Comes, Foul
  <1> QED
    BY <1>1, <1>2

\* The acknowledge.
AckStep ==
    /\ Aside /\ UNCHANGED <<dev, owed, tx, ran, answer>>
    /\ running /\ dev = "ready" /\ owed = <<>> /\ running' = FALSE

LEMMA SettledAtAck ==
    AckStep => \A x, r : Settled(x, r) => /\ x = <<>>
                                          /\ \A q : Settled(<<>>, q)' /\ Settled(<<"ff">>, q)'
  BY DEF AckStep, Settled, AtMostAck, Hears

\* All of w was read, and then there may be an acknowledge.
Past(w, g, r) == \E x \in {<<>>, <<"ff">>} : g = w \o x /\ Settled(x, r)

LEMMA AckBehind ==
    AckStep => \A w \in Seq(Byte) : \A g, r, g2, q : Past(w, g, r) /\ Comes("ff", g, r, g2, q) => Past(w, g2, q)'
  <1> SUFFICES ASSUME AckStep, NEW w \in Seq(Byte), NEW g, NEW r, NEW g2, NEW q,
                      Past(w, g, r), Comes("ff", g, r, g2, q)
               PROVE  Past(w, g2, q)'
    OBVIOUS
  <1>0. PICK x \in {<<>>, <<"ff">>} : g = w \o x /\ Settled(x, r)
    BY DEF Past
  <1>1. x = <<>> /\ Settled(<<>>, q)' /\ Settled(<<"ff">>, q)'
    BY <1>0, SettledAtAck
  <1>2. g = w /\ Append(w, "ff") = w \o <<"ff">> /\ w \o <<>> = w
    <2>1. w \o <<>> = w
      BY NoBytes
    <2>2. "ff" \in Byte
      BY DEF Byte
    <2>3. Append(w, "ff") = w \o <<"ff">>
      BY <2>2, OneMore
    <2> QED
      BY <1>0, <1>1, <2>1, <2>3
  <1>3. \E y \in {<<>>, <<"ff">>} : g2 = w \o y /\ Settled(y, q)'
    <2>1. CASE r = <<>>
      BY <1>1, <1>2, <2>1 DEF Comes
    <2>2. CASE r # <<>>
      BY <1>1, <1>2, <2>2 DEF Comes
    <2> QED
      BY <2>1, <2>2
  <1> QED
    BY <1>3 DEF Past

LEMMA FoulAck ==
    ASSUME NEW w, w[1] # "ff", NEW g, g = <<>>, NEW r, r = <<>>, NEW g2, NEW q, Comes("ff", g, r, g2, q)
    PROVE  Foul(w, g2, q)
  <1>1. g2 = <<"ff">>
    BY DEF Comes
  <1> QED
    BY <1>1 DEF Foul

LEMMA AnsweringAtAck ==
    ASSUME AckStep, answer \in Seq(Byte), NEW g \in Seq(Byte), NEW r, Answering(g, r),
           NEW g2, NEW q, Comes("ff", g, r, g2, q)
    PROVE  Answering(g2, q)'
  <1>1. /\ tx = <<>> /\ ahead = <<>> /\ ran = <<Whole(last)>>
        /\ (tx = <<>> /\ ahead = <<>> /\ ran = <<Whole(last)>>)'
        /\ job' = job /\ answer' = answer
    BY DEF Answering, AckStep, Aside
  <1>2. CASE Len(answer) = job.size /\ \E x \in {<<>>, <<"ff">>} : g = answer \o x /\ Settled(x, r)
    <2>2. PICK w \in Seq(Byte) : w = answer
      OBVIOUS
    <2>3. Past(w, g, r)
      BY <1>2, <2>2 DEF Past
    <2>4. Past(w, g2, q)'
      BY <2>3, AckBehind
    <2>1. \E y \in {<<>>, <<"ff">>} : g2 = answer \o y /\ Settled(y, q)'
      BY <2>2, <2>4 DEF Past
    <2> QED
      BY <1>1, <1>2, <2>1 DEF Answering
  <1>3. CASE r # <<>> /\ Len(g) < job.size
    BY <1>1, <1>3 DEF Answering, Comes
  <1> QED
    BY <1>2, <1>3 DEF Answering, AckStep

LEMMA SyncAtAck ==
    ASSUME AckStep, NEW g, NEW r, EchoSync(g, r), NEW g2, NEW q, Comes("ff", g, r, g2, q)
    PROVE  Foul(Sync, g2, q) \/ EchoSync(g2, q)'
  <1>1. ahead = <<>> /\ ran = <<>> /\ ahead' = <<>> /\ ran' = <<>>
    BY DEF EchoSync, AckStep, Aside
  <1>2. CASE g = <<>> /\ r = <<>>
    BY <1>2, FoulAck DEF Sync
  <1>3. CASE \E x \in {<<>>, <<"ff">>} : g = Sync \o x /\ Settled(x, r)
    <2>1. Sync \in Seq(Byte)
      BY DEF Sync, Byte
    <2>2. Past(Sync, g, r)
      BY <1>3 DEF Past
    <2>3. Past(Sync, g2, q)'
      BY <2>1, <2>2, AckBehind
    <2> QED
      BY <1>1, <2>3 DEF EchoSync, Past
  <1> QED
    BY <1>2, <1>3 DEF EchoSync

LEMMA FirstAtAck ==
    ASSUME AckStep, answer \in Seq(Byte), NEW f, Command(f), NEW g, NEW r, EchoFirst(f, g, r),
           NEW g2, NEW q, Comes("ff", g, r, g2, q)
    PROVE  Foul(f.writes[1], g2, q) \/ EchoFirst(f, g2, q)'
  <1> DEFINE w == f.writes[1]
  <1>0. f \in Jobs /\ f.name # "ack" /\ w \in Seq(Byte) /\ w[1] # "ff"
    BY FirstWrite DEF Command
  <1>1. ahead = <<>> /\ ahead' = <<>> /\ last' = last /\ ran' = ran
    BY DEF EchoFirst, AckStep, Aside
  <1>2. CASE g = <<>> /\ r = <<>>
    BY <1>0, <1>2, FoulAck
  <1>3. CASE f.size > 0 /\ \E x \in Seq(Byte) : g = w \o x /\ Answering(x, r)
    <2>1. PICK x \in Seq(Byte) : g = w \o x /\ Answering(x, r)
      BY <1>3
    <2>2. PICK x2 : Comes("ff", x, r, x2, q) /\ g2 = w \o x2 /\ x2 \in Seq(Byte)
      <3>1. CASE r = <<>>
        <4>1. "ff" \in Byte /\ <<"ff">> \in Seq(Byte)
          BY DEF Byte
        <4>2. (w \o x) \o <<"ff">> = w \o (x \o <<"ff">>)
          BY <1>0, <4>1, BytesAssociate
        <4>3. w \o x \in Seq(Byte)
          BY <1>0, BytesConcat
        <4>4. Append(g, "ff") = w \o Append(x, "ff") /\ Append(x, "ff") \in Seq(Byte)
          BY <2>1, <4>1, <4>2, <4>3, OneMore
        <4> QED
          BY <3>1, <4>4 DEF Comes
      <3>2. CASE r # <<>>
        BY <2>1, <3>2 DEF Comes
      <3> QED
        BY <3>1, <3>2
    <2>3. Answering(x2, q)'
      BY <2>1, <2>2, AnsweringAtAck
    <2> QED
      BY <1>1, <1>3, <2>2, <2>3 DEF EchoFirst
  <1>4. CASE /\ f.size = 0 /\ Len(f.writes) = 1 /\ ran = <<Whole(last)>>
             /\ \E x \in {<<>>, <<"ff">>} : g = w \o x /\ Settled(x, r)
    <2>3. Past(w, g, r)
      BY <1>4 DEF Past
    <2>4. Past(w, g2, q)'
      BY <1>0, <2>3, AckBehind
    <2>1. \E y \in {<<>>, <<"ff">>} : g2 = w \o y /\ Settled(y, q)'
      BY <2>4 DEF Past
    <2>2. ran' = <<Whole(last')>>
      BY <1>1, <1>4
    <2> QED
      BY <1>1, <1>4, <2>1, <2>2 DEF EchoFirst
  <1> QED
    BY <1>2, <1>3, <1>4 DEF EchoFirst, AckStep

LEMMA SecondAtAck ==
    ASSUME AckStep, NEW f, Command(f), Len(f.writes) = 2, NEW g, NEW r, EchoSecond(f, g, r),
           NEW g2, NEW q, Comes("ff", g, r, g2, q)
    PROVE  EchoSecond(f, g2, q)'
  <1> DEFINE w == f.writes[2]
  <1>0. f \in Jobs /\ f.name # "ack" /\ w \in Seq(Byte)
    BY FirstWrite DEF Command
  <1>1. ahead = <<>> /\ ahead' = <<>> /\ last' = last /\ ran' = ran
    BY DEF EchoSecond, AckStep, Aside
  <1>2. ran = <<Whole(last)>> /\ \E x \in {<<>>, <<"ff">>} : g = w \o x /\ Settled(x, r)
    BY DEF EchoSecond, AckStep
  <1>5. Past(w, g, r)
    BY <1>2 DEF Past
  <1>6. Past(w, g2, q)'
    BY <1>0, <1>5, AckBehind
  <1>3. \E y \in {<<>>, <<"ff">>} : g2 = w \o y /\ Settled(y, q)'
    BY <1>6 DEF Past
  <1>4. ran' = <<Whole(last')>>
    BY <1>1, <1>2
  <1> QED
    BY <1>1, <1>3, <1>4 DEF EchoSecond

LEMMA EchoAtAck ==
    ASSUME AckStep, Calm, answer \in Seq(Byte), calls # <<>>, NEW g \in Seq(Byte), NEW r, Echo(g, r),
           NEW g2, NEW q, Comes("ff", g, r, g2, q)
    PROVE  Echo(g2, q)'
  <1>0. calls' = calls /\ "ff" \in Byte
    BY DEF Calm, Aside, Byte
  <1>1. CASE Head(calls) = Sync /\ Nested /\ (Foul(Sync, g, r) \/ EchoSync(g, r))
    <2>1. Foul(Sync, g2, q) \/ EchoSync(g2, q)'
      BY <1>0, <1>1, FoulStays, SyncAtAck
    <2> QED
      BY <1>0, <1>1, <2>1, CalmNested DEF Echo
  <1>2. ASSUME NEW f \in Jobs, Command(f), First(f), Foul(f.writes[1], g, r) \/ EchoFirst(f, g, r)
        PROVE  Echo(g2, q)'
    <2>2. Foul(f.writes[1], g2, q) \/ EchoFirst(f, g2, q)'
      BY <1>0, <1>2, FoulStays, FirstAtAck
    <2>3. Command(f)' /\ First(f)'
      BY <1>2, CalmCommand, CalmWrites DEF Calm
    <2> QED
      BY <2>2, <2>3 DEF Echo
  <1>3. ASSUME NEW f \in Jobs, Command(f), Second(f), Foul(f.writes[2], g, r) \/ EchoSecond(f, g, r)
        PROVE  Echo(g2, q)'
    <2>1. Len(f.writes) = 2
      BY <1>3 DEF Second
    <2>2. Foul(f.writes[2], g2, q) \/ EchoSecond(f, g2, q)'
      BY <1>0, <1>3, <2>1, FoulStays, SecondAtAck
    <2>3. Command(f)' /\ Second(f)'
      BY <1>3, CalmCommand, CalmWrites DEF Calm
    <2> QED
      BY <2>2, <2>3 DEF Echo
  <1> QED
    BY <1>1, <1>2, <1>3 DEF Echo

LEMMA AnswerAtAck ==
    ASSUME AckStep, answer \in Seq(Byte), NEW g \in Seq(Byte), NEW r, Replying(g, r),
           NEW g2, NEW q, Comes("ff", g, r, g2, q)
    PROVE  Replying(g2, q)'
  <1>0. job' = job /\ last' = last /\ ran' = ran /\ ahead' = ahead
    BY DEF AckStep, Aside
  <1>1. CASE (\E f \in Jobs : f.name # "ack" /\ f.size > 0 /\ job = Part(f, <<>>)) /\ Answering(g, r)
    <2>2. Answering(g2, q)'
      BY <1>1, AnsweringAtAck
    <2> QED
      BY <1>0, <1>1, <2>2 DEF Replying
  <1>2. CASE /\ job \in Jobs /\ job.name = "ack" /\ last = "nothing" /\ ran = <<>> /\ ahead = <<>>
             /\ Settled(g, r)
    <2>1. g = <<>> /\ Settled(<<>>, q)' /\ Settled(<<"ff">>, q)'
      BY <1>2, SettledAtAck
    <2>2. g2 \in {<<>>, <<"ff">>}
      BY <2>1 DEF Comes
    <2>3. Settled(g2, q)'
      BY <2>1, <2>2
    <2> QED
      BY <1>0, <1>2, <2>3 DEF Replying
  <1> QED
    BY <1>1, <1>2 DEF Replying

LEMMA PoisedAtAck ==
    ASSUME AckStep, Calm, NEW d, NEW r, Poised(d, r), NEW d2, NEW q, Comes("ff", d, r, d2, q)
    PROVE  Poised(d2, q)'
  <1>0. /\ calls' = calls /\ tx' = tx /\ owed' = owed /\ dev' = dev
        /\ ahead' = ahead /\ running /\ ~running' /\ dev = "ready"
        /\ tx = <<>> /\ owed = <<>> /\ Buffered(d)
    BY DEF AckStep, Aside, Poised
  <1>1. d = <<>> /\ AtMostAck(d)
    BY <1>0 DEF Poised, AtMostAck
  <1>2. d2 \in {<<>>, <<"ff">>} /\ ahead = <<>>
    BY <1>0, <1>1 DEF Comes, Buffered
  <1>3. (tx = <<>> /\ owed = <<>> /\ Buffered(d2) /\ AtMostAck(d2) /\ Hears(q))'
    BY <1>0, <1>2 DEF Buffered, AtMostAck, Hears
  <1>4. CASE calls # <<>> /\ Head(calls) = Sync /\ Nested
    BY <1>0, <1>3, <1>4, CalmNested DEF Poised
  <1>5. ASSUME NEW f \in Jobs, Command(f), First(f)
        PROVE  Poised(d2, q)'
    <2>2. Command(f)' /\ First(f)'
      BY <1>5, CalmCommand, CalmWrites DEF Calm
    <2> QED
      BY <1>3, <2>2 DEF Poised
  <1> QED
    BY <1>0, <1>4, <1>5 DEF Poised

LEMMA AcknowledgeKeeps == SerialInv /\ Acknowledge => SerialInv'
  <1> SUFFICES ASSUME SerialInv, Acknowledge
               PROVE  SerialInv'
    OBVIOUS
  <1>0. AckStep /\ Calm /\ rx' = rx \o Escaped("ff") /\ Disturbance /\ Aside /\ "ff" \in Byte
    BY DEF Acknowledge, AckStep, Calm, Aside, local, Byte
  <1>a. /\ ahead' = ahead /\ esc' = esc /\ got' = got /\ tx' = tx /\ ran' = ran /\ owed' = owed /\ dev' = dev
        /\ last' = last /\ answer' = answer
    BY <1>0 DEF AckStep, Aside
  <1>1. TypeOK /\ SerialTypes /\ answer \in Seq(Byte)
    BY SerialAssumption, NoBytes DEF SerialInv, SerialTypes
  <1>2. Honest'
    BY <1>a DEF SerialInv, Honest, Sending
  <1>b. SerialTypes'
    <2>1. rx' \in Seq(Byte)
      BY <1>0, <1>1, OneByte, BytesConcat DEF TypeOK
    <2>2. events' \in 0 .. Events
      BY <1>0, <1>1, SerialAssumption DEF Disturbance, TypeOK
    <2> QED
      BY <1>0, <1>1, <2>1, <2>2 DEF SerialTypes, TypeOK, Aside, AckStep
  <1>3. Rested => Rested'
    <2> SUFFICES ASSUME Rested
                 PROVE  Rested'
      OBVIOUS
    <2>1. PICK d, r : Coming(d, r) /\ Settled(d, r) /\ ran = <<>> /\ ahead = <<>>
      BY DEF Rested
    <2>2. PICK d2, q : Comes("ff", d, r, d2, q) /\ Coming(d2, q)'
      BY <1>0, <1>1, <1>a, <2>1, LineComes
    <2>3. d = <<>> /\ Settled(<<>>, q)' /\ Settled(<<"ff">>, q)'
      BY <1>0, <2>1, SettledAtAck
    <2>4. d2 \in {<<>>, <<"ff">>}
      BY <2>2, <2>3 DEF Comes
    <2>5. Settled(d2, q)'
      BY <2>3, <2>4
    <2> QED
      BY <1>a, <2>1, <2>2, <2>5 DEF Rested
  <1>4. Command(job) => Command(job)'
    BY <1>0, CalmCommand DEF Calm, Aside, Command
  <1>5. ASSUME NEW d, NEW r, Coming(d, r), Poised(d, r)
        PROVE  \E d2, r2 : Coming(d2, r2)' /\ Poised(d2, r2)'
    <2>1. PICK d2, q : Comes("ff", d, r, d2, q) /\ Coming(d2, q)'
      BY <1>0, <1>1, <1>a, <1>5, LineComes
    <2> QED
      BY <1>0, <1>5, <2>1, PoisedAtAck
  <1>6. ASSUME NEW g, NEW r, Heard(g, r), Echo(g, r), calls # <<>>
        PROVE  \E g2, r2 : Heard(g2, r2)' /\ Echo(g2, r2)'
    <2>1. PICK g2, q : Comes("ff", g, r, g2, q) /\ Heard(g2, q)' /\ g \in Seq(Byte)
      BY <1>0, <1>1, <1>a, <1>6, HostHears
    <2> QED
      BY <1>0, <1>1, <1>6, <2>1, EchoAtAck
  <1>7. ASSUME NEW g, NEW r, Heard(g, r), Replying(g, r)
        PROVE  \E g2, r2 : Heard(g2, r2)' /\ Replying(g2, r2)'
    <2>1. PICK g2, q : Comes("ff", g, r, g2, q) /\ Heard(g2, q)' /\ g \in Seq(Byte)
      BY <1>0, <1>1, <1>a, <1>7, HostHears
    <2> QED
      BY <1>0, <1>1, <1>7, <2>1, AnswerAtAck
  <1>8. pc = "verify" => calls # <<>>
    BY DEF SerialInv, VerifyInv
  <1>9. pc = "read" => tx = <<>>
    BY DEF SerialInv, ReadInv
  <1>10. pc \in {"flush", "break", "flush_again"} => Nested'
    BY <1>0, CalmNested DEF SerialInv, ResetInv
  <1> QED
    BY <1>0, <1>a, <1>b, <1>2, <1>3, <1>4, <1>5, <1>6, <1>7, <1>8, <1>9, <1>10, LineKeeps

-----------------------------------------------------------------------------
(* The device sends a byte of an answer, or it is lost.                    *)

\* A byte of the answer is sent, or lost.
OwedStep ==
    /\ Aside /\ UNCHANGED <<dev, running, tx, ran, answer>>
    /\ owed # <<>> /\ owed' = Tail(owed)

LEMMA AnsweringAtSend ==
    ASSUME OwedStep, owed \in Seq(Byte), job.size \in Nat, NEW g \in Seq(Byte), NEW r, Answering(g, r),
           NEW g2, NEW q, Comes(Head(owed), g, r, g2, q)
    PROVE  Answering(g2, q)'
  <1>1. /\ tx = <<>> /\ ahead = <<>> /\ ran = <<Whole(last)>>
        /\ (tx = <<>> /\ ahead = <<>> /\ ran = <<Whole(last)>>)'
        /\ job' = job /\ answer' = answer /\ running' = running /\ dev' = dev
    BY DEF Answering, OwedStep, Aside
  <1>2. PICK b \in Byte, rest \in Seq(Byte) :
            owed = Cons(b, rest) /\ Head(owed) = b /\ owed' = rest /\ Len(owed) = Len(rest) + 1
    BY BytesAre DEF OwedStep
  <1>3. Len(g) \in Nat /\ Len(rest) \in Nat /\ Len(Append(g, b)) = Len(g) + 1
    BY NoBytes, OneMore
  <1>4. CASE r = <<>> /\ dev = "ready" /\ g \o owed = answer /\ Len(answer) = job.size
    <2>1. g2 = Append(g, b) /\ q = <<>>
      BY <1>2, <1>4 DEF Comes
    <2>2. g2 \o owed' = answer /\ g2 \in Seq(Byte)
      BY <1>2, <1>4, <2>1, ConcatCons
    <2>3. CASE owed' # <<>>
      BY <1>1, <1>4, <2>1, <2>2, <2>3 DEF Answering
    <2>4. CASE owed' = <<>>
      <3>1. g2 = answer \o <<>>
        BY <2>2, <2>4, NoBytes
      <3>2. Settled(<<>>, q)'
        BY <1>1, <1>4, <2>4 DEF Settled, AtMostAck, Hears
      <3> QED
        BY <1>1, <1>4, <3>1, <3>2 DEF Answering
    <2> QED
      BY <2>3, <2>4
  <1>5. CASE Len(g) + Len(owed) < job.size /\ ~running
    <2>1. Len(g2) + Len(owed') < job'.size /\ ~running'
      <3>1. CASE r = <<>>
        <4>1. Len(g2) = Len(g) + 1
          BY <1>2, <1>3, <3>1 DEF Comes
        <4> QED
          BY <1>1, <1>2, <1>3, <1>5, <4>1
      <3>2. CASE r # <<>>
        <4>1. g2 = g
          BY <3>2 DEF Comes
        <4> QED
          BY <1>1, <1>2, <1>3, <1>5, <4>1
      <3> QED
        BY <3>1, <3>2
    <2> QED
      BY <1>1, <2>1 DEF Answering
  <1>6. CASE r # <<>> /\ Len(g) < job.size
    BY <1>1, <1>6 DEF Answering, Comes
  <1>7. ~\E x : Settled(x, r)
    BY DEF OwedStep, Settled
  <1> QED
    BY <1>4, <1>5, <1>6, <1>7 DEF Answering

LEMMA AnsweringAtLoss ==
    ASSUME OwedStep, ~running, owed \in Seq(Byte), job.size \in Nat, NEW g \in Seq(Byte), NEW r, Answering(g, r)
    PROVE  Answering(g, r)'
  <1>1. /\ tx = <<>> /\ ahead = <<>> /\ ran = <<Whole(last)>>
        /\ (tx = <<>> /\ ahead = <<>> /\ ran = <<Whole(last)>>)'
        /\ job' = job /\ answer' = answer /\ ~running'
    BY DEF Answering, OwedStep, Aside
  <1>2. Len(g) \in Nat /\ Len(owed) \in Nat /\ Len(owed') \in Nat /\ Len(owed) = Len(owed') + 1
    BY BytesAre, NoBytes DEF OwedStep
  <1>3. CASE g \o owed = answer /\ Len(answer) = job.size
    <2>1. Len(g) + Len(owed) = job.size
      BY <1>3, BytesConcat
    <2>2. Len(g) + Len(owed') < job'.size
      BY <1>1, <1>2, <2>1
    <2> QED
      BY <1>1, <2>2 DEF Answering
  <1>4. CASE Len(g) + Len(owed) < job.size /\ ~running
    <2>2. Len(g) + Len(owed') < job'.size
      BY <1>1, <1>2, <1>4
    <2> QED
      BY <1>1, <2>2 DEF Answering
  <1>5. CASE r # <<>> /\ Len(g) < job.size
    BY <1>1, <1>5 DEF Answering
  <1>6. ~\E x : Settled(x, r)
    BY DEF OwedStep, Settled
  <1> QED
    BY <1>3, <1>4, <1>5, <1>6 DEF Answering

LEMMA FirstAtSend ==
    ASSUME OwedStep, owed \in Seq(Byte), job.size \in Nat, NEW f, Command(f), NEW g, NEW r, EchoFirst(f, g, r),
           NEW g2, NEW q, Comes(Head(owed), g, r, g2, q)
    PROVE  EchoFirst(f, g2, q)'
  <1> DEFINE w == f.writes[1]
  <1>0. w \in Seq(Byte) /\ Head(owed) \in Byte
    BY FirstWrite, BytesAre DEF Command, OwedStep
  <1>1. ahead = <<>> /\ ahead' = <<>>
    BY DEF EchoFirst, OwedStep, Aside
  <1>2. f.size > 0 /\ \E x \in Seq(Byte) : g = w \o x /\ Answering(x, r)
    BY DEF EchoFirst, OwedStep, Settled
  <1>3. PICK x \in Seq(Byte) : g = w \o x /\ Answering(x, r)
    BY <1>2
  <1>4. PICK x2 : Comes(Head(owed), x, r, x2, q) /\ g2 = w \o x2 /\ x2 \in Seq(Byte)
    <2>1. CASE r = <<>>
      <3>1. PICK b \in Byte : b = Head(owed)
        BY <1>0
      <3>2. <<b>> \in Seq(Byte) /\ w \o x \in Seq(Byte)
        BY <1>0, BytesConcat
      <3>3. Regroups(w, x, <<b>>)
        BY <1>0, <3>2, BytesRegroup, Zenon
      <3>4. Append(g, b) = w \o Append(x, b) /\ Append(x, b) \in Seq(Byte)
        BY <1>3, <3>2, <3>3, OneMore DEF Regroups
      <3> QED
        BY <2>1, <3>1, <3>4 DEF Comes
    <2>2. CASE r # <<>>
      BY <1>3, <2>2 DEF Comes
    <2> QED
      BY <2>1, <2>2
  <1>5. Answering(x2, q)'
    BY <1>3, <1>4, AnsweringAtSend
  <1> QED
    BY <1>1, <1>2, <1>4, <1>5 DEF EchoFirst

LEMMA FirstAtLoss ==
    ASSUME OwedStep, ~running, owed \in Seq(Byte), job.size \in Nat, NEW f, NEW g, NEW r, EchoFirst(f, g, r)
    PROVE  EchoFirst(f, g, r)'
  <1>1. ahead = <<>> /\ ahead' = <<>>
    BY DEF EchoFirst, OwedStep, Aside
  <1>2. f.size > 0 /\ \E x \in Seq(Byte) : g = f.writes[1] \o x /\ Answering(x, r)
    BY DEF EchoFirst, OwedStep, Settled
  <1>3. \E x \in Seq(Byte) : g = f.writes[1] \o x /\ Answering(x, r)'
    BY <1>2, AnsweringAtLoss
  <1> QED
    BY <1>1, <1>2, <1>3 DEF EchoFirst

\* Either, of what comes.
LEMMA EchoAtOwed ==
    ASSUME OwedStep, Calm, owed \in Seq(Byte), calls # <<>>, NEW g \in Seq(Byte), NEW r, Echo(g, r),
           NEW g2, NEW q,
           Comes(Head(owed), g, r, g2, q) \/ (~running /\ g2 = g /\ q = r)
    PROVE  Echo(g2, q)'
  <1>0. calls' = calls /\ Head(owed) \in Byte
    BY BytesAre DEF Calm, Aside, OwedStep
  <1>a. \A w : Foul(w, g, r) => Foul(w, g2, q)
    BY <1>0, FoulStays
  <1>1. CASE Head(calls) = Sync /\ Nested /\ (Foul(Sync, g, r) \/ EchoSync(g, r))
    <2>1. Foul(Sync, g, r)
      BY <1>1 DEF EchoSync, OwedStep, Settled
    <2> QED
      BY <1>0, <1>a, <1>1, <2>1, CalmNested DEF Echo
  <1>2. ASSUME NEW f \in Jobs, Command(f), First(f), Foul(f.writes[1], g, r) \/ EchoFirst(f, g, r)
        PROVE  Echo(g2, q)'
    <2>1. job.size \in Nat
      BY <1>2, SizeOfJob DEF First
    <2>2. Foul(f.writes[1], g2, q) \/ EchoFirst(f, g2, q)'
      BY <1>a, <1>2, <2>1, FirstAtSend, FirstAtLoss
    <2>3. Command(f)' /\ First(f)'
      BY <1>2, CalmCommand, CalmWrites DEF Calm
    <2> QED
      BY <2>2, <2>3 DEF Echo
  <1>3. ASSUME NEW f \in Jobs, Command(f), Second(f), Foul(f.writes[2], g, r) \/ EchoSecond(f, g, r)
        PROVE  Echo(g2, q)'
    <2>2. Foul(f.writes[2], g2, q)
      BY <1>a, <1>3 DEF EchoSecond, OwedStep, Settled
    <2>3. Command(f)' /\ Second(f)'
      BY <1>3, CalmCommand, CalmWrites DEF Calm
    <2> QED
      BY <2>2, <2>3 DEF Echo
  <1> QED
    BY <1>1, <1>2, <1>3 DEF Echo

LEMMA AnswerAtOwed ==
    ASSUME OwedStep, owed \in Seq(Byte), NEW g \in Seq(Byte), NEW r, Replying(g, r),
           NEW g2, NEW q,
           Comes(Head(owed), g, r, g2, q) \/ (~running /\ g2 = g /\ q = r)
    PROVE  Replying(g2, q)'
  <1>0. job' = job
    BY DEF OwedStep, Aside
  <1>1. (\E f \in Jobs : f.name # "ack" /\ f.size > 0 /\ job = Part(f, <<>>)) /\ Answering(g, r)
    BY DEF Replying, OwedStep, Settled
  <1>2. job.size \in Nat
    BY <1>1, SizeOfJob
  <1>3. Answering(g2, q)'
    BY <1>1, <1>2, AnsweringAtSend, AnsweringAtLoss
  <1> QED
    BY <1>0, <1>1, <1>3 DEF Replying

LEMMA OwedKeeps ==
    ASSUME SerialInv, OwedStep, Calm, SerialTypes',
           \/ rx' = rx \o Escaped(Head(owed))
           \/ rx' = rx /\ ~running
    PROVE  SerialInv'
  <1>a. /\ ahead' = ahead /\ esc' = esc /\ got' = got /\ tx' = tx /\ ran' = ran /\ dev' = dev
        /\ last' = last /\ answer' = answer /\ Aside /\ owed # <<>>
    BY DEF OwedStep, Aside
  <1>1. TypeOK /\ owed \in Seq(Byte) /\ Head(owed) \in Byte
    BY <1>a, BytesAre DEF SerialInv, SerialTypes, TypeOK
  <1>2. Honest'
    BY <1>a DEF SerialInv, Honest, Sending
  <1>3. ~Rested
    BY <1>a DEF Rested, Settled
  <1>4. Command(job) => Command(job)'
    BY CalmCommand DEF Calm, Aside, Command
  <1>5. \A d, r : ~Poised(d, r)
    BY <1>a DEF Poised
  <1>6. ASSUME NEW g, NEW r, Heard(g, r)
        PROVE  /\ g \in Seq(Byte)
               /\ \E g2, q : /\ Heard(g2, q)'
                             /\ Comes(Head(owed), g, r, g2, q) \/ (~running /\ g2 = g /\ q = r)
    <2>1. CASE rx' = rx \o Escaped(Head(owed))
      BY <1>1, <1>a, <1>6, <2>1, HostHears
    <2>2. CASE rx' = rx /\ ~running
      <3>1. Heard(g, r)'
        BY <1>6, <1>a, <2>2 DEF Heard, Coming
      <3>2. g \in Seq(Byte)
        BY <1>6, BytesConcat DEF Heard
      <3> QED
        BY <2>2, <3>1, <3>2
    <2> QED
      BY <2>1, <2>2
  <1>7. ASSUME NEW g, NEW r, Heard(g, r), Echo(g, r), calls # <<>>
        PROVE  \E g2, r2 : Heard(g2, r2)' /\ Echo(g2, r2)'
    <2>1. PICK g2, q : /\ Heard(g2, q)'
                       /\ Comes(Head(owed), g, r, g2, q) \/ (~running /\ g2 = g /\ q = r)
      BY <1>6, <1>7
    <2> QED
      BY <1>1, <1>6, <1>7, <2>1, EchoAtOwed
  <1>8. ASSUME NEW g, NEW r, Heard(g, r), Replying(g, r)
        PROVE  \E g2, r2 : Heard(g2, r2)' /\ Replying(g2, r2)'
    <2>1. PICK g2, q : /\ Heard(g2, q)'
                       /\ Comes(Head(owed), g, r, g2, q) \/ (~running /\ g2 = g /\ q = r)
      BY <1>6, <1>8
    <2> QED
      BY <1>1, <1>6, <1>8, <2>1, AnswerAtOwed
  <1>9. pc = "verify" => calls # <<>>
    BY DEF SerialInv, VerifyInv
  <1>10. pc = "read" => tx = <<>>
    BY DEF SerialInv, ReadInv
  <1>11. pc \in {"flush", "break", "flush_again"} => Nested'
    BY CalmNested DEF SerialInv, ResetInv
  <1> QED
    BY <1>a, <1>2, <1>3, <1>4, <1>5, <1>7, <1>8, <1>9, <1>10, <1>11, LineKeeps

LEMMA DeviceSendsKeeps == SerialInv /\ DeviceSends => SerialInv'
  <1> SUFFICES ASSUME SerialInv, DeviceSends
               PROVE  SerialInv'
    OBVIOUS
  <1>1. OwedStep /\ Calm /\ rx' = rx \o Escaped(Head(owed)) /\ events' = events
    BY DEF DeviceSends, OwedStep, Calm, Aside, local
  <1>2. SerialTypes'
    <2>1. Head(owed) \in Byte /\ owed' \in Seq(Byte)
      BY <1>1, BytesAre DEF OwedStep, SerialInv, SerialTypes, TypeOK
    <2>2. rx' \in Seq(Byte)
      BY <1>1, <2>1, OneByte, BytesConcat DEF SerialInv, SerialTypes, TypeOK
    <2> QED
      BY <1>1, <2>1, <2>2 DEF SerialInv, SerialTypes, TypeOK, OwedStep, Aside
  <1> QED
    BY <1>1, <1>2, OwedKeeps

LEMMA LoseKeeps == SerialInv /\ Lose => SerialInv'
  <1> SUFFICES ASSUME SerialInv, Lose
               PROVE  SerialInv'
    OBVIOUS
  <1>1. OwedStep /\ Calm /\ rx' = rx /\ ~running /\ Disturbance
    BY DEF Lose, OwedStep, Calm, Aside, local, line
  <1>2. SerialTypes'
    <2>1. owed' \in Seq(Byte)
      BY <1>1, BytesAre DEF OwedStep, SerialInv, SerialTypes, TypeOK
    <2>2. events' \in 0 .. Events
      BY <1>1, SerialAssumption DEF Disturbance, SerialInv, SerialTypes, TypeOK
    <2> QED
      BY <1>1, <2>1, <2>2 DEF SerialInv, SerialTypes, TypeOK, OwedStep, Aside
  <1> QED
    BY <1>1, <1>2, OwedKeeps

-----------------------------------------------------------------------------
(* What was sent reaches the device, and comes back.                       *)

\* What becomes of the device at a byte.
LEMMA ReceiveIs ==
    \A b : Receive(b) =>
        /\ dev = "deaf" => UNCHANGED <<running, owed, ran, answer>> /\ dev' = IF b = "sync" THEN "ready" ELSE "deaf"
        /\ dev = "ready" /\ b = "rd" => /\ UNCHANGED <<dev, running>> /\ ran' = Append(ran, <<"rd">>)
                                        /\ answer' \in Answers /\ owed' = owed \o answer'
        /\ dev = "ready" /\ b = "go" => UNCHANGED <<dev, owed, answer>> /\ ran' = Append(ran, <<"go">>)
        /\ dev = "ready" /\ b = "wr" => UNCHANGED <<running, owed, ran, answer>> /\ dev' = "arg"
        /\ dev = "ready" /\ b = "sync" => UNCHANGED device
        /\ dev = "arg" => UNCHANGED <<running, owed, answer>> /\ ran' = Append(ran, <<"wr", b>>) /\ dev' = "ready"
        /\ running' = running \/ (dev = "ready" /\ b = "go")
  BY DEF Receive, Executes, device

\* One of the bytes that were sent reaches the device.
SentStep ==
    /\ Aside /\ tx # <<>> /\ tx' = Tail(tx) /\ Receive(Head(tx))

LEMMA SentOne == SentStep => \A b \in Byte : tx = <<b>> => Receive(b) /\ tx' = <<>>
  BY DEF SentStep

LEMMA SentTwo == SentStep => \A a, b \in Byte : tx = <<a, b>> => Receive(a) /\ tx' = <<b>>
  BY DEF SentStep

\* Only one that starts the program.
LEMMA OneStarts ==
    ASSUME SentStep, Honest, ~running, running'
    PROVE  \E f \in Jobs : f.name # "ack" /\ f.name = last /\ IsGo(f)
  <1>1. dev = "ready" /\ Head(tx) = "go" /\ tx # <<>>
    <2>1. PICK b : b = Head(tx)
      OBVIOUS
    <2>2. dev = "ready" /\ b = "go"
      BY <2>1, ReceiveIs DEF SentStep
    <2> QED
      BY <2>1, <2>2 DEF SentStep
  <1>2. Sending(tx)
    BY <1>1 DEF Honest
  <1>3. tx # Sync
    BY <1>1 DEF Sync
  <1>4. PICK f \in Jobs : f.name # "ack" /\ f.name = last /\ OnItsWay(f, tx)
    BY <1>1, <1>2, <1>3 DEF Sending
  <1>5. tx # <<"rd">> /\ tx # <<"wr">> /\ \A b \in Byte : tx # <<"wr", b>>
    BY <1>1
  <1> QED
    BY <1>4, <1>5 DEF OnItsWay

LEMMA CommandAtSent ==
    ASSUME SentStep, Honest, Asked
    PROVE  \A f : Command(f) /\ f.name = job.name => Command(f)'
  <1> SUFFICES ASSUME NEW f, Command(f), f.name = job.name
               PROVE  Command(f)'
    OBVIOUS
  <1>1. f \in Jobs /\ f.name # "ack" /\ f.name \notin {"none", "reset"}
    BY JobParts DEF Command
  <1>2. last = f.name
    BY <1>1 DEF Asked
  <1>3. CASE ~running /\ running'
    <2>1. PICK g \in Jobs : g.name # "ack" /\ g.name = last /\ IsGo(g)
      BY <1>3, OneStarts
    <2>2. f = g
      BY <1>1, <1>2, <2>1, JobParts
    <2>3. f.writes = <<<<"go">>>>
      BY <2>1, <2>2 DEF IsGo
    <2>4. ~(Len(f.writes) > 1)
      BY <2>3
    <2> QED
      BY <1>1, <2>4 DEF Command
  <1>4. CASE ~(~running /\ running')
    BY <1>4 DEF Command
  <1> QED
    BY <1>3, <1>4

LEMMA NestedAtSent ==
    ASSUME SentStep, Honest, Asked, Nested
    PROVE  Nested'
  <1>1. calls' = calls /\ job' = job
    BY DEF SentStep, Aside
  <1>2. PICK n \in 0 .. Len(calls) :
        /\ \A i \in 1 .. n : calls[i] = Sync
        /\ \/ n = Len(calls) /\ (job = ResetJob \/ Command(job))
           \/ /\ n + 1 = Len(calls)
              /\ \E f \in Jobs : /\ Command(f) /\ calls[n + 1] = f.writes[1]
                                 /\ job = Part(f, Tail(f.writes))
    BY DEF Nested
  <1>3. \A f : Command(f) /\ f.name = job.name => Command(f)'
    BY CommandAtSent
  <1>4. Command(job) => Command(job)'
    BY <1>1, <1>3 DEF Command
  <1>5. ASSUME NEW f \in Jobs, Command(f), job = Part(f, Tail(f.writes))
        PROVE  Command(f)'
    BY <1>3, <1>5, SizeOfJob
  <1>6. \/ n = Len(calls') /\ (job' = ResetJob \/ Command(job)')
        \/ /\ n + 1 = Len(calls')
           /\ \E f \in Jobs : /\ Command(f)' /\ calls'[n + 1] = f.writes[1]
                              /\ job' = Part(f, Tail(f.writes))
    BY <1>1, <1>2, <1>4, <1>5
  <1>7. n \in 0 .. Len(calls') /\ \A i \in 1 .. n : calls'[i] = Sync
    BY <1>1, <1>2
  <1> QED
    BY <1>6, <1>7 DEF Nested

LEMMA HonestAtSent ==
    ASSUME SentStep, Honest
    PROVE  Honest'
  <1>0. /\ ran = <<>> /\ answer = <<>> /\ Sending(tx) /\ last' = last
        /\ \A x \in {"rd", "go", "wr", "sync"} : x \in Byte
    BY DEF Honest, SentStep, Aside, Byte
  <1>1. \A f \in Jobs : f.name # "nothing"
    BY JobParts
  <1>2. ASSUME NEW f \in Jobs, f.name # "ack", f.name = last, dev = "ready", IsRead(f), tx = <<"rd">>
        PROVE  Honest'
    <2>1. Receive("rd") /\ tx' = <<>>
      BY <1>0, <1>2, SentOne
    <2>2. ran' = <<<<"rd">>>>
      BY <1>0, <1>2, <2>1, ReceiveIs
    <2> QED
      BY <1>0, <1>1, <1>2, <2>1, <2>2 DEF Honest, IsRead
  <1>3. ASSUME NEW f \in Jobs, f.name # "ack", f.name = last, dev = "ready", IsGo(f), tx = <<"go">>
        PROVE  Honest'
    <2>1. Receive("go") /\ tx' = <<>>
      BY <1>0, <1>3, SentOne
    <2>2. ran' = <<<<"go">>>>
      BY <1>0, <1>3, <2>1, ReceiveIs
    <2> QED
      BY <1>0, <1>1, <1>3, <2>1, <2>2 DEF Honest, IsGo
  <1>4. CASE dev = "ready" /\ tx = <<"wr">>
    <2>1. Receive("wr") /\ tx' = <<>>
      BY <1>0, <1>4, SentOne
    <2>2. ran' = <<>> /\ answer' = <<>>
      BY <1>0, <1>4, <2>1, ReceiveIs
    <2> QED
      BY <2>1, <2>2 DEF Honest
  <1>5. ASSUME NEW f \in Jobs, f.name # "ack", f.name = last, dev = "ready", NEW b \in Byte,
               IsWrite(f, b) \/ IsSplit(f, b), tx = <<"wr", b>>
        PROVE  Honest'
    <2>1. Receive("wr") /\ tx' = <<b>>
      BY <1>0, <1>5, SentTwo
    <2>2. ran' = <<>> /\ answer' = <<>> /\ dev' = "arg"
      BY <1>0, <1>5, <2>1, ReceiveIs
    <2>3. Sending(tx)'
      BY <1>0, <1>5, <2>1, <2>2 DEF Sending
    <2> QED
      BY <2>2, <2>3 DEF Honest
  <1>6. CASE dev = "ready" /\ tx = Sync
    <2>1. Receive("sync") /\ tx' = <<>>
      BY <1>0, <1>6, SentOne DEF Sync
    <2>2. ran' = <<>> /\ answer' = <<>>
      BY <1>0, <1>6, <2>1, ReceiveIs DEF device
    <2> QED
      BY <2>1, <2>2 DEF Honest
  <1>7. ASSUME NEW f \in Jobs, f.name # "ack", f.name = last, dev = "arg", NEW b \in Byte,
               IsWrite(f, b) \/ IsSplit(f, b), tx = <<b>>
        PROVE  Honest'
    <2>1. Receive(b) /\ tx' = <<>>
      BY <1>7, SentOne
    <2>2. ran' = <<<<"wr", b>>>>
      BY <1>0, <1>7, <2>1, ReceiveIs
    <2>3. Whole(last) = <<"wr", b>>
      BY <1>7 DEF IsWrite, IsSplit
    <2> QED
      BY <1>0, <1>1, <1>7, <2>1, <2>2, <2>3 DEF Honest
  <1>8. ASSUME dev = "deaf", NEW b \in Byte, tx = <<b>>
        PROVE  Honest'
    <2>1. Receive(b) /\ tx' = <<>>
      BY <1>8, SentOne
    <2>2. ran' = <<>> /\ answer' = <<>>
      BY <1>0, <1>8, <2>1, ReceiveIs
    <2> QED
      BY <2>1, <2>2 DEF Honest
  <1>9. ASSUME dev = "deaf", NEW b \in Byte, tx = <<"wr", b>>
        PROVE  Honest'
    <2>1. Receive("wr") /\ tx' = <<b>>
      BY <1>0, <1>9, SentTwo
    <2>2. ran' = <<>> /\ answer' = <<>> /\ dev' = "deaf"
      BY <1>0, <1>9, <2>1, ReceiveIs
    <2>3. Sending(tx)'
      BY <2>1, <2>2, <1>9 DEF Sending
    <2> QED
      BY <2>2, <2>3 DEF Honest
  <1> QED
    BY <1>0, <1>2, <1>3, <1>4, <1>5, <1>6, <1>7, <1>8, <1>9 DEF Sending, OnItsWay

LEMMA SettledReady ==
    ASSUME tx' = <<>>, owed' = <<>>, dev' = "ready"
    PROVE  Settled(<<>>, <<>>)'
  BY DEF Settled, AtMostAck, Hears

LEMMA SyncAtSent ==
    ASSUME SentStep, NEW g, NEW r, EchoSync(g, r), NEW b, b = Head(tx), NEW g2, NEW q, Comes(b, g, r, g2, q)
    PROVE  EchoSync(g2, q)'
  <1>1. ahead' = <<>> /\ ran = <<>>
    BY DEF EchoSync, SentStep, Aside
  <1>2. r = <<>> /\ g = <<>> /\ tx = Sync /\ owed = <<>> /\ dev \in {"deaf", "ready"} /\ "sync" \in Byte
    BY DEF EchoSync, SentStep, Settled, Byte
  <1>3. Receive("sync") /\ tx' = <<>> /\ b = "sync"
    BY <1>2, SentOne DEF Sync
  <1>4. dev' = "ready" /\ owed' = <<>> /\ ran' = <<>>
    BY <1>1, <1>2, <1>3, ReceiveIs DEF device
  <1>5. Settled(<<>>, <<>>)'
    BY <1>3, <1>4, SettledReady
  <1>6. g2 = Sync \o <<>> /\ q = <<>>
    BY <1>2, <1>3 DEF Comes, Sync
  <1> QED
    BY <1>1, <1>4, <1>5, <1>6 DEF EchoSync

LEMMA FirstAtSent ==
    ASSUME SentStep, NEW f \in Jobs, f.name # "ack", f.name = last, f.size = job.size,
           NEW g, NEW r, EchoFirst(f, g, r), NEW b, b = Head(tx), NEW g2, NEW q, Comes(b, g, r, g2, q)
    PROVE  EchoFirst(f, g2, q)'
  <1>0. /\ ahead' = <<>> /\ last' = last /\ job' = job
        /\ \A x \in {"rd", "go", "wr", "sync"} : x \in Byte
    BY DEF EchoFirst, SentStep, Aside, Byte
  <1>1. CASE r = <<>> /\ owed = <<>> /\ ran = <<>> /\ g = <<>> /\ tx = f.writes[1] /\ dev = "ready"
    <2>0. q = <<>> /\ g2 = <<b>>
      BY <1>1 DEF Comes
    <2>1. CASE IsRead(f)
      <3>1. Receive("rd") /\ tx' = <<>> /\ b = "rd" /\ f.writes[1] = <<"rd">>
        BY <1>0, <1>1, <2>1, SentOne DEF IsRead
      <3>2. dev' = "ready" /\ answer' \in Answers /\ ran' = <<<<"rd">>>> /\ owed' = <<>> \o answer'
        BY <1>1, <3>1, ReceiveIs
      <3>3. answer' \in Seq(Byte) /\ answer' # <<>> /\ owed' = answer' /\ <<>> \o owed' = answer'
        BY <3>2, SerialAssumption, NoBytes
      <3>4. Len(answer') = job'.size /\ f.size > 0 /\ ran' = <<Whole(last')>>
        BY <1>0, <2>1, <3>2 DEF IsRead
      <3>5. Answering(<<>>, <<>>)'
        BY <1>0, <3>1, <3>2, <3>3, <3>4 DEF Answering
      <3>6. g2 = f.writes[1] \o <<>> /\ <<>> \in Seq(Byte)
        BY <2>0, <3>1, <1>0, NoBytes
      <3> QED
        BY <1>0, <2>0, <3>4, <3>5, <3>6 DEF EchoFirst
    <2>2. CASE IsGo(f)
      <3>1. Receive("go") /\ tx' = <<>> /\ b = "go" /\ f.writes[1] = <<"go">>
        BY <1>0, <1>1, <2>2, SentOne DEF IsGo
      <3>2. dev' = "ready" /\ owed' = <<>> /\ ran' = <<<<"go">>>>
        BY <1>1, <3>1, ReceiveIs
      <3>3. Settled(<<>>, <<>>)'
        BY <3>1, <3>2, SettledReady
      <3>4. f.size = 0 /\ Len(f.writes) = 1 /\ ran' = <<Whole(last')>>
        BY <1>0, <2>2, <3>2 DEF IsGo
      <3>6. g2 = f.writes[1] \o <<>>
        BY <2>0, <3>1, <1>0, NoBytes
      <3> QED
        BY <1>0, <2>0, <3>3, <3>4, <3>6 DEF EchoFirst
    <2>3. ASSUME NEW c \in Byte, IsWrite(f, c)
          PROVE  EchoFirst(f, g2, q)'
      <3>1. Receive("wr") /\ tx' = <<c>> /\ b = "wr" /\ f.writes[1] = <<"wr", c>>
        BY <1>0, <1>1, <2>3, SentTwo DEF IsWrite
      <3>2. dev' = "arg" /\ owed' = <<>> /\ ran' = <<>>
        BY <1>1, <3>1, ReceiveIs
      <3>3. Len(f.writes[1]) = 2 /\ f.writes[1][2] = c
        BY <3>1
      <3> QED
        BY <1>0, <2>0, <3>1, <3>2, <3>3 DEF EchoFirst
    <2>4. ASSUME NEW c \in Byte, IsSplit(f, c)
          PROVE  EchoFirst(f, g2, q)'
      <3>1. Receive("wr") /\ tx' = <<>> /\ b = "wr" /\ f.writes[1] = <<"wr">> /\ Len(f.writes) = 2
        BY <1>0, <1>1, <2>4, SentOne DEF IsSplit
      <3>2. dev' = "arg" /\ owed' = <<>> /\ ran' = <<>>
        BY <1>1, <3>1, ReceiveIs
      <3> QED
        BY <1>0, <2>0, <3>1, <3>2 DEF EchoFirst
    <2> QED
      BY <2>1, <2>2, <2>3, <2>4, Kinds
  <1>2. CASE /\ r = <<>> /\ owed = <<>> /\ ran = <<>> /\ dev = "arg"
             /\ Len(f.writes[1]) = 2 /\ g = <<"wr">> /\ tx = <<f.writes[1][2]>>
    <2>1. PICK c \in Byte : IsWrite(f, c)
      BY <1>2, Kinds DEF IsRead, IsGo, IsSplit
    <2>2. f.writes[1] = <<"wr", c>> /\ f.writes[1][2] = c /\ f.size = 0 /\ Len(f.writes) = 1
      BY <2>1 DEF IsWrite
    <2>3. Receive(c) /\ tx' = <<>> /\ b = c
      BY <1>2, <2>2, SentOne
    <2>4. dev' = "ready" /\ owed' = <<>> /\ ran' = <<<<"wr", c>>>>
      BY <1>2, <2>3, ReceiveIs
    <2>5. Settled(<<>>, <<>>)' /\ ran' = <<Whole(last')>>
      BY <1>0, <2>1, <2>3, <2>4, SettledReady DEF IsWrite
    <2>6. q = <<>> /\ g2 = f.writes[1] \o <<>>
      <3>1. <<"wr", c>> \in Seq(Byte) /\ g2 = <<"wr", c>> /\ q = <<>>
        BY <1>0, <1>2, <2>3 DEF Comes
      <3> QED
        BY <2>2, <3>1, NoBytes
    <2> QED
      BY <1>0, <2>2, <2>5, <2>6 DEF EchoFirst
  <1> QED
    BY <1>1, <1>2 DEF EchoFirst, SentStep, Settled, Answering

LEMMA SecondAtSent ==
    ASSUME SentStep, NEW f \in Jobs, f.name # "ack", f.name = last, Len(f.writes) = 2,
           NEW g, NEW r, EchoSecond(f, g, r), NEW b, b = Head(tx), NEW g2, NEW q, Comes(b, g, r, g2, q)
    PROVE  EchoSecond(f, g2, q)'
  <1>0. ahead' = <<>> /\ last' = last /\ job' = job
    BY DEF EchoSecond, SentStep, Aside
  <1>1. r = <<>> /\ owed = <<>> /\ ran = <<>> /\ g = <<>> /\ tx = f.writes[2] /\ dev = "arg"
    BY DEF EchoSecond, SentStep, Settled
  <1>2. PICK c \in Byte : IsSplit(f, c)
    BY Kinds DEF IsRead, IsGo, IsWrite
  <1>3. f.writes[2] = <<c>>
    BY <1>2 DEF IsSplit
  <1>4. Receive(c) /\ tx' = <<>> /\ b = c
    BY <1>1, <1>3, SentOne
  <1>5. dev' = "ready" /\ owed' = <<>> /\ ran' = <<<<"wr", c>>>>
    BY <1>1, <1>4, ReceiveIs
  <1>6. Settled(<<>>, <<>>)' /\ ran' = <<Whole(last')>>
    BY <1>0, <1>2, <1>4, <1>5, SettledReady DEF IsSplit
  <1>7. q = <<>> /\ g2 = f.writes[2] \o <<>>
    BY <1>1, <1>3, <1>4, NoBytes DEF Comes
  <1> QED
    BY <1>0, <1>6, <1>7 DEF EchoSecond

LEMMA EchoAtSent ==
    ASSUME SentStep, Honest, Asked, calls # <<>>, NEW g \in Seq(Byte), NEW r, Echo(g, r),
           NEW b \in Byte, b = Head(tx), NEW g2, NEW q, Comes(b, g, r, g2, q)
    PROVE  Echo(g2, q)'
  <1>0. calls' = calls /\ job' = job /\ Aside
    BY DEF SentStep, Aside
  <1>a. \A w : Foul(w, g, r) => Foul(w, g2, q)
    BY FoulStays
  <1>b. \A f : Command(f) => f \in Jobs /\ f.name # "ack" /\ f.name \notin {"none", "reset"}
    BY JobParts DEF Command
  <1>1. CASE Head(calls) = Sync /\ Nested /\ (Foul(Sync, g, r) \/ EchoSync(g, r))
    <2>1. Foul(Sync, g2, q) \/ EchoSync(g2, q)'
      BY <1>a, <1>1, SyncAtSent
    <2> QED
      BY <1>0, <1>1, <2>1, NestedAtSent DEF Echo
  <1>2. ASSUME NEW f \in Jobs, Command(f), First(f), Foul(f.writes[1], g, r) \/ EchoFirst(f, g, r)
        PROVE  Echo(g2, q)'
    <2>1. job.name = f.name /\ job.size = f.size
      BY <1>2, SizeOfJob DEF First
    <2>2. last = f.name
      BY <1>b, <1>2, <2>1 DEF Asked
    <2>3. Foul(f.writes[1], g2, q) \/ EchoFirst(f, g2, q)'
      BY <1>a, <1>b, <1>2, <2>1, <2>2, FirstAtSent
    <2>4. Command(f)' /\ First(f)'
      BY <1>0, <1>2, <2>1, CommandAtSent, CalmWrites
    <2> QED
      BY <2>3, <2>4 DEF Echo
  <1>3. ASSUME NEW f \in Jobs, Command(f), Second(f), Foul(f.writes[2], g, r) \/ EchoSecond(f, g, r)
        PROVE  Echo(g2, q)'
    <2>1. job.name = f.name /\ Len(f.writes) = 2
      BY <1>3, SizeOfJob DEF Second
    <2>2. last = f.name
      BY <1>b, <1>3, <2>1 DEF Asked
    <2>3. Foul(f.writes[2], g2, q) \/ EchoSecond(f, g2, q)'
      BY <1>a, <1>b, <1>3, <2>1, <2>2, SecondAtSent
    <2>4. Command(f)' /\ Second(f)'
      BY <1>0, <1>3, <2>1, CommandAtSent, CalmWrites
    <2> QED
      BY <2>3, <2>4 DEF Echo
  <1> QED
    BY <1>1, <1>2, <1>3 DEF Echo

LEMMA SentTypes ==
    ASSUME SerialTypes, SentStep, Honest, rx' = rx \o Escaped(Head(tx)), events' = events
    PROVE  SerialTypes'
  <1>1. Head(tx) \in Byte /\ tx' \in Seq(Byte)
    BY BytesAre DEF SentStep, SerialTypes, TypeOK
  <1>2. rx' \in Seq(Byte)
    BY <1>1, OneByte, BytesConcat DEF SerialTypes, TypeOK
  <1>3. PICK b \in Byte : b = Head(tx) /\ Receive(b)
    BY <1>1 DEF SentStep
  <1>4. dev' \in {"deaf", "ready", "arg"} /\ running' \in BOOLEAN /\ (answer' = <<>> \/ answer' \in Answers)
    BY <1>3 DEF Receive, SerialTypes, TypeOK, device
  <1>5. owed' = owed \/ (answer' \in Answers /\ owed' = owed \o answer')
    BY <1>3 DEF Receive, device
  <1>6. owed' \in Seq(Byte)
    BY <1>5, SerialAssumption, BytesConcat DEF SerialTypes, TypeOK
  <1> QED
    BY <1>1, <1>2, <1>4, <1>6 DEF SerialTypes, TypeOK, SentStep, Aside

LEMMA TransmitKeeps == SerialInv /\ Transmit => SerialInv'
  <1> SUFFICES ASSUME SerialInv, Transmit
               PROVE  SerialInv'
    OBVIOUS
  <1>0. SentStep /\ Aside /\ rx' = rx \o Escaped(Head(tx)) /\ events' = events /\ tx # <<>>
    BY DEF Transmit, SentStep, Aside, local
  <1>a. ahead' = ahead /\ esc' = esc /\ got' = got /\ job' = job
    BY <1>0 DEF Aside
  <1>b. SerialTypes /\ TypeOK /\ Honest /\ Asked
    BY DEF SerialInv, SerialTypes
  <1>1. PICK b \in Byte : b = Head(tx)
    BY <1>0, <1>b, BytesAre DEF TypeOK
  <1>2. Honest'
    BY <1>0, <1>b, HonestAtSent
  <1>3. SerialTypes'
    BY <1>0, <1>b, SentTypes
  <1>4. ~Rested /\ \A d, r : ~Poised(d, r)
    BY <1>0 DEF Rested, Settled, Poised
  <1>5. Command(job) => Command(job)'
    BY <1>0, <1>a, <1>b, CommandAtSent DEF Command
  <1>6. ASSUME NEW g, NEW r, Heard(g, r), Echo(g, r), calls # <<>>
        PROVE  \E g2, r2 : Heard(g2, r2)' /\ Echo(g2, r2)'
    <2>1. PICK g2, q : Comes(b, g, r, g2, q) /\ Heard(g2, q)' /\ g \in Seq(Byte)
      BY <1>0, <1>1, <1>a, <1>b, <1>6, HostHears
    <2> QED
      BY <1>0, <1>1, <1>b, <1>6, <2>1, EchoAtSent
  <1>7. pc # "read"
    BY <1>0 DEF SerialInv, ReadInv
  <1>8. pc = "verify" => calls # <<>>
    BY DEF SerialInv, VerifyInv
  <1>9. pc \in {"flush", "break", "flush_again"} => Nested'
    BY <1>0, <1>b, NestedAtSent DEF SerialInv, ResetInv
  <1> QED
    BY <1>0, <1>2, <1>3, <1>4, <1>5, <1>6, <1>7, <1>8, <1>9, LineKeeps

-----------------------------------------------------------------------------
(* The host only reads, gives up or returns.                               *)

\* It only reads.
ReadStep ==
    /\ UNCHANGED <<dev, running, owed, tx, ran, answer, up, calls, job, last>>
    /\ ahead = <<>> => ahead' = <<>>

LEMMA SettledKept == ReadStep => \A d, r : Settled(d, r) => Settled(d, r)'
  BY DEF ReadStep, Settled, AtMostAck, Hears

LEMMA CommandKept == running' = running => \A f : Command(f) => Command(f)'
  BY DEF Command

LEMMA WritesKept == calls' = calls /\ job' = job => \A f : (First(f) => First(f)') /\ (Second(f) => Second(f)')
  BY DEF First, Second

LEMMA NestedKept == calls' = calls /\ job' = job /\ running' = running /\ Nested => Nested'
  <1> SUFFICES ASSUME calls' = calls, job' = job, running' = running, Nested
               PROVE  Nested'
    OBVIOUS
  <1>2. PICK n \in 0 .. Len(calls) :
        /\ \A i \in 1 .. n : calls[i] = Sync
        /\ \/ n = Len(calls) /\ (job = ResetJob \/ Command(job))
           \/ /\ n + 1 = Len(calls)
              /\ \E f \in Jobs : /\ Command(f) /\ calls[n + 1] = f.writes[1]
                                 /\ job = Part(f, Tail(f.writes))
    BY DEF Nested
  <1>4. (Command(job) => Command(job)') /\ \A f : Command(f) => Command(f)'
    BY CommandKept DEF Command
  <1>5. \/ n = Len(calls') /\ (job' = ResetJob \/ Command(job)')
        \/ /\ n + 1 = Len(calls')
           /\ \E f \in Jobs : /\ Command(f)' /\ calls'[n + 1] = f.writes[1]
                              /\ job' = Part(f, Tail(f.writes))
    BY <1>2, <1>4
  <1>6. n \in 0 .. Len(calls') /\ \A i \in 1 .. n : calls'[i] = Sync
    BY <1>2
  <1> QED
    BY <1>5, <1>6 DEF Nested

LEMMA AnsweringKept == ReadStep => \A g, r : Answering(g, r) => Answering(g, r)'
  <1> SUFFICES ASSUME ReadStep, NEW g, NEW r, Answering(g, r)
               PROVE  Answering(g, r)'
    OBVIOUS
  <1>1. \A d, q : Settled(d, q) => Settled(d, q)'
    BY SettledKept
  <1> QED
    BY <1>1 DEF ReadStep, Answering

LEMMA EchoKept == ReadStep => \A g, r : Echo(g, r) => Echo(g, r)'
  <1> SUFFICES ASSUME ReadStep, NEW g, NEW r, Echo(g, r)
               PROVE  Echo(g, r)'
    OBVIOUS
  <1>0. /\ dev' = dev /\ running' = running /\ owed' = owed /\ tx' = tx /\ ran' = ran /\ answer' = answer
        /\ calls' = calls /\ job' = job /\ last' = last
    BY DEF ReadStep
  <1>1. EchoSync(g, r) => EchoSync(g, r)'
    <2>1. \A d, q : Settled(d, q) => Settled(d, q)'
      BY SettledKept
    <2> QED
      BY <2>1 DEF ReadStep, EchoSync
  <1>2. \A f : EchoFirst(f, g, r) => EchoFirst(f, g, r)'
    <2>1. \A d, q : Settled(d, q) => Settled(d, q)'
      BY SettledKept
    <2>2. \A x, q : Answering(x, q) => Answering(x, q)'
      BY AnsweringKept
    <2> QED
      BY <2>1, <2>2 DEF ReadStep, EchoFirst
  <1>3. \A f : EchoSecond(f, g, r) => EchoSecond(f, g, r)'
    <2>1. \A d, q : Settled(d, q) => Settled(d, q)'
      BY SettledKept
    <2> QED
      BY <2>1 DEF ReadStep, EchoSecond
  <1>4. CASE Head(calls) = Sync /\ Nested /\ (Foul(Sync, g, r) \/ EchoSync(g, r))
    BY <1>0, <1>1, <1>4, NestedKept DEF Echo
  <1>5. ASSUME NEW f \in Jobs, Command(f), First(f), Foul(f.writes[1], g, r) \/ EchoFirst(f, g, r)
        PROVE  Echo(g, r)'
    <2>1. Command(f)' /\ First(f)'
      BY <1>0, <1>5, CommandKept, WritesKept
    <2> QED
      BY <1>2, <1>5, <2>1 DEF Echo
  <1>6. ASSUME NEW f \in Jobs, Command(f), Second(f), Foul(f.writes[2], g, r) \/ EchoSecond(f, g, r)
        PROVE  Echo(g, r)'
    <2>1. Command(f)' /\ Second(f)'
      BY <1>0, <1>6, CommandKept, WritesKept
    <2> QED
      BY <1>3, <1>6, <2>1 DEF Echo
  <1> QED
    BY <1>4, <1>5, <1>6 DEF Echo

LEMMA AnswerKept == ReadStep => \A g, r : Replying(g, r) => Replying(g, r)'
  <1> SUFFICES ASSUME ReadStep, NEW g, NEW r, Replying(g, r)
               PROVE  Replying(g, r)'
    OBVIOUS
  <1>1. \A d, q : Settled(d, q) => Settled(d, q)'
    BY SettledKept
  <1>2. \A x, q : Answering(x, q) => Answering(x, q)'
    BY AnsweringKept
  <1> QED
    BY <1>1, <1>2 DEF ReadStep, Replying

\* The end of a call.
LEMMA ThrowKeeps ==
    ASSUME Asked, SerialTypes', Honest', Throw
    PROVE  SerialInv'
  <1>1. up' = FALSE /\ pc' = "idle" /\ job' = NoJob /\ calls' = <<>> /\ got' = <<>> /\ esc' = "normal" /\ last' = last
    BY DEF Throw, Leave
  <1>2. Asked'
    BY <1>1 DEF Asked, NoJob
  <1>3. IdleInv'
    BY <1>1 DEF IdleInv
  <1>4. BeginInv' /\ ResetInv' /\ WriteInv' /\ VerifyInv' /\ ReadInv' /\ SizeInv'
    BY <1>1 DEF BeginInv, ResetInv, WriteInv, VerifyInv, ReadInv, SizeInv
  <1> QED
    BY <1>2, <1>3, <1>4 DEF SerialInv

LEMMA DoneKeeps ==
    ASSUME SerialTypes', Done, Rested'
    PROVE  SerialInv'
  <1>1. /\ pc' = "idle" /\ job' = NoJob /\ calls' = <<>> /\ got' = <<>> /\ esc' = "normal"
        /\ last' = "nothing" /\ ran' = <<>> /\ answer' = <<>>
    BY DEF Done, Leave, Forget
  <1>2. Asked'
    BY <1>1 DEF Asked, NoJob
  <1>3. IdleInv'
    BY <1>1 DEF IdleInv
  <1>4. BeginInv' /\ ResetInv' /\ WriteInv' /\ VerifyInv' /\ ReadInv' /\ SizeInv'
    BY <1>1 DEF BeginInv, ResetInv, WriteInv, VerifyInv, ReadInv, SizeInv
  <1>5. Honest'
    <2>1. tx' = <<>>
      BY DEF Rested, Settled
    <2> QED
      BY <1>1, <2>1 DEF Honest
  <1> QED
    BY <1>2, <1>3, <1>4, <1>5 DEF SerialInv

\* What the types need of a call that ends.
LEMMA LeaveTypes ==
    ASSUME SerialTypes, Leave, UNCHANGED <<dev, running, owed, rx, ahead>>, tx' \in Seq(Byte),
           up' \in BOOLEAN, answer' \in {<<>>, answer}, events' \in 0 .. Events
    PROVE  SerialTypes'
  <1>1. pc' = "idle" /\ calls' = <<>> /\ got' = <<>> /\ esc' = "normal"
    BY DEF Leave
  <1>2. <<>> \in Seq(Seq(Byte) \ {<<>>}) /\ <<>> \in Seq(Byte) /\ DOMAIN <<>> = {}
    BY EmptySeq
  <1> QED
    BY <1>1, <1>2 DEF SerialTypes, TypeOK

LEMMA HonestKept == UNCHANGED <<dev, tx, ran, answer, last>> /\ Honest => Honest'
  BY DEF Honest, Sending

LEMMA SizeType == SerialInv /\ pc \in {"verify", "read"} => Size \in Nat
  <1> SUFFICES ASSUME SerialInv, pc \in {"verify", "read"}
               PROVE  Size \in Nat
    OBVIOUS
  <1>1. CASE pc = "verify"
    <2>1. calls \in Seq(Seq(Byte) \ {<<>>}) /\ calls # <<>>
      BY <1>1 DEF SerialInv, SerialTypes, VerifyInv
    <2>2. Head(calls) \in Seq(Byte)
      BY <2>1, HeadAndTail
    <2> QED
      BY <1>1, <2>2, NoBytes DEF Size
  <1>2. CASE pc = "read"
    <2>1. \/ \E f \in Jobs : f.name # "ack" /\ f.size > 0 /\ job = Part(f, <<>>)
          \/ job \in Jobs /\ job.name = "ack"
      BY <1>2 DEF SerialInv, ReadInv
    <2>2. job.size \in Nat
      BY <2>1, SizeOfJob
    <2> QED
      BY <1>2, <2>2 DEF Size
  <1> QED
    BY <1>1, <1>2

LEMMA InterruptedKeeps == SerialInv /\ Interrupted => SerialInv'
  <1> SUFFICES ASSUME SerialInv, Interrupted
               PROVE  SerialInv'
    OBVIOUS
  <1>1. Throw /\ UNCHANGED <<dev, running, owed, tx, rx, ahead, events>>
    BY DEF Interrupted, line
  <1>2. Honest'
    BY <1>1, HonestKept DEF Throw, SerialInv
  <1>3. SerialTypes'
    BY <1>1, LeaveTypes DEF Throw, SerialInv, SerialTypes, TypeOK
  <1> QED
    BY <1>1, <1>2, <1>3, ThrowKeeps DEF SerialInv

LEMMA TimeoutKeeps == SerialInv /\ Timeout => SerialInv'
  <1> SUFFICES ASSUME SerialInv, Timeout
               PROVE  SerialInv'
    OBVIOUS
  <1>0. pc \in {"verify", "read"} /\ esc # "thrown" /\ ahead = <<>> /\ rx = <<>>
    BY DEF Timeout, Reading, line
  <1>1. PICK g, r : Heard(g, r)
    BY <1>0 DEF SerialInv, VerifyInv, ReadInv
  <1>2. PICK d : Coming(d, r)
    BY <1>1 DEF Heard
  <1>3. esc \in ScanStates
    BY <1>0 DEF SerialInv, SerialTypes, TypeOK, ScanStates
  <1>4. esc = "normal"
    BY <1>0, <1>2, <1>3, EscapeGoesOn
  <1>5. Throw /\ UNCHANGED <<dev, running, owed, tx, rx, ahead>> /\ (events' = events \/ Disturbance)
    BY <1>4 DEF Timeout, line
  <1>6. Honest'
    BY <1>5, HonestKept DEF Throw, SerialInv
  <1>7. events' \in 0 .. Events
    BY <1>5, SerialAssumption DEF Disturbance, SerialInv, SerialTypes, TypeOK
  <1>8. SerialTypes'
    BY <1>5, <1>7, LeaveTypes DEF Throw, SerialInv, SerialTypes, TypeOK
  <1> QED
    BY <1>5, <1>6, <1>8, ThrowKeeps DEF SerialInv

LEMMA ChunkKeeps == SerialInv /\ Chunk => SerialInv'
  <1> SUFFICES ASSUME SerialInv, Chunk
               PROVE  SerialInv'
    OBVIOUS
  <1>0. /\ pc \in {"verify", "read"} /\ esc # "thrown"
        /\ UNCHANGED <<dev, running, owed, ran, answer, tx, up, pc, calls, job, last, events>>
    BY DEF Chunk, Reading, device
  <1>1. PICK g, r : Heard(g, r) /\ (pc = "verify" => Echo(g, r)) /\ (pc = "read" => Replying(g, r))
    BY <1>0 DEF SerialInv, VerifyInv, ReadInv
  <1>2. TypeOK /\ SerialTypes /\ Size \in Nat
    BY <1>0, SizeType DEF SerialInv, SerialTypes
  <1>3. /\ got' \in Seq(Byte) /\ ahead' \in Seq(Byte) /\ rx' \in Seq(Byte)
        /\ Len(got') <= Size /\ (esc' # "normal" => Len(got') < Size)
        /\ esc' \in {"normal", "escape", "error", "thrown"}
        /\ ahead = <<>> => ahead' = <<>>
        /\ esc' # "thrown" => Heard(g, r)'
    BY <1>1, <1>2, ChunkHeard
  <1>4. ReadStep
    BY <1>0, <1>3 DEF ReadStep
  <1>5. SerialTypes'
    BY <1>0, <1>2, <1>3 DEF SerialTypes, TypeOK
  <1>6. Honest'
    BY <1>0, HonestKept DEF SerialInv
  <1>7. Asked' /\ IdleInv' /\ BeginInv' /\ ResetInv' /\ WriteInv'
    BY <1>0 DEF SerialInv, Asked, IdleInv, BeginInv, ResetInv, WriteInv
  <1>8. VerifyInv'
    <2>1. pc = "verify" => Echo(g, r)'
      BY <1>1, <1>4, EchoKept
    <2> QED
      BY <1>0, <1>3, <2>1 DEF SerialInv, VerifyInv
  <1>9. ReadInv'
    <2>1. pc = "read" => Replying(g, r)'
      BY <1>1, <1>4, AnswerKept
    <2>2. pc = "read" => /\ up /\ calls = <<>> /\ tx = <<>> /\ job.size > 0
                         /\ \/ \E f \in Jobs : f.name # "ack" /\ f.size > 0 /\ job = Part(f, <<>>)
                            \/ job \in Jobs /\ job.name = "ack"
      BY DEF SerialInv, ReadInv
    <2>3. ASSUME pc = "read"
          PROVE  /\ up' /\ calls' = <<>> /\ tx' = <<>> /\ job'.size > 0
                 /\ \/ \E f \in Jobs : f.name # "ack" /\ f.size > 0 /\ job' = Part(f, <<>>)
                    \/ job' \in Jobs /\ job'.name = "ack"
      BY <1>0, <2>2, <2>3
    <2> QED
      BY <1>0, <1>3, <2>1, <2>3 DEF ReadInv
  <1>10. SizeInv'
    BY <1>0, <1>3 DEF SizeInv, Size
  <1> QED
    BY <1>5, <1>6, <1>7, <1>8, <1>9, <1>10 DEF SerialInv

-----------------------------------------------------------------------------
(* The calls of write in progress.                                         *)

Call == Seq(Byte) \ {<<>>}

LEMMA CallsAre ==
    /\ <<>> \in Seq(Call)
    /\ \A s \in Seq(Call) : Len(s) \in Nat /\ (Len(s) = 0 <=> s = <<>>)
                           /\ (s # <<>> => Head(s) = s[1])
  BY EmptySeq, LenProperties

LEMMA NestedEmpty ==
    ASSUME calls' = <<>>, job' = ResetJob \/ Command(job)'
    PROVE  Nested'
  <1>1. 0 \in 0 .. Len(calls') /\ 0 = Len(calls') /\ \A i \in 1 .. 0 : calls'[i] = Sync
    OBVIOUS
  <1> QED
    BY <1>1 DEF Nested

LEMMA NestedFirst ==
    ASSUME NEW f, Command(f)', First(f)'
    PROVE  Nested'
  <1>1. calls' = <<f.writes[1]>> /\ job' = Part(f, Tail(f.writes)) /\ f \in Jobs
    BY DEF First, Command
  <1>2. 0 \in 0 .. Len(calls') /\ 0 + 1 = Len(calls') /\ calls'[0 + 1] = f.writes[1] /\ \A i \in 1 .. 0 : calls'[i] = Sync
    BY <1>1
  <1> QED
    BY <1>1, <1>2 DEF Nested

LEMMA SyncIsCall == Sync \in Call /\ Sync \in Seq(Byte) /\ Len(Sync) = 1 /\ Sync[1] = "sync"
  BY DEF Sync, Call, Byte

LEMMA NestedPush ==
    ASSUME calls \in Seq(Call), Nested, calls' = <<Sync>> \o calls, job' = job, running' = running
    PROVE  Nested' /\ calls' \in Seq(Call) /\ calls' # <<>> /\ Head(calls') = Sync
  <1>1. /\ calls' \in Seq(Call) /\ calls' # <<>> /\ Len(calls') = Len(calls) + 1
        /\ calls'[1] = Sync /\ Head(calls') = Sync /\ Tail(calls') = calls
    BY SyncIsCall, ConsProperties
  <1>2. \A i \in 1 .. Len(calls) : calls'[i + 1] = calls[i]
    BY <1>1, HeadTailProperties
  <1>3. PICK n \in 0 .. Len(calls) :
        /\ \A i \in 1 .. n : calls[i] = Sync
        /\ \/ n = Len(calls) /\ (job = ResetJob \/ Command(job))
           \/ /\ n + 1 = Len(calls)
              /\ \E f \in Jobs : /\ Command(f) /\ calls[n + 1] = f.writes[1]
                                 /\ job = Part(f, Tail(f.writes))
    BY DEF Nested
  <1>4. (Command(job) => Command(job)') /\ \A f : Command(f) => Command(f)'
    BY CommandKept DEF Command
  <1>a. n \in 0 .. Len(calls) /\ Len(calls) \in Nat
    BY <1>3, CallsAre
  <1>5. Len(calls) \in Nat /\ n \in Nat /\ n + 1 \in 0 .. Len(calls')
    BY <1>1, <1>a
  <1>6. \A i \in 1 .. n + 1 : calls'[i] = Sync
    <2> TAKE i \in 1 .. n + 1
    <2>1. CASE i = 1
      BY <1>1, <2>1
    <2>2. CASE i # 1
      <3>1. i - 1 \in 1 .. n /\ i - 1 \in 1 .. Len(calls) /\ (i - 1) + 1 = i
        BY <1>5, <1>3, <2>2
      <3> QED
        BY <1>2, <1>3, <3>1
    <2> QED
      BY <2>1, <2>2
  <1>7. CASE n = Len(calls) /\ (job = ResetJob \/ Command(job))
    <2>1. n + 1 = Len(calls') /\ (job' = ResetJob \/ Command(job)')
      BY <1>1, <1>4, <1>7
    <2> QED
      BY <1>1, <1>5, <1>6, <2>1 DEF Nested
  <1>8. ASSUME n + 1 = Len(calls), NEW f \in Jobs, Command(f), calls[n + 1] = f.writes[1],
               job = Part(f, Tail(f.writes))
        PROVE  Nested'
    <2>1. (n + 1) + 1 = Len(calls') /\ n + 1 \in 1 .. Len(calls)
      BY <1>1, <1>5, <1>8
    <2>2. calls'[(n + 1) + 1] = f.writes[1]
      BY <1>2, <1>8, <2>1
    <2>3. Command(f)' /\ job' = Part(f, Tail(f.writes))
      BY <1>4, <1>8
    <2> QED
      BY <1>5, <1>6, <2>1, <2>2, <2>3 DEF Nested
  <1> QED
    BY <1>1, <1>3, <1>7, <1>8

\* The write of the autobaud character returns.
LEMMA NestedPop ==
    ASSUME calls \in Seq(Call), Nested, Len(calls) > 1, calls' = Tail(calls), job' = job, running' = running
    PROVE  /\ calls' \in Seq(Call) /\ calls' # <<>>
           /\ (Head(calls') = Sync /\ Nested') \/ \E f \in Jobs : Command(f)' /\ First(f)'
  <1>1. /\ calls # <<>> /\ Len(calls) \in Nat
        /\ calls' \in Seq(Call) /\ Len(calls') = Len(calls) - 1
        /\ \A i \in 1 .. Len(calls') : calls'[i] = calls[i + 1]
    <2>1. calls # <<>> /\ Len(calls) \in Nat
      BY EmptySeq, LenProperties
    <2> QED
      BY <2>1, HeadTailProperties
  <1>2. calls' # <<>> /\ Head(calls') = calls'[1]
    <2>1. Len(calls') # 0
      BY <1>1
    <2> QED
      BY <1>1, <2>1, CallsAre
  <1>3. PICK n \in 0 .. Len(calls) :
        /\ \A i \in 1 .. n : calls[i] = Sync
        /\ \/ n = Len(calls) /\ (job = ResetJob \/ Command(job))
           \/ /\ n + 1 = Len(calls)
              /\ \E f \in Jobs : /\ Command(f) /\ calls[n + 1] = f.writes[1]
                                 /\ job = Part(f, Tail(f.writes))
    BY DEF Nested
  <1>4. (Command(job) => Command(job)') /\ \A f : Command(f) => Command(f)'
    BY CommandKept DEF Command
  <1>a. n \in 0 .. Len(calls) /\ (n = Len(calls) \/ n + 1 = Len(calls))
    BY <1>3
  <1>b. Len(calls) \in Nat /\ Len(calls) > 1 /\ Len(calls') = Len(calls) - 1
    BY <1>1
  <1>5. n \in Nat /\ n > 0 /\ n - 1 \in 0 .. Len(calls') /\ Len(calls') \in Nat
    <2> HIDE DEF Nested
    <2>1. \A l \in Nat : \A k : l > 1 /\ k = l - 1 =>
            \A m \in 0 .. l : m = l \/ m + 1 = l => m \in Nat /\ m > 0 /\ m - 1 \in 0 .. k /\ k \in Nat
      OBVIOUS
    <2> QED
      BY <1>a, <1>b, <2>1
  <1>6. \A i \in 1 .. n - 1 : calls'[i] = Sync
    <2> TAKE i \in 1 .. n - 1
    <2>1. i + 1 \in 1 .. n /\ i \in 1 .. Len(calls')
      BY <1>5
    <2> QED
      BY <1>1, <1>3, <2>1
  <1>7. CASE n = Len(calls) /\ (job = ResetJob \/ Command(job))
    <2>1. n - 1 = Len(calls') /\ (job' = ResetJob \/ Command(job)') /\ 1 \in 1 .. n - 1
      BY <1>1, <1>4, <1>7
    <2>2. Nested'
      BY <1>5, <1>6, <2>1 DEF Nested
    <2>3. Head(calls') = Sync
      BY <1>2, <1>6, <2>1
    <2> QED
      BY <1>1, <1>2, <2>2, <2>3
  <1>8. ASSUME n + 1 = Len(calls), NEW f \in Jobs, Command(f), calls[n + 1] = f.writes[1],
               job = Part(f, Tail(f.writes))
        PROVE  (Head(calls') = Sync /\ Nested') \/ (Command(f)' /\ First(f)')
    <2>1. (n - 1) + 1 = Len(calls') /\ n = Len(calls') /\ n \in 1 .. Len(calls') /\ (n - 1) + 1 = n
      BY <1>1, <1>5, <1>8
    <2>2. calls'[n] = f.writes[1]
      BY <1>1, <1>8, <2>1
    <2>3. Command(f)' /\ job' = Part(f, Tail(f.writes))
      BY <1>4, <1>8
    <2>4. CASE n = 1
      <3>1. Len(calls') = 1 /\ calls'[1] = f.writes[1]
        BY <2>1, <2>2, <2>4
      <3>2. calls' = <<f.writes[1]>>
        <4>1. calls' = <<Head(calls')>> \o Tail(calls') /\ Len(Tail(calls')) + 1 = 1 /\ Tail(calls') \in Seq(Call)
              /\ Head(calls') \in Call
          BY <1>1, <1>2, <3>1, HeadAndTail
        <4>2. Tail(calls') = <<>>
          BY <4>1, EmptySeq, LenProperties
        <4>3. <<Head(calls')>> \in Seq(Call)
          BY <4>1
        <4>4. calls' = <<Head(calls')>>
          BY <4>1, <4>2, <4>3, ConcatEmptySeq
        <4> QED
          BY <1>2, <3>1, <4>4
      <3> QED
        BY <2>3, <3>2 DEF First
    <2>5. CASE n # 1
      <3>1. 1 \in 1 .. n - 1
        BY <1>5, <2>5
      <3>2. Head(calls') = Sync
        BY <1>2, <1>6, <3>1
      <3>3. Nested'
        BY <1>5, <1>6, <2>1, <2>2, <2>3 DEF Nested
      <3> QED
        BY <3>2, <3>3
    <2> QED
      BY <2>4, <2>5
  <1> QED
    BY <1>1, <1>2, <1>3, <1>7, <1>8

\* The last of them.
LEMMA NestedLast ==
    ASSUME calls \in Seq(Call), Nested, Len(calls) = 1, Head(calls) = Sync
    PROVE  job = ResetJob \/ Command(job)
  <1>1. calls # <<>> /\ calls[1] = Sync
    <2>1. calls # <<>>
      BY CallsAre
    <2> QED
      BY <2>1, CallsAre
  <1>2. PICK n \in 0 .. Len(calls) :
        /\ \A i \in 1 .. n : calls[i] = Sync
        /\ \/ n = Len(calls) /\ (job = ResetJob \/ Command(job))
           \/ /\ n + 1 = Len(calls)
              /\ \E f \in Jobs : /\ Command(f) /\ calls[n + 1] = f.writes[1]
                                 /\ job = Part(f, Tail(f.writes))
    BY DEF Nested
  <1>3. ASSUME n + 1 = Len(calls), NEW f \in Jobs, Command(f), calls[n + 1] = f.writes[1]
        PROVE  FALSE
    <2>1. n = 0
      BY <1>3
    <2>2. f.writes[1] = Sync
      BY <1>1, <1>3, <2>1
    <2> QED
      BY <1>3, <2>2, FirstWrite DEF Command
  <1> QED
    BY <1>2, <1>3

-----------------------------------------------------------------------------
(* Resets, and the beginning of a command.                                 *)

LEMMA InitHolds == Init => SerialInv
  <1> SUFFICES ASSUME Init
               PROVE  SerialInv
    OBVIOUS
  <1>1. <<>> \in Seq(Call) /\ <<>> \in Seq(Byte) /\ DOMAIN <<>> = {}
    BY EmptySeq
  <1>2. SerialTypes
    <2>1. 0 \in 0 .. Events
      BY SerialAssumption
    <2>2. calls \in Seq(Seq(Byte) \ {<<>>}) /\ \A i \in DOMAIN calls : calls[i] \in Seq(Byte)
      BY <1>1 DEF Init, Call
    <2>3. TypeOK
      BY <1>1, <2>1, <2>2 DEF Init, TypeOK
    <2> QED
      BY <2>2, <2>3 DEF Init, SerialTypes
  <1>3. Honest /\ Asked /\ IdleInv
    BY DEF Init, Honest, Asked, IdleInv, NoJob
  <1>4. BeginInv /\ ResetInv /\ WriteInv /\ VerifyInv /\ ReadInv /\ SizeInv
    BY DEF Init, BeginInv, ResetInv, WriteInv, VerifyInv, ReadInv, SizeInv
  <1> QED
    BY <1>2, <1>3, <1>4 DEF SerialInv

LEMMA ResetKeeps == SerialInv /\ Reset => SerialInv'
  <1> SUFFICES ASSUME SerialInv, Reset
               PROVE  SerialInv'
    OBVIOUS
  <1>0. /\ pc = "idle" /\ job' = ResetJob /\ pc' = "flush"
        /\ UNCHANGED <<dev, running, owed, ran, answer, tx, rx, ahead, up, calls, got, esc, last, events>>
    BY DEF Reset, ResetJob, device, line
  <1>1. calls = <<>> /\ esc = "normal"
    BY <1>0 DEF SerialInv, IdleInv
  <1>2. SerialTypes'
    BY <1>0 DEF SerialInv, SerialTypes, TypeOK
  <1>3. Honest'
    BY <1>0, HonestKept DEF SerialInv
  <1>4. Asked'
    BY <1>0 DEF SerialInv, Asked, ResetJob, NoJob
  <1>5. ResetInv'
    BY <1>0, <1>1, NestedEmpty DEF ResetInv
  <1>6. IdleInv' /\ BeginInv' /\ WriteInv' /\ VerifyInv' /\ ReadInv' /\ SizeInv'
    BY <1>0 DEF IdleInv, BeginInv, WriteInv, VerifyInv, ReadInv, SizeInv
  <1> QED
    BY <1>2, <1>3, <1>4, <1>5, <1>6 DEF SerialInv

LEMMA ResetFlushKeeps == SerialInv /\ ResetFlush => SerialInv'
  <1> SUFFICES ASSUME SerialInv, ResetFlush
               PROVE  SerialInv'
    OBVIOUS
  <1>0. /\ pc = "flush" /\ up' = FALSE /\ tx' = <<>> /\ rx' = <<>> /\ ahead' = <<>> /\ pc' = "break"
        /\ UNCHANGED <<dev, running, owed, ran, answer, calls, got, esc, job, last, events>>
    BY DEF ResetFlush, Flush, device
  <1>1. Nested /\ esc = "normal" /\ (job # ResetJob => tx = <<>> /\ ran = <<>>)
    BY <1>0 DEF SerialInv, ResetInv
  <1>2. SerialTypes'
    BY <1>0, NoBytes DEF SerialInv, SerialTypes, TypeOK
  <1>3. Honest'
    BY <1>0 DEF SerialInv, Honest
  <1>4. Asked'
    BY <1>0 DEF SerialInv, Asked
  <1>5. ResetInv'
    BY <1>0, <1>1, NestedKept DEF ResetInv
  <1>6. IdleInv' /\ BeginInv' /\ WriteInv' /\ VerifyInv' /\ ReadInv' /\ SizeInv'
    BY <1>0 DEF IdleInv, BeginInv, WriteInv, VerifyInv, ReadInv, SizeInv
  <1> QED
    BY <1>2, <1>3, <1>4, <1>5, <1>6 DEF SerialInv

LEMMA NestedName == Nested => (job.name = "reset" <=> job = ResetJob)
  <1> SUFFICES ASSUME Nested
               PROVE  job.name = "reset" <=> job = ResetJob
    OBVIOUS
  <1>1. ResetJob.name = "reset"
    BY DEF ResetJob, NoJob
  <1>2. job = ResetJob \/ Command(job) \/ \E f \in Jobs : job = Part(f, Tail(f.writes))
    BY DEF Nested
  <1>3. \A f \in Jobs : f.name # "reset" /\ Part(f, Tail(f.writes)).name = f.name
    BY JobParts, SizeOfJob
  <1> QED
    BY <1>1, <1>2, <1>3 DEF Command

LEMMA ResetBreakKeeps == SerialInv /\ ResetBreak => SerialInv'
  <1> SUFFICES ASSUME SerialInv, ResetBreak
               PROVE  SerialInv'
    OBVIOUS
  <1>0. /\ pc = "break" /\ dev' = "deaf" /\ owed' = <<>> /\ rx' = rx \o Break /\ pc' = "flush_again"
        /\ IF job.name = "reset" THEN last' = "nothing" /\ ran' = <<>> /\ answer' = <<>>
           ELSE UNCHANGED <<last, ran, answer>>
        /\ UNCHANGED <<running, tx, ahead, up, calls, got, esc, job, events>>
    BY DEF ResetBreak, Forget
  <1>1. /\ Nested /\ esc = "normal" /\ (job # ResetJob => tx = <<>> /\ ran = <<>>)
        /\ ~up /\ tx = <<>>
    BY <1>0 DEF SerialInv, ResetInv
  <1>a. job.name = "reset" <=> job = ResetJob
    BY <1>1, NestedName
  <1>2. SerialTypes'
    <2>1. rx' \in Seq(Byte)
      BY <1>0, BytesConcat, BreakIsError, ErrorIsMore DEF SerialInv, SerialTypes, TypeOK
    <2> QED
      BY <1>0, <2>1, NoBytes DEF SerialInv, SerialTypes, TypeOK
  <1>b. ran' = <<>>
    BY <1>0, <1>1, <1>a
  <1>3. Honest'
    BY <1>0, <1>1, <1>b DEF SerialInv, Honest
  <1>4. Asked'
    BY <1>0, <1>a DEF SerialInv, Asked
  <1>5. ResetInv'
    BY <1>0, <1>1, <1>b, NestedKept DEF ResetInv
  <1>6. IdleInv' /\ BeginInv' /\ WriteInv' /\ VerifyInv' /\ ReadInv' /\ SizeInv'
    BY <1>0 DEF IdleInv, BeginInv, WriteInv, VerifyInv, ReadInv, SizeInv
  <1> QED
    BY <1>2, <1>3, <1>4, <1>5, <1>6 DEF SerialInv

LEMMA NothingComes ==
    ASSUME ahead' = <<>>, rx' = <<>>, esc' = "normal"
    PROVE  Coming(<<>>, <<>>)'
  BY NoBytes, SpellEmpty DEF Coming, Pending

LEMMA ResetUpKeeps == SerialInv /\ ResetUp => SerialInv'
  <1> SUFFICES ASSUME SerialInv, ResetUp
               PROVE  SerialInv'
    OBVIOUS
  <1>0. /\ pc = "flush_again" /\ up' = TRUE /\ tx' = <<>> /\ rx' = <<>> /\ ahead' = <<>> /\ pc' = "peek"
        /\ calls' = <<Sync>> \o calls
        /\ UNCHANGED <<dev, running, owed, ran, answer, got, esc, job, last, events>>
    BY DEF ResetUp, Flush, device, Sync
  <1>1. Nested /\ esc = "normal" /\ dev = "deaf" /\ owed = <<>> /\ ran = <<>> /\ calls \in Seq(Call)
    BY <1>0 DEF SerialInv, ResetInv, SerialTypes, Call
  <1>a. Nested' /\ calls' \in Seq(Call) /\ calls' # <<>> /\ Head(calls') = Sync
    BY <1>0, <1>1, NestedPush
  <1>2. SerialTypes'
    <2>1. \A i \in DOMAIN calls' : calls'[i] \in Seq(Byte)
      BY <1>a DEF Call
    <2>2. calls' \in Seq(Seq(Byte) \ {<<>>})
      BY <1>a DEF Call
    <2> QED
      BY <1>0, <2>1, <2>2, NoBytes DEF SerialInv, SerialTypes, TypeOK
  <1>3. Honest'
    BY <1>0 DEF SerialInv, Honest
  <1>4. Asked'
    BY <1>0 DEF SerialInv, Asked
  <1>5. WriteInv'
    <2>1. Coming(<<>>, <<>>)'
      BY <1>0, <1>1, NothingComes
    <2>2. Poised(<<>>, <<>>)'
      BY <1>0, <1>1, <1>a DEF Poised, Buffered, AtMostAck
    <2> QED
      BY <1>0, <1>1, <2>1, <2>2 DEF WriteInv
  <1>6. IdleInv' /\ BeginInv' /\ ResetInv' /\ VerifyInv' /\ ReadInv' /\ SizeInv'
    BY <1>0 DEF IdleInv, BeginInv, ResetInv, VerifyInv, ReadInv, SizeInv
  <1> QED
    BY <1>2, <1>3, <1>4, <1>5, <1>6 DEF SerialInv

LEMMA BeginKeeps == ASSUME NEW j \in Jobs, SerialInv, Begin(j) PROVE SerialInv'
  <1>0. /\ pc = "idle" /\ up /\ (Len(j.writes) > 1 => ~running)
        /\ job' = j /\ last' = (IF j.name = "ack" THEN last ELSE j.name)
        /\ pc' = (IF j.fresh THEN "new" ELSE IF j.writes # <<>> THEN "start" ELSE "read")
        /\ UNCHANGED <<dev, running, owed, ran, answer, tx, rx, ahead, up, calls, got, esc, events>>
    BY DEF Begin, device, line
  <1>1. calls = <<>> /\ got = <<>> /\ esc = "normal" /\ last = "nothing" /\ ran = <<>> /\ ahead = <<>>
    BY <1>0 DEF SerialInv, IdleInv, Rested
  <1>2. PICK d, r : Coming(d, r) /\ Settled(d, r)
    BY <1>0 DEF SerialInv, IdleInv, Rested
  <1>3. tx = <<>> /\ Settled(d, r)' /\ Coming(d, r)' /\ d \in Seq(Byte)
    BY <1>0, <1>2 DEF Settled, AtMostAck, Hears, Coming
  <1>4. Honest'
    BY <1>0, <1>1, <1>3 DEF SerialInv, Honest
  <1>5. SerialTypes'
    <2>1. pc' \in {"new", "start", "read"}
      BY <1>0
    <2> QED
      BY <1>0, <2>1 DEF SerialInv, SerialTypes, TypeOK
  <1>6. CASE j.name = "ack"
    <2>1. pc' = "read" /\ j.size = 1 /\ last' = "nothing"
      BY <1>0, <1>1, <1>6, JobParts
    <2>2. Heard(d, r)'
      BY <1>0, <1>1, <1>3, NoBytes DEF Heard
    <2>3. Replying(d, r)'
      BY <1>0, <1>1, <1>3, <1>6, <2>1 DEF Replying
    <2>4. ReadInv'
      BY <1>0, <1>1, <1>3, <1>6, <2>1, <2>2, <2>3 DEF ReadInv
    <2>5. SizeInv'
      <3>1. Size' = 1
        BY <1>0, <2>1 DEF Size
      <3> QED
        BY <1>0, <1>1, <3>1, NoBytes DEF SizeInv
    <2>6. Asked'
      BY <1>0, <1>6, <2>1 DEF Asked
    <2>7. IdleInv' /\ BeginInv' /\ ResetInv' /\ VerifyInv' /\ WriteInv'
      BY <2>1 DEF IdleInv, BeginInv, ResetInv, VerifyInv, WriteInv
    <2> QED
      BY <1>4, <1>5, <2>4, <2>5, <2>6, <2>7 DEF SerialInv
  <1>7. CASE j.name # "ack"
    <2>1. pc' \in {"new", "start"} /\ last' = j.name
      BY <1>0, <1>7, FirstWrite
    <2>2. Command(job)'
      BY <1>0, <1>7 DEF Command
    <2>3. Rested'
      BY <1>0, <1>1, <1>3 DEF Rested
    <2>4. BeginInv'
      BY <1>0, <1>1, <2>2, <2>3 DEF BeginInv
    <2>6. Asked'
      BY <1>0, <1>7, <2>1 DEF Asked
    <2>7. IdleInv' /\ ResetInv' /\ VerifyInv' /\ WriteInv' /\ ReadInv' /\ SizeInv'
      BY <2>1 DEF IdleInv, ReadInv, SizeInv, ResetInv, VerifyInv, WriteInv
    <2> QED
      BY <1>4, <1>5, <2>4, <2>6, <2>7 DEF SerialInv
  <1> QED
    BY <1>6, <1>7

-----------------------------------------------------------------------------
(* A write begins, or finds a disturbance.                                 *)

LEMMA HostTypes ==
    ASSUME SerialTypes, UNCHANGED <<dev, running, owed>>, answer' = <<>> \/ answer' = answer,
           calls' \in Seq(Call), tx' \in Seq(Byte), rx' \in Seq(Byte), ahead' \in Seq(Byte), got' \in Seq(Byte),
           up' \in BOOLEAN, events' \in 0 .. Events,
           pc' \in {"idle", "peek", "send", "verify", "read", "flush"},
           esc' \in {"normal", "escape", "error", "thrown"}
    PROVE  SerialTypes'
  <1>1. calls' \in Seq(Seq(Byte) \ {<<>>}) /\ \A i \in DOMAIN calls' : calls'[i] \in Seq(Byte)
    BY DEF Call
  <1>2. answer' = <<>> \/ answer' \in Answers
    BY DEF SerialTypes
  <1>3. pc' \in {"idle", "start", "new", "peek", "send", "verify", "read", "flush", "break", "flush_again"}
    OBVIOUS
  <1> QED
    BY <1>1, <1>2, <1>3 DEF SerialTypes, TypeOK

LEMMA OneCall == \A c \in Seq(Byte) : c # <<>> => <<c>> \in Seq(Call)
  <1> TAKE c \in Seq(Byte)
  <1>1. c # <<>> => c \in Call
    BY DEF Call
  <1> QED
    BY <1>1

LEMMA PartNext == \A f, w : [Part(f, w) EXCEPT !.writes = Tail(@)] = Part(f, Tail(w))
  <1> TAKE f, w
  <1>1. \A a, b, c, d, e :
            [[name |-> a, fresh |-> b, writes |-> c, size |-> d] EXCEPT !.writes = e]
            = [name |-> a, fresh |-> b, writes |-> e, size |-> d]
    OBVIOUS
  <1>2. Part(f, w).writes = w
    BY SizeOfJob
  <1> DEFINE t == Tail(Part(f, w).writes)
  <1>3. [Part(f, w) EXCEPT !.writes = t] = Part(f, t)
    <2> HIDE DEF t
    <2> QED
      BY <1>1 DEF Part
  <1>4. t = Tail(w)
    BY <1>2
  <1> QED
    BY <1>3, <1>4

LEMMA FirstWriteNext ==
    ASSUME SerialInv, Command(job), ran = <<>>, up, Continue,
           UNCHANGED <<dev, running, owed, tx, up, events>>, rx' \in Seq(Byte), ahead' \in Seq(Byte),
           tx = <<>>, owed = <<>>, NEW d, NEW r, Coming(d, r)', Buffered(d)', AtMostAck(d), Hears(r)
    PROVE  SerialInv'
  <1>1. PICK f : f = job
    OBVIOUS
  <1>2. f \in Jobs /\ f.name # "ack" /\ f = Part(f, f.writes) /\ f.name \notin {"none", "reset"}
    BY <1>1, JobParts DEF Command
  <1>3. /\ f.writes # <<>> /\ Head(f.writes) = f.writes[1]
        /\ f.writes[1] \in Seq(Byte) /\ f.writes[1] # <<>>
    BY <1>2, FirstWrite
  <1>4. /\ calls' = <<Head(f.writes)>> /\ job' = [f EXCEPT !.writes = Tail(@)]
        /\ pc' = "peek" /\ got' = <<>> /\ esc' = "normal" /\ UNCHANGED <<last, ran, answer>>
    BY <1>1, <1>3 DEF Continue
  <1>5. job' = Part(f, Tail(f.writes))
    BY <1>2, <1>4, PartNext
  <1>6. First(f)' /\ Command(f)'
    BY <1>1, <1>3, <1>4, <1>5, CommandKept DEF First
  <1>7. calls' \in Seq(Call)
    BY <1>3, <1>4, OneCall
  <1>8. SerialTypes'
    BY <1>4, <1>7, NoBytes, HostTypes DEF SerialInv, SerialTypes, TypeOK
  <1>9. Honest'
    BY <1>4, HonestKept DEF SerialInv
  <1>10. Asked'
    <2>1. job'.name = f.name /\ ResetJob.name = "reset"
      BY <1>5, SizeOfJob DEF ResetJob, NoJob
    <2> QED
      BY <1>1, <1>2, <1>4, <2>1 DEF SerialInv, Asked
  <1>11. Poised(d, r)'
    <2>1. AtMostAck(d)' /\ Hears(r)'
      BY DEF AtMostAck, Hears
    <2> QED
      BY <1>2, <1>6, <2>1 DEF Poised
  <1>12. WriteInv'
    BY <1>4, <1>11 DEF WriteInv
  <1>13. IdleInv' /\ BeginInv' /\ ResetInv' /\ VerifyInv' /\ ReadInv' /\ SizeInv'
    BY <1>4 DEF IdleInv, BeginInv, ResetInv, VerifyInv, ReadInv, SizeInv
  <1> QED
    BY <1>8, <1>9, <1>10, <1>12, <1>13 DEF SerialInv

LEMMA StartKeeps == SerialInv /\ Start => SerialInv'
  <1> SUFFICES ASSUME SerialInv, Start
               PROVE  SerialInv'
    OBVIOUS
  <1>1. Continue /\ pc = "start" /\ UNCHANGED <<dev, running, owed, tx, rx, ahead, up, events>>
    BY DEF Start, line
  <1>2. up /\ Command(job) /\ calls = <<>> /\ esc = "normal" /\ ran = <<>> /\ ahead = <<>>
    BY <1>1 DEF SerialInv, BeginInv, Rested
  <1>3. PICK d, r : Coming(d, r) /\ Settled(d, r)
    BY <1>1 DEF SerialInv, BeginInv, Rested
  <1>4. esc' = "normal"
    BY <1>1, <1>2, FirstWrite DEF Continue, Command
  <1>5. Coming(d, r)' /\ Buffered(d)' /\ AtMostAck(d) /\ Hears(r) /\ tx = <<>> /\ owed = <<>>
    BY <1>1, <1>2, <1>3, <1>4 DEF Coming, Buffered, Settled
  <1>6. rx' \in Seq(Byte) /\ ahead' \in Seq(Byte)
    BY <1>1 DEF SerialInv, SerialTypes, TypeOK
  <1> QED
    BY <1>1, <1>2, <1>5, <1>6, FirstWriteNext

\* What flush keeps of a command on a line that is disturbed.
LEMMA FlushNext ==
    ASSUME SerialInv, Nested', pc' = "flush", UNCHANGED <<device, tx, up, calls, got, esc, job, last, events>>,
           rx' \in Seq(Byte), ahead' \in Seq(Byte), esc = "normal", tx = <<>>, ran = <<>>
    PROVE  SerialInv'
  <1>0. UNCHANGED <<dev, running, owed, ran, answer>>
    BY DEF device
  <1>1. SerialTypes'
    BY <1>0, HostTypes DEF SerialInv, SerialTypes, TypeOK, Call
  <1>2. Honest'
    BY <1>0, HonestKept DEF SerialInv
  <1>3. Asked'
    BY DEF SerialInv, Asked
  <1>4. ResetInv'
    BY <1>0 DEF ResetInv
  <1>5. IdleInv' /\ BeginInv' /\ WriteInv' /\ VerifyInv' /\ ReadInv' /\ SizeInv'
    BY DEF IdleInv, BeginInv, WriteInv, VerifyInv, ReadInv, SizeInv
  <1> QED
    BY <1>1, <1>2, <1>3, <1>4, <1>5 DEF SerialInv

LEMMA NewCommandKeeps == SerialInv /\ NewCommand => SerialInv'
  <1> SUFFICES ASSUME SerialInv, NewCommand
               PROVE  SerialInv'
    OBVIOUS
  <1>1. pc = "new" /\ UNCHANGED <<dev, running, owed, tx, up, events>>
    BY DEF NewCommand
  <1>2. up /\ Command(job) /\ calls = <<>> /\ esc = "normal" /\ ran = <<>> /\ ahead = <<>>
    BY <1>1 DEF SerialInv, BeginInv, Rested
  <1>3. PICK d, r : Coming(d, r) /\ Settled(d, r)
    BY <1>1 DEF SerialInv, BeginInv, Rested
  <1>4. Buffered(d) /\ AtMostAck(d) /\ Hears(r) /\ tx = <<>> /\ owed = <<>> /\ (d = <<>> \/ d = <<"ff">>)
    BY <1>2, <1>3 DEF Buffered, Settled, AtMostAck
  <1>5. TypeOK
    BY DEF SerialInv, SerialTypes
  <1>6. CASE Peek(FALSE) /\ Continue
    <2>1. esc' = "normal"
      BY <1>2, <1>6, FirstWrite DEF Continue, Command
    <2>2. PICK e \in BOOLEAN : e = FALSE /\ Peek(e)
      BY <1>6
    <2>3. /\ rx' \in Seq(Byte) /\ ahead' \in Seq(Byte)
          /\ ~e => Coming(d, r)' /\ Buffered(d)'
      BY <1>2, <1>3, <1>4, <1>5, <2>1, <2>2, PeekKeeps
    <2> QED
      BY <1>1, <1>2, <1>4, <1>6, <2>2, <2>3, FirstWriteNext
  <1>7. CASE Peek(TRUE) /\ pc' = "flush" /\ UNCHANGED <<calls, got, esc, job, last, ran, answer>>
    <2>2. PICK e \in BOOLEAN : e = TRUE /\ Peek(e)
      BY <1>7
    <2>3. rx' \in Seq(Byte) /\ ahead' \in Seq(Byte)
      BY <1>2, <1>3, <1>4, <1>5, <1>7, <2>2, PeekKeeps
    <2>4. Command(job)'
      BY <1>1, <1>2, <1>7 DEF Command
    <2>5. Nested'
      BY <1>2, <1>7, <2>4, NestedEmpty
    <2>6. UNCHANGED device
      BY <1>1, <1>7 DEF device
    <2> QED
      BY <1>1, <1>2, <1>4, <1>7, <2>3, <2>5, <2>6, FlushNext
  <1> QED
    BY <1>6, <1>7 DEF NewCommand

LEMMA PeekFirstKeeps == SerialInv /\ PeekFirst => SerialInv'
  <1> SUFFICES ASSUME SerialInv, PeekFirst
               PROVE  SerialInv'
    OBVIOUS
  <1>1. pc = "peek" /\ UNCHANGED <<device, tx, up, calls, got, esc, job, last, events>>
    BY DEF PeekFirst
  <1>a. UNCHANGED <<dev, running, owed, ran, answer>>
    BY <1>1 DEF device
  <1>2. up /\ esc = "normal" /\ ran = <<>>
    BY <1>1 DEF SerialInv, WriteInv
  <1>3. PICK d, r : Coming(d, r) /\ Poised(d, r)
    BY <1>1 DEF SerialInv, WriteInv
  <1>4. Buffered(d) /\ tx = <<>> /\ owed = <<>> /\ (d = <<>> \/ d = <<"ff">>)
    BY <1>3 DEF Poised, AtMostAck
  <1>5. TypeOK
    BY DEF SerialInv, SerialTypes
  <1>6. CASE Peek(FALSE) /\ pc' = "send"
    <2>2. PICK e \in BOOLEAN : e = FALSE /\ Peek(e)
      BY <1>6
    <2>3. /\ rx' \in Seq(Byte) /\ ahead' \in Seq(Byte)
          /\ ~e => Coming(d, r)' /\ Buffered(d)'
      BY <1>1, <1>2, <1>3, <1>4, <1>5, <2>2, PeekKeeps
    <2>4. (AtMostAck(d) => AtMostAck(d)') /\ (Hears(r) => Hears(r)')
      BY <1>a DEF AtMostAck, Hears
    <2>5. Poised(d, r)'
      <3>1. CASE calls # <<>> /\ Head(calls) = Sync /\ Nested /\ AtMostAck(d) /\ dev \in {"deaf", "ready"}
        <4>1. Nested'
          BY <1>1, <1>a, <3>1, NestedKept
        <4> QED
          BY <1>1, <1>a, <1>4, <2>2, <2>3, <2>4, <3>1, <4>1 DEF Poised
      <3>2. ASSUME NEW f \in Jobs, Command(f), First(f), AtMostAck(d), Hears(r)
            PROVE  Poised(d, r)'
        <4>1. Command(f)' /\ First(f)'
          BY <1>1, <1>a, <3>2, CommandKept, WritesKept
        <4> QED
          BY <1>1, <1>a, <1>4, <2>2, <2>3, <2>4, <3>2, <4>1 DEF Poised
      <3>3. ASSUME NEW f \in Jobs, Command(f), Second(f), d = <<>>, r = <<>>, dev = "arg"
            PROVE  Poised(d, r)'
        <4>1. Command(f)' /\ Second(f)'
          BY <1>1, <1>a, <3>3, CommandKept, WritesKept
        <4> QED
          BY <1>1, <1>a, <1>4, <2>2, <2>3, <3>3, <4>1 DEF Poised
      <3> QED
        BY <1>3, <3>1, <3>2, <3>3 DEF Poised
    <2>6. WriteInv'
      BY <1>1, <1>a, <1>2, <1>6, <2>2, <2>3, <2>5 DEF WriteInv
    <2>7. SerialTypes'
      BY <1>1, <1>a, <1>6, <2>3, HostTypes DEF SerialInv, SerialTypes, TypeOK, Call
    <2>8. Honest' 
      BY <1>1, <1>a, HonestKept DEF SerialInv
    <2>9. Asked'
      BY <1>1, <1>6 DEF SerialInv, Asked
    <2>10. IdleInv' /\ BeginInv' /\ ResetInv' /\ VerifyInv' /\ ReadInv' /\ SizeInv'
      BY <1>6 DEF IdleInv, BeginInv, ResetInv, VerifyInv, ReadInv, SizeInv
    <2> QED
      BY <2>6, <2>7, <2>8, <2>9, <2>10 DEF SerialInv
  <1>7. CASE Peek(TRUE) /\ pc' = "flush"
    <2>2. PICK e \in BOOLEAN : e = TRUE /\ Peek(e)
      BY <1>7
    <2>3. rx' \in Seq(Byte) /\ ahead' \in Seq(Byte) /\ r # <<>>
      BY <1>1, <1>2, <1>3, <1>4, <1>5, <2>2, PeekKeeps
    <2>4. Nested'
      <3>1. CASE Nested
        BY <1>1, <1>a, <3>1, NestedKept
      <3>2. ASSUME NEW f \in Jobs, Command(f), First(f)
            PROVE  Nested'
        <4>1. Command(f)' /\ First(f)'
          BY <1>1, <1>a, <3>2, CommandKept, WritesKept
        <4> QED
          BY <4>1, NestedFirst
      <3> QED
        BY <1>3, <2>3, <3>1, <3>2 DEF Poised
    <2> QED
      BY <1>1, <1>2, <1>4, <1>7, <2>3, <2>4, FlushNext
  <1> QED
    BY <1>6, <1>7 DEF PeekFirst

-----------------------------------------------------------------------------
(* A write is sent.                                                        *)

LEMMA ConcatCancel ==
    \A s, t, d, x \in Seq(Byte) : Len(s) = Len(t) /\ s \o d = t \o x => s = t /\ d = x
  <1> SUFFICES ASSUME NEW s \in Seq(Byte), NEW t \in Seq(Byte), NEW d \in Seq(Byte), NEW x \in Seq(Byte),
                      Len(s) = Len(t), s \o d = t \o x
               PROVE  s = t /\ d = x
    OBVIOUS
  <1>1. Len(s) \in Nat /\ Len(d) \in Nat /\ Len(x) \in Nat
    BY NoBytes
  <1>2. /\ Len(s \o d) = Len(s) + Len(d)
        /\ \A i \in 1 .. Len(s) + Len(d) : (s \o d)[i] = IF i <= Len(s) THEN s[i] ELSE d[i - Len(s)]
    BY ConcatProperties
  <1>3. /\ Len(t \o x) = Len(s) + Len(x)
        /\ \A i \in 1 .. Len(s) + Len(x) : (t \o x)[i] = IF i <= Len(s) THEN t[i] ELSE x[i - Len(s)]
    BY ConcatProperties
  <1>4. Len(d) = Len(x)
    <2>1. PICK m \in Nat, n \in Nat, k \in Nat : m = Len(d) /\ n = Len(x) /\ k = Len(s) /\ k + m = k + n
      BY <1>1, <1>2, <1>3
    <2>2. m = n
      BY <2>1
    <2> QED
      BY <2>1, <2>2
  <1>5. \A i \in 1 .. Len(s) : s[i] = t[i]
    <2> TAKE i \in 1 .. Len(s)
    <2>1. i \in 1 .. Len(s) + Len(d) /\ i <= Len(s)
      BY <1>1
    <2> QED
      BY <1>2, <1>3, <1>4, <2>1
  <1>6. \A i \in 1 .. Len(d) : d[i] = x[i]
    <2> TAKE i \in 1 .. Len(d)
    <2>1. Len(s) + i \in 1 .. Len(s) + Len(d) /\ ~(Len(s) + i <= Len(s)) /\ (Len(s) + i) - Len(s) = i
      BY <1>1
    <2> QED
      BY <1>2, <1>3, <1>4, <2>1
  <1> QED
    BY <1>4, <1>5, <1>6, SeqEqual

\* What the driver takes of a write, all or some, the device may receive.
LEMMA SendingPrefix ==
    ASSUME Asked, NEW d, NEW r, Poised(d, r), NEW w, w = Head(calls), NEW k \in 1 .. Len(w)
    PROVE  Sending(SubSeq(w, 1, k))
  <1>0. \A x \in {"rd", "go", "wr", "sync"} : x \in Byte
    BY DEF Byte
  <1>1. CASE calls # <<>> /\ Head(calls) = Sync /\ dev \in {"deaf", "ready"}
    <2>1. SubSeq(w, 1, k) = <<"sync">>
      BY <1>0, <1>1, PrefixOfOne DEF Sync
    <2> QED
      BY <1>0, <1>1, <2>1 DEF Sending, Sync
  <1>2. ASSUME NEW f \in Jobs, Command(f), First(f), Hears(r)
        PROVE  Sending(SubSeq(w, 1, k))
    <2>1. f.name # "ack" /\ last = f.name /\ w = f.writes[1]
      <3>1. job.name = f.name /\ calls = <<f.writes[1]>>
        BY <1>2, SizeOfJob DEF First
      <3>2. f.name \notin {"none", "reset", "ack"}
        BY <1>2, JobParts DEF Command
      <3> QED
        BY <3>1, <3>2 DEF Asked
    <2>2. dev \in {"ready", "deaf"}
      BY <1>2 DEF Hears
    <2>3. CASE IsRead(f)
      <3>0. w = <<"rd">>
        BY <2>1, <2>3 DEF IsRead
      <3>1. SubSeq(w, 1, k) = <<"rd">>
        BY <1>0, <3>0, PrefixOfOne
      <3> QED
        BY <1>0, <2>1, <2>2, <2>3, <3>1 DEF Sending, OnItsWay
    <2>4. CASE IsGo(f)
      <3>0. w = <<"go">>
        BY <2>1, <2>4 DEF IsGo
      <3>1. SubSeq(w, 1, k) = <<"go">>
        BY <1>0, <3>0, PrefixOfOne
      <3> QED
        BY <1>0, <2>1, <2>2, <2>4, <3>1 DEF Sending, OnItsWay
    <2>5. ASSUME NEW b \in Byte, IsWrite(f, b)
          PROVE  Sending(SubSeq(w, 1, k))
      <3>1. w = <<"wr", b>>
        BY <2>1, <2>5 DEF IsWrite
      <3>2. SubSeq(w, 1, k) \in {<<"wr">>, <<"wr", b>>}
        BY <1>0, <3>1, PrefixOfTwo
      <3> QED
        BY <1>0, <2>1, <2>2, <2>5, <3>2 DEF Sending, OnItsWay
    <2>6. ASSUME NEW b \in Byte, IsSplit(f, b)
          PROVE  Sending(SubSeq(w, 1, k))
      <3>1. w = <<"wr">>
        BY <2>1, <2>6 DEF IsSplit
      <3>2. SubSeq(w, 1, k) = <<"wr">>
        BY <1>0, <3>1, PrefixOfOne
      <3> QED
        BY <1>0, <2>1, <2>2, <2>6, <3>2 DEF Sending, OnItsWay
    <2> QED
      BY <2>1, <2>3, <2>4, <2>5, <2>6, Kinds
  <1>3. ASSUME NEW f \in Jobs, Command(f), Second(f), dev = "arg"
        PROVE  Sending(SubSeq(w, 1, k))
    <2>1. f.name # "ack" /\ last = f.name /\ w = f.writes[2] /\ Len(f.writes) = 2
      <3>1. job.name = f.name /\ calls = <<f.writes[2]>> /\ Len(f.writes) = 2
        BY <1>3, SizeOfJob DEF Second
      <3>2. f.name \notin {"none", "reset", "ack"}
        BY <1>3, JobParts DEF Command
      <3> QED
        BY <3>1, <3>2 DEF Asked
    <2>2. PICK b \in Byte : IsSplit(f, b)
      BY <2>1, Kinds DEF IsRead, IsGo, IsWrite
    <2>3. SubSeq(w, 1, k) = <<b>>
      <3>1. w = <<b>>
        BY <2>1, <2>2 DEF IsSplit
      <3> QED
        BY <3>1, PrefixOfOne
    <2> QED
      BY <1>3, <2>1, <2>2, <2>3 DEF Sending
  <1> QED
    BY <1>1, <1>2, <1>3 DEF Poised

\* What can come before the first byte read back.
LEMMA FoulStart ==
    \A w \in Seq(Byte) : \A r : w # <<>> =>
        /\ w[1] # "ff" => Foul(w, <<"ff">>, r)
        /\ r # <<>> => Foul(w, <<>>, r)
  <1> TAKE w \in Seq(Byte)
  <1> TAKE r
  <1>1. ASSUME w # <<>>
        PROVE  Len(<<>>) < Len(w)
    <2>1. Len(<<>>) = 0 /\ Len(w) \in Nat /\ Len(w) # 0
      BY <1>1, NoBytes
    <2>2. \A n \in Nat : n # 0 => 0 < n
      OBVIOUS
    <2> QED
      BY <2>1, <2>2
  <1>2. <<"ff">> # <<>> /\ <<"ff">>[1] = "ff"
    OBVIOUS
  <1> QED
    BY <1>1, <1>2 DEF Foul

LEMMA PoisedCalls ==
    ASSUME calls \in Seq(Call), NEW d, NEW r, Poised(d, r)
    PROVE  calls # <<>> /\ Head(calls) \in Seq(Byte) /\ Head(calls) # <<>> /\ Len(Head(calls)) \in Nat
  <1>1. calls # <<>>
    <2>1. calls # <<>> \/ \E x : calls = <<x>>
      BY DEF Poised, First, Second
    <2>2. \A x : <<x>> # <<>>
      OBVIOUS
    <2> QED
      BY <2>1, <2>2
  <1>2. Head(calls) \in Call
    BY <1>1, HeadAndTail
  <1> QED
    BY <1>1, <1>2, NoBytes DEF Call

LEMMA EchoBegins ==
    ASSUME NEW d, NEW r, Poised(d, r), ran = <<>>, NEW w \in Seq(Byte), w # <<>>, w = Head(calls),
           tx' = w, UNCHANGED <<dev, running, owed, ran, answer, last, ahead, calls, job>>
    PROVE  Echo(d, r)'
  <1>0. tx = <<>> /\ owed = <<>> /\ Buffered(d)
    BY DEF Poised
  <1>1. CASE calls # <<>> /\ Head(calls) = Sync /\ Nested /\ AtMostAck(d) /\ dev \in {"deaf", "ready"}
    <2>1. Nested'
      BY <1>1, NestedKept
    <2>2. Foul(Sync, d, r) \/ EchoSync(d, r)'
      <3>1. CASE d = <<"ff">> \/ r # <<>>
        <4>1. d = <<"ff">> \/ (d = <<>> /\ r # <<>>)
          BY <1>1, <3>1 DEF AtMostAck
        <4>2. Sync[1] # "ff" /\ Sync \in Seq(Byte) /\ Sync # <<>>
          BY <1>1, SyncIsCall
        <4> QED
          BY <4>1, <4>2, FoulStart
      <3>2. CASE d = <<>> /\ r = <<>>
        BY <1>0, <1>1, <3>2 DEF EchoSync, Buffered
      <3> QED
        BY <1>1, <3>1, <3>2 DEF AtMostAck
    <2> QED
      BY <1>1, <2>1, <2>2 DEF Echo
  <1>2. ASSUME NEW f \in Jobs, Command(f), First(f), AtMostAck(d), Hears(r)
        PROVE  Echo(d, r)'
    <2>1. Command(f)' /\ First(f)'
      BY <1>2, CommandKept, WritesKept
    <2>2. w = f.writes[1]
      BY <1>2 DEF First
    <2>3. Foul(w, d, r) \/ EchoFirst(f, d, r)'
      <3>1. CASE d = <<"ff">> \/ r # <<>>
        <4>1. d = <<"ff">> \/ (d = <<>> /\ r # <<>>)
          BY <1>2, <3>1 DEF AtMostAck
        <4>2. w[1] # "ff"
          BY <1>2, <2>2, FirstWrite DEF Command
        <4> QED
          BY <4>1, <4>2, FoulStart
      <3>2. CASE d = <<>> /\ r = <<>>
        BY <1>0, <1>2, <2>2, <3>2 DEF EchoFirst, Buffered, Hears
      <3> QED
        BY <1>2, <3>1, <3>2 DEF AtMostAck
    <2> QED
      BY <2>1, <2>2, <2>3 DEF Echo
  <1>3. ASSUME NEW f \in Jobs, Command(f), Second(f), d = <<>>, r = <<>>, dev = "arg"
        PROVE  Echo(d, r)'
    <2>1. Command(f)' /\ Second(f)'
      BY <1>3, CommandKept, WritesKept
    <2>2. w = f.writes[2]
      BY <1>3 DEF Second
    <2>3. EchoSecond(f, d, r)'
      BY <1>0, <1>3, <2>2 DEF EchoSecond, Buffered
    <2> QED
      BY <2>1, <2>3 DEF Echo
  <1> QED
    BY <1>1, <1>2, <1>3 DEF Poised

LEMMA SendKeeps == SerialInv /\ Send => SerialInv'
  <1> SUFFICES ASSUME SerialInv, Send
               PROVE  SerialInv'
    OBVIOUS
  <1>1. pc = "send" /\ UNCHANGED <<dev, running, owed, rx, ahead>>
    BY DEF Send
  <1>2. up /\ esc = "normal" /\ ran = <<>> /\ Asked /\ SerialTypes /\ calls \in Seq(Call)
    BY <1>1 DEF SerialInv, WriteInv, SerialTypes, Call
  <1>3. PICK d, r : Coming(d, r) /\ Poised(d, r)
    BY <1>1 DEF SerialInv, WriteInv
  <1>4. PICK w \in Seq(Byte) : w = Head(calls) /\ w # <<>> /\ Len(w) \in Nat /\ calls # <<>> /\ Len(w) # 0
    BY <1>2, <1>3, PoisedCalls, NoBytes
  <1>5. tx = <<>> /\ d \in Seq(Byte)
    BY <1>3 DEF Poised, Coming
  <1>6. CASE /\ tx' = tx \o Head(calls) /\ pc' = "verify" /\ got' = <<>> /\ esc' = "normal"
             /\ UNCHANGED <<up, calls, job, last, ran, answer, events>>
    <2>1. tx' = w
      BY <1>4, <1>5, <1>6, NoBytes
    <2>2. Echo(d, r)'
      BY <1>1, <1>2, <1>3, <1>4, <1>6, <2>1, EchoBegins
    <2>3. Heard(d, r)'
      BY <1>1, <1>2, <1>3, <1>5, <1>6, NoBytes DEF Heard, Coming
    <2>4. VerifyInv'
      BY <1>2, <1>4, <1>6, <2>2, <2>3 DEF VerifyInv
    <2>5. Sending(w)
      <3>1. Len(w) \in 1 .. Len(w) /\ SubSeq(w, 1, Len(w)) = w
        BY <1>4, SubSeqFull
      <3> QED
        BY <1>2, <1>3, <1>4, <3>1, SendingPrefix
    <2>6. Honest'
      <3>1. Sending(tx)'
        BY <1>1, <1>6, <2>1, <2>5 DEF Sending
      <3>2. answer = <<>>
        BY <1>2 DEF SerialInv, Honest
      <3> QED
        BY <1>2, <1>6, <3>1, <3>2 DEF Honest
    <2>7. SerialTypes'
      BY <1>1, <1>2, <1>6, <2>1, NoBytes, HostTypes DEF SerialTypes, TypeOK
    <2>8. SizeInv'
      <3>1. Size' = Len(w)
        BY <1>4, <1>6 DEF Size
      <3>2. Len(<<>>) <= Len(w)
        BY <1>4, NoBytes
      <3> QED
        BY <1>6, <3>1, <3>2 DEF SizeInv
    <2>9. Asked'
      BY <1>1, <1>2, <1>6 DEF Asked
    <2>10. IdleInv' /\ BeginInv' /\ ResetInv' /\ WriteInv' /\ ReadInv'
      BY <1>6 DEF IdleInv, BeginInv, ResetInv, WriteInv, ReadInv
    <2> QED
      BY <2>4, <2>6, <2>7, <2>8, <2>9, <2>10 DEF SerialInv
  <1>7. ASSUME Disturbance, NEW k \in 0 .. Len(Head(calls)) - 1, tx' = tx \o SubSeq(Head(calls), 1, k), Throw
        PROVE  SerialInv'
    <2>1. k \in 0 .. Len(w) /\ (k = 0 \/ k \in 1 .. Len(w))
      <3>1. k \in 0 .. Len(w) - 1 /\ Len(w) \in Nat
        BY <1>4, <1>7
      <3>2. \A n \in Nat : \A i \in 0 .. n - 1 : i \in 0 .. n /\ (i = 0 \/ i \in 1 .. n)
        OBVIOUS
      <3> QED
        BY <3>1, <3>2
    <2>2. SubSeq(w, 1, k) \in Seq(Byte) /\ Len(SubSeq(w, 1, k)) = k
      BY <2>1, CutInTwo
    <2>3. tx' = SubSeq(w, 1, k) /\ tx' \in Seq(Byte)
      BY <1>4, <1>5, <1>7, <2>2, NoBytes
    <2>4. Honest'
      <3>1. answer = <<>> /\ (ran' = <<>> /\ answer' = answer /\ last' = last)
        BY <1>2, <1>7 DEF SerialInv, Honest, Throw
      <3>2. CASE k = 0
        <4>1. tx' = <<>>
          BY <2>2, <2>3, <3>2, NoBytes
        <4> QED
          BY <3>1, <4>1 DEF Honest
      <3>3. CASE k \in 1 .. Len(w)
        <4>1. Sending(SubSeq(w, 1, k))
          BY <1>2, <1>3, <1>4, <3>3, SendingPrefix
        <4>2. Sending(tx)'
          BY <1>1, <2>3, <3>1, <4>1 DEF Sending
        <4> QED
          BY <3>1, <4>2 DEF Honest
      <3> QED
        BY <2>1, <3>2, <3>3
    <2>5. events' \in 0 .. Events
      <3>1. events < Events /\ events' = events + 1
        BY <1>7 DEF Disturbance
      <3>2. events \in 0 .. Events /\ Events \in Nat
        BY <1>2, SerialAssumption DEF SerialTypes, TypeOK
      <3> QED
        BY <3>1, <3>2
    <2>6. SerialTypes'
      BY <1>1, <1>2, <1>7, <2>3, <2>5, LeaveTypes DEF Throw
    <2> QED
      BY <1>2, <1>7, <2>4, <2>6, ThrowKeeps
  <1> QED
    BY <1>6, <1>7 DEF Send

-----------------------------------------------------------------------------
(* A call returns, with its answer.                                        *)

\* A call returns on a link that is settled.
LEMMA DoneSettled ==
    ASSUME SerialInv, Done, UNCHANGED <<dev, running, owed, tx, rx, ahead, up, events>>,
           esc = "normal", ahead = <<>>, NEW d, NEW r, Coming(d, r), Settled(d, r)
    PROVE  SerialInv'
  <1>1. Leave /\ esc' = "normal" /\ ran' = <<>> /\ answer' = <<>>
    BY DEF Done, Leave, Forget
  <1>2. Coming(d, r)' /\ Settled(d, r)'
    BY <1>1 DEF Coming, Settled, AtMostAck, Hears
  <1>3. Rested'
    BY <1>1, <1>2 DEF Rested
  <1>4. SerialTypes'
    BY <1>1, LeaveTypes DEF SerialInv, SerialTypes, TypeOK
  <1> QED
    BY <1>3, <1>4, DoneKeeps

LEMMA NotFoul ==
    \A w, d \in Seq(Byte) : \A r : w # <<>> => ~Foul(w, w \o d, r) /\ w \o d # <<>> /\ Len(w \o d) >= Len(w)
  <1> SUFFICES ASSUME NEW w \in Seq(Byte), NEW d \in Seq(Byte), NEW r, w # <<>>
               PROVE  ~Foul(w, w \o d, r) /\ w \o d # <<>> /\ Len(w \o d) >= Len(w)
    OBVIOUS
  <1>1. /\ Len(w) \in Nat /\ Len(w) # 0 /\ Len(d) \in Nat
        /\ w \o d \in Seq(Byte) /\ Len(w \o d) = Len(w) + Len(d)
    BY NoBytes, BytesConcat
  <1>2. Len(w \o d) >= Len(w) /\ Len(w \o d) # 0
    BY <1>1
  <1>3. w \o d # <<>>
    BY <1>1, <1>2, NoBytes
  <1>4. (w \o d)[1] = w[1]
    <2>1. 1 \in 1 .. Len(w) + Len(d) /\ 1 <= Len(w)
      BY <1>1
    <2>2. \A i \in 1 .. Len(w) + Len(d) : (w \o d)[i] = IF i <= Len(w) THEN w[i] ELSE d[i - Len(w)]
      BY ConcatProperties
    <2> QED
      BY <2>1, <2>2
  <1>5. ~(Len(w \o d) < Len(w))
    BY <1>1
  <1> QED
    BY <1>2, <1>3, <1>4, <1>5 DEF Foul

LEMMA AckIsByte == <<>> \in Seq(Byte) /\ <<"ff">> \in Seq(Byte)
  <1>1. "ff" \in Byte
    BY DEF Byte
  <1> QED
    BY <1>1, NoBytes

\* All of a write was read back as it was: what is left.
LEMMA SyncVerified ==
    ASSUME NEW d \in Seq(Byte), NEW r, EchoSync(Sync \o d, r)
    PROVE  Settled(d, r) /\ ahead = <<>> /\ ran = <<>> /\ (d = <<>> \/ d = <<"ff">>)
  <1>1. Sync \in Seq(Byte) /\ Sync # <<>> /\ <<>> \in Seq(Byte) /\ <<"ff">> \in Seq(Byte)
    <2>1. Sync # <<>>
      BY SyncIsCall DEF Call
    <2> QED
      BY <2>1, SyncIsCall, AckIsByte
  <1>2. Sync \o d # <<>>
    BY <1>1, NotFoul
  <1>3. PICK x \in {<<>>, <<"ff">>} : Sync \o d = Sync \o x /\ Settled(x, r)
    BY <1>2 DEF EchoSync
  <1>4. x \in Seq(Byte)
    BY <1>1
  <1>5. d = x
    BY <1>1, <1>3, <1>4, ConcatCancel
  <1> QED
    BY <1>3, <1>5 DEF EchoSync

LEMMA FirstVerified ==
    ASSUME NEW f \in Jobs, f.name # "ack", NEW d \in Seq(Byte), NEW r, EchoFirst(f, f.writes[1] \o d, r)
    PROVE  /\ ahead = <<>>
           /\ \/ Len(f.writes) = 2 /\ d = <<>> /\ r = <<>> /\ owed = <<>> /\ ran = <<>> /\ dev = "arg" /\ tx = <<>>
              \/ f.size > 0 /\ Answering(d, r)
              \/ f.size = 0 /\ Len(f.writes) = 1 /\ Settled(d, r)
  <1> DEFINE w == f.writes[1]
  <1>1. w \in Seq(Byte) /\ w # <<>> /\ <<>> \in Seq(Byte) /\ <<"ff">> \in Seq(Byte)
    BY FirstWrite, AckIsByte
  <1>2. w \o d # <<>> /\ Len(w \o d) >= Len(w) /\ Len(w \o d) \in Nat /\ Len(w) \in Nat
    BY <1>1, NotFoul, BytesConcat, NoBytes
  <1>3. ~(w \o d = <<"wr">> /\ Len(w) = 2)
    <2> SUFFICES ASSUME w \o d = <<"wr">>, Len(w) = 2
                 PROVE  FALSE
      OBVIOUS
    <2>1. Len(w \o d) = 1
      OBVIOUS
    <2> QED
      BY <1>2, <2>1
  <1>4. \A x \in Seq(Byte) : w \o d = w \o x => d = x
    BY <1>1, ConcatCancel
  <1>5. w \o d = w => d = <<>>
    BY <1>1, <1>4, NoBytes
  <1> QED
    <2>1. CASE f.size > 0 /\ \E x \in Seq(Byte) : w \o d = w \o x /\ Answering(x, r)
      BY <1>4, <2>1 DEF EchoFirst
    <2>2. CASE /\ f.size = 0 /\ Len(f.writes) = 1
               /\ \E x \in {<<>>, <<"ff">>} : w \o d = w \o x /\ Settled(x, r)
      <3>1. PICK x \in {<<>>, <<"ff">>} : w \o d = w \o x /\ Settled(x, r)
        BY <2>2
      <3>2. d = x
        BY <1>1, <1>4, <3>1
      <3> QED
        BY <2>2, <3>1, <3>2 DEF EchoFirst
    <2>3. CASE r = <<>> /\ owed = <<>> /\ ran = <<>> /\ dev = "arg" /\ Len(f.writes) = 2 /\ w \o d = w /\ tx = <<>>
      BY <1>5, <2>3 DEF EchoFirst
    <2> QED
      BY <1>2, <1>3, <2>1, <2>2, <2>3 DEF EchoFirst

LEMMA SecondVerified ==
    ASSUME NEW f \in Jobs, f.name # "ack", Len(f.writes) = 2, NEW d \in Seq(Byte), NEW r,
           EchoSecond(f, f.writes[2] \o d, r)
    PROVE  ahead = <<>> /\ Settled(d, r)
  <1> DEFINE w == f.writes[2]
  <1>1. w \in Seq(Byte) /\ Len(w) = 1 /\ <<>> \in Seq(Byte) /\ <<"ff">> \in Seq(Byte)
    BY FirstWrite, AckIsByte
  <1>2. w # <<>>
    BY <1>1, NoBytes
  <1>3. w \o d # <<>>
    BY <1>1, <1>2, NotFoul
  <1>4. PICK x \in {<<>>, <<"ff">>} : w \o d = w \o x /\ Settled(x, r)
    BY <1>3 DEF EchoSecond
  <1>5. x \in Seq(Byte)
    BY <1>1
  <1>6. d = x
    BY <1>1, <1>4, <1>5, ConcatCancel
  <1> QED
    BY <1>4, <1>6 DEF EchoSecond

\* read has all it was asked for.
LEMMA AnswerIsThere ==
    ASSUME got \in Seq(Byte), NEW d \in Seq(Byte), NEW r, Answering(got \o d, r), Len(got) = job.size,
           answer \in Seq(Byte), owed \in Seq(Byte), job.size \in Nat
    PROVE  got = answer /\ Settled(d, r) /\ ahead = <<>> /\ ran = <<Whole(last)>>
  <1>1. PICK h \in Seq(Byte), a \in Seq(Byte), o \in Seq(Byte), n \in Nat :
            h = got /\ a = answer /\ o = owed /\ n = job.size
    OBVIOUS
  <1>2. /\ Len(h) = n /\ Len(d) \in Nat /\ Len(o) \in Nat /\ Len(a) \in Nat
        /\ h \o d \in Seq(Byte) /\ Len(h \o d) = n + Len(d)
    BY <1>1, NoBytes, BytesConcat
  <1>3. Answering(h \o d, r) /\ ahead = <<>> /\ ran = <<Whole(last)>>
    BY <1>1 DEF Answering
  <1>4. ~(o # <<>> /\ (h \o d) \o o = a /\ Len(a) = n)
    <2> SUFFICES ASSUME o # <<>>, (h \o d) \o o = a, Len(a) = n
                 PROVE  FALSE
      OBVIOUS
    <2>1. Len((h \o d) \o o) = Len(h \o d) + Len(o) /\ Len(o) # 0
      BY <1>2, BytesConcat, NoBytes
    <2> QED
      BY <1>2, <2>1
  <1>5. ~(Len(h \o d) + Len(o) < n) /\ ~(Len(h \o d) < n)
    BY <1>2
  <1>6. Len(a) = n /\ \E x \in {<<>>, <<"ff">>} : h \o d = a \o x /\ Settled(x, r)
    BY <1>1, <1>3, <1>4, <1>5 DEF Answering
  <1>7. PICK x \in {<<>>, <<"ff">>} : h \o d = a \o x /\ Settled(x, r)
    BY <1>6
  <1>8. x \in Seq(Byte)
    <2>1. <<"ff">> \in Seq(Byte)
      BY DEF Byte
    <2> QED
      BY <2>1, NoBytes
  <1>9. h = a /\ d = x
    <2>1. Len(h) = Len(a) /\ h \o d = a \o x
      BY <1>2, <1>6, <1>7
    <2> QED
      BY ONLY <1>8, <2>1, h \in Seq(Byte), a \in Seq(Byte), d \in Seq(Byte), ConcatCancel
  <1> QED
    BY <1>1, <1>3, <1>7, <1>9

LEMMA ReceivedKeeps == SerialInv /\ Received => SerialInv'
  <1> SUFFICES ASSUME SerialInv, Received
               PROVE  SerialInv'
    OBVIOUS
  <1>0. pc = "read" /\ Len(got) = job.size /\ Done /\ UNCHANGED <<dev, running, owed, tx, rx, ahead, up, events>>
    BY DEF Received, Size, line
  <1>1. esc = "normal" /\ TypeOK
    <2>1. SizeInv /\ TypeOK
      BY DEF SerialInv, SerialTypes
    <2>2. Size = job.size /\ Size \in Nat
      BY <1>0, SizeType DEF Size
    <2> QED
      BY <1>0, <2>1, <2>2 DEF SizeInv
  <1>2. PICK g, r : Heard(g, r) /\ Replying(g, r)
    BY <1>0, <1>1 DEF SerialInv, ReadInv
  <1>3. PICK d \in Seq(Byte) : Coming(d, r) /\ g = got \o d /\ got \in Seq(Byte)
    BY <1>2 DEF Heard, Coming
  <1>4. CASE (\E f \in Jobs : f.name # "ack" /\ f.size > 0 /\ job = Part(f, <<>>)) /\ Answering(g, r)
    <2>1. job.size \in Nat
      BY <1>4, SizeOfJob
    <2>2. answer \in Seq(Byte) /\ owed \in Seq(Byte)
      BY SerialAssumption, NoBytes DEF SerialInv, SerialTypes, TypeOK
    <2>3. Settled(d, r) /\ ahead = <<>>
      BY <1>0, <1>3, <1>4, <2>1, <2>2, AnswerIsThere
    <2> QED
      BY <1>0, <1>1, <1>3, <2>3, DoneSettled
  <1>5. CASE job \in Jobs /\ job.name = "ack" /\ ahead = <<>> /\ Settled(g, r)
    <2>1. job.size = 1
      BY <1>5, JobParts
    <2>2. g = <<>> \/ g = <<"ff">>
      BY <1>5 DEF Settled, AtMostAck
    <2>3. d = <<>>
      <3>1. Len(got \o d) = Len(got) + Len(d) /\ Len(d) \in Nat /\ Len(<<"ff">>) = 1 /\ Len(<<>>) = 0
        BY <1>3, BytesConcat, NoBytes
      <3>2. Len(g) = 1 + Len(d) /\ (Len(g) = 0 \/ Len(g) = 1)
        BY <1>0, <1>3, <2>1, <2>2, <3>1
      <3>3. Len(d) = 0
        BY <3>1, <3>2
      <3> QED
        BY <3>3, NoBytes
    <2>4. Settled(d, r)
      BY <1>5, <2>3 DEF Settled, AtMostAck
    <2> QED
      BY <1>0, <1>1, <1>3, <1>5, <2>4, DoneSettled
  <1> QED
    BY <1>2, <1>4, <1>5 DEF Replying

-----------------------------------------------------------------------------
(* What was sent has been read back.                                       *)

\* The next write, where the calls go on: that of a command.
LEMMA PopKeeps ==
    ASSUME SerialInv, Nested, Len(calls) > 1, calls' = Tail(calls), pc' = "send", pc = "verify", up,
           esc = "normal", ran = <<>>, ahead = <<>>,
           UNCHANGED <<dev, running, owed, tx, rx, ahead, up, got, esc, job, last, ran, answer, events>>,
           NEW d, NEW r, Coming(d, r), Settled(d, r)
    PROVE  SerialInv'
  <1>1. calls \in Seq(Call)
    BY DEF SerialInv, SerialTypes, Call
  <1>2. /\ calls' \in Seq(Call) /\ calls' # <<>>
        /\ (Head(calls') = Sync /\ Nested') \/ \E f \in Jobs : Command(f)' /\ First(f)'
    BY <1>1, NestedPop
  <1>3. Coming(d, r)' /\ tx = <<>> /\ owed = <<>> /\ AtMostAck(d)' /\ Hears(r)' /\ Buffered(d)' /\ dev \in {"deaf", "ready"}
    BY DEF Coming, Settled, AtMostAck, Hears, Buffered
  <1>4. Poised(d, r)'
    BY <1>2, <1>3 DEF Poised
  <1>5. WriteInv'
    BY <1>3, <1>4 DEF WriteInv
  <1>6. SerialTypes'
    BY <1>2, HostTypes DEF SerialInv, SerialTypes, TypeOK
  <1>7. Honest'
    BY HonestKept DEF SerialInv
  <1>8. Asked'
    BY DEF SerialInv, Asked
  <1>9. IdleInv' /\ BeginInv' /\ ResetInv' /\ VerifyInv' /\ ReadInv' /\ SizeInv'
    BY DEF IdleInv, BeginInv, ResetInv, VerifyInv, ReadInv, SizeInv
  <1> QED
    BY <1>5, <1>6, <1>7, <1>8, <1>9 DEF SerialInv

\* The second write of a command.
LEMMA SecondNext ==
    ASSUME SerialInv, NEW f \in Jobs, Command(f), Len(f.writes) = 2, job = Part(f, Tail(f.writes)), Continue, up,
           UNCHANGED <<dev, running, owed, tx, rx, ahead, up, events>>,
           tx = <<>>, owed = <<>>, ran = <<>>, ahead = <<>>, dev = "arg", esc = "normal", Coming(<<>>, <<>>)
    PROVE  SerialInv'
  <1>1. /\ f.name # "ack" /\ Tail(f.writes) = <<f.writes[2]>> /\ f.writes[2] \in Seq(Byte) /\ Len(f.writes[2]) = 1
        /\ f.name \notin {"none", "reset"}
    <2>1. f.name # "ack" /\ f.name \notin {"none", "reset"}
      BY JobParts DEF Command
    <2>2. Tail(f.writes) = IF Len(f.writes) = 1 THEN <<>> ELSE <<f.writes[2]>>
      BY <2>1, FirstWrite
    <2>3. Tail(f.writes) = <<f.writes[2]>>
      BY <2>2
    <2> QED
      BY <2>1, <2>3, FirstWrite
  <1>2. job.writes = <<f.writes[2]>> /\ job.name = f.name
    BY <1>1, SizeOfJob
  <1>3. /\ calls' = <<Head(job.writes)>> /\ job' = [job EXCEPT !.writes = Tail(@)]
        /\ pc' = "peek" /\ got' = <<>> /\ esc' = "normal" /\ UNCHANGED <<last, ran, answer>>
    <2>1. job.writes # <<>>
      BY ONLY <1>2
    <2> QED
      BY <2>1 DEF Continue
  <1>4. job' = Part(f, <<>>)
    <2>1. job' = Part(f, Tail(<<f.writes[2]>>))
      BY <1>1, <1>3, PartNext
    <2>2. Tail(<<f.writes[2]>>) = <<>>
      OBVIOUS
    <2> QED
      BY <2>1, <2>2
  <1>5. calls' = <<f.writes[2]>>
    BY <1>2, <1>3
  <1>6. Second(f)' /\ Command(f)'
    BY <1>4, <1>5, CommandKept DEF Second
  <1>7. calls' \in Seq(Call)
    <2>1. f.writes[2] # <<>>
      <3>1. Len(f.writes[2]) # Len(<<>>)
        BY <1>1, NoBytes
      <3> QED
        BY ONLY <3>1, Zenon
    <2> QED
      BY <1>1, <1>5, <2>1, OneCall
  <1>8. SerialTypes'
    BY <1>3, <1>7, NoBytes, HostTypes DEF SerialInv, SerialTypes, TypeOK
  <1>9. Honest'
    BY <1>3, HonestKept DEF SerialInv
  <1>10. Asked'
    <2>1. job'.name = f.name /\ ResetJob.name = "reset"
      BY <1>4, SizeOfJob DEF ResetJob, NoJob
    <2> QED
      BY <1>1, <1>2, <1>3, <2>1 DEF SerialInv, Asked
  <1>11. Coming(<<>>, <<>>)'
    BY <1>3 DEF Coming
  <1>12. Poised(<<>>, <<>>)'
    BY <1>6 DEF Poised, Buffered
  <1>13. WriteInv'
    BY <1>3, <1>11, <1>12 DEF WriteInv
  <1>14. IdleInv' /\ BeginInv' /\ ResetInv' /\ VerifyInv' /\ ReadInv' /\ SizeInv'
    BY <1>3 DEF IdleInv, BeginInv, ResetInv, VerifyInv, ReadInv, SizeInv
  <1> QED
    BY <1>8, <1>9, <1>10, <1>13, <1>14 DEF SerialInv

\* The answer is read after the last write.
LEMMA AnswerNext ==
    ASSUME SerialInv, NEW f \in Jobs, f.name # "ack", f.size > 0, job = Part(f, <<>>), Continue, up,
           UNCHANGED <<dev, running, owed, tx, rx, ahead, up, events>>,
           esc = "normal", NEW d, NEW r, Coming(d, r), Answering(d, r)
    PROVE  SerialInv'
  <1>1. job.writes = <<>> /\ job.size = f.size /\ f.size \in Nat
    BY SizeOfJob
  <1>2. /\ pc' = "read" /\ calls' = <<>> /\ got' = <<>> /\ esc' = "normal"
        /\ UNCHANGED <<job, last, ran, answer>>
    BY <1>1 DEF Continue
  <1>3. SerialTypes'
    BY <1>2, NoBytes, CallsAre, HostTypes DEF SerialInv, SerialTypes, TypeOK
  <1>4. Honest'
    BY <1>2, HonestKept DEF SerialInv
  <1>5. Asked'
    BY <1>2 DEF SerialInv, Asked
  <1>6. Answering(d, r)' /\ tx' = <<>>
    <2>1. \A x, q : Settled(x, q) => Settled(x, q)'
      BY DEF Settled, AtMostAck, Hears
    <2> QED
      BY <1>2, <2>1 DEF Answering
  <1>7. Replying(d, r)'
    BY <1>2, <1>6 DEF Replying
  <1>8. Heard(d, r)'
    <2>1. d \in Seq(Byte) /\ Coming(d, r)'
      BY <1>2 DEF Coming
    <2> QED
      BY <1>2, <2>1, NoBytes DEF Heard
  <1>9. ReadInv'
    BY <1>1, <1>2, <1>6, <1>7, <1>8 DEF ReadInv
  <1>10. SizeInv'
    <2>1. Size' = f.size
      BY <1>1, <1>2 DEF Size
    <2> QED
      BY <1>1, <1>2, <2>1, NoBytes DEF SizeInv
  <1>11. IdleInv' /\ BeginInv' /\ ResetInv' /\ WriteInv' /\ VerifyInv'
    BY <1>2 DEF IdleInv, BeginInv, ResetInv, WriteInv, VerifyInv
  <1> QED
    BY <1>3, <1>4, <1>5, <1>9, <1>10, <1>11 DEF SerialInv

LEMMA VerifiedKeeps == SerialInv /\ Verified => SerialInv'
  <1> SUFFICES ASSUME SerialInv, Verified
               PROVE  SerialInv'
    OBVIOUS
  <1>0. pc = "verify" /\ Len(got) = Size /\ UNCHANGED <<dev, running, owed, tx, rx, ahead, events>>
    BY DEF Verified, line
  <1>1. up /\ calls # <<>> /\ calls \in Seq(Call) /\ SerialTypes
    BY <1>0 DEF SerialInv, VerifyInv, SerialTypes, Call
  <1>2. esc = "normal"
    <2>1. SizeInv /\ Size \in Nat
      BY <1>0, SizeType DEF SerialInv
    <2> QED
      BY <1>0, <2>1 DEF SizeInv
  <1>3. CASE got # Head(calls) /\ Throw
    <2>1. Honest'
      BY <1>0, <1>3, HonestKept DEF SerialInv, Throw
    <2>2. SerialTypes'
      BY <1>0, <1>1, <1>3, LeaveTypes DEF Throw, SerialTypes, TypeOK
    <2> QED
      BY <1>3, <2>1, <2>2, ThrowKeeps DEF SerialInv
  <1>4. ASSUME got = Head(calls),
               \/ /\ Len(calls) > 1 /\ calls' = Tail(calls) /\ pc' = "send"
                  /\ UNCHANGED <<up, got, esc, job, last, ran, answer>>
               \/ Len(calls) = 1 /\ Continue /\ up' = up
        PROVE  SerialInv'
    <2>1. PICK g, r : Heard(g, r) /\ Echo(g, r)
      BY <1>0, <1>2 DEF SerialInv, VerifyInv
    <2>2. PICK d \in Seq(Byte) : Coming(d, r) /\ g = got \o d
      BY <2>1 DEF Heard, Coming
    <2>3. PICK w \in Seq(Byte) : w = Head(calls) /\ w # <<>> /\ g = w \o d
      <3>1. Head(calls) \in Call
        BY <1>1, HeadAndTail
      <3> QED
        BY <1>4, <2>2, <3>1 DEF Call
    <2>4. ~Foul(w, g, r)
      BY <2>3, NotFoul
    <2>5. CASE w = Sync /\ Nested /\ EchoSync(g, r)
      <3>1. Settled(d, r) /\ ahead = <<>> /\ ran = <<>>
        BY <2>3, <2>5, SyncVerified
      <3>2. CASE Len(calls) > 1
        <4>1. /\ calls' = Tail(calls) /\ pc' = "send"
              /\ UNCHANGED <<up, got, esc, job, last, ran, answer>>
          <5>1. Len(calls) # 1
            <6>1. Len(calls) \in Nat
              BY <1>1, CallsAre
            <6>2. \A n \in Nat : n > 1 => n # 1
              OBVIOUS
            <6> QED
              BY <3>2, <6>1, <6>2
          <5> QED
            BY <1>4, <5>1
        <4> QED
          BY <1>0, <1>1, <1>2, <2>2, <2>5, <3>1, <3>2, <4>1, PopKeeps
      <3>3. CASE Len(calls) = 1
        <4>0. Continue /\ up' = up
          BY <1>4, <3>3
        <4>1. job = ResetJob \/ Command(job)
          BY <1>1, <2>3, <2>5, <3>3, NestedLast
        <4>2. CASE job = ResetJob
          <5>1. job.writes = <<>> /\ job.size = 0
            BY <4>2 DEF ResetJob, NoJob
          <5>2. Done
            BY <4>0, <5>1 DEF Continue
          <5> QED
            BY <1>0, <1>2, <2>2, <3>1, <4>0, <5>2, DoneSettled
        <4>3. CASE Command(job)
          <5>1. esc' = "normal"
            BY <4>0, <4>3, FirstWrite DEF Continue, Command
          <5>2. Coming(d, r)' /\ Buffered(d)' /\ AtMostAck(d) /\ Hears(r) /\ tx = <<>> /\ owed = <<>>
            BY <1>0, <1>2, <2>2, <3>1, <5>1 DEF Coming, Buffered, Settled
          <5>3. rx' \in Seq(Byte) /\ ahead' \in Seq(Byte)
            BY <1>0, <1>1 DEF SerialTypes, TypeOK
          <5> QED
            BY <1>0, <1>1, <3>1, <4>0, <4>3, <5>2, <5>3, FirstWriteNext
        <4> QED
          BY <4>1, <4>2, <4>3
      <3> QED
        BY <1>4, <3>2, <3>3
    <2>6. ASSUME NEW f \in Jobs, Command(f), First(f), EchoFirst(f, g, r)
          PROVE  SerialInv'
      <3>0. f.name # "ack" /\ calls = <<f.writes[1]>> /\ w = f.writes[1] /\ job = Part(f, Tail(f.writes))
        BY <2>3, <2>6 DEF Command, First
      <3>1. Continue /\ up' = up
        BY <1>4, <3>0
      <3>2. /\ ahead = <<>>
            /\ \/ Len(f.writes) = 2 /\ d = <<>> /\ r = <<>> /\ owed = <<>> /\ ran = <<>> /\ dev = "arg" /\ tx = <<>>
               \/ f.size > 0 /\ Answering(d, r)
               \/ f.size = 0 /\ Len(f.writes) = 1 /\ Settled(d, r)
        BY <2>3, <2>6, <3>0, FirstVerified
      <3>3. CASE Len(f.writes) = 2 /\ d = <<>> /\ r = <<>> /\ owed = <<>> /\ ran = <<>> /\ dev = "arg" /\ tx = <<>>
        BY <1>0, <1>1, <1>2, <2>2, <2>6, <3>0, <3>1, <3>2, <3>3, SecondNext
      <3>4. CASE f.size > 0 /\ Answering(d, r)
        <4>1. Len(f.writes) # 2 /\ job = Part(f, <<>>)
          <5>1. Len(f.writes) = 2 => f.size = 0
            BY <3>0, FirstWrite
          <5>2. Len(f.writes) # 2
            BY <3>4, <5>1
          <5> QED
            BY <3>0, <5>2, FirstWrite
        <4> QED
          BY <1>0, <1>1, <1>2, <2>2, <3>0, <3>1, <3>4, <4>1, AnswerNext
      <3>5. CASE f.size = 0 /\ Len(f.writes) = 1 /\ Settled(d, r)
        <4>1. job.writes = <<>> /\ job.size = 0
          <5>1. Tail(f.writes) = <<>>
            BY <3>0, <3>5, FirstWrite
          <5> QED
            BY <3>0, <3>5, <5>1, SizeOfJob
        <4>2. Done
          BY <3>1, <4>1 DEF Continue
        <4> QED
          BY <1>0, <1>2, <2>2, <3>1, <3>2, <3>5, <4>2, DoneSettled
      <3> QED
        BY <3>2, <3>3, <3>4, <3>5
    <2>7. ASSUME NEW f \in Jobs, Command(f), Second(f), EchoSecond(f, g, r)
          PROVE  SerialInv'
      <3>0. /\ f.name # "ack" /\ calls = <<f.writes[2]>> /\ w = f.writes[2] /\ job = Part(f, <<>>)
            /\ Len(f.writes) = 2
        BY <2>3, <2>7 DEF Command, Second
      <3>1. Continue /\ up' = up
        BY <1>4, <3>0
      <3>2. ahead = <<>> /\ Settled(d, r)
        BY <2>3, <2>7, <3>0, SecondVerified
      <3>3. job.writes = <<>> /\ job.size = 0
        <4>1. f.size = 0
          BY <3>0, FirstWrite
        <4> QED
          BY <3>0, <4>1, SizeOfJob
      <3>4. Done
        BY <3>1, <3>3 DEF Continue
      <3> QED
        BY <1>0, <1>2, <2>2, <3>1, <3>2, <3>4, DoneSettled
    <2> QED
      <3>1. \A f : (First(f) => w = f.writes[1]) /\ (Second(f) => w = f.writes[2])
        BY <2>3 DEF First, Second
      <3> QED
        BY <2>1, <2>3, <2>4, <2>5, <2>6, <2>7, <3>1 DEF Echo
  <1> QED
    BY <1>3, <1>4 DEF Verified

-----------------------------------------------------------------------------
(* The invariant, and what follows from it.                                *)

LEMMA NothingKeeps == SerialInv /\ UNCHANGED vars => SerialInv'
  <1> SUFFICES ASSUME SerialInv, UNCHANGED vars
               PROVE  SerialInv'
    OBVIOUS
  <1>1. UNCHANGED <<dev, running, owed, tx, rx, ahead, up, pc, calls, got, esc, job, last, ran, answer, events>>
    BY DEF vars
  <1>2. ReadStep /\ Aside
    BY <1>1 DEF ReadStep, Aside
  <1>3. SerialTypes'
    BY <1>1 DEF SerialInv, SerialTypes, TypeOK
  <1>4. Honest'
    BY <1>1, HonestKept DEF SerialInv
  <1>5. \A d, r : (Coming(d, r) => Coming(d, r)') /\ (Settled(d, r) => Settled(d, r)')
    BY <1>1 DEF Coming, Settled, AtMostAck, Hears
  <1>6. Rested => Rested'
    BY <1>1, <1>5 DEF Rested
  <1>7. Command(job) => Command(job)'
    BY <1>1 DEF Command
  <1>8. Nested => Nested'
    BY <1>1, NestedKept
  <1>9. \A d, r : Poised(d, r) => Poised(d, r)'
    <2>1. \A f : (Command(f) => Command(f)') /\ (First(f) => First(f)') /\ (Second(f) => Second(f)')
      BY <1>1, CommandKept, WritesKept
    <2>2. \A d, r : (Buffered(d) => Buffered(d)') /\ (AtMostAck(d) => AtMostAck(d)') /\ (Hears(r) => Hears(r)')
      BY <1>1 DEF Buffered, AtMostAck, Hears
    <2> QED
      BY <1>1, <1>8, <2>1, <2>2 DEF Poised
  <1>10. \A g, r : Heard(g, r) => Heard(g, r)'
    BY <1>1, <1>5 DEF Heard
  <1>11. \A g, r : (Echo(g, r) => Echo(g, r)') /\ (Replying(g, r) => Replying(g, r)')
    BY <1>2, EchoKept, AnswerKept
  <1>12. /\ pc = "read" => tx = <<>>
         /\ pc \in {"flush", "break", "flush_again"} => Nested
    BY DEF SerialInv, ReadInv, ResetInv
  <1> QED
    BY <1>1, <1>2, <1>3, <1>4, <1>5, <1>6, <1>7, <1>8, <1>9, <1>10, <1>11, <1>12, LineKeeps

LEMMA SerialNext == "split" \notin Faults /\ SerialInv /\ [Next]_vars => SerialInv'
  <1> SUFFICES ASSUME "split" \notin Faults, SerialInv, [Next]_vars
               PROVE  SerialInv'
    OBVIOUS
  <1>1. CASE \E j \in Jobs : Begin(j)
    BY <1>1, BeginKeeps
  <1>2. CASE Reset
    BY <1>2, ResetKeeps
  <1>3. CASE Host
    BY <1>3, NewCommandKeeps, StartKeeps, PeekFirstKeeps, SendKeeps, ChunkKeeps, InterruptedKeeps,
       TimeoutKeeps, VerifiedKeeps, ReceivedKeeps, ResetFlushKeeps, ResetBreakKeeps, ResetUpKeeps DEF Host
  <1>4. CASE Line
    BY <1>4, TransmitKeeps, DeviceSendsKeeps DEF Line
  <1>5. CASE Acknowledge \/ ClockSwitch \/ Noise \/ Lose
    BY <1>5, AcknowledgeKeeps, ClockSwitchKeeps, NoiseKeeps, LoseKeeps
  <1>6. CASE UNCHANGED vars
    BY <1>6, NothingKeeps
  <1> QED
    BY <1>1, <1>2, <1>3, <1>4, <1>5, <1>6 DEF Next

\* The invariant holds in every state of the link: every handler of ocd_serial
\* and serialport, every step of the device and every disturbance keeps it.
THEOREM SerialInvariant ==
    ASSUME "split" \notin Faults
    PROVE  Spec => []SerialInv
  <1>1. Init => SerialInv
    BY InitHolds
  <1>2. SerialInv /\ [Next]_vars => SerialInv'
    BY SerialNext
  <1> QED
    BY <1>1, <1>2, PTL DEF Spec

\* Buffers, locals and calls are well formed, and read never meets the escape
\* for which it calls abort() (serialport.cpp), whatever error() has read ahead.
THEOREM SerialTypesHold ==
    ASSUME "split" \notin Faults
    PROVE  Spec => []TypeOK
  <1>1. SerialInv => TypeOK
    BY DEF SerialInv, SerialTypes
  <1> QED
    BY <1>1, SerialInvariant, PTL

LEMMA ListensThere == SerialInv => UpIsListening
  <1> SUFFICES ASSUME SerialInv, pc = "idle", up, dev # "ready"
               PROVE  Break[2] \in {rx[i] : i \in DOMAIN rx}
    BY DEF UpIsListening
  <1>1. esc = "normal" /\ ahead = <<>>
    BY DEF SerialInv, IdleInv, Rested
  <1>2. PICK d, r : Coming(d, r) /\ Settled(d, r)
    BY DEF SerialInv, IdleInv, Rested
  <1>3. d \in Seq(Byte) /\ Error(r) /\ r \in Seq(Byte)
    BY <1>2 DEF Coming, Settled, Hears
  <1>4. rx = Spell(d) \o r /\ rx \in Seq(Byte)
    <2>1. rx \in Seq(Byte) /\ Pending("normal") = <<>>
      BY DEF SerialInv, SerialTypes, TypeOK, Pending
    <2>2. <<>> \o (<<>> \o rx) = Spell(d) \o r
      BY <1>1, <1>2, <2>1 DEF Coming
    <2>3. <<>> \o (<<>> \o rx) = rx
      BY <2>1, NoBytes
    <2> QED
      BY <2>1, <2>2, <2>3
  <1> DEFINE s == Spell(d)
  <1>5. s \in Seq(Byte) /\ Len(s) \in Nat /\ Len(r) \in Nat /\ Len(r) >= 3 /\ r[2] = "00"
    BY <1>3, SpellType, NoBytes DEF Error
  <1> HIDE DEF s
  <1>6. /\ Len(rx) = Len(s) + Len(r)
        /\ \A i \in 1 .. Len(s) + Len(r) : rx[i] = IF i <= Len(s) THEN s[i] ELSE r[i - Len(s)]
    <2>1. rx = s \o r
      BY <1>4 DEF s
    <2> QED
      BY <1>3, <1>5, <2>1, ConcatProperties
  <1>7. Len(s) + 2 \in 1 .. Len(s) + Len(r) /\ ~(Len(s) + 2 <= Len(s)) /\ (Len(s) + 2) - Len(s) = 2
    BY <1>5
  <1>8. rx[Len(s) + 2] = "00" /\ Len(s) + 2 \in DOMAIN rx
    <2>1. DOMAIN rx = 1 .. Len(rx)
      BY <1>4
    <2> QED
      BY <1>5, <1>6, <1>7, <2>1
  <1>9. Break[2] = "00"
    BY DEF Break
  <1> QED
    BY <1>8, <1>9

\* Whenever no call is under way on a link that is up, the device listens for
\* a command, or a break or framing error is there for new_command or write to
\* find (UpIsListening).
THEOREM UpListens ==
    ASSUME "split" \notin Faults
    PROVE  Spec => []UpIsListening
  BY ListensThere, SerialInvariant, PTL

LEMMA AckTells == SerialInv => AckIsStop
  <1> SUFFICES ASSUME SerialInv, pc = "read", job.name = "ack", got = <<"ff">>
               PROVE  ~running
    BY DEF AckIsStop
  <1>1. ~\E f \in Jobs : f.name # "ack" /\ f.size > 0 /\ job = Part(f, <<>>)
    BY SizeOfJob
  <1>2. job \in Jobs /\ job.size = 1
    BY <1>1, JobParts DEF SerialInv, ReadInv
  <1>3. esc = "normal"
    <2>1. Size = 1 /\ Len(got) = 1
      BY <1>2 DEF Size
    <2> QED
      BY <2>1 DEF SerialInv, SizeInv
  <1>4. PICK g, r : Heard(g, r) /\ Replying(g, r)
    BY <1>3 DEF SerialInv, ReadInv
  <1>5. AtMostAck(g)
    BY <1>1, <1>4 DEF Replying, Settled
  <1>6. g # <<>>
    <2>1. PICK d \in Seq(Byte) : g = got \o d
      BY <1>4 DEF Heard, Coming
    <2>2. <<"ff">> \in Seq(Byte) /\ <<"ff">> # <<>>
      BY AckIsByte
    <2> QED
      BY <2>1, <2>2, NotFoul
  <1> QED
    BY <1>5, <1>6 DEF AtMostAck

\* When rd_ack has read an acknowledge the device is stopped: no acknowledge of
\* an earlier stop is left for it, whatever was lost, late or disturbed (AckIsStop).
THEOREM AckTellsOfStop ==
    ASSUME "split" \notin Faults
    PROVE  Spec => []AckIsStop
  BY AckTells, SerialInvariant, PTL

-----------------------------------------------------------------------------
(* The link implements the abstract one, step by step.                     *)

\* A step of the abstract link, or none.
Refined ==
    [Link!Next]_<<up, IF Garbled THEN "garbled" ELSE last, job.name \notin {"none", "reset", "ack"},
                  ran # <<>>, IF answer = <<>> THEN "nothing" ELSE answer>>
Waits == job.name \notin {"none", "reset", "ack"}
Clear == ~Garbled /\ ~Garbled'

LEMMA NotGarbled == SerialInv => ~Garbled
  <1> SUFFICES ASSUME SerialInv, pc = "read", job.name # "ack", Len(got) = Size
               PROVE  got = answer
    BY DEF Garbled, SerialInv, Honest
  <1>1. Len(got) = job.size /\ TypeOK
    BY DEF Size, SerialInv, SerialTypes
  <1>2. PICK f \in Jobs : f.name # "ack" /\ f.size > 0 /\ job = Part(f, <<>>)
    BY DEF SerialInv, ReadInv
  <1>3. job.size \in Nat
    BY <1>2, SizeOfJob
  <1>4. esc = "normal"
    BY <1>1, <1>3 DEF SerialInv, SizeInv, Size
  <1>5. PICK g, r : Heard(g, r) /\ Replying(g, r)
    BY <1>4 DEF SerialInv, ReadInv
  <1>6. Answering(g, r)
    BY <1>5 DEF Replying
  <1>7. PICK d \in Seq(Byte) : g = got \o d /\ got \in Seq(Byte)
    BY <1>5 DEF Heard, Coming
  <1>8. answer \in Seq(Byte) /\ owed \in Seq(Byte)
    BY SerialAssumption, NoBytes DEF SerialInv, SerialTypes, TypeOK
  <1> QED
    BY <1>1, <1>3, <1>6, <1>7, <1>8, AnswerIsThere

LEMMA LinkStays ==
    ASSUME Clear, UNCHANGED <<up, last, ran, answer>>, Waits' = Waits
    PROVE  Refined
  BY DEF Clear, Refined, Waits

LEMMA LinkAsks ==
    ASSUME Clear, UNCHANGED <<up, ran, answer>>, up, last = "nothing", ~Waits, Waits',
           NEW j \in Jobs, j.name # "ack", last' = j.name
    PROVE  Refined
  <1>1. j.name \in {i.name : i \in Jobs} \ {"ack"}
    OBVIOUS
  <1> QED
    BY <1>1 DEF Clear, Refined, Waits, Link!Next, Link!Ask

LEMMA LinkExecutes ==
    ASSUME Clear, UNCHANGED <<up, last, job>>, last # "nothing", ran = <<>>, ran' # <<>>,
           answer' = <<>> \/ answer' \in Answers
    PROVE  Refined
  BY SerialAssumption DEF Clear, Refined, Waits, Link!Next, Link!Execute

LEMMA LinkReturns ==
    ASSUME Clear, up, up' = up, Waits, ran # <<>>, last' = "nothing", ~Waits', ran' = <<>>, answer' = <<>>
    PROVE  Refined
  BY DEF Clear, Refined, Waits, Link!Next, Link!Return

LEMMA LinkFalls ==
    ASSUME Clear, up' = FALSE, ~Waits', UNCHANGED <<last, ran, answer>>
    PROVE  Refined
  <1>1. CASE Waits
    BY <1>1 DEF Clear, Refined, Waits, Link!Next, Link!Throw
  <1>2. CASE ~Waits
    BY <1>2 DEF Clear, Refined, Waits, Link!Next, Link!Relink
  <1> QED
    BY <1>1, <1>2

LEMMA LinkRelinks ==
    ASSUME Clear, up' \in BOOLEAN, Waits' = Waits, UNCHANGED <<last, ran, answer>>,
           Waits => ran = <<>>, ~Waits /\ last # "nothing" => up' = FALSE
    PROVE  Refined
  BY DEF Clear, Refined, Waits, Link!Next, Link!Relink

LEMMA LinkForgets ==
    ASSUME Clear, ~up, up' = up, ~Waits, ~Waits', last' = "nothing", ran' = <<>>, answer' = <<>>
    PROVE  Refined
  BY DEF Clear, Refined, Waits, Link!Next, Link!Forget

LEMMA NoJobWaits == (job = NoJob \/ job = ResetJob => ~Waits) /\ (job' = NoJob => ~Waits')
  BY DEF NoJob, ResetJob, Waits

LEMMA JobWaits == \A f \in Jobs : \A w : f.name # "ack" /\ job = Part(f, w) => Waits
  BY JobParts, SizeOfJob DEF Waits

LEMMA ThrowLinks ==
    ASSUME Clear, Throw
    PROVE  Refined
  <1>1. job' = NoJob
    BY DEF Throw, Leave
  <1> QED
    BY <1>1, NoJobWaits, LinkFalls DEF Throw

\* A call returns: of a command that was executed, or one that asks for nothing.
LEMMA DoneLinks ==
    ASSUME Clear, Honest, Done, up, up' = up, Waits => ran # <<>>, ~Waits => last = "nothing" /\ ran = <<>>
    PROVE  Refined
  <1>1. last' = "nothing" /\ ran' = <<>> /\ answer' = <<>> /\ ~Waits'
    BY NoJobWaits DEF Done, Forget, Leave
  <1>2. CASE Waits
    BY <1>1, <1>2, LinkReturns
  <1>3. CASE ~Waits
    <2>1. UNCHANGED <<up, last, ran, answer>> /\ Waits' = Waits
      BY <1>1, <1>3 DEF Honest, Waits
    <2> QED
      BY <2>1, LinkStays
  <1> QED
    BY <1>2, <1>3

\* A call goes on.
LEMMA ContinueLinks ==
    ASSUME Clear, Continue, NEW f, NEW w, job = Part(f, w), job.writes # <<>> \/ ~(job.size = 0), up' = up
    PROVE  Refined
  <1>1. job'.name = job.name /\ UNCHANGED <<last, ran, answer>>
    <2>1. [Part(f, w) EXCEPT !.writes = Tail(@)].name = Part(f, w).name
      BY PartNext, SizeOfJob
    <2> QED
      BY <2>1 DEF Continue
  <1> QED
    BY <1>1, LinkStays DEF Waits

LEMMA BeginLinks == ASSUME NEW j \in Jobs, SerialInv, Clear, Begin(j) PROVE Refined
  <1>1. pc = "idle" /\ up /\ job' = j /\ last' = (IF j.name = "ack" THEN last ELSE j.name)
        /\ UNCHANGED <<up, ran, answer>>
    BY DEF Begin, device
  <1>2. ~Waits /\ last = "nothing"
    BY <1>1, NoJobWaits DEF SerialInv, IdleInv
  <1>3. CASE j.name = "ack"
    BY <1>1, <1>2, <1>3, LinkStays DEF Waits
  <1>4. CASE j.name # "ack"
    <2>1. Waits'
      BY <1>1, <1>4, JobParts DEF Waits
    <2> QED
      BY <1>1, <1>2, <1>4, <2>1, LinkAsks
  <1> QED
    BY <1>3, <1>4

LEMMA TransmitLinks == SerialInv /\ SerialInv' /\ Clear /\ Transmit => Refined
  <1> SUFFICES ASSUME SerialInv, SerialInv', Clear, Transmit
               PROVE  Refined
    OBVIOUS
  <1>1. tx # <<>> /\ Receive(Head(tx)) /\ UNCHANGED <<up, job, last>>
    BY DEF Transmit, local
  <1>2. ran = <<>> /\ answer = <<>>
    BY <1>1 DEF SerialInv, Honest
  <1>3. CASE ran' = <<>>
    <2>1. answer' = <<>>
      BY <1>3 DEF SerialInv, Honest
    <2> QED
      BY <1>1, <1>2, <1>3, <2>1, LinkStays DEF Waits
  <1>4. CASE ran' # <<>>
    <2>1. last # "nothing"
      BY <1>1, <1>4 DEF SerialInv, Honest
    <2>2. answer' = <<>> \/ answer' \in Answers
      BY DEF SerialInv, SerialTypes
    <2> QED
      BY <1>1, <1>2, <1>4, <2>1, <2>2, LinkExecutes
  <1> QED
    BY <1>3, <1>4

LEMMA ReceivedLinks == SerialInv /\ Clear /\ Received => Refined
  <1> SUFFICES ASSUME SerialInv, Clear, Received
               PROVE  Refined
    OBVIOUS
  <1>0. pc = "read" /\ Len(got) = job.size /\ Done /\ up' = up /\ up /\ Honest
    BY DEF Received, Size, SerialInv, ReadInv
  <1>1. esc = "normal" /\ TypeOK
    <2>1. SizeInv /\ TypeOK
      BY DEF SerialInv, SerialTypes
    <2>2. Size = job.size /\ Size \in Nat
      BY <1>0, SizeType DEF Size
    <2> QED
      BY <1>0, <2>1, <2>2 DEF SizeInv
  <1>2. PICK g, r : Heard(g, r) /\ Replying(g, r)
    BY <1>0, <1>1 DEF SerialInv, ReadInv
  <1>3. CASE (\E f \in Jobs : f.name # "ack" /\ f.size > 0 /\ job = Part(f, <<>>)) /\ Answering(g, r)
    <2>1. Waits /\ ran = <<Whole(last)>>
      BY <1>3, JobWaits DEF Answering
    <2>2. ran # <<>>
      BY <2>1
    <2> QED
      BY <1>0, <2>1, <2>2, DoneLinks
  <1>4. CASE job.name = "ack" /\ last = "nothing" /\ ran = <<>>
    <2>1. ~Waits
      BY <1>4 DEF Waits
    <2> QED
      BY <1>0, <1>4, <2>1, DoneLinks
  <1> QED
    BY <1>2, <1>3, <1>4 DEF Replying

\* What a command that writes has done when the last of it was read back.
LEMMA FirstDone ==
    ASSUME NEW f \in Jobs, f.name # "ack", NEW d \in Seq(Byte), NEW r, EchoFirst(f, f.writes[1] \o d, r),
           f.size = 0, Len(f.writes) = 1
    PROVE  ran # <<>>
  <1> DEFINE w == f.writes[1]
  <1>1. w \in Seq(Byte) /\ w # <<>>
    BY FirstWrite
  <1>2. w \o d # <<>> /\ Len(w \o d) >= Len(w) /\ Len(w \o d) \in Nat /\ Len(w) \in Nat
    BY <1>1, NotFoul, BytesConcat, NoBytes
  <1>3. ~(w \o d = <<"wr">> /\ Len(w) = 2)
    <2> SUFFICES ASSUME w \o d = <<"wr">>, Len(w) = 2
                 PROVE  FALSE
      OBVIOUS
    <2>1. Len(w \o d) = 1
      OBVIOUS
    <2> QED
      BY <1>2, <2>1
  <1>4. ran = <<Whole(last)>>
    BY <1>2, <1>3 DEF EchoFirst
  <1> QED
    BY <1>4

LEMMA SecondDone ==
    ASSUME NEW f \in Jobs, f.name # "ack", Len(f.writes) = 2, NEW d \in Seq(Byte), NEW r,
           EchoSecond(f, f.writes[2] \o d, r)
    PROVE  ran # <<>>
  <1> DEFINE w == f.writes[2]
  <1>1. w \in Seq(Byte) /\ w # <<>>
    BY FirstWrite, NoBytes
  <1>2. w \o d # <<>>
    BY <1>1, NotFoul
  <1>3. ran = <<Whole(last)>>
    BY <1>2 DEF EchoSecond
  <1> QED
    BY <1>3

LEMMA VerifiedLinks == SerialInv /\ Clear /\ Verified => Refined
  <1> SUFFICES ASSUME SerialInv, Clear, Verified
               PROVE  Refined
    OBVIOUS
  <1>0. pc = "verify" /\ Len(got) = Size
    BY DEF Verified
  <1>1. up /\ calls # <<>> /\ calls \in Seq(Call) /\ Honest
    BY <1>0 DEF SerialInv, VerifyInv, SerialTypes, Call
  <1>2. esc = "normal"
    <2>1. SizeInv /\ Size \in Nat
      BY <1>0, SizeType DEF SerialInv
    <2> QED
      BY <1>0, <2>1 DEF SizeInv
  <1>3. CASE Throw
    BY <1>3, ThrowLinks
  <1>4. CASE UNCHANGED <<up, got, esc, job, last, ran, answer>>
    BY <1>4, LinkStays DEF Waits
  <1>5. ASSUME got = Head(calls), Len(calls) = 1, Continue, up' = up
        PROVE  Refined
    <2>1. PICK g, r : Heard(g, r) /\ Echo(g, r)
      BY <1>0, <1>2 DEF SerialInv, VerifyInv
    <2>2. PICK d \in Seq(Byte) : g = got \o d
      BY <2>1 DEF Heard, Coming
    <2>3. PICK w \in Seq(Byte) : w = Head(calls) /\ w # <<>> /\ g = w \o d
      <3>1. Head(calls) \in Call
        BY <1>1, HeadAndTail
      <3> QED
        BY <1>5, <2>2, <3>1 DEF Call
    <2>4. ~Foul(w, g, r)
      BY <2>3, NotFoul
    <2>5. CASE w = Sync /\ Nested /\ EchoSync(g, r)
      <3>1. ran = <<>>
        BY <2>5 DEF EchoSync
      <3>2. job = ResetJob \/ Command(job)
        BY <1>1, <1>5, <2>3, <2>5, NestedLast
      <3>3. CASE job = ResetJob
        <4>1. job.writes = <<>> /\ job.size = 0
          BY <3>3 DEF ResetJob, NoJob
        <4>2. Done
          BY <1>5, <4>1 DEF Continue
        <4>3. ~Waits /\ last = "nothing"
          BY <1>0, <3>3, NoJobWaits DEF SerialInv, Asked
        <4> QED
          BY <1>1, <1>5, <3>1, <4>2, <4>3, DoneLinks
      <3>4. CASE Command(job)
        <4>1. job = Part(job, job.writes) /\ job.writes # <<>>
          BY <3>4, JobParts, FirstWrite DEF Command
        <4> QED
          BY <1>5, <4>1, ContinueLinks
      <3> QED
        BY <3>2, <3>3, <3>4
    <2>6. ASSUME NEW f \in Jobs, Command(f), First(f), EchoFirst(f, g, r)
          PROVE  Refined
      <3>0. f.name # "ack" /\ w = f.writes[1] /\ job = Part(f, Tail(f.writes))
        BY <2>3, <2>6 DEF Command, First
      <3>1. job.writes = Tail(f.writes) /\ job.size = f.size
        BY <3>0, SizeOfJob
      <3>2. CASE f.size = 0 /\ Len(f.writes) = 1
        <4>1. job.writes = <<>> /\ job.size = 0
          BY <3>0, <3>1, <3>2, FirstWrite
        <4>2. Done
          BY <1>5, <4>1 DEF Continue
        <4>3. ran # <<>> /\ Waits
          BY <2>3, <2>6, <3>0, <3>2, FirstDone, JobWaits
        <4> QED
          BY <1>1, <1>5, <4>2, <4>3, DoneLinks
      <3>3. CASE f.size # 0
        BY <1>5, <3>0, <3>1, <3>3, ContinueLinks
      <3>4. CASE Len(f.writes) = 2
        <4>1. job.writes # <<>>
          <5>1. Len(f.writes) # 1
            BY <3>4
          <5>2. Tail(f.writes) = <<f.writes[2]>>
            BY <3>0, <5>1, FirstWrite
          <5>3. <<f.writes[2]>> # <<>>
            OBVIOUS
          <5> QED
            BY <3>1, <5>2, <5>3
        <4> QED
          BY <1>5, <3>0, <4>1, ContinueLinks
      <3> QED
        BY <3>0, <3>2, <3>3, <3>4, FirstWrite
    <2>7. ASSUME NEW f \in Jobs, Command(f), Second(f), EchoSecond(f, g, r)
          PROVE  Refined
      <3>0. /\ f.name # "ack" /\ w = f.writes[2] /\ job = Part(f, <<>>) /\ Len(f.writes) = 2
        BY <2>3, <2>7 DEF Command, Second
      <3>1. job.writes = <<>> /\ job.size = 0
        <4>1. f.size = 0
          BY <3>0, FirstWrite
        <4> QED
          BY <3>0, <4>1, SizeOfJob
      <3>2. Done
        BY <1>5, <3>1 DEF Continue
      <3>3. ran # <<>> /\ Waits
        BY <2>3, <2>7, <3>0, SecondDone, JobWaits
      <3> QED
        BY <1>1, <1>5, <3>2, <3>3, DoneLinks
    <2> QED
      <3>1. \A f : (First(f) => w = f.writes[1]) /\ (Second(f) => w = f.writes[2])
        BY <2>3 DEF First, Second
      <3> QED
        BY <2>1, <2>3, <2>4, <2>5, <2>6, <2>7, <3>1 DEF Echo
  <1> QED
    BY <1>3, <1>4, <1>5 DEF Verified

LEMMA NewCommandLinks == SerialInv /\ Clear /\ (NewCommand \/ Start) => Refined
  <1> SUFFICES ASSUME SerialInv, Clear, NewCommand \/ Start
               PROVE  Refined
    OBVIOUS
  <1>1. up' = up /\ (Continue \/ UNCHANGED <<job, last, ran, answer>>) /\ pc \in {"new", "start"}
    BY DEF NewCommand, Start
  <1>2. Command(job)
    BY <1>1 DEF SerialInv, BeginInv
  <1>3. job = Part(job, job.writes) /\ job.writes # <<>>
    BY <1>2, JobParts, FirstWrite DEF Command
  <1>4. CASE Continue
    BY <1>1, <1>3, <1>4, ContinueLinks
  <1>5. CASE UNCHANGED <<job, last, ran, answer>>
    BY <1>1, <1>5, LinkStays DEF Waits
  <1> QED
    BY <1>1, <1>4, <1>5

\* In a reset, the call is one of reset, or waits below it.
LEMMA NestedWaits == Nested => job = ResetJob \/ Waits
  <1>1. Command(job) => Waits
    BY JobParts DEF Command, Waits
  <1>2. \A f \in Jobs : Command(f) /\ job = Part(f, Tail(f.writes)) => Waits
    BY JobWaits DEF Command
  <1> QED
    BY <1>1, <1>2 DEF Nested

LEMMA ResetLinks == SerialInv /\ Clear /\ (Reset \/ ResetFlush \/ ResetBreak \/ ResetUp) => Refined
  <1> SUFFICES ASSUME SerialInv, Clear, Reset \/ ResetFlush \/ ResetBreak \/ ResetUp
               PROVE  Refined
    OBVIOUS
  <1>1. CASE Reset
    <2>1. UNCHANGED <<up, last, ran, answer>> /\ job' = ResetJob /\ job = NoJob
      BY <1>1 DEF Reset, device, SerialInv, IdleInv, ResetJob
    <2>2. ~Waits /\ ~Waits'
      BY <2>1, NoJobWaits DEF ResetJob, NoJob, Waits
    <2>3. Waits' = Waits
      BY <2>2 DEF Waits
    <2> QED
      BY <2>1, <2>3, LinkStays
  <1>2. CASE ResetFlush
    <2>1. pc = "flush" /\ up' = FALSE /\ UNCHANGED <<job, last, ran, answer>>
      BY <1>2 DEF ResetFlush, device
    <2>2. Waits => ran = <<>>
      BY <2>1, NoJobWaits DEF SerialInv, ResetInv
    <2> QED
      BY <2>1, <2>2, LinkRelinks DEF Waits
  <1>3. CASE ResetBreak
    <2>1. pc = "break" /\ UNCHANGED <<up, job>> /\ ~up
          /\ IF job.name = "reset" THEN Forget ELSE UNCHANGED <<last, ran, answer>>
      BY <1>3 DEF ResetBreak, SerialInv, ResetInv
    <2>2. CASE job.name = "reset"
      BY <2>1, <2>2, LinkForgets DEF Waits, Forget
    <2>3. CASE job.name # "reset"
      BY <2>1, <2>3, LinkStays DEF Waits
    <2> QED
      BY <2>2, <2>3
  <1>4. CASE ResetUp
    <2>1. pc = "flush_again" /\ up' = TRUE /\ UNCHANGED <<job, last, ran, answer>>
      BY <1>4 DEF ResetUp, device
    <2>2. ran = <<>> /\ Nested /\ (job = ResetJob => last = "nothing")
      BY <2>1 DEF SerialInv, ResetInv, Asked
    <2> QED
      BY <2>1, <2>2, NestedWaits, LinkRelinks DEF Waits
  <1> QED
    BY <1>1, <1>2, <1>3, <1>4

LEMMA OthersLink ==
    ASSUME Clear, \/ PeekFirst \/ Send \/ Chunk \/ Interrupted \/ Timeout \/ DeviceSends
                  \/ Acknowledge \/ ClockSwitch \/ Noise \/ Lose \/ UNCHANGED vars
    PROVE  Refined
  <1>1. Throw \/ UNCHANGED <<up, job, last, ran, answer>>
    BY DEF PeekFirst, Send, Chunk, Interrupted, Timeout, DeviceSends, Acknowledge, ClockSwitch, Noise, Lose,
        vars, local, device
  <1> QED
    BY <1>1, ThrowLinks, LinkStays DEF Waits

LEMMA StepLinks == SerialInv /\ SerialInv' /\ Clear /\ [Next]_vars => Refined
  <1> SUFFICES ASSUME SerialInv, SerialInv', Clear, [Next]_vars
               PROVE  Refined
    OBVIOUS
  <1>1. CASE \E j \in Jobs : Begin(j)
    BY <1>1, BeginLinks
  <1>2. CASE Reset \/ Host \/ Line
    BY <1>2, ResetLinks, NewCommandLinks, VerifiedLinks, ReceivedLinks, TransmitLinks, OthersLink DEF Host, Line
  <1>3. CASE Acknowledge \/ ClockSwitch \/ Noise \/ Lose \/ UNCHANGED vars
    BY <1>3, OthersLink
  <1> QED
    BY <1>1, <1>2, <1>3 DEF Next

\* ocd_serial keeps the promise of the abstract link (OcdLink): a command that
\* returns was executed once and returns its own answer; one that throws was
\* executed at most once, and leaves the link down (ImplementsLink).
THEOREM LinkImplemented ==
    ASSUME "split" \notin Faults
    PROVE  Spec => ImplementsLink
  <1>1. Init => SerialInv /\ Link!Init
    <2>1. Init => ~Garbled /\ ~Waits
      BY NotGarbled, InitHolds, NoJobWaits DEF Init
    <2> QED
      BY <2>1, InitHolds DEF Init, Link!Init, Waits
  <1>2. SerialInv /\ [Next]_vars => SerialInv'
    BY SerialNext
  <1>3. SerialInv => ~Garbled
    BY NotGarbled
  <1>4. SerialInv /\ SerialInv' /\ ~Garbled /\ ~Garbled' /\ [Next]_vars =>
            [Link!Next]_<<up, IF Garbled THEN "garbled" ELSE last, job.name \notin {"none", "reset", "ack"},
                          ran # <<>>, IF answer = <<>> THEN "nothing" ELSE answer>>
    BY StepLinks DEF Refined, Clear
  <1> QED
    BY <1>1, <1>2, <1>3, <1>4, PTL DEF Spec, ImplementsLink, Link!Spec
=============================================================================
