-------------------------- MODULE RunControlProofs --------------------------
(***************************************************************************)
(* Proofs about RunControl for every program, revision and fault.  The      *)
(* argument: the debugger acts on the device as stopped (it reads the       *)
(* program counter, or sets the CPU running) only after a check in the same *)
(* operation found it so, and nothing between the check and the act can set *)
(* the CPU running.  So the last part of an operation to touch the mode     *)
(* finds "debug", and what dbgctl says when it is written is what the       *)
(* register holds.                                                          *)
(*                                                                         *)
(* Two more invariants follow: the types, with what the locals of a part    *)
(* may be (TypeInv), and, where no command fails, how far a step has come   *)
(* on a chip whose interrupts are held back around it (StepInv).            *)
(***************************************************************************)
EXTENDS RunControl, TLAPS, SequenceTheorems

Checks == {"stopped", "ifstopped"}
Acts == {"readpc", "go"}

\* Every part in A comes behind one in B.
Behind(s, A, B) == \A j \in 1 .. Len(s) : s[j] \in A => \E i \in 1 .. j - 1 : s[i] \in B

\* A check precedes every act, the entry the BRK, and the opcode the deletion.
Checked(s) == Behind(s, Acts, Checks)
Entered(s) == Behind(s, {"arm"}, {"entry"})
Cleared(s) == Behind(s, {"delete"}, {"disarm"})

\* The parts that are about breakpoints, and those of them a sequence has.
Sets == {"entry", "arm"}
Clears == {"disarm", "delete"}
Removes == {"removetemp"}
Drops == {"droptable"}
Only(s, T) ==
    \A j \in 1 .. Len(s) : s[j] \in Sets \cup Clears \cup Removes \cup Drops => s[j] \in T

\* The BRKs whose opcode the debugger has not forgotten.
Own == armed \ strays

\* The CPU is set running by the last part of an operation, and reset by one
\* that does nothing else than look at dbgctl.  No operation sets a breakpoint
\* and clears another, or does either and drops the table, but one may end by removing
\* the temporary one.
Orderly(s) ==
    /\ s \in Seq(PartNames)
    /\ \A j \in 1 .. Len(s) : s[j] = "go" => j = Len(s)
    /\ \A j \in 1 .. Len(s) : s[j] = "reset" => \A i \in 1 .. Len(s) : i = j \/ s[i] = "dbgctl"
    /\ \/ Only(s, Sets)
       \/ Only(s, Clears)
       \/ Only(s, Drops)
       \/ Only(s, Removes) /\ \A j \in 1 .. Len(s) : s[j] \in Removes => j = Len(s)

Flowing ==
    /\ Orderly(todo)
    /\ mode = "debug" \/ Checked(todo)
    /\ arg \in bps \/ Entered(todo)
    /\ arg \notin Own \/ Cleared(todo)

CopiesTrue == KnownStopped /\ PcCoherent /\ BreaksKnown

Inv == Flowing /\ CopiesTrue

\* What operations are made of; what stands in the place of another part has
\* nothing to do with breakpoints (T = {}).
Detour(p, T) ==
    /\ p \in Seq(PartNames)
    /\ \A i \in 1 .. Len(p) : p[i] \notin {"go", "reset"}
    /\ Checked(p) /\ Entered(p) /\ Cleared(p)
    /\ Only(p, T)

-----------------------------------------------------------------------------
(* Operations as sequences of parts.                                       *)

\* The tail of a sequence, and where its parts were.
LEMMA TailParts ==
    ASSUME NEW s \in Seq(PartNames), s # <<>>, NEW t, t = Tail(s)
    PROVE  /\ Len(s) \in Nat /\ Len(s) > 0 /\ Head(s) = s[1]
           /\ t \in Seq(PartNames) /\ Len(t) \in Nat /\ Len(t) = Len(s) - 1
           /\ \A i \in 1 .. Len(t) : t[i] = s[i + 1] /\ i + 1 \in 1 .. Len(s)
<1>1. /\ Len(s) \in Nat /\ Len(s) > 0 /\ Head(s) = s[1]
      /\ t \in Seq(PartNames) /\ Len(t) \in Nat /\ Len(t) = Len(s) - 1
      /\ \A i \in 1 .. Len(t) : t[i] = s[i + 1]
  BY HeadTailProperties, EmptySeq, LenProperties
<1> QED
  BY <1>1

LEMMA BehindPopped ==
    ASSUME NEW s \in Seq(PartNames), s # <<>>, NEW A, NEW B,
           Behind(s, A, B), Head(s) \notin B
    PROVE  Behind(Tail(s), A, B)
<1> DEFINE t == Tail(s)
<1>1. /\ Len(s) \in Nat /\ Len(s) > 0 /\ Head(s) = s[1]
      /\ Len(t) \in Nat /\ Len(t) = Len(s) - 1
      /\ \A i \in 1 .. Len(t) : t[i] = s[i + 1] /\ i + 1 \in 1 .. Len(s)
  BY TailParts
<1> HIDE DEF t
<1> SUFFICES ASSUME NEW j \in 1 .. Len(t), t[j] \in A
             PROVE  \E i \in 1 .. j - 1 : t[i] \in B
  BY DEF Behind, t
<1>2. PICK i \in 1 .. j : s[i] \in B
  <2>1. j + 1 \in 1 .. Len(s) /\ s[j + 1] \in A
    BY <1>1
  <2>2. \E i \in 1 .. (j + 1) - 1 : s[i] \in B
    BY <2>1 DEF Behind
  <2> QED
    BY <2>2
<1>3. i # 1
  BY <1>1, <1>2
<1>4. i - 1 \in 1 .. j - 1 /\ t[i - 1] = s[i]
  BY <1>1, <1>2, <1>3
<1> QED
  BY <1>2, <1>4

LEMMA OnlyPopped ==
    ASSUME NEW s \in Seq(PartNames), s # <<>>, NEW T, Only(s, T)
    PROVE  Only(Tail(s), T)
BY TailParts DEF Only

\* A part is done.
LEMMA Popped ==
    ASSUME NEW s, Orderly(s), s # <<>>
    PROVE  Orderly(Tail(s))
<1> DEFINE t == Tail(s)
<1>1. /\ Len(s) \in Nat /\ Len(s) > 0 /\ s \in Seq(PartNames)
      /\ t \in Seq(PartNames) /\ Len(t) \in Nat /\ Len(t) = Len(s) - 1
      /\ \A i \in 1 .. Len(t) : t[i] = s[i + 1] /\ i + 1 \in 1 .. Len(s)
  BY TailParts DEF Orderly
<1>2. \A T : Only(s, T) => Only(t, T)
  BY <1>1, OnlyPopped DEF Orderly
<1> HIDE DEF t
<1>3. ASSUME NEW j \in 1 .. Len(t), t[j] = "go"
      PROVE  j = Len(t)
  <2>1. j + 1 \in 1 .. Len(s) /\ s[j + 1] = "go"
    BY <1>1, <1>3
  <2> QED
    BY <1>1, <2>1 DEF Orderly
<1>4. ASSUME NEW j \in 1 .. Len(t), t[j] = "reset", NEW i \in 1 .. Len(t), i # j
      PROVE  t[i] = "dbgctl"
  <2>1. /\ j + 1 \in 1 .. Len(s) /\ s[j + 1] = "reset"
        /\ i + 1 \in 1 .. Len(s) /\ s[i + 1] = t[i] /\ i + 1 # j + 1
    BY <1>1, <1>4
  <2> QED
    BY <2>1 DEF Orderly
<1>5. \/ Only(t, Sets)
      \/ Only(t, Clears)
      \/ Only(t, Drops)
      \/ Only(t, Removes) /\ \A j \in 1 .. Len(t) : t[j] \in Removes => j = Len(t)
  <2>1. ASSUME \A j \in 1 .. Len(s) : s[j] \in Removes => j = Len(s),
               NEW j \in 1 .. Len(t), t[j] \in Removes
        PROVE  j = Len(t)
    <3>1. j + 1 \in 1 .. Len(s) /\ s[j + 1] \in Removes
      BY <1>1, <2>1
    <3> QED
      BY <1>1, <2>1, <3>1
  <2> QED
    BY <1>2, <2>1 DEF Orderly
<1> QED
  BY <1>1, <1>3, <1>4, <1>5 DEF Orderly, t

\* Where the parts of a concatenation are.
LEMMA ConcatParts ==
    ASSUME NEW p \in Seq(PartNames), NEW t \in Seq(PartNames), NEW c, c = p \o t
    PROVE  c \in Seq(PartNames) /\ Len(c) \in Nat /\ Len(c) = Len(p) + Len(t)
BY ConcatProperties, LenProperties

LEMMA ConcatPart ==
    ASSUME NEW p \in Seq(PartNames), NEW t \in Seq(PartNames), NEW c, c = p \o t,
           NEW i \in 1 .. Len(c)
    PROVE  \/ i \in 1 .. Len(p) /\ c[i] = p[i]
           \/ i - Len(p) \in 1 .. Len(t) /\ c[i] = t[i - Len(p)]
<1>1. Len(p) \in Nat /\ Len(t) \in Nat /\ Len(c) = Len(p) + Len(t)
  BY ConcatParts, LenProperties
<1>2. c[i] = IF i <= Len(p) THEN p[i] ELSE t[i - Len(p)]
  BY <1>1, ConcatProperties
<1>3. CASE i <= Len(p)
  BY <1>1, <1>2, <1>3
<1>4. CASE ~(i <= Len(p))
  <2>1. c[i] = t[i - Len(p)]
    BY <1>2, <1>4
  <2>2. i - Len(p) \in 1 .. Len(t)
    BY <1>1, <1>4
  <2> QED
    BY <2>1, <2>2
<1> QED
  BY <1>3, <1>4

LEMMA ConcatBehind ==
    ASSUME NEW p \in Seq(PartNames), NEW t \in Seq(PartNames), NEW c, c = p \o t,
           NEW A, NEW B, Behind(p, A, B), Behind(t, A, B)
    PROVE  Behind(c, A, B)
<1>1. Len(p) \in Nat /\ Len(t) \in Nat /\ Len(c) = Len(p) + Len(t)
  BY LenProperties, ConcatParts
<1>2. ASSUME NEW i \in 1 .. Len(c)
      PROVE  \/ i \in 1 .. Len(p) /\ c[i] = p[i]
             \/ i - Len(p) \in 1 .. Len(t) /\ c[i] = t[i - Len(p)]
  BY ConcatPart
<1> SUFFICES ASSUME NEW j \in 1 .. Len(c), c[j] \in A
             PROVE  \E i \in 1 .. j - 1 : c[i] \in B
  BY DEF Behind
<1>3. CASE j \in 1 .. Len(p) /\ c[j] = p[j]
  <2>1. PICK i \in 1 .. j - 1 : p[i] \in B
    BY <1>3 DEF Behind
  <2>2. i \in 1 .. Len(c) /\ i - Len(p) \notin 1 .. Len(t)
    BY <1>1, <1>3
  <2>3. c[i] = p[i]
    BY <1>2, <2>2
  <2> QED
    BY <2>1, <2>3
<1>4. CASE j - Len(p) \in 1 .. Len(t) /\ c[j] = t[j - Len(p)]
  <2>1. PICK i \in 1 .. j - Len(p) - 1 : t[i] \in B
    BY <1>4 DEF Behind
  <2>2. PICK k \in 1 .. j - 1 : k - Len(p) = i /\ k > Len(p)
    <3>1. Len(p) + i \in 1 .. j - 1 /\ (Len(p) + i) - Len(p) = i /\ Len(p) + i > Len(p)
      BY <1>1, <1>4
    <3> QED
      BY <3>1
  <2>3. k \in 1 .. Len(c)
    BY <1>1, <2>2
  <2>4. c[k] = t[i]
    BY <1>1, <1>2, <2>2, <2>3
  <2> QED
    BY <2>1, <2>4
<1> QED
  BY <1>2, <1>3, <1>4

LEMMA ConcatOnly ==
    ASSUME NEW p \in Seq(PartNames), NEW t \in Seq(PartNames), NEW c, c = p \o t,
           NEW T, Only(p, T), Only(t, T)
    PROVE  Only(c, T)
<1> SUFFICES ASSUME NEW i \in 1 .. Len(c),
                    c[i] \in Sets \cup Clears \cup Removes \cup Drops
             PROVE  c[i] \in T
  BY DEF Only
<1>1. \/ i \in 1 .. Len(p) /\ c[i] = p[i]
      \/ i - Len(p) \in 1 .. Len(t) /\ c[i] = t[i - Len(p)]
  BY ConcatPart
<1> QED
  BY <1>1 DEF Only

\* Parts come in the place of one.
LEMMA Inserted ==
    ASSUME NEW s, Orderly(s), s # <<>>, Head(s) # "dbgctl", NEW p, Detour(p, {})
    PROVE  Orderly(p \o Tail(s))
<1> DEFINE t == Tail(s)
<1> DEFINE c == p \o t
<1>1. /\ Len(s) \in Nat /\ Len(s) > 0 /\ Head(s) = s[1]
      /\ t \in Seq(PartNames) /\ Len(t) \in Nat /\ Len(t) = Len(s) - 1
      /\ \A i \in 1 .. Len(t) : t[i] = s[i + 1] /\ i + 1 \in 1 .. Len(s)
  BY TailParts DEF Orderly
<1>2. /\ p \in Seq(PartNames) /\ Len(p) \in Nat
      /\ \A i \in 1 .. Len(p) : p[i] # "go" /\ p[i] # "reset"
      /\ Only(p, {})
  BY LenProperties DEF Detour
<1>3. c \in Seq(PartNames) /\ Len(c) = Len(p) + Len(t)
  BY <1>1, <1>2, ConcatParts
<1>4. ASSUME NEW i \in 1 .. Len(c)
      PROVE  \/ i \in 1 .. Len(p) /\ c[i] = p[i]
             \/ i - Len(p) \in 1 .. Len(t) /\ c[i] = t[i - Len(p)]
  BY <1>1, <1>2, ConcatPart
<1>5. Orderly(t)
  BY Popped
<1>6. ASSUME NEW T, Only(t, T)
      PROVE  Only(c, T)
  <2>1. Only(p, T)
    BY <1>2 DEF Only
  <2> QED
    BY <1>1, <1>2, <1>6, <2>1, ConcatOnly
<1> HIDE DEF c, t
<1>7. \A i \in 1 .. Len(t) : t[i] # "reset"
  <2> SUFFICES ASSUME NEW i \in 1 .. Len(t), t[i] = "reset"
               PROVE  FALSE
    OBVIOUS
  <2>1. i + 1 \in 1 .. Len(s) /\ s[i + 1] = "reset" /\ 1 \in 1 .. Len(s) /\ 1 # i + 1
    BY <1>1
  <2> QED
    BY <1>1, <2>1 DEF Orderly
<1>8. ASSUME NEW i \in 1 .. Len(c)
      PROVE  /\ c[i] # "reset"
             /\ c[i] = "go" => i = Len(c)
             /\ c[i] \in Removes /\ (\A j \in 1 .. Len(t) : t[j] \in Removes => j = Len(t))
                  => i = Len(c)
  <2>1. CASE i \in 1 .. Len(p) /\ c[i] = p[i]
    BY <1>2, <2>1 DEF Only
  <2>2. CASE i - Len(p) \in 1 .. Len(t) /\ c[i] = t[i - Len(p)]
    <3>1. c[i] # "reset" /\ (c[i] = "go" => i - Len(p) = Len(t))
      BY <1>5, <1>7, <2>2 DEF Orderly
    <3>2. c[i] \in Removes /\ (\A j \in 1 .. Len(t) : t[j] \in Removes => j = Len(t))
            => i - Len(p) = Len(t)
      BY <2>2
    <3>3. i - Len(p) = Len(t) => i = Len(c)
      BY <1>1, <1>2, <1>3
    <3> QED
      BY <3>1, <3>2, <3>3
  <2> QED
    BY <1>4, <2>1, <2>2
<1>9. \/ Only(c, Sets)
      \/ Only(c, Clears)
      \/ Only(c, Drops)
      \/ Only(c, Removes) /\ \A j \in 1 .. Len(c) : c[j] \in Removes => j = Len(c)
  BY <1>5, <1>6, <1>8 DEF Orderly
<1> QED
  BY <1>3, <1>8, <1>9 DEF Orderly, c, t

-----------------------------------------------------------------------------
(* The sequences RunControl makes.                                         *)

\* Two detours make one.
LEMMA DetoursCompose ==
    ASSUME NEW p, NEW q, NEW T, Detour(p, T), Detour(q, T)
    PROVE  Detour(p \o q, T)
<1> DEFINE c == p \o q
<1>1. p \in Seq(PartNames) /\ q \in Seq(PartNames)
  BY DEF Detour
<1>2. c \in Seq(PartNames) /\ Checked(c) /\ Entered(c) /\ Cleared(c)
  BY <1>1, ConcatParts, ConcatBehind DEF Detour, Checked, Entered, Cleared
<1>3. Only(c, T)
  BY <1>1, ConcatOnly DEF Detour
<1>4. ASSUME NEW i \in 1 .. Len(c)
      PROVE  c[i] \notin {"go", "reset"}
  <2>1. \/ i \in 1 .. Len(p) /\ c[i] = p[i]
        \/ i - Len(p) \in 1 .. Len(q) /\ c[i] = q[i - Len(p)]
    BY <1>1, ConcatPart
  <2> HIDE DEF c
  <2> QED
    BY <2>1 DEF Detour
<1> HIDE DEF c
<1>5. Detour(c, T)
  BY <1>2, <1>3, <1>4 DEF Detour
<1> QED
  BY <1>5 DEF c

LEMMA Widened ==
    ASSUME NEW p, NEW T, Detour(p, {})
    PROVE  Detour(p, T)
BY DEF Detour, Only

\* What operations are before they start.
Sound(s) == Orderly(s) /\ Checked(s) /\ Entered(s) /\ Cleared(s)

LEMMA DetourAlone ==
    ASSUME NEW p, Detour(p, {}) \/ Detour(p, Sets) \/ Detour(p, Clears)
    PROVE  Sound(p)
BY Widened DEF Sound, Detour, Orderly

\* A check, and the CPU is set running at the end.
LEMMA StartsOrderly ==
    ASSUME NEW p, Detour(p, Sets), p # <<>>, p[1] \in Checks
    PROVE  Sound(p \o <<"go">>)
<1> DEFINE c == p \o <<"go">>
<1>1. p \in Seq(PartNames) /\ Len(p) \in Nat /\ Len(p) > 0
  BY EmptySeq, LenProperties DEF Detour
<1>2. <<"go">> \in Seq(PartNames) /\ Len(<<"go">>) = 1 /\ <<"go">>[1] = "go"
  BY DEF PartNames
<1>3. c \in Seq(PartNames) /\ Len(c) = Len(p) + 1
  BY <1>1, <1>2, ConcatParts
<1>4. ASSUME NEW i \in 1 .. Len(c)
      PROVE  \/ i \in 1 .. Len(p) /\ c[i] = p[i]
             \/ i = Len(c) /\ i > Len(p) /\ c[i] = "go"
  <2>1. \/ i \in 1 .. Len(p) /\ c[i] = p[i]
        \/ i - Len(p) \in 1 .. 1 /\ c[i] = <<"go">>[i - Len(p)]
    BY <1>1, <1>2, ConcatPart
  <2> HIDE DEF c
  <2>2. i - Len(p) \in 1 .. 1 => i - Len(p) = 1 /\ i = Len(c) /\ i > Len(p)
    BY <1>1, <1>3
  <2> QED
    BY <1>2, <2>1, <2>2
<1>5. Entered(c) /\ Cleared(c)
  <2>1. Entered(<<"go">>) /\ Cleared(<<"go">>)
    BY <1>2 DEF Entered, Cleared, Behind
  <2> QED
    BY <1>1, <1>2, <2>1, ConcatBehind DEF Detour, Entered, Cleared
<1>6. Only(c, Sets)
  <2>1. Only(<<"go">>, Sets)
    BY <1>2 DEF Only, Sets, Clears, Removes, Drops
  <2> QED
    BY <1>1, <1>2, <2>1, ConcatOnly DEF Detour
<1> HIDE DEF c
<1>7. Orderly(c)
  <2>1. ASSUME NEW i \in 1 .. Len(c)
        PROVE  c[i] # "reset" /\ (c[i] = "go" => i = Len(c))
    BY <1>4 DEF Detour
  <2> QED
    BY <1>3, <1>6, <2>1 DEF Orderly
<1>8. Checked(c)
  <2>1. c[1] \in Checks
    BY <1>1, <1>3, <1>4
  <2> SUFFICES ASSUME NEW j \in 1 .. Len(c), c[j] \in Acts
               PROVE  \E i \in 1 .. j - 1 : c[i] \in Checks
    BY DEF Checked, Behind
  <2>2. j # 1
    BY <2>1 DEF Acts, Checks
  <2>3. 1 \in 1 .. j - 1
    BY <1>1, <1>3, <2>2
  <2> QED
    BY <2>1, <2>3
<1> QED
  BY <1>5, <1>7, <1>8 DEF Sound, c

\* Setting and removing a breakpoint, which other operations do too.
LEMMA BreakpointDetours ==
    Detour(SetBreakpoint, Sets) /\ Detour(RemoveBreakpoint, Clears)
<1>1. Detour(SetBreakpoint, Sets)
  BY DEF Detour, Checked, Entered, Cleared, Behind, Only, Sets, Clears, Removes, Drops,
         Checks, Acts, PartNames, SetBreakpoint
<1>2. Detour(RemoveBreakpoint, Clears)
  BY DEF Detour, Checked, Entered, Cleared, Behind, Only, Sets, Clears, Removes, Drops,
         Checks, Acts, PartNames, RemoveBreakpoint
<1> QED
  BY <1>1, <1>2

LEMMA RemovesTemp == Detour(RemoveBreakpoint \o <<"cleartemp">>, Clears)
<1>1. Detour(<<"cleartemp">>, {})
  BY DEF Detour, Checked, Entered, Cleared, Behind, Only, Sets, Clears, Removes, Drops,
         Checks, Acts, PartNames
<1> QED
  BY <1>1, Widened, BreakpointDetours, DetoursCompose

\* What the parts are replaced by, and what the operations consist of.
LEMMA Detours ==
    /\ Detour(<<>>, {}) /\ Detour(<<"dbgctl">>, {}) /\ Detour(<<"relink">>, {})
    /\ Detour(<<"relink", "dbgctl">>, {}) /\ Detour(<<"relink", "forget">>, {})
    /\ Detour(<<"forget">>, {})
    /\ Detour(<<"stopped", "protected", "readpc">>, {})
    /\ Detour(<<"stopped", "protected", "rdmem">>, {})
    /\ Detour(Step, {})
<1>1. /\ Detour(<<"stopped", "protected", "readpc">>, {})
      /\ Detour(<<"stopped", "protected", "rdmem">>, {})
  BY DEF Detour, Checked, Entered, Cleared, Behind, Only, Sets, Clears, Removes, Drops,
         Checks, Acts, PartNames
<1>2. /\ Detour(<<>>, {}) /\ Detour(<<"dbgctl">>, {}) /\ Detour(<<"relink">>, {})
      /\ Detour(<<"forget">>, {})
  BY DEF Detour, Checked, Entered, Cleared, Behind, Only, Sets, Clears, Removes, Drops,
         Checks, Acts, PartNames
<1>3. Detour(<<"relink", "dbgctl">>, {}) /\ Detour(<<"relink", "forget">>, {})
  BY DEF Detour, Checked, Entered, Cleared, Behind, Only, Sets, Clears, Removes, Drops,
         Checks, Acts, PartNames
<1>4. Detour(Step, {})
  <2>1. Detour(<<"stopped", "protected", "revid", "pc">>, {})
    BY DEF Detour, Checked, Entered, Cleared, Behind, Only, Sets, Clears, Removes, Drops,
         Checks, Acts, PartNames
  <2>2. Detour(<<"irqoff", "exec", "irqback">>, {}) /\ Detour(<<"exec">>, {})
    BY DEF Detour, Checked, Entered, Cleared, Behind, Only, Sets, Clears, Removes, Drops,
         Checks, Acts, PartNames
  <2> QED
    BY <2>1, <2>2, DetoursCompose DEF Step
<1> QED
  BY <1>1, <1>2, <1>3, <1>4

LEMMA FirstStays ==
    ASSUME NEW p \in Seq(PartNames), p # <<>>, NEW q \in Seq(PartNames)
    PROVE  p \o q # <<>> /\ (p \o q)[1] = p[1]
<1>1. Len(p) \in Nat /\ Len(p) > 0 /\ Len(q) \in Nat
  BY EmptySeq, LenProperties
<1>2. 1 \in 1 .. Len(p) + Len(q)
  BY <1>1
<1>3. (p \o q)[1] = p[1]
  BY <1>1, <1>2, ConcatProperties
<1>4. p \o q # <<>>
  BY ConcatEqualIffEmpty
<1> QED
  BY <1>3, <1>4

LEMMA StartingOperations == Sound(Run) /\ Sound(RunTo) /\ Sound(RunClks)
<1> USE DEF Sets, Clears, Removes, Drops, Checks, Acts
<1>1. Sound(Run)
  <2> DEFINE p == <<"ifstopped", "revid">>
             q == IF Rev = "later" THEN <<>> ELSE <<"protected">>
             r == <<"pc", "offbreak", "setrun">>
  <2>1. Detour(p, Sets) /\ Detour(r, Sets) /\ p # <<>> /\ p[1] \in Checks
    BY DEF Detour, Checked, Entered, Cleared, Behind, Only, PartNames
  <2>2. Detour(q, Sets)
    <3>1. Detour(<<>>, Sets) /\ Detour(<<"protected">>, Sets)
      BY DEF Detour, Checked, Entered, Cleared, Behind, Only, PartNames
    <3> QED
      BY <3>1
  <2>3. Run = p \o q \o r \o <<"go">>
    BY DEF Run
  <2> HIDE DEF p, q, r
  <2>4. Detour(p \o q, Sets) /\ Detour(p \o q \o r, Sets)
    BY <2>1, <2>2, DetoursCompose
  <2>5. p \o q # <<>> /\ (p \o q)[1] \in Checks
    BY <2>1, <2>2, FirstStays DEF Detour
  <2>6. p \o q \o r # <<>> /\ (p \o q \o r)[1] \in Checks
    BY <2>1, <2>4, <2>5, FirstStays DEF Detour
  <2> QED
    BY <2>3, <2>4, <2>6, StartsOrderly
<1>2. Sound(RunTo)
  <2> DEFINE p == <<"stopped", "protected", "pc", "offbreak", "setrun", "revid">>
             q == IF NoComparator THEN <<"notemp">> \o SetBreakpoint \o <<"settemp">>
                                  ELSE <<"wrcntr">>
  <2>1. Detour(p, Sets) /\ p # <<>> /\ p[1] \in Checks
    BY DEF Detour, Checked, Entered, Cleared, Behind, Only, PartNames
  <2>2. Detour(q, Sets)
    <3>1. Detour(<<"notemp">> \o SetBreakpoint \o <<"settemp">>, Sets)
      <4>1. Detour(<<"notemp">>, Sets) /\ Detour(<<"settemp">>, Sets)
        BY DEF Detour, Checked, Entered, Cleared, Behind, Only, PartNames
      <4> QED
        BY <4>1, BreakpointDetours, DetoursCompose
    <3>2. Detour(<<"wrcntr">>, Sets)
      BY DEF Detour, Checked, Entered, Cleared, Behind, Only, PartNames
    <3> QED
      BY <3>1, <3>2
  <2>3. RunTo = p \o q \o <<"go">>
    BY DEF RunTo
  <2> HIDE DEF p, q
  <2>4. Detour(p \o q, Sets)
    BY <2>1, <2>2, DetoursCompose
  <2>5. p \o q # <<>> /\ (p \o q)[1] \in Checks
    BY <2>1, <2>2, FirstStays DEF Detour
  <2> QED
    BY <2>3, <2>4, <2>5, StartsOrderly
<1>3. Sound(RunClks)
  <2> DEFINE p == <<"stopped", "protected", "revid">>
             q == IF NoComparator THEN <<"unsupported">>
                                  ELSE <<"wrcntr", "stopped", "rdcntr", "setrun">>
  <2>1. Detour(p, Sets) /\ p # <<>> /\ p[1] \in Checks
    BY DEF Detour, Checked, Entered, Cleared, Behind, Only, PartNames
  <2>2. Detour(q, Sets)
    <3>1. Detour(<<"unsupported">>, Sets)
      BY DEF Detour, Checked, Entered, Cleared, Behind, Only, PartNames
    <3>2. Detour(<<"wrcntr", "stopped", "rdcntr", "setrun">>, Sets)
      BY DEF Detour, Checked, Entered, Cleared, Behind, Only, PartNames
    <3> QED
      BY <3>1, <3>2
  <2>3. RunClks = p \o q \o <<"go">>
    BY DEF RunClks
  <2> HIDE DEF p, q
  <2>4. Detour(p \o q, Sets)
    BY <2>1, <2>2, DetoursCompose
  <2>5. p \o q # <<>> /\ (p \o q)[1] \in Checks
    BY <2>1, <2>2, FirstStays DEF Detour
  <2> QED
    BY <2>3, <2>4, <2>5, StartsOrderly
<1> QED
  BY <1>1, <1>2, <1>3

\* Every operation is sound.
LEMMA Operations ==
    ASSUME NEW s \in Plain \cup {RunClks} \cup AtAddress \cup AtMark
    PROVE  Sound(s)
<1> USE DEF Sets, Clears, Removes, Drops, Checks, Acts
<1>1. Detour(StepOver, {}) /\ Detour(IsRunning, {}) /\ Detour(WrPc, {})
  BY DEF Detour, Checked, Entered, Cleared, Behind, Only, PartNames, StepOver, IsRunning, WrPc
<1>2. Sound(ResetChip) /\ Sound(Stop) /\ Sound(MassErase)
  BY DEF Sound, Orderly, Checked, Entered, Cleared, Behind, Only, PartNames, ResetChip, Stop,
         MassErase
<1>3. /\ Detour(<<"rdrevid">>, {}) /\ Detour(<<"resetlink">>, {})
      /\ Detour(<<"revid", "trace">>, {})
  BY DEF Detour, Checked, Entered, Cleared, Behind, Only, PartNames
<1>4. CASE s \in Plain
  <2>1. s = Run \/ s = ResetChip \/ s = Stop \/ s = MassErase
        \/ s \in {Step, StepOver, IsRunning, <<"rdrevid">>, <<"resetlink">>, <<"revid", "trace">>}
    BY <1>4 DEF Plain
  <2> QED
    BY <2>1, <1>1, <1>2, <1>3, Detours, DetourAlone, StartingOperations
<1>5. CASE s \in {RunClks} \cup AtAddress \cup AtMark
  BY <1>1, <1>5, DetourAlone, BreakpointDetours, StartingOperations DEF AtAddress, AtMark
<1> QED
  BY <1>4, <1>5

-----------------------------------------------------------------------------
(* The invariant.                                                          *)

LEMMA PartIsHead ==
    ASSUME Part # "none"
    PROVE  todo # <<>> /\ Head(todo) = Part
BY DEF Part

LEMMA FirstIsNotBehind ==
    ASSUME NEW s \in Seq(PartNames), s # <<>>, NEW A, NEW B, Head(s) \in A
    PROVE  ~Behind(s, A, B)
<1>1. Len(s) \in Nat /\ Len(s) > 0 /\ Head(s) = s[1]
  BY HeadTailProperties, EmptySeq, LenProperties
<1> QED
  BY <1>1 DEF Behind

\* Whatever does not set the CPU running leaves operations as they should be.
LEMMA Continues ==
    ASSUME Flowing, Part # "none", mode = "debug" => mode' = "debug",
           \/ Sound(todo')
           \/ /\ arg' = arg /\ bps \subseteq bps' /\ Own' \subseteq Own
              /\ \/ todo' = todo
                 \/ /\ todo' = Tail(todo) /\ (Part \notin Checks \/ mode = "debug")
                    /\ Part = "entry" => arg \in bps'
                    /\ Part = "disarm" => arg \notin Own'
                 \/ \E p : /\ Detour(p, {}) /\ todo' = p \o Tail(todo)
                          /\ Part \notin Checks \cup {"dbgctl", "entry", "disarm"}
    PROVE  Flowing'
<1>1. todo # <<>> /\ Head(todo) = Part /\ todo \in Seq(PartNames)
  BY PartIsHead DEF Flowing, Orderly
<1>2. CASE Sound(todo')
  BY <1>2 DEF Sound, Flowing
<1>3. CASE arg' = arg /\ bps \subseteq bps' /\ Own' \subseteq Own /\ todo' = todo
  BY <1>3 DEF Flowing
<1>4. /\ Orderly(Tail(todo)) /\ Tail(todo) \in Seq(PartNames)
      /\ Part \notin Checks /\ Checked(todo) => Checked(Tail(todo))
      /\ Part # "entry" /\ Entered(todo) => Entered(Tail(todo))
      /\ Part # "disarm" /\ Cleared(todo) => Cleared(Tail(todo))
  <2>1. Orderly(Tail(todo))
    BY <1>1, Popped DEF Flowing
  <2>2. \A A, B : Behind(todo, A, B) /\ Part \notin B => Behind(Tail(todo), A, B)
    BY <1>1, BehindPopped
  <2> QED
    BY <2>1, <2>2 DEF Checked, Entered, Cleared, Orderly
<1>5. CASE /\ arg' = arg /\ bps \subseteq bps' /\ Own' \subseteq Own
           /\ todo' = Tail(todo) /\ (Part \notin Checks \/ mode = "debug")
           /\ Part = "entry" => arg \in bps'
           /\ Part = "disarm" => arg \notin Own'
  BY <1>4, <1>5 DEF Flowing
<1>6. ASSUME arg' = arg, bps \subseteq bps', Own' \subseteq Own,
             NEW p, Detour(p, {}), todo' = p \o Tail(todo),
             Part \notin Checks \cup {"dbgctl", "entry", "disarm"}
      PROVE  Flowing'
  <2>1. Orderly(todo')
    BY <1>1, <1>6, Inserted DEF Flowing
  <2>2. \A A, B : Behind(p, A, B) /\ Behind(Tail(todo), A, B) => Behind(todo', A, B)
    BY <1>4, <1>6, ConcatBehind DEF Detour
  <2>3. /\ Checked(Tail(todo)) => Checked(todo')
        /\ Entered(Tail(todo)) => Entered(todo')
        /\ Cleared(Tail(todo)) => Cleared(todo')
    BY <1>6, <2>2 DEF Detour, Checked, Entered, Cleared
  <2> QED
    BY <1>4, <1>6, <2>1, <2>3 DEF Flowing
<1> QED
  BY <1>2, <1>3, <1>5, <1>6

\* An operation is over.
LEMMA NothingLeft == Sound(<<>>)
BY Detours, DetourAlone

\* An act finds the CPU stopped; what sets it running is the last part.
LEMMA ActsOnStopped ==
    ASSUME Flowing, Part \in Acts
    PROVE  mode = "debug" /\ (Part = "go" => Tail(todo) = <<>>)
<1>1. todo # <<>> /\ Head(todo) = Part /\ todo \in Seq(PartNames)
  BY PartIsHead DEF Acts, Flowing, Orderly
<1>2. mode = "debug"
  BY <1>1, FirstIsNotBehind DEF Flowing, Checked
<1> DEFINE t == Tail(todo)
<1>3. /\ Len(todo) \in Nat /\ Len(todo) > 0 /\ todo[1] = Part
      /\ t \in Seq(PartNames) /\ Len(t) = Len(todo) - 1
  BY <1>1, TailParts
<1> HIDE DEF t
<1>4. Part = "go" => Len(todo) = 1
  BY <1>3 DEF Flowing, Orderly
<1>5. Len(t) = 0 => t = <<>>
  BY <1>3, EmptySeq
<1> QED
  BY <1>2, <1>3, <1>4, <1>5 DEF t

\* The temporary breakpoint is removed by the last part of an operation.
LEMMA RemovesLast ==
    ASSUME Flowing, Part = "removetemp"
    PROVE  Tail(todo) = <<>>
<1>1. todo # <<>> /\ Head(todo) = Part /\ todo \in Seq(PartNames)
  BY PartIsHead DEF Flowing, Orderly
<1> DEFINE t == Tail(todo)
<1>2. /\ Len(todo) \in Nat /\ Len(todo) > 0 /\ todo[1] = Part
      /\ t \in Seq(PartNames) /\ Len(t) = Len(todo) - 1
  BY <1>1, TailParts
<1> HIDE DEF t
<1>3. 1 = Len(todo)
  BY <1>2 DEF Flowing, Orderly, Only, Sets, Clears, Removes, Drops
<1>4. Len(t) = 0 => t = <<>>
  BY <1>2, EmptySeq
<1> QED
  BY <1>2, <1>3, <1>4 DEF t

\* A reset is followed by nothing but looks at dbgctl.
LEMMA ResetsAlone ==
    ASSUME Flowing, Part = "reset"
    PROVE  Sound(Tail(todo)) /\ Sound(<<"relink">> \o Tail(todo))
<1>1. todo # <<>> /\ Head(todo) = Part /\ todo \in Seq(PartNames)
  BY PartIsHead DEF Flowing, Orderly
<1> DEFINE t == Tail(todo)
<1>2. /\ Len(todo) \in Nat /\ Len(todo) > 0 /\ todo[1] = "reset"
      /\ t \in Seq(PartNames) /\ Len(t) \in Nat /\ Len(t) = Len(todo) - 1
      /\ \A i \in 1 .. Len(t) : t[i] = todo[i + 1] /\ i + 1 \in 1 .. Len(todo)
  BY <1>1, TailParts
<1>3. Orderly(t)
  BY <1>1, Popped DEF Flowing
<1> HIDE DEF t
<1>4. ASSUME NEW i \in 1 .. Len(t)
      PROVE  t[i] = "dbgctl"
  <2>1. i + 1 \in 1 .. Len(todo) /\ t[i] = todo[i + 1] /\ 1 \in 1 .. Len(todo) /\ i + 1 # 1
    BY <1>2
  <2> QED
    BY <1>2, <2>1 DEF Flowing, Orderly
<1>5. Detour(t, {})
  BY <1>2, <1>4 DEF Detour, Checked, Entered, Cleared, Behind, Acts, Only, Sets, Clears, Removes, Drops
<1>6. Detour(<<"relink">> \o t, {})
  BY <1>5, Detours, DetoursCompose
<1> QED
  BY <1>5, <1>6, DetourAlone DEF t

LEMMA InitInv == Init => Inv
BY NothingLeft
   DEF Init, Inv, Flowing, Sound, CopiesTrue, KnownStopped, PcCoherent, BreaksKnown, Own

LEMMA RequestsKeep ==
    ASSUME Inv, Requests
    PROVE  Inv'
<1>1. todo' \in Plain \cup {RunClks} \cup AtAddress \cup AtMark
  BY DEF Requests, Request
<1>2. UNCHANGED <<device, line, copies, table>>
  BY DEF Requests, Request
<1>3. Flowing'
  BY <1>1, Operations DEF Sound, Flowing
<1> QED
  BY <1>2, <1>3 DEF Inv, CopiesTrue, KnownStopped, PcCoherent, BreaksKnown, Own,
                      device, line, copies, table

\* The device by itself: it stops, or goes on running.
LEMMA DeviceKeeps ==
    ASSUME Inv, Device
    PROVE  Inv'
<1>1. /\ UNCHANGED <<todo, arg, bps, armed, strays>>
      /\ mode = "debug" => mode' = "debug"
  BY DEF Device, DeviceExecutes, DeviceBreaks, Break, Executes, host, op, device, table
<1>2. CopiesTrue'
  BY DEF Device, DeviceExecutes, DeviceBreaks, Break, Executes, host, op, device, copies, table,
         Inv, CopiesTrue, KnownStopped, PcCoherent, BreaksKnown, Own
<1> QED
  BY <1>1, <1>2 DEF Inv, Flowing, Own

\* The parts that read.
LEMMA ReadsKeep ==
    ASSUME Inv, Other \/ Fetch \/ ReadPc
    PROVE  Inv'
<1>1. Flowing /\ CopiesTrue
  BY DEF Inv
<1>2. Part # "none" /\ mode' = mode /\ bps' = bps /\ Own' = Own /\ arg' = arg
  BY DEF Other, Fetch, ReadPc, Part, Needs, device, table, Done, Go, Fails, Throw, Own
<1>3. CASE Other
  <2>1. Flowing'
    <3>1. Part \notin Checks \cup {"entry", "disarm"}
      BY <1>3 DEF Other, Checks
    <3>2. todo' = <<>> \/ todo' = Tail(todo)
      BY <1>3 DEF Other, Done, Go, Fails, Throw
    <3> QED
      BY <1>1, <1>2, <3>1, <3>2, Continues, NothingLeft
  <2>2. CopiesTrue'
    BY <1>1, <1>3 DEF Other, Still, device, line, table, CopiesTrue,
       KnownStopped, PcCoherent, BreaksKnown, Own
  <2> QED
    BY <2>1, <2>2 DEF Inv
<1>4. CASE Fetch
  <2>1. Flowing'
    <3>1. \/ todo' = <<>> \/ todo' = todo
          \/ Part = "tryread" /\ todo' = <<"relink", "dbgctl">> \o Tail(todo)
      BY <1>4 DEF Fetch, Go, Throw
    <3> QED
      BY <1>1, <1>2, <3>1, Continues, NothingLeft, Detours DEF Checks
  <2>2. CopiesTrue'
    BY <1>1, <1>4 DEF Fetch, Still, Needs, device, table, CopiesTrue,
       KnownStopped, PcCoherent, BreaksKnown, Own
  <2> QED
    BY <2>1, <2>2 DEF Inv
<1>5. CASE ReadPc
  <2>1. mode = "debug"
    BY <1>1, <1>5, ActsOnStopped DEF ReadPc, Acts
  <2>2. Flowing'
    <3>1. Part \notin Checks \cup {"entry", "disarm"}
      BY <1>5 DEF ReadPc, Checks
    <3>2. todo' = <<>> \/ todo' = Tail(todo)
      BY <1>5 DEF ReadPc, Done, Go, Fails, Throw
    <3> QED
      BY <1>1, <1>2, <3>1, <3>2, Continues, NothingLeft
  <2>3. CopiesTrue'
    BY <1>1, <1>5, <2>1 DEF ReadPc, Still, device, table, CopiesTrue,
       KnownStopped, PcCoherent, BreaksKnown, Own
  <2> QED
    BY <2>2, <2>3 DEF Inv
<1> QED
  BY <1>3, <1>4, <1>5

\* Those that only decide.
LEMMA DecisionsKeep ==
    ASSUME Inv, Decide \/ Over
    PROVE  Inv'
<1>1. Flowing
  BY DEF Inv
<1>2. UNCHANGED <<device, line, copies, table>> /\ Part # "none"
  BY DEF Decide, Over
<1>3. CopiesTrue'
  BY <1>2 DEF device, copies, table, Inv, CopiesTrue, KnownStopped, PcCoherent, BreaksKnown, Own
<1>4. mode' = mode /\ bps' = bps /\ Own' = Own
  BY <1>2 DEF device, table, Own
<1>5. CASE Over
  <2>1. todo' = RunTo \/ todo' = Step
    BY <1>5 DEF Over, Go
  <2>2. Sound(todo')
    BY <2>1, StartingOperations, Detours, DetourAlone
  <2> QED
    BY <1>1, <1>2, <1>3, <1>4, <2>2, Continues DEF Inv
<1>6. CASE Decide
  <2>1. CASE Part \in Checks
    <3>1. "DBGCTL" \in cached
      BY <1>6, <2>1 DEF Decide, Needs, Checks
    <3>2. todo' = <<>> \/ (hctl = "debug" /\ todo' = Tail(todo) /\ arg' = arg)
      BY <1>6, <2>1 DEF Decide, Checks, Done, Go, Throw
    <3>3. todo' = <<>> \/ (mode = "debug" /\ todo' = Tail(todo) /\ arg' = arg)
      BY <3>1, <3>2 DEF Inv, CopiesTrue, KnownStopped
    <3>4. Part \notin {"entry", "disarm"}
      BY <2>1 DEF Checks
    <3> QED
      BY <1>1, <1>2, <1>3, <1>4, <3>3, <3>4, Continues, NothingLeft DEF Inv
  <2>2. CASE Part = "removetemp" /\ tbreak # 0
    <3>1. todo' = RemoveBreakpoint \o <<"cleartemp">> \o Tail(todo)
      BY <1>6, <2>2 DEF Decide
    <3>2. todo' = RemoveBreakpoint \o <<"cleartemp">>
      BY <1>1, <2>2, <3>1, RemovesLast, RemovesTemp, ConcatEmptySeq DEF Detour
    <3>3. Sound(todo')
      BY <3>2, RemovesTemp, DetourAlone
    <3> QED
      BY <1>1, <1>2, <1>3, <1>4, <3>3, Continues DEF Inv
  <2>3. CASE Part \notin Checks /\ ~(Part = "removetemp" /\ tbreak # 0)
    <3>1. /\ arg' = arg /\ Part \notin {"entry", "disarm"}
          /\ \/ todo' \in {<<>>, <<"removetemp">>} \/ todo' = Tail(todo)
             \/ /\ Part # "dbgctl"
                /\ \/ todo' = <<"stopped", "protected", "readpc">> \o Tail(todo)
                   \/ todo' = Step \o Tail(todo)
                   \/ todo' = <<>> \o Tail(todo)
      BY <1>6, <2>3 DEF Decide, Checks, Done, Go, Throw
    <3>2. Sound(<<"removetemp">>)
      BY DEF Sound, Orderly, Checked, Entered, Cleared, Behind, Only, Sets, Clears, Removes, Drops,
             Checks, Acts, PartNames
    <3>3. \/ Sound(todo')
          \/ todo' = Tail(todo)
          \/ /\ Part # "dbgctl"
             /\ \E p : Detour(p, {}) /\ todo' = p \o Tail(todo)
      BY <3>1, <3>2, NothingLeft, Detours
    <3>4. Flowing'
      BY <1>1, <1>2, <1>4, <2>3, <3>1, <3>3, Continues
    <3> QED
      BY <1>3, <3>4 DEF Inv
  <2> QED
    BY <2>1, <2>2, <2>3
<1> QED
  BY <1>5, <1>6

\* Those that write registers.
LEMMA WritesKeep ==
    ASSUME Inv, WritePc \/ Exec \/ IrqOff \/ IrqBack \/ SetRun \/ SetTemp \/ ClearTemp
    PROVE  Inv'
<1>1. Flowing
  BY DEF Inv
<1>2. Part # "none" /\ Part \notin Checks \cup {"entry", "disarm", "dbgctl"}
  BY DEF WritePc, Exec, IrqOff, IrqBack, SetRun, SetTemp, ClearTemp, Checks
<1>3. mode' = mode /\ bps' = bps /\ Own' = Own
  BY DEF WritePc, Exec, Executes, IrqOff, IrqBack, SetRun, SetTemp, ClearTemp, device, table,
         Own
<1>4. /\ arg' = arg
      /\ \/ todo' = <<>> \/ todo' = Tail(todo)
         \/ todo' = <<>> \o Tail(todo)
         \/ todo' = <<"stopped", "protected", "rdmem">> \o Tail(todo)
  BY DEF WritePc, Exec, IrqOff, IrqBack, SetRun, SetTemp, ClearTemp, Done, Go, Fails, Throw
<1>5. \/ Sound(todo') \/ todo' = Tail(todo)
      \/ \E p : Detour(p, {}) /\ todo' = p \o Tail(todo)
  BY <1>4, NothingLeft, Detours
<1>6. Flowing'
  BY <1>1, <1>2, <1>3, <1>4, <1>5, Continues
<1>7. KnownStopped' /\ PcCoherent'
  <2>1. cached' \subseteq cached /\ (hctl' = hctl \/ hctl' = "run") /\ hpc' = hpc
    BY DEF WritePc, Exec, IrqOff, IrqBack, SetRun, SetTemp, ClearTemp, Still, copies
  <2>2. dpc' = dpc \/ "PC" \notin cached'
    BY DEF WritePc, Exec, IrqOff, IrqBack, SetRun, SetTemp, ClearTemp, device
  <2> QED
    BY <1>3, <2>1, <2>2 DEF Inv, CopiesTrue, KnownStopped, PcCoherent
<1>8. BreaksKnown'
  BY <1>3 DEF Inv, CopiesTrue, BreaksKnown, Own
<1> QED
  BY <1>6, <1>7, <1>8 DEF Inv, CopiesTrue

\* Those that change breakpoints: the BRK comes behind the entry, and the
\* deletion behind the opcode.
LEMMA BreakpointsKeep ==
    ASSUME Inv, Entry \/ Arm \/ Disarm \/ Delete \/ DropTable \/ EraseChip
    PROVE  Inv'
<1>1. /\ Flowing /\ Part # "none" /\ Part \notin Checks
      /\ UNCHANGED <<mode, dpc, hctl, hpc, arg>> /\ cached' \subseteq cached
  BY DEF Inv, Entry, Arm, Disarm, Delete, DropTable, EraseChip, Still, Checks, copies, device,
         Done, Go, Fails, Throw
<1>2. KnownStopped' /\ PcCoherent'
  BY <1>1 DEF Inv, CopiesTrue, KnownStopped, PcCoherent
<1>3. todo # <<>> /\ Head(todo) = Part /\ todo \in Seq(PartNames) /\ Orderly(todo)
  BY <1>1, PartIsHead DEF Flowing, Orderly
<1>4. todo[1] = Part /\ 1 \in 1 .. Len(todo)
  <2>1. Len(todo) \in Nat /\ Len(todo) > 0 /\ todo[1] = Part
    BY <1>3, TailParts
  <2> QED
    BY <2>1
<1>5. todo' = <<>> \/ todo' = Tail(todo)
  BY DEF Entry, Arm, Disarm, Delete, DropTable, EraseChip, Done, Go, Fails, Throw
<1>6. CASE todo' = <<>>
  <2>1. Flowing'
    BY <1>1, <1>6, Continues, NothingLeft
  <2>2. BreaksKnown'
    <3>1. CASE Arm
      <4>1. arg \in bps
        BY <1>1, <1>3, <3>1, FirstIsNotBehind DEF Arm, Flowing, Entered
      <4> QED
        BY <3>1, <4>1 DEF Arm, table, Inv, CopiesTrue, BreaksKnown, Own
    <3>2. CASE Delete
      <4>1. arg \notin Own
        BY <1>1, <1>3, <3>2, FirstIsNotBehind DEF Delete, Flowing, Cleared
      <4> QED
        BY <3>2, <4>1 DEF Delete, device, Inv, CopiesTrue, BreaksKnown, Own
    <3>3. CASE Entry \/ Disarm \/ DropTable \/ EraseChip
      BY <3>3 DEF Entry, Disarm, DropTable, EraseChip, device, table, Inv, CopiesTrue,
                  BreaksKnown, Own
    <3> QED
      BY <3>1, <3>2, <3>3
  <2> QED
    BY <1>2, <2>1, <2>2 DEF Inv, CopiesTrue
<1>7. CASE todo' = Tail(todo) /\ todo' # <<>> /\ (Entry \/ Disarm \/ EraseChip)
  <2>1. Part = "entry" => arg \in bps'
    BY <1>7 DEF Entry, Disarm, EraseChip
  <2>2. Part = "disarm" => arg \notin Own'
    BY <1>7 DEF Entry, Disarm, EraseChip, Fails, Throw, table, Own
  <2>3. bps \subseteq bps' /\ Own' \subseteq Own
    BY <1>7 DEF Entry, Disarm, EraseChip, Fails, Throw, device, table, Own
  <2>4. Flowing'
    BY <1>1, <1>7, <2>1, <2>2, <2>3, Continues
  <2>5. BreaksKnown'
    BY <2>3 DEF Inv, CopiesTrue, BreaksKnown, Own
  <2> QED
    BY <1>2, <2>4, <2>5 DEF Inv, CopiesTrue
<1>8. /\ Orderly(Tail(todo)) /\ Tail(todo) \in Seq(PartNames)
      /\ Part \notin Checks /\ Checked(todo) => Checked(Tail(todo))
      /\ Part # "entry" /\ Entered(todo) => Entered(Tail(todo))
      /\ Part # "disarm" /\ Cleared(todo) => Cleared(Tail(todo))
  <2>1. Orderly(Tail(todo))
    BY <1>3, Popped
  <2>2. \A A, B : Behind(todo, A, B) /\ Part \notin B => Behind(Tail(todo), A, B)
    BY <1>3, BehindPopped
  <2> QED
    BY <2>1, <2>2 DEF Checked, Entered, Cleared, Orderly
<1>9. CASE todo' = Tail(todo) /\ Arm
  <2>1. arg \in bps
    BY <1>1, <1>3, <1>9, FirstIsNotBehind DEF Arm, Flowing, Entered
  <2>2. Only(todo, Sets)
    BY <1>3, <1>4, <1>9 DEF Arm, Orderly, Only, Sets, Clears, Removes, Drops
  <2>3. Cleared(Tail(todo))
    BY <1>3, <2>2, OnlyPopped DEF Only, Cleared, Behind, Sets, Clears
  <2>4. Flowing'
    BY <1>1, <1>8, <1>9, <2>1, <2>3 DEF Flowing, Arm, table, Own
  <2>5. BreaksKnown'
    BY <1>9, <2>1 DEF Arm, table, Inv, CopiesTrue, BreaksKnown, Own
  <2> QED
    BY <1>2, <2>4, <2>5 DEF Inv, CopiesTrue
<1>10. CASE todo' = Tail(todo) /\ Delete
  <2>1. arg \notin Own
    BY <1>1, <1>3, <1>10, FirstIsNotBehind DEF Delete, Flowing, Cleared
  <2>2. Only(todo, Clears)
    BY <1>3, <1>4, <1>10 DEF Delete, Orderly, Only, Sets, Clears, Removes, Drops
  <2>3. Entered(Tail(todo))
    BY <1>3, <2>2, OnlyPopped DEF Only, Entered, Behind, Sets, Clears
  <2>4. Flowing'
    BY <1>1, <1>8, <1>10, <2>1, <2>3 DEF Flowing, Delete, device, Own
  <2>5. BreaksKnown'
    BY <1>10, <2>1 DEF Delete, device, Inv, CopiesTrue, BreaksKnown, Own
  <2> QED
    BY <1>2, <2>4, <2>5 DEF Inv, CopiesTrue
<1>11. CASE todo' = Tail(todo) /\ DropTable
  <2>1. Only(todo, Drops)
    BY <1>3, <1>4, <1>11 DEF DropTable, Orderly, Only, Sets, Clears, Removes, Drops
  <2>2. Entered(Tail(todo)) /\ Cleared(Tail(todo))
    BY <1>3, <2>1, OnlyPopped DEF Only, Entered, Cleared, Behind, Sets, Clears, Drops
  <2>3. Flowing'
    BY <1>1, <1>8, <1>11, <2>2 DEF Flowing
  <2>4. BreaksKnown'
    BY <1>11 DEF DropTable, device, BreaksKnown, Own
  <2> QED
    BY <1>2, <2>3, <2>4 DEF Inv, CopiesTrue
<1> QED
  BY <1>5, <1>6, <1>7, <1>9, <1>10, <1>11

\* The CPU is set running by the last part of an operation: the register gets
\* what dbgctl says.
LEMMA StartKeeps ==
    ASSUME Inv, Start
    PROVE  Inv'
<1>1. Flowing /\ Part = "go"
  BY DEF Inv, Start
<1>2. mode = "debug" /\ Tail(todo) = <<>>
  BY <1>1, ActsOnStopped DEF Acts
<1>3. todo' = <<>>
  BY <1>2 DEF Start, Done, Go, Fails, Throw
<1>4. Flowing'
  BY <1>3, NothingLeft DEF Sound, Flowing
<1>5. KnownStopped' /\ PcCoherent'
  BY <1>2 DEF Start, KnownStopped, PcCoherent
<1>6. BreaksKnown'
  BY DEF Start, table, Inv, CopiesTrue, BreaksKnown, Own
<1> QED
  BY <1>4, <1>5, <1>6 DEF Inv, CopiesTrue

\* Stopping, noticing, and resetting the link.
LEMMA StopsKeep ==
    ASSUME Inv, Relink \/ ResetLink \/ UnlessStopped \/ Halt \/ Poll \/ Forget
    PROVE  Inv'
<1>1. Flowing
  BY DEF Inv
<1>2. Part # "none" /\ Part \notin Checks \cup {"dbgctl", "entry", "disarm"}
  BY DEF Relink, ResetLink, UnlessStopped, Halt, Poll, Forget, Checks
<1>3. /\ mode = "debug" => mode' = "debug"
      /\ bps' = bps /\ Own' = Own
  BY DEF Relink, ResetLink, UnlessStopped, Halt, Poll, Forget, device, table, Own
<1>4. /\ arg' = arg
      /\ \/ todo' = Tail(todo) \/ Sound(todo')
         \/ \E p : Detour(p, {}) /\ todo' = p \o Tail(todo)
  <2>1. CASE Relink
    BY <2>1, NothingLeft DEF Relink, Done, Go, Throw
  <2>2. CASE ResetLink
    BY <2>2, Detours DEF ResetLink, Go
  <2>3. CASE UnlessStopped
    BY <2>3, NothingLeft DEF UnlessStopped, Done, Go
  <2>4. CASE Halt
    BY <2>4, NothingLeft, Detours DEF Halt, Done, Go, Fails, Throw
  <2>5. CASE Poll
    BY <2>5, NothingLeft, Detours DEF Poll, Done, Go, Throw
  <2>6. CASE Forget
    BY <2>6 DEF Forget, Done, Go
  <2> QED
    BY <2>1, <2>2, <2>3, <2>4, <2>5, <2>6
<1>5. Flowing'
  BY <1>1, <1>2, <1>3, <1>4, Continues
<1>6. KnownStopped' /\ PcCoherent'
  <2>1. cached' \subseteq cached /\ UNCHANGED <<hctl, hpc, dpc>>
    BY DEF Relink, ResetLink, UnlessStopped, Halt, Poll, Forget, Still, copies, device
  <2> QED
    BY <1>3, <2>1 DEF Inv, CopiesTrue, KnownStopped, PcCoherent
<1>7. BreaksKnown'
  BY <1>3 DEF Inv, CopiesTrue, BreaksKnown, Own
<1> QED
  BY <1>5, <1>6, <1>7 DEF Inv, CopiesTrue

LEMMA ResetKeeps ==
    ASSUME Inv, Reset
    PROVE  Inv'
<1>1. Flowing /\ Part = "reset" /\ Part # "none"
  BY DEF Inv, Reset
<1>2. Sound(todo')
  BY <1>1, ResetsAlone DEF Reset, Done, Go
<1>3. CopiesTrue'
  BY DEF Reset, Resets, table, Inv, CopiesTrue, KnownStopped, PcCoherent, BreaksKnown, Own
<1> QED
  BY <1>2, <1>3 DEF Inv, Flowing, Sound

LEMMA NextInv == Inv /\ [Next]_vars => Inv'
<1> SUFFICES ASSUME Inv, [Next]_vars
             PROVE  Inv'
  OBVIOUS
<1>1. CASE Next
  BY <1>1, RequestsKeep, DeviceKeeps, ReadsKeep, DecisionsKeep, WritesKeep, BreakpointsKeep,
     StartKeeps, StopsKeep, ResetKeeps
     DEF Next, Parts
<1>2. CASE UNCHANGED vars
  BY <1>2 DEF vars, device, line, copies, table, op, Inv, Flowing, CopiesTrue,
              KnownStopped, PcCoherent, BreaksKnown, Own
<1> QED
  BY <1>1, <1>2

LEMMA Invariance == Spec => []Inv
BY InitInv, NextInv, PTL DEF Spec

-----------------------------------------------------------------------------

\* The debugger takes the device for stopped only when it is: memory, registers
\* and breakpoints are read and written on the word of the cached dbgctl.
THEOREM StoppedIsStopped == Spec => []KnownStopped
<1>1. Inv => KnownStopped
  BY DEF Inv, CopiesTrue
<1> QED
  BY <1>1, Invariance, PTL

\* The program counter at which breakpoints are stepped off, and calls are
\* looked for, is that of a stopped device.
THEOREM PcIsCurrent == Spec => []PcCoherent
<1>1. Inv => PcCoherent
  BY DEF Inv, CopiesTrue
<1> QED
  BY <1>1, Invariance, PTL

\* Whatever fails, no BRK is left in the flash without its entry in the table, but
\* for those of the entries that a mass erase dropped before it failed.
THEOREM BreaksAreKnown == Spec => []BreaksKnown
<1>1. Inv => BreaksKnown
  BY DEF Inv, CopiesTrue
<1> QED
  BY <1>1, Invariance, PTL

-----------------------------------------------------------------------------
(* Types.                                                                  *)

\* What parts are replaced by, when it is not their own operation's end.
Pieces ==
    {<<>>, <<"stopped", "protected", "readpc">>, <<"stopped", "protected", "rdmem">>, Step,
     <<"relink", "dbgctl">>, <<"relink", "forget">>, <<"forget">>, <<"dbgctl">>, <<"relink">>}

\* What an operation goes on with, and the address it is for.
Onward ==
    \/ arg' = arg /\ (todo' = todo \/ todo' = Tail(todo) \/ todo' = <<>> \/ todo' = <<"removetemp">>)
    \/ arg' = arg /\ Part = "pc" /\ todo' = <<"stopped", "protected", "readpc">> \o Tail(todo)
    \/ arg' = arg /\ Part \notin {"pc", "readpc"} /\ \E p \in Pieces : todo' = p \o Tail(todo)
    \/ arg' = arg /\ Part = "over" /\ todo' = Step
    \/ arg' = hpc + 1 /\ Part = "over" /\ Kind[hpc] = "call" /\ todo' = RunTo
    \/ arg' = tbreak /\ tbreak # 0 /\ todo' = RemoveBreakpoint \o <<"cleartemp">>

LEMMA GoesOnward ==
    ASSUME Flowing, Parts
    PROVE  Onward /\ Part # "none" /\ todo # <<>> /\ Head(todo) = Part /\ todo \in Seq(PartNames)
<1> SUFFICES Onward /\ Part # "none"
  BY PartIsHead DEF Flowing, Orderly
<1>1. CASE Other \/ Fetch
  BY <1>1 DEF Other, Fetch, Needs, Onward, Pieces, Done, Go, Fails, Throw
<1>2. CASE Decide
  <2>1. CASE Part = "removetemp" /\ tbreak # 0
    <3>1. todo' = RemoveBreakpoint \o <<"cleartemp">> \o Tail(todo) /\ arg' = tbreak
      BY <1>2, <2>1 DEF Decide
    <3>2. todo' = RemoveBreakpoint \o <<"cleartemp">>
      BY <2>1, <3>1, RemovesLast, RemovesTemp, ConcatEmptySeq DEF Detour
    <3> QED
      BY <2>1, <3>1, <3>2 DEF Onward
  <2>2. CASE Part = "offbreak"
    BY <1>2, <2>2 DEF Decide, Onward, Pieces, Go
  <2>3. CASE Part \notin {"removetemp", "offbreak"} \/ tbreak = 0
    <3>1. /\ arg' = arg
          /\ \/ todo' = Tail(todo) \/ todo' = <<>> \/ todo' = <<"removetemp">>
             \/ Part = "pc" /\ todo' = <<"stopped", "protected", "readpc">> \o Tail(todo)
             \/ Part = "offbreak"
      BY <1>2, <2>3 DEF Decide, Done, Go, Throw
    <3>2. Part # "none"
      BY <1>2 DEF Decide
    <3> QED
      BY <2>2, <3>1, <3>2 DEF Onward
  <2> QED
    BY <2>1, <2>2, <2>3
<1>3. CASE Over
  BY <1>3 DEF Over, Onward, Go
<1>4. CASE WritePc \/ Exec \/ IrqOff \/ IrqBack \/ SetRun \/ SetTemp \/ ClearTemp
  BY <1>4 DEF WritePc, Exec, IrqOff, IrqBack, SetRun, SetTemp, ClearTemp,
              Onward, Pieces, Done, Go, Fails, Throw
<1>5. CASE ReadPc \/ Start \/ Entry \/ Arm \/ Disarm \/ Delete \/ DropTable \/ EraseChip
  BY <1>5 DEF ReadPc, Start, Entry, Arm, Disarm, Delete, DropTable, EraseChip, Onward, Done,
              Go, Fails, Throw
<1>6. CASE Relink \/ ResetLink \/ UnlessStopped \/ Halt \/ Forget \/ Reset
  BY <1>6 DEF Relink, ResetLink, UnlessStopped, Halt, Forget, Reset,
              Onward, Pieces, Done, Go, Fails, Throw
<1>7. CASE Poll
  BY <1>7 DEF Poll, Onward, Pieces, Done, Go, Throw
<1> QED
  BY <1>1, <1>2, <1>3, <1>4, <1>5, <1>6, <1>7 DEF Parts

\* What does a part.
LEMMA ActionOf ==
    ASSUME Parts
    PROVE  /\ Part \in {"stopped", "ifstopped", "protected", "revid"} => Fetch \/ Decide
           /\ Part = "pc" => Decide
           /\ Part = "readpc" => ReadPc
           /\ Part = "rdmem" => Other
           /\ Part = "irqoff" => IrqOff
           /\ Part = "exec" => Exec
           /\ Part = "irqback" => IrqBack
           /\ Part = "go" => Start
           /\ Part = "poll" => Poll
           /\ Part = "reset" => Reset
<1>1. CASE Other \/ Fetch \/ Decide
  BY <1>1 DEF Other, Fetch, Decide, Needs
<1>2. CASE ReadPc \/ WritePc \/ Exec \/ IrqOff \/ IrqBack \/ SetRun \/ Start \/ Over
  BY <1>2 DEF ReadPc, WritePc, Exec, IrqOff, IrqBack, SetRun, Start, Over
<1>3. CASE \/ Entry \/ Arm \/ Disarm \/ Delete \/ DropTable \/ EraseChip
           \/ SetTemp \/ ClearTemp \/ Relink \/ ResetLink
  BY <1>3 DEF Entry, Arm, Disarm, Delete, DropTable, EraseChip, SetTemp, ClearTemp, Relink,
              ResetLink
<1>4. CASE UnlessStopped \/ Halt \/ Poll \/ Forget \/ Reset
  BY <1>4 DEF UnlessStopped, Halt, Poll, Forget, Reset
<1> QED
  BY <1>1, <1>2, <1>3, <1>4 DEF Parts

\* Parts that take an address to the device or to the table have one, and next
\* asks for the return address of the instruction at the program counter.
AddressParts == {"wrpc", "entry", "arm", "settemp"}
Named == \A j \in 1 .. Len(todo) : todo[j] \in AddressParts => arg \in Addr
Located == hpc \in Addr \/ Behind(todo, {"over"}, {"pc", "readpc"})

TypeInv == Inv /\ TypeOK /\ Named /\ Located

\* A sequence has none of the parts in A.
Lacks(s, A) == s \in Seq(PartNames) /\ \A j \in 1 .. Len(s) : s[j] \notin A

LEMMA LacksTail ==
    ASSUME NEW A, NEW s, Lacks(s, A), s # <<>>
    PROVE  Lacks(Tail(s), A)
BY TailParts DEF Lacks

LEMMA LacksConcat ==
    ASSUME NEW A, NEW p, NEW t, Lacks(p, A), Lacks(t, A)
    PROVE  Lacks(p \o t, A)
<1> DEFINE c == p \o t
<1>1. c \in Seq(PartNames)
  BY ConcatParts DEF Lacks
<1>2. ASSUME NEW i \in 1 .. Len(c)
      PROVE  c[i] \notin A
  BY ConcatPart DEF Lacks
<1> HIDE DEF c
<1>3. Lacks(c, A)
  BY <1>1, <1>2 DEF Lacks
<1> QED
  BY <1>3 DEF c

\* Pieces concern no address, and what comes first in an operation is its own.
LEMMA PiecesLack ==
    ASSUME NEW p \in Pieces
    PROVE  Lacks(p, AddressParts \cup {"over"})
<1>1. Lacks(Step, AddressParts \cup {"over"})
  <2>1. Lacks(<<"stopped", "protected", "revid", "pc">>, AddressParts \cup {"over"})
    BY DEF Lacks, AddressParts, PartNames
  <2>2. /\ Lacks(<<"irqoff", "exec", "irqback">>, AddressParts \cup {"over"})
        /\ Lacks(<<"exec">>, AddressParts \cup {"over"})
    BY DEF Lacks, AddressParts, PartNames
  <2> QED
    BY <2>1, <2>2, LacksConcat DEF Step
<1>2. /\ Lacks(<<"stopped", "protected", "readpc">>, AddressParts \cup {"over"})
      /\ Lacks(<<"stopped", "protected", "rdmem">>, AddressParts \cup {"over"})
  BY DEF Lacks, AddressParts, PartNames
<1>3. /\ Lacks(<<"relink", "dbgctl">>, AddressParts \cup {"over"})
      /\ Lacks(<<"relink", "forget">>, AddressParts \cup {"over"})
  BY DEF Lacks, AddressParts, PartNames
<1>4. /\ Lacks(<<>>, AddressParts \cup {"over"})
      /\ Lacks(<<"forget">>, AddressParts \cup {"over"})
      /\ Lacks(<<"dbgctl">>, AddressParts \cup {"over"})
      /\ Lacks(<<"relink">>, AddressParts \cup {"over"})
  BY DEF Lacks, AddressParts, PartNames
<1> QED
  BY <1>1, <1>2, <1>3, <1>4 DEF Pieces

LEMMA BreakpointsLackOver ==
    Lacks(SetBreakpoint, {"over"}) /\ Lacks(RemoveBreakpoint, {"over"})
<1>1. Lacks(SetBreakpoint, {"over"})
  BY DEF Lacks, PartNames, SetBreakpoint
<1>2. Lacks(RemoveBreakpoint, {"over"})
  BY DEF Lacks, PartNames, RemoveBreakpoint
<1> QED
  BY <1>1, <1>2

LEMMA RunToLacksOver == Lacks(RunTo, {"over"})
<1>1. Lacks(<<"stopped", "protected", "pc", "offbreak", "setrun", "revid">>, {"over"})
  BY DEF Lacks, PartNames
<1>2. /\ Lacks(<<"notemp">>, {"over"}) /\ Lacks(<<"settemp">>, {"over"})
      /\ Lacks(<<"wrcntr">>, {"over"}) /\ Lacks(<<"go">>, {"over"})
  BY DEF Lacks, PartNames
<1> DEFINE q == IF NoComparator THEN <<"notemp">> \o SetBreakpoint \o <<"settemp">>
                                ELSE <<"wrcntr">>
<1>3. Lacks(<<"notemp">> \o SetBreakpoint \o <<"settemp">>, {"over"})
  BY <1>2, BreakpointsLackOver, LacksConcat
<1>4. Lacks(q, {"over"})
  BY <1>2, <1>3
<1> HIDE DEF q
<1>5. Lacks(<<"stopped", "protected", "pc", "offbreak", "setrun", "revid">> \o q \o <<"go">>, {"over"})
  BY <1>1, <1>2, <1>4, LacksConcat
<1> QED
  BY <1>5 DEF RunTo, q

LEMMA NoneBehind ==
    ASSUME NEW A, NEW B, NEW s, Lacks(s, A)
    PROVE  Behind(s, A, B)
BY DEF Lacks, Behind

\* No operation other than next asks for a return address, and those that are
\* not for an address concern none.
LEMMA OperationsLocate ==
    ASSUME NEW s \in Plain \cup {RunClks} \cup AtAddress \cup AtMark
    PROVE  Behind(s, {"over"}, {"pc", "readpc"})
<1>1. CASE s = StepOver
  BY <1>1 DEF StepOver, Behind
<1>2. CASE s \in {Stop, IsRunning, ResetChip, WrPc, MassErase}
  <2>1. /\ Lacks(Stop, {"over"}) /\ Lacks(IsRunning, {"over"})
        /\ Lacks(ResetChip, {"over"}) /\ Lacks(WrPc, {"over"}) /\ Lacks(MassErase, {"over"})
    BY DEF Stop, IsRunning, ResetChip, WrPc, MassErase, Lacks, PartNames
  <2> QED
    BY <1>2, <2>1, NoneBehind
<1>3. CASE s \in {<<"rdrevid">>, <<"resetlink">>, <<"revid", "trace">>}
  <2>1. /\ Lacks(<<"rdrevid">>, {"over"}) /\ Lacks(<<"resetlink">>, {"over"})
        /\ Lacks(<<"revid", "trace">>, {"over"})
    BY DEF Lacks, PartNames
  <2> QED
    BY <1>3, <2>1, NoneBehind
<1>4. CASE s = Step
  <2>1. Lacks(Step, {"over"})
    BY PiecesLack DEF Pieces, Lacks
  <2> QED
    BY <1>4, <2>1, NoneBehind
<1>5. CASE s = Run
  <2>1. /\ Lacks(<<"ifstopped", "revid">>, {"over"}) /\ Lacks(<<>>, {"over"})
        /\ Lacks(<<"protected">>, {"over"}) /\ Lacks(<<"go">>, {"over"})
        /\ Lacks(<<"pc", "offbreak", "setrun">>, {"over"})
    BY DEF Lacks, PartNames
  <2> DEFINE q == IF Rev = "later" THEN <<>> ELSE <<"protected">>
  <2>2. Lacks(q, {"over"})
    BY <2>1
  <2> HIDE DEF q
  <2>3. Lacks(<<"ifstopped", "revid">> \o q \o <<"pc", "offbreak", "setrun">> \o <<"go">>, {"over"})
    BY <2>1, <2>2, LacksConcat
  <2> QED
    BY <1>5, <2>3, NoneBehind DEF Run, q
<1>6. CASE s = RunClks
  <2>1. /\ Lacks(<<"stopped", "protected", "revid">>, {"over"}) /\ Lacks(<<"unsupported">>, {"over"})
        /\ Lacks(<<"wrcntr", "stopped", "rdcntr", "setrun">>, {"over"}) /\ Lacks(<<"go">>, {"over"})
    BY DEF Lacks, PartNames
  <2> DEFINE q == IF NoComparator THEN <<"unsupported">>
                                  ELSE <<"wrcntr", "stopped", "rdcntr", "setrun">>
  <2>2. Lacks(q, {"over"})
    BY <2>1
  <2> HIDE DEF q
  <2>3. Lacks(<<"stopped", "protected", "revid">> \o q \o <<"go">>, {"over"})
    BY <2>1, <2>2, LacksConcat
  <2> QED
    BY <1>6, <2>3, NoneBehind DEF RunClks, q
<1>7. CASE s \in {RunTo, SetBreakpoint, RemoveBreakpoint}
  BY <1>7, RunToLacksOver, BreakpointsLackOver, NoneBehind
<1> QED
  BY <1>1, <1>2, <1>3, <1>4, <1>5, <1>6, <1>7 DEF Plain, AtAddress, AtMark

LEMMA OperationsName ==
    ASSUME NEW s \in Plain \cup {RunClks}
    PROVE  Lacks(s, AddressParts)
<1> USE DEF AddressParts
<1>1. /\ Lacks(StepOver, AddressParts) /\ Lacks(Stop, AddressParts)
      /\ Lacks(IsRunning, AddressParts) /\ Lacks(ResetChip, AddressParts)
      /\ Lacks(MassErase, AddressParts)
  BY DEF StepOver, Stop, IsRunning, ResetChip, MassErase, Lacks, PartNames
<1>2. /\ Lacks(<<"rdrevid">>, AddressParts) /\ Lacks(<<"resetlink">>, AddressParts)
      /\ Lacks(<<"revid", "trace">>, AddressParts)
  BY DEF Lacks, PartNames
<1>3. Lacks(Step, AddressParts)
  BY PiecesLack DEF Pieces, Lacks
<1>4. Lacks(Run, AddressParts)
  <2>1. /\ Lacks(<<"ifstopped", "revid">>, AddressParts) /\ Lacks(<<>>, AddressParts)
        /\ Lacks(<<"protected">>, AddressParts) /\ Lacks(<<"go">>, AddressParts)
        /\ Lacks(<<"pc", "offbreak", "setrun">>, AddressParts)
    BY DEF Lacks, PartNames
  <2> DEFINE q == IF Rev = "later" THEN <<>> ELSE <<"protected">>
  <2>2. Lacks(q, AddressParts)
    BY <2>1
  <2> HIDE DEF q
  <2>3. Lacks(<<"ifstopped", "revid">> \o q \o <<"pc", "offbreak", "setrun">> \o <<"go">>, AddressParts)
    BY <2>1, <2>2, LacksConcat
  <2> QED
    BY <2>3 DEF Run, q
<1>5. Lacks(RunClks, AddressParts)
  <2>1. /\ Lacks(<<"stopped", "protected", "revid">>, AddressParts)
        /\ Lacks(<<"unsupported">>, AddressParts)
        /\ Lacks(<<"wrcntr", "stopped", "rdcntr", "setrun">>, AddressParts)
        /\ Lacks(<<"go">>, AddressParts)
    BY DEF Lacks, PartNames
  <2> DEFINE q == IF NoComparator THEN <<"unsupported">>
                                  ELSE <<"wrcntr", "stopped", "rdcntr", "setrun">>
  <2>2. Lacks(q, AddressParts)
    BY <2>1
  <2> HIDE DEF q
  <2>3. Lacks(<<"stopped", "protected", "revid">> \o q \o <<"go">>, AddressParts)
    BY <2>1, <2>2, LacksConcat
  <2> QED
    BY <2>3 DEF RunClks, q
<1> QED
  BY <1>1, <1>2, <1>3, <1>4, <1>5 DEF Plain

\* A part comes behind all of a sequence that comes before.
LEMMA BehindPiece ==
    ASSUME NEW p \in Seq(PartNames), NEW t \in Seq(PartNames), NEW A, NEW B,
           Lacks(p, A), NEW k \in 1 .. Len(p), p[k] \in B
    PROVE  Behind(p \o t, A, B)
<1> DEFINE c == p \o t
<1>1. /\ Len(p) \in Nat /\ Len(t) \in Nat /\ Len(c) = Len(p) + Len(t)
  BY LenProperties, ConcatParts
<1>2. ASSUME NEW i \in 1 .. Len(c)
      PROVE  \/ i \in 1 .. Len(p) /\ c[i] = p[i]
             \/ i - Len(p) \in 1 .. Len(t) /\ c[i] = t[i - Len(p)]
  BY ConcatPart
<1>3. k \in 1 .. Len(c) /\ k - Len(p) \notin 1 .. Len(t)
  BY <1>1
<1>4. c[k] \in B
  BY <1>2, <1>3
<1> HIDE DEF c
<1>5. ASSUME NEW j \in 1 .. Len(c), c[j] \in A
      PROVE  k \in 1 .. j - 1
  <2>1. ~(j \in 1 .. Len(p) /\ c[j] = p[j])
    BY <1>5 DEF Lacks
  <2>2. j - Len(p) \in 1 .. Len(t)
    BY <1>2, <2>1
  <2> QED
    BY <1>1, <2>2
<1>6. Behind(c, A, B)
  BY <1>4, <1>5 DEF Behind
<1> QED
  BY <1>6 DEF c

LEMMA AddressesKept ==
    ASSUME TypeInv, Parts
    PROVE  Named' /\ (Part = "over" => hpc \in Addr)
<1>1. /\ Onward /\ Part # "none" /\ todo # <<>> /\ Head(todo) = Part
      /\ todo \in Seq(PartNames)
  BY GoesOnward DEF TypeInv, Inv
<1>2. Part = "over" => hpc \in Addr
  BY <1>1, FirstIsNotBehind DEF TypeInv, Located
<1>4. Lacks(todo, AddressParts) \/ arg \in Addr
  BY <1>1 DEF TypeInv, Named, Lacks
<1>5. \A p \in Pieces : Lacks(p, AddressParts)
  BY PiecesLack DEF Lacks
<1>6. arg' \in Addr \/ Lacks(todo', AddressParts)
  <2>1. CASE arg' = arg /\ arg \in Addr
    BY <2>1
  <2>2. CASE arg' = arg /\ Lacks(todo, AddressParts)
    <3>1. Lacks(Tail(todo), AddressParts)
      BY <1>1, <2>2, LacksTail
    <3>2. \A p \in Pieces : Lacks(p \o Tail(todo), AddressParts)
      BY <1>5, <3>1, LacksConcat
    <3>3. Lacks(<<>>, AddressParts) /\ Lacks(<<"removetemp">>, AddressParts)
      BY DEF Lacks, AddressParts, PartNames
    <3>4. Lacks(Step, AddressParts)
      BY <1>5 DEF Pieces
    <3>5. \/ todo' = todo \/ todo' = Tail(todo) \/ todo' = <<>> \/ todo' = <<"removetemp">>
          \/ todo' = Step \/ \E p \in Pieces : todo' = p \o Tail(todo)
          \/ arg' \in Addr
      <4>1. Part = "over" /\ arg' = hpc + 1 /\ Kind[hpc] = "call" => arg' \in Addr
        BY <1>2, ProgramAssumption
      <4>2. arg' = tbreak /\ tbreak # 0 => arg' \in Addr
        BY DEF TypeInv, TypeOK
      <4>3. <<"stopped", "protected", "readpc">> \in Pieces
        BY DEF Pieces
      <4> QED
        BY <1>1, <4>1, <4>2, <4>3 DEF Onward
    <3> QED
      BY <2>2, <3>1, <3>2, <3>3, <3>4, <3>5
  <2>3. CASE arg' # arg
    <3>1. Part = "over" /\ arg' = hpc + 1 /\ Kind[hpc] = "call" => arg' \in Addr
      BY <1>2, ProgramAssumption
    <3>2. arg' = tbreak /\ tbreak # 0 => arg' \in Addr
      BY DEF TypeInv, TypeOK
    <3> QED
      BY <1>1, <2>3, <3>1, <3>2 DEF Onward
  <2> QED
    BY <1>4, <2>1, <2>2, <2>3
<1>7. Named'
  BY <1>6 DEF Named, Lacks
<1> QED
  BY <1>2, <1>7

LEMMA LocatedKept ==
    ASSUME TypeInv, Parts
    PROVE  Located'
<1>1. /\ Onward /\ Part # "none" /\ todo # <<>> /\ Head(todo) = Part
      /\ todo \in Seq(PartNames) /\ Tail(todo) \in Seq(PartNames)
  BY GoesOnward, TailParts DEF TypeInv, Inv
<1>2. hpc' = hpc \/ hpc' \in Addr
  BY DEF Parts, Other, Fetch, Decide, ReadPc, WritePc, Exec, IrqOff, IrqBack, SetRun, Start, Over,
         Entry, Arm, Disarm, Delete, DropTable, EraseChip, SetTemp, ClearTemp, Relink, ResetLink,
         UnlessStopped, Halt, Poll, Forget, Reset, copies, TypeInv, TypeOK
<1>3. CASE hpc \in Addr
  BY <1>2, <1>3 DEF Located
<1> SUFFICES ASSUME hpc \notin Addr
             PROVE  hpc' \in Addr \/ Behind(todo', {"over"}, {"pc", "readpc"})
  BY <1>3 DEF Located
<1>4. Behind(todo, {"over"}, {"pc", "readpc"})
  BY DEF TypeInv, Located
<1>5. Part # "over"
  BY <1>1, <1>4, FirstIsNotBehind
<1>6. Part = "pc" /\ todo' = Tail(todo) => hpc \in Addr
  <2> SUFFICES ASSUME Part = "pc", todo' = Tail(todo)
               PROVE  hpc \in Addr
    OBVIOUS
  <2>1. Decide
    BY ActionOf
  <2>2. "PC" \in cached
    <3>1. \/ "PC" \in cached
          \/ todo' = <<"stopped", "protected", "readpc">> \o Tail(todo)
      BY <2>1 DEF Decide, Go
    <3>2. todo' # <<"stopped", "protected", "readpc">> \o Tail(todo)
      <4>1. <<"stopped", "protected", "readpc">> \in Seq(PartNames) /\ <<"stopped", "protected", "readpc">> # <<>>
        BY DEF PartNames
      <4> QED
        BY <1>1, <4>1, ConcatEqualIffEmpty
    <3> QED
      BY <3>1, <3>2
  <2> QED
    BY <2>2 DEF TypeInv, Inv, CopiesTrue, PcCoherent, TypeOK
<1>7. Part = "readpc" => hpc' \in Addr \/ todo' = <<>>
  <2> SUFFICES ASSUME Part = "readpc"
               PROVE  hpc' \in Addr \/ todo' = <<>>
    OBVIOUS
  <2>1. ReadPc
    BY ActionOf
  <2> QED
    BY <2>1 DEF ReadPc, Fails, Throw, TypeInv, TypeOK
<1>8. \A s : Lacks(s, {"over"}) => Behind(s, {"over"}, {"pc", "readpc"})
  BY NoneBehind
<1>9. /\ Lacks(<<>>, {"over"}) /\ Lacks(<<"removetemp">>, {"over"})
      /\ Lacks(<<"cleartemp">>, {"over"})
  BY DEF Lacks, PartNames
<1>10. Lacks(RemoveBreakpoint \o <<"cleartemp">>, {"over"})
  BY <1>9, BreakpointsLackOver, LacksConcat
<1>11. \A p \in Pieces : Lacks(p, {"over"})
  BY PiecesLack DEF Lacks
<1>12. Part \notin {"pc", "readpc"} => Behind(Tail(todo), {"over"}, {"pc", "readpc"})
  BY <1>1, <1>4, BehindPopped
<1>13. ASSUME Part \notin {"pc", "readpc"}, NEW p \in Pieces, todo' = p \o Tail(todo)
       PROVE  Behind(todo', {"over"}, {"pc", "readpc"})
  BY <1>1, <1>8, <1>11, <1>12, <1>13, ConcatBehind DEF Lacks
<1>14. ASSUME todo' = <<"stopped", "protected", "readpc">> \o Tail(todo)
       PROVE  Behind(todo', {"over"}, {"pc", "readpc"})
  <2> DEFINE p == <<"stopped", "protected", "readpc">>
  <2>1. Lacks(p, {"over"}) /\ 3 \in 1 .. Len(p) /\ p[3] \in {"pc", "readpc"} /\ p \in Seq(PartNames)
    BY DEF Lacks, PartNames
  <2> HIDE DEF p
  <2>2. Behind(p \o Tail(todo), {"over"}, {"pc", "readpc"})
    BY <1>1, <2>1, BehindPiece
  <2> QED
    BY <1>14, <2>2 DEF p
<1>15. CASE Part = "readpc"
  BY <1>7, <1>8, <1>9, <1>15
<1>16. CASE Part # "readpc"
  BY <1>1, <1>4, <1>5, <1>6, <1>8, <1>9, <1>10, <1>12, <1>13, <1>14, <1>16 DEF Onward
<1> QED
  BY <1>15, <1>16

\* TypeOK by what it is about.
DeviceTypes ==
    /\ mode \in {"debug", "run"} /\ dpc \in Addr /\ armed \subseteq Addr
    /\ hw \in Addr \cup {NoStop, Clks} /\ irq \in BOOLEAN /\ progirq \in BOOLEAN
LineTypes == ack \in BOOLEAN /\ brk \in BOOLEAN /\ up \in BOOLEAN
CopyTypes ==
    /\ cached \subseteq {"DBGCTL", "DBGSTAT", "REVID", "PC"}
    /\ hctl \in {"debug", "run"} /\ hpc \in Addr \cup {0}
    /\ bps \subseteq Addr /\ strays \subseteq Addr /\ tbreak \in Addr \cup {0}
Results ==
    {"ok", "running", "link", "protected", "unsupported", "assert", "already set",
     "NULL address", "not set"}
OpTypes ==
    /\ todo \in Seq(PartNames) /\ arg \in Addr \cup {NoStop, Clks} /\ wasOn \in BOOLEAN
    /\ result \in Results

LEMMA TypesTogether ==
    /\ TypeOK <=> DeviceTypes /\ LineTypes /\ CopyTypes /\ OpTypes
    /\ TypeOK' <=> DeviceTypes' /\ LineTypes' /\ CopyTypes' /\ OpTypes'
BY Zenon DEF TypeOK, DeviceTypes, LineTypes, CopyTypes, OpTypes, Results

LEMMA PartsTypes ==
    ASSUME TypeInv, Parts
    PROVE  TypeOK'
<1>1. DeviceTypes /\ LineTypes /\ CopyTypes /\ OpTypes
  BY TypesTogether DEF TypeInv
<1>2. todo' \in Seq(PartNames)
  BY NextInv DEF TypeInv, Next, Inv, Flowing, Orderly
<1>3. /\ Onward /\ todo # <<>> /\ Head(todo) = Part /\ todo \in Seq(PartNames)
      /\ Part = "over" => hpc \in Addr
  BY GoesOnward, AddressesKept DEF TypeInv, Inv
<1>4. arg' \in Addr \cup {NoStop, Clks}
  BY <1>1, <1>3, ProgramAssumption DEF Onward, OpTypes, CopyTypes
<1>5. Part \in AddressParts => arg \in Addr
  <2>1. Len(todo) \in Nat /\ Len(todo) > 0 /\ Head(todo) = todo[1]
    BY <1>3, TailParts
  <2> QED
    BY <1>3, <2>1 DEF TypeInv, Named
<1>6. DeviceTypes'
  <2>1. CASE Other \/ Fetch \/ Decide \/ SetRun \/ Over \/ ReadPc
    BY <1>1, <2>1 DEF DeviceTypes, Other, Fetch, Decide, ReadPc, SetRun, Over, device
  <2>2. CASE \/ Entry \/ Delete \/ DropTable \/ SetTemp \/ ClearTemp \/ Relink \/ ResetLink
             \/ UnlessStopped \/ Poll \/ Forget
    BY <1>1, <2>2 DEF DeviceTypes, Entry, Delete, DropTable, SetTemp, ClearTemp, Relink, ResetLink,
                      UnlessStopped, Poll, Forget, device
  <2>3. CASE WritePc \/ Start \/ Arm \/ Disarm \/ EraseChip
    BY <1>1, <1>5, <2>3
       DEF DeviceTypes, CopyTypes, OpTypes, WritePc, Start, Arm, Disarm, EraseChip, AddressParts
  <2>4. CASE IrqOff \/ IrqBack \/ Halt
    BY <1>1, <2>4 DEF DeviceTypes, IrqOff, IrqBack, Halt
  <2>5. CASE Exec
    BY <1>1, <2>5, ProgramAssumption DEF DeviceTypes, Exec, Executes
  <2>6. CASE Reset
    BY <1>1, <2>6, ProgramAssumption DEF DeviceTypes, CopyTypes, Reset, Resets
  <2> QED
    BY <2>1, <2>2, <2>3, <2>4, <2>5, <2>6 DEF Parts
<1>7. LineTypes'
  <2>1. CASE Other \/ Fetch \/ Decide \/ SetRun \/ Over \/ ReadPc
    BY <1>1, <2>1 DEF LineTypes, Other, Fetch, Decide, ReadPc, SetRun, Over, Sent, Lost, Fails, line
  <2>2. CASE \/ Entry \/ Delete \/ DropTable \/ SetTemp \/ ClearTemp \/ Relink \/ ResetLink
             \/ UnlessStopped \/ Poll \/ Forget
    BY <1>1, <2>2 DEF LineTypes, Entry, Delete, DropTable, SetTemp, ClearTemp, Relink, ResetLink,
                      UnlessStopped, Poll, Forget, line
  <2>3. CASE \/ WritePc \/ Start \/ Arm \/ Disarm \/ EraseChip \/ IrqOff \/ IrqBack
             \/ Halt \/ Exec \/ Reset
    BY <1>1, <2>3 DEF LineTypes, WritePc, Start, Arm, Disarm, EraseChip, IrqOff, IrqBack, Halt,
                      Exec, Reset, Sent, Lost, Fails, line
  <2> QED
    BY <2>1, <2>2, <2>3 DEF Parts
<1>8. CopyTypes'
  <2>1. CASE Other \/ Fetch \/ Decide \/ SetRun \/ Over \/ ReadPc
    <3>1. hpc' \in {hpc, dpc} /\ hctl' \in {hctl, mode, "run"} /\ UNCHANGED table
      BY <2>1 DEF Other, Fetch, Decide, ReadPc, SetRun, Over, copies
    <3>2. cached' \subseteq cached \cup {"DBGCTL", "DBGSTAT", "REVID", "PC"}
      BY <2>1 DEF Other, Fetch, Decide, ReadPc, SetRun, Over, copies, Still, Needs
    <3> QED
      BY <1>1, <3>1, <3>2 DEF CopyTypes, DeviceTypes, table
  <2>2. CASE \/ Entry \/ Delete \/ DropTable \/ SetTemp \/ ClearTemp \/ Relink \/ ResetLink
             \/ UnlessStopped \/ Poll \/ Forget
    BY <1>1, <1>5, <2>2
       DEF CopyTypes, DeviceTypes, Entry, Delete, DropTable, SetTemp, ClearTemp, Relink, ResetLink,
           UnlessStopped, Poll, Forget, copies, table, device, AddressParts
  <2>3. CASE \/ WritePc \/ Start \/ Arm \/ Disarm \/ EraseChip \/ IrqOff \/ IrqBack
             \/ Halt \/ Exec \/ Reset
    BY <1>1, <2>3 DEF CopyTypes, WritePc, Start, Arm, Disarm, EraseChip, IrqOff, IrqBack, Halt,
                      Exec, Reset, Still, copies, table
  <2> QED
    BY <2>1, <2>2, <2>3 DEF Parts
<1>9. wasOn' \in {wasOn, irq} /\ (result' = result \/ result' \in Results)
  <2>1. CASE Other \/ Fetch \/ SetRun \/ Over \/ ReadPc
    BY <2>1 DEF Other, Fetch, ReadPc, SetRun, Over, Fails, Done, Go, Throw, Results
  <2>2. CASE Decide
    BY <2>2 DEF Decide, Done, Go, Throw, Results
  <2>3. CASE \/ Entry \/ Delete \/ DropTable \/ SetTemp \/ ClearTemp \/ Relink \/ ResetLink
             \/ UnlessStopped \/ Poll \/ Forget
    BY <2>3 DEF Entry, Delete, DropTable, SetTemp, ClearTemp, Relink, ResetLink, UnlessStopped,
                Poll, Forget,
                Done, Go, Throw, Results
  <2>4. CASE \/ WritePc \/ Start \/ Arm \/ Disarm \/ EraseChip \/ IrqOff \/ IrqBack
             \/ Halt \/ Exec \/ Reset
    BY <2>4 DEF WritePc, Start, Arm, Disarm, EraseChip, IrqOff, IrqBack, Halt, Exec, Reset, Fails,
                Done, Go, Throw, Results
  <2> QED
    BY <2>1, <2>2, <2>3, <2>4 DEF Parts
<1>10. OpTypes'
  BY <1>1, <1>2, <1>4, <1>9 DEF OpTypes, DeviceTypes
<1> QED
  BY <1>6, <1>7, <1>8, <1>10, TypesTogether

LEMMA DeviceKeepsTypes ==
    ASSUME TypeOK, Device
    PROVE  TypeOK'
<1>1. DeviceTypes /\ LineTypes /\ CopyTypes /\ OpTypes
  BY TypesTogether
<1>2. DeviceTypes' /\ LineTypes'
  <2>1. CASE DeviceExecutes
    <3>1. DeviceTypes'
      BY <1>1, <2>1, ProgramAssumption DEF DeviceExecutes, Executes, DeviceTypes
    <3> QED
      BY <1>1, <2>1, <3>1 DEF DeviceExecutes, LineTypes, line
  <2>2. CASE DeviceBreaks
    BY <1>1, <2>2 DEF DeviceBreaks, DeviceTypes, LineTypes, host
  <2>3. CASE Break
    BY <1>1, <2>3 DEF Break, DeviceTypes, LineTypes, host, device
  <2> QED
    BY <2>1, <2>2, <2>3 DEF Device
<1>3. UNCHANGED <<copies, table, op>>
  BY DEF Device, DeviceExecutes, DeviceBreaks, Break, host
<1>4. CopyTypes' /\ OpTypes'
  BY <1>1, <1>3 DEF CopyTypes, OpTypes, copies, table, op
<1> QED
  BY <1>2, <1>4, TypesTogether

LEMMA InitTypes == Init => TypeInv
<1> SUFFICES ASSUME Init
             PROVE  TypeInv
  OBVIOUS
<1>1. Named
  BY DEF Init, Named
<1>2. Located
  BY DEF Init, Located, Behind
<1>3. DeviceTypes /\ LineTypes /\ CopyTypes /\ OpTypes
  <2>1. DeviceTypes
    BY ProgramAssumption DEF Init, DeviceTypes
  <2>2. LineTypes
    BY DEF Init, LineTypes
  <2>3. CopyTypes
    BY DEF Init, CopyTypes
  <2>4. <<>> \in Seq(PartNames)
    BY EmptySeq
  <2>5. OpTypes
    BY <2>4 DEF Init, OpTypes, Results
  <2> QED
    BY <2>1, <2>2, <2>3, <2>5
<1> QED
  BY <1>1, <1>2, <1>3, InitInv, TypesTogether DEF TypeInv

LEMMA NextTypes == TypeInv /\ [Next]_vars => TypeInv'
<1> SUFFICES ASSUME TypeInv, [Next]_vars
             PROVE  TypeInv'
  OBVIOUS
<1>1. Inv'
  BY NextInv DEF TypeInv
<1>2. CASE Parts
  BY <1>1, <1>2, AddressesKept, LocatedKept, PartsTypes DEF TypeInv
<1>3. CASE Requests
  <2>1. /\ todo' \in Plain \cup {RunClks} \cup AtAddress \cup AtMark
        /\ todo' \in Plain \cup {RunClks} \/ arg' \in Addr
        /\ arg' \in Addr \cup {NoStop, Clks} /\ result' = "ok"
    <3>1. /\ result' = "ok"
          /\ \/ todo' \in Plain /\ arg' = NoStop
             \/ todo' = RunClks /\ arg' = Clks
             \/ todo' \in AtAddress /\ arg' \in Addr
             \/ todo' \in AtMark /\ arg' \in Marks
      BY <1>3 DEF Requests, Request
    <3> QED
      BY <3>1, ProgramAssumption
  <2>2. UNCHANGED <<device, line, copies, table, wasOn>>
    BY <1>3 DEF Requests, Request
  <2>3. Named'
    BY <2>1, OperationsName DEF Named, Lacks
  <2>4. Located'
    BY <2>1, OperationsLocate DEF Located
  <2>5. DeviceTypes' /\ LineTypes' /\ CopyTypes'
    BY <2>2, TypesTogether DEF TypeInv, DeviceTypes, LineTypes, CopyTypes, device, line, copies, table
  <2>6. OpTypes'
    BY <1>1, <2>1, <2>2, TypesTogether DEF TypeInv, Inv, Flowing, Orderly, OpTypes, Results
  <2> QED
    BY <1>1, <2>3, <2>4, <2>5, <2>6, TypesTogether DEF TypeInv
<1>4. CASE Device
  <2>1. UNCHANGED <<todo, arg, hpc>>
    BY <1>4 DEF Device, DeviceExecutes, DeviceBreaks, Break, host, copies, op
  <2>2. Named' /\ Located'
    BY <2>1 DEF TypeInv, Named, Located
  <2> QED
    BY <1>1, <1>4, <2>2, DeviceKeepsTypes DEF TypeInv
<1>5. CASE UNCHANGED vars
  <2>1. Named' /\ Located'
    BY <1>5 DEF vars, copies, op, TypeInv, Named, Located
  <2>2. DeviceTypes' /\ LineTypes' /\ CopyTypes' /\ OpTypes'
    BY <1>5, TypesTogether
       DEF vars, TypeInv, DeviceTypes, LineTypes, CopyTypes, OpTypes, device, line, copies, table, op
  <2> QED
    BY <1>1, <2>1, <2>2, TypesTogether DEF TypeInv
<1> QED
  BY <1>2, <1>3, <1>4, <1>5 DEF Next

LEMMA TypeInvariance == Spec => []TypeInv
BY InitTypes, NextTypes, PTL DEF Spec

\* The state is well formed; an address is one of the program's when it is
\* written to the program counter, the flash or the table, a return address too.
THEOREM RunTypes == Spec => []TypeOK
<1>1. TypeInv => TypeOK
  BY DEF TypeInv
<1> QED
  BY <1>1, TypeInvariance, PTL

-----------------------------------------------------------------------------
(* Interrupts, on revision 0100, when no command is lost: a step disables   *)
(* them, and must get to the part that restores them.  It does, for what    *)
(* could stop it on the way (a device that runs, read protect, an           *)
(* acknowledge in the place of an answer) has been ruled out before.        *)

Heard == up /\ (ack => brk)
Ready == mode = "debug" /\ Heard

\* A device that is known to be stopped has no acknowledge to send, and that
\* of an operation is asked for before the CPU is set running.
HeardStopped == "DBGCTL" \in cached /\ hctl = "debug" => Heard
Hearing == HeardStopped /\ (Ready \/ Checked(todo))

\* Operations that do not step, and do not poll, from here on.
Plainly(s) == Lacks(s, {"irqoff", "irqback", "poll"})

\* How far a step has come.
Ahead(s, p) == s \in Seq(PartNames) /\ s # <<>> /\ Head(s) = p
AtBack(s) == Ahead(s, "irqback") /\ Plainly(Tail(s))
AtExec(s) == Ahead(s, "exec") /\ AtBack(Tail(s))
AtRdmem(s) == Ahead(s, "rdmem") /\ AtExec(Tail(s))
AtRdmemProtected(s) == Ahead(s, "protected") /\ AtRdmem(Tail(s))
AtRdmemStopped(s) == Ahead(s, "stopped") /\ AtRdmemProtected(Tail(s))
AtOff(s) == Ahead(s, "irqoff") /\ AtExec(Tail(s))
AtReadPc(s) == Ahead(s, "readpc") /\ AtOff(Tail(s))
AtPc(s) == Ahead(s, "pc") /\ AtOff(Tail(s))
AtRevid(s) == Ahead(s, "revid") /\ AtPc(Tail(s))
AtProtected(s) == Ahead(s, "protected") /\ (AtRevid(Tail(s)) \/ AtReadPc(Tail(s)))
AtStopped(s) == Ahead(s, "stopped") /\ AtProtected(Tail(s))

Away == Plainly(todo) \/ todo = IsRunning \/ AtStopped(todo)
Before ==
    /\ Ready /\ hctl = "debug"
    /\ \/ AtProtected(todo)
       \/ ~Protected /\ (AtRevid(todo) \/ AtPc(todo) \/ AtReadPc(todo))
       \/ ~Protected /\ AtOff(todo) /\ "PC" \in cached
Within ==
    /\ Ready /\ hctl = "debug" /\ ~Protected /\ hpc = dpc /\ ~irq /\ wasOn = progirq
    /\ AtRdmemStopped(todo) \/ AtRdmemProtected(todo) \/ AtRdmem(todo) \/ AtExec(todo)
After == Ready /\ AtBack(todo) /\ progirq = (irq \/ (wasOn /\ ~SeesDi))

Stepping == ((Away \/ Before) /\ irq = progirq) \/ Within \/ After

StepInv == TypeInv /\ Hearing /\ Stepping

LEMMA PlainTail ==
    ASSUME NEW s, Plainly(s), s # <<>>
    PROVE  Plainly(Tail(s))
BY LacksTail DEF Plainly, Lacks

LEMMA PlainConcat ==
    ASSUME NEW p, NEW t, Plainly(p), Plainly(t)
    PROVE  Plainly(p \o t)
BY LacksConcat DEF Plainly, Lacks

LEMMA TailOfConcat ==
    ASSUME NEW p \in Seq(PartNames), NEW t \in Seq(PartNames), p # <<>>
    PROVE  /\ p \o t \in Seq(PartNames) /\ p \o t # <<>>
           /\ Head(p \o t) = Head(p) /\ Tail(p \o t) = Tail(p) \o t
<1> DEFINE c == p \o t
<1> DEFINE q == Tail(p)
<1> DEFINE d == q \o t
<1>1. c \in Seq(PartNames) /\ c # <<>> /\ c[1] = p[1]
  BY FirstStays, ConcatProperties
<1>2. /\ Len(p) \in Nat /\ Len(p) > 0 /\ Head(p) = p[1]
      /\ q \in Seq(PartNames) /\ Len(q) = Len(p) - 1
      /\ \A i \in 1 .. Len(q) : q[i] = p[i + 1]
  BY TailParts
<1>3. Len(t) \in Nat /\ Len(c) = Len(p) + Len(t)
  BY ConcatParts, LenProperties
<1>4. \A i \in 1 .. Len(p) + Len(t) : c[i] = IF i <= Len(p) THEN p[i] ELSE t[i - Len(p)]
  BY ConcatProperties
<1>5. /\ d \in Seq(PartNames) /\ Len(d) = Len(q) + Len(t)
      /\ \A i \in 1 .. Len(q) + Len(t) : d[i] = IF i <= Len(q) THEN q[i] ELSE t[i - Len(q)]
  BY <1>2, ConcatProperties
<1> DEFINE e == Tail(c)
<1>6. /\ Head(c) = c[1] /\ e \in Seq(PartNames) /\ Len(e) = Len(c) - 1
      /\ \A i \in 1 .. Len(e) : e[i] = c[i + 1]
  BY <1>1, TailParts
<1> HIDE DEF c, d, e, q
<1>7. Len(e) = Len(d)
  BY <1>2, <1>3, <1>5, <1>6
<1>8. ASSUME NEW i \in 1 .. Len(e)
      PROVE  e[i] = d[i]
  <2>1. i \in Nat /\ i + 1 \in 1 .. Len(p) + Len(t) /\ i \in 1 .. Len(q) + Len(t)
    BY <1>2, <1>3, <1>5, <1>6, <1>7
  <2>2. e[i] = c[i + 1] /\ c[i + 1] = IF i + 1 <= Len(p) THEN p[i + 1] ELSE t[(i + 1) - Len(p)]
    BY <1>4, <1>6, <2>1
  <2>3. d[i] = IF i <= Len(q) THEN q[i] ELSE t[i - Len(q)]
    BY <1>5, <2>1
  <2>4. CASE i <= Len(q)
    <3>1. i + 1 <= Len(p) /\ q[i] = p[i + 1]
      BY <1>2, <2>1, <2>4
    <3> QED
      BY <2>2, <2>3, <2>4, <3>1
  <2>5. CASE ~(i <= Len(q))
    <3>1. ~(i + 1 <= Len(p)) /\ (i + 1) - Len(p) = i - Len(q)
      BY <1>2, <2>1, <2>5
    <3> QED
      BY <2>2, <2>3, <2>5, <3>1
  <2> QED
    BY <2>4, <2>5
<1>9. e = d
  BY <1>5, <1>6, <1>7, <1>8, SeqEqual
<1> QED
  BY <1>1, <1>2, <1>6, <1>9 DEF c, d, e, q

LEMMA PiecesPlain ==
    ASSUME NEW p \in Pieces, p # Step
    PROVE  Plainly(p)
<1>1. /\ Plainly(<<"stopped", "protected", "readpc">>)
      /\ Plainly(<<"stopped", "protected", "rdmem">>)
  BY DEF Plainly, Lacks, PartNames
<1>2. /\ Plainly(<<"relink", "dbgctl">>) /\ Plainly(<<"relink", "forget">>) /\ Plainly(<<>>)
      /\ Plainly(<<"forget">>) /\ Plainly(<<"dbgctl">>) /\ Plainly(<<"relink">>)
  BY DEF Plainly, Lacks, PartNames
<1> QED
  BY <1>1, <1>2 DEF Pieces

\* What is left of short sequences.
LEMMA TailOfOne ==
    ASSUME NEW c \in PartNames
    PROVE  /\ <<c>> \in Seq(PartNames) /\ <<c>> # <<>> /\ Head(<<c>>) = c
           /\ Tail(<<c>>) = <<>>
<1> DEFINE s == <<c>>
<1>1. s \in Seq(PartNames) /\ s # <<>> /\ Len(s) = 1 /\ Head(s) = c
  OBVIOUS
<1> DEFINE e == Tail(s)
<1> HIDE DEF s
<1>2. e \in Seq(PartNames) /\ Len(e) = 0
  BY <1>1, HeadTailProperties
<1> HIDE DEF e
<1>3. e = <<>>
  BY <1>2, EmptySeq
<1> QED
  BY <1>1, <1>3 DEF e, s

LEMMA TailOfTwo ==
    ASSUME NEW b \in PartNames, NEW c \in PartNames
    PROVE  /\ <<b, c>> \in Seq(PartNames) /\ <<b, c>> # <<>> /\ Head(<<b, c>>) = b
           /\ Tail(<<b, c>>) = <<c>>
<1> DEFINE s == <<b, c>>
           r == <<c>>
<1>1. s \in Seq(PartNames) /\ s # <<>> /\ Len(s) = 2 /\ Head(s) = b /\ s[2] = c
  OBVIOUS
<1>2. r \in Seq(PartNames) /\ Len(r) = 1 /\ r[1] = c
  OBVIOUS
<1> DEFINE e == Tail(s)
<1> HIDE DEF s, r
<1>3. e \in Seq(PartNames) /\ Len(e) = 1 /\ \A i \in 1 .. 1 : e[i] = s[i + 1]
  <2>1. /\ e \in Seq(PartNames) /\ Len(e) = Len(s) - 1
        /\ \A i \in 1 .. Len(e) : e[i] = s[i + 1]
    BY <1>1, HeadTailProperties
  <2> HIDE DEF e
  <2> QED
    BY <1>1, <2>1
<1> HIDE DEF e
<1>4. e[1] = r[1]
  BY <1>1, <1>2, <1>3
<1>5. \A i \in 1 .. 1 : i = 1
  OBVIOUS
<1>6. e = r
  BY <1>2, <1>3, <1>4, <1>5, SeqEqual
<1> QED
  BY <1>1, <1>6 DEF e, s, r

LEMMA TailOfThree ==
    ASSUME NEW a \in PartNames, NEW b \in PartNames, NEW c \in PartNames
    PROVE  /\ <<a, b, c>> \in Seq(PartNames) /\ <<a, b, c>> # <<>> /\ Head(<<a, b, c>>) = a
           /\ Tail(<<a, b, c>>) = <<b, c>>
<1> DEFINE s == <<a, b, c>>
           r == <<b, c>>
<1>1. s \in Seq(PartNames) /\ s # <<>> /\ Len(s) = 3 /\ Head(s) = a /\ s[2] = b /\ s[3] = c
  OBVIOUS
<1>2. r \in Seq(PartNames) /\ Len(r) = 2 /\ r[1] = b /\ r[2] = c
  OBVIOUS
<1> DEFINE e == Tail(s)
<1> HIDE DEF s, r
<1>3. e \in Seq(PartNames) /\ Len(e) = 2 /\ \A i \in 1 .. 2 : e[i] = s[i + 1]
  <2>1. /\ e \in Seq(PartNames) /\ Len(e) = Len(s) - 1
        /\ \A i \in 1 .. Len(e) : e[i] = s[i + 1]
    BY <1>1, HeadTailProperties
  <2> HIDE DEF e
  <2> QED
    BY <1>1, <2>1
<1> HIDE DEF e
<1>4. e[1] = r[1] /\ e[2] = r[2]
  BY <1>1, <1>2, <1>3
<1>5. \A i \in 1 .. 2 : e[i] = r[i]
  <2>1. \A i \in 1 .. 2 : i = 1 \/ i = 2
    OBVIOUS
  <2> QED
    BY <1>4, <2>1
<1>6. e = r
  BY <1>2, <1>3, <1>5, SeqEqual
<1> QED
  BY <1>1, <1>6 DEF e, s, r

LEMMA TailOfFour ==
    ASSUME NEW a \in PartNames, NEW b \in PartNames, NEW c \in PartNames, NEW d \in PartNames
    PROVE  /\ <<a, b, c, d>> \in Seq(PartNames) /\ <<a, b, c, d>> # <<>>
           /\ Head(<<a, b, c, d>>) = a /\ Tail(<<a, b, c, d>>) = <<b, c, d>>
<1> DEFINE s == <<a, b, c, d>>
           r == <<b, c, d>>
<1>1. /\ s \in Seq(PartNames) /\ s # <<>> /\ Len(s) = 4 /\ Head(s) = a
      /\ s[2] = b /\ s[3] = c /\ s[4] = d
  OBVIOUS
<1>2. r \in Seq(PartNames) /\ Len(r) = 3 /\ r[1] = b /\ r[2] = c /\ r[3] = d
  OBVIOUS
<1> DEFINE e == Tail(s)
<1> HIDE DEF s, r
<1>3. e \in Seq(PartNames) /\ Len(e) = 3 /\ \A i \in 1 .. 3 : e[i] = s[i + 1]
  <2>1. /\ e \in Seq(PartNames) /\ Len(e) = Len(s) - 1
        /\ \A i \in 1 .. Len(e) : e[i] = s[i + 1]
    BY <1>1, HeadTailProperties
  <2> HIDE DEF e
  <2> QED
    BY <1>1, <2>1
<1> HIDE DEF e
<1>4. e[1] = r[1] /\ e[2] = r[2] /\ e[3] = r[3]
  BY <1>1, <1>2, <1>3
<1>5. \A i \in 1 .. 3 : e[i] = r[i]
  <2>1. \A i \in 1 .. 3 : i = 1 \/ i = 2 \/ i = 3
    OBVIOUS
  <2> QED
    BY <1>4, <2>1
<1>6. e = r
  BY <1>2, <1>3, <1>5, SeqEqual
<1> QED
  BY <1>1, <1>6 DEF e, s, r

\* Sequences in front of another.
LEMMA LeadOne ==
    ASSUME NEW a \in PartNames, NEW t \in Seq(PartNames)
    PROVE  Ahead(<<a>> \o t, a) /\ Tail(<<a>> \o t) = t
<1>1. /\ <<a>> \in Seq(PartNames) /\ <<a>> # <<>> /\ Head(<<a>>) = a
      /\ Tail(<<a>>) = <<>>
  BY TailOfOne
<1> QED
  BY <1>1, TailOfConcat, ConcatEmptySeq DEF Ahead

LEMMA LeadTwo ==
    ASSUME NEW b \in PartNames, NEW c \in PartNames, NEW t \in Seq(PartNames)
    PROVE  Ahead(<<b, c>> \o t, b) /\ Tail(<<b, c>> \o t) = <<c>> \o t
BY TailOfTwo, TailOfConcat DEF Ahead

LEMMA LeadThree ==
    ASSUME NEW a \in PartNames, NEW b \in PartNames, NEW c \in PartNames, NEW t \in Seq(PartNames)
    PROVE  Ahead(<<a, b, c>> \o t, a) /\ Tail(<<a, b, c>> \o t) = <<b, c>> \o t
BY TailOfThree, TailOfConcat DEF Ahead

\* A step begins.
LEMMA StepBegins ==
    ASSUME NEW t, Plainly(t)
    PROVE  IF Rev = "0100" THEN AtStopped(Step \o t) ELSE Plainly(Step \o t)
<1>1. CASE Rev # "0100"
  <2>1. Plainly(<<"stopped", "protected", "revid", "pc">>) /\ Plainly(<<"exec">>)
    BY DEF Plainly, Lacks, PartNames
  <2> QED
    BY <1>1, <2>1, PlainConcat DEF Step
<1>2. CASE Rev = "0100"
  <2> DEFINE p == <<"stopped", "protected", "revid", "pc">>
             q == <<"irqoff", "exec", "irqback">>
             u == q \o t
  <2>1. /\ "stopped" \in PartNames /\ "protected" \in PartNames /\ "revid" \in PartNames
        /\ "pc" \in PartNames /\ "irqoff" \in PartNames /\ "exec" \in PartNames
        /\ "irqback" \in PartNames
    BY DEF PartNames
  <2>2. t \in Seq(PartNames) /\ q \in Seq(PartNames) /\ p \in Seq(PartNames)
    BY <2>1, TailOfThree, TailOfFour DEF Plainly, Lacks
  <2>3. AtOff(u)
    <3>1. AtBack(<<"irqback">> \o t)
      BY <2>1, <2>2, LeadOne DEF AtBack
    <3>2. AtExec(<<"exec", "irqback">> \o t)
      <4>1. /\ Ahead(<<"exec", "irqback">> \o t, "exec")
            /\ Tail(<<"exec", "irqback">> \o t) = <<"irqback">> \o t
        BY <2>1, <2>2, LeadTwo
      <4> QED
        BY ONLY <3>1, <4>1 DEF AtExec
    <3>3. /\ Ahead(u, "irqoff")
          /\ Tail(u) = <<"exec", "irqback">> \o t
      BY <2>1, <2>2, LeadThree
    <3> QED
      BY ONLY <3>2, <3>3 DEF AtOff
  <2>4. u \in Seq(PartNames)
    BY <2>3 DEF AtOff, Ahead
  <2>5. Step \o t = p \o u
    <3>1. Step = p \o q
      BY <1>2 DEF Step
    <3> HIDE DEF p, q
    <3> QED
      BY <2>2, <3>1, ConcatAssociative
  <2> HIDE DEF u
  <2>6. AtPc(<<"pc">> \o u)
    BY <2>1, <2>3, <2>4, LeadOne DEF AtPc
  <2>7. AtRevid(<<"revid", "pc">> \o u)
    <3>1. /\ Ahead(<<"revid", "pc">> \o u, "revid")
          /\ Tail(<<"revid", "pc">> \o u) = <<"pc">> \o u
      BY <2>1, <2>4, LeadTwo
    <3> QED
      BY ONLY <2>6, <3>1 DEF AtRevid
  <2>8. AtProtected(<<"protected", "revid", "pc">> \o u)
    <3>1. /\ Ahead(<<"protected", "revid", "pc">> \o u, "protected")
          /\ Tail(<<"protected", "revid", "pc">> \o u) = <<"revid", "pc">> \o u
      BY <2>1, <2>4, LeadThree
    <3> QED
      BY ONLY <2>7, <3>1 DEF AtProtected
  <2>9. AtStopped(p \o u)
    <3>1. Tail(p) = <<"protected", "revid", "pc">> /\ Head(p) = "stopped" /\ p # <<>>
      BY <2>1, TailOfFour
    <3> HIDE DEF p
    <3>2. /\ p \o u \in Seq(PartNames) /\ p \o u # <<>>
          /\ Head(p \o u) = Head(p) /\ Tail(p \o u) = Tail(p) \o u
      BY <2>2, <2>4, <3>1, TailOfConcat
    <3>3. /\ Ahead(p \o u, "stopped")
          /\ Tail(p \o u) = <<"protected", "revid", "pc">> \o u
      BY ONLY <3>1, <3>2 DEF Ahead
    <3> QED
      BY ONLY <2>8, <3>3 DEF AtStopped
  <2> QED
    BY <1>2, <2>5, <2>9
<1> QED
  BY <1>1, <1>2

\* The program counter has to be read before the step.
LEMMA ReadsPc ==
    ASSUME NEW t, AtOff(t)
    PROVE  AtStopped(<<"stopped", "protected", "readpc">> \o t)
<1>1. /\ "stopped" \in PartNames /\ "protected" \in PartNames /\ "readpc" \in PartNames
      /\ t \in Seq(PartNames)
  BY DEF PartNames, AtOff, Ahead
<1>2. AtReadPc(<<"readpc">> \o t)
  BY <1>1, LeadOne DEF AtReadPc
<1>3. AtProtected(<<"protected", "readpc">> \o t)
  BY <1>1, <1>2, LeadTwo DEF AtProtected
<1> QED
  BY <1>1, <1>3, LeadThree DEF AtStopped

\* The instruction has to be read after interrupts are disabled.
LEMMA ReadsInstruction ==
    ASSUME NEW t, AtExec(t)
    PROVE  AtRdmemStopped(<<"stopped", "protected", "rdmem">> \o t)
<1>1. /\ "stopped" \in PartNames /\ "protected" \in PartNames /\ "rdmem" \in PartNames
      /\ t \in Seq(PartNames)
  BY DEF PartNames, AtExec, Ahead
<1>2. AtRdmem(<<"rdmem">> \o t)
  BY <1>1, LeadOne DEF AtRdmem
<1>3. AtRdmemProtected(<<"protected", "rdmem">> \o t)
  BY <1>1, <1>2, LeadTwo DEF AtRdmemProtected
<1> QED
  BY <1>1, <1>3, LeadThree DEF AtRdmemStopped

-----------------------------------------------------------------------------
(* The line, when no command is lost.                                      *)

LEMMA CommandsHeard ==
    ASSUME "link" \notin Faults, Parts, Heard, Part # "poll"
    PROVE  Heard'
<1>1. Sent => Heard'
  BY DEF Sent, Heard
<1>2. ~Lost
  BY DEF Lost, Heard
<1>3. UNCHANGED line => Heard'
  BY DEF line, Heard
<1>4. CASE \/ Other \/ Fetch \/ ReadPc \/ WritePc \/ Exec \/ IrqOff \/ IrqBack \/ Start
           \/ Arm \/ Disarm \/ EraseChip
  BY <1>1, <1>2, <1>3, <1>4
     DEF Other, Fetch, ReadPc, WritePc, Exec, IrqOff, IrqBack, Start, Arm, Disarm, EraseChip, Fails,
         line
<1>5. CASE \/ Decide \/ SetRun \/ Over \/ Entry \/ Delete \/ DropTable \/ SetTemp \/ ClearTemp
           \/ ResetLink \/ UnlessStopped \/ Forget
  BY <1>3, <1>5
     DEF Decide, SetRun, Over, Entry, Delete, DropTable, SetTemp, ClearTemp, ResetLink,
         UnlessStopped, Forget
<1>6. CASE Relink
  BY <1>6 DEF Relink, Heard
<1>7. CASE Halt \/ Reset
  BY <1>1, <1>2, <1>3, <1>7 DEF Halt, Reset, Fails, line
<1>8. ~Poll
  BY DEF Poll
<1> QED
  BY <1>4, <1>5, <1>6, <1>7, <1>8 DEF Parts

\* That the device is stopped is learnt from it.
LEMMA StopIsLearnt ==
    ASSUME Parts, Part # "go", "DBGCTL" \in cached', hctl' = "debug"
    PROVE  Heard' \/ ("DBGCTL" \in cached /\ hctl = "debug")
<1>1. Sent => Heard'
  BY DEF Sent, Heard
<1>2. CASE Fetch
  BY <1>1, <1>2 DEF Fetch
<1>3. CASE Other \/ ReadPc \/ WritePc \/ Exec \/ IrqOff \/ IrqBack \/ EraseChip
  BY <1>1, <1>3 DEF Other, ReadPc, WritePc, Exec, IrqOff, IrqBack, EraseChip, Fails
<1>4. CASE \/ Arm \/ Disarm \/ Decide \/ Over \/ Entry \/ Delete \/ DropTable
           \/ SetTemp \/ ClearTemp \/ Relink
  BY <1>4 DEF Arm, Disarm, Decide, Over, Entry, Delete, DropTable, SetTemp, ClearTemp, Relink,
              copies
<1>5. CASE SetRun \/ ResetLink \/ UnlessStopped \/ Forget \/ Reset \/ Poll
  BY <1>5 DEF SetRun, ResetLink, UnlessStopped, Forget, Reset, Poll, copies
<1>6. CASE Halt
  BY <1>1, <1>6 DEF Halt, Fails
<1>7. ~Start
  BY DEF Start
<1> QED
  BY <1>2, <1>3, <1>4, <1>5, <1>6, <1>7 DEF Parts

LEMMA PiecesDetour ==
    ASSUME NEW p \in Pieces
    PROVE  Detour(p, {})
BY Detours DEF Pieces

\* What is ahead of an operation stays behind the checks.
LEMMA StaysChecked ==
    ASSUME Flowing, Parts, Checked(todo), Part \notin Checks
    PROVE  Checked(todo')
<1>1. /\ Onward /\ todo # <<>> /\ Head(todo) = Part /\ todo \in Seq(PartNames)
      /\ Tail(todo) \in Seq(PartNames)
  BY GoesOnward, TailParts
<1>2. Checked(Tail(todo))
  BY <1>1, BehindPopped DEF Checked
<1>3. \A p \in Pieces : Checked(p \o Tail(todo))
  <2>1. ASSUME NEW p \in Pieces
        PROVE  Checked(p \o Tail(todo))
    <3>1. p \in Seq(PartNames) /\ Checked(p)
      BY PiecesDetour DEF Detour
    <3> QED
      BY <1>1, <1>2, <3>1, ConcatBehind DEF Checked
  <2> QED
    BY <2>1
<1>4. /\ Checked(<<>>) /\ Checked(Step) /\ Checked(RemoveBreakpoint \o <<"cleartemp">>)
      /\ Checked(RunTo) /\ <<"stopped", "protected", "readpc">> \in Pieces
  BY Detours, RemovesTemp, StartingOperations DEF Detour, Sound, Pieces
<1>5. Checked(<<"removetemp">>)
  BY DEF Checked, Behind, Acts
<1> QED
  BY <1>1, <1>2, <1>3, <1>4, <1>5 DEF Onward

LEMMA StaysStopped ==
    ASSUME Parts, mode = "debug", Part \notin {"go", "reset"}
    PROVE  mode' = "debug"
<1>1. ~Start /\ ~Reset
  BY DEF Start, Reset
<1>2. CASE Other \/ Fetch \/ Decide \/ SetRun \/ Over \/ ReadPc
  BY <1>2 DEF Other, Fetch, Decide, ReadPc, SetRun, Over, device
<1>3. CASE \/ Entry \/ Delete \/ DropTable \/ SetTemp \/ ClearTemp \/ Relink \/ ResetLink
           \/ UnlessStopped \/ Poll \/ Forget
  BY <1>3 DEF Entry, Delete, DropTable, SetTemp, ClearTemp, Relink, ResetLink,
         UnlessStopped, Poll, Forget, device
<1>4. CASE WritePc \/ Arm \/ Disarm \/ EraseChip \/ IrqOff \/ IrqBack \/ Exec \/ Halt
  BY <1>4 DEF WritePc, Arm, Disarm, EraseChip, IrqOff, IrqBack, Exec, Halt
<1> QED
  BY <1>1, <1>2, <1>3, <1>4 DEF Parts

\* Polling is all of an operation.
LEMMA PollsAlone ==
    ASSUME Flowing, Stepping, Part = "poll"
    PROVE  todo = IsRunning
<1>1. todo # <<>> /\ Head(todo) = "poll" /\ todo \in Seq(PartNames)
  BY PartIsHead DEF Flowing, Orderly
<1>2. ~Plainly(todo)
  <2>1. Len(todo) \in Nat /\ Len(todo) > 0 /\ Head(todo) = todo[1]
    BY <1>1, TailParts
  <2> QED
    BY <1>1, <2>1 DEF Plainly, Lacks
<1> QED
  BY <1>1, <1>2
     DEF Stepping, Away, Before, Within, After, Ahead, AtBack, AtExec, AtRdmem, AtRdmemProtected,
         AtRdmemStopped, AtOff, AtReadPc, AtPc, AtRevid, AtProtected, AtStopped

\* Neither is there anything to be checked in what follows.
LEMMA PollLeadsOn ==
    ASSUME Flowing, Stepping, Poll
    PROVE  Plainly(todo') /\ Checked(todo')
<1>1. todo = IsRunning
  BY PollsAlone DEF Poll
<1> DEFINE t == Tail(IsRunning)
<1>2. t = <<"tryread", "report">>
  <2>1. "poll" \in PartNames /\ "tryread" \in PartNames /\ "report" \in PartNames
    BY DEF PartNames
  <2> QED
    BY <2>1, TailOfThree DEF IsRunning
<1>3. Plainly(t) /\ Checked(t)
  <2>1. /\ Plainly(<<"tryread", "report">>) /\ Checked(<<"tryread", "report">>)
    BY DEF Plainly, Lacks, Checked, Behind, Acts, PartNames
  <2> QED
    BY <1>2, <2>1
<1>4. todo' \in {<<>>, t, <<"relink", "forget">> \o t, <<"forget">> \o t}
  BY <1>1 DEF Poll, Done, Go, Throw
<1> HIDE DEF t
<1>5. /\ Plainly(<<>>) /\ Plainly(<<"relink", "forget">> \o t) /\ Plainly(<<"forget">> \o t)
  <2>1. Plainly(<<>>) /\ Plainly(<<"relink", "forget">>) /\ Plainly(<<"forget">>)
    BY DEF Plainly, Lacks, PartNames
  <2> QED
    BY <1>3, <2>1, PlainConcat
<1>6. Checked(<<>>) /\ Checked(<<"relink", "forget">>) /\ Checked(<<"forget">>)
  BY Detours DEF Detour
<1>7. <<"relink", "forget">> \in Seq(PartNames) /\ <<"forget">> \in Seq(PartNames)
  BY Detours DEF Detour
<1>8. Checked(<<"relink", "forget">> \o t) /\ Checked(<<"forget">> \o t)
  BY <1>3, <1>6, <1>7, ConcatBehind DEF Checked, Plainly, Lacks
<1> QED
  BY <1>3, <1>4, <1>5, <1>6, <1>8

LEMMA PartsHear ==
    ASSUME "link" \notin Faults, Inv, Hearing, Stepping, Parts
    PROVE  Hearing'
<1>1. Flowing /\ CopiesTrue /\ Flowing'
  BY NextInv DEF Inv, Next
<1>2. Part = "go" => Ready
  <2> SUFFICES ASSUME Part = "go"
               PROVE  Ready
    OBVIOUS
  <2>1. todo # <<>> /\ Head(todo) \in Acts /\ todo \in Seq(PartNames)
    BY <1>1, PartIsHead DEF Acts, Flowing, Orderly
  <2> QED
    BY <2>1, FirstIsNotBehind DEF Hearing, Checked
<1>3. HeardStopped'
  <2> SUFFICES ASSUME "DBGCTL" \in cached', hctl' = "debug", ~Heard'
               PROVE  FALSE
    BY DEF HeardStopped
  <2>1. CASE Part = "go"
    BY <1>2, <2>1, CommandsHeard DEF Ready
  <2>2. CASE Part = "poll"
    <3>1. Poll
      BY <2>2, ActionOf
    <3>2. UNCHANGED <<cached, hctl>> /\ (UNCHANGED line \/ hctl = "run")
      BY <3>1 DEF Poll
    <3> QED
      BY <3>2 DEF Hearing, HeardStopped, Heard, line
  <2>3. CASE Part \notin {"go", "poll"}
    <3>1. Heard
      BY <2>3, StopIsLearnt DEF Hearing, HeardStopped
    <3> QED
      BY <2>3, <3>1, CommandsHeard
  <2> QED
    BY <2>1, <2>2, <2>3
<1>4. Ready' \/ Checked(todo')
  <2>1. CASE Part = "poll"
    <3>1. Poll
      BY <2>1, ActionOf
    <3> QED
      BY <1>1, <3>1, PollLeadsOn
  <2>2. CASE Part = "go"
    <3>1. Start
      BY <2>2, ActionOf
    <3>2. todo' = <<>>
      BY <1>1, <2>2, <3>1, ActsOnStopped DEF Start, Done, Go, Fails, Throw, Acts
    <3> QED
      BY <3>2, NothingLeft DEF Sound
  <2>3. CASE Part = "reset"
    <3>1. Reset
      BY <2>3, ActionOf
    <3>2. Sound(todo')
      BY <1>1, <2>3, <3>1, ResetsAlone DEF Reset, Done, Go
    <3> QED
      BY <3>2 DEF Sound
  <2>4. CASE Ready /\ Part \notin {"poll", "go", "reset"}
    BY <2>4, StaysStopped, CommandsHeard DEF Ready
  <2>5. CASE Checked(todo) /\ Part \notin Checks
    BY <1>1, <2>5, StaysChecked
  <2>6. CASE Checked(todo) /\ Part \in Checks
    <3>1. Fetch \/ Decide
      BY <2>6, ActionOf DEF Checks
    <3>2. CASE Fetch
      <4>1. todo' = todo \/ todo' = <<>>
        BY <2>6, <3>2 DEF Fetch, Go, Throw, Checks
      <4> QED
        BY <2>6, <4>1, NothingLeft DEF Sound
    <3>3. CASE Decide
      <4>1. todo' = <<>> \/ ("DBGCTL" \in cached /\ hctl = "debug")
        BY <2>6, <3>3 DEF Decide, Done, Go, Throw, Checks, Needs
      <4>2. "DBGCTL" \in cached /\ hctl = "debug" => Ready
        BY <1>1 DEF CopiesTrue, KnownStopped, Hearing, HeardStopped, Ready
      <4>3. Ready => Ready'
        BY <3>3 DEF Decide, device, line, Ready, Heard
      <4> QED
        BY <4>1, <4>2, <4>3, NothingLeft DEF Sound
    <3> QED
      BY <3>1, <3>2, <3>3
  <2> QED
    BY <2>1, <2>2, <2>3, <2>4, <2>5, <2>6 DEF Hearing
<1> QED
  BY <1>3, <1>4 DEF Hearing

-----------------------------------------------------------------------------
(* A step, part by part.                                                   *)

LEMMA BreakpointsPlain == Plainly(SetBreakpoint) /\ Plainly(RemoveBreakpoint)
<1>1. Plainly(SetBreakpoint)
  BY DEF Plainly, Lacks, PartNames, SetBreakpoint
<1>2. Plainly(RemoveBreakpoint)
  BY DEF Plainly, Lacks, PartNames, RemoveBreakpoint
<1> QED
  BY <1>1, <1>2

LEMMA StepAlone == Plainly(Step) \/ AtStopped(Step)
<1>1. Step \in Seq(PartNames)
  BY Detours DEF Detour
<1>2. Step \o <<>> = Step
  BY <1>1, ConcatEmptySeq
<1>3. Plainly(<<>>)
  BY DEF Plainly, Lacks
<1> QED
  BY <1>2, <1>3, StepBegins

LEMMA OperationsPlain ==
    ASSUME NEW s \in Plain \cup {RunClks} \cup AtAddress \cup AtMark
    PROVE  Plainly(s) \/ s = IsRunning \/ AtStopped(s)
<1> DEFINE A == {"irqoff", "irqback", "poll"}
<1>1. Lacks(SetBreakpoint, A) /\ Lacks(RemoveBreakpoint, A)
  BY BreakpointsPlain DEF Plainly
<1>2. Lacks(StepOver, A) /\ Lacks(Stop, A) /\ Lacks(ResetChip, A) /\ Lacks(WrPc, A)
      /\ Lacks(MassErase, A)
  BY DEF StepOver, Stop, ResetChip, WrPc, MassErase, Lacks, PartNames
<1>3. /\ Lacks(<<"rdrevid">>, A) /\ Lacks(<<"resetlink">>, A) /\ Lacks(<<"revid", "trace">>, A)
      /\ Lacks(<<>>, A) /\ Lacks(<<"go">>, A)
  BY DEF Lacks, PartNames
<1>4. Lacks(Run, A)
  <2>1. /\ Lacks(<<"ifstopped", "revid">>, A) /\ Lacks(<<"protected">>, A)
        /\ Lacks(<<"pc", "offbreak", "setrun">>, A)
    BY DEF Lacks, PartNames
  <2> DEFINE q == IF Rev = "later" THEN <<>> ELSE <<"protected">>
  <2>2. Lacks(q, A)
    BY <1>3, <2>1
  <2> HIDE DEF q, A
  <2>3. Lacks(<<"ifstopped", "revid">> \o q \o <<"pc", "offbreak", "setrun">> \o <<"go">>, A)
    BY <1>3, <2>1, <2>2, LacksConcat
  <2> QED
    BY <2>3 DEF Run, q
<1>5. Lacks(RunTo, A)
  <2>1. /\ Lacks(<<"stopped", "protected", "pc", "offbreak", "setrun", "revid">>, A)
        /\ Lacks(<<"notemp">>, A) /\ Lacks(<<"settemp">>, A) /\ Lacks(<<"wrcntr">>, A)
    BY DEF Lacks, PartNames
  <2> DEFINE q == IF NoComparator THEN <<"notemp">> \o SetBreakpoint \o <<"settemp">>
                                  ELSE <<"wrcntr">>
  <2> HIDE DEF A
  <2>2. Lacks(<<"notemp">> \o SetBreakpoint \o <<"settemp">>, A)
    BY <1>1, <2>1, LacksConcat
  <2>3. Lacks(q, A)
    BY <2>1, <2>2
  <2> HIDE DEF q
  <2>4. Lacks(<<"stopped", "protected", "pc", "offbreak", "setrun", "revid">> \o q \o <<"go">>, A)
    BY <1>3, <2>1, <2>3, LacksConcat
  <2> QED
    BY <2>4 DEF RunTo, q
<1>6. Lacks(RunClks, A)
  <2>1. /\ Lacks(<<"stopped", "protected", "revid">>, A) /\ Lacks(<<"unsupported">>, A)
        /\ Lacks(<<"wrcntr", "stopped", "rdcntr", "setrun">>, A)
    BY DEF Lacks, PartNames
  <2> DEFINE q == IF NoComparator THEN <<"unsupported">>
                                  ELSE <<"wrcntr", "stopped", "rdcntr", "setrun">>
  <2>2. Lacks(q, A)
    BY <2>1
  <2> HIDE DEF q, A
  <2>3. Lacks(<<"stopped", "protected", "revid">> \o q \o <<"go">>, A)
    BY <1>3, <2>1, <2>2, LacksConcat
  <2> QED
    BY <2>3 DEF RunClks, q
<1>7. Plainly(Step) \/ AtStopped(Step)
  BY StepAlone
<1> HIDE DEF A
<1>8. s \in {StepOver, Stop, ResetChip, WrPc, MassErase, Run, RunTo, RunClks,
             SetBreakpoint, RemoveBreakpoint, <<"rdrevid">>, <<"resetlink">>, <<"revid", "trace">>, Step, IsRunning}
  BY DEF Plain, AtAddress, AtMark
<1>9. Lacks(s, A) \/ s = IsRunning \/ s = Step
  BY <1>1, <1>2, <1>3, <1>4, <1>5, <1>6, <1>8
<1> QED
  BY <1>7, <1>9 DEF Plainly, A

\* What the program does to its interrupts is known.
LEMMA ExecutesBoth ==
    ASSUME Executes, irq = progirq
    PROVE  irq' = progirq'
BY DEF Executes

\* An operation that is not stepping.
LEMMA PlainGoesOn ==
    ASSUME Flowing, Parts, Plainly(todo), irq = progirq
    PROVE  Away' /\ irq' = progirq'
<1>1. /\ Onward /\ todo # <<>> /\ Head(todo) = Part /\ todo \in Seq(PartNames)
  BY GoesOnward
<1>2. Part \notin {"irqoff", "irqback", "poll"}
  <2>1. Len(todo) \in Nat /\ Len(todo) > 0 /\ Head(todo) = todo[1]
    BY <1>1, TailParts
  <2> QED
    BY <1>1, <2>1 DEF Plainly, Lacks
<1>3. Plainly(Tail(todo))
  BY <1>1, PlainTail
<1>4. Plainly(Step \o Tail(todo)) \/ AtStopped(Step \o Tail(todo))
  BY <1>3, StepBegins
<1>5. Plainly(Step) \/ AtStopped(Step)
  BY StepAlone
<1>6. Plainly(<<>>) /\ Plainly(<<"removetemp">>) /\ Plainly(<<"cleartemp">>)
  BY DEF Plainly, Lacks, PartNames
<1>7. irq' = progirq'
  <2>1. CASE Other \/ Fetch \/ Decide \/ SetRun \/ Over \/ ReadPc
    BY <2>1 DEF Other, Fetch, Decide, ReadPc, SetRun, Over, device
  <2>2. CASE \/ Entry \/ Delete \/ DropTable \/ SetTemp \/ ClearTemp \/ Relink \/ ResetLink
             \/ UnlessStopped \/ Poll \/ Forget
    BY <2>2 DEF Entry, Delete, DropTable, SetTemp, ClearTemp, Relink, ResetLink,
         UnlessStopped, Poll, Forget, device
  <2>3. CASE WritePc \/ Arm \/ Disarm \/ EraseChip \/ Halt \/ Start
    BY <2>3 DEF WritePc, Arm, Disarm, EraseChip, Halt, Start
  <2>4. CASE Exec
    BY <2>4, ExecutesBoth DEF Exec
  <2>5. CASE Reset
    BY <2>5 DEF Reset, Resets
  <2>6. ~IrqOff /\ ~IrqBack
    BY <1>2 DEF IrqOff, IrqBack
  <2> QED
    BY <2>1, <2>2, <2>3, <2>4, <2>5, <2>6 DEF Parts
<1>8. Plainly(RunTo) \/ RunTo = IsRunning \/ AtStopped(RunTo)
  BY OperationsPlain DEF AtAddress
<1>9. Plainly(RemoveBreakpoint \o <<"cleartemp">>)
  BY <1>6, BreakpointsPlain, PlainConcat
<1>10. \A p \in Pieces : Plainly(p \o Tail(todo)) \/ AtStopped(p \o Tail(todo))
  <2>1. \A p \in Pieces : p # Step => Plainly(p \o Tail(todo))
    BY <1>3, PiecesPlain, PlainConcat
  <2> QED
    BY <1>4, <2>1
<1>11. <<"stopped", "protected", "readpc">> \in Pieces
  BY DEF Pieces
<1>12. \/ Plainly(todo') \/ AtStopped(todo') \/ todo' = IsRunning
  BY <1>1, <1>3, <1>5, <1>6, <1>8, <1>9, <1>10, <1>11 DEF Onward
<1> QED
  BY <1>7, <1>12 DEF Away

\* The first part finds the device stopped.
LEMMA StepStarts ==
    ASSUME Inv, Hearing, Parts, AtStopped(todo), irq = progirq
    PROVE  Stepping'
<1>1. Part = "stopped" /\ AtProtected(Tail(todo))
  BY DEF AtStopped, Ahead, Part
<1>2. Plainly(<<>>)
  BY DEF Plainly, Lacks
<1>3. CASE Fetch
  <2>1. (todo' = todo \/ todo' = <<>>) /\ irq' = irq /\ progirq' = progirq
    BY <1>1, <1>3 DEF Fetch, Go, Throw, device
  <2> QED
    BY <1>2, <2>1 DEF Stepping, Away
<1>4. CASE Decide
  <2>1. /\ irq' = irq /\ progirq' = progirq /\ mode' = mode /\ hctl' = hctl /\ UNCHANGED line
        /\ todo' = <<>> \/ (todo' = Tail(todo) /\ "DBGCTL" \in cached /\ hctl = "debug")
    BY <1>1, <1>4 DEF Decide, Done, Go, Throw, Needs, device, copies
  <2>2. "DBGCTL" \in cached /\ hctl = "debug" => Ready
    BY DEF Inv, CopiesTrue, KnownStopped, Hearing, HeardStopped, Ready
  <2>3. Ready => Ready'
    BY <2>1 DEF Ready, Heard, line
  <2> QED
    BY <1>1, <1>2, <2>1, <2>2, <2>3 DEF Stepping, Away, Before
<1> QED
  BY <1>1, <1>3, <1>4, ActionOf

\* The line is in order: no command is lost.
LEMMA NotLost ==
    ASSUME "link" \notin Faults, Heard
    PROVE  ~Lost /\ ~Fails
BY DEF Heard, Lost, Fails

\* Up to the part that disables interrupts, which knows the program counter.
LEMMA StepGoesOn ==
    ASSUME "link" \notin Faults, Inv, Parts, Before, irq = progirq
    PROVE  Stepping'
<1>1. Ready /\ hctl = "debug" /\ Heard /\ ~Lost /\ ~Fails
  BY NotLost DEF Before, Ready
<1>2. Plainly(<<>>)
  BY DEF Plainly, Lacks
<1>3. /\ \/ AtProtected(todo) /\ Part = "protected"
         \/ ~Protected /\ AtRevid(todo) /\ Part = "revid"
         \/ ~Protected /\ AtPc(todo) /\ Part = "pc"
         \/ ~Protected /\ AtReadPc(todo) /\ Part = "readpc"
         \/ ~Protected /\ AtOff(todo) /\ "PC" \in cached /\ Part = "irqoff"
  BY DEF Before, AtProtected, AtRevid, AtPc, AtReadPc, AtOff, Ahead, Part
<1>4. Part # "poll" /\ Part \notin {"go", "reset"}
  BY <1>3
<1>5. Ready'
  BY <1>1, <1>4, CommandsHeard, StaysStopped DEF Ready
<1>6. CASE Part \in {"protected", "revid"} /\ Fetch
  <2>1. todo' = todo /\ hctl' = hctl /\ irq' = irq /\ progirq' = progirq
    BY <1>1, <1>6 DEF Fetch, Go, Needs, device
  <2>2. AtProtected(todo) \/ (~Protected /\ AtRevid(todo))
    BY <1>3, <1>6
  <2> QED
    BY <1>1, <1>5, <2>1, <2>2 DEF Stepping, Before
<1>7. CASE Part = "protected" /\ Decide
  <2>1. /\ hctl' = hctl /\ irq' = irq /\ progirq' = progirq
        /\ IF Protected THEN todo' = <<>> ELSE todo' = Tail(todo)
    BY <1>7 DEF Decide, Done, Go, Throw, device, copies
  <2>2. AtRevid(Tail(todo)) \/ AtReadPc(Tail(todo))
    BY <1>3, <1>7 DEF AtProtected
  <2> QED
    BY <1>1, <1>2, <1>5, <2>1, <2>2 DEF Stepping, Before, Away
<1>8. CASE Part = "revid" /\ Decide
  <2>1. hctl' = hctl /\ irq' = irq /\ progirq' = progirq /\ todo' = Tail(todo)
    BY <1>8 DEF Decide, Done, Go, device, copies
  <2>2. ~Protected /\ AtPc(Tail(todo))
    BY <1>3, <1>8 DEF AtRevid
  <2> QED
    BY <1>1, <1>5, <2>1, <2>2 DEF Stepping, Before
<1>9. CASE Part = "pc"
  <2>1. /\ hctl' = hctl /\ irq' = irq /\ progirq' = progirq /\ cached' = cached
        /\ \/ todo' = Tail(todo) /\ "PC" \in cached
           \/ todo' = <<"stopped", "protected", "readpc">> \o Tail(todo)
    BY <1>9, ActionOf DEF Decide, Done, Go, device, copies
  <2>2. ~Protected /\ AtOff(Tail(todo))
    BY <1>3, <1>9 DEF AtPc
  <2>3. AtStopped(<<"stopped", "protected", "readpc">> \o Tail(todo))
    BY <2>2, ReadsPc
  <2> QED
    BY <1>1, <1>5, <2>1, <2>2, <2>3 DEF Stepping, Before, Away
<1>10. CASE Part = "readpc"
  <2>1. hctl' = hctl /\ irq' = irq /\ progirq' = progirq /\ todo' = Tail(todo) /\ "PC" \in cached'
    BY <1>1, <1>10, ActionOf DEF ReadPc, Done, Go, device
  <2>2. ~Protected /\ AtOff(Tail(todo))
    BY <1>3, <1>10 DEF AtReadPc
  <2> QED
    BY <1>1, <1>5, <2>1, <2>2 DEF Stepping, Before
<1>11. CASE Part = "irqoff"
  <2>1. /\ hctl' = hctl /\ irq' = FALSE /\ progirq' = progirq /\ wasOn' = irq
        /\ hpc' = hpc /\ dpc' = dpc
        /\ \/ todo' = <<>> \o Tail(todo)
           \/ todo' = <<"stopped", "protected", "rdmem">> \o Tail(todo)
    BY <1>1, <1>11, ActionOf DEF IrqOff
  <2>2. ~Protected /\ AtExec(Tail(todo)) /\ "PC" \in cached
    BY <1>3, <1>11 DEF AtOff
  <2>3. hpc = dpc
    BY <2>2 DEF Inv, CopiesTrue, PcCoherent
  <2>4. AtRdmemStopped(<<"stopped", "protected", "rdmem">> \o Tail(todo))
    BY <2>2, ReadsInstruction
  <2>5. <<>> \o Tail(todo) = Tail(todo)
    BY <2>2, ConcatEmptySeq DEF AtExec, Ahead
  <2> QED
    BY <1>1, <1>5, <2>1, <2>2, <2>3, <2>4, <2>5 DEF Stepping, Within
<1> QED
  BY <1>3, <1>6, <1>7, <1>8, <1>9, <1>10, <1>11, ActionOf

\* The instruction is executed with interrupts disabled.
LEMMA StepExecutes ==
    ASSUME "link" \notin Faults, Inv, TypeOK, Parts, Within
    PROVE  Stepping'
<1>1. /\ Ready /\ hctl = "debug" /\ Heard /\ mode = "debug" /\ ~Lost /\ ~Fails
      /\ ~Protected /\ hpc = dpc /\ ~irq /\ wasOn = progirq
  BY NotLost DEF Within, Ready
<1>2. \/ AtRdmemStopped(todo) /\ Part = "stopped"
      \/ AtRdmemProtected(todo) /\ Part = "protected"
      \/ AtRdmem(todo) /\ Part = "rdmem"
      \/ AtExec(todo) /\ Part = "exec"
  BY DEF Within, AtRdmemStopped, AtRdmemProtected, AtRdmem, AtExec, Ahead, Part
<1>3. Part # "poll" /\ Part \notin {"go", "reset"}
  BY <1>2
<1>4. Ready'
  BY <1>1, <1>3, CommandsHeard, StaysStopped DEF Ready
<1>5. CASE Part \in {"stopped", "protected"} /\ Fetch
  <2>1. /\ todo' = todo /\ hctl' = "debug" /\ wasOn' = wasOn
        /\ UNCHANGED <<irq, progirq, hpc, dpc>>
    BY <1>1, <1>5 DEF Fetch, Go, Needs, device
  <2> QED
    BY <1>1, <1>4, <2>1 DEF Stepping, Within
<1>6. CASE Part \in {"stopped", "protected"} /\ Decide
  <2>1. todo' = Tail(todo) /\ UNCHANGED <<hctl, wasOn, irq, progirq, hpc, dpc>>
    BY <1>1, <1>6 DEF Decide, Done, Go, device, copies
  <2>2. AtRdmemProtected(todo') \/ AtRdmem(todo')
    BY <1>2, <1>6, <2>1 DEF AtRdmemStopped, AtRdmemProtected
  <2> QED
    BY <1>1, <1>4, <2>1, <2>2 DEF Stepping, Within
<1>7. CASE Part = "rdmem"
  <2>1. todo' = Tail(todo) /\ UNCHANGED <<hctl, wasOn, irq, progirq, hpc, dpc>>
    BY <1>1, <1>7, ActionOf DEF Other, Done, Go, device
  <2>2. AtExec(todo')
    BY <1>2, <1>7, <2>1 DEF AtRdmem
  <2> QED
    BY <1>1, <1>4, <2>1, <2>2 DEF Stepping, Within
<1>8. CASE Part = "exec"
  <2>1. Exec
    BY <1>8, ActionOf
  <2> DEFINE Known == IF hpc \in bps THEN hpc \notin strays ELSE dpc \notin armed
  <2>2. /\ todo' = Tail(todo) /\ wasOn' = wasOn /\ armed' = armed
        /\ UNCHANGED <<hpc, bps, strays>>
        /\ IF Known THEN Executes ELSE irq' = irq /\ progirq' = progirq
    BY <1>1, <2>1 DEF Exec, Executes, Done, Go, table
  <2>3. SeesDi' <=> Kind[dpc] = "di" /\ Known
    BY <1>1, <2>2 DEF SeesDi
  <2>4. AtBack(todo')
    BY <1>2, <1>8, <2>2 DEF AtExec
  <2> HIDE DEF Known
  <2>5. progirq' = (irq' \/ (wasOn' /\ ~SeesDi'))
    <3>1. irq = FALSE /\ irq \in BOOLEAN /\ progirq \in BOOLEAN
      BY <1>1, TypesTogether DEF DeviceTypes
    <3>2. CASE Kind[dpc] = "di" /\ Known
      BY <1>1, <2>2, <2>3, <3>2 DEF Executes
    <3>3. CASE Kind[dpc] = "ei" /\ Known
      BY <1>1, <2>2, <2>3, <3>3 DEF Executes
    <3>4. CASE ~Known \/ Kind[dpc] \notin {"di", "ei"}
      <4>1. irq' = irq /\ progirq' = progirq /\ ~SeesDi'
        BY <2>2, <2>3, <3>4 DEF Executes
      <4> QED
        BY <1>1, <2>2, <3>1, <4>1
    <3> QED
      BY <3>2, <3>3, <3>4
  <2> QED
    BY <1>4, <2>4, <2>5 DEF Stepping, After
<1> QED
  BY <1>2, <1>5, <1>6, <1>7, <1>8, ActionOf

\* They are enabled again if they were and the instruction was not DI.
LEMMA StepEnds ==
    ASSUME "link" \notin Faults, TypeOK, Parts, After
    PROVE  Stepping'
<1>1. ~Lost /\ ~Fails
  BY NotLost DEF After, Ready
<1>2. Part = "irqback" /\ Plainly(Tail(todo))
  BY DEF After, AtBack, Ahead, Part
<1>3. irq \in BOOLEAN /\ progirq \in BOOLEAN
  BY TypesTogether DEF DeviceTypes
<1>4. /\ todo' = Tail(todo) /\ progirq' = progirq
      /\ \/ wasOn /\ ~SeesDi /\ irq' = TRUE
         \/ ~(wasOn /\ ~SeesDi) /\ irq' = irq
  BY <1>1, <1>2, ActionOf DEF IrqBack, Done, Go
<1>5. irq' = progirq'
  BY <1>3, <1>4 DEF After
<1> QED
  BY <1>2, <1>4, <1>5 DEF Stepping, Away

LEMMA PartsStep ==
    ASSUME "link" \notin Faults, StepInv, Parts
    PROVE  Stepping'
<1>1. Flowing /\ Inv /\ TypeOK /\ Hearing /\ Stepping
  BY DEF StepInv, TypeInv, Inv
<1>2. CASE Plainly(todo) /\ irq = progirq
  BY <1>1, <1>2, PlainGoesOn DEF Stepping
<1>3. CASE todo = IsRunning /\ irq = progirq
  <2>1. Poll
    <3>1. Part = "poll"
      BY <1>3 DEF Part, IsRunning
    <3> QED
      BY <3>1, ActionOf
  <2>2. Plainly(todo') /\ irq' = irq /\ progirq' = progirq
    BY <1>1, <2>1, PollLeadsOn DEF Poll, device
  <2> QED
    BY <1>3, <2>2 DEF Stepping, Away
<1>4. CASE AtStopped(todo) /\ irq = progirq
  BY <1>1, <1>4, StepStarts
<1>5. CASE Before /\ irq = progirq
  BY <1>1, <1>5, StepGoesOn
<1>6. CASE Within
  BY <1>1, <1>6, StepExecutes
<1>7. CASE After
  BY <1>1, <1>7, StepEnds
<1> QED
  BY <1>1, <1>2, <1>3, <1>4, <1>5, <1>6, <1>7 DEF Stepping, Away

\* An operation is over when there is no part to do.
LEMMA OverMeansAway ==
    ASSUME Stepping, todo = <<>>
    PROVE  irq = progirq
BY DEF Stepping, Before, Within, After, AtBack, AtExec, AtRdmem, AtRdmemProtected,
       AtRdmemStopped, AtOff, AtReadPc, AtPc, AtRevid, AtProtected, Ahead

LEMMA NextSteps ==
    ASSUME "link" \notin Faults, StepInv, [Next]_vars
    PROVE  StepInv'
<1>1. TypeInv /\ TypeInv' /\ Inv /\ Hearing /\ Stepping
  BY NextTypes DEF StepInv, TypeInv
<1>2. CASE Parts
  BY <1>1, <1>2, PartsHear, PartsStep DEF StepInv
<1>3. CASE Requests
  <2>1. /\ todo = <<>> /\ todo' \in Plain \cup {RunClks} \cup AtAddress \cup AtMark
        /\ UNCHANGED <<device, line, copies>>
    BY <1>3 DEF Requests, Request
  <2>2. Stepping'
    BY <1>1, <2>1, OverMeansAway, OperationsPlain DEF Stepping, Away, device
  <2>3. Checked(todo')
    BY <2>1, Operations DEF Sound
  <2>4. Hearing'
    BY <1>1, <2>1, <2>3 DEF Hearing, HeardStopped, Heard, line, copies
  <2> QED
    BY <1>1, <2>2, <2>4 DEF StepInv
<1>4. CASE Device
  <2>1. UNCHANGED <<up, todo, cached, hctl, hpc, wasOn>>
    BY <1>4 DEF Device, DeviceExecutes, DeviceBreaks, Break, host, copies, line, op
  <2>2. CASE Ready
    <3>1. Break
      BY <1>4, <2>2 DEF Device, DeviceExecutes, DeviceBreaks, Ready
    <3>2. UNCHANGED <<mode, dpc, irq, progirq>> /\ Heard'
      BY <2>2, <3>1 DEF Break, Ready, Heard, device, host
    <3>3. SeesDi' <=> SeesDi
      BY <2>1, <3>1 DEF Break, device, host, table, SeesDi
    <3>4. Ready'
      BY <2>2, <3>2 DEF Ready
    <3>5. Stepping'
      BY <1>1, <2>1, <3>2, <3>3, <3>4 DEF Stepping, Away, Before, Within, After
    <3> QED
      BY <1>1, <3>2, <3>4, <3>5 DEF StepInv, Hearing, HeardStopped
  <2>3. CASE ~Ready
    <3>1. Away /\ irq = progirq
      BY <1>1, <2>3 DEF Stepping, Before, Within, After
    <3>2. irq' = progirq'
      BY <1>4, <3>1, ExecutesBoth
         DEF Device, DeviceExecutes, DeviceBreaks, Break, device
    <3>3. Stepping'
      BY <2>1, <3>1, <3>2 DEF Stepping, Away
    <3>4. Checked(todo')
      BY <1>1, <2>1, <2>3 DEF Hearing
    <3>5. HeardStopped'
      <4> SUFFICES ASSUME "DBGCTL" \in cached, hctl = "debug"
                   PROVE  Heard'
        BY <2>1 DEF HeardStopped
      <4>1. mode = "debug" /\ Heard
        BY <1>1 DEF Inv, CopiesTrue, KnownStopped, Hearing, HeardStopped
      <4> QED
        BY <2>3, <4>1 DEF Ready
    <3> QED
      BY <1>1, <3>3, <3>4, <3>5 DEF StepInv, Hearing
  <2> QED
    BY <2>2, <2>3
<1>5. CASE UNCHANGED vars
  BY <1>1, <1>5
     DEF StepInv, vars, device, line, copies, table, op, Hearing, HeardStopped, Ready, Heard,
         Stepping, Away, Before, Within, After, SeesDi
<1> QED
  BY <1>2, <1>3, <1>4, <1>5 DEF Next

LEMMA StepInvariance ==
    ASSUME "link" \notin Faults
    PROVE  Spec => []StepInv
<1>1. Init => StepInv
  <2> SUFFICES ASSUME Init
               PROVE  StepInv
    OBVIOUS
  <2>1. Plainly(<<>>) /\ Checked(<<>>)
    BY NothingLeft DEF Plainly, Lacks, Sound
  <2>2. todo = <<>> /\ irq = progirq /\ "DBGCTL" \notin cached
    BY DEF Init
  <2> QED
    BY <2>1, <2>2, InitTypes DEF StepInv, Hearing, HeardStopped, Stepping, Away
<1>2. StepInv /\ [Next]_vars => StepInv'
  BY NextSteps
<1> QED
  BY <1>1, <1>2, PTL DEF Spec

\* After any operation the interrupts are as the program left them: a step on
\* revision 0100 that has disabled them is never given up before it restores
\* them, whatever serial breaks come and wherever the device stops, as long as
\* no command fails by itself.
THEOREM InterruptsStay ==
    ASSUME "link" \notin Faults
    PROVE  Spec => []InterruptsKept
<1>1. StepInv => InterruptsKept
  BY OverMeansAway DEF StepInv, InterruptsKept
<1> QED
  BY <1>1, StepInvariance, PTL
=============================================================================
