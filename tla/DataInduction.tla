--------------------------- MODULE DataInduction ----------------------------
(***************************************************************************)
(* Induction over numbers and what it gives about data of every size: that  *)
(* positions have a first and a last, what FlattenSeq of SequencesExt       *)
(* computes, and beginnings of sequences.                                   *)
(***************************************************************************)
EXTENDS Integers, SequencesExt, SequenceTheorems, WellFoundedInduction, TLAPS

-----------------------------------------------------------------------------
(* Induction.  The provers cannot instantiate the library's induction       *)
(* theorems, but they can use that a set of numbers has a least element.    *)

LEMMA Ordered == IsWellFoundedOn({p \in Nat \X Nat : p[1] < p[2]}, Nat)
  <1> DEFINE R == {p \in Nat \X Nat : p[1] < p[2]}
  <1>1. IsWellFoundedOn(OpToRel(<, Nat), Nat)
    BY NatLessThanWellFounded
  <1>2. R \cap (Nat \X Nat) \subseteq OpToRel(<, Nat)
    BY DEF OpToRel
  <1>3. IsWellFoundedOn(R, Nat)
    BY ONLY <1>1, <1>2, IsWellFoundedOnSubrelation
  <1> QED
    BY <1>3

LEMMA Induction ==
    ASSUME NEW T, 0 \in T, \A n \in Nat : n \in T => n + 1 \in T
    PROVE  \A n \in Nat : n \in T
  <1> DEFINE R == {p \in Nat \X Nat : p[1] < p[2]}
  <1> DEFINE U == {n \in Nat : n \notin T}
  <1> SUFFICES ASSUME U # {}
               PROVE  FALSE
    OBVIOUS
  <1>1. IsWellFoundedOn(R, Nat)
    BY Ordered
  <1>2. U \subseteq Nat
    OBVIOUS
  <1> HIDE DEF U, R
  <1>3. PICK x \in U : \A y \in U : <<y, x>> \notin R
    BY <1>1, <1>2, WFMin
  <1>4. x \in Nat /\ x \notin T
    BY DEF U
  <1>5. x - 1 \in Nat /\ (x - 1) + 1 = x
    BY <1>4
  <1>6. x - 1 \in U
    BY <1>4, <1>5 DEF U
  <1>7. <<x - 1, x>> \in R
    BY <1>4, <1>5 DEF R
  <1> QED
    BY <1>3, <1>6, <1>7

-----------------------------------------------------------------------------
(* FlattenSeq.                                                             *)

\* f[i] is the first i sequences of s, one after the other.
Flat(f, s, n) == f = [i \in 1 .. n |-> IF i = 1 THEN s[i] ELSE f[i - 1] \o s[i]]

LEMMA FlatStep ==
    ASSUME NEW s, NEW n \in Nat, NEW f, Flat(f, s, n)
    PROVE  \E g : Flat(g, s, n + 1)
  <1> DEFINE e(i) == IF i <= n THEN f[i] ELSE IF i = 1 THEN s[i] ELSE f[n] \o s[i]
  <1> DEFINE g == [i \in 1 .. n + 1 |-> e(i)]
  <1>1. DOMAIN g = 1 .. n + 1
    OBVIOUS
  <1>2. \A i \in 1 .. n : f[i] = IF i = 1 THEN s[i] ELSE f[i - 1] \o s[i]
    BY DEF Flat
  <1>3. ASSUME NEW i \in 1 .. n + 1
        PROVE  g[i] = IF i = 1 THEN s[i] ELSE g[i - 1] \o s[i]
    <2>1. CASE i = 1
      <3>1. e(i) = s[i]
        BY <1>2, <2>1
      <3> QED
        BY <2>1, <3>1
    <2>2. CASE i > 1 /\ i <= n
      <3>1. i - 1 \in 1 .. n + 1 /\ i - 1 <= n /\ i # 1 /\ i \in 1 .. n
        BY <2>2
      <3>2. g[i - 1] = f[i - 1] /\ g[i] = f[i]
        BY <3>1
      <3> QED
        BY <1>2, <3>1, <3>2
    <2>3. CASE i > 1 /\ i = n + 1
      <3>1. i - 1 \in 1 .. n + 1 /\ i - 1 <= n /\ i # 1 /\ ~(i <= n) /\ i - 1 = n
        BY <2>3
      <3>2. g[i - 1] = f[n] /\ g[i] = f[n] \o s[i]
        BY <3>1
      <3> QED
        BY <3>1, <3>2
    <2> QED
      BY <2>1, <2>2, <2>3
  <1> HIDE DEF g
  <1>4. g = [i \in 1 .. n + 1 |-> g[i]]
    BY DEF g
  <1>5. Flat(g, s, n + 1)
    BY <1>3, <1>4 DEF Flat
  <1> QED
    BY <1>5

LEMMA FlatExists ==
    ASSUME NEW s, NEW n \in Nat
    PROVE  \E f : Flat(f, s, n)
  <1> DEFINE T == {k \in Nat : \E f : Flat(f, s, k)}
  <1>1. 0 \in T
    <2>1. Flat([i \in 1 .. 0 |-> s[i]], s, 0)
      BY DEF Flat
    <2> QED
      BY <2>1
  <1>2. \A k \in Nat : k \in T => k + 1 \in T
    BY FlatStep
  <1> HIDE DEF T
  <1>3. n \in T
    BY <1>1, <1>2, Induction
  <1> QED
    BY <1>3 DEF T

LEMMA FlatIs ==
    ASSUME NEW s, Len(s) \in Nat, Len(s) # 0
    PROVE  \E f : Flat(f, s, Len(s)) /\ FlattenSeq(s) = f[Len(s)]
  <1> DEFINE f == CHOOSE g : Flat(g, s, Len(s))
  <1>1. Flat(f, s, Len(s))
    BY FlatExists
  <1>2. FlattenSeq(s) = f[Len(s)]
    BY DEF FlattenSeq, Flat
  <1> HIDE DEF f
  <1> QED
    BY <1>1, <1>2

LEMMA FlatAt ==
    ASSUME NEW s, NEW n \in Nat, NEW f, Flat(f, s, n)
    PROVE  \A i \in 1 .. n : f[i] = IF i = 1 THEN s[i] ELSE f[i - 1] \o s[i]
  BY DEF Flat

\* Only what is flattened matters.
LEMMA FlatAgree ==
    ASSUME NEW s, NEW t, NEW k \in Nat, NEW m \in Nat, k <= m,
           \A i \in 1 .. k : s[i] = t[i],
           NEW f, NEW g, Flat(f, s, k), Flat(g, t, m)
    PROVE  \A i \in 1 .. k : f[i] = g[i]
  <1> DEFINE T == {i \in Nat : i \in 1 .. k => f[i] = g[i]}
  <1>5. /\ \A i \in 1 .. k : f[i] = IF i = 1 THEN s[i] ELSE f[i - 1] \o s[i]
        /\ \A i \in 1 .. m : g[i] = IF i = 1 THEN t[i] ELSE g[i - 1] \o t[i]
    BY FlatAt
  <1>1. \A i \in 1 .. k : /\ f[i] = IF i = 1 THEN s[i] ELSE f[i - 1] \o s[i]
                         /\ g[i] = IF i = 1 THEN t[i] ELSE g[i - 1] \o t[i]
    BY <1>5
  <1>2. 0 \in T
    OBVIOUS
  <1>3. ASSUME NEW i \in Nat, i \in T
        PROVE  i + 1 \in T
    <2> SUFFICES ASSUME i + 1 \in 1 .. k
                 PROVE  f[i + 1] = g[i + 1]
      OBVIOUS
    <2>1. CASE i = 0
      <3>1. i + 1 = 1 /\ 1 \in 1 .. k
        BY <2>1
      <3>2. f[1] = s[1] /\ g[1] = t[1]
        BY <1>1, <3>1
      <3>3. s[1] = t[1]
        BY <3>1
      <3> QED
        BY <3>1, <3>2, <3>3
    <2>2. CASE i > 0
      <3>1. i \in 1 .. k /\ i + 1 # 1 /\ (i + 1) - 1 = i
        BY <2>2
      <3>2. f[i] = g[i]
        BY <1>3, <3>1
      <3>3. f[i + 1] = f[i] \o s[i + 1] /\ g[i + 1] = g[i] \o t[i + 1]
        BY <1>1, <3>1
      <3> QED
        BY <3>2, <3>3
    <2> QED
      BY <2>1, <2>2
  <1> HIDE DEF T
  <1>4. \A i \in Nat : i \in T
    BY <1>2, <1>3, Induction
  <1> QED
    BY <1>4 DEF T

LEMMA FlatTypes ==
    ASSUME NEW S, NEW s \in Seq(Seq(S)), NEW n \in Nat, n <= Len(s), NEW f, Flat(f, s, n)
    PROVE  \A i \in 1 .. n : f[i] \in Seq(S)
  <1> DEFINE T == {i \in Nat : i \in 1 .. n => f[i] \in Seq(S)}
  <1>1. \A i \in 1 .. n : f[i] = IF i = 1 THEN s[i] ELSE f[i - 1] \o s[i]
    BY DEF Flat
  <1>2. \A i \in 1 .. n : s[i] \in Seq(S)
    BY LenProperties, ElementOfSeq
  <1>3. ASSUME NEW i \in Nat, i \in T
        PROVE  i + 1 \in T
    <2> SUFFICES ASSUME i + 1 \in 1 .. n
                 PROVE  f[i + 1] \in Seq(S)
      OBVIOUS
    <2>1. CASE i = 0
      BY <1>1, <1>2, <2>1
    <2>2. CASE i > 0
      <3>1. i \in 1 .. n /\ i + 1 # 1 /\ (i + 1) - 1 = i
        BY <2>2
      <3>2. f[i] \in Seq(S) /\ s[i + 1] \in Seq(S)
        BY <1>2, <1>3, <3>1
      <3>3. f[i + 1] = f[i] \o s[i + 1]
        BY <1>1, <3>1
      <3> QED
        BY <3>2, <3>3, ConcatProperties
    <2> QED
      BY <2>1, <2>2
  <1>4. 0 \in T
    OBVIOUS
  <1> HIDE DEF T
  <1>5. \A i \in Nat : i \in T
    BY <1>3, <1>4, Induction
  <1> QED
    BY <1>5 DEF T

LEMMA FlattenSeqType ==
    ASSUME NEW S, NEW s \in Seq(Seq(S))
    PROVE  FlattenSeq(s) \in Seq(S)
  <1>1. Len(s) \in Nat
    BY LenProperties
  <1>2. CASE Len(s) = 0
    <2>1. s = <<>>
      BY <1>2, EmptySeq
    <2> QED
      BY <1>2, <2>1, EmptySeq DEF FlattenSeq
  <1>3. CASE Len(s) # 0
    <2>1. PICK f : Flat(f, s, Len(s)) /\ FlattenSeq(s) = f[Len(s)]
      BY <1>1, <1>3, FlatIs
    <2>2. Len(s) \in 1 .. Len(s)
      BY <1>1, <1>3
    <2> QED
      BY <1>1, <2>1, <2>2, FlatTypes
  <1> QED
    BY <1>2, <1>3

LEMMA FlattenOneMore ==
    ASSUME NEW s, NEW t, NEW k \in Nat, k = Len(s), k # 0, Len(t) = k + 1,
           \A i \in 1 .. k : s[i] = t[i]
    PROVE  FlattenSeq(t) = FlattenSeq(s) \o t[k + 1]
  <1>1. PICK g : Flat(g, t, k + 1) /\ FlattenSeq(t) = g[k + 1]
    <2>1. Len(t) \in Nat /\ Len(t) # 0
      OBVIOUS
    <2> QED
      BY <2>1, FlatIs
  <1>2. PICK f : Flat(f, s, k) /\ FlattenSeq(s) = f[k]
    BY FlatIs
  <1>3. \A i \in 1 .. k : f[i] = g[i]
    <2>1. PICK m \in Nat : m = k + 1
      OBVIOUS
    <2>2. k <= m /\ Flat(f, s, k) /\ Flat(g, t, m)
      BY <1>1, <1>2, <2>1
    <2> QED
      BY ONLY k \in Nat, m \in Nat, <2>2, \A i \in 1 .. k : s[i] = t[i], FlatAgree
  <1>4. k \in 1 .. k /\ k + 1 \in 1 .. k + 1 /\ k + 1 # 1 /\ (k + 1) - 1 = k
    OBVIOUS
  <1>5. g[k + 1] = g[k] \o t[k + 1]
    <2>1. k + 1 \in Nat
      OBVIOUS
    <2>2. \A i \in 1 .. k + 1 : g[i] = IF i = 1 THEN t[i] ELSE g[i - 1] \o t[i]
      BY <1>1, <2>1, FlatAt
    <2> QED
      BY <1>4, <2>2
  <1> QED
    BY <1>1, <1>2, <1>3, <1>4, <1>5

LEMMA FlattenSeqAppend ==
    ASSUME NEW S, NEW s \in Seq(Seq(S)), NEW e \in Seq(S)
    PROVE  FlattenSeq(Append(s, e)) = FlattenSeq(s) \o e
  <1> DEFINE t == Append(s, e)
  <1>1. /\ Len(s) \in Nat /\ Len(t) = Len(s) + 1
        /\ \A i \in 1 .. Len(s) : s[i] = t[i]
        /\ t[Len(s) + 1] = e
    BY LenProperties, AppendProperties
  <1>2. CASE Len(s) = 0
    <2>1. s = <<>> /\ FlattenSeq(s) = <<>>
      <3>1. s = <<>>
        BY <1>2, EmptySeq
      <3> QED
        BY <1>2, <3>1 DEF FlattenSeq
    <2>2. Len(t) \in Nat /\ Len(t) # 0 /\ Len(t) = 1 /\ 1 \in 1 .. 1 /\ t[1] = e
      BY <1>1, <1>2
    <2> HIDE DEF t
    <2>3. PICK g : Flat(g, t, 1) /\ FlattenSeq(t) = g[1]
      BY <2>2, FlatIs
    <2>4. g[1] = e
      BY <2>2, <2>3, FlatAt
    <2>5. FlattenSeq(t) = FlattenSeq(s) \o e
      BY <2>1, <2>3, <2>4, ConcatEmptySeq
    <2> QED
      BY <2>5 DEF t
  <1>3. CASE Len(s) # 0
    <2> HIDE DEF t
    <2>1. FlattenSeq(t) = FlattenSeq(s) \o t[Len(s) + 1]
      BY <1>1, <1>3, FlattenOneMore
    <2>2. FlattenSeq(t) = FlattenSeq(s) \o e
      BY <1>1, <2>1
    <2> QED
      BY <2>2 DEF t
  <1> QED
    BY <1>2, <1>3

-----------------------------------------------------------------------------
(* The first and the last of some positions.                               *)

LEMMA GreatestExists ==
    ASSUME NEW n \in Nat, NEW I \in SUBSET (1 .. n), I # {}
    PROVE  \E x \in I : \A y \in I : x >= y
  <1> DEFINE T == {k \in Nat : \A J \in SUBSET (1 .. k) : J # {} => \E x \in J : \A y \in J : x >= y}
  <1>1. 0 \in T
    <2>1. 1 .. 0 = {}
      OBVIOUS
    <2> QED
      BY <2>1
  <1>2. ASSUME NEW k \in Nat, k \in T
        PROVE  k + 1 \in T
    <2> SUFFICES ASSUME NEW J \in SUBSET (1 .. k + 1), J # {}
                 PROVE  \E x \in J : \A y \in J : x >= y
      OBVIOUS
    <2>1. CASE k + 1 \in J
      <3>1. \A y \in J : k + 1 >= y
        OBVIOUS
      <3> QED
        BY <2>1, <3>1
    <2>2. CASE k + 1 \notin J
      <3>1. J \in SUBSET (1 .. k)
        BY <2>2
      <3> QED
        BY <1>2, <3>1
    <2> QED
      BY <2>1, <2>2
  <1> HIDE DEF T
  <1>3. n \in T
    BY <1>1, <1>2, Induction
  <1> QED
    BY <1>3 DEF T

LEMMA LeastExists ==
    ASSUME NEW n \in Nat, NEW I \in SUBSET (1 .. n), I # {}
    PROVE  \E x \in I : \A y \in I : x <= y
  <1> DEFINE J == {n + 1 - x : x \in I}
  <1>1. J \in SUBSET (1 .. n) /\ J # {}
    <2>1. \A x \in I : n + 1 - x \in 1 .. n
      OBVIOUS
    <2>2. PICK x \in I : TRUE
      OBVIOUS
    <2>3. n + 1 - x \in J
      BY <2>2
    <2> QED
      BY <2>1, <2>3
  <1>2. \A x \in I : n + 1 - x \in J
    OBVIOUS
  <1>3. \A z \in J : \E x \in I : z = n + 1 - x
    OBVIOUS
  <1> HIDE DEF J
  <1>4. PICK z \in J : \A y \in J : z >= y
    BY <1>1, GreatestExists
  <1>5. PICK x \in I : z = n + 1 - x
    BY <1>3
  <1>6. ASSUME NEW y \in I
        PROVE  x <= y
    BY <1>2, <1>4, <1>5
  <1> QED
    BY <1>6

-----------------------------------------------------------------------------
(* Parts of sequences.                                                     *)

LEMMA Cut ==
    ASSUME NEW S, NEW s \in Seq(S), NEW a \in 1 .. Len(s) + 1, NEW b \in a - 1 .. Len(s)
    PROVE  SubSeq(s, a, b) \in Seq(S) /\ Len(SubSeq(s, a, b)) = b - a + 1
           /\ \A i \in 1 .. b - a + 1 : SubSeq(s, a, b)[i] = s[a + i - 1]
  <1>1. Len(s) \in Nat
    BY LenProperties
  <1>2. \A i \in a .. b : s[i] \in S
    BY <1>1, ElementOfSeq
  <1>3. a \in Int /\ b \in Int
    BY <1>1
  <1> QED
    BY <1>1, <1>2, <1>3, SubSeqProperties

LEMMA CutInTwo ==
    ASSUME NEW S, NEW s \in Seq(S), NEW k \in 0 .. Len(s)
    PROVE  /\ SubSeq(s, 1, k) \in Seq(S) /\ Len(SubSeq(s, 1, k)) = k
           /\ SubSeq(s, k + 1, Len(s)) \in Seq(S) /\ Len(SubSeq(s, k + 1, Len(s))) = Len(s) - k
           /\ SubSeq(s, 1, k) \o SubSeq(s, k + 1, Len(s)) = s
           /\ \A i \in 1 .. k : SubSeq(s, 1, k)[i] = s[i]
  <1>1. Len(s) \in Nat
    BY LenProperties
  <1>2. 1 \in 1 .. Len(s) + 1 /\ k \in 1 - 1 .. Len(s) /\ k + 1 \in 1 .. Len(s) + 1
        /\ Len(s) \in (k + 1) - 1 .. Len(s) /\ Len(s) \in k .. Len(s)
    BY <1>1
  <1>3. SubSeq(s, 1, k) \in Seq(S) /\ Len(SubSeq(s, 1, k)) = k - 1 + 1
        /\ \A i \in 1 .. k - 1 + 1 : SubSeq(s, 1, k)[i] = s[1 + i - 1]
    BY <1>2, Cut
  <1>7. k \in Nat /\ k - 1 + 1 = k
    BY <1>1
  <1>8. \A i \in 1 .. k : SubSeq(s, 1, k)[i] = s[i]
    <2> SUFFICES ASSUME NEW i \in 1 .. k
                 PROVE  SubSeq(s, 1, k)[i] = s[i]
      OBVIOUS
    <2>1. i \in 1 .. k - 1 + 1 /\ 1 + i - 1 = i
      BY <1>7
    <2> QED
      BY <1>3, <2>1
  <1>4. SubSeq(s, k + 1, Len(s)) \in Seq(S) /\ Len(SubSeq(s, k + 1, Len(s))) = Len(s) - (k + 1) + 1
    BY <1>2, Cut
  <1>5. SubSeq(s, 1, k) \o SubSeq(s, k + 1, Len(s)) = SubSeq(s, 1, Len(s))
    BY <1>2, ConcatAdjacentSubSeq
  <1>6. SubSeq(s, 1, Len(s)) = s
    BY SubSeqFull
  <1>9. Len(SubSeq(s, k + 1, Len(s))) = Len(s) - k /\ Len(SubSeq(s, 1, k)) = k
    BY <1>1, <1>3, <1>4, <1>7
  <1>10. SubSeq(s, 1, k) \o SubSeq(s, k + 1, Len(s)) = s
    BY <1>5, <1>6
  <1> QED
    BY <1>3, <1>4, <1>8, <1>9, <1>10

LEMMA PrefixIs ==
    ASSUME NEW S, NEW p \in Seq(S), NEW f \in Seq(S)
    PROVE  IsPrefix(p, f) <=> Len(p) <= Len(f) /\ \A i \in 1 .. Len(p) : p[i] = f[i]
  <1>1. Len(p) \in Nat /\ Len(f) \in Nat
    BY LenProperties
  <1>2. SubSeq(p, 1, Len(p)) = p
    BY SubSeqFull
  <1>3. CASE Len(p) <= Len(f)
    <2>1. Len(p) \in 0 .. Len(f)
      BY <1>1, <1>3
    <2>2. /\ SubSeq(f, 1, Len(p)) \in Seq(S) /\ Len(SubSeq(f, 1, Len(p))) = Len(p)
          /\ \A i \in 1 .. Len(p) : SubSeq(f, 1, Len(p))[i] = f[i]
      BY <2>1, CutInTwo
    <2>3. p = SubSeq(f, 1, Len(p)) <=> \A i \in 1 .. Len(p) : p[i] = f[i]
      <3>1. ASSUME p = SubSeq(f, 1, Len(p))
            PROVE  \A i \in 1 .. Len(p) : p[i] = f[i]
        BY <2>2, <3>1
      <3>2. ASSUME \A i \in 1 .. Len(p) : p[i] = f[i]
            PROVE  p = SubSeq(f, 1, Len(p))
        <4>1. \A i \in 1 .. Len(p) : p[i] = SubSeq(f, 1, Len(p))[i]
          BY <2>2, <3>2
        <4> QED
          BY <2>2, <4>1, SeqEqual
      <3> QED
        BY <3>1, <3>2
    <2> QED
      BY <1>2, <1>3, <2>3 DEF IsPrefix
  <1>4. CASE ~(Len(p) <= Len(f))
    BY <1>4 DEF IsPrefix
  <1> QED
    BY <1>3, <1>4

\* A beginning stays one of what is longer, and its own beginning is one.
LEMMA PrefixLonger ==
    ASSUME NEW S, NEW p \in Seq(S), NEW f \in Seq(S), NEW m \in Seq(S), IsPrefix(p, f)
    PROVE  IsPrefix(p, f \o m)
  <1>1. Len(p) \in Nat /\ Len(f) \in Nat /\ Len(m) \in Nat
        /\ f \o m \in Seq(S) /\ Len(f \o m) = Len(f) + Len(m)
        /\ \A i \in 1 .. Len(f) + Len(m) : (f \o m)[i] = IF i <= Len(f) THEN f[i] ELSE m[i - Len(f)]
    BY LenProperties, ConcatProperties
  <1>2. Len(p) <= Len(f) /\ \A i \in 1 .. Len(p) : p[i] = f[i]
    BY PrefixIs
  <1>3. ASSUME NEW i \in 1 .. Len(p)
        PROVE  (f \o m)[i] = p[i]
    <2>1. i \in 1 .. Len(f) + Len(m) /\ i <= Len(f)
      BY <1>1, <1>2
    <2> QED
      BY <1>1, <1>2, <2>1
  <1>4. Len(p) <= Len(f \o m)
    BY <1>1, <1>2
  <1> QED
    BY <1>1, <1>3, <1>4, PrefixIs

LEMMA PrefixShorter ==
    ASSUME NEW S, NEW p \in Seq(S), NEW q \in Seq(S), NEW f \in Seq(S), IsPrefix(p \o q, f)
    PROVE  IsPrefix(p, f)
  <1>1. Len(p) \in Nat /\ Len(f) \in Nat /\ Len(q) \in Nat
        /\ p \o q \in Seq(S) /\ Len(p \o q) = Len(p) + Len(q)
        /\ \A i \in 1 .. Len(p) + Len(q) : (p \o q)[i] = IF i <= Len(p) THEN p[i] ELSE q[i - Len(p)]
    BY LenProperties, ConcatProperties
  <1>2. Len(p \o q) <= Len(f) /\ \A i \in 1 .. Len(p \o q) : (p \o q)[i] = f[i]
    BY <1>1, PrefixIs
  <1>3. ASSUME NEW i \in 1 .. Len(p)
        PROVE  p[i] = f[i]
    <2>1. i \in 1 .. Len(p) + Len(q) /\ i <= Len(p) /\ i \in 1 .. Len(p \o q)
      BY <1>1
    <2> QED
      BY <1>1, <1>2, <2>1
  <1>4. Len(p) <= Len(f)
    BY <1>1, <1>2
  <1> QED
    BY <1>3, <1>4, PrefixIs

LEMMA PrefixOfConcat ==
    ASSUME NEW S, NEW p \in Seq(S), NEW q \in Seq(S)
    PROVE  IsPrefix(p, p \o q)
  <1>1. \A i \in 1 .. Len(p) : p[i] = p[i]
    OBVIOUS
  <1>2. Len(p) <= Len(p)
    BY LenProperties
  <1>3. IsPrefix(p, p)
    BY <1>1, <1>2, PrefixIs
  <1> QED
    BY <1>3, PrefixLonger
=============================================================================
