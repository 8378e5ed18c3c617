----------------------------- MODULE DataLemmas -------------------------------
(***************************************************************************)
(* Lemmas about data that several proofs use: sequences, and induction     *)
(* over the natural numbers in a form that takes no operator, in which     *)
(* what is to be shown of every number is given as a set.  It follows from *)
(* the fact that the natural numbers are well-founded.  With it, what a    *)
(* recursive function computes can be proved.                              *)
(***************************************************************************)
EXTENDS Integers, Sequences, SequenceTheorems, WellFoundedInduction, TLAPS

-----------------------------------------------------------------------------
(* Sequences.                                                              *)

LEMMA SeqFacts ==
  \A S : \A s \in Seq(S) :
    Len(s) \in Nat /\ DOMAIN s = 1 .. Len(s) /\ s \in [1 .. Len(s) -> S] /\ (s = <<>> <=> Len(s) = 0)
  BY LenProperties, EmptySeq

LEMMA FunctionSeq ==
  \A S : \A n \in Nat : \A f \in [1 .. n -> S] : f \in Seq(S) /\ Len(f) = n
  BY SeqDef, LenProperties

LEMMA AppendSeq ==
  \A S : \A s \in Seq(S), e \in S :
    /\ Append(s, e) \in Seq(S) /\ Append(s, e) # <<>> /\ Len(Append(s, e)) = Len(s) + 1
    /\ \A i \in 1 .. Len(s) : Append(s, e)[i] = s[i]
    /\ Append(s, e)[Len(s) + 1] = e
  BY AppendProperties

LEMMA TailSeq ==
  \A S : \A s \in Seq(S) : s # <<>> =>
    /\ Head(s) \in S /\ Head(s) = s[1] /\ Tail(s) \in Seq(S) /\ Len(Tail(s)) = Len(s) - 1
    /\ \A i \in 1 .. Len(s) - 1 : Tail(s)[i] = s[i + 1]
  BY HeadTailProperties

LEMMA ConcatSeq ==
  \A S : \A s, t \in Seq(S) :
    /\ s \o t \in Seq(S) /\ Len(s \o t) = Len(s) + Len(t)
    /\ \A i \in 1 .. Len(s) : (s \o t)[i] = s[i]
    /\ \A i \in 1 .. Len(t) : (s \o t)[Len(s) + i] = t[i]
<1> SUFFICES ASSUME NEW S, NEW s \in Seq(S), NEW t \in Seq(S)
             PROVE  /\ s \o t \in Seq(S) /\ Len(s \o t) = Len(s) + Len(t)
                    /\ \A i \in 1 .. Len(s) : (s \o t)[i] = s[i]
                    /\ \A i \in 1 .. Len(t) : (s \o t)[Len(s) + i] = t[i]
  OBVIOUS
<1>1. Len(s) \in Nat /\ Len(t) \in Nat
  BY LenProperties
<1> QED BY <1>1, ConcatProperties

LEMMA PartSeq ==
  \A S : \A s \in Seq(S) : \A m \in 1 .. Len(s) + 1, n \in 0 .. Len(s) : m <= n + 1 =>
    SubSeq(s, m, n) \in Seq(S) /\ Len(SubSeq(s, m, n)) = (n - m) + 1
<1> SUFFICES ASSUME NEW S, NEW s \in Seq(S), NEW m \in 1 .. Len(s) + 1, NEW n \in 0 .. Len(s), m <= n + 1
             PROVE  SubSeq(s, m, n) \in Seq(S) /\ Len(SubSeq(s, m, n)) = (n - m) + 1
  OBVIOUS
<1>1. Len(s) \in Nat /\ \A i \in 1 .. Len(s) : s[i] \in S
  BY LenProperties
<1>2. m \in Int /\ n \in Int /\ \A i \in m .. n : s[i] \in S
  BY <1>1
<1>3. /\ SubSeq(s, m, n) \in Seq(S)
      /\ Len(SubSeq(s, m, n)) = IF m <= n THEN n - m + 1 ELSE 0
  BY <1>2, SubSeqProperties
<1> QED BY <1>1, <1>3

LEMMA EqualSeq ==
  ASSUME NEW S, NEW s \in Seq(S), NEW t \in Seq(S), Len(s) = Len(t), \A i \in 1 .. Len(s) : s[i] = t[i]
  PROVE  s = t
  BY SeqEqual

LEMMA SliceSeq ==
  ASSUME NEW S, NEW s \in Seq(S), NEW i \in Nat, NEW j \in Nat, i <= j, j <= Len(s)
  PROVE  /\ SubSeq(s, i + 1, j) \in Seq(S) /\ Len(SubSeq(s, i + 1, j)) = j - i
         /\ \A k \in 1 .. j - i : SubSeq(s, i + 1, j)[k] = s[i + k]
<1> DEFINE p == SubSeq(s, i + 1, j)
<1>1. Len(s) \in Nat /\ \A k \in 1 .. Len(s) : s[k] \in S
  BY SeqFacts
<1>2. \A k \in (i + 1) .. j : s[k] \in S
  BY <1>1
<1>3. /\ p \in Seq(S)
      /\ Len(p) = IF i + 1 <= j THEN j - (i + 1) + 1 ELSE 0
      /\ \A k \in 1 .. j - (i + 1) + 1 : p[k] = s[(i + 1) + k - 1]
  <2>1. s \in Seq(S) /\ i + 1 \in Int /\ j \in Int
    OBVIOUS
  <2> QED BY <1>2, <2>1, SubSeqProperties
<1> HIDE DEF p
<1>4. Len(p) = j - i
  BY <1>3
<1>5. ASSUME NEW k \in 1 .. j - i PROVE p[k] = s[i + k]
  <2>1. k \in 1 .. j - (i + 1) + 1 /\ (i + 1) + k - 1 = i + k
    OBVIOUS
  <2> QED BY <1>3, <2>1
<1> QED BY <1>3, <1>4, <1>5 DEF p

\* A sequence cut in two.
LEMMA CutSeq ==
  ASSUME NEW S, NEW s \in Seq(S), NEW n \in Nat, n <= Len(s)
  PROVE  /\ SubSeq(s, 1, n) \in Seq(S) /\ Len(SubSeq(s, 1, n)) = n
         /\ SubSeq(s, n + 1, Len(s)) \in Seq(S) /\ Len(SubSeq(s, n + 1, Len(s))) = Len(s) - n
         /\ SubSeq(s, 1, n) \o SubSeq(s, n + 1, Len(s)) = s
<1> DEFINE x == SubSeq(s, 1, n)
           y == SubSeq(s, n + 1, Len(s))
<1>0. Len(s) \in Nat
  BY SeqFacts
<1>1. x \in Seq(S) /\ Len(x) = n /\ \A k \in 1 .. n : x[k] = s[k]
  <2>1. 0 \in Nat /\ 0 <= n
    OBVIOUS
  <2>2. /\ SubSeq(s, 0 + 1, n) \in Seq(S) /\ Len(SubSeq(s, 0 + 1, n)) = n - 0
        /\ \A k \in 1 .. n - 0 : SubSeq(s, 0 + 1, n)[k] = s[0 + k]
    BY <1>0, <2>1, SliceSeq
  <2>3. 0 + 1 = 1 /\ n - 0 = n /\ \A k \in 1 .. n : 0 + k = k
    OBVIOUS
  <2> QED BY <2>2, <2>3
<1>2. y \in Seq(S) /\ Len(y) = Len(s) - n /\ \A k \in 1 .. Len(s) - n : y[k] = s[n + k]
  BY <1>0, SliceSeq
<1> HIDE DEF x, y
<1>3. /\ x \o y \in Seq(S) /\ Len(x \o y) = Len(s)
      /\ \A i \in 1 .. n : (x \o y)[i] = x[i]
      /\ \A i \in 1 .. Len(s) - n : (x \o y)[n + i] = y[i]
  <2>1. /\ x \o y \in Seq(S) /\ Len(x \o y) = Len(x) + Len(y)
        /\ \A i \in 1 .. Len(x) : (x \o y)[i] = x[i]
        /\ \A i \in 1 .. Len(y) : (x \o y)[Len(x) + i] = y[i]
    BY <1>1, <1>2, ConcatSeq
  <2>2. n + (Len(s) - n) = Len(s)
    BY <1>0
  <2> QED BY <1>1, <1>2, <2>1, <2>2
<1>4. ASSUME NEW i \in 1 .. Len(s) PROVE (x \o y)[i] = s[i]
  <2>1. CASE i <= n
    BY <1>1, <1>3, <2>1
  <2>2. CASE i > n
    <3>1. i - n \in 1 .. Len(s) - n /\ n + (i - n) = i
      BY <1>0, <2>2
    <3>2. (x \o y)[n + (i - n)] = y[i - n] /\ y[i - n] = s[n + (i - n)]
      BY <1>2, <1>3, <3>1
    <3> QED BY <3>1, <3>2
  <2>3. i <= n \/ i > n
    BY <1>0
  <2> QED BY <2>1, <2>2, <2>3, Zenon
<1>5. x \o y = s
  BY <1>3, <1>4, EqualSeq
<1> QED BY <1>1, <1>2, <1>5 DEF x, y

LEMMA WholeSeq ==
  ASSUME NEW S, NEW s \in Seq(S)
  PROVE  SubSeq(s, 1, Len(s)) = s
<1>1. Len(s) \in Nat /\ Len(s) <= Len(s)
  BY SeqFacts
<1>2. /\ SubSeq(s, 1, Len(s)) \in Seq(S)
      /\ SubSeq(s, Len(s) + 1, Len(s)) \in Seq(S)
      /\ Len(SubSeq(s, Len(s) + 1, Len(s))) = Len(s) - Len(s)
      /\ SubSeq(s, 1, Len(s)) \o SubSeq(s, Len(s) + 1, Len(s)) = s
  BY <1>1, CutSeq
<1>3. SubSeq(s, Len(s) + 1, Len(s)) = <<>>
  BY <1>1, <1>2, SeqFacts
<1> QED BY <1>2, <1>3, ConcatEmptySeq

-----------------------------------------------------------------------------
(* Induction.                                                              *)

(* "<" is well-founded, as a relation that is a set.                       *)
LEMMA NatOrder ==
  \E R : IsWellFoundedOn(R, Nat) /\ \A x, y \in Nat : x < y => <<x, y>> \in R
<1> WITNESS OpToRel(<, Nat)
<1>1. IsWellFoundedOn(OpToRel(<, Nat), Nat)
  BY NatLessThanWellFounded
<1>2. \A x, y \in Nat : x < y => <<x, y>> \in OpToRel(<, Nat)
  BY Zenon DEF OpToRel
<1> QED BY <1>1, <1>2

(* A set of numbers that is not empty has a least one.                     *)
LEMMA LeastNumber ==
  ASSUME NEW T, T \subseteq Nat, T # {}
  PROVE  \E x \in T : \A y \in T : x <= y
<1>1. PICK R : IsWellFoundedOn(R, Nat) /\ \A x, y \in Nat : x < y => <<x, y>> \in R
  BY NatOrder
<1>2. PICK x \in T : \A y \in T : ~(<<y, x>> \in R)
  <2>1. IsWellFoundedOn(R, Nat)
    BY <1>1
  <2> QED BY <2>1, WFMin, Zenon
<1>3. ASSUME NEW y \in T PROVE x <= y
  <2>1. x \in Nat /\ y \in Nat
    OBVIOUS
  <2>2. ~(y < x)
    BY <1>1, <1>2, <2>1, Zenon
  <2> QED BY <2>1, <2>2
<1> QED BY <1>3

(* Induction: a set with 0, and with n + 1 when it has n, has every number.*)
LEMMA SetInduction ==
  ASSUME NEW S, 0 \in S, \A n \in Nat : n \in S => n + 1 \in S
  PROVE  Nat \subseteq S
<1> DEFINE T == Nat \ S
<1> SUFFICES ASSUME T # {} PROVE FALSE
  OBVIOUS
<1>1. T \subseteq Nat
  OBVIOUS
<1>2. PICK x \in T : \A y \in T : x <= y
  <2> HIDE DEF T
  <2> QED BY <1>1, LeastNumber
<1>3. x \in Nat /\ x # 0 /\ x - 1 \in Nat /\ x - 1 + 1 = x
  BY <1>2
<1>4. x - 1 \in T
  BY <1>2, <1>3
<1> QED BY <1>2, <1>3, <1>4

(* A function on 0 .. N defined by recursion exists, with its type.        *)
Steps(N, T) == [0 .. N - 1 -> [T -> T]]
DefinedBy(g, N, T, base, step) ==
  g \in [0 .. N -> T] /\ g[0] = base /\ \A n \in 0 .. N - 1 : g[n + 1] = step[n][g[n]]

LEMMA RecursionExists ==
  \A T : \A base \in T, N \in Nat : \A step \in Steps(N, T) : \E g : DefinedBy(g, N, T, base, step)
<1> SUFFICES ASSUME NEW T, NEW base \in T, NEW N \in Nat, NEW step \in [0 .. N - 1 -> [T -> T]]
             PROVE  \E g : DefinedBy(g, N, T, base, step)
  BY DEF Steps
<1> DEFINE Good(m, g) == /\ g \in [0 .. m -> T]
                         /\ g[0] = base /\ \A n \in 0 .. m - 1 : g[n + 1] = step[n][g[n]]
           S == {m \in Nat : m <= N => \E g : Good(m, g)}
<1>1. 0 \in S
  <2>1. Good(0, [n \in 0 .. 0 |-> base])
    OBVIOUS
  <2> QED BY <2>1
<1>2. ASSUME NEW m \in Nat, m \in S PROVE m + 1 \in S
  <2> SUFFICES ASSUME m + 1 <= N PROVE \E g : Good(m + 1, g)
    OBVIOUS
  <2>1. PICK g : Good(m, g)
    BY <1>2
  <2> DEFINE h == [n \in 0 .. m + 1 |-> IF n = m + 1 THEN step[m][g[m]] ELSE g[n]]
  <2>2. g[m] \in T /\ m \in 0 .. N - 1 /\ step[m][g[m]] \in T
    BY <2>1
  <2>3. h \in [0 .. m + 1 -> T]
    BY <2>1, <2>2
  <2>4. h[0] = base
    BY <2>1
  <2>5. ASSUME NEW n \in 0 .. (m + 1) - 1 PROVE h[n + 1] = step[n][h[n]]
    BY <2>1, <2>5
  <2> HIDE DEF h
  <2>6. Good(m + 1, h)
    BY <2>3, <2>4, <2>5
  <2> QED BY <2>6
<1>3. N \in S
  <2> HIDE DEF S
  <2> QED BY <1>1, <1>2, SetInduction
<1> QED BY <1>3 DEF DefinedBy
=============================================================================
