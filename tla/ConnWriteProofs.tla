--------------------------- MODULE ConnWriteProofs ---------------------------
(***************************************************************************)
(* What ConnWrite keeps, for every kernel buffer, cache limit, length of a *)
(* call and number of calls: the bytes accepted stay in order and are kept *)
(* until the Conn is closed, left is exact, and the write event is set.    *)
(***************************************************************************)
EXTENDS ConnWrite, DataLemmas

ByteSeq == Seq(Nat)
Lists == Seq(EntryType)

-----------------------------------------------------------------------------
(* Runs of numbered bytes.                                                 *)

LEMMA EmptyBytes == <<>> \in ByteSeq /\ Len(<<>>) = 0 /\ \A s \in ByteSeq : s \o <<>> = s /\ <<>> \o s = s
  BY EmptySeq, ConcatEmptySeq DEF ByteSeq

\* Sequences of bytes are equal when they have the same elements.
LEMMA SameBytes ==
  ASSUME NEW s \in ByteSeq, NEW t \in ByteSeq, Len(s) = Len(t), \A i \in 1 .. Len(s) : s[i] = t[i]
  PROVE  s = t
  BY EqualSeq DEF ByteSeq

LEMMA ConcatBytes ==
  \A s, t \in ByteSeq :
    /\ s \o t \in ByteSeq /\ Len(s \o t) = Len(s) + Len(t)
    /\ Len(s) \in Nat /\ Len(t) \in Nat
    /\ \A i \in 1 .. Len(s) : (s \o t)[i] = s[i]
    /\ \A i \in 1 .. Len(t) : (s \o t)[Len(s) + i] = t[i]
  BY ConcatSeq, SeqFacts DEF ByteSeq

LEMMA JoinBytes ==
  \A x, y, z \in ByteSeq : (x \o y) \o z = x \o (y \o z)
<1> SUFFICES ASSUME NEW x \in Seq(Nat), NEW y \in Seq(Nat), NEW z \in Seq(Nat)
             PROVE  (x \o y) \o z = x \o (y \o z)
  BY DEF ByteSeq
<1> QED BY ConcatAssociative

LEMMA PartBytes ==
  ASSUME NEW s \in ByteSeq, NEW i \in Nat, NEW j \in Nat, i <= j, j <= Len(s)
  PROVE  /\ SubSeq(s, i + 1, j) \in ByteSeq /\ Len(SubSeq(s, i + 1, j)) = j - i
         /\ \A k \in 1 .. j - i : SubSeq(s, i + 1, j)[k] = s[i + k]
  BY SliceSeq DEF ByteSeq

LEMMA BytesTyped ==
  ASSUME NEW m \in Nat \ {0}, NEW n \in Nat
  PROVE  /\ Bytes(m, n) \in ByteSeq /\ Len(Bytes(m, n)) = n
         /\ \A k \in 1 .. n : Bytes(m, n)[k] = (m + k) - 1
<1>1. Bytes(m, n) = [k \in 1 .. n |-> (m + k) - 1]
  BY DEF Bytes
<1>2. Bytes(m, n) \in [1 .. n -> Nat]
  BY <1>1
<1>3. Bytes(m, n) \in Seq(Nat) /\ Len(Bytes(m, n)) = n
  BY <1>2, FunctionSeq
<1> QED BY <1>1, <1>3 DEF ByteSeq

LEMMA BytesJoin ==
  ASSUME NEW m \in Nat \ {0}, NEW a \in Nat, NEW c \in Nat
  PROVE  Bytes(m, a) \o Bytes(m + a, c) = Bytes(m, a + c)
<1> DEFINE s == Bytes(m, a)
           t == Bytes(m + a, c)
           u == Bytes(m, a + c)
<1>0. m + a \in Nat \ {0} /\ a + c \in Nat
  OBVIOUS
<1>a. s \in ByteSeq /\ Len(s) = a /\ \A k \in 1 .. a : s[k] = (m + k) - 1
  BY BytesTyped
<1>b. t \in ByteSeq /\ Len(t) = c /\ \A k \in 1 .. c : t[k] = ((m + a) + k) - 1
  BY <1>0, BytesTyped
<1>c. u \in ByteSeq /\ Len(u) = a + c /\ \A k \in 1 .. a + c : u[k] = (m + k) - 1
  BY <1>0, BytesTyped
<1> HIDE DEF s, t, u
<1>2. /\ s \o t \in ByteSeq /\ Len(s \o t) = a + c
      /\ \A i \in 1 .. a : (s \o t)[i] = s[i]
      /\ \A i \in 1 .. c : (s \o t)[a + i] = t[i]
  BY <1>a, <1>b, ConcatBytes
<1>3. ASSUME NEW i \in 1 .. a + c PROVE (s \o t)[i] = u[i]
  <2>1. CASE i <= a
    BY <1>a, <1>c, <1>2, <2>1
  <2>2. CASE i > a
    <3>1. i - a \in 1 .. c /\ a + (i - a) = i
      BY <2>2
    <3>2. (s \o t)[i] = t[i - a]
      BY <1>2, <3>1
    <3>3. t[i - a] = (m + i) - 1
      BY <1>b, <3>1
    <3>4. u[i] = (m + i) - 1
      BY <1>c
    <3> QED BY <3>2, <3>3, <3>4
  <2>3. i <= a \/ i > a
    OBVIOUS
  <2> QED BY <2>1, <2>2, <2>3, Zenon
<1>4. s \o t = u
  BY <1>c, <1>2, <1>3, SameBytes
<1> QED BY <1>4 DEF s, t, u

\* Part of a run is a run.
LEMMA BytesPart ==
  ASSUME NEW m \in Nat \ {0}, NEW n \in Nat, NEW i \in Nat, NEW j \in Nat, i <= j, j <= n
  PROVE  SubSeq(Bytes(m, n), i + 1, j) = Bytes(m + i, j - i)
<1> DEFINE s == Bytes(m, n)
           t == Bytes(m + i, j - i)
           p == SubSeq(s, i + 1, j)
<1>0. m + i \in Nat \ {0} /\ j - i \in Nat
  OBVIOUS
<1>a. s \in ByteSeq /\ Len(s) = n /\ \A k \in 1 .. n : s[k] = (m + k) - 1
  BY BytesTyped
<1>b. t \in ByteSeq /\ Len(t) = j - i /\ \A k \in 1 .. j - i : t[k] = ((m + i) + k) - 1
  BY <1>0, BytesTyped
<1>1. s \in ByteSeq /\ Len(s) = n
  BY <1>a
<1> HIDE DEF s, t
<1>2. /\ p \in ByteSeq /\ Len(p) = j - i
      /\ \A k \in 1 .. j - i : p[k] = s[i + k]
  BY <1>1, PartBytes
<1> HIDE DEF p
<1>3. ASSUME NEW k \in 1 .. j - i PROVE p[k] = t[k]
  <2>1. i + k \in 1 .. n
    BY <1>3
  <2> QED BY <1>a, <1>b, <1>2, <2>1
<1>4. p = t
  BY <1>b, <1>2, <1>3, SameBytes
<1> QED BY <1>4 DEF p, s, t

-----------------------------------------------------------------------------
(* What a write list still has to send.                                    *)

LEMMA EntryFacts ==
  \A e \in EntryType :
    /\ e.file \in BOOLEAN /\ e.data \in ByteSeq /\ e.off \in Nat /\ Len(e.data) \in Nat
    /\ e.off <= Len(e.data)
  BY SeqFacts DEF EntryType, ByteSeq

LEMMA EntryMade ==
  \A f \in BOOLEAN, b \in ByteSeq : Entry(f, b) \in EntryType
<1> SUFFICES ASSUME NEW f \in BOOLEAN, NEW b \in ByteSeq PROVE Entry(f, b) \in EntryType
  OBVIOUS
<1>1. Len(b) \in Nat /\ b \in Seq(Nat)
  BY SeqFacts DEF ByteSeq
<1> QED BY <1>1 DEF Entry, EntryType

LEMMA RestTyped ==
  \A e \in EntryType : Rest(e) \in ByteSeq /\ Len(Rest(e)) = Len(e.data) - e.off
<1> SUFFICES ASSUME NEW e \in EntryType
             PROVE  Rest(e) \in ByteSeq /\ Len(Rest(e)) = Len(e.data) - e.off
  OBVIOUS
<1> QED BY EntryFacts, PartBytes DEF Rest

LEMMA PartTyped ==
  \A kinds : \A e \in EntryType : Part(e, kinds) \in ByteSeq
  BY RestTyped, EmptyBytes DEF Part

LEMMA ListFacts ==
  \A list \in Lists : /\ Len(list) \in Nat /\ (list = <<>> <=> Len(list) = 0)
                      /\ \A k \in 1 .. Len(list) : list[k] \in EntryType
  BY SeqFacts DEF Lists

\* The recursion that Unsent is defined by has a solution, whose values are
\* sequences of bytes.
UnsentFacts(list, kinds) ==
  /\ UnsentUpTo(list, kinds)[0] = <<>>
  /\ \A k \in 1 .. Len(list) :
       UnsentUpTo(list, kinds)[k] = UnsentUpTo(list, kinds)[k - 1] \o Part(list[k], kinds)
  /\ \A k \in 0 .. Len(list) : UnsentUpTo(list, kinds)[k] \in ByteSeq

LEMMA UnsentTyped ==
  ASSUME NEW list \in Lists, NEW kinds
  PROVE  UnsentFacts(list, kinds)
<1> DEFINE N == Len(list)
           U == UnsentUpTo(list, kinds)
           step == [n \in 0 .. N - 1 |-> [t \in ByteSeq |-> t \o Part(list[n + 1], kinds)]]
           F(g) == [k \in 0 .. N |-> IF k = 0 THEN <<>> ELSE g[k - 1] \o Part(list[k], kinds)]
<1>1. N \in Nat /\ \A k \in 1 .. N : Part(list[k], kinds) \in ByteSeq
  BY ListFacts, PartTyped
<1>2. <<>> \in ByteSeq
  BY EmptyBytes
<1>3. \A n \in 0 .. N - 1 : \A t \in ByteSeq :
        step[n][t] = t \o Part(list[n + 1], kinds) /\ step[n][t] \in ByteSeq
  <2> TAKE n \in 0 .. N - 1
  <2> TAKE t \in ByteSeq
  <2>1. step[n][t] = t \o Part(list[n + 1], kinds)
    OBVIOUS
  <2>2. n + 1 \in 1 .. N
    BY <1>1
  <2>3. Part(list[n + 1], kinds) \in ByteSeq
    BY <1>1, <2>2
  <2>4. t \o Part(list[n + 1], kinds) \in ByteSeq
    BY <2>3, ConcatBytes
  <2> QED BY <2>1, <2>4
<1> HIDE DEF step, N
<1>4. PICK g : /\ g \in [0 .. N -> ByteSeq]
               /\ g[0] = <<>> /\ \A n \in 0 .. N - 1 : g[n + 1] = step[n][g[n]]
  <2>1. step \in Steps(N, ByteSeq)
    BY <1>3 DEF step, Steps
  <2>2. \E g : DefinedBy(g, N, ByteSeq, <<>>, step)
    BY <1>1, <1>2, <2>1, RecursionExists, Zenon
  <2> QED BY <2>2, Zenon DEF DefinedBy
<1>5. g = F(g)
  <2>1. ASSUME NEW k \in 0 .. N PROVE g[k] = IF k = 0 THEN <<>> ELSE g[k - 1] \o Part(list[k], kinds)
    <3>1. CASE k = 0
      BY <1>4, <3>1
    <3>2. CASE k # 0
      <4>1. k - 1 \in 0 .. N - 1 /\ (k - 1) + 1 = k /\ k - 1 \in 0 .. N
        BY <1>1, <3>2
      <4>2. g[k] = step[k - 1][g[k - 1]] /\ g[k - 1] \in ByteSeq
        BY <1>4, <4>1
      <4>3. g[k] = g[k - 1] \o Part(list[(k - 1) + 1], kinds)
        BY <1>3, <4>1, <4>2
      <4> QED BY <3>2, <4>1, <4>3
    <3> QED BY <3>1, <3>2
  <2> QED BY <1>4, <2>1
<1>6. U = F(U)
  <2>1. U = CHOOSE h : h = F(h)
    BY Zenon DEF UnsentUpTo, N
  <2> HIDE DEF F, U
  <2> QED BY <1>5, <2>1, Zenon
<1> HIDE DEF U
<1>7. \A k \in 0 .. N : U[k] = IF k = 0 THEN <<>> ELSE U[k - 1] \o Part(list[k], kinds)
  BY <1>6
<1>8. U[0] = <<>> /\ \A k \in 1 .. N : U[k] = U[k - 1] \o Part(list[k], kinds)
  <2>1. 0 \in 0 .. N /\ \A k \in 1 .. N : k \in 0 .. N /\ k # 0
    BY <1>1
  <2> QED BY <1>7, <2>1, Zenon
<1> DEFINE S == {k \in Nat : k <= N => U[k] \in ByteSeq}
<1>9. Nat \subseteq S
  <2>1. 0 \in S
    BY <1>2, <1>8
  <2>2. ASSUME NEW k \in Nat, k \in S PROVE k + 1 \in S
    <3> SUFFICES ASSUME k + 1 <= N PROVE U[k + 1] \in ByteSeq
      OBVIOUS
    <3>1. U[k] \in ByteSeq /\ k + 1 \in 1 .. N /\ (k + 1) - 1 = k
      BY <1>1, <2>2
    <3>2. U[k + 1] = U[k] \o Part(list[k + 1], kinds)
      BY <1>8, <3>1
    <3> QED BY <1>1, <3>1, <3>2, ConcatBytes
  <2> HIDE DEF S
  <2> QED BY <2>1, <2>2, SetInduction
<1>10. \A k \in 0 .. N : U[k] \in ByteSeq
  BY <1>1, <1>9
<1> QED BY <1>8, <1>10 DEF UnsentFacts, U, N

LEMMA UnsentIsBytes ==
  ASSUME NEW list \in Lists, NEW kinds
  PROVE  Unsent(list, kinds) \in ByteSeq
<1>1. \A k \in 0 .. Len(list) : UnsentUpTo(list, kinds)[k] \in ByteSeq
  BY UnsentTyped, Zenon DEF UnsentFacts
<1>2. Len(list) \in 0 .. Len(list)
  BY ListFacts
<1> QED BY <1>1, <1>2 DEF Unsent

LEMMA UnsentEmpty == \A kinds : Unsent(<<>>, kinds) = <<>>
<1> TAKE kinds
<1>1. <<>> \in Lists /\ Len(<<>>) = 0
  BY EmptySeq DEF Lists
<1> QED BY <1>1, UnsentTyped DEF Unsent, UnsentFacts

\* Lists that agree on their first entries have the same to send of them.
LEMMA UnsentPrefix ==
  ASSUME NEW list \in Lists, NEW other \in Lists, NEW kinds, NEW m \in Nat,
         m <= Len(list), m <= Len(other), \A i \in 1 .. m : list[i] = other[i]
  PROVE  \A k \in 0 .. m : UnsentUpTo(list, kinds)[k] = UnsentUpTo(other, kinds)[k]
<1> DEFINE U == UnsentUpTo(list, kinds)
           V == UnsentUpTo(other, kinds)
           S == {k \in Nat : k <= m => U[k] = V[k]}
<1>0. Len(list) \in Nat /\ Len(other) \in Nat
  BY ListFacts
<1>1. /\ U[0] = <<>> /\ \A k \in 1 .. Len(list) : U[k] = U[k - 1] \o Part(list[k], kinds)
      /\ V[0] = <<>> /\ \A k \in 1 .. Len(other) : V[k] = V[k - 1] \o Part(other[k], kinds)
  BY UnsentTyped, Zenon DEF UnsentFacts
<1> HIDE DEF U, V
<1>2. 0 \in S
  BY <1>1
<1>3. ASSUME NEW k \in Nat, k \in S PROVE k + 1 \in S
  <2> SUFFICES ASSUME k + 1 <= m PROVE U[k + 1] = V[k + 1]
    OBVIOUS
  <2>1. /\ U[k] = V[k] /\ k + 1 \in 1 .. Len(list) /\ k + 1 \in 1 .. Len(other) /\ (k + 1) - 1 = k
        /\ list[k + 1] = other[k + 1]
    BY <1>0, <1>3
  <2>2. U[k + 1] = U[k] \o Part(list[k + 1], kinds)
    BY <1>1, <2>1
  <2>3. V[k + 1] = V[k] \o Part(other[k + 1], kinds)
    BY <1>1, <2>1
  <2> QED BY <2>1, <2>2, <2>3
<1>4. Nat \subseteq S
  <2> HIDE DEF S
  <2> QED BY <1>2, <1>3, SetInduction
<1> QED BY <1>4 DEF U, V

\* An entry more at the end.
LEMMA UnsentAppend ==
  ASSUME NEW list \in Lists, NEW e \in EntryType, NEW kinds
  PROVE  Unsent(Append(list, e), kinds) = Unsent(list, kinds) \o Part(e, kinds)
<1> DEFINE new == Append(list, e)
           m == Len(list)
<1>1. /\ new \in Lists /\ Len(new) = m + 1 /\ m \in Nat
      /\ (\A i \in 1 .. m : new[i] = list[i]) /\ new[m + 1] = e
  BY AppendSeq, ListFacts DEF Lists
<1> HIDE DEF new
<1>2. m <= Len(list) /\ m <= Len(new) /\ \A i \in 1 .. m : list[i] = new[i]
  BY <1>1
<1>3. m \in 0 .. m /\ m + 1 \in 1 .. Len(new) /\ (m + 1) - 1 = m
  BY <1>1
<1>4. UnsentUpTo(list, kinds)[m] = UnsentUpTo(new, kinds)[m]
  <2> HIDE DEF m
  <2> QED BY <1>1, <1>2, <1>3, UnsentPrefix
<1>5. UnsentUpTo(new, kinds)[m + 1] = UnsentUpTo(new, kinds)[m] \o Part(new[m + 1], kinds)
  BY <1>1, <1>3, UnsentTyped DEF UnsentFacts
<1> QED BY <1>1, <1>4, <1>5 DEF Unsent, new

\* The last entry replaced by one with more bytes at its end.
LEMMA UnsentLast ==
  ASSUME NEW list \in Lists, list # <<>>, NEW new \in Lists, Len(new) = Len(list),
         \A i \in 1 .. Len(list) - 1 : new[i] = list[i], NEW b \in ByteSeq, NEW kinds,
         Part(new[Len(list)], kinds) = Part(list[Len(list)], kinds) \o b
  PROVE  Unsent(new, kinds) = Unsent(list, kinds) \o b
<1> DEFINE m == Len(list) - 1
<1>1. m \in Nat /\ Len(list) = m + 1 /\ m + 1 \in 1 .. Len(list) /\ list[m + 1] \in EntryType
  BY ListFacts
<1>2. Len(new) = m + 1 /\ \A i \in 1 .. m : new[i] = list[i]
  BY <1>1
<1> HIDE DEF m
<1>3. m <= Len(list) /\ m <= Len(new) /\ \A i \in 1 .. m : list[i] = new[i]
  BY <1>1, <1>2
<1>4. m \in 0 .. m /\ m + 1 \in 1 .. Len(new) /\ (m + 1) - 1 = m /\ m \in 0 .. Len(list)
  BY <1>1, <1>2
<1>5. UnsentUpTo(list, kinds)[m] = UnsentUpTo(new, kinds)[m]
  BY <1>1, <1>2, <1>3, <1>4, UnsentPrefix
<1>6. UnsentUpTo(new, kinds)[m + 1] = UnsentUpTo(new, kinds)[m] \o Part(new[m + 1], kinds)
  BY <1>2, <1>4, UnsentTyped DEF UnsentFacts
<1>7. /\ UnsentUpTo(list, kinds)[m + 1] = UnsentUpTo(list, kinds)[m] \o Part(list[m + 1], kinds)
      /\ UnsentUpTo(list, kinds)[m] \in ByteSeq
  BY <1>1, <1>4, UnsentTyped DEF UnsentFacts
<1>8. Part(list[m + 1], kinds) \in ByteSeq
  BY <1>1, PartTyped
<1>9. (UnsentUpTo(list, kinds)[m] \o Part(list[m + 1], kinds)) \o b
         = UnsentUpTo(list, kinds)[m] \o (Part(list[m + 1], kinds) \o b)
  BY <1>7, <1>8, JoinBytes
<1> QED BY <1>1, <1>2, <1>5, <1>6, <1>7, <1>9 DEF Unsent

LEMMA TailList ==
  ASSUME NEW list \in Lists, list # <<>>
  PROVE  /\ Head(list) = list[1] /\ list[1] \in EntryType /\ Len(list) \in Nat \ {0}
         /\ Tail(list) \in Lists /\ Len(Tail(list)) = Len(list) - 1
         /\ \A i \in 1 .. Len(list) - 1 : Tail(list)[i] = list[i + 1]
  BY TailSeq, ListFacts DEF Lists

\* The head, and what is behind it.
LEMMA UnsentHead ==
  ASSUME NEW list \in Lists, list # <<>>, NEW kinds
  PROVE  Unsent(list, kinds) = Part(list[1], kinds) \o Unsent(Tail(list), kinds)
<1> DEFINE t == Tail(list)
           U == UnsentUpTo(list, kinds)
           V == UnsentUpTo(t, kinds)
           p == Part(list[1], kinds)
           m == Len(list) - 1
           S == {k \in Nat : k <= m => U[k + 1] = p \o V[k]}
<1>1. /\ m \in Nat /\ Len(list) = m + 1 /\ t \in Lists /\ Len(t) = m /\ p \in ByteSeq
      /\ \A i \in 1 .. m : t[i] = list[i + 1] /\ t[i] \in EntryType
  BY TailList, PartTyped, ListFacts
<1> HIDE DEF t
<1>2. U[0] = <<>> /\ \A k \in 1 .. m + 1 : U[k] = U[k - 1] \o Part(list[k], kinds)
  BY <1>1, UnsentTyped DEF UnsentFacts
<1>3. /\ V[0] = <<>> /\ \A k \in 1 .. m : V[k] = V[k - 1] \o Part(t[k], kinds)
      /\ \A k \in 0 .. m : V[k] \in ByteSeq
  BY <1>1, UnsentTyped DEF UnsentFacts
<1> HIDE DEF U, V, p, m
<1>4. 0 \in S
  <2>1. 1 \in 1 .. m + 1 /\ 1 - 1 = 0 /\ 0 + 1 = 1
    BY <1>1
  <2>2. U[1] = U[0] \o p
    BY <1>2, <2>1 DEF p
  <2>3. U[1] = p \o V[0]
    BY <1>1, <1>2, <1>3, <2>2, EmptyBytes
  <2> QED BY <2>3
<1>5. ASSUME NEW k \in Nat, k \in S PROVE k + 1 \in S
  <2> SUFFICES ASSUME k + 1 <= m PROVE U[(k + 1) + 1] = p \o V[k + 1]
    OBVIOUS
  <2>1. /\ U[k + 1] = p \o V[k] /\ k \in 0 .. m /\ k + 1 \in 1 .. m /\ (k + 1) - 1 = k
        /\ (k + 1) + 1 \in 1 .. m + 1 /\ ((k + 1) + 1) - 1 = k + 1
    BY <1>1, <1>5
  <2>2. U[(k + 1) + 1] = U[k + 1] \o Part(list[(k + 1) + 1], kinds)
    BY <1>2, <2>1
  <2>3. V[k + 1] = V[k] \o Part(t[k + 1], kinds)
    BY <1>3, <2>1
  <2>4. t[k + 1] = list[(k + 1) + 1] /\ t[k + 1] \in EntryType
    BY <1>1, <2>1
  <2>5. Part(t[k + 1], kinds) \in ByteSeq /\ V[k] \in ByteSeq
    BY <1>3, <2>1, <2>4, PartTyped
  <2>6. (p \o V[k]) \o Part(t[k + 1], kinds) = p \o (V[k] \o Part(t[k + 1], kinds))
    BY <1>1, <2>5, JoinBytes
  <2> QED BY <2>1, <2>2, <2>3, <2>4, <2>6
<1>6. Nat \subseteq S
  <2> HIDE DEF S
  <2> QED BY <1>4, <1>5, SetInduction
<1>7. U[m + 1] = p \o V[m]
  BY <1>1, <1>6
<1> QED BY <1>1, <1>7 DEF Unsent, U, V, p, t

\* A sequence of bytes cut in two.
LEMMA CutBytes ==
  ASSUME NEW s \in ByteSeq, NEW n \in Nat, n <= Len(s)
  PROVE  /\ SubSeq(s, 1, n) \in ByteSeq /\ Len(SubSeq(s, 1, n)) = n
         /\ SubSeq(s, n + 1, Len(s)) \in ByteSeq /\ Len(SubSeq(s, n + 1, Len(s))) = Len(s) - n
         /\ SubSeq(s, 1, n) \o SubSeq(s, n + 1, Len(s)) = s
  BY CutSeq DEF ByteSeq

LEMMA WholeBytes ==
  ASSUME NEW s \in ByteSeq
  PROVE  SubSeq(s, 1, Len(s)) = s
  BY WholeSeq DEF ByteSeq

\* The kernel takes n bytes of the head: the entry with the rest of them.
LEMMA AdvancedEntry ==
  ASSUME NEW e \in EntryType, NEW n \in Nat, n <= Len(Rest(e))
  PROVE  /\ [e EXCEPT !.off = @ + n] \in EntryType
         /\ [e EXCEPT !.off = @ + n].file = e.file
         /\ Rest([e EXCEPT !.off = @ + n]) = SubSeq(Rest(e), n + 1, Len(Rest(e)))
<1> DEFINE f == [e EXCEPT !.off = @ + n]
           r == Rest(e)
           y == SubSeq(r, n + 1, Len(r))
<1>1. /\ e.data \in ByteSeq /\ e.off \in Nat /\ Len(e.data) \in Nat /\ e.off <= Len(e.data)
      /\ e \in [file : BOOLEAN, data : Seq(Nat), off : Nat]
  BY EntryFacts DEF EntryType
<1>2. r \in ByteSeq /\ Len(r) = Len(e.data) - e.off
  BY RestTyped
<1>3. \A k \in 1 .. Len(r) : r[k] = e.data[e.off + k]
  BY <1>1, <1>2, PartBytes DEF Rest
<1>4. /\ f \in [file : BOOLEAN, data : Seq(Nat), off : Nat]
      /\ f.file = e.file /\ f.data = e.data /\ f.off = e.off + n
  BY <1>1
<1> HIDE DEF f, r
<1>5. n <= Len(r)
  BY DEF r
<1>6. f \in EntryType
  BY <1>1, <1>2, <1>4, <1>5 DEF EntryType
<1>7. Rest(f) \in ByteSeq /\ Len(Rest(f)) = Len(r) - n
  BY <1>1, <1>2, <1>4, <1>6, RestTyped
<1>8. \A k \in 1 .. Len(r) - n : Rest(f)[k] = e.data[(e.off + n) + k]
  <2>1. e.off + n \in Nat /\ e.off + n <= Len(e.data) /\ Len(e.data) - (e.off + n) = Len(r) - n
    BY <1>1, <1>2, <1>5
  <2> DEFINE o == e.off + n
             d == e.data
  <2>2. \A k \in 1 .. Len(d) - o : SubSeq(d, o + 1, Len(d))[k] = d[o + k]
    <3> HIDE DEF o, d
    <3>1. o \in Nat /\ d \in ByteSeq /\ Len(d) \in Nat /\ o <= Len(d)
      BY <1>1, <2>1 DEF o, d
    <3> QED BY <3>1, PartBytes
  <2>3. Rest(f) = SubSeq(d, o + 1, Len(d))
    BY <1>4 DEF Rest
  <2> QED BY <2>1, <2>2, <2>3
<1>9. y \in ByteSeq /\ Len(y) = Len(r) - n /\ \A k \in 1 .. Len(r) - n : y[k] = r[n + k]
  <2>1. Len(r) \in Nat
    BY <1>2, SeqFacts DEF ByteSeq
  <2> QED BY <1>2, <1>5, <2>1, PartBytes
<1> HIDE DEF y
<1>10. ASSUME NEW k \in 1 .. Len(r) - n PROVE Rest(f)[k] = y[k]
  <2>1. n + k \in 1 .. Len(r) /\ e.off + (n + k) = (e.off + n) + k
    BY <1>1, <1>2, <1>5
  <2>2. r[n + k] = e.data[e.off + (n + k)]
    BY <1>3, <2>1
  <2> QED BY <1>8, <1>9, <2>1, <2>2
<1>11. Rest(f) = y
  BY <1>7, <1>9, <1>10, SameBytes
<1> QED BY <1>4, <1>6, <1>11 DEF f, r, y

LEMMA UnsentAdvance ==
  ASSUME NEW list \in Lists, list # <<>>, NEW n \in Nat, n <= Len(Rest(list[1])), NEW kinds
  PROVE  /\ [list EXCEPT ![1].off = @ + n] \in Lists
         /\ list[1].file \in kinds =>
              SubSeq(Rest(list[1]), 1, n) \o Unsent([list EXCEPT ![1].off = @ + n], kinds)
                = Unsent(list, kinds)
         /\ list[1].file \notin kinds =>
              Unsent([list EXCEPT ![1].off = @ + n], kinds) = Unsent(list, kinds)
<1> DEFINE e == list[1]
           f == [e EXCEPT !.off = @ + n]
           new == [list EXCEPT ![1] = f]
           r == Rest(e)
<1>1. e \in EntryType /\ Len(list) \in Nat \ {0} /\ 1 \in 1 .. Len(list)
  BY TailList
<1>2. f \in EntryType /\ f.file = e.file /\ Rest(f) = SubSeq(r, n + 1, Len(r))
  BY <1>1, AdvancedEntry
<1>3. new = [list EXCEPT ![1].off = @ + n]
  OBVIOUS
<1> HIDE DEF f
<1>4. /\ new \in Lists /\ Len(new) = Len(list)
      /\ \A j \in 1 .. Len(list) : new[j] = IF j = 1 THEN f ELSE list[j]
  BY <1>1, <1>2, ExceptSeq DEF Lists
<1> HIDE DEF new, e
<1>5. new # <<>> /\ new[1] = f
  BY <1>1, <1>4, ListFacts
<1>6. Tail(new) = Tail(list)
  <2>1. /\ Tail(list) \in Lists /\ Len(Tail(list)) = Len(list) - 1
        /\ \A i \in 1 .. Len(list) - 1 : Tail(list)[i] = list[i + 1]
    BY TailList
  <2>2. /\ Tail(new) \in Lists /\ Len(Tail(new)) = Len(list) - 1
        /\ \A i \in 1 .. Len(list) - 1 : Tail(new)[i] = new[i + 1]
    BY <1>4, <1>5, TailList
  <2>3. \A i \in 1 .. Len(list) - 1 : new[i + 1] = list[i + 1]
    BY <1>1, <1>4
  <2>4. \A i \in 1 .. Len(Tail(new)) : Tail(new)[i] = Tail(list)[i]
    BY <2>1, <2>2, <2>3
  <2>5. Len(Tail(new)) = Len(Tail(list))
    BY <2>1, <2>2
  <2> QED BY <2>1, <2>2, <2>4, <2>5, SeqEqual DEF Lists
<1> DEFINE rest == Unsent(Tail(list), kinds)
<1>7. rest \in ByteSeq
  BY TailList, UnsentIsBytes
<1>8. /\ Unsent(list, kinds) = Part(e, kinds) \o rest
      /\ Unsent(new, kinds) = Part(f, kinds) \o rest
  <2>1. Unsent(list, kinds) = Part(list[1], kinds) \o Unsent(Tail(list), kinds)
    BY UnsentHead
  <2>2. Unsent(new, kinds) = Part(new[1], kinds) \o Unsent(Tail(new), kinds)
    BY <1>4, <1>5, UnsentHead
  <2> QED BY <1>5, <1>6, <2>1, <2>2 DEF e
<1> HIDE DEF rest
<1>9. CASE e.file \in kinds
  <2>1. Part(e, kinds) = r /\ Part(f, kinds) = SubSeq(r, n + 1, Len(r))
    BY <1>2, <1>9 DEF Part
  <2>2. r \in ByteSeq /\ n <= Len(r)
    BY <1>1, RestTyped DEF e
  <2> HIDE DEF r
  <2>3. /\ SubSeq(r, 1, n) \in ByteSeq /\ SubSeq(r, n + 1, Len(r)) \in ByteSeq
        /\ SubSeq(r, 1, n) \o SubSeq(r, n + 1, Len(r)) = r
    BY <2>2, CutBytes
  <2>4. (SubSeq(r, 1, n) \o SubSeq(r, n + 1, Len(r))) \o rest
          = SubSeq(r, 1, n) \o (SubSeq(r, n + 1, Len(r)) \o rest)
    BY <1>7, <2>3, JoinBytes
  <2>5. SubSeq(r, 1, n) \o Unsent(new, kinds) = Unsent(list, kinds)
    BY <1>8, <2>1, <2>3, <2>4
  <2> QED BY <1>3, <1>4, <1>9, <2>5 DEF e, r
<1>10. CASE e.file \notin kinds
  <2>1. Part(e, kinds) = <<>> /\ Part(f, kinds) = <<>>
    BY <1>2, <1>10 DEF Part
  <2>2. Unsent(new, kinds) = Unsent(list, kinds)
    BY <1>8, <2>1
  <2> QED BY <1>3, <1>4, <1>10, <2>2 DEF e
<1> QED BY <1>9, <1>10

-----------------------------------------------------------------------------
(* What the calls do to the write list.                                    *)

LEMMA WholeEntry ==
  ASSUME NEW f \in BOOLEAN, NEW b \in ByteSeq
  PROVE  Rest(Entry(f, b)) = b /\ Entry(f, b).file = f
<1>1. Rest(Entry(f, b)) = SubSeq(b, 1, Len(b)) /\ Entry(f, b).file = f
  BY DEF Rest, Entry
<1> QED BY <1>1, WholeBytes

\* The tail entry with b behind its data.
LEMMA GrownEntry ==
  ASSUME NEW e \in EntryType, NEW b \in ByteSeq
  PROVE  /\ [e EXCEPT !.data = @ \o b] \in EntryType
         /\ [e EXCEPT !.data = @ \o b].file = e.file
         /\ Rest([e EXCEPT !.data = @ \o b]) = Rest(e) \o b
<1> DEFINE d == e.data
           o == e.off
           f == [e EXCEPT !.data = @ \o b]
           r == Rest(e)
<1>1. /\ d \in ByteSeq /\ o \in Nat /\ Len(d) \in Nat /\ o <= Len(d)
      /\ e \in [file : BOOLEAN, data : Seq(Nat), off : Nat]
  BY EntryFacts DEF EntryType
<1>2. /\ d \o b \in ByteSeq /\ Len(d \o b) = Len(d) + Len(b) /\ Len(b) \in Nat
      /\ \A i \in 1 .. Len(d) : (d \o b)[i] = d[i]
      /\ \A i \in 1 .. Len(b) : (d \o b)[Len(d) + i] = b[i]
  BY <1>1, ConcatBytes
<1>3. /\ f \in [file : BOOLEAN, data : Seq(Nat), off : Nat]
      /\ f.file = e.file /\ f.data = d \o b /\ f.off = o
  BY <1>1, <1>2 DEF ByteSeq
<1> HIDE DEF f
<1>4. f \in EntryType
  <2>1. f.off <= Len(f.data)
    BY <1>1, <1>2, <1>3
  <2> QED BY <1>3, <2>1 DEF EntryType
<1>5. /\ r \in ByteSeq /\ Len(r) = Len(d) - o
      /\ \A k \in 1 .. Len(d) - o : r[k] = d[o + k]
  <2>1. r = SubSeq(d, o + 1, Len(d))
    BY DEF Rest
  <2> HIDE DEF d, o, r
  <2> QED BY <1>1, <2>1, PartBytes
<1> DEFINE c == d \o b
           q == Rest(f)
<1>6. /\ q \in ByteSeq /\ Len(q) = (Len(d) - o) + Len(b)
      /\ \A k \in 1 .. (Len(d) - o) + Len(b) : q[k] = c[o + k]
  <2>1. q = SubSeq(c, o + 1, Len(c))
    BY <1>3 DEF Rest
  <2>2. Len(c) = Len(d) + Len(b) /\ c \in ByteSeq
    BY <1>2
  <2> HIDE DEF d, o, q, c
  <2>3. o <= Len(c) /\ Len(c) \in Nat /\ Len(c) - o = (Len(d) - o) + Len(b)
    BY <1>1, <1>2, <2>2
  <2>4. q \in ByteSeq /\ Len(q) = Len(c) - o /\ \A k \in 1 .. Len(c) - o : q[k] = c[o + k]
    BY <1>1, <2>1, <2>2, <2>3, PartBytes
  <2> QED BY <2>3, <2>4
<1>7. /\ r \o b \in ByteSeq /\ Len(r \o b) = Len(r) + Len(b)
      /\ \A i \in 1 .. Len(r) : (r \o b)[i] = r[i]
      /\ \A i \in 1 .. Len(b) : (r \o b)[Len(r) + i] = b[i]
  BY <1>5, ConcatBytes
<1> HIDE DEF d, o, q, r
<1>8. ASSUME NEW k \in 1 .. Len(q) PROVE q[k] = (r \o b)[k]
  <2>1. k \in Int /\ Len(r) \in Nat
    BY <1>1, <1>5, <1>6
  <2>2. CASE k <= Len(r)
    <3>1. k \in 1 .. Len(d) - o /\ k \in 1 .. (Len(d) - o) + Len(b) /\ o + k \in 1 .. Len(d) /\ k \in 1 .. Len(r)
      BY <1>1, <1>2, <1>5, <1>6, <2>2
    <3>2. q[k] = c[o + k] /\ c[o + k] = d[o + k] /\ r[k] = d[o + k]
      BY <1>2, <1>5, <1>6, <3>1
    <3> QED BY <1>7, <3>1, <3>2
  <2>3. CASE k > Len(r)
    <3>1. /\ k \in 1 .. (Len(d) - o) + Len(b) /\ k - Len(r) \in 1 .. Len(b)
          /\ Len(d) + (k - Len(r)) = o + k /\ Len(r) + (k - Len(r)) = k
      BY <1>1, <1>2, <1>5, <1>6, <2>3
    <3>2. q[k] = c[o + k]
      BY <1>6, <3>1
    <3>3. c[Len(d) + (k - Len(r))] = b[k - Len(r)]
      BY <1>2, <3>1
    <3>4. (r \o b)[Len(r) + (k - Len(r))] = b[k - Len(r)]
      BY <1>7, <3>1
    <3> QED BY <3>1, <3>2, <3>3, <3>4
  <2>4. k <= Len(r) \/ k > Len(r)
    BY <2>1
  <2> QED BY <2>2, <2>3, <2>4, Zenon
<1>9. Len(q) = Len(r \o b)
  BY <1>1, <1>2, <1>5, <1>6, <1>7
<1>10. q = r \o b
  BY <1>6, <1>7, <1>8, <1>9, SameBytes
<1> QED BY <1>3, <1>4, <1>10 DEF f, q, r

\* Merged or appended, b comes last, and it counts for left.
LEMMA ListGrows ==
  ASSUME NEW list \in Lists, NEW b \in ByteSeq, NEW kinds, FALSE \in kinds
  PROVE  /\ newToWriteBuf(list, b) \in Lists /\ newToWriteBuf(list, b) # <<>>
         /\ Unsent(newToWriteBuf(list, b), kinds) = Unsent(list, kinds) \o b
<1> DEFINE m == Len(list)
           merge == list # <<>> /\ ~list[m].file /\ Len(list[m].data) + Len(b) <= MaxCache
           e == list[m]
           f == [e EXCEPT !.data = @ \o b]
<1>1. CASE merge
  <2>1. m \in Nat /\ m # 0 /\ m \in 1 .. Len(list) /\ e \in EntryType
    BY <1>1, ListFacts
  <2>2. f \in EntryType /\ f.file = e.file /\ Rest(f) = Rest(e) \o b
    BY <2>1, GrownEntry
  <2>3. newToWriteBuf(list, b) = [list EXCEPT ![Len(list)] = f]
    BY <1>1 DEF newToWriteBuf
  <2>4. e.file = FALSE
    BY <1>1, <2>1, EntryFacts
  <2> HIDE DEF f
  <2>5. Part(f, kinds) = Part(list[Len(list)], kinds) \o b
    BY <2>2, <2>4 DEF Part
  <2>6. list # <<>>
    BY <1>1
  <2> DEFINE new == [list EXCEPT ![Len(list)] = f]
  <2>7. /\ new \in Lists /\ Len(new) = Len(list)
        /\ \A j \in 1 .. Len(list) : new[j] = IF j = Len(list) THEN f ELSE list[j]
    BY <2>1, <2>2, ExceptSeq DEF Lists
  <2> HIDE DEF new, e, merge
  <2>8. new # <<>> /\ new[Len(list)] = f /\ \A i \in 1 .. Len(list) - 1 : new[i] = list[i]
    BY <2>1, <2>7, ListFacts
  <2> HIDE DEF m
  <2>9. Unsent(new, kinds) = Unsent(list, kinds) \o b
    BY <2>5, <2>6, <2>7, <2>8, UnsentLast, Zenon
  <2>10. newToWriteBuf(list, b) = new
    BY <2>3 DEF new
  <2> QED BY <2>7, <2>8, <2>9, <2>10, Zenon
<1>2. CASE ~merge
  <2>1. newToWriteBuf(list, b) = Append(list, Entry(FALSE, b))
    BY <1>2 DEF newToWriteBuf
  <2>2. Entry(FALSE, b) \in EntryType
    BY EntryMade
  <2>3. Part(Entry(FALSE, b), kinds) = b
    BY WholeEntry DEF Part
  <2>4. Append(list, Entry(FALSE, b)) \in Lists /\ Append(list, Entry(FALSE, b)) # <<>>
    BY <2>2, AppendSeq DEF Lists
  <2>5. Unsent(Append(list, Entry(FALSE, b)), kinds)
          = Unsent(list, kinds) \o Part(Entry(FALSE, b), kinds)
    BY <2>2, UnsentAppend, Zenon
  <2> QED BY <2>1, <2>3, <2>4, <2>5, Zenon
<1> QED BY <1>1, <1>2

\* A file comes last too, and does not count.
LEMMA ListGrowsFile ==
  ASSUME NEW list \in Lists, NEW b \in ByteSeq
  PROVE  /\ newToWriteFile(list, b) \in Lists /\ newToWriteFile(list, b) # <<>>
         /\ Unsent(newToWriteFile(list, b), BOOLEAN) = Unsent(list, BOOLEAN) \o b
         /\ Unsent(newToWriteFile(list, b), {FALSE}) = Unsent(list, {FALSE})
<1>1. newToWriteFile(list, b) = Append(list, Entry(TRUE, b))
  BY DEF newToWriteFile
<1>2. Entry(TRUE, b) \in EntryType
  BY EntryMade
<1>3. Part(Entry(TRUE, b), BOOLEAN) = b
  BY WholeEntry DEF Part
<1>4. Part(Entry(TRUE, b), {FALSE}) = <<>>
  BY WholeEntry DEF Part
<1>5. Append(list, Entry(TRUE, b)) \in Lists /\ Append(list, Entry(TRUE, b)) # <<>>
  BY <1>2, AppendSeq DEF Lists
<1>6. Unsent(list, {FALSE}) \o <<>> = Unsent(list, {FALSE})
  BY UnsentIsBytes, EmptyBytes
<1>7. Unsent(Append(list, Entry(TRUE, b)), BOOLEAN) = Unsent(list, BOOLEAN) \o b
  <2>1. Unsent(Append(list, Entry(TRUE, b)), BOOLEAN)
          = Unsent(list, BOOLEAN) \o Part(Entry(TRUE, b), BOOLEAN)
    BY <1>2, UnsentAppend, Zenon
  <2> QED BY <1>3, <2>1, Zenon
<1>8. Unsent(Append(list, Entry(TRUE, b)), {FALSE}) = Unsent(list, {FALSE})
  <2>1. Unsent(Append(list, Entry(TRUE, b)), {FALSE})
          = Unsent(list, {FALSE}) \o Part(Entry(TRUE, b), {FALSE})
    BY <1>2, UnsentAppend, Zenon
  <2> QED BY <1>4, <1>6, <2>1, Zenon
<1> QED BY <1>1, <1>5, <1>7, <1>8

\* The sums over the buffers of a Writev.
UpToFacts(v) ==
  /\ UpTo(v)[0] = 0
  /\ \A k \in 1 .. Len(v) : UpTo(v)[k] = UpTo(v)[k - 1] + v[k]
  /\ \A k \in 0 .. Len(v) : UpTo(v)[k] \in Nat

LEMMA UpToTyped ==
  ASSUME NEW v \in Seq(Nat)
  PROVE  UpToFacts(v)
<1> DEFINE N == Len(v)
           U == UpTo(v)
           step == [n \in 0 .. N - 1 |-> [t \in Nat |-> t + v[n + 1]]]
           F(g) == [k \in 0 .. N |-> IF k = 0 THEN 0 ELSE g[k - 1] + v[k]]
<1>1. N \in Nat /\ \A k \in 1 .. N : v[k] \in Nat
  BY SeqFacts
<1>2. 0 \in Nat
  OBVIOUS
<1>3. \A n \in 0 .. N - 1 : \A t \in Nat : step[n][t] = t + v[n + 1] /\ step[n][t] \in Nat
  <2> TAKE n \in 0 .. N - 1
  <2> TAKE t \in Nat
  <2>1. step[n][t] = t + v[n + 1]
    OBVIOUS
  <2>2. n + 1 \in 1 .. N
    BY <1>1
  <2>3. v[n + 1] \in Nat
    BY <1>1, <2>2
  <2>4. t + v[n + 1] \in Nat
    BY <2>3
  <2> QED BY <2>1, <2>4
<1> HIDE DEF step, N
<1>4. PICK g : /\ g \in [0 .. N -> Nat]
               /\ g[0] = 0 /\ \A n \in 0 .. N - 1 : g[n + 1] = step[n][g[n]]
  <2>1. step \in Steps(N, Nat)
    BY <1>3 DEF step, Steps
  <2>2. \E g : DefinedBy(g, N, Nat, 0, step)
    BY <1>1, <1>2, <2>1, RecursionExists, Zenon
  <2> QED BY <2>2, Zenon DEF DefinedBy
<1>5. g = F(g)
  <2>1. ASSUME NEW k \in 0 .. N PROVE g[k] = IF k = 0 THEN 0 ELSE g[k - 1] + v[k]
    <3>1. CASE k = 0
      BY <1>4, <3>1
    <3>2. CASE k # 0
      <4>1. k - 1 \in 0 .. N - 1 /\ (k - 1) + 1 = k /\ k - 1 \in 0 .. N
        BY <1>1, <3>2
      <4>2. g[k] = step[k - 1][g[k - 1]] /\ g[k - 1] \in Nat
        BY <1>4, <4>1
      <4>3. g[k] = g[k - 1] + v[(k - 1) + 1]
        BY <1>3, <4>1, <4>2
      <4> QED BY <3>2, <4>1, <4>3
    <3> QED BY <3>1, <3>2
  <2> QED BY <1>4, <2>1
<1>6. U = F(U)
  <2>1. U = CHOOSE h : h = F(h)
    BY Zenon DEF UpTo, N
  <2> HIDE DEF F, U
  <2> QED BY <1>5, <2>1, Zenon
<1> HIDE DEF U
<1>7. \A k \in 0 .. N : U[k] = IF k = 0 THEN 0 ELSE U[k - 1] + v[k]
  BY <1>6
<1>8. U[0] = 0 /\ \A k \in 1 .. N : U[k] = U[k - 1] + v[k]
  <2>1. 0 \in 0 .. N /\ \A k \in 1 .. N : k \in 0 .. N /\ k # 0
    BY <1>1
  <2> QED BY <1>7, <2>1, Zenon
<1> DEFINE S == {k \in Nat : k <= N => U[k] \in Nat}
<1>9. Nat \subseteq S
  <2>1. 0 \in S
    BY <1>2, <1>8
  <2>2. ASSUME NEW k \in Nat, k \in S PROVE k + 1 \in S
    <3> SUFFICES ASSUME k + 1 <= N PROVE U[k + 1] \in Nat
      OBVIOUS
    <3>1. U[k] \in Nat /\ k + 1 \in 1 .. N /\ (k + 1) - 1 = k
      BY <1>1, <2>2
    <3>2. U[k + 1] = U[k] + v[k + 1]
      BY <1>8, <3>1
    <3>3. v[k + 1] \in Nat
      BY <1>1, <3>1
    <3> QED BY <3>1, <3>2, <3>3
  <2> HIDE DEF S
  <2> QED BY <2>1, <2>2, SetInduction
<1>10. \A k \in 0 .. N : U[k] \in Nat
  BY <1>1, <1>9
<1> QED BY <1>8, <1>10 DEF UpToFacts, U, N

LEMMA TotalIsNat ==
  ASSUME NEW v \in Seq(Nat)
  PROVE  Total(v) \in Nat
<1>1. Len(v) \in 0 .. Len(v)
  BY SeqFacts
<1>2. \A k \in 0 .. Len(v) : UpTo(v)[k] \in Nat
  BY UpToTyped, Zenon DEF UpToFacts
<1> QED BY <1>1, <1>2 DEF Total

\* The buffer in which byte n lies ends at byte n or later, and not behind
\* the last one.
LEMMA EndOfBufferIn ==
  ASSUME NEW v \in Seq(Nat), NEW n \in Nat, 0 < n, n <= Total(v)
  PROVE  EndOfBuffer(v, n) \in n .. Total(v)
<1> DEFINE N == Len(v)
           U == UpTo(v)
           P(k) == U[k] >= n /\ U[k - 1] < n
<1>1. N \in Nat /\ \A k \in 1 .. N : v[k] \in Nat
  BY SeqFacts
<1>2. /\ U[0] = 0 /\ (\A k \in 1 .. N : U[k] = U[k - 1] + v[k])
      /\ \A k \in 0 .. N : U[k] \in Nat
  BY UpToTyped, Zenon DEF UpToFacts
<1>3. U[N] >= n
  BY DEF Total
<1> HIDE DEF U, N
<1>4. \E k \in 1 .. N : P(k)
  <2> DEFINE T == {k \in 0 .. N : U[k] >= n}
  <2>1. T \subseteq Nat /\ T # {}
    BY <1>1, <1>3
  <2>2. PICK x \in T : \A y \in T : x <= y
    <3> HIDE DEF T
    <3> QED BY <2>1, LeastNumber
  <2>3. x # 0
    BY <1>2, <2>2
  <2>4. x \in 1 .. N /\ x - 1 \in 0 .. N /\ x - 1 \notin T
    BY <1>1, <2>2, <2>3
  <2>5. U[x - 1] < n /\ U[x] >= n
    BY <1>2, <2>2, <2>4
  <2> QED BY <2>4, <2>5
<1>5. PICK k \in 1 .. N : P(k) /\ EndOfBuffer(v, n) = U[k]
  <2>1. EndOfBuffer(v, n) = U[CHOOSE k \in 1 .. N : P(k)]
    BY DEF EndOfBuffer, U, N
  <2> HIDE DEF P
  <2>2. (CHOOSE k \in 1 .. N : P(k)) \in 1 .. N /\ P(CHOOSE k \in 1 .. N : P(k))
    BY <1>4, Zenon
  <2> QED BY <2>1, <2>2, Zenon
<1> DEFINE S == {i \in Nat : k + i <= N => U[k] <= U[k + i]}
<1>6. Nat \subseteq S
  <2>0. k \in Nat /\ k <= N /\ k \in 0 .. N
    BY <1>1
  <2>1. 0 \in S
    <3>1. k + 0 = k /\ U[k] \in Nat
      BY <1>2, <2>0
    <3> QED BY <3>1
  <2>2. ASSUME NEW i \in Nat, i \in S PROVE i + 1 \in S
    <3> SUFFICES ASSUME k + (i + 1) <= N PROVE U[k] <= U[k + (i + 1)]
      OBVIOUS
    <3>1. U[k] <= U[k + i]
      BY <1>1, <2>0, <2>2
    <3>2. k + (i + 1) \in 1 .. N /\ (k + (i + 1)) - 1 = k + i /\ k + i \in 0 .. N
      BY <1>1, <2>0
    <3>3. U[k + (i + 1)] = U[k + i] + v[k + (i + 1)]
      BY <1>2, <3>2
    <3>4. v[k + (i + 1)] \in Nat /\ U[k + i] \in Nat /\ U[k] \in Nat
      BY <1>1, <1>2, <2>0, <3>2
    <3> QED BY <3>1, <3>3, <3>4
  <2> HIDE DEF S
  <2> QED BY <2>1, <2>2, SetInduction
<1>7. U[k] <= U[N]
  <2>1. N - k \in Nat /\ k + (N - k) = N
    BY <1>1
  <2>2. N - k \in S
    BY <1>6, <2>1
  <2> QED BY <1>1, <2>1, <2>2
<1>8. U[k] \in Nat /\ U[N] \in Nat /\ Total(v) = U[N]
  BY <1>1, <1>2 DEF Total, U, N
<1> QED BY <1>5, <1>7, <1>8

\* All buffers of a Writev, one after the other.
LEMMA ListGrowsBy ==
  ASSUME NEW list \in Lists, list # <<>>, NEW v \in Seq(Nat), NEW m \in Nat \ {0},
         NEW kinds, FALSE \in kinds
  PROVE  /\ AddBuffers(list, v, m) \in Lists /\ AddBuffers(list, v, m) # <<>>
         /\ Unsent(AddBuffers(list, v, m), kinds) = Unsent(list, kinds) \o Bytes(m, Total(v))
<1> DEFINE N == Len(v)
           U == UpTo(v)
           B(k) == Bytes(m + U[k - 1], v[k])
           step == [n \in 0 .. N - 1 |-> [t \in Lists |-> newToWriteBuf(t, B(n + 1))]]
           F(g) == [k \in 0 .. N |-> IF k = 0 THEN list ELSE newToWriteBuf(g[k - 1], B(k))]
           L == CHOOSE h : h = F(h)
<1>0. AddBuffers(list, v, m) = L[N]
  BY Zenon DEF AddBuffers
<1>1. N \in Nat /\ \A k \in 1 .. N : v[k] \in Nat
  BY SeqFacts
<1>2. /\ U[0] = 0 /\ (\A k \in 1 .. N : U[k] = U[k - 1] + v[k])
      /\ \A k \in 0 .. N : U[k] \in Nat
  BY UpToTyped, Zenon DEF UpToFacts
<1>t. Total(v) = U[N]
  BY DEF Total
<1> HIDE DEF U, N
<1>3. ASSUME NEW k \in 1 .. N PROVE B(k) \in ByteSeq
  <2>1. k - 1 \in 0 .. N
    BY <1>1
  <2>2. U[k - 1] \in Nat /\ v[k] \in Nat
    BY <1>1, <1>2, <2>1
  <2>3. m + U[k - 1] \in Nat \ {0}
    BY <2>2
  <2> QED BY <2>2, <2>3, BytesTyped
<1>4. \A n \in 0 .. N - 1 : \A t \in Lists :
        step[n][t] = newToWriteBuf(t, B(n + 1)) /\ step[n][t] \in Lists
  <2> TAKE n \in 0 .. N - 1
  <2> TAKE t \in Lists
  <2>1. step[n][t] = newToWriteBuf(t, B(n + 1))
    OBVIOUS
  <2>2. n + 1 \in 1 .. N
    BY <1>1
  <2>3. B(n + 1) \in ByteSeq
    BY <1>3, <2>2
  <2> HIDE DEF B, step
  <2>4. newToWriteBuf(t, B(n + 1)) \in Lists
    BY <2>3, ListGrows, Zenon
  <2> QED BY <2>1, <2>4, Zenon
<1> HIDE DEF B, step
<1>5. PICK g : /\ g \in [0 .. N -> Lists]
               /\ g[0] = list /\ \A n \in 0 .. N - 1 : g[n + 1] = step[n][g[n]]
  <2>1. step \in Steps(N, Lists)
    BY <1>4 DEF step, Steps
  <2>2. \E g : DefinedBy(g, N, Lists, list, step)
    BY <1>1, <2>1, RecursionExists, Zenon
  <2> QED BY <2>2, Zenon DEF DefinedBy
<1>6. g = F(g)
  <2>1. ASSUME NEW k \in 0 .. N PROVE g[k] = IF k = 0 THEN list ELSE newToWriteBuf(g[k - 1], B(k))
    <3>1. CASE k = 0
      BY <1>5, <3>1
    <3>2. CASE k # 0
      <4>1. k - 1 \in 0 .. N - 1 /\ (k - 1) + 1 = k /\ k - 1 \in 0 .. N
        BY <1>1, <3>2
      <4>2. g[k] = step[k - 1][g[k - 1]] /\ g[k - 1] \in Lists
        BY <1>5, <4>1
      <4>3. g[k] = newToWriteBuf(g[k - 1], B((k - 1) + 1))
        BY <1>4, <4>1, <4>2
      <4> QED BY <3>2, <4>1, <4>3
    <3> QED BY <3>1, <3>2
  <2> QED BY <1>5, <2>1
<1>7. L = F(L)
  <2> HIDE DEF F
  <2> QED BY <1>6, Zenon
<1> HIDE DEF L
<1>8. \A k \in 0 .. N : L[k] = IF k = 0 THEN list ELSE newToWriteBuf(L[k - 1], B(k))
  BY <1>7
<1>9. L[0] = list /\ \A k \in 1 .. N : L[k] = newToWriteBuf(L[k - 1], B(k))
  <2>1. 0 \in 0 .. N /\ \A k \in 1 .. N : k \in 0 .. N /\ k # 0
    BY <1>1
  <2> QED BY <1>8, <2>1, Zenon
<1> DEFINE Q(k) == /\ L[k] \in Lists /\ L[k] # <<>>
                   /\ Unsent(L[k], kinds) = Unsent(list, kinds) \o Bytes(m, U[k])
           S == {k \in Nat : k <= N => Q(k)}
<1>10. Unsent(list, kinds) \in ByteSeq
  BY UnsentIsBytes, Zenon
<1>11. 0 \in S
  <2>1. Bytes(m, 0) \in ByteSeq /\ Len(Bytes(m, 0)) = 0
    BY BytesTyped
  <2>2. Bytes(m, 0) = <<>>
    BY <2>1, SeqFacts DEF ByteSeq
  <2>3. Q(0)
    BY <1>2, <1>9, <1>10, <2>2, EmptyBytes, Zenon
  <2> HIDE DEF Q
  <2> QED BY <2>3
<1>12. ASSUME NEW k \in Nat, k \in S PROVE k + 1 \in S
  <2> SUFFICES ASSUME k + 1 <= N PROVE Q(k + 1)
    OBVIOUS
  <2>1. Q(k) /\ k + 1 \in 1 .. N /\ (k + 1) - 1 = k /\ k \in 0 .. N
    <3> HIDE DEF Q
    <3> QED BY <1>1, <1>12
  <2>2. L[k + 1] = newToWriteBuf(L[k], B(k + 1)) /\ B(k + 1) \in ByteSeq
    BY <1>3, <1>9, <2>1
  <2>3. /\ L[k + 1] \in Lists /\ L[k + 1] # <<>>
        /\ Unsent(L[k + 1], kinds) = Unsent(L[k], kinds) \o B(k + 1)
    <3>1. L[k] \in Lists /\ B(k + 1) \in ByteSeq
      BY <2>1, <2>2
    <3>2. /\ newToWriteBuf(L[k], B(k + 1)) \in Lists /\ newToWriteBuf(L[k], B(k + 1)) # <<>>
          /\ Unsent(newToWriteBuf(L[k], B(k + 1)), kinds) = Unsent(L[k], kinds) \o B(k + 1)
      BY <3>1, ListGrows, Zenon
    <3> QED BY <2>2, <3>2
  <2>4. B(k + 1) = Bytes(m + U[k], v[k + 1]) /\ U[k + 1] = U[k] + v[k + 1]
    BY <1>2, <2>1 DEF B
  <2>5. U[k] \in Nat /\ v[k + 1] \in Nat /\ Bytes(m, U[k]) \in ByteSeq
    <3>1. U[k] \in Nat /\ v[k + 1] \in Nat
      BY <1>1, <1>2, <2>1
    <3> QED BY <3>1, BytesTyped, Zenon
  <2>6. Bytes(m, U[k]) \o B(k + 1) = Bytes(m, U[k + 1])
    BY <2>4, <2>5, BytesJoin
  <2>7. (Unsent(list, kinds) \o Bytes(m, U[k])) \o B(k + 1)
          = Unsent(list, kinds) \o (Bytes(m, U[k]) \o B(k + 1))
    BY <1>10, <2>2, <2>5, JoinBytes, Zenon
  <2> QED BY <2>1, <2>3, <2>6, <2>7, Zenon
<1>13. Q(N)
  <2>1. Nat \subseteq S
    <3> HIDE DEF S
    <3> QED BY <1>11, <1>12, SetInduction
  <2> HIDE DEF Q
  <2> QED BY <1>1, <2>1
<1> QED BY <1>0, <1>t, <1>13, Zenon

-----------------------------------------------------------------------------
(* The inductive invariant.                                                *)

\* A sequence of bytes in the order of their numbers, all below m.
Ascending(s, m) ==
  /\ \A i, j \in 1 .. Len(s) : i < j => s[i] < s[j]
  /\ \A i \in 1 .. Len(s) : s[i] < m

StreamInv == Ascending(Accepted, next)

\* Where the poller can be, and what a closed Conn holds.
Control ==
  /\ closed => writeList = <<>>
  /\ pc = "flush" => ~closed
  /\ ~dialed => ~onConnected /\ pc \notin {"connected", "connmod"}
  /\ pc \in {"check", "reset"} => mode = "ONESHOT"

IInv == TypeOK /\ Control /\ StreamInv /\ LeftExact /\ ReportedIsKept /\ WriteEventSet

\* The part of the type that the data of a step needs.
DataOK ==
  /\ writeList \in Lists /\ out \in ByteSeq /\ left \in Nat /\ next \in Nat \ {0}
  /\ drained \in 0 .. Len(out) /\ Space \in 0 .. SndBuf

LEMMA DataTyped == TypeOK => DataOK
  BY BoundsAssumption DEF TypeOK, DataOK, Lists, ByteSeq

\* The bytes t, below m + n, begin with those of s and hold the k from m on.
Longer(s, t, m, k, n) ==
  /\ Ascending(t, m + n)
  /\ \A x \in m .. (m + k) - 1 : \E i \in 1 .. Len(t) : t[i] = x
  /\ \A j \in 1 .. Len(s) : j \in 1 .. Len(t) /\ t[j] = s[j]

\* A run of new bytes, or fewer, behind what is in order.
LEMMA AscendingGrows ==
  ASSUME NEW s \in ByteSeq, NEW m \in Nat \ {0}, Ascending(s, m), NEW n \in Nat, NEW k \in Nat, k <= n
  PROVE  Longer(s, s \o Bytes(m, k), m, k, n)
<1> DEFINE b == Bytes(m, k)
           t == s \o b
<1>1. b \in ByteSeq /\ Len(b) = k /\ \A i \in 1 .. k : b[i] = (m + i) - 1
  BY BytesTyped
<1> HIDE DEF b
<1>2. /\ t \in ByteSeq /\ Len(t) = Len(s) + k /\ Len(s) \in Nat
      /\ \A i \in 1 .. Len(s) : t[i] = s[i]
      /\ \A i \in 1 .. k : t[Len(s) + i] = b[i]
  BY <1>1, ConcatBytes
<1> HIDE DEF t
<1>3. /\ \A i, j \in 1 .. Len(s) : i < j => s[i] < s[j]
      /\ \A i \in 1 .. Len(s) : s[i] < m
      /\ \A i \in 1 .. Len(s) : s[i] \in Nat
  BY SeqFacts DEF Ascending, ByteSeq
<1>4. \A i \in 1 .. Len(t) : i \in 1 .. Len(s) \/ (i - Len(s) \in 1 .. k /\ Len(s) + (i - Len(s)) = i)
  BY <1>2
<1>5. ASSUME NEW i \in 1 .. Len(t)
      PROVE  (i \in 1 .. Len(s) /\ t[i] = s[i]) \/ (i \notin 1 .. Len(s) /\ t[i] = (m + (i - Len(s))) - 1)
  <2>1. CASE i \in 1 .. Len(s)
    BY <1>2, <2>1
  <2>2. CASE i \notin 1 .. Len(s)
    <3>1. i - Len(s) \in 1 .. k /\ Len(s) + (i - Len(s)) = i
      BY <1>4, <2>2
    <3>2. t[Len(s) + (i - Len(s))] = b[i - Len(s)]
      BY <1>2, <3>1
    <3>3. b[i - Len(s)] = (m + (i - Len(s))) - 1
      BY <1>1, <3>1
    <3> QED BY <2>2, <3>1, <3>2, <3>3
  <2> QED BY <2>1, <2>2
<1>6. ASSUME NEW i \in 1 .. Len(t), NEW j \in 1 .. Len(t), i < j PROVE t[i] < t[j]
  <2>1. i \in Int /\ j \in Int /\ Len(s) \in Int /\ i >= 1 /\ j >= 1
    BY <1>2
  <2>2. CASE j \in 1 .. Len(s)
    <3>1. i \in 1 .. Len(s)
      BY <1>6, <2>1, <2>2
    <3>2. t[i] = s[i] /\ t[j] = s[j]
      BY <1>2, <2>2, <3>1
    <3> QED BY <1>3, <1>6, <2>2, <3>1, <3>2
  <2>3. CASE j \notin 1 .. Len(s)
    <3>1. t[j] = (m + (j - Len(s))) - 1
      BY <1>5, <2>3
    <3>2. j > Len(s)
      BY <2>1, <2>3
    <3>3. CASE i \in 1 .. Len(s)
      <4>1. t[i] = s[i] /\ s[i] < m /\ s[i] \in Nat
        BY <1>2, <1>3, <3>3
      <4> QED BY <2>1, <3>1, <3>2, <4>1
    <3>4. CASE i \notin 1 .. Len(s)
      <4>1. t[i] = (m + (i - Len(s))) - 1
        BY <1>5, <3>4
      <4> QED BY <1>6, <2>1, <3>1, <4>1
    <3> QED BY <3>3, <3>4
  <2> QED BY <2>2, <2>3
<1>7. ASSUME NEW i \in 1 .. Len(t) PROVE t[i] < m + n
  <2>1. CASE i \in 1 .. Len(s)
    <3>1. t[i] = s[i] /\ s[i] < m /\ s[i] \in Nat
      BY <1>2, <1>3, <2>1
    <3> QED BY <3>1
  <2>2. CASE i \notin 1 .. Len(s)
    <3>1. t[i] = (m + (i - Len(s))) - 1 /\ i - Len(s) \in 1 .. k
      BY <1>4, <1>5, <2>2
    <3> QED BY <3>1
  <2> QED BY <2>1, <2>2
<1>8. Ascending(t, m + n)
  BY <1>6, <1>7 DEF Ascending
<1>9. ASSUME NEW x \in m .. (m + k) - 1 PROVE \E i \in 1 .. Len(t) : t[i] = x
  <2>1. (x - m) + 1 \in 1 .. k /\ Len(s) + ((x - m) + 1) \in 1 .. Len(t)
    BY <1>2
  <2>2. t[Len(s) + ((x - m) + 1)] = b[(x - m) + 1]
    BY <1>2, <2>1
  <2>3. b[(x - m) + 1] = x
    BY <1>1, <2>1
  <2> QED BY <2>1, <2>2, <2>3
<1>10. \A j \in 1 .. Len(s) : j \in 1 .. Len(t) /\ t[j] = s[j]
  BY <1>2
<1>11. Longer(s, t, m, k, n)
  BY <1>8, <1>9, <1>10, Zenon DEF Longer
<1> QED BY <1>11 DEF t, b

\* A beginning of what is in order.
LEMMA AscendingStart ==
  ASSUME NEW s \in ByteSeq, NEW u \in ByteSeq, NEW m \in Nat, Ascending(s \o u, m), NEW n \in Nat
  PROVE  Ascending(s, m + n)
<1> DEFINE t == s \o u
<1>1. /\ Len(t) = Len(s) + Len(u) /\ Len(s) \in Nat /\ Len(u) \in Nat
      /\ \A i \in 1 .. Len(s) : t[i] = s[i]
  BY ConcatBytes
<1>2. \A i \in 1 .. Len(s) : s[i] \in Nat
  BY SeqFacts DEF ByteSeq
<1>3. Ascending(t, m)
  OBVIOUS
<1> HIDE DEF t
<1>4. \A i \in 1 .. Len(s) : i \in 1 .. Len(t)
  BY <1>1
<1>5. \A i, j \in 1 .. Len(s) : i < j => s[i] < s[j]
  BY <1>1, <1>3, <1>4 DEF Ascending
<1>6. ASSUME NEW i \in 1 .. Len(s) PROVE s[i] < m + n
  <2>1. t[i] < m /\ t[i] = s[i]
    BY <1>1, <1>3, <1>4 DEF Ascending
  <2> QED BY <1>2, <2>1
<1> QED BY <1>5, <1>6 DEF Ascending

LEMMA TakesIn ==
  ASSUME DataOK, NEW n \in Nat
  PROVE  Takes(n) \in Nat /\ Takes(n) <= n /\ Takes(n) <= Space
<1>1. Space \in Int /\ Space >= 0
  BY SizesAssumption DEF DataOK
<1> HIDE DEF Space
<1> QED BY <1>1 DEF Takes

LEMMA Sent ==
  ASSUME DataOK, NEW b \in ByteSeq, NEW n \in Nat, n <= Len(b), n <= Space, Send(b, n)
  PROVE  /\ out' = out \o SubSeq(b, 1, n) /\ out' \in ByteSeq
         /\ drained' \in 0 .. Len(out') /\ Space' \in 0 .. SndBuf
<1>1. out' = out \o SubSeq(b, 1, n) /\ drained' = drained
  BY DEF Send
<1>2. SubSeq(b, 1, n) \in ByteSeq /\ Len(SubSeq(b, 1, n)) = n
  BY CutBytes
<1>3. out' \in ByteSeq /\ Len(out') = Len(out) + n /\ Len(out) \in Nat
  BY <1>1, <1>2, ConcatBytes DEF DataOK
<1>4. drained' \in 0 .. Len(out')
  BY <1>1, <1>3 DEF DataOK
<1>5. Space' = SndBuf - ((Len(out) + n) - drained)
  BY <1>1, <1>3 DEF Space
<1>6. Space' = Space - n
  BY <1>3, <1>5, SizesAssumption DEF Space, DataOK
<1>7. Space \in 0 .. SndBuf
  BY DEF DataOK
<1> QED BY <1>1, <1>3, <1>4, <1>6, <1>7, SizesAssumption

-----------------------------------------------------------------------------
(* What a step does to the bytes accepted and to left.                     *)

LEMMA Kinds == FALSE \in BOOLEAN /\ FALSE \in {FALSE}
  OBVIOUS

LEMMA BufferAdded ==
  ASSUME NEW list \in Lists, NEW b \in ByteSeq
  PROVE  /\ newToWriteBuf(list, b) \in Lists /\ newToWriteBuf(list, b) # <<>>
         /\ Unsent(newToWriteBuf(list, b), BOOLEAN) = Unsent(list, BOOLEAN) \o b
         /\ Unsent(newToWriteBuf(list, b), {FALSE}) = Unsent(list, {FALSE}) \o b
  BY Kinds, ListGrows, Zenon

LEMMA BuffersAdded ==
  ASSUME NEW list \in Lists, list # <<>>, NEW v \in Seq(Nat), NEW m \in Nat \ {0}
  PROVE  /\ AddBuffers(list, v, m) \in Lists /\ AddBuffers(list, v, m) # <<>>
         /\ Unsent(AddBuffers(list, v, m), BOOLEAN) = Unsent(list, BOOLEAN) \o Bytes(m, Total(v))
         /\ Unsent(AddBuffers(list, v, m), {FALSE}) = Unsent(list, {FALSE}) \o Bytes(m, Total(v))
  BY Kinds, ListGrowsBy, Zenon

LEMMA AcceptedTyped ==
  ASSUME DataOK
  PROVE  /\ Accepted = out \o Unsent(writeList, BOOLEAN) /\ Accepted \in ByteSeq
         /\ Unsent(writeList, BOOLEAN) \in ByteSeq /\ Unsent(writeList, {FALSE}) \in ByteSeq
         /\ BufBytes(writeList) \in Nat
<1>1. writeList \in Lists /\ out \in ByteSeq
  BY DEF DataOK
<1>2. Unsent(writeList, BOOLEAN) \in ByteSeq /\ Unsent(writeList, {FALSE}) \in ByteSeq
  BY <1>1, UnsentIsBytes, Zenon
<1>3. Accepted = out \o Unsent(writeList, BOOLEAN)
  BY Zenon DEF Accepted, Cached
<1>4. Accepted \in ByteSeq
  BY <1>1, <1>2, <1>3, ConcatBytes
<1>5. BufBytes(writeList) \in Nat
  BY <1>2, SeqFacts DEF BufBytes, ByteSeq
<1> QED BY <1>2, <1>3, <1>4, <1>5

LEMMA EmptyList ==
  ASSUME DataOK, writeList = <<>>
  PROVE  Accepted = out /\ BufBytes(writeList) = 0
<1>1. Unsent(writeList, BOOLEAN) = <<>> /\ Unsent(writeList, {FALSE}) = <<>>
  BY UnsentEmpty
<1>2. Accepted = out \o <<>>
  BY <1>1, AcceptedTyped
<1>3. out \in ByteSeq
  BY DEF DataOK
<1> QED BY <1>1, <1>2, <1>3, EmptyBytes DEF BufBytes

\* The kernel takes x, which it does only when nothing is cached before, and
\* y is cached.
LEMMA HandedOver ==
  ASSUME DataOK, NEW x \in ByteSeq, NEW y \in ByteSeq, out' = out \o x,
         Unsent(writeList', BOOLEAN) = Unsent(writeList, BOOLEAN) \o y,
         writeList = <<>> \/ x = <<>>
  PROVE  Accepted' = Accepted \o (x \o y)
<1> DEFINE c == Unsent(writeList, BOOLEAN)
<1>1. out \in ByteSeq /\ c \in ByteSeq /\ Accepted = out \o c
  BY AcceptedTyped DEF DataOK
<1>2. Accepted' = (out \o x) \o (c \o y)
  <2>1. Accepted' = out' \o Unsent(writeList', BOOLEAN)
    BY Zenon DEF Accepted, Cached
  <2> QED BY <2>1
<1>3. CASE writeList = <<>>
  <2>1. c = <<>>
    BY <1>3, UnsentEmpty
  <2>2. c \o y = y /\ out \o c = out
    BY <1>1, <2>1, EmptyBytes
  <2>3. (out \o x) \o y = out \o (x \o y)
    BY <1>1, JoinBytes
  <2> QED BY <1>1, <1>2, <2>2, <2>3, Zenon
<1>4. CASE x = <<>>
  <2>1. out \o x = out /\ x \o y = y
    BY <1>1, <1>4, EmptyBytes
  <2>2. (out \o c) \o y = out \o (c \o y)
    BY <1>1, JoinBytes
  <2> QED BY <1>1, <1>2, <2>1, <2>2, Zenon
<1> QED BY <1>3, <1>4

LEMMA LeftGrows ==
  ASSUME DataOK, left = BufBytes(writeList), NEW y \in ByteSeq,
         Unsent(writeList', {FALSE}) = Unsent(writeList, {FALSE}) \o y
  PROVE  BufBytes(writeList') = left + Len(y) /\ left + Len(y) \in Nat /\ Len(y) \in Nat
<1>1. BufBytes(writeList') = Len(Unsent(writeList', {FALSE}))
  BY DEF BufBytes
<1>2. Unsent(writeList, {FALSE}) \in ByteSeq /\ left \in Nat
  BY AcceptedTyped DEF DataOK
<1>3. Len(Unsent(writeList, {FALSE}) \o y) = Len(Unsent(writeList, {FALSE})) + Len(y) /\ Len(y) \in Nat
  BY <1>2, ConcatBytes
<1> QED BY <1>1, <1>2, <1>3 DEF BufBytes

\* The state of the data after a step.
DataNext == /\ writeList' \in Lists /\ out' \in ByteSeq /\ drained' \in 0 .. Len(out')
            /\ Space' \in 0 .. SndBuf

\* The first k of the bytes b go to the kernel, and c, which is next, to the
\* end of the list.
LEMMA SentAndCached ==
  ASSUME DataOK, left = BufBytes(writeList), writeList = <<>>,
         NEW b \in ByteSeq, NEW k \in Nat, k <= Len(b), k <= Space, Send(b, k),
         NEW s \in Nat, k < s, s <= Len(b),
         writeList' = newToWriteBuf(writeList, SubSeq(b, k + 1, s))
  PROVE  /\ DataNext /\ writeList' # <<>>
         /\ Accepted' = Accepted \o (SubSeq(b, 1, k) \o SubSeq(b, k + 1, s))
         /\ BufBytes(writeList') = left + (s - k)
<1>1. /\ out' = out \o SubSeq(b, 1, k) /\ out' \in ByteSeq
      /\ drained' \in 0 .. Len(out') /\ Space' \in 0 .. SndBuf
  BY Sent
<1>2. SubSeq(b, 1, k) \in ByteSeq
  BY CutBytes
<1>3. SubSeq(b, k + 1, s) \in ByteSeq /\ Len(SubSeq(b, k + 1, s)) = s - k
  BY PartBytes
<1>4. writeList \in Lists
  BY DEF DataOK
<1> DEFINE x == SubSeq(b, 1, k)
           y == SubSeq(b, k + 1, s)
<1> HIDE DEF x, y
<1>5. /\ writeList' \in Lists /\ writeList' # <<>>
      /\ Unsent(writeList', BOOLEAN) = Unsent(writeList, BOOLEAN) \o y
      /\ Unsent(writeList', {FALSE}) = Unsent(writeList, {FALSE}) \o y
  <2>1. writeList' = newToWriteBuf(writeList, y) /\ y \in ByteSeq
    BY <1>3 DEF y
  <2> QED BY <1>4, <2>1, BufferAdded, Zenon
<1>6. Accepted' = Accepted \o (x \o y)
  <2>1. x \in ByteSeq /\ y \in ByteSeq /\ out' = out \o x
    BY <1>1, <1>2, <1>3 DEF x, y
  <2> QED BY <1>5, <2>1, HandedOver, Zenon
<1>7. BufBytes(writeList') = left + Len(y)
  BY <1>3, <1>5, LeftGrows DEF y
<1> QED BY <1>1, <1>3, <1>5, <1>6, <1>7 DEF DataNext, x, y

\* All of b is taken by the kernel.
LEMMA AllSent ==
  ASSUME DataOK, writeList = <<>>, NEW b \in ByteSeq, NEW k \in Nat, k <= Len(b), k <= Space,
         Send(b, k), UNCHANGED writeList
  PROVE  DataNext /\ Accepted' = Accepted \o SubSeq(b, 1, k)
<1>1. /\ out' = out \o SubSeq(b, 1, k) /\ out' \in ByteSeq
      /\ drained' \in 0 .. Len(out') /\ Space' \in 0 .. SndBuf
  BY Sent
<1>2. writeList' \in Lists /\ writeList' = <<>>
  BY DEF DataOK
<1>3. Accepted' = out' \o Unsent(writeList', BOOLEAN)
  BY Zenon DEF Accepted, Cached
<1>4. Unsent(writeList', BOOLEAN) = <<>>
  BY <1>2, UnsentEmpty
<1>5. Accepted' = out'
  BY <1>1, <1>3, <1>4, EmptyBytes
<1>6. Accepted = out
  BY EmptyList
<1> QED BY <1>1, <1>2, <1>5, <1>6 DEF DataNext

\* write accepts all bytes of the buffer, and left grows by the bytes cached.
LEMMA WriteAccepts ==
  ASSUME DataOK, left = BufBytes(writeList), NEW n \in Nat \ {0}, write(Bytes(next, n))
  PROVE  /\ DataNext /\ Accepted' = Accepted \o Bytes(next, n)
         /\ left' = BufBytes(writeList') /\ left' \in Nat /\ left' <= left + n
         /\ closed' = closed
<1> DEFINE b == Bytes(next, n)
           k == IF writeList = <<>> THEN Takes(Len(b)) ELSE 0
<1>1. next \in Nat \ {0} /\ writeList \in Lists /\ left \in Nat
  BY DEF DataOK
<1>2. b \in ByteSeq /\ Len(b) = n
  BY <1>1, BytesTyped
<1>3. /\ IF writeList = <<>> THEN Send(b, k) ELSE UNCHANGED wire
      /\ writeList' = IF k = Len(b) THEN writeList
                      ELSE newToWriteBuf(writeList, SubSeq(b, k + 1, Len(b)))
      /\ left' = left + Len(b) - k
      /\ closed' = closed
  BY DEF write
<1> HIDE DEF b
<1>4. CASE writeList = <<>>
  <2>1. k \in Nat /\ k <= Len(b) /\ k <= Space /\ k = Takes(Len(b))
    BY <1>2, <1>4, TakesIn
  <2>2. Send(b, k)
    BY <1>3, <1>4
  <2> HIDE DEF k
  <2>3. CASE k = Len(b)
    <3>1. UNCHANGED writeList /\ left' = left
      BY <1>1, <1>2, <1>3, <2>3
    <3>2. DataNext /\ Accepted' = Accepted \o SubSeq(b, 1, k)
      BY <1>2, <1>4, <2>1, <2>2, <3>1, AllSent
    <3>3. SubSeq(b, 1, k) = b
      BY <1>2, <2>3, WholeBytes
    <3>4. left' = BufBytes(writeList') /\ left' \in Nat /\ left' <= left + n
      BY <1>1, <3>1
    <3> QED BY <1>3, <3>2, <3>3, <3>4 DEF b
  <2>4. CASE k # Len(b)
    <3>1. k < Len(b) /\ Len(b) \in Nat /\ Len(b) <= Len(b)
      BY <1>2, <2>1, <2>4
    <3>2. writeList' = newToWriteBuf(writeList, SubSeq(b, k + 1, Len(b)))
      BY <1>3, <2>4
    <3>3. /\ DataNext
          /\ Accepted' = Accepted \o (SubSeq(b, 1, k) \o SubSeq(b, k + 1, Len(b)))
          /\ BufBytes(writeList') = left + (Len(b) - k)
      BY <1>2, <1>4, <2>1, <2>2, <3>1, <3>2, SentAndCached
    <3>4. SubSeq(b, 1, k) \o SubSeq(b, k + 1, Len(b)) = b
      BY <1>2, <2>1, CutBytes
    <3>5. left' = left + (Len(b) - k) /\ left' \in Nat /\ left' <= left + n
      BY <1>1, <1>2, <1>3, <2>1, <3>1
    <3> QED BY <1>3, <3>3, <3>4, <3>5 DEF b
  <2> QED BY <2>3, <2>4
<1>5. CASE writeList # <<>>
  <2>1. k = 0 /\ UNCHANGED wire
    BY <1>3, <1>5
  <2> HIDE DEF k
  <2>2. writeList' = newToWriteBuf(writeList, b) /\ left' = left + Len(b)
    <3>1. k # Len(b)
      BY <1>2, <2>1
    <3>2. SubSeq(b, k + 1, Len(b)) = b
      BY <1>2, <2>1, WholeBytes
    <3>3. left' = left + Len(b)
      BY <1>1, <1>2, <1>3, <2>1
    <3> QED BY <1>3, <3>1, <3>2, <3>3
  <2>3. /\ writeList' \in Lists
        /\ Unsent(writeList', BOOLEAN) = Unsent(writeList, BOOLEAN) \o b
        /\ Unsent(writeList', {FALSE}) = Unsent(writeList, {FALSE}) \o b
    BY <1>1, <1>2, <2>2, BufferAdded, Zenon
  <2>4. out' = out /\ drained' = drained
    BY <2>1 DEF wire
  <2>5. DataNext
    BY <2>3, <2>4 DEF DataNext, DataOK, Space
  <2>6. Accepted' = Accepted \o (<<>> \o b)
    <3>1. <<>> \in ByteSeq /\ out' = out \o <<>> /\ (writeList = <<>> \/ <<>> = <<>>)
      BY <2>4, EmptyBytes DEF DataOK
    <3> QED BY <1>2, <2>3, <3>1, HandedOver
  <2>7. <<>> \o b = b
    BY <1>2, EmptyBytes
  <2>8. BufBytes(writeList') = left + Len(b) /\ left + Len(b) \in Nat
    BY <1>2, <2>3, LeftGrows
  <2>9. left' <= left + n
    BY <1>1, <1>2, <2>2
  <2> QED BY <1>3, <2>2, <2>5, <2>6, <2>7, <2>8, <2>9 DEF b
<1> QED BY <1>4, <1>5

\* A run of bytes and the one after it, as parts of a call's bytes.
Within(m, k, s, n) == m \in Nat \ {0} /\ n \in Nat /\ k \in Nat /\ s \in Nat /\ k <= s /\ s <= n

LEMMA RunPart ==
  \A m, i, j, n : Within(m, i, j, n) => SubSeq(Bytes(m, n), i + 1, j) = Bytes(m + i, j - i)
  BY BytesPart DEF Within

LEMMA RunStart ==
  \A m, k, s, n : Within(m, k, s, n) => SubSeq(Bytes(m, n), 1, k) = Bytes(m, k)
<1> SUFFICES ASSUME NEW m, NEW k, NEW s, NEW n, Within(m, k, s, n)
             PROVE  SubSeq(Bytes(m, n), 1, k) = Bytes(m, k)
  OBVIOUS
<1>1. Within(m, 0, k, n) /\ m \in Nat \ {0} /\ k \in Nat
  BY DEF Within
<1>2. SubSeq(Bytes(m, n), 0 + 1, k) = Bytes(m + 0, k - 0)
  BY <1>1, RunPart, Zenon
<1>3. 0 + 1 = 1 /\ m + 0 = m /\ k - 0 = k
  BY <1>1
<1> QED BY <1>2, <1>3

LEMMA RunCut ==
  \A m, k, s, n : Within(m, k, s, n) =>
    SubSeq(Bytes(m, n), 1, k) \o SubSeq(Bytes(m, n), k + 1, s) = Bytes(m, s)
<1> SUFFICES ASSUME NEW m, NEW k, NEW s, NEW n, Within(m, k, s, n)
             PROVE  SubSeq(Bytes(m, n), 1, k) \o SubSeq(Bytes(m, n), k + 1, s) = Bytes(m, s)
  OBVIOUS
<1>1. SubSeq(Bytes(m, n), 1, k) = Bytes(m, k)
  BY RunStart, Zenon
<1>2. SubSeq(Bytes(m, n), k + 1, s) = Bytes(m + k, s - k)
  BY RunPart, Zenon
<1>3. s - k \in Nat /\ k + (s - k) = s /\ m \in Nat \ {0} /\ k \in Nat
  BY DEF Within
<1>4. Bytes(m, k) \o Bytes(m + k, s - k) = Bytes(m, k + (s - k))
  BY <1>3, BytesJoin
<1> QED BY <1>1, <1>2, <1>3, <1>4

\* Writev behind cached data accepts all its buffers.
LEMMA WritevCaches ==
  ASSUME DataOK, left = BufBytes(writeList), NEW v \in Seq(Nat), writeList # <<>>,
         writeList' = AddBuffers(writeList, v, next), left' = left + Total(v), UNCHANGED wire
  PROVE  /\ DataNext /\ Accepted' = Accepted \o Bytes(next, Total(v)) /\ writeList' # <<>>
         /\ left' = BufBytes(writeList') /\ left' \in Nat
<1> DEFINE n == Total(v)
           b == Bytes(next, n)
<1>1. next \in Nat \ {0} /\ writeList \in Lists /\ n \in Nat
  BY TotalIsNat DEF DataOK
<1>2. b \in ByteSeq /\ Len(b) = n
  BY <1>1, BytesTyped
<1>3. /\ writeList' \in Lists /\ writeList' # <<>>
      /\ Unsent(writeList', BOOLEAN) = Unsent(writeList, BOOLEAN) \o b
      /\ Unsent(writeList', {FALSE}) = Unsent(writeList, {FALSE}) \o b
  BY <1>1, BuffersAdded, Zenon
<1> HIDE DEF b
<1>4. out' = out /\ drained' = drained
  BY DEF wire
<1>5. DataNext
  BY <1>3, <1>4 DEF DataNext, DataOK, Space
<1>6. Accepted' = Accepted \o (<<>> \o b)
  <2>1. <<>> \in ByteSeq /\ out' = out \o <<>> /\ (writeList = <<>> \/ <<>> = <<>>)
    BY <1>4, EmptyBytes DEF DataOK
  <2> QED BY <1>2, <1>3, <2>1, HandedOver
<1>7. <<>> \o b = b
  BY <1>2, EmptyBytes
<1>8. BufBytes(writeList') = left + Len(b) /\ left + Len(b) \in Nat
  BY <1>2, <1>3, LeftGrows
<1> QED BY <1>2, <1>3, <1>5, <1>6, <1>7, <1>8 DEF b

\* Writev with nothing cached accepts its buffers up to the end of the one in
\* which the kernel stopped.
SendsBuffers(size, n, stop) ==
  /\ Send(Bytes(next, size), n)
  /\ writeList' = IF n < stop THEN newToWriteBuf(<<>>, SubSeq(Bytes(next, size), n + 1, stop)) ELSE <<>>
  /\ left' = left + stop - n

LEMMA WritevSends ==
  ASSUME DataOK, left = BufBytes(writeList), writeList = <<>>,
         NEW size \in Nat, NEW n \in Nat, n <= size, n <= Space, NEW stop \in n .. size,
         SendsBuffers(size, n, stop)
  PROVE  /\ DataNext /\ Accepted' = Accepted \o Bytes(next, stop)
         /\ left' = BufBytes(writeList') /\ left' \in Nat /\ left' <= left + size
<1> DEFINE b == Bytes(next, size)
<1>1. next \in Nat \ {0} /\ writeList \in Lists /\ left \in Nat /\ stop \in Nat /\ n <= stop /\ stop <= size
  BY DEF DataOK
<1>2. b \in ByteSeq /\ Len(b) = size
  BY <1>1, BytesTyped
<1>3. /\ SubSeq(b, 1, n) = Bytes(next, n)
      /\ SubSeq(b, 1, n) \o SubSeq(b, n + 1, stop) = Bytes(next, stop)
  <2>1. Within(next, n, stop, size)
    BY <1>1 DEF Within
  <2>2. SubSeq(b, 1, n) = Bytes(next, n)
    BY <2>1, RunStart, Zenon
  <2>3. SubSeq(b, 1, n) \o SubSeq(b, n + 1, stop) = Bytes(next, stop)
    BY <2>1, RunCut, Zenon
  <2> QED BY <2>2, <2>3
<1>4. Send(b, n)
  BY DEF SendsBuffers
<1>5. left' = left + (stop - n) /\ left' \in Nat /\ left' <= left + size
  <2>1. left' = left + stop - n
    BY DEF SendsBuffers
  <2> QED BY <1>1, <2>1
<1>6. CASE n < stop
  <2>1. writeList' = newToWriteBuf(writeList, SubSeq(b, n + 1, stop))
    BY <1>6 DEF SendsBuffers
  <2> HIDE DEF b
  <2>2. /\ DataNext
        /\ Accepted' = Accepted \o (SubSeq(b, 1, n) \o SubSeq(b, n + 1, stop))
        /\ BufBytes(writeList') = left + (stop - n)
    BY <1>1, <1>2, <1>4, <1>6, <2>1, SentAndCached
  <2> QED BY <1>3, <1>5, <2>2
<1>7. CASE ~(n < stop)
  <2>1. n = stop /\ UNCHANGED writeList
    BY <1>1, <1>7 DEF SendsBuffers
  <2> HIDE DEF b
  <2>2. DataNext /\ Accepted' = Accepted \o SubSeq(b, 1, n)
    BY <1>2, <1>4, <2>1, AllSent
  <2>3. left' = left
    BY <1>1, <1>5, <2>1
  <2> QED BY <1>3, <1>5, <2>1, <2>2, <2>3
<1> QED BY <1>6, <1>7

\* A file that waits behind cached data.
LEMMA FileCached ==
  ASSUME DataOK, NEW n \in Nat, writeList' = newToWriteFile(writeList, Bytes(next, n)), UNCHANGED wire
  PROVE  /\ DataNext /\ Accepted' = Accepted \o Bytes(next, n) /\ writeList' # <<>>
         /\ BufBytes(writeList') = BufBytes(writeList)
<1> DEFINE b == Bytes(next, n)
<1>1. b \in ByteSeq /\ writeList \in Lists
  BY BytesTyped DEF DataOK
<1>2. writeList' = newToWriteFile(writeList, b)
  OBVIOUS
<1> HIDE DEF b
<1>3. /\ writeList' \in Lists /\ writeList' # <<>>
      /\ Unsent(writeList', BOOLEAN) = Unsent(writeList, BOOLEAN) \o b
      /\ Unsent(writeList', {FALSE}) = Unsent(writeList, {FALSE})
  BY <1>1, <1>2, ListGrowsFile, Zenon
<1>4. out' = out /\ drained' = drained
  BY DEF wire
<1>5. DataNext
  BY <1>3, <1>4 DEF DataNext, DataOK, Space
<1>6. Accepted' = Accepted \o (<<>> \o b)
  <2>1. <<>> \in ByteSeq /\ out' = out \o <<>> /\ (writeList = <<>> \/ <<>> = <<>>)
    BY <1>4, EmptyBytes DEF DataOK
  <2> QED BY <1>1, <1>3, <2>1, HandedOver
<1>7. <<>> \o b = b
  BY <1>1, EmptyBytes
<1> QED BY <1>3, <1>5, <1>6, <1>7 DEF b, BufBytes

\* A file of which the kernel takes a part.
SendsFile(n, k) ==
  /\ Send(Bytes(next, n), k)
  /\ writeList' = newToWriteFile(<<>>, SubSeq(Bytes(next, n), k + 1, n))

LEMMA FileSent ==
  ASSUME DataOK, writeList = <<>>, NEW n \in Nat, NEW k \in Nat, k <= n, k <= Space, SendsFile(n, k)
  PROVE  /\ DataNext /\ Accepted' = Accepted \o Bytes(next, n) /\ writeList' # <<>>
         /\ BufBytes(writeList') = BufBytes(writeList)
<1> DEFINE b == Bytes(next, n)
           x == SubSeq(b, 1, k)
           y == SubSeq(b, k + 1, n)
<1>1. b \in ByteSeq /\ Len(b) = n /\ writeList \in Lists
  BY BytesTyped DEF DataOK
<1>2. x \o y = Bytes(next, n)
  <2>1. Within(next, k, n, n)
    BY DEF DataOK, Within
  <2> QED BY <2>1, RunCut, Zenon
<1>3. x \in ByteSeq /\ y \in ByteSeq
  <2> HIDE DEF b
  <2> QED BY <1>1, CutBytes
<1>4. /\ out' = out \o x /\ out' \in ByteSeq
      /\ drained' \in 0 .. Len(out') /\ Space' \in 0 .. SndBuf
  <2>1. Send(b, k)
    BY DEF SendsFile
  <2> HIDE DEF b
  <2> QED BY <1>1, <2>1, Sent
<1>5. writeList' = newToWriteFile(writeList, y)
  BY DEF SendsFile
<1> HIDE DEF x, y
<1>6. /\ writeList' \in Lists /\ writeList' # <<>>
      /\ Unsent(writeList', BOOLEAN) = Unsent(writeList, BOOLEAN) \o y
      /\ Unsent(writeList', {FALSE}) = Unsent(writeList, {FALSE})
  BY <1>1, <1>3, <1>5, ListGrowsFile, Zenon
<1>7. Accepted' = Accepted \o (x \o y)
  BY <1>3, <1>4, <1>6, HandedOver, Zenon
<1> QED BY <1>2, <1>4, <1>6, <1>7 DEF DataNext, BufBytes

\* One system call of flush: the first k bytes of the head go to the kernel.
Shorter(list, k) ==
  IF k = Len(Rest(list[1])) THEN Tail(list) ELSE [list EXCEPT ![1].off = @ + k]
Flushes(k) == Send(Rest0, k) /\ writeList' = Shorter(writeList, k)

LEMMA HeadFlushed ==
  ASSUME NEW list \in Lists, list # <<>>, NEW k \in Nat, k <= Len(Rest(list[1])), NEW kinds
  PROVE  /\ Shorter(list, k) \in Lists
         /\ list[1].file \in kinds =>
              SubSeq(Rest(list[1]), 1, k) \o Unsent(Shorter(list, k), kinds) = Unsent(list, kinds)
         /\ list[1].file \notin kinds => Unsent(Shorter(list, k), kinds) = Unsent(list, kinds)
<1> DEFINE new == Shorter(list, k)
<1>1. list[1] \in EntryType /\ Tail(list) \in Lists
  BY TailList
<1>2. CASE k = Len(Rest(list[1]))
  <2>1. new = Tail(list)
    BY <1>2 DEF Shorter
  <2>2. Unsent(list, kinds) = Part(list[1], kinds) \o Unsent(Tail(list), kinds)
    BY UnsentHead, Zenon
  <2>3. SubSeq(Rest(list[1]), 1, k) = Rest(list[1])
    BY <1>1, <1>2, RestTyped, WholeBytes
  <2>4. Unsent(Tail(list), kinds) \in ByteSeq
    BY <1>1, UnsentIsBytes, Zenon
  <2>5. list[1].file \in kinds => SubSeq(Rest(list[1]), 1, k) \o Unsent(new, kinds) = Unsent(list, kinds)
    BY <2>1, <2>2, <2>3, Zenon DEF Part
  <2>6. list[1].file \notin kinds => Unsent(new, kinds) = Unsent(list, kinds)
    <3>1. ASSUME list[1].file \notin kinds PROVE Part(list[1], kinds) = <<>>
      BY <3>1, Zenon DEF Part
    <3>2. <<>> \o Unsent(Tail(list), kinds) = Unsent(Tail(list), kinds)
      BY <2>4, EmptyBytes, Zenon
    <3> QED BY <2>1, <2>2, <3>1, <3>2, Zenon
  <2>7. new \in Lists
    BY <1>1, <2>1, Zenon
  <2> QED BY <2>5, <2>6, <2>7, Zenon
<1>3. CASE k # Len(Rest(list[1]))
  <2>1. new = [list EXCEPT ![1].off = @ + k]
    BY <1>3 DEF Shorter
  <2>2. /\ [list EXCEPT ![1].off = @ + k] \in Lists
        /\ list[1].file \in kinds =>
             SubSeq(Rest(list[1]), 1, k) \o Unsent([list EXCEPT ![1].off = @ + k], kinds)
               = Unsent(list, kinds)
        /\ list[1].file \notin kinds =>
             Unsent([list EXCEPT ![1].off = @ + k], kinds) = Unsent(list, kinds)
    BY UnsentAdvance, Zenon
  <2> QED BY <2>1, <2>2, Zenon
<1> QED BY <1>2, <1>3

LEMMA FlushKeeps ==
  ASSUME DataOK, writeList # <<>>, NEW k \in Nat, k <= Len(Rest0), k <= Space, Flushes(k)
  PROVE  /\ DataNext /\ Accepted' = Accepted
         /\ ~Head(writeList).file => BufBytes(writeList) = k + BufBytes(writeList')
         /\ Head(writeList).file => BufBytes(writeList) = BufBytes(writeList')
<1> DEFINE e == writeList[1]
           x == SubSeq(Rest(e), 1, k)
           c == Unsent(writeList', BOOLEAN)
           d == Unsent(writeList', {FALSE})
<1>1. writeList \in Lists /\ e \in EntryType /\ Head(writeList) = e /\ out \in ByteSeq
  BY TailList DEF DataOK
<1>2. Rest0 = Rest(e) /\ k <= Len(Rest(e)) /\ Rest(e) \in ByteSeq
  BY <1>1, RestTyped DEF Rest0
<1>3. e.file \in BOOLEAN
  BY <1>1, EntryFacts
<1>4. writeList' = Shorter(writeList, k)
  BY <1>2, Zenon DEF Flushes
<1>5. writeList' \in Lists
  BY <1>1, <1>2, <1>4, HeadFlushed, Zenon
<1>6. x \o c = Unsent(writeList, BOOLEAN)
  BY <1>1, <1>2, <1>3, <1>4, HeadFlushed, Zenon
<1>7. ~e.file => x \o d = Unsent(writeList, {FALSE})
  <2>1. ~e.file => e.file \in {FALSE}
    BY <1>3
  <2> QED BY <1>1, <1>2, <1>4, <2>1, HeadFlushed, Zenon
<1>8. e.file => d = Unsent(writeList, {FALSE})
  <2> SUFFICES ASSUME e.file PROVE d = Unsent(writeList, {FALSE})
    OBVIOUS
  <2>1. e.file \notin {FALSE}
    BY <1>3
  <2> QED BY <1>1, <1>2, <1>4, <2>1, HeadFlushed, Zenon
<1>9. /\ out' = out \o x /\ out' \in ByteSeq
      /\ drained' \in 0 .. Len(out') /\ Space' \in 0 .. SndBuf
  <2>1. Send(Rest(e), k)
    BY <1>2, Zenon DEF Flushes
  <2> HIDE DEF e
  <2> QED BY <1>2, <2>1, Sent
<1>10. c \in ByteSeq /\ d \in ByteSeq
  BY <1>5, UnsentIsBytes, Zenon
<1>11. x \in ByteSeq /\ Len(x) = k
  <2> HIDE DEF e
  <2> QED BY <1>2, CutBytes
<1> HIDE DEF x, e
<1>12. Accepted' = out' \o c
  BY Zenon DEF Accepted, Cached
<1>13. Accepted = out \o Unsent(writeList, BOOLEAN)
  BY AcceptedTyped
<1> HIDE DEF c
<1>14. (out \o x) \o c = out \o (x \o c)
  BY <1>1, <1>10, <1>11, JoinBytes
<1>15. Accepted' = Accepted
  BY <1>6, <1>9, <1>12, <1>13, <1>14
<1>16. BufBytes(writeList') = Len(d) /\ BufBytes(writeList) = Len(Unsent(writeList, {FALSE}))
  BY DEF BufBytes
<1> HIDE DEF d
<1>17. ~e.file => BufBytes(writeList) = k + BufBytes(writeList')
  <2>1. Len(x \o d) = Len(x) + Len(d)
    BY <1>10, <1>11, ConcatBytes
  <2> QED BY <1>7, <1>11, <1>16, <2>1
<1>18. e.file => BufBytes(writeList) = BufBytes(writeList')
  BY <1>8, <1>16
<1> QED BY <1>1, <1>5, <1>9, <1>15, <1>17, <1>18 DEF DataNext

-----------------------------------------------------------------------------
(* Control and the write event.                                            *)

Still == UNCHANGED <<mode, dialed, closed, writeList, isWAdded, onConnected, interest, pc>>

LEMMA ControlStill ==
  ASSUME Control, WriteEventSet, Still
  PROVE  Control' /\ WriteEventSet'
  BY DEF Control, WriteEventSet, Still

\* A call that closes the Conn, and close itself.
LEMMA ControlCloses ==
  ASSUME Control, pc # "flush", Release, UNCHANGED <<mode, dialed, pc>>
  PROVE  Control' /\ WriteEventSet'
  BY DEF Control, WriteEventSet, Release

\* A call that may cache something, and then asks for the write event.
EventAsked ==
  \/ writeList' = <<>> /\ UNCHANGED <<isWAdded, interest>>
  \/ /\ isWAdded' /\ (isWAdded => interest' = interest)
     /\ ~isWAdded => interest' = IF mode = "ET" THEN interest ELSE {"in", "out"}

LEMMA AfterWriteAsks ==
  AfterWrite(writeList', out') \/ AfterWrite(writeList', out) \/ modWrite(out') => EventAsked
  BY DEF EventAsked, AfterWrite, modWrite, Mod, epoll

LEMMA ControlAsks ==
  ASSUME Control, WriteEventSet, ~closed, pc # "flush", EventAsked,
         UNCHANGED <<mode, dialed, closed, onConnected, pc>>
  PROVE  Control' /\ WriteEventSet'
<1>1. Control'
  BY DEF Control
<1>2. CASE writeList' = <<>> /\ UNCHANGED <<isWAdded, interest>>
  BY <1>1, <1>2 DEF WriteEventSet
<1>3. CASE /\ isWAdded' /\ (isWAdded => interest' = interest)
           /\ ~isWAdded => interest' = IF mode = "ET" THEN interest ELSE {"in", "out"}
  <2>1. ASSUME ~dialed, mode = "LT" PROVE "out" \in interest'
    <3>1. CASE isWAdded
      BY <1>3, <2>1, <3>1 DEF WriteEventSet
    <3>2. CASE ~isWAdded
      BY <1>3, <2>1, <3>2
    <3> QED BY <3>1, <3>2
  <2> QED BY <1>1, <1>3, <2>1 DEF WriteEventSet
<1> QED BY <1>2, <1>3 DEF EventAsked

LEMMA ControlCall ==
  ASSUME Control, WriteEventSet,
         \/ \E n \in Sizes : Write(n) \/ Sendfile(n)
         \/ \E v \in Vecs : Writev(v)
  PROVE  Control' /\ WriteEventSet'
<1>1. ASSUME NEW n \in Sizes, Write(n) PROVE Control' /\ WriteEventSet'
  <2>1. MayCall /\ UNCHANGED <<mode, dialed, poll>>
    BY <1>1 DEF Write
  <2>2. ~closed /\ pc # "flush" /\ UNCHANGED <<mode, dialed, pc>>
    BY <2>1 DEF MayCall, poll
  <2>3. CallFails \/ write(Bytes(next, n))
    BY <1>1, Zenon DEF Write
  <2>4. CASE CallFails
    BY <2>2, <2>4, ControlCloses DEF CallFails
  <2>5. CASE write(Bytes(next, n))
    <3>1. AfterWrite(writeList', out') /\ UNCHANGED <<closed, onConnected>>
      BY <2>5 DEF write
    <3> QED BY <2>2, <3>1, AfterWriteAsks, ControlAsks
  <2> QED BY <2>3, <2>4, <2>5
<1>2. ASSUME NEW v \in Vecs, Writev(v) PROVE Control' /\ WriteEventSet'
  <2>1. MayCall /\ UNCHANGED <<mode, dialed, poll>>
    BY <1>2 DEF Writev
  <2>2. ~closed /\ pc # "flush" /\ UNCHANGED <<mode, dialed, pc>>
    BY <2>1 DEF MayCall, poll
  <2>3. \/ CallFails
        \/ AfterWrite(writeList', out) /\ UNCHANGED <<closed, onConnected>>
        \/ AfterWrite(writeList', out') /\ UNCHANGED <<closed, onConnected>>
    BY <1>2 DEF Writev
  <2>4. CASE CallFails
    BY <2>2, <2>4, ControlCloses DEF CallFails
  <2>5. CASE AfterWrite(writeList', out) /\ UNCHANGED <<closed, onConnected>>
    BY <2>2, <2>5, AfterWriteAsks, ControlAsks
  <2>6. CASE AfterWrite(writeList', out') /\ UNCHANGED <<closed, onConnected>>
    BY <2>2, <2>6, AfterWriteAsks, ControlAsks
  <2> QED BY <2>3, <2>4, <2>5, <2>6
<1>3. ASSUME NEW n \in Sizes, Sendfile(n) PROVE Control' /\ WriteEventSet'
  <2>1. MayCall /\ UNCHANGED <<mode, dialed, poll>>
    BY <1>3 DEF Sendfile
  <2>2. ~closed /\ pc # "flush" /\ UNCHANGED <<mode, dialed, pc>>
    BY <2>1 DEF MayCall, poll
  <2>3. \/ writeList # <<>> /\ UNCHANGED <<closed, isWAdded, onConnected, epoll>>
        \/ CallFails
        \/ UNCHANGED <<closed, writeList, isWAdded, onConnected, epoll>>
        \/ modWrite(out') /\ UNCHANGED <<closed, onConnected>>
    BY <1>3 DEF Sendfile
  <2>4. CASE writeList # <<>> /\ UNCHANGED <<closed, isWAdded, onConnected, epoll>>
    BY <2>2, <2>4 DEF Control, WriteEventSet, epoll
  <2>5. CASE CallFails
    BY <2>2, <2>5, ControlCloses DEF CallFails
  <2>6. CASE UNCHANGED <<closed, writeList, isWAdded, onConnected, epoll>>
    BY <2>2, <2>6, ControlStill DEF Still, epoll
  <2>7. CASE modWrite(out') /\ UNCHANGED <<closed, onConnected>>
    BY <2>2, <2>7, AfterWriteAsks, ControlAsks
  <2> QED BY <2>3, <2>4, <2>5, <2>6, <2>7
<1> QED BY <1>1, <1>2, <1>3

\* closeWithError, when c.mux is free.
LEMMA ControlClose ==
  ASSUME Control, WriteEventSet, pc # "flush", closeWithError, UNCHANGED <<mode, dialed, interest>>,
         pc' # "flush", ~dialed => pc' \notin {"connected", "connmod"},
         pc' \in {"check", "reset"} => mode = "ONESHOT"
  PROVE  Control' /\ WriteEventSet'
<1>1. CASE closed /\ UNCHANGED conn
  <2>1. UNCHANGED <<closed, writeList, isWAdded, onConnected>>
    BY <1>1 DEF conn
  <2>2. closed' /\ writeList' = <<>>
    BY <1>1, <2>1 DEF Control
  <2>3. ~dialed' => ~onConnected'
    BY <2>1 DEF Control
  <2> QED BY <2>2, <2>3 DEF Control, WriteEventSet
<1>2. CASE Release
  <2>1. closed' = TRUE /\ writeList' = <<>> /\ onConnected' = onConnected
    BY <1>2 DEF Release
  <2>2. ~dialed' => ~onConnected'
    BY <2>1 DEF Control
  <2> QED BY <2>1, <2>2 DEF Control, WriteEventSet
<1> QED BY <1>1, <1>2 DEF closeWithError

LEMMA ControlUser ==
  ASSUME Control, WriteEventSet,
         \/ Close \/ SetWriteDeadline \/ SetDialDeadline \/ TimerFires \/ WriteTimeout
         \/ PeerAccepts \/ PeerReads \/ PeerSends \/ PeerCloses
  PROVE  Control' /\ WriteEventSet'
<1>1. CASE Close \/ WriteTimeout
  <2>1. pc # "flush" /\ closeWithError /\ UNCHANGED <<mode, dialed, interest, pc>>
    BY <1>1 DEF Close, WriteTimeout, MayCall, epoll, poll
  <2>2. pc' # "flush" /\ (~dialed => pc' \notin {"connected", "connmod"})
        /\ (pc' \in {"check", "reset"} => mode = "ONESHOT")
    BY <2>1 DEF Control
  <2> QED BY <2>1, <2>2, ControlClose
<1>2. CASE SetWriteDeadline \/ SetDialDeadline \/ TimerFires
  <2>1. Still
    BY <1>2 DEF SetWriteDeadline, SetDialDeadline, TimerFires, Still, conn, epoll, poll
  <2> QED BY <2>1, ControlStill
<1>3. CASE PeerAccepts \/ PeerReads \/ PeerSends \/ PeerCloses
  <2>1. Still
    BY <1>3 DEF PeerAccepts, PeerReads, PeerSends, PeerCloses, Wake, Still, conn, epoll, poll
  <2> QED BY <2>1, ControlStill
<1> QED BY <1>1, <1>2, <1>3

\* The poller moves on, and the rest stays or matters no more.
LEMMA ControlMoves ==
  ASSUME Control, WriteEventSet, UNCHANGED <<mode, dialed, closed, writeList, isWAdded, onConnected>>,
         pc' = "flush" => ~closed, ~dialed => pc' \notin {"connected", "connmod"},
         pc' \in {"check", "reset"} => mode = "ONESHOT",
         ~closed /\ ~dialed /\ mode = "LT" => ("out" \in interest' <=> "out" \in interest)
  PROVE  Control' /\ WriteEventSet'
<1>1. Control'
  BY DEF Control
<1>2. WriteEventSet'
  BY DEF WriteEventSet
<1> QED BY <1>1, <1>2

LEMMA ControlPoller ==
  ASSUME TypeOK, Control, WriteEventSet, Poller
  PROVE  Control' /\ WriteEventSet'
<1>1. CASE EpollWait
  <2>1. UNCHANGED <<mode, dialed, closed, writeList, isWAdded, onConnected>>
    BY <1>1 DEF EpollWait, conn
  <2>2. pc' \in {"wait", "write", "read"} /\ (mode # "ONESHOT" => interest' = interest)
    BY <1>1 DEF EpollWait
  <2> QED BY <2>1, <2>2, ControlMoves
<1>2. CASE OnConnected
  <2>1. /\ UNCHANGED <<mode, dialed, closed, writeList, isWAdded, onConnected, interest>>
        /\ onConnected /\ pc' = "connected"
    BY <1>2 DEF OnConnected, conn, epoll
  <2>2. dialed
    BY <2>1 DEF Control
  <2> QED BY <2>1, <2>2, ControlMoves
<1>3. CASE ConnectedReset
  <2>1. /\ pc = "connected" /\ pc' \in {"connmod", "read"}
        /\ UNCHANGED <<mode, dialed, closed, writeList>>
    BY <1>3 DEF ConnectedReset
  <2>2. dialed
    BY <2>1 DEF Control
  <2>3. dialed' /\ (closed' => writeList' = <<>>) /\ pc' # "flush" /\ pc' \notin {"check", "reset"}
    BY <2>1, <2>2 DEF Control
  <2> QED BY <2>3 DEF Control, WriteEventSet
<1>4. CASE ConnectedMod
  <2>1. pc = "connmod" /\ pc' = "read" /\ UNCHANGED <<mode, dialed, closed, writeList, isWAdded, onConnected>>
    BY <1>4 DEF ConnectedMod, conn
  <2>2. dialed
    BY <2>1 DEF Control
  <2> QED BY <2>1, <2>2, ControlMoves
<1>5. CASE FlushBegin
  <2>1. /\ UNCHANGED <<mode, dialed, closed, writeList, isWAdded, onConnected, interest>>
        /\ pc' \in {"read", "flush"} /\ (pc' = "flush" => ~closed)
    BY <1>5 DEF FlushBegin, conn, epoll
  <2> QED BY <2>1, ControlMoves
<1>6. CASE writeBuffer \/ writeFile
  <2>1. /\ pc = "flush" /\ writeList # <<>>
        /\ UNCHANGED <<mode, dialed, closed, isWAdded, onConnected, interest, pc>>
    BY <1>6 DEF writeBuffer, writeFile, epoll, poll
  <2>2. ~closed
    BY <2>1 DEF Control
  <2> QED BY <2>1, <2>2 DEF Control, WriteEventSet
<1>7. CASE FlushAgain
  <2>1. /\ pc' = "read" /\ UNCHANGED <<mode, dialed, closed, writeList, isWAdded, onConnected>>
        /\ (mode # "ONESHOT" => interest' = interest)
    BY <1>7 DEF FlushAgain, conn, epoll
  <2> QED BY <2>1, ControlMoves
<1>8. CASE FlushError
  <2>1. /\ pc' = "read" /\ closed' = TRUE /\ writeList' = <<>>
        /\ UNCHANGED <<mode, dialed, onConnected>>
    BY <1>8 DEF FlushError, Release
  <2>2. ~dialed' => ~onConnected'
    BY <2>1 DEF Control
  <2> QED BY <2>1, <2>2 DEF Control, WriteEventSet
<1>9. CASE FlushDone
  <2>1. /\ pc' = "read" /\ writeList = <<>> /\ UNCHANGED <<mode, dialed, closed, writeList, onConnected>>
        /\ \/ isWAdded' = FALSE /\ interest' = IF mode = "ET" THEN interest ELSE {"in"}
           \/ UNCHANGED <<isWAdded, interest>>
    BY <1>9 DEF FlushDone, Mod, epoll
  <2>2. Control'
    BY <2>1 DEF Control
  <2>3. WriteEventSet'
    BY <2>1 DEF WriteEventSet
  <2> QED BY <2>2, <2>3
<1>10. CASE Reading
  <2>1. /\ pc = "read" /\ UNCHANGED <<mode, dialed, interest>>
        /\ pc' = IF "in" \in ev /\ mode = "ONESHOT" THEN "check" ELSE AfterRead
        /\ closeWithError \/ UNCHANGED conn
    BY <1>10 DEF Reading, epoll
  <2>2. pc' \in {"check", "wait", "err"} /\ (pc' = "check" => mode = "ONESHOT")
    BY <2>1 DEF AfterRead
  <2>3. CASE closeWithError
    BY <2>1, <2>2, <2>3, ControlClose
  <2>4. CASE UNCHANGED conn
    <3>1. UNCHANGED <<closed, writeList, isWAdded, onConnected>>
      BY <2>4 DEF conn
    <3> QED BY <2>1, <2>2, <3>1, ControlMoves
  <2> QED BY <2>1, <2>3, <2>4
<1>11. CASE ResetCheck
  <2>1. /\ pc = "check" /\ UNCHANGED <<mode, dialed, closed, writeList, isWAdded, onConnected, interest>>
        /\ pc' \in {"wait", "err", "reset"}
    BY <1>11 DEF ResetCheck, AfterRead, conn, epoll
  <2>2. mode = "ONESHOT"
    BY <2>1 DEF Control
  <2> QED BY <2>1, <2>2, ControlMoves
<1>12. CASE ResetMod
  <2>1. /\ pc = "reset" /\ UNCHANGED <<mode, dialed, closed, writeList, isWAdded, onConnected>>
        /\ pc' \in {"wait", "err"}
    BY <1>12 DEF ResetMod, AfterRead, conn
  <2>2. mode = "ONESHOT"
    BY <2>1 DEF Control
  <2> QED BY <2>1, <2>2, ControlMoves
<1>13. CASE PollError
  <2>1. pc = "err" /\ pc' = "wait" /\ closeWithError /\ UNCHANGED <<mode, dialed, interest>>
    BY <1>13 DEF PollError, epoll
  <2> QED BY <2>1, ControlClose
<1> QED BY <1>1, <1>2, <1>3, <1>4, <1>5, <1>6, <1>7, <1>8, <1>9, <1>10, <1>11, <1>12, <1>13
        DEF Poller, Flush

LEMMA ControlStep ==
  ASSUME TypeOK, Control, WriteEventSet, [Next]_vars
  PROVE  Control' /\ WriteEventSet'
<1>1. CASE UNCHANGED vars
  <2>1. Still
    BY <1>1 DEF vars, Still, conn, epoll, poll
  <2> QED BY <2>1, ControlStill
<1>2. CASE Next
  BY <1>2, ControlCall, ControlUser, ControlPoller DEF Next
<1> QED BY <1>1, <1>2

-----------------------------------------------------------------------------
(* The bytes.                                                              *)

\* What is accepted stays as it is; the step may send or drain.
Same == /\ DataNext /\ Accepted' = Accepted /\ UNCHANGED <<closed, next, owed, given, dupFailed>>

\* A call hands over n bytes: it accepts the first s and reports r.
Grown(n, s, r) ==
  /\ DataNext /\ Accepted' = Accepted \o Bytes(next, s) /\ closed' = closed
  /\ next' = next + n /\ s <= n /\ r <= n /\ (r <= s \/ dupFailed')
  /\ dupFailed => dupFailed'
  /\ owed' = owed \cup (next .. next + r - 1)

\* The Conn is closed; what was cached is dropped.
Shut(n) == /\ DataNext /\ closed' = TRUE /\ writeList' = <<>> /\ out' = out /\ next' = next + n

DataStep == \/ Same
            \/ \E n, s, r \in Nat : Grown(n, s, r)
            \/ \E n \in Nat : Shut(n)

LEMMA GrownStream ==
  ASSUME DataOK, StreamInv, ReportedIsKept, NEW n \in Nat, NEW s \in Nat, NEW r \in Nat, Grown(n, s, r)
  PROVE  StreamInv' /\ ReportedIsKept'
<1> DEFINE A == Accepted
           B == A \o Bytes(next, s)
<1>1. A \in ByteSeq /\ next \in Nat \ {0} /\ Len(A) \in Nat
  BY AcceptedTyped, SeqFacts DEF DataOK, ByteSeq
<1>2. Ascending(A, next)
  BY DEF StreamInv
<1>3. Accepted' = B /\ next' = next + n /\ s <= n
  BY DEF Grown
<1>4. /\ Ascending(B, next + n)
      /\ \A x \in next .. (next + s) - 1 : \E i \in 1 .. Len(B) : B[i] = x
      /\ \A j \in 1 .. Len(A) : j \in 1 .. Len(B) /\ B[j] = A[j]
  <2>1. Longer(A, B, next, s, n)
    <3> HIDE DEF A
    <3> QED BY <1>1, <1>2, <1>3, AscendingGrows
  <2> QED BY <2>1, Zenon DEF Longer
<1> HIDE DEF A, B
<1>5. StreamInv'
  <2>1. StreamInv' <=> Ascending(Accepted', next')
    BY DEF StreamInv, Ascending
  <2> QED BY <1>3, <1>4, <2>1
<1>6. ASSUME ~closed', ~dupFailed' PROVE owed' \subseteq {B[k] : k \in DOMAIN B}
  <2>1. ~closed /\ ~dupFailed /\ r <= s /\ owed' = owed \cup (next .. next + r - 1)
    BY <1>6, Zenon DEF Grown
  <2>2. owed \subseteq {A[k] : k \in DOMAIN A}
    BY <2>1 DEF ReportedIsKept, AcceptedBytes, A
  <2>3. B \in ByteSeq /\ DOMAIN B = 1 .. Len(B) /\ DOMAIN A = 1 .. Len(A)
    <3>1. Bytes(next, s) \in ByteSeq
      BY <1>1, BytesTyped
    <3>2. B \in ByteSeq
      BY <1>1, <3>1, ConcatBytes DEF A, B
    <3> QED BY <1>1, <3>2, SeqFacts DEF ByteSeq
  <2>4. ASSUME NEW x \in owed PROVE x \in {B[k] : k \in DOMAIN B}
    <3>1. PICK j \in 1 .. Len(A) : A[j] = x
      BY <2>2, <2>3, <2>4
    <3> QED BY <1>4, <2>3, <3>1
  <2>5. ASSUME NEW x \in next .. next + r - 1 PROVE x \in {B[k] : k \in DOMAIN B}
    <3>1. x \in next .. (next + s) - 1
      BY <1>1, <2>1
    <3> QED BY <1>4, <2>3, <3>1
  <2> QED BY <2>1, <2>4, <2>5
<1>7. ReportedIsKept'
  <2>1. ReportedIsKept' <=>
          (~closed' /\ ~dupFailed' => owed' \subseteq {Accepted'[k] : k \in DOMAIN Accepted'})
    BY DEF ReportedIsKept, AcceptedBytes
  <2> QED BY <1>3, <1>6, <2>1
<1> QED BY <1>5, <1>7

LEMMA SameStream ==
  ASSUME StreamInv, ReportedIsKept, Same
  PROVE  StreamInv' /\ ReportedIsKept'
<1>1. Accepted' = Accepted /\ UNCHANGED <<closed, next, owed, dupFailed>>
  BY DEF Same
<1>2. StreamInv'
  <2>1. StreamInv' <=> Ascending(Accepted', next')
    BY DEF StreamInv, Ascending
  <2> QED BY <1>1, <2>1 DEF StreamInv
<1>3. ReportedIsKept'
  <2>1. ReportedIsKept' <=>
          (~closed' /\ ~dupFailed' => owed' \subseteq {Accepted'[k] : k \in DOMAIN Accepted'})
    BY DEF ReportedIsKept, AcceptedBytes
  <2> QED BY <1>1, <2>1 DEF ReportedIsKept, AcceptedBytes
<1> QED BY <1>2, <1>3

LEMMA ShutStream ==
  ASSUME DataOK, StreamInv, NEW n \in Nat, Shut(n)
  PROVE  StreamInv' /\ ReportedIsKept'
<1>1. closed' /\ writeList' = <<>> /\ out' = out /\ next' = next + n
  BY DEF Shut
<1>2. Accepted' = out
  <2>1. Accepted' = out' \o Unsent(writeList', BOOLEAN)
    BY Zenon DEF Accepted, Cached
  <2>2. Unsent(writeList', BOOLEAN) = <<>>
    BY <1>1, UnsentEmpty
  <2> QED BY <1>1, <2>1, <2>2, EmptyBytes DEF DataOK
<1>3. Ascending(out, next + n)
  <2>1. out \in ByteSeq /\ Unsent(writeList, BOOLEAN) \in ByteSeq /\ next \in Nat
    BY AcceptedTyped DEF DataOK
  <2>2. Ascending(out \o Unsent(writeList, BOOLEAN), next)
    BY AcceptedTyped DEF StreamInv
  <2> QED BY <2>1, <2>2, AscendingStart, Zenon
<1>4. StreamInv'
  <2>1. StreamInv' <=> Ascending(Accepted', next')
    BY DEF StreamInv, Ascending
  <2> QED BY <1>1, <1>2, <1>3, <2>1
<1>5. ReportedIsKept'
  BY <1>1 DEF ReportedIsKept
<1> QED BY <1>4, <1>5

LEMMA StreamStep ==
  ASSUME DataOK, StreamInv, ReportedIsKept, DataStep
  PROVE  DataNext /\ StreamInv' /\ ReportedIsKept'
<1>1. CASE Same
  BY <1>1, SameStream DEF Same
<1>2. ASSUME NEW n \in Nat, NEW s \in Nat, NEW r \in Nat, Grown(n, s, r)
      PROVE  DataNext /\ StreamInv' /\ ReportedIsKept'
  BY <1>2, GrownStream DEF Grown
<1>3. ASSUME NEW n \in Nat, Shut(n) PROVE DataNext /\ StreamInv' /\ ReportedIsKept'
  BY <1>3, ShutStream DEF Shut
<1> QED BY <1>1, <1>2, <1>3 DEF DataStep

-----------------------------------------------------------------------------
(* The effect of each action on the bytes and on left.                     *)

LeftNext == /\ left' \in Nat
            /\ ~closed' => /\ left' = BufBytes(writeList')
                           /\ MaxWriteBufferSize > 0 => left' <= MaxWriteBufferSize

LEMMA LeftStep == LeftNext => LeftExact'
  BY DEF LeftNext, LeftExact, BufBytes

\* A step that leaves the data alone.
Idle == UNCHANGED <<closed, writeList, left, out, drained, next, owed, given, dupFailed>>

LEMMA IdleStep ==
  ASSUME DataOK, LeftExact, Idle
  PROVE  DataStep /\ LeftNext
<1>1. UNCHANGED <<closed, writeList, left, out, drained, next, owed, given, dupFailed>>
  BY DEF Idle
<1>2. Accepted' = Accepted /\ Space' = Space
  BY <1>1 DEF Accepted, Cached, Space
<1>3. Same
  BY <1>1, <1>2 DEF Same, DataNext, DataOK
<1>4. LeftNext
  BY <1>1 DEF LeftNext, LeftExact, DataOK
<1> QED BY <1>3, <1>4 DEF DataStep

\* A step that closes the Conn, at the end of a call for n bytes.
LEMMA ShutStep ==
  ASSUME DataOK, LeftExact, NEW n \in Nat, Release, UNCHANGED <<out, drained>>, next' = next + n
  PROVE  DataStep /\ LeftNext
<1>1. closed' = TRUE /\ writeList' = <<>> /\ left' = left /\ out' = out /\ drained' = drained
  BY DEF Release
<1>2. Space' = Space
  BY <1>1 DEF Space
<1>3. Shut(n)
  BY <1>1, <1>2 DEF Shut, DataNext, DataOK, Lists
<1>4. LeftNext
  BY <1>1 DEF LeftNext, DataOK
<1> QED BY <1>3, <1>4 DEF DataStep

\* closeWithError, whether the Conn was closed before or not.
LEMMA CloseStep ==
  ASSUME DataOK, LeftExact, closeWithError, UNCHANGED <<out, drained, next, owed, given, dupFailed>>
  PROVE  DataStep /\ LeftNext
<1>1. CASE UNCHANGED conn
  BY <1>1, IdleStep DEF conn, Idle
<1>2. CASE Release
  <2>1. next' = next + 0
    BY DEF DataOK
  <2> QED BY <1>2, <2>1, ShutStep
<1> QED BY <1>1, <1>2 DEF closeWithError

\* A failing call of Write, Writev or Sendfile.
LEMMA FailStep ==
  ASSUME DataOK, LeftExact, NEW n \in Nat, CallFails, Report(n, 0, FALSE)
  PROVE  DataStep /\ LeftNext
  BY ShutStep DEF CallFails, Report, wire

\* A call that reports r of the n bytes it was given and accepts s of them.
LEMMA GrownStep ==
  ASSUME DataOK, DataNext, NEW n \in Nat, NEW s \in Nat, NEW r \in Nat, NEW ok, s <= n, r <= n,
         Accepted' = Accepted \o Bytes(next, s), closed' = closed, Report(n, r, ok),
         r <= s \/ dupFailed', dupFailed => dupFailed'
  PROVE  DataStep
<1>1. next' = next + n /\ owed' = owed \cup (next .. next + r - 1)
  BY DEF Report
<1>2. Grown(n, s, r)
  BY <1>1, Zenon DEF Grown
<1> QED BY <1>2, Zenon DEF DataStep

LEMMA LeftUnder ==
  ASSUME DataOK, ~closed, LeftExact, NEW n \in Nat, ~overflow(n), left' \in Nat,
         left' = BufBytes(writeList'), left' <= left + n
  PROVE  LeftNext
  BY SizesAssumption DEF LeftNext, overflow, DataOK

LEMMA LeftKept ==
  ASSUME DataOK, ~closed, LeftExact, left' = left, BufBytes(writeList') = BufBytes(writeList)
  PROVE  LeftNext
  BY DEF LeftNext, LeftExact, DataOK

LEMMA WriteStep ==
  ASSUME DataOK, LeftExact, NEW n \in Nat \ {0}, Write(n)
  PROVE  DataStep /\ LeftNext
<1>1. ~closed /\ dupFailed' = dupFailed
  BY DEF Write, MayCall
<1>2. left = BufBytes(writeList)
  BY <1>1 DEF LeftExact
<1>3. CASE CallFails /\ Report(n, 0, FALSE)
  BY <1>3, FailStep
<1>4. CASE ~overflow(n) /\ write(Bytes(next, n)) /\ Report(n, n, TRUE)
  <2>1. /\ DataNext /\ Accepted' = Accepted \o Bytes(next, n)
        /\ left' = BufBytes(writeList') /\ left' \in Nat /\ left' <= left + n
        /\ closed' = closed
    BY <1>2, <1>4, WriteAccepts
  <2>2. DataStep
    <3>1. n \in Nat /\ n <= n /\ (dupFailed => dupFailed')
      BY <1>1
    <3> QED BY <1>4, <2>1, <3>1, GrownStep, Zenon
  <2>3. LeftNext
    BY <1>1, <1>4, <2>1, LeftUnder
  <2> QED BY <2>2, <2>3
<1> QED BY <1>3, <1>4 DEF Write

\* Where writev stopped: at the end of the buffer that holds the last byte
\* the kernel took.
Stop(v, n) == IF n = 0 THEN 0 ELSE EndOfBuffer(v, n)

LEMMA StopIn ==
  ASSUME NEW v \in Seq(Nat), NEW n \in Nat, n <= Total(v)
  PROVE  Stop(v, n) \in n .. Total(v)
<1>1. Total(v) \in Nat
  BY TotalIsNat
<1>2. CASE n = 0
  BY <1>1, <1>2 DEF Stop
<1>3. CASE n # 0
  BY <1>1, <1>3, EndOfBufferIn DEF Stop
<1> QED BY <1>2, <1>3

LEMMA WritevStep ==
  ASSUME DataOK, LeftExact, NEW v \in Seq(Nat), Writev(v)
  PROVE  DataStep /\ LeftNext
<1> DEFINE size == Total(v)
           n    == Takes(size)
           stop == Stop(v, n)
<1>1. ~closed /\ dupFailed' = dupFailed /\ (dupFailed => dupFailed')
  BY DEF Writev, MayCall
<1>2. left = BufBytes(writeList)
  BY <1>1 DEF LeftExact
<1>3. size \in Nat /\ size <= size
  BY TotalIsNat
<1>4. CASE CallFails /\ Report(size, 0, FALSE)
  BY <1>3, <1>4, FailStep
<1>5. CASE /\ ~overflow(size) /\ writeList # <<>>
           /\ writeList' = AddBuffers(writeList, v, next) /\ left' = left + size
           /\ Report(size, size, TRUE) /\ UNCHANGED <<closed, wire>>
  <2>1. /\ DataNext /\ Accepted' = Accepted \o Bytes(next, size)
        /\ left' = BufBytes(writeList') /\ left' \in Nat
    BY <1>2, <1>5, WritevCaches
  <2>2. DataStep
    <3>1. closed' = closed /\ Report(size, size, TRUE)
      BY <1>5
    <3> HIDE DEF size
    <3> QED BY <1>1, <1>3, <2>1, <3>1, GrownStep, Zenon
  <2>3. left' <= left + size
    BY <1>3, <1>5, <2>1 DEF DataOK
  <2>4. LeftNext
    BY <1>1, <1>3, <1>5, <2>1, <2>3, LeftUnder
  <2> QED BY <2>2, <2>4
<1>6. CASE /\ ~overflow(size) /\ writeList = <<>> /\ SendsBuffers(size, n, stop)
           /\ Report(size, n, n > 0) /\ UNCHANGED closed
  <2>1. n \in Nat /\ n <= size /\ n <= Space
    BY <1>3, TakesIn
  <2>2. stop \in n .. size
    BY <2>1, StopIn
  <2>3. stop \in Nat /\ stop <= size /\ n <= stop
    <3> HIDE DEF n, size, stop
    <3> QED BY <1>3, <2>1, <2>2
  <2> HIDE DEF size, n, stop
  <2>4. /\ DataNext /\ Accepted' = Accepted \o Bytes(next, stop)
        /\ left' = BufBytes(writeList') /\ left' \in Nat /\ left' <= left + size
    BY <1>2, <1>3, <1>6, <2>1, <2>2, WritevSends
  <2>5. DataStep
    <3>1. closed' = closed /\ Report(size, n, n > 0)
      BY <1>6
    <3> QED BY <1>1, <1>3, <2>1, <2>3, <2>4, <3>1, GrownStep, Zenon
  <2>6. LeftNext
    BY <1>1, <1>3, <1>6, <2>4, LeftUnder
  <2> QED BY <2>5, <2>6
<1> HIDE DEF size
<1> QED BY <1>4, <1>5, <1>6 DEF Writev, SendsBuffers, Stop, size

LEMMA SendfileStep ==
  ASSUME DataOK, LeftExact, NEW n \in Nat \ {0}, Sendfile(n)
  PROVE  DataStep /\ LeftNext
<1> DEFINE b == Bytes(next, n)
           k == Takes(n)
<1>1. ~closed /\ n \in Nat /\ n <= n
  BY DEF Sendfile, MayCall
<1>2. k \in Nat /\ k <= n /\ k <= Space
  BY TakesIn
<1>3. b \in ByteSeq /\ Len(b) = n
  BY BytesTyped DEF DataOK
<1>4. CASE /\ writeList' = newToWriteFile(writeList, b) /\ Report(n, n, TRUE)
           /\ UNCHANGED <<closed, left, wire, dupFailed>>
  <2>1. /\ DataNext /\ Accepted' = Accepted \o Bytes(next, n)
        /\ BufBytes(writeList') = BufBytes(writeList)
    BY <1>1, <1>4, FileCached
  <2>2. DataStep
    <3>1. closed' = closed /\ Report(n, n, TRUE) /\ (dupFailed => dupFailed')
      BY <1>4
    <3> QED BY <1>1, <2>1, <3>1, GrownStep, Zenon
  <2>3. LeftNext
    BY <1>1, <1>4, <2>1, LeftKept
  <2> QED BY <2>2, <2>3
<1>5. CASE UNCHANGED writeList /\ Report(n, 0, FALSE) /\ UNCHANGED <<closed, left, wire, dupFailed>>
  <2>1. UNCHANGED <<writeList, out, drained, closed, left, dupFailed>>
    BY <1>5 DEF wire
  <2>2. Accepted' = Accepted /\ Space' = Space
    BY <2>1 DEF Accepted, Cached, Space
  <2>3. DataNext
    BY <2>1, <2>2 DEF DataNext, DataOK
  <2>4. Accepted' = Accepted \o Bytes(next, 0)
    <3>1. Bytes(next, 0) \in ByteSeq /\ Len(Bytes(next, 0)) = 0
      BY BytesTyped DEF DataOK
    <3>2. Bytes(next, 0) = <<>>
      BY <3>1, SeqFacts DEF ByteSeq
    <3> QED BY <2>2, <3>2, AcceptedTyped, EmptyBytes
  <2>5. DataStep
    <3>1. closed' = closed /\ Report(n, 0, FALSE) /\ (dupFailed => dupFailed')
      BY <1>5
    <3>2. 0 \in Nat /\ 0 <= n /\ 0 <= 0
      OBVIOUS
    <3> QED BY <1>1, <2>3, <2>4, <3>1, <3>2, GrownStep, Zenon
  <2>6. LeftNext
    BY <1>1, <2>1, LeftKept
  <2> QED BY <2>5, <2>6
<1>6. CASE CallFails /\ Report(n, 0, FALSE)
  BY <1>6, FailStep
<1>7. CASE /\ writeList = <<>> /\ Send(b, k) /\ Report(n, n, TRUE) /\ k = n
           /\ UNCHANGED <<writeList, closed, left, dupFailed>>
  <2>1. DataNext /\ Accepted' = Accepted \o SubSeq(b, 1, k)
    BY <1>2, <1>3, <1>7, AllSent
  <2>2. SubSeq(b, 1, k) = Bytes(next, n)
    BY <1>3, <1>7, WholeBytes
  <2>3. DataStep
    <3>1. closed' = closed /\ Report(n, n, TRUE) /\ (dupFailed => dupFailed')
      BY <1>7
    <3> QED BY <1>1, <2>1, <2>2, <3>1, GrownStep, Zenon
  <2>4. LeftNext
    <3>1. BufBytes(writeList') = BufBytes(writeList)
      BY <1>7
    <3> QED BY <1>1, <1>7, <3>1, LeftKept
  <2> QED BY <2>3, <2>4
<1>8. CASE /\ writeList = <<>> /\ SendsFile(n, k) /\ Report(n, n, TRUE)
           /\ UNCHANGED <<closed, left, dupFailed>>
  <2>1. /\ DataNext /\ Accepted' = Accepted \o Bytes(next, n)
        /\ BufBytes(writeList') = BufBytes(writeList)
    BY <1>1, <1>2, <1>8, FileSent
  <2>2. DataStep
    <3>1. closed' = closed /\ Report(n, n, TRUE) /\ (dupFailed => dupFailed')
      BY <1>8
    <3> QED BY <1>1, <2>1, <3>1, GrownStep, Zenon
  <2>3. LeftNext
    BY <1>1, <1>8, <2>1, LeftKept
  <2> QED BY <2>2, <2>3
<1>9. CASE /\ writeList = <<>> /\ Send(b, k) /\ Report(n, n, TRUE) /\ dupFailed' = TRUE
           /\ UNCHANGED <<writeList, closed, left>>
  <2>1. DataNext /\ Accepted' = Accepted \o SubSeq(b, 1, k)
    BY <1>2, <1>3, <1>9, AllSent
  <2>2. SubSeq(b, 1, k) = Bytes(next, k)
    <3>1. Within(next, k, n, n)
      BY <1>1, <1>2 DEF Within, DataOK
    <3> QED BY <3>1, RunStart
  <2>3. DataStep
    <3>1. closed' = closed /\ Report(n, n, TRUE) /\ dupFailed'
      BY <1>9
    <3> HIDE DEF k
    <3> QED BY <1>1, <1>2, <2>1, <2>2, <3>1, GrownStep, Zenon
  <2>4. LeftNext
    <3>1. BufBytes(writeList') = BufBytes(writeList)
      BY <1>9
    <3> QED BY <1>1, <1>9, <3>1, LeftKept
  <2> QED BY <2>3, <2>4
<1> HIDE DEF k
<1> QED BY <1>4, <1>5, <1>6, <1>7, <1>8, <1>9 DEF Sendfile, SendsFile, k

\* One system call of flush that sends something.
LEMMA FlushStep ==
  ASSUME DataOK, LeftExact, Control, writeBuffer \/ writeFile
  PROVE  DataStep /\ LeftNext
<1> DEFINE k == Takes(Len(Rest0))
<1>1. writeList # <<>> /\ ~closed /\ UNCHANGED <<closed, next, owed, given, dupFailed>>
  BY DEF writeBuffer, writeFile, Control, hist
<1>2. writeList \in Lists /\ Head(writeList) = writeList[1]
  BY <1>1, SeqFacts DEF DataOK, Lists
<1>3. Len(Rest0) \in Nat
  BY <1>1, <1>2, RestTyped DEF Rest0
<1>4. k \in Nat /\ k <= Len(Rest0) /\ k <= Space
  BY <1>3, TakesIn
<1>5. Flushes(k)
  BY <1>2 DEF writeBuffer, writeFile, Flushes, Shorter, Rest0
<1> HIDE DEF k
<1>6. /\ DataNext /\ Accepted' = Accepted
      /\ ~Head(writeList).file => BufBytes(writeList) = k + BufBytes(writeList')
      /\ Head(writeList).file => BufBytes(writeList) = BufBytes(writeList')
  BY <1>1, <1>4, <1>5, FlushKeeps
<1>7. DataStep
  BY <1>1, <1>6 DEF DataStep, Same
<1>8. LeftNext
  <2>1. left = BufBytes(writeList) /\ (MaxWriteBufferSize > 0 => left <= MaxWriteBufferSize)
    BY <1>1 DEF LeftExact
  <2>2. BufBytes(writeList') \in Nat
    <3>1. writeList' \in Lists
      BY <1>6 DEF DataNext
    <3>2. Unsent(writeList', {FALSE}) \in ByteSeq
      BY <3>1, UnsentIsBytes, Zenon
    <3> QED BY <3>2, SeqFacts DEF BufBytes, ByteSeq
  <2>3. CASE writeBuffer
    <3>1. left' = left - k /\ ~Head(writeList).file
      BY <2>3 DEF writeBuffer, k
    <3>2. left' = BufBytes(writeList')
      BY <1>4, <1>6, <2>1, <2>2, <3>1 DEF DataOK
    <3>3. left' <= left
      BY <1>4, <3>1 DEF DataOK
    <3> QED BY <2>1, <2>2, <3>2, <3>3, SizesAssumption DEF LeftNext, DataOK
  <2>4. CASE writeFile
    <3>1. left' = left /\ Head(writeList).file
      BY <2>4 DEF writeFile
    <3> QED BY <1>1, <1>6, <3>1, LeftKept
  <2> QED BY <2>3, <2>4
<1> QED BY <1>7, <1>8

LEMMA UserStep ==
  ASSUME DataOK, LeftExact,
         \/ Close \/ SetWriteDeadline \/ SetDialDeadline \/ TimerFires \/ WriteTimeout
         \/ PeerAccepts \/ PeerSends \/ PeerCloses
  PROVE  DataStep /\ LeftNext
<1>1. CASE closeWithError /\ UNCHANGED <<out, drained, next, owed, given, dupFailed>>
  BY <1>1, CloseStep
<1>2. CASE Idle
  BY <1>2, IdleStep
<1>3. Close \/ WriteTimeout => closeWithError /\ UNCHANGED <<out, drained, next, owed, given, dupFailed>>
  BY DEF Close, WriteTimeout, wire, hist
<1>4. \/ SetWriteDeadline \/ SetDialDeadline \/ TimerFires \/ PeerAccepts \/ PeerSends \/ PeerCloses
      => Idle
  BY DEF SetWriteDeadline, SetDialDeadline, TimerFires, PeerAccepts, PeerSends, PeerCloses, Idle,
         conn, wire, hist
<1> QED BY <1>1, <1>2, <1>3, <1>4

LEMMA DrainStep ==
  ASSUME DataOK, LeftExact, PeerReads
  PROVE  DataStep /\ LeftNext
<1>1. /\ ~closed /\ drained < Len(out) /\ drained' = drained + 1 /\ out' = out
      /\ UNCHANGED <<closed, writeList, left, next, owed, given, dupFailed>>
  BY DEF PeerReads, conn, hist
<1>2. Accepted' = Accepted
  BY <1>1 DEF Accepted, Cached
<1>3. DataNext
  <2>1. Len(out) \in Nat
    BY SeqFacts DEF DataOK, ByteSeq
  <2>2. Space' = SndBuf - (Len(out) - (drained + 1)) /\ Space = SndBuf - (Len(out) - drained)
    BY <1>1 DEF Space
  <2>3. Space' \in 0 .. SndBuf
    BY <1>1, <2>1, <2>2, SizesAssumption DEF DataOK
  <2> QED BY <1>1, <2>1, <2>3 DEF DataNext, DataOK
<1>4. Same
  BY <1>1, <1>2, <1>3 DEF Same
<1>5. LeftNext
  BY <1>1 DEF LeftNext, LeftExact, DataOK
<1> QED BY <1>4, <1>5 DEF DataStep

LEMMA PollerStep ==
  ASSUME DataOK, LeftExact, Control, Poller
  PROVE  DataStep /\ LeftNext
<1>1. CASE writeBuffer \/ writeFile
  BY <1>1, FlushStep
<1>2. CASE FlushError
  <2>1. Release /\ UNCHANGED <<out, drained>> /\ next' = next + 0
    BY <1>2 DEF FlushError, wire, hist, DataOK
  <2> QED BY <2>1, ShutStep
<1>3. CASE PollError
  <2>1. closeWithError /\ UNCHANGED <<out, drained, next, owed, given, dupFailed>>
    BY <1>3 DEF PollError, wire, hist
  <2> QED BY <2>1, CloseStep
<1>4. CASE Reading
  <2>1. /\ closeWithError \/ UNCHANGED conn
        /\ UNCHANGED <<out, drained, next, owed, given, dupFailed>>
    BY <1>4 DEF Reading, hist
  <2>2. CASE closeWithError
    BY <2>1, <2>2, CloseStep
  <2>3. CASE UNCHANGED conn
    BY <2>1, <2>3, IdleStep DEF Idle, conn
  <2> QED BY <2>1, <2>2, <2>3
<1>5. CASE \/ EpollWait \/ OnConnected \/ ConnectedReset \/ ConnectedMod
           \/ FlushBegin \/ FlushAgain \/ FlushDone \/ ResetCheck \/ ResetMod
  <2>1. Idle
    BY <1>5 DEF EpollWait, OnConnected, ConnectedReset, ConnectedMod, FlushBegin, FlushAgain,
                FlushDone, ResetCheck, ResetMod, Idle, conn, wire, hist
  <2> QED BY <2>1, IdleStep
<1> QED BY <1>1, <1>2, <1>3, <1>4, <1>5 DEF Poller, Flush

\* Every step changes the data in one of the three ways, and left with it.
LEMMA EveryStep ==
  ASSUME DataOK, LeftExact, Control, [Next]_vars
  PROVE  DataStep /\ LeftNext
<1>1. ASSUME NEW n \in Sizes, Write(n) PROVE DataStep /\ LeftNext
  BY <1>1, WriteStep, CallsAssumption
<1>2. ASSUME NEW n \in Sizes, Sendfile(n) PROVE DataStep /\ LeftNext
  BY <1>2, SendfileStep, CallsAssumption
<1>3. ASSUME NEW v \in Vecs, Writev(v) PROVE DataStep /\ LeftNext
  BY <1>3, WritevStep, CallsAssumption
<1>4. CASE \/ Close \/ SetWriteDeadline \/ SetDialDeadline \/ TimerFires \/ WriteTimeout
           \/ PeerAccepts \/ PeerSends \/ PeerCloses
  BY <1>4, UserStep
<1>5. CASE PeerReads
  BY <1>5, DrainStep
<1>6. CASE Poller
  BY <1>6, PollerStep
<1>7. CASE UNCHANGED vars
  BY <1>7, IdleStep DEF Idle, vars, conn, wire, hist
<1> QED BY <1>1, <1>2, <1>3, <1>4, <1>5, <1>6, <1>7 DEF Next

-----------------------------------------------------------------------------
(* The types of the rest of the state.                                     *)

FlagsOK == /\ closed \in BOOLEAN /\ isWAdded \in BOOLEAN /\ onConnected \in BOOLEAN
           /\ wTimer \in BOOLEAN /\ firing \in BOOLEAN /\ arming \in BOOLEAN
           /\ rdy \in BOOLEAN /\ nospace \in BOOLEAN /\ input \in BOOLEAN
           /\ sawEmpty \in BOOLEAN /\ dupFailed \in BOOLEAN

PollOK == /\ <<mode, dialed>> \in Setups
          /\ interest \subseteq {"in", "out"} /\ ev \subseteq {"in", "out", "err"}
          /\ peer \in {"connecting", "open", "fin", "rst"} /\ inputs \in 0 .. MaxInputs
          /\ pc \in {"wait", "write", "connected", "connmod", "flush", "read", "check", "reset", "err"}

HistOK == next \in 1 .. MaxBytes + 1 /\ owed \subseteq 1 .. next - 1 /\ given \subseteq 1 .. next - 1

LEMMA TypeParts == TypeOK <=> /\ FlagsOK /\ PollOK /\ HistOK
                              /\ writeList \in Lists /\ left \in Nat /\ out \in ByteSeq
                              /\ drained \in 0 .. Len(out) /\ Space \in 0 .. SndBuf
  BY DEF TypeOK, FlagsOK, PollOK, HistOK, Lists, ByteSeq

LEMMA ModTyped ==
  ASSUME PollOK, FlagsOK, NEW events \in SUBSET {"in", "out"}, NEW o, Mod(events, o)
  PROVE  interest' \subseteq {"in", "out"} /\ rdy' \in BOOLEAN
<1>1. interest' \subseteq {"in", "out"}
  BY DEF Mod, PollOK
<1>2. rdy' \in BOOLEAN
  BY DEF Mod, FlagsOK
<1> QED BY <1>1, <1>2

LEMMA WakeTyped ==
  ASSUME PollOK, NEW event, Wake(event)
  PROVE  interest' \subseteq {"in", "out"} /\ rdy' \in BOOLEAN
<1>1. interest' \subseteq {"in", "out"}
  BY DEF Wake, PollOK
<1>2. rdy' \in BOOLEAN
  BY DEF Wake
<1> QED BY <1>1, <1>2

LEMMA CloseTyped ==
  ASSUME FlagsOK, closeWithError
  PROVE  /\ closed' \in BOOLEAN /\ isWAdded' \in BOOLEAN /\ onConnected' \in BOOLEAN
         /\ wTimer' \in BOOLEAN
  BY DEF closeWithError, Release, FlagsOK, conn

LEMMA AskTyped ==
  ASSUME PollOK, FlagsOK, NEW o, modWrite(o)
  PROVE  /\ isWAdded' \in BOOLEAN /\ rdy' \in BOOLEAN
         /\ interest' \subseteq {"in", "out"}
<1>1. CASE UNCHANGED <<isWAdded, epoll>>
  BY <1>1 DEF epoll, FlagsOK, PollOK
<1>2. CASE isWAdded' = TRUE /\ Mod({"in", "out"}, o)
  <2>1. {"in", "out"} \in SUBSET {"in", "out"}
    OBVIOUS
  <2>2. interest' \subseteq {"in", "out"} /\ rdy' \in BOOLEAN
    BY <1>2, <2>1, ModTyped
  <2> QED BY <1>2, <2>2 DEF FlagsOK
<1> QED BY <1>1, <1>2 DEF modWrite

LEMMA AfterTyped ==
  ASSUME PollOK, FlagsOK, NEW l, NEW o, AfterWrite(l, o)
  PROVE  /\ isWAdded' \in BOOLEAN /\ wTimer' \in BOOLEAN /\ rdy' \in BOOLEAN
         /\ interest' \subseteq {"in", "out"}
<1>1. CASE UNCHANGED <<isWAdded, epoll>> /\ wTimer' = FALSE
  BY <1>1 DEF epoll, FlagsOK, PollOK
<1>2. CASE modWrite(o) /\ UNCHANGED wTimer
  <2>1. isWAdded' \in BOOLEAN /\ rdy' \in BOOLEAN /\ interest' \subseteq {"in", "out"}
    BY <1>2, AskTyped
  <2> QED BY <1>2, <2>1 DEF FlagsOK
<1> QED BY <1>1, <1>2 DEF AfterWrite

LEMMA SendTyped ==
  ASSUME PollOK, FlagsOK, NEW b, NEW n, Send(b, n)
  PROVE  /\ nospace' \in BOOLEAN /\ input' \in BOOLEAN
         /\ peer' = peer /\ inputs' = inputs
  BY DEF Send, FlagsOK

LEMMA ReportTyped ==
  ASSUME HistOK, NEW n \in Nat, NEW r \in Nat, r <= n, NEW ok, next + n - 1 <= MaxBytes,
         Report(n, r, ok)
  PROVE  HistOK'
<1>1. next \in Nat /\ next >= 1
  BY BoundsAssumption DEF HistOK
<1>2. next' = next + n /\ next' \in 1 .. MaxBytes + 1
  BY <1>1, BoundsAssumption DEF Report
<1>3. /\ 1 .. next - 1 \subseteq 1 .. (next + n) - 1
      /\ next .. next + n - 1 \subseteq 1 .. (next + n) - 1
      /\ next .. next + r - 1 \subseteq 1 .. (next + n) - 1
  BY <1>1
<1>4. owed' \subseteq 1 .. (next + n) - 1
  BY <1>3 DEF Report, HistOK
<1>5. given' \subseteq 1 .. (next + n) - 1
  <2>1. given' = given \/ given' = given \cup (next .. next + n - 1)
    BY DEF Report
  <2> QED BY <1>3, <2>1 DEF HistOK
<1> QED BY <1>2, <1>4, <1>5 DEF HistOK

\* What a call leaves alone, and what it may change.
Calls == UNCHANGED <<mode, dialed, pc, ev, sawEmpty>>

LEMMA FailTyped ==
  ASSUME FlagsOK, PollOK, CallFails, Calls, UNCHANGED dupFailed
  PROVE  FlagsOK' /\ PollOK'
<1>1. FlagsOK'
  BY DEF FlagsOK, CallFails, Release, Calls, timer, epoll, wire
<1>2. PollOK'
  BY DEF PollOK, CallFails, Calls, epoll, wire
<1> QED BY <1>1, <1>2

LEMMA CachesTyped ==
  ASSUME FlagsOK, PollOK, Calls,
         isWAdded' \in BOOLEAN, wTimer' \in BOOLEAN, rdy' \in BOOLEAN, interest' \subseteq {"in", "out"},
         nospace' \in BOOLEAN, input' \in BOOLEAN, dupFailed' \in BOOLEAN,
         UNCHANGED <<closed, onConnected, firing, arming, peer, inputs>>
  PROVE  FlagsOK' /\ PollOK'
<1>1. FlagsOK'
  BY DEF FlagsOK, Calls
<1>2. PollOK'
  BY DEF PollOK, Calls
<1> QED BY <1>1, <1>2

LEMMA WriteTyped ==
  ASSUME FlagsOK, PollOK, HistOK, NEW n \in Nat \ {0}, Write(n)
  PROVE  FlagsOK' /\ PollOK' /\ HistOK'
<1>1. /\ next + n - 1 <= MaxBytes /\ Calls /\ UNCHANGED dupFailed
      /\ \/ CallFails /\ Report(n, 0, FALSE)
         \/ write(Bytes(next, n)) /\ Report(n, n, TRUE)
  BY DEF Write, Calls, poll
<1>2. HistOK'
  <2>1. n \in Nat /\ 0 \in Nat /\ n <= n /\ 0 <= n
    OBVIOUS
  <2> QED BY <1>1, <2>1, ReportTyped, Zenon
<1>3. CASE CallFails
  BY <1>1, <1>2, <1>3, FailTyped
<1>4. CASE write(Bytes(next, n))
  <2>1. /\ AfterWrite(writeList', out') /\ UNCHANGED <<closed, onConnected, firing, arming>>
        /\ (\E k : Send(Bytes(next, n), k)) \/ UNCHANGED wire
    BY <1>4 DEF write
  <2>2. isWAdded' \in BOOLEAN /\ wTimer' \in BOOLEAN /\ rdy' \in BOOLEAN /\ interest' \subseteq {"in", "out"}
    BY <2>1, AfterTyped, Zenon
  <2>3. nospace' \in BOOLEAN /\ input' \in BOOLEAN /\ peer' = peer /\ inputs' = inputs
    BY <2>1, SendTyped DEF wire, FlagsOK
  <2>4. dupFailed' \in BOOLEAN
    BY <1>1 DEF FlagsOK
  <2> QED BY <1>1, <1>2, <2>1, <2>2, <2>3, <2>4, CachesTyped
<1> QED BY <1>1, <1>3, <1>4

LEMMA WritevTyped ==
  ASSUME DataOK, FlagsOK, PollOK, HistOK, NEW v \in Seq(Nat), Writev(v)
  PROVE  FlagsOK' /\ PollOK' /\ HistOK'
<1> DEFINE size == Total(v)
           n    == Takes(size)
<1>1. size \in Nat /\ n \in Nat /\ n <= size /\ size <= size /\ 0 <= size
  BY TotalIsNat, TakesIn
<1>2. next + size - 1 <= MaxBytes /\ Calls /\ UNCHANGED dupFailed
  BY DEF Writev, Calls, poll
<1>3. \/ CallFails /\ Report(size, 0, FALSE)
      \/ /\ AfterWrite(writeList', out) /\ Report(size, size, TRUE)
         /\ UNCHANGED <<closed, onConnected, firing, arming, wire>>
      \/ /\ Send(Bytes(next, size), n) /\ AfterWrite(writeList', out') /\ Report(size, n, n > 0)
         /\ UNCHANGED <<closed, onConnected, firing, arming>>
  BY DEF Writev
<1> HIDE DEF size, n
<1>4. HistOK'
  BY <1>1, <1>2, <1>3, ReportTyped
<1>5. CASE CallFails
  BY <1>2, <1>4, <1>5, FailTyped
<1>6. CASE ~CallFails
  <2>1. /\ AfterWrite(writeList', out) \/ AfterWrite(writeList', out')
        /\ Send(Bytes(next, size), n) \/ UNCHANGED wire
        /\ UNCHANGED <<closed, onConnected, firing, arming>>
    BY <1>3, <1>6
  <2>2. isWAdded' \in BOOLEAN /\ wTimer' \in BOOLEAN /\ rdy' \in BOOLEAN /\ interest' \subseteq {"in", "out"}
    BY <2>1, AfterTyped, Zenon
  <2>3. nospace' \in BOOLEAN /\ input' \in BOOLEAN /\ peer' = peer /\ inputs' = inputs
    BY <2>1, SendTyped DEF wire, FlagsOK
  <2>4. dupFailed' \in BOOLEAN
    BY <1>2 DEF FlagsOK
  <2> QED BY <1>2, <1>4, <2>1, <2>2, <2>3, <2>4, CachesTyped
<1> QED BY <1>5, <1>6

LEMMA SendfileTyped ==
  ASSUME FlagsOK, PollOK, HistOK, NEW n \in Nat \ {0}, Sendfile(n)
  PROVE  FlagsOK' /\ PollOK' /\ HistOK'
<1>1. next + n - 1 <= MaxBytes /\ Calls
  BY DEF Sendfile, Calls, poll
<1>2. Report(n, 0, FALSE) \/ Report(n, n, TRUE)
  BY DEF Sendfile
<1>3. HistOK'
  <2>1. n \in Nat /\ 0 \in Nat /\ n <= n /\ 0 <= n
    OBVIOUS
  <2> QED BY <1>1, <1>2, <2>1, ReportTyped, Zenon
<1>4. CASE CallFails /\ UNCHANGED dupFailed
  BY <1>1, <1>3, <1>4, FailTyped
<1>5. CASE ~(CallFails /\ UNCHANGED dupFailed)
  <2>1. /\ UNCHANGED <<closed, onConnected, firing, arming, wTimer>>
        /\ UNCHANGED <<isWAdded, epoll>> \/ modWrite(out')
        /\ UNCHANGED wire \/ \E k : Send(Bytes(next, n), k)
        /\ dupFailed' = dupFailed \/ dupFailed' = TRUE
    BY <1>5 DEF Sendfile, timer
  <2>2. isWAdded' \in BOOLEAN /\ wTimer' \in BOOLEAN /\ rdy' \in BOOLEAN /\ interest' \subseteq {"in", "out"}
    <3>1. CASE UNCHANGED <<isWAdded, epoll>>
      BY <2>1, <3>1 DEF epoll, FlagsOK, PollOK
    <3>2. CASE modWrite(out')
      BY <2>1, <3>2, AskTyped DEF FlagsOK
    <3> QED BY <2>1, <3>1, <3>2
  <2>3. nospace' \in BOOLEAN /\ input' \in BOOLEAN /\ peer' = peer /\ inputs' = inputs
    BY <2>1, SendTyped DEF wire, FlagsOK
  <2>4. dupFailed' \in BOOLEAN
    BY <2>1 DEF FlagsOK
  <2> QED BY <1>1, <1>3, <2>1, <2>2, <2>3, <2>4, CachesTyped
<1> QED BY <1>4, <1>5

LEMMA UserTyped ==
  ASSUME FlagsOK, PollOK,
         \/ Close \/ SetWriteDeadline \/ SetDialDeadline \/ TimerFires \/ WriteTimeout
  PROVE  FlagsOK' /\ PollOK'
<1>1. PollOK'
  BY DEF PollOK, Close, SetWriteDeadline, SetDialDeadline, TimerFires, WriteTimeout, epoll, wire, poll
<1>2. CASE Close \/ WriteTimeout
  <2>1. closed' \in BOOLEAN /\ isWAdded' \in BOOLEAN /\ onConnected' \in BOOLEAN /\ wTimer' \in BOOLEAN
    BY <1>2, CloseTyped DEF Close, WriteTimeout
  <2>2. FlagsOK'
    BY <1>2, <2>1 DEF FlagsOK, Close, WriteTimeout, epoll, wire, poll, hist
  <2> QED BY <1>1, <2>2
<1>3. CASE SetWriteDeadline \/ SetDialDeadline \/ TimerFires
  <2>1. FlagsOK'
    BY <1>3 DEF FlagsOK, SetWriteDeadline, SetDialDeadline, TimerFires, conn, epoll, wire, poll, hist
  <2> QED BY <1>1, <2>1
<1> QED BY <1>2, <1>3

LEMMA PeerTyped ==
  ASSUME FlagsOK, PollOK, PeerAccepts \/ PeerReads \/ PeerSends \/ PeerCloses
  PROVE  FlagsOK' /\ PollOK'
<1>1. /\ interest' \subseteq {"in", "out"} /\ rdy' \in BOOLEAN
  <2>1. (\E e : Wake(e)) \/ UNCHANGED epoll
    BY DEF PeerAccepts, PeerReads, PeerSends, PeerCloses
  <2>2. CASE \E e : Wake(e)
    BY <2>2, WakeTyped, Zenon
  <2>3. CASE UNCHANGED epoll
    BY <2>3 DEF epoll, FlagsOK, PollOK
  <2> QED BY <2>1, <2>2, <2>3
<1>2. UNCHANGED <<mode, dialed, conn, timer, poll, hist>>
  BY DEF PeerAccepts, PeerReads, PeerSends, PeerCloses
<1>3. nospace' \in BOOLEAN /\ input' \in BOOLEAN
  BY DEF PeerAccepts, PeerReads, PeerSends, PeerCloses, FlagsOK
<1>4. peer' \in {"connecting", "open", "fin", "rst"}
  BY DEF PeerAccepts, PeerReads, PeerSends, PeerCloses, PollOK
<1>5. inputs' \in 0 .. MaxInputs
  BY BoundsAssumption DEF PeerAccepts, PeerReads, PeerSends, PeerCloses, PollOK
<1>6. FlagsOK'
  BY <1>1, <1>2, <1>3 DEF FlagsOK, conn, timer, poll, hist
<1>7. PollOK'
  BY <1>1, <1>2, <1>4, <1>5 DEF PollOK, poll
<1> QED BY <1>6, <1>7

LEMMA ReadyTyped ==
  ASSUME NEW o
  PROVE  ReadyWith(o) \subseteq {"in", "out", "err"}
  BY DEF ReadyWith

\* What the poller does to the registration and to the flags.
LEMMA PollerTyped ==
  ASSUME FlagsOK, PollOK, Poller
  PROVE  FlagsOK' /\ PollOK'
<1>0. Poller => UNCHANGED <<mode, dialed, firing, arming, peer, inputs, next, owed, given, dupFailed>>
  BY DEF Poller, Flush, EpollWait, OnConnected, ConnectedReset, ConnectedMod, FlushBegin, writeBuffer,
         writeFile, FlushAgain, FlushError, FlushDone, Reading, ResetCheck, ResetMod, PollError,
         Send, timer, wire, hist
<1>1. interest' \subseteq {"in", "out"} /\ rdy' \in BOOLEAN
  <2>1. \/ UNCHANGED epoll \/ Mod({"in"}, out) \/ Mod({"in", "out"}, out)
        \/ EpollWait
    BY DEF Poller, Flush, OnConnected, ConnectedReset, ConnectedMod, FlushBegin, writeBuffer,
           writeFile, FlushAgain, FlushError, FlushDone, Reading, ResetCheck, ResetMod, PollError
  <2>2. CASE UNCHANGED epoll
    BY <2>2 DEF epoll, FlagsOK, PollOK
  <2>3. CASE Mod({"in"}, out) \/ Mod({"in", "out"}, out)
    <3>1. {"in", "out"} \in SUBSET {"in", "out"} /\ {"in"} \in SUBSET {"in", "out"}
      OBVIOUS
    <3> QED BY <2>3, <3>1, ModTyped, Zenon
  <2>4. CASE EpollWait
    <3>1. interest' = {} \/ interest' = interest
      BY <2>4 DEF EpollWait
    <3>2. rdy' = FALSE
      BY <2>4 DEF EpollWait
    <3> QED BY <3>1, <3>2 DEF PollOK
  <2> QED BY <2>1, <2>2, <2>3, <2>4
<1>2. /\ closed' \in BOOLEAN /\ isWAdded' \in BOOLEAN /\ onConnected' \in BOOLEAN
      /\ wTimer' \in BOOLEAN
  <2>1. CASE Reading \/ PollError
    <3>1. closeWithError \/ UNCHANGED <<conn, wTimer>>
      BY <2>1 DEF Reading, PollError
    <3> QED BY <3>1, CloseTyped DEF FlagsOK, conn
  <2>2. CASE FlushError
    BY <2>2 DEF FlushError, Release, timer, FlagsOK
  <2>3. CASE ConnectedReset \/ FlushDone
    BY <2>3 DEF ConnectedReset, FlushDone, timer, FlagsOK
  <2>4. CASE OnConnected
    BY <2>4 DEF OnConnected, conn, FlagsOK
  <2>5. CASE EpollWait \/ ConnectedMod \/ FlushBegin \/ FlushAgain \/ ResetCheck \/ ResetMod
    BY <2>5 DEF EpollWait, ConnectedMod, FlushBegin, FlushAgain, ResetCheck, ResetMod, conn, timer,
                FlagsOK
  <2>6. CASE writeBuffer \/ writeFile
    BY <2>6 DEF writeBuffer, writeFile, timer, FlagsOK
  <2> QED BY <2>1, <2>2, <2>3, <2>4, <2>5, <2>6 DEF Poller, Flush
<1>3. nospace' \in BOOLEAN /\ input' \in BOOLEAN
  <2>1. CASE writeBuffer \/ writeFile
    <3>1. Send(Rest0, Takes(Len(Rest0)))
      BY <2>1 DEF writeBuffer, writeFile
    <3> QED BY <3>1, SendTyped
  <2>2. CASE FlushAgain \/ Reading
    BY <2>2 DEF FlushAgain, Reading, FlagsOK
  <2>3. CASE \/ EpollWait \/ OnConnected \/ ConnectedReset \/ ConnectedMod \/ FlushBegin
             \/ FlushError \/ FlushDone \/ ResetCheck \/ ResetMod \/ PollError
    BY <2>3 DEF EpollWait, OnConnected, ConnectedReset, ConnectedMod, FlushBegin, FlushError,
                FlushDone, ResetCheck, ResetMod, PollError, wire, FlagsOK
  <2> QED BY <2>1, <2>2, <2>3 DEF Poller, Flush
<1>4. sawEmpty' \in BOOLEAN
  BY DEF Poller, Flush, EpollWait, OnConnected, ConnectedReset, ConnectedMod, FlushBegin, writeBuffer,
         writeFile, FlushAgain, FlushError, FlushDone, Reading, ResetCheck, ResetMod, PollError,
         poll, FlagsOK
<1>5. ev' \subseteq {"in", "out", "err"}
  <2>1. ev' = ev \/ ev' \subseteq ReadyWith(out)
    BY DEF Poller, Flush, EpollWait, OnConnected, ConnectedReset, ConnectedMod, FlushBegin, writeBuffer,
           writeFile, FlushAgain, FlushError, FlushDone, Reading, ResetCheck, ResetMod, PollError, poll
  <2> QED BY <2>1, ReadyTyped DEF PollOK
<1>6. pc' \in {"wait", "write", "connected", "connmod", "flush", "read", "check", "reset", "err"}
  BY DEF Poller, Flush, EpollWait, OnConnected, ConnectedReset, ConnectedMod, FlushBegin, writeBuffer,
         writeFile, FlushAgain, FlushError, FlushDone, Reading, ResetCheck, ResetMod, PollError,
         poll, AfterRead, PollOK
<1>7. FlagsOK'
  BY <1>0, <1>1, <1>2, <1>3, <1>4 DEF FlagsOK
<1>8. PollOK'
  BY <1>0, <1>1, <1>5, <1>6 DEF PollOK
<1> QED BY <1>7, <1>8

LEMMA TypeStep ==
  ASSUME TypeOK, [Next]_vars, DataNext, left' \in Nat
  PROVE  TypeOK'
<1>1. FlagsOK /\ PollOK /\ HistOK /\ DataOK
  BY TypeParts, DataTyped
<1>2. FlagsOK' /\ PollOK' /\ HistOK'
  <2>1. ASSUME NEW n \in Sizes, Write(n) PROVE FlagsOK' /\ PollOK' /\ HistOK'
    BY <1>1, <2>1, WriteTyped, CallsAssumption
  <2>2. ASSUME NEW n \in Sizes, Sendfile(n) PROVE FlagsOK' /\ PollOK' /\ HistOK'
    BY <1>1, <2>2, SendfileTyped, CallsAssumption
  <2>3. ASSUME NEW v \in Vecs, Writev(v) PROVE FlagsOK' /\ PollOK' /\ HistOK'
    BY <1>1, <2>3, WritevTyped, CallsAssumption
  <2>4. ASSUME UNCHANGED hist PROVE HistOK'
    BY <1>1, <2>4 DEF HistOK, hist
  <2>5. CASE Close \/ SetWriteDeadline \/ SetDialDeadline \/ TimerFires \/ WriteTimeout
    <3>1. UNCHANGED hist
      BY <2>5 DEF Close, SetWriteDeadline, SetDialDeadline, TimerFires, WriteTimeout
    <3> QED BY <1>1, <2>4, <2>5, <3>1, UserTyped
  <2>6. CASE PeerAccepts \/ PeerReads \/ PeerSends \/ PeerCloses
    <3>1. UNCHANGED hist
      BY <2>6 DEF PeerAccepts, PeerReads, PeerSends, PeerCloses
    <3> QED BY <1>1, <2>4, <2>6, <3>1, PeerTyped
  <2>7. CASE Poller
    <3>1. UNCHANGED hist
      BY <2>7 DEF Poller, Flush, EpollWait, OnConnected, ConnectedReset, ConnectedMod, FlushBegin,
                  writeBuffer, writeFile, FlushAgain, FlushError, FlushDone, Reading, ResetCheck,
                  ResetMod, PollError
    <3> QED BY <1>1, <2>4, <2>7, <3>1, PollerTyped
  <2>8. CASE UNCHANGED vars
    <3>1. FlagsOK' /\ PollOK'
      BY <1>1, <2>8 DEF vars, FlagsOK, PollOK, conn, timer, epoll, wire, poll, hist
    <3> QED BY <2>4, <2>8, <3>1 DEF vars
  <2> QED BY <2>1, <2>2, <2>3, <2>5, <2>6, <2>7, <2>8 DEF Next
<1>3. TypeOK' <=> /\ FlagsOK' /\ PollOK' /\ HistOK'
                  /\ writeList' \in Lists /\ left' \in Nat /\ out' \in ByteSeq
                  /\ drained' \in 0 .. Len(out') /\ Space' \in 0 .. SndBuf
  BY DEF TypeOK, FlagsOK, PollOK, HistOK, Lists, ByteSeq
<1> QED BY <1>2, <1>3 DEF DataNext

-----------------------------------------------------------------------------
(* The theorems.                                                           *)

LEMMA InitIInv == Init => IInv
<1> SUFFICES ASSUME Init PROVE IInv
  OBVIOUS
<1>1. PICK s \in Setups : mode = s[1] /\ dialed = s[2]
  BY DEF Init
<1>2. <<mode, dialed>> \in Setups /\ mode \in {"LT", "ET", "ONESHOT"} /\ dialed \in BOOLEAN
  BY <1>1, SetupsAssumption
<1>3. /\ closed = FALSE /\ writeList = <<>> /\ left = 0 /\ isWAdded = dialed
      /\ onConnected \in {FALSE, dialed}
      /\ wTimer = FALSE /\ firing = FALSE /\ arming \in {FALSE, onConnected}
      /\ interest = IF dialed \/ mode = "ET" THEN {"in", "out"} ELSE {"in"}
      /\ rdy = (mode # "LT" /\ "out" \in interest /\ ~onConnected)
      /\ nospace = FALSE /\ input = FALSE /\ inputs = 0 /\ out = <<>> /\ drained = 0
      /\ peer = IF onConnected THEN "connecting" ELSE "open"
      /\ pc = "wait" /\ ev = {} /\ sawEmpty = FALSE
      /\ next = 1 /\ owed = {} /\ given = {} /\ dupFailed = FALSE
  BY DEF Init
<1>4. FlagsOK
  BY <1>2, <1>3 DEF FlagsOK
<1>5. PollOK
  BY <1>2, <1>3, BoundsAssumption DEF PollOK
<1>6. HistOK
  BY <1>3, BoundsAssumption DEF HistOK
<1>7. /\ writeList \in Lists /\ left \in Nat /\ out \in ByteSeq /\ Len(out) = 0
      /\ drained \in 0 .. Len(out) /\ Space \in 0 .. SndBuf
  <2>1. writeList \in Lists /\ out \in ByteSeq /\ Len(out) = 0
    BY <1>3 DEF Lists, ByteSeq
  <2> QED BY <1>3, <2>1, SizesAssumption DEF Space
<1>8. TypeOK
  BY <1>4, <1>5, <1>6, <1>7, TypeParts
<1>9. Accepted = out /\ BufBytes(writeList) = 0
  BY <1>3, <1>8, DataTyped, EmptyList
<1>10. StreamInv
  BY <1>7, <1>9 DEF StreamInv, Ascending
<1>11. LeftExact
  BY <1>3, <1>9, SizesAssumption DEF LeftExact
<1>12. ReportedIsKept
  BY <1>3 DEF ReportedIsKept
<1>13. Control
  <2>1. ~dialed => ~onConnected
    <3>1. CASE dialed = TRUE
      BY <3>1
    <3>2. CASE dialed = FALSE
      BY <1>3, <3>2
    <3> QED BY <1>2, <3>1, <3>2
  <2> QED BY <1>3, <2>1 DEF Control
<1>14. WriteEventSet
  BY <1>2, <1>3 DEF WriteEventSet
<1> QED BY <1>8, <1>10, <1>11, <1>12, <1>13, <1>14 DEF IInv

LEMMA NextIInv == IInv /\ [Next]_vars => IInv'
<1> SUFFICES ASSUME IInv, [Next]_vars PROVE IInv'
  OBVIOUS
<1>1. TypeOK /\ Control /\ StreamInv /\ LeftExact /\ ReportedIsKept /\ WriteEventSet /\ DataOK
  BY DataTyped DEF IInv
<1>2. DataStep /\ LeftNext
  BY <1>1, EveryStep
<1>3. DataNext /\ StreamInv' /\ ReportedIsKept'
  BY <1>1, <1>2, StreamStep
<1>4. LeftExact' /\ left' \in Nat
  BY <1>2, LeftStep DEF LeftNext
<1>5. TypeOK'
  BY <1>1, <1>3, <1>4, TypeStep
<1>6. Control' /\ WriteEventSet'
  BY <1>1, ControlStep
<1> QED BY <1>3, <1>4, <1>5, <1>6 DEF IInv

LEMMA InductiveInvariant == Spec => []IInv
  BY InitIInv, NextIInv, PTL DEF Spec

\* The write side keeps its types: the list holds buffers and files whose
\* offset is within them, the kernel's buffer never holds more than SndBuf
\* bytes, and left never goes below zero.
THEOREM TypeCorrect == Spec => []TypeOK
<1>1. IInv => TypeOK
  BY DEF IInv
<1> QED BY <1>1, InductiveInvariant, PTL

LEMMA InOrder == IInv => StreamInOrder
<1> SUFFICES ASSUME IInv PROVE StreamInOrder
  OBVIOUS
<1>1. DataOK /\ StreamInv
  BY DataTyped DEF IInv
<1>2. Len(Accepted) \in Nat
  BY <1>1, AcceptedTyped, SeqFacts DEF ByteSeq
<1>3. \A i, j \in 1 .. Len(Accepted) : i < j => Accepted[i] < Accepted[j]
  BY <1>1 DEF StreamInv, Ascending
<1> HIDE DEF Accepted
<1>4. \A k \in 1 .. Len(Accepted) - 1 :
        k \in 1 .. Len(Accepted) /\ k + 1 \in 1 .. Len(Accepted) /\ k < k + 1
  BY <1>2
<1> QED BY <1>3, <1>4, Zenon DEF StreamInOrder

\* Bytes go to the kernel and into the write list in the order in which Write,
\* Writev and Sendfile were given them, none twice, wherever the kernel cuts a
\* write and however the calls interleave with flush.
THEOREM BytesInOrder == Spec => []StreamInOrder
  BY InOrder, InductiveInvariant, PTL

\* While the Conn is open and no Sendfile has lost its file, a byte that a
\* call reported as written has been sent or is in the write list.
THEOREM ReportedBytesKept == Spec => []ReportedIsKept
<1>1. IInv => ReportedIsKept
  BY DEF IInv
<1> QED BY <1>1, InductiveInvariant, PTL

\* left counts the unsent bytes of the list's buffers exactly, so that with a
\* MaxWriteBufferSize the cache of an open Conn never exceeds it.
THEOREM LeftIsExact == Spec => []LeftExact
<1>1. IInv => LeftExact
  BY DEF IInv
<1> QED BY <1>1, InductiveInvariant, PTL

\* On an accepted Conn, cached data implies that the write event was asked
\* for, and a level-triggered registration agrees with isWAdded.
THEOREM WriteEventIsSet == Spec => []WriteEventSet
<1>1. IInv => WriteEventSet
  BY DEF IInv
<1> QED BY <1>1, InductiveInvariant, PTL

LEMMA ClosedStep ==
  ASSUME IInv, [Next]_vars, closed
  PROVE  closed' /\ out' = out /\ writeList' = <<>>
<1>1. Control /\ writeList = <<>> /\ pc # "flush"
  BY DEF IInv, Control
<1>2. ~MayCall
  BY DEF MayCall
<1>3. CASE \/ \E n \in Sizes : Write(n) \/ Sendfile(n)
           \/ \E v \in Vecs : Writev(v)
           \/ Close \/ SetWriteDeadline
  BY <1>2, <1>3 DEF Write, Sendfile, Writev, Close, SetWriteDeadline
<1>4. CASE SetDialDeadline \/ TimerFires \/ WriteTimeout
  BY <1>4 DEF SetDialDeadline, TimerFires, WriteTimeout
<1>5. CASE PeerAccepts \/ PeerReads \/ PeerSends \/ PeerCloses
  BY <1>1, <1>5 DEF PeerAccepts, PeerReads, PeerSends, PeerCloses, conn
<1>6. CASE \/ EpollWait \/ OnConnected \/ ConnectedReset \/ ConnectedMod \/ FlushBegin
           \/ ResetCheck \/ ResetMod
  BY <1>1, <1>6 DEF EpollWait, OnConnected, ConnectedReset, ConnectedMod, FlushBegin, ResetCheck,
                    ResetMod, conn, wire
<1>7. CASE Flush
  BY <1>1, <1>7 DEF Flush, writeBuffer, writeFile, FlushAgain, FlushError, FlushDone
<1>8. CASE Reading \/ PollError
  BY <1>1, <1>8 DEF Reading, PollError, closeWithError, conn, wire
<1>9. CASE UNCHANGED vars
  BY <1>1, <1>9 DEF vars, conn, wire
<1> QED BY <1>3, <1>4, <1>5, <1>6, <1>7, <1>8, <1>9 DEF Next, Poller

\* A closed Conn stays closed, hands the kernel no more bytes and caches none,
\* although the poller may still be in the middle of its events.
THEOREM ClosedConnIsSilent == Spec => ClosedIsSilent
<1>1. IInv /\ [Next]_vars => [closed => closed' /\ out' = out /\ writeList' = <<>>]_vars
  BY ClosedStep
<1> QED BY <1>1, InductiveInvariant, PTL DEF Spec, ClosedIsSilent
=============================================================================
