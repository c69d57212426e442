-------------------------- MODULE HdfWriterProofs --------------------------
(***************************************************************************)
(* Machine-checked proofs about the HDF writer: what a file says of its    *)
(* frames is true, and frames end up in one place, for every set of        *)
(* contexts, every queue length and cap, and without bounds on rings,      *)
(* frames, files and faults.                                               *)
(***************************************************************************)
EXTENDS HdfWriter, SequenceTheorems, FiniteSetTheorems, WellFoundedInduction, TLAPS

-----------------------------------------------------------------------------
(* Induction over the natural numbers, for sets *)

\* A set of natural numbers that is not empty has a least element.
LEMMA LeastNatural ==
  ASSUME NEW T \in SUBSET Nat, T # {}
  PROVE  \E x \in T : \A y \in T : x <= y
<1>1. PICK R : IsWellFoundedOn(R, Nat) /\ R = {p \in Nat \X Nat : p[1] < p[2]}
  <2>1. \E R : IsWellFoundedOn(R, Nat) /\ R = {p \in Nat \X Nat : p[1] < p[2]}
    BY NatLessThanWellFounded, Zenon DEF OpToRel
  <2> QED
    BY <2>1, Zenon
<1>2. PICK x \in T : \A y \in T : ~(<<y, x>> \in R)
  BY <1>1, WFMin
<1>3. \A y \in T : ~(y < x)
  BY <1>1, <1>2
<1> QED
  BY <1>3

\* A set with 0 and the successors of its members has every natural number.
LEMMA InductiveSet ==
  ASSUME NEW S, 0 \in S, \A n \in Nat : n \in S => n + 1 \in S
  PROVE  Nat \subseteq S
<1> SUFFICES ASSUME Nat \ S # {} PROVE FALSE
  OBVIOUS
<1>1. PICK x \in Nat \ S : \A y \in Nat \ S : x <= y
  BY LeastNatural
<1>2. x # 0 /\ x - 1 \in Nat
  BY <1>1
<1>3. x - 1 \in S
  BY <1>1, <1>2
<1> QED
  BY <1>2, <1>3

-----------------------------------------------------------------------------
(* Sequences *)

Sequence(s) == \E S : s \in Seq(S)

\* A sequence is a function over 1 to its length.
LEMMA IsSequence ==
  ASSUME NEW s, Sequence(s)
  PROVE  Len(s) \in Nat /\ DOMAIN s = 1 .. Len(s)
  BY LenProperties DEF Sequence

\* The empty sequence.
LEMMA EmptyIsSequence == Sequence(<<>>) /\ Len(<<>>) = 0 /\ DOMAIN <<>> = {}
<1>1. <<>> \in Seq({})
  OBVIOUS
<1> QED
  BY <1>1 DEF Sequence

\* A function over 1 to n is a sequence of that length.
LEMMA FunctionIsSequence ==
  ASSUME NEW n \in Nat, NEW f, f = [i \in 1 .. n |-> f[i]]
  PROVE  Sequence(f) /\ Len(f) = n /\ DOMAIN f = 1 .. n
<1>1. f \in Seq({f[i] : i \in 1 .. n}) /\ DOMAIN f = 1 .. n
  OBVIOUS
<1>2. Sequence(f)
  BY <1>1 DEF Sequence
<1>3. Len(f) \in Nat /\ 1 .. Len(f) = 1 .. n
  BY <1>1, <1>2, IsSequence
<1>4. Len(f) = n
  BY <1>3
<1> QED
  BY <1>1, <1>2, <1>4

\* Two sequences, one after the other.
LEMMA Joined ==
  ASSUME NEW s, NEW t, Sequence(s), Sequence(t)
  PROVE  /\ Sequence(s \o t) /\ Len(s \o t) = Len(s) + Len(t)
         /\ DOMAIN (s \o t) = 1 .. Len(s) + Len(t)
         /\ \A i \in 1 .. Len(s) : (s \o t)[i] = s[i]
         /\ \A i \in 1 .. Len(t) : (s \o t)[Len(s) + i] = t[i]
         /\ \A i \in DOMAIN (s \o t) : \/ i \in DOMAIN s /\ (s \o t)[i] = s[i]
                                       \/ i - Len(s) \in DOMAIN t /\ (s \o t)[i] = t[i - Len(s)]
<1>1. PICK S, T : s \in Seq(S) /\ t \in Seq(T)
  BY DEF Sequence
<1>2. s \in Seq(S \cup T) /\ t \in Seq(S \cup T)
  BY <1>1
<1>3. Len(s) \in Nat /\ Len(t) \in Nat /\ DOMAIN s = 1 .. Len(s) /\ DOMAIN t = 1 .. Len(t)
  BY IsSequence
<1>4. s \o t \in Seq(S \cup T) /\ Len(s \o t) = Len(s) + Len(t)
  BY <1>2, ConcatProperties
<1>5. \A i \in 1 .. Len(s) + Len(t) : (s \o t)[i] = IF i <= Len(s) THEN s[i] ELSE t[i - Len(s)]
  BY <1>2, ConcatProperties
<1>6. Sequence(s \o t) /\ DOMAIN (s \o t) = 1 .. Len(s) + Len(t)
  BY <1>4, IsSequence DEF Sequence
<1>7. \A i \in 1 .. Len(s) : (s \o t)[i] = s[i]
  BY <1>3, <1>5
<1>8. \A i \in 1 .. Len(t) : (s \o t)[Len(s) + i] = t[i]
  BY <1>3, <1>5
<1>9. ASSUME NEW i \in 1 .. Len(s) + Len(t)
      PROVE  \/ i \in DOMAIN s /\ (s \o t)[i] = s[i]
             \/ i - Len(s) \in DOMAIN t /\ (s \o t)[i] = t[i - Len(s)]
  BY <1>3, <1>5
<1> QED
  BY <1>4, <1>6, <1>7, <1>8, <1>9

\* A sequence and one element more.
LEMMA Appended ==
  ASSUME NEW s, Sequence(s), NEW e
  PROVE  /\ Sequence(Append(s, e)) /\ Len(Append(s, e)) = Len(s) + 1
         /\ DOMAIN Append(s, e) = 1 .. Len(s) + 1 /\ Len(s) + 1 \notin DOMAIN s
         /\ \A i \in DOMAIN s : i \in DOMAIN Append(s, e) /\ Append(s, e)[i] = s[i]
         /\ Append(s, e)[Len(s) + 1] = e
         /\ \A i \in DOMAIN Append(s, e) : i \in DOMAIN s \/ i = Len(s) + 1
<1>1. PICK S : s \in Seq(S)
  BY DEF Sequence
<1>2. s \in Seq(S \cup {e}) /\ e \in S \cup {e}
  BY <1>1
<1>3. /\ Append(s, e) \in Seq(S \cup {e}) /\ Len(Append(s, e)) = Len(s) + 1
      /\ \A i \in 1 .. Len(s) : Append(s, e)[i] = s[i]
      /\ Append(s, e)[Len(s) + 1] = e
  BY <1>2, AppendProperties
<1>4. Len(s) \in Nat /\ DOMAIN s = 1 .. Len(s)
  BY IsSequence
<1>5. Sequence(Append(s, e)) /\ DOMAIN Append(s, e) = 1 .. Len(s) + 1
  BY <1>3, IsSequence DEF Sequence
<1> QED
  BY <1>3, <1>4, <1>5

\* A sequence without its first element.
LEMMA Tailed ==
  ASSUME NEW s, Sequence(s), s # <<>>
  PROVE  /\ Sequence(Tail(s)) /\ Len(s) \in Nat \ {0} /\ Len(Tail(s)) = Len(s) - 1
         /\ Head(s) = s[1] /\ 1 \in DOMAIN s
         /\ \A i \in DOMAIN Tail(s) : i + 1 \in DOMAIN s /\ i + 1 # 1 /\ Tail(s)[i] = s[i + 1]
<1>1. PICK S : s \in Seq(S)
  BY DEF Sequence
<1>2. Len(s) \in Nat /\ DOMAIN s = 1 .. Len(s) /\ Len(s) # 0
  BY <1>1, EmptySeq, IsSequence
<1>3. Tail(s) \in Seq(S) /\ Len(Tail(s)) = Len(s) - 1 /\ \A i \in 1 .. Len(Tail(s)) : Tail(s)[i] = s[i + 1]
  BY <1>1, HeadTailProperties
<1>4. Sequence(Tail(s)) /\ DOMAIN Tail(s) = 1 .. Len(s) - 1
  BY <1>3, IsSequence DEF Sequence
<1>5. Head(s) = s[1]
  BY <1>1
<1> QED
  BY <1>2, <1>3, <1>4, <1>5

-----------------------------------------------------------------------------
(* Sorting: a finite set with a strict total order R can be enumerated *)

Ordered(R, S) ==
    /\ \A x, y, z \in S : <<x, y>> \in R /\ <<y, z>> \in R => <<x, z>> \in R
    /\ \A x, y \in S : x # y => <<x, y>> \in R \/ <<y, x>> \in R
    /\ \A x \in S : <<x, x>> \notin R

Enumerates(o, R, T, k) ==
    /\ o \in [1 .. k -> T]
    /\ \A i, j \in 1 .. k : i < j => <<o[i], o[j]>> \in R

\* One element more is put before the first one that follows it.
LEMMA Inserted ==
  ASSUME NEW S, NEW R, Ordered(R, S), NEW T \in SUBSET S, NEW x \in S, x \notin T,
         NEW k \in Nat, NEW o, Enumerates(o, R, T, k)
  PROVE  \E p : Enumerates(p, R, T \cup {x}, k + 1)
<1> DEFINE L == {i \in 1 .. k + 1 : i = k + 1 \/ <<x, o[i]>> \in R}
<1>1. PICK h \in L : \A i \in L : h <= i
  <2>1. k + 1 \in L /\ L \in SUBSET Nat
    OBVIOUS
  <2> HIDE DEF L
  <2> QED
    BY <2>1, LeastNatural
<1>2. h \in 1 .. k + 1
  OBVIOUS
<1>3. ASSUME NEW i \in 1 .. k, i < h
      PROVE  o[i] \in T /\ <<o[i], x>> \in R
  <2>1. o[i] \in T /\ o[i] \in S /\ o[i] # x
    BY DEF Enumerates
  <2>2. i \notin L
    BY <1>1, <1>2, <1>3
  <2>3. <<x, o[i]>> \notin R
    BY <2>2
  <2> QED
    BY <2>1, <2>3 DEF Ordered
<1>4. ASSUME NEW i \in 1 .. k, h <= i
      PROVE  o[i] \in T /\ <<x, o[i]>> \in R
  <2>1. o[i] \in T /\ o[i] \in S
    BY DEF Enumerates
  <2>2. h \in 1 .. k /\ <<x, o[h]>> \in R /\ o[h] \in S
    BY <1>2, <1>4 DEF Enumerates
  <2>3. h = i \/ <<o[h], o[i]>> \in R
    BY <1>4, <2>2 DEF Enumerates
  <2> QED
    BY <2>1, <2>2, <2>3 DEF Ordered
<1> HIDE DEF L
<1> DEFINE p == [i \in 1 .. k + 1 |-> IF i < h THEN o[i] ELSE IF i = h THEN x ELSE o[i - 1]]
<1>5. p \in [1 .. k + 1 -> T \cup {x}]
  <2> SUFFICES ASSUME NEW i \in 1 .. k + 1 PROVE p[i] \in T \cup {x}
    OBVIOUS
  <2>1. CASE i < h
    <3>1. i \in 1 .. k
      BY <1>2, <2>1
    <3> QED
      BY <3>1, <1>3, <2>1
  <2>2. CASE i = h
    BY <2>2
  <2>3. CASE i > h
    <3>1. i - 1 \in 1 .. k /\ h <= i - 1 /\ p[i] = o[i - 1]
      BY <1>2, <2>3
    <3> QED
      BY <3>1, <1>4
  <2> QED
    BY <2>1, <2>2, <2>3, <1>2
<1>6. ASSUME NEW i \in 1 .. k + 1, NEW j \in 1 .. k + 1, i < j
      PROVE  <<p[i], p[j]>> \in R
  <2>1. CASE j < h
    <3>1. i \in 1 .. k /\ j \in 1 .. k /\ p[i] = o[i] /\ p[j] = o[j]
      BY <1>2, <1>6, <2>1
    <3> QED
      BY <3>1, <1>6 DEF Enumerates
  <2>2. CASE j = h
    <3>1. i \in 1 .. k /\ i < h /\ p[i] = o[i] /\ p[j] = x
      BY <1>2, <1>6, <2>2
    <3> QED
      BY <3>1, <1>3
  <2>3. CASE j > h /\ i < h
    <3>1. i \in 1 .. k /\ j - 1 \in 1 .. k /\ i < j - 1 /\ p[i] = o[i] /\ p[j] = o[j - 1]
      BY <1>2, <1>6, <2>3
    <3> QED
      BY <3>1 DEF Enumerates
  <2>4. CASE j > h /\ i = h
    <3>1. j - 1 \in 1 .. k /\ h <= j - 1 /\ p[i] = x /\ p[j] = o[j - 1]
      BY <1>2, <1>6, <2>4
    <3> QED
      BY <3>1, <1>4
  <2>5. CASE j > h /\ i > h
    <3>1. i - 1 \in 1 .. k /\ j - 1 \in 1 .. k /\ i - 1 < j - 1 /\ p[i] = o[i - 1] /\ p[j] = o[j - 1]
      BY <1>2, <1>6, <2>5
    <3> QED
      BY <3>1 DEF Enumerates
  <2> QED
    BY <2>1, <2>2, <2>3, <2>4, <2>5, <1>2
<1>7. Enumerates(p, R, T \cup {x}, k + 1)
  <2> HIDE DEF p
  <2> QED
    BY <1>5, <1>6 DEF Enumerates
<1> QED
  BY <1>7

\* Every finite set in such an order has an enumeration.
LEMMA Enumeration ==
  ASSUME NEW S, IsFiniteSet(S), NEW R, Ordered(R, S)
  PROVE  \E o : Enumerates(o, R, S, Cardinality(S))
<1> DEFINE N == {k \in Nat : \A T \in SUBSET S : Cardinality(T) = k => \E o : Enumerates(o, R, T, k)}
<1>1. 0 \in N
  <2> SUFFICES ASSUME NEW T \in SUBSET S PROVE \E o : Enumerates(o, R, T, 0)
    OBVIOUS
  <2>1. <<>> \in [1 .. 0 -> T]
    OBVIOUS
  <2>2. Enumerates(<<>>, R, T, 0)
    BY <2>1 DEF Enumerates
  <2> QED
    BY <2>2
<1>2. \A k \in Nat : k \in N => k + 1 \in N
  <2> SUFFICES ASSUME NEW k \in Nat, k \in N, NEW T \in SUBSET S, Cardinality(T) = k + 1
               PROVE  \E o : Enumerates(o, R, T, k + 1)
    OBVIOUS
  <2>1. \A Y \in SUBSET S : Cardinality(Y) = k => \E o : Enumerates(o, R, Y, k)
    OBVIOUS
  <2> HIDE DEF N
  <2>2a. IsFiniteSet(T) /\ T # {}
    BY FS_Subset, FS_EmptySet
  <2>2. PICK x \in T : TRUE
    BY <2>2a
  <2>3a. Cardinality(T \ {x}) = Cardinality(T) - 1
    BY <2>2a, FS_RemoveElement
  <2>3. Cardinality(T \ {x}) = k
    BY <2>3a
  <2>4. PICK o : Enumerates(o, R, T \ {x}, k)
    BY <2>1, <2>3
  <2>5. \E p : Enumerates(p, R, (T \ {x}) \cup {x}, k + 1)
    BY <2>4, Inserted, Zenon
  <2>6. (T \ {x}) \cup {x} = T
    OBVIOUS
  <2> QED
    BY <2>5, <2>6
<1>3. Cardinality(S) \in N
  <2> HIDE DEF N
  <2> QED
    BY <1>1, <1>2, InductiveSet, FS_CardinalityType
<1> QED
  BY <1>3

\* An enumeration leaves nothing out and repeats nothing.
LEMMA EnumeratesAll ==
  ASSUME NEW S, IsFiniteSet(S), NEW R, Ordered(R, S), NEW o, Enumerates(o, R, S, Cardinality(S))
  PROVE  /\ \A i, j \in 1 .. Cardinality(S) : i # j => o[i] # o[j]
         /\ \A x \in S : \E i \in 1 .. Cardinality(S) : o[i] = x
<1> DEFINE k == Cardinality(S)
<1>1. k \in Nat
  BY FS_CardinalityType
<1> HIDE DEF k
<1>2. o \in [1 .. k -> S] /\ \A i, j \in 1 .. k : i < j => <<o[i], o[j]>> \in R
  BY DEF Enumerates, k
<1>3. \A i, j \in 1 .. k : i # j => o[i] # o[j]
  <2> SUFFICES ASSUME NEW i \in 1 .. k, NEW j \in 1 .. k, i < j, o[i] = o[j] PROVE FALSE
    BY <1>1
  <2> QED
    BY <1>2 DEF Ordered
<1>4. o \in Injection(1 .. k, S)
  BY <1>2, <1>3 DEF Injection, IsInjective
<1>5. Cardinality(1 .. k) = k
  BY <1>1, FS_Interval
<1>6. o \in Surjection(1 .. k, S)
  BY <1>4, <1>5, FS_Injection DEF k
<1> QED
  BY <1>3, <1>6 DEF Surjection, k

\* The numbers from 1 to k.
LEMMA Interval ==
  ASSUME NEW k \in Nat
  PROVE  IsFiniteSet(1 .. k) /\ Cardinality(1 .. k) = k
  BY FS_Interval

\* Ascending lists a finite set of numbers.
LEMMA AscendingLists ==
  ASSUME NEW S \in SUBSET Nat, IsFiniteSet(S)
  PROVE  /\ Sequence(Ascending(S)) /\ Len(Ascending(S)) = Cardinality(S)
         /\ DOMAIN Ascending(S) = 1 .. Cardinality(S)
         /\ \A i \in DOMAIN Ascending(S) : Ascending(S)[i] \in S
         /\ \A i, j \in DOMAIN Ascending(S) : i # j => Ascending(S)[i] # Ascending(S)[j]
         /\ \A x \in S : \E i \in DOMAIN Ascending(S) : Ascending(S)[i] = x
<1> DEFINE k == Cardinality(S)
           R == {p \in S \X S : p[1] < p[2]}
           Good(o) == o \in [1 .. k -> S] /\ \A i, j \in 1 .. k : i < j => o[i] < o[j]
<1>1. k \in Nat
  BY FS_CardinalityType
<1>2. Ordered(R, S)
  BY DEF Ordered
<1>3. \A o : Enumerates(o, R, S, k) <=> Good(o)
  BY DEF Enumerates
<1>4. \E o : Good(o)
  <2> HIDE DEF R, Good
  <2> QED
    BY <1>2, <1>3, Enumeration
<1>5. Good(Ascending(S))
  <2>1. Ascending(S) = CHOOSE o : Good(o)
    BY DEF Ascending
  <2> QED
    BY <1>4, <2>1
<1>6. Enumerates(Ascending(S), R, S, k)
  BY <1>3, <1>5
<1>7. DOMAIN Ascending(S) = 1 .. k /\ \A i \in 1 .. k : Ascending(S)[i] \in S
  BY <1>5
<1>8. Ascending(S) = [i \in 1 .. k |-> Ascending(S)[i]]
  BY <1>5
<1>9. Sequence(Ascending(S)) /\ Len(Ascending(S)) = k
  <2> HIDE DEF k
  <2> QED
    BY <1>1, <1>8, FunctionIsSequence
<1>10. /\ \A i, j \in 1 .. k : i # j => Ascending(S)[i] # Ascending(S)[j]
       /\ \A x \in S : \E i \in 1 .. k : Ascending(S)[i] = x
  <2> HIDE DEF R
  <2> QED
    BY <1>2, <1>6, EnumeratesAll
<1> QED
  BY <1>7, <1>9, <1>10

-----------------------------------------------------------------------------
(* Rows: frames of the rings R, each with its own context or none *)

Id(r) == [f |-> FrameOf(r), a |-> r.a]
Genuine(R, r) == r.g \in 1 .. MaxRings /\ r.n \in 1 .. Len(R[r.g]) /\ r.c \in {Unknown, R[r.g][r.n]}
Injective(s) == \A i, j \in DOMAIN s : i # j => Id(s[i]) # Id(s[j])

GenuineRows(R, s) ==
    /\ Sequence(s)
    /\ \A i \in DOMAIN s : Genuine(R, s[i])
    /\ Injective(s)

\* The rings: each is the sequence of contexts of its frames.
RingsOf(R) == DOMAIN R = 1 .. MaxRings /\ \A g \in 1 .. MaxRings : Sequence(R[g])

\* FramesOf in terms of Id.
LEMMA FramesAreIds ==
  ASSUME NEW s
  PROVE  FramesOf(s) = {Id(s[i]) : i \in DOMAIN s}
  BY DEF FramesOf, Id

HasFrames(s, X) == FramesOf(s) = X

\* Rows with different frames, one after the other.
LEMMA JoinedRows ==
  ASSUME NEW R, NEW s, NEW t, GenuineRows(R, s), GenuineRows(R, t), FramesOf(s) \cap FramesOf(t) = {},
         NEW u, u = s \o t
  PROVE  GenuineRows(R, u) /\ HasFrames(u, FramesOf(s) \cup FramesOf(t))
<1>1. Sequence(s) /\ Sequence(t)
  BY DEF GenuineRows
<1>2. /\ Sequence(u) /\ DOMAIN u = 1 .. Len(s) + Len(t)
      /\ \A i \in 1 .. Len(s) : u[i] = s[i]
      /\ \A i \in 1 .. Len(t) : u[Len(s) + i] = t[i]
      /\ \A i \in DOMAIN u : \/ i \in DOMAIN s /\ u[i] = s[i]
                             \/ i - Len(s) \in DOMAIN t /\ u[i] = t[i - Len(s)]
  BY <1>1, Joined
<1>3. Len(s) \in Nat /\ Len(t) \in Nat /\ DOMAIN s = 1 .. Len(s) /\ DOMAIN t = 1 .. Len(t)
  BY <1>1, IsSequence
<1>4. \A i \in DOMAIN u : Genuine(R, u[i])
  BY <1>2 DEF GenuineRows
<1>5. \A i \in DOMAIN s, j \in DOMAIN t : Id(s[i]) # Id(t[j])
  BY FramesAreIds
<1>6. ASSUME NEW i \in DOMAIN u, NEW j \in DOMAIN u, i # j
      PROVE  Id(u[i]) # Id(u[j])
  <2>1. CASE i \in DOMAIN s /\ u[i] = s[i] /\ j \in DOMAIN s /\ u[j] = s[j]
    BY <1>6, <2>1 DEF GenuineRows, Injective
  <2>2. CASE i \in DOMAIN s /\ u[i] = s[i] /\ j - Len(s) \in DOMAIN t /\ u[j] = t[j - Len(s)]
    BY <1>5, <2>2
  <2>3. CASE i - Len(s) \in DOMAIN t /\ u[i] = t[i - Len(s)] /\ j \in DOMAIN s /\ u[j] = s[j]
    BY <1>5, <2>3
  <2>4. CASE i - Len(s) \in DOMAIN t /\ u[i] = t[i - Len(s)] /\ j - Len(s) \in DOMAIN t /\ u[j] = t[j - Len(s)]
    <3>1. i - Len(s) # j - Len(s)
      BY <1>2, <1>3, <1>6
    <3> QED
      BY <3>1, <2>4 DEF GenuineRows, Injective
  <2> QED
    BY <1>2, <2>1, <2>2, <2>3, <2>4
<1>7. ASSUME NEW x \in FramesOf(u)
      PROVE  x \in FramesOf(s) \cup FramesOf(t)
  <2>1. PICK i \in DOMAIN u : x = Id(u[i])
    BY FramesAreIds
  <2>2. CASE i \in DOMAIN s /\ u[i] = s[i]
    BY <2>1, <2>2, FramesAreIds
  <2>3. CASE i - Len(s) \in DOMAIN t /\ u[i] = t[i - Len(s)]
    BY <2>1, <2>3, FramesAreIds
  <2> QED
    BY <1>2, <2>2, <2>3
<1>8. FramesOf(s) \subseteq FramesOf(u)
  <2>1. \A i \in DOMAIN s : i \in DOMAIN u /\ u[i] = s[i]
    BY <1>2, <1>3
  <2> QED
    BY <2>1, FramesAreIds
<1>9. FramesOf(t) \subseteq FramesOf(u)
  <2>1. \A i \in DOMAIN t : Len(s) + i \in DOMAIN u /\ u[Len(s) + i] = t[i]
    BY <1>2, <1>3
  <2> QED
    BY <2>1, FramesAreIds
<1>10. GenuineRows(R, u)
  BY <1>2, <1>4, <1>6 DEF GenuineRows, Injective
<1> QED
  BY <1>7, <1>8, <1>9, <1>10 DEF HasFrames

\* No rows.
LEMMA NoRows ==
  ASSUME NEW R
  PROVE  GenuineRows(R, <<>>) /\ FramesOf(<<>>) = {}
<1>1. Sequence(<<>>) /\ DOMAIN <<>> = {}
  BY EmptyIsSequence
<1> QED
  BY <1>1, FramesAreIds DEF GenuineRows, Injective

\* Cutting rows in two.
LEMMA CutRows ==
  ASSUME NEW R, NEW s, GenuineRows(R, s), NEW k \in 0 .. Len(s)
  PROVE  /\ GenuineRows(R, SubSeq(s, k + 1, Len(s))) /\ GenuineRows(R, SubSeq(s, 1, k))
         /\ FramesOf(SubSeq(s, 1, k)) \cup FramesOf(SubSeq(s, k + 1, Len(s))) = FramesOf(s)
         /\ FramesOf(SubSeq(s, 1, k)) \cap FramesOf(SubSeq(s, k + 1, Len(s))) = {}
<1>1. Sequence(s)
  BY DEF GenuineRows
<1>2. Len(s) \in Nat /\ DOMAIN s = 1 .. Len(s)
  BY <1>1, IsSequence
<1> DEFINE u == SubSeq(s, 1, k)
           v == SubSeq(s, k + 1, Len(s))
<1>3. u = [i \in 1 .. k |-> s[i]] /\ v = [i \in 1 .. Len(s) - k |-> s[i + k]]
  <2>1. 1 .. (1 + k - 1) = 1 .. k /\ \A i \in 1 .. k : i + 1 - 1 = i
    BY <1>2
  <2>2. PICK S : s \in Seq(S)
    BY <1>1 DEF Sequence
  <2>3. u = [i \in 1 .. k |-> s[i]]
    BY <1>2, <2>2, SubSeqProperties
  <2>4. v = [i \in 1 .. Len(s) - k |-> s[i + k]]
    <3>1. k + 1 \in Int /\ Len(s) \in Int /\ \A i \in k + 1 .. Len(s) : s[i] \in S
      BY <1>2, <2>2
    <3>2. PICK w : /\ w = v /\ w \in Seq(S) /\ Len(w) = IF k + 1 <= Len(s) THEN Len(s) - (k + 1) + 1 ELSE 0
                   /\ \A i \in 1 .. Len(s) - (k + 1) + 1 : w[i] = s[k + 1 + i - 1]
      <4>1. /\ v \in Seq(S) /\ Len(v) = IF k + 1 <= Len(s) THEN Len(s) - (k + 1) + 1 ELSE 0
            /\ \A i \in 1 .. Len(s) - (k + 1) + 1 : v[i] = s[k + 1 + i - 1]
        BY <3>1, SubSeqProperties
      <4> HIDE DEF v
      <4> QED
        BY <4>1
    <3>3. PICK N \in Nat : N = Len(s) /\ k \in 0 .. N
      BY <1>2
    <3>4. N - (k + 1) + 1 = N - k /\ \A i \in 1 .. N - k : k + 1 + i - 1 = i + k
      BY <3>3
    <3>5. Len(w) = N - k
      BY <3>2, <3>3, <3>4
    <3>6. \A i \in 1 .. N - k : w[i] = s[i + k]
      BY <3>2, <3>3, <3>4
    <3> QED
      BY <3>2, <3>3, <3>5, <3>6
  <2> QED
    BY <2>3, <2>4
<1> HIDE DEF u, v
<1>4. /\ Sequence(u) /\ DOMAIN u = 1 .. k /\ \A i \in 1 .. k : u[i] = s[i]
      /\ Sequence(v) /\ DOMAIN v = 1 .. Len(s) - k /\ \A i \in 1 .. Len(s) - k : v[i] = s[i + k]
  <2>1. k \in Nat /\ Len(s) - k \in Nat
    BY <1>2
  <2>2. u = [i \in 1 .. k |-> u[i]] /\ v = [i \in 1 .. Len(s) - k |-> v[i]]
    BY <1>3
  <2>3. Sequence(u) /\ DOMAIN u = 1 .. k
    BY <2>1, <2>2, FunctionIsSequence
  <2>4. Sequence(v) /\ DOMAIN v = 1 .. Len(s) - k
    BY <2>1, <2>2, FunctionIsSequence
  <2> QED
    BY <1>3, <2>3, <2>4
<1>5. \A i \in 1 .. Len(s) - k : i + k \in DOMAIN s
  BY <1>2
<1>6. GenuineRows(R, u)
  BY <1>2, <1>4 DEF GenuineRows, Injective
<1>7. GenuineRows(R, v)
  <2>1. \A i, j \in 1 .. Len(s) - k : i # j => i + k # j + k
    BY <1>2
  <2>2. \A i, j \in DOMAIN v : i # j => Id(v[i]) # Id(v[j])
    BY <1>4, <1>5, <2>1 DEF GenuineRows, Injective
  <2>3. \A i \in DOMAIN v : Genuine(R, v[i])
    BY <1>4, <1>5 DEF GenuineRows
  <2> QED
    BY <1>4, <2>2, <2>3 DEF GenuineRows, Injective
<1>8. FramesOf(u) \cup FramesOf(v) = FramesOf(s)
  <2>1. \A i \in DOMAIN s : i \in 1 .. k \/ (i - k \in 1 .. Len(s) - k /\ (i - k) + k = i)
    BY <1>2
  <2>2. FramesOf(s) \subseteq FramesOf(u) \cup FramesOf(v)
    BY <1>4, <2>1, FramesAreIds
  <2>3. FramesOf(u) \subseteq FramesOf(s)
    BY <1>2, <1>4, FramesAreIds
  <2>4. FramesOf(v) \subseteq FramesOf(s)
    BY <1>4, <1>5, FramesAreIds
  <2> QED
    BY <2>2, <2>3, <2>4
<1>9. FramesOf(u) \cap FramesOf(v) = {}
  <2>1. \A i \in 1 .. k, j \in 1 .. Len(s) - k : i \in DOMAIN s /\ i # j + k
    BY <1>2
  <2>2. \A i \in 1 .. k, j \in 1 .. Len(s) - k : Id(u[i]) # Id(v[j])
    BY <1>4, <1>5, <2>1 DEF GenuineRows, Injective
  <2> QED
    BY <1>4, <2>2, FramesAreIds
<1> QED
  BY <1>6, <1>7, <1>8, <1>9 DEF u, v

\* Rings that grow keep their frames.
Grown(R, Q) ==
    \A g \in 1 .. MaxRings : /\ Len(R[g]) \in Nat /\ Len(Q[g]) \in Nat /\ Len(R[g]) <= Len(Q[g])
                             /\ \A n \in 1 .. Len(R[g]) : Q[g][n] = R[g][n]

\* Rows keep what they say when their rings grow.
LEMMA RowsOfGrownRings ==
  ASSUME NEW R, NEW Q, NEW s, GenuineRows(R, s), Grown(R, Q)
  PROVE  GenuineRows(Q, s)
<1>1. ASSUME NEW i \in DOMAIN s
      PROVE  Genuine(Q, s[i])
  <2>1. s[i].g \in 1 .. MaxRings /\ s[i].n \in 1 .. Len(R[s[i].g]) /\ s[i].c \in {Unknown, R[s[i].g][s[i].n]}
    BY DEF GenuineRows, Genuine
  <2>2. s[i].n \in 1 .. Len(Q[s[i].g]) /\ Q[s[i].g][s[i].n] = R[s[i].g][s[i].n]
    BY <2>1 DEF Grown
  <2> QED
    BY <2>1, <2>2 DEF Genuine
<1> QED
  BY <1>1 DEF GenuineRows

-----------------------------------------------------------------------------
(* Writing a batch *)

\* What RowOrder asks of an order of the rows.
Sorts(o, data) ==
    /\ o \in [DOMAIN data -> DOMAIN data]
    /\ \A i, j \in DOMAIN data : i < j =>
           data[o[i]].n < data[o[j]].n \/ (data[o[i]].n = data[o[j]].n /\ o[i] < o[j])

\* The order in which rows are written takes every row once.
LEMMA RowOrderTakesEachOnce ==
  ASSUME NEW R, RingsOf(R), NEW data, GenuineRows(R, data)
  PROVE  /\ RowOrder(data) \in [DOMAIN data -> DOMAIN data]
         /\ \A i, j \in DOMAIN data : i # j => RowOrder(data)[i] # RowOrder(data)[j]
         /\ \A k \in DOMAIN data : \E i \in DOMAIN data : RowOrder(data)[i] = k
<1> DEFINE S == DOMAIN data
           Q == {p \in S \X S : data[p[1]].n < data[p[2]].n \/ (data[p[1]].n = data[p[2]].n /\ p[1] < p[2])}
<1>1. Len(data) \in Nat /\ S = 1 .. Len(data)
  BY IsSequence DEF GenuineRows
<1>2. \A i \in S : data[i].n \in Nat
  <2> SUFFICES ASSUME NEW i \in S PROVE data[i].n \in Nat
    OBVIOUS
  <2>1. data[i].g \in 1 .. MaxRings /\ data[i].n \in 1 .. Len(R[data[i].g])
    BY DEF GenuineRows, Genuine
  <2>2. Len(R[data[i].g]) \in Nat
    BY <2>1, IsSequence DEF RingsOf
  <2> QED
    BY <2>1, <2>2
<1>3. IsFiniteSet(S) /\ Cardinality(S) = Len(data)
  BY <1>1, Interval
<1>4. \A i, j \in S : <<i, j>> \in Q <=> data[i].n < data[j].n \/ (data[i].n = data[j].n /\ i < j)
  OBVIOUS
<1>5. S \subseteq Nat
  BY <1>1
<1> HIDE DEF S, Q
<1>6. Ordered(Q, S)
  <2>1. \A x, y, z \in S : <<x, y>> \in Q /\ <<y, z>> \in Q => <<x, z>> \in Q
    BY <1>2, <1>4, <1>5
  <2>2. \A x, y \in S : x # y => <<x, y>> \in Q \/ <<y, x>> \in Q
    BY <1>2, <1>4, <1>5
  <2>3. \A x \in S : <<x, x>> \notin Q
    BY <1>2, <1>4, <1>5
  <2> QED
    BY <2>1, <2>2, <2>3 DEF Ordered
<1>7. ASSUME NEW o
      PROVE  Enumerates(o, Q, S, Cardinality(S)) <=> Sorts(o, data)
  <2>1. CASE o \in [S -> S]
    <3>1. \A i, j \in S : o[i] \in S /\ o[j] \in S
      BY <2>1
    <3>2. Enumerates(o, Q, S, Cardinality(S)) <=> \A i, j \in S : i < j => <<o[i], o[j]>> \in Q
      BY <1>1, <1>3, <2>1 DEF Enumerates
    <3>3. Sorts(o, data) <=> \A i, j \in S : i < j =>
              data[o[i]].n < data[o[j]].n \/ (data[o[i]].n = data[o[j]].n /\ o[i] < o[j])
      BY <2>1 DEF Sorts, S
    <3> QED
      BY <1>4, <3>1, <3>2, <3>3
  <2>2. CASE o \notin [S -> S]
    BY <1>1, <1>3, <2>2 DEF Enumerates, Sorts, S
  <2> QED
    BY <2>1, <2>2
<1>8. PICK o : Sorts(o, data)
  BY <1>3, <1>6, <1>7, Enumeration
<1>9. Sorts(RowOrder(data), data)
  <2>1. RowOrder(data) = CHOOSE p : Sorts(p, data)
    BY DEF RowOrder, Sorts
  <2> QED
    BY <1>8, <2>1
<1>10. Enumerates(RowOrder(data), Q, S, Cardinality(S))
  BY <1>7, <1>9
<1>11. /\ \A i, j \in 1 .. Cardinality(S) : i # j => RowOrder(data)[i] # RowOrder(data)[j]
       /\ \A x \in S : \E i \in 1 .. Cardinality(S) : RowOrder(data)[i] = x
  BY <1>3, <1>6, <1>10, EnumeratesAll
<1> QED
  BY <1>1, <1>3, <1>9, <1>11 DEF Sorts, S

\* v has the rows of data in the order p.
Rearranged(v, p, data) ==
    /\ Sequence(v) /\ DOMAIN v = DOMAIN data
    /\ \A i \in DOMAIN data : p[i] \in DOMAIN data
    /\ \A i, j \in DOMAIN data : i # j => p[i] # p[j]
    /\ \A x \in DOMAIN data : \E i \in DOMAIN data : p[i] = x
    /\ \A i \in DOMAIN data : /\ v[i].g = data[p[i]].g /\ v[i].n = data[p[i]].n
                              /\ v[i].c = data[p[i]].c /\ v[i].a = data[p[i]].a

\* The same rows in another order.
LEMMA RearrangedRows ==
  ASSUME NEW R, NEW data, GenuineRows(R, data), NEW v, NEW p, Rearranged(v, p, data)
  PROVE  GenuineRows(R, v) /\ FramesOf(v) = FramesOf(data)
<1>1. Sequence(v) /\ DOMAIN v = DOMAIN data
  BY DEF Rearranged
<1>2. \A i \in DOMAIN v : p[i] \in DOMAIN data
  BY DEF Rearranged
<1>3. \A i \in DOMAIN v : Id(v[i]) = Id(data[p[i]])
  BY DEF Id, FrameOf, Rearranged
<1>4. ASSUME NEW i \in DOMAIN v
      PROVE  Genuine(R, v[i])
  <2>1. Genuine(R, data[p[i]])
    BY <1>2 DEF GenuineRows
  <2>2. v[i].g = data[p[i]].g /\ v[i].n = data[p[i]].n /\ v[i].c = data[p[i]].c
    BY DEF Rearranged
  <2> QED
    BY <2>1, <2>2 DEF Genuine
<1>5. ASSUME NEW i \in DOMAIN v, NEW j \in DOMAIN v, i # j
      PROVE  Id(v[i]) # Id(v[j])
  <2>1. p[i] # p[j]
    BY <1>5 DEF Rearranged
  <2>2. Id(data[p[i]]) # Id(data[p[j]])
    BY <1>2, <2>1 DEF GenuineRows, Injective
  <2> QED
    BY <1>3, <2>2
<1>6. ASSUME NEW x \in FramesOf(v)
      PROVE  x \in FramesOf(data)
  <2>1. PICK i \in DOMAIN v : x = Id(v[i])
    BY FramesAreIds
  <2>2. x = Id(data[p[i]])
    BY <1>3, <2>1
  <2> QED
    BY <1>2, <2>2, FramesAreIds
<1>7. ASSUME NEW x \in FramesOf(data)
      PROVE  x \in FramesOf(v)
  <2>1. PICK k \in DOMAIN data : x = Id(data[k])
    BY FramesAreIds
  <2>2. PICK i \in DOMAIN v : p[i] = k
    BY DEF Rearranged
  <2>3. x = Id(v[i])
    BY <1>3, <2>1, <2>2
  <2> QED
    BY <2>3, FramesAreIds
<1> QED
  BY <1>1, <1>4, <1>5, <1>6, <1>7 DEF GenuineRows, Injective

\* The columns that are written hold the frames of the batch, or nothing.
LEMMA ColumnsHoldTheBatch ==
  ASSUME NEW R, RingsOf(R), NEW data, GenuineRows(R, data), NEW meta, NEW session
  PROVE  /\ GenuineRows(R, Columns(data, meta, session))
         /\ Columns(data, meta, session) = <<>> \/ FramesOf(Columns(data, meta, session)) = FramesOf(data)
<1> DEFINE k == Len(data)
<1>1. k \in Nat /\ DOMAIN data = 1 .. k
  BY IsSequence DEF GenuineRows
<1> DEFINE idx == IF InOrder(data) THEN [i \in 1 .. k |-> i] ELSE RowOrder(data)
           m == IF InOrder(data) THEN meta ELSE [i \in 1 .. k |-> meta[idx[i]]]
           full == [i \in 1 .. k |-> [g |-> data[idx[i]].g, n |-> data[idx[i]].n, c |-> data[idx[i]].c,
                                      a |-> data[idx[i]].a, meta |-> m[i], session |-> session]]
<1>2. Columns(data, meta, session) = IF Len(m) # k THEN <<>> ELSE full
  BY DEF Columns
<1>3. /\ \A i \in 1 .. k : idx[i] \in 1 .. k
      /\ \A i, j \in 1 .. k : i # j => idx[i] # idx[j]
      /\ \A x \in 1 .. k : \E i \in 1 .. k : idx[i] = x
  <2>1. CASE InOrder(data)
    BY <2>1
  <2>2. CASE ~InOrder(data)
    <3>1. /\ RowOrder(data) \in [1 .. k -> 1 .. k]
          /\ \A i, j \in 1 .. k : i # j => RowOrder(data)[i] # RowOrder(data)[j]
          /\ \A x \in 1 .. k : \E i \in 1 .. k : RowOrder(data)[i] = x
      BY <1>1, RowOrderTakesEachOnce
    <3>2. idx = RowOrder(data)
      BY <2>2
    <3> QED
      BY <3>1, <3>2
  <2> QED
    BY <2>1, <2>2
<1>4. /\ Sequence(full) /\ DOMAIN full = 1 .. k
      /\ \A i \in 1 .. k : /\ full[i].g = data[idx[i]].g /\ full[i].n = data[idx[i]].n
                           /\ full[i].c = data[idx[i]].c /\ full[i].a = data[idx[i]].a
  <2> HIDE DEF idx, m
  <2>1. \A i \in 1 .. k : /\ full[i].g = data[idx[i]].g /\ full[i].n = data[idx[i]].n
                          /\ full[i].c = data[idx[i]].c /\ full[i].a = data[idx[i]].a
    OBVIOUS
  <2>2. full = [i \in 1 .. k |-> full[i]]
    OBVIOUS
  <2> HIDE DEF full, k
  <2>3. Sequence(full) /\ DOMAIN full = 1 .. k
    BY <1>1, <2>2, FunctionIsSequence
  <2> QED
    BY <2>1, <2>3
<1>5. Rearranged(full, idx, data)
  <2> HIDE DEF idx, m, full, k
  <2> QED
    BY <1>1, <1>3, <1>4 DEF Rearranged
<1>6. GenuineRows(R, full) /\ FramesOf(full) = FramesOf(data)
  <2> HIDE DEF idx, m, full
  <2> QED
    BY <1>5, RearrangedRows
<1> QED
  BY <1>2, <1>6, NoRows

\* The rows of a context.
CountOf(s, c) == Cardinality({i \in DOMAIN s : s[i].c = c})

\* The rows of a context in two sequences, one after the other.
LEMMA CountsAdd ==
  ASSUME NEW s, NEW t, Sequence(s), Sequence(t), NEW c
  PROVE  CountOf(s, c) \in Nat /\ CountOf(t, c) \in Nat /\ CountOf(s \o t, c) = CountOf(s, c) + CountOf(t, c)
<1> DEFINE u == s \o t
           A == {i \in DOMAIN s : s[i].c = c}
           B == {i \in DOMAIN t : t[i].c = c}
           C == {i \in DOMAIN u : u[i].c = c}
           D == {i \in DOMAIN u : i > Len(s) /\ u[i].c = c}
<1>1. /\ DOMAIN u = 1 .. Len(s) + Len(t)
      /\ \A i \in 1 .. Len(s) : u[i] = s[i]
      /\ \A i \in 1 .. Len(t) : u[Len(s) + i] = t[i]
  BY Joined
<1>2. Len(s) \in Nat /\ Len(t) \in Nat /\ DOMAIN s = 1 .. Len(s) /\ DOMAIN t = 1 .. Len(t)
  BY IsSequence
<1> HIDE DEF u
<1>3. IsFiniteSet(A) /\ IsFiniteSet(B)
  <2>1. A \in SUBSET (1 .. Len(s)) /\ B \in SUBSET (1 .. Len(t))
    BY <1>2
  <2> HIDE DEF A, B
  <2> QED
    BY <1>2, <2>1, Interval, FS_Subset
<1>4. C = A \cup D /\ A \cap D = {}
  <2>1. A \subseteq C /\ D \subseteq C /\ A \cap D = {}
    BY <1>1, <1>2
  <2>2. C \subseteq A \cup D
    BY <1>1, <1>2
  <2> QED
    BY <2>1, <2>2
<1>5. IsFiniteSet(D) /\ Cardinality(D) = Cardinality(B)
  <2> DEFINE f == [i \in B |-> Len(s) + i]
  <2>1. \A i \in B : f[i] \in D
    BY <1>1, <1>2
  <2>2. \A i, j \in B : f[i] = f[j] => i = j
    BY <1>2
  <2>3. \A d \in D : \E i \in B : f[i] = d
    <3> SUFFICES ASSUME NEW d \in D PROVE d - Len(s) \in B /\ f[d - Len(s)] = d
      OBVIOUS
    <3>1. d - Len(s) \in 1 .. Len(t) /\ Len(s) + (d - Len(s)) = d
      BY <1>1, <1>2
    <3>2. u[d] = t[d - Len(s)]
      BY <1>1, <3>1
    <3> QED
      BY <1>2, <3>1, <3>2
  <2>4. f \in Bijection(B, D)
    <3>1. f \in [B -> D]
      BY <2>1
    <3> HIDE DEF f, B, D
    <3> QED
      BY <2>2, <2>3, <3>1 DEF Bijection, Injection, Surjection, IsInjective
  <2>5. ExistsBijection(B, D)
    BY <2>4 DEF ExistsBijection
  <2> HIDE DEF B, D
  <2> QED
    BY <1>3, <2>5, FS_Bijection
<1> HIDE DEF A, B, C, D
<1>6. Cardinality(A) \in Nat /\ Cardinality(B) \in Nat
  BY <1>3, FS_CardinalityType
<1>7. Cardinality(C) = Cardinality(A) + Cardinality(D) - Cardinality(A \cap D)
  BY <1>3, <1>4, <1>5, FS_Union
<1>8. Cardinality(A \cap D) = 0
  BY <1>4, FS_EmptySet
<1>9. Cardinality(C) = Cardinality(A) + Cardinality(B)
  BY <1>5, <1>6, <1>7, <1>8
<1> QED
  BY <1>6, <1>9 DEF CountOf, A, B, C, u

\* A file that is being written, with the state kept for it: the counters
\* count its rows, and no frame in it has failed.
PerFile(p) ==
    /\ DOMAIN p = {"seen", "chunk", "gap", "fail", "ok", "count", "expect", "missing"}
    /\ p.count \in [Contexts -> Nat] /\ p.expect \in [Contexts -> Nat]

FileRecord(f) == DOMAIN f = {"rows", "ctxs", "expect", "ok", "unsaved", "open", "ended"}

\* The verdict of a file is true, or could not be written.
Judged(f) == f.ok /\ ~f.unsaved => \A c \in Contexts : CountOf(f.rows, c) >= f.expect[c]

Counted(p, f) == p.expect = f.expect /\ \A c \in Contexts : p.count[c] = CountOf(f.rows, c)

Writing(R, w) ==
    /\ DOMAIN w = {"pf", "file", "failed"}
    /\ PerFile(w.pf) /\ FileRecord(w.file) /\ Counted(w.pf, w.file)
    /\ GenuineRows(R, w.file.rows)
    /\ ~w.file.ended
    /\ FramesOf(w.file.rows) \cap w.failed = {}

\* From w to v the frames X are written or have failed, and nothing is lost.
Adds(w, v, X) ==
    /\ FramesOf(v.file.rows) \cup v.failed = FramesOf(w.file.rows) \cup w.failed \cup X
    /\ FramesOf(w.file.rows) \subseteq FramesOf(v.file.rows)
    /\ w.failed \subseteq v.failed

\* Writing a batch adds its frames.
LEMMA BatchIsWritten ==
  ASSUME NEW R, RingsOf(R), NEW w, Writing(R, w), NEW b, GenuineRows(R, b.data),
         FramesOf(b.data) \cap (FramesOf(w.file.rows) \cup w.failed) = {}
  PROVE  Writing(R, WriteBatch(w, b)) /\ Adds(w, WriteBatch(w, b), FramesOf(b.data))
<1>1. PICK out : out = Columns(b.data, b.meta, b.session)
  OBVIOUS
<1>2. GenuineRows(R, out) /\ (out = <<>> \/ FramesOf(out) = FramesOf(b.data))
  BY <1>1, ColumnsHoldTheBatch
<1>3. PICK bad : bad = (out = <<>> /\ b.data # <<>>)
  OBVIOUS
<1> DEFINE v == WriteBatch(w, b)
<1>4. v = [pf |-> [w.pf EXCEPT !.fail = @ \/ bad,
                               !.count = [c \in Contexts |-> @[c] + Cardinality({i \in DOMAIN out : out[i].c = c})]],
           file |-> [w.file EXCEPT !.rows = @ \o out, !.ctxs = @ \cup ToSet(b.ctxs)],
           failed |-> w.failed \cup (IF bad THEN FramesOf(b.data) ELSE {})]
  BY <1>1, <1>3 DEF WriteBatch
<1> HIDE DEF v
<1>5. DOMAIN v = {"pf", "file", "failed"} /\ v.failed = w.failed \cup (IF bad THEN FramesOf(b.data) ELSE {})
  BY <1>4
<1>6. /\ DOMAIN v.pf = {"seen", "chunk", "gap", "fail", "ok", "count", "expect", "missing"}
      /\ v.pf.expect = w.pf.expect
      /\ v.pf.count = [c \in Contexts |-> w.pf.count[c] + CountOf(out, c)]
  BY <1>4 DEF Writing, PerFile, CountOf
<1>7. /\ FileRecord(v.file) /\ v.file.rows = w.file.rows \o out /\ v.file.expect = w.file.expect
      /\ v.file.ended = w.file.ended
  BY <1>4 DEF Writing, FileRecord
<1>8. Sequence(w.file.rows) /\ Sequence(out)
  BY <1>2 DEF Writing, GenuineRows
<1>9. \A c \in Contexts : /\ CountOf(w.file.rows, c) \in Nat /\ CountOf(out, c) \in Nat
                          /\ CountOf(v.file.rows, c) = CountOf(w.file.rows, c) + CountOf(out, c)
  BY <1>7, <1>8, CountsAdd
<1>10. PerFile(v.pf)
  <2>1. w.pf.count \in [Contexts -> Nat] /\ w.pf.expect \in [Contexts -> Nat]
    BY DEF Writing, PerFile
  <2>2. \A c \in Contexts : w.pf.count[c] + CountOf(out, c) \in Nat
    BY <1>9, <2>1
  <2>3. v.pf.count \in [Contexts -> Nat]
    BY <1>6, <2>2
  <2> QED
    BY <1>6, <2>1, <2>3 DEF PerFile
<1>11. Counted(v.pf, v.file)
  <2>1. w.pf.expect = w.file.expect /\ \A c \in Contexts : w.pf.count[c] = CountOf(w.file.rows, c)
    BY DEF Writing, Counted
  <2> QED
    BY <1>6, <1>7, <1>9, <2>1 DEF Counted
<1>12. FramesOf(out) \subseteq FramesOf(b.data)
  BY <1>2, NoRows
<1>13. GenuineRows(R, v.file.rows) /\ FramesOf(v.file.rows) = FramesOf(w.file.rows) \cup FramesOf(out)
  <2>1. FramesOf(w.file.rows) \cap FramesOf(out) = {} /\ GenuineRows(R, w.file.rows)
    BY <1>12 DEF Writing
  <2>2. /\ GenuineRows(R, w.file.rows \o out)
        /\ FramesOf(w.file.rows \o out) = FramesOf(w.file.rows) \cup FramesOf(out)
    <3>1. PICK s, u : s = w.file.rows /\ u = s \o out
      OBVIOUS
    <3>2. GenuineRows(R, s) /\ GenuineRows(R, out) /\ FramesOf(s) \cap FramesOf(out) = {}
      BY <1>2, <2>1, <3>1
    <3>3. GenuineRows(R, u) /\ HasFrames(u, FramesOf(s) \cup FramesOf(out))
      BY <3>1, <3>2, JoinedRows
    <3> QED
      BY <3>1, <3>3 DEF HasFrames
  <2> QED
    BY <1>7, <2>2
<1>14. IF bad THEN FramesOf(out) = {} ELSE FramesOf(out) = FramesOf(b.data)
  BY <1>2, <1>3, NoRows
<1>15. FramesOf(v.file.rows) \cap v.failed = {}
  <2>1. FramesOf(w.file.rows) \cap w.failed = {}
    BY DEF Writing
  <2> QED
    BY <1>5, <1>13, <1>14, <2>1
<1>16. Adds(w, v, FramesOf(b.data))
  BY <1>5, <1>13, <1>14 DEF Adds
<1>17. ~v.file.ended
  BY <1>7, Zenon DEF Writing
<1>18. Writing(R, v)
  BY <1>5, <1>7, <1>10, <1>11, <1>13, <1>15, <1>17, Zenon DEF Writing
<1> QED
  BY <1>16, <1>18 DEF v

\* A batch that raises or is dropped: its frames have failed.
LEMMA BatchFails ==
  ASSUME NEW R, NEW w, Writing(R, w), NEW b,
         FramesOf(b.data) \cap (FramesOf(w.file.rows) \cup w.failed) = {},
         NEW v, v \in {Raised(w, b), Dropped(w, b)}
  PROVE  Writing(R, v) /\ Adds(w, v, FramesOf(b.data))
<1>1. /\ DOMAIN v = {"pf", "file", "failed"} /\ v.failed = w.failed \cup FramesOf(b.data)
      /\ PerFile(v.pf) /\ v.pf.count = w.pf.count /\ v.pf.expect = w.pf.expect
      /\ FileRecord(v.file) /\ v.file.rows = w.file.rows /\ v.file.expect = w.file.expect
      /\ v.file.ended = w.file.ended
  <2>1. CASE v = Raised(w, b)
    <3>1. /\ DOMAIN v = {"pf", "file", "failed"} /\ v.failed = w.failed \cup FramesOf(b.data)
          /\ v.pf = w.pf /\ v.file = w.file
      BY <2>1 DEF Raised, Writing
    <3> QED
      BY <3>1 DEF Writing
  <2>2. CASE v = Dropped(w, b)
    <3>1. PICK C : C = w.file.ctxs \cup ToSet(b.ctxs)
      OBVIOUS
    <3>2. /\ DOMAIN v = {"pf", "file", "failed"} /\ v.failed = w.failed \cup FramesOf(b.data)
          /\ v.pf = [w.pf EXCEPT !.fail = TRUE] /\ v.file = [w.file EXCEPT !.ctxs = C]
      BY <2>2, <3>1 DEF Dropped
    <3>3. PerFile(v.pf) /\ v.pf.count = w.pf.count /\ v.pf.expect = w.pf.expect
      BY <3>2 DEF Writing, PerFile
    <3>4. FileRecord(v.file) /\ v.file.rows = w.file.rows /\ v.file.expect = w.file.expect
      BY <3>2 DEF Writing, FileRecord
    <3>5. v.file.ended = w.file.ended
      BY <3>2 DEF Writing, FileRecord
    <3> QED
      BY <3>2, <3>3, <3>4, <3>5
  <2> QED
    BY <2>1, <2>2
<1>2. Counted(v.pf, v.file)
  BY <1>1 DEF Writing, Counted
<1>3. GenuineRows(R, v.file.rows) /\ FramesOf(v.file.rows) \cap v.failed = {}
  BY <1>1 DEF Writing
<1>4. ~v.file.ended
  BY <1>1, Zenon DEF Writing
<1>5. Adds(w, v, FramesOf(b.data))
  BY <1>1 DEF Adds
<1>6. Writing(R, v)
  BY <1>1, <1>2, <1>3, <1>4, Zenon DEF Writing
<1> QED
  BY <1>5, <1>6

\* One addition after another.
LEMMA AddsTwice ==
  ASSUME NEW u, NEW v, NEW w, NEW X, NEW Y, Adds(u, v, X), Adds(v, w, Y)
  PROVE  Adds(u, w, X \cup Y)
  BY DEF Adds

VerdictOnly(w, v, a, b, e) ==
    /\ DOMAIN v = {"pf", "file", "failed"} /\ v.failed = w.failed
    /\ v.pf = [w.pf EXCEPT !.ok = a] /\ v.file = [w.file EXCEPT !.ok = b, !.unsaved = e]

\* A change of the verdict only: the file has the same rows and expectations.
LEMMA VerdictChanges ==
  ASSUME NEW R, NEW w, Writing(R, w), NEW a, NEW b, NEW e, NEW v, VerdictOnly(w, v, a, b, e)
  PROVE  /\ Writing(R, v) /\ v.file.rows = w.file.rows /\ v.file.expect = w.file.expect
         /\ v.file.ok = b /\ v.file.unsaved = e
<1>5. PerFile(v.pf) /\ v.pf.count = w.pf.count /\ v.pf.expect = w.pf.expect
  BY DEF VerdictOnly, Writing, PerFile
<1>6. FileRecord(v.file) /\ v.file.rows = w.file.rows /\ v.file.expect = w.file.expect
  BY DEF VerdictOnly, Writing, FileRecord
<1>6a. v.file.ended = w.file.ended /\ v.file.ok = b /\ v.file.unsaved = e
  BY DEF VerdictOnly, Writing, FileRecord
<1>7. Counted(v.pf, v.file)
  BY <1>5, <1>6 DEF Writing, Counted
<1>8. Writing(R, v)
  BY <1>5, <1>6, <1>6a, <1>7, Zenon DEF VerdictOnly, Writing
<1> QED
  BY <1>6, <1>6a, <1>8

\* The verdict is only kept when every expectation is met, or when it cannot be
\* written; the file has the same rows.
LEMMA VerdictIsGiven ==
  ASSUME NEW R, NEW w, Writing(R, w), NEW x \in Verdicts(w), NEW v, v = x.w
  PROVE  /\ Writing(R, v) /\ v.file.rows = w.file.rows /\ v.failed = w.failed
         /\ v.file.expect = w.file.expect /\ Judged(v.file)
<1>1. PICK ok : ok = (w.pf.ok /\ w.pf.missing = {} /\ ~\E c \in Contexts : Violated(w.pf, c))
  OBVIOUS
<1>2. DOMAIN w = {"pf", "file", "failed"}
  BY DEF Writing
<1>2a. Finalized(w) = [w EXCEPT !.pf = [@ EXCEPT !.ok = ok], !.file = [@ EXCEPT !.ok = ok, !.unsaved = FALSE]]
  BY <1>1 DEF Finalized
<1>3. PICK z : z = Finalized(w)
  OBVIOUS
<1>4. /\ DOMAIN z = {"pf", "file", "failed"} /\ z.failed = w.failed
      /\ z.pf = [w.pf EXCEPT !.ok = ok] /\ z.file = [w.file EXCEPT !.ok = ok, !.unsaved = FALSE]
  BY <1>2, <1>2a, <1>3
<1>5. CASE x = [w |-> z, raised |-> w.pf.missing # {}, cost |-> 0]
  <2>1. v = z
    BY <1>5
  <2>2. /\ Writing(R, v) /\ v.file.rows = w.file.rows /\ v.file.expect = w.file.expect
        /\ v.file.ok = ok /\ v.failed = w.failed
    <3>1. PICK e : e = FALSE
      OBVIOUS
    <3>2. VerdictOnly(w, v, ok, ok, e)
      BY <1>4, <2>1, <3>1 DEF VerdictOnly
    <3> QED
      BY <1>4, <2>1, <3>2, VerdictChanges
  <2>3. ASSUME v.file.ok, NEW c \in Contexts
        PROVE  CountOf(w.file.rows, c) >= w.file.expect[c]
    <3>1. ~Violated(w.pf, c)
      BY <1>1, <2>2, <2>3, Zenon
    <3>2. w.pf.count[c] = CountOf(w.file.rows, c) /\ w.pf.expect = w.file.expect
      BY DEF Writing, Counted
    <3>3. w.pf.count[c] \in Nat /\ w.pf.expect[c] \in Nat
      BY DEF Writing, PerFile
    <3>4. w.pf.expect[c] = 0 \/ ~(w.pf.count[c] < w.pf.expect[c])
      <4>1. w.pf.expect[c] > 0 => ~(w.pf.count[c] < w.pf.expect[c])
        BY <3>1, Zenon DEF Violated
      <4> QED
        BY <3>3, <4>1
    <3> QED
      BY <3>2, <3>3, <3>4
  <2>4. Judged(v.file)
    BY <2>2, <2>3, Zenon DEF Judged
  <2> QED
    BY <2>2, <2>4
<1>6. CASE x = [w |-> [z EXCEPT !.file = [w.file EXCEPT !.unsaved = TRUE]], raised |-> TRUE, cost |-> 1]
  <2>1. v = [z EXCEPT !.file = [w.file EXCEPT !.unsaved = TRUE]]
    BY <1>6
  <2>2. /\ DOMAIN v = {"pf", "file", "failed"} /\ v.failed = w.failed
        /\ v.pf = [w.pf EXCEPT !.ok = ok] /\ v.file = [w.file EXCEPT !.unsaved = TRUE]
    BY <1>4, <2>1
  <2>3. PICK b : b = w.file.ok
    OBVIOUS
  <2>4. [w.file EXCEPT !.unsaved = TRUE] = [w.file EXCEPT !.ok = b, !.unsaved = TRUE]
    BY <2>3 DEF Writing, FileRecord
  <2>5. /\ Writing(R, v) /\ v.file.rows = w.file.rows /\ v.file.expect = w.file.expect
        /\ v.file.unsaved = TRUE /\ v.failed = w.failed
    <3>1. PICK e : e = TRUE
      OBVIOUS
    <3>2. VerdictOnly(w, v, ok, b, e)
      BY <2>2, <2>4, <3>1 DEF VerdictOnly
    <3>3. Writing(R, v) /\ v.file.rows = w.file.rows /\ v.file.expect = w.file.expect
      BY <3>2, VerdictChanges
    <3>4. v.file.unsaved = TRUE
      BY <2>2 DEF Writing, FileRecord
    <3> QED
      BY <2>2, <3>3, <3>4
  <2>6. Judged(v.file)
    BY <2>5, Zenon DEF Judged
  <2> QED
    BY <2>5, <2>6
<1>7. CASE x = [w |-> [w EXCEPT !.pf = [@ EXCEPT !.ok = FALSE], !.file = [@ EXCEPT !.ok = FALSE, !.unsaved = FALSE]],
                raised |-> TRUE, cost |-> 1]
  <2>1. v = [w EXCEPT !.pf = [@ EXCEPT !.ok = FALSE], !.file = [@ EXCEPT !.ok = FALSE, !.unsaved = FALSE]]
    BY <1>7
  <2>2. /\ DOMAIN v = {"pf", "file", "failed"} /\ v.failed = w.failed
        /\ v.pf = [w.pf EXCEPT !.ok = FALSE] /\ v.file = [w.file EXCEPT !.ok = FALSE, !.unsaved = FALSE]
    BY <1>2, <2>1
  <2>5. /\ Writing(R, v) /\ v.file.rows = w.file.rows /\ v.file.expect = w.file.expect
        /\ v.file.ok = FALSE /\ v.failed = w.failed
    <3>1. PICK e : e = FALSE
      OBVIOUS
    <3>2. VerdictOnly(w, v, e, e, e)
      BY <2>2, <3>1 DEF VerdictOnly
    <3>3. Writing(R, v) /\ v.file.rows = w.file.rows /\ v.file.expect = w.file.expect
      BY <3>2, VerdictChanges
    <3>4. v.file.ok = FALSE
      BY <2>2 DEF Writing, FileRecord
    <3> QED
      BY <2>2, <3>3, <3>4
  <2>6. Judged(v.file)
    BY <2>5, Zenon DEF Judged
  <2> QED
    BY <2>5, <2>6
<1> QED
  BY <1>3, <1>5, <1>6, <1>7 DEF Verdicts

\* What the close makes of one request of the queue.
Handled(r, u, v) ==
    IF r.kind = "batch" THEN v \in {WriteBatch(u, r), Raised(u, r), Dropped(u, r)} ELSE v = u

\* What is left of a queue at the close, one request after the other.
LEMMA QueueIsWrittenInOrder ==
  ASSUME NEW w, NEW q, Sequence(q), NEW bad, NEW refused
  PROVE  \E f : /\ WriteQueue(w, q, bad, refused) = f[Len(q)] /\ f[0] = w
                /\ \A k \in 1 .. Len(q) : Handled(q[k], f[k - 1], f[k])
<1> DEFINE Of(u, k) == CASE q[k].kind # "batch" -> u
                         [] q[k].kind = "batch" /\ k \in bad -> Raised(u, q[k])
                         [] q[k].kind = "batch" /\ k \in refused \ bad -> Dropped(u, q[k])
                         [] OTHER -> WriteBatch(u, q[k])
           Step(f, k) == IF k = 0 THEN w ELSE Of(f[k - 1], k)
           Good(f, n) == f = [k \in 0 .. n |-> Step(f, k)]
           S == {n \in Nat : \E f : Good(f, n)}
<1>1. Len(q) \in Nat
  BY IsSequence
<1>2. 0 \in S
  <2>1. Good([k \in 0 .. 0 |-> w], 0)
    OBVIOUS
  <2> QED
    BY <2>1
<1>3. \A n \in Nat : n \in S => n + 1 \in S
  <2> SUFFICES ASSUME NEW n \in Nat, NEW f, Good(f, n)
               PROVE  \E g : Good(g, n + 1)
    <3> HIDE DEF Good
    <3> QED
      OBVIOUS
  <2> HIDE DEF Of
  <2> DEFINE last == Of(f[n], n + 1)
             g == [k \in 0 .. n + 1 |-> IF k <= n THEN f[k] ELSE last]
  <2>1. ASSUME NEW k \in 0 .. n + 1
        PROVE  g[k] = Step(g, k)
    <3>1. CASE k = n + 1
      <4>1. g[k] = last /\ k # 0 /\ k - 1 = n /\ g[n] = f[n]
        BY <3>1
      <4> HIDE DEF g
      <4> QED
        BY <3>1, <4>1
    <3>2. CASE k \in 0 .. n
      <4>1. g[k] = f[k] /\ (k # 0 => k - 1 \in 0 .. n /\ g[k - 1] = f[k - 1])
        BY <3>2
      <4>2. f[k] = Step(f, k)
        BY <3>2
      <4> HIDE DEF g
      <4> QED
        BY <4>1, <4>2
    <3> QED
      BY <3>1, <3>2
  <2>2. Good(g, n + 1)
    BY <2>1
  <2> QED
    BY <2>2
<1>4. \E f : Good(f, Len(q))
  <2> HIDE DEF Good
  <2>1. Nat \subseteq S
    BY <1>2, <1>3, InductiveSet
  <2> QED
    BY <1>1, <2>1
<1> DEFINE h == CHOOSE f : Good(f, Len(q))
<1>5. Good(h, Len(q))
  BY <1>4
<1>6. WriteQueue(w, q, bad, refused) = h[Len(q)]
  BY DEF WriteQueue
<1>7. \A k \in 0 .. Len(q) : h[k] = Step(h, k)
  <2> HIDE DEF h, Of
  <2> QED
    BY <1>5
<1>8. \E f : f = h
  OBVIOUS
<1>9. \A u : \A k : Handled(q[k], u, Of(u, k))
  <2> SUFFICES ASSUME NEW u, NEW k PROVE Handled(q[k], u, Of(u, k))
    OBVIOUS
  <2>1. PICK a, b, c : a = Raised(u, q[k]) /\ b = Dropped(u, q[k]) /\ c = WriteBatch(u, q[k])
    OBVIOUS
  <2>2. CASE q[k].kind # "batch"
    BY <2>2 DEF Handled
  <2>3. CASE q[k].kind = "batch"
    <3>1. Of(u, k) = CASE k \in bad -> a [] k \in refused \ bad -> b [] OTHER -> c
      BY <2>1, <2>3
    <3>2. Of(u, k) \in {a, b, c}
      <4> HIDE DEF Of
      <4> QED
        BY <3>1
    <3> QED
      BY <2>1, <2>3, <3>2 DEF Handled
  <2> QED
    BY <2>2, <2>3
<1> HIDE DEF h, Of
<1>10. h[0] = w /\ \A k \in 1 .. Len(q) : h[k] = Of(h[k - 1], k)
  BY <1>1, <1>7
<1>11. \A k \in 1 .. Len(q) : Handled(q[k], h[k - 1], h[k])
  BY <1>9, <1>10
<1> QED
  BY <1>6, <1>10, <1>11

\* The frames of the first k requests.
FirstFrames(q, k) == UNION {BatchFrames(q[i]) : i \in 1 .. k}

\* What a queue must be for its batches to be written.
Requests(R, q) ==
    /\ Sequence(q)
    /\ \A i \in DOMAIN q : q[i].kind = "batch" => GenuineRows(R, q[i].data)
    /\ \A i, j \in DOMAIN q : i # j => BatchFrames(q[i]) \cap BatchFrames(q[j]) = {}

\* One request more.
LEMMA NextOfQueue ==
  ASSUME NEW R, RingsOf(R), NEW q, Requests(R, q), NEW k \in Nat, k + 1 \in DOMAIN q,
         NEW w, NEW u, NEW v, Writing(R, u), Adds(w, u, FirstFrames(q, k)),
         FirstFrames(q, Len(q)) \cap (FramesOf(w.file.rows) \cup w.failed) = {},
         Handled(q[k + 1], u, v)
  PROVE  Writing(R, v) /\ Adds(w, v, FirstFrames(q, k + 1))
<1>1. Len(q) \in Nat /\ DOMAIN q = 1 .. Len(q)
  BY IsSequence DEF Requests
<1>2. FirstFrames(q, k + 1) = FirstFrames(q, k) \cup BatchFrames(q[k + 1])
  <2>1. 1 .. k + 1 = (1 .. k) \cup {k + 1}
    OBVIOUS
  <2> QED
    BY <2>1, Zenon DEF FirstFrames
<1>3. CASE q[k + 1].kind # "batch"
  <2>1. BatchFrames(q[k + 1]) = {} /\ v = u
    BY <1>3 DEF BatchFrames, Handled
  <2> QED
    BY <1>2, <2>1
<1>4. CASE q[k + 1].kind = "batch"
  <2>1. PICK b : b = q[k + 1]
    OBVIOUS
  <2>2. GenuineRows(R, b.data) /\ BatchFrames(b) = FramesOf(b.data)
    BY <1>4, <2>1 DEF Requests, BatchFrames
  <2>2a. v = WriteBatch(u, b) \/ v \in {Raised(u, b), Dropped(u, b)}
    BY <1>4, <2>1 DEF Handled
  <2>3. FramesOf(b.data) \subseteq FirstFrames(q, Len(q))
    BY <1>1, <2>1, <2>2 DEF FirstFrames
  <2>4. FramesOf(b.data) \cap FirstFrames(q, k) = {}
    <3>1. \A i \in 1 .. k : i \in DOMAIN q /\ i # k + 1
      BY <1>1
    <3>2. \A i \in 1 .. k : BatchFrames(q[i]) \cap BatchFrames(b) = {}
      BY <2>1, <3>1 DEF Requests
    <3> QED
      BY <2>2, <3>2 DEF FirstFrames
  <2>5. FramesOf(b.data) \cap (FramesOf(u.file.rows) \cup u.failed) = {}
    BY <2>3, <2>4 DEF Adds
  <2>6. Writing(R, v) /\ Adds(u, v, FramesOf(b.data))
    BY <2>2, <2>2a, <2>5, BatchIsWritten, BatchFails
  <2>7. Adds(w, v, FirstFrames(q, k) \cup FramesOf(b.data))
    BY <2>6, AddsTwice
  <2> QED
    BY <1>2, <2>1, <2>2, <2>6, <2>7
<1> QED
  BY <1>3, <1>4

\* The whole queue is written.
LEMMA QueueIsWritten ==
  ASSUME NEW R, RingsOf(R), NEW q, Requests(R, q), NEW w, Writing(R, w),
         FirstFrames(q, Len(q)) \cap (FramesOf(w.file.rows) \cup w.failed) = {},
         NEW bad, NEW refused, NEW z, z = WriteQueue(w, q, bad, refused)
  PROVE  Writing(R, z) /\ Adds(w, z, FirstFrames(q, Len(q)))
<1>1. Len(q) \in Nat /\ DOMAIN q = 1 .. Len(q) /\ Sequence(q)
  BY IsSequence DEF Requests
<1>2. PICK f : /\ z = f[Len(q)] /\ f[0] = w
               /\ \A k \in 1 .. Len(q) : Handled(q[k], f[k - 1], f[k])
  BY <1>1, QueueIsWrittenInOrder
<1> DEFINE S == {k \in Nat : k <= Len(q) => Writing(R, f[k]) /\ Adds(w, f[k], FirstFrames(q, k))}
<1>3. 0 \in S
  <2>1. FirstFrames(q, 0) = {}
    BY DEF FirstFrames
  <2>2. Adds(w, f[0], FirstFrames(q, 0))
    BY <1>2, <2>1 DEF Adds
  <2> QED
    BY <1>2, <2>2
<1>4. ASSUME NEW k \in Nat, k \in S
      PROVE  k + 1 \in S
  <2> SUFFICES ASSUME k + 1 <= Len(q)
               PROVE  Writing(R, f[k + 1]) /\ Adds(w, f[k + 1], FirstFrames(q, k + 1))
    BY <1>4
  <2>1. k + 1 \in DOMAIN q /\ (k + 1) - 1 = k /\ k <= Len(q)
    BY <1>1
  <2>2. Writing(R, f[k]) /\ Adds(w, f[k], FirstFrames(q, k))
    BY <1>4, <2>1
  <2>3. PICK u, v : u = f[k] /\ v = f[k + 1]
    OBVIOUS
  <2>4. Handled(q[k + 1], u, v)
    BY <1>1, <1>2, <2>1, <2>3
  <2>5. Writing(R, u) /\ Adds(w, u, FirstFrames(q, k))
    BY <2>2, <2>3
  <2> HIDE DEF S
  <2>6. Writing(R, v) /\ Adds(w, v, FirstFrames(q, k + 1))
    BY <2>1, <2>4, <2>5, NextOfQueue
  <2> QED
    BY <2>3, <2>6
<1>5. Len(q) \in S
  <2> HIDE DEF S
  <2>1. \A k \in Nat : k \in S => k + 1 \in S
    BY <1>4
  <2>2. Nat \subseteq S
    BY <1>3, <2>1, InductiveSet
  <2> QED
    BY <1>1, <2>2
<1> QED
  BY <1>1, <1>2, <1>5

-----------------------------------------------------------------------------
(* The stream's state in memory.  U is what was taken out of it so far: the *)
(* frames queued, in hand, written or failed.                               *)

StreamFields ==
    {"reader", "last", "map", "pend", "data", "meta", "closed", "active", "sessions", "att"}

\* The reader's position, the frames that wait and the contexts that wait.
Attached(R, s) ==
    /\ s.reader \in 1 .. MaxRings
    /\ s.last \in 0 .. Len(R[s.reader])
    /\ s.pend \subseteq 1 .. s.last
    /\ \A n \in DOMAIN s.map : n \in 1 .. Len(R[s.reader]) /\ s.map[n] = R[s.reader][n]

\* A frame that left the reader: it will not be read, or resolved, again.
Passed(s, x) ==
    /\ x.a \in Nat /\ x.a <= s.att
    /\ x.a = s.att /\ s.reader # 0 => x.f.n \in Nat /\ x.f.n <= s.last /\ x.f.n \notin s.pend

Stream(R, s, U) ==
    /\ DOMAIN s = StreamFields
    /\ GenuineRows(R, s.data)
    /\ s.att \in Nat
    /\ (s.reader = 0 /\ s.pend = {}) \/ Attached(R, s)
    /\ FramesOf(s.data) \cap U = {}
    /\ \A x \in U \cup FramesOf(s.data) : Passed(s, x)

\* The frames of ctx can be appended with their contexts.
Resolvable(R, s, U, ctx) ==
    /\ s.reader # 0
    /\ DOMAIN ctx \subseteq 1 .. s.last
    /\ \A n \in DOMAIN ctx : n \notin s.pend /\ ctx[n] \in {Unknown, R[s.reader][n]}
    /\ \A x \in U \cup FramesOf(s.data) : x.a = s.att => x.f.n \notin DOMAIN ctx

\* The rows t Buffered appends, in the order o.
Resolved(s, ctx, o, t) ==
    /\ o = Ascending(DOMAIN ctx)
    /\ t = [i \in 1 .. Len(o) |-> [g |-> s.reader, n |-> o[i], c |-> ctx[o[i]], a |-> s.att]]

\* They are genuine, and of frames ctx has a context for.
LEMMA ResolvedRows ==
  ASSUME NEW R, RingsOf(R), NEW U, NEW s, Stream(R, s, U), NEW ctx, Resolvable(R, s, U, ctx), NEW t, NEW o,
         Resolved(s, ctx, o, t)
  PROVE  /\ GenuineRows(R, t)
         /\ \A x \in FramesOf(t) : x.a = s.att /\ x.f.n \in DOMAIN ctx
<1>1. Attached(R, s) /\ s.reader \in 1 .. MaxRings /\ Len(R[s.reader]) \in Nat /\ s.last \in Nat
  <2>1. Attached(R, s)
    BY DEF Stream, Resolvable
  <2>2. s.reader \in 1 .. MaxRings /\ s.last \in 0 .. Len(R[s.reader])
    BY <2>1 DEF Attached
  <2>3. Len(R[s.reader]) \in Nat
    BY <2>2, IsSequence DEF RingsOf
  <2> QED
    BY <2>1, <2>2, <2>3
<1>2. DOMAIN ctx \in SUBSET Nat /\ IsFiniteSet(DOMAIN ctx)
  <2>1. DOMAIN ctx \in SUBSET (1 .. s.last)
    BY DEF Resolvable
  <2>2. IsFiniteSet(1 .. s.last)
    BY <1>1, Interval
  <2>3. IsFiniteSet(DOMAIN ctx)
    BY <2>1, <2>2, FS_Subset
  <2> QED
    BY <1>1, <2>1, <2>3
<1>3. /\ Len(o) \in Nat /\ \A i \in 1 .. Len(o) : o[i] \in DOMAIN ctx
      /\ \A i, j \in 1 .. Len(o) : i # j => o[i] # o[j]
  BY <1>2, AscendingLists, IsSequence DEF Resolved
<1>4. /\ \A i \in 1 .. Len(o) : t[i].g = s.reader /\ t[i].n = o[i] /\ t[i].c = ctx[o[i]] /\ t[i].a = s.att
      /\ t = [i \in 1 .. Len(o) |-> t[i]]
  BY DEF Resolved
<1>5. Sequence(t) /\ DOMAIN t = 1 .. Len(o)
  BY <1>3, <1>4, FunctionIsSequence
<1>6. ASSUME NEW i \in DOMAIN t
      PROVE  Genuine(R, t[i])
  <2>1. o[i] \in DOMAIN ctx /\ t[i].g = s.reader /\ t[i].n = o[i] /\ t[i].c = ctx[o[i]]
    BY <1>3, <1>4, <1>5
  <2>2. o[i] \in 1 .. s.last /\ ctx[o[i]] \in {Unknown, R[s.reader][o[i]]}
    BY <2>1 DEF Resolvable
  <2>3. o[i] \in 1 .. Len(R[s.reader])
    BY <1>1, <2>2 DEF Attached
  <2> QED
    BY <1>1, <2>1, <2>2, <2>3 DEF Genuine
<1>7. ASSUME NEW i \in DOMAIN t
      PROVE  Id(t[i]).a = s.att /\ Id(t[i]).f.n = o[i] /\ o[i] \in DOMAIN ctx
  <2>1. t[i].n = o[i] /\ t[i].a = s.att /\ o[i] \in DOMAIN ctx
    BY <1>3, <1>4, <1>5
  <2> QED
    BY <2>1 DEF Id, FrameOf
<1>8. Injective(t)
  BY <1>3, <1>5, <1>7 DEF Injective
<1>9. ASSUME NEW x \in FramesOf(t)
      PROVE  x.a = s.att /\ x.f.n \in DOMAIN ctx
  <2>1. PICK i \in DOMAIN t : x = Id(t[i])
    BY FramesAreIds
  <2> QED
    BY <1>7, <2>1
<1> QED
  BY <1>5, <1>6, <1>8, <1>9 DEF GenuineRows

\* Appending resolved frames.
LEMMA BufferedKeepsStream ==
  ASSUME NEW R, RingsOf(R), NEW U, NEW s, Stream(R, s, U), NEW ctx, Resolvable(R, s, U, ctx)
  PROVE  /\ Stream(R, Buffered(s, ctx), U)
         /\ Buffered(s, ctx).reader = s.reader /\ Buffered(s, ctx).last = s.last
         /\ Buffered(s, ctx).pend = s.pend /\ Buffered(s, ctx).map = s.map
<1>1. PICK o, t, m : /\ o = Ascending(DOMAIN ctx)
                     /\ t = [i \in 1 .. Len(o) |-> [g |-> s.reader, n |-> o[i], c |-> ctx[o[i]], a |-> s.att]]
                     /\ m = [i \in 1 .. Len(o) |-> [g |-> s.reader, n |-> o[i]]]
  OBVIOUS
<1> DEFINE v == Buffered(s, ctx)
<1>2. v = [s EXCEPT !.data = @ \o t, !.meta = @ \o m]
  BY <1>1 DEF Buffered
<1> HIDE DEF v
<1>3. GenuineRows(R, t) /\ \A x \in FramesOf(t) : x.a = s.att /\ x.f.n \in DOMAIN ctx
  <2>1. /\ o = Ascending(DOMAIN ctx)
        /\ t = [i \in 1 .. Len(o) |-> [g |-> s.reader, n |-> o[i], c |-> ctx[o[i]], a |-> s.att]]
    BY <1>1
  <2>2. Resolved(s, ctx, o, t)
    BY <2>1 DEF Resolved
  <2> QED
    BY <2>2, ResolvedRows
<1>4. /\ DOMAIN v = StreamFields /\ v.data = s.data \o t /\ v.att = s.att
      /\ v.reader = s.reader /\ v.last = s.last /\ v.pend = s.pend /\ v.map = s.map
  BY <1>2 DEF Stream, StreamFields
<1>5. GenuineRows(R, s.data) /\ FramesOf(s.data) \cap FramesOf(t) = {}
  BY <1>3 DEF Stream, Resolvable
<1>6. GenuineRows(R, v.data) /\ FramesOf(v.data) = FramesOf(s.data) \cup FramesOf(t)
  <2>1. PICK d, u : d = s.data /\ u = v.data
    OBVIOUS
  <2>2. u = d \o t /\ GenuineRows(R, d) /\ FramesOf(d) \cap FramesOf(t) = {}
    BY <1>4, <1>5, <2>1
  <2>3. GenuineRows(R, u) /\ HasFrames(u, FramesOf(d) \cup FramesOf(t))
    BY <1>3, <2>2, JoinedRows
  <2> QED
    BY <2>1, <2>3 DEF HasFrames
<1>7. FramesOf(v.data) \cap U = {}
  BY <1>3, <1>6 DEF Stream, Resolvable
<1>8. Attached(R, s)
  BY DEF Stream, Resolvable
<1>9. Attached(R, v)
  BY <1>4, <1>8 DEF Attached
<1>10. ASSUME NEW x \in U \cup FramesOf(v.data)
       PROVE  Passed(v, x)
  <2>1. CASE x \in U \cup FramesOf(s.data)
    <3>1. Passed(s, x)
      BY <2>1 DEF Stream
    <3> QED
      BY <1>4, <3>1 DEF Passed
  <2>2. CASE x \in FramesOf(t)
    <3>1. x.a = s.att /\ x.f.n \in DOMAIN ctx
      BY <1>3, <2>2
    <3>2. x.f.n \in 1 .. s.last /\ x.f.n \notin s.pend
      BY <3>1 DEF Resolvable
    <3>3. s.att \in Nat /\ s.last \in Int
      BY <1>8 DEF Stream, Attached
    <3> QED
      BY <1>4, <3>1, <3>2, <3>3 DEF Passed
  <2> QED
    BY <1>6, <2>1, <2>2
<1>11. s.att \in Nat
  BY DEF Stream
<1>12. Stream(R, v, U)
  BY <1>4, <1>6, <1>7, <1>9, <1>10, <1>11 DEF Stream
<1> QED
  BY <1>4, <1>12 DEF v

\* Fewer frames or other contexts wait.
LEMMA FewerWait ==
  ASSUME NEW R, NEW U, NEW s, Stream(R, s, U), NEW v, DOMAIN v = StreamFields,
         v.data = s.data, v.att = s.att, v.reader = s.reader, v.last = s.last, v.pend \subseteq s.pend,
         s.reader # 0 => \A n \in DOMAIN v.map : n \in 1 .. Len(R[s.reader]) /\ v.map[n] = R[s.reader][n]
  PROVE  Stream(R, v, U)
<1>1. GenuineRows(R, v.data) /\ v.att \in Nat /\ FramesOf(v.data) \cap U = {}
  BY DEF Stream
<1>2. (v.reader = 0 /\ v.pend = {}) \/ Attached(R, v)
  <2>1. CASE s.reader = 0 /\ s.pend = {}
    BY <2>1
  <2>2. CASE Attached(R, s) /\ s.reader # 0
    BY <2>2 DEF Attached
  <2>3. CASE Attached(R, s) /\ s.reader = 0
    BY <2>3 DEF Attached
  <2> QED
    BY <2>1, <2>2, <2>3 DEF Stream
<1>3. ASSUME NEW x \in U \cup FramesOf(v.data)
      PROVE  Passed(v, x)
  <2>1. Passed(s, x)
    BY DEF Stream
  <2> QED
    BY <2>1 DEF Passed
<1> QED
  BY <1>1, <1>2, <1>3 DEF Stream

\* Waiting frames go to the buffer without a context.
LEMMA FlushKeepsStream ==
  ASSUME NEW R, RingsOf(R), NEW U, NEW s, Stream(R, s, U), s.reader # 0, NEW seqs, seqs \subseteq s.pend
  PROVE  /\ Stream(R, FlushAsUnknown(s, seqs), U)
         /\ FlushAsUnknown(s, seqs).reader = s.reader /\ FlushAsUnknown(s, seqs).last = s.last
<1>1. PICK v, ctx : v = [s EXCEPT !.pend = @ \ seqs] /\ ctx = [n \in seqs |-> Unknown]
  OBVIOUS
<1>2. FlushAsUnknown(s, seqs) = Buffered(v, ctx)
  BY <1>1 DEF FlushAsUnknown
<1>3. /\ DOMAIN v = StreamFields /\ v.data = s.data /\ v.att = s.att /\ v.reader = s.reader
      /\ v.last = s.last /\ v.pend = s.pend \ seqs /\ v.map = s.map
  BY <1>1 DEF Stream, StreamFields
<1>4. Attached(R, s)
  BY DEF Stream
<1>5. Stream(R, v, U)
  <2>1. \A n \in DOMAIN v.map : n \in 1 .. Len(R[s.reader]) /\ v.map[n] = R[s.reader][n]
    BY <1>3, <1>4 DEF Attached
  <2>2. v.pend \subseteq s.pend
    BY <1>3
  <2> QED
    BY <1>3, <2>1, <2>2, FewerWait
<1>6. Resolvable(R, v, U, ctx)
  <2>1. DOMAIN ctx = seqs /\ \A n \in seqs : ctx[n] = Unknown
    BY <1>1
  <2>2. seqs \subseteq 1 .. v.last
    BY <1>3, <1>4 DEF Attached
  <2>3. ASSUME NEW x \in U \cup FramesOf(v.data), x.a = v.att
        PROVE  x.f.n \notin seqs
    <3>1. Passed(s, x)
      BY <1>3 DEF Stream
    <3> QED
      BY <1>3, <2>3, <3>1 DEF Passed
  <2> QED
    BY <1>3, <2>1, <2>2, <2>3 DEF Resolvable
<1>7. Stream(R, Buffered(v, ctx), U) /\ Buffered(v, ctx).reader = v.reader /\ Buffered(v, ctx).last = v.last
  BY <1>5, <1>6, BufferedKeepsStream
<1> QED
  BY <1>2, <1>3, <1>7

\* Contexts leave the map.
LEMMA MapForgets ==
  ASSUME NEW R, NEW U, NEW s, Stream(R, s, U), NEW S, NEW v, v = [s EXCEPT !.map = Forget(s.map, S)]
  PROVE  Stream(R, v, U) /\ v.reader = s.reader
<1>1. /\ DOMAIN v = StreamFields /\ v.data = s.data /\ v.att = s.att /\ v.reader = s.reader
      /\ v.last = s.last /\ v.pend = s.pend /\ v.map = Forget(s.map, S)
  BY DEF Stream, StreamFields
<1>2. DOMAIN v.map = DOMAIN s.map \ S /\ \A n \in DOMAIN v.map : v.map[n] = s.map[n]
  BY <1>1 DEF Forget
<1>3. s.reader # 0 => \A n \in DOMAIN v.map : n \in 1 .. Len(R[s.reader]) /\ v.map[n] = R[s.reader][n]
  BY <1>2 DEF Stream, Attached
<1> QED
  BY <1>1, <1>3, FewerWait

\* The cap of the map.
LEMMA TrimKeepsStream ==
  ASSUME NEW R, NEW U, NEW s, Stream(R, s, U)
  PROVE  Stream(R, TrimMap(s), U)
<1>1. PICK over, S : over = Cardinality(DOMAIN s.map) - MapCap /\ S = Oldest(DOMAIN s.map, over)
  OBVIOUS
<1>2. TrimMap(s) = IF over > 0 THEN [s EXCEPT !.map = Forget(s.map, S)] ELSE s
  BY <1>1 DEF TrimMap
<1>3. PICK v : v = [s EXCEPT !.map = Forget(s.map, S)]
  OBVIOUS
<1>4. Stream(R, v, U)
  BY <1>3, MapForgets
<1> QED
  BY <1>2, <1>3, <1>4

\* The cap of the frames that wait.
LEMMA CapKeepsStream ==
  ASSUME NEW R, RingsOf(R), NEW U, NEW s, Stream(R, s, U), s.reader # 0
  PROVE  Stream(R, EnforcePendingCap(s), U)
<1>1. PICK over : over = Cardinality(s.pend) - PendingCap
  OBVIOUS
<1>2. EnforcePendingCap(s) = IF over > 0 THEN FlushAsUnknown(s, Oldest(s.pend, over)) ELSE s
  BY <1>1 DEF EnforcePendingCap
<1>3. Oldest(s.pend, over) \subseteq s.pend
  BY DEF Oldest
<1>4. Stream(R, FlushAsUnknown(s, Oldest(s.pend, over)), U)
  BY <1>3, FlushKeepsStream
<1> QED
  BY <1>2, <1>4

\* An announcement of a frame that is in its ring.
Message(R, m) == m.g \in 1 .. MaxRings /\ m.n \in 1 .. Len(R[m.g]) /\ m.c = R[m.g][m.n]

\* A context that arrives resolves its own frame or waits for it.
LEMMA DescribedKeepsStream ==
  ASSUME NEW R, RingsOf(R), NEW U, NEW s, Stream(R, s, U), NEW m, Message(R, m), s.reader = m.g
  PROVE  /\ Stream(R, Described(s, m), U)
         /\ Described(s, m).reader = s.reader /\ Described(s, m).last = s.last
<1>1. s.reader # 0 /\ s.reader \in 1 .. MaxRings /\ m.n \in 1 .. Len(R[s.reader]) /\ m.c = R[s.reader][m.n]
  BY HdfAssumption DEF Message
<1>2. Attached(R, s)
  BY <1>1 DEF Stream
<1>3. CASE m.c = Unknown
  <2>1. Described(s, m) = s
    BY <1>3 DEF Described
  <2> QED
    BY <2>1
<1>4. CASE m.c # Unknown /\ m.n \in s.pend
  <2>1. PICK v, ctx : /\ v = [s EXCEPT !.pend = s.pend \ {m.n}, !.map = Forget(s.map, {m.n})]
                      /\ ctx = [n \in {m.n} |-> m.c]
    OBVIOUS
  <2>2. Described(s, m) = Buffered(v, ctx)
    BY <1>4, <2>1 DEF Described
  <2>3. /\ DOMAIN v = StreamFields /\ v.data = s.data /\ v.att = s.att /\ v.reader = s.reader
        /\ v.last = s.last /\ v.pend = s.pend \ {m.n} /\ v.map = Forget(s.map, {m.n})
    BY <2>1 DEF Stream, StreamFields
  <2>4. Stream(R, v, U)
    <3>1. DOMAIN v.map = DOMAIN s.map \ {m.n} /\ \A n \in DOMAIN v.map : v.map[n] = s.map[n]
      BY <2>3 DEF Forget
    <3>2. \A n \in DOMAIN v.map : n \in 1 .. Len(R[s.reader]) /\ v.map[n] = R[s.reader][n]
      BY <1>2, <3>1 DEF Attached
    <3>3. v.pend \subseteq s.pend
      BY <2>3
    <3> QED
      BY <2>3, <3>2, <3>3, FewerWait
  <2>5. Resolvable(R, v, U, ctx)
    <3>1. DOMAIN ctx = {m.n} /\ ctx[m.n] = m.c
      BY <2>1
    <3>2. m.n \in 1 .. v.last
      BY <1>2, <1>4, <2>3 DEF Attached
    <3>3. ASSUME NEW x \in U \cup FramesOf(v.data), x.a = v.att
          PROVE  x.f.n # m.n
      <4>1. Passed(s, x)
        BY <2>3 DEF Stream
      <4> QED
        BY <1>1, <1>4, <2>3, <3>3, <4>1 DEF Passed
    <3>4. m.n \notin v.pend /\ m.c \in {Unknown, R[v.reader][m.n]} /\ v.reader # 0
      BY <1>1, <2>3
    <3> QED
      BY <3>1, <3>2, <3>3, <3>4 DEF Resolvable
  <2>6. Stream(R, Buffered(v, ctx), U) /\ Buffered(v, ctx).reader = v.reader /\ Buffered(v, ctx).last = v.last
    BY <2>4, <2>5, BufferedKeepsStream
  <2> QED
    BY <2>2, <2>3, <2>6
<1>5. CASE m.c # Unknown /\ m.n \notin s.pend
  <2>1. PICK v : v = [s EXCEPT !.map = Learn(s.map, m)]
    OBVIOUS
  <2>2. Described(s, m) = v
    BY <1>5, <2>1 DEF Described
  <2>3. /\ DOMAIN v = StreamFields /\ v.data = s.data /\ v.att = s.att /\ v.reader = s.reader
        /\ v.last = s.last /\ v.pend = s.pend /\ v.map = Learn(s.map, m)
    BY <2>1 DEF Stream, StreamFields
  <2>4. \A n \in DOMAIN v.map : n \in 1 .. Len(R[s.reader]) /\ v.map[n] = R[s.reader][n]
    BY <1>1, <1>2, <2>3 DEF Attached, Learn
  <2>5. Stream(R, v, U)
    BY <2>3, <2>4, FewerWait
  <2> QED
    BY <2>2, <2>3, <2>5
<1> QED
  BY <1>3, <1>4, <1>5

\* Every frame of the ring that was not read yet is read.
LEMMA ReadRingKeepsStream ==
  ASSUME RingsOf(ring), NEW U, NEW s, Stream(ring, s, U), s.reader # 0
  PROVE  /\ Stream(ring, ReadRing(s), U)
         /\ ReadRing(s).reader = s.reader
<1>1. Attached(ring, s)
  BY DEF Stream
<1>2. PICK N \in Nat : N = Len(ring[s.reader]) /\ s.last \in 0 .. N
  <2>1. s.reader \in 1 .. MaxRings /\ s.last \in 0 .. Len(ring[s.reader])
    BY <1>1 DEF Attached
  <2>2. Len(ring[s.reader]) \in Nat
    BY <2>1, IsSequence DEF RingsOf
  <2> QED
    BY <2>1, <2>2
<1>3. PICK new, known : new = (s.last + 1) .. N /\ known = new \cap DOMAIN s.map
  OBVIOUS
<1>4. PICK v, ctx : /\ v = [s EXCEPT !.pend = s.pend \cup (new \ known), !.map = Forget(s.map, known), !.last = N]
                    /\ ctx = [n \in known |-> s.map[n]]
  OBVIOUS
<1>5. ReadRing(s) = Buffered(v, ctx)
  BY <1>2, <1>3, <1>4 DEF ReadRing
<1>6. /\ DOMAIN v = StreamFields /\ v.data = s.data /\ v.att = s.att /\ v.reader = s.reader
      /\ v.last = N /\ v.pend = s.pend \cup (new \ known) /\ v.map = Forget(s.map, known)
  BY <1>4 DEF Stream, StreamFields
<1>7. ASSUME NEW x \in U \cup FramesOf(s.data), x.a = s.att
      PROVE  x.f.n \in Nat /\ x.f.n <= N /\ x.f.n \notin s.pend /\ x.f.n \notin new
  <2>1. Passed(s, x)
    BY DEF Stream
  <2>2. x.f.n \in Nat /\ x.f.n <= s.last /\ x.f.n \notin s.pend
    BY <1>7, <2>1 DEF Passed
  <2> QED
    BY <1>2, <1>3, <2>2
<1>8. Attached(ring, v)
  <2>1. v.pend \subseteq 1 .. N
    BY <1>1, <1>2, <1>3, <1>6 DEF Attached
  <2>2. DOMAIN v.map = DOMAIN s.map \ known /\ \A n \in DOMAIN v.map : v.map[n] = s.map[n]
    BY <1>6 DEF Forget
  <2>3. \A n \in DOMAIN v.map : n \in 1 .. Len(ring[v.reader]) /\ v.map[n] = ring[v.reader][n]
    BY <1>1, <1>6, <2>2 DEF Attached
  <2>4. v.reader \in 1 .. MaxRings /\ v.last \in 0 .. Len(ring[v.reader])
    BY <1>1, <1>2, <1>6 DEF Attached
  <2> QED
    BY <1>6, <2>1, <2>3, <2>4 DEF Attached
<1>9. Stream(ring, v, U)
  <2>1. ASSUME NEW x \in U \cup FramesOf(v.data)
        PROVE  Passed(v, x)
    <3>1. Passed(s, x)
      BY <1>6 DEF Stream
    <3>2. x.a = s.att => x.f.n \in Nat /\ x.f.n <= N /\ x.f.n \notin s.pend /\ x.f.n \notin new
      BY <1>6, <1>7
    <3> QED
      BY <1>6, <3>1, <3>2 DEF Passed
  <2>2. GenuineRows(ring, v.data) /\ v.att \in Nat /\ FramesOf(v.data) \cap U = {}
    BY <1>6 DEF Stream
  <2> QED
    BY <1>6, <1>8, <2>1, <2>2 DEF Stream
<1>10. Resolvable(ring, v, U, ctx)
  <2>1. DOMAIN ctx = known /\ \A n \in known : ctx[n] = s.map[n]
    BY <1>4
  <2>2. known \subseteq 1 .. v.last
    BY <1>2, <1>3, <1>6
  <2>3. ASSUME NEW n \in known
        PROVE  n \notin v.pend /\ ctx[n] \in {Unknown, ring[v.reader][n]}
    <3>1. n \notin s.pend
      BY <1>1, <1>2, <1>3 DEF Attached
    <3>2. s.map[n] = ring[s.reader][n]
      BY <1>1, <1>3 DEF Attached
    <3> QED
      BY <1>6, <2>1, <3>1, <3>2
  <2>4. \A x \in U \cup FramesOf(v.data) : x.a = v.att => x.f.n \notin known
    BY <1>3, <1>6, <1>7
  <2> QED
    BY <1>6, <2>1, <2>2, <2>3, <2>4 DEF Resolvable
<1>11. Stream(ring, Buffered(v, ctx), U) /\ Buffered(v, ctx).reader = v.reader
  BY <1>9, <1>10, BufferedKeepsStream
<1> QED
  BY <1>5, <1>6, <1>11

\* A reader of another ring starts with an empty memory.
LEMMA AttachKeepsStream ==
  ASSUME NEW R, RingsOf(R), NEW U, NEW s, Stream(R, s, U), NEW m, Message(R, m)
  PROVE  Stream(R, Attach(s, m), U) /\ Attach(s, m).reader = m.g /\ m.g # 0
<1>1. m.g # 0 /\ m.g \in 1 .. MaxRings /\ m.n \in 1 .. Len(R[m.g]) /\ Len(R[m.g]) \in Nat
  BY HdfAssumption, IsSequence DEF Message, RingsOf
<1>2. CASE s.reader = m.g
  <2>1. Attach(s, m) = s
    BY <1>2 DEF Attach
  <2> QED
    BY <1>1, <1>2, <2>1
<1>3. CASE s.reader # m.g
  <2>1. PICK v : v = Attach(s, m)
    OBVIOUS
  <2>2. PICK k : v = [s EXCEPT !.reader = m.g, !.closed = FALSE, !.last = m.n - 1, !.map = <<>>, !.pend = {},
                               !.data = <<>>, !.meta = <<>>, !.att = @ + 1, !.sessions = k, !.active = k]
    BY <1>3, <2>1 DEF Attach
  <2>3. /\ DOMAIN v = StreamFields /\ v.data = <<>> /\ v.att = s.att + 1 /\ v.reader = m.g
        /\ v.last = m.n - 1 /\ v.pend = {} /\ v.map = <<>>
    BY <2>2 DEF Stream, StreamFields
  <2>4. GenuineRows(R, v.data) /\ FramesOf(v.data) = {}
    BY <2>3, NoRows
  <2>5. Attached(R, v)
    <3>1. DOMAIN v.map = {}
      BY <2>3, EmptyIsSequence
    <3> QED
      BY <1>1, <2>3, <3>1 DEF Attached
  <2>6. s.att \in Nat
    BY DEF Stream
  <2>7. ASSUME NEW x \in U
        PROVE  Passed(v, x)
    <3>1. Passed(s, x)
      BY DEF Stream
    <3> QED
      BY <2>3, <2>6, <3>1 DEF Passed
  <2>8. Stream(R, v, U)
    BY <2>3, <2>4, <2>5, <2>6, <2>7 DEF Stream
  <2> QED
    BY <1>1, <2>1, <2>3, <2>8
<1> QED
  BY <1>2, <1>3

\* A reader that is given up leaves an empty memory.
LEMMA ResetKeepsStream ==
  ASSUME NEW R, NEW U, NEW s, Stream(R, s, U)
  PROVE  Stream(R, Reset(s), U)
<1>1. PICK v : v = Reset(s)
  OBVIOUS
<1>2. DOMAIN v = StreamFields /\ v.data = <<>> /\ v.att = s.att /\ v.reader = 0 /\ v.pend = {}
  BY <1>1 DEF Stream, StreamFields, Reset
<1>3. GenuineRows(R, v.data) /\ FramesOf(v.data) = {}
  BY <1>2, NoRows
<1>4. s.att \in Nat
  BY DEF Stream
<1>5. ASSUME NEW x \in U
      PROVE  Passed(v, x)
  <2>1. Passed(s, x)
    BY DEF Stream
  <2> QED
    BY <1>2, <2>1 DEF Passed
<1>6. Stream(R, v, U)
  BY <1>2, <1>3, <1>4, <1>5 DEF Stream
<1> QED
  BY <1>1, <1>6

\* Frames leave the memory, to be taken or to be given up.
LEMMA FewerHeld ==
  ASSUME NEW R, NEW U, NEW s, Stream(R, s, U), NEW v, DOMAIN v = StreamFields, NEW W,
         GenuineRows(R, v.data), FramesOf(v.data) \cap W = {},
         FramesOf(v.data) \cup W \subseteq FramesOf(s.data) \cup U,
         v.att = s.att, v.reader = s.reader, v.last = s.last, v.pend \subseteq s.pend,
         DOMAIN v.map \subseteq DOMAIN s.map, \A n \in DOMAIN v.map : v.map[n] = s.map[n]
  PROVE  Stream(R, v, W)
<1>1. (v.reader = 0 /\ v.pend = {}) \/ Attached(R, v)
  <2>1. CASE s.reader = 0 /\ s.pend = {}
    BY <2>1
  <2>2. CASE Attached(R, s)
    BY <2>2 DEF Attached
  <2> QED
    BY <2>1, <2>2 DEF Stream
<1>2. ASSUME NEW x \in W \cup FramesOf(v.data)
      PROVE  Passed(v, x)
  <2>1. Passed(s, x)
    BY DEF Stream
  <2> QED
    BY <2>1 DEF Passed
<1>3. v.att \in Nat
  BY DEF Stream
<1> QED
  BY <1>1, <1>2, <1>3 DEF Stream

-----------------------------------------------------------------------------
(* The inductive invariant *)

WrittenIn(F) == UNION {FramesOf(F[f].rows) : f \in DOMAIN F}
Taken == QueuedIn(queue) \cup BatchFrames(hand) \cup WrittenIn(files) \cup failed

\* The rings, and announcements of frames they hold.
ProducerInv ==
    /\ RingsOf(ring) /\ gen \in 1 .. MaxRings
    /\ Sequence(sock) /\ \A i \in DOMAIN sock : Message(ring, sock[i])
    /\ Sequence(held) /\ \A i \in DOMAIN held : Message(ring, held[i])

\* The memory holds frames that are nowhere else.
MemoryInv == Stream(ring, st, Taken)

\* A frame is in one request, in the file or failed.
PipeInv ==
    /\ Requests(ring, queue)
    /\ hand.kind = "batch" => GenuineRows(ring, hand.data)
    /\ QueuedIn(queue) \cap (BatchFrames(hand) \cup WrittenIn(files) \cup failed) = {}
    /\ BatchFrames(hand) \cap (WrittenIn(files) \cup failed) = {}
    /\ WrittenIn(files) \cap failed = {}

\* The files: genuine rows, no frame in two of them, verdicts that are true.
SoundFiles(R, F) ==
    /\ Sequence(F)
    /\ \A f \in DOMAIN F : FileRecord(F[f]) /\ GenuineRows(R, F[f].rows)
    /\ \A f, e \in DOMAIN F : f # e => FramesOf(F[f].rows) \cap FramesOf(F[e].rows) = {}
    /\ \A f \in DOMAIN F : F[f].ended => Judged(F[f])

FilesInv == SoundFiles(ring, files) /\ cur \in {0} \cup DOMAIN files

\* The counters of the open file.
CountInv == cur # 0 => PerFile(pf) /\ Counted(pf, files[cur]) /\ ~files[cur].ended

Ops == {"stop", "rotate"}

OpRecord(o) ==
    /\ DOMAIN o = {"kind", "file", "submitted", "done", "ok", "owed"}
    /\ o.kind \in Ops /\ o.submitted \in BOOLEAN /\ o.done \in BOOLEAN /\ o.ok \in BOOLEAN

\* The request of the file operation is the last one, and there is one only
\* while the operation waits for it.
RequestInv ==
    /\ op = None \/ OpRecord(op)
    /\ op = None \/ ~op.submitted \/ op.done =>
           hand.kind \notin Ops /\ \A i \in DOMAIN queue : queue[i].kind \notin Ops
    /\ hand.kind \in Ops => queue = <<>>
    /\ \A i \in DOMAIN queue : queue[i].kind \in Ops => i = Len(queue)
    /\ op # None /\ op.done => op.submitted /\ queue = <<>> /\ hand = None

\* What the operation owes is on its way to the file it closes, or there.
CutInv ==
    /\ op # None /\ ~op.done /\ phase \in {"run", "closing"} =>
           /\ cur # 0 /\ op.file = cur
           /\ op.owed \ failed = FramesOf(files[cur].rows) \cup InMemory
    /\ op # None /\ op.done /\ op.ok =>
           /\ op.file \in DOMAIN files /\ op.file # cur
           /\ FramesOf(files[op.file].rows) = op.owed \ failed

\* What the close owes is written, or in memory with a file to write it to.
CloseInv ==
    /\ phase = "run" => bg = "live"
    /\ phase = "closing" => owed \ failed \subseteq WrittenIn(files) \cup (IF cur = 0 THEN {} ELSE InMemory)
    /\ phase = "closed" => owed \ failed \subseteq WrittenIn(files)

HdfInv == ProducerInv /\ MemoryInv /\ PipeInv /\ FilesInv /\ CountInv /\ RequestInv /\ CutInv /\ CloseInv

-----------------------------------------------------------------------------
(* Facts about the parts *)

\* The frames of a file are among the written ones.
LEMMA FileIsWritten ==
  ASSUME NEW F, NEW f \in DOMAIN F
  PROVE  FramesOf(F[f].rows) \subseteq WrittenIn(F)
  BY DEF WrittenIn

\* The frames of a request are among the queued ones.
LEMMA RequestIsQueued ==
  ASSUME NEW q, NEW i \in DOMAIN q
  PROVE  BatchFrames(q[i]) \subseteq QueuedIn(q)
  BY DEF QueuedIn

\* A queue in terms of its first requests.
LEMMA QueuedAreFirst ==
  ASSUME NEW q, Sequence(q)
  PROVE  QueuedIn(q) = FirstFrames(q, Len(q))
  BY IsSequence DEF QueuedIn, FirstFrames

\* An empty queue.
LEMMA NothingQueued == QueuedIn(<<>>) = {} /\ \A R : Requests(R, <<>>)
<1>1. Sequence(<<>>) /\ DOMAIN <<>> = {}
  BY EmptyIsSequence
<1> QED
  BY <1>1 DEF QueuedIn, Requests

\* From files F with failures X to G with Y: the frames N are written or have
\* failed, and nothing else changes.
Placed(F, X, G, Y, N) ==
    /\ WrittenIn(G) \cup Y = WrittenIn(F) \cup X \cup N
    /\ WrittenIn(F) \subseteq WrittenIn(G)
    /\ X \subseteq Y
    /\ WrittenIn(G) \cap Y = {}

Replaced(F, k, h, G) == G = [F EXCEPT ![k] = h]

\* One file is replaced by what a write makes of it.
LEMMA OneFileReplaced ==
  ASSUME NEW R, NEW F, SoundFiles(R, F), NEW k \in DOMAIN F, NEW X, WrittenIn(F) \cap X = {},
         NEW w, w.file = F[k], w.failed = X, NEW v, Writing(R, v), NEW N, Adds(w, v, N),
         N \cap (WrittenIn(F) \cup X) = {},
         NEW h, FileRecord(h), h.rows = v.file.rows,
         h.ended => Judged(h),
         NEW G, Replaced(F, k, h, G)
  PROVE  /\ SoundFiles(R, G) /\ DOMAIN G = DOMAIN F /\ G[k] = h /\ \A f \in DOMAIN F \ {k} : G[f] = F[f]
         /\ Placed(F, X, G, v.failed, N)
<1>1. Sequence(F) /\ Len(F) \in Nat /\ DOMAIN F = 1 .. Len(F)
  BY IsSequence DEF SoundFiles
<1>2. DOMAIN G = DOMAIN F /\ G[k] = h /\ \A f \in DOMAIN F \ {k} : G[f] = F[f]
  BY DEF Replaced
<1>3. Sequence(G)
  <2>1. G = [i \in 1 .. Len(F) |-> G[i]]
    BY <1>1 DEF Replaced
  <2> QED
    BY <1>1, <2>1, FunctionIsSequence
<1>4. PICK A, B : A = FramesOf(F[k].rows) /\ B = FramesOf(h.rows)
  OBVIOUS
<1>5. /\ B \cup v.failed = A \cup X \cup N /\ A \subseteq B /\ X \subseteq v.failed /\ B \cap v.failed = {}
  BY <1>4 DEF Adds, Writing
<1>6. A \subseteq WrittenIn(F)
  BY <1>4, FileIsWritten
<1>7. B \subseteq A \cup N
  <2>1. B \cap X = {}
    BY <1>5
  <2> QED
    BY <1>5, <2>1
<1>8. ASSUME NEW f \in DOMAIN F \ {k}
      PROVE  FramesOf(F[f].rows) \cap B = {} /\ FramesOf(F[f].rows) \subseteq WrittenIn(F)
  <2>1. FramesOf(F[f].rows) \subseteq WrittenIn(F)
    BY FileIsWritten
  <2>2. FramesOf(F[f].rows) \cap A = {}
    BY <1>4 DEF SoundFiles
  <2> QED
    BY <1>7, <2>1, <2>2
<1>9. ASSUME NEW f \in DOMAIN G, NEW e \in DOMAIN G, f # e
      PROVE  FramesOf(G[f].rows) \cap FramesOf(G[e].rows) = {}
  <2>1. CASE f = k
    <3>1. FramesOf(G[f].rows) = B /\ FramesOf(G[e].rows) = FramesOf(F[e].rows) /\ e \in DOMAIN F \ {k}
      BY <1>2, <1>4, <1>9, <2>1
    <3> QED
      BY <1>8, <3>1
  <2>2. CASE e = k
    <3>1. FramesOf(G[e].rows) = B /\ FramesOf(G[f].rows) = FramesOf(F[f].rows) /\ f \in DOMAIN F \ {k}
      BY <1>2, <1>4, <1>9, <2>2
    <3> QED
      BY <1>8, <3>1
  <2>3. CASE f # k /\ e # k
    <3>1. G[f] = F[f] /\ G[e] = F[e] /\ f \in DOMAIN F /\ e \in DOMAIN F
      BY <1>2, <2>3
    <3> QED
      BY <1>9, <3>1 DEF SoundFiles
  <2> QED
    BY <2>1, <2>2, <2>3
<1>10. ASSUME NEW f \in DOMAIN G
       PROVE  FileRecord(G[f]) /\ GenuineRows(R, G[f].rows)
  <2>1. CASE f = k
    <3>1. GenuineRows(R, h.rows)
      BY DEF Writing
    <3> QED
      BY <1>2, <2>1, <3>1
  <2>2. CASE f # k
    BY <1>2, <2>2 DEF SoundFiles
  <2> QED
    BY <2>1, <2>2
<1>11. ASSUME NEW f \in DOMAIN G, G[f].ended
       PROVE  Judged(G[f])
  <2>1. CASE f = k
    BY <1>2, <1>11, <2>1
  <2>2. CASE f # k
    <3>1. G[f] = F[f] /\ f \in DOMAIN F
      BY <1>2, <2>2
    <3>2. F[f].ended
      BY <1>11, <3>1
    <3> QED
      BY <3>1, <3>2 DEF SoundFiles
  <2> QED
    BY <2>1, <2>2
<1>12. SoundFiles(R, G)
  BY <1>3, <1>9, <1>10, <1>11 DEF SoundFiles
<1>13. ASSUME NEW x
       PROVE  x \in WrittenIn(G) <=> x \in B \/ (x \in WrittenIn(F) /\ x \notin A)
  <2>1. x \in WrittenIn(G) <=> \E f \in DOMAIN G : x \in FramesOf(G[f].rows)
    BY DEF WrittenIn
  <2>2. x \in WrittenIn(F) <=> \E f \in DOMAIN F : x \in FramesOf(F[f].rows)
    BY DEF WrittenIn
  <2>3. \A f \in DOMAIN F \ {k} : G[f].rows = F[f].rows /\ FramesOf(F[f].rows) \cap A = {}
    BY <1>2, <1>4 DEF SoundFiles
  <2>4. FramesOf(G[k].rows) = B /\ FramesOf(F[k].rows) = A /\ k \in DOMAIN F
    BY <1>2, <1>4
  <2> QED
    BY <1>2, <1>5, <2>1, <2>2, <2>3, <2>4
<1>14. Placed(F, X, G, v.failed, N)
  <2>1. WrittenIn(F) \subseteq WrittenIn(G)
    BY <1>5, <1>13
  <2>2. WrittenIn(G) \cap v.failed = {}
    <3>1. \A x \in v.failed : x \in A \cup X \cup N
      BY <1>5
    <3> QED
      BY <1>5, <1>6, <1>13, <3>1
  <2>3. WrittenIn(G) \cup v.failed = WrittenIn(F) \cup X \cup N
    BY <1>5, <1>6, <1>13
  <2> QED
    BY <1>5, <2>1, <2>2, <2>3 DEF Placed
<1> QED
  BY <1>2, <1>12, <1>14

\* A new file has no rows yet.
LEMMA NewFileAppended ==
  ASSUME NEW R, NEW F, SoundFiles(R, F)
  PROVE  /\ SoundFiles(R, Append(F, NewFile)) /\ WrittenIn(Append(F, NewFile)) = WrittenIn(F)
         /\ Len(F) + 1 \in DOMAIN Append(F, NewFile) /\ Append(F, NewFile)[Len(F) + 1] = NewFile
         /\ Len(F) + 1 \notin DOMAIN F
         /\ \A f \in DOMAIN F : f \in DOMAIN Append(F, NewFile) /\ Append(F, NewFile)[f] = F[f]
<1>1. Sequence(F) /\ Len(F) \in Nat /\ DOMAIN F = 1 .. Len(F)
  BY IsSequence DEF SoundFiles
<1>2. PICK G, h : G = Append(F, h) /\ h = NewFile
  OBVIOUS
<1>3. /\ Sequence(G) /\ Len(F) + 1 \in DOMAIN G /\ Len(F) + 1 \notin DOMAIN F
      /\ \A f \in DOMAIN F : f \in DOMAIN G /\ G[f] = F[f]
      /\ G[Len(F) + 1] = h
      /\ \A f \in DOMAIN G : f \in DOMAIN F \/ f = Len(F) + 1
  BY <1>1, <1>2, Appended
<1>4. FileRecord(h) /\ h.rows = <<>>
  BY <1>2 DEF NewFile, FileRecord
<1>5. ~h.ended
  BY <1>2, Zenon DEF NewFile
<1>6. GenuineRows(R, h.rows) /\ FramesOf(h.rows) = {}
  BY <1>4, NoRows
<1>7. SoundFiles(R, G)
  <2>1. \A f \in DOMAIN G : FileRecord(G[f]) /\ GenuineRows(R, G[f].rows)
    BY <1>3, <1>4, <1>6 DEF SoundFiles
  <2>2. \A f, e \in DOMAIN G : f # e => FramesOf(G[f].rows) \cap FramesOf(G[e].rows) = {}
    BY <1>3, <1>6 DEF SoundFiles
  <2>3. \A f \in DOMAIN G : G[f].ended => Judged(G[f])
    BY <1>3, <1>5 DEF SoundFiles
  <2> QED
    BY <1>3, <2>1, <2>2, <2>3 DEF SoundFiles
<1>8. ASSUME NEW x
      PROVE  x \in WrittenIn(G) <=> x \in WrittenIn(F)
  <2>1. x \in WrittenIn(G) <=> \E f \in DOMAIN G : x \in FramesOf(G[f].rows)
    BY DEF WrittenIn
  <2>2. x \in WrittenIn(F) <=> \E f \in DOMAIN F : x \in FramesOf(F[f].rows)
    BY DEF WrittenIn
  <2> QED
    BY <1>3, <1>6, <2>1, <2>2
<1>9. WrittenIn(G) = WrittenIn(F)
  BY <1>8
<1> QED
  BY <1>2, <1>3, <1>7, <1>9

\* The open file and its state make something to write to.
LEMMA OpenIsWriting ==
  ASSUME HdfInv, cur # 0
  PROVE  Writing(ring, Open) /\ Open.file = files[cur] /\ Open.failed = failed /\ cur \in DOMAIN files
<1>1. cur \in DOMAIN files /\ FileRecord(files[cur]) /\ GenuineRows(ring, files[cur].rows)
  BY DEF HdfInv, FilesInv, SoundFiles
<1>2. PerFile(pf) /\ Counted(pf, files[cur]) /\ ~files[cur].ended
  BY DEF HdfInv, CountInv
<1>3. FramesOf(files[cur].rows) \cap failed = {}
  BY <1>1, FileIsWritten DEF HdfInv, PipeInv
<1>4. DOMAIN Open = {"pf", "file", "failed"} /\ Open.pf = pf /\ Open.file = files[cur] /\ Open.failed = failed
  BY DEF Open
<1>5. Writing(ring, Open)
  BY <1>1, <1>2, <1>3, <1>4 DEF Writing
<1> QED
  BY <1>1, <1>4, <1>5

QueueHas(q, X) == QueuedIn(q) = X

\* A request is put at the end of the queue.
LEMMA RequestAppended ==
  ASSUME NEW R, NEW q, Requests(R, q), NEW r, r.kind = "batch" => GenuineRows(R, r.data),
         BatchFrames(r) \cap QueuedIn(q) = {}, NEW p, p = Append(q, r)
  PROVE  Requests(R, p) /\ QueueHas(p, QueuedIn(q) \cup BatchFrames(r))
<1>1. Sequence(q) /\ Len(q) \in Nat /\ DOMAIN q = 1 .. Len(q)
  BY IsSequence DEF Requests
<1>2. /\ Sequence(p) /\ Len(q) + 1 \in DOMAIN p
      /\ \A i \in DOMAIN q : i \in DOMAIN p /\ p[i] = q[i]
      /\ p[Len(q) + 1] = r
      /\ \A i \in DOMAIN p : i \in DOMAIN q \/ i = Len(q) + 1
  BY <1>1, Appended
<1>3. \A i \in DOMAIN q : BatchFrames(q[i]) \cap BatchFrames(r) = {}
  BY RequestIsQueued
<1>4. Requests(R, p)
  <2>1. \A i \in DOMAIN p : p[i].kind = "batch" => GenuineRows(R, p[i].data)
    BY <1>2 DEF Requests
  <2>2. \A i, j \in DOMAIN p : i # j => BatchFrames(p[i]) \cap BatchFrames(p[j]) = {}
    BY <1>2, <1>3 DEF Requests
  <2> QED
    BY <1>2, <2>1, <2>2 DEF Requests
<1>5. ASSUME NEW x
      PROVE  x \in QueuedIn(p) <=> x \in QueuedIn(q) \/ x \in BatchFrames(r)
  <2>1. x \in QueuedIn(p) <=> \E i \in DOMAIN p : x \in BatchFrames(p[i])
    BY DEF QueuedIn
  <2>2. x \in QueuedIn(q) <=> \E i \in DOMAIN q : x \in BatchFrames(q[i])
    BY DEF QueuedIn
  <2> QED
    BY <1>2, <2>1, <2>2
<1>6. QueuedIn(p) = QueuedIn(q) \cup BatchFrames(r)
  BY <1>5
<1> QED
  BY <1>4, <1>6 DEF QueueHas

\* The first request is taken.
LEMMA RequestTaken ==
  ASSUME NEW R, NEW q, Requests(R, q), q # <<>>
  PROVE  /\ Requests(R, Tail(q)) /\ QueuedIn(q) = QueuedIn(Tail(q)) \cup BatchFrames(Head(q))
         /\ QueuedIn(Tail(q)) \cap BatchFrames(Head(q)) = {}
         /\ Head(q).kind = "batch" => GenuineRows(R, Head(q).data)
<1>1. Sequence(q) /\ Len(q) \in Nat /\ DOMAIN q = 1 .. Len(q)
  BY IsSequence DEF Requests
<1>2. PICK p, r : p = Tail(q) /\ r = Head(q)
  OBVIOUS
<1>3. /\ Sequence(p) /\ Len(q) \in Nat \ {0} /\ Len(p) = Len(q) - 1 /\ r = q[1] /\ 1 \in DOMAIN q
      /\ \A i \in DOMAIN p : i + 1 \in DOMAIN q /\ i + 1 # 1 /\ p[i] = q[i + 1]
  BY <1>1, <1>2, Tailed
<1>4. DOMAIN p = 1 .. Len(q) - 1
  BY <1>3, IsSequence
<1>5. \A i \in DOMAIN q \ {1} : i - 1 \in DOMAIN p /\ p[i - 1] = q[i]
  BY <1>1, <1>3, <1>4
<1>6. ASSUME NEW x
      PROVE  x \in QueuedIn(q) <=> x \in QueuedIn(p) \/ x \in BatchFrames(r)
  <2>1. x \in QueuedIn(p) <=> \E i \in DOMAIN p : x \in BatchFrames(p[i])
    BY DEF QueuedIn
  <2>2. x \in QueuedIn(q) <=> \E i \in DOMAIN q : x \in BatchFrames(q[i])
    BY DEF QueuedIn
  <2>3. ASSUME NEW i \in DOMAIN q, x \in BatchFrames(q[i])
        PROVE  x \in QueuedIn(p) \/ x \in BatchFrames(r)
    BY <1>3, <1>5, <2>1, <2>3
  <2> QED
    BY <1>3, <2>1, <2>2, <2>3
<1>7. QueuedIn(p) \cap BatchFrames(r) = {}
  <2>1. \A i \in DOMAIN p : BatchFrames(p[i]) \cap BatchFrames(r) = {}
    BY <1>3 DEF Requests
  <2> QED
    BY <2>1 DEF QueuedIn
<1>8. Requests(R, p)
  <2>1. \A i \in DOMAIN p : p[i].kind = "batch" => GenuineRows(R, p[i].data)
    BY <1>3 DEF Requests
  <2>2. ASSUME NEW i \in DOMAIN p, NEW j \in DOMAIN p, i # j
        PROVE  BatchFrames(p[i]) \cap BatchFrames(p[j]) = {}
    <3>1. i + 1 \in DOMAIN q /\ j + 1 \in DOMAIN q /\ i + 1 # j + 1 /\ p[i] = q[i + 1] /\ p[j] = q[j + 1]
      BY <1>3, <1>4, <2>2
    <3> QED
      BY <3>1 DEF Requests
  <2> QED
    BY <1>3, <2>1, <2>2 DEF Requests
<1>9. r.kind = "batch" => GenuineRows(R, r.data)
  BY <1>3 DEF Requests
<1> QED
  BY <1>2, <1>6, <1>7, <1>8, <1>9

\* What a request that is no batch carries.
LEMMA NoBatch ==
  ASSUME NEW r, r.kind # "batch"
  PROVE  BatchFrames(r) = {}
  BY DEF BatchFrames

-----------------------------------------------------------------------------
(* The main loop *)

\* A step that changes the memory only, and takes an announcement.
LEMMA MemoryStep ==
  ASSUME HdfInv, phase = "run", op = None,
         UNCHANGED <<ring, gen, files, cur, queue, hand, bg, op, phase, owed, failed>>,
         ProducerInv', CountInv', Stream(ring, st', Taken)
  PROVE  HdfInv'
<1>1. MemoryInv'
  BY DEF MemoryInv, Taken
<1>2. PipeInv' /\ FilesInv'
  BY DEF HdfInv, PipeInv, FilesInv
<1>3. RequestInv'
  BY DEF HdfInv, RequestInv
<1>4. CutInv'
  BY DEF CutInv
<1>5. CloseInv'
  BY DEF HdfInv, CloseInv
<1> QED
  BY <1>1, <1>2, <1>3, <1>4, <1>5 DEF HdfInv

\* The counters do not change.
LEMMA CountersKept ==
  ASSUME HdfInv, UNCHANGED <<cur, files>>, DOMAIN pf' = DOMAIN pf,
         pf'.count = pf.count, pf'.expect = pf.expect
  PROVE  CountInv'
<1>1. cur # 0 => PerFile(pf) /\ Counted(pf, files[cur]) /\ ~files[cur].ended
  BY DEF HdfInv, CountInv
<1>2. PerFile(pf) => PerFile(pf')
  BY DEF PerFile
<1>3. Counted(pf, files[cur]) => Counted(pf', files[cur])
  BY DEF Counted
<1> QED
  BY <1>1, <1>2, <1>3, Zenon DEF CountInv

\* chunk_ready keeps the stream's state, whatever becomes of it.
LEMMA DispatchKeepsStream ==
  ASSUME HdfInv, NEW m, Message(ring, m), Dispatch(m)
  PROVE  Stream(ring, st', Taken)
<1>1. RingsOf(ring) /\ Stream(ring, st, Taken)
  BY DEF HdfInv, ProducerInv, MemoryInv
<1>2. PICK U : U = Taken
  OBVIOUS
<1>3. PICK s : s = Attach(st, m)
  OBVIOUS
<1>4. Stream(ring, s, U) /\ s.reader = m.g /\ m.g # 0
  BY <1>1, <1>2, <1>3, AttachKeepsStream
<1>5. PICK d : d = Described(s, m)
  OBVIOUS
<1>6. Stream(ring, d, U) /\ d.reader = m.g
  BY <1>1, <1>4, <1>5, DescribedKeepsStream
<1>7. CASE HandleChunk(m)
  <2>1. PICK r : r = ReadRing(d)
    OBVIOUS
  <2>2. Stream(ring, r, U) /\ r.reader = m.g
    BY <1>1, <1>4, <1>6, <2>1, ReadRingKeepsStream
  <2>3. PICK e : e = EnforcePendingCap(r)
    OBVIOUS
  <2>4. Stream(ring, e, U)
    BY <1>1, <1>4, <2>2, <2>3, CapKeepsStream
  <2>5. PICK v : v = IF r.last = d.last THEN d ELSE e
    OBVIOUS
  <2>6. Stream(ring, v, U)
    BY <1>6, <2>4, <2>5
  <2>7. Stream(ring, TrimMap(v), U)
    BY <2>6, TrimKeepsStream
  <2>8. st' = TrimMap(v)
    BY <1>3, <1>5, <1>7, <2>1, <2>3, <2>5 DEF HandleChunk
  <2> QED
    BY <1>2, <2>7, <2>8
<1>8. CASE AttachFails(m)
  <2>1. PICK v, b : v = [st EXCEPT !.closed = b] /\ st' = v
    BY <1>8 DEF AttachFails
  <2>2. /\ DOMAIN v = StreamFields /\ v.data = st.data /\ v.att = st.att /\ v.reader = st.reader
        /\ v.last = st.last /\ v.pend = st.pend /\ v.map = st.map
    BY <1>1, <2>1 DEF Stream, StreamFields
  <2>3. st.reader # 0 => \A n \in DOMAIN v.map : n \in 1 .. Len(ring[st.reader]) /\ v.map[n] = ring[st.reader][n]
    BY <1>1, <2>2 DEF Stream, Attached
  <2>4. PICK s0 : s0 = st
    OBVIOUS
  <2>5. Stream(ring, v, U)
    BY <1>1, <1>2, <2>2, <2>3, <2>4, FewerWait
  <2> QED
    BY <1>2, <2>1, <2>5
<1>9. CASE DrainFails(m)
  <2>1. st' = Reset(d)
    BY <1>3, <1>5, <1>9 DEF DrainFails
  <2>2. Stream(ring, Reset(d), U)
    BY <1>6, ResetKeepsStream
  <2> QED
    BY <1>2, <2>1, <2>2
<1> QED
  BY <1>7, <1>8, <1>9 DEF Dispatch

\* chunk_ready leaves the counters alone.
LEMMA DispatchKeepsCounters ==
  ASSUME HdfInv, NEW m, Dispatch(m), UNCHANGED <<cur, files>>
  PROVE  CountInv'
<1>1. CASE cur = 0
  BY <1>1 DEF CountInv
<1>2. CASE cur # 0
  <2>1. DOMAIN pf = {"seen", "chunk", "gap", "fail", "ok", "count", "expect", "missing"}
    BY <1>2 DEF HdfInv, CountInv, PerFile
  <2>2. DOMAIN pf' = DOMAIN pf /\ pf'.count = pf.count /\ pf'.expect = pf.expect
    <3>1. CASE HandleChunk(m)
      <4>1. PICK a, b, c : pf' = [pf EXCEPT !.chunk = TRUE, !.fail = a, !.gap = b, !.seen = c]
        BY <3>1 DEF HandleChunk, RecordContext
      <4> QED
        BY <2>1, <4>1
    <3>2. CASE AttachFails(m)
      <4>1. pf' = [pf EXCEPT !.chunk = TRUE, !.fail = TRUE]
        BY <3>2 DEF AttachFails
      <4> QED
        BY <2>1, <4>1
    <3>3. CASE DrainFails(m)
      <4>1. PICK a, b, c : pf' = [pf EXCEPT !.chunk = TRUE, !.fail = a, !.gap = b, !.seen = c]
        BY <3>3 DEF DrainFails, RecordContext
      <4> QED
        BY <2>1, <4>1
    <3> QED
      BY <3>1, <3>2, <3>3 DEF Dispatch
  <2> QED
    BY <2>2, CountersKept
<1> QED
  BY <1>1, <1>2

\* An announcement is received.
LEMMA ReceiveKeeps ==
  ASSUME HdfInv, Receive
  PROVE  HdfInv'
<1>1. Sequence(sock) /\ sock # <<>> /\ \A i \in DOMAIN sock : Message(ring, sock[i])
  BY DEF HdfInv, ProducerInv, Receive
<1>2. /\ Sequence(Tail(sock)) /\ Head(sock) = sock[1] /\ 1 \in DOMAIN sock
      /\ \A i \in DOMAIN Tail(sock) : i + 1 \in DOMAIN sock /\ Tail(sock)[i] = sock[i + 1]
  BY <1>1, Tailed
<1>3. PICK m : m = Head(sock) /\ Dispatch(m) /\ Message(ring, m)
  BY <1>1, <1>2 DEF Receive
<1>4. /\ phase = "run" /\ op = None
      /\ UNCHANGED <<ring, gen, files, cur, queue, hand, bg, op, phase, owed, failed, held>>
      /\ sock' = Tail(sock)
  BY DEF Receive, Normal, producer, ghost
<1>5. ProducerInv'
  BY <1>1, <1>2, <1>4 DEF HdfInv, ProducerInv
<1>6. Stream(ring, st', Taken)
  BY <1>3, DispatchKeepsStream
<1>7. CountInv'
  BY <1>3, <1>4, DispatchKeepsCounters
<1> QED
  BY <1>4, <1>5, <1>6, <1>7, MemoryStep

\* A held announcement is replayed.
LEMMA ReplayHeldKeeps ==
  ASSUME HdfInv, ReplayHeld
  PROVE  HdfInv'
<1>1. Sequence(held) /\ held # <<>> /\ \A i \in DOMAIN held : Message(ring, held[i])
  BY DEF HdfInv, ProducerInv, ReplayHeld
<1>2. /\ Sequence(Tail(held)) /\ Head(held) = held[1] /\ 1 \in DOMAIN held
      /\ \A i \in DOMAIN Tail(held) : i + 1 \in DOMAIN held /\ Tail(held)[i] = held[i + 1]
  BY <1>1, Tailed
<1>3. PICK m : m = Head(held) /\ Dispatch(m) /\ Message(ring, m)
  BY <1>1, <1>2 DEF ReplayHeld
<1>4. /\ phase = "run" /\ op = None
      /\ UNCHANGED <<ring, gen, files, cur, queue, hand, bg, op, phase, owed, failed, sock>>
      /\ held' = Tail(held)
  BY DEF ReplayHeld, producer, ghost
<1>5. ProducerInv'
  BY <1>1, <1>2, <1>4 DEF HdfInv, ProducerInv
<1>6. Stream(ring, st', Taken)
  BY <1>3, DispatchKeepsStream
<1>7. CountInv'
  BY <1>3, <1>4, DispatchKeepsCounters
<1> QED
  BY <1>4, <1>5, <1>6, <1>7, MemoryStep

\* The waits that pass their time.
LEMMA ExpireKeeps ==
  ASSUME HdfInv, ExpirePending \/ ExpireMap
  PROVE  HdfInv'
<1>1. RingsOf(ring) /\ Stream(ring, st, Taken)
  BY DEF HdfInv, ProducerInv, MemoryInv
<1>2. PICK U, s : U = Taken /\ s = st
  OBVIOUS
<1>3. /\ phase = "run" /\ op = None
      /\ UNCHANGED <<ring, gen, files, cur, queue, hand, bg, op, phase, owed, failed, sock, held, pf>>
  BY DEF ExpirePending, ExpireMap, Normal, producer, disk, ghost
<1>4. ProducerInv' /\ CountInv'
  BY <1>3 DEF HdfInv, ProducerInv, CountInv
<1>5. CASE ExpirePending
  <2>1. PICK k \in 1 .. Cardinality(s.pend) : st' = FlushAsUnknown(s, Oldest(s.pend, k))
    BY <1>2, <1>5 DEF ExpirePending
  <2>2. s.reader # 0
    <3> SUFFICES ASSUME s.reader = 0 PROVE FALSE
      OBVIOUS
    <3>1. s.pend = {}
      BY <1>1, <1>2, HdfAssumption DEF Stream, Attached
    <3>2. Cardinality(s.pend) = 0
      BY <3>1, FS_EmptySet
    <3> QED
      BY <2>1, <3>2
  <2>3. Oldest(s.pend, k) \subseteq s.pend
    BY DEF Oldest
  <2>4. Stream(ring, s, U)
    BY <1>1, <1>2
  <2>5. Stream(ring, FlushAsUnknown(s, Oldest(s.pend, k)), U)
    BY <1>1, <2>2, <2>3, <2>4, FlushKeepsStream
  <2>6. Stream(ring, st', Taken)
    BY <1>2, <2>1, <2>5
  <2> QED
    BY <1>3, <1>4, <2>6, MemoryStep
<1>6. CASE ExpireMap
  <2>1. PICK S, v : v = [s EXCEPT !.map = Forget(s.map, S)] /\ st' = v
    BY <1>2, <1>6 DEF ExpireMap
  <2>2. Stream(ring, s, U)
    BY <1>1, <1>2
  <2>3. Stream(ring, v, U)
    BY <2>1, <2>2, MapForgets
  <2>4. Stream(ring, st', Taken)
    BY <1>2, <2>1, <2>3
  <2> QED
    BY <1>3, <1>4, <2>4, MemoryStep
<1> QED
  BY <1>5, <1>6

\* The memory is handed over.
LEMMA EnqueueKeeps ==
  ASSUME HdfInv, EnqueueFlushBatch
  PROVE  HdfInv'
<1>1. /\ phase = "run" /\ op = None
      /\ UNCHANGED <<ring, gen, files, cur, hand, bg, op, phase, owed, failed, sock, held, pf>>
      /\ queue' = Append(queue, Batch) /\ st' = [st EXCEPT !.data = <<>>, !.meta = <<>>]
  BY DEF EnqueueFlushBatch, Normal, producer, disk, ghost
<1>2. RingsOf(ring) /\ Stream(ring, st, Taken)
  BY DEF HdfInv, ProducerInv, MemoryInv
<1>3. PICK r : r = Batch
  OBVIOUS
<1>4. r.kind = "batch" /\ r.data = st.data /\ BatchFrames(r) = FramesOf(st.data)
  BY <1>3 DEF Batch, BatchFrames
<1>5. PICK M : M = FramesOf(st.data)
  OBVIOUS
<1>6. GenuineRows(ring, st.data) /\ M \cap Taken = {}
  BY <1>2, <1>5 DEF Stream
<1>7. Requests(ring, queue')
  <2>1. Requests(ring, queue) /\ BatchFrames(r) \cap QueuedIn(queue) = {}
    BY <1>4, <1>5, <1>6 DEF HdfInv, PipeInv, Taken
  <2>2. PICK p : p = Append(queue, r)
    OBVIOUS
  <2>3. Requests(ring, p)
    BY <1>4, <1>6, <2>1, <2>2, RequestAppended
  <2> QED
    BY <1>1, <1>3, <2>2, <2>3
<1>8. QueuedIn(queue') = QueuedIn(queue) \cup M
  <2>1. Requests(ring, queue) /\ BatchFrames(r) \cap QueuedIn(queue) = {}
    BY <1>4, <1>5, <1>6 DEF HdfInv, PipeInv, Taken
  <2>2. PICK p : p = Append(queue, r)
    OBVIOUS
  <2>3. QueueHas(p, QueuedIn(queue) \cup BatchFrames(r))
    BY <1>4, <1>6, <2>1, <2>2, RequestAppended
  <2> QED
    BY <1>1, <1>3, <1>4, <1>5, <2>2, <2>3 DEF QueueHas
<1>9. Taken' = Taken \cup M
  BY <1>1, <1>8 DEF Taken
<1>10. MemoryInv'
  <2>1. PICK v, s : v = [s EXCEPT !.data = <<>>, !.meta = <<>>] /\ st' = v /\ s = st
    BY <1>1
  <2>2. /\ DOMAIN v = StreamFields /\ v.data = <<>> /\ v.att = s.att /\ v.reader = s.reader
        /\ v.last = s.last /\ v.pend = s.pend /\ v.map = s.map
    BY <1>2, <2>1 DEF Stream, StreamFields
  <2>3. GenuineRows(ring, v.data) /\ FramesOf(v.data) = {}
    BY <2>2, NoRows
  <2>4. PICK W, U : W = Taken' /\ U = Taken
    OBVIOUS
  <2>5. /\ FramesOf(v.data) \cap W = {} /\ FramesOf(v.data) \cup W \subseteq FramesOf(s.data) \cup U
        /\ Stream(ring, s, U)
    BY <1>2, <1>5, <1>9, <2>1, <2>3, <2>4
  <2>6. Stream(ring, v, W)
    BY <2>2, <2>3, <2>5, FewerHeld
  <2> QED
    BY <1>1, <2>1, <2>4, <2>6 DEF MemoryInv
<1>11. PipeInv'
  BY <1>1, <1>6, <1>7, <1>8 DEF HdfInv, PipeInv, Taken
<1>12. RequestInv'
  <2>1. hand.kind \notin Ops /\ \A i \in DOMAIN queue : queue[i].kind \notin Ops
    BY <1>1 DEF HdfInv, RequestInv
  <2>2. r.kind \notin Ops
    BY <1>4 DEF Ops
  <2>3. \A i \in DOMAIN queue' : queue'[i].kind \notin Ops
    <3>1. Sequence(queue)
      BY DEF HdfInv, PipeInv, Requests
    <3>2. \A i \in DOMAIN queue' : \/ i \in DOMAIN queue /\ queue'[i] = queue[i]
                                   \/ queue'[i] = r
      BY <1>1, <1>3, <3>1, Appended
    <3> QED
      BY <2>1, <2>2, <3>2
  <2> QED
    BY <1>1, <2>1, <2>3 DEF RequestInv
<1>13. CutInv' /\ CloseInv'
  BY <1>1 DEF HdfInv, CutInv, CloseInv
<1>14. ProducerInv' /\ FilesInv' /\ CountInv'
  BY <1>1 DEF HdfInv, ProducerInv, FilesInv, CountInv
<1> QED
  BY <1>10, <1>11, <1>12, <1>13, <1>14 DEF HdfInv

\* Too many rows in memory: the oldest go.
LEMMA DropOldestKeeps ==
  ASSUME HdfInv, DropOldest
  PROVE  HdfInv'
<1>1. /\ phase = "run" /\ op = None /\ Len(st.data) > HardRows
      /\ UNCHANGED <<ring, gen, files, cur, queue, hand, bg, op, phase, owed, sock, held, pf>>
  BY DEF DropOldest, Normal, producer, disk
<1>2. RingsOf(ring) /\ Stream(ring, st, Taken)
  BY DEF HdfInv, ProducerInv, MemoryInv
<1>3. GenuineRows(ring, st.data) /\ FramesOf(st.data) \cap Taken = {}
  BY <1>2 DEF Stream
<1>4. PICK k \in 0 .. Len(st.data) : k = Len(st.data) - HardRows
  <2>1. Len(st.data) \in Nat /\ HardRows \in Nat
    BY <1>3, IsSequence, HdfAssumption DEF GenuineRows
  <2>2. Len(st.data) - HardRows \in 0 .. Len(st.data)
    BY <1>1, <2>1
  <2> QED
    BY <2>2
<1>5. PICK d, g, s : d = SubSeq(s.data, k + 1, Len(s.data)) /\ g = SubSeq(s.data, 1, k) /\ s = st
  OBVIOUS
<1>6. st' = [s EXCEPT !.data = d] /\ failed' = failed \cup FramesOf(g)
  BY <1>4, <1>5 DEF DropOldest
<1>7. /\ GenuineRows(ring, d) /\ FramesOf(g) \cup FramesOf(d) = FramesOf(st.data)
      /\ FramesOf(g) \cap FramesOf(d) = {}
  BY <1>3, <1>4, <1>5, CutRows
<1>8. Taken' = Taken \cup FramesOf(g)
  BY <1>1, <1>6 DEF Taken
<1>9. MemoryInv'
  <2>1. PICK v : v = [s EXCEPT !.data = d] /\ st' = v
    BY <1>6
  <2>2. /\ DOMAIN v = StreamFields /\ v.data = d /\ v.att = s.att /\ v.reader = s.reader
        /\ v.last = s.last /\ v.pend = s.pend /\ v.map = s.map
    BY <1>2, <1>5, <2>1 DEF Stream, StreamFields
  <2>3. PICK W, U : W = Taken' /\ U = Taken
    OBVIOUS
  <2>4. /\ FramesOf(v.data) \cap W = {} /\ FramesOf(v.data) \cup W \subseteq FramesOf(s.data) \cup U
        /\ Stream(ring, s, U) /\ GenuineRows(ring, v.data)
    BY <1>2, <1>3, <1>5, <1>7, <1>8, <2>2, <2>3
  <2>5. Stream(ring, v, W)
    BY <2>2, <2>4, FewerHeld
  <2> QED
    BY <1>1, <2>1, <2>3, <2>5 DEF MemoryInv
<1>10. PipeInv'
  BY <1>1, <1>3, <1>6, <1>7 DEF HdfInv, PipeInv, Taken
<1>11. ProducerInv' /\ FilesInv' /\ CountInv' /\ RequestInv'
  BY <1>1 DEF HdfInv, ProducerInv, FilesInv, CountInv, RequestInv
<1>12. CutInv' /\ CloseInv'
  BY <1>1 DEF HdfInv, CutInv, CloseInv
<1> QED
  BY <1>9, <1>10, <1>11, <1>12 DEF HdfInv

-----------------------------------------------------------------------------
(* The driver *)

\* The driver writes a frame, and may announce it.
LEMMA WriteFrameKeeps ==
  ASSUME HdfInv, WriteFrame
  PROVE  HdfInv'
<1>1. PICK c : /\ ring' = [ring EXCEPT ![gen] = Append(@, c)]
               /\ \/ sock' = Append(sock, [g |-> gen, n |-> Len(ring[gen]) + 1, c |-> c])
                  \/ sock' = sock
  BY DEF WriteFrame
<1>2. /\ phase = "run"
      /\ UNCHANGED <<gen, st, rows, pf, files, cur, queue, hand, bg, op, held, phase, owed, failed>>
  BY DEF WriteFrame, memory, disk, ghost
<1>3. RingsOf(ring) /\ gen \in 1 .. MaxRings /\ Sequence(ring[gen])
  BY DEF HdfInv, ProducerInv, RingsOf
<1>4. /\ Sequence(Append(ring[gen], c)) /\ Len(Append(ring[gen], c)) = Len(ring[gen]) + 1
      /\ \A i \in DOMAIN ring[gen] : Append(ring[gen], c)[i] = ring[gen][i]
      /\ Append(ring[gen], c)[Len(ring[gen]) + 1] = c
  BY <1>3, Appended
<1>5. /\ DOMAIN ring' = 1 .. MaxRings /\ ring'[gen] = Append(ring[gen], c)
      /\ \A g \in 1 .. MaxRings \ {gen} : ring'[g] = ring[g]
  BY <1>1, <1>3 DEF RingsOf
<1>6. \A g \in 1 .. MaxRings : Len(ring[g]) \in Nat /\ DOMAIN ring[g] = 1 .. Len(ring[g])
  BY <1>3, IsSequence DEF RingsOf
<1>7. RingsOf(ring')
  BY <1>3, <1>4, <1>5 DEF RingsOf
<1>8. Grown(ring, ring')
  <2> SUFFICES ASSUME NEW g \in 1 .. MaxRings
               PROVE  /\ Len(ring[g]) \in Nat /\ Len(ring'[g]) \in Nat /\ Len(ring[g]) <= Len(ring'[g])
                      /\ \A n \in 1 .. Len(ring[g]) : ring'[g][n] = ring[g][n]
    BY DEF Grown
  <2>1. CASE g = gen
    BY <1>4, <1>5, <1>6, <2>1
  <2>2. CASE g # gen
    BY <1>5, <1>6, <2>2
  <2> QED
    BY <2>1, <2>2
<1>9. PICK R, Q : R = ring /\ Q = ring'
  OBVIOUS
<1>10. Grown(R, Q) /\ RingsOf(R) /\ RingsOf(Q)
  BY <1>3, <1>7, <1>8, <1>9
<1>11. ASSUME NEW m, Message(R, m)
       PROVE  Message(Q, m)
  <2>1. m.g \in 1 .. MaxRings /\ m.n \in 1 .. Len(R[m.g]) /\ m.c = R[m.g][m.n]
    BY <1>11 DEF Message
  <2>2. m.n \in 1 .. Len(Q[m.g]) /\ Q[m.g][m.n] = R[m.g][m.n]
    BY <1>10, <2>1 DEF Grown
  <2> QED
    BY <2>1, <2>2 DEF Message
<1>12. ProducerInv'
  <2>1. Sequence(held') /\ \A i \in DOMAIN held' : Message(ring', held'[i])
    BY <1>2, <1>9, <1>11 DEF HdfInv, ProducerInv
  <2>2. Sequence(sock') /\ \A i \in DOMAIN sock' : Message(ring', sock'[i])
    <3>1. Sequence(sock) /\ \A i \in DOMAIN sock : Message(Q, sock[i])
      BY <1>9, <1>11 DEF HdfInv, ProducerInv
    <3>2. CASE sock' = sock
      BY <1>9, <3>1, <3>2
    <3>3. CASE sock' = Append(sock, [g |-> gen, n |-> Len(ring[gen]) + 1, c |-> c])
      <4>1. PICK m : m = [g |-> gen, n |-> Len(ring[gen]) + 1, c |-> c]
        OBVIOUS
      <4>2. Len(ring'[gen]) = Len(ring[gen]) + 1 /\ ring'[gen][Len(ring[gen]) + 1] = c
        BY <1>4, <1>5
      <4>3. m.g = gen /\ m.n = Len(ring[gen]) + 1 /\ m.c = c
        BY <4>1
      <4>4. Message(Q, m)
        BY <1>3, <1>6, <1>9, <4>2, <4>3 DEF Message
      <4>5. Sequence(sock') /\ \A i \in DOMAIN sock' : \/ i \in DOMAIN sock /\ sock'[i] = sock[i]
                                                       \/ sock'[i] = m
        BY <3>1, <3>3, <4>1, Appended
      <4> QED
        BY <1>9, <3>1, <4>4, <4>5
    <3> QED
      BY <1>1, <3>2, <3>3
  <2> QED
    BY <1>2, <1>3, <1>7, <2>1, <2>2 DEF ProducerInv
<1>13. \A s : GenuineRows(R, s) => GenuineRows(Q, s)
  BY <1>10, RowsOfGrownRings
<1>14. MemoryInv'
  <2>1. PICK s, U : s = st /\ U = Taken
    OBVIOUS
  <2>2. Stream(R, s, U)
    BY <1>9, <2>1 DEF HdfInv, MemoryInv
  <2>3. Attached(R, s) => Attached(Q, s)
    <3> SUFFICES ASSUME Attached(R, s) PROVE Attached(Q, s)
      OBVIOUS
    <3>1. s.reader \in 1 .. MaxRings /\ s.last \in 0 .. Len(R[s.reader]) /\ s.pend \subseteq 1 .. s.last
      BY DEF Attached
    <3>2. s.last \in 0 .. Len(Q[s.reader])
      BY <1>10, <3>1 DEF Grown
    <3>3. \A n \in DOMAIN s.map : n \in 1 .. Len(Q[s.reader]) /\ s.map[n] = Q[s.reader][n]
      BY <1>10, <3>1 DEF Grown, Attached
    <3> QED
      BY <3>1, <3>2, <3>3 DEF Attached
  <2>4. Stream(Q, s, U)
    BY <1>13, <2>2, <2>3 DEF Stream
  <2>5. Taken' = Taken
    BY <1>2 DEF Taken
  <2> QED
    BY <1>2, <1>9, <2>1, <2>4, <2>5 DEF MemoryInv
<1>15. PipeInv'
  <2>1. Requests(Q, queue)
    BY <1>9, <1>13 DEF HdfInv, PipeInv, Requests
  <2>2. hand.kind = "batch" => GenuineRows(Q, hand.data)
    BY <1>9, <1>13 DEF HdfInv, PipeInv
  <2> QED
    BY <1>2, <1>9, <2>1, <2>2 DEF HdfInv, PipeInv
<1>16. FilesInv'
  <2>1. SoundFiles(Q, files)
    BY <1>9, <1>13 DEF HdfInv, FilesInv, SoundFiles
  <2> QED
    BY <1>2, <1>9, <2>1 DEF HdfInv, FilesInv
<1>17. CountInv' /\ RequestInv'
  BY <1>2 DEF HdfInv, CountInv, RequestInv
<1>18. CutInv' /\ CloseInv'
  BY <1>2 DEF HdfInv, CutInv, CloseInv, InMemory
<1> QED
  BY <1>12, <1>14, <1>15, <1>16, <1>17, <1>18 DEF HdfInv

\* The driver goes on with another ring.
LEMMA DriverRestartKeeps ==
  ASSUME HdfInv, DriverRestart
  PROVE  HdfInv'
<1>1. UNCHANGED <<ring, sock, st, pf, files, cur, queue, hand, bg, op, held, phase, owed, failed>>
  BY DEF DriverRestart, memory, disk, ghost
<1>2. gen' \in 1 .. MaxRings
  BY HdfAssumption DEF HdfInv, ProducerInv, DriverRestart
<1>3. ProducerInv' /\ MemoryInv' /\ PipeInv' /\ FilesInv'
  BY <1>1, <1>2 DEF HdfInv, ProducerInv, MemoryInv, Taken, PipeInv, FilesInv
<1>4. CountInv' /\ RequestInv'
  BY <1>1 DEF HdfInv, CountInv, RequestInv
<1>5. CutInv' /\ CloseInv'
  BY <1>1 DEF HdfInv, CutInv, CloseInv, InMemory
<1> QED
  BY <1>3, <1>4, <1>5 DEF HdfInv

-----------------------------------------------------------------------------
(* Requests served by the main loop *)

\* An expectation is recorded for the open file and for its verdict.
LEMMA StreamsExpectKeeps ==
  ASSUME HdfInv, StreamsExpect
  PROVE  HdfInv'
<1>1. /\ phase = "run" /\ op = None /\ cur # 0
      /\ UNCHANGED <<ring, gen, sock, st, cur, queue, hand, bg, op, held, phase, owed, failed>>
  BY DEF StreamsExpect, Normal, producer, memory, ghost
<1>2. PICK c \in Contexts :
          \/ \E n \in ExpectedCounts :
                 /\ pf' = [pf EXCEPT !.expect[c] = n, !.missing = @ \ {c}]
                 /\ files' = [files EXCEPT ![cur].expect[c] = n]
          \/ pf' = [pf EXCEPT !.missing = @ \cup {c}] /\ files' = files
  BY Zenon DEF StreamsExpect
<1>3. CASE pf' = [pf EXCEPT !.missing = @ \cup {c}] /\ files' = files
  <2>1. DOMAIN pf' = DOMAIN pf /\ pf'.count = pf.count /\ pf'.expect = pf.expect
    BY <1>1, <1>3 DEF HdfInv, CountInv, PerFile
  <2>2. CountInv'
    BY <1>1, <1>3, <2>1, CountersKept
  <2>3. ProducerInv' /\ Stream(ring, st', Taken)
    BY <1>1 DEF HdfInv, ProducerInv, MemoryInv
  <2> QED
    BY <1>1, <1>3, <2>2, <2>3, MemoryStep
<1>4. CASE \E n \in ExpectedCounts :
               /\ pf' = [pf EXCEPT !.expect[c] = n, !.missing = @ \ {c}]
               /\ files' = [files EXCEPT ![cur].expect[c] = n]
  <2>1. PICK n \in ExpectedCounts :
               /\ pf' = [pf EXCEPT !.expect[c] = n, !.missing = @ \ {c}]
               /\ files' = [files EXCEPT ![cur].expect[c] = n]
    BY <1>4
  <2>2. /\ phase = "run" /\ op = None /\ cur # 0
        /\ UNCHANGED <<ring, gen, sock, st, cur, queue, hand, bg, op, held, phase, owed, failed>>
    BY <1>1
  <2>3. PerFile(pf) /\ Counted(pf, files[cur]) /\ ~files[cur].ended
    BY <2>2 DEF HdfInv, CountInv
  <2>4. cur \in DOMAIN files /\ FileRecord(files[cur]) /\ Sequence(files)
    BY <2>2 DEF HdfInv, FilesInv, SoundFiles
  <2>5. PICK h : h = [files[cur] EXCEPT !.expect[c] = n]
    OBVIOUS
  <2>6. /\ DOMAIN files' = DOMAIN files /\ files'[cur] = h
        /\ \A f \in DOMAIN files \ {cur} : files'[f] = files[f]
    BY <2>1, <2>4, <2>5
  <2>7. /\ FileRecord(h) /\ h.rows = files[cur].rows /\ h.ended = files[cur].ended
        /\ h.expect = [files[cur].expect EXCEPT ![c] = n]
    BY <2>4, <2>5 DEF FileRecord
  <2>8. /\ DOMAIN pf' = DOMAIN pf /\ pf'.count = pf.count /\ pf'.expect = [pf.expect EXCEPT ![c] = n]
    BY <2>1, <2>3 DEF PerFile
  <2>9. CountInv'
    <3>1. PerFile(pf')
      <4>1. n \in Nat
        BY HdfAssumption
      <4> QED
        BY <2>3, <2>8, <4>1 DEF PerFile
    <3>2. Counted(pf', h)
      BY <2>3, <2>7, <2>8 DEF Counted
    <3>3. ~h.ended
      BY <2>3, <2>7, Zenon
    <3> QED
      BY <2>2, <2>6, <3>1, <3>2, <3>3, Zenon DEF CountInv
  <2>10. \A f \in DOMAIN files : files'[f].rows = files[f].rows
    BY <2>6, <2>7
  <2>11. WrittenIn(files') = WrittenIn(files)
    BY <2>6, <2>10 DEF WrittenIn
  <2>12. FilesInv'
    <3>1. Sequence(files')
      <4>1. Len(files) \in Nat /\ DOMAIN files = 1 .. Len(files)
        BY <2>4, IsSequence
      <4>2. files' = [f \in 1 .. Len(files) |-> files'[f]]
        BY <2>1, <4>1
      <4> QED
        BY <4>1, <4>2, FunctionIsSequence
    <3>2. \A f \in DOMAIN files' : FileRecord(files'[f]) /\ GenuineRows(ring, files'[f].rows)
      BY <2>6, <2>7, <2>10 DEF HdfInv, FilesInv, SoundFiles
    <3>3. \A f, e \in DOMAIN files' : f # e => FramesOf(files'[f].rows) \cap FramesOf(files'[e].rows) = {}
      BY <2>6, <2>10 DEF HdfInv, FilesInv, SoundFiles
    <3>4. ASSUME NEW f \in DOMAIN files', files'[f].ended
          PROVE  Judged(files'[f])
      <4>1. CASE f = cur
        BY <2>3, <2>6, <2>7, <3>4, <4>1, Zenon
      <4>2. CASE f # cur
        <5>1. files'[f] = files[f] /\ f \in DOMAIN files
          BY <2>6, <4>2
        <5>2. files[f].ended
          BY <3>4, <5>1
        <5> QED
          BY <5>1, <5>2 DEF HdfInv, FilesInv, SoundFiles
      <4> QED
        BY <4>1, <4>2
    <3>5. SoundFiles(ring, files')
      BY <3>1, <3>2, <3>3, <3>4 DEF SoundFiles
    <3> QED
      BY <2>2, <2>6, <3>5 DEF HdfInv, FilesInv
  <2>13. ProducerInv' /\ RequestInv'
    BY <2>2 DEF HdfInv, ProducerInv, RequestInv
  <2>14. MemoryInv' /\ PipeInv'
    BY <2>2, <2>11 DEF HdfInv, MemoryInv, Taken, PipeInv
  <2>15. CutInv' /\ CloseInv'
    BY <2>2 DEF HdfInv, CutInv, CloseInv
  <2> QED
    BY <2>9, <2>12, <2>13, <2>14, <2>15 DEF HdfInv
<1> QED
  BY <1>2, <1>3, <1>4

\* The stream's state for a new file: no frame is taken.
LEMMA PerFileResetKeepsStream ==
  ASSUME NEW R, NEW U, NEW s, Stream(R, s, U)
  PROVE  Stream(R, ResetPerFile(s), U)
<1>1. PICK v : v = ResetPerFile(s)
  OBVIOUS
<1>2. /\ DOMAIN v = StreamFields /\ v.data = s.data /\ v.att = s.att /\ v.reader = s.reader
      /\ v.last = s.last /\ v.pend = {} /\ v.map = <<>>
  BY <1>1 DEF Stream, StreamFields, ResetPerFile
<1>3. DOMAIN v.map = {}
  BY <1>2, EmptyIsSequence
<1>4. Stream(R, v, U)
  BY <1>2, <1>3, FewerWait
<1> QED
  BY <1>1, <1>4

\* The state of a new file counts its rows: there are none.
LEMMA FreshCounts == PerFile(FreshFileState) /\ Counted(FreshFileState, NewFile) /\ ~NewFile.ended
<1>1. PerFile(FreshFileState)
  BY DEF PerFile, FreshFileState
<1>2. FreshFileState.expect = [c \in Contexts |-> 0] /\ FreshFileState.count = [c \in Contexts |-> 0]
  BY DEF FreshFileState
<1>3. NewFile.rows = <<>> /\ NewFile.expect = [c \in Contexts |-> 0]
  BY DEF NewFile
<1>4. ASSUME NEW c \in Contexts
      PROVE  CountOf(NewFile.rows, c) = 0
  <2>1. {i \in DOMAIN <<>> : <<>>[i].c = c} = {}
    BY EmptyIsSequence
  <2> QED
    BY <1>3, <2>1, FS_EmptySet DEF CountOf
<1>5. Counted(FreshFileState, NewFile)
  BY <1>2, <1>3, <1>4 DEF Counted
<1>6. ~NewFile.ended
  BY Zenon DEF NewFile
<1> QED
  BY <1>1, <1>5, <1>6

\* A file is opened, or cannot be.
LEMMA WritingStartKeeps ==
  ASSUME HdfInv, WritingStart
  PROVE  HdfInv'
<1>1. /\ phase = "run" /\ op = None /\ cur = 0
      /\ UNCHANGED <<ring, gen, sock, queue, hand, bg, op, held, phase, owed, failed>>
      /\ pf' = FreshFileState /\ st' = ResetPerFile(st)
  BY DEF WritingStart, StartWritingFile, Normal, producer, ghost
<1>2. SoundFiles(ring, files) /\ Stream(ring, st, Taken)
  BY DEF HdfInv, FilesInv, MemoryInv
<1>3. SoundFiles(ring, files') /\ WrittenIn(files') = WrittenIn(files) /\ cur' \in {0} \cup DOMAIN files'
  <2>1. CASE files' = Append(files, NewFile) /\ cur' = Len(files) + 1
    BY <1>2, <2>1, NewFileAppended
  <2>2. CASE files' = files /\ cur' = cur
    BY <1>1, <1>2, <2>2
  <2> QED
    BY <2>1, <2>2 DEF WritingStart, StartWritingFile
<1>4. cur' # 0 => files'[cur'] = NewFile
  <2>1. CASE files' = Append(files, NewFile) /\ cur' = Len(files) + 1
    BY <1>2, <2>1, NewFileAppended
  <2>2. CASE files' = files /\ cur' = cur
    BY <1>1, <2>2
  <2> QED
    BY <2>1, <2>2 DEF WritingStart, StartWritingFile
<1>5. CountInv'
  BY <1>1, <1>4, FreshCounts, Zenon DEF CountInv
<1>6. Taken' = Taken
  BY <1>1, <1>3 DEF Taken
<1>7. MemoryInv'
  <2>1. Stream(ring, ResetPerFile(st), Taken)
    BY <1>2, PerFileResetKeepsStream
  <2> QED
    BY <1>1, <1>6, <2>1 DEF MemoryInv
<1>8. ProducerInv' /\ RequestInv'
  BY <1>1 DEF HdfInv, ProducerInv, RequestInv
<1>9. PipeInv' /\ FilesInv'
  BY <1>1, <1>3 DEF HdfInv, PipeInv, FilesInv
<1>10. CutInv' /\ CloseInv'
  BY <1>1 DEF HdfInv, CutInv, CloseInv
<1> QED
  BY <1>5, <1>7, <1>8, <1>9, <1>10 DEF HdfInv

\* The request of an operation is put at the end of a queue without one.
LEMMA OperationAppended ==
  ASSUME NEW R, NEW q, Requests(R, q), NEW kind \in Ops,
         \A i \in DOMAIN q : q[i].kind \notin Ops,
         NEW p, p = Append(q, [kind |-> kind])
  PROVE  /\ Requests(R, p) /\ QueueHas(p, QueuedIn(q))
         /\ \A i \in DOMAIN p : p[i].kind \in Ops => i = Len(p)
<1>1. PICK r : r = [kind |-> kind]
  OBVIOUS
<1>2. r.kind = kind /\ r.kind # "batch"
  BY <1>1 DEF Ops
<1>3. BatchFrames(r) = {}
  BY <1>2, NoBatch
<1>4. Requests(R, p) /\ QueueHas(p, QueuedIn(q) \cup BatchFrames(r))
  BY <1>1, <1>2, <1>3, RequestAppended
<1>5. Sequence(q)
  BY DEF Requests
<1>6. Len(p) = Len(q) + 1 /\ \A i \in DOMAIN p : (i \in DOMAIN q /\ p[i] = q[i]) \/ i = Len(q) + 1
  BY <1>5, Appended
<1> QED
  BY <1>3, <1>4, <1>6 DEF QueueHas

\* An operation begins: what it owes is what is in its file or on its way.
LEMMA BeginFileOpKeeps ==
  ASSUME HdfInv, NEW kind \in Ops, BeginFileOp(kind)
  PROVE  HdfInv'
<1>1. /\ phase = "run" /\ op = None /\ cur # 0
      /\ UNCHANGED <<ring, gen, sock, st, pf, files, cur, hand, bg, held, phase, owed, failed>>
  BY DEF BeginFileOp, Normal, producer, memory, disk, ghost
<1>2. PICK b \in BOOLEAN : b = (Len(queue) < QueueMax)
  <2>1. Len(queue) \in Nat /\ QueueMax \in Nat
    BY HdfAssumption, IsSequence DEF HdfInv, PipeInv, Requests
  <2>2. (Len(queue) < QueueMax) \in BOOLEAN
    BY <2>1
  <2> QED
    BY <2>2, Zenon
<1>3. op' = [kind |-> kind, file |-> cur, submitted |-> b, done |-> FALSE, ok |-> TRUE, owed |-> Owed]
  BY <1>2, Zenon DEF BeginFileOp
<1>4. queue' = IF b THEN Append(queue, [kind |-> kind]) ELSE queue
  BY <1>2, Zenon DEF BeginFileOp
<1>5. /\ op'.kind = kind /\ op'.file = cur /\ op'.submitted = b /\ op'.done = FALSE /\ op'.owed = Owed
      /\ op'.ok = TRUE /\ DOMAIN op' = {"kind", "file", "submitted", "done", "ok", "owed"}
  BY <1>3
<1>6. Requests(ring, queue) /\ hand.kind \notin Ops /\ \A i \in DOMAIN queue : queue[i].kind \notin Ops
  BY <1>1 DEF HdfInv, PipeInv, RequestInv
<1>7. /\ Requests(ring, queue') /\ QueueHas(queue', QueuedIn(queue))
      /\ \A i \in DOMAIN queue' : queue'[i].kind \in Ops => i = Len(queue')
  <2>1. CASE b = TRUE
    <3>1. PICK p : p = Append(queue, [kind |-> kind])
      OBVIOUS
    <3>2. Requests(ring, p) /\ QueueHas(p, QueuedIn(queue)) /\ \A i \in DOMAIN p : p[i].kind \in Ops => i = Len(p)
      BY <1>6, <3>1, OperationAppended
    <3> QED
      BY <1>4, <2>1, <3>1, <3>2
  <2>2. CASE b = FALSE
    BY <1>4, <1>6, <2>2 DEF QueueHas
  <2> QED
    BY <2>1, <2>2
<1>8. QueuedIn(queue') = QueuedIn(queue)
  BY <1>7 DEF QueueHas
<1>9. RequestInv'
  <2>1. OpRecord(op')
    BY <1>5 DEF OpRecord
  <2>2. op'.submitted = FALSE => \A i \in DOMAIN queue' : queue'[i].kind \notin Ops
    BY <1>4, <1>5, <1>6
  <2>3. op' # None
    BY <1>5 DEF None, Ops
  <2> QED
    BY <1>1, <1>5, <1>6, <1>7, <2>1, <2>2, <2>3 DEF RequestInv
<1>10. CutInv'
  <2>1. Owed = FramesOf(files[cur].rows) \cup InMemory
    BY <1>1 DEF Owed
  <2>2. InMemory' = InMemory
    BY <1>1, <1>8 DEF InMemory
  <2>3. (FramesOf(files[cur].rows) \cup InMemory) \cap failed = {}
    <3>1. FramesOf(files[cur].rows) \subseteq WrittenIn(files)
      BY <1>1, FileIsWritten DEF HdfInv, FilesInv
    <3>2. FramesOf(st.data) \cap failed = {}
      BY DEF HdfInv, MemoryInv, Stream, Taken
    <3> QED
      BY <3>1, <3>2 DEF HdfInv, PipeInv, InMemory
  <2> QED
    BY <1>1, <1>5, <2>1, <2>2, <2>3 DEF CutInv
<1>11. ProducerInv' /\ FilesInv' /\ CountInv'
  BY <1>1 DEF HdfInv, ProducerInv, FilesInv, CountInv
<1>12. MemoryInv' /\ PipeInv'
  BY <1>1, <1>7, <1>8 DEF HdfInv, MemoryInv, Taken, PipeInv
<1>13. CloseInv'
  BY <1>1 DEF HdfInv, CloseInv
<1> QED
  BY <1>9, <1>10, <1>11, <1>12, <1>13 DEF HdfInv

\* Announcements are held back during an operation.
LEMMA HoldKeeps ==
  ASSUME HdfInv, HoldSocketMessages
  PROVE  HdfInv'
<1>1. /\ UNCHANGED <<ring, gen, st, pf, files, cur, queue, hand, bg, op, phase, owed, failed>>
      /\ sock # <<>> /\ sock' = Tail(sock)
      /\ held' = Append(IF Len(held) = HeldMax THEN Tail(held) ELSE held, Head(sock))
  BY DEF HoldSocketMessages, producer, memory, disk, ghost
<1>2. /\ Sequence(sock) /\ \A i \in DOMAIN sock : Message(ring, sock[i])
      /\ Sequence(held) /\ \A i \in DOMAIN held : Message(ring, held[i])
  BY DEF HdfInv, ProducerInv
<1>3. /\ Sequence(Tail(sock)) /\ Head(sock) = sock[1] /\ 1 \in DOMAIN sock
      /\ \A i \in DOMAIN Tail(sock) : i + 1 \in DOMAIN sock /\ Tail(sock)[i] = sock[i + 1]
  BY <1>1, <1>2, Tailed
<1>4. PICK h : h = IF Len(held) = HeldMax THEN Tail(held) ELSE held
  OBVIOUS
<1>5. Sequence(h) /\ \A i \in DOMAIN h : Message(ring, h[i])
  <2>1. CASE Len(held) = HeldMax
    <3>1. held # <<>>
      BY <2>1, HdfAssumption, EmptyIsSequence
    <3>2. /\ Sequence(Tail(held))
          /\ \A i \in DOMAIN Tail(held) : i + 1 \in DOMAIN held /\ Tail(held)[i] = held[i + 1]
      BY <1>2, <3>1, Tailed
    <3> QED
      BY <1>2, <1>4, <2>1, <3>2
  <2>2. CASE Len(held) # HeldMax
    BY <1>2, <1>4, <2>2
  <2> QED
    BY <2>1, <2>2
<1>6. PICK m : m = Head(sock) /\ Message(ring, m)
  BY <1>2, <1>3
<1>7. Sequence(held') /\ \A i \in DOMAIN held' : Message(ring, held'[i])
  <2>1. held' = Append(h, m)
    BY <1>1, <1>4, <1>6
  <2>2. Sequence(held') /\ \A i \in DOMAIN held' : (i \in DOMAIN h /\ held'[i] = h[i]) \/ held'[i] = m
    BY <1>5, <2>1, Appended
  <2> QED
    BY <1>5, <1>6, <2>2
<1>8. ProducerInv'
  BY <1>1, <1>2, <1>3, <1>7 DEF HdfInv, ProducerInv
<1>9. MemoryInv' /\ PipeInv' /\ FilesInv' /\ CountInv'
  BY <1>1 DEF HdfInv, MemoryInv, Taken, PipeInv, FilesInv, CountInv
<1>10. RequestInv'
  BY <1>1 DEF HdfInv, RequestInv
<1>11. CutInv' /\ CloseInv'
  BY <1>1 DEF HdfInv, CutInv, CloseInv, InMemory
<1> QED
  BY <1>8, <1>9, <1>10, <1>11 DEF HdfInv

\* The operation that found the queue full is submitted again.
LEMMA SubmitKeeps ==
  ASSUME HdfInv, SubmitFileOp
  PROVE  HdfInv'
<1>1. /\ phase = "run" /\ op # None /\ ~op.submitted /\ queue' = Append(queue, [kind |-> op.kind])
      /\ op' = [op EXCEPT !.submitted = TRUE]
      /\ UNCHANGED <<ring, gen, sock, st, pf, files, cur, hand, bg, held, phase, owed, failed>>
  BY DEF SubmitFileOp, producer, memory, disk, ghost
<1>2. OpRecord(op) /\ op.kind \in Ops
  BY <1>1 DEF HdfInv, RequestInv, OpRecord
<1>3. Requests(ring, queue) /\ hand.kind \notin Ops /\ \A i \in DOMAIN queue : queue[i].kind \notin Ops
  BY <1>1 DEF HdfInv, PipeInv, RequestInv
<1>4. /\ Requests(ring, queue') /\ QueueHas(queue', QueuedIn(queue))
      /\ \A i \in DOMAIN queue' : queue'[i].kind \in Ops => i = Len(queue')
  <2>1. PICK p, k : p = Append(queue, [kind |-> k]) /\ k = op.kind
    OBVIOUS
  <2>2. Requests(ring, p) /\ QueueHas(p, QueuedIn(queue)) /\ \A i \in DOMAIN p : p[i].kind \in Ops => i = Len(p)
    BY <1>2, <1>3, <2>1, OperationAppended
  <2> QED
    BY <1>1, <2>1, <2>2
<1>5. QueuedIn(queue') = QueuedIn(queue)
  BY <1>4 DEF QueueHas
<1>6. /\ op'.kind = op.kind /\ op'.file = op.file /\ op'.submitted = TRUE /\ op'.done = op.done
      /\ op'.owed = op.owed /\ op'.ok = op.ok /\ DOMAIN op' = {"kind", "file", "submitted", "done", "ok", "owed"}
  BY <1>1, <1>2 DEF OpRecord
<1>7. ~op.done
  BY <1>1 DEF HdfInv, RequestInv
<1>8. op' # None
  BY <1>2, <1>6 DEF None, Ops
<1>9. RequestInv'
  <2>1. OpRecord(op')
    BY <1>2, <1>6 DEF OpRecord
  <2>2. ~op'.done /\ op'.submitted
    BY <1>6, <1>7, Zenon
  <2> QED
    BY <1>1, <1>3, <1>4, <1>8, <2>1, <2>2 DEF RequestInv
<1>10. InMemory' = InMemory
  BY <1>1, <1>5 DEF InMemory
<1>11. CutInv'
  <2>1. /\ cur # 0 /\ op.file = cur
        /\ op.owed \ failed = FramesOf(files[cur].rows) \cup InMemory
    BY <1>1, <1>7 DEF HdfInv, CutInv
  <2> QED
    BY <1>1, <1>6, <1>7, <1>10, <2>1 DEF CutInv
<1>12. ProducerInv' /\ FilesInv' /\ CountInv'
  BY <1>1 DEF HdfInv, ProducerInv, FilesInv, CountInv
<1>13. MemoryInv' /\ PipeInv'
  BY <1>1, <1>4, <1>5 DEF HdfInv, MemoryInv, Taken, PipeInv
<1>14. CloseInv'
  BY <1>1 DEF HdfInv, CloseInv
<1> QED
  BY <1>9, <1>11, <1>12, <1>13, <1>14 DEF HdfInv

\* The result of an operation is reported.
LEMMA FinishKeeps ==
  ASSUME HdfInv, FinishFileOp
  PROVE  HdfInv'
<1>1. /\ phase = "run" /\ op # None /\ op' = None
      /\ UNCHANGED <<ring, gen, sock, st, pf, files, cur, queue, hand, bg, held, phase, owed, failed>>
  BY DEF FinishFileOp, producer, memory, disk, ghost
<1>2. op.done
  BY DEF FinishFileOp, HdfInv, CloseInv
<1>3. RequestInv'
  BY <1>1, <1>2 DEF HdfInv, RequestInv
<1>4. CutInv' /\ CloseInv'
  BY <1>1 DEF HdfInv, CutInv, CloseInv
<1>5. ProducerInv' /\ MemoryInv' /\ PipeInv' /\ FilesInv' /\ CountInv'
  BY <1>1 DEF HdfInv, ProducerInv, MemoryInv, Taken, PipeInv, FilesInv, CountInv
<1> QED
  BY <1>3, <1>4, <1>5 DEF HdfInv

-----------------------------------------------------------------------------
(* The background thread *)

\* The thread takes the next request.
LEMMA BgTakeKeeps ==
  ASSUME HdfInv, BgTake
  PROVE  HdfInv'
<1>1. /\ bg = "live" /\ phase = "run" /\ hand = None /\ queue # <<>>
      /\ hand' = Head(queue) /\ queue' = Tail(queue)
      /\ UNCHANGED <<ring, gen, sock, st, pf, files, cur, bg, op, held, phase, owed, failed>>
  BY DEF BgTake, producer, memory, disk, ghost
<1>2. Requests(ring, queue)
  BY DEF HdfInv, PipeInv
<1>3. /\ Requests(ring, queue') /\ QueuedIn(queue) = QueuedIn(queue') \cup BatchFrames(hand')
      /\ QueuedIn(queue') \cap BatchFrames(hand') = {}
      /\ hand'.kind = "batch" => GenuineRows(ring, hand'.data)
  BY <1>1, <1>2, RequestTaken
<1>4. BatchFrames(hand) = {}
  BY <1>1 DEF BatchFrames, None
<1>5. Taken' = Taken
  BY <1>1, <1>3, <1>4 DEF Taken
<1>6. MemoryInv'
  BY <1>1, <1>5 DEF HdfInv, MemoryInv
<1>7. PipeInv'
  BY <1>1, <1>3 DEF HdfInv, PipeInv
<1>8. RequestInv'
  <2>1. Sequence(queue)
    BY <1>2 DEF Requests
  <2>2. /\ Sequence(queue') /\ Len(queue) \in Nat \ {0} /\ Len(queue') = Len(queue) - 1
        /\ hand' = queue[1] /\ 1 \in DOMAIN queue
        /\ \A i \in DOMAIN queue' : i + 1 \in DOMAIN queue /\ i + 1 # 1 /\ queue'[i] = queue[i + 1]
    BY <1>1, <2>1, Tailed
  <2>3. \A i \in DOMAIN queue : queue[i].kind \in Ops => i = Len(queue)
    BY DEF HdfInv, RequestInv
  <2>4. hand'.kind \in Ops => queue' = <<>>
    <3> SUFFICES ASSUME hand'.kind \in Ops PROVE queue' = <<>>
      OBVIOUS
    <3>1. Len(queue') = 0
      BY <2>2, <2>3
    <3> QED
      BY <2>2, <3>1, EmptySeq DEF Sequence
  <2>5. ASSUME NEW i \in DOMAIN queue', queue'[i].kind \in Ops
        PROVE  i = Len(queue')
    <3>1. i + 1 = Len(queue)
      BY <2>2, <2>3, <2>5
    <3>2. i \in Nat
      BY <2>2, IsSequence
    <3> QED
      BY <2>2, <3>1, <3>2
  <2>6. op = None \/ ~op.submitted \/ op.done =>
            hand'.kind \notin Ops /\ \A i \in DOMAIN queue' : queue'[i].kind \notin Ops
    BY <2>2 DEF HdfInv, RequestInv
  <2>7. ~(op # None /\ op.done)
    BY <1>1 DEF HdfInv, RequestInv
  <2>8. op = None \/ OpRecord(op)
    BY DEF HdfInv, RequestInv
  <2> QED
    BY <1>1, <2>4, <2>5, <2>6, <2>7, <2>8 DEF RequestInv
<1>9. InMemory' = InMemory
  <2>1. InMemory' = FramesOf(st.data) \cup QueuedIn(queue') \cup BatchFrames(hand')
    BY <1>1 DEF InMemory
  <2> QED
    BY <1>3, <1>4, <2>1 DEF InMemory
<1>10. CutInv'
  BY <1>1, <1>9 DEF HdfInv, CutInv
<1>11. CloseInv'
  BY <1>1 DEF HdfInv, CloseInv
<1>12. ProducerInv' /\ FilesInv' /\ CountInv'
  BY <1>1 DEF HdfInv, ProducerInv, FilesInv, CountInv
<1> QED
  BY <1>6, <1>7, <1>8, <1>10, <1>11, <1>12 DEF HdfInv

\* A file is marked, and its rows stay as they are.
LEMMA FileTouched ==
  ASSUME NEW R, NEW F, SoundFiles(R, F), NEW k \in DOMAIN F, NEW h, FileRecord(h), h.rows = F[k].rows, ~h.ended,
         NEW G, Replaced(F, k, h, G)
  PROVE  /\ SoundFiles(R, G) /\ WrittenIn(G) = WrittenIn(F)
         /\ DOMAIN G = DOMAIN F /\ G[k] = h /\ \A f \in DOMAIN F : G[f].rows = F[f].rows
<1>1. Sequence(F) /\ Len(F) \in Nat /\ DOMAIN F = 1 .. Len(F)
  BY IsSequence DEF SoundFiles
<1>2. DOMAIN G = DOMAIN F /\ G[k] = h /\ \A f \in DOMAIN F \ {k} : G[f] = F[f]
  BY DEF Replaced
<1>3. \A f \in DOMAIN F : G[f].rows = F[f].rows
  BY <1>2
<1>4. Sequence(G)
  <2>1. G = [i \in 1 .. Len(F) |-> G[i]]
    BY <1>1 DEF Replaced
  <2> QED
    BY <1>1, <2>1, FunctionIsSequence
<1>5. \A f \in DOMAIN G : FileRecord(G[f]) /\ GenuineRows(R, G[f].rows)
  BY <1>2, <1>3 DEF SoundFiles
<1>6. \A f, e \in DOMAIN G : f # e => FramesOf(G[f].rows) \cap FramesOf(G[e].rows) = {}
  BY <1>2, <1>3 DEF SoundFiles
<1>7. ASSUME NEW f \in DOMAIN G, G[f].ended
      PROVE  Judged(G[f])
  <2>1. f # k
    BY <1>2, <1>7
  <2>2. G[f] = F[f] /\ f \in DOMAIN F
    BY <1>2, <2>1
  <2>3. F[f].ended
    BY <1>7, <2>2
  <2> QED
    BY <2>2, <2>3 DEF SoundFiles
<1>8. SoundFiles(R, G)
  BY <1>4, <1>5, <1>6, <1>7 DEF SoundFiles
<1>9. WrittenIn(G) = WrittenIn(F)
  BY <1>2, <1>3 DEF WrittenIn
<1> QED
  BY <1>2, <1>3, <1>8, <1>9

\* The memory is emptied into what is taken, or given up.
LEMMA EmptiedKeepsStream ==
  ASSUME NEW R, NEW U, NEW s, Stream(R, s, U), NEW W, W \subseteq FramesOf(s.data) \cup U,
         NEW v, v = [s EXCEPT !.data = <<>>, !.meta = <<>>]
  PROVE  Stream(R, v, W)
<1>1. /\ DOMAIN v = StreamFields /\ v.data = <<>> /\ v.att = s.att /\ v.reader = s.reader
      /\ v.last = s.last /\ v.pend = s.pend /\ v.map = s.map
  BY DEF Stream, StreamFields
<1>2. GenuineRows(R, v.data) /\ FramesOf(v.data) = {}
  BY <1>1, NoRows
<1>3. FramesOf(v.data) \cap W = {} /\ FramesOf(v.data) \cup W \subseteq FramesOf(s.data) \cup U
  BY <1>2
<1> QED
  BY <1>1, <1>2, <1>3, FewerHeld

\* Less is taken than before.
LEMMA LessTaken ==
  ASSUME NEW R, NEW U, NEW s, Stream(R, s, U), NEW W, W \subseteq U
  PROVE  Stream(R, s, W)
<1>1. FramesOf(s.data) \cap W = {}
  BY DEF Stream
<1> QED
  BY <1>1 DEF Stream

\* Frames that are written or fail are no longer owed by the memory.
LEMMA CutMoves ==
  ASSUME NEW O, NEW F, NEW F2, NEW X, NEW X2, NEW N, NEW M,
         O \ X = F \cup N \cup M, F2 \cup X2 = F \cup X \cup N, F \subseteq F2, X \subseteq X2, F2 \cap X2 = {},
         M \cap (F \cup X \cup N) = {}
  PROVE  O \ X2 = F2 \cup M
<1>1. ASSUME NEW x, x \in O, x \notin X2
      PROVE  x \in F2 \cup M
  <2>1. x \in F \cup N \cup M
    BY <1>1
  <2> QED
    BY <1>1, <2>1
<1>2. ASSUME NEW x \in F2
      PROVE  x \in O \ X2
  <2>1. x \notin X2 /\ x \notin X /\ x \in F \cup X \cup N
    OBVIOUS
  <2>2. x \in F \cup N \cup M
    BY <2>1
  <2>3. x \in O \ X
    BY <2>2
  <2> QED
    BY <2>1, <2>3
<1>3. ASSUME NEW x \in M
      PROVE  x \in O \ X2
  <2>1. x \in O \ X
    OBVIOUS
  <2>2. x \notin F2 \cup X2
    OBVIOUS
  <2> QED
    BY <2>1, <2>2
<1> QED
  BY <1>1, <1>2, <1>3

\* What draining the memory makes of a file: its frames are written or have
\* failed, unless the drain raised before it came to them.
LEMMA DrainOutcome ==
  ASSUME HdfInv, NEW w, Writing(ring, w), FramesOf(st.data) \cap (FramesOf(w.file.rows) \cup w.failed) = {},
         NEW d \in Drains(w), NEW u, u = d.w, NEW N, N = IF d.kept THEN {} ELSE FramesOf(st.data)
  PROVE  /\ Writing(ring, u) /\ Adds(w, u, N) /\ d.kept \in BOOLEAN /\ d.raised \in BOOLEAN
         /\ d.kept => d.raised /\ u = w
<1>1. RingsOf(ring) /\ GenuineRows(ring, st.data)
  BY DEF HdfInv, ProducerInv, MemoryInv, Stream
<1>2a. PICK b : b = Batch
  OBVIOUS
<1>2. b = Batch /\ b.data = st.data
  BY <1>2a DEF Batch
<1>3. PICK y, z : y = WriteBatch(w, b) /\ z = Dropped(w, b)
  OBVIOUS
<1>4. GenuineRows(ring, b.data) /\ FramesOf(b.data) \cap (FramesOf(w.file.rows) \cup w.failed) = {}
  BY <1>1, <1>2
<1>5. Writing(ring, y) /\ Adds(w, y, FramesOf(st.data))
  BY <1>1, <1>2, <1>3, <1>4, BatchIsWritten
<1>6. Writing(ring, z) /\ Adds(w, z, FramesOf(st.data))
  BY <1>2, <1>3, <1>4, BatchFails
<1>7. Adds(w, w, {})
  BY DEF Adds
<1>8. \/ d = [w |-> y, raised |-> FALSE, kept |-> FALSE, cost |-> 0]
      \/ d = [w |-> z, raised |-> FALSE, kept |-> FALSE, cost |-> 1]
      \/ d = [w |-> y, raised |-> TRUE, kept |-> FALSE, cost |-> 1]
      \/ d = [w |-> w, raised |-> TRUE, kept |-> TRUE, cost |-> 1]
  BY <1>2, <1>3, Zenon DEF Drains
<1>9. CASE d = [w |-> w, raised |-> TRUE, kept |-> TRUE, cost |-> 1]
  <2>1. u = w /\ d.kept = TRUE /\ d.raised = TRUE /\ N = {}
    BY <1>9
  <2> QED
    BY <1>7, <2>1
<1>10. CASE d # [w |-> w, raised |-> TRUE, kept |-> TRUE, cost |-> 1]
  <2>1. (u = y \/ u = z) /\ d.kept = FALSE /\ d.raised \in BOOLEAN
    <3>1. CASE d = [w |-> y, raised |-> FALSE, kept |-> FALSE, cost |-> 0]
      BY <3>1
    <3>2. CASE d = [w |-> z, raised |-> FALSE, kept |-> FALSE, cost |-> 1]
      BY <3>2
    <3>3. CASE d = [w |-> y, raised |-> TRUE, kept |-> FALSE, cost |-> 1]
      BY <3>3
    <3> QED
      BY <1>8, <1>10, <3>1, <3>2, <3>3
  <2>2. N = FramesOf(st.data)
    BY <2>1
  <2> QED
    BY <1>5, <1>6, <2>1, <2>2
<1> QED
  BY <1>9, <1>10

\* The open file is drained and judged.
LEMMA DrainedAndJudged ==
  ASSUME HdfInv, cur # 0, NEW d \in Drains(Open), NEW N, N = IF d.kept THEN {} ELSE FramesOf(st.data),
         NEW x, x = d \/ x \in Verdicts(d.w), NEW v, v = x.w
  PROVE  /\ Writing(ring, v) /\ Adds(Open, v, N) /\ N \cap (WrittenIn(files) \cup failed) = {}
         /\ d.kept \in BOOLEAN /\ d.raised \in BOOLEAN /\ (d.kept => d.raised)
         /\ x \in Verdicts(d.w) => Judged(v.file)
<1>1. PICK o, S : o = Open /\ S = FramesOf(st.data)
  OBVIOUS
<1>2. Writing(ring, o) /\ o.file = files[cur] /\ o.failed = failed /\ cur \in DOMAIN files
  BY <1>1, OpenIsWriting
<1>3. S \cap (WrittenIn(files) \cup failed) = {}
  BY <1>1 DEF HdfInv, MemoryInv, Stream, Taken
<1>4. FramesOf(o.file.rows) \subseteq WrittenIn(files)
  BY <1>2, FileIsWritten
<1>5. FramesOf(st.data) \cap (FramesOf(o.file.rows) \cup o.failed) = {}
  BY <1>1, <1>2, <1>3, <1>4
<1>6. PICK u : u = d.w
  OBVIOUS
<1>7. /\ Writing(ring, u) /\ Adds(o, u, N) /\ d.kept \in BOOLEAN /\ d.raised \in BOOLEAN
      /\ (d.kept => d.raised)
  BY <1>1, <1>2, <1>5, <1>6, DrainOutcome
<1>8. N \cap (WrittenIn(files) \cup failed) = {}
  BY <1>1, <1>3
<1>9. CASE x \in Verdicts(d.w)
  <2>1. x \in Verdicts(u)
    BY <1>6, <1>9
  <2>2. Writing(ring, v) /\ v.file.rows = u.file.rows /\ v.failed = u.failed /\ Judged(v.file)
    BY <1>7, <2>1, VerdictIsGiven
  <2>3. Adds(o, v, N)
    BY <1>7, <2>2 DEF Adds
  <2> QED
    BY <1>1, <1>7, <1>8, <2>2, <2>3
<1>10. CASE x \notin Verdicts(d.w)
  <2>1. v = u
    BY <1>6, <1>10
  <2> QED
    BY <1>1, <1>7, <1>8, <1>10, <2>1
<1> QED
  BY <1>9, <1>10

\* A batch is put aside: its frames are in the open file, or have failed.
LEMMA BatchPutAside ==
  ASSUME HdfInv, phase \in {"run", "closing"}, cur # 0, hand # None, hand.kind = "batch", hand' = None,
         UNCHANGED <<ring, gen, sock, st, cur, queue, bg, op, held, phase, owed>>,
         SoundFiles(ring, files'), DOMAIN files' = DOMAIN files, CountInv',
         Placed(files, failed, files', failed', BatchFrames(hand)),
         FramesOf(files[cur].rows) \subseteq FramesOf(files'[cur].rows),
         FramesOf(files'[cur].rows) \cup failed' = FramesOf(files[cur].rows) \cup failed \cup BatchFrames(hand)
  PROVE  HdfInv'
<1>1. PICK N, M, A, B : /\ N = BatchFrames(hand) /\ M = FramesOf(st.data) \cup QueuedIn(queue)
                        /\ A = FramesOf(files[cur].rows) /\ B = FramesOf(files'[cur].rows)
  OBVIOUS
<1>2. hand'.kind = "none" /\ BatchFrames(hand') = {}
  BY DEF None, BatchFrames
<1>3. /\ WrittenIn(files') \cup failed' = WrittenIn(files) \cup failed \cup N
      /\ WrittenIn(files) \subseteq WrittenIn(files') /\ failed \subseteq failed'
      /\ WrittenIn(files') \cap failed' = {}
  BY <1>1 DEF Placed
<1>4. /\ QueuedIn(queue) \cap (N \cup WrittenIn(files) \cup failed) = {}
      /\ N \cap (WrittenIn(files) \cup failed) = {}
      /\ FramesOf(st.data) \cap (N \cup WrittenIn(files) \cup failed) = {}
  BY <1>1 DEF HdfInv, PipeInv, MemoryInv, Stream, Taken
<1>5. MemoryInv'
  <2>1. Taken' = Taken
    BY <1>1, <1>2, <1>3 DEF Taken
  <2> QED
    BY <2>1 DEF HdfInv, MemoryInv
<1>6. PipeInv'
  <2>1. QueuedIn(queue) \cap (WrittenIn(files') \cup failed') = {}
    BY <1>3, <1>4
  <2>2. Requests(ring, queue)
    BY DEF HdfInv, PipeInv
  <2> QED
    BY <1>2, <1>3, <2>1, <2>2 DEF PipeInv
<1>7. ProducerInv' /\ FilesInv'
  BY DEF HdfInv, ProducerInv, FilesInv
<1>8. ~(op # None /\ op.done) /\ hand.kind \notin Ops /\ hand'.kind \notin Ops
  BY <1>2 DEF HdfInv, RequestInv, Ops
<1>9. RequestInv'
  <2>1. /\ op = None \/ OpRecord(op)
        /\ op = None \/ ~op.submitted => \A i \in DOMAIN queue : queue[i].kind \notin Ops
        /\ \A i \in DOMAIN queue : queue[i].kind \in Ops => i = Len(queue)
    BY DEF HdfInv, RequestInv
  <2> QED
    BY <1>8, <2>1 DEF RequestInv
<1>10. InMemory = M \cup N /\ InMemory' = M
  BY <1>1, <1>2 DEF InMemory
<1>11. cur \in DOMAIN files /\ A \subseteq WrittenIn(files) /\ B \subseteq WrittenIn(files')
  BY <1>1, FileIsWritten DEF HdfInv, FilesInv
<1>12. CutInv'
  <2> SUFFICES ASSUME op # None, ~op.done
               PROVE  op.file = cur /\ op.owed \ failed' = B \cup M
    BY <1>1, <1>8, <1>10 DEF CutInv
  <2>1. op.file = cur /\ op.owed \ failed = A \cup InMemory
    BY <1>1 DEF HdfInv, CutInv
  <2>2. op.owed \ failed = A \cup N \cup M
    BY <1>10, <2>1
  <2>3. B \cup failed' = A \cup failed \cup N /\ A \subseteq B /\ B \cap failed' = {}
    BY <1>1, <1>3, <1>11
  <2>4. M \cap (A \cup failed \cup N) = {}
    BY <1>1, <1>4, <1>11
  <2>5. op.owed \ failed' = B \cup M
    BY <1>3, <2>2, <2>3, <2>4, CutMoves
  <2> QED
    BY <2>1, <2>5
<1>13. CloseInv'
  <2>1. /\ phase = "run" => bg = "live"
        /\ phase = "closing" => owed \ failed \subseteq WrittenIn(files) \cup InMemory
    BY DEF HdfInv, CloseInv
  <2>2. phase = "closing" => owed \ failed' \subseteq WrittenIn(files') \cup M
    BY <1>3, <1>10, <2>1
  <2>3. phase # "closed"
    OBVIOUS
  <2> QED
    BY <1>10, <2>1, <2>2, <2>3 DEF CloseInv
<1> QED
  BY <1>5, <1>6, <1>7, <1>9, <1>12, <1>13 DEF HdfInv

\* The open file is replaced by what a write made of it.
LEMMA FileWritten ==
  ASSUME HdfInv, cur # 0, NEW v, NEW N, Writing(ring, v), Adds(Open, v, N), N \cap (WrittenIn(files) \cup failed) = {},
         NEW h, h = v.file \/ (h = Ended(v.file) /\ Judged(v.file)), NEW G, Replaced(files, cur, h, G)
  PROVE  /\ SoundFiles(ring, G) /\ DOMAIN G = DOMAIN files /\ G[cur] = h
         /\ \A f \in DOMAIN files \ {cur} : G[f] = files[f]
         /\ h.rows = v.file.rows /\ Placed(files, failed, G, v.failed, N)
<1>1. PICK o : o = Open
  OBVIOUS
<1>2. o.file = files[cur] /\ o.failed = failed /\ cur \in DOMAIN files
  BY <1>1, OpenIsWriting
<1>3. SoundFiles(ring, files) /\ WrittenIn(files) \cap failed = {}
  BY DEF HdfInv, FilesInv, PipeInv
<1>4. FileRecord(h) /\ h.rows = v.file.rows /\ (h.ended => Judged(h))
  <2>1. CASE h = v.file
    BY <2>1, Zenon DEF Writing
  <2>2. CASE h = Ended(v.file) /\ Judged(v.file)
    <3>1. FileRecord(h) /\ h.rows = v.file.rows /\ h.expect = v.file.expect
      BY <2>2 DEF Ended, Writing, FileRecord
    <3>2. h.ok = v.file.ok /\ h.unsaved = v.file.unsaved
      BY <2>2 DEF Ended, Writing, FileRecord
    <3>3. Judged(h)
      BY <2>2, <3>1, <3>2 DEF Judged
    <3> QED
      BY <3>1, <3>3
  <2> QED
    BY <2>1, <2>2
<1>5. /\ SoundFiles(ring, G) /\ DOMAIN G = DOMAIN files /\ G[cur] = h /\ \A f \in DOMAIN files \ {cur} : G[f] = files[f]
      /\ Placed(files, failed, G, v.failed, N)
  BY <1>1, <1>2, <1>3, <1>4, OneFileReplaced
<1> QED
  BY <1>4, <1>5

\* The frames of the batch in hand are added to the open file, or have failed.
LEMMA BatchAdded ==
  ASSUME HdfInv, phase \in {"run", "closing"}, cur # 0, hand # None, hand.kind = "batch", hand' = None,
         UNCHANGED <<ring, gen, sock, st, cur, queue, bg, op, held, phase, owed>>,
         NEW v, Writing(ring, v), Adds(Open, v, BatchFrames(hand)),
         pf' = v.pf, files' = [files EXCEPT ![cur] = v.file], failed' = v.failed
  PROVE  HdfInv'
<1>1. PICK h, N : h = v.file /\ N = BatchFrames(hand)
  OBVIOUS
<1>2. PICK G : Replaced(files, cur, h, G) /\ files' = G
  BY <1>1 DEF Replaced
<1>3. N \cap (WrittenIn(files) \cup failed) = {}
  BY <1>1 DEF HdfInv, PipeInv
<1>4. Adds(Open, v, N) /\ Open.file = files[cur] /\ Open.failed = failed
  BY <1>1, OpenIsWriting
<1>5. SoundFiles(ring, G) /\ DOMAIN G = DOMAIN files /\ G[cur] = h /\ Placed(files, failed, G, v.failed, N)
  BY <1>1, <1>2, <1>3, <1>4, FileWritten
<1>6. CountInv'
  <2>1. PerFile(pf') /\ Counted(pf', files'[cur']) /\ ~files'[cur'].ended
    BY <1>1, <1>2, <1>5 DEF Writing
  <2> QED
    BY <2>1, Zenon DEF CountInv
<1>7. /\ FramesOf(files[cur].rows) \subseteq FramesOf(files'[cur].rows)
      /\ FramesOf(files'[cur].rows) \cup failed' = FramesOf(files[cur].rows) \cup failed \cup BatchFrames(hand)
  BY <1>1, <1>2, <1>4, <1>5 DEF Adds
<1>8. Placed(files, failed, files', failed', BatchFrames(hand)) /\ SoundFiles(ring, files') /\ DOMAIN files' = DOMAIN files
  BY <1>1, <1>2, <1>5
<1> QED
  BY <1>6, <1>7, <1>8, BatchPutAside

\* A batch is written, or discarded when there is no file.
LEMMA BgWriteKeeps ==
  ASSUME HdfInv, BgWrite
  PROVE  HdfInv'
<1>1. /\ phase \in {"run", "closing"} /\ hand # None /\ hand.kind = "batch" /\ hand' = None
      /\ UNCHANGED <<ring, gen, sock, st, queue, bg, op, held, phase, owed>>
  BY DEF BgWrite, Working, producer, memory
<1>2. CASE cur = 0
  <2>1. UNCHANGED <<pf, files, cur, failed>>
    BY <1>2 DEF BgWrite, disk
  <2>2. op = None
    BY <1>1, <1>2 DEF HdfInv, CutInv, RequestInv
  <2>3. hand'.kind = "none" /\ BatchFrames(hand') = {}
    BY <1>1 DEF None, BatchFrames
  <2>4. MemoryInv'
    <3>1. Taken' = QueuedIn(queue) \cup WrittenIn(files) \cup failed
      BY <1>1, <2>1, <2>3 DEF Taken
    <3>2. Taken' \subseteq Taken
      BY <3>1 DEF Taken
    <3>3. Stream(ring, st, Taken)
      BY DEF HdfInv, MemoryInv
    <3>4. PICK W : W = Taken'
      OBVIOUS
    <3>5. Stream(ring, st, W)
      BY <3>2, <3>3, <3>4, LessTaken
    <3> QED
      BY <1>1, <3>4, <3>5 DEF MemoryInv
  <2>5. PipeInv'
    BY <1>1, <2>1, <2>3 DEF HdfInv, PipeInv
  <2>6. ProducerInv' /\ FilesInv' /\ CountInv'
    BY <1>1, <2>1 DEF HdfInv, ProducerInv, FilesInv, CountInv
  <2>7. RequestInv'
    <3>1. hand'.kind \notin Ops
      BY <2>3 DEF Ops
    <3> QED
      BY <1>1, <2>2, <3>1 DEF HdfInv, RequestInv
  <2>8. CutInv'
    BY <1>1, <2>2 DEF CutInv
  <2>9. CloseInv'
    BY <1>1, <1>2, <2>1 DEF HdfInv, CloseInv
  <2> QED
    BY <2>4, <2>5, <2>6, <2>7, <2>8, <2>9 DEF HdfInv
<1>3. CASE cur # 0
  <2>1. PICK w, v : w = Open /\ v = WriteBatch(w, hand)
    OBVIOUS
  <2>2. pf' = v.pf /\ files' = [files EXCEPT ![cur] = v.file] /\ failed' = v.failed /\ cur' = cur
    BY <1>3, <2>1 DEF BgWrite
  <2>3. Writing(ring, w) /\ w.file = files[cur] /\ w.failed = failed /\ cur \in DOMAIN files
    BY <1>3, <2>1, OpenIsWriting
  <2>4. BatchFrames(hand) = FramesOf(hand.data)
    BY <1>1 DEF BatchFrames
  <2>5. RingsOf(ring) /\ GenuineRows(ring, hand.data)
    BY <1>1 DEF HdfInv, ProducerInv, PipeInv
  <2>6. FramesOf(hand.data) \cap (WrittenIn(files) \cup failed) = {}
    BY <2>4 DEF HdfInv, PipeInv
  <2>7. FramesOf(hand.data) \cap (FramesOf(w.file.rows) \cup w.failed) = {}
    BY <2>3, <2>6, FileIsWritten
  <2>8. Writing(ring, v) /\ Adds(w, v, FramesOf(hand.data))
    BY <2>1, <2>3, <2>5, <2>7, BatchIsWritten
  <2> QED
    BY <1>1, <1>3, <2>1, <2>2, <2>4, <2>8, BatchAdded
<1> QED
  BY <1>2, <1>3

\* The write of a batch raises: its frames have failed.
LEMMA BgWriteRaisesKeeps ==
  ASSUME HdfInv, BgWriteRaises
  PROVE  HdfInv'
<1>1. /\ phase \in {"run", "closing"} /\ hand # None /\ hand.kind = "batch" /\ hand' = None /\ cur # 0
      /\ UNCHANGED <<ring, gen, sock, st, queue, bg, op, held, phase, owed>>
  BY DEF BgWriteRaises, Working, producer, memory
<1>2. PICK w : w = Open
  OBVIOUS
<1>3. PICK v \in {Raised(w, hand), Dropped(w, hand)} :
          pf' = v.pf /\ files' = [files EXCEPT ![cur] = v.file] /\ failed' = v.failed /\ cur' = cur
  BY <1>2, Zenon DEF BgWriteRaises
<1>4. Writing(ring, w) /\ w.file = files[cur] /\ w.failed = failed /\ cur \in DOMAIN files
  BY <1>1, <1>2, OpenIsWriting
<1>5. BatchFrames(hand) = FramesOf(hand.data)
  BY <1>1 DEF BatchFrames
<1>6. FramesOf(hand.data) \cap (WrittenIn(files) \cup failed) = {}
  BY <1>5 DEF HdfInv, PipeInv
<1>7. FramesOf(hand.data) \cap (FramesOf(w.file.rows) \cup w.failed) = {}
  BY <1>4, <1>6, FileIsWritten
<1>8. Writing(ring, v) /\ Adds(w, v, FramesOf(hand.data))
  BY <1>4, <1>7, BatchFails
<1> QED
  BY <1>1, <1>2, <1>3, <1>5, <1>8, BatchAdded

\* When the thread runs a file operation everything queued before it has been
\* written, and what is left of what the operation owes is in memory.
LEMMA OperationRuns ==
  ASSUME HdfInv, phase \in {"run", "closing"}, hand # None, hand.kind \in Ops
  PROVE  /\ op # None /\ OpRecord(op) /\ op.submitted /\ ~op.done /\ queue = <<>> /\ QueuedIn(queue) = {}
         /\ cur # 0 /\ cur \in DOMAIN files /\ op.file = cur
         /\ InMemory = FramesOf(st.data)
         /\ op.owed \ failed = FramesOf(files[cur].rows) \cup FramesOf(st.data)
<1>1. op # None /\ op.submitted /\ ~op.done /\ queue = <<>>
  BY DEF HdfInv, RequestInv
<1>2. OpRecord(op)
  BY <1>1 DEF HdfInv, RequestInv
<1>3. QueuedIn(queue) = {}
  BY <1>1, NothingQueued
<1>4. BatchFrames(hand) = {}
  BY NoBatch DEF Ops
<1>5. InMemory = FramesOf(st.data)
  BY <1>3, <1>4 DEF InMemory
<1>6. cur # 0 /\ op.file = cur /\ op.owed \ failed = FramesOf(files[cur].rows) \cup InMemory
  BY <1>1 DEF HdfInv, CutInv
<1>7. cur \in DOMAIN files
  BY <1>6 DEF HdfInv, FilesInv
<1> QED
  BY <1>1, <1>2, <1>3, <1>5, <1>6, <1>7

\* A file operation ends, with or without success.
LEMMA OperationEnds ==
  ASSUME HdfInv, phase \in {"run", "closing"}, hand # None, hand.kind \in Ops, hand' = None,
         UNCHANGED <<ring, gen, sock, queue, bg, held, phase>>,
         SoundFiles(ring, files'), cur' \in {0} \cup DOMAIN files', WrittenIn(files') \cap failed' = {},
         CountInv', CloseInv', Stream(ring, st', WrittenIn(files') \cup failed'),
         op' # None, OpRecord(op'), op'.done, op'.submitted,
         op'.ok => /\ op'.file \in DOMAIN files' /\ op'.file # cur'
                   /\ FramesOf(files'[op'.file].rows) = op'.owed \ failed'
  PROVE  HdfInv'
<1>1. queue = <<>> /\ QueuedIn(queue) = {}
  BY OperationRuns
<1>2. hand'.kind = "none" /\ BatchFrames(hand') = {}
  BY DEF None, BatchFrames
<1>3. Taken' = WrittenIn(files') \cup failed'
  BY <1>1, <1>2 DEF Taken
<1>4. MemoryInv'
  BY <1>3 DEF MemoryInv
<1>5. PipeInv'
  <2>1. Requests(ring, queue)
    BY DEF HdfInv, PipeInv
  <2>2. (QueuedIn(queue))' = {}
    BY <1>1
  <2> QED
    BY <1>2, <2>1, <2>2 DEF PipeInv
<1>6. ProducerInv' /\ FilesInv'
  BY DEF HdfInv, ProducerInv, FilesInv
<1>7. RequestInv'
  <2>1. hand'.kind \notin Ops
    BY <1>2 DEF Ops
  <2>2. DOMAIN queue = {}
    BY <1>1, EmptyIsSequence
  <2> QED
    BY <1>1, <2>1, <2>2 DEF RequestInv
<1>8. CutInv'
  BY DEF CutInv
<1> QED
  BY <1>4, <1>5, <1>6, <1>7, <1>8 DEF HdfInv

\* The close owes nothing that the end of a file did not write.
LEMMA CloseOwesNoMore ==
  ASSUME HdfInv, phase \in {"run", "closing"}, hand # None, hand.kind \in Ops,
         UNCHANGED <<bg, phase>>, NEW N, Placed(files, failed, files', failed', N),
         owed' \subseteq owed, owed' \cap FramesOf(st.data) \subseteq N
  PROVE  CloseInv'
<1>1. InMemory = FramesOf(st.data) /\ cur # 0
  BY OperationRuns
<1>2. /\ WrittenIn(files') \cup failed' = WrittenIn(files) \cup failed \cup N
      /\ failed \subseteq failed'
  BY DEF Placed
<1>3. /\ phase = "run" => bg = "live"
      /\ phase = "closing" => owed \ failed \subseteq WrittenIn(files) \cup InMemory
  BY <1>1 DEF HdfInv, CloseInv
<1>4. phase = "closing" => owed' \ failed' \subseteq WrittenIn(files')
  BY <1>1, <1>2, <1>3
<1>5. phase # "closed"
  OBVIOUS
<1> QED
  BY <1>3, <1>4, <1>5 DEF CloseInv

\* The file of a successful operation holds what the operation owed.
LEMMA OperationCut ==
  ASSUME NEW O, NEW X, NEW o, NEW v, NEW S, O \ X = FramesOf(o.file.rows) \cup S, o.failed = X,
         Adds(o, v, S), NEW R, Writing(R, v), NEW h, h.rows = v.file.rows
  PROVE  HasFrames(h.rows, O \ v.failed)
<1>1. PICK F, F2, X2 : F = FramesOf(o.file.rows) /\ F2 = FramesOf(h.rows) /\ X2 = v.failed
  OBVIOUS
<1>2. F2 \cup X2 = F \cup X \cup S /\ F \subseteq F2 /\ X \subseteq X2 /\ F2 \cap X2 = {}
  BY <1>1 DEF Adds, Writing
<1>3. O \ X = F \cup S
  BY <1>1
<1>4. O \ X2 = F2
  BY <1>2, <1>3
<1> QED
  BY <1>1, <1>4 DEF HasFrames
\* The memory after the end of a file, emptied or kept.
LEMMA MemoryDrained ==
  ASSUME HdfInv, phase \in {"run", "closing"}, hand # None, hand.kind \in Ops,
         NEW N, Placed(files, failed, files', failed', N), N \subseteq FramesOf(st.data),
         \/ st' = Emptied(st) \/ st' = ResetPerFile(Emptied(st))
         \/ N = {} /\ st' = ResetPerFile(st)
  PROVE  Stream(ring, st', WrittenIn(files') \cup failed')
<1>1. Stream(ring, st, Taken)
  BY DEF HdfInv, MemoryInv
<1>2. PICK W : W = WrittenIn(files') \cup failed'
  OBVIOUS
<1>3. W = WrittenIn(files) \cup failed \cup N
  BY <1>2 DEF Placed
<1>4. W \subseteq FramesOf(st.data) \cup Taken
  BY <1>3 DEF Taken
<1>5. PICK v : v = Emptied(st)
  OBVIOUS
<1>6. Stream(ring, v, W)
  <2>1. v = [st EXCEPT !.data = <<>>, !.meta = <<>>]
    BY <1>5 DEF Emptied
  <2> QED
    BY <1>1, <1>4, <2>1, EmptiedKeepsStream
<1>7. Stream(ring, ResetPerFile(v), W)
  BY <1>6, PerFileResetKeepsStream
<1>8. N = {} => Stream(ring, ResetPerFile(st), W)
  <2> SUFFICES ASSUME N = {} PROVE Stream(ring, ResetPerFile(st), W)
    OBVIOUS
  <2>1. W \subseteq Taken
    BY <1>3 DEF Taken
  <2>2. Stream(ring, st, W)
    BY <1>1, <2>1, LessTaken
  <2> QED
    BY <2>2, PerFileResetKeepsStream
<1> QED
  BY <1>2, <1>5, <1>6, <1>7, <1>8

\* What stop and rotate make of the open file.
LEMMA FileEnds ==
  ASSUME HdfInv, phase \in {"run", "closing"}, hand # None, hand.kind \in Ops,
         NEW d \in Drains(Open), NEW x \in Verdicts(d.w), NEW v, v = x.w, NEW N, N = IF d.kept THEN {} ELSE FramesOf(st.data),
         NEW G, Replaced(files, cur, Ended(v.file), G)
  PROVE  /\ SoundFiles(ring, G) /\ DOMAIN G = DOMAIN files
         /\ Placed(files, failed, G, v.failed, N)
         /\ d.kept \in BOOLEAN /\ d.raised \in BOOLEAN /\ (d.kept => d.raised)
         /\ ~d.kept => HasFrames(G[cur].rows, op.owed \ v.failed)
<1>1. cur # 0 /\ op.owed \ failed = FramesOf(files[cur].rows) \cup FramesOf(st.data)
  BY OperationRuns
<1>2. PICK o, h : o = Open /\ h = Ended(v.file)
  OBVIOUS
<1>3. o.file = files[cur] /\ o.failed = failed
  BY <1>1, <1>2, OpenIsWriting
<1>4. /\ Writing(ring, v) /\ Adds(Open, v, N) /\ N \cap (WrittenIn(files) \cup failed) = {}
      /\ d.kept \in BOOLEAN /\ d.raised \in BOOLEAN /\ (d.kept => d.raised) /\ Judged(v.file)
  BY <1>1, DrainedAndJudged
<1>5. /\ SoundFiles(ring, G) /\ DOMAIN G = DOMAIN files /\ G[cur] = h /\ h.rows = v.file.rows
      /\ Placed(files, failed, G, v.failed, N)
  BY <1>1, <1>2, <1>4, FileWritten
<1>6. ASSUME ~d.kept
      PROVE  HasFrames(G[cur].rows, op.owed \ v.failed)
  <2>1. op.owed \ failed = FramesOf(o.file.rows) \cup N /\ Adds(o, v, N)
    BY <1>1, <1>2, <1>3, <1>4, <1>6
  <2>2. HasFrames(h.rows, op.owed \ v.failed)
    BY <1>3, <1>4, <1>5, <2>1, OperationCut
  <2> QED
    BY <1>5, <2>2
<1> QED
  BY <1>4, <1>5, <1>6

\* stop, on the background thread.
LEMMA BgStopKeeps ==
  ASSUME HdfInv, BgStop
  PROVE  HdfInv'
<1>1. /\ phase \in {"run", "closing"} /\ hand # None /\ hand.kind = "stop" /\ hand' = None
      /\ UNCHANGED <<ring, gen, sock, queue, bg, held, phase>> /\ cur' = 0
  BY DEF BgStop, Working, producer
<1>2. hand.kind \in Ops
  BY <1>1 DEF Ops
<1>3z. PICK d \in Drains(Open) : \E x \in Verdicts(d.w) :
          /\ files' = [files EXCEPT ![cur] = Ended(x.w.file)] /\ failed' = x.w.failed
          /\ op' = [op EXCEPT !.done = TRUE, !.ok = ~(d.raised \/ x.raised)]
          /\ st' = ResetPerFile(IF d.kept THEN st ELSE Emptied(st))
          /\ owed' = IF d.kept THEN owed \ FramesOf(st.data) ELSE owed
  BY Zenon DEF BgStop
<1>3. PICK x \in Verdicts(d.w) :
          /\ files' = [files EXCEPT ![cur] = Ended(x.w.file)] /\ failed' = x.w.failed
          /\ op' = [op EXCEPT !.done = TRUE, !.ok = ~(d.raised \/ x.raised)]
          /\ st' = ResetPerFile(IF d.kept THEN st ELSE Emptied(st))
          /\ owed' = IF d.kept THEN owed \ FramesOf(st.data) ELSE owed
  BY <1>3z
<1>4. PICK v, N, G : /\ v = x.w /\ N = IF d.kept THEN {} ELSE FramesOf(st.data)
                     /\ Replaced(files, cur, Ended(v.file), G) /\ files' = G /\ failed' = v.failed
  BY <1>3 DEF Replaced
<1>5. /\ SoundFiles(ring, G) /\ DOMAIN G = DOMAIN files
      /\ Placed(files, failed, G, v.failed, N)
      /\ d.kept \in BOOLEAN /\ d.raised \in BOOLEAN /\ (d.kept => d.raised)
      /\ ~d.kept => HasFrames(G[cur].rows, op.owed \ v.failed)
  BY <1>1, <1>2, <1>4, FileEnds
<1>6. op # None /\ OpRecord(op) /\ op.submitted /\ op.file = cur /\ cur # 0 /\ cur \in DOMAIN files
  BY <1>1, <1>2, OperationRuns
<1>7. PICK b : b \in BOOLEAN /\ b = ~(d.raised \/ x.raised) /\ (b => ~d.raised)
  OBVIOUS
<1>8. /\ op' # None /\ OpRecord(op') /\ op'.done /\ op'.submitted /\ op'.file = cur /\ op'.owed = op.owed
      /\ op'.ok = b
  <2>0. op' = [op EXCEPT !.done = TRUE, !.ok = b]
    BY <1>3, <1>7
  <2>1. DOMAIN op' = DOMAIN op /\ op'.kind = op.kind /\ op'.submitted = op.submitted
    BY <1>6, <2>0 DEF OpRecord
  <2>2. op'.file = op.file /\ op'.owed = op.owed
    BY <1>6, <2>0 DEF OpRecord
  <2>3. op'.done = TRUE /\ op'.ok = b
    BY <1>6, <2>0 DEF OpRecord
  <2>4. OpRecord(op')
    BY <1>6, <1>7, <2>1, <2>2, <2>3 DEF OpRecord
  <2>5. op' # None
    BY <2>4 DEF OpRecord, Ops, None
  <2> QED
    BY <1>6, <2>1, <2>2, <2>3, <2>4, <2>5
<1>9. Placed(files, failed, files', failed', N) /\ WrittenIn(files') \cap failed' = {}
  BY <1>4, <1>5 DEF Placed
<1>10. N \subseteq FramesOf(st.data) /\ owed' \subseteq owed /\ owed' \cap FramesOf(st.data) \subseteq N
  BY <1>3, <1>4
<1>11. CloseInv'
  BY <1>1, <1>2, <1>9, <1>10, CloseOwesNoMore
<1>12. Stream(ring, st', WrittenIn(files') \cup failed')
  <2>1. st' = ResetPerFile(Emptied(st)) \/ (N = {} /\ st' = ResetPerFile(st))
    BY <1>3, <1>4
  <2> QED
    BY <1>1, <1>2, <1>9, <1>10, <2>1, MemoryDrained
<1>13. CountInv'
  BY <1>1 DEF CountInv
<1>14. SoundFiles(ring, files') /\ cur' \in {0} \cup DOMAIN files'
  BY <1>1, <1>4, <1>5
<1>15. op'.ok => /\ op'.file \in DOMAIN files' /\ op'.file # cur'
                 /\ FramesOf(files'[op'.file].rows) = op'.owed \ failed'
  BY <1>1, <1>4, <1>5, <1>6, <1>7, <1>8 DEF HasFrames
<1> QED
  BY <1>1, <1>2, <1>8, <1>9, <1>11, <1>12, <1>13, <1>14, <1>15, OperationEnds

\* rotate, on the background thread.
LEMMA BgRotateKeeps ==
  ASSUME HdfInv, BgRotate
  PROVE  HdfInv'
<1>1. /\ phase \in {"run", "closing"} /\ hand # None /\ hand.kind = "rotate" /\ hand' = None
      /\ UNCHANGED <<ring, gen, sock, queue, bg, held, phase, owed>>
      /\ cur' = Len(files) + 1 /\ pf' = FreshFileState /\ st' = ResetPerFile(Emptied(st))
      /\ op' = [op EXCEPT !.done = TRUE]
  BY DEF BgRotate, Working, producer
<1>2. hand.kind \in Ops
  BY <1>1 DEF Ops
<1>3z. PICK d \in Drains(Open) : \E x \in Verdicts(d.w) :
          /\ ~d.raised
          /\ files' = Append([files EXCEPT ![cur] = Ended(x.w.file)], NewFile) /\ failed' = x.w.failed
  BY Zenon DEF BgRotate
<1>3. PICK x \in Verdicts(d.w) :
          /\ ~d.raised
          /\ files' = Append([files EXCEPT ![cur] = Ended(x.w.file)], NewFile) /\ failed' = x.w.failed
  BY <1>3z
<1>4. PICK v, N, G : /\ v = x.w /\ N = IF d.kept THEN {} ELSE FramesOf(st.data)
                     /\ Replaced(files, cur, Ended(v.file), G) /\ files' = Append(G, NewFile) /\ failed' = v.failed
  BY <1>3 DEF Replaced
<1>4a. /\ SoundFiles(ring, G) /\ DOMAIN G = DOMAIN files
       /\ Placed(files, failed, G, v.failed, N)
       /\ d.kept \in BOOLEAN /\ d.raised \in BOOLEAN /\ (d.kept => d.raised)
       /\ ~d.kept => HasFrames(G[cur].rows, op.owed \ v.failed)
  BY <1>1, <1>2, <1>4, FileEnds
<1>5. /\ SoundFiles(ring, G) /\ DOMAIN G = DOMAIN files
      /\ Placed(files, failed, G, v.failed, FramesOf(st.data)) /\ HasFrames(G[cur].rows, op.owed \ v.failed)
  BY <1>3, <1>4, <1>4a
<1>6. op # None /\ OpRecord(op) /\ op.submitted /\ op.file = cur /\ cur # 0 /\ cur \in DOMAIN files
  BY <1>1, <1>2, OperationRuns
<1>7. op' # None /\ OpRecord(op') /\ op'.done /\ op'.submitted /\ op'.file = cur /\ op'.owed = op.owed
  <2>1. DOMAIN op' = DOMAIN op /\ op'.kind = op.kind /\ op'.submitted = op.submitted
    BY <1>1, <1>6 DEF OpRecord
  <2>2. op'.file = op.file /\ op'.ok = op.ok /\ op'.owed = op.owed
    BY <1>1, <1>6 DEF OpRecord
  <2>3. op'.done = TRUE
    BY <1>1, <1>6 DEF OpRecord
  <2>4. OpRecord(op')
    BY <1>6, <2>1, <2>2, <2>3 DEF OpRecord
  <2>5. op' # None
    BY <2>4 DEF OpRecord, Ops, None
  <2> QED
    BY <1>6, <2>1, <2>2, <2>3, <2>4, <2>5
<1>8. Len(G) = Len(files)
  <2>1. Sequence(G) /\ Sequence(files)
    BY <1>5 DEF HdfInv, FilesInv, SoundFiles
  <2>2. Len(G) \in Nat /\ Len(files) \in Nat /\ 1 .. Len(G) = 1 .. Len(files)
    BY <1>5, <2>1, IsSequence
  <2> QED
    BY <2>2
<1>9. /\ SoundFiles(ring, files') /\ WrittenIn(files') = WrittenIn(G)
      /\ cur' \in DOMAIN files' /\ files'[cur'] = NewFile /\ cur' \notin DOMAIN G
      /\ \A f \in DOMAIN G : f \in DOMAIN files' /\ files'[f] = G[f]
  BY <1>1, <1>4, <1>5, <1>8, NewFileAppended
<1>10. Placed(files, failed, files', failed', FramesOf(st.data)) /\ WrittenIn(files') \cap failed' = {}
  BY <1>4, <1>5, <1>9 DEF Placed
<1>10a. PICK M : M = FramesOf(st.data)
  OBVIOUS
<1>11. CloseInv'
  <2>1. owed' \subseteq owed /\ owed' \cap FramesOf(st.data) \subseteq M
    BY <1>1, <1>10a
  <2> QED
    BY <1>1, <1>2, <1>10, <1>10a, <2>1, CloseOwesNoMore
<1>12. Stream(ring, st', WrittenIn(files') \cup failed')
  BY <1>1, <1>2, <1>10, <1>10a, MemoryDrained
<1>13. CountInv'
  BY <1>1, <1>9, FreshCounts, Zenon DEF CountInv
<1>14. op'.file \in DOMAIN files' /\ op'.file # cur' /\ FramesOf(files'[op'.file].rows) = op'.owed \ failed'
  BY <1>4, <1>5, <1>6, <1>7, <1>9 DEF HasFrames
<1>15. SoundFiles(ring, files') /\ cur' \in {0} \cup DOMAIN files'
  BY <1>9
<1> QED
  BY <1>1, <1>2, <1>7, <1>10, <1>11, <1>12, <1>13, <1>14, <1>15, OperationEnds

\* A rotate that fails: before it touched the file, or after it drained it.
LEMMA BgRotateFailsKeeps ==
  ASSUME HdfInv, BgRotateFails
  PROVE  HdfInv'
<1>1. /\ phase \in {"run", "closing"} /\ hand # None /\ hand.kind = "rotate" /\ hand' = None
      /\ UNCHANGED <<ring, gen, sock, queue, bg, held, phase, owed>> /\ cur' = cur
      /\ op' = [op EXCEPT !.done = TRUE, !.ok = FALSE]
  BY DEF BgRotateFails, Working, producer, disk
<1>2. hand.kind \in Ops
  BY <1>1 DEF Ops
<1>3. /\ op # None /\ OpRecord(op) /\ op.submitted /\ cur # 0 /\ cur \in DOMAIN files
      /\ QueuedIn(queue) = {} /\ InMemory = FramesOf(st.data)
  BY <1>1, <1>2, OperationRuns
<1>4. op' # None /\ OpRecord(op') /\ op'.done /\ op'.submitted /\ ~op'.ok
  <2>1. DOMAIN op' = DOMAIN op /\ op'.kind = op.kind /\ op'.submitted = op.submitted
    BY <1>1, <1>3 DEF OpRecord
  <2>2. op'.done = TRUE
    BY <1>1, <1>3 DEF OpRecord
  <2>3. op'.ok = FALSE
    BY <1>1, <1>3 DEF OpRecord
  <2>4. OpRecord(op')
    BY <1>3, <2>1, <2>2, <2>3 DEF OpRecord
  <2>5. op' # None
    BY <2>4 DEF OpRecord, Ops, None
  <2> QED
    BY <1>3, <2>1, <2>2, <2>3, <2>4, <2>5
<1>5. CASE UNCHANGED <<memory, disk, failed>>
  <2>1. UNCHANGED <<st, pf, files, cur, failed>>
    BY <1>5 DEF memory, disk
  <2>2. BatchFrames(hand') = {}
    BY <1>1 DEF None, BatchFrames
  <2>3. Stream(ring, st', WrittenIn(files') \cup failed')
    <3>1. PICK W : W = WrittenIn(files) \cup failed
      OBVIOUS
    <3>2. Stream(ring, st, Taken) /\ W \subseteq Taken
      BY <3>1 DEF HdfInv, MemoryInv, Taken
    <3>3. Stream(ring, st, W)
      BY <3>2, LessTaken
    <3> QED
      BY <2>1, <3>1, <3>3
  <2>4. CountInv' /\ SoundFiles(ring, files') /\ cur' \in {0} \cup DOMAIN files' /\ WrittenIn(files') \cap failed' = {}
    BY <2>1 DEF HdfInv, CountInv, FilesInv, PipeInv
  <2>5. CloseInv'
    <3>1. InMemory' = InMemory
      <4>1. InMemory' = FramesOf(st.data) \cup QueuedIn(queue) \cup BatchFrames(hand')
        BY <1>1, <2>1 DEF InMemory
      <4> QED
        BY <1>3, <2>2, <4>1
    <3> QED
      BY <1>1, <2>1, <3>1 DEF HdfInv, CloseInv
  <2> QED
    BY <1>1, <1>2, <1>4, <2>3, <2>4, <2>5, OperationEnds
<1>6. CASE \E d \in Drains(Open) : \E x \in Verdicts(d.w) \cup {d} :
              /\ files' = [files EXCEPT ![cur] = x.w.file] /\ pf' = x.w.pf /\ failed' = x.w.failed
              /\ ~d.kept /\ st' = Emptied(st) /\ rows' = <<>> /\ cur' = cur
  <2>1z. PICK d \in Drains(Open) : \E x \in Verdicts(d.w) \cup {d} :
              /\ files' = [files EXCEPT ![cur] = x.w.file] /\ pf' = x.w.pf /\ failed' = x.w.failed
              /\ ~d.kept /\ st' = Emptied(st)
    BY <1>6
  <2>1. PICK x \in Verdicts(d.w) \cup {d} :
              /\ files' = [files EXCEPT ![cur] = x.w.file] /\ pf' = x.w.pf /\ failed' = x.w.failed
              /\ ~d.kept /\ st' = Emptied(st)
    BY <2>1z
  <2>2. PICK v, h, N, G : /\ v = x.w /\ h = v.file /\ N = IF d.kept THEN {} ELSE FramesOf(st.data)
                          /\ Replaced(files, cur, h, G) /\ files' = G
    BY <2>1 DEF Replaced
  <2>3. pf' = v.pf /\ failed' = v.failed /\ N = FramesOf(st.data)
    BY <2>1, <2>2
  <2>4. Writing(ring, v) /\ Adds(Open, v, N) /\ N \cap (WrittenIn(files) \cup failed) = {}
    <3>1. x = d \/ x \in Verdicts(d.w)
      OBVIOUS
    <3> QED
      BY <1>3, <2>2, <3>1, DrainedAndJudged
  <2>10. /\ SoundFiles(ring, G) /\ DOMAIN G = DOMAIN files /\ G[cur] = h
         /\ Placed(files, failed, G, v.failed, N)
    BY <1>3, <2>2, <2>4, FileWritten
  <2>11. Placed(files, failed, files', failed', N)
    BY <2>2, <2>3, <2>10
  <2>12. CountInv'
    BY <1>1, <2>2, <2>3, <2>4, <2>10 DEF CountInv, Writing
  <2>13. CloseInv'
    <3>1. owed' \subseteq owed /\ owed' \cap FramesOf(st.data) \subseteq N
      BY <1>1, <2>3
    <3> QED
      BY <1>1, <1>2, <2>11, <3>1, CloseOwesNoMore
  <2>14. Stream(ring, st', WrittenIn(files') \cup failed')
    BY <1>1, <1>2, <2>1, <2>3, <2>11, MemoryDrained
  <2>15. SoundFiles(ring, files') /\ cur' \in {0} \cup DOMAIN files' /\ WrittenIn(files') \cap failed' = {}
    BY <1>1, <1>3, <2>2, <2>10, <2>11 DEF Placed
  <2> QED
    BY <1>1, <1>2, <1>4, <2>12, <2>13, <2>14, <2>15, OperationEnds
<1> QED
  BY <1>5, <1>6, Zenon DEF BgRotateFails
\* The thread dies with a request in hand.
LEMMA BgDiesKeeps ==
  ASSUME HdfInv, BgDies
  PROVE  HdfInv'
<1>1. /\ phase = "run" /\ phase' = "closing" /\ hand # None /\ hand' = None /\ owed' = Owed
      /\ failed' = failed \cup BatchFrames(hand)
      /\ UNCHANGED <<ring, gen, sock, st, pf, files, cur, queue, op, held>>
  BY DEF BgDies, producer, memory, disk
<1>2. hand'.kind = "none" /\ BatchFrames(hand') = {}
  BY <1>1 DEF None, BatchFrames
<1>3. PICK N, M : N = BatchFrames(hand) /\ M = FramesOf(st.data) \cup QueuedIn(queue)
  OBVIOUS
<1>4. InMemory = M \cup N /\ InMemory' = M
  <2>1. InMemory' = FramesOf(st.data) \cup QueuedIn(queue) \cup BatchFrames(hand')
    BY <1>1 DEF InMemory
  <2> QED
    BY <1>2, <1>3, <2>1 DEF InMemory
<1>5. MemoryInv'
  <2>1. Taken' = QueuedIn(queue) \cup WrittenIn(files) \cup failed'
    BY <1>1, <1>2 DEF Taken
  <2>2. Taken' = Taken
    BY <1>1, <2>1 DEF Taken
  <2> QED
    BY <1>1, <2>2 DEF HdfInv, MemoryInv
<1>6. PipeInv'
  BY <1>1, <1>2 DEF HdfInv, PipeInv
<1>7. ProducerInv' /\ FilesInv' /\ CountInv'
  BY <1>1 DEF HdfInv, ProducerInv, FilesInv, CountInv
<1>8. ~(op # None /\ op.done)
  BY <1>1 DEF HdfInv, RequestInv
<1>9. RequestInv'
  <2>1. hand'.kind \notin Ops
    BY <1>2 DEF Ops
  <2> QED
    BY <1>1, <1>8, <2>1 DEF HdfInv, RequestInv
<1>10. CutInv'
  <2> SUFFICES ASSUME op # None, ~op.done
               PROVE  cur # 0 /\ op.file = cur /\ op.owed \ failed' = FramesOf(files[cur].rows) \cup M
    BY <1>1, <1>4, <1>8 DEF CutInv
  <2>1. cur # 0 /\ op.file = cur /\ op.owed \ failed = FramesOf(files[cur].rows) \cup InMemory
    BY <1>1 DEF HdfInv, CutInv
  <2>2. PICK A : A = FramesOf(files[cur].rows)
    OBVIOUS
  <2>3. A \subseteq WrittenIn(files)
    BY <2>1, <2>2, FileIsWritten DEF HdfInv, FilesInv
  <2>4. A \cap failed = {} /\ N \cap A = {} /\ M \cap (A \cup failed \cup N) = {}
    BY <1>3, <2>3 DEF HdfInv, PipeInv, MemoryInv, Stream, Taken
  <2>5. op.owed \ failed = A \cup N \cup M
    BY <1>4, <2>1, <2>2
  <2>6. op.owed \ failed' = A \cup M
    BY <1>1, <1>3, <2>4, <2>5
  <2> QED
    BY <2>1, <2>2, <2>6
<1>11. CloseInv'
  <2>1. Owed \ failed' \subseteq WrittenIn(files) \cup (IF cur = 0 THEN {} ELSE M)
    <3>1. CASE cur = 0
      BY <3>1 DEF Owed
    <3>2. CASE cur # 0
      <4>1. FramesOf(files[cur].rows) \subseteq WrittenIn(files)
        BY <3>2, FileIsWritten DEF HdfInv, FilesInv
      <4>2. Owed = FramesOf(files[cur].rows) \cup InMemory
        BY <3>2 DEF Owed
      <4> QED
        BY <1>1, <1>3, <1>4, <3>2, <4>1, <4>2
    <3> QED
      BY <3>1, <3>2
  <2> QED
    BY <1>1, <1>4, <2>1 DEF CloseInv
<1> QED
  BY <1>5, <1>6, <1>7, <1>9, <1>10, <1>11 DEF HdfInv

-----------------------------------------------------------------------------
(* close *)

\* The close begins.
LEMMA ShutdownKeeps ==
  ASSUME HdfInv, Shutdown
  PROVE  HdfInv'
<1>1. /\ phase = "run" /\ phase' = "closing" /\ owed' = Owed
      /\ UNCHANGED <<ring, gen, sock, st, pf, files, cur, queue, hand, bg, op, held, failed>>
  BY DEF Shutdown, producer, memory, disk
<1>2. ProducerInv' /\ MemoryInv' /\ PipeInv' /\ FilesInv' /\ CountInv' /\ RequestInv'
  BY <1>1 DEF HdfInv, ProducerInv, MemoryInv, Taken, PipeInv, FilesInv, CountInv, RequestInv
<1>3. InMemory' = InMemory
  BY <1>1 DEF InMemory
<1>4. CutInv'
  BY <1>1, <1>3 DEF HdfInv, CutInv
<1>5. Owed \subseteq WrittenIn(files) \cup (IF cur = 0 THEN {} ELSE InMemory)
  <2>1. CASE cur = 0
    BY <2>1 DEF Owed
  <2>2. CASE cur # 0
    <3>1. FramesOf(files[cur].rows) \subseteq WrittenIn(files)
      BY <2>2, FileIsWritten DEF HdfInv, FilesInv
    <3> QED
      BY <2>2, <3>1 DEF Owed
  <2> QED
    BY <2>1, <2>2
<1>6. CloseInv'
  <2>1. owed' \ failed' \subseteq WrittenIn(files) \cup (IF cur = 0 THEN {} ELSE InMemory)
    BY <1>1, <1>5
  <2> QED
    BY <1>1, <1>3, <2>1 DEF CloseInv
<1> QED
  BY <1>2, <1>4, <1>6 DEF HdfInv

\* The close joined the thread: what is queued and in memory is written.
LEMMA CloseKeeps ==
  ASSUME HdfInv, Close
  PROVE  HdfInv'
<1>1. /\ phase = "closing" /\ phase' = "closed" /\ hand = None /\ queue' = <<>>
      /\ UNCHANGED <<ring, gen, sock, hand, bg, op, held, owed>>
  BY DEF Close, producer
<1>2. BatchFrames(hand) = {} /\ hand.kind = "none"
  BY <1>1 DEF None, BatchFrames
<1>3. QueuedIn(queue') = {} /\ Requests(ring, queue') /\ DOMAIN queue' = {}
  BY <1>1, NothingQueued, EmptyIsSequence
<1>4. Taken' = WrittenIn(files') \cup failed'
  BY <1>1, <1>2, <1>3 DEF Taken
<1>5. ProducerInv'
  BY <1>1 DEF HdfInv, ProducerInv
<1>6. RequestInv'
  <2>1. hand'.kind \notin Ops
    BY <1>1, <1>2 DEF Ops
  <2>2. op = None \/ OpRecord(op)
    BY DEF HdfInv, RequestInv
  <2>3. op # None /\ op.done => op.submitted
    BY DEF HdfInv, RequestInv
  <2> QED
    BY <1>1, <1>3, <2>1, <2>2, <2>3 DEF RequestInv
<1>7. WrittenIn(files') \cap failed' = {} => PipeInv'
  BY <1>1, <1>2, <1>3 DEF PipeInv
<1>8. CASE cur = 0
  <2>1. UNCHANGED <<st, pf, files, cur, failed>>
    BY <1>8 DEF Close, memory, disk
  <2>2. MemoryInv'
    <3>1. PICK W : W = WrittenIn(files) \cup failed
      OBVIOUS
    <3>2. Stream(ring, st, Taken) /\ W \subseteq Taken
      BY <3>1 DEF HdfInv, MemoryInv, Taken
    <3>3. Stream(ring, st, W)
      BY <3>2, LessTaken
    <3> QED
      BY <1>1, <1>4, <2>1, <3>1, <3>3 DEF MemoryInv
  <2>3. PipeInv'
    BY <1>7, <2>1 DEF HdfInv, PipeInv
  <2>4. FilesInv' /\ CountInv'
    BY <1>1, <2>1 DEF HdfInv, FilesInv, CountInv
  <2>5. CutInv' /\ CloseInv'
    BY <1>1, <1>8, <2>1 DEF HdfInv, CutInv, CloseInv
  <2> QED
    BY <1>5, <1>6, <2>2, <2>3, <2>4, <2>5 DEF HdfInv
<1>9. CASE cur # 0
  <2>1. PICK o, Q, S : o = Open /\ Q = QueuedIn(queue) /\ S = FramesOf(st.data)
    OBVIOUS
  <2>2. PICK bad \in SUBSET DOMAIN queue, refused \in SUBSET DOMAIN queue :
             \E d \in Drains(WriteQueue(Open, queue, bad, refused)) :
             \E x \in Verdicts(IF d.kept THEN Raised(d.w, Batch) ELSE d.w) :
               /\ files' = [files EXCEPT ![cur] = Ended(x.w.file)] /\ pf' = x.w.pf /\ failed' = x.w.failed
               /\ cur' = 0 /\ st' = Emptied(st) /\ rows' = <<>>
    BY <1>9, Zenon DEF Close
  <2>3. PICK u : u = WriteQueue(o, queue, bad, refused)
    OBVIOUS
  <2>4. PICK d \in Drains(u) :
             \E x \in Verdicts(IF d.kept THEN Raised(d.w, Batch) ELSE d.w) :
               /\ files' = [files EXCEPT ![cur] = Ended(x.w.file)] /\ failed' = x.w.failed
               /\ cur' = 0 /\ st' = Emptied(st)
    BY <2>1, <2>2, <2>3
  <2>4a. PICK y : y = IF d.kept THEN Raised(d.w, Batch) ELSE d.w
    OBVIOUS
  <2>4b. PICK x \in Verdicts(y) :
               /\ files' = [files EXCEPT ![cur] = Ended(x.w.file)] /\ failed' = x.w.failed
               /\ cur' = 0 /\ st' = Emptied(st)
    BY <2>4, <2>4a
  <2>5. PICK v, h, G : v = x.w /\ h = Ended(v.file) /\ Replaced(files, cur, h, G) /\ files' = G
    BY <2>4b DEF Replaced
  <2>6. failed' = v.failed /\ cur' = 0 /\ st' = [st EXCEPT !.data = <<>>, !.meta = <<>>]
    BY <2>4b, <2>5 DEF Emptied
  <2>7. Writing(ring, o) /\ o.file = files[cur] /\ o.failed = failed /\ cur \in DOMAIN files
    BY <1>9, <2>1, OpenIsWriting
  <2>8. /\ Q \cap (WrittenIn(files) \cup failed \cup S) = {}
        /\ S \cap (WrittenIn(files) \cup failed) = {}
    BY <2>1 DEF HdfInv, PipeInv, MemoryInv, Stream, Taken
  <2>9. FramesOf(o.file.rows) \subseteq WrittenIn(files)
    BY <2>7, FileIsWritten
  <2>10. Writing(ring, u) /\ Adds(o, u, Q)
    <3>1. RingsOf(ring) /\ Requests(ring, queue) /\ Sequence(queue)
      BY DEF HdfInv, ProducerInv, PipeInv, Requests
    <3>2. Q = FirstFrames(queue, Len(queue))
      BY <2>1, <3>1, QueuedAreFirst
    <3>3. FirstFrames(queue, Len(queue)) \cap (FramesOf(o.file.rows) \cup o.failed) = {}
      BY <2>7, <2>8, <2>9, <3>2
    <3>4. Writing(ring, u) /\ Adds(o, u, FirstFrames(queue, Len(queue)))
      BY <2>3, <2>7, <3>1, <3>3, QueueIsWritten
    <3> QED
      BY <3>2, <3>4
  <2>11. S \cap (FramesOf(u.file.rows) \cup u.failed) = {}
    <3>1. FramesOf(u.file.rows) \cup u.failed = FramesOf(o.file.rows) \cup o.failed \cup Q
      BY <2>10 DEF Adds
    <3> QED
      BY <2>7, <2>8, <2>9, <3>1
  <2>12. Writing(ring, y) /\ Adds(u, y, S)
    <3>1. PICK z, N : z = d.w /\ N = IF d.kept THEN {} ELSE FramesOf(st.data)
      OBVIOUS
    <3>2. /\ Writing(ring, z) /\ Adds(u, z, N) /\ d.kept \in BOOLEAN
          /\ d.kept => z = u
      BY <2>1, <2>10, <2>11, <3>1, DrainOutcome
    <3>3. CASE d.kept
      <4>0. PICK b : b = Batch
        OBVIOUS
      <4>1. b = Batch /\ b.data = st.data
        BY <4>0 DEF Batch
      <4>2. y = Raised(u, b)
        BY <2>4a, <3>1, <3>2, <3>3, <4>1
      <4>3. FramesOf(b.data) \cap (FramesOf(u.file.rows) \cup u.failed) = {} /\ y \in {Raised(u, b), Dropped(u, b)}
        BY <2>1, <2>11, <4>1, <4>2
      <4>4. Writing(ring, y) /\ Adds(u, y, FramesOf(b.data))
        BY <2>10, <4>3, BatchFails
      <4> QED
        BY <2>1, <4>1, <4>4
    <3>4. CASE ~d.kept
      BY <2>1, <2>4a, <3>1, <3>2, <3>4
    <3> QED
      BY <3>3, <3>4
  <2>13. Writing(ring, v) /\ v.file.rows = y.file.rows /\ v.failed = y.failed /\ Judged(v.file)
    BY <2>5, <2>12, VerdictIsGiven
  <2>14. /\ SoundFiles(ring, G) /\ DOMAIN G = DOMAIN files /\ \A f \in DOMAIN files \ {cur} : G[f] = files[f]
         /\ Placed(files, failed, G, v.failed, Q \cup FramesOf(st.data))
    <3>1. PICK N : N = Q \cup S
      OBVIOUS
    <3>2. Adds(o, y, N)
      BY <2>10, <2>12, <3>1, AddsTwice
    <3>3. Adds(Open, v, N)
      BY <2>1, <2>13, <3>2 DEF Adds
    <3>4. N \cap (WrittenIn(files) \cup failed) = {}
      BY <2>8, <3>1
    <3>5. /\ SoundFiles(ring, G) /\ DOMAIN G = DOMAIN files /\ \A f \in DOMAIN files \ {cur} : G[f] = files[f]
          /\ Placed(files, failed, G, v.failed, N)
      BY <1>9, <2>5, <2>13, <3>3, <3>4, FileWritten
    <3> QED
      BY <2>1, <3>1, <3>5
  <2>15. /\ WrittenIn(files') \cup failed' = WrittenIn(files) \cup failed \cup Q \cup S
         /\ WrittenIn(files') \cap failed' = {} /\ failed \subseteq failed'
    BY <2>1, <2>5, <2>6, <2>14 DEF Placed
  <2>16. PipeInv'
    BY <1>7, <2>15
  <2>17. MemoryInv'
    <3>1. PICK W : W = WrittenIn(files') \cup failed'
      OBVIOUS
    <3>2. Stream(ring, st, Taken)
      BY DEF HdfInv, MemoryInv
    <3>3. W \subseteq FramesOf(st.data) \cup Taken
      BY <2>1, <2>15, <3>1 DEF Taken
    <3>4. PICK t : t = [st EXCEPT !.data = <<>>, !.meta = <<>>]
      OBVIOUS
    <3>5. Stream(ring, t, W)
      BY <3>2, <3>3, <3>4, EmptiedKeepsStream
    <3> QED
      BY <1>1, <1>4, <2>6, <3>1, <3>4, <3>5 DEF MemoryInv
  <2>18. FilesInv' /\ CountInv'
    BY <1>1, <2>5, <2>6, <2>14 DEF FilesInv, CountInv
  <2>19. CutInv'
    <3> SUFFICES ASSUME op # None, op.done, op.ok
                 PROVE  /\ op.file \in DOMAIN files' /\ op.file # cur'
                        /\ FramesOf(files'[op.file].rows) = op.owed \ failed'
      BY <1>1 DEF CutInv
    <3>1. op.file \in DOMAIN files /\ op.file # cur /\ FramesOf(files[op.file].rows) = op.owed \ failed
      BY DEF HdfInv, CutInv
    <3>2. op.file \in DOMAIN files' /\ files'[op.file] = files[op.file]
      BY <2>5, <2>14, <3>1
    <3>3. op.file # 0
      BY <3>1, IsSequence DEF HdfInv, FilesInv, SoundFiles
    <3>4. FramesOf(files'[op.file].rows) \subseteq WrittenIn(files')
      BY <3>2, FileIsWritten
    <3>5. PICK A : A = FramesOf(files'[op.file].rows)
      OBVIOUS
    <3>6. A = op.owed \ failed /\ A \cap failed' = {}
      BY <2>15, <3>1, <3>2, <3>4, <3>5
    <3>7. A = op.owed \ failed'
      BY <2>15, <3>6
    <3> QED
      BY <2>6, <3>2, <3>3, <3>5, <3>7
  <2>20. CloseInv'
    <3>1. owed \ failed \subseteq WrittenIn(files) \cup InMemory
      BY <1>1, <1>9 DEF HdfInv, CloseInv
    <3>2. InMemory = S \cup Q
      BY <1>2, <2>1 DEF InMemory
    <3>3. owed \ failed' \subseteq WrittenIn(files')
      BY <2>15, <3>1, <3>2
    <3> QED
      BY <1>1, <3>3 DEF CloseInv
  <2> QED
    BY <1>5, <1>6, <2>16, <2>17, <2>18, <2>19, <2>20 DEF HdfInv
<1> QED
  BY <1>8, <1>9

\* The join timed out: the file is closed as it is.
LEMMA CloseForcedKeeps ==
  ASSUME HdfInv, CloseForced
  PROVE  HdfInv'
<1>1. /\ phase' = "forced" /\ hand # None /\ cur' = 0
      /\ UNCHANGED <<ring, gen, sock, st, pf, queue, hand, bg, op, held, owed, failed>>
  BY DEF CloseForced, producer, memory, ghost
<1>2. SoundFiles(ring, files') /\ WrittenIn(files') = WrittenIn(files)
  <2>1. CASE cur = 0
    BY <2>1 DEF CloseForced, HdfInv, FilesInv
  <2>2. CASE cur # 0
    <3>1. SoundFiles(ring, files) /\ cur \in DOMAIN files /\ FileRecord(files[cur]) /\ ~files[cur].ended
      BY <2>2 DEF HdfInv, FilesInv, CountInv, SoundFiles
    <3>2. PICK h : h = [files[cur] EXCEPT !.open = FALSE]
      OBVIOUS
    <3>3. FileRecord(h) /\ h.rows = files[cur].rows
      BY <3>1, <3>2 DEF FileRecord
    <3>4. ~h.ended
      BY <3>1, <3>2 DEF FileRecord
    <3>5. PICK G : Replaced(files, cur, h, G) /\ files' = G
      BY <2>2, <3>2 DEF CloseForced, Replaced
    <3>6. SoundFiles(ring, G) /\ WrittenIn(G) = WrittenIn(files)
      BY <3>1, <3>3, <3>4, <3>5, FileTouched
    <3> QED
      BY <3>5, <3>6
  <2> QED
    BY <2>1, <2>2
<1>3. Taken' = Taken
  BY <1>1, <1>2 DEF Taken
<1>4. MemoryInv'
  BY <1>1, <1>3 DEF HdfInv, MemoryInv
<1>5. ProducerInv' /\ RequestInv'
  BY <1>1 DEF HdfInv, ProducerInv, RequestInv
<1>6. PipeInv' /\ FilesInv' /\ CountInv'
  BY <1>1, <1>2 DEF HdfInv, PipeInv, FilesInv, CountInv
<1>7. CutInv' /\ CloseInv'
  BY <1>1 DEF HdfInv, RequestInv, CutInv, CloseInv
<1> QED
  BY <1>4, <1>5, <1>6, <1>7 DEF HdfInv
-----------------------------------------------------------------------------
(* The theorems *)

\* The start.
LEMMA HdfInit ==
  ASSUME Init
  PROVE  HdfInv
<1>1. /\ ring = [g \in 1 .. MaxRings |-> <<>>] /\ gen = 1 /\ sock = <<>> /\ held = <<>>
      /\ st = Detached /\ files = <<>> /\ cur = 0 /\ queue = <<>> /\ hand = None /\ op = None
      /\ phase = "run" /\ bg = "live" /\ failed = {}
  BY DEF Init
<1>2. Sequence(<<>>) /\ DOMAIN <<>> = {} /\ Len(<<>>) = 0
  BY EmptyIsSequence
<1>3. ProducerInv
  <2>1. gen \in 1 .. MaxRings
    BY <1>1, HdfAssumption
  <2>2. RingsOf(ring)
    BY <1>1, <1>2 DEF RingsOf
  <2> QED
    BY <1>1, <1>2, <2>1, <2>2 DEF ProducerInv
<1>4. BatchFrames(hand) = {} /\ hand.kind = "none"
  BY <1>1 DEF BatchFrames, None
<1>5. QueuedIn(queue) = {} /\ Requests(ring, queue)
  BY <1>1, NothingQueued
<1>6. WrittenIn(files) = {}
  BY <1>1, <1>2 DEF WrittenIn
<1>7. Taken = {}
  BY <1>1, <1>4, <1>5, <1>6 DEF Taken
<1>8. MemoryInv
  <2>1. /\ DOMAIN st = StreamFields /\ st.data = <<>> /\ st.att = 0 /\ st.reader = 0 /\ st.pend = {}
    BY <1>1 DEF Detached, StreamFields
  <2>2. GenuineRows(ring, st.data) /\ FramesOf(st.data) = {}
    BY <2>1, NoRows
  <2> QED
    BY <1>7, <2>1, <2>2 DEF MemoryInv, Stream
<1>9. PipeInv
  BY <1>1, <1>4, <1>5, <1>6 DEF PipeInv
<1>10. FilesInv /\ CountInv
  BY <1>1, <1>2 DEF FilesInv, SoundFiles, CountInv
<1>11. RequestInv
  BY <1>1, <1>2, <1>4 DEF RequestInv, Ops
<1>12. CutInv /\ CloseInv
  BY <1>1 DEF CutInv, CloseInv
<1> QED
  BY <1>3, <1>8, <1>9, <1>10, <1>11, <1>12 DEF HdfInv

\* Every step keeps the invariant.
LEMMA HdfStep ==
  ASSUME HdfInv, [Next]_vars
  PROVE  HdfInv'
<1>1. CASE UNCHANGED vars
  <2>1. UNCHANGED <<ring, gen, sock, st, rows, pf, files, cur, queue, hand, bg, op, held, phase, owed, failed>>
    BY <1>1 DEF vars, producer, memory, disk, ghost
  <2>2. ProducerInv' /\ PipeInv' /\ FilesInv' /\ CountInv'
    BY <2>1 DEF HdfInv, ProducerInv, PipeInv, FilesInv, CountInv
  <2>3. MemoryInv' /\ RequestInv'
    BY <2>1 DEF HdfInv, MemoryInv, Taken, RequestInv
  <2>4. CutInv' /\ CloseInv'
    BY <2>1 DEF HdfInv, CutInv, CloseInv, InMemory
  <2> QED
    BY <2>2, <2>3, <2>4 DEF HdfInv
<1>2. CASE WriteFrame \/ DriverRestart
  BY <1>2, WriteFrameKeeps, DriverRestartKeeps
<1>3. CASE MainLoop
  BY <1>3, ReceiveKeeps, EnqueueKeeps, HoldKeeps, SubmitKeeps, FinishKeeps, ReplayHeldKeeps DEF MainLoop
<1>4. CASE ExpirePending \/ ExpireMap \/ DropOldest
  BY <1>4, ExpireKeeps, DropOldestKeeps
<1>5. CASE StreamsExpect \/ WritingStart
  BY <1>5, StreamsExpectKeeps, WritingStartKeeps
<1>6. CASE WritingStop \/ Rotate
  <2>1. PICK k \in Ops : BeginFileOp(k)
    BY <1>6 DEF WritingStop, Rotate, Ops
  <2> QED
    BY <2>1, BeginFileOpKeeps
<1>7. CASE BgLoop
  BY <1>7, BgTakeKeeps, BgWriteKeeps, BgStopKeeps, BgRotateKeeps DEF BgLoop
<1>8. CASE BgWriteRaises \/ BgRotateFails \/ BgDies
  BY <1>8, BgWriteRaisesKeeps, BgRotateFailsKeeps, BgDiesKeeps
<1>9. CASE Shutdown \/ Close \/ CloseForced
  BY <1>9, ShutdownKeeps, CloseKeeps, CloseForcedKeeps
<1> QED
  BY <1>1, <1>2, <1>3, <1>4, <1>5, <1>6, <1>7, <1>8, <1>9 DEF Next

\* The frames of the writer are always in one place: in memory, in one request,
\* in one file or failed, and what a stop, a rotate or a close owes is written
\* or still on its way to the open file.
THEOREM HdfInductive == Spec => []HdfInv
<1>1. Init => HdfInv
  BY HdfInit
<1>2. HdfInv /\ [Next]_vars => HdfInv'
  BY HdfStep
<1> QED
  BY <1>1, <1>2, PTL DEF Spec

\* A row carries the context its frame was acquired under or none, and a file
\* that ended with acquisition_ok has all the rows that were expected, unless
\* writing its verdict raised, whatever else raised before, for any number of
\* rings, frames, files, failures and any limits of the queues.
THEOREM FilesAreTruthful == Spec => []FilesTruthful
<1>1. HdfInv => FilesTruthful
  <2> SUFFICES ASSUME HdfInv PROVE FilesTruthful
    OBVIOUS
  <2>1. SoundFiles(ring, files)
    BY DEF HdfInv, FilesInv
  <2>2. ASSUME NEW p \in Places
        PROVE  Row(p).c \in {Unknown, ring[Row(p).g][Row(p).n]}
    <3>1. PICK f \in DOMAIN files : \E i \in DOMAIN files[f].rows : p = <<f, i>>
      BY <2>2 DEF Places
    <3>2. PICK i \in DOMAIN files[f].rows : p = <<f, i>>
      BY <3>1
    <3>3. Row(p) = files[f].rows[i]
      BY <3>2 DEF Row
    <3>4. Genuine(ring, files[f].rows[i])
      BY <2>1 DEF SoundFiles, GenuineRows
    <3> QED
      BY <3>3, <3>4 DEF Genuine
  <2>3. VerdictSound
    BY <2>1, Zenon DEF SoundFiles, VerdictSound, CountOf, Judged
  <2> QED
    BY <2>2, <2>3 DEF FilesTruthful, ContextFaithful
<1> QED
  BY <1>1, HdfInductive, PTL

\* A successful stop or rotate leaves in its file exactly what was in the file,
\* in memory or queued at the request and did not fail, a close that joined the
\* thread leaves nothing behind, and no frame is written twice.
THEOREM FramesAreKeptOnce == Spec => []FramesKeptOnce
<1>1. HdfInv => FramesKeptOnce
  <2> SUFFICES ASSUME HdfInv PROVE FramesKeptOnce
    OBVIOUS
  <2>1. CutAtTheRequest
    BY DEF HdfInv, CutInv, CutAtTheRequest
  <2>2. CloseLossless
    BY DEF HdfInv, CloseInv, CloseLossless, WrittenIn
  <2>3. SoundFiles(ring, files)
    BY DEF HdfInv, FilesInv
  <2>4. ASSUME NEW p \in Places, NEW q \in Places, p # q
        PROVE  <<FrameOf(Row(p)), Row(p).a>> # <<FrameOf(Row(q)), Row(q).a>>
    <3>1. PICK f \in DOMAIN files : \E i \in DOMAIN files[f].rows : p = <<f, i>>
      BY <2>4 DEF Places
    <3>2. PICK i \in DOMAIN files[f].rows : p = <<f, i>>
      BY <3>1
    <3>3. PICK e \in DOMAIN files : \E j \in DOMAIN files[e].rows : q = <<e, j>>
      BY <2>4 DEF Places
    <3>4. PICK j \in DOMAIN files[e].rows : q = <<e, j>>
      BY <3>3
    <3>5. PICK r, s : r = files[f].rows[i] /\ s = files[e].rows[j]
      OBVIOUS
    <3>6. Row(p) = r /\ Row(q) = s
      BY <3>2, <3>4, <3>5 DEF Row
    <3>7. Id(r) # Id(s)
      <4>1. CASE f = e
        <5>1. i # j
          BY <2>4, <3>2, <3>4, <4>1
        <5>2. Injective(files[f].rows)
          BY <2>3 DEF SoundFiles, GenuineRows
        <5> QED
          BY <3>5, <4>1, <5>1, <5>2 DEF Injective
      <4>2. CASE f # e
        <5>1. FramesOf(files[f].rows) \cap FramesOf(files[e].rows) = {}
          BY <2>3, <4>2 DEF SoundFiles
        <5>2. Id(r) \in FramesOf(files[f].rows)
          BY <3>5, FramesAreIds
        <5>3. Id(s) \in FramesOf(files[e].rows)
          BY <3>5, FramesAreIds
        <5> QED
          BY <5>1, <5>2, <5>3
      <4> QED
        BY <4>1, <4>2
    <3>8. FrameOf(r) # FrameOf(s) \/ r.a # s.a
      BY <3>7 DEF Id
    <3> QED
      BY <3>6, <3>8
  <2> QED
    BY <2>1, <2>2, <2>4 DEF FramesKeptOnce, NoFrameTwice
<1> QED
  BY <1>1, HdfInductive, PTL

=============================================================================
