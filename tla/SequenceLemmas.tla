---------------------------- MODULE SequenceLemmas --------------------------
(***************************************************************************)
(* What the proofs need to know of vectors that elements are erased from   *)
(* and inserted into, of counting elements of a vector and values of a     *)
(* function, of the first of the greatest and the smallest of finitely     *)
(* many numbers, and of positions in the order of a relation, as a sort of *)
(* the standard library leaves them.                                       *)
(***************************************************************************)
EXTENDS Ranking, Integers, Sequences, FiniteSets, SequencesExt,
        FiniteSetTheorems, FunctionTheorems, SequenceTheorems,
        WellFoundedInduction, TLAPS

\* vector::erase(): the other elements stay, in their order.
LEMMA RemoveAtProperties ==
  ASSUME NEW S, NEW s \in Seq(S), NEW i \in 1 .. Len(s)
  PROVE  /\ RemoveAt(s, i) \in Seq(S)
         /\ Len(RemoveAt(s, i)) = Len(s) - 1
         /\ \A k \in 1 .. Len(s) - 1 :
              RemoveAt(s, i)[k] = IF k < i THEN s[k] ELSE s[k + 1]
<1> DEFINE a == SubSeq(s, 1, i - 1)
           b == SubSeq(s, i + 1, Len(s))
<1>1. /\ a \in Seq(S) /\ Len(a) = i - 1
      /\ \A k \in 1 .. i - 1 : a[k] = s[k]
  OBVIOUS
<1>2. /\ b \in Seq(S) /\ Len(b) = Len(s) - i
      /\ \A k \in 1 .. Len(s) - i : b[k] = s[i + k]
  OBVIOUS
<1>3. RemoveAt(s, i) = a \o b
  BY DEF RemoveAt
<1> HIDE DEF a, b
<1>4. /\ a \o b \in Seq(S)
      /\ Len(a \o b) = Len(s) - 1
      /\ \A k \in 1 .. Len(s) - 1 :
           (a \o b)[k] = IF k =< i - 1 THEN a[k] ELSE b[k - (i - 1)]
  <2>1. /\ a \o b \in Seq(S) /\ Len(a \o b) = Len(a) + Len(b)
        /\ \A k \in 1 .. Len(a) + Len(b) :
             (a \o b)[k] = IF k =< Len(a) THEN a[k] ELSE b[k - Len(a)]
    BY <1>1, <1>2, ConcatProperties
  <2>2. Len(a) + Len(b) = Len(s) - 1
    BY <1>1, <1>2
  <2> QED BY <1>1, <2>1, <2>2
<1>5. ASSUME NEW k \in 1 .. Len(s) - 1
      PROVE  (a \o b)[k] = IF k < i THEN s[k] ELSE s[k + 1]
  <2>1. CASE k < i
    BY <1>1, <1>4, <2>1
  <2>2. CASE ~(k < i)
    <3>1. k - (i - 1) \in 1 .. Len(s) - i
      BY <2>2
    <3>2. b[k - (i - 1)] = s[i + (k - (i - 1))]
      BY <1>2, <3>1
    <3> QED BY <1>4, <2>2, <3>2
  <2> QED BY <2>1, <2>2
<1> QED BY <1>3, <1>4, <1>5

\* vector::insert(): the new element comes to its place, the others stay in
\* their order.
LEMMA InsertAtProperties ==
  ASSUME NEW S, NEW s \in Seq(S), NEW i \in 1 .. Len(s) + 1, NEW e \in S
  PROVE  /\ InsertAt(s, i, e) \in Seq(S)
         /\ Len(InsertAt(s, i, e)) = Len(s) + 1
         /\ \A k \in 1 .. Len(s) + 1 :
              InsertAt(s, i, e)[k] = IF k < i THEN s[k] ELSE IF k = i THEN e ELSE s[k - 1]
<1> DEFINE a == SubSeq(s, 1, i - 1)
           b == SubSeq(s, i, Len(s))
           c == a \o <<e>>
<1>1. /\ a \in Seq(S) /\ Len(a) = i - 1
      /\ \A k \in 1 .. i - 1 : a[k] = s[k]
  OBVIOUS
<1>2. /\ b \in Seq(S) /\ Len(b) = Len(s) + 1 - i
      /\ \A k \in 1 .. Len(s) + 1 - i : b[k] = s[i + k - 1]
  OBVIOUS
<1>3. <<e>> \in Seq(S) /\ Len(<<e>>) = 1 /\ <<e>>[1] = e
  OBVIOUS
<1>4. InsertAt(s, i, e) = c \o b
  BY DEF InsertAt
<1> HIDE DEF a, b
<1>5. /\ c \in Seq(S) /\ Len(c) = i
      /\ \A k \in 1 .. i : c[k] = IF k < i THEN s[k] ELSE e
  <2>1. /\ c \in Seq(S) /\ Len(c) = Len(a) + 1
        /\ \A k \in 1 .. Len(a) + 1 :
             c[k] = IF k =< Len(a) THEN a[k] ELSE <<e>>[k - Len(a)]
    BY <1>1, <1>3, ConcatProperties
  <2> QED BY <1>1, <1>3, <2>1
<1> HIDE DEF c
<1>6. /\ c \o b \in Seq(S) /\ Len(c \o b) = Len(s) + 1
      /\ \A k \in 1 .. Len(s) + 1 : (c \o b)[k] = IF k =< i THEN c[k] ELSE b[k - i]
  <2>1. /\ c \o b \in Seq(S) /\ Len(c \o b) = Len(c) + Len(b)
        /\ \A k \in 1 .. Len(c) + Len(b) :
             (c \o b)[k] = IF k =< Len(c) THEN c[k] ELSE b[k - Len(c)]
    BY <1>2, <1>5, ConcatProperties
  <2>2. Len(c) + Len(b) = Len(s) + 1
    BY <1>2, <1>5
  <2> QED BY <1>5, <2>1, <2>2
<1>7. ASSUME NEW k \in 1 .. Len(s) + 1
      PROVE  (c \o b)[k] = IF k < i THEN s[k] ELSE IF k = i THEN e ELSE s[k - 1]
  <2>1. CASE k \in 1 .. i
    BY <1>5, <1>6, <2>1
  <2>2. CASE k \notin 1 .. i
    <3>1. k - i \in 1 .. Len(s) + 1 - i
      BY <2>2
    <3>2. b[k - i] = s[i + (k - i) - 1]
      BY <1>2, <3>1
    <3> QED BY <1>6, <2>2, <3>2
  <2> QED BY <2>1, <2>2
<1> QED BY <1>4, <1>6, <1>7

\* The elements at the beginning that all satisfy a condition are as many as
\* the place of the last of them.
LEMMA CountOfPrefix ==
  ASSUME NEW n \in Nat, NEW S \in SUBSET (1 .. n),
         \A k \in S : 1 .. k \subseteq S
  PROVE  Cardinality(S) \in 0 .. n /\ S = 1 .. Cardinality(S)
<1> DEFINE c == Cardinality(S)
<1>1. IsFiniteSet(1 .. n) /\ Cardinality(1 .. n) = n
  BY FS_Interval
<1>2. IsFiniteSet(S) /\ c \in Nat /\ c =< n
  BY <1>1, FS_Subset, FS_CardinalityType
<1>3. IsFiniteSet(1 .. c) /\ Cardinality(1 .. c) = c
  BY <1>2, FS_Interval
<1>4. 1 .. c \subseteq S
  <2>1. CASE c = 0
    BY <2>1
  <2>2. CASE c # 0
    <3> HIDE DEF c
    <3>1. IsFiniteSet(1 .. c - 1) /\ Cardinality(1 .. c - 1) = c - 1
      BY <1>2, <2>2, FS_Interval
    <3>2. ASSUME c \notin S, NEW k \in S PROVE k \in 1 .. c - 1
      <4>1. k \in 1 .. n /\ c \notin 1 .. k
        BY <3>2
      <4> QED BY <1>2, <2>2, <4>1
    <3>3. c \in S
      <4> SUFFICES ASSUME c \notin S PROVE FALSE
        OBVIOUS
      <4>1. S \in SUBSET (1 .. c - 1)
        BY <3>2
      <4>2. Cardinality(S) =< Cardinality(1 .. c - 1)
        <5> HIDE DEF c
        <5> QED BY <3>1, <4>1, FS_Subset
      <4> QED BY <1>2, <3>1, <4>2 DEF c
    <3> QED BY <3>3
  <2> QED BY <2>1, <2>2
<1>5. S = 1 .. c
  BY <1>2, <1>3, <1>4, FS_Subset
<1> QED BY <1>2, <1>5

\* Among finitely many integers one is the first of the greatest.
LEMMA FirstGreatest ==
  ASSUME NEW n \in Nat \ {0}, NEW key \in [0 .. n - 1 -> Int]
  PROVE  \E o \in 0 .. n - 1 :
            /\ \A q \in 0 .. n - 1 : key[q] =< key[o]
            /\ \A q \in 0 .. o - 1 : key[q] < key[o]
<1> DEFINE I == 0 .. n - 1
           Better(o) == {q \in I : key[q] > key[o] \/ (key[q] = key[o] /\ q < o)}
           All == {Better(o) : o \in I}
           R == StrictSubsetOrdering(I)
<1>1. IsWellFoundedOn(R, SUBSET I)
  <2>1. IsFiniteSet(I)
    BY FS_Interval
  <2>2. FiniteSubsetsOf(I) = SUBSET I
    BY <2>1, FS_FiniteSubsetsOfFinite
  <2> QED BY <2>2, FS_StrictSubsetOrderingWellFounded
<1>2. All \subseteq SUBSET I /\ All # {}
  <2>1. 0 \in I
    OBVIOUS
  <2>2. \A o \in I : Better(o) \in SUBSET I
    OBVIOUS
  <2> HIDE DEF Better, I
  <2> QED BY <2>1, <2>2
<1>3. PICK B \in All : \A C \in All : ~ (<<C, B>> \in R)
  <2> HIDE DEF All, R
  <2> QED BY <1>1, <1>2, WFMin
<1>4. PICK o \in I : B = Better(o)
  BY <1>3
<1>5. Better(o) = {}
  <2>1. SUFFICES ASSUME NEW q \in Better(o) PROVE FALSE
    OBVIOUS
  <2>2. q \in I /\ Better(q) \subseteq Better(o)
    OBVIOUS
  <2>3. q \notin Better(q)
    BY <2>2
  <2>4. <<Better(q), Better(o)>> \in R
    <3> HIDE DEF Better
    <3>1. Better(q) \in SUBSET I /\ Better(o) \in SUBSET I
      BY DEF Better
    <3> QED BY <2>1, <2>2, <2>3, <3>1 DEF StrictSubsetOrdering
  <2>5. Better(q) \in All
    BY <2>2
  <2> QED BY <1>3, <1>4, <2>4, <2>5
<1>6. \A q \in I : key[q] =< key[o] /\ (q < o => key[q] < key[o])
  BY <1>4, <1>5
<1> QED BY <1>4, <1>6

\* A set of small numbers has a smallest one.
LEMMA SmallestExists ==
  ASSUME NEW n \in Nat, NEW T \in SUBSET (0 .. n), T # {}
  PROVE  Min(T) \in T /\ \A q \in T : Min(T) =< q
<1> DEFINE key == [q \in 0 .. n |-> IF q \in T THEN 1 ELSE 0]
<1>1. n + 1 \in Nat \ {0} /\ 0 .. (n + 1) - 1 = 0 .. n
  OBVIOUS
<1>2. key \in [0 .. (n + 1) - 1 -> Int]
  BY <1>1
<1>3. PICK o \in 0 .. n : /\ \A q \in 0 .. n : key[q] =< key[o]
                          /\ \A q \in 0 .. o - 1 : key[q] < key[o]
  <2> HIDE DEF key
  <2> QED BY <1>1, <1>2, FirstGreatest
<1>4. o \in T
  <2>1. PICK q \in T : TRUE
    OBVIOUS
  <2>2. q \in 0 .. n /\ key[q] = 1
    OBVIOUS
  <2>3. key[q] =< key[o] /\ (o \notin T => key[o] = 0)
    BY <1>3, <2>2
  <2> HIDE DEF key
  <2> QED BY <2>2, <2>3
<1>5. ASSUME NEW q \in T PROVE o =< q
  <2>1. q \in 0 .. n /\ key[q] = 1 /\ key[o] = 1
    BY <1>4
  <2>2. ASSUME q < o PROVE FALSE
    <3>1. q \in 0 .. o - 1
      BY <2>1, <2>2
    <3> HIDE DEF key
    <3> QED BY <1>3, <2>1, <3>1
  <2> QED BY <2>1, <2>2
<1> HIDE DEF key
<1> QED BY <1>4, <1>5 DEF Min

\* And a greatest one.
LEMMA GreatestExists ==
  ASSUME NEW n \in Nat, NEW T \in SUBSET (0 .. n), T # {}
  PROVE  Max(T) \in T /\ \A q \in T : q =< Max(T)
<1> DEFINE key == [q \in 0 .. n |-> IF q \in T THEN q ELSE -1]
<1>1. key \in [0 .. (n + 1) - 1 -> Int] /\ n + 1 \in Nat \ {0}
  <2>1. (n + 1) - 1 = n
    OBVIOUS
  <2> QED BY <2>1
<1>2. PICK o \in 0 .. (n + 1) - 1 : \A q \in 0 .. (n + 1) - 1 : key[q] =< key[o]
  <2> HIDE DEF key
  <2> QED BY <1>1, FirstGreatest
<1>3. \A q \in T : q \in 0 .. (n + 1) - 1 /\ key[q] = q
  OBVIOUS
<1>4. o \in T
  <2>1. PICK q \in T : TRUE
    OBVIOUS
  <2>2. key[q] \in Nat /\ key[q] =< key[o]
    BY <1>2, <1>3
  <2>3. o \in 0 .. n
    OBVIOUS
  <2> QED BY <2>2, <2>3
<1>5. \A q \in T : o >= q
  BY <1>2, <1>3, <1>4
<1>6. Max(T) \in T /\ \A q \in T : Max(T) >= q
  BY <1>4, <1>5 DEF Max
<1> QED BY <1>6
-----------------------------------------------------------------------------
\* Where a vector holds an element of T, and whether one element is one.
PlacesOf(s, T) == {i \in DOMAIN s : s[i] \in T}
OneIfIn(e, T) == IF e \in T THEN 1 ELSE 0

\* A vector has finitely many places.
LEMMA PlacesFinite ==
  ASSUME NEW S, NEW s \in Seq(S), NEW T
  PROVE  IsFiniteSet(PlacesOf(s, T)) /\ Cardinality(PlacesOf(s, T)) \in Nat
<1>1. IsFiniteSet(1 .. Len(s)) /\ PlacesOf(s, T) \in SUBSET (1 .. Len(s))
  BY FS_Interval DEF PlacesOf
<1> QED BY <1>1, FS_Subset, FS_CardinalityType

\* push_back(): one more place if the element is in T.
LEMMA PlacesAppend ==
  ASSUME NEW S, NEW s \in Seq(S), NEW e \in S, NEW T
  PROVE  Cardinality(PlacesOf(Append(s, e), T)) = Cardinality(PlacesOf(s, T)) + OneIfIn(e, T)
<1>1. PlacesOf(Append(s, e), T) =
        IF e \in T THEN PlacesOf(s, T) \cup {Len(s) + 1} ELSE PlacesOf(s, T)
  <2>1. /\ DOMAIN Append(s, e) = 1 .. Len(s) + 1 /\ DOMAIN s = 1 .. Len(s)
        /\ Append(s, e)[Len(s) + 1] = e
        /\ \A i \in 1 .. Len(s) : Append(s, e)[i] = s[i]
    OBVIOUS
  <2> QED BY <2>1 DEF PlacesOf
<1>2. Len(s) + 1 \notin PlacesOf(s, T)
  BY DEF PlacesOf
<1>3. Cardinality(PlacesOf(s, T) \cup {Len(s) + 1}) = Cardinality(PlacesOf(s, T)) + 1
  BY <1>2, PlacesFinite, FS_AddElement
<1> QED BY <1>1, <1>3, PlacesFinite DEF OneIfIn

\* A vector without its element i has the other places of T.
LEMMA PlacesWithout ==
  ASSUME NEW S, NEW s \in Seq(S), NEW i \in 1 .. Len(s), NEW u \in Seq(S), NEW T,
         Len(u) = Len(s) - 1,
         \A k \in 1 .. Len(s) - 1 : u[k] = IF k < i THEN s[k] ELSE s[k + 1]
  PROVE  Cardinality(PlacesOf(u, T)) = Cardinality(PlacesOf(s, T)) - OneIfIn(s[i], T)
<1> DEFINE A == PlacesOf(u, T)
           B == PlacesOf(s, T) \ {i}
           f == [k \in A |-> IF k < i THEN k ELSE k + 1]
<1>1. /\ DOMAIN s = 1 .. Len(s) /\ DOMAIN u = 1 .. Len(s) - 1 /\ Len(s) \in Nat /\ i \in Nat
      /\ A \subseteq 1 .. Len(s) - 1 /\ \A k \in A : u[k] \in T
  BY DEF PlacesOf
<1>2. f \in [A -> B]
  <2>1. ASSUME NEW k \in A PROVE f[k] \in B
    BY <1>1 DEF PlacesOf
  <2> QED BY <2>1
<1>3. ASSUME NEW j \in B PROVE \E k \in A : f[k] = j
  <2>1. j \in 1 .. Len(s) /\ j # i /\ s[j] \in T
    BY <1>1 DEF PlacesOf
  <2>2. CASE j < i
    <3>1. j \in 1 .. Len(s) - 1 /\ u[j] = s[j]
      BY <1>1, <2>1, <2>2
    <3>2. j \in A
      BY <1>1, <2>1, <3>1 DEF PlacesOf
    <3> QED BY <2>2, <3>2
  <2>3. CASE j > i
    <3>1. j - 1 \in 1 .. Len(s) - 1 /\ ~(j - 1 < i) /\ (j - 1) + 1 = j
      BY <1>1, <2>1, <2>3
    <3>2. u[j - 1] = s[j]
      BY <3>1
    <3>3. j - 1 \in A
      BY <1>1, <2>1, <3>1, <3>2 DEF PlacesOf
    <3> QED BY <3>1, <3>3
  <2> QED BY <1>1, <2>1, <2>2, <2>3
<1>4. \A k, j \in A : f[k] = f[j] => k = j
  BY <1>1
<1> HIDE DEF f, A, B
<1>5. f \in Bijection(A, B)
  BY <1>2, <1>3, <1>4, Fun_IsBij
<1>6. IsFiniteSet(A) /\ ExistsBijection(A, B)
  BY <1>5, PlacesFinite DEF A, ExistsBijection
<1>7. Cardinality(B) = Cardinality(A)
  BY <1>6, FS_Bijection
<1>8. Cardinality(B) = Cardinality(PlacesOf(s, T)) - OneIfIn(s[i], T)
  <2>1. i \in PlacesOf(s, T) <=> s[i] \in T
    BY <1>1 DEF PlacesOf
  <2>2. CASE s[i] \in T
    BY <2>1, <2>2, PlacesFinite, FS_RemoveElement DEF B, OneIfIn
  <2>3. CASE s[i] \notin T
    <3>1. B = PlacesOf(s, T)
      BY <2>1, <2>3 DEF B
    <3> QED BY <2>3, <3>1, PlacesFinite DEF OneIfIn
  <2> QED BY <2>2, <2>3
<1> QED BY <1>7, <1>8 DEF A

\* Removing the first element.
LEMMA PlacesTail ==
  ASSUME NEW S, NEW s \in Seq(S), s # <<>>, NEW T
  PROVE  Cardinality(PlacesOf(Tail(s), T)) = Cardinality(PlacesOf(s, T)) - OneIfIn(Head(s), T)
<1>1. /\ Tail(s) \in Seq(S) /\ Len(Tail(s)) = Len(s) - 1 /\ 1 \in 1 .. Len(s)
      /\ \A k \in 1 .. Len(s) - 1 : Tail(s)[k] = IF k < 1 THEN s[k] ELSE s[k + 1]
      /\ Head(s) = s[1]
  OBVIOUS
<1> DEFINE u == Tail(s)
<1>2. u \in Seq(S) /\ Len(u) = Len(s) - 1
      /\ \A k \in 1 .. Len(s) - 1 : u[k] = IF k < 1 THEN s[k] ELSE s[k + 1]
  BY <1>1
<1> HIDE DEF u
<1>3. Cardinality(PlacesOf(u, T)) = Cardinality(PlacesOf(s, T)) - OneIfIn(s[1], T)
  BY <1>1, <1>2, PlacesWithout
<1> QED BY <1>1, <1>3 DEF u

\* vector::erase().
LEMMA PlacesRemoveAt ==
  ASSUME NEW S, NEW s \in Seq(S), NEW i \in 1 .. Len(s), NEW T
  PROVE  Cardinality(PlacesOf(RemoveAt(s, i), T)) =
           Cardinality(PlacesOf(s, T)) - OneIfIn(s[i], T)
BY RemoveAtProperties, PlacesWithout
-----------------------------------------------------------------------------
\* What a vector holds after push_back(), after its first element has gone, and
\* after erase().
LEMMA RangeAppend ==
  ASSUME NEW S, NEW s \in Seq(S), NEW e \in S
  PROVE  Range(Append(s, e)) = Range(s) \cup {e}
<1>1. /\ DOMAIN Append(s, e) = 1 .. Len(s) + 1 /\ DOMAIN s = 1 .. Len(s) /\ Len(s) \in Nat
      /\ Append(s, e)[Len(s) + 1] = e
      /\ \A i \in 1 .. Len(s) : Append(s, e)[i] = s[i]
  OBVIOUS
<1> DEFINE u == Append(s, e)
<1>2. \A i \in DOMAIN u : i \in 1 .. Len(s) \/ i = Len(s) + 1
  BY <1>1
<1>3. Len(s) + 1 \in DOMAIN u /\ 1 .. Len(s) \subseteq DOMAIN u
  BY <1>1
<1> HIDE DEF u
<1> QED BY <1>1, <1>2, <1>3 DEF Range, u

LEMMA RangeTail ==
  ASSUME NEW S, NEW s \in Seq(S), s # <<>>
  PROVE  Range(Tail(s)) \subseteq Range(s) /\ Head(s) \in Range(s)
<1>1. /\ DOMAIN Tail(s) = 1 .. Len(s) - 1 /\ DOMAIN s = 1 .. Len(s) /\ Len(s) \in Nat \ {0}
      /\ \A i \in 1 .. Len(s) - 1 : Tail(s)[i] = s[i + 1] /\ i + 1 \in 1 .. Len(s)
      /\ Head(s) = s[1] /\ 1 \in 1 .. Len(s)
  OBVIOUS
<1> QED BY <1>1 DEF Range

LEMMA RangeRemoveAt ==
  ASSUME NEW S, NEW s \in Seq(S), NEW i \in 1 .. Len(s)
  PROVE  Range(RemoveAt(s, i)) \subseteq Range(s) /\ s[i] \in Range(s)
<1> DEFINE u == RemoveAt(s, i)
<1>1. /\ DOMAIN u = 1 .. Len(s) - 1 /\ DOMAIN s = 1 .. Len(s)
      /\ \A k \in 1 .. Len(s) - 1 : u[k] = IF k < i THEN s[k] ELSE s[k + 1]
      /\ \A k \in 1 .. Len(s) - 1 : k \in 1 .. Len(s) /\ k + 1 \in 1 .. Len(s)
  BY RemoveAtProperties
<1> HIDE DEF u
<1>2. Range(u) \subseteq Range(s)
  BY <1>1 DEF Range
<1> QED BY <1>1, <1>2 DEF Range, u

\* erase() from a vector without duplicates takes just that element from it.
LEMMA ErasedOnce ==
  ASSUME NEW S, NEW s \in Seq(S), IsInjective(s), NEW i \in 1 .. Len(s)
  PROVE  /\ RemoveAt(s, i) \in Seq(S) /\ IsInjective(RemoveAt(s, i))
         /\ Range(RemoveAt(s, i)) = Range(s) \ {s[i]}
<1> DEFINE t == RemoveAt(s, i)
<1>1. /\ t \in Seq(S) /\ Len(t) = Len(s) - 1
      /\ \A k \in 1 .. Len(s) - 1 : t[k] = IF k < i THEN s[k] ELSE s[k + 1]
  BY RemoveAtProperties
<1> HIDE DEF t
<1>2. DOMAIN t = 1 .. Len(s) - 1 /\ DOMAIN s = 1 .. Len(s) /\ Len(s) \in Nat
  BY <1>1
<1>3. IsInjective(t)
  <2>1. \A a, b \in 1 .. Len(s) : s[a] = s[b] => a = b
    BY <1>2 DEF IsInjective
  <2>2. ASSUME NEW a \in 1 .. Len(s) - 1, NEW b \in 1 .. Len(s) - 1, t[a] = t[b] PROVE a = b
    <3>1. /\ a \in 1 .. Len(s) /\ a + 1 \in 1 .. Len(s)
          /\ b \in 1 .. Len(s) /\ b + 1 \in 1 .. Len(s)
      BY <1>2
    <3> DEFINE A == IF a < i THEN a ELSE a + 1
               B == IF b < i THEN b ELSE b + 1
    <3>2. A \in 1 .. Len(s) /\ B \in 1 .. Len(s) /\ t[a] = s[A] /\ t[b] = s[B]
      BY <1>1, <3>1
    <3>3. A = B => a = b
      OBVIOUS
    <3> HIDE DEF A, B
    <3> QED BY <2>1, <2>2, <3>2, <3>3
  <2> QED BY <1>2, <2>2 DEF IsInjective
<1>4. ASSUME NEW k \in 1 .. Len(s) - 1 PROVE t[k] \in Range(s) \ {s[i]}
  <2>1. CASE k < i
    <3>1. k \in 1 .. Len(s) /\ t[k] = s[k] /\ k # i
      BY <1>1, <2>1
    <3> QED BY <1>2, <3>1 DEF IsInjective, Range
  <2>2. CASE ~(k < i)
    <3>1. k + 1 \in 1 .. Len(s) /\ t[k] = s[k + 1] /\ k + 1 # i
      BY <1>1, <2>2
    <3> QED BY <1>2, <3>1 DEF IsInjective, Range
  <2> QED BY <2>1, <2>2
<1>5. ASSUME NEW j \in 1 .. Len(s), j # i PROVE s[j] \in Range(t)
  <2>1. CASE j < i
    <3>1. j \in DOMAIN t /\ t[j] = s[j]
      BY <1>1, <1>2, <2>1
    <3> QED BY <3>1 DEF Range
  <2>2. CASE j > i
    <3>1. j - 1 \in DOMAIN t /\ t[j - 1] = s[j]
      BY <1>1, <1>2, <2>2
    <3> QED BY <3>1 DEF Range
  <2> QED BY <1>5, <2>1, <2>2
<1>6. Range(t) = Range(s) \ {s[i]}
  <2>1. Range(t) \subseteq Range(s) \ {s[i]}
    BY <1>2, <1>4 DEF Range
  <2>2. Range(s) \ {s[i]} \subseteq Range(t)
    BY <1>2, <1>5 DEF Range
  <2> QED BY <2>1, <2>2
<1> QED BY <1>1, <1>3, <1>6 DEF t

\* push_back() of a new element keeps a vector without duplicates.
LEMMA AppendedOnce ==
  ASSUME NEW S, NEW s \in Seq(S), IsInjective(s), NEW e \in S, e \notin Range(s)
  PROVE  /\ Append(s, e) \in Seq(S) /\ IsInjective(Append(s, e))
         /\ Range(Append(s, e)) = Range(s) \cup {e}
<1> DEFINE t == Append(s, e)
<1>1. /\ DOMAIN t = 1 .. Len(s) + 1 /\ DOMAIN s = 1 .. Len(s) /\ Len(s) \in Nat
      /\ t[Len(s) + 1] = e /\ t \in Seq(S)
      /\ \A i \in 1 .. Len(s) : t[i] = s[i]
  OBVIOUS
<1> HIDE DEF t
<1>2. \A i \in 1 .. Len(s) : s[i] # e
  BY <1>1 DEF Range
<1>3. \A a, b \in 1 .. Len(s) : s[a] = s[b] => a = b
  BY <1>1 DEF IsInjective
<1>4. IsInjective(t)
  BY <1>1, <1>2, <1>3 DEF IsInjective
<1> QED BY <1>1, <1>4, RangeAppend DEF t
-----------------------------------------------------------------------------
\* Where a function has the value v.
HavingValue(f, v) == {d \in DOMAIN f : f[d] = v}

\* Changing one value of a function with a finite domain changes by one how
\* often the old and the new value occur.
LEMMA ValueCountMoves ==
  ASSUME NEW D, IsFiniteSet(D), NEW f, NEW g, DOMAIN f = D, DOMAIN g = D, NEW t \in D,
         \A d \in D \ {t} : g[d] = f[d], NEW v
  PROVE  Cardinality(HavingValue(g, v)) =
           Cardinality(HavingValue(f, v)) + OneIfIn(g[t], {v}) - OneIfIn(f[t], {v})
<1> DEFINE A == HavingValue(f, v) \ {t}
<1>1. /\ HavingValue(f, v) = IF f[t] = v THEN A \cup {t} ELSE A
      /\ HavingValue(g, v) = IF g[t] = v THEN A \cup {t} ELSE A
  BY DEF HavingValue
<1>2. IsFiniteSet(A) /\ t \notin A /\ Cardinality(A) \in Nat
  <2>1. A \in SUBSET D
    BY DEF HavingValue
  <2> QED BY <2>1, FS_Subset, FS_CardinalityType
<1>3. Cardinality(A \cup {t}) = Cardinality(A) + 1
  BY <1>2, FS_AddElement
<1> HIDE DEF A
<1> QED BY <1>1, <1>2, <1>3 DEF OneIfIn

-----------------------------------------------------------------------------
(***************************************************************************)
(* Sorting.                                                                *)
(***************************************************************************)
\* A strict order in which of two elements one is always before the other.
IsOrder(R, S) ==
    /\ \A a \in S : <<a, a>> \notin R
    /\ \A a, b \in S : a # b => <<a, b>> \in R \/ <<b, a>> \in R
    /\ \A a, b, c \in S : <<a, b>> \in R /\ <<b, c>> \in R => <<a, c>> \in R

\* A ranking has every element once, and each before those it shall be before.
LEMMA RankedIs ==
  ASSUME NEW S, IsFiniteSet(S), NEW R, IsOrder(R, S)
  PROVE  /\ Cardinality(S) \in Nat
         /\ Ranked(S, R) \in [1 .. Cardinality(S) -> S]
         /\ \A k, l \in 1 .. Cardinality(S) : k < l => <<Ranked(S, R)[k], Ranked(S, R)[l]>> \in R
         /\ \A i \in S : \E k \in 1 .. Cardinality(S) : Ranked(S, R)[k] = i
<1> DEFINE n == Cardinality(S)
           Below(i) == {j \in S : <<j, i>> \in R}
           rank == [i \in S |-> Cardinality(Below(i)) + 1]
           r == Ranked(S, R)
<1>1. n \in Nat
  BY FS_CardinalityType
<1>2. ASSUME NEW i \in S
      PROVE  /\ IsFiniteSet(Below(i)) /\ Cardinality(Below(i)) \in Nat
             /\ Cardinality(Below(i)) + 1 \in 1 .. n
  <2>1. IsFiniteSet(S \ {i}) /\ Cardinality(S \ {i}) = n - 1
    BY FS_RemoveElement
  <2>2. Below(i) \in SUBSET (S \ {i})
    BY DEF IsOrder
  <2> HIDE DEF Below
  <2>3. /\ IsFiniteSet(Below(i)) /\ Cardinality(Below(i)) =< Cardinality(S \ {i})
        /\ Cardinality(Below(i)) \in Nat
    BY <2>1, <2>2, FS_Subset, FS_CardinalityType
  <2> QED BY <1>1, <2>1, <2>3
<1>3. ASSUME NEW a \in S, NEW b \in S, <<a, b>> \in R
      PROVE  Cardinality(Below(a)) < Cardinality(Below(b))
  <2>1. Below(a) \cup {a} \in SUBSET Below(b) /\ a \notin Below(a)
    BY <1>3 DEF IsOrder
  <2> HIDE DEF Below
  <2>2. Cardinality(Below(a) \cup {a}) = Cardinality(Below(a)) + 1
    BY <1>2, <2>1, FS_AddElement
  <2>3. Cardinality(Below(a) \cup {a}) =< Cardinality(Below(b))
    BY <1>2, <2>1, FS_Subset
  <2> QED BY <1>2, <2>2, <2>3
<1>4. \A k \in 1 .. n : r[k] = CHOOSE i \in S : Cardinality(Below(i)) = k - 1
  BY DEF Ranked
<1>5. r = [k \in 1 .. n |-> CHOOSE i \in S : Cardinality(Below(i)) = k - 1]
  BY DEF Ranked
<1> HIDE DEF Below, n, r
<1>6. rank \in Injection(S, 1 .. n)
  <2>1. rank \in [S -> 1 .. n]
    BY <1>2
  <2>2. ASSUME NEW a \in S, NEW b \in S, rank[a] = rank[b] PROVE a = b
    <3>1. Cardinality(Below(a)) = Cardinality(Below(b))
      BY <1>2, <2>2
    <3>2. Cardinality(Below(a)) \in Nat /\ Cardinality(Below(b)) \in Nat
      BY <1>2
    <3>3. <<a, b>> \notin R /\ <<b, a>> \notin R
      BY <1>3, <3>1, <3>2
    <3> QED BY <3>3 DEF IsOrder
  <2> HIDE DEF rank
  <2> QED BY <2>1, <2>2 DEF Injection, IsInjective
<1>7. rank \in Surjection(S, 1 .. n)
  <2>1. IsFiniteSet(1 .. n) /\ Cardinality(1 .. n) = n
    BY <1>1, FS_Interval
  <2> HIDE DEF rank
  <2> QED BY <1>6, <2>1, FS_Injection DEF n
<1>8. ASSUME NEW k \in 1 .. n
      PROVE  r[k] \in S /\ Cardinality(Below(r[k])) = k - 1
  <2>1. \E i \in S : rank[i] = k
    <3> HIDE DEF rank
    <3> QED BY <1>7 DEF Surjection
  <2>2. \E i \in S : Cardinality(Below(i)) = k - 1
    BY <1>2, <2>1
  <2> QED BY <1>4, <2>2
<1>9. r \in [1 .. n -> S]
  <2>1. \A k \in 1 .. n : (CHOOSE i \in S : Cardinality(Below(i)) = k - 1) \in S
    BY <1>4, <1>8
  <2> QED BY <1>5, <2>1
<1>10. ASSUME NEW k \in 1 .. n, NEW l \in 1 .. n, k < l PROVE <<r[k], r[l]>> \in R
  <2>1. /\ r[k] \in S /\ Cardinality(Below(r[k])) = k - 1
        /\ r[l] \in S /\ Cardinality(Below(r[l])) = l - 1
    BY <1>8
  <2>2. r[k] # r[l]
    BY <1>1, <1>10, <2>1
  <2>3. <<r[l], r[k]>> \notin R
    BY <1>1, <1>3, <1>10, <2>1
  <2> QED BY <2>1, <2>2, <2>3 DEF IsOrder
<1>11. ASSUME NEW i \in S PROVE \E k \in 1 .. n : r[k] = i
  <2> DEFINE k == Cardinality(Below(i)) + 1
  <2>1. k \in 1 .. n
    BY <1>2
  <2>2. r[k] \in S /\ Cardinality(Below(r[k])) = Cardinality(Below(i))
    BY <1>2, <1>8, <2>1
  <2> HIDE DEF k
  <2>3. Cardinality(Below(i)) \in Nat
    BY <1>2
  <2>4. <<r[k], i>> \notin R /\ <<i, r[k]>> \notin R
    BY <1>3, <2>2, <2>3
  <2>5. r[k] = i
    BY <2>2, <2>4 DEF IsOrder
  <2> QED BY <2>1, <2>5
<1> QED BY <1>1, <1>9, <1>10, <1>11 DEF n, r

\* Numbers in ascending order.
LEMMA AscendingIs ==
  ASSUME NEW n \in Nat, NEW S \in SUBSET (1 .. n)
  PROVE  /\ Cardinality(S) \in Nat
         /\ Ascending(S) \in [1 .. Cardinality(S) -> S]
         /\ \A k, l \in 1 .. Cardinality(S) : k < l => Ascending(S)[k] < Ascending(S)[l]
         /\ \A i \in S : \E k \in 1 .. Cardinality(S) : Ascending(S)[k] = i
<1> DEFINE R == {p \in S \X S : p[1] < p[2]}
<1>1. IsFiniteSet(S)
  <2>1. IsFiniteSet(1 .. n)
    BY FS_Interval
  <2> QED BY <2>1, FS_Subset
<1>2. \A a, b \in S : <<a, b>> \in R <=> a < b
  OBVIOUS
<1>3. Ascending(S) = Ranked(S, R)
  BY DEF Ascending
<1> HIDE DEF R
<1>4. IsOrder(R, S)
  BY <1>2 DEF IsOrder
<1>5. /\ Cardinality(S) \in Nat
      /\ Ranked(S, R) \in [1 .. Cardinality(S) -> S]
      /\ \A k, l \in 1 .. Cardinality(S) : k < l => <<Ranked(S, R)[k], Ranked(S, R)[l]>> \in R
      /\ \A i \in S : \E k \in 1 .. Cardinality(S) : Ranked(S, R)[k] = i
  BY <1>1, <1>4, RankedIs
<1> QED BY <1>2, <1>3, <1>5

\* A list rearranged by all its positions has the same elements.
LEMMA ArrangedIs ==
  ASSUME NEW T, NEW s \in Seq(T), NEW n \in Nat, NEW o \in [1 .. n -> DOMAIN s]
  PROVE  /\ Arranged(s, o) \in Seq(T) /\ Len(Arranged(s, o)) = n
         /\ \A k \in 1 .. n : Arranged(s, o)[k] = s[o[k]]
         /\ Range(Arranged(s, o)) \subseteq Range(s)
         /\ (\A i \in DOMAIN s : \E k \in 1 .. n : o[k] = i) => Range(Arranged(s, o)) = Range(s)
<1> DEFINE a == Arranged(s, o)
<1>1. a = [k \in 1 .. n |-> s[o[k]]]
  BY DEF Arranged
<1>2. \A k \in 1 .. n : o[k] \in DOMAIN s /\ s[o[k]] \in T
  OBVIOUS
<1>3. a \in Seq(T) /\ Len(a) = n /\ DOMAIN a = 1 .. n /\ \A k \in 1 .. n : a[k] = s[o[k]]
  BY <1>1, <1>2
<1> HIDE DEF a
<1>4. Range(a) \subseteq Range(s)
  BY <1>2, <1>3 DEF Range
<1>5. (\A i \in DOMAIN s : \E k \in 1 .. n : o[k] = i) => Range(s) \subseteq Range(a)
  BY <1>3 DEF Range
<1> QED BY <1>3, <1>4, <1>5 DEF a

\* A list turned round.
LEMMA ReverseIs ==
  ASSUME NEW T, NEW s \in Seq(T)
  PROVE  /\ Reverse(s) \in Seq(T) /\ Len(Reverse(s)) = Len(s)
         /\ \A i \in 1 .. Len(s) : Reverse(s)[i] = s[Len(s) - i + 1]
         /\ Reverse(Reverse(s)) = s
<1> DEFINE r == Reverse(s)
<1>1. r = [i \in 1 .. Len(s) |-> s[(Len(s) - i) + 1]]
  BY DEF Reverse
<1>2. \A i \in 1 .. Len(s) : (Len(s) - i) + 1 \in 1 .. Len(s)
  OBVIOUS
<1>3. r \in Seq(T) /\ Len(r) = Len(s) /\ \A i \in 1 .. Len(s) : r[i] = s[Len(s) - i + 1]
  BY <1>1, <1>2
<1> HIDE DEF r
<1>4. Reverse(r) = [i \in 1 .. Len(r) |-> r[(Len(r) - i) + 1]]
  BY DEF Reverse
<1>5. ASSUME NEW i \in 1 .. Len(s) PROVE r[(Len(r) - i) + 1] = s[i]
  <2>1. (Len(s) - i) + 1 \in 1 .. Len(s) /\ Len(s) - ((Len(s) - i) + 1) + 1 = i
    OBVIOUS
  <2> QED BY <1>3, <2>1
<1>6. Reverse(r) = [i \in 1 .. Len(s) |-> s[i]]
  BY <1>3, <1>4, <1>5
<1>7. s = [i \in 1 .. Len(s) |-> s[i]]
  OBVIOUS
<1> QED BY <1>3, <1>6, <1>7 DEF r
-----------------------------------------------------------------------------
\* Induction over the numbers up to n, for a set of numbers.
LEMMA UpTo ==
  ASSUME NEW n \in Nat, NEW T, \A k \in 0 .. n : (\A j \in 0 .. k - 1 : j \in T) => k \in T
  PROVE  0 .. n \subseteq T
<1> DEFINE F == {k \in 0 .. n : k \notin T}
<1>1. SUFFICES ASSUME F # {} PROVE FALSE
  OBVIOUS
<1>2. Min(F) \in F /\ \A q \in F : Min(F) =< q
  BY <1>1, SmallestExists
<1>3. Min(F) \in 0 .. n /\ Min(F) \notin T
  BY <1>2
<1>4. \A j \in 0 .. Min(F) - 1 : j \in T
  BY <1>2, <1>3
<1> QED BY <1>3, <1>4

\* A quotient is the greatest number whose product does not exceed.
LEMMA QuotientBelow ==
  ASSUME NEW a \in Nat, NEW c \in Nat \ {0}
  PROVE  /\ a \div c \in Nat
         /\ (a \div c) * c =< a
         /\ a < (a \div c) * c + c
<1>1. a \div c \in Nat
  OBVIOUS
<1>2. a = c * (a \div c) + (a % c) /\ a % c \in 0 .. c - 1
  OBVIOUS
<1> QED BY <1>1, <1>2

\* Sums of the values of a function over finite sets of its arguments.
IsSumming(it, fun, D) ==
    it = [s \in D |-> IF s = {} THEN 0
                      ELSE fun[CHOOSE x \in s : TRUE] + it[s \ {CHOOSE x \in s : TRUE}]]

LEMMA SummingExists ==
  ASSUME NEW S, IsFiniteSet(S), NEW fun
  PROVE  \E it : IsSumming(it, fun, SUBSET S)
<1> DEFINE Small(k) == {s \in SUBSET S : Cardinality(s) =< k}
           T == {k \in 0 .. Cardinality(S) : \E it : IsSumming(it, fun, Small(k))}
<1>1. /\ Cardinality(S) \in Nat
      /\ \A s \in SUBSET S : IsFiniteSet(s) /\ Cardinality(s) \in 0 .. Cardinality(S)
  BY FS_Subset, FS_CardinalityType
<1>2. ASSUME NEW k \in 0 .. Cardinality(S), \A j \in 0 .. k - 1 : j \in T
      PROVE  k \in T
  <2>1. CASE k = 0
    <3>1. Small(0) = {{}}
      BY <1>1, FS_EmptySet
    <3> DEFINE it == [s \in Small(0) |-> 0]
    <3>2. IsSumming(it, fun, Small(0))
      BY <3>1 DEF IsSumming
    <3> QED BY <2>1, <3>2
  <2>2. CASE k > 0
    <3> HIDE DEF T
    <3>0. k \in Nat
      BY <1>1
    <3>1. k - 1 \in T
      BY <3>0, <1>2, <2>2
    <3> USE DEF T
    <3>2. PICK g : IsSumming(g, fun, Small(k - 1))
      BY <3>1
    <3> DEFINE one(s) == CHOOSE x \in s : TRUE
               it == [s \in Small(k) |-> IF s = {} THEN 0 ELSE fun[one(s)] + g[s \ {one(s)}]]
    <3>3. ASSUME NEW s \in Small(k), s # {}
          PROVE  s \ {one(s)} \in Small(k - 1) /\ s \ {one(s)} \in Small(k)
      <4> DEFINE c == one(s)
      <4>1. c \in s
        BY <3>3
      <4> HIDE DEF c
      <4>2. IsFiniteSet(s) /\ Cardinality(s \ {c}) = Cardinality(s) - 1
        BY <1>1, <4>1, FS_RemoveElement
      <4>3. Cardinality(s) \in 0 .. Cardinality(S) /\ Cardinality(s) =< k /\ k \in Nat
        BY <1>1, <3>0
      <4>4. Cardinality(s) \in Nat
        BY <1>1, <4>3
      <4>5. s \ {c} \in SUBSET S
        OBVIOUS
      <4> QED BY <4>2, <4>3, <4>4, <4>5 DEF c
    <3>4. ASSUME NEW s \in Small(k - 1) PROVE it[s] = g[s]
      <4>1. s \in Small(k)
        <5>1. Cardinality(s) \in Nat
          BY <1>1
        <5> QED BY <3>0, <5>1
      <4>2. g = [z \in Small(k - 1) |-> IF z = {} THEN 0 ELSE fun[one(z)] + g[z \ {one(z)}]]
        BY <3>2 DEF IsSumming
      <4> HIDE DEF Small, one
      <4> QED BY <4>1, <4>2
    <3>5. it = [s \in Small(k) |-> IF s = {} THEN 0 ELSE fun[one(s)] + it[s \ {one(s)}]]
      <4>1. ASSUME NEW s \in Small(k), s # {} PROVE it[s \ {one(s)}] = g[s \ {one(s)}]
        BY <3>3, <3>4, <4>1
      <4> HIDE DEF Small, one
      <4> QED BY <4>1
    <3>6. IsSumming(it, fun, Small(k))
      BY <3>5 DEF IsSumming
    <3> QED BY <3>6
  <2> HIDE DEF T
  <2> QED BY <1>1, <2>1, <2>2
<1> HIDE DEF T
<1>3. Cardinality(S) \in T
  BY <1>1, <1>2, UpTo
<1>4. Small(Cardinality(S)) = SUBSET S
  BY <1>1
<1> QED BY <1>3, <1>4 DEF T

\* The sum over a set is that of the element chosen first and of the rest.
LEMMA SumUnfold ==
  ASSUME NEW S, IsFiniteSet(S), NEW fun
  PROVE  /\ SumFunctionOnSet(fun, {}) = 0
         /\ \A s \in SUBSET S : s # {} =>
               \E x \in s : SumFunctionOnSet(fun, s) = fun[x] + SumFunctionOnSet(fun, s \ {x})
<1> DEFINE Iter(D) == CHOOSE it : IsSumming(it, fun, SUBSET D)
           one(s) == CHOOSE x \in s : TRUE
<1>1. ASSUME NEW D, D \subseteq S
      PROVE  IsSumming(Iter(D), fun, SUBSET D)
  BY <1>1, SummingExists, FS_Subset
<1>2. \A D : SumFunctionOnSet(fun, D) = Iter(D)[D]
  BY DEF SumFunctionOnSet, FoldFunctionOnSet, MapThenFoldSet, IsSumming
<1>3. ASSUME NEW D, D \subseteq S
      PROVE  /\ Iter(D) = [s \in SUBSET D |-> IF s = {} THEN 0 ELSE fun[one(s)] + Iter(D)[s \ {one(s)}]]
  BY <1>1, <1>3 DEF IsSumming
<1> HIDE DEF Iter, one
<1>4. ASSUME NEW D, NEW E, D \subseteq E, E \subseteq S
      PROVE  \A s \in SUBSET D : Iter(D)[s] = Iter(E)[s]
  <2> DEFINE T == {k \in 0 .. Cardinality(S) :
                      \A s \in SUBSET D : Cardinality(s) = k => Iter(D)[s] = Iter(E)[s]}
  <2>1. /\ Cardinality(S) \in Nat
        /\ \A s \in SUBSET S : IsFiniteSet(s) /\ Cardinality(s) \in 0 .. Cardinality(S)
    BY FS_Subset, FS_CardinalityType
  <2>2. ASSUME NEW k \in 0 .. Cardinality(S), \A j \in 0 .. k - 1 : j \in T
        PROVE  k \in T
    <3>1. ASSUME NEW s \in SUBSET D, Cardinality(s) = k PROVE Iter(D)[s] = Iter(E)[s]
      <4>1. CASE s = {}
        BY <1>3, <1>4, <4>1
      <4>2. CASE s # {}
        <5>1. one(s) \in s
          BY <4>2 DEF one
        <5>2. s \in SUBSET S /\ s \ {one(s)} \in SUBSET D
          BY <1>4
        <5>3. IsFiniteSet(s) /\ Cardinality(s) \in Nat
          BY <2>1, <5>2
        <5>4. Cardinality(s \ {one(s)}) = k - 1 /\ Cardinality(s \ {one(s)}) \in Nat
          BY <3>1, <5>1, <5>3, FS_RemoveElement, FS_CardinalityType
        <5>5. k - 1 \in 0 .. k - 1
          BY <5>4
        <5>6. k - 1 \in T
          BY <2>2, <5>5
        <5>7. Iter(D)[s \ {one(s)}] = Iter(E)[s \ {one(s)}]
          BY <5>2, <5>4, <5>6
        <5>8. Iter(D)[s] = fun[one(s)] + Iter(D)[s \ {one(s)}]
          BY <1>3, <1>4, <4>2
        <5>9. Iter(E)[s] = fun[one(s)] + Iter(E)[s \ {one(s)}]
          BY <1>3, <1>4, <4>2
        <5> QED BY <5>7, <5>8, <5>9
      <4> QED BY <4>1, <4>2
    <3> QED BY <3>1
  <2> HIDE DEF T
  <2>3. 0 .. Cardinality(S) \subseteq T
    BY <2>1, <2>2, UpTo
  <2> QED BY <1>4, <2>1, <2>3 DEF T
<1>5. SumFunctionOnSet(fun, {}) = 0
  BY <1>2, <1>3
<1>6. ASSUME NEW s \in SUBSET S, s # {}
      PROVE  SumFunctionOnSet(fun, s) = fun[one(s)] + SumFunctionOnSet(fun, s \ {one(s)})
  <2>1. Iter(s)[s] = fun[one(s)] + Iter(s)[s \ {one(s)}]
    BY <1>3, <1>6
  <2>2. Iter(s)[s \ {one(s)}] = Iter(s \ {one(s)})[s \ {one(s)}]
    BY <1>4
  <2> QED BY <1>2, <2>1, <2>2
<1>7. \A s : s # {} => one(s) \in s
  BY DEF one
<1> QED BY <1>5, <1>6, <1>7

\* The sum of integers is an integer; one argument more adds its value.
LEMMA SumAdds ==
  ASSUME NEW S, IsFiniteSet(S), NEW fun, \A x \in S : fun[x] \in Int
  PROVE  /\ SumFunctionOnSet(fun, S) \in Int
         /\ \A x \in S : SumFunctionOnSet(fun, S) = fun[x] + SumFunctionOnSet(fun, S \ {x})
<1> DEFINE Sum(s) == SumFunctionOnSet(fun, s)
           T == {k \in 0 .. Cardinality(S) :
                    \A s \in SUBSET S : Cardinality(s) = k =>
                        /\ Sum(s) \in Int
                        /\ \A x \in s : Sum(s) = fun[x] + Sum(s \ {x})}
<1>1. /\ Cardinality(S) \in Nat
      /\ \A s \in SUBSET S : IsFiniteSet(s) /\ Cardinality(s) \in 0 .. Cardinality(S)
  BY FS_Subset, FS_CardinalityType
<1>2. /\ Sum({}) = 0
      /\ \A s \in SUBSET S : s # {} => \E x \in s : Sum(s) = fun[x] + Sum(s \ {x})
  BY SumUnfold
<1> HIDE DEF Sum
<1>3. ASSUME NEW k \in 0 .. Cardinality(S), \A j \in 0 .. k - 1 : j \in T,
             NEW s \in SUBSET S, Cardinality(s) = k
      PROVE  Sum(s) \in Int /\ \A x \in s : Sum(s) = fun[x] + Sum(s \ {x})
  <2>1. CASE s = {}
    BY <1>2, <2>1
  <2>2. CASE s # {}
    <3>1. PICK c \in s : Sum(s) = fun[c] + Sum(s \ {c})
      BY <1>2, <2>2
    <3>2. ASSUME NEW x \in s
          PROVE  /\ s \ {x} \in SUBSET S /\ Sum(s \ {x}) \in Int /\ fun[x] \in Int
                 /\ \A y \in s \ {x} : Sum(s \ {x}) = fun[y] + Sum((s \ {x}) \ {y})
      <4>1. s \ {x} \in SUBSET S /\ fun[x] \in Int
        OBVIOUS
      <4>2. Cardinality(s \ {x}) = k - 1 /\ Cardinality(s \ {x}) \in Nat
        BY <1>1, <1>3, FS_RemoveElement, FS_CardinalityType
      <4>3. k - 1 \in 0 .. k - 1
        BY <4>2
      <4>4. k - 1 \in T
        BY <1>3, <4>3
      <4> QED BY <4>1, <4>2, <4>4
    <3>3. Sum(s) \in Int
      BY <3>1, <3>2
    <3>4. ASSUME NEW x \in s, x # c PROVE Sum(s) = fun[x] + Sum(s \ {x})
      <4>1. Sum(s \ {c}) = fun[x] + Sum((s \ {c}) \ {x})
        BY <3>2, <3>4
      <4>2. Sum(s \ {x}) = fun[c] + Sum((s \ {x}) \ {c})
        BY <3>2, <3>4
      <4>3. (s \ {c}) \ {x} = (s \ {x}) \ {c}
        OBVIOUS
      <4>4. c \in s \ {x} /\ s \ {x} \in SUBSET S /\ fun[x] \in Int /\ fun[c] \in Int
        BY <3>2, <3>4
      <4>5. Sum((s \ {x}) \ {c}) \in Int
        <5>1. PICK v \in SUBSET S : v = s \ {x} /\ c \in v
          BY <4>4
        <5>2. PICK u \in SUBSET S : u = v \ {c}
          BY <5>1
        <5>3. IsFiniteSet(s) /\ IsFiniteSet(v)
          BY <1>1
        <5>4. Cardinality(v) = k - 1
          BY <1>3, <5>1, <5>3, FS_RemoveElement
        <5>5. Cardinality(u) = (k - 1) - 1
          <6>1. Cardinality(v \ {c}) = Cardinality(v) - 1
            BY <5>1, <5>3, FS_RemoveElement
          <6> QED BY <5>2, <5>4, <6>1
        <5>6. Cardinality(u) \in Nat
          BY <1>1
        <5>7. (k - 1) - 1 \in 0 .. k - 1
          BY <5>5, <5>6
        <5>8. (k - 1) - 1 \in T
          BY <1>3, <5>7
        <5>9. Sum(u) \in Int
          BY <5>5, <5>8
        <5> QED BY <5>1, <5>2, <5>9
      <4>6. PICK r \in Int : r = Sum((s \ {x}) \ {c})
        BY <4>5
      <4>7. Sum(s \ {c}) = fun[x] + r /\ Sum(s \ {x}) = fun[c] + r
        BY <4>1, <4>2, <4>3, <4>6
      <4>8. fun[c] + (fun[x] + r) = fun[x] + (fun[c] + r)
        BY <4>4
      <4> QED BY <3>1, <4>7, <4>8
    <3> QED BY <3>1, <3>3, <3>4
  <2> QED BY <2>1, <2>2
<1>4. ASSUME NEW k \in 0 .. Cardinality(S), \A j \in 0 .. k - 1 : j \in T
      PROVE  k \in T
  BY <1>3, <1>4
<1> HIDE DEF T
<1>5. Cardinality(S) \in T
  BY <1>1, <1>4, UpTo
<1> QED BY <1>5 DEF T, Sum

\* Sums follow their summands; they are the same only if all summands are.
LEMMA SumMonotone ==
  ASSUME NEW S, IsFiniteSet(S), NEW f, NEW g,
         \A x \in S : f[x] \in Int /\ g[x] \in Int /\ f[x] =< g[x]
  PROVE  /\ SumFunctionOnSet(f, S) =< SumFunctionOnSet(g, S)
         /\ SumFunctionOnSet(f, S) = SumFunctionOnSet(g, S) => \A x \in S : f[x] = g[x]
<1> DEFINE F(s) == SumFunctionOnSet(f, s)
           G(s) == SumFunctionOnSet(g, s)
           T == {k \in 0 .. Cardinality(S) :
                    \A s \in SUBSET S : Cardinality(s) = k =>
                        F(s) =< G(s) /\ (F(s) = G(s) => \A x \in s : f[x] = g[x])}
<1>1. /\ Cardinality(S) \in Nat
      /\ \A s \in SUBSET S : IsFiniteSet(s) /\ Cardinality(s) \in Nat
      /\ \A s \in SUBSET S : Cardinality(s) \in 0 .. Cardinality(S)
  BY FS_Subset, FS_CardinalityType
<1>2. ASSUME NEW s \in SUBSET S
      PROVE  /\ F(s) \in Int /\ G(s) \in Int
             /\ \A x \in s : F(s) = f[x] + F(s \ {x}) /\ G(s) = g[x] + G(s \ {x})
  <2>1. IsFiniteSet(s) /\ \A x \in s : f[x] \in Int /\ g[x] \in Int
    BY <1>1
  <2> QED BY <2>1, SumAdds
<1>3. F({}) = 0 /\ G({}) = 0
  BY SumUnfold
<1> HIDE DEF F, G
<1>4. ASSUME NEW k \in 0 .. Cardinality(S), \A j \in 0 .. k - 1 : j \in T,
             NEW s \in SUBSET S, Cardinality(s) = k
      PROVE  F(s) =< G(s) /\ (F(s) = G(s) => \A x \in s : f[x] = g[x])
  <2>1. CASE s = {}
    BY <1>3, <2>1
  <2>2. ASSUME NEW x \in s
        PROVE  F(s) =< G(s) /\ (F(s) = G(s) => f[x] = g[x])
    <3>1. PICK r \in SUBSET S : r = s \ {x}
      OBVIOUS
    <3>2. Cardinality(s \ {x}) = Cardinality(s) - 1
      BY <1>1, FS_RemoveElement
    <3>3. Cardinality(r) = k - 1 /\ Cardinality(r) \in Nat
      BY <1>1, <1>4, <3>1, <3>2
    <3>4. k - 1 \in 0 .. k - 1
      BY <3>3
    <3>5. F(r) =< G(r)
      BY <1>4, <3>3, <3>4
    <3>6. F(s) = f[x] + F(r) /\ G(s) = g[x] + G(r) /\ F(r) \in Int /\ G(r) \in Int
      BY <1>2, <3>1
    <3>7. f[x] \in Int /\ g[x] \in Int /\ f[x] =< g[x]
      OBVIOUS
    <3> QED BY <3>5, <3>6, <3>7
  <2> QED BY <2>1, <2>2
<1>5. ASSUME NEW k \in 0 .. Cardinality(S), \A j \in 0 .. k - 1 : j \in T
      PROVE  k \in T
  BY <1>4, <1>5
<1> HIDE DEF T
<1>6. Cardinality(S) \in T
  BY <1>1, <1>5, UpTo
<1> QED BY <1>6 DEF T, F, G

\* A sum of naturals is one, and no less than any of its summands.
LEMMA SumOfNaturals ==
  ASSUME NEW S, IsFiniteSet(S), NEW fun, \A x \in S : fun[x] \in Nat
  PROVE  /\ SumFunctionOnSet(fun, S) \in Nat
         /\ \A x \in S : fun[x] =< SumFunctionOnSet(fun, S)
<1> DEFINE F(s) == SumFunctionOnSet(fun, s)
           T == {k \in 0 .. Cardinality(S) :
                    \A s \in SUBSET S : Cardinality(s) = k => F(s) \in Nat}
<1>1. /\ Cardinality(S) \in Nat
      /\ \A s \in SUBSET S : IsFiniteSet(s) /\ Cardinality(s) \in Nat
      /\ \A s \in SUBSET S : Cardinality(s) \in 0 .. Cardinality(S)
  BY FS_Subset, FS_CardinalityType
<1>2. ASSUME NEW s \in SUBSET S
      PROVE  \A x \in s : F(s) = fun[x] + F(s \ {x})
  <2>1. IsFiniteSet(s) /\ \A x \in s : fun[x] \in Int
    BY <1>1
  <2> QED BY <2>1, SumAdds
<1>3. F({}) = 0
  BY SumUnfold
<1> HIDE DEF F
<1>4. ASSUME NEW k \in 0 .. Cardinality(S), \A j \in 0 .. k - 1 : j \in T,
             NEW s \in SUBSET S, Cardinality(s) = k
      PROVE  F(s) \in Nat
  <2>1. CASE s = {}
    BY <1>3, <2>1
  <2>2. ASSUME NEW x \in s PROVE F(s) \in Nat
    <3>1. PICK r \in SUBSET S : r = s \ {x}
      OBVIOUS
    <3>2. Cardinality(s \ {x}) = Cardinality(s) - 1
      BY <1>1, FS_RemoveElement
    <3>3. Cardinality(r) = k - 1 /\ Cardinality(r) \in Nat
      BY <1>1, <1>4, <3>1, <3>2
    <3>4. k - 1 \in 0 .. k - 1
      BY <3>3
    <3>5. F(r) \in Nat
      BY <1>4, <3>3, <3>4
    <3>6. F(s) = fun[x] + F(r) /\ fun[x] \in Nat
      BY <1>2, <3>1
    <3> QED BY <3>5, <3>6
  <2> QED BY <2>1, <2>2
<1>5. ASSUME NEW k \in 0 .. Cardinality(S), \A j \in 0 .. k - 1 : j \in T
      PROVE  k \in T
  BY <1>4, <1>5
<1>6. \A s \in SUBSET S : F(s) \in Nat
  <2> HIDE DEF T
  <2>1. ASSUME NEW s \in SUBSET S PROVE Cardinality(s) \in T
    <3>1. Cardinality(s) \in 0 .. Cardinality(S)
      BY <1>1
    <3>2. Cardinality(S) \in Nat
      BY <1>1
    <3> QED BY <1>5, <3>1, <3>2, UpTo
  <2> QED BY <2>1 DEF T
<1>7. ASSUME NEW x \in S PROVE fun[x] =< F(S)
  <2>1. S \in SUBSET S /\ S \ {x} \in SUBSET S
    OBVIOUS
  <2>2. F(S) = fun[x] + F(S \ {x}) /\ F(S \ {x}) \in Nat /\ fun[x] \in Nat
    BY <1>2, <1>6, <2>1
  <2> QED BY <2>2
<1>8. F(S) \in Nat
  BY <1>6
<1> QED BY <1>7, <1>8 DEF F

\* A function with one argument more.
LEMMA SumExtends ==
  ASSUME NEW S, IsFiniteSet(S), NEW y, y \notin S, NEW f \in [S -> Int],
         NEW g \in [S \cup {y} -> Int], \A x \in S : f[x] = g[x]
  PROVE  SumFunction(g) = SumFunction(f) + g[y] /\ SumFunction(f) \in Int
<1>1. IsFiniteSet(S \cup {y}) /\ (S \cup {y}) \ {y} = S
  BY FS_AddElement
<1>2. SumFunctionOnSet(g, S \cup {y}) = g[y] + SumFunctionOnSet(g, S)
  BY <1>1, SumAdds
<1>3. \A x \in S : f[x] \in Int /\ g[x] \in Int /\ f[x] =< g[x] /\ g[x] =< f[x]
  OBVIOUS
<1>4. SumFunctionOnSet(f, S) \in Int /\ SumFunctionOnSet(g, S) \in Int
  BY <1>3, SumAdds
<1>5. SumFunctionOnSet(f, S) =< SumFunctionOnSet(g, S)
  BY <1>3, SumMonotone
<1>6. SumFunctionOnSet(g, S) =< SumFunctionOnSet(f, S)
  BY <1>3, SumMonotone
<1>7. SumFunctionOnSet(g, S) = SumFunctionOnSet(f, S)
  BY <1>4, <1>5, <1>6
<1> QED BY <1>2, <1>4, <1>7 DEF SumFunction

-----------------------------------------------------------------------------
(* Sequences put together. *)

\* Of one and two elements.
LEMMA PairIs ==
  ASSUME NEW a, NEW b
  PROVE  <<a>> \o <<b>> = <<a, b>> /\ <<a>> \o <<>> = <<a>>
<1> DEFINE T == {a, b}
<1>1. <<a>> \in Seq(T) /\ <<b>> \in Seq(T) /\ <<>> \in Seq(T)
  OBVIOUS
<1> DEFINE z == <<a>> \o <<b>>
           y == <<a>> \o <<>>
<1>2. z \in Seq(T) /\ Len(z) = 2 /\ z[1] = a /\ z[2] = b
  BY <1>1
<1>3. y \in Seq(T) /\ Len(y) = 1 /\ y[1] = a
  BY <1>1
<1> HIDE DEF z, y
<1>4. z = <<a, b>>
  BY <1>2
<1>5. y = <<a>>
  BY <1>3
<1> QED BY <1>4, <1>5 DEF z, y

\* No two elements of a sequence have the same key.
OnceBy(s, K) == \A a, b \in DOMAIN s : K[s[a]] = K[s[b]] => a = b

\* No two elements of a sequence of sequences have the same key.
ApartBy(s, n, K) ==
    /\ \A i \in 1 .. n : OnceBy(s[i], K)
    /\ \A i, j \in 1 .. n : i # j => \A x \in Range(s[i]), y \in Range(s[j]) : K[x] # K[y]

\* What a concatenation holds.
LEMMA ConcatIs ==
  ASSUME NEW T, NEW a \in Seq(T), NEW b \in Seq(T), NEW K
  PROVE  /\ a \o b \in Seq(T) /\ Range(a \o b) = Range(a) \cup Range(b)
         /\ (OnceBy(a, K) /\ OnceBy(b, K) /\ \A x \in Range(a), y \in Range(b) : K[x] # K[y])
                => OnceBy(a \o b, K)
<1>0. a \o b \in Seq(T)
  OBVIOUS
<1>1. PICK c \in Seq(T) : c = a \o b
  BY <1>0
<1>2. /\ Len(a) \in Nat /\ Len(b) \in Nat /\ DOMAIN a = 1 .. Len(a) /\ DOMAIN b = 1 .. Len(b)
      /\ DOMAIN c = 1 .. Len(a) + Len(b)
      /\ \A i \in 1 .. Len(a) + Len(b) : c[i] = IF i =< Len(a) THEN a[i] ELSE b[i - Len(a)]
  BY <1>1
<1>3. \A i \in DOMAIN c : \/ i \in DOMAIN a /\ c[i] = a[i]
                          \/ i - Len(a) \in DOMAIN b /\ c[i] = b[i - Len(a)]
  BY <1>2
<1>4. \A i \in DOMAIN a : i \in DOMAIN c /\ c[i] = a[i]
  BY <1>2
<1>5. \A i \in DOMAIN b : i + Len(a) \in DOMAIN c /\ c[i + Len(a)] = b[i]
  BY <1>2
<1>6. Range(c) = Range(a) \cup Range(b)
  <2>1. Range(c) \subseteq Range(a) \cup Range(b)
    BY <1>3 DEF Range
  <2>2. Range(a) \subseteq Range(c)
    BY <1>4 DEF Range
  <2>3. Range(b) \subseteq Range(c)
    BY <1>5 DEF Range
  <2> QED BY <2>1, <2>2, <2>3
<1>7. ASSUME OnceBy(a, K), OnceBy(b, K), \A x \in Range(a), y \in Range(b) : K[x] # K[y]
      PROVE  OnceBy(c, K)
  <2>1. \A i \in DOMAIN a, j \in DOMAIN b : K[a[i]] # K[b[j]]
    BY <1>7 DEF Range
  <2>2. ASSUME NEW i \in DOMAIN c, NEW j \in DOMAIN c, K[c[i]] = K[c[j]] PROVE i = j
    <3>1. CASE i \in DOMAIN a /\ c[i] = a[i] /\ j \in DOMAIN a /\ c[j] = a[j]
      BY <1>7, <2>2, <3>1 DEF OnceBy
    <3>2. CASE i - Len(a) \in DOMAIN b /\ c[i] = b[i - Len(a)]
               /\ j - Len(a) \in DOMAIN b /\ c[j] = b[j - Len(a)]
      <4>1. i - Len(a) = j - Len(a)
        BY <1>7, <2>2, <3>2 DEF OnceBy
      <4> QED BY <1>2, <4>1
    <3> QED BY <1>3, <2>1, <2>2, <3>1, <3>2
  <2> QED BY <2>2 DEF OnceBy
<1> QED BY <1>1, <1>6, <1>7

IsFlatten(it, s, n) == it = [i \in 1 .. n |-> IF i = 1 THEN s[i] ELSE it[i - 1] \o s[i]]

\* The sequences can be put together one by one.
LEMMA FlattenExists ==
  ASSUME NEW s, NEW n \in Nat
  PROVE  \E it : IsFlatten(it, s, n)
<1> DEFINE T == {k \in 0 .. n : \E it : IsFlatten(it, s, k)}
<1>1. ASSUME NEW k \in 0 .. n, \A j \in 0 .. k - 1 : j \in T PROVE k \in T
  <2>1. CASE k = 0
    <3> DEFINE f == [i \in 1 .. 0 |-> s[i]]
    <3>1. f = [i \in 1 .. 0 |-> IF i = 1 THEN s[i] ELSE f[i - 1] \o s[i]]
      OBVIOUS
    <3> QED BY <2>1, <3>1 DEF IsFlatten
  <2>2. CASE k # 0
    <3>1. k - 1 \in 0 .. k - 1
      BY <2>2
    <3>2. PICK g : IsFlatten(g, s, k - 1)
      BY <1>1, <3>1
    <3>3. g = [i \in 1 .. k - 1 |-> IF i = 1 THEN s[i] ELSE g[i - 1] \o s[i]]
      BY <3>2 DEF IsFlatten
    <3> DEFINE f == [i \in 1 .. k |-> IF i = 1 THEN s[i] ELSE g[i - 1] \o s[i]]
    <3>4. ASSUME NEW i \in 1 .. k - 1 PROVE f[i] = g[i]
      <4>1. i \in 1 .. k
        OBVIOUS
      <4>2. PICK B : B = IF i = 1 THEN s[i] ELSE g[i - 1] \o s[i]
        OBVIOUS
      <4>3. f[i] = B
        BY <4>1, <4>2
      <4>4. g[i] = B
        BY <3>3, <4>2
      <4> QED BY <4>3, <4>4
    <3>5. ASSUME NEW i \in 1 .. k, i # 1 PROVE f[i - 1] = g[i - 1]
      <4>1. i - 1 \in 1 .. k - 1
        BY <3>5
      <4> QED BY <3>4, <4>1
    <3>6. f = [i \in 1 .. k |-> IF i = 1 THEN s[i] ELSE f[i - 1] \o s[i]]
      BY <3>5
    <3>7. IsFlatten(f, s, k)
      BY <3>6 DEF IsFlatten
    <3> QED BY <3>7
  <2> QED BY <2>1, <2>2
<1> HIDE DEF T
<1>2. n \in T
  BY <1>1, UpTo
<1> QED BY <1>2 DEF T

\* What sequences have put together, and that they have it once if each does and no two share
\* a key.
LEMMA FlattenIs ==
  ASSUME NEW T, NEW n \in Nat, NEW s \in [1 .. n -> Seq(T)], NEW K
  PROVE  /\ FlattenSeq(s) \in Seq(T)
         /\ Range(FlattenSeq(s)) = UNION {Range(s[i]) : i \in 1 .. n}
         /\ ApartBy(s, n, K) => OnceBy(FlattenSeq(s), K)
<1>1. Len(s) = n /\ DOMAIN s = 1 .. n
  OBVIOUS
<1> DEFINE Apart == ApartBy(s, n, K)
<1>a. Apart => /\ \A i \in 1 .. n : OnceBy(s[i], K)
               /\ \A i, j \in 1 .. n :
                     i # j => \A x \in Range(s[i]), y \in Range(s[j]) : K[x] # K[y]
  BY DEF ApartBy
<1>2. CASE n = 0
  <2>1. FlattenSeq(s) = s /\ s = <<>>
    BY <1>1, <1>2 DEF FlattenSeq
  <2>2. s \in Seq(T) /\ Range(s) = {} /\ OnceBy(s, K)
    BY <2>1 DEF Range, OnceBy
  <2>3. UNION {Range(s[i]) : i \in 1 .. n} = {}
    BY <1>2
  <2> QED BY <2>1, <2>2, <2>3
<1>3. CASE n # 0
  <2> DEFINE it == CHOOSE f : f = [i \in 1 .. Len(s) |-> IF i = 1 THEN s[i] ELSE f[i - 1] \o s[i]]
  <2>1. FlattenSeq(s) = it[n]
    BY <1>1, <1>3 DEF FlattenSeq
  <2>2. it = [i \in 1 .. n |-> IF i = 1 THEN s[i] ELSE it[i - 1] \o s[i]]
    <3>1. \E f : f = [i \in 1 .. Len(s) |-> IF i = 1 THEN s[i] ELSE f[i - 1] \o s[i]]
      BY <1>1, FlattenExists DEF IsFlatten
    <3> QED BY <1>1, <3>1
  <2> HIDE DEF it
  <2> DEFINE Held(k) == UNION {Range(s[i]) : i \in 1 .. k}
             Good(k) == /\ it[k] \in Seq(T) /\ Range(it[k]) = Held(k)
                        /\ Apart => OnceBy(it[k], K)
             G == {k \in 0 .. n - 1 : Good(k + 1)}
  <2>3. ASSUME NEW k \in 0 .. n - 1, \A j \in 0 .. k - 1 : j \in G PROVE k \in G
    <3>0. k + 1 \in 1 .. n
      OBVIOUS
    <3>1. CASE k = 0
      <4>1. it[1] = s[1] /\ k + 1 = 1
        BY <2>2, <3>0, <3>1
      <4>2. Held(1) = Range(s[1])
        OBVIOUS
      <4> QED BY <1>a, <3>0, <3>1, <4>1, <4>2
    <3>2. CASE k # 0
      <4>1. k - 1 \in 0 .. k - 1 /\ (k - 1) + 1 = k
        BY <3>2
      <4>0. k - 1 \in G
        BY <2>3, <4>1
      <4>2. Good(k)
        <5>1. Good((k - 1) + 1)
          BY <4>0
        <5> QED BY <4>1, <5>1
      <4>3. it[k + 1] = it[k] \o s[k + 1]
        <5>1. (k + 1) - 1 = k /\ k + 1 # 1
          BY <3>2
        <5>2. it[k + 1] = IF k + 1 = 1 THEN s[k + 1] ELSE it[(k + 1) - 1] \o s[k + 1]
          BY <2>2, <3>0
        <5> QED BY <5>1, <5>2
      <4>4. 1 .. k + 1 = (1 .. k) \cup {k + 1}
        OBVIOUS
      <4>5. Held(k + 1) = Held(k) \cup Range(s[k + 1])
        BY <4>4
      <4>6. ASSUME Apart, NEW x \in Held(k), NEW y \in Range(s[k + 1]) PROVE K[x] # K[y]
        <5>1. PICK i \in 1 .. k : x \in Range(s[i])
          OBVIOUS
        <5>2. i \in 1 .. n /\ i # k + 1
          OBVIOUS
        <5> QED BY <1>a, <3>0, <4>6, <5>1, <5>2
      <4> HIDE DEF Held
      <4>7. s[k + 1] \in Seq(T) /\ (Apart => OnceBy(s[k + 1], K))
        BY <1>a, <3>0
      <4> HIDE DEF Apart
      <4> DEFINE a == it[k]
                 b == s[k + 1]
      <4>8. a \in Seq(T) /\ b \in Seq(T) /\ it[k + 1] = a \o b
        BY <4>2, <4>3, <4>7
      <4>9. Range(a) = Held(k) /\ (Apart => OnceBy(a, K) /\ OnceBy(b, K))
        BY <4>2, <4>7
      <4>10. Apart => \A x \in Range(a), y \in Range(b) : K[x] # K[y]
        BY <4>6, <4>9
      <4> HIDE DEF a, b
      <4>11. /\ a \o b \in Seq(T) /\ Range(a \o b) = Range(a) \cup Range(b)
             /\ Apart => OnceBy(a \o b, K)
        BY <4>8, <4>9, <4>10, ConcatIs
      <4>12. Good(k + 1)
        BY <4>5, <4>8, <4>9, <4>11 DEF b
      <4> QED BY <4>12
    <3> QED BY <3>1, <3>2
  <2> HIDE DEF G
  <2>4. n - 1 \in G
    <3>1. n - 1 \in Nat
      BY <1>3
    <3>2. 0 .. n - 1 \subseteq G
      BY ONLY <2>3, <3>1, UpTo
    <3> QED BY <3>1, <3>2
  <2>5. Good(n)
    <3>1. (n - 1) + 1 = n
      OBVIOUS
    <3> QED BY <2>4, <3>1 DEF G
  <2> QED BY <2>1, <2>5
<1> QED BY <1>2, <1>3

\* What a sequence holds besides its first element.
LEMMA HeadIs ==
  ASSUME NEW T, NEW s \in Seq(T), s # <<>>, NEW K
  PROVE  /\ Head(s) \in T /\ Tail(s) \in Seq(T)
         /\ Range(s) = {Head(s)} \cup Range(Tail(s))
         /\ OnceBy(s, K) => /\ OnceBy(Tail(s), K)
                            /\ \A x \in Range(Tail(s)) : K[x] # K[Head(s)]
<1>1. PICK h, r : h = Head(s) /\ r = Tail(s)
  OBVIOUS
<1>2. /\ h \in T /\ r \in Seq(T) /\ h = s[1] /\ Len(s) \in Nat \ {0} /\ Len(r) = Len(s) - 1
      /\ \A i \in 1 .. Len(r) : r[i] = s[i + 1]
  BY <1>1
<1>3. DOMAIN s = 1 .. Len(s) /\ DOMAIN r = 1 .. Len(s) - 1
  BY <1>2
<1>4. 1 \in DOMAIN s /\ \A i \in DOMAIN s : i = 1 \/ (i - 1 \in DOMAIN r /\ r[i - 1] = s[i])
  BY <1>2, <1>3
<1>5. \A i \in DOMAIN r : i + 1 \in DOMAIN s /\ i + 1 # 1 /\ r[i] = s[i + 1] /\ i \in Nat
  BY <1>2, <1>3
<1>6. Range(s) = {h} \cup Range(r)
  <2>1. Range(s) \subseteq {h} \cup Range(r)
    BY <1>2, <1>4 DEF Range
  <2>2. {h} \subseteq Range(s)
    BY <1>2, <1>4 DEF Range
  <2>3. Range(r) \subseteq Range(s)
    BY <1>5 DEF Range
  <2> QED BY <2>1, <2>2, <2>3
<1>7. ASSUME OnceBy(s, K) PROVE OnceBy(r, K) /\ \A x \in Range(r) : K[x] # K[h]
  <2>1. ASSUME NEW i \in DOMAIN r, NEW j \in DOMAIN r, K[r[i]] = K[r[j]] PROVE i = j
    <3>1. i + 1 = j + 1
      BY <1>5, <1>7, <2>1 DEF OnceBy
    <3> QED BY <1>5, <3>1
  <2>2. ASSUME NEW x \in Range(r) PROVE K[x] # K[h]
    <3>1. PICK i \in DOMAIN r : x = r[i]
      BY <2>2 DEF Range
    <3>2. x = s[i + 1] /\ i + 1 \in DOMAIN s /\ i + 1 # 1
      BY <1>5, <3>1
    <3> QED BY <1>2, <1>4, <1>7, <3>2 DEF OnceBy
  <2> QED BY <2>1, <2>2 DEF OnceBy
<1> QED BY <1>1, <1>2, <1>6, <1>7

\* Appending one sequence to those that are concatenated.
LEMMA FlattenPush ==
  ASSUME NEW T, NEW n \in Nat, NEW s \in [1 .. n -> Seq(T)], NEW u \in [1 .. n + 1 -> Seq(T)],
         \A i \in 1 .. n : u[i] = s[i]
  PROVE  FlattenSeq(u) = FlattenSeq(s) \o u[n + 1]
<1> DEFINE F(f, q) == f = [i \in 1 .. Len(q) |-> IF i = 1 THEN q[i] ELSE f[i - 1] \o q[i]]
           a == CHOOSE f : F(f, s)
           b == CHOOSE f : F(f, u)
<1>1. Len(s) = n /\ Len(u) = n + 1 /\ n + 1 \in Nat
  OBVIOUS
<1>2. a = [i \in 1 .. n |-> IF i = 1 THEN s[i] ELSE a[i - 1] \o s[i]]
  <2>1. \E f : F(f, s)
    BY <1>1, FlattenExists DEF IsFlatten
  <2>2. F(a, s)
    BY <2>1
  <2> HIDE DEF a
  <2> QED BY <1>1, <2>2
<1>3. b = [i \in 1 .. n + 1 |-> IF i = 1 THEN u[i] ELSE b[i - 1] \o u[i]]
  <2>1. \E f : F(f, u)
    <3>1. PICK m \in Nat : m = Len(u)
      BY <1>1
    <3>2. PICK f : IsFlatten(f, u, m)
      BY FlattenExists
    <3>3. f = [i \in 1 .. m |-> IF i = 1 THEN u[i] ELSE f[i - 1] \o u[i]]
      BY <3>2 DEF IsFlatten
    <3>4. F(f, u)
      BY <3>1, <3>3
    <3> QED BY <3>4
  <2>2. F(b, u)
    BY <2>1
  <2> HIDE DEF b
  <2> QED BY <1>1, <2>2
<1>4. FlattenSeq(u) = b[n + 1]
  BY <1>1 DEF FlattenSeq
<1>5. n # 0 => FlattenSeq(s) = a[n]
  BY <1>1 DEF FlattenSeq
<1> HIDE DEF a, b, F
<1>6. CASE n = 0
  <2>1. FlattenSeq(s) = s /\ s = <<>>
    BY <1>1, <1>6 DEF FlattenSeq
  <2>2. b[1] = u[1] /\ u[1] \in Seq(T)
    BY <1>3, <1>6
  <2> QED BY <1>4, <1>6, <2>1, <2>2
<1>7. CASE n # 0
  <2> DEFINE G == {k \in 0 .. n - 1 : b[k + 1] = a[k + 1]}
  <2>1. ASSUME NEW k \in 0 .. n - 1, \A j \in 0 .. k - 1 : j \in G PROVE k \in G
    <3>1. k + 1 \in 1 .. n /\ k + 1 \in 1 .. n + 1 /\ u[k + 1] = s[k + 1] /\ (k + 1) - 1 = k
      OBVIOUS
    <3>2. CASE k = 0
      <4>1. a[k + 1] = s[k + 1]
        BY <1>2, <3>1, <3>2
      <4>2. b[k + 1] = u[k + 1]
        BY <1>3, <3>1, <3>2
      <4> QED BY <3>1, <4>1, <4>2
    <3>3. CASE k # 0
      <4>1. k - 1 \in 0 .. k - 1 /\ (k - 1) + 1 = k
        BY <3>3
      <4>2. b[k] = a[k]
        BY <2>1, <4>1
      <4>3. a[k + 1] = a[k] \o s[k + 1]
        <5>1. a[k + 1] = IF k + 1 = 1 THEN s[k + 1] ELSE a[(k + 1) - 1] \o s[k + 1]
          BY <1>2, <3>1
        <5>2. (k + 1) - 1 = k /\ k + 1 # 1
          BY <3>3
        <5> QED BY <5>1, <5>2
      <4>4. b[k + 1] = b[k] \o u[k + 1]
        <5>1. b[k + 1] = IF k + 1 = 1 THEN u[k + 1] ELSE b[(k + 1) - 1] \o u[k + 1]
          BY <1>3, <3>1
        <5>2. (k + 1) - 1 = k /\ k + 1 # 1
          BY <3>3
        <5> QED BY <5>1, <5>2
      <4> QED BY <3>1, <4>2, <4>3, <4>4
    <3> QED BY <3>2, <3>3
  <2>2. n - 1 \in G
    <3>1. n - 1 \in Nat
      BY <1>7
    <3> HIDE DEF G
    <3>2. 0 .. n - 1 \subseteq G
      BY ONLY <2>1, <3>1, UpTo
    <3> QED BY <3>1, <3>2
  <2>3. b[n] = a[n]
    <3>1. (n - 1) + 1 = n
      OBVIOUS
    <3> QED BY <2>2, <3>1
  <2>4. b[n + 1] = b[n] \o u[n + 1]
    <3>1. n + 1 \in 1 .. n + 1 /\ (n + 1) - 1 = n /\ n + 1 # 1
      BY <1>7
    <3>2. b[n + 1] = IF n + 1 = 1 THEN u[n + 1] ELSE b[(n + 1) - 1] \o u[n + 1]
      BY <1>3, <3>1
    <3> QED BY <3>1, <3>2
  <2> QED BY <1>4, <1>5, <1>7, <2>3, <2>4
<1> QED BY <1>6, <1>7

\* What holds of the empty set and of every set with an element more.
LEMMA FiniteGrows ==
  ASSUME NEW S, IsFiniteSet(S), NEW T, {} \in T,
         \A b \in SUBSET S : \A x \in S \ b : b \in T => b \cup {x} \in T
  PROVE  S \in T
<1> DEFINE U == {k \in 0 .. Cardinality(S) : \A b \in SUBSET S : Cardinality(b) = k => b \in T}
<1>1. /\ Cardinality(S) \in Nat
      /\ \A b \in SUBSET S : IsFiniteSet(b) /\ Cardinality(b) \in 0 .. Cardinality(S)
  BY FS_Subset, FS_CardinalityType
<1>2. ASSUME NEW k \in 0 .. Cardinality(S), \A j \in 0 .. k - 1 : j \in U,
             NEW b \in SUBSET S, Cardinality(b) = k
      PROVE  b \in T
  <2>1. CASE b = {}
    BY <2>1
  <2>2. CASE b # {}
    <3>1. PICK x \in b : TRUE
      BY <2>2
    <3>2. PICK c \in SUBSET S : c = b \ {x}
      OBVIOUS
    <3>3. x \in S \ c /\ c \cup {x} = b
      BY <3>1, <3>2
    <3>4. Cardinality(c) = k - 1 /\ Cardinality(c) \in Nat
      BY <1>1, <1>2, <3>1, <3>2, FS_RemoveElement
    <3>5. k - 1 \in 0 .. k - 1
      BY <3>4
    <3>6. c \in T
      BY <1>2, <3>4, <3>5
    <3> QED BY <3>3, <3>6
  <2> QED BY <2>1, <2>2
<1>3. \A k \in 0 .. Cardinality(S) : (\A j \in 0 .. k - 1 : j \in U) => k \in U
  BY <1>2
<1> HIDE DEF U
<1>4. Cardinality(S) \in U
  BY <1>1, <1>3, UpTo
<1> QED BY <1>4 DEF U

\* A sum over one element more.
LEMMA SumWith ==
  ASSUME NEW S, IsFiniteSet(S), NEW f, \A y \in S : f[y] \in Int, NEW x, x \notin S, f[x] \in Int
  PROVE  /\ SumFunctionOnSet(f, S \cup {x}) = SumFunctionOnSet(f, S) + f[x]
         /\ SumFunctionOnSet(f, S) \in Int
<1>1. IsFiniteSet(S \cup {x}) /\ (S \cup {x}) \ {x} = S
  BY FS_AddElement
<1>2. \A y \in S \cup {x} : f[y] \in Int
  OBVIOUS
<1>3. SumFunctionOnSet(f, S \cup {x}) = f[x] + SumFunctionOnSet(f, S)
  BY <1>1, <1>2, SumAdds
<1>4. SumFunctionOnSet(f, S) \in Int
  BY SumAdds
<1> QED BY <1>3, <1>4

\* Only the values on the set matter.
LEMMA SumSame ==
  ASSUME NEW S, IsFiniteSet(S), NEW f, NEW g, \A x \in S : f[x] \in Int /\ g[x] = f[x]
  PROVE  SumFunctionOnSet(g, S) = SumFunctionOnSet(f, S) /\ SumFunctionOnSet(f, S) \in Int
<1>1. \A x \in S : f[x] \in Int /\ g[x] \in Int /\ f[x] =< g[x] /\ g[x] =< f[x]
  OBVIOUS
<1>2. SumFunctionOnSet(f, S) \in Int /\ SumFunctionOnSet(g, S) \in Int
  BY <1>1, SumAdds
<1>3. SumFunctionOnSet(f, S) =< SumFunctionOnSet(g, S) /\ SumFunctionOnSet(g, S) =< SumFunctionOnSet(f, S)
  BY <1>1, SumMonotone
<1> QED BY <1>2, <1>3

\* The sum over two sets that do not meet.
LEMMA SumUnion ==
  ASSUME NEW A, IsFiniteSet(A), NEW B, IsFiniteSet(B), A \cap B = {}, NEW f,
         \A x \in A \cup B : f[x] \in Int
  PROVE  /\ SumFunctionOnSet(f, A \cup B) = SumFunctionOnSet(f, A) + SumFunctionOnSet(f, B)
         /\ SumFunctionOnSet(f, A) \in Int /\ SumFunctionOnSet(f, B) \in Int
<1> DEFINE T == {b \in SUBSET B : SumFunctionOnSet(f, A \cup b)
                                    = SumFunctionOnSet(f, A) + SumFunctionOnSet(f, b)}
<1>1. SumFunctionOnSet(f, A) \in Int /\ SumFunctionOnSet(f, B) \in Int
  BY SumAdds
<1>2. {} \in T
  <2>1. SumFunctionOnSet(f, {}) = 0 /\ A \cup {} = A
    BY SumUnfold, FS_EmptySet
  <2> QED BY <1>1, <2>1
<1>3. ASSUME NEW b \in SUBSET B, NEW x \in B \ b, b \in T PROVE b \cup {x} \in T
  <2>1. IsFiniteSet(b) /\ IsFiniteSet(A \cup b) /\ x \notin A \cup b
    BY <1>3, FS_Subset, FS_Union
  <2>2. /\ SumFunctionOnSet(f, b \cup {x}) = SumFunctionOnSet(f, b) + f[x]
        /\ SumFunctionOnSet(f, b) \in Int
    BY <1>3, <2>1, SumWith
  <2>3. SumFunctionOnSet(f, (A \cup b) \cup {x}) = SumFunctionOnSet(f, A \cup b) + f[x]
    BY <1>3, <2>1, SumWith
  <2>4. (A \cup b) \cup {x} = A \cup (b \cup {x}) /\ f[x] \in Int
    BY <1>3
  <2>5. SumFunctionOnSet(f, A \cup b) = SumFunctionOnSet(f, A) + SumFunctionOnSet(f, b)
    BY <1>3
  <2>6. PICK p, q, r \in Int : p = SumFunctionOnSet(f, A) /\ q = SumFunctionOnSet(f, b) /\ r = f[x]
    BY <1>1, <2>2, <2>4
  <2>7. SumFunctionOnSet(f, A \cup (b \cup {x})) = (p + q) + r
    <3>1. SumFunctionOnSet(f, A \cup (b \cup {x})) = SumFunctionOnSet(f, (A \cup b) \cup {x})
      BY <2>4
    <3> QED BY <2>3, <2>5, <2>6, <3>1
  <2>8. SumFunctionOnSet(f, b \cup {x}) = q + r
    BY <2>2, <2>6
  <2>9. (p + q) + r = p + (q + r)
    BY <2>6
  <2>10. SumFunctionOnSet(f, A \cup (b \cup {x}))
           = SumFunctionOnSet(f, A) + SumFunctionOnSet(f, b \cup {x})
    BY <2>6, <2>7, <2>8, <2>9
  <2> QED BY <1>3, <2>10
<1> HIDE DEF T
<1>4. B \in T
  BY <1>2, <1>3, FiniteGrows
<1> QED BY <1>1, <1>4 DEF T

\* The sum over sets that do not meet is the sum of their sums.
LEMMA SumOfSums ==
  ASSUME NEW S, IsFiniteSet(S), NEW P, \A x \in S : IsFiniteSet(P[x]),
         \A x, y \in S : x # y => P[x] \cap P[y] = {},
         NEW f, \A x \in S : \A z \in P[x] : f[z] \in Int,
         NEW g, \A x \in S : g[x] = SumFunctionOnSet(f, P[x])
  PROVE  /\ IsFiniteSet(UNION {P[x] : x \in S})
         /\ SumFunctionOnSet(f, UNION {P[x] : x \in S}) = SumFunctionOnSet(g, S)
<1> DEFINE Of(b) == UNION {P[x] : x \in b}
           T == {b \in SUBSET S : /\ IsFiniteSet(Of(b))
                                  /\ SumFunctionOnSet(f, Of(b)) = SumFunctionOnSet(g, b)}
<1>1. \A x \in S : g[x] \in Int
  BY SumAdds
<1>2. {} \in T
  <2>1. SumFunctionOnSet(f, {}) = 0 /\ SumFunctionOnSet(g, {}) = 0 /\ Of({}) = {} /\ IsFiniteSet({})
    BY SumUnfold, FS_EmptySet
  <2> QED BY <2>1
<1>3. ASSUME NEW b \in SUBSET S, NEW x \in S \ b, b \in T PROVE b \cup {x} \in T
  <2>1. /\ IsFiniteSet(b) /\ x \notin b /\ IsFiniteSet(P[x]) /\ IsFiniteSet(Of(b))
        /\ SumFunctionOnSet(f, Of(b)) = SumFunctionOnSet(g, b)
    BY <1>3, FS_Subset
  <2>2. Of(b \cup {x}) = Of(b) \cup P[x]
    OBVIOUS
  <2>3. Of(b) \cap P[x] = {}
    BY <2>1
  <2>4. \A z \in Of(b) \cup P[x] : f[z] \in Int
    OBVIOUS
  <2> HIDE DEF Of
  <2>5. /\ IsFiniteSet(Of(b) \cup P[x])
        /\ SumFunctionOnSet(f, Of(b) \cup P[x]) = SumFunctionOnSet(f, Of(b)) + SumFunctionOnSet(f, P[x])
    <3>1. PICK A, B : A = Of(b) /\ B = P[x]
      OBVIOUS
    <3>2. IsFiniteSet(A) /\ IsFiniteSet(B) /\ A \cap B = {} /\ \A z \in A \cup B : f[z] \in Int
      BY <2>1, <2>3, <2>4, <3>1
    <3>3. IsFiniteSet(A \cup B)
      BY ONLY <3>2, FS_Union
    <3>4. SumFunctionOnSet(f, A \cup B) = SumFunctionOnSet(f, A) + SumFunctionOnSet(f, B)
      BY ONLY <3>2, SumUnion
    <3> QED BY <3>1, <3>3, <3>4
  <2>6. SumFunctionOnSet(g, b \cup {x}) = SumFunctionOnSet(g, b) + g[x]
    BY <1>1, <2>1, SumWith
  <2>7. g[x] = SumFunctionOnSet(f, P[x])
    OBVIOUS
  <2> QED BY <2>1, <2>2, <2>5, <2>6, <2>7
<1> HIDE DEF T
<1>4. S \in T
  BY <1>2, <1>3, FiniteGrows
<1> QED BY <1>4 DEF T

\* The sum over a sequence with one number more at its head.
LEMMA SumShift ==
  ASSUME NEW n \in Nat, NEW f, NEW g, \A j \in 1 .. n : f[j] \in Int /\ g[j + 1] = f[j],
         g[1] \in Int
  PROVE  /\ SumFunctionOnSet(g, 1 .. n + 1) = g[1] + SumFunctionOnSet(f, 1 .. n)
         /\ SumFunctionOnSet(f, 1 .. n) \in Int
<1> DEFINE T == {k \in 0 .. n : SumFunctionOnSet(g, 1 .. k + 1) = g[1] + SumFunctionOnSet(f, 1 .. k)}
<1>1. \A j \in 1 .. n + 1 : g[j] \in Int
  <2>1. ASSUME NEW j \in 1 .. n + 1, j # 1 PROVE g[j] \in Int
    <3>1. j - 1 \in 1 .. n /\ (j - 1) + 1 = j
      BY <2>1
    <3> QED BY <3>1
  <2> QED BY <2>1
<1>2. ASSUME NEW k \in 0 .. n, \A i \in 0 .. k - 1 : i \in T PROVE k \in T
  <2>1. CASE k = 0
    <3>1. PICK o : o = {}
      OBVIOUS
    <3>2. 1 .. k + 1 = o \cup {1} /\ 1 .. k = o /\ 1 \notin o /\ \A y \in o : g[y] \in Int
      BY <2>1, <3>1
    <3>3. SumFunctionOnSet(g, o) = 0 /\ SumFunctionOnSet(f, o) = 0 /\ IsFiniteSet(o)
      BY <3>1, SumUnfold, FS_EmptySet
    <3>4. SumFunctionOnSet(g, o \cup {1}) = SumFunctionOnSet(g, o) + g[1]
      BY <3>2, <3>3, SumWith
    <3>5. PICK p \in Int : p = g[1]
      OBVIOUS
    <3>6. SumFunctionOnSet(g, 1 .. k + 1) = 0 + p /\ SumFunctionOnSet(f, 1 .. k) = 0
      BY <3>2, <3>3, <3>4, <3>5
    <3> QED BY <3>5, <3>6
  <2>2. CASE k # 0
    <3>1. k - 1 \in 0 .. k - 1 /\ k \in 1 .. n /\ (k - 1) + 1 = k
      BY <2>2
    <3>2. SumFunctionOnSet(g, 1 .. k) = g[1] + SumFunctionOnSet(f, 1 .. k - 1)
      BY <1>2, <3>1
    <3>3. PICK A, B : A = 1 .. k /\ B = 1 .. k - 1
      OBVIOUS
    <3>4. /\ 1 .. k + 1 = A \cup {k + 1} /\ k + 1 \notin A /\ 1 .. k = B \cup {k} /\ k \notin B
          /\ A \subseteq 1 .. n + 1 /\ B \subseteq 1 .. n
      BY <3>1, <3>3
    <3>5. IsFiniteSet(A) /\ IsFiniteSet(B)
      BY <3>1, <3>3, FS_Interval
    <3>6. /\ \A y \in A : g[y] \in Int
          /\ \A y \in B : f[y] \in Int
          /\ g[k + 1] = f[k] /\ f[k] \in Int /\ g[k + 1] \in Int
      BY <1>1, <3>1, <3>4
    <3>7. SumFunctionOnSet(g, A \cup {k + 1}) = SumFunctionOnSet(g, A) + g[k + 1]
      BY <3>4, <3>5, <3>6, SumWith
    <3>8. /\ SumFunctionOnSet(f, B \cup {k}) = SumFunctionOnSet(f, B) + f[k]
          /\ SumFunctionOnSet(f, B) \in Int
      BY <3>4, <3>5, <3>6, SumWith
    <3>9. PICK p, q, r \in Int : p = g[1] /\ q = SumFunctionOnSet(f, B) /\ r = f[k]
      BY <3>6, <3>8
    <3>10. SumFunctionOnSet(g, 1 .. k + 1) = (p + q) + r
      BY <3>2, <3>3, <3>4, <3>6, <3>7, <3>9
    <3>11. SumFunctionOnSet(f, 1 .. k) = q + r
      BY <3>4, <3>8, <3>9
    <3>12. (p + q) + r = p + (q + r)
      BY <3>9
    <3> QED BY <3>9, <3>10, <3>11, <3>12
  <2> QED BY <2>1, <2>2
<1> HIDE DEF T
<1>3. n \in T
  BY ONLY n \in Nat, <1>2, UpTo
<1>4. PICK S : S = 1 .. n
  OBVIOUS
<1>5. IsFiniteSet(S) /\ \A j \in S : f[j] \in Int
  BY <1>4, FS_Interval
<1>6. SumFunctionOnSet(f, 1 .. n) \in Int
  BY <1>4, <1>5, SumAdds
<1> QED BY <1>3, <1>6 DEF T

\* One number changed.
LEMMA SumReplaced ==
  ASSUME NEW S, IsFiniteSet(S), NEW f, NEW g, NEW j \in S, g[j] \in Int,
         \A i \in S : f[i] \in Int, \A i \in S \ {j} : g[i] = f[i]
  PROVE  /\ SumFunctionOnSet(g, S) = SumFunctionOnSet(f, S) + (g[j] - f[j])
         /\ SumFunctionOnSet(f, S) \in Int
<1>1. IsFiniteSet(S \ {j}) /\ \A i \in S : g[i] \in Int
  BY FS_RemoveElement
<1>2. /\ SumFunctionOnSet(f, S) = f[j] + SumFunctionOnSet(f, S \ {j})
      /\ SumFunctionOnSet(g, S) = g[j] + SumFunctionOnSet(g, S \ {j})
  BY <1>1, SumAdds
<1>3. SumFunctionOnSet(g, S \ {j}) = SumFunctionOnSet(f, S \ {j}) /\ SumFunctionOnSet(f, S \ {j}) \in Int
  BY <1>1, SumSame
<1>4. PICK p, q, r \in Int : p = f[j] /\ q = g[j] /\ r = SumFunctionOnSet(f, S \ {j})
  BY <1>3
<1>5. q + r = (p + r) + (q - p) /\ p + r \in Int
  BY <1>4
<1> QED BY <1>2, <1>3, <1>4, <1>5

=============================================================================
