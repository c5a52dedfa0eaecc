-------------------------- MODULE NtfsIndexProofs --------------------------
(***************************************************************************)
(* Proofs about NtfsIndex: in whatever order the chunks of a volume come,  *)
(* the table holds what has been loaded.                                   *)
(***************************************************************************)
EXTENDS NtfsIndex, SequenceLemmas, TLAPS

-----------------------------------------------------------------------------
(* Chains. *)

\* Every entry leads to an older one.
Ending(e) == Len(e) \in Nat /\ \A i \in 1 .. Len(e) : e[i].next \in 0 .. i - 1

IsFrom(from, e, n) ==
    from = [i \in 0 .. n |-> IF i = Nil THEN <<>> ELSE <<i>> \o from[e[i].next]]

\* The chain from an entry is the entry and the chain from the next.
LEMMA ChainIs ==
  ASSUME NEW e, Ending(e), NEW h \in 0 .. Len(e)
  PROVE  Chain(e, h) = IF h = 0 THEN <<>> ELSE <<h>> \o Chain(e, e[h].next)
<1> DEFINE T == {k \in 0 .. Len(e) : \E from : IsFrom(from, e, k)}
<1>1. Len(e) \in Nat /\ \A i \in 1 .. Len(e) : e[i].next \in 0 .. i - 1
  BY DEF Ending
<1>2. ASSUME NEW k \in 0 .. Len(e), \A j \in 0 .. k - 1 : j \in T
      PROVE  \E from : IsFrom(from, e, k)
  <2>1. CASE k = 0
    <3> DEFINE f == [i \in 0 .. 0 |-> <<>>]
    <3>1. IsFrom(f, e, 0)
      BY DEF IsFrom, Nil
    <3> QED BY <2>1, <3>1
  <2>2. CASE k > 0
    <3>1. k \in Nat /\ k - 1 \in 0 .. k - 1 /\ k \in 1 .. Len(e)
      BY <1>1, <2>2
    <3>2. k - 1 \in T
      BY <1>2, <3>1
    <3>3. PICK g : IsFrom(g, e, k - 1)
      BY <3>2
    <3>4. g = [i \in 0 .. k - 1 |-> IF i = Nil THEN <<>> ELSE <<i>> \o g[e[i].next]]
      BY <3>3 DEF IsFrom
    <3> DEFINE f == [i \in 0 .. k |-> IF i = Nil THEN <<>> ELSE <<i>> \o g[e[i].next]]
    <3>5. ASSUME NEW i \in 0 .. k - 1 PROVE f[i] = g[i]
      <4>1. i \in 0 .. k
        BY <3>1
      <4>2. f[i] = IF i = Nil THEN <<>> ELSE <<i>> \o g[e[i].next]
        BY <4>1
      <4>3. PICK B : B = IF i = Nil THEN <<>> ELSE <<i>> \o g[e[i].next]
        OBVIOUS
      <4>4. g[i] = B
        BY <3>4, <4>3
      <4> HIDE DEF f
      <4> QED BY <4>2, <4>3, <4>4
    <3>6. ASSUME NEW i \in 0 .. k, i # Nil PROVE f[e[i].next] = g[e[i].next]
      <4>1. e[i].next \in 0 .. k - 1
        BY <1>1, <3>1, <3>6 DEF Nil
      <4> QED BY <3>5, <4>1
    <3>7. f = [i \in 0 .. k |-> IF i = Nil THEN <<>> ELSE <<i>> \o f[e[i].next]]
      BY <3>6
    <3> QED BY <3>7 DEF IsFrom
  <2> QED BY <1>1, <2>1, <2>2
<1>3. ASSUME NEW k \in 0 .. Len(e), \A j \in 0 .. k - 1 : j \in T
      PROVE  k \in T
  BY <1>2, <1>3
<1>4. Len(e) \in 0 .. Len(e)
  BY <1>1
<1>5. Len(e) \in T
  <2> HIDE DEF T
  <2> QED BY <1>1, <1>3, <1>4, UpTo
<1> DEFINE c == CHOOSE from : IsFrom(from, e, Len(e))
<1>6. \A j : Chain(e, j) = c[j]
  BY DEF Chain, IsFrom
<1>7. c = [i \in 0 .. Len(e) |-> IF i = Nil THEN <<>> ELSE <<i>> \o c[e[i].next]]
  BY <1>5 DEF IsFrom
<1> HIDE DEF c
<1>8. c[h] = IF h = 0 THEN <<>> ELSE <<h>> \o c[e[h].next]
  BY <1>7 DEF Nil
<1> QED BY <1>6, <1>8

\* A chain descends from its head.
Descending(c, h) == c \in Seq(1 .. h) /\ \A i, j \in 1 .. Len(c) : i < j => c[j] < c[i]

\* A chain that leads to older entries only never comes back to one: it ends.
LEMMA ChainDescends ==
  ASSUME NEW e, Ending(e), NEW h \in 0 .. Len(e)
  PROVE  Descending(Chain(e, h), h)
<1> DEFINE T == {k \in 0 .. Len(e) : Descending(Chain(e, k), k)}
<1>1. Len(e) \in Nat /\ \A i \in 1 .. Len(e) : e[i].next \in 0 .. i - 1
  BY DEF Ending
<1>2. ASSUME NEW k \in 0 .. Len(e), \A j \in 0 .. k - 1 : j \in T
      PROVE  Descending(Chain(e, k), k)
  <2>1. CASE k = 0
    <3>1. Chain(e, k) = <<>>
      BY <2>1, ChainIs
    <3>2. <<>> \in Seq(1 .. k) /\ Len(<<>>) = 0
      OBVIOUS
    <3> QED BY <3>1, <3>2 DEF Descending
  <2>2. CASE k # 0
    <3>1. k \in Nat /\ k \in 1 .. Len(e) /\ e[k].next \in 0 .. k - 1
      BY <1>1, <2>2
    <3>2. Descending(Chain(e, e[k].next), e[k].next)
      BY <1>2, <3>1
    <3>3. PICK c : c = Chain(e, e[k].next)
      OBVIOUS
    <3>4. c \in Seq(1 .. e[k].next) /\ \A i, j \in 1 .. Len(c) : i < j => c[j] < c[i]
      BY <3>2, <3>3 DEF Descending
    <3>5. 1 .. e[k].next \subseteq 1 .. k - 1 /\ 1 .. e[k].next \subseteq 1 .. k
      BY <3>1
    <3>6. c \in Seq(1 .. k - 1) /\ c \in Seq(1 .. k)
      <4>1. ASSUME NEW i \in 1 .. Len(c) PROVE c[i] \in 1 .. k - 1 /\ c[i] \in 1 .. k
        <5>1. PICK q \in 0 .. k - 1 : q = e[k].next
          BY <3>1
        <5>2. c \in Seq(1 .. q)
          BY <3>4, <5>1
        <5>3. c[i] \in 1 .. q
          BY <5>2
        <5> QED BY <3>1, <5>3
      <4>2. Len(c) \in Nat /\ c = [i \in 1 .. Len(c) |-> c[i]]
        BY <3>4
      <4> QED BY <4>1, <4>2
    <3> DEFINE d == <<k>> \o c
    <3>7. d \in Seq(1 .. k) /\ Len(d) = Len(c) + 1 /\ d[1] = k
          /\ \A i \in 2 .. Len(d) : d[i] = c[i - 1]
      <4>1. <<k>> \in Seq(1 .. k)
        BY <3>1
      <4> QED BY <3>6, <4>1
    <3> HIDE DEF d
    <3>8. ASSUME NEW i \in 1 .. Len(d), NEW j \in 1 .. Len(d), i < j PROVE d[j] < d[i]
      <4>0. Len(c) \in Nat /\ Len(d) = Len(c) + 1
        BY <3>6, <3>7
      <4>1. j \in 2 .. Len(d) /\ j - 1 \in 1 .. Len(c) /\ Len(c) \in Nat
        BY <3>8, <4>0
      <4>2. d[j] = c[j - 1] /\ c[j - 1] \in 1 .. k - 1
        <5>1. d[j] = c[j - 1]
          BY <3>7, <4>1
        <5>2. c[j - 1] \in 1 .. k - 1
          BY <3>6, <4>1
        <5> QED BY <5>1, <5>2
      <4>3. CASE i = 1
        BY <3>1, <3>7, <4>2, <4>3
      <4>4. CASE i # 1
        <5>1. i \in 2 .. Len(d) /\ i - 1 \in 1 .. Len(c) /\ i - 1 < j - 1
          BY <3>7, <3>8, <4>1, <4>4
        <5> QED BY <3>4, <3>7, <4>1, <4>2, <5>1
      <4> QED BY <4>3, <4>4
    <3>9. Chain(e, k) = d
      BY <2>2, <3>3, ChainIs DEF d
    <3> QED BY <3>7, <3>8, <3>9 DEF Descending
  <2> QED BY <2>1, <2>2
<1>3. ASSUME NEW k \in 0 .. Len(e), \A j \in 0 .. k - 1 : j \in T
      PROVE  k \in T
  BY <1>2, <1>3
<1> HIDE DEF T
<1>4. h \in T
  BY <1>1, <1>3, UpTo
<1> QED BY <1>4 DEF T

\* Only what the entries lead to matters, and newer entries do not.
LEMMA ChainSame ==
  ASSUME NEW e, NEW d, Ending(e), Ending(d), Len(e) =< Len(d),
         \A i \in 1 .. Len(e) : d[i].next = e[i].next, NEW h \in 0 .. Len(e)
  PROVE  Chain(d, h) = Chain(e, h)
<1> DEFINE T == {k \in 0 .. Len(e) : Chain(d, k) = Chain(e, k)}
<1>1. Len(e) \in Nat /\ Len(d) \in Nat /\ \A i \in 1 .. Len(e) : e[i].next \in 0 .. i - 1
  BY DEF Ending
<1>2. ASSUME NEW k \in 0 .. Len(e), \A j \in 0 .. k - 1 : j \in T
      PROVE  Chain(d, k) = Chain(e, k)
  <2>1. k \in 0 .. Len(d)
    BY <1>1
  <2>2. CASE k = 0
    BY <2>1, <2>2, ChainIs
  <2>3. CASE k # 0
    <3>1. k \in Nat /\ k \in 1 .. Len(e) /\ e[k].next \in 0 .. k - 1
      BY <1>1, <2>3
    <3>2. Chain(d, e[k].next) = Chain(e, e[k].next)
      BY <1>2, <3>1
    <3>3. Chain(d, k) = <<k>> \o Chain(d, d[k].next)
      BY <2>1, <2>3, ChainIs
    <3>4. Chain(e, k) = <<k>> \o Chain(e, e[k].next)
      BY <2>3, ChainIs
    <3> QED BY <3>1, <3>2, <3>3, <3>4
  <2> QED BY <2>2, <2>3
<1>3. ASSUME NEW k \in 0 .. Len(e), \A j \in 0 .. k - 1 : j \in T
      PROVE  k \in T
  BY <1>2, <1>3
<1> HIDE DEF T
<1>4. h \in T
  BY <1>1, <1>3, UpTo
<1> QED BY <1>4 DEF T

\* The entries of a chain: what the vector holds, and what push_back() does to them.
LEMMA EntriesIs ==
  ASSUME NEW S, NEW e \in Seq(S), Ending(e), NEW h \in 0 .. Len(e)
  PROVE  /\ Entries(e, h) \in Seq(S)
         /\ Len(Entries(e, h)) = Len(Chain(e, h))
         /\ \A j \in 1 .. Len(Chain(e, h)) :
               Chain(e, h)[j] \in 1 .. h /\ Entries(e, h)[j] = e[Chain(e, h)[j]]
<1>1. PICK c : c = Chain(e, h)
  OBVIOUS
<1>2. c \in Seq(1 .. h)
  BY <1>1, ChainDescends DEF Descending
<1>3. Entries(e, h) = [j \in 1 .. Len(c) |-> e[c[j]]]
  BY <1>1 DEF Entries
<1>4. \A j \in 1 .. Len(c) : c[j] \in 1 .. h /\ e[c[j]] \in S
  BY <1>2
<1> QED BY <1>1, <1>2, <1>3, <1>4

\* Entries added behind the others change no chain that there was.
LEMMA EntriesExtend ==
  ASSUME NEW S, NEW e \in Seq(S), NEW d \in Seq(S), Ending(e), Ending(d), Len(e) =< Len(d),
         \A i \in 1 .. Len(e) : d[i] = e[i], NEW h \in 0 .. Len(e)
  PROVE  Entries(d, h) = Entries(e, h) /\ Chain(d, h) = Chain(e, h)
<1>1. Chain(d, h) = Chain(e, h)
  BY ChainSame
<1>2. PICK c : c = Chain(e, h)
  OBVIOUS
<1>3. c \in Seq(1 .. h)
  BY <1>2, ChainDescends DEF Descending
<1>4. \A j \in 1 .. Len(c) : d[c[j]] = e[c[j]]
  BY <1>3
<1>5. Entries(e, h) = [j \in 1 .. Len(c) |-> e[c[j]]] /\ Entries(d, h) = [j \in 1 .. Len(c) |-> d[c[j]]]
  BY <1>1, <1>2 DEF Entries
<1> QED BY <1>1, <1>4, <1>5

\* push_back() of an entry whose next is an old one: the old chains stay, and the new
\* entry heads the chain of the one it leads to.
LEMMA EntriesPush ==
  ASSUME NEW S, NEW e \in Seq(S), Ending(e), NEW r \in S, r.next \in 0 .. Len(e)
  PROVE  /\ Append(e, r) \in Seq(S) /\ Ending(Append(e, r)) /\ Len(Append(e, r)) = Len(e) + 1
         /\ \A h \in 0 .. Len(e) : Entries(Append(e, r), h) = Entries(e, h)
                                   /\ Chain(Append(e, r), h) = Chain(e, h)
         /\ Entries(Append(e, r), Len(e) + 1) = <<r>> \o Entries(e, r.next)
         /\ Chain(Append(e, r), Len(e) + 1) = <<Len(e) + 1>> \o Chain(e, r.next)
<1> DEFINE d == Append(e, r)
<1>1. /\ d \in Seq(S) /\ Len(d) = Len(e) + 1 /\ d[Len(e) + 1] = r
      /\ \A i \in 1 .. Len(e) : d[i] = e[i]
  OBVIOUS
<1> HIDE DEF d
<1>2. Len(e) \in Nat /\ \A i \in 1 .. Len(e) : e[i].next \in 0 .. i - 1
  BY DEF Ending
<1>3. Ending(d)
  <2>1. ASSUME NEW i \in 1 .. Len(d) PROVE d[i].next \in 0 .. i - 1
    <3>1. CASE i \in 1 .. Len(e)
      BY <1>1, <1>2, <3>1
    <3>2. CASE i = Len(e) + 1
      BY <1>1, <1>2, <3>2
    <3> QED BY <1>1, <1>2, <3>1, <3>2
  <2> QED BY <1>1, <1>2, <2>1 DEF Ending
<1>4. \A h \in 0 .. Len(e) : Entries(d, h) = Entries(e, h) /\ Chain(d, h) = Chain(e, h)
  BY <1>1, <1>2, <1>3, EntriesExtend
<1>5. Chain(d, Len(e) + 1) = <<Len(e) + 1>> \o Chain(d, r.next)
  <2>1. Len(e) + 1 \in 0 .. Len(d) /\ Len(e) + 1 # 0
    BY <1>1, <1>2
  <2> QED BY <1>1, <1>3, <2>1, ChainIs
<1>6. PICK c : c = Chain(e, r.next)
  OBVIOUS
<1>7. c \in Seq(1 .. Len(e))
  <2>1. c \in Seq(1 .. r.next) /\ 1 .. r.next \subseteq 1 .. Len(e)
    BY <1>2, <1>6, ChainDescends DEF Descending
  <2> QED BY <2>1
<1>8. Chain(d, Len(e) + 1) = <<Len(e) + 1>> \o c
  BY <1>4, <1>5, <1>6
<1>9. Entries(d, Len(e) + 1) = <<r>> \o Entries(e, r.next)
  <2> DEFINE m == <<Len(e) + 1>> \o c
             x == Entries(e, r.next)
  <2>1. Len(m) = Len(c) + 1 /\ m[1] = Len(e) + 1 /\ \A j \in 2 .. Len(m) : m[j] = c[j - 1]
    BY <1>2, <1>7
  <2>2. x = [j \in 1 .. Len(c) |-> e[c[j]]]
    BY <1>6 DEF Entries
  <2>3. Entries(d, Len(e) + 1) = [j \in 1 .. Len(c) + 1 |-> d[m[j]]]
    BY <1>8, <2>1 DEF Entries
  <2>4. Len(c) \in Nat /\ \A j \in 1 .. Len(c) : e[c[j]] \in S /\ c[j] \in 1 .. Len(e)
    BY <1>7
  <2>5. x \in Seq(S) /\ Len(x) = Len(c)
    BY <2>2, <2>4
  <2> HIDE DEF m, x
  <2>6. <<r>> \o x = [j \in 1 .. Len(c) + 1 |-> IF j = 1 THEN r ELSE x[j - 1]]
    BY <2>4, <2>5
  <2>7. ASSUME NEW j \in 1 .. Len(c) + 1
        PROVE  d[m[j]] = IF j = 1 THEN r ELSE x[j - 1]
    <3>1. CASE j = 1
      BY <1>1, <2>1, <3>1
    <3>2. CASE j # 1
      <4>1. j \in 2 .. Len(m) /\ j - 1 \in 1 .. Len(c)
        BY <2>1, <2>4, <3>2
      <4> QED BY <1>1, <2>1, <2>2, <2>4, <3>2, <4>1
    <3> QED BY <3>1, <3>2
  <2>8. Entries(d, Len(e) + 1) = <<r>> \o x
    BY <2>3, <2>6, <2>7
  <2> QED BY <2>8 DEF x
<1> QED BY <1>1, <1>3, <1>4, <1>6, <1>8, <1>9 DEF d

-----------------------------------------------------------------------------
(* Tables. *)

Strings == STRING \cup {NoName, DirType}

Links == [name : Strings, parent : Frss \cup {Nil}, next : Nat]

Streams ==
    [type : Strings, name : Strings, next : Nat, accounted : BOOLEAN, length : Int,
     allocated : Int, bulkiness : Int, treesize : Int]

Children == [record : Frss, nameIndex : Nat, next : Nat]

Records ==
    [nameCount : Nat, streamCount : Nat, firstChild : Nat, firstName : Links,
     firstStream : Streams]

Tables ==
    [lookup : [Frss -> Nat], records : Seq(Records), nameinfos : Seq(Links),
     streaminfos : Seq(Streams), childinfos : Seq(Children), total : Int, reserved : Int]

\* The chains of a record begin in the vectors of the table.
Pointing(t, r) ==
    /\ r.firstName.next \in 0 .. Len(t.nameinfos)
    /\ r.firstStream.next \in 0 .. Len(t.streaminfos)
    /\ r.firstChild \in 0 .. Len(t.childinfos)

\* The streams in streaminfos that are a file's.
StreamChain(t, f) == Chain(t.streaminfos, Rec(t, f).firstStream.next)

\* The table between two calls of load(): no two files share a stream, whose sizes grow in
\* its place.
Sound(t) ==
    /\ t \in Tables
    /\ WellFormed(t)
    /\ \A f \in Slots(t) : Pointing(t, Rec(t, f))
    /\ \A f, g \in Slots(t) : f # g => Range(StreamChain(t, f)) \cap Range(StreamChain(t, g)) = {}

\* What the table says of a file.
NoFile == [names |-> <<>>, children |-> <<>>, streams |-> <<>>, nameCount |-> 0, streamCount |-> 0]

File(t, f) ==
    IF f \in Slots(t)
    THEN [names |-> NamesOf(t, f), children |-> ChildrenOf(t, f), streams |-> StreamsOf(t, f),
          nameCount |-> Rec(t, f).nameCount, streamCount |-> Rec(t, f).streamCount]
    ELSE NoFile

\* What a sound table has.
LEMMA SoundHas ==
  ASSUME NEW t, Sound(t)
  PROVE  /\ t.lookup \in [Frss -> Nat] /\ t.records \in Seq(Records)
         /\ t.nameinfos \in Seq(Links) /\ Ending(t.nameinfos)
         /\ t.streaminfos \in Seq(Streams) /\ Ending(t.streaminfos)
         /\ t.childinfos \in Seq(Children) /\ Ending(t.childinfos)
         /\ Slots(t) = {f \in Frss : t.lookup[f] # 0}
         /\ \A f \in Slots(t) : /\ t.lookup[f] \in 1 .. Len(t.records)
                                /\ Rec(t, f) = t.records[t.lookup[f]] /\ Rec(t, f) \in Records
                                /\ Pointing(t, Rec(t, f))
         /\ \A f, g \in Slots(t) : t.lookup[f] = t.lookup[g] => f = g
         /\ \A i \in 1 .. Len(t.records) : \E f \in Slots(t) : t.lookup[f] = i
<1>1. /\ t.lookup \in [Frss -> Nat] /\ t.records \in Seq(Records)
      /\ t.nameinfos \in Seq(Links) /\ t.streaminfos \in Seq(Streams)
      /\ t.childinfos \in Seq(Children)
  BY DEF Sound, Tables
<1>2. /\ t.lookup \in [Frss -> 0 .. Len(t.records)]
      /\ \A f, g \in Slots(t) : t.lookup[f] = t.lookup[g] => f = g
      /\ \A i \in 1 .. Len(t.records) : \E f \in Slots(t) : t.lookup[f] = i
      /\ \A v \in {t.nameinfos, t.streaminfos, t.childinfos} :
             \A i \in 1 .. Len(v) : v[i].next \in 0 .. i - 1
  BY DEF Sound, WellFormed
<1>3. Ending(t.nameinfos) /\ Ending(t.streaminfos) /\ Ending(t.childinfos)
  BY <1>1, <1>2 DEF Ending
<1>4. Slots(t) = {f \in Frss : t.lookup[f] # 0}
  BY <1>1 DEF Slots, Nil
<1>5. ASSUME NEW f \in Slots(t)
      PROVE  /\ t.lookup[f] \in 1 .. Len(t.records)
             /\ Rec(t, f) = t.records[t.lookup[f]] /\ Rec(t, f) \in Records
  BY <1>1, <1>2, <1>4 DEF Rec
<1>6. \A f \in Slots(t) : Pointing(t, Rec(t, f))
  BY DEF Sound
<1> QED BY <1>1, <1>2, <1>3, <1>4, <1>5, <1>6

\* A vector that grows keeps its elements.
Grows(S, a, b) ==
    b \in Seq(S) /\ Ending(b) /\ Len(a) =< Len(b) /\ \A i \in 1 .. Len(a) : b[i] = a[i]

\* A vector that stays as it is has grown by nothing.
LEMMA GrowsSame ==
  ASSUME NEW S, NEW a \in Seq(S), Ending(a)
  PROVE  Grows(S, a, a)
BY DEF Grows, Ending

\* The chains from the old heads survive whatever is pushed back.
LEMMA GrowsEntries ==
  ASSUME NEW S, NEW a \in Seq(S), Ending(a), NEW b, Grows(S, a, b), NEW h \in 0 .. Len(a)
  PROVE  /\ Entries(b, h) = Entries(a, h) /\ Chain(b, h) = Chain(a, h)
         /\ h \in 0 .. Len(b)
<1>1. /\ b \in Seq(S) /\ Ending(b) /\ Len(a) =< Len(b)
      /\ \A i \in 1 .. Len(a) : b[i] = a[i]
  BY DEF Grows
<1>2. Len(a) \in Nat /\ Len(b) \in Nat
  BY <1>1 DEF Ending
<1> QED BY <1>1, <1>2, EntriesExtend

\* A step that puts a new record for f and lets vectors grow leaves the other files alone.
LEMMA Changed ==
  ASSUME NEW t, Sound(t), NEW f \in Slots(t), NEW r, NEW u \in Tables,
         u.lookup = t.lookup, u.records = [t.records EXCEPT ![t.lookup[f]] = r],
         Grows(Links, t.nameinfos, u.nameinfos), Grows(Streams, t.streaminfos, u.streaminfos),
         Grows(Children, t.childinfos, u.childinfos), Pointing(u, r),
         Range(Chain(u.streaminfos, r.firstStream.next))
            \subseteq Range(StreamChain(t, f)) \cup (Len(t.streaminfos) + 1 .. Len(u.streaminfos))
  PROVE  /\ Sound(u) /\ Slots(u) = Slots(t) /\ Rec(u, f) = r
         /\ \A g \in Frss \ {f} : File(u, g) = File(t, g)
<1> USE SoundHas
<1>0. /\ t.nameinfos \in Seq(Links) /\ Ending(t.nameinfos)
      /\ t.streaminfos \in Seq(Streams) /\ Ending(t.streaminfos)
      /\ t.childinfos \in Seq(Children) /\ Ending(t.childinfos)
  OBVIOUS
<1>1. Slots(u) = Slots(t)
  BY DEF Slots
<1>2. Rec(u, f) = r
  BY DEF Rec
<1>3. \A g \in Slots(t) \ {f} : Rec(u, g) = Rec(t, g)
  BY DEF Rec
<1>4. Ending(u.nameinfos) /\ Ending(u.streaminfos) /\ Ending(u.childinfos)
  BY DEF Grows
<1>5. WellFormed(u)
  <2>1. Len(u.records) = Len(t.records)
    OBVIOUS
  <2>2. u.lookup \in [Frss -> 0 .. Len(u.records)]
    BY <2>1 DEF Sound, WellFormed
  <2>3. \A v \in {u.nameinfos, u.streaminfos, u.childinfos} :
             \A i \in 1 .. Len(v) : v[i].next \in 0 .. i - 1
    BY <1>4 DEF Ending
  <2> QED BY <1>1, <2>1, <2>2, <2>3 DEF WellFormed
<1>6. \A g \in Slots(u) : Pointing(u, Rec(u, g))
  <2>1. ASSUME NEW g \in Slots(t) \ {f} PROVE Pointing(u, Rec(u, g))
    <3>1. Pointing(t, Rec(t, g))
      OBVIOUS
    <3>2. /\ Len(t.nameinfos) \in Nat /\ Len(t.streaminfos) \in Nat /\ Len(t.childinfos) \in Nat
          /\ Len(u.nameinfos) \in Nat /\ Len(u.streaminfos) \in Nat /\ Len(u.childinfos) \in Nat
      BY <1>4 DEF Ending
    <3>3. /\ Len(t.nameinfos) =< Len(u.nameinfos) /\ Len(t.streaminfos) =< Len(u.streaminfos)
          /\ Len(t.childinfos) =< Len(u.childinfos)
      BY DEF Grows
    <3>4. PICK q : q = Rec(t, g) /\ Rec(u, g) = q
      BY <1>3
    <3>5. /\ q.firstName.next \in 0 .. Len(t.nameinfos)
          /\ q.firstStream.next \in 0 .. Len(t.streaminfos)
          /\ q.firstChild \in 0 .. Len(t.childinfos)
      BY <3>1, <3>4 DEF Pointing
    <3>6. /\ q.firstName.next \in 0 .. Len(u.nameinfos)
          /\ q.firstStream.next \in 0 .. Len(u.streaminfos)
          /\ q.firstChild \in 0 .. Len(u.childinfos)
      BY ONLY <3>2, <3>3, <3>5
    <3> QED BY <3>4, <3>6 DEF Pointing
  <2> QED BY <1>1, <1>2, <2>1
<1>7. ASSUME NEW g \in Slots(t) \ {f}
      PROVE  /\ File(u, g) = File(t, g) /\ StreamChain(u, g) = StreamChain(t, g)
             /\ Range(StreamChain(t, g)) \subseteq 1 .. Len(t.streaminfos)
  <2>1. PICK q : q = Rec(t, g)
    OBVIOUS
  <2>2. Rec(u, g) = q /\ Pointing(t, q)
    BY <1>3, <2>1
  <2>3. /\ q.firstName.next \in 0 .. Len(t.nameinfos)
        /\ q.firstStream.next \in 0 .. Len(t.streaminfos)
        /\ q.firstChild \in 0 .. Len(t.childinfos)
    BY <2>2 DEF Pointing
  <2>4. Entries(u.nameinfos, q.firstName.next) = Entries(t.nameinfos, q.firstName.next)
    BY <1>0, <2>3, GrowsEntries
  <2>5. Entries(u.childinfos, q.firstChild) = Entries(t.childinfos, q.firstChild)
    BY <1>0, <2>3, GrowsEntries
  <2>6. Chain(u.streaminfos, q.firstStream.next) = Chain(t.streaminfos, q.firstStream.next)
    BY <1>0, <2>3, GrowsEntries
  <2>7. PICK c : c = Chain(t.streaminfos, q.firstStream.next)
    OBVIOUS
  <2>8. c \in Seq(1 .. q.firstStream.next)
    BY <2>3, <2>7, ChainDescends DEF Descending
  <2>9. \A i \in 1 .. Len(c) : c[i] \in 1 .. Len(t.streaminfos) /\ Len(c) \in Nat
    <3>1. PICK n \in 0 .. Len(t.streaminfos) : n = q.firstStream.next
      BY <2>3
    <3>2. c \in Seq(1 .. n)
      BY <2>8, <3>1
    <3> QED BY <3>1, <3>2
  <2>10. NamesOf(u, g) = NamesOf(t, g) /\ ChildrenOf(u, g) = ChildrenOf(t, g)
    BY <2>1, <2>2, <2>4, <2>5 DEF NamesOf, ChildrenOf
  <2>11. StreamPlaces(u, g) = StreamPlaces(t, g)
         /\ StreamPlaces(t, g) = IF q.firstStream.name = NoName THEN <<>> ELSE <<0>> \o c
    BY <2>1, <2>2, <2>6, <2>7 DEF StreamPlaces, InRecord
  <2>12. PICK p : p = StreamPlaces(t, g)
    OBVIOUS
  <2>13. Len(p) \in Nat /\ \A j \in 1 .. Len(p) : p[j] = 0 \/ p[j] \in 1 .. Len(t.streaminfos)
    <3>1. CASE q.firstStream.name = NoName
      BY <2>11, <2>12, <3>1
    <3>2. CASE q.firstStream.name # NoName
      <4>1. p = <<0>> \o c
        BY <2>11, <2>12, <3>2
      <4>2. Len(p) = Len(c) + 1 /\ p[1] = 0 /\ \A j \in 2 .. Len(p) : p[j] = c[j - 1]
        BY <2>8, <4>1
      <4>3. Len(c) \in Nat
        BY <2>8
      <4>4. \A j \in 2 .. Len(p) : j - 1 \in 1 .. Len(c)
        BY <4>2, <4>3
      <4>5. \A j \in 1 .. Len(p) : j = 1 \/ j \in 2 .. Len(p)
        BY <4>2, <4>3
      <4>6. \A j \in 2 .. Len(p) : p[j] \in 1 .. Len(t.streaminfos)
        BY <2>9, <4>2, <4>4
      <4>7. Len(p) \in Nat
        BY <4>2, <4>3
      <4> QED BY <4>2, <4>5, <4>6, <4>7
    <3> QED BY <3>1, <3>2
  <2>14. \A j \in 1 .. Len(p) : StreamAt(u, g, p[j]) = StreamAt(t, g, p[j])
    BY <2>1, <2>2, <2>13 DEF StreamAt, InRecord, Grows
  <2>15. StreamsOf(u, g) = StreamsOf(t, g)
    BY <2>11, <2>12, <2>14 DEF StreamsOf
  <2>16. File(u, g) = File(t, g)
    BY <1>1, <2>1, <2>2, <2>10, <2>15 DEF File
  <2>17. Range(c) \subseteq 1 .. Len(t.streaminfos)
    <3>1. DOMAIN c = 1 .. Len(c)
      BY <2>8
    <3> QED BY <2>9, <3>1 DEF Range
  <2> QED BY <2>1, <2>2, <2>6, <2>7, <2>16, <2>17 DEF StreamChain
<1>8. \A g \in Frss \ Slots(t) : File(u, g) = File(t, g)
  BY <1>1 DEF File
<1>9. \A g, h \in Slots(u) : g # h => Range(StreamChain(u, g)) \cap Range(StreamChain(u, h)) = {}
  <2>1. \A g \in Slots(t) \ {f} :
           Range(StreamChain(u, g)) \cap Range(StreamChain(u, f)) = {}
    <3>1. StreamChain(u, f) = Chain(u.streaminfos, r.firstStream.next)
      BY <1>2 DEF StreamChain
    <3>2. ASSUME NEW g \in Slots(t) \ {f}
          PROVE  Range(StreamChain(t, g)) \cap Range(StreamChain(t, f)) = {}
      BY DEF Sound
    <3>3. \A x \in 1 .. Len(t.streaminfos) : x \notin Len(t.streaminfos) + 1 .. Len(u.streaminfos)
      OBVIOUS
    <3> QED BY <1>7, <3>1, <3>2, <3>3
  <2>2. \A g, h \in Slots(t) \ {f} : g # h =>
           Range(StreamChain(u, g)) \cap Range(StreamChain(u, h)) = {}
    BY <1>7 DEF Sound
  <2>3. ASSUME NEW g \in Slots(u), NEW h \in Slots(u), g # h
        PROVE  Range(StreamChain(u, g)) \cap Range(StreamChain(u, h)) = {}
    <3>1. CASE g = f
      BY ONLY <1>1, <2>1, <2>3, <3>1
    <3>2. CASE h = f
      BY ONLY <1>1, <2>1, <2>3, <3>2
    <3>3. CASE g # f /\ h # f
      BY ONLY <1>1, <2>2, <2>3, <3>3
    <3> QED BY <3>1, <3>2, <3>3
  <2> QED BY <2>3
<1>10. Sound(u)
  BY <1>5, <1>6, <1>9 DEF Sound
<1> QED BY <1>1, <1>2, <1>7, <1>8, <1>10

\* at(): a slot for a file that has none says nothing yet.
LEMMA AtIs ==
  ASSUME NEW t, Sound(t), NEW f \in Frss
  PROVE  /\ Sound(At(t, f)) /\ Slots(At(t, f)) = Slots(t) \cup {f}
         /\ \A g \in Frss : File(At(t, f), g) = File(t, g)
         /\ \A g \in Slots(t) : Rec(At(t, f), g) = Rec(t, g)
         /\ At(t, f).nameinfos = t.nameinfos /\ At(t, f).streaminfos = t.streaminfos
         /\ At(t, f).childinfos = t.childinfos /\ At(t, f).reserved = t.reserved
<1> DEFINE u == At(t, f)
           n == Len(t.records) + 1
<1>1. CASE f \in Slots(t)
  <2>1. u = t /\ Slots(t) \cup {f} = Slots(t)
    BY <1>1 DEF At, Slots
  <2> QED BY <2>1
<1>2. CASE f \notin Slots(t)
  <2>0. t \in Tables /\ Len(t.records) \in Nat /\ n \in Nat
    BY SoundHas DEF Sound
  <2>1. u = [t EXCEPT !.records = Append(@, EmptyRecord), !.lookup[f] = n]
    BY <1>2, SoundHas DEF At, Slots
  <2>2. EmptyRecord \in Records
    <3>1. NoLink \in Links
      BY DEF NoLink, Links, Strings, Nil
    <3>2. NoStream \in Streams
      BY DEF NoStream, Streams, Strings, Nil
    <3> QED BY <3>1, <3>2 DEF EmptyRecord, Records, Nil
  <2>3. /\ u.lookup = [t.lookup EXCEPT ![f] = n] /\ u.records = Append(t.records, EmptyRecord)
        /\ u.nameinfos = t.nameinfos /\ u.streaminfos = t.streaminfos
        /\ u.childinfos = t.childinfos /\ u.reserved = t.reserved
    BY <2>0, <2>1 DEF Tables
  <2>4. u \in Tables
    <3>1. Append(t.records, EmptyRecord) \in Seq(Records)
      BY <2>0, <2>2 DEF Tables
    <3>2. [t.lookup EXCEPT ![f] = n] \in [Frss -> Nat]
      BY <2>0 DEF Tables
    <3> QED BY <2>0, <2>1, <3>1, <3>2 DEF Tables
  <2> HIDE DEF u
  <2>5. /\ Len(u.records) = n /\ u.records[n] = EmptyRecord
        /\ \A i \in 1 .. Len(t.records) : u.records[i] = t.records[i]
    BY <2>3, SoundHas
  <2>6. /\ DOMAIN t.lookup = Frss /\ DOMAIN u.lookup = Frss /\ u.lookup[f] = n
        /\ \A g \in Frss \ {f} : u.lookup[g] = t.lookup[g]
    BY <2>3, SoundHas
  <2>7. Slots(u) = Slots(t) \cup {f}
    BY <2>0, <2>6 DEF Slots, Nil
  <2>8. \A g \in Slots(t) : g # f /\ g \in Frss /\ u.lookup[g] = t.lookup[g]
                            /\ t.lookup[g] \in 1 .. Len(t.records)
    BY <1>2, <2>6, SoundHas
  <2>9. Rec(u, f) = EmptyRecord /\ \A g \in Slots(t) : Rec(u, g) = Rec(t, g)
    BY <2>5, <2>6, <2>8 DEF Rec
  <2>10. WellFormed(u)
    <3>1. u.lookup \in [Frss -> 0 .. Len(u.records)]
      <4>1. t.lookup \in [Frss -> 0 .. Len(t.records)]
        BY DEF Sound, WellFormed
      <4>2. \A g \in Frss : u.lookup[g] \in 0 .. n
        BY <2>0, <2>6, <4>1
      <4>3. u.lookup = [g \in Frss |-> u.lookup[g]]
        BY <2>3, <2>6
      <4> QED BY <2>5, <4>2, <4>3
    <3>2. ASSUME NEW g \in Slots(u), NEW h \in Slots(u), u.lookup[g] = u.lookup[h] PROVE g = h
      <4>1. \A k \in Slots(t) : u.lookup[k] # n
        BY <2>0, <2>8
      <4>2. CASE g \in Slots(t) /\ h \in Slots(t)
        BY <2>8, <3>2, <4>2, SoundHas
      <4> QED BY <2>6, <2>7, <3>2, <4>1, <4>2
    <3>3. ASSUME NEW i \in 1 .. Len(u.records) PROVE \E g \in Slots(u) : u.lookup[g] = i
      <4>1. CASE i \in 1 .. Len(t.records)
        BY <2>7, <2>8, <4>1, SoundHas
      <4>2. CASE i = n
        BY <2>6, <2>7, <4>2
      <4> QED BY <2>0, <2>5, <4>1, <4>2
    <3>4. \A v \in {u.nameinfos, u.streaminfos, u.childinfos} :
             \A i \in 1 .. Len(v) : v[i].next \in 0 .. i - 1
      BY <2>3 DEF Sound, WellFormed
    <3> QED BY <3>1, <3>2, <3>3, <3>4 DEF WellFormed
  <2>11. EmptyRecord.firstName.name = NoName /\ EmptyRecord.firstStream.name = NoName
         /\ EmptyRecord.firstName.next = 0 /\ EmptyRecord.firstStream.next = 0
         /\ EmptyRecord.firstChild = 0 /\ EmptyRecord.nameCount = 0 /\ EmptyRecord.streamCount = 0
    BY DEF EmptyRecord, NoLink, NoStream, Nil
  <2>12. Pointing(u, Rec(u, f))
    <3>1. Len(u.nameinfos) \in Nat /\ Len(u.streaminfos) \in Nat /\ Len(u.childinfos) \in Nat
      BY <2>3, SoundHas DEF Ending
    <3> QED BY <2>9, <2>11, <3>1 DEF Pointing
  <2>13. \A g \in Slots(t) : Pointing(u, Rec(u, g))
    BY <2>3, <2>9 DEF Pointing, Sound
  <2>14. \A g \in Slots(t) : StreamChain(u, g) = StreamChain(t, g)
    BY <2>3, <2>9 DEF StreamChain
  <2>15. Range(StreamChain(u, f)) = {}
    <3>1. 0 \in 0 .. Len(u.streaminfos) /\ Ending(u.streaminfos)
      BY <2>3, SoundHas DEF Ending
    <3>2. StreamChain(u, f) = <<>>
      BY <2>9, <2>11, <3>1, ChainIs DEF StreamChain
    <3> QED BY <3>2 DEF Range
  <2>16. Sound(u)
    <3>1. \A g, h \in Slots(u) : g # h => Range(StreamChain(u, g)) \cap Range(StreamChain(u, h)) = {}
      <4>1. \A g, h \in Slots(t) : g # h => Range(StreamChain(u, g)) \cap Range(StreamChain(u, h)) = {}
        BY <2>14 DEF Sound
      <4> QED BY <2>7, <2>15, <4>1
    <3> QED BY <2>4, <2>7, <2>10, <2>12, <2>13, <3>1 DEF Sound
  <2>17. File(u, f) = NoFile
    <3>1. NamesOf(u, f) = <<>>
      BY <2>9, <2>11 DEF NamesOf
    <3>2. ChildrenOf(u, f) = <<>>
      <4>1. 0 \in 0 .. Len(u.childinfos) /\ Ending(u.childinfos)
        BY <2>3, SoundHas DEF Ending
      <4>2. Chain(u.childinfos, 0) = <<>>
        BY <4>1, ChainIs
      <4> QED BY <2>9, <2>11, <4>2 DEF ChildrenOf, Entries
    <3>3. StreamPlaces(u, f) = <<>>
      BY <2>9, <2>11 DEF StreamPlaces
    <3>4. StreamsOf(u, f) = <<>>
      BY <3>3 DEF StreamsOf
    <3> QED BY <2>7, <2>9, <2>11, <3>1, <3>2, <3>4 DEF File, NoFile
  <2>18. \A g \in Slots(t) : File(u, g) = File(t, g)
    <3>1. ASSUME NEW g \in Slots(t)
          PROVE  /\ NamesOf(u, g) = NamesOf(t, g) /\ ChildrenOf(u, g) = ChildrenOf(t, g)
                 /\ StreamPlaces(u, g) = StreamPlaces(t, g)
      BY <2>3, <2>9 DEF NamesOf, ChildrenOf, StreamPlaces
    <3>2. ASSUME NEW g \in Slots(t) PROVE StreamsOf(u, g) = StreamsOf(t, g)
      <4>1. \A p : StreamAt(u, g, p) = StreamAt(t, g, p)
        BY <2>3, <2>9 DEF StreamAt
      <4> QED BY <3>1, <4>1 DEF StreamsOf
    <3> QED BY <2>7, <2>9, <3>1, <3>2 DEF File
  <2>19. \A g \in Frss : File(u, g) = File(t, g)
    <3>1. \A g \in Frss \ (Slots(t) \cup {f}) : File(u, g) = File(t, g)
      BY <2>7 DEF File
    <3>2. File(t, f) = NoFile
      BY <1>2 DEF File
    <3> QED BY <2>17, <2>18, <3>1, <3>2
  <2> QED BY <2>3, <2>7, <2>9, <2>16, <2>19 DEF u
<1> QED BY <1>1, <1>2

\* What else a step of Changed keeps of the file itself: a record that only its names, its
\* children or its count of names distinguish.
LEMMA FileIs ==
  ASSUME NEW t, Sound(t), NEW u, Sound(u), NEW f \in Slots(t), Slots(u) = Slots(t),
         Rec(u, f).firstStream = Rec(t, f).firstStream,
         u.streaminfos = t.streaminfos
  PROVE  StreamsOf(u, f) = StreamsOf(t, f)
<1>1. StreamPlaces(u, f) = StreamPlaces(t, f)
  BY DEF StreamPlaces
<1>2. \A p : StreamAt(u, f, p) = StreamAt(t, f, p)
  BY DEF StreamAt
<1> QED BY <1>1, <1>2 DEF StreamsOf

\* What is said of a file, with a name more, an entry more, a count more.
WithName(x, l) ==
    [names |-> <<l>> \o x.names, children |-> x.children, streams |-> x.streams,
     nameCount |-> x.nameCount, streamCount |-> x.streamCount]

WithChild(x, e) ==
    [names |-> x.names, children |-> <<e>> \o x.children, streams |-> x.streams,
     nameCount |-> x.nameCount, streamCount |-> x.streamCount]

Counted(x) ==
    [names |-> x.names, children |-> x.children, streams |-> x.streams,
     nameCount |-> x.nameCount + 1, streamCount |-> x.streamCount]

NewEntry(t, p, f, n) == [record |-> f, nameIndex |-> n, next |-> Rec(t, p).firstChild]

\* A child entry becomes the head of the chain of its directory.
LEMMA AddChildIs ==
  ASSUME NEW t, Sound(t), NEW p \in Slots(t), NEW f \in Frss, NEW n \in Nat
  PROVE  LET u == AddChild(t, p, f, n)
         IN /\ Sound(u) /\ Slots(u) = Slots(t)
            /\ \A g \in Frss \ {p} : File(u, g) = File(t, g)
            /\ File(u, p) = WithChild(File(t, p), NewEntry(t, p, f, n))
            /\ u.reserved = t.reserved
            /\ NewEntry(t, p, f, n) \in Children
<1> DEFINE u == AddChild(t, p, f, n)
           q == Rec(t, p)
           e == [record |-> f, nameIndex |-> n, next |-> q.firstChild]
           r == [q EXCEPT !.firstChild = Len(t.childinfos) + 1]
<1>1. t \in Tables /\ q \in Records /\ Pointing(t, q) /\ Len(t.childinfos) \in Nat
      /\ t.childinfos \in Seq(Children) /\ Ending(t.childinfos)
      /\ t.nameinfos \in Seq(Links) /\ Ending(t.nameinfos)
      /\ t.streaminfos \in Seq(Streams) /\ Ending(t.streaminfos)
  BY SoundHas DEF Sound, Ending
<1>2. e \in Children /\ r \in Records
  <2>1. q.firstChild \in Nat /\ Len(t.childinfos) + 1 \in Nat
    BY <1>1 DEF Records
  <2> HIDE DEF q
  <2> QED BY <1>1, <2>1 DEF Children, Records
<1>3. /\ r.firstName = q.firstName /\ r.firstStream = q.firstStream
      /\ r.nameCount = q.nameCount /\ r.streamCount = q.streamCount
      /\ r.firstChild = Len(t.childinfos) + 1
  BY <1>1 DEF Records
<1>4. u = [[t EXCEPT !.childinfos = Append(@, e)] EXCEPT !.records[t.lookup[p]] = r]
  BY <1>1 DEF AddChild, SetRec, Tables
<1>5. /\ u.lookup = t.lookup /\ u.records = [t.records EXCEPT ![t.lookup[p]] = r]
      /\ u.nameinfos = t.nameinfos /\ u.streaminfos = t.streaminfos
      /\ u.childinfos = Append(t.childinfos, e) /\ u.reserved = t.reserved
  <2> HIDE DEF r, e
  <2> QED BY <1>1, <1>4 DEF Tables
<1>6. e.next \in 0 .. Len(t.childinfos) /\ e.record = f /\ e.nameIndex = n /\ e.next = q.firstChild
  BY <1>1 DEF Pointing
<1> HIDE DEF e, r
<1>7. u \in Tables
  <2>1. Append(t.childinfos, e) \in Seq(Children)
    BY <1>1, <1>2
  <2>2. [t.records EXCEPT ![t.lookup[p]] = r] \in Seq(Records)
    BY <1>1, <1>2, SoundHas
  <2> QED BY <1>1, <1>4, <2>1, <2>2 DEF Tables
<1> HIDE DEF u
<1>8. /\ Ending(u.childinfos) /\ Len(u.childinfos) = Len(t.childinfos) + 1
      /\ \A h \in 0 .. Len(t.childinfos) : Entries(u.childinfos, h) = Entries(t.childinfos, h)
      /\ Entries(u.childinfos, Len(t.childinfos) + 1) = <<e>> \o Entries(t.childinfos, e.next)
  <2> DEFINE d == Append(t.childinfos, e)
  <2>1. /\ Ending(d) /\ Len(d) = Len(t.childinfos) + 1
        /\ \A h \in 0 .. Len(t.childinfos) : Entries(d, h) = Entries(t.childinfos, h)
        /\ Entries(d, Len(t.childinfos) + 1) = <<e>> \o Entries(t.childinfos, e.next)
    BY <1>1, <1>2, <1>6, EntriesPush
  <2>2. u.childinfos = d
    BY <1>5
  <2> HIDE DEF d
  <2> QED BY <2>1, <2>2
<1>9. Grows(Children, t.childinfos, u.childinfos)
  <2>1. \A i \in 1 .. Len(t.childinfos) : u.childinfos[i] = t.childinfos[i]
    BY <1>1, <1>5
  <2>2. u.childinfos \in Seq(Children)
    BY <1>7 DEF Tables
  <2> QED BY <1>1, <1>8, <2>1, <2>2 DEF Grows
<1>10. Pointing(u, r)
  <2>1. r.firstChild \in 0 .. Len(u.childinfos)
    BY <1>1, <1>3, <1>8
  <2> QED BY <1>1, <1>3, <1>5, <2>1 DEF Pointing
<1>11. Chain(u.streaminfos, r.firstStream.next) = StreamChain(t, p)
  BY <1>3, <1>5 DEF StreamChain
<1>12. /\ Sound(u) /\ Slots(u) = Slots(t) /\ Rec(u, p) = r
       /\ \A g \in Frss \ {p} : File(u, g) = File(t, g)
  <2>1. Grows(Links, t.nameinfos, u.nameinfos) /\ Grows(Streams, t.streaminfos, u.streaminfos)
    BY <1>1, <1>5, GrowsSame
  <2>2. Range(Chain(u.streaminfos, r.firstStream.next))
            \subseteq Range(StreamChain(t, p)) \cup (Len(t.streaminfos) + 1 .. Len(u.streaminfos))
    BY <1>11
  <2> QED BY <1>5, <1>7, <1>9, <1>10, <2>1, <2>2, Changed
<1>13. NamesOf(u, p) = NamesOf(t, p)
  BY <1>3, <1>5, <1>12 DEF NamesOf
<1>14. ChildrenOf(u, p) = <<e>> \o ChildrenOf(t, p)
  BY <1>3, <1>6, <1>8, <1>12 DEF ChildrenOf
<1>15. StreamsOf(u, p) = StreamsOf(t, p)
  BY <1>3, <1>5, <1>12, FileIs
<1>16. File(u, p) = [names |-> File(t, p).names, children |-> <<e>> \o File(t, p).children,
                                      streams |-> File(t, p).streams,
                                      nameCount |-> File(t, p).nameCount,
                                      streamCount |-> File(t, p).streamCount]
  <2>1. File(t, p) = [names |-> NamesOf(t, p), children |-> ChildrenOf(t, p), streams |-> StreamsOf(t, p),
                      nameCount |-> q.nameCount, streamCount |-> q.streamCount]
    BY DEF File
  <2>2. File(u, p) = [names |-> NamesOf(t, p), children |-> <<e>> \o ChildrenOf(t, p),
                      streams |-> StreamsOf(t, p), nameCount |-> q.nameCount,
                      streamCount |-> q.streamCount]
    BY <1>3, <1>12, <1>13, <1>14, <1>15 DEF File
  <2> QED BY <2>1, <2>2
<1>17. e = NewEntry(t, p, f, n)
  BY DEF e, NewEntry
<1> QED BY <1>2, <1>5, <1>12, <1>16, <1>17 DEF u, WithChild

\* A name becomes the head of the chain; the old head moves to the vector.
NewLink(t, f, a) ==
    [name |-> a.name, parent |-> a.parent,
     next |-> IF Rec(t, f).firstName.name = NoName THEN Nil ELSE Len(KeptNames(t, Rec(t, f)))]

Named(t, f, a) ==
    SetRec([t EXCEPT !.nameinfos = KeptNames(t, Rec(t, f))], f,
           [Rec(t, f) EXCEPT !.firstName = NewLink(t, f, a)])

\* The name part of a file name attribute: the file has the new link at the head of its
\* names, and every other file is as before.
LEMMA NamedIs ==
  ASSUME NEW t, Sound(t), NEW f \in Slots(t), NEW a, a.name \in Strings \ {NoName},
         a.parent \in Frss
  PROVE  LET u == Named(t, f, a)
         IN /\ Sound(u) /\ Slots(u) = Slots(t)
            /\ \A g \in Frss \ {f} : File(u, g) = File(t, g)
            /\ File(u, f) = WithName(File(t, f), NewLink(t, f, a))
            /\ u.reserved = t.reserved
            /\ NewLink(t, f, a) \in Links
<1> DEFINE u == Named(t, f, a)
           q == Rec(t, f)
           kept == KeptNames(t, q)
           l == [name |-> a.name, parent |-> a.parent,
                 next |-> IF q.firstName.name = NoName THEN Nil ELSE Len(kept)]
           r == [q EXCEPT !.firstName = l]
<1>1. t \in Tables /\ q \in Records /\ Pointing(t, q) /\ Len(t.nameinfos) \in Nat
      /\ t.childinfos \in Seq(Children) /\ Ending(t.childinfos)
      /\ t.nameinfos \in Seq(Links) /\ Ending(t.nameinfos)
      /\ t.streaminfos \in Seq(Streams) /\ Ending(t.streaminfos)
  BY SoundHas DEF Sound, Ending
<1>2. q.firstName \in Links /\ q.firstName.next \in 0 .. Len(t.nameinfos)
  BY <1>1 DEF Records, Pointing
<1>3. /\ kept \in Seq(Links) /\ Ending(kept) /\ Grows(Links, t.nameinfos, kept)
      /\ q.firstName.name = NoName => kept = t.nameinfos
      /\ q.firstName.name # NoName =>
            /\ Len(kept) = Len(t.nameinfos) + 1
            /\ Entries(kept, Len(kept)) = <<q.firstName>> \o Entries(t.nameinfos, q.firstName.next)
  <2>1. CASE q.firstName.name = NoName
    <3>1. kept = t.nameinfos
      BY <2>1 DEF KeptNames
    <3> HIDE DEF kept
    <3> QED BY <1>1, <2>1, <3>1, GrowsSame
  <2>2. CASE q.firstName.name # NoName
    <3>1. kept = Append(t.nameinfos, q.firstName)
      BY <2>2 DEF KeptNames
    <3> HIDE DEF kept, q
    <3>2. /\ kept \in Seq(Links) /\ Ending(kept) /\ Len(kept) = Len(t.nameinfos) + 1
          /\ Entries(kept, Len(t.nameinfos) + 1) = <<q.firstName>> \o Entries(t.nameinfos, q.firstName.next)
      BY <1>1, <1>2, <3>1, EntriesPush
    <3>3. \A i \in 1 .. Len(t.nameinfos) : kept[i] = t.nameinfos[i]
      BY <1>1, <1>2, <3>1
    <3>4. Grows(Links, t.nameinfos, kept)
      BY <1>1, <3>2, <3>3 DEF Grows
    <3> QED BY <2>2, <3>2, <3>4
  <2> QED BY <2>1, <2>2
<1>4. Len(kept) \in Nat
  BY <1>3 DEF Ending
<1> HIDE DEF kept
<1>5. /\ l \in Links /\ l.name = a.name /\ l.parent = a.parent /\ l.next \in 0 .. Len(kept)
      /\ l.next = IF q.firstName.name = NoName THEN 0 ELSE Len(kept)
  BY <1>4 DEF Links, Nil
<1> HIDE DEF l
<1>6. /\ r \in Records /\ r.firstName = l /\ r.firstStream = q.firstStream
      /\ r.nameCount = q.nameCount /\ r.streamCount = q.streamCount
      /\ r.firstChild = q.firstChild
  BY <1>1, <1>5 DEF Records
<1> HIDE DEF r
<1>7. u = [[t EXCEPT !.nameinfos = kept] EXCEPT !.records[t.lookup[f]] = r]
  BY <1>1 DEF Named, NewLink, SetRec, Tables, kept, l, r
<1>8. /\ u.lookup = t.lookup /\ u.records = [t.records EXCEPT ![t.lookup[f]] = r]
      /\ u.nameinfos = kept /\ u.streaminfos = t.streaminfos
      /\ u.childinfos = t.childinfos /\ u.reserved = t.reserved
  BY <1>1, <1>7 DEF Tables
<1>9. u \in Tables
  <2>1. [t.records EXCEPT ![t.lookup[f]] = r] \in Seq(Records)
    BY <1>1, <1>6, SoundHas
  <2> QED BY <1>1, <1>3, <1>7, <2>1 DEF Tables
<1> HIDE DEF u
<1>10. Pointing(u, r)
  BY <1>1, <1>5, <1>6, <1>8 DEF Pointing
<1>11. Chain(u.streaminfos, r.firstStream.next) = StreamChain(t, f)
  BY <1>6, <1>8 DEF StreamChain
<1>12. /\ Sound(u) /\ Slots(u) = Slots(t) /\ Rec(u, f) = r
       /\ \A g \in Frss \ {f} : File(u, g) = File(t, g)
  <2>1. Grows(Children, t.childinfos, u.childinfos) /\ Grows(Streams, t.streaminfos, u.streaminfos)
    BY <1>1, <1>8, GrowsSame
  <2>2. Range(Chain(u.streaminfos, r.firstStream.next))
            \subseteq Range(StreamChain(t, f)) \cup (Len(t.streaminfos) + 1 .. Len(u.streaminfos))
    BY <1>11
  <2>3. Grows(Links, t.nameinfos, u.nameinfos)
    BY <1>3, <1>8
  <2>4. u.lookup = t.lookup /\ u.records = [t.records EXCEPT ![t.lookup[f]] = r]
    BY <1>8
  <2> HIDE DEF q
  <2>5. Sound(t) /\ f \in Slots(t) /\ u \in Tables
    BY <1>9
  <2> QED BY ONLY <1>10, <2>1, <2>2, <2>3, <2>4, <2>5, Changed, Zenon
<1>13. NamesOf(u, f) = <<l>> \o NamesOf(t, f)
  <2>1. NamesOf(u, f) = <<l>> \o Entries(kept, l.next)
    BY <1>5, <1>6, <1>8, <1>12 DEF NamesOf
  <2>2. CASE q.firstName.name = NoName
    <3>1. Entries(kept, l.next) = <<>>
      <4>1. l.next = 0 /\ 0 \in 0 .. Len(kept)
        BY <1>4, <1>5, <2>2
      <4>2. Chain(kept, 0) = <<>>
        BY <1>3, <4>1, ChainIs
      <4> QED BY <4>1, <4>2 DEF Entries
    <3>2. NamesOf(t, f) = <<>>
      BY <2>2 DEF NamesOf
    <3> QED BY <2>1, <3>1, <3>2
  <2>3. CASE q.firstName.name # NoName
    <3>1. NamesOf(t, f) = <<q.firstName>> \o Entries(t.nameinfos, q.firstName.next)
      BY <2>3 DEF NamesOf
    <3> QED BY <1>3, <1>5, <2>1, <2>3, <3>1
  <2> QED BY <2>2, <2>3
<1>14. ChildrenOf(u, f) = ChildrenOf(t, f)
  BY <1>6, <1>8, <1>12 DEF ChildrenOf
<1>15. StreamsOf(u, f) = StreamsOf(t, f)
  BY <1>6, <1>8, <1>12, FileIs
<1>16. File(u, f) = [names |-> <<l>> \o File(t, f).names, children |-> File(t, f).children,
                                      streams |-> File(t, f).streams,
                                      nameCount |-> File(t, f).nameCount,
                                      streamCount |-> File(t, f).streamCount]
  <2>1. File(t, f) = [names |-> NamesOf(t, f), children |-> ChildrenOf(t, f), streams |-> StreamsOf(t, f),
                      nameCount |-> q.nameCount, streamCount |-> q.streamCount]
    BY DEF File
  <2>2. File(u, f) = [names |-> <<l>> \o NamesOf(t, f), children |-> ChildrenOf(t, f),
                      streams |-> StreamsOf(t, f), nameCount |-> q.nameCount,
                      streamCount |-> q.streamCount]
    BY <1>6, <1>12, <1>13, <1>14, <1>15 DEF File
  <2> QED BY <2>1, <2>2
<1>17. l = NewLink(t, f, a)
  BY DEF l, kept, NewLink
<1> QED BY <1>5, <1>8, <1>12, <1>16, <1>17 DEF u, WithName

\* The count of names of a file.
LEMMA CountedIs ==
  ASSUME NEW t, Sound(t), NEW f \in Slots(t)
  PROVE  LET u == SetRec(t, f, [Rec(t, f) EXCEPT !.nameCount = @ + 1])
         IN /\ Sound(u) /\ Slots(u) = Slots(t)
            /\ \A g \in Frss \ {f} : File(u, g) = File(t, g)
            /\ File(u, f) = Counted(File(t, f))
            /\ u.reserved = t.reserved
<1> DEFINE q == Rec(t, f)
           r == [q EXCEPT !.nameCount = @ + 1]
           u == SetRec(t, f, r)
<1>1. t \in Tables /\ q \in Records /\ Pointing(t, q)
      /\ t.childinfos \in Seq(Children) /\ Ending(t.childinfos)
      /\ t.nameinfos \in Seq(Links) /\ Ending(t.nameinfos)
      /\ t.streaminfos \in Seq(Streams) /\ Ending(t.streaminfos)
  BY SoundHas DEF Sound
<1>2. /\ r \in Records /\ r.firstName = q.firstName /\ r.firstStream = q.firstStream
      /\ r.nameCount = q.nameCount + 1 /\ r.streamCount = q.streamCount
      /\ r.firstChild = q.firstChild
  <2>1. q.nameCount + 1 \in Nat
    BY <1>1 DEF Records
  <2> HIDE DEF q
  <2> QED BY <1>1, <2>1 DEF Records
<1> HIDE DEF r
<1>3. u = [t EXCEPT !.records[t.lookup[f]] = r]
  BY DEF SetRec
<1>4. /\ u.lookup = t.lookup /\ u.records = [t.records EXCEPT ![t.lookup[f]] = r]
      /\ u.nameinfos = t.nameinfos /\ u.streaminfos = t.streaminfos
      /\ u.childinfos = t.childinfos /\ u.reserved = t.reserved
  BY <1>1, <1>3 DEF Tables
<1>5. u \in Tables
  <2>1. [t.records EXCEPT ![t.lookup[f]] = r] \in Seq(Records)
    BY <1>1, <1>2, SoundHas
  <2> QED BY <1>1, <1>3, <2>1 DEF Tables
<1> HIDE DEF u
<1>6. Pointing(u, r)
  BY <1>1, <1>2, <1>4 DEF Pointing
<1>7. /\ Sound(u) /\ Slots(u) = Slots(t) /\ Rec(u, f) = r
      /\ \A g \in Frss \ {f} : File(u, g) = File(t, g)
  <2>1. /\ Grows(Children, t.childinfos, u.childinfos) /\ Grows(Streams, t.streaminfos, u.streaminfos)
        /\ Grows(Links, t.nameinfos, u.nameinfos)
    BY <1>1, <1>4, GrowsSame
  <2>2. Range(Chain(u.streaminfos, r.firstStream.next))
            \subseteq Range(StreamChain(t, f)) \cup (Len(t.streaminfos) + 1 .. Len(u.streaminfos))
    BY <1>2, <1>4 DEF StreamChain
  <2>3. u.lookup = t.lookup /\ u.records = [t.records EXCEPT ![t.lookup[f]] = r]
    BY <1>4
  <2>4. Sound(t) /\ f \in Slots(t) /\ u \in Tables
    BY <1>5
  <2> QED BY ONLY <1>6, <2>1, <2>2, <2>3, <2>4, Changed, Zenon
<1>8. NamesOf(u, f) = NamesOf(t, f) /\ ChildrenOf(u, f) = ChildrenOf(t, f)
  BY <1>2, <1>4, <1>7 DEF NamesOf, ChildrenOf
<1>9. StreamsOf(u, f) = StreamsOf(t, f)
  BY <1>2, <1>4, <1>7, FileIs
<1>10. File(u, f) = [names |-> File(t, f).names, children |-> File(t, f).children,
                     streams |-> File(t, f).streams,
                     nameCount |-> File(t, f).nameCount + 1,
                     streamCount |-> File(t, f).streamCount]
  <2>1. File(t, f) = [names |-> NamesOf(t, f), children |-> ChildrenOf(t, f), streams |-> StreamsOf(t, f),
                      nameCount |-> q.nameCount, streamCount |-> q.streamCount]
    BY DEF File
  <2>2. File(u, f) = [names |-> NamesOf(t, f), children |-> ChildrenOf(t, f),
                      streams |-> StreamsOf(t, f), nameCount |-> q.nameCount + 1,
                      streamCount |-> q.streamCount]
    BY <1>2, <1>7, <1>8, <1>9 DEF File
  <2> QED BY <2>1, <2>2
<1> QED BY <1>4, <1>7, <1>10 DEF u, r, Counted

\* A name attribute: a name more for its file, an entry more for another directory.
Entered(t, f, a) ==
    NewEntry(At(Named(t, f, a), a.parent), a.parent, f, Rec(t, f).nameCount)

AfterName(t, f, a, g) ==
    IF g = f
    THEN Counted(WithName(File(t, f), NewLink(t, f, a)))
    ELSE IF g = a.parent
    THEN WithChild(File(t, g), Entered(t, f, a))
    ELSE File(t, g)

\* A whole file name attribute: the file has the link, its parent the child entry.
LEMMA AddNameIs ==
  ASSUME NEW t, Sound(t), NEW f \in Slots(t), NEW a, a.name \in Strings \ {NoName},
         a.parent \in Frss
  PROVE  LET u == AddName(t, f, a)
         IN /\ Sound(u) /\ Slots(u) = Slots(t) \cup {a.parent} /\ u.reserved = t.reserved
            /\ \A g \in Frss : File(u, g) = AfterName(t, f, a, g)
            /\ NewLink(t, f, a) \in Links
            /\ a.parent # f => Entered(t, f, a) \in Children
<1> DEFINE n == Rec(t, f).nameCount
           named == Named(t, f, a)
           linked == IF a.parent = f THEN named
                     ELSE AddChild(At(named, a.parent), a.parent, f, n)
           u == SetRec(linked, f, [Rec(linked, f) EXCEPT !.nameCount = @ + 1])
           l == NewLink(t, f, a)
           e == Entered(t, f, a)
<1>1. AddName(t, f, a) = u
  BY DEF AddName, Named, NameNumber, NewLink
<1>2. n \in Nat /\ f \in Frss /\ DOMAIN t.lookup = Frss
  BY SoundHas DEF Records
<1>4. /\ Sound(named) /\ Slots(named) = Slots(t) /\ named.reserved = t.reserved
      /\ \A g \in Frss \ {f} : File(named, g) = File(t, g)
      /\ File(named, f) = WithName(File(t, f), l)
      /\ l \in Links
  BY NamedIs
<1>e. e = NewEntry(At(named, a.parent), a.parent, f, n)
  BY DEF Entered
<1> HIDE DEF named, n, l, e
<1>5. /\ a.parent # f => e \in Children
      /\ Sound(linked) /\ Slots(linked) = Slots(t) \cup {a.parent} /\ linked.reserved = t.reserved
      /\ \A g \in Frss :
            File(linked, g) = IF g = a.parent /\ g # f THEN WithChild(File(named, g), e)
                              ELSE File(named, g)
  <2>1. CASE a.parent = f
    <3>1. linked = named /\ Slots(t) \cup {a.parent} = Slots(t)
      BY <2>1
    <3> HIDE DEF linked
    <3> QED BY <1>4, <2>1, <3>1
  <2>2. CASE a.parent # f
    <3> DEFINE v == At(named, a.parent)
    <3>1. /\ Sound(v) /\ Slots(v) = Slots(t) \cup {a.parent} /\ v.reserved = t.reserved
          /\ \A g \in Frss : File(v, g) = File(named, g)
      BY <1>4, AtIs
    <3>2. linked = AddChild(v, a.parent, f, n) /\ e = NewEntry(v, a.parent, f, n)
      BY <1>e, <2>2
    <3> HIDE DEF v, linked
    <3>3. a.parent \in Slots(v)
      BY <3>1
    <3>4. /\ Sound(linked) /\ Slots(linked) = Slots(v) /\ linked.reserved = v.reserved
          /\ \A g \in Frss \ {a.parent} : File(linked, g) = File(v, g)
          /\ File(linked, a.parent) = WithChild(File(v, a.parent), e)
          /\ e \in Children
      BY <1>2, <3>1, <3>2, <3>3, AddChildIs
    <3> QED BY <2>2, <3>1, <3>4
  <2> QED BY <2>1, <2>2
<1> HIDE DEF linked
<1>7. f \in Slots(linked)
  BY <1>5
<1>8. /\ Sound(u) /\ Slots(u) = Slots(linked) /\ u.reserved = linked.reserved
      /\ \A g \in Frss \ {f} : File(u, g) = File(linked, g)
      /\ File(u, f) = Counted(File(linked, f))
  BY <1>5, <1>7, CountedIs
<1> HIDE DEF u
<1>9. ASSUME NEW g \in Frss PROVE File(u, g) = AfterName(t, f, a, g)
  <2>1. CASE g = f
    BY <1>4, <1>5, <1>8, <2>1 DEF AfterName, l
  <2>2. CASE g # f
    BY <1>4, <1>5, <1>8, <2>2 DEF AfterName, e
  <2> QED BY <2>1, <2>2
<1> QED BY <1>1, <1>4, <1>5, <1>8, <1>9 DEF l, e

-----------------------------------------------------------------------------
(* Streams. *)

\* The streams of a file are the one in its record, if it has one, and the chained ones.
LEMMA StreamsIs ==
  ASSUME NEW t, Sound(t), NEW f \in Slots(t)
  PROVE  LET s == Rec(t, f).firstStream
             c == StreamChain(t, f)
         IN /\ StreamPlaces(t, f) = IF s.name = NoName THEN <<>> ELSE <<0>> \o c
            /\ StreamsOf(t, f) = IF s.name = NoName THEN <<>>
                                 ELSE <<s>> \o Entries(t.streaminfos, s.next)
            /\ c \in Seq(1 .. Len(t.streaminfos)) /\ IsInjective(c)
            /\ Entries(t.streaminfos, s.next) = [j \in 1 .. Len(c) |-> t.streaminfos[c[j]]]
            /\ StreamsOf(t, f) \in Seq(Streams) /\ Len(StreamsOf(t, f)) = Len(StreamPlaces(t, f))
<1> DEFINE s == Rec(t, f).firstStream
           c == StreamChain(t, f)
           x == Entries(t.streaminfos, s.next)
<1>1. /\ t.streaminfos \in Seq(Streams) /\ Ending(t.streaminfos) /\ s \in Streams
      /\ s.next \in 0 .. Len(t.streaminfos) /\ Len(t.streaminfos) \in Nat
  BY SoundHas DEF Pointing, Ending, Records
<1>2. c = Chain(t.streaminfos, s.next) /\ s = Rec(t, f).firstStream
  BY DEF StreamChain
<1> HIDE DEF c, s
<1>3. c \in Seq(1 .. s.next) /\ \A i, j \in 1 .. Len(c) : i < j => c[j] < c[i]
  BY <1>1, <1>2, ChainDescends DEF Descending
<1>4. c \in Seq(1 .. Len(t.streaminfos)) /\ Len(c) \in Nat /\ DOMAIN c = 1 .. Len(c)
  <2>1. PICK n \in 0 .. Len(t.streaminfos) : n = s.next
    BY <1>1
  <2>2. c \in Seq(1 .. n)
    BY <1>3, <2>1
  <2>3. \A i \in 1 .. Len(c) : c[i] \in 1 .. n
    BY <2>2
  <2>4. \A i \in 1 .. Len(c) : c[i] \in 1 .. Len(t.streaminfos)
    BY <1>1, <2>1, <2>3
  <2> QED BY <2>2, <2>4
<1>5. IsInjective(c)
  <2>1. ASSUME NEW i \in 1 .. Len(c), NEW j \in 1 .. Len(c), c[i] = c[j] PROVE i = j
    <3>1. c[i] \in Nat /\ c[j] \in Nat
      BY <1>4
    <3>2. ~(i < j) /\ ~(j < i)
      BY <1>3, <2>1, <3>1
    <3> QED BY <1>4, <3>2
  <2> QED BY <1>4, <2>1 DEF IsInjective
<1>6. x \in Seq(Streams) /\ x = [j \in 1 .. Len(c) |-> t.streaminfos[c[j]]] /\ Len(x) = Len(c)
  BY <1>1, <1>2, EntriesIs DEF Entries
<1> HIDE DEF x
<1>7. StreamPlaces(t, f) = IF s.name = NoName THEN <<>> ELSE <<0>> \o c
  BY <1>2 DEF StreamPlaces, InRecord
<1>8. StreamsOf(t, f) = IF s.name = NoName THEN <<>> ELSE <<s>> \o x
  <2>1. CASE s.name = NoName
    BY <1>7, <2>1 DEF StreamsOf
  <2>2. CASE s.name # NoName
    <3> DEFINE p == <<0>> \o c
    <3>1. p = StreamPlaces(t, f)
      BY <1>7, <2>2
    <3>2. /\ Len(p) = Len(c) + 1 /\ p[1] = 0
          /\ \A j \in 1 .. Len(c) + 1 : j # 1 => p[j] = c[j - 1] /\ j - 1 \in 1 .. Len(c)
      BY <1>4
    <3> HIDE DEF p
    <3>3. StreamsOf(t, f) = [j \in 1 .. Len(c) + 1 |-> StreamAt(t, f, p[j])]
      BY <3>1, <3>2 DEF StreamsOf
    <3>4. <<s>> \o x = [j \in 1 .. Len(c) + 1 |-> IF j = 1 THEN s ELSE x[j - 1]]
      BY <1>4, <1>6
    <3>5. ASSUME NEW j \in 1 .. Len(c) + 1
          PROVE  StreamAt(t, f, p[j]) = IF j = 1 THEN s ELSE x[j - 1]
      <4>1. CASE j = 1
        BY <1>2, <3>2, <4>1 DEF StreamAt, InRecord
      <4>2. CASE j # 1
        <5>1. p[j] = c[j - 1] /\ j - 1 \in 1 .. Len(c)
          BY <3>2, <4>2
        <5>2. c[j - 1] # 0
          BY <1>4, <5>1
        <5>3. x[j - 1] = t.streaminfos[c[j - 1]]
          BY <1>6, <5>1
        <5> QED BY <4>2, <5>1, <5>2, <5>3 DEF StreamAt, InRecord
      <4> QED BY <4>1, <4>2
    <3> QED BY <2>2, <3>3, <3>4, <3>5
  <2> QED BY <2>1, <2>2
<1>9. StreamsOf(t, f) \in Seq(Streams) /\ Len(StreamsOf(t, f)) = Len(StreamPlaces(t, f))
  <2>1. CASE s.name = NoName
    BY <1>7, <1>8, <2>1
  <2>2. CASE s.name # NoName
    BY <1>1, <1>4, <1>6, <1>7, <1>8, <2>2
  <2> QED BY <2>1, <2>2
<1> QED BY <1>4, <1>5, <1>6, <1>7, <1>8, <1>9 DEF c, s, x

\* What is said of a file, with a stream more, with other sizes of a stream.
WithStream(x, s) ==
    [names |-> x.names, children |-> x.children, streams |-> <<s>> \o x.streams,
     nameCount |-> x.nameCount, streamCount |-> x.streamCount + 1]

Resized(x, j, s) ==
    [names |-> x.names, children |-> x.children, streams |-> [x.streams EXCEPT ![j] = s],
     nameCount |-> x.nameCount, streamCount |-> x.streamCount]

KeptStreams(t, r) ==
    IF r.firstStream.name = NoName THEN t.streaminfos ELSE Append(t.streaminfos, r.firstStream)

NewHead(t, f, a) ==
    NewStream(Rec(t, f), a, IF Rec(t, f).firstStream.name = NoName
                            THEN Nil ELSE Len(KeptStreams(t, Rec(t, f))))

\* A stream that has just been set up is empty.
LEMMA NewStreamIs ==
  ASSUME NEW r, NEW a, NEW k \in Nat, a.type \in Strings, a.name \in Strings
  PROVE  /\ NewStream(r, a, k) \in Streams
         /\ NewStream(r, a, k).type = a.type /\ NewStream(r, a, k).name = a.name
         /\ NewStream(r, a, k).next = k /\ NewStream(r, a, k).length = 0
<1>1. NoStream \in Streams /\ NoStream.length = 0
  BY DEF NoStream, Streams, Strings, Nil
<1>2. NewStream(r, a, k) = [NoStream EXCEPT !.type = a.type, !.name = a.name, !.next = k]
  BY DEF NewStream
<1>3. k \in Nat
  OBVIOUS
<1> QED BY <1>1, <1>2, <1>3 DEF Streams

\* A stream becomes the head of the chain; the old head moves to the vector.
LEMMA PushStreamIs ==
  ASSUME NEW t, Sound(t), NEW f \in Slots(t), NEW a, a.name \in Strings \ {NoName},
         a.type \in Strings
  PROVE  LET u == PushStream(t, f, a)
         IN /\ Sound(u) /\ Slots(u) = Slots(t)
            /\ \A g \in Frss \ {f} : File(u, g) = File(t, g)
            /\ File(u, f) = WithStream(File(t, f), NewHead(t, f, a))
            /\ u.reserved = t.reserved
            /\ NewHead(t, f, a) \in Streams /\ Rec(u, f).firstStream = NewHead(t, f, a)
<1> DEFINE u == PushStream(t, f, a)
           q == Rec(t, f)
           kept == KeptStreams(t, q)
           l == NewHead(t, f, a)
           k == IF q.firstStream.name = NoName THEN Nil ELSE Len(kept)
           r == [q EXCEPT !.firstStream = l, !.streamCount = @ + 1]
<1>1. t \in Tables /\ q \in Records /\ Pointing(t, q) /\ Len(t.streaminfos) \in Nat
      /\ t.childinfos \in Seq(Children) /\ Ending(t.childinfos)
      /\ t.nameinfos \in Seq(Links) /\ Ending(t.nameinfos)
      /\ t.streaminfos \in Seq(Streams) /\ Ending(t.streaminfos)
  BY SoundHas DEF Sound, Ending
<1>2. q.firstStream \in Streams /\ q.firstStream.next \in 0 .. Len(t.streaminfos)
  BY <1>1 DEF Records, Pointing
<1>c. StreamChain(t, f) = Chain(t.streaminfos, q.firstStream.next)
  BY DEF StreamChain
<1>3. /\ kept \in Seq(Streams) /\ Ending(kept) /\ Grows(Streams, t.streaminfos, kept)
      /\ q.firstStream.name = NoName => kept = t.streaminfos
      /\ q.firstStream.name # NoName =>
            /\ Len(kept) = Len(t.streaminfos) + 1
            /\ Entries(kept, Len(kept)) = <<q.firstStream>> \o Entries(t.streaminfos, q.firstStream.next)
            /\ Chain(kept, Len(kept)) = <<Len(kept)>> \o StreamChain(t, f)
  <2>1. CASE q.firstStream.name = NoName
    <3>1. kept = t.streaminfos
      BY <2>1 DEF KeptStreams
    <3> HIDE DEF kept
    <3> QED BY <1>1, <2>1, <3>1, GrowsSame
  <2>2. CASE q.firstStream.name # NoName
    <3>1. kept = Append(t.streaminfos, q.firstStream)
      BY <2>2 DEF KeptStreams
    <3> HIDE DEF kept, q
    <3>2. /\ kept \in Seq(Streams) /\ Ending(kept) /\ Len(kept) = Len(t.streaminfos) + 1
          /\ Entries(kept, Len(t.streaminfos) + 1)
                = <<q.firstStream>> \o Entries(t.streaminfos, q.firstStream.next)
          /\ Chain(kept, Len(t.streaminfos) + 1)
                = <<Len(t.streaminfos) + 1>> \o Chain(t.streaminfos, q.firstStream.next)
      BY <1>1, <1>2, <3>1, EntriesPush
    <3>3. \A i \in 1 .. Len(t.streaminfos) : kept[i] = t.streaminfos[i]
      BY <1>1, <1>2, <3>1
    <3>4. Grows(Streams, t.streaminfos, kept)
      BY <1>1, <3>2, <3>3 DEF Grows
    <3> QED BY <1>c, <2>2, <3>2, <3>4
  <2> QED BY <2>1, <2>2
<1>4. Len(kept) \in Nat
  BY <1>3 DEF Ending
<1>z. Chain(kept, 0) = <<>>
  <2>1. 0 \in 0 .. Len(kept) /\ Ending(kept)
    BY <1>3, <1>4
  <2> HIDE DEF kept
  <2> QED BY <2>1, ChainIs
<1>k. k \in 0 .. Len(kept) /\ l = NewStream(q, a, k)
  BY <1>4 DEF NewHead, Nil
<1>d. k = IF q.firstStream.name = NoName THEN 0 ELSE Len(kept)
  BY DEF Nil
<1> HIDE DEF kept, k
<1>5. l \in Streams /\ l.name = a.name /\ l.next = k
  <2>1. k \in Nat /\ a.name \in Strings
    BY <1>4, <1>k
  <2> QED BY <1>k, <2>1, NewStreamIs
<1> HIDE DEF l
<1>6. /\ r \in Records /\ r.firstName = q.firstName /\ r.firstStream = l
      /\ r.nameCount = q.nameCount /\ r.streamCount = q.streamCount + 1
      /\ r.firstChild = q.firstChild
  <2>1. q.streamCount + 1 \in Nat
    BY <1>1 DEF Records
  <2> HIDE DEF q
  <2> QED BY <1>1, <1>5, <2>1 DEF Records
<1> HIDE DEF r
<1>7. u = [[t EXCEPT !.streaminfos = kept, !.total = @ + q.nameCount] EXCEPT !.records[t.lookup[f]] = r]
  BY <1>1 DEF PushStream, KeptStreams, NewHead, SetRec, Tables, kept, l, r, k
<1>8. /\ u.lookup = t.lookup /\ u.records = [t.records EXCEPT ![t.lookup[f]] = r]
      /\ u.nameinfos = t.nameinfos /\ u.streaminfos = kept
      /\ u.childinfos = t.childinfos /\ u.reserved = t.reserved
  <2> HIDE DEF q
  <2> QED BY <1>1, <1>7 DEF Tables
<1>9. u \in Tables
  <2>1. [t.records EXCEPT ![t.lookup[f]] = r] \in Seq(Records)
    BY <1>1, <1>6, SoundHas
  <2>2. t.total + q.nameCount \in Int
    BY <1>1 DEF Tables, Records
  <2> HIDE DEF q
  <2> QED BY <1>1, <1>3, <1>7, <2>1, <2>2 DEF Tables
<1> HIDE DEF u
<1>10. Pointing(u, r)
  BY <1>1, <1>k, <1>5, <1>6, <1>8 DEF Pointing
<1>11. Range(Chain(u.streaminfos, r.firstStream.next))
            \subseteq Range(StreamChain(t, f)) \cup (Len(t.streaminfos) + 1 .. Len(u.streaminfos))
  <2>1. CASE q.firstStream.name = NoName
    <3>1. Chain(u.streaminfos, r.firstStream.next) = <<>>
      BY <1>z, <1>5, <1>6, <1>8, <1>d, <2>1
    <3> QED BY <3>1 DEF Range
  <2>2. CASE q.firstStream.name # NoName
    <3>1. Chain(u.streaminfos, r.firstStream.next) = <<Len(kept)>> \o StreamChain(t, f)
      BY <1>3, <1>5, <1>6, <1>8, <1>d, <2>2
    <3>2. PICK c \in Seq(1 .. Len(t.streaminfos)) : c = StreamChain(t, f)
      BY StreamsIs
    <3>3. PICK d : d = <<Len(kept)>> \o c
      OBVIOUS
    <3>4. DOMAIN c = 1 .. Len(c) /\ Len(c) \in Nat /\ DOMAIN d = 1 .. Len(c) + 1
          /\ \A i \in 1 .. Len(c) + 1 : d[i] = IF i = 1 THEN Len(kept) ELSE c[i - 1]
      BY <1>4, <3>3
    <3>5. ASSUME NEW i \in DOMAIN d PROVE d[i] \in Range(c) \/ d[i] = Len(kept)
      <4>1. CASE i = 1
        BY <3>4, <4>1
      <4>2. CASE i # 1
        <5>1. i - 1 \in DOMAIN c /\ d[i] = c[i - 1]
          BY <3>4, <4>2
        <5> QED BY <5>1 DEF Range
      <4> QED BY <4>1, <4>2
    <3>6. Len(kept) \in Len(t.streaminfos) + 1 .. Len(u.streaminfos)
      BY <1>1, <1>3, <1>4, <1>8, <2>2
    <3>7. Chain(u.streaminfos, r.firstStream.next) = d
      BY <3>1, <3>2, <3>3
    <3>8. Range(d) \subseteq Range(c) \cup {Len(kept)}
      BY <3>5 DEF Range
    <3> QED BY <3>2, <3>6, <3>7, <3>8
  <2> QED BY <2>1, <2>2
<1>12. /\ Sound(u) /\ Slots(u) = Slots(t) /\ Rec(u, f) = r
       /\ \A g \in Frss \ {f} : File(u, g) = File(t, g)
  <2>1. Grows(Children, t.childinfos, u.childinfos) /\ Grows(Links, t.nameinfos, u.nameinfos)
    BY <1>1, <1>8, GrowsSame
  <2>3. Grows(Streams, t.streaminfos, u.streaminfos)
    BY <1>3, <1>8
  <2>4. u.lookup = t.lookup /\ u.records = [t.records EXCEPT ![t.lookup[f]] = r]
    BY <1>8
  <2> HIDE DEF q
  <2>5. Sound(t) /\ f \in Slots(t) /\ u \in Tables
    BY <1>9
  <2> QED BY ONLY <1>10, <1>11, <2>1, <2>3, <2>4, <2>5, Changed, Zenon
<1>13. NamesOf(u, f) = NamesOf(t, f) /\ ChildrenOf(u, f) = ChildrenOf(t, f)
  BY <1>6, <1>8, <1>12 DEF NamesOf, ChildrenOf
<1>14. StreamsOf(u, f) = <<l>> \o StreamsOf(t, f)
  <2>1. StreamsOf(u, f) = <<l>> \o Entries(kept, l.next)
    <3>1. StreamsOf(u, f) = IF Rec(u, f).firstStream.name = NoName THEN <<>>
                            ELSE <<Rec(u, f).firstStream>>
                                    \o Entries(u.streaminfos, Rec(u, f).firstStream.next)
      BY <1>12, StreamsIs
    <3> QED BY <1>5, <1>6, <1>8, <1>12, <3>1
  <2>2. StreamsOf(t, f) = IF q.firstStream.name = NoName THEN <<>>
                          ELSE <<q.firstStream>> \o Entries(t.streaminfos, q.firstStream.next)
    BY StreamsIs
  <2> HIDE DEF q
  <2>3. CASE q.firstStream.name = NoName
    <3>1. Entries(kept, 0) = <<>>
      BY <1>z DEF Entries
    <3> QED BY <1>5, <1>d, <2>1, <2>2, <2>3, <3>1
  <2>4. CASE q.firstStream.name # NoName
    BY <1>3, <1>5, <1>d, <2>1, <2>2, <2>4
  <2> QED BY <2>3, <2>4
<1>15. File(u, f) = WithStream(File(t, f), l)
  <2>1. File(t, f) = [names |-> NamesOf(t, f), children |-> ChildrenOf(t, f), streams |-> StreamsOf(t, f),
                      nameCount |-> q.nameCount, streamCount |-> q.streamCount]
    BY DEF File
  <2>2. File(u, f) = [names |-> NamesOf(t, f), children |-> ChildrenOf(t, f),
                      streams |-> <<l>> \o StreamsOf(t, f), nameCount |-> q.nameCount,
                      streamCount |-> q.streamCount + 1]
    BY <1>6, <1>12, <1>13, <1>14 DEF File
  <2> QED BY <2>1, <2>2 DEF WithStream
<1> QED BY <1>5, <1>6, <1>8, <1>12, <1>15 DEF u, l

\* The sizes of a stream change in its place.
LEMMA PlacedIs ==
  ASSUME NEW t, Sound(t), NEW f \in Slots(t), NEW j \in 1 .. Len(StreamPlaces(t, f)),
         NEW s \in Streams, s.next = StreamsOf(t, f)[j].next, s.name = StreamsOf(t, f)[j].name
  PROVE  LET u == SetStream(t, f, StreamPlaces(t, f)[j], s)
         IN /\ Sound(u) /\ Slots(u) = Slots(t)
            /\ \A g \in Frss \ {f} : File(u, g) = File(t, g)
            /\ File(u, f) = Resized(File(t, f), j, s)
            /\ u.reserved = t.reserved
<1> DEFINE q == Rec(t, f)
           e == t.streaminfos
           p == StreamPlaces(t, f)[j]
           u == SetStream(t, f, p, s)
<1>1. t \in Tables /\ q \in Records /\ Pointing(t, q)
      /\ t.childinfos \in Seq(Children) /\ Ending(t.childinfos)
      /\ t.nameinfos \in Seq(Links) /\ Ending(t.nameinfos)
      /\ e \in Seq(Streams) /\ Ending(e)
  BY SoundHas DEF Sound
<1>2. PICK c : c = StreamChain(t, f)
  OBVIOUS
<1>3. /\ c \in Seq(1 .. Len(e)) /\ IsInjective(c) /\ Len(c) \in Nat /\ DOMAIN c = 1 .. Len(c)
      /\ q.firstStream.name # NoName /\ StreamPlaces(t, f) = <<0>> \o c
      /\ StreamsOf(t, f) = <<q.firstStream>> \o Entries(e, q.firstStream.next)
      /\ Entries(e, q.firstStream.next) = [i \in 1 .. Len(c) |-> e[c[i]]]
  <2>1. StreamPlaces(t, f) = IF q.firstStream.name = NoName THEN <<>> ELSE <<0>> \o c
    BY <1>2, StreamsIs
  <2>2. q.firstStream.name # NoName
    BY <2>1
  <2>3. /\ StreamChain(t, f) \in Seq(1 .. Len(e)) /\ IsInjective(StreamChain(t, f))
        /\ StreamsOf(t, f) = IF q.firstStream.name = NoName THEN <<>>
                             ELSE <<q.firstStream>> \o Entries(e, q.firstStream.next)
        /\ Entries(e, q.firstStream.next)
              = [i \in 1 .. Len(StreamChain(t, f)) |-> e[StreamChain(t, f)[i]]]
    BY StreamsIs
  <2>4. StreamsOf(t, f) = IF q.firstStream.name = NoName THEN <<>>
                          ELSE <<q.firstStream>> \o Entries(e, q.firstStream.next)
    BY <2>3
  <2> HIDE DEF q, e
  <2>5. c \in Seq(1 .. Len(e)) /\ IsInjective(c)
        /\ Entries(e, q.firstStream.next) = [i \in 1 .. Len(c) |-> e[c[i]]]
    BY <1>2, <2>3
  <2>6. Len(c) \in Nat /\ DOMAIN c = 1 .. Len(c)
    BY <2>5
  <2> QED BY <2>1, <2>2, <2>4, <2>5, <2>6
<1> HIDE DEF q, e, p
<1>4. \A i \in 1 .. Len(c) : c[i] \in 1 .. Len(e) /\ c[i] # 0
  BY <1>3
<1>5. PICK y \in Seq(Streams) : y = StreamsOf(t, f) /\ Len(y) = Len(c) + 1 /\ y[1] = q.firstStream
                   /\ \A i \in 1 .. Len(c) + 1 : i # 1 => i - 1 \in 1 .. Len(c) /\ y[i] = e[c[i - 1]]
  <2>1. PICK x : x = Entries(e, q.firstStream.next)
    OBVIOUS
  <2>2. x = [i \in 1 .. Len(c) |-> e[c[i]]]
    BY <1>3, <2>1
  <2>3. \A i \in 1 .. Len(c) : e[c[i]] \in Streams
    BY <1>1, <1>4
  <2>4. x \in Seq(Streams) /\ Len(x) = Len(c)
    BY <1>3, <2>2, <2>3
  <2>5. q.firstStream \in Streams
    BY <1>1 DEF Records
  <2>6. PICK z : z = <<q.firstStream>> \o x
    OBVIOUS
  <2>7. z \in Seq(Streams) /\ Len(z) = Len(c) + 1 /\ z[1] = q.firstStream
        /\ \A i \in 1 .. Len(c) + 1 : i # 1 => i - 1 \in 1 .. Len(c) /\ z[i] = x[i - 1]
    BY <1>3, <2>4, <2>5, <2>6
  <2>8. z = StreamsOf(t, f)
    BY <1>3, <2>1, <2>6
  <2> QED BY <2>2, <2>7, <2>8
<1>6. /\ j \in 1 .. Len(c) + 1 /\ p = IF j = 1 THEN 0 ELSE c[j - 1]
      /\ \A i \in 1 .. Len(c) + 1 : StreamPlaces(t, f)[i] = IF i = 1 THEN 0 ELSE c[i - 1]
  BY <1>3 DEF p
<1>7. s.next = y[j].next /\ s.name = y[j].name
  BY <1>5
<1>8. Resized(File(t, f), j, s) =
         [names |-> NamesOf(t, f), children |-> ChildrenOf(t, f), streams |-> [y EXCEPT ![j] = s],
          nameCount |-> q.nameCount, streamCount |-> q.streamCount]
  BY <1>5 DEF Resized, File, q
<1>9. CASE j = 1
  <2> DEFINE r == [q EXCEPT !.firstStream = s]
  <2>1. p = InRecord /\ s.next = q.firstStream.next /\ s.name # NoName
    BY <1>3, <1>5, <1>6, <1>7, <1>9 DEF InRecord
  <2>2. u = [t EXCEPT !.records[t.lookup[f]] = r]
    BY <2>1 DEF SetStream, SetRec, q
  <2>3. /\ r \in Records /\ r.firstName = q.firstName /\ r.firstStream = s
        /\ r.nameCount = q.nameCount /\ r.streamCount = q.streamCount
        /\ r.firstChild = q.firstChild
    BY <1>1 DEF Records
  <2> HIDE DEF r, u
  <2>4. /\ u.lookup = t.lookup /\ u.records = [t.records EXCEPT ![t.lookup[f]] = r]
        /\ u.nameinfos = t.nameinfos /\ u.streaminfos = e
        /\ u.childinfos = t.childinfos /\ u.reserved = t.reserved
    BY <1>1, <2>2 DEF Tables, e
  <2>5. u \in Tables
    <3>1. [t.records EXCEPT ![t.lookup[f]] = r] \in Seq(Records)
      BY <1>1, <2>3, SoundHas
    <3> QED BY <1>1, <2>2, <3>1 DEF Tables
  <2>6. Pointing(u, r)
    BY <1>1, <2>1, <2>3, <2>4 DEF Pointing, e
  <2>7. Chain(u.streaminfos, r.firstStream.next) = c
    BY <1>2, <2>1, <2>3, <2>4 DEF StreamChain, e, q
  <2>8. /\ Sound(u) /\ Slots(u) = Slots(t) /\ Rec(u, f) = r
        /\ \A g \in Frss \ {f} : File(u, g) = File(t, g)
    <3>1. /\ Grows(Children, t.childinfos, u.childinfos) /\ Grows(Links, t.nameinfos, u.nameinfos)
          /\ Grows(Streams, t.streaminfos, u.streaminfos)
      BY <1>1, <2>4, GrowsSame DEF e
    <3>2. Range(Chain(u.streaminfos, r.firstStream.next))
            \subseteq Range(StreamChain(t, f)) \cup (Len(t.streaminfos) + 1 .. Len(u.streaminfos))
      BY <1>2, <2>7
    <3>3. u.lookup = t.lookup /\ u.records = [t.records EXCEPT ![t.lookup[f]] = r]
      BY <2>4
    <3>4. Sound(t) /\ f \in Slots(t) /\ u \in Tables
      BY <2>5
    <3> QED BY ONLY <2>6, <3>1, <3>2, <3>3, <3>4, Changed, Zenon
  <2>9. NamesOf(u, f) = NamesOf(t, f) /\ ChildrenOf(u, f) = ChildrenOf(t, f)
    BY <2>3, <2>4, <2>8 DEF NamesOf, ChildrenOf, q
  <2>10. StreamsOf(u, f) = [y EXCEPT ![j] = s]
    <3>1. f \in Slots(u)
      BY <2>8
    <3>2. StreamsOf(u, f) = <<s>> \o Entries(e, s.next)
      <4>1. StreamsOf(u, f) = IF Rec(u, f).firstStream.name = NoName THEN <<>>
                              ELSE <<Rec(u, f).firstStream>>
                                      \o Entries(u.streaminfos, Rec(u, f).firstStream.next)
        BY <2>8, <3>1, StreamsIs
      <4> QED BY <2>1, <2>3, <2>4, <2>8, <4>1
    <3>3. PICK x : x = Entries(e, q.firstStream.next)
      OBVIOUS
    <3>4. x = [i \in 1 .. Len(c) |-> e[c[i]]] /\ y = <<q.firstStream>> \o x
      BY <1>3, <1>5, <3>3
    <3>5. StreamsOf(u, f) = <<s>> \o x
      BY <2>1, <3>2, <3>3
    <3>6. \A i \in 1 .. Len(c) : e[c[i]] \in Streams
      BY <1>1, <1>4
    <3>7. x \in Seq(Streams) /\ Len(x) = Len(c)
      BY <1>3, <3>4, <3>6
    <3>8. q.firstStream \in Streams
      BY <1>1 DEF Records
    <3>9. PICK z : z = <<s>> \o x
      OBVIOUS
    <3>10. /\ z \in Seq(Streams) /\ Len(z) = Len(x) + 1 /\ z[1] = s
           /\ \A i \in 1 .. Len(x) + 1 : i # 1 => i - 1 \in 1 .. Len(x) /\ z[i] = x[i - 1]
      BY <3>7, <3>9
    <3>11. /\ Len(y) = Len(x) + 1
           /\ \A i \in 1 .. Len(x) + 1 : i # 1 => i - 1 \in 1 .. Len(x) /\ y[i] = x[i - 1]
      BY <3>4, <3>7, <3>8
    <3>12. [y EXCEPT ![j] = s] \in Seq(Streams) /\ Len([y EXCEPT ![j] = s]) = Len(y)
      <4>1. y \in Seq(Streams) /\ s \in Streams /\ j \in 1 .. Len(y)
        BY <1>5, <1>6
      <4> QED BY ONLY <4>1
    <3>13. \A i \in 1 .. Len(x) + 1 : z[i] = [y EXCEPT ![j] = s][i]
      BY <1>9, <3>10, <3>11, <3>12
    <3>14. z = [y EXCEPT ![j] = s]
      BY <3>10, <3>11, <3>12, <3>13
    <3> QED BY <3>5, <3>9, <3>14
  <2>11. File(u, f) = [names |-> NamesOf(t, f), children |-> ChildrenOf(t, f),
                       streams |-> [y EXCEPT ![j] = s],
                       nameCount |-> q.nameCount, streamCount |-> q.streamCount]
    BY <2>3, <2>8, <2>9, <2>10 DEF File
  <2> QED BY <1>8, <2>4, <2>8, <2>11 DEF u, p
<1>10. CASE j # 1
  <2>1. p = c[j - 1] /\ j - 1 \in 1 .. Len(c) /\ p \in 1 .. Len(e) /\ p # InRecord
    BY <1>4, <1>5, <1>6, <1>10 DEF InRecord
  <2>2. u = [t EXCEPT !.streaminfos[p] = s]
    BY <2>1 DEF SetStream
  <2> DEFINE d == [e EXCEPT ![p] = s]
  <2>3. /\ u.lookup = t.lookup /\ u.records = t.records
        /\ u.nameinfos = t.nameinfos /\ u.streaminfos = d
        /\ u.childinfos = t.childinfos /\ u.reserved = t.reserved
    BY <1>1, <2>2 DEF Tables, e
  <2>4. /\ d \in Seq(Streams) /\ Len(d) = Len(e) /\ d[p] = s
        /\ \A i \in 1 .. Len(e) : i # p => d[i] = e[i]
    BY <1>1, <2>1
  <2>5. s.next = e[p].next
    BY <1>5, <1>6, <1>7, <1>10, <2>1
  <2>6. u \in Tables
    BY <1>1, <2>2, <2>4 DEF Tables, e
  <2> HIDE DEF d, u
  <2>7. \A i \in 1 .. Len(e) : d[i].next = e[i].next
    BY <2>4, <2>5
  <2>8. Ending(d)
    BY <1>1, <2>4, <2>7 DEF Ending
  <2>9. \A h \in 0 .. Len(e) : Chain(d, h) = Chain(e, h)
    <3>1. Len(e) =< Len(d)
      BY <1>1, <2>4 DEF Ending
    <3> QED BY <1>1, <2>7, <2>8, <3>1, ChainSame
  <2>10. Slots(u) = Slots(t) /\ \A g : Rec(u, g) = Rec(t, g)
    BY <2>3 DEF Slots, Rec
  <2>11. \A g \in Slots(t) : StreamChain(u, g) = StreamChain(t, g)
    <3>1. ASSUME NEW g \in Slots(t) PROVE StreamChain(u, g) = StreamChain(t, g)
      <4>1. Pointing(t, Rec(t, g))
        BY SoundHas
      <4>2. Rec(t, g).firstStream.next \in 0 .. Len(e)
        BY <4>1 DEF Pointing, e
      <4> QED BY <2>3, <2>9, <2>10, <4>2 DEF StreamChain, e
    <3> QED BY <3>1
  <2>12. Sound(u)
    <3>1. WellFormed(u)
      <4>1. WellFormed(t)
        BY DEF Sound
      <4>2. \A v \in {u.nameinfos, u.streaminfos, u.childinfos} :
               \A i \in 1 .. Len(v) : v[i].next \in 0 .. i - 1
        BY <1>1, <2>3, <2>8 DEF Ending
      <4> QED BY <2>3, <2>10, <4>1, <4>2 DEF WellFormed
    <3>2. \A g \in Slots(u) : Pointing(u, Rec(u, g))
      <4>1. \A g \in Slots(t) : Pointing(t, Rec(t, g))
        BY DEF Sound
      <4> QED BY <2>3, <2>4, <2>10, <4>1 DEF Pointing, e
    <3>3. \A g, h \in Slots(u) : g # h => Range(StreamChain(u, g)) \cap Range(StreamChain(u, h)) = {}
      BY <2>10, <2>11 DEF Sound
    <3> QED BY <2>6, <3>1, <3>2, <3>3 DEF Sound
  <2>13. \A g \in Slots(t) : /\ NamesOf(u, g) = NamesOf(t, g) /\ ChildrenOf(u, g) = ChildrenOf(t, g)
                             /\ StreamPlaces(u, g) = StreamPlaces(t, g)
    <3>1. \A g \in Slots(t) : NamesOf(u, g) = NamesOf(t, g) /\ ChildrenOf(u, g) = ChildrenOf(t, g)
      BY <2>3, <2>10 DEF NamesOf, ChildrenOf
    <3>2. ASSUME NEW g \in Slots(t) PROVE StreamPlaces(u, g) = StreamPlaces(t, g)
      <4>1. g \in Slots(u)
        BY <2>10
      <4>2. StreamPlaces(u, g) = IF Rec(u, g).firstStream.name = NoName THEN <<>>
                                 ELSE <<0>> \o StreamChain(u, g)
        BY <2>12, <4>1, StreamsIs
      <4>3. StreamPlaces(t, g) = IF Rec(t, g).firstStream.name = NoName THEN <<>>
                                 ELSE <<0>> \o StreamChain(t, g)
        BY StreamsIs
      <4> QED BY <2>10, <2>11, <4>2, <4>3
    <3> QED BY <3>1, <3>2
  <2>14. \A i \in 1 .. Len(e) : i # p => d[i] = e[i]
    BY <2>4
  <2>15. ASSUME NEW g \in Slots(t), g # f PROVE StreamsOf(u, g) = StreamsOf(t, g)
    <3>1. PICK b : b = StreamChain(t, g)
      OBVIOUS
    <3>2. /\ b \in Seq(1 .. Len(e))
          /\ StreamsOf(t, g) = IF Rec(t, g).firstStream.name = NoName THEN <<>>
                               ELSE <<Rec(t, g).firstStream>> \o Entries(e, Rec(t, g).firstStream.next)
          /\ Entries(e, Rec(t, g).firstStream.next) = [i \in 1 .. Len(b) |-> e[b[i]]]
      BY <3>1, StreamsIs DEF e
    <3>3. /\ StreamsOf(u, g) = IF Rec(t, g).firstStream.name = NoName THEN <<>>
                               ELSE <<Rec(t, g).firstStream>> \o Entries(d, Rec(t, g).firstStream.next)
          /\ Entries(d, Rec(t, g).firstStream.next) = [i \in 1 .. Len(b) |-> d[b[i]]]
      <4>1. g \in Slots(u)
        BY <2>10
      <4>2. /\ StreamsOf(u, g) = IF Rec(u, g).firstStream.name = NoName THEN <<>>
                               ELSE <<Rec(u, g).firstStream>>
                                       \o Entries(u.streaminfos, Rec(u, g).firstStream.next)
            /\ Entries(u.streaminfos, Rec(u, g).firstStream.next)
                  = [i \in 1 .. Len(StreamChain(u, g)) |-> u.streaminfos[StreamChain(u, g)[i]]]
        BY <2>12, <4>1, StreamsIs
      <4>3. u.streaminfos = d /\ Rec(u, g) = Rec(t, g) /\ StreamChain(u, g) = b
        BY <2>3, <2>10, <2>11, <3>1
      <4> QED BY <4>2, <4>3
    <3>4. ASSUME NEW i \in 1 .. Len(b) PROVE d[b[i]] = e[b[i]]
      <4>1. DOMAIN b = 1 .. Len(b) /\ b[i] \in 1 .. Len(e)
        BY <3>2
      <4>2. b[i] \in Range(b) /\ p \in Range(c)
        BY <1>3, <2>1, <4>1 DEF Range
      <4>3. Range(c) \cap Range(b) = {}
        BY <1>2, <2>15, <3>1 DEF Sound
      <4> QED BY <2>14, <4>1, <4>2, <4>3
    <3>5. Entries(d, Rec(t, g).firstStream.next) = Entries(e, Rec(t, g).firstStream.next)
      BY <3>2, <3>3, <3>4
    <3> QED BY <3>2, <3>3, <3>5
  <2>16. StreamsOf(u, f) = [y EXCEPT ![j] = s]
    <3>1. PICK x : x = Entries(d, q.firstStream.next)
      OBVIOUS
    <3>2. StreamsOf(u, f) = <<q.firstStream>> \o x /\ x = [i \in 1 .. Len(c) |-> d[c[i]]]
      <4>1. f \in Slots(u) /\ StreamChain(u, f) = c /\ Rec(u, f) = q
        BY <1>2, <2>10, <2>11 DEF q
      <4>2. /\ StreamsOf(u, f) = IF Rec(u, f).firstStream.name = NoName THEN <<>>
                               ELSE <<Rec(u, f).firstStream>>
                                       \o Entries(u.streaminfos, Rec(u, f).firstStream.next)
            /\ Entries(u.streaminfos, Rec(u, f).firstStream.next)
                  = [i \in 1 .. Len(StreamChain(u, f)) |-> u.streaminfos[StreamChain(u, f)[i]]]
        BY <2>12, <4>1, StreamsIs
      <4> QED BY <1>3, <2>3, <3>1, <4>1, <4>2
    <3>3. \A i \in 1 .. Len(c) : d[c[i]] \in Streams
      BY <1>4, <2>4
    <3>4. x \in Seq(Streams) /\ Len(x) = Len(c) /\ q.firstStream \in Streams
      BY <1>1, <1>3, <3>2, <3>3 DEF Records
    <3>5. PICK z : z = <<q.firstStream>> \o x
      OBVIOUS
    <3>6. z \in Seq(Streams) /\ Len(z) = Len(c) + 1 /\ z[1] = q.firstStream
          /\ \A i \in 1 .. Len(c) + 1 : i # 1 => i - 1 \in 1 .. Len(c) /\ z[i] = x[i - 1]
      BY <1>3, <3>4, <3>5
    <3>7. ASSUME NEW i \in 1 .. Len(c) + 1 PROVE z[i] = [y EXCEPT ![j] = s][i]
      <4>1. CASE i = 1
        BY <1>5, <1>10, <3>6, <4>1
      <4>2. CASE i = j
        BY <1>5, <1>10, <2>1, <2>4, <3>2, <3>6, <4>2
      <4>3. CASE i # 1 /\ i # j
        <5>1. i - 1 \in 1 .. Len(c) /\ z[i] = d[c[i - 1]] /\ y[i] = e[c[i - 1]]
          BY <1>5, <3>2, <3>6, <4>3
        <5>2. i - 1 # j - 1
          BY <1>6, <4>3
        <5>3. c[i - 1] # p
          BY <1>3, <2>1, <5>1, <5>2 DEF IsInjective
        <5>4. d[c[i - 1]] = e[c[i - 1]]
          BY <1>4, <2>14, <5>1, <5>3
        <5>5. [y EXCEPT ![j] = s][i] = y[i]
          BY <1>5, <4>3
        <5> QED BY <5>1, <5>4, <5>5
      <4> QED BY <4>1, <4>2, <4>3
    <3>8. DOMAIN z = 1 .. Len(c) + 1 /\ DOMAIN [y EXCEPT ![j] = s] = 1 .. Len(c) + 1
          /\ [y EXCEPT ![j] = s] \in Seq(Streams)
      BY <1>5, <1>6, <3>6
    <3>9. z = [y EXCEPT ![j] = s]
      BY <3>6, <3>7, <3>8
    <3> QED BY <3>2, <3>5, <3>9
  <2>17. File(u, f) = [names |-> NamesOf(t, f), children |-> ChildrenOf(t, f),
                       streams |-> [y EXCEPT ![j] = s],
                       nameCount |-> q.nameCount, streamCount |-> q.streamCount]
    BY <2>10, <2>13, <2>16 DEF File, q
  <2>18. \A g \in Frss \ {f} : File(u, g) = File(t, g)
    BY <2>10, <2>13, <2>15 DEF File
  <2> QED BY <1>8, <2>3, <2>10, <2>12, <2>17, <2>18 DEF u, p
<1> QED BY <1>9, <1>10

Grown(s, a) ==
    [s EXCEPT !.length = @ + a.length, !.allocated = @ + a.allocated,
              !.bulkiness = @ + s.allocated + a.allocated,
              !.treesize = IF a.type = DirType THEN 1 ELSE 0]

\* An attribute adds its length to its stream.
LEMMA GrownIs ==
  ASSUME NEW s \in Streams, NEW a \in StreamAttributes
  PROVE  /\ Grown(s, a) \in Streams /\ Grown(s, a).type = s.type /\ Grown(s, a).name = s.name
         /\ Grown(s, a).next = s.next /\ Grown(s, a).length = s.length + a.length
<1>1. /\ s.length + a.length \in Int /\ s.allocated + a.allocated \in Int
      /\ s.bulkiness + s.allocated + a.allocated \in Int
      /\ (IF a.type = DirType THEN 1 ELSE 0) \in Int
  BY DEF Streams, StreamAttributes
<1> QED BY <1>1 DEF Grown, Streams

\* A table of which only the reserved clusters differ.
Zoned(t, a) == [t EXCEPT !.reserved = @ - a.zone]

\* The bytes reserved for the MFT zone are no concern of any file.
LEMMA ZonedIs ==
  ASSUME NEW t, Sound(t), NEW a \in StreamAttributes
  PROVE  /\ Sound(Zoned(t, a)) /\ Slots(Zoned(t, a)) = Slots(t)
         /\ \A g \in Frss : File(Zoned(t, a), g) = File(t, g)
<1> DEFINE u == Zoned(t, a)
<1>1. t \in Tables
  BY DEF Sound
<1>2. /\ u.lookup = t.lookup /\ u.records = t.records
      /\ u.nameinfos = t.nameinfos /\ u.streaminfos = t.streaminfos
      /\ u.childinfos = t.childinfos
  BY <1>1 DEF Zoned, Tables
<1>3. u \in Tables
  <2>1. t.reserved - a.zone \in Int
    BY <1>1 DEF Tables, StreamAttributes
  <2> QED BY <1>1, <2>1 DEF Zoned, Tables
<1> HIDE DEF u
<1>4. Slots(u) = Slots(t) /\ \A g : Rec(u, g) = Rec(t, g)
  BY <1>2 DEF Slots, Rec
<1>5. \A g : StreamChain(u, g) = StreamChain(t, g)
  BY <1>2, <1>4 DEF StreamChain
<1>6. Sound(u)
  <2>1. WellFormed(u)
    BY <1>2, <1>4 DEF Sound, WellFormed
  <2>2. \A g \in Slots(u) : Pointing(u, Rec(u, g))
    BY <1>2, <1>4 DEF Sound, Pointing
  <2>3. \A g, h \in Slots(u) : g # h => Range(StreamChain(u, g)) \cap Range(StreamChain(u, h)) = {}
    BY <1>4, <1>5 DEF Sound
  <2> QED BY <1>3, <2>1, <2>2, <2>3 DEF Sound
<1>7. \A g : /\ NamesOf(u, g) = NamesOf(t, g) /\ ChildrenOf(u, g) = ChildrenOf(t, g)
             /\ StreamPlaces(u, g) = StreamPlaces(t, g)
  BY <1>2, <1>4 DEF NamesOf, ChildrenOf, StreamPlaces
<1>8. \A g, p : StreamAt(u, g, p) = StreamAt(t, g, p)
  BY <1>2, <1>4 DEF StreamAt
<1>9. \A g : StreamsOf(u, g) = StreamsOf(t, g)
  BY <1>7, <1>8 DEF StreamsOf
<1>10. \A g \in Frss : File(u, g) = File(t, g)
  BY <1>4, <1>7, <1>9 DEF File
<1> QED BY <1>4, <1>6, <1>10 DEF u

\* A stream attribute: sizes more for the index of a directory that has come in part, or a
\* stream more.
AfterStream(t, f, a, g) ==
    IF g # f \/ ~a.primary
    THEN File(t, g)
    ELSE IF a.type = DirType /\ DirPositions(t, f) # {}
    THEN Resized(File(t, f), Min(DirPositions(t, f)),
                 Grown(File(t, f).streams[Min(DirPositions(t, f))], a))
    ELSE WithStream(File(t, f), Grown(NewHead(Zoned(t, a), f, a), a))

\* Where a stream attribute finds a stream to merge with, the reserved clusters aside.
LEMMA MergesIs ==
  ASSUME NEW t, Sound(t), NEW f \in Slots(t), NEW a \in StreamAttributes
  PROVE  LET z == Zoned(t, a)
         IN /\ StreamsOf(z, f) = StreamsOf(t, f)
            /\ DOMAIN StreamsOf(z, f) = DOMAIN StreamPlaces(z, f)
            /\ \A j \in DOMAIN StreamPlaces(z, f) : StreamsOf(z, f)[j] = StreamAt(z, f, StreamPlaces(z, f)[j])
            /\ DOMAIN StreamPlaces(z, f) = 1 .. Len(StreamPlaces(z, f))
            /\ Len(StreamPlaces(z, f)) \in Nat
            /\ Merges(z, f, a) = IF a.type = DirType THEN DirPositions(t, f) ELSE {}
<1> DEFINE z == Zoned(t, a)
           D == DirPositions(t, f)
<1>1. Sound(z) /\ Slots(z) = Slots(t) /\ \A g \in Frss : File(z, g) = File(t, g)
  BY ZonedIs
<1>2. f \in Frss /\ f \in Slots(z)
  BY <1>1, SoundHas
<1>3. StreamsOf(z, f) = StreamsOf(t, f)
  BY <1>1, <1>2 DEF File
<1>5. \A j : StreamsOf(z, f)[j] = StreamsOf(t, f)[j]
  BY <1>3
<1>6. /\ DOMAIN StreamsOf(z, f) = DOMAIN StreamPlaces(z, f)
      /\ \A j \in DOMAIN StreamPlaces(z, f) : StreamsOf(z, f)[j] = StreamAt(z, f, StreamPlaces(z, f)[j])
      /\ DOMAIN StreamPlaces(z, f) = 1 .. Len(StreamPlaces(z, f))
      /\ Len(StreamPlaces(z, f)) \in Nat
  <2>1. PICK p : p = StreamPlaces(z, f)
    OBVIOUS
  <2>2. StreamsOf(z, f) = [j \in 1 .. Len(p) |-> StreamAt(z, f, p[j])]
    BY <2>1 DEF StreamsOf
  <2>3. StreamsOf(z, f) \in Seq(Streams) /\ Len(StreamsOf(z, f)) = Len(p)
    BY <1>1, <1>2, <2>1, StreamsIs
  <2>4. Len(p) \in Nat
    BY <2>3
  <2>5. DOMAIN p = 1 .. Len(p)
    <3>1. p = IF Rec(z, f).firstStream.name = NoName THEN <<>> ELSE <<0>> \o StreamChain(z, f)
      BY <1>1, <1>2, <2>1, StreamsIs
    <3>2. StreamChain(z, f) \in Seq(1 .. Len(z.streaminfos))
      BY <1>1, <1>2, StreamsIs
    <3>3. PICK c \in Seq(1 .. Len(z.streaminfos)) : c = StreamChain(z, f)
      BY <3>2
    <3> QED BY <3>1, <3>3
  <2> QED BY <2>1, <2>2, <2>4, <2>5
<1>7. Merges(z, f, a) = IF a.type = DirType THEN D ELSE {}
  BY <1>3, <1>6 DEF Merges, DirPositions
<1> QED BY <1>3, <1>6, <1>7

\* A stream attribute goes into the $I30 stream of the file or opens a stream of its own;
\* every other file is as before.
LEMMA AddStreamIs ==
  ASSUME NEW t, Sound(t), NEW f \in Slots(t), NEW a \in StreamAttributes
  PROVE  LET u == AddStream(t, f, a)
             h == NewHead(Zoned(t, a), f, a)
         IN /\ Sound(u) /\ Slots(u) = Slots(t)
            /\ \A g \in Frss : File(u, g) = AfterStream(t, f, a, g)
            /\ DirPositions(t, f) # {} => Min(DirPositions(t, f)) \in DirPositions(t, f)
            /\ h \in Streams /\ h.type = a.type /\ h.name = a.name /\ h.length = 0
<1> DEFINE z == Zoned(t, a)
           D == DirPositions(t, f)
           h == NewHead(z, f, a)
           u == AddStream(t, f, a)
<1>1. Sound(z) /\ Slots(z) = Slots(t) /\ \A g \in Frss : File(z, g) = File(t, g)
  BY ZonedIs
<1>2. f \in Frss /\ f \in Slots(z)
  BY <1>1, SoundHas
<1>3. StreamsOf(z, f) = StreamsOf(t, f)
  BY MergesIs
<1>4. a.type \in Strings /\ a.name \in Strings \ {NoName} /\ a.primary \in BOOLEAN
  BY DEF StreamAttributes, Strings
<1>6. /\ DOMAIN StreamsOf(z, f) = DOMAIN StreamPlaces(z, f)
      /\ \A j \in DOMAIN StreamPlaces(z, f) : StreamsOf(z, f)[j] = StreamAt(z, f, StreamPlaces(z, f)[j])
      /\ DOMAIN StreamPlaces(z, f) = 1 .. Len(StreamPlaces(z, f))
      /\ Len(StreamPlaces(z, f)) \in Nat
  BY MergesIs
<1>7. Merges(z, f, a) = IF a.type = DirType THEN D ELSE {}
  BY MergesIs
<1>8. D # {} => Min(D) \in D
  <2>1. D \in SUBSET (0 .. Len(StreamPlaces(z, f))) /\ Len(StreamPlaces(z, f)) \in Nat
    BY <1>3, <1>6 DEF DirPositions
  <2> HIDE DEF D, z
  <2> QED BY <2>1, SmallestExists
<1>9. h \in Streams /\ h.type = a.type /\ h.name = a.name /\ h.length = 0
  <2> DEFINE q == Rec(z, f)
             kept == KeptStreams(z, q)
             k == IF q.firstStream.name = NoName THEN Nil ELSE Len(kept)
  <2>1. z.streaminfos \in Seq(Streams) /\ q.firstStream \in Streams
    BY <1>1, <1>2, SoundHas DEF Records
  <2>2. kept \in Seq(Streams)
    BY <2>1 DEF KeptStreams
  <2>3. k \in Nat
    BY <2>2 DEF Nil
  <2>4. h = NewStream(q, a, k)
    BY DEF NewHead
  <2> HIDE DEF k, q, h
  <2> QED BY <1>4, <2>3, <2>4, NewStreamIs
<1>10. u = IF a.primary
           THEN LET merges == Merges(z, f, a)
                    target == IF merges = {} THEN InRecord ELSE StreamPlaces(z, f)[Min(merges)]
                    held == IF merges = {} THEN PushStream(z, f, a) ELSE z
                IN  SetStream(held, f, target, Grown(StreamAt(held, f, target), a))
           ELSE z
  BY DEF AddStream, AddSizes, IsPrimary, Zoned, Grown
<1> HIDE DEF z, D, h, u
<1>11. CASE ~a.primary
  BY <1>1, <1>8, <1>9, <1>10, <1>11 DEF AfterStream, u, h, D, z
<1>12. CASE a.primary /\ Merges(z, f, a) = {}
  <2> DEFINE v == PushStream(z, f, a)
  <2>1. u = SetStream(v, f, InRecord, Grown(StreamAt(v, f, InRecord), a))
    BY <1>10, <1>12
  <2>2. /\ Sound(v) /\ Slots(v) = Slots(z)
        /\ \A g \in Frss \ {f} : File(v, g) = File(z, g)
        /\ File(v, f) = WithStream(File(z, f), h)
        /\ Rec(v, f).firstStream = h
    BY <1>1, <1>2, <1>4, PushStreamIs DEF h
  <2> HIDE DEF v
  <2>3. StreamAt(v, f, InRecord) = h /\ f \in Slots(v)
    BY <1>2, <2>2 DEF StreamAt
  <2>4. StreamsOf(z, f) \in Seq(Streams)
    BY <1>1, <1>2, StreamsIs
  <2>5. StreamsOf(v, f) = <<h>> \o StreamsOf(z, f)
    BY <1>2, <2>2, <2>3 DEF File, WithStream
  <2>6. StreamPlaces(v, f) = <<0>> \o StreamChain(v, f)
        /\ StreamChain(v, f) \in Seq(1 .. Len(v.streaminfos))
    BY <1>4, <1>9, <2>2, <2>3, StreamsIs
  <2>7. PICK c \in Seq(1 .. Len(v.streaminfos)) : c = StreamChain(v, f)
    BY <2>6
  <2>8. 1 \in 1 .. Len(StreamPlaces(v, f)) /\ StreamPlaces(v, f)[1] = InRecord
    BY <2>6, <2>7 DEF InRecord
  <2> DEFINE s == Grown(h, a)
  <2>9. s \in Streams /\ s.next = h.next /\ s.name = h.name
    BY <1>9, GrownIs
  <2>10. u = SetStream(v, f, StreamPlaces(v, f)[1], s)
    BY <2>1, <2>3, <2>8
  <2>11. StreamsOf(v, f)[1] = h
    BY <1>9, <2>4, <2>5
  <2> HIDE DEF s
  <2>12. /\ Sound(u) /\ Slots(u) = Slots(v)
         /\ \A g \in Frss \ {f} : File(u, g) = File(v, g)
         /\ File(u, f) = Resized(File(v, f), 1, s)
    BY <2>2, <2>3, <2>8, <2>9, <2>10, <2>11, PlacedIs
  <2>13. [(<<h>> \o StreamsOf(z, f)) EXCEPT ![1] = s] = <<s>> \o StreamsOf(z, f)
    <3>1. PICK x \in Seq(Streams) : x = StreamsOf(z, f)
      BY <2>4
    <3>2. h \in Streams /\ s \in Streams
      BY <1>9, <2>9
    <3>3. PICK y : y = <<h>> \o x
      OBVIOUS
    <3>4. y \in Seq(Streams) /\ Len(y) = Len(x) + 1 /\ Len(x) \in Nat
          /\ \A i \in 1 .. Len(x) + 1 : y[i] = IF i = 1 THEN h ELSE x[i - 1]
      BY ONLY x \in Seq(Streams), <3>2, <3>3
    <3>5. PICK w : w = <<s>> \o x
      OBVIOUS
    <3>6. w \in Seq(Streams) /\ Len(w) = Len(x) + 1
          /\ \A i \in 1 .. Len(x) + 1 : w[i] = IF i = 1 THEN s ELSE x[i - 1]
      BY ONLY x \in Seq(Streams), <3>2, <3>5
    <3>7. [y EXCEPT ![1] = s] = w
      <4>1. 1 \in 1 .. Len(y) /\ DOMAIN y = 1 .. Len(y)
        BY ONLY <3>4
      <4>2. [y EXCEPT ![1] = s] \in Seq(Streams) /\ Len([y EXCEPT ![1] = s]) = Len(y)
        BY ONLY <3>2, <3>4, <4>1
      <4>3. \A i \in 1 .. Len(x) + 1 : [y EXCEPT ![1] = s][i] = w[i]
        BY ONLY <3>2, <3>4, <3>6, <4>1
      <4> QED BY ONLY <3>4, <3>6, <4>2, <4>3
    <3>8. [(<<h>> \o x) EXCEPT ![1] = s] = <<s>> \o x
      BY <3>3, <3>5, <3>7
    <3> QED BY <3>1, <3>8
  <2>14. File(u, f) = WithStream(File(z, f), s)
    <3>1. File(z, f).streams = StreamsOf(z, f)
      BY <1>2 DEF File
    <3>2. File(v, f) = [names |-> File(z, f).names, children |-> File(z, f).children,
                        streams |-> <<h>> \o StreamsOf(z, f),
                        nameCount |-> File(z, f).nameCount,
                        streamCount |-> File(z, f).streamCount + 1]
      BY <2>2, <3>1 DEF WithStream
    <3>3. Resized(File(v, f), 1, s) =
             [names |-> File(z, f).names, children |-> File(z, f).children,
              streams |-> [(<<h>> \o StreamsOf(z, f)) EXCEPT ![1] = s],
              nameCount |-> File(z, f).nameCount, streamCount |-> File(z, f).streamCount + 1]
      BY <3>2 DEF Resized
    <3> QED BY <2>12, <2>13, <3>1, <3>3 DEF WithStream
  <2>15. ~(a.type = DirType /\ D # {})
    BY <1>7, <1>12
  <2>16. \A g \in Frss : File(u, g) = AfterStream(t, f, a, g)
    BY <1>1, <1>2, <1>12, <2>2, <2>12, <2>14, <2>15 DEF AfterStream, s, h, z, D
  <2> QED BY <1>1, <1>8, <1>9, <2>2, <2>12, <2>16 DEF u, h, z, D
<1>13. CASE a.primary /\ Merges(z, f, a) # {}
  <2>1. a.type = DirType /\ D # {} /\ Merges(z, f, a) = D
    BY <1>7, <1>13
  <2>2. PICK j : j = Min(D) /\ j \in D
    BY <1>8, <2>1
  <2>3. j \in 1 .. Len(StreamPlaces(z, f)) /\ StreamAt(z, f, StreamPlaces(z, f)[j]) = StreamsOf(z, f)[j]
    BY <1>3, <1>6, <2>2 DEF D, DirPositions
  <2>4. PICK y \in Streams : y = StreamsOf(z, f)[j]
    <3>1. StreamsOf(z, f) \in Seq(Streams)
      BY <1>1, <1>2, StreamsIs
    <3>2. j \in DOMAIN StreamsOf(z, f)
      BY <1>6, <2>3
    <3> QED BY <3>1, <3>2
  <2> DEFINE s == Grown(y, a)
  <2>5. s \in Streams /\ s.next = y.next /\ s.name = y.name
    BY GrownIs
  <2>6. u = SetStream(z, f, StreamPlaces(z, f)[j], s)
    BY <1>10, <1>13, <2>1, <2>2, <2>3, <2>4
  <2> HIDE DEF s
  <2>7. /\ Sound(u) /\ Slots(u) = Slots(z)
        /\ \A g \in Frss \ {f} : File(u, g) = File(z, g)
        /\ File(u, f) = Resized(File(z, f), j, s)
    BY <1>1, <1>2, <2>3, <2>4, <2>5, <2>6, PlacedIs
  <2>8. File(z, f).streams[j] = y
    BY <1>2, <2>4 DEF File
  <2>9. \A g \in Frss : File(u, g) = AfterStream(t, f, a, g)
    BY <1>1, <1>2, <1>13, <2>1, <2>2, <2>7, <2>8 DEF AfterStream, s, D
  <2> QED BY <1>1, <1>8, <1>9, <2>7, <2>9 DEF u, h, z, D
<1> QED BY <1>4, <1>11, <1>12, <1>13

-----------------------------------------------------------------------------
(* Accounts: what a table says of all files, against the places of the volume. *)

FileRecords ==
    [names : Seq(Links), children : Seq(Children), streams : Seq(Streams), nameCount : Nat,
     streamCount : Nat]

\* What a sound table shows of a file consists of links, streams and children.
LEMMA FileTyped ==
  ASSUME NEW t, Sound(t), NEW f \in Frss
  PROVE  File(t, f) \in FileRecords
<1>1. CASE f \notin Slots(t)
  <2>1. File(t, f) = NoFile
    BY <1>1 DEF File
  <2> QED BY <2>1 DEF NoFile, FileRecords
<1>2. CASE f \in Slots(t)
  <2> DEFINE q == Rec(t, f)
  <2>1. /\ t.childinfos \in Seq(Children) /\ Ending(t.childinfos)
        /\ t.nameinfos \in Seq(Links) /\ Ending(t.nameinfos)
        /\ q \in Records /\ Pointing(t, q)
    BY <1>2, SoundHas
  <2>2. /\ q.firstName \in Links /\ q.firstName.next \in 0 .. Len(t.nameinfos)
        /\ q.firstChild \in 0 .. Len(t.childinfos) /\ q.nameCount \in Nat /\ q.streamCount \in Nat
    BY <2>1 DEF Records, Pointing
  <2>3. ChildrenOf(t, f) \in Seq(Children)
    BY <2>1, <2>2, EntriesIs DEF ChildrenOf
  <2>4. NamesOf(t, f) \in Seq(Links)
    <3>1. PICK x \in Seq(Links) : x = Entries(t.nameinfos, q.firstName.next)
      BY <2>1, <2>2, EntriesIs
    <3>2. NamesOf(t, f) = IF q.firstName.name = NoName THEN <<>> ELSE <<q.firstName>> \o x
      BY <3>1 DEF NamesOf
    <3> HIDE DEF q
    <3> QED BY <2>2, <3>2
  <2>5. StreamsOf(t, f) \in Seq(Streams)
    BY <1>2, StreamsIs
  <2> QED BY <1>2, <2>2, <2>3, <2>4, <2>5 DEF File, FileRecords
<1> QED BY <1>1, <1>2

NamesAre(x, m, links) ==
    /\ Len(x.names) = x.nameCount /\ Len(x.names) = Cardinality(links)
    /\ {<<l.name, l.parent>> : l \in Range(x.names)}
          = {<<AttributeAt(m, y).name, AttributeAt(m, y).parent>> : y \in links}

DirsAt(streams) == {j \in DOMAIN streams : streams[j].type = DirType}

StreamsAre(x, m, dirs, others) ==
    /\ Len(x.streams) = x.streamCount
    /\ Len(x.streams) = Cardinality(others) + (IF dirs = {} THEN 0 ELSE 1)
    /\ {<<s.type, s.name, s.length>> : s \in {u \in Range(x.streams) : u.type # DirType}}
          = {<<AttributeAt(m, y).type, AttributeAt(m, y).name, AttributeAt(m, y).length>> :
                y \in others}
    /\ IF dirs = {} THEN DirsAt(x.streams) = {}
       ELSE \E j \in DOMAIN x.streams : /\ DirsAt(x.streams) = {j}
                                        /\ x.streams[j].length = LengthOf(m, dirs)

Led(x) == {<<e.record, e.nameIndex>> : e \in Range(x.children)}

NamedIn(x, p) == {j \in DOMAIN x.names : x.names[j].parent = p}

LeadsOf(x, f, p) == {<<f, x.nameCount - j>> : j \in NamedIn(x, p)}

ChildrenAre(F, p) ==
    /\ IsFiniteSet(Led(F[p])) /\ Len(F[p].children) = Cardinality(Led(F[p]))
    /\ Led(F[p]) = UNION {LeadsOf(F[f], f, p) : f \in Frss \ {p}}

OthersAmong(m, xs, f) == StreamsAmong(m, xs, f) \ DirsAmong(m, xs, f)

Accounts(F, m, xs) ==
    \A f \in Frss : /\ NamesAre(F[f], m, LinksAmong(m, xs, f))
                    /\ StreamsAre(F[f], m, DirsAmong(m, xs, f), OthersAmong(m, xs, f))
                    /\ ChildrenAre(F, f)

Files(t) == [f \in Frss |-> File(t, f)]

\* The range of a vector with one more in front.
LEMMA RangePush ==
  ASSUME NEW S, NEW c \in Seq(S), NEW e \in S
  PROVE  /\ Range(<<e>> \o c) = {e} \cup Range(c) /\ <<e>> \o c \in Seq(S)
         /\ Len(<<e>> \o c) = Len(c) + 1
         /\ \A i \in 1 .. Len(c) + 1 : (<<e>> \o c)[i] = IF i = 1 THEN e ELSE c[i - 1]
<1>1. PICK d : d = <<e>> \o c
  OBVIOUS
<1>2. /\ d \in Seq(S) /\ Len(d) = Len(c) + 1 /\ Len(c) \in Nat
      /\ \A i \in 1 .. Len(c) + 1 : d[i] = IF i = 1 THEN e ELSE c[i - 1]
  BY <1>1
<1>3. DOMAIN d = 1 .. Len(c) + 1 /\ DOMAIN c = 1 .. Len(c)
  BY <1>2
<1>4. Range(d) = {d[i] : i \in 1 .. Len(c) + 1} /\ Range(c) = {c[i] : i \in 1 .. Len(c)}
  BY <1>3 DEF Range
<1>5. \A i \in 1 .. Len(c) + 1 : i = 1 \/ i - 1 \in 1 .. Len(c)
  BY <1>2
<1>6. \A i \in 1 .. Len(c) : i + 1 \in 1 .. Len(c) + 1 /\ i + 1 # 1 /\ (i + 1) - 1 = i
  BY <1>2
<1>7. 1 \in 1 .. Len(c) + 1
  BY <1>2
<1>8. Range(d) \subseteq {e} \cup Range(c)
  BY <1>2, <1>4, <1>5
<1>9. {e} \cup Range(c) \subseteq Range(d)
  <2>1. e \in Range(d)
    BY <1>2, <1>4, <1>7
  <2>2. ASSUME NEW i \in 1 .. Len(c) PROVE c[i] \in Range(d)
    <3>1. d[i + 1] = c[i]
      BY <1>2, <1>6
    <3> QED BY <1>4, <1>6, <3>1
  <2> QED BY <1>4, <2>1, <2>2
<1> QED BY <1>1, <1>2, <1>8, <1>9

\* A name more.
LEMMA NamesGrow ==
  ASSUME NEW x \in FileRecords, NEW m, NEW links, IsFiniteSet(links), NamesAre(x, m, links),
         NEW y, y \notin links, NEW l \in Links, l.name = AttributeAt(m, y).name,
         l.parent = AttributeAt(m, y).parent
  PROVE  NamesAre(Counted(WithName(x, l)), m, links \cup {y})
<1> DEFINE z == Counted(WithName(x, l))
           At2(v) == <<AttributeAt(m, v).name, AttributeAt(m, v).parent>>
           Key(k) == <<k.name, k.parent>>
<1>1. z.names = <<l>> \o x.names /\ z.nameCount = x.nameCount + 1
  BY DEF Counted, WithName
<1>2. PICK c \in Seq(Links) : c = x.names
  BY DEF FileRecords
<1>3. Range(z.names) = {l} \cup Range(c) /\ Len(z.names) = Len(c) + 1
  BY <1>1, <1>2, RangePush
<1>4. Cardinality(links \cup {y}) = Cardinality(links) + 1
  BY FS_AddElement
<1>5. Len(c) = x.nameCount /\ Len(c) = Cardinality(links)
      /\ {Key(k) : k \in Range(c)} = {At2(v) : v \in links}
  BY <1>2 DEF NamesAre
<1>6. Key(l) = At2(y)
  OBVIOUS
<1> HIDE DEF z, Key, At2
<1>7. {Key(k) : k \in Range(z.names)} = {At2(v) : v \in links \cup {y}}
  <2>1. {Key(k) : k \in Range(z.names)} = {Key(k) : k \in Range(c)} \cup {Key(l)}
    BY <1>3
  <2>2. {At2(v) : v \in links \cup {y}} = {At2(v) : v \in links} \cup {At2(y)}
    OBVIOUS
  <2> QED BY <1>5, <1>6, <2>1, <2>2
<1>8. Len(z.names) = z.nameCount /\ Len(z.names) = Cardinality(links \cup {y})
  BY <1>1, <1>3, <1>4, <1>5
<1> QED BY <1>7, <1>8 DEF NamesAre, z, Key, At2

\* A stream more: one of its own, or the first part of an index.
LEMMA StreamsGrow ==
  ASSUME NEW x \in FileRecords, NEW m, NEW dirs, NEW others, IsFiniteSet(others),
         StreamsAre(x, m, dirs, others),
         NEW y, y \notin others, NEW s \in Streams, s.name = AttributeAt(m, y).name,
         s.type = AttributeAt(m, y).type, s.length = AttributeAt(m, y).length
  PROVE  /\ s.type # DirType => StreamsAre(WithStream(x, s), m, dirs, others \cup {y})
         /\ s.type = DirType /\ dirs = {} /\ LengthOf(m, {y}) = s.length
               => StreamsAre(WithStream(x, s), m, {y}, others)
<1> DEFINE z == WithStream(x, s)
           At3(v) == <<AttributeAt(m, v).type, AttributeAt(m, v).name, AttributeAt(m, v).length>>
           Key(k) == <<k.type, k.name, k.length>>
           Own(S) == {k \in S : k.type # DirType}
<1>1. z.streams = <<s>> \o x.streams /\ z.streamCount = x.streamCount + 1
  BY DEF WithStream
<1>2. PICK c \in Seq(Streams) : c = x.streams
  BY DEF FileRecords
<1>3. /\ Range(z.streams) = {s} \cup Range(c) /\ Len(z.streams) = Len(c) + 1
      /\ DOMAIN z.streams = 1 .. Len(c) + 1 /\ DOMAIN c = 1 .. Len(c) /\ Len(c) \in Nat
      /\ \A i \in 1 .. Len(c) + 1 : z.streams[i] = IF i = 1 THEN s ELSE c[i - 1]
  <2>1. z.streams \in Seq(Streams)
    BY <1>1, <1>2, RangePush
  <2> QED BY <1>1, <1>2, <2>1, RangePush
<1>4. Cardinality(others \cup {y}) = Cardinality(others) + 1 /\ Cardinality(others) \in Nat
  BY FS_AddElement, FS_CardinalityType
<1>5. /\ Len(c) = x.streamCount
      /\ Len(c) = Cardinality(others) + (IF dirs = {} THEN 0 ELSE 1)
      /\ {Key(k) : k \in Own(Range(c))} = {At3(v) : v \in others}
      /\ IF dirs = {} THEN DirsAt(c) = {}
         ELSE \E j \in DOMAIN c : DirsAt(c) = {j} /\ c[j].length = LengthOf(m, dirs)
  BY <1>2 DEF StreamsAre
<1>6. Key(s) = At3(y)
  OBVIOUS
<1> HIDE DEF z, Key, At3
<1>7. ASSUME s.type # DirType
      PROVE  StreamsAre(z, m, dirs, others \cup {y})
  <2>1. {Key(k) : k \in Own(Range(z.streams))} = {At3(v) : v \in others \cup {y}}
    <3>1. Own(Range(z.streams)) = Own(Range(c)) \cup {s}
      BY <1>3, <1>7
    <3>2. {Key(k) : k \in Own(Range(z.streams))} = {Key(k) : k \in Own(Range(c))} \cup {Key(s)}
      BY <3>1
    <3>3. {At3(v) : v \in others \cup {y}} = {At3(v) : v \in others} \cup {At3(y)}
      OBVIOUS
    <3> QED BY <1>5, <1>6, <3>2, <3>3
  <2>2. DirsAt(z.streams) = {j + 1 : j \in DirsAt(c)}
    <3>1. ASSUME NEW i \in DirsAt(z.streams) PROVE i \in {j + 1 : j \in DirsAt(c)}
      <4>1. i \in 1 .. Len(c) + 1 /\ z.streams[i].type = DirType
        BY <1>3, <3>1 DEF DirsAt
      <4>2. i # 1
        BY <1>3, <1>7, <4>1
      <4>3. i - 1 \in 1 .. Len(c) /\ c[i - 1].type = DirType /\ (i - 1) + 1 = i
        BY <1>3, <4>1, <4>2
      <4>4. i - 1 \in DirsAt(c)
        BY <1>3, <4>3 DEF DirsAt
      <4> QED BY <4>3, <4>4
    <3>2. ASSUME NEW j \in DirsAt(c) PROVE j + 1 \in DirsAt(z.streams)
      <4>1. j \in 1 .. Len(c) /\ c[j].type = DirType
        BY <1>3 DEF DirsAt
      <4>2. j + 1 \in 1 .. Len(c) + 1 /\ j + 1 # 1 /\ (j + 1) - 1 = j
        BY <1>3, <4>1
      <4>3. z.streams[j + 1] = c[j]
        BY <1>3, <4>2
      <4> QED BY <1>3, <4>1, <4>2, <4>3 DEF DirsAt
    <3> QED BY <3>1, <3>2
  <2>3. IF dirs = {} THEN DirsAt(z.streams) = {}
        ELSE \E j \in DOMAIN z.streams :
                DirsAt(z.streams) = {j} /\ z.streams[j].length = LengthOf(m, dirs)
    <3>1. CASE dirs = {}
      <4>1. DirsAt(c) = {}
        BY <1>5, <3>1
      <4>2. DirsAt(z.streams) = {}
        BY <2>2, <4>1
      <4> QED BY <3>1, <4>2
    <3>2. CASE dirs # {}
      <4>1. PICK j \in DOMAIN c : DirsAt(c) = {j} /\ c[j].length = LengthOf(m, dirs)
        BY <1>5, <3>2
      <4>2. j + 1 \in 1 .. Len(c) + 1 /\ j + 1 # 1 /\ (j + 1) - 1 = j
        BY <1>3
      <4>3. z.streams[j + 1] = c[j] /\ j + 1 \in DOMAIN z.streams
        BY <1>3, <4>2
      <4>4. DirsAt(z.streams) = {j + 1}
        BY <2>2, <4>1
      <4> QED BY <3>2, <4>1, <4>3, <4>4
    <3> QED BY <3>1, <3>2
  <2>4. Len(z.streams) = z.streamCount
        /\ Len(z.streams) = Cardinality(others \cup {y}) + (IF dirs = {} THEN 0 ELSE 1)
    BY <1>1, <1>3, <1>4, <1>5
  <2> QED BY <2>1, <2>3, <2>4 DEF StreamsAre, Key, At3
<1>8. ASSUME s.type = DirType, dirs = {}, LengthOf(m, {y}) = s.length
      PROVE  StreamsAre(z, m, {y}, others)
  <2>1. {Key(k) : k \in Own(Range(z.streams))} = {At3(v) : v \in others}
    <3>1. Own(Range(z.streams)) = Own(Range(c))
      BY <1>3, <1>8
    <3> QED BY <1>5, <3>1
  <2>2. DirsAt(z.streams) = {1}
    <3>1. ASSUME NEW i \in DirsAt(z.streams) PROVE i = 1
      <4>1. i \in 1 .. Len(c) + 1 /\ z.streams[i].type = DirType
        BY <1>3, <3>1 DEF DirsAt
      <4>2. ASSUME i # 1 PROVE FALSE
        <5>1. i - 1 \in 1 .. Len(c) /\ c[i - 1].type = DirType
          BY <1>3, <4>1, <4>2
        <5>2. i - 1 \in DirsAt(c)
          BY <1>3, <5>1 DEF DirsAt
        <5> QED BY <1>5, <1>8, <5>2
      <4> QED BY <4>2
    <3>2. 1 \in DirsAt(z.streams)
      BY <1>3, <1>8 DEF DirsAt
    <3> QED BY <3>1, <3>2
  <2>3. 1 \in DOMAIN z.streams /\ z.streams[1].length = LengthOf(m, {y})
    BY <1>3, <1>8
  <2>4. Len(z.streams) = z.streamCount
        /\ Len(z.streams) = Cardinality(others) + 1
    BY <1>1, <1>3, <1>4, <1>5, <1>8
  <2> QED BY <2>1, <2>2, <2>3, <2>4 DEF StreamsAre, Key, At3
<1> QED BY <1>7, <1>8 DEF z

\* Another part of an index.
LEMMA StreamsMerge ==
  ASSUME NEW x \in FileRecords, NEW m, NEW dirs, NEW others,
         StreamsAre(x, m, dirs, others), dirs # {}, NEW j \in DirsAt(x.streams),
         NEW more, more # {}, NEW s \in Streams, s.name = x.streams[j].name,
         s.type = x.streams[j].type,
         LengthOf(m, more) = LengthOf(m, dirs) + (s.length - x.streams[j].length),
         LengthOf(m, dirs) \in Int
  PROVE  StreamsAre(Resized(x, j, s), m, more, others)
<1> DEFINE z == Resized(x, j, s)
           At3(v) == <<AttributeAt(m, v).type, AttributeAt(m, v).name, AttributeAt(m, v).length>>
           Key(k) == <<k.type, k.name, k.length>>
           Own(S) == {k \in S : k.type # DirType}
<1>1. z.streams = [x.streams EXCEPT ![j] = s] /\ z.streamCount = x.streamCount
  BY DEF Resized
<1>2. PICK c \in Seq(Streams) : c = x.streams
  BY DEF FileRecords
<1>3. /\ j \in DOMAIN c /\ c[j].type = DirType /\ s.type = DirType
      /\ Len(c) = x.streamCount
      /\ Len(c) = Cardinality(others) + 1
      /\ {Key(k) : k \in Own(Range(c))} = {At3(v) : v \in others}
      /\ DirsAt(c) = {j} /\ c[j].length = LengthOf(m, dirs)
  <2>1. PICK i \in DOMAIN c : DirsAt(c) = {i} /\ c[i].length = LengthOf(m, dirs)
    BY <1>2 DEF StreamsAre
  <2>2. i = j
    BY <1>2, <2>1
  <2> QED BY <1>2, <2>1, <2>2 DEF StreamsAre, DirsAt
<1>4. /\ DOMAIN z.streams = DOMAIN c /\ Len(z.streams) = Len(c) /\ z.streams[j] = s
      /\ \A i \in DOMAIN c : i # j => z.streams[i] = c[i]
  <2>1. [c EXCEPT ![j] = s] \in Seq(Streams) /\ Len([c EXCEPT ![j] = s]) = Len(c)
        /\ DOMAIN [c EXCEPT ![j] = s] = DOMAIN c /\ [c EXCEPT ![j] = s][j] = s
        /\ \A i \in DOMAIN c : i # j => [c EXCEPT ![j] = s][i] = c[i]
    <3>1. j \in 1 .. Len(c)
      BY <1>3
    <3> QED BY ONLY c \in Seq(Streams), s \in Streams, <3>1
  <2> QED BY <1>1, <1>2, <2>1
<1> HIDE DEF z, Key, At3
<1>5. DirsAt(z.streams) = {j}
  <2>1. \A i \in DOMAIN c : z.streams[i].type = c[i].type
    BY <1>3, <1>4
  <2>2. DirsAt(z.streams) = DirsAt(c)
    BY <1>4, <2>1 DEF DirsAt
  <2> QED BY <1>3, <2>2
<1>6. z.streams[j].length = LengthOf(m, more)
  <2>1. s.length \in Int /\ s.length - c[j].length = s.length - LengthOf(m, dirs)
    BY <1>3 DEF Streams
  <2> QED BY <1>2, <1>3, <1>4, <2>1
<1>7. Own(Range(z.streams)) = Own(Range(c))
  <2>1. Range(z.streams) = {z.streams[i] : i \in DOMAIN c} /\ Range(c) = {c[i] : i \in DOMAIN c}
    BY <1>4 DEF Range
  <2> QED BY <1>3, <1>4, <2>1
<1>8. {Key(k) : k \in Own(Range(z.streams))} = {At3(v) : v \in others}
  BY <1>3, <1>7
<1>9. Len(z.streams) = z.streamCount /\ Len(z.streams) = Cardinality(others) + 1
  BY <1>1, <1>3, <1>4
<1>10. j \in DOMAIN z.streams
  BY <1>3, <1>4
<1> QED BY <1>5, <1>6, <1>8, <1>9, <1>10 DEF StreamsAre, z, Key, At3

\* A name more and, in another directory, its child entry.
LEMMA ChildrenGrow ==
  ASSUME NEW F \in [Frss -> FileRecords], \A p \in Frss : ChildrenAre(F, p),
         NEW f \in Frss, NEW q \in Frss, NEW l \in Links, l.parent = q,
         NEW e \in Children, e.record = f, e.nameIndex = F[f].nameCount,
         NEW G, \A g \in Frss : G[g] = IF g = f THEN Counted(WithName(F[f], l))
                                       ELSE IF g = q THEN WithChild(F[g], e) ELSE F[g]
  PROVE  \A p \in Frss : ChildrenAre(G, p)
<1> DEFINE n == F[f].nameCount
           new == <<f, n>>
<1>1. PICK c \in Seq(Links) : c = F[f].names
  BY DEF FileRecords
<1>2. n \in Nat
  BY DEF FileRecords
<1>3. /\ G[f].nameCount = n + 1 /\ G[f].children = F[f].children
      /\ DOMAIN G[f].names = 1 .. Len(c) + 1 /\ DOMAIN c = 1 .. Len(c) /\ Len(c) \in Nat
      /\ \A i \in 1 .. Len(c) + 1 : G[f].names[i] = IF i = 1 THEN l ELSE c[i - 1]
  <2>1. G[f] = Counted(WithName(F[f], l))
    OBVIOUS
  <2>2. G[f].names = <<l>> \o c /\ G[f].nameCount = n + 1 /\ G[f].children = F[f].children
    BY <1>1, <2>1 DEF Counted, WithName
  <2>3. G[f].names \in Seq(Links) /\ Len(G[f].names) = Len(c) + 1
        /\ \A i \in 1 .. Len(c) + 1 : G[f].names[i] = IF i = 1 THEN l ELSE c[i - 1]
    BY <2>2, RangePush
  <2>4. DOMAIN G[f].names = 1 .. Len(c) + 1
    BY <2>3
  <2> QED BY <2>2, <2>3, <2>4
<1>4. ASSUME NEW p \in Frss
      PROVE  LeadsOf(G[f], f, p) = LeadsOf(F[f], f, p) \cup (IF p = q THEN {new} ELSE {})
  <2>1. NamedIn(F[f], p) = {j \in 1 .. Len(c) : c[j].parent = p}
    BY <1>1, <1>3 DEF NamedIn
  <2>2. NamedIn(G[f], p) = {j + 1 : j \in NamedIn(F[f], p)} \cup (IF p = q THEN {1} ELSE {})
    <3>1. ASSUME NEW i \in NamedIn(G[f], p), i # 1 PROVE i \in {j + 1 : j \in NamedIn(F[f], p)}
      <4>1. i \in 1 .. Len(c) + 1 /\ G[f].names[i].parent = p
        BY <1>3 DEF NamedIn
      <4>2. i - 1 \in 1 .. Len(c) /\ c[i - 1].parent = p /\ (i - 1) + 1 = i
        BY <1>3, <3>1, <4>1
      <4> QED BY <2>1, <4>2
    <3>2. ASSUME NEW j \in NamedIn(F[f], p) PROVE j + 1 \in NamedIn(G[f], p)
      <4>1. j \in 1 .. Len(c) /\ c[j].parent = p
        BY <2>1
      <4>2. j + 1 \in 1 .. Len(c) + 1 /\ j + 1 # 1 /\ (j + 1) - 1 = j
        BY <1>3, <4>1
      <4> QED BY <1>3, <4>1, <4>2 DEF NamedIn
    <3>3. 1 \in NamedIn(G[f], p) <=> p = q
      <4>1. 1 \in 1 .. Len(c) + 1
        BY <1>3
      <4> QED BY <1>3, <4>1 DEF NamedIn
    <3> QED BY <3>1, <3>2, <3>3
  <2>3. \A j \in NamedIn(F[f], p) : (n + 1) - (j + 1) = n - j
    BY <1>2, <2>1
  <2>4. (n + 1) - 1 = n
    BY <1>2
  <2>5. LeadsOf(G[f], f, p) = {<<f, (n + 1) - i>> : i \in NamedIn(G[f], p)}
    BY <1>3 DEF LeadsOf
  <2>6. LeadsOf(F[f], f, p) = {<<f, n - j>> : j \in NamedIn(F[f], p)}
    BY DEF LeadsOf
  <2>7. CASE p = q
    BY <2>2, <2>3, <2>4, <2>5, <2>6, <2>7
  <2>8. CASE p # q
    BY <2>2, <2>3, <2>5, <2>6, <2>8
  <2> QED BY <2>7, <2>8
<1>5. ASSUME NEW g \in Frss \ {f}
      PROVE  /\ G[g].names = F[g].names /\ G[g].nameCount = F[g].nameCount
             /\ G[g].children = IF g = q THEN <<e>> \o F[g].children ELSE F[g].children
  <2>1. G[g] = IF g = q THEN WithChild(F[g], e) ELSE F[g]
    OBVIOUS
  <2>2. CASE g = q
    BY <2>1, <2>2 DEF WithChild
  <2>3. CASE g # q
    BY <2>1, <2>3
  <2> QED BY <2>2, <2>3
<1>6. \A p \in Frss, g \in Frss \ {f} : LeadsOf(G[g], g, p) = LeadsOf(F[g], g, p)
  BY <1>5 DEF LeadsOf, NamedIn
<1>7. ASSUME NEW p \in Frss
      PROVE  ChildrenAre(G, p)
  <2> DEFINE A == UNION {LeadsOf(F[g], g, p) : g \in Frss \ {p}}
             B == UNION {LeadsOf(G[g], g, p) : g \in Frss \ {p}}
             more == IF p = q /\ p # f THEN {new} ELSE {}
  <2>1. B = A \cup more
    <3>1. CASE p = f
      <4>1. \A g \in Frss \ {p} : LeadsOf(G[g], g, p) = LeadsOf(F[g], g, p)
        BY <1>6, <3>1
      <4> QED BY <3>1, <4>1
    <3>2. CASE p # f
      <4>1. \A g \in Frss \ {p} : LeadsOf(G[g], g, p)
               = LeadsOf(F[g], g, p) \cup (IF g = f THEN more ELSE {})
        BY <1>4, <1>6, <3>2
      <4>2. f \in Frss \ {p}
        BY <3>2
      <4> HIDE DEF more
      <4>3. \A v \in B : v \in A \/ v \in more
        BY <4>1
      <4>4. \A v \in A : v \in B
        BY <4>1
      <4>5. \A v \in more : v \in B
        BY <4>1, <4>2
      <4> QED BY <4>3, <4>4, <4>5
    <3> QED BY <3>1, <3>2
  <2>2. IsFiniteSet(Led(F[p])) /\ Len(F[p].children) = Cardinality(Led(F[p])) /\ Led(F[p]) = A
    BY DEF ChildrenAre
  <2>3. CASE p = q /\ p # f
    <3>1. PICK d \in Seq(Children) : d = F[p].children
      BY DEF FileRecords
    <3>2. G[p].children = <<e>> \o d
      BY <1>5, <2>3, <3>1
    <3>3. Range(G[p].children) = {e} \cup Range(d) /\ Len(G[p].children) = Len(d) + 1
      BY <3>2, RangePush
    <3>4. Led(G[p]) = Led(F[p]) \cup {new}
      BY <3>1, <3>3 DEF Led
    <3>5. new \notin A
      <4>1. ASSUME NEW g \in Frss, new \in LeadsOf(F[g], g, p) PROVE FALSE
        <5>1. PICK j \in NamedIn(F[g], p) : new = <<g, F[g].nameCount - j>>
          BY <4>1 DEF LeadsOf
        <5>2. g = f /\ n = n - j
          BY <5>1
        <5>3. j \in 1 .. Len(c)
          BY <1>1, <1>3, <5>1, <5>2 DEF NamedIn
        <5> QED BY <1>2, <5>2, <5>3
      <4> QED BY <4>1
    <3>6. IsFiniteSet(Led(G[p])) /\ Cardinality(Led(G[p])) = Cardinality(Led(F[p])) + 1
      <4>1. IsFiniteSet(Led(F[p])) /\ new \notin Led(F[p])
        BY <2>2, <3>5
      <4> HIDE DEF new
      <4> QED BY <3>4, <4>1, FS_AddElement
    <3> HIDE DEF A, B, new
    <3> QED BY <2>1, <2>2, <2>3, <3>1, <3>3, <3>4, <3>6 DEF ChildrenAre, B
  <2>4. CASE ~(p = q /\ p # f)
    <3>1. G[p].children = F[p].children
      BY <1>3, <1>5, <2>4
    <3>2. Led(G[p]) = Led(F[p])
      BY <3>1 DEF Led
    <3>3. B = A
      BY <2>1, <2>4
    <3> QED BY <2>2, <3>1, <3>2, <3>3 DEF ChildrenAre
  <2> QED BY <2>3, <2>4
<1> QED BY <1>7

-----------------------------------------------------------------------------
(* The attributes of a volume. *)

Places(m) == PlacesIn(m, Frss)

\* An attribute that has a place on the volume is a name or a stream, in a known record.
LEMMA AttributeTyped ==
  ASSUME NEW m \in [Frss -> MftRecords], NEW x \in Places(m)
  PROVE  /\ x[1] \in Frss /\ m[x[1]].base \in Frss
         /\ AttributeAt(m, x) \in NameAttributes \cup StreamAttributes
         /\ AttributeAt(m, x).kind = "name" => AttributeAt(m, x) \in NameAttributes
         /\ AttributeAt(m, x).kind # "name" => AttributeAt(m, x) \in StreamAttributes
         /\ AttributeAt(m, x).kind \in {"name", "stream"}
<1>1. PICK f \in Frss : x \in {f} \X DOMAIN m[f].attributes
  BY DEF Places, PlacesIn
<1>2. x[1] = f /\ x[2] \in DOMAIN m[f].attributes
  BY <1>1
<1>3. m[f] \in MftRecords
  OBVIOUS
<1>4. m[f].base \in Frss /\ m[f].attributes \in Seq(NameAttributes \cup StreamAttributes)
  BY <1>3 DEF MftRecords
<1>5. m[f].attributes[x[2]] \in NameAttributes \cup StreamAttributes
  BY <1>2, <1>4
<1>6. AttributeAt(m, x) \in NameAttributes \cup StreamAttributes
  BY <1>2, <1>5 DEF AttributeAt
<1>7. \A a \in NameAttributes : a.kind = "name"
  BY DEF NameAttributes
<1>8. \A a \in StreamAttributes : a.kind = "stream"
  BY DEF StreamAttributes
<1>9. "name" # "stream"
  OBVIOUS
<1> QED BY <1>2, <1>4, <1>6, <1>7, <1>8, <1>9

\* One place more among those of a file.
LEMMA AmongGrow ==
  ASSUME NEW m, NEW xs, NEW x, NEW g
  PROVE  LET a == AttributeAt(m, x)
             own == m[x[1]].base = g
         IN /\ LinksAmong(m, xs \cup {x}, g)
                  = LinksAmong(m, xs, g) \cup (IF own /\ a.kind = "name" /\ ~a.dos THEN {x} ELSE {})
            /\ StreamsAmong(m, xs \cup {x}, g)
                  = StreamsAmong(m, xs, g) \cup (IF own /\ a.kind = "stream" /\ a.primary THEN {x} ELSE {})
            /\ DirsAmong(m, xs \cup {x}, g)
                  = DirsAmong(m, xs, g)
                       \cup (IF own /\ a.kind = "stream" /\ a.primary /\ a.type = DirType THEN {x} ELSE {})
            /\ x \notin xs => OthersAmong(m, xs \cup {x}, g)
                  = OthersAmong(m, xs, g)
                       \cup (IF own /\ a.kind = "stream" /\ a.primary /\ a.type # DirType THEN {x} ELSE {})
            /\ LinksAmong(m, xs, g) \subseteq xs /\ StreamsAmong(m, xs, g) \subseteq xs
            /\ DirsAmong(m, xs, g) \subseteq xs /\ OthersAmong(m, xs, g) \subseteq xs
BY DEF LinksAmong, StreamsAmong, DirsAmong, OthersAmong

\* One attribute more, its length more.
LEMMA LengthGrows ==
  ASSUME NEW m, NEW D, IsFiniteSet(D), NEW x, x \notin D,
         \A y \in D \cup {x} : AttributeAt(m, y).length \in Int
  PROVE  /\ LengthOf(m, D \cup {x}) = LengthOf(m, D) + AttributeAt(m, x).length
         /\ LengthOf(m, D) \in Int /\ LengthOf(m, {}) = 0
<1> DEFINE f == [y \in D |-> AttributeAt(m, y).length]
           g == [y \in D \cup {x} |-> AttributeAt(m, y).length]
           o == [y \in {} |-> AttributeAt(m, y).length]
<1>1. /\ DOMAIN f = D /\ DOMAIN g = D \cup {x} /\ \A y \in D \cup {x} : g[y] \in Int
      /\ \A y \in D : f[y] = g[y]
  OBVIOUS
<1>0. f \in [D -> Int] /\ g \in [D \cup {x} -> Int]
  OBVIOUS
<1>2. LengthOf(m, D) = SumFunction(f) /\ LengthOf(m, D \cup {x}) = SumFunction(g)
      /\ LengthOf(m, {}) = SumFunction(o)
  BY DEF LengthOf
<1>3. g[x] = AttributeAt(m, x).length
  OBVIOUS
<1>4. DOMAIN o = {}
  OBVIOUS
<1> HIDE DEF f, g, o
<1>5. SumFunction(g) = SumFunction(f) + g[x] /\ SumFunction(f) \in Int
  <2>1. PICK F \in [D -> Int] : F = f
    BY <1>0
  <2>2. PICK G \in [D \cup {x} -> Int] : G = g
    BY <1>0
  <2>3. \A y \in D : F[y] = G[y]
    BY <1>1, <2>1, <2>2
  <2>4. SumFunction(G) = SumFunction(F) + G[x] /\ SumFunction(F) \in Int
    BY ONLY IsFiniteSet(D), x \notin D, F \in [D -> Int], G \in [D \cup {x} -> Int], <2>3,
            SumExtends
  <2> QED BY <2>1, <2>2, <2>4
<1>6. SumFunction(o) = 0
  BY <1>4, SumUnfold, FS_EmptySet DEF SumFunction
<1> QED BY <1>2, <1>3, <1>5, <1>6

\* One attribute: the accounts of all files then include it, whatever there was before.
LEMMA AddAttributeIs ==
  ASSUME NEW t, Sound(t), NEW m \in [Frss -> MftRecords], NEW xs \in SUBSET Places(m),
         IsFiniteSet(xs), NEW x \in Places(m) \ xs, m[x[1]].base \in Slots(t),
         Accounts(Files(t), m, xs)
  PROVE  LET u == AddAttribute(t, m[x[1]].base, AttributeAt(m, x))
         IN /\ Sound(u) /\ Slots(t) \subseteq Slots(u)
            /\ Accounts(Files(u), m, xs \cup {x})
<1> DEFINE f == m[x[1]].base
           a == AttributeAt(m, x)
           u == AddAttribute(t, f, a)
           ys == xs \cup {x}
<1>1. /\ f \in Frss /\ a.kind \in {"name", "stream"}
      /\ a.kind = "name" => a \in NameAttributes
      /\ a.kind # "name" => a \in StreamAttributes
  BY AttributeTyped
<1>2. \A g \in Frss : Files(t)[g] = File(t, g) /\ Files(u)[g] = File(u, g)
  BY DEF Files
<1>3. \A g \in Frss : /\ IsFiniteSet(LinksAmong(m, xs, g)) /\ IsFiniteSet(DirsAmong(m, xs, g))
                      /\ IsFiniteSet(OthersAmong(m, xs, g))
                      /\ x \notin LinksAmong(m, xs, g) /\ x \notin DirsAmong(m, xs, g)
                      /\ x \notin OthersAmong(m, xs, g)
  BY AmongGrow, FS_Subset
<1>4. \A g \in Frss : /\ NamesAre(File(t, g), m, LinksAmong(m, xs, g))
                      /\ StreamsAre(File(t, g), m, DirsAmong(m, xs, g), OthersAmong(m, xs, g))
                      /\ ChildrenAre(Files(t), g)
  BY <1>2 DEF Accounts
<1>5. \A g \in Frss : File(t, g) \in FileRecords
  BY FileTyped
<1>6. Files(t) \in [Frss -> FileRecords]
  BY <1>2, <1>5 DEF Files
<1> DEFINE isLink == a.kind = "name" /\ ~a.dos
           isDir == a.kind = "stream" /\ a.primary /\ a.type = DirType
           isOther == a.kind = "stream" /\ a.primary /\ a.type # DirType
<1>7. \A g \in Frss :
         /\ LinksAmong(m, ys, g) = LinksAmong(m, xs, g) \cup (IF g = f /\ isLink THEN {x} ELSE {})
         /\ DirsAmong(m, ys, g) = DirsAmong(m, xs, g) \cup (IF g = f /\ isDir THEN {x} ELSE {})
         /\ OthersAmong(m, ys, g) = OthersAmong(m, xs, g) \cup (IF g = f /\ isOther THEN {x} ELSE {})
  <2>1. ASSUME NEW g \in Frss
        PROVE  /\ LinksAmong(m, xs \cup {x}, g) = LinksAmong(m, xs, g)
                     \cup (IF f = g /\ a.kind = "name" /\ ~a.dos THEN {x} ELSE {})
               /\ DirsAmong(m, xs \cup {x}, g) = DirsAmong(m, xs, g)
                     \cup (IF f = g /\ a.kind = "stream" /\ a.primary /\ a.type = DirType THEN {x} ELSE {})
               /\ OthersAmong(m, xs \cup {x}, g) = OthersAmong(m, xs, g)
                     \cup (IF f = g /\ a.kind = "stream" /\ a.primary /\ a.type # DirType THEN {x} ELSE {})
    <3>1. LinksAmong(m, xs \cup {x}, g) = LinksAmong(m, xs, g)
                     \cup (IF f = g /\ a.kind = "name" /\ ~a.dos THEN {x} ELSE {})
      BY DEF LinksAmong
    <3>2. StreamsAmong(m, xs \cup {x}, g) = StreamsAmong(m, xs, g)
                     \cup (IF f = g /\ a.kind = "stream" /\ a.primary THEN {x} ELSE {})
      BY DEF StreamsAmong
    <3>3. DirsAmong(m, xs \cup {x}, g) = DirsAmong(m, xs, g)
                     \cup (IF f = g /\ a.kind = "stream" /\ a.primary /\ a.type = DirType THEN {x} ELSE {})
      BY <3>2 DEF DirsAmong
    <3>4. StreamsAmong(m, xs, g) \subseteq xs /\ DirsAmong(m, xs, g) \subseteq StreamsAmong(m, xs, g)
      BY DEF DirsAmong, StreamsAmong
    <3> HIDE DEF f, a
    <3>5. OthersAmong(m, xs \cup {x}, g) = OthersAmong(m, xs, g)
                     \cup (IF f = g /\ a.kind = "stream" /\ a.primary /\ a.type # DirType THEN {x} ELSE {})
      BY <3>2, <3>3, <3>4 DEF OthersAmong
    <3> QED BY <3>1, <3>3, <3>5
  <2> HIDE DEF f, a
  <2> QED BY <2>1
<1>8. f \in Slots(t)
  OBVIOUS
<1>9. SUFFICES /\ Sound(u) /\ Slots(t) \subseteq Slots(u)
               /\ \A g \in Frss :
                     /\ NamesAre(File(u, g), m, LinksAmong(m, ys, g))
                     /\ StreamsAre(File(u, g), m, DirsAmong(m, ys, g), OthersAmong(m, ys, g))
                     /\ ChildrenAre(Files(u), g)
  BY <1>2 DEF Accounts
<1>s. a.kind = "stream" => a.kind # "name"
  OBVIOUS
<1> HIDE DEF f, a, ys
<1>10. CASE a.kind = "name" /\ a.dos
  <2>1. u = t
    BY <1>10 DEF AddAttribute, IsSkipped
  <2>2. ~isLink /\ ~isDir /\ ~isOther
    BY <1>10
  <2> QED BY <1>4, <1>7, <2>1, <2>2
<1>11. CASE isLink
  <2>1. a \in NameAttributes /\ u = AddName(t, f, a) /\ ~isDir /\ ~isOther
    BY <1>1, <1>11 DEF AddAttribute, IsSkipped
  <2>2. a.name \in Strings \ {NoName} /\ a.parent \in Frss
    BY <2>1 DEF NameAttributes, Strings
  <2> DEFINE l == NewLink(t, f, a)
             e == IF a.parent = f THEN [record |-> f, nameIndex |-> File(t, f).nameCount, next |-> 0]
                  ELSE Entered(t, f, a)
  <2> HIDE DEF u
  <2>3. /\ Sound(u) /\ Slots(u) = Slots(t) \cup {a.parent}
        /\ \A g \in Frss : File(u, g) = AfterName(t, f, a, g)
        /\ l \in Links
        /\ a.parent # f => Entered(t, f, a) \in Children
    BY <1>8, <2>1, <2>2, AddNameIs
  <2>4. l.name = a.name /\ l.parent = a.parent
    BY DEF NewLink
  <2>5. e \in Children /\ e.record = f /\ e.nameIndex = File(t, f).nameCount
    <3>1. File(t, f).nameCount \in Nat /\ File(t, f).nameCount = Rec(t, f).nameCount
      BY <1>1, <1>5, <1>8 DEF FileRecords, File
    <3>2. CASE a.parent = f
      BY <1>1, <3>1, <3>2 DEF Children
    <3>3. CASE a.parent # f
      BY <2>3, <3>1, <3>3 DEF Entered, NewEntry
    <3> QED BY <3>2, <3>3
  <2> HIDE DEF l
  <2>6. \A g \in Frss : File(u, g) = IF g = f THEN Counted(WithName(File(t, f), l))
                                     ELSE IF g = a.parent THEN WithChild(File(t, g), e)
                                     ELSE File(t, g)
    BY <2>3 DEF AfterName, l
  <2> HIDE DEF e
  <2>7. \A g \in Frss : ChildrenAre(Files(u), g)
    <3>1. \A g \in Frss : Files(u)[g] = IF g = f THEN Counted(WithName(Files(t)[f], l))
                                     ELSE IF g = a.parent THEN WithChild(Files(t)[g], e)
                                     ELSE Files(t)[g]
      BY <1>1, <1>2, <2>6
    <3>2. e.nameIndex = Files(t)[f].nameCount
      BY <1>1, <1>2, <2>5
    <3>3. PICK F \in [Frss -> FileRecords] : F = Files(t)
      BY <1>6
    <3>4. PICK G : G = Files(u)
      OBVIOUS
    <3>5. PICK q \in Frss : q = a.parent
      BY <2>2
    <3>6. \A g \in Frss : ChildrenAre(F, g)
      BY <1>4, <3>3
    <3>7. e.nameIndex = F[f].nameCount /\ l.parent = q
      BY <2>4, <3>2, <3>3, <3>5
    <3>8. \A g \in Frss : G[g] = IF g = f THEN Counted(WithName(F[f], l))
                                ELSE IF g = q THEN WithChild(F[g], e) ELSE F[g]
      BY <3>1, <3>3, <3>4, <3>5
    <3>9. f \in Frss /\ l \in Links /\ e \in Children /\ e.record = f
      BY <1>1, <2>3, <2>5
    <3>10. \A g \in Frss : ChildrenAre(G, g)
      BY ONLY F \in [Frss -> FileRecords], q \in Frss, <3>6, <3>7, <3>8, <3>9, ChildrenGrow
    <3> QED BY <3>4, <3>10
  <2>8. ASSUME NEW g \in Frss
        PROVE  /\ NamesAre(File(u, g), m, LinksAmong(m, ys, g))
               /\ StreamsAre(File(u, g), m, DirsAmong(m, ys, g), OthersAmong(m, ys, g))
    <3>1. DirsAmong(m, ys, g) = DirsAmong(m, xs, g) /\ OthersAmong(m, ys, g) = OthersAmong(m, xs, g)
      BY <1>7, <2>1
    <3>2. CASE g = f
      <4>1. File(u, f) = Counted(WithName(File(t, f), l))
        BY <1>1, <2>6
      <4>2. NamesAre(File(u, f), m, LinksAmong(m, xs, f) \cup {x})
        <5>1. l.name = AttributeAt(m, x).name /\ l.parent = AttributeAt(m, x).parent
          BY <2>4 DEF a
        <5>2. /\ File(t, f) \in FileRecords /\ IsFiniteSet(LinksAmong(m, xs, f))
              /\ x \notin LinksAmong(m, xs, f) /\ NamesAre(File(t, f), m, LinksAmong(m, xs, f))
              /\ l \in Links
          BY <1>1, <1>3, <1>4, <1>5, <2>3
        <5>3. NamesAre(Counted(WithName(File(t, f), l)), m, LinksAmong(m, xs, f) \cup {x})
          BY ONLY <5>1, <5>2, NamesGrow
        <5> QED BY <4>1, <5>3
      <4>3. File(u, f).streams = File(t, f).streams /\ File(u, f).streamCount = File(t, f).streamCount
        BY <4>1 DEF Counted, WithName
      <4>4. LinksAmong(m, ys, f) = LinksAmong(m, xs, f) \cup {x}
        BY <1>1, <1>7, <1>11
      <4>5. StreamsAre(File(t, f), m, DirsAmong(m, ys, f), OthersAmong(m, ys, f))
        BY <1>1, <1>4, <3>1, <3>2
      <4>6. StreamsAre(File(u, f), m, DirsAmong(m, ys, f), OthersAmong(m, ys, f))
        BY <4>3, <4>5 DEF StreamsAre
      <4> QED BY <3>2, <4>2, <4>4, <4>6
    <3>3. CASE g # f
      <4>1. LinksAmong(m, ys, g) = LinksAmong(m, xs, g)
        BY <1>7, <3>3
      <4>2. /\ File(u, g).names = File(t, g).names /\ File(u, g).nameCount = File(t, g).nameCount
            /\ File(u, g).streams = File(t, g).streams
            /\ File(u, g).streamCount = File(t, g).streamCount
        <5>1. File(u, g) = IF g = a.parent THEN WithChild(File(t, g), e) ELSE File(t, g)
          BY <2>6, <3>3
        <5>2. CASE g = a.parent
          BY <5>1, <5>2 DEF WithChild
        <5>3. CASE g # a.parent
          BY <5>1, <5>3
        <5> QED BY <5>2, <5>3
      <4>3. NamesAre(File(u, g), m, LinksAmong(m, ys, g))
        BY <1>4, <4>1, <4>2 DEF NamesAre
      <4>4. StreamsAre(File(u, g), m, DirsAmong(m, ys, g), OthersAmong(m, ys, g))
        BY <1>4, <3>1, <4>2 DEF StreamsAre
      <4> QED BY <4>3, <4>4
    <3> QED BY <3>2, <3>3
  <2> QED BY <2>3, <2>7, <2>8
<1>12. CASE a.kind = "stream" /\ ~a.primary
  <2>1. a \in StreamAttributes /\ u = AddStream(t, f, a) /\ ~isLink /\ ~isDir /\ ~isOther
    BY <1>1, <1>s, <1>12 DEF AddAttribute
  <2> HIDE DEF u
  <2>2. Sound(u) /\ Slots(u) = Slots(t) /\ \A g \in Frss : File(u, g) = AfterStream(t, f, a, g)
    BY <1>8, <2>1, AddStreamIs
  <2>3. \A g \in Frss : File(u, g) = File(t, g)
    BY <1>12, <2>2 DEF AfterStream
  <2>4. Files(u) = Files(t)
    BY <2>3 DEF Files
  <2> QED BY <1>4, <1>7, <2>1, <2>2, <2>3, <2>4
<1>13. CASE a.kind = "stream" /\ a.primary
  <2>1. a \in StreamAttributes /\ u = AddStream(t, f, a) /\ ~isLink
    BY <1>1, <1>s, <1>13 DEF AddAttribute
  <2> HIDE DEF u
  <2> DEFINE h == NewHead(Zoned(t, a), f, a)
             D == DirPositions(t, f)
             dirs == DirsAmong(m, xs, f)
             others == OthersAmong(m, xs, f)
             y == File(t, f)
  <2>2. /\ Sound(u) /\ Slots(u) = Slots(t) /\ \A g \in Frss : File(u, g) = AfterStream(t, f, a, g)
        /\ D # {} => Min(D) \in D
        /\ h \in Streams /\ h.type = a.type /\ h.name = a.name /\ h.length = 0
    BY <1>8, <2>1, AddStreamIs
  <2> HIDE DEF h
  <2>3. D = DirsAt(y.streams) /\ y \in FileRecords
    BY <1>1, <1>5, <1>8 DEF DirPositions, DirsAt, File
  <2>4. StreamsAre(y, m, dirs, others) /\ IsFiniteSet(others) /\ IsFiniteSet(dirs)
        /\ x \notin others /\ x \notin dirs
    BY <1>1, <1>3, <1>4
  <2>5. D = {} <=> dirs = {}
    BY <2>3, <2>4 DEF StreamsAre
  <2>6. /\ Grown(h, a) \in Streams /\ Grown(h, a).type = a.type /\ Grown(h, a).name = a.name
        /\ Grown(h, a).length = a.length
    <3>1. a.length \in Int
      BY <2>1 DEF StreamAttributes
    <3> QED BY <2>1, <2>2, <3>1, GrownIs
  <2>7. /\ LengthOf(m, {x}) = a.length /\ LengthOf(m, dirs) \in Int
        /\ LengthOf(m, dirs \cup {x}) = LengthOf(m, dirs) + a.length
    <3>1. \A z \in dirs : z \in Places(m) /\ AttributeAt(m, z).kind = "stream"
      BY DEF DirsAmong, StreamsAmong
    <3>2. \A z \in dirs : AttributeAt(m, z) \in StreamAttributes
      <4>1. "stream" # "name"
        OBVIOUS
      <4> QED BY <3>1, <4>1, AttributeTyped
    <3>3. \A z \in dirs \cup {x} : AttributeAt(m, z).length \in Int
      BY <2>1, <3>2 DEF StreamAttributes, a
    <3>4. /\ LengthOf(m, dirs \cup {x}) = LengthOf(m, dirs) + AttributeAt(m, x).length
          /\ LengthOf(m, dirs) \in Int /\ LengthOf(m, {}) = 0
      <4> HIDE DEF dirs
      <4> QED BY <2>4, <3>3, LengthGrows
    <3>5. LengthOf(m, {} \cup {x}) = LengthOf(m, {}) + AttributeAt(m, x).length
      <4>1. IsFiniteSet({}) /\ x \notin {} /\ \A z \in {} \cup {x} : AttributeAt(m, z).length \in Int
        BY <3>3, FS_EmptySet
      <4> QED BY <4>1, LengthGrows
    <3>6. {} \cup {x} = {x} /\ AttributeAt(m, x).length \in Int
      BY <3>3
    <3> QED BY <3>4, <3>5, <3>6 DEF a
  <2>8. StreamsAre(File(u, f), m, DirsAmong(m, ys, f), OthersAmong(m, ys, f))
        /\ File(u, f).names = y.names /\ File(u, f).nameCount = y.nameCount
        /\ File(u, f).children = y.children
    <3>1. CASE a.type # DirType
      <4>1. DirsAmong(m, ys, f) = dirs /\ OthersAmong(m, ys, f) = others \cup {x}
        BY <1>1, <1>7, <1>13, <3>1
      <4>2. File(u, f) = WithStream(y, Grown(h, a))
        BY <1>1, <1>13, <2>2, <3>1 DEF AfterStream, h
      <4>3. StreamsAre(WithStream(y, Grown(h, a)), m, dirs, others \cup {x})
        <5>1. PICK s \in Streams : s = Grown(h, a) /\ s.type # DirType
                  /\ s.name = AttributeAt(m, x).name /\ s.type = AttributeAt(m, x).type
                  /\ s.length = AttributeAt(m, x).length
          BY <2>6, <3>1 DEF a
        <5>2. y \in FileRecords
          BY <2>3
        <5> HIDE DEF y, dirs, others
        <5>3. StreamsAre(WithStream(y, s), m, dirs, others \cup {x})
          BY <2>4, <5>1, <5>2, StreamsGrow
        <5> QED BY <5>1, <5>3
      <4> QED BY <4>1, <4>2, <4>3 DEF WithStream
    <3>2. CASE a.type = DirType /\ D = {}
      <4>1. DirsAmong(m, ys, f) = {x} /\ OthersAmong(m, ys, f) = others /\ dirs = {}
        BY <1>1, <1>7, <1>13, <2>5, <3>2
      <4>2. File(u, f) = WithStream(y, Grown(h, a))
        BY <1>1, <1>13, <2>2, <3>2 DEF AfterStream, h
      <4>3. StreamsAre(WithStream(y, Grown(h, a)), m, {x}, others)
        <5>1. PICK s \in Streams : s = Grown(h, a) /\ s.type = DirType
                  /\ s.name = AttributeAt(m, x).name /\ s.type = AttributeAt(m, x).type
                  /\ s.length = AttributeAt(m, x).length /\ LengthOf(m, {x}) = s.length
          BY <2>6, <2>7, <3>2 DEF a
        <5>2. y \in FileRecords
          BY <2>3
        <5> HIDE DEF y, dirs, others
        <5>3. StreamsAre(WithStream(y, s), m, {x}, others)
          BY <2>4, <4>1, <5>1, <5>2, StreamsGrow
        <5> QED BY <5>1, <5>3
      <4> QED BY <4>1, <4>2, <4>3 DEF WithStream
    <3>3. CASE a.type = DirType /\ D # {}
      <4>1. DirsAmong(m, ys, f) = dirs \cup {x} /\ OthersAmong(m, ys, f) = others /\ dirs # {}
        BY <1>1, <1>7, <1>13, <2>5, <3>3
      <4>2. PICK j : j = Min(D) /\ j \in DirsAt(y.streams)
        BY <2>2, <2>3, <3>3
      <4>3. PICK v \in Streams : v = y.streams[j]
        <5>1. PICK c \in Seq(Streams) : c = y.streams
          BY <2>3 DEF FileRecords
        <5>2. j \in DOMAIN c
          BY <4>2, <5>1 DEF DirsAt
        <5>3. c[j] \in Streams
          BY <5>2
        <5> HIDE DEF y
        <5> QED BY <5>1, <5>3
      <4>4. PICK s \in Streams : s = Grown(v, a) /\ s.name = v.name /\ s.type = v.type
                                 /\ s.length = v.length + a.length
        BY <2>1, GrownIs
      <4>5. File(u, f) = Resized(y, j, s)
        BY <1>1, <1>13, <2>2, <3>3, <4>2, <4>3, <4>4 DEF AfterStream
      <4>6. s.length - v.length = a.length
        <5>1. v.length \in Int /\ a.length \in Int
          BY <2>1 DEF Streams, StreamAttributes
        <5> QED BY <4>4, <5>1
      <4>7. LengthOf(m, dirs \cup {x}) = LengthOf(m, dirs) + (s.length - y.streams[j].length)
        BY <2>7, <4>3, <4>6
      <4>8. y \in FileRecords /\ dirs \cup {x} # {} /\ s.name = y.streams[j].name
            /\ s.type = y.streams[j].type /\ LengthOf(m, dirs) \in Int
        BY <2>3, <2>7, <4>3, <4>4
      <4>9. StreamsAre(Resized(y, j, s), m, dirs \cup {x}, others)
        <5> HIDE DEF y, dirs, others
        <5> QED BY <2>4, <4>1, <4>2, <4>7, <4>8, StreamsMerge
      <4> QED BY <4>1, <4>5, <4>9 DEF Resized
    <3> QED BY <3>1, <3>2, <3>3
  <2>9. \A g \in Frss \ {f} : File(u, g) = File(t, g)
    BY <2>2 DEF AfterStream
  <2>10. \A g \in Frss : /\ File(u, g).names = File(t, g).names
                         /\ File(u, g).nameCount = File(t, g).nameCount
                         /\ File(u, g).children = File(t, g).children
    BY <2>8, <2>9
  <2>11. ASSUME NEW g \in Frss
         PROVE  NamesAre(File(u, g), m, LinksAmong(m, ys, g))
    <3>1. LinksAmong(m, ys, g) = LinksAmong(m, xs, g)
      BY <1>7, <2>1
    <3> QED BY <1>4, <2>10, <3>1 DEF NamesAre
  <2>12. ASSUME NEW g \in Frss
         PROVE  StreamsAre(File(u, g), m, DirsAmong(m, ys, g), OthersAmong(m, ys, g))
    <3>1. CASE g = f
      BY <2>8, <3>1
    <3>2. CASE g # f
      <4>1. DirsAmong(m, ys, g) = DirsAmong(m, xs, g) /\ OthersAmong(m, ys, g) = OthersAmong(m, xs, g)
        BY <1>7, <3>2
      <4> QED BY <1>4, <2>9, <3>2, <4>1
    <3> QED BY <3>1, <3>2
  <2>13. ASSUME NEW g \in Frss
         PROVE  ChildrenAre(Files(u), g)
    <3>1. \A p \in Frss : Led(Files(u)[p]) = Led(Files(t)[p])
                          /\ Files(u)[p].children = Files(t)[p].children
      BY <1>2, <2>10 DEF Led
    <3>2. \A p, q \in Frss : LeadsOf(Files(u)[p], p, q) = LeadsOf(Files(t)[p], p, q)
      BY <1>2, <2>10 DEF LeadsOf, NamedIn
    <3>3. ChildrenAre(Files(t), g)
      BY <1>4
    <3>4. UNION {LeadsOf(Files(u)[p], p, g) : p \in Frss \ {g}}
             = UNION {LeadsOf(Files(t)[p], p, g) : p \in Frss \ {g}}
      BY <3>2
    <3> QED BY <3>1, <3>3, <3>4 DEF ChildrenAre
  <2> QED BY <2>2, <2>11, <2>12, <2>13
<1> QED BY <1>1, <1>10, <1>11, <1>12, <1>13

-----------------------------------------------------------------------------
(* Records and chunks. *)

IsLoading(after, t, r, n) ==
    after = [k \in 0 .. n |-> IF k = 0 THEN At(t, r.base)
                              ELSE AddAttribute(after[k - 1], r.base, r.attributes[k])]

\* The attributes of one record can be gone through one by one.
LEMMA LoadingExists ==
  ASSUME NEW t, NEW r, NEW n \in Nat
  PROVE  \E after : IsLoading(after, t, r, n)
<1> DEFINE T == {k \in 0 .. n : \E after : IsLoading(after, t, r, k)}
<1>1. ASSUME NEW k \in 0 .. n, \A j \in 0 .. k - 1 : j \in T PROVE k \in T
  <2>1. CASE k = 0
    <3> DEFINE f == [i \in 0 .. 0 |-> At(t, r.base)]
    <3>1. IsLoading(f, t, r, 0)
      BY DEF IsLoading
    <3> QED BY <2>1, <3>1
  <2>2. CASE k # 0
    <3>1. k - 1 \in 0 .. k - 1
      BY <2>2
    <3>2. PICK g : IsLoading(g, t, r, k - 1)
      BY <1>1, <3>1
    <3>3. g = [i \in 0 .. k - 1 |-> IF i = 0 THEN At(t, r.base)
                                    ELSE AddAttribute(g[i - 1], r.base, r.attributes[i])]
      BY <3>2 DEF IsLoading
    <3> DEFINE f == [i \in 0 .. k |-> IF i = 0 THEN At(t, r.base)
                                      ELSE AddAttribute(g[i - 1], r.base, r.attributes[i])]
    <3>4. ASSUME NEW i \in 0 .. k - 1 PROVE f[i] = g[i]
      <4>1. i \in 0 .. k
        OBVIOUS
      <4>2. PICK B : B = IF i = 0 THEN At(t, r.base)
                         ELSE AddAttribute(g[i - 1], r.base, r.attributes[i])
        OBVIOUS
      <4>3. f[i] = B
        BY <4>1, <4>2
      <4>4. g[i] = B
        BY <3>3, <4>2
      <4> QED BY <4>3, <4>4
    <3>5. ASSUME NEW i \in 0 .. k, i # 0 PROVE f[i - 1] = g[i - 1]
      <4>1. i - 1 \in 0 .. k - 1
        BY <3>5
      <4> QED BY <3>4, <4>1
    <3>6. f = [i \in 0 .. k |-> IF i = 0 THEN At(t, r.base)
                                ELSE AddAttribute(f[i - 1], r.base, r.attributes[i])]
      BY <3>5
    <3>7. IsLoading(f, t, r, k)
      BY <3>6 DEF IsLoading
    <3> QED BY <3>7
  <2> QED BY <2>1, <2>2
<1> HIDE DEF T
<1>2. n \in T
  BY <1>1, UpTo
<1> QED BY <1>2 DEF T

\* The attributes of one record.
LEMMA PlacesOne ==
  ASSUME NEW m, NEW f
  PROVE  PlacesIn(m, {f}) = IF m[f].inUse THEN {f} \X DOMAIN m[f].attributes ELSE {}
<1>1. CASE m[f].inUse
  <2>1. {g \in {f} : m[g].inUse} = {f}
    BY <1>1
  <2> QED BY <1>1, <2>1 DEF PlacesIn
<1>2. CASE ~m[f].inUse
  <2>1. {g \in {f} : m[g].inUse} = {}
    BY <1>2
  <2> QED BY <1>2, <2>1 DEF PlacesIn
<1> QED BY <1>1, <1>2

\* The attributes of some records and of one more.
LEMMA PlacesUnion ==
  ASSUME NEW m \in [Frss -> MftRecords], NEW fs \in SUBSET Frss, NEW f \in Frss,
         NEW gs \in SUBSET Frss, gs = fs \cup {f}
  PROVE  PlacesIn(m, gs) = PlacesIn(m, fs) \cup PlacesIn(m, {f})
<1>1. \A x : x \in PlacesIn(m, gs) <=>
                \E g \in gs : m[g].inUse /\ x \in {g} \X DOMAIN m[g].attributes
  BY DEF PlacesIn
<1>2. \A x : x \in PlacesIn(m, fs) <=>
                \E g \in fs : m[g].inUse /\ x \in {g} \X DOMAIN m[g].attributes
  BY DEF PlacesIn
<1>3. \A x : x \in PlacesIn(m, {f}) <=>
                \E g \in {f} : m[g].inUse /\ x \in {g} \X DOMAIN m[g].attributes
  BY DEF PlacesIn
<1> QED BY <1>1, <1>2, <1>3

\* The attributes of records lie in these records.
LEMMA PlacesWithin ==
  ASSUME NEW m, NEW fs
  PROVE  /\ fs = {} => PlacesIn(m, fs) = {}
         /\ fs \subseteq Frss => PlacesIn(m, fs) \subseteq Places(m)
         /\ \A x \in PlacesIn(m, fs) : x[1] \in fs
<1>1. fs = {} => PlacesIn(m, fs) = {}
  BY DEF PlacesIn
<1>2. fs \subseteq Frss => PlacesIn(m, fs) \subseteq Places(m)
  BY DEF PlacesIn, Places
<1>3. \A x \in PlacesIn(m, fs) : x[1] \in fs
  BY DEF PlacesIn
<1> QED BY <1>1, <1>2, <1>3

-----------------------------------------------------------------------------
(* The count of names and streams that the progress of a search ends at. *)

\* A name and a stream of a file: what a search calls back for.
PairsOf(F) == UNION {{f} \X ((DOMAIN F[f].names) \X DOMAIN F[f].streams) : f \in Frss}

Totalled(t) ==
    IsFiniteSet(PairsOf(Files(t))) /\ t.total = Cardinality(PairsOf(Files(t)))

SameTotal(u, t) == "total" \in DOMAIN u /\ u.total = t.total

\* Slots, names, children and sizes do not count.
LEMMA TotalKept ==
  ASSUME NEW t, "total" \in DOMAIN t
  PROVE  /\ \A f, r : SameTotal(SetRec(t, f, r), t)
         /\ \A f : SameTotal(At(t, f), t)
         /\ \A f, p, s : SameTotal(SetStream(t, f, p, s), t)
         /\ \A p, f, n : SameTotal(AddChild(t, p, f, n), t)
         /\ \A f, p, a : SameTotal(AddSizes(t, f, p, a), t)
         /\ \A a : SameTotal(Zoned(t, a), t)
<1>1. ASSUME NEW u, "total" \in DOMAIN u, NEW f, NEW r PROVE SameTotal(SetRec(u, f, r), u)
  BY <1>1 DEF SetRec, SameTotal
<1>2. ASSUME NEW f PROVE SameTotal(At(t, f), t)
  BY DEF At, SameTotal
<1>3. ASSUME NEW f, NEW p, NEW s PROVE SameTotal(SetStream(t, f, p, s), t)
  BY <1>1 DEF SetStream, SameTotal
<1>4. ASSUME NEW p, NEW f, NEW n PROVE SameTotal(AddChild(t, p, f, n), t)
  <2>1. PICK x : x = [record |-> f, nameIndex |-> n, next |-> Rec(t, p).firstChild]
    OBVIOUS
  <2>2. PICK u : u = [t EXCEPT !.childinfos = Append(@, x)]
    OBVIOUS
  <2>3. "total" \in DOMAIN u /\ u.total = t.total
    BY <2>2
  <2>4. AddChild(t, p, f, n)
           = SetRec(u, p, [Rec(t, p) EXCEPT !.firstChild = Len(t.childinfos) + 1])
    BY <2>1, <2>2 DEF AddChild
  <2> QED BY <1>1, <2>3, <2>4 DEF SameTotal
<1>5. ASSUME NEW f, NEW p, NEW a PROVE SameTotal(AddSizes(t, f, p, a), t)
  BY <1>3 DEF AddSizes
<1>6. ASSUME NEW a PROVE SameTotal(Zoned(t, a), t)
  BY DEF Zoned, SameTotal
<1> QED BY <1>1, <1>2, <1>3, <1>4, <1>5, <1>6

\* Neither does a name, which comes before the streams it will have.
LEMMA NameTotal ==
  ASSUME NEW t, "total" \in DOMAIN t, NEW f, NEW a
  PROVE  AddName(t, f, a).total = t.total
<1>1. PICK kept : kept = KeptNames(t, Rec(t, f))
  OBVIOUS
<1>2. PICK u : u = [t EXCEPT !.nameinfos = kept]
  OBVIOUS
<1>3. "total" \in DOMAIN u /\ u.total = t.total
  BY <1>2
<1>4. PICK link : link = [name |-> a.name, parent |-> a.parent,
                          next |-> IF Rec(t, f).firstName.name = NoName THEN Nil ELSE Len(kept)]
  OBVIOUS
<1>5. PICK named : named = SetRec(u, f, [Rec(t, f) EXCEPT !.firstName = link])
  OBVIOUS
<1>6. SameTotal(named, u)
  BY <1>3, <1>5, TotalKept
<1>7. PICK at : at = At(named, a.parent)
  OBVIOUS
<1>8. SameTotal(at, named)
  BY <1>6, <1>7, TotalKept DEF SameTotal
<1>9. PICK linked : linked = IF a.parent = f THEN named
                             ELSE AddChild(at, a.parent, f, NameNumber(Rec(t, f)))
  OBVIOUS
<1>10. SameTotal(linked, named)
  BY <1>6, <1>8, <1>9, TotalKept DEF SameTotal
<1>11. AddName(t, f, a) = SetRec(linked, f, [Rec(linked, f) EXCEPT !.nameCount = @ + 1])
  BY <1>1, <1>2, <1>4, <1>5, <1>7, <1>9 DEF AddName
<1>12. SameTotal(AddName(t, f, a), linked)
  BY <1>10, <1>11, TotalKept DEF SameTotal
<1> QED BY <1>3, <1>6, <1>10, <1>12 DEF SameTotal

\* A new stream counts for every name the file has by then; one that merges does not.
LEMMA StreamTotal ==
  ASSUME NEW t, Sound(t), NEW f \in Slots(t), NEW a \in StreamAttributes
  PROVE  AddStream(t, f, a).total
            = IF ~a.primary \/ (a.type = DirType /\ DirPositions(t, f) # {})
              THEN t.total ELSE t.total + Rec(t, f).nameCount
<1>1. t \in Tables /\ "total" \in DOMAIN t
  BY DEF Sound, Tables
<1>2. PICK z : z = Zoned(t, a)
  OBVIOUS
<1>3. /\ SameTotal(z, t) /\ Rec(z, f) = Rec(t, f)
      /\ Merges(z, f, a) = IF a.type = DirType THEN DirPositions(t, f) ELSE {}
  <2>1. SameTotal(z, t)
    BY <1>1, <1>2, TotalKept
  <2>2. z.records = t.records /\ z.lookup = t.lookup
    BY <1>1, <1>2 DEF Zoned, Tables
  <2>3. Rec(z, f) = Rec(t, f)
    BY <2>2 DEF Rec
  <2> QED BY <1>2, <2>1, <2>3, MergesIs
<1>4. PICK v : v = PushStream(z, f, a)
  OBVIOUS
<1>5. "total" \in DOMAIN v /\ v.total = t.total + Rec(t, f).nameCount
  <2>1. PICK kept : kept = IF Rec(z, f).firstStream.name = NoName THEN z.streaminfos
                           ELSE Append(z.streaminfos, Rec(z, f).firstStream)
    OBVIOUS
  <2>2. PICK y : y = [z EXCEPT !.streaminfos = kept, !.total = @ + Rec(z, f).nameCount]
    OBVIOUS
  <2>3. "total" \in DOMAIN y /\ y.total = t.total + Rec(t, f).nameCount
    BY <1>3, <2>2 DEF SameTotal
  <2>4. \E r : v = SetRec(y, f, r)
    BY <1>4, <2>1, <2>2 DEF PushStream
  <2> QED BY <2>3, <2>4, TotalKept DEF SameTotal
<1>6. PICK p : p = IF Merges(z, f, a) = {} THEN InRecord
                   ELSE StreamPlaces(z, f)[Min(Merges(z, f, a))]
  OBVIOUS
<1>7. PICK held : held = IF Merges(z, f, a) = {} THEN v ELSE z
  OBVIOUS
<1>8. AddStream(t, f, a) = IF a.primary THEN AddSizes(held, f, p, a) ELSE z
  BY <1>2, <1>4, <1>6, <1>7 DEF AddStream, IsPrimary, Zoned
<1>9. SameTotal(AddSizes(held, f, p, a), held)
  BY <1>3, <1>5, <1>7, TotalKept DEF SameTotal
<1>10. a.primary \in BOOLEAN
  BY DEF StreamAttributes
<1> QED BY <1>3, <1>5, <1>7, <1>8, <1>9, <1>10 DEF SameTotal

\* Files of which no name and no stream has come or gone.
LEMMA PairsSame ==
  ASSUME NEW F, NEW G,
         \A f \in Frss : \/ /\ DOMAIN G[f].names = DOMAIN F[f].names
                            /\ DOMAIN G[f].streams = DOMAIN F[f].streams
                         \/ DOMAIN G[f].streams = {} /\ DOMAIN F[f].streams = {}
  PROVE  PairsOf(G) = PairsOf(F)
<1>1. \A f \in Frss : {f} \X ((DOMAIN G[f].names) \X DOMAIN G[f].streams)
                         = {f} \X ((DOMAIN F[f].names) \X DOMAIN F[f].streams)
  OBVIOUS
<1> QED BY <1>1 DEF PairsOf

\* From F to G the file f, of n names and k streams, has one stream more.
Pushed(F, G, f, n, k) ==
    /\ \A g \in Frss \ {f} : G[g] = F[g]
    /\ DOMAIN F[f].names = 1 .. n /\ DOMAIN G[f].names = 1 .. n
    /\ DOMAIN F[f].streams = 1 .. k /\ DOMAIN G[f].streams = 1 .. k + 1

\* One stream more of a file is a pair more for each of its names.
LEMMA PairsPush ==
  ASSUME NEW F, NEW G, NEW f \in Frss, NEW n \in Nat, NEW k \in Nat,
         Pushed(F, G, f, n, k), IsFiniteSet(PairsOf(F))
  PROVE  IsFiniteSet(PairsOf(G)) /\ Cardinality(PairsOf(G)) = Cardinality(PairsOf(F)) + n
<1> DEFINE part(H, g) == {g} \X ((DOMAIN H[g].names) \X DOMAIN H[g].streams)
           new == {f} \X ((1 .. n) \X {k + 1})
<1>0. /\ \A g \in Frss \ {f} : G[g] = F[g]
      /\ DOMAIN F[f].names = 1 .. n /\ DOMAIN G[f].names = 1 .. n
      /\ DOMAIN F[f].streams = 1 .. k /\ DOMAIN G[f].streams = 1 .. k + 1
  BY DEF Pushed
<1>1. 1 .. k + 1 = (1 .. k) \cup {k + 1} /\ k + 1 \notin 1 .. k
  OBVIOUS
<1>2. part(G, f) = part(F, f) \cup new
  <2>1. part(G, f) = {f} \X ((1 .. n) \X (1 .. k + 1))
    BY <1>0
  <2>2. part(F, f) = {f} \X ((1 .. n) \X (1 .. k))
    BY <1>0
  <2> QED BY <1>1, <2>1, <2>2
<1>3. \A g \in Frss \ {f} : part(G, g) = part(F, g)
  BY <1>0
<1>4. PairsOf(F) = UNION {part(F, g) : g \in Frss} /\ PairsOf(G) = UNION {part(G, g) : g \in Frss}
  BY DEF PairsOf
<1>5. \A x \in PairsOf(F) : x[1] = f => x[2][2] \in 1 .. k
  BY <1>0 DEF PairsOf
<1>6. \A x \in new : x[1] = f /\ x[2][2] = k + 1
  OBVIOUS
<1>7. PairsOf(F) \cap new = {}
  BY <1>1, <1>5, <1>6
<1> HIDE DEF part, new
<1>8. PairsOf(G) = PairsOf(F) \cup new
  <2>1. \A x : x \in PairsOf(G) <=> \E g \in Frss : x \in part(G, g)
    BY <1>4
  <2>2. \A x : x \in PairsOf(F) <=> \E g \in Frss : x \in part(F, g)
    BY <1>4
  <2> QED BY <1>2, <1>3, <2>1, <2>2
<1>9. IsFiniteSet(new) /\ Cardinality(new) = n
  <2>1. IsFiniteSet(1 .. n) /\ Cardinality(1 .. n) = n
    BY FS_Interval
  <2>2. IsFiniteSet({k + 1}) /\ Cardinality({k + 1}) = 1 /\ IsFiniteSet({f}) /\ Cardinality({f}) = 1
    BY FS_Singleton
  <2>3. PICK p, q : p = 1 .. n /\ q = {k + 1}
    OBVIOUS
  <2>4. IsFiniteSet(p) /\ Cardinality(p) = n /\ IsFiniteSet(q) /\ Cardinality(q) = 1
    BY <2>1, <2>2, <2>3
  <2>5. IsFiniteSet(p \X q) /\ Cardinality(p \X q) = Cardinality(p) * Cardinality(q)
    BY ONLY <2>4, FS_Product
  <2>6. PICK r : r = p \X q
    OBVIOUS
  <2>7. PICK o : o = {f}
    OBVIOUS
  <2>8. IsFiniteSet(r) /\ Cardinality(r) = n /\ IsFiniteSet(o) /\ Cardinality(o) = 1
    BY <2>2, <2>4, <2>5, <2>6, <2>7
  <2>9. IsFiniteSet(o \X r) /\ Cardinality(o \X r) = Cardinality(o) * Cardinality(r)
    BY ONLY <2>8, FS_Product
  <2>10. new = o \X r
    BY <2>3, <2>6, <2>7 DEF new
  <2> QED BY <2>8, <2>9, <2>10
<1>10. /\ IsFiniteSet(PairsOf(F) \cup new)
       /\ Cardinality(PairsOf(F) \cup new)
             = Cardinality(PairsOf(F)) + Cardinality(new) - Cardinality(PairsOf(F) \cap new)
  BY <1>9, FS_Union
<1>11. Cardinality({}) = 0 /\ Cardinality(PairsOf(F)) \in Nat
  BY FS_EmptySet, FS_CardinalityType
<1>12. Cardinality(PairsOf(F) \cap new) = 0
  BY <1>7, <1>11
<1>13. PICK p, q : p = PairsOf(F) /\ q = PairsOf(G)
  OBVIOUS
<1> QED BY <1>8, <1>9, <1>10, <1>11, <1>12, <1>13

\* On a volume without split records no stream of a file has come before its names, so the
\* count stays the number of names and streams.
LEMMA AttributeTotalled ==
  ASSUME NEW t, Sound(t), NEW m \in [Frss -> MftRecords], ContiguousIn(m), NEW xs \in SUBSET Places(m),
         NEW f \in Frss, m[f].base \in Slots(t), NEW k \in DOMAIN m[f].attributes,
         \A x \in xs : x[1] = f => x[2] \in DOMAIN m[f].attributes /\ x[2] < k,
         <<f, k>> \in Places(m), Accounts(Files(t), m, xs), Totalled(t)
  PROVE  Totalled(AddAttribute(t, m[f].base, m[f].attributes[k]))
<1> DEFINE b == m[f].base
           a == m[f].attributes[k]
           u == AddAttribute(t, b, a)
<1>1. /\ b \in Frss /\ a.kind \in {"name", "stream"} /\ m[f] \in MftRecords
      /\ a.kind = "name" => a \in NameAttributes
      /\ a.kind # "name" => a \in StreamAttributes
  <2>1. AttributeAt(m, <<f, k>>) = a /\ <<f, k>>[1] = f
    BY DEF AttributeAt
  <2> QED BY <2>1, AttributeTyped
<1>2. "total" \in DOMAIN t /\ t.total \in Int
  BY DEF Sound, Tables
<1>3. \A g \in Frss : Files(t)[g] = File(t, g) /\ Files(u)[g] = File(u, g)
  BY DEF Files
<1>4. \A g \in Frss : File(t, g) \in FileRecords
  BY FileTyped
<1>5. PICK n, l : n = Len(File(t, b).names) /\ l = Len(File(t, b).streams)
  OBVIOUS
<1>6. /\ n \in Nat /\ l \in Nat /\ DOMAIN File(t, b).names = 1 .. n
      /\ DOMAIN File(t, b).streams = 1 .. l /\ Rec(t, b).nameCount = n
  <2>1. File(t, b).names \in Seq(Links) /\ File(t, b).streams \in Seq(Streams)
    BY <1>1, <1>4 DEF FileRecords
  <2>2. NamesAre(File(t, b), m, LinksAmong(m, xs, b))
    BY <1>1, <1>3 DEF Accounts
  <2>3. Rec(t, b).nameCount = File(t, b).nameCount
    BY DEF File
  <2>4. PICK p \in Seq(Links), q \in Seq(Streams) : p = File(t, b).names /\ q = File(t, b).streams
    BY <2>1
  <2>5. Len(p) \in Nat /\ DOMAIN p = 1 .. Len(p) /\ Len(q) \in Nat /\ DOMAIN q = 1 .. Len(q)
    OBVIOUS
  <2> QED BY <1>5, <2>2, <2>3, <2>4, <2>5 DEF NamesAre
<1> HIDE DEF u
<1>7. CASE a.kind = "name" /\ IsSkipped(a)
  <2>1. u = t
    BY <1>7 DEF u, AddAttribute
  <2> QED BY <2>1 DEF u
<1>8. CASE a.kind = "name" /\ ~IsSkipped(a)
  <2>1. u = AddName(t, b, a)
    BY <1>8 DEF u, AddAttribute
  <2>2. a.name \in Strings \ {NoName} /\ a.parent \in Frss
    BY <1>1, <1>8 DEF NameAttributes, Strings
  <2>3. \A g \in Frss : File(u, g) = AfterName(t, b, a, g)
    BY <2>1, <2>2, AddNameIs
  <2>4. u.total = t.total
    BY <1>2, <2>1, NameTotal
  <2>5. "name" # "stream"
    OBVIOUS
  <2>6. b = f
    BY <1>1, <1>8, <2>5 DEF ContiguousIn
  <2>7. StreamsAmong(m, xs, b) = {}
    <3> SUFFICES ASSUME NEW x \in StreamsAmong(m, xs, b) PROVE FALSE
      OBVIOUS
    <3>1. /\ x \in xs /\ x \in Places(m) /\ m[x[1]].base = f
          /\ AttributeAt(m, x).kind = "stream" /\ AttributeAt(m, x).primary
      BY <2>6 DEF StreamsAmong
    <3>2. x[1] \in Frss /\ x[2] \in DOMAIN m[x[1]].attributes
      BY <3>1 DEF Places, PlacesIn
    <3>3. x[1] = f
      BY <3>1, <3>2 DEF ContiguousIn, AttributeAt
    <3>4. x[2] \in DOMAIN m[f].attributes /\ x[2] < k
      BY <3>1, <3>3
    <3>5. k < x[2]
      BY <1>8, <3>1, <3>3, <3>4 DEF ContiguousIn, AttributeAt
    <3>6. k \in Nat /\ x[2] \in Nat
      BY <1>1, <3>4 DEF MftRecords
    <3> QED BY <3>4, <3>5, <3>6
  <2>8. l = 0
    <3>1. StreamsAre(File(t, b), m, DirsAmong(m, xs, b), OthersAmong(m, xs, b))
      BY <1>1, <1>3 DEF Accounts
    <3>2. DirsAmong(m, xs, b) = {} /\ OthersAmong(m, xs, b) = {}
      BY <2>7 DEF DirsAmong, OthersAmong
    <3> QED BY <1>5, <3>1, <3>2, FS_EmptySet DEF StreamsAre
  <2>9. ASSUME NEW g \in Frss
        PROVE  \/ /\ DOMAIN Files(u)[g].names = DOMAIN Files(t)[g].names
                  /\ DOMAIN Files(u)[g].streams = DOMAIN Files(t)[g].streams
               \/ DOMAIN Files(u)[g].streams = {} /\ DOMAIN Files(t)[g].streams = {}
    <3>1. CASE g = b
      <4>1. File(u, g).streams = File(t, g).streams
        BY <2>3, <3>1 DEF AfterName, Counted, WithName
      <4> QED BY <1>3, <1>6, <2>8, <3>1, <4>1
    <3>2. CASE g # b
      <4>1. File(u, g).streams = File(t, g).streams /\ File(u, g).names = File(t, g).names
        BY <2>3, <3>2 DEF AfterName, WithChild
      <4> QED BY <1>3, <4>1
    <3> QED BY <3>1, <3>2
  <2>10. PairsOf(Files(u)) = PairsOf(Files(t))
    BY <2>9, PairsSame
  <2> QED BY <2>4, <2>10 DEF Totalled, u
<1>9. CASE a.kind # "name"
  <2>1. u = AddStream(t, b, a) /\ a \in StreamAttributes
    BY <1>1, <1>9 DEF u, AddAttribute
  <2>2. \A g \in Frss : File(u, g) = AfterStream(t, b, a, g)
    BY <2>1, AddStreamIs
  <2>3. u.total = IF ~a.primary \/ (a.type = DirType /\ DirPositions(t, b) # {})
                  THEN t.total ELSE t.total + n
    BY <1>6, <2>1, StreamTotal
  <2>4. CASE ~a.primary \/ (a.type = DirType /\ DirPositions(t, b) # {})
    <3>1. ASSUME NEW g \in Frss
          PROVE  /\ DOMAIN Files(u)[g].names = DOMAIN Files(t)[g].names
                 /\ DOMAIN Files(u)[g].streams = DOMAIN Files(t)[g].streams
      <4>1. \/ File(u, g) = File(t, g)
            \/ /\ g = b
               /\ \E j, s : File(u, g) = Resized(File(t, b), j, s)
        BY <2>2, <2>4 DEF AfterStream
      <4>2. CASE File(u, g) = File(t, g)
        BY <1>3, <4>2
      <4>3. ASSUME NEW j, NEW s, g = b, File(u, g) = Resized(File(t, b), j, s)
            PROVE  /\ DOMAIN File(u, g).names = DOMAIN File(t, g).names
                   /\ DOMAIN File(u, g).streams = DOMAIN File(t, g).streams
        BY <4>3 DEF Resized
      <4> QED BY <1>3, <4>1, <4>2, <4>3
    <3>2. PairsOf(Files(u)) = PairsOf(Files(t))
      BY <3>1, PairsSame
    <3> QED BY <2>3, <2>4, <3>2 DEF Totalled, u
  <2>5. CASE a.primary /\ ~(a.type = DirType /\ DirPositions(t, b) # {})
    <3>1. PICK s : File(u, b) = WithStream(File(t, b), s)
      BY <1>1, <2>2, <2>5 DEF AfterStream
    <3>2. \A g \in Frss \ {b} : Files(u)[g] = Files(t)[g]
      BY <1>3, <2>2 DEF AfterStream
    <3>3. DOMAIN File(u, b).names = 1 .. n
      BY <1>6, <3>1 DEF WithStream
    <3>4. DOMAIN File(u, b).streams = 1 .. l + 1
      <4>1. PICK q \in Seq(Streams) : q = File(t, b).streams
        BY <1>1, <1>4 DEF FileRecords
      <4>2. File(u, b).streams = <<s>> \o q
        BY <3>1, <4>1 DEF WithStream
      <4>3. PICK p : p = <<s>> \o q
        OBVIOUS
      <4>4. DOMAIN p = 1 .. Len(q) + 1
        BY <4>3
      <4> QED BY <1>5, <4>1, <4>2, <4>3, <4>4
    <3>5. IsFiniteSet(PairsOf(Files(t))) /\ t.total = Cardinality(PairsOf(Files(t)))
      BY DEF Totalled
    <3>6. /\ IsFiniteSet(PairsOf(Files(u)))
          /\ Cardinality(PairsOf(Files(u))) = Cardinality(PairsOf(Files(t))) + n
      <4>1. PICK F, G : F = Files(t) /\ G = Files(u)
        OBVIOUS
      <4>2. Pushed(F, G, b, n, l)
        <5>1. \A g \in Frss \ {b} : G[g] = F[g]
          BY <3>2, <4>1
        <5>2. DOMAIN F[b].names = 1 .. n /\ DOMAIN F[b].streams = 1 .. l
          BY <1>1, <1>3, <1>6, <4>1
        <5>3. DOMAIN G[b].names = 1 .. n /\ DOMAIN G[b].streams = 1 .. l + 1
          BY <1>1, <1>3, <3>3, <3>4, <4>1
        <5> QED BY <5>1, <5>2, <5>3 DEF Pushed
      <4>3. b \in Frss /\ n \in Nat /\ l \in Nat /\ IsFiniteSet(PairsOf(F))
        BY <1>1, <1>6, <3>5, <4>1
      <4> HIDE DEF b
      <4>4. IsFiniteSet(PairsOf(G)) /\ Cardinality(PairsOf(G)) = Cardinality(PairsOf(F)) + n
        BY ONLY <4>2, <4>3, PairsPush
      <4> QED BY <4>1, <4>4
    <3> QED BY <2>3, <2>5, <3>5, <3>6 DEF Totalled, u
  <2> QED BY <1>9, <2>1, <2>4, <2>5 DEF StreamAttributes
<1> QED BY <1>1, <1>7, <1>8, <1>9 DEF u

\* What a stream, or an attribute, adds to the sizes: compressed data has no length of its own.
Measures == {"length", "allocated"}

Measure(q, s) ==
    IF q = "allocated" THEN s.allocated ELSE IF IsCompressedData(s) THEN 0 ELSE s.length

InStreams(q, streams) ==
    SumFunctionOnSet([j \in DOMAIN streams |-> Measure(q, streams[j])], DOMAIN streams)

InPlaces(q, m, xs) == SumFunctionOnSet([x \in xs |-> Measure(q, AttributeAt(m, x))], xs)

StreamsWeigh(streams, m, all, dirs) ==
    /\ \A q \in Measures : InStreams(q, streams) = InPlaces(q, m, all)
    /\ \A j \in DOMAIN streams : ~streams[j].accounted
    /\ \A j \in DirsAt(streams) :
          /\ streams[j].treesize = 1
          /\ \A q \in Measures : Measure(q, streams[j]) = InPlaces(q, m, dirs)

\* No two streams of data have one name.
Apart(streams) ==
    \A i, j \in DOMAIN streams :
        streams[i].type = DataType /\ streams[j].type = DataType /\ streams[i].name = streams[j].name
            => i = j

ApartIn(m) ==
    \A f \in Frss : \A x, y \in StreamsAmong(m, Places(m), f) :
        LET a == AttributeAt(m, x)
            b == AttributeAt(m, y)
        IN a.type = DataType /\ b.type = DataType /\ a.name = b.name => x = y

\* The sizes of the streams of every file add up to those of the attributes that have come.
Weighed(F, m, xs) ==
    \A f \in Frss :
        /\ StreamsWeigh(F[f].streams, m, StreamsAmong(m, xs, f), DirsAmong(m, xs, f))
        /\ ApartIn(m) => Apart(F[f].streams)

\* Sizes are numbers.
LEMMA MeasureTyped ==
  ASSUME NEW q
  PROVE  /\ \A s \in Streams : Measure(q, s) \in Int
         /\ \A a \in StreamAttributes : Measure(q, a) \in Int
BY DEF Measure, Streams, StreamAttributes

\* One place more.
LEMMA InPlacesWith ==
  ASSUME NEW q, NEW m, NEW xs, IsFiniteSet(xs), NEW x, x \notin xs,
         \A y \in xs \cup {x} : AttributeAt(m, y) \in StreamAttributes
  PROVE  /\ InPlaces(q, m, xs \cup {x}) = InPlaces(q, m, xs) + Measure(q, AttributeAt(m, x))
         /\ InPlaces(q, m, xs) \in Int /\ InPlaces(q, m, {}) = 0
<1> DEFINE f == [y \in xs |-> Measure(q, AttributeAt(m, y))]
           g == [y \in xs \cup {x} |-> Measure(q, AttributeAt(m, y))]
           o == [y \in {} |-> Measure(q, AttributeAt(m, y))]
<1>1. \A y \in xs : f[y] \in Int /\ g[y] = f[y]
  BY MeasureTyped
<1>2. g[x] = Measure(q, AttributeAt(m, x)) /\ g[x] \in Int
  BY MeasureTyped
<1>3. /\ InPlaces(q, m, xs) = SumFunctionOnSet(f, xs)
      /\ InPlaces(q, m, xs \cup {x}) = SumFunctionOnSet(g, xs \cup {x})
      /\ InPlaces(q, m, {}) = SumFunctionOnSet(o, {})
  BY DEF InPlaces
<1> HIDE DEF f, g, o
<1>4. SumFunctionOnSet(g, xs) = SumFunctionOnSet(f, xs) /\ SumFunctionOnSet(f, xs) \in Int
  BY <1>1, SumSame
<1>5. \A y \in xs : g[y] \in Int
  BY <1>1
<1>6. SumFunctionOnSet(g, xs \cup {x}) = SumFunctionOnSet(g, xs) + g[x]
  BY <1>2, <1>5, SumWith
<1>7. SumFunctionOnSet(o, {}) = 0
  BY SumUnfold, FS_EmptySet
<1> QED BY <1>2, <1>3, <1>4, <1>6, <1>7

\* One stream more, at the head.
LEMMA InStreamsPush ==
  ASSUME NEW q, NEW c \in Seq(Streams), NEW s \in Streams, NEW d, d = <<s>> \o c
  PROVE  /\ InStreams(q, d) = InStreams(q, c) + Measure(q, s)
         /\ InStreams(q, c) \in Int
<1> DEFINE f == [j \in DOMAIN c |-> Measure(q, c[j])]
           g == [j \in DOMAIN d |-> Measure(q, d[j])]
<1>1. PICK n \in Nat : n = Len(c)
  OBVIOUS
<1>2. /\ d \in Seq(Streams) /\ Len(d) = n + 1
      /\ \A i \in 1 .. n + 1 : d[i] = IF i = 1 THEN s ELSE c[i - 1]
  BY <1>1, RangePush
<1>3. DOMAIN c = 1 .. n /\ DOMAIN d = 1 .. n + 1
  BY <1>1, <1>2
<1>4. \A j \in 1 .. n : f[j] = Measure(q, c[j]) /\ c[j] \in Streams
  BY <1>3
<1>5. \A j \in 1 .. n + 1 : g[j] = Measure(q, d[j])
  BY <1>3
<1>6. InStreams(q, c) = SumFunctionOnSet(f, 1 .. n) /\ InStreams(q, d) = SumFunctionOnSet(g, 1 .. n + 1)
  BY <1>3 DEF InStreams
<1> HIDE DEF f, g
<1>7. ASSUME NEW j \in 1 .. n PROVE f[j] \in Int /\ g[j + 1] = f[j]
  <2>1. j + 1 \in 1 .. n + 1 /\ j + 1 # 1 /\ (j + 1) - 1 = j
    OBVIOUS
  <2>2. d[j + 1] = c[j]
    BY <1>2, <2>1
  <2>3. Measure(q, c[j]) \in Int
    BY <1>4, MeasureTyped
  <2> QED BY <1>4, <1>5, <2>1, <2>2, <2>3
<1>8. g[1] = Measure(q, s) /\ g[1] \in Int
  <2>1. 1 \in 1 .. n + 1
    OBVIOUS
  <2>2. d[1] = s
    BY <1>2, <2>1
  <2>3. Measure(q, s) \in Int
    BY MeasureTyped
  <2> QED BY <1>5, <2>1, <2>2, <2>3
<1>9. /\ SumFunctionOnSet(g, 1 .. n + 1) = g[1] + SumFunctionOnSet(f, 1 .. n)
      /\ SumFunctionOnSet(f, 1 .. n) \in Int
  BY <1>7, <1>8, SumShift
<1> QED BY <1>6, <1>8, <1>9

\* One stream changed.
LEMMA InStreamsSet ==
  ASSUME NEW q, NEW c \in Seq(Streams), NEW j \in DOMAIN c, NEW s \in Streams
  PROVE  /\ InStreams(q, [c EXCEPT ![j] = s]) = InStreams(q, c) + (Measure(q, s) - Measure(q, c[j]))
         /\ InStreams(q, c) \in Int
<1> DEFINE d == [c EXCEPT ![j] = s]
           f == [i \in DOMAIN c |-> Measure(q, c[i])]
           g == [i \in DOMAIN d |-> Measure(q, d[i])]
           S == DOMAIN c
<1>1. DOMAIN d = S /\ d[j] = s /\ \A i \in S \ {j} : d[i] = c[i]
  OBVIOUS
<1>2. IsFiniteSet(S)
  <2>1. S = 1 .. Len(c) /\ Len(c) \in Nat
    OBVIOUS
  <2> QED BY <2>1, FS_Interval
<1>3. /\ f[j] = Measure(q, c[j]) /\ g[j] = Measure(q, s)
      /\ \A i \in S : f[i] \in Int
      /\ \A i \in S \ {j} : g[i] = f[i]
  <2>1. \A i \in S : c[i] \in Streams
    OBVIOUS
  <2> QED BY <1>1, <2>1, MeasureTyped
<1>4. g[j] \in Int
  BY <1>3, MeasureTyped
<1>5. InStreams(q, c) = SumFunctionOnSet(f, S) /\ InStreams(q, d) = SumFunctionOnSet(g, S)
  BY <1>1 DEF InStreams
<1>6. j \in S
  OBVIOUS
<1> HIDE DEF f, g, d, S
<1>7. /\ SumFunctionOnSet(g, S) = SumFunctionOnSet(f, S) + (g[j] - f[j])
      /\ SumFunctionOnSet(f, S) \in Int
  BY <1>2, <1>3, <1>4, <1>6, SumReplaced
<1> QED BY <1>3, <1>5, <1>7 DEF d

\* A part more of what a stream holds, or all it will have.
LEMMA MeasureGrows ==
  ASSUME NEW q \in Measures, NEW s \in Streams, NEW a \in StreamAttributes, s.type = a.type,
         \/ a.type = DirType
         \/ s.name = a.name /\ s.length = 0 /\ s.allocated = 0
  PROVE  Measure(q, Grown(s, a)) = Measure(q, s) + Measure(q, a)
<1>1. /\ Grown(s, a) \in Streams /\ Grown(s, a).type = s.type /\ Grown(s, a).name = s.name
      /\ Grown(s, a).length = s.length + a.length
  BY GrownIs
<1>2. Grown(s, a).allocated = s.allocated + a.allocated
  BY DEF Grown, Streams
<1>3. /\ s.length \in Int /\ s.allocated \in Int /\ a.length \in Int /\ a.allocated \in Int
  BY DEF Streams, StreamAttributes
<1>4. DirType # DataType
  BY DEF DirType, DataType
<1>5. /\ IsCompressedData(Grown(s, a)) <=> IsCompressedData(s)
      /\ a.type = DirType => ~IsCompressedData(s) /\ ~IsCompressedData(a)
      /\ s.name = a.name => (IsCompressedData(s) <=> IsCompressedData(a))
  BY <1>1, <1>4 DEF IsCompressedData
<1> QED BY <1>1, <1>2, <1>3, <1>5 DEF Measure

\* A new stream is empty.
LEMMA NewHeadIs ==
  ASSUME NEW t, NEW f, NEW a
  PROVE  /\ NewHead(t, f, a).allocated = 0 /\ NewHead(t, f, a).accounted = FALSE
         /\ NewHead(t, f, a).length = 0
BY DEF NewHead, NewStream, NoStream

\* What a stream is after an attribute has been added to it.
LEMMA GrownHas ==
  ASSUME NEW s \in Streams, NEW a \in StreamAttributes
  PROVE  /\ Grown(s, a).accounted = s.accounted
         /\ a.type = DirType => Grown(s, a).treesize = 1
BY DEF Grown, Streams

\* A stream more weighs what its attribute does.
LEMMA WeighPush ==
  ASSUME NEW c \in Seq(Streams), NEW m, NEW all, NEW dirs, StreamsWeigh(c, m, all, dirs),
         IsFiniteSet(all), NEW y, y \notin all,
         \A x \in all \cup {y} : AttributeAt(m, x) \in StreamAttributes,
         NEW s \in Streams, ~s.accounted,
         \A q \in Measures : Measure(q, s) = Measure(q, AttributeAt(m, y)),
         s.type = DirType => s.treesize = 1 /\ DirsAt(c) = {} /\ dirs = {}
  PROVE  StreamsWeigh(<<s>> \o c, m, all \cup {y}, dirs \cup (IF s.type = DirType THEN {y} ELSE {}))
<1> DEFINE more == dirs \cup (IF s.type = DirType THEN {y} ELSE {})
<1>1. PICK d : d = <<s>> \o c
  OBVIOUS
<1>2. PICK n \in Nat : n = Len(c)
  OBVIOUS
<1>3. /\ d \in Seq(Streams) /\ Len(d) = n + 1 /\ DOMAIN c = 1 .. n
      /\ \A i \in 1 .. n + 1 : d[i] = IF i = 1 THEN s ELSE c[i - 1]
  BY <1>1, <1>2, RangePush
<1>4. DOMAIN d = 1 .. n + 1 /\ \A i \in 1 .. n + 1 : i # 1 => i - 1 \in 1 .. n
  BY <1>3
<1>5. \A q \in Measures : InStreams(q, d) = InPlaces(q, m, all \cup {y})
  <2> SUFFICES ASSUME NEW q \in Measures PROVE InStreams(q, d) = InPlaces(q, m, all \cup {y})
    OBVIOUS
  <2>1. InStreams(q, d) = InStreams(q, c) + Measure(q, s)
    BY <1>1, InStreamsPush
  <2>2. InPlaces(q, m, all \cup {y}) = InPlaces(q, m, all) + Measure(q, AttributeAt(m, y))
    BY InPlacesWith
  <2>3. InStreams(q, c) = InPlaces(q, m, all)
    BY DEF StreamsWeigh
  <2> QED BY <2>1, <2>2, <2>3
<1>6. ASSUME NEW j \in DOMAIN d PROVE ~d[j].accounted
  <2>1. CASE j = 1
    BY <1>3, <1>4, <2>1
  <2>2. CASE j # 1
    <3>1. d[j] = c[j - 1] /\ j - 1 \in DOMAIN c
      BY <1>3, <1>4, <2>2
    <3> QED BY <3>1 DEF StreamsWeigh
  <2> QED BY <2>1, <2>2
<1>7. ASSUME NEW j \in DirsAt(d)
      PROVE  /\ d[j].treesize = 1
             /\ \A q \in Measures : Measure(q, d[j]) = InPlaces(q, m, more)
  <2>0. j \in 1 .. n + 1 /\ d[j].type = DirType
    BY <1>4 DEF DirsAt
  <2>1. CASE j = 1
    <3>1. d[j] = s /\ s.type = DirType
      BY <1>3, <2>0, <2>1
    <3>2. PICK o : o = {}
      OBVIOUS
    <3>3. more = o \cup {y} /\ IsFiniteSet(o) /\ y \notin o
          /\ \A x \in o \cup {y} : AttributeAt(m, x) \in StreamAttributes
      BY <3>1, <3>2, FS_EmptySet
    <3>4. ASSUME NEW q \in Measures PROVE InPlaces(q, m, o \cup {y}) = Measure(q, AttributeAt(m, y))
      <4>1. InPlaces(q, m, o \cup {y}) = InPlaces(q, m, o) + Measure(q, AttributeAt(m, y))
            /\ InPlaces(q, m, {}) = 0
        BY ONLY <3>3, InPlacesWith
      <4>2. Measure(q, AttributeAt(m, y)) \in Int
        BY MeasureTyped
      <4> QED BY <3>2, <4>1, <4>2
    <3> QED BY <3>1, <3>3, <3>4
  <2>2. CASE j # 1
    <3>1. d[j] = c[j - 1] /\ j - 1 \in DirsAt(c)
      BY <1>3, <1>4, <2>0, <2>2 DEF DirsAt
    <3>2. more = dirs
      BY <3>1
    <3> QED BY <3>1, <3>2 DEF StreamsWeigh
  <2> QED BY <2>1, <2>2
<1> HIDE DEF more
<1>8. StreamsWeigh(d, m, all \cup {y}, more)
  BY <1>5, <1>6, <1>7 DEF StreamsWeigh
<1> QED BY <1>1, <1>8 DEF more

\* An index grows by what its next part weighs.
LEMMA WeighMerge ==
  ASSUME NEW c \in Seq(Streams), NEW m, NEW all, NEW dirs, StreamsWeigh(c, m, all, dirs),
         IsFiniteSet(all), dirs \subseteq all, NEW y, y \notin all,
         \A x \in all \cup {y} : AttributeAt(m, x) \in StreamAttributes,
         NEW j, DirsAt(c) = {j}, NEW s \in Streams, ~s.accounted, s.type = DirType, s.treesize = 1,
         \A q \in Measures : Measure(q, s) = Measure(q, c[j]) + Measure(q, AttributeAt(m, y))
  PROVE  StreamsWeigh([c EXCEPT ![j] = s], m, all \cup {y}, dirs \cup {y})
<1>1. j \in DOMAIN c /\ c[j].type = DirType /\ c[j] \in Streams
  BY DEF DirsAt
<1>2. PICK d : d = [c EXCEPT ![j] = s]
  OBVIOUS
<1>3. DOMAIN d = DOMAIN c /\ d[j] = s /\ \A i \in DOMAIN c \ {j} : d[i] = c[i]
  BY <1>1, <1>2
<1>4. DirsAt(d) = {j}
  BY <1>1, <1>3 DEF DirsAt
<1>5. IsFiniteSet(dirs) /\ y \notin dirs /\ \A x \in dirs \cup {y} : AttributeAt(m, x) \in StreamAttributes
  BY FS_Subset
<1>6. \A q \in Measures : InStreams(q, d) = InPlaces(q, m, all \cup {y})
  <2> SUFFICES ASSUME NEW q \in Measures PROVE InStreams(q, d) = InPlaces(q, m, all \cup {y})
    OBVIOUS
  <2>1. InStreams(q, d) = InStreams(q, c) + (Measure(q, s) - Measure(q, c[j])) /\ InStreams(q, c) \in Int
    <3>1. PICK i \in DOMAIN c : i = j
      BY <1>1
    <3>2. /\ InStreams(q, [c EXCEPT ![i] = s]) = InStreams(q, c) + (Measure(q, s) - Measure(q, c[i]))
          /\ InStreams(q, c) \in Int
      BY ONLY c \in Seq(Streams), i \in DOMAIN c, s \in Streams, InStreamsSet
    <3> QED BY <1>2, <3>1, <3>2
  <2>2. InPlaces(q, m, all \cup {y}) = InPlaces(q, m, all) + Measure(q, AttributeAt(m, y))
    BY InPlacesWith
  <2>3. InStreams(q, c) = InPlaces(q, m, all)
    BY DEF StreamsWeigh
  <2>4. Measure(q, c[j]) \in Int /\ Measure(q, AttributeAt(m, y)) \in Int
    BY <1>1, MeasureTyped
  <2>5. PICK p, r, z \in Int : p = InStreams(q, c) /\ r = Measure(q, c[j]) /\ z = Measure(q, AttributeAt(m, y))
    BY <2>1, <2>4
  <2>6. Measure(q, s) = r + z
    BY <2>5
  <2>7. InStreams(q, d) = p + ((r + z) - r)
    BY <2>1, <2>5, <2>6
  <2>8. InPlaces(q, m, all \cup {y}) = p + z
    BY <2>2, <2>3, <2>5
  <2> QED BY <2>5, <2>7, <2>8
<1>7. \A i \in DOMAIN d : ~d[i].accounted
  BY <1>3 DEF StreamsWeigh
<1>8. ASSUME NEW q \in Measures PROVE Measure(q, s) = InPlaces(q, m, dirs \cup {y})
  <2>1. InPlaces(q, m, dirs \cup {y}) = InPlaces(q, m, dirs) + Measure(q, AttributeAt(m, y))
    BY <1>5, InPlacesWith
  <2>2. Measure(q, c[j]) = InPlaces(q, m, dirs)
    BY DEF StreamsWeigh
  <2> QED BY <2>1, <2>2
<1>9. StreamsWeigh(d, m, all \cup {y}, dirs \cup {y})
  BY <1>3, <1>4, <1>6, <1>7, <1>8 DEF StreamsWeigh
<1> QED BY <1>2, <1>9

\* One more stream, whose attribute no stream came from yet: no two of data have one name.
LEMMA ApartPush ==
  ASSUME NEW x \in FileRecords, NEW m, ApartIn(m), NEW xs \in SUBSET Places(m), NEW f \in Frss,
         StreamsAre(x, m, DirsAmong(m, xs, f), OthersAmong(m, xs, f)), Apart(x.streams),
         NEW y \in StreamsAmong(m, Places(m), f), y \notin xs,
         NEW s \in Streams, s.type = AttributeAt(m, y).type, s.name = AttributeAt(m, y).name
  PROVE  Apart(<<s>> \o x.streams)
<1>1. PICK c \in Seq(Streams) : c = x.streams
  BY DEF FileRecords
<1>2. PICK n \in Nat : n = Len(c)
  OBVIOUS
<1>3. PICK d : d = <<s>> \o c
  OBVIOUS
<1>4. /\ Len(d) = n + 1 /\ DOMAIN c = 1 .. n /\ d \in Seq(Streams)
      /\ \A i \in 1 .. n + 1 : d[i] = IF i = 1 THEN s ELSE c[i - 1]
  BY <1>2, <1>3, RangePush
<1>5. DOMAIN d = 1 .. n + 1 /\ \A i \in 1 .. n + 1 : i # 1 => i - 1 \in 1 .. n
  BY <1>4
<1>6. ASSUME NEW i \in 1 .. n, c[i].type = DataType, s.type = DataType, c[i].name = s.name
      PROVE  FALSE
  <2> DEFINE k == c[i]
  <2>1. k \in {u \in Range(x.streams) : u.type # DirType}
    BY <1>1, <1>4, <1>6 DEF Range, DataType, DirType
  <2>2. <<k.type, k.name, k.length>> \in {<<u.type, u.name, u.length>> :
                                             u \in {v \in Range(x.streams) : v.type # DirType}}
    BY <2>1
  <2>3. PICK z \in OthersAmong(m, xs, f) :
           <<k.type, k.name, k.length>>
              = <<AttributeAt(m, z).type, AttributeAt(m, z).name, AttributeAt(m, z).length>>
    BY <2>2 DEF StreamsAre
  <2>4. k.type = AttributeAt(m, z).type /\ k.name = AttributeAt(m, z).name
    BY <2>3
  <2>5. z \in xs /\ z \in StreamsAmong(m, Places(m), f)
    BY DEF OthersAmong, StreamsAmong
  <2>6. z = y
    BY <1>6, <2>4, <2>5 DEF ApartIn
  <2> QED BY <2>5, <2>6
<1>7. ASSUME NEW i \in DOMAIN d, NEW j \in DOMAIN d,
             d[i].type = DataType, d[j].type = DataType, d[i].name = d[j].name
      PROVE  i = j
  <2>1. CASE i = 1 /\ j = 1
    BY <2>1
  <2>2. CASE i = 1 /\ j # 1
    BY <1>4, <1>5, <1>6, <1>7, <2>2
  <2>3. CASE i # 1 /\ j = 1
    BY <1>4, <1>5, <1>6, <1>7, <2>3
  <2>4. CASE i # 1 /\ j # 1
    <3>1. i - 1 \in DOMAIN c /\ j - 1 \in DOMAIN c /\ d[i] = c[i - 1] /\ d[j] = c[j - 1]
      BY <1>4, <1>5, <2>4
    <3>2. i - 1 = j - 1
      BY <1>1, <1>7, <3>1 DEF Apart
    <3> QED BY <1>5, <3>2
  <2> QED BY <2>1, <2>2, <2>3, <2>4
<1>8. Apart(d)
  BY <1>7 DEF Apart
<1> QED BY <1>1, <1>3, <1>8

\* One attribute: the sizes of its stream are those of its parts so far.
LEMMA AttributeWeighed ==
  ASSUME NEW t, Sound(t), NEW m \in [Frss -> MftRecords], NEW xs \in SUBSET Places(m),
         IsFiniteSet(xs), NEW x \in Places(m) \ xs, m[x[1]].base \in Slots(t),
         Accounts(Files(t), m, xs), Weighed(Files(t), m, xs)
  PROVE  Weighed(Files(AddAttribute(t, m[x[1]].base, AttributeAt(m, x))), m, xs \cup {x})
<1> DEFINE f == m[x[1]].base
           a == AttributeAt(m, x)
           u == AddAttribute(t, f, a)
           ys == xs \cup {x}
           of(v, g, zs) ==
             /\ StreamsWeigh(File(v, g).streams, m, StreamsAmong(m, zs, g), DirsAmong(m, zs, g))
             /\ ApartIn(m) => Apart(File(v, g).streams)
           isSize == a.kind = "stream" /\ a.primary
<1>1. /\ f \in Frss /\ a.kind \in {"name", "stream"}
      /\ a.kind = "name" => a \in NameAttributes
      /\ a.kind # "name" => a \in StreamAttributes
      /\ f \in Slots(t) /\ "name" # "stream"
  BY AttributeTyped
<1>2. \A v : \A g \in Frss : Files(v)[g] = File(v, g)
  BY DEF Files
<1>3. \A g \in Frss : of(t, g, xs)
  BY <1>2 DEF Weighed
<1>4. SUFFICES \A g \in Frss : of(u, g, ys)
  BY <1>2 DEF Weighed
<1>5. ASSUME NEW g \in Frss
      PROVE  /\ StreamsAmong(m, ys, g) = StreamsAmong(m, xs, g) \cup (IF g = f /\ isSize THEN {x} ELSE {})
             /\ DirsAmong(m, ys, g)
                  = DirsAmong(m, xs, g) \cup (IF g = f /\ isSize /\ a.type = DirType THEN {x} ELSE {})
  <2>1. StreamsAmong(m, ys, g) = StreamsAmong(m, xs, g) \cup (IF g = f /\ isSize THEN {x} ELSE {})
    BY DEF StreamsAmong
  <2> QED BY <2>1 DEF DirsAmong
<1>6. ASSUME NEW g \in Frss, File(u, g).streams = File(t, g).streams, g # f \/ ~isSize
      PROVE  of(u, g, ys)
  <2>1. StreamsAmong(m, ys, g) = StreamsAmong(m, xs, g) /\ DirsAmong(m, ys, g) = DirsAmong(m, xs, g)
    BY <1>5, <1>6
  <2> QED BY <1>3, <1>6, <2>1
<1>7. File(t, f) \in FileRecords /\ StreamsAre(File(t, f), m, DirsAmong(m, xs, f), OthersAmong(m, xs, f))
  BY <1>1, <1>2, FileTyped DEF Accounts
<1> HIDE DEF of, u, f, a, ys
<1>8. CASE a.kind = "name"
  <2>1. \A g \in Frss : File(u, g).streams = File(t, g).streams
    <3>1. CASE IsSkipped(a)
      <4>1. u = t
        BY <1>8, <3>1 DEF u, AddAttribute
      <4> QED BY <4>1
    <3>2. CASE ~IsSkipped(a)
      <4>1. u = AddName(t, f, a)
        BY <1>8, <3>2 DEF u, AddAttribute
      <4>2. a.name \in Strings \ {NoName} /\ a.parent \in Frss
        BY <1>1, <1>8 DEF NameAttributes, Strings
      <4>3. \A g \in Frss : File(u, g) = AfterName(t, f, a, g)
        BY <1>1, <4>1, <4>2, AddNameIs
      <4> QED BY <4>3 DEF AfterName, WithChild, Counted, WithName
    <3> QED BY <3>1, <3>2
  <2>2. ~isSize
    BY <1>1, <1>8
  <2> QED BY <1>6, <2>1, <2>2
<1>9. CASE a.kind # "name"
  <2>1. u = AddStream(t, f, a) /\ a \in StreamAttributes /\ a.kind = "stream"
    BY <1>1, <1>9 DEF u, AddAttribute
  <2>2. \A g \in Frss : File(u, g) = AfterStream(t, f, a, g)
    BY <1>1, <2>1, AddStreamIs
  <2>3. \A g \in Frss : g # f \/ ~a.primary => of(u, g, ys)
    BY <1>6, <2>2 DEF AfterStream
  <2>4. CASE a.primary
    <3> DEFINE all == StreamsAmong(m, xs, f)
               dirs == DirsAmong(m, xs, f)
    <3>1. PICK c \in Seq(Streams) : c = File(t, f).streams
      BY <1>7 DEF FileRecords
    <3>2. StreamsWeigh(c, m, all, dirs) /\ (ApartIn(m) => Apart(c))
      BY <1>1, <1>3, <3>1 DEF of
    <3>3. all \subseteq xs /\ dirs \subseteq all /\ x \notin all /\ IsFiniteSet(all)
      <4>1. all \subseteq xs /\ dirs \subseteq all
        BY DEF StreamsAmong, DirsAmong
      <4> QED BY <4>1, FS_Subset
    <3>4. \A y \in all \cup {x} : AttributeAt(m, y) \in StreamAttributes
      <4>1. ASSUME NEW y \in all PROVE AttributeAt(m, y) \in StreamAttributes
        <5>1. AttributeAt(m, y).kind = "stream" /\ y \in Places(m)
          BY <3>3 DEF StreamsAmong
        <5> QED BY <1>1, <5>1, AttributeTyped
      <4> QED BY <2>1, <4>1 DEF a
    <3>5. /\ StreamsAmong(m, ys, f) = all \cup {x}
          /\ DirsAmong(m, ys, f) = dirs \cup (IF a.type = DirType THEN {x} ELSE {})
      BY <1>1, <1>5, <2>1, <2>4
    <3>6. DirsAt(c) = DirPositions(t, f)
      BY <1>1, <3>1 DEF DirsAt, DirPositions, File
    <3>x. AttributeAt(m, x) = a /\ x \in StreamsAmong(m, Places(m), f)
      BY <2>1, <2>4 DEF a, f, StreamsAmong
    <3>7. CASE a.type = DirType /\ DirPositions(t, f) # {}
      <4>1. dirs # {}
        BY <1>7, <3>1, <3>6, <3>7 DEF StreamsAre
      <4>2. PICK j \in DOMAIN c : DirsAt(c) = {j}
        BY <1>7, <3>1, <4>1 DEF StreamsAre
      <4>3. Min(DirPositions(t, f)) \in DirPositions(t, f)
        BY <1>1, <2>1, <3>7, AddStreamIs
      <4>4. Min(DirPositions(t, f)) = j
        BY <3>6, <4>2, <4>3
      <4>5. PICK s : s = Grown(c[j], a)
        OBVIOUS
      <4>6. File(u, f).streams = [c EXCEPT ![j] = s]
        BY <1>1, <2>2, <2>4, <3>1, <3>7, <4>4, <4>5 DEF AfterStream, Resized
      <4>7. c[j] \in Streams /\ c[j].type = DirType /\ ~c[j].accounted
        BY <3>2, <4>2 DEF DirsAt, StreamsWeigh
      <4>8. s \in Streams /\ s.type = DirType /\ ~s.accounted /\ s.treesize = 1 /\ s.name = c[j].name
        BY <2>1, <3>7, <4>5, <4>7, GrownIs, GrownHas
      <4>9. \A q \in Measures : Measure(q, s) = Measure(q, c[j]) + Measure(q, AttributeAt(m, x))
        BY <2>1, <3>7, <3>x, <4>5, <4>7, MeasureGrows
      <4>10. StreamsWeigh([c EXCEPT ![j] = s], m, all \cup {x}, dirs \cup {x})
        BY <3>2, <3>3, <3>4, <4>2, <4>8, <4>9, WeighMerge
      <4>11. Apart(c) => Apart([c EXCEPT ![j] = s])
        BY <4>2, <4>7, <4>8 DEF Apart, DataType, DirType
      <4>12. of(u, f, ys)
        BY <3>2, <3>5, <3>7, <4>6, <4>10, <4>11 DEF of
      <4> QED BY <1>1, <2>3, <4>12
    <3>8. CASE ~(a.type = DirType /\ DirPositions(t, f) # {})
      <4> DEFINE h == NewHead(Zoned(t, a), f, a)
      <4>1. PICK s : s = Grown(h, a)
        OBVIOUS
      <4>2. h \in Streams /\ h.type = a.type /\ h.name = a.name /\ h.length = 0
        BY <1>1, <2>1, AddStreamIs
      <4>3. h.allocated = 0 /\ h.accounted = FALSE
        BY NewHeadIs
      <4>4. File(u, f).streams = <<s>> \o c
        BY <1>1, <2>2, <2>4, <3>1, <3>8, <4>1 DEF AfterStream, WithStream
      <4> HIDE DEF h
      <4>5. /\ s \in Streams /\ s.type = a.type /\ s.name = a.name /\ ~s.accounted
            /\ s.type = DirType => s.treesize = 1
        BY <2>1, <4>1, <4>2, <4>3, GrownIs, GrownHas
      <4>6. ASSUME NEW q \in Measures PROVE Measure(q, s) = Measure(q, AttributeAt(m, x))
        <5>1. Measure(q, s) = Measure(q, h) + Measure(q, a)
          BY <2>1, <4>1, <4>2, <4>3, MeasureGrows
        <5>2. Measure(q, h) = 0 /\ Measure(q, a) \in Int
          BY <2>1, <4>2, <4>3, MeasureTyped DEF Measure
        <5> QED BY <3>x, <5>1, <5>2
      <4>7. s.type = DirType => DirsAt(c) = {} /\ dirs = {}
        <5> SUFFICES ASSUME s.type = DirType PROVE DirsAt(c) = {} /\ dirs = {}
          OBVIOUS
        <5>1. DirsAt(c) = {}
          BY <3>6, <3>8, <4>5
        <5>2. dirs = {}
          BY <1>7, <3>1, <5>1 DEF StreamsAre
        <5> QED BY <5>1, <5>2
      <4>8. StreamsWeigh(<<s>> \o c, m, all \cup {x}, dirs \cup (IF s.type = DirType THEN {x} ELSE {}))
        BY <3>2, <3>3, <3>4, <4>5, <4>6, <4>7, WeighPush
      <4>9. ApartIn(m) => Apart(<<s>> \o c)
        <5> SUFFICES ASSUME ApartIn(m) PROVE Apart(<<s>> \o c)
          OBVIOUS
        <5>1. Apart(c)
          BY <3>2
        <5> QED BY <1>1, <1>7, <3>1, <3>x, <4>5, <5>1, ApartPush
      <4>10. of(u, f, ys)
        BY <3>5, <4>4, <4>5, <4>8, <4>9 DEF of
      <4> QED BY <1>1, <2>3, <4>10
    <3> QED BY <3>7, <3>8
  <2> QED BY <2>3, <2>4
<1> QED BY <1>8, <1>9

\* What holds between two records.
Loading(t, m, xs) ==
    /\ Sound(t) /\ xs \subseteq Places(m) /\ IsFiniteSet(xs)
    /\ Accounts(Files(t), m, xs)
    /\ ContiguousIn(m) => Totalled(t)
    /\ Weighed(Files(t), m, xs)

\* One record, of whose attributes none has been loaded: afterwards all are.
LEMMA LoadRecordIs ==
  ASSUME NEW t, NEW m \in [Frss -> MftRecords], NEW f \in Frss, NEW xs, Loading(t, m, xs),
         \A x \in xs : x[1] # f
  PROVE  /\ Loading(LoadRecord(t, m[f]), m, xs \cup PlacesIn(m, {f}))
         /\ Slots(t) \subseteq Slots(LoadRecord(t, m[f]))
         /\ m[f].inUse => m[f].base \in Slots(LoadRecord(t, m[f]))
<1> DEFINE r == m[f]
           n == Len(r.attributes)
           after == CHOOSE g : IsLoading(g, t, r, n)
<1>1. m[f] \in MftRecords
  OBVIOUS
<1>2. r.base \in Frss /\ n \in Nat /\ DOMAIN r.attributes = 1 .. n /\ r.inUse \in BOOLEAN
  BY <1>1 DEF MftRecords
<1>3. LoadRecord(t, r) = IF r.inUse THEN after[n] ELSE t
  BY DEF LoadRecord, IsLoading
<1>4. CASE ~r.inUse
  <2>1. xs \cup PlacesIn(m, {f}) = xs
    BY <1>4, PlacesOne
  <2> QED BY <1>3, <1>4, <2>1
<1>5. CASE r.inUse
  <2>1. PlacesIn(m, {f}) = {f} \X (1 .. n)
    BY <1>2, <1>5, PlacesOne
  <2>2. IsLoading(after, t, r, n)
    BY <1>2, LoadingExists
  <2>3. after = [k \in 0 .. n |-> IF k = 0 THEN At(t, r.base)
                                  ELSE AddAttribute(after[k - 1], r.base, r.attributes[k])]
    BY <2>2 DEF IsLoading
  <2> HIDE DEF after
  <2> DEFINE ys(k) == xs \cup ({f} \X (1 .. k))
             T == {k \in 0 .. n : /\ Slots(t) \cup {r.base} \subseteq Slots(after[k])
                               /\ Loading(after[k], m, ys(k))}
  <2>4. Files(At(t, r.base)) = Files(t) /\ Sound(At(t, r.base)) 
         /\ Slots(t) \cup {r.base} \subseteq Slots(At(t, r.base))
    BY <1>2, AtIs DEF Files, Loading
  <2>a. At(t, r.base).total = t.total
    <3>1. "total" \in DOMAIN t
      BY DEF Loading, Sound, Tables
    <3> QED BY <3>1, TotalKept DEF SameTotal
  <2>5. Places(m) = PlacesIn(m, Frss) /\ {f} \X (1 .. n) \subseteq Places(m)
    <3>1. PlacesIn(m, {f}) \subseteq Places(m)
      BY PlacesWithin
    <3> QED BY <2>1, <3>1 DEF Places
  <2>6. ASSUME NEW k \in 0 .. n, \A j \in 0 .. k - 1 : j \in T PROVE k \in T
    <3>1. CASE k = 0
      <4>1. ys(0) = xs
        OBVIOUS
      <4>2. after[0] = At(t, r.base)
        BY <1>2, <2>3
      <4>3. Loading(after[0], m, ys(0)) /\ Slots(t) \cup {r.base} \subseteq Slots(after[0])
        BY <2>4, <2>a, <4>1, <4>2 DEF Loading, Totalled
      <4> QED BY <3>1, <4>3
    <3>2. CASE k # 0
      <4>1. k - 1 \in 0 .. k - 1 /\ k - 1 \in 0 .. n /\ k \in 1 .. n
        BY <1>2, <3>2
      <4>2. k - 1 \in T
        BY <2>6, <4>1
      <4> DEFINE v == after[k - 1]
                 x == <<f, k>>
      <4>3. Slots(t) \cup {r.base} \subseteq Slots(v) /\ Loading(v, m, ys(k - 1))
        BY <4>2
      <4>4. after[k] = AddAttribute(v, r.base, r.attributes[k])
        BY <2>3, <3>2, <4>1
      <4>5. x \in Places(m) /\ x \notin ys(k - 1) /\ ys(k) = ys(k - 1) \cup {x}
        <5>1. x \in {f} \X (1 .. n)
          BY <4>1
        <5>2. x \notin xs
          BY <4>1
        <5>3. x \notin {f} \X (1 .. k - 1)
          BY <4>1
        <5>4. 1 .. k = (1 .. k - 1) \cup {k}
          BY <4>1
        <5>5. {f} \X (1 .. k) = ({f} \X (1 .. k - 1)) \cup {x}
          BY <5>4
        <5> QED BY <2>5, <5>1, <5>2, <5>3, <5>5
      <4>6. x[1] = f /\ AttributeAt(m, x) = r.attributes[k]
        BY DEF AttributeAt
      <4>e. /\ \A y \in ys(k - 1) : y[1] = f => y[2] \in DOMAIN r.attributes /\ y[2] < k
            /\ k \in DOMAIN r.attributes /\ x = <<f, k>>
        <5>1. \A y \in {f} \X (1 .. k - 1) : y[2] \in DOMAIN r.attributes /\ y[2] < k
          BY <1>2, <4>1
        <5> QED BY <1>2, <4>1, <5>1
      <4> HIDE DEF v, x, ys, r, n
      <4>7. /\ Sound(v) /\ ys(k - 1) \in SUBSET Places(m) /\ IsFiniteSet(ys(k - 1))
            /\ Accounts(Files(v), m, ys(k - 1))
        BY <4>3 DEF Loading
      <4>8. m[x[1]].base = r.base
        BY <4>6 DEF r
      <4>9. LET u == AddAttribute(v, m[x[1]].base, AttributeAt(m, x))
            IN /\ Sound(u) /\ Slots(v) \subseteq Slots(u)
               /\ Accounts(Files(u), m, ys(k - 1) \cup {x})
        BY <4>3, <4>5, <4>7, <4>8, AddAttributeIs
      <4>10. /\ Sound(after[k]) /\ Slots(v) \subseteq Slots(after[k])
             /\ Accounts(Files(after[k]), m, ys(k))
        BY <4>4, <4>5, <4>6, <4>8, <4>9
      <4>11. IsFiniteSet(ys(k)) /\ ys(k) \subseteq Places(m)
        BY <4>5, <4>7, FS_AddElement
      <4>t. ContiguousIn(m) => Totalled(after[k])
        <5>1. ContiguousIn(m) => Totalled(v)
          BY <4>3 DEF Loading
        <5>2. m[f].base \in Slots(v) /\ k \in DOMAIN m[f].attributes /\ <<f, k>> \in Places(m)
          BY <4>3, <4>5, <4>e DEF r
        <5>3. \A y \in ys(k - 1) : y[1] = f => y[2] \in DOMAIN m[f].attributes /\ y[2] < k
          BY <4>e DEF r
        <5>4. ContiguousIn(m) => Totalled(AddAttribute(v, m[f].base, m[f].attributes[k]))
          BY <4>7, <5>1, <5>2, <5>3, AttributeTotalled
        <5> QED BY <4>4, <5>4 DEF r
      <4>w. Weighed(Files(after[k]), m, ys(k))
        <5>1. Weighed(Files(v), m, ys(k - 1)) /\ m[x[1]].base \in Slots(v)
          BY <4>3, <4>8 DEF Loading
        <5>2. Weighed(Files(AddAttribute(v, m[x[1]].base, AttributeAt(m, x))), m, ys(k - 1) \cup {x})
          BY <4>5, <4>7, <5>1, AttributeWeighed
        <5> QED BY <4>4, <4>5, <4>6, <4>8, <5>2
      <4>12. Loading(after[k], m, ys(k)) /\ Slots(t) \cup {r.base} \subseteq Slots(after[k])
        BY <4>3, <4>10, <4>11, <4>t, <4>w DEF Loading
      <4> QED BY <4>12
    <3> QED BY <3>1, <3>2
  <2>e. n \in Nat
    BY <1>2
  <2> HIDE DEF T, n
  <2>7. n \in T
    BY ONLY <2>e, <2>6, UpTo
  <2>8. Loading(after[n], m, ys(n)) /\ Slots(t) \cup {r.base} \subseteq Slots(after[n])
    BY <2>7 DEF T
  <2> QED BY <1>3, <1>5, <2>1, <2>8 DEF after
<1> QED BY <1>2, <1>4, <1>5

IsLoadingAll(after, t, m, c, n) ==
    after = [k \in 0 .. n |-> IF k = 0 THEN t ELSE LoadRecord(after[k - 1], m[c[k]])]

\* The records of a chunk can be gone through one by one.
LEMMA LoadingAllExists ==
  ASSUME NEW t, NEW m, NEW c, NEW n \in Nat
  PROVE  \E after : IsLoadingAll(after, t, m, c, n)
<1> DEFINE T == {k \in 0 .. n : \E after : IsLoadingAll(after, t, m, c, k)}
<1>1. ASSUME NEW k \in 0 .. n, \A j \in 0 .. k - 1 : j \in T PROVE k \in T
  <2>1. CASE k = 0
    <3> DEFINE f == [i \in 0 .. 0 |-> t]
    <3>1. IsLoadingAll(f, t, m, c, 0)
      BY DEF IsLoadingAll
    <3> QED BY <2>1, <3>1
  <2>2. CASE k # 0
    <3>1. k - 1 \in 0 .. k - 1
      BY <2>2
    <3>2. PICK g : IsLoadingAll(g, t, m, c, k - 1)
      BY <1>1, <3>1
    <3>3. g = [i \in 0 .. k - 1 |-> IF i = 0 THEN t ELSE LoadRecord(g[i - 1], m[c[i]])]
      BY <3>2 DEF IsLoadingAll
    <3> DEFINE f == [i \in 0 .. k |-> IF i = 0 THEN t ELSE LoadRecord(g[i - 1], m[c[i]])]
    <3>4. ASSUME NEW i \in 0 .. k - 1 PROVE f[i] = g[i]
      <4>1. i \in 0 .. k
        OBVIOUS
      <4>2. PICK B : B = IF i = 0 THEN t ELSE LoadRecord(g[i - 1], m[c[i]])
        OBVIOUS
      <4>3. f[i] = B
        BY <4>1, <4>2
      <4>4. g[i] = B
        BY <3>3, <4>2
      <4> QED BY <4>3, <4>4
    <3>5. ASSUME NEW i \in 0 .. k, i # 0 PROVE f[i - 1] = g[i - 1]
      <4>1. i - 1 \in 0 .. k - 1
        BY <3>5
      <4> QED BY <3>4, <4>1
    <3>6. f = [i \in 0 .. k |-> IF i = 0 THEN t ELSE LoadRecord(f[i - 1], m[c[i]])]
      BY <3>5
    <3>7. IsLoadingAll(f, t, m, c, k)
      BY <3>6 DEF IsLoadingAll
    <3> QED BY <3>7
  <2> QED BY <2>1, <2>2
<1> HIDE DEF T
<1>2. n \in T
  BY <1>1, UpTo
<1> QED BY <1>2 DEF T

\* A chunk of records that have not been loaded: afterwards they all are.
LEMMA LoadRecordsIs ==
  ASSUME NEW t, NEW m \in [Frss -> MftRecords], NEW c \in Seq(Frss), IsInjective(c),
         NEW fs \in SUBSET Frss, fs \cap Range(c) = {}, Loading(t, m, PlacesIn(m, fs))
  PROVE  /\ Loading(LoadRecords(t, m, c), m, PlacesIn(m, fs \cup Range(c)))
         /\ Slots(t) \subseteq Slots(LoadRecords(t, m, c))
         /\ \A f \in Range(c) : m[f].inUse => m[f].base \in Slots(LoadRecords(t, m, c))
<1> DEFINE n == Len(c)
           after == CHOOSE g : IsLoadingAll(g, t, m, c, n)
           gs(k) == fs \cup {c[i] : i \in 1 .. k}
           bases(k) == {m[c[i]].base : i \in {j \in 1 .. k : m[c[j]].inUse}}
           T == {k \in 0 .. n : /\ Loading(after[k], m, PlacesIn(m, gs(k)))
                                 /\ Slots(t) \cup bases(k) \subseteq Slots(after[k])}
<1>1. n \in Nat /\ DOMAIN c = 1 .. n /\ \A i \in 1 .. n : c[i] \in Frss
  OBVIOUS
<1>2. LoadRecords(t, m, c) = after[n]
  BY DEF LoadRecords, IsLoadingAll
<1>3. IsLoadingAll(after, t, m, c, n)
  BY <1>1, LoadingAllExists
<1>4. after = [k \in 0 .. n |-> IF k = 0 THEN t ELSE LoadRecord(after[k - 1], m[c[k]])]
  BY <1>3 DEF IsLoadingAll
<1> HIDE DEF after, n
<1>5. ASSUME NEW k \in 0 .. n, \A j \in 0 .. k - 1 : j \in T PROVE k \in T
  <2>1. CASE k = 0
    <3>1. gs(0) = fs
      OBVIOUS
    <3>2. after[0] = t
      BY <1>1, <1>4
    <3>3. bases(0) = {}
      OBVIOUS
    <3> QED BY <2>1, <3>1, <3>2, <3>3
  <2>2. CASE k # 0
    <3>1. k - 1 \in 0 .. k - 1 /\ k - 1 \in 0 .. n /\ k \in 1 .. n
      BY <1>1, <2>2
    <3>2. /\ Loading(after[k - 1], m, PlacesIn(m, gs(k - 1)))
          /\ Slots(t) \cup bases(k - 1) \subseteq Slots(after[k - 1])
      BY <1>5, <3>1
    <3>3. after[k] = LoadRecord(after[k - 1], m[c[k]])
      BY <1>4, <2>2
    <3>4. c[k] \in Frss /\ c[k] \notin gs(k - 1) /\ gs(k) = gs(k - 1) \cup {c[k]}
      <4>1. c[k] \notin fs
        BY <1>1, <3>1 DEF Range
      <4>2. \A i \in 1 .. k - 1 : c[i] # c[k]
        BY <1>1, <3>1 DEF IsInjective
      <4>3. 1 .. k = (1 .. k - 1) \cup {k}
        BY <3>1
      <4> QED BY <1>1, <3>1, <4>1, <4>2, <4>3
    <3>b. bases(k) \subseteq bases(k - 1) \cup (IF m[c[k]].inUse THEN {m[c[k]].base} ELSE {})
      <4>1. 1 .. k = (1 .. k - 1) \cup {k}
        BY <3>1
      <4> QED BY <4>1
    <3> HIDE DEF gs, bases
    <3>5. \A x \in PlacesIn(m, gs(k - 1)) : x[1] # c[k]
      BY <3>4, PlacesWithin
    <3>6. /\ Loading(LoadRecord(after[k - 1], m[c[k]]), m,
                  PlacesIn(m, gs(k - 1)) \cup PlacesIn(m, {c[k]}))
          /\ Slots(after[k - 1]) \subseteq Slots(LoadRecord(after[k - 1], m[c[k]]))
          /\ m[c[k]].inUse => m[c[k]].base \in Slots(LoadRecord(after[k - 1], m[c[k]]))
      BY <3>2, <3>4, <3>5, LoadRecordIs
    <3>7. PlacesIn(m, gs(k)) = PlacesIn(m, gs(k - 1)) \cup PlacesIn(m, {c[k]})
      <4>0. gs(k - 1) \subseteq Frss
        <5>1. \A i \in 1 .. k - 1 : c[i] \in Frss
          BY <1>1, <3>1
        <5> QED BY <5>1 DEF gs
      <4>1. PICK a \in SUBSET Frss : a = gs(k - 1)
        BY <4>0
      <4>2. PICK d \in Frss : d = c[k]
        BY <3>4
      <4>3. PICK b \in SUBSET Frss : b = a \cup {d}
        OBVIOUS
      <4>4. PlacesIn(m, b) = PlacesIn(m, a) \cup PlacesIn(m, {d})
        BY <4>3, PlacesUnion
      <4>5. gs(k) = b
        BY <3>4, <4>1, <4>2, <4>3
      <4> QED BY <4>1, <4>2, <4>4, <4>5
    <3>8. Slots(t) \cup bases(k) \subseteq Slots(after[k])
      BY <3>2, <3>3, <3>6, <3>b
    <3>9. Loading(after[k], m, PlacesIn(m, gs(k)))
      BY <3>3, <3>6, <3>7
    <3> QED BY <3>8, <3>9
  <2> QED BY <2>1, <2>2
<1> HIDE DEF T
<1>e. n \in Nat
  BY <1>1
<1>6. n \in T
  BY ONLY <1>e, <1>5, UpTo
<1>7. Loading(after[n], m, PlacesIn(m, gs(n))) /\ Slots(t) \cup bases(n) \subseteq Slots(after[n])
  BY <1>6 DEF T
<1>8. gs(n) = fs \cup Range(c)
  BY <1>1 DEF Range
<1>9. \A f \in Range(c) : m[f].inUse => m[f].base \in bases(n)
  BY <1>1 DEF Range
<1> QED BY <1>2, <1>7, <1>8, <1>9 DEF n

\* The attributes of one file are finitely many.
LEMMA Finite ==
  ASSUME NEW m, NEW xs, IsFiniteSet(xs), NEW f
  PROVE  /\ IsFiniteSet(LinksAmong(m, xs, f)) /\ IsFiniteSet(StreamsAmong(m, xs, f))
         /\ IsFiniteSet(DirsAmong(m, xs, f)) /\ IsFiniteSet(OthersAmong(m, xs, f))
<1>1. /\ LinksAmong(m, xs, f) \subseteq xs /\ StreamsAmong(m, xs, f) \subseteq xs
      /\ DirsAmong(m, xs, f) \subseteq xs /\ OthersAmong(m, xs, f) \subseteq xs
  BY DEF LinksAmong, StreamsAmong, DirsAmong, OthersAmong
<1> QED BY <1>1, FS_Subset

\* The accounts of a file say what NamesHeld asks.
LEMMA NamesAccounted ==
  ASSUME NEW t, NEW m, NEW xs, IsFiniteSet(xs), Accounts(Files(t), m, xs)
  PROVE  NamesHeld(t, m, xs)
<1> SUFFICES ASSUME NEW f \in Frss
             PROVE  LET names == NamesOf(t, f)
                        links == LinksAmong(m, xs, f)
                    IN IF f \in Slots(t)
                       THEN /\ Len(names) = Rec(t, f).nameCount
                            /\ Len(names) = Cardinality(links)
                            /\ {<<l.name, l.parent>> : l \in Range(names)}
                                  = {<<AttributeAt(m, x).name, AttributeAt(m, x).parent>> : x \in links}
                       ELSE links = {}
  BY DEF NamesHeld
<1>1. NamesAre(File(t, f), m, LinksAmong(m, xs, f))
  BY DEF Accounts, Files
<1>2. CASE f \in Slots(t)
  BY <1>1, <1>2 DEF NamesAre, File
<1>3. CASE f \notin Slots(t)
  <2>1. Cardinality(LinksAmong(m, xs, f)) = 0
    BY <1>1, <1>3 DEF NamesAre, File, NoFile
  <2>2. LinksAmong(m, xs, f) = {}
    BY <2>1, Finite, FS_EmptySet
  <2> QED BY <1>3, <2>2
<1> QED BY <1>2, <1>3

\* The accounts of a file say what StreamsHeld and IndexesHeld ask.
LEMMA StreamsAccounted ==
  ASSUME NEW t, NEW m, NEW xs, IsFiniteSet(xs), Accounts(Files(t), m, xs)
  PROVE  /\ StreamsHeld(t, m, xs)
         /\ Slots(t) \subseteq Frss => IndexesHeld(t, m, xs)
<1>1. \A f \in Frss : StreamsAre(File(t, f), m, DirsAmong(m, xs, f), OthersAmong(m, xs, f))
  BY DEF Accounts, Files
<1>2. \A f \in Slots(t) : DirsAt(File(t, f).streams) = DirPositions(t, f)
                          /\ File(t, f).streams = StreamsOf(t, f)
                          /\ File(t, f).streamCount = Rec(t, f).streamCount
  BY DEF DirsAt, DirPositions, File
<1>3. ASSUME NEW f \in Frss
      PROVE  LET streams == StreamsOf(t, f)
                 dirs == DirsAmong(m, xs, f)
                 others == StreamsAmong(m, xs, f) \ dirs
                 few == IF dirs = {} THEN 0 ELSE 1
             IN IF f \in Slots(t)
                THEN /\ Len(streams) = Rec(t, f).streamCount
                     /\ Len(streams) = Cardinality(others) + few
                     /\ {<<s.type, s.name, s.length>> : s \in {u \in Range(streams) : u.type # DirType}}
                           = {<<AttributeAt(m, x).type, AttributeAt(m, x).name, AttributeAt(m, x).length>> :
                                 x \in others}
                     /\ Cardinality(DirPositions(t, f)) = few
                ELSE dirs \cup others = {}
  <2> DEFINE dirs == DirsAmong(m, xs, f)
             others == OthersAmong(m, xs, f)
             few == IF dirs = {} THEN 0 ELSE 1
  <2>0. others = StreamsAmong(m, xs, f) \ dirs
    BY DEF OthersAmong
  <2>1. CASE f \in Slots(t)
    <3>1. DirPositions(t, f) = {} \/ \E j : DirPositions(t, f) = {j}
      BY <1>1, <1>2, <2>1 DEF StreamsAre
    <3>2. Cardinality(DirPositions(t, f)) = few
      <4>1. CASE dirs = {}
        BY <4>1, <1>1, <1>2, <2>1, FS_EmptySet DEF StreamsAre
      <4>2. CASE dirs # {}
        <5>1. PICK j : DirPositions(t, f) = {j}
          BY <4>2, <1>1, <1>2, <2>1 DEF StreamsAre
        <5> QED BY <4>2, <5>1, FS_Singleton
      <4> QED BY <4>1, <4>2
    <3>3. /\ Len(StreamsOf(t, f)) = Rec(t, f).streamCount
          /\ Len(StreamsOf(t, f)) = Cardinality(others) + few
          /\ {<<s.type, s.name, s.length>> : s \in {u \in Range(StreamsOf(t, f)) : u.type # DirType}}
                           = {<<AttributeAt(m, x).type, AttributeAt(m, x).name, AttributeAt(m, x).length>> :
                                 x \in others}
      BY <1>1, <1>2, <2>1 DEF StreamsAre
    <3> HIDE DEF dirs, others, few
    <3> QED BY <2>0, <2>1, <3>2, <3>3 DEF dirs, few
  <2>2. CASE f \notin Slots(t)
    <3>1. File(t, f).streams = <<>>
      BY <2>2 DEF File, NoFile
    <3>2. 0 = Cardinality(others) + few /\ IsFiniteSet(others)
      BY <1>1, <3>1, Finite DEF StreamsAre
    <3>3. Cardinality(others) \in Nat
      BY <3>2, FS_CardinalityType
    <3>4. Cardinality(others) = 0 /\ dirs = {}
      BY <3>2, <3>3
    <3>5. others = {}
      BY <3>2, <3>4, FS_EmptySet
    <3> QED BY <2>0, <2>2, <3>4, <3>5
  <2> QED BY <2>1, <2>2
<1>4. ASSUME NEW f \in Slots(t), f \in Frss, NEW j \in DirPositions(t, f)
      PROVE  StreamsOf(t, f)[j].length = LengthOf(m, DirsAmong(m, xs, f))
  <2>1. DirsAt(File(t, f).streams) = DirPositions(t, f) /\ File(t, f).streams = StreamsOf(t, f)
    BY <1>2
  <2> QED BY <1>1, <1>4, <2>1 DEF StreamsAre
<1> QED BY <1>3, <1>4 DEF StreamsHeld, IndexesHeld

\* The accounts of all files together: child entries and names belong to each other.
LEMMA ChildrenAccounted ==
  ASSUME NEW t, NEW m, NEW xs, Slots(t) \subseteq Frss, Accounts(Files(t), m, xs)
  PROVE  ChildrenLead(t)
<1>1. \A f \in Frss \ Slots(t) : NamedIn(File(t, f), f) = {} /\ \A p : LeadsOf(File(t, f), f, p) = {}
  BY DEF File, NoFile, NamedIn, LeadsOf
<1> SUFFICES ASSUME NEW p \in Slots(t)
             PROVE  LET entries == {<<e.record, e.nameIndex>> : e \in Range(ChildrenOf(t, p))}
                        named(f) == {j \in DOMAIN NamesOf(t, f) : NamesOf(t, f)[j].parent = p}
                    IN /\ Len(ChildrenOf(t, p)) = Cardinality(entries)
                       /\ entries = UNION {{<<f, Rec(t, f).nameCount - j>> : j \in named(f)} :
                                              f \in Slots(t) \ {p}}
  BY DEF ChildrenLead
<1>2. ChildrenAre(Files(t), p)
  BY DEF Accounts
<1> DEFINE entries == {<<e.record, e.nameIndex>> : e \in Range(ChildrenOf(t, p))}
           named(f) == {j \in DOMAIN NamesOf(t, f) : NamesOf(t, f)[j].parent = p}
           leads(f) == {<<f, Rec(t, f).nameCount - j>> : j \in named(f)}
<1>3. Led(Files(t)[p]) = entries /\ Files(t)[p].children = ChildrenOf(t, p)
  BY DEF Led, Files, File
<1>4. \A f \in Slots(t) : LeadsOf(Files(t)[f], f, p) = leads(f)
  BY DEF LeadsOf, NamedIn, Files, File
<1>5. \A f \in Frss \ Slots(t) : LeadsOf(Files(t)[f], f, p) = {}
  BY <1>1 DEF Files
<1>6. /\ Len(ChildrenOf(t, p)) = Cardinality(entries)
      /\ entries = UNION {LeadsOf(Files(t)[f], f, p) : f \in Frss \ {p}}
  BY <1>2, <1>3 DEF ChildrenAre
<1> HIDE DEF leads, entries
<1>7. UNION {LeadsOf(Files(t)[f], f, p) : f \in Frss \ {p}} = UNION {leads(f) : f \in Slots(t) \ {p}}
  BY <1>4, <1>5
<1> QED BY <1>6, <1>7 DEF leads, entries

\* The empty table accounts for nothing.
LEMMA EmptyAccounts ==
  ASSUME NEW m
  PROVE  Loading(EmptyTable(Frss, Reserved), m, {})
<1> DEFINE t == EmptyTable(Frss, Reserved)
<1>1. t \in Tables
  BY VolumesAssumption DEF EmptyTable, Tables, Nil
<1>2. Slots(t) = {} /\ t.lookup = [f \in Frss |-> 0] /\ Len(t.records) = 0
  BY DEF EmptyTable, Slots, Nil
<1>3. Sound(t)
  <2>1. \A v \in {t.nameinfos, t.streaminfos, t.childinfos} : Len(v) = 0
    BY DEF EmptyTable
  <2>2. WellFormed(t)
    BY <1>2, <2>1 DEF WellFormed
  <2> QED BY <1>1, <1>2, <2>2 DEF Sound
<1>4. \A f \in Frss : Files(t)[f] = NoFile
  BY <1>2 DEF Files, File
<1> HIDE DEF t
<1>5. ASSUME NEW f \in Frss
      PROVE  /\ LinksAmong(m, {}, f) = {} /\ DirsAmong(m, {}, f) = {} /\ OthersAmong(m, {}, f) = {}
  BY DEF LinksAmong, DirsAmong, OthersAmong, StreamsAmong
<1>6. ASSUME NEW f \in Frss PROVE NamesAre(NoFile, m, {})
  <2>1. Range(NoFile.names) = {}
    BY DEF Range, NoFile
  <2> QED BY <2>1, FS_EmptySet DEF NamesAre, NoFile
<1>7. ASSUME NEW f \in Frss PROVE StreamsAre(NoFile, m, {}, {})
  <2>1. Range(NoFile.streams) = {} /\ DirsAt(NoFile.streams) = {}
    BY DEF Range, NoFile, DirsAt
  <2> QED BY <2>1, FS_EmptySet DEF StreamsAre, NoFile
<1>8. ASSUME NEW f \in Frss PROVE ChildrenAre(Files(t), f)
  <2>1. Led(NoFile) = {}
    BY DEF Range, NoFile, Led
  <2>2. \A g, p : LeadsOf(NoFile, g, p) = {}
    BY DEF LeadsOf, NamedIn, NoFile
  <2>3. \A g \in Frss \ {f} : LeadsOf(Files(t)[g], g, f) = {}
    BY <1>4, <2>2
  <2>4. UNION {LeadsOf(Files(t)[g], g, f) : g \in Frss \ {f}} = {}
    BY <2>3
  <2>5. Len(NoFile.children) = 0
    BY DEF NoFile
  <2>6. Led(Files(t)[f]) = {} /\ Len(Files(t)[f].children) = 0
    BY <1>4, <2>1, <2>5
  <2> QED BY <2>4, <2>6, FS_EmptySet DEF ChildrenAre
<1>9. Accounts(Files(t), m, {})
  BY <1>4, <1>5, <1>6, <1>7, <1>8 DEF Accounts
<1>10. Totalled(t)
  <2>1. \A f \in Frss : DOMAIN Files(t)[f].names = {}
    BY <1>4 DEF NoFile
  <2>2. PairsOf(Files(t)) = {}
    BY <2>1 DEF PairsOf
  <2>3. t.total = 0
    BY DEF t, EmptyTable
  <2> QED BY <2>2, <2>3, FS_EmptySet DEF Totalled
<1>11. Weighed(Files(t), m, {})
  <2> SUFFICES ASSUME NEW f \in Frss
               PROVE  /\ StreamsWeigh(NoFile.streams, m, {}, {})
                      /\ Apart(NoFile.streams)
    BY <1>4, <1>5 DEF Weighed, StreamsAmong
  <2>1. NoFile.streams = <<>> /\ DOMAIN <<>> = {} /\ DirsAt(<<>>) = {}
    BY DEF NoFile, DirsAt
  <2>2. \A q : InStreams(q, <<>>) = 0
    BY SumUnfold, FS_EmptySet DEF InStreams
  <2>3. \A q : InPlaces(q, m, {}) = 0
    BY SumUnfold, FS_EmptySet DEF InPlaces
  <2> QED BY <2>1, <2>2, <2>3 DEF StreamsWeigh, Apart
<1> QED BY <1>3, <1>9, <1>10, <1>11, FS_EmptySet DEF Loading, t

\* The preprocessor changes sizes of streams, and the lengths of $I30 streams only.
Alike(a, b) ==
    /\ b = [type |-> a.type, name |-> a.name, next |-> a.next, accounted |-> b.accounted,
            length |-> b.length, allocated |-> b.allocated, bulkiness |-> b.bulkiness,
            treesize |-> b.treesize]
    /\ a.type # DirType => b.length = a.length

AlikeRecords(q, r) ==
    /\ r = [nameCount |-> q.nameCount, streamCount |-> q.streamCount, firstChild |-> q.firstChild,
            firstName |-> q.firstName, firstStream |-> r.firstStream]
    /\ Alike(q.firstStream, r.firstStream)

Shaped(t, u) ==
    /\ u = [lookup |-> t.lookup, records |-> u.records, nameinfos |-> t.nameinfos,
            streaminfos |-> u.streaminfos, childinfos |-> t.childinfos, total |-> t.total,
            reserved |-> t.reserved]
    /\ DOMAIN u.records = 1 .. Len(t.records)
    /\ u.records = [i \in 1 .. Len(t.records) |-> u.records[i]]
    /\ \A i \in 1 .. Len(t.records) : AlikeRecords(t.records[i], u.records[i])
    /\ DOMAIN u.streaminfos = 1 .. Len(t.streaminfos)
    /\ u.streaminfos = [i \in 1 .. Len(t.streaminfos) |-> u.streaminfos[i]]
    /\ \A i \in 1 .. Len(t.streaminfos) : Alike(t.streaminfos[i], u.streaminfos[i])

\* A stream is like itself.
LEMMA AlikeSelf ==
  ASSUME NEW s \in Streams
  PROVE  Alike(s, s)
BY DEF Alike, Streams

\* The preprocessor starts with the table as it was loaded.
LEMMA ShapedSelf ==
  ASSUME NEW t \in Tables
  PROVE  Shaped(t, t)
<1>1. t.records \in Seq(Records) /\ t.streaminfos \in Seq(Streams)
  BY DEF Tables
<1>2. \A i \in 1 .. Len(t.streaminfos) : Alike(t.streaminfos[i], t.streaminfos[i])
  BY <1>1, AlikeSelf
<1>3. ASSUME NEW r \in Records PROVE AlikeRecords(r, r)
  <2>1. Alike(r.firstStream, r.firstStream)
    BY AlikeSelf DEF Records
  <2>2. r = [nameCount |-> r.nameCount, streamCount |-> r.streamCount, firstChild |-> r.firstChild,
             firstName |-> r.firstName, firstStream |-> r.firstStream]
    BY DEF Records
  <2> QED BY <2>1, <2>2 DEF AlikeRecords
<1>4. \A i \in 1 .. Len(t.records) : AlikeRecords(t.records[i], t.records[i])
  BY <1>1, <1>3
<1>5. t = [lookup |-> t.lookup, records |-> t.records, nameinfos |-> t.nameinfos,
            streaminfos |-> t.streaminfos, childinfos |-> t.childinfos, total |-> t.total,
            reserved |-> t.reserved]
  BY DEF Tables
<1> QED BY <1>1, <1>2, <1>4, <1>5 DEF Shaped

\* A stream in the place of one it is like, wherever that is.
LEMMA ShapedSet ==
  ASSUME NEW t, NEW u, Shaped(t, u), NEW f, NEW p, NEW s,
         \A a : Alike(a, StreamAt(u, f, p)) => Alike(a, s)
  PROVE  Shaped(t, SetStream(u, f, p, s))
<1> DEFINE v == SetStream(u, f, p, s)
           n == Len(t.records)
           k == Len(t.streaminfos)
<1>1. /\ u = [lookup |-> t.lookup, records |-> u.records, nameinfos |-> t.nameinfos,
            streaminfos |-> u.streaminfos, childinfos |-> t.childinfos, total |-> t.total,
            reserved |-> t.reserved]
      /\ u.records = [i \in 1 .. n |-> u.records[i]]
      /\ \A i \in 1 .. n : AlikeRecords(t.records[i], u.records[i])
      /\ u.streaminfos = [i \in 1 .. k |-> u.streaminfos[i]]
      /\ \A i \in 1 .. k : Alike(t.streaminfos[i], u.streaminfos[i])
      /\ DOMAIN u.records = 1 .. n /\ DOMAIN u.streaminfos = 1 .. k
  BY DEF Shaped
<1>2. CASE p = InRecord
  <2> DEFINE q == Rec(u, f)
             j == u.lookup[f]
             r == [q EXCEPT !.firstStream = s]
             rs == [u.records EXCEPT ![j] = r]
  <2>1. StreamAt(u, f, p) = q.firstStream
    BY <1>2 DEF StreamAt
  <2>2. v = [u EXCEPT !.records = rs]
    BY <1>2 DEF SetStream, SetRec, Rec
  <2>3. rs = [i \in 1 .. n |-> IF i = j THEN r ELSE u.records[i]]
    BY <1>1
  <2>4. ASSUME NEW i \in 1 .. n PROVE AlikeRecords(t.records[i], rs[i])
    <3>1. CASE i # j
      BY <1>1, <2>3, <3>1
    <3>2. CASE i = j
      <4>1. q = u.records[i] /\ rs[i] = r
        BY <2>3, <3>2 DEF Rec
      <4>2. PICK a : a = t.records[i]
        OBVIOUS
      <4>3. AlikeRecords(a, q)
        BY <1>1, <4>1, <4>2
      <4>4. Alike(a.firstStream, s)
        BY <2>1, <4>3 DEF AlikeRecords
      <4>5. q = [nameCount |-> a.nameCount, streamCount |-> a.streamCount,
                 firstChild |-> a.firstChild, firstName |-> a.firstName,
                 firstStream |-> q.firstStream]
        BY <4>3 DEF AlikeRecords
      <4>6. r = [nameCount |-> a.nameCount, streamCount |-> a.streamCount,
                 firstChild |-> a.firstChild, firstName |-> a.firstName, firstStream |-> s]
        <5>1. PICK x : x = q
          OBVIOUS
        <5>2. x = [nameCount |-> a.nameCount, streamCount |-> a.streamCount,
                 firstChild |-> a.firstChild, firstName |-> a.firstName,
                 firstStream |-> x.firstStream]
          BY <4>5, <5>1
        <5>3. [x EXCEPT !.firstStream = s] = [nameCount |-> a.nameCount, streamCount |-> a.streamCount,
                 firstChild |-> a.firstChild, firstName |-> a.firstName, firstStream |-> s]
          BY <5>2
        <5> QED BY <5>1, <5>3
      <4> HIDE DEF r
      <4>7. r.firstStream = s
        BY <4>6
      <4> QED BY <4>1, <4>2, <4>4, <4>6, <4>7 DEF AlikeRecords
    <3> QED BY <3>1, <3>2
  <2> HIDE DEF rs
  <2>5. v = [lookup |-> t.lookup, records |-> rs, nameinfos |-> t.nameinfos,
            streaminfos |-> u.streaminfos, childinfos |-> t.childinfos, total |-> t.total,
            reserved |-> t.reserved]
    BY <1>1, <2>2
  <2>6. DOMAIN rs = 1 .. n /\ rs = [i \in 1 .. n |-> rs[i]]
    BY <2>3
  <2> HIDE DEF v
  <2>7. v.records = rs /\ v.streaminfos = u.streaminfos
    BY <2>5
  <2>8. Shaped(t, v)
    BY <1>1, <2>4, <2>5, <2>6, <2>7 DEF Shaped
  <2> QED BY <2>8 DEF v
<1>3. CASE p # InRecord
  <2> DEFINE rs == [u.streaminfos EXCEPT ![p] = s]
  <2>1. StreamAt(u, f, p) = u.streaminfos[p]
    BY <1>3 DEF StreamAt
  <2>2. v = [u EXCEPT !.streaminfos = rs]
    BY <1>3 DEF SetStream
  <2>3. rs = [i \in 1 .. k |-> IF i = p THEN s ELSE u.streaminfos[i]]
    BY <1>1
  <2>4. ASSUME NEW i \in 1 .. k PROVE Alike(t.streaminfos[i], rs[i])
    BY <1>1, <2>1, <2>3
  <2> HIDE DEF rs
  <2>5. v = [lookup |-> t.lookup, records |-> u.records, nameinfos |-> t.nameinfos,
            streaminfos |-> rs, childinfos |-> t.childinfos, total |-> t.total,
            reserved |-> t.reserved]
    <3>1. PICK a, b : a = u.records /\ b = u.streaminfos
      OBVIOUS
    <3>2. u = [lookup |-> t.lookup, records |-> a, nameinfos |-> t.nameinfos,
               streaminfos |-> b, childinfos |-> t.childinfos, total |-> t.total,
               reserved |-> t.reserved]
      BY <1>1, <3>1
    <3>3. [u EXCEPT !.streaminfos = rs]
             = [lookup |-> t.lookup, records |-> a, nameinfos |-> t.nameinfos,
                streaminfos |-> rs, childinfos |-> t.childinfos, total |-> t.total,
                reserved |-> t.reserved]
      BY ONLY <3>2
    <3> QED BY <2>2, <3>1, <3>3
  <2>6. DOMAIN rs = 1 .. k /\ rs = [i \in 1 .. k |-> rs[i]]
    BY <2>3
  <2> HIDE DEF v
  <2>7. v.streaminfos = rs /\ v.records = u.records
    BY <2>5
  <2>8. Shaped(t, v)
    BY <1>1, <2>4, <2>5, <2>6, <2>7 DEF Shaped
  <2> QED BY <2>8 DEF v
<1> QED BY <1>2, <1>3

\* Sizes added to an $I30 stream leave a stream like the one before.
LEMMA AlikeGrown ==
  ASSUME NEW a, NEW b, Alike(a, b), NEW l, NEW c, NEW d, NEW e, b.type = DirType
  PROVE  /\ Alike(a, [b EXCEPT !.length = l, !.allocated = c, !.bulkiness = d, !.treesize = e])
<1>1. b = [type |-> a.type, name |-> a.name, next |-> a.next, accounted |-> b.accounted,
            length |-> b.length, allocated |-> b.allocated, bulkiness |-> b.bulkiness,
            treesize |-> b.treesize]
  BY DEF Alike
<1>2. a.type = DirType
  BY <1>1
<1> DEFINE x == [b EXCEPT !.length = l, !.allocated = c, !.bulkiness = d, !.treesize = e]
<1>3. x = [type |-> a.type, name |-> a.name, next |-> a.next, accounted |-> b.accounted,
           length |-> l, allocated |-> c, bulkiness |-> d, treesize |-> e]
  <2>1. PICK p, q, r, s, w : /\ p = b.accounted /\ q = b.length /\ r = b.allocated
                             /\ s = b.bulkiness /\ w = b.treesize
    OBVIOUS
  <2>2. b = [type |-> a.type, name |-> a.name, next |-> a.next, accounted |-> p,
             length |-> q, allocated |-> r, bulkiness |-> s, treesize |-> w]
    BY <1>1, <2>1
  <2> PICK T, N, O : T = a.type /\ N = a.name /\ O = a.next
    OBVIOUS
  <2>3. b \in [type : {T}, name : {N}, next : {O}, accounted : {p}, length : {q, l},
               allocated : {r, c}, bulkiness : {s, d}, treesize : {w, e}]
    BY <2>2
  <2>4. x \in [type : {T}, name : {N}, next : {O}, accounted : {p}, length : {l},
               allocated : {c}, bulkiness : {d}, treesize : {e}]
    BY ONLY <2>3
  <2> HIDE DEF x
  <2>5. x = [type |-> T, name |-> N, next |-> O, accounted |-> p,
             length |-> l, allocated |-> c, bulkiness |-> d, treesize |-> e]
    BY ONLY <2>4
  <2> QED BY <2>1, <2>5
<1> HIDE DEF x
<1>4. x.accounted = b.accounted /\ x.length = l /\ x.allocated = c /\ x.bulkiness = d /\ x.treesize = e
  BY <1>3
<1>5. Alike(a, x)
  BY <1>2, <1>3, <1>4 DEF Alike
<1> QED BY <1>5 DEF x

\* So do the mark of a stream that has been counted and a share of the slack.
LEMMA AlikeMarked ==
  ASSUME NEW a, NEW b, Alike(a, b), NEW c
  PROVE  /\ Alike(a, [b EXCEPT !.accounted = c]) /\ Alike(a, [b EXCEPT !.allocated = c])
<1>1. b = [type |-> a.type, name |-> a.name, next |-> a.next, accounted |-> b.accounted,
            length |-> b.length, allocated |-> b.allocated, bulkiness |-> b.bulkiness,
            treesize |-> b.treesize]
      /\ (a.type # DirType => b.length = a.length)
  BY DEF Alike
<1> DEFINE x == [b EXCEPT !.accounted = c]
           y == [b EXCEPT !.allocated = c]
<1>2. x = [type |-> a.type, name |-> a.name, next |-> a.next, accounted |-> c,
           length |-> b.length, allocated |-> b.allocated, bulkiness |-> b.bulkiness,
           treesize |-> b.treesize]
  BY <1>1
<1>3. y = [type |-> a.type, name |-> a.name, next |-> a.next, accounted |-> b.accounted,
           length |-> b.length, allocated |-> c, bulkiness |-> b.bulkiness,
           treesize |-> b.treesize]
  BY <1>1
<1> HIDE DEF x, y
<1>4. /\ x.accounted = c /\ x.length = b.length /\ x.allocated = b.allocated
      /\ x.bulkiness = b.bulkiness /\ x.treesize = b.treesize
  BY <1>2
<1>5. /\ y.accounted = b.accounted /\ y.length = b.length /\ y.allocated = c
      /\ y.bulkiness = b.bulkiness /\ y.treesize = b.treesize
  BY <1>3
<1>6. Alike(a, x)
  BY <1>1, <1>2, <1>4 DEF Alike
<1>7. Alike(a, y)
  BY <1>1, <1>3, <1>5 DEF Alike
<1> QED BY <1>6, <1>7 DEF x, y

IsSum(acc) ==
    acc = [table |-> acc.table, size |-> acc.size, default |-> acc.default,
           compressed |-> acc.compressed, merged |-> acc.merged]

\* One stream of a call: sizes change, the shape of the table does not.
LEMMA StreamStepShaped ==
  ASSUME NEW t, NEW acc, Shaped(t, acc.table), NEW f, NEW p, NEW i, NEW n, NEW below
  PROVE  LET next == StreamStep(acc, f, p, i, n, below)
         IN Shaped(t, next.table) /\ IsSum(next)
<1> DEFINE k == StreamAt(acc.table, f, p)
           next == StreamStep(acc, f, p, i, n, below)
           grown == [k EXCEPT !.length = @ + below.length, !.allocated = @ + below.allocated,
                              !.bulkiness = @ + below.bulkiness, !.treesize = @ + below.treesize]
<1>1. next.table = IF k.type = DirType THEN SetStream(acc.table, f, p, grown) ELSE acc.table
  BY DEF StreamStep
<1>2. IsSum(next)
  BY DEF StreamStep, IsSum
<1>3. CASE k.type = DirType
  <2>1. \A a : Alike(a, k) => Alike(a, grown)
    BY <1>3, AlikeGrown
  <2> HIDE DEF grown
  <2>2. Shaped(t, SetStream(acc.table, f, p, grown))
    BY <2>1, ShapedSet
  <2> QED BY <1>1, <1>2, <1>3, <2>2
<1> QED BY <1>1, <1>2, <1>3

\* Neither does it where the sizes of compressed streams are merged.
LEMMA MergeShaped ==
  ASSUME NEW t, NEW acc, Shaped(t, acc.table), IsSum(acc), NEW f, NEW i, NEW n
  PROVE  Shaped(t, MergeCompressed(acc, f, i, n).table)
<1>1. CASE acc.compressed = NoPlace \/ acc.default = NoPlace
  BY <1>1 DEF MergeCompressed
<1>2. CASE ~(acc.compressed = NoPlace \/ acc.default = NoPlace)
  <2> DEFINE c == StreamAt(acc.table, f, acc.compressed)
             marked == SetStream(acc.table, f, acc.compressed, Accounted(c))
             d == StreamAt(marked, f, acc.default)
             sum == d.allocated + c.allocated
             last == SetStream(marked, f, acc.default, [d EXCEPT !.allocated = sum])
  <2>1. \A a : Alike(a, c) => Alike(a, Accounted(c))
    BY AlikeMarked DEF Accounted
  <2>2. Shaped(t, marked)
    BY <2>1, ShapedSet
  <2>3. \A a : Alike(a, d) => Alike(a, [d EXCEPT !.allocated = sum])
    BY AlikeMarked
  <2> HIDE DEF marked
  <2>4. Shaped(t, last)
    BY <2>2, <2>3, ShapedSet
  <2>5. MergeCompressed(acc, f, i, n)
           = [acc EXCEPT !.table = last, !.size.allocated = @ - acc.merged + Share(sum, i, n)]
    BY <1>2 DEF MergeCompressed, marked
  <2>6. "table" \in DOMAIN acc
    BY DEF IsSum
  <2> HIDE DEF last
  <2>7. MergeCompressed(acc, f, i, n).table = last
    BY <2>5, <2>6
  <2> QED BY <2>4, <2>7
<1> QED BY <1>1, <1>2

\* What like streams have in common.
LEMMA AlikeHas ==
  ASSUME NEW a, NEW b, Alike(a, b)
  PROVE  /\ b.type = a.type /\ b.name = a.name /\ b.next = a.next
         /\ a.type # DirType => b.length = a.length
BY DEF Alike

\* What the preprocessor leaves of a loaded table.
LEMMA ShapedHas ==
  ASSUME NEW t, Sound(t), NEW u, Shaped(t, u)
  PROVE  /\ WellFormed(u) /\ Slots(u) = Slots(t)
         /\ \A f \in Slots(t) :
               /\ NamesOf(u, f) = NamesOf(t, f) /\ ChildrenOf(u, f) = ChildrenOf(t, f)
               /\ Rec(u, f).nameCount = Rec(t, f).nameCount
               /\ Rec(u, f).streamCount = Rec(t, f).streamCount
               /\ StreamPlaces(u, f) = StreamPlaces(t, f)
               /\ \A p \in Range(StreamPlaces(t, f)) : Alike(StreamAt(t, f, p), StreamAt(u, f, p))
<1>0. /\ t.records \in Seq(Records) /\ t.streaminfos \in Seq(Streams)
      /\ t.nameinfos \in Seq(Links) /\ t.childinfos \in Seq(Children)
      /\ Ending(t.streaminfos)
  BY SoundHas
<1>1. /\ u = [lookup |-> t.lookup, records |-> u.records, nameinfos |-> t.nameinfos,
            streaminfos |-> u.streaminfos, childinfos |-> t.childinfos, total |-> t.total,
            reserved |-> t.reserved]
      /\ DOMAIN u.records = 1 .. Len(t.records)
      /\ u.records = [i \in 1 .. Len(t.records) |-> u.records[i]]
      /\ \A i \in 1 .. Len(t.records) : AlikeRecords(t.records[i], u.records[i])
      /\ DOMAIN u.streaminfos = 1 .. Len(t.streaminfos)
      /\ u.streaminfos = [i \in 1 .. Len(t.streaminfos) |-> u.streaminfos[i]]
      /\ \A i \in 1 .. Len(t.streaminfos) : Alike(t.streaminfos[i], u.streaminfos[i])
  BY DEF Shaped
<1>2. u.lookup = t.lookup /\ u.nameinfos = t.nameinfos /\ u.childinfos = t.childinfos
  BY <1>1
<1>3. Len(u.records) = Len(t.records)
  <2>1. PICK R : R = {u.records[i] : i \in 1 .. Len(t.records)}
    OBVIOUS
  <2>2. u.records \in [1 .. Len(t.records) -> R] /\ Len(t.records) \in Nat
    BY <1>0, <1>1, <2>1
  <2> QED BY <2>2
<1>4. Len(u.streaminfos) = Len(t.streaminfos)
  <2>1. PICK R : R = {u.streaminfos[i] : i \in 1 .. Len(t.streaminfos)}
    OBVIOUS
  <2>2. u.streaminfos \in [1 .. Len(t.streaminfos) -> R] /\ Len(t.streaminfos) \in Nat
    BY <1>0, <1>1, <2>1
  <2> QED BY <2>2
<1>5. \A i \in 1 .. Len(t.streaminfos) : u.streaminfos[i].next = t.streaminfos[i].next
  BY <1>1, AlikeHas
<1>6. Ending(u.streaminfos)
  BY <1>0, <1>4, <1>5 DEF Ending
<1>7. Slots(u) = Slots(t)
  BY <1>2 DEF Slots
<1>8. WellFormed(u)
  BY <1>2, <1>3, <1>6, <1>7 DEF Sound, WellFormed, Ending
<1>9. ASSUME NEW f \in Slots(t)
      PROVE  /\ Rec(u, f).nameCount = Rec(t, f).nameCount
             /\ Rec(u, f).streamCount = Rec(t, f).streamCount
             /\ Rec(u, f).firstChild = Rec(t, f).firstChild
             /\ Rec(u, f).firstName = Rec(t, f).firstName
             /\ Alike(Rec(t, f).firstStream, Rec(u, f).firstStream)
  <2>1. t.lookup[f] \in 1 .. Len(t.records)
    BY SoundHas
  <2>2. AlikeRecords(Rec(t, f), Rec(u, f))
    BY <1>1, <1>2, <2>1 DEF Rec
  <2> QED BY <2>2 DEF AlikeRecords
<1>10. ASSUME NEW f \in Slots(t)
       PROVE  /\ NamesOf(u, f) = NamesOf(t, f) /\ ChildrenOf(u, f) = ChildrenOf(t, f)
  BY <1>2, <1>9 DEF NamesOf, ChildrenOf
<1>11. ASSUME NEW f \in Slots(t)
       PROVE  /\ StreamPlaces(u, f) = StreamPlaces(t, f)
              /\ \A p \in Range(StreamPlaces(t, f)) : Alike(StreamAt(t, f, p), StreamAt(u, f, p))
  <2> DEFINE a == Rec(t, f).firstStream
             b == Rec(u, f).firstStream
  <2>1. b.name = a.name /\ b.next = a.next
    BY <1>9, AlikeHas
  <2>2. a.next \in 0 .. Len(t.streaminfos)
    BY SoundHas DEF Pointing
  <2>3. Chain(u.streaminfos, a.next) = Chain(t.streaminfos, a.next)
    <3>1. PICK h \in 0 .. Len(t.streaminfos) : h = a.next
      BY <2>2
    <3>2. Len(t.streaminfos) =< Len(u.streaminfos)
      BY <1>0, <1>4
    <3>3. Chain(u.streaminfos, h) = Chain(t.streaminfos, h)
      BY <1>0, <1>5, <1>6, <3>2, ChainSame
    <3> QED BY <3>1, <3>3
  <2>4. StreamPlaces(u, f) = StreamPlaces(t, f)
    BY <2>1, <2>3 DEF StreamPlaces
  <2>5. ASSUME NEW p \in Range(StreamPlaces(t, f))
        PROVE  Alike(StreamAt(t, f, p), StreamAt(u, f, p))
    <3>1. PICK c : c = StreamChain(t, f)
      OBVIOUS
    <3>2. /\ c \in Seq(1 .. Len(t.streaminfos))
          /\ StreamPlaces(t, f) = IF a.name = NoName THEN <<>> ELSE <<0>> \o c
      BY <3>1, StreamsIs
    <3>3. p = 0 \/ p \in 1 .. Len(t.streaminfos)
      <4>1. <<0>> \o c \in Seq(0 .. Len(t.streaminfos))
        <5>1. Len(t.streaminfos) \in Nat
          BY <1>0
        <5>2. <<0>> \in Seq(0 .. Len(t.streaminfos)) /\ c \in Seq(0 .. Len(t.streaminfos))
          BY <3>2, <5>1
        <5> QED BY <5>2
      <4>0. StreamPlaces(t, f) \in Seq(0 .. Len(t.streaminfos))
        <5>1. CASE a.name = NoName
          BY <3>2, <5>1
        <5>2. CASE a.name # NoName
          BY <3>2, <4>1, <5>2
        <5> QED BY <5>1, <5>2
      <4>2. PICK d \in Seq(0 .. Len(t.streaminfos)) : d = StreamPlaces(t, f)
        BY <4>0
      <4>3. \A j \in DOMAIN d : d[j] \in 0 .. Len(t.streaminfos)
        OBVIOUS
      <4>4. p \in 0 .. Len(t.streaminfos)
        BY <4>2, <4>3 DEF Range
      <4> QED BY <1>0, <4>4
    <3>4. CASE p = 0
      BY <1>9, <3>4 DEF StreamAt, InRecord
    <3>5. CASE p \in 1 .. Len(t.streaminfos)
      <4>1. p # 0 /\ Alike(t.streaminfos[p], u.streaminfos[p])
        <5>1. Len(t.streaminfos) \in Nat
          BY <1>0
        <5>2. \A i \in 1 .. Len(t.streaminfos) : Alike(t.streaminfos[i], u.streaminfos[i])
          BY <1>1
        <5> QED BY <3>5, <5>1, <5>2
      <4> QED BY <4>1 DEF StreamAt, InRecord
    <3> QED BY <3>3, <3>4, <3>5
  <2> QED BY <2>4, <2>5
<1> QED BY <1>7, <1>8, <1>9, <1>10, <1>11

IsSizing(after, t, call, below, places, n) ==
    after = [k \in 0 .. n |->
                IF k = 0
                THEN [table |-> t, size |-> below, default |-> NoPlace, compressed |-> NoPlace,
                      merged |-> 0]
                ELSE StreamStep(after[k - 1], call.frs, places[k], call.i, call.n, below)]

\* The streams of one call can be gone through one by one.
LEMMA SizingExists ==
  ASSUME NEW t, NEW call, NEW below, NEW places, NEW n \in Nat
  PROVE  \E after : IsSizing(after, t, call, below, places, n)
<1> DEFINE T == {k \in 0 .. n : \E after : IsSizing(after, t, call, below, places, k)}
           zero == [table |-> t, size |-> below, default |-> NoPlace, compressed |-> NoPlace,
                    merged |-> 0]
<1>1. ASSUME NEW k \in 0 .. n, \A j \in 0 .. k - 1 : j \in T PROVE k \in T
  <2>1. CASE k = 0
    <3> DEFINE f == [i \in 0 .. 0 |-> zero]
    <3>1. IsSizing(f, t, call, below, places, 0)
      BY DEF IsSizing
    <3> QED BY <2>1, <3>1
  <2>2. CASE k # 0
    <3>1. k - 1 \in 0 .. k - 1
      BY <2>2
    <3>2. PICK g : IsSizing(g, t, call, below, places, k - 1)
      BY <1>1, <3>1
    <3> HIDE DEF zero
    <3> DEFINE step(h, i) == StreamStep(h[i - 1], call.frs, places[i], call.i, call.n, below)
    <3>3. g = [i \in 0 .. k - 1 |-> IF i = 0 THEN zero ELSE step(g, i)]
      BY <3>2 DEF IsSizing, zero
    <3> DEFINE f == [i \in 0 .. k |-> IF i = 0 THEN zero ELSE step(g, i)]
    <3>4. ASSUME NEW i \in 0 .. k - 1 PROVE f[i] = g[i]
      <4>1. i \in 0 .. k
        OBVIOUS
      <4>2. PICK B : B = IF i = 0 THEN zero ELSE step(g, i)
        OBVIOUS
      <4>3. f[i] = B
        BY <4>1, <4>2
      <4>4. g[i] = B
        BY <3>3, <4>2
      <4> QED BY <4>3, <4>4
    <3>5. ASSUME NEW i \in 0 .. k, i # 0 PROVE f[i - 1] = g[i - 1]
      <4>1. i - 1 \in 0 .. k - 1
        BY <3>5
      <4> QED BY <3>4, <4>1
    <3>6. f = [i \in 0 .. k |-> IF i = 0 THEN zero ELSE step(f, i)]
      BY <3>5
    <3>7. IsSizing(f, t, call, below, places, k)
      BY <3>6 DEF IsSizing, zero
    <3> QED BY <3>7
  <2> QED BY <2>1, <2>2
<1> HIDE DEF T
<1>2. n \in T
  BY <1>1, UpTo
<1> QED BY <1>2 DEF T

\* All streams of one call.
LEMMA SizedShaped ==
  ASSUME NEW t, Sound(t), NEW u, Shaped(t, u), NEW call, call.frs \in Slots(t), NEW outermost
  PROVE  Shaped(t, Sized(u, call, outermost).table)
<1> DEFINE reserved == IF outermost THEN u.reserved ELSE 0
           below == [call.size EXCEPT !.allocated = @ + reserved,
                                      !.bulkiness = SmallBulk(call.size, call.bulks)]
           places == StreamPlaces(u, call.frs)
           n == Len(places)
           after == CHOOSE g : IsSizing(g, u, call, below, places, n)
           T == {k \in 0 .. n : Shaped(t, after[k].table) /\ IsSum(after[k])}
<1>1. n \in Nat
  <2>1. places = StreamPlaces(t, call.frs)
    BY ShapedHas
  <2>2. Len(StreamPlaces(t, call.frs)) = Len(StreamsOf(t, call.frs))
        /\ StreamsOf(t, call.frs) \in Seq(Streams)
    BY StreamsIs
  <2> QED BY <2>1, <2>2
<1>2. Sized(u, call, outermost) = MergeCompressed(after[n], call.frs, call.i, call.n)
  BY DEF Sized, IsSizing
<1> HIDE DEF below, places
<1>3. IsSizing(after, u, call, below, places, n)
  BY <1>1, SizingExists
<1> HIDE DEF after, n
<1>4. after = [k \in 0 .. n |->
                IF k = 0
                THEN [table |-> u, size |-> below, default |-> NoPlace, compressed |-> NoPlace,
                      merged |-> 0]
                ELSE StreamStep(after[k - 1], call.frs, places[k], call.i, call.n, below)]
  BY <1>3 DEF IsSizing
<1>5. ASSUME NEW k \in 0 .. n, \A j \in 0 .. k - 1 : j \in T PROVE k \in T
  <2>1. CASE k = 0
    <3>1. after[0] = [table |-> u, size |-> below, default |-> NoPlace, compressed |-> NoPlace,
                      merged |-> 0]
      BY <1>1, <1>4
    <3> QED BY <2>1, <3>1 DEF IsSum
  <2>2. CASE k # 0
    <3>1. k - 1 \in 0 .. k - 1
      BY <2>2
    <3>2. Shaped(t, after[k - 1].table)
      BY <1>5, <3>1
    <3>3. after[k] = StreamStep(after[k - 1], call.frs, places[k], call.i, call.n, below)
      BY <1>4, <2>2
    <3>4. Shaped(t, after[k].table) /\ IsSum(after[k])
      BY <3>2, <3>3, StreamStepShaped
    <3> QED BY <3>4
  <2> QED BY <2>1, <2>2
<1> HIDE DEF T
<1>6. n \in T
  BY ONLY <1>1, <1>5, UpTo
<1>7. Shaped(t, after[n].table) /\ IsSum(after[n])
  BY <1>6 DEF T
<1> QED BY <1>2, <1>7, MergeShaped

\* The calls under way are for files of the table.
Kids(t) == {e \in Children : e.record \in Slots(t)}

IsCall(t, c) ==
    /\ c = [frs |-> c.frs, i |-> c.i, n |-> c.n, todo |-> c.todo, size |-> c.size, bulks |-> c.bulks]
    /\ c.frs \in Slots(t) /\ c.todo \in Seq(Kids(t))

AreCalls(t, calls) == \E S : calls \in Seq(S) /\ \A c \in S : IsCall(t, c)

Walking(t, w) ==
    /\ w = [table |-> w.table, calls |-> w.calls] /\ Shaped(t, w.table) /\ AreCalls(t, w.calls)

\* The children that a directory leads to are files of the table.
LEMMA KidsAre ==
  ASSUME NEW t, Sound(t), ChildrenLead(t), NEW f \in Slots(t)
  PROVE  ChildrenOf(t, f) \in Seq(Kids(t))
<1>1. f \in Frss
  BY SoundHas
<1>2. PICK c \in Seq(Children) : c = ChildrenOf(t, f)
  <2>1. File(t, f) \in FileRecords
    BY <1>1, FileTyped
  <2> QED BY <2>1 DEF File, FileRecords
<1> DEFINE leads(g) == {<<g, Rec(t, g).nameCount - j>> :
                           j \in {i \in DOMAIN NamesOf(t, g) : NamesOf(t, g)[i].parent = f}}
<1>3. {<<e.record, e.nameIndex>> : e \in Range(c)} = UNION {leads(g) : g \in Slots(t) \ {f}}
  BY <1>2 DEF ChildrenLead
<1>l. \A g : \A x \in leads(g) : x[1] = g
  OBVIOUS
<1> HIDE DEF leads
<1>4. ASSUME NEW e \in Range(c) PROVE e.record \in Slots(t)
  <2>1. PICK x : x = <<e.record, e.nameIndex>>
    OBVIOUS
  <2>2. x \in {<<d.record, d.nameIndex>> : d \in Range(c)} /\ x[1] = e.record
    BY <2>1
  <2>3. PICK g \in Slots(t) \ {f} : x \in leads(g)
    BY <1>3, <2>2
  <2> QED BY <1>l, <2>2, <2>3
<1>5. ASSUME NEW i \in 1 .. Len(c) PROVE c[i] \in Kids(t)
  <2>1. c[i] \in Children /\ c[i] \in Range(c)
    BY DEF Range
  <2> QED BY <1>4, <2>1 DEF Kids
<1>6. Len(c) \in Nat /\ c = [i \in 1 .. Len(c) |-> c[i]]
  OBVIOUS
<1>7. c \in Seq(Kids(t))
  BY <1>5, <1>6
<1> QED BY <1>2, <1>7

\* A call for a file of the table has only such children before it.
LEMMA CallIs ==
  ASSUME NEW t, Sound(t), ChildrenLead(t), NEW u, Shaped(t, u), NEW f \in Slots(t), NEW i, NEW n
  PROVE  IsCall(t, Call(u, f, i, n))
<1>1. ChildrenOf(u, f) = ChildrenOf(t, f)
  BY ShapedHas
<1>2. ChildrenOf(u, f) \in Seq(Kids(t))
  BY <1>1, KidsAre
<1> DEFINE c == Call(u, f, i, n)
<1>3. c = [frs |-> f, i |-> i, n |-> n, todo |-> ChildrenOf(u, f), size |-> ZeroSize, bulks |-> <<>>]
  BY DEF Call
<1> HIDE DEF c
<1>4. c.frs = f /\ c.todo = ChildrenOf(u, f)
      /\ c = [frs |-> c.frs, i |-> c.i, n |-> c.n, todo |-> c.todo, size |-> c.size, bulks |-> c.bulks]
  BY <1>3
<1>5. IsCall(t, c)
  BY <1>2, <1>4 DEF IsCall
<1> QED BY <1>5 DEF c

\* One call more on the stack.
LEMMA CallsPush ==
  ASSUME NEW t, NEW calls, AreCalls(t, calls), NEW c, IsCall(t, c)
  PROVE  AreCalls(t, <<c>> \o calls)
<1>1. PICK S : calls \in Seq(S) /\ \A x \in S : IsCall(t, x)
  BY DEF AreCalls
<1>2. PICK R : R = S \cup {c}
  OBVIOUS
<1>3. calls \in Seq(R) /\ <<c>> \in Seq(R)
  BY <1>1, <1>2
<1>4. <<c>> \o calls \in Seq(R)
  BY <1>3
<1>5. \A x \in R : IsCall(t, x)
  BY <1>1, <1>2
<1> QED BY <1>4, <1>5 DEF AreCalls

\* One call less.
LEMMA CallsPop ==
  ASSUME NEW t, NEW calls, AreCalls(t, calls), calls # <<>>
  PROVE  AreCalls(t, Tail(calls)) /\ IsCall(t, Head(calls))
<1>1. PICK S : calls \in Seq(S) /\ \A x \in S : IsCall(t, x)
  BY DEF AreCalls
<1>2. Tail(calls) \in Seq(S) /\ Head(calls) \in S
  BY <1>1
<1>3. AreCalls(t, Tail(calls))
  BY <1>1, <1>2 DEF AreCalls
<1> QED BY <1>1, <1>2, <1>3

\* A step of the preprocessor, into a child or back from one, keeps stack and shape.
LEMMA StepWalking ==
  ASSUME NEW t, Sound(t), ChildrenLead(t), NEW w, Walking(t, w)
  PROVE  Walking(t, PreprocessStep(w))
<1>1. w = [table |-> w.table, calls |-> w.calls] /\ Shaped(t, w.table) /\ AreCalls(t, w.calls)
  BY DEF Walking
<1>2. CASE w.calls = <<>>
  BY <1>2 DEF PreprocessStep
<1> DEFINE call == Head(w.calls)
           callers == Tail(w.calls)
<1>3. CASE w.calls # <<>> /\ call.todo # <<>>
  <2>1. IsCall(t, call) /\ AreCalls(t, callers)
    BY <1>1, <1>3, CallsPop
  <2>2. /\ call = [frs |-> call.frs, i |-> call.i, n |-> call.n, todo |-> call.todo,
                   size |-> call.size, bulks |-> call.bulks]
        /\ call.frs \in Slots(t) /\ call.todo \in Seq(Kids(t))
    BY <2>1 DEF IsCall
  <2> DEFINE child == Head(call.todo)
             n == Rec(w.table, child.record).nameCount
             less == [call EXCEPT !.todo = Tail(@)]
             rest == <<less>> \o callers
             more == Call(w.table, child.record, n - 1 - child.nameIndex, n)
             calls == IF child.record = call.frs THEN rest ELSE <<more>> \o rest
  <2>3. PreprocessStep(w) = [w EXCEPT !.calls = calls]
    BY <1>3 DEF PreprocessStep, Descend
  <2>4. [w EXCEPT !.calls = calls] = [table |-> w.table, calls |-> calls]
    <3> HIDE DEF calls
    <3> QED BY <1>1
  <2>5. child.record \in Slots(t) /\ Tail(call.todo) \in Seq(Kids(t))
    <3>1. child \in Kids(t) /\ Tail(call.todo) \in Seq(Kids(t))
      BY <1>3, <2>2
    <3> QED BY <3>1 DEF Kids
  <2>6. IsCall(t, less)
    <3>1. PICK todo \in Seq(Kids(t)) : todo = Tail(call.todo)
      BY <2>5
    <3>2. PICK c : c = call
      OBVIOUS
    <3>3. less = [c EXCEPT !.todo = todo]
      BY <3>1, <3>2
    <3>4. c = [frs |-> c.frs, i |-> c.i, n |-> c.n, todo |-> c.todo, size |-> c.size,
               bulks |-> c.bulks] /\ c.frs \in Slots(t)
      BY <2>2, <3>2
    <3>5. [c EXCEPT !.todo = todo]
             = [frs |-> c.frs, i |-> c.i, n |-> c.n, todo |-> todo, size |-> c.size,
                bulks |-> c.bulks]
      BY ONLY <3>4
    <3> HIDE DEF less
    <3>6. less.frs = c.frs /\ less.i = c.i /\ less.n = c.n /\ less.todo = todo
          /\ less.size = c.size /\ less.bulks = c.bulks
      BY ONLY <3>3, <3>5
    <3>7. less = [frs |-> less.frs, i |-> less.i, n |-> less.n, todo |-> less.todo,
                  size |-> less.size, bulks |-> less.bulks]
      BY ONLY <3>3, <3>5, <3>6
    <3> QED BY <3>1, <3>4, <3>6, <3>7 DEF IsCall
  <2> HIDE DEF less
  <2>7. AreCalls(t, rest)
    BY <2>1, <2>6, CallsPush
  <2>8. IsCall(t, more)
    BY <1>1, <2>5, CallIs
  <2> HIDE DEF more, rest
  <2>9. AreCalls(t, calls)
    BY <2>7, <2>8, CallsPush
  <2> HIDE DEF calls
  <2> DEFINE x == [table |-> w.table, calls |-> calls]
  <2>10. Walking(t, x)
    BY <1>1, <2>9 DEF Walking
  <2> QED BY <2>3, <2>4, <2>10
<1>4. CASE w.calls # <<>> /\ call.todo = <<>>
  <2>1. IsCall(t, call) /\ AreCalls(t, callers)
    BY <1>1, <1>4, CallsPop
  <2> DEFINE done == Sized(w.table, call, callers = <<>>)
             caller == [Head(callers) EXCEPT !.size = Plus(@, done.size),
                                             !.bulks = Append(@, done.size.bulkiness)]
             calls == IF callers = <<>> THEN <<>> ELSE <<caller>> \o Tail(callers)
             x == [table |-> done.table, calls |-> calls]
  <2>2. PreprocessStep(w) = x
    BY <1>4 DEF PreprocessStep, Return
  <2>3. Shaped(t, done.table)
    <3>1. call.frs \in Slots(t)
      BY <2>1 DEF IsCall
    <3> QED BY <1>1, <3>1, SizedShaped
  <2> HIDE DEF done
  <2>4. AreCalls(t, calls)
    <3>1. CASE callers = <<>>
      BY <2>1, <3>1
    <3>2. CASE callers # <<>>
      <4>1. IsCall(t, Head(callers)) /\ AreCalls(t, Tail(callers))
        BY <2>1, <3>2, CallsPop
      <4>2. PICK c : c = Head(callers)
        OBVIOUS
      <4>3. PICK a, b : a = Plus(c.size, done.size) /\ b = Append(c.bulks, done.size.bulkiness)
        OBVIOUS
      <4>4. caller = [c EXCEPT !.size = a, !.bulks = b]
        BY <4>2, <4>3
      <4>5. c = [frs |-> c.frs, i |-> c.i, n |-> c.n, todo |-> c.todo, size |-> c.size,
                 bulks |-> c.bulks] /\ c.frs \in Slots(t) /\ c.todo \in Seq(Kids(t))
        BY <4>1, <4>2 DEF IsCall
      <4>6. [c EXCEPT !.size = a, !.bulks = b]
               = [frs |-> c.frs, i |-> c.i, n |-> c.n, todo |-> c.todo, size |-> a, bulks |-> b]
        <5>1. PICK f, i, n, s, z, d : /\ f = c.frs /\ i = c.i /\ n = c.n /\ s = c.todo
                                      /\ z = c.size /\ d = c.bulks
          OBVIOUS
        <5>2. c \in [frs : {f}, i : {i}, n : {n}, todo : {s}, size : {z, a}, bulks : {d, b}]
          BY ONLY <4>5, <5>1
        <5>3. [c EXCEPT !.size = a, !.bulks = b]
                 \in [frs : {f}, i : {i}, n : {n}, todo : {s}, size : {a}, bulks : {b}]
          BY ONLY <5>2
        <5>4. PICK y : y = [c EXCEPT !.size = a, !.bulks = b]
          OBVIOUS
        <5>5. y = [frs |-> f, i |-> i, n |-> n, todo |-> s, size |-> a, bulks |-> b]
          BY ONLY <5>3, <5>4
        <5> QED BY ONLY <5>1, <5>4, <5>5
      <4> HIDE DEF caller
      <4>7. /\ caller.frs = c.frs /\ caller.i = c.i /\ caller.n = c.n /\ caller.todo = c.todo
            /\ caller.size = a /\ caller.bulks = b
        BY ONLY <4>4, <4>6
      <4>8. caller = [frs |-> caller.frs, i |-> caller.i, n |-> caller.n, todo |-> caller.todo,
                      size |-> caller.size, bulks |-> caller.bulks]
        BY ONLY <4>4, <4>6, <4>7
      <4>9. IsCall(t, caller)
        BY <4>5, <4>7, <4>8 DEF IsCall
      <4> QED BY <3>2, <4>1, <4>9, CallsPush
    <3> QED BY <3>1, <3>2
  <2> HIDE DEF calls
  <2>5. Walking(t, x)
    BY <2>3, <2>4 DEF Walking
  <2> QED BY <2>2, <2>5
<1> QED BY <1>2, <1>3, <1>4

IsWalk(walk, t, root, n) ==
    walk = [k \in 0 .. n |-> IF k = 0
                             THEN [table |-> t, calls |-> <<Call(t, root, 0, 1)>>]
                             ELSE PreprocessStep(walk[k - 1])]

\* The steps of the preprocessor can be taken one by one.
LEMMA WalkExists ==
  ASSUME NEW t, NEW root, NEW n \in Nat
  PROVE  \E walk : IsWalk(walk, t, root, n)
<1> DEFINE T == {k \in 0 .. n : \E walk : IsWalk(walk, t, root, k)}
           zero == [table |-> t, calls |-> <<Call(t, root, 0, 1)>>]
<1>1. ASSUME NEW k \in 0 .. n, \A j \in 0 .. k - 1 : j \in T PROVE k \in T
  <2>1. CASE k = 0
    <3> DEFINE f == [i \in 0 .. 0 |-> zero]
    <3>1. IsWalk(f, t, root, 0)
      BY DEF IsWalk
    <3> QED BY <2>1, <3>1
  <2>2. CASE k # 0
    <3>1. k - 1 \in 0 .. k - 1
      BY <2>2
    <3>2. PICK g : IsWalk(g, t, root, k - 1)
      BY <1>1, <3>1
    <3> HIDE DEF zero
    <3>3. g = [i \in 0 .. k - 1 |-> IF i = 0 THEN zero ELSE PreprocessStep(g[i - 1])]
      BY <3>2 DEF IsWalk, zero
    <3> DEFINE f == [i \in 0 .. k |-> IF i = 0 THEN zero ELSE PreprocessStep(g[i - 1])]
    <3>4. ASSUME NEW i \in 0 .. k - 1 PROVE f[i] = g[i]
      <4>1. i \in 0 .. k
        OBVIOUS
      <4>2. PICK B : B = IF i = 0 THEN zero ELSE PreprocessStep(g[i - 1])
        OBVIOUS
      <4>3. f[i] = B
        BY <4>1, <4>2
      <4>4. g[i] = B
        BY <3>3, <4>2
      <4> QED BY <4>3, <4>4
    <3>5. ASSUME NEW i \in 0 .. k, i # 0 PROVE f[i - 1] = g[i - 1]
      <4>1. i - 1 \in 0 .. k - 1
        BY <3>5
      <4> QED BY <3>4, <4>1
    <3>6. f = [i \in 0 .. k |-> IF i = 0 THEN zero ELSE PreprocessStep(f[i - 1])]
      BY <3>5
    <3>7. IsWalk(f, t, root, k)
      BY <3>6 DEF IsWalk, zero
    <3> QED BY <3>7
  <2> QED BY <2>1, <2>2
<1> HIDE DEF T
<1>2. n \in T
  BY <1>1, UpTo
<1> QED BY <1>2 DEF T

\* The whole preprocessor, however the directories lie, changes sizes and nothing else.
LEMMA PreprocessShaped ==
  ASSUME NEW t, Sound(t), ChildrenLead(t), NEW root \in Slots(t)
  PROVE  Shaped(t, Preprocess(t, root))
<1> DEFINE walk == CHOOSE g : IsWalk(g, t, root, MaxSteps)
           T == {k \in 0 .. MaxSteps : Walking(t, walk[k])}
           zero == [table |-> t, calls |-> <<Call(t, root, 0, 1)>>]
<1>1. Preprocess(t, root) = walk[MaxSteps].table
  BY DEF Preprocess, IsWalk
<1>2. IsWalk(walk, t, root, MaxSteps)
  BY WalkExists, MaxStepsAssumption
<1> HIDE DEF walk
<1>3. walk = [k \in 0 .. MaxSteps |-> IF k = 0 THEN zero ELSE PreprocessStep(walk[k - 1])]
  BY <1>2 DEF IsWalk
<1>4. Walking(t, zero)
  <2>1. Shaped(t, t)
    BY ShapedSelf DEF Sound
  <2>2. IsCall(t, Call(t, root, 0, 1))
    BY <2>1, CallIs
  <2>3. AreCalls(t, <<Call(t, root, 0, 1)>>)
    <3>1. PICK c : c = Call(t, root, 0, 1)
      OBVIOUS
    <3>r. PICK R : R = {c}
      OBVIOUS
    <3>p. PICK calls : calls = <<c>>
      OBVIOUS
    <3>2. calls \in Seq(R)
      BY <3>r, <3>p
    <3>3. \A x \in R : IsCall(t, x)
      BY <2>2, <3>1, <3>r
    <3>4. AreCalls(t, <<c>>)
      BY <3>p, <3>2, <3>3 DEF AreCalls
    <3> QED BY <3>1, <3>4
  <2> QED BY <2>1, <2>3 DEF Walking
<1> HIDE DEF zero
<1>5. ASSUME NEW k \in 0 .. MaxSteps, \A j \in 0 .. k - 1 : j \in T PROVE k \in T
  <2>1. CASE k = 0
    <3>1. walk[0] = zero
      BY <1>3, MaxStepsAssumption
    <3> QED BY <1>4, <2>1, <3>1
  <2>2. CASE k # 0
    <3>1. k - 1 \in 0 .. k - 1
      BY <2>2
    <3>2. Walking(t, walk[k - 1])
      BY <1>5, <3>1
    <3>3. walk[k] = PreprocessStep(walk[k - 1])
      BY <1>3, <2>2
    <3>4. Walking(t, walk[k])
      BY <3>2, <3>3, StepWalking
    <3> QED BY <3>4
  <2> QED BY <2>1, <2>2
<1> HIDE DEF T
<1>6. MaxSteps \in T
  BY ONLY MaxStepsAssumption, <1>5, UpTo
<1>7. Walking(t, walk[MaxSteps])
  BY <1>6 DEF T
<1> QED BY <1>1, <1>7 DEF Walking

\* The preprocessor neither makes nor moves a stream.
LEMMA StreamsAlike ==
  ASSUME NEW t, Sound(t), NEW u, Shaped(t, u), NEW f \in Slots(t)
  PROVE  /\ StreamsOf(t, f) \in Seq(Streams) /\ Len(StreamsOf(u, f)) = Len(StreamsOf(t, f))
         /\ DOMAIN StreamsOf(u, f) = DOMAIN StreamsOf(t, f)
         /\ \A j \in DOMAIN StreamsOf(t, f) : Alike(StreamsOf(t, f)[j], StreamsOf(u, f)[j])
<1>1. PICK c : c = StreamPlaces(t, f)
  OBVIOUS
<1>2. Len(c) \in Nat /\ DOMAIN c = 1 .. Len(c)
  <2>1. Len(StreamPlaces(t, f)) = Len(StreamsOf(t, f)) /\ StreamsOf(t, f) \in Seq(Streams)
    BY StreamsIs
  <2>2. PICK d : d = StreamChain(t, f)
    OBVIOUS
  <2>3. d \in Seq(1 .. Len(t.streaminfos)) /\ (c = <<>> \/ c = <<0>> \o d)
    BY <1>1, <2>2, StreamsIs
  <2>4. d \in Seq(Int) /\ <<0>> \in Seq(Int)
    BY <2>3
  <2>a. <<0>> \o d \in Seq(Int) /\ <<>> \in Seq(Int)
    BY <2>4
  <2>5. c \in Seq(Int)
    BY <2>3, <2>a
  <2> QED BY <2>5
<1>3. StreamsOf(t, f) = [j \in 1 .. Len(c) |-> StreamAt(t, f, c[j])]
  BY <1>1 DEF StreamsOf
<1>4. StreamsOf(u, f) = [j \in 1 .. Len(c) |-> StreamAt(u, f, c[j])]
  BY <1>1, ShapedHas DEF StreamsOf
<1>5. ASSUME NEW j \in 1 .. Len(c) PROVE Alike(StreamAt(t, f, c[j]), StreamAt(u, f, c[j]))
  <2>1. c[j] \in Range(c)
    BY <1>2 DEF Range
  <2> QED BY <1>1, <2>1, ShapedHas
<1>6. Len(StreamsOf(u, f)) = Len(c) /\ Len(StreamsOf(t, f)) = Len(c)
  BY <1>2, <1>3, <1>4
<1> QED BY <1>3, <1>4, <1>5, <1>6, StreamsIs

\* The sizes apart, what holds of the loaded table holds after the preprocessor.
LEMMA ShapedHolds ==
  ASSUME NEW t, Sound(t), NEW u, Shaped(t, u), NEW m, NEW xs
  PROVE  /\ NamesHeld(t, m, xs) => NamesHeld(u, m, xs)
         /\ StreamsHeld(t, m, xs) => StreamsHeld(u, m, xs)
         /\ ChildrenLead(t) => ChildrenLead(u)
<1>1. Slots(u) = Slots(t)
  BY ShapedHas
<1>2. \A f \in Slots(t) :
         /\ NamesOf(u, f) = NamesOf(t, f) /\ ChildrenOf(u, f) = ChildrenOf(t, f)
         /\ Rec(u, f).nameCount = Rec(t, f).nameCount
         /\ Rec(u, f).streamCount = Rec(t, f).streamCount
  BY ShapedHas
<1>3. NamesHeld(t, m, xs) => NamesHeld(u, m, xs)
  BY <1>1, <1>2 DEF NamesHeld
<1>4. ChildrenLead(t) => ChildrenLead(u)
  <2> SUFFICES ASSUME ChildrenLead(t), NEW p \in Slots(t)
               PROVE  LET entries == {<<e.record, e.nameIndex>> : e \in Range(ChildrenOf(u, p))}
                          named(f) == {j \in DOMAIN NamesOf(u, f) : NamesOf(u, f)[j].parent = p}
                      IN /\ Len(ChildrenOf(u, p)) = Cardinality(entries)
                         /\ entries = UNION {{<<f, Rec(u, f).nameCount - j>> : j \in named(f)} :
                                                f \in Slots(t) \ {p}}
    BY <1>1 DEF ChildrenLead
  <2> DEFINE entries(v) == {<<e.record, e.nameIndex>> : e \in Range(ChildrenOf(v, p))}
             leads(v, f) == {<<f, Rec(v, f).nameCount - j>> :
                                j \in {i \in DOMAIN NamesOf(v, f) : NamesOf(v, f)[i].parent = p}}
  <2>1. Len(ChildrenOf(t, p)) = Cardinality(entries(t))
        /\ entries(t) = UNION {leads(t, f) : f \in Slots(t) \ {p}}
    BY DEF ChildrenLead
  <2>2. entries(u) = entries(t) /\ ChildrenOf(u, p) = ChildrenOf(t, p)
    BY <1>2
  <2>3. \A f \in Slots(t) : leads(u, f) = leads(t, f)
    BY <1>2
  <2> HIDE DEF entries, leads
  <2>4. UNION {leads(u, f) : f \in Slots(t) \ {p}} = UNION {leads(t, f) : f \in Slots(t) \ {p}}
    BY <2>3
  <2> QED BY <2>1, <2>2, <2>4 DEF entries, leads
<1>5. ASSUME NEW f \in Slots(t)
      PROVE  /\ Len(StreamsOf(u, f)) = Len(StreamsOf(t, f))
             /\ DOMAIN StreamsOf(u, f) = DOMAIN StreamsOf(t, f)
             /\ \A j \in DOMAIN StreamsOf(t, f) : Alike(StreamsOf(t, f)[j], StreamsOf(u, f)[j])
  BY StreamsAlike
<1>6. ASSUME NEW f \in Slots(t)
      PROVE  /\ DirPositions(u, f) = DirPositions(t, f)
             /\ {<<s.type, s.name, s.length>> : s \in {v \in Range(StreamsOf(u, f)) : v.type # DirType}}
                  = {<<s.type, s.name, s.length>> : s \in {v \in Range(StreamsOf(t, f)) : v.type # DirType}}
  <2>1. PICK a, b : a = StreamsOf(t, f) /\ b = StreamsOf(u, f)
    OBVIOUS
  <2>2. DOMAIN b = DOMAIN a /\ \A j \in DOMAIN a : Alike(a[j], b[j])
    BY <1>5, <2>1
  <2>3. \A j \in DOMAIN a : /\ b[j].type = a[j].type /\ b[j].name = a[j].name
                            /\ a[j].type # DirType => b[j].length = a[j].length
    BY <2>2, AlikeHas
  <2>4. DirPositions(u, f) = DirPositions(t, f)
    BY <2>1, <2>2, <2>3 DEF DirPositions
  <2>5. ASSUME NEW s \in Range(a), s.type # DirType
        PROVE  \E r \in Range(b) : /\ r.type # DirType
                                   /\ <<r.type, r.name, r.length>> = <<s.type, s.name, s.length>>
    <3>1. PICK j \in DOMAIN a : s = a[j]
      BY DEF Range
    <3>2. b[j] \in Range(b)
      BY <2>2 DEF Range
    <3> QED BY <2>3, <2>5, <3>1, <3>2
  <2>6. ASSUME NEW s \in Range(b), s.type # DirType
        PROVE  \E r \in Range(a) : /\ r.type # DirType
                                   /\ <<r.type, r.name, r.length>> = <<s.type, s.name, s.length>>
    <3>1. PICK j \in DOMAIN a : s = b[j]
      BY <2>2 DEF Range
    <3>2. a[j] \in Range(a)
      BY DEF Range
    <3> QED BY <2>3, <2>6, <3>1, <3>2
  <2>7. {<<s.type, s.name, s.length>> : s \in {v \in Range(b) : v.type # DirType}}
                  = {<<s.type, s.name, s.length>> : s \in {v \in Range(a) : v.type # DirType}}
    BY <2>5, <2>6
  <2> QED BY <2>1, <2>4, <2>7
<1>7. StreamsHeld(t, m, xs) => StreamsHeld(u, m, xs)
  <2> SUFFICES ASSUME StreamsHeld(t, m, xs), NEW f \in Frss
               PROVE  LET streams == StreamsOf(u, f)
                          dirs == DirsAmong(m, xs, f)
                          others == StreamsAmong(m, xs, f) \ dirs
                          few == IF dirs = {} THEN 0 ELSE 1
                      IN IF f \in Slots(u)
                         THEN /\ Len(streams) = Rec(u, f).streamCount
                              /\ Len(streams) = Cardinality(others) + few
                              /\ {<<s.type, s.name, s.length>> : s \in {v \in Range(streams) : v.type # DirType}}
                                    = {<<AttributeAt(m, x).type, AttributeAt(m, x).name,
                                         AttributeAt(m, x).length>> : x \in others}
                              /\ Cardinality(DirPositions(u, f)) = few
                         ELSE dirs \cup others = {}
    BY DEF StreamsHeld
  <2>1. CASE f \in Slots(t)
    <3> DEFINE of(v) == {<<s.type, s.name, s.length>> :
                            s \in {r \in Range(StreamsOf(v, f)) : r.type # DirType}}
               dirs == DirsAmong(m, xs, f)
               others == StreamsAmong(m, xs, f) \ dirs
               few == IF dirs = {} THEN 0 ELSE 1
               said == {<<AttributeAt(m, x).type, AttributeAt(m, x).name,
                          AttributeAt(m, x).length>> : x \in others}
    <3>1. /\ Len(StreamsOf(t, f)) = Rec(t, f).streamCount
          /\ Len(StreamsOf(t, f)) = Cardinality(others) + few
          /\ of(t) = said /\ Cardinality(DirPositions(t, f)) = few
      BY <2>1 DEF StreamsHeld
    <3>2. of(u) = of(t)
      BY <1>6, <2>1
    <3>3. /\ Len(StreamsOf(u, f)) = Len(StreamsOf(t, f)) /\ DirPositions(u, f) = DirPositions(t, f)
          /\ Rec(u, f).streamCount = Rec(t, f).streamCount
      BY <1>2, <1>5, <1>6, <2>1
    <3> HIDE DEF of, said, few, others
    <3>4. /\ Len(StreamsOf(u, f)) = Rec(u, f).streamCount
          /\ Len(StreamsOf(u, f)) = Cardinality(others) + few
          /\ of(u) = said /\ Cardinality(DirPositions(u, f)) = few
      BY <3>1, <3>2, <3>3
    <3> QED BY <1>1, <2>1, <3>4 DEF of, said, few, others
  <2>2. CASE f \notin Slots(t)
    BY <1>1, <2>2 DEF StreamsHeld
  <2> QED BY <2>1, <2>2
<1> QED BY <1>3, <1>4, <1>7

-----------------------------------------------------------------------------
(* The invariant. *)

\* The table of what has been loaded, before the preprocessor adds to its sizes.
IsLoaded(t) ==
    /\ Loading(t, mft, LoadedPlaces)
    /\ \A f \in Loaded : mft[f].inUse => mft[f].base \in Slots(t)

LoadInv ==
    /\ mft \in Volumes /\ unread \subseteq Chunks /\ finished = (unread = {})
    /\ \E t : /\ IsLoaded(t)
              /\ IF finished THEN Shaped(t, table) /\ table = Preprocess(t, kRootFRS) ELSE table = t

\* What is accounted for is what the invariants say of names, streams and children.
LEMMA LoadedHolds ==
  ASSUME NEW t, NEW m, NEW xs, Loading(t, m, xs)
  PROVE  /\ Sound(t) /\ NamesHeld(t, m, xs) /\ StreamsHeld(t, m, xs) /\ IndexesHeld(t, m, xs)
         /\ ChildrenLead(t)
<1>1. Sound(t) /\ IsFiniteSet(xs) /\ Accounts(Files(t), m, xs)
  BY DEF Loading
<1>2. Slots(t) \subseteq Frss
  BY <1>1, SoundHas
<1> QED BY <1>1, <1>2, NamesAccounted, StreamsAccounted, ChildrenAccounted

\* The empty table has loaded nothing.
LEMMA InitLoadInv == Init => LoadInv
<1> SUFFICES ASSUME Init PROVE LoadInv
  OBVIOUS
<1>1. /\ mft \in Volumes /\ unread = Chunks /\ finished = FALSE
      /\ table = EmptyTable(Frss, Reserved)
  BY DEF Init
<1>2. Chunks # {} /\ Loaded = {}
  <2>1. UNION {Range(c) : c \in Chunks} = Frss /\ Frss # {}
    BY ChunksAssumption, FrssAssumption
  <2>2. \A f \in Frss : \E c \in Chunks : f \in Range(c)
    BY <2>1
  <2> QED BY <1>1, <2>1, <2>2 DEF Loaded
<1>3. LoadedPlaces = {}
  BY <1>2, PlacesWithin DEF LoadedPlaces
<1>4. IsLoaded(table)
  BY <1>1, <1>2, <1>3, EmptyAccounts DEF IsLoaded
<1> QED BY <1>1, <1>2, <1>4 DEF LoadInv

\* A chunk is loaded, and with the last one the preprocessor runs.
LEMMA LoadLoadInv ==
  ASSUME LoadInv, NEW c \in Chunks, Load(c)
  PROVE  LoadInv'
<1>1. /\ c \in unread /\ unread' = unread \ {c} /\ mft' = mft
      /\ mft \in Volumes /\ unread \subseteq Chunks /\ ~finished
      /\ IF unread' = {}
         THEN /\ table' = Preprocess(LoadRecords(table, mft, c), kRootFRS)
              /\ finished' = TRUE
         ELSE table' = LoadRecords(table, mft, c) /\ finished' = finished
  BY DEF Load, LoadInv
<1>2. IsLoaded(table)
  BY <1>1 DEF LoadInv
<1>u. PICK u : u = LoadRecords(table, mft, c)
  OBVIOUS
<1>3. /\ c \in Seq(Frss) /\ IsInjective(c) /\ Range(c) \subseteq Frss
  BY ChunksAssumption
<1>4. \A d \in Chunks : Range(c) \cap Range(d) # {} => c = d
  BY ChunksAssumption
<1>5. Loaded \cap Range(c) = {} /\ Loaded' = Loaded \cup Range(c)
  <2>1. Loaded \cap Range(c) = {}
    BY <1>1 DEF Loaded
  <2>2. \A f \in Range(c) : \A d \in unread : d # c => f \notin Range(d)
    BY <1>1, <1>4
  <2> QED BY <1>1, <1>3, <2>1, <2>2 DEF Loaded
<1>6. mft \in [Frss -> MftRecords] /\ Loaded \in SUBSET Frss
  BY <1>1, VolumesAssumption DEF Loaded
<1>7. /\ Loading(u, mft, PlacesIn(mft, Loaded \cup Range(c)))
      /\ Slots(table) \subseteq Slots(u)
      /\ \A f \in Range(c) : mft[f].inUse => mft[f].base \in Slots(u)
  BY <1>2, <1>3, <1>5, <1>6, <1>u, LoadRecordsIs DEF IsLoaded, LoadedPlaces
<1>8. IsLoaded(u)'
  <2>1. Loading(u, mft, LoadedPlaces')
    BY <1>1, <1>5, <1>7 DEF LoadedPlaces
  <2>2. \A f \in Loaded' : mft[f].inUse => mft[f].base \in Slots(u)
    BY <1>2, <1>5, <1>7 DEF IsLoaded
  <2> QED BY <1>1, <2>1, <2>2 DEF IsLoaded
<1>9. CASE unread' = {}
  <2>1. kRootFRS \in Slots(u)
    <3>1. kRootFRS \in Loaded'
      BY <1>9, FrssAssumption DEF Loaded
    <3> QED BY <1>1, <1>8, <3>1, VolumesAssumption DEF IsLoaded
  <2>2. Sound(u) /\ ChildrenLead(u)
    BY <1>7, LoadedHolds
  <2>3. Shaped(u, table') /\ table' = Preprocess(u, kRootFRS)
    BY <1>1, <1>9, <1>u, <2>1, <2>2, PreprocessShaped
  <2> QED BY <1>1, <1>8, <1>9, <2>3 DEF LoadInv
<1>10. CASE unread' # {}
  BY <1>1, <1>8, <1>10, <1>u DEF LoadInv
<1> QED BY <1>9, <1>10

\* A search and a stutter leave the table alone.
LEMMA NextLoadInv == LoadInv /\ [Next]_vars => LoadInv'
<1> SUFFICES ASSUME LoadInv, [Next]_vars PROVE LoadInv'
  OBVIOUS
<1>1. ASSUME NEW c \in Chunks, Load(c) PROVE LoadInv'
  BY <1>1, LoadLoadInv
<1>2. CASE UNCHANGED <<mft, unread, table, finished>>
  <2>1. mft' = mft /\ unread' = unread /\ table' = table /\ finished' = finished
    BY <1>2
  <2>2. Loaded' = Loaded /\ LoadedPlaces' = LoadedPlaces
    BY <2>1 DEF Loaded, LoadedPlaces
  <2>3. \A t : IsLoaded(t) => IsLoaded(t)'
    BY <2>1, <2>2 DEF IsLoaded
  <2> QED BY <2>1, <2>3 DEF LoadInv
<1>3. ASSUME NEW attributes \in BOOLEAN, NEW refused \in RefusedSets, Search(attributes, refused)
      PROVE  LoadInv'
  BY <1>2, <1>3 DEF Search
<1>4. CASE UNCHANGED vars
  BY <1>2, <1>4 DEF vars
<1> QED BY <1>1, <1>3, <1>4 DEF Next

\* What the invariant says of the table.
LEMMA LoadInvHolds == LoadInv => TableAsLoaded /\ ChildrenLeadToNames
<1> SUFFICES ASSUME LoadInv PROVE TableAsLoaded /\ ChildrenLeadToNames
  OBVIOUS
<1>1. PICK t : IsLoaded(t) /\ IF finished THEN Shaped(t, table) ELSE table = t
  BY DEF LoadInv
<1>2. /\ Sound(t) /\ NamesHeld(t, mft, LoadedPlaces) /\ StreamsHeld(t, mft, LoadedPlaces)
      /\ IndexesHeld(t, mft, LoadedPlaces) /\ ChildrenLead(t)
  BY <1>1, LoadedHolds DEF IsLoaded
<1>3. mft \in Volumes /\ unread \subseteq Chunks /\ finished = (unread = {})
  BY DEF LoadInv
<1>4. CASE finished
  <2>1. Shaped(t, table)
    BY <1>1, <1>4
  <2>2. /\ WellFormed(table) /\ NamesHeld(table, mft, LoadedPlaces)
        /\ StreamsHeld(table, mft, LoadedPlaces) /\ ChildrenLead(table)
    BY <1>2, <2>1, ShapedHas, ShapedHolds
  <2> QED BY <1>3, <1>4, <2>2 DEF TableAsLoaded, TypeOK, ChildrenLeadToNames
<1>5. CASE ~finished
  <2>1. table = t
    BY <1>1, <1>5
  <2>2. WellFormed(table)
    BY <1>2, <2>1 DEF Sound
  <2> QED BY <1>2, <1>3, <1>5, <2>1, <2>2 DEF TableAsLoaded, TypeOK, ChildrenLeadToNames
<1> QED BY <1>4, <1>5

\* The inductive invariant: there is a table that accounts for every attribute of the records
\* that have come and for no other; it is the table of the index until the last chunk, and after
\* that differs from it by the sizes that the preprocessor has put into its streams.
THEOREM LoadInvariant == Spec => []LoadInv
BY InitLoadInv, NextLoadInv, PTL DEF Spec

\* In whatever order the chunks of a volume come, at any moment the table is well formed and
\* its chains hold just the names and streams of the records that have come, each once: what
\* the calls of load() in between have added, merged and linked is lost nowhere.
THEOREM LoadedTable == Spec => []TableAsLoaded
BY LoadInvariant, LoadInvHolds, PTL

\* At any moment, the child entries of a directory and the names that lie in it belong to each
\* other one by one, by the number that AddName gives the name and that the walk looks it up by.
THEOREM ChildrenLeadAlways == Spec => []ChildrenLeadToNames
BY LoadInvariant, LoadInvHolds, PTL

\* What the streams of the files of a table add up to, file by file and in all.
SizesOf(t, m, xs) ==
    \A q \in Measures :
        LET weight == [f \in Slots(t) |-> InStreams(q, StreamsOf(t, f))]
        IN /\ \A f \in Slots(t) : weight[f] = InPlaces(q, m, StreamsAmong(m, xs, f))
           /\ SumFunctionOnSet(weight, Slots(t))
                 = InPlaces(q, m, UNION {StreamsAmong(m, xs, f) : f \in Slots(t)})

\* No size is lost or counted twice by the loads: in the table of the index up to the last chunk,
\* and in the one that the preprocessor is then given, the streams of every file, with the parts
\* of an index merged into one, have the lengths and allocations of its attributes.
SizesAsLoaded ==
    \E t : /\ NamesHeld(t, mft, LoadedPlaces) /\ StreamsHeld(t, mft, LoadedPlaces)
           /\ IndexesHeld(t, mft, LoadedPlaces) /\ SizesOf(t, mft, LoadedPlaces)
           /\ table = IF finished THEN Preprocess(t, kRootFRS) ELSE t

\* Files that are weighed one by one are weighed in all: their attributes do not meet.
LEMMA WeighedSizes ==
  ASSUME NEW t, NEW m \in [Frss -> MftRecords], NEW xs, Loading(t, m, xs)
  PROVE  SizesOf(t, m, xs)
<1> SUFFICES ASSUME NEW q \in Measures, NEW weight,
                    weight = [f \in Slots(t) |-> InStreams(q, StreamsOf(t, f))]
             PROVE  /\ \A f \in Slots(t) : weight[f] = InPlaces(q, m, StreamsAmong(m, xs, f))
                    /\ SumFunctionOnSet(weight, Slots(t))
                          = InPlaces(q, m, UNION {StreamsAmong(m, xs, f) : f \in Slots(t)})
  BY DEF SizesOf
<1> DEFINE part == [f \in Slots(t) |-> StreamsAmong(m, xs, f)]
           measure == [x \in xs |-> Measure(q, AttributeAt(m, x))]
<1>1. Sound(t) /\ xs \subseteq Places(m) /\ IsFiniteSet(xs) /\ Weighed(Files(t), m, xs)
  BY DEF Loading
<1>2. Slots(t) \subseteq Frss /\ IsFiniteSet(Slots(t))
  BY <1>1, SoundHas, FrssAssumption, FS_Subset
<1>3. ASSUME NEW f \in Slots(t)
      PROVE  weight[f] = InPlaces(q, m, StreamsAmong(m, xs, f))
  <2>1. Files(t)[f].streams = StreamsOf(t, f)
    BY <1>2 DEF Files, File
  <2>2. InStreams(q, Files(t)[f].streams) = InPlaces(q, m, StreamsAmong(m, xs, f))
    BY <1>1, <1>2 DEF Weighed, StreamsWeigh
  <2> QED BY <2>1, <2>2
<1>4. /\ \A f \in Slots(t) : IsFiniteSet(part[f]) /\ part[f] \subseteq xs
      /\ \A f, g \in Slots(t) : f # g => part[f] \cap part[g] = {}
  BY <1>1, FS_Subset DEF StreamsAmong
<1>5. \A f \in Slots(t) : \A x \in part[f] : measure[x] \in Int
  <2>1. ASSUME NEW f \in Slots(t), NEW x \in StreamsAmong(m, xs, f) PROVE measure[x] \in Int
    <3>1. x \in Places(m) /\ x \in xs /\ AttributeAt(m, x).kind # "name"
      BY <1>1 DEF StreamsAmong
    <3>2. AttributeAt(m, x) \in StreamAttributes
      BY <3>1, AttributeTyped
    <3> QED BY <3>1, <3>2, MeasureTyped
  <2> QED BY <2>1
<1>6. ASSUME NEW ys \in SUBSET xs, \A x \in ys : measure[x] \in Int
      PROVE  InPlaces(q, m, ys) = SumFunctionOnSet(measure, ys)
  <2>1. \A x \in ys : [y \in ys |-> Measure(q, AttributeAt(m, y))][x] = measure[x]
    OBVIOUS
  <2> QED BY <1>1, <1>6, <2>1, SumSame, FS_Subset DEF InPlaces
<1>7. \A f \in Slots(t) : weight[f] = SumFunctionOnSet(measure, part[f])
  BY <1>3, <1>4, <1>5, <1>6
<1> HIDE DEF part, measure
<1>8. SumFunctionOnSet(measure, UNION {part[f] : f \in Slots(t)}) = SumFunctionOnSet(weight, Slots(t))
  BY ONLY <1>2, <1>4, <1>5, <1>7, SumOfSums
<1>9. UNION {part[f] : f \in Slots(t)} = UNION {StreamsAmong(m, xs, f) : f \in Slots(t)}
  BY DEF part
<1>10. InPlaces(q, m, UNION {part[f] : f \in Slots(t)})
         = SumFunctionOnSet(measure, UNION {part[f] : f \in Slots(t)})
  BY <1>4, <1>5, <1>6
<1> QED BY <1>3, <1>8, <1>9, <1>10

\* In whatever order the chunks of a volume come, at any moment the streams of the table weigh
\* what the attributes of the records that have come say.
THEOREM SizesLoaded == Spec => []SizesAsLoaded
<1>1. LoadInv => SizesAsLoaded
  <2> SUFFICES ASSUME LoadInv PROVE SizesAsLoaded
    OBVIOUS
  <2>1. PICK t : /\ IsLoaded(t)
                 /\ IF finished THEN table = Preprocess(t, kRootFRS) ELSE table = t
    BY DEF LoadInv
  <2>2. mft \in [Frss -> MftRecords]
    BY VolumesAssumption DEF LoadInv
  <2>3. /\ NamesHeld(t, mft, LoadedPlaces) /\ StreamsHeld(t, mft, LoadedPlaces)
        /\ IndexesHeld(t, mft, LoadedPlaces) /\ SizesOf(t, mft, LoadedPlaces)
    BY <2>1, <2>2, LoadedHolds, WeighedSizes DEF IsLoaded
  <2> QED BY <2>1, <2>3 DEF SizesAsLoaded
<1> QED BY <1>1, LoadInvariant, PTL

-----------------------------------------------------------------------------
(* The finished table, as a search goes over it. *)

\* The names of all files, each by its file and its number.
NameKeys(t) == UNION {{f} \X DOMAIN NamesOf(t, f) : f \in Slots(t)}

\* Every name but the root's own lies in a directory, which has an index and one name.
Tree(t) ==
    /\ Slots(t) \subseteq Frss /\ {kRootFRS, kVolumeFRS} \subseteq Slots(t)
    /\ ChildrenLead(t)
    /\ \A f \in Slots(t) :
          /\ NamesOf(t, f) \in Seq(Links) /\ Rec(t, f).nameCount = Len(NamesOf(t, f))
          /\ ChildrenOf(t, f) \in Seq(Children)
          /\ Len(StreamsOf(t, f)) \in Nat /\ DOMAIN StreamsOf(t, f) = 1 .. Len(StreamsOf(t, f))
          /\ \A l \in Range(NamesOf(t, f)) :
                l.parent \in Slots(t) /\ Len(NamesOf(t, l.parent)) = 1 /\ DirPositions(t, l.parent) # {}
    /\ \A f \in {kRootFRS, kVolumeFRS} :
          Len(NamesOf(t, f)) = 1 /\ \A l \in Range(NamesOf(t, f)) : l.parent = kRootFRS
    /\ IsFiniteSet(NameKeys(t)) /\ 2 * Cardinality(NameKeys(t)) < MaxSteps

\* There is a place of the volume for every name of a file.
LEMMA PlacesOfNames ==
  ASSUME NEW t, NEW m, NEW xs, IsFiniteSet(xs), Slots(t) \subseteq Frss,
         \A f \in Slots(t) : /\ NamesOf(t, f) \in Seq(Links)
                             /\ Len(NamesOf(t, f)) = Cardinality(LinksAmong(m, xs, f))
  PROVE  IsFiniteSet(NameKeys(t)) /\ Cardinality(NameKeys(t)) =< Cardinality(xs)
<1>1. ASSUME NEW f \in Slots(t)
      PROVE  \E h : h \in Injection(DOMAIN NamesOf(t, f), LinksAmong(m, xs, f))
  <2>1. ExistsBijection(1 .. Cardinality(LinksAmong(m, xs, f)), LinksAmong(m, xs, f))
    BY Finite, FS_CardinalityType
  <2>2. DOMAIN NamesOf(t, f) = 1 .. Cardinality(LinksAmong(m, xs, f))
    <3>1. PICK s \in Seq(Links) : s = NamesOf(t, f)
      OBVIOUS
    <3>2. DOMAIN s = 1 .. Len(s)
      OBVIOUS
    <3> QED BY <3>1, <3>2
  <2> QED BY <2>1, <2>2 DEF ExistsBijection, Bijection
<1> DEFINE h(f) == CHOOSE g : g \in Injection(DOMAIN NamesOf(t, f), LinksAmong(m, xs, f))
           place == [k \in NameKeys(t) |-> h(k[1])[k[2]]]
<1>2. \A f \in Slots(t) : h(f) \in Injection(DOMAIN NamesOf(t, f), LinksAmong(m, xs, f))
  BY <1>1
<1> HIDE DEF h
<1>3. \A f \in Slots(t) :
         /\ \A n \in DOMAIN NamesOf(t, f) : h(f)[n] \in LinksAmong(m, xs, f)
         /\ \A n, k \in DOMAIN NamesOf(t, f) : h(f)[n] = h(f)[k] => n = k
  BY <1>2 DEF Injection, IsInjective
<1>4. \A f, g \in Slots(t) : f # g => LinksAmong(m, xs, f) \cap LinksAmong(m, xs, g) = {}
  BY DEF LinksAmong
<1>5. \A k \in NameKeys(t) : /\ k = <<k[1], k[2]>> /\ k[1] \in Slots(t)
                             /\ k[2] \in DOMAIN NamesOf(t, k[1])
  BY DEF NameKeys
<1>6. \A k \in NameKeys(t) : place[k] \in LinksAmong(m, xs, k[1]) /\ place[k] = h(k[1])[k[2]]
  BY <1>3, <1>5
<1>7. \A k \in NameKeys(t) : place[k] \in xs
  BY <1>6 DEF LinksAmong
<1>8. ASSUME NEW k \in NameKeys(t), NEW l \in NameKeys(t), place[k] = place[l] PROVE k = l
  <2>1. k[1] = l[1]
    BY <1>4, <1>5, <1>6, <1>8
  <2>2. k[2] = l[2]
    BY <1>3, <1>5, <1>6, <1>8, <2>1
  <2> QED BY <1>5, <2>1, <2>2
<1>9. place \in Injection(NameKeys(t), xs)
  <2>1. place \in [NameKeys(t) -> xs]
    BY <1>7
  <2> HIDE DEF place
  <2> QED BY <1>8, <2>1 DEF Injection, IsInjective
<1> QED BY <1>9, FS_Injection

\* Once all chunks are loaded, the table shows what the volume is assumed to be.
LEMMA TreeIs ==
  ASSUME LoadInv, finished
  PROVE  Tree(table)
<1>1. PICK t : IsLoaded(t) /\ Shaped(t, table)
  BY DEF LoadInv
<1>2. mft \in Volumes /\ unread = {}
  BY DEF LoadInv
<1> DEFINE all == PlacesIn(mft, Frss)
<1>3. LoadedPlaces = all
  <2>1. Loaded = Frss
    BY <1>2 DEF Loaded
  <2> QED BY <2>1 DEF LoadedPlaces
<1>4. Loading(t, mft, all)
  BY <1>1, <1>3 DEF IsLoaded
<1>5. Sound(t) /\ IsFiniteSet(all) /\ Accounts(Files(t), mft, all)
  BY <1>4 DEF Loading
<1>6. NamesHeld(table, mft, all) /\ StreamsHeld(table, mft, all) /\ ChildrenLead(table)
  BY <1>1, <1>4, LoadedHolds, ShapedHolds
<1> HIDE DEF all
<1>7. Slots(table) = Slots(t) /\ Slots(t) \subseteq Frss
  BY <1>1, <1>5, ShapedHas, SoundHas
<1>8. ASSUME NEW f \in Slots(table)
      PROVE  /\ NamesOf(table, f) \in Seq(Links) /\ ChildrenOf(table, f) \in Seq(Children)
             /\ Len(StreamsOf(table, f)) \in Nat
             /\ DOMAIN StreamsOf(table, f) = 1 .. Len(StreamsOf(table, f))
  <2>1. f \in Slots(t) /\ f \in Frss
    BY <1>7
  <2>2. File(t, f) \in FileRecords /\ File(t, f).names = NamesOf(t, f)
        /\ File(t, f).children = ChildrenOf(t, f)
    BY <1>5, <2>1, FileTyped DEF File
  <2>3. NamesOf(t, f) \in Seq(Links) /\ ChildrenOf(t, f) \in Seq(Children)
    BY <2>2 DEF FileRecords
  <2>4. NamesOf(table, f) = NamesOf(t, f) /\ ChildrenOf(table, f) = ChildrenOf(t, f)
    BY <1>1, <1>5, <2>1, ShapedHas
  <2>5. /\ StreamsOf(t, f) \in Seq(Streams) /\ Len(StreamsOf(table, f)) = Len(StreamsOf(t, f))
        /\ DOMAIN StreamsOf(table, f) = DOMAIN StreamsOf(t, f)
    BY <1>1, <1>5, <2>1, StreamsAlike
  <2>6. PICK s \in Seq(Streams) : s = StreamsOf(t, f)
    BY <2>5
  <2>7. Len(s) \in Nat /\ DOMAIN s = 1 .. Len(s)
    OBVIOUS
  <2> QED BY <2>3, <2>4, <2>5, <2>6, <2>7
<1>9. ASSUME NEW f \in Frss
      PROVE  LET names == NamesOf(table, f)
                 links == LinksAmong(mft, all, f)
             IN IF f \in Slots(table)
                THEN /\ Len(names) = Rec(table, f).nameCount
                     /\ Len(names) = Cardinality(links)
                     /\ {<<l.name, l.parent>> : l \in Range(names)}
                           = {<<AttributeAt(mft, x).name, AttributeAt(mft, x).parent>> : x \in links}
                ELSE links = {}
  BY <1>6 DEF NamesHeld
<1>10. ASSUME NEW f \in Slots(table), NEW l \in Range(NamesOf(table, f))
       PROVE  \E x \in LinksAmong(mft, all, f) : AttributeAt(mft, x).parent = l.parent
  <2>1. {<<k.name, k.parent>> : k \in Range(NamesOf(table, f))}
           = {<<AttributeAt(mft, x).name, AttributeAt(mft, x).parent>> : x \in LinksAmong(mft, all, f)}
    BY <1>7, <1>9
  <2>2. PICK x \in LinksAmong(mft, all, f) :
           <<AttributeAt(mft, x).name, AttributeAt(mft, x).parent>> = <<l.name, l.parent>>
    BY <2>1
  <2> QED BY <2>2
<1>11. /\ \A f \in Frss : \A x \in LinksAmong(mft, all, f) :
             LET p == AttributeAt(mft, x).parent
             IN Cardinality(LinksAmong(mft, all, p)) = 1 /\ DirsAmong(mft, all, p) # {}
       /\ \A f \in {kRootFRS, kVolumeFRS} :
             /\ Cardinality(LinksAmong(mft, all, f)) = 1
             /\ \A x \in LinksAmong(mft, all, f) : AttributeAt(mft, x).parent = kRootFRS
  BY <1>2, DirectoriesAssumption DEF all
<1>12. ASSUME NEW f \in Frss, Cardinality(LinksAmong(mft, all, f)) = 1
       PROVE  f \in Slots(table) /\ Len(NamesOf(table, f)) = 1
  <2>1. LinksAmong(mft, all, f) # {}
    BY <1>12, FS_EmptySet
  <2> QED BY <1>9, <1>12, <2>1
<1>13. ASSUME NEW p \in Slots(table), DirsAmong(mft, all, p) # {} PROVE DirPositions(table, p) # {}
  <2>1. Cardinality(DirPositions(table, p)) = 1
    BY <1>6, <1>7, <1>13 DEF StreamsHeld
  <2> QED BY <2>1, FS_EmptySet
<1>14. ASSUME NEW f \in Frss, NEW x \in LinksAmong(mft, all, f)
       PROVE  AttributeAt(mft, x).parent \in Frss
  <2>1. x \in all /\ AttributeAt(mft, x).kind = "name"
    BY DEF LinksAmong
  <2>2. PICK g \in Frss : x[1] = g /\ x[2] \in DOMAIN mft[g].attributes
    BY <2>1 DEF all, PlacesIn
  <2>3. mft[g] \in MftRecords
    BY <1>2, VolumesAssumption
  <2>4. mft[g].attributes \in Seq(NameAttributes \cup StreamAttributes)
    BY <2>3 DEF MftRecords
  <2>5. AttributeAt(mft, x) \in NameAttributes \cup StreamAttributes
    BY <2>2, <2>4 DEF AttributeAt
  <2>6. AttributeAt(mft, x) \in NameAttributes
    BY <2>1, <2>5 DEF StreamAttributes
  <2> QED BY <2>6 DEF NameAttributes
<1>15. ASSUME NEW f \in Slots(table), NEW l \in Range(NamesOf(table, f))
       PROVE  /\ l.parent \in Slots(table) /\ Len(NamesOf(table, l.parent)) = 1
              /\ DirPositions(table, l.parent) # {}
  <2>1. PICK x \in LinksAmong(mft, all, f) : AttributeAt(mft, x).parent = l.parent
    BY <1>10
  <2>2. /\ l.parent \in Frss /\ Cardinality(LinksAmong(mft, all, l.parent)) = 1
        /\ DirsAmong(mft, all, l.parent) # {}
    BY <1>7, <1>11, <1>14, <2>1
  <2> QED BY <1>12, <1>13, <2>2
<1>16. ASSUME NEW f \in {kRootFRS, kVolumeFRS}
       PROVE  /\ f \in Slots(table) /\ Len(NamesOf(table, f)) = 1
              /\ \A l \in Range(NamesOf(table, f)) : l.parent = kRootFRS
  <2>1. f \in Frss
    BY FrssAssumption
  <2>2. f \in Slots(table) /\ Len(NamesOf(table, f)) = 1
    BY <1>11, <1>12, <2>1
  <2> QED BY <1>10, <1>11, <2>2
<1>17. IsFiniteSet(NameKeys(table)) /\ 2 * Cardinality(NameKeys(table)) < MaxSteps
  <2>1. IsFiniteSet(NameKeys(table)) /\ Cardinality(NameKeys(table)) =< Cardinality(all)
    BY <1>5, <1>7, <1>8, <1>9, PlacesOfNames
  <2>2. 2 * Cardinality(all) < MaxSteps
    BY <1>2, StepsAssumption DEF all
  <2>3. Cardinality(all) \in Nat /\ Cardinality(NameKeys(table)) \in Nat /\ MaxSteps \in Nat
    BY <1>5, <2>1, FS_CardinalityType, MaxStepsAssumption
  <2> QED BY <2>1, <2>2, <2>3
<1> QED BY <1>6, <1>7, <1>8, <1>9, <1>15, <1>16, <1>17 DEF Tree

-----------------------------------------------------------------------------
(* Calls of the walk. *)

CallRecords(t) ==
    {c \in [frs : Slots(t), name : Nat, depth : Nat, path : Seq(Strings)] :
        c.name + 1 \in DOMAIN NamesOf(t, c.frs)}

VisitRecords(t) == [frs : Slots(t), name : Nat, stream : Nat, path : Seq(Strings)]

TargetRecords(t) == [record : Slots(t), nameIndex : Nat]

\* The child entries of a directory are different names in it, and all that are.
LEMMA ChildrenNamed ==
  ASSUME NEW t, Tree(t), NEW p \in Slots(t)
  PROVE  LET children == ChildrenOf(t, p)
         IN /\ Len(children) \in Nat /\ DOMAIN children = 1 .. Len(children)
            /\ \A j \in DOMAIN children :
                  /\ children[j].record \in Slots(t) \ {p} /\ children[j].nameIndex \in Nat
                  /\ \E n \in DOMAIN NamesOf(t, children[j].record) :
                        /\ NamesOf(t, children[j].record)[n].parent = p
                        /\ children[j].nameIndex = Len(NamesOf(t, children[j].record)) - n
            /\ \A i, j \in DOMAIN children :
                  children[i].record = children[j].record /\ children[i].nameIndex = children[j].nameIndex
                  => i = j
            /\ \A f \in Slots(t) \ {p} : \A n \in DOMAIN NamesOf(t, f) :
                  NamesOf(t, f)[n].parent = p =>
                  \E j \in DOMAIN children : /\ children[j].record = f
                                             /\ children[j].nameIndex = Len(NamesOf(t, f)) - n
<1>1. PICK c \in Seq(Children) : c = ChildrenOf(t, p)
  BY DEF Tree
<1>2. Len(c) \in Nat /\ DOMAIN c = 1 .. Len(c) /\ \A j \in 1 .. Len(c) : c[j] \in Children
  OBVIOUS
<1> DEFINE pair(e) == <<e.record, e.nameIndex>>
           entries == {pair(e) : e \in Range(c)}
           leads(f) == {<<f, Rec(t, f).nameCount - n>> :
                           n \in {j \in DOMAIN NamesOf(t, f) : NamesOf(t, f)[j].parent = p}}
<1>3. Len(c) = Cardinality(entries) /\ entries = UNION {leads(f) : f \in Slots(t) \ {p}}
  BY <1>1 DEF Tree, ChildrenLead
<1>4. \A f \in Slots(t) : Rec(t, f).nameCount = Len(NamesOf(t, f))
  BY DEF Tree
<1>5. \A e \in Range(c) : \E f \in Slots(t) \ {p} : pair(e) \in leads(f)
  <2> HIDE DEF leads, pair
  <2> QED BY <1>3
<1>6. ASSUME NEW j \in DOMAIN c
      PROVE  /\ c[j].record \in Slots(t) \ {p} /\ c[j].nameIndex \in Nat
             /\ \E n \in DOMAIN NamesOf(t, c[j].record) :
                   /\ NamesOf(t, c[j].record)[n].parent = p
                   /\ c[j].nameIndex = Len(NamesOf(t, c[j].record)) - n
  <2>1. c[j] \in Range(c) /\ c[j] \in Children
    BY <1>2 DEF Range
  <2>2. PICK f \in Slots(t) \ {p} : pair(c[j]) \in leads(f)
    BY <1>5, <2>1
  <2>3. PICK n \in DOMAIN NamesOf(t, f) : /\ NamesOf(t, f)[n].parent = p
                                          /\ pair(c[j]) = <<f, Rec(t, f).nameCount - n>>
    BY <2>2
  <2> QED BY <1>4, <2>1, <2>3 DEF Children
<1>7. ASSUME NEW i \in DOMAIN c, NEW j \in DOMAIN c, pair(c[i]) = pair(c[j]) PROVE i = j
  <2> DEFINE g == [k \in 1 .. Len(c) |-> pair(c[k])]
  <2>1. g \in Surjection(1 .. Len(c), entries)
    <3>1. \A k \in 1 .. Len(c) : pair(c[k]) \in entries
      BY <1>2 DEF Range
    <3>2. \A x \in entries : \E k \in 1 .. Len(c) : g[k] = x
      <4>1. ASSUME NEW x \in entries PROVE \E k \in 1 .. Len(c) : g[k] = x
        <5>1. PICK e \in Range(c) : x = pair(e)
          OBVIOUS
        <5>2. PICK k \in DOMAIN c : e = c[k]
          BY DEF Range
        <5> QED BY <1>2, <5>1, <5>2
      <4> QED BY <4>1
    <3>3. g \in [1 .. Len(c) -> entries]
      BY <3>1
    <3> HIDE DEF g, entries
    <3> QED BY <3>2, <3>3 DEF Surjection
  <2>2. IsFiniteSet(1 .. Len(c)) /\ Cardinality(1 .. Len(c)) = Len(c)
    <3>1. PICK k \in Nat : k = Len(c)
      BY <1>2
    <3>2. IsFiniteSet(1 .. k) /\ Cardinality(1 .. k) = k
      BY FS_Interval
    <3> QED BY <3>1, <3>2
  <2>3. Cardinality(entries) = Cardinality(1 .. Len(c))
    BY <1>3, <2>2
  <2> HIDE DEF g, entries
  <2>4. g \in Injection(1 .. Len(c), entries)
    BY <2>1, <2>2, <2>3, FS_SurjSameCardinalityImpliesInj
  <2>5. g[i] = pair(c[i]) /\ g[j] = pair(c[j]) /\ i \in 1 .. Len(c) /\ j \in 1 .. Len(c)
    BY <1>2 DEF g
  <2> QED BY <1>7, <2>4, <2>5 DEF Injection, IsInjective
<1>8. ASSUME NEW f \in Slots(t) \ {p}, NEW n \in DOMAIN NamesOf(t, f), NamesOf(t, f)[n].parent = p
      PROVE  \E j \in DOMAIN c : c[j].record = f /\ c[j].nameIndex = Len(NamesOf(t, f)) - n
  <2>1. <<f, Len(NamesOf(t, f)) - n>> \in leads(f)
    BY <1>4, <1>8
  <2>2. <<f, Len(NamesOf(t, f)) - n>> \in entries
    <3> HIDE DEF leads, entries
    <3> QED BY <1>3, <2>1
  <2>3. PICK e \in Range(c) : pair(e) = <<f, Len(NamesOf(t, f)) - n>>
    BY <2>2
  <2>4. PICK j \in DOMAIN c : e = c[j]
    BY DEF Range
  <2> QED BY <2>3, <2>4
<1> QED BY <1>1, <1>2, <1>6, <1>7, <1>8

\* Numbers in ascending order, as a sequence.
LEMMA AscendingSeq ==
  ASSUME NEW n \in Nat, NEW S \in SUBSET (1 .. n)
  PROVE  LET s == Ascending(S)
         IN /\ Len(s) \in Nat /\ DOMAIN s = 1 .. Len(s)
            /\ \A k \in DOMAIN s : s[k] \in S
            /\ \A k, l \in DOMAIN s : s[k] = s[l] => k = l
            /\ \A i \in S : \E k \in DOMAIN s : s[k] = i
<1>1. PICK m \in Nat : m = Cardinality(S)
  BY AscendingIs
<1>2. PICK s : s = Ascending(S)
  OBVIOUS
<1>3. /\ s \in [1 .. m -> S]
      /\ \A k, l \in 1 .. m : k < l => s[k] < s[l]
      /\ \A i \in S : \E k \in 1 .. m : s[k] = i
  BY <1>1, <1>2, AscendingIs
<1>4. Len(s) = m /\ DOMAIN s = 1 .. m
  BY <1>3
<1>5. ASSUME NEW k \in 1 .. m, NEW l \in 1 .. m, s[k] = s[l] PROVE k = l
  <2>1. s[k] \in 1 .. n /\ s[l] \in 1 .. n
    <3>1. s[k] \in S /\ s[l] \in S
      BY ONLY <1>3, <1>5
    <3> QED BY <3>1
  <2>2. ~(k < l) /\ ~(l < k)
    BY <1>3, <1>5, <2>1
  <2> QED BY <2>2
<1> QED BY <1>2, <1>3, <1>4, <1>5

\* The calls of the search for one name of a file: once for every stream that is shown there.
LEMMA CallsAre ==
  ASSUME NEW t, Tree(t), NEW c \in CallRecords(t), NEW attributes
  PROVE  LET calls == Calls(t, c, attributes)
             streams == StreamsOf(t, c.frs)
         IN /\ calls \in Seq(VisitRecords(t))
            /\ \A v \in Range(calls) :
                  /\ v.frs = c.frs /\ v.name = c.name /\ v.path = c.path
                  /\ v.stream + 1 \in DOMAIN streams
                  /\ IsCalled(c.frs, streams[v.stream + 1], c.depth)
            /\ \A i, j \in DOMAIN calls : calls[i].stream = calls[j].stream => i = j
            /\ IsWalked(c.frs, attributes) =>
                  \A k \in DOMAIN streams :
                      IsShown(streams[k], attributes) /\ IsCalled(c.frs, streams[k], c.depth)
                      => \E v \in Range(calls) : v.stream = k - 1
<1>0. c.frs \in Slots(t) /\ c.name \in Nat /\ c.depth \in Nat /\ c.path \in Seq(Strings)
  BY DEF CallRecords
<1> DEFINE calls == Calls(t, c, attributes)
           streams == StreamsOf(t, c.frs)
           S == {k \in DOMAIN streams : IsShown(streams[k], attributes)
                                        /\ IsCalled(c.frs, streams[k], c.depth)}
           numbers == Ascending(S)
           visit(k) == [frs |-> c.frs, name |-> c.name, stream |-> k - 1, path |-> c.path]
<1>1. Len(streams) \in Nat /\ S \in SUBSET (1 .. Len(streams)) /\ DOMAIN streams = 1 .. Len(streams)
  BY <1>0 DEF Tree
<1>2. calls = IF IsWalked(c.frs, attributes) THEN [j \in DOMAIN numbers |-> visit(numbers[j])]
              ELSE <<>>
  BY DEF Calls
<1>3. /\ Len(numbers) \in Nat /\ DOMAIN numbers = 1 .. Len(numbers)
      /\ \A k \in DOMAIN numbers : numbers[k] \in S
      /\ \A k, l \in DOMAIN numbers : numbers[k] = numbers[l] => k = l
      /\ \A i \in S : \E k \in DOMAIN numbers : numbers[k] = i
  <2> HIDE DEF S, streams
  <2> QED BY <1>1, AscendingSeq
<1>4. \A k \in S : /\ k \in DOMAIN streams /\ k \in Nat \ {0} /\ IsShown(streams[k], attributes)
                   /\ IsCalled(c.frs, streams[k], c.depth)
  BY <1>1
<1>5. \A k \in DOMAIN streams :
         IsShown(streams[k], attributes) /\ IsCalled(c.frs, streams[k], c.depth) => k \in S
  OBVIOUS
<1> HIDE DEF S, streams, numbers, calls
<1>6. \A k \in S : visit(k) \in VisitRecords(t) /\ (k - 1) + 1 = k
  BY <1>0, <1>4 DEF VisitRecords
<1>7. CASE ~IsWalked(c.frs, attributes)
  <2>1. calls = <<>> /\ calls \in Seq(VisitRecords(t)) /\ DOMAIN calls = {}
    BY <1>2, <1>7
  <2>2. Range(calls) = {}
    BY <2>1 DEF Range
  <2> QED BY <1>7, <2>1, <2>2 DEF calls, streams
<1>8. CASE IsWalked(c.frs, attributes)
  <2>1. calls = [j \in 1 .. Len(numbers) |-> visit(numbers[j])]
    BY <1>2, <1>3, <1>8
  <2>2. DOMAIN calls = DOMAIN numbers /\ \A j \in DOMAIN numbers : calls[j] = visit(numbers[j])
    BY <1>3, <2>1
  <2>3. calls \in Seq(VisitRecords(t))
    <3>1. \A j \in 1 .. Len(numbers) : visit(numbers[j]) \in VisitRecords(t)
      BY <1>3, <1>6
    <3> HIDE DEF visit
    <3> QED BY <1>3, <2>1, <3>1
  <2>4. ASSUME NEW v \in Range(calls)
        PROVE  /\ v.frs = c.frs /\ v.name = c.name /\ v.path = c.path
               /\ v.stream + 1 \in DOMAIN streams
               /\ IsCalled(c.frs, streams[v.stream + 1], c.depth)
    <3>1. PICK j \in DOMAIN calls : v = calls[j]
      BY DEF Range
    <3>2. PICK k \in S : v = visit(k)
      BY <1>3, <2>2, <3>1
    <3> QED BY <1>4, <1>6, <3>2
  <2>5. ASSUME NEW i \in DOMAIN calls, NEW j \in DOMAIN calls, calls[i].stream = calls[j].stream
        PROVE  i = j
    <3>1. numbers[i] - 1 = numbers[j] - 1
      BY <2>2, <2>5
    <3>2. numbers[i] \in Nat /\ numbers[j] \in Nat
      BY <1>3, <1>4, <2>2
    <3>3. numbers[i] = numbers[j]
      BY <3>1, <3>2
    <3> QED BY <1>3, <2>2, <3>3
  <2>6. ASSUME NEW k \in DOMAIN streams, IsShown(streams[k], attributes),
               IsCalled(c.frs, streams[k], c.depth)
        PROVE  \E v \in Range(calls) : v.stream = k - 1
    <3>1. PICK j \in DOMAIN numbers : numbers[j] = k
      BY <1>3, <1>5, <2>6
    <3>2. calls[j] \in Range(calls) /\ calls[j].stream = k - 1
      BY <2>2, <3>1 DEF Range
    <3> QED BY <3>2
  <2> QED BY <2>3, <2>4, <2>5, <2>6 DEF calls, streams
<1> QED BY <1>7, <1>8

\* The names that one target leads to: the one of that number, if it is in the directory.
LEMMA NamesTakenIs ==
  ASSUME NEW t, Tree(t), NEW c \in CallRecords(t), NEW target \in TargetRecords(t)
  PROVE  LET names == NamesOf(t, target.record)
             n == target.nameIndex + 1
             taken == NamesTaken(t, c, target)
         IN /\ taken \in Seq(CallRecords(t)) /\ Len(taken) =< 1
            /\ \A x \in Range(taken) :
                  /\ n \in DOMAIN names /\ names[n].parent = c.frs
                  /\ x = [frs |-> target.record, name |-> target.nameIndex, depth |-> c.depth + 1,
                          path |-> Append(c.path, names[n].name)]
            /\ n \in DOMAIN names /\ names[n].parent = c.frs =>
                  \E x \in Range(taken) : x.frs = target.record /\ x.name = target.nameIndex
<1> DEFINE names == NamesOf(t, target.record)
           n == target.nameIndex + 1
           S == {j \in DOMAIN names : names[j].parent = c.frs /\ j - 1 = target.nameIndex}
           call(j) == [frs |-> target.record, name |-> j - 1, depth |-> c.depth + 1,
                       path |-> Append(c.path, names[j].name)]
           numbers == Ascending(S)
           taken == NamesTaken(t, c, target)
<1>1. /\ target.record \in Slots(t) /\ target.nameIndex \in Nat /\ c.depth \in Nat
      /\ c.path \in Seq(Strings)
  BY DEF TargetRecords, CallRecords
<1>2. names \in Seq(Links)
  BY <1>1 DEF Tree
<1>3. Len(names) \in Nat /\ DOMAIN names = 1 .. Len(names) /\ \A j \in DOMAIN names : names[j] \in Links
  <2>1. PICK s \in Seq(Links) : s = names
    BY <1>2
  <2>2. Len(s) \in Nat /\ DOMAIN s = 1 .. Len(s) /\ \A j \in DOMAIN s : s[j] \in Links
    OBVIOUS
  <2> QED BY <2>1, <2>2
<1> HIDE DEF names
<1>4. S = IF n \in DOMAIN names /\ names[n].parent = c.frs THEN {n} ELSE {}
  BY <1>1, <1>3
<1>5. taken = [i \in DOMAIN numbers |-> call(numbers[i])]
  BY DEF NamesTaken, names
<1>6. S \in SUBSET (1 .. Len(names))
  BY <1>3
<1>7. \A j \in S : /\ j = n /\ n \in DOMAIN names /\ names[n].parent = c.frs
                   /\ names[n].name \in Strings /\ n - 1 = target.nameIndex
  BY <1>1, <1>3, <1>4 DEF Links
<1> HIDE DEF S
<1>8. /\ Len(numbers) \in Nat /\ DOMAIN numbers = 1 .. Len(numbers)
      /\ \A k \in DOMAIN numbers : numbers[k] \in S
      /\ \A k, l \in DOMAIN numbers : numbers[k] = numbers[l] => k = l
      /\ \A i \in S : \E k \in DOMAIN numbers : numbers[k] = i
  BY <1>3, <1>6, AscendingSeq
<1> HIDE DEF numbers
<1>9. \A j \in S : call(j) = [frs |-> target.record, name |-> target.nameIndex,
                              depth |-> c.depth + 1, path |-> Append(c.path, names[n].name)]
  BY <1>7
<1>10. \A j \in S : call(j) \in CallRecords(t)
  <2>1. ASSUME NEW x \in Strings PROVE Append(c.path, x) \in Seq(Strings)
    BY <1>1
  <2> QED BY <1>1, <1>7, <1>9, <2>1 DEF CallRecords, names
<1> HIDE DEF n, call
<1>11. taken = [i \in 1 .. Len(numbers) |-> call(numbers[i])]
  BY <1>5, <1>8
<1> HIDE DEF taken
<1>12. taken \in Seq(CallRecords(t)) /\ Len(taken) = Len(numbers) /\ DOMAIN taken = DOMAIN numbers
       /\ \A i \in DOMAIN numbers : taken[i] = call(numbers[i])
  BY <1>8, <1>10, <1>11
<1>13. Len(numbers) =< 1
  <2>1. SUFFICES ASSUME Len(numbers) > 1 PROVE FALSE
    BY <1>8
  <2>2. 1 \in DOMAIN numbers /\ 2 \in DOMAIN numbers
    BY <1>8, <2>1
  <2>3. numbers[1] = numbers[2]
    BY <1>7, <1>8, <2>2
  <2> QED BY <1>8, <2>2, <2>3
<1>14. ASSUME NEW x \in Range(taken)
       PROVE  /\ n \in DOMAIN names /\ names[n].parent = c.frs
              /\ x = [frs |-> target.record, name |-> target.nameIndex, depth |-> c.depth + 1,
                      path |-> Append(c.path, names[n].name)]
  <2>1. PICK j \in S : x = call(j)
    BY <1>8, <1>12 DEF Range
  <2> QED BY <1>7, <1>9, <2>1
<1>15. ASSUME n \in DOMAIN names, names[n].parent = c.frs
       PROVE  \E x \in Range(taken) : x.frs = target.record /\ x.name = target.nameIndex
  <2>1. n \in S
    BY <1>4, <1>15
  <2>2. PICK k \in DOMAIN numbers : numbers[k] = n
    BY <1>8, <2>1
  <2>3. taken[k] \in Range(taken) /\ taken[k] = call(n)
    BY <1>12, <2>2 DEF Range
  <2> QED BY <1>9, <2>1, <2>3
<1> QED BY <1>12, <1>13, <1>14, <1>15 DEF n, names, taken

\* The call that stands for the top of the volume is one for the root.
IsPlaced(c) == (c.depth = 0) => c.frs = kRootFRS

GoesBelow(c) == c.frs # kRootFRS \/ c.depth = 0

TargetsBelow(t, c) ==
    FlattenSeq([j \in DOMAIN ChildrenOf(t, c.frs) |-> Targets(ChildrenOf(t, c.frs)[j], c.depth + 1)])

\* The targets below a file are different; every child is one, and at the top the root is.
LEMMA TargetsAre ==
  ASSUME NEW t, Tree(t), NEW c \in CallRecords(t), IsPlaced(c)
  PROVE  LET targets == TargetsBelow(t, c)
             children == ChildrenOf(t, c.frs)
         IN /\ targets \in Seq(TargetRecords(t))
            /\ \A i, j \in DOMAIN targets : targets[i] = targets[j] => i = j
            /\ \A j \in DOMAIN children :
                  [record |-> children[j].record, nameIndex |-> children[j].nameIndex] \in Range(targets)
            /\ c.depth = 0 => [record |-> kRootFRS, nameIndex |-> 0] \in Range(targets)
<1> DEFINE p == c.frs
           children == ChildrenOf(t, p)
           own(e) == [record |-> e.record, nameIndex |-> e.nameIndex]
           root == [record |-> kRootFRS, nameIndex |-> 0]
           TR == TargetRecords(t)
           K == [x \in TR |-> x]
           s == [j \in DOMAIN children |-> Targets(children[j], c.depth + 1)]
           Twice(e) == e.record = kVolumeFRS /\ c.depth + 1 = 1
<1>1. p \in Slots(t) /\ c.depth \in Nat
  BY DEF CallRecords
<1>2. /\ Len(children) \in Nat /\ DOMAIN children = 1 .. Len(children)
      /\ \A j \in DOMAIN children :
            /\ children[j].record \in Slots(t) \ {p} /\ children[j].nameIndex \in Nat
            /\ \E n \in DOMAIN NamesOf(t, children[j].record) :
                  /\ NamesOf(t, children[j].record)[n].parent = p
                  /\ children[j].nameIndex = Len(NamesOf(t, children[j].record)) - n
      /\ \A i, j \in DOMAIN children :
            children[i].record = children[j].record /\ children[i].nameIndex = children[j].nameIndex
            => i = j
      /\ \A f \in Slots(t) \ {p} : \A n \in DOMAIN NamesOf(t, f) :
            NamesOf(t, f)[n].parent = p =>
            \E j \in DOMAIN children : /\ children[j].record = f
                                       /\ children[j].nameIndex = Len(NamesOf(t, f)) - n
  BY <1>1, ChildrenNamed
<1>3. \A j \in DOMAIN children : own(children[j]) \in TR
  BY <1>2 DEF TargetRecords
<1>4. root \in TR /\ kRootFRS # kVolumeFRS
  BY DEF Tree, TargetRecords, kRootFRS, kVolumeFRS
<1> HIDE DEF children, root
<1>5. \A j \in DOMAIN children :
         s[j] = IF Twice(children[j]) THEN <<own(children[j]), root>> ELSE <<own(children[j])>>
  <2>1. \A a, b : <<a>> \o <<b>> = <<a, b>> /\ <<a>> \o <<>> = <<a>>
    BY PairIs
  <2> SUFFICES ASSUME NEW j \in DOMAIN children
               PROVE  s[j] = IF Twice(children[j]) THEN <<own(children[j]), root>>
                             ELSE <<own(children[j])>>
    OBVIOUS
  <2>2. s[j] = <<own(children[j])>> \o (IF Twice(children[j]) THEN <<root>> ELSE <<>>)
    BY DEF Targets, root
  <2> HIDE DEF own, s, Twice
  <2> QED BY <2>1, <2>2
<1> HIDE DEF own, s
<1>6. ASSUME NEW j \in DOMAIN children
      PROVE  /\ s[j] \in Seq(TR)
             /\ Range(s[j]) = {own(children[j])} \cup (IF Twice(children[j]) THEN {root} ELSE {})
  <2>1. CASE Twice(children[j])
    <3>1. s[j] = <<own(children[j]), root>>
      BY <1>5, <2>1
    <3>2. DOMAIN s[j] = {1, 2} /\ s[j][1] = own(children[j]) /\ s[j][2] = root
      BY <3>1
    <3>3. Range(s[j]) = {own(children[j]), root}
      BY <3>2 DEF Range
    <3>4. s[j] \in Seq(TR)
      <4> HIDE DEF TR
      <4> QED BY <1>3, <1>4, <3>1
    <3> QED BY <2>1, <3>3, <3>4
  <2>2. CASE ~Twice(children[j])
    <3>1. s[j] = <<own(children[j])>>
      BY <1>5, <2>2
    <3>2. DOMAIN s[j] = {1} /\ s[j][1] = own(children[j])
      BY <3>1
    <3> QED BY <1>3, <2>2, <3>1, <3>2 DEF Range
  <2> QED BY <2>1, <2>2
<1>7. s \in [1 .. Len(children) -> Seq(TR)]
  BY <1>2, <1>6 DEF s
<1>8. \A j \in DOMAIN children : Twice(children[j]) => p = kRootFRS
  BY <1>1 DEF IsPlaced
<1>9. \A j \in DOMAIN children : Twice(children[j]) => own(children[j]) # root
  <2>1. \A j \in DOMAIN children : own(children[j]).record = children[j].record
    BY DEF own
  <2> QED BY <1>4, <2>1 DEF root
<1>10. \A i, j \in DOMAIN children : own(children[i]) = own(children[j]) => i = j
  <2>1. \A j \in DOMAIN children : /\ own(children[j]).record = children[j].record
                                   /\ own(children[j]).nameIndex = children[j].nameIndex
    BY DEF own
  <2> QED BY <1>2, <2>1
<1>11. \A i, j \in DOMAIN children : Twice(children[i]) => own(children[j]) # root
  <2>1. \A j \in DOMAIN children : own(children[j]).record = children[j].record
    BY DEF own
  <2>2. \A j \in DOMAIN children : children[j].record # p
    BY <1>2
  <2> QED BY <1>8, <2>1, <2>2 DEF root
<1>12. ASSUME NEW i \in DOMAIN children, NEW j \in DOMAIN children,
              Twice(children[i]), Twice(children[j])
       PROVE  i = j
  <2>1. Len(NamesOf(t, kVolumeFRS)) = 1
    BY DEF Tree
  <2>2. DOMAIN NamesOf(t, kVolumeFRS) = {1}
    <3>1. NamesOf(t, kVolumeFRS) \in Seq(Links)
      BY DEF Tree
    <3>2. PICK q \in Seq(Links) : q = NamesOf(t, kVolumeFRS)
      BY <3>1
    <3>3. DOMAIN q = 1 .. Len(q) /\ 1 .. 1 = {1}
      OBVIOUS
    <3> QED BY <2>1, <3>2, <3>3
  <2>3. children[i].record = kVolumeFRS /\ children[j].record = kVolumeFRS
    BY <1>12
  <2>4. ASSUME NEW k \in DOMAIN children, children[k].record = kVolumeFRS
        PROVE  children[k].nameIndex = 0
    <3>1. PICK n \in DOMAIN NamesOf(t, kVolumeFRS) :
             children[k].nameIndex = Len(NamesOf(t, kVolumeFRS)) - n
      BY <1>2, <2>4
    <3> QED BY <2>1, <2>2, <3>1
  <2> QED BY <1>2, <2>3, <2>4
<1> HIDE DEF Twice
<1>13. \A j \in DOMAIN children : OnceBy(s[j], K)
  <2> SUFFICES ASSUME NEW j \in DOMAIN children PROVE OnceBy(s[j], K)
    OBVIOUS
  <2>1. CASE Twice(children[j])
    <3>1. s[j] = <<own(children[j]), root>>
      BY <1>5, <2>1
    <3>2. DOMAIN s[j] = {1, 2} /\ s[j][1] = own(children[j]) /\ s[j][2] = root
      BY <3>1
    <3>3. K[own(children[j])] = own(children[j]) /\ K[root] = root
      BY <1>3, <1>4
    <3> QED BY <1>9, <2>1, <3>2, <3>3 DEF OnceBy
  <2>2. CASE ~Twice(children[j])
    <3>1. s[j] = <<own(children[j])>>
      BY <1>5, <2>2
    <3>2. DOMAIN s[j] = {1}
      BY <3>1
    <3> QED BY <3>2 DEF OnceBy
  <2> QED BY <2>1, <2>2
<1>14. \A i, j \in DOMAIN children : i # j => \A x \in Range(s[i]), y \in Range(s[j]) : K[x] # K[y]
  <2>1. \A x \in TR : K[x] = x
    OBVIOUS
  <2> HIDE DEF K, s, TR, Twice
  <2>2. \A i, j \in DOMAIN children : i # j => \A x \in Range(s[i]), y \in Range(s[j]) : x # y
    <3> SUFFICES ASSUME NEW i \in DOMAIN children, NEW j \in DOMAIN children, i # j,
                        NEW x \in Range(s[i]), NEW y \in Range(s[j])
                 PROVE  x # y
      OBVIOUS
    <3>1. x = own(children[i]) \/ (Twice(children[i]) /\ x = root)
      BY <1>6
    <3>2. y = own(children[j]) \/ (Twice(children[j]) /\ y = root)
      BY <1>6
    <3> QED BY <1>10, <1>11, <1>12, <3>1, <3>2
  <2>3. \A j \in DOMAIN children : \A x \in Range(s[j]) : x \in TR
    BY <1>3, <1>4, <1>6
  <2> QED BY <2>1, <2>2, <2>3
<1> DEFINE targets == TargetsBelow(t, c)
<1>15. targets = FlattenSeq(s)
  BY DEF TargetsBelow, children, s
<1> HIDE DEF K, targets, TR
<1>16. /\ targets \in Seq(TR) /\ OnceBy(targets, K)
       /\ Range(targets) = UNION {Range(s[j]) : j \in 1 .. Len(children)}
  <2>1. PICK n \in Nat : n = Len(children)
    BY <1>2
  <2>2. s \in [1 .. n -> Seq(TR)] /\ DOMAIN children = 1 .. n
    BY <1>2, <1>7, <2>1
  <2>3. /\ FlattenSeq(s) \in Seq(TR) /\ OnceBy(FlattenSeq(s), K)
        /\ Range(FlattenSeq(s)) = UNION {Range(s[j]) : j \in 1 .. n}
    <3>1. \A i \in 1 .. n : OnceBy(s[i], K)
      BY <1>13, <2>2
    <3>2. \A i, j \in 1 .. n : i # j => \A x \in Range(s[i]), y \in Range(s[j]) : K[x] # K[y]
      BY <1>14, <2>2
    <3>3. n \in Nat /\ s \in [1 .. n -> Seq(TR)]
      BY <2>2
    <3>4. ApartBy(s, n, K)
      BY <3>1, <3>2 DEF ApartBy
    <3> QED BY <3>3, <3>4, FlattenIs
  <2> QED BY <1>15, <2>1, <2>3
<1>17. ASSUME NEW i \in DOMAIN targets, NEW j \in DOMAIN targets, targets[i] = targets[j]
       PROVE  i = j
  BY <1>16, <1>17 DEF OnceBy
<1>18. \A j \in DOMAIN children : own(children[j]) \in Range(targets)
  <2> SUFFICES ASSUME NEW j \in DOMAIN children PROVE own(children[j]) \in Range(targets)
    OBVIOUS
  <2>1. own(children[j]) \in Range(s[j])
    BY <1>6
  <2>2. j \in 1 .. Len(children)
    BY <1>2
  <2> QED BY <1>16, <2>1, <2>2
<1>19. ASSUME c.depth = 0 PROVE root \in Range(targets)
  <2>1. p = kRootFRS
    BY <1>19 DEF IsPlaced
  <2>2. /\ NamesOf(t, kVolumeFRS) \in Seq(Links) /\ Len(NamesOf(t, kVolumeFRS)) = 1
        /\ \A l \in Range(NamesOf(t, kVolumeFRS)) : l.parent = kRootFRS
        /\ kVolumeFRS \in Slots(t)
    BY DEF Tree
  <2>3. 1 \in DOMAIN NamesOf(t, kVolumeFRS) /\ NamesOf(t, kVolumeFRS)[1].parent = p
    <3>1. PICK q \in Seq(Links) : q = NamesOf(t, kVolumeFRS)
      BY <2>2
    <3>2. 1 \in DOMAIN q
      BY <2>2, <3>1
    <3>3. q[1] \in Range(q)
      BY <3>2 DEF Range
    <3> QED BY <2>1, <2>2, <3>1, <3>2, <3>3
  <2>4. PICK j \in DOMAIN children : children[j].record = kVolumeFRS
    BY <1>2, <1>4, <2>1, <2>2, <2>3
  <2>5. Twice(children[j])
    BY <1>19, <2>4 DEF Twice
  <2>6. root \in Range(s[j])
    BY <1>6, <2>5
  <2> QED BY <1>2, <1>16, <2>6
<1> QED BY <1>16, <1>17, <1>18, <1>19 DEF targets, TR, children, own, root

NameOf(t) == [c \in CallRecords(t) |-> <<c.frs, c.name>>]

\* The calls below a file are for different names in it, and for all files that have one name.
LEMMA BelowAre ==
  ASSUME NEW t, Tree(t), NEW c \in CallRecords(t), IsPlaced(c)
  PROVE  LET below == Below(t, c)
         IN /\ below \in Seq(CallRecords(t)) /\ OnceBy(below, NameOf(t))
            /\ \A x \in Range(below) :
                  /\ x.depth = c.depth + 1
                  /\ NamesOf(t, x.frs)[x.name + 1].parent = c.frs
                  /\ x.path = Append(c.path, NamesOf(t, x.frs)[x.name + 1].name)
            /\ \A f \in Slots(t) :
                  (/\ Len(NamesOf(t, f)) = 1 /\ NamesOf(t, f)[1].parent = c.frs
                   /\ f # c.frs \/ c.depth = 0)
                  => \E x \in Range(below) : x.frs = f /\ x.name = 0
<1> DEFINE children == ChildrenOf(t, c.frs)
           targets == TargetsBelow(t, c)
           s == [j \in DOMAIN targets |-> NamesTaken(t, c, targets[j])]
           below == Below(t, c)
           own(e) == [record |-> e.record, nameIndex |-> e.nameIndex]
<1>1. c.frs \in Slots(t) /\ c.depth \in Nat
  BY DEF CallRecords
<1>2. /\ targets \in Seq(TargetRecords(t))
      /\ \A i, j \in DOMAIN targets : targets[i] = targets[j] => i = j
      /\ \A j \in DOMAIN children : own(children[j]) \in Range(targets)
      /\ c.depth = 0 => [record |-> kRootFRS, nameIndex |-> 0] \in Range(targets)
  BY TargetsAre
<1>3. below = FlattenSeq(s)
  BY DEF Below, TargetsBelow
<1> HIDE DEF targets, below
<1>4. PICK n \in Nat : n = Len(targets) /\ DOMAIN targets = 1 .. n
  BY <1>2
<1>5. \A j \in 1 .. n : targets[j] \in TargetRecords(t)
  BY <1>2, <1>4
<1> DEFINE names(j) == NamesOf(t, targets[j].record)
           k(j) == targets[j].nameIndex + 1
<1>6. \A j \in 1 .. n :
         /\ s[j] \in Seq(CallRecords(t)) /\ Len(s[j]) =< 1
         /\ \A x \in Range(s[j]) :
               /\ k(j) \in DOMAIN names(j) /\ names(j)[k(j)].parent = c.frs
               /\ x = [frs |-> targets[j].record, name |-> targets[j].nameIndex,
                       depth |-> c.depth + 1, path |-> Append(c.path, names(j)[k(j)].name)]
         /\ k(j) \in DOMAIN names(j) /\ names(j)[k(j)].parent = c.frs =>
               \E x \in Range(s[j]) : x.frs = targets[j].record /\ x.name = targets[j].nameIndex
  <2> SUFFICES ASSUME NEW j \in 1 .. n
               PROVE  /\ s[j] \in Seq(CallRecords(t)) /\ Len(s[j]) =< 1
                      /\ \A x \in Range(s[j]) :
                            /\ k(j) \in DOMAIN names(j) /\ names(j)[k(j)].parent = c.frs
                            /\ x = [frs |-> targets[j].record, name |-> targets[j].nameIndex,
                                    depth |-> c.depth + 1,
                                    path |-> Append(c.path, names(j)[k(j)].name)]
                      /\ k(j) \in DOMAIN names(j) /\ names(j)[k(j)].parent = c.frs =>
                            \E x \in Range(s[j]) : /\ x.frs = targets[j].record
                                                   /\ x.name = targets[j].nameIndex
    OBVIOUS
  <2>1. s[j] = NamesTaken(t, c, targets[j]) /\ targets[j] \in TargetRecords(t)
    BY <1>4, <1>5
  <2>2. PICK target \in TargetRecords(t) : target = targets[j]
    BY <2>1
  <2> HIDE DEF s
  <2> QED BY <2>1, <2>2, NamesTakenIs
<1>7. s \in [1 .. n -> Seq(CallRecords(t))]
  BY <1>4, <1>6
<1> HIDE DEF s
<1>8. ApartBy(s, n, NameOf(t))
  <2>1. ASSUME NEW j \in 1 .. n PROVE OnceBy(s[j], NameOf(t))
    <3>1. PICK q \in Seq(CallRecords(t)) : q = s[j]
      BY <1>6
    <3>2. Len(q) \in Nat /\ Len(q) =< 1 /\ DOMAIN q = 1 .. Len(q)
      BY <1>6, <3>1
    <3>3. \A a, b \in DOMAIN q : a = b
      BY <3>2
    <3> QED BY <3>1, <3>3 DEF OnceBy
  <2>2. ASSUME NEW i \in 1 .. n, NEW j \in 1 .. n, i # j, NEW x \in Range(s[i]), NEW y \in Range(s[j])
        PROVE  NameOf(t)[x] # NameOf(t)[y]
    <3>1. x \in CallRecords(t) /\ y \in CallRecords(t)
      BY <1>6 DEF Range
    <3>2. /\ x.frs = targets[i].record /\ x.name = targets[i].nameIndex
          /\ y.frs = targets[j].record /\ y.name = targets[j].nameIndex
      BY <1>6, <2>2
    <3>3. targets[i] # targets[j]
      BY <1>2, <1>4, <2>2
    <3>4. targets[i] \in TargetRecords(t) /\ targets[j] \in TargetRecords(t)
      BY <1>5
    <3>5. x.frs # y.frs \/ x.name # y.name
      BY <3>2, <3>3, <3>4 DEF TargetRecords
    <3> QED BY <3>1, <3>5 DEF NameOf
  <2> QED BY <2>1, <2>2 DEF ApartBy
<1>9. /\ below \in Seq(CallRecords(t)) /\ OnceBy(below, NameOf(t))
      /\ Range(below) = UNION {Range(s[j]) : j \in 1 .. n}
  BY <1>3, <1>7, <1>8, FlattenIs
<1>10. ASSUME NEW x \in Range(below)
       PROVE  /\ x.depth = c.depth + 1
              /\ NamesOf(t, x.frs)[x.name + 1].parent = c.frs
              /\ x.path = Append(c.path, NamesOf(t, x.frs)[x.name + 1].name)
  <2>1. PICK j \in 1 .. n : x \in Range(s[j])
    BY <1>9
  <2>2. /\ names(j)[k(j)].parent = c.frs
        /\ x = [frs |-> targets[j].record, name |-> targets[j].nameIndex,
                depth |-> c.depth + 1, path |-> Append(c.path, names(j)[k(j)].name)]
    BY <1>6, <2>1
  <2> QED BY <2>2
<1>11. ASSUME NEW f \in Slots(t), Len(NamesOf(t, f)) = 1, NamesOf(t, f)[1].parent = c.frs,
              f # c.frs \/ c.depth = 0
       PROVE  \E x \in Range(below) : x.frs = f /\ x.name = 0
  <2>1. DOMAIN NamesOf(t, f) = {1}
    <3>1. PICK q \in Seq(Links) : q = NamesOf(t, f)
      BY DEF Tree
    <3>2. DOMAIN q = 1 .. Len(q) /\ 1 .. 1 = {1}
      OBVIOUS
    <3> QED BY <1>11, <3>1, <3>2
  <2>2. \E j \in 1 .. n : targets[j].record = f /\ targets[j].nameIndex = 0
    <3>1. CASE f # c.frs
      <4>0. \A g \in Slots(t) \ {c.frs} : \A i \in DOMAIN NamesOf(t, g) :
               NamesOf(t, g)[i].parent = c.frs =>
               \E j \in DOMAIN children : /\ children[j].record = g
                                          /\ children[j].nameIndex = Len(NamesOf(t, g)) - i
        BY <1>1, ChildrenNamed
      <4>1. PICK j \in DOMAIN children :
               /\ children[j].record = f /\ children[j].nameIndex = Len(NamesOf(t, f)) - 1
        <5>1. f \in Slots(t) \ {c.frs} /\ 1 \in DOMAIN NamesOf(t, f)
          BY <2>1, <3>1
        <5> QED BY <1>11, <4>0, <5>1
      <4>2. own(children[j]) \in Range(targets)
        BY <1>2
      <4>3. PICK i \in DOMAIN targets : targets[i] = own(children[j])
        BY <4>2 DEF Range
      <4> QED BY <1>4, <1>11, <4>1, <4>3
    <3>2. CASE f = c.frs
      <4>1. c.depth = 0 /\ f = kRootFRS
        BY <1>11, <3>2 DEF IsPlaced
      <4>2. [record |-> kRootFRS, nameIndex |-> 0] \in Range(targets)
        BY <1>2, <4>1
      <4>3. PICK i \in DOMAIN targets : targets[i] = [record |-> kRootFRS, nameIndex |-> 0]
        BY <4>2 DEF Range
      <4> QED BY <1>4, <4>1, <4>3
    <3> QED BY <3>1, <3>2
  <2>3. PICK j \in 1 .. n : targets[j].record = f /\ targets[j].nameIndex = 0
    BY <2>2
  <2>4. k(j) \in DOMAIN names(j) /\ names(j)[k(j)].parent = c.frs
    BY <1>11, <2>1, <2>3
  <2>5. PICK x \in Range(s[j]) : x.frs = f /\ x.name = 0
    BY <1>6, <2>3, <2>4
  <2> QED BY <1>9, <2>5
<1> QED BY <1>9, <1>10, <1>11 DEF below

-----------------------------------------------------------------------------
(* The walk of a search. *)

Start(t) ==
    [j \in DOMAIN NamesOf(t, kRootFRS) |->
        [frs |-> kRootFRS, name |-> j - 1, depth |-> 0, path |-> <<>>]]

IsStepping(walk, w, t, attributes, refused, n) ==
    walk = [k \in 0 .. n |-> IF k = 0 THEN w ELSE WalkStep(t, attributes, refused, walk[k - 1])]

\* The steps of a walk can be taken one by one.
LEMMA SteppingExists ==
  ASSUME NEW w, NEW t, NEW attributes, NEW refused, NEW n \in Nat
  PROVE  \E walk : IsStepping(walk, w, t, attributes, refused, n)
<1> DEFINE T == {k \in 0 .. n : \E walk : IsStepping(walk, w, t, attributes, refused, k)}
           Next1(u) == WalkStep(t, attributes, refused, u)
<1>1. ASSUME NEW k \in 0 .. n, \A j \in 0 .. k - 1 : j \in T PROVE k \in T
  <2>1. CASE k = 0
    <3> DEFINE f == [i \in 0 .. 0 |-> w]
    <3>1. IsStepping(f, w, t, attributes, refused, 0)
      BY DEF IsStepping
    <3> QED BY <2>1, <3>1
  <2>2. CASE k # 0
    <3>1. k - 1 \in 0 .. k - 1
      BY <2>2
    <3>2. PICK g : IsStepping(g, w, t, attributes, refused, k - 1)
      BY <1>1, <3>1
    <3>3. g = [i \in 0 .. k - 1 |-> IF i = 0 THEN w ELSE Next1(g[i - 1])]
      BY <3>2 DEF IsStepping
    <3> DEFINE f == [i \in 0 .. k |-> IF i = 0 THEN w ELSE Next1(g[i - 1])]
    <3> HIDE DEF Next1
    <3>4. ASSUME NEW i \in 0 .. k - 1 PROVE f[i] = g[i]
      <4>1. i \in 0 .. k
        OBVIOUS
      <4>2. PICK B : B = IF i = 0 THEN w ELSE Next1(g[i - 1])
        OBVIOUS
      <4>3. f[i] = B
        BY <4>1, <4>2
      <4>4. g[i] = B
        BY <3>3, <4>2
      <4> QED BY <4>3, <4>4
    <3>5. ASSUME NEW i \in 0 .. k, i # 0 PROVE f[i - 1] = g[i - 1]
      <4>1. i - 1 \in 0 .. k - 1
        BY <3>5
      <4> QED BY <3>4, <4>1
    <3>6. f = [i \in 0 .. k |-> IF i = 0 THEN w ELSE Next1(f[i - 1])]
      BY <3>5
    <3>7. IsStepping(f, w, t, attributes, refused, k)
      BY <3>6 DEF IsStepping, Next1
    <3> QED BY <3>7
  <2> QED BY <2>1, <2>2
<1> HIDE DEF T
<1>2. n \in T
  BY <1>1, UpTo
<1> QED BY <1>2 DEF T

\* What a search sees is what its walk has seen after its last step.
LEMMA VisitsIs ==
  ASSUME NEW t, NEW attributes, NEW refused
  PROVE  \E walk : /\ walk[0] = [todo |-> Start(t), visits |-> <<>>]
                   /\ \A k \in 1 .. MaxSteps : walk[k] = WalkStep(t, attributes, refused, walk[k - 1])
                   /\ Visits(t, attributes, refused) = walk[MaxSteps].visits
<1> DEFINE w == [todo |-> Start(t), visits |-> <<>>]
           walk == CHOOSE f : f = [k \in 0 .. MaxSteps |->
                                      IF k = 0 THEN w ELSE WalkStep(t, attributes, refused, f[k - 1])]
<1>1. Visits(t, attributes, refused) = walk[MaxSteps].visits
  BY DEF Visits, Start
<1> HIDE DEF w
<1>2. \E f : f = [k \in 0 .. MaxSteps |->
                     IF k = 0 THEN w ELSE WalkStep(t, attributes, refused, f[k - 1])]
  <2>1. PICK f : IsStepping(f, w, t, attributes, refused, MaxSteps)
    BY MaxStepsAssumption, SteppingExists
  <2> QED BY <2>1 DEF IsStepping
<1>3. walk = [k \in 0 .. MaxSteps |->
                 IF k = 0 THEN w ELSE WalkStep(t, attributes, refused, walk[k - 1])]
  BY <1>2
<1> HIDE DEF walk
<1>4. walk[0] = w /\ \A k \in 1 .. MaxSteps : walk[k] = WalkStep(t, attributes, refused, walk[k - 1])
  BY <1>3, MaxStepsAssumption
<1> QED BY <1>1, <1>4 DEF w

\* The walk starts with one call, for the root.
LEMMA StartIs ==
  ASSUME NEW t, Tree(t)
  PROVE  LET c == [frs |-> kRootFRS, name |-> 0, depth |-> 0, path |-> <<>>]
         IN Start(t) = <<c>> /\ c \in CallRecords(t)
<1>1. NamesOf(t, kRootFRS) \in Seq(Links) /\ Len(NamesOf(t, kRootFRS)) = 1 /\ kRootFRS \in Slots(t)
  BY DEF Tree
<1>2. DOMAIN NamesOf(t, kRootFRS) = 1 .. 1
  BY <1>1
<1>3. Start(t) = [j \in 1 .. 1 |-> [frs |-> kRootFRS, name |-> j - 1, depth |-> 0, path |-> <<>>]]
  BY <1>2 DEF Start
<1> DEFINE c == [frs |-> kRootFRS, name |-> 0, depth |-> 0, path |-> <<>>]
<1>4. Start(t) = [j \in 1 .. 1 |-> c]
  BY <1>3
<1>5. c \in CallRecords(t)
  <2>1. <<>> \in Seq(Strings) /\ 0 + 1 \in 1 .. 1
    OBVIOUS
  <2> QED BY <1>1, <1>2, <2>1 DEF CallRecords
<1> HIDE DEF c
<1>6. Start(t) = <<c>>
  BY <1>4
<1> QED BY <1>5, <1>6 DEF c

\* What a call brings: the calls below its file, if it goes there.
Going(t, attributes, refused, c) ==
    GoesBelow(c) /\ Calls(t, c, attributes) # <<>> /\ c.frs \notin refused

StepBelow(t, attributes, refused, c) == IF Going(t, attributes, refused, c) THEN Below(t, c) ELSE <<>>

\* One step of a walk: the first call goes, what is below its file comes, its visits are added.
LEMMA StepIs ==
  ASSUME NEW t, NEW attributes, NEW refused, NEW w, w.todo # <<>>
  PROVE  WalkStep(t, attributes, refused, w)
            = [todo |-> StepBelow(t, attributes, refused, Head(w.todo)) \o Tail(w.todo),
               visits |-> w.visits \o Calls(t, Head(w.todo), attributes)]
BY DEF WalkStep, GoesBelow, StepBelow, Going
-----------------------------------------------------------------------------
(* Paths. *)

IsClimb(g, t, n) == \A k \in 1 .. n : g[k] = Ascend(t, g[k - 1])

\* On its way up, get_path() is at a name of a file.
Stands(t, p, f, name) ==
    /\ p = [key |-> p.key, path |-> p.path, ended |-> p.ended] /\ ~p.ended
    /\ p.path \in Seq(Strings) /\ p.key.frs = f
    /\ NamesOfKey(t, p.key) = {name + 1} /\ HasStreamOfKey(t, p.key)

\* From the file of a call, whatever path it has come from, get_path() finds the call's path.
Climbs(t, c) ==
    \A g : \A n \in Nat : IsClimb(g, t, n) =>
        \A i \in 0 .. n : i + c.depth + 1 =< n /\ Stands(t, g[i], c.frs, c.name) =>
            g[n].path = c.path \o g[i].path

\* The two steps of the way up, spelt out.
LEMMA ClimbEnds ==
  ASSUME NEW p, p = [key |-> p.key, path |-> p.path, ended |-> p.ended]
  PROVE  [p EXCEPT !.ended = TRUE] = [key |-> p.key, path |-> p.path, ended |-> TRUE]
<1>1. PICK k, h, e : k = p.key /\ h = p.path /\ e = p.ended
  OBVIOUS
<1>2. p \in [key : {k}, path : {h}, ended : {e, TRUE}]
  BY <1>1
<1>3. PICK y : y = [p EXCEPT !.ended = TRUE]
  OBVIOUS
<1>4. y \in [key : {k}, path : {h}, ended : {TRUE}]
  BY <1>2, <1>3
<1>5. y = [key |-> k, path |-> h, ended |-> TRUE]
  BY ONLY <1>4
<1> QED BY <1>1, <1>3, <1>5

LEMMA ClimbGoes ==
  ASSUME NEW p, p = [key |-> p.key, path |-> p.path, ended |-> p.ended], NEW up, NEW l
  PROVE  [p EXCEPT !.key = up, !.path = <<l>> \o @]
            = [key |-> up, path |-> <<l>> \o p.path, ended |-> p.ended]
<1>1. PICK k, h, e, z : k = p.key /\ h = p.path /\ e = p.ended /\ z = <<l>> \o p.path
  OBVIOUS
<1>2. p \in [key : {k, up}, path : {h, z}, ended : {e}]
  BY <1>1
<1>3. PICK y : y = [p EXCEPT !.key = up, !.path = z]
  OBVIOUS
<1>4. y \in [key : {up}, path : {z}, ended : {e}]
  BY <1>2, <1>3
<1>5. y = [key |-> up, path |-> z, ended |-> e]
  BY ONLY <1>4
<1>6. [p EXCEPT !.key = up, !.path = <<l>> \o @] = [p EXCEPT !.key = up, !.path = z]
  BY <1>1
<1> QED BY <1>1, <1>3, <1>5, <1>6

\* At the root the way up ends.
LEMMA ClimbsRoot ==
  ASSUME NEW t, NEW c, c.frs = kRootFRS, c.depth = 0, c.path = <<>>
  PROVE  Climbs(t, c)
<1> SUFFICES ASSUME NEW n \in Nat, NEW g, IsClimb(g, t, n), NEW i \in 0 .. n, i + c.depth + 1 =< n,
                    Stands(t, g[i], c.frs, c.name)
             PROVE  g[n].path = c.path \o g[i].path
  BY DEF Climbs
<1> DEFINE p == g[i]
           q == [key |-> p.key, path |-> p.path, ended |-> TRUE]
<1>1. /\ p = [key |-> p.key, path |-> p.path, ended |-> p.ended] /\ ~p.ended
      /\ p.path \in Seq(Strings) /\ p.key.frs = kRootFRS
      /\ NamesOfKey(t, p.key) # {} /\ HasStreamOfKey(t, p.key)
  BY DEF Stands
<1> HIDE DEF p
<1>2. [p EXCEPT !.ended = TRUE] = q
  BY <1>1, ClimbEnds
<1>3. Ascend(t, p) = q
  <2>1. Ascend(t, p) = [p EXCEPT !.ended = TRUE]
    BY <1>1 DEF Ascend
  <2> QED BY <1>2, <2>1
<1>4. Ascend(t, q) = q
  BY DEF Ascend
<1>5. n - (i + 1) \in Nat /\ i + 1 \in 1 .. n /\ (i + 1) - 1 = i
  OBVIOUS
<1>6. g[i + 1] = q
  <2>1. g[i + 1] = Ascend(t, g[(i + 1) - 1])
    BY <1>5 DEF IsClimb
  <2> QED BY <1>3, <1>5, <2>1 DEF p
<1> HIDE DEF q
<1> DEFINE T == {k \in 0 .. n - (i + 1) : g[i + 1 + k] = q}
<1>7. ASSUME NEW k \in 0 .. n - (i + 1), \A j \in 0 .. k - 1 : j \in T PROVE k \in T
  <2>1. CASE k = 0
    BY <1>6, <2>1
  <2>2. CASE k # 0
    <3>1. k - 1 \in 0 .. k - 1 /\ i + 1 + k \in 1 .. n /\ (i + 1 + k) - 1 = i + 1 + (k - 1)
      BY <2>2
    <3>2. g[i + 1 + (k - 1)] = q
      BY <1>7, <3>1
    <3>3. g[i + 1 + k] = Ascend(t, g[(i + 1 + k) - 1])
      BY <3>1 DEF IsClimb
    <3> QED BY <1>4, <3>1, <3>2, <3>3
  <2> QED BY <2>1, <2>2
<1> HIDE DEF T
<1>8. n - (i + 1) \in T
  <2>1. 0 .. n - (i + 1) \subseteq T
    BY ONLY <1>5, <1>7, UpTo
  <2> QED BY <1>5, <2>1
<1>9. g[n] = q
  <2>1. i + 1 + (n - (i + 1)) = n
    OBVIOUS
  <2> QED BY <1>8, <2>1 DEF T
<1>10. <<>> \o p.path = p.path
  BY <1>1
<1> QED BY <1>9, <1>10 DEF q, p

\* A file below one from which get_path() finds the way.
LEMMA ClimbsBelow ==
  ASSUME NEW t, Tree(t), NEW c \in CallRecords(t), Climbs(t, c), NEW x \in CallRecords(t),
         x.frs # kRootFRS, x.depth = c.depth + 1, NamesOf(t, x.frs)[x.name + 1].parent = c.frs,
         x.path = Append(c.path, NamesOf(t, x.frs)[x.name + 1].name)
  PROVE  Climbs(t, x)
<1> SUFFICES ASSUME NEW n \in Nat, NEW g, IsClimb(g, t, n), NEW i \in 0 .. n, i + x.depth + 1 =< n,
                    Stands(t, g[i], x.frs, x.name)
             PROVE  g[n].path = x.path \o g[i].path
  BY DEF Climbs
<1> DEFINE p == g[i]
           m == x.name + 1
           link == NamesOf(t, x.frs)[m]
           up == Parent(link, m)
           q == [key |-> up, path |-> <<link.name>> \o p.path, ended |-> p.ended]
<1>1. /\ p = [key |-> p.key, path |-> p.path, ended |-> p.ended] /\ ~p.ended
      /\ p.path \in Seq(Strings) /\ p.key.frs = x.frs
      /\ NamesOfKey(t, p.key) = {m} /\ HasStreamOfKey(t, p.key)
  BY DEF Stands
<1>2. /\ x.frs \in Slots(t) /\ x.name \in Nat /\ m \in DOMAIN NamesOf(t, x.frs)
      /\ c.frs \in Slots(t) /\ c.name \in Nat /\ c.name + 1 \in DOMAIN NamesOf(t, c.frs)
      /\ c.depth \in Nat /\ c.path \in Seq(Strings)
  BY DEF CallRecords
<1>3. link \in Links /\ link \in Range(NamesOf(t, x.frs))
  <2>1. PICK s \in Seq(Links) : s = NamesOf(t, x.frs)
    BY <1>2 DEF Tree
  <2>2. \A j \in DOMAIN s : s[j] \in Links /\ s[j] \in Range(s)
    BY DEF Range
  <2> QED BY <1>2, <2>1, <2>2
<1>4. Len(NamesOf(t, c.frs)) = 1 /\ DirPositions(t, c.frs) # {}
  BY <1>2, <1>3 DEF Tree
<1>5. DOMAIN NamesOf(t, c.frs) = {1} /\ c.name = 0
  <2>1. PICK s \in Seq(Links) : s = NamesOf(t, c.frs)
    BY <1>2 DEF Tree
  <2>2. DOMAIN s = 1 .. Len(s) /\ 1 .. 1 = {1}
    OBVIOUS
  <2> QED BY <1>2, <1>4, <2>1, <2>2
<1>6. link.parent = c.frs /\ link.name \in Strings
  BY <1>3 DEF Links
<1>7. Min({m}) = m
  BY <1>2 DEF Min
<1> HIDE DEF p, m, link
<1>8. [p EXCEPT !.key = up, !.path = <<link.name>> \o @] = q
  <2> HIDE DEF up
  <2>1. PICK a, k, l : a = p /\ k = up /\ l = link.name
    OBVIOUS
  <2>2. a = [key |-> a.key, path |-> a.path, ended |-> a.ended]
    BY <1>1, <2>1
  <2>3. [a EXCEPT !.key = k, !.path = <<l>> \o @]
           = [key |-> k, path |-> <<l>> \o a.path, ended |-> a.ended]
    BY ONLY <2>2, ClimbGoes
  <2> QED BY <2>1, <2>3
<1>9. Ascend(t, p) = q
  <2>1. Ascend(t, p) = [p EXCEPT !.key = up, !.path = <<link.name>> \o @]
    BY <1>1, <1>7 DEF Ascend, link
  <2> QED BY <1>8, <2>1
<1>10. i + 1 \in 1 .. n /\ i + 1 \in 0 .. n /\ (i + 1) - 1 = i /\ (i + 1) + c.depth + 1 =< n
  BY <1>2
<1>11. g[i + 1] = q
  <2>1. g[i + 1] = Ascend(t, g[(i + 1) - 1])
    BY <1>10 DEF IsClimb
  <2> QED BY <1>9, <1>10, <2>1 DEF p
<1>12. <<link.name>> \o p.path \in Seq(Strings)
  BY <1>1, <1>6
<1>13. Stands(t, q, c.frs, c.name)
  <2>1. up.frs = c.frs /\ up.name = AnyInfo /\ up.stream = AnyInfo
    BY <1>6 DEF Parent
  <2>2. NamesOfKey(t, up) = {c.name + 1}
    BY <1>5, <2>1 DEF NamesOfKey
  <2>3. HasStreamOfKey(t, up)
    BY <1>4, <2>1 DEF HasStreamOfKey, DirPositions
  <2> HIDE DEF up
  <2> QED BY <1>1, <1>12, <2>1, <2>2, <2>3 DEF Stands
<1>14. g[n].path = c.path \o (<<link.name>> \o p.path)
  <2>1. g[n].path = c.path \o g[i + 1].path
    <3>1. Stands(t, g[i + 1], c.frs, c.name)
      BY <1>11, <1>13
    <3>2. \A j \in 0 .. n : j + c.depth + 1 =< n /\ Stands(t, g[j], c.frs, c.name) =>
             g[n].path = c.path \o g[j].path
      BY DEF Climbs
    <3> QED BY <1>10, <3>1, <3>2
  <2>2. q.path = <<link.name>> \o p.path
    OBVIOUS
  <2> HIDE DEF q, up
  <2> QED BY <1>11, <2>1, <2>2
<1>15. c.path \o (<<link.name>> \o p.path) = Append(c.path, link.name) \o p.path
  <2>1. PICK a, b \in Seq(Strings), e \in Strings : a = c.path /\ b = p.path /\ e = link.name
    BY <1>1, <1>2, <1>6
  <2>2. a \o (<<e>> \o b) = Append(a, e) \o b
    OBVIOUS
  <2> QED BY <2>1, <2>2
<1> QED BY <1>14, <1>15 DEF p, link, m

IsRising(g, p, t, n) == g = [k \in 0 .. n |-> IF k = 0 THEN p ELSE Ascend(t, g[k - 1])]

\* The way up can be gone step by step.
LEMMA RisingExists ==
  ASSUME NEW p, NEW t, NEW n \in Nat
  PROVE  \E g : IsRising(g, p, t, n)
<1> DEFINE T == {k \in 0 .. n : \E g : IsRising(g, p, t, k)}
           Next1(u) == Ascend(t, u)
<1>1. ASSUME NEW k \in 0 .. n, \A j \in 0 .. k - 1 : j \in T PROVE k \in T
  <2>1. CASE k = 0
    <3> DEFINE f == [i \in 0 .. 0 |-> p]
    <3>1. IsRising(f, p, t, 0)
      BY DEF IsRising
    <3> QED BY <2>1, <3>1
  <2>2. CASE k # 0
    <3>1. k - 1 \in 0 .. k - 1
      BY <2>2
    <3>2. PICK g : IsRising(g, p, t, k - 1)
      BY <1>1, <3>1
    <3>3. g = [i \in 0 .. k - 1 |-> IF i = 0 THEN p ELSE Next1(g[i - 1])]
      BY <3>2 DEF IsRising
    <3> DEFINE f == [i \in 0 .. k |-> IF i = 0 THEN p ELSE Next1(g[i - 1])]
    <3> HIDE DEF Next1
    <3>4. ASSUME NEW i \in 0 .. k - 1 PROVE f[i] = g[i]
      <4>1. i \in 0 .. k
        OBVIOUS
      <4>2. PICK B : B = IF i = 0 THEN p ELSE Next1(g[i - 1])
        OBVIOUS
      <4>3. f[i] = B
        BY <4>1, <4>2
      <4>4. g[i] = B
        BY <3>3, <4>2
      <4> QED BY <4>3, <4>4
    <3>5. ASSUME NEW i \in 0 .. k, i # 0 PROVE f[i - 1] = g[i - 1]
      <4>1. i - 1 \in 0 .. k - 1
        BY <3>5
      <4> QED BY <3>4, <4>1
    <3>6. f = [i \in 0 .. k |-> IF i = 0 THEN p ELSE Next1(f[i - 1])]
      BY <3>5
    <3>7. IsRising(f, p, t, k)
      BY <3>6 DEF IsRising, Next1
    <3> QED BY <3>7
  <2> QED BY <2>1, <2>2
<1> HIDE DEF T
<1>2. n \in T
  BY <1>1, UpTo
<1> QED BY <1>2 DEF T

\* get_path() finds what is at the end of the way up from its key.
LEMMA PathIs ==
  ASSUME NEW t, NEW key
  PROVE  \E g : /\ g[0] = [key |-> key, path |-> <<>>, ended |-> FALSE]
                /\ IsClimb(g, t, MaxSteps) /\ PathOf(t, key) = g[MaxSteps].path
<1> DEFINE p == [key |-> key, path |-> <<>>, ended |-> FALSE]
           g == CHOOSE f : f = [k \in 0 .. MaxSteps |-> IF k = 0 THEN p ELSE Ascend(t, f[k - 1])]
<1>1. PathOf(t, key) = g[MaxSteps].path
  BY DEF PathOf
<1> HIDE DEF p
<1>2. \E f : f = [k \in 0 .. MaxSteps |-> IF k = 0 THEN p ELSE Ascend(t, f[k - 1])]
  <2>1. PICK f : IsRising(f, p, t, MaxSteps)
    BY MaxStepsAssumption, RisingExists
  <2> QED BY <2>1 DEF IsRising
<1>3. g = [k \in 0 .. MaxSteps |-> IF k = 0 THEN p ELSE Ascend(t, g[k - 1])]
  BY <1>2
<1> HIDE DEF g
<1>4. g[0] = p /\ \A k \in 1 .. MaxSteps : g[k] = Ascend(t, g[k - 1])
  BY <1>3, MaxStepsAssumption
<1> QED BY <1>1, <1>4 DEF p, IsClimb

\* What has been seen: a stream of a name, which leads to it by the path.
PathVisits(t) ==
    {v \in VisitRecords(t) :
        /\ v.name + 1 \in DOMAIN NamesOf(t, v.frs) /\ v.stream + 1 \in DOMAIN StreamsOf(t, v.frs)
        /\ v.frs # kRootFRS =>
              \E c \in CallRecords(t) :
                  /\ Climbs(t, c) /\ c.depth + 1 =< MaxSteps
                  /\ c.frs = v.frs /\ c.name = v.name /\ c.path = v.path}

\* A visit's path is the one that get_path() finds.
LEMMA VisitClimbs ==
  ASSUME NEW t, Tree(t), NEW v \in PathVisits(t), v.frs # kRootFRS
  PROVE  PathOf(t, v) = v.path
<1>1. PICK c \in CallRecords(t) : /\ Climbs(t, c) /\ c.depth + 1 =< MaxSteps
                                  /\ c.frs = v.frs /\ c.name = v.name /\ c.path = v.path
  BY DEF PathVisits
<1>2. PICK g : /\ g[0] = [key |-> v, path |-> <<>>, ended |-> FALSE]
               /\ IsClimb(g, t, MaxSteps) /\ PathOf(t, v) = g[MaxSteps].path
  BY PathIs
<1>3. /\ v.name \in Nat /\ v.stream \in Nat /\ v.name + 1 \in DOMAIN NamesOf(t, v.frs)
      /\ v.stream + 1 \in DOMAIN StreamsOf(t, v.frs) /\ v.frs \in Slots(t)
  BY DEF PathVisits, VisitRecords
<1>4. DOMAIN NamesOf(t, v.frs) \subseteq Nat
  <2>1. PICK s \in Seq(Links) : s = NamesOf(t, v.frs)
    BY <1>3 DEF Tree
  <2> QED BY <2>1
<1>5. NamesOfKey(t, v) = {v.name + 1}
  BY <1>3, <1>4 DEF NamesOfKey, AnyInfo
<1>6. HasStreamOfKey(t, v)
  <2>1. v.stream # AnyInfo /\ (v.stream + 1) - 1 = v.stream
    BY <1>3 DEF AnyInfo
  <2> QED BY <1>3, <2>1 DEF HasStreamOfKey
<1>7. Stands(t, g[0], c.frs, c.name)
  <2>1. <<>> \in Seq(Strings)
    OBVIOUS
  <2> QED BY <1>1, <1>2, <1>5, <1>6, <2>1 DEF Stands
<1>8. MaxSteps \in Nat /\ 0 \in 0 .. MaxSteps /\ c.depth \in Nat /\ 0 + c.depth + 1 =< MaxSteps
  BY <1>1, MaxStepsAssumption DEF CallRecords
<1>9. g[MaxSteps].path = c.path \o g[0].path
  <2>1. \A j \in 0 .. MaxSteps : j + c.depth + 1 =< MaxSteps /\ Stands(t, g[j], c.frs, c.name) =>
           g[MaxSteps].path = c.path \o g[j].path
    BY <1>1, <1>2, <1>8 DEF Climbs
  <2> QED BY <1>7, <1>8, <2>1
<1>10. c.path \o <<>> = c.path
  <2>1. c.path \in Seq(Strings)
    BY DEF CallRecords
  <2> QED BY <2>1
<1> QED BY <1>1, <1>2, <1>9, <1>10

\* Calls to come: the root's, and others from whose files get_path() finds the way.
PathCalls(t, k) ==
    {c \in CallRecords(t) : IsPlaced(c) /\ c.depth =< k /\ (GoesBelow(c) => Climbs(t, c))}

PathsKept(t, w, k) == w.todo \in Seq(PathCalls(t, k)) /\ w.visits \in Seq(PathVisits(t))

\* What is below a call to come are calls to come.
LEMMA PathsBelow ==
  ASSUME NEW t, Tree(t), NEW k \in Nat, NEW c \in PathCalls(t, k), GoesBelow(c)
  PROVE  Below(t, c) \in Seq(PathCalls(t, k + 1))
<1>1. c \in CallRecords(t) /\ IsPlaced(c) /\ Climbs(t, c) /\ c.depth =< k /\ c.depth \in Nat
  BY DEF PathCalls, CallRecords
<1>2. PICK s : s = Below(t, c)
  OBVIOUS
<1>3. /\ s \in Seq(CallRecords(t))
      /\ \A x \in Range(s) : /\ x.depth = c.depth + 1
                             /\ NamesOf(t, x.frs)[x.name + 1].parent = c.frs
                             /\ x.path = Append(c.path, NamesOf(t, x.frs)[x.name + 1].name)
  BY <1>1, <1>2, BelowAre
<1>4. ASSUME NEW i \in 1 .. Len(s) PROVE s[i] \in PathCalls(t, k + 1)
  <2>1. PICK x \in CallRecords(t) : x = s[i] /\ x \in Range(s)
    BY <1>3 DEF Range
  <2>2. x.depth = c.depth + 1 /\ x.depth # 0 /\ x.depth =< k + 1
    BY <1>1, <1>3, <2>1
  <2>3. GoesBelow(x) => Climbs(t, x)
    <3>1. ASSUME x.frs # kRootFRS PROVE Climbs(t, x)
      BY <1>1, <1>3, <2>1, <2>2, <3>1, ClimbsBelow
    <3> QED BY <2>2, <3>1 DEF GoesBelow
  <2> QED BY <2>1, <2>2, <2>3 DEF PathCalls, IsPlaced
<1>5. Len(s) \in Nat /\ s = [i \in 1 .. Len(s) |-> s[i]]
  BY <1>3
<1> QED BY <1>2, <1>4, <1>5

\* The visits of a call to come have its path.
LEMMA PathsCalled ==
  ASSUME NEW t, Tree(t), NEW attributes, NEW k \in Nat, k + 1 =< MaxSteps, NEW c \in PathCalls(t, k)
  PROVE  Calls(t, c, attributes) \in Seq(PathVisits(t))
<1>1. c \in CallRecords(t) /\ c.depth =< k /\ c.depth \in Nat /\ (GoesBelow(c) => Climbs(t, c))
      /\ c.name + 1 \in DOMAIN NamesOf(t, c.frs)
  BY DEF PathCalls, CallRecords
<1>2. PICK s : s = Calls(t, c, attributes)
  OBVIOUS
<1>3. /\ s \in Seq(VisitRecords(t))
      /\ \A v \in Range(s) : /\ v.frs = c.frs /\ v.name = c.name /\ v.path = c.path
                             /\ v.stream + 1 \in DOMAIN StreamsOf(t, c.frs)
  BY <1>1, <1>2, CallsAre
<1>4. ASSUME NEW i \in 1 .. Len(s) PROVE s[i] \in PathVisits(t)
  <2>1. PICK v \in VisitRecords(t) : v = s[i] /\ v \in Range(s)
    BY <1>3 DEF Range
  <2>2. /\ v.frs = c.frs /\ v.name = c.name /\ v.path = c.path
        /\ v.stream + 1 \in DOMAIN StreamsOf(t, v.frs) /\ v.name + 1 \in DOMAIN NamesOf(t, v.frs)
    BY <1>1, <1>3, <2>1
  <2>3. c.depth + 1 =< MaxSteps
    BY <1>1, MaxStepsAssumption
  <2>4. v.frs # kRootFRS => Climbs(t, c)
    BY <1>1, <2>2 DEF GoesBelow
  <2> QED BY <1>1, <2>1, <2>2, <2>3, <2>4 DEF PathVisits
<1>5. Len(s) \in Nat /\ s = [i \in 1 .. Len(s) |-> s[i]]
  BY <1>3
<1> QED BY <1>2, <1>4, <1>5

\* Each step of a search keeps them.
LEMMA PathsStep ==
  ASSUME NEW t, Tree(t), NEW attributes, NEW refused, NEW k \in Nat, k + 1 =< MaxSteps,
         NEW w, PathsKept(t, w, k)
  PROVE  PathsKept(t, WalkStep(t, attributes, refused, w), k + 1)
<1>1. PathCalls(t, k) \subseteq PathCalls(t, k + 1)
  BY DEF PathCalls, CallRecords
<1>2. PICK todo \in Seq(PathCalls(t, k)), visits \in Seq(PathVisits(t)) :
         todo = w.todo /\ visits = w.visits
  BY DEF PathsKept
<1>3. CASE todo = <<>>
  <2>1. WalkStep(t, attributes, refused, w) = w
    BY <1>2, <1>3 DEF WalkStep
  <2>2. <<>> \in Seq(PathCalls(t, k + 1))
    OBVIOUS
  <2> QED BY <1>2, <1>3, <2>1, <2>2 DEF PathsKept
<1>4. CASE todo # <<>>
  <2>1. PICK c, rest : c = Head(todo) /\ rest = Tail(todo)
    OBVIOUS
  <2>2. PICK calls, below : /\ calls = Calls(t, c, attributes)
                            /\ below = StepBelow(t, attributes, refused, c)
    OBVIOUS
  <2>3. PICK td, vs : td = below \o rest /\ vs = visits \o calls
    OBVIOUS
  <2>4. WalkStep(t, attributes, refused, w) = [todo |-> td, visits |-> vs]
    BY <1>2, <1>4, <2>1, <2>2, <2>3, StepIs
  <2>5. c \in PathCalls(t, k) /\ rest \in Seq(PathCalls(t, k))
    BY <1>4, <2>1
  <2>6. calls \in Seq(PathVisits(t))
    BY <2>2, <2>5, PathsCalled
  <2>7. below \in Seq(PathCalls(t, k + 1))
    <3>1. <<>> \in Seq(PathCalls(t, k + 1))
      OBVIOUS
    <3>2. GoesBelow(c) => Below(t, c) \in Seq(PathCalls(t, k + 1))
      BY <2>5, PathsBelow
    <3> QED BY <2>2, <3>1, <3>2 DEF StepBelow, Going
  <2>8. rest \in Seq(PathCalls(t, k + 1))
    <3>1. \A i \in 1 .. Len(rest) : rest[i] \in PathCalls(t, k + 1)
      BY <1>1, <2>5
    <3>2. Len(rest) \in Nat /\ rest = [i \in 1 .. Len(rest) |-> rest[i]]
      BY <2>5
    <3> QED BY <3>1, <3>2
  <2>9. td \in Seq(PathCalls(t, k + 1)) /\ vs \in Seq(PathVisits(t))
    BY <2>3, <2>6, <2>7, <2>8
  <2> QED BY <2>4, <2>9 DEF PathsKept
<1> QED BY <1>3, <1>4

\* So all visits of a search have the paths that get_path() finds.
LEMMA VisitsClimb ==
  ASSUME NEW t, Tree(t), NEW attributes, NEW refused
  PROVE  Visits(t, attributes, refused) \in Seq(PathVisits(t))
<1>1. PICK walk : /\ walk[0] = [todo |-> Start(t), visits |-> <<>>]
                  /\ \A k \in 1 .. MaxSteps : walk[k] = WalkStep(t, attributes, refused, walk[k - 1])
                  /\ Visits(t, attributes, refused) = walk[MaxSteps].visits
  BY VisitsIs
<1> DEFINE T == {k \in 0 .. MaxSteps : PathsKept(t, walk[k], k)}
<1>2. ASSUME NEW k \in 0 .. MaxSteps, \A j \in 0 .. k - 1 : j \in T PROVE k \in T
  <2>1. CASE k = 0
    <3>1. PICK c : c = [frs |-> kRootFRS, name |-> 0, depth |-> 0, path |-> <<>>]
      OBVIOUS
    <3>2. Start(t) = <<c>> /\ c \in CallRecords(t)
      BY <3>1, StartIs
    <3>3. c \in PathCalls(t, 0)
      <4>1. Climbs(t, c)
        BY <3>1, ClimbsRoot
      <4> QED BY <3>1, <3>2, <4>1 DEF PathCalls, IsPlaced
    <3>4. <<c>> \in Seq(PathCalls(t, 0)) /\ <<>> \in Seq(PathVisits(t))
      BY <3>3
    <3>5. walk[0].todo = Start(t) /\ walk[0].visits = <<>>
      BY <1>1
    <3>6. walk[0].todo = <<c>>
      BY <3>2, <3>5
    <3>7. PathsKept(t, walk[0], 0)
      BY <3>4, <3>5, <3>6 DEF PathsKept
    <3>8. 0 \in 0 .. MaxSteps
      BY MaxStepsAssumption
    <3> QED BY <2>1, <3>7, <3>8
  <2>2. CASE k # 0
    <3>1. k - 1 \in Nat /\ k \in 1 .. MaxSteps /\ k - 1 \in 0 .. k - 1 /\ (k - 1) + 1 = k
          /\ (k - 1) + 1 =< MaxSteps
      BY <2>2, MaxStepsAssumption
    <3>2. PathsKept(t, walk[k - 1], k - 1)
      BY <1>2, <3>1
    <3>3. PathsKept(t, WalkStep(t, attributes, refused, walk[k - 1]), (k - 1) + 1)
      <4>1. PICK w : w = walk[k - 1]
        OBVIOUS
      <4>2. PICK j \in Nat : j = k - 1
        BY <3>1
      <4>3. PathsKept(t, WalkStep(t, attributes, refused, w), j + 1)
        <5>1. j + 1 =< MaxSteps /\ PathsKept(t, w, j)
          BY <3>1, <3>2, <4>1, <4>2
        <5> QED BY <5>1, PathsStep
      <4> QED BY <4>1, <4>2, <4>3
    <3> QED BY <1>1, <3>1, <3>3
  <2> QED BY <2>1, <2>2
<1> HIDE DEF T
<1>3. MaxSteps \in T
  BY <1>2, UpTo, MaxStepsAssumption
<1> QED BY <1>1, <1>3 DEF T, PathsKept

-----------------------------------------------------------------------------
(* What a search has seen. *)

SearchOf(t, attributes, refused) ==
    LET visits == Visits(t, attributes, refused)
        overrun == Len(visits) > t.total
    IN [attributes |-> attributes, refused |-> refused, overrun |-> overrun,
        visits |-> IF overrun THEN SubSeq(visits, 1, t.total) ELSE visits]

\* The result is that of some search over the table as it is.
SearchInv ==
    /\ LoadInv
    /\ \/ result = NoSearch
       \/ finished /\ \E attributes \in BOOLEAN, refused \in RefusedSets :
                          result = SearchOf(table, attributes, refused)

\* Once the last chunk has come, no load changes the table that was searched.
THEOREM SearchInvariant == Spec => []SearchInv
<1>1. Init => SearchInv
  BY InitLoadInv DEF Init, SearchInv
<1>2. SearchInv /\ [Next]_vars => SearchInv'
  <2> SUFFICES ASSUME SearchInv, [Next]_vars PROVE SearchInv'
    OBVIOUS
  <2>1. LoadInv /\ LoadInv' /\ finished = (unread = {})
    BY NextLoadInv DEF SearchInv, LoadInv
  <2>2. CASE \E c \in Chunks : Load(c)
    <3>1. ~finished /\ result' = result
      BY <2>1, <2>2 DEF Load
    <3>2. result = NoSearch
      BY <3>1 DEF SearchInv
    <3> QED BY <2>1, <3>1, <3>2 DEF SearchInv, NoSearch
  <2>3. ASSUME NEW attributes \in BOOLEAN, NEW refused \in RefusedSets, Search(attributes, refused)
        PROVE  SearchInv'
    <3>1. finished' /\ result' = SearchOf(table, attributes, refused) /\ table' = table
      BY <2>3 DEF Search, SearchOf
    <3>2. result' = SearchOf(table', attributes, refused)
      BY <3>1
    <3>3. \E a \in BOOLEAN, r \in RefusedSets : result' = SearchOf(table', a, r)
      BY <3>2
    <3> QED BY <2>1, <3>1, <3>3 DEF SearchInv
  <2>4. CASE UNCHANGED vars
    <3>1. table' = table /\ finished' = finished /\ result' = result
      BY <2>4 DEF vars
    <3> QED BY <2>1, <3>1 DEF SearchInv
  <2> QED BY <2>2, <2>3, <2>4 DEF Next
<1> QED BY <1>1, <1>2, PTL DEF Spec

\* Its count of names and streams is a number.
LEMMA TotalIs ==
  ASSUME LoadInv, finished
  PROVE  table.total \in Int
<1>1. PICK t : IsLoaded(t) /\ Shaped(t, table)
  BY DEF LoadInv
<1>2. t \in Tables
  BY <1>1 DEF IsLoaded, Loading, Sound
<1>3. t.total \in Int
  BY <1>2 DEF Tables
<1>4. table.total = t.total
  BY <1>1 DEF Shaped
<1> QED BY <1>3, <1>4

\* All of it, or a beginning when the progress has passed its end.
LEMMA SearchOfIs ==
  ASSUME NEW t, t.total \in Int, NEW attributes, NEW refused, NEW V, NEW visits \in Seq(V),
         visits = Visits(t, attributes, refused)
  PROVE  LET r == SearchOf(t, attributes, refused)
         IN /\ r.attributes = attributes /\ r.refused = refused /\ r.visits \in Seq(V)
            /\ \A i \in DOMAIN r.visits : i \in DOMAIN visits /\ r.visits[i] = visits[i]
            /\ ~r.overrun => r.visits = visits
<1> DEFINE overrun == Len(visits) > t.total
           head == SubSeq(visits, 1, t.total)
           seen == IF overrun THEN head ELSE visits
<1>1. SearchOf(t, attributes, refused)
         = [attributes |-> attributes, refused |-> refused, overrun |-> overrun, visits |-> seen]
  BY DEF SearchOf
<1>2. CASE overrun
  <2>1. \A i \in 1 .. t.total : i \in DOMAIN visits /\ visits[i] \in V
    BY <1>2
  <2>2. /\ head \in Seq(V) /\ Len(head) = (IF 1 =< t.total THEN t.total - 1 + 1 ELSE 0)
        /\ \A i \in 1 .. t.total - 1 + 1 : head[i] = visits[1 + i - 1]
    <3>1. \A i \in 1 .. t.total : visits[i] \in V
      BY <2>1
    <3> QED BY <3>1, SubSeqProperties
  <2> HIDE DEF head
  <2>3. \A i \in DOMAIN head : i \in 1 .. t.total
    BY <2>2
  <2>4. \A i \in 1 .. t.total : head[i] = visits[i]
    BY <2>2
  <2>5. seen = head /\ overrun
    BY <1>2
  <2> HIDE DEF seen, overrun
  <2> QED BY <1>1, <2>1, <2>2, <2>3, <2>4, <2>5
<1>3. CASE ~overrun
  <2>1. seen = visits
    BY <1>3
  <2> HIDE DEF seen, overrun
  <2> QED BY <1>1, <1>3, <2>1
<1> QED BY <1>2, <1>3

\* For a hit the dialog shows a path twice: when the search meets it and later, from the key
\* alone.  On every volume, whatever way the walk has gone, both are the same.
THEOREM PathsFoundAgain == Spec => []PathsAgree
<1>1. SearchInv => PathsAgree
  <2> SUFFICES ASSUME SearchInv, NEW v \in Range(result.visits), v.frs # kRootFRS
               PROVE  PathOf(table, v) = v.path
    BY DEF PathsAgree
  <2>1. result # NoSearch
    BY DEF NoSearch, Range
  <2>2. PICK attributes \in BOOLEAN, refused \in RefusedSets :
           finished /\ result = SearchOf(table, attributes, refused)
    BY <2>1 DEF SearchInv
  <2>3. Tree(table) /\ table.total \in Int
    BY <2>2, TreeIs, TotalIs DEF SearchInv
  <2>4. PICK visits \in Seq(PathVisits(table)) : visits = Visits(table, attributes, refused)
    BY <2>3, VisitsClimb
  <2>5. result.visits \in Seq(PathVisits(table))
    BY <2>2, <2>3, <2>4, SearchOfIs
  <2>6. v \in PathVisits(table)
    BY <2>5 DEF Range
  <2> QED BY <2>3, <2>6, VisitClimbs
<1> QED BY <1>1, SearchInvariant, PTL

-----------------------------------------------------------------------------
(* Every name and stream once. *)

Placed(t) == {c \in CallRecords(t) : IsPlaced(c)}

FirstCall == [frs |-> kRootFRS, name |-> 0, depth |-> 0, path |-> <<>>]

\* No two calls are for the same name, but for the root's: at the start and below itself.
KeyOf(t) == [c \in CallRecords(t) |-> <<c.frs, c.name, IF c.depth = 0 THEN 0 ELSE 1>>]

VisitKeyOf(t) == [v \in VisitRecords(t) |-> <<v.frs, v.name, v.stream>>]

ParentOf(t, c) == NamesOf(t, c.frs)[c.name + 1].parent

\* The calls come and gone, of which P are gone.  Each but the first was below one that is
\* gone; what is below those that are gone has come.
Ordered(t, attributes, refused, todo, P) ==
    /\ todo \in Seq(Placed(t)) /\ P \subseteq Placed(t)
    /\ OnceBy(todo, KeyOf(t))
    /\ \A x \in Range(todo), y \in P : KeyOf(t)[x] # KeyOf(t)[y]
    /\ \A x, y \in P : KeyOf(t)[x] = KeyOf(t)[y] => x = y
    /\ \A x \in P \cup Range(todo) :
          x.depth # 0 => \E y \in P : /\ Going(t, attributes, refused, y)
                                      /\ y.frs = ParentOf(t, x) /\ x.depth = y.depth + 1
    /\ \A y \in P : Going(t, attributes, refused, y) => Range(Below(t, y)) \subseteq P \cup Range(todo)
    /\ FirstCall \in P \cup Range(todo)

\* The visits are those of the calls that are gone.
Seen(t, attributes, visits, P) ==
    /\ visits \in Seq(VisitRecords(t)) /\ OnceBy(visits, VisitKeyOf(t))
    /\ Range(visits) = UNION {Range(Calls(t, y, attributes)) : y \in P}

\* A call goes below its file once: the key says which.
LEMMA GoingKey ==
  ASSUME NEW t, Tree(t), NEW attributes, NEW refused,
         NEW c \in Placed(t), Going(t, attributes, refused, c),
         NEW y \in Placed(t), Going(t, attributes, refused, y), y.frs = c.frs,
         Len(NamesOf(t, c.frs)) = 1
  PROVE  KeyOf(t)[y] = KeyOf(t)[c]
<1>1. /\ c \in CallRecords(t) /\ y \in CallRecords(t) /\ IsPlaced(c) /\ IsPlaced(y)
      /\ GoesBelow(c) /\ GoesBelow(y)
  BY DEF Placed, Going
<1>2. /\ c.name \in Nat /\ y.name \in Nat /\ c.name + 1 \in DOMAIN NamesOf(t, c.frs)
      /\ y.name + 1 \in DOMAIN NamesOf(t, c.frs) /\ c.frs \in Slots(t)
  BY <1>1 DEF CallRecords
<1>3. DOMAIN NamesOf(t, c.frs) = {1}
  <2>1. PICK s \in Seq(Links) : s = NamesOf(t, c.frs)
    BY <1>2 DEF Tree
  <2>2. DOMAIN s = 1 .. Len(s) /\ 1 .. 1 = {1}
    OBVIOUS
  <2> QED BY <2>1, <2>2
<1>4. c.name = y.name
  BY <1>2, <1>3
<1>5. (c.depth = 0) = (y.depth = 0)
  BY <1>1 DEF IsPlaced, GoesBelow
<1> QED BY <1>1, <1>4, <1>5 DEF KeyOf

\* What is below a call that goes now is new.
LEMMA BelowNew ==
  ASSUME NEW t, Tree(t), NEW attributes, NEW refused, NEW todo, NEW P,
         Ordered(t, attributes, refused, todo, P),
         NEW c \in Range(todo), Going(t, attributes, refused, c),
         NEW x \in Range(Below(t, c)), NEW z \in P \cup Range(todo)
  PROVE  KeyOf(t)[z] # KeyOf(t)[x]
<1>1. /\ todo \in Seq(Placed(t)) /\ P \subseteq Placed(t)
      /\ \A u \in Range(todo), y \in P : KeyOf(t)[u] # KeyOf(t)[y]
      /\ \A u \in P \cup Range(todo) :
            u.depth # 0 => \E y \in P : /\ Going(t, attributes, refused, y)
                                        /\ y.frs = ParentOf(t, u) /\ u.depth = y.depth + 1
  BY DEF Ordered
<1>2. Range(todo) \subseteq Placed(t)
  BY <1>1 DEF Range
<1>3. c \in CallRecords(t) /\ IsPlaced(c) /\ z \in CallRecords(t) /\ c.depth \in Nat
      /\ c.frs \in Slots(t)
  BY <1>1, <1>2 DEF Placed, CallRecords
<1>4. x \in CallRecords(t) /\ x.depth = c.depth + 1 /\ ParentOf(t, x) = c.frs
  <2>1. PICK s : s = Below(t, c)
    OBVIOUS
  <2>2. /\ s \in Seq(CallRecords(t))
        /\ \A u \in Range(s) : /\ u.depth = c.depth + 1
                               /\ NamesOf(t, u.frs)[u.name + 1].parent = c.frs
    BY <1>3, <2>1, BelowAre
  <2> QED BY <2>1, <2>2 DEF Range, ParentOf
<1>5. Len(NamesOf(t, c.frs)) = 1
  <2>1. x.frs \in Slots(t) /\ x.name + 1 \in DOMAIN NamesOf(t, x.frs)
    BY <1>4 DEF CallRecords
  <2>2. NamesOf(t, x.frs)[x.name + 1] \in Range(NamesOf(t, x.frs))
    BY <2>1 DEF Range
  <2> QED BY <1>4, <2>1, <2>2 DEF Tree, ParentOf
<1>6. ASSUME KeyOf(t)[z] = KeyOf(t)[x] PROVE FALSE
  <2>1. z.frs = x.frs /\ z.name = x.name /\ z.depth # 0
    <3>1. x.depth # 0
      BY <1>3, <1>4
    <3>2. KeyOf(t)[z] = <<z.frs, z.name, IF z.depth = 0 THEN 0 ELSE 1>>
          /\ KeyOf(t)[x] = <<x.frs, x.name, IF x.depth = 0 THEN 0 ELSE 1>>
      BY <1>3, <1>4 DEF KeyOf
    <3>3. PICK a, b : a = (IF z.depth = 0 THEN 0 ELSE 1) /\ b = IF x.depth = 0 THEN 0 ELSE 1
      OBVIOUS
    <3>4. <<z.frs, z.name, a>> = <<x.frs, x.name, b>>
      BY <1>6, <3>2, <3>3
    <3>5. z.frs = x.frs /\ z.name = x.name /\ a = b
      BY <3>4
    <3>6. a = 1
      BY <3>1, <3>3, <3>5
    <3> QED BY <3>3, <3>5, <3>6
  <2>2. PICK y \in P : Going(t, attributes, refused, y) /\ y.frs = ParentOf(t, z)
    BY <1>1, <2>1
  <2>3. y.frs = c.frs
    BY <1>4, <2>1, <2>2 DEF ParentOf
  <2>4. y \in Placed(t) /\ c \in Placed(t)
    BY <1>1, <1>2
  <2>5. KeyOf(t)[y] = KeyOf(t)[c]
    BY <1>5, <2>2, <2>3, <2>4, GoingKey
  <2> QED BY <1>1, <2>5
<1> QED BY <1>6

\* The visits of a call have other keys than those of the calls that are gone.
LEMMA CallsNew ==
  ASSUME NEW t, Tree(t), NEW attributes, NEW c \in Placed(t), NEW y \in Placed(t),
         KeyOf(t)[c] # KeyOf(t)[y],
         NEW u \in Range(Calls(t, c, attributes)), NEW v \in Range(Calls(t, y, attributes))
  PROVE  VisitKeyOf(t)[u] # VisitKeyOf(t)[v]
<1>1. /\ c \in CallRecords(t) /\ y \in CallRecords(t) /\ IsPlaced(c) /\ IsPlaced(y)
      /\ c.depth \in Nat /\ y.depth \in Nat
  BY DEF Placed, CallRecords
<1>2. /\ u \in VisitRecords(t) /\ u.frs = c.frs /\ u.name = c.name
      /\ IsCalled(c.frs, StreamsOf(t, c.frs)[u.stream + 1], c.depth)
  <2>1. PICK s : s = Calls(t, c, attributes)
    OBVIOUS
  <2>2. /\ s \in Seq(VisitRecords(t))
        /\ \A w \in Range(s) : /\ w.frs = c.frs /\ w.name = c.name
                               /\ IsCalled(c.frs, StreamsOf(t, c.frs)[w.stream + 1], c.depth)
    BY <1>1, <2>1, CallsAre
  <2> QED BY <2>1, <2>2 DEF Range
<1>3. /\ v \in VisitRecords(t) /\ v.frs = y.frs /\ v.name = y.name
      /\ IsCalled(y.frs, StreamsOf(t, y.frs)[v.stream + 1], y.depth)
  <2>1. PICK s : s = Calls(t, y, attributes)
    OBVIOUS
  <2>2. /\ s \in Seq(VisitRecords(t))
        /\ \A w \in Range(s) : /\ w.frs = y.frs /\ w.name = y.name
                               /\ IsCalled(y.frs, StreamsOf(t, y.frs)[w.stream + 1], y.depth)
    BY <1>1, <2>1, CallsAre
  <2> QED BY <2>1, <2>2 DEF Range
<1>4. ASSUME VisitKeyOf(t)[u] = VisitKeyOf(t)[v] PROVE FALSE
  <2>1. u.frs = v.frs /\ u.name = v.name /\ u.stream = v.stream
    BY <1>2, <1>3, <1>4 DEF VisitKeyOf
  <2>2. c.frs = y.frs /\ c.name = y.name
    BY <1>2, <1>3, <2>1
  <2>3. (c.depth = 0) # (y.depth = 0)
    <3>1. ASSUME (c.depth = 0) = (y.depth = 0) PROVE FALSE
      <4>1. KeyOf(t)[c] = <<c.frs, c.name, IF c.depth = 0 THEN 0 ELSE 1>>
            /\ KeyOf(t)[y] = <<y.frs, y.name, IF y.depth = 0 THEN 0 ELSE 1>>
        BY <1>1 DEF KeyOf
      <4>2. (IF c.depth = 0 THEN 0 ELSE 1) = (IF y.depth = 0 THEN 0 ELSE 1)
        BY <3>1
      <4> QED BY <2>2, <4>1, <4>2
    <3> QED BY <3>1
  <2>4. c.frs = kRootFRS
    BY <1>1, <2>2, <2>3 DEF IsPlaced
  <2>5. PICK s : s = StreamsOf(t, c.frs)[u.stream + 1]
    OBVIOUS
  <2>6. (c.depth > 0) # (s.type = DirType) /\ (y.depth > 0) # (s.type = DirType)
    BY <1>2, <1>3, <2>1, <2>2, <2>4, <2>5 DEF IsCalled
  <2> QED BY <1>1, <2>3, <2>6
<1> QED BY <1>4

\* Each step keeps the order of the calls ...
LEMMA OrderedStep ==
  ASSUME NEW t, Tree(t), NEW attributes, NEW refused, NEW todo, NEW P, todo # <<>>,
         Ordered(t, attributes, refused, todo, P)
  PROVE  Ordered(t, attributes, refused,
                 StepBelow(t, attributes, refused, Head(todo)) \o Tail(todo), P \cup {Head(todo)})
<1>1. /\ todo \in Seq(Placed(t)) /\ P \subseteq Placed(t)
      /\ OnceBy(todo, KeyOf(t))
      /\ \A x \in Range(todo), y \in P : KeyOf(t)[x] # KeyOf(t)[y]
      /\ \A x, y \in P : KeyOf(t)[x] = KeyOf(t)[y] => x = y
      /\ \A x \in P \cup Range(todo) :
            x.depth # 0 => \E y \in P : /\ Going(t, attributes, refused, y)
                                        /\ y.frs = ParentOf(t, x) /\ x.depth = y.depth + 1
      /\ \A y \in P : Going(t, attributes, refused, y) => Range(Below(t, y)) \subseteq P \cup Range(todo)
      /\ FirstCall \in P \cup Range(todo)
  BY DEF Ordered
<1>2. PICK c, rest, below : /\ c = Head(todo) /\ rest = Tail(todo)
                            /\ below = StepBelow(t, attributes, refused, c)
  OBVIOUS
<1>3. /\ c \in Placed(t) /\ rest \in Seq(Placed(t)) /\ Range(todo) = {c} \cup Range(rest)
      /\ OnceBy(rest, KeyOf(t)) /\ \A x \in Range(rest) : KeyOf(t)[x] # KeyOf(t)[c]
  BY <1>1, <1>2, HeadIs
<1>4. CASE ~Going(t, attributes, refused, c)
  <2>1. below = <<>>
    BY <1>2, <1>4 DEF StepBelow
  <2>2. below \o rest = rest
    BY <1>3, <2>1
  <2>3. Ordered(t, attributes, refused, rest, P \cup {c})
    <3>1. P \cup {c} \subseteq Placed(t) /\ rest \in Seq(Placed(t)) /\ OnceBy(rest, KeyOf(t))
      BY <1>1, <1>3
    <3>2. \A x \in Range(rest), y \in P \cup {c} : KeyOf(t)[x] # KeyOf(t)[y]
      BY <1>1, <1>3
    <3>3. \A x, y \in P \cup {c} : KeyOf(t)[x] = KeyOf(t)[y] => x = y
      BY <1>1, <1>3
    <3>4. (P \cup {c}) \cup Range(rest) = P \cup Range(todo)
      BY <1>3
    <3>5. \A x \in (P \cup {c}) \cup Range(rest) :
             x.depth # 0 => \E y \in P \cup {c} : /\ Going(t, attributes, refused, y)
                                                  /\ y.frs = ParentOf(t, x) /\ x.depth = y.depth + 1
      BY <1>1, <3>4
    <3>6. \A y \in P \cup {c} : Going(t, attributes, refused, y) =>
             Range(Below(t, y)) \subseteq (P \cup {c}) \cup Range(rest)
      BY <1>1, <1>4, <3>4
    <3> QED BY <1>1, <3>1, <3>2, <3>3, <3>4, <3>5, <3>6 DEF Ordered
  <2> QED BY <1>2, <2>2, <2>3
<1>5. CASE Going(t, attributes, refused, c)
  <2>1. below = Below(t, c)
    BY <1>2, <1>5 DEF StepBelow
  <2>2. c \in CallRecords(t) /\ IsPlaced(c) /\ c \in Range(todo)
    BY <1>3 DEF Placed
  <2>3. /\ below \in Seq(CallRecords(t)) /\ OnceBy(below, NameOf(t))
        /\ \A x \in Range(below) : /\ x.depth = c.depth + 1
                                   /\ NamesOf(t, x.frs)[x.name + 1].parent = c.frs
    BY <2>1, <2>2, BelowAre
  <2>4. \A x \in Range(below) : /\ x \in Placed(t) /\ x.depth # 0 /\ x.depth = c.depth + 1
                                /\ ParentOf(t, x) = c.frs
    <3>1. \A x \in Range(below) : x \in CallRecords(t)
      BY <2>3 DEF Range
    <3>2. c.depth \in Nat
      BY <2>2 DEF CallRecords
    <3> QED BY <2>3, <3>1, <3>2 DEF Placed, IsPlaced, ParentOf
  <2>5. below \in Seq(Placed(t))
    <3>1. \A i \in 1 .. Len(below) : below[i] \in Placed(t)
      BY <2>3, <2>4 DEF Range
    <3>2. Len(below) \in Nat /\ below = [i \in 1 .. Len(below) |-> below[i]]
      BY <2>3
    <3> QED BY <3>1, <3>2
  <2>6. \A x \in Range(below), z \in P \cup Range(todo) : KeyOf(t)[z] # KeyOf(t)[x]
    BY <1>5, <2>1, <2>2, BelowNew
  <2>7. OnceBy(below, KeyOf(t))
    <3>1. ASSUME NEW x \in Placed(t), NEW y \in Placed(t), KeyOf(t)[x] = KeyOf(t)[y]
          PROVE  NameOf(t)[x] = NameOf(t)[y]
      <4>1. x \in CallRecords(t) /\ y \in CallRecords(t)
        BY DEF Placed
      <4>2. PICK a, b : a = (IF x.depth = 0 THEN 0 ELSE 1) /\ b = IF y.depth = 0 THEN 0 ELSE 1
        OBVIOUS
      <4>3. <<x.frs, x.name, a>> = <<y.frs, y.name, b>>
        BY <3>1, <4>1, <4>2 DEF KeyOf
      <4>4. x.frs = y.frs /\ x.name = y.name
        BY <4>3
      <4> QED BY <4>1, <4>4 DEF NameOf
    <3>2. \A i \in DOMAIN below : below[i] \in Placed(t)
      BY <2>4 DEF Range
    <3> QED BY <2>3, <3>1, <3>2 DEF OnceBy
  <2>8. PICK td : td = below \o rest
    OBVIOUS
  <2>9. /\ td \in Seq(Placed(t)) /\ Range(td) = Range(below) \cup Range(rest)
        /\ OnceBy(td, KeyOf(t))
    <3>1. \A x \in Range(below), y \in Range(rest) : KeyOf(t)[x] # KeyOf(t)[y]
      BY <1>3, <2>6
    <3> QED BY <1>3, <2>5, <2>7, <2>8, <3>1, ConcatIs
  <2>10. \A x \in Range(td), y \in P \cup {c} : KeyOf(t)[x] # KeyOf(t)[y]
    BY <1>1, <1>3, <2>2, <2>6, <2>9
  <2>11. \A x, y \in P \cup {c} : KeyOf(t)[x] = KeyOf(t)[y] => x = y
    BY <1>1, <2>2
  <2>12. (P \cup {c}) \cup Range(td) = (P \cup Range(todo)) \cup Range(below)
    BY <1>3, <2>9
  <2>13. \A x \in (P \cup {c}) \cup Range(td) :
            x.depth # 0 => \E y \in P \cup {c} : /\ Going(t, attributes, refused, y)
                                                 /\ y.frs = ParentOf(t, x) /\ x.depth = y.depth + 1
    BY <1>1, <1>5, <2>4, <2>12
  <2>14. \A y \in P \cup {c} : Going(t, attributes, refused, y) =>
            Range(Below(t, y)) \subseteq (P \cup {c}) \cup Range(td)
    BY <1>1, <2>1, <2>12
  <2>15. FirstCall \in (P \cup {c}) \cup Range(td) /\ P \cup {c} \subseteq Placed(t)
    BY <1>1, <1>3, <2>12
  <2>16. Ordered(t, attributes, refused, td, P \cup {c})
    BY <2>9, <2>10, <2>11, <2>13, <2>14, <2>15 DEF Ordered
  <2> QED BY <1>2, <2>8, <2>16
<1> QED BY <1>4, <1>5

\* ... and that the visits are theirs.
LEMMA SeenStep ==
  ASSUME NEW t, Tree(t), NEW attributes, NEW visits, NEW P, NEW c \in Placed(t),
         P \subseteq Placed(t), \A y \in P : KeyOf(t)[c] # KeyOf(t)[y],
         Seen(t, attributes, visits, P)
  PROVE  Seen(t, attributes, visits \o Calls(t, c, attributes), P \cup {c})
<1>1. PICK calls, vs : calls = Calls(t, c, attributes) /\ vs = visits \o calls
  OBVIOUS
<1>2. /\ visits \in Seq(VisitRecords(t)) /\ OnceBy(visits, VisitKeyOf(t))
      /\ Range(visits) = UNION {Range(Calls(t, y, attributes)) : y \in P}
  BY DEF Seen
<1>3. c \in CallRecords(t)
  BY DEF Placed
<1>4. /\ calls \in Seq(VisitRecords(t))
      /\ \A v \in Range(calls) : v.frs = c.frs /\ v.name = c.name
      /\ \A i, j \in DOMAIN calls : calls[i].stream = calls[j].stream => i = j
  BY <1>1, <1>3, CallsAre
<1>5. OnceBy(calls, VisitKeyOf(t))
  <2>1. \A i \in DOMAIN calls : calls[i] \in VisitRecords(t)
    BY <1>4
  <2>2. ASSUME NEW i \in DOMAIN calls, NEW j \in DOMAIN calls,
               VisitKeyOf(t)[calls[i]] = VisitKeyOf(t)[calls[j]]
        PROVE  i = j
    <3>1. calls[i].stream = calls[j].stream
      BY <2>1, <2>2 DEF VisitKeyOf
    <3> QED BY <1>4, <3>1
  <2> QED BY <2>2 DEF OnceBy
<1>6. \A u \in Range(visits), v \in Range(calls) : VisitKeyOf(t)[u] # VisitKeyOf(t)[v]
  <2>1. ASSUME NEW u \in Range(visits), NEW v \in Range(calls)
        PROVE  VisitKeyOf(t)[u] # VisitKeyOf(t)[v]
    <3>1. PICK y \in P : u \in Range(Calls(t, y, attributes))
      BY <1>2
    <3> QED BY <1>1, <3>1, CallsNew
  <2> QED BY <2>1
<1>7. /\ vs \in Seq(VisitRecords(t)) /\ OnceBy(vs, VisitKeyOf(t))
      /\ Range(vs) = Range(visits) \cup Range(calls)
  <2>1. PICK T, K : T = VisitRecords(t) /\ K = VisitKeyOf(t)
    OBVIOUS
  <2>2. /\ visits \in Seq(T) /\ calls \in Seq(T) /\ OnceBy(visits, K) /\ OnceBy(calls, K)
        /\ \A u \in Range(visits), v \in Range(calls) : K[u] # K[v]
    BY <1>2, <1>4, <1>5, <1>6, <2>1
  <2>3. /\ visits \o calls \in Seq(T) /\ OnceBy(visits \o calls, K)
        /\ Range(visits \o calls) = Range(visits) \cup Range(calls)
    BY ONLY <2>2, ConcatIs
  <2> QED BY <1>1, <2>1, <2>3
<1>8. Range(vs) = UNION {Range(Calls(t, y, attributes)) : y \in P \cup {c}}
  BY <1>1, <1>2, <1>7
<1> QED BY <1>1, <1>7, <1>8 DEF Seen

\* There are at most two calls for a name.
LEMMA CallsBounded ==
  ASSUME NEW t, Tree(t), NEW P, P \subseteq Placed(t),
         \A x, y \in P : KeyOf(t)[x] = KeyOf(t)[y] => x = y
  PROVE  IsFiniteSet(P) /\ Cardinality(P) \in Nat /\ Cardinality(P) < MaxSteps
<1> DEFINE side(x) == IF x.depth = 0 THEN 0 ELSE 1
           K == NameKeys(t)
           g == [x \in P |-> <<<<x.frs, x.name + 1>>, side(x)>>]
<1>1. ASSUME NEW x \in P
      PROVE  /\ x \in CallRecords(t) /\ x.frs \in Slots(t) /\ x.name \in Nat
             /\ x.name + 1 \in DOMAIN NamesOf(t, x.frs) /\ side(x) \in 0 .. 1
             /\ KeyOf(t)[x] = <<x.frs, x.name, side(x)>>
  <2>1. x \in CallRecords(t)
    BY DEF Placed
  <2> QED BY <2>1 DEF CallRecords, KeyOf
<1> HIDE DEF side
<1>2. \A x \in P : <<x.frs, x.name + 1>> \in K
  BY <1>1 DEF NameKeys
<1>3. g \in [P -> K \X (0 .. 1)]
  BY <1>1, <1>2
<1>4. ASSUME NEW x \in P, NEW y \in P, g[x] = g[y] PROVE x = y
  <2>1. <<x.frs, x.name + 1>> = <<y.frs, y.name + 1>> /\ side(x) = side(y)
    BY <1>4
  <2>2. x.frs = y.frs /\ x.name + 1 = y.name + 1
    BY <2>1
  <2>3. x.name = y.name
    BY <1>1, <2>2
  <2> QED BY <1>1, <2>1, <2>2, <2>3
<1> HIDE DEF g
<1>5. g \in Injection(P, K \X (0 .. 1))
  BY <1>3, <1>4 DEF Injection, IsInjective
<1>6. IsFiniteSet(K) /\ 2 * Cardinality(K) < MaxSteps /\ Cardinality(K) \in Nat
  BY FS_CardinalityType DEF Tree
<1> HIDE DEF K
<1>7. IsFiniteSet(0 .. 1) /\ Cardinality(0 .. 1) = 2
  <2>1. IsFiniteSet({0}) /\ Cardinality({0}) = 1
    BY FS_Singleton
  <2>2. IsFiniteSet({0} \cup {1}) /\ Cardinality({0} \cup {1}) = 2
    BY <2>1, FS_AddElement
  <2>3. {0} \cup {1} = 0 .. 1
    OBVIOUS
  <2> QED BY <2>2, <2>3
<1>8. IsFiniteSet(K \X (0 .. 1)) /\ Cardinality(K \X (0 .. 1)) = Cardinality(K) * 2
  BY <1>6, <1>7, FS_Product
<1>9. IsFiniteSet(P) /\ Cardinality(P) =< Cardinality(K \X (0 .. 1))
  BY <1>5, <1>8, FS_Injection
<1>10. Cardinality(P) \in Nat
  BY <1>9, FS_CardinalityType
<1> QED BY <1>6, <1>8, <1>9, <1>10, MaxStepsAssumption

\* So the walk ends, and what a search sees are the visits of its calls.
LEMMA WalkEnds ==
  ASSUME NEW t, Tree(t), NEW attributes, NEW refused
  PROVE  \E P : Ordered(t, attributes, refused, <<>>, P)
                /\ Seen(t, attributes, Visits(t, attributes, refused), P)
<1>1. PICK walk : /\ walk[0] = [todo |-> Start(t), visits |-> <<>>]
                  /\ \A k \in 1 .. MaxSteps : walk[k] = WalkStep(t, attributes, refused, walk[k - 1])
                  /\ Visits(t, attributes, refused) = walk[MaxSteps].visits
  BY VisitsIs
<1> DEFINE Good(w, k, P) == /\ Ordered(t, attributes, refused, w.todo, P)
                            /\ Seen(t, attributes, w.visits, P)
                            /\ w.todo = <<>> \/ Cardinality(P) = k
           T == {k \in 0 .. MaxSteps : \E P : Good(walk[k], k, P)}
<1>2. ASSUME NEW k \in 0 .. MaxSteps, \A j \in 0 .. k - 1 : j \in T PROVE k \in T
  <2>1. CASE k = 0
    <3>1. Start(t) = <<FirstCall>> /\ FirstCall \in CallRecords(t)
      BY StartIs DEF FirstCall
    <3>2. walk[0].todo = Start(t) /\ walk[0].visits = <<>>
      BY <1>1
    <3>3. FirstCall \in Placed(t) /\ FirstCall.depth = 0
      BY <3>1 DEF Placed, IsPlaced, FirstCall
    <3>4. PICK c : c = FirstCall
      OBVIOUS
    <3>5. /\ <<c>> \in Seq(Placed(t)) /\ DOMAIN <<c>> = {1} /\ Range(<<c>>) = {c}
          /\ OnceBy(<<c>>, KeyOf(t))
      BY <3>3, <3>4 DEF Range, OnceBy
    <3>6. Ordered(t, attributes, refused, <<c>>, {})
      BY <3>3, <3>4, <3>5 DEF Ordered
    <3>7. Seen(t, attributes, <<>>, {})
      <4>1. <<>> \in Seq(VisitRecords(t)) /\ DOMAIN <<>> = {}
        OBVIOUS
      <4>2. Range(<<>>) = {}
        BY <4>1 DEF Range
      <4> QED BY <4>1, <4>2 DEF Seen, OnceBy
    <3>8. Good(walk[0], 0, {})
      BY <3>1, <3>2, <3>4, <3>6, <3>7, FS_EmptySet
    <3> QED BY <1>2, <2>1, <3>8
  <2>2. CASE k # 0
    <3>1. k - 1 \in Nat /\ k \in 1 .. MaxSteps /\ k - 1 \in 0 .. k - 1 /\ (k - 1) + 1 = k
      BY <2>2, MaxStepsAssumption
    <3>2. PICK P : Good(walk[k - 1], k - 1, P)
      BY <1>2, <3>1
    <3>3. PICK w : w = walk[k - 1]
      OBVIOUS
    <3>4. walk[k] = WalkStep(t, attributes, refused, w)
      BY <1>1, <3>1, <3>3
    <3>5. /\ Ordered(t, attributes, refused, w.todo, P) /\ Seen(t, attributes, w.visits, P)
          /\ w.todo = <<>> \/ Cardinality(P) = k - 1
      BY <3>2, <3>3
    <3> HIDE DEF Good
    <3>6. CASE w.todo = <<>>
      <4>1. walk[k] = w
        BY <3>4, <3>6 DEF WalkStep
      <4>2. Good(walk[k], k, P)
        BY <3>5, <3>6, <4>1 DEF Good
      <4> QED BY <4>2
    <3>7. CASE w.todo # <<>>
      <4>1. PICK c, td, vs : /\ c = Head(w.todo)
                             /\ td = StepBelow(t, attributes, refused, Head(w.todo)) \o Tail(w.todo)
                             /\ vs = w.visits \o Calls(t, Head(w.todo), attributes)
        OBVIOUS
      <4>2. walk[k] = [todo |-> td, visits |-> vs]
        BY <3>4, <3>7, <4>1, StepIs
      <4>3. Ordered(t, attributes, refused, td, P \cup {c})
        BY <3>5, <3>7, <4>1, OrderedStep
      <4>4. /\ w.todo \in Seq(Placed(t)) /\ P \subseteq Placed(t)
            /\ \A x \in Range(w.todo), y \in P : KeyOf(t)[x] # KeyOf(t)[y]
            /\ \A x, y \in P : KeyOf(t)[x] = KeyOf(t)[y] => x = y
        BY <3>5 DEF Ordered
      <4>5. c \in Placed(t) /\ c \in Range(w.todo)
        <5>1. PICK s \in Seq(Placed(t)) : s = w.todo
          BY <4>4
        <5>2. Head(s) \in Placed(t) /\ Range(s) = {Head(s)} \cup Range(Tail(s))
          BY <3>7, <5>1, HeadIs
        <5> QED BY <4>1, <5>1, <5>2
      <4>6. Seen(t, attributes, vs, P \cup {c})
        <5>1. vs = w.visits \o Calls(t, c, attributes)
          BY <4>1
        <5>2. Seen(t, attributes, w.visits \o Calls(t, c, attributes), P \cup {c})
          <6>1. PICK visits : visits = w.visits
            OBVIOUS
          <6>2. Seen(t, attributes, visits \o Calls(t, c, attributes), P \cup {c})
            BY <3>5, <4>4, <4>5, <6>1, SeenStep
          <6> QED BY <6>1, <6>2
        <5> QED BY <5>1, <5>2
      <4>7. Cardinality(P \cup {c}) = k
        <5>1. IsFiniteSet(P) /\ c \notin P
          BY <4>4, <4>5, CallsBounded
        <5>2. Cardinality(P \cup {c}) = Cardinality(P) + 1
          BY <5>1, FS_AddElement
        <5> QED BY <3>1, <3>5, <3>7, <5>2
      <4>8. Good(walk[k], k, P \cup {c})
        BY <4>2, <4>3, <4>6, <4>7 DEF Good
      <4> QED BY <4>8
    <3> QED BY <3>6, <3>7
  <2> QED BY <2>1, <2>2
<1> HIDE DEF T
<1>3. MaxSteps \in T
  BY <1>2, UpTo, MaxStepsAssumption
<1>4. PICK P : Good(walk[MaxSteps], MaxSteps, P)
  BY <1>3 DEF T
<1>5. walk[MaxSteps].todo = <<>>
  <2>1. Ordered(t, attributes, refused, walk[MaxSteps].todo, P)
    BY <1>4
  <2>2. P \subseteq Placed(t) /\ \A x, y \in P : KeyOf(t)[x] = KeyOf(t)[y] => x = y
    BY <2>1 DEF Ordered
  <2>3. Cardinality(P) < MaxSteps /\ Cardinality(P) \in Nat
    BY <2>2, CallsBounded
  <2> QED BY <1>4, <2>3, MaxStepsAssumption
<1> QED BY <1>1, <1>4, <1>5

\* A call that is gone has visited every stream that is shown there.
LEMMA StreamSeen ==
  ASSUME NEW t, Tree(t), NEW attributes, NEW visits, NEW P, P \subseteq Placed(t),
         Seen(t, attributes, visits, P), NEW x \in P, IsWalked(x.frs, attributes),
         NEW k \in 1 .. Len(StreamsOf(t, x.frs)), IsShown(StreamsOf(t, x.frs)[k], attributes),
         IsCalled(x.frs, StreamsOf(t, x.frs)[k], x.depth)
  PROVE  \E v \in Range(visits) : v.frs = x.frs /\ v.stream = k - 1
<1>1. x \in CallRecords(t) /\ x.frs \in Slots(t)
  BY DEF Placed, CallRecords
<1>2. k \in DOMAIN StreamsOf(t, x.frs)
  BY <1>1 DEF Tree
<1>3. PICK s : s = Calls(t, x, attributes)
  OBVIOUS
<1>4. /\ \A v \in Range(s) : v.frs = x.frs
      /\ \E v \in Range(s) : v.stream = k - 1
  BY <1>1, <1>2, <1>3, CallsAre
<1>5. Range(s) \subseteq Range(visits)
  BY <1>3 DEF Seen
<1> QED BY <1>4, <1>5

\* The root's directory stream is seen first.
LEMMA RootSeen ==
  ASSUME NEW t, Tree(t), NEW attributes, NEW refused, NEW P,
         Ordered(t, attributes, refused, <<>>, P)
  PROVE  /\ FirstCall \in P /\ FirstCall.frs = kRootFRS /\ FirstCall.depth = 0
         /\ Calls(t, FirstCall, attributes) # <<>>
         /\ \A k \in 1 .. Len(StreamsOf(t, kRootFRS)) :
               StreamsOf(t, kRootFRS)[k].type = DirType =>
               IsCalled(kRootFRS, StreamsOf(t, kRootFRS)[k], 0)
<1>1. FirstCall \in P /\ P \subseteq Placed(t) /\ FirstCall.frs = kRootFRS /\ FirstCall.depth = 0
  <2>1. DOMAIN <<>> = {}
    OBVIOUS
  <2>2. Range(<<>>) = {}
    BY <2>1 DEF Range
  <2> QED BY <2>2 DEF Ordered, FirstCall
<1>2. \A k \in 1 .. Len(StreamsOf(t, kRootFRS)) :
         StreamsOf(t, kRootFRS)[k].type = DirType => IsCalled(kRootFRS, StreamsOf(t, kRootFRS)[k], 0)
  BY DEF IsCalled
<1>3. \E k \in DOMAIN StreamsOf(t, kRootFRS) : StreamsOf(t, kRootFRS)[k].type = DirType
  <2>1. kRootFRS \in Slots(t) /\ NamesOf(t, kRootFRS) \in Seq(Links) /\ Len(NamesOf(t, kRootFRS)) = 1
    BY DEF Tree
  <2>2. PICK s \in Seq(Links) : s = NamesOf(t, kRootFRS) /\ Len(s) = 1
    BY <2>1
  <2>3. s[1] \in Range(s)
    BY <2>2 DEF Range
  <2>4. s[1].parent = kRootFRS /\ DirPositions(t, s[1].parent) # {}
    BY <2>1, <2>2, <2>3 DEF Tree
  <2> QED BY <2>4 DEF DirPositions
<1>4. PICK k \in DOMAIN StreamsOf(t, kRootFRS) : StreamsOf(t, kRootFRS)[k].type = DirType
  BY <1>3
<1>5. k \in 1 .. Len(StreamsOf(t, kRootFRS))
  BY DEF Tree
<1>6. PICK s, c : s = Calls(t, c, attributes) /\ c = FirstCall
  OBVIOUS
<1>7. c \in CallRecords(t) /\ c.frs = kRootFRS /\ c.depth = 0
  BY <1>1, <1>6 DEF Placed
<1>8. \E v \in Range(s) : v.stream = k - 1
  <2>1. IsWalked(kRootFRS, attributes) /\ IsShown(StreamsOf(t, kRootFRS)[k], attributes)
    BY <1>4 DEF IsWalked, IsShown
  <2>2. IsCalled(kRootFRS, StreamsOf(t, kRootFRS)[k], 0)
    BY <1>2, <1>4, <1>5
  <2> QED BY <1>4, <1>6, <1>7, <2>1, <2>2, CallsAre
<1>9. s # <<>>
  <2>1. DOMAIN <<>> = {}
    OBVIOUS
  <2> QED BY <1>8, <2>1 DEF Range
<1> QED BY <1>1, <1>2, <1>6, <1>9

\* A call below which the search has gone leads to the one name of a file.
LEMMA NameReached ==
  ASSUME NEW t, Tree(t), NEW attributes, NEW refused, NEW P,
         Ordered(t, attributes, refused, <<>>, P), NEW y \in P, Going(t, attributes, refused, y),
         NEW f \in Slots(t), Len(NamesOf(t, f)) = 1, NamesOf(t, f)[1].parent = y.frs,
         f # y.frs \/ y.depth = 0
  PROVE  \E x \in P : x.frs = f /\ x.depth \in Nat \ {0}
<1>1. /\ P \subseteq Placed(t)
      /\ \A z \in P : Going(t, attributes, refused, z) => Range(Below(t, z)) \subseteq P
  <2>1. DOMAIN <<>> = {}
    OBVIOUS
  <2>2. Range(<<>>) = {}
    BY <2>1 DEF Range
  <2> QED BY <2>2 DEF Ordered
<1>2. y \in CallRecords(t) /\ IsPlaced(y) /\ y.depth \in Nat
  BY <1>1 DEF Placed, CallRecords
<1>3. PICK s : s = Below(t, y)
  OBVIOUS
<1>4. /\ \A x \in Range(s) : x.depth = y.depth + 1
      /\ \E x \in Range(s) : x.frs = f /\ x.name = 0
  BY <1>2, <1>3, BelowAre
<1>5. PICK x \in Range(s) : x.frs = f /\ x.depth = y.depth + 1
  BY <1>4
<1>6. x \in P
  BY <1>1, <1>3
<1>7. x.depth \in Nat \ {0}
  BY <1>2, <1>5
<1> QED BY <1>5, <1>6, <1>7

\* No call leads from a file to itself, but the root's.
LEMMA NotBelowItself ==
  ASSUME NEW t, Tree(t), NEW attributes, NEW refused, NEW P,
         Ordered(t, attributes, refused, <<>>, P), NEW y \in P, y.frs # kRootFRS,
         Len(NamesOf(t, y.frs)) = 1
  PROVE  NamesOf(t, y.frs)[1].parent # y.frs
<1> SUFFICES ASSUME NamesOf(t, y.frs)[1].parent = y.frs PROVE FALSE
  OBVIOUS
<1>1. /\ P \subseteq Placed(t)
      /\ \A x, z \in P : KeyOf(t)[x] = KeyOf(t)[z] => x = z
      /\ \A x \in P : x.depth # 0 => \E z \in P : z.frs = ParentOf(t, x) /\ x.depth = z.depth + 1
  BY DEF Ordered
<1>2. y \in CallRecords(t) /\ IsPlaced(y) /\ y.depth # 0
  BY <1>1 DEF Placed, IsPlaced
<1>3. \A z \in CallRecords(t) : z.frs = y.frs => z.name = 0
  <2>1. PICK s \in Seq(Links) : s = NamesOf(t, y.frs)
    BY <1>2 DEF Tree, CallRecords
  <2>2. DOMAIN s = {1}
    BY <2>1
  <2>3. \A z \in CallRecords(t) : z.name \in Nat /\ z.name + 1 \in DOMAIN NamesOf(t, z.frs)
    BY DEF CallRecords
  <2> QED BY <2>1, <2>2, <2>3
<1>4. y.name = 0 /\ ParentOf(t, y) = y.frs
  BY <1>2, <1>3 DEF ParentOf
<1>5. PICK z \in P : z.frs = y.frs /\ y.depth = z.depth + 1
  BY <1>1, <1>2, <1>4
<1>6. z \in CallRecords(t) /\ z.depth # 0 /\ z.name = 0 /\ z.depth \in Nat
  BY <1>1, <1>3, <1>5 DEF Placed, IsPlaced, CallRecords
<1>7. KeyOf(t)[z] = KeyOf(t)[y]
  BY <1>2, <1>4, <1>5, <1>6 DEF KeyOf
<1>8. z = y
  BY <1>1, <1>7
<1> QED BY <1>5, <1>6, <1>8

\* A search sees every shown stream of a file with one name below whose directory it has gone.
LEMMA AllSeen ==
  ASSUME NEW t, Tree(t), NEW attributes, NEW refused, NEW P, NEW visits,
         Ordered(t, attributes, refused, <<>>, P), Seen(t, attributes, visits, P),
         NEW f \in Slots(t), IsWalked(f, attributes), Len(NamesOf(t, f)) = 1,
         NEW k \in 1 .. Len(StreamsOf(t, f)), IsShown(StreamsOf(t, f)[k], attributes),
         \/ \E v \in Range(visits) : v.frs = NamesOf(t, f)[1].parent /\ v.frs \notin refused
         \/ f = kRootFRS /\ StreamsOf(t, f)[k].type = DirType
  PROVE  \E v \in Range(visits) : v.frs = f /\ v.stream = k - 1
<1>1. P \subseteq Placed(t)
  BY DEF Ordered
<1>2. CASE f = kRootFRS /\ StreamsOf(t, f)[k].type = DirType
  <2>1. FirstCall \in P /\ FirstCall.frs = f /\ FirstCall.depth = 0
        /\ IsCalled(f, StreamsOf(t, f)[k], 0)
    BY <1>2, RootSeen
  <2> QED BY <1>1, <2>1, StreamSeen
<1>3. CASE ~(f = kRootFRS /\ StreamsOf(t, f)[k].type = DirType)
  <2>1. PICK v \in Range(visits) : v.frs = NamesOf(t, f)[1].parent /\ v.frs \notin refused
    BY <1>3
  <2>2. PICK y \in P : v \in Range(Calls(t, y, attributes))
    BY DEF Seen
  <2>3. y \in CallRecords(t) /\ IsPlaced(y)
    BY <1>1 DEF Placed
  <2>4. v.frs = y.frs /\ Calls(t, y, attributes) # <<>>
    <3>1. PICK s : s = Calls(t, y, attributes)
      OBVIOUS
    <3>2. \A u \in Range(s) : u.frs = y.frs
      BY <2>3, <3>1, CallsAre
    <3>3. DOMAIN <<>> = {}
      OBVIOUS
    <3> QED BY <2>2, <3>1, <3>2, <3>3 DEF Range
  <2>5. \E x \in P : x.frs = f /\ x.depth \in Nat \ {0}
    <3>1. CASE y.frs # kRootFRS
      <4>1. Going(t, attributes, refused, y)
        BY <2>1, <2>4, <3>1 DEF Going, GoesBelow
      <4>2. f # y.frs
        BY <2>1, <2>4, <3>1, NotBelowItself
      <4>3. NamesOf(t, f)[1].parent = y.frs /\ (f # y.frs \/ y.depth = 0)
        BY <2>1, <2>4, <4>2
      <4> QED BY <4>1, <4>3, NameReached
    <3>2. CASE y.frs = kRootFRS
      <4>1. PICK z : z = FirstCall
        OBVIOUS
      <4>2. z \in P /\ z.frs = kRootFRS /\ z.depth = 0 /\ Calls(t, z, attributes) # <<>>
        BY <4>1, RootSeen
      <4>3. Going(t, attributes, refused, z)
        BY <2>1, <2>4, <3>2, <4>2 DEF Going, GoesBelow
      <4>4. NamesOf(t, f)[1].parent = z.frs /\ (f # z.frs \/ z.depth = 0)
        BY <2>1, <2>4, <3>2, <4>2
      <4> QED BY <4>2, <4>3, <4>4, NameReached
    <3> QED BY <3>1, <3>2
  <2>6. PICK x \in P : x.frs = f /\ x.depth \in Nat \ {0}
    BY <2>5
  <2>7. IsCalled(f, StreamsOf(t, f)[k], x.depth)
    BY <1>3, <2>6 DEF IsCalled
  <2> QED BY <1>1, <2>6, <2>7, StreamSeen
<1> QED BY <1>2, <1>3

\* Whatever a search may refuse, it calls back once for a name and a stream, and for all that
\* are shown of a file with one name below a directory it has entered.
THEOREM SingleNamesOnce == Spec => []SingleNamesVisitedOnce
<1>1. SearchInv => SingleNamesVisitedOnce
  <2> SUFFICES ASSUME SearchInv PROVE SingleNamesVisitedOnce
    OBVIOUS
  <2>1. CASE result = NoSearch
    <3>1. result.visits = <<>>
      BY <2>1 DEF NoSearch
    <3>2. 1 .. Len(result.visits) = {}
      BY <3>1
    <3> QED BY <2>1, <3>2 DEF SingleNamesVisitedOnce, VisitedOnce, Searched
  <2>2. CASE result # NoSearch
    <3>1. PICK attributes \in BOOLEAN, refused \in RefusedSets :
             finished /\ result = SearchOf(table, attributes, refused)
      BY <2>2 DEF SearchInv
    <3>2. PICK t : t = table
      OBVIOUS
    <3>3. Tree(t) /\ t.total \in Int
      BY <3>1, <3>2, TreeIs, TotalIs DEF SearchInv
    <3>4. PICK visits : visits = Visits(t, attributes, refused)
      OBVIOUS
    <3>5. PICK P : Ordered(t, attributes, refused, <<>>, P) /\ Seen(t, attributes, visits, P)
      BY <3>3, <3>4, WalkEnds
    <3>6. visits \in Seq(VisitRecords(t)) /\ OnceBy(visits, VisitKeyOf(t))
      BY <3>5 DEF Seen
    <3>7. /\ result.attributes = attributes /\ result.refused = refused
          /\ result.visits \in Seq(VisitRecords(t))
          /\ \A i \in DOMAIN result.visits : i \in DOMAIN visits /\ result.visits[i] = visits[i]
          /\ ~result.overrun => result.visits = visits
      BY <3>1, <3>2, <3>3, <3>4, <3>6, SearchOfIs
    <3>8. VisitedOnce
      <4> SUFFICES ASSUME NEW i \in 1 .. Len(result.visits), NEW j \in 1 .. Len(result.visits),
                          LET key(v) == <<v.frs, v.name, v.stream>>
                          IN key(result.visits[i]) = key(result.visits[j])
                   PROVE  i = j
        BY DEF VisitedOnce
      <4>1. i \in DOMAIN result.visits /\ j \in DOMAIN result.visits
        BY <3>7
      <4>2. /\ result.visits[i] = visits[i] /\ result.visits[j] = visits[j]
            /\ i \in DOMAIN visits /\ j \in DOMAIN visits
        BY <3>7, <4>1
      <4>3. PICK u, v : u = visits[i] /\ v = visits[j]
        OBVIOUS
      <4>4. u \in VisitRecords(t) /\ v \in VisitRecords(t)
        BY <3>6, <4>2, <4>3
      <4>5. <<u.frs, u.name, u.stream>> = <<v.frs, v.name, v.stream>>
        BY <4>2, <4>3
      <4>6. VisitKeyOf(t)[u] = VisitKeyOf(t)[v]
        BY <4>4, <4>5 DEF VisitKeyOf
      <4> QED BY <3>6, <4>2, <4>3, <4>6 DEF OnceBy
    <3>9. ASSUME Searched, NEW f \in Slots(table), IsWalked(f, result.attributes),
                 Len(NamesOf(table, f)) = 1, NEW k \in 1 .. Len(StreamsOf(table, f)),
                 IsShown(StreamsOf(table, f)[k], result.attributes),
                 \/ NamesOf(table, f)[1].parent \in GoneBelow
                 \/ f = kRootFRS /\ StreamsOf(table, f)[k].type = DirType
          PROVE  \E v \in Range(result.visits) : v.frs = f /\ v.stream = k - 1
      <4>1. result.visits = visits
        BY <3>7, <3>9 DEF Searched
      <4>2. NamesOf(t, f)[1].parent \in GoneBelow =>
               \E v \in Range(visits) : v.frs = NamesOf(t, f)[1].parent /\ v.frs \notin refused
        BY <3>7, <4>1 DEF GoneBelow, Met
      <4>3. \/ \E v \in Range(visits) : v.frs = NamesOf(t, f)[1].parent /\ v.frs \notin refused
            \/ f = kRootFRS /\ StreamsOf(t, f)[k].type = DirType
        BY <3>2, <3>9, <4>2
      <4>4. \E v \in Range(visits) : v.frs = f /\ v.stream = k - 1
        BY <3>2, <3>3, <3>5, <3>7, <3>9, <4>3, AllSeen
      <4> QED BY <4>1, <4>4
    <3> QED BY <3>8, <3>9 DEF SingleNamesVisitedOnce
  <2> QED BY <2>1, <2>2
<1> QED BY <1>1, SearchInvariant, PTL

-----------------------------------------------------------------------------
(* The end of the progress. *)

\* The preprocessor neither counts nor changes what is counted.
LEMMA ShapedTotalled ==
  ASSUME NEW t, Sound(t), NEW u, Shaped(t, u), Totalled(t)
  PROVE  Totalled(u)
<1>1. Slots(u) = Slots(t) /\ Slots(t) \subseteq Frss
  BY ShapedHas, SoundHas
<1>2. ASSUME NEW g \in Frss
      PROVE  /\ DOMAIN Files(u)[g].names = DOMAIN Files(t)[g].names
             /\ DOMAIN Files(u)[g].streams = DOMAIN Files(t)[g].streams
  <2>1. Files(t)[g] = File(t, g) /\ Files(u)[g] = File(u, g)
    BY DEF Files
  <2>2. CASE g \in Slots(t)
    <3>1. NamesOf(u, g) = NamesOf(t, g)
      BY <2>2, ShapedHas
    <3>2. DOMAIN StreamsOf(u, g) = DOMAIN StreamsOf(t, g)
      BY <2>2, StreamsAlike
    <3>3. /\ File(t, g).names = NamesOf(t, g) /\ File(u, g).names = NamesOf(u, g)
          /\ File(t, g).streams = StreamsOf(t, g) /\ File(u, g).streams = StreamsOf(u, g)
      BY <1>1, <2>2 DEF File
    <3> QED BY <2>1, <3>1, <3>2, <3>3
  <2>3. CASE g \notin Slots(t)
    <3>1. File(t, g) = NoFile /\ File(u, g) = NoFile
      BY <1>1, <2>3 DEF File
    <3> QED BY <2>1, <3>1
  <2> QED BY <2>2, <2>3
<1>3. PairsOf(Files(u)) = PairsOf(Files(t))
  BY <1>2, PairsSame
<1>4. u.total = t.total
  BY DEF Shaped
<1> QED BY <1>3, <1>4 DEF Totalled

\* No search calls back more often than there are names and streams.
LEMMA VisitsWithin ==
  ASSUME NEW t, Tree(t), Totalled(t), NEW visits \in Seq(PathVisits(t)),
         OnceBy(visits, VisitKeyOf(t))
  PROVE  Len(visits) =< t.total
<1> DEFINE n == Len(visits)
           g == [i \in 1 .. n |-> <<visits[i].frs, <<visits[i].name + 1, visits[i].stream + 1>>>>]
<1>1. n \in Nat /\ DOMAIN visits = 1 .. n
  OBVIOUS
<1>2. ASSUME NEW i \in 1 .. n
      PROVE  /\ visits[i] \in VisitRecords(t) /\ visits[i].frs \in Slots(t) /\ visits[i].frs \in Frss
             /\ visits[i].name \in Nat /\ visits[i].stream \in Nat
             /\ visits[i].name + 1 \in DOMAIN NamesOf(t, visits[i].frs)
             /\ visits[i].stream + 1 \in DOMAIN StreamsOf(t, visits[i].frs)
  <2>1. visits[i] \in PathVisits(t)
    BY <1>1
  <2> QED BY <2>1 DEF PathVisits, VisitRecords, Tree
<1>3. ASSUME NEW i \in 1 .. n PROVE g[i] \in PairsOf(Files(t))
  <2>1. PICK f, j, k : f = visits[i].frs /\ j = visits[i].name + 1 /\ k = visits[i].stream + 1
    OBVIOUS
  <2>2. Files(t)[f] = File(t, f) /\ f \in Frss
    BY <1>2, <2>1 DEF Files
  <2>3. File(t, f).names = NamesOf(t, f) /\ File(t, f).streams = StreamsOf(t, f)
    BY <1>2, <2>1 DEF File
  <2>4. j \in DOMAIN Files(t)[f].names /\ k \in DOMAIN Files(t)[f].streams
    BY <1>2, <2>1, <2>2, <2>3
  <2>5. g[i] = <<f, <<j, k>>>>
    BY <2>1
  <2> QED BY <2>2, <2>4, <2>5 DEF PairsOf
<1>4. ASSUME NEW i \in 1 .. n, NEW j \in 1 .. n, g[i] = g[j] PROVE i = j
  <2>1. PICK v, w : v = visits[i] /\ w = visits[j]
    OBVIOUS
  <2>2. v.frs = w.frs /\ v.name + 1 = w.name + 1 /\ v.stream + 1 = w.stream + 1
    BY <1>4, <2>1
  <2>3. v.name = w.name /\ v.stream = w.stream
    BY <1>2, <2>1, <2>2
  <2>4. v \in VisitRecords(t) /\ w \in VisitRecords(t)
    BY <1>2, <2>1
  <2>5. VisitKeyOf(t)[v] = VisitKeyOf(t)[w]
    BY <2>2, <2>3, <2>4 DEF VisitKeyOf
  <2> QED BY <1>1, <2>1, <2>5 DEF OnceBy
<1>5. g \in [1 .. n -> PairsOf(Files(t))]
  BY <1>3
<1> HIDE DEF g, n
<1>6. g \in Injection(1 .. n, PairsOf(Files(t)))
  BY <1>4, <1>5 DEF Injection, IsInjective
<1>7. IsFiniteSet(PairsOf(Files(t))) /\ t.total = Cardinality(PairsOf(Files(t)))
  BY DEF Totalled
<1>8. Cardinality(1 .. n) =< Cardinality(PairsOf(Files(t)))
  BY <1>6, <1>7, FS_Injection
<1>9. Cardinality(1 .. n) = n
  BY <1>1, FS_Interval
<1> QED BY <1>7, <1>8, <1>9 DEF n

\* The callback of the search divides by a count it takes for the end: on a volume without
\* split records that count is never passed, whatever order the chunks came in.
THEOREM ProgressBounded == Spec => []ProgressHolds
<1>1. SearchInv => ProgressHolds
  <2> SUFFICES ASSUME SearchInv, Contiguous PROVE ~result.overrun
    BY DEF ProgressHolds
  <2>1. CASE result = NoSearch
    BY <2>1 DEF NoSearch
  <2>2. CASE result # NoSearch
    <3>1. PICK attributes \in BOOLEAN, refused \in RefusedSets :
             finished /\ result = SearchOf(table, attributes, refused)
      BY <2>2 DEF SearchInv
    <3>2. PICK u : u = table
      OBVIOUS
    <3>3. Tree(u) /\ u.total \in Int
      BY <3>1, <3>2, TreeIs, TotalIs DEF SearchInv
    <3>4. Totalled(u)
      <4>1. PICK t : IsLoaded(t) /\ Shaped(t, table)
        BY <3>1 DEF SearchInv, LoadInv
      <4>2. Sound(t) /\ Totalled(t)
        BY <4>1 DEF IsLoaded, Loading, Contiguous
      <4> QED BY <3>2, <4>1, <4>2, ShapedTotalled
    <3>5. PICK visits \in Seq(PathVisits(u)) : visits = Visits(u, attributes, refused)
      BY <3>3, VisitsClimb
    <3>6. OnceBy(visits, VisitKeyOf(u))
      <4>1. PICK P : Seen(u, attributes, Visits(u, attributes, refused), P)
        BY <3>3, WalkEnds
      <4> QED BY <3>5, <4>1 DEF Seen
    <3>7. Len(visits) =< u.total /\ Len(visits) \in Nat
      BY <3>3, <3>4, <3>5, <3>6, VisitsWithin
    <3>8. result.overrun = (Len(visits) > u.total)
      BY <3>1, <3>2, <3>5 DEF SearchOf
    <3>9. (Len(visits) > u.total) = FALSE
      BY <3>3, <3>7
    <3> QED BY <3>8, <3>9
  <2> QED BY <2>1, <2>2
<1> QED BY <1>1, SearchInvariant, PTL
=============================================================================
