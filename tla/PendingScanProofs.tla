------------------------- MODULE PendingScanProofs -------------------------
(***************************************************************************)
(* What the scan of _pending returns, for vectors of every length, every   *)
(* scan offset and all priorities: an index of the vector, the index of a  *)
(* task of highest priority, and the one the loop ends with.               *)
(***************************************************************************)
EXTENDS PendingScan, SequenceLemmas, TLAPS

\* The walk stays inside the vector.
LEMMA VisitedInRange ==
  ASSUME NEW n \in Nat, NEW scan \in Nat, NEW o \in 0 .. n - 1
  PROVE  Visited(n, scan, o) \in 0 .. n - 1
BY DEF Visited, ScanStart

\* It reaches every index: index i is visited in some iteration.
LEMMA VisitedCovers ==
  ASSUME NEW n \in Nat, NEW scan \in Nat, NEW i \in 0 .. n - 1
  PROVE  \E o \in 0 .. n - 1 : Visited(n, scan, o) = i
<1> DEFINE s == ScanStart(n, scan)
           o == IF i < s THEN s - 1 - i ELSE s + n - 1 - i
<1>1. s \in 1 .. n
  BY DEF ScanStart
<1>2. o \in 0 .. n - 1
  BY <1>1
<1>3. Visited(n, scan, o) = i
  BY <1>1 DEF Visited
<1> QED BY <1>2, <1>3

\* found is an index of the vector, and no pending task has a higher priority
\* than the one it designates.
THEOREM FoundIsGreatest ==
  ASSUME NEW prio \in Seq(Int), prio # <<>>, NEW scan \in Nat
  PROVE  /\ Found(prio, scan) \in 0 .. Len(prio) - 1
         /\ \A i \in 1 .. Len(prio) : prio[i] =< prio[Found(prio, scan) + 1]
<1> DEFINE n == Len(prio)
           key == [q \in 0 .. n - 1 |-> prio[Visited(n, scan, q) + 1]]
           o == CHOOSE q \in 0 .. n - 1 : Wins(prio, scan, q)
<1>1. n \in Nat \ {0}
  OBVIOUS
<1>2. key \in [0 .. n - 1 -> Int]
  <2>1. ASSUME NEW q \in 0 .. n - 1 PROVE prio[Visited(n, scan, q) + 1] \in Int
    <3>1. Visited(n, scan, q) \in 0 .. n - 1
      BY <1>1, VisitedInRange
    <3> QED BY <3>1
  <2> QED BY <2>1
<1>3. \E q \in 0 .. n - 1 : Wins(prio, scan, q)
  <2>1. PICK q \in 0 .. n - 1 : /\ \A p \in 0 .. n - 1 : key[p] =< key[q]
                                /\ \A p \in 0 .. q - 1 : key[p] < key[q]
    <3> HIDE DEF n, key
    <3> QED BY <1>1, <1>2, FirstGreatest
  <2>2. 0 .. q - 1 \subseteq 0 .. n - 1
    BY <1>1
  <2> QED BY <2>1, <2>2 DEF Wins
<1>4. o \in 0 .. n - 1 /\ Wins(prio, scan, o)
  BY <1>3
<1>5. Found(prio, scan) = Visited(n, scan, o)
  BY DEF Found
<1>6. Found(prio, scan) \in 0 .. n - 1
  BY <1>1, <1>4, <1>5, VisitedInRange
<1>7. ASSUME NEW i \in 1 .. n PROVE prio[i] =< prio[Found(prio, scan) + 1]
  <2>1. PICK q \in 0 .. n - 1 : Visited(n, scan, q) = i - 1
    <3>1. i - 1 \in 0 .. n - 1
      BY <1>1
    <3> QED BY <1>1, <3>1, VisitedCovers
  <2>2. prio[Visited(n, scan, q) + 1] =< prio[Visited(n, scan, o) + 1]
    BY <1>4 DEF Wins
  <2> QED BY <1>5, <2>1, <2>2
<1> QED BY <1>6, <1>7

\* One iteration of the loop.
Iterated(prev, prio) ==
    LET i == (IF prev.offset = 0 \/ prev.offset > Len(prio)
              THEN Len(prio) ELSE prev.offset) - 1
        better == \/ prev.found = -1
                  \/ prio[i + 1] > prio[prev.found + 1]
    IN  [offset |-> i, found |-> IF better THEN i ELSE prev.found]

\* The states of the loop.
IsLooping(step, prio, scan, n) ==
    step = [o \in 0 .. n |-> IF o = 0 THEN [offset |-> scan, found |-> -1]
                             ELSE Iterated(step[o - 1], prio)]

LEMMA LoopingExists ==
  ASSUME NEW prio, NEW scan, NEW n \in Nat
  PROVE  \E step : IsLooping(step, prio, scan, n)
<1> DEFINE T == {k \in 0 .. n : \E step : IsLooping(step, prio, scan, k)}
           start == [offset |-> scan, found |-> -1]
<1>1. ASSUME NEW k \in 0 .. n, \A j \in 0 .. k - 1 : j \in T PROVE k \in T
  <2>1. CASE k = 0
    <3> DEFINE f == [o \in 0 .. 0 |-> start]
    <3>1. f = [o \in 0 .. 0 |-> IF o = 0 THEN start ELSE Iterated(f[o - 1], prio)]
      OBVIOUS
    <3> HIDE DEF f
    <3>2. IsLooping(f, prio, scan, 0)
      BY <3>1 DEF IsLooping
    <3> QED BY <2>1, <3>2
  <2>2. CASE k # 0
    <3>1. k - 1 \in 0 .. k - 1
      BY <2>2
    <3>2. PICK g : IsLooping(g, prio, scan, k - 1)
      BY <1>1, <3>1
    <3>3. g = [o \in 0 .. k - 1 |-> IF o = 0 THEN start ELSE Iterated(g[o - 1], prio)]
      BY <3>2 DEF IsLooping
    <3> DEFINE f == [o \in 0 .. k |-> IF o = 0 THEN start ELSE Iterated(g[o - 1], prio)]
    <3>4. ASSUME NEW o \in 0 .. k - 1 PROVE f[o] = g[o]
      <4>1. o \in 0 .. k
        OBVIOUS
      <4>2. PICK B : B = IF o = 0 THEN start ELSE Iterated(g[o - 1], prio)
        OBVIOUS
      <4>3. f[o] = B
        BY <4>1, <4>2
      <4>4. g[o] = B
        BY <3>3, <4>2
      <4> QED BY <4>3, <4>4
    <3>5. ASSUME NEW o \in 0 .. k, o # 0 PROVE f[o - 1] = g[o - 1]
      <4>1. o - 1 \in 0 .. k - 1
        BY <3>5
      <4> QED BY <3>4, <4>1
    <3>6. f = [o \in 0 .. k |-> IF o = 0 THEN start ELSE Iterated(f[o - 1], prio)]
      BY <3>5
    <3> HIDE DEF f
    <3>7. IsLooping(f, prio, scan, k)
      BY <3>6 DEF IsLooping
    <3> QED BY <3>7
  <2> QED BY <2>1, <2>2
<1> HIDE DEF T
<1>2. n \in T
  BY <1>1, UpTo
<1> QED BY <1>2 DEF T

\* The next index is the one before, from 0 the last.
LEMMA VisitedNext ==
  ASSUME NEW n \in Nat, NEW scan \in Nat, NEW o \in 1 .. n - 1
  PROVE  LET i == Visited(n, scan, o - 1)
         IN Visited(n, scan, o) = (IF i = 0 \/ i > n THEN n ELSE i) - 1
BY DEF Visited, ScanStart

LEMMA VisitedFirst ==
  ASSUME NEW n \in Nat \ {0}, NEW scan \in Nat
  PROVE  Visited(n, scan, 0) = (IF scan = 0 \/ scan > n THEN n ELSE scan) - 1
BY DEF Visited, ScanStart

\* At most one iteration wins.
LEMMA WinsOnce ==
  ASSUME NEW prio \in Seq(Int), NEW scan \in Nat,
         NEW o \in 0 .. Len(prio) - 1, NEW p \in 0 .. Len(prio) - 1,
         Wins(prio, scan, o), Wins(prio, scan, p)
  PROVE  o = p
<1> DEFINE n == Len(prio)
           At(q) == prio[Visited(n, scan, q) + 1]
<1>1. n \in Nat
  OBVIOUS
<1>2. \A q \in 0 .. n - 1 : At(q) \in Int
  <2>1. ASSUME NEW q \in 0 .. n - 1 PROVE At(q) \in Int
    <3>1. Visited(n, scan, q) \in 0 .. n - 1
      BY <1>1, VisitedInRange
    <3> QED BY <3>1
  <2> QED BY <2>1
<1>3. /\ \A q \in 0 .. n - 1 : At(q) =< At(o) /\ At(q) =< At(p)
      /\ \A q \in 0 .. o - 1 : At(q) < At(o)
      /\ \A q \in 0 .. p - 1 : At(q) < At(p)
  BY DEF Wins
<1> HIDE DEF At
<1>4. ~(o < p) /\ ~(p < o)
  <2>1. At(o) =< At(p) /\ At(p) =< At(o) /\ At(o) \in Int /\ At(p) \in Int
    BY <1>2, <1>3
  <2>2. o < p => At(o) < At(p)
    BY <1>3
  <2>3. p < o => At(p) < At(o)
    BY <1>3
  <2> QED BY <2>1, <2>2, <2>3
<1> QED BY <1>4

(***************************************************************************)
(* Iteration by iteration, from any offset and for any vector that is not  *)
(* empty, the loop of worker() ends with the index that Found designates.  *)
(***************************************************************************)
THEOREM FoundByTheLoop ==
  ASSUME NEW prio \in Seq(Int), prio # <<>>, NEW scan \in Nat
  PROVE  LoopState(prio, scan).found = Found(prio, scan)
<1> DEFINE n == Len(prio)
           step == CHOOSE f : IsLooping(f, prio, scan, n)
           V(q) == Visited(n, scan, q)
           At(q) == prio[V(q) + 1]
<1>1. n \in Nat \ {0}
  OBVIOUS
<1>2. LoopState(prio, scan) = step[n]
  BY DEF LoopState, IsLooping, Iterated
<1>3. IsLooping(step, prio, scan, n)
  BY <1>1, LoopingExists
<1> HIDE DEF step
<1>4. step = [o \in 0 .. n |-> IF o = 0 THEN [offset |-> scan, found |-> -1]
                               ELSE Iterated(step[o - 1], prio)]
  BY <1>3 DEF IsLooping
<1>5. step[0] = [offset |-> scan, found |-> -1]
  BY <1>1, <1>4
<1>6. ASSUME NEW o \in 1 .. n PROVE step[o] = Iterated(step[o - 1], prio)
  <2>1. PICK B : B = Iterated(step[o - 1], prio)
    OBVIOUS
  <2>2. step[o] = B
    BY <1>1, <1>4, <2>1
  <2> QED BY <2>1, <2>2
<1>7. ASSUME NEW q \in 0 .. n - 1 PROVE V(q) \in 0 .. n - 1 /\ At(q) \in Int
  <2>1. V(q) \in 0 .. n - 1
    BY <1>1, VisitedInRange
  <2> QED BY <2>1
<1> DEFINE Best(o, q) == /\ step[o].offset = V(o - 1) /\ step[o].found = V(q)
                         /\ \A p \in 0 .. o - 1 : At(p) =< At(q)
                         /\ \A p \in 0 .. q - 1 : At(p) < At(q)
           G == {k \in 0 .. n - 1 : \E q \in 0 .. k : Best(k + 1, q)}
<1>8. ASSUME NEW k \in 0 .. n - 1, \A j \in 0 .. k - 1 : j \in G PROVE k \in G
  <2>1. k + 1 \in 1 .. n /\ (k + 1) - 1 = k
    BY <1>1
  <2>2. step[k + 1] = Iterated(step[k], prio)
    BY <1>6, <2>1
  <2>3. CASE k = 0
    <3>1. step[1] = Iterated([offset |-> scan, found |-> -1], prio)
      BY <1>5, <2>2, <2>3
    <3>2. step[1] = [offset |-> V(0), found |-> V(0)]
      BY <1>1, <3>1, VisitedFirst DEF Iterated
    <3>3. Best(1, 0)
      <4>1. \A p \in 0 .. 0 : At(p) =< At(0)
        BY <1>1, <1>7
      <4> HIDE DEF At
      <4> QED BY <3>2, <4>1
    <3> QED BY <2>3, <3>3
  <2>4. CASE k # 0
    <3>1. k - 1 \in G /\ (k - 1) + 1 = k
      <4>1. k - 1 \in 0 .. k - 1 /\ (k - 1) + 1 = k
        BY <2>4
      <4> HIDE DEF G
      <4> QED BY <1>8, <4>1
    <3>2. PICK q \in 0 .. k - 1 : Best(k, q)
      BY <3>1
    <3>3. k \in 1 .. n - 1 /\ q \in 0 .. n - 1
      BY <1>1, <2>4
    <3>4. V(k) = (IF V(k - 1) = 0 \/ V(k - 1) > n THEN n ELSE V(k - 1)) - 1
      BY <1>1, <3>3, VisitedNext
    <3>5. V(q) \in 0 .. n - 1 /\ V(q) # -1 /\ At(q) \in Int /\ At(k) \in Int /\ V(k) \in Int
      BY <1>1, <1>7, <3>3
    <3>6. step[k].offset = V(k - 1) /\ step[k].found = V(q)
      BY <3>2
    <3> HIDE DEF V
    <3>7. step[k + 1] = [offset |-> V(k), found |-> IF At(k) > At(q) THEN V(k) ELSE V(q)]
      BY <2>2, <3>4, <3>5, <3>6 DEF Iterated
    <3>8. /\ \A p \in 0 .. k - 1 : At(p) =< At(q) /\ At(p) \in Int
          /\ \A p \in 0 .. q - 1 : At(p) < At(q)
      BY <1>7, <3>2, <3>3
    <3> HIDE DEF At
    <3>9. CASE At(k) > At(q)
      <4>1. \A p \in 0 .. k : At(p) =< At(k)
        BY <3>5, <3>8, <3>9
      <4>2. \A p \in 0 .. k - 1 : At(p) < At(k)
        BY <3>5, <3>8, <3>9
      <4>3. Best(k + 1, k)
        BY <2>1, <3>7, <3>9, <4>1, <4>2
      <4> QED BY <4>3
    <3>10. CASE ~(At(k) > At(q))
      <4>1. \A p \in 0 .. k : At(p) =< At(q)
        BY <3>5, <3>8, <3>10
      <4>2. Best(k + 1, q)
        BY <2>1, <3>7, <3>8, <3>10, <4>1
      <4> QED BY <4>2
    <3> QED BY <3>9, <3>10
  <2> QED BY <2>3, <2>4
<1> HIDE DEF G
<1>9. n - 1 \in G
  <2>1. n - 1 \in Nat
    BY <1>1
  <2>2. 0 .. n - 1 \subseteq G
    BY ONLY <1>8, <2>1, UpTo
  <2> QED BY <2>1, <2>2
<1>10. PICK q \in 0 .. n - 1 : Best(n, q)
  <2>1. (n - 1) + 1 = n
    BY <1>1
  <2> QED BY <1>9, <2>1 DEF G
<1>11. Wins(prio, scan, q)
  BY <1>10 DEF Wins
<1> DEFINE o == CHOOSE p \in 0 .. n - 1 : Wins(prio, scan, p)
<1>12. o \in 0 .. n - 1 /\ Wins(prio, scan, o)
  BY <1>11
<1>13. o = q
  <2> HIDE DEF o
  <2> QED BY <1>11, <1>12, WinsOnce
<1>14. Found(prio, scan) = V(q)
  BY <1>13 DEF Found
<1> QED BY <1>2, <1>10, <1>14
=============================================================================
