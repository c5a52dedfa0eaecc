-------------------------- MODULE AlgorithmsProofs --------------------------
(***************************************************************************)
(* The parts that one thread runs at a time, each by itself.               *)
(*   - The pending vector, for any streams, priorities and speeds: the     *)
(*     scan offset never leaves the vector, the task that is issued has    *)
(*     the highest priority, and one of the same priority overtakes a task *)
(*     at most twice.                                                      *)
(*   - The memory a read is made of, for any sizes and any number of       *)
(*     reads: no two reads share a block, and the blocks that are never    *)
(*     given back stay bounded.                                            *)
(*   - The record in it, for any sizes and contents: what unfixup() passes *)
(*     is one version of the record, its words restored.                   *)
(*   - The diagnostic tools on an MFT in any number of extents, with       *)
(*     clusters, records and reads of any size: what they read is the MFT. *)
(*   - The search with any pattern on a drive of any root and names:       *)
(*     nothing below a directory the callback has turned down matches.     *)
(***************************************************************************)
EXTENDS PendingQueue, BufferPool, RecordFixup, MftDiagnostics, PathSearch, PendingScanProofs

-----------------------------------------------------------------------------
(***************************************************************************)
(* The pending vector.                                                     *)
(***************************************************************************)
\* The priorities the scan reads, one for every task of the vector.
LEMMA PriorityAtType ==
  ASSUME TypeOK
  PROVE  /\ PriorityAt \in Seq(Int)
         /\ Len(PriorityAt) = Len(pending)
         /\ \A i \in 1 .. Len(pending) : PriorityAt[i] = priority[pending[i]]
<1>1. pending \in Seq(Streams) /\ Len(pending) \in Nat
  BY DEF TypeOK
<1>2. ASSUME NEW i \in 1 .. Len(pending) PROVE priority[pending[i]] \in Int
  <2>1. pending[i] \in Streams
    BY <1>1
  <2>2. priority[pending[i]] \in Nat
    BY <2>1, QueueAssumption DEF TypeOK
  <2> QED BY <2>2
<1> QED BY <1>1, <1>2 DEF PriorityAt

\* What one selection does to the vector.
LEMMA SelectEffect ==
  ASSUME TypeOK, Select
  PROVE  \E i \in 1 .. Len(pending) :
           /\ pending' = RemoveAt(pending, i)
           /\ scan' = i - 1
           /\ \A j \in 1 .. Len(pending) : priority[pending[j]] =< priority[pending[i]]
<1> DEFINE found == Found(PriorityAt, scan)
<1>1. pending \in Seq(Streams) /\ scan \in Nat /\ pending # <<>>
  BY DEF TypeOK, Select
<1>2. PriorityAt # <<>>
  BY <1>1, PriorityAtType
<1>3. /\ found \in 0 .. Len(pending) - 1
      /\ \A j \in 1 .. Len(pending) : PriorityAt[j] =< PriorityAt[found + 1]
  BY <1>1, <1>2, PriorityAtType, FoundIsGreatest
<1>4. pending' = RemoveAt(pending, found + 1) /\ scan' = found
  BY DEF Select, NextOffset
<1>5. found + 1 \in 1 .. Len(pending) /\ found = (found + 1) - 1
  BY <1>1, <1>3
<1> HIDE DEF found
<1> QED BY <1>3, <1>4, <1>5, PriorityAtType

\* Erasing from a vector without duplicates removes just the erased element.
LEMMA EraseFromInjective ==
  ASSUME NEW S, NEW s \in Seq(S), IsInjective(s), NEW i \in 1 .. Len(s)
  PROVE  /\ IsInjective(RemoveAt(s, i))
         /\ \A j \in 1 .. Len(s) : j # i => s[j] \in ToSet(RemoveAt(s, i))
<1> DEFINE t == RemoveAt(s, i)
<1>1. /\ t \in Seq(S) /\ Len(t) = Len(s) - 1
      /\ \A k \in 1 .. Len(s) - 1 : t[k] = IF k < i THEN s[k] ELSE s[k + 1]
  BY RemoveAtProperties
<1> HIDE DEF t
<1>2. DOMAIN t = 1 .. Len(s) - 1 /\ DOMAIN s = 1 .. Len(s)
  BY <1>1
<1>3. IsInjective(t)
  BY <1>1, <1>2 DEF IsInjective
<1>4. ASSUME NEW j \in 1 .. Len(s), j # i PROVE s[j] \in ToSet(t)
  <2>1. CASE j < i
    BY <1>1, <1>2, <2>1 DEF ToSet
  <2>2. CASE j > i
    <3>1. j - 1 \in 1 .. Len(s) - 1 /\ t[j - 1] = s[j]
      BY <1>1, <2>2
    <3> QED BY <1>2, <3>1 DEF ToSet
  <2> QED BY <1>4, <2>1, <2>2
<1> QED BY <1>3, <1>4 DEF t

\* PendingQueue!TypeOK: a stream is never pending twice.
THEOREM TypeCorrect == Spec => []TypeOK
<1>1. Init => TypeOK
  BY QueueAssumption DEF Init, TypeOK, NobodyOvertaken, IsInjective
<1>2. TypeOK /\ [Next]_vars => TypeOK'
  <2> SUFFICES ASSUME TypeOK, [Next]_vars PROVE TypeOK'
    OBVIOUS
  <2>1. ASSUME NEW r \in Streams, Push(r) PROVE TypeOK'
    <3>1. pending \in Seq(Streams) /\ pending' = Append(pending, r)
      BY <2>1 DEF TypeOK, Push
    <3>2. IsInjective(pending')
      <4>1. \A k \in 1 .. Len(pending) : pending[k] # r
        BY <2>1, <3>1 DEF Push, IsWaiting, ToSet
      <4>2. \A a, b \in 1 .. Len(pending) : pending[a] = pending[b] => a = b
        <5>1. DOMAIN pending = 1 .. Len(pending) /\ IsInjective(pending)
          BY <3>1 DEF TypeOK
        <5> QED BY <5>1 DEF IsInjective
      <4> QED BY <3>1, <4>1, <4>2 DEF IsInjective
    <3>3. overtaken' \in [Streams -> [Streams -> Nat]]
      BY <2>1 DEF TypeOK, Push
    <3> QED BY <2>1, <3>1, <3>2, <3>3 DEF TypeOK, Push
  <2>2. CASE Select
    <3>1. PICK i \in 1 .. Len(pending) : pending' = RemoveAt(pending, i) /\ scan' = i - 1
      BY <2>2, SelectEffect
    <3>2. pending \in Seq(Streams) /\ IsInjective(pending)
      BY DEF TypeOK
    <3>3. pending' \in Seq(Streams) /\ IsInjective(pending')
      BY <3>1, <3>2, RemoveAtProperties, EraseFromInjective
    <3>4. overtaken' \in [Streams -> [Streams -> Nat]]
      <4>1. ASSUME NEW r \in Streams, NEW c
            PROVE  [overtaken[r] EXCEPT ![c] = @ + 1] \in [Streams -> Nat]
        <5>1. overtaken[r] \in [Streams -> Nat]
          BY DEF TypeOK
        <5>2. CASE c \in Streams
          BY <5>1, <5>2
        <5>3. CASE c \notin Streams
          BY <5>1, <5>3
        <5> QED BY <5>2, <5>3
      <4>2. PICK c : overtaken' = [r \in Streams |->
              IF IsWaiting(r) /\ r # c /\ AllEqual THEN [overtaken[r] EXCEPT ![c] = @ + 1]
              ELSE [s \in Streams |-> 0]]
        BY <2>2 DEF Select
      <4> QED BY <4>1, <4>2
    <3> QED BY <2>2, <3>1, <3>3, <3>4 DEF TypeOK, Select
  <2>3. ASSUME NEW r \in Streams, NEW p \in Priorities, SetPriority(r, p) PROVE TypeOK'
    BY <2>3 DEF TypeOK, SetPriority, NobodyOvertaken
  <2>4. CASE UNCHANGED vars
    BY <2>4 DEF TypeOK, vars
  <2> QED BY <2>1, <2>2, <2>3, <2>4 DEF Next
<1> QED BY <1>1, <1>2, PTL DEF Spec

\* PendingQueue!OffsetInRange: _pending_scan_offset is never past the end of
\* _pending, however pushes and erasures interleave.
THEOREM OffsetStaysInRange == Spec => []OffsetInRange
<1>1. Init => OffsetInRange
  BY DEF Init, OffsetInRange
<1>2. TypeOK /\ OffsetInRange /\ [Next]_vars => OffsetInRange'
  <2> SUFFICES ASSUME TypeOK, OffsetInRange, [Next]_vars PROVE OffsetInRange'
    OBVIOUS
  <2>1. ASSUME NEW r \in Streams, Push(r) PROVE OffsetInRange'
    BY <2>1 DEF TypeOK, OffsetInRange, Push
  <2>2. CASE Select
    <3>1. PICK i \in 1 .. Len(pending) : pending' = RemoveAt(pending, i) /\ scan' = i - 1
      BY <2>2, SelectEffect
    <3>2. Len(pending') = Len(pending) - 1
      BY <3>1, RemoveAtProperties DEF TypeOK
    <3> QED BY <3>1, <3>2 DEF OffsetInRange
  <2>3. ASSUME NEW r \in Streams, NEW p \in Priorities, SetPriority(r, p)
        PROVE  OffsetInRange'
    BY <2>3 DEF OffsetInRange, SetPriority
  <2>4. CASE UNCHANGED vars
    BY <2>4 DEF OffsetInRange, vars
  <2> QED BY <2>1, <2>2, <2>3, <2>4 DEF Next
<1> QED BY <1>1, <1>2, TypeCorrect, PTL DEF Spec

\* PendingQueue!HighestPriorityFirst: the key 1 branch of worker() issues a
\* task only while no other pending task has a higher priority.
THEOREM IssuesHighestPriority == Spec => HighestPriorityFirst
<1> DEFINE Property ==
      \A i \in DOMAIN pending : Issued(i) =>
        \A j \in DOMAIN pending : priority[pending[j]] =< priority[pending[i]]
<1>1. TypeOK /\ [Next]_vars => [Property]_vars
  <2> SUFFICES ASSUME TypeOK, Next, NEW i \in DOMAIN pending, Issued(i)
               PROVE  \A j \in DOMAIN pending :
                        priority[pending[j]] =< priority[pending[i]]
    OBVIOUS
  <2>0. pending \in Seq(Streams) /\ IsInjective(pending) /\ DOMAIN pending = 1 .. Len(pending)
    BY DEF TypeOK
  <2>1. ASSUME NEW r \in Streams, Push(r) PROVE FALSE
    <3>1. pending' = Append(pending, r)
      BY <2>1 DEF Push
    <3>2. i \in DOMAIN pending' /\ pending'[i] = pending[i]
      BY <2>0, <3>1
    <3> QED BY <3>2 DEF Issued, ToSet
  <2>2. CASE Select
    <3>1. PICK k \in 1 .. Len(pending) :
            /\ pending' = RemoveAt(pending, k)
            /\ \A j \in 1 .. Len(pending) : priority[pending[j]] =< priority[pending[k]]
      BY <2>2, SelectEffect
    <3>2. i = k
      BY <2>0, <3>1, EraseFromInjective DEF Issued
    <3> QED BY <2>0, <3>1, <3>2
  <2>3. ASSUME NEW r \in Streams, NEW p \in Priorities, SetPriority(r, p) PROVE FALSE
    BY <2>3 DEF SetPriority, Issued, IsWaiting
  <2> QED BY <2>1, <2>2, <2>3 DEF Next
<1> QED BY <1>1, TypeCorrect, PTL DEF Spec, HighestPriorityFirst

\* PendingQueue!SelectsAsTheLoop: the task that is issued is the one at which the
\* loop of worker() ends, whatever pushes, selections and changes of priority have
\* left in the vector and in the scan offset.
THEOREM SelectsByTheLoop == Spec => SelectsAsTheLoop
<1> DEFINE Property ==
      \A i \in DOMAIN pending : Issued(i) => i - 1 = LoopState(PriorityAt, scan).found
<1>1. TypeOK /\ [Next]_vars => [Property]_vars
  <2> SUFFICES ASSUME TypeOK, Next, NEW i \in DOMAIN pending, Issued(i)
               PROVE  i - 1 = LoopState(PriorityAt, scan).found
    OBVIOUS
  <2>0. /\ pending \in Seq(Streams) /\ IsInjective(pending) /\ DOMAIN pending = 1 .. Len(pending)
        /\ scan \in Nat
    BY DEF TypeOK
  <2>1. ASSUME NEW r \in Streams, Push(r) PROVE FALSE
    <3>1. pending' = Append(pending, r)
      BY <2>1 DEF Push
    <3>2. i \in DOMAIN pending' /\ pending'[i] = pending[i]
      BY <2>0, <3>1
    <3> QED BY <3>2 DEF Issued, ToSet
  <2>2. CASE Select
    <3> DEFINE found == Found(PriorityAt, scan)
    <3>1. PriorityAt \in Seq(Int) /\ PriorityAt # <<>> /\ Len(PriorityAt) = Len(pending)
      <4>1. pending # <<>>
        BY <2>2 DEF Select
      <4> QED BY <2>0, <4>1, PriorityAtType
    <3>2. found \in 0 .. Len(pending) - 1
      BY <2>0, <3>1, FoundIsGreatest
    <3>3. pending' = RemoveAt(pending, found + 1)
      BY <2>2 DEF Select
    <3>4. LoopState(PriorityAt, scan).found = found
      BY <2>0, <3>1, FoundByTheLoop
    <3> HIDE DEF found
    <3>5. found + 1 \in 1 .. Len(pending)
      BY <2>0, <3>2
    <3>6. i = found + 1
      BY <2>0, <3>3, <3>5, EraseFromInjective DEF Issued
    <3> QED BY <3>2, <3>4, <3>6
  <2>3. ASSUME NEW r \in Streams, NEW p \in Priorities, SetPriority(r, p) PROVE FALSE
    BY <2>3 DEF SetPriority, Issued, IsWaiting
  <2> QED BY <2>1, <2>2, <2>3 DEF Next
<1> QED BY <1>1, TypeCorrect, PTL DEF Spec, SelectsAsTheLoop

-----------------------------------------------------------------------------
(***************************************************************************)
(* Among equals the scan goes down the vector, one task after another, and *)
(* starts again at its end.  A task that it has passed, or that was pushed *)
(* behind it, waits for the rest of this sweep and for a part of the next; *)
(* in either a stream is selected once at most before the task is.         *)
(***************************************************************************)
RoundInv ==
  /\ \A r, s \in Streams : ~IsWaiting(r) => overtaken[r][s] = 0
  /\ \A i \in DOMAIN pending, s \in Streams :
       /\ overtaken[pending[i]][s] =< 2
       /\ i > scan => overtaken[pending[i]][s] =< 1
  /\ \A i, j \in DOMAIN pending :
       /\ i > scan /\ j =< scan => overtaken[pending[i]][pending[j]] = 0
       /\ i < j /\ j =< scan => overtaken[pending[i]][pending[j]] =< 1

\* Among equals the first index that is visited wins.
LEMMA FoundAmongEquals ==
  ASSUME NEW prio \in Seq(Int), prio # <<>>, NEW scan0 \in Nat,
         \A i, j \in 1 .. Len(prio) : prio[i] = prio[j]
  PROVE  Found(prio, scan0) = ScanStart(Len(prio), scan0) - 1
<1> DEFINE n == Len(prio)
           o == CHOOSE q \in 0 .. n - 1 : Wins(prio, scan0, q)
<1>1. n \in Nat \ {0} /\ 0 \in 0 .. n - 1
  OBVIOUS
<1>2. \A p, q \in 0 .. n - 1 :
        /\ prio[Visited(n, scan0, p) + 1] \in Int
        /\ prio[Visited(n, scan0, p) + 1] = prio[Visited(n, scan0, q) + 1]
  <2>1. \A q \in 0 .. n - 1 : Visited(n, scan0, q) + 1 \in 1 .. n
    <3>1. ASSUME NEW q \in 0 .. n - 1 PROVE Visited(n, scan0, q) \in 0 .. n - 1
      BY <1>1, VisitedInRange
    <3> QED BY <1>1, <3>1
  <2> QED BY <2>1
<1>3. Wins(prio, scan0, 0)
  <2>1. 0 .. 0 - 1 = {}
    OBVIOUS
  <2>2. \A q \in 0 .. n - 1 :
          prio[Visited(n, scan0, q) + 1] =< prio[Visited(n, scan0, 0) + 1]
    BY <1>1, <1>2
  <2> QED BY <2>1, <2>2 DEF Wins
<1>4. o \in 0 .. n - 1 /\ Wins(prio, scan0, o)
  BY <1>1, <1>3
<1>5. o = 0
  <2>1. ASSUME o > 0 PROVE FALSE
    <3>1. 0 \in 0 .. o - 1
      BY <1>4, <2>1
    <3>2. prio[Visited(n, scan0, 0) + 1] < prio[Visited(n, scan0, o) + 1]
      BY <1>4, <3>1 DEF Wins
    <3> HIDE DEF o
    <3> QED BY <1>1, <1>2, <1>4, <3>2
  <2> HIDE DEF o
  <2> QED BY <1>4, <2>1
<1>6. Found(prio, scan0) = Visited(n, scan0, 0)
  BY <1>5 DEF Found
<1>7. ScanStart(n, scan0) \in 1 .. n
  BY <1>1 DEF ScanStart
<1> QED BY <1>6, <1>7 DEF Visited

LEMMA RoundInvInit == Init => RoundInv
BY DEF Init, RoundInv, NobodyOvertaken


LEMMA RoundInvPush ==
  ASSUME TypeOK, TypeOK', OffsetInRange, RoundInv, NEW r \in Streams, Push(r)
  PROVE  RoundInv'
<1> DEFINE n == Len(pending)
<1>1. /\ pending' = Append(pending, r) /\ scan' = scan
      /\ overtaken' = [overtaken EXCEPT ![r] = [s \in Streams |-> 0]]
      /\ ~IsWaiting(r)
  BY DEF Push
<1>2. /\ pending \in Seq(Streams) /\ n \in Nat /\ scan \in 0 .. n
      /\ DOMAIN pending = 1 .. n /\ DOMAIN pending' = 1 .. n + 1
      /\ pending'[n + 1] = r
      /\ \A i \in 1 .. n : pending'[i] = pending[i] /\ pending[i] \in Streams /\ pending[i] # r
      /\ overtaken \in [Streams -> [Streams -> Nat]]
  <2>1. /\ pending \in Seq(Streams) /\ scan \in Nat /\ scan =< n
        /\ overtaken \in [Streams -> [Streams -> Nat]]
    BY DEF TypeOK, OffsetInRange
  <2>2. n \in Nat /\ DOMAIN pending = 1 .. n /\ \A i \in 1 .. n : pending[i] \in Streams
    BY <2>1
  <2>3. /\ DOMAIN pending' = 1 .. n + 1 /\ pending'[n + 1] = r
        /\ \A i \in 1 .. n : pending'[i] = pending[i]
    BY <1>1, <2>1
  <2>4. \A i \in 1 .. n : pending[i] # r
    BY <1>1, <2>2 DEF IsWaiting, ToSet
  <2>5. scan \in 0 .. n
    BY <2>1, <2>2
  <2> QED BY <2>1, <2>2, <2>3, <2>4, <2>5
<1>3. /\ \A s \in Streams : overtaken'[r][s] = 0
      /\ \A q \in Streams : q # r => overtaken'[q] = overtaken[q]
  BY <1>1, <1>2
<1> HIDE DEF n
<1>4. \A q, s \in Streams : ~IsWaiting(q)' => overtaken'[q][s] = 0
  <2>1. \A q \in Streams : ~IsWaiting(q)' => ~IsWaiting(q)
    <3>1. \A i \in 1 .. n : i \in DOMAIN pending' /\ pending'[i] = pending[i]
      BY <1>2
    <3> QED BY <1>2, <3>1 DEF IsWaiting, ToSet
  <2> QED BY <1>3, <2>1 DEF RoundInv
<1>5. ASSUME NEW i \in DOMAIN pending', NEW s \in Streams
      PROVE  /\ overtaken'[pending'[i]][s] =< 2
             /\ i > scan' => overtaken'[pending'[i]][s] =< 1
  <2>1. CASE i = n + 1
    BY <1>2, <1>3, <2>1
  <2>2. CASE i \in 1 .. n
    <3>1. /\ overtaken[pending[i]][s] =< 2
          /\ i > scan => overtaken[pending[i]][s] =< 1
      BY <1>2, <2>2 DEF RoundInv
    <3>2. pending'[i] = pending[i] /\ overtaken'[pending[i]] = overtaken[pending[i]]
      BY <1>2, <1>3, <2>2
    <3> QED BY <1>1, <3>1, <3>2
  <2> QED BY <1>2, <2>1, <2>2
<1>6. ASSUME NEW i \in DOMAIN pending', NEW j \in DOMAIN pending'
      PROVE  /\ i > scan' /\ j =< scan' => overtaken'[pending'[i]][pending'[j]] = 0
             /\ i < j /\ j =< scan' => overtaken'[pending'[i]][pending'[j]] =< 1
  <2>1. CASE j = n + 1
    BY <1>1, <1>2, <2>1
  <2>2. CASE j \in 1 .. n /\ i = n + 1
    <3>1. pending'[i] = r /\ pending'[j] \in Streams
      BY <1>2, <2>2
    <3> QED BY <1>3, <3>1
  <2>3. CASE j \in 1 .. n /\ i \in 1 .. n
    <3>1. /\ i > scan /\ j =< scan => overtaken[pending[i]][pending[j]] = 0
          /\ i < j /\ j =< scan => overtaken[pending[i]][pending[j]] =< 1
      BY <1>2, <2>3 DEF RoundInv
    <3>2. /\ pending'[i] = pending[i] /\ pending'[j] = pending[j]
          /\ overtaken'[pending[i]] = overtaken[pending[i]]
      BY <1>2, <1>3, <2>3
    <3> QED BY <1>1, <3>1, <3>2
  <2> QED BY <1>2, <2>1, <2>2, <2>3
<1> QED BY <1>4, <1>5, <1>6 DEF RoundInv

LEMMA RoundInvSelect ==
  ASSUME TypeOK, OffsetInRange, RoundInv, Select
  PROVE  RoundInv'
<1> DEFINE n == Len(pending)
           found == Found(PriorityAt, scan)
           k == ScanStart(n, scan)
<1>1. /\ pending # <<>> /\ scan' = found /\ pending' = RemoveAt(pending, found + 1)
      /\ overtaken' = [r \in Streams |->
           IF IsWaiting(r) /\ r # pending[found + 1] /\ AllEqual
           THEN [overtaken[r] EXCEPT ![pending[found + 1]] = @ + 1]
           ELSE [s \in Streams |-> 0]]
  BY DEF Select, NextOffset
<1>2. /\ pending \in Seq(Streams) /\ n \in Nat \ {0} /\ scan \in 0 .. n
      /\ DOMAIN pending = 1 .. n /\ \A i \in 1 .. n : pending[i] \in Streams
      /\ \A i, j \in 1 .. n : pending[i] = pending[j] => i = j
      /\ overtaken \in [Streams -> [Streams -> Nat]]
  <2>1. /\ pending \in Seq(Streams) /\ IsInjective(pending) /\ scan \in Nat
        /\ overtaken \in [Streams -> [Streams -> Nat]] /\ scan =< n
    BY DEF TypeOK, OffsetInRange
  <2>2. /\ n \in Nat \ {0} /\ DOMAIN pending = 1 .. n
        /\ \A i \in 1 .. n : pending[i] \in Streams
    BY <1>1, <2>1
  <2>3. \A i, j \in 1 .. n : pending[i] = pending[j] => i = j
    BY <2>1, <2>2 DEF IsInjective
  <2> QED BY <2>1, <2>2, <2>3
<1>3. found \in 0 .. n - 1
  <2>1. PriorityAt # <<>>
    BY <1>1, PriorityAtType DEF TypeOK
  <2> QED BY <1>2, <2>1, PriorityAtType, FoundIsGreatest
<1>4. /\ pending' \in Seq(Streams) /\ Len(pending') = n - 1
      /\ \A i \in 1 .. n - 1 : pending'[i] = IF i < found + 1 THEN pending[i] ELSE pending[i + 1]
  <2>1. found + 1 \in 1 .. Len(pending)
    BY <1>2, <1>3
  <2> HIDE DEF found
  <2> QED BY <1>1, <1>2, <2>1, RemoveAtProperties
<1>5. CASE ~AllEqual
  <2>1. \A r, s \in Streams : overtaken'[r][s] = 0
    BY <1>1, <1>5
  <2>2. \A i \in DOMAIN pending' : pending'[i] \in Streams
    BY <1>4
  <2> QED BY <2>1, <2>2 DEF RoundInv
<1>6. CASE AllEqual
  <2>1. found + 1 = k
    <3>1. \A i, j \in 1 .. Len(PriorityAt) : PriorityAt[i] = PriorityAt[j]
      <4>1. \A i \in 1 .. n : PriorityAt[i] = priority[pending[i]]
        BY PriorityAtType
      <4>2. Len(PriorityAt) = n
        BY PriorityAtType
      <4>3. \A i \in 1 .. n : pending[i] \in Streams
        BY <1>2
      <4>4. \A r, s \in Streams : priority[r] = priority[s]
        BY <1>6 DEF AllEqual
      <4> HIDE DEF n, found, k
      <4> QED BY <4>1, <4>2, <4>3, <4>4
    <3>2. PriorityAt # <<>> /\ PriorityAt \in Seq(Int) /\ Len(PriorityAt) = n
      BY <1>1, PriorityAtType DEF TypeOK
    <3>3. Found(PriorityAt, scan) = ScanStart(n, scan) - 1
      BY <1>2, <3>1, <3>2, FoundAmongEquals
    <3> QED BY <1>2, <3>3 DEF ScanStart
  <2>2. k \in 1 .. n /\ k = IF scan = 0 THEN n ELSE scan
    BY <1>2 DEF ScanStart
  <2> HIDE DEF found, k, n
  <2>3. scan' = k - 1 /\ DOMAIN pending' = 1 .. n - 1
    <3>1. scan' = k - 1
      BY <1>1, <1>2, <1>3, <2>1, <2>2
    <3>2. DOMAIN pending' = 1 .. Len(pending')
      BY <1>4
    <3> QED BY <1>4, <3>1, <3>2
  <2> DEFINE old(i) == IF i < k THEN i ELSE i + 1
             c == pending[k]
  <2>0. n \in Nat /\ k \in Nat /\ 1 =< k /\ k =< n
    BY <1>2, <2>2
  <2>4. ASSUME NEW i \in 1 .. n - 1
        PROVE  old(i) \in 1 .. n /\ old(i) # k /\ pending'[i] = pending[old(i)]
    <3>1. pending'[i] = IF i < k THEN pending[i] ELSE pending[i + 1]
      BY <1>4, <2>1
    <3>2. old(i) \in 1 .. n /\ old(i) # k
      BY <2>0
    <3>3. pending'[i] = pending[old(i)]
      BY <3>1
    <3> QED BY <3>2, <3>3
  <2>5. c \in Streams
    BY <1>2, <2>2
  <2>6. ASSUME NEW i \in 1 .. n, i # k, NEW s \in Streams
        PROVE  overtaken'[pending[i]][s] =
                 IF s = c THEN overtaken[pending[i]][c] + 1 ELSE overtaken[pending[i]][s]
    <3>1. pending[i] \in Streams /\ pending[i] # c /\ IsWaiting(pending[i])
      BY <1>2, <2>2, <2>6 DEF IsWaiting, ToSet
    <3>2. overtaken'[pending[i]] = [overtaken[pending[i]] EXCEPT ![c] = @ + 1]
      BY <1>1, <1>6, <2>1, <3>1
    <3>3. overtaken[pending[i]] \in [Streams -> Nat]
      BY <1>2, <3>1
    <3> HIDE DEF c
    <3> QED BY <2>5, <3>2, <3>3
  <2>7. \A r, s \in Streams : ~IsWaiting(r)' => overtaken'[r][s] = 0
    <3> SUFFICES ASSUME NEW r \in Streams, NEW s \in Streams, IsWaiting(r), r # c
                 PROVE  IsWaiting(r)'
      BY <1>1, <2>1
    <3>1. PICK i \in 1 .. n : pending[i] = r
      BY <1>2 DEF IsWaiting, ToSet
    <3>2. i # k
      BY <3>1
    <3>3. \E m \in 1 .. n - 1 : pending'[m] = r
      <4>1. CASE i < k
        <5>1. i \in 1 .. n - 1 /\ old(i) = i
          BY <1>2, <2>2, <4>1
        <5> QED BY <2>4, <3>1, <5>1
      <4>2. CASE i > k
        <5>1. i - 1 \in 1 .. n - 1 /\ old(i - 1) = i
          BY <1>2, <2>2, <4>2
        <5> QED BY <2>4, <3>1, <5>1
      <4> QED BY <2>2, <3>2, <4>1, <4>2
    <3> QED BY <2>3, <3>3 DEF IsWaiting, ToSet
  <2>8. \A i \in 1 .. n, s \in Streams :
          overtaken[pending[i]][s] \in Nat
    BY <1>2
  <2>9. ASSUME NEW i \in 1 .. n, i # k, NEW s \in Streams
        PROVE  /\ overtaken'[pending[i]][s] =< 2
               /\ i > k => overtaken'[pending[i]][s] =< 1
    <3>1. /\ overtaken[pending[i]][s] =< 2
          /\ i > scan => overtaken[pending[i]][s] =< 1
      BY <1>2 DEF RoundInv
    <3>2. CASE s # c
      BY <2>2, <2>6, <2>9, <3>1, <3>2
    <3>3. CASE s = c
      <4>1. overtaken'[pending[i]][s] = overtaken[pending[i]][c] + 1
        BY <2>6, <2>9, <3>3
      <4>2. CASE scan = 0
        BY <1>2, <2>2, <2>8, <3>1, <3>3, <4>1, <4>2
      <4>3. CASE scan # 0 /\ i > k
        <5>1. i > scan /\ k =< scan
          BY <2>2, <4>3
        <5>2. overtaken[pending[i]][c] = 0
          BY <1>2, <2>2, <5>1 DEF RoundInv
        <5> QED BY <4>1, <5>2
      <4>4. CASE scan # 0 /\ i < k
        <5>1. i < k /\ k =< scan
          BY <2>2, <4>4
        <5>2. overtaken[pending[i]][c] =< 1
          BY <1>2, <2>2, <5>1 DEF RoundInv
        <5> QED BY <2>2, <2>8, <3>3, <4>1, <4>4, <5>2
      <4> QED BY <2>2, <2>9, <4>2, <4>3, <4>4
    <3> QED BY <3>2, <3>3
  <2>10. ASSUME NEW i \in 1 .. n, i # k, NEW j \in 1 .. n, j < k
         PROVE  /\ i > k => overtaken'[pending[i]][pending[j]] = 0
                /\ i < j => overtaken'[pending[i]][pending[j]] =< 1
    <3>1. pending[j] \in Streams /\ pending[j] # c
      <4>1. j \in 1 .. n /\ k \in 1 .. n /\ j # k
        BY <2>0, <2>10
      <4>2. pending[j] # pending[k]
        BY <1>2, <4>1
      <4>3. pending[j] \in Streams
        BY <1>2, <4>1
      <4> QED BY <4>2, <4>3
    <3>2. overtaken'[pending[i]][pending[j]] = overtaken[pending[i]][pending[j]]
      BY <2>6, <2>10, <3>1
    <3>3. CASE scan = 0
      <4>1. i > scan /\ ~(i > k)
        BY <1>2, <2>2, <3>3
      <4>2. overtaken[pending[i]][pending[j]] =< 1
        BY <1>2, <3>1, <4>1 DEF RoundInv
      <4> QED BY <3>2, <4>1, <4>2
    <3>4. CASE scan # 0
      <4>1. k = scan /\ j =< scan
        BY <2>2, <2>10, <3>4
      <4>2. /\ i > scan => overtaken[pending[i]][pending[j]] = 0
            /\ i < j => overtaken[pending[i]][pending[j]] =< 1
        BY <1>2, <4>1 DEF RoundInv
      <4> QED BY <3>2, <4>1, <4>2
    <3> QED BY <3>3, <3>4
  <2>11. ASSUME NEW i \in DOMAIN pending', NEW s \in Streams
         PROVE  /\ overtaken'[pending'[i]][s] =< 2
                /\ i > scan' => overtaken'[pending'[i]][s] =< 1
    <3>1. old(i) \in 1 .. n /\ old(i) # k /\ pending'[i] = pending[old(i)]
      BY <2>3, <2>4
    <3>2. i > scan' => old(i) > k
      <4>1. i \in 1 .. n - 1
        BY <2>3
      <4>2. i >= k => old(i) > k
        BY <2>0, <4>1
      <4>3. scan' = k - 1
        BY <2>3
      <4> HIDE DEF old
      <4> QED BY <2>0, <4>1, <4>2, <4>3
    <3> HIDE DEF old
    <3> QED BY <2>9, <3>1, <3>2
  <2>12. ASSUME NEW i \in DOMAIN pending', NEW j \in DOMAIN pending', j =< scan'
         PROVE  /\ i > scan' => overtaken'[pending'[i]][pending'[j]] = 0
                /\ i < j => overtaken'[pending'[i]][pending'[j]] =< 1
    <3>1. old(i) \in 1 .. n /\ old(i) # k /\ pending'[i] = pending[old(i)]
      BY <2>3, <2>4
    <3>2. old(j) \in 1 .. n /\ pending'[j] = pending[old(j)]
      BY <2>3, <2>4
    <3>3. /\ i > scan' => old(i) > k
          /\ old(j) < k
          /\ i < j => old(i) < old(j)
      <4>1. i \in 1 .. n - 1 /\ j \in 1 .. n - 1
        BY <2>3
      <4>2. /\ i >= k => old(i) > k
            /\ j < k => old(j) < k
            /\ i < j => old(i) < old(j)
        BY <2>0, <4>1
      <4>3. scan' = k - 1 /\ j =< scan'
        BY <2>3, <2>12
      <4> HIDE DEF old
      <4> QED BY <2>0, <4>1, <4>2, <4>3
    <3> HIDE DEF old
    <3> QED BY <2>10, <3>1, <3>2, <3>3
  <2> QED BY <2>7, <2>11, <2>12 DEF RoundInv
<1> QED BY <1>5, <1>6

\* PendingQueue!BoundedOvertaking: among volumes of one priority no waiting read
\* is overtaken more than twice by any stream of reads, although tasks are pushed
\* at the end of _pending and the scan goes on in its middle.
THEOREM OvertakenTwiceAtMost == Spec => []BoundedOvertaking
<1>1. TypeOK /\ OffsetInRange /\ RoundInv /\ [Next]_vars /\ TypeOK' => RoundInv'
  <2> SUFFICES ASSUME TypeOK, OffsetInRange, RoundInv, [Next]_vars, TypeOK' PROVE RoundInv'
    OBVIOUS
  <2>1. ASSUME NEW r \in Streams, Push(r) PROVE RoundInv'
    BY <2>1, RoundInvPush
  <2>2. CASE Select
    BY <2>2, RoundInvSelect
  <2>3. ASSUME NEW r \in Streams, NEW p \in Priorities, SetPriority(r, p) PROVE RoundInv'
    <3>1. pending' \in Seq(Streams) /\ overtaken' = [q \in Streams |-> [s \in Streams |-> 0]]
      BY <2>3 DEF SetPriority, NobodyOvertaken, TypeOK
    <3>2. \A i \in DOMAIN pending' : pending'[i] \in Streams
      BY <3>1
    <3>3. \A q, s \in Streams : overtaken'[q][s] = 0
      BY <3>1
    <3> QED BY <3>2, <3>3 DEF RoundInv
  <2>4. CASE UNCHANGED vars
    BY <2>4 DEF vars, RoundInv, IsWaiting
  <2> QED BY <2>1, <2>2, <2>3, <2>4 DEF Next
<1>2. TypeOK /\ RoundInv => BoundedOvertaking
  <2> SUFFICES ASSUME TypeOK, RoundInv, NEW r \in Streams, NEW s \in Streams
               PROVE  overtaken[r][s] =< 2
    BY DEF BoundedOvertaking
  <2>1. CASE IsWaiting(r)
    <3>1. PICK i \in DOMAIN pending : pending[i] = r
      BY <2>1 DEF IsWaiting, ToSet
    <3> QED BY <3>1 DEF RoundInv
  <2>2. CASE ~IsWaiting(r)
    BY <2>2 DEF RoundInv
  <2> QED BY <2>1, <2>2
<1> QED BY <1>1, <1>2, RoundInvInit, TypeCorrect, OffsetStaysInRange, PTL DEF Spec

-----------------------------------------------------------------------------
(***************************************************************************)
(* The record.  Sectors hold versions that have been written, each with    *)
(* the number of its version; within a read no number comes twice, so that *)
(* equal numbers mean equal versions.                                      *)
(***************************************************************************)
Versions == {Stored(v) : v \in 1 .. Len(written)}

\* A sector that has been read, before and after unfixup().
RecordInv ==
    /\ recordSize \in RecordSizes
    /\ written \in Seq(Contents) /\ Len(written) \in 1 .. MaxWrites
    /\ disk \in [Sectors -> Versions]
    /\ magic \in {"none", "FILE", "BAAD"}
    /\ magic = "none" => chunk \in [Sectors -> Versions \cup {NotRead}]
    /\ magic # "none" =>
          /\ Header \in 1 .. Len(written)
          /\ magic = "FILE" <=> \A i \in Sectors : chunk[i].version = Header
          /\ \A i \in Sectors : chunk[i].last = written[Header][i]

\* The number of a version tells it from all others.
LEMMA CountOfVersion ==
  ASSUME NEW v \in 1 .. MaxWrites
  PROVE  Count(v) = v
<1> DEFINE x == 2 ^ CountBits
<1>1. x \in Int /\ MaxWrites \in Nat /\ MaxWrites < x
  BY VersionsAssumption
<1> HIDE DEF x
<1>2. v % x = v
  BY <1>1
<1> QED BY <1>2 DEF Count, x

LEMMA FirstSector ==
  ASSUME RecordInv
  PROVE  1 \in Sectors
<1>1. recordSize \in Nat /\ recordSize >= 512
  <2>1. written[1] \in Contents /\ recordSize \in RecordSizes
    BY DEF RecordInv
  <2> QED BY <2>1, ContentsAssumption DEF Stride
<1>2. recordSize \div 512 \in Nat /\ recordSize \div 512 >= 1
  BY <1>1
<1> QED BY <1>2 DEF Sectors, Stride

\* One more version does not disturb those that are there.
LEMMA VersionsStay ==
  ASSUME written \in Seq(Contents), NEW c \in Contents, written' = Append(written, c)
  PROVE  /\ Len(written') = Len(written) + 1 /\ written' \in Seq(Contents)
         /\ \A v \in 1 .. Len(written) : written'[v] = written[v]
         /\ Versions \subseteq Versions'
<1>1. /\ Len(written') = Len(written) + 1 /\ written' \in Seq(Contents)
      /\ \A v \in 1 .. Len(written) : written'[v] = written[v]
  OBVIOUS
<1>2. 1 .. Len(written) \subseteq 1 .. Len(written')
  BY <1>1
<1> QED BY <1>1, <1>2 DEF Versions, Stored, Count

\* What unfixup() decides from the numbers it would decide from the versions.
LEMMA AgreesMeansSame ==
  ASSUME RecordInv, magic = "none", \A i \in Sectors : chunk[i] # NotRead
  PROVE  /\ Header \in 1 .. Len(written)
         /\ Agrees <=> \A i \in Sectors : chunk[i].version = Header
<1>1. ASSUME NEW i \in Sectors
      PROVE  /\ chunk[i].version \in 1 .. Len(written)
             /\ chunk[i].last = Count(chunk[i].version)
  <2>1. chunk[i] \in Versions
    BY DEF RecordInv
  <2> QED BY <2>1 DEF Versions, Stored
<1>2. 1 \in Sectors
  BY FirstSector
<1>3. Header \in 1 .. Len(written)
  BY <1>1, <1>2 DEF Header
<1>4. \A v \in 1 .. Len(written) : v \in 1 .. MaxWrites /\ Count(v) = v
  <2>1. ASSUME NEW v \in 1 .. Len(written) PROVE v \in 1 .. MaxWrites
    BY VersionsAssumption DEF RecordInv
  <2> QED BY <2>1, CountOfVersion
<1>5. ASSUME NEW i \in Sectors
      PROVE  chunk[i].last = Count(Header) <=> chunk[i].version = Header
  BY <1>1, <1>3, <1>4
<1> QED BY <1>3, <1>5 DEF Agrees

LEMMA RecordInvInit == RecordInit => RecordInv
<1> SUFFICES ASSUME RecordInit PROVE RecordInv
  OBVIOUS
<1>1. PICK c \in Contents : written = <<c>>
  BY DEF RecordInit
<1>2. written \in Seq(Contents) /\ Len(written) = 1 /\ 1 \in 1 .. MaxWrites
  BY <1>1, VersionsAssumption
<1>3. Stored(1) \in Versions
  BY <1>2 DEF Versions
<1> QED BY <1>2, <1>3 DEF RecordInit, RecordInv

LEMMA RecordInvNext == RecordInv /\ [RecordNext]_recordVars => RecordInv'
<1> SUFFICES ASSUME RecordInv, [RecordNext]_recordVars PROVE RecordInv'
  OBVIOUS
<1>0. /\ written \in Seq(Contents) /\ Len(written) \in 1 .. MaxWrites /\ MaxWrites \in Nat
      /\ disk \in [Sectors -> Versions]
      /\ Len(written) \in Nat
  BY VersionsAssumption DEF RecordInv
<1>1. ASSUME NEW c \in Contents, BeginWrite(c) PROVE RecordInv'
  <2>1. /\ Len(written) < MaxWrites /\ written' = Append(written, c)
        /\ recordSize' = recordSize /\ disk' = disk /\ chunk' = chunk /\ magic' = magic
    BY <1>1 DEF BeginWrite
  <2>2. /\ Len(written') = Len(written) + 1 /\ written' \in Seq(Contents)
        /\ \A v \in 1 .. Len(written) : written'[v] = written[v]
        /\ Versions \subseteq Versions'
    BY <1>0, <2>1, VersionsStay
  <2>3. Len(written') \in 1 .. MaxWrites
    BY <1>0, <2>1, <2>2
  <2>4. Sectors' = Sectors /\ Header' = Header
    BY <2>1 DEF Sectors, Header
  <2>5. disk' \in [Sectors' -> Versions']
    BY <1>0, <2>1, <2>2, <2>4
  <2>6. magic' = "none" => chunk' \in [Sectors' -> Versions' \cup {NotRead}]
    BY <2>1, <2>2, <2>4 DEF RecordInv
  <2>7. ASSUME magic' # "none"
        PROVE  /\ Header' \in 1 .. Len(written')
               /\ magic' = "FILE" <=> \A i \in Sectors' : chunk'[i].version = Header'
               /\ \A i \in Sectors' : chunk'[i].last = written'[Header'][i]
    <3>1. /\ Header \in 1 .. Len(written)
          /\ magic = "FILE" <=> \A i \in Sectors : chunk[i].version = Header
          /\ \A i \in Sectors : chunk[i].last = written[Header][i]
      BY <2>1, <2>7 DEF RecordInv
    <3>2. Header' \in 1 .. Len(written') /\ written'[Header'] = written[Header]
      BY <1>0, <2>2, <2>4, <3>1
    <3> QED BY <2>1, <2>4, <3>1, <3>2
  <2> QED BY <2>1, <2>2, <2>3, <2>5, <2>6, <2>7 DEF RecordInv
<1>2. ASSUME NEW i \in Sectors, WriteSector(i) PROVE RecordInv'
  <2>1. /\ disk' = [disk EXCEPT ![i] = Stored(Len(written))]
        /\ UNCHANGED <<recordSize, written, chunk, magic>>
    BY <1>2 DEF WriteSector
  <2>2. Stored(Len(written)) \in Versions
    BY <1>0 DEF Versions
  <2>3. disk' \in [Sectors -> Versions]
    BY <1>0, <2>1, <2>2
  <2>4. Sectors' = Sectors /\ Versions' = Versions /\ Header' = Header
    BY <2>1 DEF Sectors, Versions, Header
  <2> QED BY <2>1, <2>3, <2>4 DEF RecordInv
<1>3. ASSUME NEW i \in Sectors, ReadSector(i) PROVE RecordInv'
  <2>1. /\ magic = "none" /\ chunk' = [chunk EXCEPT ![i] = disk[i]]
        /\ UNCHANGED <<recordSize, written, disk, magic>>
    BY <1>3 DEF ReadSector
  <2>2. chunk \in [Sectors -> Versions \cup {NotRead}] /\ disk[i] \in Versions
    BY <1>0, <2>1 DEF RecordInv
  <2>3. chunk' \in [Sectors -> Versions \cup {NotRead}]
    BY <2>1, <2>2
  <2>4. Sectors' = Sectors /\ Versions' = Versions
    BY <2>1 DEF Sectors, Versions
  <2> QED BY <2>1, <2>3, <2>4 DEF RecordInv
<1>4. CASE Unfixup
  <2>1. /\ magic = "none" /\ \A i \in Sectors : chunk[i] # NotRead
        /\ chunk' = [i \in Sectors |-> [chunk[i] EXCEPT !.last = written[Header][i]]]
        /\ magic' = IF Agrees THEN "FILE" ELSE "BAAD"
        /\ UNCHANGED <<recordSize, written, disk>>
    BY <1>4 DEF Unfixup
  <2>2. /\ Header \in 1 .. Len(written)
        /\ Agrees <=> \A i \in Sectors : chunk[i].version = Header
    BY <2>1, AgreesMeansSame
  <2>3. ASSUME NEW i \in Sectors
        PROVE  chunk'[i].version = chunk[i].version /\ chunk'[i].last = written[Header][i]
    <3>1. chunk[i] \in Versions
      BY <2>1 DEF RecordInv
    <3>2. chunk[i] \in [version : Nat, last : {chunk[i].last}]
      <4>1. PICK v \in 1 .. Len(written) : chunk[i] = Stored(v)
        BY <3>1 DEF Versions
      <4> QED BY <4>1 DEF Stored
    <3> QED BY <2>1, <3>2
  <2>4. Sectors' = Sectors /\ Versions' = Versions
    BY <2>1 DEF Sectors, Versions
  <2>5. Header' = Header
    <3>1. 1 \in Sectors
      BY FirstSector
    <3> QED BY <2>3, <3>1 DEF Header
  <2>6. /\ magic' # "none" /\ magic' \in {"FILE", "BAAD"}
        /\ magic' = "FILE" <=> \A i \in Sectors : chunk'[i].version = Header'
    BY <2>1, <2>2, <2>3, <2>5
  <2> QED BY <1>0, <2>1, <2>2, <2>3, <2>4, <2>5, <2>6 DEF RecordInv
<1>5. CASE UNCHANGED recordVars
  <2>1. UNCHANGED <<recordSize, written, disk, chunk, magic>>
    BY <1>5 DEF recordVars
  <2>2. Sectors' = Sectors /\ Versions' = Versions /\ Header' = Header
    BY <2>1 DEF Sectors, Versions, Header
  <2> QED BY <2>1, <2>2 DEF RecordInv
<1> QED BY <1>1, <1>2, <1>3, <1>4, <1>5 DEF RecordNext

THEOREM RecordInvariant == RecordSpec => []RecordInv
BY RecordInvInit, RecordInvNext, PTL DEF RecordSpec

\* RecordFixup!RecordWholeOrBad: what load() goes on to parse is one version of
\* the record with its words put back, and a record that was read whole is not
\* given up, however the sectors of reads and writes interleave.
THEOREM RecordsAreWholeOrBad == RecordSpec => []RecordWholeOrBad
<1>1. RecordInv => RecordWholeOrBad
  BY DEF RecordInv, RecordWholeOrBad
<1> QED BY <1>1, RecordInvariant, PTL
-----------------------------------------------------------------------------
(***************************************************************************)
(* The memory.  Every block is in the vector or in one read; a new block   *)
(* is only asked for when none in the vector is large enough, so that all  *)
(* blocks of that size are in reads.                                       *)
(***************************************************************************)
Block == [number : Nat, asked : Sizes, size : Nat]

OfSize(n) == {b \in Blocks : b.asked = n}

HandsInv ==
    /\ recycled \in Seq(Block) /\ IsInjective(recycled)
    /\ reads \subseteq [block : Block, needs : Sizes] /\ IsFiniteSet(reads)
    /\ \A r \in reads : r.needs =< r.block.size /\ r.block \notin Range(recycled)
    /\ \A r, s \in reads : r.block = s.block => r = s

NumbersInv ==
    /\ \A b \in Blocks : b.number \in 1 .. Cardinality(Blocks) /\ b.asked =< b.size
    /\ \A a, b \in Blocks : a.number = b.number => a = b

BoundInv ==
    /\ most \in Nat /\ Cardinality(reads) =< most
    /\ \A n \in Sizes : Cardinality(OfSize(n)) =< most

PoolInv == HandsInv /\ NumbersInv /\ BoundInv

BlocksInUse == {r.block : r \in reads}

\* Reads of different blocks use as many blocks as they are.
LEMMA OneBlockEach ==
  ASSUME NEW R, IsFiniteSet(R), \A r, s \in R : r.block = s.block => r = s
  PROVE  /\ IsFiniteSet({r.block : r \in R})
         /\ Cardinality({r.block : r \in R}) = Cardinality(R)
<1> DEFINE T == {r.block : r \in R}
           f == [r \in R |-> r.block]
<1>1. f \in Surjection(R, T) /\ f \in Injection(R, T)
  BY DEF Surjection, Injection, IsInjective
<1> HIDE DEF f, T
<1>2. IsFiniteSet(T) /\ Cardinality(T) = Cardinality(R)
  BY <1>1, FS_Surjection
<1> QED BY <1>2 DEF T

LEMMA BlocksFinite ==
  ASSUME HandsInv
  PROVE  IsFiniteSet(Blocks) /\ Blocks \subseteq Block /\ Cardinality(Blocks) \in Nat
<1>1. IsFiniteSet(Range(recycled)) /\ Range(recycled) \subseteq Block
  <2>1. recycled \in Seq(Block) /\ IsFiniteSet(1 .. Len(recycled))
    BY FS_Interval DEF HandsInv
  <2>2. recycled \in Surjection(1 .. Len(recycled), Range(recycled))
    BY <2>1 DEF Surjection, Range
  <2>3. Range(recycled) \subseteq Block
    BY <2>1 DEF Range
  <2> QED BY <2>1, <2>2, <2>3, FS_Surjection
<1>2. IsFiniteSet(BlocksInUse) /\ BlocksInUse \subseteq Block
  BY OneBlockEach DEF HandsInv, BlocksInUse
<1>3. Blocks = Range(recycled) \cup BlocksInUse
  BY DEF Blocks, BlocksInUse
<1>4. IsFiniteSet(Blocks)
  BY <1>1, <1>2, <1>3, FS_Union
<1> QED BY <1>1, <1>2, <1>3, <1>4, FS_CardinalityType

\* The search of operator new ends with a block if one is large enough.
LEMMA BestOfThoseThatFit ==
  ASSUME HandsInv, NEW n \in Sizes
  PROVE  /\ BestFits(n) # {} => /\ Max(BestFits(n)) \in 1 .. Len(recycled)
                                /\ Fits(recycled[Max(BestFits(n))], n)
         /\ BestFits(n) = {} => \A i \in 1 .. Len(recycled) : ~Fits(recycled[i], n)
<1>1. /\ DOMAIN recycled = 1 .. Len(recycled) /\ Len(recycled) \in Nat
      /\ \A i \in 1 .. Len(recycled) : recycled[i].size \in Nat
  <2>1. recycled \in Seq(Block)
    BY DEF HandsInv
  <2>2. \A i \in 1 .. Len(recycled) : recycled[i] \in Block
    BY <2>1
  <2> QED BY <2>1, <2>2 DEF Block
<1>2. ASSUME BestFits(n) # {}
      PROVE  Max(BestFits(n)) \in 1 .. Len(recycled) /\ Fits(recycled[Max(BestFits(n))], n)
  <2>1. BestFits(n) \in SUBSET (0 .. Len(recycled))
    BY <1>1 DEF BestFits
  <2>2. Max(BestFits(n)) \in BestFits(n)
    <3> DEFINE T == BestFits(n)
    <3> HIDE DEF T
    <3>1. T # {} => Max(T) \in T
      BY <1>1, <2>1, GreatestExists DEF T
    <3> QED BY <1>2, <3>1 DEF T
  <2> QED BY <1>1, <2>2 DEF BestFits
<1>3. ASSUME NEW i \in 1 .. Len(recycled), Fits(recycled[i], n) PROVE BestFits(n) # {}
  <2> DEFINE T == {k \in 0 .. recycled[i].size :
                     \E j \in 1 .. Len(recycled) : Fits(recycled[j], n) /\ recycled[j].size = k}
  <2>1. recycled[i].size \in Nat /\ recycled[i].size \in T /\ T \in SUBSET (0 .. recycled[i].size)
    BY <1>1, <1>3
  <2>2. Min(T) \in T /\ \A q \in T : Min(T) =< q
    <3> HIDE DEF T
    <3> QED BY <2>1, SmallestExists
  <2>3. PICK j \in 1 .. Len(recycled) : Fits(recycled[j], n) /\ recycled[j].size = Min(T)
    BY <2>2
  <2>4. ASSUME NEW k \in 1 .. Len(recycled), Fits(recycled[k], n)
        PROVE  recycled[j].size =< recycled[k].size
    <3>1. CASE recycled[k].size =< recycled[i].size
      <4>1. recycled[k].size \in T
        BY <1>1, <2>4, <3>1
      <4> QED BY <2>2, <2>3, <4>1
    <3>2. CASE ~(recycled[k].size =< recycled[i].size)
      <4>1. recycled[j].size =< recycled[i].size
        BY <2>1, <2>2, <2>3
      <4> QED BY <1>1, <3>2, <4>1
    <3> QED BY <3>1, <3>2
  <2>5. j \in BestFits(n)
    BY <1>1, <2>3, <2>4 DEF BestFits
  <2> QED BY <2>5
<1> QED BY <1>2, <1>3

\* The greater of two numbers.
LEMMA MaxOfTwo ==
  ASSUME NEW a \in Nat, NEW b \in Nat
  PROVE  Max({a, b}) \in Nat /\ a =< Max({a, b}) /\ b =< Max({a, b})
<1>1. \E x \in {a, b} : \A y \in {a, b} : x >= y
  OBVIOUS
<1>2. Max({a, b}) \in {a, b} /\ \A y \in {a, b} : Max({a, b}) >= y
  BY <1>1 DEF Max
<1> QED BY <1>2

\* A read begins with a block that is in no other hands.
LEMMA ReadBegins ==
  ASSUME PoolInv, NEW n \in Sizes, NEW b \in Block, Existing(b, n), b.size >= n,
         b \notin BlocksInUse
  PROVE  /\ reads' \subseteq [block : Block, needs : Sizes] /\ IsFiniteSet(reads')
         /\ \A r \in reads' : r.needs =< r.block.size
         /\ \A r, s \in reads' : r.block = s.block => r = s
         /\ most' \in Nat /\ most =< most' /\ Cardinality(reads') =< most'
         /\ BlocksInUse' = BlocksInUse \cup {b}
<1> DEFINE new == [block |-> b, needs |-> n]
<1>1. reads' = reads \cup {new} /\ most' = Max({most, Cardinality(reads) + 1})
  BY DEF Existing
<1>2. /\ IsFiniteSet(reads) /\ reads \subseteq [block : Block, needs : Sizes] /\ most \in Nat
      /\ Cardinality(reads) \in Nat
  BY FS_CardinalityType DEF PoolInv, HandsInv, BoundInv
<1>3. new \in [block : Block, needs : Sizes] /\ new.block = b /\ new.needs = n
  OBVIOUS
<1>4. \A r \in reads : r.block # b
  BY DEF BlocksInUse
<1>5. n \in Nat /\ b.size \in Nat
  BY SizesAssumption DEF Block
<1>6. IsFiniteSet(reads') /\ Cardinality(reads') =< Cardinality(reads) + 1
  <2> HIDE DEF new
  <2>1. /\ IsFiniteSet(reads \cup {new})
        /\ Cardinality(reads \cup {new}) =
             IF new \in reads THEN Cardinality(reads) ELSE Cardinality(reads) + 1
    BY <1>2, FS_AddElement
  <2>2. Cardinality(reads \cup {new}) =< Cardinality(reads) + 1
    BY <1>2, <2>1
  <2> QED BY <1>1, <2>1, <2>2
<1>7. most' \in Nat /\ most =< most' /\ Cardinality(reads) + 1 =< most'
  BY <1>1, <1>2, MaxOfTwo
<1>8. Cardinality(reads') =< most'
  <2>1. Cardinality(reads') \in Nat
    BY <1>6, FS_CardinalityType
  <2> QED BY <1>2, <1>6, <1>7, <2>1
<1>9. BlocksInUse' = BlocksInUse \cup {b}
  BY <1>1, <1>3 DEF BlocksInUse
<1>10. \A r \in reads' : r.needs =< r.block.size
  BY <1>1, <1>3, <1>5 DEF PoolInv, HandsInv
<1>11. \A r, s \in reads' : r.block = s.block => r = s
  BY <1>1, <1>3, <1>4 DEF PoolInv, HandsInv
<1> QED BY <1>1, <1>2, <1>3, <1>6, <1>7, <1>8, <1>9, <1>10, <1>11

\* While the blocks are the same, only the hands they are in change.
LEMMA SameBlocks ==
  ASSUME PoolInv, Blocks' = Blocks, HandsInv',
         most' \in Nat, most =< most', Cardinality(reads') =< most'
  PROVE  PoolInv'
<1>1. NumbersInv'
  BY DEF PoolInv, NumbersInv
<1>2. ASSUME NEW n \in Sizes PROVE Cardinality(OfSize(n)') =< most'
  <2>1. OfSize(n)' = OfSize(n) /\ OfSize(n) \in SUBSET Blocks
    BY DEF OfSize
  <2>2. Cardinality(OfSize(n)) \in Nat
    BY <2>1, BlocksFinite, FS_Subset, FS_CardinalityType DEF PoolInv
  <2>3. Cardinality(OfSize(n)) =< most /\ most \in Nat
    BY DEF PoolInv, BoundInv
  <2> QED BY <2>1, <2>2, <2>3
<1>3. \A n \in Sizes : Cardinality(OfSize(n)') =< most'
  BY <1>2
<1>4. BoundInv'
  BY <1>3 DEF BoundInv
<1> QED BY <1>1, <1>4 DEF PoolInv

\* Of the blocks of a size none is in the vector when one is asked for.
LEMMA NewBlock ==
  ASSUME PoolInv, NEW n \in Sizes, BestFits(n) = {},
         recycled' = recycled, HandsInv',
         most' \in Nat, most =< most', Cardinality(reads') =< most',
         NEW b \in Block, b.asked = n, b.size >= n, b.number = Cardinality(Blocks) + 1,
         BlocksInUse' = BlocksInUse \cup {b}
  PROVE  PoolInv'
<1>1. Blocks' = Blocks \cup {b}
  BY DEF Blocks, BlocksInUse
<1>2. IsFiniteSet(Blocks) /\ Blocks \subseteq Block /\ Cardinality(Blocks) \in Nat
  BY BlocksFinite DEF PoolInv
<1>3. b \notin Blocks
  BY <1>2 DEF PoolInv, NumbersInv
<1>4. Cardinality(Blocks') = Cardinality(Blocks) + 1
  BY <1>1, <1>2, <1>3, FS_AddElement
<1>5. NumbersInv'
  <2>1. /\ \A a \in Blocks : a.number \in 1 .. Cardinality(Blocks) /\ a.asked =< a.size
        /\ \A a, c \in Blocks : a.number = c.number => a = c
    BY DEF PoolInv, NumbersInv
  <2>2. \A a \in Blocks' : a.number \in 1 .. Cardinality(Blocks') /\ a.asked =< a.size
    <3>1. n \in Nat /\ b.size \in Nat /\ n =< b.size
      BY SizesAssumption DEF Block
    <3> QED BY <1>1, <1>2, <1>4, <2>1, <3>1
  <2>3. \A a, c \in Blocks' : a.number = c.number => a = c
    BY <1>1, <1>2, <2>1
  <2> QED BY <2>2, <2>3 DEF NumbersInv
<1>6. ASSUME NEW m \in Sizes PROVE Cardinality(OfSize(m)') =< most'
  <2>1. CASE m = n
    <3>1. ASSUME NEW a \in Range(recycled) PROVE a.asked # n
      <4>1. a \in Blocks /\ a \in Block /\ a.asked =< a.size
        BY <1>2 DEF Blocks, PoolInv, NumbersInv
      <4>2. ~(a.size >= n)
        BY <3>1, BestOfThoseThatFit DEF PoolInv, HandsInv, Fits, Range
      <4> QED BY <4>1, <4>2, SizesAssumption DEF Block
    <3>2. OfSize(m)' \in SUBSET (BlocksInUse')
      BY <2>1, <3>1 DEF OfSize, Blocks, BlocksInUse
    <3>3. IsFiniteSet(BlocksInUse') /\ Cardinality(BlocksInUse') = Cardinality(reads')
      BY OneBlockEach DEF HandsInv, BlocksInUse
    <3>4. IsFiniteSet(OfSize(m)') /\ Cardinality(OfSize(m)') =< Cardinality(BlocksInUse')
      BY <3>2, <3>3, FS_Subset
    <3>5. Cardinality(OfSize(m)') \in Nat /\ Cardinality(reads') \in Nat
      BY <3>3, <3>4, FS_CardinalityType
    <3> QED BY <3>3, <3>4, <3>5
  <2>2. CASE m # n
    <3>1. OfSize(m)' = OfSize(m) /\ OfSize(m) \in SUBSET Blocks
      BY <1>1, <2>2 DEF OfSize
    <3>2. Cardinality(OfSize(m)) \in Nat
      BY <1>2, <3>1, FS_Subset, FS_CardinalityType
    <3>3. Cardinality(OfSize(m)) =< most /\ most \in Nat
      BY DEF PoolInv, BoundInv
    <3> QED BY <3>1, <3>2, <3>3
  <2> QED BY <2>1, <2>2
<1>7. BoundInv'
  BY <1>6 DEF BoundInv
<1> QED BY <1>5, <1>7 DEF PoolInv

LEMMA PoolInvInit == PoolInit => PoolInv
<1> SUFFICES ASSUME PoolInit PROVE PoolInv
  OBVIOUS
<1>1. recycled = <<>> /\ reads = {} /\ most = 0
  BY DEF PoolInit
<1>2. Range(recycled) = {} /\ Blocks = {}
  BY <1>1 DEF Range, Blocks
<1>3. \A n \in Sizes : OfSize(n) = {}
  BY <1>2 DEF OfSize
<1> QED BY <1>1, <1>2, <1>3, FS_EmptySet
        DEF PoolInv, HandsInv, NumbersInv, BoundInv, IsInjective

LEMMA PoolInvNext == PoolInv /\ [PoolNext]_poolVars => PoolInv'
<1> SUFFICES ASSUME PoolInv, [PoolNext]_poolVars PROVE PoolInv'
  OBVIOUS
<1>0. /\ HandsInv /\ recycled \in Seq(Block) /\ IsInjective(recycled)
      /\ DOMAIN recycled = 1 .. Len(recycled)
      /\ Blocks = Range(recycled) \cup BlocksInUse
      /\ Range(recycled) \cap BlocksInUse = {}
      /\ most \in Nat /\ Cardinality(reads) =< most
  BY DEF PoolInv, HandsInv, BoundInv, Blocks, BlocksInUse
<1>1. ASSUME NEW n \in Sizes, Reuse(n) PROVE PoolInv'
  <2>1. PICK i \in 1 .. Len(recycled) :
          /\ Fits(recycled[i], n) /\ recycled' = RemoveAt(recycled, i) /\ Existing(recycled[i], n)
    BY <1>0, <1>1, BestOfThoseThatFit DEF Reuse
  <2>2. recycled[i] \in Block /\ recycled[i].size >= n /\ recycled[i] \in Range(recycled)
    BY <1>0, <2>1 DEF Fits, Range
  <2>3. recycled[i] \notin BlocksInUse
    BY <1>0, <2>2
  <2>4. /\ recycled' \in Seq(Block) /\ IsInjective(recycled')
        /\ Range(recycled') = Range(recycled) \ {recycled[i]}
    BY <1>0, <2>1, ErasedOnce
  <2>5. /\ reads' \subseteq [block : Block, needs : Sizes] /\ IsFiniteSet(reads')
        /\ \A r \in reads' : r.needs =< r.block.size
        /\ \A r, s \in reads' : r.block = s.block => r = s
        /\ most' \in Nat /\ most =< most' /\ Cardinality(reads') =< most'
        /\ BlocksInUse' = BlocksInUse \cup {recycled[i]}
    BY <2>1, <2>2, <2>3, ReadBegins
  <2>6. Blocks' = Blocks
    <3>1. Blocks' = Range(recycled') \cup BlocksInUse'
      BY DEF Blocks, BlocksInUse
    <3> QED BY <1>0, <2>2, <2>4, <2>5, <3>1
  <2>7. \A r \in reads' : r.block \notin Range(recycled')
    <3>1. \A r \in reads' : r.block \in BlocksInUse'
      BY DEF BlocksInUse
    <3> QED BY <1>0, <2>4, <2>5, <3>1
  <2>8. HandsInv'
    BY <2>4, <2>5, <2>7 DEF HandsInv
  <2> QED BY <2>5, <2>6, <2>8, SameBlocks
<1>2. ASSUME NEW n \in Sizes, Allocate(n) PROVE PoolInv'
  <2>1. PICK more \in Rounding :
          Existing([number |-> Cardinality(Blocks) + 1, asked |-> n, size |-> n + more], n)
    BY <1>2 DEF Allocate
  <2> DEFINE b == [number |-> Cardinality(Blocks) + 1, asked |-> n, size |-> n + more]
  <2>2. BestFits(n) = {} /\ recycled' = recycled
    BY <1>2 DEF Allocate
  <2>3. b \in Block /\ b.asked = n /\ b.size >= n /\ b.number = Cardinality(Blocks) + 1
    <3>1. n \in Nat /\ more \in Nat /\ Cardinality(Blocks) \in Nat
      BY <1>0, BlocksFinite, SizesAssumption
    <3> QED BY <3>1 DEF Block
  <2>4. b \notin Blocks
    <3>1. \A a \in Blocks : a.number \in 1 .. Cardinality(Blocks)
      BY DEF PoolInv, NumbersInv
    <3>2. Cardinality(Blocks) \in Nat
      BY <1>0, BlocksFinite
    <3> HIDE DEF b
    <3> QED BY <2>3, <3>1, <3>2
  <2> HIDE DEF b
  <2>5. /\ reads' \subseteq [block : Block, needs : Sizes] /\ IsFiniteSet(reads')
        /\ \A r \in reads' : r.needs =< r.block.size
        /\ \A r, s \in reads' : r.block = s.block => r = s
        /\ most' \in Nat /\ most =< most' /\ Cardinality(reads') =< most'
        /\ BlocksInUse' = BlocksInUse \cup {b}
    <3>1. Existing(b, n) /\ b \notin BlocksInUse
      BY <1>0, <2>1, <2>4 DEF b
    <3> QED BY <2>3, <3>1, ReadBegins
  <2>6. \A r \in reads' : r.block \notin Range(recycled')
    <3>1. \A r \in reads' : r.block \in BlocksInUse'
      BY DEF BlocksInUse
    <3> QED BY <1>0, <2>2, <2>4, <2>5, <3>1
  <2>7. HandsInv'
    BY <1>0, <2>2, <2>5, <2>6 DEF HandsInv
  <2> QED BY <2>2, <2>3, <2>5, <2>7, NewBlock
<1>3. ASSUME NEW r \in reads, Recycle(r) PROVE PoolInv'
  <2>1. recycled' = Append(recycled, r.block) /\ reads' = reads \ {r} /\ most' = most
    BY <1>3 DEF Recycle
  <2>2. /\ r.block \in Block /\ r.block \in BlocksInUse /\ r.block \notin Range(recycled)
        /\ IsFiniteSet(reads)
    BY <1>0 DEF HandsInv, BlocksInUse
  <2>3. /\ recycled' \in Seq(Block) /\ Range(recycled') = Range(recycled) \cup {r.block}
        /\ IsInjective(recycled')
    BY <1>0, <2>1, <2>2, AppendedOnce
  <2>4. BlocksInUse' = BlocksInUse \ {r.block}
    BY <1>0, <2>1 DEF HandsInv, BlocksInUse
  <2>5. Blocks' = Blocks
    <3>1. Blocks' = Range(recycled') \cup BlocksInUse'
      BY DEF Blocks, BlocksInUse
    <3> QED BY <1>0, <2>2, <2>3, <2>4, <3>1
  <2>6. IsFiniteSet(reads') /\ Cardinality(reads') =< most'
    <3>1. IsFiniteSet(reads \ {r}) /\ Cardinality(reads \ {r}) =< Cardinality(reads)
      BY <2>2, FS_Subset
    <3>2. Cardinality(reads \ {r}) \in Nat /\ Cardinality(reads) \in Nat
      BY <2>2, <3>1, FS_CardinalityType
    <3> QED BY <1>0, <2>1, <3>1, <3>2
  <2>7. \A s \in reads' : s.block \notin Range(recycled')
    <3>1. \A s \in reads' : s.block \in BlocksInUse'
      BY DEF BlocksInUse
    <3> QED BY <1>0, <2>3, <2>4, <3>1
  <2>8. HandsInv'
    BY <1>0, <2>1, <2>3, <2>6, <2>7 DEF HandsInv
  <2> QED BY <1>0, <2>1, <2>5, <2>6, <2>8, SameBlocks
<1>4. CASE UNCHANGED poolVars
  BY <1>4 DEF poolVars, PoolInv, HandsInv, NumbersInv, BoundInv, OfSize, Blocks
<1> QED BY <1>1, <1>2, <1>3, <1>4 DEF PoolNext

THEOREM PoolInvariant == PoolSpec => []PoolInv
BY PoolInvInit, PoolInvNext, PTL DEF PoolSpec

\* BufferPool!BlockOfItsOwn: operator new gives no read a block that is too
\* small or in other hands, and the vector that never shrinks holds, of each
\* size, no more blocks than there have been reads at once.
THEOREM BlocksAreOwned == PoolSpec => []BlockOfItsOwn
<1>1. PoolInv => BlockOfItsOwn
  <2> SUFFICES ASSUME PoolInv PROVE BlockOfItsOwn
    OBVIOUS
  <2>1. \A r \in reads : r.block.size >= r.needs
    BY SizesAssumption DEF PoolInv, HandsInv, Block
  <2>2. IsInjective(recycled) /\ Range(recycled) \cap {r.block : r \in reads} = {}
    BY DEF PoolInv, HandsInv
  <2>3. Cardinality({r.block.number : r \in reads}) = Cardinality(reads)
    <3> DEFINE Numbers == {r.block.number : r \in reads}
               f == [r \in reads |-> r.block.number]
    <3>1. f \in Surjection(reads, Numbers)
      BY DEF Surjection
    <3>2. \A r, s \in reads : r.block.number = s.block.number => r = s
      BY DEF PoolInv, HandsInv, NumbersInv, Blocks
    <3>3. f \in Injection(reads, Numbers)
      BY <3>2 DEF Injection, IsInjective
    <3>4. IsFiniteSet(reads)
      BY DEF PoolInv, HandsInv
    <3>5. Cardinality(Numbers) = Cardinality(reads)
      <4> HIDE DEF f, Numbers
      <4> QED BY <3>1, <3>3, <3>4, FS_Surjection
    <3> QED BY <3>5
  <2>4. \A n \in Sizes : Cardinality({b \in Blocks : b.asked = n}) =< most
    BY DEF PoolInv, BoundInv, OfSize
  <2> QED BY <2>1, <2>2, <2>3, <2>4 DEF BlockOfItsOwn
<1> QED BY <1>1, PoolInvariant, PTL

-----------------------------------------------------------------------------
(* The diagnostic tools. *)

TypeInv ==
    /\ tool \in {"dump", "benchmark", "list"} /\ mft \in Mfts
    /\ step \in {"open", "volume data", "extents", "size", "create", "header", "read", "write",
                 "entry", "output", "returned"}
    /\ size \in Nat /\ extent \in 1 .. Len(mft.extents) + 1 /\ extentRead \in Nat /\ count \in Nat
    /\ buffer \in Seq(Nat) /\ file \in Seq(Nat) /\ ends \in [first : Nat, last : Nat]
    /\ status \in {"none", "error", "done"}

\* How much has been read is where the loops are, and never beyond the total.
PositionInv ==
    /\ step \in {"open", "volume data", "extents", "size", "create", "header"} =>
          extent = 1 /\ extentRead = 0 /\ count = 0
    /\ step \in {"read", "write"} =>
          /\ InExtents => extentRead <= LengthOf(extent)
          /\ ~InExtents => extentRead = 0
          /\ count = Smaller(Total, StartOf(extent) + extentRead)
    /\ step \in {"create", "header", "write"} => tool = "dump"
    /\ step = "read" => tool \in {"dump", "benchmark"}
    /\ step \in {"entry", "output"} => tool = "list"

\* What has been read and not yet written is what comes next.
BufferInv ==
    step = "write" =>
        /\ InExtents /\ count < Total
        /\ extentRead + Len(buffer) <= LengthOf(extent)
        /\ \A k \in 1 .. Len(buffer) : buffer[k] = OffsetOf(extent) + extentRead + k - 1

ContentInv ==
    /\ \A n \in 1 .. Len(file) : Located(n - 1, file[n])
    /\ tool = "dump" => Len(file) = count
    /\ tool = "benchmark" /\ count > 0 => Located(0, ends.first) /\ Located(count - 1, ends.last)

ResultInv ==
    /\ status # "none" => step = "returned"
    /\ step = "returned" => handles = {}
    /\ tool \in {"dump", "benchmark"} /\ status = "done" => count = Smaller(Total, Allocated)

Inv == TypeInv /\ PositionInv /\ BufferInv /\ ContentInv /\ ResultInv

-----------------------------------------------------------------------------
\* Of a sequence of anything.
LEMMA SequenceType ==
  ASSUME NEW S, NEW e \in Seq(S)
  PROVE  Len(e) \in Nat /\ \A i \in 1 .. Len(e) : e[i] \in S
  OBVIOUS

\* The extents of an MFT are well formed.
LEMMA ExtentsType ==
  ASSUME NEW m \in Mfts
  PROVE  /\ Len(m.extents) \in Nat
         /\ \A i \in 1 .. Len(m.extents) : m.extents[i].next \in Nat /\ m.extents[i].lcn \in Nat
<1> DEFINE S == [next : Nat, lcn : Nat]
<1>1. m.extents \in Seq(S)
  BY MftAssumption
<1>2. ASSUME NEW x \in S PROVE x.next \in Nat /\ x.lcn \in Nat
  OBVIOUS
<1> HIDE DEF S
<1> QED BY <1>1, <1>2, SequenceType

\* The extents follow each other, on the virtual side without a gap.
LEMMA ExtentsMeet ==
  ASSUME mft \in Mfts
  PROVE  /\ StartOf(1) = 0
         /\ \A i \in 1 .. Len(mft.extents) :
               /\ LengthOf(i) \in Nat /\ OffsetOf(i) \in Nat /\ StartOf(i) \in Nat
               /\ StartOf(i + 1) = StartOf(i) + LengthOf(i)
         /\ \A i \in 1 .. Len(mft.extents) + 1 : StartOf(i) \in Nat
<1> DEFINE c == mft.cluster
<1>1. /\ mft.extents \in Seq([next : Nat, lcn : Nat]) /\ c \in Nat /\ c > 0
      /\ \A i \in 1 .. Len(mft.extents) - 1 : mft.extents[i].next <= mft.extents[i + 1].next
  BY MftAssumption
<1>2. \A i \in 1 .. Len(mft.extents) : mft.extents[i].next \in Nat /\ mft.extents[i].lcn \in Nat
  BY ExtentsType
<1>3. StartOf(1) = 0
  BY <1>1 DEF StartOf, PreviousVcn
<1> HIDE DEF c
<1>4. ASSUME NEW a \in Nat PROVE a * c \in Nat
  BY <1>1, <1>4
<1>5. ASSUME NEW i \in 1 .. Len(mft.extents) + 1
      PROVE  PreviousVcn(i) \in Nat /\ StartOf(i) \in Nat
  <2>1. PreviousVcn(i) \in Nat
    BY <1>1, <1>2 DEF PreviousVcn
  <2> QED BY <1>4, <2>1 DEF StartOf, c
<1>6. ASSUME NEW i \in 1 .. Len(mft.extents)
      PROVE  /\ LengthOf(i) \in Nat /\ OffsetOf(i) \in Nat
             /\ StartOf(i + 1) = StartOf(i) + LengthOf(i)
  <2> DEFINE next == mft.extents[i].next
             prev == PreviousVcn(i)
  <2>1. next \in Nat /\ prev \in Nat
    BY <1>2, <1>5
  <2>2. prev <= next
    <3>1. CASE i = 1
      BY <2>1, <3>1 DEF PreviousVcn
    <3>2. CASE i # 1
      <4>1. i - 1 \in 1 .. Len(mft.extents) - 1 /\ (i - 1) + 1 = i
        BY <1>1, <3>2
      <4>2. mft.extents[i - 1].next <= mft.extents[(i - 1) + 1].next
        BY <1>1, <4>1
      <4> QED BY <3>2, <4>1, <4>2 DEF PreviousVcn
    <3> QED BY <3>1, <3>2
  <2>3. PreviousVcn(i + 1) = next
    BY <1>1 DEF PreviousVcn
  <2>4. LengthOf(i) = (next - prev) * c /\ StartOf(i) = prev * c /\ StartOf(i + 1) = next * c
    BY <2>3 DEF LengthOf, StartOf, c
  <2> HIDE DEF next, prev
  <2>5. next - prev \in Nat
    BY <2>1, <2>2
  <2>6. (next - prev) * c = next * c - prev * c
    BY <2>1, <1>1
  <2>7. next * c \in Nat /\ prev * c \in Nat /\ (next - prev) * c \in Nat
    BY <1>4, <2>1, <2>5
  <2>8. OffsetOf(i) \in Nat
    BY <1>2, <1>4 DEF OffsetOf, c
  <2> QED BY <2>4, <2>6, <2>7, <2>8
<1> QED BY <1>3, <1>5, <1>6

\* The total is a number, for any size.
LEMMA TotalType ==
  ASSUME NEW m \in Mfts, NEW n \in Nat
  PROVE  (n \div m.record) * m.record \in Nat
<1>1. m.record \in Nat /\ m.record > 0
  BY MftAssumption
<1>2. n \div m.record \in Nat
  BY <1>1
<1>3. ASSUME NEW a \in Nat, NEW b \in Nat PROVE a * b \in Nat
  BY <1>3
<1> QED BY <1>1, <1>2, <1>3

\* A sector of an extent is where the extent is on the disk.
LEMMA PlaceIsLocated ==
  ASSUME mft \in Mfts, NEW i \in 1 .. Len(mft.extents), NEW k \in Nat, k < LengthOf(i)
  PROVE  Located(StartOf(i) + k, OffsetOf(i) + k)
<1>1. LengthOf(i) \in Nat /\ OffsetOf(i) \in Nat /\ StartOf(i) \in Nat
  BY ExtentsMeet
<1>2. /\ StartOf(i) <= StartOf(i) + k /\ StartOf(i) + k < StartOf(i) + LengthOf(i)
      /\ OffsetOf(i) + k = OffsetOf(i) + ((StartOf(i) + k) - StartOf(i))
  BY <1>1
<1> QED BY <1>2 DEF Located

-----------------------------------------------------------------------------
\* A tool starts with nothing.
LEMMA InitHolds == ToolInit => Inv
<1> SUFFICES ASSUME ToolInit PROVE Inv
  OBVIOUS
<1>1. Len(mft.extents) \in Nat
  BY ExtentsType DEF ToolInit
<1> QED BY <1>1 DEF ToolInit, Inv, TypeInv, PositionInv, BufferInv, ContentInv, ResultInv

\* What the steps need of the current extent, in one place.
LEMMA Numbers ==
  ASSUME TypeInv
  PROVE  /\ Len(mft.extents) \in Nat /\ Total \in Nat /\ StartOf(extent) \in Nat
         /\ BufferSize \in Nat /\ BufferSize > 0
         /\ InExtents => /\ extent \in 1 .. Len(mft.extents)
                         /\ LengthOf(extent) \in Nat /\ OffsetOf(extent) \in Nat
                         /\ StartOf(extent + 1) = StartOf(extent) + LengthOf(extent)
         /\ ~InExtents => extent = Len(mft.extents) + 1
<1>1. Len(mft.extents) \in Nat
  BY ExtentsType DEF TypeInv
<1>2. BufferSize \in Nat /\ BufferSize > 0
  BY MftAssumption
<1>3. Total \in Nat
  BY TotalType DEF TypeInv, Total
<1>4. mft \in Mfts /\ extent \in 1 .. Len(mft.extents) + 1
  BY DEF TypeInv
<1>5. StartOf(extent) \in Nat
  BY <1>4, ExtentsMeet
<1>6. InExtents => extent \in 1 .. Len(mft.extents)
  BY <1>1, <1>4 DEF InExtents
<1>7. ~InExtents => extent = Len(mft.extents) + 1
  BY <1>1, <1>4 DEF InExtents
<1> QED BY <1>1, <1>2, <1>3, <1>4, <1>5, <1>6, <1>7, ExtentsMeet

\* What fits of the next n into what is left of t.
LEMMA SmallerStep ==
  ASSUME NEW n \in Nat, NEW c \in Nat, NEW t \in Nat, c <= t
  PROVE  Smaller(n, t - c) \in 0 .. n /\ c + Smaller(n, t - c) = Smaller(t, c + n)
  BY DEF Smaller

\* A read brings the next sectors of the extent, at least one and no more than
\* are left of it and of the total.
LEMMA ReadBrings ==
  ASSUME TypeInv, PositionInv, step = "read", MoreOfExtent, NEW n \in 1 .. ToRead
  PROVE  /\ n \in Nat /\ n > 0 /\ extentRead + n <= LengthOf(extent) /\ count + n <= Total
         /\ count = StartOf(extent) + extentRead
         /\ Places(n) \in Seq(Nat) /\ Len(Places(n)) = n
         /\ \A k \in 1 .. n : Places(n)[k] = OffsetOf(extent) + extentRead + k - 1
         /\ \A k \in 1 .. n : Located(count + k - 1, Places(n)[k])
<1>1. /\ InExtents /\ extentRead < LengthOf(extent) /\ count < Total
      /\ count \in Nat /\ extentRead \in Nat /\ mft \in Mfts
  BY DEF MoreOfExtent, TypeInv
<1>2. /\ Total \in Nat /\ StartOf(extent) \in Nat /\ extent \in 1 .. Len(mft.extents)
      /\ LengthOf(extent) \in Nat /\ OffsetOf(extent) \in Nat
      /\ BufferSize \in Nat /\ BufferSize > 0
  BY <1>1, Numbers
<1>3. /\ ToRead \in Nat /\ ToRead <= LengthOf(extent) - extentRead /\ ToRead <= Total - count
  BY <1>1, <1>2 DEF ToRead, Smaller
<1>4. n \in Nat /\ n > 0 /\ extentRead + n <= LengthOf(extent) /\ count + n <= Total
  BY <1>1, <1>2, <1>3
<1>5. count = StartOf(extent) + extentRead
  BY <1>1, <1>2 DEF PositionInv, Smaller
<1>6. /\ Places(n) \in Seq(Nat) /\ Len(Places(n)) = n
      /\ \A k \in 1 .. n : Places(n)[k] = OffsetOf(extent) + extentRead + k - 1
  <2>1. \A k \in 1 .. n : OffsetOf(extent) + extentRead + k - 1 \in Nat
    BY <1>1, <1>2, <1>4
  <2> QED BY <1>4, <2>1 DEF Places
<1>7. ASSUME NEW k \in 1 .. n
      PROVE  Located(count + k - 1, Places(n)[k])
  <2> DEFINE d == extentRead + k - 1
  <2>1. d \in Nat /\ d < LengthOf(extent)
    BY <1>1, <1>2, <1>4
  <2>2. count + k - 1 = StartOf(extent) + d
    BY <1>1, <1>2, <1>4, <1>5
  <2>4. Places(n)[k] = OffsetOf(extent) + extentRead + k - 1
    BY <1>6
  <2>5. OffsetOf(extent) + extentRead + k - 1 = OffsetOf(extent) + d
    BY <1>1, <1>2, <1>4
  <2> HIDE DEF d
  <2>3. Located(StartOf(extent) + d, OffsetOf(extent) + d)
    BY <1>1, <1>2, <2>1, PlaceIsLocated
  <2> QED BY <2>2, <2>3, <2>4, <2>5
<1> QED BY <1>4, <1>5, <1>6, <1>7

\* What lies where does not change with the position of the tool.
LEMMA LocatedStays ==
  ASSUME mft' = mft
  PROVE  /\ \A v, place : Located(v, place)' <=> Located(v, place)
         /\ Allocated' = Allocated
         /\ size' = size => Total' = Total
         /\ \A i : StartOf(i)' = StartOf(i) /\ LengthOf(i)' = LengthOf(i) /\ OffsetOf(i)' = OffsetOf(i)
  BY DEF Located, Allocated, Total, StartOf, LengthOf, OffsetOf, PreviousVcn

\* The calls before the loops, and those that end a tool.
Calls == \/ Fails \/ OpenVolume \/ QueryVolume \/ QueryExtents \/ QuerySize
         \/ CreateOutput \/ WriteHeader \/ ListComplete \/ WriteListing

LEMMA CallsPreserve == Inv /\ Calls => Inv'
<1> SUFFICES ASSUME Inv, Calls PROVE Inv'
  OBVIOUS
<1> USE DEF ReturnsWith, GoesOnWith, positionVars
<1> DEFINE early == {"open", "volume data", "extents", "size", "create", "header"}
<1>1. mft' = mft /\ tool' = tool /\ mft \in Mfts
  BY DEF Calls, Fails, OpenVolume, QueryVolume, QueryExtents, QuerySize, CreateOutput, WriteHeader,
         ListComplete, WriteListing, Inv, TypeInv
<1>2. /\ extent' = extent /\ extentRead' = extentRead /\ count' = count /\ file' = file
      /\ ends' = ends /\ buffer' = buffer
  BY DEF Calls, Fails, OpenVolume, QueryVolume, QueryExtents, QuerySize, CreateOutput, WriteHeader,
         ListComplete, WriteListing
<1>3. size' \in Nat /\ (size' = size \/ step = "size")
  BY <1>1, MftAssumption DEF Calls, Fails, OpenVolume, QueryVolume, QueryExtents, QuerySize,
         CreateOutput, WriteHeader, ListComplete, WriteListing, Inv, TypeInv
<1>4. TypeInv'
  BY <1>1, <1>2, <1>3 DEF Calls, Fails, OpenVolume, QueryVolume, QueryExtents, QuerySize, CreateOutput,
         WriteHeader, ListComplete, WriteListing, Inv, TypeInv
<1>5. /\ step' \in early => step \in early
      /\ step' = "read" => step \in early /\ tool \in {"dump", "benchmark"}
      /\ step' # "write"
      /\ step' \in {"create", "header"} => tool = "dump"
      /\ step' \in {"entry", "output"} => tool = "list"
  BY DEF Calls, Fails, OpenVolume, QueryVolume, QueryExtents, QuerySize, CreateOutput, WriteHeader,
         ListComplete, WriteListing, Inv, TypeInv, PositionInv
<1>6. PositionInv'
  <2>1. ASSUME step' = "read"
        PROVE  /\ InExtents' => extentRead' <= LengthOf(extent)'
               /\ extentRead' = 0
               /\ count' = Smaller(Total', StartOf(extent)' + extentRead')
    <3>1. extent = 1 /\ extentRead = 0 /\ count = 0
      BY <1>5, <2>1 DEF Inv, PositionInv
    <3>2. Total' \in Nat
      BY <1>1, <1>3, TotalType DEF Total
    <3>3. StartOf(extent)' = 0
      BY <1>1, <1>2, <3>1, ExtentsMeet, LocatedStays
    <3>4. InExtents' => LengthOf(extent)' \in Nat
      <4>1. LengthOf(extent)' = LengthOf(extent)
        BY <1>1, <1>2 DEF LengthOf, PreviousVcn
      <4>2. InExtents' => extent \in 1 .. Len(mft.extents)
        BY <1>1, <1>2, <3>1, ExtentsType DEF InExtents
      <4> QED BY <1>1, <4>1, <4>2, ExtentsMeet
    <3> QED BY <1>2, <3>1, <3>2, <3>3, <3>4 DEF Smaller
  <2> QED BY <1>1, <1>2, <1>5, <2>1 DEF Inv, PositionInv
<1>7. BufferInv' /\ ContentInv'
  BY <1>1, <1>2, <1>5, LocatedStays DEF Inv, BufferInv, ContentInv
<1>8. ResultInv'
  BY <1>1, <1>2, <1>5 DEF Calls, Fails, OpenVolume, QueryVolume, QueryExtents, QuerySize, CreateOutput,
         WriteHeader, ListComplete, WriteListing, Inv, ResultInv, PositionInv, TypeInv
<1> QED BY <1>4, <1>6, <1>7, <1>8 DEF Inv

\* From one extent to the next.
LEMMA NextExtentPreserves == Inv /\ NextExtent => Inv'
<1> SUFFICES ASSUME Inv, NextExtent PROVE Inv'
  OBVIOUS
<1>1. /\ TypeInv /\ mft' = mft /\ mft \in Mfts /\ size' = size /\ InExtents /\ ~MoreOfExtent
      /\ step = "read" /\ step' = "read" /\ extent' = extent + 1 /\ extentRead' = 0 /\ count' = count
      /\ tool' = tool /\ file' = file /\ ends' = ends
  BY DEF NextExtent, Inv, TypeInv
<1>2. /\ Len(mft.extents) \in Nat /\ Total \in Nat /\ StartOf(extent) \in Nat
      /\ extent \in 1 .. Len(mft.extents) /\ LengthOf(extent) \in Nat
      /\ StartOf(extent + 1) = StartOf(extent) + LengthOf(extent)
  BY <1>1, Numbers
<1>3. TypeInv'
  BY <1>1, <1>2 DEF NextExtent, TypeInv
<1>4. PositionInv'
  <2>1. extentRead \in Nat /\ extentRead <= LengthOf(extent) /\ count \in Nat
        /\ count = Smaller(Total, StartOf(extent) + extentRead)
    BY <1>1 DEF Inv, TypeInv, PositionInv
  <2>2. extentRead = LengthOf(extent) \/ count = Total
    BY <1>1, <1>2, <2>1 DEF MoreOfExtent, Smaller
  <2>3. count = Smaller(Total, StartOf(extent + 1))
    BY <1>2, <2>1, <2>2 DEF Smaller
  <2>4. InExtents' => LengthOf(extent)' \in Nat
    <3>1. InExtents' => extent + 1 \in 1 .. Len(mft.extents)
      BY <1>1, <1>2 DEF InExtents
    <3>2. LengthOf(extent)' = LengthOf(extent + 1)
      BY <1>1 DEF LengthOf, PreviousVcn
    <3> QED BY <1>1, <3>1, <3>2, ExtentsMeet
  <2>5. StartOf(extent)' = StartOf(extent + 1) /\ Total' = Total
    BY <1>1 DEF StartOf, PreviousVcn, Total
  <2>6. StartOf(extent + 1) \in Nat
    BY <1>2
  <2>7. count' = Smaller(Total', StartOf(extent)' + extentRead')
    BY <1>1, <2>3, <2>5, <2>6
  <2> QED BY <1>1, <2>4, <2>7 DEF Inv, PositionInv
<1>5. BufferInv' /\ ContentInv' /\ ResultInv'
  BY <1>1, LocatedStays DEF NextExtent, Inv, BufferInv, ContentInv, ResultInv
<1> QED BY <1>3, <1>4, <1>5 DEF Inv

\* A read of the dump.
LEMMA ReadToDumpPreserves == Inv /\ ReadToDump => Inv'
<1> SUFFICES ASSUME Inv, ReadToDump PROVE Inv'
  OBVIOUS
<1>1. /\ TypeInv /\ PositionInv /\ mft' = mft /\ size' = size /\ tool = "dump" /\ tool' = tool
      /\ step = "read" /\ step' = "write" /\ MoreOfExtent /\ status' = status
      /\ extent' = extent /\ extentRead' = extentRead /\ count' = count /\ file' = file /\ ends' = ends
  BY DEF ReadToDump, GoesOnWith, Inv
<1>2. PICK n \in 1 .. ToRead : buffer' = Places(n)
  BY DEF ReadToDump
<1>3. /\ n \in Nat /\ extentRead + n <= LengthOf(extent)
      /\ buffer' \in Seq(Nat) /\ Len(buffer') = n
      /\ \A k \in 1 .. n : buffer'[k] = OffsetOf(extent) + extentRead + k - 1
  BY <1>1, <1>2, ReadBrings
<1>4. TypeInv'
  BY <1>1, <1>3 DEF TypeInv
<1>5. /\ Total' = Total /\ StartOf(extent)' = StartOf(extent) /\ LengthOf(extent)' = LengthOf(extent)
      /\ OffsetOf(extent)' = OffsetOf(extent) /\ InExtents' = InExtents
  BY <1>1 DEF Total, StartOf, LengthOf, OffsetOf, PreviousVcn, InExtents
<1>6. PositionInv'
  BY <1>1, <1>5 DEF PositionInv
<1>7. BufferInv'
  BY <1>1, <1>3, <1>5 DEF BufferInv, MoreOfExtent
<1>8. ContentInv' /\ ResultInv'
  BY <1>1, LocatedStays DEF Inv, ContentInv, ResultInv
<1> QED BY <1>4, <1>6, <1>7, <1>8 DEF Inv

\* A write of the dump: the file grows by what has been read, none of it is cut off.
LEMMA WriteDumpPreserves == Inv /\ WriteDump => Inv'
<1> SUFFICES ASSUME Inv, WriteDump PROVE Inv'
  OBVIOUS
<1> DEFINE n == Len(buffer)
<1>1. /\ TypeInv /\ PositionInv /\ mft' = mft /\ mft \in Mfts /\ size' = size /\ tool = "dump" /\ tool' = tool
      /\ step = "write" /\ step' = "read" /\ InExtents /\ count < Total /\ status' = status
      /\ extent' = extent /\ extentRead' = extentRead + n /\ ends' = ends /\ buffer' = buffer
      /\ count \in Nat /\ extentRead \in Nat /\ buffer \in Seq(Nat) /\ file \in Seq(Nat)
      /\ n \in Nat /\ extentRead + n <= LengthOf(extent) /\ Len(file) = count
      /\ \A k \in 1 .. n : buffer[k] = OffsetOf(extent) + extentRead + k - 1
  BY DEF WriteDump, GoesOnWith, Inv, TypeInv, PositionInv, BufferInv, ContentInv
<1> HIDE DEF n
<1>2. /\ Total \in Nat /\ StartOf(extent) \in Nat /\ LengthOf(extent) \in Nat
      /\ OffsetOf(extent) \in Nat /\ extent \in 1 .. Len(mft.extents)
  BY <1>1, Numbers
<1>3. count = StartOf(extent) + extentRead
  BY <1>1, <1>2 DEF PositionInv, Smaller
<1> DEFINE w == Smaller(n, Total - count)
<1>4. w \in 0 .. n /\ count + w = Smaller(Total, StartOf(extent) + (extentRead + n))
  <2>1. w \in 0 .. n /\ count + w = Smaller(Total, count + n)
    <3>1. n \in Nat /\ count \in Nat /\ Total \in Nat /\ count <= Total
      BY <1>1, <1>2
    <3> QED BY <3>1, SmallerStep
  <2>2. StartOf(extent) + (extentRead + n) = count + n
    BY <1>1, <1>2, <1>3
  <2> QED BY <2>1, <2>2
<1>5. file' = file \o SubSeq(buffer, 1, w) /\ count' = count + w
  BY DEF WriteDump, n
<1> HIDE DEF w
<1>6. /\ SubSeq(buffer, 1, w) \in Seq(Nat) /\ Len(SubSeq(buffer, 1, w)) = w
      /\ \A k \in 1 .. w : SubSeq(buffer, 1, w)[k] = buffer[k]
  BY <1>1, <1>4 DEF n
<1>7. /\ file' \in Seq(Nat) /\ Len(file') = count'
      /\ \A k \in 1 .. count' : file'[k] = IF k <= count THEN file[k] ELSE SubSeq(buffer, 1, w)[k - count]
  <2>1. ASSUME NEW a \in Seq(Nat), NEW b \in Seq(Nat)
        PROVE  /\ a \o b \in Seq(Nat) /\ Len(a \o b) = Len(a) + Len(b)
               /\ \A k \in 1 .. Len(a) + Len(b) : (a \o b)[k] = IF k <= Len(a) THEN a[k] ELSE b[k - Len(a)]
    OBVIOUS
  <2> DEFINE piece == SubSeq(buffer, 1, w)
  <2>2. piece \in Seq(Nat) /\ Len(piece) = w
    BY <1>6
  <2>3. file \in Seq(Nat) /\ Len(file) = count
    BY <1>1
  <2>4. file' = file \o piece /\ count' = count + w
    BY <1>5
  <2> HIDE DEF piece
  <2>5. /\ file \o piece \in Seq(Nat) /\ Len(file \o piece) = count + w
        /\ \A k \in 1 .. count + w :
              (file \o piece)[k] = IF k <= count THEN file[k] ELSE piece[k - count]
    BY <2>1, <2>2, <2>3
  <2> QED BY <2>4, <2>5 DEF piece
<1>8. TypeInv'
  BY <1>1, <1>4, <1>5, <1>7 DEF TypeInv
<1>9. /\ Total' = Total /\ StartOf(extent)' = StartOf(extent) /\ LengthOf(extent)' = LengthOf(extent)
      /\ InExtents' = InExtents
  BY <1>1 DEF Total, StartOf, LengthOf, PreviousVcn, InExtents
<1>10. PositionInv'
  BY <1>1, <1>4, <1>5, <1>9 DEF PositionInv
<1>11. ContentInv'
  <2>1. ASSUME NEW k \in 1 .. count' PROVE Located(k - 1, file'[k])
    <3>1. CASE k <= count
      BY <1>1, <1>4, <1>5, <1>7, <3>1 DEF Inv, ContentInv
    <3>2. CASE ~(k <= count)
      <4> DEFINE d == extentRead + (k - count) - 1
      <4>1. k - count \in 1 .. w /\ k - count \in 1 .. n
        BY <1>1, <1>4, <1>5, <3>2
      <4>2. d \in Nat /\ d < LengthOf(extent)
        BY <1>1, <1>2, <4>1
      <4>3. file'[k] = OffsetOf(extent) + extentRead + (k - count) - 1
        BY <1>1, <1>6, <1>7, <3>2, <4>1
      <4>5. OffsetOf(extent) + extentRead + (k - count) - 1 = OffsetOf(extent) + d
        BY <1>1, <1>2, <4>1
      <4>6. k \in Nat
        BY <1>1, <1>4, <1>5
      <4>7. count \in Nat /\ extentRead \in Nat /\ StartOf(extent) \in Nat
        BY <1>1, <1>2
      <4>8. k - 1 = StartOf(extent) + d
        BY <1>3, <4>6, <4>7
      <4>4. file'[k] = OffsetOf(extent) + d /\ k - 1 = StartOf(extent) + d
        BY <4>3, <4>5, <4>8
      <4> HIDE DEF d
      <4> QED BY <1>1, <1>2, <4>2, <4>4, PlaceIsLocated
    <3> QED BY <3>1, <3>2
  <2> QED BY <1>1, <1>7, <2>1, LocatedStays DEF ContentInv
<1>12. BufferInv' /\ ResultInv'
  BY <1>1 DEF Inv, BufferInv, ResultInv
<1> QED BY <1>8, <1>10, <1>11, <1>12 DEF Inv

\* A read of the benchmark.
LEMMA ReadToMeasurePreserves == Inv /\ ReadToMeasure => Inv'
<1> SUFFICES ASSUME Inv, ReadToMeasure PROVE Inv'
  OBVIOUS
<1>1. /\ TypeInv /\ PositionInv /\ mft' = mft /\ mft \in Mfts /\ size' = size /\ tool = "benchmark" /\ tool' = tool
      /\ step = "read" /\ step' = "read" /\ MoreOfExtent /\ status' = status
      /\ extent' = extent /\ file' = file /\ InExtents
      /\ count \in Nat /\ extentRead \in Nat /\ ends \in [first : Nat, last : Nat]
  BY DEF ReadToMeasure, Inv, TypeInv, MoreOfExtent
<1>2. PICK n \in 1 .. ToRead :
         LET data == Smaller(n, Total - count)
         IN /\ ends' = [first |-> IF count = 0 THEN Places(n)[1] ELSE ends.first,
                        last |-> Places(n)[data]]
            /\ count' = count + data
            /\ extentRead' = extentRead + n
            /\ buffer' = Places(n)
  BY DEF ReadToMeasure
<1>3. /\ n \in Nat /\ n > 0 /\ extentRead + n <= LengthOf(extent) /\ count + n <= Total
      /\ count = StartOf(extent) + extentRead
      /\ Places(n) \in Seq(Nat) /\ Len(Places(n)) = n
      /\ \A k \in 1 .. n : Located(count + k - 1, Places(n)[k])
  BY <1>1, ReadBrings
<1>4. Total \in Nat /\ StartOf(extent) \in Nat /\ LengthOf(extent) \in Nat
  BY <1>1, Numbers
<1>5. Smaller(n, Total - count) = n
  BY <1>1, <1>3, <1>4 DEF Smaller
<1>6. /\ ends' = [first |-> IF count = 0 THEN Places(n)[1] ELSE ends.first, last |-> Places(n)[n]]
      /\ count' = count + n /\ extentRead' = extentRead + n /\ buffer' = Places(n)
  BY <1>2, <1>5
<1>7. 1 \in 1 .. n /\ n \in 1 .. n /\ Places(n)[1] \in Nat /\ Places(n)[n] \in Nat
  <2>1. 1 \in 1 .. n /\ n \in 1 .. n
    BY <1>3
  <2> QED BY <1>3, <2>1, SequenceType
<1>8. TypeInv'
  <2>1. ends' \in [first : Nat, last : Nat]
    BY <1>1, <1>6, <1>7
  <2> QED BY <1>1, <1>3, <1>6, <2>1 DEF TypeInv
<1>9. /\ Total' = Total /\ StartOf(extent)' = StartOf(extent) /\ LengthOf(extent)' = LengthOf(extent)
      /\ InExtents' = InExtents
  BY <1>1 DEF Total, StartOf, LengthOf, PreviousVcn, InExtents
<1>10. PositionInv'
  <2>2. StartOf(extent) + (extentRead + n) = count + n
    BY <1>1, <1>3, <1>4
  <2>3. count <= Total
    BY <1>1, <1>3, <1>4
  <2>1. count + n = Smaller(Total, StartOf(extent) + (extentRead + n))
    BY <1>1, <1>3, <1>4, <1>5, <2>2, <2>3, SmallerStep
  <2> QED BY <1>1, <1>3, <1>6, <1>9, <2>1 DEF PositionInv
<1>11. ContentInv'
  <2>1. Located(0, ends'.first)
    <3>1. CASE count = 0
      <4>1. Located(count + 1 - 1, Places(n)[1])
        BY <1>3, <1>7
      <4>2. count + 1 - 1 = 0 /\ ends'.first = Places(n)[1]
        BY <1>6, <3>1
      <4> QED BY <4>1, <4>2
    <3>2. CASE count # 0
      <4>1. ends'.first = ends.first /\ count > 0
        BY <1>1, <1>6, <3>2
      <4> QED BY <1>1, <4>1 DEF Inv, ContentInv
    <3> QED BY <3>1, <3>2
  <2>2. Located(count' - 1, ends'.last)
    <3>1. Located(count + n - 1, Places(n)[n])
      BY <1>3, <1>7
    <3>4. count' = count + n
      BY <1>6
    <3>2. count' - 1 = count + n - 1
      BY <1>1, <1>3, <3>4
    <3>3. ends'.last = Places(n)[n]
      BY <1>6
    <3> QED BY <3>1, <3>2, <3>3
  <2>3. \A k \in 1 .. Len(file) : Located(k - 1, file[k])
    BY DEF Inv, ContentInv
  <2> QED BY <1>1, <2>1, <2>2, <2>3, LocatedStays DEF ContentInv
<1>12. BufferInv' /\ ResultInv'
  BY <1>1 DEF Inv, BufferInv, ResultInv
<1> QED BY <1>8, <1>10, <1>11, <1>12 DEF Inv

\* The end of the loops.
LEMMA CompletePreserves == Inv /\ Complete => Inv'
<1> SUFFICES ASSUME Inv, Complete PROVE Inv'
  OBVIOUS
<1>1. /\ TypeInv /\ mft' = mft /\ mft \in Mfts /\ tool' = tool /\ step = "read" /\ ~InExtents
      /\ step' = "returned" /\ status' = "done" /\ handles' = {}
      /\ size' = size /\ extent' = extent /\ extentRead' = extentRead /\ buffer' = buffer
      /\ count' = count /\ file' = file /\ ends' = ends
  BY DEF Complete, ReturnsWith, positionVars, Inv, TypeInv
<1>2. TypeInv' /\ PositionInv' /\ BufferInv'
  BY <1>1 DEF TypeInv, PositionInv, BufferInv
<1>3. ContentInv'
  BY <1>1, LocatedStays DEF Inv, ContentInv
<1>4. count = Smaller(Total, Allocated)
  <2>1. count = Smaller(Total, StartOf(extent) + extentRead) /\ extentRead = 0
    BY <1>1 DEF Inv, PositionInv
  <2>2. extent = Len(mft.extents) + 1 /\ StartOf(extent) \in Nat
    BY <1>1, Numbers
  <2> QED BY <2>1, <2>2 DEF Allocated
<1>5. ResultInv'
  BY <1>1, <1>4, LocatedStays DEF ResultInv
<1> QED BY <1>2, <1>3, <1>5 DEF Inv

\* One entry of the listing.
LEMMA ListExtentPreserves == Inv /\ ListExtent => Inv'
<1> SUFFICES ASSUME Inv, ListExtent PROVE Inv'
  OBVIOUS
<1>1. /\ TypeInv /\ mft' = mft /\ mft \in Mfts /\ tool' = tool /\ step = "entry" /\ step' = step
      /\ InExtents /\ status' = status /\ size' = size /\ extent' = extent + 1
      /\ extentRead' = extentRead /\ buffer' = buffer /\ count' = count /\ file' = file /\ ends' = ends
  BY DEF ListExtent, Inv, TypeInv
<1>2. extent \in 1 .. Len(mft.extents) /\ Len(mft.extents) \in Nat
  BY <1>1, Numbers
<1>3. TypeInv'
  BY <1>1, <1>2 DEF TypeInv
<1>4. PositionInv' /\ BufferInv'
  BY <1>1 DEF Inv, PositionInv, BufferInv
<1>5. ContentInv' /\ ResultInv'
  BY <1>1, LocatedStays DEF Inv, ContentInv, ResultInv
<1> QED BY <1>3, <1>4, <1>5 DEF Inv

\* Inv is inductive.
LEMMA StepPreserves == Inv /\ [ToolNext]_toolVars => Inv'
<1> SUFFICES ASSUME Inv, [ToolNext]_toolVars PROVE Inv'
  OBVIOUS
<1>1. CASE Calls
  BY <1>1, CallsPreserve
<1>2. CASE Loop
  BY <1>2, NextExtentPreserves, ReadToDumpPreserves, WriteDumpPreserves, ReadToMeasurePreserves,
     CompletePreserves DEF Loop
<1>3. CASE ListExtent
  BY <1>3, ListExtentPreserves
<1>4. CASE UNCHANGED toolVars
  <2>1. /\ mft' = mft /\ tool' = tool /\ step' = step /\ handles' = handles /\ status' = status
        /\ size' = size /\ extent' = extent /\ extentRead' = extentRead /\ buffer' = buffer
        /\ count' = count /\ file' = file /\ ends' = ends
    BY <1>4 DEF toolVars
  <2>2. InExtents' = InExtents
    BY <2>1 DEF InExtents
  <2>3. TypeInv' /\ PositionInv' /\ BufferInv'
    BY <2>1, <2>2, LocatedStays DEF Inv, TypeInv, PositionInv, BufferInv
  <2>4. ContentInv' /\ ResultInv'
    BY <2>1, LocatedStays DEF Inv, ContentInv, ResultInv
  <2> QED BY <2>3, <2>4 DEF Inv
<1> QED BY <1>1, <1>2, <1>3, <1>4 DEF ToolNext, Calls

-----------------------------------------------------------------------------
\* The listing has an entry for every extent behind it, and these cover all
\* records in front of the extent.
ListingInv ==
    /\ listing \in Seq([verify : {"none", "failed", "read"}, start : Int, end : Int, offset : Nat])
    /\ \A i \in 1 .. Len(listing) : listing[i] = Entry(i, listing[i].verify)
    /\ tool = "list" => Len(listing) = extent - 1
    /\ tool # "list" => listing = <<>>
    /\ tool = "list" /\ (step = "output" \/ status = "done") => ~InExtents

CoverInv ==
    tool = "list" =>
        \A frs \in Nat : frs < FirstRecord(extent) =>
            \E i \in 1 .. Len(listing) : frs \in listing[i].start .. listing[i].end

\* What an entry says of an extent.
LEMMA EntryType ==
  ASSUME mft \in Mfts
  PROVE  /\ FirstRecord(1) = 0
         /\ \A i \in 1 .. Len(mft.extents), v \in {"none", "failed", "read"} :
               /\ FirstRecord(i) \in Nat /\ FirstRecord(i + 1) \in Nat
               /\ Entry(i, v) = [verify |-> v, start |-> FirstRecord(i),
                                 end |-> FirstRecord(i + 1) - 1, offset |-> OffsetOf(i)]
               /\ Entry(i, v) \in [verify : {"none", "failed", "read"}, start : Int, end : Int, offset : Nat]
<1> DEFINE q == mft.cluster \div mft.record
<1>1. mft.cluster \in Nat /\ mft.record \in Nat /\ mft.record > 0
  BY MftAssumption
<1>2. q \in Nat
  BY <1>1
<1>3. FirstRecord(1) = 0
  BY <1>2 DEF FirstRecord, PreviousVcn
<1> HIDE DEF q
<1>4. ASSUME NEW i \in 1 .. Len(mft.extents), NEW v \in {"none", "failed", "read"}
      PROVE  /\ FirstRecord(i) \in Nat /\ FirstRecord(i + 1) \in Nat
             /\ Entry(i, v) = [verify |-> v, start |-> FirstRecord(i),
                               end |-> FirstRecord(i + 1) - 1, offset |-> OffsetOf(i)]
             /\ Entry(i, v) \in [verify : {"none", "failed", "read"}, start : Int, end : Int, offset : Nat]
  <2> DEFINE next == mft.extents[i].next
             prev == PreviousVcn(i)
  <2>1. next \in Nat /\ i \in 1 .. Len(mft.extents) + 1 /\ Len(mft.extents) \in Nat /\ OffsetOf(i) \in Nat
    BY ExtentsType, ExtentsMeet
  <2>2. prev \in Nat
    <3>1. CASE i = 1
      BY <3>1 DEF PreviousVcn
    <3>2. CASE i # 1
      <4>1. i - 1 \in 1 .. Len(mft.extents)
        BY <2>1, <3>2
      <4> QED BY <3>2, <4>1, ExtentsType DEF PreviousVcn
    <3> QED BY <3>1, <3>2
  <2>3. FirstRecord(i) = prev * q
    BY DEF FirstRecord, q
  <2>4. FirstRecord(i + 1) = next * q
    <3>1. i + 1 # 1 /\ (i + 1) - 1 = i
      BY <2>1
    <3> QED BY <3>1 DEF FirstRecord, PreviousVcn, q
  <2>5. Entry(i, v) = [verify |-> v, start |-> prev * q, end |-> prev * q + (next - prev) * q - 1,
                       offset |-> OffsetOf(i)]
    BY <2>3 DEF Entry, q
  <2> HIDE DEF next, prev
  <2>6. prev * q \in Nat /\ next * q \in Nat /\ prev * q + (next - prev) * q - 1 = next * q - 1
    <3>1. ASSUME NEW a \in Nat, NEW b \in Nat
          PROVE  a * q \in Nat /\ b * q \in Nat /\ a * q + (b - a) * q - 1 = b * q - 1
      <4>1. a * q \in Nat /\ b * q \in Nat /\ (b - a) * q \in Int
        BY <1>2
      <4>2. a * q + (b - a) * q = b * q
        BY <1>2
      <4> QED BY <4>1, <4>2
    <3>2. next \in Nat
      BY <2>1 DEF next
    <3> QED BY <2>2, <3>1, <3>2
  <2> QED BY <2>1, <2>3, <2>4, <2>5, <2>6
<1> QED BY <1>3, <1>4

\* A whole number of records: division gives it back.
LEMMA WholeRecords ==
  ASSUME NEW a \in Nat, NEW r \in Nat, r > 0
  PROVE  (a * r) \div r = a
OBVIOUS

\* An extent begins with a whole record.
LEMMA StartInRecords ==
  ASSUME mft \in Mfts, mft.cluster % mft.record = 0, NEW k \in 1 .. Len(mft.extents) + 1
  PROVE  FirstRecord(k) \in Nat /\ StartOf(k) = FirstRecord(k) * mft.record
<1> DEFINE q == mft.cluster \div mft.record
           r == mft.record
<1>1. mft.cluster \in Nat /\ r \in Nat /\ r > 0 /\ Len(mft.extents) \in Nat
  BY MftAssumption, ExtentsType
<1>2. q \in Nat /\ mft.cluster = q * r
  BY <1>1
<1>3. PreviousVcn(k) \in Nat
  <2>1. CASE k = 1
    BY <2>1 DEF PreviousVcn
  <2>2. CASE k # 1
    <3>1. k - 1 \in 1 .. Len(mft.extents)
      BY <1>1, <2>2
    <3> QED BY <2>2, <3>1, ExtentsType DEF PreviousVcn
  <2> QED BY <2>1, <2>2
<1>4. StartOf(k) = PreviousVcn(k) * (q * r) /\ FirstRecord(k) = PreviousVcn(k) * q
  BY <1>2 DEF StartOf, FirstRecord
<1> HIDE DEF q, r
<1>5. ASSUME NEW a \in Nat PROVE a * q \in Nat /\ a * (q * r) = (a * q) * r
  BY <1>1, <1>2
<1> QED BY <1>3, <1>4, <1>5 DEF r

\* An entry tells where the records of its extent are.
LEMMA EntryLocates ==
  ASSUME mft \in Mfts, mft.cluster % mft.record = 0,
         NEW i \in 1 .. Len(mft.extents), NEW frs \in Nat,
         FirstRecord(i) <= frs, frs < FirstRecord(i + 1)
  PROVE  Located(frs * mft.record, OffsetOf(i) + (frs - FirstRecord(i)) * mft.record)
<1> DEFINE q == mft.cluster \div mft.record
           r == mft.record
           first == FirstRecord(i)
           behind == FirstRecord(i + 1)
<1>1. mft.cluster \in Nat /\ r \in Nat /\ r > 0
  BY MftAssumption
<1>2. q \in Nat /\ mft.cluster = q * r
  BY <1>1
<1>3. first \in Nat /\ behind \in Nat /\ Len(mft.extents) \in Nat
  BY EntryType, ExtentsType
<1>4. /\ LengthOf(i) \in Nat /\ OffsetOf(i) \in Nat /\ StartOf(i) \in Nat
      /\ StartOf(i + 1) = StartOf(i) + LengthOf(i)
  BY ExtentsMeet
<1>5. ASSUME NEW k \in 1 .. Len(mft.extents) + 1 PROVE StartOf(k) = FirstRecord(k) * r
  BY <1>5, StartInRecords
<1>6. StartOf(i) = first * r /\ StartOf(i) + LengthOf(i) = behind * r
  BY <1>3, <1>4, <1>5
<1> HIDE DEF q, r, first, behind
<1>7. first <= frs /\ frs < behind
  BY DEF first, behind
<1>8. /\ (frs - first) * r \in Nat /\ frs * r = first * r + (frs - first) * r
      /\ (frs - first) * r < behind * r - first * r
  <2>1. ASSUME NEW a \in Nat, NEW b \in Nat, NEW c \in Nat, a <= b, b < c
        PROVE  (b - a) * r \in Nat /\ b * r = a * r + (b - a) * r /\ (b - a) * r < c * r - a * r
    <3>1. (b - a) * r \in Nat /\ b * r = a * r + (b - a) * r
      BY <1>1, <2>1
    <3>2. c * r = b * r + (c - b) * r /\ (c - b) * r >= r
      BY <1>1, <2>1
    <3>3. a * r \in Nat /\ b * r \in Nat /\ c * r \in Nat
      BY <1>1
    <3> QED BY <1>1, <3>1, <3>2, <3>3
  <2> QED BY <1>3, <1>7, <2>1
<1>9. (frs - first) * r < LengthOf(i)
  BY <1>1, <1>3, <1>4, <1>6, <1>8
<1>10. Located(StartOf(i) + (frs - first) * r, OffsetOf(i) + (frs - first) * r)
  BY <1>8, <1>9, PlaceIsLocated
<1> QED BY <1>6, <1>8, <1>10 DEF first, r

\* From the two invariants: the listing is what it should be.
LEMMA ListingLocates ==
  ASSUME TypeInv, ListingInv, CoverInv
  PROVE  ListsEveryRecord
<1> SUFFICES ASSUME mft.cluster % mft.record = 0
             PROVE  /\ \A i \in 1 .. Len(listing) :
                          \A frs \in listing[i].start .. listing[i].end :
                             Located(frs * mft.record, listing[i].offset + (frs - listing[i].start) * mft.record)
                    /\ tool = "list" /\ status = "done" =>
                          \A frs \in 0 .. (Allocated \div mft.record) - 1 :
                             \E i \in 1 .. Len(listing) : frs \in listing[i].start .. listing[i].end
  BY DEF ListsEveryRecord
<1>1. mft \in Mfts /\ extent \in 1 .. Len(mft.extents) + 1 /\ Len(mft.extents) \in Nat
  BY Numbers DEF TypeInv
<1> DEFINE Entries == [verify : {"none", "failed", "read"}, start : Int, end : Int, offset : Nat]
<1>4. listing \in Seq(Entries)
  BY DEF ListingInv
<1>5. /\ Len(listing) \in Nat
      /\ \A i \in 1 .. Len(listing) : listing[i] \in Entries
  <2> HIDE DEF Entries
  <2> QED BY <1>4, SequenceType
<1>6. Len(listing) <= Len(mft.extents)
  <2>1. CASE tool = "list"
    BY <1>1, <2>1 DEF ListingInv
  <2>2. CASE tool # "list"
    BY <1>1, <2>2 DEF ListingInv
  <2> QED BY <2>1, <2>2
<1>2. ASSUME NEW i \in 1 .. Len(listing), NEW frs \in listing[i].start .. listing[i].end
      PROVE  Located(frs * mft.record, listing[i].offset + (frs - listing[i].start) * mft.record)
  <2>1. i \in 1 .. Len(mft.extents)
    BY <1>1, <1>2, <1>5, <1>6
  <2>2. listing[i].verify \in {"none", "failed", "read"} /\ listing[i] = Entry(i, listing[i].verify)
    BY <1>2, <1>5 DEF ListingInv
  <2>3. listing[i].start = FirstRecord(i) /\ listing[i].end = FirstRecord(i + 1) - 1 /\ listing[i].offset = OffsetOf(i)
    <3>1. Entry(i, listing[i].verify) = [verify |-> listing[i].verify, start |-> FirstRecord(i),
                                         end |-> FirstRecord(i + 1) - 1, offset |-> OffsetOf(i)]
      BY <1>1, <2>1, <2>2, EntryType
    <3> QED BY <2>2, <3>1
  <2>4. FirstRecord(i) \in Nat /\ FirstRecord(i + 1) \in Nat
    BY <1>1, <2>1, EntryType
  <2>5. frs \in Nat /\ FirstRecord(i) <= frs /\ frs < FirstRecord(i + 1)
    BY <1>2, <2>3, <2>4
  <2> QED BY <1>1, <2>1, <2>3, <2>5, EntryLocates
<1>3. ASSUME tool = "list", status = "done", NEW frs \in 0 .. (Allocated \div mft.record) - 1
      PROVE  \E i \in 1 .. Len(listing) : frs \in listing[i].start .. listing[i].end
  <2>1. extent = Len(mft.extents) + 1
    BY <1>1, <1>3, Numbers DEF ListingInv
  <2>2. Allocated = FirstRecord(extent) * mft.record
    <3>1. FirstRecord(extent) * mft.record = StartOf(extent)
      BY <1>1, StartInRecords
    <3> QED BY <2>1, <3>1 DEF Allocated
  <2>3. FirstRecord(extent) \in Nat
    BY <1>1, StartInRecords
  <2>4. mft.record \in Nat /\ mft.record > 0
    BY <1>1, MftAssumption
  <2>5. Allocated \div mft.record = FirstRecord(extent)
    BY <2>2, <2>3, <2>4, WholeRecords
  <2>6. frs \in Nat /\ frs < FirstRecord(extent)
    BY <1>3, <2>3, <2>5
  <2> QED BY <1>3, <2>6 DEF CoverInv
<1> QED BY <1>2, <1>3

LEMMA ListingInit == ToolInit => ListingInv /\ CoverInv
<1> SUFFICES ASSUME ToolInit PROVE ListingInv /\ CoverInv
  OBVIOUS
<1>1. listing = <<>> /\ extent = 1 /\ step = "open" /\ status = "none" /\ mft \in Mfts
  BY DEF ToolInit
<1>2. FirstRecord(extent) = 0
  BY <1>1, EntryType
<1> QED BY <1>1, <1>2 DEF ListingInv, CoverInv

\* Numbers and entries are those of the MFT.
LEMMA ListingStays ==
  ASSUME mft' = mft
  PROVE  \A i, v : FirstRecord(i)' = FirstRecord(i) /\ Entry(i, v)' = Entry(i, v)
BY DEF FirstRecord, Entry, PreviousVcn, OffsetOf

\* Only an entry changes the listing; a tool that lists does nothing else to its extent.
LEMMA OthersKeepListing ==
  ASSUME Inv, ListingInv, CoverInv, Calls \/ Loop \/ UNCHANGED toolVars
  PROVE  ListingInv' /\ CoverInv'
<1>1. /\ mft' = mft /\ tool' = tool /\ listing' = listing
      /\ tool = "list" => extent' = extent
  <2>1. CASE Calls
    BY <2>1 DEF Calls, Fails, OpenVolume, QueryVolume, QueryExtents, QuerySize, CreateOutput,
                WriteHeader, ListComplete, WriteListing, ReturnsWith, GoesOnWith, positionVars
  <2>2. CASE Loop
    <3>1. tool # "list"
      BY <2>2 DEF Loop, NextExtent, ReadToDump, WriteDump, ReadToMeasure, Complete, Inv, PositionInv
    <3>2. mft' = mft /\ tool' = tool /\ listing' = listing
      BY <2>2 DEF Loop, NextExtent, ReadToDump, WriteDump, ReadToMeasure, Complete, ReturnsWith,
                  GoesOnWith, positionVars
    <3> QED BY <3>1, <3>2
  <2>3. CASE UNCHANGED toolVars
    BY <2>3 DEF toolVars
  <2> QED BY <2>1, <2>2, <2>3
<1>2. tool' = "list" /\ (step' = "output" \/ status' = "done") => ~InExtents
  <2>1. CASE Calls
    <3>1. CASE ListComplete
      BY <3>1 DEF ListComplete
    <3>2. CASE WriteListing
      BY <1>1, <3>2 DEF WriteListing, ListingInv
    <3>3. CASE ~ListComplete /\ ~WriteListing
      <4>1. step' # "output"
        BY <2>1, <3>3 DEF Calls, Fails, OpenVolume, QueryVolume, QueryExtents, QuerySize, CreateOutput,
                          WriteHeader, ReturnsWith, GoesOnWith, Inv, TypeInv
      <4>2. status' # "done"
        BY <2>1, <3>3 DEF Calls, Fails, OpenVolume, QueryVolume, QueryExtents, QuerySize, CreateOutput,
                          WriteHeader, ReturnsWith, GoesOnWith, Inv, ResultInv
      <4> QED BY <4>1, <4>2
    <3> QED BY <3>1, <3>2, <3>3
  <2>2. CASE Loop
    BY <1>1, <2>2 DEF Loop, NextExtent, ReadToDump, WriteDump, ReadToMeasure, Complete, Inv, PositionInv
  <2>3. CASE UNCHANGED toolVars
    BY <2>3 DEF toolVars, ListingInv
  <2> QED BY <2>1, <2>2, <2>3
<1>3. ListingInv'
  <2>1. tool' = "list" /\ (step' = "output" \/ status' = "done") => ~InExtents'
    BY <1>1, <1>2 DEF InExtents
  <2> QED BY <1>1, <2>1, ListingStays DEF ListingInv
<1>4. CoverInv'
  BY <1>1, ListingStays DEF CoverInv
<1> QED BY <1>3, <1>4

\* One more entry covers the records of one more extent.
LEMMA EntryExtendsListing ==
  ASSUME Inv, ListingInv, CoverInv, ListExtent
  PROVE  ListingInv' /\ CoverInv'
<1> DEFINE Entries == [verify : {"none", "failed", "read"}, start : Int, end : Int, offset : Nat]
<1>1. PICK v \in {"none", "failed", "read"} : listing' = Append(listing, Entry(extent, v))
  BY DEF ListExtent
<1>2. /\ mft' = mft /\ mft \in Mfts /\ tool' = tool /\ tool = "list" /\ step' = "entry" /\ InExtents
      /\ status' = status /\ status = "none" /\ extent' = extent + 1
      /\ extent \in 1 .. Len(mft.extents) /\ Len(mft.extents) \in Nat
  BY Numbers DEF ListExtent, Inv, TypeInv, PositionInv, ResultInv
<1>3. /\ FirstRecord(extent) \in Nat /\ FirstRecord(extent + 1) \in Nat
      /\ Entry(extent, v).verify = v /\ Entry(extent, v).start = FirstRecord(extent)
      /\ Entry(extent, v).end = FirstRecord(extent + 1) - 1
      /\ Entry(extent, v) \in Entries
  <2>1. Entry(extent, v) = [verify |-> v, start |-> FirstRecord(extent),
                            end |-> FirstRecord(extent + 1) - 1, offset |-> OffsetOf(extent)]
    BY <1>2, EntryType
  <2> QED BY <1>2, <2>1, EntryType
<1>4. listing \in Seq(Entries) /\ Len(listing) = extent - 1
  BY <1>2 DEF ListingInv
<1>5. /\ listing' \in Seq(Entries) /\ Len(listing') = extent
      /\ \A i \in 1 .. extent - 1 : listing'[i] = listing[i]
      /\ listing'[extent] = Entry(extent, v)
  <2>1. ASSUME NEW S, NEW e \in Seq(S), NEW x \in S
        PROVE  /\ Append(e, x) \in Seq(S) /\ Len(Append(e, x)) = Len(e) + 1 /\ Len(e) \in Nat
               /\ \A i \in 1 .. Len(e) : Append(e, x)[i] = e[i]
               /\ Append(e, x)[Len(e) + 1] = x
    OBVIOUS
  <2> HIDE DEF Entries
  <2>2. /\ Append(listing, Entry(extent, v)) \in Seq(Entries)
        /\ Len(Append(listing, Entry(extent, v))) = Len(listing) + 1
        /\ \A i \in 1 .. Len(listing) : Append(listing, Entry(extent, v))[i] = listing[i]
        /\ Append(listing, Entry(extent, v))[Len(listing) + 1] = Entry(extent, v)
    BY <1>3, <1>4, <2>1
  <2>3. Len(listing) + 1 = extent
    BY <1>2, <1>4
  <2> QED BY <1>1, <1>4, <2>2, <2>3
<1>6. \A i \in 1 .. Len(listing') : listing'[i] = Entry(i, listing'[i].verify)
  <2> TAKE i \in 1 .. Len(listing')
  <2>1. CASE i = extent
    BY <1>3, <1>5, <2>1
  <2>2. CASE i # extent
    <3>1. i \in 1 .. extent - 1 /\ i \in 1 .. Len(listing)
      BY <1>2, <1>4, <1>5, <2>2
    <3> QED BY <1>5, <3>1 DEF ListingInv
  <2> QED BY <2>1, <2>2
<1>7. ListingInv'
  BY <1>2, <1>5, <1>6, ListingStays DEF ListingInv
<1>8. CoverInv'
  <2> SUFFICES ASSUME NEW frs \in Nat, frs < FirstRecord(extent + 1)
               PROVE  \E i \in 1 .. Len(listing') : frs \in listing'[i].start .. listing'[i].end
    BY <1>2, ListingStays DEF CoverInv
  <2>1. CASE frs < FirstRecord(extent)
    <3>1. PICK i \in 1 .. Len(listing) : frs \in listing[i].start .. listing[i].end
      BY <1>2, <2>1 DEF CoverInv
    <3>2. i \in 1 .. extent - 1 /\ i \in 1 .. Len(listing')
      BY <1>2, <1>4, <1>5
    <3>3. listing'[i] = listing[i]
      BY <1>5, <3>2
    <3> QED BY <3>1, <3>2, <3>3
  <2>2. CASE ~(frs < FirstRecord(extent))
    <3>1. extent \in 1 .. Len(listing')
      BY <1>2, <1>5
    <3>2. frs \in listing'[extent].start .. listing'[extent].end
      BY <1>3, <1>5, <2>2
    <3> QED BY <3>1, <3>2
  <2> QED BY <2>1, <2>2
<1> QED BY <1>7, <1>8

\* Both parts of what the tools promise, from one inductive invariant.
AllInv == Inv /\ ListingInv /\ CoverInv

LEMMA AllPreserved == AllInv /\ [ToolNext]_toolVars => AllInv'
<1> SUFFICES ASSUME AllInv, [ToolNext]_toolVars PROVE AllInv'
  OBVIOUS
<1>1. Inv'
  BY StepPreserves DEF AllInv
<1>2. CASE ListExtent
  BY <1>1, <1>2, EntryExtendsListing DEF AllInv
<1>3. CASE Calls \/ Loop \/ UNCHANGED toolVars
  BY <1>1, <1>3, OthersKeepListing DEF AllInv
<1> QED BY <1>2, <1>3 DEF ToolNext, Calls

(***************************************************************************)
(* For any MFT and any size of reads, with a failure of any call: what the *)
(* raw dump has written is the beginning of the MFT, the benchmark has     *)
(* read what it reports, a tool that succeeds has read all of it, and the  *)
(* listing tells where every record is.                                    *)
(***************************************************************************)
THEOREM ToolsRead == ToolSpec => []ToolsReadTheMft
<1>1. AllInv => ToolsReadTheMft
  <2> SUFFICES ASSUME AllInv PROVE ToolsReadTheMft
    OBVIOUS
  <2>1. ReadsInOrder
    BY DEF AllInv, Inv, ContentInv, ResultInv, ReadsInOrder
  <2>2. ListsEveryRecord
    BY ListingLocates DEF AllInv, Inv
  <2> QED BY <2>1, <2>2 DEF ToolsReadTheMft
<1>2. ToolInit => AllInv
  BY InitHolds, ListingInit DEF AllInv
<1> QED BY <1>1, <1>2, AllPreserved, PTL DEF ToolSpec

-----------------------------------------------------------------------------
(***************************************************************************)
(* The search with a pattern.                                              *)
(***************************************************************************)
Texts == Seq(Characters)

Pieces ==
    [is : {"char"}, char : Characters] \cup [is : {"one", "many"}, crosses : BOOLEAN]
        \cup [is : {"directories"}, least : Nat]

Begins(d, t) == Len(d) =< Len(t) /\ \A i \in 1 .. Len(d) : t[i] = d[i]

\* The least of a set of positions.
LEMMA LeastIs ==
  ASSUME NEW n \in Nat, NEW T \in SUBSET (0 .. n), NEW x \in T, \A y \in T : x =< y
  PROVE  Min(T) = x
<1>1. Min(T) \in T /\ \A q \in T : Min(T) =< q
  BY SmallestExists
<1>2. PICK y : y = Min(T)
  OBVIOUS
<1>3. y \in T /\ y =< x /\ x =< y
  BY <1>1, <1>2
<1>4. y \in Nat /\ x \in Nat
  BY <1>3
<1> QED BY <1>2, <1>3, <1>4

\* What a piece can be.
LEMMA PieceIs ==
  ASSUME NEW p \in Pieces
  PROVE  \/ p.is \in {"char", "one"}
         \/ p.is = "many" /\ p.crosses
         \/ p.is = "many" /\ ~p.crosses
         \/ p.is \notin {"char", "one", "many"}
BY DEF Pieces

\* A piece that reads one character ends behind it or not at all.
LEMMA EndsOne ==
  ASSUME NEW p, p.is \in {"char", "one"}, NEW t, NEW at
  PROVE  Ends(p, t, at) =
            {to \in {at + 1} : /\ to =< Len(t)
                               /\ IF p.is = "char" THEN Lower(t[to]) = Lower(p.char)
                                  ELSE p.crosses \/ t[to] # Separator}
<1>1. CASE p.is = "char"
  BY <1>1 DEF Ends
<1>2. CASE p.is = "one"
  BY <1>2 DEF Ends
<1> QED BY <1>1, <1>2

\* Where the other pieces end.
LEMMA EndsMore ==
  ASSUME NEW p, NEW t, NEW at
  PROVE  /\ (p.is = "many" /\ p.crosses) => Ends(p, t, at) = at .. Len(t)
         /\ (p.is = "many" /\ ~p.crosses) =>
               Ends(p, t, at) = {to \in at .. Len(t) : \A i \in at + 1 .. to : t[i] # Separator}
         /\ p.is \notin {"char", "one", "many"} =>
               Ends(p, t, at) = {to \in at .. Len(t) : AreDirectories(t, at, to, p.least)}
<1>1. ASSUME p.is = "many", p.crosses PROVE Ends(p, t, at) = at .. Len(t)
  BY <1>1 DEF Ends
<1>2. ASSUME p.is = "many", ~p.crosses
      PROVE  Ends(p, t, at) = {to \in at .. Len(t) : \A i \in at + 1 .. to : t[i] # Separator}
  BY <1>2 DEF Ends
<1>3. ASSUME p.is \notin {"char", "one", "many"}
      PROVE  Ends(p, t, at) = {to \in at .. Len(t) : AreDirectories(t, at, to, p.least)}
  <2>1. p.is # "char" /\ p.is # "one" /\ p.is # "many"
    BY <1>3
  <2> QED BY <2>1 DEF Ends
<1> QED BY <1>1, <1>2, <1>3

\* Separators that a piece of directories cannot read past.
Barriers(t, at) == {i \in SeparatorsAfter(t, at) : i = at + 1 \/ t[i - 1] = Separator}

\* The last character a piece reads.
LEMMA FurthestCases ==
  ASSUME NEW p, NEW t, NEW at
  PROVE  /\ p.is \in {"char", "one"} => Furthest(p, t, at) = Min({at + 1, Len(t)})
         /\ (p.is = "many" /\ p.crosses) => Furthest(p, t, at) = Len(t)
         /\ (p.is = "many" /\ ~p.crosses) =>
               Furthest(p, t, at) = Min(SeparatorsAfter(t, at) \cup {Len(t)})
         /\ p.is \notin {"char", "one", "many"} =>
               Furthest(p, t, at) = Min(Barriers(t, at) \cup {Len(t)})
<1>1. ASSUME p.is \in {"char", "one"} PROVE Furthest(p, t, at) = Min({at + 1, Len(t)})
  <2>1. p.is # "many"
    BY <1>1
  <2> QED BY <1>1, <2>1 DEF Furthest
<1>2. ASSUME p.is = "many", p.crosses PROVE Furthest(p, t, at) = Len(t)
  <2>1. p.is \notin {"char", "one"}
    BY <1>2
  <2> QED BY <1>2, <2>1 DEF Furthest
<1>3. ASSUME p.is = "many", ~p.crosses
      PROVE  Furthest(p, t, at) = Min(SeparatorsAfter(t, at) \cup {Len(t)})
  <2>1. p.is \notin {"char", "one"}
    BY <1>3
  <2> QED BY <1>3, <2>1 DEF Furthest
<1>4. ASSUME p.is \notin {"char", "one", "many"}
      PROVE  Furthest(p, t, at) = Min(Barriers(t, at) \cup {Len(t)})
  <2>1. p.is \notin {"char", "one"} /\ p.is # "many"
    BY <1>4
  <2> QED BY <2>1 DEF Furthest, Barriers
<1> QED BY <1>1, <1>2, <1>3, <1>4

\* A piece ends within the text and reads no further; at the end of the text it has read it.
LEMMA PieceReads ==
  ASSUME NEW p \in Pieces, NEW t \in Texts, NEW at \in 0 .. Len(t)
  PROVE  /\ Ends(p, t, at) \subseteq at .. Len(t) /\ Furthest(p, t, at) \in 0 .. Len(t)
         /\ at = Len(t) => Furthest(p, t, at) = Len(t)
<1>1. Len(t) \in Nat /\ SeparatorsAfter(t, at) \subseteq at + 1 .. Len(t)
      /\ Barriers(t, at) \subseteq SeparatorsAfter(t, at)
  BY DEF Texts, SeparatorsAfter, Barriers
<1>2. CASE p.is \in {"char", "one"}
  <2>1. Ends(p, t, at) \subseteq at .. Len(t)
    BY <1>1, <1>2, EndsOne
  <2>2. Furthest(p, t, at) = Min({at + 1, Len(t)})
    BY <1>2, FurthestCases
  <2>3. Min({at + 1, Len(t)}) = IF at = Len(t) THEN Len(t) ELSE at + 1
    <3>1. {at + 1, Len(t)} \in SUBSET (0 .. Len(t) + 1) /\ Len(t) + 1 \in Nat
      BY <1>1
    <3>2. CASE at = Len(t)
      <4>1. \A y \in {at + 1, Len(t)} : Len(t) =< y
        BY <1>1, <3>2
      <4> QED BY <3>1, <3>2, <4>1, LeastIs
    <3>3. CASE at # Len(t)
      <4>1. \A y \in {at + 1, Len(t)} : at + 1 =< y
        BY <1>1, <3>3
      <4> QED BY <3>1, <3>3, <4>1, LeastIs
    <3> QED BY <3>2, <3>3
  <2> QED BY <1>1, <2>1, <2>2, <2>3
<1>3. ASSUME NEW B \in SUBSET (at + 1 .. Len(t))
      PROVE  /\ Min(B \cup {Len(t)}) \in 0 .. Len(t)
             /\ at = Len(t) => Min(B \cup {Len(t)}) = Len(t)
  <2>0. \A i \in B : i \in at + 1 .. Len(t)
    OBVIOUS
  <2>a. \A i \in B : i \in 0 .. Len(t)
    BY <1>1, <2>0
  <2>b. Len(t) \in 0 .. Len(t)
    BY <1>1
  <2>1. B \cup {Len(t)} \in SUBSET (0 .. Len(t)) /\ B \cup {Len(t)} # {}
    BY ONLY <2>a, <2>b
  <2>2. Min(B \cup {Len(t)}) \in B \cup {Len(t)}
    BY <1>1, <2>1, SmallestExists
  <2>3. at = Len(t) => B = {}
    BY <1>1, <2>0
  <2> QED BY <1>1, <2>1, <2>2, <2>3
<1>4. CASE p.is = "many" /\ p.crosses
  <2>1. Ends(p, t, at) = at .. Len(t) /\ Furthest(p, t, at) = Len(t)
    BY <1>4, EndsMore, FurthestCases
  <2> QED BY <1>1, <2>1
<1>5. CASE p.is = "many" /\ ~p.crosses
  <2>1. Ends(p, t, at) \subseteq at .. Len(t)
    BY <1>5, EndsMore
  <2>2. Furthest(p, t, at) = Min(SeparatorsAfter(t, at) \cup {Len(t)})
    BY <1>5, FurthestCases
  <2>3. SeparatorsAfter(t, at) \in SUBSET (at + 1 .. Len(t))
    BY <1>1
  <2> QED BY <1>3, <2>1, <2>2, <2>3
<1>6. CASE p.is \notin {"char", "one", "many"}
  <2>1. Barriers(t, at) \in SUBSET (at + 1 .. Len(t))
    BY <1>1
  <2>2. Ends(p, t, at) \subseteq at .. Len(t)
    BY <1>6, EndsMore
  <2>3. Furthest(p, t, at) = Min(Barriers(t, at) \cup {Len(t)})
    BY <1>6, FurthestCases
  <2> QED BY <1>3, <2>1, <2>2, <2>3
<1> QED BY <1>2, <1>4, <1>5, <1>6, PieceIs

\* A piece that has not read up to the end of a text ends where it does in any longer text.
LEMMA EndsAgree ==
  ASSUME NEW p \in Pieces, NEW d \in Texts, NEW t \in Texts, Begins(d, t), NEW at \in 0 .. Len(d),
         Furthest(p, d, at) < Len(d)
  PROVE  Ends(p, t, at) = Ends(p, d, at)
<1>1. /\ Len(d) \in Nat /\ Len(t) \in Nat /\ Len(d) =< Len(t)
      /\ \A i \in 1 .. Len(d) : t[i] = d[i]
  BY DEF Texts, Begins
<1>2. CASE p.is \in {"char", "one"}
  <2>1. at + 1 =< Len(d)
    <3>1. CASE at = Len(d)
      BY <3>1, PieceReads
    <3> QED BY <1>1, <3>1
  <2>2. at + 1 =< Len(t) /\ t[at + 1] = d[at + 1]
    <3>1. at + 1 \in 1 .. Len(d)
      BY <1>1, <2>1
    <3> QED BY <1>1, <3>1
  <2>3. Ends(p, t, at) = {to \in {at + 1} : /\ to =< Len(t)
                                            /\ IF p.is = "char" THEN Lower(t[to]) = Lower(p.char)
                                               ELSE p.crosses \/ t[to] # Separator}
    BY <1>2, EndsOne
  <2>4. Ends(p, d, at) = {to \in {at + 1} : /\ to =< Len(d)
                                            /\ IF p.is = "char" THEN Lower(d[to]) = Lower(p.char)
                                               ELSE p.crosses \/ d[to] # Separator}
    BY <1>2, EndsOne
  <2> QED BY <2>1, <2>2, <2>3, <2>4
<1>3. ASSUME NEW B \in SUBSET (at + 1 .. Len(d)), Min(B \cup {Len(d)}) < Len(d)
      PROVE  \E i \in B : i < Len(d)
  <2>0. \A i \in B : i \in at + 1 .. Len(d)
    OBVIOUS
  <2>a. \A i \in B : i \in 0 .. Len(d)
    BY <1>1, <2>0
  <2>b. Len(d) \in 0 .. Len(d)
    BY <1>1
  <2>1. B \cup {Len(d)} \in SUBSET (0 .. Len(d)) /\ B \cup {Len(d)} # {}
    BY ONLY <2>a, <2>b
  <2>2. PICK i : i = Min(B \cup {Len(d)})
    OBVIOUS
  <2>3. i \in B \cup {Len(d)} /\ i < Len(d)
    BY <1>1, <1>3, <2>1, <2>2, SmallestExists
  <2>4. i # Len(d)
    BY <1>1, <2>3
  <2> QED BY <2>3, <2>4
<1>4. CASE p.is = "many" /\ p.crosses
  <2>1. Furthest(p, d, at) = Len(d)
    BY <1>4, FurthestCases
  <2> QED BY <1>1, <2>1
<1>5. CASE p.is = "many" /\ ~p.crosses
  <2>1. SeparatorsAfter(d, at) \in SUBSET (at + 1 .. Len(d))
    BY DEF SeparatorsAfter
  <2>2. Min(SeparatorsAfter(d, at) \cup {Len(d)}) < Len(d)
    BY <1>5, FurthestCases
  <2>3. PICK i \in SeparatorsAfter(d, at) : i < Len(d)
    BY <1>3, <2>1, <2>2
  <2>4. i \in at + 1 .. Len(d) /\ d[i] = Separator /\ t[i] = Separator
    BY <1>1, <2>3 DEF SeparatorsAfter
  <2>5. \A to \in at .. Len(t) : (\A j \in at + 1 .. to : t[j] # Separator) => to < i
    BY <1>1, <2>4
  <2>6. \A to \in at .. Len(d) : (\A j \in at + 1 .. to : d[j] # Separator) => to < i
    BY <1>1, <2>4
  <2>7. \A to \in at .. i - 1 : (\A j \in at + 1 .. to : t[j] # Separator)
                                   <=> (\A j \in at + 1 .. to : d[j] # Separator)
    BY <1>1, <2>4
  <2>8. Ends(p, t, at) = {to \in at .. i - 1 : \A j \in at + 1 .. to : t[j] # Separator}
    <3>1. Ends(p, t, at) = {to \in at .. Len(t) : \A j \in at + 1 .. to : t[j] # Separator}
      BY <1>5, EndsMore
    <3> QED BY <1>1, <2>4, <2>5, <3>1
  <2>9. Ends(p, d, at) = {to \in at .. i - 1 : \A j \in at + 1 .. to : d[j] # Separator}
    <3>1. Ends(p, d, at) = {to \in at .. Len(d) : \A j \in at + 1 .. to : d[j] # Separator}
      BY <1>5, EndsMore
    <3> QED BY <1>1, <2>4, <2>6, <3>1
  <2> QED BY <2>7, <2>8, <2>9
<1>6. CASE p.is \notin {"char", "one", "many"}
  <2> DEFINE n == p.least
  <2>1. Barriers(d, at) \in SUBSET (at + 1 .. Len(d))
    BY DEF Barriers, SeparatorsAfter
  <2>2. Min(Barriers(d, at) \cup {Len(d)}) < Len(d)
    BY <1>6, FurthestCases
  <2>3. PICK i \in Barriers(d, at) : i < Len(d)
    BY <1>3, <2>1, <2>2
  <2>4. /\ i \in at + 1 .. Len(d) /\ d[i] = Separator /\ t[i] = Separator
        /\ i = at + 1 \/ (i - 1 \in at + 1 .. Len(d) /\ d[i - 1] = Separator /\ t[i - 1] = Separator)
    BY <1>1, <2>3 DEF Barriers, SeparatorsAfter
  <2>5. ASSUME NEW s \in {d, t}, NEW to \in at .. Len(s), AreDirectories(s, at, to, n) PROVE to < i
    <3>1. SUFFICES ASSUME i =< to PROVE FALSE
      BY <1>1, <2>4
    <3>2. s[i] = Separator /\ i \in at + 1 .. to
      BY <1>1, <2>4, <3>1
    <3>3. CASE i = at + 1
      BY <2>5, <3>2, <3>3 DEF AreDirectories
    <3>4. CASE i # at + 1
      <4>1. i - 1 \in at + 1 .. to /\ s[i - 1] = Separator /\ (i - 1) + 1 = i
        BY <1>1, <2>4, <3>1, <3>4
      <4> QED BY <2>5, <3>2, <4>1 DEF AreDirectories
    <3> QED BY <3>3, <3>4
  <2>7. ASSUME NEW to \in at .. i - 1
        PROVE  AreDirectories(t, at, to, n) <=> AreDirectories(d, at, to, n)
    <3>1. {j \in at + 1 .. to : t[j] = Separator} = {j \in at + 1 .. to : d[j] = Separator}
      BY <1>1, <2>4
    <3> QED BY <3>1 DEF AreDirectories
  <2>8. Ends(p, t, at) = {to \in at .. i - 1 : AreDirectories(t, at, to, n)}
    <3>1. Ends(p, t, at) = {to \in at .. Len(t) : AreDirectories(t, at, to, n)}
      BY <1>6, EndsMore
    <3>2. \A to \in at .. Len(t) : AreDirectories(t, at, to, n) => to < i
      BY <2>5
    <3> QED BY <1>1, <2>4, <3>1, <3>2
  <2>9. Ends(p, d, at) = {to \in at .. i - 1 : AreDirectories(d, at, to, n)}
    <3>1. Ends(p, d, at) = {to \in at .. Len(d) : AreDirectories(d, at, to, n)}
      BY <1>6, EndsMore
    <3>2. \A to \in at .. Len(d) : AreDirectories(d, at, to, n) => to < i
      BY <2>5
    <3> QED BY <1>1, <2>4, <3>1, <3>2
  <2> QED BY <2>7, <2>8, <2>9
<1> QED BY <1>2, <1>4, <1>5, <1>6, PieceIs

-----------------------------------------------------------------------------
IsReaching(r, m, t, n) ==
    r = [k \in 0 .. n |->
            IF k = 0 THEN IF m.search THEN 0 .. Len(t) ELSE {0}
            ELSE UNION {Ends(m.pieces[k], t, at) : at \in r[k - 1]}]

\* The pieces of an expression can be gone through one by one.
LEMMA ReachingExists ==
  ASSUME NEW m, NEW t, NEW n \in Nat
  PROVE  \E r : IsReaching(r, m, t, n)
<1> DEFINE T == {k \in 0 .. n : \E r : IsReaching(r, m, t, k)}
           first == IF m.search THEN 0 .. Len(t) ELSE {0}
<1>1. ASSUME NEW k \in 0 .. n, \A j \in 0 .. k - 1 : j \in T PROVE k \in T
  <2>1. CASE k = 0
    <3> DEFINE f == [i \in 0 .. 0 |-> first]
    <3>1. IsReaching(f, m, t, 0)
      BY DEF IsReaching
    <3> QED BY <2>1, <3>1
  <2>2. CASE k # 0
    <3>1. k - 1 \in 0 .. k - 1
      BY <2>2
    <3>2. PICK g : IsReaching(g, m, t, k - 1)
      BY <1>1, <3>1
    <3>3. g = [i \in 0 .. k - 1 |-> IF i = 0 THEN first
                                    ELSE UNION {Ends(m.pieces[i], t, at) : at \in g[i - 1]}]
      BY <3>2 DEF IsReaching
    <3> DEFINE f == [i \in 0 .. k |-> IF i = 0 THEN first
                                      ELSE UNION {Ends(m.pieces[i], t, at) : at \in g[i - 1]}]
    <3>4. ASSUME NEW i \in 0 .. k - 1 PROVE f[i] = g[i]
      <4>1. i \in 0 .. k
        OBVIOUS
      <4>2. PICK B : B = IF i = 0 THEN first
                         ELSE UNION {Ends(m.pieces[i], t, at) : at \in g[i - 1]}
        OBVIOUS
      <4>3. f[i] = B
        BY <4>1, <4>2
      <4>4. g[i] = B
        BY <3>3, <4>2
      <4> QED BY <4>3, <4>4
    <3>5. ASSUME NEW i \in 0 .. k, i # 0 PROVE f[i - 1] = g[i - 1]
      <4>1. i - 1 \in 0 .. k - 1
        BY <3>5
      <4> QED BY <3>4, <4>1
    <3>6. f = [i \in 0 .. k |-> IF i = 0 THEN first
                                ELSE UNION {Ends(m.pieces[i], t, at) : at \in f[i - 1]}]
      BY <3>5
    <3>7. IsReaching(f, m, t, k)
      BY <3>6 DEF IsReaching
    <3> QED BY <3>7
  <2> QED BY <2>1, <2>2
<1> HIDE DEF T
<1>2. n \in T
  BY <1>1, UpTo
<1> QED BY <1>2 DEF T

\* The positions an expression has reached in a text lie in it.
LEMMA PositionsAre ==
  ASSUME NEW m, m.pieces \in Seq(Pieces), m.search \in BOOLEAN, NEW t \in Texts
  PROVE  LET r == Positions(m, t)
             n == Len(m.pieces)
         IN /\ n \in Nat /\ r[0] = IF m.search THEN 0 .. Len(t) ELSE {0}
            /\ \A k \in 1 .. n : r[k] = UNION {Ends(m.pieces[k], t, at) : at \in r[k - 1]}
            /\ \A k \in 0 .. n : r[k] \subseteq 0 .. Len(t)
<1> DEFINE n == Len(m.pieces)
           r == CHOOSE f : IsReaching(f, m, t, n)
<1>1. n \in Nat /\ Len(t) \in Nat
  BY DEF Texts
<1>2. IsReaching(r, m, t, n)
  BY <1>1, ReachingExists
<1>3. Positions(m, t) = r
  BY DEF Positions, IsReaching
<1> HIDE DEF r
<1>4. r = [k \in 0 .. n |->
              IF k = 0 THEN IF m.search THEN 0 .. Len(t) ELSE {0}
              ELSE UNION {Ends(m.pieces[k], t, at) : at \in r[k - 1]}]
  BY <1>2 DEF IsReaching
<1>5. r[0] = IF m.search THEN 0 .. Len(t) ELSE {0}
  BY <1>1, <1>4
<1>6. \A k \in 1 .. n : r[k] = UNION {Ends(m.pieces[k], t, at) : at \in r[k - 1]}
  <2>1. ASSUME NEW k \in 1 .. n PROVE r[k] = UNION {Ends(m.pieces[k], t, at) : at \in r[k - 1]}
    <3>1. k \in 0 .. n /\ k # 0
      BY <1>1
    <3>2. PICK B : B = UNION {Ends(m.pieces[k], t, at) : at \in r[k - 1]}
      OBVIOUS
    <3>3. r[k] = IF k = 0 THEN IF m.search THEN 0 .. Len(t) ELSE {0}
                 ELSE UNION {Ends(m.pieces[k], t, at) : at \in r[k - 1]}
      BY <1>4, <3>1 DEF n
    <3> QED BY <3>1, <3>3
  <2> QED BY <2>1
<1> DEFINE T == {k \in 0 .. n : r[k] \subseteq 0 .. Len(t)}
<1>7. ASSUME NEW k \in 0 .. n, \A j \in 0 .. k - 1 : j \in T PROVE k \in T
  <2>1. CASE k = 0
    BY <1>1, <1>5, <2>1
  <2>2. CASE k # 0
    <3>1. k \in 1 .. n /\ k - 1 \in 0 .. k - 1
      BY <2>2
    <3>2. r[k - 1] \subseteq 0 .. Len(t)
      BY <1>7, <3>1
    <3>3. m.pieces[k] \in Pieces
      BY <3>1
    <3>4. \A at \in r[k - 1] : Ends(m.pieces[k], t, at) \subseteq 0 .. Len(t)
      <4>1. ASSUME NEW at \in r[k - 1] PROVE Ends(m.pieces[k], t, at) \subseteq 0 .. Len(t)
        <5>1. at \in 0 .. Len(t)
          BY <3>2
        <5>2. Ends(m.pieces[k], t, at) \subseteq at .. Len(t)
          BY <3>3, <5>1, PieceReads
        <5> QED BY <1>1, <5>1, <5>2
      <4> QED BY <4>1
    <3>5. r[k] \subseteq 0 .. Len(t)
      BY <1>6, <3>1, <3>4
    <3> QED BY <3>5
  <2> QED BY <2>1, <2>2
<1> HIDE DEF T, n
<1>8. 0 .. n \subseteq T
  BY ONLY <1>1, <1>7, UpTo
<1>9. \A k \in 0 .. n : r[k] \subseteq 0 .. Len(t)
  BY <1>8 DEF T
<1> QED BY <1>1, <1>3, <1>5, <1>6, <1>9 DEF n

\* No piece has read beyond the mark.
LEMMA MarkIs ==
  ASSUME NEW m, m.pieces \in Seq(Pieces), m.search \in BOOLEAN, NEW t \in Texts
  PROVE  /\ RegexMark(m, t) \in 0 .. Len(t)
         /\ \A k \in 1 .. Len(m.pieces) : \A at \in Positions(m, t)[k - 1] :
               at \in 0 .. Len(t) /\ Furthest(m.pieces[k], t, at) =< RegexMark(m, t)
<1> DEFINE r == Positions(m, t)
           n == Len(m.pieces)
           marks == UNION {{Furthest(m.pieces[k], t, at) : at \in r[k - 1]} : k \in DOMAIN m.pieces}
<1>1. n \in Nat /\ Len(t) \in Nat /\ DOMAIN m.pieces = 1 .. n
  BY DEF Texts
<1>2. \A k \in 0 .. n : r[k] \subseteq 0 .. Len(t)
  BY PositionsAre
<1>3. ASSUME NEW k \in 1 .. n, NEW at \in r[k - 1]
      PROVE  at \in 0 .. Len(t) /\ Furthest(m.pieces[k], t, at) \in 0 .. Len(t)
  <2>1. k - 1 \in 0 .. n /\ m.pieces[k] \in Pieces
    BY <1>1
  <2>2. at \in 0 .. Len(t)
    BY <1>2, <2>1
  <2> QED BY <2>1, <2>2, PieceReads
<1>4. marks \subseteq 0 .. Len(t)
  <2>1. SUFFICES ASSUME NEW x \in marks PROVE x \in 0 .. Len(t)
    OBVIOUS
  <2>2. PICK k \in DOMAIN m.pieces : x \in {Furthest(m.pieces[k], t, at) : at \in r[k - 1]}
    OBVIOUS
  <2>3. PICK at \in r[k - 1] : x = Furthest(m.pieces[k], t, at)
    BY <2>2
  <2>4. k \in 1 .. n
    BY <1>1
  <2> QED BY <1>3, <2>3, <2>4
<1>5. RegexMark(m, t) = Max(marks \cup {0})
  BY DEF RegexMark
<1>6. \A k \in 1 .. n : \A at \in r[k - 1] : Furthest(m.pieces[k], t, at) \in marks
  BY <1>1
<1> HIDE DEF marks
<1>7. marks \cup {0} \in SUBSET (0 .. Len(t)) /\ marks \cup {0} # {}
  BY <1>1, <1>4
<1>8. Max(marks \cup {0}) \in marks \cup {0} /\ \A q \in marks \cup {0} : q =< Max(marks \cup {0})
  BY <1>1, <1>7, GreatestExists
<1>9. RegexMark(m, t) \in 0 .. Len(t) /\ \A q \in marks : q =< RegexMark(m, t)
  BY <1>5, <1>7, <1>8
<1> QED BY <1>3, <1>6, <1>9

\* An expression that has not matched a text nor read up to its end matches no longer text.
LEMMA RegexBeyond ==
  ASSUME NEW m, m.pieces \in Seq(Pieces), m.search \in BOOLEAN,
         NEW d \in Texts, NEW t \in Texts, Begins(d, t),
         ~RegexMatches(m, d), RegexMark(m, d) < Len(d)
  PROVE  ~RegexMatches(m, t)
<1> DEFINE r == Positions(m, d)
           q == Positions(m, t)
           n == Len(m.pieces)
<1>1. n \in Nat /\ Len(d) \in Nat /\ Len(t) \in Nat /\ Len(d) =< Len(t)
  BY DEF Texts, Begins
<1>2. /\ r[0] = IF m.search THEN 0 .. Len(d) ELSE {0}
      /\ \A k \in 1 .. n : r[k] = UNION {Ends(m.pieces[k], d, at) : at \in r[k - 1]}
      /\ \A k \in 0 .. n : r[k] \subseteq 0 .. Len(d)
  BY PositionsAre
<1>3. /\ q[0] = IF m.search THEN 0 .. Len(t) ELSE {0}
      /\ \A k \in 1 .. n : q[k] = UNION {Ends(m.pieces[k], t, at) : at \in q[k - 1]}
  BY PositionsAre
<1>4. RegexMark(m, d) \in 0 .. Len(d)
  BY MarkIs
<1>5. ASSUME NEW k \in 1 .. n, NEW at \in r[k - 1]
      PROVE  at \in 0 .. Len(d) /\ Furthest(m.pieces[k], d, at) < Len(d)
  <2>1. at \in 0 .. Len(d) /\ Furthest(m.pieces[k], d, at) =< RegexMark(m, d)
    BY MarkIs
  <2>2. m.pieces[k] \in Pieces
    BY <1>1
  <2>3. Furthest(m.pieces[k], d, at) \in 0 .. Len(d)
    BY <2>1, <2>2, PieceReads
  <2> QED BY <1>1, <1>4, <2>1, <2>3
<1>6. ~m.search
  <2> SUFFICES ASSUME m.search PROVE FALSE
    OBVIOUS
  <2>1. Len(d) \in r[0]
    BY <1>1, <1>2
  <2>2. CASE n = 0
    BY <2>1, <2>2 DEF RegexMatches
  <2>3. CASE n # 0
    <3>1. 1 \in 1 .. n /\ 1 - 1 = 0 /\ m.pieces[1] \in Pieces
      BY <1>1, <2>3
    <3>2. Len(d) \in 0 .. Len(d) /\ Furthest(m.pieces[1], d, Len(d)) < Len(d)
      BY <1>5, <2>1, <3>1
    <3>3. Furthest(m.pieces[1], d, Len(d)) = Len(d)
      BY <3>1, <3>2, PieceReads
    <3> QED BY <1>1, <3>2, <3>3
  <2> QED BY <2>2, <2>3
<1> DEFINE T == {k \in 0 .. n : q[k] = r[k]}
<1>7. ASSUME NEW k \in 0 .. n, \A j \in 0 .. k - 1 : j \in T PROVE k \in T
  <2>1. CASE k = 0
    BY <1>2, <1>3, <1>6, <2>1
  <2>2. CASE k # 0
    <3>1. k \in 1 .. n /\ k - 1 \in 0 .. k - 1
      BY <2>2
    <3>2. q[k - 1] = r[k - 1]
      BY <1>7, <3>1
    <3>3. m.pieces[k] \in Pieces
      BY <3>1
    <3>4. \A at \in r[k - 1] : Ends(m.pieces[k], t, at) = Ends(m.pieces[k], d, at)
      <4>1. ASSUME NEW at \in r[k - 1] PROVE Ends(m.pieces[k], t, at) = Ends(m.pieces[k], d, at)
        <5>1. at \in 0 .. Len(d) /\ Furthest(m.pieces[k], d, at) < Len(d)
          BY <1>5, <3>1
        <5> QED BY <3>3, <5>1, EndsAgree
      <4> QED BY <4>1
    <3> HIDE DEF q, r
    <3>5. UNION {Ends(m.pieces[k], t, at) : at \in r[k - 1]}
             = UNION {Ends(m.pieces[k], d, at) : at \in r[k - 1]}
      BY <3>4
    <3>6. q[k] = r[k]
      BY <1>2, <1>3, <3>1, <3>2, <3>5
    <3> QED BY <3>6
  <2> QED BY <2>1, <2>2
<1> HIDE DEF T, n
<1>8. n \in T
  BY ONLY <1>1, <1>7, UpTo
<1>9. q[n] = r[n]
  BY <1>8 DEF T
<1>10. Len(d) \notin r[n]
  BY DEF RegexMatches, n
<1> HIDE DEF q, r
<1>11. n \in 0 .. n
  BY <1>1
<1>12. r[n] \subseteq 0 .. Len(d)
  BY <1>2, <1>11
<1>13. Len(t) \notin q[n]
  BY <1>1, <1>9, <1>10, <1>12
<1> QED BY <1>13 DEF RegexMatches, q, n

\* A prefix that a text does not have no longer text has.
LEMMA VerbatimBeyond ==
  ASSUME NEW m, m.body \in Texts, m.begin \in BOOLEAN, m.end \in BOOLEAN,
         NEW d \in Texts, NEW t \in Texts, Begins(d, t),
         ~VerbatimMatches(m, d), VerbatimMark(m, d) < Len(d)
  PROVE  ~VerbatimMatches(m, t)
<1> DEFINE b == Folded(m.body)
<1>1. Len(d) \in Nat /\ Len(t) \in Nat /\ Len(d) =< Len(t) /\ \A i \in 1 .. Len(d) : t[i] = d[i]
  BY DEF Texts, Begins
<1>2. m.end /\ ~m.begin /\ Len(m.body) =< Len(d)
  BY <1>1 DEF VerbatimMark
<1>3. PICK n \in Nat : n = Len(m.body)
  BY DEF Texts
<1>4. Len(b) = n /\ DOMAIN b = 1 .. n
  BY <1>3 DEF Folded, Texts
<1>5. ASSUME NEW s \in Texts
      PROVE  /\ Len(Folded(s)) = Len(s) /\ Len(s) \in Nat
             /\ \A i \in 1 .. Len(s) : Folded(s)[i] = Lower(s[i])
  BY DEF Texts, Folded
<1>6. ASSUME NEW s \in Texts, n =< Len(s)
      PROVE  VerbatimMatches(m, s) <=> SubSeq(Folded(s), 1, n) = b
  <2>1. 0 \in 0 .. Len(s) - n /\ Len(s) - n >= 0
    BY <1>5, <1>6
  <2>2. VerbatimMatches(m, s) <=> \E at \in 0 .. Len(s) - n :
                                     at = 0 /\ SubSeq(Folded(s), at + 1, at + n) = b
    BY <1>2, <1>4, <1>5, <2>1 DEF VerbatimMatches
  <2>3. 0 + 1 = 1 /\ 0 + n = n
    OBVIOUS
  <2> HIDE DEF b
  <2> QED BY <2>1, <2>2, <2>3
<1>7. SubSeq(Folded(t), 1, n) = SubSeq(Folded(d), 1, n)
  <2>1. \A i \in 1 .. n : Folded(t)[i] = Folded(d)[i]
    BY <1>1, <1>2, <1>3, <1>5
  <2>2. SubSeq(Folded(t), 1, n) = [i \in 1 .. n |-> Folded(t)[i]]
        /\ SubSeq(Folded(d), 1, n) = [i \in 1 .. n |-> Folded(d)[i]]
    OBVIOUS
  <2> QED BY <2>1, <2>2
<1>8. n =< Len(d) /\ n =< Len(t)
  BY <1>1, <1>2, <1>3
<1> HIDE DEF b
<1> QED BY <1>6, <1>7, <1>8

Matchers ==
    [kind : {"anything"}]
        \cup [kind : {"verbatim"}, begin : BOOLEAN, end : BOOLEAN, body : Texts]
        \cup [kind : {"regex"}, search : BOOLEAN, pieces : Seq(Pieces)]

\* Whatever a pattern was made into: when it has not matched a directory's path nor looked
\* at its end, it matches nothing that begins with that path.
LEMMA NothingBeyond ==
  ASSUME NEW m \in Matchers, NEW d \in Texts, NEW t \in Texts, Begins(d, t),
         ~IsMatch(m, d), HighWaterMark(m, d) < Len(d)
  PROVE  ~IsMatch(m, t)
<1>1. CASE m.kind = "anything"
  BY <1>1 DEF IsMatch
<1>2. CASE m.kind = "verbatim"
  <2>1. m.begin \in BOOLEAN /\ m.end \in BOOLEAN /\ m.body \in Texts
    BY <1>2 DEF Matchers
  <2>2. ~VerbatimMatches(m, d) /\ VerbatimMark(m, d) < Len(d)
    BY <1>2 DEF IsMatch, HighWaterMark
  <2>3. ~VerbatimMatches(m, t)
    BY <2>1, <2>2, VerbatimBeyond
  <2> QED BY <1>2, <2>3 DEF IsMatch
<1>3. CASE m.kind = "regex"
  <2>1. m.search \in BOOLEAN /\ m.pieces \in Seq(Pieces)
    BY <1>3 DEF Matchers
  <2>0. m.kind # "anything" /\ m.kind # "verbatim"
    BY <1>3
  <2>2. ~RegexMatches(m, d) /\ RegexMark(m, d) < Len(d)
    BY <2>0 DEF IsMatch, HighWaterMark
  <2>3. ~RegexMatches(m, t)
    BY <2>1, <2>2, RegexBeyond
  <2> QED BY <2>0, <2>3 DEF IsMatch
<1>4. m.kind \in {"anything", "verbatim", "regex"}
  BY DEF Matchers
<1> QED BY <1>1, <1>2, <1>3, <1>4

\* Concatenation.
LEMMA TextsJoin ==
  /\ \A c \in Characters : <<c>> \in Texts
  /\ <<>> \in Texts
  /\ \A a \in Texts : a \o <<>> = a
BY ConcatEmptySeq DEF Texts

LEMMA JoinAssociates ==
  ASSUME NEW a \in Texts, NEW b \in Texts, NEW c \in Texts
  PROVE  (a \o b) \o c = a \o (b \o c)
BY ConcatAssociative DEF Texts

\* What a longer text begins with.
LEMMA BeginsConcat ==
  ASSUME NEW a \in Texts, NEW b \in Texts
  PROVE  a \o b \in Texts /\ Begins(a, a \o b)
<1>1. /\ a \o b \in Texts /\ Len(a \o b) = Len(a) + Len(b) /\ Len(a) \in Nat /\ Len(b) \in Nat
      /\ \A i \in 1 .. Len(a) : (a \o b)[i] = a[i]
  BY DEF Texts
<1> QED BY <1>1 DEF Begins

LEMMA BeginsTwice ==
  ASSUME NEW a \in Texts, NEW b \in Texts, NEW c \in Texts, Begins(a, b), Begins(b, c)
  PROVE  Begins(a, c)
<1>1. Len(a) \in Nat /\ Len(b) \in Nat /\ Len(c) \in Nat
  BY DEF Texts
<1> QED BY <1>1 DEF Begins

Parts(names) == [i \in DOMAIN names |-> <<Separator>> \o names[i]]

\* A path is a text.
LEMMA JoinedIs ==
  ASSUME NEW names \in Seq(Texts), NEW isDirectory \in BOOLEAN
  PROVE  /\ FlattenSeq(Parts(names)) \in Texts
         /\ Joined(names, isDirectory) =
               FlattenSeq(Parts(names)) \o IF isDirectory THEN <<Separator>> ELSE <<>>
         /\ <<Separator>> \in Texts /\ <<>> \in Texts
<1>1. <<Separator>> \in Texts /\ <<>> \in Texts
  <2>1. Separator \in Characters
    BY TextAssumption
  <2> QED BY <2>1, TextsJoin
<1>2. Len(names) \in Nat /\ Parts(names) \in [1 .. Len(names) -> Seq(Characters)]
  <2>1. ASSUME NEW i \in DOMAIN names PROVE <<Separator>> \o names[i] \in Seq(Characters)
    <3>1. names[i] \in Seq(Characters)
      BY DEF Texts
    <3>2. <<Separator>> \in Seq(Characters)
      BY <1>1 DEF Texts
    <3> QED BY <3>1, <3>2
  <2>2. DOMAIN names = 1 .. Len(names) /\ Len(names) \in Nat
    OBVIOUS
  <2> QED BY <2>1, <2>2 DEF Parts
<1>3. FlattenSeq(Parts(names)) \in Texts
  <2>1. FlattenSeq(Parts(names)) \in Seq(Characters)
    BY ONLY <1>2, FlattenIs
  <2> QED BY <2>1 DEF Texts
<1> QED BY <1>1, <1>3 DEF Joined, Parts

\* The path of an entry begins with that of its directory, the separator included.
LEMMA JoinedGrows ==
  ASSUME NEW names \in Seq(Texts), NEW name \in Texts, NEW root \in Texts,
         NEW b \in BOOLEAN, NEW c \in BOOLEAN
  PROVE  /\ Append(names, name) \in Seq(Texts)
         /\ root \o Joined(names, b) \in Texts
         /\ root \o Joined(Append(names, name), c) \in Texts
         /\ Begins(root \o Joined(names, b), root \o Joined(Append(names, name), c))
<1> DEFINE more == Append(names, name)
           sep == <<Separator>>
           s == FlattenSeq(Parts(names))
           u == FlattenSeq(Parts(more))
           n == Len(names)
<1>1. more \in Seq(Texts) /\ n \in Nat /\ Len(more) = n + 1
      /\ DOMAIN names = 1 .. n /\ DOMAIN more = 1 .. n + 1
      /\ (\A i \in 1 .. n : more[i] = names[i]) /\ more[n + 1] = name
  OBVIOUS
<1> HIDE DEF more
<1>2. /\ s \in Texts /\ Joined(names, b) = s \o IF b THEN <<Separator>> ELSE <<>>
      /\ <<Separator>> \in Texts /\ <<>> \in Texts
  BY JoinedIs
<1>3. u \in Texts /\ Joined(more, c) = u \o IF c THEN <<Separator>> ELSE <<>>
  BY <1>1, JoinedIs
<1>4. u = s \o (sep \o name)
  <2>1. ASSUME NEW q \in Seq(Texts)
        PROVE  Parts(q) \in [1 .. Len(q) -> Seq(Characters)]
    <3>1. ASSUME NEW i \in DOMAIN q PROVE <<Separator>> \o q[i] \in Seq(Characters)
      <4>1. q[i] \in Seq(Characters)
        BY DEF Texts
      <4>2. <<Separator>> \in Seq(Characters)
        BY <1>2 DEF Texts
      <4> QED BY <4>1, <4>2
    <3>2. DOMAIN q = 1 .. Len(q)
      OBVIOUS
    <3> QED BY <3>1, <3>2 DEF Parts
  <2>2. Parts(names) \in [1 .. n -> Seq(Characters)]
    BY <2>1
  <2>3. Parts(more) \in [1 .. n + 1 -> Seq(Characters)]
    BY <1>1, <2>1
  <2>4. \A i \in 1 .. n : Parts(more)[i] = Parts(names)[i]
    BY <1>1 DEF Parts
  <2>5. Parts(more)[n + 1] = sep \o name
    BY <1>1 DEF Parts
  <2>6. FlattenSeq(Parts(more)) = FlattenSeq(Parts(names)) \o Parts(more)[n + 1]
    BY ONLY <1>1, <2>2, <2>3, <2>4, FlattenPush
  <2> QED BY <2>5, <2>6
<1> HIDE DEF s, u
<1>5. PICK x \in Texts : x = IF b THEN <<Separator>> ELSE <<>>
  BY <1>2
<1>6. PICK y \in Texts : y = IF c THEN <<Separator>> ELSE <<>>
  BY <1>2
<1> DEFINE lo == root \o s
           hi == lo \o (sep \o name)
<1>7. lo \in Texts /\ sep \in Texts /\ sep \o name \in Texts /\ hi \in Texts
  <2>1. lo \in Texts
    BY <1>2, BeginsConcat
  <2>2. sep \in Texts
    BY <1>2
  <2>3. sep \o name \in Texts
    BY <2>2, BeginsConcat
  <2> HIDE DEF lo, sep
  <2> QED BY <2>1, <2>2, <2>3, BeginsConcat
<1>8. root \o Joined(names, b) = lo \o x
  <2>1. root \o (s \o x) = (root \o s) \o x
    BY <1>2, JoinAssociates
  <2> QED BY <1>2, <1>5, <2>1
<1>9. root \o Joined(more, c) = hi \o y
  <2>1. root \o ((s \o (sep \o name)) \o y) = ((root \o s) \o (sep \o name)) \o y
    <3>1. PICK z \in Texts : z = sep \o name
      BY <1>7
    <3>2. s \o z \in Texts
      BY <1>2, <3>1, BeginsConcat
    <3>3. root \o ((s \o z) \o y) = (root \o (s \o z)) \o y
      BY <1>6, <3>2, JoinAssociates
    <3>4. root \o (s \o z) = (root \o s) \o z
      <4>1. root \in Texts /\ s \in Texts
        BY <1>2
      <4> QED BY ONLY <3>1, <4>1, JoinAssociates
    <3> QED BY <3>1, <3>3, <3>4
  <2> QED BY <1>3, <1>4, <1>6, <2>1
<1>10. Begins(lo \o x, hi)
  <2>1. CASE b
    <3>1. Begins(lo \o sep, (lo \o sep) \o name)
      BY <1>7, BeginsConcat
    <3>2. (lo \o sep) \o name = lo \o (sep \o name)
      <4>1. PICK v \in Texts : v = sep
        BY <1>7
      <4>2. name \in Texts /\ lo \in Texts
        BY <1>7
      <4> HIDE DEF lo, sep
      <4>3. (lo \o v) \o name = lo \o (v \o name)
        BY ONLY <4>1, <4>2, JoinAssociates
      <4> QED BY <4>1, <4>3
    <3> QED BY <1>5, <2>1, <3>1, <3>2
  <2>2. CASE ~b
    <3>1. lo \o x = lo
      BY <1>5, <1>7, <2>2 DEF Texts
    <3>2. Begins(lo, lo \o (sep \o name))
      BY <1>7, BeginsConcat
    <3> QED BY <3>1, <3>2
  <2> QED BY <2>1, <2>2
<1>11. lo \o x \in Texts /\ hi \o y \in Texts /\ Begins(hi, hi \o y)
  BY <1>5, <1>6, <1>7, BeginsConcat
<1>12. Begins(lo \o x, hi \o y)
  BY <1>7, <1>10, <1>11, BeginsTwice
<1> HIDE DEF lo, hi
<1> QED BY <1>1, <1>8, <1>9, <1>11, <1>12 DEF more

\* The path of a directory with and without its separator.
LEMMA JoinedOpen ==
  ASSUME NEW names \in Seq(Texts), NEW root \in Texts, NEW b \in BOOLEAN
  PROVE  Begins(root \o Joined(names, FALSE), root \o Joined(names, b))
<1> DEFINE s == FlattenSeq(Parts(names))
<1>1. /\ s \in Texts /\ Joined(names, b) = s \o IF b THEN <<Separator>> ELSE <<>>
      /\ <<Separator>> \in Texts /\ <<>> \in Texts
  BY JoinedIs
<1>2. Joined(names, FALSE) = s \o <<>>
  BY JoinedIs
<1> HIDE DEF s
<1>3. PICK x \in Texts : x = IF b THEN <<Separator>> ELSE <<>>
  BY <1>1
<1>4. root \o Joined(names, FALSE) = root \o s /\ root \o Joined(names, b) = (root \o s) \o x
  <2>1. s \o <<>> = s
    BY <1>1, TextsJoin
  <2>2. root \o (s \o x) = (root \o s) \o x
    BY <1>1, <1>3, JoinAssociates
  <2> QED BY <1>1, <1>2, <1>3, <2>1, <2>2
<1>5. root \o s \in Texts
  BY <1>1, BeginsConcat
<1> QED BY <1>3, <1>4, <1>5, BeginsConcat

\* Taking a part of a text.
LEMMA PartIs ==
  ASSUME NEW s \in Texts, NEW m \in Nat \ {0}, NEW n \in Int, n =< Len(s)
  PROVE  SubSeq(s, m, n) \in Texts
<1>1. CASE m =< n
  BY <1>1 DEF Texts
<1>2. CASE ~(m =< n)
  <2>1. SubSeq(s, m, n) = <<>>
    BY <1>2 DEF Texts
  <2> QED BY <2>1, TextsJoin
<1> QED BY <1>1, <1>2

\* The run a text begins with is as long as a number.
LEMMA StarsIs ==
  ASSUME NEW s \in Texts
  PROVE  LeadingStars(s) \in Nat
<1> DEFINE I == {i \in 1 .. Len(s) : s[i] # Star}
<1>1. Len(s) \in Nat /\ DOMAIN s = 1 .. Len(s)
  BY DEF Texts
<1>2. CASE Range(s) \subseteq {Star}
  BY <1>1, <1>2 DEF LeadingStars
<1>3. CASE ~(Range(s) \subseteq {Star})
  <2>1. I # {}
    BY <1>1, <1>3 DEF Range
  <2>2. LeadingStars(s) = Min(I) - 1
    BY <1>3, <2>1 DEF LeadingStars, SelectInSeq
  <2>3. I \in SUBSET (0 .. Len(s))
    BY <1>1
  <2> HIDE DEF I
  <2>4. Min(I) \in I
    BY <1>1, <2>1, <2>3, SmallestExists
  <2>5. Min(I) \in 1 .. Len(s)
    BY <2>4 DEF I
  <2> QED BY <1>1, <2>2, <2>5
<1> QED BY <1>2, <1>3

\* Taking off asterisks leaves a text.
LEMMA StripIs ==
  ASSUME NEW pattern \in Texts, NEW minwild \in {1, 2}
  PROVE  /\ Strip(pattern, minwild).body \in Texts
         /\ Strip(pattern, minwild).begin \in BOOLEAN
         /\ Strip(pattern, minwild).end \in BOOLEAN
<1> DEFINE prefix == LeadingStars(pattern)
           suffix == LeadingStars(Reverse(pattern))
           kept == IF suffix >= minwild
                   THEN SubSeq(pattern, 1, Len(pattern) - suffix) ELSE pattern
           front == Min({prefix, Len(kept)})
           cut == IF front >= minwild THEN SubSeq(kept, front + 1, Len(kept)) ELSE kept
<1>1. Len(pattern) \in Nat /\ Reverse(pattern) \in Texts
  BY ReverseIs DEF Texts
<1>2. prefix \in Nat /\ suffix \in Nat
  BY <1>1, StarsIs
<1>3. kept \in Texts
  <2> HIDE DEF suffix
  <2>1. Len(pattern) - suffix \in Int /\ Len(pattern) - suffix =< Len(pattern) /\ 1 \in Nat \ {0}
    BY <1>1, <1>2
  <2>2. SubSeq(pattern, 1, Len(pattern) - suffix) \in Texts
    BY <2>1, PartIs
  <2> QED BY <2>2
<1>4. /\ Strip(pattern, minwild).body = cut
      /\ Strip(pattern, minwild).begin = (prefix >= minwild)
      /\ Strip(pattern, minwild).end = (suffix >= minwild)
  BY DEF Strip
<1> HIDE DEF kept, prefix, suffix
<1>5. Len(kept) \in Nat
  BY <1>3 DEF Texts
<1>6. front \in Nat
  <2>1. {prefix, Len(kept)} \in SUBSET (0 .. prefix + Len(kept)) /\ prefix + Len(kept) \in Nat
    BY <1>2, <1>5
  <2>2. Min({prefix, Len(kept)}) \in {prefix, Len(kept)}
    BY <2>1, SmallestExists
  <2> QED BY <1>2, <1>5, <2>2
<1> HIDE DEF front
<1>7. SubSeq(kept, front + 1, Len(kept)) \in Texts
  <2>1. front + 1 \in Nat \ {0} /\ Len(kept) \in Int /\ Len(kept) =< Len(kept)
    BY <1>5, <1>6
  <2> QED BY <1>3, <2>1, PartIs
<1>8. cut \in Texts
  BY <1>3, <1>7
<1> QED BY <1>4, <1>8

\* Doubling asterisks leaves a text.
LEMMA DoubledIs ==
  ASSUME NEW body \in Texts
  PROVE  Doubled(body) \in Texts
<1> DEFINE s == [i \in DOMAIN body |-> IF body[i] = Star THEN <<Star, Star>> ELSE <<body[i]>>]
<1>1. Len(body) \in Nat /\ DOMAIN body = 1 .. Len(body)
  BY DEF Texts
<1>2. ASSUME NEW i \in DOMAIN body
      PROVE  (IF body[i] = Star THEN <<Star, Star>> ELSE <<body[i]>>) \in Seq(Characters)
  <2>1. body[i] \in Characters
    BY DEF Texts
  <2>2. <<body[i], body[i]>> \in Seq(Characters) /\ <<body[i]>> \in Seq(Characters)
    BY <2>1
  <2> QED BY <2>2
<1>3. s \in [1 .. Len(body) -> Seq(Characters)]
  BY <1>1, <1>2
<1>4. Doubled(body) = FlattenSeq(s)
  BY DEF Doubled
<1> HIDE DEF s
<1>5. FlattenSeq(s) \in Seq(Characters)
  BY ONLY <1>1, <1>3, FlattenIs
<1> QED BY <1>4, <1>5 DEF Texts

-----------------------------------------------------------------------------
At(body, i) == IF i \in DOMAIN body THEN body[i] ELSE ""
Group(body, i) == At(body, i) = Star /\ At(body, i + 1) = Star /\ At(body, i + 2) = Separator
More(body, i) == Max({n \in 0 .. Len(body) : \A k \in 1 .. n : Group(body, i + 3 * k)})

\* What is made of a body from one position on, if f says it of the later ones.
Rest(f, body, wild, i) ==
    CASE i > Len(body) -> <<>>
      [] At(body, i) = Question -> <<One(wild = 1)>> \o f[i + 1]
      [] At(body, i) \notin {Question, Star} /\ i =< Len(body) -> <<Char(At(body, i))>> \o f[i + 1]
      [] At(body, i) = Star /\ wild = 1 -> <<Many(TRUE)>> \o f[i + 1]
      [] At(body, i) = Star /\ wild = 2 /\ At(body, i + 1) # Star -> <<Many(FALSE)>> \o f[i + 1]
      [] At(body, i) = Star /\ wild = 2 /\ Group(body, i) /\ At(body, i - 1) = Separator ->
            <<Directories(More(body, i))>> \o f[i + 3 + 3 * More(body, i)]
      [] OTHER -> <<Many(TRUE)>> \o f[i + 2]

IsTranslating(f, body, wild, lo) == f = [i \in lo .. Len(body) + 2 |-> Rest(f, body, wild, i)]

\* The groups that follow one end within the body.
LEMMA MoreIs ==
  ASSUME NEW body \in Texts, NEW i \in 1 .. Len(body), Group(body, i)
  PROVE  More(body, i) \in Nat /\ i + 3 + 3 * More(body, i) =< Len(body) + 2
<1> DEFINE I == {n \in 0 .. Len(body) : \A k \in 1 .. n : Group(body, i + 3 * k)}
           m == More(body, i)
<1>1. Len(body) \in Nat /\ DOMAIN body = 1 .. Len(body) /\ i \in Nat
  BY DEF Texts
<1>2. ASSUME NEW j \in Int, Group(body, j) PROVE j + 2 =< Len(body)
  <2>1. "" # Separator
    BY DEF Separator
  <2>2. At(body, j + 2) = Separator
    BY <1>2 DEF Group
  <2>3. j + 2 \in DOMAIN body
    BY <2>1, <2>2 DEF At
  <2> QED BY <1>1, <2>3
<1>3. 0 \in I
  BY <1>1
<1>4. m = Max(I)
  BY DEF More
<1>5. I \in SUBSET (0 .. Len(body))
  OBVIOUS
<1> HIDE DEF I, m
<1>6. m \in I
  BY <1>1, <1>3, <1>4, <1>5, GreatestExists
<1>7. m \in 0 .. Len(body) /\ \A k \in 1 .. m : Group(body, i + 3 * k)
  BY <1>6 DEF I
<1>8. i + 3 * m + 2 =< Len(body)
  <2>1. CASE m = 0
    <3>1. i + 2 =< Len(body)
      BY <1>1, <1>2
    <3> QED BY <1>1, <2>1, <3>1
  <2>2. CASE m # 0
    <3>1. m \in 1 .. m /\ i + 3 * m \in Int
      BY <1>1, <1>7, <2>2
    <3>2. Group(body, i + 3 * m)
      BY <1>7, <3>1
    <3> QED BY <1>2, <3>1, <3>2
  <2> QED BY <2>1, <2>2
<1>9. m \in Nat /\ i + 3 + 3 * m =< Len(body) + 2
  BY <1>1, <1>7, <1>8
<1> QED BY <1>9 DEF m

\* Nothing is made of what follows the body.
LEMMA RestBeyond ==
  ASSUME NEW body \in Texts, NEW wild, NEW i \in Int, i > Len(body)
  PROVE  \A f : Rest(f, body, wild, i) = <<>>
<1>1. i \notin DOMAIN body /\ ~(i =< Len(body))
  BY DEF Texts
<1>2. At(body, i) = ""
  BY <1>1 DEF At
<1>3. At(body, i) # Question /\ At(body, i) # Star
  BY <1>2 DEF Question, Star
<1> QED BY <1>1, <1>3 DEF Rest

\* Every position makes one piece and goes on at a later position.
LEMMA RestIs ==
  ASSUME NEW body \in Texts, NEW wild \in {1, 2}, NEW i \in 1 .. Len(body)
  PROVE  \E p \in Pieces, to \in i + 1 .. Len(body) + 2 :
            \A f : Rest(f, body, wild, i) = <<p>> \o f[to]
<1>1. Len(body) \in Nat /\ DOMAIN body = 1 .. Len(body) /\ i \in Nat /\ ~(i > Len(body))
      /\ At(body, i) = body[i] /\ body[i] \in Characters
  <2>1. Len(body) \in Nat /\ DOMAIN body = 1 .. Len(body) /\ body[i] \in Characters
    BY DEF Texts
  <2> QED BY <2>1 DEF At
<1>2. i + 1 \in i + 1 .. Len(body) + 2 /\ i + 2 \in i + 1 .. Len(body) + 2
  BY <1>1
<1>3. /\ \A b \in BOOLEAN : One(b) \in Pieces /\ Many(b) \in Pieces
      /\ \A c \in Characters : Char(c) \in Pieces
      /\ \A n \in Nat : Directories(n) \in Pieces
  BY DEF Pieces, One, Many, Char, Directories
<1>4. Question # Star
  BY DEF Question, Star
<1>5. CASE At(body, i) = Question
  <2>1. One(wild = 1) \in Pieces
    BY <1>3
  <2>2. \A f : Rest(f, body, wild, i) = <<One(wild = 1)>> \o f[i + 1]
    <3>1. ASSUME NEW f PROVE Rest(f, body, wild, i) = <<One(wild = 1)>> \o f[i + 1]
      <4>1. At(body, i) # Star /\ At(body, i) \in {Question, Star}
        BY <1>4, <1>5
      <4> QED BY <1>1, <1>5, <4>1, Zenon DEF Rest
    <3> QED BY <3>1
  <2> QED BY <1>2, <2>1, <2>2
<1>6. CASE At(body, i) \notin {Question, Star}
  <2>1. Char(At(body, i)) \in Pieces
    BY <1>1, <1>3
  <2>2. \A f : Rest(f, body, wild, i) = <<Char(At(body, i))>> \o f[i + 1]
    BY <1>1, <1>6 DEF Rest
  <2> QED BY <1>2, <2>1, <2>2
<1>7. CASE At(body, i) = Star /\ wild = 1
  <2>2. \A f : Rest(f, body, wild, i) = <<Many(TRUE)>> \o f[i + 1]
    BY <1>1, <1>4, <1>7 DEF Rest
  <2> QED BY <1>2, <1>3, <2>2
<1>8. CASE At(body, i) = Star /\ wild = 2 /\ At(body, i + 1) # Star
  <2>1. wild # 1 /\ At(body, i) # Question /\ ~Group(body, i)
    BY <1>4, <1>8 DEF Group
  <2>2. \A f : Rest(f, body, wild, i) = <<Many(FALSE)>> \o f[i + 1]
    BY <1>1, <1>8, <2>1 DEF Rest
  <2> QED BY <1>2, <1>3, <2>2
<1>9. CASE At(body, i) = Star /\ wild = 2 /\ At(body, i + 1) = Star
  <2>1. CASE Group(body, i) /\ At(body, i - 1) = Separator
    <3>1. More(body, i) \in Nat /\ i + 3 + 3 * More(body, i) =< Len(body) + 2
      BY <2>1, MoreIs
    <3>2. Directories(More(body, i)) \in Pieces
      BY <1>3, <3>1
    <3>3. i + 3 + 3 * More(body, i) \in i + 1 .. Len(body) + 2
      BY <1>1, <3>1
    <3>4. \A f : Rest(f, body, wild, i) =
                    <<Directories(More(body, i))>> \o f[i + 3 + 3 * More(body, i)]
      BY <1>1, <1>4, <1>9, <2>1 DEF Rest
    <3> QED BY <3>2, <3>3, <3>4
  <2>2. CASE ~(Group(body, i) /\ At(body, i - 1) = Separator)
    <3>1. \A f : Rest(f, body, wild, i) = <<Many(TRUE)>> \o f[i + 2]
      BY <1>1, <1>4, <1>9, <2>2 DEF Rest
    <3> QED BY <1>2, <1>3, <3>1
  <2> QED BY <2>1, <2>2
<1> QED BY <1>5, <1>6, <1>7, <1>8, <1>9

\* The translation can be made from the end on, and makes pieces.
LEMMA TranslatingExists ==
  ASSUME NEW body \in Texts, NEW wild \in {1, 2}, NEW n \in 0 .. Len(body) + 1
  PROVE  \E f : IsTranslating(f, body, wild, Len(body) + 2 - n)
<1> DEFINE L == Len(body)
           T == {k \in 0 .. L + 1 : \E f : IsTranslating(f, body, wild, L + 2 - k)}
<1>1. L \in Nat
  BY DEF Texts
<1> HIDE DEF L
<1>2. ASSUME NEW k \in 0 .. L + 1, \A j \in 0 .. k - 1 : j \in T PROVE k \in T
  <2> DEFINE lo == L + 2 - k
  <2>1. CASE k = 0
    <3> DEFINE f == [i \in L + 2 .. L + 2 |-> <<>>]
    <3>1. \A i \in L + 2 .. L + 2 : Rest(f, body, wild, i) = <<>>
      <4>1. \A i \in L + 2 .. L + 2 : i \in Int /\ i > L
        BY <1>1
      <4> HIDE DEF f
      <4> QED BY <4>1, RestBeyond DEF L
    <3>2. f = [i \in L + 2 .. L + 2 |-> Rest(f, body, wild, i)]
      BY <3>1
    <3>3. L + 2 - 0 = L + 2
      BY <1>1
    <3>4. IsTranslating(f, body, wild, L + 2)
      BY <3>2 DEF IsTranslating, L
    <3> QED BY <2>1, <3>3, <3>4
  <2>2. CASE k # 0
    <3>1. k - 1 \in 0 .. k - 1 /\ L + 2 - (k - 1) = lo + 1
      BY <1>1, <2>2
    <3>2. PICK g : IsTranslating(g, body, wild, lo + 1)
      BY <1>2, <3>1
    <3>3. g = [i \in lo + 1 .. L + 2 |-> Rest(g, body, wild, i)]
      BY <3>2 DEF IsTranslating, L
    <3> DEFINE f == [i \in lo .. L + 2 |-> Rest(g, body, wild, i)]
    <3>4. ASSUME NEW i \in lo + 1 .. L + 2 PROVE f[i] = g[i]
      <4>1. i \in lo .. L + 2
        BY <1>1
      <4>2. PICK B : B = Rest(g, body, wild, i)
        OBVIOUS
      <4>3. f[i] = B
        BY <4>1, <4>2
      <4>4. g[i] = B
        BY <3>3, <4>2
      <4> QED BY <4>3, <4>4
    <3> HIDE DEF f
    <3>5. ASSUME NEW i \in lo .. L + 2 PROVE Rest(f, body, wild, i) = Rest(g, body, wild, i)
      <4>1. CASE i > L
        <5>1. i \in Int
          BY <1>1
        <5> QED BY <4>1, <5>1, RestBeyond DEF L
      <4>2. CASE ~(i > L)
        <5>1. i \in 1 .. L
          BY <1>1, <4>2
        <5>2. PICK p \in Pieces, to \in i + 1 .. L + 2 :
                      \A h : Rest(h, body, wild, i) = <<p>> \o h[to]
          BY <5>1, RestIs DEF L
        <5>3. to \in lo + 1 .. L + 2
          BY <1>1, <5>2
        <5>4. f[to] = g[to]
          BY <3>4, <5>3
        <5> QED BY <5>2, <5>4
      <4> QED BY <4>1, <4>2
    <3>6. f = [i \in lo .. L + 2 |-> Rest(f, body, wild, i)]
      BY <3>5 DEF f
    <3>7. IsTranslating(f, body, wild, lo)
      BY <3>6 DEF IsTranslating, L
    <3> QED BY <3>7
  <2> QED BY <2>1, <2>2
<1> HIDE DEF T
<1>3. L + 1 \in Nat
  BY <1>1
<1>4. 0 .. L + 1 \subseteq T
  BY ONLY <1>2, <1>3, UpTo
<1>5. n \in T
  BY <1>4 DEF L
<1> QED BY <1>5 DEF T, L

LEMMA TranslatedIs ==
  ASSUME NEW body \in Texts, NEW wild \in {1, 2}
  PROVE  Translated(body, wild) \in Seq(Pieces)
<1> DEFINE L == Len(body)
           from == CHOOSE f : IsTranslating(f, body, wild, 1)
<1>1. L \in Nat
  BY DEF Texts
<1>2. IsTranslating(from, body, wild, 1)
  <2>1. L + 1 \in 0 .. L + 1 /\ L + 2 - (L + 1) = 1
    BY <1>1
  <2>2. \E f : IsTranslating(f, body, wild, 1)
    BY <2>1, TranslatingExists
  <2> QED BY <2>2
<1>3. Translated(body, wild) = from[1]
  BY DEF Translated, IsTranslating, Rest, At, Group, More
<1> HIDE DEF from, L
<1>4. from = [i \in 1 .. L + 2 |-> Rest(from, body, wild, i)]
  BY <1>2 DEF IsTranslating, L
<1>5. \A i \in 1 .. L + 2 : from[i] = Rest(from, body, wild, i)
  <2>1. ASSUME NEW i \in 1 .. L + 2 PROVE from[i] = Rest(from, body, wild, i)
    <3>1. PICK B : B = Rest(from, body, wild, i)
      OBVIOUS
    <3>2. from[i] = B
      BY <1>4, <3>1
    <3> QED BY <3>1, <3>2
  <2> QED BY <2>1
<1> DEFINE T == {k \in 0 .. L + 1 : from[L + 2 - k] \in Seq(Pieces)}
<1>6. ASSUME NEW k \in 0 .. L + 1, \A j \in 0 .. k - 1 : j \in T PROVE k \in T
  <2> DEFINE i == L + 2 - k
  <2>1. i \in 1 .. L + 2 /\ from[i] = Rest(from, body, wild, i)
    BY <1>1, <1>5
  <2>2. CASE i > L
    <3>1. i \in Int
      BY <1>1
    <3>2. Rest(from, body, wild, i) = <<>>
      BY <2>2, <3>1, RestBeyond DEF L
    <3>3. <<>> \in Seq(Pieces)
      OBVIOUS
    <3> HIDE DEF i
    <3>4. from[i] \in Seq(Pieces)
      BY <2>1, <3>2, <3>3
    <3> QED BY <3>4 DEF i
  <2>3. CASE ~(i > L)
    <3>1. i \in 1 .. L
      BY <1>1, <2>1, <2>3
    <3>2. PICK p \in Pieces, to \in i + 1 .. L + 2 :
                  \A h : Rest(h, body, wild, i) = <<p>> \o h[to]
      BY <3>1, RestIs DEF L
    <3>3. L + 2 - to \in 0 .. k - 1 /\ L + 2 - (L + 2 - to) = to
      BY <1>1, <3>1, <3>2
    <3>4. from[to] \in Seq(Pieces)
      <4>1. L + 2 - to \in T
        BY <1>6, <3>3
      <4> QED BY <3>3, <4>1
    <3>5. from[i] = <<p>> \o from[to]
      BY <2>1, <3>2
    <3>6. PICK s \in Seq(Pieces) : s = from[to]
      BY <3>4
    <3>7. <<p>> \in Seq(Pieces)
      OBVIOUS
    <3>8. <<p>> \o s \in Seq(Pieces)
      BY <3>7
    <3>9. from[i] \in Seq(Pieces)
      BY <3>5, <3>6, <3>8
    <3> QED BY <3>9
  <2> QED BY <2>2, <2>3
<1> HIDE DEF T
<1>7. L + 1 \in Nat
  BY <1>1
<1>8. 0 .. L + 1 \subseteq T
  BY ONLY <1>6, <1>7, UpTo
<1>9. L + 1 \in T
  BY <1>7, <1>8
<1>10. L + 2 - (L + 1) = 1
  BY <1>1
<1> QED BY <1>3, <1>9, <1>10 DEF T
\* Whatever the pattern, it becomes a matcher.
LEMMA CompileIs ==
  ASSUME NEW pattern \in Texts, NEW kind \in {"glob", "globstar"}
  PROVE  Compile(pattern, kind) \in Matchers
<1> DEFINE minwild == IF kind = "globstar" THEN 2 ELSE 1
           cut == Strip(pattern, minwild)
           verbatim == ~Occurs(Star, cut.body) /\ ~Occurs(Question, cut.body)
           pieces == IF kind = "glob" /\ Occurs(Question, cut.body)
                     THEN Translated(cut.body, 1)
                     ELSE Translated(IF kind = "glob" THEN Doubled(cut.body) ELSE cut.body, 2)
           anything == [kind |-> "anything"]
           plain == [kind |-> "verbatim", begin |-> cut.begin, end |-> cut.end, body |-> cut.body]
           regex == [kind |-> "regex", search |-> cut.begin,
                     pieces |-> IF cut.end THEN Append(pieces, Many(TRUE)) ELSE pieces]
<1>1. minwild \in {1, 2}
  OBVIOUS
<1> HIDE DEF minwild
<1>2. cut.body \in Texts /\ cut.begin \in BOOLEAN /\ cut.end \in BOOLEAN
  BY <1>1, StripIs
<1> HIDE DEF cut
<1>3. pieces \in Seq(Pieces)
  <2>1. Doubled(cut.body) \in Texts
    BY <1>2, DoubledIs
  <2>2. Translated(cut.body, 1) \in Seq(Pieces) /\ Translated(cut.body, 2) \in Seq(Pieces)
    BY <1>2, TranslatedIs
  <2>3. Translated(Doubled(cut.body), 2) \in Seq(Pieces)
    BY <2>1, TranslatedIs
  <2> QED BY <2>2, <2>3
<1> HIDE DEF pieces
<1>4. Append(pieces, Many(TRUE)) \in Seq(Pieces)
  <2>1. Many(TRUE) \in Pieces
    BY DEF Many, Pieces
  <2>2. PICK x \in Pieces : x = Many(TRUE)
    BY <2>1
  <2>3. Append(pieces, x) \in Seq(Pieces)
    BY <1>3
  <2> QED BY <2>2, <2>3
<1>5. anything \in Matchers
  BY DEF Matchers
<1>6. plain \in Matchers
  BY <1>2 DEF Matchers
<1>7. regex \in Matchers
  <2>1. PICK q \in Seq(Pieces) : q = IF cut.end THEN Append(pieces, Many(TRUE)) ELSE pieces
    BY <1>3, <1>4
  <2>2. [kind |-> "regex", search |-> cut.begin, pieces |-> q] \in Matchers
    BY <1>2 DEF Matchers
  <2> QED BY <2>1, <2>2
<1>8. Compile(pattern, kind) =
        CASE verbatim /\ cut.begin /\ cut.end /\ cut.body = <<>> -> anything
          [] verbatim /\ ~(cut.begin /\ cut.end /\ cut.body = <<>>) -> plain
          [] OTHER -> regex
  BY DEF Compile, cut, pieces, minwild
<1> HIDE DEF verbatim, anything, plain, regex
<1>9. Compile(pattern, kind) \in {anything, plain, regex}
  <2> DEFINE empty == cut.begin /\ cut.end /\ cut.body = <<>>
  <2>1. CASE verbatim /\ empty
    BY <1>8, <2>1
  <2>2. CASE verbatim /\ ~empty
    BY <1>8, <2>2
  <2>3. CASE ~verbatim
    BY <1>8, <2>3
  <2> QED BY <2>1, <2>2, <2>3
<1> QED BY <1>5, <1>6, <1>7, <1>9

\* What a pattern is made into.
LEMMA OperationIs ==
  ASSUME NEW pattern \in Texts
  PROVE  Operation(pattern).matcher \in Matchers
<1> DEFINE isPath == IsPathPattern(pattern)
           root == IF RequiresRootPathMatch(pattern) THEN FirstComponent(pattern) ELSE <<>>
           rest == SubSeq(pattern, Len(root) + 1, Len(pattern))
           plain == ~isPath /\ ~Occurs(Star, rest) /\ ~Occurs(Question, rest)
           text == IF plain THEN <<Star, Star>> \o rest \o <<Star, Star>> ELSE rest
<1>1. FirstComponent(pattern) \in Texts
  <2> DEFINE I == {i \in 1 .. Len(pattern) : pattern[i] = Separator}
  <2>1. Len(pattern) \in Nat /\ DOMAIN pattern = 1 .. Len(pattern)
    BY DEF Texts
  <2>2. CASE Occurs(Separator, pattern)
    <3>1. I # {}
      BY <2>1, <2>2 DEF Occurs, Range
    <3>2. FirstComponent(pattern) = SubSeq(pattern, 1, Min(I) - 1)
      BY <2>2, <3>1 DEF FirstComponent, SelectInSeq
    <3>3. I \in SUBSET (0 .. Len(pattern))
      BY <2>1
    <3>4. Min(I) \in 1 .. Len(pattern)
      <4> HIDE DEF I
      <4>1. Min(I) \in I
        BY <2>1, <3>1, <3>3, SmallestExists
      <4> QED BY <4>1 DEF I
    <3> HIDE DEF I
    <3>5. Min(I) - 1 \in Int /\ Min(I) - 1 =< Len(pattern) /\ 1 \in Nat \ {0}
      BY <2>1, <3>4
    <3>6. SubSeq(pattern, 1, Min(I) - 1) \in Texts
      BY <3>5, PartIs
    <3> QED BY <3>2, <3>6
  <2>3. CASE ~Occurs(Separator, pattern)
    BY <2>3 DEF FirstComponent
  <2> QED BY <2>2, <2>3
<1>2. root \in Texts
  BY <1>1, TextsJoin
<1> HIDE DEF root
<1>3. rest \in Texts
  <2>1. Len(root) + 1 \in Nat \ {0} /\ Len(pattern) \in Int /\ Len(pattern) =< Len(pattern)
    BY <1>2 DEF Texts
  <2> QED BY <2>1, PartIs
<1> HIDE DEF rest
<1>4. text \in Texts
  <2>1. <<Star, Star>> \in Texts
    <3>1. Star \in Characters
      BY TextAssumption
    <3> QED BY <3>1 DEF Texts
  <2>2. <<Star, Star>> \o rest \in Texts
    BY <1>3, <2>1, BeginsConcat
  <2>3. <<Star, Star>> \o rest \o <<Star, Star>> \in Texts
    BY <2>1, <2>2, BeginsConcat
  <2> QED BY <1>3, <2>3
<1>5. Operation(pattern).matcher = Compile(text, IF isPath THEN "globstar" ELSE "glob")
  BY DEF Operation, root, rest
<1> HIDE DEF text, isPath
<1>6. Compile(text, IF isPath THEN "globstar" ELSE "glob") \in Matchers
  <2>1. (IF isPath THEN "globstar" ELSE "glob") \in {"glob", "globstar"}
    OBVIOUS
  <2> QED BY <1>4, <2>1, CompileIs
<1> QED BY <1>5, <1>6

\* What stands before the names.
LEMMA CurrentPathIs ==
  ASSUME NEW op
  PROVE  CurrentPath(op) \in Texts
<1> DEFINE I == {i \in 1 .. Len(Root) : Root[i] # Separator}
<1>1. Root \in Texts /\ Len(Root) \in Nat
  BY TextAssumption DEF Texts
<1>2. CASE op.root # <<>>
  BY <1>2, TextsJoin DEF CurrentPath
<1>3. CASE op.root = <<>>
  <2>1. CurrentPath(op) = SubSeq(Root, 1, IF I # {} THEN Max(I) ELSE 0)
    BY <1>3 DEF CurrentPath, SelectLastInSeq
  <2>2. (IF I # {} THEN Max(I) ELSE 0) \in 0 .. Len(Root)
    <3>1. CASE I # {}
      <4>1. I \in SUBSET (0 .. Len(Root))
        BY <1>1
      <4> HIDE DEF I
      <4>2. Max(I) \in I
        BY <1>1, <3>1, <4>1, GreatestExists
      <4>3. Max(I) \in 0 .. Len(Root)
        BY <4>1, <4>2
      <4> QED BY <3>1, <4>3
    <3>2. CASE I = {}
      BY <1>1, <3>2
    <3> QED BY <3>1, <3>2
  <2> HIDE DEF I
  <2>3. PICK n \in 0 .. Len(Root) : n = IF I # {} THEN Max(I) ELSE 0
    BY <2>2
  <2>4. SubSeq(Root, 1, n) \in Texts
    <3>1. n \in Int /\ n =< Len(Root) /\ 1 \in Nat \ {0}
      BY <1>1, <2>3
    <3> QED BY <1>1, <3>1, PartIs
  <2> QED BY <2>1, <2>3, <2>4
<1> QED BY <1>2, <1>3

-----------------------------------------------------------------------------
\* A directory on the way that the callback has turned down, for good.
TurnedDown(op, names, d) ==
    /\ Begins(d, CurrentPath(op) \o Joined(names, FALSE))
    /\ ~IsMatch(op.matcher, d) /\ HighWaterMark(op.matcher, d) < Len(d)

\* Where the program's walk does not get, some directory above has been turned down.
PatternInv ==
    /\ typed \in Patterns /\ operation = Operation(typed)
    /\ path \in Seq(Texts) /\ directory \in BOOLEAN
    /\ Prematch(operation) /\ ~seen =>
          operation.isPath /\ \E d \in Texts : TurnedDown(operation, path, d)

LEMMA PatternInitially ==
  PatternInit => PatternInv
<1> SUFFICES ASSUME PatternInit PROVE PatternInv
  OBVIOUS
<1>1. path \in Seq(Texts)
  BY DEF PatternInit
<1>2. Prematch(operation) => seen
  BY DEF PatternInit
<1> QED BY <1>1, <1>2 DEF PatternInit, PatternInv

LEMMA PatternStep ==
  PatternInv /\ [PatternNext]_patternVars => PatternInv'
<1> SUFFICES ASSUME PatternInv, [PatternNext]_patternVars PROVE PatternInv'
  OBVIOUS
<1> DEFINE op == operation
           cp == CurrentPath(op)
<1>1. CASE UNCHANGED patternVars
  <2>1. /\ typed' = typed /\ operation' = operation /\ path' = path
        /\ directory' = directory /\ seen' = seen
    BY <1>1 DEF patternVars
  <2> QED BY <2>1 DEF PatternInv
<1>2. ASSUME NEW name \in Names, NEW isDirectory \in BOOLEAN, Visit(name, isDirectory)
      PROVE  PatternInv'
  <2>1. /\ typed' = typed /\ operation' = op /\ path' = Append(path, name)
        /\ directory' = isDirectory
        /\ seen' = (seen /\ GoesOn(op, Given(op, path, TRUE)))
    BY <1>2 DEF Visit
  <2>2. name \in Texts /\ cp \in Texts /\ path \in Seq(Texts)
    BY TextAssumption, CurrentPathIs DEF Texts, PatternInv
  <2> DEFINE lo(b) == cp \o Joined(path, b)
             hi == cp \o Joined(Append(path, name), FALSE)
  <2>3. \A b \in BOOLEAN : lo(b) \in Texts /\ hi \in Texts /\ Begins(lo(b), hi)
    <3>1. FALSE \in BOOLEAN
      OBVIOUS
    <3>2. ASSUME NEW b \in BOOLEAN PROVE lo(b) \in Texts /\ hi \in Texts /\ Begins(lo(b), hi)
      BY ONLY <2>2, <3>1, <3>2, JoinedGrows
    <3> QED BY <3>2
  <2>4. Append(path, name) \in Seq(Texts)
    BY <2>2
  <2>5. ASSUME Prematch(op), ~seen'
        PROVE  op.isPath /\ \E d \in Texts : TurnedDown(op, Append(path, name), d)
    <3>1. CASE ~seen
      <4>1. op.isPath
        BY <2>5, <3>1 DEF PatternInv
      <4>2. PICK d \in Texts : TurnedDown(op, path, d)
        BY <2>5, <3>1 DEF PatternInv
      <4>3. Begins(d, lo(FALSE))
        BY <4>2 DEF TurnedDown
      <4>4. Begins(d, hi)
        <5> HIDE DEF lo, hi
        <5> QED BY <2>3, <4>3, BeginsTwice
      <4>5. TurnedDown(op, Append(path, name), d)
        BY <4>2, <4>4 DEF TurnedDown
      <4> QED BY <4>1, <4>5
    <3>2. CASE seen
      <4> DEFINE d == lo(TRUE)
      <4>1. ~GoesOn(op, Given(op, path, TRUE))
        BY <2>1, <2>5, <3>2
      <4>2. op.isPath
        BY <4>1 DEF GoesOn
      <4>3. Given(op, path, TRUE) = d
        BY <4>2 DEF Given
      <4> HIDE DEF d
      <4>4. ~IsMatch(op.matcher, d) /\ HighWaterMark(op.matcher, d) < Len(d)
        BY <4>1, <4>3 DEF GoesOn
      <4>5. d \in Texts /\ Begins(d, hi)
        BY <2>3 DEF d
      <4>6. TurnedDown(op, Append(path, name), d)
        BY <4>4, <4>5 DEF TurnedDown
      <4> QED BY <4>2, <4>5, <4>6
    <3> QED BY <3>1, <3>2
  <2>6. typed' \in Patterns /\ operation' = Operation(typed')
    BY <2>1 DEF PatternInv
  <2> HIDE DEF op
  <2>7. Prematch(operation') /\ ~seen' =>
           operation'.isPath /\ \E d \in Texts : TurnedDown(operation', path', d)
    BY <2>1, <2>5
  <2>8. PatternInv'
    <3>1. PatternInv' = /\ typed' \in Patterns /\ operation' = Operation(typed')
                        /\ path' \in Seq(Texts) /\ directory' \in BOOLEAN
                        /\ Prematch(operation') /\ ~seen' =>
                              operation'.isPath /\ \E d \in Texts : TurnedDown(operation', path', d)
      BY DEF PatternInv
    <3> QED BY <2>1, <2>4, <2>6, <2>7, <3>1
  <2> QED BY <2>8
<1> QED BY <1>1, <1>2 DEF PatternNext

LEMMA PatternHides ==
  PatternInv => PruningHidesNothing
<1> SUFFICES ASSUME PatternInv, Prematch(operation), ~seen
             PROVE  ~IsMatch(operation.matcher, Given(operation, path, directory))
  BY DEF PruningHidesNothing
<1> DEFINE op == operation
           lo == CurrentPath(op) \o Joined(path, FALSE)
           hi == CurrentPath(op) \o Joined(path, directory)
<1>1. op.isPath
  BY DEF PatternInv
<1>2. PICK d \in Texts : TurnedDown(op, path, d)
  BY DEF PatternInv
<1>3. op.matcher \in Matchers
  <2>1. typed \in Texts /\ op = Operation(typed)
    BY TextAssumption DEF PatternInv, Texts
  <2> QED BY <2>1, OperationIs
<1>4. Given(op, path, directory) = hi
  BY <1>1 DEF Given
<1>5. path \in Seq(Texts) /\ directory \in BOOLEAN /\ CurrentPath(op) \in Texts
  BY CurrentPathIs DEF PatternInv
<1>6. Begins(lo, hi)
  BY ONLY <1>5, JoinedOpen
<1>7. lo \in Texts /\ hi \in Texts
  <2>1. ASSUME NEW b \in BOOLEAN PROVE Joined(path, b) \in Texts
    <3>1. PICK s \in Texts : s = FlattenSeq(Parts(path))
      BY <1>5, JoinedIs
    <3>2. PICK x \in Texts : x = IF b THEN <<Separator>> ELSE <<>>
      BY <1>5, JoinedIs
    <3>3. Joined(path, b) = s \o x
      BY <1>5, <3>1, <3>2, JoinedIs
    <3> QED BY <3>3, BeginsConcat
  <2>2. Joined(path, FALSE) \in Texts /\ Joined(path, directory) \in Texts
    BY <1>5, <2>1
  <2> QED BY <1>5, <2>2, BeginsConcat
<1>8. Begins(d, lo) /\ ~IsMatch(op.matcher, d) /\ HighWaterMark(op.matcher, d) < Len(d)
  BY <1>2 DEF TurnedDown
<1> HIDE DEF lo, hi, op
<1>9. Begins(d, hi)
  BY <1>6, <1>7, <1>8, BeginsTwice
<1>10. ~IsMatch(op.matcher, hi)
  BY <1>3, <1>7, <1>8, <1>9, NothingBeyond
<1> QED BY <1>4, <1>10 DEF op

(***************************************************************************)
(* Whatever the user types and however deep the directories: nothing below *)
(* a directory the callback has turned down matches (the high water mark   *)
(* of string_matcher.cpp, by which main_dialog.cpp and cli_main.hpp prune).*)
(***************************************************************************)
THEOREM NothingPruned ==
  PatternSpec => []PruningHidesNothing
BY PatternInitially, PatternStep, PatternHides, PTL DEF PatternSpec
=============================================================================
