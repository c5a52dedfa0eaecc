----------------------- MODULE BackgroundWorkerProofs -----------------------
(***************************************************************************)
(* The background worker for any thunks, timestamps and number of clears:  *)
(*   - no thunk is left behind while the worker sleeps;                    *)
(*   - the list stays in the order of the timestamps, and of add() among   *)
(*     equal ones;                                                         *)
(* and with its client, the icon cache, for any paths and lists of rows:   *)
(*   - no file gets the icon of another one;                               *)
(*   - a row that waits for a redraw has a message under way.              *)
(***************************************************************************)
EXTENDS IconCache, SequenceLemmas, TLAPS

\* The entries that stay before a new one, as FinishAdd counts them.
Before(e) == Cardinality({k \in DOMAIN todo : \A j \in 1 .. k : e.stamp =< todo[j].stamp})

\* Inserted() puts the entry behind those with the same or a later stamp, and
\* the entry it comes before has an earlier one.
LEMMA InsertedProperties ==
  ASSUME TypeOK, NEW e \in Entries
  PROVE  /\ Before(e) \in 0 .. Len(todo)
         /\ \A j \in 1 .. Before(e) : e.stamp =< todo[j].stamp
         /\ Before(e) < Len(todo) => ~(e.stamp =< todo[Before(e) + 1].stamp)
         /\ Inserted(e) \in Seq(Entries)
         /\ Len(Inserted(e)) = Len(todo) + 1
         /\ \A k \in 1 .. Len(todo) + 1 :
              Inserted(e)[k] = IF k < Before(e) + 1 THEN todo[k]
                               ELSE IF k = Before(e) + 1 THEN e ELSE todo[k - 1]
<1> DEFINE S == {k \in DOMAIN todo : \A j \in 1 .. k : e.stamp =< todo[j].stamp}
           i == Before(e)
<1>1. todo \in Seq(Entries) /\ Len(todo) \in Nat /\ DOMAIN todo = 1 .. Len(todo)
  BY DEF TypeOK
<1>2. i \in 0 .. Len(todo) /\ S = 1 .. i
  <2>1. S \in SUBSET (1 .. Len(todo))
    BY <1>1
  <2>2. ASSUME NEW k \in S PROVE 1 .. k \subseteq S
    BY <1>1
  <2>3. Cardinality(S) \in 0 .. Len(todo) /\ S = 1 .. Cardinality(S)
    <3> HIDE DEF S
    <3> QED BY <1>1, <2>1, <2>2, CountOfPrefix
  <2> QED BY <2>3 DEF Before
<1>3. \A j \in 1 .. i : e.stamp =< todo[j].stamp
  <2> SUFFICES ASSUME NEW j \in 1 .. i PROVE e.stamp =< todo[j].stamp
    OBVIOUS
  <2>1. j \in S /\ j \in 1 .. j
    BY <1>2
  <2> QED BY <2>1
<1>4. ASSUME i < Len(todo) PROVE ~(e.stamp =< todo[i + 1].stamp)
  <2> SUFFICES ASSUME e.stamp =< todo[i + 1].stamp PROVE FALSE
    OBVIOUS
  <2>1. i + 1 \in DOMAIN todo /\ i + 1 \notin S
    BY <1>1, <1>2, <1>4
  <2>2. ASSUME NEW j \in 1 .. i + 1 PROVE e.stamp =< todo[j].stamp
    <3>1. j \in 1 .. i \/ j = i + 1
      BY <1>2
    <3> QED BY <1>3, <3>1
  <2> QED BY <2>1, <2>2
<1>5. Inserted(e) = InsertAt(todo, i + 1, e)
  BY DEF Inserted, Before
<1>6. i + 1 \in 1 .. Len(todo) + 1
  BY <1>1, <1>2
<1> HIDE DEF i, S
<1>7. /\ InsertAt(todo, i + 1, e) \in Seq(Entries)
      /\ Len(InsertAt(todo, i + 1, e)) = Len(todo) + 1
      /\ \A k \in 1 .. Len(todo) + 1 :
           InsertAt(todo, i + 1, e)[k]
             = IF k < i + 1 THEN todo[k] ELSE IF k = i + 1 THEN e ELSE todo[k - 1]
  <2>1. PICK m \in 1 .. Len(todo) + 1 : m = i + 1
    BY <1>6
  <2>2. /\ InsertAt(todo, m, e) \in Seq(Entries)
        /\ Len(InsertAt(todo, m, e)) = Len(todo) + 1
        /\ \A k \in 1 .. Len(todo) + 1 :
             InsertAt(todo, m, e)[k]
               = IF k < m THEN todo[k] ELSE IF k = m THEN e ELSE todo[k - 1]
    BY <1>1, InsertAtProperties
  <2> QED BY <2>1, <2>2
<1> QED BY <1>2, <1>3, <1>4, <1>5, <1>7 DEF i

\* The types of the two shortened lists.
LEMMA ShorterTypes ==
  ASSUME TypeOK
  PROVE  /\ <<>> \in Seq(Entries)
         /\ todo # <<>> => /\ Head(todo) \in Entries
                           /\ Tail(todo) \in Seq(Entries)
                           /\ Head(todo).thunk \in Thunks
                           /\ Len(Tail(todo)) = Len(todo) - 1
<1>1. todo \in Seq(Entries)
  BY DEF TypeOK
<1>2. ASSUME todo # <<>> PROVE Head(todo) \in Entries /\ Tail(todo) \in Seq(Entries)
                               /\ Len(Tail(todo)) = Len(todo) - 1
  BY <1>1, <1>2
<1>3. ASSUME NEW e \in Entries PROVE e.thunk \in Thunks
  BY DEF Entries
<1> QED BY <1>2, <1>3

\* BackgroundWorker!TypeOK: type correctness.
THEOREM TypeCorrect == Spec => []TypeOK
<1>1. Init => TypeOK
  <2>1. <<>> \in Seq(Entries) /\ 0 \in 0 .. MaxClear
    BY WorkerAssumption
  <2>2. [t \in Thunks |-> "new"]
           \in [Thunks -> {"new", "queued", "taken", "done", "cleared", "refused"}]
    OBVIOUS
  <2>3. {} \subseteq Thunks /\ {} \subseteq Entries /\ 0 \in Nat
    OBVIOUS
  <2> QED BY <2>1, <2>2, <2>3, Zenon DEF Init, TypeOK
<1>2. TypeOK /\ [Next]_vars => TypeOK'
  <2> SUFFICES ASSUME TypeOK, [Next]_vars PROVE TypeOK'
    OBVIOUS
  <2> USE DEF TypeOK
  <2>1. ASSUME NEW t \in Thunks, NEW stamp \in Timestamps, BeginAdd(t, stamp) PROVE TypeOK'
    <3>1. [stamp |-> stamp, thunk |-> t] \in Entries
      BY DEF Entries
    <3> QED BY <2>1, <3>1 DEF BeginAdd, workerVars
  <2>2. CASE FinishAdd
    <3>1. PICK e \in adding : /\ todo' = Inserted(e)
                              /\ added' = Append(added, e)
                              /\ fate' = [fate EXCEPT ![e.thunk] = "queued"]
      BY <2>2 DEF FinishAdd
    <3>2. e \in Entries /\ e.thunk \in Thunks
      BY <3>1 DEF Entries
    <3>3. Inserted(e) \in Seq(Entries)
      BY <3>2, InsertedProperties
    <3>4. Append(added, e) \in Seq(Entries)
      BY <3>2
    <3>5. fate' \in [Thunks -> {"new", "queued", "taken", "done", "cleared", "refused"}]
      BY <3>1, <3>2
    <3> QED BY <2>2, <3>1, <3>3, <3>4, <3>5 DEF FinishAdd, workerVars
  <2>3. Dropped \in [Thunks -> {"new", "queued", "taken", "done", "cleared", "refused"}]
    BY DEF Dropped
  <2>4. CASE Clear
    BY <2>3, <2>4, ShorterTypes, WorkerAssumption DEF Clear, workerVars
  <2>5. CASE SetStop
    BY <2>5 DEF SetStop, workerVars
  <2>6. CASE ReleaseAndJoin
    BY <2>3, <2>6, ShorterTypes DEF ReleaseAndJoin, workerVars
  <2>7. CASE Joined
    BY <2>7 DEF Joined, workerVars
  <2>8. CASE Wait
    BY <2>8 DEF Wait, clientVars
  <2>9. CASE CheckStop
    BY <2>9 DEF CheckStop, clientVars
  <2>10. CASE Pop
    BY <2>10, ShorterTypes DEF Pop, clientVars
  <2>11. ASSUME NEW goOn \in BOOLEAN, Run(goOn) PROVE TypeOK'
    BY <2>11 DEF Run, clientVars
  <2>12. CASE UNCHANGED vars
    BY <2>12 DEF vars, workerVars, clientVars
  <2> QED BY <2>1, <2>2, <2>4, <2>5, <2>6, <2>7, <2>8, <2>9, <2>10, <2>11, <2>12
          DEF Next, Thread, Client, Destroy
<1> QED BY <1>1, <1>2, PTL DEF Spec

\* BackgroundWorker!WakeUpsCoverTodo: whatever the client adds and clears, the
\* worker never sleeps over a thunk.
THEOREM NoThunkLeftBehind == Spec => []WakeUpsCoverTodo
<1>1. Init => WakeUpsCoverTodo
  BY DEF Init, WakeUpsCoverTodo, InHand
<1>2. TypeOK /\ WakeUpsCoverTodo /\ [Next]_vars => WakeUpsCoverTodo'
  <2> SUFFICES ASSUME TypeOK, WakeUpsCoverTodo, [Next]_vars PROVE WakeUpsCoverTodo'
    OBVIOUS
  <2> USE DEF WakeUpsCoverTodo, InHand
  <2>0. semaphore \in Nat /\ Len(todo) \in Nat /\ Len(<<>>) = 0
    BY DEF TypeOK
  <2>1. ASSUME NEW t \in Thunks, NEW stamp \in Timestamps, BeginAdd(t, stamp)
        PROVE  WakeUpsCoverTodo'
    BY <2>1 DEF BeginAdd, workerVars
  <2>2. CASE FinishAdd
    <3>1. PICK e \in adding : todo' = Inserted(e)
      BY <2>2 DEF FinishAdd
    <3>2. Len(todo') = Len(todo) + 1
      BY <3>1, InsertedProperties DEF TypeOK
    <3> QED BY <2>0, <2>2, <3>2 DEF FinishAdd, workerVars
  <2>3. CASE Clear
    BY <2>0, <2>3 DEF Clear, workerVars
  <2>4. CASE SetStop
    BY <2>4 DEF SetStop, workerVars
  <2>5. CASE ReleaseAndJoin
    BY <2>0, <2>5 DEF ReleaseAndJoin, workerVars
  <2>6. CASE Joined
    BY <2>6 DEF Joined, workerVars
  <2>7. CASE Wait
    BY <2>0, <2>7 DEF Wait
  <2>8. CASE CheckStop
    BY <2>8 DEF CheckStop
  <2>9. CASE Pop
    BY <2>0, <2>9, ShorterTypes DEF Pop
  <2>10. ASSUME NEW goOn \in BOOLEAN, Run(goOn) PROVE WakeUpsCoverTodo'
    BY <2>10 DEF Run
  <2>11. CASE UNCHANGED vars
    BY <2>11 DEF vars, workerVars
  <2> QED BY <2>1, <2>2, <2>3, <2>4, <2>5, <2>6, <2>7, <2>8, <2>9, <2>10, <2>11
          DEF Next, Thread, Client, Destroy
<1> QED BY <1>1, <1>2, TypeCorrect, PTL DEF Spec

-----------------------------------------------------------------------------
\* Of two entries the first comes before the second: it is later by its
\* timestamp, or was added earlier, in the places k and l of the history.
Precedes(d, e, k, l) == d.stamp > e.stamp \/ (d.stamp = e.stamp /\ k < l)

\* Entries of the list are in its order, with their places in the history.
Sorted ==
  \A i, j \in DOMAIN todo : i < j =>
    \E k, l \in DOMAIN added :
      added[k] = todo[i] /\ added[l] = todo[j] /\ Precedes(todo[i], todo[j], k, l)

\* TodoOrdered says it with the first place of an entry in the history; that
\* there is but one, and that an entry about to be added is not there yet, is
\* what makes it inductive.
OrderInv ==
  /\ \A j, k \in DOMAIN added : added[j].thunk = added[k].thunk => j = k
  /\ \A k \in DOMAIN added : fate[added[k].thunk] # "new"
  /\ client = "adding" => \A e \in adding : fate[e.thunk] = "new"
  /\ \A t \in running : fate[t] # "new"
  /\ \A i \in DOMAIN todo : \E k \in DOMAIN added : added[k] = todo[i]
  /\ Sorted

\* The order of the list is what TodoOrdered says.
LEMMA OrderIsOrdered ==
  ASSUME OrderInv
  PROVE  TodoOrdered
<1> DEFINE Added(e) == CHOOSE k \in DOMAIN added : added[k] = e
<1>1. ASSUME NEW k \in DOMAIN added PROVE Added(added[k]) = k
  <2>1. /\ Added(added[k]) \in DOMAIN added
        /\ added[Added(added[k])] = added[k]
    OBVIOUS
  <2> HIDE DEF Added
  <2> QED BY <2>1 DEF OrderInv
<1>2. ASSUME NEW i \in DOMAIN todo, NEW j \in DOMAIN todo, i < j
      PROVE  \/ todo[i].stamp > todo[j].stamp
             \/ todo[i].stamp = todo[j].stamp /\ Added(todo[i]) < Added(todo[j])
  <2>1. PICK k, l \in DOMAIN added :
          added[k] = todo[i] /\ added[l] = todo[j] /\ Precedes(todo[i], todo[j], k, l)
    BY <1>2 DEF OrderInv, Sorted
  <2>2. Added(todo[i]) = k /\ Added(todo[j]) = l
    <3> HIDE DEF Added
    <3> QED BY <1>1, <2>1
  <2> HIDE DEF Added
  <2> QED BY <2>1, <2>2 DEF Precedes
<1> QED BY <1>2 DEF TodoOrdered

\* FinishAdd keeps the order.
LEMMA InsertionSorted ==
  ASSUME TypeOK, OrderInv, NEW e \in Entries,
         todo' = Inserted(e), added' = Append(added, e)
  PROVE  /\ Sorted'
         /\ \A i \in DOMAIN todo' : \E k \in DOMAIN added' : added'[k] = todo'[i]
<1> DEFINE n == Len(todo)
           m == Len(added)
           b == Before(e) + 1
<1>1. /\ n \in Nat /\ DOMAIN todo = 1 .. n
      /\ m \in Nat /\ DOMAIN added = 1 .. m
      /\ \A i \in 1 .. n : todo[i] \in Entries /\ todo[i].stamp \in Int
      /\ e.stamp \in Int
  <2>1. ASSUME NEW d \in Entries PROVE d.stamp \in Int
    BY WorkerAssumption DEF Entries
  <2>2. todo \in Seq(Entries) /\ added \in Seq(Entries)
    BY DEF TypeOK
  <2> QED BY <2>1, <2>2
<1>2. /\ b \in 1 .. n + 1
      /\ \A j \in 1 .. b - 1 : e.stamp =< todo[j].stamp
      /\ b =< n => ~(e.stamp =< todo[b].stamp)
      /\ DOMAIN todo' = 1 .. n + 1
      /\ \A k \in 1 .. n + 1 :
           todo'[k] = IF k < b THEN todo[k] ELSE IF k = b THEN e ELSE todo[k - 1]
  <2>1. Inserted(e) \in Seq(Entries) /\ Len(Inserted(e)) = n + 1
    BY InsertedProperties
  <2>2. DOMAIN todo' = 1 .. n + 1
    BY <1>1, <2>1
  <2>3. /\ Before(e) \in 0 .. n
        /\ \A j \in 1 .. Before(e) : e.stamp =< todo[j].stamp
        /\ Before(e) < n => ~(e.stamp =< todo[Before(e) + 1].stamp)
        /\ \A k \in 1 .. n + 1 :
             todo'[k] = IF k < Before(e) + 1 THEN todo[k]
                        ELSE IF k = Before(e) + 1 THEN e ELSE todo[k - 1]
    BY InsertedProperties
  <2>4. b \in 1 .. n + 1 /\ 1 .. b - 1 = 1 .. Before(e) /\ (b =< n => Before(e) < n)
    <3> HIDE DEF n
    <3> QED BY <1>1, <2>3
  <2> HIDE DEF n
  <2> QED BY <2>2, <2>3, <2>4
<1>3. /\ DOMAIN added' = 1 .. m + 1
      /\ \A k \in 1 .. m : added'[k] = added[k]
      /\ added'[m + 1] = e
  <2>1. added \in Seq(Entries)
    BY DEF TypeOK
  <2> QED BY <1>1, <2>1
<1> HIDE DEF n, m, b
<1>4. ASSUME NEW j \in 1 .. n, b =< j PROVE todo[j].stamp < e.stamp
  <2>1. b \in 1 .. n /\ todo[b].stamp < e.stamp
    BY <1>1, <1>2, <1>4
  <2>2. CASE b = j
    BY <2>1, <2>2
  <2>3. CASE b < j
    <3>1. PICK k, l \in DOMAIN added : Precedes(todo[b], todo[j], k, l)
      BY <1>1, <2>1, <2>3 DEF OrderInv, Sorted
    <3>2. todo[b].stamp \in Int /\ todo[j].stamp \in Int
      BY <1>1, <2>1
    <3> QED BY <1>1, <2>1, <3>1, <3>2 DEF Precedes
  <2> QED BY <1>2, <1>4, <2>2, <2>3
<1>5. ASSUME NEW i \in 1 .. n PROVE \E k \in 1 .. m : added[k] = todo[i]
  BY <1>1 DEF OrderInv
<1>6. ASSUME NEW i \in 1 .. n + 1 PROVE \E k \in 1 .. m + 1 : added'[k] = todo'[i]
  <2>1. CASE i = b
    <3>1. m + 1 \in 1 .. m + 1
      BY <1>1
    <3> QED BY <1>2, <1>3, <2>1, <3>1
  <2>2. CASE i # b
    <3>0. b \in Int /\ i \in Int /\ i \in 1 .. n + 1
      BY <1>1, <1>2
    <3>1. PICK h \in 1 .. n : todo'[i] = todo[h]
      <4>1. CASE i < b
        <5>1. i \in 1 .. n
          BY <1>1, <1>2, <4>1
        <5>2. todo'[i] = todo[i]
          BY <1>2, <4>1
        <5> QED BY <5>1, <5>2
      <4>2. CASE i > b
        <5>1. i - 1 \in 1 .. n
          BY <1>1, <1>2, <4>2
        <5>2. todo'[i] = todo[i - 1]
          BY <1>2, <2>2, <3>0, <4>2
        <5> QED BY <5>1, <5>2
      <4>3. i < b \/ i > b
        BY <2>2, <3>0
      <4> QED BY <4>1, <4>2, <4>3
    <3>2. PICK k \in 1 .. m : added[k] = todo[h]
      BY <1>5
    <3>3. k \in 1 .. m + 1
      BY <1>1
    <3>4. added'[k] = todo'[i]
      BY <1>3, <3>1, <3>2
    <3> QED BY <3>3, <3>4
  <2> QED BY <2>1, <2>2
<1>7. ASSUME NEW i \in 1 .. n, NEW j \in 1 .. n, i < j
      PROVE  \E k, l \in 1 .. m + 1 : /\ added'[k] = todo[i] /\ added'[l] = todo[j]
                                      /\ Precedes(todo[i], todo[j], k, l)
  <2>1. PICK k, l \in 1 .. m : /\ added[k] = todo[i] /\ added[l] = todo[j]
                               /\ Precedes(todo[i], todo[j], k, l)
    BY <1>1, <1>7 DEF OrderInv, Sorted
  <2>2. k \in 1 .. m + 1 /\ l \in 1 .. m + 1
    BY <1>1
  <2> QED BY <1>3, <2>1, <2>2
<1>8. ASSUME NEW i \in 1 .. n + 1, NEW j \in 1 .. n + 1, i < j
      PROVE  \E k, l \in 1 .. m + 1 : /\ added'[k] = todo'[i] /\ added'[l] = todo'[j]
                                      /\ Precedes(todo'[i], todo'[j], k, l)
  <2>0. b \in Int
    BY <1>2
  <2>1. CASE j < b
    <3>1. i \in 1 .. n /\ j \in 1 .. n /\ i < b
      BY <1>1, <1>2, <1>8, <2>1
    <3>2. todo'[i] = todo[i] /\ todo'[j] = todo[j]
      BY <1>2, <2>1, <3>1
    <3> QED BY <1>7, <1>8, <3>1, <3>2
  <2>2. CASE j = b
    <3>1. i \in 1 .. n /\ i \in 1 .. b - 1 /\ i < b
      BY <1>1, <1>2, <1>8, <2>2
    <3>2. todo'[i] = todo[i] /\ todo'[j] = e /\ e.stamp =< todo[i].stamp
      BY <1>2, <2>2, <3>1
    <3>3. PICK k \in 1 .. m : added[k] = todo[i]
      BY <1>5, <3>1
    <3>4. k \in 1 .. m + 1 /\ m + 1 \in 1 .. m + 1 /\ k < m + 1
      BY <1>1
    <3>5. Precedes(todo[i], e, k, m + 1)
      BY <1>1, <3>1, <3>2, <3>4 DEF Precedes
    <3>6. added'[k] = todo'[i] /\ added'[m + 1] = todo'[j]
      BY <1>3, <3>2, <3>3
    <3> QED BY <3>2, <3>4, <3>5, <3>6
  <2>3. CASE j > b /\ i = b
    <3>1. j - 1 \in 1 .. n /\ b =< j - 1
      BY <1>1, <1>2, <2>3
    <3>2. todo'[i] = e /\ todo'[j] = todo[j - 1] /\ todo[j - 1].stamp < e.stamp
      BY <1>2, <1>4, <2>0, <2>3, <3>1
    <3>3. PICK l \in 1 .. m : added[l] = todo[j - 1]
      BY <1>5, <3>1
    <3>4. l \in 1 .. m + 1 /\ m + 1 \in 1 .. m + 1
      BY <1>1
    <3>5. Precedes(e, todo[j - 1], m + 1, l)
      BY <1>1, <3>1, <3>2 DEF Precedes
    <3>6. added'[m + 1] = todo'[i] /\ added'[l] = todo'[j]
      BY <1>3, <3>2, <3>3
    <3> QED BY <3>2, <3>4, <3>5, <3>6
  <2>4. CASE j > b /\ i < b
    <3>1. i \in 1 .. n /\ j - 1 \in 1 .. n /\ i < j - 1
      BY <1>1, <1>2, <2>4
    <3>2. todo'[i] = todo[i] /\ todo'[j] = todo[j - 1]
      BY <1>2, <2>0, <2>4
    <3>3. PICK h \in 1 .. n : h = j - 1
      BY <3>1
    <3>4. PICK k, l \in 1 .. m + 1 : /\ added'[k] = todo[i] /\ added'[l] = todo[h]
                                     /\ Precedes(todo[i], todo[h], k, l)
      BY <1>7, <3>1, <3>3
    <3> QED BY <3>2, <3>3, <3>4
  <2>5. CASE i > b
    <3>1. i - 1 \in 1 .. n /\ j - 1 \in 1 .. n /\ i - 1 < j - 1 /\ j > b
      BY <1>1, <1>2, <1>8, <2>5
    <3>2. todo'[i] = todo[i - 1] /\ todo'[j] = todo[j - 1]
      BY <1>2, <2>0, <2>5, <3>1
    <3>3. PICK g, h \in 1 .. n : g = i - 1 /\ h = j - 1
      BY <3>1
    <3>4. PICK k, l \in 1 .. m + 1 : /\ added'[k] = todo[g] /\ added'[l] = todo[h]
                                     /\ Precedes(todo[g], todo[h], k, l)
      BY <1>7, <3>1, <3>3
    <3> QED BY <3>2, <3>3, <3>4
  <2>6. \/ j < b
        \/ j = b
        \/ j > b /\ i = b
        \/ j > b /\ i < b
        \/ i > b
    <3>1. i \in Int /\ j \in Int
      BY <1>1
    <3> QED BY <2>0, <3>1
  <2> QED BY <2>1, <2>2, <2>3, <2>4, <2>5, <2>6, Zenon
<1>9. Sorted'
  <2>1. ASSUME NEW i \in DOMAIN todo', NEW j \in DOMAIN todo', i < j
        PROVE  \E k, l \in DOMAIN added' : /\ added'[k] = todo'[i] /\ added'[l] = todo'[j]
                                           /\ Precedes(todo'[i], todo'[j], k, l)
    BY <1>2, <1>3, <1>8, <2>1
  <2> QED BY <2>1 DEF Sorted
<1> QED BY <1>2, <1>3, <1>6, <1>9

\* Pop keeps the order.
LEMMA PopSorted ==
  ASSUME TypeOK, OrderInv, todo # <<>>, todo' = Tail(todo), UNCHANGED added
  PROVE  /\ Sorted'
         /\ \A i \in DOMAIN todo' : \E k \in DOMAIN added' : added'[k] = todo'[i]
<1>1. /\ Len(todo) \in Nat /\ DOMAIN todo = 1 .. Len(todo)
      /\ DOMAIN todo' = 1 .. Len(todo) - 1
      /\ \A i \in 1 .. Len(todo) - 1 : todo'[i] = todo[i + 1]
  BY DEF TypeOK
<1>2. ASSUME NEW i \in 1 .. Len(todo) - 1 PROVE i + 1 \in DOMAIN todo
  BY <1>1
<1>3. \A i \in DOMAIN todo' : \E k \in DOMAIN added : added[k] = todo'[i]
  BY <1>1, <1>2 DEF OrderInv
<1>4. ASSUME NEW i \in DOMAIN todo', NEW j \in DOMAIN todo', i < j
      PROVE  \E k, l \in DOMAIN added :
               /\ added[k] = todo'[i] /\ added[l] = todo'[j]
               /\ Precedes(todo'[i], todo'[j], k, l)
  <2>1. i + 1 \in DOMAIN todo /\ j + 1 \in DOMAIN todo /\ i + 1 < j + 1
    BY <1>1, <1>2, <1>4
  <2>2. PICK k, l \in DOMAIN added :
          /\ added[k] = todo[i + 1] /\ added[l] = todo[j + 1]
          /\ Precedes(todo[i + 1], todo[j + 1], k, l)
    BY <2>1 DEF OrderInv, Sorted
  <2> QED BY <1>1, <2>2
<1> QED BY <1>3, <1>4 DEF Sorted

\* BackgroundWorker!TodoOrdered: the list stays in the order that the timestamps
\* ask for, and that of add() among equal ones.
THEOREM ListInOrder == Spec => []TodoOrdered
<1>1. Init => OrderInv
  BY DEF Init, OrderInv, Sorted
<1>2. TypeOK /\ OrderInv /\ [Next]_vars => OrderInv'
  <2> SUFFICES ASSUME TypeOK, OrderInv, [Next]_vars PROVE OrderInv'
    OBVIOUS
  <2>0. /\ fate \in [Thunks -> {"new", "queued", "taken", "done", "cleared", "refused"}]
        /\ adding \subseteq Entries /\ running \subseteq Thunks
        /\ \A d \in Entries : d.thunk \in Thunks
        /\ \A k \in DOMAIN added : added[k].thunk \in Thunks
    <3>1. \A d \in Entries : d.thunk \in Thunks
      BY DEF Entries
    <3>2. \A k \in DOMAIN added : added[k] \in Entries
      BY DEF TypeOK
    <3> QED BY <3>1, <3>2 DEF TypeOK
  <2>1. ASSUME NEW t \in Thunks, NEW stamp \in Timestamps, BeginAdd(t, stamp)
        PROVE  OrderInv'
    <3>1. UNCHANGED <<todo, added, running>>
      BY <2>1 DEF BeginAdd, workerVars
    <3>2. Sorted'
      BY <3>1 DEF OrderInv, Sorted
    <3>3. CASE worker = "exited"
      <4>1. fate' = [fate EXCEPT ![t] = "refused"] /\ client' # "adding"
        BY <2>1, <3>3 DEF BeginAdd
      <4>2. \A u \in Thunks : fate[u] # "new" => fate'[u] # "new"
        BY <2>0, <4>1
      <4> QED BY <2>0, <3>1, <3>2, <4>1, <4>2 DEF OrderInv
    <3>4. CASE worker # "exited"
      <4>1. /\ fate' = fate /\ fate[t] = "new"
            /\ adding' = {[stamp |-> stamp, thunk |-> t]}
        BY <2>1, <3>4 DEF BeginAdd
      <4>2. \A e \in adding' : fate'[e.thunk] = "new"
        BY <4>1
      <4> QED BY <3>1, <3>2, <4>1, <4>2 DEF OrderInv
    <3> QED BY <3>3, <3>4
  <2>2. CASE FinishAdd
    <3>1. PICK e \in adding : /\ todo' = Inserted(e)
                              /\ added' = Append(added, e)
                              /\ fate' = [fate EXCEPT ![e.thunk] = "queued"]
      BY <2>2 DEF FinishAdd
    <3>2. /\ e \in Entries /\ fate[e.thunk] = "new" /\ client' # "adding"
          /\ UNCHANGED running
      BY <2>0, <2>2 DEF FinishAdd, OrderInv, workerVars
    <3>3. /\ Sorted'
          /\ \A i \in DOMAIN todo' : \E k \in DOMAIN added' : added'[k] = todo'[i]
      BY <3>1, <3>2, InsertionSorted
    <3>4. /\ Len(added) \in Nat /\ DOMAIN added = 1 .. Len(added)
          /\ DOMAIN added' = 1 .. Len(added) + 1
          /\ \A k \in 1 .. Len(added) : added'[k] = added[k]
          /\ added'[Len(added) + 1] = e
      BY <3>1, <3>2 DEF TypeOK
    <3>5. fate'[e.thunk] = "queued" /\ \A u \in Thunks : u # e.thunk => fate'[u] = fate[u]
      BY <2>0, <3>1, <3>2
    <3>6. \A k \in 1 .. Len(added) : added[k].thunk # e.thunk
      BY <3>2, <3>4 DEF OrderInv
    <3>7. \A j, k \in DOMAIN added' : added'[j].thunk = added'[k].thunk => j = k
      <4> SUFFICES ASSUME NEW j \in DOMAIN added', NEW k \in DOMAIN added',
                          added'[j].thunk = added'[k].thunk
                   PROVE  j = k
        OBVIOUS
      <4>1. (j \in 1 .. Len(added) \/ j = Len(added) + 1)
            /\ (k \in 1 .. Len(added) \/ k = Len(added) + 1)
        BY <3>4
      <4> QED BY <3>4, <3>6, <4>1 DEF OrderInv
    <3>8. \A k \in DOMAIN added' : fate'[added'[k].thunk] # "new"
      <4> SUFFICES ASSUME NEW k \in DOMAIN added' PROVE fate'[added'[k].thunk] # "new"
        OBVIOUS
      <4>1. CASE k = Len(added) + 1
        BY <3>4, <3>5, <4>1
      <4>2. CASE k \in 1 .. Len(added)
        <5>1. added'[k] = added[k] /\ fate[added[k].thunk] # "new"
          BY <3>4, <4>2 DEF OrderInv
        <5>2. added[k].thunk \in Thunks /\ added[k].thunk # e.thunk
          BY <2>0, <3>4, <3>6, <4>2
        <5> QED BY <3>5, <5>1, <5>2
      <4> QED BY <3>4, <4>1, <4>2
    <3>9. \A t \in running' : fate'[t] # "new"
      BY <2>0, <3>2, <3>5 DEF OrderInv
    <3> QED BY <3>2, <3>3, <3>7, <3>8, <3>9 DEF OrderInv
  <2>3. ASSUME todo' = <<>>, fate' = Dropped, client' # "adding", UNCHANGED <<added, running>>
        PROVE  OrderInv'
    <3>1. \A u \in Thunks : fate[u] # "new" => fate'[u] # "new"
      BY <2>0, <2>3 DEF Dropped
    <3>2. DOMAIN todo' = {}
      BY <2>3
    <3> QED BY <2>0, <2>3, <3>1, <3>2 DEF OrderInv, Sorted
  <2>4. ASSUME UNCHANGED <<todo, added, running, fate>>,
               client' # "adding" \/ UNCHANGED <<client, adding>>
        PROVE  OrderInv'
    BY <2>4 DEF OrderInv, Sorted
  <2>5. CASE Clear
    BY <2>3, <2>5 DEF Clear, workerVars
  <2>6. CASE SetStop
    BY <2>4, <2>6 DEF SetStop, workerVars
  <2>7. CASE ReleaseAndJoin
    BY <2>3, <2>7 DEF ReleaseAndJoin, workerVars
  <2>8. CASE Joined
    BY <2>4, <2>8 DEF Joined, workerVars
  <2>9. CASE Wait
    BY <2>4, <2>9 DEF Wait, clientVars
  <2>10. CASE CheckStop
    BY <2>4, <2>10 DEF CheckStop, clientVars
  <2>11. CASE Pop
    <3>1. CASE todo = <<>>
      BY <2>4, <2>11, <3>1 DEF Pop, clientVars
    <3>2. CASE todo # <<>>
      <4>1. /\ running' = {Head(todo).thunk} /\ todo' = Tail(todo)
            /\ fate' = [fate EXCEPT ![Head(todo).thunk] = "taken"]
            /\ UNCHANGED <<client, adding, added>>
            /\ client # "adding"
        BY <2>11, <3>2 DEF Pop, clientVars, Locked
      <4>2. /\ Sorted'
            /\ \A i \in DOMAIN todo' : \E k \in DOMAIN added' : added'[k] = todo'[i]
        BY <3>2, <4>1, PopSorted
      <4>3. Head(todo).thunk \in Thunks
        BY <3>2, ShorterTypes
      <4>4. /\ fate'[Head(todo).thunk] = "taken"
            /\ \A u \in Thunks : fate[u] # "new" => fate'[u] # "new"
        BY <2>0, <4>1, <4>3
      <4> QED BY <2>0, <4>1, <4>2, <4>4 DEF OrderInv
    <3> QED BY <3>1, <3>2
  <2>12. ASSUME NEW goOn \in BOOLEAN, Run(goOn) PROVE OrderInv'
    <3>1. PICK t \in running : fate' = [fate EXCEPT ![t] = "done"]
      BY <2>12 DEF Run
    <3>2. running' = {} /\ UNCHANGED <<todo, client, adding, added>>
      BY <2>12 DEF Run, clientVars
    <3>3. \A u \in Thunks : /\ fate[u] # "new" => fate'[u] # "new"
                            /\ fate[u] = "new" => fate'[u] = "new"
      BY <2>0, <3>1 DEF OrderInv
    <3>4. Sorted'
      BY <3>2 DEF OrderInv, Sorted
    <3> QED BY <2>0, <3>2, <3>3, <3>4 DEF OrderInv
  <2>13. CASE UNCHANGED vars
    BY <2>4, <2>13 DEF vars, workerVars, clientVars
  <2> QED BY <2>1, <2>2, <2>5, <2>6, <2>7, <2>8, <2>9, <2>10, <2>11, <2>12, <2>13
          DEF Next, Thread, Client, Destroy
<1> QED BY <1>1, <1>2, TypeCorrect, OrderIsOrdered, PTL DEF Spec

-----------------------------------------------------------------------------
(***************************************************************************)
(* The cache of the icons uses the worker through its operations alone, so *)
(* that what has been proved of the worker holds for it.                   *)
(***************************************************************************)
\* Every step of the window, the user and the callbacks is an operation of the
\* worker, or leaves it alone.
LEMMA IconStepIsWorkerStep == IconInit /\ [][IconNext]_iconVars => Spec
<1>1. IconInit => Init
  BY DEF IconInit
<1>2. [IconNext]_iconVars => [Next]_vars
  <2> SUFFICES ASSUME [IconNext]_iconVars PROVE Next \/ UNCHANGED vars
    OBVIOUS
  <2>1. CASE Wakes
    BY <2>1 DEF Wakes, Next, Thread
  <2>2. ASSUME NEW success \in BOOLEAN, Load(success) PROVE Next
    <3>1. Run(TRUE) /\ TRUE \in BOOLEAN
      BY <2>2 DEF Load
    <3> QED BY <3>1 DEF Next, Thread
  <2>3. CASE Dispatch
    BY <2>3 DEF Dispatch, AnswerUnused, AnswerUsed, Redraw
  <2>4. CASE EndAdd
    BY <2>4 DEF EndAdd, Next, Client
  <2>5. ASSUME NEW t \in Thunks, NEW row \in DOMAIN list, NEW stamp \in Timestamps,
               Display(t, row, stamp)
        PROVE  Next
    <3>1. BeginAdd(t, stamp)
      BY <2>5 DEF Display
    <3> QED BY <3>1 DEF Next, Client
  <2>6. ASSUME NEW rows \in Lists, Relist(rows) PROVE UNCHANGED vars
    BY <2>6 DEF Relist
  <2>7. CASE Refresh
    BY <2>7 DEF Refresh
  <2>8. CASE OnDestroy
    BY <2>8 DEF OnDestroy, Next, Client
  <2>9. CASE DestroyWorker
    BY <2>9 DEF DestroyWorker, Next, Client
  <2>10. CASE UNCHANGED iconVars
    BY <2>10 DEF iconVars
  <2> QED BY <2>1, <2>2, <2>3, <2>4, <2>5, <2>6, <2>7, <2>8, <2>9, <2>10
          DEF IconNext, Loads, User
<1> QED BY <1>1, <1>2, PTL DEF Spec

IconEntries == [counter : Int, valid : BOOLEAN, image : Int]

Messages == {Answer(t, success) : t \in Thunks, success \in BOOLEAN} \cup {RefreshItems}

IconTypeOK ==
  /\ list \in Seq(Paths)
  /\ cache \in [Paths -> IconEntries]
  /\ images \in Seq(Paths)
  /\ asked \in [Thunks -> [path : Paths, row : Nat]]
  /\ messages \in Seq(Messages)

\* An entry that is valid has an image, which was loaded for its path; one that
\* is not has none yet.
Pictured(c, loaded) ==
  \A p \in Paths : c[p] # Absent =>
    IF c[p].valid THEN c[p].image \in 0 .. Len(loaded) - 1 /\ loaded[c[p].image + 1] = p
    ELSE c[p].image = -1

IconInv == IconTypeOK /\ Pictured(cache, images)

\* Eviction takes entries away or changes their counters.
LEMMA EvictedKeepsImages ==
  ASSUME NEW c \in [Paths -> IconEntries]
  PROVE  /\ Evicted(c) \in [Paths -> IconEntries]
         /\ \A p \in Paths : Evicted(c)[p] # Absent =>
              /\ c[p] # Absent
              /\ Evicted(c)[p].valid = c[p].valid /\ Evicted(c)[p].image = c[p].image
<1> DEFINE size == Cardinality(Cached(c))
           kept == [p \in Paths |->
                      IF c[p] = Absent \/ c[p].counter + MaxCache < size THEN Absent
                      ELSE [c[p] EXCEPT !.counter = @ - (size - MaxCache)]]
<1>1. size \in Int /\ MaxCache \in Int
  <2>1. Cached(c) \in SUBSET Paths
    BY DEF Cached
  <2> QED BY <2>1, IconAssumption, FS_Subset, FS_CardinalityType
<1>2. Evicted(c) = IF size < 2 * MaxCache THEN c ELSE kept
  BY DEF Evicted
<1> HIDE DEF size
<1>3. ASSUME NEW p \in Paths
      PROVE  LET e == [c[p] EXCEPT !.counter = @ - (size - MaxCache)]
             IN  e \in IconEntries /\ e.valid = c[p].valid /\ e.image = c[p].image
  <2>1. c[p] \in IconEntries
    OBVIOUS
  <2> QED BY <1>1, <2>1 DEF IconEntries
<1>4. Absent \in IconEntries
  BY DEF Absent, IconEntries
<1>5. kept \in [Paths -> IconEntries]
  BY <1>3, <1>4
<1>6. ASSUME NEW p \in Paths, kept[p] # Absent
      PROVE  c[p] # Absent /\ kept[p].valid = c[p].valid /\ kept[p].image = c[p].image
  BY <1>3, <1>6
<1> HIDE DEF kept
<1> QED BY <1>2, <1>5, <1>6

\* A cache from which entries are taken shows no other images.
LEMMA PicturedFewer ==
  ASSUME NEW c \in [Paths -> IconEntries], NEW d \in [Paths -> IconEntries], NEW loaded,
         Pictured(c, loaded),
         \A p \in Paths : d[p] # Absent =>
           \/ c[p] # Absent /\ d[p].valid = c[p].valid /\ d[p].image = c[p].image
           \/ ~d[p].valid /\ d[p].image = -1
  PROVE  Pictured(d, loaded)
BY DEF Pictured

\* A new entry has no image.
LEMMA EnteredHasNoImage ==
  ASSUME NEW c \in [Paths -> IconEntries], NEW p \in Paths
  PROVE  /\ Entered(c, p) \in [Paths -> IconEntries]
         /\ \A q \in Paths : q # p => Entered(c, p)[q] = c[q]
         /\ ~Entered(c, p)[p].valid /\ Entered(c, p)[p].image = -1
<1> DEFINE n == Cardinality(Cached(c))
<1>1. n \in Int
  <2>1. Cached(c) \in SUBSET Paths
    BY DEF Cached
  <2> QED BY <2>1, IconAssumption, FS_Subset, FS_CardinalityType
<1>2. Entered(c, p) = [c EXCEPT ![p] = NewEntry(n)]
  BY DEF Entered
<1> HIDE DEF n
<1>3. /\ NewEntry(n) \in IconEntries
      /\ ~NewEntry(n).valid /\ NewEntry(n).image = -1
  BY <1>1 DEF NewEntry, IconEntries
<1> HIDE DEF Entered
<1> QED BY <1>2, <1>3

\* What AnswerUsed makes of an entry and of the images.
PlaceFor(c, loaded, p) == IF c[p].image < 0 THEN Len(loaded) ELSE c[p].image
Filled(c, p, image) == [c EXCEPT ![p].image = image, ![p].valid = TRUE]
WithImage(loaded, p, image) ==
  IF image = Len(loaded) THEN Append(loaded, p) ELSE [loaded EXCEPT ![image + 1] = p]

\* The image that an answer brings takes the place of the one the path has, or
\* a place of its own.
LEMMA AnsweredPictured ==
  ASSUME NEW c \in [Paths -> IconEntries], NEW loaded \in Seq(Paths), Pictured(c, loaded),
         NEW p \in Paths, c[p] # Absent
  PROVE  LET image == PlaceFor(c, loaded, p)
         IN  /\ Filled(c, p, image) \in [Paths -> IconEntries]
             /\ WithImage(loaded, p, image) \in Seq(Paths)
             /\ Pictured(Filled(c, p, image), WithImage(loaded, p, image))
<1> DEFINE image == PlaceFor(c, loaded, p)
           d == Filled(c, p, image)
           more == WithImage(loaded, p, image)
<1>a. /\ image = IF c[p].image < 0 THEN Len(loaded) ELSE c[p].image
      /\ d = [c EXCEPT ![p].image = image, ![p].valid = TRUE]
      /\ more = IF image = Len(loaded) THEN Append(loaded, p)
                ELSE [loaded EXCEPT ![image + 1] = p]
  BY DEF PlaceFor, Filled, WithImage
<1> HIDE DEF image, d, more
<1>1. c[p] \in IconEntries /\ Len(loaded) \in Nat
  OBVIOUS
<1>2. /\ c[p].image < 0 => image = Len(loaded)
      /\ ~(c[p].image < 0) => /\ image \in 0 .. Len(loaded) - 1 /\ loaded[image + 1] = p
                              /\ c[p].valid /\ c[p].image = image
  BY <1>a, <1>1 DEF Pictured
<1>3. image \in 0 .. Len(loaded)
  BY <1>1, <1>2
<1>4. /\ d \in [Paths -> IconEntries] /\ \A q \in Paths : q # p => d[q] = c[q]
      /\ d[p].valid /\ d[p].image = image
  <2> DEFINE e == [[c[p] EXCEPT !.image = image] EXCEPT !.valid = TRUE]
  <2>1. e \in IconEntries /\ e.valid /\ e.image = image
    <3>1. image \in Int
      BY <1>1, <1>3
    <3> QED BY <1>1, <3>1 DEF IconEntries
  <2>2. d = [c EXCEPT ![p] = e]
    BY <1>a, <1>1
  <2> HIDE DEF e
  <2> QED BY <2>1, <2>2
<1>5. ASSUME c[p].image < 0 PROVE more \in Seq(Paths) /\ Pictured(d, more)
  <2>1. /\ more = Append(loaded, p) /\ more \in Seq(Paths) /\ Len(more) = Len(loaded) + 1
        /\ more[Len(loaded) + 1] = p /\ \A i \in 1 .. Len(loaded) : more[i] = loaded[i]
    BY <1>a, <1>2, <1>5
  <2>2. ASSUME NEW q \in Paths, d[q] # Absent
        PROVE  IF d[q].valid
               THEN d[q].image \in 0 .. Len(more) - 1 /\ more[d[q].image + 1] = q
               ELSE d[q].image = -1
    <3>1. CASE q = p
      BY <1>1, <1>2, <1>4, <1>5, <2>1, <3>1
    <3>2. CASE q # p
      <4>1. /\ d[q] = c[q]
            /\ IF c[q].valid
               THEN c[q].image \in 0 .. Len(loaded) - 1 /\ loaded[c[q].image + 1] = q
               ELSE c[q].image = -1
        BY <1>4, <2>2, <3>2 DEF Pictured
      <4>2. ASSUME c[q].valid
            PROVE  c[q].image \in 0 .. Len(more) - 1 /\ c[q].image + 1 \in 1 .. Len(loaded)
        BY <1>1, <2>1, <4>1, <4>2
      <4> QED BY <2>1, <4>1, <4>2
    <3> QED BY <3>1, <3>2
  <2> QED BY <1>4, <2>1, <2>2 DEF Pictured
<1>6. ASSUME ~(c[p].image < 0) PROVE more \in Seq(Paths) /\ Pictured(d, more)
  <2>1. more = loaded
    BY <1>a, <1>1, <1>2, <1>6
  <2>2. ASSUME NEW q \in Paths, d[q] # Absent
        PROVE  IF d[q].valid
               THEN d[q].image \in 0 .. Len(loaded) - 1 /\ loaded[d[q].image + 1] = q
               ELSE d[q].image = -1
    <3>1. CASE q = p
      BY <1>2, <1>4, <1>6, <3>1
    <3>2. CASE q # p
      BY <1>4, <2>2, <3>2 DEF Pictured
    <3> QED BY <3>1, <3>2
  <2> QED BY <1>4, <2>1, <2>2 DEF Pictured
<1> QED BY <1>4, <1>5, <1>6 DEF d, more, image

LEMMA NothingPictured ==
  ASSUME NEW loaded
  PROVE  /\ [p \in Paths |-> Absent] \in [Paths -> IconEntries]
         /\ Pictured([p \in Paths |-> Absent], loaded)
BY DEF Absent, IconEntries, Pictured

LEMMA NoRequestType == NoRequest \in [path : Paths, row : Nat]
BY IconAssumption DEF NoRequest

\* Messages are posted at the end and taken from the beginning.
LEMMA HeadOfMessages ==
  ASSUME messages \in Seq(Messages), messages # <<>>
  PROVE  /\ Tail(messages) \in Seq(Messages)
         /\ Head(messages).kind = "icon" =>
              Head(messages).request \in Thunks /\ Head(messages) # RefreshItems
         /\ Head(messages) = messages[1] /\ Len(messages) \in Nat \ {0}
         /\ \A i \in 1 .. Len(messages) - 1 : Tail(messages)[i] = messages[i + 1]
         /\ Len(Tail(messages)) = Len(messages) - 1
<1>1. /\ Tail(messages) \in Seq(Messages) /\ Head(messages) \in Messages
      /\ Head(messages) = messages[1] /\ Len(messages) \in Nat \ {0}
      /\ \A i \in 1 .. Len(messages) - 1 : Tail(messages)[i] = messages[i + 1]
      /\ Len(Tail(messages)) = Len(messages) - 1
  OBVIOUS
<1>2. Head(messages).kind = "icon" =>
        Head(messages).request \in Thunks /\ Head(messages) # RefreshItems
  BY <1>1 DEF Messages, Answer, RefreshItems
<1> QED BY <1>1, <1>2

LEMMA IconInvInit == IconInit => IconInv
<1> SUFFICES ASSUME IconInit PROVE IconInv
  OBVIOUS
<1>1. /\ list \in Lists /\ cache = [p \in Paths |-> Absent] /\ images = <<>> /\ messages = <<>>
      /\ asked = [t \in Thunks |-> NoRequest]
  BY DEF IconInit
<1>2. cache \in [Paths -> IconEntries] /\ Pictured(cache, images)
  BY <1>1, NothingPictured
<1>3. asked \in [Thunks -> [path : Paths, row : Nat]]
  BY <1>1, NoRequestType
<1>4. list \in Seq(Paths)
  BY <1>1, IconAssumption
<1>5. images \in Seq(Paths) /\ messages \in Seq(Messages)
  BY <1>1
<1> QED BY <1>2, <1>3, <1>4, <1>5 DEF IconInv, IconTypeOK

LEMMA IconInvNext == TypeOK /\ IconInv /\ [IconNext]_iconVars => IconInv'
<1> SUFFICES ASSUME TypeOK, IconInv, [IconNext]_iconVars PROVE IconInv'
  OBVIOUS
<1>0. /\ list \in Seq(Paths) /\ cache \in [Paths -> IconEntries] /\ images \in Seq(Paths)
      /\ asked \in [Thunks -> [path : Paths, row : Nat]] /\ messages \in Seq(Messages)
      /\ Pictured(cache, images)
  BY DEF IconInv, IconTypeOK
<1>1. CASE Wakes \/ EndAdd \/ DestroyWorker
  BY <1>0, <1>1 DEF Wakes, EndAdd, DestroyWorker, cacheVars, IconInv, IconTypeOK
<1>2. ASSUME NEW success \in BOOLEAN, Load(success) PROVE IconInv'
  <2>1. PICK t \in running :
          messages' = IF window = "open" THEN Append(messages, Answer(t, success)) ELSE <<>>
    BY <1>2 DEF Load
  <2>2. Answer(t, success) \in Messages
    BY DEF TypeOK, Messages
  <2>3. messages' \in Seq(Messages)
    BY <1>0, <2>1, <2>2
  <2> QED BY <1>0, <1>2, <2>3 DEF Load, cacheVars, IconInv, IconTypeOK
<1>3. CASE AnswerUnused
  <2> DEFINE t == Head(messages).request
  <2>1. /\ messages # <<>> /\ Head(messages).kind = "icon" /\ messages' = Tail(messages)
        /\ cache' = Erased(cache, EntryOf(t)) /\ asked' = [asked EXCEPT ![t] = NoRequest]
        /\ list' = list /\ images' = images
    BY <1>3 DEF AnswerUnused
  <2>2. t \in Thunks /\ messages' \in Seq(Messages)
    BY <1>0, <2>1, HeadOfMessages
  <2> HIDE DEF t
  <2>3. asked' \in [Thunks -> [path : Paths, row : Nat]]
    BY <1>0, <2>1, <2>2, NoRequestType
  <2>4. EntryOf(t) \in Paths
    BY <1>0, <2>2 DEF EntryOf
  <2>5. Absent \in IconEntries
    BY DEF Absent, IconEntries
  <2>6. /\ cache' \in [Paths -> IconEntries]
        /\ \A p \in Paths : cache'[p] # Absent => cache'[p] = cache[p]
    BY <1>0, <2>1, <2>4, <2>5 DEF Erased
  <2>7. Pictured(cache, images) => Pictured(cache', images)
    BY <2>6 DEF Pictured
  <2> QED BY <1>0, <2>1, <2>2, <2>3, <2>6, <2>7 DEF IconInv, IconTypeOK
<1>4. CASE AnswerUsed
  <2> DEFINE t == Head(messages).request
             p == EntryOf(t)
             image == IF cache[p].image < 0 THEN Len(images) ELSE cache[p].image
  <2>1. /\ messages # <<>> /\ Head(messages).kind = "icon" /\ cache[p] # Absent
        /\ cache' = [cache EXCEPT ![p].image = image, ![p].valid = TRUE]
        /\ images' = IF image = Len(images) THEN Append(images, asked[t].path)
                     ELSE [images EXCEPT ![image + 1] = asked[t].path]
        /\ asked' = [asked EXCEPT ![t] = NoRequest]
        /\ messages' = Tail(messages) \o (IF invalidated THEN <<>> ELSE <<RefreshItems>>)
        /\ list' = list
    BY <1>4 DEF AnswerUsed
  <2>2. t \in Thunks /\ Tail(messages) \in Seq(Messages)
    BY <1>0, <2>1, HeadOfMessages
  <2> HIDE DEF t
  <2>3. asked' \in [Thunks -> [path : Paths, row : Nat]]
    BY <1>0, <2>1, <2>2, NoRequestType
  <2>4. messages' \in Seq(Messages)
    <3>1. RefreshItems \in Messages
      BY DEF Messages
    <3>2. (IF invalidated THEN <<>> ELSE <<RefreshItems>>) \in Seq(Messages)
      BY <3>1
    <3> QED BY <2>1, <2>2, <3>2, ConcatProperties
  <2>5. p \in Paths /\ asked[t].path = p
    BY <1>0, <2>2 DEF EntryOf
  <2> HIDE DEF p
  <2>6. /\ cache' \in [Paths -> IconEntries] /\ images' \in Seq(Paths)
        /\ Pictured(cache', images')
    <3> HIDE DEF image
    <3>1. image = PlaceFor(cache, images, p)
      BY DEF image, PlaceFor
    <3>2. cache' = Filled(cache, p, image) /\ images' = WithImage(images, p, image)
      BY <2>1, <2>5 DEF Filled, WithImage
    <3>3. cache[p] # Absent
      BY <2>1
    <3>4. /\ Filled(cache, p, image) \in [Paths -> IconEntries]
          /\ WithImage(images, p, image) \in Seq(Paths)
          /\ Pictured(Filled(cache, p, image), WithImage(images, p, image))
      BY <1>0, <2>5, <3>1, <3>3, AnsweredPictured
    <3> QED BY <3>2, <3>4
  <2> QED BY <1>0, <2>1, <2>3, <2>4, <2>6 DEF IconInv, IconTypeOK
<1>5. CASE Redraw
  <2>1. messages # <<>> /\ messages' = Tail(messages)
    BY <1>5 DEF Redraw
  <2>2. messages' \in Seq(Messages)
    BY <1>0, <2>1
  <2> QED BY <1>0, <1>5, <2>2 DEF Redraw, cacheVars, IconInv, IconTypeOK
<1>6. ASSUME NEW t \in Thunks, NEW row \in DOMAIN list, NEW stamp \in Timestamps,
             Display(t, row, stamp)
      PROVE  IconInv'
  <2>1. /\ cache' = Entered(Evicted(cache), list[row])
        /\ asked' = [asked EXCEPT ![t] = [path |-> list[row], row |-> row]]
        /\ list' = list /\ images' = images /\ messages' = messages
    BY <1>6 DEF Display
  <2>2. list[row] \in Paths /\ row \in Nat
    BY <1>0
  <2>3. asked' \in [Thunks -> [path : Paths, row : Nat]]
    BY <1>0, <2>1, <2>2
  <2> DEFINE c == Evicted(cache)
             d == Entered(c, list[row])
  <2>4. /\ c \in [Paths -> IconEntries]
        /\ \A p \in Paths : c[p] # Absent =>
             cache[p] # Absent /\ c[p].valid = cache[p].valid /\ c[p].image = cache[p].image
    BY <1>0, EvictedKeepsImages
  <2> HIDE DEF c
  <2>5. /\ d \in [Paths -> IconEntries]
        /\ \A q \in Paths : q # list[row] => d[q] = c[q]
        /\ ~d[list[row]].valid /\ d[list[row]].image = -1
    BY <2>2, <2>4, EnteredHasNoImage
  <2> HIDE DEF d
  <2>6. \A p \in Paths : d[p] # Absent =>
          \/ cache[p] # Absent /\ d[p].valid = cache[p].valid /\ d[p].image = cache[p].image
          \/ ~d[p].valid /\ d[p].image = -1
    BY <2>4, <2>5
  <2>7. Pictured(d, images)
    BY <1>0, <2>5, <2>6, PicturedFewer
  <2>8. cache' = d
    BY <2>1 DEF c, d
  <2> QED BY <1>0, <2>1, <2>3, <2>5, <2>7, <2>8 DEF IconInv, IconTypeOK
<1>7. ASSUME NEW rows \in Lists, Relist(rows) PROVE IconInv'
  <2>1. rows \in Seq(Paths) /\ list' = rows
    BY <1>7, IconAssumption DEF Relist
  <2> QED BY <1>0, <1>7, <2>1 DEF Relist, cacheVars, IconInv, IconTypeOK
<1>8. CASE Refresh
  <2>1. cache' = [p \in Paths |-> Absent]
    BY <1>8 DEF Refresh
  <2>2. cache' \in [Paths -> IconEntries] /\ Pictured(cache', images)
    BY <2>1, NothingPictured
  <2> QED BY <1>0, <1>8, <2>2 DEF Refresh, IconInv, IconTypeOK
<1>9. CASE OnDestroy
  <2>1. /\ cache' = [p \in Paths |-> Absent] /\ images' = <<>> /\ messages' = <<>>
        /\ asked' = [t \in Thunks |-> NoRequest] /\ list' = list
    BY <1>9 DEF OnDestroy
  <2>2. cache' \in [Paths -> IconEntries] /\ Pictured(cache', images')
    BY <2>1, NothingPictured
  <2>3. asked' \in [Thunks -> [path : Paths, row : Nat]]
    BY <2>1, NoRequestType
  <2>4. images' \in Seq(Paths) /\ messages' \in Seq(Messages)
    BY <2>1
  <2> QED BY <1>0, <2>1, <2>2, <2>3, <2>4 DEF IconInv, IconTypeOK
<1>10. CASE UNCHANGED iconVars
  BY <1>0, <1>10 DEF iconVars, cacheVars, IconInv, IconTypeOK
<1> QED BY <1>1, <1>2, <1>3, <1>4, <1>5, <1>6, <1>7, <1>8, <1>9, <1>10
        DEF IconNext, Loads, Dispatch, User

\* What the worker guarantees holds for the icons.
THEOREM IconInvariant == IconSpec => []TypeOK /\ []IconInv
<1>1. IconSpec => Spec
  BY IconStepIsWorkerStep, PTL DEF IconSpec
<1> QED BY <1>1, TypeCorrect, IconInvInit, IconInvNext, PTL DEF IconSpec

\* IconCache!IconOfItsPath: no row is drawn with the icon of another file, nor
\* do two paths share an image, in caches of any size and with any evictions,
\* new lists and late answers between a request and its answer.
THEOREM IconsBelongToTheirPaths == IconSpec => []IconOfItsPath
<1>1. IconInv => IconOfItsPath
  <2> SUFFICES ASSUME IconInv PROVE IconOfItsPath
    OBVIOUS
  <2>1. \A p \in Cached(cache) :
          /\ p \in Paths
          /\ IF cache[p].valid
             THEN cache[p].image \in 0 .. Len(images) - 1 /\ images[cache[p].image + 1] = p
             ELSE cache[p].image = -1
    BY DEF IconInv, Pictured, Cached
  <2>2. ASSUME NEW p \in Cached(cache), NEW q \in Cached(cache),
               cache[p].valid, cache[p].image = cache[q].image
        PROVE  p = q
    <3>1. cache[q].valid
      BY <2>1, <2>2
    <3> QED BY <2>1, <2>2, <3>1
  <2> QED BY <2>1, <2>2 DEF IconOfItsPath
<1> QED BY <1>1, IconInvariant, PTL

\* IconCache!RedrawOnItsWay: while rows wait to be redrawn a message to do so is
\* in the queue of the window.
THEOREM RowsAreRedrawn == IconSpec => []RedrawOnItsWay
<1>1. IconInit => RedrawOnItsWay
  BY DEF IconInit, RedrawOnItsWay
<1>2. IconInv /\ RedrawOnItsWay /\ [IconNext]_iconVars => RedrawOnItsWay'
  <2> SUFFICES ASSUME IconInv, RedrawOnItsWay, [IconNext]_iconVars,
                      window' = "open", invalidated'
               PROVE  Contains(messages', RefreshItems)
    BY DEF RedrawOnItsWay
  <2>0. messages \in Seq(Messages) /\ Len(messages) \in Nat
    BY DEF IconInv, IconTypeOK
  <2>1. ASSUME window = "open", invalidated
        PROVE  \E i \in 1 .. Len(messages) : messages[i] = RefreshItems
    BY <2>1 DEF RedrawOnItsWay, Contains
  <2>2. CASE UNCHANGED <<messages, invalidated, window>>
    BY <2>1, <2>2 DEF Contains
  <2>3. ASSUME NEW success \in BOOLEAN, Load(success)
        PROVE  Contains(messages', RefreshItems)
    <3>1. window = "open" /\ invalidated
      BY <2>3 DEF Load
    <3>2. PICK t \in running : messages' = Append(messages, Answer(t, success))
      BY <2>3, <3>1 DEF Load
    <3>3. /\ Len(messages') = Len(messages) + 1
          /\ \A i \in 1 .. Len(messages) : messages'[i] = messages[i]
      BY <2>0, <3>2
    <3>4. \A i \in 1 .. Len(messages) : i \in 1 .. Len(messages')
      BY <2>0, <3>3
    <3> QED BY <2>1, <3>1, <3>3, <3>4 DEF Contains
  <2>4. ASSUME messages # <<>>, Head(messages).kind = "icon", window = "open", invalidated
        PROVE  \E i \in 1 .. Len(Tail(messages)) : Tail(messages)[i] = RefreshItems
    <3>1. PICK i \in 1 .. Len(messages) : messages[i] = RefreshItems
      BY <2>1, <2>4
    <3>2. i # 1
      BY <2>0, <2>4, <3>1, HeadOfMessages
    <3>3. i - 1 \in 1 .. Len(messages) - 1 /\ (i - 1) + 1 = i
      BY <2>0, <3>2
    <3>4. Tail(messages)[i - 1] = messages[i] /\ Len(Tail(messages)) = Len(messages) - 1
      BY <2>0, <2>4, <3>3, HeadOfMessages
    <3> QED BY <3>1, <3>3, <3>4
  <2>5. CASE AnswerUnused
    <3>1. /\ window = "open" /\ invalidated /\ messages # <<>> /\ Head(messages).kind = "icon"
          /\ messages' = Tail(messages)
      BY <2>5 DEF AnswerUnused
    <3> QED BY <2>4, <3>1 DEF Contains
  <2>6. CASE AnswerUsed
    <3>1. /\ window = "open" /\ messages # <<>> /\ Head(messages).kind = "icon"
          /\ messages' = Tail(messages) \o (IF invalidated THEN <<>> ELSE <<RefreshItems>>)
      BY <2>6 DEF AnswerUsed
    <3>2. Tail(messages) \in Seq(Messages)
      BY <2>0, <3>1
    <3>3. CASE invalidated
      <4>1. messages' = Tail(messages)
        BY <3>1, <3>2, <3>3
      <4> QED BY <2>4, <3>1, <3>3, <4>1 DEF Contains
    <3>4. CASE ~invalidated
      <4>1. messages' = Tail(messages) \o <<RefreshItems>>
        BY <3>1, <3>4
      <4>2. /\ Len(messages') = Len(Tail(messages)) + 1
            /\ messages'[Len(Tail(messages)) + 1] = RefreshItems
            /\ Len(Tail(messages)) \in Nat
        BY <3>2, <4>1
      <4>3. Len(messages') \in 1 .. Len(messages')
        BY <4>2
      <4> QED BY <4>2, <4>3 DEF Contains
    <3> QED BY <3>3, <3>4
  <2>7. ASSUME Flushed PROVE FALSE
    BY <2>7 DEF Flushed
  <2>8. CASE OnDestroy
    BY <2>8 DEF OnDestroy
  <2>9. CASE Wakes \/ EndAdd \/ DestroyWorker \/ UNCHANGED iconVars
    BY <2>2, <2>9 DEF Wakes, EndAdd, DestroyWorker, iconVars
  <2>10. ASSUME NEW t \in Thunks, NEW row \in DOMAIN list, NEW stamp \in Timestamps,
                Display(t, row, stamp)
         PROVE  Contains(messages', RefreshItems)
    BY <2>2, <2>10 DEF Display
  <2>11. ASSUME NEW rows \in Lists, Relist(rows) PROVE FALSE
    BY <2>7, <2>11 DEF Relist
  <2>12. CASE Redraw \/ Refresh
    BY <2>7, <2>12 DEF Redraw, Refresh
  <2> QED BY <2>3, <2>5, <2>6, <2>8, <2>9, <2>10, <2>11, <2>12
          DEF IconNext, Loads, Dispatch, User
<1> QED BY <1>1, <1>2, IconInvariant, PTL DEF IconSpec
=============================================================================
