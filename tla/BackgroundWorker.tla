-------------------------- MODULE BackgroundWorker --------------------------
(***************************************************************************)
(* The class BackgroundWorkerImpl of src/util/background_worker.hpp: one   *)
(* thread that runs thunks in descending order of a timestamp.  todo is    *)
(* guarded by a critical section, a semaphore counts the thunks added, and *)
(* stop is a plain flag that the destructor sets before it takes the lock. *)
(* The dialog (the client) loads its icons with it: it adds thunks while   *)
(* it scrolls, clears the list when it is destroyed and then destroys the  *)
(* worker.                                                                 *)
(***************************************************************************)
EXTENDS Integers, Sequences, FiniteSets, SequencesExt

CONSTANTS
  Thunks,      \* the thunks the client may add
  Timestamps,  \* values of insert_before_timestamp
  Stopping,    \* thunks whose callback may return false
  MaxClear     \* bound: calls of clear()
ASSUME WorkerAssumption ==
  /\ IsFiniteSet(Thunks) /\ Stopping \subseteq Thunks
  /\ Timestamps \subseteq Int /\ MaxClear \in Nat

VARIABLES
  todo,       \* todo: [stamp, thunk]
  semaphore,  \* the count of hSemaphore
  stop,       \* stop
  worker,     \* where the background thread is
  running,    \* the thunk it runs, if any
  client,     \* where the client is
  adding,     \* the entry whose insertion has begun, if any
  clears,     \* calls of clear() so far
  added,      \* history: the entries in the order they entered todo
  fate        \* history: what became of every thunk

workerVars == <<worker, running>>
clientVars == <<client, adding, clears>>
vars == <<todo, semaphore, stop, workerVars, clientVars, added, fate>>
-----------------------------------------------------------------------------
Entries == [stamp : Timestamps, thunk : Thunks]

TypeOK ==
  /\ todo \in Seq(Entries)
  /\ semaphore \in Nat /\ stop \in BOOLEAN
  /\ worker \in {"waiting", "woken", "popping", "running", "exited"}
  /\ running \subseteq Thunks
  /\ client \in {"idle", "adding", "stopping", "joining", "destroyed"}
  /\ adding \subseteq Entries
  /\ clears \in 0 .. MaxClear
  /\ added \in Seq(Entries)
  /\ fate \in [Thunks -> {"new", "queued", "taken", "done", "cleared", "refused"}]

Init ==
  /\ todo = <<>> /\ semaphore = 0 /\ stop = FALSE
  /\ worker = "waiting" /\ running = {}
  /\ client = "idle" /\ adding = {} /\ clears = 0
  /\ added = <<>>
  /\ fate = [t \in Thunks |-> "new"]

\* The client holds criticalSection while it inserts and while it joins; the
\* critical sections of the worker and of clear() are single steps.
Locked == client \in {"adding", "joining"}

(***************************************************************************)
(* The client.                                                             *)
(***************************************************************************)
\* Mutant: the entry goes before the entries with the same stamp.
InsertedBefore(e) ==
  LET i == Cardinality({k \in DOMAIN todo :
                          \A j \in 1 .. k : e.stamp < todo[j].stamp})
  IN  InsertAt(todo, i + 1, e)

\* add(): the entry goes behind all entries with the same or a later stamp.
Inserted(e) ==
  LET i == Cardinality({k \in DOMAIN todo :
                          \A j \in 1 .. k : e.stamp =< todo[j].stamp})
  IN  InsertAt(todo, i + 1, e)

\* Under the lock, GetExitCodeThread decides: a worker that has ended refuses.
BeginAdd(t, stamp) ==
  /\ client = "idle" /\ fate[t] = "new"
  /\ IF worker = "exited"
     THEN /\ fate' = [fate EXCEPT ![t] = "refused"]
          /\ UNCHANGED <<client, adding>>
     ELSE /\ client' = "adding"
          /\ adding' = {[stamp |-> stamp, thunk |-> t]}
          /\ UNCHANGED fate
  /\ UNCHANGED <<todo, semaphore, stop, workerVars, clears, added>>

\* Mutant: the semaphore is released only when todo was empty.
FinishAddFirstOnly ==
  /\ client = "adding"
  /\ \E e \in adding :
       /\ todo' = Inserted(e)
       /\ added' = Append(added, e)
       /\ fate' = [fate EXCEPT ![e.thunk] = "queued"]
  /\ semaphore' = IF todo = <<>> THEN semaphore + 1 ELSE semaphore
  /\ client' = "idle" /\ adding' = {}
  /\ UNCHANGED <<stop, workerVars, clears>>

FinishAdd ==
  /\ client = "adding"
  /\ \E e \in adding :
       /\ todo' = Inserted(e)
       /\ added' = Append(added, e)
       /\ fate' = [fate EXCEPT ![e.thunk] = "queued"]
  /\ semaphore' = semaphore + 1
  /\ client' = "idle" /\ adding' = {}
  /\ UNCHANGED <<stop, workerVars, clears>>

\* The thunks are dropped from todo (and their memory is not freed); the
\* semaphore keeps its count.
Dropped == [t \in Thunks |-> IF fate[t] = "queued" THEN "cleared" ELSE fate[t]]

Clear ==
  /\ client = "idle" /\ clears < MaxClear
  /\ clears' = clears + 1
  /\ todo' = <<>>
  /\ fate' = Dropped
  /\ UNCHANGED <<semaphore, stop, workerVars, client, adding, added>>

\* The destructor sets stop, and then, under the lock, clears the list,
\* releases the semaphore once and waits for the thread.
SetStop ==
  /\ client = "idle"
  /\ stop' = TRUE
  /\ client' = "stopping"
  /\ UNCHANGED <<todo, semaphore, workerVars, adding, clears, added, fate>>

ReleaseAndJoin ==
  /\ client = "stopping"
  /\ todo' = <<>>
  /\ fate' = Dropped
  /\ semaphore' = semaphore + 1
  /\ client' = "joining"
  /\ UNCHANGED <<stop, workerVars, adding, clears, added>>

Joined ==
  /\ client = "joining" /\ worker = "exited"
  /\ client' = "destroyed"
  /\ UNCHANGED <<todo, semaphore, stop, workerVars, adding, clears, added, fate>>

(***************************************************************************)
(* process(), the background thread.                                       *)
(***************************************************************************)
Wait ==
  /\ worker = "waiting" /\ semaphore > 0
  /\ semaphore' = semaphore - 1
  /\ worker' = "woken"
  /\ UNCHANGED <<todo, stop, running, clientVars, added, fate>>

CheckStop ==
  /\ worker = "woken"
  /\ worker' = IF stop THEN "exited" ELSE "popping"
  /\ UNCHANGED <<todo, semaphore, stop, running, clientVars, added, fate>>

Pop ==
  /\ worker = "popping" /\ ~Locked
  /\ IF todo = <<>>
     THEN worker' = "waiting" /\ UNCHANGED <<todo, running, fate>>
     ELSE /\ running' = {Head(todo).thunk}
          /\ todo' = Tail(todo)
          /\ fate' = [fate EXCEPT ![Head(todo).thunk] = "taken"]
          /\ worker' = "running"
  /\ UNCHANGED <<semaphore, stop, clientVars, added>>

\* The thunk returns; false ends the thread.
Run(goOn) ==
  /\ worker = "running"
  /\ \E t \in running : /\ goOn \/ t \in Stopping
                        /\ fate' = [fate EXCEPT ![t] = "done"]
  /\ running' = {}
  /\ worker' = IF goOn THEN "waiting" ELSE "exited"
  /\ UNCHANGED <<todo, semaphore, stop, clientVars, added>>
-----------------------------------------------------------------------------
Thread == Wait \/ CheckStop \/ Pop \/ \E goOn \in BOOLEAN : Run(goOn)
Destroy == ReleaseAndJoin \/ Joined
Client ==
  \/ \E t \in Thunks, stamp \in Timestamps : BeginAdd(t, stamp)
  \/ FinishAdd \/ Clear \/ SetStop \/ Destroy

Next == Thread \/ Client

Spec == Init /\ [][Next]_vars

\* The thread is scheduled, an add() or a destructor once begun goes on; the
\* client need not add, clear or destroy anything.
Fairness == WF_vars(Thread) /\ WF_vars(FinishAdd \/ Destroy)

FairSpec == Spec /\ Fairness
-----------------------------------------------------------------------------
(***************************************************************************)
(* Properties.                                                             *)
(***************************************************************************)
\* Wake-ups the worker has consumed and not yet turned into a look at todo.
InHand == IF worker \in {"woken", "popping"} THEN 1 ELSE 0

\* No thunk is left behind while the worker sleeps: the semaphore and the
\* wake-up in hand cover every entry of todo.  clear() leaves its wake-ups
\* behind, so there may be more of them, but never fewer.
WakeUpsCoverTodo == worker # "exited" => semaphore + InHand >= Len(todo)

\* todo is in the order the timestamps ask for, and entries with the same
\* timestamp keep the order of their add() calls, whatever was popped,
\* cleared or inserted in between.
TodoOrdered ==
  LET Added(e) == CHOOSE k \in DOMAIN added : added[k] = e
  IN  \A i, j \in DOMAIN todo : i < j =>
        \/ todo[i].stamp > todo[j].stamp
        \/ todo[i].stamp = todo[j].stamp /\ Added(todo[i]) < Added(todo[j])

\* background_worker.hpp:120: the destructor waits for the thread and throws
\* "The background thread did not terminate properly." when it did not; it
\* comes to an end either way.
DestructorReturns == (client = "stopping") ~> (client = "destroyed")
=============================================================================
