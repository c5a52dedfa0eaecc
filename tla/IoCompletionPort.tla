-------------------------- MODULE IoCompletionPort --------------------------
(***************************************************************************)
(* The class IoCompletionPort of src/io/io_completion_port.hpp: a pool of  *)
(* worker threads around one kernel completion port.                       *)
(*                                                                         *)
(* An Overlapped object is either posted directly (a job: the owner posts  *)
(* one payload per drive) or handed to read_file() by a running callback   *)
(* (a read).  read_file() only appends a task to _pending and posts a      *)
(* key 1 packet; a worker that dequeues the packet takes the pending task  *)
(* of highest priority and issues the ReadFile; the kernel queues the      *)
(* completion; a worker dequeues it and runs the callback.  close() posts  *)
(* one termination packet per thread, joins the threads and then runs the  *)
(* worker loop once more on the calling thread.                            *)
(*                                                                         *)
(* One action is one region between two points at which another thread can *)
(* act: a critical section of _mutex, one access to _terminated, or one    *)
(* call of the kernel.  The kernel's completion queue is FIFO.             *)
(***************************************************************************)
EXTENDS Integers, Sequences, FiniteSets, SequencesExt, PendingScan

CONSTANTS
  Workers,      \* the threads of _threads
  Main,         \* the thread that owns the port: it posts jobs and closes
  Jobs,         \* Overlapped objects passed to post()
  Reads,        \* Overlapped objects passed to read_file()
  None,
  Files,        \* file handles
  FileOf,       \* the handle each read is for
  EmptyReads,   \* reads of zero bytes (task.cb = 0)
  Faulty,       \* reads whose ReadFile or whose I/O may fail
  Guarded,      \* objects whose callback catches CStructured_Exception
  Priorities,   \* I/O priority hints
  MaxRequeue,   \* bound: how often a callback may ask to be queued again
  MaxClose      \* bound: calls of close() (the destructor calls it too)

Threads == Workers \cup {Main}
Ops     == Jobs \cup Reads

ASSUME ThreadsAssumption ==
  IsFiniteSet(Workers) /\ Workers # {} /\ Main \notin Workers
ASSUME OpsAssumption ==
  /\ Jobs \cap Reads = {}
  /\ None \notin Ops
  /\ FileOf \in [Reads -> Files]
  /\ EmptyReads \subseteq Reads /\ Faulty \subseteq Reads /\ Guarded \subseteq Ops
ASSUME BoundsAssumption ==
  /\ Priorities \subseteq Nat /\ Priorities # {}
  /\ MaxRequeue \in Nat /\ MaxClose \in Nat

VARIABLES
  initialized,  \* _initialized: the worker threads have been started
  terminated,   \* _terminated
  queue,        \* the packets of the completion port
  pending,      \* _pending: [op, by], by being issuing_thread_id
  scan,         \* _pending_scan_offset
  priority,     \* the priority hint of every file handle
  kernel,       \* reads the operating system is working on
  pc,           \* where each thread is
  cur,          \* the Overlapped object each thread is handling
  toPost,       \* termination packets close() has still to post
  closes,       \* calls of close() so far
  fate,         \* history: what became of every Overlapped object
  runs          \* history: how often the callback of each object was called

portVars == <<initialized, terminated, queue, pending, scan>>
mainVars == <<toPost, closes>>
histVars == <<fate, runs>>
vars == <<portVars, priority, kernel, pc, cur, mainVars, histVars>>
-----------------------------------------------------------------------------
\* Packets: key 0 with no object terminates, key 1 with no object announces a
\* pending task, and a packet with an object is a completion whatever its key.
Packets == [key : {0, 1}, op : Ops \cup {None}, ok : BOOLEAN]
Terminate == [key |-> 0, op |-> None, ok |-> TRUE]
Signal    == [key |-> 1, op |-> None, ok |-> TRUE]
Completion(o, ok) == [key |-> 0, op |-> o, ok |-> ok]

IsTerminate(p) == p.op = None /\ p.key = 0
IsSignal(p)    == p.op = None /\ p.key = 1
IsCompletion(p) == p.op # None

Tasks    == [op : Reads, by : Threads]
InFlight == [op : Reads, by : Threads, cancelled : BOOLEAN]

WorkerPoints == {"unborn", "wait", "callback", "signal", "select", "enqueue",
                 "post", "terminate", "cancel", "exited"}
MainPoints   == {"open", "closing", "join", "closed"}
Fates == {"new", "live", "done", "kept", "dropped", "leaked"}

TypeOK ==
  /\ initialized \in BOOLEAN /\ terminated \in BOOLEAN
  /\ queue \in Seq(Packets)
  /\ pending \in Seq(Tasks)
  /\ scan \in Nat
  /\ priority \in [Files -> Priorities]
  /\ kernel \in SUBSET InFlight
  /\ pc \in [Threads -> WorkerPoints \cup MainPoints]
  /\ cur \in [Threads -> Ops \cup {None}]
  /\ toPost \in Nat /\ closes \in Nat
  /\ fate \in [Ops -> Fates]
  /\ runs \in [Ops -> Nat]

Init ==
  /\ initialized = FALSE /\ terminated = FALSE
  /\ queue = <<>> /\ pending = <<>> /\ scan = 0
  /\ priority \in [Files -> Priorities]
  /\ kernel = {}
  /\ pc = [t \in Threads |-> IF t = Main THEN "open" ELSE "unborn"]
  /\ cur = [t \in Threads |-> None]
  /\ toPost = 0 /\ closes = 0
  /\ fate = [o \in Ops |-> "new"]
  /\ runs = [o \in Ops |-> 0]
-----------------------------------------------------------------------------
At(t, point)   == pc[t] = point
Goto(t, point) == pc' = [pc EXCEPT ![t] = point]

\* Leaving worker(): a thread of the pool ends, the owner's close() returns.
LoopEnd(t) == IF t = Main THEN "closed" ELSE "exited"

\* try_post(): the packets that are refused once _terminated is set.
Refused(p) == terminated /\ ~IsTerminate(p)

\* The thread ends the handling of its object, whose fate is f.
Settle(t, f) ==
  /\ fate' = [fate EXCEPT ![cur[t]] = f]
  /\ cur' = [cur EXCEPT ![t] = None]

(***************************************************************************)
(* Kernel: the completion of an issued read is queued, with the read's     *)
(* status.  A read can fail by itself or because CancelIo reached it.      *)
(***************************************************************************)
KernelSucceeds(k) ==
  /\ k \in kernel
  /\ kernel' = kernel \ {k}
  /\ queue' = Append(queue, Completion(k.op, TRUE))
  /\ UNCHANGED <<initialized, terminated, pending, scan, priority, pc, cur,
                 mainVars, histVars>>

KernelFails(k) ==
  /\ k \in kernel
  /\ k.cancelled \/ k.op \in Faulty
  /\ kernel' = kernel \ {k}
  /\ queue' = Append(queue, Completion(k.op, FALSE))
  /\ UNCHANGED <<initialized, terminated, pending, scan, priority, pc, cur,
                 mainVars, histVars>>

\* IoPriority::set, called by the owner while reads are pending.
SetPriority(f, p) ==
  /\ At(Main, "open")
  /\ p # priority[f]
  /\ priority' = [priority EXCEPT ![f] = p]
  /\ UNCHANGED <<portVars, kernel, pc, cur, mainVars, histVars>>

(***************************************************************************)
(* The owner: post() starts the pool on first use.                         *)
(***************************************************************************)
PostJob(j) ==
  /\ At(Main, "open")
  /\ fate[j] = "new"
  /\ initialized' = TRUE
  /\ pc' = [t \in Threads |-> IF At(t, "unborn") THEN "wait" ELSE pc[t]]
  /\ queue' = Append(queue, Completion(j, TRUE))
  /\ fate' = [fate EXCEPT ![j] = "live"]
  /\ UNCHANGED <<terminated, pending, scan, priority, kernel, cur, mainVars, runs>>

(***************************************************************************)
(* The worker loop.  The owner runs it too, at the end of close().         *)
(***************************************************************************)
\* A packet with an object whose I/O succeeded: call its callback.
TakeCompletion(t) ==
  /\ At(t, "wait") /\ queue # <<>>
  /\ IsCompletion(Head(queue)) /\ Head(queue).ok
  /\ queue' = Tail(queue)
  /\ cur' = [cur EXCEPT ![t] = Head(queue).op]
  /\ runs' = [runs EXCEPT ![Head(queue).op] = @ + 1]
  /\ Goto(t, "callback")
  /\ UNCHANGED <<initialized, terminated, pending, scan, priority, kernel,
                 mainVars, fate>>

\* A packet of a failed I/O: GetQueuedCompletionStatus returns FALSE, which
\* ends the loop; nobody takes over the reference the packet carried.
TakeFailure(t) ==
  /\ At(t, "wait") /\ queue # <<>>
  /\ IsCompletion(Head(queue)) /\ ~Head(queue).ok
  /\ queue' = Tail(queue)
  /\ fate' = [fate EXCEPT ![Head(queue).op] = "leaked"]
  /\ Goto(t, LoopEnd(t))
  /\ UNCHANGED <<initialized, terminated, pending, scan, priority, kernel, cur,
                 mainVars, runs>>

TakeSignal(t) ==
  /\ At(t, "wait") /\ queue # <<>> /\ IsSignal(Head(queue))
  /\ queue' = Tail(queue)
  /\ Goto(t, "select")
  /\ UNCHANGED <<initialized, terminated, pending, scan, priority, kernel, cur,
                 mainVars, histVars>>

TakeTerminate(t) ==
  /\ At(t, "wait") /\ queue # <<>> /\ IsTerminate(Head(queue))
  /\ queue' = Tail(queue)
  /\ Goto(t, "terminate")
  /\ UNCHANGED <<initialized, terminated, pending, scan, priority, kernel, cur,
                 mainVars, histVars>>

\* worker(0): only the owner polls with a zero timeout.
DrainTimeout ==
  /\ At(Main, "wait") /\ queue = <<>>
  /\ Goto(Main, "closed")
  /\ UNCHANGED <<portVars, priority, kernel, cur, mainVars, histVars>>

\* Mutant: read_file() forgets its key 1 packet.
PushTaskUnsignalled(t, r) ==
  /\ At(t, "callback")
  /\ fate[r] = "new"
  /\ pending' = Append(pending, [op |-> r, by |-> t])
  /\ fate' = [fate EXCEPT ![r] = "live"]
  /\ UNCHANGED <<initialized, terminated, queue, scan, priority, kernel, pc,
                 cur, mainVars, runs>>

\* read_file(), its critical section: the task enters _pending ...
PushTask(t, r) ==
  /\ At(t, "callback")
  /\ fate[r] = "new"
  /\ pending' = Append(pending, [op |-> r, by |-> t])
  /\ fate' = [fate EXCEPT ![r] = "live"]
  /\ Goto(t, "signal")
  /\ UNCHANGED <<initialized, terminated, queue, scan, priority, kernel, cur,
                 mainVars, runs>>

\* ... and its last statement: the key 1 packet.  ERROR_CANCELLED leaves the
\* callback; if nothing in it catches the exception it leaves the loop too.
PostSignal(t) ==
  /\ At(t, "signal")
  /\ IF ~Refused(Signal)
     THEN /\ queue' = Append(queue, Signal)
          /\ Goto(t, "callback")
          /\ UNCHANGED <<cur, fate>>
     ELSE /\ IF cur[t] \in Guarded
             THEN Settle(t, "done") /\ Goto(t, "wait")
             ELSE Settle(t, "dropped") /\ Goto(t, LoopEnd(t))
          /\ UNCHANGED queue
  /\ UNCHANGED <<initialized, terminated, pending, scan, priority, kernel,
                 mainVars, runs>>

\* Mutant: a callback that is done ends the loop.
ReturnEnds(t, r) ==
  /\ At(t, "callback") /\ r =< 0
  /\ Settle(t, IF r < 0 THEN "done" ELSE "kept")
  /\ Goto(t, LoopEnd(t))
  /\ UNCHANGED <<portVars, priority, kernel, mainVars, runs>>

\* The callback returns r: release (r < 0), keep (r = 0) or queue again (r > 0).
Return(t, r) ==
  /\ At(t, "callback")
  /\ \/ r < 0 /\ Settle(t, "done") /\ Goto(t, "wait")
     \/ r = 0 /\ Settle(t, "kept") /\ Goto(t, "wait")
     \/ /\ r > 0 /\ runs[cur[t]] =< MaxRequeue
        /\ Goto(t, "post")
        /\ UNCHANGED <<fate, cur>>
  /\ UNCHANGED <<portVars, priority, kernel, mainVars, runs>>

\* Key 1: under the mutex, take the pending task the scan selects.
SelectTask(t) ==
  /\ At(t, "select")
  /\ IF pending = <<>>
     THEN Goto(t, "wait") /\ UNCHANGED <<pending, scan, cur>>
     ELSE LET found == Found([i \in 1 .. Len(pending) |->
                                priority[FileOf[pending[i].op]]], scan)
          IN  /\ scan' = found
              /\ cur' = [cur EXCEPT ![t] = pending[found + 1].op]
              /\ pending' = RemoveAt(pending, found + 1)
              /\ Goto(t, "enqueue")
  /\ UNCHANGED <<initialized, terminated, queue, priority, kernel, mainVars,
                 histVars>>

(***************************************************************************)
(* enqueue(): five outcomes.                                               *)
(***************************************************************************)
\* Nothing to read, or ReadFile completed at once: post the completion.
EnqueueCompleted(t) ==
  /\ At(t, "enqueue")
  /\ cur[t] \in EmptyReads \/ ~terminated
  /\ Goto(t, "post")
  /\ UNCHANGED <<portVars, priority, kernel, cur, mainVars, histVars>>

\* Mutant: the thread keeps its reference to a read the system has accepted.
EnqueueIssuedKept(t) ==
  /\ At(t, "enqueue")
  /\ cur[t] \notin EmptyReads /\ ~terminated
  /\ kernel' = kernel \cup {[op |-> cur[t], by |-> t, cancelled |-> FALSE]}
  /\ Goto(t, "wait")
  /\ UNCHANGED <<portVars, priority, cur, mainVars, histVars>>

\* ERROR_IO_PENDING: the reference passes to the operating system.
EnqueueIssued(t) ==
  /\ At(t, "enqueue")
  /\ cur[t] \notin EmptyReads /\ ~terminated
  /\ kernel' = kernel \cup {[op |-> cur[t], by |-> t, cancelled |-> FALSE]}
  /\ cur' = [cur EXCEPT ![t] = None]
  /\ Goto(t, "wait")
  /\ UNCHANGED <<portVars, priority, mainVars, histVars>>

\* Any other error: CheckAndThrow leaves the loop and the task is released.
EnqueueFailed(t) ==
  /\ At(t, "enqueue")
  /\ cur[t] \in Faulty \ EmptyReads /\ ~terminated
  /\ Settle(t, "dropped")
  /\ Goto(t, LoopEnd(t))
  /\ UNCHANGED <<portVars, priority, kernel, mainVars, runs>>

\* Mutant: a read of no bytes is released without its completion.
EnqueueRefusedEmpty(t) ==
  /\ At(t, "enqueue")
  /\ cur[t] \in EmptyReads \/ terminated
  /\ Settle(t, "dropped")
  /\ Goto(t, "wait")
  /\ UNCHANGED <<portVars, priority, kernel, mainVars, runs>>

\* After termination the task is released without being issued.
EnqueueRefused(t) ==
  /\ At(t, "enqueue")
  /\ cur[t] \notin EmptyReads /\ terminated
  /\ Settle(t, "dropped")
  /\ Goto(t, "wait")
  /\ UNCHANGED <<portVars, priority, kernel, mainVars, runs>>

\* post() of a completion: by enqueue(), or because a callback returned r > 0.
PostCompletion(t) ==
  /\ At(t, "post")
  /\ LET p == Completion(cur[t], TRUE)
     IN  IF ~Refused(p)
         THEN /\ queue' = Append(queue, p)
              /\ cur' = [cur EXCEPT ![t] = None]
              /\ Goto(t, "wait")
              /\ UNCHANGED fate
         ELSE /\ Settle(t, "dropped")
              /\ Goto(t, LoopEnd(t))
              /\ UNCHANGED queue
  /\ UNCHANGED <<initialized, terminated, pending, scan, priority, kernel,
                 mainVars, runs>>

(***************************************************************************)
(* Termination.                                                            *)
(***************************************************************************)
SetTerminated(t) ==
  /\ At(t, "terminate")
  /\ terminated' = TRUE
  /\ Goto(t, "cancel")
  /\ UNCHANGED <<initialized, queue, pending, scan, priority, kernel, cur,
                 mainVars, histVars>>

\* cancel_thread_ios(): CancelIo on the file of every task this thread asked
\* for and nobody has taken yet; it reaches the reads this thread has issued.
CancelThreadIos(t) ==
  LET asked == {FileOf[pending[i].op] :
                  i \in {j \in DOMAIN pending : pending[j].by = t}}
  IN  kernel' = {[k EXCEPT !.cancelled = @ \/ (k.by = t /\ FileOf[k.op] \in asked)] :
                   k \in kernel}

EndOnTerminate(t) ==
  /\ At(t, "cancel")
  /\ CancelThreadIos(t)
  /\ Goto(t, LoopEnd(t))
  /\ UNCHANGED <<portVars, priority, cur, mainVars, histVars>>

\* Mutant: the loop of close() starts at 1.
BeginCloseShort ==
  /\ pc[Main] \in {"open", "closed"} /\ closes < MaxClose
  /\ closes' = closes + 1
  /\ toPost' = IF initialized /\ closes = 0 THEN Cardinality(Workers) - 1 ELSE 0
  /\ Goto(Main, "closing")
  /\ UNCHANGED <<portVars, priority, kernel, cur, histVars>>

\* close(): one termination packet for each thread of the pool, ...
BeginClose ==
  /\ pc[Main] \in {"open", "closed"} /\ closes < MaxClose
  /\ closes' = closes + 1
  /\ toPost' = IF initialized /\ closes = 0 THEN Cardinality(Workers) ELSE 0
  /\ Goto(Main, "closing")
  /\ UNCHANGED <<portVars, priority, kernel, cur, histVars>>

PostTerminate ==
  /\ At(Main, "closing") /\ toPost > 0
  /\ queue' = Append(queue, Terminate)
  /\ toPost' = toPost - 1
  /\ UNCHANGED <<initialized, terminated, pending, scan, priority, kernel, pc,
                 cur, closes, histVars>>

\* ... then cancel_thread_ios(), ...
CloseCancel ==
  /\ At(Main, "closing") /\ toPost = 0
  /\ CancelThreadIos(Main)
  /\ Goto(Main, "join")
  /\ UNCHANGED <<portVars, priority, cur, mainVars, histVars>>

\* ... _threads.clear(), which joins every thread, and worker(0).
Join ==
  /\ At(Main, "join")
  /\ \A w \in Workers : pc[w] \in {"unborn", "exited"}
  /\ Goto(Main, "wait")
  /\ UNCHANGED <<portVars, priority, kernel, cur, mainVars, histVars>>

\* The program goes on without the port.
Closed == At(Main, "closed") /\ UNCHANGED vars
-----------------------------------------------------------------------------
Loop(t) ==
  \/ TakeCompletion(t) \/ TakeFailure(t) \/ TakeSignal(t) \/ TakeTerminate(t)
  \/ PostSignal(t) \/ SelectTask(t) \/ PostCompletion(t)
  \/ EnqueueCompleted(t) \/ EnqueueIssued(t) \/ EnqueueFailed(t)
  \/ EnqueueRefused(t) \/ SetTerminated(t) \/ EndOnTerminate(t)

Callback(t) ==
  \/ \E r \in Reads : PushTask(t, r)
  \/ \E r \in {-1, 0, 1} : Return(t, r)

Close == BeginClose \/ PostTerminate \/ CloseCancel \/ Join \/ DrainTimeout

Kernel == \E k \in kernel : KernelSucceeds(k) \/ KernelFails(k)

Next ==
  \/ \E j \in Jobs : PostJob(j)
  \/ \E f \in Files, p \in Priorities : SetPriority(f, p)
  \/ \E t \in Threads : Loop(t) \/ Callback(t)
  \/ Close \/ Kernel \/ Closed

Spec == Init /\ [][Next]_vars

(***************************************************************************)
(* Fairness: the scheduler runs every thread that can run, a callback      *)
(* returns, the operating system completes every read it accepted, and a   *)
(* close() that was begun is carried on.  Nothing forces the owner to post *)
(* a job or to close.                                                      *)
(***************************************************************************)
Fairness ==
  /\ \A t \in Threads : WF_vars(Loop(t)) /\ WF_vars(Return(t, -1))
  /\ WF_vars(PostTerminate \/ CloseCancel \/ Join \/ DrainTimeout)
  /\ WF_vars(Kernel)

FairSpec == Spec /\ Fairness
-----------------------------------------------------------------------------
(***************************************************************************)
(* Properties.                                                             *)
(***************************************************************************)
Signals  == {i \in DOMAIN queue : IsSignal(queue[i])}
Waking   == {t \in Threads : At(t, "select")}  \* took a signal, not yet a task
Pushing  == {t \in Threads : At(t, "signal")}  \* pushed a task, not yet a signal

\* No lost and no spurious wake-up: for every pending task there is exactly
\* one key 1 packet in the queue, one worker that took such a packet and is
\* about to scan, or one callback that is about to post it.  Once _terminated
\* is set read_file() may push a task and fail to post its packet, so tasks
\* may then outnumber the wake-ups, but a wake-up always finds a task.
WakeUp ==
  LET owed == Cardinality(Signals) + Cardinality(Waking) + Cardinality(Pushing)
  IN  IF terminated THEN Len(pending) >= owed ELSE Len(pending) = owed

\* Every live object has exactly one holder among the completion queue, the
\* pending tasks, the operating system and the threads, and an object that is
\* not live has none: it is never completed twice, issued twice, or reachable
\* after its reference was released.
SingleHolder ==
  \A o \in Ops :
    Cardinality({i \in DOMAIN queue : queue[i].op = o})
    + Cardinality({i \in DOMAIN pending : pending[i].op = o})
    + Cardinality({k \in kernel : k.op = o})
    + Cardinality({t \in Threads : cur[t] = o})
      = IF fate[o] = "live" THEN 1 ELSE 0

\* The pool loses a thread only to a termination packet or to a failed I/O:
\* until a worker has set _terminated every failed read has cost at most one
\* thread, and nothing else, whatever the callbacks do, has cost any.
PoolAlive ==
  (initialized /\ ~terminated) =>
     /\ \A w \in Workers : ~At(w, "unborn")
     /\ Cardinality({w \in Workers : At(w, "exited")})
          =< Cardinality({r \in Faulty : fate[r] \in {"leaked", "dropped"}})

\* close() returns: it posts enough termination packets for every thread it
\* joins, also when some of them have left the loop before, and its own pass
\* of the worker loop comes to an end.
CloseReturns == (pc[Main] = "closing") ~> (pc[Main] = "closed")

\* The port implements the service it promises (AsyncReadService): nothing is
\* dropped or leaked before close() unless its own I/O failed, and what has been
\* served or given up stays so.
Service ==
  INSTANCE AsyncReadService WITH
    Objects <- Ops,
    Unreliable <- Faulty,
    Strength <- Cardinality(Workers),
    status <- [o \in Ops |->
                 CASE fate[o] = "new" -> "idle"
                   [] fate[o] = "live" -> "submitted"
                   [] fate[o] \in {"done", "kept"} -> "served"
                   [] OTHER -> "abandoned"],
    closing <- closes > 0

\* And every submitted object is served until close() is called, as long as failed
\* reads have not cost every thread.
ImplementsService == Service!FairSpec

\* io_completion_port_impl.hpp, life cycle of a task, step 5: when the I/O
\* completes, the callback of the object is invoked.  A completion that is
\* dequeued is never dropped without its callback.
CompletionRunsCallback == \A r \in Reads : fate[r] = "leaked" => runs[r] > 0
=============================================================================
